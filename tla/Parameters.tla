----------------------------- MODULE Parameters -----------------------------
(***************************************************************************)
(* The parameters of the image checkers: what each ImProcChecker has in    *)
(* memory (m_Para and the regions made from it), what is in its ini file,  *)
(* and the handlers that edit one and write the other (ImProcChecker.cpp,  *)
(* Checker5678Dlg.cpp, SetParDlg.cpp).                                     *)
(*                                                                         *)
(* Areas are told apart by size and origin, parameters by the checker they *)
(* were chosen for and by whether they need more than six decimals, which  *)
(* is what a file keeps of them.  paraN is cut where a file may stop: num  *)
(* is 0, 1, 4 or 7, and a group is named by its last index.  Saving an ini *)
(* file succeeds and is one step.                                          *)
(***************************************************************************)
EXTENDS Naturals

CONSTANTS
  Checks,       \* the checkers that the settings dialog configures
  Versions,     \* values an operator may type in, besides the shipped ones
  MaxPresses    \* bound: starts and handlers in one behaviour

Measures == {"usb", "circle"}
CheckFiles == Checks \cup (IF "cardtri" \in Checks THEN {"cardtitle"} ELSE {})
Files == Measures \cup CheckFiles

ASSUME ParametersAssumption ==
  /\ Checks \subseteq {"cardtri", "logo", "cover", "code"}
  /\ Versions \subseteq Nat /\ MaxPresses \in Nat

VARIABLES
  running,      \* is the program running?
  files,        \* the ini files
  memory,       \* m_Para of each checker of the dialog
  regions,      \* m_ho_DetectArea and m_ho_ReferArea
  settings,     \* the settings dialog: is it open, m_rect if m_brect, m_ProcCheck
  parted,       \* history: checkers whose file is known not to tell their memory
  presses       \* starts and handlers so far

vars == <<running, files, memory, regions, settings, parted, presses>>

-----------------------------------------------------------------------------
(* Areas and parameters.                                                   *)

\* What a DetectArea may be: never set, all zeros, as shipped, drawn with a side
\* of ten pixels, drawn larger.
Areas == {"unset", "zero", "shipped", "edge", "large"}

\* What an operator may frame; DrawRect refuses a side below ten pixels.
Frames == {"tiny", "edge", "large"}

\* Mutant: any rectangle will do.
MutDrawRect(frame) == TRUE

DrawRect(frame) == frame # "tiny"

\* LoadPara makes a region only of an area with both sides above ten pixels.
Region(area) == IF area \in {"shipped", "large"} THEN area ELSE "none"

Groups == {1, 4, 7}
\* A parameter: whose it is, which one, and whether six decimals are too few for it.
\* The shipped files have none like that; the field of the code's length is an int.
Nobodys == [of |-> "none", version |-> 0, fine |-> FALSE]
Shipped(f) == [of |-> f, version |-> 0, fine |-> FALSE]
Typed(k) == [of : {k}, version : Versions, fine : IF k = "code" THEN {FALSE} ELSE BOOLEAN]
Values == {Nobodys} \cup [of : Files, version : {0} \cup Versions, fine : BOOLEAN]

CheckPara == [decArea : Areas, refArea : Areas, num : {0, 1, 4, 7},
              paraN : [Groups -> Values]]

\* A new CheckPara, and what LoadPara writes into a file that is missing.
Fresh == [decArea |-> "unset", refArea |-> "unset", num |-> 0,
          paraN |-> [i \in Groups |-> Nobodys]]
Default == [Fresh EXCEPT !.decArea = "zero", !.refArea = "zero", !.num = 4]
Missing == [Fresh EXCEPT !.num = 99]

ShippedNum(f) ==
  CASE f = "usb" -> 7 [] f \in {"circle", "cover"} -> 4 [] OTHER -> 1

ShippedFile(f) ==
  [decArea |-> "shipped", refArea |-> "shipped", num |-> ShippedNum(f),
   paraN |-> [i \in Groups |-> IF i <= ShippedNum(f) THEN Shipped(f) ELSE Nobodys]]

-----------------------------------------------------------------------------
(* LoadPara and SavePara on a checker's memory and a file.                 *)

Present(file) == IF file = Missing THEN Default ELSE file

LoadPara(para, file) ==
  [Present(file) EXCEPT
     !.paraN = [i \in Groups |-> IF i <= Present(file).num THEN @[i]
                                                           ELSE para.paraN[i]]]

\* Format %f: what is left of a parameter in a file.
Written(value) == [value EXCEPT !.fine = FALSE]

\* Mutant: all parameters are written, not the first num.
MutSavePara(para, file) == para

SavePara(para, file) ==
  [para EXCEPT
     !.paraN = [i \in Groups |-> IF i <= para.num THEN Written(@[i])
                                                  ELSE Present(file).paraN[i]]]

RegionsOf(para) ==
  [decArea |-> Region(para.decArea), refArea |-> Region(para.refArea)]

-----------------------------------------------------------------------------
Closed == [open |-> FALSE, rect |-> "none", para |-> Fresh]

Init ==
  /\ running = FALSE
  /\ \E present \in SUBSET Files :
       files = [f \in Files |-> IF f \in present THEN ShippedFile(f) ELSE Missing]
  /\ memory = [k \in Measures \cup Checks |-> Fresh]
  /\ regions = [k \in Measures \cup Checks |-> RegionsOf(Fresh)]
  /\ settings = Closed
  /\ parted = {}
  /\ presses = 0

Press == presses < MaxPresses /\ presses' = presses + 1

\* A start loads the two measuring checkers, in OnInitDialog; the checkers of the
\* settings dialog keep what their constructor gave them.
Start ==
  /\ ~running /\ running' = TRUE /\ Press
  /\ files' = [f \in Files |-> IF f \in Measures THEN Present(files[f]) ELSE files[f]]
  /\ memory' = [k \in Measures \cup Checks |->
                  IF k \in Measures THEN LoadPara(Fresh, files[k]) ELSE Fresh]
  /\ regions' = [k \in Measures \cup Checks |-> RegionsOf(memory'[k])]
  /\ parted' = {}
  /\ UNCHANGED settings

\* The program ends, by its exit button or not, between two handlers.
Quit ==
  /\ running /\ running' = FALSE
  /\ settings' = Closed
  /\ UNCHANGED <<files, memory, regions, parted, presses>>

MainDialog == running /\ ~settings.open /\ Press /\ UNCHANGED running

-----------------------------------------------------------------------------
(* The handlers of the two measuring checkers.                             *)

\* Mutant: the checker is not loaded again after the areas were saved.
MutDrawArea(c, first, second) ==
  /\ MainDialog
  /\ DrawRect(second)
  /\ memory' = [memory EXCEPT
                  ![c].decArea = IF DrawRect(first) THEN first ELSE "unset",
                  ![c].refArea = second]
  /\ files' = [files EXCEPT ![c] = SavePara(memory'[c], @)]
  /\ parted' = parted \ {c}
  /\ UNCHANGED <<regions, settings>>

\* OnBnClickedButtonDrawarea and ...2: frame the measured area, frame the area of
\* reference, save, load.  A refused reference ends the handler; a refused measured
\* area does not, and its rect is the new one.
DrawArea(c, first, second) ==
  /\ MainDialog
  /\ DrawRect(second)
  /\ LET drawn == [memory[c] EXCEPT
                     !.decArea = IF DrawRect(first) THEN first ELSE "unset",
                     !.refArea = second]
     IN /\ files' = [files EXCEPT ![c] = SavePara(drawn, @)]
        /\ memory' = [memory EXCEPT ![c] = LoadPara(drawn, files'[c])]
  /\ regions' = [regions EXCEPT ![c] = RegionsOf(memory'[c])]
  /\ parted' = parted \ {c}
  /\ UNCHANGED settings

\* The parameters when the dialog is left with OK: the first so many of them are
\* copied from its fields, left alone or typed over.
Edited(para, k, fields) ==
  {para} \cup
  {[para EXCEPT !.paraN = [i \in Groups |-> IF i <= fields THEN value ELSE @[i]]] :
     value \in Typed(k)}

\* Mutant: the wrong file, as for the circle.
MutSetParaUSB ==
  /\ MainDialog
  /\ \E new \in Edited(memory["usb"], "usb", 7) :
       /\ memory' = [memory EXCEPT !["usb"] = new]
       /\ files' = [files EXCEPT !["circle"] = SavePara(new, @)]
  /\ parted' = parted \ {"usb"}
  /\ UNCHANGED <<regions, settings>>

\* OnBnClickedButton5.
SetParaUSB ==
  /\ MainDialog
  /\ \E new \in Edited(memory["usb"], "usb", 7) :
       /\ memory' = [memory EXCEPT !["usb"] = new]
       /\ files' = [files EXCEPT !["usb"] = SavePara(new, @)]
  /\ parted' = parted \ {"usb"}
  /\ UNCHANGED <<regions, settings>>

\* OnBnClickedButton6, which writes the circle's parameters to the file of the
\* USB checker.
SetParaCircle ==
  /\ MainDialog
  /\ \E new \in Edited(memory["circle"], "circle", 4) :
       /\ memory' = [memory EXCEPT !["circle"] = new]
       /\ files' = [files EXCEPT !["usb"] = SavePara(new, @)]
  /\ parted' = Measures
  /\ UNCHANGED <<regions, settings>>

-----------------------------------------------------------------------------
(* The settings dialog, SetParDlg, modal over the main dialog.             *)

OpenSettings ==
  /\ MainDialog
  /\ settings' = [Closed EXCEPT !.open = TRUE]
  /\ UNCHANGED <<files, memory, regions, parted>>

InSettings == running /\ settings.open /\ Press /\ UNCHANGED <<running, parted>>

\* OnBnClickedButtonDraw.
DrawSettings(frame) ==
  /\ InSettings
  /\ settings' = [settings EXCEPT !.rect = IF DrawRect(frame) THEN frame ELSE "none"]
  /\ UNCHANGED <<files, memory, regions>>

\* OnBnClickedButtonSaveas...: load, put the area in, save.  The card has two
\* files; a fifth button asks for the desiccant and saves the film ("cover").
SaveAs(k) ==
  /\ InSettings
  /\ settings.rect # "none"
  /\ settings' = [settings EXCEPT
                    !.para = [LoadPara(@, files[k]) EXCEPT !.decArea = settings.rect]]
  /\ files' = [f \in Files |->
       IF f = k THEN SavePara(settings'.para, files[f])
       ELSE IF k = "cardtri" /\ f = "cardtitle"
         THEN SavePara([LoadPara(Fresh, files[f]) EXCEPT !.decArea = settings.rect],
                       files[f])
         ELSE files[f]]
  /\ UNCHANGED <<memory, regions>>

\* The three buttons that make a model of the framed area; it is used up.
MakeModel ==
  /\ InSettings
  /\ settings.rect # "none"
  /\ settings' = [settings EXCEPT !.rect = "none"]
  /\ UNCHANGED <<files, memory, regions>>

\* The first parameter of each checker when the dialog is left with OK: its field,
\* left alone or typed over.
TypedOver(version, fine) ==
  [k \in Measures \cup Checks |->
     [memory[k] EXCEPT !.paraN[1] = [of |-> k, version |-> version,
                                     fine |-> fine /\ k # "code"]]]

OneTyped ==
  {memory} \cup {TypedOver(version, fine) : version \in Versions, fine \in BOOLEAN}

\* OK: the fields go to the checkers' memories, the memories to the files and the
\* files back to the memories.
SettingsOK ==
  /\ InSettings
  /\ settings' = Closed
  /\ \E new \in OneTyped :
       /\ files' = [f \in Files |-> IF f \in Checks THEN SavePara(new[f], files[f])
                                                    ELSE files[f]]
       /\ memory' = [k \in Measures \cup Checks |->
                       IF k \in Checks THEN LoadPara(new[k], files'[k]) ELSE memory[k]]
  /\ regions' = [k \in Measures \cup Checks |->
                   IF k \in Checks THEN RegionsOf(memory'[k]) ELSE regions[k]]

SettingsCancel ==
  /\ InSettings
  /\ settings' = Closed
  /\ UNCHANGED <<files, memory, regions>>

-----------------------------------------------------------------------------
Next ==
  \/ Start \/ Quit
  \/ \E c \in Measures, first, second \in Frames : DrawArea(c, first, second)
  \/ SetParaUSB \/ SetParaCircle
  \/ OpenSettings
  \/ \E frame \in Frames : DrawSettings(frame)
  \/ \E k \in Checks : SaveAs(k)
  \/ MakeModel
  \/ SettingsOK \/ SettingsCancel

Spec == Init /\ [][Next]_vars

-----------------------------------------------------------------------------
(* Properties.                                                             *)

TypeOK ==
  /\ running \in BOOLEAN
  /\ files \in [Files -> CheckPara \cup {Missing}]
  /\ memory \in [Measures \cup Checks -> CheckPara]
  /\ regions \in [Measures \cup Checks ->
                    [decArea : Areas \cup {"none"}, refArea : Areas \cup {"none"}]]
  /\ settings \in [open : BOOLEAN, rect : {"edge", "large", "none"}, para : CheckPara]
  /\ parted \subseteq Measures
  /\ presses \in 0..MaxPresses

\* The regions a measurement runs on are those of the parameters in memory, which
\* the parameter dialogs show and the next save writes.
RegionTellsArea ==
  running => \A k \in Measures \cup Checks : regions[k] = RegionsOf(memory[k])

\* What a save leaves of the parameters in memory: six decimals of the first num.
Rounded(para) ==
  [para EXCEPT !.paraN = [i \in Groups |-> IF i <= para.num THEN Written(@[i]) ELSE @[i]]]

\* A restart changes no more than the digits %f drops: whatever was framed, typed,
\* saved as or abandoned before, the file of a measuring checker tells what it has
\* in memory, rounded, as far as the file's num goes.  (The dialog does not load
\* what it saved: until the restart the checker measures with the digits typed.)
\* Only the circle's OK button parts the two, until one of them is saved.
RestartKeeps ==
  running => \A c \in Measures \ parted :
               files[c] # Missing /\ LoadPara(memory[c], files[c]) = Rounded(memory[c])

\* No checker gets parameters chosen for another one, although the settings dialog
\* passes the parameters of all its files through one checker's memory; only
\* usb.ini takes those of the circle.
Owners(k) == {k, "none"} \cup (IF k = "usb" THEN {"circle"} ELSE {})

ParametersOwned ==
  /\ \A f \in Files : \A i \in Groups : files[f].paraN[i].of \in Owners(f)
  /\ \A k \in Measures \cup Checks : \A i \in Groups :
       memory[k].paraN[i].of \in Owners(k)

\* "Saved": the parameters the circle's OK button reports as saved are those a
\* restart loads for the circle, to six decimals.
CircleParametersKept ==
  running => \A i \in Groups :
    i <= memory["circle"].num =>
      files["circle"].paraN[i] = Written(memory["circle"].paraN[i])

\* "Saved": the area just framed and reported as saved is the one measured on.
FramedAreaUsed ==
  [][\A c \in Measures, first, second \in Frames :
       DrawArea(c, first, second) => regions'[c].decArea = first]_vars

\* No file holds more than the six decimals it was written with, so loading one and
\* saving it again changes no parameter (part of the inductive invariant).
FilesRounded == \A f \in Files : \A i \in Groups : ~files[f].paraN[i].fine
=============================================================================
