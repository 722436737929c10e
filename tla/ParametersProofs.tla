-------------------------- MODULE ParametersProofs --------------------------
(***************************************************************************)
(* Proofs about Parameters, for any checkers of the settings dialog, any   *)
(* values typed in and any number of starts and handlers: the types, that  *)
(* the regions are those of the memory, that parameters stay with their    *)
(* checker, and that a restart brings back what is in memory, to the six   *)
(* decimals a file keeps.                                                  *)
(***************************************************************************)
EXTENDS Parameters, TLAPS

Checkers == Measures \cup Checks

-----------------------------------------------------------------------------
(* LoadPara and SavePara *)

\* The sets of parameters the code writes itself, and the one it never writes.
LEMMA Constants ==
  /\ Fresh \in CheckPara
  /\ Default \in CheckPara
  /\ Nobodys \in Values
  /\ Missing \notin CheckPara
<1>1. Nobodys \in Values
  BY DEF Values
<1>2. Fresh \in CheckPara
  BY <1>1 DEF Fresh, CheckPara, Areas
<1>3. Default \in CheckPara
  BY <1>2 DEF Default, Fresh, CheckPara, Areas
<1>4. Missing.num = 99
  BY DEF Missing, Fresh
<1>5. QED
  BY <1>1, <1>2, <1>3, <1>4 DEF CheckPara

(* A file that is read is one that is there. *)
LEMMA PresentType ==
  ASSUME NEW file \in CheckPara \cup {Missing}
  PROVE  Present(file) \in CheckPara
BY Constants DEF Present

(* LoadPara, field by field. *)
LEMMA LoadFields ==
  ASSUME NEW para \in CheckPara, NEW file \in CheckPara \cup {Missing}
  PROVE  /\ LoadPara(para, file) \in CheckPara
         /\ LoadPara(para, file).decArea = Present(file).decArea
         /\ LoadPara(para, file).refArea = Present(file).refArea
         /\ LoadPara(para, file).num = Present(file).num
         /\ \A i \in Groups : LoadPara(para, file).paraN[i] =
              IF i <= Present(file).num THEN Present(file).paraN[i] ELSE para.paraN[i]
<1> DEFINE new == [i \in Groups |-> IF i <= Present(file).num THEN Present(file).paraN[i]
                                                               ELSE para.paraN[i]]
<1>1. Present(file) \in CheckPara
  BY PresentType
<1>2. LoadPara(para, file) = [Present(file) EXCEPT !.paraN = new]
  BY DEF LoadPara
<1>3. new \in [Groups -> Values]
  BY <1>1 DEF CheckPara
<1>4. QED
  BY <1>1, <1>2, <1>3 DEF CheckPara

(* What is left of a parameter in a file is a parameter of the same checker, and
   writing it again changes nothing. *)
LEMMA WrittenValue ==
  ASSUME NEW value \in Values
  PROVE  /\ Written(value) \in Values
         /\ Written(value).of = value.of
         /\ ~Written(value).fine
         /\ Written(Written(value)) = Written(value)
         /\ ~value.fine => Written(value) = value
<1>1. CASE value = Nobodys
  <2>1. \A other \in [of : {"none"}, version : {0}, fine : BOOLEAN] :
          ~other.fine => Written(other) = other
    BY DEF Written
  <2>2. Nobodys \in [of : {"none"}, version : {0}, fine : BOOLEAN]
    BY DEF Nobodys
  <2>3. Nobodys \in Values /\ ~Nobodys.fine
    BY DEF Nobodys, Values
  <2>4. QED
    BY <1>1, <2>1, <2>2, <2>3
<1>2. CASE value \in [of : Files, version : {0} \cup Versions, fine : BOOLEAN]
  BY <1>2 DEF Written, Values
<1>3. QED
  BY <1>1, <1>2 DEF Values

(* SavePara, field by field. *)
LEMMA SaveFields ==
  ASSUME NEW para \in CheckPara, NEW file \in CheckPara \cup {Missing}
  PROVE  /\ SavePara(para, file) \in CheckPara
         /\ SavePara(para, file).decArea = para.decArea
         /\ SavePara(para, file).refArea = para.refArea
         /\ SavePara(para, file).num = para.num
         /\ \A i \in Groups : SavePara(para, file).paraN[i] =
              IF i <= para.num THEN Written(para.paraN[i]) ELSE Present(file).paraN[i]
<1> DEFINE new == [i \in Groups |-> IF i <= para.num THEN Written(para.paraN[i])
                                                     ELSE Present(file).paraN[i]]
<1>1. Present(file) \in CheckPara
  BY PresentType
<1>2. SavePara(para, file) = [para EXCEPT !.paraN = new]
  BY DEF SavePara
<1>3. new \in [Groups -> Values]
  BY <1>1, WrittenValue DEF CheckPara
<1>4. QED
  BY <1>2, <1>3 DEF CheckPara

(* Rounded, field by field. *)
LEMMA RoundedFields ==
  ASSUME NEW para \in CheckPara
  PROVE  /\ Rounded(para) \in CheckPara
         /\ Rounded(para).decArea = para.decArea
         /\ Rounded(para).refArea = para.refArea
         /\ Rounded(para).num = para.num
         /\ \A i \in Groups : Rounded(para).paraN[i] =
              IF i <= para.num THEN Written(para.paraN[i]) ELSE para.paraN[i]
<1> DEFINE new == [i \in Groups |-> IF i <= para.num THEN Written(para.paraN[i])
                                                     ELSE para.paraN[i]]
<1>1. Rounded(para) = [para EXCEPT !.paraN = new]
  BY DEF Rounded
<1>2. new \in [Groups -> Values]
  BY WrittenValue DEF CheckPara
<1>3. QED
  BY <1>1, <1>2 DEF CheckPara

(* Parameters are equal when their fields are. *)
LEMMA SameFields ==
  ASSUME NEW p \in CheckPara, NEW q \in CheckPara,
         p.decArea = q.decArea, p.refArea = q.refArea, p.num = q.num,
         \A i \in Groups : p.paraN[i] = q.paraN[i]
  PROVE  p = q
<1>1. p.paraN = q.paraN
  BY DEF CheckPara
<1>2. QED
  BY <1>1 DEF CheckPara

(* What was saved is what a load brings back, to six decimals. *)
LEMMA SavedIsLoaded ==
  ASSUME NEW para \in CheckPara, NEW file \in CheckPara \cup {Missing}
  PROVE  /\ SavePara(para, file) # Missing
         /\ LoadPara(para, SavePara(para, file)) = Rounded(para)
<1> DEFINE saved == SavePara(para, file)
<1>1. saved \in CheckPara /\ saved # Missing
  BY SaveFields, Constants
<1>2. Present(saved) = saved
  BY <1>1 DEF Present
<1>3. /\ LoadPara(para, saved) \in CheckPara
      /\ LoadPara(para, saved).decArea = para.decArea
      /\ LoadPara(para, saved).refArea = para.refArea
      /\ LoadPara(para, saved).num = para.num
  BY <1>1, <1>2, SaveFields, LoadFields
<1>4. \A i \in Groups : LoadPara(para, saved).paraN[i] = Rounded(para).paraN[i]
  <2>1. \A i \in Groups : saved.paraN[i] =
          IF i <= para.num THEN Written(para.paraN[i]) ELSE Present(file).paraN[i]
    BY SaveFields
  <2>2. saved.num = para.num
    BY SaveFields
  <2>3. \A i \in Groups : LoadPara(para, saved).paraN[i] =
          IF i <= saved.num THEN saved.paraN[i] ELSE para.paraN[i]
    <3> HIDE DEF saved
    <3>1. QED
      BY <1>1, <1>2, LoadFields
  <2> HIDE DEF saved
  <2>4. QED
    BY <2>1, <2>2, <2>3, RoundedFields
<1>5. LoadPara(para, saved) = Rounded(para)
  <2> HIDE DEF saved
  <2>1. QED
    BY <1>3, <1>4, RoundedFields, SameFields
<1>6. QED
  BY <1>1, <1>5

(* Rounding twice is rounding once. *)
LEMMA RoundedTwice ==
  ASSUME NEW para \in CheckPara
  PROVE  Rounded(Rounded(para)) = Rounded(para)
<1> DEFINE once == Rounded(para)
           twice == Rounded(once)
<1>1. once \in CheckPara /\ once.num = para.num
  BY RoundedFields
<1>2. /\ twice \in CheckPara
      /\ twice.decArea = once.decArea
      /\ twice.refArea = once.refArea
      /\ twice.num = once.num
  BY <1>1, RoundedFields
<1>3. \A i \in Groups : twice.paraN[i] = once.paraN[i]
  <2> TAKE i \in Groups
  <2>1. once.paraN[i] = IF i <= para.num THEN Written(para.paraN[i]) ELSE para.paraN[i]
    BY RoundedFields
  <2>2. twice.paraN[i] = IF i <= once.num THEN Written(once.paraN[i]) ELSE once.paraN[i]
    BY <1>1, RoundedFields
  <2>3. para.paraN[i] \in Values
    BY DEF CheckPara
  <2> HIDE DEF once, twice
  <2>4. QED
    BY <1>1, <2>1, <2>2, <2>3, WrittenValue
<1>4. QED
  BY <1>1, <1>2, <1>3, SameFields

(* What a file without more than six decimals gives is rounded already. *)
LEMMA LoadedIsRounded ==
  ASSUME NEW para \in CheckPara, NEW file \in CheckPara \cup {Missing},
         \A i \in Groups : ~file.paraN[i].fine
  PROVE  Rounded(LoadPara(para, file)) = LoadPara(para, file)
<1> DEFINE loaded == LoadPara(para, file)
           rounded == Rounded(loaded)
<1>1. /\ loaded \in CheckPara
      /\ loaded.num = Present(file).num
      /\ \A i \in Groups : loaded.paraN[i] =
           IF i <= loaded.num THEN Present(file).paraN[i] ELSE para.paraN[i]
  BY LoadFields
<1>2. /\ rounded \in CheckPara
      /\ rounded.decArea = loaded.decArea
      /\ rounded.refArea = loaded.refArea
      /\ rounded.num = loaded.num
      /\ \A i \in Groups : rounded.paraN[i] =
           IF i <= loaded.num THEN Written(loaded.paraN[i]) ELSE loaded.paraN[i]
  <2> HIDE DEF loaded
  <2>1. QED
    BY <1>1, RoundedFields
<1>3. \A i \in Groups : ~Present(file).paraN[i].fine /\ Present(file).paraN[i] \in Values
  BY PresentType DEF Present, Default, Fresh, Nobodys, CheckPara
<1>4. \A i \in Groups : rounded.paraN[i] = loaded.paraN[i]
  <2> HIDE DEF loaded, rounded
  <2>1. QED
    BY <1>1, <1>2, <1>3, WrittenValue
<1>5. rounded = loaded
  <2> HIDE DEF loaded, rounded
  <2>1. QED
    BY <1>1, <1>2, <1>4, SameFields
<1>6. QED
  BY <1>5

(* A second load of the same file changes nothing. *)
LEMMA LoadedTwice ==
  ASSUME NEW para \in CheckPara, NEW file \in CheckPara \cup {Missing}
  PROVE  LoadPara(LoadPara(para, file), file) = LoadPara(para, file)
<1> DEFINE once == LoadPara(para, file)
           twice == LoadPara(once, file)
<1>1. once \in CheckPara
  BY LoadFields
<1>2. /\ twice \in CheckPara
      /\ twice.decArea = once.decArea
      /\ twice.refArea = once.refArea
      /\ twice.num = once.num
  BY <1>1, LoadFields
<1>3. \A i \in Groups : twice.paraN[i] = once.paraN[i]
  BY <1>1, LoadFields
<1>4. QED
  BY <1>1, <1>2, <1>3, SameFields

(* A load writes the file that was missing, and reads it the same. *)
LEMMA WrittenByLoad ==
  ASSUME NEW para \in CheckPara, NEW file \in CheckPara \cup {Missing}
  PROVE  /\ Present(file) # Missing
         /\ LoadPara(para, Present(file)) = LoadPara(para, file)
<1>1. Present(file) # Missing
  BY PresentType, Constants
<1>2. Present(Present(file)) = Present(file)
  BY <1>1 DEF Present
<1>3. QED
  BY <1>1, <1>2 DEF LoadPara

(* The regions depend on the areas alone. *)
LEMMA RegionsType ==
  ASSUME NEW para \in CheckPara
  PROVE  RegionsOf(para) \in [decArea : Areas \cup {"none"}, refArea : Areas \cup {"none"}]
BY DEF RegionsOf, Region, CheckPara

(* A file as shipped, for whichever checker. *)
LEMMA ShippedType ==
  ASSUME NEW f \in Files
  PROVE  /\ ShippedFile(f) \in CheckPara
         /\ \A i \in Groups : ShippedFile(f).paraN[i].of \in {f, "none"}
                            /\ ~ShippedFile(f).paraN[i].fine
<1>1. ShippedNum(f) \in {1, 4, 7}
  BY DEF ShippedNum
<1>2. Shipped(f) \in Values /\ Nobodys \in Values
  BY DEF Shipped, Values, Nobodys
<1>3. [i \in Groups |-> IF i <= ShippedNum(f) THEN Shipped(f) ELSE Nobodys]
        \in [Groups -> Values]
  BY <1>2
<1>4. ShippedFile(f) \in CheckPara
  BY <1>1, <1>3 DEF ShippedFile, CheckPara, Areas
<1>5. \A i \in Groups : ShippedFile(f).paraN[i].of \in {f, "none"}
                     /\ ~ShippedFile(f).paraN[i].fine
  BY DEF ShippedFile, Shipped, Nobodys
<1>6. QED
  BY <1>4, <1>5

(* What the fields of a parameter dialog may leave in memory. *)
LEMMA EditedFields ==
  ASSUME NEW para \in CheckPara, NEW k \in Files, NEW fields \in Nat,
         NEW new \in Edited(para, k, fields)
  PROVE  /\ new \in CheckPara
         /\ new.decArea = para.decArea
         /\ new.refArea = para.refArea
         /\ \A i \in Groups : new.paraN[i] = para.paraN[i] \/ new.paraN[i].of = k
<1>1. CASE new = para
  BY <1>1
<1>2. CASE new # para
  <2>1. PICK value \in Typed(k) :
          new = [para EXCEPT !.paraN = [i \in Groups |-> IF i <= fields THEN value
                                                                        ELSE para.paraN[i]]]
    BY <1>2 DEF Edited, CheckPara
  <2>2. value \in Values /\ value.of = k
    BY DEF Typed, Values
  <2> DEFINE typed == [i \in Groups |-> IF i <= fields THEN value ELSE para.paraN[i]]
  <2>3. typed \in [Groups -> Values]
    BY <2>2 DEF CheckPara
  <2>4. new = [para EXCEPT !.paraN = typed]
    BY <2>1
  <2>5. new.paraN = typed
    BY <2>4 DEF CheckPara
  <2>6. \A i \in Groups : new.paraN[i] = para.paraN[i] \/ new.paraN[i].of = k
    BY <2>2, <2>5
  <2>7. new \in CheckPara /\ new.decArea = para.decArea /\ new.refArea = para.refArea
    BY <2>3, <2>4 DEF CheckPara
  <2>8. QED
    BY <2>6, <2>7
<1>3. QED
  BY <1>1, <1>2

-----------------------------------------------------------------------------
(* Types *)

(* Only a started program has anything in memory: the first states. *)
LEMMA TypeInit == Init => TypeOK
<1> SUFFICES ASSUME Init PROVE TypeOK
  OBVIOUS
<1>1. PICK present \in SUBSET Files :
        files = [f \in Files |-> IF f \in present THEN ShippedFile(f) ELSE Missing]
  BY DEF Init
<1>2. files \in [Files -> CheckPara \cup {Missing}]
  BY <1>1, ShippedType
<1>3. memory \in [Measures \cup Checks -> CheckPara]
  BY Constants DEF Init
<1>4. regions \in [Measures \cup Checks ->
                     [decArea : Areas \cup {"none"}, refArea : Areas \cup {"none"}]]
  BY Constants, RegionsType DEF Init
<1>5. settings \in [open : BOOLEAN, rect : {"edge", "large", "none"}, para : CheckPara]
  BY Constants DEF Init, Closed
<1>6. presses \in 0..MaxPresses
  BY ParametersAssumption DEF Init
<1>7. QED
  BY <1>2, <1>3, <1>4, <1>5, <1>6 DEF Init, TypeOK

(* A press is counted up to the bound. *)
LEMMA PressType ==
  ASSUME TypeOK, Press
  PROVE  presses' \in 0..MaxPresses
BY ParametersAssumption DEF TypeOK, Press

(* An operator frames one of the areas there are. *)
LEMMA FramedType ==
  ASSUME NEW para \in CheckPara, NEW area \in Areas
  PROVE  /\ [para EXCEPT !.decArea = area] \in CheckPara
         /\ [para EXCEPT !.refArea = area] \in CheckPara
BY DEF CheckPara

(* What DrawArea saves, and what it then has in memory. *)
LEMMA DrawAreaStep ==
  ASSUME TypeOK, NEW c \in Measures, NEW first \in Frames, NEW second \in Frames,
         DrawArea(c, first, second)
  PROVE  \E drawn \in CheckPara :
           /\ drawn.paraN = memory[c].paraN
           /\ files' = [files EXCEPT ![c] = SavePara(drawn, files[c])]
           /\ memory' = [memory EXCEPT ![c] = LoadPara(drawn, files'[c])]
           /\ regions' = [regions EXCEPT ![c] = RegionsOf(memory'[c])]
<1> DEFINE drawn == [memory[c] EXCEPT
                       !.decArea = IF DrawRect(first) THEN first ELSE "unset",
                       !.refArea = second]
<1>1. /\ files' = [files EXCEPT ![c] = SavePara(drawn, files[c])]
      /\ memory' = [memory EXCEPT ![c] = LoadPara(drawn, files'[c])]
      /\ regions' = [regions EXCEPT ![c] = RegionsOf(memory'[c])]
  BY DEF DrawArea
<1>2. memory[c] \in CheckPara
  BY DEF TypeOK
<1>3. second \in Areas /\ (DrawRect(first) => first \in Areas)
  BY DEF DrawArea, DrawRect, Frames, Areas
<1>4. drawn \in CheckPara /\ drawn.paraN = memory[c].paraN
  BY <1>2, <1>3 DEF CheckPara, Areas
<1>5. QED
  BY <1>1, <1>4

(* Each parameter of a file, read and left alone or read and written. *)
Rewritten(new, old) ==
  \A i \in Groups : new.paraN[i] \in {Present(old).paraN[i], Written(Present(old).paraN[i])}

(* What "save as" writes: the parameters of a file stay those of that file, at most
   written again. *)
LEMMA SaveAsStep ==
  ASSUME TypeOK, NEW k \in Checks, SaveAs(k)
  PROVE  /\ settings' \in [open : BOOLEAN, rect : {"edge", "large", "none"}, para : CheckPara]
         /\ files' \in [Files -> CheckPara \cup {Missing}]
         /\ \A f \in Files : files'[f] = files[f] \/ Rewritten(files'[f], files[f])
         /\ \A c \in Measures : files'[c] = files[c]
<1> DEFINE put(para, f) == [LoadPara(para, files[f]) EXCEPT !.decArea = settings.rect]
<1>1. settings.rect \in Areas
  BY DEF SaveAs, TypeOK, Areas
<1>2. settings.para \in CheckPara /\ k \in Files
  BY DEF TypeOK, Files, CheckFiles
<1>3. ASSUME NEW para \in CheckPara, NEW f \in Files
      PROVE  /\ put(para, f) \in CheckPara
             /\ SavePara(put(para, f), files[f]) \in CheckPara
             /\ Rewritten(SavePara(put(para, f), files[f]), files[f])
  <2> DEFINE loaded == LoadPara(para, files[f])
             saved == SavePara(put(para, f), files[f])
  <2>1. files[f] \in CheckPara \cup {Missing}
    BY DEF TypeOK
  <2>2. /\ loaded \in CheckPara
        /\ loaded.num = Present(files[f]).num
        /\ \A i \in Groups : loaded.paraN[i] =
             IF i <= loaded.num THEN Present(files[f]).paraN[i] ELSE para.paraN[i]
    BY <2>1, LoadFields
  <2>3. /\ put(para, f) \in CheckPara
        /\ put(para, f).num = loaded.num
        /\ put(para, f).paraN = loaded.paraN
    <3> HIDE DEF loaded
    <3>1. put(para, f) = [loaded EXCEPT !.decArea = settings.rect]
      BY DEF loaded
    <3>2. QED
      BY <1>1, <2>2, <3>1 DEF CheckPara
  <2>4. /\ saved \in CheckPara
        /\ \A i \in Groups : saved.paraN[i] =
             IF i <= put(para, f).num THEN Written(put(para, f).paraN[i])
                                      ELSE Present(files[f]).paraN[i]
    <3> HIDE DEF put
    <3>1. QED
      BY <2>1, <2>3, SaveFields
  <2>5. Rewritten(saved, files[f])
    <3> HIDE DEF put, loaded, saved
    <3>1. QED
      BY <2>2, <2>3, <2>4 DEF Rewritten
  <2>6. QED
    BY <2>3, <2>4, <2>5
<1>4. settings' = [settings EXCEPT !.para = put(settings.para, k)]
  BY DEF SaveAs
<1>5. settings'.para = put(settings.para, k)
  <2> HIDE DEF put
  <2>1. QED
    BY <1>4 DEF TypeOK
<1>6. settings' \in [open : BOOLEAN, rect : {"edge", "large", "none"}, para : CheckPara]
  <2>1. put(settings.para, k) \in CheckPara
    BY <1>2, <1>3
  <2> HIDE DEF put
  <2>2. QED
    BY <1>4, <2>1 DEF TypeOK
<1>7. files' = [f \in Files |->
        IF f = k THEN SavePara(put(settings.para, k), files[f])
        ELSE IF k = "cardtri" /\ f = "cardtitle" THEN SavePara(put(Fresh, f), files[f])
        ELSE files[f]]
  BY <1>5 DEF SaveAs
<1>8. \A f \in Files :
        \/ files'[f] = files[f]
        \/ files'[f] \in CheckPara /\ Rewritten(files'[f], files[f])
  <2> TAKE f \in Files
  <2>1. CASE f = k
    BY <1>2, <1>3, <1>7, <2>1
  <2>2. CASE f # k /\ k = "cardtri" /\ f = "cardtitle"
    BY <1>3, <1>7, <2>2, Constants
  <2>3. CASE f # k /\ ~(k = "cardtri" /\ f = "cardtitle")
    BY <1>7, <2>3
  <2>4. QED
    BY <2>1, <2>2, <2>3
<1>9. files' \in [Files -> CheckPara \cup {Missing}]
  <2>1. \A f \in Files : files'[f] \in CheckPara \cup {Missing}
    BY <1>8 DEF TypeOK
  <2>2. QED
    BY <1>7, <2>1
<1>10. \A c \in Measures : files'[c] = files[c]
  <2> HIDE DEF put
  <2>1. QED
    BY <1>7, ParametersAssumption DEF Measures, Files
<1>11. QED
  BY <1>6, <1>8, <1>9, <1>10

(* What the OK of the settings dialog writes and loads: typed values go to the
   checker they were typed for. *)
LEMMA SettingsOKStep ==
  ASSUME TypeOK, SettingsOK
  PROVE  \E new \in [Checks -> CheckPara] :
           /\ \A k \in Checks : \A i \in Groups :
                new[k].paraN[i] = memory[k].paraN[i] \/ new[k].paraN[i].of = k
           /\ files' = [f \in Files |-> IF f \in Checks THEN SavePara(new[f], files[f])
                                                        ELSE files[f]]
           /\ memory' = [k \in Measures \cup Checks |->
                           IF k \in Checks THEN LoadPara(new[k], files'[k])
                                           ELSE memory[k]]
<1>1. PICK typed \in OneTyped :
        /\ files' = [f \in Files |-> IF f \in Checks THEN SavePara(typed[f], files[f])
                                                     ELSE files[f]]
        /\ memory' = [k \in Measures \cup Checks |->
                        IF k \in Checks THEN LoadPara(typed[k], files'[k]) ELSE memory[k]]
  BY DEF SettingsOK
<1> DEFINE new == [k \in Checks |-> typed[k]]
<1>2. ASSUME NEW k \in Checks
      PROVE  /\ typed[k] \in CheckPara
             /\ \A i \in Groups : typed[k].paraN[i] = memory[k].paraN[i]
                                   \/ typed[k].paraN[i].of = k
  <2>1. memory[k] \in CheckPara
    BY DEF TypeOK
  <2>2. CASE typed = memory
    BY <2>1, <2>2
  <2>3. CASE typed # memory
    <3>1. PICK version \in Versions, fine \in BOOLEAN : typed = TypedOver(version, fine)
      BY <2>3 DEF OneTyped
    <3> DEFINE value == [of |-> k, version |-> version, fine |-> fine /\ k # "code"]
    <3>2. typed[k] = [memory[k] EXCEPT !.paraN[1] = value]
      BY <3>1 DEF TypedOver
    <3>3. (fine /\ k # "code") \in BOOLEAN
      OBVIOUS
    <3>4. value \in Values
      BY <3>3 DEF Values, Files, CheckFiles
    <3>5. value.of = k
      OBVIOUS
    <3> HIDE DEF value
    <3>6. [memory[k].paraN EXCEPT ![1] = value] \in [Groups -> Values]
      BY <2>1, <3>4 DEF CheckPara
    <3>7. QED
      BY <2>1, <3>2, <3>5, <3>6 DEF CheckPara
  <2>4. QED
    BY <2>2, <2>3
<1>3. new \in [Checks -> CheckPara]
  BY <1>2
<1>4. files' = [f \in Files |-> IF f \in Checks THEN SavePara(new[f], files[f])
                                                ELSE files[f]]
  BY <1>1
<1>5. memory' = [k \in Measures \cup Checks |->
                   IF k \in Checks THEN LoadPara(new[k], files'[k]) ELSE memory[k]]
  BY <1>1
<1>6. QED
  BY <1>2, <1>3, <1>4, <1>5

(* Every start, handler and end keeps the types. *)
LEMMA TypeStep == TypeOK /\ [Next]_vars => TypeOK'
<1> SUFFICES ASSUME TypeOK, [Next]_vars PROVE TypeOK'
  OBVIOUS
<1> DEFINE Areas2 == [decArea : Areas \cup {"none"}, refArea : Areas \cup {"none"}]
<1> USE DEF Checkers
<1>0. Measures \subseteq Files /\ Checks \subseteq Files
  BY DEF Files, CheckFiles
<1>1. CASE Start
  <2>1. files' \in [Files -> CheckPara \cup {Missing}]
    BY <1>1, PresentType DEF Start, TypeOK
  <2>2. memory' \in [Checkers -> CheckPara]
    BY <1>0, <1>1, LoadFields, Constants DEF Start, TypeOK
  <2>3. regions' \in [Checkers -> Areas2]
    BY <1>1, <2>2, RegionsType DEF Start
  <2>4. QED
    BY <1>1, <2>1, <2>2, <2>3, PressType DEF Start, TypeOK
<1>2. CASE Quit
  BY <1>2, Constants DEF Quit, TypeOK, Closed
<1>3. ASSUME NEW c \in Measures, NEW first \in Frames, NEW second \in Frames,
             DrawArea(c, first, second)
      PROVE  TypeOK'
  <2>1. PICK drawn \in CheckPara :
          /\ files' = [files EXCEPT ![c] = SavePara(drawn, files[c])]
          /\ memory' = [memory EXCEPT ![c] = LoadPara(drawn, files'[c])]
          /\ regions' = [regions EXCEPT ![c] = RegionsOf(memory'[c])]
    BY <1>3, DrawAreaStep
  <2>2. files[c] \in CheckPara \cup {Missing}
    BY <1>0 DEF TypeOK
  <2>3. files' \in [Files -> CheckPara \cup {Missing}]
    BY <2>1, <2>2, SaveFields DEF TypeOK
  <2>4. memory' \in [Checkers -> CheckPara]
    BY <1>0, <2>1, <2>3, LoadFields DEF TypeOK
  <2>5. regions' \in [Checkers -> Areas2]
    BY <2>1, <2>4, RegionsType DEF TypeOK
  <2>6. QED
    BY <1>3, <2>3, <2>4, <2>5, PressType DEF DrawArea, MainDialog, TypeOK
<1>4. CASE SetParaUSB
  <2>1. PICK new \in Edited(memory["usb"], "usb", 7) :
          /\ memory' = [memory EXCEPT !["usb"] = new]
          /\ files' = [files EXCEPT !["usb"] = SavePara(new, files["usb"])]
    BY <1>4 DEF SetParaUSB
  <2>2. "usb" \in Files /\ files["usb"] \in CheckPara \cup {Missing}
    BY <1>0 DEF TypeOK, Measures
  <2>3. memory["usb"] \in CheckPara
    BY DEF TypeOK, Measures
  <2>4. new \in CheckPara
    BY <2>1, <2>2, <2>3, EditedFields
  <2>5. SavePara(new, files["usb"]) \in CheckPara
    BY <2>2, <2>4, SaveFields
  <2>6. QED
    BY <1>4, <2>1, <2>4, <2>5, PressType DEF SetParaUSB, MainDialog, TypeOK
<1>5. CASE SetParaCircle
  <2>1. PICK new \in Edited(memory["circle"], "circle", 4) :
          /\ memory' = [memory EXCEPT !["circle"] = new]
          /\ files' = [files EXCEPT !["usb"] = SavePara(new, files["usb"])]
    BY <1>5 DEF SetParaCircle
  <2>2. "circle" \in Files /\ files["usb"] \in CheckPara \cup {Missing}
    BY <1>0 DEF TypeOK, Measures
  <2>3. memory["circle"] \in CheckPara
    BY DEF TypeOK, Measures
  <2>4. new \in CheckPara
    BY <2>1, <2>2, <2>3, EditedFields
  <2>5. SavePara(new, files["usb"]) \in CheckPara
    BY <2>2, <2>4, SaveFields
  <2>6. QED
    BY <1>5, <2>1, <2>4, <2>5, PressType DEF SetParaCircle, MainDialog, TypeOK
<1>6. CASE OpenSettings
  BY <1>6, PressType, Constants DEF OpenSettings, MainDialog, TypeOK, Closed
<1>7. ASSUME NEW frame \in Frames, DrawSettings(frame) PROVE TypeOK'
  BY <1>7, PressType DEF DrawSettings, DrawRect, Frames, InSettings, TypeOK
<1>8. ASSUME NEW k \in Checks, SaveAs(k) PROVE TypeOK'
  <2>1. /\ settings' \in [open : BOOLEAN, rect : {"edge", "large", "none"}, para : CheckPara]
        /\ files' \in [Files -> CheckPara \cup {Missing}]
    BY <1>8, SaveAsStep
  <2>2. QED
    BY <1>8, <2>1, PressType DEF SaveAs, InSettings, TypeOK
<1>9. CASE MakeModel
  BY <1>9, PressType DEF MakeModel, InSettings, TypeOK
<1>10. CASE SettingsOK
  <2>1. PICK new \in [Checks -> CheckPara] :
          /\ files' = [f \in Files |-> IF f \in Checks THEN SavePara(new[f], files[f])
                                                       ELSE files[f]]
          /\ memory' = [k \in Measures \cup Checks |->
                          IF k \in Checks THEN LoadPara(new[k], files'[k])
                                          ELSE memory[k]]
    BY <1>10, SettingsOKStep
  <2>2. files' \in [Files -> CheckPara \cup {Missing}]
    BY <2>1, SaveFields DEF TypeOK
  <2>3. memory' \in [Checkers -> CheckPara]
    BY <1>0, <2>1, <2>2, LoadFields DEF TypeOK
  <2>4. regions' \in [Checkers -> Areas2]
    BY <1>10, <2>3, RegionsType DEF SettingsOK, TypeOK
  <2>5. settings' = Closed /\ InSettings
    BY <1>10 DEF SettingsOK
  <2>6. settings' \in [open : BOOLEAN, rect : {"edge", "large", "none"}, para : CheckPara]
    BY <2>5, Constants DEF Closed
  <2>7. QED
    BY <2>2, <2>3, <2>4, <2>5, <2>6, PressType DEF InSettings, TypeOK
<1>11. CASE SettingsCancel
  BY <1>11, PressType, Constants DEF SettingsCancel, InSettings, TypeOK, Closed
<1>12. CASE UNCHANGED vars
  BY <1>12 DEF vars, TypeOK
<1>13. QED
  BY <1>1, <1>2, <1>3, <1>4, <1>5, <1>6, <1>7, <1>8, <1>9, <1>10, <1>11, <1>12 DEF Next

-----------------------------------------------------------------------------
(* The regions *)

(* A handler that changes an area in memory makes the regions again. *)
LEMMA RegionStep == TypeOK /\ RegionTellsArea /\ [Next]_vars => RegionTellsArea'
<1> SUFFICES ASSUME TypeOK, RegionTellsArea, [Next]_vars PROVE RegionTellsArea'
  OBVIOUS
<1>1. CASE Start
  BY <1>1 DEF Start, RegionTellsArea
<1>2. CASE Quit
  BY <1>2 DEF Quit, RegionTellsArea
<1>3. ASSUME NEW c \in Measures, NEW first \in Frames, NEW second \in Frames,
             DrawArea(c, first, second)
      PROVE  RegionTellsArea'
  <2>1. PICK drawn \in CheckPara :
          /\ memory' = [memory EXCEPT ![c] = LoadPara(drawn, files'[c])]
          /\ regions' = [regions EXCEPT ![c] = RegionsOf(memory'[c])]
    BY <1>3, DrawAreaStep
  <2>2. running
    BY <1>3 DEF DrawArea, MainDialog
  <2>3. QED
    BY <2>1, <2>2 DEF RegionTellsArea, TypeOK
<1>4. ASSUME NEW k \in Measures, NEW fields \in Nat,
             NEW new \in Edited(memory[k], k, fields),
             memory' = [memory EXCEPT ![k] = new], UNCHANGED regions, running
      PROVE  RegionTellsArea'
  <2>1. memory[k] \in CheckPara /\ k \in Files
    BY DEF TypeOK, Files
  <2>2. RegionsOf(new) = RegionsOf(memory[k])
    BY <1>4, <2>1, EditedFields DEF RegionsOf
  <2>3. QED
    BY <1>4, <2>2 DEF RegionTellsArea, TypeOK
<1>5. CASE SetParaUSB
  BY <1>4, <1>5 DEF SetParaUSB, MainDialog, Measures
<1>6. CASE SetParaCircle
  BY <1>4, <1>6 DEF SetParaCircle, MainDialog, Measures
<1>7. CASE OpenSettings
  BY <1>7 DEF OpenSettings, MainDialog, RegionTellsArea
<1>8. ASSUME NEW frame \in Frames, DrawSettings(frame) PROVE RegionTellsArea'
  BY <1>8 DEF DrawSettings, InSettings, RegionTellsArea
<1>9. ASSUME NEW k \in Checks, SaveAs(k) PROVE RegionTellsArea'
  BY <1>9 DEF SaveAs, InSettings, RegionTellsArea
<1>10. CASE MakeModel
  BY <1>10 DEF MakeModel, InSettings, RegionTellsArea
<1>11. CASE SettingsOK
  <2>1. regions' = [k \in Measures \cup Checks |->
                      IF k \in Checks THEN RegionsOf(memory'[k]) ELSE regions[k]]
    BY <1>11 DEF SettingsOK
  <2>2. \A k \in Measures : k \notin Checks => memory'[k] = memory[k]
    BY <1>11, SettingsOKStep
  <2>3. running
    BY <1>11 DEF SettingsOK, InSettings
  <2>4. QED
    BY <2>1, <2>2, <2>3 DEF RegionTellsArea
<1>12. CASE SettingsCancel
  BY <1>12 DEF SettingsCancel, InSettings, RegionTellsArea
<1>13. CASE UNCHANGED vars
  BY <1>13 DEF vars, RegionTellsArea
<1>14. QED
  BY <1>1, <1>2, <1>3, <1>5, <1>6, <1>7, <1>8, <1>9, <1>10, <1>11, <1>12, <1>13 DEF Next

-----------------------------------------------------------------------------
(* Six decimals *)

(* Only %f writes a parameter to a file, or the file is as it was. *)
LEMMA RoundedStep == TypeOK /\ FilesRounded /\ [Next]_vars => FilesRounded'
<1> SUFFICES ASSUME TypeOK, FilesRounded, [Next]_vars PROVE FilesRounded'
  OBVIOUS
<1> DEFINE Coarse(file) == \A i \in Groups : ~file.paraN[i].fine
<1>0. /\ Measures \subseteq Files /\ Checks \subseteq Files
      /\ \A f \in Files : files[f] \in CheckPara \cup {Missing} /\ Coarse(files[f])
  BY DEF Files, CheckFiles, TypeOK, FilesRounded
<1>1. \A f \in Files : Coarse(Present(files[f]))
  BY <1>0 DEF Present, Default, Fresh, Nobodys
<1>2. \A para \in CheckPara, f \in Files : Coarse(SavePara(para, files[f]))
  BY <1>0, <1>1, SaveFields, WrittenValue DEF CheckPara
<1>3. (\A f \in Files : Coarse(files'[f])) => FilesRounded'
  BY DEF FilesRounded
<1>4. CASE Start
  BY <1>0, <1>1, <1>3, <1>4 DEF Start
<1>5. ASSUME NEW c \in Measures, NEW first \in Frames, NEW second \in Frames,
             DrawArea(c, first, second)
      PROVE  FilesRounded'
  <2>1. PICK drawn \in CheckPara : files' = [files EXCEPT ![c] = SavePara(drawn, files[c])]
    BY <1>5, DrawAreaStep
  <2>2. \A f \in Files : files'[f] = files[f] \/ files'[f] = SavePara(drawn, files[f])
    BY <2>1 DEF TypeOK
  <2>3. QED
    BY <1>0, <1>2, <1>3, <2>2
<1>6. ASSUME NEW k \in Measures, NEW fields \in Nat,
             NEW new \in Edited(memory[k], k, fields),
             files' = [files EXCEPT !["usb"] = SavePara(new, files["usb"])]
      PROVE  FilesRounded'
  <2>1. new \in CheckPara
    BY <1>0, EditedFields DEF TypeOK
  <2>2. \A f \in Files : files'[f] = files[f] \/ files'[f] = SavePara(new, files[f])
    BY <1>6 DEF TypeOK
  <2>3. QED
    BY <1>0, <1>2, <1>3, <2>1, <2>2
<1>7. CASE SetParaUSB \/ SetParaCircle
  BY <1>6, <1>7 DEF SetParaUSB, SetParaCircle, Measures
<1>8. ASSUME NEW k \in Checks, SaveAs(k) PROVE FilesRounded'
  <2>1. \A f \in Files : files'[f] = files[f] \/ Rewritten(files'[f], files[f])
    BY <1>8, SaveAsStep
  <2>2. \A f \in Files : \A i \in Groups : ~Written(Present(files[f]).paraN[i]).fine
    BY <1>0, PresentType, WrittenValue DEF CheckPara
  <2>3. \A f \in Files : Coarse(files'[f])
    BY <1>0, <1>1, <2>1, <2>2 DEF Rewritten
  <2>4. QED
    BY <1>3, <2>3
<1>9. CASE SettingsOK
  <2>1. PICK new \in [Checks -> CheckPara] :
          files' = [f \in Files |-> IF f \in Checks THEN SavePara(new[f], files[f])
                                                    ELSE files[f]]
    BY <1>9, SettingsOKStep
  <2>2. \A f \in Files : Coarse(files'[f])
    BY <1>0, <1>2, <2>1
  <2>3. QED
    BY <1>3, <2>2
<1>10. Quit \/ OpenSettings \/ (\E frame \in Frames : DrawSettings(frame)) \/ MakeModel
        \/ SettingsCancel \/ UNCHANGED vars => UNCHANGED files
  BY DEF Quit, OpenSettings, DrawSettings, MakeModel, SettingsCancel, vars
<1>11. QED
  BY <1>0, <1>3, <1>4, <1>5, <1>7, <1>8, <1>9, <1>10 DEF Next

(* Files as shipped hold no more than six decimals, nor do missing ones. *)
LEMMA RoundedInit == Init => FilesRounded
BY ShippedType DEF Init, FilesRounded, Missing, Fresh, Nobodys

-----------------------------------------------------------------------------
(* Restarts *)

(* Every handler of a measuring checker leaves its file and its memory together,
   or counts it among the parted; the settings dialog touches neither. *)
LEMMA RestartStep == TypeOK /\ FilesRounded /\ RestartKeeps /\ [Next]_vars => RestartKeeps'
<1> SUFFICES ASSUME TypeOK, FilesRounded, RestartKeeps, [Next]_vars PROVE RestartKeeps'
  OBVIOUS
<1>0. /\ Measures \subseteq Files
      /\ \A c \in Measures : c \notin Checks
  BY ParametersAssumption DEF Files, Measures
<1>1. CASE Start
  <2>1. ASSUME NEW c \in Measures
        PROVE  files'[c] # Missing /\ LoadPara(memory'[c], files'[c]) = Rounded(memory'[c])
    <3>1. files[c] \in CheckPara \cup {Missing} /\ \A i \in Groups : ~files[c].paraN[i].fine
      BY <1>0 DEF TypeOK, FilesRounded
    <3>2. files'[c] = Present(files[c]) /\ memory'[c] = LoadPara(Fresh, files[c])
      BY <1>0, <1>1 DEF Start
    <3>3. memory'[c] \in CheckPara
      BY <3>1, <3>2, LoadFields, Constants
    <3>4. LoadPara(memory'[c], files'[c]) = LoadPara(memory'[c], files[c])
      BY <3>1, <3>2, <3>3, WrittenByLoad
    <3>5. Rounded(memory'[c]) = memory'[c]
      BY <3>1, <3>2, LoadedIsRounded, Constants
    <3>6. QED
      BY <3>1, <3>2, <3>4, <3>5, LoadedTwice, WrittenByLoad, Constants
  <2>2. QED
    BY <2>1 DEF RestartKeeps
<1>2. CASE Quit
  BY <1>2 DEF Quit, RestartKeeps
<1>3. ASSUME NEW c \in Measures, NEW first \in Frames, NEW second \in Frames,
             DrawArea(c, first, second)
      PROVE  RestartKeeps'
  <2>1. PICK drawn \in CheckPara :
          /\ files' = [files EXCEPT ![c] = SavePara(drawn, files[c])]
          /\ memory' = [memory EXCEPT ![c] = LoadPara(drawn, files'[c])]
    BY <1>3, DrawAreaStep
  <2>2. files[c] \in CheckPara \cup {Missing}
    BY <1>0 DEF TypeOK
  <2>3. files'[c] = SavePara(drawn, files[c]) /\ memory'[c] = LoadPara(drawn, files'[c])
    BY <1>0, <2>1 DEF TypeOK
  <2>4. files'[c] \in CheckPara /\ files'[c] # Missing
    BY <2>2, <2>3, SaveFields, SavedIsLoaded
  <2>5. LoadPara(memory'[c], files'[c]) = Rounded(memory'[c])
    <3>1. LoadPara(memory'[c], files'[c]) = memory'[c]
      BY <2>3, <2>4, LoadedTwice
    <3>2. memory'[c] = Rounded(drawn)
      BY <2>2, <2>3, SavedIsLoaded
    <3>3. QED
      BY <3>1, <3>2, RoundedTwice
  <2>6. \A d \in Measures \ {c} : files'[d] = files[d] /\ memory'[d] = memory[d]
    BY <1>0, <2>1 DEF TypeOK
  <2>7. running /\ parted' = parted \ {c}
    BY <1>3 DEF DrawArea, MainDialog
  <2>8. QED
    BY <2>4, <2>5, <2>6, <2>7 DEF RestartKeeps
<1>4. CASE SetParaUSB
  <2>1. PICK new \in Edited(memory["usb"], "usb", 7) :
          /\ memory' = [memory EXCEPT !["usb"] = new]
          /\ files' = [files EXCEPT !["usb"] = SavePara(new, files["usb"])]
    BY <1>4 DEF SetParaUSB
  <2>2. "usb" \in Files /\ "usb" \in Measures
    BY <1>0 DEF Measures
  <2>3. files["usb"] \in CheckPara \cup {Missing} /\ memory["usb"] \in CheckPara
    BY <2>2 DEF TypeOK
  <2>4. new \in CheckPara
    BY <2>1, <2>2, <2>3, EditedFields
  <2>5. memory'["usb"] = new /\ files'["usb"] = SavePara(new, files["usb"])
    BY <2>1, <2>2 DEF TypeOK
  <2>6. files'["usb"] # Missing
        /\ LoadPara(memory'["usb"], files'["usb"]) = Rounded(memory'["usb"])
    BY <2>3, <2>4, <2>5, SavedIsLoaded
  <2>7. \A d \in Measures \ {"usb"} : files'[d] = files[d] /\ memory'[d] = memory[d]
    BY <1>0, <2>1 DEF TypeOK
  <2>8. running /\ parted' = parted \ {"usb"}
    BY <1>4 DEF SetParaUSB, MainDialog
  <2>9. QED
    BY <2>6, <2>7, <2>8 DEF RestartKeeps
<1>5. CASE SetParaCircle
  BY <1>5 DEF SetParaCircle, RestartKeeps
<1>6. CASE OpenSettings
  BY <1>6 DEF OpenSettings, MainDialog, RestartKeeps
<1>7. ASSUME NEW frame \in Frames, DrawSettings(frame) PROVE RestartKeeps'
  BY <1>7 DEF DrawSettings, InSettings, RestartKeeps
<1>8. ASSUME NEW k \in Checks, SaveAs(k) PROVE RestartKeeps'
  <2>1. \A c \in Measures : files'[c] = files[c]
    BY <1>8, SaveAsStep
  <2>2. running /\ UNCHANGED <<memory, parted>>
    BY <1>8 DEF SaveAs, InSettings
  <2>3. QED
    BY <2>1, <2>2 DEF RestartKeeps
<1>9. CASE MakeModel
  BY <1>9 DEF MakeModel, InSettings, RestartKeeps
<1>10. CASE SettingsOK
  <2>1. \A c \in Measures : files'[c] = files[c] /\ memory'[c] = memory[c]
    BY <1>0, <1>10, SettingsOKStep
  <2>2. running /\ UNCHANGED parted
    BY <1>10 DEF SettingsOK, InSettings
  <2>3. QED
    BY <2>1, <2>2 DEF RestartKeeps
<1>11. CASE SettingsCancel
  BY <1>11 DEF SettingsCancel, InSettings, RestartKeeps
<1>12. CASE UNCHANGED vars
  BY <1>12 DEF vars, RestartKeeps
<1>13. QED
  BY <1>1, <1>2, <1>3, <1>4, <1>5, <1>6, <1>7, <1>8, <1>9, <1>10, <1>11, <1>12 DEF Next

-----------------------------------------------------------------------------
(* Whose parameters *)

Owned(para, k) == \A i \in Groups : para.paraN[i].of \in Owners(k)

(* A file that is read tells the parameters of its owner, the written defaults too. *)
LEMMA PresentOwned ==
  ASSUME NEW k, NEW file, Owned(file, k)
  PROVE  Owned(Present(file), k)
BY DEF Owned, Owners, Present, Default, Fresh, Nobodys

(* A load or a save between a memory and a file of one owner leaves both with it. *)
LEMMA LoadSaveOwned ==
  ASSUME NEW para \in CheckPara, NEW file \in CheckPara \cup {Missing}, NEW k,
         Owned(para, k), Owned(file, k)
  PROVE  Owned(LoadPara(para, file), k) /\ Owned(SavePara(para, file), k)
<1>1. Owned(Present(file), k)
  BY PresentOwned
<1>2. \A i \in Groups :
        \/ LoadPara(para, file).paraN[i] = Present(file).paraN[i]
        \/ LoadPara(para, file).paraN[i] = para.paraN[i]
  BY LoadFields
<1>3. \A i \in Groups :
        \/ SavePara(para, file).paraN[i] = Present(file).paraN[i]
        \/ SavePara(para, file).paraN[i].of = para.paraN[i].of
  BY SaveFields, WrittenValue DEF CheckPara
<1>4. QED
  BY <1>1, <1>2, <1>3 DEF Owned

(* The property, in terms of Owned. *)
LEMMA OwnedForm ==
  ParametersOwned <=> /\ \A f \in Files : Owned(files[f], f)
                      /\ \A k \in Measures \cup Checks : Owned(memory[k], k)
BY DEF ParametersOwned, Owned

(* Files as shipped, missing files and checkers just made hold nothing foreign. *)
LEMMA OwnedInit == Init => ParametersOwned
<1> SUFFICES ASSUME Init PROVE ParametersOwned
  OBVIOUS
<1>1. PICK present \in SUBSET Files :
        files = [f \in Files |-> IF f \in present THEN ShippedFile(f) ELSE Missing]
  BY DEF Init
<1>2. \A k : Owned(Fresh, k) /\ Owned(Missing, k)
  BY DEF Owned, Owners, Missing, Fresh, Nobodys
<1>3. \A f \in Files : Owned(ShippedFile(f), f)
  BY ShippedType DEF Owned, Owners
<1>4. \A f \in Files : Owned(files[f], f)
  BY <1>1, <1>2, <1>3
<1>5. \A k \in Measures \cup Checks : Owned(memory[k], k)
  BY <1>2 DEF Init
<1>6. QED
  BY <1>4, <1>5, OwnedForm

(* No handler carries parameters from one checker to another, but for the OK of
   the circle, which takes its own to usb.ini. *)
LEMMA OwnedStep == TypeOK /\ ParametersOwned /\ [Next]_vars => ParametersOwned'
<1> SUFFICES ASSUME TypeOK, ParametersOwned, [Next]_vars PROVE ParametersOwned'
  OBVIOUS
<1>a. /\ Measures \subseteq Files /\ Checks \subseteq Files
      /\ \A f \in Files : Owned(files[f], f)
      /\ \A k \in Measures \cup Checks : Owned(memory[k], k)
  BY OwnedForm DEF Files, CheckFiles
<1>b. /\ \A f \in Files : files[f] \in CheckPara \cup {Missing}
      /\ \A k \in Measures \cup Checks : memory[k] \in CheckPara
  BY DEF TypeOK
<1>c. /\ \A f \in Files : Owned(files'[f], f)
      /\ \A k \in Measures \cup Checks : Owned(memory'[k], k)
      => ParametersOwned'
  BY DEF ParametersOwned, Owned
<1>1. CASE Start
  <2>1. \A k : Owned(Fresh, k)
    BY DEF Owned, Owners, Fresh, Nobodys
  <2>2. \A f \in Files : Owned(files'[f], f)
    BY <1>1, <1>a, PresentOwned DEF Start
  <2>3. \A k \in Measures \cup Checks : Owned(memory'[k], k)
    BY <1>1, <1>a, <1>b, <2>1, LoadSaveOwned, Constants DEF Start
  <2>4. QED
    BY <1>c, <2>2, <2>3
<1>2. ASSUME UNCHANGED <<files, memory>> PROVE ParametersOwned'
  BY <1>2, <1>a, <1>c
<1>3. ASSUME NEW c \in Measures, NEW first \in Frames, NEW second \in Frames,
             DrawArea(c, first, second)
      PROVE  ParametersOwned'
  <2>1. PICK drawn \in CheckPara :
          /\ drawn.paraN = memory[c].paraN
          /\ files' = [files EXCEPT ![c] = SavePara(drawn, files[c])]
          /\ memory' = [memory EXCEPT ![c] = LoadPara(drawn, files'[c])]
    BY <1>3, DrawAreaStep
  <2>2. Owned(drawn, c)
    BY <1>a, <2>1 DEF Owned
  <2>3. /\ SavePara(drawn, files[c]) \in CheckPara
        /\ Owned(SavePara(drawn, files[c]), c)
    BY <1>a, <1>b, <2>2, SaveFields, LoadSaveOwned
  <2>4. \A f \in Files : Owned(files'[f], f)
    BY <1>a, <2>1, <2>3 DEF TypeOK
  <2>5. files'[c] = SavePara(drawn, files[c])
    BY <1>a, <2>1 DEF TypeOK
  <2>6. Owned(LoadPara(drawn, files'[c]), c)
    BY <2>2, <2>3, <2>5, LoadSaveOwned
  <2>7. \A k \in Measures \cup Checks : Owned(memory'[k], k)
    BY <1>a, <2>1, <2>6 DEF TypeOK
  <2>8. QED
    BY <1>c, <2>4, <2>7
<1>4. ASSUME NEW k \in Measures, NEW fields \in Nat,
             NEW new \in Edited(memory[k], k, fields),
             memory' = [memory EXCEPT ![k] = new],
             files' = [files EXCEPT !["usb"] = SavePara(new, files["usb"])]
      PROVE  ParametersOwned'
  <2>1. k \in Files /\ "usb" \in Files
    BY <1>a DEF Measures
  <2>2. new \in CheckPara /\ Owned(new, k)
    BY <1>a, <1>b, <2>1, EditedFields DEF Owned, Owners
  <2>3. Owned(new, "usb")
    BY <2>2 DEF Owned, Owners, Measures
  <2>4. Owned(SavePara(new, files["usb"]), "usb")
    BY <1>a, <1>b, <2>1, <2>2, <2>3, LoadSaveOwned
  <2>5. \A f \in Files : Owned(files'[f], f)
    BY <1>4, <1>a, <2>4 DEF TypeOK
  <2>6. \A j \in Measures \cup Checks : Owned(memory'[j], j)
    BY <1>4, <1>a, <2>2 DEF TypeOK
  <2>7. QED
    BY <1>c, <2>5, <2>6
<1>5. CASE SetParaUSB
  BY <1>4, <1>5 DEF SetParaUSB, Measures
<1>6. CASE SetParaCircle
  BY <1>4, <1>6 DEF SetParaCircle, Measures
<1>7. ASSUME NEW k \in Checks, SaveAs(k) PROVE ParametersOwned'
  <2>1. \A f \in Files : Owned(files'[f], f)
    <3> TAKE f \in Files
    <3>1. Owned(files[f], f) /\ Owned(Present(files[f]), f)
      BY <1>a, PresentOwned
    <3>2. files'[f] = files[f] \/ Rewritten(files'[f], files[f])
      BY <1>7, SaveAsStep
    <3>3. \A i \in Groups : Written(Present(files[f]).paraN[i]).of = Present(files[f]).paraN[i].of
      BY <1>b, PresentType, WrittenValue DEF CheckPara
    <3>4. QED
      BY <3>1, <3>2, <3>3 DEF Owned, Rewritten
  <2>2. QED
    BY <1>7, <1>a, <1>c, <2>1 DEF SaveAs
<1>8. CASE SettingsOK
  <2>1. PICK new \in [Checks -> CheckPara] :
          /\ \A k \in Checks : \A i \in Groups :
               new[k].paraN[i] = memory[k].paraN[i] \/ new[k].paraN[i].of = k
          /\ files' = [f \in Files |-> IF f \in Checks THEN SavePara(new[f], files[f])
                                                       ELSE files[f]]
          /\ memory' = [k \in Measures \cup Checks |->
                          IF k \in Checks THEN LoadPara(new[k], files'[k])
                                          ELSE memory[k]]
    BY <1>8, SettingsOKStep
  <2>2. \A k \in Checks : Owned(new[k], k)
    BY <1>a, <2>1 DEF Owned, Owners
  <2>3. \A k \in Checks : /\ files'[k] = SavePara(new[k], files[k])
                          /\ files'[k] \in CheckPara
                          /\ Owned(files'[k], k)
    BY <1>a, <1>b, <2>1, <2>2, SaveFields, LoadSaveOwned
  <2>4. \A f \in Files : Owned(files'[f], f)
    BY <1>a, <2>1, <2>3
  <2>5. \A k \in Measures \cup Checks : Owned(memory'[k], k)
    BY <1>a, <2>1, <2>2, <2>3, LoadSaveOwned
  <2>6. QED
    BY <1>c, <2>4, <2>5
<1>9. Quit \/ OpenSettings \/ (\E frame \in Frames : DrawSettings(frame)) \/ MakeModel
        \/ SettingsCancel \/ UNCHANGED vars => UNCHANGED <<files, memory>>
  BY DEF Quit, OpenSettings, DrawSettings, MakeModel, SettingsCancel, vars
<1>10. QED
  BY <1>1, <1>2, <1>3, <1>5, <1>6, <1>7, <1>8, <1>9 DEF Next

-----------------------------------------------------------------------------
(* The theorems *)

(* What holds together between any two handlers, starts and ends of the program. *)
IInv == TypeOK /\ RegionTellsArea /\ FilesRounded /\ RestartKeeps /\ ParametersOwned

(* The inductive invariant: types, regions, six decimals, restarts and owners. *)
THEOREM Invariance == Spec => []IInv
<1>1. Init => IInv
  BY TypeInit, OwnedInit, RoundedInit DEF IInv, Init, RegionTellsArea, RestartKeeps
<1>2. IInv /\ [Next]_vars => IInv'
  BY TypeStep, RegionStep, RoundedStep, RestartStep, OwnedStep DEF IInv
<1>3. QED
  BY <1>1, <1>2, PTL DEF Spec

(* Every memory, file and dialog keeps its type, whatever is framed and typed. *)
THEOREM TypeCorrect == Spec => []TypeOK
<1>1. IInv => TypeOK
  BY DEF IInv
<1>2. QED
  BY <1>1, Invariance, PTL

(* The regions a measurement runs on are those of the parameters in memory: no
   handler changes the one and leaves the other. *)
THEOREM RegionsFollow == Spec => []RegionTellsArea
<1>1. IInv => RegionTellsArea
  BY DEF IInv
<1>2. QED
  BY <1>1, Invariance, PTL

(* Except after the circle's OK button, the file of a measuring checker tells what
   is in its memory, to six decimals: a restart keeps what was framed and typed. *)
THEOREM RestartsKeep == Spec => []RestartKeeps
<1>1. IInv => RestartKeeps
  BY DEF IInv
<1>2. QED
  BY <1>1, Invariance, PTL

(* No file and no memory gets parameters chosen for another checker, although
   "save as" takes all files through one memory; usb.ini alone gets the circle's. *)
THEOREM OwnersKept == Spec => []ParametersOwned
<1>1. IInv => ParametersOwned
  BY DEF IInv
<1>2. QED
  BY <1>1, Invariance, PTL
=============================================================================
