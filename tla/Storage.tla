------------------------------- MODULE Storage -------------------------------
(***************************************************************************)
(* What the dialog keeps on the disk between two lives of the program: the *)
(* settings in system.ini, the records of the inspections in one csv file  *)
(* a month, and the total in count.ini (Checker5678Dlg.cpp).  The dialog's *)
(* thread loads and saves the settings, shows the total and reads it back  *)
(* from its control, the test thread writes records and total, and the     *)
(* program may be killed between any two writes.                           *)
(*                                                                         *)
(* A write of one key, or of one line and its flush, is a step.  Keys that *)
(* fare alike are one: Max stands for Max and, where a file is loaded, Com *)
(* and Board, Time for Time, Min, Exp, ConnectStr and TableName.           *)
(***************************************************************************)
EXTENDS Naturals, Sequences

CONSTANTS
  Months,       \* bound: the months the station is in use, 1 to Months
  MaxRecords,   \* bound: inspections that scan a product
  MaxStarts     \* bound: lives of the program

ASSUME StorageAssumption ==
  Months \in Nat \ {0} /\ MaxRecords \in Nat /\ MaxStarts \in Nat

VARIABLES
  dpc,          \* where the dialog's thread is; "off": there is no program
  next,         \* the key it writes next
  memory,       \* the settings in memory
  before,       \* history: those before the last OK of the settings dialog
  ini,          \* system.ini
  rpc,          \* where the test thread is with a record
  rec,          \* the record: its number, whether it has a serial number
  file,         \* the month whose csv file SaveOnlineData writes
  bAddtile,     \* is its title to be written?
  created,      \* the months that have a csv file
  csv,          \* the lines of each
  m_iTotal,
  shown,        \* the text of the edit control bound to it
  countFile,    \* TOTAL in count.ini
  undone,       \* history: inspections of this life that a click took off the total
  month,        \* the calendar
  starts,       \* lives so far
  firstCut,     \* history: the first start was killed in LoadPara
  titleCut,     \* history: months whose file was created and left without title
  written       \* history: rows written in this life

settings == <<next, memory, before, ini, firstCut>>
record   == <<rpc, rec, file, bAddtile>>
csvFiles == <<created, csv, titleCut, written>>
total    == <<m_iTotal, shown, countFile, undone>>
vars     == <<dpc, settings, record, csvFiles, total, month, starts>>

-----------------------------------------------------------------------------
(* Keys, values and lines.                                                 *)

\* In the order in which LoadPara fills a missing file, and SavePara a file.
FirstKeys  == <<"MinLength", "Max", "Time">>
SavedKeys  == <<"Max", "Time", "DelayTime">>
LoadedKeys == {"Max", "Time", "DelayTime"}
Keys       == LoadedKeys \cup {"MinLength"}

Values == {"zero", "shipped", "typed", "fine"}

\* %f keeps six decimals.
Written(value) == IF value = "fine" THEN "typed" ELSE value

\* What LoadPara makes of a key that is not there: what the first start would
\* have written, but for the upper limit of the weight and the scale's port.
Fallback(key) == IF key = "Max" THEN "zero" ELSE "shipped"

Missing == [k \in Keys |-> "absent"]
Loaded(f) == [k \in LoadedKeys |-> IF f[k] = "absent" THEN Fallback(k) ELSE f[k]]

\* The members as the constructor sets them.
Constructed == [k \in LoadedKeys |-> "shipped"]

\* The lines of a csv file: the title, and rows told apart by their record.
Title == 0
Lines == 0..MaxRecords

NoRecord == [id |-> 0, serial |-> FALSE]

TypeOK ==
  /\ dpc \in {"off", "first", "ready", "save"}
  /\ next \in 1..3
  /\ memory \in [LoadedKeys -> Values] /\ before \in [LoadedKeys -> Values]
  /\ ini \in [Keys -> Values \cup {"absent"}]
  /\ rpc \in {"idle", "scanned", "passed", "open", "title", "row", "count", "saveCount"}
  /\ rec \in [id : 0..MaxRecords, serial : BOOLEAN]
  /\ file \in 1..Months /\ bAddtile \in BOOLEAN
  /\ created \subseteq 1..Months
  /\ csv \in [1..Months -> Seq(Lines)]
  /\ m_iTotal \in Nat /\ shown \in Nat /\ countFile \in Nat /\ undone \in Nat
  /\ month \in 1..Months /\ starts \in 0..MaxStarts
  /\ firstCut \in BOOLEAN /\ titleCut \subseteq 1..Months
  /\ written \in Nat

Init ==
  /\ dpc = "off" /\ next = 1 /\ memory = Constructed /\ before = Constructed
  /\ ini = Missing
  /\ rpc = "idle" /\ rec = NoRecord /\ file = 1 /\ bAddtile = FALSE
  /\ created = {} /\ csv = [m \in 1..Months |-> <<>>]
  /\ m_iTotal = 0 /\ shown = 0 /\ countFile = 0 /\ undone = 0
  /\ month = 1 /\ starts = 0
  /\ firstCut = FALSE /\ titleCut = {} /\ written = 0

-----------------------------------------------------------------------------
(* The dialog: LoadPara in OnInitDialog, SavePara behind the settings, and *)
(* what its other handlers do to the total.                                *)

\* LoadPara fills a missing file first.  LoadCount is not called: the total
\* begins anew.
Start ==
  /\ dpc = "off" /\ starts < MaxStarts
  /\ starts' = starts + 1
  /\ next' = 1
  /\ IF ini = Missing THEN dpc' = "first" /\ memory' = Constructed
                      ELSE dpc' = "ready" /\ memory' = Loaded(ini)
  /\ before' = memory'
  /\ m_iTotal' = 0 /\ shown' = 0 /\ undone' = 0 /\ written' = 0
  /\ UNCHANGED <<ini, firstCut, record, created, csv, titleCut, countFile, month>>

\* One default; after the last one the file is loaded.
WriteDefault ==
  /\ dpc = "first"
  /\ ini' = [ini EXCEPT ![FirstKeys[next]] = "shipped"]
  /\ IF next < Len(FirstKeys)
       THEN next' = next + 1 /\ UNCHANGED <<dpc, memory>>
       ELSE next' = 1 /\ dpc' = "ready" /\ memory' = Loaded(ini')
  /\ before' = memory'
  /\ UNCHANGED <<firstCut, record, csvFiles, total, month, starts>>

\* OK in the settings dialog: its fields are taken over, but for the delay, which
\* is assigned to itself, and saved.
SettingsOK ==
  /\ dpc = "ready"
  /\ \E changed \in SUBSET {"Max", "Time"}, value \in {"shipped", "typed", "fine"} :
       memory' = [k \in LoadedKeys |-> IF k \in changed THEN value ELSE memory[k]]
  /\ before' = memory
  /\ dpc' = "save" /\ next' = 1
  /\ UNCHANGED <<ini, firstCut, record, csvFiles, total, month, starts>>

\* Mutant: a key that is there already is not written.
MutSavePara ==
  /\ dpc = "save"
  /\ ini' = [ini EXCEPT ![SavedKeys[next]] =
               IF @ = "absent" THEN Written(memory[SavedKeys[next]]) ELSE @]
  /\ IF next < Len(SavedKeys) THEN next' = next + 1 /\ UNCHANGED dpc
                              ELSE next' = 1 /\ dpc' = "ready"
  /\ UNCHANGED <<memory, before, firstCut, record, csvFiles, total, month, starts>>

\* One key.
SavePara ==
  /\ dpc = "save"
  /\ ini' = [ini EXCEPT ![SavedKeys[next]] = Written(memory[SavedKeys[next]])]
  /\ IF next < Len(SavedKeys) THEN next' = next + 1 /\ UNCHANGED dpc
                              ELSE next' = 1 /\ dpc' = "ready"
  /\ UNCHANGED <<memory, before, firstCut, record, csvFiles, total, month, starts>>

\* UpdateData(FALSE), of a result shown or a weight read: the total is shown.
Show ==
  /\ dpc = "ready"
  /\ shown' = m_iTotal
  /\ UNCHANGED <<dpc, settings, record, csvFiles, m_iTotal, countFile, undone, month, starts>>

\* UpdateData(TRUE), of a check box or a measuring button: the total takes the
\* value of its control.
UpdateData ==
  /\ dpc = "ready"
  /\ m_iTotal' = shown
  /\ undone' = IF shown < m_iTotal THEN undone + 1 ELSE undone
  /\ UNCHANGED <<dpc, settings, record, csvFiles, shown, countFile, month, starts>>

-----------------------------------------------------------------------------
(* The test thread: Mainread with SaveOnlineData and SaveCount.            *)

Records(p) == dpc \in {"ready", "save"} /\ rpc = p

\* A cycle has its result; no serial number if the code is not to be read.
Scan ==
  /\ Records("idle") /\ rec.id < MaxRecords
  /\ \E serial \in BOOLEAN : rec' = [id |-> rec.id + 1, serial |-> serial]
  /\ rpc' = "scanned"
  /\ UNCHANGED <<dpc, settings, file, bAddtile, csvFiles, total, month, starts>>

\* Stop, or a product taken away, abandons it.
Abandon ==
  /\ Records("scanned")
  /\ rpc' = "idle"
  /\ UNCHANGED <<dpc, settings, rec, file, bAddtile, csvFiles, total, month, starts>>

\* Mutant: the result is shown, but the controls are not brought up to date.
MutPassed ==
  /\ dpc = "ready" /\ rpc = "scanned"
  /\ rpc' = "passed"
  /\ UNCHANGED <<dpc, settings, rec, file, bAddtile, csvFiles, total, month, starts>>

\* The parts or the film are found: the thread sends it to the dialog, which shows
\* it, and the total with it.
Passed ==
  /\ dpc = "ready" /\ rpc = "scanned"
  /\ rpc' = "passed"
  /\ shown' = m_iTotal
  /\ UNCHANGED <<dpc, settings, rec, file, bAddtile, csvFiles, m_iTotal, countFile, undone,
                 month, starts>>

\* Mutant: the file is looked for after it was opened.
MutSaveOnlineData ==
  /\ Records("passed")
  /\ \/ ~rec.serial /\ rpc' = "count" /\ UNCHANGED <<file, bAddtile>>
     \/ rec.serial /\ rpc' = "open" /\ file' = month /\ bAddtile' = FALSE
  /\ UNCHANGED <<dpc, settings, rec, csvFiles, total, month, starts>>

\* Nothing is saved without a serial number; the file is that of today, and a new
\* one is to have a title.
SaveOnlineData ==
  /\ Records("passed")
  /\ \/ ~rec.serial /\ rpc' = "count" /\ UNCHANGED <<file, bAddtile>>
     \/ /\ rec.serial /\ rpc' = "open"
        /\ file' = month /\ bAddtile' = (month \notin created)
  /\ UNCHANGED <<dpc, settings, rec, csvFiles, total, month, starts>>

\* Mutant: without modeNoTruncate.
MutOpen ==
  /\ Records("open")
  /\ created' = created \cup {file}
  /\ csv' = [csv EXCEPT ![file] = <<>>]
  /\ rpc' = IF bAddtile THEN "title" ELSE "row"
  /\ UNCHANGED <<dpc, settings, rec, file, bAddtile, titleCut, written, total, month,
                 starts>>

\* A failure, as of a file open in another program, is not looked at.
Open ==
  /\ Records("open")
  /\ \/ rpc' = "count" /\ UNCHANGED created
     \/ rpc' = (IF bAddtile THEN "title" ELSE "row") /\ created' = created \cup {file}
  /\ UNCHANGED <<dpc, settings, rec, file, bAddtile, csv, titleCut, written, total,
                 month, starts>>

WriteTitle ==
  /\ Records("title")
  /\ csv' = [csv EXCEPT ![file] = Append(@, Title)]
  /\ rpc' = "row"
  /\ UNCHANGED <<dpc, settings, rec, file, bAddtile, created, titleCut, written, total,
                 month, starts>>

WriteRow ==
  /\ Records("row")
  /\ csv' = [csv EXCEPT ![file] = Append(@, rec.id)]
  /\ written' = written + 1
  /\ rpc' = "count"
  /\ UNCHANGED <<dpc, settings, rec, file, bAddtile, created, titleCut, total, month,
                 starts>>

Count ==
  /\ Records("count")
  /\ m_iTotal' = m_iTotal + 1
  /\ rpc' = "saveCount"
  /\ UNCHANGED <<dpc, settings, rec, file, bAddtile, csvFiles, shown, countFile, undone,
                 month, starts>>

\* The keys OK and NG are always 0.
SaveCount ==
  /\ Records("saveCount")
  /\ countFile' = m_iTotal
  /\ rpc' = "idle"
  /\ UNCHANGED <<dpc, settings, rec, file, bAddtile, csvFiles, m_iTotal, shown, undone,
                 month, starts>>

-----------------------------------------------------------------------------
(* The world.                                                              *)

\* The program is killed, or loses its power, or ends when nothing is under way.
Stops ==
  /\ dpc # "off" /\ dpc' = "off"
  /\ firstCut' = (firstCut \/ (dpc = "first" /\ ini # Missing))
  /\ titleCut' = titleCut \cup (IF rpc = "title" THEN {file} ELSE {})
  /\ rpc' = "idle"
  /\ UNCHANGED <<next, memory, before, ini, rec, file, bAddtile, created, csv, written, total,
                 month, starts>>

NextMonth ==
  /\ month < Months /\ month' = month + 1
  /\ UNCHANGED <<dpc, settings, record, csvFiles, total, starts>>

-----------------------------------------------------------------------------
Dialog == Start \/ WriteDefault \/ SettingsOK \/ SavePara \/ Show \/ UpdateData

TestThread ==
  \/ Scan \/ Abandon \/ Passed \/ SaveOnlineData \/ Open \/ WriteTitle \/ WriteRow
  \/ Count \/ SaveCount

Next == Dialog \/ TestThread \/ Stops \/ NextMonth

Spec == Init /\ [][Next]_vars

-----------------------------------------------------------------------------
(* Properties.                                                             *)

\* A restart gives the operator the settings back that he has, but for decimals the
\* file does not keep; one that cuts off a save gives each setting as it was or as
\* it was to be.
SettingsKept ==
  /\ dpc = "ready" => \A k \in LoadedKeys : Loaded(ini)[k] = Written(memory[k])
  /\ dpc = "save" =>
       \A k \in LoadedKeys : Loaded(ini)[k] \in {Written(before[k]), Written(memory[k])}

\* The station never works with an upper limit of zero, which fails every product,
\* unless its very first start was killed while LoadPara was filling the new file:
\* LoadPara goes by the file being there and does not complete it.
LimitIsSet == dpc \in {"ready", "save"} /\ memory["Max"] = "zero" => firstCut

\* A csv file has one title, as its first line.  Only one whose creator was killed
\* before the title has none: whoever comes next finds the file there.
TitleFirst ==
  \A m \in 1..Months :
    /\ \A i \in DOMAIN csv[m] : csv[m][i] = Title => i = 1
    /\ csv[m] # <<>> /\ csv[m][1] # Title => m \in titleCut

\* Nothing that was recorded is ever lost or changed, by no restart and no failure:
\* every line of a file keeps its place.
LinesKept ==
  [][\A m \in 1..Months : \A i \in DOMAIN csv[m] :
       i \in DOMAIN csv'[m] /\ csv'[m][i] = csv[m][i]]_vars

\* Every result shown brings the total's control up to date, so that a click which
\* writes the control back costs no more than the inspection counted last: between
\* two records the total covers every row of this life of the program but one for
\* each such click, and count.ini tells the total, or one more after such a click.
TotalCoversRows ==
  dpc # "off" /\ rpc = "idle" =>
    /\ written <= m_iTotal + undone
    /\ written > 0 => countFile \in {m_iTotal, m_iTotal + 1}

-----------------------------------------------------------------------------
(* The inductive invariant behind the safety properties.                   *)

\* The keys before the next one are saved, the others still as before.
SaveProgress ==
  dpc = "save" =>
    \A i \in 1..3 : Loaded(ini)[SavedKeys[i]] =
      Written((IF i < next THEN memory ELSE before)[SavedKeys[i]])

\* A file holds what a %f leaves.
IniRounded == \A k \in Keys : ini[k] # "fine"

\* Unless the first start was cut off, a file has its limit, and memory too.
Filled(f) == f["Max"] \notin {"absent", "zero"}

LimitKept ==
  ~firstCut =>
    /\ dpc \in {"ready", "save"} => memory["Max"] # "zero" /\ Filled(ini)
    /\ dpc = "first" /\ next = 3 => Filled(ini)
    /\ dpc = "off" => ini = Missing \/ Filled(ini)

\* Whether the title is still to be written is known where the file is opened.
TitleKnown ==
  /\ \A m \in 1..Months \ created : csv[m] = <<>>
  /\ rpc = "open" /\ ~bAddtile => file \in created
  /\ rpc = "open" /\ bAddtile => file \notin created
  /\ rpc = "title" => file \in created /\ csv[file] = <<>>
  /\ rpc = "row" => file \in created

HasTitle(m) == csv[m] # <<>> /\ csv[m][1] = Title

CreatedHasTitle ==
  \A m \in created : HasTitle(m) \/ m \in titleCut \/ (rpc = "title" /\ m = file)

RecordNumbered == rpc \notin {"idle", "count", "saveCount"} => rec.id > 0

\* The control is at most one inspection behind, and none from the result shown
\* until the inspection is counted.
ControlInStep ==
  /\ m_iTotal \in {shown, shown + 1}
  /\ rpc \in {"passed", "open", "title", "row", "count"} => m_iTotal = shown

\* A row is in the total, or counted next, or taken off it by a click; the file is
\* ahead of the total by no more than what a click has just taken off.
RowsInTotal ==
  /\ written <= m_iTotal + undone + (IF rpc = "count" THEN 1 ELSE 0)
  /\ written > 0 /\ rpc \notin {"count", "saveCount"} =>
       \/ countFile = m_iTotal
       \/ countFile = m_iTotal + 1 /\ m_iTotal = shown

TotalInStep ==
  /\ dpc \in {"off", "first"} => rpc = "idle"
  /\ dpc # "off" => ControlInStep /\ RowsInTotal

SettingsInv == SettingsKept /\ SaveProgress /\ IniRounded
LimitInv == LimitIsSet /\ LimitKept
CsvInv == TitleFirst /\ TitleKnown /\ CreatedHasTitle /\ RecordNumbered
IInv == TypeOK /\ SettingsInv /\ LimitInv /\ CsvInv /\ TotalInStep
=============================================================================
