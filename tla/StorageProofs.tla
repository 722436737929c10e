---------------------------- MODULE StorageProofs ----------------------------
(***************************************************************************)
(* Proofs about Storage, for any number of months, records and lives of    *)
(* the program: what a kill at any point leaves of the settings, the title *)
(* and the order of the csv files, and what the total is worth.            *)
(***************************************************************************)
EXTENDS Storage, SequenceTheorems, TLAPS

(* The types, one group of variables each. *)
SettingsTyped ==
  /\ dpc \in {"off", "first", "ready", "save"}
  /\ next \in 1..3
  /\ memory \in [LoadedKeys -> Values] /\ before \in [LoadedKeys -> Values]
  /\ ini \in [Keys -> Values \cup {"absent"}]
  /\ firstCut \in BOOLEAN

RecordTyped ==
  /\ rpc \in {"idle", "scanned", "passed", "open", "title", "row", "count", "saveCount"}
  /\ rec \in [id : 0..MaxRecords, serial : BOOLEAN]
  /\ file \in 1..Months /\ bAddtile \in BOOLEAN
  /\ created \subseteq 1..Months
  /\ csv \in [1..Months -> Seq(Lines)]
  /\ titleCut \subseteq 1..Months

CountsTyped ==
  /\ m_iTotal \in Nat /\ shown \in Nat /\ countFile \in Nat /\ undone \in Nat
  /\ written \in Nat
  /\ month \in 1..Months /\ starts \in 0..MaxStarts

\* TypeOK in three parts.
LEMMA TypeParts == TypeOK <=> SettingsTyped /\ RecordTyped /\ CountsTyped
BY DEF TypeOK, SettingsTyped, RecordTyped, CountsTyped

(* What the keys are, one by one. *)
LEMMA KeyFacts ==
  /\ LoadedKeys = {"Max", "Time", "DelayTime"}
  /\ Keys = {"Max", "Time", "DelayTime", "MinLength"}
  /\ Len(FirstKeys) = 3 /\ Len(SavedKeys) = 3
  /\ FirstKeys[1] = "MinLength" /\ FirstKeys[2] = "Max" /\ FirstKeys[3] = "Time"
  /\ SavedKeys[1] = "Max" /\ SavedKeys[2] = "Time" /\ SavedKeys[3] = "DelayTime"
BY DEF LoadedKeys, Keys, FirstKeys, SavedKeys

(* A written value is a value that is written as it is. *)
LEMMA WrittenFacts ==
  ASSUME NEW v \in Values
  PROVE  /\ Written(v) \in Values /\ Written(v) # "fine" /\ Written(v) # "absent"
         /\ Written(Written(v)) = Written(v)
         /\ Written(v) = "zero" <=> v = "zero"
BY DEF Values, Written

(* What is loaded of a file has the type of the settings in memory. *)
LEMMA LoadedFacts ==
  ASSUME NEW f \in [Keys -> Values \cup {"absent"}]
  PROVE  /\ Loaded(f) \in [LoadedKeys -> Values]
         /\ \A k \in LoadedKeys : f[k] # "absent" => Loaded(f)[k] = f[k]
         /\ Loaded(f)["Max"] = "zero" <=> f["Max"] \in {"absent", "zero"}
         /\ (\A k \in Keys : f[k] # "fine") =>
              \A k \in LoadedKeys : Written(Loaded(f)[k]) = Loaded(f)[k]
BY DEF Loaded, Fallback, LoadedKeys, Keys, Values, Written

(* A line appended to a file. *)
LEMMA AppendFacts ==
  ASSUME NEW S, NEW s \in Seq(S), NEW e \in S
  PROVE  /\ Append(s, e) # <<>>
         /\ DOMAIN Append(s, e) = 1..(Len(s) + 1)
         /\ \A i \in 1..Len(s) : Append(s, e)[i] = s[i]
         /\ Append(s, e)[Len(s) + 1] = e
         /\ s # <<>> => Append(s, e)[1] = s[1]
BY AppendProperties, LenProperties, EmptySeq

-----------------------------------------------------------------------------
(* The initial state *)

\* The inductive invariant holds at the start.
LEMMA InitIInv == ASSUME Init PROVE IInv
<1> USE DEF Init
<1>1. TypeOK
  <2>1. SettingsTyped
    <3>1. Constructed \in [LoadedKeys -> Values]
      BY DEF Constructed, Values
    <3>2. Missing \in [Keys -> Values \cup {"absent"}]
      BY DEF Missing
    <3>3. next \in 1..3
      OBVIOUS
    <3>4. firstCut \in BOOLEAN
      BY Zenon
    <3>5. QED
      BY <3>1, <3>2, <3>3, <3>4, Zenon DEF SettingsTyped
  <2>2. RecordTyped
    <3>1. NoRecord \in [id : 0..MaxRecords, serial : BOOLEAN]
      BY StorageAssumption DEF NoRecord
    <3>2. [m \in 1..Months |-> <<>>] \in [1..Months -> Seq(Lines)]
      <4>1. <<>> \in Seq(Lines)
        OBVIOUS
      <4>2. QED
        BY <4>1, Zenon
    <3>3. file \in 1..Months /\ created \subseteq 1..Months /\ titleCut \subseteq 1..Months
      BY StorageAssumption
    <3>4. bAddtile \in BOOLEAN
      BY Zenon
    <3>5. QED
      BY <3>1, <3>2, <3>3, <3>4, Zenon DEF RecordTyped
  <2>3. CountsTyped
    BY StorageAssumption DEF CountsTyped
  <2>4. QED
    BY <2>1, <2>2, <2>3, TypeParts
<1>2. SettingsInv
  BY DEF SettingsInv, SettingsKept, SaveProgress, IniRounded, Missing
<1>3. LimitInv
  BY DEF LimitInv, LimitIsSet, LimitKept
<1>4. CsvInv
  BY DEF CsvInv, TitleFirst, TitleKnown, CreatedHasTitle, RecordNumbered
<1>5. TotalInStep
  BY DEF TotalInStep, ControlInStep, RowsInTotal
<1>6. QED
  BY <1>1, <1>2, <1>3, <1>4, <1>5 DEF IInv

-----------------------------------------------------------------------------
(* Types *)

\* The dialog, a stop of the program and the calendar keep TypeOK.
LEMMA DialogType == ASSUME TypeOK, Dialog \/ Stops \/ NextMonth PROVE TypeOK'
<1> USE StorageAssumption, KeyFacts, TypeParts
    DEF settings, record, csvFiles, total
<1>1. CASE Start
  <2>1. SettingsTyped'
    <3>1. Constructed \in [LoadedKeys -> Values]
      BY DEF Constructed, Values
    <3>2. QED
      BY <1>1, <3>1, LoadedFacts DEF Start, SettingsTyped
  <2>2. RecordTyped' /\ CountsTyped'
    <3>1. /\ UNCHANGED <<rpc, rec, file, bAddtile, created, csv, titleCut, countFile, month>>
          /\ starts < MaxStarts /\ starts' = starts + 1
          /\ m_iTotal' = 0 /\ shown' = 0 /\ undone' = 0 /\ written' = 0
      BY <1>1 DEF Start
    <3>2. RecordTyped'
      BY <3>1 DEF RecordTyped
    <3>3. CountsTyped'
      BY <3>1 DEF CountsTyped
    <3>4. QED
      BY <3>2, <3>3
  <2>3. QED
    BY <2>1, <2>2 DEF TypeOK, SettingsTyped, RecordTyped, CountsTyped
<1>2. CASE WriteDefault
  <2>1. ini' \in [Keys -> Values \cup {"absent"}]
    BY <1>2 DEF WriteDefault, SettingsTyped, Values
  <2>2. SettingsTyped'
    <3>1. /\ dpc' \in {"first", "ready"} /\ next' \in 1..3 /\ before' = memory'
          /\ memory' \in {memory, Loaded(ini')} /\ UNCHANGED firstCut
      BY <1>2 DEF WriteDefault, SettingsTyped
    <3>2. memory' \in [LoadedKeys -> Values]
      BY <2>1, <3>1, LoadedFacts DEF SettingsTyped
    <3>3. QED
      BY <2>1, <3>1, <3>2 DEF SettingsTyped
  <2>3. RecordTyped' /\ CountsTyped'
    BY <1>2 DEF WriteDefault, RecordTyped, CountsTyped
  <2>4. QED
    BY <2>2, <2>3 DEF TypeOK, SettingsTyped, RecordTyped, CountsTyped
<1>3. CASE SettingsOK
  <2>1. SettingsTyped'
    BY <1>3 DEF SettingsOK, SettingsTyped, Values
  <2>2. RecordTyped' /\ CountsTyped'
    BY <1>3 DEF SettingsOK, RecordTyped, CountsTyped
  <2>3. QED
    BY <2>1, <2>2 DEF TypeOK, SettingsTyped, RecordTyped, CountsTyped
<1>4. CASE SavePara
  <2>1. ini' \in [Keys -> Values \cup {"absent"}]
    BY <1>4, WrittenFacts DEF SavePara, SettingsTyped
  <2>2. SettingsTyped'
    BY <1>4, <2>1 DEF SavePara, SettingsTyped
  <2>3. RecordTyped' /\ CountsTyped'
    BY <1>4 DEF SavePara, RecordTyped, CountsTyped
  <2>4. QED
    BY <2>2, <2>3 DEF TypeOK, SettingsTyped, RecordTyped, CountsTyped
<1>5. CASE Stops
  <2>1. SettingsTyped'
    BY <1>5 DEF Stops, SettingsTyped
  <2>2. RecordTyped' /\ CountsTyped'
    BY <1>5 DEF Stops, RecordTyped, CountsTyped
  <2>3. QED
    BY <2>1, <2>2 DEF TypeOK, SettingsTyped, RecordTyped, CountsTyped
<1>6. CASE NextMonth
  BY <1>6 DEF NextMonth, TypeOK
<1>7. CASE Show \/ UpdateData
  <2>1. SettingsTyped' /\ RecordTyped'
    BY <1>7 DEF Show, UpdateData, SettingsTyped, RecordTyped
  <2>2. CountsTyped'
    BY <1>7 DEF Show, UpdateData, CountsTyped
  <2>3. QED
    BY <2>1, <2>2 DEF TypeOK, SettingsTyped, RecordTyped, CountsTyped
<1>8. QED
  BY <1>1, <1>2, <1>3, <1>4, <1>5, <1>6, <1>7 DEF Dialog

\* The test thread keeps TypeOK.
LEMMA ThreadType == ASSUME TypeOK, TestThread PROVE TypeOK'
<1>1. SettingsTyped'
  BY TypeParts
     DEF TestThread, Scan, Abandon, Passed, SaveOnlineData, Open, WriteTitle, WriteRow, Count,
         SaveCount, SettingsTyped, settings
<1>2. RecordTyped'
  <2> USE StorageAssumption, TypeParts DEF RecordTyped, CountsTyped, csvFiles
  <2>1. CASE Scan
    <3>1. rec.id \in 0..MaxRecords /\ rec.id < MaxRecords /\ rec.id + 1 \in 0..MaxRecords
      <4>1. rec.id < MaxRecords
        BY <2>1 DEF Scan
      <4>2. rec.id \in 0..MaxRecords
        OBVIOUS
      <4>3. QED
        BY <4>1, <4>2, SMTT(20)
    <3>2. rec' \in [id : 0..MaxRecords, serial : BOOLEAN]
      BY <2>1, <3>1 DEF Scan
    <3>3. rpc' = "scanned" /\ UNCHANGED <<file, bAddtile, csvFiles>>
      BY <2>1 DEF Scan
    <3>4. QED
      BY <3>2, <3>3
  <2>2. CASE Abandon \/ Passed
    BY <2>2 DEF Abandon, Passed
  <2>3. CASE Count
    BY <2>3 DEF Count
  <2>4. CASE SaveCount
    BY <2>4 DEF SaveCount
  <2>5. CASE SaveOnlineData
    BY <2>5 DEF SaveOnlineData
  <2>6. CASE Open
    BY <2>6 DEF Open
  <2>7. CASE WriteTitle \/ WriteRow
    <3>1. Title \in Lines /\ rec.id \in Lines
      BY DEF Title, Lines
    <3>2. \A line \in Lines : [csv EXCEPT ![file] = Append(@, line)]
                                \in [1..Months -> Seq(Lines)]
      OBVIOUS
    <3>3. QED
      BY <2>7, <3>1, <3>2 DEF WriteTitle, WriteRow
  <2>8. QED
    BY <2>1, <2>2, <2>3, <2>4, <2>5, <2>6, <2>7 DEF TestThread
<1>3. CountsTyped'
  BY TypeParts
     DEF TestThread, Scan, Abandon, Passed, SaveOnlineData, Open, WriteTitle, WriteRow, Count,
         SaveCount, CountsTyped, csvFiles, total
<1>4. QED
  BY <1>1, <1>2, <1>3 DEF TypeOK, SettingsTyped, RecordTyped, CountsTyped

-----------------------------------------------------------------------------
(* The settings *)

(* The test thread, the calendar and the total have nothing to do with them. *)
LEMMA SettingsApart ==
  ASSUME TestThread \/ NextMonth \/ Show \/ UpdateData
  PROVE  UNCHANGED <<dpc, settings>>
BY DEF Show, UpdateData, TestThread, NextMonth, Scan, Abandon, Passed, SaveOnlineData,
       Open, WriteTitle, WriteRow, Count, SaveCount

\* Every step keeps what settings and file have in common.
LEMMA SettingsStep == ASSUME IInv, Next PROVE SettingsInv'
<1> USE KeyFacts, TypeParts
    DEF IInv, SettingsInv, SettingsKept, SaveProgress, IniRounded, SettingsTyped
<1>1. CASE Start
  BY <1>1, LoadedFacts DEF Start
<1>2. CASE WriteDefault
  <2>1. IniRounded'
    BY <1>2 DEF WriteDefault
  <2>2. ini' \in [Keys -> Values \cup {"absent"}]
    BY <1>2, DialogType DEF Dialog, TypeOK
  <2>3. dpc' \in {"first", "ready"} /\ (dpc' = "ready" => memory' = Loaded(ini'))
    BY <1>2 DEF WriteDefault
  <2>4. QED
    BY <2>1, <2>2, <2>3, LoadedFacts
<1>3. CASE SettingsOK
  <2>1. /\ dpc = "ready" /\ dpc' = "save" /\ next' = 1
        /\ before' = memory /\ UNCHANGED ini
    BY <1>3 DEF SettingsOK
  <2>2. \A k \in LoadedKeys : Loaded(ini)[k] = Written(memory[k])
    BY <2>1
  <2>3. QED
    BY <2>1, <2>2
<1>4. CASE SavePara
  <2> DEFINE k0 == SavedKeys[next]
             v == Written(memory[k0])
  <2>1. k0 \in LoadedKeys /\ v \in Values /\ v # "fine" /\ v # "absent"
    BY WrittenFacts
  <2>2. /\ dpc = "save" /\ ini' = [ini EXCEPT ![k0] = v]
        /\ UNCHANGED <<memory, before>>
        /\ \/ next < 3 /\ next' = next + 1 /\ dpc' = "save"
           \/ next = 3 /\ next' = 1 /\ dpc' = "ready"
    BY <1>4 DEF SavePara
  <2>3. IniRounded'
    BY <2>1, <2>2
  <2>4. Loaded(ini') = [Loaded(ini) EXCEPT ![k0] = v]
    <3> HIDE DEF v, k0
    <3>1. ini' = [ini EXCEPT ![k0] = v]
      BY <2>2
    <3>2. QED
      BY <2>1, <3>1 DEF Loaded
  <2>5. \A i \in 1..3 : i <= next => Loaded(ini')[SavedKeys[i]] = Written(memory[SavedKeys[i]])
    BY <2>1, <2>2, <2>4 DEF Loaded
  <2>6. \A i \in 1..3 : i > next => Loaded(ini')[SavedKeys[i]] = Written(before[SavedKeys[i]])
    BY <2>1, <2>2, <2>4 DEF Loaded
  <2>7. CASE next < 3
    BY <2>2, <2>3, <2>5, <2>6, <2>7
  <2>8. CASE next = 3
    BY <2>2, <2>3, <2>5, <2>8
  <2>9. QED
    BY <2>7, <2>8
<1>5. CASE Stops
  BY <1>5 DEF Stops
<1>6. CASE TestThread \/ NextMonth \/ Show \/ UpdateData
  BY <1>6, SettingsApart DEF settings
<1>7. QED
  BY <1>1, <1>2, <1>3, <1>4, <1>5, <1>6 DEF Next, Dialog

\* Every step keeps the limit in force set and saved.
LEMMA LimitStep == ASSUME IInv, Next PROVE LimitInv'
<1> USE KeyFacts, TypeParts DEF IInv, LimitInv, LimitIsSet, LimitKept, Filled, SettingsTyped
<1>1. CASE Start
  <2>1. ini = Missing => ini["Max"] = "absent"
    BY DEF Missing
  <2>2. QED
    BY <1>1, <2>1, LoadedFacts DEF Start
<1>2. CASE WriteDefault
  <2>1. ini' \in [Keys -> Values \cup {"absent"}]
    BY <1>2, DialogType DEF Dialog, TypeOK
  <2>2. next = 2 => Filled(ini')
    BY <1>2 DEF WriteDefault
  <2>3. Filled(ini) => Filled(ini')
    BY <1>2 DEF WriteDefault
  <2>4. QED
    <3>1. /\ dpc = "first" /\ UNCHANGED firstCut
          /\ \/ next < 3 /\ next' = next + 1 /\ dpc' = "first"
             \/ next = 3 /\ dpc' = "ready" /\ memory' = Loaded(ini')
      BY <1>2 DEF WriteDefault
    <3>2. Filled(ini') => Loaded(ini')["Max"] # "zero"
      BY <2>1, LoadedFacts
    <3>3. ~firstCut /\ next' = 3 /\ dpc' = "first" => Filled(ini')
      BY <2>2, <3>1
    <3>4. ~firstCut /\ dpc' = "ready" => Filled(ini')
      BY <2>3, <3>1
    <3>5. QED
      BY <3>1, <3>2, <3>3, <3>4
<1>3. CASE SettingsOK
  <2>1. memory["Max"] # "zero" => memory'["Max"] # "zero"
    BY <1>3 DEF SettingsOK
  <2>2. QED
    BY <1>3, <2>1 DEF SettingsOK
<1>4. CASE SavePara
  <2>1. memory["Max"] # "zero" /\ Filled(ini) => Filled(ini')
    BY <1>4, WrittenFacts DEF SavePara
  <2>2. dpc = "save" /\ dpc' \in {"save", "ready"} /\ UNCHANGED <<memory, firstCut>>
    BY <1>4 DEF SavePara
  <2>3. QED
    BY <2>1, <2>2
<1>5. CASE Stops
  BY <1>5 DEF Stops
<1>6. CASE TestThread \/ NextMonth \/ Show \/ UpdateData
  BY <1>6, SettingsApart DEF settings
<1>7. QED
  BY <1>1, <1>2, <1>3, <1>4, <1>5, <1>6 DEF Next, Dialog

-----------------------------------------------------------------------------
(* The csv files *)

(* A step that leaves files and record alone keeps what is known of them. *)
LEMMA CsvFrame ==
  ASSUME IInv, UNCHANGED <<record, csvFiles>>
  PROVE  CsvInv'
BY DEF IInv, CsvInv, TitleFirst, TitleKnown, CreatedHasTitle, HasTitle, RecordNumbered,
       record, csvFiles

\* Every step keeps the title first in a csv file and its rows numbered.
LEMMA CsvStep == ASSUME IInv, Next PROVE CsvInv'
<1> USE TypeParts, StorageAssumption
    DEF IInv, CsvInv, TitleFirst, TitleKnown, CreatedHasTitle, HasTitle, RecordNumbered,
        RecordTyped, Records
<1>1. CASE WriteDefault \/ SettingsOK \/ SavePara \/ Show \/ UpdateData \/ NextMonth
  BY <1>1, CsvFrame DEF WriteDefault, SettingsOK, SavePara, Show, UpdateData, NextMonth
<1>2. CASE Start
  BY <1>2 DEF Start, record
<1>3. CASE Stops
  BY <1>3 DEF Stops
<1>4. CASE Scan
  BY <1>4 DEF Scan, csvFiles
<1>5. CASE Abandon \/ Passed \/ Count \/ SaveCount
  BY <1>5 DEF Abandon, Passed, Count, SaveCount, csvFiles
<1>6. CASE SaveOnlineData
  BY <1>6 DEF SaveOnlineData, csvFiles
<1>7. CASE Open
  BY <1>7 DEF Open
<1>8. CASE WriteTitle
  <2>1. /\ rpc = "title" /\ rpc' = "row" /\ csv[file] = <<>> /\ file \in created
        /\ UNCHANGED <<rec, file, created, titleCut>>
        /\ csv' = [csv EXCEPT ![file] = Append(@, Title)]
    BY <1>8 DEF WriteTitle
  <2>2. csv'[file] = <<Title>> /\ \A m \in 1..Months : m # file => csv'[m] = csv[m]
    BY <2>1
  <2>3. Title = 0 /\ <<Title>>[1] = Title /\ DOMAIN <<Title>> = {1} /\ <<Title>> # <<>>
    BY DEF Title
  <2>4. TitleFirst'
    <3>1. ASSUME NEW m \in 1..Months, m # file PROVE csv'[m] = csv[m]
      BY <2>2, <3>1
    <3>2. \A i \in DOMAIN csv'[file] : i = 1
      BY <2>2, <2>3
    <3>3. csv'[file][1] = Title
      BY <2>2, <2>3
    <3>4. UNCHANGED titleCut
      BY <2>1
    <3>5. QED
      BY <3>1, <3>2, <3>3, <3>4
  <2>5. TitleKnown' /\ RecordNumbered'
    BY <2>1, <2>2
  <2>6. CreatedHasTitle'
    BY <2>1, <2>2, <2>3
  <2>7. QED
    BY <2>4, <2>5, <2>6
<1>9. CASE WriteRow
  <2>1. /\ rpc = "row" /\ rpc' = "count" /\ file \in created /\ rec.id # Title
        /\ UNCHANGED <<rec, file, created, titleCut>>
        /\ csv' = [csv EXCEPT ![file] = Append(@, rec.id)]
    BY <1>9 DEF WriteRow, Title
  <2> DEFINE old == csv[file]
             new == csv'[file]
  <2>2. rec.id \in Lines /\ old \in Seq(Lines)
    BY DEF Lines
  <2>3. /\ new = Append(old, rec.id)
        /\ \A m \in 1..Months : m # file => csv'[m] = csv[m]
    BY <2>1
  <2>4. /\ new # <<>>
        /\ DOMAIN new = 1..(Len(old) + 1) /\ DOMAIN old = 1..Len(old)
        /\ \A i \in 1..Len(old) : new[i] = old[i]
        /\ new[Len(old) + 1] = rec.id
        /\ old # <<>> => new[1] = old[1]
    <3> HIDE DEF old, new
    <3>1. DOMAIN old = 1..Len(old)
      BY <2>2
    <3>2. QED
      BY <2>2, <2>3, <3>1, AppendFacts, SMTT(20)
  <2>5. HasTitle(file) \/ file \in titleCut
    BY <2>1
  <2>6. TitleFirst'
    <3>1. \A i \in DOMAIN new : new[i] = Title => i = 1
      BY <2>1, <2>2, <2>4
    <3>2. new[1] # Title => file \in titleCut
      BY <2>1, <2>4, <2>5
    <3>3. QED
      BY <2>1, <2>3, <3>1, <3>2
  <2>7. TitleKnown' /\ RecordNumbered'
    BY <2>1, <2>3
  <2>8. CreatedHasTitle'
    BY <2>1, <2>3, <2>4, <2>5
  <2>9. QED
    BY <2>6, <2>7, <2>8
<1>10. QED
  BY <1>1, <1>2, <1>3, <1>4, <1>5, <1>6, <1>7, <1>8, <1>9 DEF Next, Dialog, TestThread

-----------------------------------------------------------------------------
(* The total *)

\* Every step keeps control, total, file and rows in step.
LEMMA TotalStep == ASSUME IInv, Next PROVE TotalInStep'
<1> USE TypeParts
    DEF IInv, TotalInStep, ControlInStep, RowsInTotal, CountsTyped, Records, record,
        csvFiles, total, settings
<1>1. CASE Start
  BY <1>1 DEF Start
<1>2. CASE WriteDefault \/ SettingsOK \/ SavePara \/ NextMonth
  BY <1>2 DEF WriteDefault, SettingsOK, SavePara, NextMonth
<1>3. CASE Stops
  BY <1>3 DEF Stops
<1>4. CASE Scan \/ Abandon \/ SaveOnlineData \/ Open \/ WriteTitle
  BY <1>4 DEF Scan, Abandon, SaveOnlineData, Open, WriteTitle
<1>5. CASE WriteRow
  BY <1>5 DEF WriteRow
<1>6. CASE Count \/ SaveCount
  BY <1>6 DEF Count, SaveCount
<1>7. CASE Show \/ Passed
  BY <1>7 DEF Show, Passed
<1>8. CASE UpdateData
  BY <1>8 DEF UpdateData
<1>9. QED
  BY <1>1, <1>2, <1>3, <1>4, <1>5, <1>6, <1>7, <1>8 DEF Next, Dialog, TestThread

\* Every step keeps the inductive invariant.
LEMMA Step == ASSUME IInv, [Next]_vars PROVE IInv'
<1>1. CASE Next
  <2>1. TypeOK'
    BY <1>1, DialogType, ThreadType DEF Next, IInv
  <2>2. QED
    BY <1>1, <2>1, SettingsStep, LimitStep, CsvStep, TotalStep DEF IInv
<1>2. CASE UNCHANGED vars
  <2> USE <1>2 DEF IInv, vars, settings, record, csvFiles, total
  <2>1. TypeOK'
    BY DEF TypeOK
  <2>2. SettingsInv' /\ LimitInv'
    BY DEF SettingsInv, SettingsKept, SaveProgress, IniRounded, LimitInv, LimitIsSet,
           LimitKept
  <2>3. CsvInv' /\ TotalInStep'
    BY CsvFrame DEF TotalInStep, ControlInStep, RowsInTotal
  <2>4. QED
    BY <2>1, <2>2, <2>3
<1>3. QED
  BY <1>1, <1>2

-----------------------------------------------------------------------------
(* The inductive invariant holds of every state: settings, files and total  *)
(* are in step with the write each thread comes to next.                    *)
THEOREM Invariance == Spec => []IInv
BY InitIInv, Step, PTL DEF Spec

(* Every variable has its type. *)
THEOREM TypeCorrect == Spec => []TypeOK
<1>1. IInv => TypeOK
  BY DEF IInv
<1>2. QED
  BY <1>1, Invariance, PTL

(* A restart keeps the settings; one in a save, each as before or as after. *)
THEOREM SettingsAreKept == Spec => []SettingsKept
<1>1. IInv => SettingsKept
  BY DEF IInv, SettingsInv
<1>2. QED
  BY <1>1, Invariance, PTL

(* The limit is zero only after a first start that was cut off. *)
THEOREM LimitSet == Spec => []LimitIsSet
<1>1. IInv => LimitIsSet
  BY DEF IInv, LimitInv
<1>2. QED
  BY <1>1, Invariance, PTL

(* One title a file, first, but for a file whose creator was killed. *)
THEOREM TitlesFirst == Spec => []TitleFirst
<1>1. IInv => TitleFirst
  BY DEF IInv, CsvInv
<1>2. QED
  BY <1>1, Invariance, PTL

(* The total covers the rows of this life but for one per click that came between *)
(* a count and the next result shown, and count.ini tells it up to that one.       *)
THEOREM TotalCovers == Spec => []TotalCoversRows
<1>1. IInv => TotalCoversRows
  BY TypeParts DEF IInv, TotalInStep, RowsInTotal, TotalCoversRows, CountsTyped
<1>2. QED
  BY <1>1, Invariance, PTL

(* Lines are appended and never lost or changed. *)
THEOREM LinesAreKept == Spec => LinesKept
<1> DEFINE Keeps == \A m \in 1..Months : \A i \in DOMAIN csv[m] :
                      i \in DOMAIN csv'[m] /\ csv'[m][i] = csv[m][i]
<1>1. ASSUME IInv, Next PROVE Keeps
  <2>1. CASE UNCHANGED csv
    BY <2>1
  <2>2. ASSUME NEW line \in Lines, csv' = [csv EXCEPT ![file] = Append(@, line)]
        PROVE  Keeps
    <3>1. file \in 1..Months /\ csv \in [1..Months -> Seq(Lines)]
      BY <1>1, TypeParts DEF IInv, RecordTyped
    <3>2. QED
      BY <2>2, <3>1
  <2>3. Title \in Lines /\ rec.id \in Lines
    BY <1>1, StorageAssumption, TypeParts DEF IInv, RecordTyped, Title, Lines
  <2>4. UNCHANGED csv \/ \E line \in Lines : csv' = [csv EXCEPT ![file] = Append(@, line)]
    BY <1>1, <2>3
       DEF Next, Dialog, TestThread, Start, WriteDefault, SettingsOK, SavePara, Show,
           UpdateData, Scan, Abandon, Passed, SaveOnlineData, Open, WriteTitle,
           WriteRow, Count, SaveCount, Stops, NextMonth, csvFiles
  <2>5. QED
    BY <2>1, <2>2, <2>4
<1>2. IInv /\ [Next]_vars => [Keeps]_vars
  BY <1>1
<1>3. QED
  BY <1>2, Invariance, PTL DEF Spec, LinesKept
=============================================================================
