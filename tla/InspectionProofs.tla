-------------------------- MODULE InspectionProofs --------------------------
(***************************************************************************)
(* Theorems about Inspection, for any products and any number of stops:    *)
(* what is recorded, shown, counted, lit and freed is consistent in every  *)
(* interleaving of test thread, dialog and operator, and a station with a  *)
(* careful operator implements the ledger of Station.                      *)
(***************************************************************************)
EXTENDS Inspection, TLAPS

\* The record and the messages at each point of a round.
RoundInOrder ==
  /\ wpc = "send" <=> outbox # <<>>
  /\ wpc = "send" => after \in {"scanned", "stop", "record", "count", "cleared"}
  /\ Where \in {"scan", "scanned", "cleared"} => state = 0
  /\ Where = "acc" => state = 1
  /\ Where = "film" => state = 2
  /\ Where = "record" => state = -1 \/ (state = 1 /\ build = "Mainread")
  /\ state \in {1, 2} \/ Where \in {"scan", "scanned"} => results = 0

\* The exit button is the last one, and it wakes the test thread up.
ExitInOrder ==
  /\ m_bexit <=> upc \in {"leaving", "closed"}
  /\ m_bexit => m_hTestEvent
  /\ wpc = "done" => m_bexit
  /\ build = "MainProcess" =>
       wpc \in {"wait", "done"} /\ upc # "starting" /\ (m_hTestEvent => m_bexit)

\* Between Record and Count the total is one behind the inspections.
TotalInStep ==
  /\ m_iTotal <= cycles /\ shown <= m_iTotal /\ countFile <= cycles
  /\ Where = "count" => m_iTotal < cycles

\* A product comes once, and one that was recorded holds the station.
StayInOrder ==
  /\ fixture \notin unseen /\ serial \notin unseen /\ rowed \cap unseen = {}
  /\ fixture \in rowed => state = -1
  /\ Open /\ serial # NoSerial => serial \notin rowed
  /\ invited => fixture = Empty

RoundInv == TypeOK /\ RoundInOrder /\ ExitInOrder /\ TotalInStep /\ StayInOrder

\* From here on: what a careful operator may rely on.

\* While the light is out the test thread rests, and handlers that need it to
\* rest begin only then.
LightTells ==
  /\ wpc \notin {"wait", "done"} \/ state # 0 => light
  /\ m_hTestEvent /\ ~m_bexit => light
  /\ wpc = "dark" => ~m_hTestEvent
  /\ upc = "starting" => light
  /\ upc \in {"starting", "settings"} =>
       ~m_hTestEvent /\ wpc = "wait" /\ state = 0
  /\ m_bexit => wpc \in {"wait", "done"} /\ state = 0

\* The product of the cycle has not been replaced, and has passed what was found.
Recordable(p) ==
  /\ "barcode" \in passed[p]
  /\ "film" \in passed[p] \/ (build = "Mainread" /\ "acc" \in passed[p])

ProductKept ==
  /\ Open /\ serial # NoSerial =>
       fixture \in {serial, Empty} /\ ~invited /\ "barcode" \in passed[serial]
  /\ Where = "record" /\ serial # NoSerial => Recordable(serial)
  /\ \A p \in rows : Recordable(p)

\* What is left to report of accessories that are all there.
AccMessages == {<< <<"book", TRUE>>, <<"dry", TRUE>>, <<"acc", TRUE>> >>,
                << <<"dry", TRUE>>, <<"acc", TRUE>> >>, << <<"acc", TRUE>> >>}

\* The reports that clear nothing shown of the bar code.
Without(messages, m) == \A i \in 1..Len(messages) : messages[i] # m
Silent(messages) == Without(messages, <<"barcode", FALSE>>)

\* The bar code of an open cycle is shown from its report on.
CodeRead == wpc = "send" /\ after = "scanned" => outbox = << <<"barcode", TRUE>> >>
NotCleared == Open => Silent(outbox)
CodeShown ==
  Open /\ serial # NoSerial => flags["barcode"] \/ (wpc = "send" /\ after = "scanned")

\* The film, or the accessories of which the rest is still to be reported.
FilmShown ==
  \/ wpc = "send" /\ outbox = << <<"film", TRUE>> >>
  \/ wpc = "record" /\ flags["film"] /\ lamp # "off"

AccShown ==
  /\ wpc = "send" => outbox \in AccMessages
  /\ flags["book"] \/ (wpc = "send" /\ Len(outbox) = 3)
  /\ flags["dry"] \/ (wpc = "send" /\ Len(outbox) >= 2)
  /\ flags["acc"] \/ wpc = "send"

RecordShown ==
  Where = "record" => \/ state = -1 /\ FilmShown
                      \/ state = 1 /\ build = "Mainread" /\ AccShown

ShownSoFar == CodeRead /\ NotCleared /\ CodeShown /\ RecordShown

CarefulInv == ~hasty => LightTells /\ ProductKept /\ ShownSoFar

IInv == RoundInv /\ CarefulInv

-----------------------------------------------------------------------------
(* Messages and sequences of them. *)

\* What the checks report are messages.
LEMMA MessageFacts ==
  /\ \A ok \in BOOLEAN :
       /\ << <<"barcode", ok>> >> \in Seq(Messages)
       /\ << <<"acc", ok>> >> \in Seq(Messages)
       /\ << <<"film", ok>> >> \in Seq(Messages)
  /\ \A a \in BOOLEAN, b \in BOOLEAN, c \in BOOLEAN :
       << <<"book", a>>, <<"dry", b>>, <<"acc", c>> >> \in Seq(Messages)
  /\ << <<"saved", TRUE>> >> \in Seq(Messages)
BY DEF Messages, Checks

\* Short sequences, whatever they hold.
LEMMA ShortSequences ==
  ASSUME NEW a, NEW b, NEW c
  PROVE  /\ Len(<<a>>) = 1 /\ Len(<<a, b>>) = 2 /\ Len(<<a, b, c>>) = 3
         /\ <<a>>[1] = a /\ <<a, b>>[1] = a /\ <<a, b, c>>[1] = a
         /\ Tail(<<a, b>>) = <<b>>
OBVIOUS

\* The rest of three messages.
LEMMA TailOfThree ==
  ASSUME NEW a, NEW b, NEW c
  PROVE  Tail(<<a, b, c>>) = <<b, c>>
OBVIOUS

\* A sequence lacks a message when each of its members does.
LEMMA WithoutFacts ==
  ASSUME NEW a, NEW b, NEW c, NEW m, a # m
  PROVE  /\ Without(<<a>>, m)
         /\ b # m => Without(<<a, b>>, m)
         /\ b # m /\ c # m => Without(<<a, b, c>>, m)
BY DEF Without

\* What a sequence lacks, its first member is not and its rest lacks.
LEMMA WithoutTail ==
  ASSUME NEW s \in Seq(Messages), NEW m, s # <<>>, Without(s, m)
  PROVE  s[1] # m /\ Without(Tail(s), m)
BY DEF Without

\* No report but that of a bar code not read clears what is shown.
LEMMA SilentReports ==
  ASSUME NEW ok \in BOOLEAN, NEW book \in BOOLEAN, NEW dry \in BOOLEAN
  PROVE  /\ Silent(<< <<"acc", ok>> >>) /\ Silent(<< <<"film", ok>> >>)
         /\ Silent(<< <<"barcode", TRUE>> >>)
         /\ Silent(<< <<"book", book>>, <<"dry", dry>>, <<"acc", ok>> >>)
<1>1. /\ <<"acc", ok>> # <<"barcode", FALSE>> /\ <<"film", ok>> # <<"barcode", FALSE>>
      /\ <<"book", book>> # <<"barcode", FALSE>> /\ <<"dry", dry>> # <<"barcode", FALSE>>
      /\ <<"barcode", TRUE>> # <<"barcode", FALSE>>
  OBVIOUS
<1>2. QED
  BY Zenon, <1>1, WithoutFacts DEF Silent

\* The first message and the rest of the messages.
LEMMA TailFacts ==
  ASSUME NEW s \in Seq(Messages), s # <<>>
  PROVE  /\ Head(s) \in Messages /\ Tail(s) \in Seq(Messages)
         /\ Len(Tail(s)) = Len(s) - 1
         /\ \A i \in 1..Len(Tail(s)) : Tail(s)[i] = s[i + 1]
         /\ Head(s) = s[1]
OBVIOUS

-----------------------------------------------------------------------------
(* The types. *)

WorkerTyped ==
  /\ build \in Builds /\ hasty \in BOOLEAN
  /\ wpc \in WorkerPoints
  /\ state \in -1..2
  /\ serial \in Products \cup {NoSerial}
  /\ results \in {0, 2}
  /\ outbox \in Seq(Messages)
  /\ after \in WorkerPoints

DialogTyped ==
  /\ upc \in {"idle", "starting", "sleep", "settings", "leaving", "closed"}
  /\ m_hTestEvent \in BOOLEAN /\ m_bexit \in BOOLEAN
  /\ toCheck \subseteq {"barcode", "acc", "film"}
  /\ flags \in [Checks -> BOOLEAN]
  /\ m_iTotal \in Nat /\ shown \in Nat /\ countFile \in Nat
  /\ light \in BOOLEAN /\ lamp \in Levels

PlaceTyped ==
  /\ fixture \in Products \cup {Empty}
  /\ unseen \subseteq Products
  /\ stops \in 0..MaxStops
  /\ rows \subseteq Products
  /\ passed \in [Products -> SUBSET {"barcode", "acc", "film"}]
  /\ rowed \subseteq Products
  /\ invited \in BOOLEAN
  /\ cycles \in Nat
  /\ stale \in {"no", "stopped", "resumed"}

\* TypeOK in three parts, for the provers.
LEMMA TypeParts == TypeOK <=> WorkerTyped /\ DialogTyped /\ PlaceTyped
BY DEF TypeOK, WorkerTyped, DialogTyped, PlaceTyped

-----------------------------------------------------------------------------
(* What the steps with a choice do, one case after the other.              *)

\* ReadBarCode: the serial number is that of the product on the fixture, or none.
LEMMA BarCodeEffect ==
  ASSUME TypeOK, ReadBarCode
  PROVE  \E ok \in BOOLEAN :
           /\ ok => fixture \in Products
           /\ serial' = IF ok THEN fixture ELSE NoSerial
           /\ wpc' = "send" /\ outbox' = << <<"barcode", ok>> >>
           /\ after' = IF ok THEN "scanned" ELSE "stop"
           /\ passed' = IF ok THEN [passed EXCEPT ![fixture] = @ \cup {"barcode"}]
                              ELSE passed
BY DEF ReadBarCode, Outcomes, Send, Passes, TypeOK

\* CheckAccessary: no image, a part missing, or everything there.
LEMMA AccessaryEffect ==
  ASSUME TypeOK, CheckAccessary
  PROVE  /\ wpc' = "send"
         /\ \/ /\ outbox' = << <<"acc", FALSE>> >> /\ after' = "stop"
               /\ state' = state /\ passed' = passed
            \/ \E book \in BOOLEAN, dry \in BOOLEAN :
                 /\ outbox' = << <<"book", book>>, <<"dry", dry>>, <<"acc", FALSE>> >>
                 /\ after' = "stop" /\ state' = state /\ passed' = passed
            \/ /\ outbox' = << <<"book", TRUE>>, <<"dry", TRUE>>, <<"acc", TRUE>> >>
               /\ after' = IF build = "Mainread" THEN "record" ELSE "stop"
               /\ state' = IF build = "Mainread2" THEN 2 ELSE state
               /\ fixture \in Products
               /\ passed' = [passed EXCEPT ![fixture] = @ \cup {"acc"}]
<1>1. CASE /\ Send(<< <<"acc", FALSE>> >>, "stop")
           /\ UNCHANGED <<state, passed>>
  BY <1>1 DEF Send
<1>2. ASSUME NEW book \in Outcomes, NEW dry \in Outcomes,
             Send(<< <<"book", book>>, <<"dry", dry>>, <<"acc", book /\ dry>> >>,
                  IF (book /\ dry) /\ build = "Mainread" THEN "record" ELSE "stop"),
             state' = IF (book /\ dry) /\ build = "Mainread2" THEN 2 ELSE state,
             Passes("acc", book /\ dry)
      PROVE  /\ wpc' = "send"
             /\ \/ /\ outbox' = << <<"book", book>>, <<"dry", dry>>, <<"acc", FALSE>> >>
                   /\ after' = "stop" /\ state' = state /\ passed' = passed
                \/ /\ outbox' = << <<"book", TRUE>>, <<"dry", TRUE>>, <<"acc", TRUE>> >>
                   /\ after' = IF build = "Mainread" THEN "record" ELSE "stop"
                   /\ state' = IF build = "Mainread2" THEN 2 ELSE state
                   /\ fixture \in Products
                   /\ passed' = [passed EXCEPT ![fixture] = @ \cup {"acc"}]
  <2>1. book \in BOOLEAN /\ dry \in BOOLEAN
    BY DEF Outcomes
  <2>2. CASE book = TRUE /\ dry = TRUE
    BY <1>2, <2>2 DEF Send, Passes, Outcomes, TypeOK
  <2>3. CASE book = FALSE \/ dry = FALSE
    BY <1>2, <2>3 DEF Send, Passes
  <2>4. QED
    BY <2>1, <2>2, <2>3
<1>3. \A ok \in Outcomes : ok \in BOOLEAN
  BY DEF Outcomes
<1>4. QED
  BY <1>1, <1>2, <1>3 DEF CheckAccessary

\* CheckCovery: the film is torn, or the product holds the station.
LEMMA CoveryEffect ==
  ASSUME TypeOK, CheckCovery
  PROVE  /\ wpc' = "send"
         /\ \/ /\ outbox' = << <<"film", FALSE>> >> /\ after' = "stop"
               /\ state' = 2 /\ passed' = passed
            \/ /\ outbox' = << <<"film", TRUE>> >> /\ after' = "record"
               /\ state' = -1 /\ fixture \in Products
               /\ passed' = [passed EXCEPT ![fixture] = @ \cup {"film"}]
BY DEF CheckCovery, Outcomes, Send, Passes, TypeOK

\* Record: the product holds the station and has at most a row of its own.
LEMMA RecordEffect ==
  ASSUME TypeOK, RoundInOrder, Record
  PROVE  /\ results' \in {0, 2} /\ state' = -1 /\ cycles' = cycles + 1
         /\ wpc' = "send" /\ outbox' = << <<"saved", TRUE>> >> /\ after' = "count"
         /\ \E row \in SUBSET ({serial} \ {NoSerial}) :
              rows' = rows \cup row /\ rowed' = rowed \cup row
<1>1. results' \in {0, 2}
  BY DEF Record, RoundInOrder, Where, TypeOK
<1>2. \E row \in SUBSET ({serial} \ {NoSerial}) :
        rows' = rows \cup row /\ rowed' = rowed \cup row
  BY DEF Record
<1>3. QED
  BY <1>1, <1>2 DEF Record, Send

\* CheckStop: the empty fixture ends the cycle, anything else ends nothing.
LEMMA StopEffect ==
  ASSUME CheckStop
  PROVE  \/ /\ fixture = Empty /\ state' = 0
            /\ wpc' = "send" /\ outbox' = << <<"barcode", FALSE>> >>
            /\ after' = "cleared"
         \/ wpc' = "top" /\ UNCHANGED <<state, outbox, after>>
BY DEF CheckStop, Send, Goto

\* The dialog takes the first message and lets the thread go on after the last.
LEMMA DispatchEffect ==
  ASSUME TypeOK, RoundInOrder, Dispatch
  PROVE  /\ wpc = "send" /\ outbox # <<>> /\ outbox[1] \in Messages
         /\ outbox' = Tail(outbox) /\ outbox' \in Seq(Messages)
         /\ Len(outbox') = Len(outbox) - 1
         /\ \A i \in 1..Len(outbox') : outbox'[i] = outbox[i + 1]
         /\ \/ outbox' = <<>> /\ wpc' = after
            \/ outbox' # <<>> /\ wpc' = "send"
         /\ \/ outbox[1] = <<"saved", TRUE>> /\ UNCHANGED <<flags, lamp, shown>>
            \/ \E check \in Checks, ok \in BOOLEAN :
                 /\ outbox[1] = <<check, ok>>
                 /\ flags' = Shown(check, ok) /\ lamp' \in LampAfter(check, ok)
                 /\ shown' = m_iTotal
<1>1. wpc = "send" /\ outbox # <<>> /\ outbox \in Seq(Messages)
  BY DEF Dispatch, RoundInOrder, TypeOK
<1>2. /\ outbox' = Tail(outbox)
      /\ wpc' = IF outbox' = <<>> THEN after ELSE "send"
  BY DEF Dispatch
<1>3. /\ outbox' \in Seq(Messages) /\ Len(outbox') = Len(outbox) - 1
      /\ \A i \in 1..Len(outbox') : outbox'[i] = outbox[i + 1]
      /\ Head(outbox) = outbox[1] /\ outbox[1] \in Messages
  BY <1>1, <1>2, TailFacts
<1>4. ASSUME outbox[1] = <<"saved", TRUE>>
      PROVE  UNCHANGED <<flags, lamp, shown>>
  BY <1>3, <1>4 DEF Dispatch
<1>5. ASSUME NEW check \in Checks, NEW ok \in BOOLEAN, outbox[1] = <<check, ok>>
      PROVE  /\ flags' = Shown(check, ok) /\ lamp' \in LampAfter(check, ok)
             /\ shown' = m_iTotal
  BY <1>3, <1>5 DEF Dispatch, Checks
<1>6. \/ outbox[1] = <<"saved", TRUE>>
      \/ \E check \in Checks, ok \in BOOLEAN : outbox[1] = <<check, ok>>
  <2>1. ASSUME NEW message \in Checks \X BOOLEAN
        PROVE  \E check \in Checks, ok \in BOOLEAN : message = <<check, ok>>
    OBVIOUS
  <2>2. QED
    BY <1>3, <2>1 DEF Messages
<1>7. \/ outbox[1] = <<"saved", TRUE>> /\ UNCHANGED <<flags, lamp, shown>>
      \/ \E check \in Checks, ok \in BOOLEAN :
           /\ outbox[1] = <<check, ok>>
           /\ flags' = Shown(check, ok) /\ lamp' \in LampAfter(check, ok)
           /\ shown' = m_iTotal
  BY Zenon, <1>4, <1>5, <1>6
<1>8. QED
  BY <1>1, <1>2, <1>3, <1>7

\* What a report makes of the flags and of the lamp.
LEMMA ShownFacts ==
  ASSUME flags \in [Checks -> BOOLEAN], lamp \in Levels,
         NEW check \in Checks, NEW ok \in BOOLEAN
  PROVE  /\ Shown(check, ok) \in [Checks -> BOOLEAN]
         /\ LampAfter(check, ok) \subseteq Levels
         /\ ok => /\ Shown(check, ok)[check]
                  /\ \A c \in Checks : flags[c] => Shown(check, ok)[c]
                  /\ lamp # "off" => "off" \notin LampAfter(check, ok)
         /\ ok /\ check = "film" => "off" \notin LampAfter(check, ok)
         /\ check # "barcode" => Shown(check, ok)["barcode"] = flags["barcode"]
<1>1. CASE check = "barcode" /\ ~ok
  BY <1>1 DEF Shown, LampAfter, AllClear, Levels
<1>2. CASE check \in {"acc", "book", "dry"} /\ ~ok
  BY <1>2 DEF Shown, LampAfter, Checks, Levels
<1>3. CASE ok \/ check = "film"
  BY <1>3 DEF Shown, LampAfter, Checks, Levels
<1>4. QED
  BY <1>1, <1>2, <1>3 DEF Checks

\* The variables of the test thread.
LEMMA WorkerTypes ==
  ASSUME TypeOK, RoundInOrder, [Next]_vars
  PROVE  WorkerTyped'
<1>0. WorkerTyped /\ DialogTyped /\ PlaceTyped /\ RoundInOrder
  BY TypeParts
<1>1. CASE Top
  BY <1>0, <1>1
     DEF Top, At, Goto, Elsewhere, setting, WorkerTyped, WorkerPoints, Grabbing
<1>2. CASE Dark
  BY <1>0, <1>2 DEF Dark, At, Goto, setting, WorkerTyped, WorkerPoints, Grabbing
<1>3. CASE Proceed
  BY <1>0, <1>3
     DEF Proceed, At, Goto, Elsewhere, setting, WorkerTyped, WorkerPoints, Grabbing
<1>4. CASE Hold
  BY <1>0, <1>4
     DEF Hold, At, Goto, Elsewhere, setting, WorkerTyped, WorkerPoints, Grabbing
<1>5. CASE NewCycle
  BY <1>0, <1>5 DEF NewCycle, At, Goto, setting, WorkerTyped, WorkerPoints, Grabbing
<1>6. CASE BeginCheck
  BY <1>0, <1>6
     DEF BeginCheck, At, Goto, Elsewhere, setting, WorkerTyped, WorkerPoints, Grabbing
<1>7. CASE ReadBarCode
  <2>1. build' = build /\ hasty' = hasty /\ state' = state /\ results' = results
    BY <1>7 DEF ReadBarCode, setting
  <2>2. /\ wpc' = "send" /\ outbox' \in Seq(Messages)
        /\ after' \in {"scanned", "stop"} /\ serial' \in Products \cup {NoSerial}
    BY <1>7, BarCodeEffect, MessageFacts
  <2>3. QED
    BY <1>0, <2>1, <2>2 DEF WorkerTyped, WorkerPoints, Grabbing
<1>8. CASE Scanned
  BY <1>0, <1>8 DEF Scanned, At, Goto, setting, WorkerTyped, WorkerPoints, Grabbing
<1>9. CASE CheckAccessary
  <2>1. build' = build /\ hasty' = hasty /\ serial' = serial /\ results' = results
    BY <1>9 DEF CheckAccessary, setting
  <2>2. /\ wpc' = "send" /\ outbox' \in Seq(Messages)
        /\ after' \in {"record", "stop"} /\ state' \in {state, 2}
    BY <1>9, AccessaryEffect, MessageFacts
  <2>3. QED
    BY <1>0, <2>1, <2>2 DEF WorkerTyped, WorkerPoints, Grabbing
<1>10. CASE CheckCovery
  <2>1. build' = build /\ hasty' = hasty /\ serial' = serial /\ results' = results
    BY <1>10 DEF CheckCovery, setting
  <2>2. /\ wpc' = "send" /\ outbox' \in Seq(Messages)
        /\ after' \in {"record", "stop"} /\ state' \in {2, -1}
    BY <1>10, CoveryEffect, MessageFacts
  <2>3. QED
    BY <1>0, <2>1, <2>2 DEF WorkerTyped, WorkerPoints, Grabbing
<1>11. CASE Record
  <2>1. build' = build /\ hasty' = hasty /\ serial' = serial
    BY <1>11 DEF Record, setting
  <2>2. /\ wpc' = "send" /\ outbox' \in Seq(Messages) /\ after' = "count"
        /\ state' = -1 /\ results' \in {0, 2}
    BY <1>0, <1>11, RecordEffect, MessageFacts
  <2>3. QED
    BY <1>0, <2>1, <2>2 DEF WorkerTyped, WorkerPoints, Grabbing
<1>12. CASE Count
  BY <1>0, <1>12 DEF Count, At, Goto, setting, WorkerTyped, WorkerPoints, Grabbing
<1>13. CASE SaveCount
  BY <1>0, <1>13 DEF SaveCount, At, Goto, setting, WorkerTyped, WorkerPoints, Grabbing
<1>14. CASE CheckStop
  <2>1. /\ build' = build /\ hasty' = hasty /\ serial' = serial
        /\ results' = results
    BY <1>14 DEF CheckStop, Elsewhere, setting
  <2>2. /\ wpc' \in {"send", "top"} /\ outbox' \in Seq(Messages)
        /\ after' \in {"cleared", after} /\ state' \in {0, state}
    BY <1>0, <1>14, StopEffect, MessageFacts DEF WorkerTyped
  <2>3. QED
    BY <1>0, <2>1, <2>2 DEF WorkerTyped, WorkerPoints, Grabbing
<1>15. CASE Cleared
  BY <1>0, <1>15 DEF Cleared, At, Goto, setting, WorkerTyped, WorkerPoints, Grabbing
<1>16. CASE Dispatch
  <2>1. /\ build' = build /\ hasty' = hasty /\ state' = state /\ serial' = serial
        /\ results' = results /\ after' = after
    BY <1>16 DEF Dispatch, setting
  <2>2. wpc' \in {"send", after} /\ outbox' \in Seq(Messages)
    BY <1>0, <1>16, DispatchEffect
  <2>3. QED
    BY <1>0, <2>1, <2>2 DEF WorkerTyped, WorkerPoints, Grabbing
<1>17. CASE StartSignal
  BY <1>0, <1>17 DEF StartSignal, worker, setting, WorkerTyped, WorkerPoints, Grabbing
<1>18. CASE Awake
  BY <1>0, <1>18 DEF Awake, worker, setting, WorkerTyped, WorkerPoints, Grabbing
<1>19. CASE Leave
  BY <1>0, <1>19 DEF Leave, worker, setting, WorkerTyped, WorkerPoints, Grabbing
<1>20. CASE Start
  <2>1. hasty' \in BOOLEAN
    BY <1>20 DEF Start
  <2>2. UNCHANGED <<worker, build>>
    BY <1>20 DEF Start
  <2>3. QED
    BY Zenon, <1>0, <2>1, <2>2 DEF worker, WorkerTyped
<1>21. CASE Stop
  BY <1>0, <1>21 DEF Stop, worker, setting, WorkerTyped, WorkerPoints, Grabbing
<1>22. CASE Measure
  BY <1>0, <1>22 DEF Measure, worker, setting, WorkerTyped, WorkerPoints, Grabbing
<1>23. ASSUME NEW check \in Boxes, ClickBox(check) PROVE WorkerTyped'
  BY <1>0, <1>23 DEF ClickBox, worker, setting, WorkerTyped, WorkerPoints, Grabbing
<1>24. CASE OpenSettings
  BY <1>0, <1>24
     DEF OpenSettings, worker, setting, WorkerTyped, WorkerPoints, Grabbing
<1>25. CASE CloseSettings
  BY <1>0, <1>25
     DEF CloseSettings, worker, setting, WorkerTyped, WorkerPoints, Grabbing
<1>26. CASE SwitchOutput
  BY <1>0, <1>26
     DEF SwitchOutput, dialog, worker, setting, WorkerTyped, WorkerPoints, Grabbing
<1>27. ASSUME NEW on \in BOOLEAN, LightButton(on) PROVE WorkerTyped'
  BY <1>0, <1>27 DEF LightButton, worker, setting, WorkerTyped, WorkerPoints, Grabbing
<1>28. CASE OkButton
  BY <1>0, <1>28 DEF OkButton, worker, setting, WorkerTyped, WorkerPoints, Grabbing
<1>29. CASE Unload
  BY <1>0, <1>29 DEF Unload, worker, setting, WorkerTyped, WorkerPoints, Grabbing
<1>30. ASSUME NEW p \in Products, Load(p) PROVE WorkerTyped'
  BY <1>0, <1>30 DEF Load, worker, setting, WorkerTyped, WorkerPoints, Grabbing
<1>31. CASE UNCHANGED vars
  BY <1>0, <1>31 DEF vars, worker, setting, WorkerTyped, WorkerPoints, Grabbing
<1>32. QED
  BY Zenon, <1>1, <1>2, <1>3, <1>4, <1>5, <1>6, <1>7, <1>8, <1>9, <1>10, <1>11,
     <1>12, <1>13, <1>14, <1>15, <1>16, <1>17, <1>18, <1>19, <1>20, <1>21, <1>22,
     <1>23, <1>24, <1>25, <1>26, <1>27, <1>28, <1>29, <1>30, <1>31
     DEF Next, WorkerStep, Mainread, DialogSleeps, OperatorClicks, OperatorHandles

\* The variables of the dialog, the events, the counts and the outputs.
LEMMA DialogTypes ==
  ASSUME TypeOK, RoundInOrder, [Next]_vars
  PROVE  DialogTyped'
<1>0. WorkerTyped /\ DialogTyped /\ PlaceTyped /\ RoundInOrder
  BY TypeParts
<1>1. CASE Top
  BY <1>0, <1>1 DEF Top, dialog, signals, counts, outputs, Elsewhere, DialogTyped
<1>2. CASE Dark
  BY <1>0, <1>2 DEF Dark, dialog, signals, counts, MyWriteBit, DialogTyped
<1>3. CASE Proceed
  BY <1>0, <1>3 DEF Proceed, dialog, signals, counts, outputs, Elsewhere, DialogTyped
<1>4. CASE Hold
  BY <1>0, <1>4 DEF Hold, dialog, signals, counts, outputs, Elsewhere, DialogTyped
<1>5. CASE NewCycle
  BY <1>0, <1>5 DEF NewCycle, dialog, signals, counts, outputs, DialogTyped
<1>6. CASE BeginCheck
  BY <1>0, <1>6
     DEF BeginCheck, dialog, signals, counts, outputs, Elsewhere, DialogTyped
<1>7. CASE ReadBarCode
  BY <1>0, <1>7 DEF ReadBarCode, dialog, signals, counts, outputs, DialogTyped
<1>8. CASE Scanned
  BY <1>0, <1>8 DEF Scanned, dialog, signals, counts, outputs, DialogTyped
<1>9. CASE CheckAccessary
  BY <1>0, <1>9 DEF CheckAccessary, dialog, signals, counts, outputs, DialogTyped
<1>10. CASE CheckCovery
  BY <1>0, <1>10 DEF CheckCovery, dialog, signals, counts, outputs, DialogTyped
<1>11. CASE Record
  BY <1>0, <1>11 DEF Record, dialog, signals, counts, outputs, DialogTyped
<1>12. CASE Count
  BY <1>0, <1>12 DEF Count, dialog, signals, outputs, DialogTyped
<1>13. CASE SaveCount
  BY <1>0, <1>13 DEF SaveCount, dialog, signals, outputs, DialogTyped
<1>14. CASE CheckStop
  BY <1>0, <1>14
     DEF CheckStop, dialog, signals, counts, outputs, Elsewhere, DialogTyped
<1>15. CASE Cleared
  BY <1>0, <1>15 DEF Cleared, dialog, signals, counts, outputs, DialogTyped
<1>16. CASE Dispatch
  <2>1. /\ upc' = upc /\ toCheck' = toCheck /\ m_iTotal' = m_iTotal
        /\ countFile' = countFile /\ light' = light
    BY <1>16 DEF Dispatch
  <2>2. m_hTestEvent' = m_hTestEvent /\ m_bexit' = m_bexit
    BY <1>16 DEF Dispatch, signals
  <2>3. /\ \/ flags' = flags
           \/ \E check \in Checks, ok \in BOOLEAN : flags' = Shown(check, ok)
        /\ \/ lamp' = lamp
           \/ \E check \in Checks, ok \in BOOLEAN : lamp' \in LampAfter(check, ok)
        /\ shown' \in {shown, m_iTotal}
    BY <1>0, <1>16, DispatchEffect
  <2>4. flags' \in [Checks -> BOOLEAN] /\ lamp' \in Levels
    <3>1. flags \in [Checks -> BOOLEAN] /\ lamp \in Levels
      BY <1>0 DEF DialogTyped
    <3>2. \A check \in Checks, ok \in BOOLEAN :
            Shown(check, ok) \in [Checks -> BOOLEAN] /\ LampAfter(check, ok) \subseteq Levels
      BY <3>1, ShownFacts
    <3>3. QED
      BY <2>3, <3>1, <3>2, Zenon
  <2>5. shown' \in Nat
    BY <1>0, <2>3 DEF DialogTyped
  <2>6. QED
    BY Zenon, <1>0, <2>1, <2>2, <2>4, <2>5 DEF DialogTyped
<1>17. CASE StartSignal
  <2>1. m_hTestEvent' = TRUE /\ m_bexit' = m_bexit /\ upc' = "sleep"
    BY <1>17 DEF StartSignal
  <2>2. UNCHANGED <<toCheck, flags, m_iTotal, shown, countFile, light, lamp>>
    BY <1>17 DEF StartSignal, counts, outputs
  <2>3. QED
    BY Zenon, <1>0, <2>1, <2>2 DEF DialogTyped
<1>18. CASE Awake
  BY <1>0, <1>18 DEF Awake, signals, counts, outputs, DialogTyped
<1>19. CASE Leave
  BY <1>0, <1>19 DEF Leave, MyWriteBit, signals, counts, DialogTyped
<1>20. CASE Start
  <2>1. upc' = "starting" /\ flags' = AllClear /\ light' \in BOOLEAN
    BY <1>0, <1>20 DEF Start, MyWriteBit, DialogTyped
  <2>2. m_iTotal' = shown
    BY <1>20 DEF Start, UpdateData
  <2>3. UNCHANGED <<m_hTestEvent, m_bexit, toCheck, shown, countFile, lamp>>
    BY <1>20 DEF Start, UpdateData, signals
  <2>4. AllClear \in [Checks -> BOOLEAN]
    BY DEF AllClear
  <2>5. QED
    BY Zenon, <1>0, <2>1, <2>2, <2>3, <2>4 DEF DialogTyped
<1>21. CASE Stop
  BY <1>0, <1>21 DEF Stop, UpdateData, outputs, DialogTyped
<1>22. CASE Measure
  BY <1>0, <1>22 DEF Measure, UpdateData, dialog, signals, outputs, DialogTyped
<1>23. ASSUME NEW check \in Boxes, ClickBox(check) PROVE DialogTyped'
  <2>1. toCheck' \subseteq {"barcode", "acc", "film"}
    BY <1>0, <1>23, InspectionAssumption DEF ClickBox, DialogTyped
  <2>2. m_iTotal' = shown
    BY <1>23 DEF ClickBox, UpdateData
  <2>3. UNCHANGED <<upc, m_hTestEvent, m_bexit, flags, shown, countFile, light, lamp>>
    BY <1>23 DEF ClickBox, UpdateData, signals, outputs
  <2>4. QED
    BY Zenon, <1>0, <2>1, <2>2, <2>3 DEF DialogTyped
<1>24. CASE OpenSettings
  BY <1>0, <1>24 DEF OpenSettings, signals, counts, MyWriteBit, DialogTyped
<1>25. CASE CloseSettings
  BY <1>0, <1>25 DEF CloseSettings, signals, counts, MyWriteBit, DialogTyped
<1>26. CASE SwitchOutput
  BY <1>0, <1>26 DEF SwitchOutput, dialog, signals, counts, DialogTyped
<1>27. ASSUME NEW on \in BOOLEAN, LightButton(on) PROVE DialogTyped'
  BY <1>0, <1>27 DEF LightButton, dialog, signals, counts, MyWriteBit, DialogTyped
<1>28. CASE OkButton
  BY <1>0, <1>28 DEF OkButton, counts, outputs, DialogTyped
<1>29. CASE Unload
  BY <1>0, <1>29 DEF Unload, dialog, signals, counts, outputs, DialogTyped
<1>30. ASSUME NEW p \in Products, Load(p) PROVE DialogTyped'
  BY <1>0, <1>30 DEF Load, dialog, signals, counts, outputs, DialogTyped
<1>31. CASE UNCHANGED vars
  BY <1>0, <1>31 DEF vars, dialog, signals, counts, outputs, DialogTyped
<1>32. QED
  BY Zenon, <1>1, <1>2, <1>3, <1>4, <1>5, <1>6, <1>7, <1>8, <1>9, <1>10, <1>11,
     <1>12, <1>13, <1>14, <1>15, <1>16, <1>17, <1>18, <1>19, <1>20, <1>21, <1>22,
     <1>23, <1>24, <1>25, <1>26, <1>27, <1>28, <1>29, <1>30, <1>31
     DEF Next, WorkerStep, Mainread, DialogSleeps, OperatorClicks, OperatorHandles

\* The fixture, its products and the history.
LEMMA PlaceTypes ==
  ASSUME TypeOK, RoundInOrder, [Next]_vars
  PROVE  PlaceTyped'
<1>0. WorkerTyped /\ DialogTyped /\ PlaceTyped /\ RoundInOrder
  BY TypeParts
<1>1. CASE Top
  BY <1>0, <1>1 DEF Top, place, history, Elsewhere, PlaceTyped
<1>2. CASE Dark
  BY <1>0, <1>2 DEF Dark, place, PlaceTyped
<1>3. CASE Proceed
  BY <1>0, <1>3 DEF Proceed, place, history, Elsewhere, PlaceTyped
<1>4. CASE Hold
  BY <1>0, <1>4 DEF Hold, place, history, Elsewhere, PlaceTyped
<1>5. CASE NewCycle
  BY <1>0, <1>5 DEF NewCycle, place, PlaceTyped
<1>6. CASE BeginCheck
  BY <1>0, <1>6 DEF BeginCheck, place, history, Elsewhere, PlaceTyped
<1>7. CASE ReadBarCode
  BY <1>0, <1>7 DEF ReadBarCode, Outcomes, Passes, history, PlaceTyped
<1>8. CASE Scanned
  BY <1>0, <1>8 DEF Scanned, place, history, PlaceTyped
<1>9. CASE CheckAccessary
  BY <1>0, <1>9 DEF CheckAccessary, Outcomes, Passes, history, PlaceTyped
<1>10. CASE CheckCovery
  BY <1>0, <1>10 DEF CheckCovery, Outcomes, Passes, history, PlaceTyped
<1>11. CASE Record
  <2>1. rows' \subseteq Products /\ rowed' \subseteq Products
    BY <1>0, <1>11, RecordEffect DEF WorkerTyped, PlaceTyped
  <2>2. cycles' \in Nat
    BY <1>0, <1>11, RecordEffect DEF PlaceTyped
  <2>3. UNCHANGED <<fixture, unseen, stops, passed, invited, stale>>
    BY <1>11 DEF Record, place
  <2>4. QED
    BY Zenon, <1>0, <2>1, <2>2, <2>3 DEF PlaceTyped
<1>12. CASE Count
  BY <1>0, <1>12 DEF Count, place, history, PlaceTyped
<1>13. CASE SaveCount
  BY <1>0, <1>13 DEF SaveCount, place, history, PlaceTyped
<1>14. CASE CheckStop
  BY <1>0, <1>14 DEF CheckStop, place, history, Elsewhere, PlaceTyped
<1>15. CASE Cleared
  BY <1>0, <1>15 DEF Cleared, history, PlaceTyped
<1>16. CASE Dispatch
  BY <1>0, <1>16 DEF Dispatch, place, history, PlaceTyped
<1>17. CASE StartSignal
  BY <1>0, <1>17 DEF StartSignal, place, PlaceTyped
<1>18. CASE Awake
  BY <1>0, <1>18 DEF Awake, place, history, PlaceTyped
<1>19. CASE Leave
  BY <1>0, <1>19 DEF Leave, place, history, PlaceTyped
<1>20. CASE Start
  BY <1>0, <1>20 DEF Start, place, history, PlaceTyped
<1>21. CASE Stop
  <2>1. stops' \in 0..MaxStops
    BY <1>0, <1>21, InspectionAssumption DEF Stop, PlaceTyped
  <2>2. stale' = "stopped"
    BY <1>21 DEF Stop
  <2>3. UNCHANGED <<fixture, unseen, rows, passed, rowed, invited, cycles>>
    BY <1>21 DEF Stop, place
  <2>4. QED
    BY Zenon, <1>0, <2>1, <2>2, <2>3 DEF PlaceTyped
<1>22. CASE Measure
  BY <1>0, <1>22 DEF Measure, place, history, PlaceTyped
<1>23. ASSUME NEW check \in Boxes, ClickBox(check) PROVE PlaceTyped'
  BY <1>0, <1>23 DEF ClickBox, place, history, PlaceTyped
<1>24. CASE OpenSettings
  BY <1>0, <1>24 DEF OpenSettings, place, history, PlaceTyped
<1>25. CASE CloseSettings
  BY <1>0, <1>25 DEF CloseSettings, place, history, PlaceTyped
<1>26. CASE SwitchOutput
  BY <1>0, <1>26 DEF SwitchOutput, dialog, place, history, PlaceTyped
<1>27. ASSUME NEW on \in BOOLEAN, LightButton(on) PROVE PlaceTyped'
  BY <1>0, <1>27 DEF LightButton, place, history, PlaceTyped
<1>28. CASE OkButton
  BY <1>0, <1>28 DEF OkButton, place, history, PlaceTyped
<1>29. CASE Unload
  BY <1>0, <1>29 DEF Unload, PlaceTyped
<1>30. ASSUME NEW p \in Products, Load(p) PROVE PlaceTyped'
  BY <1>0, <1>30 DEF Load, history, PlaceTyped
<1>31. CASE UNCHANGED vars
  BY <1>0, <1>31 DEF vars, place, history, PlaceTyped
<1>32. QED
  BY Zenon, <1>1, <1>2, <1>3, <1>4, <1>5, <1>6, <1>7, <1>8, <1>9, <1>10, <1>11,
     <1>12, <1>13, <1>14, <1>15, <1>16, <1>17, <1>18, <1>19, <1>20, <1>21, <1>22,
     <1>23, <1>24, <1>25, <1>26, <1>27, <1>28, <1>29, <1>30, <1>31
     DEF Next, WorkerStep, Mainread, DialogSleeps, OperatorClicks, OperatorHandles

\* Every step keeps the types.
LEMMA TypeStep ==
  ASSUME TypeOK, RoundInOrder, [Next]_vars
  PROVE  TypeOK'
<1>1. WorkerTyped' /\ DialogTyped' /\ PlaceTyped'
  BY WorkerTypes, DialogTypes, PlaceTypes
<1>2. TypeOK' <=> WorkerTyped' /\ DialogTyped' /\ PlaceTyped'
  BY DEF TypeOK, WorkerTyped, DialogTyped, PlaceTyped
<1>3. QED
  BY Zenon, <1>1, <1>2

-----------------------------------------------------------------------------
(* A round.                                                                *)

\* Every step leaves record and messages in order.
LEMMA RoundStep ==
  ASSUME TypeOK, RoundInOrder, [Next]_vars
  PROVE  RoundInOrder'
<1>0. TypeOK /\ RoundInOrder /\ WorkerTyped
  BY TypeParts
<1>1. CASE Top
  BY <1>0, <1>1
     DEF Top, At, Goto, Elsewhere, setting, RoundInOrder, Where, WorkerTyped
<1>2. CASE Dark
  BY <1>0, <1>2 DEF Dark, At, Goto, setting, RoundInOrder, Where, WorkerTyped
<1>3. CASE Proceed
  BY <1>0, <1>3
     DEF Proceed, At, Goto, Elsewhere, setting, RoundInOrder, Where, WorkerTyped
<1>4. CASE Hold
  BY <1>0, <1>4
     DEF Hold, At, Goto, Elsewhere, setting, RoundInOrder, Where, WorkerTyped
<1>5. CASE NewCycle
  BY <1>0, <1>5 DEF NewCycle, At, Goto, setting, RoundInOrder, Where, WorkerTyped
<1>6. CASE BeginCheck
  BY <1>0, <1>6
     DEF BeginCheck, At, Goto, Elsewhere, setting, RoundInOrder, Where, WorkerTyped
<1>7. CASE ReadBarCode
  BY <1>0, <1>7
     DEF ReadBarCode, At, Send, Outcomes, setting, RoundInOrder, Where, WorkerTyped
<1>8. CASE Scanned
  BY <1>0, <1>8 DEF Scanned, At, Goto, setting, RoundInOrder, Where, WorkerTyped
<1>9. CASE CheckAccessary
  <2>1. wpc = "acc" /\ serial' = serial /\ results' = results /\ build' = build
    BY <1>9 DEF CheckAccessary, At, setting
  <2>2. state = 1 /\ results = 0
    BY <1>0, <2>1 DEF RoundInOrder, Where
  <2>3. wpc' = "send" /\ outbox' # <<>>
    <3>1. \A m, n, o : <<m>> # <<>> /\ <<m, n, o>> # <<>>
      OBVIOUS
    <3>2. QED
      BY Zenon, <1>9, <3>1, AccessaryEffect
  <2>4. \/ after' = "record" /\ state' = 1 /\ build = "Mainread"
        \/ after' = "stop"
    BY <1>9, <2>2, AccessaryEffect
  <2>5. QED
    BY <2>1, <2>2, <2>3, <2>4 DEF RoundInOrder, Where
<1>10. CASE CheckCovery
  BY <1>0, <1>10
     DEF CheckCovery, At, Send, Outcomes, setting, RoundInOrder, Where, WorkerTyped
<1>11. CASE Record
  BY <1>0, <1>11 DEF Record, At, Send, setting, RoundInOrder, Where, WorkerTyped
<1>12. CASE Count
  BY <1>0, <1>12 DEF Count, At, Goto, setting, RoundInOrder, Where, WorkerTyped
<1>13. CASE SaveCount
  BY <1>0, <1>13 DEF SaveCount, At, Goto, setting, RoundInOrder, Where, WorkerTyped
<1>14. CASE CheckStop
  <2>1. wpc = "stop" /\ serial' = serial /\ results' = results /\ build' = build
    BY <1>14 DEF CheckStop, At, Elsewhere, setting
  <2>2. CASE /\ state' = 0 /\ wpc' = "send" /\ after' = "cleared"
             /\ outbox' = << <<"barcode", FALSE>> >>
    BY <1>0, <2>1, <2>2 DEF RoundInOrder, Where
  <2>3. CASE wpc' = "top" /\ UNCHANGED <<state, outbox, after>>
    BY <1>0, <2>1, <2>3 DEF RoundInOrder, Where
  <2>4. QED
    BY <1>14, <2>2, <2>3, StopEffect
<1>15. CASE Cleared
  BY <1>0, <1>15 DEF Cleared, At, Goto, setting, RoundInOrder, Where, WorkerTyped
<1>16. CASE Dispatch
  BY <1>0, <1>16 DEF Dispatch, setting, RoundInOrder, Where, WorkerTyped
<1>17. CASE StartSignal
  BY <1>0, <1>17 DEF StartSignal, worker, setting, RoundInOrder, Where, WorkerTyped
<1>18. CASE Awake
  BY <1>0, <1>18 DEF Awake, worker, setting, RoundInOrder, Where, WorkerTyped
<1>19. CASE Leave
  BY <1>0, <1>19 DEF Leave, worker, setting, RoundInOrder, Where, WorkerTyped
<1>20. CASE Start
  BY <1>0, <1>20 DEF Start, worker, setting, RoundInOrder, Where, WorkerTyped
<1>21. CASE Stop
  BY <1>0, <1>21 DEF Stop, worker, setting, RoundInOrder, Where, WorkerTyped
<1>22. CASE Measure
  BY <1>0, <1>22 DEF Measure, worker, setting, RoundInOrder, Where, WorkerTyped
<1>23. ASSUME NEW check \in Boxes, ClickBox(check) PROVE RoundInOrder'
  BY <1>0, <1>23 DEF ClickBox, worker, setting, RoundInOrder, Where, WorkerTyped
<1>24. CASE OpenSettings
  BY <1>0, <1>24 DEF OpenSettings, worker, setting, RoundInOrder, Where, WorkerTyped
<1>25. CASE CloseSettings
  BY <1>0, <1>25 DEF CloseSettings, worker, setting, RoundInOrder, Where, WorkerTyped
<1>26. CASE SwitchOutput
  BY <1>0, <1>26 DEF SwitchOutput, dialog, worker, setting, RoundInOrder, Where, WorkerTyped
<1>27. ASSUME NEW on \in BOOLEAN, LightButton(on) PROVE RoundInOrder'
  BY <1>0, <1>27 DEF LightButton, worker, setting, RoundInOrder, Where, WorkerTyped
<1>28. CASE OkButton
  BY <1>0, <1>28 DEF OkButton, worker, setting, RoundInOrder, Where, WorkerTyped
<1>29. CASE Unload
  BY <1>0, <1>29 DEF Unload, worker, setting, RoundInOrder, Where, WorkerTyped
<1>30. ASSUME NEW p \in Products, Load(p) PROVE RoundInOrder'
  BY <1>0, <1>30 DEF Load, worker, setting, RoundInOrder, Where, WorkerTyped
<1>31. CASE UNCHANGED vars
  BY <1>0, <1>31 DEF vars, worker, setting, RoundInOrder, Where, WorkerTyped
<1>32. QED
  BY Zenon, <1>1, <1>2, <1>3, <1>4, <1>5, <1>6, <1>7, <1>8, <1>9, <1>10, <1>11,
     <1>12, <1>13, <1>14, <1>15, <1>16, <1>17, <1>18, <1>19, <1>20, <1>21, <1>22,
     <1>23, <1>24, <1>25, <1>26, <1>27, <1>28, <1>29, <1>30, <1>31
     DEF Next, WorkerStep, Mainread, DialogSleeps, OperatorClicks, OperatorHandles

-----------------------------------------------------------------------------
(* The exit.                                                               *)

\* Every step leaves the exit in order.
LEMMA ExitStep ==
  ASSUME TypeOK, RoundInOrder, ExitInOrder, [Next]_vars
  PROVE  ExitInOrder'
<1>0. TypeOK /\ WorkerTyped /\ DialogTyped /\ RoundInOrder /\ ExitInOrder
  BY TypeParts
<1>1. CASE Top
  BY <1>0, <1>1
     DEF Top, At, Goto, Elsewhere, dialog, signals, setting, ExitInOrder,
         WorkerTyped, DialogTyped
<1>2. CASE Dark
  BY <1>0, <1>2
     DEF Dark, At, Goto, dialog, signals, setting, ExitInOrder, WorkerTyped,
         DialogTyped
<1>3. CASE Proceed
  BY <1>0, <1>3
     DEF Proceed, At, Goto, Elsewhere, dialog, signals, setting, ExitInOrder,
         WorkerTyped, DialogTyped
<1>4. CASE Hold
  BY <1>0, <1>4
     DEF Hold, At, Goto, Elsewhere, dialog, signals, setting, ExitInOrder,
         WorkerTyped, DialogTyped
<1>5. CASE NewCycle
  BY <1>0, <1>5
     DEF NewCycle, At, Goto, dialog, signals, setting, ExitInOrder, WorkerTyped,
         DialogTyped
<1>6. CASE BeginCheck
  BY <1>0, <1>6
     DEF BeginCheck, At, Goto, Elsewhere, dialog, signals, setting, ExitInOrder,
         WorkerTyped, DialogTyped
<1>7. CASE ReadBarCode
  BY <1>0, <1>7
     DEF ReadBarCode, At, Send, dialog, signals, setting, ExitInOrder, WorkerTyped,
         DialogTyped
<1>8. CASE Scanned
  BY <1>0, <1>8
     DEF Scanned, At, Goto, dialog, signals, setting, ExitInOrder, WorkerTyped,
         DialogTyped
<1>9. CASE CheckAccessary
  BY <1>0, <1>9
     DEF CheckAccessary, At, Send, dialog, signals, setting, ExitInOrder,
         WorkerTyped, DialogTyped
<1>10. CASE CheckCovery
  BY <1>0, <1>10
     DEF CheckCovery, At, Send, dialog, signals, setting, ExitInOrder, WorkerTyped,
         DialogTyped
<1>11. CASE Record
  BY <1>0, <1>11
     DEF Record, At, Send, dialog, signals, setting, ExitInOrder, WorkerTyped,
         DialogTyped
<1>12. CASE Count
  BY <1>0, <1>12
     DEF Count, At, Goto, dialog, signals, setting, ExitInOrder, WorkerTyped,
         DialogTyped
<1>13. CASE SaveCount
  BY <1>0, <1>13
     DEF SaveCount, At, Goto, dialog, signals, setting, ExitInOrder, WorkerTyped,
         DialogTyped
<1>14. CASE CheckStop
  BY <1>0, <1>14
     DEF CheckStop, At, Goto, Send, Elsewhere, dialog, signals, setting, ExitInOrder,
         WorkerTyped, DialogTyped
<1>15. CASE Cleared
  BY <1>0, <1>15
     DEF Cleared, At, Goto, dialog, signals, setting, ExitInOrder, WorkerTyped,
         DialogTyped
<1>16. CASE Dispatch
  <2>1. upc' = upc /\ m_bexit' = m_bexit /\ m_hTestEvent' = m_hTestEvent
    BY <1>16 DEF Dispatch, signals
  <2>2. wpc = "send" /\ wpc' \in {"send", after} /\ build' = build
    BY <1>16, DispatchEffect DEF Dispatch, setting
  <2>3. wpc' # "done"
    BY <1>0, <2>2 DEF RoundInOrder
  <2>4. QED
    BY <1>0, <2>1, <2>2, <2>3 DEF ExitInOrder
<1>17. CASE StartSignal
  BY <1>0, <1>17
     DEF StartSignal, worker, setting, ExitInOrder, WorkerTyped, DialogTyped
<1>18. CASE Awake
  BY <1>0, <1>18
     DEF Awake, worker, signals, setting, ExitInOrder, WorkerTyped, DialogTyped
<1>19. CASE Leave
  BY <1>0, <1>19
     DEF Leave, worker, signals, setting, ExitInOrder, WorkerTyped, DialogTyped
<1>20. CASE Start
  BY <1>0, <1>20
     DEF Start, StartToggles, worker, signals, setting, ExitInOrder, WorkerTyped,
         DialogTyped
<1>21. CASE Stop
  BY <1>0, <1>21
     DEF Stop, StartToggles, worker, setting, ExitInOrder, WorkerTyped, DialogTyped
<1>22. CASE Measure
  BY <1>0, <1>22
     DEF Measure, StartToggles, worker, dialog, signals, setting, ExitInOrder,
         WorkerTyped, DialogTyped
<1>23. ASSUME NEW check \in Boxes, ClickBox(check) PROVE ExitInOrder'
  BY <1>0, <1>23
     DEF ClickBox, worker, signals, setting, ExitInOrder, WorkerTyped, DialogTyped
<1>24. CASE OpenSettings
  BY <1>0, <1>24
     DEF OpenSettings, worker, signals, setting, ExitInOrder, WorkerTyped, DialogTyped
<1>25. CASE CloseSettings
  BY <1>0, <1>25
     DEF CloseSettings, worker, signals, setting, ExitInOrder, WorkerTyped,
         DialogTyped
<1>26. CASE SwitchOutput
  BY <1>0, <1>26
     DEF SwitchOutput, dialog, worker, signals, setting, ExitInOrder, WorkerTyped,
         DialogTyped
<1>27. ASSUME NEW on \in BOOLEAN, LightButton(on) PROVE ExitInOrder'
  BY <1>0, <1>27
     DEF LightButton, worker, dialog, signals, setting, ExitInOrder, WorkerTyped,
         DialogTyped
<1>28. CASE OkButton
  BY <1>0, <1>28 DEF OkButton, worker, setting, ExitInOrder, WorkerTyped, DialogTyped
<1>29. CASE Unload
  BY <1>0, <1>29
     DEF Unload, worker, dialog, signals, setting, ExitInOrder, WorkerTyped,
         DialogTyped
<1>30. ASSUME NEW p \in Products, Load(p) PROVE ExitInOrder'
  BY <1>0, <1>30
     DEF Load, worker, dialog, signals, setting, ExitInOrder, WorkerTyped, DialogTyped
<1>31. CASE UNCHANGED vars
  BY <1>0, <1>31
     DEF vars, worker, dialog, signals, setting, ExitInOrder, WorkerTyped, DialogTyped
<1>32. QED
  BY Zenon, <1>1, <1>2, <1>3, <1>4, <1>5, <1>6, <1>7, <1>8, <1>9, <1>10, <1>11,
     <1>12, <1>13, <1>14, <1>15, <1>16, <1>17, <1>18, <1>19, <1>20, <1>21, <1>22,
     <1>23, <1>24, <1>25, <1>26, <1>27, <1>28, <1>29, <1>30, <1>31
     DEF Next, WorkerStep, Mainread, DialogSleeps, OperatorClicks, OperatorHandles

-----------------------------------------------------------------------------
(* The total.                                                              *)

\* Every step leaves the total at most at the inspections.
LEMMA TotalStep ==
  ASSUME TypeOK, RoundInOrder, TotalInStep, [Next]_vars
  PROVE  TotalInStep'
<1>0. WorkerTyped /\ DialogTyped /\ PlaceTyped /\ RoundInOrder /\ TotalInStep
  BY TypeParts
<1>1. CASE Top
  BY <1>0, <1>1
     DEF Top, At, Goto, Elsewhere, counts, history, TotalInStep, Where, DialogTyped,
         PlaceTyped
<1>2. CASE Dark
  BY <1>0, <1>2
     DEF Dark, At, Goto, counts, TotalInStep, Where, DialogTyped, PlaceTyped
<1>3. CASE Proceed
  BY <1>0, <1>3
     DEF Proceed, At, Goto, Elsewhere, counts, history, TotalInStep, Where,
         DialogTyped, PlaceTyped
<1>4. CASE Hold
  BY <1>0, <1>4
     DEF Hold, At, Goto, Elsewhere, counts, history, TotalInStep, Where, DialogTyped,
         PlaceTyped
<1>5. CASE NewCycle
  BY <1>0, <1>5
     DEF NewCycle, At, Goto, counts, TotalInStep, Where, DialogTyped, PlaceTyped
<1>6. CASE BeginCheck
  BY <1>0, <1>6
     DEF BeginCheck, At, Goto, Elsewhere, counts, history, TotalInStep, Where,
         DialogTyped, PlaceTyped
<1>7. CASE ReadBarCode
  BY <1>0, <1>7
     DEF ReadBarCode, At, Send, counts, history, TotalInStep, Where, DialogTyped,
         PlaceTyped
<1>8. CASE Scanned
  BY <1>0, <1>8
     DEF Scanned, At, Goto, counts, history, TotalInStep, Where, DialogTyped,
         PlaceTyped
<1>9. CASE CheckAccessary
  BY <1>0, <1>9
     DEF CheckAccessary, At, Send, counts, history, TotalInStep, Where, DialogTyped,
         PlaceTyped
<1>10. CASE CheckCovery
  BY <1>0, <1>10
     DEF CheckCovery, At, Send, counts, history, TotalInStep, Where, DialogTyped,
         PlaceTyped
<1>11. CASE Record
  BY <1>0, <1>11
     DEF Record, At, Send, counts, TotalInStep, Where, DialogTyped, PlaceTyped
<1>12. CASE Count
  BY <1>0, <1>12
     DEF Count, At, Goto, history, TotalInStep, Where, DialogTyped, PlaceTyped
<1>13. CASE SaveCount
  BY <1>0, <1>13
     DEF SaveCount, At, Goto, history, TotalInStep, Where, DialogTyped, PlaceTyped
<1>14. CASE CheckStop
  BY <1>0, <1>14
     DEF CheckStop, At, Goto, Send, Elsewhere, counts, history, TotalInStep, Where,
         DialogTyped, PlaceTyped
<1>15. CASE Cleared
  BY <1>0, <1>15
     DEF Cleared, At, Goto, counts, history, TotalInStep, Where, DialogTyped,
         PlaceTyped
<1>16. CASE Dispatch
  BY <1>0, <1>16 DEF Dispatch, history, TotalInStep, Where, DialogTyped, PlaceTyped
<1>17. CASE StartSignal
  BY <1>0, <1>17
     DEF StartSignal, worker, counts, TotalInStep, Where, DialogTyped, PlaceTyped
<1>18. CASE Awake
  BY <1>0, <1>18
     DEF Awake, worker, counts, history, TotalInStep, Where, DialogTyped, PlaceTyped
<1>19. CASE Leave
  BY <1>0, <1>19
     DEF Leave, worker, counts, history, TotalInStep, Where, DialogTyped, PlaceTyped
<1>20. CASE Start
  BY <1>0, <1>20
     DEF Start, UpdateData, worker, history, TotalInStep, Where, DialogTyped,
         PlaceTyped
<1>21. CASE Stop
  BY <1>0, <1>21
     DEF Stop, UpdateData, worker, TotalInStep, Where, DialogTyped, PlaceTyped
<1>22. CASE Measure
  BY <1>0, <1>22
     DEF Measure, UpdateData, worker, history, TotalInStep, Where, DialogTyped,
         PlaceTyped
<1>23. ASSUME NEW check \in Boxes, ClickBox(check) PROVE TotalInStep'
  BY <1>0, <1>23
     DEF ClickBox, UpdateData, worker, history, TotalInStep, Where, DialogTyped,
         PlaceTyped
<1>24. CASE OpenSettings
  BY <1>0, <1>24
     DEF OpenSettings, worker, counts, history, TotalInStep, Where, DialogTyped,
         PlaceTyped
<1>25. CASE CloseSettings
  BY <1>0, <1>25
     DEF CloseSettings, worker, counts, history, TotalInStep, Where, DialogTyped,
         PlaceTyped
<1>26. CASE SwitchOutput
  BY <1>0, <1>26
     DEF SwitchOutput, dialog, worker, counts, history, TotalInStep, Where, DialogTyped,
         PlaceTyped
<1>27. ASSUME NEW on \in BOOLEAN, LightButton(on) PROVE TotalInStep'
  BY <1>0, <1>27
     DEF LightButton, worker, counts, history, TotalInStep, Where, DialogTyped,
         PlaceTyped
<1>28. CASE OkButton
  BY <1>0, <1>28
     DEF OkButton, worker, counts, history, TotalInStep, Where, DialogTyped,
         PlaceTyped
<1>29. CASE Unload
  BY <1>0, <1>29
     DEF Unload, worker, counts, TotalInStep, Where, DialogTyped, PlaceTyped
<1>30. ASSUME NEW p \in Products, Load(p) PROVE TotalInStep'
  BY <1>0, <1>30
     DEF Load, worker, counts, history, TotalInStep, Where, DialogTyped, PlaceTyped
<1>31. CASE UNCHANGED vars
  BY <1>0, <1>31
     DEF vars, worker, counts, history, TotalInStep, Where, DialogTyped, PlaceTyped
<1>32. QED
  BY Zenon, <1>1, <1>2, <1>3, <1>4, <1>5, <1>6, <1>7, <1>8, <1>9, <1>10, <1>11,
     <1>12, <1>13, <1>14, <1>15, <1>16, <1>17, <1>18, <1>19, <1>20, <1>21, <1>22,
     <1>23, <1>24, <1>25, <1>26, <1>27, <1>28, <1>29, <1>30, <1>31
     DEF Next, WorkerStep, Mainread, DialogSleeps, OperatorClicks, OperatorHandles

-----------------------------------------------------------------------------
(* A product's stay.                                                       *)

\* Every step leaves the stays of the products in order.
LEMMA StayStep ==
  ASSUME TypeOK, RoundInOrder, StayInOrder, [Next]_vars
  PROVE  StayInOrder'
<1>0. WorkerTyped /\ PlaceTyped /\ RoundInOrder /\ StayInOrder
  BY TypeParts
<1>1. CASE Top
  BY <1>0, <1>1
     DEF Top, At, Goto, Elsewhere, place, history, StayInOrder, Open, Where,
         RoundInOrder, PlaceTyped
<1>2. CASE Dark
  BY <1>0, <1>2
     DEF Dark, At, Goto, place, StayInOrder, Open, Where, RoundInOrder, PlaceTyped
<1>3. CASE Proceed
  BY <1>0, <1>3
     DEF Proceed, At, Goto, Elsewhere, place, history, StayInOrder, Open, Where,
         RoundInOrder, PlaceTyped
<1>4. CASE Hold
  BY <1>0, <1>4
     DEF Hold, At, Goto, Elsewhere, place, history, StayInOrder, Open, Where,
         RoundInOrder, PlaceTyped
<1>5. CASE NewCycle
  BY <1>0, <1>5, InspectionAssumption
     DEF NewCycle, At, Goto, place, StayInOrder, Open, Where, RoundInOrder, PlaceTyped
<1>6. CASE BeginCheck
  BY <1>0, <1>6
     DEF BeginCheck, At, Goto, Elsewhere, place, history, StayInOrder, Open, Where,
         RoundInOrder, PlaceTyped
<1>7. CASE ReadBarCode
  <2>1. wpc = "scan" /\ state = 0 /\ wpc' = "send" /\ state' = 0
    BY <1>0, <1>7 DEF ReadBarCode, At, Send, RoundInOrder, Where
  <2>2. UNCHANGED <<fixture, unseen, rowed, invited>>
    BY <1>7 DEF ReadBarCode, history
  <2>3. \/ serial' = fixture /\ fixture \in Products
        \/ serial' = NoSerial
    BY <1>7, BarCodeEffect
  <2>4. QED
    BY <1>0, <2>1, <2>2, <2>3, InspectionAssumption
       DEF StayInOrder, Open, Where, PlaceTyped
<1>8. CASE Scanned
  BY <1>0, <1>8
     DEF Scanned, At, Goto, place, history, StayInOrder, Open, Where, RoundInOrder,
         PlaceTyped
<1>9. CASE CheckAccessary
  BY <1>0, <1>9
     DEF CheckAccessary, At, Send, history, StayInOrder, Open, Where, RoundInOrder,
         PlaceTyped
<1>10. CASE CheckCovery
  BY <1>0, <1>10
     DEF CheckCovery, At, Send, history, StayInOrder, Open, Where, RoundInOrder,
         PlaceTyped
<1>11. CASE Record
  BY <1>0, <1>11
     DEF Record, At, Send, place, StayInOrder, Open, Where, RoundInOrder, PlaceTyped
<1>12. CASE Count
  BY <1>0, <1>12
     DEF Count, At, Goto, place, history, StayInOrder, Open, Where, RoundInOrder,
         PlaceTyped
<1>13. CASE SaveCount
  BY <1>0, <1>13
     DEF SaveCount, At, Goto, place, history, StayInOrder, Open, Where, RoundInOrder,
         PlaceTyped
<1>14. CASE CheckStop
  <2>1. wpc = "stop" /\ UNCHANGED <<serial, fixture, unseen, rowed, invited>>
    BY <1>14 DEF CheckStop, At, Elsewhere, place, history
  <2>2. CASE /\ fixture = Empty /\ state' = 0 /\ wpc' = "send" /\ after' = "cleared"
    BY <1>0, <2>1, <2>2, InspectionAssumption
       DEF StayInOrder, Open, Where, PlaceTyped
  <2>3. CASE wpc' = "top" /\ UNCHANGED <<state, outbox, after>>
    BY <1>0, <2>1, <2>3 DEF StayInOrder, Open, Where
  <2>4. QED
    BY <1>14, <2>2, <2>3, StopEffect
<1>15. CASE Cleared
  BY <1>0, <1>15, InspectionAssumption
     DEF Cleared, At, Goto, history, StayInOrder, Open, Where, RoundInOrder,
         PlaceTyped
<1>16. CASE Dispatch
  BY <1>0, <1>16
     DEF Dispatch, place, history, StayInOrder, Open, Where, RoundInOrder, PlaceTyped
<1>17. CASE StartSignal
  BY <1>0, <1>17
     DEF StartSignal, worker, place, StayInOrder, Open, Where, RoundInOrder,
         PlaceTyped
<1>18. CASE Awake
  BY <1>0, <1>18
     DEF Awake, worker, place, history, StayInOrder, Open, Where, RoundInOrder,
         PlaceTyped
<1>19. CASE Leave
  BY <1>0, <1>19
     DEF Leave, worker, place, history, StayInOrder, Open, Where, RoundInOrder,
         PlaceTyped
<1>20. CASE Start
  BY <1>0, <1>20
     DEF Start, worker, place, history, StayInOrder, Open, Where, RoundInOrder,
         PlaceTyped
<1>21. CASE Stop
  BY <1>0, <1>21
     DEF Stop, worker, place, StayInOrder, Open, Where, RoundInOrder, PlaceTyped
<1>22. CASE Measure
  BY <1>0, <1>22
     DEF Measure, worker, place, history, StayInOrder, Open, Where, RoundInOrder,
         PlaceTyped
<1>23. ASSUME NEW check \in Boxes, ClickBox(check) PROVE StayInOrder'
  BY <1>0, <1>23
     DEF ClickBox, worker, place, history, StayInOrder, Open, Where, RoundInOrder,
         PlaceTyped
<1>24. CASE OpenSettings
  BY <1>0, <1>24
     DEF OpenSettings, worker, place, history, StayInOrder, Open, Where,
         RoundInOrder, PlaceTyped
<1>25. CASE CloseSettings
  BY <1>0, <1>25
     DEF CloseSettings, worker, place, history, StayInOrder, Open, Where,
         RoundInOrder, PlaceTyped
<1>26. CASE SwitchOutput
  BY <1>0, <1>26
     DEF SwitchOutput, dialog, worker, place, history, StayInOrder, Open, Where,
         RoundInOrder, PlaceTyped
<1>27. ASSUME NEW on \in BOOLEAN, LightButton(on) PROVE StayInOrder'
  BY <1>0, <1>27
     DEF LightButton, worker, place, history, StayInOrder, Open, Where, RoundInOrder,
         PlaceTyped
<1>28. CASE OkButton
  BY <1>0, <1>28
     DEF OkButton, worker, place, history, StayInOrder, Open, Where, RoundInOrder,
         PlaceTyped
<1>29. CASE Unload
  BY <1>0, <1>29, InspectionAssumption
     DEF Unload, worker, StayInOrder, Open, Where, RoundInOrder, PlaceTyped
<1>30. ASSUME NEW p \in Products, Load(p) PROVE StayInOrder'
  BY <1>0, <1>30
     DEF Load, worker, history, StayInOrder, Open, Where, RoundInOrder, PlaceTyped
<1>31. CASE UNCHANGED vars
  BY <1>0, <1>31
     DEF vars, worker, place, history, StayInOrder, Open, Where, RoundInOrder,
         PlaceTyped
<1>32. QED
  BY Zenon, <1>1, <1>2, <1>3, <1>4, <1>5, <1>6, <1>7, <1>8, <1>9, <1>10, <1>11,
     <1>12, <1>13, <1>14, <1>15, <1>16, <1>17, <1>18, <1>19, <1>20, <1>21, <1>22,
     <1>23, <1>24, <1>25, <1>26, <1>27, <1>28, <1>29, <1>30, <1>31
     DEF Next, WorkerStep, Mainread, DialogSleeps, OperatorClicks, OperatorHandles

-----------------------------------------------------------------------------
(* The light tells a careful operator whether the test thread rests.       *)

\* Every step of a careful station leaves the light telling.
LEMMA LightStep ==
  ASSUME TypeOK, RoundInOrder, ExitInOrder, ~hasty, ~hasty', LightTells, [Next]_vars
  PROVE  LightTells'
<1>0. TypeOK /\ WorkerTyped /\ DialogTyped /\ RoundInOrder /\ ExitInOrder /\ ~hasty
      /\ LightTells
  BY TypeParts
<1>1. CASE Top
  BY <1>0, <1>1
     DEF Top, At, Goto, Elsewhere, dialog, signals, outputs, setting, LightTells,
         ExitInOrder, WorkerTyped, DialogTyped
<1>2. CASE Dark
  BY <1>0, <1>2
     DEF Dark, At, Goto, MyWriteBit, dialog, signals, setting, LightTells, ExitInOrder,
         WorkerTyped, DialogTyped
<1>3. CASE Proceed
  BY <1>0, <1>3
     DEF Proceed, At, Goto, Elsewhere, dialog, signals, outputs, setting, LightTells,
         ExitInOrder, WorkerTyped, DialogTyped
<1>4. CASE Hold
  BY <1>0, <1>4
     DEF Hold, At, Goto, Elsewhere, dialog, signals, outputs, setting, LightTells,
         ExitInOrder, WorkerTyped, DialogTyped
<1>5. CASE NewCycle
  BY <1>0, <1>5
     DEF NewCycle, At, Goto, dialog, signals, outputs, setting, LightTells,
         ExitInOrder, WorkerTyped, DialogTyped
<1>6. CASE BeginCheck
  BY <1>0, <1>6
     DEF BeginCheck, At, Goto, Elsewhere, dialog, signals, outputs, setting,
         LightTells, ExitInOrder, WorkerTyped, DialogTyped
<1>7. CASE ReadBarCode
  BY <1>0, <1>7
     DEF ReadBarCode, At, Send, dialog, signals, outputs, setting, LightTells,
         ExitInOrder, WorkerTyped, DialogTyped
<1>8. CASE Scanned
  BY <1>0, <1>8
     DEF Scanned, At, Goto, dialog, signals, outputs, setting, LightTells,
         ExitInOrder, WorkerTyped, DialogTyped
<1>9. CASE CheckAccessary
  BY <1>0, <1>9
     DEF CheckAccessary, At, Send, dialog, signals, outputs, setting, LightTells,
         ExitInOrder, WorkerTyped, DialogTyped
<1>10. CASE CheckCovery
  BY <1>0, <1>10
     DEF CheckCovery, At, Send, dialog, signals, outputs, setting, LightTells,
         ExitInOrder, WorkerTyped, DialogTyped
<1>11. CASE Record
  BY <1>0, <1>11
     DEF Record, At, Send, dialog, signals, outputs, setting, LightTells,
         ExitInOrder, WorkerTyped, DialogTyped
<1>12. CASE Count
  BY <1>0, <1>12
     DEF Count, At, Goto, dialog, signals, outputs, setting, LightTells, ExitInOrder,
         WorkerTyped, DialogTyped
<1>13. CASE SaveCount
  BY <1>0, <1>13
     DEF SaveCount, At, Goto, dialog, signals, outputs, setting, LightTells,
         ExitInOrder, WorkerTyped, DialogTyped
<1>14. CASE CheckStop
  BY <1>0, <1>14
     DEF CheckStop, At, Goto, Send, Elsewhere, dialog, signals, outputs, setting,
         LightTells, ExitInOrder, WorkerTyped, DialogTyped
<1>15. CASE Cleared
  BY <1>0, <1>15
     DEF Cleared, At, Goto, dialog, signals, outputs, setting, LightTells,
         ExitInOrder, WorkerTyped, DialogTyped
<1>16. CASE Dispatch
  <2>1. UNCHANGED <<upc, m_hTestEvent, m_bexit, state, light>>
    BY <1>16 DEF Dispatch, signals
  <2>2. wpc = "send" /\ wpc' \in {"send", after}
    BY <1>16, DispatchEffect
  <2>3. wpc' \notin {"dark", "wait", "done"}
    BY <1>0, <2>2 DEF RoundInOrder
  <2>4. QED
    BY <1>0, <2>1, <2>2, <2>3 DEF LightTells
<1>17. CASE StartSignal
  BY <1>0, <1>17
     DEF StartSignal, worker, outputs, setting, LightTells, ExitInOrder, WorkerTyped,
         DialogTyped
<1>18. CASE Awake
  BY <1>0, <1>18
     DEF Awake, Settled, worker, signals, outputs, setting, LightTells, ExitInOrder,
         WorkerTyped, DialogTyped
<1>19. CASE Leave
  BY <1>0, <1>19
     DEF Leave, Settled, MyWriteBit, worker, signals, setting, LightTells, ExitInOrder,
         WorkerTyped, DialogTyped
<1>20. CASE Start
  <2>1. light'
    BY <1>20 DEF Start
  <2>2. wpc = "wait" /\ state = 0 /\ ~m_hTestEvent /\ ~m_bexit
    BY <1>0, <1>20 DEF Start, Careful, LightTells, ExitInOrder
  <2>3. wpc' = wpc /\ state' = state /\ m_hTestEvent' = m_hTestEvent /\ m_bexit' = m_bexit
    BY <1>20 DEF Start, worker, signals
  <2>4. upc' = "starting"
    BY <1>20 DEF Start
  <2>5. QED
    BY <2>1, <2>2, <2>3, <2>4 DEF LightTells
<1>21. CASE Stop
  BY <1>0, <1>21
     DEF Stop, StartToggles, worker, outputs, setting, LightTells, ExitInOrder,
         WorkerTyped, DialogTyped
<1>22. CASE Measure
  BY <1>0, <1>22
     DEF Measure, StartToggles, worker, dialog, signals, outputs, setting,
         LightTells, ExitInOrder, WorkerTyped, DialogTyped
<1>23. ASSUME NEW check \in Boxes, ClickBox(check) PROVE LightTells'
  BY <1>0, <1>23
     DEF ClickBox, worker, signals, outputs, setting, LightTells, ExitInOrder,
         WorkerTyped, DialogTyped
<1>24. CASE OpenSettings
  BY <1>0, <1>24
     DEF OpenSettings, MyWriteBit, Careful, worker, signals, setting, LightTells, ExitInOrder,
         WorkerTyped, DialogTyped
<1>25. CASE CloseSettings
  BY <1>0, <1>25
     DEF CloseSettings, MyWriteBit, worker, signals, setting, LightTells, ExitInOrder,
         WorkerTyped, DialogTyped
<1>26. CASE SwitchOutput
  BY <1>0, <1>26
     DEF SwitchOutput, dialog, worker, signals, setting, LightTells, ExitInOrder,
         WorkerTyped, DialogTyped
<1>27. ASSUME NEW on \in BOOLEAN, LightButton(on) PROVE LightTells'
  BY <1>0, <1>27
     DEF LightButton, MyWriteBit, worker, dialog, signals, setting, LightTells, ExitInOrder,
         WorkerTyped, DialogTyped
<1>28. CASE OkButton
  BY <1>0, <1>28
     DEF OkButton, Careful, worker, outputs, setting, LightTells, ExitInOrder,
         WorkerTyped, DialogTyped
<1>29. CASE Unload
  BY <1>0, <1>29
     DEF Unload, worker, dialog, signals, outputs, setting, LightTells, ExitInOrder,
         WorkerTyped, DialogTyped
<1>30. ASSUME NEW p \in Products, Load(p) PROVE LightTells'
  BY <1>0, <1>30
     DEF Load, worker, dialog, signals, outputs, setting, LightTells, ExitInOrder,
         WorkerTyped, DialogTyped
<1>31. CASE UNCHANGED vars
  BY <1>0, <1>31
     DEF vars, worker, dialog, signals, outputs, setting, LightTells, ExitInOrder,
         WorkerTyped, DialogTyped
<1>32. QED
  BY Zenon, <1>1, <1>2, <1>3, <1>4, <1>5, <1>6, <1>7, <1>8, <1>9, <1>10, <1>11,
     <1>12, <1>13, <1>14, <1>15, <1>16, <1>17, <1>18, <1>19, <1>20, <1>21, <1>22,
     <1>23, <1>24, <1>25, <1>26, <1>27, <1>28, <1>29, <1>30, <1>31
     DEF Next, WorkerStep, Mainread, DialogSleeps, OperatorClicks, OperatorHandles

-----------------------------------------------------------------------------
(* The product of a cycle.                                                 *)

\* Every step of a careful station keeps the product of the cycle.
LEMMA ProductStep ==
  ASSUME TypeOK, RoundInOrder, ExitInOrder, StayInOrder, ~hasty, LightTells,
         ProductKept, [Next]_vars
  PROVE  ProductKept'
<1>0. TypeOK /\ WorkerTyped /\ PlaceTyped /\ RoundInOrder /\ ExitInOrder
      /\ StayInOrder /\ ~hasty /\ LightTells /\ ProductKept
  BY TypeParts
<1>1. CASE Top
  BY <1>0, <1>1
     DEF Top, At, Goto, Elsewhere, place, history, setting, ProductKept, Recordable,
         Open, Where, RoundInOrder
<1>2. CASE Dark
  BY <1>0, <1>2
     DEF Dark, At, Goto, place, setting, ProductKept, Recordable, Open, Where,
         RoundInOrder
<1>3. CASE Proceed
  BY <1>0, <1>3
     DEF Proceed, At, Goto, Elsewhere, place, history, setting, ProductKept,
         Recordable, Open, Where, RoundInOrder
<1>4. CASE Hold
  BY <1>0, <1>4
     DEF Hold, At, Goto, Elsewhere, place, history, setting, ProductKept, Recordable,
         Open, Where, RoundInOrder
<1>5. CASE NewCycle
  BY <1>0, <1>5
     DEF NewCycle, At, Goto, place, setting, ProductKept, Recordable, Open, Where,
         RoundInOrder
<1>6. CASE BeginCheck
  BY <1>0, <1>6
     DEF BeginCheck, At, Goto, Elsewhere, place, history, setting, ProductKept,
         Recordable, Open, Where, RoundInOrder
<1>7. CASE ReadBarCode
  <2>1. UNCHANGED <<state, fixture, invited, rows, build>>
    BY <1>7 DEF ReadBarCode, history, setting
  <2>2. \A p \in Products : passed[p] \subseteq passed'[p]
    BY <1>0, <1>7, BarCodeEffect DEF PlaceTyped
  <2>3. \A p \in rows : Recordable(p)'
    BY <1>0, <2>1, <2>2 DEF ProductKept, Recordable, PlaceTyped
  <2>4. /\ \/ serial' = fixture /\ fixture \in Products /\ "barcode" \in passed'[fixture]
           \/ serial' = NoSerial
        /\ wpc' = "send" /\ after' \in {"scanned", "stop"}
    BY <1>0, <1>7, BarCodeEffect DEF PlaceTyped
  <2>5. fixture \in Products => ~invited
    BY <1>0, InspectionAssumption DEF StayInOrder
  <2>6. QED
    BY <1>0, <2>1, <2>3, <2>4, <2>5 DEF ProductKept, Where
<1>8. CASE Scanned
  BY <1>0, <1>8
     DEF Scanned, At, Goto, place, history, setting, ProductKept, Recordable, Open,
         Where, RoundInOrder
<1>9. CASE CheckAccessary
  <2>1. wpc = "acc" /\ UNCHANGED <<serial, fixture, invited, rows, build>>
    BY <1>9 DEF CheckAccessary, At, history, setting
  <2>2. \A p \in Products : passed[p] \subseteq passed'[p]
    BY <1>0, <1>9, AccessaryEffect DEF PlaceTyped
  <2>3. \A p \in rows : Recordable(p)'
    BY <1>0, <2>1, <2>2 DEF ProductKept, Recordable, PlaceTyped
  <2>4. state = 1 /\ Open
    BY <1>0, <2>1 DEF RoundInOrder, Where, Open
  <2>5. ASSUME serial # NoSerial
        PROVE  /\ fixture \in {serial, Empty} /\ ~invited /\ serial \in Products
               /\ "barcode" \in passed'[serial]
    BY <1>0, <2>2, <2>4, <2>5 DEF ProductKept, WorkerTyped
  <2>6. /\ wpc' = "send"
        /\ \/ after' = "stop"
           \/ /\ after' = "record" /\ build = "Mainread"
              /\ fixture \in Products /\ "acc" \in passed'[fixture]
    BY <1>0, <1>9, AccessaryEffect DEF PlaceTyped
  <2>7. ASSUME serial # NoSerial, Where' = "record"
        PROVE  Recordable(serial)'
    BY <2>1, <2>5, <2>6, <2>7, InspectionAssumption DEF Recordable, Where
  <2>8. QED
    BY <2>1, <2>3, <2>5, <2>7 DEF ProductKept
<1>10. CASE CheckCovery
  <2>1. wpc = "film" /\ UNCHANGED <<serial, fixture, invited, rows, build>>
    BY <1>10 DEF CheckCovery, At, history, setting
  <2>2. \A p \in Products : passed[p] \subseteq passed'[p]
    BY <1>0, <1>10, CoveryEffect DEF PlaceTyped
  <2>3. \A p \in rows : Recordable(p)'
    BY <1>0, <2>1, <2>2 DEF ProductKept, Recordable, PlaceTyped
  <2>4. state = 2 /\ Open
    BY <1>0, <2>1 DEF RoundInOrder, Where, Open
  <2>5. ASSUME serial # NoSerial
        PROVE  /\ fixture \in {serial, Empty} /\ ~invited /\ serial \in Products
               /\ "barcode" \in passed'[serial]
    BY <1>0, <2>2, <2>4, <2>5 DEF ProductKept, WorkerTyped
  <2>6. /\ wpc' = "send"
        /\ \/ after' = "stop"
           \/ after' = "record" /\ fixture \in Products /\ "film" \in passed'[fixture]
    BY <1>0, <1>10, CoveryEffect DEF PlaceTyped
  <2>7. ASSUME serial # NoSerial, Where' = "record"
        PROVE  Recordable(serial)'
    BY <2>1, <2>5, <2>6, <2>7, InspectionAssumption DEF Recordable, Where
  <2>8. QED
    BY <2>1, <2>3, <2>5, <2>7 DEF ProductKept
<1>11. CASE Record
  BY <1>0, <1>11
     DEF Record, At, Send, place, setting, ProductKept, Recordable, Open, Where,
         RoundInOrder
<1>12. CASE Count
  BY <1>0, <1>12
     DEF Count, At, Goto, place, history, setting, ProductKept, Recordable, Open,
         Where, RoundInOrder
<1>13. CASE SaveCount
  BY <1>0, <1>13
     DEF SaveCount, At, Goto, place, history, setting, ProductKept, Recordable, Open,
         Where, RoundInOrder
<1>14. CASE CheckStop
  <2>1. wpc = "stop" /\ UNCHANGED <<serial, fixture, invited, passed, rows, build>>
    BY <1>14 DEF CheckStop, At, Elsewhere, place, history, setting
  <2>2. \A p \in rows : Recordable(p)'
    BY <1>0, <2>1 DEF ProductKept, Recordable
  <2>3. CASE state' = 0 /\ wpc' = "send" /\ after' = "cleared"
    BY <2>1, <2>2, <2>3 DEF ProductKept, Open, Where
  <2>4. CASE wpc' = "top" /\ UNCHANGED <<state, outbox, after>>
    BY <1>0, <2>1, <2>2, <2>4 DEF ProductKept, Open, Where
  <2>5. QED
    BY <1>14, <2>3, <2>4, StopEffect
<1>15. CASE Cleared
  BY <1>0, <1>15
     DEF Cleared, At, Goto, history, setting, ProductKept, Recordable, Open, Where,
         RoundInOrder
<1>16. CASE Dispatch
  BY <1>0, <1>16
     DEF Dispatch, place, history, setting, ProductKept, Recordable, Open, Where,
         RoundInOrder
<1>17. CASE StartSignal
  BY <1>0, <1>17
     DEF StartSignal, worker, place, setting, ProductKept, Recordable, Open, Where,
         RoundInOrder
<1>18. CASE Awake
  BY <1>0, <1>18
     DEF Awake, worker, place, history, setting, ProductKept, Recordable, Open,
         Where, RoundInOrder
<1>19. CASE Leave
  BY <1>0, <1>19
     DEF Leave, worker, place, history, setting, ProductKept, Recordable, Open,
         Where, RoundInOrder
<1>20. CASE Start
  BY <1>0, <1>20
     DEF Start, worker, place, history, setting, ProductKept, Recordable, Open,
         Where, RoundInOrder
<1>21. CASE Stop
  BY <1>0, <1>21
     DEF Stop, worker, place, setting, ProductKept, Recordable, Open, Where,
         RoundInOrder
<1>22. CASE Measure
  BY <1>0, <1>22
     DEF Measure, worker, place, history, setting, ProductKept, Recordable, Open,
         Where, RoundInOrder
<1>23. ASSUME NEW check \in Boxes, ClickBox(check) PROVE ProductKept'
  BY <1>0, <1>23
     DEF ClickBox, worker, place, history, setting, ProductKept, Recordable, Open,
         Where, RoundInOrder
<1>24. CASE OpenSettings
  BY <1>0, <1>24
     DEF OpenSettings, worker, place, history, setting, ProductKept, Recordable,
         Open, Where, RoundInOrder
<1>25. CASE CloseSettings
  BY <1>0, <1>25
     DEF CloseSettings, worker, place, history, setting, ProductKept, Recordable,
         Open, Where, RoundInOrder
<1>26. CASE SwitchOutput
  BY <1>0, <1>26
     DEF SwitchOutput, dialog, worker, place, history, setting, ProductKept, Recordable,
         Open, Where, RoundInOrder
<1>27. ASSUME NEW on \in BOOLEAN, LightButton(on) PROVE ProductKept'
  BY <1>0, <1>27
     DEF LightButton, worker, place, history, setting, ProductKept, Recordable, Open,
         Where, RoundInOrder
<1>28. CASE OkButton
  BY <1>0, <1>28
     DEF OkButton, worker, place, history, setting, ProductKept, Recordable, Open,
         Where, RoundInOrder
<1>29. CASE Unload
  BY <1>0, <1>29
     DEF Unload, worker, setting, ProductKept, Recordable, Open, Where, RoundInOrder
<1>30. ASSUME NEW p \in Products, Load(p) PROVE ProductKept'
  <2>1. UNCHANGED <<serial, state, wpc, after, passed, rows, build>>
    BY <1>30 DEF Load, worker, history, setting
  <2>2. invited \/ ~light
    BY <1>0, <1>30 DEF Load
  <2>3. ~(Open /\ serial # NoSerial)
    BY <1>0, <2>2 DEF ProductKept, LightTells, RoundInOrder, Open, Where
  <2>4. \A q \in rows : Recordable(q)'
    BY <1>0, <2>1 DEF ProductKept, Recordable
  <2>5. ~(Where = "record" /\ serial # NoSerial)
    BY <2>3 DEF Open
  <2>6. QED
    BY <2>1, <2>3, <2>4, <2>5 DEF ProductKept, Open, Where
<1>31. CASE UNCHANGED vars
  BY <1>0, <1>31
     DEF vars, worker, place, history, setting, ProductKept, Recordable, Open, Where,
         RoundInOrder
<1>32. QED
  BY Zenon, <1>1, <1>2, <1>3, <1>4, <1>5, <1>6, <1>7, <1>8, <1>9, <1>10, <1>11,
     <1>12, <1>13, <1>14, <1>15, <1>16, <1>17, <1>18, <1>19, <1>20, <1>21, <1>22,
     <1>23, <1>24, <1>25, <1>26, <1>27, <1>28, <1>29, <1>30, <1>31
     DEF Next, WorkerStep, Mainread, DialogSleeps, OperatorClicks, OperatorHandles

-----------------------------------------------------------------------------
(* What the dialog shows of the cycle.                                     *)

\* A result that is well sets its flag and clears none.
LEMMA OkEffect ==
  ASSUME TypeOK, RoundInOrder, Dispatch,
         NEW check \in Checks, outbox[1] = <<check, TRUE>>
  PROVE  /\ flags'[check]
         /\ \A c \in Checks : flags[c] => flags'[c]
         /\ lamp # "off" => lamp' # "off"
         /\ check = "film" => lamp' # "off"
<1>1. outbox[1] # <<"saved", TRUE>>
  BY DEF Checks
<1>2. flags' = Shown(check, TRUE) /\ lamp' \in LampAfter(check, TRUE)
  <2>1. PICK c \in Checks, o \in BOOLEAN :
          outbox[1] = <<c, o>> /\ flags' = Shown(c, o) /\ lamp' \in LampAfter(c, o)
    BY <1>1, DispatchEffect
  <2>2. <<c, o>> = <<check, TRUE>>
    BY <2>1
  <2>3. c = check /\ o = TRUE
    BY <2>2
  <2>4. QED
    BY Zenon, <2>1, <2>3
<1>3. flags \in [Checks -> BOOLEAN] /\ lamp \in Levels
  BY DEF TypeOK
<1>4. QED
  BY <1>2, <1>3, ShownFacts

\* Only a bar code not read clears the flag of the bar code.
LEMMA FlagKept ==
  ASSUME TypeOK, RoundInOrder, Dispatch,
         outbox[1] # <<"barcode", FALSE>>, flags["barcode"]
  PROVE  flags'["barcode"]
<1>1. flags \in [Checks -> BOOLEAN] /\ lamp \in Levels
  BY DEF TypeOK
<1>2. ASSUME NEW check \in Checks, NEW ok \in BOOLEAN,
             outbox[1] = <<check, ok>>, flags' = Shown(check, ok)
      PROVE  flags'["barcode"]
  <2>1. CASE ok
    BY <1>1, <1>2, <2>1, ShownFacts DEF Checks
  <2>2. CASE check # "barcode"
    BY <1>1, <1>2, <2>2, ShownFacts
  <2>3. QED
    BY <1>2, <2>1, <2>2
<1>3. QED
  BY <1>2, DispatchEffect

\* Every step of a careful station keeps what is shown of the cycle.
LEMMA ShownStep ==
  ASSUME TypeOK, RoundInOrder, ExitInOrder, ~hasty, LightTells, ShownSoFar, [Next]_vars
  PROVE  ShownSoFar'
<1>0. TypeOK /\ WorkerTyped /\ DialogTyped /\ RoundInOrder /\ ExitInOrder
      /\ ~hasty /\ LightTells /\ ShownSoFar
  BY TypeParts
<1>1. CASE Top
  BY <1>0, <1>1
     DEF Top, At, Goto, Elsewhere, dialog, outputs, setting, ShownSoFar, CodeRead,
         NotCleared, CodeShown, RecordShown, FilmShown, AccShown, AccMessages, Open,
         Where, RoundInOrder
<1>2. CASE Dark
  BY <1>0, <1>2
     DEF Dark, At, Goto, dialog, setting, ShownSoFar, CodeRead, NotCleared,
         CodeShown, RecordShown, FilmShown, AccShown, AccMessages, Open, Where,
         RoundInOrder
<1>3. CASE Proceed
  BY <1>0, <1>3
     DEF Proceed, At, Goto, Elsewhere, dialog, outputs, setting, ShownSoFar,
         CodeRead, NotCleared, CodeShown, RecordShown, FilmShown, AccShown,
         AccMessages, Open, Where, RoundInOrder
<1>4. CASE Hold
  BY <1>0, <1>4
     DEF Hold, At, Goto, Elsewhere, dialog, outputs, setting, ShownSoFar, CodeRead,
         NotCleared, CodeShown, RecordShown, FilmShown, AccShown, AccMessages, Open,
         Where, RoundInOrder
<1>5. CASE NewCycle
  <2>1. serial' = NoSerial /\ wpc' \in {"scan", "stop"} /\ outbox' = <<>>
    BY <1>0, <1>5 DEF NewCycle, At, Goto, RoundInOrder
  <2>2. Silent(outbox')
    BY <2>1 DEF Silent, Without
  <2>3. QED
    BY <2>1, <2>2 DEF ShownSoFar, CodeRead, NotCleared, CodeShown, RecordShown, Where
<1>6. CASE BeginCheck
  BY <1>0, <1>6
     DEF BeginCheck, At, Goto, Elsewhere, dialog, outputs, setting, ShownSoFar,
         CodeRead, NotCleared, CodeShown, RecordShown, FilmShown, AccShown,
         AccMessages, Open, Where, RoundInOrder
<1>7. CASE ReadBarCode
  <2>1. wpc' = "send" /\ state' = 0
    BY <1>0, <1>7, BarCodeEffect DEF ReadBarCode, At, RoundInOrder, Where
  <2>2. CASE after' = "scanned" /\ outbox' = << <<"barcode", TRUE>> >>
    <3>1. Silent(outbox')
      BY Zenon, <2>2, SilentReports
    <3>2. QED
      BY Zenon, <2>1, <2>2, <3>1
         DEF ShownSoFar, CodeRead, NotCleared, CodeShown, RecordShown, Where
  <2>3. CASE after' = "stop"
    BY <2>1, <2>3
       DEF ShownSoFar, CodeRead, NotCleared, CodeShown, RecordShown, Where, Open
  <2>4. QED
    BY <1>7, <2>2, <2>3, BarCodeEffect
<1>8. CASE Scanned
  BY <1>0, <1>8
     DEF Scanned, At, Goto, dialog, outputs, setting, ShownSoFar, CodeRead,
         NotCleared, CodeShown, RecordShown, FilmShown, AccShown, AccMessages, Open,
         Where, RoundInOrder
<1>9. CASE CheckAccessary
  <2>1. wpc = "acc" /\ wpc' = "send" /\ UNCHANGED <<serial, flags, lamp, build>>
    BY <1>9, AccessaryEffect DEF CheckAccessary, At, dialog, outputs, setting
  <2>2. state = 1 /\ (serial # NoSerial => flags["barcode"])
    BY <1>0, <2>1 DEF RoundInOrder, Where, ShownSoFar, CodeShown, Open
  <2>3. Silent(outbox')
    BY Zenon, <1>9, AccessaryEffect, SilentReports
  <2>4. CASE after' = "stop"
    BY <2>1, <2>2, <2>3, <2>4
       DEF ShownSoFar, CodeRead, NotCleared, CodeShown, RecordShown, Where
  <2>5. CASE /\ outbox' = << <<"book", TRUE>>, <<"dry", TRUE>>, <<"acc", TRUE>> >>
             /\ after' = "record" /\ state' = state /\ build = "Mainread"
    <3>1. Len(outbox') = 3 /\ outbox' \in AccMessages
      BY <2>5, ShortSequences DEF AccMessages
    <3>2. AccShown'
      BY <2>1, <3>1 DEF AccShown
    <3>3. QED
      BY Zenon, <2>1, <2>2, <2>3, <2>5, <3>2
         DEF ShownSoFar, CodeRead, NotCleared, CodeShown, RecordShown
  <2>6. QED
    BY <1>9, <2>2, <2>4, <2>5, AccessaryEffect
<1>10. CASE CheckCovery
  <2>1. wpc = "film" /\ wpc' = "send" /\ UNCHANGED <<serial, flags, lamp, build>>
    BY <1>10, CoveryEffect DEF CheckCovery, At, dialog, outputs, setting
  <2>2. serial # NoSerial => flags["barcode"]
    BY <1>0, <2>1 DEF RoundInOrder, Where, ShownSoFar, CodeShown, Open
  <2>3. Silent(outbox')
    BY Zenon, <1>10, CoveryEffect, SilentReports
  <2>4. CASE after' = "stop"
    BY <2>1, <2>2, <2>3, <2>4
       DEF ShownSoFar, CodeRead, NotCleared, CodeShown, RecordShown, Where
  <2>5. CASE outbox' = << <<"film", TRUE>> >> /\ after' = "record" /\ state' = -1
    <3>1. FilmShown'
      BY Zenon, <2>1, <2>5 DEF FilmShown
    <3>2. after' # "scanned"
      BY <2>5
    <3>3. QED
      BY Zenon, <2>1, <2>2, <2>3, <2>5, <3>1, <3>2
         DEF ShownSoFar, CodeRead, NotCleared, CodeShown, RecordShown
  <2>6. QED
    BY <1>10, <2>4, <2>5, CoveryEffect
<1>11. CASE Record
  BY <1>0, <1>11
     DEF Record, At, Send, dialog, outputs, setting, ShownSoFar, CodeRead,
         NotCleared, CodeShown, RecordShown, FilmShown, AccShown, AccMessages, Open,
         Where, RoundInOrder
<1>12. CASE Count
  BY <1>0, <1>12
     DEF Count, At, Goto, dialog, outputs, setting, ShownSoFar, CodeRead, NotCleared,
         CodeShown, RecordShown, FilmShown, AccShown, AccMessages, Open, Where,
         RoundInOrder
<1>13. CASE SaveCount
  BY <1>0, <1>13
     DEF SaveCount, At, Goto, dialog, outputs, setting, ShownSoFar, CodeRead,
         NotCleared, CodeShown, RecordShown, FilmShown, AccShown, AccMessages, Open,
         Where, RoundInOrder
<1>14. CASE CheckStop
  <2>1. wpc = "stop" /\ outbox = <<>> /\ UNCHANGED <<serial, flags, lamp, build>>
    BY <1>0, <1>14 DEF CheckStop, At, Elsewhere, dialog, outputs, setting, RoundInOrder
  <2>2. CASE state' = 0 /\ wpc' = "send" /\ after' = "cleared"
    BY <2>2 DEF ShownSoFar, CodeRead, NotCleared, CodeShown, RecordShown, Open, Where
  <2>3. CASE wpc' = "top" /\ UNCHANGED <<state, outbox, after>>
    BY <1>0, <2>1, <2>3
       DEF ShownSoFar, CodeRead, NotCleared, CodeShown, RecordShown, Open, Where
  <2>4. QED
    BY <1>14, <2>2, <2>3, StopEffect
<1>15. CASE Cleared
  BY <1>0, <1>15
     DEF Cleared, At, Goto, dialog, outputs, setting, ShownSoFar, CodeRead,
         NotCleared, CodeShown, RecordShown, FilmShown, AccShown, AccMessages, Open,
         Where, RoundInOrder
<1>16. CASE Dispatch
  <2>1. UNCHANGED <<state, serial, after, build>>
    BY <1>16 DEF Dispatch, setting
  <2>2. /\ wpc = "send" /\ outbox # <<>> /\ outbox \in Seq(Messages)
        /\ outbox' = Tail(outbox)
        /\ Len(outbox') = Len(outbox) - 1 /\ outbox' \in Seq(Messages)
        /\ \A i \in 1..Len(outbox') : outbox'[i] = outbox[i + 1]
        /\ \/ outbox' = <<>> /\ wpc' = after
           \/ outbox' # <<>> /\ wpc' = "send"
        /\ after # "send"
    BY <1>0, <1>16, DispatchEffect DEF RoundInOrder, WorkerTyped
  <2>3. Where' = Where /\ (Open' <=> Open)
    BY <2>1, <2>2 DEF Where, Open
  <2>4. ASSUME NEW check \in Checks, outbox[1] = <<check, TRUE>>
        PROVE  /\ flags'[check]
               /\ \A c \in Checks : flags[c] => flags'[c]
               /\ lamp # "off" => lamp' # "off"
               /\ check = "film" => lamp' # "off"
    BY <1>0, <1>16, <2>4, OkEffect
  <2>5. ASSUME outbox[1] # <<"barcode", FALSE>>, flags["barcode"]
        PROVE  flags'["barcode"]
    BY <1>0, <1>16, <2>5, FlagKept
  <2>6. after = "scanned" => outbox = << <<"barcode", TRUE>> >>
    BY <1>0, <2>2 DEF ShownSoFar, CodeRead
  <2>7. ~(wpc' = "send" /\ after' = "scanned")
    <3>1. after = "scanned" => Len(outbox) = 1
      BY Zenon, <2>6, ShortSequences
    <3>2. QED
      BY <2>1, <2>2, <3>1
  <2>8. Open => Silent(outbox) /\ outbox[1] # <<"barcode", FALSE>>
    BY <1>0, <2>2, WithoutTail DEF ShownSoFar, NotCleared, Silent
  <2>9. Open' => Silent(outbox')
    BY <2>2, <2>3, <2>8, WithoutTail DEF Silent
  <2>10. ASSUME Open, serial # NoSerial
         PROVE  flags'["barcode"]
    <3>1. CASE after = "scanned"
      <4>1. outbox[1] = <<"barcode", TRUE>>
        BY <2>6, <3>1, ShortSequences
      <4>2. QED
        BY <2>4, <4>1 DEF Checks
    <3>2. CASE after # "scanned"
      BY <1>0, <2>5, <2>8, <2>10, <3>2 DEF ShownSoFar, CodeShown
    <3>3. QED
      BY <3>1, <3>2
  <2>11. CodeRead' /\ NotCleared' /\ CodeShown'
    BY <2>1, <2>3, <2>7, <2>9, <2>10 DEF CodeRead, NotCleared, CodeShown
  <2>12. ASSUME Where = "record", state = -1, FilmShown
         PROVE  FilmShown'
    <3>1. after = "record" /\ outbox = << <<"film", TRUE>> >>
      BY <2>2, <2>12 DEF FilmShown, Where
    <3>2. outbox[1] = <<"film", TRUE>> /\ Len(outbox) = 1
      BY <3>1, ShortSequences
    <3>3. wpc' = "record"
      BY <2>2, <3>1, <3>2
    <3>4. QED
      BY <2>4, <3>2, <3>3 DEF FilmShown, Checks
  <2>13. ASSUME Where = "record", AccShown
         PROVE  AccShown'
    <3>1. after = "record" /\ outbox \in AccMessages
      BY <2>2, <2>13 DEF AccShown, Where
    <3>2. CASE outbox = << <<"book", TRUE>>, <<"dry", TRUE>>, <<"acc", TRUE>> >>
      <4>1. outbox' = << <<"dry", TRUE>>, <<"acc", TRUE>> >> /\ Len(outbox') = 2
        <5>1. Tail(outbox) = << <<"dry", TRUE>>, <<"acc", TRUE>> >>
          <6>1. ASSUME NEW a, NEW b, NEW c, outbox = <<a, b, c>>
                PROVE  Tail(outbox) = <<b, c>>
            BY <6>1, TailOfThree
          <6>2. QED
            BY Zenon, <3>2, <6>1
        <5>2. Len(<< <<"dry", TRUE>>, <<"acc", TRUE>> >>) = 2
          BY Zenon, ShortSequences
        <5>3. outbox' = Tail(outbox)
          BY <2>2
        <5>4. QED
          BY Zenon, <5>1, <5>2, <5>3
      <4>2. flags'["book"] /\ wpc' = "send"
        <5>1. outbox[1] = <<"book", TRUE>>
          BY <3>2, ShortSequences
        <5>2. QED
          BY <2>2, <2>4, <4>1, <5>1 DEF Checks
      <4>3. outbox' \in AccMessages
        BY Zenon, <4>1 DEF AccMessages
      <4>4. QED
        BY <4>1, <4>2, <4>3 DEF AccShown
    <3>3. CASE outbox = << <<"dry", TRUE>>, <<"acc", TRUE>> >>
      <4>1. outbox' = << <<"acc", TRUE>> >> /\ Len(outbox') = 1
        <5>1. Tail(outbox) = << <<"acc", TRUE>> >>
          BY Zenon, <3>3, ShortSequences
        <5>2. Len(<< <<"acc", TRUE>> >>) = 1
          BY Zenon, ShortSequences
        <5>3. outbox' = Tail(outbox)
          BY <2>2
        <5>4. QED
          BY Zenon, <5>1, <5>2, <5>3
      <4>2. Len(outbox) = 2 /\ outbox[1] = <<"dry", TRUE>>
        BY Zenon, <3>3, ShortSequences
      <4>3. flags["book"]
        BY <2>13, <4>2 DEF AccShown
      <4>4. flags'["book"] /\ flags'["dry"] /\ wpc' = "send"
        BY <2>2, <2>4, <4>1, <4>2, <4>3 DEF Checks
      <4>5. outbox' \in AccMessages
        BY Zenon, <4>1 DEF AccMessages
      <4>6. QED
        BY <4>1, <4>4, <4>5 DEF AccShown
    <3>4. CASE outbox = << <<"acc", TRUE>> >>
      <4>1. Len(outbox) = 1 /\ outbox[1] = <<"acc", TRUE>>
        BY <3>4, ShortSequences
      <4>2. flags["book"] /\ flags["dry"]
        BY <2>13, <4>1 DEF AccShown
      <4>3. flags'["book"] /\ flags'["dry"] /\ flags'["acc"] /\ wpc' # "send"
        BY <2>2, <2>4, <4>1, <4>2 DEF Checks
      <4>4. QED
        BY <4>3 DEF AccShown
    <3>5. QED
      BY <3>1, <3>2, <3>3, <3>4 DEF AccMessages
  <2>14. RecordShown'
    BY <1>0, <2>1, <2>3, <2>12, <2>13 DEF ShownSoFar, RecordShown
  <2>15. QED
    BY <2>11, <2>14 DEF ShownSoFar
<1>17. CASE StartSignal
  BY <1>0, <1>17
     DEF StartSignal, worker, outputs, setting, ShownSoFar, CodeRead, NotCleared,
         CodeShown, RecordShown, FilmShown, AccShown, AccMessages, Open, Where,
         RoundInOrder
<1>18. CASE Awake
  BY <1>0, <1>18
     DEF Awake, worker, outputs, setting, ShownSoFar, CodeRead, NotCleared,
         CodeShown, RecordShown, FilmShown, AccShown, AccMessages, Open, Where,
         RoundInOrder
<1>19. CASE Leave
  <2>1. wpc \in {"wait", "done"}
    BY <1>0, <1>19 DEF Leave, ExitInOrder, LightTells
  <2>2. UNCHANGED <<state, serial, wpc, outbox, after, flags, build>>
    BY <1>19 DEF Leave, worker, setting
  <2>3. QED
    BY <1>0, <2>1, <2>2
       DEF ShownSoFar, CodeRead, NotCleared, CodeShown, RecordShown, Open, Where
<1>20. CASE Start
  <2>1. wpc \in {"wait", "done"} /\ state = 0
    BY <1>0, <1>20 DEF Start, Careful, LightTells
  <2>2. wpc' = wpc /\ state' = state
    BY <1>20 DEF Start, worker
  <2>3. wpc' # "send" /\ ~Open' /\ Where' # "record"
    BY <2>1, <2>2 DEF Open, Where
  <2>4. QED
    BY <2>3 DEF ShownSoFar, CodeRead, NotCleared, CodeShown, RecordShown
<1>21. CASE Stop
  BY <1>0, <1>21
     DEF Stop, worker, outputs, setting, ShownSoFar, CodeRead, NotCleared, CodeShown,
         RecordShown, FilmShown, AccShown, AccMessages, Open, Where, RoundInOrder
<1>22. CASE Measure
  BY <1>0, <1>22
     DEF Measure, worker, dialog, outputs, setting, ShownSoFar, CodeRead, NotCleared,
         CodeShown, RecordShown, FilmShown, AccShown, AccMessages, Open, Where,
         RoundInOrder
<1>23. ASSUME NEW check \in Boxes, ClickBox(check) PROVE ShownSoFar'
  BY <1>0, <1>23
     DEF ClickBox, worker, outputs, setting, ShownSoFar, CodeRead, NotCleared,
         CodeShown, RecordShown, FilmShown, AccShown, AccMessages, Open, Where,
         RoundInOrder
<1>24. CASE OpenSettings
  BY <1>0, <1>24
     DEF OpenSettings, worker, setting, ShownSoFar, CodeRead, NotCleared, CodeShown,
         RecordShown, FilmShown, AccShown, AccMessages, Open, Where, RoundInOrder
<1>25. CASE CloseSettings
  BY <1>0, <1>25
     DEF CloseSettings, worker, setting, ShownSoFar, CodeRead, NotCleared, CodeShown,
         RecordShown, FilmShown, AccShown, AccMessages, Open, Where, RoundInOrder
<1>26. CASE SwitchOutput
  <2>1. wpc = "wait" /\ state = 0
    BY <1>0, <1>26 DEF SwitchOutput, LightTells
  <2>2. wpc' = wpc /\ state' = state
    BY <1>26 DEF SwitchOutput, worker
  <2>3. wpc' # "send" /\ ~Open' /\ Where' # "record"
    BY <2>1, <2>2 DEF Open, Where
  <2>4. QED
    BY <2>3 DEF ShownSoFar, CodeRead, NotCleared, CodeShown, RecordShown
<1>27. ASSUME NEW on \in BOOLEAN, LightButton(on) PROVE ShownSoFar'
  BY <1>0, <1>27
     DEF LightButton, worker, dialog, setting, ShownSoFar, CodeRead, NotCleared,
         CodeShown, RecordShown, FilmShown, AccShown, AccMessages, Open, Where,
         RoundInOrder
<1>28. CASE OkButton
  BY <1>0, <1>28
     DEF OkButton, worker, outputs, setting, ShownSoFar, CodeRead, NotCleared,
         CodeShown, RecordShown, FilmShown, AccShown, AccMessages, Open, Where,
         RoundInOrder
<1>29. CASE Unload
  BY <1>0, <1>29
     DEF Unload, worker, dialog, outputs, setting, ShownSoFar, CodeRead, NotCleared,
         CodeShown, RecordShown, FilmShown, AccShown, AccMessages, Open, Where,
         RoundInOrder
<1>30. ASSUME NEW p \in Products, Load(p) PROVE ShownSoFar'
  BY <1>0, <1>30
     DEF Load, worker, dialog, outputs, setting, ShownSoFar, CodeRead, NotCleared,
         CodeShown, RecordShown, FilmShown, AccShown, AccMessages, Open, Where,
         RoundInOrder
<1>31. CASE UNCHANGED vars
  BY <1>0, <1>31
     DEF vars, worker, dialog, outputs, setting, ShownSoFar, CodeRead, NotCleared,
         CodeShown, RecordShown, FilmShown, AccShown, AccMessages, Open, Where,
         RoundInOrder
<1>32. QED
  BY Zenon, <1>1, <1>2, <1>3, <1>4, <1>5, <1>6, <1>7, <1>8, <1>9, <1>10, <1>11,
     <1>12, <1>13, <1>14, <1>15, <1>16, <1>17, <1>18, <1>19, <1>20, <1>21, <1>22,
     <1>23, <1>24, <1>25, <1>26, <1>27, <1>28, <1>29, <1>30, <1>31
     DEF Next, WorkerStep, Mainread, DialogSleeps, OperatorClicks, OperatorHandles

-----------------------------------------------------------------------------
(* The inductive invariant and what follows from it.                       *)

\* The invariant holds when the dialog opens.
LEMMA InitIInv == Init => IInv
<1> SUFFICES ASSUME Init PROVE IInv
  OBVIOUS
<1>1. TypeOK
  <2>1. WorkerTyped
    BY InspectionAssumption DEF Init, WorkerTyped, WorkerPoints, Grabbing
  <2>2. DialogTyped
    BY DEF Init, DialogTyped, AllClear, Levels
  <2>3. PlaceTyped
    <3>1. stops \in 0..MaxStops
      BY InspectionAssumption DEF Init
    <3>2. passed \in [Products -> SUBSET {"barcode", "acc", "film"}]
      BY DEF Init
    <3>3. QED
      BY <3>1, <3>2 DEF Init, PlaceTyped
  <2>4. QED
    BY <2>1, <2>2, <2>3, TypeParts
<1>2. RoundInOrder /\ ExitInOrder
  BY DEF Init, RoundInOrder, ExitInOrder, Where
<1>3. TotalInStep
  BY DEF Init, TotalInStep, Where
<1>4. StayInOrder
  BY InspectionAssumption DEF Init, StayInOrder, Open, Where
<1>5. LightTells
  BY DEF Init, LightTells
<1>6. ProductKept
  BY DEF Init, ProductKept, Open, Where
<1>7. ShownSoFar
  BY DEF Init, ShownSoFar, CodeRead, NotCleared, CodeShown, RecordShown, Open, Where
<1>8. QED
  BY <1>1, <1>2, <1>3, <1>4, <1>5, <1>6, <1>7 DEF IInv, RoundInv, CarefulInv

\* No step but Start changes the build or the habits.
LEMMA SettingKept ==
  ASSUME [Next]_vars, ~Start
  PROVE  hasty' = hasty /\ build' = build
<1>1. CASE WorkerStep
  BY <1>1 DEF WorkerStep, Mainread, Top, Dark, Proceed, Hold, NewCycle, BeginCheck,
       ReadBarCode, Scanned, CheckAccessary, CheckCovery, Record, Count, SaveCount,
       CheckStop, Cleared, Elsewhere, setting
<1>2. CASE Dispatch \/ DialogSleeps \/ OperatorHandles
  BY <1>2 DEF Dispatch, DialogSleeps, StartSignal, Awake, Leave, OperatorHandles, Load,
       Unload, setting
<1>3. CASE OperatorClicks
  BY <1>3
     DEF OperatorClicks, Stop, Measure, ClickBox, OpenSettings, SwitchOutput,
       CloseSettings, LightButton, OkButton, setting
<1>4. CASE UNCHANGED vars
  BY <1>4 DEF vars, setting
<1>5. QED
  BY <1>1, <1>2, <1>3, <1>4 DEF Next

\* Nobody starts to wait for the station later on.
LEMMA HabitKept ==
  ASSUME [Next]_vars
  PROVE  (hasty => hasty') /\ build' = build
<1>1. CASE Start
  BY <1>1 DEF Start
<1>2. CASE ~Start
  BY <1>2, SettingKept
<1>3. QED
  BY <1>1, <1>2

\* Every step keeps the invariant.
LEMMA IInvStep == IInv /\ [Next]_vars => IInv'
<1> SUFFICES ASSUME IInv, [Next]_vars PROVE IInv'
  OBVIOUS
<1>1. TypeOK /\ RoundInOrder /\ ExitInOrder /\ TotalInStep /\ StayInOrder
  BY DEF IInv, RoundInv
<1>2. TypeOK' /\ RoundInOrder' /\ ExitInOrder' /\ TotalInStep' /\ StayInOrder'
  BY <1>1, TypeStep, RoundStep, ExitStep, TotalStep, StayStep
<1>3. ASSUME ~hasty'
      PROVE  LightTells' /\ ProductKept' /\ ShownSoFar'
  <2>1. ~hasty
    BY <1>3, HabitKept
  <2>2. LightTells /\ ProductKept /\ ShownSoFar
    BY <2>1 DEF IInv, CarefulInv
  <2>3. QED
    BY <1>1, <1>3, <2>1, <2>2, LightStep, ProductStep, ShownStep
<1>4. QED
  BY <1>2, <1>3 DEF IInv, RoundInv, CarefulInv

\* Every state of the station, whoever operates it, satisfies the invariant.
THEOREM Invariance == Spec => []IInv
<1>1. IInv /\ UNCHANGED vars => IInv'
  BY IInvStep
<1>2. QED
  BY InitIInv, IInvStep, PTL DEF Spec

\* Every variable keeps to the values its member of the dialog, its event or
\* its output can have.
THEOREM TypeCorrect == Spec => []TypeOK
<1>1. IInv => TypeOK
  BY DEF IInv, RoundInv
<1>2. QED
  BY Invariance, <1>1, PTL

\* A product with a row in the csv file has itself passed the checks, for any
\* number of products, cycles and stops.
THEOREM RowsTrue == Spec => []RowTruth
<1>1. IInv => RowTruth
  BY DEF IInv, CarefulInv, ProductKept, Recordable, RowTruth
<1>2. QED
  BY Invariance, <1>1, PTL

\* A product that stays on the fixture is recorded once, whoever operates the
\* station.
THEOREM RecordedOnce == Spec => []OneRowPerStay
<1>1. IInv => OneRowPerStay
  BY DEF IInv, RoundInv, StayInOrder, Open, Where, OneRowPerStay
<1>2. QED
  BY Invariance, <1>1, PTL

\* What is recorded is what the dialog shows at that moment.
THEOREM RecordedAsShown == Spec => []ShownAsRecorded
<1>1. IInv => ShownAsRecorded
  BY
     DEF IInv, CarefulInv, ShownSoFar, CodeShown, RecordShown, FilmShown, AccShown,
         Open,
         Where, ShownAsRecorded
<1>2. QED
  BY Invariance, <1>1, PTL

\* Neither total runs ahead of the inspections, for any number of them.
THEOREM NeverOvercounts == Spec => []TotalNeverOvercounts
<1>1. IInv => TotalNeverOvercounts
  BY DEF IInv, RoundInv, TotalInStep, TotalNeverOvercounts
<1>2. QED
  BY Invariance, <1>1, PTL

\* A light that came on at Start stays on while the station of a careful operator
\* runs.
THEOREM LitWhileRunning == Spec => []LightWhileRunning
<1>1. IInv => LightWhileRunning
  BY DEF IInv, CarefulInv, LightTells, LightWhileRunning
<1>2. QED
  BY Invariance, <1>1, PTL

\* The settings dialog and a cycle never overlap.
THEOREM SettingsAreAlone == Spec => []SettingsAlone
<1>1. IInv => SettingsAlone
  BY DEF IInv, CarefulInv, LightTells, SettingsAlone
<1>2. QED
  BY Invariance, <1>1, PTL

\* A step that is not the last one of the exit neither closes the dialog nor, once
\* it is closed, moves the test thread.
LEMMA OnlyLeaveCloses ==
  ASSUME TypeOK, [Next]_vars, ~Leave
  PROVE  upc' = "closed" => upc = "closed" /\ wpc' = wpc
<1>1. CASE WorkerStep
  BY <1>1 DEF WorkerStep, Mainread, Top, Dark, Proceed, Hold, NewCycle, BeginCheck,
       ReadBarCode, Scanned, CheckAccessary, CheckCovery, Record, Count, SaveCount,
       CheckStop, Cleared, At, Elsewhere, dialog
<1>2. CASE Dispatch \/ DialogSleeps \/ OperatorHandles
  BY <1>2 DEF Dispatch, DialogSleeps, StartSignal, Awake, OperatorHandles, Load, Unload,
       worker, dialog
<1>3. CASE OperatorClicks
  BY <1>3
     DEF OperatorClicks, Start, Stop, Measure, ClickBox, OpenSettings, SwitchOutput,
       CloseSettings, LightButton, OkButton, worker, dialog
<1>4. CASE UNCHANGED vars
  BY <1>4 DEF vars, worker, dialog
<1>5. QED
  BY <1>1, <1>2, <1>3, <1>4 DEF Next

\* The dialog of a careful operator, and that of the build of this commit, frees
\* the camera only after the test thread has ended.
THEOREM FreedAfterWorker == Spec => []ClosedAfterWorker
<1>1. Init => ClosedAfterWorker
  BY DEF Init, ClosedAfterWorker
<1>2. IInv /\ ClosedAfterWorker /\ [Next]_vars => ClosedAfterWorker'
  <2> SUFFICES ASSUME IInv, ClosedAfterWorker, [Next]_vars, upc' = "closed", Timely'
               PROVE  wpc' = "done"
    BY DEF ClosedAfterWorker
  <2>1. TypeOK /\ ExitInOrder /\ (~hasty => LightTells)
    BY DEF IInv, RoundInv, CarefulInv
  <2>2. Timely
    BY HabitKept DEF Timely
  <2>3. CASE Leave
    BY <2>1, <2>2, <2>3
       DEF Leave, Settled, Grabbing, Timely, ExitInOrder, LightTells, worker
  <2>4. CASE ~Leave
    BY <2>1, <2>2, <2>4, OnlyLeaveCloses DEF ClosedAfterWorker
  <2>5. QED
    BY <2>3, <2>4
<1>3. QED
  BY Invariance, <1>1, <1>2, PTL DEF Spec

-----------------------------------------------------------------------------
(* The abstract station.                                                   *)

\* The station's operator is that of the model.
LEMMA OperatorKept ==
  ASSUME hasty' = hasty, build' = build
  PROVE  UNCHANGED Line!operator
<1>1. (~hasty') = (~hasty) /\ (build' = "Mainread") = (build = "Mainread")
  BY Zenon
<1>2. QED
  BY <1>1, Zenon DEF Line!operator

\* A step that leaves fixture, checks, rows and totals alone, and the candidate.
LEMMA LineStutter ==
  ASSUME hasty' = hasty, build' = build, Candidate' = Candidate,
         UNCHANGED <<fixture, unseen, passed, rowed, rows, cycles, m_iTotal, countFile>>
  PROVE  UNCHANGED Line!station
BY OperatorKept, Zenon DEF Line!station, Line!line, Line!ledger, Line!counts

\* One that leaves no candidate ends the cycle.
LEMMA LineGivesUp ==
  ASSUME hasty' = hasty, build' = build, Candidate' = NoSerial,
         UNCHANGED <<fixture, unseen, passed, rowed, rows, cycles, m_iTotal, countFile>>
  PROVE  Line!Next
<1>1. Line!GiveUp
  BY OperatorKept, Zenon DEF Line!GiveUp, Line!line, Line!ledger, Line!counts
<1>2. QED
  BY <1>1 DEF Line!Next

\* What the candidate depends on.
LEMMA CandidateKept ==
  ASSUME UNCHANGED <<state, serial>>, Where' = Where
  PROVE  Candidate' = Candidate
BY Zenon DEF Candidate, Open

\* The first line of a round and its end move no candidate.
LEMMA RoundSteps ==
  ASSUME IInv, hasty' = hasty, build' = build,
         Top \/ Proceed \/ Hold \/ NewCycle \/ BeginCheck \/ Scanned \/ CheckStop \/ Cleared
  PROVE  [Line!Next]_(Line!station)
<1>0. RoundInOrder
  BY DEF IInv, RoundInv
<1>1. UNCHANGED <<fixture, unseen, passed, rowed, rows, cycles, m_iTotal, countFile>>
  BY DEF Top, Proceed, Hold, NewCycle, BeginCheck, Scanned, CheckStop, Cleared, Elsewhere,
         counts, place, history
<1>2. Candidate' \in {Candidate, NoSerial}
  <2>1. CASE Top \/ Proceed \/ Hold
    BY <2>1 DEF Top, Proceed, Hold, At, Goto, Candidate, Open, Where
  <2>2. CASE NewCycle
    BY <2>2 DEF NewCycle, At, Goto, Candidate, Open, Where
  <2>3. CASE BeginCheck
    BY <2>3 DEF BeginCheck, At, Goto, Candidate, Open, Where
  <2>4. CASE Scanned
    BY <2>4 DEF Scanned, At, Goto, Candidate, Open, Where
  <2>5. CASE CheckStop
    <3>1. wpc = "stop" /\ serial' = serial
      BY <2>5 DEF CheckStop, At
    <3>2. CASE state' = 0 /\ wpc' = "send" /\ after' = "cleared"
      BY <3>2 DEF Candidate, Open, Where
    <3>3. CASE wpc' = "top" /\ UNCHANGED <<state, outbox, after>>
      BY <3>1, <3>3 DEF Candidate, Open, Where
    <3>4. QED
      BY <2>5, <3>2, <3>3, StopEffect
  <2>6. CASE Cleared
    BY <2>6 DEF Cleared, At, Goto, Candidate, Open, Where
  <2>7. QED
    BY <2>1, <2>2, <2>3, <2>4, <2>5, <2>6
<1>3. QED
  BY <1>1, <1>2, LineStutter, LineGivesUp

\* The light goes out: the station was stopped.
LEMMA DarkRestarts ==
  ASSUME hasty' = hasty, build' = build, Dark
  PROVE  Line!Next
<1>1. Candidate' = NoSerial
  BY DEF Dark, Goto, Candidate, Open, Where
<1>2. rowed' = {} /\ UNCHANGED <<fixture, unseen, passed, rows, cycles, m_iTotal, countFile>>
  BY Zenon DEF Dark, place, counts
<1>3. Line!Restart
  BY <1>1, <1>2, OperatorKept, Zenon DEF Line!Restart, Line!line, Line!counts
<1>4. QED
  BY <1>3 DEF Line!Next

\* A bar code read makes the product on the fixture the candidate.
LEMMA BarCodeIdentifies ==
  ASSUME IInv, hasty' = hasty, build' = build, ReadBarCode
  PROVE  [Line!Next]_(Line!station)
<1>0. TypeOK /\ RoundInOrder /\ StayInOrder
  BY DEF IInv, RoundInv
<1>1. wpc = "scan" /\ state = 0 /\ state' = 0 /\ wpc' = "send"
  BY <1>0 DEF ReadBarCode, At, Send, RoundInOrder, Where
<1>2. Candidate = NoSerial
  BY <1>1 DEF Candidate, Open, Where
<1>3. UNCHANGED <<fixture, unseen, rowed, rows, cycles, m_iTotal, countFile>>
  BY Zenon DEF ReadBarCode, counts, history
<1>4. PICK ok \in BOOLEAN :
        /\ ok => fixture \in Products
        /\ serial' = IF ok THEN fixture ELSE NoSerial
        /\ after' = IF ok THEN "scanned" ELSE "stop"
        /\ passed' = IF ok THEN [passed EXCEPT ![fixture] = @ \cup {"barcode"}] ELSE passed
  BY <1>0, BarCodeEffect
<1>5. CASE ok
  <2>1. Candidate' = fixture
    BY <1>1, <1>4, <1>5 DEF Candidate, Open, Where
  <2>2. fixture # Empty /\ fixture \notin rowed
    BY <1>0, <1>1, <1>4, <1>5, InspectionAssumption DEF StayInOrder
  <2>3. passed' = [passed EXCEPT ![fixture] = @ \cup {"barcode"}]
    BY <1>4, <1>5
  <2>4. Line!Passes("barcode")
    BY <1>3, <2>2, <2>3, OperatorKept, Zenon DEF Line!Passes, Line!ledger, Line!counts
  <2>5. Line!Identify
    BY <1>2, <2>1, <2>2, <2>4, Zenon DEF Line!Identify
  <2>6. QED
    BY <2>5 DEF Line!Next
<1>6. CASE ~ok
  <2>1. Candidate' = NoSerial
    BY <1>1, <1>4, <1>6 DEF Candidate, Open, Where
  <2>2. passed' = passed
    BY <1>4, <1>6
  <2>3. QED
    BY <1>3, <2>1, <2>2, LineGivesUp
<1>7. QED
  BY <1>5, <1>6

\* Accessories or film found keep the candidate and approve what is on the fixture.
LEMMA ChecksApprove ==
  ASSUME IInv, hasty' = hasty, build' = build, CheckAccessary \/ CheckCovery
  PROVE  [Line!Next]_(Line!station)
<1>0. TypeOK /\ RoundInOrder
  BY DEF IInv, RoundInv
<1>1. UNCHANGED <<serial, fixture, unseen, rowed, rows, cycles, m_iTotal, countFile>>
  BY Zenon DEF CheckAccessary, CheckCovery, counts, history
<1>2. Open /\ Open'
  <2>1. CASE CheckAccessary
    <3>1. wpc = "acc" /\ state = 1 /\ Open
      BY <1>0, <2>1 DEF CheckAccessary, At, RoundInOrder, Where, Open
    <3>2. state' \in {1, 2}
      BY <1>0, <2>1, <3>1, AccessaryEffect
    <3>3. QED
      BY <3>1, <3>2 DEF Open
  <2>2. CASE CheckCovery
    <3>1. wpc = "film" /\ state = 2 /\ Open
      BY <1>0, <2>2 DEF CheckCovery, At, RoundInOrder, Where, Open
    <3>2. wpc' = "send" /\ (state' = 2 \/ after' = "record")
      BY <1>0, <2>2, CoveryEffect
    <3>3. QED
      BY <3>1, <3>2 DEF Open, Where
  <2>3. QED
    BY <2>1, <2>2
<1>3. Candidate' = Candidate
  BY <1>1, <1>2 DEF Candidate
<1>4. \/ passed' = passed
      \/ \E check \in {"acc", "film"} :
           fixture \in Products /\ passed' = [passed EXCEPT ![fixture] = @ \cup {check}]
  BY <1>0, AccessaryEffect, CoveryEffect
<1>5. CASE passed' = passed
  BY <1>1, <1>3, <1>5, LineStutter
<1>6. ASSUME NEW check \in {"acc", "film"}, fixture \in Products,
             passed' = [passed EXCEPT ![fixture] = @ \cup {check}]
      PROVE  Line!Next
  <2>1. fixture # Empty
    BY <1>6, InspectionAssumption
  <2>2. Line!Passes(check)
    BY <1>1, <1>6, <2>1, OperatorKept, Zenon DEF Line!Passes, Line!ledger, Line!counts
  <2>3. Line!Approve(check)
    BY <1>3, <2>2, Zenon DEF Line!Approve
  <2>4. QED
    BY <2>3 DEF Line!Next
<1>7. QED
  BY <1>4, <1>5, <1>6

\* A record is one of the candidate, who has passed what it takes.
LEMMA RecordRecords ==
  ASSUME IInv, hasty' = hasty, build' = build, Record
  PROVE  Line!Next
<1>0. TypeOK /\ RoundInOrder /\ StayInOrder /\ (~hasty => ProductKept)
  BY DEF IInv, RoundInv, CarefulInv
<1>1. wpc = "record" /\ Where = "record" /\ Open /\ Candidate = serial
  BY DEF Record, At, Where, Open, Candidate
<1>2. /\ state' = -1 /\ cycles' = cycles + 1 /\ wpc' = "send" /\ after' = "count"
      /\ \E row \in SUBSET ({serial} \ {NoSerial}) :
           rows' = rows \cup row /\ rowed' = rowed \cup row
  BY <1>0, RecordEffect
<1>3. Candidate' = NoSerial
  BY <1>2 DEF Candidate, Open, Where
<1>4. UNCHANGED <<fixture, unseen, passed, m_iTotal, countFile>>
  BY Zenon DEF Record, place, counts
<1>5. serial # NoSerial => serial \notin rowed
  BY <1>0, <1>1 DEF StayInOrder
<1>6. ~hasty /\ serial # NoSerial => Line!Suffices(passed[serial])
  BY <1>0, <1>1, Zenon DEF ProductKept, Recordable, Line!Suffices
<1>7. Line!Record
  BY <1>1, <1>2, <1>3, <1>4, <1>5, <1>6, OperatorKept, Zenon DEF Line!Record, Line!line
<1>8. QED
  BY <1>7 DEF Line!Next

\* Count and SaveCount follow the inspection that ended well.
LEMMA CountsFollow ==
  ASSUME IInv, hasty' = hasty, build' = build, Count \/ SaveCount
  PROVE  Line!Next
<1>1. UNCHANGED <<fixture, unseen, passed, rowed, rows, cycles>>
  BY Zenon DEF Count, SaveCount, place, history
<1>2. Candidate' = Candidate
  BY DEF Count, SaveCount, At, Goto, Candidate, Open, Where
<1>3. CASE Count
  <2>1. m_iTotal < cycles
    BY <1>3 DEF Count, At, Where, IInv, RoundInv, TotalInStep
  <2>2. m_iTotal' = m_iTotal + 1 /\ countFile' = countFile
    BY <1>3 DEF Count
  <2>3. Line!Count
    BY <1>1, <1>2, <2>1, <2>2, OperatorKept, Zenon DEF Line!Count, Line!line, Line!ledger
  <2>4. QED
    BY <2>3 DEF Line!Next
<1>4. CASE SaveCount
  <2>1. countFile' = m_iTotal /\ m_iTotal' = m_iTotal
    BY <1>4 DEF SaveCount
  <2>2. Line!Save
    BY <1>1, <1>2, <2>1, OperatorKept, Zenon DEF Line!Save, Line!line, Line!ledger
  <2>3. QED
    BY <2>2 DEF Line!Next
<1>5. QED
  BY <1>3, <1>4

\* A button may write an older total back.
LEMMA UpdateFallsBack ==
  ASSUME IInv, hasty => hasty', build' = build, UpdateData, UNCHANGED worker,
         UNCHANGED <<fixture, unseen, passed, rowed, rows, cycles>>
  PROVE  Line!Next
<1>1. m_iTotal' \in 0..m_iTotal /\ countFile' = countFile
  BY DEF UpdateData, IInv, RoundInv, TotalInStep, TypeOK
<1>2. Candidate' = Candidate
  BY DEF worker, Candidate, Open, Where
<1>3. (~hasty') \in {~hasty, FALSE} /\ (build' = "Mainread") = (build = "Mainread")
  <2>1. CASE hasty'
    BY <2>1, Zenon
  <2>2. CASE ~hasty'
    BY <2>2, Zenon
  <2>3. QED
    BY <2>1, <2>2
<1>4. Line!FallBack
  BY <1>1, <1>2, <1>3, Zenon DEF Line!FallBack, Line!line, Line!ledger
<1>5. QED
  BY <1>4 DEF Line!Next

\* Messages, sleeps and the buttons that write nothing back are inside the station.
LEMMA InnerSteps ==
  ASSUME IInv, hasty' = hasty, build' = build,
         \/ Dispatch \/ StartSignal \/ Awake \/ Leave
         \/ OpenSettings \/ SwitchOutput \/ CloseSettings
         \/ OkButton \/ \E on \in BOOLEAN : LightButton(on)
  PROVE  UNCHANGED Line!station
<1>1. UNCHANGED <<fixture, unseen, passed, rowed, rows, cycles, m_iTotal, countFile>>
  BY DEF Dispatch, StartSignal, Awake, Leave, OpenSettings, SwitchOutput,
         CloseSettings, OkButton, LightButton, counts, place, history
<1>2. UNCHANGED <<state, serial>> /\ Where' = Where
  <2>1. CASE Dispatch
    BY <2>1 DEF Dispatch, Where, IInv, RoundInv, RoundInOrder
  <2>2. CASE ~Dispatch
    BY <2>2 DEF StartSignal, Awake, Leave, OpenSettings, SwitchOutput, CloseSettings,
                OkButton, LightButton, worker, Where
  <2>3. QED
    BY <2>1, <2>2
<1>3. QED
  BY <1>1, <1>2, CandidateKept, LineStutter

\* A careful operator loads no product while there is a candidate.
LEMMA LoadPuts ==
  ASSUME IInv, hasty' = hasty, build' = build, NEW p \in Products, Load(p)
  PROVE  Line!Next
<1>1. /\ fixture = Empty /\ p \in unseen /\ fixture' = p /\ unseen' = unseen \ {p}
      /\ hasty \/ invited \/ ~(m_hTestEvent \/ light)
      /\ UNCHANGED <<worker, passed, rowed, rows, cycles, m_iTotal, countFile>>
  BY DEF Load, counts, history
<1>2. Candidate' = Candidate
  BY <1>1 DEF worker, Candidate, Open, Where
<1>3. ASSUME ~hasty
      PROVE  Candidate = NoSerial
  <2>1. LightTells /\ ProductKept
    BY <1>3 DEF IInv, CarefulInv
  <2>2. CASE invited
    BY <2>1, <2>2 DEF ProductKept, Candidate
  <2>3. CASE ~light
    BY <2>1, <2>3 DEF LightTells, Candidate, Open, Where
  <2>4. QED
    BY <1>1, <1>3, <2>2, <2>3
<1>4. Line!Put(p)
  BY <1>1, <1>2, <1>3, OperatorKept, Zenon DEF Line!Put, Line!ledger, Line!counts
<1>5. QED
  BY <1>4 DEF Line!Next

\* Taking a product away ends its stay.
LEMMA UnloadTakes ==
  ASSUME hasty' = hasty, build' = build, Unload
  PROVE  Line!Next
<1>1. /\ fixture # Empty /\ fixture' = Empty /\ rowed' = rowed \ {fixture}
      /\ UNCHANGED <<worker, unseen, passed, rows, cycles, m_iTotal, countFile>>
  BY Zenon DEF Unload, counts
<1>2. Candidate' = Candidate
  BY <1>1 DEF worker, Candidate, Open, Where
<1>3. Line!Take
  BY <1>1, <1>2, OperatorKept, Zenon DEF Line!Take, Line!counts
<1>4. QED
  BY <1>3 DEF Line!Next

\* The test thread changes neither the build nor the habits.
LEMMA WorkerKeepsSetting ==
  ASSUME WorkerStep
  PROVE  hasty' = hasty /\ build' = build
BY DEF WorkerStep, Mainread, Top, Dark, Proceed, Hold, NewCycle, BeginCheck,
       ReadBarCode, Scanned, CheckAccessary, CheckCovery, Record, Count, SaveCount,
       CheckStop, Cleared, Elsewhere, setting

\* Every step is a step of the abstract station or leaves it alone.
LEMMA LineStep ==
  ASSUME IInv, [Next]_vars
  PROVE  [Line!Next]_(Line!station)
<1>1. CASE WorkerStep
  <2>1. hasty' = hasty /\ build' = build
    BY <1>1, WorkerKeepsSetting
  <2>2. QED
    BY <1>1, <2>1, RoundSteps, DarkRestarts, BarCodeIdentifies, ChecksApprove,
       RecordRecords, CountsFollow DEF WorkerStep, Mainread
<1>2. CASE Dispatch \/ DialogSleeps
  <2>1. hasty' = hasty /\ build' = build
    BY <1>2 DEF Dispatch, DialogSleeps, StartSignal, Awake, Leave, setting
  <2>2. QED
    BY <1>2, <2>1, InnerSteps DEF DialogSleeps
<1>3. CASE OperatorHandles
  <2>1. hasty' = hasty /\ build' = build
    BY <1>3 DEF OperatorHandles, Load, Unload, setting
  <2>2. QED
    BY <1>3, <2>1, LoadPuts, UnloadTakes DEF OperatorHandles
<1>4. CASE OperatorClicks
  <2>1. CASE Start \/ Stop \/ Measure \/ \E check \in Boxes : ClickBox(check)
    <3>1. UpdateData /\ UNCHANGED worker
      BY <2>1, Zenon DEF Start, Stop, Measure, ClickBox
    <3>2. UNCHANGED <<fixture, unseen, passed, rowed, rows, cycles>>
      BY <2>1, Zenon DEF Start, Stop, Measure, ClickBox, place, history
    <3>3. QED
      BY <3>1, <3>2, HabitKept, UpdateFallsBack
  <2>2. CASE OpenSettings \/ SwitchOutput \/ CloseSettings \/ OkButton
               \/ \E on \in BOOLEAN : LightButton(on)
    <3>1. hasty' = hasty /\ build' = build
      BY <2>2 DEF OpenSettings, SwitchOutput, CloseSettings, OkButton, LightButton, setting
    <3>2. QED
      BY <2>2, <3>1, InnerSteps
  <2>3. QED
    BY <1>4, <2>1, <2>2 DEF OperatorClicks
<1>5. CASE UNCHANGED vars
  <2>1. UNCHANGED <<worker, fixture, unseen, passed, rowed, rows, cycles, m_iTotal, countFile>>
    BY <1>5, Zenon DEF vars, place, history, counts
  <2>2. Candidate' = Candidate
    BY <2>1 DEF worker, Candidate, Open, Where
  <2>3. hasty' = hasty /\ build' = build
    BY <1>5 DEF vars, setting
  <2>4. QED
    BY <2>1, <2>2, <2>3, LineStutter
<1>6. QED
  BY <1>1, <1>2, <1>3, <1>4, <1>5 DEF Next

\* Test thread, dialog and operator implement the abstract station, for any products
\* and any number of stops.
THEOREM Refinement == Spec => ImplementsStation
<1>1. Init => Line!Init
  <2> SUFFICES ASSUME Init PROVE Line!Init
    OBVIOUS
  <2>1. Candidate = NoSerial
    BY DEF Init, Candidate
  <2>2. (~hasty) \in BOOLEAN /\ (build = "Mainread") \in BOOLEAN
    BY Zenon
  <2>3. /\ fixture = Empty /\ unseen = Products /\ passed = [p \in Products |-> {}]
        /\ rowed = {} /\ rows = {} /\ cycles = 0 /\ m_iTotal = 0 /\ countFile = 0
    BY Zenon DEF Init
  <2>4. QED
    BY <2>1, <2>2, <2>3, Zenon DEF Line!Init
<1>2. IInv /\ [Next]_vars => [Line!Next]_(Line!station)
  BY LineStep
<1>3. QED
  BY Invariance, <1>1, <1>2, PTL DEF Spec, ImplementsStation, Line!Spec


-----------------------------------------------------------------------------
(* The promise of the abstract station, from its own steps.                *)

LineTyped ==
  /\ fixture \in Products \cup {Empty}
  /\ Candidate \in Products \cup {NoSerial}
  /\ rows \subseteq Products
  /\ DOMAIN passed = Products
  /\ cycles \in Nat /\ m_iTotal \in Nat /\ countFile \in Nat

\* The build stays, and nobody becomes careful.
LEMMA LineOperator ==
  ASSUME [Line!Next]_(Line!station)
  PROVE  ((~hasty)' => ~hasty) /\ (build = "Mainread")' = (build = "Mainread")
<1>1. CASE Line!FallBack
  BY <1>1, Zenon DEF Line!FallBack
<1>2. CASE UNCHANGED Line!operator
  BY <1>2, Zenon DEF Line!operator
<1>3. Line!FallBack \/ UNCHANGED Line!operator
  BY Zenon DEF Line!Next, Line!station, Line!Put, Line!Take, Line!Identify, Line!Approve,
     Line!Passes, Line!GiveUp, Line!Restart, Line!Record, Line!Count, Line!Save
<1>4. QED
  BY <1>1, <1>2, <1>3

\* What a station's records and totals keep while no record is made.
LEMMA LineKeeps ==
  ASSUME LineTyped, Line!RecordsSound, [Line!Next]_(Line!station),
         rows' = rows, rowed' \subseteq rowed,
         DOMAIN passed' = Products,
         \A p \in Products : passed[p] \subseteq passed'[p],
         fixture' \in Products \cup {Empty}, Candidate' \in Products \cup {NoSerial},
         ~hasty /\ Candidate' # NoSerial => fixture' \in {Empty, Candidate'},
         cycles' = cycles, m_iTotal' \in 0..cycles, countFile' \in 0..cycles
  PROVE  LineTyped' /\ Line!RecordsSound'
<1>0. ((~hasty)' => ~hasty) /\ (build = "Mainread")' = (build = "Mainread")
  BY LineOperator
<1>1. LineTyped'
  BY DEF LineTyped
<1>2. rowed' \subseteq rows'
  BY DEF Line!RecordsSound
<1>3. m_iTotal' <= cycles' /\ countFile' <= cycles'
  BY DEF LineTyped
<1>4. ASSUME ~hasty', NEW p \in rows' PROVE Line!Suffices(passed[p])'
  <2>1. p \in rows /\ passed[p] \subseteq passed'[p]
    BY <1>4 DEF LineTyped
  <2>2. ~hasty
    BY <1>0, <1>4, Zenon
  <2>3. Line!Suffices(passed[p])
    BY <2>1, <2>2, Zenon DEF Line!RecordsSound
  <2>4. QED
    BY <1>0, <2>1, <2>3, Zenon DEF Line!Suffices
<1>5. ASSUME ~hasty', Candidate' # NoSerial PROVE fixture' \in {Empty, Candidate'}
  BY <1>0, <1>5, Zenon
<1>6. QED
  BY <1>1, <1>2, <1>3, <1>4, <1>5, Zenon DEF Line!RecordsSound

\* What passes a check keeps the checks it has passed.
LEMMA PassesAdds ==
  ASSUME LineTyped, NEW check, Line!Passes(check)
  PROVE  /\ fixture' = fixture /\ fixture \in Products
         /\ DOMAIN passed' = Products
         /\ \A p \in Products : passed[p] \subseteq passed'[p]
         /\ rows' = rows /\ rowed' = rowed
         /\ cycles' = cycles /\ m_iTotal' = m_iTotal /\ countFile' = countFile
<1>1. /\ fixture # Empty /\ fixture' = fixture /\ rows' = rows /\ rowed' = rowed
      /\ cycles' = cycles /\ m_iTotal' = m_iTotal /\ countFile' = countFile
      /\ passed' = [passed EXCEPT ![fixture] = @ \cup {check}]
  BY Zenon DEF Line!Passes, Line!ledger, Line!counts
<1>2. QED
  BY <1>1 DEF LineTyped

\* A record is of the candidate, which passed what the build asks for.
LEMMA RecordIsSound ==
  ASSUME LineTyped, Line!RecordsSound, [Line!Next]_(Line!station), Line!Record
  PROVE  LineTyped' /\ Line!RecordsSound'
<1>0. ((~hasty)' => ~hasty) /\ (build = "Mainread")' = (build = "Mainread")
  BY LineOperator
<1>1. PICK row \in SUBSET ({Candidate} \ {NoSerial}) :
        rows' = rows \cup row /\ rowed' = rowed \cup row
  BY Zenon DEF Line!Record
<1>2. /\ cycles' = cycles + 1 /\ Candidate' = NoSerial /\ m_iTotal' = m_iTotal
      /\ countFile' = countFile /\ fixture' = fixture /\ passed' = passed
      /\ ~hasty /\ Candidate # NoSerial => Line!Suffices(passed[Candidate])
  BY Zenon DEF Line!Record, Line!line
<1>3. rowed \subseteq rows /\ m_iTotal <= cycles /\ countFile <= cycles
  BY Zenon DEF Line!RecordsSound
<1>4. LineTyped'
  BY <1>1, <1>2 DEF LineTyped
<1>5. rowed' \subseteq rows'
  BY <1>1, <1>3
<1>6. m_iTotal' <= cycles' /\ countFile' <= cycles'
  BY <1>2, <1>3 DEF LineTyped
<1>7. ASSUME ~hasty', NEW p \in rows' PROVE Line!Suffices(passed[p])'
  <2>1. Line!Suffices(passed[p])
    <3>1. ~hasty
      BY <1>0, <1>7, Zenon
    <3>2. CASE p \in rows
      BY <3>1, <3>2, Zenon DEF Line!RecordsSound
    <3>3. CASE p \notin rows
      <4>1. p = Candidate /\ Candidate # NoSerial
        BY <1>1, <1>7, <3>3
      <4>2. QED
        BY <1>2, <3>1, <4>1
    <3>4. QED
      BY <3>2, <3>3
  <2>2. QED
    BY <1>0, <1>2, <2>1, Zenon DEF Line!Suffices
<1>8. QED
  BY <1>2, <1>4, <1>5, <1>6, <1>7, Zenon DEF Line!RecordsSound

\* Every step of the station keeps its promise.
LEMMA RecordsStep ==
  ASSUME LineTyped, Line!RecordsSound, [Line!Next]_(Line!station)
  PROVE  LineTyped' /\ Line!RecordsSound'
<1>0. /\ cycles \in Nat /\ m_iTotal \in 0..cycles /\ countFile \in 0..cycles
      /\ DOMAIN passed = Products
      /\ fixture \in Products \cup {Empty} /\ Candidate \in Products \cup {NoSerial}
      /\ ~hasty /\ Candidate # NoSerial => fixture \in {Empty, Candidate}
  BY DEF LineTyped, Line!RecordsSound
<1>1. ASSUME NEW p \in Products, Line!Put(p) PROVE LineTyped' /\ Line!RecordsSound'
  <2>1. /\ ~hasty => Candidate = NoSerial
        /\ fixture' = p /\ passed' = passed /\ Candidate' = Candidate /\ rows' = rows
        /\ rowed' = rowed /\ cycles' = cycles /\ m_iTotal' = m_iTotal
        /\ countFile' = countFile
    BY <1>1, Zenon DEF Line!Put, Line!ledger, Line!counts
  <2>2. QED
    BY <1>0, <2>1, LineKeeps
<1>2. CASE Line!Take
  <2>1. /\ fixture' = Empty /\ passed' = passed /\ Candidate' = Candidate /\ rows' = rows
        /\ rowed' \subseteq rowed /\ cycles' = cycles /\ m_iTotal' = m_iTotal
        /\ countFile' = countFile
    BY <1>2, Zenon DEF Line!Take, Line!counts
  <2>2. QED
    BY <1>0, <2>1, LineKeeps
<1>3. CASE Line!Identify
  <2>1. Line!Passes("barcode") /\ Candidate' = fixture
    BY <1>3, Zenon DEF Line!Identify
  <2>2. QED
    BY <1>0, <2>1, PassesAdds, LineKeeps
<1>4. ASSUME NEW check, Line!Approve(check) PROVE LineTyped' /\ Line!RecordsSound'
  <2>1. Line!Passes(check) /\ Candidate' = Candidate
    BY <1>4, Zenon DEF Line!Approve
  <2>2. QED
    BY <1>0, <2>1, PassesAdds, LineKeeps
<1>5. CASE Line!GiveUp \/ Line!Restart
  <2>1. /\ Candidate' = NoSerial /\ rowed' \in {rowed, {}}
        /\ fixture' = fixture /\ passed' = passed /\ rows' = rows /\ cycles' = cycles
        /\ m_iTotal' = m_iTotal /\ countFile' = countFile
    BY <1>5 DEF Line!GiveUp, Line!Restart, Line!line, Line!ledger, Line!counts
  <2>2. QED
    BY <1>0, <2>1, LineKeeps
<1>6. CASE Line!Record
  BY <1>6, RecordIsSound
<1>7. CASE Line!Count \/ Line!FallBack \/ Line!Save \/ UNCHANGED Line!station
  <2>1. /\ fixture' = fixture /\ passed' = passed /\ Candidate' = Candidate
        /\ rows' = rows /\ rowed' = rowed /\ cycles' = cycles
    BY <1>7, Zenon DEF Line!Count, Line!FallBack, Line!Save, Line!line, Line!ledger,
       Line!station, Line!counts
  <2>2. \/ m_iTotal < cycles /\ m_iTotal' = m_iTotal + 1 /\ countFile' = countFile
        \/ m_iTotal' \in 0..m_iTotal /\ countFile' = countFile
        \/ m_iTotal' = m_iTotal /\ countFile' \in {m_iTotal, countFile}
    BY <1>7, Zenon DEF Line!Count, Line!FallBack, Line!Save, Line!station, Line!counts
  <2>3. m_iTotal' \in 0..cycles /\ countFile' \in 0..cycles
    BY <1>0, <2>2
  <2>4. QED
    BY <1>0, <2>1, <2>3, LineKeeps
<1>8. QED
  BY <1>1, <1>2, <1>3, <1>4, <1>5, <1>6, <1>7, Zenon DEF Line!Next

\* The abstract station keeps its promise: rows of products that passed, made while
\* nothing else stood in their place, and totals that never run ahead.
THEOREM StationIsSound == Line!Spec => []Line!RecordsSound
<1>1. Line!Init => LineTyped /\ Line!RecordsSound
  <2> SUFFICES ASSUME Line!Init PROVE LineTyped /\ Line!RecordsSound
    OBVIOUS
  <2>1. /\ fixture = Empty /\ Candidate = NoSerial /\ rows = {} /\ rowed = {}
        /\ passed = [p \in Products |-> {}]
        /\ cycles = 0 /\ m_iTotal = 0 /\ countFile = 0
    BY Zenon DEF Line!Init
  <2>2. LineTyped
    BY <2>1 DEF LineTyped
  <2>3. m_iTotal <= cycles /\ countFile <= cycles /\ rowed \subseteq rows
    BY <2>1
  <2>4. QED
    BY <2>1, <2>2, <2>3, Zenon DEF Line!RecordsSound
<1>2. /\ LineTyped /\ Line!RecordsSound
      /\ [Line!Next]_(Line!station)
      => LineTyped' /\ Line!RecordsSound'
  BY RecordsStep
<1>3. QED
  BY <1>1, <1>2, PTL DEF Line!Spec

=============================================================================
