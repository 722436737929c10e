----------------------------- MODULE Inspection -----------------------------
(***************************************************************************)
(* The inspection station of CChecker5678Dlg (Checker5678Dlg.cpp): the     *)
(* test thread, which loops over bar code, accessories and protective film *)
(* and records a product that passed; the dialog, whose buttons start,     *)
(* stop, configure and close the station; and the fixture, on which the    *)
(* operator puts one product after the other.                              *)
(*                                                                         *)
(* The threads share the manual-reset event m_hTestEvent, m_bexit, the     *)
(* outputs of the I/O card and the members behind the dialog's controls.   *)
(* The test thread reports with SendMessage, which returns only when the   *)
(* dialog's thread dispatches the message; that thread dispatches nothing  *)
(* while a handler sleeps.  A write to an output may fail, and no caller   *)
(* looks at that.                                                          *)
(*                                                                         *)
(* Images are left out: a check is a choice among the outcomes the fixture *)
(* allows.  The list-box lines other than the prompt for a product, the    *)
(* contours and the m_bCheck...Once flags, which nothing reads, are too.   *)
(***************************************************************************)
EXTENDS Integers, Sequences

CONSTANTS
  Products,      \* the products the operator has to inspect
  Empty,         \* nothing stands on the fixture
  NoSerial,      \* m_testres.nSerialNumber is the empty string
  Builds,        \* what the test thread may have been built to run
  Habits,        \* does the operator act without waiting for the station?
  Boxes,         \* the "enable" check boxes the operator may click
  MaxStops       \* bound: how often the operator presses Stop

ASSUME InspectionAssumption ==
  /\ Empty \notin Products
  /\ NoSerial \notin Products
  /\ Builds \subseteq {"MainProcess", "Mainread", "Mainread2"}
  /\ Habits \subseteq BOOLEAN
  /\ Boxes \subseteq {"barcode", "acc", "film"}
  /\ MaxStops \in Nat

VARIABLES
  build,         \* which loop this build runs
  hasty,         \* whether its operator acts without waiting for the station: from
                 \* the beginning, or since a Start left the light off
  wpc,           \* where the test thread is
  state,         \* its variable: -1 hold, 0 bar code, 1 accessories, 2 film
  serial,        \* m_testres.nSerialNumber
  results,       \* how many results m_testres.vTestResult holds
  outbox,        \* messages it still has to send before it goes on
  after,         \* where it goes on
  upc,           \* where the dialog's thread is
  m_hTestEvent,  \* signalled?  The caption of the Start button says the same
  m_bexit,
  toCheck,       \* the check boxes that are ticked
  flags,         \* m_bCheckBarcode, m_bCheckAccessary, m_bCheckBook, ...
  m_iTotal,
  shown,         \* the text of the edit control bound to m_iTotal
  countFile,     \* TOTAL in Task\count.ini
  light, lamp,   \* outputs OUT_LIGHT_CAM and OUT_LIGHT_COVERY_OK; the lamp is off
                 \* if its last write was that and went through, else perhaps on
  fixture,       \* the product on the fixture, or Empty
  unseen,        \* products not put on the fixture yet
  stops,         \* how often Stop was pressed
  rows,          \* serial numbers that have a row in the csv file
  passed,        \* history: the checks each product has passed
  rowed,         \* history: saved in this stay of the product, Dark apart
  cycles,        \* history: inspections that ended well
  stale,         \* history: is the cycle one that Stop should have abandoned?
  invited        \* history: the station asked for a product after the last one

worker  == <<wpc, state, serial, results, outbox, after>>
dialog  == <<upc, toCheck, flags>>
signals == <<m_hTestEvent, m_bexit>>
counts  == <<m_iTotal, shown, countFile>>
outputs == <<light, lamp>>
place   == <<fixture, unseen, passed, invited>>
history == <<rows, rowed, cycles, stale>>
setting == <<build, hasty>>
vars    == <<worker, dialog, signals, counts, outputs, place, history, stops,
             setting>>

\* The build of this commit runs MainProcess, and its Start button measures one
\* image and returns (line 492); with the loops the button starts and stops.
StartToggles == build # "MainProcess"

Checks   == {"barcode", "acc", "book", "dry", "film"}
AllClear == [c \in Checks |-> FALSE]
Levels   == {"off", "perhaps"}
Messages == (Checks \X BOOLEAN) \cup {<<"saved", TRUE>>}
Grabbing == {"scan", "acc", "film", "stop"}      \* the thread uses the camera
WorkerPoints == {"top", "dark", "wait", "step", "send", "scanned", "record",
                 "count", "saveCount", "cleared", "done"} \cup Grabbing

TypeOK ==
  /\ build \in Builds /\ hasty \in BOOLEAN
  /\ wpc \in WorkerPoints
  /\ state \in -1..2
  /\ serial \in Products \cup {NoSerial}
  /\ results \in {0, 2}
  /\ outbox \in Seq(Messages)
  /\ after \in WorkerPoints
  /\ upc \in {"idle", "starting", "sleep", "settings", "leaving", "closed"}
  /\ m_hTestEvent \in BOOLEAN /\ m_bexit \in BOOLEAN
  /\ toCheck \subseteq {"barcode", "acc", "film"}
  /\ flags \in [Checks -> BOOLEAN]
  /\ m_iTotal \in Nat /\ shown \in Nat /\ countFile \in Nat
  /\ light \in BOOLEAN /\ lamp \in Levels
  /\ fixture \in Products \cup {Empty}
  /\ unseen \subseteq Products
  /\ stops \in 0..MaxStops
  /\ rows \subseteq Products
  /\ passed \in [Products -> SUBSET {"barcode", "acc", "film"}]
  /\ rowed \subseteq Products
  /\ invited \in BOOLEAN
  /\ cycles \in Nat
  /\ stale \in {"no", "stopped", "resumed"}

\* OnInitDialog has created the thread and reset the event, and the thread has
\* timed out once before anyone can press a button.
Init ==
  /\ build \in Builds /\ hasty \in Habits
  /\ wpc = "wait" /\ state = 0 /\ serial = NoSerial /\ results = 0
  /\ outbox = <<>> /\ after = "top"
  /\ upc = "idle" /\ toCheck = {"barcode", "acc", "film"} /\ flags = AllClear
  /\ m_hTestEvent = FALSE /\ m_bexit = FALSE
  /\ m_iTotal = 0 /\ shown = 0 /\ countFile = 0
  /\ light = FALSE /\ lamp = "off"
  /\ fixture = Empty /\ unseen = Products /\ invited = FALSE
  /\ passed = [p \in Products |-> {}]
  /\ rows = {} /\ rowed = {} /\ cycles = 0 /\ stale = "no"
  /\ stops = 0

-----------------------------------------------------------------------------
(* The outputs: MyWriteBit returns -1 when the card refuses or is not      *)
(* there, and no caller of the station looks.                              *)

\* What an output may be after it was written.
MyWriteBit(output, level) == {output, level}

-----------------------------------------------------------------------------
(* The test thread.  Its members are gone once the dialog is closed, so    *)
(* nothing is said of it from then on.                                     *)

At(p) == wpc = p /\ upc # "closed"

\* Go to point p.
Goto(p) == wpc' = p /\ UNCHANGED <<outbox, after>>

\* Send the messages in turn, then go to point p.
Send(msgs, p) == wpc' = "send" /\ outbox' = msgs /\ after' = p

\* What only the test thread's local steps leave alone.
Elsewhere == UNCHANGED <<dialog, signals, counts, outputs, place, history,
                         stops, setting>>

\* Mutant: a wait that times out does not lead to the endless one.
MutTopRunsOn ==
  /\ At("top")
  /\ Goto(IF m_hTestEvent THEN "wait" ELSE "step")
  /\ UNCHANGED <<state, serial, results>> /\ Elsewhere

\* WaitForSingleObject(m_hTestEvent, 20), then with INFINITE.
Top ==
  /\ At("top")
  /\ Goto(IF m_hTestEvent THEN "wait" ELSE "dark")
  /\ UNCHANGED <<state, serial, results>> /\ Elsewhere

\* Mutant: the light goes out but the cycle is kept.
MutDarkKeepsState ==
  /\ At("dark")
  /\ light' \in MyWriteBit(light, FALSE)
  /\ Goto("wait")
  /\ stale' = "no" /\ rowed' = {}
  /\ UNCHANGED <<state, serial, results, dialog, signals, counts, lamp, place,
                 rows, cycles, stops, setting>>

\* The wait timed out: the light goes out and the cycle is abandoned.
Dark ==
  /\ At("dark")
  /\ light' \in MyWriteBit(light, FALSE)
  /\ state' = 0
  /\ Goto("wait")
  /\ stale' = "no" /\ rowed' = {}
  /\ UNCHANGED <<serial, results, dialog, signals, counts, lamp, place, rows,
                 cycles, stops, setting>>

\* Mutant: the thread does not look at m_bexit.
MutProceedNoExit ==
  /\ At("wait") /\ m_hTestEvent
  /\ Goto("step")
  /\ UNCHANGED <<state, serial, results>> /\ Elsewhere

\* The event is signalled; m_bexit ends the thread.  MainProcess, which this
\* build runs, has nothing else to do.
Proceed ==
  /\ At("wait") /\ m_hTestEvent
  /\ Goto(CASE m_bexit -> "done"
            [] ~m_bexit /\ build = "MainProcess" -> "top"
            [] OTHER -> "step")
  /\ UNCHANGED <<state, serial, results>> /\ Elsewhere

\* Mutant: the hold state falls through to the default of the switch.
MutHoldRestarts ==
  /\ At("step") /\ state = -1
  /\ state' = 0
  /\ Goto("stop")
  /\ UNCHANGED <<serial, results>> /\ Elsewhere

\* state -1: the product stays until the empty fixture is seen.
Hold ==
  /\ At("step") /\ state = -1
  /\ Goto("stop")
  /\ UNCHANGED <<state, serial, results>> /\ Elsewhere

\* state 0: a new cycle, with an empty record.
NewCycle ==
  /\ At("step") /\ state = 0
  /\ serial' = NoSerial /\ results' = 0
  /\ IF "barcode" \in toCheck
       THEN state' = 0 /\ Goto("scan")
       ELSE state' = 1 /\ Goto("stop")
  /\ stale' = "no"
  /\ UNCHANGED <<dialog, signals, counts, outputs, place, rows, rowed,
                 cycles, stops, setting>>

\* states 1 and 2: the check, or on to the next state when it is disabled.
BeginCheck ==
  /\ At("step")
  /\ \/ state = 1 /\ "acc" \in toCheck /\ state' = 1 /\ Goto("acc")
     \/ state = 1 /\ "acc" \notin toCheck /\ state' = 2 /\ Goto("stop")
     \/ state = 2 /\ "film" \in toCheck /\ state' = 2 /\ Goto("film")
     \/ state = 2 /\ "film" \notin toCheck /\ state' = 0 /\ Goto("stop")
  /\ UNCHANGED <<serial, results>> /\ Elsewhere

\* Only a product on the fixture can pass a check.
Outcomes == IF fixture = Empty THEN {FALSE} ELSE BOOLEAN

Passes(check, ok) ==
  passed' = IF ok THEN [passed EXCEPT ![fixture] = @ \cup {check}] ELSE passed

\* A failure to grab the image and an unreadable code are told apart nowhere.
ReadBarCode ==
  /\ At("scan")
  /\ \E ok \in Outcomes :
       /\ serial' = IF ok THEN fixture ELSE NoSerial
       /\ Send(<< <<"barcode", ok>> >>, IF ok THEN "scanned" ELSE "stop")
       /\ Passes("barcode", ok)
  /\ UNCHANGED <<state, results, dialog, signals, counts, outputs, fixture,
                 unseen, invited, history, stops, setting>>

Scanned ==
  /\ At("scanned")
  /\ state' = 1
  /\ Goto("stop")
  /\ UNCHANGED <<serial, results, dialog, signals, counts, outputs, place,
                 history, stops, setting>>

\* Mutant: an inspection that found a part missing is counted as well.
MutAccessaryCountsAll ==
  /\ At("acc")
  /\ \E book \in Outcomes, dry \in Outcomes :
       LET ok == book /\ dry IN
       /\ Send(<< <<"book", book>>, <<"dry", dry>>, <<"acc", ok>> >>,
               IF ok THEN "record" ELSE "count")
       /\ Passes("acc", ok)
  /\ UNCHANGED <<state, serial, results, dialog, signals, counts, outputs,
                 fixture, unseen, invited, history, stops, setting>>

\* Without an image only the summary is sent.  With one, each part is
\* reported; Mainread records the product, Mainread2 goes on to the film.
CheckAccessary ==
  /\ At("acc")
  /\ \/ /\ Send(<< <<"acc", FALSE>> >>, "stop")
        /\ UNCHANGED <<state, passed>>
     \/ \E book \in Outcomes, dry \in Outcomes :
          LET ok == book /\ dry IN
          /\ Send(<< <<"book", book>>, <<"dry", dry>>, <<"acc", ok>> >>,
                  IF ok /\ build = "Mainread" THEN "record" ELSE "stop")
          /\ state' = IF ok /\ build = "Mainread2" THEN 2 ELSE state
          /\ Passes("acc", ok)
  /\ UNCHANGED <<serial, results, dialog, signals, counts, outputs, fixture,
                 unseen, invited, history, stops, setting>>

CheckCovery ==
  /\ At("film")
  /\ \E ok \in Outcomes :
       /\ state' = IF ok THEN -1 ELSE 2
       /\ Send(<< <<"film", ok>> >>, IF ok THEN "record" ELSE "stop")
       /\ Passes("film", ok)
  /\ UNCHANGED <<serial, results, dialog, signals, counts, outputs, fixture,
                 unseen, invited, history, stops, setting>>

\* SaveOnlineData writes nothing without a serial number, and nothing when the
\* file cannot be opened; the caller does not look at what it returns.
Record ==
  /\ At("record")
  /\ results' = IF state = 1 THEN results + 2 ELSE results
  /\ state' = -1
  /\ \E opens \in BOOLEAN :
       LET row == IF opens THEN {serial} \ {NoSerial} ELSE {}
       IN  rows' = rows \cup row /\ rowed' = rowed \cup row
  /\ cycles' = cycles + 1
  /\ Send(<< <<"saved", TRUE>> >>, "count")
  /\ UNCHANGED <<serial, dialog, signals, counts, outputs, place, stale,
                 stops, setting>>

Count ==
  /\ At("count")
  /\ m_iTotal' = m_iTotal + 1
  /\ Goto("saveCount")
  /\ UNCHANGED <<state, serial, results, dialog, signals, shown, countFile,
                 outputs, place, history, stops, setting>>

SaveCount ==
  /\ At("saveCount")
  /\ countFile' = m_iTotal
  /\ Goto("stop")
  /\ UNCHANGED <<state, serial, results, dialog, signals, m_iTotal, shown,
                 outputs, place, history, stops, setting>>

\* The mark on the fixture is seen only when nothing stands on it.
CheckStop ==
  /\ At("stop")
  /\ \/ /\ fixture = Empty
        /\ state' = 0
        /\ Send(<< <<"barcode", FALSE>> >>, "cleared")
     \/ /\ Goto("top")
        /\ UNCHANGED state
  /\ UNCHANGED <<serial, results>> /\ Elsewhere

\* The record and the list box are cleared; the station waits for a product.
Cleared ==
  /\ At("cleared")
  /\ serial' = NoSerial /\ results' = 0
  /\ invited' = (fixture = Empty)
  /\ Goto("top")
  /\ UNCHANGED <<state, dialog, signals, counts, outputs, fixture, unseen,
                 passed, history, stops, setting>>

-----------------------------------------------------------------------------
(* The dialog's thread.                                                    *)

\* What ShowResultBarcode, ...Access, ...Book, ...Dry and ...Covery do to the
\* flags: a bar code not read clears everything, a missing part the film.
Shown(check, ok) ==
  CASE check = "barcode" /\ ~ok -> AllClear
    [] check \in {"acc", "book", "dry"} /\ ~ok ->
         [flags EXCEPT ![check] = FALSE, !["film"] = FALSE]
    [] OTHER -> [flags EXCEPT ![check] = ok]

\* What they may make of the lamp.
LampAfter(check, ok) ==
  CASE check = "barcode" /\ ~ok -> Levels
    [] check = "film" /\ ok -> {"perhaps"}
    [] OTHER -> {lamp}

\* The dialog, or a modal dialog it opened, dispatches the message the test
\* thread is waiting on.  Every ShowResult handler ends with UpdateData(FALSE).
Dispatch ==
  /\ wpc = "send"
  /\ upc \in {"idle", "settings"}
  /\ LET check == Head(outbox)[1]
         ok    == Head(outbox)[2]
     IN  IF check = "saved"
           THEN UNCHANGED <<flags, lamp, shown>>
           ELSE /\ flags' = Shown(check, ok)
                /\ lamp' \in LampAfter(check, ok)
                /\ shown' = m_iTotal
  /\ outbox' = Tail(outbox)
  /\ wpc' = IF outbox' = <<>> THEN after ELSE "send"
  /\ UNCHANGED <<state, serial, results, after, upc, toCheck, signals,
                 m_iTotal,
                 countFile, light, place, history, stops, setting>>

\* After Stop a careful operator waits for the light to go out, and leaves the
\* light buttons alone.
Careful == hasty \/ m_hTestEvent \/ ~light

\* UpdateData(TRUE): the members take the values of the controls.
UpdateData == m_iTotal' = shown /\ UNCHANGED <<shown, countFile>>

\* The Start button when its caption says Start.  An operator whose light does not
\* come on has nothing to wait for when he has pressed Stop: from then on he is
\* like one who never waits.
Start ==
  /\ upc = "idle" /\ StartToggles /\ ~m_hTestEvent /\ Careful
  /\ UpdateData
  /\ flags' = AllClear
  /\ light' \in MyWriteBit(light, TRUE)
  /\ hasty' = (hasty \/ ~light')
  /\ upc' = "starting"
  /\ UNCHANGED <<worker, toCheck, signals, lamp, place, history, stops, build>>

StartSignal ==
  /\ upc = "starting"
  /\ m_hTestEvent' = TRUE
  /\ upc' = "sleep"
  /\ stale' = IF stale = "no" THEN "no" ELSE "resumed"
  /\ UNCHANGED <<worker, toCheck, flags, m_bexit, counts, outputs, place, rows,
                 rowed, cycles, stops, setting>>

\* The Start button when its caption says Stop.
Stop ==
  /\ upc = "idle" /\ StartToggles /\ m_hTestEvent
  /\ stops < MaxStops /\ stops' = stops + 1
  /\ UpdateData
  /\ m_hTestEvent' = FALSE
  /\ upc' = "sleep"
  /\ stale' = "stopped"
  /\ UNCHANGED <<worker, toCheck, flags, m_bexit, outputs, place, rows, rowed,
                 cycles, setting>>

\* Sleep(500) lasts until a test thread that is not to go round again grabs an
\* image, waits for the dialog, or rests: its other steps take no time.
Settled ==
  \/ wpc \in Grabbing \cup {"send", "done"}
  \/ wpc = "wait" /\ ~m_hTestEvent

\* Sleep(500) is over.
Awake ==
  /\ upc = "sleep" /\ (m_hTestEvent \/ Settled)
  /\ upc' = "idle"
  /\ UNCHANGED <<worker, toCheck, flags, signals, counts, outputs, place,
                 history, stops, setting>>

\* This build: the Start button measures one image and returns.
Measure ==
  /\ upc = "idle" /\ ~StartToggles
  /\ UpdateData
  /\ UNCHANGED <<worker, dialog, signals, outputs, place, history, stops,
                 setting>>

ClickBox(check) ==
  /\ upc = "idle"
  /\ toCheck' = IF check \in toCheck THEN toCheck \ {check}
                                     ELSE toCheck \cup {check}
  /\ UpdateData
  /\ UNCHANGED <<worker, upc, flags, signals, outputs, place, history,
                 stops, setting>>

\* Mutant: the settings open on a running station.
MutSettingsAnytime ==
  /\ upc = "idle" /\ Careful
  /\ light' \in MyWriteBit(light, TRUE)
  /\ upc' = "settings"
  /\ UNCHANGED <<worker, toCheck, flags, signals, counts, lamp, place,
                 history, stops, setting>>

OpenSettings ==
  /\ upc = "idle" /\ ~m_hTestEvent /\ Careful
  /\ light' \in MyWriteBit(light, TRUE)
  /\ upc' = "settings"
  /\ UNCHANGED <<worker, toCheck, flags, signals, counts, lamp, place,
                 history, stops, setting>>

\* The buttons of the settings dialog that switch the light and any output.
SwitchOutput ==
  /\ upc = "settings"
  /\ light' \in BOOLEAN /\ lamp' \in Levels
  /\ UNCHANGED <<worker, dialog, signals, counts, place, history,
                 stops, setting>>

CloseSettings ==
  /\ upc = "settings"
  /\ light' \in MyWriteBit(light, FALSE)
  /\ upc' = "idle"
  /\ UNCHANGED <<worker, toCheck, flags, signals, counts, lamp, place,
                 history, stops, setting>>

LightButton(on) ==
  /\ upc = "idle" /\ ~m_hTestEvent /\ hasty
  /\ light' \in MyWriteBit(light, on)
  /\ UNCHANGED <<worker, dialog, signals, counts, lamp, place, history,
                 stops, setting>>

\* Mutant: the thread that waits for the event is not woken up.
MutOkNoSignal ==
  /\ upc = "idle" /\ ~m_hTestEvent /\ Careful
  /\ m_bexit' = TRUE
  /\ upc' = "leaving"
  /\ UNCHANGED <<worker, toCheck, flags, m_hTestEvent, counts, outputs, place,
                 history, stops, setting>>

\* The exit button; a started station refuses it.
OkButton ==
  /\ upc = "idle" /\ ~m_hTestEvent /\ Careful
  /\ m_bexit' = TRUE
  /\ m_hTestEvent' = TRUE
  /\ upc' = "leaving"
  /\ UNCHANGED <<worker, toCheck, flags, counts, outputs, place, history,
                 stops, setting>>

\* Sleep(500) is over: InitIO switches every output off and the destructor
\* frees the camera.
Leave ==
  /\ upc = "leaving" /\ Settled
  /\ light' \in MyWriteBit(light, FALSE) /\ lamp' \in Levels
  /\ upc' = "closed"
  /\ UNCHANGED <<worker, toCheck, flags, signals, counts, place, history,
                 stops, setting>>

-----------------------------------------------------------------------------
(* The operator's hands.                                                   *)

\* A careful operator fills the fixture when the station, having seen it
\* empty, asks for a product, or when it is stopped and its light is out.
Load(p) ==
  /\ upc # "closed" /\ fixture = Empty /\ p \in unseen
  /\ hasty \/ invited \/ ~(m_hTestEvent \/ light)
  /\ fixture' = p /\ unseen' = unseen \ {p}
  /\ invited' = FALSE
  /\ UNCHANGED <<worker, dialog, signals, counts, outputs, history, passed,
                 stops, setting>>

Unload ==
  /\ upc # "closed" /\ fixture # Empty
  /\ fixture' = Empty
  /\ rowed' = rowed \ {fixture}
  /\ UNCHANGED <<worker, dialog, signals, counts, outputs, unseen, invited,
                 passed, rows, cycles, stale, stops, setting>>

-----------------------------------------------------------------------------
Mainread ==
  \/ Hold \/ NewCycle \/ BeginCheck
  \/ ReadBarCode \/ Scanned \/ CheckAccessary \/ CheckCovery
  \/ Record \/ Count \/ SaveCount \/ CheckStop \/ Cleared

WorkerStep == Top \/ Dark \/ Proceed \/ Mainread

DialogSleeps == StartSignal \/ Awake \/ Leave

OperatorClicks ==
  \/ Start \/ Stop \/ Measure
  \/ \E check \in Boxes : ClickBox(check)
  \/ OpenSettings \/ SwitchOutput \/ CloseSettings
  \/ \E on \in BOOLEAN : LightButton(on)
  \/ OkButton

OperatorHandles == Unload \/ \E p \in Products : Load(p)

Next ==
  WorkerStep \/ Dispatch \/ DialogSleeps \/ OperatorClicks \/ OperatorHandles

Spec == Init /\ [][Next]_vars

\* The scheduler runs the thread, the dialog pumps its messages and its sleeps
\* end.  The operator is owed nothing.
FairSpec ==
  /\ Spec
  /\ WF_vars(WorkerStep) /\ WF_vars(Dispatch) /\ WF_vars(DialogSleeps)

-----------------------------------------------------------------------------
(* Properties.  Those with ~hasty hold of the operator who waits for the   *)
(* station, as long as the light comes on for him at Start; the others     *)
(* hold whatever the operator does and the card answers.                   *)

\* A product with a row in the csv file has itself passed the checks: none is
\* recorded on the parts of another one that took its place, however cycles,
\* Stop, Start and the operator's hands fall together.
RowTruth ==
  ~hasty => \A p \in rows :
              /\ "barcode" \in passed[p]
              /\ \/ "film" \in passed[p]
                 \/ build = "Mainread" /\ "acc" \in passed[p]

\* While a product stays on the fixture of a station that does not abandon the
\* cycle, it is recorded once: the hold state outlasts its stay.
OneRowPerStay == wpc = "record" /\ serial # NoSerial => serial \notin rowed

\* When a product is recorded, the dialog still shows the results it is recorded
\* on, and the lamp does unless the card failed it: no handler has cleared them
\* since they were reported.
ShownAsRecorded ==
  wpc = "record" /\ ~hasty =>
    /\ serial # NoSerial => flags["barcode"]
    /\ \/ flags["film"] /\ lamp # "off"
       \/ build = "Mainread" /\ flags["acc"] /\ flags["book"] /\ flags["dry"]

\* Neither the total nor the count file runs ahead of the inspections that
\* ended well, whatever the dialog writes back into m_iTotal meanwhile.
TotalNeverOvercounts == m_iTotal <= cycles /\ countFile <= cycles

\* A light that came on at Start stays on while the station runs: neither the
\* test thread, late with an earlier Stop, nor a handler switches it off between
\* the thread and its images.
LightWhileRunning == m_hTestEvent /\ ~m_bexit /\ ~hasty => light

\* While the settings dialog rewrites the parameters, the test thread is not
\* in a cycle that reads them.
SettingsAlone ==
  upc = "settings" /\ ~hasty => wpc \in {"top", "dark", "wait", "done"}

\* The dialog frees the camera only when the test thread has ended; the thread
\* of this build, which uses no camera, ends in time for any operator.
Timely == ~hasty \/ build = "MainProcess"
ClosedAfterWorker == upc = "closed" /\ Timely => wpc = "done"

\* Where the test thread goes on, its messages apart.
Where == IF wpc = "send" THEN after ELSE wpc

\* A cycle that may still end in a record.
Open == state \in {1, 2} \/ Where \in {"scanned", "record"}

\* The product it would be a record of.
Candidate == IF Open THEN serial ELSE NoSerial

Line == INSTANCE Station WITH
  careful   <- ~hasty,
  short     <- build = "Mainread",
  candidate <- Candidate,
  Nobody    <- NoSerial,
  done      <- rowed,
  inspected <- cycles,
  total     <- m_iTotal,
  saved     <- countFile

\* Test thread, dialog and operator together are a station (Station): whatever the
\* order of their steps, a product is recorded once in a stay and, with a careful
\* operator, on what it passed itself, nothing having taken its place since its bar
\* code was read; and the total follows the inspections.
ImplementsStation == Line!Spec

\* Stop abandons the cycle: nothing begun before Stop is recorded after the
\* next Start.
StopEndsCycle == ~(wpc = "record" /\ stale = "resumed")

\* After Stop the test thread comes to rest, unless it is started again.
StopLeadsToRest == ~m_hTestEvent ~> (wpc = "wait" \/ m_hTestEvent)

\* Once the exit button is accepted the test thread ends and the dialog closes.
ExitEndsWorker == m_bexit /\ Timely ~> (wpc = "done" /\ upc = "closed")
=============================================================================
