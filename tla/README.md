# Checker5678: a verification project in TLA+

Checker5678 (`src/Checker5678/`) is a Windows MFC program that runs an optical
inspection and measuring station: a dialog, a camera, a digital I/O card, a
scale on a serial port, image checks written with HALCON, ini files for their
parameters and csv/SQL records of what was inspected.  This directory holds TLA+
models of the parts of it in which order, failure and concurrency matter, the
TLC runs that check them on small instances and the TLAPS proofs that carry the
most important results to every instance.

`PROJECT.json` lists the same facts for tools: components, runs, mutants, the map
from definitions to source lines, findings, hazards and theorems.

Contents: 1 the system · 2 the modules · 3 the runs · 4 what the runs found · 5
what is assumed · 6 the proofs · 7 what is known not to hold · 8 what is not
modelled · 9 the plan.

To check everything: `tlc -config <run>.cfg <module>` for every run of section 3
and `tlapm <module>` for every module whose name ends in `Proofs`.


## 1. The system

Line numbers are those of the files under `src/Checker5678/`; `Dlg` is
`Checker5678Dlg.cpp`, `Img` is `ImProcChecker.cpp`, `Cam` is `myCameraClass.cpp`.

| Component | State it keeps | Operations | Correct when |
|---|---|---|---|
| Serial port, `SerialPort.cpp` | handle, alive flag, three events in the wait array, a critical section, a write buffer, a thread | `InitPort`, `StartMonitoring`, `Suspend/ResumeMonitoring`, `WriteToPort`, `ClosePort`, the destructor; `CommThread` | one thread at a time, no stale handle, event, buffer or lock; calls return; bytes keep their order and are not lost |
| Test thread, `Mainread`, `Mainread2`, `MainProcess` (Dlg 532-899) | a state variable, the record being built | bar code, accessories, film, record, count, hold | what is recorded was really checked, once; Stop and exit take effect |
| Dialog (Dlg) | test event, exit flag, check boxes, result flags, total and its control, output lamps | Start/Stop, settings, light, measuring, exit; message handlers | what is shown is what was recorded; nothing is freed under the thread |
| Camera, `myCameraClass.cpp`, `CameraClass/MyCamera.cpp` | SDK handle, object, three flags, frame buffer, shared image | open, start, grab, stop, close, destroy | flags tell the truth, everything is released, a live measurement is live |
| Checker parameters (`LoadPara`, `SavePara`, `SetParDlg.cpp`) | parameters and areas in memory, regions, ini files | frame an area, edit, save, load, restart | what is measured with, what is shown and what a restart loads agree |
| Image pipeline (Img) | `ho_Image`, shared by all checkers; the driver's buffer; contours found | grab, convert, display, clone | one buffer; an image is not overwritten while it is read, nor taken for another; contours belong to the product they are drawn on |
| Image algorithms (Img 386-1015, 1572-1936) | result, error code, contour of the last call | shape, blob, gray, bar code, circle, hole | every exit leaves a result that cannot be taken for an older one |
| Suction pad and weight threads (Dlg 901-988) | one-shot flag, output | poll inputs, switch the pad under time limits | one pull per product; the pad is on for at most the set time and off after exit |
| Digital I/O (Dlg 1961-2075) | handle of the card | one bit read or written under a lock | a failed access is no level |
| Scale reading (Dlg 1614-1731) | weight, OK/NG lamps | take the weight from a block of text, judge it, switch two lamps | the lamps tell the verdict |
| System parameters (Dlg 1145-1225) | settings in memory and in `system.ini` | load or create, save key by key | a restart gives the settings back |
| Records (Dlg 1259-1318) | a csv file a month, `count.ini` | title, row, total | nothing recorded is lost; the total covers the rows, but for what a click writes back |
| SQL record (`AdoDatabase.cpp`, Dlg 1320-1379) | a connection per record | connect, insert, close | - (no caller) |
| Start, login (`Checker5678.cpp`) | administrator level | load a library, log in | - |

**How they interact.**  `OnInitDialog` (Dlg 243-355) loads the system file, opens
the camera, gives it to all checkers (a static member), loads the parameters of
the USB and circle checkers and starts the test thread.  The test thread and the
dialog's thread share members, the event `m_hTestEvent` and the camera; the
test thread reports by `SendMessage`, which returns only when the dialog's
thread dispatches it, so each can hold up the other.  The serial port's thread
talks to its owner the same way, and its owner waits for it in a loop that
dispatches messages.  The I/O card and the camera have a lock each; the serial
port has a critical section that its `WriteToPort` does not take.

**What is hard.**  Shutting down while others work (close while the thread is in
a message to the closer, exit while an image is being grabbed, outputs switched off
under a thread that switches them on); re-opening with
leftovers of the session before; one OVERLAPPED and one event for three I/O
operations; a Stop that is a level, looked at once a round; one image and one
driver's buffer for two threads; failures that are returned as success, or taken
for a signal that is gone; a time-out tested on a time computed a round ago; a
program killed between two writes to a file; a parameter whose owner is the file
it was loaded from.
`PROJECT.json` lists forty such places under "hazards", each at its line with
the properties that cover it, or the reason why none does.

**What this commit really runs.**  Much of the program is dormant in this commit.
`MainProcess` is started (Dlg 55-60), `Mainread` and `Mainread2` are not, and
`MainProcess` grabs no image.  The
serial port is constructed, closed and destroyed but never opened.  `LoadCount`,
`InitMotion`, `Weight`, `Sucker` and `SaveOnlineDataSQL` have no caller (so
`m_handle` is NULL and every access to the card fails), and the
buttons for settings and lights are not visible.  The visible buttons are exit,
the two measuring buttons, grab, load image, save image, the two framing buttons
and the two parameter dialogs.  Dormant code that is complete is modelled, under
the contract its own comments and callers show; what the commit runs is a case
of the model (`build = "MainProcess"` in Inspection).


## 2. The modules

| Module | Models | Composition |
|---|---|---|
| `PortSession` | abstract: a port is usable or not and has at most one monitor, unless its user overtakes one that has not come to life | refined by SerialPort |
| `SerialPort` | life cycle of `CSerialPort`: every method and every blocking point of `CommThread` | `INSTANCE PortSession` (`Session`) |
| `MCSerialPort` | instance for TLC | extends SerialPort |
| `SerialPortProofs` | proofs | extends SerialPort |
| `PortChannel` | abstract: blocks go out as they were handed over, bytes come in in their order | refined by SerialData |
| `SerialData` | data path of one session: `WriteToPort` against `WriteChar`, driver, `ReceiveStr` | `INSTANCE PortChannel` (`Channel`); stands beside SerialPort |
| `SerialDataProofs` | proofs | extends SerialData |
| `Station` | abstract: a product is recorded once in a stay, on its own checks, and the total follows | refined by Inspection |
| `Inspection` | test thread, dialog, operator, fixture, csv record, total | `INSTANCE Station` (`Line`) |
| `MCInspection` | instance for TLC (symmetry of the products) | extends Inspection |
| `InspectionProofs` | proofs | extends Inspection |
| `Camera` | `CMyCamera`, `myCameraClass` and their use by dialog and checkers | |
| `CameraProofs` | proofs | extends Camera |
| `Parameters` | ini files, memories and regions of the checkers, the handlers that change them | |
| `ParametersProofs` | proofs | extends Parameters |
| `Snapshots` | abstract: a thread's picture is taken in one instant and stays its own | refined by Imaging |
| `Imaging` | the images between test thread and dialog: driver's buffer, lock, `ho_Image`, contours | `INSTANCE Snapshots` (`Shots`); beside Inspection, which leaves images out, and Camera, which has one thread |
| `ImagingProofs` | proofs | extends Imaging |
| `Peripherals` | suction pad, scale, lamps and the exit button, on the I/O card, in discrete time | |
| `PeripheralsProofs` | proofs | extends Peripherals |
| `Storage` | `system.ini`, csv files, `count.ini` and the total's control over several lives of the program | the file behind Inspection's `Record` and `SaveCount` |
| `StorageProofs` | proofs | extends Storage |

Definitions whose name begins with `Mut` are not part of the models: each is a
plausible bug in the definition it stands next to, and shows that the property
named with it in `PROJECT.json` depends on the code being as it is.

### SerialPort
Variables carry the names of the members.  `m_hComm` is NULL, INVALID or OPEN;
`osOpen` says whether the system still holds the device for the program, so that
leaks and stale handles are visible.  `pc` gives each comm thread the line it is
at, with a point for every call that blocks: `SendMessage` ("send..." points,
left only when the owner dispatches), `MessageBox` ("box..." points, left when
the user answers), I/O inside the critical section.  `opc` does the same for the
owner inside `InitPort` and `ClosePort`: spin for the thread, reset the events,
re-create the critical section, lock, open.  Each method is an action for its
first part and one action for every part another thread can get between; each
run of `CommThread` between two such points is an action.  The OS calls are
small operators (`CloseHandle`, `ResumeIfSuspended`, `Enter`, `Leave`).

A new thread raises `m_bThreadAlive` itself (432), and nothing keeps the owner from
calling a method before it has.  All of that is in the model: every method may be
called while a thread is "created".  `overtaken` is a history variable: `ReadFlag`,
in `InitPort` and in the waiting loops, sets it when the flag is read FALSE while a
thread is created, and the `InitPort` that then finds no thread left lowers it at
its reset of the events.

### SerialData
One session in which nothing fails.  `WriteToPort` is four steps (clear, copy,
size, signal) because it takes no lock; `WriteChar` is five.  Cells of a block
carry the number of the request, bytes the number of their arrival, so that
order, tearing, loss and duplication can be told.  `m_ovEvent` is the one event
of the one OVERLAPPED.  `paced` is fixed in the initial state: an owner that
waits until a block has left, or one that does not.  As a `PortChannel` a request
is handed over when `WriteToPort` begins, sent by `WriteFile`, and a byte is in
transit from its arrival in the driver to the end of the message that carries it.

### Inspection
`wpc` is the test thread, `state` its variable of the same name (-1 hold, 0 bar
code, 1 accessories, 2 film).  A message is sent by `Send` and the thread waits
until `Dispatch` runs the handler in the dialog's thread; `upc` says when that
thread sleeps or is in a modal dialog.  `build` chooses the loop the thread
runs, `hasty` the operator: one who waits for the station (after Stop for the
light to go out, with a new product until it is asked for) or one who does not.
`build` never changes; `hasty` is chosen in the initial state and rises when the
light does not come on at Start, for then its operator has nothing to wait for.
Every write to an output may fail unnoticed (`MyWriteBit`): the light then stays
as it was, and of the film lamp the model keeps whether its last write was one that
switched it off and went through (`lamp`).  A check is a choice among the outcomes the
product on the fixture allows; the histories (`passed`, `rowed`, `cycles`,
`stale`, `invited`) record what the properties compare.  As a `Station` the
candidate is the product whose serial number an open cycle holds (`Candidate`);
the state, the outbox, the light and the dialog are hidden.

### Camera
`phase` is the life of the dialog: init, connected or refused, run, then the
teardown call by call.  Each SDK call may fail.  A frame is numbered by its
delivery, a result is the image it was measured on.  A measurement also ends in an
error code, one of those `DoubleCircle2` or `SingleCircle` can leave
(`HoleErrors`, `CircleErrors`, read off their exits at Img 625-1015).

### Parameters
For every checker: the file, the memory (`m_Para`), the regions made from it.
Areas are told apart by size and origin (never set, zero, shipped, exactly ten
pixels, larger), parameters by the checker they were chosen for, and `paraN` is
cut into the groups that a file's `num` can end in.  A parameter is `fine` if six
decimals are too few for it, which is what `Written` (`%f`) leaves in a file; a
handler that saves and does not load keeps it fine in memory.  `settings` is the settings
dialog with its own checker's memory, through which all its files pass.
`parted` is a history variable: the checkers whose file is known to differ from
memory because of the circle's OK button.

### Imaging
`pc` says where each of the two threads is.  A grab is six steps, because the
lock, the allocation of the driver's buffer, the frame written into it, the end
of the lock, the conversion that reads it and the copy out of `ho_Image` can each
meet the other thread.  An image is a pair: who grabbed it (`by`) and what stood
on the fixture then (`of`); `by` ages when the same thread grabs again ("before")
and turns "torn" when a frame arrives while the buffer is read.  `state` and
`check` are the test thread's; a check that finds something leaves its contour
behind, which `ShowContour` draws and, that of the code, `CheckBlob` masks by.  In `Snapshots` a
picture is wherever the code keeps it at that point (`Held`: the driver's buffer,
the bytes being converted, `ho_Image`, the copy), and the marks are the contours
that no clearing lies before (`Marks`).

### Peripherals
Time is counted in ticks and passes only when no thread has a step to take.
`spc` is the thread `Sucker`: the head of its loop, the delay before the second
look, the inner loop with the pad on, its debounce and the sleep between two
rounds; `elapsed` is the time it compares, `sinceBegin` the time there is.  The
scale's text is a weight or none; its handler pauses in the middle (`weighing`),
and the exit button runs through `closePort`, `sleep`, `closing`, `ended`.  Every
read may fail (-1, which is neither level), every write may be without effect.

### Storage
One step writes one key or one line, and `Stops` ends the program between any
two of them.  `memory` are the settings in the dialog, `ini` the keys in the file,
`before` the settings the last save began from.  A value is shipped, zero, typed
in, or typed in with more decimals than `%f` keeps.  A record goes through
`SaveOnlineData` (which month's file, does it exist), `Open`, `WriteTitle`,
`WriteRow`, `Count` and `SaveCount`; the months pass by themselves.  `shown` is the
text of the total's control: a result shown brings it up to date (`Show`, and
`Passed`, the message every record comes after), and the handlers of check boxes
and measuring buttons write it back into `m_iTotal` (`UpdateData`), which may fall
between any two steps of a record.


## 3. The runs

| Run | Module | Asks | States |
|---|---|---|---|
| `serial_safety` | MCSerialPort | is the port safe in every interleaving, does it implement PortSession, and do its calls return? | 851 078 |
| `data_path` | SerialData | are blocks and bytes whole, in order and not lost? | 271 782 |
| `data_lost_wakeup` | SerialData | is a byte that arrives during a write read? **no** | - |
| `insp_safety` | MCInspection | is what is recorded, shown, counted, lit and freed consistent? | 4 073 564 |
| `insp_live` | MCInspection | do Stop and exit take effect? | 284 232 |
| `insp_stop_unnoticed` | MCInspection | does Stop end the cycle? **no** | - |
| `cam_session` | Camera | do flags, object, handle and images stay in step? | 119 661 |
| `param_safety` | Parameters | do file, memory and region agree, does each checker keep its own? | 1 031 008 |
| `param_circle_file` | Parameters | are the circle's saved parameters loaded again? **no** | - |
| `imaging` | Imaging | does each thread use its own, whole image of the product that is there? | 5 025 534 |
| `peripherals` | Peripherals | is the pad on in time, once per product and off after exit; do the lamps tell the truth? | 183 096 |
| `storage` | Storage | does what was set and recorded survive failures and restarts, and what is the total worth? | 3 153 514 |

What each property says is stated above it in its module.  In short:

- *serial_safety*: `AtMostOneThread`, `AliveTellsRunning` (every kill loop relies
  on the flag: it is never TRUE without a thread, and FALSE with one only after the
  owner passed it before line 432), `OwnerAloneWhenRebuilding` (nobody uses events, lock, buffer or
  handle while InitPort replaces them), `NoStaleHandle`, `NoStaleShutdown` (a
  close does not kill the next session), `NoLockStandoff` (the section InitPort
  may leave locked never meets a thread), `ImplementsSession`, `CallsReturn` (InitPort,
  ClosePort and the destructor).  All but the second and `NoStaleHandle` say nothing
  of a state in which a thread was overtaken (section 7).
- *data_path*: `NothingVanishes`, `ImplementsChannel` (no block is sent twice or
  before it was handed over, a paced owner's are whole and in order, bytes are
  dropped only by the purge of a write), `RequestsSent`, `ReadWhileQuiet`.
- *insp_safety*: `RowTruth` (nothing is recorded on the checks of another
  product), `OneRowPerStay`, `ShownAsRecorded`, `LightWhileRunning` (a light
  that came on at Start),
  `SettingsAlone`, `ClosedAfterWorker`, `ImplementsStation` (the candidate of a
  careful operator is never replaced, only it is recorded, and the total, which
  may be written back, never runs ahead of the inspections).
  *insp_live*: `StopLeadsToRest`, `ExitEndsWorker`.
- *cam_session*: `FlagsTellDevice`, `ReleasedAtEnd`,
  `LiveMeasuresLive` (an action property: a press that is to take a picture never
  lists a measurement of an older one).
- *param_safety*: `RegionTellsArea`, `RestartKeeps` (but for decimals beyond the
  sixth), `ParametersOwned`.
- *imaging*: `OneBuffer` (both threads may be about to grab the first image),
  `ImplementsSnapshots` (neither judges or measures a torn, foreign or old image:
  the frame is the picture),
  `ContoursOfProduct` (nothing found on the product before is drawn into the
  picture of this one or masks its search).
- *peripherals*: `PadTimed`, `OnePullPerStay` (an action property), `OffAfterExit`,
  `LampsTellWeight`, and under fairness `ReadyPulls` and `ExitEndsThread`.
- *storage*: `SettingsKept`, `TitleFirst`, `TotalCoversRows` (a click that writes the
  control back costs the total one inspection at most, and `count.ini` is at most one
  ahead of it), and `LinesKept`, an action property: what was recorded stays where
  it is.

Type invariants are proved (section 6) and not run again, and so are
`WriteBufferPresent` of SerialPort, `HandleOwned` of Camera, `LimitIsSet` of Storage, and what the refinements now say
more sharply: `WireFollowsRequests`, `TotalNeverOvercounts` and `OwnImage`.

**Bounds, and why they are enough.**
`serial_safety` has two comm threads: one that an earlier session left behind or
that was overtaken, and that of the session now; a thread that has ended can be
created again, so the sessions are not bounded.  A third thread would add only
states in which two were overtaken, of which nothing is claimed, and the proofs
speak of any number.
Suspension nests twice, one level more than a close undoes: `CallsReturn` speaks of
a call from the moment its thread is no longer suspended, and the safety
properties are proved for every level.  After a thread was overtaken the owner
suspends none any more (`MaxStray = 0`): what is claimed there does not speak of
suspension.  `data_path` has three blocks of
at most two cells and three bytes: a block can overtake, be merged with or be
torn by the next, and a third shows recovery; a byte can arrive before, during
and after each step of a read.  `insp_safety` has two products (one may take the
place of the other; they are interchangeable, hence the symmetry), one Stop, so
that a started, a stopped and a restarted cycle meet, and one check box to click
(the accessories; the three are handled alike).  `insp_live` has one product.
`cam_session` has two checkers, of which one measures a circle, and three frames:
one before, one of and one after a press.  `param_safety` has the two measuring checkers, the card (two files) and
the film, files missing or as shipped, and six starts and handlers; every
property's shortest violation by a mutant takes at most five.  Without that
bound the measuring handlers alone (119 639 states) and the settings dialog
alone (10 160) have been explored completely.

`imaging` has two products, so that one can take the place of the other, both
loops and both operators; `HastyProducts` gives the hasty one a single product,
since only `OneBuffer` is claimed of him and that needs none.  Nothing else is
bounded.  In `peripherals` a tick is 200 ms: the set time and the steps of the
shipped parameters become 8 and 4, the debounce, the poll and the scale's pause 1
(shorter than a tick, rounded up), the sleep of the exit button 2.  The set time
is a multiple of the step, so that the last look falls on the limit, which makes
the bound of `PadTimed` tight.  `storage` has two months, so that a record can
cross their border, two records and three lives of the program (killed in the
first start, in a save or between title and row, and started again after it);
the two records are what it takes to be two counts behind the control.


## 4. What the runs found

Three runs end in a violation, each of a statement the program makes itself.

1. **A byte that arrives during a write stays unread** (`data_lost_wakeup`).
   WaitCommEvent completes through the event that WriteFile shares and resets;
   the next WaitCommEvent waits for another byte, although the comment of
   SerialPort.cpp:455-458 says the event is signalled if bytes are available.
2. **Stop can go unnoticed** (`insp_stop_unnoticed`).  The thread looks at the
   level of the event once a round; Stop and Start in one round leave the state
   that Stop is to clear (Dlg 546-550), and the old cycle is recorded.
3. **The circle's parameters go to the USB checker's file** (`param_circle_file`).
   After "saved" (Dlg 2358) a restart loads the old ones, and the USB checker
   comes up with the circle's.


## 5. What is assumed

**Of the callers of CSerialPort.** `StartMonitoring` once after an `InitPort`
that returned TRUE; `WriteToPort` only on a port that is not NULL (its
assertion). That the owner leaves a new thread the time to reach line 432 is not
assumed; the properties say what holds if he does not.

**Of the operator.** Properties with `~hasty` are about one who waits for the
station; those without hold for any. `ClosedAfterWorker` and `ExitEndsWorker`
hold for any operator only of `MainProcess`, which uses no camera. In Imaging
the operator who waits presses Start and the measuring buttons only while the
light is out or no image is in use - in Imaging the light does what it is told,
whereas in Inspection an operator whose light does not come on at Start counts
as hasty from then on - and puts a product on the fixture when the station asks
for one or rests; nothing that stands on an empty fixture looks like a booklet,
a code or a desiccant.

**Of the card and the disk.** A failed read answers -1 and a failed write leaves
the output as it was, in Inspection as in Peripherals. In this commit, where
`m_handle` is NULL, every write fails: no light ever comes on, every operator
who presses Start becomes a hasty one, and what Inspection says of the one who
waits is said of a station whose card works. A file that could be opened takes
the line that is written; a key written by WritePrivateProfileString is there
after the program is killed. Typed settings are not zero (zero is what a missing
upper limit loads as).

**Of time.**  Durations are left out, except that a `Sleep` of the dialog outlasts
a step of the thread that involves neither camera nor message (`Settled`), and in
Peripherals, where a tick ends only when every thread sleeps or is done.

**Fairness.**  Weak fairness is given to what the Windows scheduler and a message
loop guarantee: a thread that can run does (`ThreadStep`, `WorkerStep`), the owner
goes on inside a call and dispatches what was sent (`OwnerInCall`, `OwnerPump`,
`OwnerReceives`, `Dispatch`), a sleep ends (`DialogSleeps`), and a user answers a
message box (`Dismiss`), without which the box blocks its thread by design.  In
Peripherals the pad's thread runs and the handler of a weight goes on (weak
fairness), time passes and the exit goes on (strong fairness, because the steps of
the other actors interrupt both again and again).
Nobody is obliged to press a button, call a method, bring a product or send a
byte.  Camera, Parameters, Imaging and Storage claim no liveness.

**Deadlock** is not checked (`CHECK_DEADLOCK FALSE`) where the system stops: a port
destroyed, a dialog closed, a program not started again, bounds used up.


## 6. The proofs

### SerialPortProofs
For every set of threads and every suspension depth:

- `TypeCorrect`: `Spec => []TypeOK`.
- `Invariance`: `Spec => []IInv`, and from it the seven safety properties
  (`OneThread`, `FlagTruthful`, `RebuildAlone`, `HandleFresh`, `ShutdownFresh`,
  `LockFree`, `BufferPresent`).
- `Refinement`: `Spec => ImplementsSession`.

None rests on an assumption about when the owner calls.  `IInv` holds while a thread
is overtaken because its parts say then only what is still true, and it is whole
again at the `InitPort` that finds no thread: at its reset of the events nobody
lives, and what follows is rebuilt as for the first time.

None of the safety properties is inductive.  That at most one thread lives needs
that `InitPort` found the flag down *and* that no thread was waiting to raise it,
or else `overtaken` says so; that the owner is alone while it rebuilds needs the flag
to be truthful; that no shutdown event is stale needs what `InitPort` has reset on
its way (`InitProgress`) and what a successful one leaves for StartMonitoring
(`ReadyIsQuiet`); that a handle is fresh needs the order close, clear, drop the
flag (`HandleCleared`); that there is a buffer needs to know that a live thread has
one, because it can turn NULL into INVALID (`BufferKept`).  `IInv` is their
conjunction.  The step lemma has three parts: the owner's calls, the owner inside
a call, and the thread; the last rests on `MovePreserves`, by which a move of a
single thread between running points preserves everything about the owner.  The
refinement adds that every step opens, loses, attaches, detaches or changes
nothing the session can see (`StepKinds`).

### SerialDataProofs
For any number and size of blocks and any number of bytes: `Invariance`,
`TypeCorrect`, `BytesConserved` (`NothingVanishes`) and `WireCorrect`
(`WireFollowsRequests`).  The bytes need their order on the whole way, owner, message
and driver (`BytesOrdered`), and that no message is under way when the next is read
(`ReadProgress`); the lemmas on sequences say what appending, joining and cutting do to
a rising sequence.  The blocks of a paced owner need that one block at most is
between the call of WriteToPort and WriteFile, that owner and thread are never at
work on it together, and that buffer, size and SendLen are complete when the next
step uses them (`OneUnderway`).

`Refinement` (`Spec => ImplementsChannel`) holds for paced and unpaced owners.  Its
hard step is WriteFile, which must not send more blocks than were handed over
although size, event and the thread's position each can stand for a request: at most
as many of them are set as blocks are missing (`NoneTwice`), and a torn block is
made of cells that a request put there (`CellsAnnounced`).  Reading is a stutter
because it moves bytes between two parts of what is in transit (`CutConcat`,
`ConcatCut`).  `ChannelKeepsOrder` shows from the abstract steps alone what such a
channel promises.

### CameraProofs
For every set of checkers and number of frames: `Invariance` (`Spec => []IInv`),
and from it `TypeCorrect`, `FlagsTruthful`, `HandleKept`, `Released` and, as an
action property, `LiveOnly` (`LiveMeasuresLive`).
`ReleasedAtEnd` is not inductive: it needs that the buffer exists only beside an
object, that `CloseDevice`'s two flags imply one another and that each phase of
the teardown has put down its flag (`FlagsInOrder`), and `HandleOwned`, because a
device whose payload size could not be read is released by the destructor of the
object and by nothing before it.

### ParametersProofs
For every set of checkers in the settings dialog, every value typed in and any
number of starts and handlers: `Invariance` (`Spec => []IInv`), and from it
`TypeCorrect`, `RegionsFollow`, `RestartsKeep` and `OwnersKept`; the run's bound on
presses is a constant like any other.  `IInv` is the conjunction of these and
of `FilesRounded`: with the types each is inductive, but only by what LoadPara and
SavePara do field by field (`LoadFields`, `SaveFields`).  A restart keeps a
checker because what was saved is what a load brings back (`SavedIsLoaded`) to six
decimals, and no file holds more (`FilesRounded`); a second load changes nothing
(`LoadedTwice`) and a missing file is written as it is read (`WrittenByLoad`).
Owners are kept although "save as" passes all files through one memory because the
order load, change the area, save writes back the file's own parameters
(`SaveAsStep`).

### InspectionProofs
For any products, check boxes and number of stops, without a further assumption:
`Invariance` (`Spec => []IInv`), and from it `TypeCorrect` and all seven
properties of `insp_safety` (`RowsTrue`, `RecordedOnce`, `RecordedAsShown`,
`NeverOvercounts`, `LitWhileRunning`, `SettingsAreAlone`, `FreedAfterWorker`).  The
invariant has two halves.  What holds of any operator: at each point of a round,
messages apart (`Where`), the state and the results are known (`RoundInOrder`);
the exit comes last and wakes the thread (`ExitInOrder`); the total is behind the
inspections by the one between Record and Count (`TotalInStep`); a product comes
once, and one that was recorded holds the station (`StayInOrder`).  What holds of
the careful one, whose light came on: no light, no cycle (`LightTells`), whichever
writes fail later; the product of an open cycle is
on the fixture or taken away, and has passed what the state says (`ProductKept`);
what the dialog shows of it is what was dispatched, the rest being still in the
outbox (`ShownSoFar`).  The last one is the hardest, because a record comes after up
to three messages, each dispatched by another thread.

`Refinement` (`Spec => ImplementsStation`) maps every step of the test thread, the
dialog and the operator to one of the station or to none.  A scan identifies because
a product that was recorded holds the station (`StayInOrder`); a load finds no
candidate because its operator waits for the light or the invitation, and neither is
there in an open cycle (`LightTells`, `ProductKept`); a record has the checks its build asks
for because `RoundInOrder` ties them to the state; and `UpdateData` can only lower
the total because what the control shows is never ahead of it (`TotalInStep`).
`StationIsSound` shows from the abstract steps alone that rows are of products that
passed, that nothing takes a candidate's place and that no total runs ahead.

### ImagingProofs
For any products: `Invariance`, `TypeCorrect`, `BufferOnce`, `ImagesOwned` and
`ContoursOwned`.  That one buffer is allocated needs the lock (`LockHeld`) and
nothing of the operator (`BufferCounted`).  The rest holds of the operator who waits
and rests on `LightTells`: while a thread uses an image the other one does not
grab.  `TestHolds` and `DialogHolds` follow an image from the grab to its use;
`ContoursCurrent` says that contours of another product are left only where a new
cycle is to begin, which clears them.

`Refinement` (`Spec => ImplementsSnapshots`): `Frame` takes the picture, and the three
copies after it are stutters, each because the other thread holds no picture then
(`OtherHoldsNothing`) and the conversion reads an unchanged buffer (`TestHolds`).
A load meets no marks and no picture of a product, since either means that the
station did not ask for one.  Of an operator who does not wait nothing is claimed
(`Spoil`).  `PicturesAreTrue` shows from the abstract steps alone that the pictures
and marks of one product never meet the next.

### PeripheralsProofs
For any times: `Invariance`, `TypeCorrect`, `PadIsTimed`, `PadOffAfterExit`,
`LampsTell` and, as an action property, `PulledOnce`.  The time limit needs to know
what of a round can come after it (`Clock`), the single pull what the flag
remembers (`PulledIsKnown`), the exit that a thread that starts a round after it
does not get past its head (`ExitIsSeen`), the lamps what the first of the two says
already (`FirstLampTells`) and that the exit does not interrupt a weighing
(`WeighedBeforeExit`).

### StorageProofs
For any number of months, records and lives: `Invariance`, `TypeCorrect`,
`SettingsAreKept`, `LimitSet`, `TitlesFirst`, `TotalCovers` and `LinesAreKept`.  A
save cut off is known key by key (`SaveProgress`, `IniRounded`); the limit needs that
a file made by an undisturbed first start has it (`LimitKept`); the title that
the file seen missing is still missing when it is opened (`TitleKnown`), and that a
file without a title belongs to who is about to write it or was killed there
(`CreatedHasTitle`); the total that its control is never more than one count behind,
and not at all between a result shown and the count after it (`ControlInStep`), so
that a click undoes at most the last count (`RowsInTotal`).

### Only model-checked
Liveness (`CallsReturn`, `RequestsSent`, `ReadWhileQuiet`, `StopLeadsToRest`,
`ExitEndsWorker`, `ReadyPulls`, `ExitEndsThread`), which the prover cannot do under
fairness.  Every other property of a passing run is proved.


## 7. Known not to hold

Found while modelling; all of it can be reproduced on the models, by stating the
negation as an invariant.

- *SerialPort*: the new thread raises the flag itself (432), so a close or InitPort
  right after StartMonitoring does not see it: a second thread can be started beside
  it, and events, critical section, buffer and handle be rebuilt under it.  With
  `overtaken` dropped from them TLC finds `AliveTellsRunning`, `AtMostOneThread`,
  `OwnerAloneWhenRebuilding`, `NoStaleShutdown`, `NoLockStandoff` and
  `WriteBufferPresent` violated.  What a program does after
  a lock in use was initialised anew, or memory freed under a thread, is not defined;
  the model goes on with one possible outcome, and nothing is claimed until an
  InitPort finds no thread, but that the flag is not TRUE without one and that no
  handle is stale but in the thread that closes it.  A port suspended twice is resumed once, and `ClosePort` then waits for ever.
  `ClosePort` on an INVALID handle returns at once and leaves the thread running
  (SerialPort.cpp 1150, against the comment of SerialPort.h 210).  A handle
  overwritten with INVALID_HANDLE_VALUE after an I/O error (497 and its like) is
  leaked, and the port cannot be opened again.  The time-outs handed in as
  milliseconds are multiplied by 1000 (351).  The receive loop does not end if
  the handle is lost inside it (988; the comment of 996-997 expects it to).
- *SerialData*: an owner that does not wait for a block to leave can tear it or lose
  it: buffer, size and event are written without the lock (1201-1207).
- *Inspection*: a record is announced as saved although no row was written (Dlg
  636); the total can fall, by one inspection a click, because `UpdateData`
  writes back what the control showed (449; `TotalCoversRows` of Storage); the film lamp survives a Start (503); a row
  with a film can be written with the lamp dark, and the light be off while the
  station runs, because no result of `MyWriteBit` is looked at (512, 549, 1494-1511); the light stays on if Stop
  falls between the two waits (554); and a hasty operator can close the dialog
  while the thread grabs (411-420).
- *Camera*: without an image a measuring button lists the last result as a new one
  (Img 1943).  `OpenDevice` returns MV_OK after Open failed (Cam 180), so the
  dialog takes the camera for connected and its message (Dlg 302) is not shown;
  the flags keep later calls harmless (`FlagsTellDevice`).
- *Imaging*: a hasty operator, who measures while the light is on, can have images
  torn, taken of another product or replaced by the other thread's between the
  grab and its use, `ho_Image` emptied between the dialog's grab and its
  measurement included.  `LoadModel` and `LoadDeformModel` (Img 1312-1361) free the
  old template before they read the new one and keep the freed handle when that
  fails; the templates are not loaded at the start (Dlg 323-337 is commented out).
  `CheckBarcode` asks for more than the least length, and leaves the area of a code
  it has refused.
- *Peripherals*: a write that fails can leave the pad on after its time and after
  the exit, and so does a thread that was between its two looks when the outputs
  were switched off; a failed read lets a product be pulled again; a product
  replaced within one poll is not pulled; the lamps stay as they are until the
  next weight.  The delay time typed in the settings is never taken over (Dlg 1902
  assigns the member to itself).
- *Storage*: the total can fall below the rows written, by one for each click that
  falls between a count and the next result shown, and then `count.ini` with it (Dlg
  449, 1816, 1824, 1832); it starts again at 0 and overwrites the one in `count.ini`
  (`LoadCount` is not called); a `system.ini` left half-filled by a first start that
  was killed is never completed, and its upper limit is zero; a file whose creator
  was killed never gets a title; a row may land in the file of the month before; the
  title has a column Weight no row fills (Dlg 1303 against 630-634).
- *Parameters*: a parameter of more than six decimals, as the factor 0.00495589 of
  Img 1958, is rounded in its file (1490): the checker measures with the one typed
  until a restart, and with the rounded one from then on.  A refused area is saved all the same (`FramedAreaUsed`): the first
  framing's failure is ignored (Dlg 2198), "saved" is reported and there is no
  region; a side of exactly ten pixels is accepted and gets none either (Img 1279
  against 1407).  `SavePara` writes key by key (Img 1464), and a crash in it leaves
  the new area with the old parameters.  An area saved in the settings dialog is overwritten by its OK
  button, which saves the main dialog's older areas first (Dlg 1904), and by
  Cancel it is in force only after a restart; the button that asks for the
  desiccant's area writes the film's file (SetParDlg.cpp 214-230); parameters
  beyond the file's `num` are edited but not saved; checkers that were never
  loaded are saved with `num` 0 and no area.


## 8. Not modelled

- What the HALCON library finds in an image, the geometry behind it, the drawing of
  arrows and texts (Img 47-385) and the pixel conversions: library calls on data no
  property distinguishes.  Their exits and what each leaves behind are modelled.
- The SQL record: `SaveOnlineDataSQL` has no caller, and `AdoDatabase` keeps nothing
  between two calls.
- `Weight` copies an input into a flag nothing reads; `Peripherals` has the lamps
  and the scale instead.
- Start, login and user management call a closed library whose answer is
  overwritten.
- Crashes inside the checkers' `SavePara` (that of the dialog is in Storage).
- `QueryKey` and `Hkey2ComboBox`, which list the registry, and `ReceiveChar`, which
  `IsReceiveString = 1` excludes.
- `usb3.cpp`, `MyLogger.cpp` and `ProgressCtrlThread.h` are not compiled; the SDK,
  HALCON and log4cplus headers are vendored.  They are 41 000 of the repository's
  52 000 lines of C++; the program's own, compiled code is 9 300 lines, a third of
  it resources of the dialogs, drawing and code that is commented out.


## 9. The plan

Done, in this order: SerialPort with PortSession and proofs; SerialData;
Inspection; Camera with proofs; Parameters with proofs; Peripherals, Storage and
Imaging with proofs; the proofs of Inspection and of SerialData; the abstract
specifications PortChannel, Station and Snapshots, which SerialData, Inspection and
Imaging are proved to implement.

What would add most from here:

1. A composition of exit: dialog, test thread, pad, serial port, camera and outputs
   in the order of Dlg 407-424 and 168-185, which the modules now have in parts.
2. SerialPort after a thread was overtaken, with every outcome of a lock or buffer
   replaced under a thread, where now only the way in and out of it is described.
3. An abstract ledger for Storage (rows only added, a total that covers them, a
   restart that begins anew), composed with the station of Inspection.
