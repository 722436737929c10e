----------------------------- MODULE SerialPort -----------------------------
(***************************************************************************)
(* CSerialPort (SerialPort.cpp): the life cycle of a serial port shared by *)
(* its owner, the user-interface thread that calls the class's methods,    *)
(* and the comm threads that StartMonitoring creates.                      *)
(*                                                                         *)
(* Data is left out: which bytes travel is the subject of SerialData.  Kept*)
(* here is everything that decides who may touch the port and when: the    *)
(* handle, the alive flag, the events, the critical section, the write     *)
(* buffer, thread suspension, the blocking SendMessage and MessageBox      *)
(* calls, and the points at which each thread can be interleaved.          *)
(*                                                                         *)
(* Contract assumed of the owner: StartMonitoring is called once after an  *)
(* InitPort that returned TRUE, and WriteToPort only on a port whose handle*)
(* is not NULL (the assertion of line 1200).                               *)
(*                                                                         *)
(* CreateThread returns before the thread has run its first line, and the  *)
(* owner may call any method meanwhile: one that reads m_bThreadAlive in   *)
(* that window takes the thread for dead and works beside it.  The history *)
(* variable `overtaken' records that this happened; what the class promises*)
(* holds unless it did, and again once an InitPort has found no thread.    *)
(***************************************************************************)
EXTENDS Naturals

CONSTANTS
  Threads,      \* identities of the comm threads that may be created
  NoThread,     \* m_Thread when it names no thread
  Owner,        \* the owner thread, as holder of the critical section
  NoOne,        \* the critical section is free
  MaxSuspend,   \* bound: how deep SuspendMonitoring calls may nest
  MaxStray      \* bound: the same, once a thread was overtaken

ASSUME SerialPortAssumption ==
  /\ NoThread \notin Threads
  /\ {Owner, NoOne} \cap Threads = {}
  /\ Owner # NoOne
  /\ MaxSuspend \in Nat
  /\ MaxStray \in 0..MaxSuspend

VARIABLES
  m_hComm,          \* the member: "NULL", "INVALID" or "OPEN"
  osOpen,           \* the operating system holds the device open for us
  m_bThreadAlive,
  m_hShutdownEvent, m_hWriteEvent, m_ovEvent,   \* manual-reset events
  m_szWriteBuffer,  \* is the write buffer allocated?
  csHolder,         \* who is inside m_csCommunicationSync
  csLeaked,         \* the holder entered without leaving: it can never free it
  m_Thread,         \* the member: handle of the last thread created
  pc,               \* where each comm thread is
  suspended,        \* suspend count of each comm thread
  opc,              \* where the owner is inside the current call
  call,             \* the method the owner is executing
  ready,            \* InitPort returned TRUE and nothing was started or closed
  overtaken         \* history: the owner passed the flag before a thread had set it

port    == <<m_hComm, osOpen>>
events  == <<m_hShutdownEvent, m_hWriteEvent, m_ovEvent>>
lock    == <<csHolder, csLeaked>>
threads == <<m_bThreadAlive, m_Thread, pc, suspended>>
owner   == <<opc, call, ready, m_szWriteBuffer, overtaken>>
vars    == <<port, events, lock, threads, owner>>

\* Inside CommThread.  The send and box points are the calls that block: a
\* SendMessage until the owner dispatches it, a MessageBox until it is answered.
SendPoints == {"sendWait", "sendStr", "sendStatus"}
BoxPoints  == {"boxWait", "boxLoop", "boxRead"}
ReadPoints == {"read", "readAgain", "readFile", "sendStr", "boxRead"}
Running    == {"loop", "wait", "write", "writeIO", "writePend", "notify",
               "down1", "down2"} \cup SendPoints \cup BoxPoints \cup ReadPoints
Live       == Running \cup {"created"}
Points     == Live \cup {"none", "dead"}

\* Calls that hold the critical section while they block or do I/O.
InSection == {"writeIO", "writePend", "boxRead"}

LiveThreads    == {t \in Threads : pc[t] \in Live}
RunningThreads == {t \in Threads : pc[t] \in Running}

TypeOK ==
  /\ m_hComm \in {"NULL", "INVALID", "OPEN"}
  /\ osOpen \in BOOLEAN
  /\ m_bThreadAlive \in BOOLEAN
  /\ m_hShutdownEvent \in BOOLEAN
  /\ m_hWriteEvent \in BOOLEAN
  /\ m_ovEvent \in BOOLEAN
  /\ m_szWriteBuffer \in BOOLEAN
  /\ csHolder \in Threads \cup {Owner, NoOne}
  /\ csLeaked \in BOOLEAN
  /\ m_Thread \in Threads \cup {NoThread}
  /\ pc \in [Threads -> Points]
  /\ suspended \in [Threads -> 0..MaxSuspend]
  /\ opc \in {"idle", "spin", "test", "reset", "sync", "lock", "open", "end", "gone"}
  /\ call \in {"none", "InitPort", "ClosePort", "Destroy"}
  /\ ready \in BOOLEAN
  /\ overtaken \in BOOLEAN

\* The constructor (lines 37-56).  m_Thread is left uninitialised there;
\* SuspendThread on such a value fails, which NoThread stands for.
Init ==
  /\ m_hComm = "NULL" /\ osOpen = FALSE
  /\ m_bThreadAlive = FALSE
  /\ m_hShutdownEvent = FALSE /\ m_hWriteEvent = FALSE /\ m_ovEvent = FALSE
  /\ m_szWriteBuffer = FALSE
  /\ csHolder = NoOne /\ csLeaked = FALSE
  /\ m_Thread = NoThread
  /\ pc = [t \in Threads |-> "none"]
  /\ suspended = [t \in Threads |-> 0]
  /\ opc = "idle" /\ call = "none" /\ ready = FALSE /\ overtaken = FALSE

-----------------------------------------------------------------------------
(* Operating-system calls the methods share *)

\* CloseHandle(m_hComm): only a real handle closes anything.
CloseHandle == osOpen' = (osOpen /\ m_hComm # "OPEN")

\* Mutant: resumes without asking whether the thread is suspended.
MutResumeAlways ==
  suspended' = [t \in Threads |->
    IF t = m_Thread /\ pc[t] # "dead" THEN suspended[t] - 1 ELSE suspended[t]]

\* if (IsThreadSuspend(m_Thread)) ResumeThread(m_Thread): one resume, whatever
\* the count.  SuspendThread fails on a thread that has ended.
ResumeIfSuspended ==
  suspended' = [t \in Threads |->
    IF t = m_Thread /\ pc[t] # "dead" /\ suspended[t] > 0
      THEN suspended[t] - 1 ELSE suspended[t]]

\* Where a thread continues when its SendMessage returns.
AfterSend(p) == CASE p = "sendWait"   -> "wait"
                  [] p = "sendStr"    -> "readAgain"
                  [] p = "sendStatus" -> "loop"
                  [] OTHER            -> p

\* PeekMessage / the owner's message loop: every sent message is dispatched.
DispatchSent == pc' = [t \in Threads |-> AfterSend(pc[t])]

Enter(who) == csHolder \in {NoOne, who} /\ csHolder' = who /\ UNCHANGED csLeaked

\* LeaveCriticalSection frees the section unless an earlier entry leaked.
Leave(who) == /\ csHolder' = IF csLeaked THEN csHolder ELSE NoOne
              /\ UNCHANGED csLeaked

-----------------------------------------------------------------------------
(* The owner *)

\* if (m_bThreadAlive), while (m_bThreadAlive): a created thread that has not set
\* the flag yet is overtaken by an owner that finds it FALSE and goes on.
ReadFlag ==
  overtaken' = (overtaken \/ (~m_bThreadAlive /\ \E t \in Threads : pc[t] = "created"))

\* Mutant: InitPort does not kill the thread of the session before.
MutInitPortNoKill ==
  /\ opc = "idle"
  /\ ResumeIfSuspended
  /\ opc' = "reset"
  /\ ReadFlag
  /\ call' = "InitPort" /\ ready' = FALSE
  /\ UNCHANGED <<port, events, lock, m_bThreadAlive, m_Thread, pc, m_szWriteBuffer>>

\* Entry of InitPort: resume, then go on to kill the thread if the flag is set.
InitPort ==
  /\ opc = "idle"
  /\ ResumeIfSuspended
  /\ opc' = IF m_bThreadAlive THEN "spin" ELSE "reset"
  /\ ReadFlag
  /\ call' = "InitPort" /\ ready' = FALSE
  /\ UNCHANGED <<port, events, lock, m_bThreadAlive, m_Thread, pc, m_szWriteBuffer>>

\* Mutant: the loop does not dispatch messages (the code before 2011-11-06).
MutSpinNoPump ==
  /\ opc = "spin"
  /\ m_hShutdownEvent' = TRUE
  /\ opc' = "test"
  /\ UNCHANGED <<port, m_hWriteEvent, m_ovEvent, lock, threads, call, ready,
                 m_szWriteBuffer, overtaken>>

\* One turn of the do ... while (m_bThreadAlive) loop of all three methods.
Spin ==
  /\ opc = "spin"
  /\ m_hShutdownEvent' = TRUE
  /\ DispatchSent
  /\ opc' = "test"
  /\ UNCHANGED <<port, m_hWriteEvent, m_ovEvent, lock, m_bThreadAlive, m_Thread,
                 suspended, call, ready, m_szWriteBuffer, overtaken>>

\* Mutant: the shutdown event is set once and the thread is not awaited.
MutSpinOnce ==
  /\ opc = "test"
  /\ opc' = IF call = "InitPort" THEN "reset" ELSE "end"
  /\ UNCHANGED <<port, events, lock, threads, call, ready, m_szWriteBuffer, overtaken>>

SpinTest ==
  /\ opc = "test"
  /\ opc' = IF m_bThreadAlive THEN "spin"
            ELSE IF call = "InitPort" THEN "reset" ELSE "end"
  /\ ReadFlag
  /\ UNCHANGED <<port, events, lock, threads, call, ready, m_szWriteBuffer>>

\* Mutant: the shutdown event stays set.
MutKeepShutdownEvent ==
  /\ opc = "reset" /\ opc' = "sync"
  /\ m_hWriteEvent' = FALSE /\ m_ovEvent' = FALSE
  /\ overtaken' = (overtaken /\ LiveThreads # {})
  /\ UNCHANGED <<port, m_hShutdownEvent, lock, threads, call, ready, m_szWriteBuffer>>

\* Lines 173-201: the three events exist and are reset.  An InitPort that finds no
\* thread starts afresh: from here on nobody was overtaken.
InitResetEvents ==
  /\ opc = "reset" /\ opc' = "sync"
  /\ m_hShutdownEvent' = FALSE /\ m_hWriteEvent' = FALSE /\ m_ovEvent' = FALSE
  /\ overtaken' = (overtaken /\ LiveThreads # {})
  /\ UNCHANGED <<port, lock, threads, call, ready, m_szWriteBuffer>>

\* Mutant: the critical section is initialised only by the first InitPort.
MutSyncOnce ==
  /\ opc = "sync" /\ opc' = "lock"
  /\ m_szWriteBuffer' = TRUE
  /\ UNCHANGED <<port, events, lock, threads, call, ready, overtaken>>

\* Lines 203-220: the critical section starts afresh, the buffer is replaced.
InitSync ==
  /\ opc = "sync" /\ opc' = "lock"
  /\ csHolder' = NoOne /\ csLeaked' = FALSE
  /\ m_szWriteBuffer' = TRUE
  /\ UNCHANGED <<port, events, threads, call, ready, overtaken>>

\* Lines 233-241: enter the section, close a handle left from before.
InitLock ==
  /\ opc = "lock" /\ opc' = "open"
  /\ Enter(Owner)
  /\ CloseHandle
  /\ m_hComm' = "NULL"
  /\ UNCHANGED <<events, threads, call, ready, m_szWriteBuffer, overtaken>>

\* Lines 306-415.  The device opens exclusively, so a handle still held by the
\* system makes CreateFile fail; so may anything else.  The failing branch
\* returns without leaving the critical section.
InitOpen ==
  /\ opc = "open" /\ opc' = "idle" /\ call' = "none"
  /\ \/ /\ ~osOpen
        /\ m_hComm' = "OPEN" /\ osOpen' = TRUE
        /\ ready' = TRUE
        /\ Leave(Owner)
     \/ /\ m_hComm' = "INVALID"
        /\ ready' = FALSE
        /\ csLeaked' = TRUE
        /\ UNCHANGED <<osOpen, csHolder>>
  /\ UNCHANGED <<events, threads, m_szWriteBuffer, overtaken>>

\* CreateThread; on failure m_Thread is overwritten with NULL.
StartMonitoring ==
  /\ opc = "idle" /\ ready
  /\ \/ \E t \in Threads :
          /\ pc[t] = "none"
          /\ pc' = [pc EXCEPT ![t] = "created"]
          /\ m_Thread' = t
          /\ ready' = FALSE
     \/ /\ m_Thread' = NoThread
        /\ UNCHANGED <<pc, ready>>
  /\ UNCHANGED <<port, events, lock, m_bThreadAlive, suspended, opc, call, m_szWriteBuffer,
                 overtaken>>

SuspendMonitoring ==
  /\ opc = "idle"
  /\ m_Thread \in Threads /\ pc[m_Thread] # "dead"
  /\ suspended[m_Thread] < IF overtaken THEN MaxStray ELSE MaxSuspend
  /\ suspended' = [suspended EXCEPT ![m_Thread] = @ + 1]
  /\ UNCHANGED <<port, events, lock, m_bThreadAlive, m_Thread, pc, owner>>

ResumeMonitoring ==
  /\ opc = "idle"
  /\ ResumeIfSuspended
  /\ UNCHANGED <<port, events, lock, m_bThreadAlive, m_Thread, pc, owner>>

WriteToPort ==
  /\ opc = "idle" /\ m_hComm # "NULL"
  /\ m_hWriteEvent' = TRUE
  /\ UNCHANGED <<port, m_hShutdownEvent, m_ovEvent, lock, threads, owner>>

\* Mutant: the early return for an invalid handle frees the write buffer too.
MutShutFreesBuffer(method) ==
  /\ opc = "idle"
  /\ ResumeIfSuspended
  /\ ready' = FALSE
  /\ IF m_hComm = "INVALID"
       THEN /\ m_hComm' = "NULL" /\ m_szWriteBuffer' = FALSE
            /\ opc' = IF method = "Destroy" THEN "gone" ELSE "idle"
            /\ call' = "none"
       ELSE opc' = "spin" /\ call' = method /\ UNCHANGED <<m_hComm, m_szWriteBuffer>>
  /\ UNCHANGED <<osOpen, events, lock, m_bThreadAlive, m_Thread, pc, overtaken>>

\* Entry of ClosePort and of the destructor: with an invalid handle both only
\* forget the handle and return; the thread is neither told nor awaited.
Shut(method) ==
  /\ opc = "idle"
  /\ ResumeIfSuspended
  /\ ready' = FALSE
  /\ IF m_hComm = "INVALID"
       THEN /\ m_hComm' = "NULL"
            /\ opc' = IF method = "Destroy" THEN "gone" ELSE "idle"
            /\ call' = "none"
       ELSE opc' = "spin" /\ call' = method /\ UNCHANGED m_hComm
  /\ UNCHANGED <<osOpen, events, lock, m_bThreadAlive, m_Thread, pc, m_szWriteBuffer,
                 overtaken>>

ClosePort == Shut("ClosePort")
Destroy   == Shut("Destroy")

\* Mutant: the handle is closed and the member keeps its value.
MutShutKeepsMember ==
  /\ opc = "end"
  /\ opc' = IF call = "Destroy" THEN "gone" ELSE "idle"
  /\ call' = "none"
  /\ CloseHandle
  /\ m_hShutdownEvent' = FALSE /\ m_hWriteEvent' = FALSE /\ m_ovEvent' = FALSE
  /\ m_szWriteBuffer' = FALSE
  /\ UNCHANGED <<m_hComm, lock, threads, ready, overtaken>>

\* Lines 168-194 (ClosePort) and 90-110 (destructor): after the loop.  ClosePort
\* resets the events, the destructor closes them; both free the buffer.
ShutEnd ==
  /\ opc = "end"
  /\ opc' = IF call = "Destroy" THEN "gone" ELSE "idle"
  /\ call' = "none"
  /\ CloseHandle
  /\ m_hComm' = "NULL"
  /\ m_hShutdownEvent' = FALSE /\ m_hWriteEvent' = FALSE /\ m_ovEvent' = FALSE
  /\ m_szWriteBuffer' = FALSE
  /\ UNCHANGED <<lock, threads, ready, overtaken>>

\* The owner's message loop, while it is in none of the port's methods.
OwnerPump ==
  /\ opc = "idle"
  /\ \E t \in Threads : pc[t] \in SendPoints
  /\ DispatchSent
  /\ UNCHANGED <<port, events, lock, m_bThreadAlive, m_Thread, suspended, owner>>

OwnerInCall == Spin \/ SpinTest \/ InitResetEvents \/ InitSync \/ InitLock
                 \/ InitOpen \/ ShutEnd

OwnerCalls == InitPort \/ StartMonitoring \/ SuspendMonitoring \/ ResumeMonitoring
                \/ WriteToPort \/ ClosePort \/ Destroy

-----------------------------------------------------------------------------
(* A comm thread *)

\* Thread t, not suspended, moves from one point to another.  The destructor's
\* object lives until the process ends, and the threads end with it.
Goto(t, from, to) ==
  /\ opc # "gone"
  /\ pc[t] = from /\ suspended[t] = 0
  /\ pc' = [pc EXCEPT ![t] = to]
  /\ UNCHANGED <<m_Thread, suspended, owner>>

\* Mutant: the thread does not announce itself.
MutStartSilent(t) ==
  /\ Goto(t, "created", "loop")
  /\ UNCHANGED <<port, events, lock, m_bThreadAlive>>

\* Line 432: the flag is set by the thread itself.
ThreadStart(t) ==
  /\ Goto(t, "created", "loop")
  /\ m_bThreadAlive' = TRUE
  /\ UNCHANGED <<port, events, lock>>

\* WaitCommEvent on an open handle: pending, or an event is reported and there
\* are bytes.  (An event without bytes is the `continue` of line 563: a stutter.)
CommEventOk(t) ==
  /\ Goto(t, "loop", "wait")
  /\ m_hComm = "OPEN"
  /\ m_ovEvent' \in BOOLEAN
  /\ UNCHANGED <<port, m_hShutdownEvent, m_hWriteEvent, lock, m_bThreadAlive>>

\* WaitCommEvent failed: the handle is forgotten without being closed.  A box is
\* shown, or, for ERROR_INVALID_HANDLE, the owner is told.
CommEventFails(t) ==
  /\ \/ Goto(t, "loop", "boxWait") /\ m_hComm = "OPEN"
     \/ Goto(t, "loop", "sendWait")
  /\ m_hComm' = "INVALID"
  /\ UNCHANGED <<osOpen, events, lock, m_bThreadAlive>>

\* WaitForMultipleObjects returns the lowest signalled index.  Index 0: the
\* handle is closed, then the member cleared, then the flag, in that order.
ShutdownClose(t) ==
  /\ Goto(t, "wait", "down1")
  /\ m_hShutdownEvent
  /\ CloseHandle
  /\ UNCHANGED <<m_hComm, events, lock, m_bThreadAlive>>

\* Mutant: the closed handle stays in the member.
MutShutdownKeepsMember(t) ==
  /\ Goto(t, "down1", "down2")
  /\ UNCHANGED <<port, events, lock, m_bThreadAlive>>

ShutdownClear(t) ==
  /\ Goto(t, "down1", "down2")
  /\ m_hComm' = "NULL"
  /\ UNCHANGED <<osOpen, events, lock, m_bThreadAlive>>

ShutdownExit(t) ==
  /\ Goto(t, "down2", "dead")
  /\ m_bThreadAlive' = FALSE
  /\ UNCHANGED <<port, events, lock>>

\* Index 1: WriteChar resets the event, then asks for the critical section.
WriteBegin(t) ==
  /\ Goto(t, "wait", "write")
  /\ ~m_hShutdownEvent /\ m_hWriteEvent
  /\ m_hWriteEvent' = FALSE
  /\ UNCHANGED <<port, m_hShutdownEvent, m_ovEvent, lock, m_bThreadAlive>>

WriteEnter(t) ==
  /\ Goto(t, "write", "writeIO")
  /\ Enter(t)
  /\ UNCHANGED <<port, events, m_bThreadAlive>>

\* WriteFile done at once, or pending and awaited by GetOverlappedResult, which
\* may report an error of its own.
WriteDone(t) ==
  /\ \/ Goto(t, "writeIO", "loop") /\ m_hComm = "OPEN"
     \/ Goto(t, "writePend", "loop")
     \/ Goto(t, "writePend", "boxLoop")
  /\ m_ovEvent' = TRUE
  /\ Leave(t)
  /\ UNCHANGED <<port, m_hShutdownEvent, m_hWriteEvent, m_bThreadAlive>>

WritePending(t) ==
  /\ Goto(t, "writeIO", "writePend") /\ m_hComm = "OPEN"
  /\ UNCHANGED <<port, events, lock, m_bThreadAlive>>

\* WriteFile failed: no branch of the error switch leaves the section.
WriteFails(t) ==
  /\ \/ Goto(t, "writeIO", "boxLoop") /\ m_hComm = "OPEN" /\ m_hComm' \in {"OPEN", "INVALID"}
     \/ Goto(t, "writeIO", "loop") /\ m_hComm' = "INVALID"
  /\ csLeaked' = TRUE
  /\ UNCHANGED <<osOpen, events, csHolder, m_bThreadAlive>>

\* Index 2: receive if the event mask (or what is left of it) says so.
ReadBegin(t) ==
  /\ Goto(t, "wait", "read") \/ Goto(t, "wait", "notify")
  /\ ~m_hShutdownEvent /\ ~m_hWriteEvent /\ m_ovEvent
  /\ UNCHANGED <<port, events, lock, m_bThreadAlive>>

\* Top of ReceiveStr's loop: return on shutdown, or when no bytes are queued.
\* ClearCommError on a bad handle leaves comstat as it was: indeterminate on
\* the first turn, the non-zero count of the turn before on later ones.
ReceiveStop(t) ==
  /\ \/ Goto(t, "read", "notify") /\ (m_hShutdownEvent \/ csHolder \in {NoOne, t})
     \/ Goto(t, "readAgain", "notify") /\ (m_hShutdownEvent \/
                                           (m_hComm = "OPEN" /\ csHolder \in {NoOne, t}))
  /\ UNCHANGED <<port, events, lock, m_bThreadAlive>>

ReceiveMore(t) ==
  /\ Goto(t, "read", "readFile") \/ Goto(t, "readAgain", "readFile")
  /\ ~m_hShutdownEvent /\ csHolder \in {NoOne, t}
  /\ UNCHANGED <<port, events, lock, m_bThreadAlive>>

\* ReadFile inside the section, then SendMessage(WM_COMM_RXSTR) outside it.
\* An error still falls through to the message.
ReadFile(t) ==
  /\ Goto(t, "readFile", "sendStr")
  /\ csHolder \in {NoOne, t}
  /\ \/ m_hComm = "OPEN" /\ m_ovEvent' = TRUE /\ UNCHANGED m_hComm
     \/ m_hComm' = "INVALID" /\ UNCHANGED m_ovEvent
  /\ UNCHANGED <<osOpen, m_hShutdownEvent, m_hWriteEvent, lock, m_bThreadAlive>>

ReadFails(t) ==
  /\ Goto(t, "readFile", "boxRead") /\ m_hComm = "OPEN"
  /\ Enter(t)
  /\ m_hComm' \in {"OPEN", "INVALID"}
  /\ UNCHANGED <<osOpen, events, m_bThreadAlive>>

\* Lines 620-629: tell the owner about line status, or not.
Notify(t) ==
  /\ Goto(t, "notify", "sendStatus") \/ Goto(t, "notify", "loop")
  /\ UNCHANGED <<port, events, lock, m_bThreadAlive>>

\* The user answers a message box of the thread.
Dismiss(t) ==
  /\ \/ Goto(t, "boxWait", "wait") /\ UNCHANGED lock
     \/ Goto(t, "boxLoop", "loop") /\ UNCHANGED lock
     \/ Goto(t, "boxRead", "sendStr") /\ Leave(t)
  /\ UNCHANGED <<port, events, m_bThreadAlive>>

\* The device completes a pending WaitCommEvent.
DeviceEvent ==
  /\ opc # "gone" /\ m_hComm = "OPEN"
  /\ m_ovEvent' = TRUE
  /\ UNCHANGED <<port, m_hShutdownEvent, m_hWriteEvent, lock, threads, owner>>

ThreadStep(t) ==
  \/ ThreadStart(t) \/ CommEventOk(t) \/ CommEventFails(t)
  \/ ShutdownClose(t) \/ ShutdownClear(t) \/ ShutdownExit(t)
  \/ WriteBegin(t) \/ WriteEnter(t) \/ WriteDone(t) \/ WritePending(t) \/ WriteFails(t)
  \/ ReadBegin(t) \/ ReceiveStop(t) \/ ReceiveMore(t) \/ ReadFile(t) \/ ReadFails(t)
  \/ Notify(t)

Next ==
  \/ OwnerCalls \/ OwnerInCall \/ OwnerPump
  \/ \E t \in Threads : ThreadStep(t) \/ Dismiss(t)
  \/ DeviceEvent

Spec == Init /\ [][Next]_vars

\* What is scheduled: the owner inside a call and its message loop, each thread
\* that is not suspended, and a user who answers message boxes.  Nobody is
\* obliged to call a method, and the device to report anything.
Fairness ==
  /\ WF_vars(OwnerInCall)
  /\ WF_vars(OwnerPump)
  /\ \A t \in Threads : WF_vars(ThreadStep(t)) /\ WF_vars(Dismiss(t))

FairSpec == Spec /\ Fairness

-----------------------------------------------------------------------------
(* Properties *)

\* At most one comm thread exists at a time, however calls, faults and
\* suspensions are interleaved: InitPort kills the one before (lines 155-171),
\* unless the owner read the flag before that one had set it.
AtMostOneThread == ~overtaken => \A s, t \in LiveThreads : s = t

\* m_bThreadAlive says whether a thread is running (comment of lines 429-431):
\* every loop that waits for the thread to end relies on it.  When it is TRUE some
\* thread runs, always; it hides a running thread only after an owner passed it
\* in the window between CreateThread and line 432.
AliveTellsRunning ==
  /\ m_bThreadAlive => RunningThreads # {}
  /\ RunningThreads # {} => m_bThreadAlive \/ overtaken

\* While the owner resets the events, re-creates the critical section, replaces
\* the buffer or swaps the handle, no thread is there to use them (lines 173-241,
\* 168-194), unless one was overtaken.
OwnerAloneWhenRebuilding ==
  ~overtaken /\ opc \in {"reset", "sync", "lock", "open", "end"} => LiveThreads = {}

\* A handle in m_hComm is one the system still holds; only a thread that is
\* shutting down is between closing it and clearing it (lines 582-583), so as long
\* as that thread is the only one no CloseHandle acts on a stale value.
NoStaleHandle ==
  m_hComm = "OPEN" => osOpen \/ \E t \in Threads : pc[t] = "down1"

\* A thread sees the shutdown event only while the owner is waiting for it to
\* end: no event left over from an earlier close kills a new thread.
NoStaleShutdown ==
  ~overtaken /\ m_hShutdownEvent /\ opc \notin {"spin", "test", "gone"} => LiveThreads = {}

\* The critical section a failed InitPort leaves locked (line 343) never meets a
\* live thread, and one leaked by WriteChar never meets another thread: the owner
\* and the threads cannot wait on each other for it, unless a thread was overtaken.
NoLockStandoff ==
  ~overtaken /\ LiveThreads # {} => csHolder \in LiveThreads \cup {NoOne}

\* A port WriteToPort accepts (line 1200) has a write buffer, although ClosePort
\* frees it and a thread can turn a cleared handle back into INVALID (line 505).
WriteBufferPresent ==
  ~overtaken /\ m_hComm # "NULL" /\ opc = "idle" => m_szWriteBuffer

\* The port as its user may think of it: see PortSession.
Session == INSTANCE PortSession WITH
  Monitors <- Threads, Nobody <- NoThread,
  usable    <- m_hComm = "OPEN",
  monitor   <- IF LiveThreads = {} THEN NoThread ELSE CHOOSE t \in Threads : t \in LiveThreads,
  forfeited <- overtaken

\* Every step of CSerialPort is a step of PortSession or none: in particular the
\* flag falls only after the handle was cleared (lines 582-584), so a handle
\* opened later is never overwritten by the thread of the session before; and a
\* session that an overtaken thread spoiled is sound again after an InitPort that
\* finds no thread.
ImplementsSession == Session!Spec

\* ClosePort, InitPort and the destructor return, whatever the thread was doing,
\* even when it was suspended once or was inside SendMessage to the very owner
\* that waits for it (SerialPort.h lines 27 and 73), or overtake a thread.  They
\* resume the thread once: one that was suspended twice keeps them waiting for ever.
Resumed == \A t \in LiveThreads : suspended[t] = 0
CallsReturn ==
  opc # "idle" /\ Resumed /\ ~overtaken ~> opc \in {"idle", "gone"} \/ overtaken

-----------------------------------------------------------------------------
(* The inductive invariant behind the safety properties *)

\* What StartMonitoring finds after a successful InitPort.
ReadyIsQuiet ==
  ~overtaken /\ ready =>
     /\ opc = "idle" /\ m_hComm = "OPEN"
     /\ LiveThreads = {} /\ ~m_hShutdownEvent /\ csHolder = NoOne

\* What the steps of InitPort have established on the way.
InitProgress ==
  ~overtaken =>
     /\ opc \in {"sync", "lock", "open"} => ~m_hShutdownEvent
     /\ opc \in {"lock", "open"} => m_szWriteBuffer /\ ~csLeaked
     /\ opc = "lock" => csHolder = NoOne
     /\ opc = "open" => csHolder = Owner

\* Every call but StartMonitoring ends what a successful InitPort has made ready.
IdleUnready == opc # "idle" => ~ready

HandleCleared == ~overtaken => \A t \in Threads : pc[t] = "down2" => m_hComm = "NULL"

BufferKept ==
  ~overtaken /\ opc = "idle" /\ (m_hComm # "NULL" \/ LiveThreads # {}) => m_szWriteBuffer

IInv ==
  /\ TypeOK
  /\ AtMostOneThread
  /\ AliveTellsRunning
  /\ OwnerAloneWhenRebuilding
  /\ NoStaleHandle
  /\ NoStaleShutdown
  /\ NoLockStandoff
  /\ ReadyIsQuiet
  /\ IdleUnready
  /\ InitProgress
  /\ HandleCleared
  /\ BufferKept

=============================================================================
