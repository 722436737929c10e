-------------------------- MODULE SerialPortProofs --------------------------
(***************************************************************************)
(* Proofs about SerialPort, for any set of threads and any suspend bounds: *)
(* the types, the inductive invariant IInv, the safety properties that     *)
(* follow, and that SerialPort implements PortSession.  IInv promises most *)
(* of what it says unless a thread was overtaken, so its proof has four    *)
(* parts: what holds always (the flag, the handle), a step between states  *)
(* with nobody overtaken, a step that overtakes, and the InitPort that     *)
(* finds no thread and starts afresh.                                      *)
(***************************************************************************)
EXTENDS SerialPort, TLAPS

-----------------------------------------------------------------------------
(* Types *)

(* The suspend counts stay in range, whoever is resumed. *)
LEMMA ResumeType == ASSUME TypeOK, ResumeIfSuspended
                    PROVE suspended' \in [Threads -> 0..MaxSuspend]
BY SerialPortAssumption DEF TypeOK, ResumeIfSuspended

(* Every point a thread can be at, by name. *)
LEMMA PointSet ==
  /\ {"none", "created", "loop", "wait", "write", "writeIO", "writePend", "notify",
      "down1", "down2", "dead", "sendWait", "sendStr", "sendStatus", "boxWait",
      "boxLoop", "boxRead", "read", "readAgain", "readFile"} = Points
  /\ Running = Points \ {"none", "created", "dead"}
  /\ Live = Points \ {"none", "dead"}
BY DEF Points, Live, Running, SendPoints, BoxPoints, ReadPoints

(* TypeOK in parts: the port, the events, the lock and the flag; the owner; the
   threads. *)
ThreadsTyped ==
  /\ pc \in [Threads -> Points]
  /\ suspended \in [Threads -> 0..MaxSuspend]

OwnerTyped ==
  /\ m_Thread \in Threads \cup {NoThread}
  /\ opc \in {"idle", "spin", "test", "reset", "sync", "lock", "open", "end", "gone"}
  /\ call \in {"none", "InitPort", "ClosePort", "Destroy"}
  /\ ready \in BOOLEAN
  /\ m_szWriteBuffer \in BOOLEAN
  /\ overtaken \in BOOLEAN

PortTyped ==
  /\ m_hComm \in {"NULL", "INVALID", "OPEN"}
  /\ osOpen \in BOOLEAN
  /\ m_bThreadAlive \in BOOLEAN
  /\ m_hShutdownEvent \in BOOLEAN
  /\ m_hWriteEvent \in BOOLEAN
  /\ m_ovEvent \in BOOLEAN
  /\ csHolder \in Threads \cup {Owner, NoOne}
  /\ csLeaked \in BOOLEAN

\* A thread that goes to a control point keeps the types of threads and owner.
LEMMA GotoType ==
  ASSUME TypeOK, NEW t \in Threads, NEW from, NEW to \in Points, Goto(t, from, to)
  PROVE  ThreadsTyped' /\ OwnerTyped'
<1>1. ThreadsTyped'
  BY DEF TypeOK, ThreadsTyped, Goto
<1>2. OwnerTyped'
  BY DEF TypeOK, OwnerTyped, Goto, owner
<1>3. QED
  BY <1>1, <1>2

(* Dispatching sent messages moves threads from one live point to another. *)
LEMMA DispatchType ==
  ASSUME TypeOK, DispatchSent
  PROVE  /\ pc' \in [Threads -> Points]
         /\ LiveThreads' = LiveThreads
         /\ RunningThreads' = RunningThreads
         /\ \A t \in Threads : \A p \in {"created", "down1", "down2"} : pc'[t] = p <=> pc[t] = p
<1>1. \A t \in Threads : pc[t] \in Points /\ pc'[t] = AfterSend(pc[t])
  BY DEF TypeOK, DispatchSent
<1>2. \A p \in Points : /\ AfterSend(p) \in Points
                        /\ AfterSend(p) \in Running <=> p \in Running
                        /\ AfterSend(p) \in Live <=> p \in Live
                        /\ \A q \in {"created", "down1", "down2"} : AfterSend(p) = q <=> p = q
  BY PointSet DEF AfterSend
<1>3. pc' \in [Threads -> Points]
  BY <1>1, <1>2 DEF DispatchSent
<1>4. \A t \in Threads : /\ pc'[t] \in Running <=> pc[t] \in Running
                         /\ pc'[t] \in Live <=> pc[t] \in Live
  BY <1>1, <1>2
<1>5. \A t \in Threads : \A p \in {"created", "down1", "down2"} : pc'[t] = p <=> pc[t] = p
  BY <1>1, <1>2
<1>6. QED
  BY <1>3, <1>4, <1>5 DEF LiveThreads, RunningThreads

\* Every step keeps TypeOK.
LEMMA TypeStep == ASSUME TypeOK, [Next]_vars PROVE TypeOK'
<1> USE SerialPortAssumption
<1>1. CASE InitPort
  <2>1. PortTyped'
    BY <1>1 DEF InitPort, TypeOK, PortTyped, port, events, lock, threads
  <2>2. OwnerTyped'
    BY <1>1 DEF InitPort, ReadFlag, TypeOK, OwnerTyped, threads, owner
  <2>3. ThreadsTyped'
    BY <1>1, ResumeType DEF InitPort, TypeOK, ThreadsTyped, threads
  <2>4. QED
    BY <2>1, <2>2, <2>3 DEF TypeOK, PortTyped, OwnerTyped, ThreadsTyped
<1>2. CASE StartMonitoring
  <2>1. PortTyped'
    BY <1>2 DEF StartMonitoring, TypeOK, PortTyped, port, events, lock, threads
  <2>2. OwnerTyped'
    BY <1>2 DEF StartMonitoring, TypeOK, OwnerTyped, threads, owner
  <2>3. ThreadsTyped'
    <3>1. CASE UNCHANGED pc
      BY <1>2, <3>1 DEF StartMonitoring, TypeOK, ThreadsTyped
    <3>2. ASSUME NEW t \in Threads, pc' = [pc EXCEPT ![t] = "created"]
          PROVE  ThreadsTyped'
      BY <1>2, <3>2, PointSet DEF StartMonitoring, TypeOK, ThreadsTyped
    <3>3. QED
      BY <1>2, <3>1, <3>2 DEF StartMonitoring
  <2>4. QED
    BY <2>1, <2>2, <2>3 DEF TypeOK, PortTyped, OwnerTyped, ThreadsTyped
<1>3. CASE SuspendMonitoring
  <2>1. PortTyped'
    BY <1>3 DEF SuspendMonitoring, TypeOK, PortTyped, port, events, lock, threads
  <2>2. OwnerTyped'
    BY <1>3 DEF SuspendMonitoring, TypeOK, OwnerTyped, threads, owner
  <2>3. ThreadsTyped'
    BY <1>3 DEF SuspendMonitoring, TypeOK, ThreadsTyped, threads
  <2>4. QED
    BY <2>1, <2>2, <2>3 DEF TypeOK, PortTyped, OwnerTyped, ThreadsTyped
<1>4. CASE ResumeMonitoring
  <2>1. PortTyped'
    BY <1>4 DEF ResumeMonitoring, TypeOK, PortTyped, port, events, lock, threads
  <2>2. OwnerTyped'
    BY <1>4 DEF ResumeMonitoring, TypeOK, OwnerTyped, threads, owner
  <2>3. ThreadsTyped'
    BY <1>4, ResumeType DEF ResumeMonitoring, TypeOK, ThreadsTyped, threads
  <2>4. QED
    BY <2>1, <2>2, <2>3 DEF TypeOK, PortTyped, OwnerTyped, ThreadsTyped
<1>5. CASE WriteToPort
  <2>1. PortTyped'
    BY <1>5 DEF WriteToPort, TypeOK, PortTyped, port, events, lock, threads
  <2>2. OwnerTyped'
    BY <1>5 DEF WriteToPort, TypeOK, OwnerTyped, threads, owner
  <2>3. ThreadsTyped'
    BY <1>5 DEF WriteToPort, TypeOK, ThreadsTyped, threads
  <2>4. QED
    BY <2>1, <2>2, <2>3 DEF TypeOK, PortTyped, OwnerTyped, ThreadsTyped
<1>6. CASE ClosePort
  <2>1. PortTyped'
    BY <1>6 DEF ClosePort, Shut, TypeOK, PortTyped, port, events, lock, threads
  <2>2. OwnerTyped'
    BY <1>6 DEF ClosePort, Shut, TypeOK, OwnerTyped, threads, owner
  <2>3. ThreadsTyped'
    BY <1>6, ResumeType DEF ClosePort, Shut, TypeOK, ThreadsTyped, threads
  <2>4. QED
    BY <2>1, <2>2, <2>3 DEF TypeOK, PortTyped, OwnerTyped, ThreadsTyped
<1>7. CASE Destroy
  <2>1. PortTyped'
    BY <1>7 DEF Destroy, Shut, TypeOK, PortTyped, port, events, lock, threads
  <2>2. OwnerTyped'
    BY <1>7 DEF Destroy, Shut, TypeOK, OwnerTyped, threads, owner
  <2>3. ThreadsTyped'
    BY <1>7, ResumeType DEF Destroy, Shut, TypeOK, ThreadsTyped, threads
  <2>4. QED
    BY <2>1, <2>2, <2>3 DEF TypeOK, PortTyped, OwnerTyped, ThreadsTyped
<1>8. CASE Spin
  <2>1. PortTyped'
    BY <1>8 DEF Spin, TypeOK, PortTyped, port, events, lock, threads
  <2>2. OwnerTyped'
    BY <1>8 DEF Spin, TypeOK, OwnerTyped, threads, owner
  <2>3. ThreadsTyped'
    BY <1>8, DispatchType DEF Spin, TypeOK, ThreadsTyped, threads
  <2>4. QED
    BY <2>1, <2>2, <2>3 DEF TypeOK, PortTyped, OwnerTyped, ThreadsTyped
<1>9. CASE SpinTest
  <2>1. PortTyped'
    BY <1>9 DEF SpinTest, TypeOK, PortTyped, port, events, lock, threads
  <2>2. OwnerTyped'
    BY <1>9 DEF SpinTest, ReadFlag, TypeOK, OwnerTyped, threads, owner
  <2>3. ThreadsTyped'
    BY <1>9 DEF SpinTest, TypeOK, ThreadsTyped, threads
  <2>4. QED
    BY <2>1, <2>2, <2>3 DEF TypeOK, PortTyped, OwnerTyped, ThreadsTyped
<1>10. CASE InitResetEvents
  <2>1. PortTyped'
    BY <1>10 DEF InitResetEvents, TypeOK, PortTyped, port, events, lock, threads
  <2>2. OwnerTyped'
    BY <1>10 DEF InitResetEvents, TypeOK, OwnerTyped, threads, owner
  <2>3. ThreadsTyped'
    BY <1>10 DEF InitResetEvents, TypeOK, ThreadsTyped, threads
  <2>4. QED
    BY <2>1, <2>2, <2>3 DEF TypeOK, PortTyped, OwnerTyped, ThreadsTyped
<1>11. CASE InitSync
  <2>1. PortTyped'
    BY <1>11 DEF InitSync, TypeOK, PortTyped, port, events, lock, threads
  <2>2. OwnerTyped'
    BY <1>11 DEF InitSync, TypeOK, OwnerTyped, threads, owner
  <2>3. ThreadsTyped'
    BY <1>11 DEF InitSync, TypeOK, ThreadsTyped, threads
  <2>4. QED
    BY <2>1, <2>2, <2>3 DEF TypeOK, PortTyped, OwnerTyped, ThreadsTyped
<1>12. CASE InitLock
  <2>1. PortTyped'
    BY <1>12 DEF InitLock, CloseHandle, Enter, TypeOK, PortTyped, port, events, lock, threads
  <2>2. OwnerTyped'
    BY <1>12 DEF InitLock, CloseHandle, Enter, TypeOK, OwnerTyped, threads, owner
  <2>3. ThreadsTyped'
    BY <1>12 DEF InitLock, CloseHandle, Enter, TypeOK, ThreadsTyped, threads
  <2>4. QED
    BY <2>1, <2>2, <2>3 DEF TypeOK, PortTyped, OwnerTyped, ThreadsTyped
<1>13. CASE InitOpen
  <2>1. PortTyped'
    BY <1>13 DEF InitOpen, Leave, TypeOK, PortTyped, port, events, lock, threads
  <2>2. OwnerTyped'
    BY <1>13 DEF InitOpen, Leave, TypeOK, OwnerTyped, threads, owner
  <2>3. ThreadsTyped'
    BY <1>13 DEF InitOpen, Leave, TypeOK, ThreadsTyped, threads
  <2>4. QED
    BY <2>1, <2>2, <2>3 DEF TypeOK, PortTyped, OwnerTyped, ThreadsTyped
<1>14. CASE ShutEnd
  <2>1. PortTyped'
    BY <1>14 DEF ShutEnd, CloseHandle, TypeOK, PortTyped, port, events, lock, threads
  <2>2. OwnerTyped'
    BY <1>14 DEF ShutEnd, CloseHandle, TypeOK, OwnerTyped, threads, owner
  <2>3. ThreadsTyped'
    BY <1>14 DEF ShutEnd, CloseHandle, TypeOK, ThreadsTyped, threads
  <2>4. QED
    BY <2>1, <2>2, <2>3 DEF TypeOK, PortTyped, OwnerTyped, ThreadsTyped
<1>15. CASE OwnerPump
  <2>1. PortTyped'
    BY <1>15 DEF OwnerPump, TypeOK, PortTyped, port, events, lock, threads
  <2>2. OwnerTyped'
    BY <1>15 DEF OwnerPump, TypeOK, OwnerTyped, threads, owner
  <2>3. ThreadsTyped'
    BY <1>15, DispatchType DEF OwnerPump, TypeOK, ThreadsTyped, threads
  <2>4. QED
    BY <2>1, <2>2, <2>3 DEF TypeOK, PortTyped, OwnerTyped, ThreadsTyped
<1>16. CASE DeviceEvent
  <2>1. PortTyped'
    BY <1>16 DEF DeviceEvent, TypeOK, PortTyped, port, events, lock, threads
  <2>2. OwnerTyped'
    BY <1>16 DEF DeviceEvent, TypeOK, OwnerTyped, threads, owner
  <2>3. ThreadsTyped'
    BY <1>16 DEF DeviceEvent, TypeOK, ThreadsTyped, threads
  <2>4. QED
    BY <2>1, <2>2, <2>3 DEF TypeOK, PortTyped, OwnerTyped, ThreadsTyped
<1>17. ASSUME NEW t \in Threads, ThreadStart(t) PROVE TypeOK'
  <2>1. ThreadsTyped' /\ OwnerTyped'
    BY <1>17, GotoType, PointSet DEF ThreadStart
  <2>2. PortTyped'
    BY <1>17 DEF ThreadStart, TypeOK, PortTyped, port, events, lock
  <2>3. QED
    BY <2>1, <2>2 DEF TypeOK, PortTyped, OwnerTyped, ThreadsTyped
<1>18. ASSUME NEW t \in Threads, CommEventOk(t) PROVE TypeOK'
  <2>1. ThreadsTyped' /\ OwnerTyped'
    BY <1>18, GotoType, PointSet DEF CommEventOk
  <2>2. PortTyped'
    BY <1>18 DEF CommEventOk, TypeOK, PortTyped, port, events, lock
  <2>3. QED
    BY <2>1, <2>2 DEF TypeOK, PortTyped, OwnerTyped, ThreadsTyped
<1>19. ASSUME NEW t \in Threads, CommEventFails(t) PROVE TypeOK'
  <2>1. ThreadsTyped' /\ OwnerTyped'
    BY <1>19, GotoType, PointSet DEF CommEventFails
  <2>2. PortTyped'
    BY <1>19 DEF CommEventFails, TypeOK, PortTyped, port, events, lock
  <2>3. QED
    BY <2>1, <2>2 DEF TypeOK, PortTyped, OwnerTyped, ThreadsTyped
<1>20. ASSUME NEW t \in Threads, ShutdownClose(t) PROVE TypeOK'
  <2>1. ThreadsTyped' /\ OwnerTyped'
    BY <1>20, GotoType, PointSet DEF ShutdownClose
  <2>2. PortTyped'
    BY <1>20 DEF ShutdownClose, CloseHandle, TypeOK, PortTyped, port, events, lock
  <2>3. QED
    BY <2>1, <2>2 DEF TypeOK, PortTyped, OwnerTyped, ThreadsTyped
<1>21. ASSUME NEW t \in Threads, ShutdownClear(t) PROVE TypeOK'
  <2>1. ThreadsTyped' /\ OwnerTyped'
    BY <1>21, GotoType, PointSet DEF ShutdownClear
  <2>2. PortTyped'
    BY <1>21 DEF ShutdownClear, TypeOK, PortTyped, port, events, lock
  <2>3. QED
    BY <2>1, <2>2 DEF TypeOK, PortTyped, OwnerTyped, ThreadsTyped
<1>22. ASSUME NEW t \in Threads, ShutdownExit(t) PROVE TypeOK'
  <2>1. ThreadsTyped' /\ OwnerTyped'
    BY <1>22, GotoType, PointSet DEF ShutdownExit
  <2>2. PortTyped'
    BY <1>22 DEF ShutdownExit, TypeOK, PortTyped, port, events, lock
  <2>3. QED
    BY <2>1, <2>2 DEF TypeOK, PortTyped, OwnerTyped, ThreadsTyped
<1>23. ASSUME NEW t \in Threads, WriteBegin(t) PROVE TypeOK'
  <2>1. ThreadsTyped' /\ OwnerTyped'
    BY <1>23, GotoType, PointSet DEF WriteBegin
  <2>2. PortTyped'
    BY <1>23 DEF WriteBegin, TypeOK, PortTyped, port, events, lock
  <2>3. QED
    BY <2>1, <2>2 DEF TypeOK, PortTyped, OwnerTyped, ThreadsTyped
<1>24. ASSUME NEW t \in Threads, WriteEnter(t) PROVE TypeOK'
  <2>1. ThreadsTyped' /\ OwnerTyped'
    BY <1>24, GotoType, PointSet DEF WriteEnter
  <2>2. PortTyped'
    BY <1>24 DEF WriteEnter, Enter, TypeOK, PortTyped, port, events, lock
  <2>3. QED
    BY <2>1, <2>2 DEF TypeOK, PortTyped, OwnerTyped, ThreadsTyped
<1>25. ASSUME NEW t \in Threads, WriteDone(t) PROVE TypeOK'
  <2>1. ThreadsTyped' /\ OwnerTyped'
    BY <1>25, GotoType, PointSet DEF WriteDone
  <2>2. PortTyped'
    BY <1>25 DEF WriteDone, Leave, TypeOK, PortTyped, port, events, lock
  <2>3. QED
    BY <2>1, <2>2 DEF TypeOK, PortTyped, OwnerTyped, ThreadsTyped
<1>26. ASSUME NEW t \in Threads, WritePending(t) PROVE TypeOK'
  <2>1. ThreadsTyped' /\ OwnerTyped'
    BY <1>26, GotoType, PointSet DEF WritePending
  <2>2. PortTyped'
    BY <1>26 DEF WritePending, TypeOK, PortTyped, port, events, lock
  <2>3. QED
    BY <2>1, <2>2 DEF TypeOK, PortTyped, OwnerTyped, ThreadsTyped
<1>27. ASSUME NEW t \in Threads, WriteFails(t) PROVE TypeOK'
  <2>1. ThreadsTyped' /\ OwnerTyped'
    BY <1>27, GotoType, PointSet DEF WriteFails
  <2>2. PortTyped'
    BY <1>27 DEF WriteFails, TypeOK, PortTyped, port, events, lock
  <2>3. QED
    BY <2>1, <2>2 DEF TypeOK, PortTyped, OwnerTyped, ThreadsTyped
<1>28. ASSUME NEW t \in Threads, ReadBegin(t) PROVE TypeOK'
  <2>1. ThreadsTyped' /\ OwnerTyped'
    BY <1>28, GotoType, PointSet DEF ReadBegin
  <2>2. PortTyped'
    BY <1>28 DEF ReadBegin, TypeOK, PortTyped, port, events, lock
  <2>3. QED
    BY <2>1, <2>2 DEF TypeOK, PortTyped, OwnerTyped, ThreadsTyped
<1>29. ASSUME NEW t \in Threads, ReceiveStop(t) PROVE TypeOK'
  <2>1. ThreadsTyped' /\ OwnerTyped'
    BY <1>29, GotoType, PointSet DEF ReceiveStop
  <2>2. PortTyped'
    BY <1>29 DEF ReceiveStop, TypeOK, PortTyped, port, events, lock
  <2>3. QED
    BY <2>1, <2>2 DEF TypeOK, PortTyped, OwnerTyped, ThreadsTyped
<1>30. ASSUME NEW t \in Threads, ReceiveMore(t) PROVE TypeOK'
  <2>1. ThreadsTyped' /\ OwnerTyped'
    BY <1>30, GotoType, PointSet DEF ReceiveMore
  <2>2. PortTyped'
    BY <1>30 DEF ReceiveMore, TypeOK, PortTyped, port, events, lock
  <2>3. QED
    BY <2>1, <2>2 DEF TypeOK, PortTyped, OwnerTyped, ThreadsTyped
<1>31. ASSUME NEW t \in Threads, ReadFile(t) PROVE TypeOK'
  <2>1. ThreadsTyped' /\ OwnerTyped'
    BY <1>31, GotoType, PointSet DEF ReadFile
  <2>2. PortTyped'
    BY <1>31 DEF ReadFile, TypeOK, PortTyped, port, events, lock
  <2>3. QED
    BY <2>1, <2>2 DEF TypeOK, PortTyped, OwnerTyped, ThreadsTyped
<1>32. ASSUME NEW t \in Threads, ReadFails(t) PROVE TypeOK'
  <2>1. ThreadsTyped' /\ OwnerTyped'
    BY <1>32, GotoType, PointSet DEF ReadFails
  <2>2. PortTyped'
    BY <1>32 DEF ReadFails, Enter, TypeOK, PortTyped, port, events, lock
  <2>3. QED
    BY <2>1, <2>2 DEF TypeOK, PortTyped, OwnerTyped, ThreadsTyped
<1>33. ASSUME NEW t \in Threads, Notify(t) PROVE TypeOK'
  <2>1. ThreadsTyped' /\ OwnerTyped'
    BY <1>33, GotoType, PointSet DEF Notify
  <2>2. PortTyped'
    BY <1>33 DEF Notify, TypeOK, PortTyped, port, events, lock
  <2>3. QED
    BY <2>1, <2>2 DEF TypeOK, PortTyped, OwnerTyped, ThreadsTyped
<1>34. ASSUME NEW t \in Threads, Dismiss(t) PROVE TypeOK'
  <2>1. ThreadsTyped' /\ OwnerTyped'
    BY <1>34, GotoType, PointSet DEF Dismiss
  <2>2. PortTyped'
    BY <1>34 DEF Dismiss, Leave, TypeOK, PortTyped, port, events, lock
  <2>3. QED
    BY <2>1, <2>2 DEF TypeOK, PortTyped, OwnerTyped, ThreadsTyped
<1>35. CASE UNCHANGED vars
  BY <1>35 DEF vars, TypeOK, port, events, lock, threads, owner
<1>36. QED
  BY <1>1, <1>2, <1>3, <1>4, <1>5, <1>6, <1>7, <1>8, <1>9, <1>10, <1>11, <1>12, <1>13, <1>14, <1>15, <1>16, <1>17, <1>18, <1>19, <1>20, <1>21, <1>22, <1>23, <1>24, <1>25, <1>26, <1>27, <1>28, <1>29, <1>30, <1>31, <1>32, <1>33, <1>34, <1>35
  DEF Next, OwnerCalls, OwnerInCall, ThreadStep

\* TypeOK holds at the start.
LEMMA TypeInit == Init => TypeOK
<1> SUFFICES ASSUME Init PROVE TypeOK
  OBVIOUS
<1>1. PortTyped
  BY DEF Init, PortTyped
<1>2. OwnerTyped
  BY DEF Init, OwnerTyped
<1>3. ThreadsTyped
  BY SerialPortAssumption, PointSet DEF Init, ThreadsTyped
<1>4. QED
  BY <1>1, <1>2, <1>3 DEF TypeOK, PortTyped, OwnerTyped, ThreadsTyped

(* The variables have their types in every state, overtaken threads or not. *)
THEOREM TypeCorrect == Spec => []TypeOK
<1>1. TypeOK /\ [Next]_vars => TypeOK'
  BY TypeStep
<1>2. QED
  BY <1>1, TypeInit, PTL DEF Spec

-----------------------------------------------------------------------------
(* The inductive invariant *)

(* A thread's move between two points of its run changes no set of threads. *)
LEMMA MoveSets ==
  ASSUME TypeOK, NEW t \in Threads, NEW from \in Running, NEW to \in Running,
         Goto(t, from, to)
  PROVE  /\ LiveThreads' = LiveThreads /\ t \in LiveThreads
         /\ RunningThreads' = RunningThreads /\ t \in RunningThreads
         /\ pc'[t] = to /\ \A s \in Threads \ {t} : pc'[s] = pc[s]
         /\ UNCHANGED <<opc, call, ready, m_szWriteBuffer, overtaken>>
<1>1. pc' = [pc EXCEPT ![t] = to] /\ pc[t] = from /\ UNCHANGED owner
  BY DEF Goto
<1>2. pc'[t] = to /\ \A s \in Threads \ {t} : pc'[s] = pc[s]
  BY <1>1 DEF TypeOK
<1>3. from \in Live /\ to \in Live
  BY DEF Live
<1>4. \A s \in Threads : /\ pc'[s] \in Live <=> pc[s] \in Live
                         /\ pc'[s] \in Running <=> pc[s] \in Running
  BY <1>1, <1>2, <1>3
<1>5. QED
  BY <1>1, <1>2, <1>3, <1>4 DEF LiveThreads, RunningThreads, owner

(* The conjuncts of the invariant that speak of the owner's progress, of the flag
   and of the number of threads survive any such move. *)
LEMMA MoveKeepsOwnerFacts ==
  ASSUME IInv, ~overtaken, NEW t \in Threads, NEW from \in Running, NEW to \in Running,
         Goto(t, from, to), UNCHANGED <<m_bThreadAlive, m_hShutdownEvent>>
  PROVE  /\ AtMostOneThread' /\ AliveTellsRunning' /\ OwnerAloneWhenRebuilding'
         /\ NoStaleShutdown' /\ ReadyIsQuiet' /\ IdleUnready' /\ InitProgress' /\ BufferKept'
<1>1. /\ LiveThreads' = LiveThreads /\ t \in LiveThreads
      /\ RunningThreads' = RunningThreads
      /\ pc'[t] = to /\ \A s \in Threads \ {t} : pc'[s] = pc[s]
      /\ UNCHANGED <<opc, call, ready, m_szWriteBuffer, overtaken>>
  BY MoveSets DEF IInv
<1>2. AtMostOneThread' /\ AliveTellsRunning' /\ OwnerAloneWhenRebuilding' /\ NoStaleShutdown'
  BY <1>1 DEF IInv, AtMostOneThread, AliveTellsRunning, OwnerAloneWhenRebuilding, NoStaleShutdown
<1>3. ~ready /\ opc \notin {"reset", "sync", "lock", "open", "end"}
  BY <1>1 DEF IInv, ReadyIsQuiet, OwnerAloneWhenRebuilding
<1>4. ReadyIsQuiet' /\ IdleUnready' /\ InitProgress'
  BY <1>1, <1>3 DEF ReadyIsQuiet, IdleUnready, InitProgress
<1>5. BufferKept'
  BY <1>1 DEF IInv, BufferKept
<1>6. QED
  BY <1>2, <1>4, <1>5

(* The running thread is the only one at any live point. *)
LEMMA OnlyOne ==
  ASSUME IInv, ~overtaken, NEW t \in LiveThreads, NEW s \in Threads, pc[s] \in Live
  PROVE  s = t
BY DEF IInv, AtMostOneThread, LiveThreads

(* A move that neither opens a handle nor ends a shutdown, and leaves the critical
   section to itself, to nobody or to whom it was. *)
LEMMA MovePreserves ==
  ASSUME IInv, ~overtaken, TypeOK', NEW t \in Threads,
         NEW from \in Running \ {"down1"}, NEW to \in Running \ {"down2"},
         Goto(t, from, to), UNCHANGED <<m_bThreadAlive, m_hShutdownEvent, osOpen>>,
         m_hComm' = "OPEN" => m_hComm = "OPEN",
         csHolder' \in {csHolder, t, NoOne}
  PROVE  IInv'
<1>1. /\ LiveThreads' = LiveThreads /\ t \in LiveThreads
      /\ pc[t] = from /\ pc'[t] = to /\ \A s \in Threads \ {t} : pc'[s] = pc[s]
  BY MoveSets DEF IInv, Goto
<1>2. \A s \in Threads : pc[s] \in {"down1", "down2"} => s = t
  BY <1>1, OnlyOne, PointSet
<1>3. NoStaleHandle'
  BY <1>1, <1>2 DEF IInv, NoStaleHandle
<1>4. HandleCleared'
  BY <1>1, <1>2 DEF HandleCleared
<1>5. NoLockStandoff'
  BY <1>1 DEF IInv, NoLockStandoff
<1>6. QED
  BY <1>3, <1>4, <1>5, MoveKeepsOwnerFacts DEF IInv

(* An owner's step that moves no thread and touches neither the lock nor the port
   keeps the facts about them. *)
LEMMA OwnerKeepsPortFacts ==
  ASSUME IInv, ~overtaken, ~overtaken', LiveThreads' = LiveThreads,
         RunningThreads' = RunningThreads,
         \A t \in Threads : \A p \in {"created", "down1", "down2"} : pc'[t] = p <=> pc[t] = p,
         UNCHANGED <<port, lock, m_bThreadAlive>>
  PROVE  /\ AtMostOneThread' /\ AliveTellsRunning' /\ NoStaleHandle' /\ NoLockStandoff'
         /\ HandleCleared'
<1>1. AtMostOneThread' /\ AliveTellsRunning' /\ NoLockStandoff'
  BY DEF IInv, AtMostOneThread, AliveTellsRunning, NoLockStandoff, lock
<1>2. NoStaleHandle' /\ HandleCleared'
  BY DEF IInv, NoStaleHandle, HandleCleared, port
<1>3. QED
  BY <1>1, <1>2
(* No flag and no thread before its first line: nobody is there. *)
LEMMA NobodyLive ==
  ASSUME TypeOK, AliveTellsRunning, ~overtaken, ~m_bThreadAlive, \A t \in Threads : pc[t] # "created"
  PROVE  LiveThreads = {}
BY DEF AliveTellsRunning, LiveThreads, RunningThreads, Live

(* A step that changes nothing the invariant speaks of beyond its types. *)
LEMMA IdleKeeps ==
  ASSUME IInv, ~overtaken, TypeOK', UNCHANGED <<port, lock, owner, m_bThreadAlive, m_hShutdownEvent, pc>>
  PROVE  IInv'
<1>1. /\ AtMostOneThread' /\ AliveTellsRunning' /\ OwnerAloneWhenRebuilding'
      /\ NoStaleHandle' /\ NoStaleShutdown' /\ NoLockStandoff'
  BY DEF IInv, AtMostOneThread, AliveTellsRunning, OwnerAloneWhenRebuilding, NoStaleHandle,
         NoStaleShutdown, NoLockStandoff, LiveThreads, RunningThreads, port, lock, owner
<1>2. ReadyIsQuiet' /\ IdleUnready' /\ InitProgress' /\ HandleCleared' /\ BufferKept'
  BY DEF IInv, ReadyIsQuiet, IdleUnready, InitProgress, HandleCleared, BufferKept,
         LiveThreads, port, lock, owner
<1>3. QED
  BY <1>1, <1>2 DEF IInv

(* The owner's calls. *)
LEMMA OwnerCallsKeep ==
  ASSUME IInv, ~overtaken, ~overtaken', TypeOK', OwnerCalls PROVE IInv'
<1>1. CASE InitPort
  <2>1. /\ UNCHANGED <<port, events, lock, m_bThreadAlive, pc>>
        /\ ready' = FALSE /\ opc' \in {"spin", "reset"}
        /\ opc' = "reset" => ~m_bThreadAlive
    BY <1>1 DEF InitPort
  <2>2. opc' = "reset" => \A t \in Threads : pc[t] # "created"
    BY <1>1, <2>1 DEF InitPort, ReadFlag
  <2>3. LiveThreads' = LiveThreads /\ RunningThreads' = RunningThreads
    BY <2>1 DEF LiveThreads, RunningThreads
  <2>4. opc' = "reset" => LiveThreads = {}
    BY <2>1, <2>2, NobodyLive DEF IInv
  <2>5. OwnerAloneWhenRebuilding' /\ NoStaleShutdown'
        /\ ReadyIsQuiet' /\ IdleUnready' /\ InitProgress' /\ BufferKept'
    BY <2>1, <2>3, <2>4 DEF OwnerAloneWhenRebuilding, NoStaleShutdown,
       ReadyIsQuiet, IdleUnready, InitProgress, BufferKept
  <2>6. QED
    BY <2>1, <2>3, <2>5, OwnerKeepsPortFacts DEF IInv
<1>2. CASE StartMonitoring
  <2>1. /\ ready /\ opc = "idle" /\ opc' = "idle"
        /\ UNCHANGED <<m_hComm, osOpen, m_hShutdownEvent, csHolder, csLeaked, m_bThreadAlive,
                       m_szWriteBuffer>>
    BY <1>2 DEF StartMonitoring, port, events, lock
  <2>2. /\ m_hComm = "OPEN" /\ LiveThreads = {} /\ ~m_hShutdownEvent /\ csHolder = NoOne
        /\ m_szWriteBuffer
    BY <2>1 DEF IInv, ReadyIsQuiet, BufferKept
  <2>3. ASSUME NEW t \in Threads, pc[t] = "none", pc' = [pc EXCEPT ![t] = "created"],
               ready' = FALSE
        PROVE  IInv'
    <3>1. pc'[t] = "created" /\ \A s \in Threads \ {t} : pc'[s] = pc[s]
      BY <2>3 DEF IInv, TypeOK
    <3>2. LiveThreads' = {t} /\ RunningThreads' = RunningThreads
      BY <2>2, <2>3, <3>1, PointSet DEF LiveThreads, RunningThreads
    <3>3. AtMostOneThread' /\ AliveTellsRunning' /\ OwnerAloneWhenRebuilding'
          /\ NoStaleShutdown' /\ NoLockStandoff'
      BY <2>1, <2>2, <3>2 DEF IInv, AtMostOneThread, AliveTellsRunning,
         OwnerAloneWhenRebuilding, NoStaleShutdown, NoLockStandoff
    <3>4. NoStaleHandle' /\ HandleCleared'
      BY <2>1, <2>3, <3>1 DEF IInv, NoStaleHandle, HandleCleared
    <3>5. ReadyIsQuiet' /\ IdleUnready' /\ InitProgress' /\ BufferKept'
      BY <2>1, <2>2, <2>3 DEF ReadyIsQuiet, IdleUnready, InitProgress, BufferKept
    <3>6. QED
      BY <3>3, <3>4, <3>5 DEF IInv
  <2>4. CASE UNCHANGED <<pc, ready>>
    BY <1>2, <2>4, IdleKeeps DEF StartMonitoring, owner, events
  <2>5. QED
    BY <1>2, <2>3, <2>4 DEF StartMonitoring
<1>3. CASE SuspendMonitoring
  BY <1>3, IdleKeeps DEF SuspendMonitoring, events
<1>4. CASE ResumeMonitoring
  BY <1>4, IdleKeeps DEF ResumeMonitoring, events
<1>5. CASE WriteToPort
  BY <1>5, IdleKeeps DEF WriteToPort, threads
<1>6. ASSUME NEW method \in {"ClosePort", "Destroy"}, Shut(method) PROVE IInv'
  <2>1. /\ opc = "idle" /\ ready' = FALSE
        /\ UNCHANGED <<osOpen, events, lock, m_bThreadAlive, pc, m_szWriteBuffer>>
    BY <1>6 DEF Shut
  <2>2. LiveThreads' = LiveThreads /\ RunningThreads' = RunningThreads
    BY <2>1 DEF LiveThreads, RunningThreads
  <2>3. \/ m_hComm' = "NULL" /\ opc' \in {"idle", "gone"}
        \/ m_hComm' = m_hComm /\ opc' = "spin"
    BY <1>6 DEF Shut
  <2>4. AtMostOneThread' /\ AliveTellsRunning' /\ NoLockStandoff'
    BY <2>1, <2>2 DEF IInv, AtMostOneThread, AliveTellsRunning, NoLockStandoff, lock
  <2>5. OwnerAloneWhenRebuilding' /\ NoStaleShutdown'
    BY <2>1, <2>2, <2>3 DEF IInv, OwnerAloneWhenRebuilding, NoStaleShutdown, events
  <2>6. NoStaleHandle' /\ HandleCleared'
    BY <2>1, <2>3 DEF IInv, NoStaleHandle, HandleCleared
  <2>7. ReadyIsQuiet' /\ IdleUnready' /\ InitProgress' /\ BufferKept'
    BY <2>1, <2>2, <2>3 DEF IInv, ReadyIsQuiet, IdleUnready, InitProgress, BufferKept
  <2>8. QED
    BY <2>4, <2>5, <2>6, <2>7 DEF IInv
<1>7. QED
  BY <1>1, <1>2, <1>3, <1>4, <1>5, <1>6 DEF OwnerCalls, ClosePort, Destroy

(* The owner inside a call. *)
LEMMA OwnerInCallKeeps ==
  ASSUME IInv, ~overtaken, ~overtaken', TypeOK', OwnerInCall PROVE IInv'
<1>1. CASE Spin
  <2>1. /\ opc = "spin" /\ opc' = "test" /\ DispatchSent
        /\ UNCHANGED <<port, lock, m_bThreadAlive, ready>>
    BY <1>1 DEF Spin
  <2>2. ~ready
    BY <2>1 DEF IInv, IdleUnready
  <2>3. OwnerAloneWhenRebuilding' /\ NoStaleShutdown' /\ ReadyIsQuiet' /\ IdleUnready'
        /\ InitProgress' /\ BufferKept'
    BY <2>1, <2>2 DEF OwnerAloneWhenRebuilding, NoStaleShutdown, ReadyIsQuiet, IdleUnready,
       InitProgress, BufferKept
  <2>4. QED
    BY <2>1, <2>3, DispatchType, OwnerKeepsPortFacts DEF IInv
<1>2. CASE SpinTest
  <2>1. /\ opc = "test" /\ opc' \in {"spin", "reset", "end"}
        /\ opc' # "spin" => ~m_bThreadAlive
        /\ UNCHANGED <<port, events, lock, threads, ready>>
    BY <1>2 DEF SpinTest
  <2>2. ~ready /\ (opc' # "spin" => \A t \in Threads : pc[t] # "created")
    BY <1>2, <2>1 DEF IInv, IdleUnready, SpinTest, ReadFlag
  <2>3. LiveThreads' = LiveThreads /\ RunningThreads' = RunningThreads
        /\ UNCHANGED <<pc, m_bThreadAlive>>
    BY <2>1 DEF LiveThreads, RunningThreads, threads
  <2>4. opc' # "spin" => LiveThreads = {}
    BY <2>1, <2>2, NobodyLive DEF IInv
  <2>5. OwnerAloneWhenRebuilding' /\ NoStaleShutdown' /\ ReadyIsQuiet' /\ IdleUnready'
        /\ InitProgress' /\ BufferKept'
    BY <2>1, <2>2, <2>3, <2>4 DEF OwnerAloneWhenRebuilding, NoStaleShutdown, ReadyIsQuiet,
       IdleUnready, InitProgress, BufferKept
  <2>6. QED
    BY <2>1, <2>3, <2>5, OwnerKeepsPortFacts DEF IInv
<1>3. ASSUME InitResetEvents \/ InitSync \/ InitLock \/ InitOpen \/ ShutEnd PROVE IInv'
  <2>1. /\ opc \in {"reset", "sync", "lock", "open", "end"} /\ UNCHANGED threads
    BY <1>3 DEF InitResetEvents, InitSync, InitLock, InitOpen, ShutEnd
  <2>2. LiveThreads = {} /\ ~ready
    BY <2>1 DEF IInv, OwnerAloneWhenRebuilding, IdleUnready
  <2>3. \A t \in Threads : pc[t] \notin {"created", "down1", "down2"}
    BY <2>2, PointSet DEF LiveThreads
  <2>4. LiveThreads' = {} /\ UNCHANGED <<pc, m_bThreadAlive, RunningThreads>>
    BY <2>1, <2>2 DEF threads, LiveThreads, RunningThreads
  <2>5. AtMostOneThread' /\ AliveTellsRunning' /\ OwnerAloneWhenRebuilding' /\ NoStaleShutdown'
        /\ NoLockStandoff' /\ HandleCleared'
    BY <2>3, <2>4 DEF IInv, AtMostOneThread, AliveTellsRunning, OwnerAloneWhenRebuilding,
       NoStaleShutdown, NoLockStandoff, HandleCleared
  <2>6. NoStaleHandle' /\ ReadyIsQuiet' /\ IdleUnready' /\ InitProgress' /\ BufferKept'
    <3> USE DEF IInv, NoStaleHandle, ReadyIsQuiet, IdleUnready, InitProgress, BufferKept, port, lock, events
    <3>1. CASE InitResetEvents
      BY <3>1, <2>2, <2>3, <2>4 DEF InitResetEvents
    <3>2. CASE InitSync
      BY <3>2, <2>2, <2>3, <2>4 DEF InitSync
    <3>3. CASE InitLock
      BY <3>3, <2>2, <2>3, <2>4 DEF InitLock, Enter
    <3>4. CASE InitOpen
      BY <3>4, <2>2, <2>3, <2>4 DEF InitOpen, Leave
    <3>5. CASE ShutEnd
      BY <3>5, <2>2, <2>3, <2>4 DEF ShutEnd
    <3>6. QED
      BY <1>3, <3>1, <3>2, <3>3, <3>4, <3>5
  <2>7. QED
    BY <2>5, <2>6 DEF IInv
<1>4. QED
  BY <1>1, <1>2, <1>3 DEF OwnerInCall

(* The owner's message loop. *)
LEMMA OwnerPumpKeeps ==
  ASSUME IInv, ~overtaken, ~overtaken', TypeOK', OwnerPump PROVE IInv'
<1>1. /\ DispatchSent /\ UNCHANGED <<port, events, lock, m_bThreadAlive, owner>>
  BY DEF OwnerPump
<1>2. LiveThreads' = LiveThreads
  BY <1>1, DispatchType DEF IInv
<1>3. OwnerAloneWhenRebuilding' /\ NoStaleShutdown' /\ ReadyIsQuiet' /\ IdleUnready'
      /\ InitProgress' /\ BufferKept'
  BY <1>1, <1>2 DEF IInv, OwnerAloneWhenRebuilding, NoStaleShutdown, ReadyIsQuiet, IdleUnready,
     InitProgress, BufferKept, port, lock, events, owner
<1>4. QED
  BY <1>1, <1>3, DispatchType, OwnerKeepsPortFacts DEF IInv

(* The comm thread. *)
LEMMA ThreadKeeps ==
  ASSUME IInv, ~overtaken, TypeOK', NEW t \in Threads, ThreadStep(t) \/ Dismiss(t)
  PROVE  IInv'
<1>1. CASE ThreadStart(t)
  <2>1. pc[t] = "created" /\ pc' = [pc EXCEPT ![t] = "loop"] /\ m_bThreadAlive'
        /\ UNCHANGED <<port, events, lock, owner>>
    BY <1>1 DEF ThreadStart, Goto
  <2>2. pc'[t] = "loop" /\ \A s \in Threads \ {t} : pc'[s] = pc[s]
    BY <2>1 DEF IInv, TypeOK
  <2>3. t \in LiveThreads /\ ~ready /\ opc \notin {"reset", "sync", "lock", "open", "end"}
    BY <2>1, PointSet DEF IInv, OwnerAloneWhenRebuilding, LiveThreads, ReadyIsQuiet
  <2>4. LiveThreads' = LiveThreads /\ t \in RunningThreads'
    BY <2>1, <2>2, PointSet DEF LiveThreads, RunningThreads
  <2>5. AtMostOneThread' /\ AliveTellsRunning' /\ OwnerAloneWhenRebuilding'
        /\ NoStaleShutdown' /\ NoLockStandoff'
    BY <2>1, <2>3, <2>4 DEF IInv, AtMostOneThread, AliveTellsRunning,
       OwnerAloneWhenRebuilding, NoStaleShutdown, NoLockStandoff, events, lock, owner
  <2>6. NoStaleHandle' /\ HandleCleared'
    BY <2>1, <2>2, <2>3 DEF IInv, NoStaleHandle, HandleCleared, port, owner
  <2>7. ReadyIsQuiet' /\ IdleUnready' /\ InitProgress' /\ BufferKept'
    BY <2>1, <2>3, <2>4 DEF IInv, ReadyIsQuiet, IdleUnready, InitProgress, BufferKept, owner
  <2>8. QED
    BY <2>5, <2>6, <2>7 DEF IInv
<1>2. CASE ShutdownClose(t)
  <2>1. Goto(t, "wait", "down1") /\ UNCHANGED <<m_hComm, events, lock, m_bThreadAlive>>
    BY <1>2 DEF ShutdownClose
  <2>2. LiveThreads' = LiveThreads /\ t \in LiveThreads /\ pc'[t] = "down1"
        /\ \A s \in Threads \ {t} : pc'[s] = pc[s]
    BY <2>1, MoveSets, PointSet DEF IInv
  <2>3. NoStaleHandle' /\ HandleCleared' /\ NoLockStandoff'
    BY <2>1, <2>2 DEF IInv, NoStaleHandle, HandleCleared, NoLockStandoff, lock
  <2>4. QED
    BY <2>1, <2>3, MoveKeepsOwnerFacts, PointSet DEF IInv, events
<1>3. CASE ShutdownClear(t)
  <2>1. Goto(t, "down1", "down2") /\ m_hComm' = "NULL"
        /\ UNCHANGED <<events, lock, m_bThreadAlive>>
    BY <1>3 DEF ShutdownClear
  <2>2. LiveThreads' = LiveThreads
    BY <2>1, MoveSets, PointSet DEF IInv
  <2>3. NoStaleHandle' /\ HandleCleared' /\ NoLockStandoff'
    BY <2>1, <2>2 DEF IInv, NoStaleHandle, HandleCleared, NoLockStandoff, lock
  <2>4. QED
    BY <2>1, <2>3, MoveKeepsOwnerFacts, PointSet DEF IInv, events
<1>4. CASE ShutdownExit(t)
  <2>1. pc[t] = "down2" /\ pc' = [pc EXCEPT ![t] = "dead"] /\ ~m_bThreadAlive'
        /\ UNCHANGED <<port, events, lock, owner>>
    BY <1>4 DEF ShutdownExit, Goto
  <2>2. pc'[t] = "dead" /\ \A s \in Threads \ {t} : pc'[s] = pc[s]
    BY <2>1 DEF IInv, TypeOK
  <2>3. t \in LiveThreads /\ m_hComm = "NULL"
    BY <2>1, PointSet DEF IInv, HandleCleared, LiveThreads
  <2>4. \A s \in Threads : pc'[s] \notin Live
    BY <2>2, <2>3, OnlyOne, PointSet DEF IInv, TypeOK
  <2>5. LiveThreads' = {} /\ RunningThreads' = {}
    BY <2>4 DEF LiveThreads, RunningThreads, Live
  <2>6. \A s \in Threads : pc'[s] \notin {"created", "down2"}
    BY <2>4, PointSet
  <2>7. AtMostOneThread' /\ AliveTellsRunning' /\ OwnerAloneWhenRebuilding'
        /\ NoStaleShutdown' /\ NoLockStandoff' /\ HandleCleared'
    BY <2>1, <2>5, <2>6 DEF AtMostOneThread, AliveTellsRunning, OwnerAloneWhenRebuilding,
       NoStaleShutdown, NoLockStandoff, HandleCleared
  <2>8. NoStaleHandle' /\ ReadyIsQuiet' /\ IdleUnready' /\ InitProgress' /\ BufferKept'
    BY <2>1, <2>3, <2>5 DEF IInv, NoStaleHandle, ReadyIsQuiet, IdleUnready, InitProgress, BufferKept,
       OwnerAloneWhenRebuilding, port, owner
  <2>9. QED
    BY <2>7, <2>8 DEF IInv
<1>5. ASSUME CommEventOk(t) \/ CommEventFails(t) \/ WriteBegin(t) \/ WriteEnter(t)
             \/ WriteDone(t) \/ WritePending(t) \/ WriteFails(t) \/ ReadBegin(t)
             \/ ReceiveStop(t) \/ ReceiveMore(t) \/ ReadFile(t) \/ ReadFails(t)
             \/ Notify(t) \/ Dismiss(t)
      PROVE  IInv'
  <2>1. /\ UNCHANGED <<m_bThreadAlive, m_hShutdownEvent, osOpen>>
        /\ m_hComm' = "OPEN" => m_hComm = "OPEN"
    BY <1>5 DEF CommEventOk, CommEventFails, WriteBegin, WriteEnter, WriteDone, WritePending,
       WriteFails, ReadBegin, ReceiveStop, ReceiveMore, ReadFile, ReadFails, Notify, Dismiss,
       events, port
  <2>2. csHolder' \in {csHolder, t, NoOne}
    BY <1>5 DEF CommEventOk, CommEventFails, WriteBegin, WriteEnter, WriteDone, WritePending,
       WriteFails, ReadBegin, ReceiveStop, ReceiveMore, ReadFile, ReadFails, Notify, Dismiss,
       lock, Enter, Leave
  <2>3. \E from \in Running \ {"down1"}, to \in Running \ {"down2"} : Goto(t, from, to)
    BY <1>5, PointSet DEF CommEventOk, CommEventFails, WriteBegin, WriteEnter, WriteDone,
       WritePending, WriteFails, ReadBegin, ReceiveStop, ReceiveMore, ReadFile, ReadFails,
       Notify, Dismiss
  <2>4. QED
    BY <2>1, <2>2, <2>3, MovePreserves
<1>6. QED
  BY <1>1, <1>2, <1>3, <1>4, <1>5 DEF ThreadStep

(* What holds always: the flag is set by a thread that still runs, and an owner in
   a call finds nothing ready. *)
LEMMA FlagStep ==
  ASSUME TypeOK, [Next]_vars, m_bThreadAlive => RunningThreads # {}, IdleUnready
  PROVE  (m_bThreadAlive => RunningThreads # {})' /\ IdleUnready'
<1>1. CASE OwnerCalls
  <2>1. UNCHANGED m_bThreadAlive /\ \A t \in Threads : pc[t] \in Running => pc'[t] = pc[t]
    <3>1. CASE StartMonitoring
      BY <1>1, <3>1, PointSet DEF StartMonitoring, TypeOK
    <3>2. CASE ~StartMonitoring
      BY <1>1, <3>2 DEF OwnerCalls, InitPort, SuspendMonitoring, ResumeMonitoring, WriteToPort,
         ClosePort, Destroy, Shut, threads
    <3>3. QED
      BY <3>1, <3>2
  <2>2. IdleUnready'
    BY <1>1 DEF OwnerCalls, InitPort, StartMonitoring, SuspendMonitoring, ResumeMonitoring,
       WriteToPort, ClosePort, Destroy, Shut, owner, IdleUnready
  <2>3. QED
    BY <2>1, <2>2 DEF RunningThreads
<1>2. CASE OwnerInCall \/ OwnerPump \/ DeviceEvent \/ UNCHANGED vars
  <2>1. UNCHANGED <<m_bThreadAlive, RunningThreads>>
    <3>1. CASE Spin \/ OwnerPump
      BY <3>1, DispatchType DEF Spin, OwnerPump
    <3>2. CASE ~(Spin \/ OwnerPump)
      BY <1>2, <3>2 DEF OwnerInCall, SpinTest, InitResetEvents, InitSync, InitLock, InitOpen,
         ShutEnd, DeviceEvent, vars, threads, RunningThreads
    <3>3. QED
      BY <3>1, <3>2
  <2>2. IdleUnready'
    BY <1>2 DEF OwnerInCall, Spin, SpinTest, InitResetEvents, InitSync, InitLock, InitOpen,
       ShutEnd, OwnerPump, DeviceEvent, vars, owner, IdleUnready
  <2>3. QED
    BY <2>1, <2>2
<1>3. ASSUME NEW t \in Threads, ThreadStep(t) \/ Dismiss(t)
      PROVE  (m_bThreadAlive => RunningThreads # {})' /\ IdleUnready'
  <2>1. UNCHANGED owner
    BY <1>3 DEF ThreadStep, ThreadStart, CommEventOk, CommEventFails, ShutdownClose,
       ShutdownClear, ShutdownExit, WriteBegin, WriteEnter, WriteDone, WritePending, WriteFails,
       ReadBegin, ReceiveStop, ReceiveMore, ReadFile, ReadFails, Notify, Dismiss, Goto
  <2>2. IdleUnready'
    BY <2>1 DEF owner, IdleUnready
  <2>3. CASE ShutdownExit(t)
    BY <2>2, <2>3 DEF ShutdownExit
  <2>4. CASE ThreadStart(t)
    <3>1. pc' = [pc EXCEPT ![t] = "loop"]
      BY <2>4 DEF ThreadStart, Goto
    <3>2. t \in RunningThreads'
      BY <3>1, PointSet DEF TypeOK, RunningThreads
    <3>3. QED
      BY <2>2, <3>2
  <2>5. CASE ~ShutdownExit(t) /\ ~ThreadStart(t)
    <3>1. \E from \in Running, to \in Running : Goto(t, from, to)
      BY <1>3, <2>5, PointSet DEF ThreadStep, CommEventOk, CommEventFails, ShutdownClose,
         ShutdownClear, WriteBegin, WriteEnter, WriteDone, WritePending, WriteFails, ReadBegin,
         ReceiveStop, ReceiveMore, ReadFile, ReadFails, Notify, Dismiss
    <3>2. UNCHANGED m_bThreadAlive
      BY <1>3, <2>5 DEF ThreadStep, CommEventOk, CommEventFails, ShutdownClose,
         ShutdownClear, WriteBegin, WriteEnter, WriteDone, WritePending, WriteFails, ReadBegin,
         ReceiveStop, ReceiveMore, ReadFile, ReadFails, Notify, Dismiss
    <3>3. QED
      BY <2>2, <3>1, <3>2, MoveSets
  <2>6. QED
    BY <2>3, <2>4, <2>5
<1>4. QED
  BY <1>1, <1>2, <1>3 DEF Next

(* What holds always: a handle in the member is open, or its thread is about to
   clear it. *)
LEMMA HandleStep == ASSUME TypeOK, NoStaleHandle, [Next]_vars PROVE NoStaleHandle'
<1>1. CASE OwnerCalls
  <2>1. UNCHANGED osOpen /\ (m_hComm' = "OPEN" => m_hComm = "OPEN")
    BY <1>1 DEF OwnerCalls, InitPort, StartMonitoring, SuspendMonitoring, ResumeMonitoring,
       WriteToPort, ClosePort, Destroy, Shut, port
  <2>2. \A t \in Threads : pc[t] = "down1" => pc'[t] = "down1"
    <3>1. CASE StartMonitoring
      BY <1>1, <3>1, PointSet DEF StartMonitoring, TypeOK
    <3>2. CASE ~StartMonitoring
      BY <1>1, <3>2 DEF OwnerCalls, InitPort, SuspendMonitoring, ResumeMonitoring, WriteToPort,
         ClosePort, Destroy, Shut, threads
    <3>3. QED
      BY <3>1, <3>2
  <2>3. QED
    BY <2>1, <2>2 DEF NoStaleHandle
<1>2. CASE Spin \/ OwnerPump
  BY <1>2, DispatchType DEF Spin, OwnerPump, port, NoStaleHandle
<1>3. CASE InitLock \/ InitOpen \/ ShutEnd
  BY <1>3 DEF InitLock, InitOpen, ShutEnd, NoStaleHandle
<1>4. CASE SpinTest \/ InitResetEvents \/ InitSync \/ DeviceEvent \/ UNCHANGED vars
  BY <1>4 DEF SpinTest, InitResetEvents, InitSync, DeviceEvent, vars, port, threads,
     NoStaleHandle
<1>5. ASSUME NEW t \in Threads, ThreadStep(t) \/ Dismiss(t) PROVE NoStaleHandle'
  <2>1. CASE ShutdownClear(t)
    BY <2>1 DEF ShutdownClear, NoStaleHandle
  <2>2. CASE ShutdownClose(t)
    <3>1. pc' = [pc EXCEPT ![t] = "down1"]
      BY <2>2 DEF ShutdownClose, Goto
    <3>2. pc'[t] = "down1"
      BY <3>1 DEF TypeOK
    <3>3. QED
      BY <3>2 DEF NoStaleHandle
  <2>3. CASE ~ShutdownClear(t) /\ ~ShutdownClose(t)
    <3>1. \E from \in Live \ {"down1"}, to \in Points : Goto(t, from, to)
      BY <1>5, <2>3, PointSet DEF ThreadStep, ThreadStart, CommEventOk, CommEventFails,
         ShutdownExit, WriteBegin, WriteEnter, WriteDone, WritePending, WriteFails, ReadBegin,
         ReceiveStop, ReceiveMore, ReadFile, ReadFails, Notify, Dismiss
    <3>2. PICK from \in Live \ {"down1"}, to \in Points : Goto(t, from, to)
      BY <3>1
    <3>3. pc[t] # "down1" /\ \A s \in Threads \ {t} : pc'[s] = pc[s]
      BY <3>2 DEF Goto, TypeOK
    <3>4. UNCHANGED osOpen /\ (m_hComm' = "OPEN" => m_hComm = "OPEN")
      BY <1>5, <2>3 DEF ThreadStep, ThreadStart, CommEventOk, CommEventFails,
         ShutdownExit, WriteBegin, WriteEnter, WriteDone, WritePending, WriteFails, ReadBegin,
         ReceiveStop, ReceiveMore, ReadFile, ReadFails, Notify, Dismiss, port
    <3>5. QED
      BY <3>3, <3>4 DEF NoStaleHandle
  <2>4. QED
    BY <2>1, <2>2, <2>3
<1>6. QED
  BY <1>1, <1>2, <1>3, <1>4, <1>5 DEF Next, OwnerInCall

(* Only an InitPort that finds no thread ends the time in which one is overtaken. *)
LEMMA RestoredBy ==
  ASSUME TypeOK, [Next]_vars, overtaken, ~overtaken'
  PROVE  InitResetEvents /\ LiveThreads = {}
<1>1. \A t \in Threads : ~(ThreadStep(t) \/ Dismiss(t))
  <2> SUFFICES ASSUME NEW t \in Threads, ThreadStep(t) \/ Dismiss(t) PROVE FALSE
    OBVIOUS
  <2>1. UNCHANGED owner
    BY DEF ThreadStep, ThreadStart, CommEventOk, CommEventFails, ShutdownClose,
       ShutdownClear, ShutdownExit, WriteBegin, WriteEnter, WriteDone, WritePending, WriteFails,
       ReadBegin, ReceiveStop, ReceiveMore, ReadFile, ReadFails, Notify, Dismiss, Goto
  <2>2. QED
    BY <2>1 DEF owner
<1>2. ~(OwnerCalls \/ OwnerPump \/ DeviceEvent \/ UNCHANGED vars)
  BY DEF OwnerCalls, InitPort, ReadFlag, StartMonitoring, SuspendMonitoring, ResumeMonitoring,
     WriteToPort, ClosePort, Destroy, Shut, OwnerPump, DeviceEvent, vars, owner
<1>3. ~(Spin \/ SpinTest \/ InitSync \/ InitLock \/ InitOpen \/ ShutEnd)
  BY DEF Spin, SpinTest, ReadFlag, InitSync, InitLock, InitOpen, ShutEnd
<1>4. InitResetEvents
  BY <1>1, <1>2, <1>3 DEF Next, OwnerInCall
<1>5. QED
  BY <1>4 DEF InitResetEvents

(* That InitPort leaves a state with nobody overtaken in which all holds again. *)
LEMMA Restored ==
  ASSUME IInv, TypeOK', overtaken, ~overtaken', InitResetEvents, LiveThreads = {}
  PROVE  IInv'
<1>1. /\ opc' = "sync" /\ ~m_hShutdownEvent' /\ UNCHANGED <<port, lock, threads, ready>>
      /\ opc = "reset"
  BY DEF InitResetEvents
<1>2. \A t \in Threads : pc[t] \notin {"created", "down1", "down2"} /\ pc[t] \notin Running
  BY PointSet DEF LiveThreads
<1>3. LiveThreads' = {} /\ RunningThreads' = {} /\ RunningThreads = {} /\ UNCHANGED pc
  BY <1>1, <1>2 DEF LiveThreads, RunningThreads, threads
<1>4. ~m_bThreadAlive' /\ ~ready'
  BY <1>1, <1>3 DEF IInv, AliveTellsRunning, IdleUnready, threads
<1>5. AtMostOneThread' /\ AliveTellsRunning' /\ OwnerAloneWhenRebuilding' /\ NoStaleShutdown'
      /\ NoLockStandoff'
  BY <1>3, <1>4 DEF AtMostOneThread, AliveTellsRunning, OwnerAloneWhenRebuilding,
     NoStaleShutdown, NoLockStandoff
<1>6. NoStaleHandle' /\ HandleCleared'
  BY <1>1, <1>2, <1>3 DEF IInv, NoStaleHandle, HandleCleared, port
<1>7. ReadyIsQuiet' /\ IdleUnready' /\ InitProgress' /\ BufferKept'
  BY <1>1, <1>4 DEF ReadyIsQuiet, IdleUnready, InitProgress, BufferKept
<1>8. QED
  BY <1>5, <1>6, <1>7 DEF IInv

\* Every step keeps the inductive invariant.
LEMMA InvStep == ASSUME IInv, [Next]_vars PROVE IInv'
<1>1. TypeOK'
  BY TypeStep DEF IInv
<1>2. CASE overtaken'
  <2>1. NoStaleHandle'
    BY HandleStep DEF IInv
  <2>2. AliveTellsRunning' /\ IdleUnready'
    BY <1>2, FlagStep DEF IInv, AliveTellsRunning
  <2>3. QED
    BY <1>1, <1>2, <2>1, <2>2 DEF IInv, AtMostOneThread, OwnerAloneWhenRebuilding,
       NoStaleShutdown, NoLockStandoff, ReadyIsQuiet, InitProgress, HandleCleared, BufferKept
<1>3. CASE overtaken /\ ~overtaken'
  BY <1>1, <1>3, RestoredBy, Restored DEF IInv
<1>4. CASE ~overtaken /\ ~overtaken'
  <2>1. CASE OwnerCalls
    BY <1>1, <1>4, <2>1, OwnerCallsKeep
  <2>2. CASE OwnerInCall
    BY <1>1, <1>4, <2>2, OwnerInCallKeeps
  <2>3. CASE OwnerPump
    BY <1>1, <1>4, <2>3, OwnerPumpKeeps
  <2>4. ASSUME NEW t \in Threads, ThreadStep(t) \/ Dismiss(t) PROVE IInv'
    BY <1>1, <1>4, <2>4, ThreadKeeps
  <2>5. CASE DeviceEvent
    BY <1>1, <1>4, <2>5, IdleKeeps DEF DeviceEvent, threads
  <2>6. CASE UNCHANGED vars
    BY <1>1, <1>4, <2>6, IdleKeeps DEF vars, events, threads
  <2>7. QED
    BY <2>1, <2>2, <2>3, <2>4, <2>5, <2>6 DEF Next
<1>5. QED
  BY <1>2, <1>3, <1>4

-----------------------------------------------------------------------------
(* Theorems *)

\* The inductive invariant holds at the start.
LEMMA InvInit == Init => IInv
<1> SUFFICES ASSUME Init PROVE IInv
  OBVIOUS
<1>1. \A t \in Threads : pc[t] = "none"
  BY DEF Init
<1>2. LiveThreads = {} /\ RunningThreads = {}
  BY <1>1, PointSet DEF LiveThreads, RunningThreads
<1>3. TypeOK
  BY TypeInit
<1>4. QED
  BY <1>1, <1>2, <1>3 DEF Init, IInv, AtMostOneThread, AliveTellsRunning,
     OwnerAloneWhenRebuilding, NoStaleHandle, NoStaleShutdown, NoLockStandoff,
     ReadyIsQuiet, IdleUnready, InitProgress, HandleCleared, BufferKept

(* The inductive invariant holds in every state. *)
THEOREM Invariance == Spec => []IInv
<1>1. IInv /\ [Next]_vars => IInv'
  BY InvStep
<1>2. QED
  BY <1>1, InvInit, PTL DEF Spec

(* There is never more than one comm thread: InitPort has killed the one before
   whenever StartMonitoring creates the next, unless an owner passed the flag between
   CreateThread and line 432. *)
THEOREM OneThread == Spec => []AtMostOneThread
<1>1. IInv => AtMostOneThread
  BY DEF IInv
<1>2. QED
  BY <1>1, Invariance, PTL

(* The flag every closing loop waits for is TRUE only while a thread runs; and a
   running thread is hidden by it only after an owner passed the flag between
   CreateThread and line 432. *)
THEOREM FlagTruthful == Spec => []AliveTellsRunning
<1>1. IInv => AliveTellsRunning
  BY DEF IInv
<1>2. QED
  BY <1>1, Invariance, PTL

(* Events, critical section, buffer and handle are rebuilt with no thread there,
   unless an owner passed the flag in that window. *)
THEOREM RebuildAlone == Spec => []OwnerAloneWhenRebuilding
<1>1. IInv => OwnerAloneWhenRebuilding
  BY DEF IInv
<1>2. QED
  BY <1>1, Invariance, PTL

(* A handle in the member is open or about to be cleared by the thread that closed
   it, overtaken threads or not. *)
THEOREM HandleFresh == Spec => []NoStaleHandle
<1>1. IInv => NoStaleHandle
  BY DEF IInv
<1>2. QED
  BY <1>1, Invariance, PTL

(* No thread is killed by the shutdown event of an earlier session, unless one was
   overtaken. *)
THEOREM ShutdownFresh == Spec => []NoStaleShutdown
<1>1. IInv => NoStaleShutdown
  BY DEF IInv
<1>2. QED
  BY <1>1, Invariance, PTL

(* A live thread finds the critical section free or its own, in spite of the error
   paths that leave it locked, unless one was overtaken. *)
THEOREM LockFree == Spec => []NoLockStandoff
<1>1. IInv => NoLockStandoff
  BY DEF IInv
<1>2. QED
  BY <1>1, Invariance, PTL

(* A port that accepts a write has a buffer to copy it into, unless a thread was
   overtaken. *)
THEOREM BufferPresent == Spec => []WriteBufferPresent
<1>1. IInv => WriteBufferPresent
  BY DEF IInv, BufferKept, WriteBufferPresent
<1>2. QED
  BY <1>1, Invariance, PTL

-----------------------------------------------------------------------------
(* Refinement of PortSession *)

Monitor == IF LiveThreads = {} THEN NoThread ELSE CHOOSE t \in Threads : t \in LiveThreads

(* What a step can do to the handle and to the set of live threads, with nobody
   overtaken. *)
LEMMA StepKinds ==
  ASSUME IInv, ~overtaken, [Next]_vars
  PROVE  \/ LiveThreads' = LiveThreads /\ (m_hComm' = "OPEN" => m_hComm = "OPEN")
         \/ LiveThreads = {} /\ LiveThreads' = {} /\ m_hComm' = "OPEN"
         \/ /\ LiveThreads = {} /\ m_hComm = "OPEN" /\ m_hComm' = "OPEN"
            /\ \E t \in Threads : LiveThreads' = {t}
         \/ LiveThreads # {} /\ LiveThreads' = {} /\ m_hComm # "OPEN" /\ m_hComm' # "OPEN"
<1>1. CASE StartMonitoring
  <2>1. ready /\ UNCHANGED m_hComm
    BY <1>1 DEF StartMonitoring, port
  <2>2. m_hComm = "OPEN" /\ LiveThreads = {}
    BY <2>1 DEF IInv, ReadyIsQuiet
  <2>3. ASSUME NEW t \in Threads, pc[t] = "none", pc' = [pc EXCEPT ![t] = "created"]
        PROVE  LiveThreads' = {t}
    <3>1. pc'[t] = "created" /\ \A s \in Threads \ {t} : pc'[s] = pc[s]
      BY <2>3 DEF IInv, TypeOK
    <3>2. QED
      BY <2>2, <3>1, PointSet DEF LiveThreads
  <2>4. CASE UNCHANGED pc
    BY <2>1, <2>4 DEF LiveThreads
  <2>5. QED
    BY <1>1, <2>1, <2>2, <2>3, <2>4 DEF StartMonitoring
<1>2. CASE InitPort \/ SuspendMonitoring \/ ResumeMonitoring \/ WriteToPort \/ ClosePort
           \/ Destroy \/ SpinTest \/ InitResetEvents \/ InitSync \/ InitLock \/ InitOpen
           \/ ShutEnd \/ DeviceEvent \/ UNCHANGED vars
  <2>1. UNCHANGED pc
    BY <1>2 DEF InitPort, SuspendMonitoring, ResumeMonitoring, WriteToPort, ClosePort, Destroy,
       Shut, SpinTest, InitResetEvents, InitSync, InitLock, InitOpen, ShutEnd, DeviceEvent,
       vars, threads
  <2>2. LiveThreads' = LiveThreads
    BY <2>1 DEF LiveThreads
  <2>3. CASE InitOpen
    BY <2>2, <2>3 DEF IInv, OwnerAloneWhenRebuilding, InitOpen
  <2>4. CASE ~InitOpen
    BY <1>2, <2>2, <2>4 DEF InitPort, SuspendMonitoring, ResumeMonitoring, WriteToPort,
       ClosePort, Destroy, Shut, SpinTest, InitResetEvents, InitSync, InitLock, ShutEnd,
       DeviceEvent, vars, port
  <2>5. QED
    BY <2>3, <2>4
<1>3. CASE Spin \/ OwnerPump
  BY <1>3, DispatchType DEF IInv, Spin, OwnerPump, port
<1>4. ASSUME NEW t \in Threads, ThreadStep(t) \/ Dismiss(t), ~ShutdownExit(t)
      PROVE  LiveThreads' = LiveThreads /\ (m_hComm' = "OPEN" => m_hComm = "OPEN")
  <2>1. \E from \in Live, to \in Live : Goto(t, from, to)
    BY <1>4, PointSet DEF ThreadStep, ThreadStart, CommEventOk, CommEventFails, ShutdownClose,
       ShutdownClear, WriteBegin, WriteEnter, WriteDone, WritePending, WriteFails, ReadBegin,
       ReceiveStop, ReceiveMore, ReadFile, ReadFails, Notify, Dismiss
  <2>2. LiveThreads' = LiveThreads
    <3>1. PICK from \in Live, to \in Live : Goto(t, from, to)
      BY <2>1
    <3>2. pc[t] \in Live /\ pc'[t] \in Live /\ \A s \in Threads \ {t} : pc'[s] = pc[s]
      BY <3>1 DEF Goto, IInv, TypeOK
    <3>3. QED
      BY <3>2 DEF LiveThreads
  <2>3. m_hComm' = "OPEN" => m_hComm = "OPEN"
    BY <1>4 DEF ThreadStep, ThreadStart, CommEventOk, CommEventFails, ShutdownClose,
       ShutdownClear, WriteBegin, WriteEnter, WriteDone, WritePending, WriteFails, ReadBegin,
       ReceiveStop, ReceiveMore, ReadFile, ReadFails, Notify, Dismiss, port
  <2>4. QED
    BY <2>2, <2>3
<1>5. ASSUME NEW t \in Threads, ShutdownExit(t)
      PROVE  LiveThreads # {} /\ LiveThreads' = {} /\ m_hComm # "OPEN" /\ m_hComm' # "OPEN"
  <2>1. pc[t] = "down2" /\ pc' = [pc EXCEPT ![t] = "dead"] /\ UNCHANGED port
    BY <1>5 DEF ShutdownExit, Goto
  <2>2. pc'[t] = "dead" /\ \A s \in Threads \ {t} : pc'[s] = pc[s]
    BY <2>1 DEF IInv, TypeOK
  <2>3. t \in LiveThreads /\ m_hComm = "NULL"
    BY <2>1, PointSet DEF IInv, HandleCleared, LiveThreads
  <2>4. \A s \in Threads : pc'[s] \notin Live
    BY <2>2, <2>3, OnlyOne, PointSet
  <2>5. QED
    BY <2>1, <2>3, <2>4 DEF LiveThreads, port
<1>6. QED
  BY <1>1, <1>2, <1>3, <1>4, <1>5 DEF Next, OwnerCalls, OwnerInCall

(* A step that overtakes a thread reads the flag and changes nothing the session
   sees: the thread is there. *)
LEMMA OvertakesAThread ==
  ASSUME [Next]_vars, ~overtaken, overtaken'
  PROVE  LiveThreads # {} /\ UNCHANGED <<m_hComm, LiveThreads>>
<1>1. InitPort \/ SpinTest
  <2>1. \A t \in Threads : ~(ThreadStep(t) \/ Dismiss(t))
    <3> SUFFICES ASSUME NEW t \in Threads, ThreadStep(t) \/ Dismiss(t) PROVE FALSE
      OBVIOUS
    <3>1. UNCHANGED owner
      BY DEF ThreadStep, ThreadStart, CommEventOk, CommEventFails, ShutdownClose,
         ShutdownClear, ShutdownExit, WriteBegin, WriteEnter, WriteDone, WritePending,
         WriteFails, ReadBegin, ReceiveStop, ReceiveMore, ReadFile, ReadFails, Notify,
         Dismiss, Goto
    <3>2. QED
      BY <3>1 DEF owner
  <2>2. ~(StartMonitoring \/ SuspendMonitoring \/ ResumeMonitoring \/ WriteToPort
          \/ ClosePort \/ Destroy \/ OwnerPump \/ DeviceEvent \/ UNCHANGED vars)
    BY DEF StartMonitoring, SuspendMonitoring, ResumeMonitoring, WriteToPort, ClosePort,
       Destroy, Shut, OwnerPump, DeviceEvent, vars, owner
  <2>3. ~(Spin \/ InitResetEvents \/ InitSync \/ InitLock \/ InitOpen \/ ShutEnd)
    BY DEF Spin, InitResetEvents, InitSync, InitLock, InitOpen, ShutEnd
  <2>4. QED
    BY <2>1, <2>2, <2>3 DEF Next, OwnerCalls, OwnerInCall
<1>2. ReadFlag /\ UNCHANGED <<m_hComm, pc>>
  BY <1>1 DEF InitPort, SpinTest, port, threads
<1>3. QED
  BY <1>2, PointSet DEF ReadFlag, LiveThreads

\* Every step is a step of the session or leaves it unchanged.
LEMMA SessionStep ==
  ASSUME IInv, IInv', [Next]_vars
  PROVE  [Session!Next]_(Session!session)
<1>1. /\ LiveThreads = {} => Monitor = NoThread
      /\ LiveThreads # {} => Monitor \in Threads /\ Monitor # NoThread
      /\ (Monitor \in Threads \cup {NoThread})'
  BY SerialPortAssumption DEF Monitor, LiveThreads
<1>2. CASE overtaken /\ overtaken'
  <2>1. (m_hComm' = "OPEN") \in BOOLEAN
    OBVIOUS
  <2>2. QED
    BY <1>1, <1>2, <2>1 DEF Monitor, Session!Next, Session!Stray
<1>3. CASE overtaken /\ ~overtaken'
  <2>1. InitResetEvents /\ LiveThreads = {}
    BY <1>3, RestoredBy DEF IInv
  <2>2. UNCHANGED <<m_hComm, LiveThreads>>
    BY <2>1 DEF InitResetEvents, port, threads, LiveThreads
  <2>3. Monitor = NoThread /\ Monitor' = Monitor
    BY <1>1, <2>1, <2>2 DEF Monitor
  <2>4. QED
    BY <1>3, <2>2, <2>3 DEF Monitor, Session!Next, Session!Restore
<1>4. CASE ~overtaken /\ overtaken'
  <2>1. LiveThreads # {} /\ UNCHANGED <<m_hComm, LiveThreads>>
    BY <1>4, OvertakesAThread
  <2>2. Monitor # NoThread /\ Monitor' = Monitor
    BY <1>1, <2>1 DEF Monitor
  <2>3. QED
    BY <1>4, <2>1, <2>2 DEF Monitor, Session!Next, Session!Overtake
<1>5. CASE ~overtaken /\ ~overtaken'
  <2>1. UNCHANGED overtaken
    BY <1>5 DEF IInv, TypeOK
  <2>2. CASE LiveThreads' = LiveThreads /\ (m_hComm' = "OPEN" => m_hComm = "OPEN")
    <3>1. Monitor' = Monitor
      BY <2>2 DEF Monitor
    <3>2. CASE m_hComm = "OPEN" /\ m_hComm' # "OPEN"
      BY <2>1, <3>1, <3>2 DEF Monitor, Session!Next, Session!Lose
    <3>3. CASE m_hComm' = "OPEN" <=> m_hComm = "OPEN"
      BY <2>1, <3>1, <3>3 DEF Monitor, Session!session
    <3>4. QED
      BY <2>2, <3>2, <3>3
  <2>3. CASE LiveThreads = {} /\ LiveThreads' = {} /\ m_hComm' = "OPEN"
    BY <2>1, <2>3 DEF Session!Next, Session!Open
  <2>4. ASSUME NEW t \in Threads, LiveThreads = {}, LiveThreads' = {t}, m_hComm = "OPEN",
               m_hComm' = "OPEN"
        PROVE  Session!Next
    <3>1. (CHOOSE s \in Threads : s \in {t}) = t
      OBVIOUS
    <3>2. QED
      BY <2>1, <2>4, <3>1 DEF Session!Next, Session!Attach
  <2>5. CASE LiveThreads # {} /\ LiveThreads' = {} /\ m_hComm # "OPEN" /\ m_hComm' # "OPEN"
    BY <1>1, <2>1, <2>5 DEF Monitor, Session!Next, Session!Detach
  <2>6. QED
    BY <1>5, <2>2, <2>3, <2>4, <2>5, StepKinds
<1>6. QED
  BY <1>2, <1>3, <1>4, <1>5 DEF IInv, TypeOK

(* CSerialPort behaves as a port watched by at most one monitor, unless its owner
   overtakes a thread, and does so again after an InitPort that finds none. *)
THEOREM Refinement == Spec => ImplementsSession
<1>1. Init => Session!Init
  BY InvInit, PointSet DEF Init, Session!Init, LiveThreads
<1>2. IInv /\ IInv' /\ [Next]_vars => [Session!Next]_(Session!session)
  BY SessionStep
<1>3. QED
  BY <1>1, <1>2, Invariance, PTL DEF Spec, ImplementsSession, Session!Spec

=============================================================================
