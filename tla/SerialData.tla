----------------------------- MODULE SerialData -----------------------------
(***************************************************************************)
(* The data path of CSerialPort (SerialPort.cpp) within one session: the   *)
(* owner's WriteToPort against WriteChar, and bytes from the line through   *)
(* WaitCommEvent and ReceiveStr to the owner.  The port is open, the comm  *)
(* thread runs and nothing fails: SerialPort covers the rest.              *)
(*                                                                         *)
(* A block is a sequence of cells; the cells of request k hold k, cleared  *)
(* cells hold 0.  A received byte is the number of its arrival.            *)
(***************************************************************************)
EXTENDS Naturals, Sequences, SequencesExt

CONSTANTS
  MaxSize,     \* bound: cells of the longest block
  MaxWrites,   \* bound: WriteToPort calls
  MaxRx        \* bound: bytes that arrive

ASSUME SerialDataAssumption ==
  /\ MaxSize \in Nat \ {0} /\ MaxWrites \in Nat /\ MaxRx \in Nat

VARIABLES
  paced,             \* the owner waits for a block to leave before the next; rigid
  m_szWriteBuffer,   \* sequence of MaxSize cells
  m_nWriteSize,
  m_hWriteEvent,
  m_ovEvent,         \* m_ov.hEvent, shared by WaitCommEvent, ReadFile and WriteFile
  opc, request,      \* the owner inside WriteToPort, and the block it was given
  pc, sendLen,       \* the comm thread, and WriteChar's SendLen
  cbInQue,           \* the count ClearCommError returned
  rxQueue,           \* the driver's input queue
  waitPending,       \* a WaitCommEvent is outstanding in the driver
  commEvent,         \* an event the driver remembers because none was outstanding
  rxBuff,            \* bytes inside a SendMessage(WM_COMM_RXSTR)
  requested, wire,   \* history: blocks handed to WriteToPort, blocks sent
  arrived, delivered, purged   \* history of received bytes

writer == <<paced, m_szWriteBuffer, m_nWriteSize, opc, request, requested>>
thread == <<pc, sendLen, cbInQue>>
driver == <<rxQueue, waitPending, commEvent, arrived>>
vars   == <<writer, m_hWriteEvent, m_ovEvent, thread, driver, rxBuff, wire, delivered, purged>>

Blank == [i \in 1..MaxSize |-> 0]
Block(k, n) == [i \in 1..n |-> k]

TypeOK ==
  /\ paced \in BOOLEAN
  /\ m_szWriteBuffer \in [1..MaxSize -> 0..MaxWrites]
  /\ m_nWriteSize \in 1..MaxSize
  /\ m_hWriteEvent \in BOOLEAN /\ m_ovEvent \in BOOLEAN
  /\ opc \in {"idle", "copy", "size", "signal"}
  /\ request \in Seq(0..MaxWrites)
  /\ pc \in {"loop", "wait", "size", "enter", "write", "pending", "read", "readFile", "send"}
  /\ sendLen \in 0..MaxSize
  /\ cbInQue \in 0..MaxRx
  /\ rxQueue \in Seq(1..MaxRx) /\ rxBuff \in Seq(1..MaxRx)
  /\ waitPending \in BOOLEAN /\ commEvent \in BOOLEAN
  /\ arrived \in 0..MaxRx
  /\ delivered \in Seq(1..MaxRx) /\ purged \in SUBSET (1..MaxRx)
  /\ requested \in Seq(Seq(0..MaxWrites)) /\ wire \in Seq(Seq(0..MaxWrites))

\* After InitPort and the first lines of CommThread; m_nWriteSize is the
\* constructor's 1.
Init ==
  /\ paced \in BOOLEAN
  /\ m_szWriteBuffer = Blank /\ m_nWriteSize = 1
  /\ m_hWriteEvent = FALSE /\ m_ovEvent = FALSE
  /\ opc = "idle" /\ request = <<>>
  /\ pc = "loop" /\ sendLen = 0 /\ cbInQue = 0
  /\ rxQueue = <<>> /\ waitPending = FALSE /\ commEvent = FALSE /\ rxBuff = <<>>
  /\ requested = <<>> /\ wire = <<>>
  /\ arrived = 0 /\ delivered = <<>> /\ purged = {}

-----------------------------------------------------------------------------
(* The owner: WriteToPort takes no lock, so each of its steps can be seen *)

\* The caller's own restraint, when there is one.
MayWrite == paced => wire = requested /\ pc \in {"loop", "wait"} /\ ~m_hWriteEvent

\* memset: sizeof(m_szWriteBuffer) is the size of a pointer, no less than MaxSize.
WriteBegin ==
  /\ opc = "idle" /\ MayWrite
  /\ Len(requested) < MaxWrites
  /\ \E n \in 1..MaxSize : request' = Block(Len(requested) + 1, n)
  /\ requested' = Append(requested, request')
  /\ m_szWriteBuffer' = Blank
  /\ opc' = "copy"
  /\ UNCHANGED <<paced, m_nWriteSize, m_hWriteEvent, m_ovEvent, thread, driver, rxBuff,
                 wire,
                 delivered, purged>>

\* Mutant: the event is set before the size is stored.
MutSignalEarly ==
  /\ opc = "copy" /\ opc' = "size"
  /\ m_szWriteBuffer' = [i \in 1..MaxSize |->
                           IF i <= Len(request) THEN request[i] ELSE m_szWriteBuffer[i]]
  /\ m_hWriteEvent' = TRUE
  /\ UNCHANGED <<paced, m_nWriteSize, request, requested, m_ovEvent, thread, driver,
                 rxBuff, wire,
                 delivered, purged>>

WriteCopy ==
  /\ opc = "copy" /\ opc' = "size"
  /\ m_szWriteBuffer' = [i \in 1..MaxSize |->
                           IF i <= Len(request) THEN request[i] ELSE m_szWriteBuffer[i]]
  /\ UNCHANGED <<paced, m_nWriteSize, request, requested, m_hWriteEvent, m_ovEvent, thread,
                 driver,
                 rxBuff, wire, delivered, purged>>

WriteSize ==
  /\ opc = "size" /\ opc' = "signal"
  /\ m_nWriteSize' = Len(request)
  /\ UNCHANGED <<paced, m_szWriteBuffer, request, requested, m_hWriteEvent, m_ovEvent,
                 thread, driver,
                 rxBuff, wire, delivered, purged>>

\* Mutant: SetEvent is forgotten.
MutNoSignal ==
  /\ opc = "signal" /\ opc' = "idle"
  /\ UNCHANGED <<paced, m_szWriteBuffer, m_nWriteSize, request, requested, m_hWriteEvent,
                 m_ovEvent,
                 thread, driver, rxBuff, wire, delivered, purged>>

WriteSignal ==
  /\ opc = "signal" /\ opc' = "idle"
  /\ m_hWriteEvent' = TRUE
  /\ UNCHANGED <<paced, m_szWriteBuffer, m_nWriteSize, request, requested, m_ovEvent,
                 thread, driver,
                 rxBuff, wire, delivered, purged>>

\* The owner's message loop runs the handler of WM_COMM_RXSTR.
OwnerReceives ==
  /\ opc = "idle" /\ pc = "send"
  /\ delivered' = delivered \o rxBuff /\ rxBuff' = <<>>
  /\ pc' = "read"
  /\ UNCHANGED <<writer, m_hWriteEvent, m_ovEvent, sendLen, cbInQue, driver, wire, purged>>

-----------------------------------------------------------------------------
(* The driver *)

\* A byte arrives.  It completes an outstanding wait, which signals the event, or
\* is remembered for the next one.
ByteArrives ==
  /\ arrived < MaxRx
  /\ arrived' = arrived + 1
  /\ rxQueue' = Append(rxQueue, arrived')
  /\ waitPending' = FALSE
  /\ commEvent' = ~waitPending
  /\ m_ovEvent' = (m_ovEvent \/ waitPending)
  /\ UNCHANGED <<writer, m_hWriteEvent, thread, rxBuff, wire, delivered, purged>>

-----------------------------------------------------------------------------
(* The comm thread *)

\* Mutant: an event reported at once is taken for a spurious one.
MutReportedIgnored ==
  /\ pc = "loop"
  /\ \/ /\ commEvent
        /\ commEvent' = FALSE /\ m_ovEvent' = TRUE
        /\ pc' = "loop" /\ UNCHANGED waitPending
     \/ /\ ~commEvent /\ ~waitPending
        /\ waitPending' = TRUE /\ m_ovEvent' = FALSE
        /\ pc' = "wait" /\ UNCHANGED commEvent
  /\ UNCHANGED <<writer, m_hWriteEvent, sendLen, cbInQue, rxQueue, arrived, rxBuff, wire,
                 delivered, purged>>

\* WaitCommEvent.  Reported: go on if bytes are queued, else ask again.  Pending:
\* the event is unsignalled.  Already outstanding: ERROR_INVALID_PARAMETER, and
\* whether the event was reset is up to the system.
WaitCommEvent ==
  /\ pc = "loop"
  /\ \/ /\ commEvent
        /\ commEvent' = FALSE /\ m_ovEvent' = TRUE
        /\ pc' = IF rxQueue = <<>> THEN "loop" ELSE "wait"
        /\ UNCHANGED waitPending
     \/ /\ ~commEvent /\ ~waitPending
        /\ waitPending' = TRUE /\ m_ovEvent' = FALSE
        /\ pc' = "wait"
        /\ UNCHANGED commEvent
     \/ /\ waitPending
        /\ m_ovEvent' \in {FALSE, m_ovEvent}
        /\ pc' = "wait"
        /\ UNCHANGED <<commEvent, waitPending>>
  /\ UNCHANGED <<writer, m_hWriteEvent, sendLen, cbInQue, rxQueue, arrived, rxBuff, wire,
                 delivered, purged>>

\* Mutant: the terminator is sent as well.
MutSizeTerminator ==
  /\ pc = "wait" /\ m_hWriteEvent
  /\ sendLen' = m_nWriteSize + 1
  /\ pc' = "size"
  /\ UNCHANGED <<writer, m_hWriteEvent, m_ovEvent, cbInQue, driver, rxBuff, wire, delivered,
                 purged>>

\* WriteChar, line 729: the size is read while the event is still set.
WriteCharSize ==
  /\ pc = "wait" /\ m_hWriteEvent
  /\ sendLen' = m_nWriteSize
  /\ pc' = "size"
  /\ UNCHANGED <<writer, m_hWriteEvent, m_ovEvent, cbInQue, driver, rxBuff, wire, delivered,
                 purged>>

WriteCharReset ==
  /\ pc = "size" /\ pc' = "enter"
  /\ m_hWriteEvent' = FALSE
  /\ UNCHANGED <<writer, m_ovEvent, sendLen, cbInQue, driver, rxBuff, wire, delivered,
                 purged>>

\* PurgeComm with RXCLEAR: bytes received and not yet read are dropped.
WriteCharPurge ==
  /\ pc = "enter" /\ pc' = "write"
  /\ purged' = purged \cup Range(rxQueue)
  /\ rxQueue' = <<>>
  /\ UNCHANGED <<writer, m_hWriteEvent, m_ovEvent, sendLen, cbInQue, waitPending, commEvent,
                 arrived, rxBuff, wire, delivered>>

\* WriteFile takes SendLen cells of the buffer as it is now; it resets m_ov's
\* event and signals it on completion, at once or later.
WriteFile ==
  /\ pc = "write"
  /\ wire' = Append(wire, SubSeq(m_szWriteBuffer, 1, sendLen))
  /\ \/ pc' = "loop" /\ m_ovEvent' = TRUE
     \/ pc' = "pending" /\ m_ovEvent' = FALSE
  /\ UNCHANGED <<writer, m_hWriteEvent, sendLen, cbInQue, driver, rxBuff, delivered,
                 purged>>

WriteCompletes ==
  /\ pc = "pending" /\ pc' = "loop"
  /\ m_ovEvent' = TRUE
  /\ UNCHANGED <<writer, m_hWriteEvent, sendLen, cbInQue, driver, rxBuff, wire, delivered,
                 purged>>

\* The read event, after the 100 ms pause.
ReadBegin ==
  /\ pc = "wait" /\ ~m_hWriteEvent /\ m_ovEvent
  /\ pc' = "read"
  /\ UNCHANGED <<writer, m_hWriteEvent, m_ovEvent, sendLen, cbInQue, driver, rxBuff, wire,
                 delivered, purged>>

\* One turn of ReceiveStr: count what is queued, leave if there is nothing.
ReceiveCount ==
  /\ pc = "read"
  /\ cbInQue' = Len(rxQueue)
  /\ pc' = IF rxQueue = <<>> THEN "loop" ELSE "readFile"
  /\ UNCHANGED <<writer, m_hWriteEvent, m_ovEvent, sendLen, driver, rxBuff, wire, delivered,
                 purged>>

\* Mutant: the queue is cleared after the counted bytes were read.
MutReadClears ==
  /\ pc = "readFile" /\ pc' = "send"
  /\ rxBuff' = SubSeq(rxQueue, 1, cbInQue)
  /\ rxQueue' = <<>> /\ m_ovEvent' = TRUE
  /\ UNCHANGED <<writer, m_hWriteEvent, sendLen, cbInQue, waitPending, commEvent, arrived,
                 wire, delivered, purged>>

ReceiveRead ==
  /\ pc = "readFile" /\ pc' = "send"
  /\ rxBuff' = SubSeq(rxQueue, 1, cbInQue)
  /\ rxQueue' = SubSeq(rxQueue, cbInQue + 1, Len(rxQueue))
  /\ m_ovEvent' = TRUE
  /\ UNCHANGED <<writer, m_hWriteEvent, sendLen, cbInQue, waitPending, commEvent, arrived,
                 wire, delivered, purged>>

OwnerWrites == WriteCopy \/ WriteSize \/ WriteSignal
ThreadStep  == WaitCommEvent \/ WriteCharSize \/ WriteCharReset \/ WriteCharPurge \/ WriteFile
                 \/ WriteCompletes \/ ReadBegin \/ ReceiveCount \/ ReceiveRead

Next == WriteBegin \/ OwnerWrites \/ OwnerReceives \/ ByteArrives \/ ThreadStep

\* The owner finishes WriteToPort and returns to its message loop, the thread runs
\* and the driver completes writes; nobody has to write and no byte to arrive.
Spec == Init /\ [][Next]_vars
          /\ WF_vars(OwnerWrites) /\ WF_vars(OwnerReceives) /\ WF_vars(ThreadStep)

-----------------------------------------------------------------------------
(* Properties *)

Rising(s)    == \A i, j \in 1..Len(s) : i < j => s[i] < s[j]
Before(s, t) == \A x \in Range(s), y \in Range(t) : x < y

\* A paced owner's blocks go out whole, once, in the order they were handed over
\* (WriteToPort lines 1198-1225, WriteChar lines 729-750).
WireFollowsRequests == paced => IsPrefix(wire, requested)

\* Received bytes reach the owner in order and at most once, and each one not
\* delivered is still queued, being delivered or was dropped by the purge of a
\* write (lines 743 and 982-1100): none vanishes otherwise.
NothingVanishes ==
  /\ Rising(delivered)
  /\ 1..arrived = Range(delivered) \cup Range(rxBuff) \cup Range(rxQueue) \cup purged
  /\ Range(delivered) \cap (Range(rxBuff) \cup Range(rxQueue) \cup purged) = {}

\* Each block handed over by a paced owner is sent in the end.
RequestsSent == \A k \in 1..MaxWrites :
  (paced /\ Len(requested) >= k) ~> (Len(wire) >= k)

\* As long as nothing is written, a byte that arrived does not stay in the
\* driver's queue, whatever moment of the thread's cycle it arrives at.
ReadWhileQuiet ==
  (rxQueue # <<>> /\ requested = <<>>) ~> (rxQueue = <<>> \/ requested # <<>>)

\* "If there are bytes available" the wait is over (comment of lines 455-458): no
\* byte stays in the queue for ever, even if blocks are written.
BytesDelivered == (rxQueue # <<>>) ~> (rxQueue = <<>>)

-----------------------------------------------------------------------------
(* The abstract channel *)

\* A byte is in transit while a SendMessage or the driver holds it.
Channel == INSTANCE PortChannel WITH
  transit <- rxBuff \o rxQueue, dropped <- purged

\* The port is a channel (PortChannel): WriteToPort, WriteChar, ReceiveStr and the
\* purge of a write do to blocks and bytes what it allows and nothing else.
ImplementsChannel == Channel!Spec

-----------------------------------------------------------------------------
(* The inductive invariant behind the safety properties *)

\* The bytes a thread counts are there when it reads them, and only a SendMessage
\* holds bytes outside the driver and the owner.
ReadProgress ==
  /\ Len(rxQueue) <= arrived
  /\ pc = "readFile" => cbInQue <= Len(rxQueue)
  /\ pc # "send" => rxBuff = <<>>

\* A block that is being handed over has a cell and fits the buffer.
RequestSized == opc # "idle" => Len(request) \in 1..MaxSize

\* Bytes keep the order of their arrival on the whole way.
BytesOrdered ==
  /\ Rising(rxBuff) /\ Rising(rxQueue)
  /\ Before(delivered, rxBuff) /\ Before(delivered, rxQueue) /\ Before(rxBuff, rxQueue)
  /\ purged \cap (Range(rxBuff) \cup Range(rxQueue)) = {}

\* A block on its way from the call of WriteToPort to WriteFile.
Underway == opc # "idle" \/ m_hWriteEvent \/ pc \in {"size", "enter", "write"}

\* With a paced owner there is one such block, owner and thread are never at work
\* on it together, and what each leaves for the next step is complete.
OneUnderway ==
  /\ requested = IF Underway THEN Append(wire, request) ELSE wire
  /\ opc # "idle" => ~m_hWriteEvent /\ pc \notin {"size", "enter", "write", "pending"}
  /\ m_hWriteEvent => pc \notin {"enter", "write", "pending"}
  /\ pc = "size" => m_hWriteEvent
  /\ Underway => Len(request) \in 1..MaxSize
  /\ Underway /\ opc \notin {"copy", "size"} => m_nWriteSize = Len(request)
  /\ Underway /\ opc # "copy" => \A i \in 1..Len(request) : m_szWriteBuffer[i] = request[i]
  /\ pc \in {"size", "enter", "write"} => sendLen = Len(request)

\* Owner paced or not, each block on its way stands for a request not yet sent, so
\* none is sent twice; the event outlives the reading of the size.
Claims ==
  (IF opc # "idle" THEN 1 ELSE 0) + (IF m_hWriteEvent THEN 1 ELSE 0)
    + (IF pc \in {"enter", "write"} THEN 1 ELSE 0)
NoneTwice ==
  /\ Len(wire) + Claims <= Len(requested)
  /\ pc = "size" => m_hWriteEvent

\* Cells hold no number but that of a request made, and a size is never 0.
CellsAnnounced ==
  /\ \A i \in 1..MaxSize : m_szWriteBuffer[i] <= Len(requested)
  /\ \A i \in 1..Len(request) : request[i] <= Len(requested)
  /\ pc \in {"size", "enter", "write"} => sendLen # 0

BytesInv == ReadProgress /\ BytesOrdered /\ NothingVanishes
IInv == TypeOK /\ RequestSized /\ BytesInv /\ NoneTwice /\ CellsAnnounced /\ (paced => OneUnderway)

=============================================================================
