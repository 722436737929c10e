---------------------------- MODULE PortChannel ----------------------------
(***************************************************************************)
(* What CSerialPort promises about the data of one session, without        *)
(* buffer, events or threads.  Out: no more blocks are sent than were      *)
(* handed over, and those of an owner that waits for each go out whole and *)
(* in their order.  In: bytes reach the owner in the order of their        *)
(* arrival, and are dropped only while a block is on its way out.          *)
(***************************************************************************)
EXTENDS Naturals, Sequences, Functions

CONSTANT MaxSize   \* cells of the longest block

VARIABLES
  paced,               \* the owner waits for a block to leave; rigid
  requested, wire,     \* blocks handed over, blocks sent
  arrived,             \* bytes that arrived; each is the number of its arrival
  transit,             \* bytes on their way to the owner
  delivered, dropped   \* bytes the owner got, bytes it never will

out     == <<requested, wire>>
in      == <<arrived, transit, delivered, dropped>>
channel == <<paced, out, in>>

Init ==
  /\ paced \in BOOLEAN
  /\ requested = <<>> /\ wire = <<>>
  /\ arrived = 0 /\ transit = <<>> /\ delivered = <<>> /\ dropped = {}

\* WriteToPort takes a block; its cells hold the number of the request.
HandOver ==
  /\ paced => wire = requested
  /\ \E n \in 1..MaxSize :
       requested' = Append(requested, [i \in 1..n |-> Len(requested) + 1])
  /\ UNCHANGED <<paced, wire, in>>

\* Of an owner that does not wait, a block may be torn, but not invented: its cells
\* come from requests made, or are cleared ones.
Cells == UNION {[1..n -> 0..Len(requested)] : n \in 1..MaxSize}

\* WriteFile.
Send ==
  /\ Len(wire) < Len(requested)
  /\ IF paced THEN wire' = Append(wire, requested[Len(wire) + 1])
              ELSE \E block \in Cells : wire' = Append(wire, block)
  /\ UNCHANGED <<paced, requested, in>>

Arrive ==
  /\ arrived' = arrived + 1
  /\ transit' = Append(transit, arrived')
  /\ UNCHANGED <<paced, out, delivered, dropped>>

\* WM_COMM_RXSTR brings the foremost bytes.
Deliver ==
  /\ \E n \in 1..Len(transit) :
       /\ delivered' = delivered \o SubSeq(transit, 1, n)
       /\ transit' = SubSeq(transit, n + 1, Len(transit))
  /\ UNCHANGED <<paced, out, arrived, dropped>>

\* PurgeComm.
Drop ==
  /\ Len(wire) < Len(requested)
  /\ dropped' = dropped \cup Range(transit)
  /\ transit' = <<>>
  /\ UNCHANGED <<paced, out, arrived, delivered>>

Next == HandOver \/ Send \/ Arrive \/ Deliver \/ Drop

Spec == Init /\ [][Next]_channel

\* What was sent of a paced owner is what it handed over, up to the last block at
\* most; each byte that arrived is with the owner, behind those it got, or dropped.
OrderKept ==
  /\ Len(wire) <= Len(requested)
  /\ paced => /\ Len(requested) <= Len(wire) + 1
              /\ \A k \in 1..Len(wire) : wire[k] = requested[k]
  /\ LET way == delivered \o transit
     IN  /\ \A i, j \in 1..Len(way) : i < j => way[i] < way[j]
         /\ 1..arrived = Range(way) \cup dropped
         /\ Range(way) \cap dropped = {}

=============================================================================
