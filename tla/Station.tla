------------------------------ MODULE Station ------------------------------
(***************************************************************************)
(* What the inspection station promises, without threads, messages, events *)
(* or lights.  Products stand on a fixture one after the other.  The one   *)
(* whose bar code was read is the candidate; it is recorded at most once   *)
(* in a stay and, if the operator is careful, only when it has passed the  *)
(* checks itself, for nothing takes its place meanwhile.  The total never  *)
(* runs ahead of the inspections.                                          *)
(***************************************************************************)
EXTENDS Naturals

CONSTANTS Products, Empty, Nobody

VARIABLES
  careful,           \* the operator waits for the station, and can
  short,             \* the build records after the accessories; rigid
  fixture, unseen,   \* the product on the fixture, those still to come
  passed,            \* the checks each product has passed
  candidate,         \* the product that may be recorded next, or Nobody
  done,              \* products recorded in their present stay
  rows,              \* products with a row
  inspected,         \* inspections that ended well
  total, saved       \* what is shown of them, and what is on the disk

operator   == <<careful, short>>
line    == <<fixture, unseen, passed>>
ledger  == <<done, rows>>
counts  == <<inspected, total, saved>>
station == <<operator, line, candidate, ledger, counts>>

Init ==
  /\ careful \in BOOLEAN /\ short \in BOOLEAN
  /\ fixture = Empty /\ unseen = Products
  /\ passed = [p \in Products |-> {}]
  /\ candidate = Nobody /\ done = {} /\ rows = {}
  /\ inspected = 0 /\ total = 0 /\ saved = 0

\* A careful operator puts nothing in the place of a candidate.
Put(p) ==
  /\ fixture = Empty /\ p \in unseen
  /\ careful => candidate = Nobody
  /\ fixture' = p /\ unseen' = unseen \ {p}
  /\ UNCHANGED <<operator, passed, candidate, ledger, counts>>

Take ==
  /\ fixture # Empty
  /\ fixture' = Empty
  /\ done' = done \ {fixture}
  /\ UNCHANGED <<operator, unseen, passed, candidate, rows, counts>>

\* What stands on the fixture passes a check.
Passes(check) ==
  /\ fixture # Empty
  /\ passed' = [passed EXCEPT ![fixture] = @ \cup {check}]
  /\ UNCHANGED <<operator, fixture, unseen, ledger, counts>>

\* Its bar code makes it the candidate.
Identify ==
  /\ candidate = Nobody /\ fixture \notin done
  /\ candidate' = fixture
  /\ Passes("barcode")

Approve(check) == Passes(check) /\ UNCHANGED candidate

\* The cycle ends without a record: the fixture is empty, a check is disabled.
GiveUp ==
  /\ candidate' = Nobody
  /\ UNCHANGED <<operator, line, ledger, counts>>

\* The station was stopped: what stands there may be inspected anew.
Restart ==
  /\ candidate' = Nobody
  /\ done' = {}
  /\ UNCHANGED <<operator, line, rows, counts>>

Suffices(checks) ==
  /\ "barcode" \in checks
  /\ "film" \in checks \/ (short /\ "acc" \in checks)

\* An inspection ends well.  There is no row without a candidate, and none when
\* the file cannot be written.
Record ==
  /\ candidate # Nobody => candidate \notin done
  /\ careful /\ candidate # Nobody => Suffices(passed[candidate])
  /\ \E row \in SUBSET ({candidate} \ {Nobody}) :
       rows' = rows \cup row /\ done' = done \cup row
  /\ inspected' = inspected + 1
  /\ candidate' = Nobody
  /\ UNCHANGED <<operator, line, total, saved>>

Count ==
  /\ total < inspected
  /\ total' = total + 1
  /\ UNCHANGED <<operator, line, candidate, ledger, inspected, saved>>

\* The dialog may write an older total back, and the operator may lose the sign
\* he waits for.
FallBack ==
  /\ total' \in 0..total
  /\ careful' \in {careful, FALSE}
  /\ UNCHANGED <<short, line, candidate, ledger, inspected, saved>>

Save ==
  /\ saved' = total
  /\ UNCHANGED <<operator, line, candidate, ledger, inspected, total>>

Next ==
  \/ \E p \in Products : Put(p)
  \/ Take
  \/ Identify
  \/ \E check \in {"acc", "film"} : Approve(check)
  \/ GiveUp \/ Restart \/ Record
  \/ Count \/ FallBack \/ Save

Spec == Init /\ [][Next]_station

\* Of a careful operator a row is about a product that passed what its build asks
\* for, because nothing but the candidate stands on the fixture while there is one.
\* No total runs ahead, whatever was written back or saved.
RecordsSound ==
  /\ careful => \A p \in rows : Suffices(passed[p])
  /\ careful /\ candidate # Nobody => fixture \in {Empty, candidate}
  /\ done \subseteq rows
  /\ total <= inspected /\ saved <= inspected

=============================================================================
