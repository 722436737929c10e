----------------------------- MODULE Snapshots -----------------------------
(***************************************************************************)
(* What sharing one camera promises, without buffers, locks, events or     *)
(* lights.  A thread's picture is taken in one instant and stays as it was *)
(* taken until the thread lays it down, whatever other threads do.  One of *)
(* them inspects: it marks what its pictures show.  While it holds a       *)
(* picture of a product, or marks of one, a careful operator puts nothing  *)
(* else in its place, so that pictures and marks never come from a product *)
(* other than the one that is there.                                       *)
(***************************************************************************)
CONSTANTS Products, Empty, Threads, Inspector

VARIABLES
  careful,  \* the operator waits for the station; rigid
  fixture,  \* the product on the fixture, or Empty
  picture,  \* of each thread: the one it holds, or none
  marks     \* the products on which the marks in use were found

snapshots == <<careful, fixture, picture, marks>>

Shown(t) == {img.of : img \in picture[t]}

Init ==
  /\ careful \in BOOLEAN
  /\ fixture = Empty
  /\ picture = [t \in Threads |-> {}]
  /\ marks = {}

Put(p) ==
  /\ fixture = Empty /\ fixture' = p
  /\ careful => marks = {} /\ Shown(Inspector) \subseteq {Empty}
  /\ UNCHANGED <<careful, picture, marks>>

Take ==
  /\ fixture' = Empty
  /\ UNCHANGED <<careful, picture, marks>>

Grab(t) ==
  /\ picture[t] = {}
  /\ picture' = [picture EXCEPT ![t] = {[by |-> t, of |-> fixture]}]
  /\ UNCHANGED <<careful, fixture, marks>>

\* It was displayed, measured or judged to show nothing new, or is of no use.
LayDown(t) ==
  /\ picture' = [picture EXCEPT ![t] = {}]
  /\ UNCHANGED <<careful, fixture, marks>>

\* What is found is marked; older marks may be replaced.
Judge ==
  /\ picture[Inspector] # {}
  /\ picture' = [picture EXCEPT ![Inspector] = {}]
  /\ marks' \subseteq marks \cup (Shown(Inspector) \ {Empty})
  /\ UNCHANGED <<careful, fixture>>

\* The next inspection begins without marks.
Forget ==
  /\ marks' = {}
  /\ UNCHANGED <<careful, fixture, picture>>

\* An operator who does not wait: pictures and marks are promised to nobody.
Spoil ==
  /\ ~careful
  /\ UNCHANGED <<careful, fixture>>

Next ==
  \/ Spoil
  \/ \E p \in Products : Put(p)
  \/ Take
  \/ \E t \in Threads : Grab(t) \/ LayDown(t)
  \/ Judge \/ Forget

Spec == Init /\ [][Next]_snapshots

\* A thread holds its own picture, and what the inspector's pictures and marks show
\* is the product that is there: they outlive it on an empty fixture only.
PicturesTrue ==
  careful =>
    /\ \A t \in Threads : \A img \in picture[t] : img.by = t
    /\ fixture # Empty => Shown(Inspector) \cup marks \subseteq {Empty, fixture}

=============================================================================
