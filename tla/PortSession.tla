---------------------------- MODULE PortSession -----------------------------
(***************************************************************************)
(* What CSerialPort promises its user, without threads, events or locks: a *)
(* port that is usable or not, watched by at most one monitor at a time.   *)
(* The port becomes usable only while nobody watches it, watching begins   *)
(* on a usable port, and a monitor leaves only a port that is no longer    *)
(* usable.  A user who calls on before the monitor has come to life        *)
(* forfeits this promise, until the port is opened with no monitor there.  *)
(***************************************************************************)
CONSTANTS Monitors, Nobody

VARIABLES usable, monitor, forfeited

session == <<usable, monitor, forfeited>>

Init == usable = FALSE /\ monitor = Nobody /\ forfeited = FALSE

\* InitPort succeeds.
Open == monitor = Nobody /\ usable' = TRUE /\ UNCHANGED <<monitor, forfeited>>

\* The port is closed, or lost to an I/O error.
Lose == usable /\ usable' = FALSE /\ UNCHANGED <<monitor, forfeited>>

\* StartMonitoring.
Attach(m) ==
  usable /\ monitor = Nobody /\ monitor' = m /\ UNCHANGED <<usable, forfeited>>

\* The comm thread ends.
Detach ==
  monitor # Nobody /\ ~usable /\ monitor' = Nobody /\ UNCHANGED <<usable, forfeited>>

\* The user takes a monitor that has not come to life for one that has ended.
Overtake ==
  monitor # Nobody /\ ~forfeited /\ forfeited' = TRUE /\ UNCHANGED <<usable, monitor>>

\* From then on nothing is promised.
Stray ==
  /\ forfeited
  /\ usable' \in BOOLEAN /\ monitor' \in Monitors \cup {Nobody}
  /\ UNCHANGED forfeited

\* InitPort meets no monitor.
Restore ==
  forfeited /\ monitor = Nobody /\ forfeited' = FALSE /\ UNCHANGED <<usable, monitor>>

Next == Open \/ Lose \/ Detach \/ Overtake \/ Stray \/ Restore
          \/ \E m \in Monitors : Attach(m)

Spec == Init /\ [][Next]_session

=============================================================================
