-------------------------- MODULE PeripheralsProofs --------------------------
(***************************************************************************)
(* Proofs about Peripherals, for any durations with an interval of looks   *)
(* that is not zero: the pad is on no longer than its time and a debounce, *)
(* a product is pulled once, the pad stays off after the exit button, and  *)
(* the lamps tell the verdict.                                             *)
(***************************************************************************)
EXTENDS Peripherals, TLAPS

\* The inductive invariant holds at the start.
LEMMA InitIInv == ASSUME Init PROVE IInv
<1>1. TypeOK
  BY DEF Init, TypeOK
<1>2. Clock
  BY PeripheralsAssumption DEF Init, Clock
<1>3. PadTimed /\ OffAfterExit /\ PulledIsKnown /\ ExitIsSeen
  BY DEF Init, PadTimed, OffAfterExit, PulledIsKnown, ExitIsSeen
<1>4. LampInv
  BY DEF Init, LampInv, LampsTellWeight, FirstLampTells, WeighedBeforeExit
<1>5. QED
  BY <1>1, <1>2, <1>3, <1>4 DEF IInv, PadInv

(* What a write leaves and what a history collects is Boolean. *)
LEMMA WriteType ==
  ASSUME NEW output \in BOOLEAN, NEW on \in BOOLEAN, NEW x \in MyWriteBit(output, on)
  PROVE  x \in BOOLEAN
BY DEF MyWriteBit

\* A disjunction is a Boolean, for a variable that is one.
LEMMA OrType == ASSUME NEW a, NEW b, NEW c, c = (a \/ b) PROVE c \in BOOLEAN
OBVIOUS

\* The types, in two halves: where the threads and clocks are, and the levels.
PointsTyped ==
  /\ spc \in {"head", "delay", "loop", "bounce", "sleep", "done"}
  /\ left \in Nat /\ elapsed \in Nat /\ sinceBegin \in Nat /\ sinceStep \in Nat
  /\ dpc \in {"idle", "closePort", "sleep", "closing", "ended"}
  /\ dleft \in Nat
  /\ weighing \in {"no", "first", "second"}
LevelsTyped ==
  /\ m_bSucker \in BOOLEAN /\ signal \in BOOLEAN /\ pad \in BOOLEAN
  /\ m_bexit \in BOOLEAN /\ m_bCheckWeight \in BOOLEAN /\ loaded \in BOOLEAN
  /\ okLamp \in BOOLEAN /\ ngLamp \in BOOLEAN /\ lampFailed \in BOOLEAN
  /\ pulled \in BOOLEAN /\ misread \in BOOLEAN
  /\ stuck \in BOOLEAN /\ caught \in BOOLEAN

\* Every step keeps the threads at their points and the clocks numbers.
LEMMA PointsStep == ASSUME PointsTyped, Next PROVE PointsTyped'
<1> USE PeripheralsAssumption
    DEF PointsTyped, thread, dialog, scale, sensors, history, At, Woken, Sleep
<1>1. CASE Head
  BY <1>1 DEF Head
<1>2. CASE Pull
  BY <1>2 DEF Pull
<1>3. CASE LetGo
  BY <1>3 DEF LetGo
<1>4. CASE TimeIsUp
  BY <1>4 DEF TimeIsUp, SwitchOff
<1>5. CASE Round
  BY <1>5 DEF Round
<1>6. CASE SecondLook
  BY <1>6 DEF SecondLook, SwitchOff
<1>7. CASE NextRound
  BY <1>7 DEF NextRound
<1>8. CASE OnReceiveStr
  BY <1>8 DEF OnReceiveStr
<1>9. CASE Weighs
  BY <1>9 DEF Weighs, EmptyScale, FirstLamp, SecondLamp
<1>10. CASE OnOk
  BY <1>10 DEF OnOk
<1>11. CASE Closes
  BY <1>11 DEF Closes, ClosePort, InitIO
<1>12. CASE End
  BY <1>12 DEF End
<1>13. CASE Tick
  BY <1>13 DEF Tick, Down
<1>14. CASE Signal \/ Load
  BY <1>14 DEF Signal, Load
<1>15. QED
  BY <1>1, <1>2, <1>3, <1>4, <1>5, <1>6, <1>7, <1>8, <1>9, <1>10, <1>11, <1>12, <1>13,
     <1>14 DEF Next, Sucker

\* Every step keeps the levels Booleans.
LEMMA LevelsStep == ASSUME LevelsTyped, Next PROVE LevelsTyped'
<1> USE DEF LevelsTyped, thread, dialog, scale, sensors, history, At, Woken, Sleep,
        MyWriteBit, Misses
<1>1. CASE Head
  <2>1. m_bSucker' \in BOOLEAN
    BY <1>1 DEF Head
  <2>2. misread' \in BOOLEAN
    BY <1>1, OrType DEF Head
  <2>3. UNCHANGED <<m_bexit, scale, sensors, pad, pulled, stuck, caught>>
    BY <1>1 DEF Head
  <2>4. QED
    BY <2>1, <2>2, <2>3
<1>2. CASE Pull
  <2>1. m_bSucker' \in BOOLEAN /\ pulled' \in BOOLEAN
    BY <1>2 DEF Pull
  <2>2. pad' \in BOOLEAN
    BY <1>2, WriteType DEF Pull
  <2>3. UNCHANGED <<m_bexit, scale, sensors, misread, stuck, caught>>
    BY <1>2 DEF Pull
  <2>4. QED
    BY <2>1, <2>2, <2>3
<1>3. CASE LetGo
  <2>1. misread' \in BOOLEAN
    BY <1>3, OrType DEF LetGo
  <2>2. UNCHANGED <<m_bSucker, m_bexit, scale, sensors, pad, pulled, stuck, caught>>
    BY <1>3 DEF LetGo
  <2>3. QED
    BY <2>1, <2>2
<1>4. CASE TimeIsUp
  <2>1. pad' \in BOOLEAN
    BY <1>4, WriteType DEF TimeIsUp, SwitchOff
  <2>2. stuck' \in BOOLEAN
    BY <1>4, OrType DEF TimeIsUp, SwitchOff
  <2>3. UNCHANGED <<m_bSucker, m_bexit, scale, sensors, pulled, misread, caught>>
    BY <1>4 DEF TimeIsUp
  <2>4. QED
    BY <2>1, <2>2, <2>3
<1>5. CASE Round
  <2>1. misread' \in BOOLEAN
    BY <1>5, OrType DEF Round
  <2>2. QED
    BY <1>5, <2>1 DEF Round
<1>6. CASE SecondLook
  <2>1. misread' \in BOOLEAN
    BY <1>6, OrType DEF SecondLook
  <2>2. pad' \in BOOLEAN
    BY <1>6, WriteType DEF SecondLook, SwitchOff
  <2>3. stuck' \in BOOLEAN
    BY <1>6, OrType DEF SecondLook, SwitchOff
  <2>4. UNCHANGED <<m_bSucker, m_bexit, scale, sensors, pulled, caught>>
    BY <1>6 DEF SecondLook
  <2>5. QED
    BY <2>1, <2>2, <2>3, <2>4
<1>7. CASE NextRound
  BY <1>7 DEF NextRound
<1>8. CASE OnReceiveStr
  BY <1>8, ZenonT(30) DEF OnReceiveStr
<1>9. CASE Weighs
  <2>1. okLamp' \in BOOLEAN
    BY <1>9, WriteType DEF Weighs, EmptyScale, FirstLamp, SecondLamp, Lamp
  <2>2. ngLamp' \in BOOLEAN
    <3>1. (~m_bCheckWeight) \in BOOLEAN
      OBVIOUS
    <3>2. QED
      BY <1>9, <3>1, WriteType DEF Weighs, EmptyScale, FirstLamp, SecondLamp, Lamp
  <2>3. lampFailed' \in BOOLEAN
    BY <1>9, OrType DEF Weighs, EmptyScale, FirstLamp, SecondLamp, Lamp
  <2>4. UNCHANGED <<m_bSucker, m_bexit, m_bCheckWeight, sensors, pad, history>>
    BY <1>9 DEF Weighs, EmptyScale, FirstLamp, SecondLamp
  <2>5. QED
    BY <2>1, <2>2, <2>3, <2>4
<1>10. CASE OnOk
  BY <1>10 DEF OnOk
<1>11. CASE Closes
  <2>1. CASE ClosePort
    BY <2>1 DEF ClosePort
  <2>2. CASE InitIO
    <3>1. okLamp' \in BOOLEAN /\ ngLamp' \in BOOLEAN /\ pad' \in BOOLEAN
      BY <2>2, WriteType DEF InitIO
    <3>2. lampFailed' \in BOOLEAN /\ stuck' \in BOOLEAN
      BY <2>2, OrType DEF InitIO
    <3>3. caught' \in BOOLEAN
      BY <2>2 DEF InitIO
    <3>4. UNCHANGED <<m_bSucker, m_bexit, m_bCheckWeight, sensors, pulled, misread>>
      BY <2>2 DEF InitIO
    <3>5. QED
      BY <3>1, <3>2, <3>3, <3>4
  <2>3. QED
    BY <1>11, <2>1, <2>2 DEF Closes
<1>12. CASE End
  BY <1>12 DEF End
<1>13. CASE Tick
  BY <1>13 DEF Tick, Down
<1>14. CASE Signal
  <2>1. signal' \in BOOLEAN /\ pulled' \in BOOLEAN /\ misread' \in BOOLEAN
    BY <1>14 DEF Signal
  <2>2. UNCHANGED <<m_bSucker, m_bexit, scale, loaded, pad, stuck, caught>>
    BY <1>14 DEF Signal
  <2>3. QED
    BY <2>1, <2>2
<1>15. CASE Load
  <2>1. loaded' \in BOOLEAN
    BY <1>15 DEF Load
  <2>2. UNCHANGED <<m_bSucker, m_bexit, scale, signal, pad, history>>
    BY <1>15 DEF Load
  <2>3. QED
    BY <2>1, <2>2
<1>16. QED
  BY <1>1, <1>2, <1>3, <1>4, <1>5, <1>6, <1>7, <1>8, <1>9, <1>10, <1>11, <1>12, <1>13,
     <1>14, <1>15 DEF Next, Sucker

\* Every step keeps TypeOK.
LEMMA TypeStep == ASSUME TypeOK, Next PROVE TypeOK'
BY PointsStep, LevelsStep DEF TypeOK, PointsTyped, LevelsTyped

\* The suction thread keeps what the pad's output means.
LEMMA PadSuckerStep ==
  ASSUME IInv, Sucker
  PROVE  PadInv'
<1> USE PeripheralsAssumption
    DEF IInv, PadInv, PadTimed, OffAfterExit, Clock, PulledIsKnown, ExitIsSeen, TypeOK,
        thread, dialog, scale, sensors, history, At, Woken, ThreadRuns, Sleep,
        MyReadBit, MyWriteBit
<1>1. CASE Head
  <2>1. UNCHANGED <<elapsed, sinceBegin, sinceStep, dialog, pad, pulled, stuck, caught>>
    BY <1>1 DEF Head
  <2>2. PadTimed' /\ OffAfterExit' /\ Clock'
    <3>1. spc = "head" /\ spc' \in {"done", "delay", "sleep"}
      BY <1>1 DEF Head
    <3>2. ~pad \/ stuck \/ dpc = "ended"
      BY <3>1
    <3>3. QED
      BY <2>1, <3>1, <3>2
  <2>3. PulledIsKnown'
    <3>1. UNCHANGED signal /\ (misread => misread')
      BY <1>1 DEF Head, Misses
    <3>2. m_bSucker' => m_bSucker \/ ~signal \/ misread'
      BY <1>1 DEF Head, Misses
    <3>3. QED
      BY <2>1, <3>1, <3>2
  <2>4. ExitIsSeen'
    BY <1>1, <2>1 DEF Head
  <2>5. QED
    BY <2>2, <2>3, <2>4
<1>2. CASE Pull
  BY <1>2 DEF Pull
<1>3. CASE LetGo
  BY <1>3 DEF LetGo, Misses
<1>4. CASE TimeIsUp
  <2>1. pad' => stuck'
    BY <1>4 DEF TimeIsUp, SwitchOff
  <2>2. /\ spc = "loop" /\ spc' = "sleep"
        /\ elapsed' = 0 /\ sinceBegin' = 0
        /\ UNCHANGED <<m_bSucker, dialog, signal, pulled, misread, caught>>
    BY <1>4 DEF TimeIsUp, SwitchOff
  <2>3. PadTimed' /\ OffAfterExit'
    BY <2>1, <2>2
  <2>4. Clock' /\ PulledIsKnown' /\ ExitIsSeen'
    BY <2>2
  <2>5. QED
    BY <2>3, <2>4
<1>5. CASE Round
  BY <1>5 DEF Round, Misses
<1>6. CASE SecondLook
  <2>1. /\ spc = "bounce" /\ left = 0
        /\ UNCHANGED <<m_bSucker, dialog, signal, pulled, caught>>
    BY <1>6 DEF SecondLook
  <2>2. misread => misread'
    BY <1>6 DEF SecondLook, Misses
  <2>3. PulledIsKnown' /\ ExitIsSeen'
    <3>1. spc' # "delay"
      BY <1>6 DEF SecondLook, SwitchOff
    <3>2. QED
      BY <2>1, <2>2, <3>1
  <2>4. CASE SwitchOff
    <3>1. pad' => stuck'
      BY <2>4 DEF SwitchOff
    <3>2. spc' = "sleep" /\ elapsed' = 0 /\ sinceBegin' = 0
      BY <2>4 DEF SwitchOff
    <3>3. PadTimed' /\ OffAfterExit' /\ Clock'
      BY <2>1, <3>1, <3>2
    <3>4. QED
      BY <2>3, <3>3
  <2>5. CASE /\ spc' = "loop" /\ sinceStep' = 0
             /\ UNCHANGED <<left, elapsed, sinceBegin, pad, stuck>>
    <3>1. PadTimed' /\ OffAfterExit' /\ Clock'
      BY <2>1, <2>5
    <3>2. QED
      BY <2>3, <3>1
  <2>6. QED
    BY <1>6, <2>4, <2>5 DEF SecondLook
<1>7. CASE NextRound
  BY <1>7 DEF NextRound
<1>8. QED
  BY <1>1, <1>2, <1>3, <1>4, <1>5, <1>6, <1>7 DEF Sucker

\* The suction thread leaves what the lamps mean.
LEMMA LampSuckerStep ==
  ASSUME IInv, Sucker
  PROVE  LampInv'
<1> USE PeripheralsAssumption
    DEF IInv, LampInv, LampsTellWeight, FirstLampTells, WeighedBeforeExit, TypeOK,
        thread, dialog, scale, sensors, history, At, Woken, ThreadRuns, Sleep,
        Misses, MyReadBit, MyWriteBit
<1>1. CASE Head
  BY <1>1 DEF Head
<1>2. CASE Pull
  BY <1>2 DEF Pull
<1>3. CASE LetGo
  BY <1>3 DEF LetGo
<1>4. CASE TimeIsUp
  BY <1>4 DEF TimeIsUp, SwitchOff
<1>5. CASE Round
  BY <1>5 DEF Round
<1>6. CASE SecondLook
  BY <1>6 DEF SecondLook, SwitchOff
<1>7. CASE NextRound
  BY <1>7 DEF NextRound
<1>8. QED
  BY <1>1, <1>2, <1>3, <1>4, <1>5, <1>6, <1>7 DEF Sucker

\* Every other actor keeps what the pad's output means.
LEMMA PadOtherStep ==
  ASSUME IInv, OnReceiveStr \/ Weighs \/ OnOk \/ Closes \/ End \/ Tick \/ Signal \/ Load
  PROVE  PadInv'
<1> USE PeripheralsAssumption
    DEF IInv, PadInv, PadTimed, OffAfterExit, Clock, PulledIsKnown, ExitIsSeen, TypeOK,
        thread, dialog, scale, sensors, history, At, Woken, ThreadRuns, Sleep,
        Misses, MyReadBit, MyWriteBit
<1>1. CASE OnReceiveStr
  BY <1>1 DEF OnReceiveStr
<1>2. CASE EmptyScale
  BY <1>2 DEF EmptyScale
<1>3. CASE FirstLamp
  BY <1>3 DEF FirstLamp, Lamp
<1>4. CASE SecondLamp
  BY <1>4 DEF SecondLamp, Lamp
<1>5. CASE OnOk
  BY <1>5 DEF OnOk
<1>6. CASE ClosePort
  BY <1>6 DEF ClosePort
<1>7. CASE InitIO
  <2>1. /\ dpc = "sleep" /\ dpc' = "closing"
        /\ UNCHANGED <<thread, m_bexit, signal, pulled, misread>>
    BY <1>7 DEF InitIO
  <2>2. (pad' => stuck') /\ caught' = (spc = "delay")
    BY <1>7 DEF InitIO
  <2>3. PadTimed' /\ OffAfterExit'
    BY <2>1, <2>2
  <2>4. Clock' /\ PulledIsKnown'
    BY <2>1
  <2>5. ExitIsSeen'
    BY <2>1, <2>2
  <2>6. QED
    BY <2>3, <2>4, <2>5
<1>8. CASE End
  BY <1>8 DEF End
<1>9. CASE Tick
  BY <1>9 DEF Tick, Quiet, Down
<1>10. CASE Signal
  BY <1>10 DEF Signal
<1>11. CASE Load
  BY <1>11 DEF Load
<1>12. QED
  BY <1>1, <1>2, <1>3, <1>4, <1>5, <1>6, <1>7, <1>8, <1>9, <1>10, <1>11 DEF Weighs, Closes

\* Every other actor keeps what the lamps mean.
LEMMA LampOtherStep ==
  ASSUME IInv, OnReceiveStr \/ Weighs \/ OnOk \/ Closes \/ End \/ Tick \/ Signal \/ Load
  PROVE  LampInv'
<1> USE PeripheralsAssumption
    DEF IInv, LampInv, LampsTellWeight, FirstLampTells, WeighedBeforeExit, TypeOK,
        thread, dialog, scale, sensors, history, At, Woken, ThreadRuns, Sleep,
        Misses, MyReadBit, MyWriteBit
<1>1. CASE OnReceiveStr
  BY <1>1 DEF OnReceiveStr
<1>2. CASE EmptyScale
  BY <1>2 DEF EmptyScale
<1>3. CASE FirstLamp
  BY <1>3 DEF FirstLamp, Lamp
<1>4. CASE SecondLamp
  BY <1>4 DEF SecondLamp, Lamp
<1>5. CASE OnOk
  BY <1>5 DEF OnOk
<1>6. CASE ClosePort
  BY <1>6 DEF ClosePort
<1>7. CASE InitIO
  <2>1. okLamp' \/ ngLamp' => lampFailed'
    BY <1>7 DEF InitIO
  <2>2. UNCHANGED <<weighing, m_bCheckWeight>>
    BY <1>7 DEF InitIO
  <2>3. weighing = "no"
    <3>1. dpc = "sleep"
      BY <1>7 DEF InitIO
    <3>2. QED
      BY <3>1
  <2>4. QED
    BY <2>1, <2>2, <2>3
<1>8. CASE End
  BY <1>8 DEF End
<1>9. CASE Tick
  BY <1>9 DEF Tick, Quiet, Down
<1>10. CASE Signal
  BY <1>10 DEF Signal
<1>11. CASE Load
  BY <1>11 DEF Load
<1>12. QED
  BY <1>1, <1>2, <1>3, <1>4, <1>5, <1>6, <1>7, <1>8, <1>9, <1>10, <1>11 DEF Weighs, Closes

\* Every step keeps the inductive invariant.
LEMMA Step == ASSUME IInv, [Next]_vars PROVE IInv'
<1>1. CASE Sucker
  BY <1>1, TypeStep, PadSuckerStep, LampSuckerStep DEF IInv, Next
<1>2. CASE OnReceiveStr \/ Weighs \/ OnOk \/ Closes \/ End \/ Tick \/ Signal \/ Load
  BY <1>2, TypeStep, PadOtherStep, LampOtherStep DEF IInv, Next
<1>3. CASE UNCHANGED vars
  <2> USE <1>3 DEF vars, thread, dialog, scale, sensors, history, IInv
  <2>1. TypeOK'
    BY DEF TypeOK
  <2>2. PadInv'
    BY DEF PadInv, PadTimed, OffAfterExit, Clock, PulledIsKnown, ExitIsSeen
  <2>3. LampInv'
    BY DEF LampInv, LampsTellWeight, FirstLampTells, WeighedBeforeExit
  <2>4. QED
    BY <2>1, <2>2, <2>3
<1>4. QED
  BY <1>1, <1>2, <1>3 DEF Next

-----------------------------------------------------------------------------
(* The inductive invariant holds of every state: the thread's clock, what  *)
(* its flag remembers and what the exit button has done are in step.       *)
THEOREM Invariance == Spec => []IInv
<1>1. QED
  BY InitIInv, Step, PTL DEF Spec

(* Every variable has its type. *)
THEOREM TypeCorrect == Spec => []TypeOK
<1>1. IInv => TypeOK
  BY DEF IInv, PadInv, LampInv
<1>2. QED
  BY <1>1, Invariance, PTL

(* The pad is on no longer than the set time and one debounce. *)
THEOREM PadIsTimed == Spec => []PadTimed
<1>1. IInv => PadTimed
  BY DEF IInv, PadInv, LampInv
<1>2. QED
  BY <1>1, Invariance, PTL

(* The pad stays off after the exit button, but for the second look it met. *)
THEOREM PadOffAfterExit == Spec => []OffAfterExit
<1>1. IInv => OffAfterExit
  BY DEF IInv, PadInv, LampInv
<1>2. QED
  BY <1>1, Invariance, PTL

(* The lamps tell the verdict on the last weight. *)
THEOREM LampsTell == Spec => []LampsTellWeight
<1>1. IInv => LampsTellWeight
  BY DEF IInv, PadInv, LampInv
<1>2. QED
  BY <1>1, Invariance, PTL

(* A product is pulled once in its stay. *)
THEOREM PulledOnce == Spec => OnePullPerStay
<1>1. IInv /\ [Next]_vars => [Pull => ~pulled \/ misread]_vars
  <2>1. ASSUME IInv, Pull PROVE ~pulled \/ misread
    BY <2>1 DEF IInv, PadInv, PulledIsKnown, Pull
  <2>2. QED
    BY <2>1
<1>2. QED
  BY <1>1, Invariance, PTL DEF Spec, OnePullPerStay
=============================================================================
