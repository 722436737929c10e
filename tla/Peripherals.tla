----------------------------- MODULE Peripherals -----------------------------
(***************************************************************************)
(* The suction pad and the scale of the station, as the dialog drives them *)
(* through the I/O card (Checker5678Dlg.cpp): the pad's thread Sucker, the *)
(* handler OnReceiveStr of what the scale sends, with ShowResultHaevy and  *)
(* its lamps, and the exit button, which switches every output off.        *)
(*                                                                         *)
(* Time passes in ticks, and only when no thread has a step to take: a     *)
(* step lasts less than a tick, and the handler's Sleep(10) counts as one. *)
(* Any access to the card may fail; the failure of a write is not looked   *)
(* at, that of a read is the answer -1, which is neither level.            *)
(***************************************************************************)
EXTENDS Naturals

CONSTANTS        \* all in ticks
  DelayTime,     \* m_fDelayTime: from the sensor's signal to the second look
  PadTime,       \* m_fTime: how long the pad may be on
  StepTime,      \* StepTime: how often the signal is looked at meanwhile
  Debounce,      \* Sleep(100): before the signal is taken to be gone
  Poll,          \* Sleep(200): between two rounds of the thread
  ExitSleep      \* Sleep(500) of the exit button

ASSUME PeripheralsAssumption ==
  /\ {DelayTime, PadTime, Debounce, Poll, ExitSleep} \subseteq Nat
  /\ StepTime \in Nat \ {0}

VARIABLES
  spc,           \* where the pad's thread is
  left,          \* how long its Sleep still lasts
  m_bSucker,     \* may the next signal switch the pad on?
  elapsed,       \* MynFreq_time, as the loop computed it last
  sinceBegin,    \* the time since MynBeginTime
  sinceStep,     \* the time since MyStepBeginTime
  signal,        \* is the pad's sensor covered?
  pad,           \* the output OUT_SUKER
  dpc,           \* where the dialog's thread is
  dleft,         \* how long its Sleep still lasts
  weighing,      \* where the dialog is in the handler of the scale's text
  m_bexit,
  m_bCheckWeight,
  okLamp,        \* the outputs OUT_LIGHT_WEIGHT_OK
  ngLamp,        \* and OUT_LIGHT_WEIGHT_NG
  loaded,        \* is the sensor of the scale covered?
  pulled,        \* history: the pad was on since the signal last came
  misread,       \* history: a read failed since then
  stuck,         \* history: the pad could not be switched off
  caught,        \* history: exit met the thread before its second look
  lampFailed     \* history: a lamp of the last weighing could not be written

thread  == <<spc, left, m_bSucker, elapsed, sinceBegin, sinceStep>>
dialog  == <<dpc, dleft, m_bexit>>
scale   == <<weighing, m_bCheckWeight, okLamp, ngLamp, lampFailed>>
sensors == <<signal, loaded>>
history == <<pulled, misread, stuck, caught>>
vars    == <<thread, dialog, scale, sensors, pad, history>>

TypeOK ==
  /\ spc \in {"head", "delay", "loop", "bounce", "sleep", "done"}
  /\ left \in Nat /\ elapsed \in Nat /\ sinceBegin \in Nat /\ sinceStep \in Nat
  /\ dpc \in {"idle", "closePort", "sleep", "closing", "ended"}
  /\ dleft \in Nat
  /\ weighing \in {"no", "first", "second"}
  /\ m_bSucker \in BOOLEAN /\ signal \in BOOLEAN /\ pad \in BOOLEAN
  /\ m_bexit \in BOOLEAN /\ m_bCheckWeight \in BOOLEAN /\ loaded \in BOOLEAN
  /\ okLamp \in BOOLEAN /\ ngLamp \in BOOLEAN /\ lampFailed \in BOOLEAN
  /\ pulled \in BOOLEAN /\ misread \in BOOLEAN
  /\ stuck \in BOOLEAN /\ caught \in BOOLEAN

Init ==
  /\ spc = "head" /\ left = 0 /\ m_bSucker = TRUE
  /\ elapsed = 0 /\ sinceBegin = 0 /\ sinceStep = 0
  /\ dpc = "idle" /\ dleft = 0 /\ m_bexit = FALSE
  /\ weighing = "no" /\ m_bCheckWeight = FALSE
  /\ okLamp = FALSE /\ ngLamp = FALSE /\ lampFailed = FALSE
  /\ signal = FALSE /\ loaded = FALSE /\ pad = FALSE
  /\ pulled = FALSE /\ misread = FALSE /\ stuck = FALSE /\ caught = FALSE

-----------------------------------------------------------------------------
(* The I/O card.                                                           *)

\* What MyReadBit may answer of an input: the level is inverted, 0 is VALID.
MyReadBit(covered) == {IF covered THEN "VALID" ELSE "INVALID", "failed"}

\* What MyWriteBit may leave an output at.
MyWriteBit(output, on) == {output, on}

-----------------------------------------------------------------------------
(* Sucker, the thread of the pad.                                          *)

ThreadRuns == dpc # "ended"
At(p) == ThreadRuns /\ spc = p
Woken(p) == At(p) /\ left = 0

Sleep(p, time) == spc' = p /\ left' = time

Misses(answer) == misread' = (misread \/ answer = "failed")

\* Mutant: the thread does not look at m_bexit.
MutHead ==
  /\ At("head")
  /\ \E answer \in MyReadBit(signal) :
       /\ IF answer = "VALID"
            THEN Sleep("delay", DelayTime) /\ UNCHANGED m_bSucker
            ELSE Sleep("sleep", Poll) /\ m_bSucker' = TRUE
       /\ Misses(answer)
  /\ UNCHANGED <<elapsed, sinceBegin, sinceStep, dialog, scale, sensors, pad,
                 pulled, stuck, caught>>

\* The head of the loop: m_bexit ends the thread; a signal is looked at again
\* after the delay, and anything else makes ready for the next one.
Head ==
  /\ At("head")
  /\ \/ m_bexit /\ spc' = "done" /\ UNCHANGED <<left, m_bSucker, misread>>
     \/ /\ ~m_bexit
        /\ \E answer \in MyReadBit(signal) :
             /\ IF answer = "VALID"
                  THEN Sleep("delay", DelayTime) /\ UNCHANGED m_bSucker
                  ELSE Sleep("sleep", Poll) /\ m_bSucker' = TRUE
             /\ Misses(answer)
  /\ UNCHANGED <<elapsed, sinceBegin, sinceStep, dialog, scale, sensors, pad,
                 pulled, stuck, caught>>

\* Mutant: the flag is not put down, so a product is pulled again and again.
MutPull ==
  /\ Woken("delay") /\ m_bSucker
  /\ spc' = "loop" /\ UNCHANGED <<m_bSucker, left>>
  /\ elapsed' = 0 /\ sinceBegin' = 0 /\ sinceStep' = 0
  /\ signal
  /\ pad' \in MyWriteBit(pad, TRUE)
  /\ pulled' = TRUE
  /\ UNCHANGED <<dialog, scale, sensors, misread, stuck, caught>>

\* The second look still finds the signal, for the first time: the pad is
\* switched on and its time begins.
Pull ==
  /\ Woken("delay") /\ m_bSucker
  /\ spc' = "loop" /\ m_bSucker' = FALSE
  /\ elapsed' = 0 /\ sinceBegin' = 0 /\ sinceStep' = 0
  /\ signal
  /\ pad' \in MyWriteBit(pad, TRUE)
  /\ pulled' = TRUE
  /\ UNCHANGED <<left, dialog, scale, sensors, misread, stuck, caught>>

\* Mutant: the flag is put down before the second look.
MutLetGo ==
  /\ Woken("delay")
  /\ Sleep("sleep", Poll)
  /\ m_bSucker' = FALSE
  /\ \E answer \in MyReadBit(signal) : Misses(answer)
  /\ UNCHANGED <<elapsed, sinceBegin, sinceStep, dialog, scale, sensors, pad,
                 pulled, stuck, caught>>

\* It does not, or the product was pulled before.
LetGo ==
  /\ Woken("delay")
  /\ \E answer \in MyReadBit(signal) :
       /\ answer # "VALID" \/ ~m_bSucker
       /\ Misses(answer)
  /\ Sleep("sleep", Poll)
  /\ UNCHANGED <<m_bSucker, elapsed, sinceBegin, sinceStep, dialog, scale, sensors,
                 pad, pulled, stuck, caught>>

\* Switch the pad off and go to sleep; the times were local variables.
SwitchOff ==
  /\ pad' \in MyWriteBit(pad, FALSE)
  /\ stuck' = (stuck \/ pad')
  /\ elapsed' = 0 /\ sinceBegin' = 0 /\ sinceStep' = 0
  /\ Sleep("sleep", Poll)

\* The while condition, on the time the last round computed.
TimeIsUp ==
  /\ At("loop") /\ elapsed >= PadTime
  /\ SwitchOff
  /\ UNCHANGED <<m_bSucker, dialog, scale, sensors, pulled, misread, caught>>

\* A round of the loop when there is something new: compute the times and, once
\* an interval is over, look at the signal.
Round ==
  /\ At("loop") /\ elapsed < PadTime /\ elapsed # sinceBegin
  /\ elapsed' = sinceBegin
  /\ IF sinceStep >= StepTime
       THEN \E answer \in MyReadBit(signal) :
              /\ IF answer = "INVALID"
                   THEN Sleep("bounce", Debounce) /\ UNCHANGED sinceStep
                   ELSE sinceStep' = 0 /\ UNCHANGED <<spc, left>>
              /\ Misses(answer)
       ELSE UNCHANGED <<spc, left, sinceStep, misread>>
  /\ UNCHANGED <<m_bSucker, sinceBegin, dialog, scale, sensors, pad, pulled, stuck,
                 caught>>

\* Mutant: the thread leaves the loop past the write that switches the pad off.
MutSecondLook ==
  /\ Woken("bounce")
  /\ \E answer \in MyReadBit(signal) :
       /\ \/ answer = "INVALID" /\ Sleep("sleep", Poll) /\ UNCHANGED sinceStep
          \/ answer # "INVALID" /\ spc' = "loop" /\ sinceStep' = 0 /\ UNCHANGED left
       /\ Misses(answer)
  /\ UNCHANGED <<m_bSucker, elapsed, sinceBegin, dialog, scale, sensors, pad, pulled,
                 stuck, caught>>

\* The signal is looked at again before it is taken to be gone.
SecondLook ==
  /\ Woken("bounce")
  /\ \E answer \in MyReadBit(signal) :
       /\ \/ answer = "INVALID" /\ SwitchOff
          \/ /\ answer # "INVALID"
             /\ spc' = "loop" /\ sinceStep' = 0
             /\ UNCHANGED <<left, elapsed, sinceBegin, pad, stuck>>
       /\ Misses(answer)
  /\ UNCHANGED <<m_bSucker, dialog, scale, sensors, pulled, caught>>

NextRound ==
  /\ Woken("sleep")
  /\ spc' = "head"
  /\ UNCHANGED <<left, m_bSucker, elapsed, sinceBegin, sinceStep, dialog, scale,
                 sensors, pad, history>>

Sucker == Head \/ Pull \/ LetGo \/ TimeIsUp \/ Round \/ SecondLook \/ NextRound

-----------------------------------------------------------------------------
(* The scale: OnReceiveStr and ShowResultHaevy, in the dialog's thread.    *)

\* The serial port's thread delivers a text with a weight in it, while the
\* dialog is idle or waits for that thread in ClosePort.  Memory behind the text
\* may be taken for part of it, so any verdict can come of it; a text without
\* a weight changes nothing.
OnReceiveStr ==
  /\ dpc \in {"idle", "closePort"} /\ weighing = "no"
  /\ m_bCheckWeight' \in BOOLEAN
  /\ weighing' = "first"
  /\ lampFailed' = FALSE
  /\ UNCHANGED <<thread, dialog, okLamp, ngLamp, sensors, pad, history>>

\* Write one lamp.
Lamp(lamp, on) ==
  /\ lamp' \in MyWriteBit(lamp, on)
  /\ lampFailed' = (lampFailed \/ lamp' # on)

\* An empty scale puts both lamps out; a read that failed counts as a load.
EmptyScale ==
  /\ weighing = "first" /\ ~loaded
  /\ okLamp' \in MyWriteBit(okLamp, FALSE) /\ ngLamp' \in MyWriteBit(ngLamp, FALSE)
  /\ lampFailed' = (okLamp' \/ ngLamp')
  /\ weighing' = "no"
  /\ UNCHANGED <<thread, dialog, m_bCheckWeight, sensors, pad, history>>

FirstLamp ==
  /\ weighing = "first"
  /\ MyReadBit(loaded) \ {"INVALID"} # {}
  /\ Lamp(okLamp, m_bCheckWeight)
  /\ weighing' = "second"
  /\ UNCHANGED <<thread, dialog, m_bCheckWeight, ngLamp, sensors, pad, history>>

\* Mutant: the lamp of the last weighing stays on.
MutSecondLamp ==
  /\ weighing = "second"
  /\ IF m_bCheckWeight THEN UNCHANGED <<ngLamp, lampFailed>> ELSE Lamp(ngLamp, TRUE)
  /\ weighing' = "no"
  /\ UNCHANGED <<thread, dialog, m_bCheckWeight, okLamp, sensors, pad, history>>

SecondLamp ==
  /\ weighing = "second"
  /\ Lamp(ngLamp, ~m_bCheckWeight)
  /\ weighing' = "no"
  /\ UNCHANGED <<thread, dialog, m_bCheckWeight, okLamp, sensors, pad, history>>

Weighs == EmptyScale \/ FirstLamp \/ SecondLamp

-----------------------------------------------------------------------------
(* The exit button of a stopped station.                                   *)

OnOk ==
  /\ dpc = "idle" /\ weighing = "no"
  /\ dpc' = "closePort" /\ m_bexit' = TRUE
  /\ UNCHANGED <<thread, dleft, scale, sensors, pad, history>>

ClosePort ==
  /\ dpc = "closePort" /\ weighing = "no"
  /\ dpc' = "sleep" /\ dleft' = ExitSleep
  /\ UNCHANGED <<thread, m_bexit, scale, sensors, pad, history>>

\* All outputs off.
InitIO ==
  /\ dpc = "sleep" /\ dleft = 0
  /\ dpc' = "closing"
  /\ pad' \in MyWriteBit(pad, FALSE) /\ stuck' = (stuck \/ pad')
  /\ okLamp' \in MyWriteBit(okLamp, FALSE) /\ ngLamp' \in MyWriteBit(ngLamp, FALSE)
  /\ lampFailed' = (okLamp' \/ ngLamp')
  /\ caught' = (spc = "delay")
  /\ UNCHANGED <<thread, dleft, m_bexit, weighing, m_bCheckWeight, sensors, pulled,
                 misread>>

\* The program ends and its threads with it; the card keeps its outputs.
End ==
  /\ dpc = "closing" /\ dpc' = "ended"
  /\ UNCHANGED <<thread, dleft, m_bexit, scale, sensors, pad, history>>

Closes == ClosePort \/ InitIO

-----------------------------------------------------------------------------
(* Time and the operator's hands.                                          *)

Down(time) == IF time = 0 THEN 0 ELSE time - 1

\* Nothing is left to do before the next tick.
Quiet ==
  /\ weighing = "no"
  /\ dpc # "closePort" /\ ~(dpc = "sleep" /\ dleft = 0)
  /\ spc # "head"
  /\ spc \in {"delay", "bounce", "sleep"} => left > 0
  /\ spc = "loop" => elapsed < PadTime /\ elapsed = sinceBegin

Tick ==
  /\ ThreadRuns /\ Quiet
  /\ left' = Down(left) /\ dleft' = Down(dleft)
  /\ IF spc \in {"loop", "bounce"}
       THEN sinceBegin' = sinceBegin + 1 /\ sinceStep' = sinceStep + 1
       ELSE UNCHANGED <<sinceBegin, sinceStep>>
  /\ UNCHANGED <<spc, m_bSucker, elapsed, dpc, m_bexit, scale, sensors, pad, history>>

\* The product comes or goes, or the sensor bounces.
Signal ==
  /\ ThreadRuns
  /\ signal' = ~signal
  /\ pulled' = FALSE /\ misread' = FALSE
  /\ UNCHANGED <<thread, dialog, scale, loaded, pad, stuck, caught>>

Load ==
  /\ ThreadRuns
  /\ loaded' = ~loaded
  /\ UNCHANGED <<thread, dialog, scale, signal, pad, history>>

Next ==
  \/ Sucker \/ OnReceiveStr \/ Weighs
  \/ OnOk \/ Closes \/ End
  \/ Tick \/ Signal \/ Load

Spec == Init /\ [][Next]_vars

\* The thread and the dialog run; time passes and ClosePort returns, as SerialPort
\* shows, however often texts arrive and sensors change.  The program is not
\* obliged to end, nor anyone to act.
FairSpec ==
  /\ Spec
  /\ WF_vars(Sucker) /\ WF_vars(Weighs) /\ SF_vars(Closes) /\ SF_vars(Tick)

-----------------------------------------------------------------------------
(* Properties.                                                             *)

\* The pad is on only while the thread times it, and never for longer than the
\* set time and the one debounce that the last look may add: the loop compares
\* with a time it computed a round ago.  Only a failed write can keep it on.
PadTimed ==
  pad /\ ~stuck /\ dpc # "ended" =>
    /\ spc \in {"loop", "bounce"}
    /\ sinceBegin <= PadTime + Debounce

\* A product is pulled once, however long it stays after the pad let go of it,
\* unless a read of its sensor failed, which is taken for its absence.
OnePullPerStay == [][Pull => ~pulled \/ misread]_vars

\* After the exit button has switched the outputs off, the pad stays off, unless
\* the thread was waiting for its second look just then, or a write failed.
OffAfterExit ==
  dpc \in {"closing", "ended"} /\ pad => stuck \/ caught

\* Between two weighings the lamps tell the verdict on the last weight, if they
\* could be written: not both are on, and neither contradicts it.
LampsTellWeight ==
  weighing = "no" /\ ~lampFailed =>
    /\ okLamp => m_bCheckWeight
    /\ ngLamp => ~m_bCheckWeight

\* A product that meets a thread that is ready for it is pulled, unless it goes
\* away, its sensor cannot be read, or the program is left.
ReadyPulls ==
  signal /\ m_bSucker ~> pulled \/ ~signal \/ misread \/ m_bexit

\* Once the exit button is pressed the thread ends by itself, whatever it was
\* doing and however the sensor behaves, if the program is still there.
ExitEndsThread == m_bexit ~> spc = "done" \/ dpc = "ended"

-----------------------------------------------------------------------------
(* The inductive invariant behind the safety properties.                   *)

\* The loop runs past the set time only from a debounce to the next round, which
\* looks at the time and not at the signal.
Clock ==
  /\ elapsed <= sinceBegin
  /\ spc = "loop" =>
       /\ sinceBegin <= PadTime + Debounce
       /\ sinceBegin > PadTime => sinceStep = 0
  /\ spc = "bounce" => sinceBegin + left <= PadTime + Debounce

\* What the flag remembers: the product on the sensor was pulled after the
\* thread last saw the sensor empty.
PulledIsKnown == pulled => signal /\ (m_bSucker => misread)

\* The thread that starts a round after the exit button does not get past it.
ExitIsSeen ==
  /\ dpc # "idle" => m_bexit
  /\ dpc \in {"closing", "ended"} /\ ~caught => spc # "delay"

\* Between the two lamps the first one tells the verdict already.
FirstLampTells == weighing = "second" /\ ~lampFailed => okLamp = m_bCheckWeight

\* The exit button does not interrupt a weighing.
WeighedBeforeExit == dpc \in {"sleep", "closing", "ended"} => weighing = "no"

PadInv == PadTimed /\ OffAfterExit /\ Clock /\ PulledIsKnown /\ ExitIsSeen
LampInv == LampsTellWeight /\ FirstLampTells /\ WeighedBeforeExit
IInv == TypeOK /\ PadInv /\ LampInv
=============================================================================
