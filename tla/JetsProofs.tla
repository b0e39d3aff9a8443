------------------------------ MODULE JetsProofs ------------------------------
(***************************************************************************)
(* Proofs about the RCS pulses, for any period, pulse limits and unit of   *)
(* the timer.                                                              *)
(*                                                                         *)
(* JetsInv is the inductive invariant: the types, that a T6 about to be    *)
(* armed is given a duration, and that a flag older than the pulse is      *)
(* known to be.  CycleInv adds how T5 runs and how far T6 may lag it, for  *)
(* the theorem on how long a pulse outlives its cycle.                     *)
(***************************************************************************)
EXTENDS Jets, TLAPS

\* Between fire_sm_jets and arm_t6 there is a duration to arm.
ArmedWithDuration == phase = "arm" => staged # 0

JetsInv == JetsTypeOK /\ ArmedWithDuration /\ CutOnlyByStaleFlag

-----------------------------------------------------------------------------

\* compute_pulse_duration returns nothing or a pulse within the limits.
LEMMA PulseDurationRange ==
  ASSUME NEW n \in Nat
  PROVE  PulseDuration(n) \in {0} \cup MinPulse .. MaxPulse
  BY JetsAssumption DEF JetsAssumption, PulseDuration

LEMMA CommandsRange == Commands \subseteq {0} \cup MinPulse .. MaxPulse
<1>1. \A n \in 0 .. MaxDemand : PulseDuration(n) \in {0} \cup MinPulse .. MaxPulse
  BY PulseDurationRange, JetsAssumption DEF JetsAssumption
<1> QED
  BY <1>1 DEF Commands

\* What arm_t6 loads: more than nothing, and no more than the longest pulse.
LEMMA LoadRange ==
  ASSUME NEW d \in MinPulse .. MaxPulse
  PROVE  d * CountsPerUnit \in 0 .. MaxPulse * CountsPerUnit /\ d * CountsPerUnit > 0
<1>1. d \in Nat \ {0} /\ MaxPulse \in Nat /\ d <= MaxPulse /\ CountsPerUnit \in Nat \ {0}
  BY JetsAssumption DEF JetsAssumption
<1>2. d * CountsPerUnit \in Nat /\ MaxPulse * CountsPerUnit \in Nat
  BY <1>1
<1>3. d * CountsPerUnit <= MaxPulse * CountsPerUnit
  BY <1>1
<1>4. d * CountsPerUnit > 0
  BY <1>1
<1> QED
  BY <1>2, <1>3, <1>4

LEMMA CountDownRange ==
  ASSUME NEW m \in Nat, NEW n \in 0 .. m
  PROVE  CountDown(n) \in 0 .. m /\ (n > 1 => CountDown(n) > 0) /\ (n <= 1 => CountDown(n) = 0)
  BY DEF CountDown

LEMMA TopIsZero == 0 \in 0 .. MaxPulse * CountsPerUnit /\ 0 \in 0 .. DapPeriod
<1>1. MaxPulse * CountsPerUnit \in Nat /\ DapPeriod \in Nat
  BY JetsAssumption DEF JetsAssumption
<1> QED
  BY <1>1

LEMMA JetsInitInv == Init => JetsInv
  BY TopIsZero DEF Init, JetsInv, JetsTypeOK, ArmedWithDuration, CutOnlyByStaleFlag

LEMMA JetsLoopInv == JetsInv /\ LoopStep => JetsInv'
<1> SUFFICES ASSUME JetsInv, LoopStep PROVE JetsInv'
  OBVIOUS
<1>1. JetsTypeOK /\ ArmedWithDuration /\ CutOnlyByStaleFlag
  BY DEF JetsInv
<1>2. DapPeriod \in 0 .. DapPeriod
  BY JetsAssumption DEF JetsAssumption
<1>3. CASE ArmT5
  BY <1>1, <1>2, <1>3
  DEF ArmT5, t6Vars, historyVars, JetsInv, JetsTypeOK, ArmedWithDuration, CutOnlyByStaleFlag
<1>4. CASE DrainT6
  BY <1>1, <1>4
  DEF DrainT6, t5Vars, JetsInv, JetsTypeOK, ArmedWithDuration, CutOnlyByStaleFlag
<1>5. CASE DrainT5
  <2>1. staged' \in {0} \cup MinPulse .. MaxPulse /\ cycles' \in {0, 1}
    BY <1>5, CommandsRange DEF DrainT5, DapStep
  <2>2. t5' \in 0 .. DapPeriod /\ t5Armed' \in BOOLEAN /\ t5Pending' \in BOOLEAN
    BY <1>1, <1>2, <1>5 DEF DrainT5, JetsTypeOK
  <2>3. phase' = "work" /\ UNCHANGED <<dapMode, firing, t6, t6Pending, stale>>
    BY <1>5 DEF DrainT5, t6Vars
  <2> QED
    BY <1>1, <2>1, <2>2, <2>3 DEF JetsInv, JetsTypeOK, ArmedWithDuration, CutOnlyByStaleFlag
<1>6. CASE SkipT5 \/ NoPulse \/ FireJets
  <2>1. /\ phase' \in {"work", "top", "arm"}
        /\ phase' = "arm" => staged # 0
        /\ firing' \in {firing, TRUE}
        /\ UNCHANGED <<dapMode, staged, t6, t6Pending, t5, t5Pending, t5Armed, stale, cycles>>
    BY <1>6 DEF SkipT5, NoPulse, FireJets, t6Vars, t5Vars, historyVars
  <2>2. JetsTypeOK'
    BY <1>1, <2>1 DEF JetsTypeOK
  <2> QED
    BY <1>1, <2>1, <2>2 DEF JetsInv, ArmedWithDuration, CutOnlyByStaleFlag
<1>7. CASE ArmT6
  <2>1. staged \in MinPulse .. MaxPulse
    BY <1>1, <1>7 DEF ArmT6, ArmedWithDuration, JetsTypeOK
  <2>2. t6' \in 0 .. MaxPulse * CountsPerUnit
    BY <1>7, <2>1, LoadRange DEF ArmT6
  <2>3. /\ phase' = "top" /\ staged' = 0 /\ cycles' = 0 /\ stale' = t6Pending
        /\ UNCHANGED <<dapMode, firing, t6Pending, t5, t5Pending, t5Armed>>
    BY <1>7 DEF ArmT6, t5Vars
  <2> QED
    BY <1>1, <2>2, <2>3 DEF JetsInv, JetsTypeOK, ArmedWithDuration, CutOnlyByStaleFlag
<1> QED
  BY <1>3, <1>4, <1>5, <1>6, <1>7 DEF LoopStep

LEMMA JetsHandlersInv == JetsInv /\ Handlers => JetsInv'
  BY DEF JetsInv, Handlers, TurnOn, SelectP06, SelectP62, FreshStart, Restart, InWork,
     t6Vars, t5Vars, historyVars, JetsTypeOK, ArmedWithDuration, CutOnlyByStaleFlag

LEMMA JetsTickInv == JetsInv /\ Tick => JetsInv'
<1> SUFFICES ASSUME JetsInv, Tick PROVE JetsInv'
  OBVIOUS
<1>1. JetsTypeOK /\ ArmedWithDuration /\ CutOnlyByStaleFlag
  BY DEF JetsInv
<1>2. MaxPulse * CountsPerUnit \in Nat /\ DapPeriod \in Nat
  BY JetsAssumption DEF JetsAssumption
<1>3. t6' \in 0 .. MaxPulse * CountsPerUnit /\ t5' \in 0 .. DapPeriod
  BY <1>1, <1>2, CountDownRange DEF Tick, JetsTypeOK
<1>4. JetsTypeOK'
  BY <1>1, <1>3 DEF Tick, historyVars, JetsTypeOK
<1>5. t6' > 0 => t6 > 1
  <2> DEFINE m == MaxPulse * CountsPerUnit
  <2>1. m \in Nat /\ t6 \in 0 .. m /\ t6' = CountDown(t6)
    BY <1>1, <1>2 DEF Tick, JetsTypeOK
  <2> HIDE DEF m
  <2> QED
    BY <2>1 DEF CountDown
<1>6. ArmedWithDuration' /\ CutOnlyByStaleFlag'
  <2>1. UNCHANGED <<phase, staged, stale>> /\ t6Pending' = (t6Pending \/ t6 = 1)
    BY DEF Tick, historyVars
  <2>2. t6Pending' /\ t6' > 0 => t6Pending /\ t6 > 0
    <3>1. t6 \in Int
      BY <1>1, <1>2 DEF JetsTypeOK
    <3>2. t6' > 0 => t6 > 0 /\ t6 # 1
      BY <1>5, <3>1
    <3> QED
      BY <2>1, <3>2, Zenon
  <2> QED
    BY <1>1, <2>1, <2>2 DEF ArmedWithDuration, CutOnlyByStaleFlag
<1> QED
  BY <1>4, <1>6 DEF JetsInv

LEMMA JetsResetInv == JetsInv /\ Reset => JetsInv'
  BY TopIsZero
  DEF Reset, Boot, JetsInv, JetsTypeOK, ArmedWithDuration, CutOnlyByStaleFlag

LEMMA JetsStepInv == JetsInv /\ [Next]_jetsVars => JetsInv'
<1>1. JetsInv /\ UNCHANGED jetsVars => JetsInv'
  BY DEF jetsVars, JetsInv, JetsTypeOK, ArmedWithDuration, CutOnlyByStaleFlag
<1> QED
  BY <1>1, JetsLoopInv, JetsHandlersInv, JetsTickInv, JetsResetInv DEF Next

LEMMA JetsInvHolds == Spec => []JetsInv
  BY JetsInitInv, JetsStepInv, PTL DEF Spec

\* Every variable keeps its type: a staged pulse is within the limits of
\* RcsConfig whatever the control law asks for.
THEOREM JetsTypeCorrect == Spec => []JetsTypeOK
<1>1. JetsInv => JetsTypeOK
  BY DEF JetsInv
<1> QED
  BY <1>1, JetsInvHolds, PTL

\* A pulse is cut short only by a T6_PENDING that was up when it was armed.
THEOREM CutOnlyByStale == Spec => []CutOnlyByStaleFlag
<1>1. JetsInv => CutOnlyByStaleFlag
  BY DEF JetsInv
<1> QED
  BY <1>1, JetsInvHolds, PTL

-----------------------------------------------------------------------------

LEMMA StepKeepsTimed ==
  JetsInv /\ [Next]_jetsVars => [Timed /\ ~Reset => Timed']_jetsVars
<1> SUFFICES ASSUME JetsInv, Next, Timed, ~Reset PROVE Timed'
  OBVIOUS
<1>1. JetsTypeOK /\ ArmedWithDuration
  BY DEF JetsInv
<1>2. CASE DrainT6
  BY <1>1, <1>2 DEF DrainT6, Timed, JetsTypeOK
<1>6. CASE ArmT5 \/ DrainT5 \/ SkipT5 \/ NoPulse \/ FireJets
  <2>1. UNCHANGED <<t6, t6Pending>> /\ phase # "arm"
    BY <1>6 DEF ArmT5, DrainT5, SkipT5, NoPulse, FireJets, t6Vars
  <2>2. phase' = "arm" \/ firing' = firing
    BY <1>6 DEF ArmT5, DrainT5, SkipT5, NoPulse, FireJets
  <2> QED
    BY <2>1, <2>2 DEF Timed
<1>3. CASE ArmT6
  <2>1. staged \in MinPulse .. MaxPulse
    BY <1>1, <1>3 DEF ArmT6, ArmedWithDuration, JetsTypeOK
  <2>2. t6' > 0
    BY <1>3, <2>1, LoadRange DEF ArmT6
  <2> QED
    BY <2>2 DEF Timed
<1>4. CASE Handlers
  BY <1>4
  DEF Handlers, TurnOn, SelectP06, SelectP62, FreshStart, Restart, InWork, t6Vars, Timed
<1>5. CASE Tick
  <2>1. MaxPulse * CountsPerUnit \in Nat
    BY JetsAssumption DEF JetsAssumption
  <2>2. t6 \in Nat
    BY <1>1, <2>1 DEF JetsTypeOK
  <2>3. t6 > 0 => t6' > 0 \/ t6Pending'
    <3>1. t6 > 0 /\ t6 # 1 => t6' > 0
      BY <1>5, <2>2 DEF Tick, CountDown
    <3>2. t6 = 1 => t6Pending'
      BY <1>5, Zenon DEF Tick
    <3> QED
      BY <3>1, <3>2
  <2>4. UNCHANGED <<phase, firing>> /\ (t6Pending => t6Pending')
    BY <1>5 DEF Tick
  <2> QED
    BY <2>3, <2>4 DEF Timed
<1> QED
  BY <1>2, <1>3, <1>4, <1>5, <1>6 DEF Next, LoopStep

\* Jets that burn will be quenched, and only a reset of the AGC can change
\* that: whenever T6 expires, whatever stops the autopilot meanwhile.
THEOREM TimingOnlyLostByReset == Spec => TimingLostOnlyByReset
  BY JetsInvHolds, StepKeepsTimed, PTL DEF Spec, TimingLostOnlyByReset

LEMMA StepKeepsQuiet == [Next]_jetsVars => [QuietWhenOff /\ ~Restart => QuietWhenOff']_jetsVars
<1> SUFFICES ASSUME Next, QuietWhenOff, ~Restart PROVE QuietWhenOff'
  OBVIOUS
<1>1. CASE LoopStep
  BY <1>1
  DEF LoopStep, ArmT5, DrainT6, DrainT5, DapStep, SkipT5, NoPulse, FireJets, ArmT6,
      QuietWhenOff
<1>2. CASE Handlers
  BY <1>2 DEF Handlers, TurnOn, SelectP06, SelectP62, FreshStart, QuietWhenOff
<1>3. CASE Tick \/ Reset
  BY <1>3 DEF Tick, Reset, Boot, QuietWhenOff
<1> QED
  BY <1>1, <1>2, <1>3 DEF Next

\* An autopilot that was turned off has nothing left to fire, unless RESTART
\* turned it off.
THEOREM QuietOnlyLostByRestart == Spec => StagedOffOnlyByRestart
  BY StepKeepsQuiet, PTL DEF Spec, StagedOffOnlyByRestart

-----------------------------------------------------------------------------
\* How long a pulse outlives the autopilot's cycle.

\* The counts by which the longest pulse, as arm_t6 loads it, exceeds a period.
Overrun ==
  IF MaxPulse * CountsPerUnit > DapPeriod
    THEN MaxPulse * CountsPerUnit - DapPeriod
    ELSE 0

\* When the next cycle but one begins, the pulse is over but for the overrun.
PulseOutlivesCycleByOverrun ==
  [][DrainT5 /\ cycles = 1 => t6 <= Overrun]_jetsVars

\* T5 runs one period at a time: its interrupt is posted only when it has run
\* down, and it is loaded only when it stands and its interrupt was drained.
\* Without this a cycle could begin early and find the pulse anywhere.
T5OnePeriod ==
  /\ t5Pending => t5 = 0 /\ t5Armed
  /\ ~t5Armed => t5 = 0

\* Once a cycle has begun since the pulse was armed, T6 is at most the overrun
\* behind T5.
T6KeepsUp == cycles = 1 /\ t5Armed => t6 <= t5 + Overrun

CycleInv == JetsInv /\ T5OnePeriod /\ T6KeepsUp

LEMMA OverrunRange ==
  /\ Overrun \in Nat /\ DapPeriod \in Nat
  /\ \A n \in 0 .. MaxPulse * CountsPerUnit : n \in Nat /\ n <= DapPeriod + Overrun
<1> DEFINE m == MaxPulse * CountsPerUnit
<1>1. m \in Nat /\ DapPeriod \in Nat
  BY JetsAssumption DEF JetsAssumption
<1>2. Overrun = IF m > DapPeriod THEN m - DapPeriod ELSE 0
  BY DEF Overrun
<1> HIDE DEF m
<1>3. Overrun \in Nat /\ m <= DapPeriod + Overrun
  BY <1>1, <1>2
<1>4. \A n \in 0 .. m : n \in Nat /\ n <= DapPeriod + Overrun
  BY <1>1, <1>3
<1> QED
  BY <1>1, <1>3, <1>4 DEF m

LEMMA CycleInitInv == Init => CycleInv
  BY JetsInitInv, OverrunRange DEF Init, CycleInv, T5OnePeriod, T6KeepsUp

LEMMA CycleStepInv == CycleInv /\ [Next]_jetsVars => CycleInv'
<1> SUFFICES ASSUME CycleInv, [Next]_jetsVars PROVE CycleInv'
  OBVIOUS
<1>1. JetsInv /\ T5OnePeriod /\ T6KeepsUp
  BY DEF CycleInv
<1>2. SUFFICES T5OnePeriod' /\ T6KeepsUp'
  BY <1>1, JetsStepInv DEF CycleInv
<1>3. t6 \in Nat /\ t6 <= DapPeriod + Overrun /\ Overrun \in Nat
  BY <1>1, OverrunRange DEF JetsInv, JetsTypeOK
<1>4. t5 \in Nat /\ DapPeriod \in Nat /\ t5Pending \in BOOLEAN
  BY <1>1, OverrunRange DEF JetsInv, JetsTypeOK
<1>5. CASE ArmT5
  BY <1>1, <1>3, <1>4, <1>5
  DEF ArmT5, t6Vars, historyVars, T5OnePeriod, T6KeepsUp
<1>6. CASE DrainT5
  <2>1. /\ t5Pending /\ ~t5Pending'
        /\ t5Armed' => t5' = DapPeriod
        /\ ~t5Armed' => t5' = t5
    BY <1>6, Zenon DEF DrainT5
  <2>2. T5OnePeriod'
    BY <1>1, <2>1 DEF T5OnePeriod
  <2>3. t6' = t6
    BY <1>6 DEF DrainT5, t6Vars
  <2> QED
    BY <1>3, <2>1, <2>2, <2>3 DEF T6KeepsUp
<1>7. CASE ArmT6
  BY <1>1, <1>7 DEF ArmT6, t5Vars, T5OnePeriod, T6KeepsUp
<1>8. CASE DrainT6 \/ SkipT5 \/ NoPulse \/ FireJets \/ Handlers \/ UNCHANGED jetsVars
  <2>1. UNCHANGED <<t6, t5, t5Pending, t5Armed, cycles>>
    BY <1>8
    DEF DrainT6, SkipT5, NoPulse, FireJets, Handlers, TurnOn, SelectP06, SelectP62,
        FreshStart, Restart, InWork, t6Vars, t5Vars, historyVars, jetsVars
  <2> QED
    BY <1>1, <2>1 DEF T5OnePeriod, T6KeepsUp
<1>9. CASE Tick
  <2>1. /\ t6' = CountDown(t6) /\ t5' = CountDown(t5)
        /\ UNCHANGED <<t5Armed, cycles>>
    BY <1>9 DEF Tick, historyVars
  <2>2. t5Pending' => t5Pending \/ t5 = 1
    BY <1>9, Zenon DEF Tick
  <2>3. T5OnePeriod'
    BY <1>1, <1>4, <2>1, <2>2 DEF T5OnePeriod, CountDown
  <2> QED
    BY <1>1, <1>3, <1>4, <2>1, <2>3 DEF T6KeepsUp, CountDown
<1>10. CASE Reset
  BY <1>3, <1>10 DEF Reset, Boot, T5OnePeriod, T6KeepsUp
<1> QED
  BY <1>5, <1>6, <1>7, <1>8, <1>9, <1>10 DEF Next, LoopStep

LEMMA CycleInvHolds == Spec => []CycleInv
  BY CycleInitInv, CycleStepInv, PTL DEF Spec

LEMMA CycleFindsOverrun == CycleInv => (DrainT5 /\ cycles = 1 => t6 <= Overrun)
<1> SUFFICES ASSUME CycleInv, DrainT5, cycles = 1 PROVE t6 <= Overrun
  OBVIOUS
<1>1. t5 = 0 /\ t5Armed /\ t6 <= t5 + Overrun
  BY DEF DrainT5, CycleInv, T5OnePeriod, T6KeepsUp
<1> QED
  BY <1>1, OverrunRange

\* rcs_logic.rs takes a pulse for limited to one cycle.  Whatever the timers,
\* the handlers and the resets do, it outlives the next cycle by no more than
\* the counts that the loaded duration has over a period.
THEOREM PulseOutlivesByOverrun == Spec => PulseOutlivesCycleByOverrun
<1>1. CycleInv => [DrainT5 /\ cycles = 1 => t6 <= Overrun]_jetsVars
  BY CycleFindsOverrun
<1> QED
  BY <1>1, CycleInvHolds, PTL DEF PulseOutlivesCycleByOverrun

\* So the doc's claim fails for no other reason than the length of the loaded
\* pulse: were it at most a period, every pulse would end in its cycle.
THEOREM ShortPulsesEnd ==
  ASSUME MaxPulse * CountsPerUnit <= DapPeriod
  PROVE  Spec => PulseEndsInACycle
<1>1. Overrun = 0
  <2> DEFINE m == MaxPulse * CountsPerUnit
  <2>1. m \in Nat /\ DapPeriod \in Nat /\ m <= DapPeriod
    BY JetsAssumption DEF JetsAssumption
  <2>2. Overrun = IF m > DapPeriod THEN m - DapPeriod ELSE 0
    BY DEF Overrun
  <2> HIDE DEF m
  <2> QED
    BY <2>1, <2>2
<1>2. CycleInv => [DrainT5 /\ cycles = 1 => t6 = 0]_jetsVars
  <2> SUFFICES ASSUME CycleInv, DrainT5, cycles = 1 PROVE t6 = 0
    OBVIOUS
  <2>1. t6 \in Nat
    BY OverrunRange DEF CycleInv, JetsInv, JetsTypeOK
  <2> QED
    BY <1>1, <2>1, CycleFindsOverrun
<1> QED
  BY <1>2, CycleInvHolds, PTL DEF PulseEndsInACycle
=============================================================================
