-------------------------------- MODULE Jets --------------------------------
(***************************************************************************)
(* The RCS pulses of the digital autopilot: a cycle on T5RUPT stages jets  *)
(* and a duration (control/dap.rs, control/rcs_logic.rs), the end of the   *)
(* iteration of Executive::run fires them and then arms T6                 *)
(* (process_rcs_staging), and T6RUPT quenches all jets at the top of a     *)
(* later iteration.  Both timers and their ISRs run beside the loop.       *)
(*                                                                         *)
(* The phases of an iteration are "top" (arm T5), "t6", "t5", "work" (the  *)
(* tasks and keys, which may change the autopilot) and "arm" (the jets are *)
(* on, T6 is about to be armed).                                           *)
(*                                                                         *)
(* Of the control laws what matters here is the duration they ask for, and *)
(* of the modes whether the autopilot is off.  Jets hold what they were    *)
(* last told (specs/hal-spec.md, fire_sm_jets), also while the AGC resets. *)
(***************************************************************************)
EXTENDS Integers

CONSTANTS
  DapPeriod,      \* DAP_PERIOD_CS in T6 counts: 160
  MinPulse,       \* RcsConfig::min_pulse_counts, 22
  MaxPulse,       \* RcsConfig::max_pulse_counts, 160
  CountsPerUnit,  \* what process_rcs_staging multiplies a duration by: 16
  MaxDemand       \* bound: the longest firing a control law asks for

ASSUME JetsAssumption ==
  /\ DapPeriod \in Nat \ {0}
  /\ MinPulse \in Nat \ {0}
  /\ MaxPulse \in Nat
  /\ MinPulse <= MaxPulse
  /\ CountsPerUnit \in Nat \ {0}
  /\ MaxDemand \in Nat

VARIABLES
  phase,      \* where the iteration is
  dapMode,    \* AgcState::dap_state.mode: "Off" or another
  staged,     \* rcs_commanded_pulse_cs; 0 also when no jets are staged
  firing,     \* some jet is on
  t6,         \* counts left on TIM5; 0 when the one-shot is stopped
  t6Pending,  \* T6_PENDING
  t5,         \* counts left on TIM4
  t5Pending,  \* T5_PENDING
  t5Armed,    \* t5_armed, a local of run
  stale,      \* history: T6_PENDING was up as the last pulse was armed
  cycles      \* history: autopilot cycles since then, counted up to 1

t6Vars == <<t6, t6Pending>>
t5Vars == <<t5, t5Pending, t5Armed>>
historyVars == <<stale, cycles>>
jetsVars == <<phase, dapMode, staged, firing, t6, t6Pending, t5, t5Pending,
              t5Armed, stale, cycles>>

\* Boot: the timers are reset, then FRESH START or RESTART and dap_init.
Boot ==
  /\ phase' = "top"
  /\ dapMode' = "On"
  /\ staged' = 0
  /\ t6' = 0
  /\ t6Pending' = FALSE
  /\ t5' = 0
  /\ t5Pending' = FALSE
  /\ t5Armed' = FALSE
  /\ stale' = FALSE
  /\ cycles' = 0

Init ==
  /\ phase = "top"
  /\ dapMode = "On"
  /\ staged = 0
  /\ firing = FALSE
  /\ t6 = 0
  /\ t6Pending = FALSE
  /\ t5 = 0
  /\ t5Pending = FALSE
  /\ t5Armed = FALSE
  /\ stale = FALSE
  /\ cycles = 0

-----------------------------------------------------------------------------
\* The loop.

\* An autopilot that is on and has no timer gets one.
ArmT5 ==
  /\ phase = "top"
  /\ phase' = "t6"
  /\ IF dapMode # "Off" /\ ~t5Armed
     THEN t5' = DapPeriod /\ t5Armed' = TRUE
     ELSE UNCHANGED <<t5, t5Armed>>
  /\ UNCHANGED <<dapMode, staged, firing, t6Vars, t5Pending, historyVars>>

\* T6_PENDING was set: quench_all.
DrainT6 ==
  /\ phase = "t6"
  /\ phase' = "t5"
  /\ firing' = (firing /\ ~t6Pending)
  /\ t6Pending' = FALSE
  /\ stale' = FALSE
  /\ UNCHANGED <<dapMode, staged, t6, t5Vars, cycles>>

\* Wrong on purpose: no upper limit.
PulseDurationUncapped(n) ==
  IF n < MinPulse \div 2 THEN 0 ELSE IF n < MinPulse THEN MinPulse ELSE n

\* compute_pulse_duration: a firing of n counts, which is dropped when it is
\* shorter than half the least pulse, and kept between the least and the most.
PulseDuration(n) ==
  IF n < MinPulse \div 2 THEN 0
  ELSE IF n < MinPulse THEN MinPulse
  ELSE IF n > MaxPulse THEN MaxPulse
  ELSE n

\* What a cycle may stage: nothing within the deadband or when no jet helps.
Commands == {0} \cup {PulseDuration(n) : n \in 0 .. MaxDemand}

\* Wrong on purpose: the modes are not looked at.
DapStepInAnyMode ==
  /\ staged' \in Commands
  /\ cycles' = 1

\* dap_step.
DapStep ==
  /\ staged' \in IF dapMode = "Off" THEN {0} ELSE Commands
  /\ cycles' = 1

\* T5_PENDING was set: one cycle, and the next if the autopilot is on.
DrainT5 ==
  /\ phase = "t5"
  /\ phase' = "work"
  /\ t5Pending
  /\ t5Pending' = FALSE
  /\ DapStep
  /\ t5Armed' = (dapMode # "Off")
  /\ t5' = IF dapMode # "Off" THEN DapPeriod ELSE t5
  /\ UNCHANGED <<dapMode, firing, t6Vars, stale>>

SkipT5 ==
  /\ phase = "t5"
  /\ phase' = "work"
  /\ ~t5Pending
  /\ UNCHANGED <<dapMode, staged, firing, t6Vars, t5Vars, historyVars>>

\* Wrong on purpose: without a command the timer is disarmed.
NoPulseDisarms ==
  /\ phase = "work"
  /\ staged = 0
  /\ phase' = "top"
  /\ t6' = 0
  /\ t6Pending' = FALSE
  /\ UNCHANGED <<dapMode, staged, firing, t5Vars, historyVars>>

\* process_rcs_staging with nothing to fire; the jets stay as they are.
NoPulse ==
  /\ phase = "work"
  /\ staged = 0
  /\ phase' = "top"
  /\ UNCHANGED <<dapMode, staged, firing, t6Vars, t5Vars, historyVars>>

\* Its first call: fire_sm_jets.
FireJets ==
  /\ phase = "work"
  /\ staged # 0
  /\ phase' = "arm"
  /\ firing' = TRUE
  /\ UNCHANGED <<dapMode, staged, t6Vars, t5Vars, historyVars>>

\* Its second: arm_t6, which restarts the timer and leaves T6_PENDING alone.
ArmT6 ==
  /\ phase = "arm"
  /\ phase' = "top"
  /\ t6' = staged * CountsPerUnit
  /\ staged' = 0
  /\ stale' = t6Pending
  /\ cycles' = 0
  /\ UNCHANGED <<dapMode, firing, t6Pending, t5Vars>>

LoopStep ==
  ArmT5 \/ DrainT6 \/ DrainT5 \/ SkipT5 \/ NoPulse \/ FireJets \/ ArmT6

-----------------------------------------------------------------------------
\* Tasks and keys, by what they do to the autopilot.

InWork == phase = "work" /\ UNCHANGED <<phase, firing, t6Vars, t5Vars, historyVars>>

\* dap_init in P40 and P41, the end of a burn, the entry's roll command.
TurnOn ==
  /\ InWork
  /\ dapMode' = "On"
  /\ UNCHANGED staged

\* V37E06E: dap_stop.
SelectP06 ==
  /\ InWork
  /\ dapMode' = "Off"
  /\ staged' = 0

\* V37E62E: dap_stop, then on again.
SelectP62 ==
  /\ InWork
  /\ dapMode' = "On"
  /\ staged' = 0

\* V36
FreshStart ==
  /\ InWork
  /\ dapMode' = "Off"
  /\ staged' = 0

\* V69 resets the autopilot and keeps what it has staged.
Restart ==
  /\ InWork
  /\ dapMode' = "Off"
  /\ UNCHANGED staged

Handlers == TurnOn \/ SelectP06 \/ SelectP62 \/ FreshStart \/ Restart

-----------------------------------------------------------------------------
\* The hardware.

\* Wrong on purpose: the timer is not a one-shot and starts again.
CountDownPeriodic(n) == IF n > 1 THEN n - 1 ELSE n * DapPeriod

\* A one-shot after one more count.
CountDown(n) == IF n > 0 THEN n - 1 ELSE 0

\* One count of T6.  An expiry runs the timer's ISR, in any phase.
Tick ==
  /\ t6' = CountDown(t6)
  /\ t6Pending' = (t6Pending \/ t6 = 1)
  /\ t5' = CountDown(t5)
  /\ t5Pending' = (t5Pending \/ t5 = 1)
  /\ UNCHANGED <<phase, dapMode, staged, firing, t5Armed, historyVars>>

\* The watchdog, a fault or a panic resets the AGC.  Nothing on the way back
\* to the loop speaks to the jets.
Reset == Boot /\ UNCHANGED firing

Next == LoopStep \/ Handlers \/ Tick \/ Reset

Spec == Init /\ [][Next]_jetsVars

-----------------------------------------------------------------------------

JetsTypeOK ==
  /\ phase \in {"top", "t6", "t5", "work", "arm"}
  /\ dapMode \in {"Off", "On"}
  /\ staged \in {0} \cup MinPulse .. MaxPulse
  /\ firing \in BOOLEAN
  /\ t6 \in 0 .. MaxPulse * CountsPerUnit
  /\ t6Pending \in BOOLEAN
  /\ t5 \in 0 .. DapPeriod
  /\ t5Pending \in BOOLEAN
  /\ t5Armed \in BOOLEAN
  /\ stale \in BOOLEAN
  /\ cycles \in {0, 1}

\* Jets that are on will be quenched: T6 is running or has expired and waits
\* to be drained; or it is armed next.
Timed == firing /\ phase # "arm" => t6 > 0 \/ t6Pending

\* No step loses that but a reset of the AGC, after which the jets burn on
\* until the autopilot has fired again and that pulse has ended.  The loop
\* fires before it arms, T6 expires anywhere in between, P06 stops the
\* autopilot in the middle of a pulse: none of these leaves a jet on.
TimingLostOnlyByReset == [][Timed /\ ~Reset => Timed']_jetsVars

\* A drain that finds the flag up quenches whatever is on.  It cuts a pulse
\* short only if the flag is older than the pulse: T6 expired between the
\* drain and the arming, which does not clear T6_PENDING.
CutOnlyByStaleFlag == t6Pending /\ t6 > 0 => stale

\* An autopilot that is off has no pulse on the way, except that RESTART
\* leaves one that the iteration's cycle has staged; it is then fired.
QuietWhenOff == dapMode = "Off" => staged = 0

StagedOffOnlyByRestart == [][QuietWhenOff /\ ~Restart => QuietWhenOff']_jetsVars

-----------------------------------------------------------------------------
\* rcs_logic.rs:53-55, "Maximum pulse duration in T6 counts ... Practical
\* limit for a single DAP cycle: 160 counts (100 ms)": a pulse that one cycle
\* of the autopilot has fired is over when the next cycle but one begins.
PulseEndsInACycle == [][DrainT5 /\ cycles = 1 => t6 = 0]_jetsVars
=============================================================================
