-------------------------------- MODULE Burn --------------------------------
(***************************************************************************)
(* The powered-flight programs P40 (SPS) and P41 (RCS): how a burn is set  *)
(* up (programs/p40_p41.rs), armed by the crew's PRO, ignited at TIG by    *)
(* the autopilot on T5RUPT (control/dap.rs), watched by the SERVICER's     *)
(* exit hook until cut-off (guidance/maneuver.rs), and what the other      *)
(* programs and verbs do to it meanwhile.                                  *)
(*                                                                         *)
(* One iteration of Executive::run goes through the phases "t5", "t3",     *)
(* "t4" and "keys"; the last ends by writing the staging fields to the     *)
(* hardware.  The T5 timer and its ISR run beside it.  The waitlist, which *)
(* NavCycles models, appears here as the number of SERVICER entries in it. *)
(*                                                                         *)
(* Data is abstracted: a maneuver is its ignition time and whether its     *)
(* delta-V is one for the SPS or for the RCS, and one too small for either *)
(* counts as none, for neither program accepts it; the delta-V still to    *)
(* gain is a number of SERVICER cycles of thrust.                          *)
(***************************************************************************)
EXTENDS Integers

CONSTANTS
  MaxTime,      \* bound: mission time is 0 .. MaxTime
  BurnCycles,   \* SERVICER cycles of thrust that a burn takes
  MaxChains,    \* SERVICER entries the waitlist can hold
  Saturates     \* TRUE: other tasks may have filled the waitlist

ASSUME BurnAssumption ==
  /\ MaxTime \in Nat
  /\ BurnCycles \in Nat \ {0}
  /\ MaxChains \in Nat \ {0}
  /\ Saturates \in BOOLEAN

VARIABLES
  phase,            \* where the iteration of the run loop is
  majorMode,        \* AgcState::major_mode: P06, P41 or another; nothing here
                    \* depends on which
  time,             \* AgcState::time
  servicerActive,   \* the SERVICER_ACTIVE bit
  chains,           \* SERVICER entries in the waitlist
  servicerExit,     \* AgcState::servicer_exit
  burn,             \* AgcState::burn
  pendingManeuver,  \* AgcState::pending_maneuver
  pendingV50,       \* AgcState::vn.pending_v50, P40's engine-arm request
  dapMode,          \* AgcState::dap_state.mode
  engine,           \* AgcState::engine_thrusting
  separation,       \* AgcState::csm_separation_pending
  sps,              \* the SPS_ENABLE discrete
  t5Armed,          \* t5_armed, a local of run
  t5Running,        \* TIM4 is counting
  t5Pending         \* T5_PENDING

servicerVars == <<servicerActive, chains>>
targetVars == <<pendingManeuver, pendingV50>>
t5Vars == <<t5Armed, t5Running, t5Pending>>
burnVars == <<phase, majorMode, time, servicerActive, chains, servicerExit,
              burn, pendingManeuver, pendingV50, dapMode, engine,
              separation, sps, t5Armed, t5Running, t5Pending>>

Times == 0 .. MaxTime
Maneuver == [kind : {"sps", "rcs"}, tig : Times]
NoManeuver == [kind |-> "none", tig |-> 0]
Burns == [active : BOOLEAN, armed : BOOLEAN, tig : Times, toGo : 0 .. BurnCycles]
NoBurn == [active |-> FALSE, armed |-> FALSE, tig |-> 0, toGo |-> 0]
\* "Attitude" is RateDamping, AttitudeHold and Maneuver, which turn into each
\* other when a maneuver converges or a near gimbal lock starts one.
DapModes == {"Off", "Attitude", "Tvc", "EntryRoll"}

\* burn_init
BurnInit(m) ==
  [active |-> TRUE, armed |-> FALSE, tig |-> m.tig, toGo |-> BurnCycles]

\* Boot: FRESH START, dap_init, start_servicer.
Init ==
  /\ phase = "t5"
  /\ majorMode = "other"
  /\ time = 0
  /\ servicerActive = TRUE
  /\ chains = 1
  /\ servicerExit = "none"
  /\ burn = NoBurn
  /\ pendingManeuver = NoManeuver
  /\ pendingV50 = FALSE
  /\ dapMode = "Attitude"
  /\ engine = FALSE
  /\ separation = FALSE
  /\ sps = FALSE
  /\ t5Armed = FALSE
  /\ t5Running = FALSE
  /\ t5Pending = FALSE

-----------------------------------------------------------------------------
\* The autopilot.

TigReached == time >= burn.tig

\* The ignition gate at the head of dap_step.
Ignite ==
  /\ dapMode # "Off"
  /\ burn.armed
  /\ TigReached
  /\ engine' = TRUE
  /\ dapMode' = "Tvc"
  /\ burn' = [burn EXCEPT !.armed = FALSE]

\* Wrong on purpose: ignition one tick late.
DapStepLate ==
  \/ Ignite /\ time > burn.tig
  \/ /\ dapMode = "Off" \/ ~burn.armed \/ time <= burn.tig
     /\ UNCHANGED <<dapMode, engine, burn>>

DapStep ==
  \/ Ignite
  \/ /\ dapMode = "Off" \/ ~burn.armed \/ ~TigReached
     /\ UNCHANGED <<dapMode, engine, burn>>

\* Wrong on purpose: t5_armed is not lowered when T5_PENDING is consumed.
DrainT5KeepsArmed ==
  LET arm == dapMode # "Off" /\ ~t5Armed IN
  /\ phase = "t5"
  /\ IF t5Pending THEN DapStep ELSE UNCHANGED <<dapMode, engine, burn>>
  /\ t5Armed' = (t5Armed \/ arm)
  /\ t5Running' = (t5Running \/ arm)
  /\ t5Pending' = FALSE
  /\ phase' = "t3"
  /\ UNCHANGED <<majorMode, time, servicerVars, servicerExit, targetVars,
                 separation, sps>>

\* The top of an iteration: arm T5 if the autopilot has been switched on,
\* then serve T5_PENDING and arm T5 again unless it is off.
DrainT5 ==
  LET arm == dapMode # "Off" /\ ~t5Armed IN
  /\ phase = "t5"
  /\ IF t5Pending
     THEN /\ DapStep
          /\ t5Armed' = (dapMode' # "Off")
          /\ t5Running' = (t5Running \/ arm \/ dapMode' # "Off")
     ELSE /\ t5Armed' = (t5Armed \/ arm)
          /\ t5Running' = (t5Running \/ arm)
          /\ UNCHANGED <<dapMode, engine, burn>>
  /\ t5Pending' = FALSE
  /\ phase' = "t3"
  /\ UNCHANGED <<majorMode, time, servicerVars, servicerExit, targetVars,
                 separation, sps>>

\* TIM4 expires; its ISR posts T5_PENDING.
ExpireT5 ==
  /\ t5Running
  /\ t5Running' = FALSE
  /\ t5Pending' = TRUE
  /\ UNCHANGED <<phase, majorMode, time, servicerVars, servicerExit, burn,
                 targetVars, dapMode, engine, separation, sps, t5Armed>>

-----------------------------------------------------------------------------
\* The SERVICER.

\* What is left to gain after one more cycle: the accelerometers see the
\* SPS, and without it they may or may not see a jet, ullage or a bias.
LeftAfterCycle ==
  IF sps THEN {burn.toGo - 1} ELSE {burn.toGo, burn.toGo - 1}

\* burn_servicer_exit and is_burn_complete.
Watch ==
  \E left \in LeftAfterCycle :
    IF left > 0
    THEN /\ burn' = [burn EXCEPT !.toGo = left]
         /\ UNCHANGED <<engine, servicerExit, dapMode>>
    ELSE /\ burn' = [burn EXCEPT !.toGo = 0, !.active = FALSE]
         /\ engine' = FALSE
         /\ servicerExit' = "none"
         /\ dapMode' = "Attitude"

\* Wrong on purpose: the target is never reached.
ExitHookNeverDone ==
  /\ IF servicerExit = "burn" /\ burn.active
     THEN burn' = [burn EXCEPT !.toGo = IF sps /\ @ > 1 THEN @ - 1 ELSE @]
     ELSE UNCHANGED burn
  /\ UNCHANGED <<engine, servicerExit, dapMode>>

\* entry_servicer_exit, seen from here: it may steer by roll, whatever the
\* mode was, and goes with the drogue.  Entry models its phases.
Steer ==
  /\ \/ UNCHANGED <<servicerExit, dapMode>>
     \/ dapMode' = "EntryRoll" /\ servicerExit' \in {"entry", "none"}
  /\ UNCHANGED <<burn, engine>>

\* The exit hook, if any.  The monitors only write the display.
ExitHook ==
  \/ servicerExit = "burn" /\ burn.active /\ Watch
  \/ servicerExit = "entry" /\ Steer
  \/ /\ servicerExit # "entry" /\ ~(servicerExit = "burn" /\ burn.active)
     /\ UNCHANGED <<burn, engine, servicerExit, dapMode>>

\* servicer_task.  It sets the clock to the epoch of the state vector, which
\* may lie on either side of the time that T4 and the crew have made of it.
ServicerTask ==
  /\ chains > 0
  /\ IF servicerActive
     THEN /\ time' \in Times
          /\ ExitHook
          /\ \/ UNCHANGED servicerVars
             \/ Saturates /\ servicerActive' = FALSE /\ chains' = chains - 1
     ELSE /\ chains' = chains - 1
          /\ UNCHANGED <<time, burn, engine, servicerExit, dapMode, servicerActive>>

DrainT3 ==
  /\ phase = "t3"
  /\ phase' = "t4"
  /\ ServicerTask
  /\ UNCHANGED <<majorMode, targetVars, separation, sps, t5Vars>>

SkipT3 ==
  /\ phase = "t3"
  /\ phase' = "t4"
  /\ UNCHANGED <<majorMode, time, servicerVars, servicerExit, burn, targetVars,
                 dapMode, engine, separation, sps, t5Vars>>

\* T4RUPT advances the clock; or it has not come.
DrainT4 ==
  /\ phase = "t4"
  /\ phase' = "keys"
  /\ time' \in {time, time + 1} \cap Times
  /\ UNCHANGED <<majorMode, servicerVars, servicerExit, burn, targetVars,
                 dapMode, engine, separation, sps, t5Vars>>

-----------------------------------------------------------------------------
\* The crew's keys.  V32 selects the current program once more; it adds no
\* step to those of V37.

AtKeys ==
  /\ phase = "keys"
  /\ UNCHANGED <<phase, sps, t5Vars>>

InKeys == AtKeys /\ UNCHANGED separation

\* Wrong on purpose: the active flag is not looked at.
StartServicerTwice ==
  /\ servicerActive' = TRUE
  /\ chains' = chains + 1

\* start_servicer: nothing if the flag is up, rolled back on a full list.
StartServicer ==
  \/ servicerActive /\ UNCHANGED servicerVars
  \/ /\ ~servicerActive /\ chains < MaxChains
     /\ servicerActive' = TRUE
     /\ chains' = chains + 1
  \/ /\ ~servicerActive /\ (Saturates \/ chains = MaxChains)
     /\ UNCHANGED servicerVars

\* V46
EstablishServicer ==
  /\ InKeys
  /\ StartServicer
  /\ UNCHANGED <<majorMode, time, servicerExit, burn, targetVars, dapMode, engine>>

\* validate_pending_maneuver; a rejected maneuver raises an alarm and changes
\* nothing.
Valid(kind) ==
  /\ pendingManeuver.kind = kind
  /\ pendingManeuver.tig >= time

\* engage_burn consumes the maneuver and hangs the burn on the SERVICER.
EngageBurn ==
  /\ burn' = BurnInit(pendingManeuver)
  /\ pendingManeuver' = NoManeuver
  /\ servicerExit' = "burn"
  /\ StartServicer

\* V37E40E
SelectP40 ==
  /\ InKeys
  /\ Valid("sps")
  /\ EngageBurn
  /\ dapMode' = "Attitude"
  /\ majorMode' = "other"
  /\ pendingV50' = TRUE
  /\ UNCHANGED <<time, engine>>

\* V37E41E
SelectP41 ==
  /\ InKeys
  /\ Valid("rcs")
  /\ EngageBurn
  /\ dapMode' = "Attitude"
  /\ majorMode' = "P41"
  /\ UNCHANGED <<time, engine, pendingV50>>

Engage == SelectP40 \/ SelectP41

\* PRO or V33 with a request pending: p40_arm_engine.
Proceed ==
  /\ InKeys
  /\ pendingV50
  /\ pendingV50' = FALSE
  /\ burn' = [burn EXCEPT !.armed = TRUE]
  /\ UNCHANGED <<majorMode, time, servicerVars, servicerExit, pendingManeuver,
                 dapMode, engine>>

\* Wrong on purpose: the engine is left as it is.
SelectP00KeepsEngine ==
  /\ InKeys
  /\ majorMode' = "other"
  /\ burn' = [burn EXCEPT !.active = FALSE, !.armed = FALSE]
  /\ servicerExit' = "none"
  /\ dapMode' = IF dapMode = "Off" THEN "Off" ELSE "Attitude"
  /\ UNCHANGED <<time, servicerVars, targetVars, engine>>

\* V37E00E, V34, V96.
SelectP00 ==
  /\ InKeys
  /\ majorMode' = "other"
  /\ burn' = [burn EXCEPT !.active = FALSE, !.armed = FALSE]
  /\ engine' = FALSE
  /\ servicerExit' = "none"
  /\ dapMode' = IF dapMode = "Off" THEN "Off" ELSE "Attitude"
  /\ UNCHANGED <<time, servicerVars, targetVars>>

\* Wrong on purpose: the autopilot stays on.
SelectP06KeepsDap ==
  /\ InKeys
  /\ majorMode' = "P06"
  /\ servicerActive' = FALSE
  /\ servicerExit' = "none"
  /\ pendingManeuver' = NoManeuver
  /\ burn' = [burn EXCEPT !.active = FALSE]
  /\ engine' = FALSE
  /\ UNCHANGED <<time, chains, pendingV50, dapMode>>

\* V37E06E
SelectP06 ==
  /\ InKeys
  /\ majorMode' = "P06"
  /\ servicerActive' = FALSE
  /\ servicerExit' = "none"
  /\ dapMode' = "Off"
  /\ pendingManeuver' = NoManeuver
  /\ burn' = [burn EXCEPT !.active = FALSE]
  /\ engine' = FALSE
  /\ UNCHANGED <<time, chains, pendingV50>>

\* V37E11E, V37E15E, V37E47E take over the exit hook.
SelectMonitor ==
  /\ InKeys
  /\ majorMode' = "other"
  /\ servicerExit' = "monitor"
  /\ UNCHANGED <<time, servicerVars, burn, targetVars, dapMode, engine>>

\* V37E30E drops the last target and waits for N33 and N81.
SelectP30 ==
  /\ InKeys
  /\ majorMode' = "other"
  /\ pendingManeuver' = NoManeuver
  /\ UNCHANGED <<time, servicerVars, servicerExit, burn, pendingV50, dapMode, engine>>

\* V37E31E to V37E34E: a maneuver at the time last entered, which may have
\* passed, or an alarm and the last target stays.
SelectTargeting ==
  /\ InKeys
  /\ majorMode' = "other"
  /\ pendingManeuver' \in Maneuver \cup {NoManeuver, pendingManeuver}
  /\ UNCHANGED <<time, servicerVars, servicerExit, burn, pendingV50, dapMode, engine>>

\* V37E37E: a maneuver at a fixed time from now; refused outside the Moon's
\* sphere with nothing changed.
SelectP37 ==
  /\ InKeys
  /\ majorMode' = "other"
  /\ pendingManeuver' \in {m \in Maneuver : m.tig >= time} \cup {NoManeuver}
  /\ UNCHANGED <<time, servicerVars, servicerExit, burn, pendingV50, dapMode, engine>>

\* Wrong on purpose: the separation disarms the burn's watch with the target.
SelectP62DropsHook ==
  /\ AtKeys
  /\ majorMode' = "other"
  /\ pendingManeuver' = NoManeuver
  /\ dapMode' = "Attitude"
  /\ separation' = TRUE
  /\ servicerExit' = "none"
  /\ UNCHANGED <<time, servicerVars, burn, pendingV50, engine>>

\* V37E62E voids the target and stages the CM/SM separation.  dap_stop clears
\* the jet and gimbal commands; neither it nor P62 touches the engine or the
\* burn.
SelectP62 ==
  /\ AtKeys
  /\ majorMode' = "other"
  /\ pendingManeuver' = NoManeuver
  /\ dapMode' = "Attitude"
  /\ separation' = TRUE
  /\ UNCHANGED <<time, servicerVars, servicerExit, burn, pendingV50, engine>>

\* V37E63E hangs the entry guidance on the SERVICER.
SelectP63 ==
  /\ InKeys
  /\ majorMode' = "other"
  /\ servicerExit' = "entry"
  /\ UNCHANGED <<time, servicerVars, burn, targetVars, dapMode, engine>>

\* P01, P02, P20 to P29, P51 and P52, which touch nothing else here, and P61,
\* P64 and P67, which only move the phase of the entry (see Entry).
SelectOther ==
  /\ InKeys
  /\ majorMode' = "other"
  /\ UNCHANGED <<time, servicerVars, servicerExit, burn, targetVars, dapMode, engine>>

\* V94 with a sextant attitude stored by P23: a maneuver to it, whatever the
\* autopilot was doing.
CislunarManeuver ==
  /\ InKeys
  /\ dapMode' = IF dapMode = "Off" THEN "Off" ELSE "Attitude"
  /\ UNCHANGED <<majorMode, time, servicerVars, servicerExit, burn, targetVars,
                 engine>>

\* V25 N33 and N81: p30_load_dv_lvlh, in any major mode.
LoadManeuver(m) ==
  /\ InKeys
  /\ m = NoManeuver \/ m.tig >= time
  /\ pendingManeuver' = m
  /\ UNCHANGED <<majorMode, time, servicerVars, servicerExit, burn, pendingV50,
                 dapMode, engine>>

\* V25 N36, N65 and N24, V73, and word 30 of a P27 update.
SetClock(t) ==
  /\ InKeys
  /\ time' = t
  /\ UNCHANGED <<majorMode, servicerVars, servicerExit, burn, targetVars, dapMode,
                 engine>>

\* V36
FreshStart ==
  /\ AtKeys
  /\ majorMode' = "other"
  /\ time' = 0
  /\ servicerActive' = FALSE
  /\ chains' = 0
  /\ servicerExit' = "none"
  /\ burn' = NoBurn
  /\ pendingManeuver' = NoManeuver
  /\ pendingV50' = FALSE
  /\ dapMode' = "Off"
  /\ engine' = FALSE
  /\ separation' = FALSE

\* V69 resets the scheduler and the autopilot and keeps everything else; the
\* restart table is empty.
Restart ==
  /\ InKeys
  /\ chains' = 0
  /\ dapMode' = "Off"
  /\ UNCHANGED <<majorMode, time, servicerActive, servicerExit, burn, targetVars,
                 engine>>

Crew ==
  \/ EstablishServicer
  \/ Engage
  \/ Proceed
  \/ SelectP00
  \/ SelectP06
  \/ SelectMonitor
  \/ SelectP30
  \/ SelectTargeting
  \/ SelectP37
  \/ SelectP62
  \/ SelectP63
  \/ SelectOther
  \/ CislunarManeuver
  \/ \E m \in Maneuver \cup {NoManeuver} : LoadManeuver(m)
  \/ \E t \in Times : SetClock(t)
  \/ FreshStart
  \/ Restart

-----------------------------------------------------------------------------

\* The end of an iteration: process_engine_staging, then process_secs_staging
\* fires the separation pyro if it is due.
Staging ==
  /\ phase = "keys"
  /\ phase' = "t5"
  /\ sps' = engine
  /\ separation' = FALSE
  /\ UNCHANGED <<majorMode, time, servicerVars, servicerExit, burn, targetVars,
                 dapMode, engine, t5Vars>>

LoopStep == DrainT5 \/ DrainT3 \/ SkipT3 \/ DrainT4 \/ Staging

Next == LoopStep \/ ExpireT5 \/ Crew

Spec == Init /\ [][Next]_burnVars

\* The loop and the timer never stop, and a SERVICER entry is served again
\* and again (NavCycles: EveryTaskServed).  The crew need not press a key.
FairSpec ==
  /\ Spec
  /\ WF_burnVars(LoopStep)
  /\ WF_burnVars(ExpireT5)
  /\ SF_burnVars(DrainT3)

-----------------------------------------------------------------------------

BurnTypeOK ==
  /\ phase \in {"t5", "t3", "t4", "keys"}
  /\ majorMode \in {"P06", "P41", "other"}
  /\ time \in Times
  /\ servicerActive \in BOOLEAN
  /\ chains \in 0 .. MaxChains
  /\ servicerExit \in {"none", "burn", "monitor", "entry"}
  /\ burn \in Burns
  /\ pendingManeuver \in Maneuver \cup {NoManeuver}
  /\ pendingV50 \in BOOLEAN
  /\ dapMode \in DapModes
  /\ engine \in BOOLEAN
  /\ separation \in BOOLEAN
  /\ sps \in BOOLEAN
  /\ t5Armed \in BOOLEAN
  /\ t5Running \in BOOLEAN
  /\ t5Pending \in BOOLEAN

\* In standby the SPS is off and stays off.  P06 leaves the burn armed and
\* the engine-arm request open; what keeps them harmless is that nothing
\* turns the autopilot on again without leaving P06.
StandbyIsSafe ==
  majorMode = "P06" /\ phase = "t5" => ~engine /\ ~sps

\* The autopilot never stalls: once the loop has looked, an autopilot that is
\* on has its timer running or its interrupt posted, whatever P06, RESTART
\* and P40 did to its mode while the timer ran.
AutopilotAlive ==
  phase = "t3" /\ dapMode # "Off" => t5Running \/ t5Pending

\* An engine that is on, armed, or one PRO away from being armed ...
Hot == engine \/ burn.armed \/ pendingV50

\* ... is watched by a burn hook on a living SERVICER, which cuts it off.
Watched ==
  /\ burn.active
  /\ servicerExit = "burn"
  /\ servicerActive

ServicerQueued == servicerActive => chains > 0

Guarded == ServicerQueued /\ (Hot => Watched)

\* The steps that can leave an engine hot and unwatched, and no other step
\* can: P00 with the request still open, P06 with the engine armed or the
\* request open, a monitor program or P63 taking the hook, RESTART, a
\* waitlist with no room for SERVICER, and a target reached before ignition.
\* P62 is not among them: it keeps the engine, and its watch.
WatchLoss ==
  \/ SelectP00 /\ pendingV50
  \/ SelectP06 /\ (burn.armed \/ pendingV50)
  \/ SelectMonitor
  \/ SelectP63
  \/ Restart
  \/ Engage /\ ~servicerActive'
  \/ DrainT3 /\ servicerActive /\ ~servicerActive'
  \/ DrainT3 /\ burn.active /\ ~burn'.active /\ (burn.armed \/ pendingV50)

WatchLostOnlyBy == [][Guarded /\ ~WatchLoss => Guarded']_burnVars

\* The steps that can leave the SPS thrusting without thrust-vector control,
\* and no other step can: RESTART, P62, V94, a burn set up on top of one that
\* is thrusting, and the entry hook's roll command.
SteeringLoss ==
  \/ Restart
  \/ SelectP62
  \/ CislunarManeuver
  \/ Engage
  \/ DrainT3 /\ servicerExit = "entry"

ThrustSteered == engine => dapMode = "Tvc"

SteeringLostOnlyBy ==
  [][ThrustSteered /\ ~SteeringLoss => ThrustSteered']_burnVars

\* A watched engine is cut off: the delta-V gained reaches the target, unless
\* the watch is lost or the crew keeps engaging new burns on top.
CutoffFollows ==
  <>[][~Engage]_burnVars => (engine /\ Guarded ~> ~engine \/ ~Guarded)

\* An armed burn is ignited once TIG has come: the autopilot keeps cycling
\* and nothing but the crew, the target or the clock takes the burn back.
IgnitionFollows ==
  burn.armed /\ TigReached /\ dapMode # "Off"
    ~> engine \/ ~burn.armed \/ ~TigReached \/ dapMode = "Off"

-----------------------------------------------------------------------------
\* What a comment and a test say, and the model refutes.

\* p61_p67.rs:284, "If a burn was active we also have to quench it": the SPS
\* command is off when the separation pyro fires.
SeparationQuenchesBurn == [][Staging /\ separation => ~sps']_burnVars

\* p40_p41.rs, TC-P41-3: "P41 never engages SPS".  No step taken in P41 turns
\* the engine on.
P41NeverEngagesSps == [][majorMode = "P41" /\ engine' => engine]_burnVars
=============================================================================
