-------------------------------- MODULE Entry --------------------------------
(***************************************************************************)
(* The entry programs P61 - P67 (programs/p61_p67.rs): the crew selects    *)
(* them one after another, the SERVICER's exit hook flies the craft from   *)
(* the 0.05 g threshold to the drogue (with guidance/entry.rs choosing the *)
(* phase), and the end of each iteration of Executive::run fires the pyros *)
(* that they stage (process_secs_staging).                                 *)
(*                                                                         *)
(* The other programs appear by what they do to the exit hook, the         *)
(* SERVICER and the autopilot; Burn models them.  An iteration is "t3",    *)
(* the waitlist, and "keys".  Of the flight, a cycle sees whether it       *)
(* senses 0.05 g, and one of three speeds: "fast" is VFINAL1 and above,    *)
(* "slow" below it, "terminal" below VQUIT too.                            *)
(***************************************************************************)
EXTENDS Integers

CONSTANT MaxChains   \* SERVICER entries the waitlist can hold

ASSUME EntryAssumption == MaxChains \in Nat \ {0}

VARIABLES
  phase,              \* where the iteration of the run loop is
  servicerActive,     \* the SERVICER_ACTIVE bit
  chains,             \* SERVICER entries in the waitlist
  servicerExit,       \* AgcState::servicer_exit: "entry", another hook or none
  dapMode,            \* AgcState::dap_state.mode: "On" is neither Off nor EntryRoll
  entryPhase,         \* EntryState::phase
  sensed,             \* EntryState::sensed_acceleration_g is 0.05 g or more
  drogueDeployed,     \* EntryState::drogue_deployed
  droguePending,      \* AgcState::drogue_deploy_pending
  separationPending,  \* AgcState::csm_separation_pending
  separated,          \* history: the separation pyro fired since FRESH START
  drogueOut,          \* history: so was the drogue's
  warned              \* history: an entry program raised an alarm since then

servicerVars == <<servicerActive, chains>>
drogueVars == <<drogueDeployed, droguePending>>
historyVars == <<separated, drogueOut, warned>>
entryVars == <<phase, servicerActive, chains, servicerExit, dapMode, entryPhase,
               sensed, drogueDeployed, droguePending, separationPending,
               separated, drogueOut, warned>>

Speeds == {"fast", "slow", "terminal"}
ClosedLoop == {"Entry", "Skip", "Constd", "Ballistic", "Final"}
EntryPhases == {"Idle", "Preparation", "Separation", "PreEntry"} \cup ClosedLoop

\* Boot: FRESH START, dap_init, start_servicer.
Init ==
  /\ phase = "t3"
  /\ servicerActive = TRUE
  /\ chains = 1
  /\ servicerExit = "none"
  /\ dapMode = "On"
  /\ entryPhase = "Idle"
  /\ sensed = FALSE
  /\ drogueDeployed = FALSE
  /\ droguePending = FALSE
  /\ separationPending = FALSE
  /\ separated = FALSE
  /\ drogueOut = FALSE
  /\ warned = FALSE

-----------------------------------------------------------------------------
\* The exit hook.

\* What the range error, the exit speed and the drag may make of each phase
\* while the craft is fast.
Onward ==
  [Entry     |-> {"Entry", "Constd", "Skip"},
   Constd    |-> {"Constd", "Skip"},
   Skip      |-> {"Skip", "Final", "Ballistic", "Constd"},
   Ballistic |-> {"Ballistic"},
   Final     |-> {"Final"}]

\* Wrong on purpose: the ballistic phase holds whatever the speed.
SelectPhaseHolds(p, speed) ==
  IF speed # "fast" /\ p # "Ballistic" THEN {"Final"} ELSE Onward[p]

\* select_phase
SelectPhase(p, speed) ==
  IF speed # "fast" THEN {"Final"} ELSE Onward[p]

\* p63_check_threshold
AfterThreshold(g) ==
  IF entryPhase = "PreEntry" /\ g THEN "Entry" ELSE entryPhase

\* Wrong on purpose: an autopilot that is off stays off.
SteerByRollIfOn == dapMode' = IF dapMode = "Off" THEN "Off" ELSE "EntryRoll"

\* The roll command, which turns the autopilot on if it was off.
SteerByRoll == dapMode' = "EntryRoll"

\* Wrong on purpose: the life-of-mission flag is not set.
DeployDrogueAgain ==
  /\ droguePending' = TRUE
  /\ servicerExit' = "none"
  /\ UNCHANGED drogueDeployed

\* p67_deploy_drogue; the hook goes with it.
DeployDrogue ==
  /\ drogueDeployed' = TRUE
  /\ droguePending' = TRUE
  /\ servicerExit' = "none"

DrogueDue(speed) == entryPhase' = "Final" /\ ~drogueDeployed /\ speed = "terminal"

\* entry_servicer_exit, in a cycle that senses 0.05 g iff g, at that speed.
\* Nothing is flown before the threshold; the drogue goes in the cycle that
\* finds the craft in the final phase and slow enough, even if it was that
\* cycle that crossed the threshold.
EntryServicerExit(g, speed) ==
  LET p == AfterThreshold(g) IN
  /\ sensed' = g
  /\ \/ /\ p \notin ClosedLoop
        /\ entryPhase' = p
        /\ UNCHANGED <<dapMode, servicerExit, drogueVars>>
     \/ /\ p \in ClosedLoop
        /\ SteerByRoll
        /\ entryPhase' \in SelectPhase(p, speed)
        /\ \/ DrogueDue(speed) /\ DeployDrogue
           \/ ~DrogueDue(speed) /\ UNCHANGED <<servicerExit, drogueVars>>

\* Without a hook nothing; another program's hook may end its burn.
OtherExit ==
  /\ \/ UNCHANGED <<servicerExit, dapMode>>
     \/ servicerExit = "other" /\ servicerExit' = "none" /\ dapMode' = "On"
  /\ UNCHANGED <<entryPhase, sensed, drogueVars>>

\* servicer_task.  The waitlist may have no room for the next entry.
ServicerTask(g, speed) ==
  /\ chains > 0
  /\ \/ /\ servicerActive
        /\ \/ servicerExit = "entry" /\ EntryServicerExit(g, speed)
           \/ servicerExit # "entry" /\ OtherExit
        /\ \/ UNCHANGED servicerVars
           \/ servicerActive' = FALSE /\ chains' = chains - 1
     \/ /\ ~servicerActive
        /\ chains' = chains - 1
        /\ UNCHANGED <<servicerActive, servicerExit, dapMode, entryPhase, sensed,
                       drogueVars>>

DrainT3(g, speed) ==
  /\ phase = "t3"
  /\ phase' = "keys"
  /\ ServicerTask(g, speed)
  /\ UNCHANGED <<separationPending, historyVars>>

\* No SERVICER entry is due.
SkipT3 ==
  /\ phase = "t3"
  /\ phase' = "keys"
  /\ UNCHANGED <<servicerVars, servicerExit, dapMode, entryPhase, sensed, drogueVars,
                 separationPending, historyVars>>

-----------------------------------------------------------------------------
\* The crew's keys.

InKeys == phase = "keys" /\ UNCHANGED <<phase, separated, drogueOut>>

\* Out of sequence: an alarm, and the program goes on.
Warn(wrong) == warned' = (warned \/ wrong)

\* V37E61E
SelectP61 ==
  /\ InKeys
  /\ entryPhase' = "Preparation"
  /\ UNCHANGED <<servicerVars, servicerExit, dapMode, sensed, drogueVars,
                 separationPending, warned>>

\* V37E62E stages the separation.
SelectP62 ==
  /\ InKeys
  /\ Warn(entryPhase # "Preparation")
  /\ entryPhase' = "Separation"
  /\ dapMode' = "On"
  /\ separationPending' = TRUE
  /\ UNCHANGED <<servicerVars, servicerExit, sensed, drogueVars>>

\* Wrong on purpose: preparation counts as separation.
SelectP63Early ==
  /\ InKeys
  /\ Warn(entryPhase \notin {"Preparation", "Separation"})
  /\ entryPhase' = "PreEntry"
  /\ servicerExit' = "entry"
  /\ UNCHANGED <<servicerVars, dapMode, sensed, drogueVars, separationPending>>

\* V37E63E installs the hook.  It does not start the SERVICER.
SelectP63 ==
  /\ InKeys
  /\ Warn(entryPhase # "Separation")
  /\ entryPhase' = "PreEntry"
  /\ servicerExit' = "entry"
  /\ UNCHANGED <<servicerVars, dapMode, sensed, drogueVars, separationPending>>

\* V37E64E: no hook, and the alarm looks at the acceleration, not the phase.
SelectP64 ==
  /\ InKeys
  /\ Warn(~sensed)
  /\ entryPhase' = "Entry"
  /\ UNCHANGED <<servicerVars, servicerExit, dapMode, sensed, drogueVars,
                 separationPending>>

\* Wrong on purpose: the hook is dropped at the selection of P67, as the
\* comment on entry_servicer_exit has it.
SelectP67DropsHook ==
  /\ InKeys
  /\ Warn(entryPhase # "Entry")
  /\ entryPhase' = "Final"
  /\ servicerExit' = "none"
  /\ UNCHANGED <<servicerVars, dapMode, sensed, drogueVars, separationPending>>

\* V37E67E
SelectP67 ==
  /\ InKeys
  /\ Warn(entryPhase # "Entry")
  /\ entryPhase' = "Final"
  /\ UNCHANGED <<servicerVars, servicerExit, dapMode, sensed, drogueVars,
                 separationPending>>

\* What the keys below leave alone.
NotEntry == UNCHANGED <<entryPhase, sensed, drogueVars, separationPending, warned>>

\* V37E00E, V34, V96.
SelectP00 ==
  /\ InKeys /\ NotEntry
  /\ servicerExit' = "none"
  /\ dapMode' = IF dapMode = "Off" THEN "Off" ELSE "On"
  /\ UNCHANGED servicerVars

\* V37E06E
SelectP06 ==
  /\ InKeys /\ NotEntry
  /\ servicerActive' = FALSE
  /\ servicerExit' = "none"
  /\ dapMode' = "Off"
  /\ UNCHANGED chains

\* V37E11E, V37E15E, V37E47E.
SelectMonitor ==
  /\ InKeys /\ NotEntry
  /\ servicerExit' = "other"
  /\ UNCHANGED <<servicerVars, dapMode>>

\* Wrong on purpose: the capacity of the waitlist is not looked at.
StartServicerOver ==
  \/ servicerActive /\ UNCHANGED servicerVars
  \/ ~servicerActive /\ servicerActive' = TRUE /\ chains' = chains + 1

\* start_servicer: nothing if the flag is up, rolled back on a full list.
StartServicer ==
  \/ servicerActive /\ UNCHANGED servicerVars
  \/ /\ ~servicerActive /\ chains < MaxChains
     /\ servicerActive' = TRUE
     /\ chains' = chains + 1
  \/ ~servicerActive /\ UNCHANGED servicerVars

\* V37E40E, V37E41E.
Engage ==
  /\ InKeys /\ NotEntry
  /\ servicerExit' = "other"
  /\ dapMode' = "On"
  /\ StartServicer

\* V46
EstablishServicer ==
  /\ InKeys /\ NotEntry
  /\ StartServicer
  /\ UNCHANGED <<servicerExit, dapMode>>

\* V94, or an armed burn that ignites: the autopilot leaves the entry roll.
LeaveRoll ==
  /\ InKeys /\ NotEntry
  /\ dapMode # "Off"
  /\ dapMode' = "On"
  /\ UNCHANGED <<servicerVars, servicerExit>>

\* V69 resets the scheduler and the autopilot and keeps everything else.
Restart ==
  /\ InKeys /\ NotEntry
  /\ chains' = 0
  /\ dapMode' = "Off"
  /\ UNCHANGED <<servicerActive, servicerExit>>

\* V36, between the crew's other keys and so perhaps before the staging that
\* a drogue command is waiting for.
FreshStart ==
  /\ phase = "keys"
  /\ servicerActive' = FALSE
  /\ chains' = 0
  /\ servicerExit' = "none"
  /\ dapMode' = "Off"
  /\ entryPhase' = "Idle"
  /\ sensed' = FALSE
  /\ drogueDeployed' = FALSE
  /\ droguePending' = FALSE
  /\ separationPending' = FALSE
  /\ separated' = FALSE
  /\ drogueOut' = FALSE
  /\ warned' = FALSE
  /\ UNCHANGED phase

Crew ==
  \/ SelectP61 \/ SelectP62 \/ SelectP63 \/ SelectP64 \/ SelectP67
  \/ SelectP00 \/ SelectP06 \/ SelectMonitor \/ Engage
  \/ EstablishServicer \/ LeaveRoll \/ Restart \/ FreshStart

-----------------------------------------------------------------------------

\* The end of an iteration: process_secs_staging.
Staging ==
  /\ phase = "keys"
  /\ phase' = "t3"
  /\ separated' = (separated \/ separationPending)
  /\ separationPending' = FALSE
  /\ drogueOut' = (drogueOut \/ droguePending)
  /\ droguePending' = FALSE
  /\ UNCHANGED <<servicerVars, servicerExit, dapMode, entryPhase, sensed,
                 drogueDeployed, warned>>

LoopStep ==
  \/ \E g \in BOOLEAN, speed \in Speeds : DrainT3(g, speed)
  \/ SkipT3
  \/ Staging

Next == LoopStep \/ Crew

Spec == Init /\ [][Next]_entryVars

\* The loop never stops, and a SERVICER entry is served again and again
\* (NavCycles: EveryTaskServed), in the end in the terminal descent: at less
\* than VQUIT, and with the 1 g of a steady fall.
FairSpec ==
  /\ Spec
  /\ WF_entryVars(LoopStep)
  /\ SF_entryVars(DrainT3(TRUE, "terminal"))

-----------------------------------------------------------------------------

EntryTypeOK ==
  /\ phase \in {"t3", "keys"}
  /\ servicerActive \in BOOLEAN
  /\ chains \in 0 .. MaxChains
  /\ servicerExit \in {"none", "entry", "other"}
  /\ dapMode \in {"Off", "On", "EntryRoll"}
  /\ entryPhase \in EntryPhases
  /\ sensed \in BOOLEAN
  /\ drogueDeployed \in BOOLEAN
  /\ droguePending \in BOOLEAN
  /\ separationPending \in BOOLEAN
  /\ separated \in BOOLEAN
  /\ drogueOut \in BOOLEAN
  /\ warned \in BOOLEAN

\* The drogue is never commanded a second time, whatever the crew selects
\* after it is out.
DrogueCommandedOnce == droguePending => ~drogueOut

\* No drogue over an attached service module without a word: once it has been
\* commanded, either the separation pyro has fired or some entry program has
\* complained that it was selected out of sequence.
NoDrogueUnannounced == drogueOut => separated \/ warned

ServicerLive == servicerActive /\ chains > 0
Guided == servicerExit = "entry" /\ ServicerLive

\* An entry that still has its drogue to deploy.
Flying == entryPhase \in ClosedLoop \cup {"PreEntry"} /\ ~drogueDeployed

\* The steps that can leave an entry without its guidance, and no other can:
\* P64 and P67, which rely on the hook of P63, and P63 itself, which relies
\* on a SERVICER that somebody has started; the programs that take or drop
\* the hook; RESTART; a waitlist without room.
GuidanceLoss ==
  \/ SelectP63 /\ ~ServicerLive
  \/ (SelectP64 \/ SelectP67) /\ ~Guided
  \/ SelectP00 \/ SelectP06 \/ SelectMonitor \/ Engage
  \/ Restart
  \/ phase = "t3" /\ servicerActive /\ ~servicerActive'

GuidanceLostOnlyBy ==
  [][(Flying => Guided) /\ ~GuidanceLoss => (Flying' => Guided')]_entryVars

\* A guided entry ends with the drogue, whichever phases the guidance goes
\* through and whatever the crew selects: it is commanded, unless the entry
\* loses its guidance or its phase before the drogue is due.
DrogueFollows ==
  Flying /\ Guided ~> drogueOut \/ (~drogueDeployed /\ ~(Flying /\ Guided))

\* The autopilot steers by roll while the guidance flies, also when it was off
\* or at something else as P64 was selected.
RollFollows ==
  entryPhase \in ClosedLoop /\ Guided
    ~> dapMode = "EntryRoll" \/ entryPhase \notin ClosedLoop \/ ~Guided
=============================================================================
