----------------------------- MODULE EntryProofs -----------------------------
(***************************************************************************)
(* Proofs about the entry programs, for any capacity of the waitlist.      *)
(*                                                                         *)
(* EntryInv is the inductive invariant: the types; that a drogue command   *)
(* still on its way is the first; and where the hook and the phases that   *)
(* may install it in silence come from.                                    *)
(*                                                                         *)
(* What must happen is proved from LoopRuns and DescentServed: the         *)
(* fairness of the specification with the guards of its actions written    *)
(* out, since ENABLED is out of the prover's reach.                        *)
(***************************************************************************)
EXTENDS Entry, TLAPS

\* The life-of-mission flag is up from the command to FRESH START, and a
\* command that has reached the hardware is not pending any more.
FlagKept ==
  /\ droguePending \/ drogueOut => drogueDeployed
  /\ droguePending => ~drogueOut

\* The separation has been staged, or somebody was warned.
Announced == separated \/ separationPending \/ warned

\* A separation staged among the keys has fired before the waitlist runs.
Fired == phase = "t3" => ~separationPending

Sequence ==
  /\ entryPhase = "Separation" => Announced
  /\ servicerExit = "entry" => Announced
  /\ droguePending \/ drogueOut => separated \/ warned

EntryInv == EntryTypeOK /\ FlagKept /\ Fired /\ Sequence

-----------------------------------------------------------------------------

LEMMA EntryInitInv == Init => EntryInv
<1> SUFFICES ASSUME Init PROVE EntryInv
  OBVIOUS
<1>1. 1 \in 0 .. MaxChains
  BY EntryAssumption DEF EntryAssumption
<1>2. EntryTypeOK
  BY <1>1 DEF Init, EntryTypeOK, EntryPhases
<1> QED
  BY <1>2 DEF Init, EntryInv, FlagKept, Fired, Sequence

LEMMA StartServicerType ==
  ASSUME EntryTypeOK, StartServicer
  PROVE  servicerActive' \in BOOLEAN /\ chains' \in 0 .. MaxChains
<1>1. MaxChains \in Nat /\ chains \in 0 .. MaxChains /\ servicerActive \in BOOLEAN
  BY EntryAssumption DEF EntryAssumption, EntryTypeOK
<1>2. CASE chains < MaxChains /\ servicerActive' = TRUE /\ chains' = chains + 1
  BY <1>1, <1>2
<1>3. CASE UNCHANGED servicerVars
  BY <1>1, <1>3 DEF servicerVars
<1> QED
  BY <1>2, <1>3 DEF StartServicer

\* One cycle of the hook keeps the types, and commands a drogue only if none
\* has been.
LEMMA EntryServicerExitEffect ==
  ASSUME EntryTypeOK, NEW g \in BOOLEAN, NEW speed \in Speeds,
         servicerExit = "entry", EntryServicerExit(g, speed)
  PROVE  /\ sensed' \in BOOLEAN
         /\ entryPhase' \in EntryPhases
         /\ entryPhase' # "Separation" \/ entryPhase = "Separation"
         /\ dapMode' \in {"Off", "On", "EntryRoll"}
         /\ servicerExit' \in {"none", "entry", "other"}
         /\ drogueDeployed' \in BOOLEAN /\ droguePending' \in BOOLEAN
         /\ \/ UNCHANGED <<servicerExit, drogueDeployed, droguePending>>
            \/ /\ ~drogueDeployed /\ drogueDeployed' /\ droguePending'
               /\ servicerExit' = "none"
<1> DEFINE p == AfterThreshold(g)
<1>1. p \in EntryPhases /\ (p # "Separation" \/ entryPhase = "Separation")
  BY DEF AfterThreshold, EntryTypeOK, EntryPhases, ClosedLoop
<1>2. sensed' = g
  BY DEF EntryServicerExit
<1>3. CASE /\ p \notin ClosedLoop
           /\ entryPhase' = p
           /\ UNCHANGED <<dapMode, servicerExit, drogueVars>>
  BY <1>1, <1>2, <1>3 DEF drogueVars, EntryTypeOK
<1>4. CASE /\ p \in ClosedLoop
           /\ SteerByRoll
           /\ entryPhase' \in SelectPhase(p, speed)
           /\ \/ DrogueDue(speed) /\ DeployDrogue
              \/ ~DrogueDue(speed) /\ UNCHANGED <<servicerExit, drogueVars>>
  <2>1. SelectPhase(p, speed) \subseteq ClosedLoop
    BY <1>4 DEF SelectPhase, Onward, ClosedLoop
  <2>2. entryPhase' \in EntryPhases /\ entryPhase' # "Separation"
    BY <1>4, <2>1 DEF EntryPhases, ClosedLoop
  <2>3. \/ UNCHANGED <<servicerExit, drogueDeployed, droguePending>>
        \/ /\ ~drogueDeployed /\ drogueDeployed' = TRUE /\ droguePending' = TRUE
           /\ servicerExit' = "none"
    BY <1>4 DEF DrogueDue, DeployDrogue, drogueVars
  <2> QED
    BY <1>2, <1>4, <2>2, <2>3 DEF SteerByRoll, EntryTypeOK
<1> QED
  BY <1>3, <1>4 DEF EntryServicerExit

LEMMA DrainT3Inv ==
  ASSUME EntryInv, NEW g \in BOOLEAN, NEW speed \in Speeds, DrainT3(g, speed)
  PROVE  EntryInv'
<1>1. EntryTypeOK /\ FlagKept /\ Fired /\ Sequence
  BY DEF EntryInv
<1>2. /\ phase = "t3" /\ phase' = "keys"
      /\ UNCHANGED <<separationPending, separated, drogueOut, warned>>
  BY DEF DrainT3, historyVars
<1>3. servicerActive' \in BOOLEAN /\ chains' \in 0 .. MaxChains
  <2>1. MaxChains \in Nat /\ chains \in 0 .. MaxChains /\ servicerActive \in BOOLEAN
    BY <1>1, EntryAssumption DEF EntryAssumption, EntryTypeOK
  <2>2. CASE servicerActive
    <3>1. chains > 0
      BY DEF DrainT3, ServicerTask
    <3>2. CASE UNCHANGED servicerVars
      BY <2>1, <3>2 DEF servicerVars
    <3>3. CASE servicerActive' = FALSE /\ chains' = chains - 1
      <4>1. chains' \in 0 .. MaxChains
        BY <2>1, <3>1, <3>3
      <4> QED
        BY <3>3, <4>1
    <3> QED
      BY <2>2, <3>2, <3>3 DEF DrainT3, ServicerTask
  <2>3. CASE ~servicerActive
    <3>1. chains > 0 /\ chains' = chains - 1 /\ servicerActive' = servicerActive
      BY <2>3 DEF DrainT3, ServicerTask
    <3> QED
      BY <2>1, <3>1
  <2> QED
    BY <2>2, <2>3
<1>4. CASE servicerActive /\ servicerExit = "entry" /\ EntryServicerExit(g, speed)
  <2>1. /\ sensed' \in BOOLEAN
        /\ entryPhase' \in EntryPhases
        /\ entryPhase' # "Separation" \/ entryPhase = "Separation"
        /\ dapMode' \in {"Off", "On", "EntryRoll"}
        /\ servicerExit' \in {"none", "entry", "other"}
        /\ drogueDeployed' \in BOOLEAN /\ droguePending' \in BOOLEAN
        /\ \/ UNCHANGED <<servicerExit, drogueDeployed, droguePending>>
           \/ /\ ~drogueDeployed /\ drogueDeployed' /\ droguePending'
              /\ servicerExit' = "none"
    BY <1>1, <1>4, EntryServicerExitEffect
  <2>2. EntryTypeOK'
    BY <1>1, <1>2, <1>3, <2>1 DEF EntryTypeOK
  <2>3. FlagKept' /\ Fired'
    BY <1>1, <1>2, <2>1 DEF FlagKept, Fired
  <2>4. separated \/ warned
    BY <1>1, <1>2, <1>4 DEF Sequence, Announced, Fired
  <2>5. Sequence'
    BY <1>2, <2>4 DEF Sequence, Announced
  <2> QED
    BY <2>2, <2>3, <2>5 DEF EntryInv
<1>5. CASE \/ servicerActive /\ servicerExit # "entry" /\ OtherExit
           \/ ~servicerActive
  <2>1. /\ servicerExit' \in {servicerExit, "none"}
        /\ dapMode' \in {dapMode, "On"}
        /\ UNCHANGED <<entryPhase, sensed, drogueDeployed, droguePending>>
    BY <1>5 DEF DrainT3, ServicerTask, OtherExit, drogueVars
  <2>2. EntryTypeOK'
    BY <1>1, <1>2, <1>3, <2>1 DEF EntryTypeOK
  <2>3. FlagKept' /\ Fired' /\ Sequence'
    BY <1>1, <1>2, <2>1 DEF FlagKept, Fired, Sequence, Announced
  <2> QED
    BY <2>2, <2>3 DEF EntryInv
<1> QED
  BY <1>4, <1>5 DEF DrainT3, ServicerTask

LEMMA RestOfLoopInv == EntryInv /\ (SkipT3 \/ Staging) => EntryInv'
<1> SUFFICES ASSUME EntryInv, SkipT3 \/ Staging PROVE EntryInv'
  OBVIOUS
<1>1. EntryTypeOK /\ FlagKept /\ Fired /\ Sequence
  BY DEF EntryInv
<1>2. EntryTypeOK'
  <2>1. /\ phase' \in {"t3", "keys"}
        /\ droguePending' \in BOOLEAN /\ separationPending' \in BOOLEAN
        /\ separated' \in BOOLEAN /\ drogueOut' \in BOOLEAN
    BY <1>1 DEF SkipT3, Staging, drogueVars, historyVars, EntryTypeOK
  <2>2. UNCHANGED <<servicerActive, chains, servicerExit, dapMode, entryPhase, sensed,
                    drogueDeployed, warned>>
    BY DEF SkipT3, Staging, servicerVars, drogueVars, historyVars
  <2> QED
    BY <1>1, <2>1, <2>2 DEF EntryTypeOK
<1>3. FlagKept' /\ Fired' /\ Sequence'
  <2>1. CASE SkipT3
    BY <1>1, <2>1 DEF SkipT3, drogueVars, historyVars, FlagKept, Fired, Sequence,
       Announced
  <2>2. CASE Staging
    BY <1>1, <2>2 DEF Staging, EntryTypeOK, FlagKept, Fired, Sequence, Announced
  <2> QED
    BY <2>1, <2>2
<1> QED
  BY <1>2, <1>3 DEF EntryInv

\* The entry programs themselves.
LEMMA SelectEntryInv ==
  ASSUME EntryInv, SelectP61 \/ SelectP62 \/ SelectP63 \/ SelectP64 \/ SelectP67
  PROVE  EntryInv'
<1>1. EntryTypeOK /\ FlagKept /\ Fired /\ Sequence
  BY DEF EntryInv
<1>2. /\ phase = "keys" /\ phase' = "keys"
      /\ UNCHANGED <<separated, drogueOut, servicerActive, chains, sensed,
                     drogueDeployed, droguePending>>
  BY DEF SelectP61, SelectP62, SelectP63, SelectP64, SelectP67, InKeys, servicerVars,
     drogueVars
<1>3. /\ entryPhase' \in EntryPhases
      /\ servicerExit' \in {"none", "entry", "other"}
      /\ dapMode' \in {"Off", "On", "EntryRoll"}
      /\ separationPending' \in BOOLEAN /\ warned' \in BOOLEAN
      /\ warned => warned'
      /\ separationPending => separationPending'
  BY <1>1 DEF SelectP61, SelectP62, SelectP63, SelectP64, SelectP67, Warn, EntryTypeOK,
     EntryPhases, ClosedLoop
<1>4. EntryTypeOK'
  BY <1>1, <1>2, <1>3 DEF EntryTypeOK
<1>5. FlagKept' /\ Fired'
  BY <1>1, <1>2 DEF FlagKept, Fired
<1>6. entryPhase' = "Separation" => Announced'
  BY DEF SelectP61, SelectP62, SelectP63, SelectP64, SelectP67, Announced
<1>7. servicerExit' = "entry" => Announced'
  BY <1>1, <1>2, <1>3
  DEF SelectP61, SelectP62, SelectP63, SelectP64, SelectP67, Warn, Sequence, Announced
<1>8. droguePending' \/ drogueOut' => separated' \/ warned'
  BY <1>1, <1>2, <1>3 DEF Sequence
<1> QED
  BY <1>4, <1>5, <1>6, <1>7, <1>8 DEF EntryInv, Sequence

\* The other keys.
LEMMA OtherKeysInv ==
  ASSUME EntryInv,
         \/ SelectP00 \/ SelectP06 \/ SelectMonitor \/ Engage
         \/ EstablishServicer \/ LeaveRoll \/ Restart
  PROVE  EntryInv'
<1>1. EntryTypeOK /\ FlagKept /\ Fired /\ Sequence
  BY DEF EntryInv
<1>2. /\ phase = "keys" /\ phase' = "keys"
      /\ UNCHANGED <<entryPhase, sensed, drogueDeployed, droguePending,
                     separationPending, separated, drogueOut, warned>>
  BY DEF SelectP00, SelectP06, SelectMonitor, Engage, EstablishServicer, LeaveRoll,
     Restart, InKeys, NotEntry, drogueVars
<1>3. servicerActive' \in BOOLEAN /\ chains' \in 0 .. MaxChains
  <2>1. CASE Engage \/ EstablishServicer
    BY <1>1, <2>1, StartServicerType DEF Engage, EstablishServicer
  <2>2. CASE Restart
    BY <1>1, <2>2, EntryAssumption DEF EntryAssumption, Restart, EntryTypeOK
  <2>3. CASE SelectP00 \/ SelectP06 \/ SelectMonitor \/ LeaveRoll
    BY <1>1, <2>3
    DEF SelectP00, SelectP06, SelectMonitor, LeaveRoll, servicerVars, EntryTypeOK
  <2> QED
    BY <2>1, <2>2, <2>3
<1>4. /\ servicerExit' \in {servicerExit, "none", "other"}
      /\ dapMode' \in {dapMode, "Off", "On"}
  BY DEF SelectP00, SelectP06, SelectMonitor, Engage, EstablishServicer, LeaveRoll,
     Restart
<1>5. EntryTypeOK'
  BY <1>1, <1>2, <1>3, <1>4 DEF EntryTypeOK
<1>6. FlagKept' /\ Fired' /\ Sequence'
  BY <1>1, <1>2, <1>4 DEF FlagKept, Fired, Sequence, Announced
<1> QED
  BY <1>5, <1>6 DEF EntryInv

LEMMA FreshStartInv == EntryInv /\ FreshStart => EntryInv'
<1> SUFFICES ASSUME EntryInv, FreshStart PROVE EntryInv'
  OBVIOUS
<1>1. 0 \in 0 .. MaxChains
  BY EntryAssumption DEF EntryAssumption
<1>2. EntryTypeOK'
  BY <1>1 DEF FreshStart, EntryTypeOK, EntryPhases
<1> QED
  BY <1>2 DEF FreshStart, EntryInv, FlagKept, Fired, Sequence

LEMMA EntryStepInv == EntryInv /\ [Next]_entryVars => EntryInv'
<1> SUFFICES ASSUME EntryInv, [Next]_entryVars PROVE EntryInv'
  OBVIOUS
<1>1. CASE LoopStep
  BY <1>1, DrainT3Inv, RestOfLoopInv DEF LoopStep
<1>2. CASE Crew
  BY <1>2, SelectEntryInv, OtherKeysInv, FreshStartInv DEF Crew
<1>3. CASE UNCHANGED entryVars
  BY <1>3 DEF entryVars, EntryInv, EntryTypeOK, FlagKept, Fired, Sequence, Announced
<1> QED
  BY <1>1, <1>2, <1>3 DEF Next

LEMMA EntryInvHolds == Spec => []EntryInv
  BY EntryInitInv, EntryStepInv, PTL DEF Spec

\* Every variable of the entry keeps its type: in particular the phases stay
\* among those that entry_servicer_exit knows how to fly.
THEOREM EntryTypeCorrect == Spec => []EntryTypeOK
<1>1. EntryInv => EntryTypeOK
  BY DEF EntryInv
<1> QED
  BY <1>1, EntryInvHolds, PTL

\* The life-of-mission flag works: no sequence of selections commands the
\* drogue twice.
THEOREM DrogueAtMostOnce == Spec => []DrogueCommandedOnce
<1>1. EntryInv => DrogueCommandedOnce
  BY DEF EntryInv, FlagKept, DrogueCommandedOnce
<1> QED
  BY <1>1, EntryInvHolds, PTL

\* The drogue is commanded after the separation, or after an alarm.
THEOREM DrogueAnnounced == Spec => []NoDrogueUnannounced
<1>1. EntryInv => NoDrogueUnannounced
  BY DEF EntryInv, Sequence, NoDrogueUnannounced
<1> QED
  BY <1>1, EntryInvHolds, PTL

-----------------------------------------------------------------------------

LEMMA StepKeepsGuidance ==
  EntryInv /\ [Next]_entryVars
    => [(Flying => Guided) /\ ~GuidanceLoss => (Flying' => Guided')]_entryVars
<1> SUFFICES ASSUME EntryInv, Next, Flying => Guided, ~GuidanceLoss, Flying'
             PROVE  Guided'
  OBVIOUS
<1>1. EntryTypeOK
  BY DEF EntryInv
<1>2. ASSUME NEW g \in BOOLEAN, NEW speed \in Speeds, DrainT3(g, speed)
      PROVE  Guided'
  <2>1. CASE ~servicerActive
    BY <1>2, <2>1 DEF DrainT3, ServicerTask, drogueVars, Flying, Guided, ServicerLive
  <2>2. CASE servicerActive /\ servicerExit # "entry"
    BY <1>2, <2>2
    DEF DrainT3, ServicerTask, OtherExit, drogueVars, Flying, Guided, ServicerLive
  <2>3. CASE servicerActive /\ servicerExit = "entry" /\ EntryServicerExit(g, speed)
    <3>1. servicerActive' /\ chains' = chains /\ chains > 0
      BY <1>1, <1>2, <2>3
      DEF GuidanceLoss, DrainT3, ServicerTask, servicerVars, EntryTypeOK
    <3>2. servicerExit' = "entry" \/ drogueDeployed'
      BY <1>1, <2>3, EntryServicerExitEffect
    <3> QED
      BY <3>1, <3>2 DEF Flying, Guided, ServicerLive
  <2> QED
    BY <1>2, <2>1, <2>2, <2>3 DEF DrainT3, ServicerTask
<1>3. CASE SkipT3 \/ Staging
  BY <1>3 DEF SkipT3, Staging, servicerVars, drogueVars, Flying, Guided, ServicerLive
<1>4. CASE SelectP61 \/ SelectP62
  BY <1>4 DEF SelectP61, SelectP62, Flying, ClosedLoop
<1>5. CASE SelectP63
  BY <1>5 DEF SelectP63, GuidanceLoss, servicerVars, Guided, ServicerLive
<1>6. CASE SelectP64 \/ SelectP67
  BY <1>6 DEF SelectP64, SelectP67, GuidanceLoss, servicerVars, Guided, ServicerLive
<1>7. CASE EstablishServicer
  <2>1. Guided
    BY <1>7 DEF EstablishServicer, NotEntry, drogueVars, Flying
  <2>2. servicerExit' = servicerExit /\ UNCHANGED servicerVars
    BY <1>7, <2>1 DEF EstablishServicer, StartServicer, Guided, ServicerLive
  <2> QED
    BY <2>1, <2>2 DEF servicerVars, Guided, ServicerLive
<1>8. CASE LeaveRoll
  BY <1>8 DEF LeaveRoll, NotEntry, servicerVars, drogueVars, Flying, Guided,
     ServicerLive
<1>9. CASE FreshStart
  BY <1>9 DEF FreshStart, Flying, ClosedLoop
<1> QED
  BY <1>2, <1>3, <1>4, <1>5, <1>6, <1>7, <1>8, <1>9
  DEF Next, LoopStep, Crew, GuidanceLoss

\* An entry loses its guidance by the steps of GuidanceLoss and by no other.
THEOREM GuidanceOnlyLostByListedSteps == Spec => GuidanceLostOnlyBy
  BY EntryInvHolds, StepKeepsGuidance, PTL DEF Spec, GuidanceLostOnlyBy

-----------------------------------------------------------------------------
\* The end of an entry.

\* The fairness of the loop and of the terminal descent with the guards
\* spelled out: an iteration always has a next step, and a SERVICER entry can
\* be served whenever the loop is at the waitlist.
TerminalCycle == DrainT3(TRUE, "terminal")
LoopRuns == []<><<LoopStep>>_entryVars
DescentServed ==
  []<>(phase = "t3" /\ chains > 0) => []<><<TerminalCycle>>_entryVars

\* An entry with its guidance, before the drogue.
Underway == Flying /\ Guided

\* A drogue that has been commanded and waits for the end of the iteration.
Commanded == drogueDeployed /\ droguePending

\* The iteration goes round, and its end sends a drogue on its way.
LEMMA LoopSteps ==
  ASSUME [Next]_entryVars
  PROVE  /\ phase' = phase \/ LoopStep
         /\ LoopStep /\ phase = "t3" => phase' = "keys"
         /\ LoopStep /\ phase = "keys" => Staging /\ phase' = "t3"
<1>1. CASE LoopStep
  BY <1>1 DEF LoopStep, DrainT3, SkipT3, Staging
<1>2. CASE Crew
  <2>1. phase = "keys" /\ phase' = phase
    BY <1>2
    DEF Crew, SelectP61, SelectP62, SelectP63, SelectP64, SelectP67, SelectP00,
        SelectP06, SelectMonitor, Engage, EstablishServicer, LeaveRoll, Restart,
        FreshStart, InKeys
  <2> QED
    BY <2>1 DEF LoopStep, DrainT3, SkipT3, Staging
<1>3. CASE UNCHANGED entryVars
  BY <1>3 DEF entryVars, LoopStep, DrainT3, SkipT3, Staging
<1> QED
  BY <1>1, <1>2, <1>3 DEF Next

\* The keys command no drogue, and none but V36 takes a command back.
LEMMA CrewKeepsDrogue ==
  ASSUME Crew
  PROVE  \/ UNCHANGED drogueVars
         \/ ~drogueDeployed' /\ ~Underway'
  BY DEF Crew, SelectP61, SelectP62, SelectP63, SelectP64, SelectP67, SelectP00,
     SelectP06, SelectMonitor, Engage, EstablishServicer, LeaveRoll, Restart,
     FreshStart, InKeys, NotEntry, drogueVars, Underway, Flying, ClosedLoop

\* A cycle of the SERVICER commands the drogue or leaves it as it is.
LEMMA CycleKeepsDrogue ==
  ASSUME NEW g \in BOOLEAN, NEW speed \in Speeds, DrainT3(g, speed)
  PROVE  UNCHANGED drogueVars \/ Commanded'
  BY DEF DrainT3, ServicerTask, EntryServicerExit, OtherExit, DeployDrogue,
     drogueVars, Commanded

\* An entry under way ends by the command of the drogue or by the loss of the
\* guidance or the phase; a command reaches the pyro at the end of the
\* iteration, unless V36 comes first.
LEMMA DrogueSteps ==
  ASSUME [Next]_entryVars
  PROVE  /\ Underway /\ ~Underway' => Commanded' \/ ~drogueDeployed'
         /\ Commanded =>
              Commanded' \/ drogueOut' \/ (~drogueDeployed' /\ ~Underway')
         /\ Commanded /\ Staging => drogueOut'
<1>1. Underway => ~drogueDeployed
  BY DEF Underway, Flying
<1>2. CASE \E g \in BOOLEAN, speed \in Speeds : DrainT3(g, speed)
  <2>1. UNCHANGED drogueVars \/ Commanded'
    BY <1>2, CycleKeepsDrogue
  <2>2. ~Staging
    BY <1>2 DEF DrainT3, Staging
  <2> QED
    BY <1>1, <2>1, <2>2 DEF drogueVars, Commanded
<1>3. CASE Staging
  <2>1. droguePending => drogueOut'
    BY <1>3, Zenon DEF Staging
  <2>2. UNCHANGED drogueDeployed
    BY <1>3 DEF Staging
  <2> QED
    BY <1>1, <2>1, <2>2 DEF Commanded
<1>4. CASE Crew
  <2>1. ~Staging
    BY <1>4, LoopSteps
    DEF Crew, SelectP61, SelectP62, SelectP63, SelectP64, SelectP67, SelectP00,
        SelectP06, SelectMonitor, Engage, EstablishServicer, LeaveRoll, Restart,
        FreshStart, InKeys, Staging
  <2> QED
    BY <1>1, <1>4, <2>1, CrewKeepsDrogue DEF drogueVars, Commanded
<1>5. CASE SkipT3 \/ UNCHANGED entryVars
  BY <1>1, <1>5 DEF SkipT3, Staging, entryVars, drogueVars, Commanded
<1> QED
  BY <1>2, <1>3, <1>4, <1>5 DEF Next, LoopStep

\* One cycle in the terminal descent is enough for an entry under way.
LEMMA TerminalCycleEnds ==
  ASSUME Underway, TerminalCycle
  PROVE  ~Underway'
<1> DEFINE p == AfterThreshold(TRUE)
<1>1. EntryServicerExit(TRUE, "terminal")
  BY DEF TerminalCycle, DrainT3, ServicerTask, Underway, Guided, ServicerLive
<1>2. p \in ClosedLoop /\ ~drogueDeployed
  BY DEF Underway, Flying, AfterThreshold, ClosedLoop
<1>3. entryPhase' \in SelectPhase(p, "terminal")
  BY <1>1, <1>2 DEF EntryServicerExit
<1>4. DrogueDue("terminal")
  BY <1>2, <1>3 DEF DrogueDue, SelectPhase
<1>5. DeployDrogue
  BY <1>1, <1>2, <1>4 DEF EntryServicerExit
<1> QED
  BY <1>5 DEF DeployDrogue, Underway, Flying

\* A guided entry ends with the drogue, unless it loses its guidance or its
\* phase before the drogue is due.
THEOREM GuidedEntryEnds == Spec /\ LoopRuns /\ DescentServed => DrogueFollows
<1>1. EntryInv => phase = "t3" \/ phase = "keys"
  BY DEF EntryInv, EntryTypeOK
<1>2. [Next]_entryVars =>
        /\ LoopStep \/ (phase = "t3" => (phase = "t3")')
        /\ LoopStep \/ (phase = "keys" => (phase = "keys")')
        /\ LoopStep /\ phase = "t3" => (phase = "keys")'
        /\ LoopStep /\ phase = "keys" => Staging /\ (phase = "t3")'
  BY LoopSteps
<1>3. [Next]_entryVars =>
        /\ Underway /\ ~Underway' => Commanded' \/ ~drogueDeployed'
        /\ Commanded =>
             Commanded' \/ drogueOut' \/ (~drogueDeployed' /\ ~Underway')
        /\ Commanded /\ Staging => drogueOut'
  BY DrogueSteps
<1>4. Underway /\ TerminalCycle => ~Underway'
  BY TerminalCycleEnds
<1>5. Underway => chains > 0
  BY DEF Underway, Guided, ServicerLive
<1>6. Flying /\ Guided <=> Underway
  BY DEF Underway
<1> QED
  BY <1>1, <1>2, <1>3, <1>4, <1>5, <1>6, EntryInvHolds, PTL
  DEF Spec, LoopRuns, DescentServed, DrogueFollows

\* Closed-loop guidance that does not steer by roll yet.
Unsteered == entryPhase \in ClosedLoop /\ Guided /\ dapMode # "EntryRoll"

LEMMA TerminalCycleSteers ==
  ASSUME Unsteered, TerminalCycle
  PROVE  ~Unsteered'
<1>1. EntryServicerExit(TRUE, "terminal")
  BY DEF TerminalCycle, DrainT3, ServicerTask, Unsteered, Guided, ServicerLive
<1>2. AfterThreshold(TRUE) \in ClosedLoop
  BY DEF Unsteered, AfterThreshold, ClosedLoop
<1> QED
  BY <1>1, <1>2 DEF EntryServicerExit, SteerByRoll, Unsteered

\* While the guidance flies the autopilot comes to steer by roll, also when it
\* was off or at something else.
THEOREM GuidanceSteers == Spec /\ LoopRuns /\ DescentServed => RollFollows
<1>1. EntryInv => phase = "t3" \/ phase = "keys"
  BY DEF EntryInv, EntryTypeOK
<1>2. [Next]_entryVars =>
        /\ LoopStep \/ (phase = "t3" => (phase = "t3")')
        /\ LoopStep \/ (phase = "keys" => (phase = "keys")')
        /\ LoopStep /\ phase = "t3" => (phase = "keys")'
        /\ LoopStep /\ phase = "keys" => (phase = "t3")'
  BY LoopSteps
<1>3. Unsteered /\ TerminalCycle => ~Unsteered'
  BY TerminalCycleSteers
<1>4. Unsteered => chains > 0
  BY DEF Unsteered, Guided, ServicerLive
<1>5. dapMode = "EntryRoll" \/ entryPhase \notin ClosedLoop \/ ~Guided
        <=> ~Unsteered
  BY DEF Unsteered
<1> QED
  BY <1>1, <1>2, <1>3, <1>4, <1>5, EntryInvHolds, PTL
  DEF Spec, LoopRuns, DescentServed, RollFollows
=============================================================================
