----------------------------- MODULE BurnProofs -----------------------------
(***************************************************************************)
(* Proofs about the powered-flight programs, for any bound on the clock,   *)
(* any burn length and any waitlist capacity.                              *)
(*                                                                         *)
(* BurnInv is the inductive invariant: the types, and the three facts the  *)
(* safety properties rest on.                                              *)
(*                                                                         *)
(* What must happen is proved from LoopRuns, T5Expires and                 *)
(* ServicerServed: the fairness of the specification with the guards of    *)
(* its actions written out, since ENABLED is out of the prover's reach.    *)
(***************************************************************************)
EXTENDS Burn, TLAPS

\* A burn being watched has something left to gain.
StillToGain == burn.active => burn.toGo > 0

\* What P06 leaves behind: nothing that runs on its own could light the SPS.
Quiet ==
  majorMode = "P06" => /\ ~engine
                       /\ dapMode = "Off"
                       /\ servicerExit = "none"
                       /\ phase = "t5" => ~sps

\* t5_armed tells the truth about the timer, and agrees with the mode of the
\* autopilot when the loop has just looked at both.
T5Cache ==
  /\ t5Armed => t5Running \/ t5Pending
  /\ phase = "t3" /\ dapMode # "Off" => t5Armed

BurnInv == BurnTypeOK /\ StillToGain /\ Quiet /\ T5Cache

-----------------------------------------------------------------------------

LEMMA BurnInitType ==
  ASSUME NEW m \in Maneuver
  PROVE  BurnInit(m) \in Burns /\ BurnInit(m).active /\ BurnInit(m).toGo > 0
  BY BurnAssumption DEF BurnAssumption, BurnInit, Maneuver, Burns

LEMMA NoBurnType == NoBurn \in Burns /\ ~NoBurn.active
  BY BurnAssumption DEF BurnAssumption, NoBurn, Burns, Times

\* start_servicer keeps the entries within the list, and never lowers the flag.
LEMMA StartServicerEffect ==
  ASSUME BurnTypeOK, StartServicer
  PROVE  /\ servicerActive' \in BOOLEAN
         /\ chains' \in 0 .. MaxChains
         /\ servicerActive => servicerActive'
         /\ ServicerQueued => ServicerQueued'
<1>1. MaxChains \in Nat /\ chains \in 0 .. MaxChains /\ servicerActive \in BOOLEAN
  BY BurnAssumption DEF BurnAssumption, BurnTypeOK
<1>2. CASE servicerActive' = TRUE /\ chains' = chains + 1 /\ chains < MaxChains
  <2>1. chains' \in 0 .. MaxChains /\ chains' > 0
    BY <1>1, <1>2
  <2> QED
    BY <1>2, <2>1 DEF ServicerQueued
<1>3. CASE UNCHANGED servicerVars
  BY <1>1, <1>3 DEF servicerVars, ServicerQueued
<1> QED
  BY <1>2, <1>3 DEF StartServicer

\* One dap_step: the engine goes on from an armed burn only, and an autopilot
\* that is off stays off and touches nothing.
LEMMA DapStepEffect ==
  ASSUME BurnTypeOK, DapStep
  PROVE  /\ dapMode' \in DapModes
         /\ engine' \in BOOLEAN
         /\ burn' \in Burns
         /\ burn'.active = burn.active
         /\ burn'.toGo = burn.toGo
         /\ burn'.armed => burn.armed
         /\ engine' => engine \/ burn.armed
         /\ dapMode = "Off" => dapMode' = "Off" /\ engine' = engine
         /\ ThrustSteered => ThrustSteered'
<1>1. CASE Ignite
  BY <1>1 DEF Ignite, BurnTypeOK, Burns, DapModes, ThrustSteered
<1>2. CASE UNCHANGED <<dapMode, engine, burn>>
  BY <1>2 DEF BurnTypeOK, ThrustSteered
<1> QED
  BY <1>1, <1>2 DEF DapStep

\* One run of the burn hook: either the target is not reached and the burn
\* goes on, or everything is let go.
LEMMA WatchEffect ==
  ASSUME BurnTypeOK, burn.active, StillToGain, Watch
  PROVE  /\ burn' \in Burns
         /\ burn'.armed = burn.armed
         /\ \/ /\ burn'.active /\ burn'.toGo > 0
               /\ UNCHANGED <<engine, servicerExit, dapMode>>
            \/ /\ ~burn'.active
               /\ engine' = FALSE
               /\ servicerExit' = "none"
               /\ dapMode' = "Attitude"
<1>1. PICK left \in LeftAfterCycle :
        IF left > 0
        THEN /\ burn' = [burn EXCEPT !.toGo = left]
             /\ UNCHANGED <<engine, servicerExit, dapMode>>
        ELSE /\ burn' = [burn EXCEPT !.toGo = 0, !.active = FALSE]
             /\ engine' = FALSE
             /\ servicerExit' = "none"
             /\ dapMode' = "Attitude"
  BY DEF Watch
<1>2. burn \in Burns /\ left \in 0 .. BurnCycles
  BY BurnAssumption DEF BurnAssumption, BurnTypeOK, StillToGain, Burns, LeftAfterCycle
<1>3. CASE left > 0
  BY <1>1, <1>2, <1>3 DEF Burns
<1>4. CASE ~ left > 0
  <2>1. burn' = [burn EXCEPT !.toGo = 0, !.active = FALSE]
    BY <1>1, <1>4
  <2>2. 0 \in 0 .. BurnCycles
    BY BurnAssumption DEF BurnAssumption
  <2>3. burn' = [active |-> FALSE, armed |-> burn.armed,
                 tig |-> burn.tig, toGo |-> 0]
    BY <1>2, <2>1, Zenon DEF Burns
  <2>4. burn' \in Burns /\ ~burn'.active /\ burn'.armed = burn.armed
    BY <1>2, <2>2, <2>3 DEF Burns
  <2> QED
    BY <1>1, <1>4, <2>4
<1> QED
  BY <1>3, <1>4

\* The exit hook as a whole.
LEMMA ExitHookEffect ==
  ASSUME BurnTypeOK, StillToGain, ExitHook
  PROVE  /\ burn' \in Burns
         /\ burn'.armed = burn.armed
         /\ StillToGain'
         /\ \/ /\ burn'.active = burn.active
               /\ UNCHANGED <<engine, servicerExit, dapMode>>
            \/ /\ servicerExit = "burn" /\ burn.active /\ ~burn'.active
               /\ engine' = FALSE
               /\ servicerExit' = "none"
               /\ dapMode' = "Attitude"
            \/ /\ servicerExit = "entry"
               /\ UNCHANGED <<burn, engine>>
               /\ servicerExit' \in {"entry", "none"}
               /\ dapMode' = "EntryRoll"
<1>1. CASE servicerExit = "burn" /\ burn.active
  BY <1>1, WatchEffect DEF ExitHook, StillToGain
<1>2. CASE servicerExit = "entry"
  BY <1>2 DEF ExitHook, Steer, StillToGain, BurnTypeOK
<1>3. CASE servicerExit # "entry" /\ ~(servicerExit = "burn" /\ burn.active)
  BY <1>3 DEF ExitHook, StillToGain, BurnTypeOK
<1> QED
  BY <1>1, <1>2, <1>3
-----------------------------------------------------------------------------
\* The invariant, one lemma per group of actions.

LEMMA BurnInitInv == Init => BurnInv
<1> SUFFICES ASSUME Init PROVE BurnInv
  OBVIOUS
<1>1. BurnTypeOK
  <2>1. time \in Times /\ chains \in 0 .. MaxChains
    BY BurnAssumption DEF BurnAssumption, Init, Times
  <2> QED
    BY <2>1, NoBurnType DEF Init, BurnTypeOK, DapModes
<1>2. StillToGain /\ Quiet /\ T5Cache
  BY NoBurnType DEF Init, StillToGain, Quiet, T5Cache
<1> QED
  BY <1>1, <1>2 DEF BurnInv

LEMMA DrainT5Inv == BurnInv /\ DrainT5 => BurnInv'
<1> SUFFICES ASSUME BurnInv, DrainT5 PROVE BurnInv'
  OBVIOUS
<1>1. BurnTypeOK /\ StillToGain /\ Quiet /\ T5Cache
  BY DEF BurnInv
<1>2. /\ dapMode' \in DapModes /\ engine' \in BOOLEAN /\ burn' \in Burns
      /\ burn'.active = burn.active /\ burn'.toGo = burn.toGo
      /\ dapMode = "Off" => dapMode' = "Off" /\ engine' = engine
  <2>1. CASE t5Pending
    BY <1>1, <2>1, DapStepEffect DEF DrainT5
  <2>2. CASE ~t5Pending
    BY <1>1, <2>2 DEF DrainT5, BurnTypeOK
  <2> QED
    BY <2>1, <2>2
<1>3. /\ t5Armed' \in BOOLEAN /\ t5Running' \in BOOLEAN
      /\ t5Armed' => t5Running'
      /\ dapMode' # "Off" => t5Armed'
  BY <1>1 DEF DrainT5, BurnTypeOK, T5Cache
<1>4. /\ phase' = "t3" /\ t5Pending' = FALSE
      /\ UNCHANGED <<majorMode, time, servicerActive, chains, servicerExit,
                     pendingManeuver, pendingV50, separation, sps>>
  BY DEF DrainT5, servicerVars, targetVars
<1>5. BurnTypeOK'
  BY <1>1, <1>2, <1>3, <1>4 DEF BurnTypeOK
<1>6. StillToGain'
  BY <1>1, <1>2 DEF StillToGain
<1>7. Quiet' /\ T5Cache'
  BY <1>1, <1>2, <1>3, <1>4 DEF Quiet, T5Cache
<1> QED
  BY <1>5, <1>6, <1>7 DEF BurnInv

LEMMA ExpireT5Inv == BurnInv /\ ExpireT5 => BurnInv'
<1> SUFFICES ASSUME BurnInv, ExpireT5 PROVE BurnInv'
  OBVIOUS
<1>1. BurnTypeOK'
  <2>1. BurnTypeOK
    BY DEF BurnInv
  <2>2. /\ t5Running' = FALSE
        /\ t5Pending' = TRUE
        /\ UNCHANGED <<phase, majorMode, time, servicerActive, chains,
                       servicerExit, burn, pendingManeuver, pendingV50,
                       dapMode, engine, separation, sps, t5Armed>>
    BY DEF ExpireT5, servicerVars, targetVars
  <2>3. /\ phase' \in {"t5", "t3", "t4", "keys"}
        /\ majorMode' \in {"P06", "P41", "other"}
        /\ time' \in Times
        /\ servicerActive' \in BOOLEAN
        /\ chains' \in 0 .. MaxChains
    BY <2>1, <2>2 DEF BurnTypeOK
  <2>4. /\ servicerExit' \in {"none", "burn", "monitor", "entry"}
        /\ burn' \in Burns
        /\ pendingManeuver' \in Maneuver \cup {NoManeuver}
        /\ pendingV50' \in BOOLEAN
        /\ dapMode' \in DapModes
    BY <2>1, <2>2 DEF BurnTypeOK
  <2>5. /\ engine' \in BOOLEAN /\ separation' \in BOOLEAN
        /\ sps' \in BOOLEAN /\ t5Armed' \in BOOLEAN
    BY <2>1, <2>2 DEF BurnTypeOK
  <2>6. t5Running' \in BOOLEAN /\ t5Pending' \in BOOLEAN
    BY <2>2
  <2> QED
    BY <2>3, <2>4, <2>5, <2>6 DEF BurnTypeOK
<1>2. StillToGain' /\ Quiet'
  BY DEF BurnInv, ExpireT5, StillToGain, Quiet
<1>3. T5Cache'
  BY DEF BurnInv, ExpireT5, T5Cache, BurnTypeOK
<1> QED
  BY <1>1, <1>2, <1>3 DEF BurnInv

LEMMA DrainT3Inv == BurnInv /\ DrainT3 => BurnInv'
<1> SUFFICES ASSUME BurnInv, DrainT3 PROVE BurnInv'
  OBVIOUS
<1>1. BurnTypeOK /\ StillToGain /\ Quiet /\ T5Cache
  BY DEF BurnInv
<1>2. /\ phase' = "t4"
      /\ UNCHANGED <<majorMode, pendingManeuver, pendingV50, separation, sps,
                     t5Armed, t5Running, t5Pending>>
  BY DEF DrainT3, targetVars, t5Vars
<1>3. chains \in 1 .. MaxChains /\ chains - 1 \in 0 .. MaxChains
  BY <1>1, BurnAssumption DEF BurnAssumption, DrainT3, ServicerTask, BurnTypeOK
<1>4. CASE servicerActive
  <2>1. /\ time' \in Times /\ ExitHook
        /\ servicerActive' \in BOOLEAN
        /\ chains' = chains \/ chains' = chains - 1
    BY <1>1, <1>4 DEF DrainT3, ServicerTask, servicerVars, BurnTypeOK
  <2>2. /\ burn' \in Burns
        /\ StillToGain'
        /\ \/ UNCHANGED <<engine, servicerExit, dapMode>>
           \/ /\ servicerExit = "burn"
              /\ engine' = FALSE /\ servicerExit' = "none"
              /\ dapMode' = "Attitude"
           \/ /\ servicerExit = "entry"
              /\ engine' = engine /\ servicerExit' \in {"entry", "none"}
              /\ dapMode' = "EntryRoll"
    BY <1>1, <2>1, ExitHookEffect
  <2>3. BurnTypeOK'
    <3>1. chains' \in 0 .. MaxChains
      BY <1>1, <1>3, <2>1 DEF BurnTypeOK
    <3>2. /\ engine' \in BOOLEAN
          /\ servicerExit' \in {"none", "burn", "monitor", "entry"}
          /\ dapMode' \in DapModes
      BY <1>1, <2>2 DEF BurnTypeOK, DapModes
    <3> QED
      BY <1>1, <1>2, <2>1, <2>2, <3>1, <3>2 DEF BurnTypeOK
  <2>4. Quiet' /\ T5Cache'
    BY <1>1, <1>2, <2>2 DEF Quiet, T5Cache
  <2> QED
    BY <2>2, <2>3, <2>4 DEF BurnInv
<1>5. CASE ~servicerActive
  <2>1. /\ chains' = chains - 1
        /\ UNCHANGED <<time, burn, engine, servicerExit, dapMode, servicerActive>>
    BY <1>5 DEF DrainT3, ServicerTask
  <2>2. BurnTypeOK'
    BY <1>1, <1>2, <1>3, <2>1 DEF BurnTypeOK
  <2>3. StillToGain' /\ Quiet' /\ T5Cache'
    BY <1>1, <1>2, <2>1 DEF StillToGain, Quiet, T5Cache
  <2> QED
    BY <2>2, <2>3 DEF BurnInv
<1> QED
  BY <1>4, <1>5

LEMMA RestOfLoopInv == BurnInv /\ (SkipT3 \/ DrainT4 \/ Staging) => BurnInv'
<1> SUFFICES ASSUME BurnInv, SkipT3 \/ DrainT4 \/ Staging PROVE BurnInv'
  OBVIOUS
<1>1. BurnTypeOK /\ StillToGain /\ Quiet /\ T5Cache
  BY DEF BurnInv
<1>2. BurnTypeOK'
  <2>1. /\ phase' \in {"t5", "t3", "t4", "keys"}
        /\ time' \in Times /\ separation' \in BOOLEAN /\ sps' \in BOOLEAN
    BY <1>1 DEF SkipT3, DrainT4, Staging, BurnTypeOK
  <2>2. UNCHANGED <<majorMode, servicerActive, chains, servicerExit, burn,
                    pendingManeuver, pendingV50, dapMode, engine, t5Armed,
                    t5Running, t5Pending>>
    BY DEF SkipT3, DrainT4, Staging, servicerVars, targetVars, t5Vars
  <2> QED
    BY <1>1, <2>1, <2>2 DEF BurnTypeOK
<1>3. StillToGain' /\ Quiet' /\ T5Cache'
  BY <1>1 DEF SkipT3, DrainT4, Staging, StillToGain, Quiet, T5Cache, t5Vars
<1> QED
  BY <1>2, <1>3 DEF BurnInv

\* What the keys do.
LEMMA CrewInv == BurnInv /\ Crew => BurnInv'
<1> SUFFICES ASSUME BurnInv, Crew PROVE BurnInv'
  OBVIOUS
<1>1. BurnTypeOK /\ StillToGain /\ Quiet /\ T5Cache
  BY DEF BurnInv
<1>2. /\ phase = "keys" /\ phase' = "keys"
      /\ UNCHANGED <<sps, t5Armed, t5Running, t5Pending>>
      /\ separation' \in BOOLEAN
  <2>1. CASE InKeys
    BY <1>1, <2>1 DEF InKeys, AtKeys, t5Vars, BurnTypeOK
  <2>2. CASE AtKeys /\ separation' \in BOOLEAN
    BY <2>2 DEF AtKeys, t5Vars
  <2> QED
    BY <2>1, <2>2 DEF Crew, EstablishServicer, Engage, SelectP40, SelectP41, Proceed,
       SelectP00, SelectP06, SelectMonitor, SelectP30, SelectTargeting, SelectP37,
       SelectP62, SelectP63, SelectOther, CislunarManeuver,
       LoadManeuver, SetClock, FreshStart, Restart
<1>3. T5Cache'
  BY <1>1, <1>2 DEF T5Cache
<1> SUFFICES BurnTypeOK' /\ StillToGain' /\ Quiet'
  BY <1>3 DEF BurnInv
<1>4. CASE EstablishServicer
  <2>1. servicerActive' \in BOOLEAN /\ chains' \in 0 .. MaxChains
    BY <1>1, <1>4, StartServicerEffect DEF EstablishServicer
  <2>2. UNCHANGED <<majorMode, time, servicerExit, burn, pendingManeuver,
                    pendingV50, dapMode, engine>>
    BY <1>4 DEF EstablishServicer, targetVars
  <2> QED
    BY <1>1, <1>2, <2>1, <2>2 DEF BurnTypeOK, StillToGain, Quiet
<1>5. CASE Engage
  <2>1. /\ servicerActive' \in BOOLEAN /\ chains' \in 0 .. MaxChains
    BY <1>1, <1>5, StartServicerEffect DEF Engage, SelectP40, SelectP41, EngageBurn
  <2>2. pendingManeuver \in Maneuver
    BY <1>1, <1>5 DEF Engage, SelectP40, SelectP41, Valid, BurnTypeOK, NoManeuver
  <2>3. /\ burn' \in Burns /\ burn'.toGo > 0
        /\ pendingManeuver' = NoManeuver
        /\ servicerExit' = "burn"
    BY <1>5, <2>2, BurnInitType DEF Engage, SelectP40, SelectP41, EngageBurn
  <2>4. /\ majorMode' \in {"P41", "other"}
        /\ dapMode' = "Attitude"
        /\ pendingV50' \in BOOLEAN
        /\ UNCHANGED <<time, engine>>
    BY <1>1, <1>5 DEF Engage, SelectP40, SelectP41, BurnTypeOK
  <2> QED
    BY <1>1, <1>2, <2>1, <2>3, <2>4
    DEF BurnTypeOK, StillToGain, Quiet, DapModes
<1>6. CASE Proceed
  <2>1. burn \in Burns /\ burn' = [burn EXCEPT !.armed = TRUE]
    BY <1>1, <1>6 DEF Proceed, BurnTypeOK
  <2>2. burn' \in Burns /\ burn'.active = burn.active /\ burn'.toGo = burn.toGo
    BY <2>1 DEF Burns
  <2>3. /\ pendingV50' = FALSE
        /\ UNCHANGED <<majorMode, time, servicerActive, chains, servicerExit,
                       pendingManeuver, dapMode, engine>>
    BY <1>6 DEF Proceed, servicerVars
  <2>4. BurnTypeOK'
    BY <1>1, <1>2, <2>2, <2>3 DEF BurnTypeOK
  <2> QED
    BY <1>1, <1>2, <2>2, <2>3, <2>4 DEF StillToGain, Quiet
<1>7. CASE SelectP00
  <2>1. burn' \in Burns /\ ~burn'.active
    BY <1>1, <1>7 DEF SelectP00, BurnTypeOK, Burns
  <2>2. dapMode' \in DapModes /\ majorMode' = "other" /\ engine' = FALSE
        /\ servicerExit' = "none"
    BY <1>7 DEF SelectP00, DapModes
  <2>3. UNCHANGED <<time, servicerActive, chains, pendingManeuver, pendingV50>>
    BY <1>7 DEF SelectP00, servicerVars, targetVars
  <2>4. BurnTypeOK'
    BY <1>1, <1>2, <2>1, <2>2, <2>3 DEF BurnTypeOK
  <2> QED
    BY <2>1, <2>2, <2>4 DEF StillToGain, Quiet
<1>8. CASE SelectP06
  <2>1. burn' \in Burns /\ ~burn'.active
    BY <1>1, <1>8 DEF SelectP06, BurnTypeOK, Burns
  <2>2. /\ majorMode' = "P06" /\ servicerActive' = FALSE /\ servicerExit' = "none"
        /\ dapMode' = "Off" /\ pendingManeuver' = NoManeuver /\ engine' = FALSE
        /\ UNCHANGED <<time, chains, pendingV50>>
    BY <1>8 DEF SelectP06
  <2>3. BurnTypeOK'
    BY <1>1, <1>2, <2>1, <2>2 DEF BurnTypeOK, DapModes
  <2> QED
    BY <1>1, <1>2, <2>1, <2>2, <2>3 DEF StillToGain, Quiet
<1>9. CASE SelectMonitor \/ SelectP63
  BY <1>1, <1>2, <1>9
  DEF SelectMonitor, SelectP63, BurnTypeOK, StillToGain, Quiet, servicerVars,
      targetVars
<1>10. CASE SelectP62
  <2>1. /\ majorMode' = "other" /\ pendingManeuver' = NoManeuver
        /\ dapMode' = "Attitude"
        /\ UNCHANGED <<time, servicerActive, chains, servicerExit, burn,
                       pendingV50, engine>>
    BY <1>10 DEF SelectP62, servicerVars
  <2>2. BurnTypeOK'
    BY <1>1, <1>2, <2>1 DEF BurnTypeOK, DapModes
  <2> QED
    BY <1>1, <2>1, <2>2 DEF StillToGain, Quiet
<1>11. CASE SelectP30 \/ SelectTargeting \/ SelectP37 \/ SelectOther
  <2>1. /\ majorMode' = "other"
        /\ pendingManeuver' \in Maneuver \cup {NoManeuver}
    BY <1>1, <1>11 DEF SelectP30, SelectTargeting, SelectP37, SelectOther,
       targetVars, BurnTypeOK
  <2>2. UNCHANGED <<time, servicerActive, chains, servicerExit, burn, pendingV50,
                    dapMode, engine>>
    BY <1>11 DEF SelectP30, SelectTargeting, SelectP37, SelectOther, servicerVars,
       targetVars
  <2>3. BurnTypeOK'
    BY <1>1, <1>2, <2>1, <2>2 DEF BurnTypeOK
  <2> QED
    BY <1>1, <2>1, <2>2, <2>3 DEF StillToGain, Quiet
<1>12. CASE \E m \in Maneuver \cup {NoManeuver} : LoadManeuver(m)
  BY <1>1, <1>2, <1>12 DEF LoadManeuver, BurnTypeOK, StillToGain, Quiet, servicerVars
<1>13. CASE \E t \in Times : SetClock(t)
  BY <1>1, <1>2, <1>13
  DEF SetClock, BurnTypeOK, StillToGain, Quiet, servicerVars, targetVars
<1>14. CASE FreshStart
  <2>1. time' \in Times /\ chains' \in 0 .. MaxChains
    BY <1>14, BurnAssumption DEF BurnAssumption, FreshStart, Times
  <2>2. BurnTypeOK'
    BY <1>1, <1>2, <1>14, <2>1, NoBurnType DEF FreshStart, BurnTypeOK, DapModes
  <2> QED
    BY <1>14, <2>2, NoBurnType DEF FreshStart, StillToGain, Quiet
<1>15. CASE Restart
  <2>1. chains' \in 0 .. MaxChains
    BY <1>15, BurnAssumption DEF BurnAssumption, Restart
  <2>2. dapMode' = "Off"
        /\ UNCHANGED <<majorMode, time, servicerActive, servicerExit, burn,
                       pendingManeuver, pendingV50, engine>>
    BY <1>15 DEF Restart, targetVars
  <2>3. BurnTypeOK'
    BY <1>1, <1>2, <2>1, <2>2 DEF BurnTypeOK, DapModes
  <2> QED
    BY <1>1, <1>2, <2>2, <2>3 DEF StillToGain, Quiet
<1>16. CASE CislunarManeuver
  <2>1. /\ dapMode' \in DapModes
        /\ dapMode = "Off" => dapMode' = "Off"
        /\ UNCHANGED <<majorMode, time, servicerActive, chains, servicerExit, burn,
                       pendingManeuver, pendingV50, engine>>
    BY <1>16 DEF CislunarManeuver, DapModes, servicerVars, targetVars
  <2>2. BurnTypeOK'
    BY <1>1, <1>2, <2>1 DEF BurnTypeOK
  <2> QED
    BY <1>1, <1>2, <2>1, <2>2 DEF StillToGain, Quiet
<1> QED
  BY <1>4, <1>5, <1>6, <1>7, <1>8, <1>9, <1>10, <1>11, <1>12, <1>13, <1>14, <1>15, <1>16
  DEF Crew

LEMMA BurnStepInv == BurnInv /\ [Next]_burnVars => BurnInv'
<1> SUFFICES ASSUME BurnInv, [Next]_burnVars PROVE BurnInv'
  OBVIOUS
<1>1. CASE LoopStep
  BY <1>1, DrainT5Inv, DrainT3Inv, RestOfLoopInv DEF LoopStep
<1>2. CASE UNCHANGED burnVars
  <2>1. BurnTypeOK'
    BY <1>2 DEF BurnInv, burnVars, BurnTypeOK
  <2>2. StillToGain' /\ Quiet' /\ T5Cache'
    BY <1>2 DEF BurnInv, burnVars, StillToGain, Quiet, T5Cache
  <2> QED
    BY <2>1, <2>2 DEF BurnInv
<1> QED
  BY <1>1, <1>2, ExpireT5Inv, CrewInv DEF Next

-----------------------------------------------------------------------------

LEMMA BurnInvHolds == Spec => []BurnInv
  BY BurnInitInv, BurnStepInv, PTL DEF Spec

\* Every burn variable keeps its type: in particular a burn's delta-V to go
\* is never taken below zero and the waitlist never exceeds its capacity.
THEOREM BurnTypeCorrect == Spec => []BurnTypeOK
<1>1. BurnInv => BurnTypeOK
  BY DEF BurnInv
<1> QED
  BY <1>1, BurnInvHolds, PTL

\* P06 leaves `armed` and the engine-arm request set, yet nothing can light
\* the SPS in standby.
THEOREM StandbyAlwaysSafe == Spec => []StandbyIsSafe
<1>1. BurnInv => StandbyIsSafe
  BY DEF BurnInv, Quiet, StandbyIsSafe
<1> QED
  BY <1>1, BurnInvHolds, PTL

\* run's t5_armed flag never goes stale in a way that stops the autopilot.
THEOREM AutopilotNeverStalls == Spec => []AutopilotAlive
<1>1. BurnInv => AutopilotAlive
  BY DEF BurnInv, T5Cache, AutopilotAlive
<1> QED
  BY <1>1, BurnInvHolds, PTL

-----------------------------------------------------------------------------
\* The watch over the engine.

\* The loop's own steps keep the watch, the SERVICER's excepted losses apart.
LEMMA LoopKeepsWatch ==
  ASSUME BurnInv, Guarded, LoopStep, ~WatchLoss
  PROVE  Guarded'
<1>1. BurnTypeOK /\ StillToGain
  BY DEF BurnInv
<1>2. CASE DrainT5
  <2>1. /\ burn'.active = burn.active
        /\ burn'.armed => burn.armed
        /\ engine' => engine \/ burn.armed
    <3>1. CASE t5Pending
      BY <1>1, <1>2, <3>1, DapStepEffect DEF DrainT5
    <3>2. CASE ~t5Pending
      BY <1>2, <3>2 DEF DrainT5
    <3> QED
      BY <3>1, <3>2
  <2>2. UNCHANGED <<servicerActive, chains, servicerExit, pendingV50>>
    BY <1>2 DEF DrainT5, servicerVars, targetVars
  <2> QED
    BY <2>1, <2>2 DEF Guarded, ServicerQueued, Hot, Watched
<1>3. CASE DrainT3
  <2>1. CASE servicerActive
    <3>1. servicerActive' /\ chains' = chains
      BY <1>3, <2>1 DEF WatchLoss, DrainT3, ServicerTask, servicerVars
    <3>2. pendingV50' = pendingV50
      BY <1>3 DEF DrainT3, targetVars
    <3>3. burn.active /\ ~burn'.active => ~burn.armed /\ ~pendingV50
      BY <1>3 DEF WatchLoss
    <3>4. /\ burn'.armed = burn.armed
          /\ \/ /\ burn'.active = burn.active
                /\ UNCHANGED <<engine, servicerExit>>
             \/ burn.active /\ ~burn'.active /\ engine' = FALSE
             \/ servicerExit = "entry" /\ engine' = engine
      BY <1>1, <1>3, <2>1, ExitHookEffect DEF DrainT3, ServicerTask
    <3>5. ServicerQueued'
      BY <2>1, <3>1 DEF Guarded, ServicerQueued
    <3>6. CASE burn'.active = burn.active /\ UNCHANGED <<engine, servicerExit>>
      <4>1. Hot' => Hot
        BY <3>2, <3>4, <3>6 DEF Hot
      <4>2. Watched => Watched'
        BY <3>1, <3>6 DEF Watched
      <4> QED
        BY <3>5, <4>1, <4>2 DEF Guarded
    <3>7. CASE burn.active /\ ~burn'.active /\ engine' = FALSE
      <4>1. ~Hot'
        BY <3>2, <3>3, <3>4, <3>7 DEF Hot
      <4> QED
        BY <3>5, <4>1 DEF Guarded
    <3>8. CASE servicerExit = "entry" /\ engine' = engine
      <4>1. ~Hot'
        BY <3>2, <3>4, <3>8 DEF Guarded, Hot, Watched
      <4> QED
        BY <3>5, <4>1 DEF Guarded
    <3> QED
      BY <3>4, <3>6, <3>7, <3>8
  <2>2. CASE ~servicerActive
    BY <1>3, <2>2
    DEF DrainT3, ServicerTask, targetVars, Guarded, ServicerQueued, Hot, Watched
  <2> QED
    BY <2>1, <2>2
<1>4. CASE SkipT3 \/ DrainT4 \/ Staging
  BY <1>4 DEF SkipT3, DrainT4, Staging, servicerVars, targetVars, Guarded,
      ServicerQueued, Hot, Watched
<1> QED
  BY <1>2, <1>3, <1>4 DEF LoopStep

\* So do the crew's keys, the listed ones apart.
LEMMA CrewKeepsWatch ==
  ASSUME BurnInv, Guarded, Crew, ~WatchLoss
  PROVE  Guarded'
<1>1. BurnTypeOK
  BY DEF BurnInv
<1>2. CASE EstablishServicer
  <2>1. (servicerActive => servicerActive') /\ ServicerQueued'
    BY <1>1, <1>2, StartServicerEffect DEF EstablishServicer, Guarded
  <2> QED
    BY <1>2, <2>1 DEF EstablishServicer, targetVars, Guarded, Hot, Watched
<1>3. CASE Engage
  <2>1. servicerActive'
    BY <1>3 DEF WatchLoss
  <2>2. ServicerQueued'
    BY <1>1, <1>3, StartServicerEffect
    DEF Engage, SelectP40, SelectP41, EngageBurn, Guarded
  <2>3. burn' = BurnInit(pendingManeuver) /\ servicerExit' = "burn"
    BY <1>3 DEF Engage, SelectP40, SelectP41, EngageBurn
  <2> QED
    BY <2>1, <2>2, <2>3 DEF BurnInit, Guarded, Watched
<1>4. CASE Proceed
  <2>1. burn \in Burns /\ burn' = [burn EXCEPT !.armed = TRUE]
    BY <1>1, <1>4 DEF Proceed, BurnTypeOK
  <2>2. burn'.active = burn.active
    BY <2>1 DEF Burns
  <2> QED
    BY <1>4, <2>2 DEF Proceed, servicerVars, Guarded, ServicerQueued, Hot, Watched
<1>5. CASE SelectP00
  <2>1. burn'.armed = FALSE
    BY <1>1, <1>5 DEF SelectP00, BurnTypeOK, Burns
  <2> QED
    BY <1>5, <2>1
    DEF SelectP00, WatchLoss, servicerVars, targetVars, Guarded, ServicerQueued, Hot
<1>6. CASE SelectP06
  <2>1. burn'.armed = burn.armed
    BY <1>1, <1>6 DEF SelectP06, BurnTypeOK, Burns
  <2> QED
    BY <1>6, <2>1 DEF SelectP06, WatchLoss, Guarded, ServicerQueued, Hot
<1>7. CASE \/ SelectP30
           \/ SelectTargeting
           \/ SelectP37
           \/ SelectP62
           \/ SelectOther
           \/ CislunarManeuver
           \/ \E m \in Maneuver \cup {NoManeuver} : LoadManeuver(m)
           \/ \E t \in Times : SetClock(t)
  BY <1>7
  DEF SelectP30, SelectTargeting, SelectP37, SelectP62, SelectOther,
      CislunarManeuver, LoadManeuver, SetClock, servicerVars, targetVars, Guarded,
      ServicerQueued, Hot, Watched
<1>8. CASE FreshStart
  BY <1>8 DEF FreshStart, NoBurn, Guarded, ServicerQueued, Hot
<1> QED
  BY <1>2, <1>3, <1>4, <1>5, <1>6, <1>7, <1>8 DEF Crew, WatchLoss

LEMMA StepKeepsWatch ==
  BurnInv /\ [Next]_burnVars => [Guarded /\ ~WatchLoss => Guarded']_burnVars
<1> SUFFICES ASSUME BurnInv, Next, Guarded, ~WatchLoss PROVE Guarded'
  OBVIOUS
<1>1. CASE ExpireT5
  BY <1>1 DEF ExpireT5, servicerVars, targetVars, Guarded, ServicerQueued, Hot, Watched
<1> QED
  BY <1>1, LoopKeepsWatch, CrewKeepsWatch DEF Next

\* An engine that is on, armed or one PRO away from armed loses its watch by
\* the steps of WatchLoss and by no other.
THEOREM WatchOnlyLostByListedSteps == Spec => WatchLostOnlyBy
  BY BurnInvHolds, StepKeepsWatch, PTL DEF Spec, WatchLostOnlyBy

-----------------------------------------------------------------------------
\* The steering of a thrusting engine.

LEMMA StepKeepsSteering ==
  BurnInv /\ [Next]_burnVars
    => [ThrustSteered /\ ~SteeringLoss => ThrustSteered']_burnVars
<1> SUFFICES ASSUME BurnInv, Next, ThrustSteered, ~SteeringLoss PROVE ThrustSteered'
  OBVIOUS
<1>1. BurnTypeOK /\ StillToGain
  BY DEF BurnInv
<1>2. CASE DrainT5
  <2>1. CASE t5Pending
    BY <1>1, <1>2, <2>1, DapStepEffect DEF DrainT5
  <2>2. CASE ~t5Pending
    BY <1>2, <2>2 DEF DrainT5, ThrustSteered
  <2> QED
    BY <2>1, <2>2
<1>3. CASE DrainT3
  <2>1. CASE servicerActive
    <3>1. servicerExit # "entry"
      BY <1>3 DEF SteeringLoss
    <3>2. ExitHook
      BY <1>3, <2>1 DEF DrainT3, ServicerTask
    <3>3. UNCHANGED <<engine, dapMode>> \/ engine' = FALSE
      BY <1>1, <3>1, <3>2, ExitHookEffect
    <3> QED
      BY <3>3 DEF ThrustSteered
  <2>2. CASE ~servicerActive
    BY <1>3, <2>2 DEF DrainT3, ServicerTask, ThrustSteered
  <2> QED
    BY <2>1, <2>2
<1>4. CASE SkipT3 \/ DrainT4 \/ Staging \/ ExpireT5
  BY <1>4 DEF SkipT3, DrainT4, Staging, ExpireT5, ThrustSteered
<1>5. CASE SelectP00 \/ SelectP06 \/ FreshStart
  BY <1>5 DEF SelectP00, SelectP06, FreshStart, ThrustSteered
<1>6. CASE \/ EstablishServicer
           \/ Proceed
           \/ SelectMonitor
           \/ SelectP30
           \/ SelectTargeting
           \/ SelectP37
           \/ SelectP63
           \/ SelectOther
           \/ \E m \in Maneuver \cup {NoManeuver} : LoadManeuver(m)
           \/ \E t \in Times : SetClock(t)
  BY <1>6
  DEF EstablishServicer, Proceed, SelectMonitor, SelectP30, SelectTargeting, SelectP37,
      SelectP63, SelectOther, LoadManeuver, SetClock, ThrustSteered
<1> QED
  BY <1>2, <1>3, <1>4, <1>5, <1>6 DEF Next, LoopStep, Crew, SteeringLoss

\* A thrusting SPS loses its thrust-vector control by the steps of
\* SteeringLoss and by no other.
THEOREM SteeringOnlyLostByListedSteps == Spec => SteeringLostOnlyBy
  BY BurnInvHolds, StepKeepsSteering, PTL DEF Spec, SteeringLostOnlyBy

-----------------------------------------------------------------------------
\* Ignition.

\* The fairness of the loop and of the timer with the guards spelled out: an
\* iteration always has a next step, and T5 can expire while it is running.
LoopRuns == []<><<LoopStep>>_burnVars
T5Expires == []<>~t5Running \/ []<><<ExpireT5>>_burnVars

\* A burn that is armed and due, with the autopilot on.
AwaitsIgnition == burn.armed /\ TigReached /\ dapMode # "Off" /\ ~engine

\* The iteration goes round.
LEMMA PhaseSteps ==
  ASSUME [Next]_burnVars
  PROVE  /\ phase' = phase \/ LoopStep
         /\ LoopStep /\ phase = "t5" => DrainT5 /\ phase' = "t3"
         /\ LoopStep /\ phase = "t3" => phase' = "t4"
         /\ LoopStep /\ phase = "t4" => phase' = "keys"
         /\ LoopStep /\ phase = "keys" => phase' = "t5"
<1>1. CASE LoopStep
  BY <1>1 DEF LoopStep, DrainT5, DrainT3, SkipT3, DrainT4, Staging
<1>2. CASE ExpireT5 \/ UNCHANGED burnVars
  BY <1>2 DEF ExpireT5, burnVars, LoopStep, DrainT5, DrainT3, SkipT3, DrainT4, Staging
<1>3. CASE Crew
  <2>1. phase = "keys" /\ phase' = phase
    BY <1>3
    DEF Crew, EstablishServicer, Engage, SelectP40, SelectP41, Proceed, SelectP00,
        SelectP06, SelectMonitor, SelectP30, SelectTargeting, SelectP37, SelectP62,
        SelectP63, SelectOther, CislunarManeuver, LoadManeuver, SetClock, FreshStart,
        Restart, AtKeys, InKeys
  <2> QED
    BY <2>1 DEF LoopStep, DrainT5, DrainT3, SkipT3, DrainT4, Staging
<1> QED
  BY <1>1, <1>2, <1>3 DEF Next

\* Only the loop and the timer touch T5.
LEMMA T5Steps ==
  ASSUME [Next]_burnVars
  PROVE  UNCHANGED t5Vars \/ DrainT5 \/ ExpireT5
  BY DEF Next, LoopStep, DrainT3, SkipT3, DrainT4, Staging, Crew, EstablishServicer,
     Engage, SelectP40, SelectP41, Proceed, SelectP00, SelectP06, SelectMonitor,
     SelectP30, SelectTargeting, SelectP37, SelectP62, SelectP63, SelectOther,
     CislunarManeuver, LoadManeuver, SetClock, FreshStart, Restart, AtKeys, InKeys,
     burnVars, t5Vars

\* While an armed burn waits, a posted T5RUPT is kept until the cycle that
\* ignites; a running timer until it posts one; and the loop starts a timer
\* that is not.
LEMMA WaitingSteps ==
  ASSUME BurnInv, [Next]_burnVars, AwaitsIgnition, AwaitsIgnition'
  PROVE  /\ t5Pending => t5Pending' /\ ~DrainT5
         /\ t5Running => t5Running' \/ t5Pending'
         /\ DrainT5 => t5Running' \/ t5Pending'
         /\ ExpireT5 => t5Pending'
<1>1. ASSUME DrainT5 PROVE ~t5Pending /\ (t5Running' \/ t5Pending')
  <2>1. ~t5Pending
    BY <1>1 DEF DrainT5, DapStep, Ignite, AwaitsIgnition
  <2>2. (phase = "t3")' /\ dapMode' # "Off"
    BY <1>1 DEF DrainT5, AwaitsIgnition
  <2>3. T5Cache'
    BY BurnStepInv DEF BurnInv
  <2> QED
    BY <2>1, <2>2, <2>3 DEF T5Cache
<1>2. ASSUME ExpireT5 PROVE t5Pending'
  BY <1>2 DEF ExpireT5
<1> QED
  BY <1>1, <1>2, T5Steps DEF t5Vars

\* An armed burn whose ignition time has come is ignited, or disarmed, or the
\* clock is set back, or the autopilot turned off: T5 is rearmed or posted
\* whatever P06, RESTART and P40 did to it before, and the next cycle ignites.
THEOREM ArmedBurnIgnites == Spec /\ LoopRuns /\ T5Expires => IgnitionFollows
<1>1. BurnInv => phase = "t5" \/ phase = "t3" \/ phase = "t4" \/ phase = "keys"
  BY DEF BurnInv, BurnTypeOK
<1>2. [Next]_burnVars =>
        /\ LoopStep \/ (phase = "t5" => (phase = "t5")')
        /\ LoopStep \/ (phase = "t3" => (phase = "t3")')
        /\ LoopStep \/ (phase = "t4" => (phase = "t4")')
        /\ LoopStep \/ (phase = "keys" => (phase = "keys")')
        /\ LoopStep /\ phase = "t5" => DrainT5
        /\ LoopStep /\ phase = "t3" => (phase = "t4")'
        /\ LoopStep /\ phase = "t4" => (phase = "keys")'
        /\ LoopStep /\ phase = "keys" => (phase = "t5")'
  BY PhaseSteps
<1>3. BurnInv /\ [Next]_burnVars /\ AwaitsIgnition /\ AwaitsIgnition' =>
        /\ t5Pending => t5Pending' /\ ~DrainT5
        /\ t5Running => t5Running' \/ t5Pending'
        /\ DrainT5 => t5Running' \/ t5Pending'
        /\ ExpireT5 => t5Pending'
  BY WaitingSteps
<1>4. <<LoopStep>>_burnVars => LoopStep
  OBVIOUS
<1>5. <<ExpireT5>>_burnVars => ExpireT5
  OBVIOUS
<1>6. [][Next]_burnVars /\ []BurnInv /\ LoopRuns /\ T5Expires =>
        ~ <>[]AwaitsIgnition
  BY <1>1, <1>2, <1>3, <1>4, <1>5, PTL DEF LoopRuns, T5Expires
<1>7. engine \/ ~burn.armed \/ ~TigReached \/ dapMode = "Off" <=> ~AwaitsIgnition
  BY DEF AwaitsIgnition
<1> QED
  BY <1>6, <1>7, BurnInvHolds, PTL DEF Spec, IgnitionFollows

-----------------------------------------------------------------------------
\* Cut-off.

\* The fairness of the SERVICER with its guard spelled out.
ServicerServed ==
  []<>(phase = "t3" /\ chains > 0) => []<><<DrainT3>>_burnVars

WatchedThrust == engine /\ Guarded

LEMMA WatchedThrustIs ==
  ASSUME BurnInv, WatchedThrust
  PROVE  /\ engine /\ burn.active /\ servicerExit = "burn" /\ servicerActive
         /\ chains > 0
         /\ burn.toGo \in 1 .. BurnCycles
  BY BurnAssumption
  DEF BurnAssumption, WatchedThrust, Guarded, Hot, Watched, ServicerQueued, BurnInv,
      BurnTypeOK, Burns, StillToGain

\* Every SERVICER cycle with the SPS on brings the target nearer, and no other
\* step but a new burn takes it away.
ToGoFalls == burn'.toGo < burn.toGo
ToGoKept == burn'.toGo <= burn.toGo

LEMMA WatchedSteps ==
  ASSUME BurnInv, [Next]_burnVars, WatchedThrust, WatchedThrust'
  PROVE  /\ Engage \/ ToGoKept
         /\ sps => sps'
         /\ Staging => sps'
         /\ DrainT3 /\ sps => ToGoFalls
<1>1. /\ engine /\ burn.active /\ servicerExit = "burn" /\ servicerActive
      /\ burn.toGo \in 1 .. BurnCycles /\ BurnCycles \in Nat
  BY WatchedThrustIs, BurnAssumption DEF BurnAssumption
<1>2. engine' /\ burn'.active
  BY BurnStepInv DEF WatchedThrust, Guarded, Hot, Watched
<1>3. burn \in Burns
  BY DEF BurnInv, BurnTypeOK
<1>4. Staging => burn' = burn /\ sps'
  BY <1>1 DEF Staging
<1>5. ASSUME DrainT3 PROVE ToGoKept /\ (sps => sps' /\ ToGoFalls)
  <2>1. Watch /\ sps' = sps
    BY <1>1, <1>5 DEF DrainT3, ServicerTask, ExitHook
  <2>2. PICK left \in LeftAfterCycle : left > 0 /\ burn' = [burn EXCEPT !.toGo = left]
    BY <1>2, <1>3, <2>1 DEF Watch, Burns
  <2>3. burn'.toGo = left /\ left <= burn.toGo /\ (sps => left < burn.toGo)
    BY <1>1, <1>3, <2>2 DEF LeftAfterCycle, Burns
  <2> QED
    BY <2>1, <2>3 DEF ToGoKept, ToGoFalls
<1>6. CASE DrainT5
  <2>1. burn'.toGo = burn.toGo /\ sps' = sps
    BY <1>3, <1>6 DEF DrainT5, DapStep, Ignite, Burns
  <2> QED
    BY <1>1, <1>4, <1>5, <2>1 DEF ToGoKept
<1>7. CASE SkipT3 \/ DrainT4 \/ ExpireT5 \/ UNCHANGED burnVars
  <2>1. burn' = burn /\ sps' = sps
    BY <1>7 DEF SkipT3, DrainT4, ExpireT5, burnVars
  <2> QED
    BY <1>1, <1>4, <1>5, <2>1 DEF ToGoKept
<1>8. CASE Crew
  <2>1. sps' = sps
    BY <1>8
    DEF Crew, EstablishServicer, Engage, SelectP40, SelectP41, Proceed, SelectP00,
        SelectP06, SelectMonitor, SelectP30, SelectTargeting, SelectP37, SelectP62,
        SelectP63, SelectOther, CislunarManeuver, LoadManeuver, SetClock, FreshStart,
        Restart, AtKeys, InKeys
  <2>2. Engage \/ burn'.toGo = burn.toGo
    BY <1>2, <1>3, <1>8
    DEF Crew, EstablishServicer, Proceed, SelectP00, SelectP06, SelectMonitor,
        SelectP30, SelectTargeting, SelectP37, SelectP62, SelectP63, SelectOther,
        CislunarManeuver, LoadManeuver, SetClock, FreshStart, Restart, AtKeys, InKeys,
        Burns
  <2> QED
    BY <1>1, <1>4, <1>5, <2>1, <2>2 DEF ToGoKept
<1>9. CASE Staging
  <2>1. burn' = burn /\ sps'
    BY <1>4, <1>9
  <2>2. ToGoKept
    BY <1>1, <2>1 DEF ToGoKept
  <2> QED
    BY <1>5, <2>1, <2>2
<1> QED
  BY <1>4, <1>5, <1>6, <1>7, <1>8, <1>9 DEF Next, LoopStep

\* An engine that would burn on although it is watched, and although the crew
\* engages no new burn, brings the target nearer over and over and never
\* farther away.
TargetNearsForever ==
  <>[][ToGoKept]_burnVars /\ []<><<ToGoFalls>>_burnVars

\* A watched engine is cut off, or burn.toGo falls for ever: no cycle of a
\* watched burn is lost to the keys, RESTART or P06.
LEMMA WatchedThrustNearsTarget ==
  Spec /\ LoopRuns /\ ServicerServed => CutoffFollows \/ TargetNearsForever
<1>1. BurnInv => phase = "t5" \/ phase = "t3" \/ phase = "t4" \/ phase = "keys"
  BY DEF BurnInv, BurnTypeOK
<1>2. [Next]_burnVars =>
        /\ LoopStep \/ (phase = "t5" => (phase = "t5")')
        /\ LoopStep \/ (phase = "t3" => (phase = "t3")')
        /\ LoopStep \/ (phase = "t4" => (phase = "t4")')
        /\ LoopStep \/ (phase = "keys" => (phase = "keys")')
        /\ LoopStep /\ phase = "t5" => (phase = "t3")'
        /\ LoopStep /\ phase = "t3" => (phase = "t4")'
        /\ LoopStep /\ phase = "t4" => (phase = "keys")'
        /\ LoopStep /\ phase = "keys" => Staging /\ (phase = "t5")'
  BY PhaseSteps DEF LoopStep, DrainT5, DrainT3, SkipT3, DrainT4, Staging
<1>3. BurnInv /\ [Next]_burnVars /\ WatchedThrust /\ WatchedThrust' =>
        /\ Engage \/ ToGoKept
        /\ sps => sps'
        /\ Staging => sps'
        /\ DrainT3 /\ sps => ToGoFalls
  BY WatchedSteps
<1>4. BurnInv /\ WatchedThrust => chains > 0
  BY WatchedThrustIs
<1>5. BurnInv /\ UNCHANGED burnVars => ~ToGoFalls
  BY DEF burnVars, ToGoFalls, BurnInv, BurnTypeOK, Burns
<1>6. ~engine \/ ~Guarded <=> ~WatchedThrust
  BY DEF WatchedThrust
<1>7. <<DrainT3>>_burnVars => DrainT3
  OBVIOUS
<1>8. <<LoopStep>>_burnVars => LoopStep
  OBVIOUS
<1>9. [][Next]_burnVars /\ []BurnInv /\ LoopRuns /\ ServicerServed /\ <>[]WatchedThrust =>
        <>[]sps /\ []<><<DrainT3>>_burnVars
  BY <1>1, <1>2, <1>3, <1>4, <1>7, <1>8, PTL DEF LoopRuns, ServicerServed
<1>10. [][Next]_burnVars /\ []BurnInv /\ <>[]WatchedThrust /\ <>[]sps
         /\ []<><<DrainT3>>_burnVars => []<><<ToGoFalls>>_burnVars
  BY <1>3, <1>5, <1>7, PTL
<1>11. [][Next]_burnVars /\ []BurnInv /\ <>[]WatchedThrust /\ <>[][~Engage]_burnVars =>
         <>[][ToGoKept]_burnVars
  BY <1>3, <1>5, PTL
<1>12. ~CutoffFollows => <>[][~Engage]_burnVars /\ <>[]WatchedThrust
  BY <1>6, PTL DEF CutoffFollows
<1> QED
  BY <1>9, <1>10, <1>11, <1>12, BurnInvHolds, PTL DEF Spec, TargetNearsForever

\* A number that never rises settles in the upper or the lower half of the
\* values it can still have, and so on down to one value.
ToGoIn(a, w) == <>[](a <= burn.toGo /\ burn.toGo < a + w)
ToGoWithin(w) == \E a \in Nat : ToGoIn(a, w)
ToGoOnlyFalls == [](burn.toGo \in Nat) /\ <>[][ToGoKept]_burnVars

LEMMA ToGoNarrows ==
  ASSUME NEW a \in Nat, NEW w \in Nat
  PROVE  ToGoOnlyFalls /\ ToGoIn(a, 2 * w) => ToGoIn(a, w) \/ ToGoIn(a + w, w)
<1>1. burn.toGo \in Nat /\ (burn.toGo \in Nat)' /\ [ToGoKept]_burnVars
        /\ burn.toGo < a + w => (burn.toGo < a + w)'
  BY DEF ToGoKept, burnVars
<1>2. burn.toGo \in Nat /\ a <= burn.toGo /\ burn.toGo < a + 2 * w
        => burn.toGo < a + w \/ (a + w <= burn.toGo /\ burn.toGo < (a + w) + w)
  OBVIOUS
<1> QED
  BY <1>1, <1>2, PTL DEF ToGoIn, ToGoOnlyFalls

LEMMA ToGoHalves ==
  ASSUME NEW w \in Nat
  PROVE  ToGoOnlyFalls /\ ToGoWithin(2 * w) => ToGoWithin(w)
<1> SUFFICES ASSUME ToGoOnlyFalls, ToGoWithin(2 * w) PROVE ToGoWithin(w)
  OBVIOUS
<1>1. PICK a \in Nat : ToGoIn(a, 2 * w)
  BY DEF ToGoWithin
<1>2. ToGoIn(a, w) \/ ToGoIn(a + w, w)
  BY <1>1, ToGoNarrows
<1>3. a + w \in Nat
  OBVIOUS
<1> QED
  BY <1>2, <1>3 DEF ToGoWithin

LEMMA ToGoSettles ==
  ToGoOnlyFalls /\ ToGoWithin(65536) => ToGoWithin(1)
<1> SUFFICES ASSUME ToGoOnlyFalls, ToGoWithin(65536) PROVE ToGoWithin(1)
  OBVIOUS
<1>1. \A w \in Nat : ToGoWithin(2 * w) => ToGoWithin(w)
  BY ToGoHalves
<1>2. ToGoWithin(4096)
  BY <1>1, 65536 = 2 * 32768, 32768 = 2 * 16384, 16384 = 2 * 8192, 8192 = 2 * 4096
<1>3. ToGoWithin(256)
  BY <1>1, <1>2, 4096 = 2 * 2048, 2048 = 2 * 1024, 1024 = 2 * 512, 512 = 2 * 256
<1>4. ToGoWithin(16)
  BY <1>1, <1>3, 256 = 2 * 128, 128 = 2 * 64, 64 = 2 * 32, 32 = 2 * 16
<1> QED
  BY <1>1, <1>4, 16 = 2 * 8, 8 = 2 * 4, 4 = 2 * 2, 2 = 2 * 1

\* A watched engine is cut off, if the crew engages no new burn for ever: the
\* watch is never lost to a full list, P06, RESTART or the order of the keys.
\* The length of a burn is that of less than 65536 cycles, a day and a half.
THEOREM WatchedThrustIsCutOff ==
  ASSUME BurnCycles < 65536
  PROVE  Spec /\ LoopRuns /\ ServicerServed => CutoffFollows
<1>1. BurnInv => burn.toGo \in Nat /\ 0 <= burn.toGo /\ burn.toGo < 0 + 65536
  BY BurnAssumption DEF BurnAssumption, BurnInv, BurnTypeOK, Burns
<1>2. []BurnInv /\ TargetNearsForever => ToGoOnlyFalls /\ ToGoIn(0, 65536)
  BY <1>1, PTL DEF TargetNearsForever, ToGoOnlyFalls, ToGoIn
<1>3. ToGoIn(0, 65536) => ToGoWithin(65536)
  BY DEF ToGoWithin
<1>4. ASSUME NEW a \in Nat
      PROVE  ToGoOnlyFalls /\ ToGoIn(a, 1) => ~TargetNearsForever
  <2>1. burn.toGo \in Nat /\ (burn.toGo \in Nat)' /\ a <= burn.toGo /\ burn.toGo < a + 1
          /\ (a <= burn.toGo)' /\ (burn.toGo < a + 1)' => ~ToGoFalls
    BY DEF ToGoFalls
  <2> QED
    BY <2>1, PTL DEF ToGoOnlyFalls, ToGoIn, TargetNearsForever
<1>5. ToGoOnlyFalls /\ ToGoWithin(1) => ~TargetNearsForever
  BY <1>4 DEF ToGoWithin
<1> QED
  BY <1>2, <1>3, <1>5, ToGoSettles, BurnInvHolds, WatchedThrustNearsTarget
=============================================================================
