----------------------------- MODULE NavCycles -----------------------------
(***************************************************************************)
(* The programs that live on the waitlist, composed with RunLoop: the      *)
(* Average-G SERVICER (services/average_g.rs) and the self-rescheduling    *)
(* cycles of P02, P20, P22 and P23 (agc-core/src/programs), driven by the  *)
(* crew's verbs: V37 program selection, V46, V36 FRESH START, V69 RESTART. *)
(*                                                                         *)
(* Every task here keeps itself alive: its body schedules it again.  What  *)
(* ends such a chain is the major mode (for the programs) or a flag (for   *)
(* SERVICER), both changed by key handlers while an entry is pending; no   *)
(* handler removes an entry from the list.                                 *)
(*                                                                         *)
(* A key handler runs in phase "work", a task's body in phase "task"; each *)
(* handler is one action.  Navigation data is abstracted to the outcome of *)
(* the tests made on it: a precondition holds or not, P02 has converged or *)
(* not.                                                                    *)
(***************************************************************************)
EXTENDS RunLoop

CONSTANT Period   \* the delay each task is scheduled with: 200 cs for
                  \* SERVICER, P20 and P22, 500 for P02, 1000 for P23

ASSUME NavAssumption ==
  /\ Tasks \subseteq {"servicer", "p02", "p20", "p22", "p23"}
  /\ "servicer" \in Tasks
  /\ Period \in [Tasks -> TaskDelays \cap WorkDelays]

VARIABLES
  majorMode,        \* AgcState::major_mode
  servicerActive,   \* the SERVICER_ACTIVE bit of flagword 0
  running           \* the popped task whose body has still to run

navVars == <<waitlist, t3, t3Pending, lastArmed, next, phase,
             majorMode, servicerActive, running>>

\* The task that each major mode keeps alive.
ModeOf == [p02 |-> 2, p20 |-> 20, p22 |-> 22, p23 |-> 23]

Idle == "none"    \* no body left to run

Pending(t) == \E i \in 1 .. Len(waitlist) : waitlist[i].task = t

\* waitlist.schedule(Period[t], t), and the caller's ScheduleResult.
Request(t) == waitlist' \in Schedule(waitlist, Period[t], t)
Refused == IsFull(waitlist)

-----------------------------------------------------------------------------

\* Boot: FRESH START, or RESTART of a state that the reset has just
\* re-initialised, then start_servicer; run() arms T3.
NavInit ==
  /\ waitlist \in Schedule(<<>>, Period["servicer"], "servicer")
  /\ t3 = ArmT3(FrontDelta(waitlist))
  /\ t3Pending = FALSE
  /\ lastArmed = FrontDelta(waitlist)
  /\ next = None
  /\ phase = "t3"
  /\ majorMode = 0
  /\ servicerActive = TRUE
  /\ running = Idle

\* What a key handler leaves alone.
InWork ==
  /\ phase = "work"
  /\ UNCHANGED <<t3, t3Pending, lastArmed, next, phase, running>>

\* Wrong on purpose: a full list leaves the flag up.
StartServicerKeepsFlag ==
  /\ InWork
  /\ ~servicerActive
  /\ Request("servicer")
  /\ servicerActive' = TRUE
  /\ UNCHANGED majorMode

\* Wrong on purpose: a SERVICER that runs is started again.
StartServicerAgain ==
  /\ InWork
  /\ Request("servicer")
  /\ servicerActive' = ~Refused
  /\ UNCHANGED majorMode

\* V46, start_servicer: nothing if the flag is up; a full list rolls it back.
StartServicer ==
  /\ InWork
  /\ ~servicerActive
  /\ Request("servicer")
  /\ servicerActive' = ~Refused
  /\ UNCHANGED majorMode

\* V37E00E.  P00 leaves SERVICER alone.
SelectP00 ==
  /\ InWork
  /\ majorMode' = 0
  /\ UNCHANGED <<waitlist, servicerActive>>

\* Wrong on purpose: the stopped SERVICER's entries are cut out of the chain,
\* and their deltas with them.
SelectP06CutsEntries ==
  /\ InWork
  /\ majorMode' = 6
  /\ servicerActive' = FALSE
  /\ waitlist' = SelectSeq(waitlist, LAMBDA e : e.task # "servicer")

\* V37E06E: stop_servicer lowers the flag and leaves the entry in the list.
SelectP06 ==
  /\ InWork
  /\ majorMode' = 6
  /\ servicerActive' = FALSE
  /\ UNCHANGED waitlist

\* V37E02E.  P02 ignores the ScheduleResult.
SelectP02 ==
  /\ InWork
  /\ majorMode' = 2
  /\ Request("p02")
  /\ UNCHANGED servicerActive

\* V37E20E and V37E22E take the major mode first.  A failed precondition on
\* the state vectors raises an alarm and schedules nothing.
SelectTracking(t) ==
  /\ InWork
  /\ majorMode' = ModeOf[t]
  /\ Request(t) \/ UNCHANGED waitlist
  /\ UNCHANGED servicerActive

\* V37E23E takes the major mode only once its preconditions have passed.
SelectP23 ==
  /\ InWork
  /\ \/ majorMode' = 23 /\ Request("p23")
     \/ UNCHANGED <<waitlist, majorMode>>
  /\ UNCHANGED servicerActive

\* V36: every field of AgcState back to its default.
FreshStart ==
  /\ InWork
  /\ waitlist' = <<>>
  /\ majorMode' = 0
  /\ servicerActive' = FALSE

\* V69: the list is lost, the major mode and the flagwords are kept.  Every
\* entry of RESTART_GROUP_TABLE is EMPTY, so nothing is dispatched again.
Restart ==
  /\ InWork
  /\ waitlist' = <<>>
  /\ UNCHANGED <<majorMode, servicerActive>>

Crew ==
  \/ StartServicer
  \/ SelectP00
  \/ SelectP06
  \/ "p02" \in Tasks /\ SelectP02
  \/ \E t \in {"p20", "p22"} \cap Tasks : SelectTracking(t)
  \/ "p23" \in Tasks /\ SelectP23
  \/ FreshStart
  \/ Restart

-----------------------------------------------------------------------------

\* The body of the popped task, up to its return.
InTask(t) ==
  /\ phase = "task"
  /\ running = t
  /\ running' = Idle
  /\ UNCHANGED <<t3, t3Pending, lastArmed, next, phase, majorMode>>

\* servicer_task: it ends when the flag is down, and lowers the flag itself
\* when there is no room to come back (the slot its own pop has just freed is
\* still free, so the code's rollback here is never taken).
ServicerTask ==
  /\ InTask("servicer")
  /\ IF servicerActive
     THEN Request("servicer") /\ servicerActive' = ~Refused
     ELSE UNCHANGED <<waitlist, servicerActive>>

\* Outside P02, or once the platform is level, the loop ends.
P02Step ==
  /\ InTask("p02")
  /\ \/ majorMode = 2 /\ Request("p02")
     \/ UNCHANGED waitlist
  /\ UNCHANGED servicerActive

\* Wrong on purpose: the cycle comes back whatever the major mode.
TrackingCycleForever(t) ==
  /\ InTask(t)
  /\ Request(t)
  /\ UNCHANGED servicerActive

\* p20_rendezvous_nav_cycle and p22_cycle_task: every path of the body ends
\* in reschedule_if_active.
TrackingCycle(t) ==
  /\ InTask(t)
  /\ IF majorMode = ModeOf[t] THEN Request(t) ELSE UNCHANGED waitlist
  /\ UNCHANGED servicerActive

\* p23_cycle_task returns at once when the mode is another's.
P23Cycle ==
  /\ InTask("p23")
  /\ IF majorMode = 23 THEN Request("p23") ELSE UNCHANGED waitlist
  /\ UNCHANGED servicerActive

TaskBody ==
  \/ ServicerTask
  \/ P02Step
  \/ \E t \in {"p20", "p22"} : TrackingCycle(t)
  \/ P23Cycle

\* The loop's own steps: the popped task is remembered, and has run before
\* the loop goes on.
NavPop ==
  /\ PopFront
  /\ running' = waitlist[1].task
  /\ UNCHANGED <<majorMode, servicerActive>>

NavLoop ==
  /\ \/ SkipT3
     \/ running = Idle /\ TaskReturn
     \/ Rearm
  /\ UNCHANGED <<majorMode, servicerActive, running>>

NavTick == Tick /\ UNCHANGED <<majorMode, servicerActive, running>>

NavLoopStep == NavPop \/ TaskBody \/ NavLoop

NavNext == Crew \/ NavLoopStep \/ NavTick

NavSpec == NavInit /\ [][NavNext]_navVars

\* The processor and the clock never stop; the crew need not press a key.
FairNavSpec == NavSpec /\ WF_navVars(NavLoopStep) /\ WF_navVars(NavTick)

-----------------------------------------------------------------------------

NavTypeOK ==
  /\ TypeOK
  /\ majorMode \in {0, 2, 6, 20, 22, 23}
  /\ servicerActive \in BOOLEAN
  /\ running \in Tasks \cup {Idle}

\* The composition implements the run loop with arbitrary handlers, so what
\* holds there holds here: no handler does more to the list than schedule
\* with a known delay or clear it.
ImplementsRunLoop == Spec

\* Every pending task has its turn or goes with the list, whatever the crew
\* keeps selecting.  Insertions go in front of entries due at the same
\* moment, and each re-arm restarts the head's countdown.
EveryTaskServed ==
  \A t \in Tasks : Pending(t) ~> (running = t \/ ~Pending(t))

\* A program that is left for good leaves the waitlist for good, however
\* many chains re-selecting it had started: no zombie cycle keeps a slot.
ChainsEnd ==
  \A t \in Tasks \cap DOMAIN ModeOf :
    <>[](majorMode # ModeOf[t]) => <>[]~Pending(t)

\* SERVICER is never lost in silence: while its flag is up its entry is in
\* the list or its body is about to run, and no step but a RESTART breaks
\* that.  A full list must lower the flag.
ServicerAlive == Pending("servicer") \/ running = "servicer"

ServicerLostOnlyByRestart ==
  [][(servicerActive => ServicerAlive) /\ ~Restart
       => (servicerActive => ServicerAlive)']_navVars

\* SERVICER's chain is single: one entry at the most, and none while its body
\* is running.
OneChain ==
  /\ \A i, j \in 1 .. Len(waitlist) :
       waitlist[i].task = "servicer" /\ waitlist[j].task = "servicer" => i = j
  /\ running = "servicer" => ~Pending("servicer")

\* Two chains would integrate the state vector twice in two seconds.  While
\* the flag is up no step makes a second one, however V46, the selections, the
\* pops and the body's own request meet.  (With the flag down one does: V46
\* does not see the entry that P06 has left in the list, and average_g.rs says
\* that the flag prevents just this.)
NotDoubledWhileActive ==
  [][servicerActive /\ OneChain => OneChain']_navVars
=============================================================================
