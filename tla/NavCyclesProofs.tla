-------------------------- MODULE NavCyclesProofs --------------------------
(***************************************************************************)
(* NavCycles implements RunLoop, so the theorems about the run loop hold   *)
(* of the composition with the real programs; and SERVICER is lost by a    *)
(* RESTART only, and never doubled while it runs.                          *)
(*                                                                         *)
(* Last, the service, from the fairness of the loop and of the clock as in *)
(* RunLoopProofs: every task on the list gets its turn, for each pop makes *)
(* its distance from the head smaller, and a distance has a bounded range; *)
(* and the chain of a program that was left ends.                          *)
(***************************************************************************)
EXTENDS NavCycles, RunLoopProofs

\* A task's body runs in phase "task" and nowhere else; the shapes of the
\* composition's own variables come with it.
NavInv ==
  /\ NavTypeOK
  /\ phase # "task" => running = Idle

\* What the assumptions say of a period.
LEMMA PeriodType ==
  ASSUME NEW t \in Tasks
  PROVE  Period[t] \in TaskDelays /\ Period[t] \in WorkDelays
                                  /\ Period[t] \in 1 .. MaxDelay
  BY NavAssumption, RunLoopAssumption DEF NavAssumption, RunLoopAssumption

\* A request is a call that RunLoop allows a handler to make.
LEMMA RequestIsCall ==
  ASSUME NEW t \in Tasks, Request(t)
  PROVE  /\ waitlist' \in CallEffects(waitlist, TaskDelays)
         /\ waitlist' \in CallEffects(waitlist, WorkDelays)
  BY PeriodType DEF Request, CallEffects

LEMMA NothingIsCall ==
  ASSUME NEW D
  PROVE  waitlist \in CallEffects(waitlist, D) /\ <<>> \in CallEffects(waitlist, D)
  BY DEF CallEffects

-----------------------------------------------------------------------------

LEMMA NavInitMaps == NavInit => Init /\ NavInv
<1> SUFFICES ASSUME NavInit PROVE Init /\ NavInv
  OBVIOUS
<1>1. "servicer" \in Tasks
  BY NavAssumption DEF NavAssumption
<1>2. waitlist \in CallEffects(<<>>, TaskDelays)
  BY <1>1, PeriodType DEF NavInit, CallEffects
<1>3. Sound(waitlist) /\ waitlist # <<>>
  BY <1>1, PeriodType, EmptyIsSound, ScheduleKeepsSound DEF NavInit
<1>4. Init
  BY <1>2, <1>3 DEF NavInit, Init
<1>5. TypeOK
  BY <1>4, InitInv DEF Inv
<1> QED
  BY <1>4, <1>5 DEF NavInit, NavInv, NavTypeOK

\* Each key handler is a handler's call in phase "work".
LEMMA CrewMaps == Crew => WorkCall
<1> SUFFICES ASSUME Crew PROVE WorkCall
  OBVIOUS
<1>1. InWork
  BY DEF Crew, StartServicer, SelectP00, SelectP06, SelectP02, SelectTracking,
         SelectP23, FreshStart, Restart
<1>2. waitlist' \in CallEffects(waitlist, WorkDelays)
  <2>1. CASE StartServicer
    BY <2>1, RequestIsCall, NavAssumption DEF StartServicer, NavAssumption
  <2>2. CASE "p02" \in Tasks /\ SelectP02
    BY <2>2, RequestIsCall DEF SelectP02
  <2>3. CASE \E t \in {"p20", "p22"} \cap Tasks : SelectTracking(t)
    BY <2>3, RequestIsCall, NothingIsCall DEF SelectTracking
  <2>4. CASE "p23" \in Tasks /\ SelectP23
    BY <2>4, RequestIsCall, NothingIsCall DEF SelectP23
  <2>5. CASE SelectP00 \/ SelectP06 \/ FreshStart \/ Restart
    BY <2>5, NothingIsCall DEF SelectP00, SelectP06, FreshStart, Restart
  <2> QED
    BY <2>1, <2>2, <2>3, <2>4, <2>5 DEF Crew
<1> QED
  BY <1>1, <1>2 DEF InWork, WorkCall

\* Each task body is a handler's call in phase "task".
LEMMA BodyMaps == NavInv /\ TaskBody => TaskCall
<1> SUFFICES ASSUME NavInv, TaskBody PROVE TaskCall
  OBVIOUS
<1>1. PICK t \in {"servicer", "p02", "p20", "p22", "p23"} :
        /\ InTask(t)
        /\ Request(t) \/ UNCHANGED waitlist
  BY DEF TaskBody, ServicerTask, P02Step, TrackingCycle, P23Cycle
<1>2. t \in Tasks
  BY <1>1 DEF InTask, NavInv, NavTypeOK, Idle
<1>3. waitlist' \in CallEffects(waitlist, TaskDelays)
  BY <1>1, <1>2, RequestIsCall, NothingIsCall
<1> QED
  BY <1>1, <1>3 DEF InTask, TaskCall

LEMMA NavStepMaps == NavInv /\ [NavNext]_navVars => [Next]_loopVars
<1> SUFFICES ASSUME NavInv, [NavNext]_navVars PROVE [Next]_loopVars
  OBVIOUS
<1>1. CASE Crew
  BY <1>1, CrewMaps DEF Next, HandlerCall
<1>2. CASE TaskBody
  BY <1>2, BodyMaps DEF Next, HandlerCall
<1>3. CASE NavPop \/ NavLoop \/ NavTick
  BY <1>3 DEF NavPop, NavLoop, NavTick, Next, LoopStep
<1>4. CASE UNCHANGED navVars
  BY <1>4 DEF navVars, loopVars
<1> QED
  BY <1>1, <1>2, <1>3, <1>4 DEF NavNext, NavLoopStep

\* The popped task is a task; between bodies none is left to run.
LEMMA NavStepInv == Inv /\ NavInv /\ [NavNext]_navVars => NavInv'
<1> SUFFICES ASSUME Inv, NavInv, [NavNext]_navVars PROVE NavInv'
  OBVIOUS
<1>1. TypeOK'
  BY NavStepMaps, StepInv DEF Inv
<1>2. SUFFICES /\ majorMode' \in {0, 2, 6, 20, 22, 23}
               /\ servicerActive' \in BOOLEAN
               /\ running' \in Tasks \cup {Idle}
               /\ phase' # "task" => running' = Idle
  BY <1>1 DEF NavInv, NavTypeOK
<1>3. CASE Crew
  <2>1. majorMode' \in {0, 2, 6, 20, 22, 23}
    BY <1>3 DEF Crew, StartServicer, SelectP00, SelectP06, SelectP02,
      SelectTracking, SelectP23, FreshStart, Restart, ModeOf, NavInv, NavTypeOK
  <2>2. servicerActive' \in BOOLEAN
    BY <1>3 DEF Crew, StartServicer, SelectP00, SelectP06, SelectP02,
      SelectTracking, SelectP23, FreshStart, Restart, Refused, IsFull,
      NavInv, NavTypeOK
  <2>3. InWork
    BY <1>3 DEF Crew, StartServicer, SelectP00, SelectP06, SelectP02,
      SelectTracking, SelectP23, FreshStart, Restart
  <2> QED
    BY <2>1, <2>2, <2>3 DEF InWork, NavInv, NavTypeOK
<1>4. CASE TaskBody
  <2>1. servicerActive' \in BOOLEAN
    BY <1>4 DEF TaskBody, ServicerTask, P02Step, TrackingCycle, P23Cycle,
      Refused, IsFull, NavInv, NavTypeOK
  <2>2. \E t \in {"servicer", "p02", "p20", "p22", "p23"} : InTask(t)
    BY <1>4 DEF TaskBody, ServicerTask, P02Step, TrackingCycle, P23Cycle
  <2> QED
    BY <2>1, <2>2 DEF InTask, NavInv, NavTypeOK
<1>5. CASE NavPop
  <2>1. waitlist \in Seq(Entry) /\ 1 \in 1 .. Len(waitlist)
    BY <1>5, EmptySeq DEF NavPop, PopFront, Inv, TypeOK, IsWaitlist
  <2>2. waitlist[1].task \in Tasks
    BY <2>1, ElementsAreEntries
  <2> QED
    BY <1>5, <2>2 DEF NavPop, PopFront, NavInv, NavTypeOK
<1>6. CASE NavLoop
  BY <1>6 DEF NavLoop, SkipT3, TaskReturn, ArmForNext, Rearm, NavInv, NavTypeOK
<1>7. CASE NavTick
  BY <1>7 DEF NavTick, Tick, NavInv, NavTypeOK
<1>8. CASE UNCHANGED navVars
  BY <1>8 DEF navVars, NavInv, NavTypeOK
<1> QED
  BY <1>3, <1>4, <1>5, <1>6, <1>7, <1>8 DEF NavNext, NavLoopStep

LEMMA NavInvHolds == NavSpec => [](Inv /\ NavInv)
<1>1. NavInit => Inv /\ NavInv
  BY NavInitMaps, InitInv
<1>2. Inv /\ NavInv /\ [NavNext]_navVars => (Inv /\ NavInv)'
  BY NavStepMaps, StepInv, NavStepInv
<1> QED
  BY <1>1, <1>2, PTL DEF NavSpec

\* The real programs are handlers that RunLoop allows: the composition
\* implements the run loop.
THEOREM NavImplementsRunLoop == NavSpec => ImplementsRunLoop
<1>1. NavInit => Init
  BY NavInitMaps
<1>2. NavInv /\ [NavNext]_navVars => [Next]_loopVars
  BY NavStepMaps
<1> QED
  BY <1>1, <1>2, NavInvHolds, PTL DEF NavSpec, ImplementsRunLoop, Spec

\* Hence no wake-up is lost and no arithmetic wraps under the real programs.
THEOREM NavWakeupNeverLost == NavSpec => [](ChainSound /\ NoLostWakeup)
<1> QED
  BY NavImplementsRunLoop, ChainAlwaysSound, WakeupNeverLost, PTL
    DEF ImplementsRunLoop

\* The major mode, the SERVICER flag and the running task keep their shapes.
THEOREM NavTypeCorrect == NavSpec => []NavTypeOK
<1>1. NavInv => NavTypeOK
  BY DEF NavInv
<1> QED
  BY <1>1, NavInvHolds, PTL
-----------------------------------------------------------------------------
\* What the list operations do to the set of pending tasks.

Holds(list, t) == \E i \in 1 .. Len(list) : list[i].task = t

\* A request that finds room puts its task in the list, and none is pushed out.
LEMMA ScheduleHolds ==
  ASSUME NEW list, Sound(list), NEW t \in Tasks, NEW u,
         NEW cs \in 1 .. MaxDelay, NEW new \in Schedule(list, cs, t)
  PROVE  /\ Holds(list, u) => Holds(new, u)
         /\ ~IsFull(list) => Holds(new, t)
<1>1. CASE IsFull(list)
  BY <1>1 DEF Schedule
<1>2. CASE ~IsFull(list)
  <2> DEFINE n == Len(list)
  <2>1. PICK p \in Positions(list, cs) : new = InsertAtPosition(list, p, cs, t)
    BY <1>2 DEF Schedule
  <2>2. list \in Seq(Entry) /\ n \in Nat
    BY DEF Sound, IsWaitlist
  <2>3. p \in 1 .. n + 1
    BY DEF Positions
  <2>4. Len(new) = n + 1 /\ new \in Seq(Entry)
    <3>1. Sound(new)
      BY <1>2, <2>1, InsertKeepsSound
    <3>2. DOMAIN new = 1 .. n + 1
      BY <2>1 DEF InsertAtPosition
    <3> QED
      BY <2>2, <3>1, <3>2, LenProperties DEF Sound, IsWaitlist
  <2>5. new[p].task = t
    BY <2>1, <2>2, <2>3 DEF InsertAtPosition
  <2>6. ASSUME NEW i \in 1 .. n, list[i].task = u
        PROVE  Holds(new, u)
    <3>1. CASE i < p
      <4>1. new[i] = list[i] /\ i \in 1 .. n + 1
        BY <2>1, <2>2, <2>3, <3>1 DEF InsertAtPosition
      <4> QED
        BY <2>4, <2>6, <4>1 DEF Holds
    <3>2. CASE i = p
      <4> DEFINE d == cs - SumBefore(list, p)
      <4>1. new[p + 1] = [list[p] EXCEPT !.delta = @ - d] /\ p + 1 \in 1 .. n + 1
        BY <2>1, <2>2, <2>3, <3>2 DEF InsertAtPosition
      <4>2. new[p + 1].task = list[p].task
        BY <2>2, <2>6, <3>2, <4>1, ElementsAreEntries DEF Entry
      <4> QED
        BY <2>4, <2>6, <3>2, <4>1, <4>2 DEF Holds
    <3>3. CASE i > p
      <4>1. new[i + 1] = list[i] /\ i + 1 \in 1 .. n + 1
        BY <2>1, <2>2, <2>3, <3>3 DEF InsertAtPosition
      <4> QED
        BY <2>4, <2>6, <4>1 DEF Holds
    <3> QED
      BY <2>2, <2>3, <3>1, <3>2, <3>3
  <2> QED
    BY <2>3, <2>4, <2>5, <2>6 DEF Holds
<1> QED
  BY <1>1, <1>2

\* Popping takes the front and nothing else.
LEMMA PopHolds ==
  ASSUME NEW list, Sound(list), list # <<>>, NEW u, Holds(list, u)
  PROVE  list[1].task = u \/ Holds(PopTask(list), u)
<1> DEFINE n == Len(list)
           new == PopTask(list)
<1>1. list \in Seq(Entry) /\ n \in Nat /\ n > 0
  BY EmptySeq DEF Sound, IsWaitlist
<1>2. PICK i \in 1 .. n : list[i].task = u
  BY DEF Holds
<1>3. SUFFICES ASSUME i # 1 PROVE Holds(new, u)
  BY <1>2
<1>4. i - 1 \in 1 .. n - 1 /\ (i - 1) + 1 = i
  BY <1>1, <1>3
<1>5. new[i - 1] = [list[i] EXCEPT !.sum = @ - list[1].sum]
  BY <1>1, <1>4 DEF PopTask
<1>6. new[i - 1].task = list[i].task
  BY <1>1, <1>5, ElementsAreEntries DEF Entry
<1>7. Len(new) = n - 1
  <2>1. new \in Seq(Entry)
    BY <1>1, PopKeepsSound DEF Sound, IsWaitlist
  <2>2. DOMAIN new = 1 .. n - 1
    BY DEF PopTask
  <2> QED
    BY <1>1, <2>1, <2>2, LenProperties
<1> HIDE DEF new
<1> QED
  BY <1>2, <1>4, <1>6, <1>7 DEF Holds

\* Time takes nothing.
LEMMA AgeHolds ==
  ASSUME NEW list, Sound(list), NEW cap \in Nat, NEW u, Holds(list, u)
  PROVE  Holds(Age(list, cap), u)
<1> DEFINE n == Len(list)
           new == Age(list, cap)
<1>1. list \in Seq(Entry) /\ n \in Nat
  BY DEF Sound, IsWaitlist
<1>2. PICK i \in 1 .. n : list[i].task = u
  BY DEF Holds
<1>3. new[i].task = list[i].task
  BY <1>1, ElementsAreEntries DEF Age, Entry
<1>4. Len(new) = n
  <2>1. new \in Seq(Entry)
    BY <1>1, AgeKeepsSound DEF Sound, IsWaitlist
  <2>2. DOMAIN new = 1 .. n
    BY DEF Age
  <2> QED
    BY <1>1, <2>1, <2>2, LenProperties
<1> HIDE DEF new
<1> QED
  BY <1>2, <1>3, <1>4 DEF Holds, new

-----------------------------------------------------------------------------

\* One step, by case on the action: a body or a handler that schedules keeps
\* what is pending; a refused SERVICER request lowers the flag; the pop that
\* takes SERVICER's entry leaves its body to run.
LEMMA ServicerStep ==
  ASSUME Inv, NavInv, NavNext, ~Restart, servicerActive => ServicerAlive
  PROVE  (servicerActive => ServicerAlive)'
<1> USE DEF ServicerAlive
<1>1. Sound(waitlist) /\ "servicer" \in Tasks
  BY InvIsSound, NavAssumption DEF NavAssumption
<1>2. ASSUME NEW t \in Tasks, Request(t)
      PROVE  /\ Pending("servicer") => Pending("servicer")'
             /\ ~Refused => Pending(t)'
  <2>1. Period[t] \in 1 .. MaxDelay
    BY PeriodType
  <2>2. /\ Holds(waitlist, "servicer") => Holds(waitlist', "servicer")
        /\ ~IsFull(waitlist) => Holds(waitlist', t)
    BY <1>1, <1>2, <2>1, ScheduleHolds DEF Request
  <2> QED
    BY <2>2 DEF Refused, Pending, Holds
<1>3. UNCHANGED waitlist => (Pending("servicer") => Pending("servicer")')
  BY DEF Pending
<1>4. SUFFICES ASSUME servicerActive' PROVE ServicerAlive'
  OBVIOUS
<1>5. CASE Crew
  <2>1. running # "servicer" /\ running' = running
    BY <1>5 DEF Crew, StartServicer, SelectP00, SelectP06, SelectP02,
      SelectTracking, SelectP23, FreshStart, Restart, InWork, NavInv, Idle
  <2>2. CASE StartServicer
    BY <1>1, <1>2, <1>4, <2>2 DEF StartServicer
  <2>3. CASE SelectP00
    BY <1>3, <1>4, <2>1, <2>3 DEF SelectP00
  <2>4. CASE "p02" \in Tasks /\ SelectP02
    BY <1>2, <1>4, <2>1, <2>4 DEF SelectP02
  <2>5. CASE \E t \in {"p20", "p22"} \cap Tasks : SelectTracking(t)
    BY <1>2, <1>3, <1>4, <2>1, <2>5 DEF SelectTracking
  <2>6. CASE "p23" \in Tasks /\ SelectP23
    BY <1>2, <1>3, <1>4, <2>1, <2>6 DEF SelectP23
  <2>7. CASE SelectP06 \/ FreshStart
    BY <1>4, <2>7 DEF SelectP06, FreshStart
  <2> QED
    BY <1>5, <2>2, <2>3, <2>4, <2>5, <2>6, <2>7 DEF Crew
<1>6. CASE ServicerTask
  <2>1. servicerActive /\ Request("servicer") /\ ~Refused
    BY <1>4, <1>6 DEF ServicerTask
  <2> QED
    BY <1>1, <1>2, <2>1
<1>7. CASE P02Step \/ (\E t \in {"p20", "p22"} : TrackingCycle(t)) \/ P23Cycle
  <2>1. PICK t \in {"p02", "p20", "p22", "p23"} :
          /\ InTask(t)
          /\ Request(t) \/ UNCHANGED waitlist
          /\ UNCHANGED servicerActive
    BY <1>7 DEF P02Step, TrackingCycle, P23Cycle
  <2>2. t \in Tasks /\ running # "servicer"
    BY <2>1 DEF InTask, NavInv, NavTypeOK, Idle
  <2> QED
    BY <1>2, <1>3, <1>4, <2>1, <2>2
<1>8. CASE NavPop
  <2>1. running # "servicer" /\ servicerActive
    BY <1>4, <1>8 DEF NavPop, PopFront, NavInv, Idle
  <2>2. Holds(waitlist, "servicer")
    BY <2>1 DEF Pending, Holds
  <2>3. waitlist[1].task = "servicer" \/ Holds(waitlist', "servicer")
    BY <1>1, <1>8, <2>2, PopHolds DEF NavPop, PopFront
  <2> QED
    BY <1>8, <2>3 DEF NavPop, Pending, Holds
<1>9. CASE NavLoop
  <2>1. UNCHANGED <<waitlist, running, servicerActive>>
    BY <1>9 DEF NavLoop, SkipT3, TaskReturn, Rearm
  <2> QED
    BY <1>3, <1>4, <2>1
<1>10. CASE NavTick
  <2>1. Holds(waitlist, "servicer") => Holds(waitlist', "servicer")
    BY <1>1, <1>10, AgeHolds, RunLoopAssumption
      DEF NavTick, Tick, RunLoopAssumption
  <2> QED
    BY <1>4, <1>10, <2>1 DEF NavTick, Pending, Holds
<1> QED
  BY <1>5, <1>6, <1>7, <1>8, <1>9, <1>10 DEF NavNext, NavLoopStep, TaskBody

\* While its flag is up, SERVICER is pending or running, and no step but a
\* RESTART breaks that: neither a full list nor a race of the crew's
\* selections with the timer loses it in silence.
THEOREM ServicerNeverLost == NavSpec => ServicerLostOnlyByRestart
<1>1. Inv /\ NavInv /\ [NavNext]_navVars
        => [(servicerActive => ServicerAlive) /\ ~Restart
              => (servicerActive => ServicerAlive)']_navVars
  BY ServicerStep
<1> QED
  BY <1>1, NavInvHolds, PTL DEF NavSpec, ServicerLostOnlyByRestart, ServicerAlive
-----------------------------------------------------------------------------
\* What the list operations do to a task that is in the list once at most.

AtMostOne(list, t) ==
  \A i, j \in 1 .. Len(list) : list[i].task = t /\ list[j].task = t => i = j

\* Where the tasks of the list are after an insertion at p.
LEMMA InsertTasks ==
  ASSUME NEW list, Sound(list), ~IsFull(list), NEW t \in Tasks,
         NEW cs \in 1 .. MaxDelay, NEW p \in Positions(list, cs),
         NEW new, new = InsertAtPosition(list, p, cs, t)
  PROVE  /\ Len(list) \in Nat /\ Len(new) = Len(list) + 1
         /\ p \in 1 .. Len(list) + 1
         /\ new[p].task = t
         /\ \A k \in 1 .. Len(new) : k < p => new[k].task = list[k].task
         /\ \A k \in 1 .. Len(new) : k > p => new[k].task = list[k - 1].task
<1> DEFINE n == Len(list)
<1>1. list \in Seq(Entry) /\ n \in Nat /\ p \in 1 .. n + 1
  BY DEF Sound, IsWaitlist, Positions
<1>2. Len(new) = n + 1
  <2>1. new \in Seq(Entry)
    BY InsertKeepsSound DEF Sound, IsWaitlist
  <2>2. DOMAIN new = 1 .. n + 1
    BY DEF InsertAtPosition
  <2> QED
    BY <1>1, <2>1, <2>2, LenProperties
<1>3. new[p].task = t
  BY <1>1 DEF InsertAtPosition
<1>4. ASSUME NEW k \in 1 .. n + 1, k < p
      PROVE  new[k].task = list[k].task
  BY <1>1, <1>4 DEF InsertAtPosition
<1>5. ASSUME NEW k \in 1 .. n + 1, k > p
      PROVE  new[k].task = list[k - 1].task
  <2>1. CASE k = p + 1
    <3> DEFINE d == cs - SumBefore(list, p)
    <3>1. p \in 1 .. n /\ k - 1 = p
      BY <1>1, <1>5, <2>1
    <3>2. new[k] = [list[p] EXCEPT !.delta = @ - d]
      BY <1>1, <1>5, <2>1 DEF InsertAtPosition
    <3>3. list[p] \in Entry
      BY <1>1, <3>1, ElementsAreEntries
    <3> QED
      BY <3>1, <3>2, <3>3 DEF Entry
  <2>2. CASE k # p + 1
    BY <1>1, <1>5, <2>2 DEF InsertAtPosition
  <2> QED
    BY <2>1, <2>2
<1> QED
  BY <1>1, <1>2, <1>3, <1>4, <1>5

\* A request doubles nothing but its own task.
LEMMA ScheduleAtMostOne ==
  ASSUME NEW list, Sound(list), NEW t \in Tasks, NEW u, AtMostOne(list, u),
         t # u \/ ~Holds(list, u),
         NEW cs \in 1 .. MaxDelay, NEW new \in Schedule(list, cs, t)
  PROVE  /\ AtMostOne(new, u)
         /\ t # u /\ ~Holds(list, u) => ~Holds(new, u)
<1>1. CASE IsFull(list)
  BY <1>1 DEF Schedule
<1>2. CASE ~IsFull(list)
  <2> DEFINE n == Len(list)
  <2>1. PICK p \in Positions(list, cs) : new = InsertAtPosition(list, p, cs, t)
    BY <1>2 DEF Schedule
  <2>2. /\ n \in Nat /\ Len(new) = n + 1
        /\ p \in 1 .. n + 1
        /\ new[p].task = t
        /\ \A k \in 1 .. Len(new) : k < p => new[k].task = list[k].task
        /\ \A k \in 1 .. Len(new) : k > p => new[k].task = list[k - 1].task
    BY <1>2, <2>1, InsertTasks
  <2> DEFINE Old(k) == IF k < p THEN k ELSE k - 1
  <2>3. ASSUME NEW k \in 1 .. n + 1, k # p
        PROVE  Old(k) \in 1 .. n /\ new[k].task = list[Old(k)].task
    BY <2>2, <2>3
  <2>4. ASSUME NEW i \in 1 .. n + 1, NEW j \in 1 .. n + 1,
               new[i].task = u, new[j].task = u
        PROVE  i = j
    <3>1. CASE i # p /\ j # p
      <4>1. Old(i) = Old(j)
        BY <2>3, <2>4, <3>1 DEF AtMostOne
      <4> QED
        BY <2>2, <3>1, <4>1
    <3>2. CASE i = p \/ j = p
      <4>1. ~Holds(list, u)
        BY <2>2, <2>4, <3>2
      <4>2. ASSUME i # p \/ j # p PROVE FALSE
        BY <2>3, <2>4, <4>1, <4>2 DEF Holds
      <4> QED
        BY <4>2
    <3> QED
      BY <3>1, <3>2
  <2>5. ASSUME t # u, ~Holds(list, u), NEW k \in 1 .. n + 1, new[k].task = u
        PROVE  FALSE
    BY <2>2, <2>3, <2>5 DEF Holds
  <2> QED
    BY <2>2, <2>4, <2>5 DEF AtMostOne, Holds
<1> QED
  BY <1>1, <1>2

\* What is popped is gone, if it was there once.
LEMMA PopAtMostOne ==
  ASSUME NEW list, Sound(list), list # <<>>, NEW u, AtMostOne(list, u)
  PROVE  /\ AtMostOne(PopTask(list), u)
         /\ list[1].task = u => ~Holds(PopTask(list), u)
<1> DEFINE n == Len(list)
           new == PopTask(list)
<1>1. list \in Seq(Entry) /\ n \in Nat /\ n > 0
  BY EmptySeq DEF Sound, IsWaitlist
<1>2. Len(new) = n - 1
  <2>1. new \in Seq(Entry)
    BY <1>1, PopKeepsSound DEF Sound, IsWaitlist
  <2>2. DOMAIN new = 1 .. n - 1
    BY DEF PopTask
  <2> QED
    BY <1>1, <2>1, <2>2, LenProperties
<1>3. ASSUME NEW k \in 1 .. n - 1
      PROVE  k + 1 \in 1 .. n /\ new[k].task = list[k + 1].task
  <2>1. k + 1 \in 1 .. n
    BY <1>1
  <2>2. new[k] = [list[k + 1] EXCEPT !.sum = @ - list[1].sum]
    BY <1>1 DEF PopTask
  <2> QED
    BY <1>1, <2>1, <2>2, ElementsAreEntries DEF Entry
<1> HIDE DEF new
<1>4. AtMostOne(new, u)
  <2> SUFFICES ASSUME NEW i \in 1 .. n - 1, NEW j \in 1 .. n - 1,
                      new[i].task = u, new[j].task = u
               PROVE  i = j
    BY <1>2 DEF AtMostOne
  <2>1. i + 1 = j + 1
    BY <1>3 DEF AtMostOne
  <2> QED
    BY <1>1, <2>1
<1>5. ASSUME list[1].task = u, NEW k \in 1 .. n - 1, new[k].task = u
      PROVE  FALSE
  <2>1. k + 1 = 1
    BY <1>1, <1>3, <1>5 DEF AtMostOne
  <2> QED
    BY <1>1, <2>1
<1> QED
  BY <1>2, <1>4, <1>5 DEF new, Holds

LEMMA AgeAtMostOne ==
  ASSUME NEW list, Sound(list), NEW cap \in Nat, NEW u
  PROVE  /\ AtMostOne(list, u) => AtMostOne(Age(list, cap), u)
         /\ ~Holds(list, u) => ~Holds(Age(list, cap), u)
<1> DEFINE n == Len(list)
           new == Age(list, cap)
<1>1. list \in Seq(Entry) /\ n \in Nat
  BY DEF Sound, IsWaitlist
<1>2. ASSUME NEW k \in 1 .. n
      PROVE  new[k].task = list[k].task
  BY <1>1, ElementsAreEntries DEF Age, Entry
<1>3. Len(new) = n
  <2>1. new \in Seq(Entry)
    BY <1>1, AgeKeepsSound DEF Sound, IsWaitlist
  <2>2. DOMAIN new = 1 .. n
    BY DEF Age
  <2> QED
    BY <1>1, <2>1, <2>2, LenProperties
<1> HIDE DEF new
<1> QED
  BY <1>2, <1>3 DEF AtMostOne, Holds, new

-----------------------------------------------------------------------------

\* One step, by case on the action: with the flag up nobody but SERVICER's own
\* body requests it, and the body's entry is gone by then.
LEMMA OneChainStep ==
  ASSUME Inv, NavInv, NavNext, servicerActive, OneChain
  PROVE  OneChain'
<1> DEFINE U == "servicer"
<1>1. Sound(waitlist) /\ U \in Tasks
  BY InvIsSound, NavAssumption DEF NavAssumption
<1>2. AtMostOne(waitlist, U) /\ (running = U => ~Holds(waitlist, U))
  BY DEF OneChain, AtMostOne, Pending, Holds
<1>3. SUFFICES AtMostOne(waitlist', U) /\ (running' = U => ~Holds(waitlist', U))
  BY DEF OneChain, AtMostOne, Pending, Holds
<1>4. ASSUME NEW t \in Tasks, t # U \/ ~Holds(waitlist, U), Request(t)
      PROVE  AtMostOne(waitlist', U)
  <2>1. Period[t] \in 1 .. MaxDelay
    BY PeriodType
  <2> QED
    BY <1>1, <1>2, <1>4, <2>1, ScheduleAtMostOne DEF Request
<1>5. AtMostOne(<<>>, U)
  BY EmptySeq DEF AtMostOne
<1>6. CASE Crew
  <2>1. running' # U
    BY <1>6 DEF Crew, StartServicer, SelectP00, SelectP06, SelectP02,
      SelectTracking, SelectP23, FreshStart, Restart, InWork, NavInv, Idle
  <2>2. ~StartServicer
    BY DEF StartServicer
  <2>3. ASSUME NEW t \in Tasks, t # U, Request(t) \/ UNCHANGED waitlist
        PROVE  AtMostOne(waitlist', U)
    <3>1. CASE Request(t)
      BY <1>4, <2>3, <3>1
    <3>2. CASE waitlist' = waitlist
      BY <1>2, <3>2
    <3> QED
      BY <2>3, <3>1, <3>2
  <2>4. CASE SelectP00 \/ SelectP06
    <3>1. waitlist' = waitlist
      BY <2>4 DEF SelectP00, SelectP06
    <3> QED
      BY <1>2, <2>1, <3>1
  <2>5. CASE FreshStart \/ Restart
    <3>1. waitlist' = <<>>
      BY <2>5 DEF FreshStart, Restart
    <3> QED
      BY <1>5, <2>1, <3>1
  <2>6. CASE "p02" \in Tasks /\ SelectP02
    <3>1. Request("p02")
      BY <2>6 DEF SelectP02
    <3> QED
      BY <2>1, <2>3, <2>6, <3>1
  <2>7. CASE \E t \in {"p20", "p22"} \cap Tasks : SelectTracking(t)
    <3>1. PICK t \in {"p20", "p22"} \cap Tasks :
            Request(t) \/ UNCHANGED waitlist
      BY <2>7 DEF SelectTracking
    <3> QED
      BY <2>1, <2>3, <3>1
  <2>8. CASE "p23" \in Tasks /\ SelectP23
    <3>1. Request("p23") \/ UNCHANGED waitlist
      BY <2>8 DEF SelectP23
    <3> QED
      BY <2>1, <2>3, <2>8, <3>1
  <2> QED
    BY <1>6, <2>2, <2>4, <2>5, <2>6, <2>7, <2>8 DEF Crew
<1>7. CASE ServicerTask
  <2>1. running = U /\ running' = Idle /\ Request(U)
    BY <1>7 DEF ServicerTask, InTask
  <2> QED
    BY <1>1, <1>2, <1>4, <2>1 DEF Idle
<1>8. CASE P02Step \/ (\E t \in {"p20", "p22"} : TrackingCycle(t)) \/ P23Cycle
  <2>1. PICK t \in {"p02", "p20", "p22", "p23"} :
          /\ InTask(t)
          /\ Request(t) \/ UNCHANGED waitlist
    BY <1>8 DEF P02Step, TrackingCycle, P23Cycle
  <2>2. t \in Tasks /\ running' = Idle
    BY <2>1 DEF InTask, NavInv, NavTypeOK, Idle
  <2> QED
    BY <1>2, <1>4, <2>1, <2>2 DEF Idle
<1>9. CASE NavPop
  BY <1>1, <1>2, <1>9, PopAtMostOne DEF NavPop, PopFront
<1>10. CASE NavLoop
  BY <1>2, <1>10 DEF NavLoop, SkipT3, TaskReturn, Rearm
<1>11. CASE NavTick
  BY <1>1, <1>2, <1>11, AgeAtMostOne, RunLoopAssumption
    DEF NavTick, Tick, RunLoopAssumption
<1> QED
  BY <1>6, <1>7, <1>8, <1>9, <1>10, <1>11 DEF NavNext, NavLoopStep, TaskBody

\* While SERVICER's flag is up its chain is never doubled, for any periods,
\* delays and capacity of the waitlist.
THEOREM ServicerNeverDoubled == NavSpec => NotDoubledWhileActive
<1>1. Inv /\ NavInv /\ [NavNext]_navVars
        => [servicerActive /\ OneChain => OneChain']_navVars
  BY OneChainStep
<1> QED
  BY <1>1, NavInvHolds, PTL DEF NavSpec, NotDoubledWhileActive

-----------------------------------------------------------------------------
\* How far a task is from its turn.

\* The sums of a task's entries, and the first and the last of them.
SumsOf(list, t) ==
  {s \in Nat : \E i \in 1 .. Len(list) : list[i].task = t /\ list[i].sum = s}
FirstSum(list, t) ==
  CHOOSE s \in SumsOf(list, t) : \A r \in SumsOf(list, t) : s <= r
LastSum(list, t) ==
  CHOOSE s \in SumsOf(list, t) : \A r \in SumsOf(list, t) : r <= s

\* The entries at the head of the chain that are due with the next pop.  An
\* insertion never adds one: a delay is positive.
Ready(list) == {i \in 1 .. Len(list) : list[i].sum = 0}
ReadyLen(list) == CHOOSE z \in 0 .. Len(list) : Ready(list) = 1 .. z

LEMMA SumsBounded ==
  ASSUME NEW list, Sound(list), NEW t, Holds(list, t)
  PROVE  /\ SumsOf(list, t) # {}
         /\ SumsOf(list, t) \subseteq 0 .. MaxDelay
<1>1. list \in Seq(Entry) /\ Len(list) \in Nat /\ MaxDelay \in Nat
  BY WaitlistAssumption DEF Sound, IsWaitlist, WaitlistAssumption
<1>2. \A i \in 1 .. Len(list) : list[i].sum \in Nat /\ list[i].sum <= MaxDelay
  BY <1>1, ElementsAreEntries DEF Sound, ChainInRange
<1> QED
  BY <1>1, <1>2 DEF SumsOf, Holds

LEMMA FirstSumIs ==
  ASSUME NEW list, Sound(list), NEW t, Holds(list, t)
  PROVE  /\ FirstSum(list, t) \in SumsOf(list, t)
         /\ \A r \in SumsOf(list, t) : FirstSum(list, t) <= r
<1>1. SumsOf(list, t) \in SUBSET Nat /\ SumsOf(list, t) # {}
  BY SumsBounded DEF SumsOf
<1>2. \E s \in SumsOf(list, t) : \A r \in SumsOf(list, t) : s <= r
  BY <1>1, SmallestPosition
<1> QED
  BY <1>2 DEF FirstSum

LEMMA LastSumIs ==
  ASSUME NEW list, Sound(list), NEW t, Holds(list, t)
  PROVE  /\ LastSum(list, t) \in SumsOf(list, t)
         /\ \A r \in SumsOf(list, t) : r <= LastSum(list, t)
<1> DEFINE S == SumsOf(list, t)
           B == {b \in Nat : \A r \in S : r <= b}
<1>1. S # {} /\ S \subseteq 0 .. MaxDelay /\ MaxDelay \in Nat
  BY SumsBounded, WaitlistAssumption DEF WaitlistAssumption
<1> HIDE DEF S
<1>2. MaxDelay \in B
  BY <1>1
<1>3. PICK m \in B : \A b \in B : m <= b
  BY <1>2, SmallestPosition
<1>4. m \in S
  <2>1. SUFFICES ASSUME m \notin S PROVE FALSE
    OBVIOUS
  <2>2. m \in Nat /\ (\A r \in S : r \in Nat /\ r < m)
    BY <1>1, <1>3, <2>1
  <2>3. \E r \in Nat : r < m
    BY <1>1, <2>2, Zenon
  <2>4. m - 1 \in Nat /\ (\A q \in S : q <= m - 1)
    BY <2>2, <2>3
  <2> QED
    BY <1>3, <2>2, <2>4
<1>5. \E s \in S : \A r \in S : r <= s
  BY <1>3, <1>4
<1> QED
  BY <1>5 DEF LastSum, S

LEMMA SamePrefix ==
  ASSUME NEW y \in Nat, NEW z \in Nat, 1 .. y = 1 .. z
  PROVE  y = z
<1>1. SUFFICES ASSUME y # z PROVE FALSE
  OBVIOUS
<1>2. CASE y < z
  BY <1>2, z \in 1 .. z, z \notin 1 .. y
<1>3. CASE z < y
  BY <1>3, y \in 1 .. y, y \notin 1 .. z
<1> QED
  BY <1>1, <1>2, <1>3

LEMMA ReadyLenIs ==
  ASSUME NEW list, Sound(list)
  PROVE  ReadyLen(list) \in Nat /\ Ready(list) = 1 .. ReadyLen(list)
<1> DEFINE n == Len(list)
           Later == {i \in 1 .. n + 1 : i <= n => list[i].sum > 0}
<1>1. list \in Seq(Entry) /\ n \in Nat
  BY DEF Sound, IsWaitlist
<1>2. \A i \in 1 .. n : list[i].sum \in Nat
  BY <1>1, ElementsAreEntries
<1>3. n + 1 \in Later /\ Later \in SUBSET Nat
  BY <1>1
<1>4. PICK m \in Later : \A q \in Later : m <= q
  BY <1>3, SmallestPosition
<1>5. \A i \in 1 .. n : i < m => list[i].sum = 0
  BY <1>1, <1>2, <1>4
<1>6. ASSUME NEW i \in 1 .. n, m <= i PROVE list[i].sum > 0
  <2>1. m \in 1 .. n /\ i \in m .. n
    BY <1>1, <1>4, <1>6
  <2>2. list[m].sum > 0 /\ list[m].sum <= list[i].sum
    BY <1>4, <2>1, SumsOrdered
  <2> QED
    BY <1>2, <2>1, <2>2
<1>7. m - 1 \in 0 .. n /\ Ready(list) = 1 .. m - 1
  BY <1>1, <1>4, <1>5, <1>6 DEF Ready
<1> QED
  BY <1>1, <1>7 DEF ReadyLen

LEMMA SameReady ==
  ASSUME NEW list, Sound(list), NEW new, Sound(new), Ready(new) = Ready(list)
  PROVE  ReadyLen(new) = ReadyLen(list)
  BY ReadyLenIs, SamePrefix

\* A request takes no sum away, adds none but its own, and nothing that is
\* ready with it.
LEMMA ScheduleSums ==
  ASSUME NEW list, Sound(list), NEW cs \in 1 .. MaxDelay, NEW u \in Tasks,
         NEW new \in Schedule(list, cs, u), NEW t
  PROVE  /\ SumsOf(list, t) \subseteq SumsOf(new, t)
         /\ t # u => SumsOf(new, t) = SumsOf(list, t)
         /\ ReadyLen(new) = ReadyLen(list)
<1> DEFINE n == Len(list)
<1>1. CASE new = list
  BY <1>1
<1>2. CASE new # list
  <2>1. PICK p \in 1 .. n + 1 : AddedAt(list, new, p, cs, u)
    BY <1>2, ScheduleAdds
  <2>2. Len(new) = n + 1 /\ Sound(new)
    BY <1>2, ScheduleAdds, ScheduleKeepsSound
  <2>3. n \in Nat /\ list \in Seq(Entry) /\ new \in Seq(Entry)
    BY <2>2 DEF Sound, IsWaitlist
  <2>4. /\ \A i \in 1 .. n : list[i].sum \in Nat
        /\ \A i \in 1 .. n + 1 : new[i].sum \in Nat
    BY <2>2, <2>3, ElementsAreEntries
  <2>5. \A i \in 1 .. n + 1 :
          /\ i < p => new[i].task = list[i].task /\ new[i].sum = list[i].sum
          /\ i = p => new[i].task = u /\ new[i].sum = cs
          /\ i > p => new[i].task = list[i - 1].task /\ new[i].sum = list[i - 1].sum
    BY <2>1 DEF AddedAt, SameTask
  <2>6. \A i \in 1 .. n : i >= p => /\ i + 1 \in 1 .. n + 1
                                    /\ new[i + 1].task = list[i].task
                                    /\ new[i + 1].sum = list[i].sum
    <3> TAKE i \in 1 .. n
    <3> SUFFICES ASSUME i >= p
                 PROVE  /\ i + 1 \in 1 .. n + 1
                        /\ new[i + 1].task = list[i].task
                        /\ new[i + 1].sum = list[i].sum
      OBVIOUS
    <3>1. i + 1 \in 1 .. n + 1 /\ i + 1 > p /\ (i + 1) - 1 = i
      BY <2>3
    <3> QED
      BY <2>5, <3>1
  <2>7. ASSUME NEW s \in SumsOf(list, t) PROVE s \in SumsOf(new, t)
    <3>1. PICK i \in 1 .. n : list[i].task = t /\ list[i].sum = s
      BY DEF SumsOf
    <3>2. CASE i < p
      BY <2>2, <2>3, <2>5, <3>1, <3>2 DEF SumsOf
    <3>3. CASE i >= p
      BY <2>2, <2>6, <3>1, <3>3 DEF SumsOf
    <3> QED
      BY <2>3, <3>2, <3>3
  <2>8. ASSUME t # u, NEW s \in SumsOf(new, t) PROVE s \in SumsOf(list, t)
    <3>1. PICK i \in 1 .. n + 1 : new[i].task = t /\ new[i].sum = s /\ i # p
      BY <2>2, <2>5, <2>8 DEF SumsOf
    <3>2. CASE i < p
      <4>1. i \in 1 .. n
        BY <2>3, <3>1, <3>2
      <4> QED
        BY <2>5, <3>1, <3>2, <4>1 DEF SumsOf
    <3>3. CASE i > p
      <4>1. i - 1 \in 1 .. n
        BY <2>3, <3>1, <3>3
      <4> QED
        BY <2>5, <3>1, <3>3, <4>1 DEF SumsOf
    <3> QED
      BY <2>3, <3>1, <3>2, <3>3
  <2>9. cs > 0
    BY WaitlistAssumption DEF WaitlistAssumption
  <2>10. ASSUME NEW i \in 1 .. n, i >= p PROVE list[i].sum > 0
    <3>1. p \in 1 .. Len(new) /\ i + 1 \in p .. Len(new)
      BY <2>2, <2>3, <2>10
    <3>2. new[p].sum <= new[i + 1].sum
      BY <2>2, <3>1, SumsOrdered
    <3> QED
      BY <2>3, <2>4, <2>5, <2>6, <2>9, <2>10, <3>2
  <2>11. ASSUME NEW i \in 1 .. n + 1, i >= p PROVE new[i].sum > 0
    <3>1. p \in 1 .. Len(new) /\ i \in p .. Len(new)
      BY <2>2, <2>3, <2>11
    <3>2. new[p].sum <= new[i].sum
      BY <2>2, <3>1, SumsOrdered
    <3> QED
      BY <2>3, <2>4, <2>5, <2>9, <2>11, <3>2
  <2>12. Ready(new) = Ready(list)
    <3>1. ASSUME NEW i \in Ready(new) PROVE i \in Ready(list)
      BY <2>2, <2>3, <2>5, <2>11, <3>1 DEF Ready
    <3>2. ASSUME NEW i \in Ready(list) PROVE i \in Ready(new)
      BY <2>2, <2>3, <2>5, <2>10, <3>2 DEF Ready
    <3> QED
      BY <3>1, <3>2
  <2> QED
    BY <2>2, <2>7, <2>8, <2>12, SameReady
<1> QED
  BY <1>1, <1>2

\* Every task that a pop leaves in the list is nearer by the head's delta, and
\* if that is zero, one entry less is ready.
LEMMA PopSums ==
  ASSUME NEW list, Sound(list), list # <<>>, NEW t
  PROVE  /\ \A s \in SumsOf(PopTask(list), t) : s + list[1].sum \in SumsOf(list, t)
         /\ \A s \in SumsOf(list, t) :
              list[1].task # t => s - list[1].sum \in SumsOf(PopTask(list), t)
         /\ list[1].sum = 0 => ReadyLen(PopTask(list)) = ReadyLen(list) - 1
<1> DEFINE n == Len(list)
           new == PopTask(list)
           h == list[1].sum
<1>1. list \in Seq(Entry) /\ n \in Nat /\ n > 0
  BY EmptySeq DEF Sound, IsWaitlist
<1>2. Len(new) = n - 1 /\ Sound(new)
  BY PopShifts, PopKeepsSound
<1>3. \A i \in 1 .. n - 1 : /\ i + 1 \in 1 .. n
                            /\ new[i].task = list[i + 1].task
                            /\ new[i].sum = list[i + 1].sum - h
  BY <1>1, PopShifts
<1>4. \A i \in 1 .. n : list[i].sum \in Nat
  BY <1>1, ElementsAreEntries
<1>5. \A i \in 1 .. n - 1 : new[i].sum \in Nat
  <2>1. new \in Seq(Entry)
    BY <1>2 DEF Sound, IsWaitlist
  <2> QED
    BY <1>2, <2>1, ElementsAreEntries
<1> HIDE DEF new
<1>6. ASSUME NEW s \in SumsOf(new, t) PROVE s + h \in SumsOf(list, t)
  <2>1. PICK i \in 1 .. n - 1 : new[i].task = t /\ new[i].sum = s
    BY <1>2 DEF SumsOf
  <2>2. list[i + 1].task = t /\ list[i + 1].sum = s + h /\ i + 1 \in 1 .. n
    BY <1>1, <1>3, <1>4, <2>1
  <2> QED
    BY <1>4, <2>2 DEF SumsOf
<1>7. ASSUME NEW s \in SumsOf(list, t), list[1].task # t
      PROVE  s - h \in SumsOf(new, t)
  <2>1. PICK i \in 1 .. n : list[i].task = t /\ list[i].sum = s
    BY DEF SumsOf
  <2>2. i # 1 /\ i - 1 \in 1 .. n - 1 /\ (i - 1) + 1 = i
    BY <1>1, <1>7, <2>1
  <2>3. new[i - 1].task = t /\ new[i - 1].sum = s - h /\ s - h \in Nat
    BY <1>3, <1>5, <2>1, <2>2
  <2> QED
    BY <1>2, <2>2, <2>3 DEF SumsOf
<1>8. ASSUME h = 0 PROVE ReadyLen(new) = ReadyLen(list) - 1
  <2> DEFINE y == ReadyLen(new)
             z == ReadyLen(list)
  <2>1. y \in Nat /\ z \in Nat /\ Ready(new) = 1 .. y /\ Ready(list) = 1 .. z
    BY <1>2, ReadyLenIs
  <2>2. \A i \in 1 .. n - 1 : i \in Ready(new) <=> i + 1 \in Ready(list)
    BY <1>1, <1>2, <1>3, <1>4, <1>8 DEF Ready
  <2>3. 1 \in Ready(list) /\ Ready(list) \subseteq 1 .. n /\ Ready(new) \subseteq 1 .. n - 1
    BY <1>1, <1>2, <1>8 DEF Ready
  <2> HIDE DEF y, z
  <2>4. z \in 1 .. n /\ y \in 0 .. n - 1
    <3>1. z >= 1 /\ z \in Ready(list)
      BY <2>1, <2>3
    <3>2. y > 0 => y \in Ready(new)
      BY <2>1
    <3> QED
      BY <1>1, <2>1, <2>3, <3>1, <3>2
  <2>5. y + 1 = z
    <3>1. y > 0 => y + 1 \in 1 .. z
      BY <1>1, <2>1, <2>2, <2>4
    <3>2. z > 1 => z - 1 \in 1 .. y
      <4>1. z > 1 => z - 1 \in 1 .. n - 1 /\ (z - 1) + 1 = z /\ z \in Ready(list)
        BY <1>1, <2>1, <2>4
      <4> QED
        BY <2>1, <2>2, <4>1
    <3> QED
      BY <2>1, <2>4, <3>1, <3>2
  <2> QED
    BY <2>1, <2>5 DEF y, z
<1> QED
  BY <1>6, <1>7, <1>8 DEF new

\* Time brings no entry nearer: the chain does not age.
LEMMA AgeSums ==
  ASSUME NEW list, Sound(list), NEW cap \in Nat, NEW t
  PROVE  /\ SumsOf(Age(list, cap), t) = SumsOf(list, t)
         /\ ReadyLen(Age(list, cap)) = ReadyLen(list)
<1>1. /\ Len(Age(list, cap)) = Len(list)
      /\ \A i \in 1 .. Len(list) : /\ Age(list, cap)[i].task = list[i].task
                                   /\ Age(list, cap)[i].sum = list[i].sum
  BY AgeLowers
<1>2. Sound(Age(list, cap))
  BY AgeKeepsSound
<1>3. SumsOf(Age(list, cap), t) = SumsOf(list, t)
  BY <1>1 DEF SumsOf
<1>4. Ready(Age(list, cap)) = Ready(list)
  BY <1>1 DEF Ready
<1> QED
  BY <1>2, <1>3, <1>4, SameReady

-----------------------------------------------------------------------------
\* How a step changes the distance.

\* The first entry of t comes nearer, or stays where it is and one of those
\* that are ready goes; and its negation's order, for the steps that only
\* must not push it back.  A pair of natural numbers, the first the weightier.
FirstNearer(t) ==
  \/ FirstSum(waitlist', t) < FirstSum(waitlist, t)
  \/ /\ FirstSum(waitlist', t) = FirstSum(waitlist, t)
     /\ ReadyLen(waitlist') < ReadyLen(waitlist)
FirstNotFarther(t) ==
  FirstNearer(t) \/ /\ FirstSum(waitlist', t) = FirstSum(waitlist, t)
                    /\ ReadyLen(waitlist') = ReadyLen(waitlist)

\* The same for the last entry of t.
LastNearer(t) ==
  \/ LastSum(waitlist', t) < LastSum(waitlist, t)
  \/ /\ LastSum(waitlist', t) = LastSum(waitlist, t)
     /\ ReadyLen(waitlist') < ReadyLen(waitlist)
LastNotFarther(t) ==
  LastNearer(t) \/ /\ LastSum(waitlist', t) = LastSum(waitlist, t)
                   /\ ReadyLen(waitlist') = ReadyLen(waitlist)

\* What a step can do to a list that it does not clear.  The task of a
\* program is requested in its major mode, or with it.
LEMMA NavListSteps ==
  ASSUME NavInv, [NavNext]_navVars, waitlist' # <<>>
  PROVE  \/ waitlist' = waitlist
         \/ \E u \in Tasks : /\ Request(u)
                             /\ u \in DOMAIN ModeOf => majorMode' = ModeOf[u]
         \/ NavPop
         \/ waitlist' = Age(waitlist, LateCap)
<1> DEFINE ByRequest == \E u \in Tasks : /\ Request(u)
                                         /\ u \in DOMAIN ModeOf => majorMode' = ModeOf[u]
<1>1. CASE Crew
  <2>1. CASE StartServicer
    <3>1. "servicer" \in Tasks /\ "servicer" \notin DOMAIN ModeOf
      BY NavAssumption DEF NavAssumption, ModeOf
    <3> QED
      BY <2>1, <3>1 DEF StartServicer
  <2>2. CASE "p02" \in Tasks /\ SelectP02
    BY <2>2 DEF SelectP02, ModeOf
  <2>3. CASE \E t \in {"p20", "p22"} \cap Tasks : SelectTracking(t)
    BY <2>3 DEF SelectTracking
  <2>4. CASE "p23" \in Tasks /\ SelectP23
    BY <2>4 DEF SelectP23, ModeOf
  <2>5. CASE SelectP00 \/ SelectP06 \/ FreshStart \/ Restart
    BY <2>5 DEF SelectP00, SelectP06, FreshStart, Restart
  <2> QED
    BY <1>1, <2>1, <2>2, <2>3, <2>4, <2>5 DEF Crew
<1>2. CASE TaskBody
  <2>1. PICK t \in {"servicer", "p02", "p20", "p22", "p23"} :
          /\ InTask(t)
          /\ \/ Request(t) /\ (t \in DOMAIN ModeOf => majorMode' = ModeOf[t])
             \/ UNCHANGED waitlist
    BY <1>2 DEF TaskBody, ServicerTask, P02Step, TrackingCycle, P23Cycle, InTask, ModeOf
  <2>2. t \in Tasks
    BY <2>1 DEF InTask, NavInv, NavTypeOK, Idle
  <2> QED
    BY <2>1, <2>2
<1>3. CASE NavLoop \/ NavTick \/ UNCHANGED navVars
  BY <1>3 DEF NavLoop, SkipT3, TaskReturn, Rearm, NavTick, Tick, navVars
<1> QED
  BY <1>1, <1>2, <1>3 DEF NavNext, NavLoopStep

\* While t waits, its first entry is never pushed back, and every pop of
\* another task brings it nearer.
LEMMA FirstSteps ==
  ASSUME Inv, Inv', NavInv, [NavNext]_navVars, NEW t \in Tasks,
         Pending(t), Pending(t)', running' # t
  PROVE  /\ FirstNotFarther(t)
         /\ NavPop => FirstNearer(t)
<1>1. Sound(waitlist) /\ Sound(waitlist') /\ Holds(waitlist, t) /\ Holds(waitlist', t)
  BY DEF Inv, TypeOK, ChainSound, Sound, Pending, Holds
<1>2. waitlist' # <<>>
  BY EmptySeq DEF Pending
<1>3. /\ FirstSum(waitlist, t) \in Nat /\ FirstSum(waitlist', t) \in Nat
      /\ FirstSum(waitlist, t) \in SumsOf(waitlist, t)
      /\ \A r \in SumsOf(waitlist', t) : FirstSum(waitlist', t) <= r
  BY <1>1, FirstSumIs DEF SumsOf
<1>4. ReadyLen(waitlist) \in Nat /\ ReadyLen(waitlist') \in Nat
  BY <1>1, ReadyLenIs
<1>5. ASSUME NavPop PROVE FirstNearer(t)
  <2> DEFINE h == waitlist[1].sum
  <2>1. waitlist # <<>> /\ waitlist' = PopTask(waitlist) /\ waitlist[1].task # t
    BY <1>5 DEF NavPop, PopFront
  <2>2. h \in Nat
    <3>1. waitlist \in Seq(Entry) /\ 1 \in 1 .. Len(waitlist)
      BY <1>1, <2>1, EmptySeq DEF Sound, IsWaitlist
    <3> QED
      BY <3>1, ElementsAreEntries
  <2>3. /\ FirstSum(waitlist, t) - h \in SumsOf(waitlist', t)
        /\ h = 0 => ReadyLen(waitlist') = ReadyLen(waitlist) - 1
    BY <1>1, <1>3, <2>1, PopSums
  <2>4. FirstSum(waitlist', t) <= FirstSum(waitlist, t) - h
    BY <1>3, <2>3
  <2> QED
    BY <1>3, <1>4, <2>2, <2>3, <2>4 DEF FirstNearer
<1>6. CASE NavPop
  BY <1>5, <1>6 DEF FirstNotFarther
<1>7. CASE \E u \in Tasks : Request(u)
  <2>1. /\ SumsOf(waitlist, t) \subseteq SumsOf(waitlist', t)
        /\ ReadyLen(waitlist') = ReadyLen(waitlist)
    BY <1>1, <1>7, PeriodType, ScheduleSums DEF Request
  <2>2. FirstSum(waitlist', t) <= FirstSum(waitlist, t)
    BY <1>3, <2>1
  <2>3. FirstNotFarther(t)
    BY <1>3, <2>1, <2>2 DEF FirstNotFarther, FirstNearer
  <2> QED
    BY <1>5, <2>3
<1>8. CASE waitlist' = waitlist \/ waitlist' = Age(waitlist, LateCap)
  <2>1. SumsOf(waitlist', t) = SumsOf(waitlist, t) /\ ReadyLen(waitlist') = ReadyLen(waitlist)
    BY <1>1, <1>8, AgeSums, RunLoopAssumption DEF RunLoopAssumption
  <2>2. FirstSum(waitlist', t) = FirstSum(waitlist, t)
    BY <2>1 DEF FirstSum
  <2>3. FirstNotFarther(t)
    BY <2>1, <2>2 DEF FirstNotFarther
  <2> QED
    BY <1>5, <2>3
<1> QED
  BY <1>2, <1>6, <1>7, <1>8, NavListSteps

\* Outside its mode a program's task is not requested: it does not come back,
\* its last entry is never pushed back, and every pop brings it nearer.
LEMMA LastSteps ==
  ASSUME Inv, Inv', NavInv, [NavNext]_navVars, NEW t \in Tasks \cap DOMAIN ModeOf,
         majorMode' # ModeOf[t], Pending(t)'
  PROVE  /\ Pending(t)
         /\ LastNotFarther(t)
         /\ NavPop => LastNearer(t)
<1>1. Sound(waitlist) /\ Sound(waitlist') /\ Holds(waitlist', t) /\ t \in Tasks
  BY DEF Inv, TypeOK, ChainSound, Sound, Pending, Holds
<1>2. waitlist' # <<>>
  BY EmptySeq DEF Pending
<1>3. SumsOf(waitlist', t) # {}
  BY <1>1, SumsBounded
<1>4. ASSUME SumsOf(waitlist, t) # {} PROVE Pending(t)
  BY <1>4 DEF SumsOf, Pending
<1>5. ReadyLen(waitlist) \in Nat /\ ReadyLen(waitlist') \in Nat
  BY <1>1, ReadyLenIs
<1>6. ASSUME Pending(t)
      PROVE  /\ LastSum(waitlist, t) \in Nat /\ LastSum(waitlist', t) \in Nat
             /\ LastSum(waitlist', t) \in SumsOf(waitlist', t)
             /\ \A r \in SumsOf(waitlist, t) : r <= LastSum(waitlist, t)
  <2>1. Holds(waitlist, t)
    BY <1>6 DEF Pending, Holds
  <2> QED
    BY <1>1, <2>1, LastSumIs DEF SumsOf
<1>7. ASSUME NavPop PROVE Pending(t) /\ LastNearer(t)
  <2> DEFINE h == waitlist[1].sum
  <2>1. waitlist # <<>> /\ waitlist' = PopTask(waitlist)
    BY <1>7 DEF NavPop, PopFront
  <2>2. h \in Nat
    <3>1. waitlist \in Seq(Entry) /\ 1 \in 1 .. Len(waitlist)
      BY <1>1, <2>1, EmptySeq DEF Sound, IsWaitlist
    <3> QED
      BY <3>1, ElementsAreEntries
  <2>3. /\ \A s \in SumsOf(waitlist', t) : s + h \in SumsOf(waitlist, t)
        /\ h = 0 => ReadyLen(waitlist') = ReadyLen(waitlist) - 1
    BY <1>1, <2>1, PopSums
  <2>4. Pending(t)
    BY <1>3, <1>4, <2>3
  <2>5. LastSum(waitlist', t) + h <= LastSum(waitlist, t)
    BY <1>6, <2>3, <2>4
  <2> QED
    BY <1>5, <1>6, <2>2, <2>3, <2>4, <2>5 DEF LastNearer
<1>8. CASE NavPop
  BY <1>7, <1>8 DEF LastNotFarther
<1>9. CASE \/ \E u \in Tasks : /\ Request(u)
                               /\ u \in DOMAIN ModeOf => majorMode' = ModeOf[u]
           \/ waitlist' = waitlist
           \/ waitlist' = Age(waitlist, LateCap)
  <2>1. SumsOf(waitlist', t) = SumsOf(waitlist, t) /\ ReadyLen(waitlist') = ReadyLen(waitlist)
    <3>1. CASE \E u \in Tasks : Request(u) /\ u # t
      BY <1>1, <3>1, PeriodType, ScheduleSums DEF Request
    <3>2. CASE waitlist' = waitlist \/ waitlist' = Age(waitlist, LateCap)
      BY <1>1, <3>2, AgeSums, RunLoopAssumption DEF RunLoopAssumption
    <3> QED
      BY <1>9, <3>1, <3>2
  <2>2. Pending(t) /\ LastSum(waitlist', t) = LastSum(waitlist, t)
    BY <1>3, <1>4, <2>1 DEF LastSum
  <2>3. LastNotFarther(t)
    BY <2>1, <2>2 DEF LastNotFarther
  <2> QED
    BY <1>7, <2>2, <2>3
<1> QED
  BY <1>2, <1>8, <1>9, NavListSteps

-----------------------------------------------------------------------------
\* Service.

\* The fairness of FairNavSpec with the guards spelled out, as in
\* RunLoopProofs.
NavLoopRuns == []<><<NavLoopStep>>_navVars
NavClockRuns == []<>(t3 = 0) \/ []<><<NavTick>>_navVars

\* A body runs once for each pop, so the loop itself goes on.
LEMMA NavFairness ==
  NavSpec /\ NavLoopRuns /\ NavClockRuns => LoopRuns /\ ClockRuns
<1>1. NavInv /\ [NavNext]_navVars =>
        /\ running = Idle => (running = Idle)' \/ <<LoopStep>>_loopVars
        /\ <<NavLoopStep>>_navVars => <<LoopStep>>_loopVars \/ (running = Idle)'
        /\ <<NavLoopStep>>_navVars /\ running = Idle => <<LoopStep>>_loopVars
        /\ <<NavTick>>_navVars => <<Tick>>_loopVars
  <2> SUFFICES ASSUME NavInv, [NavNext]_navVars
               PROVE  /\ running = Idle => (running = Idle)' \/ <<LoopStep>>_loopVars
                      /\ <<NavLoopStep>>_navVars => <<LoopStep>>_loopVars \/ (running = Idle)'
                      /\ <<NavLoopStep>>_navVars /\ running = Idle => <<LoopStep>>_loopVars
                      /\ <<NavTick>>_navVars => <<Tick>>_loopVars
    OBVIOUS
  <2>1. NavPop \/ NavLoop => <<LoopStep>>_loopVars
    BY DEF NavPop, NavLoop, LoopStep, SkipT3, PopFront, TaskReturn, Rearm, ArmForNext,
           loopVars
  <2>2. TaskBody => running # Idle /\ running' = Idle
    BY DEF TaskBody, ServicerTask, P02Step, TrackingCycle, P23Cycle, InTask, Idle
  <2>3. Crew => running' = running
    BY DEF Crew, StartServicer, SelectP00, SelectP06, SelectP02, SelectTracking,
           SelectP23, FreshStart, Restart, InWork
  <2>4. NavTick => running' = running
    BY DEF NavTick
  <2>5. <<NavTick>>_navVars => <<Tick>>_loopVars
    BY DEF NavTick, navVars, loopVars
  <2> QED
    BY <2>1, <2>2, <2>3, <2>4, <2>5 DEF NavNext, NavLoopStep, navVars
<1> QED
  BY <1>1, NavInvHolds, PTL DEF NavSpec, NavLoopRuns, NavClockRuns, LoopRuns, ClockRuns

\* With the real programs too, a waiting list is served.
THEOREM NavListServed ==
  ASSUME FlightWidths
  PROVE  NavSpec /\ NavLoopRuns /\ NavClockRuns => ServedEventually
<1> QED
  BY NavFairness, NavImplementsRunLoop, WaitingListServed, PTL DEF ImplementsRunLoop

\* The head is popped over and over as long as the list is not empty.
LEMMA PopsGoOn ==
  ASSUME FlightWidths
  PROVE  NavSpec /\ NavLoopRuns /\ NavClockRuns /\ <>[](waitlist # <<>>) =>
           []<><<NavPop>>_navVars
<1>1. [NavNext]_navVars =>
        /\ ~(phase = "task") => ~(phase = "task")' \/ <<NavPop>>_navVars
        /\ <<LoopStep>>_loopVars /\ phase = "task" => ~(phase = "task")'
  <2> SUFFICES ASSUME [NavNext]_navVars
               PROVE  /\ phase # "task" => phase' # "task" \/ <<NavPop>>_navVars
                      /\ LoopStep /\ phase = "task" => phase' # "task"
    OBVIOUS
  <2>1. NavPop => <<NavPop>>_navVars
    BY DEF NavPop, PopFront, navVars
  <2>2. LoopStep /\ phase = "task" => phase' # "task"
    BY DEF LoopStep, SkipT3, PopFront, TaskReturn, ArmForNext, Rearm
  <2>3. CASE Crew
    BY <2>2, <2>3 DEF Crew, StartServicer, SelectP00, SelectP06, SelectP02, SelectTracking,
           SelectP23, FreshStart, Restart, InWork
  <2>4. CASE TaskBody
    BY <2>2, <2>4 DEF TaskBody, ServicerTask, P02Step, TrackingCycle, P23Cycle, InTask
  <2>5. CASE NavLoop \/ NavTick \/ UNCHANGED navVars
    BY <2>2, <2>5 DEF NavLoop, SkipT3, TaskReturn, ArmForNext, Rearm, NavTick, Tick, navVars
  <2> QED
    BY <2>1, <2>2, <2>3, <2>4, <2>5 DEF NavNext, NavLoopStep
<1>2. waitlist # <<>> <=> ~(waitlist = <<>>)
  OBVIOUS
<1>3. [][NavNext]_navVars /\ LoopRuns /\ ServedEventually /\ <>[](waitlist # <<>>) =>
        []<><<NavPop>>_navVars
  BY <1>1, <1>2, PTL DEF ServedEventually, LoopRuns
<1> QED
  BY <1>3, NavListServed, NavFairness, PTL DEF NavSpec

\* The two ways in which a task could stay in the list: its first entry comes
\* nearer for ever, or its last one does.
FirstNearsForever(t) ==
  <>[][FirstNotFarther(t)]_navVars /\ []<><<FirstNearer(t)>>_navVars
LastNearsForever(t) ==
  <>[][LastNotFarther(t)]_navVars /\ []<><<LastNearer(t)>>_navVars

\* The distance as one number, for the first entry of t or for the last: with
\* MAX_WAITLIST_TASKS = 8 fewer than 16 entries are ready.
Distance(e, t) ==
  16 * (IF e = "first" THEN FirstSum(waitlist, t) ELSE LastSum(waitlist, t))
    + ReadyLen(waitlist)

DistanceKept(e, t) == Distance(e, t)' <= Distance(e, t)
DistanceFalls(e, t) == Distance(e, t)' < Distance(e, t)
DistanceFallsForever(e, t) ==
  <>[][DistanceKept(e, t)]_navVars /\ []<><<DistanceFalls(e, t)>>_navVars

LEMMA DistanceIs ==
  ASSUME FlightWidths, Inv, NEW t \in Tasks, Pending(t), NEW e \in {"first", "last"}
  PROVE  /\ FirstSum(waitlist, t) \in Nat /\ LastSum(waitlist, t) \in Nat
         /\ ReadyLen(waitlist) \in 0 .. 8
         /\ Distance(e, t) \in Nat /\ Distance(e, t) < 1048576
<1>1. Sound(waitlist) /\ Holds(waitlist, t)
  BY InvIsSound DEF Pending, Holds
<1>2. FirstSum(waitlist, t) \in 0 .. MaxDelay /\ LastSum(waitlist, t) \in 0 .. MaxDelay
  BY <1>1, SumsBounded, FirstSumIs, LastSumIs
<1>3. ReadyLen(waitlist) \in 0 .. 8
  <2>1. /\ ReadyLen(waitlist) \in Nat /\ Ready(waitlist) = 1 .. ReadyLen(waitlist)
        /\ Len(waitlist) \in Nat /\ Len(waitlist) <= 8
    BY <1>1, ReadyLenIs, WaitlistAssumption
    DEF Sound, IsWaitlist, FlightWidths, WaitlistAssumption
  <2>2. ReadyLen(waitlist) > 0 => ReadyLen(waitlist) \in Ready(waitlist)
    BY <2>1
  <2>3. Ready(waitlist) \subseteq 1 .. Len(waitlist)
    BY DEF Ready
  <2> QED
    BY <2>1, <2>2, <2>3
<1>4. MaxDelay \in Nat /\ MaxDelay < 65536
  BY WaitlistAssumption DEF WaitlistAssumption, FlightWidths
<1> QED
  BY <1>2, <1>3, <1>4 DEF Distance

LEMMA DistanceFollows ==
  ASSUME FlightWidths, NEW t \in Tasks
  PROVE  NavSpec =>
           /\ <>[]Pending(t) /\ FirstNearsForever(t) => DistanceFallsForever("first", t)
           /\ <>[]Pending(t) /\ LastNearsForever(t) => DistanceFallsForever("last", t)
<1> DEFINE Sizes == /\ FirstSum(waitlist, t) \in Nat /\ LastSum(waitlist, t) \in Nat
                    /\ ReadyLen(waitlist) \in 0 .. 8
<1>1. Inv /\ Pending(t) => Sizes
  BY DistanceIs
<1>2. Inv' /\ Pending(t)' => Sizes'
  BY <1>1, PTL
<1>3. Inv /\ Inv' /\ Pending(t) /\ Pending(t)' =>
        /\ [FirstNotFarther(t)]_navVars => [DistanceKept("first", t)]_navVars
        /\ <<FirstNearer(t)>>_navVars => <<DistanceFalls("first", t)>>_navVars
        /\ [LastNotFarther(t)]_navVars => [DistanceKept("last", t)]_navVars
        /\ <<LastNearer(t)>>_navVars => <<DistanceFalls("last", t)>>_navVars
  <2> SUFFICES ASSUME Inv, Inv', Pending(t), Pending(t)'
               PROVE  /\ FirstNotFarther(t) => DistanceKept("first", t)
                      /\ FirstNearer(t) => DistanceFalls("first", t)
                      /\ LastNotFarther(t) => DistanceKept("last", t)
                      /\ LastNearer(t) => DistanceFalls("last", t)
    OBVIOUS
  <2>1. Sizes /\ Sizes'
    BY <1>1, <1>2
  <2> QED
    BY <2>1
    DEF FirstNotFarther, FirstNearer, LastNotFarther, LastNearer, DistanceKept,
        DistanceFalls, Distance
<1> QED
  BY <1>3, NavInvHolds, PTL
  DEF FirstNearsForever, LastNearsForever, DistanceFallsForever

\* As for the timer: a distance that never rises settles in one half of the
\* values it can still have, and so on down to one.
DistanceIn(e, t, a, w) == <>[](a <= Distance(e, t) /\ Distance(e, t) < a + w)
DistanceWithin(e, t, w) == \E a \in Nat : DistanceIn(e, t, a, w)
DistanceOnlyFalls(e, t) ==
  <>[](Distance(e, t) \in Nat) /\ <>[][DistanceKept(e, t)]_navVars

LEMMA DistanceNarrows ==
  ASSUME NEW e, NEW t, NEW a \in Nat, NEW w \in Nat
  PROVE  DistanceOnlyFalls(e, t) /\ DistanceIn(e, t, a, 2 * w)
           => DistanceIn(e, t, a, w) \/ DistanceIn(e, t, a + w, w)
<1>1. UNCHANGED navVars => Distance(e, t)' = Distance(e, t)
  BY DEF Distance, FirstSum, LastSum, SumsOf, ReadyLen, Ready, navVars
<1>2. Distance(e, t) \in Nat /\ (Distance(e, t) \in Nat)' /\ [DistanceKept(e, t)]_navVars
        /\ Distance(e, t) < a + w => (Distance(e, t) < a + w)'
  BY <1>1 DEF DistanceKept
<1>3. Distance(e, t) \in Nat /\ a <= Distance(e, t) /\ Distance(e, t) < a + 2 * w
        => Distance(e, t) < a + w \/ (a + w <= Distance(e, t) /\ Distance(e, t) < (a + w) + w)
  OBVIOUS
<1> QED
  BY <1>2, <1>3, PTL DEF DistanceIn, DistanceOnlyFalls

LEMMA DistanceHalves ==
  ASSUME NEW e, NEW t, NEW w \in Nat
  PROVE  DistanceOnlyFalls(e, t) /\ DistanceWithin(e, t, 2 * w) => DistanceWithin(e, t, w)
<1> SUFFICES ASSUME DistanceOnlyFalls(e, t), DistanceWithin(e, t, 2 * w)
             PROVE  DistanceWithin(e, t, w)
  OBVIOUS
<1>1. PICK a \in Nat : DistanceIn(e, t, a, 2 * w)
  BY DEF DistanceWithin
<1>2. DistanceIn(e, t, a, w) \/ DistanceIn(e, t, a + w, w)
  BY <1>1, DistanceNarrows
<1>3. a + w \in Nat
  OBVIOUS
<1> QED
  BY <1>2, <1>3 DEF DistanceWithin

LEMMA DistanceSettles ==
  ASSUME NEW e, NEW t
  PROVE  DistanceOnlyFalls(e, t) /\ DistanceWithin(e, t, 1048576) => DistanceWithin(e, t, 1)
<1> SUFFICES ASSUME DistanceOnlyFalls(e, t), DistanceWithin(e, t, 1048576)
             PROVE  DistanceWithin(e, t, 1)
  OBVIOUS
<1>1. \A w \in Nat : DistanceWithin(e, t, 2 * w) => DistanceWithin(e, t, w)
  BY DistanceHalves
<1>2. DistanceWithin(e, t, 65536)
  BY <1>1, 1048576 = 2 * 524288, 524288 = 2 * 262144, 262144 = 2 * 131072,
     131072 = 2 * 65536
<1>3. DistanceWithin(e, t, 4096)
  BY <1>1, <1>2, 65536 = 2 * 32768, 32768 = 2 * 16384, 16384 = 2 * 8192, 8192 = 2 * 4096
<1>4. DistanceWithin(e, t, 256)
  BY <1>1, <1>3, 4096 = 2 * 2048, 2048 = 2 * 1024, 1024 = 2 * 512, 512 = 2 * 256
<1>5. DistanceWithin(e, t, 16)
  BY <1>1, <1>4, 256 = 2 * 128, 128 = 2 * 64, 64 = 2 * 32, 32 = 2 * 16
<1> QED
  BY <1>1, <1>5, 16 = 2 * 8, 8 = 2 * 4, 4 = 2 * 2, 2 = 2 * 1

LEMMA DistanceStops ==
  ASSUME FlightWidths, NEW t \in Tasks, NEW e \in {"first", "last"}
  PROVE  NavSpec /\ <>[]Pending(t) => ~DistanceFallsForever(e, t)
<1>1. Inv /\ Pending(t) => /\ Distance(e, t) \in Nat
                           /\ 0 <= Distance(e, t) /\ Distance(e, t) < 0 + 1048576
  BY DistanceIs
<1>2. [](Inv /\ NavInv) /\ <>[]Pending(t) => /\ <>[](Distance(e, t) \in Nat)
                                             /\ DistanceIn(e, t, 0, 1048576)
  BY <1>1, PTL DEF DistanceIn
<1>3. DistanceIn(e, t, 0, 1048576) => DistanceWithin(e, t, 1048576)
  BY DEF DistanceWithin
<1>4. ASSUME NEW a \in Nat
      PROVE  DistanceOnlyFalls(e, t) /\ DistanceIn(e, t, a, 1) => ~DistanceFallsForever(e, t)
  <2>1. Distance(e, t) \in Nat /\ (Distance(e, t) \in Nat)'
          /\ a <= Distance(e, t) /\ Distance(e, t) < a + 1
          /\ (a <= Distance(e, t))' /\ (Distance(e, t) < a + 1)' => ~DistanceFalls(e, t)
    BY DEF DistanceFalls
  <2> QED
    BY <2>1, PTL DEF DistanceOnlyFalls, DistanceIn, DistanceFallsForever
<1>5. DistanceOnlyFalls(e, t) /\ DistanceWithin(e, t, 1) => ~DistanceFallsForever(e, t)
  BY <1>4 DEF DistanceWithin
<1>6. <>[](Distance(e, t) \in Nat) /\ DistanceFallsForever(e, t) => DistanceOnlyFalls(e, t)
  BY PTL DEF DistanceFallsForever, DistanceOnlyFalls
<1> QED
  BY <1>2, <1>3, <1>5, <1>6, DistanceSettles, NavInvHolds

\* Every pending task has its turn or goes with the list, whatever the crew
\* keeps selecting: neither the insertions in front of it nor the restarted
\* countdowns put it off for ever.
THEOREM TasksServed ==
  ASSUME FlightWidths
  PROVE  NavSpec /\ NavLoopRuns /\ NavClockRuns => EveryTaskServed
<1> SUFFICES ASSUME NEW t \in Tasks
             PROVE  NavSpec /\ NavLoopRuns /\ NavClockRuns =>
                      (Pending(t) ~> (running = t \/ ~Pending(t)))
  BY DEF EveryTaskServed
<1>1. Pending(t) => waitlist # <<>>
  BY EmptySeq DEF Pending
<1>2. Inv /\ Inv' /\ NavInv /\ [NavNext]_navVars /\ Pending(t) /\ Pending(t)'
        /\ ~(running = t)' =>
          FirstNotFarther(t) /\ (NavPop => FirstNearer(t))
  BY FirstSteps
<1>3. [][NavNext]_navVars /\ [](Inv /\ NavInv) /\ []<><<NavPop>>_navVars
        /\ <>[](Pending(t) /\ ~(running = t)) => FirstNearsForever(t)
  BY <1>2, PTL DEF FirstNearsForever
<1>4. ~(Pending(t) ~> (running = t \/ ~Pending(t))) =>
        /\ <>[](Pending(t) /\ ~(running = t))
        /\ <>[]Pending(t) /\ <>[](waitlist # <<>>)
  BY <1>1, PTL
<1>5. NavSpec /\ <>[]Pending(t) => ~DistanceFallsForever("first", t)
  BY DistanceStops
<1> QED
  BY <1>3, <1>4, <1>5, DistanceFollows, PopsGoOn, NavInvHolds, PTL DEF NavSpec

\* A program left for good leaves the waitlist for good, with every chain that
\* re-selecting it had started: its last entry comes nearer with every pop,
\* and none is added behind it.
THEOREM LeftChainsEnd ==
  ASSUME FlightWidths
  PROVE  NavSpec /\ NavLoopRuns /\ NavClockRuns => ChainsEnd
<1> SUFFICES ASSUME NEW t \in Tasks \cap DOMAIN ModeOf
             PROVE  NavSpec /\ NavLoopRuns /\ NavClockRuns =>
                      (<>[](majorMode # ModeOf[t]) => <>[]~Pending(t))
  BY DEF ChainsEnd
<1>1. Pending(t) => waitlist # <<>>
  BY EmptySeq DEF Pending
<1>2. Inv /\ Inv' /\ NavInv /\ [NavNext]_navVars /\ (majorMode # ModeOf[t])' /\ Pending(t)' =>
        Pending(t) /\ LastNotFarther(t) /\ (NavPop => LastNearer(t))
  BY LastSteps
<1>3. [][NavNext]_navVars /\ [](Inv /\ NavInv) /\ <>[](majorMode # ModeOf[t])
        /\ ~<>[]~Pending(t) => <>[]Pending(t)
  BY <1>2, PTL
<1>4. [][NavNext]_navVars /\ [](Inv /\ NavInv) /\ []<><<NavPop>>_navVars
        /\ <>[](majorMode # ModeOf[t]) /\ <>[]Pending(t) => LastNearsForever(t)
  BY <1>2, PTL DEF LastNearsForever
<1>5. <>[]Pending(t) => <>[](waitlist # <<>>)
  BY <1>1, PTL
<1>6. NavSpec /\ <>[]Pending(t) => ~DistanceFallsForever("last", t)
  BY DistanceStops
<1>7. NavSpec /\ <>[]Pending(t) /\ LastNearsForever(t) => DistanceFallsForever("last", t)
  BY DistanceFollows
<1> QED
  BY <1>3, <1>4, <1>5, <1>6, <1>7, PopsGoOn, NavInvHolds, PTL DEF NavSpec
=============================================================================
