------------------------------ MODULE RunLoop ------------------------------
(***************************************************************************)
(* The part of Executive::run (agc-core/src/executive/scheduler.rs) that   *)
(* owns the waitlist: the T3RUPT drain, the foreground handlers of an      *)
(* iteration, and the lazy re-arm of T3 at its end, against the one-shot   *)
(* timer TIM2 of the board and its ISR.                                    *)
(*                                                                         *)
(* One iteration goes through three phases.                                *)
(*   "t3"   - about to swap T3_PENDING                                     *)
(*   "task" - a task has been popped and is running                        *)
(*   "work" - key handlers and jobs, up to the re-arm                      *)
(* The ISR only sets T3_PENDING, so it can strike in every phase; what the *)
(* loop does in a phase is atomic with respect to it.                      *)
(*                                                                         *)
(* What a task, a key handler or a job does to the waitlist is left open   *)
(* here: it may schedule tasks, and it may clear the list, as restart,     *)
(* fresh_start and _return_to_p00 do.  NavCycles fixes the handlers.       *)
(***************************************************************************)
EXTENDS Waitlist

CONSTANTS
  TaskDelays,    \* delays with which a task may call schedule
  WorkDelays,    \* delays with which a key handler or a job may
  ZeroReload,    \* what arm_t3(0) waits: 0 * 1000 - 1 wraps in u32
  Latency,       \* TRUE: time passes during an iteration; FALSE: it is instant
  LateCap        \* bound: lateness is counted up to here

ASSUME RunLoopAssumption ==
  /\ TaskDelays \subseteq 1 .. MaxDelay
  /\ WorkDelays \subseteq 1 .. MaxDelay
  /\ ZeroReload \in Nat \ {0}
  /\ Latency \in BOOLEAN
  /\ LateCap \in Nat

VARIABLES
  waitlist,    \* AgcState::waitlist
  t3,          \* centiseconds left on TIM2; 0 when the one-shot is stopped
  t3Pending,   \* T3_PENDING
  lastArmed,   \* last_armed_t3, a local of run
  next,        \* next_delta, taken by pop_task before the task runs
  phase        \* where the iteration is

loopVars == <<waitlist, t3, t3Pending, lastArmed, next, phase>>

-----------------------------------------------------------------------------

\* Wrong on purpose: the reload is one centisecond short.
ArmT3Short(cs) == IF cs <= 1 THEN ZeroReload ELSE cs - 1

\* What TIM2 is loaded with by arm_t3(cs).  The release profile sets
\* overflow-checks = false, so a zero wraps to the longest wait there is.
ArmT3(cs) == IF cs = 0 THEN ZeroReload ELSE cs

\* The lists that one call made by a handler can leave, where D holds the
\* delays it may schedule with.  A handler makes any number of calls.
CallEffects(list, D) ==
  {list, <<>>} \cup UNION { Schedule(list, cs, t) : cs \in D, t \in Tasks }

\* Boot has scheduled what it schedules; run() arms T3 for the list's front.
Init ==
  /\ waitlist \in CallEffects(<<>>, TaskDelays)
  /\ t3 = IF waitlist = <<>> THEN 0 ELSE ArmT3(FrontDelta(waitlist))
  /\ t3Pending = FALSE
  /\ lastArmed = FrontDelta(waitlist)
  /\ next = None
  /\ phase = "t3"

\* The top of an iteration finds T3_PENDING clear, or set with nothing to pop.
SkipT3 ==
  /\ phase = "t3"
  /\ ~t3Pending \/ waitlist = <<>>
  /\ t3Pending' = FALSE
  /\ phase' = "work"
  /\ UNCHANGED <<waitlist, t3, lastArmed, next>>

\* T3_PENDING was set: pop the front and remember the next delta.
PopFront ==
  /\ phase = "t3"
  /\ t3Pending
  /\ waitlist # <<>>
  /\ t3Pending' = FALSE
  /\ waitlist' = PopTask(waitlist)
  /\ next' = FrontDelta(waitlist')
  /\ phase' = "task"
  /\ UNCHANGED <<t3, lastArmed>>

\* Wrong on purpose: the cache survives a list that has become empty.
ArmForNextKeepsCache ==
  /\ t3' = IF next = None THEN t3 ELSE ArmT3(next)
  /\ lastArmed' = IF next = None THEN lastArmed ELSE next
  /\ next' = None
  /\ phase' = "work"
  /\ UNCHANGED t3Pending

\* After the task: T3 is armed for the delta taken BEFORE it ran.
ArmForNext ==
  /\ t3' = IF next = None THEN t3 ELSE ArmT3(next)
  /\ lastArmed' = next
  /\ next' = None
  /\ phase' = "work"
  /\ UNCHANGED t3Pending

TaskCall ==
  /\ phase = "task"
  /\ waitlist' \in CallEffects(waitlist, TaskDelays)
  /\ UNCHANGED <<t3, t3Pending, lastArmed, next, phase>>

TaskReturn ==
  /\ phase = "task"
  /\ ArmForNext
  /\ UNCHANGED waitlist

\* A key handler or a job.  Any number of them run in one iteration.
WorkCall ==
  /\ phase = "work"
  /\ waitlist' \in CallEffects(waitlist, WorkDelays)
  /\ UNCHANGED <<t3, t3Pending, lastArmed, next, phase>>

\* Wrong on purpose: the timer is loaded again in every iteration.
RearmAlways ==
  LET front == FrontDelta(waitlist) IN
  /\ phase = "work"
  /\ t3' = IF front # None THEN ArmT3(front) ELSE t3
  /\ lastArmed' = front
  /\ phase' = "t3"
  /\ UNCHANGED <<waitlist, t3Pending, next>>

\* The end of the iteration: touch the timer only when the front changed.
Rearm ==
  LET front == FrontDelta(waitlist) IN
  /\ phase = "work"
  /\ t3' = IF front # lastArmed /\ front # None THEN ArmT3(front) ELSE t3
  /\ lastArmed' = front
  /\ phase' = "t3"
  /\ UNCHANGED <<waitlist, t3Pending, next>>

\* A centisecond.  The one-shot stops when it expires and its ISR posts
\* T3_PENDING.
Tick ==
  /\ Latency \/ (phase = "t3" /\ ~t3Pending)
  /\ t3' = IF t3 > 0 THEN t3 - 1 ELSE 0
  /\ t3Pending' = (t3Pending \/ t3 = 1)
  /\ waitlist' = Age(waitlist, LateCap)
  /\ UNCHANGED <<lastArmed, next, phase>>

LoopStep == SkipT3 \/ PopFront \/ TaskReturn \/ Rearm

HandlerCall == TaskCall \/ WorkCall

Next == LoopStep \/ HandlerCall \/ Tick

Spec == Init /\ [][Next]_loopVars

\* The loop never blocks and the clock never stops.  Nothing is assumed of
\* the handlers: their calls have no fairness.
FairSpec == Spec /\ WF_loopVars(LoopStep) /\ WF_loopVars(Tick)

-----------------------------------------------------------------------------

\* Every variable keeps its shape.
TypeOK ==
  /\ IsWaitlist(waitlist)
  /\ t3 \in Nat
  /\ t3Pending \in BOOLEAN
  /\ lastArmed \in Nat \cup {None}
  /\ next \in Nat \cup {None}
  /\ phase \in {"t3", "task", "work"}

\* The chain is sound whatever the handlers schedule and whenever the timer
\* fires: the sums match the deltas and none leaves the range of a delay, so
\* the u16 arithmetic of `schedule` never wraps.
ChainSound == ChainSums(waitlist) /\ ChainInRange(waitlist)

\* No wake-up is lost: at the top of every iteration, a pending task means a
\* running timer or a posted interrupt.  This is what last_armed_t3 puts at
\* risk: the loop skips arm_t3 on the strength of a cached delta, while
\* handlers clear and refill the list and stale interrupts pop entries.
NoLostWakeup ==
  phase = "t3" /\ waitlist # <<>> => t3 > 0 \/ t3Pending

\* A waiting list is served: whatever the crew does, a task is eventually
\* dispatched or the list is cleared.  Re-arming restarts the countdown, so
\* a stream of insertions at the front could starve the list; the list's
\* capacity is what bounds it.
ServedEventually ==
  (waitlist # <<>>) ~> (phase = "task" \/ waitlist = <<>>)

-----------------------------------------------------------------------------

\* The pending tasks as their callers see them.
Promised ==
  [ i \in 1 .. Len(waitlist) |->
      [task |-> waitlist[i].task, left |-> waitlist[i].due] ]

Promise ==
  INSTANCE TimedTasks WITH
    Delays <- TaskDelays \cup WorkDelays, Capacity <- MaxTasks,
    pending <- Promised

\* The chain, the timer and the loop implement what `schedule` promises: no
\* task is dispatched before the time asked for, none twice.  It holds when
\* only tasks schedule (WorkDelays = {}) and the loop is prompt, because the
\* head's delta is then as old as the timer.  A key handler finds a head that
\* has not aged since it was armed, and may make its entry early.
NeverEarly == Promise!Spec
=============================================================================
