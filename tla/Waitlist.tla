------------------------------ MODULE Waitlist ------------------------------
(***************************************************************************)
(* The delta-time chain of agc-core/src/executive/waitlist.rs: a bounded   *)
(* list of pending tasks, each holding the centiseconds between it and its *)
(* predecessor.  This module has no variables: it defines the value of the *)
(* list after each operation, and the modules that own a waitlist          *)
(* (RunLoop, and NavCycles on top of it) use these operators in actions.   *)
(*                                                                         *)
(* An entry carries two history fields that the code does not store.       *)
(*   sum - the value of `running_sum` once the walk in `schedule` has      *)
(*         passed the entry, i.e. the sum of the deltas up to and          *)
(*         including it.  ChainSums below says so, and is proved to be     *)
(*         preserved by every operation, which is why Position may read    *)
(*         sum where the code recomputes it.                               *)
(*   due - the centiseconds left until the moment its caller asked for; a  *)
(*         negative due is a task that is late.                            *)
(***************************************************************************)
EXTENDS Integers, Sequences

CONSTANTS
  Tasks,      \* the task functions
  MaxTasks,   \* MAX_WAITLIST_TASKS, 8 in the code
  MaxDelay    \* the longest delay a caller may ask for, 16383 in the code

ASSUME WaitlistAssumption ==
  /\ MaxTasks \in Nat \ {0}
  /\ MaxDelay \in Nat \ {0}

\* Option::None where the code has an Option<u16> of centiseconds.
None == -1

Entry == [delta : Nat, sum : Nat, due : Int, task : Tasks]

\* running_sum when the walk in schedule reaches position p.
SumBefore(list, p) == IF p = 1 THEN 0 ELSE list[p - 1].sum

\* Where the walk stops: the first entry due no earlier than cs, else the end.
\* An entry due at the same moment as an existing one goes in front of it.
Positions(list, cs) ==
  { p \in 1 .. Len(list) + 1 :
      /\ SumBefore(list, p) < cs
      /\ p <= Len(list) => cs <= list[p].sum }

\* Wrong on purpose: the successor keeps its delta.
InsertWithoutShrink(list, p, cs, t) ==
  [ i \in 1 .. Len(list) + 1 |->
      IF i < p THEN list[i]
      ELSE IF i = p THEN [delta |-> cs - SumBefore(list, p), sum |-> cs,
                          due |-> cs, task |-> t]
      ELSE list[i - 1] ]

\* The chain with a new entry at p; its successor's delta shrinks by as much
\* as the new entry takes.
InsertAtPosition(list, p, cs, t) ==
  LET newDelta == cs - SumBefore(list, p) IN
  [ i \in 1 .. Len(list) + 1 |->
      IF i < p THEN list[i]
      ELSE IF i = p THEN [delta |-> newDelta, sum |-> cs, due |-> cs, task |-> t]
      ELSE IF i = p + 1 THEN [list[p] EXCEPT !.delta = @ - newDelta]
      ELSE list[i - 1] ]

IsFull(list) == Len(list) >= MaxTasks

\* Wrong on purpose: no check of the capacity.
ScheduleUnchecked(list, cs, t) ==
  { InsertAtPosition(list, p, cs, t) : p \in Positions(list, cs) }

\* The lists Waitlist::schedule may leave: one, which SchedulePositionUnique
\* proves.  A full list is left alone and the caller gets ScheduleResult::Full.
Schedule(list, cs, t) ==
  IF IsFull(list) THEN { list }
  ELSE { InsertAtPosition(list, p, cs, t) : p \in Positions(list, cs) }

\* Waitlist::pop_task.  The new head keeps its delta, which is now its sum.
PopTask(list) ==
  [ i \in 1 .. Len(list) - 1 |->
      [list[i + 1] EXCEPT !.sum = @ - list[1].sum] ]

\* Waitlist::front_delta
FrontDelta(list) == IF list = <<>> THEN None ELSE list[1].delta

\* One centisecond passes.  The chain does not age: only the history field
\* does, down to -cap: beyond that a task is just "very late".
Age(list, cap) ==
  [ i \in 1 .. Len(list) |->
      [list[i] EXCEPT !.due = IF @ > -cap THEN @ - 1 ELSE @] ]

-----------------------------------------------------------------------------

\* A waitlist as a value: at most MaxTasks entries of the right shape.
IsWaitlist(list) ==
  /\ list \in Seq(Entry)
  /\ Len(list) <= MaxTasks

\* The deltas really are the differences of the sums: no subtraction in
\* `schedule` or shift in `pop_task` ever loses or invents a centisecond.
ChainSums(list) ==
  \A i \in 1 .. Len(list) : list[i].sum = SumBefore(list, i) + list[i].delta

\* No entry lies beyond the longest delay, so the u16 additions of the walk
\* cannot wrap, and the u16 subtractions cannot go below zero.
ChainInRange(list) ==
  \A i \in 1 .. Len(list) : list[i].sum <= MaxDelay
=============================================================================
