---------------------------- MODULE TimedTasks ----------------------------
(***************************************************************************)
(* What the waitlist promises its callers, with no chain, no timer and no  *)
(* run loop: "Schedule a task to fire `centiseconds` from now" (the doc of *)
(* Waitlist::schedule).  A pending task is a task function and the time    *)
(* left until the requested moment.  It may be dispatched late - another   *)
(* handler may be running - but never early, and it is dispatched once.    *)
(***************************************************************************)
EXTENDS Integers, Sequences

CONSTANTS
  Tasks,       \* the task functions
  Delays,      \* the delays callers ask for
  Capacity,    \* the most tasks that can be pending
  LateCap    \* bound: lateness is counted up to here

\* The pending tasks.  The order of this list means nothing: a task is added
\* anywhere in it, and any task whose time has come may be dispatched.
VARIABLE pending

Timed(t, cs) == [task |-> t, left |-> cs]

Init ==
  \/ pending = <<>>
  \/ \E t \in Tasks, cs \in Delays : pending = <<Timed(t, cs)>>

Add(t, cs) ==
  /\ Len(pending) < Capacity
  /\ \E p \in 1 .. Len(pending) + 1 :
       pending' = [ i \in 1 .. Len(pending) + 1 |->
                      IF i < p THEN pending[i]
                      ELSE IF i = p THEN Timed(t, cs)
                      ELSE pending[i - 1] ]

\* A task whose time has come leaves the list.
Fire(p) ==
  /\ pending[p].left <= 0
  /\ pending' = [ i \in 1 .. Len(pending) - 1 |->
                    IF i < p THEN pending[i] ELSE pending[i + 1] ]

Clear == pending' = <<>>

\* One centisecond off every task.
Pass ==
  pending' = [ i \in 1 .. Len(pending) |->
                 [pending[i] EXCEPT !.left = IF @ > -LateCap THEN @ - 1 ELSE @] ]

Next ==
  \/ \E t \in Tasks, cs \in Delays : Add(t, cs)
  \/ \E p \in 1 .. Len(pending) : Fire(p)
  \/ Clear
  \/ Pass

Spec == Init /\ [][Next]_pending
=============================================================================
