------------------------------- MODULE Clock -------------------------------
(***************************************************************************)
(* Mission time.  AgcState::time has four writers: the T4 interrupt adds   *)
(* its 120 ms (executive/scheduler.rs), the SERVICER overwrites it with    *)
(* the epoch of the state vector it has just integrated                    *)
(* (services/average_g.rs), the crew and the uplink set or correct it      *)
(* (services/v_n.rs), FRESH START clears it.  One reader turns a           *)
(* difference of two readings into gyro torque: the drift compensation of  *)
(* the T4 handler, whose u32 subtraction wraps when time has gone back     *)
(* further than it has since come forward.                                 *)
(*                                                                         *)
(* Time passes one unit per Elapse; the crew, the interrupts and the loop  *)
(* interleave freely between two units.  The waitlist is reduced to what   *)
(* RunLoop shows of it: an entry that is due is dispatched, and a handler  *)
(* that schedules may make another entry late or early (Retime).           *)
(*                                                                         *)
(* The history variable rhythm judges the code and drives nothing: how     *)
(* long the SERVICER has run as one chain, on time, with nobody else       *)
(* writing the clock: "none", then "cycled" after a cycle, then "steady"   *)
(* after the next T4 interrupt.                                            *)
(***************************************************************************)
EXTENDS Integers

CONSTANTS
  Wrap,        \* 2^32 in the code: Met is a u32
  T4Period,    \* 12 cs
  Cycle,       \* the SERVICER's 200 cs
  Chains       \* the waitlist's slots, as many as SERVICER chains may take

ASSUME ClockAssumption ==
  /\ T4Period \in Nat \ {0}
  /\ Cycle \in Nat /\ Cycle > T4Period
  /\ Wrap \in Nat /\ Wrap > 2 * (Cycle + T4Period)

VARIABLES
  time,             \* AgcState::time
  epoch,            \* csm_state.epoch
  lastComp,         \* last_drift_comp_time
  servicerActive,   \* the SERVICER_ACTIVE flag
  due,              \* per chain, the time until its entry is dispatched
  t4,               \* TIM3, free running
  t4Pending,        \* T4_PENDING
  rhythm            \* history

clockVars == <<time, epoch, lastComp, servicerActive, due, t4, t4Pending,
               rhythm>>

Met == 0 .. Wrap - 1
Idle == -1        \* a chain that is not in the waitlist

\* Wrong on purpose: the sum is not wrapped.
AdvanceNoWrap(m, d) == m + d

\* Met::wrapping_add and Met::elapsed_since, for d < Wrap.
Advance(m, d) == IF m + d >= Wrap THEN m + d - Wrap ELSE m + d
Elapsed(later, earlier) ==
  IF later >= earlier THEN later - earlier ELSE later - earlier + Wrap

\* The loop has let an interrupt or a due task wait for a whole unit.
Overrun == t4Pending \/ \E c \in Chains : due[c] = 0

-----------------------------------------------------------------------------

\* Boot: a fresh state, then start_servicer.
Init ==
  /\ time = 0 /\ epoch = 0 /\ lastComp = 0
  /\ servicerActive = TRUE
  /\ \E c \in Chains : due = [k \in Chains |-> IF k = c THEN Cycle ELSE Idle]
  /\ t4 = T4Period
  /\ t4Pending = FALSE
  /\ rhythm = "none"

\* A unit of time.  An interrupt that finds its flag still up is lost.
Elapse ==
  /\ due' = [c \in Chains |-> IF due[c] > 0 THEN due[c] - 1 ELSE due[c]]
  /\ t4' = IF t4 = 1 THEN T4Period ELSE t4 - 1
  /\ t4Pending' = (t4Pending \/ t4 = 1)
  /\ rhythm' = IF Overrun THEN "none" ELSE rhythm
  /\ UNCHANGED <<time, epoch, lastComp, servicerActive>>

\* Wrong on purpose: the compensation is stamped before the clock moves.
DrainT4StampsEarly ==
  LET now == Advance(time, T4Period)
      dt == Elapsed(now, lastComp)
  IN /\ t4Pending /\ t4Pending' = FALSE
     /\ time' = now
     /\ lastComp' = IF dt > 0 THEN time ELSE lastComp
     /\ rhythm' = IF rhythm = "cycled" THEN "steady" ELSE rhythm
     /\ UNCHANGED <<epoch, servicerActive, due, t4>>

\* The T4 block of the loop; the torque it sends the gyros is left out.
DrainT4 ==
  LET now == Advance(time, T4Period)
      dt == Elapsed(now, lastComp)
  IN /\ t4Pending /\ t4Pending' = FALSE
     /\ time' = now
     /\ lastComp' = IF dt > 0 THEN now ELSE lastComp
     /\ rhythm' = IF rhythm = "cycled" THEN "steady" ELSE rhythm
     /\ UNCHANGED <<epoch, servicerActive, due, t4>>

\* Wrong on purpose: the step is added to a clock that T4 has moved already.
ServicerCycleCountsTwice(c) ==
  /\ due[c] = 0
  /\ servicerActive
  /\ epoch' = Advance(epoch, Cycle)
  /\ time' = Advance(time, Cycle)
  /\ due' = [due EXCEPT ![c] = Cycle]
  /\ rhythm' = IF \E k \in Chains \ {c} : due[k] # Idle THEN "none"
               ELSE IF rhythm = "none" /\ ~t4Pending THEN "cycled" ELSE rhythm
  /\ UNCHANGED <<lastComp, servicerActive, t4, t4Pending>>

\* servicer_task with the flag up: integrate over 2 s whatever has elapsed,
\* take the clock from the new epoch, come back.
ServicerCycle(c) ==
  /\ due[c] = 0
  /\ servicerActive
  /\ epoch' = Advance(epoch, Cycle)
  /\ time' = Advance(epoch, Cycle)
  /\ due' = [due EXCEPT ![c] = Cycle]
  /\ rhythm' = IF \E k \in Chains \ {c} : due[k] # Idle THEN "none"
               ELSE IF rhythm = "none" /\ ~t4Pending THEN "cycled" ELSE rhythm
  /\ UNCHANGED <<lastComp, servicerActive, t4, t4Pending>>

\* servicer_task with the flag down: the chain ends.
ServicerEnds(c) ==
  /\ due[c] = 0
  /\ ~servicerActive
  /\ due' = [due EXCEPT ![c] = Idle]
  /\ UNCHANGED <<time, epoch, lastComp, servicerActive, t4, t4Pending, rhythm>>

Disturbed == rhythm' = "none" /\ UNCHANGED <<t4, t4Pending>>

\* start_servicer.  The epoch stays where the last cycle left it, however
\* long ago.  The first cycle may come early, the waitlist's head not having
\* aged, and a chain that was stopped may still be in the list.
StartServicer ==
  /\ ~servicerActive
  /\ servicerActive' = TRUE
  /\ \E c \in Chains, d \in 1 .. Cycle :
       due[c] = Idle /\ due' = [due EXCEPT ![c] = d]
  /\ Disturbed
  /\ UNCHANGED <<time, epoch, lastComp>>

\* stop_servicer: the entry stays in the list.
StopServicer ==
  /\ servicerActive
  /\ servicerActive' = FALSE
  /\ Disturbed
  /\ UNCHANGED <<time, epoch, lastComp, due>>

\* Another handler's entry restarts the countdown of the ones behind it.
Retime ==
  /\ \E c \in Chains, d \in 1 .. Cycle :
       due[c] > 0 /\ due' = [due EXCEPT ![c] = d]
  /\ Disturbed
  /\ UNCHANGED <<time, epoch, lastComp, servicerActive>>

\* V73, V25N24, V25N36 and V25N65, and word 30 of a P27 update.
SetClock ==
  /\ time' \in Met
  /\ Disturbed
  /\ UNCHANGED <<epoch, lastComp, servicerActive, due>>

\* V36.
FreshStart ==
  /\ time' = 0 /\ epoch' = 0 /\ lastComp' = 0
  /\ servicerActive' = FALSE
  /\ due' = [c \in Chains |-> Idle]
  /\ Disturbed

\* V69: the list goes, the flag and the times stay.
Restart ==
  /\ due' = [c \in Chains |-> Idle]
  /\ Disturbed
  /\ UNCHANGED <<time, epoch, lastComp, servicerActive>>

Crew == StartServicer \/ StopServicer \/ Retime \/ SetClock \/ FreshStart \/ Restart

Loop == DrainT4 \/ \E c \in Chains : ServicerCycle(c) \/ ServicerEnds(c)

Next == Elapse \/ Loop \/ Crew

Spec == Init /\ [][Next]_clockVars

-----------------------------------------------------------------------------

ClockTypeOK ==
  /\ time \in Met /\ epoch \in Met /\ lastComp \in Met
  /\ servicerActive \in BOOLEAN
  /\ due \in [Chains -> 0 .. Cycle \cup {Idle}]
  /\ t4 \in 1 .. T4Period
  /\ t4Pending \in BOOLEAN
  /\ rhythm \in {"none", "cycled", "steady"}

\* While the SERVICER keeps its rhythm the drift compensation never sees a
\* wrapped interval, although the SERVICER sets the clock back in two cycles
\* out of three: 200 cs hold 16 or 17 interrupts of 12 cs.  The step back is
\* at most one period, and the T4 handler has added a period before it
\* subtracts.
IntervalSound ==
  [][DrainT4 /\ rhythm = "steady" => Elapsed(time', lastComp) <= 2 * T4Period]_clockVars

\* While the rhythm holds, a SERVICER cycle corrects the clock by at most
\* one period of T4, forwards or backwards.  A larger jump needs a stopped,
\* doubled, late or early chain, an overrun or a clock update.
CycleCorrectsByATick ==
  [][(\E c \in Chains : ServicerCycle(c)) /\ rhythm = "steady"
       => Elapsed(time', time) <= T4Period \/ Elapsed(time, time') <= T4Period]_clockVars
=============================================================================
