---------------------------- MODULE ClockProofs ----------------------------
(***************************************************************************)
(* While the SERVICER keeps its rhythm the clock is where it should be:    *)
(* it corrects the clock by at most a period of T4, and the drift          *)
(* compensation never sees a wrapped interval.                             *)
(***************************************************************************)
EXTENDS Clock, TLAPS

\* How long ago the clock was last moved by T4, or should have been.
Lag == (T4Period - t4) + (IF t4Pending THEN T4Period ELSE 0)

Near(a, b) == Elapsed(a, b) <= T4Period \/ Elapsed(b, a) <= T4Period

\* Chain k is the only one.  q is the phase of T4 at the last cycle: since
\* then the clock has advanced with time, up to what T4 still lags.
KeepsTime(k, q) ==
  /\ due[k] \in 0 .. Cycle
  /\ \A c \in Chains \ {k} : due[c] = Idle
  /\ Lag <= q + (Cycle - due[k])
  /\ time = Advance(epoch, q + (Cycle - due[k]) - Lag)

Rhythmic ==
  /\ servicerActive
  /\ t4Pending => t4 = T4Period
  /\ \E k \in Chains, q \in 0 .. T4Period : KeepsTime(k, q)
  /\ rhythm = "steady" => time = lastComp \/ (time = epoch /\ Near(time, lastComp))

ClockInv ==
  /\ ClockTypeOK
  /\ rhythm # "none" => Rhythmic

-----------------------------------------------------------------------------
\* The arithmetic of a wrapping clock.

LEMMA AdvanceType ==
  ASSUME NEW m \in Met, NEW d \in Met
  PROVE  Advance(m, d) \in Met
  BY ClockAssumption DEF ClockAssumption, Met, Advance

LEMMA ElapsedType ==
  ASSUME NEW a \in Met, NEW b \in Met
  PROVE  Elapsed(a, b) \in Met
  BY ClockAssumption DEF ClockAssumption, Met, Elapsed

LEMMA AdvanceNothing ==
  ASSUME NEW m \in Met
  PROVE  Advance(m, 0) = m
  BY ClockAssumption DEF ClockAssumption, Met, Advance

LEMMA AdvanceAdds ==
  ASSUME NEW m \in Met, NEW d \in Met, NEW e \in Met, d + e < Wrap
  PROVE  Advance(Advance(m, d), e) = Advance(m, d + e)
  BY ClockAssumption DEF ClockAssumption, Met, Advance

LEMMA ElapsedOfAdvance ==
  ASSUME NEW m \in Met, NEW d \in Met, NEW e \in Met, d >= e
  PROVE  Elapsed(Advance(m, d), Advance(m, e)) = d - e
  BY ClockAssumption DEF ClockAssumption, Met, Advance, Elapsed

LEMMA ElapsedNothing ==
  ASSUME NEW a \in Met, NEW b \in Met, Elapsed(a, b) = 0
  PROVE  a = b
  BY ClockAssumption DEF ClockAssumption, Met, Elapsed

\* Readings a period apart at most stay two periods apart when the later
\* one of them, or the earlier one, advances by a period.
LEMMA NearAdvances ==
  ASSUME NEW a \in Met, NEW b \in Met, Near(a, b)
  PROVE  Elapsed(Advance(a, T4Period), b) <= 2 * T4Period
  BY ClockAssumption DEF ClockAssumption, Met, Advance, Elapsed, Near

\* Two advances from one epoch that differ by a period at most are near.
LEMMA AdvancesNear ==
  ASSUME NEW m \in Met, NEW d \in Met, NEW e \in Met,
         d <= e + T4Period, e <= d + T4Period
  PROVE  Near(Advance(m, d), Advance(m, e))
<1>1. CASE d >= e
  BY <1>1, ElapsedOfAdvance, ClockAssumption DEF ClockAssumption, Met, Near
<1>2. CASE e >= d
  BY <1>2, ElapsedOfAdvance, ClockAssumption DEF ClockAssumption, Met, Near
<1> QED
  BY <1>1, <1>2, ClockAssumption DEF ClockAssumption, Met

\* A period and a cycle are readings, and so is their sum.
LEMMA SmallOffsets ==
  /\ T4Period \in Met /\ Cycle \in Met
  /\ 0 .. Cycle + T4Period \subseteq Met
  BY ClockAssumption DEF ClockAssumption, Met

-----------------------------------------------------------------------------

LEMMA InitClockInv ==
  ASSUME Init
  PROVE  ClockInv
<1>1. due \in [Chains -> 0 .. Cycle \cup {Idle}]
  <2>1. PICK c \in Chains : due = [k \in Chains |-> IF k = c THEN Cycle ELSE Idle]
    BY DEF Init
  <2>2. Cycle \in 0 .. Cycle
    BY ClockAssumption DEF ClockAssumption
  <2> QED
    BY <2>1, <2>2
<1>2. time \in Met /\ epoch \in Met /\ lastComp \in Met
  BY ClockAssumption DEF ClockAssumption, Init, Met
<1>3. t4 \in 1 .. T4Period
  BY ClockAssumption DEF ClockAssumption, Init
<1> QED
  BY <1>1, <1>2, <1>3 DEF Init, ClockInv, ClockTypeOK

\* The interrupt's block in terms of Advance and Elapsed: it always leaves
\* the reference of the compensation at the new time.
LEMMA DrainT4Sets ==
  ASSUME ClockTypeOK, DrainT4
  PROVE  /\ time' = Advance(time, T4Period) /\ time' \in Met
         /\ lastComp' = time'
<1> DEFINE now == Advance(time, T4Period)
           dt == Elapsed(now, lastComp)
<1>1. time \in Met /\ lastComp \in Met
  BY ClockAssumption DEF ClockAssumption, ClockTypeOK
<1>2. now \in Met
  BY <1>1, AdvanceType, SmallOffsets
<1>3. dt \in Met
  BY <1>1, <1>2, ElapsedType
<1>4. dt \in Nat
  BY <1>3, ClockAssumption DEF ClockAssumption, Met
<1>5. time' = now
  BY DEF DrainT4
<1>6. lastComp' = IF dt > 0 THEN now ELSE lastComp
  BY DEF DrainT4
<1>7. dt > 0 \/ now = lastComp
  BY <1>1, <1>2, <1>4, ElapsedNothing
<1> QED
  BY <1>2, <1>5, <1>6, <1>7

LEMMA ClockStepType ==
  ASSUME ClockTypeOK, [Next]_clockVars
  PROVE  ClockTypeOK'
<1>1. ASSUME Elapse PROVE ClockTypeOK'
  <2>1. due' \in [Chains -> 0 .. Cycle \cup {Idle}]
    BY <1>1, ClockAssumption DEF ClockAssumption, Elapse, ClockTypeOK, Idle
  <2>2. t4' \in 1 .. T4Period
    BY <1>1, ClockAssumption DEF ClockAssumption, Elapse, ClockTypeOK
  <2>3. t4Pending' \in BOOLEAN /\ rhythm' \in {"none", "cycled", "steady"}
    BY <1>1 DEF Elapse, ClockTypeOK
  <2> QED
    BY <1>1, <2>1, <2>2, <2>3 DEF Elapse, ClockTypeOK
<1>2. ASSUME DrainT4 PROVE ClockTypeOK'
  BY <1>2, DrainT4Sets DEF DrainT4, ClockTypeOK
<1>3. ASSUME NEW c \in Chains, ServicerCycle(c) PROVE ClockTypeOK'
  <2>1. epoch' \in Met /\ time' \in Met
    BY <1>3, AdvanceType, SmallOffsets DEF ServicerCycle, ClockTypeOK
  <2>2. due' \in [Chains -> 0 .. Cycle \cup {Idle}]
    BY <1>3, ClockAssumption DEF ClockAssumption, ServicerCycle, ClockTypeOK
  <2>3. rhythm' \in {"none", "cycled", "steady"}
    BY <1>3 DEF ServicerCycle, ClockTypeOK
  <2> QED
    BY <1>3, <2>1, <2>2, <2>3 DEF ServicerCycle, ClockTypeOK
<1>4. ASSUME NEW c \in Chains, ServicerEnds(c) PROVE ClockTypeOK'
  BY <1>4 DEF ServicerEnds, ClockTypeOK
<1>5. ASSUME Crew PROVE ClockTypeOK'
  <2>1. due' \in [Chains -> 0 .. Cycle \cup {Idle}]
    <3>1. \A c \in Chains, d \in 1 .. Cycle :
            [due EXCEPT ![c] = d] \in [Chains -> 0 .. Cycle \cup {Idle}]
      BY ClockAssumption DEF ClockAssumption, ClockTypeOK
    <3>2. [c \in Chains |-> Idle] \in [Chains -> 0 .. Cycle \cup {Idle}]
      OBVIOUS
    <3> QED
      BY <1>5, <3>1, <3>2 DEF Crew, StartServicer, StopServicer, Retime,
        SetClock, FreshStart, Restart, ClockTypeOK
  <2>2. time' \in Met /\ epoch' \in Met /\ lastComp' \in Met
    <3>1. 0 \in Met
      BY ClockAssumption DEF ClockAssumption, Met
    <3> QED
      BY <1>5, <3>1 DEF Crew, StartServicer, StopServicer, Retime, SetClock,
        FreshStart, Restart, ClockTypeOK
  <2>3. servicerActive' \in BOOLEAN /\ Disturbed
    BY <1>5 DEF Crew, StartServicer, StopServicer, Retime, SetClock,
      FreshStart, Restart, ClockTypeOK
  <2> QED
    BY <2>1, <2>2, <2>3 DEF Disturbed, ClockTypeOK
<1>6. ASSUME UNCHANGED clockVars PROVE ClockTypeOK'
  BY <1>6 DEF clockVars, ClockTypeOK
<1> QED
  BY <1>1, <1>2, <1>3, <1>4, <1>5, <1>6 DEF Next, Loop

-----------------------------------------------------------------------------
\* The rhythm.

\* Between two cycles of the only chain the clock is ahead of the epoch by
\* at most a cycle and a period.
LEMMA OffsetSmall ==
  ASSUME ClockTypeOK, t4Pending => t4 = T4Period,
         NEW k \in Chains, NEW q \in 0 .. T4Period, KeepsTime(k, q)
  PROVE  /\ Lag \in 0 .. T4Period
         /\ q + (Cycle - due[k]) - Lag \in 0 .. Cycle + T4Period
  BY ClockAssumption DEF ClockAssumption, ClockTypeOK, KeepsTime, Lag

\* A unit in which nothing was kept waiting.
LEMMA ElapseKeepsRhythm ==
  ASSUME ClockTypeOK, Rhythmic, Elapse, ~Overrun
  PROVE  Rhythmic'
<1>1. PICK k \in Chains, q \in 0 .. T4Period : KeepsTime(k, q)
  BY DEF Rhythmic
<1>2. ~t4Pending /\ due[k] \in 1 .. Cycle
  BY <1>1, ClockAssumption DEF ClockAssumption, KeepsTime, Overrun
<1>3. due'[k] = due[k] - 1 /\ \A c \in Chains \ {k} : due'[c] = Idle
  BY <1>1, <1>2, ClockAssumption DEF ClockAssumption, Elapse, KeepsTime, Idle
<1>4. Lag' = Lag + 1 /\ (t4Pending' => t4' = T4Period)
  <2>1. t4 \in 1 .. T4Period /\ T4Period \in Nat
    BY ClockAssumption DEF ClockAssumption, ClockTypeOK
  <2>2. CASE t4 = 1
    <3>1. t4Pending' = TRUE /\ t4' = T4Period
      BY <2>2 DEF Elapse
    <3> QED
      BY <1>2, <2>1, <2>2, <3>1 DEF Lag
  <2>3. CASE t4 # 1
    <3>1. t4Pending' = FALSE /\ t4' = t4 - 1
      BY <1>2, <2>3 DEF Elapse
    <3> QED
      BY <1>2, <2>1, <3>1 DEF Lag
  <2> QED
    BY <2>2, <2>3
<1>5. KeepsTime(k, q)'
  <2>1. due'[k] \in 0 .. Cycle
    BY <1>2, <1>3, ClockAssumption DEF ClockAssumption
  <2>2. Lag \in Int
    BY ClockAssumption DEF ClockAssumption, ClockTypeOK, Lag
  <2>3. q + (Cycle - due'[k]) - Lag' = q + (Cycle - due[k]) - Lag
    BY <1>2, <1>3, <1>4, <2>2, ClockAssumption DEF ClockAssumption
  <2>4. Lag' <= q + (Cycle - due'[k])
    BY <1>1, <1>2, <1>3, <1>4, <2>2, ClockAssumption DEF ClockAssumption, KeepsTime
  <2> QED
    BY <1>1, <1>3, <2>1, <2>3, <2>4 DEF KeepsTime, Elapse
<1>6. rhythm' = rhythm
  BY DEF Elapse
<1> QED
  BY <1>4, <1>5, <1>6 DEF Rhythmic, Elapse, Near, Elapsed

\* The interrupt, whether the rhythm was "cycled" or "steady".
LEMMA DrainT4KeepsRhythm ==
  ASSUME ClockTypeOK, Rhythmic, DrainT4
  PROVE  Rhythmic'
<1>1. PICK k \in Chains, q \in 0 .. T4Period : KeepsTime(k, q)
  BY DEF Rhythmic
<1> DEFINE off == q + (Cycle - due[k]) - Lag
<1>2. time' = Advance(time, T4Period) /\ lastComp' = time'
  BY DrainT4Sets
<1>3. Lag = T4Period /\ Lag' = 0
  BY ClockAssumption DEF ClockAssumption, DrainT4, Rhythmic, Lag
<1>4. off \in 0 .. Cycle + T4Period
  BY <1>1, OffsetSmall DEF Rhythmic
<1>5. time = Advance(epoch, off)
  BY <1>1 DEF KeepsTime
<1>6. off + T4Period < Wrap
  BY <1>4, ClockAssumption DEF ClockAssumption
<1>7. time' = Advance(epoch, off + T4Period)
  <2> HIDE DEF off
  <2> QED
    BY <1>2, <1>4, <1>5, <1>6, AdvanceAdds, SmallOffsets DEF ClockTypeOK
<1>8. off + T4Period = q + (Cycle - due[k]) - Lag' /\ Lag' <= q + (Cycle - due[k])
  BY <1>1, <1>3, ClockAssumption DEF ClockAssumption, KeepsTime
<1>9. KeepsTime(k, q)'
  <2>1. due' = due /\ epoch' = epoch
    BY DEF DrainT4
  <2> QED
    BY <1>1, <1>7, <1>8, <2>1 DEF KeepsTime
<1> QED
  BY <1>1, <1>2, <1>9 DEF Rhythmic, DrainT4

\* A cycle of the only chain sets the clock to the epoch, whatever the
\* rhythm was before.
LEMMA CycleSetsTime ==
  ASSUME ClockTypeOK, NEW c \in Chains, ServicerCycle(c),
         t4Pending => t4 = T4Period,
         \A k \in Chains \ {c} : due[k] = Idle
  PROVE  \E k \in Chains, q \in 0 .. T4Period : KeepsTime(k, q)'
<1> DEFINE q == Lag
<1>1. due'[c] = Cycle /\ \A k \in Chains \ {c} : due'[k] = Idle
  BY DEF ServicerCycle, ClockTypeOK
<1>2. Lag' = Lag /\ Lag \in 0 .. T4Period
  BY ClockAssumption DEF ClockAssumption, ServicerCycle, ClockTypeOK, Lag
<1>3. time' = epoch' /\ epoch' \in Met
  BY AdvanceType, SmallOffsets DEF ServicerCycle, ClockTypeOK
<1>4. q' + (Cycle - due'[c]) - Lag' = 0 /\ Lag' <= q' + (Cycle - due'[c])
  BY <1>1, <1>2, ClockAssumption DEF ClockAssumption
<1>5. Advance(epoch', 0) = epoch'
  BY <1>3, AdvanceNothing
<1>6. due'[c] \in 0 .. Cycle
  BY <1>1, ClockAssumption DEF ClockAssumption
<1>7. KeepsTime(c, q)'
  BY <1>1, <1>3, <1>4, <1>5, <1>6 DEF KeepsTime
<1> QED
  BY <1>2, <1>7

\* A cycle of a chain that is in rhythm, with the clock at both ends: the
\* clock it leaves is near the clock it finds, and one that finds the clock
\* apart from the compensation's reference cannot be.
LEMMA CycleInRhythm ==
  ASSUME ClockTypeOK, Rhythmic, NEW c \in Chains, ServicerCycle(c)
  PROVE  /\ Near(time', time)
         /\ time' = epoch'
         /\ rhythm = "steady" => time = lastComp
<1>1. PICK k \in Chains, q \in 0 .. T4Period : KeepsTime(k, q)
  BY DEF Rhythmic
<1>2. k = c /\ due[k] = 0
  BY <1>1 DEF KeepsTime, ServicerCycle, Idle
<1> DEFINE off == q + Cycle - Lag
<1>3. Lag \in 0 .. T4Period /\ off \in 0 .. Cycle + T4Period
  BY <1>1, <1>2, OffsetSmall, ClockAssumption DEF ClockAssumption, Rhythmic
<1>4. time = Advance(epoch, off)
  BY <1>1, <1>2, <1>3, ClockAssumption DEF ClockAssumption, KeepsTime
<1>5. time' = Advance(epoch, Cycle) /\ epoch' = time'
  BY DEF ServicerCycle
<1>6. off \in Met /\ Cycle \in Met /\ epoch \in Met
  BY <1>3, SmallOffsets DEF ClockTypeOK
<1>7. Cycle <= off + T4Period /\ off <= Cycle + T4Period
  BY <1>3, ClockAssumption DEF ClockAssumption
<1>8. Near(time', time)
  <2> HIDE DEF off
  <2> QED
    BY <1>4, <1>5, <1>6, <1>7, AdvancesNear
<1>9. time # epoch
  <2>1. off > 0
    BY <1>3, ClockAssumption DEF ClockAssumption
  <2> HIDE DEF off
  <2> QED
    BY <1>4, <1>6, <2>1, ClockAssumption DEF ClockAssumption, Met, Advance
<1> QED
  BY <1>5, <1>8, <1>9 DEF Rhythmic

LEMMA CycleKeepsRhythm ==
  ASSUME ClockTypeOK, rhythm # "none" => Rhythmic,
         NEW c \in Chains, ServicerCycle(c), rhythm' # "none"
  PROVE  Rhythmic'
<1>1. t4Pending => t4 = T4Period
  BY DEF ServicerCycle, Rhythmic
<1>2. \A k \in Chains \ {c} : due[k] = Idle
  BY DEF ServicerCycle
<1>3. \E k \in Chains, q \in 0 .. T4Period : KeepsTime(k, q)'
  BY <1>1, <1>2, CycleSetsTime
<1>4. rhythm' = "steady" => time' = epoch' /\ Near(time', lastComp')
  <2>1. SUFFICES ASSUME rhythm' = "steady"
                 PROVE  time' = epoch' /\ Near(time', lastComp')
    OBVIOUS
  <2>2. rhythm = "steady"
    BY <2>1 DEF ServicerCycle
  <2>3. lastComp' = lastComp
    BY DEF ServicerCycle
  <2> QED
    BY <2>2, <2>3, CycleInRhythm
<1>5. servicerActive' /\ (t4Pending' => t4' = T4Period)
  BY <1>1 DEF ServicerCycle
<1> QED
  BY <1>3, <1>4, <1>5 DEF Rhythmic, Near, Elapsed

LEMMA ClockStep ==
  ASSUME ClockInv, [Next]_clockVars
  PROVE  ClockInv'
<1>1. ClockTypeOK'
  BY ClockStepType DEF ClockInv
<1>2. SUFFICES ASSUME rhythm' # "none" PROVE Rhythmic'
  BY <1>1 DEF ClockInv
<1>3. CASE Elapse
  BY <1>2, <1>3, ElapseKeepsRhythm DEF ClockInv, Elapse
<1>4. CASE DrainT4
  <2>1. rhythm # "none"
    BY <1>2, <1>4 DEF DrainT4
  <2> QED
    BY <1>4, <2>1, DrainT4KeepsRhythm DEF ClockInv
<1>5. ASSUME NEW c \in Chains, ServicerCycle(c) PROVE Rhythmic'
  BY <1>2, <1>5, CycleKeepsRhythm DEF ClockInv
<1>6. ASSUME NEW c \in Chains, ServicerEnds(c) PROVE Rhythmic'
  BY <1>2, <1>6 DEF ServicerEnds, ClockInv, Rhythmic
<1>7. CASE Crew
  BY <1>2, <1>7 DEF Crew, StartServicer, StopServicer, Retime, SetClock,
    FreshStart, Restart, Disturbed
<1>8. CASE UNCHANGED clockVars
  <2>1. Rhythmic
    BY <1>2, <1>8 DEF clockVars, ClockInv
  <2> QED
    BY <1>8, <2>1 DEF clockVars, Rhythmic, KeepsTime, Lag, Near
<1> QED
  BY <1>3, <1>4, <1>5, <1>6, <1>7, <1>8 DEF Next, Loop

-----------------------------------------------------------------------------

\* The invariant holds in every state of every behaviour of the clock.
THEOREM ClockInvariant == Spec => []ClockInv
<1>1. Init => ClockInv
  BY InitClockInv
<1>2. ClockInv /\ [Next]_clockVars => ClockInv'
  BY ClockStep
<1> QED
  BY <1>1, <1>2, PTL DEF Spec

\* Type correctness of the clock, for any width, periods and number of
\* chains: AgcState::time, the epoch and the reference stay in the u32.
THEOREM ClockTypeCorrect == Spec => []ClockTypeOK
<1>1. ClockInv => ClockTypeOK
  BY DEF ClockInv
<1> QED
  BY <1>1, ClockInvariant, PTL

\* The T4 block of Executive::run never compensates a wrapped interval while
\* the SERVICER keeps its rhythm.
THEOREM IntervalAlwaysSound == Spec => IntervalSound
<1>1. ASSUME ClockInv, DrainT4, rhythm = "steady"
      PROVE  Elapsed(time', lastComp) <= 2 * T4Period
  <2>1. ClockTypeOK /\ Rhythmic
    BY <1>1 DEF ClockInv
  <2>2. time' = Advance(time, T4Period) /\ time \in Met /\ lastComp \in Met
    BY <1>1, <2>1, DrainT4Sets DEF ClockTypeOK
  <2>3. Near(time, lastComp)
    <3>1. Elapsed(lastComp, lastComp) = 0
      BY <2>2, ClockAssumption DEF ClockAssumption, Met, Elapsed
    <3> QED
      BY <1>1, <2>1, <3>1, ClockAssumption DEF ClockAssumption, Rhythmic, Near
  <2> QED
    BY <2>2, <2>3, NearAdvances
<1>2. ClockInv /\ [Next]_clockVars =>
        [DrainT4 /\ rhythm = "steady"
           => Elapsed(time', lastComp) <= 2 * T4Period]_clockVars
  BY <1>1
<1> QED
  BY <1>2, ClockInvariant, PTL DEF Spec, IntervalSound

\* servicer_task moves the clock by a period of T4 at most, either way, while
\* it keeps its rhythm.
THEOREM CycleAlwaysCorrectsByATick == Spec => CycleCorrectsByATick
<1>1. ASSUME ClockInv, NEW c \in Chains, ServicerCycle(c), rhythm = "steady"
      PROVE  Elapsed(time', time) <= T4Period \/ Elapsed(time, time') <= T4Period
  <2>1. ClockTypeOK /\ Rhythmic
    BY <1>1 DEF ClockInv
  <2> QED
    BY <1>1, <2>1, CycleInRhythm DEF Near
<1>2. ClockInv /\ [Next]_clockVars =>
        [(\E c \in Chains : ServicerCycle(c)) /\ rhythm = "steady"
           => Elapsed(time', time) <= T4Period \/ Elapsed(time, time') <= T4Period]_clockVars
  BY <1>1
<1> QED
  BY <1>2, ClockInvariant, PTL DEF Spec, CycleCorrectsByATick
=============================================================================
