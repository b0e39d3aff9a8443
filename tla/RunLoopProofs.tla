--------------------------- MODULE RunLoopProofs ---------------------------
(***************************************************************************)
(* Proofs about the delta-time chain and the run loop, for any set of      *)
(* tasks, any capacity, any delays and any timer latency.                  *)
(*                                                                         *)
(* The chain first (what schedule, pop_task and the passing of time do to  *)
(* one list), then the loop: the invariant Inv is inductive, and TypeOK,   *)
(* ChainSound and NoLostWakeup follow from it.  Then the refinement: with  *)
(* PromptInv, a prompt loop implements TimedTasks step by step.            *)
(*                                                                         *)
(* Last, the service: a waiting list gets its turn.  The hypotheses        *)
(* LoopRuns and ClockRuns are the fairness of the loop and of the clock    *)
(* with the guards of their actions written out, since ENABLED is out of   *)
(* the prover's reach; and where one would use induction on a number that  *)
(* falls, the range of the number is halved until one value is left.       *)
(***************************************************************************)
EXTENDS RunLoop, SequenceTheorems, WellFoundedInduction, TLAPS

-----------------------------------------------------------------------------
\* The chain.

\* A list whose entries are well formed, whose deltas are the differences of
\* its sums, and which stays within the range of a delay.
Sound(list) == IsWaitlist(list) /\ ChainSums(list) /\ ChainInRange(list)

\* What the fields of a list's entries are.
LEMMA ElementsAreEntries ==
  ASSUME NEW list \in Seq(Entry), NEW k \in 1 .. Len(list)
  PROVE  /\ list[k] \in Entry
         /\ list[k].delta \in Nat
         /\ list[k].sum \in Nat
         /\ list[k].due \in Int
         /\ list[k].task \in Tasks
<1>1. list[k] \in Entry
  BY ElementOfSeq
<1> QED
  BY <1>1 DEF Entry

\* A non-empty set of positions has a smallest one.
LEMMA SmallestPosition ==
  ASSUME NEW P \in SUBSET Nat, P # {}
  PROVE  \E m \in P : \A q \in P : m <= q
<1> DEFINE R == {pq \in Nat \X Nat : pq[1] < pq[2]}
<1>1. IsWellFoundedOn(R, Nat)
  BY NatLessThanWellFounded DEF OpToRel
<1>2. \A m, q \in Nat : q < m => <<q, m>> \in R
  OBVIOUS
<1> HIDE DEF R
<1>3. PICK m \in P : \A q \in P : <<q, m>> \notin R
  BY <1>1, WFMin
<1>4. ASSUME NEW q \in P PROVE m <= q
  <2>1. m \in Nat /\ q \in Nat /\ ~ q < m
    BY <1>2, <1>3
  <2> QED
    BY <2>1
<1> QED
  BY <1>3, <1>4

\* Entries are in the order of their due times: sums never decrease.  This
\* is what lets the walk of `schedule` stop at the first entry due no earlier.
LEMMA SumsOrdered ==
  ASSUME NEW list, Sound(list),
         NEW i \in 1 .. Len(list), NEW j \in i .. Len(list)
  PROVE  list[i].sum <= list[j].sum
<1> DEFINE Late == {k \in i .. Len(list) : list[k].sum < list[i].sum}
<1>1. list \in Seq(Entry) /\ Len(list) \in Nat
  BY DEF Sound, IsWaitlist
<1>2. \A k \in 1 .. Len(list) : list[k].sum \in Nat /\ list[k].delta \in Nat
  BY <1>1, ElementsAreEntries
<1>3. SUFFICES ASSUME Late # {} PROVE FALSE
  BY <1>1, <1>2
<1>4. PICK m \in Late : \A k \in Late : m <= k
  <2>1. Late \in SUBSET Nat
    BY <1>1
  <2> QED
    BY <1>3, <2>1, SmallestPosition
<1>5. m # i /\ m - 1 \in i .. Len(list) /\ m - 1 \notin Late
  BY <1>1, <1>2, <1>4
<1>6. list[m].sum = list[m - 1].sum + list[m].delta
  BY <1>1, <1>4, <1>5 DEF Sound, ChainSums, SumBefore
<1> QED
  BY <1>1, <1>2, <1>4, <1>5, <1>6

\* The walk of `schedule` stops somewhere, and at one place only.
THEOREM SchedulePositionUnique ==
  ASSUME NEW list, Sound(list), NEW cs \in 1 .. MaxDelay
  PROVE  \E p \in Positions(list, cs) : Positions(list, cs) = {p}
<1> DEFINE P == {p \in 1 .. Len(list) + 1 : p <= Len(list) => cs <= list[p].sum}
<1>1. list \in Seq(Entry) /\ Len(list) \in Nat
  BY DEF Sound, IsWaitlist
<1>2. \A k \in 1 .. Len(list) : list[k].sum \in Nat
  BY <1>1, ElementsAreEntries
<1>3. cs \in Nat /\ cs > 0
  BY WaitlistAssumption DEF WaitlistAssumption
<1>4. PICK m \in P : \A q \in P : m <= q
  <2>1. P \in SUBSET Nat /\ Len(list) + 1 \in P
    BY <1>1
  <2> QED
    BY <2>1, SmallestPosition
<1>5. m \in Positions(list, cs)
  <2>1. CASE m = 1
    BY <1>1, <1>3, <1>4, <2>1 DEF Positions, SumBefore
  <2>2. CASE m # 1
    <3>1. m - 1 \in 1 .. Len(list) /\ m - 1 \notin P
      BY <1>1, <1>4, <2>2
    <3>2. list[m - 1].sum < cs
      BY <1>1, <1>2, <1>3, <3>1
    <3> QED
      BY <1>1, <1>4, <2>2, <3>2 DEF Positions, SumBefore
  <2> QED
    BY <2>1, <2>2
<1>6. ASSUME NEW p \in Positions(list, cs) PROVE p = m
  <2>1. p \in P /\ m <= p
    BY <1>4 DEF Positions
  <2>2. SUFFICES ASSUME m < p PROVE FALSE
    BY <1>1, <2>1, <1>4
  <2>3. m \in 1 .. Len(list) /\ p - 1 \in m .. Len(list) /\ p # 1
    BY <1>1, <1>4, <2>1, <2>2
  <2>4. cs <= list[m].sum /\ list[m].sum <= list[p - 1].sum
    BY <1>1, <1>4, <2>3, SumsOrdered
  <2>5. list[p - 1].sum < cs
    BY <2>3 DEF Positions, SumBefore
  <2> QED
    BY <1>2, <1>3, <2>3, <2>4, <2>5
<1> QED
  BY <1>5, <1>6

\* An insertion keeps the chain sound: what the new entry takes from its
\* successor's delta is what it adds in front of it, and the u16 subtraction
\* cannot go below zero.
LEMMA InsertKeepsSound ==
  ASSUME NEW list, Sound(list), ~IsFull(list),
         NEW cs \in 1 .. MaxDelay, NEW t \in Tasks,
         NEW p \in Positions(list, cs)
  PROVE  /\ Sound(InsertAtPosition(list, p, cs, t))
         /\ InsertAtPosition(list, p, cs, t) # <<>>
<1> DEFINE n == Len(list)
           new == InsertAtPosition(list, p, cs, t)
           d == cs - SumBefore(list, p)
<1>1. list \in Seq(Entry) /\ n \in Nat /\ n < MaxTasks
  BY WaitlistAssumption DEF Sound, IsWaitlist, IsFull, WaitlistAssumption
<1>2. \A k \in 1 .. n :
        list[k] \in Entry /\ list[k].sum \in Nat /\ list[k].delta \in Nat
  BY <1>1, ElementsAreEntries
<1>3. /\ cs \in Nat /\ cs <= MaxDelay /\ MaxDelay \in Nat
      /\ p \in 1 .. n + 1
      /\ SumBefore(list, p) \in Nat
      /\ SumBefore(list, p) < cs
      /\ p <= n => cs <= list[p].sum
  BY <1>1, <1>2, WaitlistAssumption DEF Positions, SumBefore, WaitlistAssumption
<1>4. d \in Nat
  BY <1>3
<1>5. p <= n => list[p].delta - d \in Nat
  BY <1>1, <1>2, <1>3 DEF Sound, ChainSums
<1>6. ASSUME NEW i \in 1 .. n + 1
      PROVE  /\ new[i] \in Entry
             /\ i < p => new[i] = list[i]
             /\ i = p => new[i].delta = d /\ new[i].sum = cs
             /\ i = p + 1 => /\ new[i].delta = list[p].delta - d
                            /\ new[i].sum = list[p].sum
             /\ i > p + 1 => new[i] = list[i - 1]
  <2>1. CASE i < p
    BY <1>1, <1>2, <1>3, <2>1 DEF InsertAtPosition
  <2>2. CASE i = p
    BY <1>1, <1>3, <1>4, <2>2 DEF InsertAtPosition, Entry
  <2>3. CASE i = p + 1
    <3>1. p \in 1 .. n /\ list[p] \in Entry
      BY <1>1, <1>2, <1>3, <2>3
    <3>2. new[i] = [list[p] EXCEPT !.delta = @ - d]
      BY <1>1, <1>3, <2>3 DEF InsertAtPosition
    <3> QED
      BY <1>3, <1>5, <2>3, <3>1, <3>2 DEF Entry
  <2>4. CASE i > p + 1
    <3>1. i - 1 \in 1 .. n /\ list[i - 1] \in Entry
      BY <1>1, <1>2, <1>3, <2>4
    <3> QED
      BY <1>1, <1>3, <2>4, <3>1 DEF InsertAtPosition
  <2> QED
    BY <1>1, <1>3, <2>1, <2>2, <2>3, <2>4
<1>7. new \in Seq(Entry) /\ Len(new) = n + 1
  <2>1. new \in [1 .. n + 1 -> Entry]
    BY <1>6 DEF InsertAtPosition
  <2> QED
    BY <1>1, <2>1
<1> HIDE DEF new
<1>8. ChainInRange(new)
  <2> SUFFICES ASSUME NEW i \in 1 .. n + 1 PROVE new[i].sum <= MaxDelay
    BY <1>7 DEF ChainInRange
  <2>1. \A k \in 1 .. n : list[k].sum <= MaxDelay
    BY DEF Sound, ChainInRange
  <2>2. CASE i < p
    <3>1. i \in 1 .. n /\ new[i] = list[i]
      BY <1>1, <1>3, <1>6, <2>2
    <3> QED
      BY <2>1, <3>1
  <2>3. CASE i = p
    BY <1>3, <1>6, <2>3
  <2>4. CASE i = p + 1
    <3>1. p \in 1 .. n /\ new[i].sum = list[p].sum
      BY <1>1, <1>3, <1>6, <2>4
    <3> QED
      BY <2>1, <3>1
  <2>5. CASE i > p + 1
    <3>1. i - 1 \in 1 .. n /\ new[i] = list[i - 1]
      BY <1>1, <1>3, <1>6, <2>5
    <3> QED
      BY <2>1, <3>1
  <2> QED
    BY <1>3, <2>2, <2>3, <2>4, <2>5
<1>9. ChainSums(new)
  <2> SUFFICES ASSUME NEW i \in 1 .. n + 1
               PROVE  new[i].sum = SumBefore(new, i) + new[i].delta
    BY <1>7 DEF ChainSums
  <2>1. CASE i < p
    BY <1>1, <1>3, <1>6, <2>1 DEF Sound, ChainSums, SumBefore
  <2>2. CASE i = p
    BY <1>1, <1>2, <1>3, <1>6, <2>2 DEF SumBefore
  <2>3. CASE i = p + 1
    <3>1. SumBefore(new, i) = cs
      BY <1>3, <1>6, <2>3 DEF SumBefore
    <3>2. list[p].sum = SumBefore(list, p) + list[p].delta /\ p \in 1 .. n
      BY <1>1, <1>3, <2>3 DEF Sound, ChainSums
    <3> QED
      BY <1>2, <1>3, <1>6, <2>3, <3>1, <3>2
  <2>4. CASE i > p + 1
    <3>1. /\ i - 1 \in 1 .. n /\ i - 1 > 1
          /\ list[i - 1].sum = list[i - 2].sum + list[i - 1].delta
      BY <1>1, <1>3, <2>4 DEF Sound, ChainSums, SumBefore
    <3>2. new[i - 1].sum = list[i - 2].sum
      BY <1>1, <1>3, <1>6, <2>4
    <3> QED
      BY <1>3, <1>6, <2>4, <3>1, <3>2 DEF SumBefore
  <2> QED
    BY <1>3, <2>1, <2>2, <2>3, <2>4
<1>10. IsWaitlist(new) /\ new # <<>>
  BY <1>1, <1>7, EmptySeq, WaitlistAssumption DEF IsWaitlist, WaitlistAssumption
<1> QED
  BY <1>8, <1>9, <1>10 DEF Sound, new

\* Whatever `schedule` does, refusal included, the chain stays sound; and
\* an accepted request leaves a non-empty list.
LEMMA ScheduleKeepsSound ==
  ASSUME NEW list, Sound(list), NEW cs \in 1 .. MaxDelay, NEW t \in Tasks,
         NEW new \in Schedule(list, cs, t)
  PROVE  Sound(new) /\ new # <<>>
<1>1. CASE IsFull(list)
  <2>1. new = list
    BY <1>1 DEF Schedule
  <2>2. Len(list) # 0
    BY <1>1, WaitlistAssumption DEF IsFull, Sound, IsWaitlist, WaitlistAssumption
  <2> QED
    BY <2>1, <2>2, EmptySeq
<1>2. CASE ~IsFull(list)
  BY <1>2, InsertKeepsSound DEF Schedule
<1> QED
  BY <1>1, <1>2

\* Popping the front keeps the chain sound.
LEMMA PopKeepsSound ==
  ASSUME NEW list, Sound(list), list # <<>>
  PROVE  Sound(PopTask(list))
<1> DEFINE n == Len(list)
           new == PopTask(list)
<1>1. list \in Seq(Entry) /\ n \in Nat /\ n > 0 /\ n <= MaxTasks
  BY EmptySeq DEF Sound, IsWaitlist
<1>2. \A k \in 1 .. n :
        list[k] \in Entry /\ list[k].sum \in Nat /\ list[k].delta \in Nat
  BY <1>1, ElementsAreEntries
<1>3. \A k \in 1 .. n : list[1].sum <= list[k].sum
  BY <1>1, SumsOrdered
<1>4. ASSUME NEW i \in 1 .. n - 1
      PROVE  /\ new[i] \in Entry
             /\ new[i].delta = list[i + 1].delta
             /\ new[i].sum = list[i + 1].sum - list[1].sum
  <2>1. i + 1 \in 1 .. n /\ 1 \in 1 .. n
    BY <1>1
  <2>2. new[i] = [list[i + 1] EXCEPT !.sum = @ - list[1].sum]
    BY <1>1 DEF PopTask
  <2>3. list[i + 1] \in Entry /\ list[i + 1].sum - list[1].sum \in Nat
    BY <1>2, <1>3, <2>1
  <2> QED
    BY <2>2, <2>3 DEF Entry
<1>5. new \in Seq(Entry) /\ Len(new) = n - 1
  <2>1. new \in [1 .. n - 1 -> Entry]
    BY <1>4 DEF PopTask
  <2> QED
    BY <1>1, <2>1
<1> HIDE DEF new
<1>6. ChainInRange(new)
  <2> SUFFICES ASSUME NEW i \in 1 .. n - 1 PROVE new[i].sum <= MaxDelay
    BY <1>5 DEF ChainInRange
  <2>1. i + 1 \in 1 .. n /\ 1 \in 1 .. n
    BY <1>1
  <2>2. list[i + 1].sum <= MaxDelay /\ MaxDelay \in Nat
    BY <2>1, WaitlistAssumption DEF Sound, ChainInRange, WaitlistAssumption
  <2> QED
    BY <1>2, <1>4, <2>1, <2>2
<1>7. ChainSums(new)
  <2> SUFFICES ASSUME NEW i \in 1 .. n - 1
               PROVE  new[i].sum = SumBefore(new, i) + new[i].delta
    BY <1>5 DEF ChainSums
  <2>1. i + 1 \in 1 .. n /\ i \in 1 .. n /\ 1 \in 1 .. n
    BY <1>1
  <2>2. list[i + 1].sum = list[i].sum + list[i + 1].delta
    BY <2>1 DEF Sound, ChainSums, SumBefore
  <2>3. CASE i = 1
    BY <1>2, <1>4, <2>1, <2>2, <2>3 DEF SumBefore
  <2>4. CASE i # 1
    <3>1. new[i - 1].sum = list[i].sum - list[1].sum
      BY <1>1, <1>4, <2>4
    <3> QED
      BY <1>2, <1>4, <2>1, <2>2, <2>4, <3>1 DEF SumBefore
  <2> QED
    BY <2>3, <2>4
<1> QED
  BY <1>1, <1>5, <1>6, <1>7, WaitlistAssumption
    DEF Sound, IsWaitlist, WaitlistAssumption, new

\* The passing of time changes the history field alone.
LEMMA AgeKeepsSound ==
  ASSUME NEW list, Sound(list), NEW cap \in Nat
  PROVE  /\ Sound(Age(list, cap))
         /\ FrontDelta(Age(list, cap)) = FrontDelta(list)
<1> DEFINE n == Len(list)
           new == Age(list, cap)
<1>1. list \in Seq(Entry) /\ n \in Nat /\ n <= MaxTasks
  BY DEF Sound, IsWaitlist
<1>2. ASSUME NEW i \in 1 .. n
      PROVE  /\ new[i] \in Entry
             /\ new[i].delta = list[i].delta
             /\ new[i].sum = list[i].sum
  <2>1. list[i] \in Entry /\ list[i].due \in Int
    BY <1>1, ElementsAreEntries
  <2> DEFINE left == list[i].due
             older == IF left > -cap THEN left - 1 ELSE left
  <2>2. new[i] = [list[i] EXCEPT !.due = older]
    BY <1>1 DEF Age
  <2>3. older \in Int
    BY <2>1
  <2> HIDE DEF older
  <2> QED
    BY <2>1, <2>2, <2>3 DEF Entry
<1>3. new \in Seq(Entry) /\ Len(new) = n
  <2>1. new \in [1 .. n -> Entry]
    BY <1>2 DEF Age
  <2> QED
    BY <1>1, <2>1
<1> HIDE DEF new
<1>4. Sound(new)
  <2>1. IsWaitlist(new)
    BY <1>1, <1>3 DEF IsWaitlist
  <2>2. ChainInRange(new)
    BY <1>1, <1>2, <1>3 DEF Sound, ChainInRange
  <2>3. ASSUME NEW i \in 1 .. n
        PROVE  new[i].sum = SumBefore(new, i) + new[i].delta
    <3>1. list[i].sum = SumBefore(list, i) + list[i].delta
      BY DEF Sound, ChainSums
    <3>2. SumBefore(new, i) = SumBefore(list, i)
      <4>1. CASE i = 1
        BY <4>1 DEF SumBefore
      <4>2. CASE i # 1
        <5>1. i - 1 \in 1 .. n
          BY <1>1, <4>2
        <5> QED
          BY <1>2, <4>2, <5>1 DEF SumBefore
      <4> QED
        BY <4>1, <4>2
    <3> QED
      BY <1>2, <3>1, <3>2
  <2>4. ChainSums(new)
    BY <1>3, <2>3 DEF ChainSums
  <2> QED
    BY <2>1, <2>2, <2>4 DEF Sound
<1>5. FrontDelta(new) = FrontDelta(list)
  <2>1. new = <<>> <=> list = <<>>
    BY <1>1, <1>3, EmptySeq
  <2>2. CASE list = <<>>
    BY <2>1, <2>2 DEF FrontDelta
  <2>3. CASE list # <<>>
    <3>1. 1 \in 1 .. n
      BY <1>1, <2>3, EmptySeq
    <3> QED
      BY <1>2, <2>1, <2>3, <3>1 DEF FrontDelta
  <2> QED
    BY <2>2, <2>3
<1> QED
  BY <1>4, <1>5 DEF new

-----------------------------------------------------------------------------
\* The run loop.

\* What makes the lazy re-arm safe: outside a task, a cached delta stands for
\* a timer that runs or has just fired, and at the top of an iteration the
\* cache is the front of the list.
CacheHonest ==
  /\ phase # "task" /\ lastArmed # None => t3 > 0 \/ t3Pending
  /\ phase = "t3" => lastArmed = FrontDelta(waitlist)

\* The inductive invariant.  NoLostWakeup alone is not inductive: whether the
\* re-arm at the end of an iteration may be skipped depends on what the cache
\* was when the iteration began.
Inv == TypeOK /\ ChainSound /\ CacheHonest

LEMMA InvIsSound == Inv => Sound(waitlist)
  BY DEF Inv, TypeOK, ChainSound, Sound

LEMMA EmptyIsSound == Sound(<<>>)
<1>1. <<>> \in Seq(Entry) /\ Len(<<>>) = 0
  BY EmptySeq
<1> QED
  BY <1>1, WaitlistAssumption
    DEF Sound, IsWaitlist, ChainSums, ChainInRange, WaitlistAssumption

\* The front of a sound list, when there is one, has a delta.
LEMMA FrontDeltaType ==
  ASSUME NEW list, Sound(list)
  PROVE  /\ FrontDelta(list) \in Nat \cup {None}
         /\ FrontDelta(list) = None <=> list = <<>>
<1>1. CASE list = <<>>
  BY <1>1 DEF FrontDelta
<1>2. CASE list # <<>>
  <2>1. list \in Seq(Entry) /\ 1 \in 1 .. Len(list)
    BY <1>2, EmptySeq DEF Sound, IsWaitlist
  <2>2. list[1].delta \in Nat
    BY <2>1, ElementsAreEntries
  <2> QED
    BY <1>2, <2>2 DEF FrontDelta, None
<1> QED
  BY <1>1, <1>2

\* arm_t3 starts the timer, whatever it is given.
LEMMA ArmT3Type ==
  ASSUME NEW cs \in Nat
  PROVE  ArmT3(cs) \in Nat /\ ArmT3(cs) > 0
  BY RunLoopAssumption DEF ArmT3, RunLoopAssumption

\* Nothing a handler can call makes the chain unsound.
LEMMA CallsKeepSound ==
  ASSUME NEW list, Sound(list), NEW D \in SUBSET (1 .. MaxDelay),
         NEW new \in CallEffects(list, D)
  PROVE  Sound(new)
<1>1. CASE new \in {list, <<>>}
  BY <1>1, EmptyIsSound
<1>2. CASE \E cs \in D, t \in Tasks : new \in Schedule(list, cs, t)
  BY <1>2, ScheduleKeepsSound
<1> QED
  BY <1>1, <1>2 DEF CallEffects

LEMMA InitInv == Init => Inv
<1> SUFFICES ASSUME Init PROVE Inv
  OBVIOUS
<1>1. Sound(waitlist)
  BY EmptyIsSound, CallsKeepSound, RunLoopAssumption DEF Init, RunLoopAssumption
<1>2. /\ FrontDelta(waitlist) \in Nat \cup {None}
      /\ FrontDelta(waitlist) = None <=> waitlist = <<>>
  BY <1>1, FrontDeltaType
<1>3. t3 \in Nat /\ (waitlist # <<>> => t3 > 0)
  BY <1>2, ArmT3Type DEF Init
<1> QED
  BY <1>1, <1>2, <1>3
    DEF Init, Inv, TypeOK, ChainSound, CacheHonest, Sound, None

LEMMA StepInv == Inv /\ [Next]_loopVars => Inv'
<1> SUFFICES ASSUME Inv, [Next]_loopVars PROVE Inv'
  OBVIOUS
<1> USE DEF None
<1>1. Sound(waitlist)
  BY InvIsSound
<1>2. /\ FrontDelta(waitlist) \in Nat \cup {None}
      /\ FrontDelta(waitlist) = None <=> waitlist = <<>>
  BY <1>1, FrontDeltaType
<1>3. SUFFICES /\ Sound(waitlist)'
               /\ t3' \in Nat /\ t3Pending' \in BOOLEAN
               /\ lastArmed' \in Nat \cup {None} /\ next' \in Nat \cup {None}
               /\ phase' \in {"t3", "task", "work"}
               /\ CacheHonest'
  BY DEF Inv, TypeOK, ChainSound, Sound
<1>4. CASE SkipT3
  <2>1. ~t3Pending \/ lastArmed = None
    BY <1>2, <1>4 DEF SkipT3, Inv, CacheHonest
  <2> QED
    BY <1>1, <1>4, <2>1 DEF SkipT3, Inv, TypeOK, CacheHonest
<1>5. CASE PopFront
  <2>1. Sound(waitlist')
    BY <1>1, <1>5, PopKeepsSound DEF PopFront
  <2>2. next' \in Nat \cup {None}
    BY <1>5, <2>1, FrontDeltaType DEF PopFront
  <2> QED
    BY <1>5, <2>1, <2>2 DEF PopFront, Inv, TypeOK, CacheHonest
<1>6. CASE TaskCall
  <2>1. Sound(waitlist')
    BY <1>1, <1>6, CallsKeepSound, RunLoopAssumption
      DEF TaskCall, RunLoopAssumption
  <2> QED
    BY <1>6, <2>1 DEF TaskCall, Inv, TypeOK, CacheHonest
<1>7. CASE TaskReturn
  <2>1. t3' \in Nat /\ (lastArmed' # None => t3' > 0)
    BY <1>7, ArmT3Type DEF TaskReturn, ArmForNext, Inv, TypeOK
  <2> QED
    BY <1>1, <1>7, <2>1 DEF TaskReturn, ArmForNext, Inv, TypeOK, CacheHonest
<1>8. CASE WorkCall
  <2>1. Sound(waitlist')
    BY <1>1, <1>8, CallsKeepSound, RunLoopAssumption
      DEF WorkCall, RunLoopAssumption
  <2> QED
    BY <1>8, <2>1 DEF WorkCall, Inv, TypeOK, CacheHonest
<1>9. CASE Rearm
  <2>1. /\ t3' \in Nat
        /\ lastArmed' = FrontDelta(waitlist)
        /\ lastArmed' # None => t3' > 0 \/ t3Pending'
    BY <1>2, <1>9, ArmT3Type DEF Rearm, Inv, TypeOK, CacheHonest
  <2> QED
    BY <1>1, <1>2, <1>9, <2>1 DEF Rearm, Inv, TypeOK, CacheHonest
<1>10. CASE Tick
  <2>1. Sound(waitlist') /\ FrontDelta(waitlist') = FrontDelta(waitlist)
    BY <1>1, <1>10, AgeKeepsSound, RunLoopAssumption DEF Tick, RunLoopAssumption
  <2>2. t3' \in Nat /\ (t3 > 0 => t3' > 0 \/ t3 = 1)
    BY <1>10 DEF Tick, Inv, TypeOK
  <2>3. t3Pending' \in BOOLEAN /\ (t3Pending \/ t3 = 1 => t3Pending')
    BY <1>10, Zenon DEF Tick
  <2> QED
    BY <1>10, <2>1, <2>2, <2>3 DEF Tick, Inv, TypeOK, CacheHonest
<1>11. CASE UNCHANGED loopVars
  BY <1>1, <1>11 DEF loopVars, Inv, TypeOK, CacheHonest
<1> QED
  BY <1>4, <1>5, <1>6, <1>7, <1>8, <1>9, <1>10, <1>11
    DEF Next, LoopStep, HandlerCall

LEMMA InvHolds == Spec => []Inv
<1> QED
  BY InitInv, StepInv, PTL DEF Spec

\* Every variable keeps its shape, for any handlers, delays and latency.
THEOREM RunLoopTypeCorrect == Spec => []TypeOK
<1>1. Inv => TypeOK
  BY DEF Inv
<1> QED
  BY <1>1, InvHolds, PTL

\* The u16 arithmetic of `schedule` and `pop_task` never wraps: in every
\* state the deltas are the differences of the sums, and no sum leaves the
\* range of a delay.
THEOREM ChainAlwaysSound == Spec => []ChainSound
<1>1. Inv => ChainSound
  BY DEF Inv
<1> QED
  BY <1>1, InvHolds, PTL

\* The lazy re-arm of Executive::run never loses a wake-up: a task that is
\* pending at the top of an iteration has a running timer or a posted
\* interrupt, however handlers, ISR and loop interleave.
THEOREM WakeupNeverLost == Spec => []NoLostWakeup
<1>1. Inv => NoLostWakeup
  BY InvIsSound, FrontDeltaType DEF Inv, CacheHonest, NoLostWakeup
<1> QED
  BY <1>1, InvHolds, PTL

-----------------------------------------------------------------------------
\* The promise of `schedule`.

\* What an insertion leaves of the entries: all but the deltas.
SameTask(e, f) == e.task = f.task /\ e.sum = f.sum /\ e.due = f.due

\* new is list with a task that is due in cs at position p.
AddedAt(list, new, p, cs, t) ==
  \A i \in 1 .. Len(list) + 1 :
    /\ i < p => SameTask(new[i], list[i])
    /\ i = p => new[i].task = t /\ new[i].sum = cs /\ new[i].due = cs
    /\ i > p => SameTask(new[i], list[i - 1])

\* `schedule` puts the new entry somewhere and moves nothing else in time:
\* the other entries keep their sums and their due times.
LEMMA ScheduleAdds ==
  ASSUME NEW list, Sound(list), NEW cs \in 1 .. MaxDelay, NEW t \in Tasks,
         NEW new \in Schedule(list, cs, t), new # list
  PROVE  /\ Len(list) < MaxTasks
         /\ Len(new) = Len(list) + 1
         /\ \E p \in 1 .. Len(list) + 1 : AddedAt(list, new, p, cs, t)
<1> DEFINE n == Len(list)
<1>1. list \in Seq(Entry) /\ n \in Nat /\ MaxTasks \in Nat
  BY WaitlistAssumption DEF Sound, IsWaitlist, WaitlistAssumption
<1>2. ~IsFull(list) /\ n < MaxTasks
  BY <1>1 DEF Schedule, IsFull
<1>3. PICK p \in Positions(list, cs) : new = InsertAtPosition(list, p, cs, t)
  BY <1>2 DEF Schedule
<1>4. p \in 1 .. n + 1
  BY DEF Positions
<1>5. Len(new) = n + 1
  BY <1>1, <1>3 DEF InsertAtPosition
<1>6. ASSUME NEW i \in 1 .. n + 1
      PROVE  /\ i < p => SameTask(new[i], list[i])
             /\ i = p => new[i].task = t /\ new[i].sum = cs /\ new[i].due = cs
             /\ i > p => SameTask(new[i], list[i - 1])
  <2>1. CASE i < p
    BY <1>1, <1>3, <1>4, <2>1 DEF InsertAtPosition, SameTask
  <2>2. CASE i = p
    BY <1>1, <1>3, <1>4, <2>2 DEF InsertAtPosition
  <2>3. CASE i = p + 1
    <3>1. p \in 1 .. n /\ list[p] \in Entry
      BY <1>1, <1>4, <2>3, ElementsAreEntries
    <3>2. new[i] = [list[p] EXCEPT !.delta = @ - (cs - SumBefore(list, p))]
      BY <1>1, <1>3, <1>4, <2>3 DEF InsertAtPosition
    <3>3. SameTask(new[i], list[p])
      BY <3>1, <3>2 DEF Entry, SameTask
    <3> QED
      BY <1>4, <2>3, <3>3
  <2>4. CASE i > p + 1
    BY <1>1, <1>3, <1>4, <2>4 DEF InsertAtPosition, SameTask
  <2> QED
    BY <1>1, <1>4, <2>1, <2>2, <2>3, <2>4
<1>7. AddedAt(list, new, p, cs, t)
  BY <1>6 DEF AddedAt
<1> QED
  BY <1>2, <1>4, <1>5, <1>7

\* A pop shifts every sum by the head's, and no due time.
LEMMA PopShifts ==
  ASSUME NEW list, Sound(list), list # <<>>
  PROVE  /\ Len(PopTask(list)) = Len(list) - 1
         /\ \A i \in 1 .. Len(list) - 1 :
              /\ PopTask(list)[i].task = list[i + 1].task
              /\ PopTask(list)[i].due = list[i + 1].due
              /\ PopTask(list)[i].sum = list[i + 1].sum - list[1].sum
<1>1. list \in Seq(Entry) /\ Len(list) \in Nat /\ Len(list) > 0
  BY EmptySeq DEF Sound, IsWaitlist
<1>2. ASSUME NEW i \in 1 .. Len(list) - 1
      PROVE  /\ PopTask(list)[i].task = list[i + 1].task
             /\ PopTask(list)[i].due = list[i + 1].due
             /\ PopTask(list)[i].sum = list[i + 1].sum - list[1].sum
  <2>1. list[i + 1] \in Entry
    BY <1>1, ElementsAreEntries
  <2> QED
    BY <1>1, <2>1 DEF PopTask, Entry
<1> QED
  BY <1>1, <1>2 DEF PopTask

\* A centisecond is taken off every due time that has not reached the bound.
LEMMA AgeLowers ==
  ASSUME NEW list, Sound(list), NEW cap \in Nat
  PROVE  /\ Len(Age(list, cap)) = Len(list)
         /\ \A i \in 1 .. Len(list) :
              /\ Age(list, cap)[i].task = list[i].task
              /\ Age(list, cap)[i].sum = list[i].sum
              /\ Age(list, cap)[i].due =
                   IF list[i].due > -cap THEN list[i].due - 1 ELSE list[i].due
<1>1. list \in Seq(Entry) /\ Len(list) \in Nat
  BY DEF Sound, IsWaitlist
<1>2. ASSUME NEW i \in 1 .. Len(list)
      PROVE  /\ Age(list, cap)[i].task = list[i].task
             /\ Age(list, cap)[i].sum = list[i].sum
             /\ Age(list, cap)[i].due =
                  IF list[i].due > -cap THEN list[i].due - 1 ELSE list[i].due
  <2>1. list[i] \in Entry
    BY <1>1, ElementsAreEntries
  <2> QED
    BY <1>1, <2>1 DEF Age, Entry
<1> QED
  BY <1>1, <1>2 DEF Age

\* The centiseconds before the loop can next dispatch the head: what is left
\* on the timer when it will not be loaded again, else what it is loaded with.
HeadWait ==
  IF phase = "t3" \/ (phase = "work" /\ lastArmed = FrontDelta(waitlist))
    THEN t3
    ELSE FrontDelta(waitlist)

\* No entry is due later than the chain will dispatch it.
OnTime ==
  \A i \in 1 .. Len(waitlist) :
    waitlist[i].due <= HeadWait + waitlist[i].sum - FrontDelta(waitlist)

\* A posted interrupt is that of the timer as it was last loaded.
NoStaleInterrupt == t3Pending => phase = "t3" /\ t3 = 0

\* The invariant of a prompt loop whose handlers leave the list to the tasks.
PromptInv == Inv /\ OnTime /\ NoStaleInterrupt

\* A longer wait for the head leaves more room for every due time.
LEMMA LongerWait ==
  ASSUME NEW due \in Int, NEW sum \in Int, NEW front \in Int,
         NEW wait \in Int, due <= wait + sum - front,
         NEW longer \in Int, longer >= wait
  PROVE  due <= longer + sum - front
OBVIOUS

\* A centisecond off the wait and off a due time leaves the room as it was.
LEMMA BothOlder ==
  ASSUME NEW due \in Int, NEW sum \in Int, NEW front \in Int,
         NEW wait \in Int, due <= wait + sum - front
  PROVE  due - 1 <= wait - 1 + sum - front
OBVIOUS

\* The head's delta is its sum.
LEMMA HeadSum ==
  ASSUME NEW list, Sound(list), list # <<>>
  PROVE  /\ 1 \in 1 .. Len(list)
         /\ FrontDelta(list) = list[1].sum
         /\ FrontDelta(list) \in Nat
<1>1. list \in Seq(Entry) /\ 1 \in 1 .. Len(list)
  BY EmptySeq DEF Sound, IsWaitlist
<1>2. list[1].delta \in Nat /\ list[1].sum \in Nat
  BY <1>1, ElementsAreEntries
<1> QED
  BY <1>1, <1>2 DEF FrontDelta, Sound, ChainSums, SumBefore

\* A task that has just been given its time is on time.
LEMMA CallsKeepDue ==
  ASSUME NEW list, Sound(list), NEW D \in SUBSET (1 .. MaxDelay),
         \A i \in 1 .. Len(list) : list[i].due <= list[i].sum,
         NEW new \in CallEffects(list, D), NEW k \in 1 .. Len(new)
  PROVE  new[k].due <= new[k].sum
<1>1. Sound(new) /\ list \in Seq(Entry) /\ Len(list) \in Nat
  BY CallsKeepSound DEF Sound, IsWaitlist
<1>2. CASE new = list
  BY <1>2
<1>3. CASE new = <<>>
  BY <1>3, EmptySeq
<1>4. CASE \E cs \in D, t \in Tasks : new \in Schedule(list, cs, t) /\ new # list
  <2>1. PICK cs \in D, t \in Tasks : new \in Schedule(list, cs, t) /\ new # list
    BY <1>4
  <2>2. cs \in 1 .. MaxDelay
    BY <2>1
  <2>3. PICK p \in 1 .. Len(list) + 1 : AddedAt(list, new, p, cs, t)
    BY <2>1, <2>2, ScheduleAdds
  <2>4. k \in 1 .. Len(list) + 1
    BY <1>1, <2>1, <2>2, ScheduleAdds
  <2>5. CASE k < p
    <3>1. k \in 1 .. Len(list) /\ SameTask(new[k], list[k])
      BY <1>1, <2>3, <2>4, <2>5 DEF AddedAt
    <3> QED
      BY <3>1 DEF SameTask
  <2>6. CASE k = p
    BY <2>2, <2>3, <2>4, <2>6 DEF AddedAt
  <2>7. CASE k > p
    <3>1. k - 1 \in 1 .. Len(list) /\ SameTask(new[k], list[k - 1])
      BY <1>1, <2>3, <2>4, <2>7 DEF AddedAt
    <3> QED
      BY <3>1 DEF SameTask
  <2> QED
    BY <1>1, <2>4, <2>5, <2>6, <2>7
<1> QED
  BY <1>2, <1>3, <1>4 DEF CallEffects

LEMMA InitPromptInv == Init => PromptInv
<1> SUFFICES ASSUME Init PROVE PromptInv
  OBVIOUS
<1>1. Inv /\ Sound(waitlist)
  BY InitInv, InvIsSound
<1>2. NoStaleInterrupt
  BY DEF Init, NoStaleInterrupt
<1>3. ASSUME NEW i \in 1 .. Len(waitlist)
      PROVE  waitlist[i].due <= HeadWait + waitlist[i].sum - FrontDelta(waitlist)
  <2>1. waitlist # <<>> /\ waitlist \in Seq(Entry)
    BY <1>1, EmptySeq DEF Sound, IsWaitlist
  <2>2. FrontDelta(waitlist) \in Nat
    BY <1>1, <2>1, HeadSum
  <2>3. HeadWait \in Nat /\ HeadWait >= FrontDelta(waitlist)
    BY <2>1, <2>2, ArmT3Type DEF Init, HeadWait, ArmT3
  <2>4. waitlist[i].due <= waitlist[i].sum
    <3>1. \A k \in 1 .. Len(<<>>) : <<>>[k].due <= <<>>[k].sum
      BY EmptySeq
    <3> QED
      BY <3>1, CallsKeepDue, EmptyIsSound, RunLoopAssumption
        DEF Init, RunLoopAssumption
  <2>5. waitlist[i].due \in Int /\ waitlist[i].sum \in Nat
    BY <2>1, ElementsAreEntries
  <2>6. waitlist[i].due <=
          FrontDelta(waitlist) + waitlist[i].sum - FrontDelta(waitlist)
    BY <2>2, <2>4, <2>5
  <2> QED
    BY <2>2, <2>3, <2>5, <2>6, LongerWait
<1> QED
  BY <1>1, <1>2, <1>3 DEF PromptInv, OnTime

LEMMA StepPromptInv ==
  ASSUME Latency = FALSE, WorkDelays = {}, PromptInv, [Next]_loopVars
  PROVE  PromptInv'
<1>1. Inv' /\ Sound(waitlist) /\ Sound(waitlist')
  BY StepInv, InvIsSound DEF PromptInv, Inv, TypeOK, ChainSound, Sound
<1>2. /\ waitlist \in Seq(Entry) /\ Len(waitlist) \in Nat
      /\ waitlist' \in Seq(Entry) /\ Len(waitlist') \in Nat
  BY <1>1 DEF Sound, IsWaitlist
<1>3. /\ \A i \in 1 .. Len(waitlist) :
           waitlist[i].due \in Int /\ waitlist[i].sum \in Nat
      /\ \A i \in 1 .. Len(waitlist') :
           waitlist'[i].due \in Int /\ waitlist'[i].sum \in Nat
  BY <1>2, ElementsAreEntries
<1>4. /\ waitlist # <<>> => FrontDelta(waitlist) \in Nat
      /\ waitlist' # <<>> => FrontDelta(waitlist') \in Nat
  BY <1>1, HeadSum
<1>5. t3 \in Nat /\ t3' \in Nat /\ None \notin Nat
  BY <1>1 DEF PromptInv, Inv, TypeOK, None
<1>6. SUFFICES NoStaleInterrupt' /\ (waitlist' # <<>> => OnTime')
  <2>1. waitlist' = <<>> => OnTime'
    BY EmptySeq DEF OnTime
  <2> QED
    BY <1>1, <2>1 DEF PromptInv
<1>7. CASE SkipT3
  <2>1. waitlist # <<>> => ~t3Pending /\ lastArmed = FrontDelta(waitlist)
    BY <1>7 DEF SkipT3, PromptInv, Inv, CacheHonest
  <2>2. waitlist # <<>> => HeadWait' = HeadWait
    BY <1>7, <2>1 DEF SkipT3, HeadWait
  <2> QED
    BY <1>7, <2>2 DEF SkipT3, PromptInv, OnTime, NoStaleInterrupt
<1>8. CASE PopFront
  <2>1. t3 = 0 /\ HeadWait = 0 /\ 1 \in 1 .. Len(waitlist)
        /\ FrontDelta(waitlist) = waitlist[1].sum
    BY <1>1, <1>8, HeadSum DEF PopFront, PromptInv, NoStaleInterrupt, HeadWait
  <2>2. ASSUME NEW i \in 1 .. Len(waitlist')
        PROVE  waitlist'[i].due <= waitlist'[i].sum
    <3>1. /\ i + 1 \in 1 .. Len(waitlist)
          /\ waitlist'[i].due = waitlist[i + 1].due
          /\ waitlist'[i].sum = waitlist[i + 1].sum - waitlist[1].sum
      BY <1>1, <1>2, <1>8, PopShifts DEF PopFront
    <3>2. waitlist[i + 1].due <=
            HeadWait + waitlist[i + 1].sum - FrontDelta(waitlist)
      BY <3>1 DEF PromptInv, OnTime
    <3> QED
      BY <1>3, <2>1, <3>1, <3>2
  <2>3. HeadWait' = FrontDelta(waitlist')
    BY <1>8 DEF PopFront, HeadWait
  <2> QED
    BY <1>3, <1>4, <1>8, <2>2, <2>3 DEF PopFront, OnTime, NoStaleInterrupt
<1>9. CASE TaskCall
  <2>1. ASSUME NEW i \in 1 .. Len(waitlist)
        PROVE  waitlist[i].due <= waitlist[i].sum
    <3>1. FrontDelta(waitlist) \in Nat /\ HeadWait = FrontDelta(waitlist)
      BY <1>2, <1>4, <1>9, EmptySeq DEF TaskCall, HeadWait
    <3>2. waitlist[i].due <= HeadWait + waitlist[i].sum - FrontDelta(waitlist)
      BY DEF PromptInv, OnTime
    <3> QED
      BY <1>3, <3>1, <3>2
  <2>2. TaskDelays \in SUBSET (1 .. MaxDelay)
    BY RunLoopAssumption DEF RunLoopAssumption
  <2>3. ASSUME NEW i \in 1 .. Len(waitlist')
        PROVE  waitlist'[i].due <= waitlist'[i].sum
    BY <1>1, <1>9, <2>1, <2>2, CallsKeepDue DEF TaskCall
  <2>4. HeadWait' = FrontDelta(waitlist')
    BY <1>9 DEF TaskCall, HeadWait
  <2> QED
    BY <1>3, <1>4, <1>9, <2>3, <2>4
      DEF TaskCall, PromptInv, OnTime, NoStaleInterrupt
<1>10. CASE TaskReturn
  <2>1. waitlist # <<>> =>
          HeadWait' >= FrontDelta(waitlist) /\ HeadWait' \in Nat
    BY <1>4, <1>5, <1>10, ArmT3Type
      DEF TaskReturn, ArmForNext, HeadWait, ArmT3
  <2>2. HeadWait = FrontDelta(waitlist)
    BY <1>10 DEF TaskReturn, HeadWait
  <2> QED
    BY <1>3, <1>4, <1>10, <2>1, <2>2
      DEF TaskReturn, ArmForNext, PromptInv, OnTime, NoStaleInterrupt
<1>11. CASE WorkCall
  <2>1. waitlist' = waitlist \/ waitlist' = <<>>
    BY <1>11 DEF WorkCall, CallEffects
  <2>2. waitlist' # <<>> => HeadWait' = HeadWait
    BY <1>11, <2>1 DEF WorkCall, HeadWait
  <2> QED
    BY <1>11, <2>1, <2>2 DEF WorkCall, PromptInv, OnTime, NoStaleInterrupt
<1>12. CASE Rearm
  <2>1. waitlist # <<>> => HeadWait' >= HeadWait
    BY <1>4, <1>5, <1>12, ArmT3Type DEF Rearm, HeadWait, ArmT3
  <2>2. waitlist # <<>> => HeadWait \in Nat /\ HeadWait' \in Nat
    BY <1>4, <1>5, <1>12 DEF Rearm, HeadWait
  <2>3. ASSUME waitlist # <<>>, NEW i \in 1 .. Len(waitlist)
        PROVE  waitlist[i].due <= HeadWait' + waitlist[i].sum - FrontDelta(waitlist)
    <3>1. waitlist[i].due <= HeadWait + waitlist[i].sum - FrontDelta(waitlist)
      BY DEF PromptInv, OnTime
    <3>2. /\ HeadWait' >= HeadWait /\ HeadWait \in Int /\ HeadWait' \in Int
          /\ FrontDelta(waitlist) \in Int
      BY <1>4, <2>1, <2>2, <2>3
    <3>3. waitlist[i].due \in Int /\ waitlist[i].sum \in Int
      BY <1>3
    <3> QED
      BY <3>1, <3>2, <3>3, LongerWait
  <2> QED
    BY <1>12, <2>3 DEF Rearm, PromptInv, OnTime, NoStaleInterrupt
<1>13. CASE Tick
  <2>1. phase = "t3" /\ ~t3Pending /\ HeadWait = t3 /\ HeadWait' = t3'
    BY <1>13 DEF Tick, HeadWait
  <2>2. (t3Pending' => t3 = 1) /\ phase' = "t3"
    BY <1>13, <2>1, Zenon DEF Tick
  <2>3. NoStaleInterrupt'
    BY <1>5, <1>13, <2>2 DEF Tick, NoStaleInterrupt
  <2>4. SUFFICES ASSUME waitlist' # <<>>, NEW i \in 1 .. Len(waitlist')
                 PROVE  waitlist'[i].due <=
                          t3' + waitlist'[i].sum - FrontDelta(waitlist')
    BY <2>1, <2>3 DEF OnTime
  <2>5. /\ Len(waitlist') = Len(waitlist)
        /\ waitlist'[i].sum = waitlist[i].sum
        /\ waitlist'[i].due =
             IF waitlist[i].due > -LateCap THEN waitlist[i].due - 1
             ELSE waitlist[i].due
        /\ FrontDelta(waitlist') = FrontDelta(waitlist)
        /\ LateCap \in Nat
    <3>1. waitlist' = Age(waitlist, LateCap) /\ LateCap \in Nat
      BY <1>13, RunLoopAssumption DEF Tick, RunLoopAssumption
    <3>2. Len(waitlist') = Len(waitlist)
      BY <1>1, <3>1, AgeLowers
    <3> QED
      BY <1>1, <2>4, <3>1, <3>2, AgeLowers, AgeKeepsSound
  <2>6. waitlist # <<>> /\ 1 \in 1 .. Len(waitlist) /\ i \in 1 .. Len(waitlist)
    BY <1>2, <2>5, EmptySeq
  <2>7. t3 > 0 /\ t3' = t3 - 1
    BY <1>1, <1>4, <1>5, <1>13, <2>1, <2>6
      DEF Tick, PromptInv, Inv, CacheHonest
  <2>8. FrontDelta(waitlist) <= waitlist[i].sum
    BY <1>1, <1>2, <2>6, HeadSum, SumsOrdered
  <2>9. waitlist[i].due <= t3 + waitlist[i].sum - FrontDelta(waitlist)
    BY <2>1, <2>6 DEF PromptInv, OnTime
  <2>10. /\ waitlist[i].due \in Int /\ waitlist[i].sum \in Int
         /\ FrontDelta(waitlist) \in Int /\ t3 \in Int
    BY <1>3, <1>4, <1>5, <2>6
  <2>11. waitlist'[i].due <= t3 - 1 + waitlist[i].sum - FrontDelta(waitlist)
    <3>1. CASE waitlist[i].due > -LateCap
      <4>1. waitlist'[i].due = waitlist[i].due - 1
        BY <2>5, <3>1
      <4>2. waitlist[i].due - 1 <= t3 - 1 + waitlist[i].sum - FrontDelta(waitlist)
        BY <2>9, <2>10, BothOlder
      <4> QED
        BY <4>1, <4>2
    <3>2. CASE ~ waitlist[i].due > -LateCap
      BY <1>5, <2>5, <2>7, <2>8, <2>10, <3>2
    <3> QED
      BY <3>1, <3>2
  <2> QED
    BY <2>5, <2>7, <2>11
<1>14. CASE UNCHANGED loopVars
  <2>1. HeadWait' = HeadWait
    BY <1>14 DEF loopVars, HeadWait
  <2> QED
    BY <1>14, <2>1 DEF loopVars, PromptInv, OnTime, NoStaleInterrupt
<1> QED
  BY <1>7, <1>8, <1>9, <1>10, <1>11, <1>12, <1>13, <1>14
    DEF Next, LoopStep, HandlerCall

LEMMA PromptInvHolds ==
  ASSUME Latency = FALSE, WorkDelays = {}
  PROVE  Spec => []PromptInv
<1>1. PromptInv /\ [Next]_loopVars => PromptInv'
  BY StepPromptInv
<1> QED
  BY <1>1, InitPromptInv, PTL DEF Spec

\* The loop starts with what the callers asked for at boot.
LEMMA InitKeepsPromise == Init => Promise!Init
<1> SUFFICES ASSUME Init PROVE Promise!Init
  OBVIOUS
<1>1. CASE waitlist = <<>>
  BY <1>1, EmptySeq DEF Promise!Init, Promised
<1>2. CASE waitlist # <<>>
  <2>1. PICK cs \in TaskDelays, t \in Tasks : waitlist \in Schedule(<<>>, cs, t)
    BY <1>2 DEF Init, CallEffects
  <2>2. cs \in 1 .. MaxDelay
    BY RunLoopAssumption DEF RunLoopAssumption
  <2>3. Len(<<>>) = 0 /\ Len(waitlist) = Len(<<>>) + 1
    BY <1>2, <2>1, <2>2, EmptyIsSound, EmptySeq, ScheduleAdds
  <2>4. waitlist[1].task = t /\ waitlist[1].due = cs
    <3>1. PICK p \in 1 .. Len(<<>>) + 1 : AddedAt(<<>>, waitlist, p, cs, t)
      BY <1>2, <2>1, <2>2, <2>3, EmptyIsSound, ScheduleAdds
    <3> QED
      BY <2>3, <3>1 DEF AddedAt
  <2>5. Promised = <<Promise!Timed(t, cs)>>
    BY <2>3, <2>4 DEF Promised, Promise!Timed
  <2> QED
    BY <2>5 DEF Promise!Init
<1> QED
  BY <1>1, <1>2

\* What a handler does to the list is what the promise lets its callers do.
LEMMA CallsKeepPromise ==
  ASSUME Sound(waitlist), NEW D \in SUBSET (TaskDelays \cup WorkDelays),
         waitlist' \in CallEffects(waitlist, D)
  PROVE  Promise!Next \/ Promised' = Promised
<1>1. waitlist \in Seq(Entry) /\ Len(waitlist) \in Nat
  BY DEF Sound, IsWaitlist
<1>2. CASE waitlist' = waitlist
  BY <1>2 DEF Promised
<1>3. CASE waitlist' = <<>>
  BY <1>3, EmptySeq DEF Promised, Promise!Next, Promise!Clear
<1>4. CASE \E cs \in D, t \in Tasks :
             waitlist' \in Schedule(waitlist, cs, t) /\ waitlist' # waitlist
  <2>1. PICK cs \in D, t \in Tasks :
          waitlist' \in Schedule(waitlist, cs, t) /\ waitlist' # waitlist
    BY <1>4
  <2>2. cs \in 1 .. MaxDelay
    BY RunLoopAssumption DEF RunLoopAssumption
  <2>3. /\ Len(waitlist) < MaxTasks
        /\ Len(waitlist') = Len(waitlist) + 1
    BY <2>1, <2>2, ScheduleAdds
  <2>4. PICK p \in 1 .. Len(waitlist) + 1 :
          AddedAt(waitlist, waitlist', p, cs, t)
    BY <2>1, <2>2, ScheduleAdds
  <2>5. Len(Promised) = Len(waitlist)
    BY <1>1 DEF Promised
  <2> DEFINE After(i) == [task |-> waitlist'[i].task, left |-> waitlist'[i].due]
  <2>6. ASSUME NEW i \in 1 .. Len(waitlist) + 1
        PROVE  After(i) = IF i < p THEN Promised[i]
                          ELSE IF i = p THEN Promise!Timed(t, cs)
                          ELSE Promised[i - 1]
    <3>1. CASE i < p
      BY <1>1, <2>4, <3>1 DEF Promised, AddedAt, SameTask
    <3>2. CASE i = p
      BY <2>4, <3>2 DEF Promise!Timed, AddedAt
    <3>3. CASE i > p
      BY <1>1, <2>4, <3>3 DEF Promised, AddedAt, SameTask
    <3> QED
      BY <1>1, <3>1, <3>2, <3>3
  <2>7. Promised' = [ i \in 1 .. Len(waitlist) + 1 |-> After(i) ]
    BY <2>3 DEF Promised
  <2> HIDE DEF After
  <2>8. Promised' =
          [ i \in 1 .. Len(Promised) + 1 |->
              IF i < p THEN Promised[i]
              ELSE IF i = p THEN Promise!Timed(t, cs)
              ELSE Promised[i - 1] ]
    BY <2>5, <2>6, <2>7
  <2>9. Promise!Add(t, cs)
    BY <2>3, <2>5, <2>8 DEF Promise!Add
  <2> QED
    BY <2>9 DEF Promise!Next
<1> QED
  BY <1>2, <1>3, <1>4 DEF CallEffects

\* Every step of a prompt loop is a step of the promise, or none.
LEMMA StepKeepsPromise ==
  ASSUME Latency = FALSE, WorkDelays = {}, PromptInv, [Next]_loopVars
  PROVE  [Promise!Next]_Promised
<1>1. Sound(waitlist)
  BY InvIsSound DEF PromptInv
<1>2. waitlist \in Seq(Entry) /\ Len(waitlist) \in Nat
  BY <1>1 DEF Sound, IsWaitlist
<1>3. Len(Promised) = Len(waitlist)
  BY <1>2 DEF Promised
<1>4. CASE UNCHANGED waitlist
  BY <1>4 DEF Promised
<1>5. CASE TaskCall \/ WorkCall
  BY <1>1, <1>5, CallsKeepPromise DEF TaskCall, WorkCall
<1>6. CASE PopFront
  <2>1. 1 \in 1 .. Len(waitlist) /\ FrontDelta(waitlist) = waitlist[1].sum
    BY <1>1, <1>6, HeadSum DEF PopFront
  <2>2. waitlist[1].due <= 0
    <3>1. HeadWait = 0
      BY <1>6 DEF PopFront, PromptInv, NoStaleInterrupt, HeadWait
    <3>2. waitlist[1].due <= HeadWait + waitlist[1].sum - FrontDelta(waitlist)
      BY <2>1 DEF PromptInv, OnTime
    <3>3. waitlist[1].sum \in Int /\ waitlist[1].due \in Int
      BY <1>2, <2>1, ElementsAreEntries
    <3> QED
      BY <2>1, <3>1, <3>2, <3>3
  <2>3. /\ Len(waitlist') = Len(waitlist) - 1
        /\ \A i \in 1 .. Len(waitlist) - 1 :
             /\ waitlist'[i].task = waitlist[i + 1].task
             /\ waitlist'[i].due = waitlist[i + 1].due
    BY <1>1, <1>6, PopShifts DEF PopFront
  <2>4. Promised' = [ i \in 1 .. Len(Promised) - 1 |->
                       IF i < 1 THEN Promised[i] ELSE Promised[i + 1] ]
    BY <1>2, <1>3, <2>3 DEF Promised
  <2>5. Promise!Fire(1)
    BY <2>1, <2>2, <2>4 DEF Promise!Fire, Promised
  <2> QED
    BY <1>3, <2>1, <2>5 DEF Promise!Next
<1>7. CASE Tick
  <2>1. waitlist' = Age(waitlist, LateCap) /\ LateCap \in Nat
    BY <1>7, RunLoopAssumption DEF Tick, RunLoopAssumption
  <2>2. /\ Len(waitlist') = Len(waitlist)
        /\ \A i \in 1 .. Len(waitlist) :
             /\ waitlist'[i].task = waitlist[i].task
             /\ waitlist'[i].due =
                  IF waitlist[i].due > -LateCap THEN waitlist[i].due - 1
                  ELSE waitlist[i].due
    BY <1>1, <2>1, AgeLowers
  <2>3. Promise!Pass
    BY <1>2, <1>3, <2>2 DEF Promise!Pass, Promised
  <2> QED
    BY <2>3 DEF Promise!Next
<1> QED
  BY <1>4, <1>5, <1>6, <1>7
    DEF Next, LoopStep, HandlerCall, SkipT3, TaskReturn, ArmForNext, Rearm,
        loopVars

\* When the loop is prompt and only tasks schedule, the chain, the timer and
\* the loop keep the promise of `schedule`: no task is dispatched before the
\* time its caller asked for, and none is lost, invented or dispatched twice.
THEOREM PromptLoopKeepsPromise ==
  ASSUME Latency = FALSE, WorkDelays = {}
  PROVE  Spec => NeverEarly
<1>1. PromptInv /\ [Next]_loopVars => [Promise!Next]_Promised
  BY StepKeepsPromise
<1> QED
  BY <1>1, InitKeepsPromise, PromptInvHolds, PTL
    DEF Spec, NeverEarly, Promise!Spec

-----------------------------------------------------------------------------
\* Service.

\* The fairness of the loop and of the clock with the guards spelled out: an
\* iteration always has a next step, and while the one-shot runs a centisecond
\* comes (where time passes in every phase, that is with Latency).
LoopRuns == []<><<LoopStep>>_loopVars
ClockRuns == []<>(t3 = 0) \/ []<><<Tick>>_loopVars

\* A list that no task is taken from.
Waiting == waitlist # <<>> /\ phase # "task"

\* The timer was loaded for the present head.
Settled == lastArmed = FrontDelta(waitlist)

ListGrows == Len(waitlist') > Len(waitlist)
ListKept == Len(waitlist') >= Len(waitlist)
TimerFalls == t3' < t3
TimerKept == t3' <= t3

\* What a list goes through while nothing is dispatched from it: it never gets
\* shorter, and unless it grows the timer is loaded once more at the most.
LEMMA WaitingSteps ==
  ASSUME Inv, [Next]_loopVars, Waiting, Waiting'
  PROVE  /\ ListKept
         /\ t3Pending => t3Pending'
         /\ phase' = phase \/ LoopStep
         /\ LoopStep /\ phase = "t3" => ~t3Pending /\ phase' = "work"
         /\ LoopStep /\ phase = "work" => phase' = "t3" /\ Settled'
         /\ Settled /\ ~ListGrows => Settled' /\ TimerKept
         /\ Tick /\ t3 > 0 => TimerFalls
<1>1. Sound(waitlist) /\ waitlist # <<>> /\ Len(waitlist) \in Nat
  BY InvIsSound DEF Waiting, Sound, IsWaitlist
<1>2. t3 \in Nat /\ phase \in {"t3", "work"} /\ phase' # "task"
  BY DEF Inv, TypeOK, Waiting
<1>3. SkipT3 => /\ phase = "t3" /\ phase' = "work" /\ ~t3Pending
                /\ UNCHANGED <<waitlist, t3, lastArmed>>
  BY <1>1 DEF SkipT3
<1>4. Rearm => /\ phase = "work" /\ phase' = "t3" /\ Settled'
               /\ UNCHANGED <<waitlist, t3Pending>>
               /\ Settled => t3' = t3
  BY DEF Rearm, Settled
<1>5. Tick => /\ Len(waitlist') = Len(waitlist)
              /\ FrontDelta(waitlist') = FrontDelta(waitlist)
              /\ t3' = IF t3 > 0 THEN t3 - 1 ELSE 0
              /\ t3Pending => t3Pending'
              /\ UNCHANGED <<lastArmed, phase>>
  <2> SUFFICES ASSUME Tick
               PROVE  /\ Len(waitlist') = Len(waitlist)
                      /\ FrontDelta(waitlist') = FrontDelta(waitlist)
                      /\ t3' = IF t3 > 0 THEN t3 - 1 ELSE 0
                      /\ t3Pending => t3Pending'
                      /\ UNCHANGED <<lastArmed, phase>>
    OBVIOUS
  <2>1. waitlist' = Age(waitlist, LateCap) /\ LateCap \in Nat
    BY RunLoopAssumption DEF Tick, RunLoopAssumption
  <2>2. t3Pending => t3Pending'
    BY Zenon DEF Tick
  <2> QED
    BY <1>1, <2>1, <2>2, AgeKeepsSound, AgeLowers DEF Tick
<1>6. WorkCall => /\ UNCHANGED <<t3, t3Pending, lastArmed, phase>>
                  /\ waitlist' = waitlist \/ ListGrows
  <2> SUFFICES ASSUME WorkCall, waitlist' # waitlist PROVE ListGrows
    BY DEF WorkCall
  <2>1. PICK cs \in WorkDelays, t \in Tasks : waitlist' \in Schedule(waitlist, cs, t)
    BY DEF WorkCall, CallEffects, Waiting
  <2>2. cs \in 1 .. MaxDelay
    BY RunLoopAssumption DEF RunLoopAssumption
  <2>3. Len(waitlist') = Len(waitlist) + 1
    BY <1>1, <2>1, <2>2, ScheduleAdds
  <2> QED
    BY <1>1, <2>3 DEF ListGrows
<1>7. LoopStep => SkipT3 \/ Rearm
  BY <1>2 DEF LoopStep, PopFront, TaskReturn
<1>8. SkipT3 \/ Rearm \/ Tick \/ WorkCall \/ UNCHANGED loopVars
  BY <1>2, <1>7 DEF Next, HandlerCall, TaskCall
<1>9. ListKept
  BY <1>1, <1>3, <1>4, <1>5, <1>6, <1>8 DEF ListKept, ListGrows, loopVars
<1>10. t3Pending => t3Pending'
  BY <1>3, <1>4, <1>5, <1>6, <1>8 DEF loopVars
<1>11. phase' = phase \/ LoopStep
  BY <1>5, <1>6, <1>8 DEF loopVars, LoopStep
<1>12. LoopStep /\ phase = "t3" => ~t3Pending /\ phase' = "work"
  BY <1>3, <1>4, <1>7
<1>13. LoopStep /\ phase = "work" => phase' = "t3" /\ Settled'
  BY <1>3, <1>4, <1>7
<1>14. Settled /\ ~ListGrows => Settled' /\ TimerKept
  BY <1>2, <1>3, <1>4, <1>5, <1>6, <1>8 DEF loopVars, Settled, TimerKept
<1>15. Tick /\ t3 > 0 => TimerFalls
  BY <1>2, <1>5 DEF TimerFalls
<1> QED
  BY <1>9, <1>10, <1>11, <1>12, <1>13, <1>14, <1>15

\* The two ways in which a list could go unserved.  Insertions at the front
\* restart the countdown, so either they never end and the list grows over
\* and over without getting shorter, or the timer counts down for ever.
ListGrowsForever == <>[][ListKept]_loopVars /\ []<><<ListGrows>>_loopVars
TimerFallsForever == <>[][TimerKept]_loopVars /\ []<><<TimerFalls>>_loopVars

\* A waiting list is served, or one of two natural numbers changes in one
\* direction for ever: the length of the list, which MaxTasks bounds, or the
\* time on the timer, which is never negative (both by RunLoopTypeCorrect).
\* Neither can: the rest of this section shows it for numbers of the widths
\* that the code gives them.
LEMMA WaitingListIsServed ==
  Spec /\ LoopRuns /\ ClockRuns =>
    ServedEventually \/ ListGrowsForever \/ TimerFallsForever
<1>1. Inv => phase = "t3" \/ phase = "task" \/ phase = "work"
  BY DEF Inv, TypeOK
<1>2. Inv /\ Waiting => (phase = "t3" => ~(t3 = 0) \/ t3Pending)
  BY InvIsSound, FrontDeltaType DEF Inv, CacheHonest, Waiting
<1>3. Inv /\ [Next]_loopVars /\ Waiting /\ Waiting' =>
        /\ ListKept
        /\ t3Pending => t3Pending'
        /\ LoopStep \/ (phase = "t3" => (phase = "t3")')
        /\ LoopStep \/ (phase = "work" => (phase = "work")')
        /\ LoopStep /\ phase = "t3" => ~t3Pending /\ (phase = "work")'
        /\ LoopStep /\ phase = "work" => (phase = "t3")' /\ Settled'
        /\ Settled /\ ~ListGrows => Settled' /\ TimerKept
        /\ Tick /\ ~(t3 = 0) => TimerFalls
  <2>1. Inv /\ ~(t3 = 0) => t3 > 0
    BY DEF Inv, TypeOK
  <2> QED
    BY <2>1, WaitingSteps
<1>4. Inv /\ Inv' /\ [TimerKept]_loopVars /\ t3 = 0 => (t3 = 0)'
  BY DEF Inv, TypeOK, TimerKept, loopVars
<1>5. Inv /\ UNCHANGED loopVars => ~TimerFalls /\ ~ListGrows
  BY InvIsSound DEF Inv, TypeOK, Sound, IsWaitlist, loopVars, TimerFalls, ListGrows
<1>6. <<LoopStep>>_loopVars => LoopStep
  OBVIOUS
<1>7. <<Tick>>_loopVars => Tick
  OBVIOUS
<1>8. Waiting => ~(phase = "task")
  BY DEF Waiting
<1>9. [][Next]_loopVars /\ []Inv /\ LoopRuns /\ <>[]Waiting =>
        /\ <>[](phase = "t3" => ~(t3 = 0))
        /\ []<>(phase = "t3")
        /\ <>[][ListKept]_loopVars
  BY <1>1, <1>2, <1>3, <1>6, <1>8, PTL DEF LoopRuns
<1>10. [][Next]_loopVars /\ []Inv /\ LoopRuns /\ <>[]Waiting /\ <>[][~ListGrows]_loopVars =>
        /\ <>[]Settled
        /\ <>[][TimerKept]_loopVars
  BY <1>1, <1>3, <1>5, <1>6, <1>8, PTL DEF LoopRuns
<1>11. []Inv /\ <>[][TimerKept]_loopVars /\ <>[](phase = "t3" => ~(t3 = 0))
         /\ []<>(phase = "t3") => <>[]~(t3 = 0)
  BY <1>4, PTL
<1>12. [][Next]_loopVars /\ []Inv /\ <>[]Waiting /\ <>[]~(t3 = 0) /\ ClockRuns =>
         []<><<TimerFalls>>_loopVars
  BY <1>3, <1>5, <1>7, PTL DEF ClockRuns
<1>13. <>[][ListKept]_loopVars /\ ~ListGrowsForever => <>[][~ListGrows]_loopVars
  BY PTL DEF ListGrowsForever
<1>14. ~(phase = "task" \/ waitlist = <<>>) => Waiting
  BY DEF Waiting
<1>15. ~ServedEventually => <>[]Waiting
  BY <1>14, PTL DEF ServedEventually
<1> QED
  BY <1>9, <1>10, <1>11, <1>12, <1>13, <1>15, InvHolds, PTL DEF Spec, TimerFallsForever

\* Within the capacity of the code, MAX_WAITLIST_TASKS = 8, no stream of
\* insertions starves the list: only a timer that counts down for ever would.
LEMMA InsertionsCannotStarve ==
  ASSUME MaxTasks <= 8
  PROVE  Spec /\ LoopRuns /\ ClockRuns => ServedEventually \/ TimerFallsForever
<1>1. Inv => Len(waitlist) \in Nat /\ ~(Len(waitlist) >= 9)
  BY InvIsSound, WaitlistAssumption DEF Sound, IsWaitlist, WaitlistAssumption
<1>2. Inv /\ Inv' /\ [ListKept]_loopVars =>
        /\ Len(waitlist) >= 1 => (Len(waitlist) >= 1)'
        /\ Len(waitlist) >= 2 => (Len(waitlist) >= 2)'
        /\ Len(waitlist) >= 3 => (Len(waitlist) >= 3)'
        /\ Len(waitlist) >= 4 => (Len(waitlist) >= 4)'
        /\ Len(waitlist) >= 5 => (Len(waitlist) >= 5)'
        /\ Len(waitlist) >= 6 => (Len(waitlist) >= 6)'
        /\ Len(waitlist) >= 7 => (Len(waitlist) >= 7)'
        /\ Len(waitlist) >= 8 => (Len(waitlist) >= 8)'
  BY <1>1 DEF ListKept, loopVars
<1>3. Inv /\ Inv' /\ <<ListGrows>>_loopVars =>
        /\ (Len(waitlist) >= 1)'
        /\ Len(waitlist) >= 1 => (Len(waitlist) >= 2)'
        /\ Len(waitlist) >= 2 => (Len(waitlist) >= 3)'
        /\ Len(waitlist) >= 3 => (Len(waitlist) >= 4)'
        /\ Len(waitlist) >= 4 => (Len(waitlist) >= 5)'
        /\ Len(waitlist) >= 5 => (Len(waitlist) >= 6)'
        /\ Len(waitlist) >= 6 => (Len(waitlist) >= 7)'
        /\ Len(waitlist) >= 7 => (Len(waitlist) >= 8)'
        /\ Len(waitlist) >= 8 => (Len(waitlist) >= 9)'
  BY <1>1 DEF ListGrows
<1>4. []Inv => ~ListGrowsForever
  BY <1>1, <1>2, <1>3, PTL DEF ListGrowsForever
<1> QED
  BY <1>4, InvHolds, WaitingListIsServed, PTL

\* A number that never rises and has some width w settles: in the upper or the
\* lower half of the w values it can still have, and so on down to one value.
\* This takes the place of an induction.
TimerIn(a, w) == <>[](a <= t3 /\ t3 < a + w)
TimerWithin(w) == \E a \in Nat : TimerIn(a, w)
TimerOnlyFalls == [](t3 \in Nat) /\ <>[][TimerKept]_loopVars

LEMMA TimerNarrows ==
  ASSUME NEW a \in Nat, NEW w \in Nat
  PROVE  TimerOnlyFalls /\ TimerIn(a, 2 * w) => TimerIn(a, w) \/ TimerIn(a + w, w)
<1>1. t3 \in Nat /\ (t3 \in Nat)' /\ [TimerKept]_loopVars /\ t3 < a + w => (t3 < a + w)'
  BY DEF TimerKept, loopVars
<1>2. t3 \in Nat /\ a <= t3 /\ t3 < a + 2 * w
        => t3 < a + w \/ (a + w <= t3 /\ t3 < (a + w) + w)
  OBVIOUS
<1> QED
  BY <1>1, <1>2, PTL DEF TimerIn, TimerOnlyFalls

LEMMA TimerHalves ==
  ASSUME NEW w \in Nat
  PROVE  TimerOnlyFalls /\ TimerWithin(2 * w) => TimerWithin(w)
<1> SUFFICES ASSUME TimerOnlyFalls, TimerWithin(2 * w) PROVE TimerWithin(w)
  OBVIOUS
<1>1. PICK a \in Nat : TimerIn(a, 2 * w)
  BY DEF TimerWithin
<1>2. TimerIn(a, w) \/ TimerIn(a + w, w)
  BY <1>1, TimerNarrows
<1>3. a + w \in Nat
  OBVIOUS
<1> QED
  BY <1>2, <1>3 DEF TimerWithin

LEMMA TimerNarrowsAByte ==
  ASSUME NEW w \in Nat
  PROVE  TimerOnlyFalls /\ TimerWithin(256 * w) => TimerWithin(w)
<1> SUFFICES ASSUME TimerOnlyFalls, TimerWithin(256 * w) PROVE TimerWithin(w)
  OBVIOUS
<1>1. \A v \in Nat : TimerWithin(2 * v) => TimerWithin(v)
  BY TimerHalves
<1>2. TimerWithin(16 * w)
  <2>1. TimerWithin(64 * w)
    <3>1. /\ 64 * w \in Nat /\ 128 * w \in Nat
          /\ 256 * w = 2 * (128 * w) /\ 128 * w = 2 * (64 * w)
      OBVIOUS
    <3> QED
      BY <1>1, <3>1
  <2>2. /\ 16 * w \in Nat /\ 32 * w \in Nat
        /\ 64 * w = 2 * (32 * w) /\ 32 * w = 2 * (16 * w)
    OBVIOUS
  <2> QED
    BY <1>1, <2>1, <2>2
<1>3. TimerWithin(4 * w)
  <2>1. /\ 4 * w \in Nat /\ 8 * w \in Nat
        /\ 16 * w = 2 * (8 * w) /\ 8 * w = 2 * (4 * w)
    OBVIOUS
  <2> QED
    BY <1>1, <1>2, <2>1
<1>4. 2 * w \in Nat /\ 4 * w = 2 * (2 * w)
  OBVIOUS
<1> QED
  BY <1>1, <1>3, <1>4

LEMMA TimerStops ==
  TimerOnlyFalls /\ [](t3 < 4294967296) => ~TimerFallsForever
<1>1. \A w \in Nat : TimerOnlyFalls /\ TimerWithin(256 * w) => TimerWithin(w)
  BY TimerNarrowsAByte
<1>2. TimerOnlyFalls /\ TimerWithin(4294967296) => TimerWithin(1)
  BY <1>1, 4294967296 = 256 * 16777216, 16777216 = 256 * 65536, 65536 = 256 * 256,
     256 = 256 * 1
<1>3. TimerOnlyFalls /\ [](t3 < 4294967296) => TimerWithin(4294967296)
  <2>1. t3 \in Nat /\ t3 < 4294967296 => 0 <= t3 /\ t3 < 0 + 4294967296
    OBVIOUS
  <2>2. TimerOnlyFalls /\ [](t3 < 4294967296) => TimerIn(0, 4294967296)
    BY <2>1, PTL DEF TimerOnlyFalls, TimerIn
  <2> QED
    BY <2>2 DEF TimerWithin
<1>4. ASSUME NEW a \in Nat
      PROVE  TimerOnlyFalls /\ TimerIn(a, 1) => ~TimerFallsForever
  <2>1. t3 \in Nat /\ (t3 \in Nat)' /\ a <= t3 /\ t3 < a + 1
          /\ (a <= t3)' /\ (t3 < a + 1)' => ~TimerFalls
    BY DEF TimerFalls
  <2> QED
    BY <2>1, PTL DEF TimerOnlyFalls, TimerIn, TimerFallsForever
<1>5. TimerOnlyFalls /\ TimerWithin(1) => ~TimerFallsForever
  BY <1>4 DEF TimerWithin
<1> QED
  BY <1>2, <1>3, <1>5

\* No delta, cached or in the list, is longer than a delay; so the timer
\* never holds more than the longest reload.
ReloadBounded ==
  /\ t3 <= MaxDelay \/ t3 <= ZeroReload
  /\ next <= MaxDelay

LEMMA FrontDeltaBounded ==
  ASSUME NEW list, Sound(list)
  PROVE  FrontDelta(list) <= MaxDelay
<1>1. CASE list = <<>>
  BY <1>1, WaitlistAssumption DEF FrontDelta, None, WaitlistAssumption
<1>2. CASE list # <<>>
  <2>1. list \in Seq(Entry) /\ 1 \in 1 .. Len(list)
    BY <1>2, EmptySeq DEF Sound, IsWaitlist
  <2>2. list[1].sum = 0 + list[1].delta /\ list[1].sum <= MaxDelay
    BY <2>1 DEF Sound, ChainSums, ChainInRange, SumBefore
  <2>3. list[1].delta \in Nat
    BY <2>1, ElementsAreEntries
  <2> QED
    BY <1>2, <2>2, <2>3 DEF FrontDelta
<1> QED
  BY <1>1, <1>2

LEMMA ArmT3Bounded ==
  ASSUME NEW cs, cs <= MaxDelay
  PROVE  ArmT3(cs) <= MaxDelay \/ ArmT3(cs) <= ZeroReload
  BY RunLoopAssumption DEF RunLoopAssumption, ArmT3

LEMMA ReloadBoundedHolds == Spec => []ReloadBounded
<1>1. Init => ReloadBounded
  <2> SUFFICES ASSUME Init PROVE ReloadBounded
    OBVIOUS
  <2>1. Sound(waitlist)
    BY InitInv, InvIsSound
  <2> QED
    BY <2>1, FrontDeltaBounded, ArmT3Bounded, WaitlistAssumption
    DEF Init, ReloadBounded, None, WaitlistAssumption
<1>2. Inv /\ ReloadBounded /\ [Next]_loopVars => ReloadBounded'
  <2> SUFFICES ASSUME Inv, ReloadBounded, [Next]_loopVars PROVE ReloadBounded'
    OBVIOUS
  <2>1. /\ MaxDelay \in Nat /\ ZeroReload \in Nat
        /\ t3 \in Nat /\ FrontDelta(waitlist) <= MaxDelay
    BY InvIsSound, FrontDeltaBounded, WaitlistAssumption, RunLoopAssumption
    DEF Inv, TypeOK, WaitlistAssumption, RunLoopAssumption
  <2>2. CASE PopFront
    <3>1. FrontDelta(waitlist') <= MaxDelay
      BY <2>2, InvIsSound, PopKeepsSound, FrontDeltaBounded DEF PopFront
    <3> QED
      BY <2>2, <3>1 DEF PopFront, ReloadBounded
  <2>3. CASE TaskReturn
    BY <2>1, <2>3, ArmT3Bounded DEF TaskReturn, ArmForNext, ReloadBounded, None
  <2>4. CASE Rearm
    BY <2>1, <2>4, ArmT3Bounded DEF Rearm, ReloadBounded
  <2>5. CASE Tick
    BY <2>1, <2>5 DEF Tick, ReloadBounded
  <2>6. CASE SkipT3 \/ TaskCall \/ WorkCall \/ UNCHANGED loopVars
    BY <2>6 DEF SkipT3, TaskCall, WorkCall, loopVars, ReloadBounded
  <2> QED
    BY <2>2, <2>3, <2>4, <2>5, <2>6 DEF Next, LoopStep, HandlerCall
<1> QED
  BY <1>1, <1>2, InvHolds, PTL DEF Spec

\* The numbers within the widths the code gives them: MAX_WAITLIST_TASKS, a
\* u16 of centiseconds for every delay, a 32-bit timer.
FlightWidths ==
  /\ MaxTasks <= 8
  /\ MaxDelay < 65536
  /\ ZeroReload < 4294967296

\* A timer of 32 bits does not count down for ever.
LEMMA TimerComesToAnEnd ==
  ASSUME FlightWidths
  PROVE  Spec => ~TimerFallsForever
<1>1. Inv => t3 \in Nat
  BY DEF Inv, TypeOK
<1>2. Inv /\ ReloadBounded => t3 < 4294967296
  BY <1>1, WaitlistAssumption, RunLoopAssumption
  DEF FlightWidths, ReloadBounded, WaitlistAssumption, RunLoopAssumption
<1>3. []Inv /\ []ReloadBounded /\ TimerFallsForever =>
        TimerOnlyFalls /\ [](t3 < 4294967296)
  BY <1>1, <1>2, PTL DEF TimerFallsForever, TimerOnlyFalls
<1> QED
  BY <1>3, TimerStops, InvHolds, ReloadBoundedHolds

\* A waiting list is served: whatever the handlers schedule and clear, and
\* whenever the ISR strikes, a task is dispatched or the list is cleared.
THEOREM WaitingListServed ==
  ASSUME FlightWidths
  PROVE  Spec /\ LoopRuns /\ ClockRuns => ServedEventually
  BY InsertionsCannotStarve, TimerComesToAnEnd DEF FlightWidths
=============================================================================
