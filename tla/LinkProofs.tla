----------------------------- MODULE LinkProofs -----------------------------
(****************************************************************************)
(* Proofs about Link, for every payload bound, queue and number of keys.    *)
(*                                                                          *)
(* The argument: a decoder that holds this frame's bytes (clean) is in step *)
(* with the sender. After one good STX byte the decoder either is in step   *)
(* or, having taken it for a length, is idle, and stays so to the end of    *)
(* the frame. Both ways the next frame finds it idle and is decoded.        *)
(****************************************************************************)
EXTENDS Link, TLAPS

InStep ==
    \/ pos = 2 /\ at = "len"
    \/ pos > 2 /\ at = "body" /\ left = Size(frame) + 1 - pos

CleanInStep == clean => InStep

\* Past the first byte of a good frame the decoder is in step or idle.
Following == plain /\ pos > 1 => at = "idle" \/ clean

\* After a good frame the next one finds the decoder idle, and is followed.
Synced == plain /\ prior => IF pos = 1 THEN at = "idle" ELSE clean

DecoderInv == LinkTypeOK /\ CleanInStep /\ Following /\ Synced /\ ResyncAfterOne

\* The keys on their way: taken, queued in order, and the one being sent.
FrameKeyLatest == frame.key > 0 => frame.key = sent
KeysBelow(n) ==
    /\ taken < n
    /\ \A i \in 1..Len(queue): queue[i] < n
KeysOrdered ==
    /\ KeysBelow(sent + 1)
    /\ frame.key > 0 => KeysBelow(frame.key)
    /\ \A i \in 1..Len(queue): taken < queue[i]
    /\ \A i, j \in 1..Len(queue): i < j => queue[i] < queue[j]

OrderInv == FrameKeyLatest /\ KeysOrdered

LinkInv == DecoderInv /\ OrderInv

-----------------------------------------------------------------------------
(* What one byte does. *)

\* The length and position of the next byte are in range, the latest key is
\* the frame's.
LEMMA AdvanceTypes ==
    ASSUME LinkTypeOK, NEW good \in BOOLEAN,
           NEW result \in {"delivered", "overflow", "lost"},
           Advance(good, result)
    PROVE  /\ frame' \in Frame /\ pos' \in 1..(frame'.len + 6) /\ sent' \in 0..MaxKeys
           /\ plain' \in BOOLEAN /\ prior' \in BOOLEAN /\ owed' \in BOOLEAN
           /\ outcome' \in {"delivered", "overflow", "lost"}
  <1>1. CASE Last
    <2>1. PICK f \in NextFrames: frame' = f /\ sent' = IF f.key > 0 THEN f.key ELSE sent
      BY <1>1 DEF Advance
    <2>2. f \in Frame
      <3>1. CASE f \in OtherFrames
        BY <3>1, LinkAssumption DEF LinkAssumption, OtherFrames, Frame
      <3>2. CASE f \in {[len |-> KeyLength, key |-> k] : k \in {sent + 1} \cap 1..MaxKeys}
        BY <3>2, LinkAssumption DEF LinkAssumption, Frame
      <3>3. QED BY <3>1, <3>2 DEF NextFrames
    <2>3. pos' = 1 /\ pos' \in 1..(frame'.len + 6)
      BY <1>1, <2>1, <2>2, LinkAssumption DEF LinkAssumption, Advance, Frame
    <2>4. sent' \in 0..MaxKeys
      BY <2>1, <2>2 DEF LinkTypeOK, Frame
    <2>5. QED BY <1>1, <2>1, <2>2, <2>3, <2>4 DEF Advance, LinkTypeOK
  <1>2. CASE ~Last
    <2>1. frame' = frame /\ sent' = sent /\ pos' = pos + 1
      BY <1>2 DEF Advance
    <2>2. pos' \in 1..(frame'.len + 6)
      BY <2>1, <1>2, LinkAssumption DEF LinkAssumption, LinkTypeOK, Frame, Last, Size
    <2>3. QED BY <1>2, <2>1, <2>2 DEF Advance, LinkTypeOK
  <1>3. QED BY <1>1, <1>2

\* The decoder stays within its buffer, whatever byte it is fed.
LEMMA PushTypes ==
    ASSUME LinkTypeOK, NEW v \in Byte, NEW intact \in BOOLEAN, Push(v, intact)
    PROVE  /\ at' \in {"idle", "len", "body"} /\ left' \in 0..(MaxPayload + 4)
           /\ (at' = "body" <=> left' > 0) /\ clean' \in BOOLEAN
  <1>1. CASE StartFrame(v, intact)
    BY <1>1, LinkAssumption DEF LinkAssumption, StartFrame, LinkTypeOK
  <1>2. CASE Skip(v)
    BY <1>2, LinkAssumption DEF LinkAssumption, Skip, LinkTypeOK, decoderVars
  <1>3. CASE TakeLength(v, intact)
    <2>1. CASE v > MaxPayload
      <3>1. at' = "idle" /\ left' = 0 /\ clean' = FALSE
        BY <1>3, <2>1, LinkAssumption DEF LinkAssumption, TakeLength, Byte
      <3>2. clean' \in BOOLEAN
        BY <3>1
      <3>3. QED BY <3>1, <3>2, LinkAssumption DEF LinkAssumption
    <2>2. CASE v <= MaxPayload
      <3>1. at' = "body" /\ left' = v + 4 /\ clean' = (clean /\ intact)
        BY <1>3, <2>2, LinkAssumption DEF LinkAssumption, TakeLength, Byte
      <3>2. clean' \in BOOLEAN
        BY <3>1
      <3>3. QED BY <2>2, <3>1, <3>2, LinkAssumption DEF LinkAssumption, Byte
    <2>3. QED BY <2>1, <2>2, LinkAssumption DEF LinkAssumption, Byte
  <1>4. CASE Collect(v, intact)
    BY <1>4, LinkAssumption DEF LinkAssumption, Collect, LinkTypeOK
  <1>5. CASE Complete(v)
    <2>1. at' = "idle" /\ left' = 0 /\ clean' = FALSE
      BY <1>5 DEF Complete
    <2>2. clean' \in BOOLEAN
      BY <2>1
    <2>3. QED BY <2>1, <2>2, LinkAssumption DEF LinkAssumption
  <1>6. QED BY <1>1, <1>2, <1>3, <1>4, <1>5 DEF Push

\* A key joins the queue when there is room.
LEMMA ReceiveTypes ==
    ASSUME LinkTypeOK, NEW v \in Byte, NEW intact \in BOOLEAN, Receive(v, intact)
    PROVE  queue' \in Seq(1..MaxKeys) /\ Len(queue') <= QueueCap
  <1>1. CASE queue' = queue
    BY <1>1 DEF LinkTypeOK
  <1>2. CASE frame.key > 0 /\ Len(queue) < QueueCap /\ queue' = Append(queue, frame.key)
    <2>1. frame.key \in 1..MaxKeys /\ Len(queue) \in Nat
      BY <1>2 DEF LinkTypeOK, Frame
    <2>2. QED BY <1>2, <2>1, LinkAssumption DEF LinkAssumption, LinkTypeOK
  <1>3. QED BY <1>1, <1>2 DEF Receive, Dispatch

LEMMA ValuesAreBytes ==
    ASSUME LinkTypeOK
    PROVE  Values \subseteq Byte
  <1>1. Stx \in Byte /\ frame.len \in Byte
    BY LinkAssumption DEF LinkAssumption, Byte, LinkTypeOK, Frame
  <1>2. Values \in {{Stx}, {frame.len}, Byte \ {Stx}, Byte}
    BY DEF Values
  <1>3. QED BY <1>1, <1>2

LEMMA ResultTypes ==
    ASSUME NEW v, NEW intact
    PROVE  Result(v, intact) \in {"delivered", "overflow", "lost"}
  BY DEF Result

\* Whatever byte arrives, a decoder that holds the frame is in step with it.
LEMMA PushInStep ==
    ASSUME LinkTypeOK, CleanInStep, NEW v \in Byte, NEW intact \in BOOLEAN, 
           intact => v \in Values, Push(v, intact)
    PROVE  clean' => /\ ~Last /\ intact
                     /\ \/ pos = 1 /\ at' = "len"
                        \/ pos > 1 /\ at' = "body" /\ left' = Size(frame) - pos
  <1>0. pos \in Nat /\ frame.len \in Nat /\ left \in Nat /\ Size(frame) = frame.len + 6
    BY LinkAssumption DEF LinkAssumption, LinkTypeOK, Frame, Size
  <1>1. CASE StartFrame(v, intact)
    <2>1. at' = "len" /\ (clean' => intact /\ pos = 1)
      BY <1>1 DEF StartFrame
    <2>2. QED BY <1>0, <2>1 DEF Last
  <1>2. CASE Skip(v)
    BY <1>0, <1>2 DEF Skip, CleanInStep, InStep, LinkTypeOK, decoderVars
  <1>3. CASE TakeLength(v, intact)
    <2>1. CASE clean'
      <3>1. clean /\ intact /\ at' = "body" /\ left' = v + 4
        BY <1>3, <2>1 DEF TakeLength
      <3>2. pos = 2
        BY <1>3, <3>1 DEF TakeLength, CleanInStep, InStep
      <3>3. v = frame.len
        BY <3>1, <3>2 DEF Values
      <3>4. QED BY <1>0, <3>1, <3>2, <3>3 DEF Last
    <2>2. QED BY <2>1
  <1>4. CASE Collect(v, intact)
    BY <1>0, <1>4 DEF Collect, CleanInStep, InStep, Last, LinkTypeOK
  <1>5. CASE Complete(v)
    BY <1>5 DEF Complete
  <1>6. QED BY <1>1, <1>2, <1>3, <1>4, <1>5 DEF Push

\* A frame is handed over with its last byte.
LEMMA ReadyAtLast ==
    ASSUME LinkTypeOK, CleanInStep, NEW v, NEW intact, Ready(v, intact)
    PROVE  Last
  BY LinkAssumption DEF LinkAssumption, Ready, CleanInStep, InStep, Last, Size, LinkTypeOK, Frame

\* A good byte keeps an idle decoder idle or starts it, and keeps one in step.
LEMMA GoodByte ==
    ASSUME DecoderInv, NEW v \in Values, Push(v, TRUE), v = Stx => pos = 1
    PROVE  /\ pos = 1 => at' = "idle" \/ (at' = "len" /\ clean')
           /\ pos = 1 /\ at = "idle" => at' = "len" /\ clean'
           /\ pos > 1 /\ at = "idle" => at' = "idle"
           /\ clean /\ ~Last => clean'
           /\ clean /\ Last => Ready(v, TRUE) /\ at' = "idle"
  <1>0. /\ pos \in Nat /\ frame.len \in 0..MaxPayload /\ left \in Nat
        /\ Size(frame) = frame.len + 6 /\ pos >= 1
        /\ MaxPayload \in Nat /\ Stx \in Nat /\ MaxPayload < Stx
    BY LinkAssumption DEF LinkAssumption, DecoderInv, LinkTypeOK, Frame, Size
  <1>1. pos = 1 => v = Stx
    BY DEF Values
  <1>2. pos = 2 => v = frame.len
    BY DEF Values
  <1>3. (at = "body" <=> left > 0) /\ at \in {"idle", "len", "body"} /\ clean \in BOOLEAN
    BY DEF DecoderInv, LinkTypeOK
  <1>4. clean => InStep
    BY DEF DecoderInv, CleanInStep
  <1>5. CASE StartFrame(v, TRUE)
    <2>1. v = Stx /\ at # "len" /\ at' = "len" /\ (pos = 1 => clean')
      BY <1>5 DEF StartFrame
    <2>2. pos = 1
      BY <2>1
    <2>3. ~clean
      BY <1>4, <2>2 DEF InStep
    <2>4. QED BY <2>1, <2>2, <2>3
  <1>6. CASE Skip(v)
    BY <1>0, <1>1, <1>2, <1>3, <1>4, <1>6 DEF Skip, InStep, Last, decoderVars
  <1>7. CASE TakeLength(v, TRUE)
    <2>0. v \in Nat
      BY <1>0, <1>3, ValuesAreBytes DEF DecoderInv, Byte
    <2>1. at = "len" /\ (v > MaxPayload => at' = "idle") /\ (v <= MaxPayload /\ clean => clean')
      <3>1. v <= MaxPayload => ~(v > MaxPayload)
        BY <1>0, <2>0
      <3>2. (v > MaxPayload) \/ (v <= MaxPayload)
        BY <1>0, <2>0
      <3>3. v > MaxPayload => ~(v <= MaxPayload)
        BY <1>0, <2>0
      <3>4. QED BY <1>7, <3>1, <3>2, <3>3, Zenon DEF TakeLength
    <2>2. CASE pos = 1
      <3>1. ~clean
        BY <1>4, <2>2 DEF InStep
      <3>2. at' = "idle"
        BY <1>0, <1>1, <2>1, <2>2
      <3>3. QED BY <2>1, <2>2, <3>1, <3>2
    <2>3. CASE pos # 1
      <3>1. clean => clean'
        BY <1>0, <1>2, <1>4, <2>1 DEF InStep
      <3>2. clean => ~Last
        BY <1>0, <1>4, <2>1 DEF InStep, Last
      <3>3. QED BY <2>1, <2>3, <3>1, <3>2
    <2>4. QED BY <2>2, <2>3
  <1>8. CASE Collect(v, TRUE)
    BY <1>0, <1>1, <1>2, <1>3, <1>4, <1>8 DEF Collect, InStep, Last
  <1>9. CASE Complete(v)
    BY <1>0, <1>1, <1>2, <1>3, <1>4, <1>9 DEF Complete, InStep, Last, Ready
  <1>10. QED BY <1>5, <1>6, <1>7, <1>8, <1>9 DEF Push

-----------------------------------------------------------------------------
(* The decoder's invariant. *)

\* The clauses about the frame carry over one byte of it, whatever its fate.
LEMMA ByteKeepsDecoderInv ==
    ASSUME DecoderInv, NEW v \in Byte, NEW intact \in BOOLEAN, intact => v \in Values,
           Receive(v, intact), NEW good \in BOOLEAN,
           good => intact /\ (v = Stx => pos = 1),
           Advance(good, Result(v, intact)), taken' = taken
    PROVE  DecoderInv'
  <1>0. LinkTypeOK /\ CleanInStep /\ Push(v, intact)
    BY DEF DecoderInv, Receive
  <1>1. LinkTypeOK'
    BY <1>0, AdvanceTypes, PushTypes, ReceiveTypes, ResultTypes DEF LinkTypeOK
  <1>2. pos \in Nat /\ pos >= 1 /\ Size(frame) \in Nat /\ Size(frame) >= 6
    BY <1>0, LinkAssumption DEF LinkAssumption, LinkTypeOK, Frame, Size
  <1>3. CleanInStep'
    <2>1. clean' => ~Last /\ frame' = frame /\ pos' = pos + 1
      BY <1>0, PushInStep DEF Advance
    <2>2. QED BY <1>0, <1>2, <2>1, PushInStep DEF CleanInStep, InStep, Size
  <1>4. CASE ~good
    <2>1. CASE Last
      <3>1. pos' = 1 /\ prior' = FALSE /\ owed' = FALSE
        BY <1>4, <2>1 DEF Advance
      <3>2. QED BY <1>1, <1>3, <3>1 DEF DecoderInv, Following, Synced, ResyncAfterOne
    <2>2. CASE ~Last
      <3>1. plain' = FALSE /\ owed' = owed /\ outcome' = outcome
        BY <1>4, <2>2 DEF Advance
      <3>2. QED BY <1>1, <1>3, <3>1 DEF DecoderInv, Following, Synced, ResyncAfterOne
    <2>3. QED BY <2>1, <2>2
  <1>5. CASE good
    <2>0. intact /\ v \in Values /\ (v = Stx => pos = 1)
      BY <1>5
    <2>1. Push(v, TRUE)
      BY <1>0, <2>0
    <2>2. /\ pos = 1 => at' = "idle" \/ (at' = "len" /\ clean')
          /\ pos = 1 /\ at = "idle" => at' = "len" /\ clean'
          /\ pos > 1 /\ at = "idle" => at' = "idle"
          /\ clean /\ ~Last => clean'
          /\ clean /\ Last => Ready(v, TRUE) /\ at' = "idle"
      BY <2>0, <2>1, GoodByte
    <2>3. Following /\ Synced /\ ResyncAfterOne
      BY DEF DecoderInv
    <2>4. CASE Last
      <3>1. /\ pos' = 1 /\ prior' = plain /\ owed' = (prior /\ plain)
            /\ outcome' = Result(v, intact)
        BY <1>5, <2>4, <1>0 DEF Advance, LinkTypeOK
      <3>2. pos > 1
        BY <1>2, <2>4 DEF Last
      <3>3. prior' => at' = "idle"
        BY <2>2, <2>3, <2>4, <3>1, <3>2 DEF Following
      <3>4. owed' => Ready(v, intact)
        BY <2>0, <2>2, <2>3, <2>4, <3>1, <3>2 DEF Synced
      <3>5. owed' => outcome' # "lost"
        BY <3>1, <3>4 DEF Result
      <3>6. QED
        BY <1>1, <1>3, <3>1, <3>3, <3>5 DEF DecoderInv, Following, Synced, ResyncAfterOne
    <2>5. CASE ~Last
      <3>1. /\ pos' = pos + 1 /\ plain' = plain /\ prior' = prior
            /\ owed' = owed /\ outcome' = outcome
        BY <1>5, <2>5, <1>0 DEF Advance, LinkTypeOK
      <3>2. Following'
        BY <1>2, <2>2, <2>3, <2>5, <3>1 DEF Following
      <3>3. Synced'
        BY <1>2, <2>2, <2>3, <2>5, <3>1 DEF Synced
      <3>4. QED
        BY <1>1, <1>3, <2>3, <3>1, <3>2, <3>3 DEF DecoderInv, ResyncAfterOne
    <2>6. QED BY <2>4, <2>5
  <1>6. QED BY <1>4, <1>5

LEMMA LossKeepsDecoderInv ==
    ASSUME DecoderInv, LoseByte
    PROVE  DecoderInv'
  <1>0. LinkTypeOK
    BY DEF DecoderInv
  <1>1. /\ clean' = FALSE /\ at' = at /\ left' = left /\ queue' = queue
        /\ taken' = taken /\ Advance(FALSE, "lost")
    BY DEF LoseByte
  <1>2. LinkTypeOK'
    BY <1>0, <1>1, AdvanceTypes DEF LinkTypeOK
  <1>3. CASE Last
    <2>1. pos' = 1 /\ prior' = FALSE /\ owed' = FALSE
      BY <1>1, <1>3 DEF Advance
    <2>2. QED BY <1>1, <1>2, <2>1 DEF DecoderInv, CleanInStep, Following, Synced, ResyncAfterOne
  <1>4. CASE ~Last
    <2>1. plain' = FALSE /\ owed' = owed /\ outcome' = outcome
      BY <1>1, <1>4 DEF Advance
    <2>2. QED BY <1>1, <1>2, <2>1 DEF DecoderInv, CleanInStep, Following, Synced, ResyncAfterOne
  <1>5. QED BY <1>3, <1>4

LEMMA DecoderInitially ==
    ASSUME LinkInit
    PROVE  DecoderInv
  <1>1. frame \in Frame /\ frame.key = 0
    BY LinkAssumption DEF LinkAssumption, LinkInit, OtherFrames, Frame
  <1>2. pos \in 1..(frame.len + 6)
    BY <1>1, LinkAssumption DEF LinkAssumption, LinkInit, Frame
  <1>3. left \in 0..(MaxPayload + 4) /\ sent \in 0..MaxKeys /\ taken \in 0..MaxKeys
    BY LinkAssumption DEF LinkAssumption, LinkInit
  <1>4. queue \in Seq(1..MaxKeys) /\ Len(queue) <= QueueCap
    BY LinkAssumption DEF LinkAssumption, LinkInit
  <1>5. at = "idle" /\ left = 0 /\ (at = "body" <=> left > 0)
    BY DEF LinkInit
  <1>6. LinkTypeOK
    BY <1>1, <1>2, <1>3, <1>4, <1>5, Zenon DEF LinkInit, LinkTypeOK
  <1>7. CleanInStep /\ Following /\ Synced /\ ResyncAfterOne
    BY DEF LinkInit, CleanInStep, Following, Synced, ResyncAfterOne
  <1>8. QED BY <1>6, <1>7 DEF DecoderInv

\* One step, whichever: a byte with its fate, the foreground, or a reset.
LEMMA StepKeepsDecoderInv ==
    ASSUME DecoderInv, [LinkNext]_linkVars
    PROVE  DecoderInv'
  <1>0. LinkTypeOK
    BY DEF DecoderInv
  <1>1. CASE SendByte
    <2>1. PICK v \in Values: Receive(v, TRUE) /\ Advance(v = Stx => pos = 1, Result(v, TRUE))
      BY <1>1 DEF SendByte
    <2>2. v \in Byte /\ (v = Stx => pos = 1) \in BOOLEAN /\ taken' = taken
      BY <1>0, <1>1, ValuesAreBytes DEF SendByte
    <2>3. QED BY <2>1, <2>2, ByteKeepsDecoderInv
  <1>2. CASE GarbleByte
    <2>1. PICK v \in Byte: Receive(v, FALSE) /\ Advance(FALSE, Result(v, FALSE))
      BY <1>2 DEF GarbleByte
    <2>2. taken' = taken
      BY <1>2 DEF GarbleByte
    <2>3. QED BY <2>1, <2>2, ByteKeepsDecoderInv
  <1>3. CASE LoseByte
    BY <1>3, LossKeepsDecoderInv
  <1>4. CASE TakeKey
    <2>1. UNCHANGED <<senderVars, decoderVars, historyVars>>
      BY <1>4 DEF TakeKey
    <2>2. queue \in Seq(1..MaxKeys) /\ queue # <<>> /\ taken' = Head(queue) /\ queue' = Tail(queue)
      BY <1>0, <1>4 DEF TakeKey, LinkTypeOK
    <2>3. taken' \in 0..MaxKeys /\ queue' \in Seq(1..MaxKeys) /\ Len(queue') <= QueueCap
      BY <1>0, <2>2, LinkAssumption DEF LinkAssumption, LinkTypeOK
    <2>4. LinkTypeOK'
      BY <1>0, <2>1, <2>3, Zenon DEF LinkTypeOK, senderVars, decoderVars, historyVars
    <2>5. QED
      BY <2>1, <2>4 DEF DecoderInv, CleanInStep, InStep, Following, Synced, ResyncAfterOne,
                        senderVars, decoderVars, historyVars, Size
  <1>5. CASE Reboot
    <2>1. /\ at' = "idle" /\ left' = 0 /\ clean' = FALSE /\ queue' = <<>>
          /\ UNCHANGED <<senderVars, taken, prior, owed, outcome>>
          /\ plain' = (plain /\ pos = 1)
      BY <1>5 DEF Reboot
    <2>2. left' \in 0..(MaxPayload + 4) /\ (at' = "body" <=> left' > 0)
      BY <2>1, LinkAssumption DEF LinkAssumption
    <2>3. queue' \in Seq(1..MaxKeys) /\ Len(queue') <= QueueCap
      BY <2>1, LinkAssumption DEF LinkAssumption
    <2>4. LinkTypeOK'
      BY <1>0, <2>1, <2>2, <2>3, Zenon DEF LinkTypeOK, senderVars
    <2>5. QED
      BY <2>1, <2>4 DEF DecoderInv, CleanInStep, Following, Synced, ResyncAfterOne, senderVars
  <1>6. CASE UNCHANGED linkVars
    BY <1>6 DEF DecoderInv, LinkTypeOK, CleanInStep, InStep, Following, Synced, ResyncAfterOne,
                linkVars, senderVars, decoderVars, historyVars, Size
  <1>7. QED BY <1>1, <1>2, <1>3, <1>4, <1>5, <1>6 DEF LinkNext

LEMMA DecoderInvariant == LinkSpec => []DecoderInv
  BY DecoderInitially, StepKeepsDecoderInv, PTL DEF LinkSpec

\* The decoder never runs past its buffer, and the queue never past its
\* capacity, whatever arrives on the line.
THEOREM LinkTypeCorrect == LinkSpec => []LinkTypeOK
  <1>1. DecoderInv => LinkTypeOK
    BY DEF DecoderInv
  <1>2. QED BY <1>1, DecoderInvariant, PTL

\* However push() was left by what the line did before, the second of two
\* frames that arrive intact and free of STX bytes is handed over.
THEOREM SecondFrameDelivered == LinkSpec => []ResyncAfterOne
  <1>1. DecoderInv => ResyncAfterOne
    BY DEF DecoderInv
  <1>2. QED BY <1>1, DecoderInvariant, PTL

-----------------------------------------------------------------------------
(* The order of the keys. *)

\* The bridge's side of a byte: it goes on with its frame, or with the next
\* one, whose key if any is the latest.
LEMMA AdvanceKeys ==
    ASSUME LinkTypeOK, FrameKeyLatest, NEW good, NEW result, Advance(good, result)
    PROVE  /\ FrameKeyLatest'
           /\ \/ ~Last /\ frame' = frame /\ sent' = sent
              \/ Last /\ frame'.key = 0 /\ sent' = sent
              \/ Last /\ frame'.key = sent + 1 /\ sent' = sent + 1
  <1>0. sent \in Nat
    BY LinkAssumption DEF LinkAssumption, LinkTypeOK
  <1>1. CASE Last
    <2>1. PICK f \in NextFrames: frame' = f /\ sent' = IF f.key > 0 THEN f.key ELSE sent
      BY <1>1 DEF Advance
    <2>2. f.key = 0 \/ f.key = sent + 1
      BY <2>1, <1>0 DEF NextFrames, OtherFrames
    <2>3. QED BY <1>0, <1>1, <2>1, <2>2 DEF FrameKeyLatest
  <1>2. CASE ~Last
    BY <1>2 DEF Advance, FrameKeyLatest
  <1>3. QED BY <1>1, <1>2

\* A key that joins the queue is later than every key before it.
LEMMA KeyJoinsInOrder ==
    ASSUME LinkTypeOK, OrderInv, frame.key > 0,
           queue' = Append(queue, frame.key), taken' = taken
    PROVE  /\ \A i \in 1..Len(queue'): queue'[i] < sent + 1 /\ taken < queue'[i]
           /\ \A i, j \in 1..Len(queue'): i < j => queue'[i] < queue'[j]
  <1>0. /\ frame.key \in Nat /\ frame.key = sent /\ sent \in Nat /\ taken \in Nat
        /\ queue \in Seq(1..MaxKeys) /\ Len(queue) \in Nat
        /\ \A i \in 1..Len(queue): queue[i] \in Nat
    BY LinkAssumption DEF LinkAssumption, LinkTypeOK, Frame, OrderInv, FrameKeyLatest
  <1>1. /\ taken < frame.key
        /\ \A i \in 1..Len(queue): queue[i] < frame.key /\ taken < queue[i]
        /\ \A i, j \in 1..Len(queue): i < j => queue[i] < queue[j]
    BY DEF OrderInv, KeysOrdered, KeysBelow
  <1>2. /\ Len(queue') = Len(queue) + 1
        /\ \A i \in 1..Len(queue): queue'[i] = queue[i]
        /\ queue'[Len(queue) + 1] = frame.key
    BY <1>0
  <1>3. QED BY <1>0, <1>1, <1>2

\* A byte that completes no key leaves the queue's order as it was.
LEMMA AdvanceKeepsOrder ==
    ASSUME LinkTypeOK, OrderInv, NEW good, NEW result, Advance(good, result),
           queue' = queue, taken' = taken
    PROVE  OrderInv'
  <1>1. /\ sent \in Nat /\ frame.key \in Nat /\ Len(queue) \in Nat /\ taken \in Nat
        /\ \A i \in 1..Len(queue): queue[i] \in Nat
    BY LinkAssumption DEF LinkAssumption, LinkTypeOK, Frame
  <1>2. /\ FrameKeyLatest'
        /\ \/ frame'.key = frame.key /\ sent' = sent
           \/ frame'.key = 0 /\ sent' = sent
           \/ frame'.key = sent + 1 /\ sent' = sent + 1
    BY AdvanceKeys DEF OrderInv
  <1>3. KeysBelow(sent + 1) /\ (frame.key > 0 => KeysBelow(frame.key))
    BY DEF OrderInv, KeysOrdered
  <1>4. taken' < sent' + 1 /\ \A i \in 1..Len(queue'): queue'[i] < sent' + 1
    BY <1>1, <1>2, <1>3 DEF KeysBelow
  <1>5. frame'.key > 0 => taken' < frame'.key /\ \A i \in 1..Len(queue'): queue'[i] < frame'.key
    BY <1>1, <1>2, <1>3 DEF KeysBelow
  <1>6. /\ \A i \in 1..Len(queue'): taken' < queue'[i]
        /\ \A i, j \in 1..Len(queue'): i < j => queue'[i] < queue'[j]
    BY DEF OrderInv, KeysOrdered
  <1>7. QED BY <1>2, <1>4, <1>5, <1>6 DEF OrderInv, KeysOrdered, KeysBelow

LEMMA ByteKeepsOrder ==
    ASSUME LinkTypeOK, CleanInStep, OrderInv, NEW v \in Byte, NEW intact \in BOOLEAN,
           Receive(v, intact), NEW good, NEW result, Advance(good, result), taken' = taken
    PROVE  OrderInv'
  <1>0. FrameKeyLatest
    BY DEF OrderInv
  <1>1. sent \in Nat /\ frame.key \in Nat /\ Len(queue) \in Nat
        /\ \A i \in 1..Len(queue): queue[i] \in Nat
    BY LinkAssumption DEF LinkAssumption, LinkTypeOK, Frame
  <1>2. CASE queue' = queue
    BY <1>2, AdvanceKeepsOrder
  <1>3. CASE queue' # queue
    <2>1. Ready(v, intact) /\ frame.key > 0 /\ queue' = Append(queue, frame.key)
      BY <1>3 DEF Receive, Dispatch
    <2>2. Last
      BY <2>1, ReadyAtLast
    <2>3. /\ \A i \in 1..Len(queue'): queue'[i] < sent + 1 /\ taken < queue'[i]
          /\ \A i, j \in 1..Len(queue'): i < j => queue'[i] < queue'[j]
      BY <2>1, KeyJoinsInOrder
    <2>4. queue' \in Seq(1..MaxKeys)
      BY ReceiveTypes
    <2>5. Len(queue') \in Nat /\ \A i \in 1..Len(queue'): queue'[i] \in Nat
      BY <2>4, LinkAssumption DEF LinkAssumption
    <2>6. FrameKeyLatest' /\ \/ frame'.key = 0 /\ sent' = sent
                             \/ frame'.key = sent + 1 /\ sent' = sent + 1
      BY <1>0, <2>2, AdvanceKeys
    <2>7. taken < sent + 1
      BY DEF OrderInv, KeysOrdered, KeysBelow
    <2>8. taken \in Nat
      BY LinkAssumption DEF LinkAssumption, LinkTypeOK
    <2>9. QED BY <1>1, <2>3, <2>5, <2>6, <2>7, <2>8 DEF OrderInv, KeysOrdered, KeysBelow
  <1>4. QED BY <1>2, <1>3

LEMMA OrderInitially ==
    ASSUME LinkInit
    PROVE  OrderInv
  <1>1. frame.key = 0
    BY DEF LinkInit, OtherFrames
  <1>2. Len(queue) = 0
    BY DEF LinkInit
  <1>3. QED BY <1>1, <1>2 DEF LinkInit, OrderInv, FrameKeyLatest, KeysOrdered, KeysBelow

LEMMA StepKeepsOrder ==
    ASSUME DecoderInv, OrderInv, [LinkNext]_linkVars
    PROVE  OrderInv'
  <1>0. LinkTypeOK /\ CleanInStep
    BY DEF DecoderInv
  <1>t. /\ sent \in Nat /\ frame.key \in Nat /\ taken \in Nat /\ Len(queue) \in Nat
        /\ queue \in Seq(1..MaxKeys) /\ \A i \in 1..Len(queue): queue[i] \in Nat
    BY <1>0, LinkAssumption DEF LinkAssumption, LinkTypeOK, Frame
  <1>1. CASE SendByte
    <2>1. PICK v \in Values: Receive(v, TRUE) /\ Advance(v = Stx => pos = 1, Result(v, TRUE))
      BY <1>1 DEF SendByte
    <2>2. v \in Byte /\ taken' = taken
      BY <1>0, <1>1, ValuesAreBytes DEF SendByte
    <2>3. QED BY <1>0, <2>1, <2>2, ByteKeepsOrder
  <1>2. CASE GarbleByte
    <2>1. PICK v \in Byte: Receive(v, FALSE) /\ Advance(FALSE, Result(v, FALSE))
      BY <1>2 DEF GarbleByte
    <2>2. taken' = taken
      BY <1>2 DEF GarbleByte
    <2>3. QED BY <1>0, <2>1, <2>2, ByteKeepsOrder
  <1>3. CASE LoseByte
    <2>1. queue' = queue /\ taken' = taken /\ Advance(FALSE, "lost")
      BY <1>3 DEF LoseByte
    <2>2. QED BY <1>0, <2>1, AdvanceKeepsOrder
  <1>4. CASE TakeKey
    <2>1. /\ queue # <<>> /\ taken' = Head(queue) /\ queue' = Tail(queue)
          /\ frame' = frame /\ sent' = sent
      BY <1>4 DEF TakeKey, senderVars
    <2>2. /\ Len(queue) > 0 /\ Len(queue') = Len(queue) - 1 /\ taken' = queue[1]
          /\ \A i \in 1..Len(queue'): queue'[i] = queue[i + 1]
      BY <1>t, <2>1
    <2>3. QED BY <1>t, <2>1, <2>2 DEF OrderInv, FrameKeyLatest, KeysOrdered, KeysBelow
  <1>5. CASE Reboot
    <2>1. Len(queue') = 0 /\ taken' = taken /\ frame' = frame /\ sent' = sent
      BY <1>5 DEF Reboot, senderVars
    <2>2. QED BY <2>1 DEF OrderInv, FrameKeyLatest, KeysOrdered, KeysBelow
  <1>6. CASE UNCHANGED linkVars
    BY <1>6 DEF OrderInv, FrameKeyLatest, KeysOrdered, KeysBelow, linkVars, senderVars
  <1>7. QED BY <1>1, <1>2, <1>3, <1>4, <1>5, <1>6 DEF LinkNext

LEMMA LinkInvariant == LinkSpec => []LinkInv
  <1>1. LinkInit => LinkInv
    BY DecoderInitially, OrderInitially DEF LinkInv
  <1>2. LinkInv /\ [LinkNext]_linkVars => LinkInv'
    BY StepKeepsDecoderInv, StepKeepsOrder DEF LinkInv
  <1>3. QED BY <1>1, <1>2, PTL DEF LinkSpec

\* A byte sends a key at most; only the foreground takes one.
LEMMA StepImplementsStream ==
    ASSUME LinkInv, [LinkNext]_linkVars
    PROVE  [Stream!Send \/ Stream!Take]_Stream!streamVars
  <1>0. LinkTypeOK /\ FrameKeyLatest
    BY DEF LinkInv, DecoderInv, OrderInv
  <1>1. ASSUME NEW good, NEW result, Advance(good, result), taken' = taken
        PROVE  Stream!Send \/ UNCHANGED Stream!streamVars
    BY <1>0, <1>1, AdvanceKeys DEF Stream!Send, Stream!streamVars
  <1>2. CASE SendByte \/ GarbleByte \/ LoseByte
    BY <1>1, <1>2 DEF SendByte, GarbleByte, LoseByte
  <1>3. CASE TakeKey
    <2>1. /\ Len(queue) \in Nat /\ Len(queue) > 0 /\ taken' = queue[1] /\ sent' = sent
          /\ queue[1] \in Nat /\ sent \in Nat /\ taken \in Nat
      BY <1>0, <1>3, LinkAssumption DEF LinkAssumption, LinkTypeOK, TakeKey, senderVars
    <2>2. taken < queue[1] /\ queue[1] < sent + 1
      BY <2>1 DEF LinkInv, OrderInv, KeysOrdered, KeysBelow
    <2>3. queue[1] \in (taken + 1)..sent
      BY <2>1, <2>2
    <2>4. QED BY <2>1, <2>3 DEF Stream!Take
  <1>4. CASE Reboot
    BY <1>4 DEF Reboot, senderVars, Stream!streamVars
  <1>5. CASE UNCHANGED linkVars
    BY <1>5 DEF linkVars, senderVars, Stream!streamVars
  <1>6. QED BY <1>2, <1>3, <1>4, <1>5 DEF LinkNext

\* The keys the foreground takes were sent, in that order, each at most once.
THEOREM KeysInOrder == LinkSpec => ImplementsKeyStream
  <1>1. LinkInit => Stream!StreamInit
    BY DEF LinkInit, Stream!StreamInit
  <1>2. QED
    BY <1>1, LinkInvariant, StepImplementsStream, PTL
       DEF LinkSpec, ImplementsKeyStream, Stream!StreamSpec

=============================================================================
