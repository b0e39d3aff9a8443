-------------------------------- MODULE Link --------------------------------
(****************************************************************************)
(* The serial link that carries DSKY keys from the bridge to the AGC:       *)
(* encode() and the sending loop of the bridge, the byte-at-a-time          *)
(* FrameDecoder in the USART6 interrupt, dispatch(), the key queue and the  *)
(* foreground that empties it.                                              *)
(*                                                                          *)
(* One step is one byte on the wire, with its fate: it arrives, it arrives  *)
(* as another value, or it does not arrive. A frame is STX LEN SEQ TYPE,    *)
(* LEN payload bytes and two CRC bytes. What the decoder tells apart is     *)
(* whether a byte is STX and, after an STX, whether it is a legal length;   *)
(* the check sum is taken to be perfect: a frame passes exactly when the    *)
(* decoder collected the bytes of the frame being sent, all intact.         *)
(****************************************************************************)
EXTENDS Naturals, Sequences

CONSTANTS
    MaxPayload,  \* MAX_PAYLOAD, 247 in the source
    Stx,         \* STX, 0xFE
    MaxByte,     \* the largest byte, 255
    KeyLength,   \* payload of a DskyKey: 2
    OtherLengths,\* payloads of the bridge's other messages: Hello 1, heartbeat and optics angles 4
    QueueCap,    \* capacity of key_queue, 16
    MaxKeys      \* bound of the model on the keys sent

ASSUME LinkAssumption ==
    /\ MaxPayload \in Nat /\ Stx \in Nat /\ MaxByte \in Nat
    /\ MaxPayload < Stx /\ Stx <= MaxByte
    /\ KeyLength \in 0..MaxPayload /\ OtherLengths \subseteq 0..MaxPayload
    /\ OtherLengths # {}
    /\ QueueCap \in Nat \ {0} /\ MaxKeys \in Nat

VARIABLES
    frame,   \* the frame being sent: its payload length, and its key's serial number (0: no key)
    pos,     \* which byte of it goes next
    sent,    \* how many keys the bridge has begun to send
    at,      \* FrameDecoder::phase: "idle", "len" (WaitLen) or "body" (all later phases)
    left,    \* in "body": the bytes still to come
    clean,   \* the decoder holds the bytes of this frame up to pos, all intact
    queue,   \* BridgeState::key_queue
    taken,   \* the last key the foreground took (history)
    plain,   \* this frame so far arrived intact, with no data byte equal to STX (history)
    prior,   \* so did the whole of the frame before it (history)
    owed,    \* so did the frame before that one too (history)
    outcome  \* what became of the last complete frame (history)

senderVars == <<frame, pos, sent>>
decoderVars == <<at, left, clean>>
historyVars == <<plain, prior, owed, outcome>>
linkVars == <<senderVars, decoderVars, queue, taken, historyVars>>

Byte == 0..MaxByte
Frame == [len: 0..MaxPayload, key: 0..MaxKeys]

LinkTypeOK ==
    /\ frame \in Frame /\ pos \in 1..(frame.len + 6) /\ sent \in 0..MaxKeys
    /\ at \in {"idle", "len", "body"} /\ left \in 0..(MaxPayload + 4)
    /\ (at = "body" <=> left > 0) /\ clean \in BOOLEAN
    /\ queue \in Seq(1..MaxKeys) /\ Len(queue) <= QueueCap
    /\ taken \in 0..MaxKeys
    /\ plain \in BOOLEAN /\ prior \in BOOLEAN /\ owed \in BOOLEAN
    /\ outcome \in {"delivered", "overflow", "lost"}

-----------------------------------------------------------------------------
(* The bridge: its loop sends one whole frame after another.                *)

Size(f) == f.len + 6

Last == pos = Size(frame)

\* The values byte pos of the frame can have. The sequence number, the check
\* sum and the payload of an angle can be STX; a length, a type byte, a key
\* code and the display number of a key cannot.
Values ==
    CASE pos = 1 -> {Stx}
      [] pos = 2 -> {frame.len}
      [] pos = 4 \/ (frame.key > 0 /\ pos \in 5..(frame.len + 4)) -> Byte \ {Stx}
      [] OTHER -> Byte

OtherFrames == {[len |-> l, key |-> 0] : l \in OtherLengths}

\* What the bridge's loop sends next: another message, or the next key.
NextFrames ==
    OtherFrames \cup {[len |-> KeyLength, key |-> k] : k \in {sent + 1} \cap 1..MaxKeys}

\* The byte is on the wire: the next one, or the first of the next frame. A
\* good byte arrived intact and is no STX but the first.
Advance(good, result) ==
    IF Last
    THEN /\ \E f \in NextFrames:
               frame' = f /\ sent' = IF f.key > 0 THEN f.key ELSE sent
         /\ pos' = 1
         /\ plain' = TRUE
         /\ prior' = (plain /\ good)
         /\ owed' = (prior /\ plain /\ good)
         /\ outcome' = result
    ELSE /\ pos' = pos + 1
         /\ plain' = (plain /\ good)
         /\ UNCHANGED <<frame, sent, prior, owed, outcome>>

-----------------------------------------------------------------------------
(* FrameDecoder::push of a byte v, by the phase it finds.                   *)

\* Wrong on purpose: only an idle decoder heeds STX.
StartFrameWhenIdle(v, intact) ==
    /\ v = Stx /\ at # "len"
    /\ \/ /\ at = "idle"
          /\ at' = "len" /\ left' = 0
          /\ clean' = (intact /\ pos = 1)
       \/ /\ at = "body"
          /\ at' = (IF left = 1 THEN "idle" ELSE "body")
          /\ left' = left - 1 /\ clean' = FALSE

\* STX anywhere but after an STX starts a frame.
StartFrame(v, intact) ==
    /\ v = Stx /\ at # "len"
    /\ at' = "len" /\ left' = 0
    /\ clean' = (intact /\ pos = 1)

Skip(v) ==
    /\ v # Stx /\ at = "idle"
    /\ UNCHANGED decoderVars

\* Wrong on purpose: a length is not held against the buffer.
TakeAnyLength(v, intact) ==
    /\ at = "len"
    /\ at' = "body" /\ left' = v + 4 /\ clean' = (clean /\ intact)

\* After an STX every byte is a length, another STX too: BadLength.
TakeLength(v, intact) ==
    /\ at = "len"
    /\ \/ /\ v > MaxPayload
          /\ at' = "idle" /\ left' = 0 /\ clean' = FALSE
       \/ /\ v <= MaxPayload
          /\ at' = "body" /\ left' = v + 4 /\ clean' = (clean /\ intact)

Collect(v, intact) ==
    /\ v # Stx /\ at = "body" /\ left > 1
    /\ left' = left - 1 /\ clean' = (clean /\ intact)
    /\ UNCHANGED at

Complete(v) ==
    /\ v # Stx /\ at = "body" /\ left = 1
    /\ at' = "idle" /\ left' = 0 /\ clean' = FALSE

Push(v, intact) ==
    \/ StartFrame(v, intact)
    \/ Skip(v)
    \/ TakeLength(v, intact)
    \/ Collect(v, intact)
    \/ Complete(v)

\* The last byte is in and the check sum agrees: DecodeStatus::Ready.
Ready(v, intact) == v # Stx /\ at = "body" /\ left = 1 /\ clean /\ intact

\* Wrong on purpose: the key goes to the end the foreground takes from.
DispatchInFront ==
    queue' = IF frame.key > 0 /\ Len(queue) < QueueCap
             THEN <<frame.key>> \o queue
             ELSE queue

\* dispatch(): a key joins the queue, or is dropped in silence when there is
\* no room. The other messages do not touch the queue.
Dispatch ==
    queue' = IF frame.key > 0 /\ Len(queue) < QueueCap
             THEN Append(queue, frame.key)
             ELSE queue

\* The interrupt for one byte: push it, and hand over the frame it completes.
Receive(v, intact) ==
    /\ Push(v, intact)
    /\ IF Ready(v, intact) THEN Dispatch ELSE UNCHANGED queue

Result(v, intact) ==
    IF ~Ready(v, intact) THEN "lost"
    ELSE IF frame.key > 0 /\ Len(queue) = QueueCap THEN "overflow"
    ELSE "delivered"

-----------------------------------------------------------------------------
LinkInit ==
    /\ frame \in OtherFrames /\ pos = 1 /\ sent = 0
    /\ at = "idle" /\ left = 0 /\ clean = FALSE
    /\ queue = <<>> /\ taken = 0
    /\ plain = TRUE /\ prior = TRUE /\ owed = TRUE /\ outcome = "delivered"

\* A byte arrives as it was sent.
SendByte ==
    /\ \E v \in Values: Receive(v, TRUE) /\ Advance(v = Stx => pos = 1, Result(v, TRUE))
    /\ UNCHANGED taken

\* A byte arrives as another value.
GarbleByte ==
    /\ \E w \in Values: \E v \in Byte \ {w}:
          Receive(v, FALSE) /\ Advance(FALSE, Result(v, FALSE))
    /\ UNCHANGED taken

\* A byte does not arrive; a frame cut short loses the rest of its bytes.
LoseByte ==
    /\ clean' = FALSE
    /\ Advance(FALSE, "lost")
    /\ UNCHANGED <<at, left, queue, taken>>

\* The foreground takes a key: read_key().
TakeKey ==
    /\ queue # <<>>
    /\ taken' = Head(queue) /\ queue' = Tail(queue)
    /\ UNCHANGED <<senderVars, decoderVars, historyVars>>

\* The AGC resets: its decoder and its queue start empty, the bridge goes on.
Reboot ==
    /\ at' = "idle" /\ left' = 0 /\ clean' = FALSE
    /\ queue' = <<>>
    /\ plain' = (plain /\ pos = 1)
    /\ UNCHANGED <<senderVars, taken, prior, owed, outcome>>

LinkNext ==
    \/ SendByte
    \/ GarbleByte
    \/ LoseByte
    \/ TakeKey
    \/ Reboot

LinkSpec == LinkInit /\ [][LinkNext]_linkVars

-----------------------------------------------------------------------------
(* Properties *)

\* Two frames in a row that arrive intact and free of STX bytes are enough:
\* whatever the line did before, however the decoder was left, the second of
\* them is decoded and handed over. A key of it is lost only to a full queue.
ResyncAfterOne == owed => outcome # "lost"

\* The keys the foreground takes are keys that were sent, in the order they
\* were sent and each at most once, through every loss, garbling and reset.
Stream == INSTANCE KeyStream
ImplementsKeyStream == Stream!StreamSpec
=============================================================================
