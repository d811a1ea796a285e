------------------------------- MODULE Framing -------------------------------
(****************************************************************************)
(* Frames on one direction of a socket (src/frame.rs): version, tag, length *)
(* and payload, written by write_frame and read back by read_frame, over a  *)
(* stream (src/transport.rs) that hands over any number of bytes at a time  *)
(* and may stop in the middle of a frame.  An end that fails is poisoned by *)
(* Client::exchange (src/client.rs) and does not go on; Connection models   *)
(* the exchanges themselves.  Of the two ends of a direction one is this    *)
(* library and the other a server, taken to write and read frames as it     *)
(* does.                                                                    *)
(*                                                                          *)
(* Base, LenDigits and the ceilings stand for 256, 4, 16 MiB and 64 KiB:    *)
(* what matters is that a length takes more than one digit and that every   *)
(* ceiling can be written.                                                  *)
(****************************************************************************)
EXTENDS Integers, Sequences, SequencesExt

CONSTANTS
    Base,               \* how many values a byte has
    LenDigits,          \* bytes of the length field
    FRAME_VERSION,
    DataTags,           \* the bytes of Request and Response
    ControlTags,        \* the bytes of every other tag
    MAX_DATA_PAYLOAD, MAX_CONTROL_PAYLOAD,
    PayloadLengths,     \* bound on the payloads the caller has
    MaxFrames,          \* bound on the frames written
    MaxForeign          \* bound on the bytes of a peer that speaks no frames

Byte == 0 .. Base - 1
KnownTags == DataTags \cup ControlTags

\* What a digit with k digits to its right counts: Base to the k.
Place[k \in 0 .. LenDigits] == IF k = 0 THEN 1 ELSE Place[k - 1] * Base

ASSUME FramingAssumption ==
    /\ Base \in Nat \ {0, 1}
    /\ LenDigits \in Nat \ {0}
    /\ FRAME_VERSION \in Byte
    /\ KnownTags \subseteq Byte
    /\ DataTags \cap ControlTags = {}
    /\ {MAX_DATA_PAYLOAD, MAX_CONTROL_PAYLOAD} \subseteq 0 .. Place[LenDigits] - 1
    /\ PayloadLengths \subseteq Nat
    /\ {MaxFrames, MaxForeign} \subseteq Nat

VARIABLES
    writer,     \* "up", or "down" once a write failed
    writing,    \* what write_all has yet to hand over
    pipe,       \* bytes in the socket
    foreign,    \* bytes of a peer that is not writing frames
    reader,     \* what read_frame is reading: "head", "payload", or "down"
    part,       \* the bytes of it that came so far
    tag,        \* the tag of the head, while the payload is read
    need,       \* the size of the buffer that is being filled
    sent,       \* the frames write_frame began to write
    got         \* the frames read_frame returned

vars == <<writer, writing, pipe, foreign, reader, part, tag, need, sent, got>>

HEADER_LEN == 2 + LenDigits

\* Tag::max_payload
MaxPayload(t) == IF t \in DataTags THEN MAX_DATA_PAYLOAD ELSE MAX_CONTROL_PAYLOAD

\* u32::to_be_bytes and from_be_bytes
ToBytes(n) == [i \in 1 .. LenDigits |-> (n \div Place[LenDigits - i]) % Base]
FromBytes(bytes) ==
    LET value[k \in 0 .. LenDigits] == IF k = 0 THEN 0 ELSE value[k - 1] * Base + bytes[k]
    IN  value[LenDigits]

Encode(t, payload) == <<FRAME_VERSION, t>> \o ToBytes(Len(payload)) \o payload

Payloads == {[i \in 1 .. n |-> b] : n \in PayloadLengths, b \in {0, Base - 1}}

\* A buffer is never made larger than the ceiling of the frame's tag, whoever
\* the peer is (frame.rs:3-5).
TypeOK ==
    /\ writer \in {"up", "down"}
    /\ {writing, pipe, part} \subseteq Seq(Byte)
    /\ foreign \in 0 .. MaxForeign
    /\ reader \in {"head", "payload", "down"}
    /\ tag \in KnownTags \cup {0}
    /\ need \in IF reader = "payload" THEN 1 .. MaxPayload(tag) ELSE Nat
    /\ {sent, got} \subseteq Seq([tag : KnownTags, payload : Seq(Byte)])

Init ==
    /\ writer = "up" /\ writing = <<>> /\ pipe = <<>> /\ foreign = 0
    /\ reader = "head" /\ part = <<>> /\ tag = 0 /\ need = HEADER_LEN
    /\ sent = <<>> /\ got = <<>>

-----------------------------------------------------------------------------
(* write_frame.                                                             *)

\* Mutant: the size is left to the other end to look at.
WriteFrame_Unchecked(t, payload) ==
    /\ writer = "up" /\ writing = <<>>
    /\ foreign = 0
    /\ Len(sent) < MaxFrames
    /\ writing' = Encode(t, payload)
    /\ sent' = Append(sent, [tag |-> t, payload |-> payload])
    /\ UNCHANGED <<writer, pipe, foreign, reader, part, tag, need, got>>

\* encode refuses a payload above the tag's ceiling before a byte is written.
WriteFrame(t, payload) ==
    /\ writer = "up" /\ writing = <<>>
    /\ foreign = 0
    /\ Len(sent) < MaxFrames
    /\ IF Len(payload) <= MaxPayload(t)
         THEN writing' = Encode(t, payload) /\ sent' = Append(sent, [tag |-> t, payload |-> payload])
         ELSE UNCHANGED <<writing, sent>>
    /\ UNCHANGED <<writer, pipe, foreign, reader, part, tag, need, got>>

\* The stream takes a byte of what is left to write.
Push ==
    /\ writing # <<>>
    /\ pipe' = Append(pipe, Head(writing))
    /\ writing' = Tail(writing)
    /\ UNCHANGED <<writer, foreign, reader, part, tag, need, sent, got>>

\* write_all fails half way; exchange poisons the connection.
WriteFails ==
    /\ writing # <<>>
    /\ writer' = "down"
    /\ writing' = <<>>
    /\ UNCHANGED <<pipe, foreign, reader, part, tag, need, sent, got>>

\* The port was another program's, and it writes what it likes.
ForeignByte(b) ==
    /\ writer = "up" /\ sent = <<>>
    /\ foreign < MaxForeign
    /\ foreign' = foreign + 1
    /\ pipe' = Append(pipe, b)
    /\ UNCHANGED <<writer, writing, reader, part, tag, need, sent, got>>

-----------------------------------------------------------------------------
(* read_frame.                                                              *)

Fail ==
    /\ reader' = "down"
    /\ part' = <<>>
    /\ tag' = 0 /\ need' = 0
    /\ got' = got

\* The buffer filled up with the payload of a frame tagged t.
Return(t, payload) ==
    /\ got' = Append(got, [tag |-> t, payload |-> payload])
    /\ reader' = "head"
    /\ part' = <<>>
    /\ tag' = 0 /\ need' = HEADER_LEN

\* Mutant: the payload is read, whatever size the head declares.
Headed_Unbounded(head) ==
    LET t == head[2]
        size == FromBytes(SubSeq(head, 3, HEADER_LEN))
    IN  IF head[1] > FRAME_VERSION \/ t \notin KnownTags
          THEN Fail
        ELSE IF size = 0
          THEN Return(t, <<>>)
        ELSE /\ reader' = "payload"
             /\ part' = <<>>
             /\ tag' = t /\ need' = size
             /\ got' = got

\* Mutant: an empty payload is waited for.
Headed_WaitsForNothing(head) ==
    LET t == head[2]
        size == FromBytes(SubSeq(head, 3, HEADER_LEN))
    IN  IF head[1] > FRAME_VERSION \/ t \notin KnownTags \/ size > MaxPayload(t)
          THEN Fail
        ELSE /\ reader' = "payload"
             /\ part' = <<>>
             /\ tag' = t /\ need' = size
             /\ got' = got

\* The head is complete: version, tag and size are looked at before a buffer
\* is made for the payload.
Headed(head) ==
    LET t == head[2]
        size == FromBytes(SubSeq(head, 3, HEADER_LEN))
    IN  IF head[1] > FRAME_VERSION \/ t \notin KnownTags \/ size > MaxPayload(t)
          THEN Fail
        ELSE IF size = 0
          THEN Return(t, <<>>)
        ELSE /\ reader' = "payload"
             /\ part' = <<>>
             /\ tag' = t /\ need' = size
             /\ got' = got

\* read_exact gets a byte.
Read ==
    /\ reader # "down"
    /\ pipe # <<>>
    /\ pipe' = Tail(pipe)
    /\ LET now == Append(part, Head(pipe))
       IN  IF Len(now) < need
             THEN part' = now /\ UNCHANGED <<reader, tag, need, got>>
           ELSE IF reader = "head"
             THEN Headed(now)
             ELSE Return(tag, now)
    /\ UNCHANGED <<writer, writing, foreign, sent>>

\* Mutant: after a timeout the connection is read again.
ReadFails_Continues ==
    /\ reader # "down"
    /\ reader' = "head" /\ part' = <<>> /\ tag' = 0 /\ need' = HEADER_LEN /\ got' = got
    /\ UNCHANGED <<writer, writing, pipe, foreign, sent>>

\* The read timeout, a reset or the end of the stream: the bytes read_exact
\* had are gone, and exchange poisons the connection.
ReadFails ==
    /\ reader # "down"
    /\ Fail
    /\ UNCHANGED <<writer, writing, pipe, foreign, sent>>

-----------------------------------------------------------------------------
Next ==
    \/ \E t \in KnownTags, payload \in Payloads : WriteFrame(t, payload)
    \/ Push \/ WriteFails
    \/ \E b \in Byte : ForeignByte(b)
    \/ Read \/ ReadFails

Spec == Init /\ [][Next]_vars

\* The stream moves bytes, and read_exact goes on while there are some.
FairSpec == Spec /\ WF_vars(Push) /\ WF_vars(Read)

-----------------------------------------------------------------------------
\* What read_frame returns is what write_frame was given, in order: nothing is
\* torn, skipped or made up, wherever a write or a read stopped, and whatever
\* was refused for its size (client.rs:550-551, 559-560).
InStep == foreign = 0 => IsPrefix(got, sent)

\* read_frame finds nothing wrong with what write_frame writes: a frame that
\* encode lets through is inside every limit of the reader.
NeverRefused == [][foreign = 0 /\ Read => reader' # "down"]_vars

\* A frame that was written whole is returned, the empty ones too, unless an
\* end fails.
Arrives ==
    \A n \in 1 .. MaxFrames :
        Len(sent) >= n ~> (Len(got) >= n \/ writer = "down" \/ reader = "down")
=============================================================================
