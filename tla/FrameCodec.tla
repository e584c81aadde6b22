----------------------------- MODULE FrameCodec -----------------------------
(***************************************************************************)
(* One direction of one connection, byte by byte: how the server           *)
(* (messageSerializer.cpp) and the C client (eop_envelope.c and            *)
(* eop_client.c) put a message on the stream, and how the other side, in   *)
(* its own language and with its own checks, takes it off again.           *)
(*                                                                         *)
(* The two implementations share no code.  The server writes and reads     *)
(* with buildFrame and readFrame, which trust the frame length in front of *)
(* the envelope; the client writes with eop_envelope_serialize and reads   *)
(* in eop_send_command, which ignores that length and trusts the payload   *)
(* length inside the envelope.  They agree only if both lengths always do. *)
(*                                                                         *)
(* A byte is 0..ByteBase-1 and a word has WordBytes bytes, so that the     *)
(* wrap of a uint32_t and every limit are reached by small messages.       *)
(***************************************************************************)
EXTENDS Naturals, Sequences, SequencesExt

CONSTANTS
    ByteBase,           \* 256
    WordBytes,          \* 4
    LastType,           \* EOP_EDGE_TELEMETRY, 9: types are 1..LastType
    MAX_FRAME_PAYLOAD,  \* 65536
    Ids,                \* message ids to try
    Payloads,           \* payloads to try, sequences of bytes
    MaxFrames,          \* bound: messages per behaviour
    SocketBuffer        \* bound: bytes the kernel holds

Bytes == 0..(ByteBase - 1)

WordMod == ByteBase ^ WordBytes

ENVELOPE_SIZE == 2 + 2 * WordBytes

FRAME_LENGTH_PREFIX_SIZE == WordBytes

PROTOCOL_VERSION == 1

\* A payload of 2^32 bytes and more is outside the model: its length does not
\* fit the word of the wire format.
ASSUME CodecAssumption ==
    /\ ByteBase \in Nat /\ ByteBase > 1
    /\ WordBytes \in Nat \ {0}
    /\ LastType \in 1..(ByteBase - 1)
    /\ MAX_FRAME_PAYLOAD + ENVELOPE_SIZE < WordMod
    /\ Ids \subseteq 0..(WordMod - 1)
    /\ \A p \in Payloads : p \in Seq(Bytes) /\ Len(p) < WordMod
    /\ MaxFrames \in Nat
    /\ SocketBuffer \in Nat \ {0}

VARIABLES
    dir,     \* "toServer" or "toClient": who is reading
    sent,    \* the messages handed to the writer, in order
    out,     \* bytes of the writer's frame not yet accepted by send()
    wire,    \* bytes the kernel holds
    link,    \* "open", "closed" (writer's end) or "reset"
    rd,      \* the reader: part of the frame, bytes needed, bytes held
    got,     \* the messages the reader has returned
    status   \* "OK", or why the reader stopped

vars == <<dir, sent, out, wire, link, rd, got, status>>

Messages == [type : 1..LastType, id : Ids, payload : Payloads]

-----------------------------------------------------------------------------
(* Words on the wire: writeU32BE and htonl, and ntohl back. *)

U32BE(v) == [i \in 1..WordBytes |-> (v \div ByteBase ^ (WordBytes - i)) % ByteBase]

Word(s) == FoldLeft(LAMBDA v, b : v * ByteBase + b, 0, s)

TypeField(e) == e[2]

IdField(e) == Word(SubSeq(e, 3, 2 + WordBytes))

LengthField(e) == Word(SubSeq(e, 3 + WordBytes, ENVELOPE_SIZE))

Fit(n) == n % WordMod

(* Faulty variant: the terminator of the string is copied too. *)
buildFrameTerminated(m) ==
    U32BE(Fit(ENVELOPE_SIZE + Len(m.payload))) \o <<PROTOCOL_VERSION, m.type>>
        \o U32BE(m.id) \o U32BE(Len(m.payload)) \o m.payload \o <<0>>

(* MessageSerializer::buildFrame. *)
buildFrame(m) ==
    U32BE(Fit(ENVELOPE_SIZE + Len(m.payload))) \o <<PROTOCOL_VERSION, m.type>>
        \o U32BE(m.id) \o U32BE(Len(m.payload)) \o m.payload

(* eop_envelope_serialize, for the types and buffers it accepts. *)
serialize(m) ==
    <<PROTOCOL_VERSION, m.type>> \o U32BE(m.id) \o U32BE(Len(m.payload)) \o m.payload

(* The bytes eop_send_command hands to send(): the prefix is cast to 32 bits. *)
CommandFrame(m) == U32BE(Fit(ENVELOPE_SIZE + Len(m.payload))) \o serialize(m)

Frame(m) == IF dir = "toServer" THEN CommandFrame(m) ELSE buildFrame(m)

(* Faulty variant: the bound on the declared length forgets the envelope. *)
deserializeLoose(buf) ==
    IF \/ Len(buf) < ENVELOPE_SIZE
       \/ buf[1] # PROTOCOL_VERSION
       \/ TypeField(buf) \notin 1..LastType
       \/ Len(buf) < LengthField(buf)
    THEN [rc |-> "INVALID"]
    ELSE [rc |-> "OK", type |-> TypeField(buf), id |-> IdField(buf), length |-> LengthField(buf)]

(* eop_envelope_deserialize: the bound on the length is a 32-bit sum. *)
deserialize(buf) ==
    IF \/ Len(buf) < ENVELOPE_SIZE
       \/ buf[1] # PROTOCOL_VERSION
       \/ TypeField(buf) \notin 1..LastType
       \/ Len(buf) < Fit(ENVELOPE_SIZE + LengthField(buf))
    THEN [rc |-> "INVALID"]
    ELSE [rc |-> "OK", type |-> TypeField(buf), id |-> IdField(buf), length |-> LengthField(buf)]

-----------------------------------------------------------------------------
(* The reader holds buf, the bytes of the part it is reading; env is the     *)
(* envelope once read, and plen the payload length it has decided on.        *)

AtPrefix == [part |-> "prefix", need |-> FRAME_LENGTH_PREFIX_SIZE,
             buf |-> <<>>, env |-> <<>>, plen |-> 0]

Init ==
    /\ dir \in {"toServer", "toClient"}
    /\ sent = <<>> /\ out = <<>> /\ wire = <<>> /\ got = <<>>
    /\ link = "open"
    /\ rd = AtPrefix
    /\ status = "OK"

(* The server's replies are short JSON objects; only the client may be handed  *)
(* a payload whose frame length does not fit the word.                         *)
Write(m) ==
    /\ link = "open" /\ out = <<>> /\ Len(sent) < MaxFrames
    /\ dir = "toClient" => Len(m.payload) + ENVELOPE_SIZE < WordMod
    /\ sent' = Append(sent, m)
    /\ out' = Frame(m)
    /\ UNCHANGED <<dir, wire, link, rd, got, status>>

(* One turn of the send loop: the kernel takes some of the bytes.  The server  *)
(* retries EINTR, which changes nothing.                                       *)
SendSome(k) ==
    /\ link = "open" /\ k <= Len(out) /\ Len(wire) + k <= SocketBuffer
    /\ wire' = wire \o SubSeq(out, 1, k)
    /\ out' = SubSeq(out, k + 1, Len(out))
    /\ UNCHANGED <<dir, sent, link, rd, got, status>>

(* The writer's process closes its end or dies, perhaps in the middle of a     *)
(* frame; what the kernel holds is still delivered.                            *)
Close ==
    /\ link = "open"
    /\ link' = "closed"
    /\ UNCHANGED <<dir, sent, out, wire, rd, got, status>>

(* The connection is reset: both ends lose what was under way. *)
Reset ==
    /\ link # "reset" /\ link' = "reset"
    /\ wire' = <<>>
    /\ UNCHANGED <<dir, sent, out, rd, got, status>>

-----------------------------------------------------------------------------

(* Faulty variant: the id is left in network order. *)
DeliverUnswapped(env, payload) ==
    /\ got' = Append(got, [type |-> TypeField(env),
                          id |-> Word(Reverse(SubSeq(env, 3, 2 + WordBytes))),
                          payload |-> payload])
    /\ rd' = AtPrefix
    /\ UNCHANGED status

Deliver(env, payload) ==
    /\ got' = Append(got, [type |-> TypeField(env), id |-> IdField(env), payload |-> payload])
    /\ rd' = AtPrefix
    /\ UNCHANGED status

Stop(why) == status' = why /\ UNCHANGED <<rd, got>>

Need(part, n, env, plen) ==
    /\ rd' = [part |-> part, need |-> n, buf |-> <<>>, env |-> env, plen |-> plen]
    /\ UNCHANGED <<got, status>>

(* After the envelope: the payload, unless it is empty. *)
ReadPayload(env, plen) ==
    IF plen = 0 THEN Deliver(env, <<>>) ELSE Need("payload", plen, env, plen)

(* Faulty variant: a frame shorter than an envelope is not refused, and the  *)
(* payload length, an unsigned difference, wraps around.                     *)
readFrameWrapped(b) ==
    \/ /\ rd.part = "prefix"
       /\ LET payloadLen == Fit(WordMod + Word(b) - ENVELOPE_SIZE) IN
          IF payloadLen > MAX_FRAME_PAYLOAD /\ Word(b) >= ENVELOPE_SIZE
          THEN Stop("IO_ERROR")
          ELSE Need("envelope", ENVELOPE_SIZE, <<>>, payloadLen)
    \/ rd.part = "envelope" /\ ReadPayload(b, rd.plen)
    \/ rd.part = "payload" /\ Deliver(rd.env, b)

(* MessageSerializer::readFrame, at the end of each of its three readExact. *)
readFrame(b) ==
    \/ /\ rd.part = "prefix"
       /\ IF Word(b) < ENVELOPE_SIZE \/ Word(b) - ENVELOPE_SIZE > MAX_FRAME_PAYLOAD
          THEN Stop("IO_ERROR")
          ELSE Need("envelope", ENVELOPE_SIZE, <<>>, Word(b) - ENVELOPE_SIZE)
    \/ rd.part = "envelope" /\ ReadPayload(b, rd.plen)
    \/ rd.part = "payload" /\ Deliver(rd.env, b)

(* eop_send_command, at the end of each of its three receive loops. *)
ReceiveResponse(b) ==
    \/ rd.part = "prefix" /\ Need("envelope", ENVELOPE_SIZE, <<>>, 0)
    \/ /\ rd.part = "envelope"
       /\ IF b[1] # PROTOCOL_VERSION THEN Stop("DISCONNECTED") ELSE ReadPayload(b, LengthField(b))
    \/ rd.part = "payload" /\ Deliver(rd.env, b)

(* Faulty variant: recv() is not called until the kernel holds the whole part. *)
RecvWhole(k) ==
    /\ status = "OK" /\ link # "reset" /\ k <= Len(wire) /\ Len(rd.buf) + k = rd.need
    /\ LET b == rd.buf \o SubSeq(wire, 1, k) IN
          IF dir = "toServer" THEN readFrame(b) ELSE ReceiveResponse(b)
    /\ wire' = SubSeq(wire, k + 1, Len(wire))
    /\ UNCHANGED <<dir, sent, out, link>>

(* One turn of readExact, or of a receive loop of the client: recv() returns   *)
(* between one byte and all it was asked for.                                  *)
RecvSome(k) ==
    /\ status = "OK" /\ link # "reset" /\ k <= Len(wire) /\ Len(rd.buf) + k <= rd.need
    /\ LET b == rd.buf \o SubSeq(wire, 1, k) IN
          IF Len(b) < rd.need
          THEN rd' = [rd EXCEPT !.buf = b] /\ UNCHANGED <<got, status>>
          ELSE IF dir = "toServer" THEN readFrame(b) ELSE ReceiveResponse(b)
    /\ wire' = SubSeq(wire, k + 1, Len(wire))
    /\ UNCHANGED <<dir, sent, out, link>>

(* recv() or poll() returns without a byte: end of file, the idle timeout or   *)
(* the command timeout, or an error.                                           *)
RecvFails ==
    /\ status = "OK" /\ wire = <<>>
    /\ \/ link = "closed" /\ Stop(IF dir = "toServer" THEN "PEER_CLOSED" ELSE "DISCONNECTED")
       \/ link = "open" /\ Stop("TIMEOUT")
       \/ link = "reset" /\ Stop(IF dir = "toServer" THEN "IO_ERROR" ELSE "DISCONNECTED")
    /\ UNCHANGED <<dir, sent, out, wire, link>>

Next ==
    \/ \E m \in Messages : Write(m)
    \/ \E k \in 1..SocketBuffer : SendSome(k) \/ RecvSome(k)
    \/ Close \/ Reset \/ RecvFails

Spec == Init /\ [][Next]_vars

(* Both loops run as long as the kernel lets them: each side is a thread that  *)
(* does nothing else until the frame is through.                               *)
FairSpec == Spec /\ WF_vars(\E k \in 1..SocketBuffer : SendSome(k) \/ RecvSome(k))

-----------------------------------------------------------------------------
(* Properties. *)

(* What one implementation writes the other reads back: whatever the sizes of  *)
(* the pieces send() and recv() move, readFrame returns the client's commands  *)
(* and eop_send_command the server's frames, intact, in order, none invented.  *)
DeliveredIntact == IsPrefix(got, sent)

(* Between two frames the reader is on a frame boundary: the bytes still to    *)
(* come are exactly the frames not yet returned, so the length the reader      *)
(* trusted (the prefix in readFrame, the envelope's in the client) was the     *)
(* length the writer meant.                                                    *)
OnFrameBoundary ==
    (status = "OK" /\ link # "reset" /\ rd = AtPrefix) =>
        wire \o out = FlattenSeq([i \in 1..(Len(sent) - Len(got)) |-> Frame(sent[Len(got) + i])])

(* readFrame refuses exactly the frames whose payload exceeds                  *)
(* MAX_FRAME_PAYLOAD, those whose frame length wrapped included, and never     *)
(* asks recv() for more than the limit.                                        *)
LimitIsExact ==
    dir = "toServer" =>
        /\ \A i \in 1..Len(got) : Len(got[i].payload) <= MAX_FRAME_PAYLOAD
        /\ rd.part = "payload" => rd.need <= MAX_FRAME_PAYLOAD
        /\ (status = "IO_ERROR" /\ link # "reset") =>
               /\ Len(got) < Len(sent)
               /\ Len(sent[Len(got) + 1].payload) > MAX_FRAME_PAYLOAD

(* eop_envelope_deserialize takes back what eop_envelope_serialize wrote, and  *)
(* refuses every buffer that was cut short, as long as the envelope and the    *)
(* payload together have a length that fits 32 bits.                           *)
DeserializeInverts ==
    \A i \in 1..Len(sent) :
        LET m == sent[i]
            e == serialize(m)
        IN  Len(e) < WordMod =>
                /\ deserialize(e) = [rc |-> "OK", type |-> m.type, id |-> m.id, length |-> Len(m.payload)]
                /\ \A n \in 0..(Len(e) - 1) : deserialize(SubSeq(e, 1, n)).rc = "INVALID"

(* Nothing stays half read: once the writer has written its last message the   *)
(* reader ends up on a frame boundary with all of them, or has stopped, or the *)
(* connection was closed or reset under the writer.                            *)
AllDelivered == <>[](status # "OK" \/ link # "open" \/ got = sent)
=============================================================================
