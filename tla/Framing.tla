------------------------------ MODULE Framing -------------------------------
(***************************************************************************)
(* Packets on a TCP connection, end to end.  The peer builds packets       *)
(* (packet.cpp) and sends their bytes, in order; TCP hands the bytes over  *)
(* in pieces of any size; uv_packet of the receiving session reads them    *)
(* into m_head, and on_receive_head delivers some of them to               *)
(* serverapp::on_tcpreceive, which dispatches on the packet's id.          *)
(*                                                                         *)
(* Byte o of the k-th packet is <<k, o>>; Zero is a byte that memset       *)
(* cleared.  Numbers are not computed from bytes: the int that             *)
(* uv_packet::bodylength() reads is known where the bytes are those of a   *)
(* field with a known sign, and otherwise arbitrary.                       *)
(***************************************************************************)
EXTENDS PacketHead, Sequences

CONSTANTS
    BodySizes,            \* sizes of the bodies that the peer sends
    MaxPackets,           \* bound on the packets sent
    PACKET_BUFFER_SIZE

ASSUME FramingAssumption ==
    /\ BodySizes \subseteq Nat
    /\ MaxPackets \in Nat
    /\ PACKET_BUFFER_SIZE \in Nat
    /\ PACKET_BUFFER_SIZE >= PACKET_HEAD_LENGTH + INT

VARIABLES
    sent,       \* the packets sent: the sizes of their bodies
    stream,     \* the bytes of all packets sent
    got,        \* how many bytes of the stream were read
    m_head,     \* the buffer: a sequence of PACKET_BUFFER_SIZE bytes
    delivered   \* the last call of on_tcpreceive: [n, data, id], n counts them

vars == <<sent, stream, got, m_head, delivered>>

Zero == <<0, 0>>

(* Faulty: clear() gives the buffer back. *)
ClearedAway == <<>>

(* uv_packet::clear *)
Cleared == [i \in 1 .. PACKET_BUFFER_SIZE |-> Zero]

(* packet(id, body, bodylength, extra): the head, then the body *)
Bytes(k, n) == [o \in 1 .. PACKET_HEAD_LENGTH + n |-> <<k, o>>]

Init ==
    /\ sent = <<>>
    /\ stream = <<>>
    /\ got = 0
    /\ m_head = Cleared
    /\ delivered = [n |-> 0, data |-> <<>>, id |-> <<>>]

(* The peer sends a packet. *)
Send(n) ==
    /\ Len(sent) < MaxPackets
    /\ sent' = Append(sent, n)
    /\ stream' = stream \o Bytes(Len(sent) + 1, n)
    /\ UNCHANGED <<got, m_head, delivered>>

(* m_head after a read of n bytes into its beginning *)
Filled(n) ==
    [i \in 1 .. PACKET_BUFFER_SIZE |-> IF i <= n THEN stream[got + i] ELSE m_head[i]]

(***************************************************************************)
(* The possible signs of uv_packet::bodylength() on buffer b: is the int   *)
(* at PACKET_HEAD_LENGTH positive?  PACKET_VERSION is; ids may be anything. *)
(***************************************************************************)
Positive(b) ==
    LET k == b[PACKET_HEAD_LENGTH + 1][1]
        o == b[PACKET_HEAD_LENGTH + 1][2] - 1
    IN  CASE o = PACKET_VERSION_OFFSET -> {TRUE}
          [] o = PACKET_BODY_LENGTH_OFFSET -> {sent[k] > 0}
          [] OTHER -> BOOLEAN

(* The bytes of field f in a packet *)
FieldOf(data, f) == SubSeq(data, Offset(f) + 1, Offset(f) + SizeOf(f))

(* serverapp::on_tcpreceive: the id on which the packet is dispatched *)
on_tcpreceive(data) ==
    delivered' = IF is_valid(Len(data))
                 THEN [n |-> delivered.n + 1, data |-> data, id |-> FieldOf(data, "id")]
                 ELSE delivered

(* Faulty: the test on nread is missing. *)
DeliversAnything(n) ==
    LET b == Filled(n) IN
    /\ n <= Len(stream) - got
    /\ got' = got + n
    /\ on_tcpreceive(b)
    /\ m_head' = Cleared
    /\ UNCHANGED <<sent, stream>>

(***************************************************************************)
(* on_receive_head, nread = n > 0.  receive_body is called while the       *)
(* handle is reading: uv_read_start returns UV_EALREADY, which nobody      *)
(* looks at, and the next read goes into m_head over the bytes left there. *)
(***************************************************************************)
on_receive_head(n) ==
    LET b == Filled(n) IN
    /\ n <= Len(stream) - got
    /\ got' = got + n
    /\ IF n = PACKET_BUFFER_SIZE
       THEN \E positive \in Positive(b) :
               IF positive
               THEN m_head' = b /\ UNCHANGED delivered
               ELSE m_head' = Cleared /\ on_tcpreceive(b)
       ELSE m_head' = Cleared /\ UNCHANGED delivered
    /\ UNCHANGED <<sent, stream>>

Next ==
    \/ \E n \in BodySizes : Send(n)
    \/ \E n \in 1 .. PACKET_BUFFER_SIZE : on_receive_head(n)

Spec == Init /\ [][Next]_vars

-----------------------------------------------------------------------------
Byte == (0 .. MaxPackets) \X Nat

TypeOK ==
    /\ sent \in Seq(BodySizes)
    /\ stream \in Seq(Byte)
    /\ got \in 0 .. Len(stream)
    /\ m_head \in [1 .. PACKET_BUFFER_SIZE -> Byte]
    /\ delivered.n \in Nat
    /\ delivered.data \in Seq(Byte)
    /\ delivered.id \in Seq(Byte)

(***************************************************************************)
(* What on_tcpreceive is given are the bytes just read, in stream order    *)
(* and without gaps; m_head never contributes a byte left over from an     *)
(* earlier read.  So no byte is delivered twice or out of order.           *)
(***************************************************************************)
DeliveredInOrder ==
    [][delivered' # delivered =>
          /\ Len(delivered'.data) = got' - got
          /\ delivered'.data = SubSeq(stream, got + 1, got')]_vars

(* The data delivered begins with the head of packet k. *)
Begins(k) == delivered.n > 0 /\ delivered.data[1] = <<k, 1>>

(***************************************************************************)
(* If the delivered data happens to begin where a packet begins, then the  *)
(* receiver dispatches on the id the sender gave it and body() returns its *)
(* whole body or, if that was not read with it, nothing: never a part of   *)
(* it and never bytes of the next packet, but for the one byte too many.   *)
(***************************************************************************)
AlignedIsRight ==
    \A k \in 1 .. Len(sent) :
        Begins(k) =>
            LET length == Len(delivered.data)
                r == BodyResult(length, sent[k])
            IN  /\ delivered.id = SubSeq(Bytes(k, sent[k]), 1, INT)
                /\ FieldOf(delivered.data, "bodylength") = FieldOf(Bytes(k, sent[k]), "bodylength")
                /\ r # 0 => SubSeq(delivered.data, PACKET_BODY_OFFSET + 1, PACKET_BODY_OFFSET + r)
                              = SubSeq(Bytes(k, sent[k]), PACKET_BODY_OFFSET + 1,
                                       PACKET_HEAD_LENGTH + sent[k])
                /\ r = 0 /\ sent[k] > 0 => PACKET_HEAD_LENGTH + sent[k] > PACKET_BUFFER_SIZE

(***************************************************************************)
(* serverapp.h, of on_tcpreceive: "the packets received over tcp, messages *)
(* between client and server and between servers" (in Chinese): what it is *)
(* given is a packet that was sent.                                        *)
(***************************************************************************)
WholePackets ==
    delivered.n > 0 => \E k \in 1 .. Len(sent) : delivered.data = Bytes(k, sent[k])

=============================================================================
