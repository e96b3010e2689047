---------------------------- MODULE FramingProofs ---------------------------
(***************************************************************************)
(* Theorems about packets on a TCP connection: for packets of any sizes    *)
(* and number, cut into pieces by TCP in any way, and any sizeof(int) and  *)
(* PACKET_BUFFER_SIZE.                                                     *)
(***************************************************************************)
EXTENDS Framing, SequenceTheorems, TLAPS

Size(k) == PACKET_HEAD_LENGTH + sent[k]

(* Packet k lies in the stream from offset at on. *)
Laid(k, at) ==
    /\ at + Size(k) <= Len(stream)
    /\ \A o \in 1 .. Size(k) : stream[at + o] = <<k, o>>

(* Every byte of the stream belongs to a packet that is in it as a whole. *)
StreamOfPackets ==
    \A i \in 1 .. Len(stream) :
        \E k \in 1 .. Len(sent), at \in Nat : at < i /\ i <= at + Size(k) /\ Laid(k, at)

(* What was delivered last is what one read put into the whole of m_head. *)
DeliveredRead ==
    delivered.n > 0 =>
        /\ Len(delivered.data) = PACKET_BUFFER_SIZE
        /\ delivered.id = FieldOf(delivered.data, "id")
        /\ \E g \in Nat :
              /\ g + PACKET_BUFFER_SIZE <= Len(stream)
              /\ \A i \in 1 .. PACKET_BUFFER_SIZE : delivered.data[i] = stream[g + i]

(* The inductive invariant. *)
IInv == TypeOK /\ Len(sent) <= MaxPackets /\ StreamOfPackets /\ DeliveredRead

-----------------------------------------------------------------------------
(* Lemmas about the operators. *)

LEMMA ConstantFacts ==
    /\ INT \in Nat \ {0} /\ BodySizes \subseteq Nat /\ MaxPackets \in Nat
    /\ PACKET_BUFFER_SIZE \in Nat /\ PACKET_HEAD_LENGTH \in Nat /\ PACKET_HEAD_LENGTH > 0
    /\ PACKET_HEAD_LENGTH < PACKET_BUFFER_SIZE
    /\ PACKET_BODY_OFFSET = PACKET_HEAD_LENGTH
BY IntAssumption, FramingAssumption DEF PACKET_HEAD_LENGTH, PACKET_BODY_OFFSET

LEMMA FunIsSeq ==
    ASSUME NEW n \in Nat, NEW S, NEW g, g = [i \in 1 .. n |-> g[i]],
           \A i \in 1 .. n : g[i] \in S
    PROVE  g \in Seq(S) /\ Len(g) = n
<1>1. g \in [1 .. n -> S] /\ DOMAIN g = 1 .. n
    BY Zenon
<1>2. g \in Seq(S)
    BY <1>1, SeqDef
<1>3. Len(g) \in Nat /\ DOMAIN g = 1 .. Len(g)
    BY <1>2, LenProperties
<1> QED BY <1>1, <1>2, <1>3

LEMMA SubSeqAt ==
    ASSUME NEW S, NEW s \in Seq(S), NEW at \in Nat, NEW n \in Nat, at + n <= Len(s)
    PROVE  /\ SubSeq(s, at + 1, at + n) \in Seq(S)
           /\ Len(SubSeq(s, at + 1, at + n)) = n
           /\ SubSeq(s, at + 1, at + n) = [i \in 1 .. n |-> s[at + i]]
<1> DEFINE t == SubSeq(s, at + 1, at + n)
<1>0. Len(s) \in Nat /\ \A i \in 1 .. Len(s) : s[i] \in S
    BY LenProperties, ElementOfSeq
<1>1. \A i \in at + 1 .. at + n : s[i] \in S
    BY <1>0
<1>2. /\ t \in Seq(S)
      /\ Len(t) = IF at + 1 <= at + n THEN (at + n) - (at + 1) + 1 ELSE 0
      /\ \A i \in 1 .. (at + n) - (at + 1) + 1 : t[i] = s[(at + 1) + i - 1]
    BY <1>1, SubSeqProperties
<1> HIDE DEF t
<1>3. Len(t) = n /\ \A i \in 1 .. n : t[i] = s[at + i]
    <2>1. /\ (at + n) - (at + 1) + 1 = n /\ (at + 1 <= at + n \/ n = 0)
          /\ \A i \in 1 .. n : (at + 1) + i - 1 = at + i
        OBVIOUS
    <2> QED BY <1>2, <2>1
<1>4. t = [i \in 1 .. n |-> t[i]]
    BY <1>2, <1>3
<1> QED BY <1>2, <1>3, <1>4 DEF t

LEMMA HeadFacts ==
    ASSUME NEW f \in Fields
    PROVE  Offset(f) \in Nat /\ SizeOf(f) \in Nat /\ Offset(f) + SizeOf(f) <= PACKET_HEAD_LENGTH
BY IntAssumption DEF Fields, Offset, SizeOf, PACKET_ID_OFFSET, PACKET_VERSION_OFFSET,
    PACKET_TIMESTAMP_OFFSET, PACKET_BODY_LENGTH_OFFSET, PACKET_EXTRA_OFFSET, PACKET_HEAD_LENGTH

(* The bytes of a field of a packet that is long enough. *)
LEMMA FieldOfIs ==
    ASSUME NEW data \in Seq(Byte), PACKET_HEAD_LENGTH <= Len(data), NEW f \in Fields
    PROVE  /\ FieldOf(data, f) \in Seq(Byte)
           /\ FieldOf(data, f) = [i \in 1 .. SizeOf(f) |-> data[Offset(f) + i]]
<1>1. /\ Offset(f) \in Nat /\ SizeOf(f) \in Nat /\ Offset(f) + SizeOf(f) <= PACKET_HEAD_LENGTH
      /\ PACKET_HEAD_LENGTH \in Nat /\ Len(data) \in Nat
    BY HeadFacts, ConstantFacts, LenProperties
<1>2. Offset(f) + SizeOf(f) <= Len(data)
    BY <1>1
<1> DEFINE at == Offset(f)
           n == SizeOf(f)
<1>3. FieldOf(data, f) = SubSeq(data, at + 1, at + n)
    BY DEF FieldOf
<1>4. at \in Nat /\ n \in Nat /\ at + n <= Len(data)
    BY <1>1, <1>2
<1> HIDE DEF at, n
<1>5. /\ SubSeq(data, at + 1, at + n) \in Seq(Byte)
      /\ SubSeq(data, at + 1, at + n) = [i \in 1 .. n |-> data[at + i]]
    BY <1>4, SubSeqAt
<1> QED BY <1>3, <1>5 DEF at, n

(* The bytes of a packet. *)
LEMMA BytesAre ==
    ASSUME NEW k \in 0 .. MaxPackets, NEW n \in Nat
    PROVE  /\ Bytes(k, n) \in Seq(Byte)
           /\ Len(Bytes(k, n)) = PACKET_HEAD_LENGTH + n
           /\ \A o \in 1 .. PACKET_HEAD_LENGTH + n : Bytes(k, n)[o] = <<k, o>>
<1> DEFINE m == PACKET_HEAD_LENGTH + n
           b == Bytes(k, n)
<1>1. m \in Nat
    BY ConstantFacts
<1>2. b = [o \in 1 .. m |-> <<k, o>>]
    BY DEF Bytes
<1> HIDE DEF m, b
<1>3. \A o \in 1 .. m : b[o] = <<k, o>> /\ b[o] \in Byte
    BY <1>1, <1>2 DEF Byte
<1>4. b = [o \in 1 .. m |-> b[o]]
    BY <1>2, <1>3
<1>5. b \in Seq(Byte) /\ Len(b) = m
    BY <1>1, <1>3, <1>4, FunIsSeq
<1> QED BY <1>3, <1>5 DEF m, b

LEMMA TypeFacts ==
    ASSUME TypeOK
    PROVE  /\ sent \in Seq(BodySizes) /\ Len(sent) \in Nat
           /\ stream \in Seq(Byte) /\ Len(stream) \in Nat
           /\ got \in Nat /\ got <= Len(stream)
           /\ \A i \in 1 .. Len(stream) : stream[i] \in Byte
           /\ \A k \in 1 .. Len(sent) : sent[k] \in Nat /\ Size(k) \in Nat
                                        /\ Size(k) >= PACKET_HEAD_LENGTH
<1>1. sent \in Seq(BodySizes) /\ stream \in Seq(Byte)
    BY DEF TypeOK
<1>2. Len(sent) \in Nat /\ Len(stream) \in Nat
    BY <1>1, LenProperties
<1>3. got \in Nat /\ got <= Len(stream)
    BY <1>2 DEF TypeOK
<1>4. /\ \A i \in 1 .. Len(stream) : stream[i] \in Byte
      /\ \A k \in 1 .. Len(sent) : sent[k] \in BodySizes
    BY <1>1, ElementOfSeq
<1>5. \A k \in 1 .. Len(sent) : sent[k] \in Nat
    BY <1>4, ConstantFacts, Zenon
<1>6. \A k \in 1 .. Len(sent) : Size(k) \in Nat /\ Size(k) >= PACKET_HEAD_LENGTH
    BY <1>5, ConstantFacts DEF Size
<1> QED BY <1>1, <1>2, <1>3, <1>4, <1>5, <1>6

-----------------------------------------------------------------------------
LEMMA InitIInv == Init => IInv
<1> SUFFICES ASSUME Init PROVE IInv
    OBVIOUS
<1>1. /\ sent = <<>> /\ stream = <<>> /\ got = 0 /\ m_head = Cleared
      /\ delivered.n = 0 /\ delivered.data = <<>> /\ delivered.id = <<>>
    BY DEF Init
<1>2. <<>> \in Seq(Byte) /\ <<>> \in Seq(BodySizes) /\ Len(<<>>) = 0
    BY EmptySeq
<1>3. Cleared \in [1 .. PACKET_BUFFER_SIZE -> Byte]
    BY ConstantFacts DEF Cleared, Zero, Byte
<1>4. TypeOK
    BY <1>1, <1>2, <1>3 DEF TypeOK
<1>5. StreamOfPackets /\ DeliveredRead /\ Len(sent) <= MaxPackets
    BY <1>1, <1>2, ConstantFacts DEF StreamOfPackets, DeliveredRead
<1> QED BY <1>4, <1>5 DEF IInv

(* Sending a packet leaves what is in the stream where it is. *)
LEMMA SendIInv ==
    ASSUME IInv, NEW n \in BodySizes, Send(n)
    PROVE  IInv'
<1> DEFINE k0 == Len(sent) + 1
           b == Bytes(k0, n)
           m == PACKET_HEAD_LENGTH + n
<1>1. /\ Len(sent) < MaxPackets /\ sent' = Append(sent, n) /\ stream' = stream \o b
      /\ UNCHANGED <<got, m_head, delivered>>
    BY DEF Send
<1>2. TypeOK /\ StreamOfPackets /\ DeliveredRead
    BY DEF IInv
<1>3. /\ sent \in Seq(BodySizes) /\ Len(sent) \in Nat
      /\ stream \in Seq(Byte) /\ Len(stream) \in Nat
      /\ got \in Nat /\ got <= Len(stream)
    BY <1>2, TypeFacts
<1>4. n \in Nat /\ k0 \in 0 .. MaxPackets /\ m \in Nat
    BY <1>1, <1>3, ConstantFacts
<1>5. b \in Seq(Byte) /\ Len(b) = m /\ \A o \in 1 .. m : b[o] = <<k0, o>>
    BY <1>4, BytesAre, Zenon
<1> HIDE DEF b, m
<1>6. /\ stream' \in Seq(Byte) /\ Len(stream') = Len(stream) + m
      /\ \A i \in 1 .. Len(stream) : stream'[i] = stream[i]
      /\ \A o \in 1 .. m : stream'[Len(stream) + o] = <<k0, o>>
    <2>1. /\ stream' \in Seq(Byte) /\ Len(stream') = Len(stream) + Len(b)
          /\ \A i \in 1 .. Len(stream) + Len(b) :
                stream'[i] = IF i <= Len(stream) THEN stream[i] ELSE b[i - Len(stream)]
        BY <1>1, <1>3, <1>5, ConcatProperties, Zenon
    <2>2. \A i \in 1 .. Len(stream) : i \in 1 .. Len(stream) + Len(b) /\ i <= Len(stream)
        BY <1>3, <1>4, <1>5
    <2>3. \A o \in 1 .. m : /\ Len(stream) + o \in 1 .. Len(stream) + Len(b)
                            /\ ~(Len(stream) + o <= Len(stream))
                            /\ (Len(stream) + o) - Len(stream) = o
        BY <1>3, <1>4, <1>5
    <2> QED BY <1>5, <2>1, <2>2, <2>3, Zenon
<1>7. /\ sent' \in Seq(BodySizes) /\ Len(sent') = k0
      /\ \A k \in 1 .. Len(sent) : sent'[k] = sent[k]
      /\ sent'[k0] = n
    BY <1>1, <1>3, AppendProperties
<1>8. TypeOK'
    <2>1. got' \in 0 .. Len(stream')
        BY <1>1, <1>3, <1>4, <1>6
    <2> QED BY <1>1, <1>2, <1>6, <1>7, <2>1 DEF TypeOK
<1>9. Len(sent') <= MaxPackets
    BY <1>4, <1>7
<1>10. \A k \in 1 .. Len(sent) : Size(k)' = Size(k)
    BY <1>7 DEF Size
<1>11. ASSUME NEW k \in 1 .. Len(sent), NEW at \in Nat, Laid(k, at) PROVE Laid(k, at)'
    <2>1. Size(k) \in Nat /\ Size(k)' = Size(k)
        BY <1>2, <1>10, TypeFacts
    <2>2. at + Size(k) <= Len(stream) /\ \A o \in 1 .. Size(k) : stream[at + o] = <<k, o>>
        BY <1>11 DEF Laid
    <2>3. \A o \in 1 .. Size(k) : at + o \in 1 .. Len(stream)
        BY <1>3, <2>1, <2>2
    <2>4. at + Size(k) <= Len(stream')
        BY <1>3, <1>4, <1>6, <2>1, <2>2
    <2> QED BY <1>6, <2>1, <2>2, <2>3, <2>4 DEF Laid
<1>12. PICK c \in 1 .. Len(sent') : c = k0
    BY <1>3, <1>7
<1>13. PICK a \in Nat : a = Len(stream)
    BY <1>3
<1>14. Size(c)' = m /\ Laid(c, a)'
    <2>1. Size(c)' = m
        BY <1>7, <1>12 DEF Size, m
    <2>2. a + m <= Len(stream') /\ \A o \in 1 .. m : stream'[a + o] = <<c, o>>
        <3>1. a + m <= Len(stream')
            BY <1>3, <1>4, <1>6, <1>13
        <3>2. \A o \in 1 .. m : stream'[a + o] = <<c, o>>
            BY <1>6, <1>12, <1>13, Zenon
        <3> QED BY <3>1, <3>2
    <2> QED BY <2>1, <2>2 DEF Laid
<1>15. StreamOfPackets'
    <2> SUFFICES ASSUME NEW i \in 1 .. Len(stream')
                 PROVE  \E k \in 1 .. Len(sent'), at \in Nat :
                            at < i /\ i <= at + Size(k)' /\ Laid(k, at)'
        BY DEF StreamOfPackets
    <2>1. CASE i <= Len(stream)
        <3>1. i \in 1 .. Len(stream)
            BY <1>3, <2>1
        <3>2. PICK k \in 1 .. Len(sent), at \in Nat : at < i /\ i <= at + Size(k) /\ Laid(k, at)
            BY <1>2, <3>1 DEF StreamOfPackets
        <3>3. k \in 1 .. Len(sent') /\ Laid(k, at)' /\ Size(k)' = Size(k)
            BY <1>3, <1>7, <1>10, <1>11, <3>2
        <3> QED BY <3>2, <3>3
    <2>2. CASE i > Len(stream)
        <3>1. a < i /\ i <= a + m
            BY <1>3, <1>4, <1>6, <1>13, <2>2
        <3> QED BY <1>14, <3>1
    <2> QED BY <1>3, <1>6, <2>1, <2>2
<1>16. DeliveredRead'
    <2> SUFFICES ASSUME delivered.n > 0 PROVE DeliveredRead'
        BY <1>1, Zenon DEF DeliveredRead
    <2>1. /\ Len(delivered.data) = PACKET_BUFFER_SIZE
          /\ delivered.id = FieldOf(delivered.data, "id")
        BY <1>2 DEF DeliveredRead
    <2>2. PICK g \in Nat : /\ g + PACKET_BUFFER_SIZE <= Len(stream)
                           /\ \A i \in 1 .. PACKET_BUFFER_SIZE : delivered.data[i] = stream[g + i]
        BY <1>2 DEF DeliveredRead
    <2>3. \A i \in 1 .. PACKET_BUFFER_SIZE : g + i \in 1 .. Len(stream)
        BY <1>3, <2>2, ConstantFacts
    <2>4. /\ g + PACKET_BUFFER_SIZE <= Len(stream')
          /\ \A i \in 1 .. PACKET_BUFFER_SIZE : delivered.data[i] = stream'[g + i]
        <3>1. g + PACKET_BUFFER_SIZE <= Len(stream')
            BY <1>3, <1>4, <1>6, <2>2, ConstantFacts
        <3>2. \A i \in 1 .. PACKET_BUFFER_SIZE : delivered.data[i] = stream'[g + i]
            BY <1>6, <2>2, <2>3, Zenon
        <3> QED BY <3>1, <3>2
    <2> QED BY <1>1, <2>1, <2>4, Zenon DEF DeliveredRead, FieldOf
<1> QED BY <1>8, <1>9, <1>15, <1>16 DEF IInv

(* m_head after a read of n bytes. *)
LEMMA FilledIs ==
    ASSUME TypeOK, NEW n \in 1 .. PACKET_BUFFER_SIZE, got + n <= Len(stream)
    PROVE  /\ Filled(n) \in [1 .. PACKET_BUFFER_SIZE -> Byte]
           /\ Filled(n) \in Seq(Byte) /\ Len(Filled(n)) = PACKET_BUFFER_SIZE
           /\ \A i \in 1 .. n : Filled(n)[i] = stream[got + i]
<1> DEFINE b == Filled(n)
<1>1. /\ got \in Nat /\ Len(stream) \in Nat /\ PACKET_BUFFER_SIZE \in Nat
      /\ \A i \in 1 .. Len(stream) : stream[i] \in Byte
    BY TypeFacts, ConstantFacts
<1>2. \A i \in 1 .. PACKET_BUFFER_SIZE : m_head[i] \in Byte
    BY DEF TypeOK
<1>3. b = [i \in 1 .. PACKET_BUFFER_SIZE |-> IF i <= n THEN stream[got + i] ELSE m_head[i]]
    BY DEF Filled
<1> HIDE DEF b
<1>4. \A i \in 1 .. PACKET_BUFFER_SIZE : b[i] = IF i <= n THEN stream[got + i] ELSE m_head[i]
    BY <1>3
<1>5. \A i \in 1 .. PACKET_BUFFER_SIZE : i <= n => got + i \in 1 .. Len(stream)
    BY <1>1
<1>6. \A i \in 1 .. PACKET_BUFFER_SIZE : b[i] \in Byte
    BY <1>1, <1>2, <1>4, <1>5, Zenon
<1>7. b = [i \in 1 .. PACKET_BUFFER_SIZE |-> b[i]]
    BY <1>3, <1>4
<1>8. b \in [1 .. PACKET_BUFFER_SIZE -> Byte]
    BY <1>6, <1>7
<1>9. b \in Seq(Byte) /\ Len(b) = PACKET_BUFFER_SIZE
    BY <1>1, <1>6, <1>7, FunIsSeq
<1>10. \A i \in 1 .. n : i \in 1 .. PACKET_BUFFER_SIZE /\ i <= n
    BY <1>1
<1> QED BY <1>4, <1>8, <1>9, <1>10 DEF b

(* A read either delivers m_head, all of which it has just filled, or nothing. *)
LEMMA ReceiveCases ==
    ASSUME IInv, NEW n \in 1 .. PACKET_BUFFER_SIZE, on_receive_head(n)
    PROVE  /\ got' = got + n /\ got + n <= Len(stream) /\ UNCHANGED <<sent, stream>>
           /\ m_head' \in {Cleared, Filled(n)}
           /\ \/ delivered' = delivered
              \/ /\ n = PACKET_BUFFER_SIZE
                 /\ delivered' = [n |-> delivered.n + 1, data |-> Filled(n),
                                  id |-> FieldOf(Filled(n), "id")]
<1>1. got' = got + n /\ n <= Len(stream) - got /\ UNCHANGED <<sent, stream>>
    BY DEF on_receive_head
<1>2. got + n <= Len(stream)
    BY <1>1, TypeFacts, ConstantFacts DEF IInv
<1>3. m_head' \in {Cleared, Filled(n)}
    BY DEF on_receive_head
<1>4. delivered' = delivered \/ (n = PACKET_BUFFER_SIZE /\ on_tcpreceive(Filled(n)))
    BY DEF on_receive_head
<1>5. on_tcpreceive(Filled(n)) =>
        delivered' = [n |-> delivered.n + 1, data |-> Filled(n), id |-> FieldOf(Filled(n), "id")]
        \/ delivered' = delivered
    BY DEF on_tcpreceive
<1> QED BY <1>1, <1>2, <1>3, <1>4, <1>5

LEMMA ReceiveIInv ==
    ASSUME IInv, NEW n \in 1 .. PACKET_BUFFER_SIZE, on_receive_head(n)
    PROVE  IInv'
<1> DEFINE b == Filled(n)
<1>1. /\ got' = got + n /\ got + n <= Len(stream) /\ sent' = sent /\ stream' = stream
      /\ m_head' \in {Cleared, b}
      /\ \/ delivered' = delivered
         \/ /\ n = PACKET_BUFFER_SIZE
            /\ delivered' = [n |-> delivered.n + 1, data |-> b, id |-> FieldOf(b, "id")]
    BY ReceiveCases
<1>2. TypeOK /\ Len(sent) <= MaxPackets /\ StreamOfPackets /\ DeliveredRead
    BY DEF IInv
<1>3. /\ b \in [1 .. PACKET_BUFFER_SIZE -> Byte]
      /\ b \in Seq(Byte) /\ Len(b) = PACKET_BUFFER_SIZE
      /\ \A i \in 1 .. n : b[i] = stream[got + i]
    BY <1>1, <1>2, FilledIs
<1> HIDE DEF b
<1>4. Cleared \in [1 .. PACKET_BUFFER_SIZE -> Byte]
    BY ConstantFacts DEF Cleared, Zero, Byte
<1>5. got \in Nat /\ Len(stream) \in Nat /\ PACKET_BUFFER_SIZE \in Nat /\ n \in Nat
    BY <1>2, TypeFacts, ConstantFacts
<1>6. got' \in 0 .. Len(stream')
    BY <1>1, <1>5
<1>7. StreamOfPackets'
    <2>1. sent' = sent /\ stream' = stream
        BY <1>1
    <2>2. StreamOfPackets' <=> StreamOfPackets
        BY <2>1 DEF StreamOfPackets, Laid, Size
    <2> QED BY <1>2, <2>2
<1>8. CASE delivered' = delivered
    <2>1. TypeOK'
        BY <1>1, <1>2, <1>3, <1>4, <1>6, <1>8 DEF TypeOK
    <2>2. DeliveredRead'
        BY <1>1, <1>2, <1>8 DEF DeliveredRead, FieldOf
    <2> QED BY <1>1, <1>2, <1>7, <2>1, <2>2 DEF IInv
<1>9. CASE /\ n = PACKET_BUFFER_SIZE
           /\ delivered' = [n |-> delivered.n + 1, data |-> b, id |-> FieldOf(b, "id")]
    <2>1. FieldOf(b, "id") \in Seq(Byte)
        <3>1. "id" \in Fields /\ PACKET_HEAD_LENGTH <= Len(b)
            BY <1>3, ConstantFacts DEF Fields
        <3> QED BY <1>3, <3>1, FieldOfIs
    <2>2. /\ delivered'.n = delivered.n + 1 /\ delivered'.data = b
          /\ delivered'.id = FieldOf(b, "id")
        BY <1>9
    <2>3. TypeOK'
        <3>1. delivered'.n \in Nat
            BY <1>2, <2>2 DEF TypeOK
        <3> QED BY <1>1, <1>2, <1>3, <1>4, <1>6, <2>1, <2>2, <3>1 DEF TypeOK
    <2>4. DeliveredRead'
        <3>1. delivered'.id = FieldOf(delivered'.data, "id")
            BY <2>2
        <3>2. \E g \in Nat : /\ g + PACKET_BUFFER_SIZE <= Len(stream')
                             /\ \A i \in 1 .. PACKET_BUFFER_SIZE : delivered'.data[i] = stream'[g + i]
            BY <1>1, <1>3, <1>5, <1>9, <2>2, Zenon
        <3>3. Len(delivered'.data) = PACKET_BUFFER_SIZE
            BY <1>3, <2>2
        <3> QED BY <3>1, <3>2, <3>3 DEF DeliveredRead, FieldOf
    <2> QED BY <1>1, <1>2, <1>7, <2>3, <2>4 DEF IInv
<1> QED BY <1>1, <1>8, <1>9

LEMMA NextIInv == IInv /\ [Next]_vars => IInv'
<1> SUFFICES ASSUME IInv, [Next]_vars PROVE IInv'
    OBVIOUS
<1>1. CASE UNCHANGED vars
    <2>1. sent' = sent /\ stream' = stream /\ got' = got /\ m_head' = m_head /\ delivered' = delivered
        BY <1>1 DEF vars
    <2>2. StreamOfPackets' <=> StreamOfPackets
        BY <2>1 DEF StreamOfPackets, Laid, Size
    <2>3. DeliveredRead' <=> DeliveredRead
        BY <2>1 DEF DeliveredRead, FieldOf
    <2>4. TypeOK' <=> TypeOK
        BY <2>1 DEF TypeOK
    <2> QED BY <2>1, <2>2, <2>3, <2>4 DEF IInv
<1> QED BY <1>1, SendIInv, ReceiveIInv DEF Next

LEMMA Invariance == Spec => []IInv
BY InitIInv, NextIInv, PTL DEF Spec

-----------------------------------------------------------------------------
(* The receiver never reads behind the stream, and m_head keeps its size. *)
THEOREM TypeCorrect == Spec => []TypeOK
BY Invariance, PTL DEF IInv

(***************************************************************************)
(* uv_packet hands to on_tcpreceive exactly the bytes of the read that     *)
(* just ended, whatever earlier reads left in m_head.                      *)
(***************************************************************************)
THEOREM DeliversInOrder == Spec => DeliveredInOrder
<1>1. ASSUME IInv, [Next]_vars, delivered' # delivered
      PROVE  /\ Len(delivered'.data) = got' - got
             /\ delivered'.data = SubSeq(stream, got + 1, got')
    <2>1. PICK n \in 1 .. PACKET_BUFFER_SIZE : on_receive_head(n)
        BY <1>1 DEF Next, vars, Send
    <2> DEFINE b == Filled(n)
    <2>2. /\ got' = got + n /\ got + n <= Len(stream)
          /\ n = PACKET_BUFFER_SIZE /\ delivered'.data = b
        BY <1>1, <2>1, ReceiveCases
    <2>3. /\ TypeOK /\ got \in Nat /\ n \in Nat /\ stream \in Seq(Byte)
        BY <1>1, TypeFacts, ConstantFacts DEF IInv
    <2>4. /\ b \in Seq(Byte) /\ Len(b) = n /\ \A i \in 1 .. n : b[i] = stream[got + i]
        BY <2>2, <2>3, FilledIs
    <2>5. SubSeq(stream, got + 1, got + n) = [i \in 1 .. n |-> stream[got + i]]
        BY <2>2, <2>3, SubSeqAt
    <2> HIDE DEF b
    <2>6. b = [i \in 1 .. n |-> stream[got + i]]
        BY <2>4
    <2>7. got' - got = n
        BY <2>2, <2>3
    <2> QED BY <2>2, <2>4, <2>5, <2>6, <2>7
<1> QED BY <1>1, Invariance, PTL DEF Spec, DeliveredInOrder

(* Data that begins with the head of packet k goes on with packet k. *)
LEMMA BeginsWith ==
    ASSUME IInv, NEW k \in 1 .. Len(sent), Begins(k)
    PROVE  /\ delivered.data \in Seq(Byte) /\ Len(delivered.data) = PACKET_BUFFER_SIZE
           /\ delivered.id = FieldOf(delivered.data, "id")
           /\ \A o \in 1 .. Size(k) : o <= PACKET_BUFFER_SIZE => delivered.data[o] = <<k, o>>
<1>1. TypeOK /\ StreamOfPackets /\ DeliveredRead /\ delivered.n > 0 /\ delivered.data[1] = <<k, 1>>
    BY DEF IInv, Begins
<1>2. /\ Len(delivered.data) = PACKET_BUFFER_SIZE /\ delivered.data \in Seq(Byte)
      /\ delivered.id = FieldOf(delivered.data, "id")
    BY <1>1 DEF DeliveredRead, TypeOK
<1>3. PICK g \in Nat : /\ g + PACKET_BUFFER_SIZE <= Len(stream)
                       /\ \A i \in 1 .. PACKET_BUFFER_SIZE : delivered.data[i] = stream[g + i]
    BY <1>1 DEF DeliveredRead
<1>4. /\ PACKET_BUFFER_SIZE \in Nat /\ 1 \in 1 .. PACKET_BUFFER_SIZE /\ Len(stream) \in Nat
      /\ g + 1 \in 1 .. Len(stream)
    BY <1>1, <1>3, ConstantFacts, TypeFacts
<1>5. PICK c \in 1 .. Len(sent), at \in Nat : at < g + 1 /\ g + 1 <= at + Size(c) /\ Laid(c, at)
    BY <1>1, <1>4 DEF StreamOfPackets
<1>6. Size(c) \in Nat
    BY <1>1, TypeFacts
<1>7. g + 1 - at \in 1 .. Size(c) /\ at + (g + 1 - at) = g + 1
    BY <1>5, <1>6
<1>8. stream[g + 1] = <<c, g + 1 - at>>
    <2>1. stream[at + (g + 1 - at)] = <<c, g + 1 - at>>
        BY <1>5, <1>7 DEF Laid
    <2> QED BY <1>7, <2>1
<1>9. <<c, g + 1 - at>> = <<k, 1>>
    BY <1>1, <1>3, <1>4, <1>8
<1>10. c = k /\ at = g
    BY <1>9
<1>11. \A o \in 1 .. Size(k) : o <= PACKET_BUFFER_SIZE => delivered.data[o] = <<k, o>>
    <2> SUFFICES ASSUME NEW o \in 1 .. Size(k), o <= PACKET_BUFFER_SIZE
                 PROVE  delivered.data[o] = <<k, o>>
        OBVIOUS
    <2>1. o \in 1 .. PACKET_BUFFER_SIZE
        BY <1>4, <1>6, <1>10
    <2>2. stream[g + o] = <<k, o>>
        BY <1>5, <1>10 DEF Laid
    <2> QED BY <1>3, <2>1, <2>2
<1> QED BY <1>2, <1>11

(***************************************************************************)
(* If the data delivered begins where a packet begins, serverapp           *)
(* dispatches on the id of that packet, reads its bodylength, and body()   *)
(* returns all of its body or nothing, and nothing only if the packet is   *)
(* larger than PACKET_BUFFER_SIZE.                                         *)
(***************************************************************************)
THEOREM AlignedDataIsRight == Spec => []AlignedIsRight
<1>1. ASSUME IInv, NEW k \in 1 .. Len(sent), Begins(k)
      PROVE  LET length == Len(delivered.data)
                 r == BodyResult(length, sent[k])
             IN  /\ delivered.id = SubSeq(Bytes(k, sent[k]), 1, INT)
                 /\ FieldOf(delivered.data, "bodylength") = FieldOf(Bytes(k, sent[k]), "bodylength")
                 /\ r # 0 => SubSeq(delivered.data, PACKET_BODY_OFFSET + 1, PACKET_BODY_OFFSET + r)
                               = SubSeq(Bytes(k, sent[k]), PACKET_BODY_OFFSET + 1,
                                        PACKET_HEAD_LENGTH + sent[k])
                 /\ r = 0 /\ sent[k] > 0 => PACKET_HEAD_LENGTH + sent[k] > PACKET_BUFFER_SIZE
    <2> DEFINE d == delivered.data
               n == sent[k]
               b == Bytes(k, n)
               H == PACKET_HEAD_LENGTH
               P == PACKET_BUFFER_SIZE
               r == BodyResult(Len(d), n)
    <2>1. /\ n \in Nat /\ H \in Nat /\ P \in Nat /\ H < P /\ k \in 0 .. MaxPackets
          /\ INT \in Nat \ {0} /\ PACKET_BODY_OFFSET = H
        BY <1>1, ConstantFacts, TypeFacts DEF IInv
    <2>2. /\ d \in Seq(Byte) /\ Len(d) = P /\ delivered.id = FieldOf(d, "id")
          /\ \A o \in 1 .. H + n : o <= P => d[o] = <<k, o>>
        BY <1>1, BeginsWith DEF Size
    <2>3. b \in Seq(Byte) /\ Len(b) = H + n /\ \A o \in 1 .. H + n : b[o] = <<k, o>>
        BY <2>1, BytesAre, Zenon
    <2> HIDE DEF b, d, H, P, n
    <2>4. \A o \in 1 .. H + n : o <= P => d[o] = b[o]
        BY <2>2, <2>3, Zenon
    <2>5. ASSUME NEW f \in Fields PROVE FieldOf(d, f) = FieldOf(b, f)
        <3> DEFINE z == SizeOf(f)
                   a == Offset(f)
        <3>1. a \in Nat /\ z \in Nat /\ a + z <= H
            BY HeadFacts DEF H
        <3>2. H <= Len(d) /\ H <= Len(b)
            BY <2>1, <2>2, <2>3
        <3>3. /\ FieldOf(d, f) = [i \in 1 .. z |-> d[a + i]]
              /\ FieldOf(b, f) = [i \in 1 .. z |-> b[a + i]]
            BY <2>2, <2>3, <3>2, FieldOfIs DEF H
        <3> HIDE DEF z, a
        <3>4. \A i \in 1 .. z : a + i \in 1 .. H + n /\ a + i <= P
            BY <2>1, <3>1
        <3>5. \A i \in 1 .. z : d[a + i] = b[a + i]
            BY <2>4, <3>4
        <3> QED BY <3>3, <3>5
    <2>6. "id" \in Fields /\ "bodylength" \in Fields
        BY DEF Fields
    <2>7. FieldOf(b, "id") = SubSeq(b, 1, INT)
        <3>1. Offset("id") + 1 = 1 /\ Offset("id") + SizeOf("id") = INT
            BY <2>1 DEF Offset, SizeOf, PACKET_ID_OFFSET
        <3> QED BY <3>1, Zenon DEF FieldOf
    <2>8. r # 0 => SubSeq(d, H + 1, H + r) = SubSeq(b, H + 1, H + n)
        <3> SUFFICES ASSUME r # 0 PROVE SubSeq(d, H + 1, H + r) = SubSeq(b, H + 1, H + n)
            BY Zenon
        <3>1. r = n /\ H + n <= P
            BY <2>1, <2>2 DEF BodyResult, NoBody
        <3> HIDE DEF r
        <3>2. H + n <= Len(d) /\ H + n <= Len(b)
            BY <2>1, <2>2, <2>3, <3>1
        <3>3. /\ SubSeq(d, H + 1, H + n) = [i \in 1 .. n |-> d[H + i]]
              /\ SubSeq(b, H + 1, H + n) = [i \in 1 .. n |-> b[H + i]]
            BY <2>1, <2>2, <2>3, <3>2, SubSeqAt
        <3>4. \A i \in 1 .. n : H + i \in 1 .. H + n /\ H + i <= P
            BY <2>1, <3>1
        <3>5. \A i \in 1 .. n : d[H + i] = b[H + i]
            BY <2>4, <3>4
        <3> QED BY <3>1, <3>3, <3>5, Zenon
    <2>9. r = 0 /\ n > 0 => H + n > P
        <3>1. n \in Nat /\ H \in Nat /\ P \in Nat /\ PACKET_BODY_OFFSET = H /\ Len(d) = P
            BY <2>1, <2>2
        <3> QED BY <3>1 DEF BodyResult, NoBody
    <2> HIDE DEF r
    <2>10. delivered.id = SubSeq(b, 1, INT) /\ FieldOf(d, "bodylength") = FieldOf(b, "bodylength")
        BY <2>2, <2>5, <2>6, <2>7
    <2> QED BY <2>1, <2>8, <2>9, <2>10, Zenon DEF b, d, H, P, n, r
<1>2. IInv => AlignedIsRight
    BY <1>1, Zenon DEF AlignedIsRight
<1> QED BY <1>2, Invariance, PTL

=============================================================================
