---------------------------- MODULE PacketProofs ----------------------------
(***************************************************************************)
(* Theorems about packet and memorystream: for all sizes, any number of    *)
(* appends and reads in any order, and any length of int and size_t.       *)
(***************************************************************************)
EXTENDS Packet, SequenceTheorems, TLAPS

(* Every byte up to m_length was appended, and m_length stays below SIZE_T. *)
DataAppended ==
    /\ Fits(Len(m_data))
    /\ \A i \in 1 .. m_length : m_data[i] \notin {Wild, Zero}

(* The cursor of a reader that keeps to the order of the appends. *)
CursorInStep == instep => m_index = IF reads = 0 THEN 0 ELSE End(reads)

(***************************************************************************)
(* The inductive invariant: StreamSound says where the appended things     *)
(* are, and does not say that nothing else lies between them.              *)
(***************************************************************************)
IInv == TypeOK /\ StreamSound /\ DataAppended /\ CursorInStep

-----------------------------------------------------------------------------
(* Lemmas about the operators. *)

LEMMA FunIsSeq ==
    ASSUME NEW n \in Nat, NEW S, NEW g, g = [i \in 1 .. n |-> g[i]],
           \A i \in 1 .. n : g[i] \in S
    PROVE  g \in Seq(S) /\ Len(g) = n
<1>1. g \in [1 .. n -> S] /\ DOMAIN g = 1 .. n
    BY Zenon
<1>2. g \in Seq(S)
    BY <1>1, SeqDef
<1>3. Len(g) \in Nat /\ DOMAIN g = 1 .. Len(g)
    BY <1>2, LenProperties
<1> QED BY <1>1, <1>2, <1>3

LEMMA ModSmall ==
    ASSUME NEW x \in Nat, NEW m \in Nat \ {0}, x < m
    PROVE  x % m = x
OBVIOUS

LEMMA BytesInByte == Nul \in Byte /\ Zero \in Byte /\ Wild \in Byte
BY DEF Nul, Zero, Wild, Byte

(* What an appended thing looks like. *)
LEMMA BytesProperties ==
    ASSUME NEW k \in Nat \ {0}, NEW kind, NEW n \in Nat
    PROVE  /\ Extent(kind, n) \in Nat /\ n <= Extent(kind, n)
           /\ Bytes(k, kind, n) \in Seq(Byte)
           /\ Len(Bytes(k, kind, n)) = Extent(kind, n)
           /\ Bytes(k, kind, n) = [o \in 1 .. Extent(kind, n) |-> Bytes(k, kind, n)[o]]
           /\ \A o \in 1 .. Extent(kind, n) : Bytes(k, kind, n)[o] \notin {Wild, Zero}
<1> DEFINE e == Extent(kind, n)
           b == Bytes(k, kind, n)
<1>1. e \in Nat /\ n <= e
    BY DEF Extent
<1> HIDE DEF e
<1>2. b = [o \in 1 .. e |-> IF o > n THEN Nul ELSE <<k, o>>]
    BY DEF Bytes, e
<1> HIDE DEF b
<1>3. \A o \in 1 .. e : b[o] = IF o > n THEN Nul ELSE <<k, o>>
    BY <1>2
<1>4. \A o \in 1 .. e : <<k, o>> \in Byte /\ <<k, o>> \notin {Wild, Zero}
    BY <1>1 DEF Byte, Wild, Zero
<1>5. Nul \notin {Wild, Zero}
    BY DEF Nul, Wild, Zero
<1>6. \A o \in 1 .. e : b[o] \in Byte /\ b[o] \notin {Wild, Zero}
    BY <1>3, <1>4, <1>5, BytesInByte, Zenon
<1>7. b = [o \in 1 .. e |-> b[o]]
    BY <1>2, <1>3
<1>8. b \in Seq(Byte) /\ Len(b) = e
    BY <1>1, <1>6, <1>7, FunIsSeq
<1> QED BY <1>1, <1>6, <1>7, <1>8 DEF e, b

(* memcpy and resize: the bytes are there, and no other byte changes. *)
LEMMA StoreProperties ==
    ASSUME NEW s \in Seq(Byte), NEW at \in Nat, NEW b \in Seq(Byte)
    PROVE  /\ Store(s, at, b) \in Seq(Byte)
           /\ Len(Store(s, at, b)) = IF Len(s) < at + Len(b) THEN at + Len(b) ELSE Len(s)
           /\ \A o \in 1 .. Len(b) : Store(s, at, b)[at + o] = b[o]
           /\ \A i \in 1 .. Len(s) : i <= at => Store(s, at, b)[i] = s[i]
<1> DEFINE m == IF Len(s) < at + Len(b) THEN at + Len(b) ELSE Len(s)
           t == Store(s, at, b)
<1>1. Len(s) \in Nat /\ Len(b) \in Nat /\ m \in Nat /\ Len(s) <= m /\ at + Len(b) <= m
    BY LenProperties
<1>2. /\ \A i \in 1 .. Len(s) : s[i] \in Byte
      /\ \A o \in 1 .. Len(b) : b[o] \in Byte
    BY ElementOfSeq
<1>3. t = [i \in 1 .. m |-> IF i \in at + 1 .. at + Len(b) THEN b[i - at]
                            ELSE IF i <= Len(s) THEN s[i] ELSE Zero]
    BY DEF Store
<1> HIDE DEF m, t
<1>4. \A i \in 1 .. m : t[i] = IF i \in at + 1 .. at + Len(b) THEN b[i - at]
                               ELSE IF i <= Len(s) THEN s[i] ELSE Zero
    BY <1>3
<1>5. \A i \in 1 .. m : t[i] \in Byte
    <2> SUFFICES ASSUME NEW i \in 1 .. m PROVE t[i] \in Byte
        OBVIOUS
    <2>1. CASE i \in at + 1 .. at + Len(b)
        <3>1. i - at \in 1 .. Len(b) /\ t[i] = b[i - at]
            BY <1>1, <1>4, <2>1
        <3> QED BY <1>2, <3>1
    <2>2. CASE i \notin at + 1 .. at + Len(b) /\ i <= Len(s)
        <3>1. i \in 1 .. Len(s) /\ t[i] = s[i]
            BY <1>1, <1>4, <2>2
        <3> QED BY <1>2, <3>1
    <2>3. CASE i \notin at + 1 .. at + Len(b) /\ ~(i <= Len(s))
        BY <1>4, <2>3, BytesInByte
    <2> QED BY <2>1, <2>2, <2>3
<1>6. t = [i \in 1 .. m |-> t[i]]
    BY <1>3, <1>4
<1>7. t \in Seq(Byte) /\ Len(t) = m
    BY <1>1, <1>5, <1>6, FunIsSeq
<1>8. \A o \in 1 .. Len(b) : t[at + o] = b[o]
    <2> SUFFICES ASSUME NEW o \in 1 .. Len(b) PROVE t[at + o] = b[o]
        OBVIOUS
    <2>1. at + o \in 1 .. m /\ at + o \in at + 1 .. at + Len(b) /\ (at + o) - at = o
        BY <1>1
    <2> QED BY <1>4, <2>1
<1>9. \A i \in 1 .. Len(s) : i <= at => t[i] = s[i]
    <2> SUFFICES ASSUME NEW i \in 1 .. Len(s), i <= at PROVE t[i] = s[i]
        OBVIOUS
    <2>1. i \in 1 .. m /\ i \notin at + 1 .. at + Len(b)
        BY <1>1
    <2> QED BY <1>1, <1>4, <2>1
<1> QED BY <1>7, <1>8, <1>9 DEF m, t

(* Reading n bytes from offset at on. *)
LEMMA CopyProperties ==
    ASSUME m_data \in Seq(Byte), NEW at \in Nat, NEW n \in Nat
    PROVE  /\ Copy(at, n) \in Seq(Byte)
           /\ Len(Copy(at, n)) = n
           /\ Copy(at, n) = [i \in 1 .. n |-> Copy(at, n)[i]]
           /\ \A i \in 1 .. n : at + i <= Len(m_data) => Copy(at, n)[i] = m_data[at + i]
<1> DEFINE t == Copy(at, n)
<1>1. Len(m_data) \in Nat /\ \A i \in 1 .. Len(m_data) : m_data[i] \in Byte
    BY ElementOfSeq, LenProperties
<1>2. t = [i \in 1 .. n |-> IF at + i <= Len(m_data) THEN m_data[at + i] ELSE Wild]
    BY DEF Copy
<1> HIDE DEF t
<1>3. \A i \in 1 .. n : t[i] = IF at + i <= Len(m_data) THEN m_data[at + i] ELSE Wild
    BY <1>2
<1>4. \A i \in 1 .. n : t[i] \in Byte
    <2> SUFFICES ASSUME NEW i \in 1 .. n PROVE t[i] \in Byte
        OBVIOUS
    <2>1. CASE at + i <= Len(m_data)
        <3>1. at + i \in 1 .. Len(m_data)
            BY <1>1, <2>1
        <3> QED BY <1>1, <1>3, <2>1, <3>1
    <2>2. CASE ~(at + i <= Len(m_data))
        BY <1>3, <2>2, BytesInByte
    <2> QED BY <2>1, <2>2
<1>5. t = [i \in 1 .. n |-> t[i]]
    BY <1>2, <1>3
<1>6. t \in Seq(Byte) /\ Len(t) = n
    BY <1>4, <1>5, FunIsSeq
<1> QED BY <1>3, <1>5, <1>6 DEF t

-----------------------------------------------------------------------------
(* What StreamSound says of item k. *)
ItemSound(k) ==
    /\ written[k].at = IF k = 1 THEN 0 ELSE End(k - 1)
    /\ End(k) <= m_length
    /\ \A o \in 1 .. Extent(written[k].kind, written[k].n) :
          m_data[written[k].at + o] = Bytes(k, written[k].kind, written[k].n)[o]

LEMMA StreamItems ==
    StreamSound <=> /\ \A k \in 1 .. Len(written) : ItemSound(k)
                    /\ m_length = IF written = <<>> THEN 0 ELSE End(Len(written))
BY DEF StreamSound, ItemSound

LEMMA TypeFacts ==
    ASSUME TypeOK
    PROVE  /\ m_data \in Seq(Byte) /\ Len(m_data) \in Nat
           /\ m_length \in Nat /\ m_length <= Len(m_data) /\ m_index \in Nat
           /\ written \in Seq(Item) /\ Len(written) \in Nat
           /\ written = <<>> <=> Len(written) = 0
           /\ reads \in Nat /\ reads <= Len(written)
           /\ \A k \in 1 .. Len(written) :
                 /\ written[k] \in Item /\ written[k].at \in Nat /\ written[k].n \in Nat
                 /\ written[k].kind \in Kinds
                 /\ Extent(written[k].kind, written[k].n) \in Nat
                 /\ End(k) \in Nat /\ written[k].at <= End(k)
<1>1. /\ m_data \in Seq(Byte) /\ Len(m_data) \in Nat
      /\ written \in Seq(Item) /\ Len(written) \in Nat
    BY LenProperties DEF TypeOK
<1>2. /\ m_length \in Nat /\ m_length <= Len(m_data) /\ m_index \in Nat
      /\ reads \in Nat /\ reads <= Len(written)
    BY <1>1 DEF TypeOK
<1>3. written = <<>> <=> Len(written) = 0
    BY <1>1, EmptySeq
<1>4. ASSUME NEW k \in 1 .. Len(written)
      PROVE  /\ written[k] \in Item /\ written[k].at \in Nat /\ written[k].n \in Nat
             /\ written[k].kind \in Kinds
             /\ Extent(written[k].kind, written[k].n) \in Nat
             /\ End(k) \in Nat /\ written[k].at <= End(k)
    <2>1. written[k] \in Item
        BY <1>1, ElementOfSeq
    <2>2. written[k].at \in Nat /\ written[k].n \in Nat /\ written[k].kind \in Kinds
        BY <2>1 DEF Item
    <2>3. Extent(written[k].kind, written[k].n) \in Nat
        BY <2>2 DEF Extent
    <2> QED BY <2>1, <2>2, <2>3 DEF End
<1> QED BY <1>1, <1>2, <1>3, <1>4

LEMMA ConstantFacts ==
    /\ Sizes \subseteq Nat /\ SIZE_T \in Nat \ {0} /\ NDEBUG \in BOOLEAN /\ INT \in Nat \ {0}
BY PacketAssumption, IntAssumption

(* Appending leaves what was appended before alone. *)
LEMMA AppendIInv ==
    ASSUME IInv, NEW kind \in Kinds, NEW n \in Sizes, append(kind, n)
    PROVE  IInv'
<1> DEFINE k0 == Len(written) + 1
           b  == Bytes(k0, kind, n)
           e  == Extent(kind, n)
           it == [kind |-> kind, n |-> n, at |-> m_length]
<1>1. /\ m_data' = Store(m_data, m_length, b)
      /\ m_length' = m_length + Len(b)
      /\ Fits(m_length + Len(b))
      /\ written' = Append(written, it)
      /\ proc' \in {"running", "crashed"}
      /\ m_index' = m_index /\ reads' = reads /\ instep' = instep /\ out' = out
    BY DEF append
<1>2. TypeOK /\ StreamSound /\ DataAppended /\ CursorInStep
    BY DEF IInv
<1>3. /\ m_data \in Seq(Byte) /\ Len(m_data) \in Nat
      /\ m_length \in Nat /\ m_length <= Len(m_data) /\ m_index \in Nat
      /\ written \in Seq(Item) /\ Len(written) \in Nat /\ k0 \in Nat \ {0}
      /\ written = <<>> <=> Len(written) = 0
      /\ reads \in Nat /\ reads <= Len(written)
      /\ n \in Nat
    BY <1>2, TypeFacts, ConstantFacts
<1>4. /\ e \in Nat /\ b \in Seq(Byte) /\ Len(b) = e
      /\ \A o \in 1 .. e : b[o] \notin {Wild, Zero}
    BY <1>3, BytesProperties
<1>5. it \in Item
    BY <1>3 DEF Item
<1> HIDE DEF b, e, it
<1>6. /\ m_data' \in Seq(Byte)
      /\ Len(m_data') = IF Len(m_data) < m_length + e THEN m_length + e ELSE Len(m_data)
      /\ \A o \in 1 .. e : m_data'[m_length + o] = b[o]
      /\ \A i \in 1 .. m_length : m_data'[i] = m_data[i]
    <2>1. /\ m_data' \in Seq(Byte)
          /\ Len(m_data') = IF Len(m_data) < m_length + Len(b) THEN m_length + Len(b) ELSE Len(m_data)
          /\ \A o \in 1 .. Len(b) : m_data'[m_length + o] = b[o]
          /\ \A i \in 1 .. Len(m_data) : i <= m_length => m_data'[i] = m_data[i]
        <3> DEFINE t == Store(m_data, m_length, b)
        <3>1. /\ t \in Seq(Byte)
              /\ Len(t) = IF Len(m_data) < m_length + Len(b) THEN m_length + Len(b) ELSE Len(m_data)
              /\ \A o \in 1 .. Len(b) : t[m_length + o] = b[o]
              /\ \A i \in 1 .. Len(m_data) : i <= m_length => t[i] = m_data[i]
            <4>1. m_data \in Seq(Byte) /\ m_length \in Nat /\ b \in Seq(Byte)
                BY <1>3, <1>4
            <4> QED BY <4>1, StoreProperties
        <3>2. m_data' = t
            BY <1>1
        <3> HIDE DEF t
        <3> QED BY <3>1, <3>2
    <2> QED BY <1>3, <1>4, <2>1
<1>7. /\ written' \in Seq(Item) /\ Len(written') = k0
      /\ \A k \in 1 .. Len(written) : written'[k] = written[k]
      /\ written'[k0] = it
    BY <1>1, <1>3, <1>5, AppendProperties
<1>8. m_length' \in Nat /\ m_length' = m_length + e /\ m_length' <= Len(m_data')
    BY <1>1, <1>3, <1>4, <1>6
<1>9. TypeOK'
    <2>1. m_length' \in 0 .. Len(m_data')
        BY <1>3, <1>4, <1>6, <1>8
    <2>2. reads' \in 0 .. Len(written')
        BY <1>1, <1>3, <1>7
    <2> QED BY <1>1, <1>2, <1>6, <1>7, <2>1, <2>2 DEF TypeOK
<1>10. \A k \in 1 .. Len(written) : End(k)' = End(k)
    BY <1>7 DEF End
<1>11. PICK m \in Nat : m = k0
    BY <1>3
<1>12. End(m)' = m_length'
    <2>1. it.at = m_length /\ it.kind = kind /\ it.n = n
        BY DEF it
    <2> QED BY <1>7, <1>8, <1>11, <2>1 DEF End, e
<1>13. \A k \in 1 .. Len(written) : ItemSound(k)
    BY <1>2, StreamItems
<1>14. ASSUME NEW k \in 1 .. Len(written) PROVE ItemSound(k)'
    <2>1. k \in Nat /\ (k = 1 \/ k - 1 \in 1 .. Len(written))
        BY <1>3
    <2>2. written'[k].at = IF k = 1 THEN 0 ELSE End(k - 1)'
        BY <1>7, <1>10, <1>13, <2>1 DEF ItemSound
    <2>3. End(k)' <= m_length'
        <3>1. End(k) <= m_length /\ End(k) \in Nat
            BY <1>2, <1>13, TypeFacts DEF ItemSound
        <3> QED BY <1>3, <1>4, <1>8, <1>10, <3>1
    <2>4. ASSUME NEW o \in 1 .. Extent(written'[k].kind, written'[k].n)
          PROVE  m_data'[written'[k].at + o] = Bytes(k, written'[k].kind, written'[k].n)[o]
        <3>1. /\ written'[k] = written[k]
              /\ End(k) <= m_length
              /\ End(k) = written[k].at + Extent(written[k].kind, written[k].n)
              /\ written[k].at \in Nat /\ Extent(written[k].kind, written[k].n) \in Nat
            BY <1>2, <1>7, <1>13, TypeFacts DEF ItemSound, End
        <3>2. written[k].at + o \in 1 .. m_length
            BY <1>3, <2>4, <3>1
        <3>3. m_data'[written[k].at + o] = m_data[written[k].at + o]
            BY <1>6, <3>2
        <3>4. o \in 1 .. Extent(written[k].kind, written[k].n)
            BY <2>4, <3>1
        <3>5. m_data[written[k].at + o] = Bytes(k, written[k].kind, written[k].n)[o]
            BY <1>13, <3>4 DEF ItemSound
        <3> QED BY <3>1, <3>3, <3>5
    <2> QED BY <2>2, <2>3, <2>4 DEF ItemSound
<1>15. ItemSound(m)'
    <2>1. written'[m].at = m_length /\ written'[m].kind = kind /\ written'[m].n = n
        BY <1>7, <1>11 DEF it
    <2>2. m_length = IF m = 1 THEN 0 ELSE End(m - 1)
        <3>1. m_length = IF written = <<>> THEN 0 ELSE End(Len(written))
            BY <1>2, StreamItems
        <3>2. m - 1 = Len(written) /\ (m = 1 <=> Len(written) = 0)
            BY <1>3, <1>11
        <3> QED BY <1>3, <3>1, <3>2
    <2>3. m = 1 \/ (m - 1 \in 1 .. Len(written) /\ End(m - 1)' = End(m - 1))
        BY <1>3, <1>10, <1>11
    <2>4. written'[m].at = IF m = 1 THEN 0 ELSE End(m - 1)'
        BY <2>1, <2>2, <2>3
    <2>5. End(m)' <= m_length'
        BY <1>8, <1>12
    <2>6. \A o \in 1 .. Extent(kind, n) : m_data'[m_length + o] = Bytes(m, kind, n)[o]
        BY <1>6, <1>11 DEF e, b
    <2> QED BY <2>1, <2>4, <2>5, <2>6 DEF ItemSound
<1>16. StreamSound'
    <2>1. \A k \in 1 .. Len(written') : ItemSound(k)'
        <3>1. \A k \in 1 .. Len(written') : k \in 1 .. Len(written) \/ k = m
            BY <1>3, <1>7, <1>11
        <3> QED BY <1>14, <1>15, <3>1
    <2>2. m_length' = (IF written = <<>> THEN 0 ELSE End(Len(written)))'
        <3>1. Len(written') = m /\ written' # <<>>
            BY <1>3, <1>7, <1>11
        <3> QED BY <1>12, <3>1 DEF End
    <2>3. StreamSound' <=> /\ \A k \in 1 .. Len(written') : ItemSound(k)'
                           /\ m_length' = (IF written = <<>> THEN 0 ELSE End(Len(written)))'
        BY DEF StreamSound, ItemSound
    <2> QED BY <2>1, <2>2, <2>3
<1>17. DataAppended'
    <2>1. Fits(Len(m_data'))
        BY <1>1, <1>2, <1>3, <1>4, <1>6 DEF DataAppended
    <2>2. ASSUME NEW i \in 1 .. m_length' PROVE m_data'[i] \notin {Wild, Zero}
        <3>1. CASE i <= m_length
            BY <1>2, <1>3, <1>6, <1>8, <3>1 DEF DataAppended
        <3>2. CASE i > m_length
            <4>1. i - m_length \in 1 .. e /\ m_length + (i - m_length) = i
                BY <1>3, <1>4, <1>8, <3>2
            <4> QED BY <1>4, <1>6, <4>1
        <3> QED BY <1>3, <1>8, <3>1, <3>2
    <2> QED BY <2>1, <2>2 DEF DataAppended
<1>18. CursorInStep'
    <2>1. PICK r \in Nat : r = reads
        BY <1>3
    <2>2. r = 0 \/ End(r)' = End(r)
        BY <1>3, <1>10, <2>1
    <2>3. reads' = r /\ m_index' = m_index /\ instep' = instep
        BY <1>1, <2>1
    <2>4. instep' => m_index' = IF r = 0 THEN 0 ELSE End(r)'
        BY <1>2, <2>1, <2>2, <2>3 DEF CursorInStep
    <2> QED BY <2>3, <2>4 DEF CursorInStep, End
<1> QED BY <1>9, <1>16, <1>17, <1>18 DEF IInv

(* What depends on the data alone. *)
LEMMA DataSame ==
    ASSUME UNCHANGED <<m_data, m_length, written>>
    PROVE  /\ StreamSound => StreamSound'
           /\ DataAppended => DataAppended'
           /\ \A k : End(k)' = End(k)
BY DEF StreamSound, DataAppended, End

(* A reader in step that asks for the next thing finds it at its cursor. *)
LEMMA NextItem ==
    ASSUME IInv, instep, NEW kind, NEW n, Matches(kind, n)
    PROVE  LET e == Extent(kind, n) IN
           /\ reads + 1 \in 1 .. Len(written)
           /\ kind \in Kinds /\ n \in Nat /\ e \in Nat
           /\ End(reads + 1) = m_index + e
           /\ m_index + e <= m_length
           /\ \A o \in 1 .. e : m_data[m_index + o] = Bytes(reads + 1, kind, n)[o]
<1> DEFINE k == reads + 1
           e == Extent(kind, n)
<1>1. TypeOK /\ StreamSound /\ CursorInStep
    BY DEF IInv
<1>2. /\ reads < Len(written) /\ written[k].kind = kind /\ written[k].n = n
    BY DEF Matches
<1>3. k \in 1 .. Len(written) /\ reads \in Nat /\ (k = 1 <=> reads = 0) /\ k - 1 = reads
    BY <1>1, <1>2, TypeFacts
<1> HIDE DEF k
<1>4. /\ kind \in Kinds /\ n \in Nat /\ e \in Nat /\ written[k].at \in Nat
      /\ End(k) = written[k].at + e
    BY <1>1, <1>2, <1>3, TypeFacts DEF End
<1>5. ItemSound(k)
    BY <1>1, <1>3, StreamItems
<1>6. written[k].at = m_index
    BY <1>1, <1>3, <1>5 DEF ItemSound, CursorInStep
<1>7. /\ End(k) <= m_length
      /\ \A o \in 1 .. e : m_data[written[k].at + o] = Bytes(k, kind, n)[o]
    BY <1>2, <1>5 DEF ItemSound
<1> QED BY <1>3, <1>4, <1>6, <1>7 DEF k

(* The common end of the reads at the cursor. *)
LEMMA DoneIInv ==
    ASSUME IInv, NEW kind \in Kinds, NEW n \in Nat, NEW r \in 0 .. 2,
           NEW len \in Nat, NEW step \in Nat, Done(kind, n, r, len, step),
           instep /\ Matches(kind, n) =>
               IF r = 0 THEN step = Extent(kind, n) ELSE Extent(kind, n) = 0
    PROVE  IInv'
<1> DEFINE d == IF r = 0 THEN Copy(m_index, len) ELSE <<>>
           in == instep /\ Matches(kind, n)
<1>1. /\ m_index' = IF r = 0 THEN m_index + step ELSE m_index
      /\ out' = [kind |-> kind, n |-> n, r |-> r, data |-> d]
      /\ instep' = in
      /\ reads' = IF in THEN reads + 1 ELSE reads
      /\ proc' \in {"running", "crashed"}
      /\ UNCHANGED <<m_data, m_length, written>>
    BY DEF Done
<1>2. TypeOK /\ StreamSound /\ DataAppended /\ CursorInStep
    BY DEF IInv
<1>3. /\ m_data \in Seq(Byte) /\ m_index \in Nat /\ reads \in Nat /\ reads <= Len(written)
      /\ Len(written) \in Nat
    BY <1>2, TypeFacts
<1>4. d \in Seq(Byte)
    BY <1>3, CopyProperties, EmptySeq
<1>5. in \in BOOLEAN
    BY <1>2 DEF TypeOK, Matches
<1>6. in => /\ reads + 1 \in 1 .. Len(written)
            /\ Extent(kind, n) \in Nat
            /\ End(reads + 1) = m_index + Extent(kind, n)
    BY NextItem
<1>7. in => m_index' = m_index + Extent(kind, n)
    BY <1>1, <1>3, <1>6
<1> HIDE DEF d, in
<1>8. TypeOK'
    <2>1. out' \in [kind : Kinds \cup {"field", "body"}, n : Nat, r : 0 .. 2, data : Seq(Byte)]
        BY <1>1, <1>4
    <2>2. m_index' \in Nat /\ reads' \in 0 .. Len(written)
        BY <1>1, <1>3, <1>6
    <2> QED BY <1>1, <1>2, <1>5, <2>1, <2>2 DEF TypeOK
<1>9. CursorInStep'
    <2> SUFFICES ASSUME in PROVE m_index' = (IF reads = 0 THEN 0 ELSE End(reads))'
        BY <1>1 DEF CursorInStep
    <2>1. PICK k \in Nat : k = reads + 1
        BY <1>3
    <2>2. reads' = k /\ k # 0 /\ End(k)' = End(k)
        BY <1>1, <1>3, <2>1, DataSame
    <2>3. m_index' = End(k)'
        BY <1>6, <1>7, <2>1, <2>2
    <2> QED BY <2>2, <2>3 DEF End
<1> QED BY <1>1, <1>2, <1>8, <1>9, DataSame DEF IInv

(* A read at the cursor of the matching length, with the result the code computes. *)
LEMMA InStepResult ==
    ASSUME IInv, NEW n \in Nat
    PROVE  /\ instep /\ Matches("bytes", n) =>
                 LET r == IF m_index >= m_length THEN 1
                          ELSE IF n > m_length \/ m_index + n > m_length THEN 2 ELSE 0
                 IN  IF r = 0 THEN n = Extent("bytes", n) ELSE Extent("bytes", n) = 0
           /\ instep /\ Matches("string", n) =>
                 LET r == IF m_index > m_length THEN 1
                          ELSE IF n > m_length \/ m_index + n > m_length THEN 2 ELSE 0
                 IN  r = 0 /\ n + 1 = Extent("string", n)
           /\ instep /\ Matches("value", n) =>
                 n = Extent("value", n) /\ n <= (m_length - m_index) % SIZE_T
<1>1. /\ m_index \in Nat /\ m_length \in Nat /\ Len(m_data) \in Nat /\ m_length <= Len(m_data)
      /\ SIZE_T \in Nat \ {0} /\ 2 * Len(m_data) <= SIZE_T
    BY TypeFacts, ConstantFacts DEF IInv, DataAppended, Fits
<1>2. Extent("bytes", n) = n /\ Extent("string", n) = n + 1 /\ Extent("value", n) = n
    BY DEF Extent
<1>3. ASSUME instep, Matches("bytes", n) PROVE m_index + n <= m_length
    <2>1. m_index + Extent("bytes", n) <= m_length
        BY <1>3, NextItem
    <2> QED BY <1>2, <2>1
<1>4. ASSUME instep, Matches("string", n) PROVE m_index + (n + 1) <= m_length
    <2>1. m_index + Extent("string", n) <= m_length
        BY <1>4, NextItem
    <2> QED BY <1>2, <2>1
<1>5. ASSUME instep, Matches("value", n) PROVE n <= (m_length - m_index) % SIZE_T
    <2>1. m_index + Extent("value", n) <= m_length
        BY <1>5, NextItem
    <2>2. m_length - m_index \in Nat /\ n <= m_length - m_index /\ m_length - m_index < SIZE_T
        BY <1>1, <1>2, <2>1
    <2> QED BY <1>1, <2>2, ModSmall
<1> QED BY <1>1, <1>2, <1>3, <1>4, <1>5

LEMMA ReadIInv ==
    ASSUME IInv, NEW n \in Sizes, ReadValue(n) \/ ReadBytes(n) \/ ReadString(n)
    PROVE  IInv'
<1>1. n \in Nat /\ n + 1 \in Nat /\ "value" \in Kinds /\ "bytes" \in Kinds /\ "string" \in Kinds
    BY ConstantFacts DEF Kinds
<1>2. CASE ReadBytes(n)
    <2> DEFINE r == IF m_index >= m_length THEN 1
                    ELSE IF n > m_length \/ m_index + n > m_length THEN 2 ELSE 0
    <2>1. r \in 0 .. 2 /\ Done("bytes", n, r, n, n)
        BY <1>2 DEF ReadBytes
    <2>2. instep /\ Matches("bytes", n) =>
              IF r = 0 THEN n = Extent("bytes", n) ELSE Extent("bytes", n) = 0
        BY <1>1, InStepResult
    <2> HIDE DEF r
    <2> QED BY <1>1, <2>1, <2>2, DoneIInv
<1>3. CASE ReadString(n)
    <2> DEFINE r == IF m_index > m_length THEN 1
                    ELSE IF n > m_length \/ m_index + n > m_length THEN 2 ELSE 0
    <2>1. r \in 0 .. 2 /\ Done("string", n, r, n + 1, n + 1)
        BY <1>3 DEF ReadString
    <2>2. instep /\ Matches("string", n) => r = 0 /\ n + 1 = Extent("string", n)
        BY <1>1, InStepResult
    <2>3. instep /\ Matches("string", n) =>
              IF r = 0 THEN n + 1 = Extent("string", n) ELSE Extent("string", n) = 0
        BY <2>2
    <2> HIDE DEF r
    <2> QED BY <1>1, <2>1, <2>3, DoneIInv
<1>4. CASE ReadValue(n)
    <2>1. CASE Done("value", n, 0, n, n)
        <3>1. instep /\ Matches("value", n) =>
                  IF 0 = 0 THEN n = Extent("value", n) ELSE Extent("value", n) = 0
            BY <1>1, InStepResult
        <3> QED BY <1>1, <2>1, <3>1, DoneIInv
    <2>2. CASE ~Done("value", n, 0, n, n)
        <3>1. /\ ~(NDEBUG \/ n <= (m_length - m_index) % SIZE_T)
              /\ proc' = "assert" /\ instep' = (instep /\ Matches("value", n))
              /\ UNCHANGED <<m_data, m_length, m_index, written, reads, out>>
            BY <1>4, <2>2 DEF ReadValue
        <3>2. ~instep'
            BY <1>1, <3>1, InStepResult, Zenon
        <3>3. instep' \in BOOLEAN
            BY <3>1 DEF Matches
        <3> QED BY <3>1, <3>2, <3>3, DataSame DEF IInv, TypeOK, CursorInStep
    <2> QED BY <2>1, <2>2
<1> QED BY <1>2, <1>3, <1>4

LEMMA ResizeIInv ==
    ASSUME IInv, NEW n \in Sizes, Resize(n)
    PROVE  IInv'
<1>1. /\ m_data' = Store(m_data, n, <<>>) /\ Len(m_data) < n /\ Fits(n)
      /\ UNCHANGED <<m_length, m_index, proc, written, reads, instep, out>>
    BY DEF Resize
<1>2. TypeOK /\ StreamSound /\ DataAppended /\ CursorInStep
    BY DEF IInv
<1>3. /\ m_data \in Seq(Byte) /\ Len(m_data) \in Nat /\ n \in Nat
      /\ m_length \in Nat /\ m_length <= Len(m_data)
    BY <1>2, TypeFacts, ConstantFacts
<1>4. /\ m_data' \in Seq(Byte) /\ Len(m_data') = n
      /\ \A i \in 1 .. m_length : m_data'[i] = m_data[i]
    <2> DEFINE e == <<>>
               t == Store(m_data, n, e)
    <2>1. e \in Seq(Byte) /\ Len(e) = 0
        BY EmptySeq
    <2>2. m_data' = t
        BY <1>1
    <2> HIDE DEF e
    <2>3. /\ t \in Seq(Byte)
          /\ Len(t) = IF Len(m_data) < n + Len(e) THEN n + Len(e) ELSE Len(m_data)
          /\ \A i \in 1 .. Len(m_data) : i <= n => t[i] = m_data[i]
        <3>1. m_data \in Seq(Byte) /\ n \in Nat /\ e \in Seq(Byte)
            BY <1>3, <2>1
        <3> QED BY <3>1, StoreProperties
    <2> HIDE DEF t
    <2> QED BY <1>1, <1>3, <2>1, <2>2, <2>3
<1>5. TypeOK'
    BY <1>1, <1>2, <1>3, <1>4 DEF TypeOK
<1>6. ASSUME NEW k \in 1 .. Len(written) PROVE ItemSound(k)'
    <2>1. ItemSound(k) /\ End(k)' = End(k) /\ End(k - 1)' = End(k - 1) /\ written'[k] = written[k]
        BY <1>1, <1>2, StreamItems DEF End
    <2>2. /\ End(k) = written[k].at + Extent(written[k].kind, written[k].n)
          /\ written[k].at \in Nat /\ Extent(written[k].kind, written[k].n) \in Nat
        BY <1>2, TypeFacts DEF End
    <2>3. \A o \in 1 .. Extent(written[k].kind, written[k].n) : written[k].at + o \in 1 .. m_length
        BY <1>3, <2>1, <2>2 DEF ItemSound
    <2> QED BY <1>1, <1>4, <2>1, <2>3 DEF ItemSound
<1>7. StreamSound'
    <2>1. m_length' = (IF written = <<>> THEN 0 ELSE End(Len(written)))'
        BY <1>1, <1>2, StreamItems DEF End
    <2> QED BY <1>1, <1>6, <2>1 DEF StreamSound, ItemSound
<1>8. DataAppended'
    BY <1>1, <1>2, <1>4 DEF DataAppended
<1>9. CursorInStep'
    BY <1>1, <1>2 DEF CursorInStep, End
<1> QED BY <1>5, <1>7, <1>8, <1>9 DEF IInv

LEMMA ClearIInv ==
    ASSUME IInv, Clear
    PROVE  IInv'
<1>1. /\ m_data' = <<>> /\ m_length' = 0 /\ written' = <<>> /\ reads' = 0
      /\ instep' = (m_index = 0) /\ UNCHANGED <<m_index, proc, out>>
    BY DEF Clear
<1>2. /\ <<>> \in Seq(Byte) /\ <<>> \in Seq(Item) /\ Len(<<>>) = 0
    BY EmptySeq
<1>3. TypeOK'
    BY <1>1, <1>2 DEF IInv, TypeOK
<1>4. StreamSound'
    BY <1>1, <1>2 DEF StreamSound
<1>5. DataAppended'
    BY <1>1, <1>2, ConstantFacts DEF DataAppended, Fits
<1>6. CursorInStep'
    BY <1>1, Zenon DEF CursorInStep
<1> QED BY <1>3, <1>4, <1>5, <1>6 DEF IInv

LEMMA HeadFacts ==
    ASSUME NEW f \in Fields
    PROVE  Offset(f) \in Nat /\ SizeOf(f) \in Nat /\ Offset(f) + SizeOf(f) <= PACKET_HEAD_LENGTH
BY ConstantFacts DEF Fields, Offset, SizeOf, PACKET_ID_OFFSET, PACKET_VERSION_OFFSET,
    PACKET_TIMESTAMP_OFFSET, PACKET_BODY_LENGTH_OFFSET, PACKET_EXTRA_OFFSET, PACKET_HEAD_LENGTH

LEMMA ReadAtIInv ==
    ASSUME IInv, NEW kind \in {"field", "body"}, NEW n \in Nat, NEW at \in Nat, NEW len \in Nat,
           ReadAt(kind, n, 0, at, len)
    PROVE  IInv'
<1>1. /\ out' = [kind |-> kind, n |-> n, r |-> 0, data |-> Copy(at, len)]
      /\ proc' \in {"running", "crashed"}
      /\ UNCHANGED <<m_data, m_length, m_index, written, reads, instep>>
    BY DEF ReadAt
<1>2. TypeOK /\ StreamSound /\ DataAppended /\ CursorInStep
    BY DEF IInv
<1>3. Copy(at, len) \in Seq(Byte)
    BY <1>2, TypeFacts, CopyProperties
<1>4. out' \in [kind : Kinds \cup {"field", "body"}, n : Nat, r : 0 .. 2, data : Seq(Byte)]
    BY <1>1, <1>3
<1>5. TypeOK'
    BY <1>1, <1>2, <1>4 DEF TypeOK
<1>6. CursorInStep'
    BY <1>1, <1>2 DEF CursorInStep, End
<1> QED BY <1>1, <1>2, <1>5, <1>6, DataSame DEF IInv

LEMMA FieldBodyIInv ==
    ASSUME IInv, (\E f \in Fields : Field(f)) \/ (\E n \in Sizes : Body(n))
    PROVE  IInv'
<1>1. ASSUME NEW f \in Fields, Field(f) PROVE IInv'
    <2>1. Offset(f) \in Nat /\ SizeOf(f) \in Nat
        BY HeadFacts
    <2>2. CASE ReadAt("field", SizeOf(f), 0, 0, 0)
        BY <2>1, <2>2, ReadAtIInv
    <2>3. CASE ReadAt("field", SizeOf(f), 0, Offset(f), SizeOf(f))
        BY <2>1, <2>3, ReadAtIInv
    <2>4. CASE /\ proc' = "assert"
               /\ UNCHANGED <<m_data, m_length, m_index, written, reads, instep, out>>
        BY <2>4, DataSame DEF IInv, TypeOK, CursorInStep, End
    <2> QED BY <1>1, <2>2, <2>3, <2>4 DEF Field
<1>2. ASSUME NEW n \in Sizes, Body(n) PROVE IInv'
    <2>1. n \in Nat /\ PACKET_BODY_OFFSET \in Nat /\ n + 1 \in Nat
        BY ConstantFacts DEF PACKET_BODY_OFFSET
    <2>2. CASE ReadAt("body", 0, 0, 0, 0)
        BY <2>2, ReadAtIInv
    <2>3. CASE ReadAt("body", n, 0, PACKET_BODY_OFFSET, n + 1)
        BY <2>1, <2>3, ReadAtIInv
    <2> QED BY <1>2, <2>2, <2>3 DEF Body
<1> QED BY <1>1, <1>2

LEMMA InitIInv == Init => IInv
<1> SUFFICES ASSUME Init PROVE IInv
    OBVIOUS
<1> DEFINE nothing == [kind |-> "bytes", n |-> 0, r |-> 0, data |-> <<>>]
<1>1. /\ m_length = Len(m_data) /\ proc = "running" /\ reads = 0 /\ instep = (m_index = 0)
      /\ out = nothing
    BY DEF Init
<1>2. /\ <<>> \in Seq(Byte) /\ <<>> \in Seq(Item) /\ Len(<<>>) = 0
    BY EmptySeq
<1>3. nothing \in [kind : Kinds \cup {"field", "body"}, n : Nat, r : 0 .. 2, data : Seq(Byte)]
    BY <1>2 DEF Kinds
<1> HIDE DEF nothing
<1>4. CursorInStep
    BY <1>1, Zenon DEF CursorInStep
<1>5. CASE m_data = <<>> /\ written = <<>> /\ m_index = 0
    <2>1. TypeOK
        BY <1>1, <1>2, <1>3, <1>5 DEF TypeOK
    <2>2. StreamSound
        BY <1>1, <1>2, <1>5 DEF StreamSound
    <2>3. DataAppended
        BY <1>1, <1>2, <1>5, ConstantFacts DEF DataAppended, Fits
    <2> QED BY <1>4, <2>1, <2>2, <2>3 DEF IInv
<1>6. ASSUME NEW n \in Sizes, Fits(n + 1), m_data = Bytes(1, "string", n),
             written = <<[kind |-> "string", n |-> n, at |-> 0]>>, m_index \in 0 .. MaxIndex
      PROVE  IInv
    <2> DEFINE it == [kind |-> "string", n |-> n, at |-> 0]
    <2>1. n \in Nat /\ Extent("string", n) = n + 1 /\ m_index \in Nat
        BY <1>6, ConstantFacts, PacketAssumption DEF Extent
    <2>2. /\ m_data \in Seq(Byte) /\ Len(m_data) = n + 1
          /\ \A o \in 1 .. n + 1 : m_data[o] \notin {Wild, Zero}
        <3>1. 1 \in Nat \ {0}
            OBVIOUS
        <3> QED BY <1>6, <2>1, <3>1, BytesProperties, Zenon
    <2>3. it \in Item /\ it.kind = "string" /\ it.n = n /\ it.at = 0
        BY <2>1 DEF Item, Kinds
    <2>4. written = <<it>>
        BY <1>6
    <2> HIDE DEF it
    <2>5. written \in Seq(Item) /\ Len(written) = 1 /\ written[1] = it /\ written # <<>>
        BY <2>3, <2>4
    <2>6. TypeOK
        BY <1>1, <1>3, <2>1, <2>2, <2>5 DEF TypeOK
    <2>7. StreamSound
        <3>1. End(1) = n + 1
            BY <2>1, <2>3, <2>5 DEF End
        <3>2. \A k \in 1 .. Len(written) : k = 1
            BY <2>5
        <3>3. \A o \in 1 .. n + 1 : 0 + o = o
            OBVIOUS
        <3>4. ItemSound(1)
            BY <1>1, <1>6, <2>1, <2>2, <2>3, <2>5, <3>1, <3>3 DEF ItemSound
        <3> QED BY <1>1, <2>2, <2>5, <3>1, <3>2, <3>4, StreamItems
    <2>8. DataAppended
        BY <1>1, <1>6, <2>2 DEF DataAppended
    <2> QED BY <1>4, <2>6, <2>7, <2>8 DEF IInv
<1> QED BY <1>5, <1>6 DEF Init

LEMMA NextIInv == IInv /\ [Next]_vars => IInv'
<1> SUFFICES ASSUME IInv, [Next]_vars PROVE IInv'
    OBVIOUS
<1>1. CASE UNCHANGED vars
    BY <1>1, DataSame DEF vars, IInv, TypeOK, CursorInStep, End
<1>2. "value" \in Kinds /\ "bytes" \in Kinds /\ "string" \in Kinds
    BY DEF Kinds
<1>3. CASE \/ \E n \in Sizes : n > 0 /\ append("value", n)
           \/ \E kind \in {"bytes", "string"}, n \in Sizes : append(kind, n)
    BY <1>2, <1>3, AppendIInv
<1> QED BY <1>1, <1>3, ResizeIInv, ClearIInv, ReadIInv, FieldBodyIInv DEF Next

LEMMA Invariance == Spec => []IInv
BY InitIInv, NextIInv, PTL DEF Spec

-----------------------------------------------------------------------------
(* The data never outgrows the vector, and every read has a documented result. *)
THEOREM TypeCorrect == Spec => []TypeOK
BY Invariance, PTL DEF IInv

(***************************************************************************)
(* What memorystream::append put into the vector stays there, one thing    *)
(* right behind the other up to m_length, for any sizes and any number of  *)
(* appends, resizes and reads, until clear().                              *)
(***************************************************************************)
THEOREM StreamIsSound == Spec => []StreamSound
BY Invariance, PTL DEF IInv

(***************************************************************************)
(* packet's read functions called in the order of the appends keep the     *)
(* cursor where the next thing begins, and the assertion in read<T>(),     *)
(* with its unsigned subtraction, does not fail them.                      *)
(***************************************************************************)
THEOREM ReaderStaysInStep == Spec => []RoundTrip
<1>1. IInv => RoundTrip
    <2> SUFFICES ASSUME IInv, instep PROVE RoundTrip
        BY DEF RoundTrip
    <2>1. m_index = IF reads = 0 THEN 0 ELSE End(reads)
        BY DEF IInv, CursorInStep
    <2>2. \A n \in Sizes : Matches("value", n) => n <= (m_length - m_index) % SIZE_T
        BY InStepResult, ConstantFacts
    <2> QED BY <2>1, <2>2 DEF RoundTrip
<1> QED BY <1>1, Invariance, PTL

(* A read at the cursor that is in step returns the bytes that were appended. *)
LEMMA DoneBack ==
    ASSUME IInv, NEW kind \in Kinds, NEW n \in Nat, NEW r \in 0 .. 2,
           NEW len \in Nat, NEW step \in Nat, Done(kind, n, r, len, step), reads' > reads,
           instep /\ Matches(kind, n) =>
               IF r = 0 THEN len = Extent(kind, n) ELSE Extent(kind, n) = 0
    PROVE  out'.data = Bytes(reads', written[reads'].kind, written[reads'].n)
<1>1. /\ out' = [kind |-> kind, n |-> n, r |-> r,
                 data |-> IF r = 0 THEN Copy(m_index, len) ELSE <<>>]
      /\ reads' = IF instep /\ Matches(kind, n) THEN reads + 1 ELSE reads
    BY DEF Done
<1>2. /\ m_data \in Seq(Byte) /\ m_index \in Nat /\ reads \in Nat
      /\ m_length \in Nat /\ Len(m_data) \in Nat /\ m_length <= Len(m_data)
    BY TypeFacts DEF IInv
<1>3. instep /\ Matches(kind, n) /\ reads' = reads + 1
    BY <1>1, <1>2
<1> DEFINE e == Extent(kind, n)
           b == Bytes(reads + 1, kind, n)
           c == Copy(m_index, e)
<1>4. /\ e \in Nat /\ m_index + e <= m_length
      /\ \A o \in 1 .. e : m_data[m_index + o] = b[o]
    BY <1>3, NextItem
<1>5. b = [o \in 1 .. e |-> b[o]] /\ b \in Seq(Byte) /\ Len(b) = e
    <2>1. reads + 1 \in Nat \ {0}
        BY <1>2
    <2> QED BY <2>1, BytesProperties
<1>6. written[reads + 1].kind = kind /\ written[reads + 1].n = n
    BY <1>3 DEF Matches
<1>7. out'.data = IF r = 0 THEN Copy(m_index, len) ELSE <<>>
    BY <1>1
<1>8. CASE r = 0
    <2>1. /\ c = [i \in 1 .. e |-> c[i]]
          /\ \A i \in 1 .. e : m_index + i <= Len(m_data) => c[i] = m_data[m_index + i]
        BY <1>2, <1>4, CopyProperties
    <2> HIDE DEF b, c, e
    <2>2. \A i \in 1 .. e : c[i] = b[i]
        <3>1. \A i \in 1 .. e : m_index + i <= Len(m_data)
            BY <1>2, <1>4
        <3> QED BY <1>4, <2>1, <3>1, Zenon
    <2>3. c = b
        BY <1>5, <2>1, <2>2
    <2>4. out'.data = c
        BY <1>3, <1>7, <1>8 DEF c, e
    <2> QED BY <1>3, <1>6, <2>3, <2>4 DEF b
<1>9. CASE r # 0
    <2>1. e = 0
        BY <1>3, <1>9
    <2> HIDE DEF b, e
    <2>2. b = <<>>
        BY <1>5, <2>1, EmptySeq
    <2> QED BY <1>3, <1>6, <1>7, <1>9, <2>2 DEF b
<1> QED BY <1>8, <1>9

(***************************************************************************)
(* Such a reader gets back, bit for bit, what was appended: values, byte   *)
(* blocks and strings with their terminating '\0', empty ones included.    *)
(***************************************************************************)
THEOREM ReaderGetsBack == Spec => ReadBack
<1>1. ASSUME IInv, [Next]_vars, reads' > reads
      PROVE  out'.data = Bytes(reads', written[reads'].kind, written[reads'].n)
    <2>0. reads \in Nat /\ ~(reads > reads) /\ ~(0 > reads)
        BY <1>1, TypeFacts DEF IInv
    <2>1. PICK n \in Sizes : ReadValue(n) \/ ReadBytes(n) \/ ReadString(n)
        BY <1>1, <2>0, Zenon DEF Next, vars, append, Resize, Clear, Field, Body, ReadAt
    <2>2. n \in Nat /\ n + 1 \in Nat /\ "value" \in Kinds /\ "bytes" \in Kinds /\ "string" \in Kinds
        BY ConstantFacts DEF Kinds
    <2>3. CASE ReadBytes(n)
        <3> DEFINE r == IF m_index >= m_length THEN 1
                        ELSE IF n > m_length \/ m_index + n > m_length THEN 2 ELSE 0
        <3>1. r \in 0 .. 2 /\ Done("bytes", n, r, n, n)
            BY <2>3 DEF ReadBytes
        <3>2. instep /\ Matches("bytes", n) =>
                  IF r = 0 THEN n = Extent("bytes", n) ELSE Extent("bytes", n) = 0
            BY <1>1, <2>2, InStepResult
        <3> HIDE DEF r
        <3> QED BY <1>1, <2>2, <3>1, <3>2, DoneBack
    <2>4. CASE ReadString(n)
        <3> DEFINE r == IF m_index > m_length THEN 1
                        ELSE IF n > m_length \/ m_index + n > m_length THEN 2 ELSE 0
        <3>1. r \in 0 .. 2 /\ Done("string", n, r, n + 1, n + 1)
            BY <2>4 DEF ReadString
        <3>2. instep /\ Matches("string", n) => r = 0 /\ n + 1 = Extent("string", n)
            BY <1>1, <2>2, InStepResult
        <3>3. instep /\ Matches("string", n) =>
                  IF r = 0 THEN n + 1 = Extent("string", n) ELSE Extent("string", n) = 0
            BY <3>2
        <3> HIDE DEF r
        <3> QED BY <1>1, <2>2, <3>1, <3>3, DoneBack
    <2>5. CASE ReadValue(n)
        <3>1. Done("value", n, 0, n, n)
            BY <1>1, <2>0, <2>5 DEF ReadValue
        <3>2. instep /\ Matches("value", n) =>
                  IF 0 = 0 THEN n = Extent("value", n) ELSE Extent("value", n) = 0
            BY <1>1, <2>2, InStepResult
        <3> QED BY <1>1, <2>2, <3>1, <3>2, DoneBack
    <2> QED BY <2>1, <2>3, <2>4, <2>5
<1> QED BY <1>1, Invariance, PTL DEF Spec, ReadBack

(* A copy that ends before m_length has appended bytes only. *)
LEMMA CopyAppended ==
    ASSUME IInv, NEW at \in Nat, NEW len \in Nat, NEW n \in Nat, n <= len, at + n <= m_length,
           out'.data = Copy(at, len)
    PROVE  Appended(n)
<1>1. /\ m_data \in Seq(Byte) /\ m_length \in Nat /\ Len(m_data) \in Nat /\ m_length <= Len(m_data)
      /\ \A i \in 1 .. m_length : m_data[i] \notin {Wild, Zero}
    BY TypeFacts DEF IInv, DataAppended
<1>2. \A i \in 1 .. len : at + i <= Len(m_data) => Copy(at, len)[i] = m_data[at + i]
    BY <1>1, CopyProperties
<1>3. \A i \in 1 .. n : i \in 1 .. len /\ at + i \in 1 .. m_length /\ at + i <= Len(m_data)
    BY <1>1
<1> QED BY <1>1, <1>2, <1>3 DEF Appended

(***************************************************************************)
(* Whatever read(char*, n), body() and read<T>() return was appended, from *)
(* whatever cursor they start: the checks of memorystream::read keep them  *)
(* inside m_length.                                                        *)
(***************************************************************************)
THEOREM ReadsOnlyAppended == Spec => ReadsAppended
<1> DEFINE A == out' # out =>
                  /\ out'.kind = "bytes" => Appended(Len(out'.data))
                  /\ out'.kind = "body" => Appended(out'.n)
                  /\ out'.kind = "value" /\ ~NDEBUG /\ m_index <= m_length => Appended(out'.n)
<1>1. ASSUME IInv, [Next]_vars PROVE A
    <2>1. /\ m_data \in Seq(Byte) /\ m_index \in Nat /\ m_length \in Nat
          /\ Len(m_data) \in Nat /\ m_length <= Len(m_data)
          /\ SIZE_T \in Nat \ {0} /\ 2 * Len(m_data) <= SIZE_T
        BY <1>1, TypeFacts, ConstantFacts DEF IInv, DataAppended, Fits
    <2>2. \A n \in Sizes : n \in Nat /\ n + 1 \in Nat
        BY ConstantFacts
    <2>3. ASSUME NEW n \in Sizes, ReadBytes(n) PROVE A
        <3> DEFINE r == IF m_index >= m_length THEN 1
                        ELSE IF n > m_length \/ m_index + n > m_length THEN 2 ELSE 0
        <3>1. /\ out'.kind = "bytes"
              /\ out'.data = IF r = 0 THEN Copy(m_index, n) ELSE <<>>
            BY <2>3 DEF ReadBytes, Done
        <3>2. CASE r = 0
            <4>1. m_index + n <= m_length /\ n <= n
                BY <2>1, <2>2, <3>2
            <4>2. out'.data = Copy(m_index, n)
                BY <3>1, <3>2
            <4>3. Len(Copy(m_index, n)) = n
                BY <2>1, <2>2, CopyProperties
            <4>4. Appended(n)
                BY <1>1, <2>1, <2>2, <4>1, <4>2, CopyAppended
            <4> QED BY <3>1, <4>2, <4>3, <4>4
        <3>3. CASE r # 0
            <4>1. out'.data = <<>>
                BY <3>1, <3>3
            <4>2. Len(<<>>) = 0
                BY EmptySeq
            <4> QED BY <3>1, <4>1, <4>2 DEF Appended
        <3> QED BY <3>2, <3>3
    <2>4. ASSUME NEW n \in Sizes, ReadString(n) PROVE A
        BY <2>4 DEF ReadString, Done
    <2>5. ASSUME NEW n \in Sizes, ReadValue(n) PROVE A
        <3> SUFFICES ASSUME out' # out, ~NDEBUG, m_index <= m_length PROVE A
            BY <2>5 DEF ReadValue, Done
        <3>1. n <= (m_length - m_index) % SIZE_T /\ Done("value", n, 0, n, n)
            BY <2>5 DEF ReadValue
        <3>2. m_length - m_index \in Nat /\ m_length - m_index < SIZE_T
            BY <2>1
        <3>3. (m_length - m_index) % SIZE_T = m_length - m_index
            BY <2>1, <3>2, ModSmall
        <3>4. m_index + n <= m_length /\ n <= n
            BY <2>1, <2>2, <3>1, <3>3
        <3>5. out'.kind = "value" /\ out'.n = n /\ out'.data = Copy(m_index, n)
            BY <3>1 DEF Done
        <3>6. Appended(n)
            BY <1>1, <2>1, <2>2, <3>4, <3>5, CopyAppended
        <3> QED BY <3>5, <3>6
    <2>6. ASSUME NEW f \in Fields, Field(f) PROVE A
        BY <2>6 DEF Field, ReadAt
    <2>7. ASSUME NEW n \in Sizes, Body(n) PROVE A
        <3>1. PACKET_BODY_OFFSET \in Nat
            BY ConstantFacts DEF PACKET_BODY_OFFSET
        <3>2. CASE NoBody(m_length, n)
            <4>1. out'.kind = "body" /\ out'.n = 0
                BY <2>7, <3>2 DEF Body, ReadAt
            <4> QED BY <4>1 DEF Appended
        <3>3. CASE ~NoBody(m_length, n)
            <4>1. out'.kind = "body" /\ out'.n = n /\ out'.data = Copy(PACKET_BODY_OFFSET, n + 1)
                BY <2>7, <3>3 DEF Body, ReadAt
            <4>2. PACKET_BODY_OFFSET + n <= m_length /\ n <= n + 1
                BY <2>1, <2>2, <3>1, <3>3 DEF NoBody
            <4>3. Appended(n)
                BY <1>1, <2>2, <3>1, <4>1, <4>2, CopyAppended
            <4> QED BY <4>1, <4>3
        <3> QED BY <3>2, <3>3
    <2>8. CASE out' = out
        BY <2>8
    <2> HIDE DEF A
    <2> QED BY <1>1, <2>3, <2>4, <2>5, <2>6, <2>7, <2>8, Zenon DEF Next, vars, append, Resize, Clear
<1> QED BY <1>1, Invariance, PTL DEF Spec, ReadsAppended

(***************************************************************************)
(* On a packet that is_valid() accepts, id(), version(), time(),           *)
(* bodylength() and extra() return their field, all of it appended bytes,  *)
(* and no assertion fails, for any sizeof(int).                            *)
(***************************************************************************)
THEOREM AccessorsAreSafe == Spec => AccessorsSafe
<1> DEFINE A(f) == /\ proc' = "running"
                   /\ Len(out'.data) = SizeOf(f)
                   /\ out'.data = SubSeq(m_data, Offset(f) + 1, Offset(f) + SizeOf(f))
                   /\ Appended(SizeOf(f))
<1>1. ASSUME IInv, NEW f \in Fields, Field(f), is_valid(m_length) PROVE A(f)
    <2> DEFINE n == SizeOf(f)
               at == Offset(f)
               c == Copy(at, n)
    <2>1. /\ m_data \in Seq(Byte) /\ m_length \in Nat /\ Len(m_data) \in Nat
          /\ m_length <= Len(m_data)
        BY <1>1, TypeFacts DEF IInv
    <2>2. n \in Nat /\ at \in Nat /\ at + n <= m_length /\ n > 0
        <3>1. at \in Nat /\ n \in Nat /\ at + n <= PACKET_HEAD_LENGTH
            BY HeadFacts
        <3>2. PACKET_HEAD_LENGTH <= m_length /\ PACKET_HEAD_LENGTH \in Nat
            BY <1>1, <2>1, ConstantFacts DEF is_valid, PACKET_HEAD_LENGTH
        <3>3. n > 0
            BY ConstantFacts DEF SizeOf
        <3> HIDE DEF n, at
        <3> QED BY <2>1, <3>1, <3>2, <3>3
    <2>3. ~Absent(f, m_length) /\ ~Truncated(f, m_length)
        BY <2>1, <2>2 DEF Absent, Truncated
    <2>4. ReadAt("field", n, 0, at, n)
        BY <1>1, <2>3 DEF Field
    <2>5. out'.data = c /\ (at + n > Len(m_data) \/ proc' = "running")
        BY <2>4 DEF ReadAt
    <2>6. /\ Len(c) = n /\ c = [i \in 1 .. n |-> c[i]]
          /\ \A i \in 1 .. n : at + i <= Len(m_data) => c[i] = m_data[at + i]
        BY <2>1, <2>2, CopyProperties
    <2>7. Appended(n)
        <3>1. n <= n
            BY <2>2
        <3> QED BY <1>1, <2>2, <2>5, <3>1, CopyAppended
    <2>8. SubSeq(m_data, at + 1, at + n) = [i \in 1 .. n |-> m_data[at + i]]
        <3> DEFINE t == SubSeq(m_data, at + 1, at + n)
        <3> HIDE DEF n, at
        <3>1. /\ m_data \in Seq(Byte) /\ at + 1 \in 1 .. Len(m_data) + 1
              /\ at + n \in (at + 1) - 1 .. Len(m_data)
            BY <2>1, <2>2
        <3>2. /\ t \in Seq(Byte)
              /\ Len(t) = IF at + 1 <= at + n THEN (at + n) - (at + 1) + 1 ELSE 0
              /\ \A i \in 1 .. (at + n) - (at + 1) + 1 : t[i] = m_data[(at + 1) + i - 1]
            BY <3>1, SubSeqProperties
        <3> HIDE DEF t
        <3>3. Len(t) = n /\ \A i \in 1 .. n : t[i] = m_data[at + i]
            <4>1. /\ (at + n) - (at + 1) + 1 = n /\ at + 1 <= at + n
                  /\ \A i \in 1 .. n : (at + 1) + i - 1 = at + i
                BY <2>2
            <4> QED BY <3>2, <4>1
        <3>4. t = [i \in 1 .. n |-> t[i]]
            BY <3>2, <3>3
        <3> QED BY <3>3, <3>4, Zenon DEF t
    <2> HIDE DEF n, at, c
    <2>9. \A i \in 1 .. n : c[i] = m_data[at + i]
        BY <2>1, <2>2, <2>6
    <2>10. c = SubSeq(m_data, at + 1, at + n)
        BY <2>6, <2>8, <2>9
    <2>11. proc' = "running"
        BY <2>1, <2>2, <2>5
    <2> QED BY <2>5, <2>6, <2>7, <2>10, <2>11, Zenon DEF n, at
<1>2. IInv => \A f \in Fields : Field(f) /\ is_valid(m_length) => A(f)
    BY <1>1
<1> QED BY <1>2, Invariance, PTL DEF AccessorsSafe

=============================================================================
