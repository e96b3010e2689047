-------------------------- MODULE DispatcherProofs --------------------------
(* Proofs about Dispatcher, for every set of ids and listeners. *)
EXTENDS Dispatcher, SequenceTheorems, TLAPS

(* Erasing one node from a std::list keeps the others, in order. *)
LEMMA EraseProperties ==
    ASSUME NEW S, NEW s \in Seq(S), NEW i \in 1 .. Len(s)
    PROVE  /\ Erase(s, i) \in Seq(S)
           /\ Len(Erase(s, i)) = Len(s) - 1
           /\ \A j \in 1 .. i - 1 : Erase(s, i)[j] = s[j]
           /\ \A j \in i + 1 .. Len(s) : Erase(s, i)[j - 1] = s[j]
<1> DEFINE n == Len(s) - 1
<1>1. n \in Nat /\ Len(s) \in Nat
    BY LenProperties
<1>2. Erase(s, i) \in [1 .. n -> S]
    <2>1. \A j \in 1 .. n : j \in 1 .. Len(s) /\ j + 1 \in 1 .. Len(s)
        BY <1>1
    <2>2. \A j \in 1 .. Len(s) : s[j] \in S
        BY ElementOfSeq
    <2> QED BY <2>1, <2>2 DEF Erase
<1>3. Erase(s, i) \in Seq(S)
    BY <1>1, <1>2, SeqDef
<1>4. Len(Erase(s, i)) = n
    BY <1>1, <1>2, <1>3, LenProperties
<1>5. ASSUME NEW j \in 1 .. i - 1
      PROVE  Erase(s, i)[j] = s[j]
    BY <1>1 DEF Erase
<1>6. ASSUME NEW j \in i + 1 .. Len(s)
      PROVE  Erase(s, i)[j - 1] = s[j]
    <2>1. j - 1 \in 1 .. n /\ ~(j - 1 < i) /\ (j - 1) + 1 = j
        BY <1>1
    <2> QED BY <2>1 DEF Erase
<1> QED BY <1>3, <1>4, <1>5, <1>6

(* Erasing the receiver of one listener removes that listener, and only it, *)
(* from the listeners up to any other node.                                 *)
LEMMA EraseListener ==
    ASSUME NEW r \in Seq(Receiver), NEW i \in 1 .. Len(r),
           \A y, z \in 1 .. Len(r) : r[y].l = r[z].l => y = z
    PROVE  /\ \A y, z \in 1 .. Len(Erase(r, i)) : Erase(r, i)[y].l = Erase(r, i)[z].l => y = z
           /\ \A p \in 1 .. Len(r) : i < p =>
                 /\ p - 1 \in 1 .. Len(Erase(r, i))
                 /\ {r[j].l : j \in 1 .. p} \ {r[i].l} = {Erase(r, i)[j].l : j \in 1 .. p - 1}
           /\ \A p \in 1 .. Len(r) : p < i =>
                 /\ p \in 1 .. Len(Erase(r, i))
                 /\ {r[j].l : j \in 1 .. p} \ {r[i].l} = {Erase(r, i)[j].l : j \in 1 .. p}
<1> DEFINE q == Erase(r, i)
<1>1. Len(r) \in Nat
    BY LenProperties
<1>2. /\ Len(q) = Len(r) - 1
      /\ \A j \in 1 .. i - 1 : q[j] = r[j]
      /\ \A j \in i + 1 .. Len(r) : q[j - 1] = r[j]
    BY EraseProperties
<1> HIDE DEF q
<1>3. ASSUME NEW y \in 1 .. Len(q)
      PROVE  \E n \in 1 .. Len(r) : /\ q[y] = r[n]
                                    /\ n # i
                                    /\ n = IF y < i THEN y ELSE y + 1
    <2>1. CASE y < i
        <3>1. y \in 1 .. i - 1 /\ y \in 1 .. Len(r)
            BY <1>1, <1>2, <2>1
        <3> QED BY <1>2, <2>1, <3>1
    <2>2. CASE ~(y < i)
        <3>1. y + 1 \in i + 1 .. Len(r) /\ y + 1 \in 1 .. Len(r) /\ (y + 1) - 1 = y /\ y + 1 # i
            BY <1>1, <1>2, <2>2
        <3>2. q[(y + 1) - 1] = r[y + 1]
            BY <1>2, <3>1
        <3> QED BY <2>2, <3>1, <3>2
    <2> QED BY <2>1, <2>2
<1>4. ASSUME NEW y \in 1 .. Len(q), NEW z \in 1 .. Len(q), q[y].l = q[z].l
      PROVE  y = z
    <2>1. PICK m \in 1 .. Len(r) : q[y] = r[m] /\ m = IF y < i THEN y ELSE y + 1
        BY <1>3
    <2>2. PICK n \in 1 .. Len(r) : q[z] = r[n] /\ n = IF z < i THEN z ELSE z + 1
        BY <1>3
    <2>3. m = n
        BY <1>4, <2>1, <2>2
    <2> QED BY <1>1, <1>2, <2>1, <2>2, <2>3
<1>5. ASSUME NEW p \in 1 .. Len(r), i < p
      PROVE  /\ p - 1 \in 1 .. Len(q)
             /\ {r[j].l : j \in 1 .. p} \ {r[i].l} = {q[j].l : j \in 1 .. p - 1}
    <2>1. p - 1 \in 1 .. Len(q)
        BY <1>1, <1>2, <1>5
    <2>2. ASSUME NEW j \in 1 .. p, r[j].l # r[i].l
          PROVE  \E n \in 1 .. p - 1 : q[n].l = r[j].l
        <3>1. CASE j < i
            <4>1. j \in 1 .. i - 1 /\ j \in 1 .. p - 1
                BY <1>1, <1>5, <3>1
            <4> QED BY <1>2, <4>1, Zenon
        <3>2. CASE i < j
            <4>1. j \in i + 1 .. Len(r) /\ j - 1 \in 1 .. p - 1
                BY <1>1, <1>5, <3>2
            <4> QED BY <1>2, <4>1, SMTT(60)
        <3>3. j # i
            BY <2>2
        <3> QED BY <1>1, <3>1, <3>2, <3>3
    <2>3. ASSUME NEW j \in 1 .. p - 1
          PROVE  q[j].l # r[i].l /\ \E n \in 1 .. p : r[n].l = q[j].l
        <3>1. j \in 1 .. Len(q)
            BY <1>1, <1>2
        <3>2. PICK n \in 1 .. Len(r) : q[j] = r[n] /\ n # i /\ n = IF j < i THEN j ELSE j + 1
            BY <1>3, <3>1
        <3>3. n \in 1 .. p
            BY <1>1, <1>5, <3>2
        <3> QED BY <3>2, <3>3
    <2> DEFINE A == {r[j].l : j \in 1 .. p} \ {r[i].l}
               B == {q[j].l : j \in 1 .. p - 1}
    <2>4. ASSUME NEW x \in A PROVE x \in B
        BY <2>2
    <2>5. ASSUME NEW x \in B PROVE x \in A
        BY <2>3
    <2>6. A = B
        <3> HIDE DEF A, B
        <3> QED BY <2>4, <2>5, Zenon
    <2> QED BY <2>1, <2>6, Zenon
<1>6. ASSUME NEW p \in 1 .. Len(r), p < i
      PROVE  /\ p \in 1 .. Len(q)
             /\ {r[j].l : j \in 1 .. p} \ {r[i].l} = {q[j].l : j \in 1 .. p}
    <2>1. p \in 1 .. Len(q)
        BY <1>1, <1>2, <1>6
    <2>2. \A j \in 1 .. p : j \in 1 .. i - 1 /\ j # i /\ j \in 1 .. Len(r)
        BY <1>1, <1>6
    <2>3. \A j \in 1 .. p : q[j] = r[j] /\ r[j].l # r[i].l
        BY <1>2, <2>2
    <2> QED BY <2>1, <2>3
<1> QED BY <1>4, <1>5, <1>6, Zenon DEF q

(* The erased listener is not in the list any more. *)
LEMMA EraseGone ==
    ASSUME NEW r \in Seq(Receiver), NEW i \in 1 .. Len(r),
           \A y, z \in 1 .. Len(r) : r[y].l = r[z].l => y = z,
           NEW y \in 1 .. Len(Erase(r, i))
    PROVE  Erase(r, i)[y].l # r[i].l
<1> DEFINE q == Erase(r, i)
<1>1. Len(r) \in Nat
    BY LenProperties
<1>2. /\ Len(q) = Len(r) - 1
      /\ \A j \in 1 .. i - 1 : q[j] = r[j]
      /\ \A j \in i + 1 .. Len(r) : q[j - 1] = r[j]
    BY EraseProperties
<1>3. y \in 1 .. Len(q)
    OBVIOUS
<1> HIDE DEF q
<1>4. CASE y < i
    <2>1. y \in 1 .. i - 1 /\ y \in 1 .. Len(r) /\ y # i
        BY <1>1, <1>2, <1>3, <1>4
    <2> QED BY <1>2, <2>1 DEF q
<1>5. CASE ~(y < i)
    <2>1. y + 1 \in i + 1 .. Len(r) /\ y + 1 \in 1 .. Len(r) /\ (y + 1) - 1 = y /\ y + 1 # i
        BY <1>1, <1>2, <1>3, <1>5
    <2>2. q[(y + 1) - 1] = r[y + 1]
        BY <1>2, <2>1
    <2> QED BY <2>1, <2>2 DEF q
<1> QED BY <1>4, <1>5

(* Changing every loop in place keeps the stack of loops a sequence. *)
LEMMA MapLoops ==
    ASSUME NEW s \in Seq(Loop), NEW t, DOMAIN t = DOMAIN s,
           t = [k \in DOMAIN s |-> t[k]], \A k \in DOMAIN s : t[k] \in Loop
    PROVE  t \in Seq(Loop) /\ Len(t) = Len(s)
<1>1. Len(s) \in Nat /\ DOMAIN s = 1 .. Len(s)
    BY LenProperties
<1>2. t \in [1 .. Len(s) -> Loop]
    BY <1>1
<1>3. t \in Seq(Loop)
    BY <1>1, <1>2, SeqDef
<1> QED BY <1>1, <1>3, LenProperties

-----------------------------------------------------------------------------
(* The inductive invariant. *)
IInv == TypeOK /\ NoDuplicates /\ NoReceiverLeak /\ InvokedPrefix

(* The empty registry satisfies it. *)
LEMMA InitIInv == Init => IInv
<1> SUFFICES ASSUME Init PROVE IInv
    OBVIOUS
<1>1. TypeOK
    <2>1. <<>> \in Seq(Receiver) /\ <<>> \in Seq(Loop)
        BY EmptySeq
    <2> QED BY <2>1 DEF Init, TypeOK
<1>2. \A id \in Ids : Len(m_receivers[id]) = 0
    BY DEF Init
<1>3. Len(loops) = 0
    BY DEF Init
<1> QED BY <1>1, <1>2, <1>3 DEF Init, IInv, NoDuplicates, NoReceiverLeak, InvokedPrefix

(* What the type invariant says of each list and of each loop. *)
LEMMA TypeFacts ==
    ASSUME TypeOK
    PROVE  /\ \A id \in Ids :
                 /\ m_receivers[id] \in Seq(Receiver)
                 /\ Len(m_receivers[id]) \in Nat
                 /\ \A i \in 1 .. Len(m_receivers[id]) :
                       /\ m_receivers[id][i] \in Receiver
                       /\ m_receivers[id][i].l \in Listeners
           /\ Len(loops) \in Nat
           /\ DOMAIN loops = 1 .. Len(loops)
           /\ \A k \in 1 .. Len(loops) :
                 /\ loops[k] \in Loop
                 /\ loops[k].id \in Ids
                 /\ loops[k].pos \in Nat
<1>1. \A id \in Ids : m_receivers[id] \in Seq(Receiver)
    BY DEF TypeOK
<1>2. \A id \in Ids : /\ Len(m_receivers[id]) \in Nat
                      /\ \A i \in 1 .. Len(m_receivers[id]) : m_receivers[id][i] \in Receiver
    BY <1>1, LenProperties, ElementOfSeq
<1>3. \A r \in Receiver : r.l \in Listeners
    BY DEF Receiver
<1>4. /\ Len(loops) \in Nat
      /\ DOMAIN loops = 1 .. Len(loops)
      /\ \A k \in 1 .. Len(loops) : loops[k] \in Loop
    BY LenProperties, ElementOfSeq DEF TypeOK
<1>5. \A f \in Loop : f.id \in Ids /\ f.pos \in Nat
    BY DEF Loop
<1> QED BY <1>1, <1>2, <1>3, <1>4, <1>5

(* listen preserves the invariant: an appended node disturbs no iterator. *)
LEMMA ListenIInv ==
    ASSUME IInv, NEW id \in Ids, NEW l \in Listeners, Listen(id, l)
    PROVE  IInv'
<1> DEFINE rcv == [m_id |-> id, l |-> l]
<1>0. /\ TypeOK
      /\ \A x \in Ids : m_receivers[x] \in Seq(Receiver) /\ Len(m_receivers[x]) \in Nat
      /\ heap[id] = Len(m_receivers[id])
      /\ \A k \in 1 .. Len(loops) : loops[k].id \in Ids
    BY TypeFacts DEF IInv, NoReceiverLeak
<1>1. CASE HasEqual(id, rcv)
    <2>1. UNCHANGED vars
        BY <1>1 DEF Listen, vars
    <2> QED BY <2>1 DEF IInv, TypeOK, NoDuplicates, NoReceiverLeak, InvokedPrefix, vars
<1>2. CASE ~HasEqual(id, rcv)
    <2>1. /\ m_receivers' = [m_receivers EXCEPT ![id] = Append(@, rcv)]
          /\ heap' = [heap EXCEPT ![id] = @ + 1]
          /\ UNCHANGED <<loops, proc>>
        BY <1>2 DEF Listen
    <2>2. rcv \in Receiver
        BY DEF Receiver
    <2>3. /\ Append(m_receivers[id], rcv) \in Seq(Receiver)
          /\ Len(Append(m_receivers[id], rcv)) = Len(m_receivers[id]) + 1
          /\ \A i \in 1 .. Len(m_receivers[id]) :
                Append(m_receivers[id], rcv)[i] = m_receivers[id][i]
          /\ Append(m_receivers[id], rcv)[Len(m_receivers[id]) + 1] = rcv
        BY <1>0, <2>2, AppendProperties
    <2>4. TypeOK'
        BY <1>0, <2>1, <2>3 DEF TypeOK
    <2>5. \A x \in Ids : x # id => m_receivers'[x] = m_receivers[x] /\ heap'[x] = heap[x]
        BY <1>0, <2>1 DEF TypeOK
    <2>6. /\ m_receivers'[id] = Append(m_receivers[id], rcv)
          /\ heap'[id] = heap[id] + 1
        BY <1>0, <2>1 DEF TypeOK
    <2>7. \A i \in 1 .. Len(m_receivers[id]) : m_receivers[id][i].l # l
        <3>1. \A i \in 1 .. Len(m_receivers[id]) : m_receivers[id][i].m_id = id
            BY DEF IInv, NoReceiverLeak
        <3> QED BY <1>2, <3>1 DEF HasEqual, equals
    <2>8. NoReceiverLeak'
        <3> SUFFICES ASSUME NEW x \in Ids
                     PROVE  /\ heap'[x] = Len(m_receivers'[x])
                            /\ \A i \in 1 .. Len(m_receivers'[x]) : m_receivers'[x][i].m_id = x
            BY DEF NoReceiverLeak
        <3>1. CASE x = id
            <4>1. heap'[id] = Len(m_receivers'[id])
                BY <1>0, <2>3, <2>6
            <4>2. ASSUME NEW i \in 1 .. Len(m_receivers'[id])
                  PROVE  m_receivers'[id][i].m_id = id
                <5>1. CASE i \in 1 .. Len(m_receivers[id])
                    BY <2>3, <2>6, <5>1 DEF IInv, NoReceiverLeak
                <5>2. CASE i = Len(m_receivers[id]) + 1
                    BY <2>3, <2>6, <5>2
                <5> QED BY <1>0, <2>3, <2>6, <5>1, <5>2
            <4> QED BY <3>1, <4>1, <4>2
        <3>2. CASE x # id
            BY <2>5, <3>2 DEF IInv, NoReceiverLeak
        <3> QED BY <3>1, <3>2
    <2>9. NoDuplicates'
        <3> SUFFICES ASSUME NEW x \in Ids,
                            NEW i \in 1 .. Len(m_receivers'[x]),
                            NEW j \in 1 .. Len(m_receivers'[x]),
                            m_receivers'[x][i].l = m_receivers'[x][j].l
                     PROVE  i = j
            BY DEF NoDuplicates
        <3>1. CASE x = id
            <4> DEFINE n == Len(m_receivers[id])
            <4>1. i \in 1 .. n + 1 /\ j \in 1 .. n + 1 /\ n \in Nat
                BY <1>0, <2>3, <2>6, <3>1
            <4>2. /\ \A y \in 1 .. n : m_receivers'[id][y].l = m_receivers[id][y].l
                  /\ m_receivers'[id][n + 1].l = l
                BY <2>3, <2>6
            <4>3. \A y, z \in 1 .. n : m_receivers[id][y].l = m_receivers[id][z].l => y = z
                BY DEF IInv, NoDuplicates
            <4>4. m_receivers'[id][i].l = m_receivers'[id][j].l
                BY <3>1
            <4>5. \A y \in 1 .. n : m_receivers[id][y].l # l
                BY <2>7
            <4> HIDE DEF n
            <4>6. CASE i \in 1 .. n /\ j \in 1 .. n
                BY <4>2, <4>3, <4>4, <4>6
            <4>7. CASE i \in 1 .. n /\ j = n + 1
                BY <4>2, <4>4, <4>5, <4>7
            <4>8. CASE i = n + 1 /\ j \in 1 .. n
                BY <4>2, <4>4, <4>5, <4>8
            <4> QED BY <4>1, <4>6, <4>7, <4>8
        <3>2. CASE x # id
            BY <2>5, <3>2 DEF IInv, NoDuplicates
        <3> QED BY <3>1, <3>2
    <2>10. InvokedPrefix'
        <3> SUFFICES ASSUME NEW k \in 1 .. Len(loops), loops[k].iter = "ok"
                     PROVE  /\ loops[k].pos \in 1 .. Len(m_receivers'[loops[k].id])
                            /\ loops[k].seen =
                                 {m_receivers'[loops[k].id][j].l : j \in 1 .. loops[k].pos}
            BY <2>1, SMTT(60) DEF InvokedPrefix
        <3>1. /\ loops[k].pos \in 1 .. Len(m_receivers[loops[k].id])
              /\ loops[k].seen = {m_receivers[loops[k].id][j].l : j \in 1 .. loops[k].pos}
            BY DEF IInv, InvokedPrefix
        <3>2. CASE loops[k].id = id
            <4>1. loops[k].pos \in 1 .. Len(m_receivers'[id])
                BY <1>0, <2>3, <2>6, <3>1, <3>2
            <4>2. \A j \in 1 .. loops[k].pos : m_receivers'[id][j].l = m_receivers[id][j].l
                BY <1>0, <2>3, <2>6, <3>1, <3>2
            <4>3. {m_receivers'[id][j].l : j \in 1 .. loops[k].pos}
                     = {m_receivers[id][j].l : j \in 1 .. loops[k].pos}
                BY <4>2
            <4> QED BY <3>1, <3>2, <4>1, <4>3, ZenonT(60)
        <3>3. CASE loops[k].id # id
            BY <1>0, <2>5, <3>1, <3>3, SMTT(60)
        <3> QED BY <3>2, <3>3
    <2> QED BY <2>4, <2>8, <2>9, <2>10 DEF IInv
<1> QED BY <1>1, <1>2

(* What AfterErase does to one loop, and that it keeps the loops a sequence. *)
LEMMA AfterEraseProperties ==
    ASSUME TypeOK, NEW id \in Ids, NEW i \in Nat \ {0}, NEW l \in Listeners
    PROVE  /\ AfterErase(id, i, l) \in Seq(Loop)
           /\ Len(AfterErase(id, i, l)) = Len(loops)
           /\ \A k \in 1 .. Len(loops) :
                LET f == AfterErase(id, i, l)[k] IN
                /\ f.id = loops[k].id
                /\ loops[k].id # id => f = loops[k]
                /\ loops[k].id = id =>
                     /\ f.pos = IF i < loops[k].pos THEN loops[k].pos - 1 ELSE loops[k].pos
                     /\ f.iter = IF i = loops[k].pos THEN "erased" ELSE loops[k].iter
                     /\ f.seen = loops[k].seen \ {l}
<1> DEFINE t == AfterErase(id, i, l)
<1>1. /\ Len(loops) \in Nat
      /\ DOMAIN loops = 1 .. Len(loops)
      /\ \A k \in 1 .. Len(loops) : loops[k] \in Loop
    BY TypeFacts
<1>2. ASSUME NEW k \in 1 .. Len(loops)
      PROVE  /\ t[k] \in Loop
             /\ t[k].id = loops[k].id
             /\ loops[k].id # id => t[k] = loops[k]
             /\ loops[k].id = id =>
                  /\ t[k].pos = IF i < loops[k].pos THEN loops[k].pos - 1 ELSE loops[k].pos
                  /\ t[k].iter = IF i = loops[k].pos THEN "erased" ELSE loops[k].iter
                  /\ t[k].seen = loops[k].seen \ {l}
    BY <1>1 DEF AfterErase, Loop
<1>3. DOMAIN t = DOMAIN loops /\ t = [k \in DOMAIN loops |-> t[k]]
    BY DEF AfterErase
<1>4. loops \in Seq(Loop)
    BY DEF TypeOK
<1>5. t \in Seq(Loop) /\ Len(t) = Len(loops)
    <2> HIDE DEF t
    <2> QED BY <1>1, <1>2, <1>3, <1>4, MapLoops
<1> QED BY <1>2, <1>5

(* unlisten preserves the invariant: only iterators on the erased node are lost. *)
LEMMA UnlistenIInv ==
    ASSUME IInv, NEW id \in Ids, NEW l \in Listeners, Unlisten(id, l)
    PROVE  IInv'
<1> DEFINE r == m_receivers[id]
           q == m_receivers'[id]
<1>0. /\ TypeOK
      /\ r \in Seq(Receiver) /\ Len(r) \in Nat
      /\ heap[id] = Len(r)
      /\ \A k \in 1 .. Len(loops) : loops[k].id \in Ids /\ loops[k].pos \in Nat
      /\ Len(loops) \in Nat
    BY TypeFacts DEF IInv, NoReceiverLeak
<1>1. PICK i \in 1 .. Len(r) :
        /\ r[i].l = l
        /\ m_receivers' = [m_receivers EXCEPT ![id] = Erase(@, i)]
        /\ heap' = [heap EXCEPT ![id] = @ - 1]
        /\ loops' = AfterErase(id, i, l)
        /\ UNCHANGED proc
    BY Zenon DEF Unlisten, equals
<1>2. /\ q = Erase(r, i)
      /\ heap'[id] = heap[id] - 1
      /\ \A x \in Ids : x # id => m_receivers'[x] = m_receivers[x] /\ heap'[x] = heap[x]
    BY <1>0, <1>1 DEF TypeOK
<1>3. q \in Seq(Receiver) /\ Len(q) = Len(r) - 1
    <2> HIDE DEF q, r
    <2> QED BY <1>0, <1>2, EraseProperties
<1>4. i \in Nat \ {0}
    BY <1>0
<1>5. /\ loops' \in Seq(Loop)
      /\ Len(loops') = Len(loops)
      /\ \A k \in 1 .. Len(loops) :
            /\ loops'[k].id = loops[k].id
            /\ loops[k].id # id => loops'[k] = loops[k]
            /\ loops[k].id = id =>
                 /\ loops'[k].pos = IF i < loops[k].pos THEN loops[k].pos - 1 ELSE loops[k].pos
                 /\ loops'[k].iter = IF i = loops[k].pos THEN "erased" ELSE loops[k].iter
                 /\ loops'[k].seen = loops[k].seen \ {l}
    BY <1>0, <1>1, <1>4, AfterEraseProperties
<1>6. TypeOK'
    <2>1. m_receivers' \in [Ids -> Seq(Receiver)]
        BY <1>0, <1>1, <1>2, <1>3 DEF TypeOK
    <2>2. heap' \in [Ids -> Nat]
        <3>1. heap[id] - 1 \in Nat
            BY <1>0
        <3> QED BY <1>0, <1>1, <3>1 DEF TypeOK
    <2> QED BY <1>0, <1>1, <1>5, <2>1, <2>2 DEF TypeOK
<1>7. NoReceiverLeak'
    <2> SUFFICES ASSUME NEW x \in Ids
                 PROVE  /\ heap'[x] = Len(m_receivers'[x])
                        /\ \A j \in 1 .. Len(m_receivers'[x]) : m_receivers'[x][j].m_id = x
        BY DEF NoReceiverLeak
    <2>1. CASE x = id
        <3>1. heap'[id] = Len(q)
            BY <1>0, <1>2, <1>3
        <3>2. \A j \in 1 .. Len(r) : r[j].m_id = id
            BY DEF IInv, NoReceiverLeak
        <3>3. \A j \in 1 .. Len(q) : q[j].m_id = id
            <4>1. \A j \in 1 .. Len(q) : j \in 1 .. Len(r) - 1
                BY <1>3
            <4>2. \A j \in 1 .. Len(r) - 1 : j \in 1 .. Len(r) /\ j + 1 \in 1 .. Len(r)
                BY <1>0
            <4> QED BY <1>2, <3>2, <4>1, <4>2 DEF Erase
        <3> QED BY <2>1, <3>1, <3>3
    <2>2. CASE x # id
        BY <1>2, <2>2 DEF IInv, NoReceiverLeak
    <2> QED BY <2>1, <2>2
<1>8. \A y, z \in 1 .. Len(r) : r[y].l = r[z].l => y = z
    BY DEF IInv, NoDuplicates
<1>9. NoDuplicates'
    <2> SUFFICES ASSUME NEW x \in Ids,
                        NEW y \in 1 .. Len(m_receivers'[x]),
                        NEW z \in 1 .. Len(m_receivers'[x]),
                        m_receivers'[x][y].l = m_receivers'[x][z].l
                 PROVE  y = z
        BY DEF NoDuplicates
    <2>1. CASE x = id
        <3>1. y \in 1 .. Len(q) /\ z \in 1 .. Len(q) /\ q[y].l = q[z].l
            BY <2>1
        <3> HIDE DEF q, r
        <3> QED BY <1>0, <1>2, <1>8, <3>1, EraseListener, SMTT(60)
    <2>2. CASE x # id
        BY <1>2, <2>2 DEF IInv, NoDuplicates
    <2> QED BY <2>1, <2>2
<1>10. InvokedPrefix'
    <2>1. ASSUME NEW k \in 1 .. Len(loops), loops'[k].iter = "ok"
          PROVE  /\ loops'[k].pos \in 1 .. Len(m_receivers'[loops'[k].id])
                 /\ loops'[k].seen =
                      {m_receivers'[loops'[k].id][j].l : j \in 1 .. loops'[k].pos}
        <3>1. CASE loops[k].id # id
            <4>1. /\ loops'[k] = loops[k]
                  /\ m_receivers'[loops[k].id] = m_receivers[loops[k].id]
                BY <1>0, <1>2, <1>5, <3>1
            <4> QED BY <2>1, <4>1 DEF IInv, InvokedPrefix
        <3>2. CASE loops[k].id = id
            <4> DEFINE p == loops[k].pos
            <4>1. /\ loops'[k].id = id
                  /\ i # p
                  /\ loops[k].iter = "ok"
                  /\ loops'[k].pos = IF i < p THEN p - 1 ELSE p
                  /\ loops'[k].seen = loops[k].seen \ {l}
                BY <1>5, <2>1, <3>2
            <4>2. p \in 1 .. Len(r) /\ loops[k].seen = {r[j].l : j \in 1 .. p}
                BY <3>2, <4>1, SMTT(60) DEF IInv, InvokedPrefix
            <4>3. CASE i < p
                <5>1. /\ p - 1 \in 1 .. Len(q)
                      /\ {r[j].l : j \in 1 .. p} \ {l} = {q[j].l : j \in 1 .. p - 1}
                    <6>1. q = Erase(r, i) /\ l = r[i].l
                        BY <1>1, <1>2
                    <6> HIDE DEF q, r, p
                    <6>2. /\ p - 1 \in 1 .. Len(Erase(r, i))
                          /\ {r[j].l : j \in 1 .. p} \ {r[i].l}
                               = {Erase(r, i)[j].l : j \in 1 .. p - 1}
                        <7>1. \A x \in 1 .. Len(r) : i < x =>
                                 /\ x - 1 \in 1 .. Len(Erase(r, i))
                                 /\ {r[j].l : j \in 1 .. x} \ {r[i].l}
                                      = {Erase(r, i)[j].l : j \in 1 .. x - 1}
                            <8>1. r \in Seq(Receiver)
                                BY <1>0
                            <8> QED BY ONLY i \in 1 .. Len(r), <8>1, <1>8, EraseListener, Zenon
                        <7> QED BY <4>2, <4>3, <7>1, Zenon
                    <6> QED BY <6>1, <6>2, Zenon
                <5>2. loops'[k].pos = p - 1
                    BY <4>1, <4>3
                <5> QED BY <4>1, <4>2, <5>1, <5>2, ZenonT(60)
            <4>4. CASE p < i
                <5>1. /\ p \in 1 .. Len(q)
                      /\ {r[j].l : j \in 1 .. p} \ {l} = {q[j].l : j \in 1 .. p}
                    <6>1. q = Erase(r, i) /\ l = r[i].l
                        BY <1>1, <1>2
                    <6> HIDE DEF q, r, p
                    <6>2. /\ p \in 1 .. Len(Erase(r, i))
                          /\ {r[j].l : j \in 1 .. p} \ {r[i].l}
                               = {Erase(r, i)[j].l : j \in 1 .. p}
                        BY <1>0, <1>1, <1>8, <4>2, <4>4, EraseListener, Zenon
                    <6> QED BY <6>1, <6>2
                <5>2. loops'[k].pos = p
                    BY <1>0, <4>1, <4>4
                <5> QED BY <4>1, <4>2, <5>1, <5>2, ZenonT(60)
            <4>5. i < p \/ p < i
                BY <1>0, <4>1, <4>2
            <4> QED BY <4>3, <4>4, <4>5, SMTT(60)
        <3> QED BY <3>1, <3>2
    <2> QED BY <1>5, <2>1 DEF InvokedPrefix
<1> QED BY <1>6, <1>7, <1>9, <1>10 DEF IInv

(* clear preserves the invariant: every iterator is left without a node. *)
LEMMA ClearIInv ==
    ASSUME IInv, Clear
    PROVE  IInv'
<1>1. /\ TypeOK
      /\ \A x \in Ids : heap[x] = Len(m_receivers[x]) /\ Len(m_receivers[x]) \in Nat
      /\ Len(loops) \in Nat /\ DOMAIN loops = 1 .. Len(loops)
      /\ \A k \in 1 .. Len(loops) : loops[k] \in Loop
    BY TypeFacts DEF IInv, NoReceiverLeak
<1>2. /\ m_receivers' = [x \in Ids |-> <<>>]
      /\ heap' = [x \in Ids |-> heap[x] - Len(m_receivers[x])]
      /\ proc' = proc
    BY DEF Clear
<1>3. \A x \in Ids : m_receivers'[x] = <<>> /\ heap'[x] = 0
    BY <1>1, <1>2
<1>4. /\ DOMAIN loops' = 1 .. Len(loops)
      /\ \A k \in 1 .. Len(loops) : loops'[k] \in Loop /\ loops'[k].iter = "erased"
    BY <1>1 DEF Clear, Loop
<1>5. loops' \in Seq(Loop) /\ Len(loops') = Len(loops)
    <2>1. loops' = [k \in 1 .. Len(loops) |-> loops'[k]]
        BY <1>1 DEF Clear
    <2>2. loops' \in [1 .. Len(loops) -> Loop]
        BY <1>4, <2>1
    <2> QED BY <1>1, <1>4, <2>2, SeqDef, LenProperties
<1>6. TypeOK'
    <2>1. <<>> \in Seq(Receiver)
        BY EmptySeq
    <2>2. heap' \in [Ids -> Nat]
        BY <1>1, <1>2
    <2> QED BY <1>1, <1>2, <1>5, <2>1, <2>2 DEF TypeOK
<1>7. \A x \in Ids : Len(m_receivers'[x]) = 0
    BY <1>3
<1> QED BY <1>3, <1>4, <1>5, <1>6, <1>7 DEF IInv, NoDuplicates, NoReceiverLeak, InvokedPrefix

(* What InvokedPrefix says of one loop f, over the lists r. *)
Prefix(f, r) ==
    f.iter = "ok" =>
        /\ f.pos \in 1 .. Len(r[f.id])
        /\ f.seen = {r[f.id][j].l : j \in 1 .. f.pos}

LEMMA PrefixIs == InvokedPrefix <=> \A k \in 1 .. Len(loops) : Prefix(loops[k], m_receivers)
BY DEF InvokedPrefix, Prefix

(* A step that leaves the lists alone keeps InvokedPrefix when each loop after  *)
(* it is a loop from before, or one that satisfies the prefix property itself.  *)
LEMMA StillPrefix ==
    ASSUME InvokedPrefix, m_receivers' = m_receivers,
           \A k \in 1 .. Len(loops') :
              (k \in 1 .. Len(loops) /\ loops'[k] = loops[k]) \/ Prefix(loops'[k], m_receivers)
    PROVE  InvokedPrefix'
<1>1. \A k \in 1 .. Len(loops) : Prefix(loops[k], m_receivers)
    BY PrefixIs
<1>2. \A k \in 1 .. Len(loops') : Prefix(loops'[k], m_receivers')
    BY <1>1, Zenon
<1>3. (InvokedPrefix <=> \A k \in 1 .. Len(loops) : Prefix(loops[k], m_receivers))'
    BY PrefixIs, PTL
<1> QED BY <1>2, <1>3, Zenon

(* A dispatch begins on the first node, having invoked its listener. *)
LEMMA DispatchIInv ==
    ASSUME IInv, NEW id \in Ids, Dispatch(id)
    PROVE  IInv'
<1> DEFINE f == [id |-> id, pos |-> 1, iter |-> "ok", seen |-> {m_receivers[id][1].l}]
<1>1. /\ TypeOK
      /\ m_receivers[id] \in Seq(Receiver) /\ Len(m_receivers[id]) \in Nat
      /\ \A i \in 1 .. Len(m_receivers[id]) : m_receivers[id][i].l \in Listeners
      /\ Len(loops) \in Nat
    BY TypeFacts DEF IInv
<1>2. /\ loops' = Append(loops, f)
      /\ m_receivers[id] # <<>>
      /\ UNCHANGED <<m_receivers, heap, proc>>
    BY DEF Dispatch
<1>3. 1 \in 1 .. Len(m_receivers[id])
    BY <1>1, <1>2, EmptySeq
<1>4. f \in Loop
    BY <1>1, <1>3 DEF Loop
<1>5. /\ loops' \in Seq(Loop)
      /\ Len(loops') = Len(loops) + 1
      /\ \A k \in 1 .. Len(loops) : loops'[k] = loops[k]
      /\ loops'[Len(loops) + 1] = f
    <2>1. loops \in Seq(Loop)
        BY <1>1 DEF TypeOK
    <2> HIDE DEF f
    <2> QED BY <1>2, <1>4, <2>1, AppendProperties
<1>6. Prefix(f, m_receivers)
    <2>1. 1 .. 1 = {1}
        OBVIOUS
    <2>2. {m_receivers[id][j].l : j \in 1 .. 1} = {m_receivers[id][1].l}
        BY <2>1
    <2> QED BY <1>3, <2>2 DEF Prefix
<1> HIDE DEF f
<1>7. InvokedPrefix'
    <2>1. \A k \in 1 .. Len(loops') : k \in 1 .. Len(loops) \/ k = Len(loops) + 1
        BY <1>1, <1>5
    <2>2. InvokedPrefix /\ m_receivers' = m_receivers
        BY <1>2 DEF IInv
    <2> QED BY <1>5, <1>6, <2>1, <2>2, StillPrefix, Zenon
<1> QED BY <1>1, <1>2, <1>5, <1>7 DEF IInv, TypeOK, NoDuplicates, NoReceiverLeak

(* Invoking node p keeps the types, and touches the innermost loop only. *)
LEMMA InvokeProperties ==
    ASSUME TypeOK, loops # <<>>, NEW p \in 1 .. Len(m_receivers[Top.id]),
           NEW iter \in {"ok", "erased", "astray"}, Invoke(p, iter)
    PROVE  /\ loops' \in Seq(Loop)
           /\ Len(loops') = Len(loops)
           /\ \A k \in 1 .. Len(loops) : k # Len(loops) => loops'[k] = loops[k]
           /\ loops'[Len(loops)] =
                [id |-> Top.id, pos |-> p, iter |-> iter,
                 seen |-> Top.seen \cup {m_receivers[Top.id][p].l}]
<1> DEFINE f == [id |-> Top.id, pos |-> p, iter |-> iter,
                 seen |-> Top.seen \cup {m_receivers[Top.id][p].l}]
<1>1. loops \in Seq(Loop) /\ Len(loops) \in Nat /\ DOMAIN loops = 1 .. Len(loops)
    BY TypeFacts DEF TypeOK
<1>2. Len(loops) \in 1 .. Len(loops)
    BY <1>1, EmptySeq
<1>3. Top \in Loop /\ Top.id \in Ids
    BY <1>2, TypeFacts DEF Top
<1>4. m_receivers[Top.id][p].l \in Listeners /\ Len(m_receivers[Top.id]) \in Nat
    BY <1>3, TypeFacts
<1>5. f \in Loop
    BY <1>3, <1>4 DEF Loop
<1>6. loops' = [loops EXCEPT ![Len(loops)] = f]
    BY DEF Invoke
<1> HIDE DEF f
<1>7. loops' \in Seq(Loop) /\ Len(loops') = Len(loops)
    BY <1>1, <1>2, <1>5, <1>6, ExceptSeq, SMTT(60)
<1>8. loops'[Len(loops)] = f /\ \A k \in 1 .. Len(loops) : k # Len(loops) => loops'[k] = loops[k]
    BY <1>1, <1>2, <1>6, Zenon
<1> QED BY <1>7, <1>8 DEF f

(* Leaving the innermost loop keeps the outer ones as they are. *)
LEMMA LeaveProperties ==
    ASSUME TypeOK, loops # <<>>, Leave
    PROVE  /\ loops' \in Seq(Loop)
           /\ Len(loops') = Len(loops) - 1
           /\ \A k \in 1 .. Len(loops) - 1 : loops'[k] = loops[k]
<1>1. loops \in Seq(Loop) /\ Len(loops) \in Nat
    BY TypeFacts DEF TypeOK
<1>2. Len(loops) # 0
    BY <1>1, EmptySeq
<1>3. \A m \in 1 .. Len(loops) + 1, n \in 0 .. Len(loops) : m - 1 <= n =>
         /\ SubSeq(loops, m, n) \in Seq(Loop)
         /\ Len(SubSeq(loops, m, n)) = n - m + 1
         /\ \A i \in 1 .. n - m + 1 : SubSeq(loops, m, n)[i] = loops[m + i - 1]
    BY <1>1, SubSeqProperties
<1> DEFINE n == Len(loops) - 1
<1>4. /\ SubSeq(loops, 1, n) \in Seq(Loop)
      /\ Len(SubSeq(loops, 1, n)) = n - 1 + 1
      /\ \A i \in 1 .. n - 1 + 1 : SubSeq(loops, 1, n)[i] = loops[1 + i - 1]
    <2>1. 1 \in 1 .. Len(loops) + 1 /\ n \in 0 .. Len(loops) /\ 1 - 1 <= n
        BY <1>1, <1>2
    <2> QED BY <1>3, <2>1, Zenon
<1>5. n - 1 + 1 = n /\ \A i \in 1 .. n : 1 + i - 1 = i
    BY <1>1
<1> QED BY <1>4, <1>5 DEF Leave

(* A callback returns: the next node is invoked, or the loop is left. *)
LEMMA ReturnIInv ==
    ASSUME IInv, Return
    PROVE  IInv'
<1>1. TypeOK /\ Len(loops) \in Nat /\ loops # <<>>
    BY TypeFacts DEF IInv, Return
<1>2. Len(loops) \in 1 .. Len(loops)
    BY <1>1, EmptySeq DEF TypeOK
<1>3. Top \in Loop /\ Top.id \in Ids /\ Top.pos \in Nat /\ Len(m_receivers[Top.id]) \in Nat
    BY <1>1, <1>2, TypeFacts DEF Top
<1>4. UNCHANGED <<m_receivers, heap, proc>>
    BY DEF Return
<1>5. CASE Top.pos < Len(m_receivers[Top.id])
    <2> DEFINE p == Top.pos + 1
    <2>1. p \in 1 .. Len(m_receivers[Top.id])
        BY <1>3, <1>5
    <2>2. Top.iter \in {"ok", "erased", "astray"}
        BY <1>3 DEF Loop
    <2>3. Invoke(p, Top.iter)
        BY <1>5 DEF Return
    <2> HIDE DEF p
    <2>4. /\ loops' \in Seq(Loop)
          /\ Len(loops') = Len(loops)
          /\ \A k \in 1 .. Len(loops) : k # Len(loops) => loops'[k] = loops[k]
          /\ loops'[Len(loops)] =
               [id |-> Top.id, pos |-> p, iter |-> Top.iter,
                seen |-> Top.seen \cup {m_receivers[Top.id][p].l}]
        BY <1>1, <2>1, <2>2, <2>3, InvokeProperties, Zenon
    <2> DEFINE g == loops'[Len(loops)]
    <2>5. Prefix(g, m_receivers)
        <3> SUFFICES ASSUME g.iter = "ok"
                     PROVE  /\ g.pos \in 1 .. Len(m_receivers[g.id])
                            /\ g.seen = {m_receivers[g.id][j].l : j \in 1 .. g.pos}
            BY DEF Prefix
        <3>1. /\ g.id = Top.id /\ g.pos = p /\ Top.iter = "ok"
              /\ g.seen = Top.seen \cup {m_receivers[Top.id][p].l}
            BY <2>4
        <3>2. Top.seen = {m_receivers[Top.id][j].l : j \in 1 .. Top.pos}
            BY <1>2, <3>1 DEF IInv, InvokedPrefix, Top
        <3>3. 1 .. p = (1 .. Top.pos) \cup {p}
            BY <1>3 DEF p
        <3> HIDE DEF g
        <3>4. {m_receivers[Top.id][j].l : j \in 1 .. p}
                = {m_receivers[Top.id][j].l : j \in 1 .. Top.pos} \cup {m_receivers[Top.id][p].l}
            BY <3>3
        <3>5. g.pos \in 1 .. Len(m_receivers[g.id])
            BY <2>1, <3>1
        <3>6. {m_receivers[g.id][j].l : j \in 1 .. g.pos} = {m_receivers[Top.id][j].l : j \in 1 .. p}
            BY <3>1
        <3>7. g.seen = {m_receivers[Top.id][j].l : j \in 1 .. p}
            BY <3>1, <3>2, <3>4
        <3> QED BY <3>5, <3>6, <3>7, Zenon
    <2>6. InvokedPrefix'
        <3>1. InvokedPrefix /\ m_receivers' = m_receivers
            BY <1>4 DEF IInv
        <3> QED BY <2>4, <2>5, <3>1, StillPrefix
    <2> QED BY <1>1, <1>4, <2>4, <2>6 DEF IInv, TypeOK, NoDuplicates, NoReceiverLeak
<1>6. CASE ~(Top.pos < Len(m_receivers[Top.id]))
    <2>1. /\ loops' \in Seq(Loop)
          /\ Len(loops') = Len(loops) - 1
          /\ \A k \in 1 .. Len(loops) - 1 : loops'[k] = loops[k]
        BY <1>1, <1>6, LeaveProperties DEF Return
    <2>2. \A k \in 1 .. Len(loops) - 1 : k \in 1 .. Len(loops)
        BY <1>1
    <2>3. InvokedPrefix'
        <3>1. InvokedPrefix /\ m_receivers' = m_receivers
            BY <1>4 DEF IInv
        <3> QED BY <2>1, <2>2, <3>1, StillPrefix
    <2> QED BY <1>1, <1>4, <2>1, <2>3 DEF IInv, TypeOK, NoDuplicates, NoReceiverLeak
<1> QED BY <1>5, <1>6

(* Whatever an erased node leads to, the lists and the other loops stay sound. *)
LEMMA ReturnErasedIInv ==
    ASSUME IInv, ReturnErased
    PROVE  IInv'
<1>1. TypeOK /\ Len(loops) \in Nat /\ loops # <<>>
    BY TypeFacts DEF IInv, ReturnErased
<1>2. Len(loops) \in 1 .. Len(loops)
    BY <1>1, EmptySeq DEF TypeOK
<1>3. UNCHANGED <<m_receivers, heap>>
    BY DEF ReturnErased
<1>4. CASE proc' = "crashed" /\ UNCHANGED loops
    <2>1. InvokedPrefix'
        BY <1>3, <1>4, StillPrefix DEF IInv
    <2> QED BY <1>1, <1>3, <1>4, <2>1 DEF IInv, TypeOK, NoDuplicates, NoReceiverLeak
<1>5. CASE Leave /\ UNCHANGED proc
    <2>1. /\ loops' \in Seq(Loop)
          /\ Len(loops') = Len(loops) - 1
          /\ \A k \in 1 .. Len(loops) - 1 : loops'[k] = loops[k]
        BY <1>1, <1>5, LeaveProperties
    <2>2. \A k \in 1 .. Len(loops) - 1 : k \in 1 .. Len(loops)
        BY <1>1
    <2>3. InvokedPrefix'
        <3>1. InvokedPrefix /\ m_receivers' = m_receivers
            BY <1>3 DEF IInv
        <3> QED BY <2>1, <2>2, <3>1, StillPrefix
    <2> QED BY <1>1, <1>3, <1>5, <2>1, <2>3 DEF IInv, TypeOK, NoDuplicates, NoReceiverLeak
<1>6. ASSUME NEW p \in 1 .. Len(m_receivers[Top.id]), Invoke(p, "astray"), UNCHANGED proc
      PROVE  IInv'
    <2>1. /\ loops' \in Seq(Loop)
          /\ Len(loops') = Len(loops)
          /\ \A k \in 1 .. Len(loops) : k # Len(loops) => loops'[k] = loops[k]
          /\ loops'[Len(loops)].iter = "astray"
        <3> DEFINE a == "astray"
        <3>1. a \in {"ok", "erased", "astray"} /\ Invoke(p, a)
            BY <1>6
        <3> HIDE DEF a
        <3>2. /\ loops' \in Seq(Loop)
              /\ Len(loops') = Len(loops)
              /\ \A k \in 1 .. Len(loops) : k # Len(loops) => loops'[k] = loops[k]
              /\ loops'[Len(loops)] =
                   [id |-> Top.id, pos |-> p, iter |-> a,
                    seen |-> Top.seen \cup {m_receivers[Top.id][p].l}]
            BY <1>1, <3>1, InvokeProperties, Zenon
        <3> QED BY <3>2 DEF a
    <2>2. InvokedPrefix'
        <3>1. InvokedPrefix /\ m_receivers' = m_receivers
            BY <1>3 DEF IInv
        <3>2. Prefix(loops'[Len(loops)], m_receivers)
            BY <2>1 DEF Prefix
        <3> QED BY <2>1, <3>1, <3>2, StillPrefix
    <2> QED BY <1>1, <1>3, <1>6, <2>1, <2>2 DEF IInv, TypeOK, NoDuplicates, NoReceiverLeak
<1> QED BY <1>4, <1>5, <1>6 DEF ReturnErased

(* Every step preserves it: one lemma per action. *)
LEMMA NextIInv == IInv /\ [Next]_vars => IInv'
<1> SUFFICES ASSUME IInv, [Next]_vars PROVE IInv'
    OBVIOUS
<1>1. CASE UNCHANGED vars
    <2>1. m_receivers' = m_receivers /\ heap' = heap /\ loops' = loops /\ proc' = proc
        BY <1>1 DEF vars
    <2>2. TypeOK' /\ NoDuplicates' /\ NoReceiverLeak'
        BY <2>1 DEF IInv, TypeOK, NoDuplicates, NoReceiverLeak
    <2>3. InvokedPrefix'
        BY <2>1, StillPrefix DEF IInv
    <2> QED BY <2>2, <2>3 DEF IInv
<1>2. ASSUME NEW id \in Ids, NEW l \in Listeners, Listen(id, l) PROVE IInv'
    BY <1>2, ListenIInv
<1>3. ASSUME NEW id \in Ids, NEW l \in Listeners, Unlisten(id, l) PROVE IInv'
    BY <1>3, UnlistenIInv
<1>4. ASSUME NEW id \in Ids, Dispatch(id) PROVE IInv'
    BY <1>4, DispatchIInv
<1> QED BY <1>1, <1>2, <1>3, <1>4, ClearIInv, ReturnIInv, ReturnErasedIInv DEF Next

(* So it holds in every reachable state. *)
LEMMA IInvInvariant == Spec => []IInv
BY InitIInv, NextIInv, PTL DEF Spec

-----------------------------------------------------------------------------
(***************************************************************************)
(* The theorems hold for any ids, listeners, callbacks and nesting depth,  *)
(* and even when callbacks erase the node a dispatch stands on.            *)
(*                                                                         *)
(* The registry and its dispatch loops keep their type.                    *)
(***************************************************************************)
THEOREM TypeCorrect == Spec => []TypeOK
BY IInvInvariant, PTL DEF IInv

(* No listener is ever listed twice for an id: dispatcher::listen's search. *)
THEOREM DuplicateFree == Spec => []NoDuplicates
BY IInvInvariant, PTL DEF IInv

(* Receivers are deleted exactly when they leave a list or are rejected. *)
THEOREM LeakFree == Spec => []NoReceiverLeak
BY IInvInvariant, PTL DEF IInv

(***************************************************************************)
(* A dispatch whose iterator is valid has invoked exactly the listeners up *)
(* to its node, whatever listen, unlisten and dispatch calls the callbacks *)
(* of it, and of the dispatches nested in it, have made.                   *)
(***************************************************************************)
THEOREM PrefixInvoked == Spec => []InvokedPrefix
BY IInvInvariant, PTL DEF IInv

-----------------------------------------------------------------------------
(* unlisten invalidates only iterators on the node of the removed listener. *)
LEMMA UnlistenKeepsIterators ==
    ASSUME IInv, NEW id \in Ids, NEW l \in Listeners, Unlisten(id, l)
    PROVE  KeepsIterators
<1> SUFFICES ASSUME NEW k \in 1 .. Len(loops), NEW d \in Ids, loops[k].id = d,
                    loops[k].iter = "ok", loops'[k].iter # "ok"
             PROVE  m_receivers[d][loops[k].pos].l \notin Listened(d)'
    BY DEF KeepsIterators
<1> DEFINE r == m_receivers[id]
<1>1. /\ TypeOK /\ r \in Seq(Receiver) /\ Len(r) \in Nat
      /\ Len(loops) \in Nat /\ DOMAIN loops = 1 .. Len(loops)
    BY TypeFacts DEF IInv
<1>2. PICK i \in 1 .. Len(r) :
        /\ r[i].l = l
        /\ m_receivers' = [m_receivers EXCEPT ![id] = Erase(@, i)]
        /\ loops' = AfterErase(id, i, l)
    BY Zenon DEF Unlisten, equals
<1>3. i \in Nat \ {0}
    BY <1>1
<1>4. /\ loops[k].id # id => loops'[k] = loops[k]
      /\ loops[k].id = id =>
           loops'[k].iter = IF i = loops[k].pos THEN "erased" ELSE loops[k].iter
    <2>1. TypeOK
        BY <1>1
    <2>2. \A j \in 1 .. Len(loops) :
            LET f == AfterErase(id, i, l)[j] IN
            /\ loops[j].id # id => f = loops[j]
            /\ loops[j].id = id =>
                 f.iter = IF i = loops[j].pos THEN "erased" ELSE loops[j].iter
        BY <1>3, <2>1, AfterEraseProperties, SMTT(60)
    <2>3. loops'[k] = AfterErase(id, i, l)[k]
        BY <1>2
    <2> QED BY <2>2, <2>3
<1>5. loops[k].id = id /\ loops[k].pos = i
    BY <1>4
<1>6. m_receivers'[id] = Erase(r, i)
    BY <1>1, <1>2 DEF TypeOK
<1>7. \A y, z \in 1 .. Len(r) : r[y].l = r[z].l => y = z
    BY DEF IInv, NoDuplicates
<1>8. \A y \in 1 .. Len(m_receivers'[id]) : m_receivers'[id][y].l # r[i].l
    <2> HIDE DEF r
    <2> QED BY <1>1, <1>6, <1>7, EraseGone
<1> QED BY <1>5, <1>8 DEF Listened

(* clear leaves nobody listening. *)
LEMMA ClearKeepsIterators ==
    ASSUME IInv, Clear
    PROVE  KeepsIterators
<1>1. \A id \in Ids : m_receivers'[id] = <<>>
    BY DEF Clear
<1>2. \A id \in Ids : Listened(id)' = {}
    BY <1>1 DEF Listened
<1> QED BY <1>2 DEF KeepsIterators

(* The other actions invalidate no iterator. *)
LEMMA OthersKeepIterators ==
    ASSUME IInv, [Next]_vars, ~Clear,
           ~(\E id \in Ids, l \in Listeners : Unlisten(id, l))
    PROVE  KeepsIterators
<1> SUFFICES ASSUME NEW k \in 1 .. Len(loops), loops[k].iter = "ok", k <= Len(loops')
             PROVE  loops'[k].iter = "ok"
    BY DEF KeepsIterators
<1>1. TypeOK /\ Len(loops) \in Nat
    BY TypeFacts DEF IInv
<1>2. CASE UNCHANGED vars
    BY <1>2 DEF vars
<1>3. CASE \E id \in Ids, l \in Listeners : Listen(id, l)
    BY <1>3 DEF Listen
<1>4. ASSUME NEW id \in Ids, Dispatch(id) PROVE loops'[k].iter = "ok"
    <2> DEFINE f == [id |-> id, pos |-> 1, iter |-> "ok", seen |-> {m_receivers[id][1].l}]
    <2>1. loops' = Append(loops, f)
        BY <1>4 DEF Dispatch
    <2> HIDE DEF f
    <2>2. loops'[k] = loops[k]
        BY <1>1, <2>1 DEF TypeOK
    <2> QED BY <2>2
<1>5. ASSUME Leave, loops # <<>> PROVE loops'[k].iter = "ok"
    <2>1. /\ Len(loops') = Len(loops) - 1
          /\ \A j \in 1 .. Len(loops) - 1 : loops'[j] = loops[j]
        BY <1>1, <1>5, LeaveProperties
    <2>2. k \in 1 .. Len(loops) - 1
        BY <1>1, <2>1
    <2> QED BY <2>1, <2>2
<1>6. CASE Return
    <2>1. CASE Top.pos < Len(m_receivers[Top.id])
        <3>1. CASE k # Len(loops)
            BY <1>6, <2>1, <3>1 DEF Return, Invoke
        <3>2. CASE k = Len(loops)
            BY <1>6, <2>1, <3>2 DEF Return, Invoke, Top
        <3> QED BY <3>1, <3>2
    <2>2. CASE ~(Top.pos < Len(m_receivers[Top.id]))
        BY <1>5, <1>6, <2>2 DEF Return
    <2> QED BY <2>1, <2>2
<1>7. CASE ReturnErased
    <2>1. k # Len(loops)
        BY <1>7 DEF ReturnErased, Top
    <2>2. CASE \E p \in 1 .. Len(m_receivers[Top.id]) : Invoke(p, "astray")
        BY <2>1, <2>2 DEF Invoke
    <2>3. CASE UNCHANGED loops
        BY <2>3
    <2> QED BY <1>5, <1>7, <2>2, <2>3 DEF ReturnErased
<1> QED BY <1>2, <1>3, <1>4, <1>6, <1>7 DEF Next

(***************************************************************************)
(* Through any sequence of listen, unlisten, clear and dispatch calls, the *)
(* iterator of a dispatch in progress is invalidated only by removing the  *)
(* very receiver it stands on: other std::list erases do not disturb it.   *)
(***************************************************************************)
THEOREM IteratorsStayValid == Spec => IteratorsValid
<1>1. IInv /\ [Next]_vars => [KeepsIterators]_vars
    BY UnlistenKeepsIterators, ClearKeepsIterators, OthersKeepIterators
<1> QED BY <1>1, IInvInvariant, PTL DEF Spec, IteratorsValid

-----------------------------------------------------------------------------
(* Only a returning callback advances or leaves a loop. *)
LEMMA OtherOnce ==
    ASSUME IInv, [Next]_vars, ~Return, ~ReturnErased
    PROVE  /\ Len(loops) \in Nat /\ Len(loops') \in Nat /\ Len(loops') >= Len(loops)
           /\ \A k \in 1 .. Len(loops) :
                 loops[k].pos \in Nat /\ loops'[k].pos \in Nat /\ loops'[k].pos <= loops[k].pos
<1> DEFINE P == /\ Len(loops') \in Nat /\ Len(loops') >= Len(loops)
                /\ \A k \in 1 .. Len(loops) :
                      loops'[k].pos \in Nat /\ loops'[k].pos <= loops[k].pos
<1>1. TypeOK /\ Len(loops) \in Nat /\ DOMAIN loops = 1 .. Len(loops)
    BY TypeFacts DEF IInv
<1>2. \A k \in 1 .. Len(loops) : loops[k].pos \in Nat
    BY <1>1, TypeFacts
<1>3. loops' = loops => P
    BY <1>1, <1>2
<1>4. CASE UNCHANGED vars
    BY <1>3, <1>4 DEF vars
<1>5. ASSUME NEW id \in Ids, NEW l \in Listeners, Listen(id, l) PROVE P
    BY <1>3, <1>5 DEF Listen
<1>6. ASSUME NEW id \in Ids, NEW l \in Listeners, Unlisten(id, l) PROVE P
    <2>1. PICK i \in 1 .. Len(m_receivers[id]) : loops' = AfterErase(id, i, l)
        BY <1>6 DEF Unlisten
    <2>2. i \in Nat \ {0}
        BY <1>1, TypeFacts
    <2> HIDE DEF P
    <2>3. /\ Len(loops') = Len(loops)
          /\ \A k \in 1 .. Len(loops) :
               /\ loops'[k].id = loops[k].id
               /\ loops[k].id # id => loops'[k] = loops[k]
               /\ loops[k].id = id =>
                    /\ loops'[k].pos = IF i < loops[k].pos THEN loops[k].pos - 1 ELSE loops[k].pos
                    /\ loops'[k].iter = IF i = loops[k].pos THEN "erased" ELSE loops[k].iter
                    /\ loops'[k].seen = loops[k].seen \ {l}
        BY <1>1, <2>1, <2>2, AfterEraseProperties
    <2>4. ASSUME NEW k \in 1 .. Len(loops)
          PROVE  loops'[k].pos \in Nat /\ loops'[k].pos <= loops[k].pos
        <3>1. CASE loops[k].id # id
            BY <1>2, <2>3, <3>1
        <3>2. CASE loops[k].id = id
            BY <1>2, <2>2, <2>3, <3>2
        <3> QED BY <3>1, <3>2
    <2> QED BY <1>1, <2>3, <2>4 DEF P
<1>7. CASE Clear
    <2>1. loops' = [k \in 1 .. Len(loops) |->
             [id |-> loops[k].id, pos |-> loops[k].pos, iter |-> "erased", seen |-> {}]]
        BY <1>1, <1>7 DEF Clear
    <2>2. \A k \in 1 .. Len(loops) : loops'[k].pos = loops[k].pos
        BY <2>1
    <2>3. Len(loops') = Len(loops)
        BY <1>1, <2>1
    <2> QED BY <1>1, <1>2, <2>2, <2>3
<1>8. ASSUME NEW id \in Ids, Dispatch(id) PROVE P
    <2> DEFINE f == [id |-> id, pos |-> 1, iter |-> "ok", seen |-> {m_receivers[id][1].l}]
    <2>1. loops' = Append(loops, f)
        BY <1>8 DEF Dispatch
    <2> HIDE DEF f
    <2>2. /\ Len(loops') = Len(loops) + 1
          /\ \A k \in 1 .. Len(loops) : loops'[k] = loops[k]
        BY <1>1, <2>1 DEF TypeOK
    <2> QED BY <1>1, <1>2, <2>2
<1>9. P
    BY <1>4, <1>5, <1>6, <1>7, <1>8, SMTT(60) DEF Next
<1> QED BY <1>1, <1>2, <1>9

(* The next node holds a listener not yet invoked; after the last, none is left. *)
LEMMA ReturnOnce ==
    ASSUME IInv, Return
    PROVE  OnceStep
<1> SUFFICES ASSUME NEW k \in 1 .. Len(loops), loops[k].iter = "ok"
             PROVE  /\ k = Len(loops) /\ Len(loops') < k
                         => Listened(loops[k].id) \subseteq loops[k].seen
                    /\ k <= Len(loops') /\ loops'[k].pos > loops[k].pos
                         => m_receivers[loops[k].id][loops'[k].pos].l \notin loops[k].seen
    BY DEF OnceStep
<1> DEFINE r == m_receivers[loops[k].id]
           n == loops[k].pos
<1>1. TypeOK /\ Len(loops) \in Nat /\ loops # <<>>
    BY TypeFacts DEF IInv, Return
<1>2. loops[k].id \in Ids /\ n \in Nat /\ Len(r) \in Nat
    BY <1>1, TypeFacts
<1>3. n \in 1 .. Len(r) /\ loops[k].seen = {r[j].l : j \in 1 .. n}
    BY DEF IInv, InvokedPrefix
<1>4. \A i, j \in 1 .. Len(r) : r[i].l = r[j].l => i = j
    BY <1>2 DEF IInv, NoDuplicates
<1>5. CASE k # Len(loops)
    <2>1. k <= Len(loops') => loops'[k] = loops[k]
        <3>1. CASE Top.pos < Len(m_receivers[Top.id])
            BY <1>5, <3>1 DEF Return, Invoke
        <3>2. CASE ~(Top.pos < Len(m_receivers[Top.id]))
            <4>1. \A j \in 1 .. Len(loops) - 1 : loops'[j] = loops[j]
                BY <1>1, <3>2, LeaveProperties DEF Return
            <4>2. k \in 1 .. Len(loops) - 1
                BY <1>1, <1>5
            <4> QED BY <4>1, <4>2
        <3> QED BY <3>1, <3>2
    <2> QED BY <1>2, <1>5, <2>1
<1>6. CASE k = Len(loops)
    <2>1. Top = loops[k]
        BY <1>6 DEF Top
    <2>2. CASE n < Len(r)
        <3> DEFINE p == n + 1
        <3>1. p \in 1 .. Len(r) /\ p \notin 1 .. n
            BY <1>2, <2>2
        <3>2. p \in 1 .. Len(m_receivers[Top.id]) /\ Top.iter \in {"ok", "erased", "astray"}
            BY <2>1, <3>1
        <3>3. Invoke(p, Top.iter)
            BY <2>1, <2>2 DEF Return
        <3>4. Len(loops') = Len(loops) /\ loops'[k].pos = p
            <4> HIDE DEF p
            <4>1. /\ Len(loops') = Len(loops)
                  /\ loops'[Len(loops)] =
                       [id |-> Top.id, pos |-> p, iter |-> Top.iter,
                        seen |-> Top.seen \cup {m_receivers[Top.id][p].l}]
                BY <1>1, <3>2, <3>3, InvokeProperties, Zenon
            <4> QED BY <1>6, <4>1
        <3>5. r[p].l \notin {r[j].l : j \in 1 .. n}
            <4>1. \A j \in 1 .. n : j \in 1 .. Len(r) /\ j # p
                BY <1>2, <2>2
            <4> HIDE DEF p, r, n
            <4> QED BY <1>4, <3>1, <4>1
        <3>6. r[loops'[k].pos].l \notin loops[k].seen
            BY <1>3, <3>4, <3>5, Zenon
        <3> QED BY <1>1, <1>6, <3>4, <3>6
    <2>3. CASE ~(n < Len(r))
        <3>1. Len(loops') = Len(loops) - 1
            BY <1>1, <2>1, <2>3, LeaveProperties DEF Return
        <3>2. n = Len(r)
            BY <1>2, <1>3, <2>3
        <3>3. Listened(loops[k].id) = loops[k].seen
            BY <1>3, <3>2 DEF Listened
        <3> QED BY <1>1, <1>6, <3>1, <3>3
    <2> QED BY <2>2, <2>3
<1> QED BY <1>5, <1>6

(* An erased iterator is the innermost loop's: the valid ones stay put. *)
LEMMA ReturnErasedOnce ==
    ASSUME IInv, ReturnErased
    PROVE  OnceStep
<1> SUFFICES ASSUME NEW k \in 1 .. Len(loops), loops[k].iter = "ok"
             PROVE  k # Len(loops) /\ (k <= Len(loops') => loops'[k].pos = loops[k].pos)
    <2>1. \A k \in 1 .. Len(loops) : loops[k].pos \in Nat
        BY TypeFacts, Zenon DEF IInv
    <2> QED BY <2>1, SMTT(60) DEF OnceStep
<1>1. TypeOK /\ Len(loops) \in Nat /\ loops # <<>>
    BY TypeFacts DEF IInv, ReturnErased
<1>2. k # Len(loops)
    BY DEF ReturnErased, Top
<1>3. CASE UNCHANGED loops
    BY <1>2, <1>3
<1>4. CASE Leave
    <2>1. \A j \in 1 .. Len(loops) - 1 : loops'[j] = loops[j]
        BY <1>1, <1>4, LeaveProperties
    <2>2. k \in 1 .. Len(loops) - 1
        BY <1>1, <1>2
    <2> QED BY <1>2, <2>1, <2>2
<1>5. CASE \E p \in 1 .. Len(m_receivers[Top.id]) : Invoke(p, "astray")
    BY <1>2, <1>5 DEF Invoke
<1> QED BY <1>3, <1>4, <1>5 DEF ReturnErased

(***************************************************************************)
(* dispatch invokes a listener at most once per registration and misses    *)
(* nobody who listens when it leaves its loop: for any callbacks, as long  *)
(* as the loop's own iterator has not been erased.                         *)
(***************************************************************************)
THEOREM DispatchOnce == Spec => ExactlyOnce
<1>1. IInv /\ [Next]_vars => [OnceStep]_vars
    <2> SUFFICES ASSUME IInv, [Next]_vars PROVE OnceStep
        OBVIOUS
    <2>1. CASE Return
        BY <2>1, ReturnOnce
    <2>2. CASE ReturnErased
        BY <2>2, ReturnErasedOnce
    <2>3. CASE ~Return /\ ~ReturnErased
        <3>1. /\ Len(loops) \in Nat /\ Len(loops') \in Nat /\ Len(loops') >= Len(loops)
              /\ \A k \in 1 .. Len(loops) :
                   loops[k].pos \in Nat /\ loops'[k].pos \in Nat /\ loops'[k].pos <= loops[k].pos
            BY <2>3, OtherOnce
        <3> QED BY <3>1 DEF OnceStep
    <2> QED BY <2>1, <2>2, <2>3
<1> QED BY <1>1, IInvInvariant, PTL DEF Spec, ExactlyOnce

=============================================================================
