------------------------ MODULE DispatcherRefinement ------------------------
(***************************************************************************)
(* The dispatcher implements EventBus, for every set of ids and listeners: *)
(* lists, iterators and the shifting of iterators by erased nodes amount   *)
(* to a set of registrations and passes over it.                           *)
(***************************************************************************)
EXTENDS DispatcherProofs

(* The listeners of a list of receivers. *)
ListenersOf(r) == {r[i].l : i \in 1 .. Len(r)}

LEMMA ListenersOfAppend ==
    ASSUME NEW r \in Seq(Receiver), NEW rcv \in Receiver
    PROVE  ListenersOf(Append(r, rcv)) = ListenersOf(r) \cup {rcv.l}
<1> DEFINE q == Append(r, rcv)
<1>1. /\ Len(r) \in Nat /\ Len(q) = Len(r) + 1
      /\ \A i \in 1 .. Len(r) : q[i] = r[i]
      /\ q[Len(r) + 1] = rcv
    BY AppendProperties, LenProperties
<1> HIDE DEF q
<1>2. ASSUME NEW x \in ListenersOf(q) PROVE x \in ListenersOf(r) \cup {rcv.l}
    <2>1. PICK i \in 1 .. Len(q) : x = q[i].l
        BY DEF ListenersOf
    <2>2. CASE i \in 1 .. Len(r)
        BY <1>1, <2>1, <2>2 DEF ListenersOf
    <2>3. CASE i = Len(r) + 1
        BY <1>1, <2>1, <2>3
    <2> QED BY <1>1, <2>2, <2>3
<1>3. ASSUME NEW x \in ListenersOf(r) PROVE x \in ListenersOf(q)
    <2>1. PICK i \in 1 .. Len(r) : x = r[i].l
        BY DEF ListenersOf
    <2>2. i \in 1 .. Len(q) /\ q[i] = r[i]
        BY <1>1
    <2> QED BY <2>1, <2>2 DEF ListenersOf
<1>4. rcv.l \in ListenersOf(q)
    <2>1. Len(r) + 1 \in 1 .. Len(q)
        BY <1>1
    <2> QED BY <1>1, <2>1 DEF ListenersOf
<1>5. ListenersOf(q) = ListenersOf(r) \cup {rcv.l}
    BY <1>2, <1>3, <1>4
<1> QED BY <1>5 DEF q

LEMMA ListenersOfErase ==
    ASSUME NEW r \in Seq(Receiver), NEW i \in 1 .. Len(r),
           \A y, z \in 1 .. Len(r) : r[y].l = r[z].l => y = z
    PROVE  ListenersOf(Erase(r, i)) = ListenersOf(r) \ {r[i].l}
<1> DEFINE q == Erase(r, i)
<1>1. /\ Len(r) \in Nat /\ Len(q) = Len(r) - 1
      /\ \A j \in 1 .. i - 1 : q[j] = r[j]
      /\ \A j \in i + 1 .. Len(r) : q[j - 1] = r[j]
    BY EraseProperties, LenProperties
<1>2. \A y \in 1 .. Len(q) : q[y].l # r[i].l
    BY EraseGone
<1> HIDE DEF q
<1>3. ASSUME NEW y \in 1 .. Len(q) PROVE \E n \in 1 .. Len(r) : q[y].l = r[n].l
    <2>1. CASE y < i
        <3>1. y \in 1 .. i - 1 /\ y \in 1 .. Len(r)
            BY <1>1, <2>1
        <3> QED BY <1>1, <3>1
    <2>2. CASE ~(y < i)
        <3>1. y + 1 \in i + 1 .. Len(r) /\ y + 1 \in 1 .. Len(r) /\ (y + 1) - 1 = y
            BY <1>1, <2>2
        <3>2. q[(y + 1) - 1] = r[y + 1]
            BY <1>1, <3>1
        <3> QED BY <3>1, <3>2
    <2> QED BY <2>1, <2>2
<1>4. ASSUME NEW j \in 1 .. Len(r), r[j].l # r[i].l PROVE \E n \in 1 .. Len(q) : q[n].l = r[j].l
    <2>1. CASE j < i
        <3>1. j \in 1 .. i - 1 /\ j \in 1 .. Len(q)
            BY <1>1, <2>1
        <3> QED BY <1>1, <3>1
    <2>2. CASE i < j
        <3>1. j \in i + 1 .. Len(r) /\ j - 1 \in 1 .. Len(q)
            BY <1>1, <2>2
        <3>2. q[j - 1] = r[j]
            BY <1>1, <3>1
        <3> QED BY <3>1, <3>2
    <2>3. j # i
        BY <1>4
    <2> QED BY <1>1, <2>1, <2>2, <2>3
<1>5. ASSUME NEW x \in ListenersOf(q) PROVE x \in ListenersOf(r) \ {r[i].l}
    BY <1>2, <1>3 DEF ListenersOf
<1>6. ASSUME NEW x \in ListenersOf(r) \ {r[i].l} PROVE x \in ListenersOf(q)
    BY <1>4 DEF ListenersOf
<1>7. ListenersOf(q) = ListenersOf(r) \ {r[i].l}
    BY <1>5, <1>6
<1> QED BY <1>7 DEF q

(* listen registers l for id, unlisten unregisters it, and nothing else changes. *)
LEMMA ListenRegisters ==
    ASSUME IInv, NEW id \in Ids, NEW l \in Listeners, Listen(id, l)
    PROVE  \A d \in Ids : Listened(d)' = IF d = id THEN Listened(d) \cup {l} ELSE Listened(d)
<1> DEFINE rcv == [m_id |-> id, l |-> l]
<1>1. \A d \in Ids : /\ Listened(d) = ListenersOf(m_receivers[d])
                     /\ Listened(d)' = ListenersOf(m_receivers'[d])
    BY DEF Listened, ListenersOf
<1>2. m_receivers[id] \in Seq(Receiver) /\ rcv \in Receiver /\ rcv.l = l
    BY Zenon DEF IInv, TypeOK, Receiver
<1>3. CASE HasEqual(id, rcv)
    <2>1. m_receivers' = m_receivers
        BY <1>3 DEF Listen
    <2>2. l \in ListenersOf(m_receivers[id])
        BY <1>3 DEF HasEqual, equals, ListenersOf
    <2> QED BY <1>1, <2>1, <2>2
<1>4. CASE ~HasEqual(id, rcv)
    <2>1. m_receivers' = [m_receivers EXCEPT ![id] = Append(@, rcv)]
        BY <1>4 DEF Listen
    <2>2. /\ m_receivers'[id] = Append(m_receivers[id], rcv)
          /\ \A d \in Ids \ {id} : m_receivers'[d] = m_receivers[d]
        BY <2>1 DEF IInv, TypeOK
    <2> HIDE DEF rcv
    <2>3. ListenersOf(m_receivers'[id]) = ListenersOf(m_receivers[id]) \cup {l}
        BY <1>2, <2>2, ListenersOfAppend
    <2> QED BY <1>1, <2>2, <2>3, Zenon
<1> QED BY <1>3, <1>4

LEMMA UnlistenUnregisters ==
    ASSUME IInv, NEW id \in Ids, NEW l \in Listeners, Unlisten(id, l)
    PROVE  \A d \in Ids : Listened(d)' = IF d = id THEN Listened(d) \ {l} ELSE Listened(d)
<1>1. \A d \in Ids : /\ Listened(d) = ListenersOf(m_receivers[d])
                     /\ Listened(d)' = ListenersOf(m_receivers'[d])
    BY DEF Listened, ListenersOf
<1>2. PICK i \in 1 .. Len(m_receivers[id]) :
         /\ m_receivers[id][i].l = l
         /\ m_receivers' = [m_receivers EXCEPT ![id] = Erase(@, i)]
    BY Zenon DEF Unlisten, equals
<1>3. /\ m_receivers[id] \in Seq(Receiver)
      /\ m_receivers'[id] = Erase(m_receivers[id], i)
      /\ \A d \in Ids \ {id} : m_receivers'[d] = m_receivers[d]
    BY <1>2 DEF IInv, TypeOK
<1>4. \A y, z \in 1 .. Len(m_receivers[id]) : m_receivers[id][y].l = m_receivers[id][z].l => y = z
    BY DEF IInv, NoDuplicates
<1>5. ListenersOf(m_receivers'[id]) = ListenersOf(m_receivers[id]) \ {l}
    BY <1>2, <1>3, <1>4, ListenersOfErase
<1> QED BY <1>1, <1>3, <1>5

-----------------------------------------------------------------------------
(* Functions on 1 .. n are sequences. *)

LEMMA FunIsSeq ==
    ASSUME NEW n \in Nat, NEW g, g = [k \in 1 .. n |-> g[k]],
           NEW S, \A k \in 1 .. n : g[k] \in S
    PROVE  g \in Seq(S) /\ Len(g) = n
<1>1. g \in [1 .. n -> S] /\ DOMAIN g = 1 .. n
    BY Zenon
<1>2. g \in Seq(S)
    BY <1>1, SeqDef
<1>3. DOMAIN g = 1 .. Len(g) /\ Len(g) \in Nat
    BY <1>2, LenProperties
<1> QED BY <1>1, <1>2, <1>3

LEMMA FunAppend ==
    ASSUME NEW n \in Nat, NEW g, g = [k \in 1 .. n |-> g[k]],
           NEW h, h = [k \in 1 .. n + 1 |-> h[k]], \A k \in 1 .. n : h[k] = g[k]
    PROVE  h = Append(g, h[n + 1]) /\ Len(g) = n
<1> DEFINE S == {h[k] : k \in 1 .. n + 1}
           a == Append(g, h[n + 1])
<1>1. n + 1 \in Nat /\ n + 1 \in 1 .. n + 1 /\ \A k \in 1 .. n : k \in 1 .. n + 1
    OBVIOUS
<1>2. /\ \A k \in 1 .. n + 1 : h[k] \in S
      /\ \A k \in 1 .. n : g[k] \in S
      /\ h[n + 1] \in S
    BY <1>1
<1> HIDE DEF S
<1>3. g \in Seq(S) /\ Len(g) = n
    BY <1>2, FunIsSeq
<1>4. h \in Seq(S) /\ Len(h) = n + 1
    BY <1>1, <1>2, FunIsSeq
<1>5. /\ a \in Seq(S) /\ Len(a) = Len(g) + 1
      /\ \A i \in 1 .. Len(g) : a[i] = g[i]
      /\ a[Len(g) + 1] = h[n + 1]
    BY <1>2, <1>3, AppendProperties
<1> HIDE DEF a
<1>6. Len(h) = Len(a) /\ \A i \in 1 .. Len(h) : h[i] = a[i]
    <2> SUFFICES ASSUME NEW i \in 1 .. n + 1 PROVE h[i] = a[i]
        BY <1>3, <1>4, <1>5
    <2>1. CASE i \in 1 .. n
        BY <1>3, <1>5, <2>1, Zenon
    <2>2. CASE i = n + 1
        BY <1>3, <1>5, <2>2
    <2> QED BY <2>1, <2>2
<1>7. h = a
    BY <1>4, <1>5, <1>6, SeqEqual
<1> QED BY <1>3, <1>7, Zenon DEF a

LEMMA FunFront ==
    ASSUME NEW n \in Nat, n > 0, NEW g, g = [k \in 1 .. n |-> g[k]],
           NEW h, h = [k \in 1 .. n - 1 |-> h[k]], \A k \in 1 .. n - 1 : h[k] = g[k]
    PROVE  h = SubSeq(g, 1, n - 1) /\ Len(g) = n
<1> DEFINE S == {g[k] : k \in 1 .. n}
           a == SubSeq(g, 1, n - 1)
<1>1. n - 1 \in Nat /\ \A k \in 1 .. n - 1 : k \in 1 .. n
    OBVIOUS
<1>2. /\ \A k \in 1 .. n : g[k] \in S
      /\ \A k \in 1 .. n - 1 : g[k] \in S
      /\ \A k \in 1 .. n - 1 : h[k] \in S
    BY <1>1, Zenon
<1> HIDE DEF S
<1>3. g \in Seq(S) /\ Len(g) = n
    BY <1>2, FunIsSeq
<1>4. h \in Seq(S) /\ Len(h) = n - 1
    BY <1>1, <1>2, FunIsSeq
<1>5. 1 \in Int /\ n - 1 \in Int /\ (n - 1) - 1 + 1 = n - 1
    OBVIOUS
<1>6. /\ a \in Seq(S) /\ Len(a) = IF 1 <= n - 1 THEN (n - 1) - 1 + 1 ELSE 0
      /\ \A i \in 1 .. (n - 1) - 1 + 1 : a[i] = g[1 + i - 1]
    BY <1>2, <1>5, SubSeqProperties
<1> HIDE DEF a
<1>7. Len(a) = n - 1
    BY <1>6
<1>8. ASSUME NEW i \in 1 .. n - 1 PROVE h[i] = a[i]
    <2>1. i \in 1 .. (n - 1) - 1 + 1 /\ 1 + i - 1 = i
        OBVIOUS
    <2>2. a[i] = g[1 + i - 1]
        BY <1>6, <2>1, Zenon
    <2> QED BY <2>1, <2>2, Zenon
<1>9. h = a
    BY <1>4, <1>6, <1>7, <1>8, SeqEqual
<1> QED BY <1>3, <1>9, Zenon DEF a

-----------------------------------------------------------------------------
(* The registrations and the passes that the lists and the loops stand for. *)

Registered == {p \in Ids \X Listeners : p[2] \in Listened(p[1])}

Pass(k) ==
    IF loops[k].iter = "ok"
    THEN [id |-> loops[k].id, told |-> loops[k].seen,
          now |-> {m_receivers[loops[k].id][loops[k].pos].l}]
    ELSE [id |-> loops[k].id, told |-> {}, now |-> {}]

Passes == [k \in 1 .. Len(loops) |-> Pass(k)]

LEMMA PassesFacts ==
    ASSUME TypeOK
    PROVE  /\ Len(loops) \in Nat
           /\ Passes = [k \in 1 .. Len(loops) |-> Passes[k]]
           /\ DOMAIN Passes = 1 .. Len(loops)
           /\ Len(Passes) = Len(loops)
           /\ loops = <<>> <=> Passes = <<>>
           /\ \A k \in 1 .. Len(loops) : Passes[k] = Pass(k)
<1>1. Len(loops) \in Nat /\ loops \in Seq(Loop)
    BY TypeFacts DEF TypeOK
<1>2. /\ Passes = [k \in 1 .. Len(loops) |-> Passes[k]]
      /\ DOMAIN Passes = 1 .. Len(loops)
      /\ \A k \in 1 .. Len(loops) : Passes[k] = Pass(k)
    BY DEF Passes
<1> DEFINE S == {Passes[k] : k \in 1 .. Len(loops)}
<1>3. \A k \in 1 .. Len(loops) : Passes[k] \in S
    OBVIOUS
<1> HIDE DEF S
<1>4. Passes \in Seq(S) /\ Len(Passes) = Len(loops)
    BY <1>1, <1>2, <1>3, FunIsSeq
<1>5. loops = <<>> <=> Passes = <<>>
    BY <1>1, <1>4, EmptySeq
<1> QED BY <1>1, <1>2, <1>4, <1>5

(* The node under a valid iterator is in the list, and its listener was told. *)
LEMMA PassNode ==
    ASSUME IInv, NEW k \in 1 .. Len(loops), loops[k].iter = "ok"
    PROVE  /\ loops[k].id \in Ids
           /\ loops[k].pos \in 1 .. Len(m_receivers[loops[k].id])
           /\ Len(m_receivers[loops[k].id]) \in Nat
           /\ loops[k].seen = {m_receivers[loops[k].id][j].l : j \in 1 .. loops[k].pos}
<1>1. loops[k].id \in Ids
    BY TypeFacts DEF IInv
<1>2. Len(m_receivers[loops[k].id]) \in Nat
    BY <1>1, TypeFacts DEF IInv
<1> QED BY <1>1, <1>2 DEF IInv, InvokedPrefix

LEMMA ListenIsRegister ==
    ASSUME IInv, NEW id \in Ids, NEW l \in Listeners, Listen(id, l)
    PROVE  Registered' = Registered \cup {<<id, l>>} /\ Passes' = Passes
<1>1. Registered' = Registered \cup {<<id, l>>}
    <2>1. \A d \in Ids : Listened(d)' = IF d = id THEN Listened(d) \cup {l} ELSE Listened(d)
        BY ListenRegisters
    <2>2. ASSUME NEW d \in Ids, NEW m \in Listeners
          PROVE  <<d, m>> \in Registered' <=> <<d, m>> \in Registered \/ (d = id /\ m = l)
        BY <2>1 DEF Registered
    <2>3. Registered' \subseteq Ids \X Listeners /\ Registered \subseteq Ids \X Listeners
        BY DEF Registered
    <2> QED BY <2>2, <2>3
<1> DEFINE rcv == [m_id |-> id, l |-> l]
<1>2. loops' = loops
    BY DEF Listen
<1>3. ASSUME NEW d \in Ids, NEW i \in 1 .. Len(m_receivers[d])
      PROVE  m_receivers'[d][i] = m_receivers[d][i]
    <2>1. m_receivers[id] \in Seq(Receiver) /\ rcv \in Receiver
        BY Zenon DEF IInv, TypeOK, Receiver
    <2>2. CASE m_receivers' = m_receivers
        BY <2>2
    <2>3. CASE m_receivers' = [m_receivers EXCEPT ![id] = Append(@, rcv)]
        <3>1. /\ m_receivers'[id] = Append(m_receivers[id], rcv)
              /\ d # id => m_receivers'[d] = m_receivers[d]
            BY <2>3 DEF IInv, TypeOK
        <3> HIDE DEF rcv
        <3>2. \A j \in 1 .. Len(m_receivers[id]) : Append(m_receivers[id], rcv)[j] = m_receivers[id][j]
            BY <2>1, AppendProperties
        <3> QED BY <3>1, <3>2
    <2> QED BY <2>2, <2>3 DEF Listen
<1>4. ASSUME NEW k \in 1 .. Len(loops) PROVE Pass(k)' = Pass(k)
    <2>1. CASE loops[k].iter = "ok"
        <3>1. loops[k].id \in Ids /\ loops[k].pos \in 1 .. Len(m_receivers[loops[k].id])
            BY <2>1, PassNode
        <3>2. m_receivers'[loops[k].id][loops[k].pos] = m_receivers[loops[k].id][loops[k].pos]
            BY <1>3, <3>1
        <3> QED BY <1>2, <3>2 DEF Pass
    <2>2. CASE loops[k].iter # "ok"
        BY <1>2, <2>2 DEF Pass
    <2> QED BY <2>1, <2>2
<1>5. Passes' = Passes
    BY <1>2, <1>4 DEF Passes
<1> QED BY <1>1, <1>5

(* The node under an iterator stays under it when another node is erased. *)
LEMMA EraseKeepsNode ==
    ASSUME NEW r \in Seq(Receiver), NEW i \in 1 .. Len(r), NEW p \in 1 .. Len(r), p # i
    PROVE  Erase(r, i)[IF i < p THEN p - 1 ELSE p] = r[p]
<1>1. /\ Len(r) \in Nat
      /\ \A j \in 1 .. i - 1 : Erase(r, i)[j] = r[j]
      /\ \A j \in i + 1 .. Len(r) : Erase(r, i)[j - 1] = r[j]
    BY EraseProperties, LenProperties
<1>2. CASE i < p
    <2>1. p \in i + 1 .. Len(r)
        BY <1>1, <1>2
    <2> QED BY <1>1, <1>2, <2>1
<1>3. CASE ~(i < p)
    <2>1. p \in 1 .. i - 1
        BY <1>1, <1>3
    <2> QED BY <1>1, <1>3, <2>1
<1> QED BY <1>2, <1>3

(* What Unregister does to a pass. *)
UnregisterPass(p, id, l) ==
    IF p.id # id THEN p
    ELSE IF l \in p.now THEN [id |-> id, told |-> {}, now |-> {}]
    ELSE [p EXCEPT !.told = @ \ {l}]

PassType == [id : Ids, told : SUBSET Listeners, now : SUBSET Listeners]

LEMMA ToldLess ==
    \A l : \A p \in PassType :
        [p EXCEPT !.told = @ \ {l}] = [id |-> p.id, told |-> p.told \ {l}, now |-> p.now]
BY DEF PassType

LEMMA PassTyped ==
    ASSUME IInv, NEW k \in 1 .. Len(loops)
    PROVE  Pass(k) \in PassType
<1>1. loops[k] \in Loop /\ loops[k].id \in Ids /\ loops[k].seen \in SUBSET Listeners
    BY TypeFacts DEF IInv, Loop
<1>2. CASE loops[k].iter = "ok"
    <2>1. loops[k].pos \in 1 .. Len(m_receivers[loops[k].id])
        BY <1>2, PassNode
    <2>2. m_receivers[loops[k].id][loops[k].pos].l \in Listeners
        BY <1>1, <2>1, TypeFacts DEF IInv
    <2> QED BY <1>1, <1>2, <2>2 DEF Pass, PassType
<1>3. CASE loops[k].iter # "ok"
    BY <1>1, <1>3 DEF Pass, PassType
<1> QED BY <1>2, <1>3

LEMMA UnlistenIsUnregister ==
    ASSUME IInv, NEW id \in Ids, NEW l \in Listeners, Unlisten(id, l)
    PROVE  /\ Registered' = Registered \ {<<id, l>>}
           /\ Passes' = [k \in DOMAIN Passes |-> UnregisterPass(Passes[k], id, l)]
<1>1. Registered' = Registered \ {<<id, l>>}
    <2>1. \A d \in Ids : Listened(d)' = IF d = id THEN Listened(d) \ {l} ELSE Listened(d)
        BY UnlistenUnregisters
    <2>2. ASSUME NEW d \in Ids, NEW m \in Listeners
          PROVE  <<d, m>> \in Registered' <=> <<d, m>> \in Registered /\ ~(d = id /\ m = l)
        BY <2>1 DEF Registered
    <2>3. Registered' \subseteq Ids \X Listeners /\ Registered \subseteq Ids \X Listeners
        BY DEF Registered
    <2> QED BY <2>2, <2>3
<1> DEFINE r == m_receivers[id]
<1>2. /\ TypeOK /\ r \in Seq(Receiver) /\ Len(r) \in Nat
      /\ \A k \in 1 .. Len(loops) : loops[k].id \in Ids /\ loops[k].pos \in Nat
    BY TypeFacts DEF IInv
<1>3. PICK i \in 1 .. Len(r) :
        /\ r[i].l = l
        /\ m_receivers' = [m_receivers EXCEPT ![id] = Erase(@, i)]
        /\ loops' = AfterErase(id, i, l)
    BY Zenon DEF Unlisten, equals
<1>4. /\ m_receivers'[id] = Erase(r, i)
      /\ \A x \in Ids : x # id => m_receivers'[x] = m_receivers[x]
    BY <1>2, <1>3 DEF TypeOK
<1>5. i \in Nat \ {0}
    BY <1>2
<1>6. /\ Len(loops') = Len(loops)
      /\ \A k \in 1 .. Len(loops) :
            /\ loops'[k].id = loops[k].id
            /\ loops[k].id # id => loops'[k] = loops[k]
            /\ loops[k].id = id =>
                 /\ loops'[k].pos = IF i < loops[k].pos THEN loops[k].pos - 1 ELSE loops[k].pos
                 /\ loops'[k].iter = IF i = loops[k].pos THEN "erased" ELSE loops[k].iter
                 /\ loops'[k].seen = loops[k].seen \ {l}
    BY <1>2, <1>3, <1>5, AfterEraseProperties
<1>7. \A y, z \in 1 .. Len(r) : r[y].l = r[z].l => y = z
    BY DEF IInv, NoDuplicates
<1> HIDE DEF r
<1>8. ASSUME NEW k \in 1 .. Len(loops) PROVE Pass(k)' = UnregisterPass(Pass(k), id, l)
    <2>1. CASE loops[k].id # id
        <3>1. m_receivers'[loops[k].id] = m_receivers[loops[k].id]
            BY <1>2, <1>4, <2>1
        <3>2. Pass(k)' = Pass(k)
            BY <1>6, <2>1, <3>1, Zenon DEF Pass
        <3>3. Pass(k).id = loops[k].id
            BY DEF Pass
        <3> QED BY <2>1, <3>2, <3>3 DEF UnregisterPass
    <2>2. CASE loops[k].id = id /\ loops[k].iter # "ok"
        <3>1. loops'[k].iter # "ok" /\ loops'[k].id = id
            BY <1>6, <2>2
        <3>2. Pass(k) = [id |-> id, told |-> {}, now |-> {}]
            BY <2>2 DEF Pass
        <3>3. Pass(k)' = [id |-> id, told |-> {}, now |-> {}]
            BY <3>1 DEF Pass
        <3>4. UnregisterPass(Pass(k), id, l) = [id |-> id, told |-> {}, now |-> {}]
            <4>1. [Pass(k) EXCEPT !.told = @ \ {l}]
                     = [id |-> Pass(k).id, told |-> Pass(k).told \ {l}, now |-> Pass(k).now]
                BY ToldLess, PassTyped, Zenon
            <4>2. /\ l \notin Pass(k).now /\ Pass(k).id = id
                  /\ Pass(k).told \ {l} = {} /\ Pass(k).now = {}
                BY <3>2
            <4> QED BY <4>1, <4>2, Zenon DEF UnregisterPass
        <3> QED BY <3>3, <3>4
    <2>3. CASE loops[k].id = id /\ loops[k].iter = "ok"
        <3> DEFINE p == loops[k].pos
        <3>1. p \in 1 .. Len(r)
            BY <2>3, PassNode DEF r
        <3>2. Pass(k) = [id |-> id, told |-> loops[k].seen, now |-> {r[p].l}]
            BY <2>3 DEF Pass, r
        <3> HIDE DEF p
        <3>3. CASE p = i
            <4>1. loops'[k].iter = "erased" /\ loops'[k].id = id
                BY <1>6, <2>3, <3>3 DEF p
            <4>2. Pass(k)' = [id |-> id, told |-> {}, now |-> {}]
                BY <4>1 DEF Pass
            <4>3. l \in Pass(k).now /\ Pass(k).id = id
                BY <1>3, <3>2, <3>3
            <4> QED BY <4>2, <4>3 DEF UnregisterPass
        <3>4. CASE p # i
            <4>1. /\ loops'[k].iter = "ok" /\ loops'[k].id = id
                  /\ loops'[k].pos = IF i < p THEN p - 1 ELSE p
                  /\ loops'[k].seen = loops[k].seen \ {l}
                BY <1>6, <2>3, <3>4 DEF p
            <4>2. m_receivers'[id][loops'[k].pos] = r[p]
                <5>1. Erase(r, i)[IF i < p THEN p - 1 ELSE p] = r[p]
                    BY <1>2, <3>1, <3>4, EraseKeepsNode
                <5> QED BY <1>4, <4>1, <5>1
            <4>3. Pass(k)' = [id |-> id, told |-> loops[k].seen \ {l}, now |-> {r[p].l}]
                BY <4>1, <4>2 DEF Pass
            <4>4. l \notin Pass(k).now /\ Pass(k).id = id
                BY <1>3, <1>7, <3>1, <3>2, <3>4
            <4>5. UnregisterPass(Pass(k), id, l) = [Pass(k) EXCEPT !.told = @ \ {l}]
                BY <4>4 DEF UnregisterPass
            <4>6. [Pass(k) EXCEPT !.told = @ \ {l}]
                     = [id |-> id, told |-> loops[k].seen \ {l}, now |-> {r[p].l}]
                <5>1. [Pass(k) EXCEPT !.told = @ \ {l}]
                         = [id |-> Pass(k).id, told |-> Pass(k).told \ {l}, now |-> Pass(k).now]
                    BY ToldLess, PassTyped, Zenon
                <5>2. Pass(k).id = id /\ Pass(k).told = loops[k].seen /\ Pass(k).now = {r[p].l}
                    BY <3>2
                <5> QED BY <5>1, <5>2
            <4> QED BY <4>3, <4>5, <4>6
        <3> QED BY <3>3, <3>4
    <2> QED BY <2>1, <2>2, <2>3
<1>9. DOMAIN Passes = 1 .. Len(loops) /\ \A k \in 1 .. Len(loops) : Passes[k] = Pass(k)
    BY <1>2, PassesFacts
<1>10. Passes' = [k \in 1 .. Len(loops) |-> Pass(k)']
    BY <1>6 DEF Passes
<1> QED BY <1>1, <1>8, <1>9, <1>10

LEMMA ClearIsUnregisterAll ==
    ASSUME IInv, Clear
    PROVE  /\ Registered' = {}
           /\ Passes' = [k \in DOMAIN Passes |-> [id |-> Passes[k].id, told |-> {}, now |-> {}]]
<1>1. /\ m_receivers' = [id \in Ids |-> <<>>]
      /\ loops' = [k \in DOMAIN loops |->
                     [id |-> loops[k].id, pos |-> loops[k].pos, iter |-> "erased", seen |-> {}]]
    BY DEF Clear
<1>2. /\ Len(loops) \in Nat /\ DOMAIN loops = 1 .. Len(loops)
      /\ TypeOK /\ loops \in Seq(Loop)
    BY TypeFacts DEF IInv, TypeOK
<1>3. Len(loops') = Len(loops)
    <2>1. loops' \in Seq(Loop)
        BY ClearIInv DEF IInv, TypeOK
    <2>2. DOMAIN loops' = 1 .. Len(loops) /\ DOMAIN loops' = 1 .. Len(loops') /\ Len(loops') \in Nat
        BY <1>1, <1>2, <2>1, LenProperties
    <2> QED BY <1>2, <2>2
<1>4. Registered' = {}
    <2>1. \A d \in Ids : Listened(d)' = {}
        BY <1>1 DEF Listened
    <2> QED BY <2>1 DEF Registered
<1>5. ASSUME NEW k \in 1 .. Len(loops)
      PROVE  Pass(k)' = [id |-> Pass(k).id, told |-> {}, now |-> {}]
    <2>1. loops'[k].id = loops[k].id /\ loops'[k].iter = "erased"
        BY <1>1, <1>2
    <2>2. Pass(k).id = loops[k].id
        BY DEF Pass
    <2> QED BY <2>1, <2>2 DEF Pass
<1>6. DOMAIN Passes = 1 .. Len(loops) /\ \A k \in 1 .. Len(loops) : Passes[k] = Pass(k)
    BY <1>2, PassesFacts
<1>7. Passes' = [k \in 1 .. Len(loops) |-> Pass(k)']
    BY <1>3 DEF Passes
<1> QED BY <1>4, <1>5, <1>6, <1>7

LEMMA DispatchIsBegin ==
    ASSUME IInv, NEW id \in Ids, Dispatch(id)
    PROVE  \E l \in Listeners :
              /\ <<id, l>> \in Registered
              /\ Passes' = Append(Passes, [id |-> id, told |-> {l}, now |-> {l}])
              /\ Registered' = Registered
<1> DEFINE f == [id |-> id, pos |-> 1, iter |-> "ok", seen |-> {m_receivers[id][1].l}]
           n == Len(loops)
<1>1. /\ loops' = Append(loops, f)
      /\ m_receivers' = m_receivers
      /\ m_receivers[id] # <<>>
    BY DEF Dispatch
<1>2. /\ TypeOK /\ n \in Nat /\ loops \in Seq(Loop)
      /\ m_receivers[id] \in Seq(Receiver) /\ Len(m_receivers[id]) \in Nat
    BY TypeFacts DEF IInv, TypeOK
<1>3. 1 \in 1 .. Len(m_receivers[id])
    BY <1>1, <1>2, EmptySeq
<1>4. PICK l \in Listeners : l = m_receivers[id][1].l
    BY <1>2, <1>3, TypeFacts
<1>5. <<id, l>> \in Registered
    BY <1>3, <1>4 DEF Registered, Listened
<1>6. Registered' = Registered
    BY <1>1 DEF Registered, Listened
<1>7. f \in Loop
    BY <1>4 DEF Loop
<1>8. /\ f.iter = "ok" /\ f.id = id /\ f.pos = 1 /\ f.seen = {l}
    BY <1>4
<1> HIDE DEF f
<1>9. /\ loops' \in Seq(Loop) /\ Len(loops') = n + 1
      /\ \A k \in 1 .. n : loops'[k] = loops[k]
      /\ loops'[n + 1] = f
    BY <1>1, <1>2, <1>7, AppendProperties
<1> HIDE DEF n
<1>10. Passes' = [k \in 1 .. n + 1 |-> Passes'[k]]
    BY <1>9 DEF Passes
<1>11. Passes = [k \in 1 .. n |-> Passes[k]]
    BY DEF Passes, n
<1>12. ASSUME NEW k \in 1 .. n PROVE Passes'[k] = Passes[k]
    <2>1. k \in 1 .. n + 1 /\ k \in 1 .. Len(loops)
        BY <1>2 DEF n
    <2>2. Passes'[k] = Pass(k)' /\ Passes[k] = Pass(k)
        BY <1>9, <2>1 DEF Passes
    <2>3. Pass(k)' = Pass(k)
        BY <1>1, <1>9, Zenon DEF Pass
    <2> QED BY <2>2, <2>3
<1>13. Passes'[n + 1] = [id |-> id, told |-> {l}, now |-> {l}]
    <2>1. PICK m \in Nat : m = n + 1
        BY <1>2
    <2>2. m \in 1 .. n + 1
        BY <1>2, <2>1
    <2>3. Passes'[m] = Pass(m)'
        BY <1>9, <2>2 DEF Passes
    <2>4. loops'[m] = f
        BY <1>9, <2>1
    <2>5. Pass(m)' = [id |-> id, told |-> {l}, now |-> {l}]
        BY <1>1, <1>4, <1>8, <2>4, Zenon DEF Pass
    <2> QED BY <2>1, <2>3, <2>5
<1>14. Passes' = Append(Passes, Passes'[n + 1])
    BY <1>2, <1>10, <1>11, <1>12, FunAppend
<1> QED BY <1>5, <1>6, <1>13, <1>14, Zenon

LEMMA LeaveShortens ==
    ASSUME IInv, loops # <<>>, Leave, m_receivers' = m_receivers
    PROVE  /\ Passes # <<>>
           /\ Passes' = SubSeq(Passes, 1, Len(Passes) - 1)
           /\ Registered' = Registered
<1> DEFINE n == Len(loops)
<1>1. /\ TypeOK /\ n \in Nat /\ n > 0
    BY TypeFacts, EmptySeq DEF IInv, TypeOK
<1>2. /\ Len(loops') = n - 1
      /\ \A k \in 1 .. n - 1 : loops'[k] = loops[k]
    BY <1>1, LeaveProperties
<1>3. Passes # <<>> /\ Len(Passes) = n
    BY <1>1, PassesFacts
<1>4. Registered' = Registered
    BY DEF Registered, Listened
<1> HIDE DEF n
<1>5. Passes' = [k \in 1 .. n - 1 |-> Passes'[k]]
    BY <1>2 DEF Passes
<1>6. Passes = [k \in 1 .. n |-> Passes[k]]
    BY DEF Passes, n
<1>7. ASSUME NEW k \in 1 .. n - 1 PROVE Passes'[k] = Passes[k]
    <2>1. k \in 1 .. Len(loops)
        BY <1>1 DEF n
    <2>2. Passes'[k] = Pass(k)' /\ Passes[k] = Pass(k)
        BY <1>2, <2>1 DEF Passes
    <2>3. Pass(k)' = Pass(k)
        BY <1>2, Zenon DEF Pass
    <2> QED BY <2>2, <2>3
<1>8. Passes' = SubSeq(Passes, 1, n - 1)
    BY <1>1, <1>5, <1>6, <1>7, FunFront
<1> QED BY <1>3, <1>4, <1>8

(* Invoking a receiver changes the innermost pass, if that is not void. *)
LEMMA InvokeChangesLast ==
    ASSUME IInv, loops # <<>>, m_receivers' = m_receivers,
           NEW p \in 1 .. Len(m_receivers[Top.id]), NEW iter \in {"ok", "erased", "astray"},
           Invoke(p, iter), iter = "ok" <=> Top.iter = "ok"
    PROVE  LET l == m_receivers[Top.id][p].l
               q == Passes[Len(Passes)]
           IN  /\ Registered' = Registered
               /\ iter # "ok" => Passes' = Passes
               /\ iter = "ok" =>
                     Passes' = [Passes EXCEPT ![Len(Passes)] =
                                  [id |-> q.id, told |-> q.told \cup {l}, now |-> {l}]]
<1> DEFINE n == Len(loops)
           l == m_receivers[Top.id][p].l
<1>1. TypeOK /\ n \in Nat /\ n > 0
    BY TypeFacts, EmptySeq DEF IInv, TypeOK
<1>2. /\ Len(loops') = n
      /\ \A k \in 1 .. n : k # n => loops'[k] = loops[k]
      /\ loops'[n] = [id |-> Top.id, pos |-> p, iter |-> iter, seen |-> Top.seen \cup {l}]
    BY <1>1, InvokeProperties, Zenon
<1>3. Registered' = Registered
    BY DEF Registered, Listened
<1>4. /\ Len(Passes) = n /\ DOMAIN Passes = 1 .. n
      /\ \A k \in 1 .. n : Passes[k] = Pass(k)
      /\ Passes = [k \in 1 .. n |-> Passes[k]]
    BY <1>1, PassesFacts
<1>5. n \in 1 .. n
    BY <1>1
<1>6. PICK m \in 1 .. n : m = n
    BY <1>5
<1>7. Passes' = [k \in 1 .. n |-> Pass(k)']
    BY <1>2 DEF Passes
<1>8. ASSUME NEW k \in 1 .. n, k # n PROVE Pass(k)' = Passes[k]
    BY <1>2, <1>4, <1>8 DEF Pass
<1>9. ASSUME iter # "ok" PROVE Passes' = Passes
    <2>1. Pass(m)' = Pass(m)
        <3>1. loops'[m].id = Top.id /\ loops'[m].iter # "ok"
            BY <1>2, <1>6, <1>9
        <3>2. loops[m].id = Top.id /\ loops[m].iter # "ok"
            BY <1>6, <1>9 DEF Top
        <3> QED BY <3>1, <3>2 DEF Pass
    <2>2. \A k \in 1 .. n : Pass(k)' = Passes[k]
        BY <1>4, <1>6, <1>8, <2>1
    <2> QED BY <1>4, <1>7, <2>2
<1>10. ASSUME iter = "ok"
       PROVE  Passes' = [Passes EXCEPT ![n] =
                           [id |-> Passes[n].id, told |-> Passes[n].told \cup {l}, now |-> {l}]]
    <2> DEFINE e == [id |-> Passes[n].id, told |-> Passes[n].told \cup {l}, now |-> {l}]
    <2>1. Passes[n].id = Top.id /\ Passes[n].told = Top.seen
        <3>1. Passes[n] = Pass(m)
            BY <1>4, <1>6
        <3>2. loops[m] = Top /\ Top.iter = "ok"
            BY <1>6, <1>10 DEF Top
        <3>3. Pass(m).id = Top.id /\ Pass(m).told = Top.seen
            BY <3>2 DEF Pass
        <3> QED BY <3>1, <3>3
    <2>2. Pass(m)' = [id |-> Top.id, told |-> Top.seen \cup {l}, now |-> {l}]
        <3>1. /\ loops'[m].id = Top.id /\ loops'[m].iter = "ok" /\ loops'[m].pos = p
              /\ loops'[m].seen = Top.seen \cup {l}
            BY <1>2, <1>6, <1>10
        <3> QED BY <3>1 DEF Pass
    <2>3. Pass(m)' = e
        BY <2>1, <2>2
    <2> HIDE DEF e
    <2>4. \A k \in 1 .. n : Pass(k)' = IF k = n THEN e ELSE Passes[k]
        BY <1>6, <1>8, <2>3
    <2>5. Passes' = [k \in 1 .. n |-> IF k = n THEN e ELSE Passes[k]]
        BY <1>7, <2>4
    <2>6. [Passes EXCEPT ![n] = e] = [k \in 1 .. n |-> IF k = n THEN e ELSE Passes[k]]
        BY <1>4
    <2>7. Passes' = [Passes EXCEPT ![n] = e]
        BY <2>5, <2>6
    <2> QED BY <2>7 DEF e
<1> HIDE DEF n
<1> QED BY <1>3, <1>4, <1>9, <1>10, Zenon

(* A callback of a pass that is not void returns: the next listener is told, or all were. *)
LEMMA ReturnIsTellOrEnd ==
    ASSUME IInv, Return
    PROVE  LET q == Passes[Len(Passes)] IN
           /\ Passes # <<>>
           /\ Registered' = Registered
           /\ \/ Passes' = Passes
              \/ \E l \in Listeners :
                    /\ <<q.id, l>> \in Registered
                    /\ q.now # {}
                    /\ l \notin q.told
                    /\ Passes' = [Passes EXCEPT ![Len(Passes)] =
                                    [id |-> q.id, told |-> q.told \cup {l}, now |-> {l}]]
              \/ /\ q.now = {} \/ \A l \in Listeners : <<q.id, l>> \in Registered => l \in q.told
                 /\ Passes' = SubSeq(Passes, 1, Len(Passes) - 1)
<1> DEFINE n == Len(loops)
           r == m_receivers[Top.id]
           q == Passes[Len(Passes)]
<1>1. /\ loops # <<>> /\ Top.iter # "erased" /\ m_receivers' = m_receivers
      /\ IF Top.pos < Len(r) THEN Invoke(Top.pos + 1, Top.iter) ELSE Leave
    BY DEF Return
<1>2. TypeOK /\ n \in Nat /\ n > 0 /\ n \in 1 .. n
    BY <1>1, TypeFacts, EmptySeq DEF IInv, TypeOK
<1>3. Passes # <<>> /\ Len(Passes) = n /\ \A k \in 1 .. n : Passes[k] = Pass(k)
    BY <1>1, <1>2, PassesFacts
<1>4. q = Pass(n) /\ loops[n] = Top
    BY <1>2, <1>3 DEF Top
<1>5. Top.id \in Ids /\ Top.pos \in Nat /\ Top \in Loop
    BY <1>2, TypeFacts DEF Top
<1>6. r \in Seq(Receiver) /\ Len(r) \in Nat /\ \A i \in 1 .. Len(r) : r[i].l \in Listeners
    BY <1>2, <1>5, TypeFacts
<1>7. Top.iter = "ok" =>
        /\ Top.pos \in 1 .. Len(r)
        /\ q.id = Top.id /\ q.told = {r[j].l : j \in 1 .. Top.pos} /\ q.now # {}
    <2> SUFFICES ASSUME Top.iter = "ok"
                 PROVE  /\ Top.pos \in 1 .. Len(r)
                        /\ q.id = Top.id /\ q.told = {r[j].l : j \in 1 .. Top.pos} /\ q.now # {}
        OBVIOUS
    <2>1. /\ Top.pos \in 1 .. Len(r)
          /\ Top.seen = {r[j].l : j \in 1 .. Top.pos}
        BY <1>2, <1>4, PassNode
    <2>2. Pass(n) = [id |-> Top.id, told |-> Top.seen, now |-> {r[Top.pos].l}]
        BY <1>4 DEF Pass
    <2> QED BY <1>4, <2>1, <2>2
<1>8. Top.iter # "ok" => q.now = {}
    BY <1>4 DEF Pass
<1>9. \A m \in Listeners : <<Top.id, m>> \in Registered <=> \E i \in 1 .. Len(r) : r[i].l = m
    BY <1>5 DEF Registered, Listened
<1>10. \A y, z \in 1 .. Len(r) : r[y].l = r[z].l => y = z
    BY <1>5 DEF IInv, NoDuplicates
<1> HIDE DEF r
<1>11. CASE Top.pos < Len(r)
    <2> DEFINE p == Top.pos + 1
               l == r[p].l
    <2>1. p \in 1 .. Len(r) /\ Invoke(p, Top.iter)
        BY <1>1, <1>5, <1>6, <1>11
    <2>2. Top.iter \in {"ok", "erased", "astray"}
        BY <1>5 DEF Loop
    <2>3. /\ Registered' = Registered
          /\ Top.iter # "ok" => Passes' = Passes
          /\ Top.iter = "ok" =>
                Passes' = [Passes EXCEPT ![Len(Passes)] =
                             [id |-> q.id, told |-> q.told \cup {l}, now |-> {l}]]
        <3> HIDE DEF p
        <3> QED BY <1>1, <2>1, <2>2, InvokeChangesLast DEF r
    <2>4. CASE Top.iter # "ok"
        BY <1>3, <2>3, <2>4
    <2>5. CASE Top.iter = "ok"
        <3>1. l \in Listeners /\ <<Top.id, l>> \in Registered
            BY <1>6, <1>9, <2>1
        <3>2. \A j \in 1 .. Top.pos : r[j].l # l
            <4> SUFFICES ASSUME NEW j \in 1 .. Top.pos PROVE r[j].l # l
                OBVIOUS
            <4>1. j \in 1 .. Len(r) /\ j # p
                BY <1>5, <1>6, <1>11
            <4> QED BY <1>10, <2>1, <4>1
        <3>3. l \notin q.told
            BY <1>7, <2>5, <3>2
        <3> HIDE DEF l, q
        <3> QED BY <1>3, <1>7, <2>3, <2>5, <3>1, <3>3, Zenon DEF q
    <2> QED BY <2>4, <2>5, Zenon
<1>12. CASE ~(Top.pos < Len(r))
    <2>1. Leave
        BY <1>1, <1>12 DEF r
    <2>2. Passes' = SubSeq(Passes, 1, Len(Passes) - 1) /\ Registered' = Registered
        BY <1>1, <2>1, LeaveShortens
    <2>3. q.now = {} \/ \A l \in Listeners : <<q.id, l>> \in Registered => l \in q.told
        <3>1. CASE Top.iter = "ok"
            <4>1. Top.pos = Len(r)
                BY <1>5, <1>6, <1>7, <1>12, <3>1
            <4> QED BY <1>7, <1>9, <3>1, <4>1
        <3> QED BY <1>8, <3>1
    <2> QED BY <1>3, <2>2, <2>3
<1> QED BY <1>11, <1>12, Zenon

(* The callback of a void pass returns: nothing changes, or the pass ends. *)
LEMMA ReturnErasedIsEnd ==
    ASSUME IInv, ReturnErased
    PROVE  /\ Passes # <<>>
           /\ Registered' = Registered
           /\ Passes' = Passes \/ (/\ Passes[Len(Passes)].now = {}
                                   /\ Passes' = SubSeq(Passes, 1, Len(Passes) - 1))
<1> DEFINE n == Len(loops)
<1>1. loops # <<>> /\ Top.iter = "erased" /\ m_receivers' = m_receivers
    BY DEF ReturnErased
<1>2. TypeOK /\ n \in Nat /\ n > 0 /\ n \in 1 .. n
    BY <1>1, TypeFacts, EmptySeq DEF IInv, TypeOK
<1>3. Passes # <<>> /\ Len(Passes) = n /\ \A k \in 1 .. n : Passes[k] = Pass(k)
    BY <1>1, <1>2, PassesFacts
<1>4. Passes[Len(Passes)].now = {}
    <2>1. loops[n].iter # "ok"
        BY <1>1 DEF Top
    <2>2. Pass(n).now = {}
        BY <2>1 DEF Pass
    <2> QED BY <1>2, <1>3, <2>2
<1>5. CASE UNCHANGED loops
    BY <1>1, <1>3, <1>5, Zenon DEF Passes, Pass, Registered, Listened
<1>6. CASE Leave
    BY <1>1, <1>3, <1>4, <1>6, LeaveShortens
<1>7. ASSUME NEW p \in 1 .. Len(m_receivers[Top.id]), Invoke(p, "astray")
      PROVE  Passes' = Passes /\ Registered' = Registered
    <2>1. "astray" \in {"ok", "erased", "astray"} /\ ("astray" = "ok" <=> Top.iter = "ok")
        BY <1>1
    <2> QED BY <1>1, <1>7, <2>1, InvokeChangesLast
<1> QED BY <1>3, <1>5, <1>6, <1>7 DEF ReturnErased

(***************************************************************************)
(* The dispatcher implements the event bus that eventinterface and         *)
(* networkinterface promise, for every set of ids and listeners, every     *)
(* nesting of dispatches and everything callbacks may do: listen, unlisten,*)
(* clear and dispatch are the bus's operations, and whatever the iterator  *)
(* does between two callbacks tells one more registered listener, ends a   *)
(* pass that has told them all, or belongs to a pass that was void.        *)
(***************************************************************************)
THEOREM DispatcherIsEventBus == Spec => ImplementsEventBus
<1>1. Init => Bus!Init
    <2> SUFFICES ASSUME Init PROVE Bus!Init
        OBVIOUS
    <2>1. Registered = {}
        BY DEF Init, Registered, Listened
    <2>2. Passes = <<>>
        BY DEF Init, Passes
    <2> QED BY <2>1, <2>2 DEF Bus!Init, Registered, Passes, Pass
<1>2. ASSUME IInv, [Next]_vars PROVE [Bus!Next]_(Bus!busVars)
    <2>1. ASSUME NEW id \in Ids, NEW l \in Listeners, Listen(id, l)
          PROVE  Bus!Register(id, l)
        <3>1. Registered' = Registered \cup {<<id, l>>} /\ Passes' = Passes
            BY <1>2, <2>1, ListenIsRegister
        <3> QED BY <3>1 DEF Bus!Register, Registered, Passes, Pass
    <2>2. ASSUME NEW id \in Ids, NEW l \in Listeners, Unlisten(id, l)
          PROVE  Bus!Unregister(id, l)
        <3>1. /\ Registered' = Registered \ {<<id, l>>}
              /\ Passes' = [k \in DOMAIN Passes |-> UnregisterPass(Passes[k], id, l)]
            BY <1>2, <2>2, UnlistenIsUnregister
        <3> QED BY <3>1, Zenon DEF Bus!Unregister, Bus!Void, UnregisterPass, Registered, Passes, Pass
    <2>3. ASSUME Clear PROVE Bus!UnregisterAll
        <3>1. /\ Registered' = {}
              /\ Passes' = [k \in DOMAIN Passes |-> [id |-> Passes[k].id, told |-> {}, now |-> {}]]
            BY <1>2, <2>3, ClearIsUnregisterAll
        <3> QED BY <3>1, Zenon DEF Bus!UnregisterAll, Bus!Void, Registered, Passes, Pass
    <2>4. ASSUME NEW id \in Ids, Dispatch(id)
          PROVE  \E l \in Listeners : Bus!Begin(id, l)
        <3>1. PICK l \in Listeners :
                /\ <<id, l>> \in Registered
                /\ Passes' = Append(Passes, [id |-> id, told |-> {l}, now |-> {l}])
                /\ Registered' = Registered
            BY <1>2, <2>4, DispatchIsBegin, Zenon
        <3>2. Bus!Begin(id, l)
            BY <3>1, Zenon DEF Bus!Begin, Registered, Passes, Pass
        <3> QED BY <3>2
    <2>5. ASSUME Registered' = Registered, Passes' = Passes
          PROVE  UNCHANGED Bus!busVars
        BY <2>5 DEF Bus!busVars, Registered, Passes, Pass
    <2>6. ASSUME Passes # <<>>, Registered' = Registered,
                 LET q == Passes[Len(Passes)] IN
                 q.now = {} \/ \A l \in Listeners : <<q.id, l>> \in Registered => l \in q.told,
                 Passes' = SubSeq(Passes, 1, Len(Passes) - 1)
          PROVE  Bus!End
        BY <2>6, Zenon DEF Bus!End, Registered, Passes, Pass
    <2>7. ASSUME NEW l \in Listeners, Passes # <<>>, Registered' = Registered,
                 LET q == Passes[Len(Passes)] IN
                 /\ <<q.id, l>> \in Registered
                 /\ q.now # {}
                 /\ l \notin q.told
                 /\ Passes' = [Passes EXCEPT ![Len(Passes)] =
                                 [id |-> q.id, told |-> q.told \cup {l}, now |-> {l}]]
          PROVE  Bus!Tell(l)
        BY <2>7, Zenon DEF Bus!Tell, Registered, Passes, Pass
    <2>8. CASE Return
        <3>1. PICK q : q = Passes[Len(Passes)]
            OBVIOUS
        <3>2. /\ Passes # <<>>
              /\ Registered' = Registered
              /\ \/ Passes' = Passes
                 \/ \E l \in Listeners :
                       /\ <<q.id, l>> \in Registered
                       /\ q.now # {}
                       /\ l \notin q.told
                       /\ Passes' = [Passes EXCEPT ![Len(Passes)] =
                                       [id |-> q.id, told |-> q.told \cup {l}, now |-> {l}]]
                 \/ /\ q.now = {} \/ \A l \in Listeners : <<q.id, l>> \in Registered => l \in q.told
                    /\ Passes' = SubSeq(Passes, 1, Len(Passes) - 1)
            BY <1>2, <2>8, <3>1, ReturnIsTellOrEnd, Zenon
        <3>3. UNCHANGED Bus!busVars \/ (\E l \in Listeners : Bus!Tell(l)) \/ Bus!End
            BY <2>5, <2>6, <2>7, <3>1, <3>2, Zenon
        <3> QED BY <3>3 DEF Bus!Next
    <2>9. CASE ReturnErased
        <3>1. /\ Passes # <<>>
              /\ Registered' = Registered
              /\ Passes' = Passes \/ (/\ Passes[Len(Passes)].now = {}
                                      /\ Passes' = SubSeq(Passes, 1, Len(Passes) - 1))
            BY <1>2, <2>9, ReturnErasedIsEnd
        <3>2. UNCHANGED Bus!busVars \/ Bus!End
            BY <2>5, <2>6, <3>1
        <3> QED BY <3>2 DEF Bus!Next
    <2>10. CASE UNCHANGED vars
        BY <2>5, <2>10 DEF vars, Registered, Listened, Passes, Pass
    <2> QED BY <1>2, <2>1, <2>2, <2>3, <2>4, <2>8, <2>9, <2>10 DEF Next, Bus!Next
<1>3. Spec => []IInv
    BY IInvInvariant
<1> QED BY <1>1, <1>2, <1>3, PTL DEF Spec, ImplementsEventBus, Bus!Spec

=============================================================================
