----------------------------- MODULE UdpProofs ------------------------------
(***************************************************************************)
(* Theorems about uv_udp_server on libuv's loop: for any number of         *)
(* datagrams of any lengths, received and sent in any order.               *)
(***************************************************************************)
EXTENDS UdpInvariant

-----------------------------------------------------------------------------
(* uv_poll *)

LEMMA PolledRecv ==
    ASSUME NEW h, NEW k \in Kernel, NEW L, NEW W, NEW c, Count(h, k, L, W, c), k.recv,
           NEW j, j = [k EXCEPT !.recv = FALSE]
    PROVE  "recv" \notin L /\ "recv" \notin W /\ Count(h, j, L \cup {"recv"}, W, c)
<1> DEFINE M == L \cup {"recv"}
<1>1. "recv" \in M /\ ("send" \in M <=> "send" \in L) /\ ("other" \in M <=> "other" \in L)
    OBVIOUS
<1>2. ~j.recv /\ j.sends = k.sends /\ (j.other <=> k.other)
    BY DEF Kernel
<1> HIDE DEF M
<1>3. Writes(j, M, W) = Writes(k, L, W) /\ Others(j, M, W, c) = Others(k, L, W, c)
    BY <1>1, <1>2 DEF Writes, Others, One
<1>4. Recvs(k, L, W, c) <= 1
    BY DEF Count, Tally
<1>5. "recv" \notin L /\ "recv" \notin W /\ c # "receive"
    BY <1>4 DEF Recvs, One
<1>6. Recvs(j, M, W, c) = 1 /\ Recvs(k, L, W, c) = 1
    BY <1>1, <1>2, <1>5 DEF Recvs, One
<1>7. Count(h, j, M, W, c)
    BY <1>3, <1>6 DEF Count, Tally
<1> QED BY <1>5, <1>7 DEF M

LEMMA PolledOther ==
    ASSUME NEW h, NEW k \in Kernel, NEW L, NEW W, NEW c, Count(h, k, L, W, c), k.other,
           NEW j, j = [k EXCEPT !.other = FALSE]
    PROVE  "other" \notin L /\ "other" \notin W /\ Count(h, j, L \cup {"other"}, W, c)
<1> DEFINE M == L \cup {"other"}
<1>1. "other" \in M /\ ("send" \in M <=> "send" \in L) /\ ("recv" \in M <=> "recv" \in L)
    OBVIOUS
<1>2. ~j.other /\ j.sends = k.sends /\ (j.recv <=> k.recv)
    BY DEF Kernel
<1> HIDE DEF M
<1>3. Writes(j, M, W) = Writes(k, L, W) /\ Recvs(j, M, W, c) = Recvs(k, L, W, c)
    BY <1>1, <1>2 DEF Writes, Recvs, One
<1>4. Others(k, L, W, c) = 1
    BY DEF Count, Tally
<1>5. "other" \notin L /\ "other" \notin W /\ c # "other"
    BY <1>4 DEF Others, One
<1>6. Others(j, M, W, c) = 1
    BY <1>1, <1>2, <1>5 DEF Others, One
<1>7. Count(h, j, M, W, c)
    BY <1>3, <1>6 DEF Count, Tally
<1> QED BY <1>5, <1>7 DEF M

LEMMA PolledSend ==
    ASSUME NEW h, NEW k \in Kernel, NEW L, NEW W, NEW c, Count(h, k, L, W, c),
           NEW x \in k.sends, NEW j, j = [k EXCEPT !.sends = @ \ {x}]
    PROVE  "send" \notin L /\ "send" \notin W /\ Count(h, j, L \cup {"send"}, W, c)
<1> DEFINE M == L \cup {"send"}
           m == Cardinality(k.sends)
           i == Cardinality(j.sends)
<1>1. "send" \in M /\ ("recv" \in M <=> "recv" \in L) /\ ("other" \in M <=> "other" \in L)
    OBVIOUS
<1>2. j.sends = k.sends \ {x} /\ (j.recv <=> k.recv) /\ (j.other <=> k.other)
    BY DEF Kernel
<1>3. IsFiniteSet(k.sends) /\ m \in Nat /\ (m = 0 <=> k.sends = {})
    BY KernelFinite
<1>4. i = m - 1
    BY <1>2, <1>3, FS_RemoveElement, Zenon
<1>5. One("send" \in L) + One("send" \in W) + m <= 1
    BY DEF Count, Tally, Writes
<1>w. /\ Writes(k, L, W) = One("send" \in L) + One("send" \in W) + m
      /\ Writes(j, M, W) = One("send" \in M) + One("send" \in W) + i
    BY DEF Writes
<1> HIDE DEF M, m, i
<1>6. m # 0
    BY <1>3
<1>7. "send" \notin L /\ "send" \notin W /\ m = 1 /\ i = 0
    BY <1>3, <1>4, <1>5, <1>6 DEF One
<1>8. Writes(k, L, W) = 1 /\ Writes(j, M, W) = 1
    BY <1>1, <1>7, <1>w DEF One
<1>9. Recvs(j, M, W, c) = Recvs(k, L, W, c) /\ Others(j, M, W, c) = Others(k, L, W, c)
    BY <1>1, <1>2 DEF Recvs, Others, One
<1>10. Count(h, j, M, W, c)
    BY <1>8, <1>9 DEF Count, Tally
<1> QED BY <1>7, <1>10 DEF M

(* A completed request goes from the kernel to the list. *)
LEMMA PollPlaces ==
    ASSUME TypeOK, WellPlaced, NEW r \in Req, r \notin InList, r \notin Ahead,
           list' = uv_insert_pending_req(list, r), UNCHANGED <<handle, walk, cb>>,
           Count(handle, kernel', InList \cup {r}, Ahead, cb)
    PROVE  WellPlaced'
<1>1. /\ walk'.at \in Req \cup {"none"} /\ walk'.first \in Req \cup {"none"}
      /\ ListOK(list.next, list.tail) /\ WalkOK(list.next, walk'.at, walk'.first)
      /\ Ahead = Chain(list.next, walk'.at, walk'.first)
    BY TypeFacts DEF WellPlaced, Ahead
<1>2. InList \cap Ahead = {}
    <2>1. /\ kernel \in Kernel /\ InList \in SUBSET Req /\ Ahead \in SUBSET Req
          /\ Tally(handle, kernel, InList, Ahead, cb)
        BY TypeFacts DEF WellPlaced, Count
    <2> QED BY <2>1, ListsDisjoint
<1>3. /\ ListOK(list'.next, list'.tail) /\ WalkOK(list'.next, walk'.at, walk'.first)
      /\ InList' = InList \cup {r} /\ Ahead' = Ahead
    <2> DEFINE V == Ahead
    <2>1. V = Chain(list.next, walk'.at, walk'.first) /\ r \notin V /\ InList \cap V = {}
        BY <1>1, <1>2
    <2>2. InList' = InList \cup {r} /\ Ahead' = V
        BY <1>1, <2>1, InsertStep
    <2>3. ListOK(list'.next, list'.tail) /\ WalkOK(list'.next, walk'.at, walk'.first)
        BY <1>1, <2>1, InsertStep
    <2> QED BY <2>2, <2>3
<1> QED BY <1>3 DEF WellPlaced

LEMMA PollRecvKeeps == IInv /\ PollRecv => IInv'
<1> SUFFICES ASSUME IInv, PollRecv PROVE IInv'
    OBVIOUS
<1>1. /\ proc = "running" /\ cb = "none" /\ kernel.recv /\ failed' \in BOOLEAN
      /\ kernel' = [kernel EXCEPT !.recv = FALSE]
      /\ list' = uv_insert_pending_req(list, "recv")
      /\ UNCHANGED <<m_init, m_writebuf, handle, walk, cb, waiting, sent, premature, garbled, proc>>
    BY Zenon DEF PollRecv, Idle
<1>2. TypeOK /\ Sound(handle) /\ (m_init => handle.reading) /\ (~premature => WellPlaced)
    BY <1>1, Running
<1>3. kernel \in Kernel /\ "recv" \in Req
    BY <1>2, Stays, ReqFacts
<1>4. kernel' \in Kernel /\ kernel'.sends = kernel.sends
    BY <1>1, <1>3, Zenon DEF Kernel
<1>5. ASSUME ~premature PROVE WellPlaced'
    <2>1. Count(handle, kernel, InList, Ahead, cb)
        BY <1>2, <1>5 DEF WellPlaced
    <2>2. /\ "recv" \notin InList /\ "recv" \notin Ahead
          /\ Count(handle, kernel', InList \cup {"recv"}, Ahead, cb)
        BY <1>1, <1>3, <2>1, PolledRecv
    <2> QED BY <1>1, <1>2, <1>3, <1>5, <2>2, PollPlaces, Zenon
<1>6. list' \in [next : Next_req, tail : Req \cup {"none"}]
    BY <1>1, <1>2, <1>3, InsertTyped
<1>7. /\ m_init' \in BOOLEAN /\ handle' \in UdpHandle
      /\ walk' \in [first : Req \cup {"none"}, at : Req \cup {"none"}]
      /\ waiting' \in 0 .. MaxWaiting
      /\ garbled' \in BOOLEAN /\ cb' \in {"none", "receive", "other"} /\ cb' # "receive"
      /\ proc' \in {"running", "crashed", "assert"} /\ kernel'.sends \subseteq kernel.sends
    BY <1>1, <1>2, <1>4, Stays
<1>8. (m_init' => handle'.reading) /\ Sound(handle') /\ (garbled' => garbled \/ premature)
    BY <1>1, <1>2
<1> QED BY <1>1, <1>4, <1>5, <1>6, <1>7, <1>8, PlainStep

LEMMA PollOtherKeeps == IInv /\ PollOther => IInv'
<1> SUFFICES ASSUME IInv, PollOther PROVE IInv'
    OBVIOUS
<1>1. /\ proc = "running" /\ cb = "none" /\ kernel.other
      /\ kernel' = [kernel EXCEPT !.other = FALSE]
      /\ list' = uv_insert_pending_req(list, "other")
      /\ UNCHANGED <<m_init, m_writebuf, handle, failed, walk, cb, waiting, sent, premature,
                   garbled, proc>>
    BY DEF PollOther, Idle
<1>2. TypeOK /\ Sound(handle) /\ (m_init => handle.reading) /\ (~premature => WellPlaced)
    BY <1>1, Running
<1>3. kernel \in Kernel /\ "other" \in Req
    BY <1>2, Stays, ReqFacts
<1>4. kernel' \in Kernel /\ kernel'.sends = kernel.sends
    BY <1>1, <1>3, Zenon DEF Kernel
<1>5. ASSUME ~premature PROVE WellPlaced'
    <2>1. Count(handle, kernel, InList, Ahead, cb)
        BY <1>2, <1>5 DEF WellPlaced
    <2>2. /\ "other" \notin InList /\ "other" \notin Ahead
          /\ Count(handle, kernel', InList \cup {"other"}, Ahead, cb)
        BY <1>1, <1>3, <2>1, PolledOther
    <2> QED BY <1>1, <1>2, <1>3, <1>5, <2>2, PollPlaces, Zenon
<1>6. list' \in [next : Next_req, tail : Req \cup {"none"}]
    BY <1>1, <1>2, <1>3, InsertTyped
<1>7. /\ m_init' \in BOOLEAN /\ handle' \in UdpHandle /\ failed' \in BOOLEAN
      /\ walk' \in [first : Req \cup {"none"}, at : Req \cup {"none"}]
      /\ waiting' \in 0 .. MaxWaiting
      /\ garbled' \in BOOLEAN /\ cb' \in {"none", "receive", "other"} /\ cb' # "receive"
      /\ proc' \in {"running", "crashed", "assert"} /\ kernel'.sends \subseteq kernel.sends
    BY <1>1, <1>2, <1>4, Stays
<1>8. (m_init' => handle'.reading) /\ Sound(handle') /\ (garbled' => garbled \/ premature)
    BY <1>1, <1>2
<1> QED BY <1>1, <1>4, <1>5, <1>6, <1>7, <1>8, PlainStep

LEMMA PollSendKeeps == ASSUME IInv, NEW x, PollSend(x) PROVE IInv'
<1>1. /\ proc = "running" /\ cb = "none" /\ x \in kernel.sends
      /\ kernel' = [kernel EXCEPT !.sends = @ \ {x}]
      /\ garbled' = (garbled \/ m_writebuf.holds # x)
      /\ list' = uv_insert_pending_req(list, "send")
      /\ proc' \in {"running", "crashed", "assert"}
      /\ UNCHANGED <<m_init, m_writebuf, handle, failed, walk, cb, waiting, sent, premature>>
    BY DEF PollSend, Idle
<1>2. /\ TypeOK /\ Sound(handle) /\ (m_init => handle.reading) /\ (~premature => WellPlaced)
      /\ ~premature => \A k \in kernel.sends : m_writebuf.holds = k
    BY <1>1, Running
<1>3. kernel \in Kernel /\ "send" \in Req
    BY <1>2, Stays, ReqFacts
<1>4. kernel' \in Kernel /\ kernel'.sends \subseteq kernel.sends
    BY <1>1, <1>3 DEF Kernel
<1>5. ASSUME ~premature PROVE WellPlaced'
    <2>1. Count(handle, kernel, InList, Ahead, cb)
        BY <1>2, <1>5 DEF WellPlaced
    <2>2. /\ "send" \notin InList /\ "send" \notin Ahead
          /\ Count(handle, kernel', InList \cup {"send"}, Ahead, cb)
        <3>1. kernel \in Kernel /\ x \in kernel.sends
            BY <1>1, <1>3
        <3>2. kernel' = [kernel EXCEPT !.sends = @ \ {x}]
            BY <1>1
        <3> QED BY <2>1, <3>1, <3>2, PolledSend
    <2> QED BY <1>1, <1>2, <1>3, <1>5, <2>2, PollPlaces
<1>6. list' \in [next : Next_req, tail : Req \cup {"none"}]
    BY <1>1, <1>2, <1>3, InsertTyped
<1>7. /\ m_init' \in BOOLEAN /\ handle' \in UdpHandle /\ failed' \in BOOLEAN
      /\ walk' \in [first : Req \cup {"none"}, at : Req \cup {"none"}]
      /\ waiting' \in 0 .. MaxWaiting
      /\ cb' \in {"none", "receive", "other"} /\ cb' # "receive"
    BY <1>1, <1>2, <1>4, Stays
<1>8. (m_init' => handle'.reading) /\ Sound(handle')
    BY <1>1, <1>2
<1>9. garbled' \in BOOLEAN /\ (garbled' => garbled \/ premature)
    BY <1>1, <1>2, Stays
<1> QED BY <1>1, <1>4, <1>5, <1>6, <1>7, <1>8, <1>9, PlainStep

-----------------------------------------------------------------------------
(* uv_process_reqs, and the end of the handle. *)

LEMMA TurnedOver ==
    ASSUME NEW h, NEW k \in Kernel, NEW L, NEW c, Count(h, k, L, {}, c)
    PROVE  Count(h, k, {}, L, c)
<1>1. \A r : One(r \in {}) = 0
    BY DEF One
<1>2. /\ Recvs(k, {}, L, c) = Recvs(k, L, {}, c)
      /\ Others(k, {}, L, c) = Others(k, L, {}, c)
    BY <1>1, OneType DEF Recvs, Others
<1>3. Writes(k, {}, L) = Writes(k, L, {})
    BY <1>1, OneType DEF Writes
<1> QED BY <1>2, <1>3 DEF Count, Tally

LEMMA ProcessReqsKeeps == IInv /\ ProcessReqs => IInv'
<1> SUFFICES ASSUME IInv, ProcessReqs PROVE IInv'
    OBVIOUS
<1>1. /\ proc = "running" /\ cb = "none" /\ walk.at = "none" /\ list.tail # "none"
      /\ walk' = [first |-> list.next[list.tail], at |-> list.next[list.tail]]
      /\ list' = [list EXCEPT !.tail = "none"]
      /\ UNCHANGED <<m_init, m_writebuf, handle, kernel, failed, cb, waiting, sent, premature,
                     garbled, proc>>
    BY DEF ProcessReqs, Idle
<1>2. TypeOK /\ Sound(handle) /\ (m_init => handle.reading) /\ (~premature => WellPlaced)
    BY <1>1, Running
<1>3. list \in [next : Next_req, tail : Req \cup {"none"}] /\ list.tail \in Req
    BY <1>1, <1>2, Stays
<1>4. /\ list' \in [next : Next_req, tail : Req \cup {"none"}]
      /\ list'.next = list.next /\ list'.tail = "none"
    BY <1>1, <1>3
<1>5. list.next[list.tail] \in Req \cup {"none"}
    BY <1>3 DEF Next_req
<1>6. /\ walk' \in [first : Req \cup {"none"}, at : Req \cup {"none"}]
      /\ walk'.first = list.next[list.tail] /\ walk'.at = list.next[list.tail]
    BY <1>1, <1>5
<1>7. ASSUME ~premature PROVE WellPlaced'
    <2> DEFINE n == list.next
               t == list.tail
    <2>1. n \in Next_req /\ t \in Req /\ ListOK(n, t)
        BY <1>2, <1>3, <1>7 DEF WellPlaced
    <2>2. /\ WalkOK(n, n[t], n[t]) /\ Chain(n, n[t], n[t]) = Members(n, t)
          /\ ListOK(n, "none") /\ Members(n, "none") = {}
        <3> HIDE DEF n, t
        <3> QED BY <2>1, StartIs
    <2>3. Ahead = {}
        BY <1>1, NoneWalked DEF Ahead
    <2>4. InList' = {} /\ Ahead' = InList
        BY <1>4, <1>6, <2>2 DEF InList, Ahead
    <2>5. Count(handle, kernel, InList, {}, cb) /\ kernel \in Kernel
        BY <1>2, <1>7, <2>3, Stays DEF WellPlaced
    <2>6. Count(handle, kernel, {}, InList, cb)
        BY <2>5, TurnedOver
    <2> QED BY <1>1, <1>4, <1>6, <2>2, <2>4, <2>6 DEF WellPlaced
<1>8. /\ m_init' \in BOOLEAN /\ handle' \in UdpHandle /\ kernel' \in Kernel
      /\ failed' \in BOOLEAN /\ waiting' \in 0 .. MaxWaiting
      /\ garbled' \in BOOLEAN /\ cb' \in {"none", "receive", "other"} /\ cb' # "receive"
      /\ proc' \in {"running", "crashed", "assert"} /\ kernel'.sends \subseteq kernel.sends
    BY <1>1, <1>2, Stays
<1>9. (m_init' => handle'.reading) /\ Sound(handle') /\ (garbled' => garbled \/ premature)
    BY <1>1, <1>2
<1> QED BY <1>1, <1>4, <1>6, <1>7, <1>8, <1>9, PlainStep

LEMMA TakenSend ==
    ASSUME NEW h \in UdpHandle, NEW g, NEW k \in Kernel, NEW L, NEW W, NEW c, "send" \in W,
           Count(h, k, L, W, c), (g.reading <=> h.reading),
           g.reqs_pending = h.reqs_pending - 1, Sends(g) = Sends(h) - 1
    PROVE  Count(g, k, L, W \ {"send"}, c)
<1> DEFINE V == W \ {"send"}
           m == Cardinality(k.sends)
           x == Recvs(k, L, W, c)
<1>1. "send" \notin V /\ ("recv" \in V <=> "recv" \in W) /\ ("other" \in V <=> "other" \in W)
    OBVIOUS
<1>2. m \in Nat /\ x \in Nat
    BY KernelFinite, TallyTypes
<1>3. /\ Writes(k, L, W) = One("send" \in L) + One("send" \in W) + m
      /\ Writes(k, L, V) = One("send" \in L) + One("send" \in V) + m
    BY DEF Writes
<1>4. Writes(k, L, W) <= 1 /\ h.reqs_pending = x + Writes(k, L, W) /\ Sends(h) = Writes(k, L, W)
    BY DEF Count, Tally
<1>5. Recvs(k, L, V, c) = x /\ Others(k, L, V, c) = Others(k, L, W, c)
    BY <1>1 DEF Recvs, Others, One
<1> HIDE DEF V, m, x
<1>6. Writes(k, L, W) = 1 /\ Writes(k, L, V) = 0
    BY <1>1, <1>2, <1>3, <1>4 DEF One
<1>7. g.reqs_pending = x + 0 /\ Sends(g) = 0
    BY <1>2, <1>4, <1>6
<1>8. Count(g, k, L, V, c)
    BY <1>5, <1>6, <1>7 DEF Count, Tally, x
<1> QED BY <1>8 DEF V

LEMMA ProcessSendKeeps == IInv /\ ProcessSend => IInv'
<1> SUFFICES ASSUME IInv, ProcessSend PROVE IInv'
    OBVIOUS
<1>1. /\ Process("send") /\ handle' = SendReqDone(handle)
      /\ proc' \in {"running", "assert"}
      /\ UNCHANGED <<m_init, m_writebuf, kernel, list, failed, cb, waiting, sent, premature, garbled>>
    BY DEF ProcessSend
<1>2. proc = "running" /\ cb = "none" /\ handle.reqs_pending > 0 /\ Sends(handle) > 0
    BY <1>1 DEF Process, Counted, Unfinished, Sends, One
<1>3. TypeOK /\ Sound(handle) /\ (m_init => handle.reading) /\ (~premature => WellPlaced)
    BY <1>2, Running
<1>h. handle \in UdpHandle
    BY <1>3, Stays
<1>4. /\ handle' \in UdpHandle /\ Sound(handle') /\ (handle'.reading <=> handle.reading)
      /\ Sends(handle') = Sends(handle) - 1 /\ handle'.reqs_pending = handle.reqs_pending - 1
    BY <1>1, <1>2, <1>3, <1>h, SendDoneIs DEF SameFlags
<1>5. /\ "send" \in Req /\ walk.at = "send"
      /\ walk' = [walk EXCEPT !.at = IF list.next["send"] = walk.first THEN "none" ELSE list.next["send"]]
    BY <1>1, ReqFacts DEF Process
<1>6. /\ walk' \in [first : Req \cup {"none"}, at : Req \cup {"none"}]
      /\ WalkOK(list.next, walk.at, walk.first) =>
            /\ WalkOK(list.next, walk'.at, walk'.first)
            /\ "send" \in Ahead
            /\ Chain(list.next, walk'.at, walk'.first) = Ahead \ {"send"}
    BY <1>3, <1>5, WalkStep
<1>7. ASSUME ~premature PROVE WellPlaced'
    <2>1. /\ WalkOK(list.next, walk'.at, walk'.first) /\ "send" \in Ahead
          /\ Chain(list.next, walk'.at, walk'.first) = Ahead \ {"send"}
          /\ Count(handle, kernel, InList, Ahead, cb) /\ kernel \in Kernel
        BY <1>3, <1>6, <1>7, Stays DEF WellPlaced
    <2>2. Count(handle', kernel, InList, Ahead \ {"send"}, cb)
        BY <1>4, <1>h, <2>1, TakenSend
    <2>3. InList' = InList /\ Ahead' = Ahead \ {"send"}
        BY <1>1, <2>1 DEF InList, Ahead
    <2> QED BY <1>1, <1>3, <1>7, <2>1, <2>2, <2>3 DEF WellPlaced
<1>8. /\ m_init' \in BOOLEAN /\ kernel' \in Kernel
      /\ list' \in [next : Next_req, tail : Req \cup {"none"}] /\ failed' \in BOOLEAN
      /\ waiting' \in 0 .. MaxWaiting
      /\ garbled' \in BOOLEAN /\ cb' \in {"none", "receive", "other"} /\ cb' # "receive"
      /\ proc' \in {"running", "crashed", "assert"} /\ kernel'.sends \subseteq kernel.sends
    BY <1>1, <1>2, <1>3, Stays
<1>9. (m_init' => handle'.reading) /\ (garbled' => garbled \/ premature)
    BY <1>1, <1>3, <1>4
<1> QED BY <1>1, <1>2, <1>4, <1>6, <1>7, <1>8, <1>9, PlainStep

LEMMA EndgameKeeps == IInv /\ Endgame => IInv'
<1> SUFFICES ASSUME IInv, Endgame PROVE IInv'
    OBVIOUS
<1>1. /\ proc = "running" /\ cb = "none" /\ handle.end = "wanted"
      /\ handle' = [handle EXCEPT !.end = "closed"]
      /\ proc' \in {"running", "crashed"}
      /\ UNCHANGED <<m_init, m_writebuf, kernel, list, failed, walk, cb, waiting, sent,
                     premature, garbled>>
    BY DEF Endgame, Idle
<1>2. TypeOK /\ Sound(handle) /\ (m_init => handle.reading) /\ (~premature => WellPlaced)
    BY <1>1, Running
<1>h. handle \in UdpHandle
    BY <1>2, Stays
<1>3. /\ handle' \in UdpHandle /\ (handle'.reading <=> handle.reading)
      /\ (handle'.closing <=> handle.closing) /\ handle'.activecnt = handle.activecnt
      /\ handle'.reqs_pending = handle.reqs_pending
    BY <1>1, <1>h DEF UdpHandle
<1>4. Sound(handle')
    BY <1>1, <1>2, <1>3 DEF Sound
<1>5. ASSUME ~premature PROVE WellPlaced'
    <2>1. Count(handle', kernel, InList, Ahead, cb)
        <3>1. Sends(handle') = Sends(handle)
            BY <1>3 DEF Sends, One
        <3>2. Count(handle, kernel, InList, Ahead, cb)
            BY <1>2, <1>5 DEF WellPlaced
        <3> QED BY <1>3, <3>1, <3>2 DEF Count, Tally
    <2>2. InList' = InList /\ Ahead' = Ahead
        BY <1>1 DEF InList, Ahead
    <2> QED BY <1>1, <1>2, <1>5, <2>1, <2>2 DEF WellPlaced
<1>6. /\ m_init' \in BOOLEAN /\ kernel' \in Kernel
      /\ list' \in [next : Next_req, tail : Req \cup {"none"}] /\ failed' \in BOOLEAN
      /\ walk' \in [first : Req \cup {"none"}, at : Req \cup {"none"}]
      /\ waiting' \in 0 .. MaxWaiting
      /\ garbled' \in BOOLEAN /\ cb' \in {"none", "receive", "other"} /\ cb' # "receive"
      /\ proc' \in {"running", "crashed", "assert"} /\ kernel'.sends \subseteq kernel.sends
    BY <1>1, <1>2, Stays
<1>7. (m_init' => handle'.reading) /\ (garbled' => garbled \/ premature)
    BY <1>1, <1>2, <1>3
<1> QED BY <1>1, <1>3, <1>4, <1>5, <1>6, <1>7, PlainStep

(* Until a send is premature, the walk meets only requests that are counted. *)
LEMMA ProcessUncountedKeeps == IInv /\ ProcessUncounted => IInv'
<1> SUFFICES ASSUME IInv, ProcessUncounted PROVE IInv'
    OBVIOUS
<1>1. /\ proc = "running" /\ walk.at # "none" /\ ~Counted(walk.at) /\ proc' = "corrupt"
      /\ UNCHANGED <<m_init, m_writebuf, handle, kernel, list, failed, walk, cb, waiting, sent,
                     premature, garbled>>
    BY DEF ProcessUncounted
<1>2. TypeOK /\ (~premature => WellPlaced)
    BY <1>1, Running
<1>3. premature
    <2> SUFFICES ASSUME ~premature PROVE FALSE
        OBVIOUS
    <2> DEFINE n == list.next
               r == walk.at
               f == walk.first
    <2>1. n \in Next_req /\ r \in Req /\ f \in Req \cup {"none"} /\ WalkOK(n, r, f)
        BY <1>1, <1>2, TypeFacts DEF WellPlaced
    <2>2. r \in Chain(n, r, f)
        <3> HIDE DEF n, r, f
        <3>1. PICK a : a = IF n[r] = f THEN "none" ELSE n[r]
            OBVIOUS
        <3> QED BY <2>1, <3>1, StepIs
    <2>3. walk.at \in Ahead
        BY <2>2 DEF Ahead
    <2>4. Count(handle, kernel, InList, Ahead, cb) /\ kernel \in Kernel
        BY <1>2, Stays DEF WellPlaced
    <2> DEFINE m == Cardinality(kernel.sends)
               x == Recvs(kernel, InList, Ahead, cb)
               y == Writes(kernel, InList, Ahead)
    <2>5. /\ m \in Nat /\ x \in Nat /\ y \in Nat
          /\ handle.reqs_pending = x + y /\ Sends(handle) = y
        BY <2>4, KernelFinite, TallyTypes DEF Count, Tally
    <2>6. walk.at = "send" => y > 0
        BY <2>3, <2>5 DEF Writes, One
    <2>7. walk.at = "recv" => x > 0
        BY <2>3, <2>5 DEF Recvs, One
    <2>8. Sends(handle) = Unfinished
        BY DEF Sends, Unfinished, One
    <2> HIDE DEF m, x, y
    <2>9. /\ walk.at = "send" => Unfinished > 0 /\ handle.reqs_pending > 0
          /\ walk.at = "recv" => handle.reqs_pending > 0
        BY <2>5, <2>6, <2>7, <2>8
    <2> QED BY <1>1, <2>9 DEF Counted
<1>4. TypeOK'
    BY <1>1, <1>2 DEF TypeOK
<1>5. HandleSound' /\ BufferFits' /\ Intact' /\ EndgameSafe'
    BY <1>1, <1>3 DEF IInv, HandleSound, BufferFits, Intact, EndgameSafe
<1> QED BY <1>1, <1>3, <1>4, <1>5 DEF IInv

-----------------------------------------------------------------------------
(* The application's side: initialize, send, close. *)

LEMMA ArriveKeeps == IInv /\ Arrive => IInv'
<1> SUFFICES ASSUME IInv, Arrive PROVE IInv'
    OBVIOUS
<1>1. /\ proc = "running" /\ waiting < MaxWaiting /\ waiting' = waiting + 1
      /\ UNCHANGED <<m_init, m_writebuf, handle, kernel, list, failed, walk, cb, sent,
                     premature, garbled, proc>>
    BY DEF Arrive
<1>2. /\ TypeOK /\ Sound(handle) /\ (m_init => handle.reading) /\ (~premature => WellPlaced)
      /\ cb = "receive" => handle.reqs_pending > 0 /\ ~handle.read_pending
    BY <1>1, Running
<1>3. waiting' \in 0 .. MaxWaiting
    <2>1. waiting \in 0 .. MaxWaiting
        BY <1>2, Stays
    <2> QED BY <1>1, <2>1, UdpAssumption
<1>4. ASSUME ~premature PROVE WellPlaced'
    <2>1. InList' = InList /\ Ahead' = Ahead
        BY <1>1 DEF InList, Ahead
    <2> QED BY <1>1, <1>2, <1>4, <2>1 DEF WellPlaced
<1>5. /\ m_init' \in BOOLEAN /\ handle' \in UdpHandle /\ kernel' \in Kernel
      /\ list' \in [next : Next_req, tail : Req \cup {"none"}] /\ failed' \in BOOLEAN
      /\ walk' \in [first : Req \cup {"none"}, at : Req \cup {"none"}]
      /\ garbled' \in BOOLEAN /\ cb' \in {"none", "receive", "other"}
      /\ proc' \in {"running", "crashed", "assert"} /\ kernel'.sends \subseteq kernel.sends
    BY <1>1, <1>2, Stays
<1>6. /\ (m_init' => handle'.reading) /\ Sound(handle') /\ (garbled' => garbled \/ premature)
      /\ cb' = "receive" => handle'.reqs_pending > 0 /\ ~handle'.read_pending
    BY <1>1, <1>2
<1> QED BY <1>1, <1>3, <1>4, <1>5, <1>6, PlainStep

(* close() changes no count. *)
LEMMA ClosedHere ==
    ASSUME IInv, proc = "running", handle' = close(handle), UNCHANGED <<kernel, list, walk, cb>>
    PROVE  /\ handle' \in UdpHandle /\ Sound(handle')
           /\ (handle'.read_pending <=> handle.read_pending)
           /\ handle'.reqs_pending = handle.reqs_pending
           /\ ~premature => WellPlaced'
<1>1. TypeOK /\ Sound(handle) /\ (~premature => WellPlaced)
    BY Running
<1>2. /\ handle' \in UdpHandle /\ Sound(handle') /\ ~handle'.reading
      /\ (handle'.read_pending <=> handle.read_pending)
      /\ Sends(handle') = Sends(handle) /\ handle'.reqs_pending = handle.reqs_pending
    BY <1>1, Stays, CloseIs
<1>3. ASSUME ~premature PROVE WellPlaced'
    <2>1. InList' = InList /\ Ahead' = Ahead
        BY DEF InList, Ahead
    <2>2. Count(handle', kernel, InList, Ahead, cb)
        BY <1>1, <1>2, <1>3 DEF WellPlaced, Count, Tally
    <2> QED BY <1>1, <1>3, <2>1, <2>2 DEF WellPlaced
<1> QED BY <1>2, <1>3

LEMMA AppClosesKeeps == IInv /\ AppCloses => IInv'
<1> SUFFICES ASSUME IInv, AppCloses PROVE IInv'
    OBVIOUS
<1>1. /\ proc = "running" /\ handle' = close(handle) /\ m_init' = FALSE
      /\ UNCHANGED <<m_writebuf, kernel, list, failed, walk, cb, waiting, sent, premature,
                     garbled, proc>>
    BY DEF AppCloses, InApp, Idle
<1>2. TypeOK /\ (cb = "receive" => handle.reqs_pending > 0 /\ ~handle.read_pending)
    BY <1>1, Running
<1>3. /\ handle' \in UdpHandle /\ Sound(handle')
      /\ (handle'.read_pending <=> handle.read_pending)
      /\ handle'.reqs_pending = handle.reqs_pending
      /\ ~premature => WellPlaced'
    BY <1>1, ClosedHere
<1>4. /\ m_init' \in BOOLEAN /\ kernel' \in Kernel
      /\ list' \in [next : Next_req, tail : Req \cup {"none"}] /\ failed' \in BOOLEAN
      /\ walk' \in [first : Req \cup {"none"}, at : Req \cup {"none"}]
      /\ waiting' \in 0 .. MaxWaiting
      /\ garbled' \in BOOLEAN /\ cb' \in {"none", "receive", "other"}
      /\ proc' \in {"running", "crashed", "assert"} /\ kernel'.sends \subseteq kernel.sends
    BY <1>1, <1>2, Stays, Zenon
<1>5. /\ (m_init' => handle'.reading) /\ (garbled' => garbled \/ premature)
      /\ cb' = "receive" => handle'.reqs_pending > 0 /\ ~handle'.read_pending
    BY <1>1, <1>2, <1>3
<1> QED BY <1>1, <1>3, <1>4, <1>5, PlainStep

LEMMA ExitKeeps == IInv /\ Exit => IInv'
<1> SUFFICES ASSUME IInv, Exit PROVE IInv'
    OBVIOUS
<1>1. /\ proc = "running" /\ cb = "none" /\ handle' = close(handle) /\ m_init' = FALSE
      /\ m_writebuf' = [len |-> 0, block |-> 0, holds |-> 0] /\ proc' = "exited"
      /\ UNCHANGED <<kernel, list, failed, walk, cb, waiting, sent, premature, garbled>>
    BY DEF Exit, Idle
<1>2. TypeOK /\ Intact
    BY DEF IInv
<1>3. /\ handle' \in UdpHandle /\ Sound(handle') /\ (~premature => WellPlaced')
    BY <1>1, ClosedHere
<1>4. TypeOK'
    <2>1. m_writebuf' \in [len : Nat, block : Nat, holds : 0 .. MaxSends]
        <3>1. 0 \in 0 .. MaxSends
            BY UdpAssumption
        <3> QED BY <1>1, <3>1
    <2> QED BY <1>1, <1>2, <1>3, <2>1, Zenon DEF TypeOK
<1>5. BufferFits' /\ Intact'
    BY <1>1, <1>2 DEF BufferFits, Intact
<1>6. /\ cb' # "receive" /\ ~m_init' /\ proc' # "starting" /\ proc' # "corrupt"
      /\ proc' # "running" /\ (~premature' => WellPlaced')
    BY <1>1, <1>3
<1> QED BY <1>3, <1>4, <1>5, <1>6, Settled

LEMMA InitializeKeeps == IInv /\ Initialize => IInv'
<1> SUFFICES ASSUME IInv, Initialize PROVE IInv'
    OBVIOUS
<1>1. proc = "starting" /\ UNCHANGED <<m_writebuf, walk, cb, waiting, sent, premature, garbled>>
    BY DEF Initialize
<1>2. TypeOK /\ HandleSound /\ BufferFits /\ Intact
    BY DEF IInv
<1>3. /\ kernel = [recv |-> FALSE, other |-> TRUE, sends |-> {}] /\ ~premature
      /\ list.tail = "none" /\ walk.at = "none" /\ cb = "none" /\ Sound(handle)
      /\ m_init => handle.reading
    BY <1>1, <1>2, SoundHandle DEF HandleSound
<1>4. CASE proc' = "assert" /\ UNCHANGED <<handle, kernel, list, failed, m_init>>
    <2>1. TypeOK'
        BY <1>1, <1>2, <1>4 DEF TypeOK
    <2>2. HandleSound' /\ BufferFits' /\ Intact' /\ EndgameSafe'
        BY <1>1, <1>2, <1>4 DEF IInv, HandleSound, BufferFits, Intact, EndgameSafe
    <2> QED BY <1>4, <2>1, <2>2 DEF IInv
<1> DEFINE h == [uv_udp_init EXCEPT !.reading = TRUE, !.activecnt = 1]
<1>5. CASE queue_recv(h) /\ m_init' = TRUE /\ proc' = "running"
    <2>1. /\ h \in UdpHandle /\ Sound(h) /\ ~h.closing /\ h.reading
          /\ h.reqs_pending = 0 /\ Sends(h) = 0
        <3> DEFINE u == uv_udp_init
        <3>1. u \in UdpHandle /\ ~u.closing /\ u.reqs_pending = 0 /\ u.end = "no"
            BY DEF uv_udp_init, UdpHandle
        <3>2. h = [u EXCEPT !.reading = TRUE, !.activecnt = 1]
            OBVIOUS
        <3> HIDE DEF u, h
        <3>3. /\ h \in UdpHandle /\ ~h.closing /\ h.reading /\ h.activecnt = 1
              /\ h.reqs_pending = 0 /\ h.end = "no"
            BY <3>1, <3>2, Zenon DEF UdpHandle
        <3> QED BY <3>3 DEF Sound, Sends, One
    <2>2. queue_recv(h)
        BY <1>5
    <2> HIDE DEF h
    <2>3. /\ walk'.at \in Req \cup {"none"} /\ walk'.first \in Req \cup {"none"}
          /\ walk' \in [first : Req \cup {"none"}, at : Req \cup {"none"}]
        BY <1>1, <1>2, Stays
    <2>4. /\ handle' \in UdpHandle /\ Sound(handle') /\ (handle'.reading <=> h.reading)
          /\ kernel' \in Kernel /\ kernel'.sends = kernel.sends /\ failed' \in BOOLEAN
          /\ list' \in [next : Next_req, tail : Req \cup {"none"}]
          /\ \A V, c : /\ ListOK(list.next, list.tail) /\ WalkOK(list.next, walk'.at, walk'.first)
                       /\ V = Chain(list.next, walk'.at, walk'.first)
                       /\ Tally(h, kernel, InList, V, c) /\ Recvs(kernel, InList, V, c) = 0
                       => /\ ListOK(list'.next, list'.tail)
                          /\ WalkOK(list'.next, walk'.at, walk'.first)
                          /\ Count(handle', kernel', InList', Ahead', c)
        BY <1>2, <2>1, <2>2, <2>3, QueueStep, Zenon
    <2>5. WellPlaced'
        <3>1. /\ ListOK(list.next, list.tail) /\ WalkOK(list.next, walk'.at, walk'.first)
              /\ Chain(list.next, walk'.at, walk'.first) = {} /\ InList = {}
            BY <1>1, <1>3, NoneWalked DEF ListOK, InList, Members
        <3>2. ~kernel.recv /\ kernel.other /\ kernel.sends = {}
            BY <1>3
        <3>3. Recvs(kernel, {}, {}, "none") = 0 /\ Others(kernel, {}, {}, "none") = 1
            BY <3>2 DEF Recvs, Others, One
        <3>4. Writes(kernel, {}, {}) = 0
            BY <3>2, FS_EmptySet DEF Writes, One
        <3>5. Tally(h, kernel, InList, {}, "none") /\ Recvs(kernel, InList, {}, "none") = 0
            BY <2>1, <3>1, <3>3, <3>4 DEF Tally
        <3>6. /\ ListOK(list'.next, list'.tail) /\ WalkOK(list'.next, walk'.at, walk'.first)
              /\ Count(handle', kernel', InList', Ahead', "none")
            BY <2>4, <3>1, <3>5
        <3> QED BY <1>1, <1>3, <3>6 DEF WellPlaced
    <2>6. TypeOK'
        <3>1. /\ m_init' \in BOOLEAN /\ cb' \in {"none", "receive", "other"}
              /\ waiting' \in 0 .. MaxWaiting /\ garbled' \in BOOLEAN
            BY <1>1, <1>2, <1>5, Stays
        <3>2. proc' \in {"running", "exited", "crashed", "assert", "corrupt"}
            BY <1>5
        <3> QED BY <1>1, <1>2, <2>3, <2>4, <3>1, <3>2, TypeStep, Zenon
    <2>7. BufferFits' /\ Intact'
        BY <1>1, <1>2 DEF BufferFits, Intact
    <2>8. /\ cb' # "receive" /\ (m_init' => handle'.reading)
          /\ proc' # "starting" /\ proc' # "corrupt"
          /\ \A k \in kernel'.sends : m_writebuf'.holds = k
        BY <1>1, <1>3, <1>5, <2>1, <2>4, Zenon
    <2> QED BY <2>4, <2>5, <2>6, <2>7, <2>8, Settled, Zenon
<1> QED BY <1>4, <1>5, Zenon DEF Initialize

LEMMA SentToList ==
    ASSUME NEW h \in UdpHandle, NEW g, NEW k \in Kernel, NEW L, NEW W, NEW c,
           Count(h, k, L, W, c), Sends(h) = 0, (g.reading <=> h.reading),
           g.reqs_pending = h.reqs_pending + 1, Sends(g) = Sends(h) + 1
    PROVE  "send" \notin L /\ "send" \notin W /\ k.sends = {} /\ Count(g, k, L \cup {"send"}, W, c)
<1> DEFINE M == L \cup {"send"}
           m == Cardinality(k.sends)
           x == Recvs(k, L, W, c)
<1>1. "send" \in M /\ ("recv" \in M <=> "recv" \in L) /\ ("other" \in M <=> "other" \in L)
    OBVIOUS
<1>2. m \in Nat /\ x \in Nat /\ (m = 0 <=> k.sends = {})
    BY KernelFinite, TallyTypes
<1>3. /\ Writes(k, L, W) = One("send" \in L) + One("send" \in W) + m
      /\ Writes(k, M, W) = One("send" \in M) + One("send" \in W) + m
    BY DEF Writes
<1>4. /\ Writes(k, L, W) = 0 /\ h.reqs_pending = x + Writes(k, L, W)
      /\ x <= 1 /\ Others(k, L, W, c) = 1 /\ (h.reading => x = 1)
    BY DEF Count, Tally
<1>5. Recvs(k, M, W, c) = x /\ Others(k, M, W, c) = Others(k, L, W, c)
    BY <1>1 DEF Recvs, Others, One
<1> HIDE DEF M, m, x
<1>6. "send" \notin L /\ "send" \notin W /\ m = 0
    BY <1>2, <1>3, <1>4 DEF One
<1>7. Writes(k, M, W) = 1
    BY <1>1, <1>3, <1>6 DEF One
<1>8. g.reqs_pending = x + 1 /\ Sends(g) = 1
    BY <1>2, <1>4
<1>9. Count(g, k, M, W, c)
    BY <1>4, <1>5, <1>7, <1>8 DEF Count, Tally
<1> QED BY <1>2, <1>6, <1>9 DEF M

LEMMA SentToKernel ==
    ASSUME NEW h \in UdpHandle, NEW g, NEW k \in Kernel, NEW L, NEW W, NEW c,
           Count(h, k, L, W, c), Sends(h) = 0, (g.reading <=> h.reading),
           g.reqs_pending = h.reqs_pending + 1, Sends(g) = Sends(h) + 1,
           NEW n, NEW j, j = [k EXCEPT !.sends = @ \cup {n}]
    PROVE  j.sends = {n} /\ Count(g, j, L, W, c)
<1> DEFINE m == Cardinality(k.sends)
           i == Cardinality(j.sends)
           x == Recvs(k, L, W, c)
<1>1. /\ "send" \notin L /\ "send" \notin W /\ k.sends = {}
    BY SentToList, Zenon
<1>2. j.sends = {n} /\ (j.recv <=> k.recv) /\ (j.other <=> k.other)
    BY <1>1 DEF Kernel
<1>3. i = 1 /\ m = 0
    BY <1>1, <1>2, FS_EmptySet, FS_Singleton, Zenon
<1>4. /\ Writes(k, L, W) = One("send" \in L) + One("send" \in W) + m
      /\ Writes(j, L, W) = One("send" \in L) + One("send" \in W) + i
    BY DEF Writes
<1>5. x \in Nat /\ h.reqs_pending = x + Writes(k, L, W)
    BY TallyTypes DEF Count, Tally
<1>6. Recvs(j, L, W, c) = x /\ Others(j, L, W, c) = Others(k, L, W, c)
    BY <1>2 DEF Recvs, Others, One
<1> HIDE DEF m, i, x
<1>7. Writes(k, L, W) = 0 /\ Writes(j, L, W) = 1
    BY <1>1, <1>3, <1>4 DEF One
<1>8. g.reqs_pending = x + 1 /\ Sends(g) = 1
    BY <1>5, <1>7
<1>9. Count(g, j, L, W, c)
    BY <1>6, <1>7, <1>8 DEF Count, Tally, x
<1> QED BY <1>2, <1>9

LEMMA FilledFits ==
    ASSUME TypeOK, BufferFits, NEW n \in Lengths, sent < MaxSends,
           m_writebuf' = Filled(n, sent + 1), sent' = sent + 1
    PROVE  /\ m_writebuf' \in [len : Nat, block : Nat, holds : 0 .. MaxSends]
           /\ m_writebuf'.len <= m_writebuf'.block /\ m_writebuf'.holds = sent + 1
           /\ sent + 1 \in 1 .. MaxSends /\ sent' \in 0 .. MaxSends
<1>1. n \in Nat /\ m_writebuf.len \in Nat /\ m_writebuf.block \in Nat
    BY UdpAssumption DEF TypeOK
<1>2. sent + 1 \in 1 .. MaxSends /\ sent + 1 \in 0 .. MaxSends
    BY UdpAssumption DEF TypeOK
<1> DEFINE k == sent + 1
           b == IF m_writebuf.len < n THEN n ELSE m_writebuf.block
<1>3. b \in Nat /\ n <= b
    BY <1>1 DEF BufferFits
<1>4. m_writebuf' = [len |-> n, block |-> b, holds |-> k]
    BY DEF Filled
<1>5. k \in 0 .. MaxSends
    BY <1>2
<1> HIDE DEF k, b
<1>6. /\ m_writebuf' \in [len : Nat, block : Nat, holds : 0 .. MaxSends]
      /\ m_writebuf'.len = n /\ m_writebuf'.block = b /\ m_writebuf'.holds = k
    BY <1>1, <1>3, <1>4, <1>5
<1> QED BY <1>2, <1>3, <1>6 DEF k

LEMMA SendKeeps == ASSUME IInv, NEW n \in Lengths, send(n) PROVE IInv'
<1> DEFINE k == sent + 1
<1>1. /\ proc = "running" /\ sent < MaxSends
      /\ m_writebuf' = Filled(n, k) /\ sent' = k
      /\ premature' = (premature \/ Unfinished > 0)
      /\ UNCHANGED <<m_init, failed, walk, cb, waiting, garbled>>
    BY DEF send, InApp, Idle
<1>2. /\ TypeOK /\ Sound(handle) /\ (m_init => handle.reading) /\ (~premature => WellPlaced)
      /\ cb = "receive" => handle.reqs_pending > 0 /\ ~handle.read_pending
    BY <1>1, Running
<1>3. BufferFits /\ Intact /\ HandleSound /\ EndgameSafe
    BY DEF IInv
<1>4. /\ m_writebuf' \in [len : Nat, block : Nat, holds : 0 .. MaxSends]
      /\ m_writebuf'.len <= m_writebuf'.block /\ m_writebuf'.holds = k
      /\ k \in 1 .. MaxSends /\ sent' \in 0 .. MaxSends
    BY <1>1, <1>2, <1>3, FilledFits
<1>5. BufferFits'
    BY <1>4 DEF BufferFits
<1>6. Intact' /\ premature' \in BOOLEAN /\ (~premature' => ~premature)
    BY <1>1, <1>2, <1>3 DEF Intact, TypeOK
<1> HIDE DEF k
<1>7. CASE proc' = "assert" /\ UNCHANGED <<handle, list, kernel>>
    <2>1. TypeOK'
        BY <1>1, <1>2, <1>4, <1>6, <1>7 DEF TypeOK
    <2>2. HandleSound'
        BY <1>1, <1>3, <1>7 DEF HandleSound
    <2>3. EndgameSafe'
        BY <1>3, <1>6, <1>7 DEF EndgameSafe
    <2> QED BY <1>5, <1>6, <1>7, <2>1, <2>2, <2>3 DEF IInv
<1>8. ASSUME ~handle.closing, handle' = uv_udp_send(handle), proc' \in {"running", "crashed"},
             list' \in [next : Next_req, tail : Req \cup {"none"}], kernel' \in Kernel,
             ~premature' => WellPlaced' /\ kernel'.sends \subseteq {k}
      PROVE  IInv'
    <2>1. /\ handle' \in UdpHandle /\ Sound(handle') /\ SameFlags(handle', handle)
          /\ handle'.reqs_pending = handle.reqs_pending + 1
        BY <1>2, <1>8, Stays, SendIs
    <2>2. TypeOK'
        BY <1>1, <1>2, <1>4, <1>6, <1>8, <2>1 DEF TypeOK, Kernel, Next_req
    <2>3. handle.reqs_pending \in Nat
        BY <1>2, Stays DEF UdpHandle
    <2>4. /\ cb' = "receive" => handle'.reqs_pending > 0 /\ ~handle'.read_pending
          /\ m_init' => handle'.reading
        BY <1>1, <1>2, <2>1, <2>3 DEF SameFlags
    <2>5. ~premature' /\ proc' = "running" => \A x \in kernel'.sends : m_writebuf'.holds = x
        BY <1>4, <1>8
    <2>6. proc' # "starting" /\ proc' # "corrupt"
        BY <1>8
    <2> QED BY <1>5, <1>6, <1>8, <2>1, <2>2, <2>4, <2>5, <2>6, Settled
<1>9. ASSUME ~premature', ~handle.closing, handle' = uv_udp_send(handle)
      PROVE  /\ WellPlaced /\ Count(handle, kernel, InList, Ahead, cb) /\ Sends(handle) = 0
             /\ handle \in UdpHandle /\ kernel \in Kernel
             /\ (handle'.reading <=> handle.reading)
             /\ handle'.reqs_pending = handle.reqs_pending + 1
             /\ Sends(handle') = Sends(handle) + 1
    <2>1. WellPlaced
        BY <1>2, <1>6, <1>9
    <2>2. handle \in UdpHandle /\ kernel \in Kernel
        BY <1>2, Stays
    <2>3. Sends(handle) = Unfinished /\ Sends(handle) \in Nat
        BY <1>2, <2>2 DEF Sends, Unfinished, One, Sound, UdpHandle
    <2>4. Sends(handle) = 0
        <3>1. ~(Unfinished > 0)
            BY <1>1, <1>9, Zenon
        <3> QED BY <2>3, <3>1
    <2>5. /\ SameFlags(handle', handle)
          /\ handle'.reqs_pending = handle.reqs_pending + 1
          /\ Sends(handle') = Sends(handle) + 1
        BY <1>2, <1>9, <2>2, SendIs
    <2> QED BY <2>1, <2>2, <2>4, <2>5 DEF WellPlaced, SameFlags
<1>10. CASE /\ ~handle.closing
            /\ handle' = uv_udp_send(handle)
            /\ list' = uv_insert_pending_req(list, "send")
            /\ proc' \in {"running", "crashed"}
            /\ UNCHANGED kernel
    <2>1. list' \in [next : Next_req, tail : Req \cup {"none"}] /\ kernel' \in Kernel
        BY <1>2, <1>10, ReqFacts, Stays, InsertTyped
    <2>2. ASSUME ~premature' PROVE WellPlaced' /\ kernel'.sends \subseteq {k}
        <3>1. /\ "send" \notin InList /\ "send" \notin Ahead /\ kernel.sends = {}
              /\ Count(handle', kernel, InList \cup {"send"}, Ahead, cb)
            BY <1>9, <1>10, <2>2, SentToList
        <3>2. /\ walk'.at \in Req \cup {"none"} /\ walk'.first \in Req \cup {"none"}
              /\ ListOK(list.next, list.tail) /\ WalkOK(list.next, walk'.at, walk'.first)
              /\ Ahead = Chain(list.next, walk'.at, walk'.first)
            BY <1>1, <1>2, <1>9, <1>10, <2>2, TypeFacts DEF WellPlaced, Ahead
        <3>3. InList \cap Ahead = {}
            <4>1. /\ kernel \in Kernel /\ InList \in SUBSET Req /\ Ahead \in SUBSET Req
                  /\ Tally(handle, kernel, InList, Ahead, cb)
                BY <1>2, <1>9, <1>10, <2>2, TypeFacts DEF Count
            <4> QED BY <4>1, ListsDisjoint
        <3>4. "send" \in Req /\ list' = uv_insert_pending_req(list, "send")
            BY <1>10, ReqFacts
        <3>5. /\ ListOK(list'.next, list'.tail) /\ WalkOK(list'.next, walk'.at, walk'.first)
              /\ InList' = InList \cup {"send"} /\ Ahead' = Ahead
            BY <1>2, <3>1, <3>2, <3>3, <3>4, InsertStep
        <3> QED BY <1>1, <1>10, <3>1, <3>5 DEF WellPlaced
    <2> QED BY <1>8, <1>10, <2>1, <2>2
<1>11. CASE /\ ~handle.closing
            /\ handle' = uv_udp_send(handle)
            /\ kernel' = [kernel EXCEPT !.sends = @ \cup {k}]
            /\ proc' \in {"running", "crashed"}
            /\ UNCHANGED list
    <2>1. list' \in [next : Next_req, tail : Req \cup {"none"}] /\ kernel \in Kernel
        BY <1>2, <1>11, Stays
    <2>2. kernel' \in Kernel
        BY <1>4, <1>11, <2>1 DEF Kernel
    <2>3. ASSUME ~premature' PROVE WellPlaced' /\ kernel'.sends \subseteq {k}
        <3>1. kernel'.sends = {k} /\ Count(handle', kernel', InList, Ahead, cb)
            BY <1>9, <1>11, <2>3, SentToKernel
        <3>2. InList' = InList /\ Ahead' = Ahead
            BY <1>1, <1>11 DEF InList, Ahead
        <3> QED BY <1>1, <1>9, <1>11, <2>3, <3>1, <3>2 DEF WellPlaced
    <2> QED BY <1>8, <1>11, <2>1, <2>2, <2>3
<1>12. \A b : b \in (IF Unfinished = 0 THEN {"running"} ELSE {"running", "crashed"})
                 => b \in {"running", "crashed"}
    OBVIOUS
<1> QED BY <1>7, <1>10, <1>11, <1>12 DEF send, k

-----------------------------------------------------------------------------
LEMMA InitIInv == Init => IInv
<1> SUFFICES ASSUME Init PROVE IInv
    OBVIOUS
<1>1. TypeOK
    <2>1. handle \in UdpHandle
        BY DEF Init, uv_udp_init, UdpHandle
    <2>2. m_writebuf \in [len : Nat, block : Nat, holds : 0 .. MaxSends]
        <3>1. 0 \in 0 .. MaxSends /\ PACKET_BUFFER_SIZE \in Nat
            BY UdpAssumption
        <3> QED BY <3>1 DEF Init
    <2>3. kernel \in [recv : BOOLEAN, other : BOOLEAN, sends : SUBSET (1 .. MaxSends)]
        BY DEF Init
    <2>4. list \in [next : [Req -> Req \cup {"none"}], tail : Req \cup {"none"}]
        BY DEF Init, EmptyList
    <2>5. waiting \in 0 .. MaxWaiting /\ sent \in 0 .. MaxSends
        BY UdpAssumption DEF Init
    <2>6. walk \in [first : Req \cup {"none"}, at : Req \cup {"none"}]
        BY DEF Init
    <2>7. m_init \in BOOLEAN /\ failed \in BOOLEAN /\ cb \in {"none", "receive", "other"}
        BY Zenon DEF Init
    <2>8. /\ premature \in BOOLEAN /\ garbled \in BOOLEAN
          /\ proc \in {"starting", "running", "exited", "crashed", "assert", "corrupt"}
        BY Zenon DEF Init
    <2> QED BY <2>1, <2>2, <2>3, <2>4, <2>5, <2>6, <2>7, <2>8 DEF TypeOK
<1>2. ~handle.reading /\ ~handle.closing /\ handle.end = "no"
    BY DEF Init, uv_udp_init
<1>3. HandleSound
    BY <1>2 DEF Init, HandleSound, EmptyList
<1>4. BufferFits
    BY UdpAssumption DEF Init, BufferFits
<1>5. Intact /\ EndgameSafe
    BY DEF Init, Intact, EndgameSafe
<1> QED BY <1>1, <1>3, <1>4, <1>5 DEF IInv, Init

LEMMA StutterIInv == IInv /\ UNCHANGED vars => IInv'
<1> SUFFICES ASSUME IInv, UNCHANGED vars PROVE IInv'
    OBVIOUS
<1>1. TypeOK' <=> TypeOK
    BY DEF vars, TypeOK
<1>2. (HandleSound' <=> HandleSound) /\ (BufferFits' <=> BufferFits)
    BY DEF vars, HandleSound, BufferFits
<1>3. (Intact' <=> Intact) /\ (EndgameSafe' <=> EndgameSafe)
    BY DEF vars, Intact, EndgameSafe
<1>4. \A r : Places(r)' = Places(r)
    BY DEF vars, Places, Listed, Walked
<1>5. Unfinished' = Unfinished
    BY DEF vars, Unfinished
<1>6. Orderly' <=> Orderly
    BY <1>4, <1>5 DEF vars, Orderly
<1>7. (premature' <=> premature) /\ proc' = proc
    BY DEF vars
<1> QED BY <1>1, <1>2, <1>3, <1>6, <1>7, Zenon DEF IInv

LEMMA NextIInv == IInv /\ [Next]_vars => IInv'
<1> SUFFICES ASSUME IInv, [Next]_vars PROVE IInv'
    OBVIOUS
<1>1. CASE \E n \in Lengths : send(n)
    BY <1>1, SendKeeps
<1>2. CASE \E k \in 1 .. MaxSends : PollSend(k)
    BY <1>2, PollSendKeeps
<1>3. CASE Arrive \/ Initialize \/ AppCloses \/ Exit
    BY <1>3, ArriveKeeps, InitializeKeeps, AppClosesKeeps, ExitKeeps
<1>4. CASE PollRecv \/ PollOther \/ Endgame \/ ProcessReqs \/ ProcessUncounted \/ ProcessSend
    BY <1>4, PollRecvKeeps, PollOtherKeeps, EndgameKeeps, ProcessReqsKeeps,
       ProcessUncountedKeeps, ProcessSendKeeps
<1>5. CASE ReceiveDatagram \/ ReceiveNothing \/ ReceiveError \/ ReceiveCancelled \/ ReturnReceive
    BY <1>5, ReceiveDatagramKeeps, ReceiveNothingKeeps, ReceiveErrorKeeps,
       ReceiveCancelledKeeps, ReturnReceiveKeeps
<1>6. CASE ProcessOther \/ ReturnOther
    BY <1>6, ProcessOtherKeeps, ReturnOtherKeeps
<1>7. CASE UNCHANGED vars
    BY <1>7, StutterIInv
<1> QED BY <1>1, <1>2, <1>3, <1>4, <1>5, <1>6, <1>7 DEF Next

(***************************************************************************)
(* The inductive invariant: the list and the walk are well formed, every   *)
(* request is in one place, and the handle counts as many as there are.    *)
(***************************************************************************)
THEOREM Invariance == Spec => []IInv
BY InitIInv, NextIInv, PTL DEF Spec

(* The handle's counts stay natural numbers, the list stays a list of requests, *)
(* whatever is sent, received and closed in whatever order.                     *)
THEOREM TypeCorrect == Spec => []TypeOK
<1>1. IInv => TypeOK
    BY DEF IInv
<1> QED BY <1>1, Invariance, PTL

(* Until a send is premature, uv_insert_pending_req and uv_process_reqs lose no *)
(* request and process none twice, and reqs_pending and activecnt are right.    *)
THEOREM RequestsAreAccounted == Spec => []Accounted
<1>1. IInv => Accounted
    BY DEF IInv, Accounted, Orderly
<1> QED BY <1>1, Invariance, PTL

(* A server whose m_init is set has a receive under way, until a send is premature. *)
THEOREM ServerIsNotDeaf == Spec => []NotDeaf
<1>1. IInv => NotDeaf
    BY DEF IInv, NotDeaf, HandleSound, Orderly
<1> QED BY <1>1, Invariance, PTL

(* The length that send gives WSASendTo is never above the size of m_writebuf's block. *)
THEOREM BufferAlwaysFits == Spec => []BufferFits
<1>1. IInv => BufferFits
    BY DEF IInv
<1> QED BY <1>1, Invariance, PTL

(* The bytes of the one buffer are those of the datagram on its way, until a send *)
(* is premature.                                                                  *)
THEOREM DatagramsStayIntact == Spec => []Intact
<1>1. IInv => Intact
    BY DEF IInv
<1> QED BY <1>1, Invariance, PTL

(* on_close gives the handle back only when the kernel holds none of its requests, *)
(* until a send is premature.                                                      *)
THEOREM EndgameIsSafe == Spec => []EndgameSafe
<1>1. IInv => EndgameSafe
    BY DEF IInv
<1> QED BY <1>1, Invariance, PTL

(* A handle that is closing is not closed again. *)
LEMMA CloseNothing == ASSUME NEW h, h.closing PROVE close(h) = h
BY DEF close, uv_is_active

EndsInOrder(e, f) == <<e, f>> \in {<<"no", "wanted">>, <<"wanted", "closed">>}

LEMMA RecvDoneEnds ==
    ASSUME IInv, proc = "running", NEW h \in UdpHandle, Sound(h), h.reqs_pending > 0,
           ~h.read_pending, RecvDone(h), h.end = handle.end, handle.end # handle'.end,
           walk'.at \in Req \cup {"none"}, walk'.first \in Req \cup {"none"}
    PROVE  EndsInOrder(handle.end, handle'.end)
<1>1. TypeOK
    BY DEF IInv
<1>2. \/ handle'.end = h.end
      \/ h.closing /\ h.end = "no" /\ handle'.end = "wanted"
    BY <1>1, RecvDoneStep, Zenon
<1> QED BY <1>2 DEF EndsInOrder

LEMMA CloseStep ==
    ASSUME IInv, Next, handle.closing, handle.end # handle'.end
    PROVE  EndsInOrder(handle.end, handle'.end)
<1>1. TypeOK /\ HandleSound
    BY DEF IInv
<1>2. ~handle.reading /\ handle \in UdpHandle
    BY <1>1, Stays DEF HandleSound
<1>3. CASE Arrive \/ PollRecv \/ (\E k \in 1 .. MaxSends : PollSend(k)) \/ PollOther
           \/ ProcessReqs \/ ProcessUncounted \/ ProcessOther \/ ReturnOther
    BY <1>3 DEF Arrive, PollRecv, PollSend, PollOther, ProcessReqs, ProcessUncounted,
                ProcessOther, ReturnOther
<1>4. CASE Initialize
    BY <1>1, <1>4 DEF Initialize, HandleSound
<1>5. CASE \E n \in Lengths : send(n)
    BY <1>5 DEF send
<1>6. CASE AppCloses \/ Exit
    BY <1>6, CloseNothing DEF AppCloses, Exit
<1>7. CASE Endgame
    <2>1. handle.end = "wanted" /\ handle'.end = "closed"
        BY <1>2, <1>7 DEF Endgame, UdpHandle
    <2> QED BY <2>1 DEF EndsInOrder
<1>8. CASE ProcessSend
    <2>1. /\ proc = "running" /\ handle.reqs_pending > 0 /\ Sends(handle) > 0
          /\ handle' = SendReqDone(handle)
        BY <1>8 DEF ProcessSend, Process, Counted, Unfinished, Sends, One
    <2>2. Sound(handle)
        BY <2>1, Running
    <2>3. \/ handle'.end = handle.end
          \/ handle.end = "no" /\ handle'.end = "wanted"
        BY <1>2, <2>1, <2>2, SendDoneIs
    <2> QED BY <2>3 DEF EndsInOrder
<1>9. CASE ReceiveDatagram \/ ReceiveNothing \/ ReceiveError
    BY <1>2, <1>9 DEF ReceiveDatagram, ReceiveNothing, ReceiveError
<1>10. CASE ReceiveCancelled
    <2>1. Process("recv") /\ RecvDone(Received)
        BY <1>10 DEF ReceiveCancelled
    <2>2. proc = "running"
        BY <2>1 DEF Process
    <2>3. /\ Received \in UdpHandle /\ Sound(Received) /\ ~Received.read_pending
          /\ Received.reqs_pending = handle.reqs_pending /\ Received.end = handle.end
        BY <2>2, ReceivedHere
    <2>4. /\ handle.reqs_pending > 0
          /\ walk' \in [first : Req \cup {"none"}, at : Req \cup {"none"}]
        BY <2>1, TakeStep
    <2>5. walk'.at \in Req \cup {"none"} /\ walk'.first \in Req \cup {"none"}
        BY <2>4
    <2>6. Received.reqs_pending > 0
        BY <2>3, <2>4
    <2> QED BY <2>1, <2>2, <2>3, <2>5, <2>6, RecvDoneEnds
<1>11. CASE ReturnReceive
    <2>1. proc = "running" /\ cb = "receive" /\ RecvDone(handle) /\ walk' = walk
        BY <1>11 DEF ReturnReceive
    <2>2. Sound(handle) /\ handle.reqs_pending > 0 /\ ~handle.read_pending
        BY <2>1, Running
    <2>3. walk'.at \in Req \cup {"none"} /\ walk'.first \in Req \cup {"none"}
        BY <1>1, <2>1, TypeFacts
    <2> QED BY <1>2, <2>1, <2>2, <2>3, RecvDoneEnds
<1> QED BY <1>3, <1>4, <1>5, <1>6, <1>7, <1>8, <1>9, <1>10, <1>11 DEF Next

(* uv_close is not called for a handle that is closing, so uv_want_endgame and *)
(* on_close come once each, in this order.                                     *)
THEOREM ClosesOnce == Spec => CloseOnce
<1>1. IInv /\ [Next]_vars =>
        [handle.closing /\ handle.end # handle'.end =>
            <<handle.end, handle'.end>> \in {<<"no", "wanted">>, <<"wanted", "closed">>}]_vars
    BY CloseStep DEF EndsInOrder
<1> QED BY <1>1, Invariance, PTL DEF Spec, CloseOnce

=============================================================================
