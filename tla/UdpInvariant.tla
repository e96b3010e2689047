--------------------------- MODULE UdpInvariant -----------------------------
(***************************************************************************)
(* The inductive invariant of UdpServer.  Each request of a handle is with *)
(* the kernel, on libuv's pending list or ahead of the walk over it, and   *)
(* reqs_pending counts them.  Here are the facts its proof rests on, and   *)
(* the steps that hand a received datagram, or another handle's request,   *)
(* to its callback; UdpProofs has the other steps and the theorems.        *)
(***************************************************************************)
EXTENDS UdpServer, FiniteSetTheorems, TLAPS

One(b) == IF b THEN 1 ELSE 0

(* From the tail, next_req leads once around the list and back to the tail. *)
ListOK(next, tail) ==
    LET h == next[tail]
        x == next[h]
    IN  \/ tail = "none"
        \/ h = tail
        \/ h \in Req \ {tail} /\ x = tail
        \/ h \in Req \ {tail} /\ x \in Req \ {tail, h} /\ next[x] = tail

(* From where the walk stands, next_req leads to where it began, without a detour. *)
WalkOK(next, at, first) ==
    LET y == next[at]
        z == next[y]
    IN  \/ at = "none"
        \/ /\ first \in Req
           /\ \/ y = first
              \/ y \in Req \ {at, first} /\ z = first
              \/ y \in Req \ {at, first} /\ z \in Req \ {at, first, y} /\ next[z] = first

(***************************************************************************)
(* What holds whether or not a send was premature.                         *)
(***************************************************************************)
HandleSound ==
    /\ handle.reading => handle.activecnt > 0 /\ ~handle.closing
    /\ cb = "receive" => handle.reqs_pending > 0 /\ ~handle.read_pending
    /\ handle.end # "no" => handle.closing /\ handle.reqs_pending = 0
    /\ m_init => handle.reading
    /\ proc = "starting" =>
          /\ ~handle.closing /\ handle.end = "no" /\ ~premature
          /\ kernel = [recv |-> FALSE, other |-> TRUE, sends |-> {}]
          /\ list.tail = "none" /\ walk.at = "none" /\ cb = "none"

(***************************************************************************)
(* Until a send is premature: every request is in one place, and counted.  *)
(***************************************************************************)
Orderly ==
    /\ ListOK(list.next, list.tail)
    /\ WalkOK(list.next, walk.at, walk.first)
    /\ handle.reqs_pending = Places("recv") + Places("send")
    /\ Unfinished = Places("send")
    /\ Places("recv") <= 1 /\ Places("send") <= 1 /\ Places("other") = 1
    /\ handle.reading => Places("recv") = 1
    /\ \A k \in kernel.sends : m_writebuf.holds = k

IInv ==
    /\ TypeOK
    /\ HandleSound
    /\ BufferFits
    /\ Intact
    /\ EndgameSafe
    /\ ~premature => proc # "corrupt"
    /\ ~premature /\ proc = "running" => Orderly

-----------------------------------------------------------------------------
(* The circular list of completed requests, and the walk along it. *)

Next_req == [Req -> Req \cup {"none"}]

Members(next, tail) ==
    IF tail = "none" THEN {} ELSE Chain(next, next[tail], next[tail])

LEMMA ReqFacts == "none" \notin Req /\ \A r : r \in Req <=> r = "recv" \/ r = "send" \/ r = "other"
BY DEF Req

(* uv_insert_pending_req, seen from outside. *)
LEMMA InsertFacts ==
    ASSUME NEW l \in [next : Next_req, tail : Req \cup {"none"}], NEW r \in Req,
           NEW m, m = uv_insert_pending_req(l, r)
    PROVE  /\ m \in [next : Next_req, tail : Req \cup {"none"}]
           /\ m.tail = r
           /\ l.tail = "none" => m.next[r] = r
           /\ l.tail # "none" /\ l.tail # r => /\ m.next[l.tail] = r
                                               /\ m.next[r] = l.next[l.tail]
           /\ \A q \in Req : q # r /\ q # l.tail => m.next[q] = l.next[q]
BY ReqFacts DEF uv_insert_pending_req, Next_req

LEMMA MembersAre ==
    ASSUME NEW n \in Next_req, NEW t \in Req, ListOK(n, t)
    PROVE  \/ n[t] = t /\ Members(n, t) = {t}
           \/ n[t] \in Req \ {t} /\ n[n[t]] = t /\ Members(n, t) = {t, n[t]}
           \/ /\ n[t] \in Req \ {t} /\ n[n[t]] \in Req \ {t, n[t]} /\ n[n[n[t]]] = t
              /\ Members(n, t) = {t, n[t], n[n[t]]}
BY ReqFacts DEF ListOK, Members, Chain, Along, Next_req

LEMMA WalkedAre ==
    ASSUME NEW n \in Next_req, NEW a \in Req, NEW f \in Req, WalkOK(n, a, f)
    PROVE  \/ n[a] = f /\ Chain(n, a, f) = {a}
           \/ n[a] \in Req \ {a, f} /\ n[n[a]] = f /\ Chain(n, a, f) = {a, n[a]}
           \/ /\ n[a] \in Req \ {a, f} /\ n[n[a]] \in Req \ {a, f, n[a]} /\ n[n[n[a]]] = f
              /\ Chain(n, a, f) = {a, n[a], n[n[a]]}
BY ReqFacts DEF WalkOK, Chain, Along, Next_req

LEMMA NoneWalked ==
    ASSUME NEW n, NEW f
    PROVE  Chain(n, "none", f) = {} /\ WalkOK(n, "none", f)
BY DEF Chain, Along, WalkOK

(* A request that is nowhere goes to the end of the list; the walk does not notice. *)
LEMMA InsertIs ==
    ASSUME NEW l \in [next : Next_req, tail : Req \cup {"none"}], NEW r \in Req,
           NEW a \in Req \cup {"none"}, NEW f \in Req \cup {"none"},
           ListOK(l.next, l.tail), WalkOK(l.next, a, f),
           r \notin Members(l.next, l.tail), r \notin Chain(l.next, a, f),
           Members(l.next, l.tail) \cap Chain(l.next, a, f) = {},
           NEW m, m = uv_insert_pending_req(l, r)
    PROVE  /\ ListOK(m.next, m.tail) /\ WalkOK(m.next, a, f)
           /\ Members(m.next, m.tail) = Members(l.next, l.tail) \cup {r}
           /\ Chain(m.next, a, f) = Chain(l.next, a, f)
<1> DEFINE n == l.next
           t == l.tail
           p == m.next
<1>1. /\ n \in Next_req /\ t \in Req \cup {"none"} /\ p \in Next_req /\ m.tail = r
      /\ t = "none" => p[r] = r
      /\ t # "none" /\ t # r => p[t] = r /\ p[r] = n[t]
      /\ \A q \in Req : q # r /\ q # t => p[q] = n[q]
    BY InsertFacts
<1>2. ListOK(n, t) /\ WalkOK(n, a, f) /\ r \notin Members(n, t) /\ r \notin Chain(n, a, f)
    OBVIOUS
<1>3. Members(n, t) \cap Chain(n, a, f) = {}
    OBVIOUS
<1> HIDE DEF n, t, p
<1>4. ListOK(p, r) /\ Members(p, r) = Members(n, t) \cup {r}
    <2>1. CASE t = "none"
        BY <1>1, <2>1, ReqFacts, Zenon DEF ListOK, Members, Chain, Along
    <2>2. CASE t \in Req
        <3>1. \/ n[t] = t /\ Members(n, t) = {t}
              \/ n[t] \in Req \ {t} /\ n[n[t]] = t /\ Members(n, t) = {t, n[t]}
              \/ /\ n[t] \in Req \ {t} /\ n[n[t]] \in Req \ {t, n[t]} /\ n[n[n[t]]] = t
                 /\ Members(n, t) = {t, n[t], n[n[t]]}
            BY <1>1, <1>2, <2>2, MembersAre
        <3>2. CASE n[t] = t /\ Members(n, t) = {t}
            <4>1. r # t /\ p[t] = r /\ p[r] = t
                BY <1>1, <1>2, <2>2, <3>2, ReqFacts
            <4> QED BY <2>2, <3>2, <4>1, ReqFacts, Zenon DEF ListOK, Members, Chain, Along
        <3>3. CASE n[t] \in Req \ {t} /\ n[n[t]] = t /\ Members(n, t) = {t, n[t]}
            <4>1. r # t /\ r # n[t] /\ p[t] = r /\ p[r] = n[t] /\ p[n[t]] = t
                BY <1>1, <1>2, <2>2, <3>3, ReqFacts
            <4>2. Req = {t, r, n[t]}
                BY <2>2, <3>3, <4>1, ReqFacts
            <4>3. ListOK(p, r)
                BY <2>2, <3>3, <4>1, ReqFacts DEF ListOK
            <4>4. r \in Req /\ p[r] # r /\ p[p[r]] # r
                BY <2>2, <3>3, <4>1
            <4>5. Members(p, r) = {r, p[r], p[p[r]]}
                BY <1>1, <4>3, <4>4, MembersAre
            <4> QED BY <3>3, <4>1, <4>3, <4>5
        <3>4. CASE /\ n[t] \in Req \ {t} /\ n[n[t]] \in Req \ {t, n[t]}
                   /\ Members(n, t) = {t, n[t], n[n[t]]}
            BY <1>2, <2>2, <3>4, ReqFacts
        <3> QED BY <3>1, <3>2, <3>3, <3>4
    <2> QED BY <1>1, <2>1, <2>2
<1>5. WalkOK(p, a, f) /\ Chain(p, a, f) = Chain(n, a, f)
    <2>1. CASE a = "none"
        BY <2>1, NoneWalked
    <2>2. CASE a \in Req
        <3>0. f \in Req
            BY <1>2, <2>2, ReqFacts DEF WalkOK
        <3>1. \/ n[a] = f /\ Chain(n, a, f) = {a}
              \/ n[a] \in Req \ {a, f} /\ n[n[a]] = f /\ Chain(n, a, f) = {a, n[a]}
              \/ /\ n[a] \in Req \ {a, f} /\ n[n[a]] \in Req \ {a, f, n[a]} /\ n[n[n[a]]] = f
                 /\ Chain(n, a, f) = {a, n[a], n[n[a]]}
            BY <1>1, <1>2, <2>2, <3>0, WalkedAre
        <3>2. t # "none" => t \in Members(n, t)
            <4> SUFFICES ASSUME t # "none" PROVE t \in Members(n, t)
                OBVIOUS
            <4>1. t \in Req
                BY <1>1
            <4> QED BY <1>1, <1>2, <4>1, MembersAre
        <3>3. \A q \in Chain(n, a, f) : q \in Req => p[q] = n[q]
            <4> SUFFICES ASSUME NEW q \in Chain(n, a, f), q \in Req PROVE p[q] = n[q]
                OBVIOUS
            <4>1. q # r
                BY <1>2
            <4>2. q # t
                BY <1>3, <3>2, ReqFacts
            <4> QED BY <1>1, <4>1, <4>2
        <3>4. CASE n[a] = f /\ Chain(n, a, f) = {a}
            <4>1. p[a] = f
                BY <2>2, <3>3, <3>4
            <4> QED BY <2>2, <3>0, <3>4, <4>1, ReqFacts, Zenon DEF WalkOK, Chain, Along
        <3>5. CASE n[a] \in Req \ {a, f} /\ n[n[a]] = f /\ Chain(n, a, f) = {a, n[a]}
            <4>1. p[a] = n[a] /\ p[n[a]] = f
                BY <2>2, <3>3, <3>5
            <4> QED BY <2>2, <3>0, <3>5, <4>1, ReqFacts, Zenon DEF WalkOK, Chain, Along
        <3>6. CASE /\ n[a] \in Req \ {a, f} /\ n[n[a]] \in Req \ {a, f, n[a]}
                   /\ Chain(n, a, f) = {a, n[a], n[n[a]]}
            BY <1>2, <2>2, <3>6, ReqFacts
        <3> QED BY <3>1, <3>4, <3>5, <3>6
    <2> QED BY <2>1, <2>2
<1> QED BY <1>1, <1>4, <1>5 DEF n, t, p

(* uv_process_reqs begins: the whole list is ahead of the walk. *)
LEMMA StartIs ==
    ASSUME NEW n \in Next_req, NEW t \in Req, ListOK(n, t)
    PROVE  /\ n[t] \in Req
           /\ WalkOK(n, n[t], n[t])
           /\ Chain(n, n[t], n[t]) = Members(n, t)
           /\ ListOK(n, "none") /\ Members(n, "none") = {}
<1>1. ListOK(n, "none") /\ Members(n, "none") = {}
    BY DEF ListOK, Members
<1>2. Chain(n, n[t], n[t]) = Members(n, t)
    BY ReqFacts DEF Members
<1> QED BY <1>1, <1>2, ReqFacts DEF ListOK, WalkOK, Next_req

(* The walk moves on from request r. *)
LEMMA StepIs ==
    ASSUME NEW n \in Next_req, NEW r \in Req, NEW f \in Req \cup {"none"}, WalkOK(n, r, f),
           NEW a, a = IF n[r] = f THEN "none" ELSE n[r]
    PROVE  /\ a \in Req \cup {"none"} /\ WalkOK(n, a, f)
           /\ r \in Chain(n, r, f)
           /\ Chain(n, a, f) = Chain(n, r, f) \ {r}
<1>0. f \in Req
    BY ReqFacts DEF WalkOK
<1>1. \/ n[r] = f /\ Chain(n, r, f) = {r}
      \/ n[r] \in Req \ {r, f} /\ n[n[r]] = f /\ Chain(n, r, f) = {r, n[r]}
      \/ /\ n[r] \in Req \ {r, f} /\ n[n[r]] \in Req \ {r, f, n[r]} /\ n[n[n[r]]] = f
         /\ Chain(n, r, f) = {r, n[r], n[n[r]]}
    BY <1>0, WalkedAre
<1>2. CASE n[r] = f /\ Chain(n, r, f) = {r}
    BY <1>2, NoneWalked
<1>3. CASE n[r] \in Req \ {r, f} /\ n[n[r]] = f /\ Chain(n, r, f) = {r, n[r]}
    <2>1. a = n[r]
        BY <1>3
    <2>2. WalkOK(n, a, f) /\ Chain(n, a, f) = {a}
        BY <1>0, <1>3, <2>1, ReqFacts, Zenon DEF WalkOK, Chain, Along
    <2> QED BY <1>3, <2>1, <2>2
<1>4. CASE /\ n[r] \in Req \ {r, f} /\ n[n[r]] \in Req \ {r, f, n[r]} /\ n[n[n[r]]] = f
           /\ Chain(n, r, f) = {r, n[r], n[n[r]]}
    <2>1. a = n[r]
        BY <1>4
    <2>2. WalkOK(n, a, f) /\ Chain(n, a, f) = {a, n[n[r]]}
        BY <1>0, <1>4, <2>1, ReqFacts, Zenon DEF WalkOK, Chain, Along
    <2> QED BY <1>4, <2>1, <2>2
<1> QED BY <1>1, <1>2, <1>3, <1>4

-----------------------------------------------------------------------------
(* What the operations of the handle do to its fields. *)

SameFlags(g, h) ==
    (g.reading <=> h.reading) /\ (g.read_pending <=> h.read_pending) /\ (g.closing <=> h.closing)

LEMMA WantIs ==
    ASSUME NEW h \in UdpHandle, NEW g, g = WantEndgame(h)
    PROVE  /\ g \in UdpHandle /\ SameFlags(g, h)
           /\ g.activecnt = h.activecnt /\ g.reqs_pending = h.reqs_pending
           /\ g.end = IF h.closing /\ h.reqs_pending = 0 THEN "wanted" ELSE h.end
BY DEF WantEndgame, UdpHandle, SameFlags

LEMMA DecReqs ==
    ASSUME NEW h \in UdpHandle, NEW n \in Nat, NEW g, g = [h EXCEPT !.reqs_pending = n]
    PROVE  /\ g \in UdpHandle /\ SameFlags(g, h)
           /\ g.activecnt = h.activecnt /\ g.reqs_pending = n /\ g.end = h.end
BY DEF UdpHandle, SameFlags

LEMMA DecActive ==
    ASSUME NEW h \in UdpHandle, NEW n \in Nat, NEW g, g = [h EXCEPT !.activecnt = n]
    PROVE  /\ g \in UdpHandle /\ SameFlags(g, h)
           /\ g.activecnt = n /\ g.reqs_pending = h.reqs_pending /\ g.end = h.end
BY DEF UdpHandle, SameFlags

LEMMA ReqDoneIs ==
    ASSUME NEW h \in UdpHandle, h.reqs_pending > 0, NEW g, g = ReqDone(h)
    PROVE  /\ g \in UdpHandle /\ SameFlags(g, h)
           /\ g.activecnt = h.activecnt /\ g.reqs_pending = h.reqs_pending - 1
           /\ g.end = IF h.closing /\ h.reqs_pending = 1 THEN "wanted" ELSE h.end
<1> DEFINE n == h.reqs_pending - 1
           f == [h EXCEPT !.reqs_pending = n]
<1>1. n \in Nat /\ (n = 0 <=> h.reqs_pending = 1)
    BY DEF UdpHandle
<1>2. g = WantEndgame(f)
    BY DEF ReqDone
<1> HIDE DEF n
<1>3. /\ f \in UdpHandle /\ SameFlags(f, h)
      /\ f.activecnt = h.activecnt /\ f.reqs_pending = n /\ f.end = h.end
    BY <1>1, DecReqs
<1> HIDE DEF f
<1>4. /\ g \in UdpHandle /\ SameFlags(g, f)
      /\ g.activecnt = f.activecnt /\ g.reqs_pending = f.reqs_pending
      /\ g.end = IF f.closing /\ f.reqs_pending = 0 THEN "wanted" ELSE f.end
    BY <1>2, <1>3, WantIs
<1>5. SameFlags(g, h)
    BY <1>3, <1>4, Zenon DEF SameFlags
<1>6. g.end = IF h.closing /\ h.reqs_pending = 1 THEN "wanted" ELSE h.end
    <2>1. f.closing <=> h.closing
        BY <1>3 DEF SameFlags
    <2> QED BY <1>1, <1>3, <1>4, <2>1, Zenon
<1> QED BY <1>3, <1>4, <1>5, <1>6 DEF n

LEMMA SendReqDoneIs ==
    ASSUME NEW h \in UdpHandle, h.reqs_pending > 0, h.activecnt > 0, NEW g, g = SendReqDone(h)
    PROVE  /\ g \in UdpHandle /\ SameFlags(g, h)
           /\ g.activecnt = h.activecnt - 1 /\ g.reqs_pending = h.reqs_pending - 1
           /\ g.end = IF h.closing /\ h.reqs_pending = 1 THEN "wanted" ELSE h.end
<1> DEFINE n == h.activecnt - 1
           f == [h EXCEPT !.activecnt = n]
<1>1. n \in Nat
    BY DEF UdpHandle
<1>2. g = ReqDone(f)
    BY DEF SendReqDone
<1> HIDE DEF n
<1>3. /\ f \in UdpHandle /\ SameFlags(f, h)
      /\ f.activecnt = n /\ f.reqs_pending = h.reqs_pending /\ f.end = h.end
    BY <1>1, DecActive
<1> HIDE DEF f
<1>4. /\ g \in UdpHandle /\ SameFlags(g, f)
      /\ g.activecnt = f.activecnt /\ g.reqs_pending = f.reqs_pending - 1
      /\ g.end = IF f.closing /\ f.reqs_pending = 1 THEN "wanted" ELSE f.end
    BY <1>2, <1>3, ReqDoneIs
<1>5. SameFlags(g, h)
    BY <1>3, <1>4, Zenon DEF SameFlags
<1>6. g.end = IF h.closing /\ h.reqs_pending = 1 THEN "wanted" ELSE h.end
    <2>1. f.closing <=> h.closing
        BY <1>3 DEF SameFlags
    <2> QED BY <1>3, <1>4, <2>1, Zenon
<1> QED BY <1>3, <1>4, <1>5, <1>6 DEF n

(* It stops the receiving, and the handle is active only by its sends. *)
LEMMA StopIs ==
    ASSUME NEW h \in UdpHandle, h.reading => h.activecnt > 0, NEW g, g = uv_udp_recv_stop(h)
    PROVE  /\ g \in UdpHandle /\ ~g.reading
           /\ (g.read_pending <=> h.read_pending) /\ (g.closing <=> h.closing)
           /\ g.activecnt = h.activecnt - One(h.reading)
           /\ g.reqs_pending = h.reqs_pending /\ g.end = h.end
<1>1. CASE ~h.reading
    BY <1>1 DEF uv_udp_recv_stop, One, UdpHandle
<1>2. CASE h.reading
    <2> DEFINE n == h.activecnt - 1
    <2>1. n \in Nat
        BY <1>2 DEF UdpHandle
    <2>2. g = [h EXCEPT !.reading = FALSE, !.activecnt = n]
        BY <1>2 DEF uv_udp_recv_stop
    <2>3. n = h.activecnt - One(h.reading)
        BY <1>2 DEF One
    <2> HIDE DEF n
    <2>4. /\ g \in UdpHandle /\ ~g.reading
          /\ (g.read_pending <=> h.read_pending) /\ (g.closing <=> h.closing)
          /\ g.activecnt = n
          /\ g.reqs_pending = h.reqs_pending /\ g.end = h.end
        BY <2>1, <2>2, Zenon DEF UdpHandle
    <2> QED BY <2>3, <2>4
<1> QED BY <1>1, <1>2

(* Of a handle that the operations leave behind: it is active while it reads, *)
(* and ends only when it is closing and counts no request.                    *)
Sound(h) ==
    /\ h.reading => h.activecnt > 0 /\ ~h.closing
    /\ h.end # "no" => h.closing /\ h.reqs_pending = 0

Sends(h) == h.activecnt - One(h.reading)

LEMMA CloseIs ==
    ASSUME NEW h \in UdpHandle, Sound(h), NEW g, g = close(h)
    PROVE  /\ g \in UdpHandle /\ Sound(g) /\ ~g.reading
           /\ (g.read_pending <=> h.read_pending) /\ (h.closing => g.closing)
           /\ Sends(g) = Sends(h) /\ g.reqs_pending = h.reqs_pending
           /\ \/ g.end = h.end
              \/ ~h.closing /\ g.end = "wanted"
<1>1. CASE ~uv_is_active(h)
    <2>1. g = h
        BY <1>1 DEF close
    <2>2. ~h.reading
        BY <1>1 DEF uv_is_active, Sound, UdpHandle
    <2> QED BY <2>1, <2>2
<1>2. CASE uv_is_active(h)
    <2> DEFINE s == uv_udp_recv_stop(h)
               f == [s EXCEPT !.closing = TRUE]
    <2>1. g = WantEndgame(f)
        BY <1>2 DEF close, uv_close
    <2>2. /\ s \in UdpHandle /\ ~s.reading
          /\ (s.read_pending <=> h.read_pending) /\ (s.closing <=> h.closing)
          /\ s.activecnt = Sends(h)
          /\ s.reqs_pending = h.reqs_pending /\ s.end = h.end
        BY StopIs DEF Sound, Sends
    <2> HIDE DEF s
    <2>3. /\ f \in UdpHandle /\ ~f.reading /\ f.closing
          /\ (f.read_pending <=> s.read_pending) /\ f.activecnt = s.activecnt
          /\ f.reqs_pending = s.reqs_pending /\ f.end = s.end
        BY <2>2, Zenon DEF UdpHandle
    <2> HIDE DEF f
    <2>4. /\ g \in UdpHandle /\ SameFlags(g, f)
          /\ g.activecnt = f.activecnt /\ g.reqs_pending = f.reqs_pending
          /\ g.end = IF f.closing /\ f.reqs_pending = 0 THEN "wanted" ELSE f.end
        BY <2>1, <2>3, WantIs
    <2>5. ~g.reading /\ g.closing /\ (g.read_pending <=> h.read_pending)
        BY <2>2, <2>3, <2>4, Zenon DEF SameFlags
    <2>6. Sends(g) = Sends(h)
        BY <2>2, <2>3, <2>4, <2>5 DEF Sends, One, UdpHandle
    <2>7. ~h.closing /\ h.end = "no"
        BY <1>2 DEF uv_is_active, Sound
    <2>8. g.end = IF h.reqs_pending = 0 THEN "wanted" ELSE "no"
        BY <2>2, <2>3, <2>4, <2>7, Zenon
    <2>9. g.reqs_pending = h.reqs_pending
        BY <2>2, <2>3, <2>4
    <2>10. Sound(g)
        BY <2>5, <2>8, <2>9 DEF Sound
    <2> QED BY <2>4, <2>5, <2>6, <2>7, <2>8, <2>9, <2>10
<1> QED BY <1>1, <1>2

LEMMA SendIs ==
    ASSUME NEW h \in UdpHandle, Sound(h), ~h.closing, NEW g, g = uv_udp_send(h)
    PROVE  /\ g \in UdpHandle /\ Sound(g) /\ SameFlags(g, h)
           /\ Sends(g) = Sends(h) + 1 /\ g.reqs_pending = h.reqs_pending + 1 /\ g.end = h.end
<1> DEFINE n == h.reqs_pending + 1
           a == h.activecnt + 1
<1>1. n \in Nat /\ a \in Nat
    BY DEF UdpHandle
<1>2. g = [h EXCEPT !.reqs_pending = n, !.activecnt = a]
    BY DEF uv_udp_send
<1> HIDE DEF n, a
<1>3. g \in UdpHandle /\ SameFlags(g, h) /\ g.reqs_pending = n /\ g.activecnt = a /\ g.end = h.end
    BY <1>1, <1>2, Zenon DEF UdpHandle, SameFlags
<1>4. Sends(g) = Sends(h) + 1
    BY <1>3 DEF Sends, a, One, UdpHandle, SameFlags
<1>5. Sound(g)
    BY <1>3 DEF Sound, a, n, UdpHandle, SameFlags
<1> QED BY <1>3, <1>4, <1>5 DEF n

LEMMA QueueIs ==
    ASSUME NEW h \in UdpHandle, Sound(h), ~h.closing,
           NEW g, g = QueueRecv(h) \/ g = QueueRecvFailed(h)
    PROVE  /\ g \in UdpHandle /\ Sound(g)
           /\ (g.reading <=> h.reading) /\ (g.closing <=> h.closing)
           /\ Sends(g) = Sends(h) /\ g.reqs_pending = h.reqs_pending + 1 /\ g.end = h.end
<1> DEFINE n == h.reqs_pending + 1
<1>1. n \in Nat
    BY DEF UdpHandle
<1>2. g = [h EXCEPT !.read_pending = TRUE, !.reqs_pending = n] \/ g = [h EXCEPT !.reqs_pending = n]
    BY DEF QueueRecv, QueueRecvFailed
<1> HIDE DEF n
<1>3. /\ g \in UdpHandle /\ (g.reading <=> h.reading) /\ (g.closing <=> h.closing)
      /\ g.reqs_pending = n /\ g.activecnt = h.activecnt /\ g.end = h.end
    BY <1>1, <1>2, Zenon DEF UdpHandle
<1>4. Sends(g) = Sends(h)
    BY <1>3 DEF Sends, One
<1>5. Sound(g)
    BY <1>3 DEF Sound, n, UdpHandle
<1> QED BY <1>3, <1>4, <1>5 DEF n

LEMMA ReceivedIs ==
    ASSUME NEW h \in UdpHandle, Sound(h), NEW g, g = [h EXCEPT !.read_pending = FALSE]
    PROVE  /\ g \in UdpHandle /\ Sound(g) /\ ~g.read_pending
           /\ (g.reading <=> h.reading) /\ (g.closing <=> h.closing)
           /\ Sends(g) = Sends(h) /\ g.reqs_pending = h.reqs_pending /\ g.end = h.end
<1>1. /\ g \in UdpHandle /\ ~g.read_pending
      /\ (g.reading <=> h.reading) /\ (g.closing <=> h.closing)
      /\ g.activecnt = h.activecnt /\ g.reqs_pending = h.reqs_pending /\ g.end = h.end
    BY Zenon DEF UdpHandle
<1> QED BY <1>1 DEF Sound, Sends, One, UdpHandle

(* DECREASE_PENDING_REQ_COUNT keeps the handle sound. *)
LEMMA DoneIs ==
    ASSUME NEW h \in UdpHandle, Sound(h), h.reqs_pending > 0, NEW g, g = ReqDone(h)
    PROVE  /\ g \in UdpHandle /\ Sound(g) /\ SameFlags(g, h)
           /\ Sends(g) = Sends(h) /\ g.reqs_pending = h.reqs_pending - 1
           /\ \/ g.end = h.end
              \/ h.closing /\ h.end = "no" /\ g.end = "wanted"
<1>1. /\ g \in UdpHandle /\ SameFlags(g, h)
      /\ g.activecnt = h.activecnt /\ g.reqs_pending = h.reqs_pending - 1
      /\ g.end = IF h.closing /\ h.reqs_pending = 1 THEN "wanted" ELSE h.end
    BY ReqDoneIs
<1>2. h.end = "no"
    BY DEF Sound, UdpHandle
<1>3. Sends(g) = Sends(h)
    BY <1>1 DEF Sends, One, SameFlags
<1>4. Sound(g)
    BY <1>1, <1>2 DEF Sound, SameFlags, UdpHandle
<1> QED BY <1>1, <1>2, <1>3, <1>4

LEMMA SendDoneIs ==
    ASSUME NEW h \in UdpHandle, Sound(h), h.reqs_pending > 0, Sends(h) > 0,
           NEW g, g = SendReqDone(h)
    PROVE  /\ g \in UdpHandle /\ Sound(g) /\ SameFlags(g, h)
           /\ Sends(g) = Sends(h) - 1 /\ g.reqs_pending = h.reqs_pending - 1
           /\ \/ g.end = h.end
              \/ h.closing /\ h.end = "no" /\ g.end = "wanted"
<1>0. h.activecnt > 0 /\ (h.reading => h.activecnt > 1)
    BY DEF Sends, One, UdpHandle
<1>1. /\ g \in UdpHandle /\ SameFlags(g, h)
      /\ g.activecnt = h.activecnt - 1 /\ g.reqs_pending = h.reqs_pending - 1
      /\ g.end = IF h.closing /\ h.reqs_pending = 1 THEN "wanted" ELSE h.end
    BY <1>0, SendReqDoneIs
<1>2. h.end = "no"
    BY DEF Sound, UdpHandle
<1>3. Sends(g) = Sends(h) - 1
    BY <1>1 DEF Sends, One, SameFlags, UdpHandle
<1>4. Sound(g)
    BY <1>0, <1>1, <1>2 DEF Sound, SameFlags, UdpHandle
<1> QED BY <1>1, <1>2, <1>3, <1>4

-----------------------------------------------------------------------------
(* Where the requests are, counted: k is the kernel, L the list, W what is *)
(* ahead of the walk, c the callback in progress.                          *)

Recvs(k, L, W, c)  == One("recv" \in L) + One("recv" \in W) + (One(k.recv) + One(c = "receive"))
Writes(k, L, W)    == One("send" \in L) + One("send" \in W) + Cardinality(k.sends)
Others(k, L, W, c) == One("other" \in L) + One("other" \in W) + (One(k.other) + One(c = "other"))

Tally(h, k, L, W, c) ==
    /\ h.reqs_pending = Recvs(k, L, W, c) + Writes(k, L, W)
    /\ Sends(h) = Writes(k, L, W)
    /\ Recvs(k, L, W, c) <= 1 /\ Writes(k, L, W) <= 1 /\ Others(k, L, W, c) = 1

Count(h, k, L, W, c) == Tally(h, k, L, W, c) /\ (h.reading => Recvs(k, L, W, c) = 1)

InList == Members(list.next, list.tail)
Ahead  == Chain(list.next, walk.at, walk.first)

WellPlaced ==
    /\ ListOK(list.next, list.tail)
    /\ WalkOK(list.next, walk.at, walk.first)
    /\ Count(handle, kernel, InList, Ahead, cb)

Kernel == [recv : BOOLEAN, other : BOOLEAN, sends : SUBSET (1 .. MaxSends)]

LEMMA KernelFinite ==
    ASSUME NEW k \in Kernel
    PROVE  IsFiniteSet(k.sends) /\ Cardinality(k.sends) \in Nat /\ (Cardinality(k.sends) = 0 <=> k.sends = {})
<1>1. IsFiniteSet(1 .. MaxSends)
    BY UdpAssumption, FS_Interval
<1>2. k.sends \subseteq 1 .. MaxSends
    BY DEF Kernel
<1>3. IsFiniteSet(k.sends)
    BY <1>1, <1>2, FS_Subset, Zenon
<1> QED BY <1>3, FS_CardinalityType, FS_EmptySet

LEMMA PlacesAre ==
    /\ Places("recv") = One("recv" \in InList) + One("recv" \in Ahead) + (One(kernel.recv) + One(cb = "receive"))
    /\ Places("send") = One("send" \in InList) + One("send" \in Ahead) + Cardinality(kernel.sends)
    /\ Places("other") = One("other" \in InList) + One("other" \in Ahead) + (One(kernel.other) + One(cb = "other"))
BY DEF Places, One, InList, Ahead, Members, Listed, Walked

LEMMA OneType == \A b : One(b) \in Nat
BY DEF One

LEMMA PlacesCount ==
    ASSUME kernel \in Kernel
    PROVE  /\ Places("recv") = Recvs(kernel, InList, Ahead, cb)
           /\ Places("send") = Writes(kernel, InList, Ahead)
           /\ Places("other") = Others(kernel, InList, Ahead, cb)
<1>1. Cardinality(kernel.sends) \in Nat
    BY KernelFinite
<1>2. Places("send") = Writes(kernel, InList, Ahead)
    BY PlacesAre DEF Writes
<1>4. Places("recv") = Recvs(kernel, InList, Ahead, cb)
    BY PlacesAre, Zenon DEF Recvs
<1>5. Places("other") = Others(kernel, InList, Ahead, cb)
    BY PlacesAre, Zenon DEF Others
<1> QED BY <1>2, <1>4, <1>5

LEMMA OrderlyIs ==
    kernel \in Kernel => (Orderly <=> WellPlaced /\ \A k \in kernel.sends : m_writebuf.holds = k)
<1> SUFFICES ASSUME kernel \in Kernel
             PROVE  Orderly <=> WellPlaced /\ \A k \in kernel.sends : m_writebuf.holds = k
    OBVIOUS
<1>1. Unfinished = Sends(handle)
    BY DEF Unfinished, Sends, One
<1> QED BY <1>1, PlacesCount, Zenon DEF Orderly, WellPlaced, Count, Tally

(* A handle that ends has no request with the kernel. *)
LEMMA NoneLeft ==
    ASSUME NEW h \in UdpHandle, Sound(h), NEW k \in Kernel, NEW L, NEW W, NEW c,
           Count(h, k, L, W, c), h.end # "no"
    PROVE  ~k.recv /\ k.sends = {}
<1>1. h.reqs_pending = 0
    BY DEF Sound
<1>2. Cardinality(k.sends) \in Nat /\ (Cardinality(k.sends) = 0 <=> k.sends = {})
    BY KernelFinite
<1> DEFINE m == Cardinality(k.sends)
<1> HIDE DEF m
<1>3. m \in Nat
    BY <1>2 DEF m
<1>4. 0 = Recvs(k, L, W, c) + (One("send" \in L) + One("send" \in W) + m)
    BY <1>1 DEF Count, Tally, Writes, m
<1>5. m = 0 /\ One(k.recv) = 0
    <2>1. \A a1, a2, a3, a4, a5, a6 \in Nat :
              0 = a1 + a2 + (a3 + a4) + (a5 + a6 + m) => m = 0 /\ a3 = 0
        BY <1>3
    <2>2. 0 = One("recv" \in L) + One("recv" \in W) + (One(k.recv) + One(c = "receive"))
              + (One("send" \in L) + One("send" \in W) + m)
        BY <1>4 DEF Recvs
    <2>3. /\ One("recv" \in L) \in Nat /\ One("recv" \in W) \in Nat /\ One(k.recv) \in Nat
          /\ One(c = "receive") \in Nat /\ One("send" \in L) \in Nat /\ One("send" \in W) \in Nat
        BY OneType, Zenon
    <2> DEFINE b1 == One("recv" \in L)
               b2 == One("recv" \in W)
               b3 == One(k.recv)
               b4 == One(c = "receive")
               b5 == One("send" \in L)
               b6 == One("send" \in W)
    <2>4. b1 \in Nat /\ b2 \in Nat /\ b3 \in Nat /\ b4 \in Nat /\ b5 \in Nat /\ b6 \in Nat
        BY <2>3
    <2>5. 0 = b1 + b2 + (b3 + b4) + (b5 + b6 + m)
        BY <2>2
    <2>6. b3 = One(k.recv)
        OBVIOUS
    <2> HIDE DEF b1, b2, b3, b4, b5, b6
    <2>7. m = 0 /\ b3 = 0
        BY <2>1, <2>4, <2>5
    <2> QED BY <2>6, <2>7
<1> QED BY <1>2, <1>5 DEF One, m

LEMMA TallyTypes ==
    ASSUME NEW k \in Kernel, NEW L, NEW W, NEW c
    PROVE  Recvs(k, L, W, c) \in Nat /\ Writes(k, L, W) \in Nat /\ Others(k, L, W, c) \in Nat
<1>1. Cardinality(k.sends) \in Nat
    BY KernelFinite
<1>2. \A a, b, d, e \in Nat : a + b + (d + e) \in Nat /\ a + b + d \in Nat
    OBVIOUS
<1>3. Recvs(k, L, W, c) \in Nat
    BY <1>2, OneType, Zenon DEF Recvs
<1>4. Writes(k, L, W) \in Nat
    BY <1>1, <1>2, OneType, Zenon DEF Writes
<1>5. Others(k, L, W, c) \in Nat
    BY <1>2, OneType, Zenon DEF Others
<1> QED BY <1>3, <1>4, <1>5

(* A request that is counted once is in one place only. *)
LEMMA OnePlace ==
    ASSUME NEW h, NEW k \in Kernel, NEW L, NEW W, NEW c, Tally(h, k, L, W, c)
    PROVE  /\ "recv" \in L \/ k.recv \/ c = "receive" => "recv" \notin W
           /\ "recv" \in W \/ k.recv \/ c = "receive" => "recv" \notin L
           /\ "send" \in L => "send" \notin W
           /\ "other" \in L \/ k.other \/ c = "other" => "other" \notin W
           /\ "other" \in W \/ k.other \/ c = "other" => "other" \notin L
           /\ "send" \in L \/ "send" \in W => k.sends = {}
<1> DEFINE m == Cardinality(k.sends)
<1>1. m \in Nat /\ (m = 0 <=> k.sends = {})
    BY KernelFinite
<1>2. One("send" \in L) + One("send" \in W) + m <= 1
    BY DEF Tally, Writes
<1> HIDE DEF m
<1>3. /\ "send" \in L => "send" \notin W
      /\ "send" \in L \/ "send" \in W => k.sends = {}
    BY <1>1, <1>2 DEF One
<1>4. /\ "recv" \in L \/ k.recv \/ c = "receive" => "recv" \notin W
      /\ "recv" \in W \/ k.recv \/ c = "receive" => "recv" \notin L
    BY DEF Tally, Recvs, One
<1>5. /\ "other" \in L \/ k.other \/ c = "other" => "other" \notin W
      /\ "other" \in W \/ k.other \/ c = "other" => "other" \notin L
    BY DEF Tally, Others, One
<1> QED BY <1>3, <1>4, <1>5

LEMMA ListsDisjoint ==
    ASSUME NEW h, NEW k \in Kernel, NEW L \in SUBSET Req, NEW W \in SUBSET Req, NEW c,
           Tally(h, k, L, W, c)
    PROVE  L \cap W = {}
<1>1. /\ "recv" \in L => "recv" \notin W
      /\ "send" \in L => "send" \notin W
      /\ "other" \in L => "other" \notin W
    BY OnePlace
<1> QED BY <1>1, ReqFacts

LEMMA MembersReq ==
    ASSUME NEW n \in Next_req, NEW t \in Req \cup {"none"}, NEW a \in Req \cup {"none"},
           NEW f \in Req \cup {"none"}
    PROVE  Members(n, t) \in SUBSET Req /\ Chain(n, a, f) \in SUBSET Req
<1>1. \A x, y : x \in Req \cup {"none"} => Along(n, x, y) \in Req \cup {"none"}
    BY DEF Along, Next_req
<1>2. \A x, y : x \in Req \cup {"none"} => Chain(n, x, y) \in SUBSET Req
    <2> SUFFICES ASSUME NEW x \in Req \cup {"none"}, NEW y PROVE Chain(n, x, y) \in SUBSET Req
        OBVIOUS
    <2> DEFINE s == Along(n, x, y)
               u == Along(n, s, y)
               v == Along(n, u, y)
    <2>1. s \in Req \cup {"none"}
        BY <1>1
    <2>2. u \in Req \cup {"none"}
        BY <1>1, <2>1
    <2>3. v \in Req \cup {"none"}
        BY <1>1, <2>2
    <2>4. Chain(n, x, y) = {x, s, u, v} \ {"none"}
        BY DEF Chain
    <2> HIDE DEF s, u, v
    <2> QED BY <2>1, <2>2, <2>3, <2>4
<1>3. t # "none" => n[t] \in Req \cup {"none"}
    BY DEF Next_req
<1> QED BY <1>2, <1>3 DEF Members

LEMMA TypeFacts ==
    ASSUME TypeOK
    PROVE  /\ kernel \in Kernel /\ handle \in UdpHandle
           /\ list \in [next : Next_req, tail : Req \cup {"none"}]
           /\ list.next \in Next_req /\ list.tail \in Req \cup {"none"}
           /\ walk.at \in Req \cup {"none"} /\ walk.first \in Req \cup {"none"}
           /\ InList \in SUBSET Req /\ Ahead \in SUBSET Req
<1>1. /\ kernel \in Kernel /\ handle \in UdpHandle
      /\ list \in [next : Next_req, tail : Req \cup {"none"}]
      /\ list.next \in Next_req /\ list.tail \in Req \cup {"none"}
      /\ walk.at \in Req \cup {"none"} /\ walk.first \in Req \cup {"none"}
    BY DEF TypeOK, Kernel, Next_req
<1> QED BY <1>1, MembersReq DEF InList, Ahead

LEMMA SoundHandle == HandleSound => Sound(handle)
BY DEF HandleSound, Sound

(* What a step may rely on while the program runs. *)
LEMMA Running ==
    ASSUME IInv, proc = "running"
    PROVE  /\ TypeOK /\ Sound(handle)
           /\ cb = "receive" => handle.reqs_pending > 0 /\ ~handle.read_pending
           /\ m_init => handle.reading
           /\ ~premature => WellPlaced /\ \A k \in kernel.sends : m_writebuf.holds = k
<1>1. TypeOK /\ HandleSound
    BY DEF IInv
<1>2. ~premature => WellPlaced /\ \A k \in kernel.sends : m_writebuf.holds = k
    BY <1>1, TypeFacts, OrderlyIs DEF IInv
<1> QED BY <1>1, <1>2, SoundHandle DEF HandleSound

(* What a step has to show. *)
LEMMA Settled ==
    ASSUME TypeOK', Sound(handle'),
           cb' = "receive" => handle'.reqs_pending > 0 /\ ~handle'.read_pending,
           m_init' => handle'.reading,
           proc' # "starting", proc' # "corrupt",
           BufferFits', Intact',
           ~premature' => WellPlaced',
           ~premature' /\ proc' = "running" => \A k \in kernel'.sends : m_writebuf'.holds = k
    PROVE  IInv'
<1>1. HandleSound'
    BY DEF HandleSound, Sound
<1>2. kernel' \in Kernel /\ handle' \in UdpHandle
    BY DEF TypeOK, Kernel
<1>3. EndgameSafe'
    <2> SUFFICES ASSUME handle'.end # "no", ~premature' PROVE ~kernel'.recv /\ kernel'.sends = {}
        BY DEF EndgameSafe
    <2>1. Count(handle', kernel', InList', Ahead', cb')
        BY DEF WellPlaced
    <2> QED BY <1>2, <2>1, NoneLeft
<1>4. ~premature' /\ proc' = "running" => Orderly'
    <2>1. (kernel \in Kernel => (Orderly <=> WellPlaced /\ \A k \in kernel.sends : m_writebuf.holds = k))'
        BY OrderlyIs, PTL
    <2> QED BY <1>2, <2>1
<1> QED BY <1>1, <1>3, <1>4 DEF IInv

(* A request that is in no place goes to the list, wherever the walk stands then. *)
LEMMA InsertStep ==
    ASSUME TypeOK, ListOK(list.next, list.tail), NEW r \in Req,
           walk'.at \in Req \cup {"none"}, walk'.first \in Req \cup {"none"},
           WalkOK(list.next, walk'.at, walk'.first),
           NEW V, V = Chain(list.next, walk'.at, walk'.first),
           r \notin InList, r \notin V, InList \cap V = {},
           list' = uv_insert_pending_req(list, r)
    PROVE  /\ ListOK(list'.next, list'.tail) /\ WalkOK(list'.next, walk'.at, walk'.first)
           /\ InList' = InList \cup {r} /\ Ahead' = V
<1> DEFINE a == walk'.at
           f == walk'.first
           m == list'
           l == list
<1>1. /\ l \in [next : Next_req, tail : Req \cup {"none"}]
      /\ a \in Req \cup {"none"} /\ f \in Req \cup {"none"}
    BY TypeFacts
<1>2. /\ ListOK(l.next, l.tail) /\ WalkOK(l.next, a, f)
      /\ r \notin Members(l.next, l.tail) /\ r \notin Chain(l.next, a, f)
      /\ Members(l.next, l.tail) \cap Chain(l.next, a, f) = {}
      /\ m = uv_insert_pending_req(l, r)
    BY DEF InList
<1>3. /\ InList' = Members(m.next, m.tail) /\ Ahead' = Chain(m.next, a, f)
      /\ InList = Members(l.next, l.tail)
    BY DEF InList, Ahead
<1>4. /\ ListOK(m.next, m.tail) /\ WalkOK(m.next, a, f)
      /\ Members(m.next, m.tail) = Members(l.next, l.tail) \cup {r}
      /\ Chain(m.next, a, f) = Chain(l.next, a, f)
    <2> HIDE DEF a, f, m, l
    <2> QED BY <1>1, <1>2, InsertIs
<1> QED BY <1>3, <1>4

LEMMA InsertTyped ==
    ASSUME TypeOK, NEW r \in Req, list' = uv_insert_pending_req(list, r)
    PROVE  list' \in [next : Next_req, tail : Req \cup {"none"}]
BY TypeFacts, InsertFacts

(* A request that was nowhere is with the kernel, or in the list. *)
LEMMA RecvToKernel ==
    ASSUME NEW k \in Kernel, NEW j \in Kernel, NEW L, NEW W, NEW c, NEW h, NEW g,
           NEW n \in Nat, h.reqs_pending = n, g.reqs_pending = n + 1, Sends(g) = Sends(h),
           Tally(h, k, L, W, c), Recvs(k, L, W, c) = 0,
           j = [k EXCEPT !.recv = TRUE]
    PROVE  Count(g, j, L, W, c)
<1>1. j.recv /\ j.sends = k.sends /\ (j.other <=> k.other)
    BY DEF Kernel
<1>2. Writes(j, L, W) = Writes(k, L, W) /\ Others(j, L, W, c) = Others(k, L, W, c)
    BY <1>1 DEF Writes, Others, One
<1>3. ~k.recv /\ "recv" \notin L /\ "recv" \notin W /\ c # "receive"
    BY DEF Recvs, One
<1>4. Recvs(j, L, W, c) = 1
    BY <1>1, <1>3 DEF Recvs, One
<1>5. Writes(k, L, W) \in Nat
    BY TallyTypes
<1>6. g.reqs_pending = 1 + Writes(k, L, W)
    BY <1>5 DEF Tally
<1> QED BY <1>2, <1>4, <1>5, <1>6 DEF Count, Tally

LEMMA RecvToList ==
    ASSUME NEW k \in Kernel, NEW L, NEW W, NEW c, NEW h, NEW g,
           NEW n \in Nat, h.reqs_pending = n, g.reqs_pending = n + 1, Sends(g) = Sends(h),
           Tally(h, k, L, W, c), Recvs(k, L, W, c) = 0
    PROVE  "recv" \notin L /\ "recv" \notin W /\ Count(g, k, L \cup {"recv"}, W, c)
<1> DEFINE M == L \cup {"recv"}
<1>1. "recv" \in M /\ ("send" \in M <=> "send" \in L) /\ ("other" \in M <=> "other" \in L)
    OBVIOUS
<1> HIDE DEF M
<1>2. Writes(k, M, W) = Writes(k, L, W) /\ Others(k, M, W, c) = Others(k, L, W, c)
    BY <1>1 DEF Writes, Others, One
<1>3. ~k.recv /\ "recv" \notin L /\ "recv" \notin W /\ c # "receive"
    BY DEF Recvs, One
<1>4. Recvs(k, M, W, c) = 1
    BY <1>1, <1>3 DEF Recvs, One
<1>5. Writes(k, L, W) \in Nat
    BY TallyTypes
<1>6. g.reqs_pending = 1 + Writes(k, L, W)
    BY <1>5 DEF Tally
<1>7. Count(g, k, M, W, c)
    BY <1>2, <1>4, <1>5, <1>6 DEF Count, Tally
<1> QED BY <1>3, <1>7 DEF M

LEMMA QueueStep ==
    ASSUME TypeOK, NEW h \in UdpHandle, Sound(h), ~h.closing, queue_recv(h),
           walk'.at \in Req \cup {"none"}, walk'.first \in Req \cup {"none"}
    PROVE  /\ handle' \in UdpHandle /\ Sound(handle')
           /\ (handle'.reading <=> h.reading) /\ (handle'.closing <=> h.closing)
           /\ handle'.end = h.end
           /\ kernel' \in Kernel /\ kernel'.sends = kernel.sends /\ failed' \in BOOLEAN
           /\ list' \in [next : Next_req, tail : Req \cup {"none"}]
           /\ \A V, c : /\ ListOK(list.next, list.tail) /\ WalkOK(list.next, walk'.at, walk'.first)
                        /\ V = Chain(list.next, walk'.at, walk'.first)
                        /\ Tally(h, kernel, InList, V, c) /\ Recvs(kernel, InList, V, c) = 0
                        => /\ ListOK(list'.next, list'.tail)
                           /\ WalkOK(list'.next, walk'.at, walk'.first)
                           /\ Count(handle', kernel', InList', Ahead', c)
<1>1. handle' = QueueRecv(h) \/ handle' = QueueRecvFailed(h)
    BY DEF queue_recv
<1>2. /\ handle' \in UdpHandle /\ Sound(handle')
      /\ (handle'.reading <=> h.reading) /\ (handle'.closing <=> h.closing)
      /\ Sends(handle') = Sends(h) /\ handle'.reqs_pending = h.reqs_pending + 1
      /\ handle'.end = h.end
    BY <1>1, QueueIs
<1>3. h.reqs_pending \in Nat
    BY DEF UdpHandle
<1>t. /\ kernel \in Kernel /\ list.next \in Next_req
      /\ InList \in SUBSET Req /\ "recv" \in Req
      /\ failed \in BOOLEAN /\ list \in [next : Next_req, tail : Req \cup {"none"}]
    BY TypeFacts, ReqFacts DEF TypeOK
<1>4. CASE kernel' = [kernel EXCEPT !.recv = TRUE] /\ UNCHANGED <<list, failed>>
    <2>1. kernel' \in Kernel /\ kernel'.sends = kernel.sends
        BY <1>4, <1>t, Zenon DEF Kernel
    <2>2. ASSUME NEW V, NEW c,
                 ListOK(list.next, list.tail), WalkOK(list.next, walk'.at, walk'.first),
                 V = Chain(list.next, walk'.at, walk'.first),
                 Tally(h, kernel, InList, V, c), Recvs(kernel, InList, V, c) = 0
          PROVE  /\ ListOK(list'.next, list'.tail)
                 /\ WalkOK(list'.next, walk'.at, walk'.first)
                 /\ Count(handle', kernel', InList', Ahead', c)
        <3>1. InList' = InList /\ Ahead' = V
            BY <1>4, <2>2 DEF InList, Ahead
        <3>2. Count(handle', kernel', InList, V, c)
            BY <1>2, <1>3, <1>4, <1>t, <2>1, <2>2, RecvToKernel
        <3> QED BY <1>4, <2>2, <3>1, <3>2
    <2> QED BY <1>2, <1>4, <1>t, <2>1, <2>2, Zenon
<1>5. CASE /\ list' = uv_insert_pending_req(list, "recv")
           /\ failed' \in BOOLEAN /\ UNCHANGED kernel
    <2>1. list' \in [next : Next_req, tail : Req \cup {"none"}]
        BY <1>5, <1>t, InsertTyped
    <2>2. ASSUME NEW V, NEW c,
                 ListOK(list.next, list.tail), WalkOK(list.next, walk'.at, walk'.first),
                 V = Chain(list.next, walk'.at, walk'.first),
                 Tally(h, kernel, InList, V, c), Recvs(kernel, InList, V, c) = 0
          PROVE  /\ ListOK(list'.next, list'.tail)
                 /\ WalkOK(list'.next, walk'.at, walk'.first)
                 /\ Count(handle', kernel', InList', Ahead', c)
        <3>1. /\ "recv" \notin InList /\ "recv" \notin V
              /\ Count(handle', kernel, InList \cup {"recv"}, V, c)
            BY <1>2, <1>3, <1>t, <2>2, RecvToList
        <3>2. V \in SUBSET Req
            <4>1. list.tail \in Req \cup {"none"}
                BY <1>t
            <4> QED BY <1>t, <2>2, <4>1, MembersReq
        <3>3. InList \cap V = {}
            BY <1>t, <2>2, <3>2, ListsDisjoint
        <3>4. /\ ListOK(list'.next, list'.tail) /\ WalkOK(list'.next, walk'.at, walk'.first)
              /\ InList' = InList \cup {"recv"} /\ Ahead' = V
            BY <1>5, <1>t, <2>2, <3>1, <3>3, InsertStep
        <3> QED BY <1>5, <3>1, <3>4
    <2> QED BY <1>2, <1>5, <1>t, <2>1, <2>2
<1> QED BY <1>4, <1>5, Zenon DEF queue_recv

(* recv_req is in no place any more, but still counted. *)
LastCounted(h, k, L, W, c) ==
    /\ h.reqs_pending = 1 + Writes(k, L, W)
    /\ Sends(h) = Writes(k, L, W)
    /\ Recvs(k, L, W, c) = 0 /\ Writes(k, L, W) <= 1 /\ Others(k, L, W, c) = 1

LEMMA LastDone ==
    ASSUME NEW h \in UdpHandle, NEW g, NEW k \in Kernel, NEW L, NEW W, NEW c,
           LastCounted(h, k, L, W, c),
           g.reqs_pending = h.reqs_pending - 1, Sends(g) = Sends(h)
    PROVE  Tally(g, k, L, W, c)
<1> DEFINE w == Writes(k, L, W)
<1>1. w \in Nat
    BY TallyTypes
<1>2. h.reqs_pending = 1 + w
    BY DEF LastCounted
<1> HIDE DEF w
<1>3. g.reqs_pending = 0 + w
    BY <1>1, <1>2
<1> QED BY <1>3 DEF Tally, LastCounted, w

LEMMA RecvDoneStep ==
    ASSUME TypeOK, NEW h \in UdpHandle, Sound(h), h.reqs_pending > 0, ~h.read_pending,
           RecvDone(h),
           walk'.at \in Req \cup {"none"}, walk'.first \in Req \cup {"none"}
    PROVE  /\ handle' \in UdpHandle /\ Sound(handle')
           /\ (handle'.reading <=> h.reading) /\ (handle'.closing <=> h.closing)
           /\ \/ handle'.end = h.end
              \/ h.closing /\ h.end = "no" /\ handle'.end = "wanted"
           /\ kernel' \in Kernel /\ kernel'.sends = kernel.sends /\ failed' \in BOOLEAN
           /\ list' \in [next : Next_req, tail : Req \cup {"none"}]
           /\ \A V, c : /\ ListOK(list.next, list.tail) /\ WalkOK(list.next, walk'.at, walk'.first)
                        /\ V = Chain(list.next, walk'.at, walk'.first)
                        /\ LastCounted(h, kernel, InList, V, c)
                        => /\ ListOK(list'.next, list'.tail)
                           /\ WalkOK(list'.next, walk'.at, walk'.first)
                           /\ Count(handle', kernel', InList', Ahead', c)
<1> DEFINE g == ReqDone(h)
<1>1. /\ g \in UdpHandle /\ Sound(g) /\ SameFlags(g, h)
      /\ Sends(g) = Sends(h) /\ g.reqs_pending = h.reqs_pending - 1
      /\ \/ g.end = h.end
         \/ h.closing /\ h.end = "no" /\ g.end = "wanted"
    BY DoneIs
<1>2. IF h.reading THEN queue_recv(g)
      ELSE handle' = g /\ UNCHANGED <<kernel, list, failed>>
    BY DEF RecvDone
<1> HIDE DEF g
<1>3. /\ kernel \in Kernel /\ list \in [next : Next_req, tail : Req \cup {"none"}]
      /\ failed \in BOOLEAN
    BY TypeFacts DEF TypeOK
<1>4. \A V, c : LastCounted(h, kernel, InList, V, c) =>
                    Tally(g, kernel, InList, V, c) /\ Recvs(kernel, InList, V, c) = 0
    BY <1>1, <1>3, LastDone DEF LastCounted
<1>5. CASE h.reading
    <2>1. ~g.closing
        BY <1>1, <1>5 DEF SameFlags, Sound
    <2>2. queue_recv(g)
        BY <1>2, <1>5
    <2>3. /\ handle' \in UdpHandle /\ Sound(handle')
          /\ (handle'.reading <=> g.reading) /\ (handle'.closing <=> g.closing)
          /\ handle'.end = g.end
          /\ kernel' \in Kernel /\ kernel'.sends = kernel.sends /\ failed' \in BOOLEAN
          /\ list' \in [next : Next_req, tail : Req \cup {"none"}]
        BY <1>1, <2>1, <2>2, QueueStep, Zenon
    <2>4. \A V, c : /\ ListOK(list.next, list.tail) /\ WalkOK(list.next, walk'.at, walk'.first)
                    /\ V = Chain(list.next, walk'.at, walk'.first)
                    /\ Tally(g, kernel, InList, V, c) /\ Recvs(kernel, InList, V, c) = 0
                    => /\ ListOK(list'.next, list'.tail)
                       /\ WalkOK(list'.next, walk'.at, walk'.first)
                       /\ Count(handle', kernel', InList', Ahead', c)
        BY <1>1, <2>1, <2>2, QueueStep, Zenon
    <2>5. (handle'.reading <=> h.reading) /\ (handle'.closing <=> h.closing)
        BY <1>1, <2>3, Zenon DEF SameFlags
    <2> QED BY <1>1, <1>4, <2>3, <2>4, <2>5, Zenon
<1>6. CASE ~h.reading
    <2>1. handle' = g /\ UNCHANGED <<kernel, list, failed>>
        BY <1>2, <1>6
    <2>2. (handle'.reading <=> h.reading) /\ (handle'.closing <=> h.closing)
        BY <1>1, <2>1, Zenon DEF SameFlags
    <2>3. ASSUME NEW V, NEW c,
                 ListOK(list.next, list.tail), WalkOK(list.next, walk'.at, walk'.first),
                 V = Chain(list.next, walk'.at, walk'.first),
                 LastCounted(h, kernel, InList, V, c)
          PROVE  /\ ListOK(list'.next, list'.tail)
                 /\ WalkOK(list'.next, walk'.at, walk'.first)
                 /\ Count(handle', kernel', InList', Ahead', c)
        <3>1. InList' = InList /\ Ahead' = V
            BY <2>1, <2>3 DEF InList, Ahead
        <3>2. Count(g, kernel, InList, V, c)
            BY <1>1, <1>4, <1>6, <2>3 DEF Count, SameFlags
        <3> QED BY <2>1, <2>3, <3>1, <3>2
    <2> QED BY <1>1, <1>3, <2>1, <2>2, <2>3
<1> QED BY <1>5, <1>6, Zenon

(* The walk moves on from request r. *)
LEMMA WalkStep ==
    ASSUME TypeOK, NEW r \in Req, walk.at = r,
           walk' = [walk EXCEPT !.at = IF list.next[r] = walk.first THEN "none" ELSE list.next[r]]
    PROVE  /\ walk' \in [first : Req \cup {"none"}, at : Req \cup {"none"}]
           /\ walk'.at \in Req \cup {"none"} /\ walk'.first = walk.first
           /\ walk.first \in Req \cup {"none"}
           /\ WalkOK(list.next, walk.at, walk.first) =>
                /\ WalkOK(list.next, walk'.at, walk'.first)
                /\ r \in Ahead
                /\ Chain(list.next, walk'.at, walk'.first) = Ahead \ {r}
<1> DEFINE a == IF list.next[r] = walk.first THEN "none" ELSE list.next[r]
           n == list.next
           f == walk.first
<1>1. n \in Next_req /\ f \in Req \cup {"none"}
    BY TypeFacts
<1>2. a \in Req \cup {"none"}
    BY <1>1 DEF Next_req
<1>3. walk \in [first : Req \cup {"none"}, at : Req \cup {"none"}]
    BY DEF TypeOK
<1>4. walk' = [walk EXCEPT !.at = a]
    OBVIOUS
<1>5. ASSUME WalkOK(n, r, f)
      PROVE  WalkOK(n, a, f) /\ r \in Chain(n, r, f) /\ Chain(n, a, f) = Chain(n, r, f) \ {r}
    <2>1. a = IF n[r] = f THEN "none" ELSE n[r]
        OBVIOUS
    <2> HIDE DEF a, n, f
    <2> QED BY <1>1, <1>5, <2>1, StepIs
<1>6. Ahead = Chain(n, r, f)
    BY DEF Ahead
<1> HIDE DEF a
<1>7. walk'.at = a /\ walk'.first = walk.first
    BY <1>3, <1>4
<1>8. walk' \in [first : Req \cup {"none"}, at : Req \cup {"none"}]
    BY <1>2, <1>3, <1>4
<1> QED BY <1>1, <1>2, <1>5, <1>6, <1>7, <1>8

-----------------------------------------------------------------------------
(* The steps that receive. *)

LEMMA TakenRecv ==
    ASSUME NEW h, NEW g, NEW k \in Kernel, NEW L, NEW W, NEW c, "recv" \in W,
           Tally(h, k, L, W, c), g.reqs_pending = h.reqs_pending, Sends(g) = Sends(h)
    PROVE  LastCounted(g, k, L, W \ {"recv"}, c)
<1> DEFINE V == W \ {"recv"}
<1>1. "recv" \notin V /\ ("send" \in V <=> "send" \in W) /\ ("other" \in V <=> "other" \in W)
    OBVIOUS
<1> HIDE DEF V
<1>2. Writes(k, L, V) = Writes(k, L, W) /\ Others(k, L, V, c) = Others(k, L, W, c)
    BY <1>1 DEF Writes, Others, One
<1>3. Recvs(k, L, W, c) = 1 /\ Recvs(k, L, V, c) = 0
    <2>1. Recvs(k, L, W, c) <= 1
        BY DEF Tally
    <2> QED BY <1>1, <2>1 DEF Recvs, One
<1>4. LastCounted(g, k, L, V, c)
    BY <1>2, <1>3 DEF Tally, LastCounted
<1> QED BY <1>4 DEF V

LEMMA CalledRecv ==
    ASSUME NEW h, NEW g, NEW k \in Kernel, NEW L, NEW W, "recv" \in W,
           Tally(h, k, L, W, "none"), g.reqs_pending = h.reqs_pending, Sends(g) = Sends(h)
    PROVE  Count(g, k, L, W \ {"recv"}, "receive")
<1> DEFINE V == W \ {"recv"}
<1>1. "recv" \notin V /\ ("send" \in V <=> "send" \in W) /\ ("other" \in V <=> "other" \in W)
    OBVIOUS
<1> HIDE DEF V
<1>2. Writes(k, L, V) = Writes(k, L, W) /\ Others(k, L, V, "receive") = Others(k, L, W, "none")
    BY <1>1 DEF Writes, Others, One
<1>3. Recvs(k, L, W, "none") = 1 /\ Recvs(k, L, V, "receive") = 1
    <2>1. Recvs(k, L, W, "none") <= 1
        BY DEF Tally
    <2> QED BY <1>1, <2>1 DEF Recvs, One
<1>4. Count(g, k, L, V, "receive")
    BY <1>2, <1>3 DEF Tally, Count
<1> QED BY <1>4 DEF V

LEMMA ReturnedRecv ==
    ASSUME NEW h, NEW k \in Kernel, NEW L, NEW W, Tally(h, k, L, W, "receive")
    PROVE  LastCounted(h, k, L, W, "none")
<1>1. Others(k, L, W, "receive") = Others(k, L, W, "none")
    BY DEF Others, One
<1>2. Recvs(k, L, W, "receive") = 1 /\ Recvs(k, L, W, "none") = 0
    <2>1. Recvs(k, L, W, "receive") <= 1
        BY DEF Tally
    <2> QED BY <2>1 DEF Recvs, One
<1> QED BY <1>1, <1>2 DEF Tally, LastCounted

(* The rest of the type invariant, of the variables that few steps change. *)
LEMMA TypeStep ==
    ASSUME TypeOK, m_init' \in BOOLEAN, handle' \in UdpHandle, kernel' \in Kernel,
           list' \in [next : Next_req, tail : Req \cup {"none"}], failed' \in BOOLEAN,
           walk' \in [first : Req \cup {"none"}, at : Req \cup {"none"}],
           cb' \in {"none", "receive", "other"}, waiting' \in 0 .. MaxWaiting,
           UNCHANGED <<m_writebuf, sent, premature>>, garbled' \in BOOLEAN,
           proc' \in {"running", "exited", "crashed", "assert", "corrupt"}
    PROVE  TypeOK'
BY DEF TypeOK, Kernel, Next_req

(* uv_process_udp_recv_req without an application's callback, or after it. *)
LEMMA ReceiveStep ==
    ASSUME IInv, proc = "running", NEW h \in UdpHandle, Sound(h), ~h.read_pending,
           h.reqs_pending > 0, RecvDone(h),
           walk' \in [first : Req \cup {"none"}, at : Req \cup {"none"}], cb' = "none",
           ~premature =>
               /\ WalkOK(list.next, walk'.at, walk'.first)
               /\ LastCounted(h, kernel, InList, Chain(list.next, walk'.at, walk'.first), "none"),
           m_init' \in BOOLEAN, m_init' => h.reading, waiting' \in 0 .. MaxWaiting,
           UNCHANGED <<m_writebuf, sent, premature, garbled, proc>>
    PROVE  IInv'
<1>1. /\ TypeOK
      /\ ~premature => WellPlaced /\ \A k \in kernel.sends : m_writebuf.holds = k
    BY Running
<1>2. walk'.at \in Req \cup {"none"} /\ walk'.first \in Req \cup {"none"}
    OBVIOUS
<1> DEFINE V == Chain(list.next, walk'.at, walk'.first)
<1>3. /\ handle' \in UdpHandle /\ Sound(handle')
      /\ (handle'.reading <=> h.reading)
      /\ kernel' \in Kernel /\ kernel'.sends = kernel.sends /\ failed' \in BOOLEAN
      /\ list' \in [next : Next_req, tail : Req \cup {"none"}]
    BY <1>1, <1>2, RecvDoneStep
<1>4. ~premature => WellPlaced'
    <2> SUFFICES ASSUME ~premature PROVE WellPlaced'
        OBVIOUS
    <2>1. /\ ListOK(list.next, list.tail) /\ WalkOK(list.next, walk'.at, walk'.first)
          /\ LastCounted(h, kernel, InList, V, "none")
        BY <1>1 DEF WellPlaced
    <2>2. \A U, c : /\ ListOK(list.next, list.tail) /\ WalkOK(list.next, walk'.at, walk'.first)
                    /\ U = Chain(list.next, walk'.at, walk'.first)
                    /\ LastCounted(h, kernel, InList, U, c)
                    => /\ ListOK(list'.next, list'.tail)
                       /\ WalkOK(list'.next, walk'.at, walk'.first)
                       /\ Count(handle', kernel', InList', Ahead', c)
        BY <1>1, <1>2, RecvDoneStep
    <2>3. /\ ListOK(list'.next, list'.tail) /\ WalkOK(list'.next, walk'.at, walk'.first)
          /\ Count(handle', kernel', InList', Ahead', "none")
        BY <2>1, <2>2
    <2> QED BY <2>3 DEF WellPlaced
<1>5. TypeOK'
    <2>1. garbled' \in BOOLEAN /\ proc' \in {"running", "exited", "crashed", "assert", "corrupt"}
        BY <1>1 DEF TypeOK
    <2> QED BY <1>1, <1>3, <2>1, TypeStep
<1>6. BufferFits' /\ Intact'
    BY DEF IInv, BufferFits, Intact
<1>7. ~premature' /\ proc' = "running" => \A k \in kernel'.sends : m_writebuf'.holds = k
    BY <1>1, <1>3
<1> QED BY <1>3, <1>4, <1>5, <1>6, <1>7, Settled

(* The walk takes recv_req, and a handle h that counts as many requests goes on. *)
LEMMA TakeStep ==
    ASSUME IInv, Process("recv"), NEW h, h.reqs_pending = handle.reqs_pending,
           Sends(h) = Sends(handle)
    PROVE  /\ proc = "running" /\ cb = "none" /\ handle.reqs_pending > 0
           /\ walk' \in [first : Req \cup {"none"}, at : Req \cup {"none"}]
           /\ ~premature =>
               /\ WalkOK(list.next, walk'.at, walk'.first)
               /\ LastCounted(h, kernel, InList, Chain(list.next, walk'.at, walk'.first), "none")
<1>1. proc = "running" /\ cb = "none" /\ handle.reqs_pending > 0
    BY DEF Process, Counted
<1>2. TypeOK /\ (~premature => WellPlaced)
    BY <1>1, Running
<1>3. /\ "recv" \in Req /\ walk.at = "recv"
      /\ walk' = [walk EXCEPT !.at = IF list.next["recv"] = walk.first THEN "none" ELSE list.next["recv"]]
    BY ReqFacts DEF Process
<1>4. /\ walk' \in [first : Req \cup {"none"}, at : Req \cup {"none"}]
      /\ WalkOK(list.next, walk.at, walk.first) =>
                /\ WalkOK(list.next, walk'.at, walk'.first)
                /\ "recv" \in Ahead
                /\ Chain(list.next, walk'.at, walk'.first) = Ahead \ {"recv"}
    BY <1>2, <1>3, WalkStep
<1>5. ASSUME ~premature
      PROVE  LastCounted(h, kernel, InList, Ahead \ {"recv"}, "none")
    <2>1. Tally(handle, kernel, InList, Ahead, "none") /\ "recv" \in Ahead
        BY <1>1, <1>2, <1>4, <1>5 DEF WellPlaced, Count
    <2>2. kernel \in Kernel
        BY <1>2, TypeFacts
    <2> QED BY <2>1, <2>2, TakenRecv
<1> QED BY <1>1, <1>2, <1>4, <1>5 DEF WellPlaced

LEMMA ReceivedHere ==
    ASSUME IInv, proc = "running"
    PROVE  /\ Received \in UdpHandle /\ Sound(Received) /\ ~Received.read_pending
           /\ (Received.reading <=> handle.reading) /\ (Received.closing <=> handle.closing)
           /\ Sends(Received) = Sends(handle) /\ Received.reqs_pending = handle.reqs_pending
           /\ Received.end = handle.end
<1>1. handle \in UdpHandle /\ Sound(handle)
    BY Running, TypeFacts
<1>2. Received = [handle EXCEPT !.read_pending = FALSE]
    BY DEF Received
<1> QED BY <1>1, <1>2, ReceivedIs

LEMMA WaitingLess ==
    ASSUME NEW w \in 0 .. MaxWaiting, NEW v \in {w, w - 1} \cap Nat
    PROVE  v \in 0 .. MaxWaiting
BY UdpAssumption

LEMMA ReceiveNothingKeeps == IInv /\ ReceiveNothing => IInv'
<1> SUFFICES ASSUME IInv, ReceiveNothing PROVE IInv'
    OBVIOUS
<1>1. /\ Process("recv") /\ handle.reading /\ RecvDone(Received)
      /\ UNCHANGED <<m_init, m_writebuf, cb, sent, premature, garbled, proc>>
      /\ waiting' \in {waiting, waiting - 1} \cap Nat
    BY DEF ReceiveNothing
<1>2. proc = "running"
    BY <1>1 DEF Process
<1>3. /\ Received \in UdpHandle /\ Sound(Received) /\ ~Received.read_pending
      /\ (Received.reading <=> handle.reading)
      /\ Sends(Received) = Sends(handle) /\ Received.reqs_pending = handle.reqs_pending
    BY <1>2, ReceivedHere
<1>4. /\ cb = "none" /\ handle.reqs_pending > 0
      /\ walk' \in [first : Req \cup {"none"}, at : Req \cup {"none"}]
      /\ ~premature =>
          /\ WalkOK(list.next, walk'.at, walk'.first)
          /\ LastCounted(Received, kernel, InList, Chain(list.next, walk'.at, walk'.first), "none")
    BY <1>1, <1>3, TakeStep
<1>5. TypeOK
    BY DEF IInv
<1>6. m_init' \in BOOLEAN /\ waiting \in 0 .. MaxWaiting
    BY <1>1, <1>5 DEF TypeOK
<1>7. waiting' \in 0 .. MaxWaiting
    BY <1>1, <1>6, WaitingLess
<1>8. cb' = "none" /\ Received.reqs_pending > 0 /\ Received.reading
    BY <1>1, <1>3, <1>4
<1> QED BY <1>1, <1>2, <1>3, <1>4, <1>6, <1>7, <1>8, ReceiveStep

LEMMA ReceiveCancelledKeeps == IInv /\ ReceiveCancelled => IInv'
<1> SUFFICES ASSUME IInv, ReceiveCancelled PROVE IInv'
    OBVIOUS
<1>1. /\ Process("recv") /\ ~handle.reading /\ RecvDone(Received)
      /\ UNCHANGED <<m_init, m_writebuf, cb, waiting, sent, premature, garbled, proc>>
    BY DEF ReceiveCancelled
<1>2. proc = "running"
    BY <1>1 DEF Process
<1>3. /\ Received \in UdpHandle /\ Sound(Received) /\ ~Received.read_pending
      /\ (Received.reading <=> handle.reading)
      /\ Sends(Received) = Sends(handle) /\ Received.reqs_pending = handle.reqs_pending
    BY <1>2, ReceivedHere
<1>4. /\ cb = "none" /\ handle.reqs_pending > 0
      /\ walk' \in [first : Req \cup {"none"}, at : Req \cup {"none"}]
      /\ ~premature =>
          /\ WalkOK(list.next, walk'.at, walk'.first)
          /\ LastCounted(Received, kernel, InList, Chain(list.next, walk'.at, walk'.first), "none")
    BY <1>1, <1>3, TakeStep
<1>5. TypeOK /\ (m_init => handle.reading)
    BY <1>2, Running
<1>6. m_init' \in BOOLEAN /\ waiting' \in 0 .. MaxWaiting /\ ~m_init'
    BY <1>1, <1>5 DEF TypeOK
<1>7. cb' = "none" /\ Received.reqs_pending > 0
    BY <1>1, <1>3, <1>4
<1> QED BY <1>1, <1>2, <1>3, <1>4, <1>6, <1>7, ReceiveStep

(* What ReceiveError hands on: libuv stops, and on_receive closes. *)
LEMMA StoppedHere ==
    ASSUME NEW r \in UdpHandle, Sound(r), ~r.read_pending,
           NEW h, h = close(uv_udp_recv_stop(r))
    PROVE  /\ h \in UdpHandle /\ Sound(h) /\ ~h.read_pending /\ ~h.reading
           /\ Sends(h) = Sends(r) /\ h.reqs_pending = r.reqs_pending
           /\ \/ h.end = r.end
              \/ ~r.closing /\ h.end = "wanted"
<1> DEFINE s == uv_udp_recv_stop(r)
<1>1. /\ s \in UdpHandle /\ ~s.reading
      /\ (s.read_pending <=> r.read_pending) /\ (s.closing <=> r.closing)
      /\ s.activecnt = r.activecnt - One(r.reading)
      /\ s.reqs_pending = r.reqs_pending /\ s.end = r.end
    BY StopIs DEF Sound
<1>2. h = close(s)
    OBVIOUS
<1> HIDE DEF s
<1>3. Sound(s)
    BY <1>1 DEF Sound
<1>4. Sends(s) = Sends(r)
    BY <1>1 DEF Sends, One, UdpHandle
<1>5. /\ h \in UdpHandle /\ Sound(h) /\ ~h.reading
      /\ (h.read_pending <=> s.read_pending)
      /\ Sends(h) = Sends(s) /\ h.reqs_pending = s.reqs_pending
      /\ \/ h.end = s.end
         \/ ~s.closing /\ h.end = "wanted"
    BY <1>1, <1>2, <1>3, CloseIs
<1> QED BY <1>1, <1>4, <1>5

LEMMA ReceiveErrorKeeps == IInv /\ ReceiveError => IInv'
<1> SUFFICES ASSUME IInv, ReceiveError PROVE IInv'
    OBVIOUS
<1> DEFINE h == close(uv_udp_recv_stop(Received))
<1>1. /\ Process("recv") /\ RecvDone(h) /\ m_init' = FALSE
      /\ UNCHANGED <<m_writebuf, cb, waiting, sent, premature, garbled, proc>>
    BY DEF ReceiveError
<1>2. proc = "running"
    BY <1>1 DEF Process
<1>3. /\ Received \in UdpHandle /\ Sound(Received) /\ ~Received.read_pending
      /\ Sends(Received) = Sends(handle) /\ Received.reqs_pending = handle.reqs_pending
    BY <1>2, ReceivedHere
<1>4. /\ h \in UdpHandle /\ Sound(h) /\ ~h.read_pending /\ ~h.reading
      /\ Sends(h) = Sends(Received) /\ h.reqs_pending = Received.reqs_pending
    BY <1>3, StoppedHere
<1> HIDE DEF h
<1>5. h.reqs_pending = handle.reqs_pending /\ Sends(h) = Sends(handle)
    BY <1>3, <1>4
<1>6. /\ cb = "none" /\ handle.reqs_pending > 0
      /\ walk' \in [first : Req \cup {"none"}, at : Req \cup {"none"}]
      /\ ~premature =>
          /\ WalkOK(list.next, walk'.at, walk'.first)
          /\ LastCounted(h, kernel, InList, Chain(list.next, walk'.at, walk'.first), "none")
    BY <1>1, <1>5, TakeStep
<1>7. m_init' \in BOOLEAN /\ ~m_init' /\ waiting' \in 0 .. MaxWaiting
    BY <1>1, Zenon DEF IInv, TypeOK
<1>8. cb' = "none" /\ h.reqs_pending > 0
    BY <1>1, <1>5, <1>6
<1> QED BY <1>1, <1>2, <1>4, <1>6, <1>7, <1>8, ReceiveStep

LEMMA ReturnReceiveKeeps == IInv /\ ReturnReceive => IInv'
<1> SUFFICES ASSUME IInv, ReturnReceive PROVE IInv'
    OBVIOUS
<1>1. /\ proc = "running" /\ cb = "receive" /\ cb' = "none" /\ RecvDone(handle)
      /\ UNCHANGED <<m_init, m_writebuf, walk, waiting, sent, premature, garbled, proc>>
    BY DEF ReturnReceive
<1>2. /\ TypeOK /\ Sound(handle) /\ handle.reqs_pending > 0 /\ ~handle.read_pending
      /\ (m_init => handle.reading) /\ (~premature => WellPlaced)
    BY <1>1, Running
<1>3. /\ walk' \in [first : Req \cup {"none"}, at : Req \cup {"none"}]
      /\ m_init' \in BOOLEAN /\ waiting' \in 0 .. MaxWaiting
    BY <1>1, <1>2 DEF TypeOK
<1>4. ASSUME ~premature
      PROVE  /\ WalkOK(list.next, walk'.at, walk'.first)
             /\ LastCounted(handle, kernel, InList, Chain(list.next, walk'.at, walk'.first), "none")
    <2>1. Tally(handle, kernel, InList, Ahead, "receive")
        BY <1>1, <1>2, <1>4 DEF WellPlaced, Count
    <2>2. LastCounted(handle, kernel, InList, Ahead, "none")
        BY <1>2, <2>1, TypeFacts, ReturnedRecv
    <2> QED BY <1>1, <1>2, <1>4, <2>2 DEF WellPlaced, Ahead
<1>5. handle \in UdpHandle /\ (m_init' => handle.reading)
    BY <1>1, <1>2, TypeFacts
<1> QED BY <1>1, <1>2, <1>3, <1>4, <1>5, ReceiveStep

(* What a step has to show that sends nothing. *)
LEMMA PlainStep ==
    ASSUME IInv, proc = "running",
           m_init' \in BOOLEAN, handle' \in UdpHandle, kernel' \in Kernel,
           list' \in [next : Next_req, tail : Req \cup {"none"}], failed' \in BOOLEAN,
           walk' \in [first : Req \cup {"none"}, at : Req \cup {"none"}],
           cb' \in {"none", "receive", "other"}, waiting' \in 0 .. MaxWaiting,
           UNCHANGED <<m_writebuf, sent, premature>>,
           garbled' \in BOOLEAN, garbled' => garbled \/ premature,
           proc' \in {"running", "crashed", "assert"},
           Sound(handle'), m_init' => handle'.reading,
           cb' = "receive" => handle'.reqs_pending > 0 /\ ~handle'.read_pending,
           kernel'.sends \subseteq kernel.sends,
           ~premature => WellPlaced'
    PROVE  IInv'
<1>1. TypeOK /\ BufferFits /\ Intact
    BY DEF IInv
<1>2. TypeOK'
    BY <1>1, TypeStep
<1>3. BufferFits' /\ Intact'
    BY <1>1 DEF BufferFits, Intact
<1>4. ~premature' /\ proc' = "running" => \A k \in kernel'.sends : m_writebuf'.holds = k
    BY Running
<1>5. proc' # "starting" /\ proc' # "corrupt"
    OBVIOUS
<1>6. ~premature' => WellPlaced'
    OBVIOUS
<1> QED BY <1>2, <1>3, <1>4, <1>5, <1>6, Settled

(* The type invariant, as PlainStep wants it of what stays. *)
LEMMA Stays ==
    ASSUME TypeOK
    PROVE  /\ m_init \in BOOLEAN /\ handle \in UdpHandle /\ kernel \in Kernel
           /\ list \in [next : Next_req, tail : Req \cup {"none"}] /\ failed \in BOOLEAN
           /\ walk \in [first : Req \cup {"none"}, at : Req \cup {"none"}]
           /\ cb \in {"none", "receive", "other"} /\ waiting \in 0 .. MaxWaiting
           /\ garbled \in BOOLEAN
BY DEF TypeOK, Kernel, Next_req

LEMMA ReceiveDatagramKeeps == IInv /\ ReceiveDatagram => IInv'
<1> SUFFICES ASSUME IInv, ReceiveDatagram PROVE IInv'
    OBVIOUS
<1>1. /\ Process("recv") /\ handle.reading /\ waiting > 0
      /\ waiting' = waiting - 1 /\ cb' = "receive" /\ handle' = Received
      /\ UNCHANGED <<m_init, m_writebuf, kernel, list, failed, sent, premature, garbled, proc>>
    BY DEF ReceiveDatagram
<1>2. proc = "running"
    BY <1>1 DEF Process
<1>3. /\ handle' \in UdpHandle /\ Sound(handle') /\ ~handle'.read_pending
      /\ (handle'.reading <=> handle.reading)
      /\ Sends(handle') = Sends(handle) /\ handle'.reqs_pending = handle.reqs_pending
    BY <1>1, <1>2, ReceivedHere
<1>4. /\ cb = "none" /\ handle.reqs_pending > 0
      /\ walk' \in [first : Req \cup {"none"}, at : Req \cup {"none"}]
    BY <1>1, TakeStep
<1>5. TypeOK /\ (~premature => WellPlaced)
    BY <1>2, Running
<1>6. ASSUME ~premature PROVE WellPlaced'
    <2>1. /\ "recv" \in Req /\ walk.at = "recv"
          /\ walk' = [walk EXCEPT !.at = IF list.next["recv"] = walk.first THEN "none" ELSE list.next["recv"]]
        BY <1>1, ReqFacts DEF Process
    <2>2. /\ WalkOK(list.next, walk'.at, walk'.first)
          /\ "recv" \in Ahead
          /\ Chain(list.next, walk'.at, walk'.first) = Ahead \ {"recv"}
        BY <1>5, <1>6, <2>1, WalkStep DEF WellPlaced
    <2>3. Tally(handle, kernel, InList, Ahead, "none") /\ kernel \in Kernel
        BY <1>4, <1>5, <1>6, TypeFacts DEF WellPlaced, Count
    <2>4. Count(handle', kernel, InList, Ahead \ {"recv"}, "receive")
        BY <1>3, <2>2, <2>3, CalledRecv
    <2>5. InList' = InList /\ Ahead' = Ahead \ {"recv"}
        BY <1>1, <2>2 DEF InList, Ahead
    <2> QED BY <1>1, <1>5, <1>6, <2>2, <2>4, <2>5 DEF WellPlaced
<1>7. waiting' \in 0 .. MaxWaiting
    <2>1. waiting \in 0 .. MaxWaiting
        BY <1>5 DEF TypeOK
    <2> QED BY <1>1, <2>1, UdpAssumption
<1>8. /\ m_init' \in BOOLEAN /\ kernel' \in Kernel
      /\ list' \in [next : Next_req, tail : Req \cup {"none"}] /\ failed' \in BOOLEAN
      /\ garbled' \in BOOLEAN /\ cb' \in {"none", "receive", "other"}
      /\ proc' \in {"running", "crashed", "assert"} /\ kernel'.sends \subseteq kernel.sends
    BY <1>1, <1>2, <1>5, Stays
<1>9. /\ m_init' => handle'.reading
      /\ handle'.reqs_pending > 0 /\ (garbled' => garbled \/ premature)
    BY <1>1, <1>3, <1>4
<1> QED BY <1>1, <1>2, <1>3, <1>4, <1>6, <1>7, <1>8, <1>9, PlainStep

-----------------------------------------------------------------------------
(* The other handle's request. *)

LEMMA CalledOther ==
    ASSUME NEW h, NEW k \in Kernel, NEW L, NEW W, "other" \in W,
           Count(h, k, L, W, "none")
    PROVE  Count(h, k, L, W \ {"other"}, "other")
<1> DEFINE V == W \ {"other"}
<1>1. "other" \notin V /\ ("send" \in V <=> "send" \in W) /\ ("recv" \in V <=> "recv" \in W)
    OBVIOUS
<1> HIDE DEF V
<1>2. Writes(k, L, V) = Writes(k, L, W) /\ Recvs(k, L, V, "other") = Recvs(k, L, W, "none")
    BY <1>1 DEF Writes, Recvs, One
<1>3. Others(k, L, V, "other") = 1
    <2>1. Others(k, L, W, "none") <= 1
        BY DEF Tally, Count
    <2> QED BY <1>1, <2>1 DEF Others, One
<1>4. Count(h, k, L, V, "other")
    BY <1>2, <1>3 DEF Tally, Count
<1> QED BY <1>4 DEF V

LEMMA ReturnedOther ==
    ASSUME NEW h, NEW k \in Kernel, NEW L, NEW W, Count(h, k, L, W, "other"),
           NEW j, j = [k EXCEPT !.other = TRUE]
    PROVE  j \in Kernel /\ j.sends = k.sends /\ Count(h, j, L, W, "none")
<1>1. j \in Kernel /\ j.sends = k.sends /\ (j.recv <=> k.recv) /\ j.other
    BY Zenon DEF Kernel
<1>2. Writes(j, L, W) = Writes(k, L, W) /\ Recvs(j, L, W, "none") = Recvs(k, L, W, "other")
    BY <1>1 DEF Writes, Recvs, One
<1>3. Others(j, L, W, "none") = 1
    <2>1. Others(k, L, W, "other") = 1
        BY DEF Tally, Count
    <2>2. "other" \notin L /\ "other" \notin W
        BY <2>1 DEF Others, One
    <2> QED BY <1>1, <2>2 DEF Others, One
<1> QED BY <1>1, <1>2, <1>3 DEF Tally, Count

LEMMA ProcessOtherKeeps == IInv /\ ProcessOther => IInv'
<1> SUFFICES ASSUME IInv, ProcessOther PROVE IInv'
    OBVIOUS
<1>1. /\ Process("other") /\ cb' = "other"
      /\ UNCHANGED <<m_init, m_writebuf, handle, kernel, list, failed, waiting, sent,
                   premature, garbled, proc>>
    BY DEF ProcessOther
<1>2. proc = "running" /\ cb = "none"
    BY <1>1 DEF Process
<1>3. TypeOK /\ Sound(handle) /\ (m_init => handle.reading) /\ (~premature => WellPlaced)
    BY <1>2, Running
<1>4. /\ "other" \in Req /\ walk.at = "other"
      /\ walk' = [walk EXCEPT !.at = IF list.next["other"] = walk.first THEN "none" ELSE list.next["other"]]
    BY <1>1, ReqFacts DEF Process
<1>5. /\ walk' \in [first : Req \cup {"none"}, at : Req \cup {"none"}]
      /\ WalkOK(list.next, walk.at, walk.first) =>
            /\ WalkOK(list.next, walk'.at, walk'.first)
            /\ "other" \in Ahead
            /\ Chain(list.next, walk'.at, walk'.first) = Ahead \ {"other"}
    BY <1>3, <1>4, WalkStep
<1>6. ASSUME ~premature PROVE WellPlaced'
    <2>1. /\ WalkOK(list.next, walk'.at, walk'.first) /\ "other" \in Ahead
          /\ Chain(list.next, walk'.at, walk'.first) = Ahead \ {"other"}
          /\ Count(handle, kernel, InList, Ahead, "none")
        BY <1>2, <1>3, <1>5, <1>6 DEF WellPlaced
    <2>2. Count(handle, kernel, InList, Ahead \ {"other"}, "other")
        BY <1>3, <2>1, TypeFacts, CalledOther
    <2>3. InList' = InList /\ Ahead' = Ahead \ {"other"}
        BY <1>1, <2>1 DEF InList, Ahead
    <2> QED BY <1>1, <1>3, <1>6, <2>1, <2>2, <2>3 DEF WellPlaced
<1>7. /\ m_init' \in BOOLEAN /\ handle' \in UdpHandle /\ kernel' \in Kernel
      /\ list' \in [next : Next_req, tail : Req \cup {"none"}] /\ failed' \in BOOLEAN
      /\ waiting' \in 0 .. MaxWaiting
      /\ garbled' \in BOOLEAN /\ cb' \in {"none", "receive", "other"} /\ cb' # "receive"
      /\ proc' \in {"running", "crashed", "assert"} /\ kernel'.sends \subseteq kernel.sends
    BY <1>1, <1>2, <1>3, Stays
<1>8. (m_init' => handle'.reading) /\ Sound(handle') /\ (garbled' => garbled \/ premature)
    BY <1>1, <1>3
<1> QED BY <1>1, <1>2, <1>5, <1>6, <1>7, <1>8, PlainStep

LEMMA ReturnOtherKeeps == IInv /\ ReturnOther => IInv'
<1> SUFFICES ASSUME IInv, ReturnOther PROVE IInv'
    OBVIOUS
<1>1. /\ proc = "running" /\ cb = "other" /\ cb' = "none"
      /\ kernel' = [kernel EXCEPT !.other = TRUE]
      /\ UNCHANGED <<m_init, m_writebuf, handle, list, failed, walk, waiting, sent,
                   premature, garbled, proc>>
    BY DEF ReturnOther
<1>2. TypeOK /\ Sound(handle) /\ (m_init => handle.reading) /\ (~premature => WellPlaced)
    BY <1>1, Running
<1>3. kernel' \in Kernel /\ kernel'.sends = kernel.sends
    BY <1>1, <1>2, Stays, Zenon DEF Kernel
<1>4. ASSUME ~premature PROVE WellPlaced'
    <2>1. Count(handle, kernel, InList, Ahead, "other") /\ kernel \in Kernel
        BY <1>1, <1>2, <1>4, TypeFacts DEF WellPlaced
    <2>2. Count(handle, kernel', InList, Ahead, "none")
        BY <1>1, <2>1, ReturnedOther
    <2>3. InList' = InList /\ Ahead' = Ahead
        BY <1>1 DEF InList, Ahead
    <2> QED BY <1>1, <1>2, <1>4, <2>2, <2>3 DEF WellPlaced
<1>5. /\ m_init' \in BOOLEAN /\ handle' \in UdpHandle
      /\ list' \in [next : Next_req, tail : Req \cup {"none"}] /\ failed' \in BOOLEAN
      /\ walk' \in [first : Req \cup {"none"}, at : Req \cup {"none"}]
      /\ waiting' \in 0 .. MaxWaiting
      /\ garbled' \in BOOLEAN /\ cb' \in {"none", "receive", "other"} /\ cb' # "receive"
      /\ proc' \in {"running", "crashed", "assert"} /\ kernel'.sends \subseteq kernel.sends
    BY <1>1, <1>2, <1>3, Stays
<1>6. (m_init' => handle'.reading) /\ Sound(handle') /\ (garbled' => garbled \/ premature)
    BY <1>1, <1>2
<1> QED BY <1>1, <1>3, <1>4, <1>5, <1>6, PlainStep

=============================================================================
