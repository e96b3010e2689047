--------------------------- MODULE ServiceProofs ---------------------------
(***************************************************************************)
(* Theorems about Service: the map of sessions, the sessions' memory, the  *)
(* handles libuv has and the callbacks agree, for any number of sessions   *)
(* and of unfinished sends, and any handler.                               *)
(***************************************************************************)
EXTENDS Service, SequenceTheorems, TLAPS

(* The outermost callback is fn, about session s. *)
Outer(fn, s) == stack # <<>> /\ stack[1].fn = fn /\ stack[1].s = s

(* The read of session s has been taken from libuv, whose callback runs on it. *)
InProcess(s) ==
    Outer("receive", s) \/ (Outer("close", s) /\ stack[1].why # "handler")

(***************************************************************************)
(* Only the outermost callback is made by libuv or by run(); those nested  *)
(* in it are on_closesession, called from the handler's own closesession.  *)
(***************************************************************************)
StackShape ==
    \A k \in 1 .. Len(stack) :
        /\ stack[k].fn = "update" \/ stack[k].s \in Id
        /\ k > 1 => stack[k].fn = "close"
        /\ (k > 1 \/ stack[k].fn # "close") => stack[k].why = "handler"
        /\ stack[k].fn = "close" => stack[k].s \in closed

(* Ids beyond lastid have not been handed out. *)
IdsKnown == opened \subseteq 1 .. lastid /\ closed \subseteq opened

(* libuv's count of requests is right, and a closing handle is not read. *)
HandleSound(s) ==
    /\ tcp[s].reqs = tcp[s].writes + (IF tcp[s].pending THEN 1 ELSE 0)
                                   + (IF InProcess(s) THEN 1 ELSE 0)
    /\ tcp[s].closing => ~tcp[s].reading /\ ~tcp[s].readable

(* A session of the map is read, will be (on_newsession runs), or was (on_tcpreceive). *)
Heard(s) ==
    /\ tcp[s].readable /\ ~tcp[s].closing
    /\ IF Outer("new", s)
       THEN ~tcp[s].reading
       ELSE tcp[s].reading /\ (tcp[s].pending \/ InProcess(s))

(* Callbacks of libuv do not bring a session that has left the map back to reading. *)
Forgotten(s) ==
    /\ tcp[s].reading => s \in m_sessions
    /\ Outer("new", s) => s \in m_sessions
    /\ Outer("receive", s) => s \in m_sessions \/ ~tcp[s].readable

(* The application does not exceed the bound on unfinished sends. *)
WritesWithin(s) == tcp[s].writes <= MaxWrites

SessionSound(s) ==
    /\ HandleSound(s)
    /\ WritesWithin(s)
    /\ s \in m_sessions => Heard(s)
    /\ "new" \notin CloseOwnIn => Forgotten(s)

IInv ==
    /\ TypeOK
    /\ StackShape
    /\ IdsKnown
    /\ RegistrySound
    /\ NoSessionLeak
    /\ Alive => \A s \in Id : SessionSound(s)

-----------------------------------------------------------------------------
(* libuv's operations keep a handle a handle, and do not change the count of *)
(* requests but for the one they begin or finish.                            *)

LEMMA InitHandle ==
    /\ uv_tcp_init \in Handle
    /\ uv_accept(uv_tcp_init) \in Handle
    /\ uv_close(uv_tcp_init) \in Handle
BY Zenon DEF uv_tcp_init, uv_accept, uv_close, WantEndgame, Handle

LEMMA InitFields ==
    /\ uv_tcp_init.reqs = 0 /\ uv_tcp_init.writes = 0
    /\ ~uv_tcp_init.pending /\ ~uv_tcp_init.closing /\ ~uv_tcp_init.reading
BY DEF uv_tcp_init

LEMMA WantEndgameHandle ==
    ASSUME NEW h \in Handle
    PROVE  LET w == WantEndgame(h) IN
           /\ w \in Handle
           /\ w.reqs = h.reqs /\ w.writes = h.writes /\ w.pending = h.pending
           /\ w.reading = h.reading /\ w.readable = h.readable /\ w.closing = h.closing
BY Zenon DEF WantEndgame, Handle

LEMMA ReqDoneHandle ==
    ASSUME NEW h \in Handle, h.reqs > 0
    PROVE  LET w == ReqDone(h) IN
           /\ w \in Handle
           /\ w.reqs = h.reqs - 1 /\ w.writes = h.writes /\ w.pending = h.pending
           /\ w.reading = h.reading /\ w.readable = h.readable /\ w.closing = h.closing
<1> DEFINE n == h.reqs - 1
           g == [h EXCEPT !.reqs = n]
<1>1. n \in Nat
    BY DEF Handle
<1>2. ReqDone(h) = WantEndgame(g)
    BY DEF ReqDone
<1> HIDE DEF n
<1>3. /\ g \in Handle
      /\ g.reqs = n /\ g.writes = h.writes /\ g.pending = h.pending
      /\ g.reading = h.reading /\ g.readable = h.readable /\ g.closing = h.closing
    BY <1>1, Zenon DEF Handle
<1> HIDE DEF g
<1> QED BY <1>2, <1>3, WantEndgameHandle DEF n

LEMMA QueueReadHandle ==
    ASSUME NEW h \in Handle
    PROVE  LET q == QueueRead(h) IN
           /\ q \in Handle
           /\ q.writes = h.writes
           /\ q.reqs + (IF h.pending THEN 1 ELSE 0) = h.reqs + (IF q.pending THEN 1 ELSE 0)
           /\ q.pending <=> h.pending \/ h.reading
           /\ q.reading = h.reading /\ q.readable = h.readable /\ q.closing = h.closing
<1> DEFINE n == h.reqs + 1
           g == [h EXCEPT !.pending = TRUE, !.reqs = n]
<1>1. n \in Nat /\ h.reqs \in Nat /\ h.pending \in BOOLEAN /\ h.reading \in BOOLEAN
    BY DEF Handle
<1>2. QueueRead(h) = IF h.reading /\ ~h.pending THEN g ELSE h
    BY DEF QueueRead
<1> HIDE DEF n
<1>3. /\ g \in Handle
      /\ g.reqs = n /\ g.writes = h.writes /\ g.pending
      /\ g.reading = h.reading /\ g.readable = h.readable /\ g.closing = h.closing
    BY <1>1, Zenon DEF Handle
<1> HIDE DEF g
<1>4. g.pending = TRUE
    BY <1>3 DEF Handle
<1> QED BY <1>1, <1>2, <1>3, <1>4 DEF n

LEMMA SessionCloseHandle ==
    ASSUME NEW h \in Handle
    PROVE  LET c == session_close(h) IN
           /\ c \in Handle
           /\ c.reqs = h.reqs /\ c.writes = h.writes /\ c.pending = h.pending
           /\ c.readable => h.readable
           /\ (h.closing => ~h.reading /\ ~h.readable) =>
                 /\ ~c.reading
                 /\ c.closing => ~c.readable
           /\ h.reading /\ ~h.closing => ~c.readable
<1> DEFINE g == [uv_read_stop(h) EXCEPT !.reading = FALSE, !.readable = FALSE,
                                        !.writable = FALSE, !.closing = TRUE]
<1>1. session_close(h) = IF uv_is_active(h) THEN WantEndgame(g) ELSE h
    BY DEF session_close, uv_close
<1>2. /\ g \in Handle
      /\ g.reqs = h.reqs /\ g.writes = h.writes /\ g.pending = h.pending
      /\ g.reading = FALSE /\ g.readable = FALSE /\ g.closing = TRUE
    BY Zenon DEF Handle, uv_read_stop
<1> HIDE DEF g
<1>3. CASE uv_is_active(h)
    BY <1>1, <1>2, <1>3, WantEndgameHandle
<1>4. CASE ~uv_is_active(h)
    BY <1>1, <1>4 DEF uv_is_active, Handle
<1> QED BY <1>3, <1>4

LEMMA AfterReadHandle ==
    ASSUME NEW h \in Handle, h.reqs > 0
    PROVE  LET a == AfterRead(h) IN
           /\ a \in Handle
           /\ a.writes = h.writes
           /\ a.reqs + (IF h.pending THEN 1 ELSE 0) + 1 = h.reqs + (IF a.pending THEN 1 ELSE 0)
           /\ a.pending <=> h.pending \/ h.reading
           /\ a.reading = h.reading /\ a.readable = h.readable /\ a.closing = h.closing
<1> DEFINE q == QueueRead(h)
<1>1. /\ q \in Handle
      /\ q.writes = h.writes
      /\ q.reqs + (IF h.pending THEN 1 ELSE 0) = h.reqs + (IF q.pending THEN 1 ELSE 0)
      /\ q.pending <=> h.pending \/ h.reading
      /\ q.reading = h.reading /\ q.readable = h.readable /\ q.closing = h.closing
    BY QueueReadHandle
<1> HIDE DEF q
<1>2. h.reqs \in Nat /\ q.reqs \in Nat /\ h.pending \in BOOLEAN /\ q.pending \in BOOLEAN
    BY <1>1 DEF Handle
<1>3. q.reqs > 0
    BY <1>1, <1>2
<1>4. LET w == ReqDone(q) IN
      /\ w \in Handle
      /\ w.reqs = q.reqs - 1 /\ w.writes = q.writes /\ w.pending = q.pending
      /\ w.reading = q.reading /\ w.readable = q.readable /\ w.closing = q.closing
    BY <1>1, <1>3, ReqDoneHandle
<1>5. AfterRead(h) = ReqDone(q)
    BY DEF AfterRead, q
<1> QED BY <1>1, <1>2, <1>4, <1>5

LEMMA ReadStartHandle ==
    ASSUME NEW h \in Handle
    PROVE  LET r == uv_read_start(h) IN
           /\ r \in Handle
           /\ r.writes = h.writes
           /\ r.reqs + (IF h.pending THEN 1 ELSE 0) = h.reqs + (IF r.pending THEN 1 ELSE 0)
           /\ r.readable = h.readable /\ r.closing = h.closing
           /\ r.reading <=> h.reading \/ h.readable
           /\ ~h.reading /\ h.readable => r.pending
           /\ h.reading => r = h
<1> DEFINE g == [h EXCEPT !.reading = TRUE]
<1>1. /\ g \in Handle
      /\ g.reqs = h.reqs /\ g.writes = h.writes /\ g.pending = h.pending
      /\ g.reading = TRUE /\ g.readable = h.readable /\ g.closing = h.closing
    BY Zenon DEF Handle
<1>2. uv_read_start(h) = IF ~h.reading /\ h.readable THEN QueueRead(g) ELSE h
    BY DEF uv_read_start, ReadStartResult
<1> HIDE DEF g
<1>3. h.reading \in BOOLEAN /\ h.readable \in BOOLEAN
    BY DEF Handle
<1>4. CASE ~h.reading /\ h.readable
    <2> DEFINE q == QueueRead(g)
    <2>1. /\ q \in Handle
          /\ q.writes = g.writes
          /\ q.reqs + (IF g.pending THEN 1 ELSE 0) = g.reqs + (IF q.pending THEN 1 ELSE 0)
          /\ q.pending <=> g.pending \/ g.reading
          /\ q.reading = g.reading /\ q.readable = g.readable /\ q.closing = g.closing
        BY <1>1, QueueReadHandle
    <2>2. uv_read_start(h) = q
        BY <1>2, <1>4
    <2> HIDE DEF q
    <2> QED BY <1>1, <1>3, <1>4, <2>1, <2>2, Zenon
<1>5. CASE ~(~h.reading /\ h.readable)
    BY <1>2, <1>3, <1>5 DEF Handle
<1> QED BY <1>4, <1>5

LEMMA WriteHandle ==
    ASSUME NEW h \in Handle
    PROVE  LET w == uv_write(h) IN
           /\ w \in Handle
           /\ w.writes = h.writes + 1 /\ w.reqs = h.reqs + 1
           /\ w.pending = h.pending /\ w.reading = h.reading
           /\ w.readable = h.readable /\ w.closing = h.closing
<1>1. h.writes + 1 \in Nat /\ h.reqs + 1 \in Nat
    BY DEF Handle
<1> QED BY <1>1, Zenon DEF uv_write, Handle

LEMMA WriteDoneHandle ==
    ASSUME NEW h \in Handle, h.writes > 0, h.reqs > 0
    PROVE  LET w == WriteReqDone(h) IN
           /\ w \in Handle
           /\ w.writes = h.writes - 1 /\ w.reqs = h.reqs - 1
           /\ w.pending = h.pending /\ w.reading = h.reading
           /\ w.readable = h.readable /\ w.closing = h.closing
<1> DEFINE n == h.writes - 1
           g == [h EXCEPT !.writes = n]
<1>1. n \in Nat
    BY DEF Handle
<1>2. WriteReqDone(h) = ReqDone(g)
    BY DEF WriteReqDone
<1> HIDE DEF n
<1>3. /\ g \in Handle
      /\ g.reqs = h.reqs /\ g.writes = n /\ g.pending = h.pending
      /\ g.reading = h.reading /\ g.readable = h.readable /\ g.closing = h.closing
    BY <1>1, Zenon DEF Handle
<1> HIDE DEF g
<1> QED BY <1>2, <1>3, ReqDoneHandle DEF n

LEMMA ReadDataHandle ==
    ASSUME NEW h \in Handle
    PROVE  LET r == ReadData(h) IN
           /\ r \in Handle
           /\ r.reqs = h.reqs /\ r.writes = h.writes /\ ~r.pending
           /\ r.reading = h.reading /\ r.readable = h.readable /\ r.closing = h.closing
BY Zenon DEF ReadData, Handle

LEMMA ReadEndHandle ==
    ASSUME NEW h \in Handle, NEW r \in {ReadEof(h), ReadError(h)}
    PROVE  /\ r \in Handle
           /\ r.reqs = h.reqs /\ r.writes = h.writes /\ ~r.pending /\ ~r.reading
           /\ r.readable => h.readable
           /\ r.closing = h.closing
<1>1. LET e == ReadEof(h) IN
      /\ e \in Handle
      /\ e.reqs = h.reqs /\ e.writes = h.writes /\ ~e.pending /\ ~e.reading
      /\ ~e.readable
      /\ e.closing = h.closing
    BY Zenon DEF ReadEof, Handle
<1>2. LET e == ReadError(h) IN
      /\ e \in Handle
      /\ e.reqs = h.reqs /\ e.writes = h.writes /\ ~e.pending /\ ~e.reading
      /\ e.readable = h.readable
      /\ e.closing = h.closing
    BY Zenon DEF ReadError, Handle
<1> QED BY <1>1, <1>2

-----------------------------------------------------------------------------
(* The stack of callbacks. *)

LEMMA StackFacts ==
    ASSUME TypeOK
    PROVE  /\ stack \in Seq(Frame)
           /\ Len(stack) \in Nat
           /\ stack # <<>> <=> Len(stack) > 0
           /\ \A k \in 1 .. Len(stack) :
                 /\ stack[k] \in Frame
                 /\ stack[k].s \in 0 .. MaxId
                 /\ stack[k].fn \in {"new", "receive", "close", "update"}
                 /\ stack[k].why \in {"handler", "eof", "reset", "fail"}
<1>1. stack \in Seq(Frame)
    BY DEF TypeOK
<1>2. Len(stack) \in Nat /\ \A k \in 1 .. Len(stack) : stack[k] \in Frame
    BY <1>1, LenProperties, ElementOfSeq
<1>3. stack # <<>> <=> Len(stack) > 0
    BY <1>1, <1>2, EmptySeq
<1> QED BY <1>1, <1>2, <1>3 DEF Frame

(* A callback begins. *)
LEMMA PushFacts ==
    ASSUME TypeOK, NEW f \in Frame, stack' = Append(stack, f)
    PROVE  /\ stack' \in Seq(Frame)
           /\ Len(stack') = Len(stack) + 1
           /\ stack'[Len(stack) + 1] = f
           /\ \A k \in 1 .. Len(stack) : stack'[k] = stack[k]
           /\ stack' # <<>>
           /\ stack'[1] = IF stack = <<>> THEN f ELSE stack[1]
<1>1. stack \in Seq(Frame) /\ Len(stack) \in Nat /\ (stack # <<>> <=> Len(stack) > 0)
    BY StackFacts
<1>2. /\ stack' \in Seq(Frame)
      /\ Len(stack') = Len(stack) + 1
      /\ stack'[Len(stack) + 1] = f
      /\ \A k \in 1 .. Len(stack) : stack'[k] = stack[k]
    BY <1>1, AppendProperties
<1>3. stack' # <<>>
    BY <1>1, <1>2, EmptySeq
<1>4. stack'[1] = IF stack = <<>> THEN f ELSE stack[1]
    BY <1>1, <1>2
<1> QED BY <1>2, <1>3, <1>4

(* A callback ends. *)
LEMMA PopFacts ==
    ASSUME TypeOK, stack # <<>>, stack' = Pop
    PROVE  /\ stack' \in Seq(Frame)
           /\ Len(stack') = Len(stack) - 1
           /\ \A k \in 1 .. Len(stack) - 1 : stack'[k] = stack[k]
           /\ stack' # <<>> <=> Len(stack) > 1
           /\ Len(stack) > 1 => stack'[1] = stack[1]
<1>1. stack \in Seq(Frame) /\ Len(stack) \in Nat /\ Len(stack) > 0
    BY StackFacts
<1> DEFINE n == Len(stack) - 1
<1>2. 1 \in 1 .. Len(stack) + 1 /\ n \in 0 .. Len(stack) /\ n = n - 1 + 1
    BY <1>1
<1>3. /\ SubSeq(stack, 1, n) \in Seq(Frame)
      /\ Len(SubSeq(stack, 1, n)) = n - 1 + 1
      /\ \A i \in 1 .. n - 1 + 1 : SubSeq(stack, 1, n)[i] = stack[1 + i - 1]
    BY <1>1, <1>2, SubSeqProperties
<1>4. \A i \in 1 .. n : 1 + i - 1 = i
    BY <1>1
<1>5. /\ stack' \in Seq(Frame)
      /\ Len(stack') = n
      /\ \A i \in 1 .. n : stack'[i] = stack[i]
    BY <1>2, <1>3, <1>4 DEF Pop
<1>6. stack' # <<>> <=> n > 0
    BY <1>1, <1>5, EmptySeq
<1> QED BY <1>1, <1>5, <1>6

-----------------------------------------------------------------------------
(* The step does not concern session t. *)
Untouched(t) ==
    /\ tcp'[t] = tcp[t]
    /\ t \in m_sessions' <=> t \in m_sessions
    /\ Outer("new", t)' <=> Outer("new", t)
    /\ Outer("receive", t)' <=> Outer("receive", t)
    /\ InProcess(t)' <=> InProcess(t)

(* A session that a step does not concern stays sound. *)
LEMMA SameSession ==
    ASSUME NEW t, SessionSound(t), Untouched(t)
    PROVE  SessionSound(t)'
BY DEF Untouched, SessionSound, HandleSound, WritesWithin, Heard, Forgotten

(***************************************************************************)
(* A step that makes no callback, ends none and leaves the map alone keeps *)
(* the invariant if it keeps the sessions S sound, whose handles it may    *)
(* change, and frees only sessions that are not in the map.                *)
(***************************************************************************)
LEMMA QuietStep ==
    ASSUME IInv, Alive, TypeOK',
           UNCHANGED <<stack, m_sessions, opened, closed>>,
           lastid' >= lastid,
           \A t \in Id : mem'[t] = mem[t] \/ (mem'[t] = "freed" /\ t \notin m_sessions),
           proc' # "exited",
           NEW S \in SUBSET Id,
           \A t \in Id \ S : tcp'[t] = tcp[t],
           Alive' => \A t \in S : SessionSound(t)'
    PROVE  IInv'
<1>1. StackShape'
    BY DEF IInv, StackShape
<1>2. IdsKnown'
    BY DEF IInv, IdsKnown, TypeOK
<1>3. RegistrySound'
    BY DEF IInv, RegistrySound, TypeOK
<1>4. NoSessionLeak'
    BY DEF IInv, NoSessionLeak, Closing
<1>5. ASSUME Alive', NEW t \in Id
      PROVE  SessionSound(t)'
    <2>1. CASE t \in S
        BY <1>5, <2>1
    <2>2. CASE t \notin S
        <3>1. SessionSound(t) /\ tcp'[t] = tcp[t]
            BY <2>2 DEF IInv
        <3>2. Untouched(t)
            BY <3>1 DEF Untouched, Outer, InProcess
        <3> QED BY <3>1, <3>2, SameSession
    <2> QED BY <2>1, <2>2
<1> QED BY <1>1, <1>2, <1>3, <1>4, <1>5 DEF IInv

(* Steps that change nothing but peer, lost, m_shutdown or proc. *)
LEMMA IdleSteps ==
    ASSUME IInv,
           \/ Initialize \/ AcceptError \/ HandlerShutsDown
           \/ \E s \in Id : PeerEnds(s) \/ WriteSucceeds(s) \/ WriteInsertedTwice(s)
    PROVE  IInv'
<1>1. /\ Alive /\ proc' # "exited"
      /\ UNCHANGED <<lastid, mem, m_sessions, tcp, linked, stale, stack, opened, closed>>
      /\ lost' \in SUBSET Id
    BY DEF Alive, Initialize, AcceptError, HandlerShutsDown, PeerEnds, WriteSucceeds,
           WriteInsertedTwice, Inserted, InLoop, InHandler, IInv, TypeOK
<1>2. /\ peer' \in [Id -> {"open", "eof", "reset", "fail"}]
      /\ m_shutdown' \in BOOLEAN
      /\ proc' \in {"starting", "running", "exited", "crashed", "endless"} \cup Asserts
    BY Zenon DEF IInv, TypeOK, Initialize, AcceptError, HandlerShutsDown, PeerEnds, WriteSucceeds,
           WriteInsertedTwice, Asserts
<1>3. TypeOK'
    BY <1>1, <1>2 DEF IInv, TypeOK
<1>4. lastid' >= lastid
    BY <1>1 DEF IInv, TypeOK
<1> QED
    <2>1. {} \in SUBSET Id
        OBVIOUS
    <2> QED BY <1>1, <1>3, <1>4, <2>1, QuietStep, Zenon

LEMMA HandleFacts ==
    ASSUME IInv, Alive, NEW s \in Id
    PROVE  /\ tcp[s] \in Handle
           /\ tcp[s].reqs \in Nat /\ tcp[s].writes \in Nat /\ tcp[s].pending \in BOOLEAN
           /\ SessionSound(s) /\ tcp[s].writes <= MaxWrites
           /\ stack = <<>> => /\ tcp[s].reqs = tcp[s].writes + (IF tcp[s].pending THEN 1 ELSE 0)
                              /\ tcp[s].closing => ~tcp[s].reading /\ ~tcp[s].readable
                              /\ s \in m_sessions =>
                                    /\ tcp[s].readable /\ ~tcp[s].closing
                                    /\ tcp[s].reading /\ tcp[s].pending
                              /\ "new" \notin CloseOwnIn /\ tcp[s].reading => s \in m_sessions
<1>1. tcp[s] \in Handle /\ SessionSound(s)
    BY DEF IInv, TypeOK
<1>2. tcp[s].reqs \in Nat /\ tcp[s].writes \in Nat /\ tcp[s].pending \in BOOLEAN
    BY <1>1 DEF Handle
<1> QED BY <1>1, <1>2 DEF SessionSound, HandleSound, WritesWithin, Heard, Forgotten, InProcess, Outer

(* A step that begins no send. *)
LEMMA StillWithin ==
    ASSUME IInv, Alive, NEW s \in Id, tcp'[s] \in Handle, tcp'[s].writes <= tcp[s].writes
    PROVE  WritesWithin(s)'
<1>1. tcp[s].writes \in Nat /\ tcp[s].writes <= MaxWrites
    BY HandleFacts
<1>2. tcp'[s].writes \in Nat /\ MaxWrites \in Nat
    BY ServiceAssumption DEF Handle
<1> QED BY <1>1, <1>2 DEF WritesWithin

LEMMA HandleUpdate ==
    ASSUME TypeOK, NEW s \in Id, NEW h \in Handle, tcp' = [tcp EXCEPT ![s] = h]
    PROVE  /\ tcp' \in [Id -> Handle]
           /\ tcp'[s] = h
           /\ \A t \in Id \ {s} : tcp'[t] = tcp[t]
BY DEF TypeOK

(* A send that WSASend takes: one request more. *)
LEMMA SendIInv ==
    ASSUME IInv, NEW s \in Id, NEW long \in BOOLEAN, HandlerSends(s, long)
    PROVE  IInv'
<1>1. /\ Alive /\ proc' # "exited"
      /\ UNCHANGED <<lastid, mem, m_sessions, linked, peer, stack, m_shutdown, opened, closed>>
      /\ tcp' = tcp \/ tcp' = [tcp EXCEPT ![s] = uv_write(tcp[s])]
      /\ stale' \in SUBSET Id /\ lost' \in SUBSET Id
      /\ proc' \in {"running", "crashed", "send", "endless"}
      /\ tcp[s].writes < MaxWrites
    BY DEF HandlerSends, Reused, Inserted, InHandler, Alive, IInv, TypeOK
<1>2. tcp[s] \in Handle /\ SessionSound(s)
    BY <1>1, HandleFacts
<1> DEFINE h == tcp'[s]
<1>3. /\ tcp' \in [Id -> Handle]
      /\ \A t \in Id \ {s} : tcp'[t] = tcp[t]
      /\ h = tcp[s] \/ h = uv_write(tcp[s])
    BY <1>1, <1>2, WriteHandle DEF IInv, TypeOK
<1>4. TypeOK'
    BY <1>1, <1>3 DEF IInv, TypeOK, Asserts
<1>5. SessionSound(s)'
    <2>1. /\ h.reqs - h.writes = tcp[s].reqs - tcp[s].writes
          /\ h.reqs \in Nat /\ h.writes \in Nat
          /\ h.pending = tcp[s].pending /\ h.reading = tcp[s].reading
          /\ h.readable = tcp[s].readable /\ h.closing = tcp[s].closing
        BY <1>2, <1>3, WriteHandle DEF Handle
    <2>2. tcp[s].reqs \in Nat /\ tcp[s].writes \in Nat
        BY <1>2 DEF Handle
    <2>3. /\ Outer("new", s)' <=> Outer("new", s)
          /\ Outer("receive", s)' <=> Outer("receive", s)
          /\ InProcess(s)' <=> InProcess(s)
        BY <1>1 DEF Outer, InProcess
    <2> HIDE DEF h
    <2>4. HandleSound(s)'
        BY <1>2, <2>1, <2>2, <2>3 DEF SessionSound, HandleSound, h
    <2>5. s \in m_sessions => Heard(s)'
        BY <1>1, <1>2, <2>1, <2>3 DEF SessionSound, Heard, h
    <2>6. "new" \notin CloseOwnIn => Forgotten(s)'
        BY <1>1, <1>2, <2>1, <2>3 DEF SessionSound, Forgotten, h
    <2>7. WritesWithin(s)'
        <3>1. h.writes = tcp[s].writes \/ h.writes = tcp[s].writes + 1
            BY <1>2, <1>3, WriteHandle DEF h
        <3>2. tcp[s].writes < MaxWrites /\ MaxWrites \in Nat
            BY <1>1, ServiceAssumption
        <3> QED BY <2>2, <3>1, <3>2 DEF WritesWithin, h
    <2> QED BY <1>1, <2>4, <2>5, <2>6, <2>7 DEF SessionSound
<1> QED
    <2>1. {s} \in SUBSET Id /\ lastid' >= lastid
        BY <1>1 DEF IInv, TypeOK
    <2> QED BY <1>1, <1>3, <1>4, <1>5, <2>1, QuietStep, Zenon

(* A failing accept, and connect, use up an id; what they allocate, they free. *)
LEMMA FailedSessions ==
    ASSUME IInv, AcceptFails \/ HandlerConnects
    PROVE  IInv'
<1>0. PICK s \in Id : s = lastid + 1
    BY DEF AcceptFails, HandlerConnects, generateid
<1>1. /\ lastid' = s /\ Alive /\ proc' \in {"running", "crashed", "connect"}
      /\ linked' = linked \cup {s}
      /\ mem' = [mem EXCEPT ![s] = "freed"]
      /\ UNCHANGED <<m_sessions, peer, stack, m_shutdown, opened, closed, stale, lost>>
    BY <1>0 DEF AcceptFails, HandlerConnects, generateid, Uninitialised, InLoop, InHandler, Alive
<1>2. lastid \in Nat /\ s \in 0 .. MaxId /\ lastid' >= lastid
    BY <1>0, <1>1 DEF IInv, TypeOK, Id
<1>3. s \notin m_sessions
    BY <1>0, <1>1, <1>2 DEF IInv, IdsKnown, RegistrySound
<1>4. /\ tcp' \in [Id -> Handle]
      /\ \A t \in Id \ {s} : tcp'[t] = tcp[t]
    BY <1>0, <1>1, InitHandle, HandleUpdate DEF AcceptFails, HandlerConnects, generateid, IInv, TypeOK
<1>5. TypeOK'
    BY <1>1, <1>2, <1>4, Zenon DEF IInv, TypeOK, Asserts
<1>6. \A t \in Id : mem'[t] = mem[t] \/ (mem'[t] = "freed" /\ t \notin m_sessions)
    BY <1>1, <1>3 DEF IInv, TypeOK
<1>7. Alive' => SessionSound(s)'
    <2> SUFFICES ASSUME Alive' PROVE SessionSound(s)'
        OBVIOUS
    <2>1. AcceptFails
        BY DEF HandlerConnects, Alive
    <2>2. stack' = <<>> /\ tcp'[s] = uv_close(uv_tcp_init)
        BY <1>0, <1>1, <2>1, InitHandle, HandleUpdate DEF AcceptFails, InLoop, generateid, IInv, TypeOK
    <2>3. ~Outer("new", s)' /\ ~Outer("receive", s)' /\ ~InProcess(s)'
        BY <2>2 DEF Outer, InProcess
    <2>4. /\ tcp'[s].reqs = 0 /\ tcp'[s].writes = 0 /\ ~tcp'[s].pending
          /\ ~tcp'[s].reading /\ ~tcp'[s].readable
        BY <2>2 DEF uv_close, uv_tcp_init, WantEndgame
    <2>5. WritesWithin(s)'
        BY <2>4, ServiceAssumption DEF WritesWithin
    <2> QED BY <1>1, <1>3, <2>2, <2>3, <2>4, <2>5 DEF SessionSound, HandleSound, Forgotten
<1> QED
    <2>1. {s} \in SUBSET Id /\ proc' # "exited"
        BY <1>1
    <2> QED BY <1>1, <1>2, <1>4, <1>5, <1>6, <1>7, <2>1, QuietStep, Zenon

(* A step of the loop that makes no callback and changes the handle of s to h. *)
LEMMA LoopStep ==
    ASSUME IInv, InLoop, NEW s \in Id, NEW h \in Handle, tcp' = [tcp EXCEPT ![s] = h],
           UNCHANGED <<lastid, mem, m_sessions, peer, stack, m_shutdown, opened, closed, stale, lost>>,
           linked' \in SUBSET Id,
           proc' \in {"running", "crashed", "on_receive"},
           h.reqs = h.writes + (IF h.pending THEN 1 ELSE 0),
           h.writes <= tcp[s].writes,
           h.closing => ~h.reading /\ ~h.readable,
           s \in m_sessions => h.readable /\ ~h.closing /\ h.reading /\ h.pending,
           "new" \notin CloseOwnIn /\ h.reading => s \in m_sessions
    PROVE  IInv'
<1>1. Alive /\ stack = <<>> /\ proc' # "exited"
    BY DEF InLoop, Alive
<1>2. /\ tcp' \in [Id -> Handle]
      /\ tcp'[s] = h
      /\ \A t \in Id \ {s} : tcp'[t] = tcp[t]
    BY HandleUpdate, Zenon DEF IInv
<1>3. TypeOK'
    BY <1>2 DEF IInv, TypeOK, Asserts
<1>4. ~Outer("new", s)' /\ ~Outer("receive", s)' /\ ~InProcess(s)'
    BY <1>1 DEF Outer, InProcess
<1>5. HandleSound(s)'
    <2>1. h.reqs \in Nat /\ h.writes \in Nat
        BY DEF Handle
    <2> QED BY <1>2, <1>4, <2>1 DEF HandleSound
<1>6. s \in m_sessions => Heard(s)'
    BY <1>2, <1>4 DEF Heard
<1>7. "new" \notin CloseOwnIn => Forgotten(s)'
    BY <1>2, <1>4 DEF Forgotten
<1>8. SessionSound(s)'
    <2>1. WritesWithin(s)'
        BY <1>1, <1>2, StillWithin
    <2> QED BY <1>5, <1>6, <1>7, <2>1 DEF SessionSound
<1> QED
    <2>1. {s} \in SUBSET Id /\ lastid' >= lastid
        BY DEF IInv, TypeOK
    <2> QED BY <1>1, <1>2, <1>3, <1>8, <2>1, QuietStep, Zenon

(* Reads that the handler does not hear of. *)
LEMMA ReadIgnoredIInv ==
    ASSUME IInv, NEW s \in Id, ReadIgnored(s) \/ ReadCancelled(s)
    PROVE  IInv'
<1> DEFINE d == ReadData(tcp[s])
           h == AfterRead(d)
<1>1. /\ InLoop /\ Alive /\ stack = <<>> /\ tcp[s].pending
      /\ tcp' = [tcp EXCEPT ![s] = h]
      /\ UNCHANGED <<lastid, mem, m_sessions, linked, peer, stack, m_shutdown, opened, closed, stale, lost>>
      /\ proc' \in {"running", "crashed"}
    BY DEF ReadIgnored, ReadCancelled, ReadCompletes, Uninitialised, Touch, InLoop, Alive
<1>2. /\ tcp[s] \in Handle
      /\ tcp[s].reqs \in Nat /\ tcp[s].writes \in Nat
      /\ tcp[s].reqs = tcp[s].writes + 1
      /\ tcp[s].closing => ~tcp[s].reading /\ ~tcp[s].readable
      /\ s \in m_sessions => tcp[s].readable /\ ~tcp[s].closing /\ tcp[s].reading
      /\ "new" \notin CloseOwnIn /\ tcp[s].reading => s \in m_sessions
    BY <1>1, HandleFacts
<1>3. /\ d \in Handle
      /\ d.reqs = tcp[s].reqs /\ d.writes = tcp[s].writes /\ ~d.pending
      /\ d.reading = tcp[s].reading /\ d.readable = tcp[s].readable
      /\ d.closing = tcp[s].closing
    BY <1>2, ReadDataHandle
<1>4. d.reqs > 0
    BY <1>2, <1>3
<1> HIDE DEF d
<1>5. /\ h \in Handle
      /\ h.writes = d.writes
      /\ h.reqs + (IF d.pending THEN 1 ELSE 0) + 1 = d.reqs + (IF h.pending THEN 1 ELSE 0)
      /\ h.pending <=> d.pending \/ d.reading
      /\ h.reading = d.reading /\ h.readable = d.readable /\ h.closing = d.closing
    BY <1>3, <1>4, AfterReadHandle
<1> HIDE DEF h
<1>6. h.reqs \in Nat /\ h.writes \in Nat /\ h.pending \in BOOLEAN
    BY <1>5 DEF Handle
<1>7. h.reqs = h.writes + (IF h.pending THEN 1 ELSE 0)
    BY <1>2, <1>3, <1>5, <1>6
<1>8. /\ h.closing => ~h.reading /\ ~h.readable
      /\ s \in m_sessions => h.readable /\ ~h.closing /\ h.reading /\ h.pending
      /\ "new" \notin CloseOwnIn /\ h.reading => s \in m_sessions
    BY <1>2, <1>3, <1>5
<1> QED
    <2>1. linked' \in SUBSET Id
        BY <1>1 DEF IInv, TypeOK
    <2>2. h.writes <= tcp[s].writes
        BY <1>2, <1>3, <1>5
    <2> QED BY <1>1, <1>5, <1>7, <1>8, <2>1, <2>2, LoopStep, Zenon

(* The end of a connection that is not in the map (any more). *)
LEMMA ReadEndsUnknownIInv ==
    ASSUME IInv, NEW s \in Id, ReadEnds(s), s \notin m_sessions
    PROVE  IInv'
<1> DEFINE e == IF peer[s] = "eof" THEN ReadEof(tcp[s]) ELSE ReadError(tcp[s])
           h == AfterRead(e)
<1>1. /\ InLoop /\ Alive /\ stack = <<>> /\ tcp[s].pending
      /\ tcp' = [tcp EXCEPT ![s] = h]
      /\ UNCHANGED <<lastid, mem, m_sessions, linked, peer, stack, m_shutdown, opened, closed, stale, lost>>
      /\ proc' \in {"running", "crashed", "on_receive"}
    BY DEF ReadEnds, ReadCompletes, Uninitialised, InLoop, Alive
<1>2. /\ tcp[s] \in Handle
      /\ tcp[s].reqs \in Nat /\ tcp[s].writes \in Nat
      /\ tcp[s].reqs = tcp[s].writes + 1
      /\ tcp[s].closing => ~tcp[s].reading /\ ~tcp[s].readable
    BY <1>1, HandleFacts
<1>3. /\ e \in Handle
      /\ e.reqs = tcp[s].reqs /\ e.writes = tcp[s].writes /\ ~e.pending /\ ~e.reading
      /\ e.readable => tcp[s].readable
      /\ e.closing = tcp[s].closing
    BY <1>2, ReadEndHandle
<1>4. e.reqs > 0
    BY <1>2, <1>3
<1> HIDE DEF e
<1>5. /\ h \in Handle
      /\ h.writes = e.writes
      /\ h.reqs + (IF e.pending THEN 1 ELSE 0) + 1 = e.reqs + (IF h.pending THEN 1 ELSE 0)
      /\ h.pending <=> e.pending \/ e.reading
      /\ h.reading = e.reading /\ h.readable = e.readable /\ h.closing = e.closing
    BY <1>3, <1>4, AfterReadHandle
<1> HIDE DEF h
<1>6. h.reqs \in Nat /\ h.writes \in Nat /\ h.pending \in BOOLEAN
    BY <1>5 DEF Handle
<1>7. h.reqs = h.writes + (IF h.pending THEN 1 ELSE 0)
    BY <1>2, <1>3, <1>5, <1>6
<1>8. (h.closing => ~h.reading /\ ~h.readable) /\ ~h.reading
    BY <1>2, <1>3, <1>5
<1> QED
    <2>1. linked' \in SUBSET Id
        BY <1>1 DEF IInv, TypeOK
    <2>2. h.writes <= tcp[s].writes
        BY <1>2, <1>3, <1>5
    <2> QED BY <1>1, <1>5, <1>7, <1>8, <2>1, <2>2, LoopStep, Zenon

(* A write is over. *)
LEMMA WriteFailsIInv ==
    ASSUME IInv, NEW s \in Id, WriteFails(s)
    PROVE  IInv'
<1> DEFINE h == WriteReqDone(tcp[s])
<1>1. /\ InLoop /\ Alive /\ stack = <<>> /\ tcp[s].writes > 0
      /\ tcp' = [tcp EXCEPT ![s] = h]
      /\ UNCHANGED <<lastid, mem, m_sessions, linked, peer, stack, m_shutdown, opened, closed, stale, lost>>
      /\ proc' \in {"running", "crashed"}
    BY DEF WriteFails, Touch, InLoop, Alive
<1>2. /\ tcp[s] \in Handle
      /\ tcp[s].reqs \in Nat /\ tcp[s].writes \in Nat
      /\ tcp[s].reqs = tcp[s].writes + (IF tcp[s].pending THEN 1 ELSE 0)
      /\ tcp[s].closing => ~tcp[s].reading /\ ~tcp[s].readable
      /\ s \in m_sessions =>
            tcp[s].readable /\ ~tcp[s].closing /\ tcp[s].reading /\ tcp[s].pending
      /\ "new" \notin CloseOwnIn /\ tcp[s].reading => s \in m_sessions
    BY <1>1, HandleFacts
<1>3. tcp[s].reqs > 0
    BY <1>1, <1>2
<1>4. /\ h \in Handle
      /\ h.writes = tcp[s].writes - 1 /\ h.reqs = tcp[s].reqs - 1
      /\ h.pending = tcp[s].pending /\ h.reading = tcp[s].reading
      /\ h.readable = tcp[s].readable /\ h.closing = tcp[s].closing
    BY <1>1, <1>2, <1>3, WriteDoneHandle
<1> HIDE DEF h
<1>5. h.reqs = h.writes + (IF h.pending THEN 1 ELSE 0)
    BY <1>2, <1>4
<1>6. /\ h.closing => ~h.reading /\ ~h.readable
      /\ s \in m_sessions => h.readable /\ ~h.closing /\ h.reading /\ h.pending
      /\ "new" \notin CloseOwnIn /\ h.reading => s \in m_sessions
    BY <1>2, <1>4
<1> QED
    <2>1. linked' \in SUBSET Id
        BY <1>1 DEF IInv, TypeOK
    <2>2. h.writes <= tcp[s].writes
        BY <1>2, <1>4
    <2> QED BY <1>1, <1>4, <1>5, <1>6, <2>1, <2>2, LoopStep, Zenon

(* A closed handle leaves the loop. *)
LEMMA EndgameIInv ==
    ASSUME IInv, NEW s \in Id, Endgame(s)
    PROVE  IInv'
<1> DEFINE h == [tcp[s] EXCEPT !.endgame = FALSE]
<1>1. /\ InLoop /\ Alive /\ stack = <<>>
      /\ tcp' = [tcp EXCEPT ![s] = h]
      /\ linked' = linked \ {s}
      /\ UNCHANGED <<lastid, mem, m_sessions, peer, stack, m_shutdown, opened, closed, stale, lost>>
      /\ proc' \in {"running", "crashed"}
    BY DEF Endgame, InLoop, Alive
<1>2. /\ tcp[s] \in Handle
      /\ tcp[s].reqs = tcp[s].writes + (IF tcp[s].pending THEN 1 ELSE 0)
      /\ tcp[s].closing => ~tcp[s].reading /\ ~tcp[s].readable
      /\ s \in m_sessions =>
            tcp[s].readable /\ ~tcp[s].closing /\ tcp[s].reading /\ tcp[s].pending
      /\ "new" \notin CloseOwnIn /\ tcp[s].reading => s \in m_sessions
    BY <1>1, HandleFacts
<1>3. /\ h \in Handle
      /\ h.writes = tcp[s].writes /\ h.reqs = tcp[s].reqs
      /\ h.pending = tcp[s].pending /\ h.reading = tcp[s].reading
      /\ h.readable = tcp[s].readable /\ h.closing = tcp[s].closing
    BY <1>2, Zenon DEF Handle
<1> HIDE DEF h
<1>4. /\ h.reqs = h.writes + (IF h.pending THEN 1 ELSE 0)
      /\ h.closing => ~h.reading /\ ~h.readable
      /\ s \in m_sessions => h.readable /\ ~h.closing /\ h.reading /\ h.pending
      /\ "new" \notin CloseOwnIn /\ h.reading => s \in m_sessions
    BY <1>2, <1>3
<1> QED
    <2>1. linked' \in SUBSET Id
        BY <1>1 DEF IInv, TypeOK
    <2>2. h.writes <= tcp[s].writes
        <3>1. tcp[s].writes \in Nat
            BY <1>2 DEF Handle
        <3> QED BY <1>3, <3>1
    <2> QED BY <1>1, <1>3, <1>4, <2>1, <2>2, LoopStep, Zenon

-----------------------------------------------------------------------------
(* Callbacks that begin and end. *)

LEMMA PushShape ==
    ASSUME TypeOK, StackShape, NEW f \in Frame, stack' = Append(stack, f),
           closed \subseteq closed',
           f.fn = "update" \/ f.s \in Id,
           stack # <<>> => f.fn = "close",
           stack # <<>> \/ f.fn # "close" => f.why = "handler",
           f.fn = "close" => f.s \in closed'
    PROVE  /\ StackShape'
           /\ Closing \subseteq Closing'
           /\ f.fn = "close" => f.s \in Closing'
           /\ \A fn, t : Outer(fn, t)' <=> IF stack = <<>> THEN f.fn = fn /\ f.s = t
                                                           ELSE Outer(fn, t)
           /\ \A t : InProcess(t)' <=>
                        IF stack = <<>>
                        THEN f.s = t /\ (f.fn = "receive" \/ (f.fn = "close" /\ f.why # "handler"))
                        ELSE InProcess(t)
<1>1. /\ Len(stack') = Len(stack) + 1 /\ stack'[Len(stack) + 1] = f
      /\ \A k \in 1 .. Len(stack) : stack'[k] = stack[k]
      /\ stack' # <<>> /\ stack'[1] = IF stack = <<>> THEN f ELSE stack[1]
    BY PushFacts
<1>2. /\ Len(stack) \in Nat
      /\ stack # <<>> <=> Len(stack) > 0
    BY StackFacts
<1>3. StackShape'
    <2> SUFFICES ASSUME NEW k \in 1 .. Len(stack')
                 PROVE  /\ stack'[k].fn = "update" \/ stack'[k].s \in Id
                        /\ k > 1 => stack'[k].fn = "close"
                        /\ (k > 1 \/ stack'[k].fn # "close") => stack'[k].why = "handler"
                        /\ stack'[k].fn = "close" => stack'[k].s \in closed'
        BY DEF StackShape, Id
    <2>1. CASE k \in 1 .. Len(stack)
        BY <1>1, <2>1 DEF StackShape
    <2>2. CASE k = Len(stack) + 1
        BY <1>1, <1>2, <2>2
    <2> QED BY <1>1, <1>2, <2>1, <2>2
<1>4. Closing \subseteq Closing'
    <2> SUFFICES ASSUME NEW j \in 1 .. Len(stack), stack[j].fn = "close"
                 PROVE  stack[j].s \in Closing'
        BY DEF Closing
    <2>1. j \in 1 .. Len(stack') /\ stack'[j] = stack[j]
        BY <1>1, <1>2
    <2> QED BY <2>1 DEF Closing
<1>5. f.fn = "close" => f.s \in Closing'
    <2>1. Len(stack) + 1 \in 1 .. Len(stack')
        BY <1>1, <1>2
    <2> QED BY <1>1, <2>1 DEF Closing
<1>6. /\ \A fn, t : Outer(fn, t)' <=> IF stack = <<>> THEN f.fn = fn /\ f.s = t
                                                       ELSE Outer(fn, t)
      /\ \A t : InProcess(t)' <=>
                        IF stack = <<>>
                        THEN f.s = t /\ (f.fn = "receive" \/ (f.fn = "close" /\ f.why # "handler"))
                        ELSE InProcess(t)
    BY <1>1 DEF Outer, InProcess
<1> QED BY <1>3, <1>4, <1>5, <1>6

LEMMA PopShape ==
    ASSUME TypeOK, StackShape, stack # <<>>, stack' = Pop, UNCHANGED closed
    PROVE  /\ StackShape'
           /\ stack' \in Seq(Frame)
           /\ \A t \in Closing : t \in Closing' \/ (Top.fn = "close" /\ t = Top.s)
           /\ Len(stack) \in Nat /\ Len(stack) >= 1
           /\ Len(stack) = 1 => stack' = <<>> /\ Top = stack[1]
           /\ Len(stack) > 1 => /\ Top.fn = "close" /\ Top.why = "handler"
                                /\ \A fn, t : Outer(fn, t)' <=> Outer(fn, t)
                                /\ \A t : InProcess(t)' <=> InProcess(t)
           /\ Top.fn = "close" => Top.s \in closed /\ Top.s \in Id
           /\ Top.fn # "update" => Top.s \in Id
<1>1. /\ stack' \in Seq(Frame) /\ Len(stack') = Len(stack) - 1
      /\ \A k \in 1 .. Len(stack) - 1 : stack'[k] = stack[k]
      /\ stack' # <<>> <=> Len(stack) > 1
      /\ Len(stack) > 1 => stack'[1] = stack[1]
    BY PopFacts
<1>2. /\ Len(stack) \in Nat
      /\ Len(stack) >= 1
    BY StackFacts
<1>3. StackShape'
    <2> SUFFICES ASSUME NEW k \in 1 .. Len(stack')
                 PROVE  /\ stack'[k].fn = "update" \/ stack'[k].s \in Id
                        /\ k > 1 => stack'[k].fn = "close"
                        /\ (k > 1 \/ stack'[k].fn # "close") => stack'[k].why = "handler"
                        /\ stack'[k].fn = "close" => stack'[k].s \in closed'
        BY DEF StackShape, Id
    <2>1. k \in 1 .. Len(stack) /\ stack'[k] = stack[k]
        BY <1>1, <1>2
    <2> QED BY <2>1 DEF StackShape
<1>4. ASSUME NEW t \in Closing
      PROVE  t \in Closing' \/ (Top.fn = "close" /\ t = Top.s)
    <2>1. PICK j \in 1 .. Len(stack) : stack[j].fn = "close" /\ stack[j].s = t
        BY DEF Closing
    <2>2. CASE j = Len(stack)
        BY <2>1, <2>2 DEF Top
    <2>3. CASE j # Len(stack)
        <3>1. j \in 1 .. Len(stack') /\ stack'[j] = stack[j]
            BY <1>1, <1>2, <2>3
        <3> QED BY <2>1, <3>1 DEF Closing
    <2> QED BY <2>2, <2>3
<1>5. Len(stack) \in 1 .. Len(stack)
    BY <1>2
<1>6. Len(stack) > 1 => Top.fn = "close" /\ Top.why = "handler"
    BY <1>5 DEF StackShape, Top
<1>7. /\ Top.fn = "close" => Top.s \in closed
      /\ Top.fn # "update" => Top.s \in Id
    BY <1>5 DEF StackShape, Top
<1>8. Len(stack) > 1 => /\ \A fn, t : Outer(fn, t)' <=> Outer(fn, t)
                        /\ \A t : InProcess(t)' <=> InProcess(t)
    BY <1>1 DEF Outer, InProcess
<1>9. Len(stack) = 1 => stack' = <<>> /\ Top = stack[1]
    BY <1>1 DEF Top
<1> QED BY <1>1, <1>2, <1>3, <1>4, <1>6, <1>7, <1>8, <1>9

(* A step keeps sound all the sessions but s, which it is about. *)
LEMMA StackStep ==
    ASSUME IInv, Alive, TypeOK', StackShape', IdsKnown', RegistrySound', NoSessionLeak',
           NEW s,
           \A t \in Id : t # s => Untouched(t),
           Alive' /\ s \in Id => SessionSound(s)'
    PROVE  IInv'
<1>1. ASSUME Alive', NEW t \in Id PROVE SessionSound(t)'
    <2>1. CASE t = s
        BY <1>1, <2>1
    <2>2. CASE t # s
        <3>1. SessionSound(t)
            BY DEF IInv
        <3> QED BY <2>2, <3>1, SameSession
    <2> QED BY <2>1, <2>2
<1>2. (Alive => \A t \in Id : SessionSound(t))'
    BY <1>1 DEF Id
<1> QED BY <1>2 DEF IInv

(* A client is accepted: its session goes into the map and on_newsession runs. *)
LEMMA AcceptIInv ==
    ASSUME IInv, Accept
    PROVE  IInv'
<1>0. PICK s \in Id : s = lastid + 1
    BY DEF Accept, generateid
<1> DEFINE f == Call("new", s)
           h == uv_accept(uv_tcp_init)
<1>1. /\ Alive /\ stack = <<>> /\ proc' \in {"running", "crashed"}
      /\ lastid' = s
      /\ linked' = linked \cup {s}
      /\ mem' = [mem EXCEPT ![s] = "live"]
      /\ tcp' = [tcp EXCEPT ![s] = h]
      /\ m_sessions' = m_sessions \cup {s}
      /\ stack' = Append(stack, f)
      /\ opened' = opened \cup {s}
      /\ UNCHANGED <<peer, m_shutdown, closed, stale, lost>>
    BY <1>0 DEF Accept, generateid, on_newsession, Touch, InLoop, Alive
<1>2. TypeOK /\ StackShape /\ IdsKnown /\ RegistrySound /\ NoSessionLeak
    BY DEF IInv
<1>3. lastid \in Nat /\ s \in 0 .. MaxId
    BY <1>0, <1>2 DEF TypeOK, Id
<1>4. s \notin opened /\ s \notin closed
    BY <1>0, <1>2, <1>3 DEF IdsKnown
<1>5. f \in Frame /\ f.fn = "new" /\ f.s = s /\ f.why = "handler"
    BY <1>3 DEF Call, Frame
<1>6. /\ h \in Handle
      /\ h.reqs = 0 /\ h.writes = 0 /\ ~h.pending /\ ~h.reading /\ h.readable /\ ~h.closing
    BY InitHandle DEF uv_accept, uv_tcp_init
<1> HIDE DEF f, h
<1>7. tcp' \in [Id -> Handle] /\ tcp'[s] = h /\ \A t \in Id \ {s} : tcp'[t] = tcp[t]
    <2>1. tcp' = [tcp EXCEPT ![s] = h]
        BY <1>1
    <2> QED BY <1>2, <1>6, <2>1, HandleUpdate, Zenon
<1>8. /\ StackShape' /\ Closing \subseteq Closing'
      /\ \A fn, t : Outer(fn, t)' <=> fn = "new" /\ t = s
      /\ \A t : ~InProcess(t)'
    <2>1. /\ StackShape' /\ Closing \subseteq Closing'
          /\ \A fn, t : Outer(fn, t)' <=> IF stack = <<>> THEN f.fn = fn /\ f.s = t
                                                          ELSE Outer(fn, t)
          /\ \A t : InProcess(t)' <=>
                IF stack = <<>>
                THEN f.s = t /\ (f.fn = "receive" \/ (f.fn = "close" /\ f.why # "handler"))
                ELSE InProcess(t)
        BY <1>1, <1>2, <1>5, PushShape
    <2> QED BY <1>1, <1>5, <2>1
<1>9. TypeOK'
    <2>1. stack' \in Seq(Frame)
        BY <1>1, <1>2, <1>5, PushFacts
    <2> QED BY <1>1, <1>2, <1>3, <1>7, <2>1 DEF TypeOK
<1>10. IdsKnown'
    BY <1>0, <1>1, <1>2, <1>3 DEF IdsKnown
<1>11. RegistrySound'
    BY <1>1, <1>2, <1>4 DEF RegistrySound, TypeOK
<1>12. NoSessionLeak'
    BY <1>1, <1>2, <1>8 DEF NoSessionLeak, TypeOK, Alive
<1>13. SessionSound(s)'
    <2>1. WritesWithin(s)'
        BY <1>6, <1>7, ServiceAssumption DEF WritesWithin
    <2> QED BY <1>1, <1>6, <1>7, <1>8, <2>1 DEF SessionSound, HandleSound, Heard, Forgotten
<1>14. \A fn, t : ~Outer(fn, t) /\ ~InProcess(t)
    BY <1>1 DEF Outer, InProcess
<1>15. \A t \in Id : t # s => Untouched(t)
    BY <1>1, <1>7, <1>8, <1>14 DEF Untouched
<1> QED
    <2>1. Alive
        BY <1>1
    <2> QED BY <1>8, <1>9, <1>10, <1>11, <1>12, <1>13, <1>15, <2>1, StackStep

(* A message arrives: on_tcpreceive runs. *)
LEMMA ReadMessageIInv ==
    ASSUME IInv, NEW s \in Id, ReadMessage(s)
    PROVE  IInv'
<1> DEFINE f == Call("receive", s)
           h == ReadData(tcp[s])
<1>1. /\ Alive /\ stack = <<>> /\ proc' \in {"running", "crashed"}
      /\ tcp[s].pending /\ tcp[s].reading
      /\ tcp' = [tcp EXCEPT ![s] = h]
      /\ stack' = <<f>>
      /\ UNCHANGED <<lastid, mem, m_sessions, linked, peer, m_shutdown, opened, closed, stale, lost>>
    BY DEF ReadMessage, ReadCompletes, Touch, InLoop, Alive
<1>2. TypeOK /\ StackShape /\ IdsKnown /\ RegistrySound /\ NoSessionLeak
    BY DEF IInv
<1>3. /\ tcp[s] \in Handle
      /\ tcp[s].reqs \in Nat /\ tcp[s].writes \in Nat
      /\ tcp[s].reqs = tcp[s].writes + 1
      /\ tcp[s].closing => ~tcp[s].reading /\ ~tcp[s].readable
      /\ s \in m_sessions => tcp[s].readable /\ ~tcp[s].closing /\ tcp[s].reading
      /\ "new" \notin CloseOwnIn => s \in m_sessions
    BY <1>1, HandleFacts
<1>4. /\ h \in Handle
      /\ h.reqs = tcp[s].reqs /\ h.writes = tcp[s].writes /\ ~h.pending
      /\ h.reading = tcp[s].reading /\ h.readable = tcp[s].readable
      /\ h.closing = tcp[s].closing
    BY <1>3, ReadDataHandle
<1>5. f \in Frame /\ f.fn = "receive" /\ f.s = s /\ f.why = "handler"
    BY DEF Call, Frame, Id
<1>6. stack' = Append(stack, f)
    BY <1>1
<1> HIDE DEF f, h
<1>7. tcp' \in [Id -> Handle] /\ tcp'[s] = h /\ \A t \in Id \ {s} : tcp'[t] = tcp[t]
    <2>1. tcp' = [tcp EXCEPT ![s] = h]
        BY <1>1
    <2> QED BY <1>2, <1>4, <2>1, HandleUpdate, Zenon
<1>8. /\ StackShape' /\ Closing \subseteq Closing'
      /\ \A fn, t : Outer(fn, t)' <=> fn = "receive" /\ t = s
      /\ \A t : InProcess(t)' <=> t = s
    <2>1. /\ StackShape' /\ Closing \subseteq Closing'
          /\ \A fn, t : Outer(fn, t)' <=> IF stack = <<>> THEN f.fn = fn /\ f.s = t
                                                          ELSE Outer(fn, t)
          /\ \A t : InProcess(t)' <=>
                IF stack = <<>>
                THEN f.s = t /\ (f.fn = "receive" \/ (f.fn = "close" /\ f.why # "handler"))
                ELSE InProcess(t)
        BY <1>1, <1>2, <1>5, <1>6, PushShape
    <2> QED BY <1>1, <1>5, <2>1
<1>9. TypeOK'
    <2>1. stack' \in Seq(Frame)
        BY <1>2, <1>5, <1>6, PushFacts
    <2> QED BY <1>1, <1>2, <1>7, <2>1 DEF TypeOK
<1>10. IdsKnown' /\ RegistrySound'
    BY <1>1, <1>2 DEF IdsKnown, RegistrySound
<1>11. NoSessionLeak'
    BY <1>1, <1>2, <1>8 DEF NoSessionLeak, Alive
<1>12. SessionSound(s)'
    <2>1. HandleSound(s)'
        <3>1. h.reqs = h.writes + 1 /\ h.writes \in Nat
            BY <1>3, <1>4
        <3>2. /\ ~h.pending /\ InProcess(s)' /\ tcp'[s] = h
              /\ h.closing => ~h.reading /\ ~h.readable
            BY <1>3, <1>4, <1>7, <1>8
        <3>3. h.reqs = h.writes + (IF h.pending THEN 1 ELSE 0) + (IF InProcess(s)' THEN 1 ELSE 0)
            BY <3>1, <3>2
        <3> QED BY <3>2, <3>3, Zenon DEF HandleSound
    <2>2. s \in m_sessions' => Heard(s)'
        <3>1. ~Outer("new", s)' /\ InProcess(s)'
            BY <1>8
        <3>2. s \in m_sessions' => tcp'[s].readable /\ ~tcp'[s].closing /\ tcp'[s].reading
            BY <1>1, <1>3, <1>4, <1>7, Zenon
        <3> QED BY <3>1, <3>2 DEF Heard
    <2>3. "new" \notin CloseOwnIn => Forgotten(s)'
        BY <1>1, <1>3 DEF Forgotten
    <2>4. WritesWithin(s)'
        <3>1. h \in Handle /\ h.writes <= tcp[s].writes
            BY <1>3, <1>4
        <3> QED BY <1>1, <1>7, <3>1, StillWithin, Zenon
    <2> QED BY <2>1, <2>2, <2>3, <2>4 DEF SessionSound
<1>13. \A fn, t : ~Outer(fn, t) /\ ~InProcess(t)
    BY <1>1 DEF Outer, InProcess
<1>14. \A t \in Id : t # s => Untouched(t)
    BY <1>1, <1>7, <1>8, <1>13 DEF Untouched
<1> QED
    <2>1. Alive
        BY <1>1
    <2> QED BY <1>8, <1>9, <1>10, <1>11, <1>12, <1>14, <2>1, StackStep

(* uv_run has returned: update runs. *)
LEMMA UpdateIInv ==
    ASSUME IInv, Update
    PROVE  IInv'
<1> DEFINE f == Call("update", 0)
<1>1. /\ Alive /\ stack = <<>> /\ stack' = Append(stack, f)
      /\ UNCHANGED <<lastid, mem, m_sessions, tcp, linked, peer, m_shutdown, proc, opened, closed, stale, lost>>
    BY DEF Update, InLoop, Alive
<1>2. TypeOK /\ StackShape /\ IdsKnown /\ RegistrySound /\ NoSessionLeak
    BY DEF IInv
<1>3. f \in Frame /\ f.fn = "update" /\ f.why = "handler"
    BY ServiceAssumption DEF Call, Frame
<1> HIDE DEF f
<1>4. /\ StackShape' /\ Closing \subseteq Closing'
      /\ \A fn, t : Outer(fn, t)' => fn = "update"
      /\ \A t : ~InProcess(t)'
    BY <1>1, <1>2, <1>3, PushShape
<1>5. TypeOK'
    <2>1. stack' \in Seq(Frame)
        BY <1>1, <1>2, <1>3, PushFacts
    <2> QED BY <1>1, <1>2, <2>1 DEF TypeOK
<1>6. IdsKnown' /\ RegistrySound'
    BY <1>1, <1>2 DEF IdsKnown, RegistrySound, Alive
<1>7. NoSessionLeak'
    BY <1>1, <1>2, <1>4 DEF NoSessionLeak, Alive
<1>8. \A fn, t : ~Outer(fn, t) /\ ~InProcess(t)
    BY <1>1 DEF Outer, InProcess
<1>9. \A t \in Id : t # 0 => Untouched(t)
    BY <1>1, <1>4, <1>8 DEF Untouched
<1> QED
    <2>1. Alive /\ 0 \notin Id
        BY <1>1 DEF Id
    <2> QED BY <1>4, <1>5, <1>6, <1>7, <1>9, <2>1, StackStep

(***************************************************************************)
(* closesession, called by the handler or, when no callback is in          *)
(* progress, by the read callback, whose request is then in process.       *)
(***************************************************************************)
LEMMA CloseSessionIInv ==
    ASSUME IInv, Alive, NEW s \in Id, s \in m_sessions,
           NEW why \in {"handler", "eof", "reset", "fail"}, NEW h \in Handle,
           closesession(s, why, h),
           UNCHANGED <<lastid, mem, linked, peer, m_shutdown, opened, stale, lost>>,
           proc' \in {"running", "crashed"},
           stack # <<>> => why = "handler" /\ h = tcp[s],
           stack = <<>> => /\ why # "handler" /\ tcp[s].pending
                           /\ h.reqs = tcp[s].reqs /\ h.writes = tcp[s].writes
                           /\ ~h.pending /\ ~h.reading
                           /\ h.readable => tcp[s].readable
                           /\ h.closing = tcp[s].closing,
           "new" \notin CloseOwnIn => ~Outer("new", s)
    PROVE  IInv'
<1> DEFINE f == [fn |-> "close", s |-> s, why |-> why]
           c == session_close(h)
<1>1. /\ m_sessions' = m_sessions \ {s}
      /\ closed' = closed \cup {s}
      /\ stack' = Append(stack, f)
    BY DEF closesession
<1>2. TypeOK /\ StackShape /\ IdsKnown /\ RegistrySound /\ NoSessionLeak
    BY DEF IInv
<1>3. /\ tcp[s] \in Handle /\ SessionSound(s)
      /\ tcp[s].reqs \in Nat /\ tcp[s].writes \in Nat /\ tcp[s].pending \in BOOLEAN
    BY HandleFacts
<1>4. f \in Frame /\ f.fn = "close" /\ f.s = s /\ f.why = why
    BY DEF Frame, Id
<1>5. /\ c \in Handle
      /\ c.reqs = h.reqs /\ c.writes = h.writes /\ c.pending = h.pending
      /\ c.readable => h.readable
      /\ (h.closing => ~h.reading /\ ~h.readable) => ~c.reading /\ (c.closing => ~c.readable)
      /\ h.reading /\ ~h.closing => ~c.readable
    BY SessionCloseHandle
<1>6. tcp' \in [Id -> Handle] /\ tcp'[s] = c /\ \A t \in Id \ {s} : tcp'[t] = tcp[t]
    <2>1. tcp' = [tcp EXCEPT ![s] = c]
        BY DEF closesession
    <2> HIDE DEF c
    <2> QED BY <1>2, <1>5, <2>1, HandleUpdate, Zenon
<1> HIDE DEF f, c
<1>7. /\ StackShape' /\ Closing \subseteq Closing' /\ s \in Closing'
      /\ \A fn, t : Outer(fn, t)' <=> IF stack = <<>> THEN f.fn = fn /\ f.s = t
                                                      ELSE Outer(fn, t)
      /\ \A t : InProcess(t)' <=>
            IF stack = <<>>
            THEN f.s = t /\ (f.fn = "receive" \/ (f.fn = "close" /\ f.why # "handler"))
            ELSE InProcess(t)
    <2>1. /\ closed \subseteq closed' /\ f.s \in closed'
          /\ stack # <<>> => f.why = "handler"
        BY <1>1, <1>4
    <2> QED BY <1>1, <1>2, <1>4, <2>1, PushShape
<1>8. TypeOK'
    <2>1. stack' \in Seq(Frame)
        BY <1>1, <1>2, <1>4, PushFacts
    <2> QED BY <1>1, <1>2, <1>6, <2>1 DEF TypeOK
<1>9. IdsKnown' /\ RegistrySound'
    BY <1>1, <1>2, Zenon DEF IdsKnown, RegistrySound
<1>10. NoSessionLeak'
    BY <1>1, <1>2, <1>7 DEF NoSessionLeak, Alive
<1>11. Heard(s) /\ HandleSound(s)
    BY <1>3, Zenon DEF SessionSound
<1>12. h.closing => ~h.reading /\ ~h.readable
    BY <1>11, Zenon DEF HandleSound
<1>13. ~c.reading /\ (c.closing => ~c.readable)
    BY <1>5, <1>12
<1>14. HandleSound(s)'
    <2>1. CASE stack = <<>>
        <3>1. ~InProcess(s) /\ InProcess(s)'
            BY <1>4, <1>7, <2>1 DEF InProcess, Outer
        <3>2. tcp[s].reqs = tcp[s].writes + 1
            <4>1. tcp[s].reqs = tcp[s].writes + (IF tcp[s].pending THEN 1 ELSE 0)
                                              + (IF InProcess(s) THEN 1 ELSE 0)
                BY <1>11, Zenon DEF HandleSound
            <4>2. tcp[s].pending /\ tcp[s].writes \in Nat
                BY <1>3, <2>1
            <4> QED BY <3>1, <4>1, <4>2
        <3>3. c.reqs = c.writes + 1 /\ ~c.pending /\ c.writes \in Nat
            BY <1>3, <1>5, <2>1, <3>2
        <3>4. /\ c.reqs = c.writes + (IF c.pending THEN 1 ELSE 0)
                                  + (IF InProcess(s)' THEN 1 ELSE 0)
              /\ c.closing => ~c.reading /\ ~c.readable
            BY <1>13, <3>1, <3>3
        <3> QED BY <1>6, <3>4, Zenon DEF HandleSound
    <2>2. CASE stack # <<>>
        <3>1. InProcess(s)' <=> InProcess(s)
            BY <1>7, <2>2
        <3> QED BY <1>5, <1>6, <1>11, <1>13, <2>2, <3>1 DEF HandleSound
    <2> QED BY <2>1, <2>2
<1>15. "new" \notin CloseOwnIn => Forgotten(s)'
    <2> SUFFICES ASSUME "new" \notin CloseOwnIn PROVE Forgotten(s)'
        OBVIOUS
    <2>1. ~Outer("new", s)'
        BY <1>4, <1>7
    <2>2. Outer("receive", s)' => ~tcp'[s].readable
        <3>1. Outer("receive", s)' => stack # <<>> /\ Outer("receive", s)
            BY <1>4, <1>7
        <3>2. Outer("receive", s) => tcp[s].reading /\ ~tcp[s].closing
            BY <1>11 DEF Heard, Outer
        <3> QED BY <1>5, <1>6, <3>1, <3>2
    <2> QED BY <1>6, <1>13, <2>1, <2>2 DEF Forgotten
<1>16. SessionSound(s)'
    <2>1. c.writes = tcp[s].writes
        BY <1>5
    <2>2. WritesWithin(s)'
        <3>1. c \in Handle /\ c.writes <= tcp[s].writes
            BY <1>3, <1>5, <2>1
        <3> QED BY <1>6, <3>1, StillWithin, Zenon
    <2> QED BY <1>1, <1>14, <1>15, <2>2 DEF SessionSound
<1>17. \A t \in Id : t # s => Untouched(t)
    <2>1. stack = <<>> => \A fn, t : ~Outer(fn, t) /\ ~InProcess(t)
        BY DEF Outer, InProcess
    <2> QED BY <1>1, <1>4, <1>6, <1>7, <2>1 DEF Untouched
<1> QED BY <1>7, <1>8, <1>9, <1>10, <1>16, <1>17, StackStep

(* The handler closes a session from within a callback. *)
LEMMA HandlerClosesIInv ==
    ASSUME IInv, NEW s \in Id, HandlerCloses(s)
    PROVE  IInv'
<1>1. /\ Alive /\ stack # <<>> /\ s \in m_sessions /\ proc' \in {"running", "crashed"}
      /\ closesession(s, "handler", tcp[s])
      /\ UNCHANGED <<lastid, mem, linked, peer, m_shutdown, opened, stale, lost>>
    BY DEF HandlerCloses, InHandler, Alive
<1>2. tcp[s] \in Handle
    BY DEF IInv, TypeOK
<1>3. "new" \notin CloseOwnIn => ~Outer("new", s)
    <2>1. 1 \in 1 .. Len(stack)
        BY <1>1, StackFacts DEF IInv
    <2> QED BY <2>1 DEF HandlerCloses, MayClose, Outer
<1> QED BY <1>1, <1>2, <1>3, CloseSessionIInv

(* The read callback closes a session of the map. *)
LEMMA ReadEndsKnownIInv ==
    ASSUME IInv, NEW s \in Id, ReadEnds(s), s \in m_sessions
    PROVE  IInv'
<1> DEFINE h == IF peer[s] = "eof" THEN ReadEof(tcp[s]) ELSE ReadError(tcp[s])
<1>1. /\ Alive /\ stack = <<>> /\ tcp[s].pending /\ peer[s] # "open"
      /\ proc' \in {"running", "crashed"}
      /\ closesession(s, peer[s], h)
      /\ UNCHANGED <<lastid, mem, linked, peer, m_shutdown, opened, stale, lost>>
    BY DEF ReadEnds, ReadCompletes, InLoop, Alive, Uninitialised
<1>2. tcp[s] \in Handle /\ peer[s] \in {"handler", "eof", "reset", "fail"} /\ peer[s] # "handler"
    BY <1>1 DEF IInv, TypeOK
<1>3. /\ h \in Handle
      /\ h.reqs = tcp[s].reqs /\ h.writes = tcp[s].writes /\ ~h.pending /\ ~h.reading
      /\ h.readable => tcp[s].readable
      /\ h.closing = tcp[s].closing
    BY <1>2, ReadEndHandle
<1>4. ~Outer("new", s)
    BY <1>1 DEF Outer
<1> HIDE DEF h
<1> QED BY <1>1, <1>2, <1>3, <1>4, CloseSessionIInv

(* A callback of libuv or of run() returns to the loop. *)
LEMMA LastFrame ==
    ASSUME IInv, stack # <<>>, stack' = Pop, UNCHANGED closed, Top.fn # "close"
    PROVE  /\ StackShape' /\ stack' = <<>> /\ stack' \in Seq(Frame)
           /\ Closing = {}
           /\ Top.fn # "update" => Top.s \in Id
           /\ \A fn, t : Outer(fn, t) <=> Top.fn = fn /\ Top.s = t
           /\ \A t : InProcess(t) <=> Top.fn = "receive" /\ Top.s = t
           /\ \A fn, t : ~Outer(fn, t)' /\ ~InProcess(t)'
<1>1. /\ StackShape' /\ stack' \in Seq(Frame)
      /\ Len(stack) \in Nat /\ Len(stack) >= 1
      /\ Len(stack) = 1 => stack' = <<>> /\ Top = stack[1]
      /\ Len(stack) > 1 => Top.fn = "close"
      /\ Top.fn # "update" => Top.s \in Id
    BY PopShape DEF IInv
<1>2. Len(stack) = 1 /\ stack' = <<>> /\ Top = stack[1]
    <2>1. ~(Len(stack) > 1)
        BY <1>1, Zenon
    <2>2. Len(stack) \in Nat /\ Len(stack) >= 1
        BY <1>1, Zenon
    <2>3. Len(stack) = 1
        BY <2>1, <2>2
    <2> QED BY <1>1, <2>3, Zenon
<1>3. /\ \A fn, t : Outer(fn, t) <=> Top.fn = fn /\ Top.s = t
      /\ \A t : InProcess(t) <=> Top.fn = "receive" /\ Top.s = t
    BY <1>2 DEF Outer, InProcess
<1>4. \A fn, t : ~Outer(fn, t)' /\ ~InProcess(t)'
    BY <1>2 DEF Outer, InProcess
<1>5. Closing = {}
    BY <1>2 DEF Closing
<1> QED BY <1>1, <1>2, <1>3, <1>4, <1>5

(* on_newsession has returned: the reading starts. *)
LEMMA ReturnNewIInv ==
    ASSUME IInv, ReturnNew
    PROVE  IInv'
<1>1. /\ Alive /\ stack # <<>> /\ Top.fn = "new" /\ stack' = Pop
      /\ proc' \in {"running", "crashed", "on_accept"}
      /\ UNCHANGED <<lastid, mem, m_sessions, linked, peer, m_shutdown, opened, closed, stale, lost>>
    BY DEF ReturnNew, Returning, InHandler, Alive, Uninitialised
<1>2. TypeOK /\ StackShape /\ IdsKnown /\ RegistrySound /\ NoSessionLeak
    BY DEF IInv
<1>3. /\ StackShape' /\ stack' = <<>> /\ stack' \in Seq(Frame) /\ Closing = {}
      /\ Top.s \in Id
      /\ \A fn, t : Outer(fn, t) <=> Top.fn = fn /\ Top.s = t
      /\ \A t : InProcess(t) <=> Top.fn = "receive" /\ Top.s = t
      /\ \A fn, t : ~Outer(fn, t)' /\ ~InProcess(t)'
    BY <1>1, LastFrame
<1>4. PICK s \in Id : s = Top.s
    BY <1>3
<1> DEFINE h == tcp[s]
           r == uv_read_start(h)
<1>5. /\ Outer("new", s) /\ ~Outer("receive", s) /\ ~InProcess(s)
      /\ \A t : t # s => ~Outer("new", t) /\ ~Outer("receive", t) /\ ~InProcess(t)
    BY <1>1, <1>3, <1>4
<1>6. /\ h \in Handle /\ SessionSound(s)
      /\ h.reqs \in Nat /\ h.writes \in Nat /\ h.pending \in BOOLEAN
    BY <1>1, HandleFacts
<1>7. /\ r \in Handle
      /\ r.writes = h.writes
      /\ r.reqs + (IF h.pending THEN 1 ELSE 0) = h.reqs + (IF r.pending THEN 1 ELSE 0)
      /\ r.readable = h.readable /\ r.closing = h.closing
      /\ r.reading <=> h.reading \/ h.readable
      /\ ~h.reading /\ h.readable => r.pending
    BY <1>6, ReadStartHandle
<1>8. /\ ReadStartResult(h) = "ok" <=> ~h.reading /\ h.readable
      /\ ReadStartResult(h) # "ok" => proc' = "on_accept" /\ tcp' = tcp
      /\ ReadStartResult(h) = "ok" => tcp' = [tcp EXCEPT ![s] = r]
    BY <1>4 DEF ReturnNew, ReadStartResult
<1> HIDE DEF r
<1>9. /\ tcp' \in [Id -> Handle] /\ \A t \in Id \ {s} : tcp'[t] = tcp[t]
      /\ ReadStartResult(h) = "ok" => tcp'[s] = r
    <2>1. CASE ReadStartResult(h) = "ok"
        BY <1>2, <1>7, <1>8, <2>1, HandleUpdate
    <2>2. CASE ReadStartResult(h) # "ok"
        BY <1>2, <1>8, <2>2 DEF TypeOK
    <2> QED BY <2>1, <2>2
<1>10. TypeOK'
    BY <1>1, <1>2, <1>3, <1>9 DEF TypeOK, Asserts
<1>11. IdsKnown' /\ RegistrySound'
    BY <1>1, <1>2 DEF IdsKnown, RegistrySound
<1>12. NoSessionLeak'
    BY <1>1, <1>2, <1>3, Zenon DEF NoSessionLeak, Alive
<1>13. Alive' => SessionSound(s)'
    <2> SUFFICES ASSUME Alive' PROVE SessionSound(s)'
        OBVIOUS
    <2>1. ReadStartResult(h) = "ok"
        BY <1>8 DEF Alive
    <2>2. ~h.reading /\ h.readable /\ tcp'[s] = r
        BY <1>8, <1>9, <2>1
    <2>3. /\ h.reqs = h.writes + (IF h.pending THEN 1 ELSE 0)
          /\ ~h.closing
        <3> DEFINE x == IF h.pending THEN 1 ELSE 0
        <3>1. /\ h.reqs = h.writes + x + (IF InProcess(s) THEN 1 ELSE 0)
              /\ h.closing => ~h.reading /\ ~h.readable
            BY <1>6, Zenon DEF SessionSound, HandleSound
        <3>2. x \in Nat /\ h.writes \in Nat
            BY <1>6
        <3> HIDE DEF x
        <3>3. h.reqs = h.writes + x
            BY <1>5, <3>1, <3>2
        <3> QED BY <2>2, <3>1, <3>3 DEF x
    <2>4. r.reading /\ r.pending /\ r.readable /\ ~r.closing
        BY <1>7, <2>2, <2>3
    <2>5. r.reqs = r.writes + 1
        <3>1. r.reqs \in Nat /\ r.writes \in Nat
            BY <1>7 DEF Handle
        <3> QED BY <1>6, <1>7, <2>3, <2>4, <3>1
    <2>6. ~Outer("new", s)' /\ ~Outer("receive", s)' /\ ~InProcess(s)'
        BY <1>3
    <2>7. HandleSound(s)' /\ Heard(s)'
        <3>1. r.writes \in Nat
            BY <1>7 DEF Handle
        <3> QED BY <2>2, <2>4, <2>5, <2>6, <3>1 DEF HandleSound, Heard
    <2>8. "new" \notin CloseOwnIn => Forgotten(s)'
        BY <1>1, <1>5, <1>6, <2>6, Zenon DEF SessionSound, Forgotten
    <2>9. WritesWithin(s)'
        <3>1. tcp'[s] \in Handle /\ tcp'[s].writes = tcp[s].writes /\ tcp[s].writes \in Nat
            BY <1>6, <1>7, <2>2, Zenon
        <3>2. tcp'[s].writes <= tcp[s].writes
            BY <3>1
        <3> QED BY <1>1, <3>1, <3>2, StillWithin, Zenon
    <2> QED BY <2>7, <2>8, <2>9 DEF SessionSound
<1>14. \A t \in Id : t # s => Untouched(t)
    BY <1>1, <1>3, <1>5, <1>9 DEF Untouched
<1> QED BY <1>1, <1>3, <1>10, <1>11, <1>12, <1>13, <1>14, StackStep

(* on_tcpreceive has returned: libuv reads on, unless the handler closed the session. *)
LEMMA ReturnReceiveIInv ==
    ASSUME IInv, ReturnReceive
    PROVE  IInv'
<1>1. /\ Alive /\ stack # <<>> /\ Top.fn = "receive" /\ stack' = Pop
      /\ proc' \in {"running", "crashed"}
      /\ UNCHANGED <<lastid, mem, m_sessions, linked, peer, m_shutdown, opened, closed, stale, lost>>
    BY DEF ReturnReceive, Returning, InHandler, Alive, Uninitialised
<1>2. TypeOK /\ StackShape /\ IdsKnown /\ RegistrySound /\ NoSessionLeak
    BY DEF IInv
<1>3. /\ StackShape' /\ stack' = <<>> /\ stack' \in Seq(Frame) /\ Closing = {}
      /\ Top.s \in Id
      /\ \A fn, t : Outer(fn, t) <=> Top.fn = fn /\ Top.s = t
      /\ \A t : InProcess(t) <=> Top.fn = "receive" /\ Top.s = t
      /\ \A fn, t : ~Outer(fn, t)' /\ ~InProcess(t)'
    BY <1>1, LastFrame
<1>4. PICK s \in Id : s = Top.s
    BY <1>3
<1> DEFINE h == tcp[s]
           r == uv_read_start(h)
           a == AfterRead(r)
<1>5. /\ Outer("receive", s) /\ ~Outer("new", s) /\ InProcess(s)
      /\ \A t : t # s => ~Outer("new", t) /\ ~Outer("receive", t) /\ ~InProcess(t)
    BY <1>1, <1>3, <1>4
<1>6. /\ h \in Handle /\ SessionSound(s)
      /\ h.reqs \in Nat /\ h.writes \in Nat /\ h.pending \in BOOLEAN
    BY <1>1, HandleFacts
<1>7. /\ h.reqs = h.writes + (IF h.pending THEN 1 ELSE 0) + 1
      /\ h.closing => ~h.reading /\ ~h.readable
      /\ s \in m_sessions => h.readable /\ ~h.closing /\ h.reading
      /\ "new" \notin CloseOwnIn /\ (h.reading \/ h.readable) => s \in m_sessions
    <2>1. HandleSound(s) /\ (s \in m_sessions => Heard(s)) /\ ("new" \notin CloseOwnIn => Forgotten(s))
        BY <1>6 DEF SessionSound
    <2> QED BY <1>5, <2>1 DEF HandleSound, Heard, Forgotten
<1>8. /\ r \in Handle
      /\ r.writes = h.writes
      /\ r.reqs + (IF h.pending THEN 1 ELSE 0) = h.reqs + (IF r.pending THEN 1 ELSE 0)
      /\ r.readable = h.readable /\ r.closing = h.closing
      /\ r.reading <=> h.reading \/ h.readable
      /\ h.reading => r = h
    BY <1>6, ReadStartHandle
<1> HIDE DEF r
<1>9. r.reqs \in Nat /\ r.writes \in Nat /\ r.pending \in BOOLEAN
    BY <1>8 DEF Handle
<1>10. r.reqs = r.writes + (IF r.pending THEN 1 ELSE 0) + 1
    <2> DEFINE x == IF h.pending THEN 1 ELSE 0
               y == IF r.pending THEN 1 ELSE 0
    <2>1. h.reqs = h.writes + x + 1 /\ r.reqs + x = h.reqs + y /\ r.writes = h.writes
        BY <1>7, <1>8
    <2>2. x \in Nat /\ y \in Nat
        OBVIOUS
    <2> HIDE DEF x, y
    <2>3. r.reqs = r.writes + y + 1
        BY <1>6, <1>9, <2>1, <2>2
    <2> QED BY <2>3 DEF y
<1>11. r.reqs > 0
    BY <1>9, <1>10
<1>12. /\ a \in Handle
       /\ a.writes = r.writes
       /\ a.reqs + (IF r.pending THEN 1 ELSE 0) + 1 = r.reqs + (IF a.pending THEN 1 ELSE 0)
       /\ a.pending <=> r.pending \/ r.reading
       /\ a.reading = r.reading /\ a.readable = r.readable /\ a.closing = r.closing
    BY <1>8, <1>11, AfterReadHandle
<1>13. tcp' \in [Id -> Handle] /\ tcp'[s] = a /\ \A t \in Id \ {s} : tcp'[t] = tcp[t]
    <2>1. tcp' = [tcp EXCEPT ![s] = a]
        BY <1>4 DEF ReturnReceive, r
    <2> HIDE DEF a
    <2> QED BY <1>2, <1>12, <2>1, HandleUpdate, Zenon
<1> HIDE DEF a
<1>14. TypeOK'
    BY <1>1, <1>2, <1>3, <1>13 DEF TypeOK, Asserts
<1>15. IdsKnown' /\ RegistrySound'
    BY <1>1, <1>2 DEF IdsKnown, RegistrySound
<1>16. NoSessionLeak'
    BY <1>1, <1>2, <1>3, Zenon DEF NoSessionLeak, Alive
<1>17. SessionSound(s)'
    <2>1. a.reqs = a.writes + (IF a.pending THEN 1 ELSE 0)
        <3>1. a.reqs \in Nat /\ a.writes \in Nat /\ a.pending \in BOOLEAN
            BY <1>12 DEF Handle
        <3> DEFINE x == IF r.pending THEN 1 ELSE 0
                   y == IF a.pending THEN 1 ELSE 0
        <3>2. r.reqs = r.writes + x + 1 /\ a.reqs + x + 1 = r.reqs + y /\ a.writes = r.writes
            BY <1>10, <1>12
        <3>3. x \in Nat /\ y \in Nat
            OBVIOUS
        <3> HIDE DEF x, y
        <3>4. a.reqs = a.writes + y
            BY <1>9, <3>1, <3>2, <3>3
        <3> QED BY <3>4 DEF y
    <2>2. /\ a.closing => ~a.reading /\ ~a.readable
          /\ s \in m_sessions => a.readable /\ ~a.closing /\ a.reading /\ a.pending
          /\ "new" \notin CloseOwnIn /\ a.reading => s \in m_sessions
        BY <1>7, <1>8, <1>12
    <2>3. ~Outer("new", s)' /\ ~Outer("receive", s)' /\ ~InProcess(s)'
        BY <1>3
    <2>4. HandleSound(s)'
        <3> DEFINE y == IF a.pending THEN 1 ELSE 0
        <3>1. a.writes \in Nat /\ y \in Nat /\ a.reqs = a.writes + y
            BY <1>12, <2>1 DEF Handle
        <3> HIDE DEF y
        <3>2. a.reqs = a.writes + y + (IF InProcess(s)' THEN 1 ELSE 0)
            BY <2>3, <3>1
        <3> QED BY <1>13, <2>2, <3>2, Zenon DEF HandleSound, y
    <2>5. s \in m_sessions' => Heard(s)'
        BY <1>1, <1>13, <2>2, <2>3 DEF Heard
    <2>6. "new" \notin CloseOwnIn => Forgotten(s)'
        BY <1>1, <1>13, <2>2, <2>3 DEF Forgotten
    <2>7. WritesWithin(s)'
        <3>1. a \in Handle /\ a.writes = tcp[s].writes /\ tcp[s].writes \in Nat
            <4>1. a \in Handle /\ a.writes = r.writes
                BY <1>12
            <4>2. r.writes = h.writes
                BY <1>8
            <4>3. h.writes \in Nat
                BY <1>6
            <4> QED BY <4>1, <4>2, <4>3, Zenon
        <3>2. a.writes <= tcp[s].writes
            BY <3>1
        <3> QED BY <1>1, <1>13, <3>1, <3>2, StillWithin, Zenon
    <2> QED BY <2>4, <2>5, <2>6, <2>7 DEF SessionSound
<1>18. \A t \in Id : t # s => Untouched(t)
    BY <1>1, <1>3, <1>5, <1>13, Zenon DEF Untouched
<1> QED BY <1>1, <1>3, <1>14, <1>15, <1>16, <1>17, <1>18, StackStep

(* on_closesession has returned: the session is deleted. *)
LEMMA ReturnCloseIInv ==
    ASSUME IInv, ReturnClose
    PROVE  IInv'
<1>1. /\ Alive /\ stack # <<>> /\ Top.fn = "close" /\ stack' = Pop
      /\ mem' = [mem EXCEPT ![Top.s] = "freed"]
      /\ stale' = stale \ {Top.s}
      /\ proc' \in {"running", "crashed", "on_receive"}
      /\ Top.why = "fail" => ~Alive'
      /\ UNCHANGED <<lastid, m_sessions, linked, peer, m_shutdown, opened, closed, lost>>
    BY DEF ReturnClose, Returning, InHandler, Alive, Uninitialised
<1>2. TypeOK /\ StackShape /\ IdsKnown /\ RegistrySound /\ NoSessionLeak
    BY DEF IInv
<1>3. /\ StackShape' /\ stack' \in Seq(Frame)
      /\ \A t \in Closing : t \in Closing' \/ t = Top.s
      /\ Len(stack) \in Nat /\ Len(stack) >= 1
      /\ Len(stack) = 1 => stack' = <<>> /\ Top = stack[1]
      /\ Len(stack) > 1 => /\ Top.why = "handler"
                           /\ \A fn, t : Outer(fn, t)' <=> Outer(fn, t)
                           /\ \A t : InProcess(t)' <=> InProcess(t)
      /\ Top.s \in closed /\ Top.s \in Id
    BY <1>1, <1>2, PopShape
<1>depth. Len(stack) = 1 \/ Len(stack) > 1
    <2>1. Len(stack) \in Nat /\ Len(stack) >= 1
        BY <1>3, Zenon
    <2>2. \A d \in Nat : d >= 1 => d = 1 \/ d > 1
        OBVIOUS
    <2> QED BY <2>1, <2>2, Zenon
<1>4. PICK s \in Id : s = Top.s
    BY <1>3
<1>5. s \notin m_sessions
    BY <1>1, <1>2, <1>3, <1>4 DEF RegistrySound
<1> DEFINE w == Top.why
           h == tcp[s]
           c == session_close(h)
           n == IF w \in {"eof", "reset"} THEN AfterRead(c) ELSE c
<1>6. /\ h \in Handle /\ SessionSound(s)
      /\ h.reqs \in Nat /\ h.writes \in Nat /\ h.pending \in BOOLEAN
    BY <1>1, HandleFacts
<1>7. HandleSound(s) /\ ("new" \notin CloseOwnIn => Forgotten(s))
    BY <1>6 DEF SessionSound
<1>8. h.closing => ~h.reading /\ ~h.readable
    BY <1>7 DEF HandleSound
<1>9. /\ c \in Handle
      /\ c.reqs = h.reqs /\ c.writes = h.writes /\ c.pending = h.pending
      /\ c.readable => h.readable
      /\ ~c.reading /\ (c.closing => ~c.readable)
    BY <1>6, <1>8, SessionCloseHandle
<1> HIDE DEF c
<1>10. w \in {"eof", "reset"} => Len(stack) = 1 /\ InProcess(s)
    <2> SUFFICES ASSUME w \in {"eof", "reset"} PROVE Len(stack) = 1 /\ InProcess(s)
        OBVIOUS
    <2>1. ~(Len(stack) > 1)
        BY <1>3, Zenon
    <2>2. Len(stack) = 1
        BY <1>depth, <2>1
    <2>3. stack[1] = Top
        BY <1>3, <2>2, Zenon
    <2> QED BY <1>1, <1>4, <2>2, <2>3 DEF InProcess, Outer
<1> DEFINE x == IF h.pending THEN 1 ELSE 0
<1>sum. /\ h.reqs = h.writes + x + (IF InProcess(s) THEN 1 ELSE 0)
        /\ x \in Nat
    <2>1. h.reqs = h.writes + x + (IF InProcess(s) THEN 1 ELSE 0)
        BY <1>7, Zenon DEF HandleSound
    <2> QED BY <2>1
<1> HIDE DEF x
<1>11. w \in {"eof", "reset"} => c.reqs > 0
    BY <1>6, <1>9, <1>10, <1>sum
<1>12. /\ n \in Handle /\ n.writes = c.writes
       /\ n.reading = c.reading /\ n.readable = c.readable /\ n.closing = c.closing
       /\ n.pending <=> c.pending
       /\ n.reqs + (IF w \in {"eof", "reset"} THEN 1 ELSE 0) = c.reqs
    <2>1. CASE w \in {"eof", "reset"}
        <3> DEFINE a == AfterRead(c)
        <3>1. c.reqs > 0
            BY <1>11, <2>1
        <3>2. /\ a \in Handle
              /\ a.writes = c.writes
              /\ a.reqs + (IF c.pending THEN 1 ELSE 0) + 1 = c.reqs + (IF a.pending THEN 1 ELSE 0)
              /\ a.pending <=> c.pending \/ c.reading
              /\ a.reading = c.reading /\ a.readable = c.readable /\ a.closing = c.closing
            BY <1>9, <3>1, AfterReadHandle
        <3>3. n = a
            BY <2>1
        <3> HIDE DEF a, n
        <3>4. a.pending <=> c.pending
            BY <1>9, <3>2
        <3>5. a.reqs \in Nat /\ c.reqs \in Nat
            BY <1>9, <3>2 DEF Handle
        <3>6. a.reqs + 1 = c.reqs
            BY <3>2, <3>4, <3>5
        <3> QED BY <2>1, <3>2, <3>3, <3>4, <3>6
    <2>2. CASE w \notin {"eof", "reset"}
        <3>1. n = c
            BY <2>2
        <3>2. c.reqs \in Nat
            BY <1>9 DEF Handle
        <3> HIDE DEF n, w
        <3> QED BY <1>9, <2>2, <3>1, <3>2
    <2> QED BY <2>1, <2>2
<1>13. tcp' \in [Id -> Handle] /\ tcp'[s] = n /\ \A t \in Id \ {s} : tcp'[t] = tcp[t]
    <2>1. tcp' = [tcp EXCEPT ![s] = n]
        BY <1>4 DEF ReturnClose, c
    <2> HIDE DEF n
    <2> QED BY <1>2, <1>12, <2>1, HandleUpdate, Zenon
<1> HIDE DEF n
<1>14. TypeOK'
    BY <1>1, <1>2, <1>3, <1>13 DEF TypeOK, Asserts
<1>15. IdsKnown'
    BY <1>1, <1>2 DEF IdsKnown
<1>16. RegistrySound'
    BY <1>1, <1>2, <1>4, <1>5 DEF RegistrySound, TypeOK
<1>17. NoSessionLeak'
    BY <1>1, <1>2, <1>3, <1>4 DEF NoSessionLeak, TypeOK
<1>18. Alive' => SessionSound(s)'
    <2> SUFFICES ASSUME Alive' PROVE SessionSound(s)'
        OBVIOUS
    <2>1. w # "fail"
        BY <1>1
    <2>2. n.reqs = n.writes + (IF n.pending THEN 1 ELSE 0) + (IF InProcess(s)' THEN 1 ELSE 0)
        <3>1. n.reqs \in Nat /\ n.writes \in Nat /\ n.pending \in BOOLEAN
            BY <1>12 DEF Handle
        <3>2. CASE w \in {"eof", "reset"}
            <4>1. ~InProcess(s)' /\ InProcess(s)
                BY <1>3, <1>10, <3>2 DEF InProcess, Outer
            <4>2. n.reqs + 1 = h.reqs /\ n.writes = h.writes /\ (n.pending <=> h.pending)
                BY <1>9, <1>12, <3>2
            <4>3. n.reqs = n.writes + x
                BY <1>6, <1>sum, <3>1, <4>1, <4>2
            <4> QED BY <1>sum, <3>1, <4>1, <4>2, <4>3 DEF x
        <3>3. CASE w \notin {"eof", "reset"}
            <4>1. InProcess(s)' <=> InProcess(s)
                <5>1. CASE Len(stack) > 1
                    BY <1>3, <5>1
                <5>2. CASE Len(stack) = 1
                    <6>1. stack' = <<>> /\ stack[1] = Top
                        BY <1>3, <5>2
                    <6>2. Top.why = "handler"
                        <7>1. 1 \in 1 .. Len(stack)
                            BY <5>2
                        <7>2. stack[1].why \in {"handler", "eof", "reset", "fail"}
                            BY <1>2, <7>1, StackFacts
                        <7> QED BY <2>1, <3>3, <6>1, <7>2
                    <6> QED BY <1>1, <6>1, <6>2 DEF InProcess, Outer
                <5> QED BY <1>depth, <5>1, <5>2
            <4>2. n.reqs = h.reqs /\ n.writes = h.writes /\ (n.pending <=> h.pending)
                BY <1>6, <1>9, <1>12, <3>1, <3>3
            <4> QED BY <1>sum, <4>1, <4>2 DEF x
        <3> QED BY <3>2, <3>3
    <2>3. ~n.reading /\ (n.closing => ~n.readable)
        BY <1>9, <1>12
    <2>4. HandleSound(s)'
        BY <1>13, <2>2, <2>3 DEF HandleSound
    <2>5. ASSUME "new" \notin CloseOwnIn PROVE Forgotten(s)'
        <3>1. /\ Outer("new", s)' => Outer("new", s)
              /\ Outer("receive", s)' => Outer("receive", s)
            <4>1. CASE Len(stack) > 1
                BY <1>3, <4>1
            <4>2. CASE Len(stack) = 1
                BY <1>3, <4>2 DEF Outer
            <4> QED BY <1>depth, <4>1, <4>2
        <3>2. n.readable => h.readable
            BY <1>9, <1>12
        <3> QED BY <1>1, <1>7, <1>13, <2>3, <2>5, <3>1, <3>2 DEF Forgotten
    <2>6. WritesWithin(s)'
        <3>1. n \in Handle /\ n.writes = tcp[s].writes /\ tcp[s].writes \in Nat
            <4>1. n \in Handle /\ n.writes = c.writes
                BY <1>12
            <4>2. c.writes = h.writes
                BY <1>9
            <4>3. h.writes \in Nat
                BY <1>6
            <4> QED BY <4>1, <4>2, <4>3, Zenon
        <3>2. n.writes <= tcp[s].writes
            BY <3>1
        <3> QED BY <1>1, <1>13, <3>1, <3>2, StillWithin, Zenon
    <2> QED BY <1>1, <1>5, <2>4, <2>5, <2>6 DEF SessionSound
<1>19. \A t \in Id : t # s => Untouched(t)
    <2>1. CASE Len(stack) > 1
        BY <1>1, <1>3, <1>13, <2>1, Zenon DEF Untouched
    <2>2. CASE Len(stack) = 1
        <3>1. stack' = <<>> /\ stack[1].s = s
            BY <1>3, <1>4, <2>2
        <3> QED BY <1>1, <1>13, <3>1 DEF Untouched, Outer, InProcess
    <2> QED BY <1>depth, <2>1, <2>2
<1> QED BY <1>1, <1>3, <1>14, <1>15, <1>16, <1>17, <1>18, <1>19, StackStep

(* update has returned: the loop goes on, or the process exits. *)
LEMMA ReturnUpdateIInv ==
    ASSUME IInv, ReturnUpdate
    PROVE  IInv'
<1>1. /\ Alive /\ stack # <<>> /\ Top.fn = "update" /\ stack' = Pop
      /\ UNCHANGED <<lastid, m_sessions, tcp, linked, peer, m_shutdown, opened, closed, stale, lost>>
      /\ \/ mem' = mem /\ proc' = proc
         \/ /\ mem' = [s \in Id |-> IF s \in m_sessions THEN "freed" ELSE mem[s]]
            /\ proc' \in {"exited", "crashed"}
    BY DEF ReturnUpdate, Returning, InHandler, Alive
<1>2. TypeOK /\ StackShape /\ IdsKnown /\ RegistrySound /\ NoSessionLeak
    BY DEF IInv
<1>3. /\ StackShape' /\ stack' = <<>> /\ stack' \in Seq(Frame) /\ Closing = {}
      /\ \A fn, t : Outer(fn, t) <=> Top.fn = fn /\ Top.s = t
      /\ \A t : InProcess(t) <=> Top.fn = "receive" /\ Top.s = t
      /\ \A fn, t : ~Outer(fn, t)' /\ ~InProcess(t)'
    BY <1>1, LastFrame
<1>4. TypeOK'
    BY <1>1, <1>2, <1>3 DEF TypeOK
<1>5. IdsKnown' /\ RegistrySound'
    BY <1>1, <1>2 DEF IdsKnown, RegistrySound, Alive
<1>6. NoSessionLeak'
    BY <1>1, <1>2, <1>3 DEF NoSessionLeak, Alive, TypeOK
<1>7. \A t \in Id : t # 0 => Untouched(t)
    BY <1>1, <1>3 DEF Untouched
<1> QED
    <2>1. Alive /\ 0 \notin Id
        BY <1>1 DEF Id
    <2> QED BY <1>3, <1>4, <1>5, <1>6, <1>7, <2>1, StackStep

-----------------------------------------------------------------------------
LEMMA InitIInv == Init => IInv
<1> SUFFICES ASSUME Init PROVE IInv
    OBVIOUS
<1>1. TypeOK
    <2>1. <<>> \in Seq(Frame)
        BY EmptySeq
    <2>2. tcp \in [Id -> Handle]
        BY InitHandle DEF Init
    <2>3. lastid \in 0 .. MaxId
        BY ServiceAssumption DEF Init
    <2>4. /\ mem \in [Id -> {"none", "live", "freed"}]
          /\ peer \in [Id -> {"open", "eof", "reset", "fail"}]
        BY DEF Init
    <2> QED BY <2>1, <2>2, <2>3, <2>4, Zenon DEF Init, TypeOK
<1>2. StackShape
    BY DEF Init, StackShape
<1>3. IdsKnown /\ RegistrySound /\ NoSessionLeak
    BY DEF Init, IdsKnown, RegistrySound, NoSessionLeak
<1>4. ASSUME NEW s \in Id PROVE SessionSound(s)
    <2>1. tcp[s] = uv_tcp_init /\ stack = <<>> /\ s \notin m_sessions
        BY DEF Init
    <2>2. /\ tcp[s].reqs = 0 /\ tcp[s].writes = 0 /\ ~tcp[s].pending /\ ~tcp[s].closing
          /\ ~tcp[s].reading
        BY <2>1, InitFields, Zenon
    <2>3. ~Outer("new", s) /\ ~Outer("receive", s) /\ ~InProcess(s)
        BY <2>1 DEF Outer, InProcess
    <2>4. tcp[s].reqs = tcp[s].writes + (IF tcp[s].pending THEN 1 ELSE 0)
                                      + (IF InProcess(s) THEN 1 ELSE 0)
        BY <2>2, <2>3
    <2>5. HandleSound(s) /\ Forgotten(s)
        BY <2>2, <2>3, <2>4, Zenon DEF HandleSound, Forgotten
    <2>6. WritesWithin(s)
        BY <2>2, ServiceAssumption DEF WritesWithin
    <2> QED BY <2>1, <2>5, <2>6 DEF SessionSound
<1> QED BY <1>1, <1>2, <1>3, <1>4 DEF IInv

LEMMA NextIInv == IInv /\ [Next]_vars => IInv'
<1> SUFFICES ASSUME IInv, [Next]_vars PROVE IInv'
    OBVIOUS
<1>1. CASE \/ Initialize \/ AcceptError \/ HandlerShutsDown
           \/ \E s \in Id : PeerEnds(s) \/ WriteSucceeds(s) \/ WriteInsertedTwice(s)
    BY <1>1, IdleSteps
<1>2. CASE Accept
    BY <1>2, AcceptIInv
<1>3. CASE AcceptFails \/ HandlerConnects
    BY <1>3, FailedSessions
<1>4. ASSUME NEW s \in Id, HandlerCloses(s) PROVE IInv'
    BY <1>4, HandlerClosesIInv
<1>5. ASSUME NEW s \in Id, NEW long \in BOOLEAN, HandlerSends(s, long) PROVE IInv'
    BY <1>5, SendIInv
<1>6. CASE ReturnNew
    BY <1>6, ReturnNewIInv
<1>7. CASE ReturnReceive
    BY <1>7, ReturnReceiveIInv
<1>8. CASE ReturnClose
    BY <1>8, ReturnCloseIInv
<1>9. CASE ReturnUpdate
    BY <1>9, ReturnUpdateIInv
<1>10. CASE Update
    BY <1>10, UpdateIInv
<1>11. ASSUME NEW s \in Id, ReadMessage(s) PROVE IInv'
    BY <1>11, ReadMessageIInv
<1>12. ASSUME NEW s \in Id, ReadIgnored(s) \/ ReadCancelled(s) PROVE IInv'
    BY <1>12, ReadIgnoredIInv
<1>13. ASSUME NEW s \in Id, ReadEnds(s) PROVE IInv'
    BY <1>13, ReadEndsKnownIInv, ReadEndsUnknownIInv
<1>14. ASSUME NEW s \in Id, WriteFails(s) PROVE IInv'
    BY <1>14, WriteFailsIInv
<1>15. ASSUME NEW s \in Id, Endgame(s) PROVE IInv'
    BY <1>15, EndgameIInv
<1>16. CASE UNCHANGED vars
    <2>1. UNCHANGED <<lastid, mem, m_sessions, tcp, linked, peer, stale, lost, stack, m_shutdown,
                      proc, opened, closed>>
        BY <1>16 DEF vars
    <2>2. TypeOK' /\ StackShape'
        BY <2>1 DEF IInv, TypeOK, StackShape
    <2>3. IdsKnown' /\ RegistrySound' /\ NoSessionLeak'
        BY <2>1, Zenon DEF IInv, IdsKnown, RegistrySound, NoSessionLeak, Closing, Alive
    <2>4. Alive' => \A s \in Id : SessionSound(s)'
        BY <2>1, Zenon DEF IInv, SessionSound, HandleSound, WritesWithin, Heard, Forgotten, Outer, InProcess,
                    Alive
    <2> QED BY <2>2, <2>3, <2>4 DEF IInv, Id
<1> QED
    BY <1>1, <1>2, <1>3, <1>4, <1>5, <1>6, <1>7, <1>8, <1>9, <1>10, <1>11, <1>12, <1>13, <1>14,
       <1>15, <1>16 DEF Next

(* IInv holds throughout: it is inductive. *)
THEOREM Invariance == Spec => []IInv
BY InitIInv, NextIInv, PTL DEF Spec

(***************************************************************************)
(* No send overtakes the last one of its session: libuv's list of          *)
(* completed requests is not damaged.                                      *)
(***************************************************************************)
ListIntact == MaxWrites <= 1 => lost = {} /\ proc # "endless"

LEMMA ListIntactNext == IInv /\ ListIntact /\ [Next]_vars => ListIntact'
<1> SUFFICES ASSUME IInv, lost = {}, proc # "endless", [Next]_vars, MaxWrites <= 1
             PROVE  lost' = {} /\ proc' # "endless"
    BY DEF ListIntact
<1>1. ASSUME NEW s \in Id, NEW long \in BOOLEAN, HandlerSends(s, long)
      PROVE  lost' = {} /\ proc' # "endless"
    <2>1. tcp[s].writes \in Nat /\ tcp[s].writes < MaxWrites /\ MaxWrites \in Nat
        BY <1>1, ServiceAssumption, HandleFacts DEF HandlerSends, InHandler, Alive
    <2>2. ~(tcp[s].writes > 0)
        BY <2>1
    <2> QED BY <1>1, <2>2 DEF HandlerSends
<1>2. ASSUME NEW s \in Id PROVE ~WriteInsertedTwice(s)
    <2> SUFFICES ASSUME WriteInsertedTwice(s) PROVE FALSE
        OBVIOUS
    <2>1. tcp[s].writes \in Nat /\ tcp[s].writes <= MaxWrites /\ MaxWrites \in Nat
        BY ServiceAssumption, HandleFacts DEF WriteInsertedTwice, InLoop, Alive
    <2>2. tcp[s].writes > 1
        BY DEF WriteInsertedTwice
    <2> QED BY <2>1, <2>2
<1>3. CASE UNCHANGED vars
    BY <1>3 DEF vars
<1>4. CASE Initialize \/ Accept \/ AcceptFails \/ AcceptError \/ HandlerShutsDown \/ HandlerConnects
    BY <1>4 DEF Initialize, Accept, AcceptFails, AcceptError, HandlerShutsDown, HandlerConnects, Touch,
                Uninitialised
<1>5. CASE ReturnNew \/ ReturnReceive \/ ReturnClose \/ ReturnUpdate \/ Update
    BY <1>5 DEF ReturnNew, ReturnReceive, ReturnClose, ReturnUpdate, Update, Uninitialised
<1>6. ASSUME NEW s \in Id,
             HandlerCloses(s) \/ PeerEnds(s) \/ ReadMessage(s) \/ ReadIgnored(s) \/ ReadCancelled(s)
      PROVE  lost' = {} /\ proc' # "endless"
    BY <1>6 DEF HandlerCloses, PeerEnds, ReadMessage, ReadIgnored, ReadCancelled, Touch, Uninitialised
<1>7. ASSUME NEW s \in Id, ReadEnds(s) \/ WriteSucceeds(s) \/ WriteFails(s) \/ Endgame(s)
      PROVE  lost' = {} /\ proc' # "endless"
    BY <1>7 DEF ReadEnds, WriteSucceeds, WriteFails, Endgame, Touch, Uninitialised
<1> QED BY <1>1, <1>2, <1>3, <1>4, <1>5, <1>6, <1>7 DEF Next

LEMMA IntactInvariance == Spec => []ListIntact
<1>1. Init => ListIntact
    BY DEF Init, ListIntact
<1> QED BY <1>1, ListIntactNext, Invariance, PTL DEF Spec

(***************************************************************************)
(* Every field of the service and of libuv's handles keeps its type: ids   *)
(* come from generateid, and libuv's counts of requests and of writes do   *)
(* not go below 0, whatever callback closes whatever session.  What would  *)
(* take them there is uv_process_reqs meeting an m_write more often than   *)
(* it was sent, on an endless walk; that does not happen to an application *)
(* that sends to a session only when the last send is finished.            *)
(***************************************************************************)
THEOREM TypeCorrect == Spec => [](TypeOK /\ (MaxWrites <= 1 => proc # "endless"))
<1>1. IInv => TypeOK
    BY DEF IInv
<1>2. ListIntact => (MaxWrites <= 1 => proc # "endless")
    BY DEF ListIntact
<1> QED BY <1>1, <1>2, Invariance, IntactInvariance, PTL

(***************************************************************************)
(* uv_service's map holds exactly the sessions announced and not closed,   *)
(* and all of them are allocated.                                          *)
(***************************************************************************)
THEOREM RegistryIsSound == Spec => []RegistrySound
<1>1. IInv => RegistrySound
    BY DEF IInv
<1> QED BY <1>1, Invariance, PTL

(* closesession and ~uv_service together delete every session allocated. *)
THEOREM SessionsAreNotLeaked == Spec => []NoSessionLeak
<1>1. IInv => NoSessionLeak
    BY DEF IInv
<1> QED BY <1>1, Invariance, PTL

(***************************************************************************)
(* If on_newsession does not close the session it announces, on_receive_   *)
(* head never runs on a session that closesession has deleted.             *)
(***************************************************************************)
THEOREM ReadsReachTheMap == Spec => []ReadsReachRegistered
<1>1. IInv => ReadsReachRegistered
    BY DEF IInv, SessionSound, Forgotten, ReadsReachRegistered
<1> QED BY <1>1, Invariance, PTL

(***************************************************************************)
(* Between callbacks every session of the map is being read, so that the   *)
(* end of its connection will be noticed; and libuv has not lost its read, *)
(* if no send overtakes the last one of its session.                       *)
(***************************************************************************)
THEOREM NoSessionIsDeaf == Spec => []NoDeafSession
<1>1. ASSUME IInv, InLoop, NEW s \in m_sessions
      PROVE  tcp[s].reading /\ tcp[s].pending /\ ~tcp[s].closing
    <2>1. Alive /\ stack = <<>> /\ s \in Id
        BY <1>1 DEF InLoop, Alive, IInv, TypeOK
    <2> QED BY <1>1, <2>1, HandleFacts
<1>2. IInv /\ ListIntact => NoDeafSession
    BY <1>1 DEF NoDeafSession, ListIntact
<1> QED BY <1>2, Invariance, IntactInvariance, PTL

-----------------------------------------------------------------------------
(* The callbacks the handler sees. *)

LEMMA ReadsAreOfTheMap ==
    ASSUME IInv, "new" \notin CloseOwnIn, NEW s \in Id, ReadMessage(s)
    PROVE  s \in m_sessions
<1>1. Alive /\ stack = <<>> /\ tcp[s].reading
    BY DEF ReadMessage, ReadCompletes, InLoop, Alive
<1> QED BY <1>1, HandleFacts, Zenon

(***************************************************************************)
(* Every callback that is given a session is given an allocated one, if    *)
(* on_newsession does not close the session it announces.                  *)
(***************************************************************************)
THEOREM CallbacksAreSafe ==
    ASSUME "new" \notin CloseOwnIn
    PROVE  Spec => CallbacksGetLiveSessions
<1> DEFINE Safe == Len(stack') > Len(stack) =>
                      LET f == stack'[Len(stack')] IN f.s # 0 => mem'[f.s] = "live"
<1>1. ASSUME IInv, [Next]_vars PROVE [Safe]_vars
    <2> SUFFICES ASSUME Next, Len(stack') > Len(stack),
                        stack'[Len(stack')].s # 0
                 PROVE  mem'[stack'[Len(stack')].s] = "live"
        BY <1>1
    <2>1. TypeOK /\ RegistrySound
        BY <1>1 DEF IInv
    <2>2. stack \in Seq(Frame) /\ Len(stack) \in Nat
        BY <2>1, StackFacts
    <2>3. stack' # stack /\ (stack # <<>> => stack' # Pop)
        <3>1. ASSUME stack # <<>>, stack' = Pop PROVE FALSE
            BY <2>1, <2>2, <3>1, PopFacts
        <3> QED BY <2>2, <3>1
    <2>4. CASE Accept
        <3>1. PICK s \in Id : s = lastid + 1
            BY <2>4 DEF Accept, generateid
        <3>2. stack' = Append(stack, Call("new", s)) /\ mem' = [mem EXCEPT ![s] = "live"]
            BY <2>4, <3>1 DEF Accept, generateid, on_newsession
        <3>3. Call("new", s) \in Frame /\ Call("new", s).s = s
            BY DEF Call, Frame, Id
        <3>4. Len(stack') = Len(stack) + 1 /\ stack'[Len(stack) + 1] = Call("new", s)
            BY <2>1, <3>2, <3>3, PushFacts
        <3> QED BY <2>1, <3>2, <3>3, <3>4 DEF TypeOK
    <2>5. ASSUME NEW s \in Id, NEW why \in {"handler", "eof", "reset", "fail"}, NEW h,
                 s \in m_sessions, closesession(s, why, h), UNCHANGED mem, Alive
          PROVE  mem'[stack'[Len(stack')].s] = "live"
        <3> DEFINE f == [fn |-> "close", s |-> s, why |-> why]
        <3>1. stack' = Append(stack, f) /\ f \in Frame /\ f.s = s
            BY <2>5 DEF closesession, Frame, Id
        <3> HIDE DEF f
        <3>2. Len(stack') = Len(stack) + 1 /\ stack'[Len(stack) + 1] = f
            BY <2>1, <3>1, PushFacts
        <3> QED BY <2>1, <2>5, <3>1, <3>2 DEF RegistrySound
    <2>6. ASSUME NEW s \in Id, HandlerCloses(s)
          PROVE  mem'[stack'[Len(stack')].s] = "live"
        BY <2>5, <2>6 DEF HandlerCloses, InHandler, Alive
    <2>7. ASSUME NEW s \in Id, ReadEnds(s)
          PROVE  mem'[stack'[Len(stack')].s] = "live"
        <3>1. s \in m_sessions
            BY <2>3, <2>7 DEF ReadEnds
        <3>2. peer[s] \in {"handler", "eof", "reset", "fail"}
            BY <2>1, <2>7 DEF ReadEnds, TypeOK
        <3>3. UNCHANGED mem /\ Alive /\ \E h : closesession(s, peer[s], h)
            BY <2>7, <3>1, Zenon DEF ReadEnds, ReadCompletes, InLoop, Alive
        <3> QED BY <2>5, <3>1, <3>2, <3>3
    <2>8. ASSUME NEW s \in Id, ReadMessage(s)
          PROVE  mem'[stack'[Len(stack')].s] = "live"
        <3>1. /\ stack' = <<Call("receive", s)>> /\ mem' = mem /\ Alive
            BY <2>8 DEF ReadMessage, ReadCompletes, InLoop, Alive
        <3>2. s \in m_sessions
            BY <1>1, <2>8, ReadsAreOfTheMap
        <3> QED BY <2>1, <3>1, <3>2 DEF RegistrySound, Call
    <2>9. CASE Update
        BY <2>9 DEF Update, Call
    <2> QED
        BY <2>3, <2>4, <2>6, <2>7, <2>8, <2>9, Zenon
        DEF Next, Initialize, AcceptFails, AcceptError, HandlerSends, HandlerShutsDown,
            HandlerConnects, ReturnNew, ReturnReceive, ReturnClose, ReturnUpdate, Returning,
            InHandler, PeerEnds, ReadIgnored, ReadCancelled, WriteSucceeds, WriteFails,
            WriteInsertedTwice, Endgame
<1>2. Spec => [][Safe]_vars
    BY <1>1, Invariance, PTL DEF Spec
<1> QED BY <1>2 DEF CallbacksGetLiveSessions

(* The callbacks in progress, as HandlerContract names them. *)
Calls(st) == [k \in 1 .. Len(st) |-> <<st[k].fn, st[k].s>>]

CallNames == {"new", "receive", "close", "update"} \X (0 .. MaxId)

LEMMA CallsFacts ==
    ASSUME NEW st \in Seq(Frame)
    PROVE  /\ Calls(st) \in Seq(CallNames)
           /\ Len(Calls(st)) = Len(st) /\ Len(st) \in Nat
           /\ \A k \in 1 .. Len(st) : Calls(st)[k] = <<st[k].fn, st[k].s>>
<1> DEFINE n == Len(st)
<1>1. n \in Nat /\ \A k \in 1 .. n : st[k] \in Frame
    BY LenProperties, ElementOfSeq
<1>2. \A f \in Frame : <<f.fn, f.s>> \in CallNames
    BY DEF CallNames, Frame
<1>3. Calls(st) \in [1 .. n -> CallNames] /\ \A k \in 1 .. n : Calls(st)[k] = <<st[k].fn, st[k].s>>
    <2> HIDE DEF CallNames
    <2>1. Calls(st) = [k \in 1 .. n |-> <<st[k].fn, st[k].s>>]
        BY DEF Calls
    <2>2. \A k \in 1 .. n : <<st[k].fn, st[k].s>> \in CallNames
        BY <1>1, <1>2
    <2> HIDE DEF n
    <2> QED BY <2>1, <2>2, Zenon
<1>4. Calls(st) \in Seq(CallNames)
    BY <1>1, <1>3, SeqDef
<1>5. DOMAIN Calls(st) = 1 .. n /\ DOMAIN Calls(st) = 1 .. Len(Calls(st)) /\ Len(Calls(st)) \in Nat
    BY <1>3, <1>4, LenProperties
<1>6. Len(Calls(st)) = n
    BY <1>1, <1>5
<1> QED BY <1>1, <1>3, <1>4, <1>6

LEMMA CallsEmpty ==
    ASSUME NEW st \in Seq(Frame)
    PROVE  Calls(st) = <<>> <=> st = <<>>
<1>1. Calls(st) \in Seq(CallNames) /\ Len(Calls(st)) = Len(st)
    BY CallsFacts
<1> QED BY <1>1, EmptySeq

LEMMA CallsPush ==
    ASSUME NEW st \in Seq(Frame), NEW f \in Frame
    PROVE  Calls(Append(st, f)) = Append(Calls(st), <<f.fn, f.s>>)
<1> DEFINE u == Append(st, f)
           c == Calls(st)
           e == <<f.fn, f.s>>
           a == Append(c, e)
<1>1. /\ u \in Seq(Frame) /\ Len(u) = Len(st) + 1
      /\ \A i \in 1 .. Len(st) : u[i] = st[i]
      /\ u[Len(st) + 1] = f
    BY AppendProperties
<1>2. c \in Seq(CallNames) /\ Len(c) = Len(st) /\ Len(st) \in Nat
      /\ \A k \in 1 .. Len(st) : c[k] = <<st[k].fn, st[k].s>>
    BY CallsFacts
<1>3. e \in CallNames
    BY DEF CallNames, Frame
<1> HIDE DEF u, c
<1>4. /\ a \in Seq(CallNames) /\ Len(a) = Len(c) + 1
      /\ \A i \in 1 .. Len(c) : a[i] = c[i]
      /\ a[Len(c) + 1] = e
    BY <1>2, <1>3, AppendProperties
<1>5. /\ Calls(u) \in Seq(CallNames) /\ Len(Calls(u)) = Len(u)
      /\ \A k \in 1 .. Len(u) : Calls(u)[k] = <<u[k].fn, u[k].s>>
    BY <1>1, CallsFacts
<1> HIDE DEF a
<1>6. Len(Calls(u)) = Len(a)
    BY <1>1, <1>2, <1>4, <1>5
<1>7. ASSUME NEW i \in 1 .. Len(Calls(u)) PROVE Calls(u)[i] = a[i]
    <2>1. CASE i \in 1 .. Len(st)
        BY <1>1, <1>2, <1>4, <1>5, <2>1, Zenon
    <2>2. CASE i = Len(st) + 1
        BY <1>1, <1>2, <1>4, <1>5, <2>2, Zenon
    <2> QED BY <1>1, <1>2, <1>5, <2>1, <2>2
<1>8. Calls(u) = a
    BY <1>4, <1>5, <1>6, <1>7, SeqEqual
<1> QED BY <1>8 DEF a, u, c

LEMMA CallsPop ==
    ASSUME NEW st \in Seq(Frame), st # <<>>
    PROVE  Calls(SubSeq(st, 1, Len(st) - 1)) = SubSeq(Calls(st), 1, Len(Calls(st)) - 1)
BY DEF Calls

(***************************************************************************)
(* The sequence of callbacks the handler sees, nested ones included, is    *)
(* one HandlerContract allows, whatever the handler calls, if on_new-      *)
(* session does not close the session it announces: every step of Service  *)
(* is a step of the contract or changes nothing the handler sees.          *)
(***************************************************************************)
THEOREM ServiceKeepsContract ==
    ASSUME "new" \notin CloseOwnIn
    PROVE  Spec => ImplementsHandlerContract
<1> DEFINE open == opened \ closed
           calls == [k \in 1 .. Len(stack) |-> <<stack[k].fn, stack[k].s>>]
<1>1. Init => Contract!Init
    <2> SUFFICES ASSUME Init PROVE Contract!Init
        OBVIOUS
    <2>1. <<>> \in Seq(Frame) /\ Calls(<<>>) = <<>>
        BY EmptySeq, CallsEmpty, Zenon
    <2>2. Calls(stack) = <<>>
        BY <2>1 DEF Init
    <2> QED BY <2>2 DEF Init, Contract!Init, Calls
<1>2. ASSUME IInv, IInv', [Next]_vars PROVE [Contract!Next]_(Contract!contractVars)
    <2>1. TypeOK /\ RegistrySound /\ IdsKnown /\ stack \in Seq(Frame) /\ stack' \in Seq(Frame)
        BY <1>2 DEF IInv, TypeOK
    <2>2. calls = Calls(stack) /\ calls' = Calls(stack')
        BY DEF Calls
    <2>3. stack = <<>> <=> calls = <<>>
        BY <2>1, <2>2, CallsEmpty
    <2>4. ASSUME NEW f \in Frame, stack' = Append(stack, f)
          PROVE  /\ calls' = Append(calls, <<f.fn, f.s>>)
                 /\ stack = <<>> => calls' = <<<<f.fn, f.s>>>>
        <3>1. calls' = Append(calls, <<f.fn, f.s>>)
            BY <2>1, <2>2, <2>4, CallsPush, Zenon
        <3>2. stack = <<>> => Append(calls, <<f.fn, f.s>>) = <<<<f.fn, f.s>>>>
            BY <2>3
        <3> QED BY <3>1, <3>2, Zenon
    <2>5. ASSUME stack # <<>>, stack' = Pop, UNCHANGED <<opened, closed>>
          PROVE  Contract!Return
        <3>1. calls' = SubSeq(calls, 1, Len(calls) - 1)
            BY <2>1, <2>2, <2>5, CallsPop, Zenon DEF Pop
        <3>2. calls # <<>> /\ open' = open /\ closed' = closed
            BY <2>3, <2>5
        <3> QED BY <3>1, <3>2, Zenon DEF Contract!Return
    <2>6. ASSUME UNCHANGED <<stack, opened, closed>>
          PROVE  UNCHANGED Contract!contractVars
        BY <2>6 DEF Contract!contractVars
    <2> HIDE DEF calls
    <2>7. CASE Accept
        <3>1. PICK s \in Id : s = lastid + 1
            BY <2>7 DEF Accept, generateid
        <3>2. /\ stack = <<>> /\ stack' = Append(stack, Call("new", s))
              /\ opened' = opened \cup {s} /\ closed' = closed
            BY <2>7, <3>1 DEF Accept, InLoop, generateid, on_newsession
        <3>3. /\ Call("new", s) \in Frame
              /\ Call("new", s).fn = "new" /\ Call("new", s).s = s
            BY DEF Call, Frame, Id
        <3>4. calls' = <<<<"new", s>>>>
            BY <2>4, <3>2, <3>3
        <3>5. s \notin opened /\ s \notin closed
            BY <2>1, <3>1 DEF IdsKnown, TypeOK
        <3>6. Contract!NewSession(s)
            BY <2>3, <3>2, <3>4, <3>5 DEF Contract!NewSession, calls
        <3> QED BY <3>6 DEF Contract!Next
    <2>8. ASSUME NEW s \in Id, NEW why \in {"handler", "eof", "reset", "fail"}, NEW h,
                 s \in m_sessions, closesession(s, why, h), UNCHANGED opened, Alive
          PROVE  Contract!Next
        <3> DEFINE f == [fn |-> "close", s |-> s, why |-> why]
        <3>1. /\ stack' = Append(stack, f) /\ f \in Frame
              /\ f.fn = "close" /\ f.s = s
              /\ closed' = closed \cup {s} /\ opened' = opened
            BY <2>8 DEF closesession, Frame, Id
        <3> HIDE DEF f
        <3>2. calls' = Append(calls, <<"close", s>>)
            BY <2>4, <3>1
        <3>3. s \in open /\ open' = open \ {s}
            BY <2>1, <2>8, <3>1 DEF RegistrySound
        <3>4. Contract!CloseSession(s)
            BY <3>1, <3>2, <3>3, Zenon DEF Contract!CloseSession, calls
        <3> QED BY <3>4 DEF Contract!Next
    <2>9. ASSUME NEW s \in Id, HandlerCloses(s) PROVE Contract!Next
        BY <2>8, <2>9 DEF HandlerCloses, InHandler, Alive
    <2>10. ASSUME NEW s \in Id, ReadEnds(s)
           PROVE  Contract!Next \/ UNCHANGED Contract!contractVars
        <3>1. CASE s \in m_sessions
            <4>1. peer[s] \in {"handler", "eof", "reset", "fail"}
                BY <2>1, <2>10 DEF ReadEnds, TypeOK
            <4>2. UNCHANGED opened /\ Alive
                BY <2>10 DEF ReadEnds, ReadCompletes, InLoop, Alive
            <4>3. \E h : closesession(s, peer[s], h)
                BY <2>10, <3>1, Zenon DEF ReadEnds
            <4> QED BY <2>8, <3>1, <4>1, <4>2, <4>3
        <3>2. CASE s \notin m_sessions
            BY <2>6, <2>10, <3>2 DEF ReadEnds
        <3> QED BY <3>1, <3>2
    <2>11. ASSUME NEW s \in Id, ReadMessage(s) PROVE Contract!Next
        <3>1. /\ stack = <<>> /\ stack' = Append(stack, Call("receive", s)) /\ Alive
              /\ UNCHANGED <<opened, closed>>
            BY <2>11 DEF ReadMessage, ReadCompletes, InLoop, Alive
        <3>2. /\ Call("receive", s) \in Frame
              /\ Call("receive", s).fn = "receive" /\ Call("receive", s).s = s
            BY DEF Call, Frame, Id
        <3>3. calls' = <<<<"receive", s>>>>
            BY <2>4, <3>1, <3>2
        <3>4. s \in open
            BY <1>2, <2>1, <2>11, <3>1, ReadsAreOfTheMap DEF RegistrySound
        <3>5. Contract!TcpReceive(s)
            BY <2>3, <3>1, <3>3, <3>4 DEF Contract!TcpReceive, calls
        <3> QED BY <3>5 DEF Contract!Next
    <2>12. CASE Update
        <3>1. /\ stack = <<>> /\ stack' = Append(stack, Call("update", 0))
              /\ UNCHANGED <<opened, closed>>
            BY <2>12 DEF Update, InLoop
        <3>2. /\ Call("update", 0) \in Frame
              /\ Call("update", 0).fn = "update" /\ Call("update", 0).s = 0
            BY ServiceAssumption DEF Call, Frame
        <3>3. calls' = <<<<"update", 0>>>>
            BY <2>4, <3>1, <3>2
        <3>4. Contract!Update
            BY <2>3, <3>1, <3>3 DEF Contract!Update, calls
        <3> QED BY <3>4 DEF Contract!Next
    <2>13. CASE ReturnNew \/ ReturnReceive \/ ReturnClose \/ ReturnUpdate
        <3>1. stack # <<>> /\ stack' = Pop /\ UNCHANGED <<opened, closed>>
            BY <2>13 DEF ReturnNew, ReturnReceive, ReturnClose, ReturnUpdate, Returning, InHandler
        <3> QED BY <2>5, <3>1 DEF Contract!Next
    <2>14. CASE UNCHANGED vars
        BY <2>6, <2>14 DEF vars
    <2>15. CASE Next /\ UNCHANGED <<stack, opened, closed>>
        BY <2>6, <2>15
    <2> QED
        BY <1>2, <2>7, <2>9, <2>10, <2>11, <2>12, <2>13, <2>14, <2>15, Zenon
        DEF Next, Initialize, AcceptFails, AcceptError, HandlerSends, HandlerShutsDown,
            HandlerConnects, PeerEnds, ReadIgnored, ReadCancelled, WriteSucceeds, WriteFails,
            WriteInsertedTwice, Endgame
<1>3. Spec => Contract!Spec
    BY <1>1, <1>2, Invariance, PTL DEF Spec, Contract!Spec
<1> QED BY <1>3 DEF ImplementsHandlerContract

=============================================================================
