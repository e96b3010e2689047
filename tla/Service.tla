------------------------------ MODULE Service -------------------------------
(***************************************************************************)
(* uv_service, uv_session and the accepting half of uv_tcp_server: the     *)
(* life of client sessions, from the accept to the deletion, under a       *)
(* handler that calls back into the service.                               *)
(*                                                                         *)
(* Everything runs in one thread, inside uv_service::run: libuv callbacks, *)
(* and handler callbacks nested in them.  Program points where the handler *)
(* runs are the frames of "stack"; a step runs to the next such point.     *)
(* Sessions are named by their id (generateid never repeats one), and a    *)
(* freed block is not reused.                                              *)
(*                                                                         *)
(* Using freed memory is undefined: the process dies, or goes on with the  *)
(* contents the block had ("Touch").                                       *)
(***************************************************************************)
EXTENDS UvTcp, Sequences, FiniteSets

CONSTANTS
    MaxId,        \* bound on generateid()
    MaxWrites,    \* bound on unfinished sends of a session
    AppOps,       \* what the handler does: {"close", "send", "shutdown", "connect"}
    CloseOwnIn    \* the callbacks, "new" or "receive", in which the handler
                  \* closes the very session the callback is about

ASSUME ServiceAssumption ==
    /\ MaxId \in Nat
    /\ MaxWrites \in Nat
    /\ AppOps \subseteq {"close", "send", "shutdown", "connect"}
    /\ CloseOwnIn \subseteq {"new", "receive"}

Id == 1 .. MaxId

VARIABLES
    lastid,      \* the counter of generateid()
    mem,         \* [Id -> {"none", "live", "freed"}]: the uv_session block
    m_sessions,  \* the ids in the map; id i maps to session i
    tcp,         \* [Id -> Handle]: session->m_tcp
    linked,      \* the handles in loop->handle_queue, in order of id
    peer,        \* [Id -> {"open", "eof", "reset", "fail"}]: what a read will find
    stale,       \* the sessions whose m_writebuf.base points to a freed block
    lost,        \* the sessions whose completed read fell out of the loop's list
    stack,       \* handler callbacks in progress, innermost last
    m_shutdown,
    proc,        \* "starting", "running", "exited", "crashed", the ASSERT that failed,
                 \* or "endless": uv_process_reqs walks in a circle
    opened,      \* history: sessions announced with on_newsession
    closed       \* history: sessions reported with on_closesession

vars == <<lastid, mem, m_sessions, tcp, linked, peer, stale, lost, stack, m_shutdown,
          proc, opened, closed>>

Asserts == {"initialize", "on_accept", "on_receive", "on_send", "send", "connect"}

(***************************************************************************)
(* A frame: the callback, its session (0 for update) and, for on_close-    *)
(* session, who called closesession: the handler, or the read callback     *)
(* after an end of file, a reset or another error.                         *)
(***************************************************************************)
Frame == [fn : {"new", "receive", "close", "update"}, s : 0 .. MaxId,
          why : {"handler", "eof", "reset", "fail"}]

Call(fn, s) == [fn |-> fn, s |-> s, why |-> "handler"]

Init ==
    /\ lastid = 0
    /\ mem = [s \in Id |-> "none"]
    /\ m_sessions = {}
    /\ tcp = [s \in Id |-> uv_tcp_init]
    /\ linked = {}
    /\ peer = [s \in Id |-> "open"]
    /\ stale = {}
    /\ lost = {}
    /\ stack = <<>>
    /\ m_shutdown = FALSE
    /\ proc = "starting"
    /\ opened = {}
    /\ closed = {}

InLoop == proc = "running" /\ stack = <<>>
InHandler == proc = "running" /\ stack # <<>>
Top == stack[Len(stack)]
Pop == SubSeq(stack, 1, Len(stack) - 1)

(* The outcomes of accessing the sessions S. *)
Touch(S) == IF \A s \in S : mem[s] = "live" THEN {"running"} ELSE {"running", "crashed"}

(* The neighbours of s in the handle queue, which QUEUE_* writes to. *)
Neighbours(s) ==
    {t \in linked : t # s /\ \A u \in linked : ~(s < u /\ u < t) /\ ~(t < u /\ u < s)}

(***************************************************************************)
(* uv_packet never initialises m_body: its clear() and its destructor hand *)
(* whatever the block held to memset and free.                             *)
(***************************************************************************)
Uninitialised == {"running", "crashed"}

-----------------------------------------------------------------------------
(* uv_service::initialize: a failing step ends in an ASSERT. *)
Initialize ==
    /\ proc = "starting"
    /\ proc' \in {"running", "initialize"}
    /\ UNCHANGED <<lastid, mem, m_sessions, tcp, linked, peer, stack, m_shutdown, opened, closed, stale, lost>>

(* Faulty: generateid returns the counter before it is incremented. *)
AcceptPostIncrement ==
    LET s == lastid IN
    /\ InLoop
    /\ s + 1 \in Id
    /\ lastid' = s + 1
    /\ mem' = [mem EXCEPT ![s + 1] = "live"]
    /\ m_sessions' = m_sessions \cup {s}
    /\ stack' = <<Call("new", s)>>
    /\ opened' = opened \cup {s}
    /\ UNCHANGED <<tcp, linked, peer, m_shutdown, proc, closed, stale, lost>>

(* The sessions' ids: static int id = 0; return ++id. *)
generateid == lastid + 1

(* uv_service::on_newsession: into the map, then the handler's on_newsession *)
on_newsession(s) ==
    /\ m_sessions' = m_sessions \cup {s}
    /\ stack' = Append(stack, Call("new", s))
    /\ opened' = opened \cup {s}

(* uv_tcp_server::on_accept up to on_newsession. *)
Accept ==
    LET s == generateid IN
    /\ InLoop
    /\ s \in Id
    /\ lastid' = s
    /\ linked' = linked \cup {s}
    /\ mem' = [mem EXCEPT ![s] = "live"]
    /\ tcp' = [tcp EXCEPT ![s] = uv_accept(uv_tcp_init)]
    /\ on_newsession(s)
    /\ proc' \in Touch(Neighbours(s))
    /\ UNCHANGED <<peer, m_shutdown, closed, stale, lost>>

(* uv_accept fails: the handle is closed and the session deleted at once. *)
AcceptFails ==
    LET s == generateid IN
    /\ InLoop
    /\ s \in Id
    /\ lastid' = s
    /\ linked' = linked \cup {s}
    /\ mem' = [mem EXCEPT ![s] = "freed"]
    /\ tcp' = [tcp EXCEPT ![s] = uv_close(uv_tcp_init)]
    /\ proc' \in Uninitialised
    /\ UNCHANGED <<m_sessions, peer, stack, m_shutdown, opened, closed, stale, lost>>

(* on_accept(status # 0) *)
AcceptError ==
    /\ InLoop
    /\ proc' = "on_accept"
    /\ UNCHANGED <<lastid, mem, m_sessions, tcp, linked, peer, stack, m_shutdown, opened, closed, stale, lost>>

(* Faulty: the test of is_active is inverted. *)
CloseUnlessActive(h) == IF uv_is_active(h) THEN h ELSE uv_close(uv_read_stop(h))

(* uv_session::close *)
session_close(h) == IF uv_is_active(h) THEN uv_close(uv_read_stop(h)) ELSE h

(* Faulty: the handler is told before the session leaves the map. *)
CloseSessionErasesLate(s, why, h) ==
    /\ tcp' = [tcp EXCEPT ![s] = session_close(h)]
    /\ stack' = Append(stack, [fn |-> "close", s |-> s, why |-> why])
    /\ closed' = closed \cup {s}
    /\ UNCHANGED m_sessions

(***************************************************************************)
(* uv_service::closesession(s), s in the map and with handle h, up to the  *)
(* handler's on_closesession; the rest is ReturnClose.                     *)
(***************************************************************************)
closesession(s, why, h) ==
    /\ tcp' = [tcp EXCEPT ![s] = session_close(h)]
    /\ m_sessions' = m_sessions \ {s}
    /\ stack' = Append(stack, [fn |-> "close", s |-> s, why |-> why])
    /\ closed' = closed \cup {s}

-----------------------------------------------------------------------------
(* Calls the handler makes from its callbacks. *)

(* The callbacks in progress let the handler close s. *)
MayClose(s) ==
    \A k \in 1 .. Len(stack) :
        stack[k].s = s /\ stack[k].fn \in {"new", "receive"} => stack[k].fn \in CloseOwnIn

HandlerCloses(s) ==
    /\ InHandler
    /\ "close" \in AppOps
    /\ s \in m_sessions
    /\ MayClose(s)
    /\ closesession(s, "handler", tcp[s])
    /\ UNCHANGED <<lastid, mem, linked, peer, m_shutdown, proc, opened, stale, lost>>

(***************************************************************************)
(* A session has one m_write.  If the handler sends again before the last  *)
(* send is finished, libuv gets the request a second time:                 *)
(*  - its completion may be inserted while it is in the list of completed  *)
(*    requests.  That cuts out requests which stand behind it or before    *)
(*    it: their reads are lost (lost writes are WriteFails that never      *)
(*    happen);                                                             *)
(*  - a send that fails at once inserts it, and uv_process_reqs, which     *)
(*    made the callback, may have it still before it: it is led into the   *)
(*    new list and around, without end, and counts go below 0.  update()   *)
(*    is not called by uv_process_reqs.                                    *)
(* With _DEBUG, libuv's own assertion ends the process.                    *)
(***************************************************************************)
Inserted == {lost \cup L : L \in SUBSET {t \in Id : tcp[t].pending}}

Reused ==
    /\ lost' \in Inserted
    /\ proc' \in {"running", "crashed"} \cup
                 IF stack[1].fn = "update" THEN {} ELSE {"endless"}

(***************************************************************************)
(* uv_tcp_server::send to a session the handler knows and that is not yet  *)
(* deleted.  m_write is reused even while libuv still works on it.  Data   *)
(* longer than PACKET_BUFFER_SIZE is sent from a block that realloc makes  *)
(* of m_writebuf's; only a copy of m_writebuf learns where that is.        *)
(***************************************************************************)
HandlerSends(s, long) ==
    /\ InHandler
    /\ "send" \in AppOps
    /\ s \in opened
    /\ mem[s] = "live"
    /\ tcp[s].writes < MaxWrites
    /\ stale' \in IF long THEN {stale, stale \cup {s}} ELSE {stale}
    /\ IF tcp[s].writable
       THEN /\ tcp' = [tcp EXCEPT ![s] = uv_write(@)]
            /\ IF tcp[s].writes > 0
               THEN Reused
               ELSE /\ proc' \in IF s \notin stale THEN {"running"} ELSE {"running", "crashed"}
                    /\ UNCHANGED lost
       ELSE /\ proc' \in IF s \notin stale THEN {"send"} ELSE {"send", "crashed"}
            /\ UNCHANGED <<tcp, lost>>
    /\ UNCHANGED <<lastid, mem, m_sessions, linked, peer, stack, m_shutdown, opened, closed>>

(* uv_service::shutdown *)
HandlerShutsDown ==
    /\ InHandler
    /\ "shutdown" \in AppOps
    /\ m_shutdown' = TRUE
    /\ UNCHANGED <<lastid, mem, m_sessions, tcp, linked, peer, stack, proc, opened, closed, stale, lost>>

(***************************************************************************)
(* uv_service::connect: uv_tcp_connect is given the address of the pointer *)
(* to the address, so its family is never valid and it always fails; the   *)
(* connection is deleted and the ASSERT that follows fails.                *)
(***************************************************************************)
HandlerConnects ==
    LET s == generateid IN
    /\ InHandler
    /\ "connect" \in AppOps
    /\ s \in Id
    /\ lastid' = s
    /\ linked' = linked \cup {s}
    /\ mem' = [mem EXCEPT ![s] = "freed"]
    /\ proc' \in {"connect", "crashed"}
    /\ UNCHANGED <<m_sessions, tcp, peer, stack, m_shutdown, opened, closed, stale, lost>>

-----------------------------------------------------------------------------
(* A handler callback returns, and its caller runs on. *)

Returning(fn) == InHandler /\ Top.fn = fn /\ stack' = Pop

(* Faulty: reading is never started. *)
ReturnNewDeaf ==
    /\ Returning("new")
    /\ UNCHANGED <<lastid, mem, m_sessions, tcp, linked, peer, m_shutdown, proc, opened, closed, stale, lost>>

(* on_accept: session->receive(), ASSERT(r == 0) *)
ReturnNew ==
    /\ Returning("new")
    /\ LET s == Top.s IN
       IF ReadStartResult(tcp[s]) = "ok"
       THEN /\ tcp' = [tcp EXCEPT ![s] = uv_read_start(@)]
            /\ proc' \in Uninitialised
       ELSE proc' = "on_accept" /\ UNCHANGED tcp
    /\ UNCHANGED <<lastid, mem, m_sessions, linked, peer, m_shutdown, opened, closed, stale, lost>>

(* on_receive_head: packet.clear(), receive_head; then back in libuv *)
ReturnReceive ==
    /\ Returning("receive")
    /\ tcp' = [tcp EXCEPT ![Top.s] = AfterRead(uv_read_start(@))]
    /\ proc' \in Uninitialised
    /\ UNCHANGED <<lastid, mem, m_sessions, linked, peer, m_shutdown, opened, closed, stale, lost>>

(* Faulty: the session is not deleted. *)
ReturnCloseKeeps ==
    /\ Returning("close")
    /\ Top.why = "handler"
    /\ UNCHANGED <<lastid, mem, m_sessions, tcp, linked, peer, m_shutdown, proc, opened, closed, stale, lost>>

(***************************************************************************)
(* closesession: the session is deleted (its destructor closes a handle    *)
(* that became active again).  After a failed read, on_receive_head ends,  *)
(* in an ASSERT if the error was neither an end of file nor a reset, and   *)
(* libuv goes on with the handle.                                          *)
(***************************************************************************)
ReturnClose ==
    LET s == Top.s
        h == session_close(tcp[s])
    IN
    /\ Returning("close")
    /\ mem' = [mem EXCEPT ![s] = "freed"]
    /\ tcp' = [tcp EXCEPT ![s] = IF Top.why \in {"eof", "reset"} THEN AfterRead(h) ELSE h]
    /\ proc' \in IF Top.why = "fail" THEN {"on_receive", "crashed"} ELSE Uninitialised
    /\ stale' = stale \ {s}
    /\ UNCHANGED <<lastid, m_sessions, linked, peer, m_shutdown, opened, closed, lost>>

(* Faulty: the loop does not look at m_shutdown. *)
ReturnUpdateForever ==
    /\ Returning("update")
    /\ UNCHANGED <<lastid, mem, m_sessions, tcp, linked, peer, m_shutdown, proc, opened, closed, stale, lost>>

(***************************************************************************)
(* run() leaves its loop if m_shutdown is set, and main ends: shutdown()   *)
(* again and ~uv_service, which deletes the sessions of the map.           *)
(***************************************************************************)
ReturnUpdate ==
    /\ Returning("update")
    /\ IF m_shutdown
       THEN /\ mem' = [s \in Id |-> IF s \in m_sessions THEN "freed" ELSE mem[s]]
            /\ proc' \in IF m_sessions = {} THEN {"exited"} ELSE {"exited", "crashed"}
       ELSE UNCHANGED <<mem, proc>>
    /\ UNCHANGED <<lastid, m_sessions, tcp, linked, peer, m_shutdown, opened, closed, stale, lost>>

HandlerReturns == ReturnNew \/ ReturnReceive \/ ReturnClose \/ ReturnUpdate

-----------------------------------------------------------------------------
(* What uv_service::run does when no callback is in progress. *)

(* uv_run has returned; m_handler->update() *)
Update ==
    /\ InLoop
    /\ stack' = <<Call("update", 0)>>
    /\ UNCHANGED <<lastid, mem, m_sessions, tcp, linked, peer, m_shutdown, proc, opened, closed, stale, lost>>

(* The peer of a session ends the connection, or it breaks. *)
PeerEnds(s) ==
    /\ proc = "running"
    /\ s \in m_sessions
    /\ peer[s] = "open"
    /\ \E e \in {"eof", "reset", "fail"} : peer' = [peer EXCEPT ![s] = e]
    /\ UNCHANGED <<lastid, mem, m_sessions, tcp, linked, stack, m_shutdown, proc, opened, closed, stale, lost>>

(* uv_process_reqs comes to the read of s, unless the list has lost it *)
ReadCompletes(s) == InLoop /\ tcp[s].pending /\ s \notin lost

(* on_receive_head, a full buffer without body: the handler's on_tcpreceive *)
ReadMessage(s) ==
    /\ ReadCompletes(s)
    /\ tcp[s].reading
    /\ peer[s] = "open"
    /\ tcp' = [tcp EXCEPT ![s] = ReadData(@)]
    /\ stack' = <<Call("receive", s)>>
    /\ proc' \in Touch({s})
    /\ UNCHANGED <<lastid, mem, m_sessions, linked, peer, m_shutdown, opened, closed, stale, lost>>

(* Faulty: a short read stops the reading. *)
ReadIgnoredStops(s) ==
    /\ ReadCompletes(s)
    /\ tcp[s].reading
    /\ peer[s] = "open"
    /\ tcp' = [tcp EXCEPT ![s] = AfterRead(uv_read_stop(ReadData(@)))]
    /\ UNCHANGED <<lastid, mem, m_sessions, linked, peer, stack, m_shutdown, proc, opened, closed, stale, lost>>

(***************************************************************************)
(* on_receive_head, any other read that is not an error: the packet is     *)
(* cleared, or receive_body fails with EALREADY; reading goes on.          *)
(***************************************************************************)
ReadIgnored(s) ==
    /\ ReadCompletes(s)
    /\ tcp[s].reading
    /\ peer[s] = "open"
    /\ tcp' = [tcp EXCEPT ![s] = AfterRead(ReadData(@))]
    /\ proc' \in Uninitialised
    /\ UNCHANGED <<lastid, mem, m_sessions, linked, peer, stack, m_shutdown, opened, closed, stale, lost>>

(* on_receive_head(nread < 0): packet.clear(), closesession(id) *)
ReadEnds(s) ==
    LET h == IF peer[s] = "eof" THEN ReadEof(tcp[s]) ELSE ReadError(tcp[s]) IN
    /\ ReadCompletes(s)
    /\ tcp[s].reading
    /\ peer[s] # "open"
    /\ IF s \in m_sessions
       THEN closesession(s, peer[s], h) /\ proc' \in Uninitialised
       ELSE /\ tcp' = [tcp EXCEPT ![s] = AfterRead(h)]
            /\ proc' \in IF peer[s] = "fail" THEN {"on_receive", "crashed"} ELSE Uninitialised
            /\ UNCHANGED <<m_sessions, stack, closed>>
    /\ UNCHANGED <<lastid, mem, linked, peer, m_shutdown, opened, stale, lost>>

(* The read of a handle that was closed meanwhile: no callback. *)
ReadCancelled(s) ==
    /\ ReadCompletes(s)
    /\ ~tcp[s].reading
    /\ tcp' = [tcp EXCEPT ![s] = AfterRead(ReadData(@))]
    /\ proc' \in Touch({s})
    /\ UNCHANGED <<lastid, mem, m_sessions, linked, peer, stack, m_shutdown, opened, closed, stale, lost>>

(* on_send: ASSERT(status != 0), so only a failed write lets the process go on *)
WriteSucceeds(s) ==
    /\ InLoop
    /\ tcp[s].writes > 0
    /\ proc' = "on_send"
    /\ UNCHANGED <<lastid, mem, m_sessions, tcp, linked, peer, stack, m_shutdown, opened, closed, stale, lost>>

(***************************************************************************)
(* on_send of a failed write.  Of sends that shared m_write the list may   *)
(* have kept a single completion: nothing says that each of them is ever   *)
(* processed.                                                              *)
(***************************************************************************)
WriteFails(s) ==
    /\ InLoop
    /\ tcp[s].writes > 0
    /\ tcp' = [tcp EXCEPT ![s] = WriteReqDone(@)]
    /\ proc' \in Touch({s})
    /\ UNCHANGED <<lastid, mem, m_sessions, linked, peer, stack, m_shutdown, opened, closed, stale, lost>>

(* uv_poll takes completions of two sends, and inserts the one m_write twice *)
WriteInsertedTwice(s) ==
    /\ InLoop
    /\ tcp[s].writes > 1
    /\ lost' \in Inserted
    /\ proc' \in {"running", "crashed"}
    /\ UNCHANGED <<lastid, mem, m_sessions, tcp, linked, peer, stale, stack, m_shutdown, opened, closed>>

(***************************************************************************)
(* uv_process_endgames: QUEUE_REMOVE, and the close callback, which frees  *)
(* the address of a member of the session.                                 *)
(***************************************************************************)
Endgame(s) ==
    /\ InLoop
    /\ tcp[s].endgame
    /\ tcp' = [tcp EXCEPT ![s].endgame = FALSE]
    /\ linked' = linked \ {s}
    /\ proc' \in {"running", "crashed"}
    /\ UNCHANGED <<lastid, mem, m_sessions, peer, stack, m_shutdown, opened, closed, stale, lost>>

Next ==
    \/ Initialize
    \/ Accept \/ AcceptFails \/ AcceptError
    \/ \E s \in Id : HandlerCloses(s)
    \/ \E s \in Id, long \in BOOLEAN : HandlerSends(s, long)
    \/ HandlerShutsDown
    \/ HandlerConnects
    \/ ReturnNew \/ ReturnReceive \/ ReturnClose \/ ReturnUpdate
    \/ Update
    \/ \E s \in Id : PeerEnds(s)
    \/ \E s \in Id : ReadMessage(s)
    \/ \E s \in Id : ReadIgnored(s)
    \/ \E s \in Id : ReadEnds(s)
    \/ \E s \in Id : ReadCancelled(s)
    \/ \E s \in Id : WriteSucceeds(s)
    \/ \E s \in Id : WriteFails(s)
    \/ \E s \in Id : WriteInsertedTwice(s)
    \/ \E s \in Id : Endgame(s)

Spec == Init /\ [][Next]_vars

(***************************************************************************)
(* The handler's callbacks return; uv_run(UV_RUN_NOWAIT) returns, so the   *)
(* update comes again and again (not if the walk is endless); the          *)
(* completion port delivers every completed read, and uv_process_reqs      *)
(* comes to it, if the list has not lost it.                               *)
(***************************************************************************)
Fairness ==
    /\ WF_vars(HandlerReturns)
    /\ SF_vars(Update)
    /\ \A s \in Id : SF_vars(ReadEnds(s))

FairSpec == Spec /\ Fairness

-----------------------------------------------------------------------------
(***************************************************************************)
(* Sessions are named by ids handed out.  libuv's counters do not go below *)
(* 0, unless sends that share m_write make the walk over the completed     *)
(* requests endless: there the model stops, with proc = "endless".         *)
(***************************************************************************)
TypeOK ==
    /\ lastid \in 0 .. MaxId
    /\ mem \in [Id -> {"none", "live", "freed"}]
    /\ m_sessions \in SUBSET Id
    /\ tcp \in [Id -> Handle]
    /\ linked \in SUBSET Id
    /\ stale \in SUBSET Id
    /\ lost \in SUBSET Id
    /\ peer \in [Id -> {"open", "eof", "reset", "fail"}]
    /\ stack \in Seq(Frame)
    /\ m_shutdown \in BOOLEAN
    /\ proc \in {"starting", "running", "exited", "crashed", "endless"} \cup Asserts
    /\ opened \in SUBSET Id
    /\ closed \in SUBSET Id

(* The process is in order; when it has ended or the walk is endless, its state means nothing. *)
Alive == proc \in {"starting", "running"}

(* The process has exited, crashed or failed an ASSERT. *)
Ended == ~Alive /\ proc # "endless"

Closing == {stack[k].s : k \in {j \in 1 .. Len(stack) : stack[j].fn = "close"}}

(***************************************************************************)
(* While the process runs, the map holds exactly the sessions the handler  *)
(* was told of and not yet told to forget, and all of them are allocated:  *)
(* getsession never returns a deleted session, whatever callback closes    *)
(* whatever session.                                                       *)
(***************************************************************************)
RegistrySound ==
    Alive => m_sessions = opened \ closed /\ \A s \in m_sessions : mem[s] = "live"

(***************************************************************************)
(* No session is leaked: an allocated one is in the map, or closesession   *)
(* is about to delete it; and none is left when the process exits.         *)
(***************************************************************************)
NoSessionLeak ==
    \A s \in Id : mem[s] = "live" =>
        /\ proc # "exited"
        /\ Alive => s \in m_sessions \/ s \in Closing

(***************************************************************************)
(* libuv makes read callbacks only for sessions of the map: on_receive_    *)
(* head never runs on a session that closesession has deleted.  (Provided  *)
(* on_newsession does not close the session it announces: on_accept would  *)
(* start reading the deleted session.)                                     *)
(***************************************************************************)
ReadsReachRegistered ==
    Alive /\ "new" \notin CloseOwnIn => \A s \in Id : tcp[s].reading => s \in m_sessions

(***************************************************************************)
(* No deaf session: in the loop, every session of the map is being read,   *)
(* so that its end will be noticed; and its read is not lost, if the       *)
(* application never sends to a session before the last send is finished.  *)
(***************************************************************************)
NoDeafSession ==
    InLoop => \A s \in m_sessions :
        /\ tcp[s].reading /\ tcp[s].pending /\ ~tcp[s].closing
        /\ MaxWrites <= 1 => s \notin lost

(* Every callback that is given a session is given an allocated one. *)
CallbacksGetLiveSessions ==
    [][Len(stack') > Len(stack) =>
          LET f == stack'[Len(stack')] IN f.s # 0 => mem'[f.s] = "live"]_vars

(***************************************************************************)
(* The sequence of callbacks the handler sees, nested ones included, is    *)
(* one HandlerContract allows.  (Same proviso as ReadsReachRegistered.)    *)
(***************************************************************************)
Contract == INSTANCE HandlerContract WITH
    open  <- opened \ closed,
    gone  <- closed,
    calls <- [k \in 1 .. Len(stack) |-> <<stack[k].fn, stack[k].s>>]

ImplementsHandlerContract == Contract!Spec

(***************************************************************************)
(* When the peer of a session is gone, the session is closed, or the       *)
(* process ends; unless sends that shared m_write have lost the session's  *)
(* read, or made the walk over the completed requests endless.             *)
(***************************************************************************)
DisconnectNoticed ==
    \A s \in Id :
        s \in m_sessions /\ peer[s] # "open" ~>
            s \notin m_sessions \/ Ended \/ s \in lost \/ proc = "endless"

(***************************************************************************)
(* After shutdown() the process ends, whatever reads were lost; unless     *)
(* sends that shared m_write made the walk over the completed requests     *)
(* endless, so that uv_run does not return and run() never sees it.        *)
(***************************************************************************)
ShutdownEnds == m_shutdown ~> Ended \/ proc = "endless"

(***************************************************************************)
(* docs of libuv, handle.rst, of uv_close: "This MUST be called on each    *)
(* handle before memory is released."                                      *)
(***************************************************************************)
ClosedBeforeReleased == proc = "running" => \A s \in Id : mem[s] = "freed" => tcp[s].closing

(* uv_tcp_server::on_send: ASSERT(status != 0) never fails. *)
SendAssertionHolds == proc # "on_send"

(***************************************************************************)
(* docs of libuv, stream.rst, of uv_write: "The memory pointed to by the   *)
(* buffers must remain valid until the callback gets called."  The buffer  *)
(* is the session's m_writebuf.                                            *)
(***************************************************************************)
WriteBuffersValid == proc = "running" => \A s \in Id : tcp[s].writes > 0 => mem[s] = "live"

=============================================================================
