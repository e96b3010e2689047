----------------------------- MODULE UdpServer ------------------------------
(***************************************************************************)
(* uv_udp_server on libuv's loop: one receive request that is always under *)
(* way, and one send request and one buffer for all datagrams sent.        *)
(*                                                                         *)
(* One thread runs uv_run and the application's update() in turn.  uv_run  *)
(* processes the list of completed requests ("walk"), polls the completion *)
(* port (the Poll actions put requests into the list), and ends closed     *)
(* handles.  The application sends from inside callbacks ("cb") and from   *)
(* update().  "other" stands for a request of some other handle of the     *)
(* same loop, a TCP session say: it is completed, called back and issued   *)
(* again.                                                                  *)
(*                                                                         *)
(* The k-th datagram sent is called k.  A send is premature if on_send of  *)
(* the previous one has not run yet; the history variable "premature"      *)
(* remembers whether there was one.  Nothing in the class prevents it.     *)
(***************************************************************************)
EXTENDS UvUdp, Sequences, FiniteSets

CONSTANTS
    PACKET_BUFFER_SIZE,
    Lengths,        \* lengths of datagrams sent
    MaxSends,       \* bound on the datagrams sent
    MaxWaiting      \* bound on the datagrams waiting in the socket

ASSUME UdpAssumption ==
    /\ PACKET_BUFFER_SIZE \in Nat
    /\ Lengths \subseteq Nat
    /\ MaxSends \in Nat
    /\ MaxWaiting \in Nat

VARIABLES
    m_init,
    m_writebuf,   \* [len, block, holds]: its length, the size of the block it
                  \* points to, and the datagram last copied into it
    handle,       \* m_handle
    kernel,       \* [recv, other : BOOLEAN, sends : SUBSET Nat]: what the kernel has
    list,         \* completed requests: loop->pending_reqs_tail
    failed,       \* the completed recv_req reports an error
    walk,         \* uv_process_reqs: [first, at], at = "none" if not running
    cb,           \* the callback in progress: "none", "receive" or "other"
    waiting,      \* datagrams in the socket
    sent,         \* how many datagrams were sent
    premature,    \* history: see above
    garbled,      \* history: a datagram left with other bytes than were given to send
    proc          \* "starting", "running", "exited", "crashed", "assert", "corrupt"

vars == <<m_init, m_writebuf, handle, kernel, list, failed, walk, cb, waiting,
          sent, premature, garbled, proc>>

Req == {"recv", "send", "other"}

Init ==
    /\ m_init = FALSE
    /\ m_writebuf = [len |-> PACKET_BUFFER_SIZE, block |-> PACKET_BUFFER_SIZE, holds |-> 0]
    /\ handle = uv_udp_init
    /\ kernel = [recv |-> FALSE, other |-> TRUE, sends |-> {}]
    /\ list = EmptyList(Req)
    /\ failed = FALSE
    /\ walk = [first |-> "none", at |-> "none"]
    /\ cb = "none"
    /\ waiting = 0
    /\ sent = 0
    /\ premature = FALSE
    /\ garbled = FALSE
    /\ proc = "starting"

(* Outside uv_process_reqs: polling, or the application's update(). *)
Idle == proc = "running" /\ walk.at = "none" /\ cb = "none"

(* The application runs: in update() or in a callback made to it. *)
InApp == Idle \/ (proc = "running" /\ cb # "none")

(* Sends on whose on_send the loop still has to call. *)
Unfinished == handle.activecnt - (IF handle.reading THEN 1 ELSE 0)

(* A datagram arrives from the network. *)
Arrive ==
    /\ proc = "running"
    /\ ~handle.closing
    /\ waiting < MaxWaiting
    /\ waiting' = waiting + 1
    /\ UNCHANGED <<m_init, m_writebuf, handle, kernel, list, failed, walk, cb, sent,
                   premature, garbled, proc>>

-----------------------------------------------------------------------------
(***************************************************************************)
(* uv_udp_queue_recv: the kernel keeps the request; or a datagram is there *)
(* and the request goes to the list at once; or it goes there as failed.   *)
(***************************************************************************)
queue_recv(h) ==
    \/ /\ handle' = QueueRecv(h)
       /\ kernel' = [kernel EXCEPT !.recv = TRUE]
       /\ UNCHANGED <<list, failed>>
    \/ /\ waiting > 0
       /\ handle' = QueueRecv(h)
       /\ list' = uv_insert_pending_req(list, "recv")
       /\ failed' = FALSE
       /\ UNCHANGED kernel
    \/ /\ handle' = QueueRecvFailed(h)
       /\ list' = uv_insert_pending_req(list, "recv")
       /\ failed' = TRUE
       /\ UNCHANGED kernel

(* initialize: uv_udp_init, bind, listen; every failure ends in an ASSERT. *)
Initialize ==
    /\ proc = "starting"
    /\ \/ /\ queue_recv([uv_udp_init EXCEPT !.reading = TRUE, !.activecnt = 1])
          /\ m_init' = TRUE
          /\ proc' = "running"
       \/ /\ proc' = "assert"
          /\ UNCHANGED <<handle, kernel, list, failed, m_init>>
    /\ UNCHANGED <<m_writebuf, walk, cb, waiting, sent, premature, garbled>>

(* Faulty: the buffer is taken to be as large as it was at first. *)
FilledNoGrow(n, k) == [m_writebuf EXCEPT !.len = n, !.holds = k]

(***************************************************************************)
(* The buffer after the first half of send: a block that is too small,     *)
(* judged by the length of the previous datagram, is reallocated; the      *)
(* bytes are copied; len becomes the length of this datagram.              *)
(***************************************************************************)
Filled(n, k) ==
    [len   |-> n,
     block |-> IF m_writebuf.len < n THEN n ELSE m_writebuf.block,
     holds |-> k]

(* Faulty: the request is issued before the bytes are copied. *)
SendTooEarly(n) ==
    /\ InApp
    /\ sent < MaxSends
    /\ m_writebuf' = Filled(n, sent + 1)
    /\ sent' = sent + 1
    /\ premature' = (premature \/ Unfinished > 0)
    /\ handle' = uv_udp_send(handle)
    /\ list' = uv_insert_pending_req(list, "send")
    /\ garbled' = (garbled \/ m_writebuf.holds # sent + 1)
    /\ UNCHANGED <<m_init, kernel, failed, walk, cb, waiting, proc>>

(***************************************************************************)
(* send.  WSASendTo fails (always once the socket is closed), and the      *)
(* ASSERT ends the process; or it sends at once, and the request goes to   *)
(* the list; or the kernel keeps request and buffer.  A premature send     *)
(* overwrites a request in use: the program may go on or crash.            *)
(***************************************************************************)
send(n) ==
    LET k == sent + 1 IN
    /\ InApp
    /\ sent < MaxSends
    /\ m_writebuf' = Filled(n, k)
    /\ sent' = k
    /\ premature' = (premature \/ Unfinished > 0)
    /\ \/ /\ proc' = "assert"
          /\ UNCHANGED <<handle, list, kernel>>
       \/ /\ ~handle.closing
          /\ handle' = uv_udp_send(handle)
          /\ list' = uv_insert_pending_req(list, "send")
          /\ proc' \in IF Unfinished = 0 THEN {"running"} ELSE {"running", "crashed"}
          /\ UNCHANGED kernel
       \/ /\ ~handle.closing
          /\ handle' = uv_udp_send(handle)
          /\ kernel' = [kernel EXCEPT !.sends = @ \cup {k}]
          /\ proc' \in IF Unfinished = 0 THEN {"running"} ELSE {"running", "crashed"}
          /\ UNCHANGED list
    /\ UNCHANGED <<m_init, failed, walk, cb, waiting, garbled>>

(* Faulty: without the test of is_active. *)
CloseAlways(h) == uv_close(h)

(* close: uv_close, if the handle is active *)
close(h) == IF uv_is_active(h) THEN uv_close(h) ELSE h

(* The application closes the server. *)
AppCloses ==
    /\ InApp
    /\ handle' = close(handle)
    /\ m_init' = FALSE
    /\ UNCHANGED <<m_writebuf, kernel, list, failed, walk, cb, waiting, sent, premature,
                   garbled, proc>>

(* ~uv_service: close() and ~uv_udp_server; the loop does not run again. *)
Exit ==
    /\ Idle
    /\ handle' = close(handle)
    /\ m_init' = FALSE
    /\ m_writebuf' = [len |-> 0, block |-> 0, holds |-> 0]
    /\ proc' = "exited"
    /\ UNCHANGED <<kernel, list, failed, walk, cb, waiting, sent, premature, garbled>>

-----------------------------------------------------------------------------
(* uv_poll: completed requests go to the list. *)

(***************************************************************************)
(* The zero-length receive completes: there is a datagram or the rejection *)
(* of one sent earlier, or an error; closing the socket is an error too.   *)
(***************************************************************************)
PollRecv ==
    /\ Idle
    /\ kernel.recv
    /\ \/ (waiting > 0 \/ sent > 0) /\ ~handle.closing /\ failed' = FALSE
       \/ failed' = TRUE
    /\ kernel' = [kernel EXCEPT !.recv = FALSE]
    /\ list' = uv_insert_pending_req(list, "recv")
    /\ UNCHANGED <<m_init, m_writebuf, handle, walk, cb, waiting, sent, premature, garbled, proc>>

(* The kernel has taken the bytes of datagram k from the buffer. *)
PollSend(k) ==
    /\ Idle
    /\ k \in kernel.sends
    /\ kernel' = [kernel EXCEPT !.sends = @ \ {k}]
    /\ garbled' = (garbled \/ m_writebuf.holds # k)
    /\ list' = uv_insert_pending_req(list, "send")
    /\ proc' \in IF premature THEN {"running", "crashed"} ELSE {"running"}
    /\ UNCHANGED <<m_init, m_writebuf, handle, failed, walk, cb, waiting, sent, premature>>

PollOther ==
    /\ Idle
    /\ kernel.other
    /\ kernel' = [kernel EXCEPT !.other = FALSE]
    /\ list' = uv_insert_pending_req(list, "other")
    /\ UNCHANGED <<m_init, m_writebuf, handle, failed, walk, cb, waiting, sent, premature,
                   garbled, proc>>

(* uv_process_endgames: on_close frees the address of a member. *)
Endgame ==
    /\ Idle
    /\ handle.end = "wanted"
    /\ handle' = [handle EXCEPT !.end = "closed"]
    /\ proc' \in {"running", "crashed"}
    /\ UNCHANGED <<m_init, m_writebuf, kernel, list, failed, walk, cb, waiting, sent,
                   premature, garbled>>

-----------------------------------------------------------------------------
(* uv_process_reqs *)

ProcessReqs ==
    /\ Idle
    /\ list.tail # "none"
    /\ walk' = [first |-> list.next[list.tail], at |-> list.next[list.tail]]
    /\ list' = [list EXCEPT !.tail = "none"]
    /\ UNCHANGED <<m_init, m_writebuf, handle, kernel, failed, cb, waiting, sent, premature,
                   garbled, proc>>

(* Request r is one of those that the handle counts. *)
Counted(r) ==
    CASE r = "send" -> Unfinished > 0 /\ handle.reqs_pending > 0
      [] r = "recv" -> handle.reqs_pending > 0
      [] OTHER      -> TRUE

(* The walk stands on request r and, before processing it, moves on. *)
Process(r) ==
    /\ proc = "running"
    /\ cb = "none"
    /\ walk.at = r
    /\ Counted(r)
    /\ walk' = [walk EXCEPT !.at = IF list.next[r] = walk.first THEN "none" ELSE list.next[r]]

(* The walk has run into a cycle, and a count goes below zero. *)
ProcessUncounted ==
    /\ proc = "running"
    /\ cb = "none"
    /\ walk.at # "none"
    /\ ~Counted(walk.at)
    /\ proc' = "corrupt"
    /\ UNCHANGED <<m_init, m_writebuf, handle, kernel, list, failed, walk, cb, waiting, sent,
                   premature, garbled>>

(* uv_process_udp_send_req and on_send: a failed send ends in an ASSERT. *)
ProcessSend ==
    /\ Process("send")
    /\ handle' = SendReqDone(handle)
    /\ proc' \in {"running", "assert"}
    /\ UNCHANGED <<m_init, m_writebuf, kernel, list, failed, cb, waiting, sent, premature, garbled>>

(* Faulty: receiving goes on only if more datagrams are waiting. *)
RecvDoneIfWaiting(h) ==
    IF h.reading /\ ~h.read_pending /\ waiting > 0
    THEN queue_recv(ReqDone(h))
    ELSE handle' = ReqDone(h) /\ UNCHANGED <<kernel, list, failed>>

(***************************************************************************)
(* The end of uv_process_udp_recv_req: receive again while reading.  (The  *)
(* finished request is uncounted after the new one is counted; a handle    *)
(* that is reading is not closing, so the order makes no difference.)      *)
(***************************************************************************)
RecvDone(h) ==
    IF h.reading /\ ~h.read_pending
    THEN queue_recv(ReqDone(h))
    ELSE handle' = ReqDone(h) /\ UNCHANGED <<kernel, list, failed>>

Received == [handle EXCEPT !.read_pending = FALSE]

(* on_receive(nread > 0): service->on_udpreceive, up to the application *)
ReceiveDatagram ==
    /\ Process("recv")
    /\ ~failed
    /\ handle.reading
    /\ waiting > 0
    /\ waiting' = waiting - 1
    /\ cb' = "receive"
    /\ handle' = Received
    /\ UNCHANGED <<m_init, m_writebuf, kernel, list, failed, sent, premature, garbled, proc>>

(* Faulty: an empty datagram stops the receiving. *)
ReceiveNothingStops ==
    /\ Process("recv")
    /\ ~failed
    /\ handle.reading
    /\ waiting' \in {waiting, waiting - 1} \cap Nat
    /\ RecvDone(uv_udp_recv_stop(Received))
    /\ UNCHANGED <<m_init, m_writebuf, cb, sent, premature, garbled, proc>>

(* on_receive(nread = 0): an empty datagram, a rejection, or none is there after all. *)
ReceiveNothing ==
    /\ Process("recv")
    /\ ~failed
    /\ handle.reading
    /\ waiting' \in {waiting, waiting - 1} \cap Nat
    /\ RecvDone(Received)
    /\ UNCHANGED <<m_init, m_writebuf, cb, sent, premature, garbled, proc>>

(* on_receive(nread < 0): libuv has stopped receiving; the server is closed. *)
ReceiveError ==
    /\ Process("recv")
    /\ handle.reading
    /\ RecvDone(close(uv_udp_recv_stop(Received)))
    /\ m_init' = FALSE
    /\ UNCHANGED <<m_writebuf, cb, waiting, sent, premature, garbled, proc>>

(* The receive of a handle that was closed meanwhile: no callback. *)
ReceiveCancelled ==
    /\ Process("recv")
    /\ ~handle.reading
    /\ RecvDone(Received)
    /\ UNCHANGED <<m_init, m_writebuf, cb, waiting, sent, premature, garbled, proc>>

(* The application returns from on_udpreceive. *)
ReturnReceive ==
    /\ proc = "running"
    /\ cb = "receive"
    /\ cb' = "none"
    /\ RecvDone(handle)
    /\ UNCHANGED <<m_init, m_writebuf, walk, waiting, sent, premature, garbled, proc>>

(* The other handle's request: its callback, and then it is issued again. *)
ProcessOther ==
    /\ Process("other")
    /\ cb' = "other"
    /\ UNCHANGED <<m_init, m_writebuf, handle, kernel, list, failed, waiting, sent,
                   premature, garbled, proc>>

ReturnOther ==
    /\ proc = "running"
    /\ cb = "other"
    /\ cb' = "none"
    /\ kernel' = [kernel EXCEPT !.other = TRUE]
    /\ UNCHANGED <<m_init, m_writebuf, handle, list, failed, walk, waiting, sent,
                   premature, garbled, proc>>

Next ==
    \/ Arrive
    \/ Initialize
    \/ \E n \in Lengths : send(n)
    \/ AppCloses
    \/ Exit
    \/ PollRecv
    \/ \E k \in 1 .. MaxSends : PollSend(k)
    \/ PollOther
    \/ Endgame
    \/ ProcessReqs
    \/ ProcessUncounted
    \/ ProcessSend
    \/ ReceiveDatagram \/ ReceiveNothing \/ ReceiveError \/ ReceiveCancelled
    \/ ReturnReceive
    \/ ProcessOther \/ ReturnOther

Spec == Init /\ [][Next]_vars

(***************************************************************************)
(* The loop keeps running and callbacks return.  Every iteration polls the *)
(* completion port, which is first in, first out (strong fairness: the     *)
(* loop is not idle all the time).  Not every read of the socket reports   *)
(* the rejection of an earlier send.                                       *)
(***************************************************************************)
TakesDatagram == (ReceiveDatagram \/ ReceiveNothing) /\ waiting' < waiting

FairSpec ==
    /\ Spec
    /\ SF_vars(PollRecv)
    /\ SF_vars(TakesDatagram)
    /\ WF_vars(ProcessReqs)
    /\ WF_vars(ProcessUncounted \/ ProcessSend \/ ProcessOther \/ ReceiveDatagram
                \/ ReceiveNothing \/ ReceiveError \/ ReceiveCancelled)
    /\ WF_vars(ReturnReceive \/ ReturnOther)

-----------------------------------------------------------------------------
TypeOK ==
    /\ m_init \in BOOLEAN
    /\ m_writebuf \in [len : Nat, block : Nat, holds : 0 .. MaxSends]
    /\ handle \in UdpHandle
    /\ kernel \in [recv : BOOLEAN, other : BOOLEAN, sends : SUBSET (1 .. MaxSends)]
    /\ list \in [next : [Req -> Req \cup {"none"}], tail : Req \cup {"none"}]
    /\ failed \in BOOLEAN
    /\ walk \in [first : Req \cup {"none"}, at : Req \cup {"none"}]
    /\ cb \in {"none", "receive", "other"}
    /\ waiting \in 0 .. MaxWaiting
    /\ sent \in 0 .. MaxSends
    /\ premature \in BOOLEAN
    /\ garbled \in BOOLEAN
    /\ proc \in {"starting", "running", "exited", "crashed", "assert", "corrupt"}

(* The request after r on the way along next_req back to first; "none" if that is next. *)
Along(next, r, first) == IF r = "none" \/ next[r] = first THEN "none" ELSE next[r]

(* The requests met on that way: there are three in all. *)
Chain(next, r, first) ==
    LET s == Along(next, r, first)
        t == Along(next, s, first)
    IN  {r, s, t, Along(next, t, first)} \ {"none"}

Listed  == IF list.tail = "none" THEN {}
           ELSE Chain(list.next, list.next[list.tail], list.next[list.tail])
Walked  == Chain(list.next, walk.at, walk.first)

(* Where request r is: with the kernel, in the list, or ahead of the walk. *)
Places(r) ==
    (IF r \in Listed THEN 1 ELSE 0) + (IF r \in Walked THEN 1 ELSE 0)
    + CASE r = "recv"  -> (IF kernel.recv THEN 1 ELSE 0) + (IF cb = "receive" THEN 1 ELSE 0)
        [] r = "send"  -> Cardinality(kernel.sends)
        [] r = "other" -> (IF kernel.other THEN 1 ELSE 0) + (IF cb = "other" THEN 1 ELSE 0)

(***************************************************************************)
(* Until a send is premature, the loop loses no request and processes none *)
(* twice: each is in one place, the other handle's included, and the       *)
(* handle counts as many as there are.                                     *)
(***************************************************************************)
Accounted ==
    ~premature =>
        /\ proc # "corrupt"
        /\ proc = "running" =>
              /\ handle.reqs_pending = Places("recv") + Places("send")
              /\ Unfinished = Places("send")
              /\ Places("recv") <= 1 /\ Places("send") <= 1 /\ Places("other") = 1

(***************************************************************************)
(* A server that reports to be initialized is receiving: no sequence of    *)
(* empty datagrams, rejections and failing receives leaves it deaf without *)
(* close() having run.  (A premature send does.)                           *)
(***************************************************************************)
NotDeaf ==
    (proc = "running" /\ m_init /\ ~premature) =>
        handle.reading /\ ~handle.closing /\ Places("recv") = 1

(* uv_buf_t.len never exceeds the block that send reallocates or reuses, in *)
(* whatever order short and long datagrams are sent.                        *)
BufferFits == m_writebuf.len <= m_writebuf.block

(* Bytes of one datagram leave as another one only if send is premature. *)
Intact == garbled => premature

(***************************************************************************)
(* Until a send is premature, on_close, which gives the handle's memory    *)
(* back, runs only when the kernel has no request of the handle any more.  *)
(***************************************************************************)
EndgameSafe ==
    (handle.end # "no" /\ ~premature) => ~kernel.recv /\ kernel.sends = {}

(***************************************************************************)
(* on_close runs once: close() from on_receive, from the application and   *)
(* from ~uv_service do not close a handle that is closing or closed.       *)
(***************************************************************************)
CloseOnce ==
    [][handle.closing /\ handle.end # handle'.end =>
          <<handle.end, handle'.end>> \in {<<"no", "wanted">>, <<"wanted", "closed">>}]_vars

(***************************************************************************)
(* Every datagram that arrives is read, also when it is the only one: the  *)
(* socket's queue runs empty again and again, or one is taken from it      *)
(* again and again; unless the server is closed, a send was premature, or  *)
(* the process has ended.                                                  *)
(***************************************************************************)
DatagramsRead ==
    \/ []<>(waiting = 0 \/ ~m_init \/ premature \/ proc # "running")
    \/ []<><<waiting' < waiting>>_vars

=============================================================================
