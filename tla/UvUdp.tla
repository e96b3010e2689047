------------------------------- MODULE UvUdp --------------------------------
(***************************************************************************)
(* The uv_udp_t handle and the loop's list of completed requests, as the   *)
(* UDP server uses them: the Windows backend of the vendored libuv 1.19.2. *)
(* A handle is a record                                                    *)
(*    reading        UV_HANDLE_READING                                     *)
(*    read_pending   UV_HANDLE_READ_PENDING: recv_req is with the kernel   *)
(*                   or in the list                                        *)
(*    closing        UV__HANDLE_CLOSING, the socket is closed              *)
(*    activecnt      1 while reading, plus the sends not completed         *)
(*    reqs_pending   requests not processed                                *)
(*    end            "no", "wanted" (in loop->endgame_handles), "closed"   *)
(***************************************************************************)
EXTENDS Integers

UdpHandle == [reading : BOOLEAN, read_pending : BOOLEAN, closing : BOOLEAN,
              activecnt : Nat, reqs_pending : Nat, end : {"no", "wanted", "closed"}]

uv_udp_init ==
    [reading |-> FALSE, read_pending |-> FALSE, closing |-> FALSE,
     activecnt |-> 0, reqs_pending |-> 0, end |-> "no"]

uv_is_active(h) == h.activecnt > 0 /\ ~h.closing

(* Faulty: a closing handle is ended although it has requests left. *)
WantEndgameEarly(h) == IF h.closing THEN [h EXCEPT !.end = "wanted"] ELSE h

(* uv_want_endgame, when the handle is closing and has no request left *)
WantEndgame(h) ==
    IF h.closing /\ h.reqs_pending = 0 THEN [h EXCEPT !.end = "wanted"] ELSE h

(* DECREASE_PENDING_REQ_COUNT *)
ReqDone(h) == WantEndgame([h EXCEPT !.reqs_pending = @ - 1])

uv_udp_recv_stop(h) ==
    IF h.reading THEN [h EXCEPT !.reading = FALSE, !.activecnt = @ - 1] ELSE h

(* uv_udp_close; uv_close asserts that the handle is not closing *)
uv_close(h) == WantEndgame([uv_udp_recv_stop(h) EXCEPT !.closing = TRUE])

(* uv__send, when WSASendTo does not fail *)
uv_udp_send(h) == [h EXCEPT !.reqs_pending = @ + 1, !.activecnt = @ + 1]

(* Faulty: the request is unregistered twice. *)
SendReqDoneTwice(h) == ReqDone([h EXCEPT !.activecnt = @ - 2])

(* uv_process_udp_send_req, around the callback *)
SendReqDone(h) == ReqDone([h EXCEPT !.activecnt = @ - 1])

(***************************************************************************)
(* uv_udp_queue_recv: a zero-length receive is issued, or fails and goes   *)
(* to the list of completed requests.                                      *)
(***************************************************************************)
QueueRecv(h)       == [h EXCEPT !.read_pending = TRUE, !.reqs_pending = @ + 1]
QueueRecvFailed(h) == [h EXCEPT !.reqs_pending = @ + 1]

-----------------------------------------------------------------------------
(***************************************************************************)
(* loop->pending_reqs_tail: a circular list linked by next_req; NULL is    *)
(* "none".  A list is [next, tail].                                        *)
(***************************************************************************)
EmptyList(Req) == [next |-> [r \in Req |-> "none"], tail |-> "none"]

(* Faulty: the new request is linked behind the first one, and the tail stays. *)
InsertNotLast(list, req) ==
    IF list.tail = "none"
    THEN [next |-> [list.next EXCEPT ![req] = req], tail |-> req]
    ELSE [next |-> [list.next EXCEPT ![req] = list.next[list.tail]], tail |-> req]

(* uv_insert_pending_req, assignment by assignment: it does not see whether *)
(* req is already in the list.                                              *)
uv_insert_pending_req(list, req) ==
    LET n0 == [list.next EXCEPT ![req] = "none"] IN
    IF list.tail = "none"
    THEN [next |-> [n0 EXCEPT ![req] = req], tail |-> req]
    ELSE LET n1 == [n0 EXCEPT ![req] = n0[list.tail]]
         IN  [next |-> [n1 EXCEPT ![list.tail] = req], tail |-> req]

=============================================================================
