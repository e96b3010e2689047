------------------------------- MODULE UvTcp --------------------------------
(***************************************************************************)
(* The uv_tcp_t handle as the service uses it: the Windows backend of the  *)
(* vendored libuv 1.19.2 (the sources under libs/network use winsock names *)
(* and build with Visual Studio).  A handle is a record                    *)
(*    reading, readable, writable, closing   the UV_HANDLE_* flags         *)
(*    pending     a zero-length WSARecv is with the kernel                 *)
(*    writes      write requests not completed                             *)
(*    reqs        reqs_pending: the read being waited for or processed,    *)
(*                and the writes                                           *)
(*    endgame     the handle is in loop->endgame_handles                   *)
(* activecnt is 1 while reading, plus the writes.                          *)
(***************************************************************************)
EXTENDS Naturals

Handle == [reading : BOOLEAN, readable : BOOLEAN, writable : BOOLEAN, closing : BOOLEAN,
           pending : BOOLEAN, writes : Nat, reqs : Nat, endgame : BOOLEAN]

uv_tcp_init ==
    [reading |-> FALSE, readable |-> FALSE, writable |-> FALSE, closing |-> FALSE,
     pending |-> FALSE, writes |-> 0, reqs |-> 0, endgame |-> FALSE]

uv_accept(h) == [h EXCEPT !.readable = TRUE, !.writable = TRUE]

uv_is_active(h) == (h.reading \/ h.writes > 0) /\ ~h.closing

(* uv_want_endgame, when the handle is closing and has no request left *)
WantEndgame(h) == [h EXCEPT !.endgame = @ \/ (h.closing /\ h.reqs = 0)]

(* DECREASE_PENDING_REQ_COUNT *)
ReqDone(h) == WantEndgame([h EXCEPT !.reqs = @ - 1])

(* uv_tcp_queue_read, unless a read is already with the kernel *)
QueueRead(h) ==
    IF h.reading /\ ~h.pending THEN [h EXCEPT !.pending = TRUE, !.reqs = @ + 1] ELSE h

ReadStartResult(h) ==
    IF h.reading THEN "EALREADY" ELSE IF h.readable THEN "ok" ELSE "ENOTCONN"

uv_read_start(h) ==
    IF ReadStartResult(h) = "ok" THEN QueueRead([h EXCEPT !.reading = TRUE]) ELSE h

uv_read_stop(h) == [h EXCEPT !.reading = FALSE]

(* uv_tcp_close; only for a handle that is not closing: uv_close asserts it *)
uv_close(h) ==
    WantEndgame([h EXCEPT !.reading = FALSE, !.readable = FALSE,
                          !.writable = FALSE, !.closing = TRUE])

(***************************************************************************)
(* uv_tcp_write counts the request whether WSASend completes it, queues it *)
(* or fails; what becomes of a request given to it twice is Service's      *)
(* Reused and WriteInsertedTwice.                                          *)
(***************************************************************************)
uv_write(h) == [h EXCEPT !.writes = @ + 1, !.reqs = @ + 1]

WriteReqDone(h) == ReqDone([h EXCEPT !.writes = @ - 1])

(***************************************************************************)
(* uv_process_tcp_read_req up to the read callback: the request is no      *)
(* longer pending; end of file and errors stop the reading first.          *)
(***************************************************************************)
ReadData(h)  == [h EXCEPT !.pending = FALSE]
ReadEof(h)   == [h EXCEPT !.pending = FALSE, !.reading = FALSE, !.readable = FALSE]
ReadError(h) == [h EXCEPT !.pending = FALSE, !.reading = FALSE]

(* ... and after it: read again while reading, and account for the request. *)
AfterRead(h) == ReqDone(QueueRead(h))

=============================================================================
