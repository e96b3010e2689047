-------------------------- MODULE HandlerContract ---------------------------
(***************************************************************************)
(* What uv_service promises an implementation of uv_service_handler about  *)
(* sessions: on_newsession once, then on_tcpreceive any number of times,   *)
(* then on_closesession at most once and nothing after it.  Callbacks nest *)
(* only because a callback closes sessions.                                *)
(***************************************************************************)
EXTENDS Naturals, Sequences

CONSTANT Id

VARIABLES
    open,    \* sessions announced and not closed
    gone,    \* sessions closed
    calls    \* callbacks in progress, innermost last: <<name, session>>

contractVars == <<open, gone, calls>>

Init == open = {} /\ gone = {} /\ calls = <<>>

NewSession(s) ==
    /\ calls = <<>>
    /\ s \notin open \cup gone
    /\ open' = open \cup {s}
    /\ calls' = <<<<"new", s>>>>
    /\ UNCHANGED gone

TcpReceive(s) ==
    /\ calls = <<>>
    /\ s \in open
    /\ calls' = <<<<"receive", s>>>>
    /\ UNCHANGED <<open, gone>>

CloseSession(s) ==
    /\ s \in open
    /\ open' = open \ {s}
    /\ gone' = gone \cup {s}
    /\ calls' = Append(calls, <<"close", s>>)

Update ==
    /\ calls = <<>>
    /\ calls' = <<<<"update", 0>>>>
    /\ UNCHANGED <<open, gone>>

Return ==
    /\ calls # <<>>
    /\ calls' = SubSeq(calls, 1, Len(calls) - 1)
    /\ UNCHANGED <<open, gone>>

Next ==
    \/ \E s \in Id : NewSession(s) \/ TcpReceive(s) \/ CloseSession(s)
    \/ Update
    \/ Return

Spec == Init /\ [][Next]_contractVars

=============================================================================
