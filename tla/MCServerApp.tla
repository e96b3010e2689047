---------------------------- MODULE MCServerApp -----------------------------
(* The registration messages, and two other listeners. *)
EXTENDS ServerApp
CONSTANTS request, return, on_request, on_return, a, b
MCIds == {request, return}
MCListeners == {on_request, on_return, a, b}
MCNull == {}
AllOps == {"listen", "unlisten", "clear", "dispatch"}
=============================================================================
