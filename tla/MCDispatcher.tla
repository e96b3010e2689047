---------------------------- MODULE MCDispatcher ----------------------------
(* Model values for Dispatcher. *)
EXTENDS Dispatcher
CONSTANTS login, logout, a, b, c
MCIds == {login, logout}
MCListeners == {a, b, c}
MCNull == {c}
AllOps == {"listen", "unlisten", "clear", "dispatch"}
=============================================================================
