------------------------------ MODULE MCService -----------------------------
(* Handlers for Service. *)
EXTENDS Service
AllOps == {"close", "send", "shutdown", "connect"}
InReceive == {"receive"}
InBoth == {"new", "receive"}
=============================================================================
