----------------------------- MODULE MCFraming ------------------------------
(* ints of 2 bytes, heads of 12, a buffer of 16: bodies that are empty, that *)
(* fit with room to spare, that fit exactly, and that do not fit.            *)
EXTENDS Framing
MCBodySizes == {0, 2, 4, 7}
=============================================================================
