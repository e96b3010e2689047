------------------------------ MODULE MCPacket ------------------------------
(* Sizes for Packet. *)
EXTENDS Packet
SmallSizes == {0, 1, 2}
=============================================================================
