---------------------------- MODULE MCUdpServer -----------------------------
(* uv_udp_server with a buffer of 2 units and datagrams around that length. *)
EXTENDS UdpServer

=============================================================================
