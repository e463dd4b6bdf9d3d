---------------------------- MODULE MCHandshake ----------------------------
(* A server that admits one connection, and three connections of which either side
   may still know: a dial may meet the ones before it in the server's count. *)
EXTENDS Handshake
=============================================================================
