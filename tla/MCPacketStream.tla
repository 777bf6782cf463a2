--------------------------- MODULE MCPacketStream ---------------------------
(* A connection on which a byte has two values, so that an int (a length, *)
(* a seed) has sixteen; the receive buffer starts with room for four bytes. *)
EXTENDS PacketStream

BitXor(a, b) == (a + b) % 2
=============================================================================
