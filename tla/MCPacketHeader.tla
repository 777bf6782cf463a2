--------------------------- MODULE MCPacketHeader ---------------------------
(* Bytes have two values, so that lengths are at most seven.                *)
EXTENDS PacketHeader
=============================================================================
