------------------------------ MODULE MCMyBuf ------------------------------
(* MyBuf on a buffer of one byte and an int of at most 9: capacities 1, 2,  *)
(* 4 and 8, then the doubling loop overflows; inputs of up to two bytes.    *)
EXTENDS MyBuf
=============================================================================
