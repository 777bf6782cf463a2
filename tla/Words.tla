------------------------------- MODULE Words -------------------------------
(***************************************************************************)
(* Bytes and ints as the program uses them: an int is four bytes, two's    *)
(* complement, least significant byte first (as memcpy of an int into a    *)
(* byte buffer, and reading through a cast pointer, have it on x86).       *)
(***************************************************************************)
EXTENDS Integers, Sequences

CONSTANTS
    Base,       \* the number of values of a byte (256)
    MaxInt      \* the largest object size an int counts (2^31 - 1)

(* The program has MaxInt = Base^4 \div 2 - 1.  The two are independent    *)
(* here so that a small Base (short length fields) goes with buffers that  *)
(* can still grow, and the other way round.                                *)
ASSUME WordAssumption ==
    /\ Base \in Nat \ {0, 1}
    /\ MaxInt \in Nat \ {0}

Byte == 0..(Base - 1)

SizeofInt == 4
IntValues == Base * Base * Base * Base

\* The int that a value too large or too small for one becomes.
Wrapped(n) ==
    LET u == n % IntValues
    IN  IF u >= IntValues \div 2 THEN u - IntValues ELSE u

Unsigned(n) == n % IntValues

\* n without its least significant byte (n >> 8).
Shifted(n) == n \div Base

BytesOfInt(n) ==
    <<n % Base, Shifted(n) % Base, Shifted(Shifted(n)) % Base, Shifted(Shifted(Shifted(n))) % Base>>

IntOfBytes(s) == Wrapped(s[1] + Base * (s[2] + Base * (s[3] + Base * s[4])))
=============================================================================
