----------------------------- MODULE SimpleXOR -----------------------------
(***************************************************************************)
(* class SimpleXOR (encrypt/include/encrypt.h): a stream cipher.  A seed   *)
(* fills a dictionary of key bytes; each byte of the stream is combined    *)
(* with the next key byte, round and round.  The first call of Encrypt     *)
(* draws the seed and puts its four bytes in front of the stream, where    *)
(* the first call of Decrypt takes it from.                                *)
(*                                                                         *)
(* A cipher object is a record; a method is an operator that returns the   *)
(* object afterwards and the bytes handed out.                             *)
(***************************************************************************)
EXTENDS Words

CONSTANTS
    DicSize,    \* entries of dic, and values of the index dic_i (256 of each)
    Xor(_, _)   \* c ^ d on bytes

ASSUME CipherAssumption ==
    /\ DicSize \in Nat \ {0}
    /\ \A a, b \in Byte : Xor(a, b) \in Byte /\ Xor(a, Xor(a, b)) = b

\* The constructor.  It leaves dic_i unset; SetSeed sets it before its first use.
NewCipher == [seeded |-> FALSE, dic |-> [i \in 0..(DicSize - 1) |-> 0], dic_i |-> 0]

\* Seed = (Seed<<3)+(Seed>>3)+Seed
NextSeed(seed) == Wrapped(seed * 8 + seed \div 8 + seed)

\* The values Seed takes while dic is filled.
SeedsFrom(seed) ==
    LET s[i \in 0..(DicSize - 1)] == IF i = 0 THEN seed ELSE NextSeed(s[i - 1]) IN s

SetSeed(seed) ==
    [seeded |-> TRUE, dic |-> [i \in 0..(DicSize - 1) |-> SeedsFrom(seed)[i] % Base], dic_i |-> 0]

\* The loops of Encrypt and Decrypt, which call xmake on byte after byte.
Xmade(c, s) == [i \in 1..Len(s) |-> Xor(c.dic[(c.dic_i + i) % DicSize], s[i])]

\* Mutant: dic_i does not wrap.
Unbounded(c, n) == [c EXCEPT !.dic_i = @ + n]

\* Mutant: dic_i is an index into the block, not into the stream.
Restarted(c, n) == [c EXCEPT !.dic_i = n % DicSize]

\* dic_i after n calls of xmake: an unsigned char, it wraps.
Advanced(c, n) == [c EXCEPT !.dic_i = (@ + n) % DicSize]

\* random is what random() returns, should this be the first call.
Encrypt(c, s, random) ==
    LET k == IF c.seeded THEN c ELSE SetSeed(random)
        prefix == IF c.seeded THEN <<>> ELSE BytesOfInt(random)
    IN  [cipher |-> Advanced(k, Len(s)), out |-> prefix \o Xmade(k, s)]

\* Mutant: the seed's bytes count as bytes of the stream.
DecryptCountingSeed(c, s) ==
    IF ~c.seeded /\ Len(s) < 4 THEN [cipher |-> c, out |-> <<>>]
    ELSE LET k == IF c.seeded THEN c ELSE SetSeed(IntOfBytes(s))
             rest == IF c.seeded THEN s ELSE SubSeq(s, SizeofInt + 1, Len(s))
         IN  [cipher |-> Advanced(k, Len(s)), out |-> Xmade(k, rest)]

\* A first call with fewer than four bytes drops them.
Decrypt(c, s) ==
    IF ~c.seeded /\ Len(s) < 4 THEN [cipher |-> c, out |-> <<>>]
    ELSE LET k == IF c.seeded THEN c ELSE SetSeed(IntOfBytes(s))
             rest == IF c.seeded THEN s ELSE SubSeq(s, SizeofInt + 1, Len(s))
         IN  [cipher |-> Advanced(k, Len(rest)), out |-> Xmade(k, rest)]

Ciphers == [seeded : BOOLEAN, dic : [0..(DicSize - 1) -> Byte], dic_i : 0..(DicSize - 1)]
=============================================================================
