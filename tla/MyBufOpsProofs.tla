-------------------------- MODULE MyBufOpsProofs --------------------------
(***************************************************************************)
(* What the methods of MyBuf do to one buffer, for every capacity, every   *)
(* int size and every input.                                               *)
(*                                                                         *)
(* First, facts about data that other proofs use as well: induction over   *)
(* the naturals and primitive recursion with sets and functions for        *)
(* predicates and steps, so that they can be applied by citing them (the   *)
(* functions that the modules define recursively rest on them); pieces of  *)
(* sequences; division with remainder; ints and their bytes.               *)
(***************************************************************************)
EXTENDS MyBufOps, SequenceTheorems, WellFoundedInduction, TLAPS

\* Leaves are for Zenon; the ones with arithmetic or functions cite SMT.
USE ZenonT(30)

(* A set with 0 and every successor of its members has all naturals.       *)
LEMMA NatSetInduction ==
    ASSUME NEW S, 0 \in S, \A n \in Nat : n \in S => n + 1 \in S
    PROVE  \A n \in Nat : n \in S
<1> DEFINE R == OpToRel(<, Nat)
<1>1. SUFFICES ASSUME Nat \ S # {} PROVE FALSE
  OBVIOUS
<1>2. IsWellFoundedOn(R, Nat)
  BY NatLessThanWellFounded
<1>3. PICK x \in Nat \ S : \A y \in Nat \ S : ~(<<y, x>> \in R)
  <2> HIDE DEF R
  <2>1. QED
    BY <1>1, <1>2, WFMin
<1>4. x - 1 \in Nat
  BY SMTT(30)
<1>5. x - 1 \in S
  <2>1. <<x - 1, x>> \in R
    BY <1>4, SMTT(30) DEF OpToRel
  <2>2. QED
    BY <1>3, <1>4, <2>1
<1>6. QED
  BY <1>4, <1>5, SMTT(30)

(* Induction up to m.                                                      *)
LEMMA UpToInduction ==
    ASSUME NEW m \in Nat, NEW S, 0 \in S, \A n \in 1..m : n - 1 \in S => n \in S
    PROVE  \A n \in 0..m : n \in S
<1> DEFINE T == {n \in Nat : n <= m => n \in S}
<1>1. 0 \in T
  OBVIOUS
<1>2. \A n \in Nat : n \in T => n + 1 \in T
  BY SMTT(30)
<1>3. \A n \in Nat : n \in T
  <2> HIDE DEF T
  <2>1. QED
    BY <1>1, <1>2, NatSetInduction
<1>4. QED
  BY <1>3, SMTT(30)

\* g starts with first and goes on step by step, up to m.
Iterates(g, m, first, step) ==
    g[0] = first /\ \A n \in 1..m : g[n] = step[n][g[n - 1]]

(* There is a function with a given value at 0 whose every further value   *)
(* is the given step applied to the value before.                          *)
LEMMA PrimitiveRecursion ==
    ASSUME NEW m \in Nat, NEW X, NEW first \in X, NEW step \in [1..m -> [X -> X]]
    PROVE  \E g \in [0..m -> X] : Iterates(g, m, first, step)
<1> DEFINE Good(k, g) == Iterates(g, k, first, step)
           S == {k \in 0..m : \E g \in [0..k -> X] : Good(k, g)}
<1>1. 0 \in S
  <2> DEFINE g == [i \in 0..0 |-> first]
  <2>1. g \in [0..0 -> X] /\ Good(0, g)
    BY SMTT(30) DEF Iterates
  <2> HIDE DEF g, Good
  <2>2. QED
    BY <2>1, SMTT(30)
<1>2. ASSUME NEW n \in 1..m, n - 1 \in S PROVE n \in S
  <2>1. PICK g \in [0..(n - 1) -> X] : Good(n - 1, g)
    BY <1>2
  <2> DEFINE h == [i \in 0..n |-> IF i = n THEN step[n][g[n - 1]] ELSE g[i]]
  <2>2. n - 1 \in 0..(n - 1) /\ g[n - 1] \in X /\ step[n][g[n - 1]] \in X
    BY SMTT(30)
  <2>3. h \in [0..n -> X]
    BY <2>2, SMTT(30)
  <2>4. h[0] = first
    BY <2>1, SMTT(30) DEF Iterates
  <2>5. ASSUME NEW i \in 1..n PROVE h[i] = step[i][h[i - 1]]
    <3>1. h[i - 1] = g[i - 1]
      BY SMTT(30)
    <3>2. CASE i = n
      BY <3>1, <3>2, SMTT(30)
    <3>3. CASE i # n
      <4>1. i \in 1..(n - 1)
        BY <3>3, SMTT(30)
      <4>2. h[i] = g[i]
        BY <3>3, SMTT(30)
      <4>3. QED
        BY <4>1, <4>2, <3>1, <2>1 DEF Iterates
    <3>4. QED
      BY <3>2, <3>3
  <2>6. Good(n, h)
    BY <2>4, <2>5 DEF Iterates
  <2> HIDE DEF h, Good
  <2>7. QED
    BY <2>3, <2>6, SMTT(30)
<1>3. \A n \in 0..m : n \in S
  <2> HIDE DEF S
  <2>1. QED
    BY <1>1, <1>2, UpToInduction
<1>4. QED
  BY <1>3, SMTT(30)

-----------------------------------------------------------------------------
(* Sequences by their elements.                                            *)

\* u is s and t, one behind the other.
Joined(u, s, t) ==
    /\ Len(u) = Len(s) + Len(t)
    /\ \A i \in 1..Len(s) : u[i] = s[i]
    /\ \A i \in 1..Len(t) : u[Len(s) + i] = t[i]

(* The places of two sequences in their concatenation.                     *)
LEMMA ConcatAt ==
    ASSUME NEW S, NEW s \in Seq(S), NEW t \in Seq(S)
    PROVE  s \o t \in Seq(S) /\ Joined(s \o t, s, t)
<1>1. /\ s \o t \in Seq(S) /\ Len(s \o t) = Len(s) + Len(t)
      /\ \A i \in 1..(Len(s) + Len(t)) :
            (s \o t)[i] = IF i <= Len(s) THEN s[i] ELSE t[i - Len(s)]
  BY ConcatProperties
<1>2. Len(s) \in Nat /\ Len(t) \in Nat
  BY SMTT(30)
<1>3. ASSUME NEW i \in 1..Len(t) PROVE (s \o t)[Len(s) + i] = t[i]
  BY <1>1, <1>2, SMTT(30)
<1>4. ASSUME NEW i \in 1..Len(s) PROVE (s \o t)[i] = s[i]
  BY <1>1, <1>2, SMTT(30)
<1>5. QED
  BY <1>1, <1>3, <1>4 DEF Joined

(* A sequence cut in two.                                                  *)
LEMMA SplitAt ==
    ASSUME NEW S, NEW s \in Seq(S), NEW m \in 0..Len(s)
    PROVE  /\ SubSeq(s, 1, m) \in Seq(S) /\ Len(SubSeq(s, 1, m)) = m
           /\ SubSeq(s, m + 1, Len(s)) \in Seq(S)
           /\ Joined(s, SubSeq(s, 1, m), SubSeq(s, m + 1, Len(s)))
<1>1. Len(s) \in Nat /\ m \in Nat
  BY SMTT(30)
<1>2. /\ SubSeq(s, 1, m) \in Seq(S) /\ Len(SubSeq(s, 1, m)) = m
      /\ \A i \in 1..m : SubSeq(s, 1, m)[i] = s[i]
  BY <1>1, SubSeqProperties, SMTT(30)
<1>3. /\ SubSeq(s, m + 1, Len(s)) \in Seq(S) /\ Len(SubSeq(s, m + 1, Len(s))) = Len(s) - m
      /\ \A i \in 1..(Len(s) - m) : SubSeq(s, m + 1, Len(s))[i] = s[m + i]
  BY <1>1, SubSeqProperties, SMTT(30)
<1> DEFINE u == SubSeq(s, 1, m)
           v == SubSeq(s, m + 1, Len(s))
<1>4. Joined(s, u, v)
  <2> HIDE DEF u, v
  <2>1. Len(u) = m /\ Len(v) = Len(s) - m
    BY <1>2, <1>3 DEF u, v
  <2>2. \A i \in 1..m : s[i] = u[i]
    BY <1>2 DEF u
  <2>3. \A i \in 1..(Len(s) - m) : s[m + i] = v[i]
    BY <1>3 DEF v
  <2>4. QED
    BY <1>1, <2>1, <2>2, <2>3, SMTT(30) DEF Joined
<1>5. QED
  BY <1>2, <1>3, <1>4

\* t is what s holds behind place m, up to place n.
Piece(t, s, m, n) == Len(t) = n - m /\ \A i \in 1..(n - m) : t[i] = s[m + i]

(* What SubSeq cuts out.                                                   *)
LEMMA PieceOf ==
    ASSUME NEW S, NEW s \in Seq(S), NEW m \in Nat, NEW n \in Nat, m <= n, n <= Len(s)
    PROVE  SubSeq(s, m + 1, n) \in Seq(S) /\ Piece(SubSeq(s, m + 1, n), s, m, n)
<1>1. Len(s) \in Nat /\ \A i \in (m + 1)..n : s[i] \in S
  BY SMTT(30)
<1>2. QED
  BY <1>1, SubSeqProperties, SMTT(30) DEF Piece

(* Two sequences of the same length with the same elements are the same.   *)
LEMMA SameSeq ==
    ASSUME NEW S, NEW s \in Seq(S), NEW t \in Seq(S), Len(s) = Len(t),
           \A k \in 1..Len(s) : s[k] = t[k]
    PROVE  s = t
<1>1. s = [k \in 1..Len(s) |-> s[k]] /\ t = [k \in 1..Len(t) |-> t[k]]
  BY SMTT(30)
<1>2. QED
  BY <1>1

-----------------------------------------------------------------------------
(* Division with remainder.                                                *)

(* Quotient and remainder of an integer.                                   *)
LEMMA DivMod ==
    ASSUME NEW n \in Int, NEW b \in Nat \ {0}
    PROVE  n = (n % b) + b * (n \div b) /\ n % b \in 0..(b - 1) /\ n \div b \in Int
  BY SMTT(30)

(* A multiple added does not change a remainder                            *)
LEMMA ModUnique ==
    ASSUME NEW n \in Int, NEW b \in Nat \ {0}, NEW q \in Int, NEW r \in 0..(b - 1),
           n = r + b * q
    PROVE  n % b = r /\ n \div b = q
<1>1. n = (n % b) + b * (n \div b) /\ n % b \in 0..(b - 1) /\ n \div b \in Int
  BY DivMod
<1>2. b * (q - (n \div b)) = (n % b) - r
  BY <1>1, SMTT(30)
<1>3. (n % b) - r < b /\ (n % b) - r > -b
  BY <1>1, SMTT(30)
<1>4. q - (n \div b) < 1 /\ q - (n \div b) > -1
  BY <1>1, <1>2, <1>3, SMTT(30)
<1>5. QED
  BY <1>1, <1>4, SMTT(30)

-----------------------------------------------------------------------------
USE WordAssumption

(* Ints and the bytes they are made of.                                    *)

(* There are finitely many int values, half of them at most negative.      *)
LEMMA IntValuesNat == IntValues \in Nat \ {0} /\ IntValues \div 2 \in 0..IntValues
<1>1. Base * Base \in Nat \ {0}
  BY SMTT(30)
<1>2. Base * Base * Base \in Nat \ {0}
  BY <1>1, SMTT(30)
<1>3. IntValues \in Nat \ {0}
  BY <1>2, SMTT(30) DEF IntValues
<1>4. QED
  BY <1>3, SMTT(30)

(* An int computed in more bits is cut to its low bits: wrapping changes   *)
(* nothing of the unsigned value, and a number in range stays as it is.    *)
LEMMA WrappedUnsigned ==
    ASSUME NEW n \in Int
    PROVE  /\ Wrapped(n) \in Int
           /\ Unsigned(Wrapped(n)) = Unsigned(n)
           /\ Unsigned(n) \in 0..(IntValues - 1)
           /\ n \in 0..(IntValues - 1) => Unsigned(n) = n
           /\ n \in 0..(IntValues \div 2 - 1) => Wrapped(n) = n
<1> DEFINE u == n % IntValues
<1>1. IntValues \in Nat \ {0} /\ IntValues \div 2 \in 0..IntValues
  BY IntValuesNat
<1>2. u \in 0..(IntValues - 1)
  BY <1>1, DivMod
<1>3. Wrapped(n) = u \/ Wrapped(n) = u - IntValues
  BY DEF Wrapped
<1>4. \A m \in 0..(IntValues - 1) : m % IntValues = m
  <2>1. SUFFICES ASSUME NEW m \in 0..(IntValues - 1) PROVE m % IntValues = m
    OBVIOUS
  <2>2. m = m + IntValues * 0
    BY <1>1, SMTT(30)
  <2>3. QED
    BY <1>1, <2>2, ModUnique, SMTT(30)
<1>5. (u - IntValues) % IntValues = u
  <2>1. u - IntValues = u + IntValues * (-1) /\ u - IntValues \in Int
    BY <1>1, <1>2, SMTT(30)
  <2> HIDE DEF u
  <2>2. QED
    BY <1>1, <1>2, <2>1, ModUnique, SMTT(30)
<1>6. n \in 0..(IntValues \div 2 - 1) => Wrapped(n) = n
  BY <1>1, <1>4, SMTT(30) DEF Wrapped
<1>7. Unsigned(Wrapped(n)) = Unsigned(n)
  BY <1>2, <1>3, <1>4, <1>5 DEF Unsigned
<1>8. QED
  BY <1>1, <1>2, <1>3, <1>4, <1>6, <1>7, SMTT(30) DEF Unsigned

(* The four bytes that memcpy takes from an int make up that int again.    *)
LEMMA BytesAreInt ==
    ASSUME NEW n \in 0..(IntValues - 1)
    PROVE  /\ BytesOfInt(n) \in Seq(Byte) /\ Len(BytesOfInt(n)) = 4
           /\ IntOfBytes(BytesOfInt(n)) = Wrapped(n)
<1> DEFINE a == Shifted(n)
           b == Shifted(a)
           c == Shifted(b)
           d == Shifted(c)
<1>0. Base \in Nat \ {0} /\ n \in Int
  BY IntValuesNat, SMTT(30)
<1>1. n = (n % Base) + Base * a /\ n % Base \in Byte /\ a \in Int
  BY <1>0, DivMod DEF Shifted, Byte
<1>2. a = (a % Base) + Base * b /\ a % Base \in Byte /\ b \in Int
  <2> HIDE DEF a
  <2>1. QED
    BY <1>0, <1>1, DivMod DEF Shifted, Byte
<1>3. b = (b % Base) + Base * c /\ b % Base \in Byte /\ c \in Int
  <2> HIDE DEF b
  <2>1. QED
    BY <1>0, <1>2, DivMod DEF Shifted, Byte
<1>4. c = (c % Base) + Base * d /\ c % Base \in Byte /\ d \in Int
  <2> HIDE DEF c
  <2>1. QED
    BY <1>0, <1>3, DivMod DEF Shifted, Byte
<1>5. a >= 0 /\ a < Base * Base * Base
  <2> HIDE DEF a
  <2>1. QED
    BY <1>0, <1>1, SMTT(30) DEF IntValues, Byte
<1>6. b >= 0 /\ b < Base * Base
  <2> HIDE DEF a, b
  <2>1. QED
    BY <1>0, <1>2, <1>5, SMTT(30) DEF Byte
<1>7. c >= 0 /\ c < Base
  <2> HIDE DEF b, c
  <2>1. QED
    BY <1>0, <1>3, <1>6, SMTT(30) DEF Byte
<1>8. d = 0
  <2> HIDE DEF c, d
  <2>1. QED
    BY <1>0, <1>4, <1>7, SMTT(30) DEF Byte
<1>9. c % Base = c
  <2> HIDE DEF c, d
  <2>1. QED
    BY <1>0, <1>4, <1>8, <1>7, SMTT(30) DEF Byte
<1>10. BytesOfInt(n) = <<n % Base, a % Base, b % Base, c % Base>>
  BY DEF BytesOfInt
<1> DEFINE s == BytesOfInt(n)
<1>11. s[1] = n % Base /\ s[2] = a % Base /\ s[3] = b % Base /\ s[4] = c % Base
  BY <1>10, SMTT(30)
<1>12. s \in Seq(Byte) /\ Len(s) = 4
  <2> HIDE DEF a, b, c, d
  <2>1. QED
    BY <1>1, <1>2, <1>3, <1>4, <1>10, SMTT(30)
<1>13. s[1] + Base * (s[2] + Base * (s[3] + Base * s[4])) = n
  <2> HIDE DEF a, b, c, d, s
  <2>1. QED
    BY <1>1, <1>2, <1>3, <1>9, <1>11
<1>14. QED
  BY <1>12, <1>13 DEF IntOfBytes

(* Only the first four bytes matter for an int read from memory.           *)
LEMMA SameInt ==
    ASSUME NEW s, NEW t, \A i \in 1..4 : s[i] = t[i]
    PROVE  IntOfBytes(s) = IntOfBytes(t)
<1>1. s[1] = t[1] /\ s[2] = t[2] /\ s[3] = t[3] /\ s[4] = t[4]
  BY SMTT(30)
<1>2. QED
  BY <1>1 DEF IntOfBytes

\* Four bytes are an int.
LEMMA IntOfFour ==
    ASSUME NEW s \in Seq(Byte), Len(s) >= 4
    PROVE  IntOfBytes(s) \in Int
<1>1. \A i \in 1..4 : s[i] \in Byte
  <2>1. SUFFICES ASSUME NEW i \in 1..4 PROVE s[i] \in Byte
    OBVIOUS
  <2>2. i \in 1..Len(s)
    BY SMTT(30)
  <2>3. QED
    BY <2>2, ElementOfSeq
<1>2. s[1] \in Int /\ s[2] \in Int /\ s[3] \in Int /\ s[4] \in Int
  BY <1>1, SMTT(30) DEF Byte
<1> DEFINE n == s[1] + Base * (s[2] + Base * (s[3] + Base * s[4]))
<1>3. n \in Int
  <2> DEFINE a == s[1]
             b == s[2]
             c == s[3]
             d == s[4]
  <2>1. a \in Int /\ b \in Int /\ c \in Int /\ d \in Int /\ Base \in Int
    BY <1>2, SMTT(30)
  <2> HIDE DEF a, b, c, d
  <2>2. c + Base * d \in Int
    BY <2>1, SMTT(30)
  <2>3. b + Base * (c + Base * d) \in Int
    BY <2>1, <2>2, SMTT(30)
  <2>4. a + Base * (b + Base * (c + Base * d)) \in Int
    BY <2>1, <2>3, SMTT(30)
  <2>5. QED
    BY <2>4 DEF a, b, c, d
<1> HIDE DEF n
<1>4. Wrapped(n) \in Int
  BY <1>3, WrappedUnsigned
<1>5. QED
  BY <1>4 DEF IntOfBytes, n

(* The factors by which _BufSize can have been doubled.                    *)
LEMMA PowersOfTwo ==
    /\ Power2 \in [0..30 -> Nat \ {0}] /\ Power2[0] = 1
    /\ \A k \in 1..30 : Power2[k] = 2 * Power2[k - 1]
<1> DEFINE X == Nat \ {0}
           L == 30
           first == 1
           Then(x) == 2 * x
           step == [n \in 1..L |-> [x \in X |-> Then(x)]]
           Eqn(g) == g = [n \in 0..L |-> IF n = 0 THEN first ELSE Then(g[n - 1])]
<1>1. Power2 = CHOOSE h : Eqn(h)
  BY DEF Power2
<1>2. step \in [1..L -> [X -> X]]
  BY SMTT(30)
<1>3. L \in Nat /\ first \in X
  BY SMTT(30)
<1> HIDE DEF X, L, first, Then
<1>4. PICK g \in [0..L -> X] : Iterates(g, L, first, step)
  <2> HIDE DEF step
  <2>1. QED
    BY <1>2, <1>3, PrimitiveRecursion
<1>5. ASSUME NEW n \in 1..L PROVE g[n] = Then(g[n - 1])
  <2>1. g[n - 1] \in X
    BY <1>3, SMTT(30)
  <2>2. QED
    BY <1>4, <2>1 DEF Iterates
<1>6. Eqn(g)
  <2>1. \A n \in 0..L : g[n] = IF n = 0 THEN first ELSE Then(g[n - 1])
    BY <1>3, <1>4, <1>5, SMTT(30) DEF Iterates
  <2>2. QED
    BY <2>1
<1>7. Eqn(Power2)
  <2> HIDE DEF Eqn
  <2>1. QED
    BY <1>1, <1>6
<1>8. Power2[0] = first /\ \A n \in 1..L : Power2[n] = Then(Power2[n - 1])
  BY <1>7, <1>3, SMTT(30)
<1>9. \A n \in 0..L : Power2[n] \in X
  <2> DEFINE S == {n \in 0..L : Power2[n] \in X}
  <2>1. 0 \in S
    BY <1>3, <1>8, SMTT(30)
  <2>2. \A n \in 1..L : n - 1 \in S => n \in S
    BY <1>8, <1>3, SMTT(30) DEF X, Then
  <2>3. \A n \in 0..L : n \in S
    <3> HIDE DEF S
    <3>1. QED
      BY <2>1, <2>2, <1>3, UpToInduction
  <2>4. QED
    BY <2>3
<1>10. Power2 \in [0..L -> X]
  BY <1>7, <1>9
<1>11. QED
  BY <1>8, <1>10 DEF X, L, first, Then

(* The loop of InsertData that doubles _BufSize stops as soon as the data  *)
(* fits: the new size is less than twice what is needed.                   *)
LEMMA DoubledLeast ==
    ASSUME NEW size \in Nat \ {0}, NEW need \in Nat, need > size, NEW c \in DoubledTo(size, need)
    PROVE  c \in need..MaxInt /\ c < 2 * need
<1>1. /\ c \in need..MaxInt
      /\ \E k \in 0..30 : c % Power2[k] = 0 /\ c \div Power2[k] = size
      /\ \A d \in need..MaxInt :
            (\E k \in 0..30 : d % Power2[k] = 0 /\ d \div Power2[k] = size) => c <= d
  BY DEF DoubledTo
<1>2. PICK k \in 0..30 : c % Power2[k] = 0 /\ c \div Power2[k] = size
  BY <1>1
<1>3. c \in Nat /\ Power2[k] \in Nat \ {0}
  BY <1>1, PowersOfTwo, SMTT(30)
<1>4. c = Power2[k] * size
  <2> DEFINE P == Power2[k]
  <2>1. P \in Nat \ {0} /\ c \in Int /\ c % P = 0 /\ c \div P = size
    BY <1>2, <1>3, SMTT(30)
  <2> HIDE DEF P
  <2>2. c = (c % P) + P * (c \div P)
    BY <2>1, DivMod
  <2>3. c = P * size
    BY <2>1, <2>2, SMTT(30)
  <2>4. QED
    BY <2>3 DEF P
<1>5. k # 0
  BY <1>1, <1>4, PowersOfTwo, SMTT(30)
<1> DEFINE d == Power2[k - 1] * size
<1>6. Power2[k - 1] \in Nat \ {0} /\ Power2[k] = 2 * Power2[k - 1]
  BY <1>5, PowersOfTwo, SMTT(30)
<1>7. d \in Nat /\ c = 2 * d
  BY <1>4, <1>6, SMTT(30)
<1>8. d % Power2[k - 1] = 0 /\ d \div Power2[k - 1] = size
  <2>1. d = 0 + Power2[k - 1] * size
    BY <1>6, SMTT(30)
  <2>2. 0 \in 0..(Power2[k - 1] - 1)
    BY <1>6, SMTT(30)
  <2> HIDE DEF d
  <2>3. QED
    BY <1>6, <1>7, <2>1, <2>2, ModUnique, SMTT(30)
<1>9. d < need
  <2>1. SUFFICES ASSUME d >= need PROVE FALSE
    BY <1>7, SMTT(30)
  <2> HIDE DEF d
  <2>2. d \in need..MaxInt
    BY <1>1, <1>7, <2>1, SMTT(30)
  <2>3. k - 1 \in 0..30
    BY <1>5, SMTT(30)
  <2>4. c <= d
    BY <1>1, <1>8, <2>2, <2>3
  <2>5. d > 0
    BY <1>7, <1>1, SMTT(30)
  <2>6. QED
    BY <1>7, <2>4, <2>5, SMTT(30)
<1> HIDE DEF d
<1>10. QED
  BY <1>1, <1>7, <1>9, SMTT(30)

-----------------------------------------------------------------------------
USE BufAssumption

(* The inductive invariant of one buffer.  Beyond the order of the         *)
(* pointers it says that the block is never larger than _BufSize claims    *)
(* (so growing enlarges it), and that what a sound buffer holds lies       *)
(* inside the block.                                                       *)
BufInv(b) ==
    /\ b \in Buffer
    /\ b.head <= b.tail
    /\ b.tail <= b.bufsize
    /\ b.alloc <= b.bufsize
    /\ b.null => b.failed
    /\ b.fault # "bad_realloc"
    /\ Sound(b) => b.tail <= b.alloc

(* A function on 1..n is a sequence of length n.                           *)
LEMMA FunctionIsSeq ==
    ASSUME NEW S, NEW n \in Nat, NEW f \in [1..n -> S]
    PROVE  f \in Seq(S) /\ Len(f) = n
  BY SMTT(30)

(* A sequence that agrees with p and then with s is p \o s.                *)
LEMMA ConcatByElements ==
    ASSUME NEW S, NEW p \in Seq(S), NEW s \in Seq(S), NEW c \in Seq(S),
           Len(c) = Len(p) + Len(s),
           \A i \in 1..Len(p) : c[i] = p[i],
           \A i \in 1..Len(s) : c[Len(p) + i] = s[i]
    PROVE  c = p \o s
<1>1. /\ p \o s \in Seq(S) /\ Len(p \o s) = Len(p) + Len(s)
      /\ \A i \in 1..(Len(p) + Len(s)) :
            (p \o s)[i] = IF i <= Len(p) THEN p[i] ELSE s[i - Len(p)]
  BY ConcatProperties, SMTT(30)
<1>2. ASSUME NEW i \in 1..Len(c) PROVE c[i] = (p \o s)[i]
  <2>1. CASE i <= Len(p)
    BY <1>1, <2>1, SMTT(30)
  <2>2. CASE ~(i <= Len(p))
    <3>1. Len(p) \in Nat /\ Len(s) \in Nat
      BY SMTT(30)
    <3>2. i - Len(p) \in 1..Len(s)
      BY <2>2, <3>1, SMTT(30)
    <3>3. c[Len(p) + (i - Len(p))] = s[i - Len(p)]
      BY <3>2
    <3>4. QED
      BY <1>1, <2>2, <3>1, <3>3, SMTT(30)
  <2>3. QED
    BY <2>1, <2>2
<1>3. QED
  BY <1>1, <1>2, SeqEqual, SMTT(30)

(* What lies between _Head and _Tail is a sequence of _Tail - _Head cells. *)
LEMMA ContentsIsSeq ==
    ASSUME NEW b, BufInv(b)
    PROVE  /\ Contents(b) \in Seq(Byte \cup {Junk})
           /\ Len(Contents(b)) = b.tail - b.head
<1>1. b.tail - b.head \in Nat
  BY SMTT(30) DEF BufInv, Buffer
<1>2. Contents(b) \in [1..(b.tail - b.head) -> Byte \cup {Junk}]
  BY <1>1, SMTT(30) DEF BufInv, Buffer, Contents, GetBufLen, Cells
<1>3. QED
  BY <1>1, <1>2, FunctionIsSeq, SMTT(30)

(* Sliding the contents down keeps them.                                   *)
LEMMA SlideDownKeeps ==
    ASSUME NEW b, BufInv(b), b.fault = "none"
    PROVE  LET r == SlideDown(b) IN
           /\ BufInv(r)
           /\ r.fault = "none" /\ r.head = 0
           /\ r.bufsize = b.bufsize /\ r.alloc = b.alloc
           /\ r.null = b.null /\ Sound(r) = Sound(b)
           /\ GetBufLen(r) = GetBufLen(b)
           /\ Contents(r) = Contents(b)
<1> DEFINE len == b.tail - b.head
           m == [i \in Cells |-> IF i < len THEN b.mem[b.head + i] ELSE Junk]
           r == SlideDown(b)
<1>1. b \in Buffer /\ len \in 0..MaxInt
  BY SMTT(30) DEF BufInv, Buffer
<1>2. m \in [Cells -> Byte \cup {Junk}]
  BY <1>1, SMTT(30) DEF Buffer, Cells, BufInv
<1> DEFINE start == 0
<1>3. r = [b EXCEPT !.mem = m, !.head = start, !.tail = len]
  BY DEF SlideDown, GetBufLen
<1>4. /\ r.mem = m /\ r.head = 0 /\ r.tail = len
      /\ r.bufsize = b.bufsize /\ r.alloc = b.alloc /\ r.fault = b.fault
      /\ r.null = b.null /\ r.failed = b.failed /\ r.overrun = b.overrun
      /\ r \in Buffer
  <2>1. start \in 0..MaxInt
    BY SMTT(30)
  <2> HIDE DEF start, m, len, r
  <2>2. r.head = start /\ r.mem = m /\ r.tail = len /\ r \in Buffer
    BY <1>1, <1>2, <1>3, <2>1 DEF Buffer
  <2>3. /\ r.bufsize = b.bufsize /\ r.alloc = b.alloc /\ r.fault = b.fault
        /\ r.null = b.null /\ r.failed = b.failed /\ r.overrun = b.overrun
    BY <1>1, <1>2, <1>3, <2>1 DEF Buffer
  <2>4. QED
    BY <2>2, <2>3 DEF start
<1>5. GetBufLen(r) = GetBufLen(b)
  BY <1>1, <1>4, SMTT(30) DEF GetBufLen
<1>6. Sound(r) = Sound(b)
  BY <1>4 DEF Sound
<1>7. BufInv(r)
  BY <1>1, <1>4, <1>6, SMTT(30) DEF BufInv, Buffer
<1>8. Contents(r) = Contents(b)
  <2>1. \A i \in 1..len : r.mem[r.head + i - 1] = b.mem[b.head + i - 1]
    BY <1>1, <1>4, SMTT(30) DEF Cells, Buffer
  <2>2. QED
    BY <2>1, <1>5 DEF Contents, GetBufLen
<1>9. QED
  BY <1>4, <1>5, <1>6, <1>7, <1>8

(* Copying input behind the tail, within the capacity, appends it: if the  *)
(* buffer is sound afterwards it was sound before.                         *)
LEMMA CopyInAppends ==
    ASSUME NEW b, BufInv(b), b.fault = "none",
           NEW s \in Seq(Byte), b.tail + Len(s) <= b.bufsize,
           NEW r \in CopyIn(b, s)
    PROVE  /\ BufInv(r)
           /\ r.alloc = b.alloc /\ r.null = b.null
           /\ Sound(r) => Sound(b) /\ Contents(r) = Contents(b) \o s
<1> DEFINE end == b.tail + Len(s)
<1>1. b \in Buffer /\ Len(s) \in Nat /\ end \in 0..MaxInt /\ end >= b.tail
  BY SMTT(30) DEF BufInv, Buffer
<1>2. CASE s = <<>>
  <2>1. r = b
    BY <1>2 DEF CopyIn
  <2>2. Contents(b) \in Seq(Byte \cup {Junk})
    BY ContentsIsSeq
  <2>3. QED
    BY <2>1, <2>2, <1>2, SMTT(30)
<1>3. CASE s # <<>> /\ b.null
  <2>1. r = [b EXCEPT !.fault = "null_write"]
    BY <1>3 DEF CopyIn
  <2>2. QED
    BY <2>1, <1>1 DEF BufInv, Buffer, Sound
<1>4. CASE s # <<>> /\ ~b.null
  <2>1. PICK lost \in BOOLEAN :
          r = [b EXCEPT !.mem = [i \in Cells |->
                          IF i \notin b.tail..(end - 1) THEN b.mem[i]
                          ELSE IF i >= b.alloc /\ lost THEN Junk
                          ELSE s[i - b.tail + 1]],
                        !.tail = end,
                        !.overrun = @ \/ end > b.alloc]
    BY <1>4 DEF CopyIn
  <2> DEFINE m == [i \in Cells |-> IF i \notin b.tail..(end - 1) THEN b.mem[i]
                                   ELSE IF i >= b.alloc /\ lost THEN Junk
                                   ELSE s[i - b.tail + 1]]
  <2>2. m \in [Cells -> Byte \cup {Junk}]
    BY <1>1, SMTT(30) DEF Buffer, Cells, BufInv
  <2>3. /\ r.mem = m /\ r.head = b.head /\ r.tail = end
        /\ r.bufsize = b.bufsize /\ r.alloc = b.alloc /\ r.fault = b.fault
        /\ r.null = b.null /\ r.failed = b.failed
        /\ r.overrun = (b.overrun \/ end > b.alloc)
        /\ r \in Buffer
    BY <1>1, <2>1, <2>2 DEF Buffer
  <2>4. Sound(r) => Sound(b) /\ end <= b.alloc
    BY <2>3, <1>1, SMTT(30) DEF Sound, Buffer
  <2>5. BufInv(r)
    BY <1>1, <2>3, <2>4, SMTT(30) DEF BufInv, Buffer
  <2>6. ASSUME Sound(r) PROVE Contents(r) = Contents(b) \o s
    <3> DEFINE len == b.tail - b.head
    <3> HIDE DEF m
    <3>0. /\ len \in Nat /\ b.head \in 0..MaxInt /\ b.tail \in 0..MaxInt
          /\ r.head = b.head /\ r.tail - r.head = len + Len(s)
      BY <1>1, <2>3, SMTT(30) DEF BufInv, Buffer
    <3>1. /\ Contents(b) \in Seq(Byte \cup {Junk}) /\ Len(Contents(b)) = len
          /\ Contents(r) \in Seq(Byte \cup {Junk}) /\ Len(Contents(r)) = len + Len(s)
          /\ s \in Seq(Byte \cup {Junk})
      BY <3>0, <2>5, ContentsIsSeq, SeqMonotonic
    <3>2. ASSUME NEW i \in 1..len PROVE Contents(r)[i] = Contents(b)[i]
      <4>1. m[b.head + i - 1] = b.mem[b.head + i - 1]
        BY <1>1, <3>0, SMTT(30) DEF m, Cells
      <4>2. Contents(b)[i] = b.mem[b.head + i - 1]
        BY DEF Contents, GetBufLen
      <4>3. i \in 1..(len + Len(s))
        BY <1>1, <3>0, SMTT(30)
      <4>4. Contents(r)[i] = m[b.head + i - 1]
        BY <4>3, <2>3, <3>0 DEF Contents, GetBufLen
      <4>5. QED
        BY <4>1, <4>2, <4>4
    <3>3. ASSUME NEW i \in 1..Len(s) PROVE Contents(r)[len + i] = s[i]
      <4>1. /\ b.head + (len + i) - 1 = b.tail + i - 1
            /\ b.tail + i - 1 < b.alloc /\ b.alloc \in 0..MaxInt
        BY <1>1, <2>4, <2>6, <3>0, SMTT(30) DEF Buffer
      <4>2. m[b.tail + i - 1] = s[i]
        <5> DEFINE j == b.tail + i - 1
        <5>0. j \in Int /\ i >= 1 /\ i <= Len(s)
          BY <1>1, <3>0, SMTT(30)
        <5>1. j < b.alloc /\ b.alloc \in Int
          BY <4>1, SMTT(30)
        <5>6. j \in Cells
          <6>1. j \in Int /\ 0 <= j /\ b.alloc \in 0..MaxInt
            BY <4>1, <3>0, <5>0, SMTT(30)
          <6> HIDE DEF j, len
          <6>2. QED
            BY <6>1, <5>1, SMTT(30) DEF Cells
        <5>4. j \in b.tail..(end - 1)
          BY <1>1, <3>0, <5>0, SMTT(30)
        <5>5. j - b.tail + 1 = i
          BY <3>0, <5>0, SMTT(30)
        <5> HIDE DEF j, end
        <5>2. m[j] = s[j - b.tail + 1]
          BY <5>0, <5>1, <5>4, <5>6, SMTT(30) DEF m
        <5>3. QED
          BY <5>2, <5>5 DEF j
      <4>3. len + i \in 1..(len + Len(s))
        BY <1>1, <3>0, SMTT(30)
      <4>4. Contents(r)[len + i] = m[b.head + (len + i) - 1]
        BY <4>3, <2>3, <3>0 DEF Contents, GetBufLen
      <4>5. QED
        BY <4>1, <4>2, <4>4
    <3> HIDE DEF len
    <3>4. Len(Contents(r)) = Len(Contents(b)) + Len(s)
      BY <3>1
    <3>5. \A i \in 1..Len(Contents(b)) : Contents(r)[i] = Contents(b)[i]
      BY <3>1, <3>2
    <3>6. \A i \in 1..Len(s) : Contents(r)[Len(Contents(b)) + i] = s[i]
      BY <3>1, <3>3
    <3>7. QED
      BY <3>1, <3>4, <3>5, <3>6, ConcatByElements
  <2>7. QED
    BY <2>3, <2>4, <2>5, <2>6
<1>5. QED
  BY <1>2, <1>3, <1>4
(* realloc of a block that starts at the head keeps the contents of a      *)
(* sound buffer, and enlarges it.                                          *)
LEMMA ReallocatedKeeps ==
    ASSUME NEW b, BufInv(b), b.fault = "none", b.head = 0,
           NEW need \in 0..MaxInt, NEW size \in need..MaxInt, need > b.bufsize
    PROVE  LET r == Reallocated(b, size, need) IN
           /\ BufInv(r)
           /\ r.fault = "none" /\ r.bufsize = size /\ r.alloc = need
           /\ r.tail = b.tail /\ ~r.null
           /\ Sound(r) => Sound(b) /\ Contents(r) = Contents(b)
<1> DEFINE m == [i \in Cells |-> IF i < b.alloc THEN b.mem[i] ELSE Junk]
           start == 0
           end == b.tail - b.head
           r == Reallocated(b, size, need)
<1>1. b \in Buffer /\ end = b.tail /\ end \in 0..MaxInt /\ size \in 1..MaxInt
  BY SMTT(30) DEF BufInv, Buffer
<1>2. m \in [Cells -> Byte \cup {Junk}]
  BY <1>1 DEF Buffer, Cells
<1>3. r = [b EXCEPT !.mem = m, !.bufsize = size, !.alloc = need, !.null = FALSE,
                    !.head = start, !.tail = end]
  BY DEF Reallocated, GetBufLen
<1>4. /\ r.mem = m /\ r.bufsize = size /\ r.alloc = need /\ r.null = FALSE
      /\ r.head = start /\ r.tail = end
      /\ r.failed = b.failed /\ r.overrun = b.overrun /\ r.fault = b.fault
      /\ r \in Buffer
  <2>1. start \in 0..MaxInt
    BY SMTT(30)
  <2> HIDE DEF start, m, end, r
  <2>2. /\ r.mem = m /\ r.bufsize = size /\ r.alloc = need /\ r.null = FALSE
        /\ r.head = start /\ r.tail = end
    BY <1>1, <1>2, <1>3, <2>1 DEF Buffer
  <2>3. r.failed = b.failed /\ r.overrun = b.overrun /\ r.fault = b.fault
    BY <1>1, <1>2, <1>3, <2>1 DEF Buffer
  <2>4. r \in Buffer
    BY <1>1, <1>2, <1>3, <2>1 DEF Buffer
  <2>5. QED
    BY <2>2, <2>3, <2>4
<1>5. Sound(r) = Sound(b)
  BY <1>4 DEF Sound
<1>6. BufInv(r)
  <2>1. r.head <= r.tail /\ r.tail <= r.bufsize /\ r.alloc <= r.bufsize
    BY <1>1, <1>4, SMTT(30) DEF BufInv, Buffer
  <2>2. r.tail <= r.alloc
    BY <1>1, <1>4, SMTT(30) DEF BufInv, Buffer
  <2>3. QED
    BY <1>4, <2>1, <2>2 DEF BufInv
<1>7. ASSUME Sound(b) PROVE Contents(r) = Contents(b)
  <2>1. b.tail <= b.alloc /\ b.alloc \in 0..MaxInt /\ b.tail \in 0..MaxInt
    BY <1>7 DEF BufInv, Buffer
  <2>2. \A i \in 1..b.tail : m[i - 1] = b.mem[i - 1]
    BY <2>1, SMTT(30) DEF Cells
  <2>3. \A i \in 1..b.tail : r.mem[r.head + i - 1] = b.mem[b.head + i - 1]
    BY <2>1, <2>2, <1>4, SMTT(30)
  <2>4. r.tail - r.head = b.tail /\ b.tail - b.head = b.tail
    BY <1>1, <1>4
  <2>5. QED
    BY <2>3, <2>4 DEF Contents, GetBufLen
<1>8. QED
  BY <1>1, <1>4, <1>5, <1>6, <1>7

(* A failed realloc leaves the pointers in order on a NULL block.          *)
LEMMA NoMemoryInv ==
    ASSUME NEW b, BufInv(b), b.fault = "none", NEW size \in b.bufsize..MaxInt
    PROVE  LET r == NoMemory(b, size) IN BufInv(r) /\ r.null /\ ~Sound(r)
<1> DEFINE start == 0
           end == b.tail - b.head
           r == NoMemory(b, size)
<1>1. b \in Buffer /\ end \in 0..size /\ size \in 1..MaxInt
  BY SMTT(30) DEF BufInv, Buffer
<1>2. NoBytes \in [Cells -> Byte \cup {Junk}]
  BY DEF NoBytes
<1>3. r = [b EXCEPT !.mem = NoBytes, !.bufsize = size, !.alloc = start,
                    !.null = TRUE, !.failed = TRUE, !.head = start, !.tail = end]
  BY DEF NoMemory, GetBufLen
<1>4. /\ r.bufsize = size /\ r.alloc = start /\ r.null = TRUE /\ r.failed = TRUE
      /\ r.head = start /\ r.tail = end /\ r.fault = b.fault
      /\ r \in Buffer
  <2>1. start \in 0..MaxInt /\ end \in 0..MaxInt
    BY <1>1, SMTT(30)
  <2> HIDE DEF start, end, r
  <2>2. /\ r.bufsize = size /\ r.alloc = start /\ r.null = TRUE /\ r.failed = TRUE
        /\ r.head = start /\ r.tail = end /\ r.fault = b.fault
    BY <1>1, <1>2, <1>3, <2>1 DEF Buffer
  <2>3. r \in Buffer
    BY <1>1, <1>2, <1>3, <2>1 DEF Buffer
  <2>4. QED
    BY <2>2, <2>3
<1>5. ~Sound(r)
  BY <1>4 DEF Sound
<1>6. QED
  BY <1>1, <1>4, <1>5, SMTT(30) DEF BufInv
(* Stopping with one of the faults the code can really run into.           *)
LEMMA FaultInv ==
    ASSUME NEW b, BufInv(b),
           NEW f \in {"null_write", "null_read", "endless_loop", "abort"}
    PROVE  LET r == [b EXCEPT !.fault = f] IN
           BufInv(r) /\ ~Sound(r) /\ r.alloc = b.alloc
<1> DEFINE r == [b EXCEPT !.fault = f]
<1>1. b \in Buffer
  BY DEF BufInv
<1>2. /\ r.fault = f /\ r.bufsize = b.bufsize /\ r.alloc = b.alloc
      /\ r.head = b.head /\ r.tail = b.tail
      /\ r.null = b.null /\ r.failed = b.failed
      /\ r \in Buffer
  BY <1>1 DEF Buffer
<1> HIDE DEF r
<1>3. ~Sound(r)
  BY <1>2 DEF Sound
<1>4. BufInv(r)
  BY <1>2, <1>3 DEF BufInv
<1>5. QED
  BY <1>2, <1>3, <1>4 DEF r

(* The growing branch of InsertData, entered with the head at the start.   *)
LEMMA GrowAndCopyAppends ==
    ASSUME NEW b, BufInv(b), b.fault = "none", b.head = 0,
           NEW s \in Seq(Byte), Len(s) > GetRemainLen(b),
           NEW r \in GrowAndCopy(b, s)
    PROVE  /\ BufInv(r)
           /\ b.alloc <= r.alloc \/ r.null
           /\ Sound(r) => Sound(b) /\ Contents(r) = Contents(b) \o s
<1> DEFINE need == GetBufLen(b) + Len(s)
<1>1. /\ b \in Buffer /\ Len(s) \in Nat
      /\ need \in Nat /\ need > b.bufsize /\ need = b.tail + Len(s)
      /\ b.bufsize \in 1..MaxInt /\ b.alloc \in 0..MaxInt /\ b.alloc <= b.bufsize
  BY SMTT(30) DEF BufInv, Buffer, GetRemainLen, GetBufLen
<1> HIDE DEF need
<1>2. CASE r = NoMemory(b, b.bufsize)
  BY <1>1, <1>2, NoMemoryInv, SMTT(30)
<1>3. ASSUME NEW f \in {"null_write", "null_read", "endless_loop", "abort"},
             r = [b EXCEPT !.fault = f]
      PROVE  BufInv(r) /\ ~Sound(r) /\ b.alloc <= r.alloc
  <2>1. BufInv(r) /\ ~Sound(r) /\ r.alloc = b.alloc
    BY <1>3, FaultInv
  <2>2. QED
    BY <2>1, <1>1, SMTT(30)
<1>4. ASSUME NEW c \in DoubledTo(b.bufsize, need), need <= MaxInt,
             r = NoMemory(b, c) \/ r \in CopyIn(Reallocated(b, c, need), s)
      PROVE  /\ BufInv(r)
             /\ b.alloc <= r.alloc \/ r.null
             /\ Sound(r) => Sound(b) /\ Contents(r) = Contents(b) \o s
  <2>1. c \in need..MaxInt /\ c \in b.bufsize..MaxInt /\ need \in 0..MaxInt
    <3>1. c \in need..MaxInt
      BY DEF DoubledTo
    <3>2. QED
      BY <1>1, <1>4, <3>1, SMTT(30)
  <2>2. CASE r = NoMemory(b, c)
    BY <2>1, <2>2, NoMemoryInv
  <2>3. CASE r \in CopyIn(Reallocated(b, c, need), s)
    <3> DEFINE g == Reallocated(b, c, need)
    <3>1. /\ BufInv(g) /\ g.fault = "none" /\ g.bufsize = c /\ g.alloc = need
          /\ g.tail = b.tail
          /\ Sound(g) => Sound(b) /\ Contents(g) = Contents(b)
      BY <1>1, <2>1, ReallocatedKeeps, SMTT(30)
    <3>2. g.tail + Len(s) <= g.bufsize
      BY <3>1, <2>1, <1>1, SMTT(30)
    <3> HIDE DEF g
    <3>3. /\ BufInv(r) /\ r.alloc = need
          /\ Sound(r) => Sound(g) /\ Contents(r) = Contents(g) \o s
      BY <2>3, <3>1, <3>2, CopyInAppends, SMTT(30) DEF g
    <3>4. b.alloc <= r.alloc
      BY <1>1, <3>3, SMTT(30)
    <3>5. QED
      BY <3>1, <3>3, <3>4
  <2>4. QED
    BY <1>4, <2>2, <2>3
<1>5. \/ r = NoMemory(b, b.bufsize)
      \/ r = [b EXCEPT !.fault = "endless_loop"]
      \/ r = [b EXCEPT !.fault = "abort"]
      \/ /\ need <= MaxInt
         /\ \E c \in DoubledTo(b.bufsize, need) :
               r = NoMemory(b, c) \/ r \in CopyIn(Reallocated(b, c, need), s)
  <2>1. CASE need > MaxInt
    BY <2>1 DEF GrowAndCopy, need
  <2>2. CASE ~(need > MaxInt)
    <3>1. need <= MaxInt
      BY <1>1, <2>2, SMTT(30)
    <3>2. \/ r = [b EXCEPT !.fault = "endless_loop"]
          \/ r = [b EXCEPT !.fault = "abort"]
          \/ \E c \in DoubledTo(b.bufsize, need) :
               r = NoMemory(b, c) \/ r \in CopyIn(Reallocated(b, c, need), s)
      BY <2>2 DEF GrowAndCopy, need
    <3>3. QED
      BY <3>1, <3>2
  <2>3. QED
    BY <2>1, <2>2
<1>6. QED
  BY <1>2, <1>3, <1>4, <1>5

(* The whole of InsertData appends its input, and never calls realloc with *)
(* anything but the start of the block.                                    *)
LEMMA InsertedAppends ==
    ASSUME NEW b, BufInv(b), b.fault = "none",
           NEW s \in Seq(Byte), NEW r \in Inserted(b, s)
    PROVE  /\ BufInv(r)
           /\ b.alloc <= r.alloc \/ r.null
           /\ Sound(r) => Sound(b) /\ Contents(r) = Contents(b) \o s
<1> DEFINE slides == Len(s) > GetTailLen(b) /\ b.head # 0
           slid == IF slides THEN SlideDown(b) ELSE b
<1>1. /\ BufInv(slid) /\ slid.fault = "none"
      /\ slid.bufsize = b.bufsize /\ slid.alloc = b.alloc
      /\ GetBufLen(slid) = GetBufLen(b)
      /\ Sound(slid) = Sound(b) /\ Contents(slid) = Contents(b)
      /\ slides => slid.head = 0
  <2>1. CASE slides
    BY <2>1, SlideDownKeeps
  <2>2. CASE ~slides
    BY <2>2
  <2>3. QED
    BY <2>1, <2>2
<1>2. /\ Len(s) \in Nat /\ b.alloc \in Nat
      /\ slid.head \in Nat /\ slid.tail \in Nat /\ slid.bufsize \in Nat
      /\ slid.head <= slid.tail
  BY <1>1, SMTT(30) DEF BufInv, Buffer
<1>3. slid.head # 0 => slid.tail + Len(s) <= slid.bufsize
  BY <1>1, <1>2, SMTT(30) DEF GetTailLen
<1>4. r \in IF Len(s) > GetRemainLen(slid) THEN GrowAndCopy(slid, s)
            ELSE CopyIn(slid, s)
  BY DEF Inserted
<1> HIDE DEF slid, slides
<1>5. CASE Len(s) > GetRemainLen(slid)
  <2>1. slid.head = 0
    BY <1>2, <1>3, <1>5, SMTT(30) DEF GetRemainLen, GetBufLen
  <2>2. r \in GrowAndCopy(slid, s)
    BY <1>4, <1>5
  <2>3. QED
    BY <1>1, <1>5, <2>1, <2>2, GrowAndCopyAppends
<1>6. CASE ~(Len(s) > GetRemainLen(slid))
  <2>1. slid.tail + Len(s) <= slid.bufsize
    BY <1>2, <1>3, <1>6, SMTT(30) DEF GetRemainLen, GetBufLen
  <2>2. r \in CopyIn(slid, s)
    BY <1>4, <1>6
  <2>3. /\ BufInv(r) /\ r.alloc = slid.alloc
        /\ Sound(r) => Sound(slid) /\ Contents(r) = Contents(slid) \o s
    BY <1>1, <2>1, <2>2, CopyInAppends
  <2>4. QED
    BY <1>1, <1>2, <2>3, SMTT(30)
<1>7. QED
  BY <1>5, <1>6

(* The cell of the i-th byte left after k bytes of hd..tl-1 are taken.     *)
LEMMA CellAfterTaking ==
    ASSUME NEW hd \in Nat, NEW tl \in Nat, NEW k \in Nat, NEW i \in Int,
           1 <= i, i <= tl - (hd + k)
    PROVE  /\ k + i \in 1..(tl - hd)
           /\ hd + (k + i) - 1 = (hd + k) + i - 1
           /\ hd + (k + i) - 1 \in Int
           /\ ~(hd + (k + i) - 1 < hd + k)
           /\ 0 <= hd + (k + i) - 1
           /\ hd + (k + i) - 1 < tl
  BY SMTT(30)

(* GetBufData hands out the oldest bytes and keeps the others.             *)
LEMMA DrainedTakes ==
    ASSUME NEW b, BufInv(b), NEW n \in Nat
    PROVE  LET r == Drained(b, n) IN
           /\ BufInv(r) /\ r.alloc = b.alloc /\ Sound(r) = Sound(b)
           /\ Contents(b) = SubSeq(Contents(b), 1, RealLen(b, n)) \o Contents(r)
<1> DEFINE k == RealLen(b, n)
           h == b.head + k
           m == [i \in Cells |-> IF i < h THEN Junk ELSE b.mem[i]]
           r == Drained(b, n)
           S == Byte \cup {Junk}
<1>1. /\ b \in Buffer /\ k \in Nat /\ b.head \in Nat /\ b.tail \in 0..MaxInt
      /\ k <= b.tail - b.head /\ h \in 0..MaxInt /\ h <= b.tail
  BY SMTT(30) DEF BufInv, Buffer, RealLen, GetBufLen
<1>2. m \in [Cells -> S]
  BY <1>1 DEF Buffer, Cells
<1>3. r = [b EXCEPT !.head = h, !.mem = m]
  BY DEF Drained
<1>4. /\ r.head = h /\ r.mem = m /\ r.tail = b.tail /\ r.bufsize = b.bufsize
      /\ r.alloc = b.alloc /\ r.null = b.null /\ r.failed = b.failed
      /\ r.overrun = b.overrun /\ r.fault = b.fault
      /\ r \in Buffer
  <2> HIDE DEF h, m, r
  <2>1. QED
    BY <1>1, <1>2, <1>3 DEF Buffer
<1>5. Sound(r) = Sound(b)
  BY <1>4 DEF Sound
<1>6. BufInv(r)
  BY <1>1, <1>4, <1>5 DEF BufInv
<1> DEFINE c == Contents(b)
           d == Contents(r)
<1>7. /\ c \in Seq(S) /\ Len(c) = b.tail - b.head
      /\ d \in Seq(S) /\ Len(d) = b.tail - h
  BY <1>4, <1>6, ContentsIsSeq, SMTT(30)
<1>8. /\ SubSeq(c, 1, k) \in Seq(S) /\ Len(SubSeq(c, 1, k)) = k
      /\ \A i \in 1..k : SubSeq(c, 1, k)[i] = c[i]
  <2> HIDE DEF c, k, h, m
  <2>1. \A i \in 1..k : c[i] \in S
    BY <1>1, <1>7, SMTT(30)
  <2>2. QED
    BY <1>1, <1>7, <2>1, SMTT(30)
<1>9. ASSUME NEW i \in 1..Len(d) PROVE c[k + i] = d[i]
  <2> DEFINE j == b.head + (k + i) - 1
  <2>1. /\ i \in 1..(b.tail - h) /\ k + i \in 1..(b.tail - b.head)
        /\ j = h + i - 1 /\ j \in Int /\ ~(j < h) /\ 0 <= j /\ j < b.tail
    <3> HIDE DEF c, d, k, m, r
    <3>1. i \in 1..(b.tail - h)
      BY <1>7
    <3>2. i \in Int /\ 1 <= i /\ i <= b.tail - h
      BY <1>1, <3>1, SMTT(30)
    <3>3. b.tail \in Nat
      BY <1>1, SMTT(30)
    <3>4. k \in Nat /\ b.head \in Nat /\ i <= b.tail - (b.head + k)
      BY <1>1, <3>2
    <3> HIDE DEF j, h
    <3>5. /\ k + i \in 1..(b.tail - b.head)
          /\ b.head + (k + i) - 1 = (b.head + k) + i - 1
          /\ b.head + (k + i) - 1 \in Int
          /\ ~(b.head + (k + i) - 1 < b.head + k)
          /\ 0 <= b.head + (k + i) - 1
          /\ b.head + (k + i) - 1 < b.tail
      BY <3>2, <3>3, <3>4, CellAfterTaking
    <3>6. QED
      BY <3>1, <3>5 DEF j, h
  <2>2. j \in Cells
    <3> HIDE DEF j, h, k
    <3> QED BY <1>1, <2>1, SMTT(30) DEF Cells
  <2>3. c[k + i] = b.mem[j]
    BY <2>1 DEF Contents, GetBufLen
  <2>4. d[i] = m[h + i - 1]
    <3> HIDE DEF m, h, k, j
    <3> QED BY <1>4, <2>1 DEF Contents, GetBufLen
  <2>5. m[j] = b.mem[j]
    <3> HIDE DEF j, h, k
    <3> QED BY <2>1, <2>2
  <2>6. QED
    BY <2>1, <2>3, <2>4, <2>5
<1>10. c = SubSeq(c, 1, k) \o d
  <2> HIDE DEF c, d, k, h, m, S
  <2>1. Len(c) = Len(SubSeq(c, 1, k)) + Len(d)
    <3> DEFINE x == Len(c)
               y == Len(SubSeq(c, 1, k))
               z == Len(d)
    <3>1. x = b.tail - b.head /\ y = k /\ z = b.tail - (b.head + k)
      BY <1>7, <1>8 DEF h
    <3>2. b.tail \in Int /\ b.head \in Int /\ k \in Int
      BY <1>1, SMTT(30)
    <3> HIDE DEF x, y, z
    <3>3. x = y + z
      BY <3>1, <3>2, SMTT(30)
    <3> QED BY <3>3 DEF x, y, z
  <2>2. \A i \in 1..Len(SubSeq(c, 1, k)) : c[i] = SubSeq(c, 1, k)[i]
    BY <1>8
  <2>3. \A i \in 1..Len(d) : c[Len(SubSeq(c, 1, k)) + i] = d[i]
    BY <1>8, <1>9
  <2>4. QED
    BY <1>7, <1>8, <2>1, <2>2, <2>3, ConcatByElements
<1>11. QED
  BY <1>4, <1>5, <1>6, <1>10

(* Copying data into the buffer leaves _BufSize as it is.                  *)
LEMMA CopyInSize ==
    ASSUME NEW b, BufInv(b), NEW s \in Seq(Byte), NEW r \in CopyIn(b, s)
    PROVE  r.bufsize = b.bufsize /\ r.fault \in {b.fault, "null_write"}
<1>1. b \in Buffer
  BY DEF BufInv
<1>2. CASE s = <<>> \/ b.null
  BY <1>1, <1>2 DEF CopyIn, Buffer
<1>3. CASE s # <<>> /\ ~b.null
  <2> DEFINE end == b.tail + Len(s)
             Landed(i, lost) == IF i \notin b.tail..(end - 1) THEN b.mem[i]
                                ELSE IF i >= b.alloc /\ lost THEN Junk
                                ELSE s[i - b.tail + 1]
             m(lost) == [i \in Cells |-> Landed(i, lost)]
  <2>1. \E lost \in BOOLEAN :
           r = [b EXCEPT !.mem = m(lost), !.tail = end, !.overrun = @ \/ end > b.alloc]
    BY <1>3 DEF CopyIn
  <2> HIDE DEF m, end
  <2>2. QED
    BY <1>1, <2>1 DEF Buffer
<1>4. QED
  BY <1>2, <1>3

(* InsertData enlarges the buffer only when it must, and to less than      *)
(* twice what it then holds; what goes wrong in it is not a read.          *)
LEMMA InsertedSize ==
    ASSUME NEW b, BufInv(b), b.fault = "none", NEW s \in Seq(Byte), NEW r \in Inserted(b, s)
    PROVE  /\ r.bufsize = b.bufsize \/ r.bufsize < 2 * (GetBufLen(b) + Len(s))
           /\ r.fault # "null_read"
<1> DEFINE slid == IF Len(s) > GetTailLen(b) /\ b.head # 0 THEN SlideDown(b) ELSE b
           need == GetBufLen(b) + Len(s)
<1>1. /\ BufInv(slid) /\ slid.fault = "none" /\ slid.bufsize = b.bufsize
      /\ GetBufLen(slid) = GetBufLen(b)
  <2>1. CASE Len(s) > GetTailLen(b) /\ b.head # 0
    BY <2>1, SlideDownKeeps
  <2>2. CASE ~(Len(s) > GetTailLen(b) /\ b.head # 0)
    BY <2>2
  <2>3. QED
    BY <2>1, <2>2
<1>2. r \in IF Len(s) > GetRemainLen(slid) THEN GrowAndCopy(slid, s) ELSE CopyIn(slid, s)
  BY DEF Inserted
<1> HIDE DEF slid
<1>3. CASE ~(Len(s) > GetRemainLen(slid))
  BY <1>1, <1>2, <1>3, CopyInSize
<1>4. CASE Len(s) > GetRemainLen(slid)
  <2> DEFINE sizes == DoubledTo(slid.bufsize, need)
             Fault(f) == [slid EXCEPT !.fault = f]
  <2>0. slid \in Buffer /\ slid.bufsize \in Nat \ {0} /\ need \in Nat /\ need > slid.bufsize
    BY <1>1, <1>4, SMTT(30) DEF BufInv, Buffer, GetRemainLen, GetBufLen
  <2>1. /\ \/ r = NoMemory(slid, slid.bufsize)
           \/ \E f \in {"endless_loop", "bad_realloc", "abort"} : r = Fault(f)
           \/ \E c \in sizes : r = NoMemory(slid, c)
           \/ slid.head = 0 /\ \E c \in sizes : r \in CopyIn(Reallocated(slid, c, need), s)
    BY <1>1, <1>2, <1>4 DEF GrowAndCopy
  <2>2. CASE r = NoMemory(slid, slid.bufsize)
    BY <1>1, <2>0, <2>2 DEF NoMemory, Buffer
  <2>3. CASE \E f \in {"endless_loop", "bad_realloc", "abort"} : r = Fault(f)
    BY <1>1, <2>0, <2>3 DEF Buffer
  <2>4. CASE \E c \in sizes : r = NoMemory(slid, c)
    <3>1. PICK c \in sizes : r = NoMemory(slid, c)
      BY <2>4
    <3>2. c < 2 * need
      BY <2>0, DoubledLeast
    <3>3. r.bufsize = c /\ r.fault = "none"
      BY <1>1, <2>0, <3>1 DEF NoMemory, Buffer
    <3>4. QED
      BY <3>2, <3>3
  <2>5. CASE slid.head = 0 /\ \E c \in sizes : r \in CopyIn(Reallocated(slid, c, need), s)
    <3>1. PICK c \in sizes : r \in CopyIn(Reallocated(slid, c, need), s)
      BY <2>5
    <3>2. c < 2 * need /\ c \in need..MaxInt /\ need \in 0..MaxInt
      BY <2>0, DoubledLeast, SMTT(30)
    <3>3. /\ BufInv(Reallocated(slid, c, need)) /\ Reallocated(slid, c, need).bufsize = c
          /\ Reallocated(slid, c, need).fault = "none"
      BY <1>1, <2>0, <2>5, <3>2, ReallocatedKeeps, SMTT(30)
    <3>4. r.bufsize = c /\ r.fault # "null_read"
      BY <3>1, <3>3, CopyInSize
    <3>5. QED
      BY <3>2, <3>4
  <2>6. QED
    BY <2>1, <2>2, <2>3, <2>4, <2>5
<1>5. QED
  BY <1>3, <1>4

-----------------------------------------------------------------------------
(* Messages behind their lengths, as both packet layers send them.         *)

\* The messages with a length that an int can say.
Sendable == {s \in Seq(Byte) : Len(s) \in 0..(IntValues \div 2 - 1)}

Frame(msg) == BytesOfInt(Len(msg)) \o msg

\* Where the bag of message k ends in the plain stream.
End(bounds, k) == IF k = 0 THEN 0 ELSE bounds[k]

(* A stream is the frames of msgs, one behind the other, which end at      *)
(* bounds.                                                                 *)
FramesOK(msgs, bytes, bounds) ==
    /\ msgs \in Seq(Sendable) /\ bytes \in Seq(Byte) /\ bounds \in Seq(Nat)
    /\ Len(bounds) = Len(msgs) /\ Len(bytes) = End(bounds, Len(msgs))
    /\ \A k \in 1..Len(msgs) :
          /\ bounds[k] = End(bounds, k - 1) + 4 + Len(msgs[k]) /\ bounds[k] <= Len(bytes)
          /\ \A i \in 1..(4 + Len(msgs[k])) : bytes[End(bounds, k - 1) + i] = Frame(msgs[k])[i]

(* A frame is the length of its message in four bytes, then the message.   *)
LEMMA FrameBytes ==
    ASSUME NEW msg \in Sendable
    PROVE  /\ msg \in Seq(Byte) /\ Len(msg) \in Nat /\ Len(msg) \in 0..(IntValues - 1)
           /\ Wrapped(Len(msg)) = Len(msg)
           /\ Frame(msg) \in Seq(Byte) /\ Len(Frame(msg)) = 4 + Len(msg)
           /\ \A i \in 1..4 : Frame(msg)[i] = BytesOfInt(Len(msg))[i]
           /\ \A i \in 1..Len(msg) : Frame(msg)[4 + i] = msg[i]
<1>1. msg \in Seq(Byte) /\ Len(msg) \in 0..(IntValues \div 2 - 1)
  BY DEF Sendable
<1>2. Len(msg) \in Nat /\ Len(msg) \in 0..(IntValues - 1)
  BY <1>1, IntValuesNat, SMTT(30)
<1>3. Wrapped(Len(msg)) = Len(msg)
  <2>1. Len(msg) \in Int
    BY <1>2, SMTT(30)
  <2>2. QED
    BY <1>1, <2>1, WrappedUnsigned
<1> DEFINE h == BytesOfInt(Len(msg))
           u == h \o msg
<1>4. h \in Seq(Byte) /\ Len(h) = 4
  BY <1>2, BytesAreInt
<1> HIDE DEF h
<1>5. u \in Seq(Byte) /\ Joined(u, h, msg)
  BY <1>1, <1>4, ConcatAt
<1>6. Frame(msg) = u
  BY DEF Frame, h
<1> HIDE DEF u
<1>7. QED
  BY <1>1, <1>2, <1>3, <1>4, <1>5, <1>6 DEF h, Joined

(* Another frame leaves the ends of the earlier ones as they are.          *)
LEMMA EndKept ==
    ASSUME NEW bounds \in Seq(Nat), NEW m \in Nat, NEW k \in 0..Len(bounds)
    PROVE  End(Append(bounds, m), k) = End(bounds, k) /\ End(bounds, k) \in Nat
  BY SMTT(30) DEF End

(* Another message adds its frame.                                         *)
LEMMA FramesExtended ==
    ASSUME NEW msgs, NEW bytes, NEW bounds, FramesOK(msgs, bytes, bounds), NEW msg \in Sendable
    PROVE  FramesOK(Append(msgs, msg), bytes \o Frame(msg),
                  Append(bounds, Len(bytes \o Frame(msg))))
<1> DEFINE bytes2 == bytes \o Frame(msg)
           msgs2 == Append(msgs, msg)
           bounds2 == Append(bounds, Len(bytes2))
           L == Len(msgs)
<1>1. /\ msgs \in Seq(Sendable) /\ bytes \in Seq(Byte) /\ bounds \in Seq(Nat)
      /\ Len(bounds) = L /\ Len(bytes) = End(bounds, L) /\ L \in Nat /\ Len(bytes) \in Nat
  BY SMTT(30) DEF FramesOK
<1>2. /\ Frame(msg) \in Seq(Byte) /\ Len(Frame(msg)) = 4 + Len(msg) /\ Len(msg) \in Nat
  BY FrameBytes, SMTT(30)
<1>3. /\ bytes2 \in Seq(Byte) /\ Len(bytes2) = Len(bytes) + 4 + Len(msg)
      /\ \A i \in 1..Len(bytes) : bytes2[i] = bytes[i]
      /\ \A i \in 1..(4 + Len(msg)) : bytes2[Len(bytes) + i] = Frame(msg)[i]
  <2>1. bytes2 \in Seq(Byte) /\ Joined(bytes2, bytes, Frame(msg))
    BY <1>1, <1>2, ConcatAt
  <2> HIDE DEF bytes2
  <2>2. QED
    BY <1>1, <1>2, <2>1, SMTT(30) DEF Joined
<1> HIDE DEF bytes2
<1>4. /\ msgs2 \in Seq(Sendable) /\ Len(msgs2) = L + 1 /\ msgs2[L + 1] = msg
      /\ \A k \in 1..L : msgs2[k] = msgs[k]
  BY <1>1, SMTT(30)
<1>5. Len(bytes2) \in Nat
  BY <1>1, <1>2, <1>3, SMTT(30)
<1>6. /\ bounds2 \in Seq(Nat) /\ Len(bounds2) = L + 1 /\ bounds2[L + 1] = Len(bytes2)
      /\ \A k \in 1..L : bounds2[k] = bounds[k]
      /\ \A k \in 0..L : End(bounds2, k) = End(bounds, k) /\ End(bounds, k) \in Nat
  BY <1>1, <1>5, EndKept, SMTT(30)
<1>7. Len(bytes2) = End(bounds2, L + 1)
  BY <1>1, <1>6, SMTT(30) DEF End
<1> HIDE DEF msgs2, bounds2, L
<1>8. ASSUME NEW k \in 1..(L + 1)
      PROVE  /\ bounds2[k] = End(bounds2, k - 1) + 4 + Len(msgs2[k]) /\ bounds2[k] <= Len(bytes2)
             /\ \A i \in 1..(4 + Len(msgs2[k])) :
                   bytes2[End(bounds2, k - 1) + i] = Frame(msgs2[k])[i]
  <2>1. CASE k = L + 1
    <3>1. End(bounds2, k - 1) = Len(bytes)
      BY <1>1, <1>6, <2>1, SMTT(30)
    <3>2. msgs2[k] = msg /\ bounds2[k] = Len(bytes2)
      BY <1>4, <1>6, <2>1
    <3>3. QED
      BY <1>1, <1>2, <1>3, <3>1, <3>2, SMTT(30)
  <2>2. CASE k # L + 1
    <3>1. k \in 1..L /\ k - 1 \in 0..L
      BY <1>1, <2>2, SMTT(30)
    <3>2. /\ bounds[k] = End(bounds, k - 1) + 4 + Len(msgs[k]) /\ bounds[k] <= Len(bytes)
          /\ \A i \in 1..(4 + Len(msgs[k])) : bytes[End(bounds, k - 1) + i] = Frame(msgs[k])[i]
      BY <3>1 DEF FramesOK, L
    <3>3. bounds2[k] = bounds[k] /\ End(bounds2, k - 1) = End(bounds, k - 1) /\ msgs2[k] = msgs[k]
          /\ End(bounds, k - 1) \in Nat /\ bounds[k] \in Nat
      BY <1>1, <1>4, <1>6, <3>1, SMTT(30)
    <3>4. Len(msgs[k]) \in Nat
      <4>1. msgs[k] \in Sendable
        BY <1>1, <3>1, ElementOfSeq DEF L
      <4>2. QED
        BY <4>1, FrameBytes, SMTT(30)
    <3>5. bounds2[k] <= Len(bytes2)
      <4> DEFINE x == Len(bytes)
                 y == Len(bytes2)
                 z == Len(msg)
      <4>1. x \in Nat /\ z \in Nat /\ y = x + 4 + z /\ bounds[k] \in Nat /\ bounds[k] <= x
        BY <1>1, <1>2, <1>3, <3>2, <3>3
      <4> HIDE DEF x, y, z
      <4>2. bounds[k] <= y
        BY <4>1, SMTT(30)
      <4>3. QED
        BY <3>3, <4>2 DEF y
    <3>6. ASSUME NEW i \in 1..(4 + Len(msgs[k]))
          PROVE  bytes2[End(bounds, k - 1) + i] = Frame(msgs[k])[i]
      <4>1. End(bounds, k - 1) + i \in 1..Len(bytes)
        <5> DEFINE e == End(bounds, k - 1)
                   m == Len(msgs[k])
        <5>1. e \in Nat /\ m \in Nat /\ bounds[k] = e + 4 + m /\ bounds[k] <= Len(bytes)
              /\ i \in 1..(4 + m) /\ Len(bytes) \in Nat
          BY <1>1, <3>2, <3>3, <3>4
        <5> HIDE DEF e, m
        <5>2. e + i \in 1..Len(bytes)
          BY <5>1, SMTT(30)
        <5>3. QED
          BY <5>2 DEF e
      <4>2. QED
        BY <1>3, <3>2, <4>1
    <3>7. QED
      BY <3>2, <3>3, <3>5, <3>6
  <2>3. QED
    BY <2>1, <2>2
<1>9. QED
  BY <1>3, <1>4, <1>6, <1>7, <1>8 DEF FramesOK, bytes2, msgs2, bounds2

\* s are the bytes of the plain stream from place n + 1 on.
PlainAt(s, bytes, n) == \A i \in 1..Len(s) : s[i] = bytes[n + i]

\* A number up to n.
LEMMA UpTo ==
    ASSUME NEW i \in Nat, NEW n \in Nat, i <= n
    PROVE  i \in 0..n
  BY SMTT(30)

\* Where a frame ends is a place in the stream.
LEMMA EndNat ==
    ASSUME NEW msgs, NEW bytes, NEW bounds, FramesOK(msgs, bytes, bounds),
           NEW j \in 0..Len(msgs)
    PROVE  End(bounds, j) \in 0..Len(bytes) /\ End(bounds, j) \in Nat /\ Len(bytes) \in Nat
<1>1. /\ bounds \in Seq(Nat) /\ bytes \in Seq(Byte) /\ Len(bounds) = Len(msgs) /\ msgs \in Seq(Sendable)
      /\ \A k \in 1..Len(msgs) : bounds[k] <= Len(bytes)
  BY DEF FramesOK
<1>2. Len(bytes) \in Nat /\ Len(msgs) \in Nat
  BY <1>1, SMTT(30)
<1>3. End(bounds, j) \in 0..Len(bytes)
  <2>1. CASE j = 0
    BY <1>2, <2>1, SMTT(30) DEF End
  <2>2. CASE j # 0
    <3>1. j \in 1..Len(msgs)
      BY <1>2, <2>2, SMTT(30)
    <3>2. bounds[j] \in Nat
      BY <1>1, <3>1, ElementOfSeq
    <3>3. QED
      BY <1>1, <1>2, <2>2, <3>1, <3>2, SMTT(30) DEF End
  <2>3. QED
    BY <2>1, <2>2
<1>4. QED
  BY <1>2, <1>3, SMTT(30)

\* The four bytes behind the first n of `bytes' hold a length.
LengthAt(len, bytes, n) == \A i \in 1..4 : bytes[n + i] = BytesOfInt(len)[i]

(* The frame of message j + 1 follows the first j frames.                  *)
LEMMA NextFrame ==
    ASSUME NEW msgs, NEW bytes, NEW bounds, FramesOK(msgs, bytes, bounds),
           NEW j \in Nat, j < Len(msgs)
    PROVE  /\ msgs[j + 1] \in Sendable /\ Len(msgs[j + 1]) \in Nat
           /\ End(bounds, j + 1) = End(bounds, j) + 4 + Len(msgs[j + 1])
           /\ LengthAt(Len(msgs[j + 1]), bytes, End(bounds, j))
           /\ PlainAt(msgs[j + 1], bytes, End(bounds, j) + 4)
<1>1. /\ msgs \in Seq(Sendable) /\ Len(msgs) \in Nat
      /\ \A k \in 1..Len(msgs) :
            /\ bounds[k] = End(bounds, k - 1) + 4 + Len(msgs[k])
            /\ \A i \in 1..(4 + Len(msgs[k])) : bytes[End(bounds, k - 1) + i] = Frame(msgs[k])[i]
  BY SMTT(30) DEF FramesOK
<1> DEFINE k == j + 1
           M == Len(msgs[k])
           e == End(bounds, j)
<1>2. k \in 1..Len(msgs) /\ k - 1 = j /\ k # 0
  BY <1>1, SMTT(30)
<1> HIDE DEF k
<1>3. msgs[k] \in Sendable
  BY <1>1, <1>2, ElementOfSeq
<1>4. /\ M \in Nat /\ \A i \in 1..4 : Frame(msgs[k])[i] = BytesOfInt(M)[i]
      /\ \A i \in 1..M : Frame(msgs[k])[4 + i] = msgs[k][i]
  BY <1>3, FrameBytes, SMTT(30)
<1>5. bounds[k] = e + 4 + M /\ \A i \in 1..(4 + M) : bytes[e + i] = Frame(msgs[k])[i]
  BY <1>1, <1>2
<1>6. e \in Nat
  <2>1. j \in 0..Len(msgs)
    BY <1>1, SMTT(30)
  <2>2. e \in 0..Len(bytes) /\ Len(bytes) \in Nat
    BY <2>1, EndNat
  <2>3. QED
    BY <2>2, SMTT(30)
<1> HIDE DEF e, M
<1>7. End(bounds, k) = e + 4 + M
  BY <1>2, <1>5 DEF End
<1>8. ASSUME NEW i \in 1..4 PROVE bytes[e + i] = BytesOfInt(M)[i]
  <2>1. i \in 1..(4 + M)
    BY <1>4, SMTT(30)
  <2>2. QED
    BY <1>4, <1>5, <2>1
<1>9. ASSUME NEW i \in 1..M PROVE bytes[e + 4 + i] = msgs[k][i]
  <2>1. 4 + i \in 1..(4 + M) /\ e + 4 + i = e + (4 + i)
    BY <1>4, <1>6, SMTT(30)
  <2>2. bytes[e + (4 + i)] = Frame(msgs[k])[4 + i]
    BY <1>5, <2>1
  <2>3. QED
    BY <1>4, <2>1, <2>2
<1>10. LengthAt(M, bytes, e)
  BY <1>8 DEF LengthAt
<1>11. PlainAt(msgs[k], bytes, e + 4)
  BY <1>9 DEF PlainAt, M
<1>12. QED
  BY <1>3, <1>4, <1>7, <1>10, <1>11 DEF k, e, M

=============================================================================
