--------------------------- MODULE ArgFormatsProofs ---------------------------
(***************************************************************************)
(* What pack() writes is what unpack() reads.                              *)
(*                                                                         *)
(* Every scalar that pack() accepts is read again by unpack(), whatever    *)
(* follows it in the buffer, and so are a message's id and its arguments:  *)
(* for every length of a buffer and every list of formats without arrays   *)
(* and tables.                                                             *)
(***************************************************************************)
EXTENDS NetProtocol, MyBufOpsProofs

\* Leaves are for Zenon; the ones with arithmetic or functions cite SMT.
USE WordAssumption, ZenonT(30)

-----------------------------------------------------------------------------
(* The bytes of numbers.                                                   *)

\* n, digit by digit.
Digits(n) ==
    /\ BytesOfInt(n) \in Seq(Byte) /\ Len(BytesOfInt(n)) = 4
    /\ BytesOfInt(n)[1] \in Byte /\ BytesOfInt(n)[2] \in Byte
    /\ BytesOfInt(n)[3] \in Byte /\ BytesOfInt(n)[4] \in Byte
    /\ Shifted(n) \in Int /\ Shifted(Shifted(n)) \in Int
    /\ Shifted(Shifted(Shifted(n))) \in Int /\ Shifted(Shifted(Shifted(Shifted(n)))) \in Int
    /\ n = BytesOfInt(n)[1] + Base * Shifted(n)
    /\ Shifted(n) = BytesOfInt(n)[2] + Base * Shifted(Shifted(n))
    /\ Shifted(Shifted(n)) = BytesOfInt(n)[3] + Base * Shifted(Shifted(Shifted(n)))
    /\ Shifted(Shifted(Shifted(n)))
         = BytesOfInt(n)[4] + Base * Shifted(Shifted(Shifted(Shifted(n))))

(* What memcpy of an int, negative ones included, puts into a buffer.      *)
LEMMA DigitsOfInt ==
    ASSUME NEW n \in Int
    PROVE  Digits(n)
<1> DEFINE a == Shifted(n)
           b == Shifted(a)
           c == Shifted(b)
           d == Shifted(c)
           s == BytesOfInt(n)
<1>0. Base \in Nat \ {0}
  OBVIOUS
<1>1. n = (n % Base) + Base * a /\ n % Base \in Byte /\ a \in Int
  BY <1>0, DivMod DEF Shifted, Byte
<1>2. a = (a % Base) + Base * b /\ a % Base \in Byte /\ b \in Int
  <2> HIDE DEF a
  <2>1. QED
    BY <1>0, <1>1, DivMod DEF Shifted, Byte
<1>3. b = (b % Base) + Base * c /\ b % Base \in Byte /\ c \in Int
  <2> HIDE DEF b
  <2>1. QED
    BY <1>0, <1>2, DivMod DEF Shifted, Byte
<1>4. c = (c % Base) + Base * d /\ c % Base \in Byte /\ d \in Int
  <2> HIDE DEF c
  <2>1. QED
    BY <1>0, <1>3, DivMod DEF Shifted, Byte
<1>5. s = <<n % Base, a % Base, b % Base, c % Base>>
  BY DEF BytesOfInt
<1>6. s[1] = n % Base /\ s[2] = a % Base /\ s[3] = b % Base /\ s[4] = c % Base
  BY <1>5, SMTT(30)
<1>7. s \in Seq(Byte) /\ Len(s) = 4
  <2> HIDE DEF a, b, c, d
  <2>1. QED
    BY <1>1, <1>2, <1>3, <1>4, <1>5, SMTT(30)
<1>8. QED
  BY <1>1, <1>2, <1>3, <1>4, <1>6, <1>7 DEF Digits

(* The first bytes of an int.                                              *)
LEMMA LowBytesOf ==
    ASSUME NEW n \in Int, NEW k \in 1..4
    PROVE  /\ LowBytes(n, k) \in Seq(Byte) /\ Len(LowBytes(n, k)) = k
           /\ \A i \in 1..k : LowBytes(n, k)[i] = BytesOfInt(n)[i]
<1> DEFINE s == BytesOfInt(n)
<1>1. s \in Seq(Byte) /\ Len(s) = 4
  BY DigitsOfInt DEF Digits
<1> HIDE DEF s
<1>2. k \in 0..Len(s)
  BY <1>1, SMTT(30)
<1>3. /\ SubSeq(s, 1, k) \in Seq(Byte) /\ Len(SubSeq(s, 1, k)) = k
      /\ Joined(s, SubSeq(s, 1, k), SubSeq(s, k + 1, Len(s)))
  BY <1>1, <1>2, SplitAt
<1>4. QED
  BY <1>3 DEF LowBytes, Joined, s

\* The numbers that k bytes hold.
HeldBy(k) ==
    IF k = 1 THEN Base ELSE IF k = 2 THEN Base * Base
    ELSE IF k = 3 THEN Base * Base * Base ELSE IntValues

(* A quotient of a number that is small enough.                            *)
LEMMA SmallQuotient ==
    ASSUME NEW n \in Nat, NEW q \in Int, NEW r \in Byte, NEW m \in Nat,
           n = r + Base * q, n < Base * m
    PROVE  q \in Nat /\ q < m
<1>1. Base \in Nat /\ r \in Nat /\ r < Base /\ Base > 0
  BY SMTT(30) DEF Byte
<1>2. q >= 0
  <2>1. SUFFICES ASSUME q <= -1 PROVE FALSE
    BY SMTT(30)
  <2>2. Base * q <= Base * (-1)
    BY <1>1, <2>1, SMTT(30)
  <2>3. QED
    BY <1>1, <2>2, SMTT(30)
<1>3. q < m
  <2>1. SUFFICES ASSUME q >= m PROVE FALSE
    BY SMTT(30)
  <2>2. Base * q >= Base * m
    BY <1>1, <2>1, SMTT(30)
  <2>3. QED
    BY <1>1, <2>2, SMTT(30)
<1>4. QED
  BY <1>2, <1>3, SMTT(30)

(* Zero has no digits but zeros.                                           *)
LEMMA ZeroDigits ==
    ASSUME NEW q \in Int, NEW r \in Byte, 0 = r + Base * q
    PROVE  r = 0 /\ q = 0
<1>1. 0 < Base * 1 /\ 0 \in Nat /\ 1 \in Nat
  BY SMTT(30)
<1>2. q \in Nat /\ q < 1
  BY <1>1, SmallQuotient
<1>3. q = 0
  BY <1>2, SMTT(30)
<1>4. Base * q = 0
  BY <1>3, SMTT(30)
<1>5. QED
  BY <1>3, <1>4, SMTT(30) DEF Byte

(* The bytes that number_type.len leaves out are zero.                     *)
LEMMA HighBytesZero ==
    ASSUME NEW k \in 1..4, NEW n \in Nat, n < HeldBy(k)
    PROVE  \A i \in 1..4 : i > k => BytesOfInt(n)[i] = 0
<1> DEFINE a == Shifted(n)
           b == Shifted(a)
           c == Shifted(b)
           d == Shifted(c)
           s == BytesOfInt(n)
<1>1. Digits(n)
  BY DigitsOfInt, SMTT(30)
<1>2. s[1] \in Byte /\ s[2] \in Byte /\ s[3] \in Byte /\ s[4] \in Byte
  BY <1>1 DEF Digits
<1>3. /\ n = s[1] + Base * a /\ a = s[2] + Base * b /\ b = s[3] + Base * c
      /\ c = s[4] + Base * d /\ a \in Int /\ b \in Int /\ c \in Int /\ d \in Int
  BY <1>1 DEF Digits
<1> HIDE DEF a, b, c, d, s
<1>4. 1 \in Nat /\ n = s[1] + Base * a /\ a \in Int /\ s[1] \in Byte
  BY <1>2, <1>3
<1>5. CASE k = 1
  <2>1. n < Base * 1
    BY <1>5, SMTT(30) DEF HeldBy
  <2>2. a = 0
    <3>1. a \in Nat /\ a < 1
      BY <1>4, <2>1, SmallQuotient
    <3>2. QED
      BY <3>1, SMTT(30)
  <2>3. s[2] = 0 /\ b = 0
    BY <1>2, <1>3, <2>2, ZeroDigits
  <2>4. s[3] = 0 /\ c = 0
    BY <1>2, <1>3, <2>3, ZeroDigits
  <2>5. s[4] = 0
    BY <1>2, <1>3, <2>4, ZeroDigits
  <2>6. QED
    BY <1>5, <2>3, <2>4, <2>5, SMTT(30) DEF s
<1>6. CASE k = 2
  <2>1. n < Base * Base
    BY <1>6, SMTT(30) DEF HeldBy
  <2>2. a \in Nat /\ a < Base * 1
    <3>1. Base \in Nat
      BY SMTT(30)
    <3>2. a \in Nat /\ a < Base
      BY <1>4, <2>1, <3>1, SmallQuotient
    <3>3. QED
      BY <3>1, <3>2, SMTT(30)
  <2>3. b = 0
    <3>1. a = s[2] + Base * b /\ b \in Int /\ s[2] \in Byte
      BY <1>2, <1>3
    <3>2. b \in Nat /\ b < 1
      BY <1>4, <2>2, <3>1, SmallQuotient
    <3>3. QED
      BY <3>2, SMTT(30)
  <2>4. s[3] = 0 /\ c = 0
    BY <1>2, <1>3, <2>3, ZeroDigits
  <2>5. s[4] = 0
    BY <1>2, <1>3, <2>4, ZeroDigits
  <2>6. QED
    BY <1>6, <2>4, <2>5, SMTT(30) DEF s
<1>7. CASE k = 3
  <2> DEFINE m == Base * Base
  <2>1. n < Base * m /\ m \in Nat
    BY <1>7, SMTT(30) DEF HeldBy
  <2> HIDE DEF m
  <2>2. a \in Nat /\ a < m
    BY <1>4, <2>1, SmallQuotient
  <2>3. b \in Nat /\ b < Base * 1
    <3>1. a < Base * Base
      BY <2>2 DEF m
    <3>2. QED
      BY <1>2, <1>3, <2>2, <3>1, SmallQuotient, SMTT(30)
  <2>4. c = 0
    <3>1. b = s[3] + Base * c /\ c \in Int /\ s[3] \in Byte
      BY <1>2, <1>3
    <3>2. c \in Nat /\ c < 1
      BY <1>4, <2>3, <3>1, SmallQuotient, SMTT(30)
    <3>3. QED
      BY <3>2, SMTT(30)
  <2>5. s[4] = 0
    BY <1>2, <1>3, <2>4, ZeroDigits
  <2>6. QED
    BY <1>7, <2>5, SMTT(30) DEF s
<1>8. CASE k = 4
  BY <1>8, SMTT(30)
<1>9. QED
  BY <1>5, <1>6, <1>7, <1>8, SMTT(30)

(* memcpy of k bytes into an int set to zero gives back a number that fits *)
(* into k bytes.                                                           *)
LEMMA LowBytesRead ==
    ASSUME NEW k \in 1..4, NEW n \in Nat, n < HeldBy(k), n < IntValues, NEW t,
           \A i \in 1..k : t[i] = BytesOfInt(n)[i]
    PROVE  OfLowBytes(t, k) = Wrapped(n)
<1> DEFINE cells == [i \in 1..SizeofInt |-> IF i <= k THEN t[i] ELSE 0]
           s == BytesOfInt(n)
<1>1. \A i \in 1..4 : i > k => s[i] = 0
  BY HighBytesZero
<1> HIDE DEF s
<1>2. \A i \in 1..4 : cells[i] = s[i]
  BY <1>1, SMTT(30) DEF SizeofInt, s
<1> HIDE DEF cells
<1>3. IntOfBytes(cells) = IntOfBytes(s)
  BY <1>2, SameInt
<1>4. n \in 0..(IntValues - 1)
  BY IntValuesNat, SMTT(30)
<1>5. IntOfBytes(s) = Wrapped(n)
  BY <1>4, BytesAreInt DEF s
<1>6. QED
  BY <1>3, <1>5 DEF OfLowBytes, cells
-----------------------------------------------------------------------------
(* Ints in range.                                                          *)

\* The largest int, and one.
Half == IntValues \div 2

(* Half of the int values, whether their number is even or odd.            *)
LEMMA HalfIsHalf ==
    /\ Half \in Nat \ {0} /\ IntValues \in Nat
    /\ 2 * Half <= IntValues /\ IntValues <= 2 * Half + 1
    /\ Base <= Half /\ Base * Base <= Half
<1>1. Base \in Nat /\ Base >= 2
  BY SMTT(30)
<1> DEFINE sq == Base * Base
<1>2. sq \in Nat /\ sq >= 2 * Base
  BY <1>1, SMTT(30)
<1>3. IntValues = sq * sq
  BY <1>1, SMTT(30) DEF IntValues
<1> HIDE DEF sq
<1>4. sq >= 4
  BY <1>1, <1>2, SMTT(30)
<1>5. sq * sq >= 4 * sq /\ sq * sq \in Nat
  BY <1>2, <1>4, SMTT(30)
<1>6. ASSUME NEW n \in Nat PROVE n \div 2 \in Nat /\ 2 * (n \div 2) <= n /\ n <= 2 * (n \div 2) + 1
  BY SMTT(30)
<1>7. Half \in Nat /\ 2 * Half <= IntValues /\ IntValues <= 2 * Half + 1 /\ IntValues \in Nat
  BY <1>3, <1>5, <1>6 DEF Half
<1> HIDE DEF Half
<1>8. sq <= Half
  BY <1>2, <1>3, <1>4, <1>5, <1>7, SMTT(30)
<1>9. QED
  BY <1>1, <1>2, <1>4, <1>7, <1>8, SMTT(30) DEF sq

(* An int is not changed by the arithmetic of ints.                        *)
LEMMA IntIsWrapped ==
    ASSUME NEW n \in MinInt32..MaxInt32
    PROVE  Wrapped(n) = n /\ n \in Int
<1>1. n \in Int /\ n >= -Half /\ n < Half
  BY HalfIsHalf, SMTT(30) DEF MinInt32, MaxInt32, Half
<1>2. CASE n >= 0
  <2>1. n \in 0..(IntValues \div 2 - 1)
    BY <1>1, <1>2, HalfIsHalf, SMTT(30) DEF Half
  <2>2. QED
    BY <1>1, <2>1, WrappedUnsigned
<1>3. CASE n < 0
  <2> DEFINE r == n + IntValues
  <2>1. r \in 0..(IntValues - 1) /\ r >= Half
    BY <1>1, <1>3, HalfIsHalf, SMTT(30)
  <2>2. n = r + IntValues * (-1) /\ IntValues \in Nat \ {0}
    BY <1>1, HalfIsHalf, SMTT(30)
  <2> HIDE DEF r
  <2>3. n % IntValues = r
    BY <1>1, <2>1, <2>2, ModUnique, SMTT(30)
  <2>4. Wrapped(n) = r - IntValues
    BY <2>1, <2>3 DEF Wrapped, Half
  <2>5. QED
    BY <1>1, <2>2, <2>4, HalfIsHalf, SMTT(30) DEF r
<1>4. QED
  BY <1>1, <1>2, <1>3, SMTT(30)

(* A number that was made positive and is made negative again, the least   *)
(* int included.                                                           *)
LEMMA NegatedBack ==
    ASSUME NEW data \in 1..Half
    PROVE  Wrapped(-Wrapped(data)) = -data
<1>1. data \in Nat /\ data >= 1 /\ data <= Half
  BY HalfIsHalf, SMTT(30)
<1>2. -data \in MinInt32..MaxInt32
  BY <1>1, HalfIsHalf, SMTT(30) DEF MinInt32, MaxInt32, Half
<1>3. CASE data < Half
  <2>1. data \in 0..(IntValues \div 2 - 1)
    BY <1>1, <1>3, HalfIsHalf, SMTT(30) DEF Half
  <2>2. Wrapped(data) = data
    BY <1>1, <2>1, WrappedUnsigned, SMTT(30)
  <2>3. QED
    BY <1>2, <2>2, IntIsWrapped
<1>4. CASE data = Half
  <2>1. IntValues \in Nat \ {0}
    BY HalfIsHalf, SMTT(30)
  <2>2. data % IntValues = data
    <3>1. data \in 0..(IntValues - 1) /\ data = data + IntValues * 0
      BY <1>1, <1>4, HalfIsHalf, SMTT(30)
    <3>2. QED
      BY <1>1, <2>1, <3>1, ModUnique, SMTT(30)
  <2>3. Wrapped(data) = data - IntValues
    BY <1>1, <1>4, <2>2, HalfIsHalf DEF Wrapped, Half
  <2> DEFINE m == IntValues - data
  <2>4. -Wrapped(data) = m
    BY <1>1, <2>1, <2>3, SMTT(30)
  <2>5. m \in 0..(IntValues - 1) /\ m >= Half /\ m = m + IntValues * 0 /\ m \in Int
    BY <1>1, <1>4, HalfIsHalf, SMTT(30)
  <2> HIDE DEF m
  <2>6. m % IntValues = m
    BY <2>1, <2>5, ModUnique, SMTT(30)
  <2>7. Wrapped(m) = m - IntValues
    BY <2>5, <2>6, HalfIsHalf DEF Wrapped, Half
  <2>8. m - IntValues = -data
    BY <1>1, <2>1, SMTT(30) DEF m
  <2>9. QED
    BY <2>4, <2>7, <2>8
<1>5. QED
  BY <1>1, <1>3, <1>4, HalfIsHalf, SMTT(30)

-----------------------------------------------------------------------------
(* Scalars: what was packed is read again, whatever follows it.            *)

ScalarTypes == {"number", "byte", "word", "dword", "string"}

StartsWith(t, b) == Len(b) <= Len(t) /\ \A i \in 1..Len(b) : t[i] = b[i]

\* A reader of the given type finds w at the start of any buffer that starts with b.
ReadsAs(type, b, w) ==
    \A t \in Seq(Byte) : StartsWith(t, b) => UnpackScalar(type, t) = Read(Len(b), w)

\* What pack() yields.
PackedOK(p) ==
    p.raised \in BOOLEAN /\ p.bytes \in Seq(Byte) /\ (p.raised => p.bytes = <<>>)

(* check_buf: all the bytes, or none.                                      *)
LEMMA CheckedBuf ==
    ASSUME NEW b \in Seq(Byte), NEW room \in Int
    PROVE  PackedOK(CheckBuf(b, room)) /\ CheckBuf(b, room).bytes \in {<<>>, b}
  BY SMTT(30) DEF CheckBuf, Failed, Packed, PackedOK

(* The bytes of a number's length and sign.                                *)
LEMMA HeaderOfNumber ==
    ASSUME NEW k \in 1..4, NEW sign \in {0, 1}
    PROVE  /\ k * 2 + sign \in Byte /\ (k * 2 + sign) \div 2 = k /\ (k * 2 + sign) % 2 = sign
<1>1. k * 2 + sign \in 0..9 /\ Base >= 10
  BY FormatAssumption, SMTT(30)
<1>2. QED
  BY <1>1, SMTT(30) DEF Byte

(* number_type.len is enough for the number.                               *)
LEMMA NumberFits ==
    ASSUME NEW data \in Nat, data < IntValues
    PROVE  NumberLen(data) \in 1..4 /\ data < HeldBy(NumberLen(data))
<1> DEFINE b2 == Base * Base
           b3 == Base * Base * Base
<1>1. b2 \in Int /\ b3 \in Int /\ Base \in Int
  BY SMTT(30)
<1> HIDE DEF b2, b3
<1>2. NumberLen(data) = IF data <= Base - 1 THEN 1 ELSE IF data <= b2 - 1 THEN 2
                        ELSE IF data <= b3 - 1 THEN 3 ELSE 4
  BY DEF NumberLen, b2, b3
<1>3. HeldBy(1) = Base /\ HeldBy(2) = b2 /\ HeldBy(3) = b3 /\ HeldBy(4) = IntValues
  BY SMTT(30) DEF HeldBy, b2, b3
<1>4. QED
  BY <1>1, <1>2, <1>3, SMTT(30)

(* A number is read as it was packed, the least int included.              *)
LEMMA NumberRead ==
    ASSUME NEW num \in MinInt32..MaxInt32, NEW room \in Int
    PROVE  LET p == PackNumber(num, room) IN
           PackedOK(p) /\ (p.bytes # <<>> => ReadsAs("number", p.bytes, Number(num)))
<1> DEFINE negative == num < 0
           abs == IF negative THEN -num ELSE num
           data == Unsigned(abs)
           k == NumberLen(data)
           sign == IF negative THEN 1 ELSE 0
           header == k * 2 + sign
           low == LowBytes(data, k)
           b == <<header>> \o low
           p == PackNumber(num, room)
<1>1. num \in Int /\ num >= -Half /\ num < Half
  BY HalfIsHalf, SMTT(30) DEF MinInt32, MaxInt32, Half
<1>2. abs \in 0..Half /\ (~negative => abs \in 0..(Half - 1)) /\ (negative => abs \in 1..Half)
  BY <1>1, HalfIsHalf, SMTT(30)
<1>3. data = abs
  <2>1. abs \in 0..(IntValues - 1) /\ abs \in Int
    BY <1>2, HalfIsHalf, SMTT(30)
  <2> HIDE DEF abs
  <2>2. QED
    BY <2>1, WrappedUnsigned
<1>4. data \in Nat /\ data < IntValues
  BY <1>2, <1>3, HalfIsHalf, SMTT(30)
<1>5. p = CheckBuf(b, room)
  BY DEF PackNumber
<1>6. sign \in {0, 1} /\ (sign = 1 <=> negative)
  BY SMTT(30)
<1> HIDE DEF data, sign
<1>7. k \in 1..4 /\ data < HeldBy(k)
  BY <1>4, NumberFits
<1> HIDE DEF k
<1>8. header \in Byte /\ header \div 2 = k /\ header % 2 = sign
  BY <1>6, <1>7, HeaderOfNumber
<1> HIDE DEF header
<1>9. low \in Seq(Byte) /\ Len(low) = k /\ \A i \in 1..k : low[i] = BytesOfInt(data)[i]
  <2>1. data \in Int
    BY <1>4, SMTT(30)
  <2>2. QED
    BY <1>7, <2>1, LowBytesOf
<1> HIDE DEF low
<1>10. <<header>> \in Seq(Byte) /\ Len(<<header>>) = 1 /\ <<header>>[1] = header
  BY <1>8, SMTT(30)
<1>11. b \in Seq(Byte) /\ Joined(b, <<header>>, low)
  BY <1>9, <1>10, ConcatAt
<1> HIDE DEF b
<1>12. /\ Len(b) = 1 + k /\ b[1] = header
       /\ \A i \in 1..k : b[1 + i] = BytesOfInt(data)[i]
  BY <1>9, <1>10, <1>11, SMTT(30) DEF Joined
<1>13. ASSUME NEW t \in Seq(Byte), StartsWith(t, b)
       PROVE  UnpackScalar("number", t) = Read(Len(b), Number(num))
  <2>1. /\ Len(t) >= 1 + k /\ t[1] = header /\ Len(t) \in Nat
        /\ \A i \in 1..k : t[1 + i] = BytesOfInt(data)[i]
    BY <1>7, <1>12, <1>13, SMTT(30) DEF StartsWith
  <2> DEFINE u == Tail(t)
             x == OfLowBytes(u, k)
  <2>2. \A i \in 1..k : u[i] = t[i + 1]
    BY <1>7, <2>1, SMTT(30)
  <2>3. \A i \in 1..k : u[i] = BytesOfInt(data)[i]
    BY <1>7, <2>1, <2>2, SMTT(30)
  <2> HIDE DEF u
  <2>4. x = Wrapped(data)
    BY <1>4, <1>7, <2>3, LowBytesRead
  <2>5. UnpackNumber(t) = Read(1 + k, Number(IF sign = 1 THEN Wrapped(-x) ELSE x))
    <3>1. ~(1 > Len(t)) /\ t[1] \div 2 = k /\ t[1] % 2 = sign
      BY <1>7, <1>8, <2>1, SMTT(30)
    <3>2. ~(k <= 0 \/ k >= 5 \/ 1 + k > Len(t))
      BY <1>7, <2>1, SMTT(30)
    <3> HIDE DEF x
    <3>3. QED
      BY <3>1, <3>2 DEF UnpackNumber, x, u
  <2>6. (IF sign = 1 THEN Wrapped(-x) ELSE x) = num
    <3>1. CASE negative
      <4>1. Wrapped(-Wrapped(data)) = -data
        BY <1>2, <1>3, <3>1, NegatedBack
      <4>2. -data = num
        BY <1>1, <1>3, <3>1, SMTT(30)
      <4>3. QED
        BY <1>6, <2>4, <3>1, <4>1, <4>2
    <3>2. CASE ~negative
      <4>1. data = num /\ num \in MinInt32..MaxInt32
        BY <1>3, <3>2
      <4>2. Wrapped(num) = num
        BY IntIsWrapped
      <4>3. QED
        BY <1>6, <2>4, <3>2, <4>1, <4>2
    <3>3. QED
      BY <3>1, <3>2
  <2>7. UnpackScalar("number", t) = UnpackNumber(t)
    BY DEF UnpackScalar
  <2>8. QED
    BY <1>12, <2>5, <2>6, <2>7
<1>14. PackedOK(p) /\ p.bytes \in {<<>>, b}
  BY <1>5, <1>11, CheckedBuf
<1>15. ReadsAs("number", b, Number(num))
  BY <1>13 DEF ReadsAs
<1> HIDE DEF p
<1>16. QED
  BY <1>14, <1>15 DEF p
(* An int read from the bytes of any number is that number as an int.      *)
LEMMA BytesOfAnyInt ==
    ASSUME NEW n \in Int
    PROVE  IntOfBytes(BytesOfInt(n)) = Wrapped(n)
<1> DEFINE s == BytesOfInt(n)
           q == Shifted(Shifted(Shifted(Shifted(n))))
           r == s[1] + Base * (s[2] + Base * (s[3] + Base * s[4]))
<1>1. Digits(n)
  BY DigitsOfInt
<1>2. s[1] \in Byte /\ s[2] \in Byte /\ s[3] \in Byte /\ s[4] \in Byte
  BY <1>1 DEF Digits
<1>3. n = r + IntValues * q /\ q \in Int
  <2> DEFINE a == Shifted(n)
             b == Shifted(a)
             c == Shifted(b)
  <2>1. /\ n = s[1] + Base * a /\ a = s[2] + Base * b /\ b = s[3] + Base * c
        /\ c = s[4] + Base * q /\ a \in Int /\ b \in Int /\ c \in Int /\ q \in Int
    BY <1>1 DEF Digits
  <2> HIDE DEF a, b, c, q, s
  <2>2. s[1] \in Int /\ s[2] \in Int /\ s[3] \in Int /\ s[4] \in Int /\ Base \in Int
    BY <1>2, SMTT(30) DEF Byte
  <2>3. b = s[3] + Base * s[4] + Base * (Base * q)
    BY <2>1, <2>2, SMTT(30)
  <2>4. a = s[2] + Base * (s[3] + Base * s[4]) + Base * (Base * (Base * q))
    BY <2>1, <2>2, <2>3, SMTT(30)
  <2>5. n = r + Base * (Base * (Base * (Base * q)))
    BY <2>1, <2>2, <2>4, SMTT(30)
  <2>6. Base * (Base * (Base * (Base * q))) = IntValues * q
    BY <2>1, <2>2, SMTT(30) DEF IntValues
  <2>7. QED
    BY <2>1, <2>5, <2>6
<1>4. r \in Int
  <2> HIDE DEF s
  <2>1. QED
    BY <1>2, SMTT(30) DEF Byte
<1>5. n % IntValues = r % IntValues
  <2> HIDE DEF r, q
  <2>1. IntValues \in Nat \ {0}
    BY HalfIsHalf, SMTT(30)
  <2>2. r = (r % IntValues) + IntValues * (r \div IntValues)
        /\ r % IntValues \in 0..(IntValues - 1) /\ r \div IntValues \in Int
    BY <1>4, <2>1, DivMod
  <2> DEFINE m == r % IntValues
             z == r \div IntValues
  <2> HIDE DEF m, z
  <2>3. n = m + IntValues * (z + q) /\ z + q \in Int
    BY <1>3, <2>1, <2>2, SMTT(30) DEF m, z
  <2>4. n % IntValues = m
    BY <1>3, <2>1, <2>2, <2>3, ModUnique, SMTT(30) DEF m, z
  <2>5. QED
    BY <2>4 DEF m
<1>6. IntOfBytes(s) = Wrapped(r)
  BY DEF IntOfBytes
<1> HIDE DEF r, s
<1>7. QED
  BY <1>5, <1>6 DEF Wrapped, s

(* What is left of an int in byte, word and dword is read back as it was   *)
(* written, whether or not the int was in range.                           *)
LEMMA FixedPacked ==
    ASSUME NEW type \in {"byte", "word", "dword"}, NEW num \in Int, NEW room \in Int
    PROVE  LET p == PackFixed(type, num, room) IN
           /\ PackedOK(p)
           /\ p.bytes # <<>> => /\ Len(p.bytes) = Width(type)
                                /\ \A i \in 1..Width(type) : p.bytes[i] = BytesOfInt(num)[i]
<1> DEFINE k == Width(type)
           low == LowBytes(num, k)
           p == PackFixed(type, num, room)
<1>1. k \in 1..4
  BY SMTT(30) DEF Width
<1> HIDE DEF k
<1>2. low \in Seq(Byte) /\ Len(low) = k /\ \A i \in 1..k : low[i] = BytesOfInt(num)[i]
  BY <1>1, LowBytesOf
<1>3. p = CheckBuf(low, room)
  BY DEF PackFixed, k
<1> HIDE DEF low, p
<1>4. PackedOK(p) /\ p.bytes \in {<<>>, low}
  BY <1>2, <1>3, CheckedBuf
<1>5. PackedOK(p) /\ (p.bytes # <<>> => p.bytes = low)
  BY <1>4
<1>6. QED
  BY <1>2, <1>5 DEF p, k

\* What a reader of byte, word or dword makes of the first bytes of num.
FixedValue(type, num) ==
    UnpackFixed(type, BytesOfInt(num)).vals[1]

(* A reader of byte, word or dword only looks at the bytes of its width.   *)
LEMMA FixedRead ==
    ASSUME NEW type \in {"byte", "word", "dword"}, NEW num \in Int, NEW b \in Seq(Byte),
           Len(b) = Width(type), \A i \in 1..Width(type) : b[i] = BytesOfInt(num)[i]
    PROVE  ReadsAs(type, b, FixedValue(type, num))
<1> DEFINE k == Width(type)
           full == BytesOfInt(num)
           Val(t) == LET u == OfLowBytes(t, k)
                         short == IF u >= (Base * Base + 1) \div 2 THEN u - Base * Base ELSE u
                     IN  Number(IF type = "word" THEN short ELSE u)
<1>1. k \in 1..4
  BY SMTT(30) DEF Width
<1>2. full \in Seq(Byte) /\ Len(full) = 4
  BY DigitsOfInt DEF Digits
<1>3. ASSUME NEW t, Len(t) \in Nat, Len(t) >= k, \A i \in 1..k : t[i] = full[i]
      PROVE  UnpackFixed(type, t) = Read(k, Val(full))
  <2>1. [i \in 1..SizeofInt |-> IF i <= k THEN t[i] ELSE 0]
          = [i \in 1..SizeofInt |-> IF i <= k THEN full[i] ELSE 0]
    <3> HIDE DEF k, full
    <3>1. QED
      BY <1>1, <1>3, SMTT(30) DEF SizeofInt
  <2>2. OfLowBytes(t, k) = OfLowBytes(full, k)
    BY <2>1 DEF OfLowBytes
  <2>3. Val(t) = Val(full)
    BY <2>2
  <2>4. ~(k > Len(t))
    BY <1>1, <1>3, SMTT(30)
  <2>5. UnpackFixed(type, t) = Read(k, Val(t))
    BY <2>4 DEF UnpackFixed
  <2> HIDE DEF Val, k, full
  <2>6. QED
    BY <2>3, <2>5
<1>4. FixedValue(type, num) = Val(full)
  <2>1. UnpackFixed(type, full) = Read(k, Val(full))
    BY <1>1, <1>2, <1>3, SMTT(30)
  <2> HIDE DEF Val, k
  <2>2. QED
    BY <2>1, SMTT(30) DEF FixedValue, Read
<1>5. ASSUME NEW t \in Seq(Byte), StartsWith(t, b)
      PROVE  UnpackScalar(type, t) = Read(Len(b), Val(full))
  <2>1. UnpackScalar(type, t) = UnpackFixed(type, t)
    BY DEF UnpackScalar
  <2>2. Len(t) \in Nat /\ Len(t) >= k /\ \A i \in 1..k : t[i] = full[i]
    <3> HIDE DEF k, full
    <3>1. QED
      BY <1>5, <1>1, SMTT(30) DEF StartsWith, k, full
  <2>3. UnpackFixed(type, t) = Read(k, Val(full))
    BY <1>3, <2>2
  <2> HIDE DEF Val
  <2>4. QED
    BY <2>1, <2>3
<1> HIDE DEF Val
<1>6. QED
  BY <1>4, <1>5 DEF ReadsAs

(* Bytes, shorts and ints in range are their own reading.                  *)
LEMMA FixedCarried ==
    ASSUME NEW type \in {"byte", "word", "dword"}, NEW num \in MinInt32..MaxInt32,
           type = "byte" => num \in Byte,
           type = "word" => num \in -((Base * Base) \div 2)..((Base * Base + 1) \div 2 - 1)
    PROVE  FixedValue(type, num) = Number(num)
<1> DEFINE full == BytesOfInt(num)
           sq == Base * Base
<1>1. num \in Int /\ Wrapped(num) = num
  BY IntIsWrapped
<1>2. Digits(num)
  BY <1>1, DigitsOfInt
<1>3. full \in Seq(Byte) /\ Len(full) = 4
  BY <1>2 DEF Digits
<1>4. Width(type) \in 1..4 /\ ~(Width(type) > Len(full))
  BY <1>3, SMTT(30) DEF Width
<1> DEFINE u == OfLowBytes(full, Width(type))
           short == IF u >= (sq + 1) \div 2 THEN u - sq ELSE u
<1>5. FixedValue(type, num) = Number(IF type = "word" THEN short ELSE u)
  <2> HIDE DEF u
  <2>1. UnpackFixed(type, full) = Read(Width(type), Number(IF type = "word" THEN short ELSE u))
    BY <1>4 DEF UnpackFixed, u
  <2> HIDE DEF short
  <2>2. QED
    BY <2>1, SMTT(30) DEF FixedValue, Read
<1>6. CASE type = "byte"
  <2>1. num \in Nat /\ num < HeldBy(1) /\ Width(type) = 1 /\ 1 \in 1..4
    BY <1>6, SMTT(30) DEF Byte, HeldBy, Width
  <2>2. \A i \in 1..1 : full[i] = BytesOfInt(num)[i]
    OBVIOUS
  <2>3. num < IntValues
    BY <1>6, HalfIsHalf, SMTT(30) DEF Byte
  <2>4. OfLowBytes(full, 1) = Wrapped(num)
    BY <2>1, <2>2, <2>3, LowBytesRead
  <2>5. u = num
    BY <1>1, <2>1, <2>4
  <2> HIDE DEF u
  <2>6. QED
    BY <1>5, <1>6, <2>5
<1>7. CASE type = "word"
  <2> DEFINE d1 == full[1]
             d2 == full[2]
             q == Shifted(Shifted(num))
             low == d1 + Base * d2
             v == [i \in 1..SizeofInt |-> IF i <= 2 THEN full[i] ELSE 0]
             h == (sq + 1) \div 2
  <2>1. d1 \in Byte /\ d2 \in Byte
    BY <1>2 DEF Digits
  <2>2. num = low + sq * q /\ q \in Int
    <3>1. num = d1 + Base * Shifted(num) /\ Shifted(num) = d2 + Base * q
          /\ Shifted(num) \in Int /\ q \in Int
      BY <1>2 DEF Digits
    <3> HIDE DEF d1, d2, q
    <3>2. Base * (d2 + Base * q) = Base * d2 + (Base * Base) * q
      BY <2>1, <3>1, SMTT(30) DEF Byte
    <3>3. QED
      BY <2>1, <3>1, <3>2, SMTT(30) DEF Byte
  <2>3. low \in 0..(sq - 1) /\ sq \in Nat /\ sq > 0
    <3> HIDE DEF d1, d2
    <3>1. d1 \in Nat /\ d2 \in Nat /\ d1 <= Base - 1 /\ d2 <= Base - 1 /\ Base \in Nat
      BY <2>1, SMTT(30) DEF Byte
    <3>2. Base * d2 <= Base * (Base - 1) /\ Base * (Base - 1) = sq - Base
      BY <3>1, SMTT(30)
    <3>3. QED
      BY <3>1, <3>2, SMTT(30)
  <2>4. u = low
    <3>1. Width(type) = 2
      BY <1>7 DEF Width
    <3>2. u = IntOfBytes(v)
      BY <3>1 DEF OfLowBytes
    <3>3. v[1] = d1 /\ v[2] = d2 /\ v[3] = 0 /\ v[4] = 0
      BY SMTT(30) DEF SizeofInt
    <3> HIDE DEF v, d1, d2, u
    <3>4. IntOfBytes(v) = Wrapped(low)
      <4>1. v[1] + Base * (v[2] + Base * (v[3] + Base * v[4])) = low
        BY <2>1, <3>3, SMTT(30) DEF Byte
      <4>2. QED
        BY <4>1 DEF IntOfBytes
    <3>5. low \in 0..(IntValues \div 2 - 1) /\ low \in Int
      <4> HIDE DEF low
      <4>1. sq <= Half /\ Half \in Nat
        BY HalfIsHalf
      <4> HIDE DEF sq
      <4>2. QED
        BY <2>3, <4>1, SMTT(30) DEF Half
    <3> HIDE DEF low
    <3>6. Wrapped(low) = low
      BY <3>5, WrappedUnsigned
    <3>7. QED
      BY <3>2, <3>4, <3>6
  <2>5. num \in -(sq \div 2)..(h - 1)
    BY <1>7
  <2> HIDE DEF low, u, sq, q
  <2>6. h \in Nat /\ 2 * h >= sq /\ 2 * h <= sq + 1 /\ sq \div 2 \in Nat /\ sq \div 2 + h = sq
    BY <2>3, SMTT(30)
  <2>7. short = num
    <3>1. CASE num >= 0
      <4>1. q = 0
        <5>1. q < 1
          <6>1. SUFFICES ASSUME q >= 1 PROVE FALSE
            BY <2>2, SMTT(30)
          <6>2. sq * q >= sq * 1
            BY <2>2, <2>3, <6>1, SMTT(30)
          <6>3. QED
            BY <2>2, <2>3, <2>5, <2>6, <6>2, SMTT(30)
        <5>2. q > -1
          <6>1. SUFFICES ASSUME q <= -1 PROVE FALSE
            BY <2>2, SMTT(30)
          <6>2. sq * q <= sq * (-1)
            BY <2>2, <2>3, <6>1, SMTT(30)
          <6>3. QED
            BY <1>1, <2>2, <2>3, <3>1, <6>2, SMTT(30)
        <5>3. QED
          BY <2>2, <5>1, <5>2, SMTT(30)
      <4>2. low = num
        BY <2>2, <2>3, <4>1, SMTT(30)
      <4>3. QED
        BY <2>4, <2>5, <2>6, <4>2, SMTT(30)
    <3>2. CASE num < 0
      <4>1. q = -1
        <5>1. q < 0
          <6>1. SUFFICES ASSUME q >= 0 PROVE FALSE
            BY <2>2, SMTT(30)
          <6>2. sq * q >= 0
            BY <2>2, <2>3, <6>1, SMTT(30)
          <6>3. QED
            BY <1>1, <2>2, <2>3, <3>2, <6>2, SMTT(30)
        <5>2. q > -2
          <6>1. SUFFICES ASSUME q <= -2 PROVE FALSE
            BY <2>2, SMTT(30)
          <6>2. sq * q <= sq * (-2)
            BY <2>2, <2>3, <6>1, SMTT(30)
          <6>3. QED
            BY <2>2, <2>3, <2>5, <2>6, <6>2, SMTT(30)
        <5>3. QED
          BY <2>2, <5>1, <5>2, SMTT(30)
      <4>2. low = num + sq
        BY <1>1, <2>2, <2>3, <4>1, SMTT(30)
      <4>3. low >= h
        BY <1>1, <2>3, <2>5, <2>6, <4>2, SMTT(30)
      <4>4. QED
        BY <1>1, <2>3, <2>4, <4>2, <4>3, SMTT(30)
    <3>3. QED
      BY <1>1, <3>1, <3>2, SMTT(30)
  <2> HIDE DEF short
  <2>8. QED
    BY <1>5, <1>7, <2>7
<1>8. CASE type = "dword"
  <2>1. Width(type) = 4
    BY <1>8 DEF Width
  <2>2. [i \in 1..SizeofInt |-> IF i <= 4 THEN full[i] ELSE 0] = full
    BY <1>3, SMTT(30) DEF SizeofInt
  <2>3. u = IntOfBytes(full)
    BY <2>1, <2>2 DEF OfLowBytes
  <2>4. IntOfBytes(full) = Wrapped(num)
    BY <1>1, BytesOfAnyInt
  <2>5. u = num
    BY <1>1, <2>3, <2>4
  <2> HIDE DEF u
  <2>6. QED
    BY <1>5, <1>8, <2>5
<1>9. QED
  BY <1>6, <1>7, <1>8

(* The numbers of two bytes.                                               *)
LEMMA TwoBytes ==
    ASSUME NEW n \in Nat, n < Base * Base
    PROVE  LET d == BytesOfInt(n) IN
           n = d[1] + d[2] * Base /\ d[1] \in Byte /\ d[2] \in Byte
<1> DEFINE d == BytesOfInt(n)
           a == Shifted(n)
           b == Shifted(a)
<1>1. /\ d[1] \in Byte /\ d[2] \in Byte /\ a \in Int /\ b \in Int
      /\ n = d[1] + Base * a /\ a = d[2] + Base * b
  <2>1. n \in Int
    BY SMTT(30)
  <2>2. QED
    BY <2>1, DigitsOfInt DEF Digits
<1> HIDE DEF d, a, b
<1>2. Base \in Nat /\ 1 \in Nat
  OBVIOUS
<1>3. a \in Nat /\ a < Base * 1
  <2>1. a \in Nat /\ a < Base
    BY <1>1, <1>2, SmallQuotient
  <2>2. QED
    BY <2>1, SMTT(30)
<1>4. b \in Nat /\ b < 1
  BY <1>1, <1>2, <1>3, SmallQuotient
<1>5. a = d[2]
  BY <1>1, <1>4, SMTT(30) DEF Byte
<1>6. QED
  BY <1>1, <1>5, SMTT(30) DEF d, Byte

(* Values that byte, word and dword carry are ints.                        *)
LEMMA CarriedIsInt ==
    ASSUME NEW type \in {"byte", "word", "dword"}, NEW v, Carries(type, v)
    PROVE  /\ v.n \in MinInt32..MaxInt32
           /\ type = "byte" => v.n \in Byte
           /\ type = "word" => v.n \in -((Base * Base) \div 2)..((Base * Base + 1) \div 2 - 1)
<1> DEFINE sq == Base * Base
<1>1. /\ type = "byte" => v.n \in Byte
      /\ type = "word" => v.n \in -(sq \div 2)..((sq + 1) \div 2 - 1)
      /\ type = "dword" => v.n \in MinInt32..MaxInt32
  BY DEF Carries
<1>2. /\ Half \in Nat /\ Base \in Nat /\ sq \in Nat /\ Base <= Half /\ sq <= Half /\ sq >= 4
      /\ MinInt32 = -Half /\ MaxInt32 = Half - 1
  BY HalfIsHalf, SMTT(30) DEF MinInt32, MaxInt32, Half
<1>3. Byte = 0..(Base - 1)
  BY DEF Byte
<1> HIDE DEF sq
<1>4. sq \div 2 \in Nat /\ sq \div 2 <= sq /\ (sq + 1) \div 2 \in Nat /\ (sq + 1) \div 2 <= sq
  BY <1>2, SMTT(30)
<1>5. Byte \subseteq MinInt32..MaxInt32
  BY <1>2, <1>3, SMTT(30)
<1>6. -(sq \div 2)..((sq + 1) \div 2 - 1) \subseteq MinInt32..MaxInt32
  BY <1>2, <1>4, SMTT(30)
<1>7. v.n \in MinInt32..MaxInt32
  BY <1>1, <1>5, <1>6
<1>8. QED
  BY <1>1, <1>7 DEF sq

(* A string is read as it was packed, in the short and in the long form.   *)
LEMMA StringRead ==
    ASSUME NEW s \in Seq(Byte), NEW room \in Int
    PROVE  LET p == PackString(s, room) IN
           PackedOK(p) /\ (p.bytes # <<>> => ReadsAs("string", p.bytes, String(s)))
<1> DEFINE id == Len(s) + 1
           p == PackString(s, room)
           sq == Base * Base
<1>1. id \in Nat /\ id >= 1 /\ Len(s) = id - 1 /\ Len(s) \in Nat
  BY SMTT(30)
<1>2. CASE id <= Base - 1
  <2> DEFINE b == <<id>> \o s
  <2>1. <<id>> \in Seq(Byte) /\ Len(<<id>>) = 1 /\ <<id>>[1] = id
    BY <1>1, <1>2, SMTT(30) DEF Byte
  <2>2. b \in Seq(Byte) /\ Joined(b, <<id>>, s)
    BY <2>1, ConcatAt
  <2>3. p = CheckBuf(b, room)
    BY <1>2 DEF PackString
  <2> HIDE DEF b, p
  <2>4. Len(b) = id /\ b[1] = id /\ \A i \in 1..Len(s) : b[1 + i] = s[i]
    BY <1>1, <2>1, <2>2, SMTT(30) DEF Joined
  <2>5. ASSUME NEW t \in Seq(Byte), StartsWith(t, b)
        PROVE  UnpackScalar("string", t) = Read(Len(b), String(s))
    <3>1. /\ Len(t) \in Nat /\ Len(t) >= id /\ t[1] = id
          /\ \A i \in 1..Len(s) : t[1 + i] = s[i]
      <4> HIDE DEF id
      <4>1. QED
        BY <1>1, <2>4, <2>5, SMTT(30) DEF StartsWith
    <3>2. SubSeq(t, 2, id) = s
      <4> DEFINE c == SubSeq(t, 1 + 1, id)
      <4>1. c \in Seq(Byte) /\ Piece(c, t, 1, id)
        BY <1>1, <3>1, PieceOf
      <4> HIDE DEF c
      <4>2. Len(c) = Len(s) /\ \A i \in 1..Len(c) : c[i] = s[i]
        BY <1>1, <3>1, <4>1 DEF Piece
      <4>3. c = s
        BY <4>1, <4>2, SameSeq
      <4>4. QED
        BY <4>3, SMTT(30) DEF c
    <3>3. ~(1 > Len(t)) /\ t[1] > 0 /\ ~(t[1] > Len(t))
      BY <1>1, <3>1, SMTT(30)
    <3>4. UnpackString(t) = Read(id, String(s))
      <4> HIDE DEF id
      <4>1. QED
        BY <3>1, <3>2, <3>3 DEF UnpackString
    <3>5. UnpackScalar("string", t) = UnpackString(t)
      BY DEF UnpackScalar
    <3>6. QED
      BY <2>4, <3>4, <3>5
  <2>6. PackedOK(p) /\ p.bytes \in {<<>>, b}
    BY <2>2, <2>3, CheckedBuf
  <2>7. ReadsAs("string", b, String(s))
    BY <2>5 DEF ReadsAs
  <2>8. QED
    BY <2>6, <2>7 DEF p
<1>3. CASE id > Base - 1 /\ id <= sq - 1
  <2> DEFINE low == LowBytes(id, 2)
             h == <<0>> \o low
             b == h \o s
             d1 == BytesOfInt(id)[1]
             d2 == BytesOfInt(id)[2]
  <2>1. <<0>> \in Seq(Byte) /\ Len(<<0>>) = 1 /\ <<0>>[1] = 0
    BY SMTT(30) DEF Byte
  <2>2. low \in Seq(Byte) /\ Len(low) = 2 /\ \A i \in 1..2 : low[i] = BytesOfInt(id)[i]
    <3>1. id \in Int /\ 2 \in 1..4
      BY <1>1, SMTT(30)
    <3> HIDE DEF id
    <3>2. QED
      BY <3>1, LowBytesOf
  <2>3. id = d1 + d2 * Base /\ d1 \in Byte /\ d2 \in Byte
    BY <1>1, <1>3, TwoBytes, SMTT(30)
  <2>4. p = CheckBuf(b, room)
    BY <1>1, <1>3, SMTT(30) DEF PackString
  <2> HIDE DEF low, d1, d2, p
  <2>5. h \in Seq(Byte) /\ Joined(h, <<0>>, low)
    BY <2>1, <2>2, ConcatAt
  <2> HIDE DEF h
  <2>6. b \in Seq(Byte) /\ Joined(b, h, s)
    BY <2>5, ConcatAt
  <2> HIDE DEF b
  <2>7. Len(h) = 3 /\ h[1] = 0 /\ h[2] = d1 /\ h[3] = d2
    BY <2>1, <2>2, <2>5, SMTT(30) DEF Joined, d1, d2
  <2>8. /\ Len(b) = 3 + Len(s) /\ b[1] = 0 /\ b[2] = d1 /\ b[3] = d2
        /\ \A i \in 1..Len(s) : b[3 + i] = s[i]
    BY <2>6, <2>7, SMTT(30) DEF Joined
  <2>9. ASSUME NEW t \in Seq(Byte), StartsWith(t, b)
        PROVE  UnpackScalar("string", t) = Read(Len(b), String(s))
    <3>1. /\ Len(t) \in Nat /\ Len(t) >= 3 + Len(s) /\ t[1] = 0 /\ t[2] = d1 /\ t[3] = d2
          /\ \A i \in 1..Len(s) : t[3 + i] = s[i]
      <4> HIDE DEF id
      <4>1. QED
        BY <1>1, <2>8, <2>9, SMTT(30) DEF StartsWith
    <3>2. SubSeq(t, 4, 3 + Len(s)) = s
      <4> DEFINE c == SubSeq(t, 3 + 1, 3 + Len(s))
      <4>1. c \in Seq(Byte) /\ Piece(c, t, 3, 3 + Len(s))
        BY <1>1, <3>1, PieceOf, SMTT(30)
      <4> HIDE DEF c
      <4>2. Len(c) = Len(s) /\ \A i \in 1..Len(c) : c[i] = s[i]
        <5>1. (3 + Len(s)) - 3 = Len(s)
          BY <1>1, SMTT(30)
        <5>2. Len(c) = Len(s) /\ \A i \in 1..Len(s) : c[i] = t[3 + i]
          BY <4>1, <5>1 DEF Piece
        <5>3. QED
          BY <3>1, <5>2
      <4>3. c = s
        BY <4>1, <4>2, SameSeq
      <4>4. QED
        BY <4>3, SMTT(30) DEF c
    <3>3. ~(1 > Len(t)) /\ ~(t[1] > 0) /\ ~(3 > Len(t))
      BY <1>1, <3>1, SMTT(30)
    <3>4. t[2] + t[3] * Base - 1 = Len(s)
      <4> HIDE DEF id
      <4>1. QED
        BY <1>1, <2>3, <3>1, SMTT(30) DEF Byte
    <3>5. ~(Len(s) < 0 \/ 3 + Len(s) > Len(t))
      BY <1>1, <3>1, SMTT(30)
    <3>6. UnpackString(t) = Read(3 + Len(s), String(s))
      BY <3>2, <3>3, <3>4, <3>5 DEF UnpackString
    <3>7. UnpackScalar("string", t) = UnpackString(t)
      BY DEF UnpackScalar
    <3>8. QED
      BY <2>8, <3>6, <3>7
  <2>10. PackedOK(p) /\ p.bytes \in {<<>>, b}
    BY <2>4, <2>6, CheckedBuf
  <2>11. ReadsAs("string", b, String(s))
    BY <2>9 DEF ReadsAs
  <2>12. QED
    BY <2>10, <2>11 DEF p
<1>4. CASE id > Base - 1 /\ id > sq - 1
  <2>1. p = Failed
    BY <1>1, <1>4, SMTT(30) DEF PackString
  <2>2. PackedOK(p) /\ p.bytes = <<>>
    BY <2>1, SMTT(30) DEF Failed, Packed, PackedOK
  <2> HIDE DEF p
  <2>3. QED
    BY <2>2 DEF p
<1>5. id > Base - 1 \/ id <= Base - 1
  BY <1>1, SMTT(30)
<1>6. id > sq - 1 \/ id <= sq - 1
  BY <1>1, SMTT(30)
<1>7. QED
  BY <1>2, <1>3, <1>4, <1>5, <1>6

-----------------------------------------------------------------------------
(* Lua values.                                                             *)

\* What arg_list may name that is not an array or a table.
NamedTypes == ScalarTypes \cup {"bad", "null"}

\* One packed scalar: what it is read as.
ScalarFound(type, v, b, w) ==
    ReadsAs(type, b, w) /\ v.t # "nil" /\ (Carries(type, v) => w = v)

(* Every scalar that pack() accepts is read by unpack() of the same        *)
(* format, and as the same value if the format can carry it.               *)
LEMMA ScalarRead ==
    ASSUME NEW type \in NamedTypes, NEW v, IsValue(v), NEW room \in Int
    PROVE  LET p == PackScalar(type, v, room) IN
           PackedOK(p) /\ (p.bytes # <<>> => \E w : ScalarFound(type, v, p.bytes, w))
<1> DEFINE p == PackScalar(type, v, room)
<1>1. CASE type = "string" /\ v.t = "string"
  <2>1. v = String(v.s) /\ v.s \in Seq(Byte)
    BY <1>1 DEF IsValue
  <2>2. p = PackString(v.s, room)
    BY <1>1 DEF PackScalar
  <2> HIDE DEF p
  <2>3. PackedOK(p) /\ (p.bytes # <<>> => ReadsAs(type, p.bytes, v))
    BY <1>1, <2>1, <2>2, StringRead
  <2>4. QED
    BY <1>1, <2>3 DEF ScalarFound, p
<1>2. CASE type = "string" /\ v.t = "number"
  <2> DEFINE txt == NumberText(v.n)
  <2>1. txt \in Seq(Byte)
    BY <1>2 DEF IsValue
  <2>2. p = PackString(txt, room)
    BY <1>2 DEF PackScalar
  <2>3. ~Carries(type, v)
    BY <1>2 DEF Carries
  <2> HIDE DEF p, txt
  <2>4. PackedOK(p) /\ (p.bytes # <<>> => ReadsAs(type, p.bytes, String(txt)))
    BY <1>2, <2>1, <2>2, StringRead
  <2>5. QED
    BY <1>2, <2>3, <2>4 DEF ScalarFound, p
<1>3. CASE type = "number" /\ v.t = "number"
  <2> DEFINE num == Number2Int(v.n)
  <2>1. num \in MinInt32..MaxInt32 /\ v = Number(v.n)
    BY <1>3 DEF IsValue
  <2>2. p = PackNumber(num, room)
    BY <1>3 DEF PackScalar
  <2>3. Carries(type, v) => num = v.n
    BY <1>3, FormatAssumption DEF Carries
  <2> HIDE DEF p, num
  <2>4. PackedOK(p) /\ (p.bytes # <<>> => ReadsAs(type, p.bytes, Number(num)))
    BY <1>3, <2>1, <2>2, NumberRead
  <2>5. QED
    BY <1>3, <2>1, <2>3, <2>4 DEF ScalarFound, p
<1>4. CASE type \in {"byte", "word", "dword"} /\ v.t = "number"
  <2> DEFINE num == Number2Int(v.n)
  <2>1. num \in MinInt32..MaxInt32 /\ v = Number(v.n)
    BY <1>4 DEF IsValue
  <2>2. p = PackFixed(type, num, room)
    BY <1>4 DEF PackScalar
  <2>3. num \in Int /\ Wrapped(num) = num
    BY <2>1, IntIsWrapped
  <2>4. Carries(type, v) => FixedValue(type, num) = v
    <3>1. SUFFICES ASSUME Carries(type, v) PROVE FixedValue(type, num) = v
      OBVIOUS
    <3>2. /\ v.n \in MinInt32..MaxInt32
          /\ type = "byte" => v.n \in Byte
          /\ type = "word" => v.n \in -((Base * Base) \div 2)..((Base * Base + 1) \div 2 - 1)
      BY <1>4, <3>1, CarriedIsInt
    <3>3. num = v.n
      BY <3>2, FormatAssumption
    <3> HIDE DEF num
    <3>4. FixedValue(type, num) = Number(num)
      BY <1>4, <2>1, <3>2, <3>3, FixedCarried
    <3>5. QED
      BY <2>1, <3>3, <3>4
  <2> HIDE DEF p, num
  <2>5. /\ PackedOK(p)
        /\ p.bytes # <<>> => /\ Len(p.bytes) = Width(type)
                             /\ \A i \in 1..Width(type) : p.bytes[i] = BytesOfInt(num)[i]
    BY <1>4, <2>2, <2>3, FixedPacked
  <2>6. p.bytes # <<>> => ReadsAs(type, p.bytes, FixedValue(type, num))
    BY <1>4, <2>3, <2>5, FixedRead DEF PackedOK
  <2>7. QED
    BY <1>4, <2>4, <2>5, <2>6 DEF ScalarFound, p
<1>5. CASE ~ \/ type = "string" /\ v.t = "string"
             \/ type = "string" /\ v.t = "number"
             \/ type = "number" /\ v.t = "number"
             \/ type \in {"byte", "word", "dword"} /\ v.t = "number"
  <2>1. p = Raised
    BY <1>5 DEF PackScalar
  <2>2. QED
    BY <2>1, SMTT(30) DEF Raised, PackedOK
<1>6. QED
  BY <1>1, <1>2, <1>3, <1>4, <1>5

-----------------------------------------------------------------------------
(* Messages: what marshal() packs, unpack() finds.                         *)

PackStates == [raised : BOOLEAN, failed : BOOLEAN, bytes : Seq(Byte)]

\* Nothing has failed so far.
Going(st) == ~st.raised /\ ~st.failed

\* The formats of a protocol without arrays and tables.
ScalarList(args) == Len(args) \in Nat /\ \A n \in 1..Len(args) : args[n].type \in NamedTypes

\* The values passed, as pack() of the first n arguments finds them.
ValuesFor(vals, n) == \A i \in 1..n : IsValue(Passed(vals, i))

(* One argument more.                                                      *)
LEMMA MorePackedState ==
    ASSUME NEW st \in PackStates, NEW p, PackedOK(p)
    PROVE  /\ MorePacked(st, p) \in PackStates
           /\ Going(MorePacked(st, p)) =>
                 /\ Going(st) /\ p.bytes # <<>>
                 /\ MorePacked(st, p).bytes = st.bytes \o p.bytes
<1> DEFINE none == p.bytes = <<>>
           more == [raised |-> p.raised, failed |-> none, bytes |-> st.bytes \o p.bytes]
<1>1. p.bytes \in Seq(Byte) /\ p.raised \in BOOLEAN /\ none \in BOOLEAN
  BY DEF PackedOK
<1>2. st.bytes \in Seq(Byte) /\ st.raised \in BOOLEAN /\ st.failed \in BOOLEAN
  BY DEF PackStates
<1>3. st.bytes \o p.bytes \in Seq(Byte)
  BY <1>1, <1>2, ConcatAt
<1> DEFINE both == st.bytes \o p.bytes
<1>4. MorePacked(st, p) = IF st.raised \/ st.failed THEN st ELSE more
  BY DEF MorePacked
<1>5. more.raised = p.raised /\ more.failed = none /\ more.bytes = both
  OBVIOUS
<1>6. more \in PackStates
  <2> HIDE DEF both, none
  <2>1. QED
    BY <1>1, <1>3 DEF PackStates, both
<1> HIDE DEF more, both
<1>7. CASE st.raised \/ st.failed
  BY <1>4, <1>7 DEF Going
<1>8. CASE ~(st.raised \/ st.failed)
  BY <1>4, <1>5, <1>6, <1>8 DEF Going, both
<1>9. QED
  BY <1>7, <1>8

(* The ids in front of messages.                                           *)
LEMMA IdRead ==
    ASSUME NEW id \in Nat, id >= 1, id < Base * Base
    PROVE  LET h == IdBytes(id) IN
           /\ h \in Seq(Byte) /\ Len(h) \in 1..3
           /\ \A t \in Seq(Byte) : StartsWith(t, h) => ReadId(t) = [len |-> Len(h), id |-> id]
<1> DEFINE h == IdBytes(id)
           d1 == BytesOfInt(id)[1]
           d2 == BytesOfInt(id)[2]
<1>0. id \in Int /\ 1 \in 1..4 /\ 2 \in 1..4
  BY SMTT(30)
<1>1. id = d1 + d2 * Base /\ d1 \in Byte /\ d2 \in Byte
  BY TwoBytes
<1>2. CASE id < Base
  <2> DEFINE low == LowBytes(id, 1)
  <2>1. low \in Seq(Byte) /\ Len(low) = 1 /\ \A i \in 1..1 : low[i] = BytesOfInt(id)[i]
    BY <1>0, LowBytesOf
  <2>2. h = low
    BY <1>2 DEF IdBytes
  <2>3. d1 = id
    <3> HIDE DEF d1, d2
    <3>1. d2 = 0
      <4>1. SUFFICES ASSUME d2 >= 1 PROVE FALSE
        BY <1>1, SMTT(30) DEF Byte
      <4>2. d2 * Base >= 1 * Base
        BY <1>1, <4>1, SMTT(30) DEF Byte
      <4>3. QED
        BY <1>1, <1>2, <4>2, SMTT(30) DEF Byte
    <3>2. QED
      BY <1>1, <3>1, SMTT(30) DEF Byte
  <2> HIDE DEF low, h
  <2>4. h \in Seq(Byte) /\ Len(h) = 1 /\ h[1] = id
    BY <2>1, <2>2, <2>3, SMTT(30)
  <2>5. ASSUME NEW t \in Seq(Byte), StartsWith(t, h) PROVE ReadId(t) = [len |-> Len(h), id |-> id]
    <3>1. Len(t) \in Nat /\ Len(t) >= 1 /\ t[1] = id
      BY <2>4, <2>5, SMTT(30) DEF StartsWith
    <3>2. ~(1 > Len(t)) /\ t[1] # 0
      BY <3>1, SMTT(30)
    <3>3. QED
      BY <2>4, <3>1, <3>2 DEF ReadId
  <2>6. QED
    BY <2>4, <2>5, SMTT(30) DEF h
<1>3. CASE ~(id < Base)
  <2> DEFINE low == LowBytes(id, 2)
  <2>1. <<0>> \in Seq(Byte) /\ Len(<<0>>) = 1 /\ <<0>>[1] = 0
    BY SMTT(30) DEF Byte
  <2>2. low \in Seq(Byte) /\ Len(low) = 2 /\ \A i \in 1..2 : low[i] = BytesOfInt(id)[i]
    BY <1>0, LowBytesOf
  <2>3. h = <<0>> \o low
    BY <1>3 DEF IdBytes
  <2> HIDE DEF low, h, d1, d2
  <2>4. h \in Seq(Byte) /\ Joined(h, <<0>>, low)
    BY <2>1, <2>2, <2>3, ConcatAt
  <2>5. Len(h) = 3 /\ h[1] = 0 /\ h[2] = d1 /\ h[3] = d2
    BY <2>1, <2>2, <2>4, SMTT(30) DEF Joined, d1, d2
  <2>6. ASSUME NEW t \in Seq(Byte), StartsWith(t, h) PROVE ReadId(t) = [len |-> Len(h), id |-> id]
    <3>1. Len(t) \in Nat /\ Len(t) >= 3 /\ t[1] = 0 /\ t[2] = d1 /\ t[3] = d2
      BY <2>5, <2>6, SMTT(30) DEF StartsWith
    <3>2. ~(1 > Len(t)) /\ ~(3 > Len(t)) /\ t[2] + t[3] * Base = id
      BY <1>1, <3>1, SMTT(30)
    <3>3. QED
      BY <2>5, <3>1, <3>2 DEF ReadId
  <2>7. QED
    BY <2>4, <2>5, <2>6, SMTT(30) DEF h
<1>4. QED
  BY <1>2, <1>3

\* st is how marshal() gets on with the given arguments.
PackingSteps(st, args, vals, room, head) ==
    /\ st \in [0..Len(args) -> PackStates] /\ st[0] = Begun(head)
    /\ \A n \in 1..Len(args) :
          st[n] = MorePacked(st[n - 1], PackScalar(args[n].type, Passed(vals, n),
                                                   room - Len(st[n - 1].bytes)))

(* The loop of marshal(), step by step.                                    *)
LEMMA PackingEquations ==
    ASSUME NEW id, IdBytes(id) \in Seq(Byte), NEW args, ScalarList(args), NEW vals,
           ValuesFor(vals, Len(args)), NEW room \in Int
    PROVE  PackingSteps(Packing(id, args, vals, room), args, vals, room, IdBytes(id))
<1> DEFINE L == Len(args)
           first == Begun(IdBytes(id))
           P(st, n) == PackScalar(args[n].type, Passed(vals, n), room - Len(st.bytes))
           Then(st, n) == MorePacked(st, P(st, n))
           Body(st, n) == MorePacked(st, Pack(args[n], Passed(vals, n), room - Len(st.bytes)))
           step == [n \in 1..L |-> [st \in PackStates |-> Then(st, n)]]
           Eqn(g) == g = [n \in 0..L |-> IF n = 0 THEN first ELSE Body(g[n - 1], n)]
           q == Packing(id, args, vals, room)
<1>1. L \in Nat /\ \A n \in 1..L : args[n].type \in NamedTypes
  BY DEF ScalarList
<1>2. ASSUME NEW n \in 1..L, NEW st PROVE Body(st, n) = Then(st, n)
  <2>1. args[n].type \in NamedTypes
    BY <1>1
  <2>2. args[n].type # "table" /\ args[n].type # "array"
    BY <2>1 DEF NamedTypes, ScalarTypes
  <2>3. QED
    BY <2>2 DEF Pack
<1>3. q = CHOOSE h : Eqn(h)
  BY DEF Packing
<1>4. ASSUME NEW n \in 1..L, NEW st \in PackStates PROVE Then(st, n) \in PackStates
  <2>1. st.bytes \in Seq(Byte)
    BY DEF PackStates
  <2>2. room - Len(st.bytes) \in Int
    BY <2>1, SMTT(30)
  <2>3. IsValue(Passed(vals, n)) /\ args[n].type \in NamedTypes
    BY <1>1 DEF ValuesFor
  <2>4. PackedOK(P(st, n))
    BY <2>2, <2>3, ScalarRead
  <2> HIDE DEF P
  <2>5. QED
    BY <2>4, MorePackedState
<1>5. first \in PackStates
  BY DEF Begun, PackStates
<1> HIDE DEF L, first, P, Then, Body, q
<1>6. step \in [1..L -> [PackStates -> PackStates]]
  BY <1>4
<1>7. PICK g \in [0..L -> PackStates] : Iterates(g, L, first, step)
  <2> HIDE DEF step
  <2>1. QED
    BY <1>1, <1>5, <1>6, PrimitiveRecursion
<1>8. ASSUME NEW n \in 1..L PROVE g[n] = Body(g[n - 1], n)
  <2>1. g[n - 1] \in PackStates
    BY <1>1, SMTT(30)
  <2>2. g[n] = Then(g[n - 1], n)
    BY <1>7, <2>1 DEF Iterates
  <2>3. QED
    BY <1>2, <2>2
<1>9. Eqn(g)
  <2>1. \A n \in 0..L : g[n] = IF n = 0 THEN first ELSE Body(g[n - 1], n)
    BY <1>1, <1>7, <1>8, SMTT(30) DEF Iterates
  <2>2. QED
    BY <2>1
<1>10. Eqn(q)
  <2> HIDE DEF Eqn
  <2>1. QED
    BY <1>3, <1>9
<1>11. q[0] = first /\ \A n \in 1..L : q[n] = Body(q[n - 1], n)
  BY <1>10, <1>1, SMTT(30)
<1>12. \A n \in 0..L : q[n] = g[n]
  <2> DEFINE S == {n \in 0..L : q[n] = g[n]}
  <2>1. 0 \in S
    BY <1>1, <1>7, <1>11, SMTT(30) DEF Iterates
  <2>2. \A n \in 1..L : n - 1 \in S => n \in S
    BY <1>8, <1>11, <1>1, SMTT(30)
  <2>3. \A n \in 0..L : n \in S
    <3> HIDE DEF S
    <3>1. QED
      BY <2>1, <2>2, <1>1, UpToInduction
  <2>4. QED
    BY <2>3
<1>13. q \in [0..L -> PackStates]
  BY <1>10, <1>12
<1>14. \A n \in 1..L : q[n] = Then(q[n - 1], n)
  BY <1>2, <1>11
<1>15. QED
  BY <1>11, <1>13, <1>14 DEF q, L, Then, P, first, PackingSteps
\* What marshal() made of an argument, after n - 1 others.
PackedArg(st, n, args, vals, room) ==
    PackScalar(args[n].type, Passed(vals, n), room - Len(st[n - 1].bytes))

\* Every argument was packed, one behind the other.
AllPacked(st, args, vals, room) ==
    /\ \A n \in 1..Len(args) :
          LET p == PackedArg(st, n, args, vals, room) IN
          /\ p.bytes \in Seq(Byte) /\ p.bytes # <<>>
          /\ Joined(st[n].bytes, st[n - 1].bytes, p.bytes)
          /\ \E w : ScalarFound(args[n].type, Passed(vals, n), p.bytes, w)
    /\ \A n \in 0..Len(args) : StartsWith(st[Len(args)].bytes, st[n].bytes)

(* What is packed after some arguments is what the message starts with.    *)
LEMMA StartsWithJoined ==
    ASSUME NEW t \in Seq(Byte), NEW u \in Seq(Byte), NEW s \in Seq(Byte), NEW b \in Seq(Byte),
           Joined(u, s, b), StartsWith(t, u)
    PROVE  StartsWith(t, s)
<1>1. Len(s) \in Nat /\ Len(b) \in Nat /\ Len(t) \in Nat /\ Len(u) = Len(s) + Len(b)
  BY SMTT(30) DEF Joined
<1>2. 1..Len(s) \subseteq 1..Len(u)
  BY <1>1, SMTT(30)
<1>3. QED
  BY <1>1, <1>2, SMTT(30) DEF Joined, StartsWith

(* A message that marshal() makes has all its arguments.                   *)
LEMMA MarshalPacks ==
    ASSUME NEW st, NEW args, ScalarList(args), NEW vals, ValuesFor(vals, Len(args)),
           NEW room \in Int, NEW head, PackingSteps(st, args, vals, room, head),
           Going(st[Len(args)])
    PROVE  AllPacked(st, args, vals, room)
<1> DEFINE L == Len(args)
           P(n) == PackedArg(st, n, args, vals, room)
<1>1. L \in Nat /\ \A n \in 1..L : args[n].type \in NamedTypes /\ IsValue(Passed(vals, n))
  BY DEF ScalarList, ValuesFor
<1>2. /\ \A n \in 0..L : st[n] \in PackStates
      /\ \A n \in 1..L : st[n] = MorePacked(st[n - 1], P(n))
  BY DEF PackingSteps, PackedArg
<1>3. \A n \in 0..L : st[n].bytes \in Seq(Byte)
  BY <1>2 DEF PackStates
<1>4. \A n \in 1..L : n - 1 \in 0..L /\ n \in 0..L
  BY <1>1, SMTT(30)
<1>5. ASSUME NEW n \in 1..L
      PROVE  /\ PackedOK(P(n))
             /\ \/ P(n).bytes = <<>>
                \/ \E w : ScalarFound(args[n].type, Passed(vals, n), P(n).bytes, w)
  <2>1. room - Len(st[n - 1].bytes) \in Int
    <3>1. st[n - 1].bytes \in Seq(Byte)
      BY <1>3, <1>4
    <3>2. QED
      BY <3>1, SMTT(30)
  <2>2. QED
    BY <1>1, <2>1, ScalarRead DEF PackedArg
<1> HIDE DEF P
<1>6. ASSUME NEW n \in 1..L, Going(st[n])
      PROVE  Going(st[n - 1]) /\ P(n).bytes # <<>> /\ st[n].bytes = st[n - 1].bytes \o P(n).bytes
  <2>1. st[n - 1] \in PackStates
    BY <1>2, <1>4
  <2>2. Going(MorePacked(st[n - 1], P(n)))
    BY <1>2, <1>6
  <2>3. QED
    BY <1>2, <1>5, <2>1, <2>2, MorePackedState
<1> HIDE DEF L
<1>7. \A n \in 0..L : Going(st[n])
  <2> DEFINE S == {n \in 0..L : Going(st[L - n])}
  <2>1. 0 \in S
    <3>1. L - 0 = L
      BY <1>1, SMTT(30)
    <3>2. QED
      BY <1>1, <3>1, SMTT(30) DEF L
  <2>2. ASSUME NEW n \in 1..L, n - 1 \in S PROVE n \in S
    <3> DEFINE k == L - (n - 1)
    <3>1. k \in 1..L /\ k - 1 = L - n
      BY <1>1, SMTT(30)
    <3>2. Going(st[k])
      BY <2>2
    <3> HIDE DEF k
    <3>3. Going(st[k - 1])
      BY <1>6, <3>1, <3>2
    <3>4. QED
      BY <1>1, <3>1, <3>3, SMTT(30)
  <2> HIDE DEF S
  <2>3. \A n \in 0..L : n \in S
    BY <1>1, <2>1, <2>2, UpToInduction
  <2>4. ASSUME NEW n \in 0..L PROVE Going(st[n])
    <3>1. L - n \in 0..L /\ L - (L - n) = n
      BY <1>1, SMTT(30)
    <3>2. L - n \in S
      BY <2>3, <3>1
    <3>3. QED
      BY <3>1, <3>2 DEF S
  <2>5. QED
    BY <2>4
<1>8. ASSUME NEW n \in 1..L
      PROVE  P(n).bytes \in Seq(Byte) /\ P(n).bytes # <<>>
             /\ Joined(st[n].bytes, st[n - 1].bytes, P(n).bytes)
  <2>1. st[n].bytes = st[n - 1].bytes \o P(n).bytes /\ P(n).bytes # <<>>
    BY <1>4, <1>6, <1>7
  <2>2. P(n).bytes \in Seq(Byte)
    BY <1>5 DEF PackedOK
  <2>3. st[n - 1].bytes \in Seq(Byte)
    BY <1>3, <1>4
  <2>4. QED
    BY <2>1, <2>2, <2>3, ConcatAt
<1>9. \A n \in 0..L : StartsWith(st[L].bytes, st[n].bytes)
  <2> DEFINE S == {n \in 0..L : StartsWith(st[L].bytes, st[L - n].bytes)}
  <2>0. L \in 0..L /\ st[L].bytes \in Seq(Byte)
    BY <1>1, <1>3, SMTT(30)
  <2>1. 0 \in S
    <3>1. L - 0 = L
      BY <1>1, SMTT(30)
    <3>2. Len(st[L].bytes) \in Nat
      BY <2>0, SMTT(30)
    <3>3. StartsWith(st[L].bytes, st[L].bytes)
      BY <3>2, SMTT(30) DEF StartsWith
    <3>4. QED
      BY <1>1, <3>1, <3>3, SMTT(30)
  <2>2. ASSUME NEW n \in 1..L, n - 1 \in S PROVE n \in S
    <3> DEFINE k == L - (n - 1)
    <3>1. k \in 1..L /\ k - 1 = L - n
      BY <1>1, SMTT(30)
    <3>2. StartsWith(st[L].bytes, st[k].bytes)
      BY <2>2
    <3> HIDE DEF k
    <3>3. st[k].bytes \in Seq(Byte) /\ st[k - 1].bytes \in Seq(Byte)
      BY <1>3, <1>4, <3>1
    <3>4. P(k).bytes \in Seq(Byte) /\ Joined(st[k].bytes, st[k - 1].bytes, P(k).bytes)
      BY <1>8, <3>1
    <3>5. StartsWith(st[L].bytes, st[k - 1].bytes)
      BY <2>0, <3>2, <3>3, <3>4, StartsWithJoined
    <3>6. QED
      BY <1>1, <3>1, <3>5, SMTT(30)
  <2> HIDE DEF S
  <2>3. \A n \in 0..L : n \in S
    BY <1>1, <2>1, <2>2, UpToInduction
  <2>4. ASSUME NEW n \in 0..L PROVE StartsWith(st[L].bytes, st[n].bytes)
    <3>1. L - n \in 0..L /\ L - (L - n) = n
      BY <1>1, SMTT(30)
    <3>2. L - n \in S
      BY <2>3, <3>1
    <3>3. QED
      BY <3>1, <3>2 DEF S
  <2>5. QED
    BY <2>4
<1>10. \A n \in 1..L : \E w : ScalarFound(args[n].type, Passed(vals, n), P(n).bytes, w)
  BY <1>5, <1>8
<1>11. QED
  BY <1>8, <1>9, <1>10 DEF AllPacked, P, L

(* What is behind the first n bytes.                                       *)
LEMMA FromAt ==
    ASSUME NEW b \in Seq(Byte), NEW n \in Nat, n <= Len(b)
    PROVE  /\ From(b, n) \in Seq(Byte) /\ Len(From(b, n)) = Len(b) - n
           /\ \A i \in 1..(Len(b) - n) : From(b, n)[i] = b[n + i]
<1>1. Len(b) \in Nat
  BY SMTT(30)
<1>2. QED
  BY <1>1, PieceOf, SMTT(30) DEF From, Piece

\* The values found by the reader, one for each argument.
Found(u, args, vals) ==
    /\ ~u.failed /\ u.vals = [i \in 1..Len(args) |-> u.vals[i]]
    /\ \A i \in 1..Len(args) :
          /\ Passed(vals, i).t # "nil"
          /\ Carries(args[i].type, Passed(vals, i)) => u.vals[i] = Passed(vals, i)

\* unpack() finds the values that were passed, if their formats can carry them.
SameValues(found, args, vals) ==
    LET passed == SubSeq(vals, 1, Len(args)) IN CarriesAll(args, passed) => found = passed

\* The message for a call is taken apart into what it was put together from.
ReadBack(msg, id, args, vals) ==
    LET h == Len(IdBytes(id))
        u == UnpackArgs(args, From(msg, h))
    IN  /\ h > 0 /\ ReadId(msg).len = h /\ ReadId(msg).id = id
        /\ ~u.failed /\ SameValues(u.vals, args, vals)

(* unpack() of what marshal() packed, behind the id.                       *)
LEMMA UnpackFinds ==
    ASSUME NEW st, NEW args, ScalarList(args), NEW vals, NEW room \in Int,
           NEW head \in Seq(Byte), PackingSteps(st, args, vals, room, head),
           AllPacked(st, args, vals, room)
    PROVE  Found(UnpackArgs(args, From(st[Len(args)].bytes, Len(head))), args, vals)
<1> DEFINE L == Len(args)
           P(n) == PackedArg(st, n, args, vals, room).bytes
           S(n) == st[n].bytes
           msg == S(L)
           buf == From(msg, Len(head))
           Good(n, w) == ScalarFound(args[n].type, Passed(vals, n), P(n), w)
           w == [n \in 1..L |-> CHOOSE x : Good(n, x)]
           W == {w[n] : n \in 1..L}
           vs(n) == [i \in 1..n |-> w[i]]
           g == [n \in 0..L |-> [failed |-> FALSE, len |-> Len(S(n)) - Len(head), vals |-> vs(n)]]
           first == [failed |-> FALSE, len |-> 0, vals |-> <<>>]
           Body(x, n) == MoreRead(x, Unpack(args[n], From(buf, x.len)))
           Eqn(h) == h = [n \in 0..L |-> IF n = 0 THEN first ELSE Body(h[n - 1], n)]
           q == Unpacking(args, buf)
<1>1. L \in Nat /\ \A n \in 1..L : args[n].type \in NamedTypes
  BY DEF ScalarList
<1>2. S(0) = head /\ \A n \in 0..L : S(n) \in Seq(Byte)
  <2>1. st[0] = Begun(head) /\ \A n \in 0..L : st[n] \in PackStates
    BY DEF PackingSteps
  <2>2. QED
    BY <2>1, SMTT(30) DEF Begun, PackStates
<1>3. \A n \in 1..L : /\ P(n) \in Seq(Byte) /\ P(n) # <<>> /\ Joined(S(n), S(n - 1), P(n))
                      /\ \E x : Good(n, x)
  BY DEF AllPacked
<1>4. \A n \in 0..L : StartsWith(msg, S(n))
  BY DEF AllPacked
<1>5. \A n \in 1..L : Good(n, w[n])
  <2> HIDE DEF Good
  <2>1. QED
    BY <1>3
<1>6. q = CHOOSE h : Eqn(h)
  BY DEF Unpacking
<1> HIDE DEF P, S, Good, w, q, L
<1>7. 0 \in 0..L /\ L \in 0..L /\ \A n \in 1..L : n - 1 \in 0..L /\ n \in 0..L
  BY <1>1, SMTT(30)
<1>8. /\ msg \in Seq(Byte) /\ Len(msg) \in Nat /\ Len(head) \in Nat /\ Len(head) <= Len(msg)
      /\ \A n \in 0..L : Len(S(n)) \in Nat /\ Len(S(n)) <= Len(msg)
  <2>1. msg \in Seq(Byte) /\ \A n \in 0..L : S(n) \in Seq(Byte) /\ Len(S(n)) <= Len(msg)
    BY <1>2, <1>4, <1>7 DEF StartsWith
  <2>2. \A n \in 0..L : Len(S(n)) \in Nat
    BY <2>1, SMTT(30)
  <2>3. QED
    BY <1>2, <1>7, <2>1, <2>2
<1> HIDE DEF msg
<1>9. /\ buf \in Seq(Byte) /\ Len(buf) = Len(msg) - Len(head)
      /\ \A i \in 1..(Len(msg) - Len(head)) : buf[i] = msg[Len(head) + i]
  BY <1>8, FromAt
<1> HIDE DEF buf
<1>10. \A n \in 0..L : Len(head) <= Len(S(n))
  <2> DEFINE T == {n \in 0..L : Len(head) <= Len(S(n))}
  <2>1. 0 \in T
    BY <1>2, <1>7, <1>8, SMTT(30)
  <2>2. ASSUME NEW n \in 1..L, n - 1 \in T PROVE n \in T
    <3>1. Len(S(n)) = Len(S(n - 1)) + Len(P(n)) /\ P(n) \in Seq(Byte)
      BY <1>3 DEF Joined
    <3>2. Len(P(n)) \in Nat
      BY <3>1, SMTT(30)
    <3>3. QED
      BY <1>7, <1>8, <2>2, <3>1, <3>2, SMTT(30)
  <2> HIDE DEF T
  <2>3. \A n \in 0..L : n \in T
    BY <1>1, <2>1, <2>2, UpToInduction
  <2>4. QED
    BY <2>3 DEF T
<1>11. \A n \in 0..L : vs(n) \in Seq(W) /\ Len(vs(n)) = n /\ \A i \in 1..n : vs(n)[i] = w[i]
  <2>1. SUFFICES ASSUME NEW n \in 0..L
                 PROVE  vs(n) \in Seq(W) /\ Len(vs(n)) = n /\ \A i \in 1..n : vs(n)[i] = w[i]
    OBVIOUS
  <2>2. n \in Nat /\ 1..n \subseteq 1..L
    BY <1>1, SMTT(30)
  <2>3. \A i \in 1..n : w[i] \in W
    BY <2>2
  <2> HIDE DEF W
  <2>4. QED
    BY <2>2, <2>3, SMTT(30)
<1> HIDE DEF vs
<1>12. ASSUME NEW n \in 1..L PROVE vs(n) = vs(n - 1) \o <<w[n]>>
  <2> DEFINE c == vs(n - 1) \o <<w[n]>>
  <2>1. w[n] \in W
    OBVIOUS
  <2> HIDE DEF W
  <2>2. <<w[n]>> \in Seq(W) /\ Len(<<w[n]>>) = 1 /\ <<w[n]>>[1] = w[n]
    BY <2>1, SMTT(30)
  <2>3. vs(n - 1) \in Seq(W) /\ Len(vs(n - 1)) = n - 1 /\ \A i \in 1..(n - 1) : vs(n - 1)[i] = w[i]
    BY <1>7, <1>11
  <2>4. c \in Seq(W) /\ Joined(c, vs(n - 1), <<w[n]>>)
    BY <2>2, <2>3, ConcatAt
  <2> HIDE DEF c
  <2>5. Len(c) = n /\ \A i \in 1..n : c[i] = w[i]
    BY <1>1, <2>2, <2>3, <2>4, SMTT(30) DEF Joined
  <2>6. vs(n) \in Seq(W) /\ Len(vs(n)) = n /\ \A i \in 1..n : vs(n)[i] = w[i]
    BY <1>7, <1>11
  <2>7. vs(n) = c
    BY <2>4, <2>5, <2>6, SameSeq, SMTT(30)
  <2>8. QED
    BY <2>7 DEF c
<1>13. ASSUME NEW n \in 1..L PROVE g[n] = Body(g[n - 1], n)
  <2> DEFINE x == g[n - 1]
             t == From(buf, x.len)
             o == Len(S(n - 1))
  <2>1. x = [failed |-> FALSE, len |-> o - Len(head), vals |-> vs(n - 1)]
    BY <1>7
  <2>2. x.len = o - Len(head) /\ ~x.failed /\ x.vals = vs(n - 1)
    BY <2>1, SMTT(30)
  <2>3. /\ o \in Nat /\ o <= Len(msg) /\ Len(head) <= o
        /\ Len(S(n)) \in Nat /\ Len(S(n)) <= Len(msg)
    BY <1>7, <1>8, <1>10
  <2>4. /\ P(n) \in Seq(Byte) /\ P(n) # <<>> /\ Joined(S(n), S(n - 1), P(n)) /\ Good(n, w[n])
        /\ StartsWith(msg, S(n))
    BY <1>3, <1>4, <1>5, <1>7
  <2>5. Len(P(n)) \in Nat /\ Len(P(n)) > 0
    BY <2>4, SMTT(30)
  <2> HIDE DEF x, o
  <2>6. /\ t \in Seq(Byte) /\ Len(t) = Len(msg) - o
        /\ \A i \in 1..(Len(msg) - o) : t[i] = msg[o + i]
    <3>1. x.len \in Nat /\ x.len <= Len(buf)
      BY <1>8, <1>9, <2>2, <2>3, SMTT(30)
    <3>2. /\ t \in Seq(Byte) /\ Len(t) = Len(buf) - x.len
          /\ \A i \in 1..(Len(buf) - x.len) : t[i] = buf[x.len + i]
      BY <1>9, <3>1, FromAt
    <3> HIDE DEF t
    <3>3. Len(buf) - x.len = Len(msg) - o
      BY <1>8, <1>9, <2>2, <2>3, SMTT(30)
    <3>4. ASSUME NEW i \in 1..(Len(msg) - o) PROVE t[i] = msg[o + i]
      <4>1. t[i] = buf[x.len + i]
        BY <3>2, <3>3
      <4>2. x.len + i \in 1..(Len(msg) - Len(head)) /\ Len(head) + (x.len + i) = o + i
        BY <1>8, <2>2, <2>3, SMTT(30)
      <4>3. QED
        BY <1>9, <4>1, <4>2
    <3>5. QED
      BY <3>2, <3>3, <3>4
  <2> HIDE DEF t
  <2>7. StartsWith(t, P(n))
    <3>1. Len(S(n)) = o + Len(P(n)) /\ \A i \in 1..Len(P(n)) : S(n)[o + i] = P(n)[i]
      BY <2>4 DEF Joined, o
    <3>2. Len(P(n)) <= Len(t)
      BY <1>8, <2>3, <2>5, <2>6, <3>1, SMTT(30)
    <3>3. ASSUME NEW i \in 1..Len(P(n)) PROVE t[i] = P(n)[i]
      <4>1. i \in 1..(Len(msg) - o) /\ o + i \in 1..Len(S(n))
        BY <1>8, <2>3, <2>5, <2>6, <3>1, <3>2, SMTT(30)
      <4>2. t[i] = msg[o + i] /\ msg[o + i] = S(n)[o + i]
        BY <2>4, <2>6, <4>1 DEF StartsWith
      <4>3. QED
        BY <3>1, <4>2
    <3>4. QED
      BY <3>2, <3>3 DEF StartsWith
  <2>8. UnpackScalar(args[n].type, t) = Read(Len(P(n)), w[n])
    BY <2>4, <2>6, <2>7 DEF Good, ScalarFound, ReadsAs
  <2>9. Unpack(args[n], t) = UnpackScalar(args[n].type, t)
    <3>1. args[n].type \in NamedTypes
      BY <1>1
    <3>2. args[n].type # "table" /\ args[n].type # "array"
      BY <3>1 DEF NamedTypes, ScalarTypes
    <3>3. QED
      BY <3>2 DEF Unpack
  <2>10. Body(x, n) = [failed |-> FALSE, len |-> x.len + Len(P(n)), vals |-> x.vals \o <<w[n]>>]
    <3> DEFINE r == Read(Len(P(n)), w[n])
    <3>1. Body(x, n) = MoreRead(x, r)
      BY <2>8, <2>9 DEF t
    <3>2. r.len = Len(P(n)) /\ r.vals = <<w[n]>>
      BY DEF Read
    <3> HIDE DEF Body, r
    <3>3. (r.len = 0) = FALSE
      BY <2>5, <3>2, SMTT(30)
    <3>4. MoreRead(x, r) = [failed |-> r.len = 0, len |-> x.len + r.len, vals |-> x.vals \o r.vals]
      BY <2>2 DEF MoreRead
    <3>5. QED
      BY <3>1, <3>2, <3>3, <3>4
  <2>11. g[n] = [failed |-> FALSE, len |-> Len(S(n)) - Len(head), vals |-> vs(n)]
    BY <1>7
  <2>12. x.len + Len(P(n)) = Len(S(n)) - Len(head)
    BY <1>8, <2>2, <2>3, <2>4, <2>5, SMTT(30) DEF Joined, o
  <2> HIDE DEF Body, g
  <2>13. Body(x, n) = g[n]
    BY <1>12, <2>2, <2>10, <2>11, <2>12
  <2>14. QED
    BY <2>13 DEF x
<1>14. g[0] = first
  <2>1. vs(0) = <<>>
    <3>1. vs(0) \in Seq(W) /\ Len(vs(0)) = 0
      BY <1>7, <1>11
    <3> HIDE DEF W
    <3>2. QED
      BY <3>1, SMTT(30)
  <2>2. Len(S(0)) - Len(head) = 0
    BY <1>2, <1>8, SMTT(30)
  <2>3. QED
    BY <1>7, <2>1, <2>2
<1>15. DOMAIN g = 0..L /\ g = [n \in 0..L |-> g[n]]
  OBVIOUS
<1>16. g[L].failed = FALSE /\ g[L].vals = vs(L)
  BY <1>7
<1> HIDE DEF Body, g, first
<1>17. Eqn(g)
  <2>1. \A n \in 0..L : g[n] = IF n = 0 THEN first ELSE Body(g[n - 1], n)
    BY <1>1, <1>13, <1>14, SMTT(30)
  <2>2. QED
    BY <1>15, <2>1
<1>18. Eqn(q)
  <2> HIDE DEF Eqn
  <2>1. QED
    BY <1>6, <1>17
<1>19. q[0] = first /\ \A n \in 1..L : q[n] = Body(q[n - 1], n)
  BY <1>1, <1>18, SMTT(30)
<1>20. \A n \in 0..L : q[n] = g[n]
  <2> DEFINE T == {n \in 0..L : q[n] = g[n]}
  <2>1. 0 \in T
    BY <1>1, <1>14, <1>19, SMTT(30)
  <2>2. \A n \in 1..L : n - 1 \in T => n \in T
    BY <1>1, <1>13, <1>19, SMTT(30)
  <2>3. \A n \in 0..L : n \in T
    <3> HIDE DEF T
    <3>1. QED
      BY <1>1, <2>1, <2>2, UpToInduction
  <2>4. QED
    BY <2>3
<1>21. UnpackArgs(args, buf) = q[L] /\ q[L] = g[L]
  BY <1>7, <1>20 DEF UnpackArgs, q, L
<1> DEFINE u == UnpackArgs(args, buf)
<1>22. ~u.failed /\ u.vals = vs(L)
  BY <1>16, <1>21
<1> HIDE DEF u
<1>23. vs(L) = [i \in 1..L |-> vs(L)[i]] /\ \A i \in 1..L : vs(L)[i] = w[i]
  BY <1>7, <1>11 DEF vs
<1>24. \A i \in 1..L : /\ Passed(vals, i).t # "nil"
                       /\ Carries(args[i].type, Passed(vals, i)) => w[i] = Passed(vals, i)
  BY <1>5 DEF Good, ScalarFound
<1>25. Found(u, args, vals)
  BY <1>22, <1>23, <1>24 DEF Found, L
<1>26. QED
  BY <1>25 DEF u, buf, msg, S, L
(* What net_protocol::marshal() packs, unpack_data() and                   *)
(* net_protocol::unpack() find again: the id, and every value that the     *)
(* format of its place can carry.  For every list of scalar formats, every *)
(* list of Lua values and every size of the buffer; a call that does not   *)
(* fit, or names no value for a format, has no message.                    *)
THEOREM MessageFound ==
    ASSUME NEW id \in Nat, id >= 1, id < Base * Base, NEW args, ScalarList(args),
           NEW V, \A v \in V : IsValue(v), NEW vals \in Seq(V), NEW room \in Int,
           NEW msg, msg = Marshal(id, args, vals, room).bytes, msg # <<>>
    PROVE  ReadBack(msg, id, args, vals)
<1> DEFINE L == Len(args)
           head == IdBytes(id)
           h == Len(head)
           st == Packing(id, args, vals, room)
           u == UnpackArgs(args, From(msg, h))
<1>1. /\ head \in Seq(Byte) /\ h \in 1..3
      /\ \A t \in Seq(Byte) : StartsWith(t, head) => ReadId(t) = [len |-> h, id |-> id]
  BY IdRead
<1>2. L \in Nat
  BY DEF ScalarList
<1>3. Len(vals) \in Nat /\ \A i \in 1..Len(vals) : vals[i] \in V /\ IsValue(vals[i])
  BY ElementOfSeq, SMTT(30)
<1>4. ValuesFor(vals, L)
  <2>1. SUFFICES ASSUME NEW i \in 1..L PROVE IsValue(Passed(vals, i))
    BY DEF ValuesFor
  <2>2. CASE i <= Len(vals)
    BY <1>2, <1>3, <2>2, SMTT(30) DEF Passed
  <2>3. CASE ~(i <= Len(vals))
    BY <2>3 DEF Passed, Nil, IsValue
  <2>4. QED
    BY <2>2, <2>3
<1>5. PackingSteps(st, args, vals, room, head)
  BY <1>1, <1>4, PackingEquations
<1> HIDE DEF st, head
<1>6. st[L] \in PackStates /\ st[0] = Begun(head)
  BY <1>2, <1>5, SMTT(30) DEF PackingSteps
<1>7. Going(st[L]) /\ msg = st[L].bytes
  <2>1. msg = Outcome(st[L]).bytes
    BY DEF Marshal, st
  <2>2. QED
    BY <2>1 DEF Outcome, Raised, Failed, Packed, Going
<1>8. AllPacked(st, args, vals, room)
  BY <1>4, <1>5, <1>7, MarshalPacks
<1>9. Found(u, args, vals)
  BY <1>1, <1>5, <1>7, <1>8, UnpackFinds
<1>10. ReadId(msg) = [len |-> h, id |-> id]
  <2>1. msg \in Seq(Byte)
    BY <1>6, <1>7 DEF PackStates
  <2>2. st[0].bytes = head
    BY <1>6, SMTT(30) DEF Begun
  <2>3. StartsWith(st[L].bytes, st[0].bytes)
    BY <1>2, <1>8, SMTT(30) DEF AllPacked
  <2>4. QED
    BY <1>1, <1>7, <2>1, <2>2, <2>3
<1> HIDE DEF u
<1>11. SameValues(u.vals, args, vals)
  <2> DEFINE passed == SubSeq(vals, 1, L)
  <2>1. SUFFICES ASSUME CarriesAll(args, passed) PROVE u.vals = passed
    BY DEF SameValues
  <2>2. \A i \in 1..L : i <= Len(vals) /\ Passed(vals, i) = vals[i]
    <3>1. SUFFICES ASSUME NEW i \in 1..L PROVE i <= Len(vals) /\ Passed(vals, i) = vals[i]
      OBVIOUS
    <3>2. Passed(vals, i).t # "nil"
      BY <1>9 DEF Found
    <3>3. Nil.t = "nil"
      BY DEF Nil
    <3>4. i <= Len(vals)
      BY <3>2, <3>3 DEF Passed
    <3>5. QED
      BY <3>4 DEF Passed
  <2>3. L \in 0..Len(vals)
    <3>1. CASE L = 0
      BY <1>3, <3>1, SMTT(30)
    <3>2. CASE L # 0
      BY <1>2, <1>3, <2>2, <3>2, SMTT(30)
    <3>3. QED
      BY <3>1, <3>2
  <2>4. /\ passed \in Seq(V) /\ Len(passed) = L
        /\ Joined(vals, passed, SubSeq(vals, L + 1, Len(vals)))
    BY <2>3, SplitAt
  <2> HIDE DEF passed
  <2>5. \A i \in 1..L : passed[i] = Passed(vals, i)
    BY <2>2, <2>4 DEF Joined
  <2>6. ASSUME NEW i \in 1..L PROVE u.vals[i] = passed[i]
    <3>1. CarriesArg(args[i], passed[i])
      BY <2>1 DEF CarriesAll
    <3>2. args[i].type \in NamedTypes
      BY DEF ScalarList
    <3>3. args[i].type # "array"
      BY <3>2 DEF NamedTypes, ScalarTypes
    <3>4. Carries(args[i].type, Passed(vals, i))
      BY <2>5, <3>1, <3>3 DEF CarriesArg
    <3>5. QED
      BY <1>9, <2>5, <3>4 DEF Found
  <2>7. u.vals = [i \in 1..L |-> u.vals[i]]
    BY <1>9 DEF Found
  <2>8. passed = [i \in 1..L |-> passed[i]]
    BY <2>4, SMTT(30)
  <2>9. QED
    BY <2>6, <2>7, <2>8
<1>12. h > 0 /\ ~u.failed
  <2>1. h \in 1..3
    BY <1>1
  <2>2. \A k \in 1..3 : k > 0
    BY SMTT(30)
  <2>3. QED
    BY <1>9, <2>1, <2>2 DEF Found
<1>13. ReadId(msg).len = h /\ ReadId(msg).id = id
  <2> DEFINE r == ReadId(msg)
  <2>1. r = [len |-> h, id |-> id]
    BY <1>10
  <2> HIDE DEF r, h
  <2>2. r.len = h /\ r.id = id
    BY <2>1
  <2>3. QED
    BY <2>2 DEF r
<1>14. QED
  BY <1>11, <1>12, <1>13 DEF ReadBack, u, head
=============================================================================
