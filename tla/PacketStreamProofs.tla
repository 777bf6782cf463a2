------------------------- MODULE PacketStreamProofs -------------------------
(***************************************************************************)
(* One direction of an encrypted connection, for every byte size, buffer   *)
(* capacity, dictionary, seed and set of messages, and every way of        *)
(* cutting the stream.                                                     *)
(***************************************************************************)
EXTENDS PacketStream, MyBufOpsProofs

\* Leaves are for Zenon; the ones with arithmetic or functions cite SMT.
USE WordAssumption, ZenonT(30)

-----------------------------------------------------------------------------
(* The loop of SetSeed that fills dic goes through ints only.              *)
LEMMA SeedValues ==
    ASSUME NEW seed \in Int
    PROVE  \A i \in 0..(DicSize - 1) : SeedsFrom(seed)[i] \in Int
<1> DEFINE L == DicSize - 1
           Then(x) == NextSeed(x)
           step == [n \in 1..L |-> [x \in Int |-> Then(x)]]
           Eqn(g) == g = [n \in 0..L |-> IF n = 0 THEN seed ELSE Then(g[n - 1])]
           f == SeedsFrom(seed)
<1>1. f = CHOOSE h : Eqn(h)
  BY DEF SeedsFrom
<1>2. \A x \in Int : Then(x) \in Int
  <2>1. SUFFICES ASSUME NEW x \in Int PROVE Then(x) \in Int
    OBVIOUS
  <2>2. x * 8 + (x \div 8) + x \in Int
    BY SMTT(30)
  <2>3. QED
    BY <2>2, WrappedUnsigned DEF NextSeed
<1>3. L \in Nat
  BY CipherAssumption, SMTT(30)
<1> HIDE DEF L, Then, f
<1>4. step \in [1..L -> [Int -> Int]]
  BY <1>2
<1>5. PICK g \in [0..L -> Int] : Iterates(g, L, seed, step)
  <2> HIDE DEF step
  <2>1. QED
    BY <1>3, <1>4, PrimitiveRecursion
<1>6. ASSUME NEW n \in 1..L PROVE g[n] = Then(g[n - 1])
  <2>1. g[n - 1] \in Int
    BY <1>3, SMTT(30)
  <2>2. QED
    BY <1>5, <2>1 DEF Iterates
<1>7. Eqn(g)
  <2>1. \A n \in 0..L : g[n] = IF n = 0 THEN seed ELSE Then(g[n - 1])
    BY <1>3, <1>5, <1>6, SMTT(30) DEF Iterates
  <2>2. QED
    BY <2>1
<1>8. Eqn(f)
  <2> HIDE DEF Eqn
  <2>1. QED
    BY <1>1, <1>7
<1>0. f[0] = seed /\ \A n \in 1..L : f[n] = Then(f[n - 1])
  BY <1>8, <1>3, SMTT(30)
<1>9. \A n \in 0..L : f[n] \in Int
  <2> DEFINE S == {n \in 0..L : f[n] \in Int}
  <2>1. 0 \in S
    BY <1>3, <1>0, SMTT(30)
  <2>2. ASSUME NEW n \in 1..L, n - 1 \in S PROVE n \in S
    <3>1. f[n - 1] \in Int
      BY <2>2
    <3>2. f[n] \in Int
      BY <1>0, <1>2, <3>1
    <3>3. QED
      BY <1>3, <3>2, SMTT(30)
  <2>3. \A n \in 0..L : n \in S
    <3> HIDE DEF S
    <3>1. QED
      BY <2>1, <2>2, <1>3, UpToInduction
  <2>4. QED
    BY <2>3
<1>10. QED
  BY <1>9 DEF L, f

-----------------------------------------------------------------------------
(* SimpleXOR.                                                              *)

(* SetSeed leaves a cipher that is seeded and starts at place 0 of dic.    *)
LEMMA SetSeedIsCipher ==
    ASSUME NEW seed \in Int
    PROVE  SetSeed(seed) \in Ciphers /\ SetSeed(seed).seeded /\ SetSeed(seed).dic_i = 0
<1>1. \A i \in 0..(DicSize - 1) : SeedsFrom(seed)[i] % Base \in Byte
  <2>1. SUFFICES ASSUME NEW i \in 0..(DicSize - 1) PROVE SeedsFrom(seed)[i] % Base \in Byte
    OBVIOUS
  <2>2. SeedsFrom(seed)[i] \in Int
    BY SeedValues
  <2>3. QED
    BY <2>2, SMTT(30) DEF Byte
<1>2. 0 \in 0..(DicSize - 1)
  BY CipherAssumption, SMTT(30)
<1>3. QED
  BY <1>1, <1>2 DEF SetSeed, Ciphers

\* The cipher after n bytes.
LEMMA AdvancedIsCipher ==
    ASSUME NEW c \in Ciphers, NEW n \in Nat
    PROVE  /\ Advanced(c, n) \in Ciphers /\ Advanced(c, n).seeded = c.seeded
           /\ Advanced(c, n).dic = c.dic /\ Advanced(c, n).dic_i = (c.dic_i + n) % DicSize
<1>1. (c.dic_i + n) % DicSize \in 0..(DicSize - 1)
  <2>1. DicSize \in Nat \ {0} /\ c.dic_i \in Nat
    BY CipherAssumption, SMTT(30) DEF Ciphers
  <2>2. c.dic_i + n \in Int
    BY <2>1, SMTT(30)
  <2>3. QED
    BY <2>1, <2>2, DivMod
<1>2. QED
  BY <1>1 DEF Advanced, Ciphers

(* xmake maps bytes to bytes, one by one, each combined with the next key  *)
(* byte of dic.                                                            *)
LEMMA XmadeBytes ==
    ASSUME NEW c \in Ciphers, NEW s \in Seq(Byte)
    PROVE  /\ Xmade(c, s) \in Seq(Byte) /\ Len(Xmade(c, s)) = Len(s)
           /\ \A i \in 1..Len(s) : Xmade(c, s)[i] = Xor(c.dic[(c.dic_i + i) % DicSize], s[i])
<1>1. ASSUME NEW i \in 1..Len(s) PROVE Xor(c.dic[(c.dic_i + i) % DicSize], s[i]) \in Byte
  <2>1. DicSize \in Nat \ {0} /\ c.dic_i \in Nat
    BY CipherAssumption, SMTT(30) DEF Ciphers
  <2>2. c.dic_i + i \in Int
    BY <2>1, SMTT(30)
  <2>3. (c.dic_i + i) % DicSize \in 0..(DicSize - 1)
    BY <2>1, <2>2, DivMod
  <2>4. \A k \in 0..(DicSize - 1) : c.dic[k] \in Byte
    BY DEF Ciphers
  <2>6. s[i] \in Byte
    BY ElementOfSeq
  <2>5. QED
    BY <2>3, <2>4, <2>6, CipherAssumption
<1>2. Xmade(c, s) \in [1..Len(s) -> Byte]
  BY <1>1 DEF Xmade
<1>3. Len(s) \in Nat
  BY SMTT(30)
<1>4. QED
  BY <1>2, <1>3, FunctionIsSeq, SMTT(30) DEF Xmade

-----------------------------------------------------------------------------
(* The inductive invariant.                                                *)

(* The plain stream is the bags of the messages sent, one behind the other *)
(* (EncryptPacket).                                                        *)
BagsOK(msgs, bytes, bounds) == msgs \in Seq(Messages) /\ FramesOK(msgs, bytes, bounds)

\* The first bytes of the stream s are a seed, and the dictionary is the one it gives.
SeedAhead(e, s) ==
    \E seed \in Seeds : /\ e.dic = SetSeed(seed).dic
                        /\ \A i \in 1..4 : s[i] = BytesOfInt(seed)[i]

\* Behind h bytes, s is the rest of the encrypted stream when n bytes have been taken.
RestAt(e, s, h, bytes, n) ==
    /\ Len(s) = h + Len(bytes) - n
    /\ \A i \in 1..(Len(bytes) - n) : s[h + i] = Xor(e.dic[(n + i) % DicSize], bytes[n + i])

(* What is under way is what is left of the plain stream, each byte        *)
(* combined with the key byte of its place, and the seed in front as long  *)
(* as the receiver has not taken it (Encrypt, Decrypt, xmake).             *)
WireOK(e, d, s, bytes, n) ==
    /\ n \in 0..Len(bytes)
    /\ ~e.seeded => ~d.seeded /\ s = <<>> /\ bytes = <<>>
    /\ e.seeded => e.dic_i = Len(bytes) % DicSize
    /\ ~d.seeded => n = 0 /\ (e.seeded => SeedAhead(e, s) /\ RestAt(e, s, 4, bytes, 0))
    /\ d.seeded => d.dic = e.dic /\ d.dic_i = n % DicSize /\ RestAt(e, s, 0, bytes, n)

\* What of the plain stream the receiver has used up.
Used(bounds, bags, flag) == End(bounds, Len(bags)) + (IF flag THEN 4 ELSE 0)

(* The receiver has handed on the first messages; it knows the length of   *)
(* the next one once it has taken that; the buffer holds what it has       *)
(* decrypted and not yet used (BagProcess, InsertData, GetBufData).        *)
TakenOK(msgs, bytes, bounds, bags, flag, len, cells, n) ==
    /\ Len(bags) <= Len(msgs) /\ \A k \in 1..Len(bags) : bags[k] = msgs[k]
    /\ flag => Len(bags) < Len(msgs) /\ len = Len(msgs[Len(bags) + 1])
    /\ Len(cells) = n - Used(bounds, bags, flag)
    /\ \A i \in 1..Len(cells) : cells[i] = bytes[Used(bounds, bags, flag) + i]

BagsTaken == TakenOK(sent, plain, ends, got, bagFlag, bagLen, Contents(buf), rcvd)

\* The loop of BagProcess ends when a bag, or the length of one, is missing.
LessThanABag ==
    pc = "idle" => GetBufLen(buf) < IF bagFlag THEN bagLen ELSE 4

StreamInv ==
    /\ TypeOK /\ BufInv(buf) /\ BagsOK(sent, plain, ends)
    /\ ~dropped => WireOK(enc, dec, wire, plain, rcvd)
    /\ Healthy => BagsTaken /\ LessThanABag
    /\ BufferStaysSmall

-----------------------------------------------------------------------------
(* Messages and bags.                                                      *)

(* What EncryptPacket puts on the stream for a message: its length in four *)
(* bytes, then the message.                                                *)
LEMMA BagBytes ==
    ASSUME NEW msg \in Messages
    PROVE  /\ msg \in Sendable /\ Bag(msg) = Frame(msg)
           /\ msg \in Seq(Byte) /\ Len(msg) \in 0..MaxMsgLen /\ Len(msg) \in 0..(IntValues - 1)
           /\ Bag(msg) \in Seq(Byte) /\ Len(Bag(msg)) = 4 + Len(msg)
           /\ \A i \in 1..4 : Bag(msg)[i] = BytesOfInt(Len(msg))[i]
           /\ \A i \in 1..Len(msg) : Bag(msg)[4 + i] = msg[i]
<1>1. PICK n \in 0..MaxMsgLen : msg \in [1..n -> Byte]
  BY DEF Messages
<1>2. n \in Nat /\ n \in 0..(IntValues \div 2 - 1)
  BY StreamAssumption, IntValuesNat, SMTT(30)
<1>3. msg \in Seq(Byte) /\ Len(msg) = n
  BY <1>1, <1>2, FunctionIsSeq
<1>4. msg \in Sendable
  BY <1>2, <1>3 DEF Sendable
<1>5. Bag(msg) = Frame(msg)
  BY DEF Bag, Frame
<1>6. QED
  BY <1>3, <1>4, <1>5, FrameBytes

(* Another message adds its bag.                                           *)
LEMMA BagsExtended ==
    ASSUME NEW msgs, NEW bytes, NEW bounds, BagsOK(msgs, bytes, bounds), NEW msg \in Messages
    PROVE  BagsOK(Append(msgs, msg), bytes \o Bag(msg),
                  Append(bounds, Len(bytes \o Bag(msg))))
<1>1. Append(msgs, msg) \in Seq(Messages)
  BY SMTT(30) DEF BagsOK
<1>2. FramesOK(msgs, bytes, bounds) /\ msg \in Sendable /\ Bag(msg) = Frame(msg)
  BY BagBytes DEF BagsOK
<1>3. QED
  BY <1>1, <1>2, FramesExtended DEF BagsOK

-----------------------------------------------------------------------------
(* The encrypted stream.                                                   *)

(* dic_i wraps: only its value modulo the size of dic matters (xmake).     *)
LEMMA ModAdd ==
    ASSUME NEW a \in Nat, NEW i \in Nat
    PROVE  ((a % DicSize) + i) % DicSize = (a + i) % DicSize
<1>0. DicSize \in Nat \ {0}
  BY CipherAssumption
<1> DEFINE r == a % DicSize
           q == a \div DicSize
           u == (r + i) % DicSize
           v == (r + i) \div DicSize
<1>1. a = r + DicSize * q /\ r \in 0..(DicSize - 1) /\ q \in Int
  BY <1>0, DivMod, SMTT(30)
<1>2. r + i \in Int
  BY <1>0, <1>1, SMTT(30)
<1>3. r + i = u + DicSize * v /\ u \in 0..(DicSize - 1) /\ v \in Int
  <2> HIDE DEF r
  <2>1. QED
    BY <1>0, <1>2, DivMod
<1> HIDE DEF r, q, u, v
<1>4. a + i = u + DicSize * (q + v) /\ q + v \in Int /\ a + i \in Int
  BY <1>0, <1>1, <1>3, SMTT(30)
<1>5. (a + i) % DicSize = u
  BY <1>0, <1>3, <1>4, ModUnique
<1>6. QED
  BY <1>5 DEF u, r

\* x is t, combined with the key bytes from place n + 1 on.
Keyed(x, e, t, n) ==
    Len(x) = Len(t) /\ \A i \in 1..Len(t) : x[i] = Xor(e.dic[(n + i) % DicSize], t[i])

(* Bytes encrypted with the key bytes that come next continue the stream.  *)
LEMMA RestExtended ==
    ASSUME NEW e, NEW e2, e2.dic = e.dic,
           NEW s \in Seq(Byte), NEW x \in Seq(Byte), NEW s2, Joined(s2, s, x),
           NEW bytes \in Seq(Byte), NEW t \in Seq(Byte), NEW bytes2, Joined(bytes2, bytes, t),
           Keyed(x, e, t, Len(bytes)), NEW h \in Nat, NEW n \in 0..Len(bytes),
           RestAt(e, s, h, bytes, n)
    PROVE  RestAt(e2, s2, h, bytes2, n)
<1> DEFINE B == Len(bytes)
           T == Len(t)
<1>1. /\ B \in Nat /\ T \in Nat /\ n \in Nat /\ Len(bytes2) = B + T
      /\ Len(s) = h + B - n /\ Len(s2) = Len(s) + T /\ Len(x) = T
  BY SMTT(30) DEF Joined, RestAt, Keyed
<1>2. ASSUME NEW i \in 1..((B + T) - n)
      PROVE  s2[h + i] = Xor(e.dic[(n + i) % DicSize], bytes2[n + i])
  <2>1. CASE i <= B - n
    <3>1. h + i \in 1..Len(s) /\ n + i \in 1..B /\ i \in 1..(B - n)
      BY <1>1, <2>1, SMTT(30)
    <3>2. s2[h + i] = s[h + i] /\ bytes2[n + i] = bytes[n + i]
      BY <3>1 DEF Joined, B
    <3>3. s[h + i] = Xor(e.dic[(n + i) % DicSize], bytes[n + i])
      BY <3>1 DEF RestAt, B
    <3>4. QED
      BY <3>2, <3>3
  <2>2. CASE i > B - n
    <3> DEFINE j == i - (B - n)
    <3>1. j \in 1..T /\ h + i = Len(s) + j /\ n + i = B + j
      BY <1>1, <2>2, SMTT(30)
    <3> HIDE DEF j, T
    <3>2. s2[Len(s) + j] = x[j] /\ bytes2[B + j] = t[j]
      BY <1>1, <3>1 DEF Joined, B, T
    <3>3. x[j] = Xor(e.dic[(B + j) % DicSize], t[j])
      BY <3>1 DEF Keyed, B, T
    <3>4. QED
      BY <3>1, <3>2, <3>3
  <2>3. QED
    BY <1>1, <2>1, <2>2, SMTT(30)
<1> HIDE DEF B, T
<1>3. Len(s2) = h + (B + T) - n
  BY <1>1, SMTT(30)
<1>4. QED
  BY <1>1, <1>2, <1>3 DEF RestAt

\* Behind h bytes, u holds m bytes of the plain stream, encrypted.
KeyedAt(u, h, e, bytes, n, m) ==
    \A i \in 1..m : u[h + i] = Xor(e.dic[(n + i) % DicSize], bytes[n + i])

(* Bytes taken from the stream leave the rest of it.                       *)
LEMMA RestTaken ==
    ASSUME NEW e, NEW s, NEW u \in Seq(Byte), NEW v \in Seq(Byte), Joined(s, u, v),
           NEW bytes \in Seq(Byte), NEW h \in Nat, NEW n \in 0..Len(bytes),
           NEW m \in Nat, Len(u) = h + m, RestAt(e, s, h, bytes, n)
    PROVE  /\ RestAt(e, v, 0, bytes, n + m) /\ n + m \in 0..Len(bytes)
           /\ KeyedAt(u, h, e, bytes, n, m)
<1> DEFINE B == Len(bytes)
           V == Len(v)
<1>1. /\ B \in Nat /\ V \in Nat /\ n \in Nat /\ Len(s) = h + B - n /\ Len(s) = h + m + V
      /\ V = B - (n + m) /\ n + m \in 0..B
  <2>1. B \in Nat /\ V \in Nat /\ n \in Nat
    BY SMTT(30)
  <2>2. Len(s) = h + B - n /\ Len(s) = (h + m) + V
    BY DEF Joined, RestAt
  <2> HIDE DEF B, V
  <2>3. QED
    BY <2>1, <2>2, SMTT(30)
<1> HIDE DEF B, V
<1>2. ASSUME NEW i \in 1..m
      PROVE  u[h + i] = Xor(e.dic[(n + i) % DicSize], bytes[n + i])
  <2>1. h + i \in 1..(h + m) /\ i \in 1..(B - n)
    BY <1>1, SMTT(30)
  <2>2. s[h + i] = u[h + i]
    BY <2>1 DEF Joined
  <2>3. s[h + i] = Xor(e.dic[(n + i) % DicSize], bytes[n + i])
    BY <2>1 DEF RestAt, B
  <2>4. QED
    BY <2>2, <2>3
<1>3. ASSUME NEW i \in 1..(B - (n + m))
      PROVE  v[0 + i] = Xor(e.dic[((n + m) + i) % DicSize], bytes[(n + m) + i])
  <2> DEFINE j == m + i
  <2>1. j \in 1..(B - n) /\ h + j = Len(u) + i /\ i \in 1..V /\ n + j = (n + m) + i /\ 0 + i = i
    BY <1>1, SMTT(30)
  <2>2. s[Len(u) + i] = v[i]
    BY <2>1 DEF Joined, V
  <2> HIDE DEF j
  <2>3. s[h + j] = Xor(e.dic[(n + j) % DicSize], bytes[n + j])
    BY <2>1 DEF RestAt, B
  <2>4. QED
    BY <2>1, <2>2, <2>3
<1>4. Len(v) = 0 + B - (n + m)
  BY <1>1, SMTT(30) DEF V
<1>5. QED
  BY <1>1, <1>2, <1>3, <1>4 DEF RestAt, KeyedAt, B

\* What Encrypt returns.
LEMMA Encrypted ==
    ASSUME NEW e \in Ciphers, NEW t \in Seq(Byte), NEW random,
           ~e.seeded => random \in Seeds
    PROVE  /\ Encrypt(e, t, random).cipher \in Ciphers
           /\ Encrypt(e, t, random).cipher.seeded
           /\ Encrypt(e, t, random).out \in Seq(Byte)
           /\ e.seeded => /\ Encrypt(e, t, random).cipher = Advanced(e, Len(t))
                          /\ Encrypt(e, t, random).out = Xmade(e, t)
           /\ ~e.seeded =>
                 /\ Encrypt(e, t, random).cipher = Advanced(SetSeed(random), Len(t))
                 /\ Encrypt(e, t, random).out = BytesOfInt(random) \o Xmade(SetSeed(random), t)
<1> DEFINE r == Encrypt(e, t, random)
           x == Xmade(e, t)
           k == SetSeed(random)
           y == Xmade(k, t)
           b == BytesOfInt(random)
<1>1. Len(t) \in Nat
  BY SMTT(30)
<1>2. CASE e.seeded
  <2>1. r.cipher = Advanced(e, Len(t)) /\ r.out = <<>> \o x
    BY <1>2 DEF Encrypt
  <2>2. x \in Seq(Byte)
    BY XmadeBytes
  <2> HIDE DEF x
  <2>3. <<>> \o x = x
    BY <2>2, SMTT(30)
  <2>4. r.cipher \in Ciphers /\ r.cipher.seeded
    BY <1>1, <1>2, <2>1, AdvancedIsCipher
  <2> HIDE DEF r
  <2>5. QED
    BY <1>2, <2>1, <2>2, <2>3, <2>4 DEF r, x
<1>3. CASE ~e.seeded
  <2>1. r.cipher = Advanced(k, Len(t)) /\ r.out = b \o y
    BY <1>3 DEF Encrypt
  <2>0. random \in Seeds
    BY <1>3
  <2>2. random \in 0..(IntValues - 1) /\ random \in Int
    BY <2>0, StreamAssumption, IntValuesNat, SMTT(30)
  <2>3. k \in Ciphers /\ k.seeded
    BY <2>2, SetSeedIsCipher
  <2> HIDE DEF k
  <2>4. y \in Seq(Byte)
    BY <2>3, XmadeBytes
  <2>5. b \in Seq(Byte)
    BY <2>2, BytesAreInt
  <2> HIDE DEF y, b
  <2>6. b \o y \in Seq(Byte)
    BY <2>4, <2>5, SMTT(30)
  <2>7. r.cipher \in Ciphers /\ r.cipher.seeded
    <3>1. Advanced(k, Len(t)) \in Ciphers /\ Advanced(k, Len(t)).seeded = k.seeded
      BY <1>1, <2>3, AdvancedIsCipher
    <3>2. QED
      BY <2>1, <2>3, <3>1
  <2> HIDE DEF r
  <2>8. QED
    BY <1>3, <2>1, <2>6, <2>7 DEF r, y, b, k
<1>4. QED
  BY <1>2, <1>3

(* Encrypt continues the stream where the last call ended, whatever the    *)
(* receiver has taken of it by then.                                       *)
LEMMA WireExtended ==
    ASSUME NEW e \in Ciphers, NEW d, NEW s \in Seq(Byte), NEW bytes \in Seq(Byte), NEW n,
           WireOK(e, d, s, bytes, n), NEW t \in Seq(Byte), NEW random,
           ~e.seeded => random \in Seeds
    PROVE  WireOK(Encrypt(e, t, random).cipher, d, s \o Encrypt(e, t, random).out, bytes \o t, n)
<1> DEFINE c == Encrypt(e, t, random).cipher
           o == Encrypt(e, t, random).out
           s2 == s \o o
           bytes2 == bytes \o t
           B == Len(bytes)
           T == Len(t)
<1>1. /\ c \in Ciphers /\ c.seeded /\ o \in Seq(Byte)
      /\ e.seeded => c = Advanced(e, T) /\ o = Xmade(e, t)
      /\ ~e.seeded => c = Advanced(SetSeed(random), T)
                      /\ o = BytesOfInt(random) \o Xmade(SetSeed(random), t)
  BY Encrypted
<1> HIDE DEF c, o
<1>2. s2 \in Seq(Byte) /\ Joined(s2, s, o) /\ bytes2 \in Seq(Byte) /\ Joined(bytes2, bytes, t)
  BY <1>1, ConcatAt
<1>3. /\ B \in Nat /\ T \in Nat /\ n \in 0..B /\ Len(bytes2) = B + T /\ n \in 0..Len(bytes2)
      /\ n \in Nat
  <2>1. B \in Nat /\ T \in Nat /\ n \in 0..B /\ Len(bytes2) = B + T
    BY <1>2, SMTT(30) DEF WireOK, Joined
  <2> HIDE DEF B, T, bytes2
  <2>2. QED
    BY <2>1, SMTT(30)
<1> HIDE DEF s2, bytes2
<1>4. CASE e.seeded
  <2>1. c.dic = e.dic /\ c.dic_i = (B + T) % DicSize
    <3>0. c = Advanced(e, T)
      BY <1>1, <1>4
    <3>1. c.dic = e.dic /\ c.dic_i = (e.dic_i + T) % DicSize
      BY <1>3, <3>0, AdvancedIsCipher
    <3>2. e.dic_i = B % DicSize
      BY <1>4 DEF WireOK
    <3>3. ((B % DicSize) + T) % DicSize = (B + T) % DicSize
      BY <1>3, ModAdd
    <3>4. QED
      BY <3>1, <3>2, <3>3
  <2>2. Keyed(o, e, t, B)
    <3>1. Len(o) = T /\ \A i \in 1..T : o[i] = Xor(e.dic[(e.dic_i + i) % DicSize], t[i])
      BY <1>1, <1>4, XmadeBytes, SMTT(30)
    <3>2. e.dic_i = B % DicSize
      BY <1>4 DEF WireOK
    <3>3. ASSUME NEW i \in 1..T PROVE (e.dic_i + i) % DicSize = (B + i) % DicSize
      BY <1>3, <3>2, ModAdd, SMTT(30)
    <3>4. QED
      BY <3>1, <3>3 DEF Keyed
  <2>3. ASSUME NEW h \in Nat, NEW m \in 0..B, RestAt(e, s, h, bytes, m)
        PROVE  RestAt(c, s2, h, bytes2, m)
    BY <1>1, <1>2, <2>1, <2>2, <2>3, RestExtended
  <2>4. ASSUME ~d.seeded
        PROVE  n = 0 /\ SeedAhead(c, s2) /\ RestAt(c, s2, 4, bytes2, 0)
    <3>1. n = 0 /\ SeedAhead(e, s) /\ RestAt(e, s, 4, bytes, 0)
      BY <1>4, <2>4 DEF WireOK
    <3>2. RestAt(c, s2, 4, bytes2, 0)
      BY <1>3, <2>3, <3>1
    <3>3. PICK seed \in Seeds : e.dic = SetSeed(seed).dic /\ \A i \in 1..4 : s[i] = BytesOfInt(seed)[i]
      BY <3>1 DEF SeedAhead
    <3>4. Len(s) = 4 + B - 0
      BY <3>1 DEF RestAt
    <3>5. \A i \in 1..4 : s2[i] = s[i]
      BY <1>2, <1>3, <3>4, SMTT(30) DEF Joined
    <3>6. SeedAhead(c, s2)
      BY <2>1, <3>3, <3>5 DEF SeedAhead
    <3>7. QED
      BY <3>1, <3>2, <3>6
  <2>5. ASSUME d.seeded
        PROVE  d.dic = c.dic /\ d.dic_i = n % DicSize /\ RestAt(c, s2, 0, bytes2, n)
    <3>1. d.dic = e.dic /\ d.dic_i = n % DicSize /\ RestAt(e, s, 0, bytes, n)
      BY <2>5 DEF WireOK
    <3>2. QED
      BY <1>3, <2>1, <2>3, <3>1
  <2>6. WireOK(c, d, s2, bytes2, n)
    BY <1>1, <1>3, <2>1, <2>4, <2>5 DEF WireOK
  <2>7. QED
    BY <2>6 DEF c, o, s2, bytes2
<1>5. CASE ~e.seeded
  <2> DEFINE k == SetSeed(random)
             b == BytesOfInt(random)
             x == Xmade(k, t)
  <2>1. ~d.seeded /\ s = <<>> /\ bytes = <<>> /\ B = 0 /\ n = 0
    BY <1>3, <1>5 DEF WireOK
  <2>0. random \in Seeds
    BY <1>5
  <2>2. random \in Seeds /\ random \in 0..(IntValues - 1) /\ random \in Int
    BY <2>0, StreamAssumption, IntValuesNat, SMTT(30)
  <2>3. k \in Ciphers /\ k.dic_i = 0
    BY <2>2, SetSeedIsCipher
  <2>4. b \in Seq(Byte) /\ Len(b) = 4
    BY <2>2, BytesAreInt
  <2>5. c = Advanced(k, T) /\ o = b \o x
    BY <1>1, <1>5
  <2>6. c.dic = k.dic /\ c.dic_i = (0 + T) % DicSize
    <3> HIDE DEF k
    <3>1. QED
      BY <1>3, <2>3, <2>5, AdvancedIsCipher
  <2>7. x \in Seq(Byte) /\ Len(x) = T /\ \A i \in 1..T : x[i] = Xor(k.dic[(0 + i) % DicSize], t[i])
    <3> HIDE DEF k
    <3>1. QED
      BY <2>3, XmadeBytes
  <2>8. s2 = o /\ bytes2 = t
    BY <1>1, <2>1, SMTT(30) DEF s2, bytes2
  <2> HIDE DEF k, b, x
  <2>9. Joined(o, b, x)
    BY <2>4, <2>5, <2>7, ConcatAt
  <2>10. SeedAhead(c, o)
    <3>1. \A i \in 1..4 : o[i] = b[i]
      BY <2>4, <2>9 DEF Joined
    <3>2. QED
      BY <2>2, <2>6, <3>1 DEF SeedAhead, k, b
  <2>11. RestAt(c, o, 4, t, 0)
    <3>1. Len(o) = 4 + T
      BY <2>4, <2>7, <2>9 DEF Joined
    <3>2. ASSUME NEW i \in 1..T
          PROVE  o[4 + i] = Xor(c.dic[(0 + i) % DicSize], t[0 + i])
      <4>1. o[4 + i] = x[i] /\ 0 + i = i
        BY <2>4, <2>7, <2>9, SMTT(30) DEF Joined
      <4>2. QED
        BY <2>6, <2>7, <4>1
    <3> HIDE DEF T
    <3>3. Len(o) = 4 + T - 0 /\ T - 0 = T
      BY <1>3, <3>1, SMTT(30)
    <3>4. QED
      BY <3>2, <3>3 DEF RestAt, T
  <2>12. WireOK(c, d, o, t, n)
    BY <1>1, <1>3, <2>1, <2>6, <2>8, <2>10, <2>11 DEF WireOK
  <2>13. QED
    BY <2>8, <2>12 DEF c, o, s2, bytes2
<1>6. QED
  BY <1>4, <1>5

\* What Decrypt returns when it does not drop the piece, for its first call and the later ones.
LEMMA Decrypted ==
    ASSUME NEW d \in Ciphers, NEW u \in Seq(Byte)
    PROVE  /\ Decrypt(d, u).cipher \in Ciphers /\ Decrypt(d, u).out \in Seq(Byte)
           /\ d.seeded => /\ Decrypt(d, u).cipher = Advanced(d, Len(u))
                          /\ Decrypt(d, u).out = Xmade(d, u)
           /\ ~d.seeded /\ Decrypt(d, u).cipher.seeded =>
                 /\ Len(u) >= 4
                 /\ Decrypt(d, u).cipher = Advanced(SetSeed(IntOfBytes(u)), Len(u) - 4)
                 /\ Decrypt(d, u).out = Xmade(SetSeed(IntOfBytes(u)), SubSeq(u, 5, Len(u)))
           /\ Len(Decrypt(d, u).out) <= Len(u)
<1> DEFINE r == Decrypt(d, u)
           k == SetSeed(IntOfBytes(u))
           rest == SubSeq(u, 5, Len(u))
<1>1. Len(u) \in Nat
  BY SMTT(30)
<1>2. CASE d.seeded
  <2>1. r.cipher = Advanced(d, Len(u)) /\ r.out = Xmade(d, u)
    BY <1>2 DEF Decrypt
  <2>2. r.cipher \in Ciphers
    BY <1>1, <2>1, AdvancedIsCipher
  <2>3. r.out \in Seq(Byte) /\ Len(r.out) = Len(u)
    BY <2>1, XmadeBytes
  <2> HIDE DEF r
  <2>4. QED
    BY <1>1, <1>2, <2>1, <2>2, <2>3, SMTT(30) DEF r
<1>3. CASE ~d.seeded /\ Len(u) < 4
  <2>1. r.cipher = d /\ r.out = <<>>
    BY <1>3 DEF Decrypt
  <2> HIDE DEF r
  <2>2. r.out \in Seq(Byte) /\ Len(r.out) = 0
    BY <2>1, SMTT(30)
  <2>3. QED
    BY <1>1, <1>3, <2>1, <2>2, SMTT(30) DEF r
<1>4. CASE ~d.seeded /\ ~(Len(u) < 4)
  <2>1. r.cipher = Advanced(k, Len(rest)) /\ r.out = Xmade(k, rest)
    BY <1>4, SMTT(30) DEF Decrypt, SizeofInt
  <2>2. k \in Ciphers
    BY <1>1, <1>4, IntOfFour, SetSeedIsCipher, SMTT(30)
  <2>3. rest \in Seq(Byte) /\ Len(rest) = Len(u) - 4 /\ Len(rest) \in Nat
    <3>1. 4 \in 0..Len(u)
      BY <1>1, <1>4, SMTT(30)
    <3>2. /\ SubSeq(u, 4 + 1, Len(u)) \in Seq(Byte) /\ Len(SubSeq(u, 1, 4)) = 4
          /\ Joined(u, SubSeq(u, 1, 4), SubSeq(u, 4 + 1, Len(u)))
      BY <3>1, SplitAt
    <3>3. 4 + 1 = 5
      BY SMTT(30)
    <3>4. rest \in Seq(Byte) /\ Len(u) = 4 + Len(rest)
      BY <3>2, <3>3 DEF Joined
    <3>5. QED
      BY <1>1, <3>4, SMTT(30)
  <2> HIDE DEF k, rest
  <2>4. r.cipher \in Ciphers
    BY <2>1, <2>2, <2>3, AdvancedIsCipher
  <2>5. r.out \in Seq(Byte) /\ Len(r.out) = Len(rest)
    BY <2>1, <2>2, <2>3, XmadeBytes
  <2> HIDE DEF r
  <2>6. QED
    BY <1>1, <1>4, <2>1, <2>3, <2>4, <2>5, SMTT(30) DEF r, k, rest
<1>5. QED
  BY <1>2, <1>3, <1>4

(* The key byte that encrypted a byte decrypts it (xmake).                 *)
LEMMA XorTwice ==
    ASSUME NEW c \in Ciphers, NEW e, c.dic = e.dic, NEW u \in Seq(Byte), NEW bytes \in Seq(Byte),
           NEW n \in Nat, c.dic_i = n % DicSize, n + Len(u) <= Len(bytes),
           \A i \in 1..Len(u) : u[i] = Xor(e.dic[(n + i) % DicSize], bytes[n + i])
    PROVE  PlainAt(Xmade(c, u), bytes, n)
<1>1. Len(Xmade(c, u)) = Len(u) /\ Len(u) \in Nat
      /\ \A i \in 1..Len(u) : Xmade(c, u)[i] = Xor(c.dic[(c.dic_i + i) % DicSize], u[i])
  BY XmadeBytes, SMTT(30)
<1>2. ASSUME NEW i \in 1..Len(u) PROVE Xmade(c, u)[i] = bytes[n + i]
  <2> DEFINE k == e.dic[(n + i) % DicSize]
  <2>1. (c.dic_i + i) % DicSize = (n + i) % DicSize
    BY ModAdd, SMTT(30)
  <2>2. Xmade(c, u)[i] = Xor(k, Xor(k, bytes[n + i]))
    BY <1>1, <2>1
  <2>3. bytes[n + i] \in Byte
    <3>1. n + i \in 1..Len(bytes)
      BY <1>1, SMTT(30)
    <3>2. QED
      BY <3>1, ElementOfSeq
  <2>4. k \in Byte
    <3>1. DicSize \in Nat \ {0} /\ n + i \in Int
      BY CipherAssumption, SMTT(30)
    <3>2. (n + i) % DicSize \in 0..(DicSize - 1)
      BY <3>1, DivMod
    <3>3. QED
      BY <3>2 DEF Ciphers
  <2> HIDE DEF k
  <2>5. QED
    BY <2>2, <2>3, <2>4, CipherAssumption
<1>3. QED
  BY <1>1, <1>2 DEF PlainAt

(* The receiver decrypts a piece, of any size: unless it drops the seed,   *)
(* it gets the bytes of the plain stream, and the rest of the encrypted    *)
(* stream fits its cipher (Decrypt).                                       *)
LEMMA WireTaken ==
    ASSUME NEW e \in Ciphers, NEW d \in Ciphers, NEW s \in Seq(Byte), NEW bytes \in Seq(Byte),
           NEW n, WireOK(e, d, s, bytes, n), NEW m \in 1..Len(s),
           Decrypt(d, SubSeq(s, 1, m)).cipher.seeded
    PROVE  /\ WireOK(e, Decrypt(d, SubSeq(s, 1, m)).cipher, SubSeq(s, m + 1, Len(s)), bytes,
                     n + Len(Decrypt(d, SubSeq(s, 1, m)).out))
           /\ PlainAt(Decrypt(d, SubSeq(s, 1, m)).out, bytes, n)
<1> DEFINE u == SubSeq(s, 1, m)
           v == SubSeq(s, m + 1, Len(s))
           c == Decrypt(d, u).cipher
           o == Decrypt(d, u).out
<1>1. u \in Seq(Byte) /\ Len(u) = m /\ v \in Seq(Byte) /\ Joined(s, u, v) /\ m \in Nat
  BY SplitAt, SMTT(30)
<1> HIDE DEF u, v
<1>2. /\ c \in Ciphers /\ o \in Seq(Byte)
      /\ d.seeded => c = Advanced(d, m) /\ o = Xmade(d, u)
      /\ ~d.seeded /\ c.seeded =>
            /\ m >= 4 /\ c = Advanced(SetSeed(IntOfBytes(u)), m - 4)
            /\ o = Xmade(SetSeed(IntOfBytes(u)), SubSeq(u, 5, m))
  BY <1>1, Decrypted
<1> HIDE DEF c, o
<1>3. c.seeded
  BY DEF c, u
<1>4. n \in 0..Len(bytes) /\ n \in Nat /\ Len(bytes) \in Nat
  BY SMTT(30) DEF WireOK
<1>5. e.seeded
  <2>1. s # <<>>
    BY SMTT(30)
  <2>2. QED
    BY <2>1 DEF WireOK
<1>6. e.dic_i = Len(bytes) % DicSize
  BY <1>5 DEF WireOK
<1>7. CASE d.seeded
  <2>1. c = Advanced(d, m) /\ o = Xmade(d, u)
    BY <1>2, <1>7
  <2>2. d.dic = e.dic /\ d.dic_i = n % DicSize /\ RestAt(e, s, 0, bytes, n)
    BY <1>7 DEF WireOK
  <2>3. Len(u) = 0 + m
    BY <1>1, SMTT(30)
  <2>4. /\ RestAt(e, v, 0, bytes, n + m) /\ n + m \in 0..Len(bytes)
        /\ KeyedAt(u, 0, e, bytes, n, m)
    BY <1>1, <1>4, <2>2, <2>3, RestTaken
  <2>5. \A i \in 1..Len(u) : u[i] = Xor(e.dic[(n + i) % DicSize], bytes[n + i])
    <3>1. SUFFICES ASSUME NEW i \in 1..m
                   PROVE  u[i] = Xor(e.dic[(n + i) % DicSize], bytes[n + i])
      BY <1>1
    <3>2. 0 + i = i
      BY SMTT(30)
    <3>3. QED
      BY <2>4, <3>2 DEF KeyedAt
  <2>6. n + Len(u) <= Len(bytes)
    BY <1>1, <1>4, <2>4, SMTT(30)
  <2>7. PlainAt(o, bytes, n)
    BY <1>1, <1>4, <2>1, <2>2, <2>5, <2>6, XorTwice
  <2>8. Len(o) = m
    BY <1>1, <2>1, XmadeBytes
  <2>9. c.dic = e.dic /\ c.dic_i = (n + m) % DicSize
    <3>1. c.dic = d.dic /\ c.dic_i = (d.dic_i + m) % DicSize
      BY <1>1, <2>1, AdvancedIsCipher
    <3>2. QED
      BY <1>1, <1>4, <2>2, <3>1, ModAdd, SMTT(30)
  <2>10. WireOK(e, c, v, bytes, n + m)
    BY <1>3, <1>5, <1>6, <2>4, <2>9 DEF WireOK
  <2>11. QED
    BY <2>7, <2>8, <2>10 DEF c, o, u, v
<1>8. CASE ~d.seeded
  <2> DEFINE k == SetSeed(IntOfBytes(u))
             rest == SubSeq(u, 5, m)
             w == SubSeq(u, 1, 4)
  <2>1. m >= 4 /\ c = Advanced(k, m - 4) /\ o = Xmade(k, rest)
    BY <1>2, <1>3, <1>8
  <2>2. n = 0 /\ SeedAhead(e, s) /\ RestAt(e, s, 4, bytes, 0)
    BY <1>5, <1>8 DEF WireOK
  <2>3. rest \in Seq(Byte) /\ Len(rest) = m - 4 /\ Len(w) = 4 /\ Joined(u, w, rest)
    <3>1. 4 \in 0..Len(u)
      BY <1>1, <2>1, SMTT(30)
    <3>2. /\ SubSeq(u, 4 + 1, Len(u)) \in Seq(Byte) /\ Len(w) = 4
          /\ Joined(u, w, SubSeq(u, 4 + 1, Len(u)))
      BY <1>1, <3>1, SplitAt
    <3>3. 4 + 1 = 5
      BY SMTT(30)
    <3>4. rest \in Seq(Byte) /\ Len(w) = 4 /\ Joined(u, w, rest)
      BY <1>1, <3>2, <3>3
    <3> HIDE DEF rest, w
    <3>5. Len(rest) \in Nat /\ m = 4 + Len(rest)
      BY <1>1, <3>4, SMTT(30) DEF Joined
    <3>6. QED
      BY <3>4, <3>5, SMTT(30)
  <2>4. m - 4 \in Nat /\ Len(u) = 4 + (m - 4) /\ 0 \in 0..Len(bytes)
    BY <1>1, <1>4, <2>1, SMTT(30)
  <2>5. /\ RestAt(e, v, 0, bytes, 0 + (m - 4)) /\ 0 + (m - 4) \in 0..Len(bytes)
        /\ KeyedAt(u, 4, e, bytes, 0, m - 4)
    BY <1>1, <2>2, <2>4, RestTaken
  <2>6. PICK seed \in Seeds : e.dic = SetSeed(seed).dic /\ \A i \in 1..4 : s[i] = BytesOfInt(seed)[i]
    BY <2>2 DEF SeedAhead
  <2>7. IntOfBytes(u) = seed
    <3>1. seed \in 0..(IntValues \div 2 - 1) /\ seed \in 0..(IntValues - 1) /\ seed \in Int
      BY StreamAssumption, IntValuesNat, SMTT(30)
    <3>2. \A i \in 1..4 : u[i] = BytesOfInt(seed)[i]
      <4>1. \A i \in 1..4 : i \in 1..Len(u)
        BY <1>1, <2>1, SMTT(30)
      <4>2. QED
        BY <1>1, <2>6, <4>1 DEF Joined
    <3>3. IntOfBytes(u) = IntOfBytes(BytesOfInt(seed))
      BY <3>2, SameInt
    <3>4. IntOfBytes(BytesOfInt(seed)) = Wrapped(seed)
      BY <3>1, BytesAreInt
    <3>5. Wrapped(seed) = seed
      BY <3>1, WrappedUnsigned
    <3>6. QED
      BY <3>3, <3>4, <3>5
  <2>8. k \in Ciphers /\ k.dic = e.dic /\ k.dic_i = 0
    <3>1. seed \in Int
      BY StreamAssumption, IntValuesNat, SMTT(30)
    <3>2. k = SetSeed(seed)
      BY <2>7
    <3>3. QED
      BY <2>6, <3>1, <3>2, SetSeedIsCipher
  <2> HIDE DEF k, rest, w
  <2>9. 0 % DicSize = 0
    <3>1. DicSize \in Nat \ {0} /\ 0 \in 0..(DicSize - 1) /\ 0 = 0 + DicSize * 0
      BY CipherAssumption, SMTT(30)
    <3>2. QED
      BY <3>1, ModUnique, SMTT(30)
  <2>10. ASSUME NEW i \in 1..Len(rest)
         PROVE  rest[i] = Xor(e.dic[(0 + i) % DicSize], bytes[0 + i])
    <3>1. u[4 + i] = rest[i]
      BY <2>3 DEF Joined
    <3>2. i \in 1..(m - 4)
      BY <2>3
    <3>3. QED
      BY <2>5, <3>1, <3>2 DEF KeyedAt
  <2>11. 0 + Len(rest) <= Len(bytes)
    BY <1>1, <1>4, <2>3, <2>5, SMTT(30)
  <2>12. k.dic_i = 0 % DicSize
    BY <2>8, <2>9
  <2>13. PlainAt(o, bytes, 0)
    BY <2>1, <2>3, <2>8, <2>10, <2>11, <2>12, XorTwice, SMTT(30)
  <2>14. Len(o) = m - 4
    BY <2>1, <2>3, <2>8, XmadeBytes
  <2>15. c.dic = e.dic /\ c.dic_i = (0 + (m - 4)) % DicSize
    BY <2>1, <2>4, <2>8, AdvancedIsCipher
  <2>16. WireOK(e, c, v, bytes, 0 + (m - 4))
    BY <1>3, <1>5, <1>6, <2>5, <2>15 DEF WireOK
  <2>17. QED
    BY <2>2, <2>13, <2>14, <2>16 DEF c, o, u, v
<1>9. QED
  BY <1>7, <1>8

-----------------------------------------------------------------------------
(* What the receiver has used of the plain stream.                         *)

\* The numbers that count the bytes of the first bags are natural numbers.
LEMMA UsedNat ==
    ASSUME NEW msgs, NEW bytes, NEW bounds, BagsOK(msgs, bytes, bounds),
           NEW j \in 0..Len(msgs), NEW flag
    PROVE  /\ End(bounds, j) \in 0..Len(bytes) /\ Len(bytes) \in Nat
           /\ \A bags : Len(bags) = j => /\ Used(bounds, bags, flag) \in Nat
                                         /\ ~flag => Used(bounds, bags, flag) = End(bounds, j)
                                         /\ flag => Used(bounds, bags, flag) = End(bounds, j) + 4
<1>1. FramesOK(msgs, bytes, bounds)
  BY DEF BagsOK
<1>3. End(bounds, j) \in 0..Len(bytes) /\ End(bounds, j) \in Nat /\ Len(bytes) \in Nat
  BY <1>1, EndNat
<1>5. ASSUME NEW bags, Len(bags) = j
      PROVE  /\ Used(bounds, bags, flag) \in Nat
             /\ ~flag => Used(bounds, bags, flag) = End(bounds, j)
             /\ flag => Used(bounds, bags, flag) = End(bounds, j) + 4
  <2>1. CASE flag
    BY <1>3, <1>5, <2>1, SMTT(30) DEF Used
  <2>2. CASE ~flag
    BY <1>3, <1>5, <2>2, SMTT(30) DEF Used
  <2>3. QED
    BY <2>1, <2>2
<1>6. QED
  BY <1>3, <1>5

(* The bag of message j + 1 follows the first j bags.                      *)
LEMMA NextBag ==
    ASSUME NEW msgs, NEW bytes, NEW bounds, BagsOK(msgs, bytes, bounds),
           NEW j \in Nat, j < Len(msgs)
    PROVE  /\ msgs[j + 1] \in Messages /\ Len(msgs[j + 1]) \in Nat
           /\ End(bounds, j + 1) = End(bounds, j) + 4 + Len(msgs[j + 1])
           /\ LengthAt(Len(msgs[j + 1]), bytes, End(bounds, j))
           /\ PlainAt(msgs[j + 1], bytes, End(bounds, j) + 4)
<1>1. FramesOK(msgs, bytes, bounds) /\ msgs \in Seq(Messages) /\ Len(msgs) \in Nat
  BY SMTT(30) DEF BagsOK
<1>2. j + 1 \in 1..Len(msgs)
  BY <1>1, SMTT(30)
<1>3. msgs[j + 1] \in Messages
  BY <1>1, <1>2, ElementOfSeq
<1>4. QED
  BY <1>1, <1>3, NextFrame

Cell == Byte \cup {Junk}

(* Another bag under way changes nothing of what was taken.                *)
LEMMA TakenKept ==
    ASSUME NEW msgs, NEW bytes, NEW bounds, BagsOK(msgs, bytes, bounds), NEW msg \in Messages,
           NEW bags \in Seq(Seq(Byte)), NEW flag \in BOOLEAN, NEW len, NEW cells \in Seq(Cell),
           NEW n \in 0..Len(bytes), TakenOK(msgs, bytes, bounds, bags, flag, len, cells, n)
    PROVE  TakenOK(Append(msgs, msg), bytes \o Bag(msg),
                   Append(bounds, Len(bytes \o Bag(msg))), bags, flag, len, cells, n)
<1> DEFINE bytes2 == bytes \o Bag(msg)
           msgs2 == Append(msgs, msg)
           bounds2 == Append(bounds, Len(bytes2))
           u == Used(bounds, bags, flag)
<1>1. /\ msgs \in Seq(Messages) /\ bytes \in Seq(Byte) /\ bounds \in Seq(Nat)
      /\ Len(bounds) = Len(msgs) /\ Len(msgs) \in Nat /\ Len(bags) \in Nat /\ Len(cells) \in Nat
      /\ Len(bytes) \in Nat
  BY SMTT(30) DEF BagsOK, FramesOK
<1>2. /\ Len(bags) <= Len(msgs) /\ \A k \in 1..Len(bags) : bags[k] = msgs[k]
      /\ flag => Len(bags) < Len(msgs) /\ len = Len(msgs[Len(bags) + 1])
      /\ Len(cells) = n - u /\ \A i \in 1..Len(cells) : cells[i] = bytes[u + i]
  BY DEF TakenOK
<1>3. Len(bags) \in 0..Len(msgs)
  BY <1>1, <1>2, SMTT(30)
<1>4. u \in Nat
  BY <1>3, UsedNat
<1>5. bytes2 \in Seq(Byte) /\ Joined(bytes2, bytes, Bag(msg)) /\ Len(bytes2) \in Nat
  BY <1>1, BagBytes, ConcatAt, SMTT(30)
<1> HIDE DEF bytes2
<1>6. Used(bounds2, bags, flag) = u
  <2>1. End(bounds2, Len(bags)) = End(bounds, Len(bags))
    BY <1>1, <1>3, <1>5, EndKept
  <2>2. QED
    BY <2>1 DEF Used
<1>7. Len(msgs2) = Len(msgs) + 1 /\ \A k \in 1..Len(msgs) : msgs2[k] = msgs[k]
  BY <1>1, SMTT(30)
<1> HIDE DEF msgs2, bounds2
<1>8. \A k \in 1..Len(bags) : bags[k] = msgs2[k]
  BY <1>1, <1>2, <1>3, <1>7, SMTT(30)
<1>9. ASSUME flag PROVE Len(bags) < Len(msgs2) /\ len = Len(msgs2[Len(bags) + 1])
  BY <1>1, <1>2, <1>7, <1>9, SMTT(30)
<1>10. ASSUME NEW i \in 1..Len(cells) PROVE cells[i] = bytes2[u + i]
  <2> HIDE DEF u
  <2>1. u + i \in 1..Len(bytes)
    BY <1>1, <1>2, <1>4, SMTT(30)
  <2>2. bytes2[u + i] = bytes[u + i]
    BY <1>5, <2>1 DEF Joined
  <2>3. cells[i] = bytes[u + i]
    BY <1>2
  <2>4. QED
    BY <2>2, <2>3
<1>11. Len(bags) <= Len(msgs2)
  BY <1>1, <1>2, <1>7, SMTT(30)
<1>12. TakenOK(msgs2, bytes2, bounds2, bags, flag, len, cells, n)
  <2> HIDE DEF u
  <2>1. QED
    BY <1>2, <1>6, <1>8, <1>9, <1>10, <1>11 DEF TakenOK
<1>13. QED
  BY <1>12 DEF msgs2, bytes2, bounds2

(* More bytes decrypted are more bytes in the buffer (InsertData).         *)
LEMMA TakenMore ==
    ASSUME NEW msgs, NEW bytes, NEW bounds, BagsOK(msgs, bytes, bounds),
           NEW bags \in Seq(Seq(Byte)), NEW flag \in BOOLEAN, NEW len, NEW cells \in Seq(Cell),
           NEW n \in Nat, TakenOK(msgs, bytes, bounds, bags, flag, len, cells, n),
           NEW o \in Seq(Byte), PlainAt(o, bytes, n)
    PROVE  TakenOK(msgs, bytes, bounds, bags, flag, len, cells \o o, n + Len(o))
<1> DEFINE u == Used(bounds, bags, flag)
           cells2 == cells \o o
<1>1. /\ Len(bags) <= Len(msgs) /\ \A k \in 1..Len(bags) : bags[k] = msgs[k]
      /\ flag => Len(bags) < Len(msgs) /\ len = Len(msgs[Len(bags) + 1])
      /\ Len(cells) = n - u /\ \A i \in 1..Len(cells) : cells[i] = bytes[u + i]
  BY DEF TakenOK
<1>2. Len(msgs) \in Nat /\ Len(bags) \in Nat /\ Len(cells) \in Nat /\ Len(o) \in Nat
  BY SMTT(30) DEF BagsOK, FramesOK
<1>3. u \in Nat
  <2>1. Len(bags) \in 0..Len(msgs)
    BY <1>1, <1>2, SMTT(30)
  <2>2. QED
    BY <2>1, UsedNat
<1>4. Joined(cells2, cells, o)
  <2>1. o \in Seq(Cell)
    BY SMTT(30) DEF Cell
  <2>2. QED
    BY <2>1, ConcatAt
<1> HIDE DEF cells2, u
<1>5. Len(cells2) = (n + Len(o)) - u
  BY <1>1, <1>2, <1>3, <1>4, SMTT(30) DEF Joined
<1>6. ASSUME NEW i \in 1..Len(cells2) PROVE cells2[i] = bytes[u + i]
  <2>1. CASE i <= Len(cells)
    <3>1. i \in 1..Len(cells)
      BY <1>2, <2>1, SMTT(30)
    <3>2. QED
      BY <1>1, <1>4, <3>1 DEF Joined
  <2>2. CASE i > Len(cells)
    <3> DEFINE j == i - Len(cells)
    <3>1. j \in 1..Len(o) /\ i = Len(cells) + j /\ n + j = u + i
      BY <1>1, <1>2, <1>3, <1>5, <2>2, SMTT(30)
    <3> HIDE DEF j
    <3>2. cells2[Len(cells) + j] = o[j]
      BY <1>4, <3>1 DEF Joined
    <3>3. o[j] = bytes[n + j]
      BY <3>1 DEF PlainAt
    <3>4. QED
      BY <3>1, <3>2, <3>3
  <2>3. QED
    BY <1>2, <2>1, <2>2, SMTT(30)
<1>7. TakenOK(msgs, bytes, bounds, bags, flag, len, cells2, n + Len(o))
  BY <1>1, <1>5, <1>6 DEF TakenOK, u
<1>8. QED
  BY <1>7 DEF cells2

(* Four bytes in the buffer, between bags, are the length of the next      *)
(* message, and taking them leaves its bytes next (BagProcess).            *)
LEMMA LengthTaken ==
    ASSUME NEW msgs, NEW bytes, NEW bounds, BagsOK(msgs, bytes, bounds),
           NEW bags \in Seq(Seq(Byte)), NEW len, NEW cells \in Seq(Cell),
           NEW n \in 0..Len(bytes), TakenOK(msgs, bytes, bounds, bags, FALSE, len, cells, n),
           NEW p, NEW rest \in Seq(Cell), Joined(cells, p, rest), Len(p) = 4
    PROVE  /\ Len(msgs[Len(bags) + 1]) \in 0..MaxMsgLen
           /\ LengthAt(Len(msgs[Len(bags) + 1]), p, 0)
           /\ TakenOK(msgs, bytes, bounds, bags, TRUE, Len(msgs[Len(bags) + 1]), rest, n)
<1> DEFINE j == Len(bags)
           e == End(bounds, j)
           M == Len(msgs[j + 1])
<1>0. /\ j \in Nat /\ Len(msgs) \in Nat /\ Len(bytes) \in Nat /\ Len(cells) \in Nat
      /\ Len(bytes) = End(bounds, Len(msgs)) /\ Len(rest) \in Nat /\ n \in Nat
  BY SMTT(30) DEF BagsOK, FramesOK
<1>1. /\ j <= Len(msgs) /\ \A k \in 1..j : bags[k] = msgs[k]
      /\ Len(cells) = n - Used(bounds, bags, FALSE)
      /\ \A i \in 1..Len(cells) : cells[i] = bytes[Used(bounds, bags, FALSE) + i]
  BY DEF TakenOK
<1>2. j \in 0..Len(msgs)
  BY <1>0, <1>1, UpTo
<1>3. Used(bounds, bags, FALSE) = e /\ Used(bounds, bags, TRUE) = e + 4 /\ e \in Nat
  <2>1. e \in 0..Len(bytes)
    BY <1>2, UsedNat
  <2>2. e \in Nat
    BY <1>0, <2>1, SMTT(30)
  <2>3. QED
    BY <2>2, SMTT(30) DEF Used
<1>4. Len(cells) = 4 + Len(rest) /\ Len(cells) = n - e
  BY <1>1, <1>3 DEF Joined
<1>5. j < Len(msgs)
  <2>1. SUFFICES ASSUME j = Len(msgs) PROVE FALSE
    BY <1>0, <1>1, SMTT(30)
  <2>2. e = Len(bytes)
    BY <1>0, <2>1
  <2> HIDE DEF e
  <2>3. QED
    BY <1>0, <1>3, <1>4, <2>2, SMTT(30)
<1>6. /\ M \in 0..MaxMsgLen
      /\ \A i \in 1..4 : bytes[e + i] = BytesOfInt(M)[i]
  <2>1. msgs[j + 1] \in Messages /\ LengthAt(M, bytes, e)
    <3> HIDE DEF j
    <3>1. QED
      BY <1>0, <1>5, NextBag
  <2>2. QED
    BY <2>1, BagBytes DEF LengthAt
<1> HIDE DEF e, M, j
<1>7. ASSUME NEW i \in 1..4 PROVE p[i] = BytesOfInt(M)[i]
  <2>1. i \in 1..Len(p) /\ i \in 1..Len(cells)
    BY <1>0, <1>4, SMTT(30)
  <2>2. cells[i] = p[i]
    BY <2>1 DEF Joined
  <2>3. cells[i] = bytes[e + i]
    BY <1>1, <1>3, <2>1
  <2>4. QED
    BY <1>6, <2>2, <2>3
<1>8. ASSUME NEW i \in 1..Len(rest) PROVE rest[i] = bytes[(e + 4) + i]
  <2>1. 4 + i \in 1..Len(cells) /\ e + (4 + i) = (e + 4) + i
    BY <1>0, <1>3, <1>4, SMTT(30)
  <2>2. cells[4 + i] = rest[i]
    BY DEF Joined
  <2>3. cells[4 + i] = bytes[e + (4 + i)]
    BY <1>1, <1>3, <2>1
  <2>4. QED
    BY <2>1, <2>2, <2>3
<1>9. Len(rest) = n - (e + 4)
  <2> DEFINE r == Len(rest)
             c == Len(cells)
  <2>1. r \in Nat /\ c = 4 + r /\ c = n - e /\ e \in Nat /\ n \in Nat
    BY <1>0, <1>3, <1>4
  <2> HIDE DEF r, c
  <2>2. r = n - (e + 4)
    BY <2>1, SMTT(30)
  <2>3. QED
    BY <2>2 DEF r
<1>10. TakenOK(msgs, bytes, bounds, bags, TRUE, M, rest, n)
  BY <1>1, <1>3, <1>5, <1>8, <1>9 DEF TakenOK, M, j
<1>11. LengthAt(M, p, 0)
  BY <1>7, SMTT(30) DEF LengthAt
<1>12. QED
  BY <1>6, <1>10, <1>11 DEF M, j

(* The bytes the receiver then waits for are the message (BagProcess).     *)
LEMMA BagTaken ==
    ASSUME NEW msgs, NEW bytes, NEW bounds, BagsOK(msgs, bytes, bounds),
           NEW bags \in Seq(Seq(Byte)), NEW len, NEW cells \in Seq(Cell),
           NEW n \in 0..Len(bytes), TakenOK(msgs, bytes, bounds, bags, TRUE, len, cells, n),
           NEW p, NEW rest \in Seq(Cell), Joined(cells, p, rest), Len(p) = len
    PROVE  /\ msgs[Len(bags) + 1] \in Messages /\ Len(msgs[Len(bags) + 1]) = len
           /\ PlainAt(msgs[Len(bags) + 1], p, 0)
           /\ TakenOK(msgs, bytes, bounds, Append(bags, msgs[Len(bags) + 1]), FALSE, len, rest, n)
<1> DEFINE j == Len(bags)
           e == End(bounds, j)
           msg == msgs[j + 1]
           bags2 == Append(bags, msg)
<1>0. /\ j \in Nat /\ Len(msgs) \in Nat /\ Len(bytes) \in Nat /\ Len(cells) \in Nat
      /\ Len(rest) \in Nat /\ n \in Nat
  BY SMTT(30) DEF BagsOK, FramesOK
<1>1. /\ j <= Len(msgs) /\ \A k \in 1..j : bags[k] = msgs[k]
      /\ j < Len(msgs) /\ len = Len(msg)
      /\ Len(cells) = n - Used(bounds, bags, TRUE)
      /\ \A i \in 1..Len(cells) : cells[i] = bytes[Used(bounds, bags, TRUE) + i]
  BY DEF TakenOK
<1>2. j \in 0..Len(msgs) /\ j + 1 \in 0..Len(msgs)
  BY <1>0, <1>1, SMTT(30)
<1>3. Used(bounds, bags, TRUE) = e + 4 /\ e \in Nat
  <2>1. e \in 0..Len(bytes)
    BY <1>2, UsedNat
  <2>2. e \in Nat
    BY <1>0, <2>1, SMTT(30)
  <2>3. QED
    BY <2>2 DEF Used
<1>4. /\ msg \in Messages /\ len \in Nat /\ End(bounds, j + 1) = e + 4 + len
      /\ \A i \in 1..len : bytes[e + 4 + i] = msg[i]
  <2>1. /\ msg \in Messages /\ Len(msg) \in Nat /\ End(bounds, j + 1) = e + 4 + Len(msg)
        /\ PlainAt(msg, bytes, e + 4)
    <3> HIDE DEF j
    <3>1. j \in Nat /\ j < Len(msgs)
      BY <1>0, <1>1
    <3>2. QED
      BY <3>1, NextBag
  <2>2. len = Len(msg)
    BY <1>1
  <2>3. QED
    BY <2>1, <2>2 DEF PlainAt
<1>5. Len(cells) = len + Len(rest) /\ Len(cells) = n - (e + 4)
  BY <1>1, <1>3 DEF Joined
<1>6. Len(bags2) = j + 1 /\ \A k \in 1..(j + 1) : bags2[k] = msgs[k]
  <2>1. msg \in Seq(Byte)
    BY <1>4, BagBytes
  <2> HIDE DEF msg
  <2>2. Len(bags2) = j + 1 /\ bags2[j + 1] = msg /\ \A k \in 1..j : bags2[k] = bags[k]
    BY <2>1, SMTT(30)
  <2> HIDE DEF bags2, j
  <2>3. ASSUME NEW k \in 1..(j + 1) PROVE bags2[k] = msgs[k]
    <3>1. CASE k = j + 1
      BY <2>2, <3>1 DEF msg
    <3>2. CASE k # j + 1
      <4>1. k \in 1..j
        BY <1>0, <3>2, SMTT(30)
      <4>2. QED
        BY <1>1, <2>2, <4>1
    <3>3. QED
      BY <3>1, <3>2
  <2>4. QED
    BY <2>2, <2>3
<1>7. Used(bounds, bags2, FALSE) = e + 4 + len
  <2>1. e + 4 + len \in Nat
    BY <1>3, <1>4, SMTT(30)
  <2>2. Used(bounds, bags2, FALSE) = End(bounds, j + 1) + 0
    BY <1>6 DEF Used
  <2>3. End(bounds, j + 1) = e + 4 + len
    BY <1>4
  <2> DEFINE x == End(bounds, j + 1)
             y == e + 4 + len
  <2> HIDE DEF x, y
  <2>4. x = y /\ y \in Nat
    BY <2>1, <2>3 DEF x, y
  <2>5. x + 0 = y
    BY <2>4, SMTT(30)
  <2>6. QED
    BY <2>2, <2>5 DEF x, y
<1> HIDE DEF e, msg, bags2, j
<1>8. ASSUME NEW i \in 1..len PROVE p[i] = msg[i]
  <2>1. i \in 1..Len(p) /\ i \in 1..Len(cells)
    BY <1>0, <1>4, <1>5, SMTT(30)
  <2>2. cells[i] = p[i]
    BY <2>1 DEF Joined
  <2>3. cells[i] = bytes[e + 4 + i]
    BY <1>1, <1>3, <2>1
  <2>4. QED
    BY <1>4, <2>2, <2>3
<1>9. ASSUME NEW i \in 1..Len(rest) PROVE rest[i] = bytes[(e + 4 + len) + i]
  <2>1. len + i \in 1..Len(cells) /\ (e + 4) + (len + i) = (e + 4 + len) + i
    BY <1>0, <1>3, <1>4, <1>5, SMTT(30)
  <2>2. cells[len + i] = rest[i]
    BY DEF Joined
  <2>3. cells[len + i] = bytes[(e + 4) + (len + i)]
    BY <1>1, <1>3, <2>1
  <2>4. QED
    BY <2>1, <2>2, <2>3
<1>10. Len(rest) = n - (e + 4 + len)
  <2> DEFINE r == Len(rest)
             c == Len(cells)
  <2>1. r \in Nat /\ len \in Nat /\ c = len + r /\ c = n - (e + 4) /\ e \in Nat /\ n \in Nat
    BY <1>0, <1>3, <1>4, <1>5
  <2> HIDE DEF r, c
  <2>2. r = n - (e + 4 + len)
    BY <2>1, SMTT(30)
  <2>3. QED
    BY <2>2 DEF r
<1>11. Len(bags2) <= Len(msgs) /\ \A k \in 1..Len(bags2) : bags2[k] = msgs[k]
  BY <1>0, <1>1, <1>6, SMTT(30)
<1>12. TakenOK(msgs, bytes, bounds, bags2, FALSE, len, rest, n)
  BY <1>7, <1>9, <1>10, <1>11 DEF TakenOK
<1>13. PlainAt(msg, p, 0)
  BY <1>1, <1>8, SMTT(30) DEF PlainAt
<1>14. QED
  BY <1>1, <1>4, <1>12, <1>13 DEF bags2, msg, j

-----------------------------------------------------------------------------
(* The steps.                                                              *)

(* Memory that holds bytes is read as it is.                               *)
LEMMA ExactReads ==
    ASSUME NEW s \in Seq(Cell), NEW t \in Reads(s)
    PROVE  /\ t \in Seq(Byte) /\ Len(t) = Len(s)
           /\ \A i \in 1..Len(s) : s[i] \in Byte => t[i] = s[i]
<1>1. t \in [1..Len(s) -> Byte] /\ Len(s) \in Nat /\ \A i \in 1..Len(s) : s[i] \in {Junk, t[i]}
  BY SMTT(30) DEF Reads
<1>2. t \in Seq(Byte) /\ Len(t) = Len(s)
  BY <1>1, FunctionIsSeq
<1>3. QED
  BY <1>1, <1>2, BufAssumption

\* r is what is left of the buffer b once its first n bytes were taken.
LeftOf(r, b, n) ==
    /\ GetBufLen(r) = GetBufLen(b) - n /\ r.bufsize = b.bufsize
    /\ Contents(r) \in Seq(Cell)
    /\ SubSeq(Contents(b), 1, n) \in Seq(Cell) /\ Len(SubSeq(Contents(b), 1, n)) = n
    /\ Joined(Contents(b), SubSeq(Contents(b), 1, n), Contents(r))

(* GetBufData, for as many bytes as there are at least: it takes them off, *)
(* unless it reads through a NULL pointer.                                 *)
LEMMA TakenLeaves ==
    ASSUME BufInv(buf), NEW n \in Nat, n <= GetBufLen(buf)
    PROVE  BufInv(Taken(n)) /\ (Sound(Taken(n)) => Sound(buf) /\ LeftOf(Taken(n), buf, n))
<1>1. CASE buf.null /\ n > 0
  <2>1. Taken(n) = [buf EXCEPT !.fault = "null_read"]
    BY <1>1 DEF Taken
  <2>2. QED
    BY <2>1, FaultInv
<1>2. CASE ~(buf.null /\ n > 0)
  <2> DEFINE r == Drained(buf, n)
             c == Contents(buf)
  <2>1. Taken(n) = r
    BY <1>2 DEF Taken
  <2>2. /\ BufInv(r) /\ Sound(r) = Sound(buf)
        /\ c = SubSeq(c, 1, RealLen(buf, n)) \o Contents(r)
    BY DrainedTakes
  <2>3. RealLen(buf, n) = n
    <3>1. GetBufLen(buf) \in Int
      BY SMTT(30) DEF BufInv, Buffer, GetBufLen
    <3>2. QED
      BY <3>1, SMTT(30) DEF RealLen
  <2>4. /\ c \in Seq(Cell) /\ Contents(r) \in Seq(Cell) /\ Len(c) = GetBufLen(buf)
        /\ Len(Contents(r)) = GetBufLen(r)
    BY <2>2, ContentsIsSeq DEF Cell, GetBufLen
  <2>5. r.bufsize = buf.bufsize
    BY DEF Drained, BufInv, Buffer
  <2> HIDE DEF r
  <2>6. n \in 0..Len(c) /\ Len(c) \in Nat
    BY <2>4, SMTT(30)
  <2> HIDE DEF c
  <2>7. SubSeq(c, 1, n) \in Seq(Cell) /\ Len(SubSeq(c, 1, n)) = n
    BY <2>4, <2>6, SplitAt
  <2>8. Joined(c, SubSeq(c, 1, n), Contents(r))
    BY <2>2, <2>3, <2>4, <2>7, ConcatAt
  <2>9. GetBufLen(r) = GetBufLen(buf) - n
    <3>1. Len(c) = n + Len(Contents(r)) /\ Len(Contents(r)) \in Nat
      BY <2>4, <2>7, <2>8, SMTT(30) DEF Joined
    <3>2. QED
      BY <2>4, <3>1, SMTT(30)
  <2>10. LeftOf(r, buf, n)
    BY <2>4, <2>5, <2>7, <2>8, <2>9 DEF LeftOf, c
  <2>11. QED
    BY <2>1, <2>2, <2>10
<1>3. QED
  BY <1>1, <1>2

\* What the buffer of a healthy connection can grow to.
Most == RecvBlock + (IF MaxMsgLen > 4 THEN MaxMsgLen ELSE 4) - 1
SmallBuf(b) == GetBufLen(b) <= Most /\ (b.bufsize = BufSize \/ b.bufsize < 2 * Most)

(* What is taken off makes the buffer no larger.                           *)
LEMMA StillSmall ==
    ASSUME NEW b, BufInv(b), SmallBuf(b), NEW r, NEW n \in Nat, LeftOf(r, b, n)
    PROVE  SmallBuf(r)
<1>1. GetBufLen(b) \in Int /\ Most \in Int
  BY StreamAssumption, SMTT(30) DEF BufInv, Buffer, GetBufLen, Most
<1>2. GetBufLen(r) = GetBufLen(b) - n /\ r.bufsize = b.bufsize
  BY DEF LeftOf
<1>3. QED
  BY <1>1, <1>2, SMTT(30) DEF SmallBuf

(* The state of a healthy receiver.                                        *)
LEMMA HealthyFacts ==
    ASSUME StreamInv, Healthy
    PROVE  /\ WireOK(enc, dec, wire, plain, rcvd) /\ rcvd \in 0..Len(plain)
           /\ BagsTaken /\ LessThanABag /\ SmallBuf(buf)
<1>1. WireOK(enc, dec, wire, plain, rcvd) /\ BagsTaken /\ LessThanABag /\ BufferStaysSmall
  BY DEF StreamInv, Healthy
<1>2. SmallBuf(buf)
  BY <1>1 DEF BufferStaysSmall, SmallBuf, Most
<1>3. rcvd \in 0..Len(plain)
  BY <1>1 DEF WireOK
<1>4. QED
  BY <1>1, <1>2, <1>3

(* BagProcess takes the length of the next message.                        *)
LEMMA TakeLengthInv ==
    ASSUME StreamInv, TakeLength
    PROVE  StreamInv'
<1> DEFINE c == Contents(buf)
           p == SubSeq(c, 1, 4)
<1>1. PICK head \in Reads(p) : bagLen' = Unsigned(IntOfBytes(head))
  BY DEF TakeLength
<1>2. /\ buf' = Taken(4) /\ bagFlag' = TRUE /\ bagFlag = FALSE /\ ~(GetBufLen(buf) < 4)
      /\ pc = "bags"
      /\ UNCHANGED <<enc, sent, plain, ends, wire, dec, got, pc, rcvd, dropped>>
  BY DEF TakeLength, senderVars, StreamInv, TypeOK
<1>3. TypeOK /\ BufInv(buf) /\ BagsOK(sent, plain, ends)
  BY DEF StreamInv
<1>4. c \in Seq(Cell) /\ Len(c) = GetBufLen(buf) /\ Len(c) \in Nat
  BY <1>3, ContentsIsSeq, SMTT(30) DEF Cell, GetBufLen
<1>5. 4 \in 0..Len(c) /\ 4 <= GetBufLen(buf)
  BY <1>2, <1>4, SMTT(30)
<1>6. p \in Seq(Cell) /\ Len(p) = 4
  <2> HIDE DEF c
  <2>1. QED
    BY <1>4, <1>5, SplitAt
<1>7. /\ head \in Seq(Byte) /\ Len(head) = 4
      /\ \A i \in 1..4 : p[i] \in Byte => head[i] = p[i]
  <2> HIDE DEF p
  <2>1. QED
    BY <1>6, ExactReads
<1>8. bagLen' \in Nat
  <2>1. IntOfBytes(head) \in Int
    <3>1. Len(head) >= 4
      BY <1>7, SMTT(30)
    <3>2. QED
      BY <1>7, <3>1, IntOfFour
  <2>2. Unsigned(IntOfBytes(head)) \in 0..(IntValues - 1) /\ IntValues \in Nat
    BY <2>1, WrappedUnsigned, IntValuesNat
  <2>3. QED
    BY <1>1, <2>2, SMTT(30)
<1>9. BufInv(buf') /\ (Sound(buf') => Sound(buf) /\ LeftOf(buf', buf, 4))
  BY <1>2, <1>3, <1>5, TakenLeaves
<1>10. TypeOK'
  BY <1>2, <1>3, <1>8, <1>9 DEF TypeOK, BufInv
<1>11. BagsOK(sent', plain', ends') /\ (~dropped' => WireOK(enc', dec', wire', plain', rcvd'))
  BY <1>2, <1>3 DEF StreamInv
<1>12. ASSUME Healthy' PROVE BagsTaken' /\ LessThanABag' /\ SmallBuf(buf')
  <2>1. Healthy /\ LeftOf(buf', buf, 4)
    BY <1>2, <1>9, <1>12 DEF Healthy
  <2>2. /\ TakenOK(sent, plain, ends, got, FALSE, bagLen, c, rcvd)
        /\ rcvd \in 0..Len(plain) /\ SmallBuf(buf)
    BY <2>1, <1>2, HealthyFacts DEF BagsTaken
  <2>3. SmallBuf(buf')
    BY <1>3, <2>1, <2>2, StillSmall
  <2>4. Joined(c, p, Contents(buf')) /\ Contents(buf') \in Seq(Cell)
    BY <2>1 DEF LeftOf
  <2> DEFINE M == Len(sent[Len(got) + 1])
  <2>5. got \in Seq(Seq(Byte))
    BY <1>3 DEF TypeOK
  <2> HIDE DEF c, p
  <2>6. /\ M \in 0..MaxMsgLen /\ LengthAt(M, p, 0)
        /\ TakenOK(sent, plain, ends, got, TRUE, M, Contents(buf'), rcvd)
    BY <1>3, <1>4, <1>6, <2>2, <2>4, <2>5, LengthTaken
  <2> HIDE DEF M
  <2>7. M \in 0..(IntValues - 1) /\ M \in Int
    BY <2>6, StreamAssumption, IntValuesNat, SMTT(30)
  <2>8. BytesOfInt(M) \in Seq(Byte) /\ Len(BytesOfInt(M)) = 4 /\ IntOfBytes(BytesOfInt(M)) = Wrapped(M)
    BY <2>7, BytesAreInt
  <2>9. \A i \in 1..4 : head[i] = BytesOfInt(M)[i]
    BY <1>7, <2>6, <2>8, ElementOfSeq, SMTT(30) DEF LengthAt
  <2>10. IntOfBytes(head) = Wrapped(M)
    BY <2>8, <2>9, SameInt
  <2>11. bagLen' = M
    BY <1>1, <2>7, <2>10, WrappedUnsigned
  <2>12. BagsTaken'
    BY <1>2, <2>6, <2>11 DEF BagsTaken
  <2>13. QED
    BY <1>2, <2>3, <2>12 DEF LessThanABag
<1>13. BufferStaysSmall'
  BY <1>12 DEF BufferStaysSmall, SmallBuf, Most
<1>14. QED
  BY <1>9, <1>10, <1>11, <1>12, <1>13 DEF StreamInv

(* BagProcess hands on a message.                                          *)
LEMMA TakeBagInv ==
    ASSUME StreamInv, TakeBag
    PROVE  StreamInv'
<1> DEFINE c == Contents(buf)
           p == SubSeq(c, 1, bagLen)
<1>1. PICK bag \in Reads(p) : got' = Append(got, bag)
  BY DEF TakeBag
<1>2. /\ buf' = Taken(bagLen) /\ bagFlag' = FALSE /\ bagFlag = TRUE /\ ~(GetBufLen(buf) < bagLen)
      /\ pc = "bags"
      /\ UNCHANGED <<enc, sent, plain, ends, wire, dec, bagLen, pc, rcvd, dropped>>
  BY DEF TakeBag, senderVars, StreamInv, TypeOK
<1>3. TypeOK /\ BufInv(buf) /\ BagsOK(sent, plain, ends) /\ bagLen \in Nat
  BY DEF StreamInv, TypeOK
<1>4. c \in Seq(Cell) /\ Len(c) = GetBufLen(buf) /\ Len(c) \in Nat
  BY <1>3, ContentsIsSeq, SMTT(30) DEF Cell, GetBufLen
<1>5. bagLen \in 0..Len(c) /\ bagLen <= GetBufLen(buf)
  BY <1>2, <1>3, <1>4, SMTT(30)
<1>6. p \in Seq(Cell) /\ Len(p) = bagLen
  <2> HIDE DEF c
  <2>1. QED
    BY <1>4, <1>5, SplitAt
<1>7. /\ bag \in Seq(Byte) /\ Len(bag) = bagLen
      /\ \A i \in 1..bagLen : p[i] \in Byte => bag[i] = p[i]
  <2> HIDE DEF p
  <2>1. QED
    BY <1>6, ExactReads
<1>8. got' \in Seq(Seq(Byte))
  BY <1>1, <1>3, <1>7, SMTT(30) DEF TypeOK
<1>9. BufInv(buf') /\ (Sound(buf') => Sound(buf) /\ LeftOf(buf', buf, bagLen))
  BY <1>2, <1>3, <1>5, TakenLeaves
<1>10. TypeOK'
  BY <1>2, <1>3, <1>8, <1>9 DEF TypeOK, BufInv
<1>11. BagsOK(sent', plain', ends') /\ (~dropped' => WireOK(enc', dec', wire', plain', rcvd'))
  BY <1>2, <1>3 DEF StreamInv
<1>12. ASSUME Healthy' PROVE BagsTaken' /\ LessThanABag' /\ SmallBuf(buf')
  <2>1. Healthy /\ LeftOf(buf', buf, bagLen)
    BY <1>2, <1>9, <1>12 DEF Healthy
  <2>2. /\ TakenOK(sent, plain, ends, got, TRUE, bagLen, c, rcvd)
        /\ rcvd \in 0..Len(plain) /\ SmallBuf(buf)
    BY <2>1, <1>2, HealthyFacts DEF BagsTaken
  <2>3. SmallBuf(buf')
    BY <1>3, <2>1, <2>2, StillSmall
  <2>4. Joined(c, p, Contents(buf')) /\ Contents(buf') \in Seq(Cell)
    BY <2>1 DEF LeftOf
  <2> DEFINE msg == sent[Len(got) + 1]
  <2>5. got \in Seq(Seq(Byte))
    BY <1>3 DEF TypeOK
  <2> HIDE DEF c, p
  <2>6. /\ msg \in Messages /\ Len(msg) = bagLen /\ PlainAt(msg, p, 0)
        /\ TakenOK(sent, plain, ends, Append(got, msg), FALSE, bagLen, Contents(buf'), rcvd)
    BY <1>3, <1>4, <1>6, <2>2, <2>4, <2>5, BagTaken
  <2> HIDE DEF msg
  <2>7. msg \in Seq(Byte)
    BY <2>6, BagBytes
  <2>8. \A i \in 1..bagLen : bag[i] = msg[i]
    BY <1>7, <2>6, <2>7, ElementOfSeq, SMTT(30) DEF PlainAt
  <2>9. bag = msg
    BY <1>7, <2>6, <2>7, <2>8, SMTT(30)
  <2>10. BagsTaken'
    BY <1>1, <1>2, <2>6, <2>9 DEF BagsTaken
  <2>11. QED
    BY <1>2, <2>3, <2>10 DEF LessThanABag
<1>13. BufferStaysSmall'
  BY <1>12 DEF BufferStaysSmall, SmallBuf, Most
<1>14. QED
  BY <1>9, <1>10, <1>11, <1>12, <1>13 DEF StreamInv

(* BagProcess returns.                                                     *)
LEMMA ReturnInv ==
    ASSUME StreamInv, Return
    PROVE  StreamInv'
<1>1. /\ GetBufLen(buf) < (IF bagFlag THEN bagLen ELSE 4) /\ pc' = "idle"
      /\ UNCHANGED <<enc, sent, plain, ends, wire, dec, buf, bagFlag, bagLen, got, rcvd, dropped>>
  BY DEF Return, senderVars
<1>2. TypeOK'
  BY <1>1 DEF StreamInv, TypeOK
<1>3. BufInv(buf') /\ BagsOK(sent', plain', ends')
  BY <1>1 DEF StreamInv
<1>4. ~dropped' => WireOK(enc', dec', wire', plain', rcvd')
  BY <1>1 DEF StreamInv
<1>5. Healthy' => BagsTaken' /\ LessThanABag'
  <2>1. Healthy' => Healthy
    BY <1>1 DEF Healthy
  <2>2. BagsTaken => BagsTaken'
    BY <1>1 DEF BagsTaken
  <2>3. LessThanABag'
    BY <1>1 DEF LessThanABag
  <2>4. QED
    BY <2>1, <2>2, <2>3 DEF StreamInv
<1>6. BufferStaysSmall'
  BY <1>1 DEF StreamInv, BufferStaysSmall, Healthy
<1>7. QED
  BY <1>2, <1>3, <1>4, <1>5, <1>6 DEF StreamInv

(* The sender encrypts and writes another message, whatever the receiver   *)
(* is doing.                                                               *)
LEMMA SendInv ==
    ASSUME StreamInv, Send
    PROVE  StreamInv'
<1>1. PICK msg \in Messages, random \in (IF enc.seeded THEN {0} ELSE Seeds) : WriteData(msg, random)
  BY DEF Send
<1> DEFINE e == Encrypt(enc, Bag(msg), random)
<1>2. /\ enc' = e.cipher /\ wire' = wire \o e.out /\ sent' = Append(sent, msg)
      /\ plain' = plain \o Bag(msg) /\ ends' = Append(ends, Len(plain \o Bag(msg)))
      /\ UNCHANGED <<dec, buf, bagFlag, bagLen, got, pc, rcvd, dropped>>
  BY <1>1 DEF WriteData
<1>3. TypeOK /\ BufInv(buf) /\ BagsOK(sent, plain, ends)
  BY DEF StreamInv
<1>4. ~enc.seeded => random \in Seeds
  OBVIOUS
<1>5. msg \in Seq(Byte) /\ Bag(msg) \in Seq(Byte)
  BY BagBytes
<1>6. enc \in Ciphers /\ wire \in Seq(Byte) /\ plain \in Seq(Byte) /\ got \in Seq(Seq(Byte))
  BY <1>3 DEF TypeOK
<1>7. e.cipher \in Ciphers /\ e.out \in Seq(Byte)
  BY <1>4, <1>5, <1>6, Encrypted
<1>8. BagsOK(sent', plain', ends')
  BY <1>2, <1>3, BagsExtended
<1>9. TypeOK'
  <2>1. wire' \in Seq(Byte)
    <3> HIDE DEF e
    <3>1. QED
      BY <1>2, <1>6, <1>7, SMTT(30)
  <2>2. plain' \in Seq(Byte) /\ ends' \in Seq(Nat)
    BY <1>8 DEF BagsOK, FramesOK
  <2>3. sent' \in Seq(Seq(Byte))
    BY <1>2, <1>3, <1>5, SMTT(30) DEF TypeOK
  <2>4. QED
    BY <1>2, <1>3, <1>7, <2>1, <2>2, <2>3 DEF TypeOK
<1>10. ASSUME ~dropped' PROVE WireOK(enc', dec', wire', plain', rcvd')
  <2>1. WireOK(enc, dec, wire, plain, rcvd)
    BY <1>2, <1>10 DEF StreamInv
  <2>2. WireOK(e.cipher, dec, wire \o e.out, plain \o Bag(msg), rcvd)
    BY <1>4, <1>5, <1>6, <2>1, WireExtended
  <2>3. QED
    BY <1>2, <2>2
<1>11. ASSUME Healthy' PROVE BagsTaken' /\ LessThanABag' /\ SmallBuf(buf')
  <2>1. Healthy
    BY <1>2, <1>11 DEF Healthy
  <2>2. BagsTaken /\ LessThanABag /\ SmallBuf(buf) /\ rcvd \in 0..Len(plain)
    BY <2>1, HealthyFacts
  <2>3. Contents(buf) \in Seq(Cell) /\ bagFlag \in BOOLEAN
    BY <1>3, ContentsIsSeq DEF Cell, TypeOK
  <2>4. TakenOK(Append(sent, msg), plain \o Bag(msg), Append(ends, Len(plain \o Bag(msg))), got,
                bagFlag, bagLen, Contents(buf), rcvd)
    BY <1>3, <1>6, <2>2, <2>3, TakenKept DEF BagsTaken
  <2>5. BagsTaken'
    BY <1>2, <2>4 DEF BagsTaken
  <2>6. QED
    BY <1>2, <2>2, <2>5 DEF LessThanABag
<1>12. BufferStaysSmall'
  BY <1>11 DEF BufferStaysSmall, SmallBuf, Most
<1>13. QED
  BY <1>2, <1>3, <1>8, <1>9, <1>10, <1>11, <1>12 DEF StreamInv

(* A piece of any size arrives.                                            *)
LEMMA ReceiveInv ==
    ASSUME StreamInv, Receive
    PROVE  StreamInv'
<1>1. PICK n \in 1..RecvBlock : n <= Len(wire) /\ DecryptPacket(n)
  BY DEF Receive
<1> DEFINE u == SubSeq(wire, 1, n)
           v == SubSeq(wire, n + 1, Len(wire))
           d == Decrypt(dec, u)
           o == d.out
<1>2. /\ Alive /\ pc = "idle" /\ pc' = "bags" /\ dec' = d.cipher /\ wire' = v
      /\ buf' \in (IF Len(o) > 0 THEN Inserted(buf, o) ELSE {buf})
      /\ rcvd' = rcvd + Len(o) /\ dropped' = (dropped \/ ~d.cipher.seeded)
      /\ UNCHANGED <<enc, sent, plain, ends, bagFlag, bagLen, got>>
  BY <1>1 DEF DecryptPacket, senderVars
<1>3. TypeOK /\ BufInv(buf) /\ BagsOK(sent, plain, ends) /\ buf.fault = "none"
  BY <1>2 DEF StreamInv, Alive
<1>4. /\ enc \in Ciphers /\ dec \in Ciphers /\ wire \in Seq(Byte) /\ plain \in Seq(Byte)
      /\ got \in Seq(Seq(Byte)) /\ rcvd \in Nat /\ bagFlag \in BOOLEAN
  BY <1>3 DEF TypeOK
<1>5. n \in 1..Len(wire) /\ n \in 0..Len(wire) /\ n \in Nat
  BY <1>1, <1>4, StreamAssumption, SMTT(30)
<1>6. u \in Seq(Byte) /\ Len(u) = n /\ v \in Seq(Byte)
  BY <1>4, <1>5, SplitAt
<1>7. d.cipher \in Ciphers /\ o \in Seq(Byte) /\ Len(o) <= n
  <2> HIDE DEF u
  <2>1. QED
    BY <1>4, <1>6, Decrypted
<1>8. d.cipher.seeded \in BOOLEAN /\ Len(o) \in Nat
  BY <1>7, SMTT(30) DEF Ciphers
<1> HIDE DEF o, u, v
<1>9. BufInv(buf') /\ (Sound(buf') => Sound(buf) /\ Contents(buf') = Contents(buf) \o o)
  <2>1. CASE Len(o) > 0
    <3>1. buf' \in Inserted(buf, o)
      BY <1>2, <2>1
    <3>2. QED
      BY <1>3, <1>7, <3>1, InsertedAppends
  <2>2. CASE ~(Len(o) > 0)
    <3>1. buf' = buf /\ o = <<>>
      BY <1>2, <1>7, <1>8, <2>2, SMTT(30)
    <3>2. Contents(buf) \in Seq(Cell)
      BY <1>3, ContentsIsSeq DEF Cell
    <3>3. Contents(buf) \o o = Contents(buf)
      BY <3>1, <3>2, SMTT(30)
    <3>4. QED
      BY <1>3, <3>1, <3>3
  <2>3. QED
    BY <2>1, <2>2
<1>10. TypeOK'
  <2>1. rcvd' \in Nat /\ dropped' \in BOOLEAN
    BY <1>2, <1>4, <1>8, SMTT(30)
  <2> HIDE DEF d
  <2>2. QED
    BY <1>2, <1>3, <1>6, <1>7, <1>9, <2>1 DEF TypeOK, BufInv
<1>11. BagsOK(sent', plain', ends')
  BY <1>2, <1>3
<1>12. ASSUME ~dropped'
       PROVE  /\ ~dropped /\ WireOK(enc, dec, wire, plain, rcvd)
              /\ WireOK(enc', dec', wire', plain', rcvd') /\ PlainAt(o, plain, rcvd)
  <2>1. ~dropped /\ d.cipher.seeded
    BY <1>2, <1>12
  <2>2. WireOK(enc, dec, wire, plain, rcvd)
    BY <2>1 DEF StreamInv
  <2>3. WireOK(enc, d.cipher, v, plain, rcvd + Len(o)) /\ PlainAt(o, plain, rcvd)
    BY <1>4, <1>5, <2>1, <2>2, WireTaken DEF u, v, o
  <2>4. QED
    BY <1>2, <2>1, <2>2, <2>3
<1>13. ASSUME Healthy' PROVE BagsTaken' /\ LessThanABag' /\ SmallBuf(buf')
  <2>1. Healthy /\ PlainAt(o, plain, rcvd) /\ Contents(buf') = Contents(buf) \o o
    BY <1>9, <1>12, <1>13 DEF Healthy
  <2>2. BagsTaken /\ LessThanABag /\ SmallBuf(buf) /\ rcvd \in 0..Len(plain)
    BY <2>1, HealthyFacts
  <2>3. /\ Contents(buf) \in Seq(Cell) /\ Len(Contents(buf)) = GetBufLen(buf)
        /\ Len(Contents(buf')) = GetBufLen(buf')
    BY <1>3, <1>9, ContentsIsSeq DEF Cell, GetBufLen
  <2>4. TakenOK(sent, plain, ends, got, bagFlag, bagLen, Contents(buf) \o o, rcvd + Len(o))
    BY <1>3, <1>4, <1>7, <2>1, <2>2, <2>3, TakenMore DEF BagsTaken
  <2>5. BagsTaken'
    BY <1>2, <2>1, <2>4 DEF BagsTaken
  <2>6. GetBufLen(buf') = GetBufLen(buf) + Len(o) /\ GetBufLen(buf) \in Nat
    <3>1. o \in Seq(Cell)
      BY <1>7, SMTT(30) DEF Cell
    <3>2. Joined(Contents(buf) \o o, Contents(buf), o)
      BY <2>3, <3>1, ConcatAt
    <3>3. QED
      BY <2>1, <2>3, <3>2, SMTT(30) DEF Joined
  <2>7. GetBufLen(buf) < (IF MaxMsgLen > 4 THEN MaxMsgLen ELSE 4)
    <3>1. GetBufLen(buf) < IF bagFlag THEN bagLen ELSE 4
      BY <1>2, <2>2 DEF LessThanABag
    <3>2. CASE ~bagFlag
      BY <2>6, <3>1, <3>2, StreamAssumption, IntValuesNat, SMTT(30)
    <3>3. CASE bagFlag
      <4>1. /\ Len(got) < Len(sent) /\ bagLen = Len(sent[Len(got) + 1])
            /\ Len(got) \in Nat /\ Len(sent) \in Nat
        BY <1>3, <2>2, <3>3, SMTT(30) DEF BagsTaken, TakenOK, TypeOK
      <4>2. sent[Len(got) + 1] \in Messages
        BY <1>3, <4>1, NextBag
      <4>3. bagLen \in 0..MaxMsgLen
        BY <4>1, <4>2, BagBytes
      <4>4. GetBufLen(buf) < bagLen
        BY <3>1, <3>3
      <4>5. QED
        BY <2>6, <4>3, <4>4, StreamAssumption, IntValuesNat, SMTT(30)
    <3>4. QED
      BY <3>2, <3>3
  <2>8. SmallBuf(buf')
    <3> DEFINE w == IF MaxMsgLen > 4 THEN MaxMsgLen ELSE 4
    <3>1. w \in Nat /\ RecvBlock \in Nat /\ Most = RecvBlock + w - 1
      BY StreamAssumption, IntValuesNat, SMTT(30) DEF Most
    <3>2. buf'.bufsize = buf.bufsize \/ buf'.bufsize < 2 * (GetBufLen(buf) + Len(o))
      <4>1. CASE Len(o) > 0
        <5>1. buf' \in Inserted(buf, o)
          BY <1>2, <4>1
        <5>2. QED
          BY <1>3, <1>7, <5>1, InsertedSize
      <4>2. CASE ~(Len(o) > 0)
        BY <1>2, <4>2
      <4>3. QED
        BY <4>1, <4>2
    <3>3. buf.bufsize = BufSize \/ buf.bufsize < 2 * Most
      BY <2>2 DEF SmallBuf
    <3>4. buf'.bufsize \in Nat
      BY <1>9, SMTT(30) DEF BufInv, Buffer
    <3> HIDE DEF w
    <3>5. GetBufLen(buf) + Len(o) <= Most /\ Most \in Nat /\ GetBufLen(buf) + Len(o) \in Nat
      BY <1>1, <1>7, <1>8, <2>6, <2>7, <3>1, SMTT(30) DEF w
    <3>6. buf'.bufsize = buf.bufsize \/ buf'.bufsize < 2 * Most
      BY <3>2, <3>4, <3>5, SMTT(30)
    <3>7. QED
      BY <2>6, <3>3, <3>5, <3>6 DEF SmallBuf
  <2>9. QED
    BY <1>2, <2>5, <2>8 DEF LessThanABag
<1>14. BufferStaysSmall'
  BY <1>13 DEF BufferStaysSmall, SmallBuf, Most
<1>15. QED
  BY <1>9, <1>10, <1>11, <1>12, <1>13, <1>14 DEF StreamInv

(* Both ends of a new connection are in step: nothing was sent or          *)
(* received.                                                               *)
LEMMA InitInv == Init => StreamInv
<1>1. SUFFICES ASSUME Init PROVE StreamInv
  OBVIOUS
<1>2. /\ enc = NewCipher /\ dec = NewCipher /\ sent = <<>> /\ plain = <<>> /\ ends = <<>>
      /\ wire = <<>> /\ buf \in NewBuf /\ bagFlag = FALSE /\ bagLen = 0
      /\ got = <<>> /\ pc = "idle" /\ rcvd = 0 /\ dropped = FALSE
  BY <1>1 DEF Init
<1>3. NewCipher \in Ciphers /\ NewCipher.seeded = FALSE
  <2>1. 0 \in Byte /\ 0 \in 0..(DicSize - 1)
    BY CipherAssumption, SMTT(30) DEF Byte
  <2>2. [i \in 0..(DicSize - 1) |-> 0] \in [0..(DicSize - 1) -> Byte]
    BY <2>1
  <2>3. QED
    BY <2>1, <2>2 DEF NewCipher, Ciphers
<1>4. BufInv(buf) /\ buf.head = 0 /\ buf.tail = 0 /\ buf.bufsize = BufSize
  <2>1. PICK null \in BOOLEAN :
          buf = [bufsize |-> BufSize, alloc |-> IF null THEN 0 ELSE BufSize, null |-> null,
                 mem |-> NoBytes, head |-> 0, tail |-> 0, failed |-> null,
                 overrun |-> FALSE, fault |-> "none"]
    BY <1>2 DEF NewBuf
  <2>2. NoBytes \in [Cells -> Byte \cup {Junk}] /\ MaxInt \in Nat
    BY DEF NoBytes
  <2>3. buf \in Buffer
    <3>1. (IF null THEN 0 ELSE BufSize) \in 0..MaxInt /\ BufSize \in 1..MaxInt /\ 0 \in 0..MaxInt
      BY <2>2, BufAssumption, SMTT(30)
    <3>2. QED
      BY <2>1, <2>2, <3>1 DEF Buffer
  <2>4. /\ buf.null => buf.failed
        /\ buf.head = 0 /\ buf.tail = 0 /\ buf.bufsize = BufSize /\ buf.fault = "none"
    BY <2>1
  <2>5. buf.alloc \in 0..BufSize
    BY <2>1, BufAssumption, SMTT(30)
  <2>6. QED
    BY <2>2, <2>3, <2>4, <2>5, BufAssumption, SMTT(30) DEF BufInv
<1>5. TypeOK
  <2>1. /\ sent \in Seq(Seq(Byte)) /\ got \in Seq(Seq(Byte)) /\ plain \in Seq(Byte)
        /\ ends \in Seq(Nat) /\ wire \in Seq(Byte)
    BY <1>2, SMTT(30)
  <2>2. QED
    BY <1>2, <1>3, <1>4, <2>1 DEF TypeOK, BufInv
<1>6. BagsOK(sent, plain, ends)
  BY <1>2, SMTT(30) DEF BagsOK, FramesOK, End
<1>7. WireOK(enc, dec, wire, plain, rcvd)
  BY <1>2, <1>3, SMTT(30) DEF WireOK
<1>8. GetBufLen(buf) = 0
  BY <1>4, SMTT(30) DEF GetBufLen
<1>9. BagsTaken
  <2>1. Len(Contents(buf)) = 0
    BY <1>4, ContentsIsSeq, SMTT(30)
  <2>2. Used(ends, got, bagFlag) = 0
    BY <1>2, SMTT(30) DEF Used, End
  <2>3. QED
    BY <1>2, <2>1, <2>2, SMTT(30) DEF BagsTaken, TakenOK
<1>10. LessThanABag
  BY <1>2, <1>8, SMTT(30) DEF LessThanABag
<1>11. BufferStaysSmall
  BY <1>4, <1>8, StreamAssumption, IntValuesNat, SMTT(30) DEF BufferStaysSmall
<1>12. QED
  BY <1>4, <1>5, <1>6, <1>7, <1>9, <1>10, <1>11 DEF StreamInv

(* Every step of the two ends and of the wire keeps them in step.          *)
LEMMA StepInv == StreamInv /\ [Next]_vars => StreamInv'
<1>1. SUFFICES ASSUME StreamInv, [Next]_vars PROVE StreamInv'
  OBVIOUS
<1>2. CASE UNCHANGED vars
  BY <1>1, <1>2 DEF vars, senderVars, StreamInv, TypeOK, BagsTaken, LessThanABag, BufferStaysSmall,
                    Healthy
<1>3. CASE TakeLength
  BY <1>1, <1>3, TakeLengthInv
<1>4. CASE TakeBag
  BY <1>1, <1>4, TakeBagInv
<1>5. CASE Return
  BY <1>1, <1>5, ReturnInv
<1>6. CASE Send
  BY <1>1, <1>6, SendInv
<1>7. CASE Receive
  BY <1>1, <1>7, ReceiveInv
<1>8. QED
  BY <1>1, <1>2, <1>3, <1>4, <1>5, <1>6, <1>7 DEF Next, BagProcess

(* The inductive invariant of the stream.                                  *)
LEMMA StreamInvariant == Spec => []StreamInv
  BY InitInv, StepInv, PTL DEF Spec

(* The variables keep their types whatever malloc, realloc and the wire    *)
(* do; in particular the length taken from the stream is never negative.   *)
THEOREM StreamTypeOK == Spec => []TypeOK
<1>1. StreamInv => TypeOK
  BY DEF StreamInv
<1>2. QED
  BY <1>1, StreamInvariant, PTL

(* What BagProcess hands on is what EncryptPacket was given, in order, for *)
(* every set of messages and every way of cutting the stream.              *)
THEOREM StreamDelivers == Spec => []DeliveredPrefix
<1>1. StreamInv => DeliveredPrefix
  <2>1. SUFFICES ASSUME StreamInv, Healthy
                 PROVE  got = SubSeq(sent, 1, Len(got)) /\ Len(got) <= Len(sent)
    BY DEF DeliveredPrefix
  <2>2. /\ got \in Seq(Seq(Byte)) /\ sent \in Seq(Seq(Byte))
        /\ Len(got) \in Nat /\ Len(sent) \in Nat
    BY <2>1, SMTT(30) DEF StreamInv, TypeOK
  <2>3. Len(got) <= Len(sent) /\ \A k \in 1..Len(got) : got[k] = sent[k]
    BY <2>1, HealthyFacts DEF BagsTaken, TakenOK
  <2>4. Len(got) \in 0..Len(sent)
    BY <2>2, <2>3, SMTT(30)
  <2> DEFINE p == SubSeq(sent, 1, Len(got))
  <2>5. /\ p \in Seq(Seq(Byte)) /\ Len(p) = Len(got)
        /\ Joined(sent, p, SubSeq(sent, Len(got) + 1, Len(sent)))
    BY <2>2, <2>4, SplitAt
  <2> HIDE DEF p
  <2>6. \A k \in 1..Len(got) : got[k] = p[k]
    BY <2>3, <2>5 DEF Joined
  <2>7. got = p
    <3>1. Len(got) = Len(p)
      BY <2>5
    <3>2. QED
      BY <2>2, <2>5, <2>6, <3>1, SameSeq
  <2>8. QED
    BY <2>3, <2>7 DEF p
<1>2. QED
  BY <1>1, StreamInvariant, PTL

(* As long as memory and seed are whole, the receive buffer holds the      *)
(* bytes that were decrypted and not yet used, and Decrypt goes on with    *)
(* the key byte that Encrypt used for the next one, however the stream was *)
(* cut.                                                                    *)
THEOREM StreamInStep == Spec => []InStep
<1>1. StreamInv => InStep
  <2>1. SUFFICES ASSUME StreamInv, Healthy
                 PROVE  /\ Contents(buf) = SubSeq(plain, Consumed + 1, rcvd)
                        /\ bagFlag => bagLen = Len(sent[Len(got) + 1])
                        /\ dec.seeded => /\ dec.dic = enc.dic
                                         /\ (dec.dic_i + Len(wire)) % DicSize = enc.dic_i
    BY DEF InStep
  <2> DEFINE c == Contents(buf)
             q == Consumed
             p == SubSeq(plain, q + 1, rcvd)
  <2>2. /\ TypeOK /\ BufInv(buf) /\ BagsOK(sent, plain, ends)
        /\ WireOK(enc, dec, wire, plain, rcvd) /\ BagsTaken
    BY <2>1, HealthyFacts DEF StreamInv
  <2>3. /\ got \in Seq(Seq(Byte)) /\ plain \in Seq(Byte) /\ wire \in Seq(Byte)
        /\ Len(got) \in Nat /\ Len(plain) \in Nat /\ Len(wire) \in Nat /\ rcvd \in Nat
        /\ rcvd \in 0..Len(plain) /\ Len(sent) \in Nat
    <3>1. got \in Seq(Seq(Byte)) /\ wire \in Seq(Byte)
      BY <2>2 DEF TypeOK
    <3>2. plain \in Seq(Byte) /\ sent \in Seq(Messages)
      BY <2>2 DEF BagsOK, FramesOK
    <3>3. rcvd \in 0..Len(plain)
      BY <2>2 DEF WireOK
    <3>4. QED
      BY <3>1, <3>2, <3>3, SMTT(30)
  <2>4. /\ Len(got) <= Len(sent)
        /\ bagFlag => bagLen = Len(sent[Len(got) + 1])
        /\ Len(c) = rcvd - Used(ends, got, bagFlag)
        /\ \A i \in 1..Len(c) : c[i] = plain[Used(ends, got, bagFlag) + i]
    BY <2>2 DEF BagsTaken, TakenOK
  <2>5. q = Used(ends, got, bagFlag) /\ q \in Nat
    <3>1. Len(got) \in 0..Len(sent)
      <4>1. Len(got) \in Nat /\ Len(sent) \in Nat /\ Len(got) <= Len(sent)
        BY <2>3, <2>4
      <4>2. QED
        BY <4>1, SMTT(30)
    <3>2. Used(ends, got, bagFlag) \in Nat
      BY <2>2, <3>1, UsedNat
    <3>3. (got = <<>>) = (Len(got) = 0)
      BY <2>3, SMTT(30)
    <3>4. QED
      BY <3>2, <3>3 DEF Consumed, Used, End
  <2>6. c \in Seq(Cell) /\ Len(c) \in Nat
    BY <2>2, ContentsIsSeq, SMTT(30) DEF Cell
  <2> HIDE DEF c, q
  <2>7. Len(c) = rcvd - q /\ \A i \in 1..Len(c) : c[i] = plain[q + i]
    BY <2>4, <2>5
  <2>8. q <= rcvd /\ rcvd <= Len(plain)
    BY <2>3, <2>5, <2>6, <2>7, SMTT(30)
  <2>9. p \in Seq(Byte) /\ Piece(p, plain, q, rcvd)
    BY <2>3, <2>5, <2>8, PieceOf
  <2>10. Len(p) = rcvd - q /\ \A i \in 1..(rcvd - q) : p[i] = plain[q + i]
    <3> HIDE DEF p
    <3>1. QED
      BY <2>9 DEF Piece
  <2>11. c = p
    <3> HIDE DEF p
    <3>1. QED
      BY <2>6, <2>7, <2>9, <2>10, SMTT(30)
  <2>12. ASSUME dec.seeded
         PROVE  dec.dic = enc.dic /\ (dec.dic_i + Len(wire)) % DicSize = enc.dic_i
    <3>1. dec.dic = enc.dic /\ dec.dic_i = rcvd % DicSize /\ RestAt(enc, wire, 0, plain, rcvd)
      BY <2>2, <2>12 DEF WireOK
    <3>2. enc.seeded /\ enc.dic_i = Len(plain) % DicSize
      <4>1. enc.seeded
        BY <2>2, <2>12 DEF WireOK
      <4>2. QED
        BY <2>2, <4>1 DEF WireOK
    <3>3. Len(wire) = 0 + Len(plain) - rcvd
      BY <3>1 DEF RestAt
    <3>4. rcvd + Len(wire) = Len(plain)
      BY <2>3, <3>3, SMTT(30)
    <3>5. ((rcvd % DicSize) + Len(wire)) % DicSize = (rcvd + Len(wire)) % DicSize
      BY <2>3, ModAdd
    <3>6. QED
      BY <3>1, <3>2, <3>4, <3>5
  <2>13. bagFlag => bagLen = Len(sent[Len(got) + 1])
    BY <2>4
  <2>14. QED
    BY <2>11, <2>12, <2>13 DEF c, p, q
<1>2. QED
  BY <1>1, StreamInvariant, PTL

(* What the loop of BagProcess leaves in the receive buffer is less than a *)
(* bag, so the capacity _BufSize is bounded by the largest message and the *)
(* size of a read, however long the stream is.                             *)
THEOREM StreamStaysSmall == Spec => []BufferStaysSmall
<1>1. StreamInv => BufferStaysSmall
  BY DEF StreamInv
<1>2. QED
  BY <1>1, StreamInvariant, PTL

(* Once memory ran out or the seed was lost, no step makes the connection  *)
(* whole again.                                                            *)
LEMMA BrokenForGood ==
    ASSUME StreamInv, [Next]_vars, Healthy'
    PROVE  Healthy
<1>1. TypeOK /\ BufInv(buf)
  BY DEF StreamInv
<1>2. CASE UNCHANGED <<buf, dropped>>
  BY <1>2 DEF Healthy
<1>3. CASE TakeLength
  <2>1. buf' = Taken(4) /\ ~(GetBufLen(buf) < 4) /\ dropped' = dropped
    BY <1>3 DEF TakeLength
  <2>2. GetBufLen(buf) \in Int
    BY <1>1, SMTT(30) DEF BufInv, Buffer, GetBufLen
  <2>3. 4 \in Nat /\ 4 <= GetBufLen(buf)
    BY <2>1, <2>2, SMTT(30)
  <2>4. Sound(Taken(4)) => Sound(buf)
    BY <1>1, <2>3, TakenLeaves
  <2>5. QED
    BY <2>1, <2>4 DEF Healthy
<1>4. CASE TakeBag
  <2>1. buf' = Taken(bagLen) /\ ~(GetBufLen(buf) < bagLen) /\ dropped' = dropped
    BY <1>4 DEF TakeBag
  <2>2. GetBufLen(buf) \in Int /\ bagLen \in Nat
    BY <1>1, SMTT(30) DEF BufInv, Buffer, GetBufLen, TypeOK
  <2>3. bagLen <= GetBufLen(buf)
    BY <2>1, <2>2, SMTT(30)
  <2>4. Sound(Taken(bagLen)) => Sound(buf)
    BY <1>1, <2>2, <2>3, TakenLeaves
  <2>5. QED
    BY <2>1, <2>4 DEF Healthy
<1>5. CASE Receive
  <2>1. PICK n \in 1..RecvBlock : n <= Len(wire) /\ DecryptPacket(n)
    BY <1>5 DEF Receive
  <2> DEFINE u == SubSeq(wire, 1, n)
             d == Decrypt(dec, u)
             o == d.out
  <2>2. /\ buf' \in (IF Len(o) > 0 THEN Inserted(buf, o) ELSE {buf})
        /\ dropped' = (dropped \/ ~d.cipher.seeded) /\ buf.fault = "none"
    BY <2>1 DEF DecryptPacket, Alive
  <2>3. wire \in Seq(Byte) /\ dec \in Ciphers /\ n \in 0..Len(wire)
    BY <1>1, <2>1, StreamAssumption, SMTT(30) DEF TypeOK
  <2>4. u \in Seq(Byte)
    BY <2>3, SplitAt
  <2>5. o \in Seq(Byte)
    <3> HIDE DEF u
    <3>1. QED
      BY <2>3, <2>4, Decrypted
  <2> HIDE DEF o
  <2>6. Sound(buf') => Sound(buf)
    <3>1. CASE Len(o) > 0
      <4>1. buf' \in Inserted(buf, o)
        BY <2>2, <3>1
      <4>2. QED
        BY <1>1, <2>2, <2>5, <4>1, InsertedAppends
    <3>2. CASE ~(Len(o) > 0)
      BY <2>2, <3>2
    <3>3. QED
      BY <3>1, <3>2
  <2>7. ~dropped' => ~dropped
    BY <2>2
  <2>8. QED
    BY <2>6, <2>7 DEF Healthy
<1>6. CASE Return
  BY <1>2, <1>6 DEF Return
<1>7. CASE Send
  <2>1. UNCHANGED <<buf, dropped>>
    BY <1>7 DEF Send, WriteData
  <2>2. QED
    BY <1>2, <2>1
<1>8. CASE UNCHANGED vars
  BY <1>2, <1>8 DEF vars
<1>9. QED
  BY <1>3, <1>4, <1>5, <1>6, <1>7, <1>8 DEF Next, BagProcess

(* The bag BagProcess hands on is the oldest message not yet handed on.    *)
LEMMA BagIsNext ==
    ASSUME StreamInv, StreamInv', TakeBag, Healthy'
    PROVE  Channel!Take
<1>1. PICK bag : got' = Append(got, bag)
  BY DEF TakeBag
<1>2. sent' = sent
  BY DEF TakeBag, senderVars
<1>3. got \in Seq(Seq(Byte)) /\ got' \in Seq(Seq(Byte)) /\ sent \in Seq(Seq(Byte))
  BY DEF StreamInv, TypeOK
<1>4. Len(got') <= Len(sent') /\ \A k \in 1..Len(got') : got'[k] = sent'[k]
  BY DEF StreamInv, BagsTaken, TakenOK
<1>5. Len(got') = Len(got) + 1 /\ Len(got) \in Nat /\ Len(sent) \in Nat
  BY <1>1, <1>3, SMTT(30)
<1>6. got'[Len(got) + 1] = bag
  BY <1>1, <1>3, SMTT(30)
<1>7. bag = sent[Len(got) + 1] /\ Len(got) < Len(sent)
  BY <1>2, <1>4, <1>5, <1>6, SMTT(30)
<1>8. QED
  BY <1>1, <1>2, <1>7 DEF Channel!Take

(* The two ends with the stream between them are a channel of messages:    *)
(* each step of EncryptPacket, of DecryptPacket and of the loop of         *)
(* BagProcess puts a message in, takes the next one out or changes         *)
(* nothing, for every set of messages and every way of cutting the stream, *)
(* until memory runs out or the seed is lost.                              *)
THEOREM StreamIsChannel == Spec => ChannelSpec
<1>1. Init => Channel!Init
  <2>1. SUFFICES ASSUME Init PROVE Channel!Init
    OBVIOUS
  <2>2. sent = <<>> /\ got = <<>>
    BY <2>1 DEF Init
  <2>3. Healthy \in BOOLEAN
    BY DEF Healthy, Sound
  <2>4. QED
    BY <2>2, <2>3 DEF Channel!Init
<1>2. StreamInv /\ StreamInv' /\ [Next]_vars => [Channel!Next]_(Channel!vars)
  <2>1. SUFFICES ASSUME StreamInv, StreamInv', [Next]_vars
                 PROVE  [Channel!Next]_(Channel!vars)
    OBVIOUS
  <2>2. CASE ~Healthy'
    BY <2>2 DEF Channel!Next
  <2>3. CASE Healthy'
    <3>1. Healthy
      BY <2>1, <2>3, BrokenForGood
    <3>2. Healthy' = Healthy
      BY <2>3, <3>1 DEF Healthy
    <3>3. CASE UNCHANGED <<sent, got>>
      BY <3>2, <3>3 DEF Channel!vars
    <3>4. CASE TakeBag
      BY <2>1, <2>3, <3>1, <3>4, BagIsNext DEF Channel!Next
    <3>5. CASE Send
      <4>1. Channel!Put
        BY <3>5 DEF Send, WriteData, Channel!Put
      <4>2. QED
        BY <2>3, <3>1, <4>1 DEF Channel!Next
    <3>6. CASE Receive
      BY <3>3, <3>6 DEF Receive, DecryptPacket, senderVars
    <3>7. CASE TakeLength
      BY <3>3, <3>7 DEF TakeLength, senderVars
    <3>8. CASE Return
      BY <3>3, <3>8 DEF Return, senderVars
    <3>9. CASE UNCHANGED vars
      BY <3>3, <3>9 DEF vars, senderVars
    <3>10. QED
      BY <2>1, <3>4, <3>5, <3>6, <3>7, <3>8, <3>9 DEF Next, BagProcess
  <2>4. QED
    BY <2>2, <2>3
<1>3. QED
  BY <1>1, <1>2, StreamInvariant, PTL DEF Spec, ChannelSpec, Channel!Spec
=============================================================================
