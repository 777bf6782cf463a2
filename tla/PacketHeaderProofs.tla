------------------------- MODULE PacketHeaderProofs -------------------------
(***************************************************************************)
(* The older packet layer, for every byte size, buffer capacity, number of *)
(* descriptors and set of messages, and every way of cutting the streams.  *)
(***************************************************************************)
EXTENDS PacketHeader, MyBufOpsProofs, FiniteSetTheorems

\* Leaves are for Zenon; the ones with arithmetic or functions cite SMT.
USE WordAssumption, BufAssumption, ZenonT(30)

Cell == Byte \cup {Junk}

-----------------------------------------------------------------------------
(* The bodies sent, one behind the other.                                  *)

\* all are the bodies of msgs, message by message.
BodySteps(all, msgs) ==
    /\ all \in [0..Len(msgs) -> Seq(Byte)] /\ all[0] = <<>>
    /\ \A n \in 1..Len(msgs) : all[n] = all[n - 1] \o msgs[n]

(* What Bodies is, step by step.                                           *)
LEMMA BodyEquations ==
    ASSUME NEW msgs \in Seq(Sendable)
    PROVE  BodySteps(Bodies(msgs), msgs)
<1> DEFINE L == Len(msgs)
           X == Seq(Byte)
           Then(s, n) == s \o msgs[n]
           step == [n \in 1..L |-> [s \in X |-> Then(s, n)]]
           Eqn(g) == g = [n \in 0..L |-> IF n = 0 THEN <<>> ELSE Then(g[n - 1], n)]
           q == Bodies(msgs)
<1>1. L \in Nat
  BY SMTT(30)
<1>2. q = CHOOSE h : Eqn(h)
  BY DEF Bodies
<1>3. ASSUME NEW n \in 1..L, NEW s \in X PROVE Then(s, n) \in X
  <2>1. msgs[n] \in Sendable
    BY <1>1, ElementOfSeq
  <2>2. msgs[n] \in Seq(Byte)
    BY <2>1, FrameBytes
  <2>3. QED
    BY <2>2, ConcatAt
<1>4. <<>> \in X
  BY SMTT(30)
<1> HIDE DEF L, X, Then, q
<1>5. step \in [1..L -> [X -> X]]
  BY <1>3
<1>6. PICK g \in [0..L -> X] : Iterates(g, L, <<>>, step)
  <2> HIDE DEF step
  <2>1. QED
    BY <1>1, <1>4, <1>5, PrimitiveRecursion
<1>7. ASSUME NEW n \in 1..L PROVE g[n] = Then(g[n - 1], n)
  <2>1. g[n - 1] \in X
    BY <1>1, SMTT(30)
  <2>2. QED
    BY <1>6, <2>1 DEF Iterates
<1>8. Eqn(g)
  <2>1. \A n \in 0..L : g[n] = IF n = 0 THEN <<>> ELSE Then(g[n - 1], n)
    BY <1>1, <1>6, <1>7, SMTT(30) DEF Iterates
  <2>2. QED
    BY <2>1
<1>9. Eqn(q)
  <2> HIDE DEF Eqn
  <2>1. QED
    BY <1>2, <1>8
<1>10. q[0] = <<>> /\ \A n \in 1..L : q[n] = Then(q[n - 1], n)
  BY <1>9, <1>1, SMTT(30)
<1>11. \A n \in 0..L : q[n] = g[n]
  <2> DEFINE S == {n \in 0..L : q[n] = g[n]}
  <2>1. 0 \in S
    BY <1>1, <1>6, <1>10, SMTT(30) DEF Iterates
  <2>2. \A n \in 1..L : n - 1 \in S => n \in S
    BY <1>7, <1>10, <1>1, SMTT(30)
  <2>3. \A n \in 0..L : n \in S
    <3> HIDE DEF S
    <3>1. QED
      BY <2>1, <2>2, <1>1, UpToInduction
  <2>4. QED
    BY <2>3
<1>12. q \in [0..L -> X]
  BY <1>9, <1>11
<1>13. QED
  BY <1>10, <1>12 DEF q, L, X, Then, BodySteps

(* Another message leaves the bodies before it as they are (WriteData).    *)
LEMMA BodiesKept ==
    ASSUME NEW msgs \in Seq(Sendable), NEW msg \in Sendable, NEW n \in 0..Len(msgs)
    PROVE  Bodies(Append(msgs, msg))[n] = Bodies(msgs)[n]
<1> DEFINE msgs2 == Append(msgs, msg)
           L == Len(msgs)
           a == Bodies(msgs)
           b == Bodies(msgs2)
           S == {k \in 0..L : b[k] = a[k]}
<1>1. /\ L \in Nat /\ msgs2 \in Seq(Sendable) /\ Len(msgs2) = L + 1
      /\ \A k \in 1..L : msgs2[k] = msgs[k]
  BY SMTT(30)
<1> HIDE DEF msgs2
<1>2. BodySteps(a, msgs) /\ BodySteps(b, msgs2)
  BY <1>1, BodyEquations
<1> HIDE DEF a, b
<1>3. 0 \in S
  BY <1>1, <1>2, SMTT(30) DEF BodySteps
<1>4. ASSUME NEW k \in 1..L, k - 1 \in S PROVE k \in S
  <2>1. b[k - 1] = a[k - 1] /\ k \in 0..L /\ k \in 1..Len(msgs2)
    BY <1>1, <1>4, SMTT(30)
  <2>2. a[k] = a[k - 1] \o msgs[k] /\ b[k] = b[k - 1] \o msgs2[k]
    BY <1>2, <2>1 DEF BodySteps, L
  <2>3. QED
    BY <1>1, <2>1, <2>2
<1>5. \A k \in 0..L : k \in S
  <2> HIDE DEF S, L
  <2>1. QED
    BY <1>1, <1>3, <1>4, UpToInduction
<1>6. QED
  BY <1>5 DEF a, b, msgs2

-----------------------------------------------------------------------------
(* The stream and how far it has been read.                                *)

\* rest is what is left of a stream behind its first n bytes.
Remains(rest, bytes, n) == Len(rest) = Len(bytes) - n /\ PlainAt(rest, bytes, n)

\* The order in which three sequences are joined makes no difference.
Associative(s, t, u) == (s \o t) \o u = s \o (t \o u)

(* Three sequences of bytes, one behind the other.                         *)
LEMMA Regrouped ==
    ASSUME NEW s \in Seq(Byte), NEW t \in Seq(Byte), NEW u \in Seq(Byte)
    PROVE  Associative(s, t, u)
  BY ConcatAssociative, SMTT(30) DEF Associative

(* Bytes written to a stream are behind what is left of it (WriteData).    *)
LEMMA RemainsMore ==
    ASSUME NEW bytes \in Seq(Byte), NEW rest \in Seq(Byte), NEW n \in Nat,
           Remains(rest, bytes, n), NEW f \in Seq(Byte)
    PROVE  Remains(rest \o f, bytes \o f, n)
<1> DEFINE r2 == rest \o f
           b2 == bytes \o f
           l == Len(rest)
           m == Len(bytes)
<1>1. Joined(r2, rest, f) /\ Joined(b2, bytes, f)
  BY ConcatAt
<1>2. l \in Nat /\ m \in Nat /\ Len(f) \in Nat
  BY SMTT(30)
<1>3. l = m - n /\ \A i \in 1..l : rest[i] = bytes[n + i]
  BY DEF Remains, PlainAt
<1> HIDE DEF r2, b2
<1>4. Len(r2) = l + Len(f) /\ Len(b2) = m + Len(f)
  BY <1>1 DEF Joined
<1>5. ASSUME NEW i \in 1..Len(r2) PROVE r2[i] = b2[n + i]
  <2>1. CASE i <= l
    <3>1. i \in 1..l /\ n + i \in 1..m
      <4> HIDE DEF l, m
      <4>1. QED
        BY <1>2, <1>3, <1>4, <2>1, SMTT(30)
    <3>2. r2[i] = rest[i] /\ b2[n + i] = bytes[n + i]
      BY <1>1, <3>1 DEF Joined
    <3>3. QED
      BY <1>3, <3>1, <3>2
  <2>2. CASE ~(i <= l)
    <3> DEFINE k == i - l
    <3>1. k \in 1..Len(f) /\ i = l + k /\ n + i = m + k
      <4> DEFINE g == Len(f)
                 x == Len(r2)
      <4>1. l \in Nat /\ m \in Nat /\ g \in Nat /\ l = m - n /\ x = l + g /\ i \in 1..x
        BY <1>2, <1>3, <1>4
      <4> HIDE DEF l, m, g, x
      <4>2. k \in 1..g /\ i = l + k /\ n + i = m + k
        BY <2>2, <4>1, SMTT(30)
      <4>3. QED
        BY <4>2 DEF g
    <3> HIDE DEF k
    <3>2. r2[l + k] = f[k] /\ b2[m + k] = f[k]
      BY <1>1, <3>1 DEF Joined
    <3>3. QED
      BY <3>1, <3>2
  <2>3. QED
    BY <2>1, <2>2
<1>6. Len(r2) = Len(b2) - n
  <2> HIDE DEF l, m
  <2>1. QED
    BY <1>2, <1>3, <1>4, SMTT(30)
<1>7. QED
  BY <1>5, <1>6 DEF Remains, PlainAt, r2, b2

(* Bytes read from a stream are the next ones of it (ReadOnceData).        *)
LEMMA RemainsLess ==
    ASSUME NEW bytes \in Seq(Byte), NEW rest \in Seq(Byte), NEW n \in Nat,
           Remains(rest, bytes, n), NEW p \in Seq(Byte), NEW rest2 \in Seq(Byte),
           Joined(rest, p, rest2)
    PROVE  Remains(rest2, bytes, n + Len(p)) /\ PlainAt(p, bytes, n)
<1> DEFINE l == Len(p)
           r == Len(rest2)
<1>1. l \in Nat /\ r \in Nat /\ Len(rest) \in Nat /\ Len(bytes) \in Nat
  BY SMTT(30)
<1>2. /\ Len(rest) = Len(bytes) - n /\ \A i \in 1..Len(rest) : rest[i] = bytes[n + i]
      /\ Len(rest) = l + r
      /\ \A i \in 1..l : rest[i] = p[i]
      /\ \A i \in 1..r : rest[l + i] = rest2[i]
  BY DEF Remains, PlainAt, Joined
<1> HIDE DEF l, r
<1>3. ASSUME NEW i \in 1..l PROVE p[i] = bytes[n + i]
  <2>1. i \in 1..Len(rest)
    BY <1>1, <1>2, SMTT(30)
  <2>2. QED
    BY <1>2, <2>1
<1>4. ASSUME NEW i \in 1..r PROVE rest2[i] = bytes[(n + l) + i]
  <2>1. l + i \in 1..Len(rest) /\ n + (l + i) = (n + l) + i
    BY <1>1, <1>2, SMTT(30)
  <2>2. QED
    BY <1>2, <2>1
<1>5. r = Len(bytes) - (n + l)
  <2> DEFINE x == Len(bytes)
             y == Len(rest)
  <2>1. x \in Nat /\ y \in Nat /\ l \in Nat /\ r \in Nat /\ y = x - n /\ y = l + r
    BY <1>1, <1>2
  <2> HIDE DEF x, y
  <2>2. r = x - (n + l)
    BY <2>1, SMTT(30)
  <2>3. QED
    BY <2>2 DEF x
<1>6. QED
  BY <1>3, <1>4, <1>5 DEF Remains, PlainAt, l, r

(* A part of a message grows by the bytes that follow it.                  *)
LEMMA PrefixGrows ==
    ASSUME NEW msg \in Seq(Byte), NEW m \in Nat, NEW p \in Seq(Byte), m + Len(p) <= Len(msg),
           PlainAt(p, msg, m)
    PROVE  /\ SubSeq(msg, 1, m) \in Seq(Byte)
           /\ SubSeq(msg, 1, m) \o p = SubSeq(msg, 1, m + Len(p))
           /\ SubSeq(msg, 1, 0) = <<>> /\ SubSeq(msg, 1, Len(msg)) = msg
<1> DEFINE l == Len(p)
           s == SubSeq(msg, 1, m)
           c == SubSeq(msg, 1, m + l)
<1>1. l \in Nat /\ Len(msg) \in Nat
  BY SMTT(30)
<1>2. m \in 0..Len(msg) /\ m + l \in 0..Len(msg) /\ m + l \in Nat
  <2> HIDE DEF l
  <2>1. m + l <= Len(msg)
    BY DEF l
  <2>2. QED
    BY <1>1, <2>1, SMTT(30)
<1>3. /\ s \in Seq(Byte) /\ Len(s) = m /\ \A i \in 1..m : s[i] = msg[i]
      /\ c \in Seq(Byte) /\ Len(c) = m + l /\ \A i \in 1..(m + l) : c[i] = msg[i]
  <2> HIDE DEF l
  <2>1. QED
    BY <1>1, <1>2, SubSeqProperties, SMTT(30)
<1>4. \A i \in 1..l : p[i] = msg[m + i]
  BY DEF PlainAt
<1> HIDE DEF l, s, c
<1>5. \A i \in 1..Len(s) : c[i] = s[i]
  BY <1>1, <1>3, SMTT(30)
<1>6. \A i \in 1..l : c[Len(s) + i] = p[i]
  BY <1>1, <1>3, <1>4, SMTT(30)
<1>7. c = s \o p
  <2>1. Len(c) = Len(s) + Len(p)
    BY <1>3 DEF l
  <2>2. QED
    BY <1>3, <1>5, <1>6, <2>1, ConcatByElements DEF l
<1>8. SubSeq(msg, 1, 0) = <<>> /\ SubSeq(msg, 1, Len(msg)) = msg
  BY SMTT(30)
<1>9. QED
  BY <1>3, <1>7, <1>8 DEF s, c, l

(* Taking m bytes of a piece in front of w leaves the rest of both.        *)
LEMMA PieceTaken ==
    ASSUME NEW a \in Seq(Byte), NEW w \in Seq(Byte), NEW m \in 0..Len(a)
    PROVE  /\ SubSeq(a, 1, m) \in Seq(Byte) /\ Len(SubSeq(a, 1, m)) = m
           /\ SubSeq(a, m + 1, Len(a)) \in Seq(Byte)
           /\ a \o w \in Seq(Byte) /\ SubSeq(a, m + 1, Len(a)) \o w \in Seq(Byte)
           /\ Joined(a \o w, SubSeq(a, 1, m), SubSeq(a, m + 1, Len(a)) \o w)
<1> DEFINE p == SubSeq(a, 1, m)
           q == SubSeq(a, m + 1, Len(a))
           r == q \o w
<1>1. p \in Seq(Byte) /\ Len(p) = m /\ q \in Seq(Byte) /\ Joined(a, p, q)
  BY SplitAt
<1> HIDE DEF p, q
<1>2. a = p \o q
  BY <1>1, ConcatByElements DEF Joined
<1>3. r \in Seq(Byte) /\ a \o w \in Seq(Byte)
  BY <1>1, ConcatAt
<1>4. a \o w = p \o r
  <2>1. Associative(p, q, w)
    BY <1>1, Regrouped
  <2>2. QED
    BY <1>2, <2>1 DEF Associative
<1> HIDE DEF r
<1>5. Joined(a \o w, p, r)
  BY <1>1, <1>3, <1>4, ConcatAt
<1>6. QED
  BY <1>1, <1>3, <1>5 DEF p, q, r

-----------------------------------------------------------------------------
(* The inductive invariant.                                                *)

\* Behind n bodies, at a header: all of the next frame is left.
AtHeader(msgs, bytes, bounds, n, nd, rest, cells) ==
    /\ nd = 4 /\ Remains(rest, bytes, End(bounds, n)) /\ cells = Bodies(msgs)[n]

\* In the body of message n + 1, nd bytes of which are left.
InBody(msgs, bytes, bounds, n, nd, rest, cells) ==
    /\ n < Len(msgs) /\ nd \in 0..Len(msgs[n + 1])
    /\ Remains(rest, bytes, End(bounds, n) + 4 + (Len(msgs[n + 1]) - nd))
    /\ cells = Bodies(msgs)[n] \o SubSeq(msgs[n + 1], 1, Len(msgs[n + 1]) - nd)

(* Of the frames of msgs, the first n are read, and of the next one what   *)
(* the status and the length needed say; the buffer holds the bodies of    *)
(* all that (ReadOnceData).                                                *)
PlacedAt(msgs, bytes, bounds, n, st, nd, rest, cells) ==
    /\ FramesOK(msgs, bytes, bounds) /\ n \in 0..Len(msgs)
    /\ st = "header" => AtHeader(msgs, bytes, bounds, n, nd, rest, cells)
    /\ st = "body" => InBody(msgs, bytes, bounds, n, nd, rest, cells)

Placed(msgs, n, st, nd, rest, cells) ==
    \E bytes, bounds : PlacedAt(msgs, bytes, bounds, n, st, nd, rest, cells)

\* What was found at the ends of bodies is what was sent.
Seen(msgs, found) ==
    Len(found) <= Len(msgs) /\ \A n \in 1..Len(found) : found[n] = Bodies(msgs)[n]

\* Types, and what the members of the object have to do with each other.
ObjectOK ==
    /\ TypeOK /\ BufInv(buf)
    /\ piece \in [vfd : 0..(IntValues - 1), bytes : Seq(Byte)]
    /\ ~reading => piece.bytes = <<>>
    /\ status = "header" => need \in 1..4 /\ (~split => need = 4)
    /\ fault = "none" => buf.fault = "none"

\* The bodies are in order if all come over descriptor v.
OrderOK(v) ==
    ~split /\ Sound(buf) =>
        /\ Seen(sent, handed)
        /\ fault = "none" =>
              Placed(sent, Len(handed), status, need, piece.bytes \o wire[v], Contents(buf))

HeaderInv == ObjectOK /\ \A v : Vfd = {v} => OrderOK(v)

-----------------------------------------------------------------------------
(* Steps of the order.                                                     *)

(* Another message (WriteData).                                            *)
LEMMA PlacedMore ==
    ASSUME NEW msgs, NEW n, NEW st, NEW nd, NEW rest \in Seq(Byte), NEW cells,
           Placed(msgs, n, st, nd, rest, cells), NEW msg \in Sendable
    PROVE  Placed(Append(msgs, msg), n, st, nd, rest \o Frame(msg), cells)
<1>1. PICK bytes, bounds : PlacedAt(msgs, bytes, bounds, n, st, nd, rest, cells)
  BY DEF Placed
<1> DEFINE f == Frame(msg)
           msgs2 == Append(msgs, msg)
           bytes2 == bytes \o f
           bounds2 == Append(bounds, Len(bytes2))
           rest2 == rest \o f
<1>2. /\ FramesOK(msgs, bytes, bounds) /\ n \in 0..Len(msgs)
      /\ st = "header" => AtHeader(msgs, bytes, bounds, n, nd, rest, cells)
      /\ st = "body" => InBody(msgs, bytes, bounds, n, nd, rest, cells)
  BY <1>1 DEF PlacedAt
<1>3. /\ msgs \in Seq(Sendable) /\ bytes \in Seq(Byte)
      /\ bounds \in Seq(Nat) /\ Len(bounds) = Len(msgs)
  BY <1>2 DEF FramesOK
<1>4. f \in Seq(Byte)
  BY FrameBytes
<1>5. bytes2 \in Seq(Byte) /\ Len(bytes2) \in Nat
  BY <1>3, <1>4, ConcatAt, SMTT(30)
<1>6. FramesOK(msgs2, bytes2, bounds2)
  BY <1>2, FramesExtended
<1>7. Bodies(msgs2)[n] = Bodies(msgs)[n]
  BY <1>2, <1>3, BodiesKept
<1>8. End(bounds2, n) = End(bounds, n) /\ End(bounds, n) \in Nat
  <2>1. n \in 0..Len(bounds)
    BY <1>2, <1>3
  <2>2. QED
    BY <1>3, <1>5, <2>1, EndKept
<1>9. /\ Len(msgs) \in Nat /\ n \in Nat /\ Len(msgs2) = Len(msgs) + 1
      /\ n < Len(msgs) => msgs2[n + 1] = msgs[n + 1] /\ n + 1 \in 1..Len(msgs)
  BY <1>2, <1>3, SMTT(30)
<1> HIDE DEF f, msgs2, bytes2, bounds2
<1>10. n \in 0..Len(msgs2)
  BY <1>2, <1>9, SMTT(30)
<1>11. ASSUME st = "header" PROVE AtHeader(msgs2, bytes2, bounds2, n, nd, rest2, cells)
  <2>1. nd = 4 /\ Remains(rest, bytes, End(bounds, n)) /\ cells = Bodies(msgs)[n]
    BY <1>2, <1>11 DEF AtHeader
  <2>2. Remains(rest2, bytes2, End(bounds, n))
    BY <1>3, <1>4, <1>8, <2>1, RemainsMore DEF bytes2
  <2>3. QED
    BY <1>7, <1>8, <2>1, <2>2 DEF AtHeader
<1>12. ASSUME st = "body" PROVE InBody(msgs2, bytes2, bounds2, n, nd, rest2, cells)
  <2> DEFINE M == Len(msgs[n + 1])
             at == End(bounds, n) + 4 + (M - nd)
  <2>1. /\ n < Len(msgs) /\ nd \in 0..M /\ Remains(rest, bytes, at)
        /\ cells = Bodies(msgs)[n] \o SubSeq(msgs[n + 1], 1, M - nd)
    BY <1>2, <1>12 DEF InBody
  <2>2. msgs2[n + 1] = msgs[n + 1] /\ n < Len(msgs2)
    BY <1>9, <2>1, SMTT(30)
  <2>3. M \in Nat
    <3>1. msgs[n + 1] \in Sendable
      BY <1>3, <1>9, <2>1, ElementOfSeq
    <3>2. QED
      BY <3>1, FrameBytes
  <2>4. at \in Nat
    <3> HIDE DEF M
    <3>1. QED
      BY <1>8, <2>1, <2>3, SMTT(30)
  <2> HIDE DEF at
  <2>5. Remains(rest2, bytes2, at)
    BY <1>3, <1>4, <2>1, <2>4, RemainsMore DEF bytes2
  <2>6. QED
    BY <1>7, <1>8, <2>1, <2>2, <2>5 DEF InBody, at
<1>13. PlacedAt(msgs2, bytes2, bounds2, n, st, nd, rest2, cells)
  BY <1>6, <1>10, <1>11, <1>12 DEF PlacedAt
<1>14. QED
  BY <1>13 DEF Placed, msgs2, f

(* A header read whole is the length of the next message, whose body is    *)
(* next (ReadOnceData).                                                    *)
LEMMA HeaderTaken ==
    ASSUME NEW msgs, NEW n, NEW nd, NEW rest \in Seq(Byte), NEW cells \in Seq(Cell),
           Placed(msgs, n, "header", nd, rest, cells),
           NEW p \in Seq(Byte), Len(p) = 4, NEW rest2 \in Seq(Byte), Joined(rest, p, rest2)
    PROVE  /\ msgs[n + 1] \in Sendable /\ LengthAt(Len(msgs[n + 1]), p, 0)
           /\ Placed(msgs, n, "body", Len(msgs[n + 1]), rest2, cells)
<1>1. PICK bytes, bounds : PlacedAt(msgs, bytes, bounds, n, "header", nd, rest, cells)
  BY DEF Placed
<1>2. /\ FramesOK(msgs, bytes, bounds) /\ n \in 0..Len(msgs)
      /\ AtHeader(msgs, bytes, bounds, n, nd, rest, cells)
  BY <1>1 DEF PlacedAt
<1> DEFINE e == End(bounds, n)
           M == Len(msgs[n + 1])
<1>3. Remains(rest, bytes, e) /\ cells = Bodies(msgs)[n]
  BY <1>2 DEF AtHeader
<1>4. msgs \in Seq(Sendable) /\ bytes \in Seq(Byte) /\ Len(bytes) = End(bounds, Len(msgs))
  BY <1>2 DEF FramesOK
<1>5. e \in Nat /\ Len(bytes) \in Nat /\ n \in Nat /\ Len(msgs) \in Nat
  BY <1>2, <1>4, EndNat, SMTT(30)
<1>6. n < Len(msgs)
  <2>1. SUFFICES ASSUME n = Len(msgs) PROVE FALSE
    BY <1>2, <1>5, SMTT(30)
  <2>2. e = Len(bytes)
    BY <1>4, <2>1
  <2>3. Len(rest) = Len(bytes) - e /\ Len(rest) = 4 + Len(rest2)
    BY <1>3 DEF Remains, Joined
  <2>4. Len(rest2) \in Nat
    BY SMTT(30)
  <2> DEFINE x == Len(bytes)
             y == Len(rest2)
  <2>5. x \in Nat /\ y \in Nat /\ x - e = 4 + y /\ e = x
    BY <1>5, <2>2, <2>3, <2>4
  <2> HIDE DEF e, x, y
  <2>6. QED
    BY <2>5, SMTT(30)
<1>7. msgs[n + 1] \in Sendable /\ M \in Nat /\ LengthAt(M, bytes, e)
  BY <1>2, <1>5, <1>6, NextFrame
<1>8. Remains(rest2, bytes, e + 4) /\ PlainAt(p, bytes, e)
  BY <1>3, <1>4, <1>5, RemainsLess
<1> HIDE DEF e, M
<1>9. LengthAt(M, p, 0)
  <2>1. ASSUME NEW i \in 1..4 PROVE p[0 + i] = BytesOfInt(M)[i]
    <3>1. 0 + i = i
      BY SMTT(30)
    <3>2. p[i] = bytes[e + i] /\ bytes[e + i] = BytesOfInt(M)[i]
      BY <1>7, <1>8 DEF PlainAt, LengthAt
    <3>3. QED
      BY <3>1, <3>2
  <2>2. QED
    BY <2>1 DEF LengthAt
<1>10. Bodies(msgs)[n] \o SubSeq(msgs[n + 1], 1, M - M) = cells
  <2>1. M - M = 0
    BY <1>7, SMTT(30)
  <2>2. SubSeq(msgs[n + 1], 1, 0) = <<>>
    <3>1. msgs[n + 1] \in Seq(Byte)
      BY <1>7, FrameBytes
    <3>2. QED
      BY <3>1, SMTT(30)
  <2>3. QED
    BY <1>3, <2>1, <2>2, ConcatEmptySeq
<1>11. M \in 0..M /\ e + 4 + (M - M) = e + 4
  BY <1>5, <1>7, SMTT(30)
<1>12. InBody(msgs, bytes, bounds, n, M, rest2, cells)
  BY <1>6, <1>8, <1>10, <1>11 DEF InBody, e, M
<1>13. PlacedAt(msgs, bytes, bounds, n, "body", M, rest2, cells)
  BY <1>2, <1>12 DEF PlacedAt
<1>14. QED
  BY <1>7, <1>9, <1>13 DEF Placed, M

(* Bytes of a body are its next ones, and the last of them complete it     *)
(* (ReadOnceData).                                                         *)
LEMMA BodyTaken ==
    ASSUME NEW msgs, NEW n \in Nat, NEW nd \in Nat, NEW rest \in Seq(Byte), NEW cells \in Seq(Cell),
           Placed(msgs, n, "body", nd, rest, cells),
           NEW p \in Seq(Byte), Len(p) <= nd, NEW rest2 \in Seq(Byte), Joined(rest, p, rest2)
    PROVE  /\ Len(p) < nd => Placed(msgs, n, "body", nd - Len(p), rest2, cells \o p)
           /\ Len(p) = nd => /\ n + 1 <= Len(msgs) /\ cells \o p = Bodies(msgs)[n + 1]
                             /\ Placed(msgs, n + 1, "header", 4, rest2, cells \o p)
<1>1. PICK bytes, bounds : PlacedAt(msgs, bytes, bounds, n, "body", nd, rest, cells)
  BY DEF Placed
<1>2. /\ FramesOK(msgs, bytes, bounds) /\ n \in 0..Len(msgs)
      /\ InBody(msgs, bytes, bounds, n, nd, rest, cells)
  BY <1>1 DEF PlacedAt
<1> DEFINE e == End(bounds, n)
           msg == msgs[n + 1]
           M == Len(msg)
           at == e + 4 + (M - nd)
           all == Bodies(msgs)
           l == Len(p)
           held == SubSeq(msg, 1, M - nd)
<1>3. n < Len(msgs) /\ nd \in 0..M /\ Remains(rest, bytes, at) /\ cells = all[n] \o held
  BY <1>2 DEF InBody
<1>4. msgs \in Seq(Sendable) /\ bytes \in Seq(Byte)
  BY <1>2 DEF FramesOK
<1>5. e \in Nat /\ Len(bytes) \in Nat /\ Len(msgs) \in Nat /\ l \in Nat
  BY <1>2, <1>4, EndNat, SMTT(30)
<1>6. /\ msg \in Sendable /\ M \in Nat /\ PlainAt(msg, bytes, e + 4)
      /\ End(bounds, n + 1) = e + 4 + M
  BY <1>2, <1>3, NextFrame
<1>7. msg \in Seq(Byte)
  BY <1>6, FrameBytes
<1>8. BodySteps(all, msgs)
  BY <1>4, BodyEquations
<1> HIDE DEF e, msg, all
<1>9. M - nd \in Nat /\ at \in Nat /\ at = (e + 4) + (M - nd) /\ l <= nd
  <2>1. l <= nd
    BY DEF l
  <2> HIDE DEF M, l
  <2>2. QED
    BY <1>3, <1>5, <1>6, <2>1, SMTT(30)
<1>10. Remains(rest2, bytes, at + l) /\ PlainAt(p, bytes, at)
  <2> HIDE DEF at
  <2>1. QED
    BY <1>3, <1>4, <1>9, RemainsLess
<1>11. PlainAt(p, msg, M - nd)
  <2>1. ASSUME NEW i \in 1..l PROVE p[i] = msg[(M - nd) + i]
    <3> HIDE DEF M, l, at
    <3>1. (M - nd) + i \in 1..M /\ (e + 4) + ((M - nd) + i) = at + i
      BY <1>3, <1>5, <1>6, <1>9, SMTT(30)
    <3>2. msg[(M - nd) + i] = bytes[(e + 4) + ((M - nd) + i)]
      BY <1>6, <3>1 DEF PlainAt, M
    <3>3. p[i] = bytes[at + i]
      BY <1>10 DEF PlainAt, l
    <3>4. QED
      BY <3>1, <3>2, <3>3
  <2>2. QED
    BY <2>1 DEF PlainAt
<1>12. (M - nd) + l <= Len(msg) /\ (M - nd) + l = M - (nd - l)
  <2>1. (M - nd) + l <= M /\ (M - nd) + l = M - (nd - l)
    <3> HIDE DEF M, l
    <3>1. QED
      BY <1>3, <1>5, <1>6, <1>9, SMTT(30)
  <2>2. QED
    BY <2>1 DEF M
<1>13. /\ held \in Seq(Byte) /\ held \o p = SubSeq(msg, 1, (M - nd) + l)
       /\ SubSeq(msg, 1, Len(msg)) = msg
  <2> DEFINE d == M - nd
  <2>1. d \in Nat /\ d + Len(p) <= Len(msg) /\ PlainAt(p, msg, d)
    BY <1>9, <1>11, <1>12
  <2> HIDE DEF d, msg
  <2>2. /\ SubSeq(msg, 1, d) \in Seq(Byte) /\ SubSeq(msg, 1, d) \o p = SubSeq(msg, 1, d + Len(p))
        /\ SubSeq(msg, 1, Len(msg)) = msg
    BY <1>7, <2>1, PrefixGrows, SMTT(30)
  <2>3. QED
    BY <2>2 DEF d
<1>14. all[n] \in Seq(Byte)
  BY <1>2, <1>8 DEF BodySteps
<1>15. cells \o p = all[n] \o SubSeq(msg, 1, M - (nd - l))
  <2>1. (all[n] \o held) \o p = all[n] \o (held \o p)
    <3> DEFINE x == all[n]
    <3>1. x \in Seq(Byte) /\ held \in Seq(Byte)
      BY <1>13, <1>14
    <3> HIDE DEF held, x
    <3>2. Associative(x, held, p)
      BY <3>1, Regrouped
    <3>3. QED
      BY <3>2 DEF Associative, x
  <2>2. QED
    BY <1>3, <1>12, <1>13, <2>1
<1> HIDE DEF M, at, held, l
<1>16. ASSUME l < nd PROVE Placed(msgs, n, "body", nd - l, rest2, cells \o p)
  <2>1. nd - l \in 0..M /\ at + l = e + 4 + (M - (nd - l))
    BY <1>3, <1>5, <1>6, <1>9, <1>16, SMTT(30)
  <2>2. InBody(msgs, bytes, bounds, n, nd - l, rest2, cells \o p)
    BY <1>3, <1>10, <1>15, <2>1 DEF InBody, e, M, msg, all
  <2>3. PlacedAt(msgs, bytes, bounds, n, "body", nd - l, rest2, cells \o p)
    BY <1>2, <2>2 DEF PlacedAt
  <2>4. QED
    BY <2>3 DEF Placed
<1>17. ASSUME l = nd
       PROVE  /\ n + 1 <= Len(msgs) /\ cells \o p = all[n + 1]
              /\ Placed(msgs, n + 1, "header", 4, rest2, cells \o p)
  <2>1. /\ n + 1 \in 1..Len(msgs) /\ n + 1 \in 0..Len(msgs) /\ n + 1 - 1 = n /\ n + 1 <= Len(msgs)
        /\ M - (nd - l) = M /\ at + l = e + 4 + M
    BY <1>3, <1>5, <1>6, <1>9, <1>17, SMTT(30)
  <2>2. all[n + 1] = all[n] \o msg
    <3> DEFINE j == n + 1
    <3>1. j \in 1..Len(msgs) /\ j - 1 = n
      BY <2>1, SMTT(30)
    <3> HIDE DEF j
    <3>2. all[j] = all[j - 1] \o msgs[j]
      BY <1>8, <3>1 DEF BodySteps
    <3>3. QED
      BY <3>1, <3>2 DEF msg, j
  <2>3. cells \o p = all[n + 1]
    BY <1>13, <1>15, <2>1, <2>2 DEF M
  <2>4. Remains(rest2, bytes, End(bounds, n + 1))
    BY <1>6, <1>10, <2>1
  <2>5. AtHeader(msgs, bytes, bounds, n + 1, 4, rest2, cells \o p)
    BY <2>3, <2>4 DEF AtHeader, all
  <2>6. PlacedAt(msgs, bytes, bounds, n + 1, "header", 4, rest2, cells \o p)
    BY <1>2, <2>1, <2>5 DEF PlacedAt
  <2>7. QED
    BY <2>1, <2>3, <2>6 DEF Placed
<1>18. QED
  BY <1>16, <1>17 DEF l, all

-----------------------------------------------------------------------------
(* The actions.                                                            *)

(* What WriteData is given has a length that an int can say.               *)
LEMMA MessageSendable ==
    ASSUME NEW msg \in Messages
    PROVE  msg \in Sendable
<1>1. PICK n \in 0..MaxMsgLen : msg \in [1..n -> Byte]
  BY DEF Messages
<1>2. n \in Nat /\ n \in 0..(IntValues \div 2 - 1)
  BY HeaderAssumption, IntValuesNat, SMTT(30)
<1>3. msg \in Seq(Byte) /\ Len(msg) = n
  BY <1>1, <1>2, FunctionIsSeq
<1>4. QED
  BY <1>2, <1>3 DEF Sendable

(* The same for a list of messages.                                        *)
LEMMA SentSendable ==
    ASSUME NEW msgs \in Seq(Messages)
    PROVE  msgs \in Seq(Sendable)
  BY MessageSendable, SMTT(30)

(* WriteData: the frame is the last thing on the stream.                   *)
LEMMA WriteDataInv ==
    ASSUME HeaderInv, NEW u \in Vfd, NEW msg \in Messages, WriteData(u, msg)
    PROVE  HeaderInv'
<1> DEFINE h == BytesOfInt(Len(msg))
           w == wire[u] \o Frame(msg)
<1>1. ObjectOK /\ TypeOK /\ sent \in Seq(Messages) /\ wire \in [Vfd -> Seq(Byte)]
  BY DEF HeaderInv, ObjectOK, TypeOK
<1>2. /\ sent' = Append(sent, msg)
      /\ wire' = [wire EXCEPT ![u] = (wire[u] \o h) \o msg]
      /\ piece' = piece /\ reading' = reading /\ status' = status /\ need' = need
      /\ header' = header /\ processVfd' = processVfd /\ buf' = buf /\ handed' = handed
      /\ fault' = fault /\ split' = split
  BY DEF WriteData, object
<1>3. msg \in Sendable /\ sent \in Seq(Sendable)
  BY <1>1, MessageSendable, SentSendable
<1>4. /\ wire[u] \in Seq(Byte) /\ msg \in Seq(Byte) /\ h \in Seq(Byte) /\ Frame(msg) \in Seq(Byte)
  BY <1>1, <1>3, FrameBytes, BytesAreInt
<1>5. (wire[u] \o h) \o msg = w
  <2> DEFINE x == wire[u]
  <2>1. x \in Seq(Byte) /\ h \in Seq(Byte) /\ msg \in Seq(Byte)
    BY <1>4
  <2> HIDE DEF h, x
  <2>2. Associative(x, h, msg)
    BY <2>1, Regrouped
  <2>3. QED
    BY <2>2 DEF Associative, Frame, h, x
<1>6. w \in Seq(Byte)
  BY <1>4, ConcatAt
<1> HIDE DEF w, h
<1>7. wire' \in [Vfd -> Seq(Byte)] /\ wire'[u] = w
  BY <1>1, <1>2, <1>5, <1>6, SMTT(30)
<1>8. sent' \in Seq(Messages)
  BY <1>1, <1>2, SMTT(30)
<1>9. TypeOK'
  BY <1>1, <1>2, <1>7, <1>8 DEF TypeOK
<1>10. ObjectOK'
  BY <1>1, <1>2, <1>9 DEF ObjectOK
<1>11. ASSUME NEW v, Vfd = {v} PROVE OrderOK(v)'
  <2>1. u = v /\ OrderOK(v)
    BY <1>11 DEF HeaderInv
  <2>2. SUFFICES ASSUME ~split', Sound(buf')
                 PROVE  /\ Seen(sent', handed')
                        /\ fault' = "none" => Placed(sent', Len(handed'), status', need',
                                                     piece'.bytes \o wire'[v], Contents(buf'))
    BY DEF OrderOK
  <2>3. Seen(sent, handed)
    BY <1>2, <2>1, <2>2 DEF OrderOK
  <2>4. Seen(sent', handed')
    <3>1. /\ handed' = handed /\ Len(sent) \in Nat /\ Len(sent') = Len(sent) + 1
          /\ handed \in Seq(Seq(Byte \cup {Junk}))
      BY <1>1, <1>2, SMTT(30) DEF TypeOK
    <3>2. Len(handed) \in Nat
      BY <3>1, SMTT(30)
    <3>3. Len(handed) <= Len(sent)
      BY <2>3 DEF Seen
    <3>4. Len(handed) <= Len(sent')
      BY <3>1, <3>2, <3>3, SMTT(30)
    <3>5. ASSUME NEW n \in 1..Len(handed) PROVE handed[n] = Bodies(sent')[n]
      <4>1. n \in 0..Len(sent)
        BY <3>1, <3>2, <3>3, SMTT(30)
      <4>2. Bodies(sent')[n] = Bodies(sent)[n]
        BY <1>2, <1>3, <4>1, BodiesKept
      <4>3. QED
        BY <2>3, <4>2 DEF Seen
    <3>6. QED
      BY <3>1, <3>4, <3>5 DEF Seen
  <2>5. ASSUME fault' = "none"
        PROVE  Placed(sent', Len(handed'), status', need', piece'.bytes \o wire'[v], Contents(buf'))
    <3> DEFINE rest == piece.bytes \o wire[v]
    <3>1. Placed(sent, Len(handed), status, need, rest, Contents(buf))
      BY <1>2, <2>1, <2>2, <2>5 DEF OrderOK
    <3>2. piece.bytes \in Seq(Byte) /\ rest \in Seq(Byte)
      BY <1>1, <1>4, <2>1, ConcatAt DEF TypeOK
    <3>3. piece.bytes \o wire'[v] = rest \o Frame(msg)
      <4> DEFINE a == piece.bytes
                 x == wire[u]
                 f == Frame(msg)
      <4>1. a \in Seq(Byte) /\ x \in Seq(Byte) /\ f \in Seq(Byte)
        BY <1>4, <3>2
      <4>2. wire'[v] = x \o f /\ rest = a \o x
        BY <1>7, <2>1 DEF w
      <4> HIDE DEF a, x, f, rest
      <4>3. Associative(a, x, f)
        BY <4>1, Regrouped
      <4>4. QED
        BY <4>2, <4>3 DEF Associative, a, f
    <3> HIDE DEF rest
    <3>4. Placed(sent', Len(handed), status, need, rest \o Frame(msg), Contents(buf))
      BY <1>2, <1>3, <3>1, <3>2, PlacedMore
    <3>5. QED
      BY <1>2, <3>3, <3>4
  <2>6. QED
    BY <2>4, <2>5
<1>12. QED
  BY <1>10, <1>11 DEF HeaderInv

(* ReadData is given the next bytes of the stream.                         *)
LEMMA ReadDataInv ==
    ASSUME HeaderInv, NEW u \in Vfd, NEW n \in 1..Len(wire[u]), ReadData(u, n)
    PROVE  HeaderInv'
<1> DEFINE p == SubSeq(wire[u], 1, n)
           w == SubSeq(wire[u], n + 1, Len(wire[u]))
<1>1. ObjectOK /\ TypeOK /\ wire \in [Vfd -> Seq(Byte)]
  BY DEF HeaderInv, ObjectOK, TypeOK
<1>2. /\ fault = "none" /\ ~reading /\ piece' = [vfd |-> u, bytes |-> p] /\ reading' = TRUE
      /\ wire' = [wire EXCEPT ![u] = w]
      /\ sent' = sent /\ status' = status /\ need' = need
      /\ header' = header /\ processVfd' = processVfd /\ buf' = buf /\ handed' = handed
      /\ fault' = fault /\ split' = split
  BY DEF ReadData, object
<1>3. wire[u] \in Seq(Byte) /\ n \in 0..Len(wire[u])
  BY <1>1, SMTT(30)
<1>4. p \in Seq(Byte) /\ w \in Seq(Byte) /\ Joined(wire[u], p, w)
  BY <1>3, SplitAt
<1>5. wire[u] = p \o w
  <2> HIDE DEF p, w
  <2>1. QED
    BY <1>3, <1>4, ConcatByElements DEF Joined
<1>6. u \in 0..(IntValues - 1)
  BY HeaderAssumption, IntValuesNat, SMTT(30)
<1> HIDE DEF p, w
<1>7. wire' \in [Vfd -> Seq(Byte)] /\ wire'[u] = w
  BY <1>1, <1>2, <1>4, SMTT(30)
<1>8. piece' \in [vfd : 0..(IntValues - 1), bytes : Seq(Byte)] /\ piece'.bytes = p
  BY <1>2, <1>4, <1>6
<1>9. TypeOK'
  BY <1>1, <1>2, <1>4, <1>7, <1>8 DEF TypeOK
<1>10. ObjectOK'
  BY <1>1, <1>2, <1>8, <1>9 DEF ObjectOK
<1>11. ASSUME NEW v, Vfd = {v} PROVE OrderOK(v)'
  <2>1. u = v /\ OrderOK(v)
    BY <1>11 DEF HeaderInv
  <2>2. piece.bytes = <<>>
    BY <1>1, <1>2 DEF ObjectOK
  <2>3. piece'.bytes \o wire'[v] = piece.bytes \o wire[v]
    BY <1>3, <1>5, <1>7, <1>8, <2>1, <2>2, ConcatEmptySeq
  <2>4. QED
    BY <1>2, <2>1, <2>3 DEF OrderOK
<1>12. QED
  BY <1>10, <1>11 DEF HeaderInv

(* ReadData returns when nothing is left of its piece.                     *)
LEMMA ReturnInv ==
    ASSUME HeaderInv, ReturnFromReadData
    PROVE  HeaderInv'
<1>1. ObjectOK /\ TypeOK
  BY DEF HeaderInv, ObjectOK
<1>2. /\ piece.bytes = <<>> /\ reading' = FALSE
      /\ wire' = wire /\ piece' = piece
      /\ sent' = sent /\ status' = status /\ need' = need
      /\ header' = header /\ processVfd' = processVfd /\ buf' = buf /\ handed' = handed
      /\ fault' = fault /\ split' = split
  BY DEF ReturnFromReadData, object
<1>3. TypeOK'
  BY <1>1, <1>2 DEF TypeOK
<1>4. ObjectOK'
  BY <1>1, <1>2, <1>3 DEF ObjectOK
<1>5. ASSUME NEW v, Vfd = {v} PROVE OrderOK(v)'
  BY <1>2, <1>5 DEF HeaderInv, OrderOK
<1>6. QED
  BY <1>4, <1>5 DEF HeaderInv

(* Four bytes are an int.                                                  *)
LEMMA FourBytes ==
    ASSUME NEW t \in [1..4 -> Byte]
    PROVE  IntOfBytes(t) \in Int
<1>1. t \in Seq(Byte) /\ Len(t) >= 4
  <2> DEFINE m == 4
  <2>1. m \in Nat /\ t \in [1..m -> Byte] /\ m >= 4
    BY SMTT(30)
  <2> HIDE DEF m
  <2>2. t \in Seq(Byte) /\ Len(t) = m
    BY <2>1, FunctionIsSeq
  <2>3. QED
    BY <2>1, <2>2
<1>2. QED
  BY <1>1, IntOfFour

(* Four cells overwritten from the first one on.                           *)
LEMMA OverwrittenCells ==
    ASSUME NEW cells, NEW s \in Seq(Byte)
    PROVE  /\ (\A i \in 1..4 : cells[i] \in Cell) => Overwritten(cells, s) \in [1..4 -> Cell]
           /\ (\A i \in 1..4 : cells[i] \in Byte) => IntOfBytes(Overwritten(cells, s)) \in Int
<1>1. Len(s) \in Nat
  BY SMTT(30)
<1>2. ASSUME NEW i \in 1..4 PROVE i <= Len(s) => s[i] \in Byte
  <2>1. i <= Len(s) => i \in 1..Len(s)
    BY <1>1, SMTT(30)
  <2>2. QED
    BY <2>1, ElementOfSeq
<1>3. ASSUME \A i \in 1..4 : cells[i] \in Cell PROVE Overwritten(cells, s) \in [1..4 -> Cell]
  BY <1>2, <1>3 DEF Overwritten, Cell
<1>4. ASSUME \A i \in 1..4 : cells[i] \in Byte PROVE Overwritten(cells, s) \in [1..4 -> Byte]
  BY <1>2, <1>4 DEF Overwritten
<1>5. QED
  BY <1>3, <1>4, FourBytes

(* Whatever the bytes are that were never written, a header is an int.     *)
LEMMA HeaderInts ==
    ASSUME NEW cells
    PROVE  IntsOf(cells) \subseteq Int
  BY FourBytes DEF IntsOf

(* The length that a whole header holds (ReadOnceData).                    *)
LEMMA HeaderIsLength ==
    ASSUME NEW cells, NEW p \in Seq(Byte), Len(p) = 4, NEW msg \in Sendable,
           LengthAt(Len(msg), p, 0), NEW nd \in IntsOf(Overwritten(cells, p))
    PROVE  nd = Len(msg)
<1> DEFINE o == Overwritten(cells, p)
           h == BytesOfInt(Len(msg))
<1>1. PICK t \in [1..4 -> Byte] : nd = IntOfBytes(t) /\ \A i \in 1..4 : o[i] \in {Junk, t[i]}
  BY DEF IntsOf
<1>2. ASSUME NEW i \in 1..4 PROVE t[i] = h[i]
  <2>1. i \in 1..Len(p) /\ i <= Len(p) /\ 0 + i = i
    BY SMTT(30)
  <2>2. p[i] \in Byte /\ p[i] = h[i]
    BY <2>1, ElementOfSeq DEF LengthAt
  <2>3. o[i] = p[i]
    BY <2>1 DEF Overwritten
  <2>4. p[i] # Junk
    BY <2>2, BufAssumption
  <2>5. QED
    BY <1>1, <2>2, <2>3, <2>4
<1>3. IntOfBytes(t) = IntOfBytes(h)
  <2> HIDE DEF h
  <2>1. QED
    BY <1>2, SameInt
<1>4. IntOfBytes(h) = Wrapped(Len(msg)) /\ Wrapped(Len(msg)) = Len(msg)
  BY FrameBytes, BytesAreInt
<1>5. QED
  BY <1>1, <1>3, <1>4

(* How far a step of ReadOnceData gets in its piece.                       *)
LEMMA LesserOf ==
    ASSUME NEW a \in Nat, NEW b \in Nat
    PROVE  /\ Lesser(a, b) \in 0..a /\ Lesser(a, b) \in Nat /\ Lesser(a, b) <= b
           /\ b <= a => Lesser(a, b) = b
           /\ ~(b <= a) => Lesser(a, b) = a /\ Lesser(a, b) < b
  BY SMTT(30) DEF Lesser

(* ReadOnceData leaves the rest of its piece.                              *)
LEMMA LeftOf ==
    ASSUME piece \in [vfd : 0..(IntValues - 1), bytes : Seq(Byte)], NEW k \in 0..Len(piece.bytes)
    PROVE  /\ Left(k) \in [vfd : 0..(IntValues - 1), bytes : Seq(Byte)]
           /\ Left(k).bytes = SubSeq(piece.bytes, k + 1, Len(piece.bytes))
<1> DEFINE b == SubSeq(piece.bytes, k + 1, Len(piece.bytes))
<1>1. piece.bytes \in Seq(Byte)
  BY Zenon
<1>2. b \in Seq(Byte)
  BY <1>1, SplitAt
<1>3. Left(k) = [piece EXCEPT !.bytes = b]
  BY DEF Left
<1> HIDE DEF b
<1>4. Left(k) \in [vfd : 0..(IntValues - 1), bytes : Seq(Byte)] /\ Left(k).bytes = b
  BY <1>2, <1>3
<1>5. QED
  BY <1>4 DEF b

(* ReadOnceData in a header.  One that comes whole holds the length of the *)
(* next message.                                                           *)
LEMMA ReadHeaderInv ==
    ASSUME HeaderInv, ReadHeader
    PROVE  HeaderInv'
<1> DEFINE len == Len(piece.bytes)
           k == Lesser(len, need)
           s == SubSeq(piece.bytes, 1, k)
           missing == 4 - need
           complete == need <= len
<1>1. /\ ObjectOK /\ TypeOK /\ BufInv(buf)
      /\ piece \in [vfd : 0..(IntValues - 1), bytes : Seq(Byte)]
      /\ header \in [1..4 -> Cell]
  BY DEF HeaderInv, ObjectOK, TypeOK, Cell
<1>2. /\ fault = "none" /\ reading /\ piece.bytes # <<>> /\ status = "header"
      /\ header' = IF missing = 0 THEN Overwritten(header, s) ELSE header
      /\ processVfd' = IF missing = 1 THEN IntOfBytes(Overwritten(BytesOfInt(piece.vfd), s))
                       ELSE piece.vfd
      /\ fault' = IF missing > 1 THEN "wild_pointer" ELSE fault
      /\ status' = IF complete THEN "body" ELSE "header"
      /\ IF complete THEN need' \in IntsOf(header') ELSE need' = need - k
      /\ split' = (split \/ ~complete)
      /\ piece' = Left(k)
      /\ sent' = sent /\ wire' = wire /\ reading' = reading /\ buf' = buf /\ handed' = handed
  BY DEF ReadHeader
<1>3. need \in 1..4 /\ (~split => need = 4)
  BY <1>1, <1>2 DEF ObjectOK
<1>4. piece.bytes \in Seq(Byte) /\ piece.vfd \in 0..(IntValues - 1)
  BY <1>1
<1>5. len \in Nat /\ len # 0 /\ need \in Nat
  BY <1>2, <1>3, <1>4, SMTT(30)
<1>6. /\ k \in 0..len /\ k \in Nat /\ k <= need /\ (complete => k = need)
      /\ (~complete => k = len /\ k < need)
  <2> HIDE DEF len
  <2>1. QED
    BY <1>5, LesserOf
<1>7. s \in Seq(Byte)
  BY <1>4, <1>6, SplitAt
<1>8. Left(k) \in [vfd : 0..(IntValues - 1), bytes : Seq(Byte)]
      /\ Left(k).bytes = SubSeq(piece.bytes, k + 1, len)
  BY <1>1, <1>6, LeftOf
<1> HIDE DEF s, k, len
<1>9. header' \in [1..4 -> Cell]
  <2>1. \A i \in 1..4 : header[i] \in Cell
    BY <1>1
  <2>2. QED
    BY <1>1, <1>2, <1>7, <2>1, OverwrittenCells
<1>10. processVfd' \in Int
  <2> DEFINE b == BytesOfInt(piece.vfd)
  <2>1. b \in Seq(Byte) /\ Len(b) = 4
    BY <1>4, BytesAreInt
  <2> HIDE DEF b
  <2>2. \A i \in 1..4 : b[i] \in Byte
    BY <2>1, ElementOfSeq
  <2>4. IntOfBytes(Overwritten(b, s)) \in Int
    BY <1>7, <2>2, OverwrittenCells
  <2>5. piece.vfd \in Int
    BY <1>4, IntValuesNat, SMTT(30)
  <2>6. QED
    BY <1>2, <2>4, <2>5 DEF b
<1>11. need' \in Int /\ (~complete => need' \in 1..4)
  <2>1. ASSUME complete PROVE need' \in Int
    BY <1>2, <2>1, HeaderInts
  <2>2. ASSUME ~complete PROVE need' \in 1..4 /\ need' \in Int
    BY <1>2, <1>3, <1>5, <1>6, <2>2, SMTT(30)
  <2>3. QED
    BY <2>1, <2>2
<1>12. split' \in BOOLEAN
  BY <1>2, SMTT(30)
<1>13. TypeOK'
  <2>1. piece'.bytes \in Seq(Byte) /\ status' \in {"header", "body"} /\ split' \in BOOLEAN
    BY <1>2, <1>8, <1>12
  <2>2. fault' \in {"none", "wild_pointer"}
    BY <1>2
  <2>3. QED
    BY <1>1, <1>2, <1>9, <1>10, <1>11, <2>1, <2>2 DEF TypeOK, Cell
<1>14. ObjectOK'
  <2>1. status' = "header" => ~complete
    BY <1>2
  <2>2. status' = "header" => need' \in 1..4 /\ split'
    BY <1>2, <1>11, <2>1
  <2>3. buf'.fault = "none"
    BY <1>1, <1>2 DEF ObjectOK
  <2>4. QED
    BY <1>1, <1>2, <1>8, <1>13, <2>2, <2>3 DEF ObjectOK
<1>15. ASSUME NEW v, Vfd = {v} PROVE OrderOK(v)'
  <2>1. SUFFICES ASSUME ~split', Sound(buf')
                 PROVE  /\ Seen(sent', handed')
                        /\ fault' = "none" => Placed(sent', Len(handed'), status', need',
                                                     piece'.bytes \o wire'[v], Contents(buf'))
    BY DEF OrderOK
  <2>2. ~split /\ complete /\ need = 4 /\ k = 4 /\ status' = "body"
    BY <1>2, <1>3, <1>6, <2>1
  <2>3. missing = 0
    BY <2>2, SMTT(30)
  <2> DEFINE rest == piece.bytes \o wire[v]
             rest2 == SubSeq(piece.bytes, k + 1, len) \o wire[v]
             n == Len(handed)
             cells == Contents(buf)
  <2>4. Seen(sent, handed) /\ Placed(sent, n, "header", need, rest, cells)
    BY <1>2, <1>15, <2>1, <2>2 DEF HeaderInv, OrderOK
  <2>5. wire[v] \in Seq(Byte)
    BY <1>1, <1>15 DEF TypeOK
  <2>6. /\ rest \in Seq(Byte) /\ rest2 \in Seq(Byte) /\ Len(s) = 4 /\ Joined(rest, s, rest2)
    <3> DEFINE a == piece.bytes
               w == wire[v]
    <3>1. a \in Seq(Byte) /\ w \in Seq(Byte) /\ k \in 0..Len(a)
      BY <1>4, <1>6, <2>5 DEF len
    <3> HIDE DEF a, w
    <3>2. /\ Len(SubSeq(a, 1, k)) = k /\ a \o w \in Seq(Byte)
          /\ SubSeq(a, k + 1, Len(a)) \o w \in Seq(Byte)
          /\ Joined(a \o w, SubSeq(a, 1, k), SubSeq(a, k + 1, Len(a)) \o w)
      BY <3>1, PieceTaken
    <3>3. QED
      BY <2>2, <3>2 DEF s, len, a, w
  <2>7. cells \in Seq(Cell)
    BY <1>1, ContentsIsSeq DEF Cell
  <2> HIDE DEF rest, rest2, n, cells
  <2>8. /\ sent[n + 1] \in Sendable /\ LengthAt(Len(sent[n + 1]), s, 0)
        /\ Placed(sent, n, "body", Len(sent[n + 1]), rest2, cells)
    BY <1>7, <2>4, <2>6, <2>7, HeaderTaken
  <2>9. need' = Len(sent[n + 1])
    <3>1. need' \in IntsOf(Overwritten(header, s))
      BY <1>2, <2>2, <2>3
    <3>2. QED
      BY <1>7, <2>6, <2>8, <3>1, HeaderIsLength
  <2>10. Placed(sent', Len(handed'), status', need', piece'.bytes \o wire'[v], Contents(buf'))
    BY <1>2, <1>8, <2>2, <2>8, <2>9 DEF rest2, n, cells
  <2>11. QED
    BY <1>2, <2>4, <2>10
<1>16. QED
  BY <1>14, <1>15 DEF HeaderInv

(* ReadOnceData in a body: the buffer gets its next bytes, and with the    *)
(* last of them holds one body more.                                       *)
LEMMA ReadBodyInv ==
    ASSUME HeaderInv, ReadBody
    PROVE  HeaderInv'
<1> DEFINE len == Len(piece.bytes)
           k == Lesser(len, need)
           s == SubSeq(piece.bytes, 1, k)
           complete == need <= len
           Ended == piece.vfd # processVfd \/ need < 0
<1>1. /\ ObjectOK /\ TypeOK /\ BufInv(buf)
      /\ piece \in [vfd : 0..(IntValues - 1), bytes : Seq(Byte)]
      /\ need \in Int /\ handed \in Seq(Seq(Cell))
  BY DEF HeaderInv, ObjectOK, TypeOK, Cell
<1>2. /\ fault = "none" /\ reading /\ piece.bytes # <<>> /\ status = "body"
      /\ sent' = sent /\ wire' = wire /\ reading' = reading /\ split' = split
  BY DEF ReadBody
<1>3. CASE Ended
  <2>1. /\ fault' \in {"assert_vfd", "negative"}
        /\ piece' = piece /\ status' = status /\ need' = need
        /\ header' = header /\ processVfd' = processVfd /\ buf' = buf /\ handed' = handed
    BY <1>3 DEF ReadBody, object
  <2>2. TypeOK'
    BY <1>1, <1>2, <2>1 DEF TypeOK
  <2>3. ObjectOK'
    BY <1>1, <1>2, <2>1, <2>2 DEF ObjectOK
  <2>4. ASSUME NEW v, Vfd = {v} PROVE OrderOK(v)'
    BY <1>2, <2>1, <2>4 DEF HeaderInv, OrderOK
  <2>5. QED
    BY <2>3, <2>4 DEF HeaderInv
<1>4. CASE ~Ended
  <2>1. /\ buf' \in Inserted(buf, s)
        /\ fault' = IF buf'.fault = "none" /\ GetBufLen(buf') # GetBufLen(buf) + k
                    THEN "assert_len" ELSE buf'.fault
        /\ status' = IF complete THEN "header" ELSE "body"
        /\ need' = IF complete THEN 4 ELSE need - k
        /\ processVfd' = IF complete THEN -1 ELSE processVfd
        /\ handed' = IF complete /\ fault' = "none" THEN Append(handed, Contents(buf'))
                     ELSE handed
        /\ piece' = Left(k) /\ header' = header
    BY <1>4 DEF ReadBody
  <2>2. piece.bytes \in Seq(Byte)
    BY <1>1
  <2>3. len \in Nat /\ need \in Nat
    BY <1>1, <1>4, <2>2, SMTT(30)
  <2>4. /\ k \in 0..len /\ k \in Nat /\ k <= need /\ (complete => k = need)
        /\ (~complete => k = len /\ k < need)
    <3> HIDE DEF len
    <3>1. QED
      BY <2>3, LesserOf
  <2>5. s \in Seq(Byte) /\ Len(s) = k
    BY <2>2, <2>4, SplitAt
  <2>6. Left(k) \in [vfd : 0..(IntValues - 1), bytes : Seq(Byte)]
        /\ Left(k).bytes = SubSeq(piece.bytes, k + 1, len)
    BY <1>1, <2>4, LeftOf
  <2> HIDE DEF s, k, len
  <2>7. buf.fault = "none"
    BY <1>1, <1>2 DEF ObjectOK
  <2>8. /\ BufInv(buf') /\ buf'.fault # "null_read"
        /\ Sound(buf') => Sound(buf) /\ Contents(buf') = Contents(buf) \o s
    BY <1>1, <2>1, <2>5, <2>7, InsertedAppends, InsertedSize
  <2>9. /\ Contents(buf') \in Seq(Cell) /\ buf' \in Buffer
        /\ buf'.fault \in {"none", "null_write", "endless_loop", "abort"}
    <3>1. Contents(buf') \in Seq(Cell) /\ buf' \in Buffer /\ buf'.fault # "bad_realloc"
      BY <2>8, ContentsIsSeq DEF Cell, BufInv
    <3>2. buf'.fault \in {"none", "null_write", "null_read", "endless_loop", "bad_realloc", "abort"}
      BY <3>1 DEF Buffer
    <3>3. QED
      BY <2>8, <3>1, <3>2
  <2>10. TypeOK'
    <3>1. handed' \in Seq(Seq(Cell))
      BY <1>1, <2>1, <2>9, SMTT(30)
    <3>2. need' \in Int /\ processVfd' \in Int
      BY <1>1, <2>1, <2>4, SMTT(30) DEF TypeOK
    <3>3. fault' \in {"none", "null_write", "endless_loop", "abort", "assert_len"}
      BY <2>1, <2>9
    <3>4. piece'.bytes \in Seq(Byte) /\ status' \in {"header", "body"}
      BY <2>1, <2>6
    <3>5. QED
      BY <1>1, <1>2, <2>1, <2>9, <3>1, <3>2, <3>3, <3>4 DEF TypeOK, Cell
  <2>11. ObjectOK'
    <3>1. status' = "header" => need' = 4
      BY <2>1
    <3>2. 4 \in 1..4
      BY SMTT(30)
    <3>3. fault' = "none" => buf'.fault = "none"
      BY <2>1
    <3>4. QED
      BY <1>1, <1>2, <2>1, <2>6, <2>8, <2>10, <3>1, <3>2, <3>3 DEF ObjectOK
  <2>12. ASSUME NEW v, Vfd = {v} PROVE OrderOK(v)'
    <3>1. SUFFICES ASSUME ~split', Sound(buf')
                   PROVE  /\ Seen(sent', handed')
                          /\ fault' = "none" => Placed(sent', Len(handed'), status', need',
                                                       piece'.bytes \o wire'[v], Contents(buf'))
      BY DEF OrderOK
    <3> DEFINE rest == piece.bytes \o wire[v]
               rest2 == SubSeq(piece.bytes, k + 1, len) \o wire[v]
               n == Len(handed)
               cells == Contents(buf)
    <3>2. Seen(sent, handed) /\ Placed(sent, n, "body", need, rest, cells)
      BY <1>2, <2>8, <2>12, <3>1 DEF HeaderInv, OrderOK
    <3>3. wire[v] \in Seq(Byte)
      BY <1>1, <2>12 DEF TypeOK
    <3>4. rest \in Seq(Byte) /\ rest2 \in Seq(Byte) /\ Joined(rest, s, rest2)
      <4> DEFINE a == piece.bytes
                 w == wire[v]
      <4>1. a \in Seq(Byte) /\ w \in Seq(Byte) /\ k \in 0..Len(a)
        BY <2>2, <2>4, <3>3 DEF len
      <4> HIDE DEF a, w
      <4>2. /\ a \o w \in Seq(Byte) /\ SubSeq(a, k + 1, Len(a)) \o w \in Seq(Byte)
            /\ Joined(a \o w, SubSeq(a, 1, k), SubSeq(a, k + 1, Len(a)) \o w)
        BY <4>1, PieceTaken
      <4>3. QED
        BY <4>2 DEF s, len, a, w
    <3>5. cells \in Seq(Cell) /\ Contents(buf') = cells \o s
      BY <1>1, <2>8, <3>1, ContentsIsSeq DEF Cell
    <3>6. n \in Nat
      BY <1>1, SMTT(30)
    <3> HIDE DEF rest, rest2, cells
    <3>7. /\ Len(s) < need => Placed(sent, n, "body", need - Len(s), rest2, cells \o s)
          /\ Len(s) = need => /\ n + 1 <= Len(sent) /\ cells \o s = Bodies(sent)[n + 1]
                              /\ Placed(sent, n + 1, "header", 4, rest2, cells \o s)
      <4> HIDE DEF n
      <4>1. Len(s) <= need /\ need \in Nat /\ s \in Seq(Byte) /\ cells \in Seq(Cell)
        BY <2>3, <2>4, <2>5, <3>5
      <4>2. Placed(sent, n, "body", need, rest, cells)
        BY <3>2
      <4>3. QED
        BY <3>4, <3>6, <4>1, <4>2, BodyTaken
    <3>8. CASE ~(complete /\ fault' = "none")
      <4>1. handed' = handed
        BY <2>1, <3>8
      <4>2. ASSUME fault' = "none"
            PROVE  Placed(sent', Len(handed'), status', need',
                          piece'.bytes \o wire'[v], Contents(buf'))
        <5>1. ~complete
          BY <3>8, <4>2
        <5>2. k < need /\ status' = "body" /\ need' = need - k
          BY <2>1, <2>4, <5>1
        <5>3. QED
          BY <1>2, <2>1, <2>5, <2>6, <3>5, <3>7, <4>1, <5>2 DEF rest2, n
      <4>3. QED
        BY <1>2, <3>2, <4>1, <4>2
    <3>9. CASE complete /\ fault' = "none"
      <4>1. /\ handed' = Append(handed, Contents(buf')) /\ status' = "header" /\ need' = 4
            /\ Len(s) = need
        BY <2>1, <2>4, <2>5, <3>9
      <4>2. /\ Len(handed') = n + 1 /\ handed'[n + 1] = Contents(buf')
            /\ \A i \in 1..n : handed'[i] = handed[i]
        BY <1>1, <2>9, <4>1, SMTT(30)
      <4>3. /\ n + 1 <= Len(sent) /\ Contents(buf') = Bodies(sent)[n + 1]
            /\ Placed(sent, n + 1, "header", 4, rest2, Contents(buf'))
        BY <3>5, <3>7, <4>1
      <4>4. ASSUME NEW i \in 1..(n + 1) PROVE handed'[i] = Bodies(sent)[i]
        <5>1. i = n + 1 \/ i \in 1..n
          BY <3>6, SMTT(30)
        <5>2. \A j \in 1..n : handed[j] = Bodies(sent)[j]
          BY <3>2 DEF Seen
        <5>3. QED
          BY <4>2, <4>3, <5>1, <5>2
      <4>5. Seen(sent, handed')
        BY <4>2, <4>3, <4>4 DEF Seen
      <4>6. QED
        BY <1>2, <2>1, <2>6, <4>1, <4>2, <4>3, <4>5 DEF rest2
    <3>10. QED
      BY <3>8, <3>9
  <2>13. QED
    BY <2>11, <2>12 DEF HeaderInv
<1>5. QED
  BY <1>3, <1>4

-----------------------------------------------------------------------------
(* The theorems.                                                           *)

(* The first state.                                                        *)
LEMMA InitInv == Init => HeaderInv
<1>1. SUFFICES ASSUME Init PROVE HeaderInv
  OBVIOUS
<1>2. /\ sent = <<>> /\ wire = [v \in Vfd |-> <<>>]
      /\ piece = [vfd |-> 0, bytes |-> <<>>] /\ reading = FALSE
      /\ status = "header" /\ need = 4 /\ header = [i \in 1..4 |-> Junk] /\ processVfd = -1
      /\ buf \in NewBuf /\ handed = <<>> /\ fault = "none" /\ split = FALSE
  BY <1>1 DEF Init
<1>3. BufInv(buf) /\ GetBufLen(buf) = 0 /\ buf.fault = "none"
  <2>1. PICK null \in BOOLEAN :
           buf = [bufsize |-> BufSize, alloc |-> IF null THEN 0 ELSE BufSize, null |-> null,
                  mem |-> NoBytes, head |-> 0, tail |-> 0, failed |-> null,
                  overrun |-> FALSE, fault |-> "none"]
    BY <1>2 DEF NewBuf
  <2>2. NoBytes \in [Cells -> Byte \cup {Junk}]
    BY DEF NoBytes
  <2>3. BufSize \in 1..MaxInt /\ BufSize \in 0..MaxInt /\ 0 \in 0..MaxInt
    BY SMTT(30)
  <2>4. buf \in Buffer
    BY <2>1, <2>2, <2>3 DEF Buffer
  <2>5. QED
    BY <2>1, <2>3, <2>4, SMTT(30) DEF BufInv, GetBufLen, Sound
<1>4. Contents(buf) = <<>>
  <2>1. Contents(buf) \in Seq(Cell) /\ Len(Contents(buf)) = 0
    BY <1>3, ContentsIsSeq DEF GetBufLen, Cell
  <2>2. QED
    BY <2>1, SMTT(30)
<1>5. /\ <<>> \in Seq(Messages) /\ <<>> \in Seq(Byte)
      /\ <<>> \in Seq(Seq(Cell)) /\ <<>> \in Seq(Sendable)
      /\ <<>> \in Seq(Nat) /\ Len(<<>>) = 0
  BY SMTT(30)
<1>6. TypeOK
  <2>1. wire \in [Vfd -> Seq(Byte)] /\ header \in [1..4 -> Cell]
    BY <1>2, <1>5 DEF Cell
  <2>2. need \in Int /\ processVfd \in Int
    BY <1>2, SMTT(30)
  <2>3. buf \in Buffer
    BY <1>3 DEF BufInv
  <2>4. QED
    BY <1>2, <1>5, <2>1, <2>2, <2>3 DEF TypeOK, Cell
<1>7. ObjectOK
  <2>1. 0 \in 0..(IntValues - 1) /\ 4 \in 1..4
    BY IntValuesNat, SMTT(30)
  <2>2. piece \in [vfd : 0..(IntValues - 1), bytes : Seq(Byte)] /\ piece.bytes = <<>>
    BY <1>2, <1>5, <2>1
  <2>3. QED
    BY <1>2, <1>3, <1>6, <2>1, <2>2 DEF ObjectOK
<1>8. ASSUME NEW v, Vfd = {v} PROVE OrderOK(v)
  <2>1. piece.bytes \o wire[v] = <<>>
    <3>1. piece.bytes = <<>> /\ wire[v] = <<>>
      BY <1>2, <1>8
    <3>2. QED
      BY <1>5, <3>1, ConcatEmptySeq
  <2>2. BodySteps(Bodies(<<>>), <<>>)
    BY <1>5, BodyEquations
  <2>3. Bodies(<<>>)[0] = <<>>
    BY <2>2 DEF BodySteps
  <2>4. FramesOK(<<>>, <<>>, <<>>)
    BY <1>5, SMTT(30) DEF FramesOK, End
  <2>5. AtHeader(<<>>, <<>>, <<>>, 0, 4, <<>>, <<>>)
    BY <1>5, <2>3, SMTT(30) DEF AtHeader, Remains, PlainAt, End
  <2>6. 0 \in 0..Len(<<>>)
    BY SMTT(30)
  <2>7. PlacedAt(<<>>, <<>>, <<>>, 0, "header", 4, <<>>, <<>>)
    BY <2>4, <2>5, <2>6 DEF PlacedAt
  <2>8. Placed(<<>>, 0, "header", 4, <<>>, <<>>)
    BY <2>7 DEF Placed
  <2>9. Seen(<<>>, <<>>)
    BY SMTT(30) DEF Seen
  <2>10. QED
    BY <1>2, <1>4, <1>5, <2>1, <2>8, <2>9 DEF OrderOK
<1>9. QED
  BY <1>7, <1>8 DEF HeaderInv

(* Every step keeps the invariant.                                         *)
LEMMA StepInv == HeaderInv /\ [Next]_vars => HeaderInv'
<1>1. SUFFICES ASSUME HeaderInv, [Next]_vars PROVE HeaderInv'
  OBVIOUS
<1>2. CASE \E u \in Vfd, msg \in Messages : WriteData(u, msg)
  BY <1>1, <1>2, WriteDataInv
<1>3. CASE \E u \in Vfd : \E n \in 1..Len(wire[u]) : ReadData(u, n)
  BY <1>1, <1>3, ReadDataInv
<1>4. CASE ReadHeader
  BY <1>1, <1>4, ReadHeaderInv
<1>5. CASE ReadBody
  BY <1>1, <1>5, ReadBodyInv
<1>6. CASE ReturnFromReadData
  BY <1>1, <1>6, ReturnInv
<1>7. CASE UNCHANGED vars
  <2>1. /\ wire' = wire /\ piece' = piece /\ reading' = reading
        /\ sent' = sent /\ status' = status /\ need' = need
        /\ header' = header /\ processVfd' = processVfd /\ buf' = buf /\ handed' = handed
        /\ fault' = fault /\ split' = split
    BY <1>7 DEF vars, object
  <2>2. QED
    BY <1>1, <2>1 DEF HeaderInv, ObjectOK, TypeOK, OrderOK
<1>8. QED
  BY <1>1, <1>2, <1>3, <1>4, <1>5, <1>6, <1>7 DEF Next

(* The invariant holds always.                                             *)
LEMMA HeaderInvariant == Spec => []HeaderInv
  BY InitInv, StepInv, PTL DEF Spec

(* The members of PacketHeaderProcess keep their types, whatever is sent,  *)
(* over however many descriptors, and wherever headers are cut.            *)
THEOREM HeaderTypeOK == Spec => []TypeOK
<1>1. HeaderInv => TypeOK
  BY DEF HeaderInv, ObjectOK
<1>2. QED
  BY <1>1, HeaderInvariant, PTL

(* With one descriptor and headers that come whole, ReadOnceData finds     *)
(* each end of a body where WriteData put it, and the buffer then holds    *)
(* all bodies so far.                                                      *)
THEOREM HeaderBodies == Spec => []BodiesInOrder
<1>1. HeaderInv => BodiesInOrder
  <2>1. SUFFICES ASSUME HeaderInv, ~split, Cardinality(Vfd) = 1, Sound(buf)
                 PROVE  /\ Len(handed) <= Len(sent)
                        /\ \A n \in 1..Len(handed) : handed[n] = Bodies(sent)[n]
    BY DEF BodiesInOrder
  <2>2. IsFiniteSet(Vfd)
    <3> DEFINE m == IntValues \div 2 - 1
    <3>1. m \in Int /\ 1 \in Int
      BY IntValuesNat, SMTT(30)
    <3>2. Vfd \in SUBSET (1..m)
      BY HeaderAssumption
    <3> HIDE DEF m
    <3>3. IsFiniteSet(1..m)
      BY <3>1, FS_Interval
    <3>4. QED
      BY <3>2, <3>3, FS_Subset
  <2>3. PICK v : Vfd = {v}
    BY <2>1, <2>2, FS_Singleton
  <2>4. Seen(sent, handed)
    BY <2>1, <2>3 DEF HeaderInv, OrderOK
  <2>5. QED
    BY <2>4 DEF Seen
<1>2. QED
  BY <1>1, HeaderInvariant, PTL

=============================================================================
