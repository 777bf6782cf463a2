------------------------ MODULE SocketManagerProofs -------------------------
(***************************************************************************)
(* The invariants of SocketManager, for every number of descriptors,       *)
(* connections and addresses.                                              *)
(***************************************************************************)
EXTENDS SocketManagerStepProofs, FiniteSetTheorems, SequenceTheorems, WellFoundedInduction

\* Leaves are for Zenon; the ones with arithmetic or functions cite SMT.
USE ZenonT(30)

(* Induction over the naturals and primitive recursion, with sets and      *)
(* functions for predicates and steps: the loop of epoll_dispatch is a     *)
(* recursive function.                                                     *)

(* A set with 0 and every successor of its members has all naturals.       *)
LEMMA NatSetInduction ==
    ASSUME NEW S, 0 \in S, \A n \in Nat : n \in S => n + 1 \in S
    PROVE  \A n \in Nat : n \in S
<1> DEFINE R == OpToRel(<, Nat)
<1>1. SUFFICES ASSUME Nat \ S # {} PROVE FALSE
  OBVIOUS
<1>2. IsWellFoundedOn(R, Nat)
  BY NatLessThanWellFounded
<1>3. PICK x \in Nat \ S : \A y \in Nat \ S : ~(<<y, x>> \in R)
  <2> HIDE DEF R
  <2>1. QED
    BY <1>1, <1>2, WFMin
<1>4. x - 1 \in Nat
  BY SMTT(30)
<1>5. x - 1 \in S
  <2>1. <<x - 1, x>> \in R
    BY <1>4, SMTT(30) DEF OpToRel
  <2>2. QED
    BY <1>3, <1>4, <2>1
<1>6. QED
  BY <1>4, <1>5, SMTT(30)

(* Induction up to m.                                                      *)
LEMMA UpToInduction ==
    ASSUME NEW m \in Nat, NEW S, 0 \in S, \A n \in 1..m : n - 1 \in S => n \in S
    PROVE  \A n \in 0..m : n \in S
<1> DEFINE T == {n \in Nat : n <= m => n \in S}
<1>1. 0 \in T
  OBVIOUS
<1>2. \A n \in Nat : n \in T => n + 1 \in T
  BY SMTT(30)
<1>3. \A n \in Nat : n \in T
  <2> HIDE DEF T
  <2>1. QED
    BY <1>1, <1>2, NatSetInduction
<1>4. QED
  BY <1>3, SMTT(30)

\* g starts with first and goes on step by step, up to m.
Iterates(g, m, first, step) ==
    g[0] = first /\ \A n \in 1..m : g[n] = step[n][g[n - 1]]

(* There is a function with a given value at 0 whose every further value   *)
(* is the given step applied to the value before.                          *)
LEMMA PrimitiveRecursion ==
    ASSUME NEW m \in Nat, NEW X, NEW first \in X, NEW step \in [1..m -> [X -> X]]
    PROVE  \E g \in [0..m -> X] : Iterates(g, m, first, step)
<1> DEFINE Good(k, g) == Iterates(g, k, first, step)
           S == {k \in 0..m : \E g \in [0..k -> X] : Good(k, g)}
<1>1. 0 \in S
  <2> DEFINE g == [i \in 0..0 |-> first]
  <2>1. g \in [0..0 -> X] /\ Good(0, g)
    BY SMTT(30) DEF Iterates
  <2> HIDE DEF g, Good
  <2>2. QED
    BY <2>1, SMTT(30)
<1>2. ASSUME NEW n \in 1..m, n - 1 \in S PROVE n \in S
  <2>1. PICK g \in [0..(n - 1) -> X] : Good(n - 1, g)
    BY <1>2
  <2> DEFINE h == [i \in 0..n |-> IF i = n THEN step[n][g[n - 1]] ELSE g[i]]
  <2>2. n - 1 \in 0..(n - 1) /\ g[n - 1] \in X /\ step[n][g[n - 1]] \in X
    BY SMTT(30)
  <2>3. h \in [0..n -> X]
    BY <2>2, SMTT(30)
  <2>4. h[0] = first
    BY <2>1, SMTT(30) DEF Iterates
  <2>5. ASSUME NEW i \in 1..n PROVE h[i] = step[i][h[i - 1]]
    <3>1. h[i - 1] = g[i - 1]
      BY SMTT(30)
    <3>2. CASE i = n
      BY <3>1, <3>2, SMTT(30)
    <3>3. CASE i # n
      <4>1. i \in 1..(n - 1)
        BY <3>3, SMTT(30)
      <4>2. h[i] = g[i]
        BY <3>3, SMTT(30)
      <4>3. QED
        BY <4>1, <4>2, <3>1, <2>1 DEF Iterates
    <3>4. QED
      BY <3>2, <3>3
  <2>6. Good(n, h)
    BY <2>4, <2>5 DEF Iterates
  <2> HIDE DEF h, Good
  <2>7. QED
    BY <2>3, <2>6, SMTT(30)
<1>3. \A n \in 0..m : n \in S
  <2> HIDE DEF S
  <2>1. QED
    BY <1>1, <1>2, UpToInduction
<1>4. QED
  BY <1>3, SMTT(30)

-----------------------------------------------------------------------------
USE EventAssumption

(* A sequence of one element.                                              *)
LEMMA SingletonIsSeq ==
    ASSUME NEW S, NEW e \in S
    PROVE  <<e>> \in Seq(S) /\ Len(<<e>>) = 1 /\ <<e>>[1] = e
  BY SMTT(30)

(* The loop of epoll_dispatch is defined for every number of descriptors:  *)
(* the queue grows by what each of them wakes up.                          *)
LEMMA QueueEquations ==
    ASSUME NEW b \in Bases, NEW order \in Seq(Fd \cup {Listener}),
           NEW what \in [Fd -> SUBSET Kinds]
    PROVE  LET q == Queue(b, order, what) IN
           /\ q \in [0..Len(order) -> ActiveQueues]
           /\ q[0] = <<>>
           /\ \A n \in 1..Len(order) :
                 q[n] = q[n - 1] \o Woken(b, what, order[n], "read")
                                \o Woken(b, what, order[n], "write")
<1> DEFINE L == Len(order)
           W(n, k) == Woken(b, what, order[n], k)
           Then(s, n) == s \o W(n, "read") \o W(n, "write")
           none == <<>>
           step == [n \in 1..L |-> [s \in ActiveQueues |-> Then(s, n)]]
           Eqn(g) == g = [n \in 0..L |-> IF n = 0 THEN none ELSE Then(g[n - 1], n)]
           q == Queue(b, order, what)
<1>1. L \in Nat /\ <<>> \in ActiveQueues
  BY SMTT(30) DEF ActiveQueues
<1>0. \A e \in Events \cup {ListenEvent} : <<e>> \in ActiveQueues
  BY SingletonIsSeq DEF ActiveQueues
<1>2. \A n \in 1..L, k \in Kinds : W(n, k) \in ActiveQueues
  <2>1. SUFFICES ASSUME NEW n \in 1..L, NEW k \in Kinds PROVE W(n, k) \in ActiveQueues
    OBVIOUS
  <2>2. order[n] \in Fd \cup {Listener}
    BY ElementOfSeq
  <2>3. order[n] \in Fd => b.slot[order[n]][k] \in Bev \cup {None}
    BY SMTT(30) DEF Bases
  <2>4. CASE order[n] = Listener
    <3>1. W(n, k) = <<>> \/ W(n, k) = <<ListenEvent>>
      BY <2>4 DEF Woken
    <3>2. ListenEvent \in Events \cup {ListenEvent}
      OBVIOUS
    <3> HIDE DEF W
    <3>3. QED
      BY <3>1, <3>2, <1>0, <1>1
  <2>5. CASE order[n] \in Fd
    <3> DEFINE e == <<b.slot[order[n]][k], k>>
    <3>1. b.slot[order[n]][k] # None => e \in Events \cup {ListenEvent}
      BY <2>3, <2>5 DEF Events
    <3>2. W(n, k) = <<>> \/ (W(n, k) = <<e>> /\ b.slot[order[n]][k] # None)
      BY <2>5 DEF Woken
    <3> HIDE DEF e, W
    <3>3. QED
      BY <3>1, <3>2, <1>0, <1>1
  <2>6. QED
    BY <2>2, <2>4, <2>5
<1>3. ASSUME NEW n \in 1..L, NEW s \in ActiveQueues PROVE Then(s, n) \in ActiveQueues
  <2> HIDE DEF W, L
  <2>1. QED
    BY <1>2, ConcatProperties DEF ActiveQueues, Kinds
<1>4. q = CHOOSE h : Eqn(h)
  BY DEF Queue
<1> HIDE DEF W, L, Then, none, q
<1>5. step \in [1..L -> [ActiveQueues -> ActiveQueues]]
  BY <1>3
<1>6. L \in Nat /\ none \in ActiveQueues
  BY <1>1 DEF none
<1>7. PICK g \in [0..L -> ActiveQueues] : Iterates(g, L, none, step)
  <2> HIDE DEF step
  <2>1. QED
    BY <1>5, <1>6, PrimitiveRecursion
<1>8. ASSUME NEW n \in 1..L PROVE g[n] = Then(g[n - 1], n)
  <2>1. g[n - 1] \in ActiveQueues
    BY <1>6, SMTT(30)
  <2>2. QED
    BY <1>7, <2>1 DEF Iterates
<1>9. Eqn(g)
  <2>1. \A n \in 0..L : g[n] = IF n = 0 THEN none ELSE Then(g[n - 1], n)
    BY <1>6, <1>7, <1>8, SMTT(30) DEF Iterates
  <2>2. QED
    BY <2>1
<1>10. Eqn(q)
  <2> HIDE DEF Eqn
  <2>1. QED
    BY <1>4, <1>9
<1>11. q[0] = none /\ \A n \in 1..L : q[n] = Then(q[n - 1], n)
  BY <1>10, <1>6, SMTT(30)
<1>12. \A n \in 0..L : q[n] = g[n]
  <2> DEFINE S == {n \in 0..L : q[n] = g[n]}
  <2>1. 0 \in S
    BY <1>6, <1>7, <1>11, SMTT(30) DEF Iterates
  <2>2. \A n \in 1..L : n - 1 \in S => n \in S
    BY <1>8, <1>11, <1>6, SMTT(30)
  <2>3. \A n \in 0..L : n \in S
    <3> HIDE DEF S
    <3>1. QED
      BY <2>1, <2>2, <1>6, UpToInduction
  <2>4. QED
    BY <2>3
<1>13. q \in [0..L -> ActiveQueues]
  BY <1>10, <1>12
<1>14. QED
  BY <1>11, <1>13 DEF q, W, L, Then, none

(* epoll_dispatch leaves the table alone, and what it makes active is what *)
(* the reported descriptors wake up.                                       *)
LEMMA DispatchedFields ==
    ASSUME NEW b \in Bases, NEW order \in Seq(Fd \cup {Listener}),
           NEW what \in [Fd -> SUBSET Kinds], NEW S,
           \A n \in 1..Len(order), k \in Kinds : Woken(b, what, order[n], k) \in Seq(S)
    PROVE  LET r == Dispatched(b, order, what) IN
           /\ r \in Bases /\ r.slot = b.slot /\ r.mask = b.mask
           /\ r.active \in Seq(S)
<1> DEFINE L == Len(order)
           q == Queue(b, order, what)
           T == {n \in 0..L : q[n] \in Seq(S)}
<1>1. L \in Nat /\ q \in [0..L -> ActiveQueues] /\ q[0] = <<>>
      /\ \A n \in 1..L : q[n] = q[n - 1] \o Woken(b, what, order[n], "read")
                                         \o Woken(b, what, order[n], "write")
  <2>1. L \in Nat
    BY LenProperties
  <2>2. QED
    BY <2>1, QueueEquations
<1> HIDE DEF q
<1>2. 0 \in T
  <2>1. q[0] \in Seq(S)
    BY <1>1, EmptySeq
  <2>2. L \in Nat
    BY <1>1
  <2>3. 0 \in 0..L
    <3> HIDE DEF L
    <3>1. QED
      BY <2>2, SMTT(30)
  <2>4. QED
    BY <2>1, <2>3
<1>3. ASSUME NEW n \in 1..L, n - 1 \in T PROVE n \in T
  <2>1. q[n - 1] \in Seq(S)
    BY <1>3
  <2>2. q[n - 1] \o Woken(b, what, order[n], "read") \in Seq(S)
    BY <2>1, ConcatProperties DEF Kinds
  <2>3. q[n] \in Seq(S)
    <3>1. Woken(b, what, order[n], "write") \in Seq(S)
      BY DEF Kinds
    <3>2. q[n - 1] \o Woken(b, what, order[n], "read") \o Woken(b, what, order[n], "write")
            \in Seq(S)
      BY <2>2, <3>1, ConcatProperties
    <3>3. QED
      BY <1>1, <3>2
  <2>4. QED
    BY <2>3, SMTT(30)
<1>4. \A n \in 0..L : n \in T
  <2> HIDE DEF T, L
  <2>1. QED
    BY <1>1, <1>2, <1>3, UpToInduction
<1>5. Dispatched(b, order, what) = [b EXCEPT !.active = q[L]]
  BY DEF Dispatched, q
<1>6. q[L] \in Seq(S) /\ q[L] \in ActiveQueues
  BY <1>1, <1>4, SMTT(30)
<1>7. QED
  BY <1>5, <1>6 DEF Bases, ActiveQueues

(* A sequence with room for one element is empty or a singleton.           *)
LEMMA AtMostOne ==
    ASSUME NEW n \in Nat, n <= 1
    PROVE  n \in {0, 1}
  BY SMTT(30)

(* One turn of the loop of epoll_dispatch keeps the queue in pairs: it     *)
(* appends at most a read and a write event of a bufferevent that is not   *)
(* in the queue yet.                                                       *)
LEMMA PairedStep ==
    ASSUME NEW S, NEW q \in Seq(S), NEW u \in Seq(S), NEW v \in Seq(S),
           Paired(q), Len(u) <= 1, Len(v) <= 1,
           \A j \in 1..Len(u) : u[j][2] = "read" /\ \A i \in 1..Len(q) : q[i][1] # u[j][1],
           \A j \in 1..Len(v) : v[j][2] = "write" /\ \A i \in 1..Len(q) : q[i][1] # v[j][1]
    PROVE  Paired(q \o u \o v)
<1> DEFINE A == q \o u \o v
<1>0. Len(q) \in Nat /\ Len(u) \in Nat /\ Len(v) \in Nat
  BY LenProperties
<1>1. Len(q) \in Nat /\ Len(u) \in {0, 1} /\ Len(v) \in {0, 1}
  BY <1>0, AtMostOne
<1>2. /\ q \o u \in Seq(S) /\ Len(q \o u) = Len(q) + Len(u)
      /\ \A i \in 1..(Len(q) + Len(u)) : (q \o u)[i] = IF i <= Len(q) THEN q[i] ELSE u[i - Len(q)]
  BY ConcatProperties, SMTT(30)
<1>3. /\ Len(A) = Len(q) + Len(u) + Len(v)
      /\ \A i \in 1..Len(A) : A[i] = IF i <= Len(q) + Len(u) THEN (q \o u)[i]
                                     ELSE v[i - (Len(q) + Len(u))]
  BY <1>1, <1>2, ConcatProperties, SMTT(30)
<1>4. \A i \in 1..Len(A) :
        /\ i <= Len(q) => A[i] = q[i]
        /\ i > Len(q) /\ i <= Len(q) + Len(u) => Len(u) = 1 /\ i = Len(q) + 1 /\ A[i] = u[1]
        /\ i > Len(q) + Len(u) => Len(v) = 1 /\ i = Len(q) + Len(u) + 1 /\ A[i] = v[1]
  BY <1>1, <1>2, <1>3, SMTT(30)
<1> HIDE DEF A
<1>5. SUFFICES ASSUME NEW i \in 1..Len(A), NEW j \in 1..Len(A), i < j, A[i][1] = A[j][1]
               PROVE  j = i + 1 /\ A[i][2] = "read" /\ A[j][2] = "write"
  BY DEF Paired, A
<1>6. CASE j <= Len(q)
  <2>1. i \in 1..Len(q) /\ j \in 1..Len(q)
    BY <1>1, <1>5, <1>6, SMTT(30)
  <2>2. A[i] = q[i] /\ A[j] = q[j]
    BY <1>4, <2>1, SMTT(30)
  <2>3. QED
    BY <1>5, <2>1, <2>2, SMTT(30) DEF Paired
<1>7. CASE j > Len(q) /\ i <= Len(q)
  BY <1>1, <1>3, <1>4, <1>5, <1>7, SMTT(30)
<1>8. CASE i > Len(q)
  BY <1>1, <1>3, <1>4, <1>5, <1>8, SMTT(30)
<1>9. QED
  BY <1>1, <1>3, <1>6, <1>7, <1>8, SMTT(30)

\* No two of the reported descriptors wake up the same bufferevent.
OneDescriptorEach(b, order, what) ==
    \A i, j \in 1..Len(order), k, l \in Kinds, d, e \in Events \cup {ListenEvent} :
        /\ Woken(b, what, order[i], k) = <<d>> /\ Woken(b, what, order[j], l) = <<e>>
        /\ d[1] = e[1]
        => i = j

\* Queue A holds what the reported descriptors wake up, in pairs.
WokenInPairs(A, b, order, what) ==
    /\ A \in ActiveQueues
    /\ \A i \in 1..Len(A) : \E n \in 1..Len(order), k \in Kinds :
          Woken(b, what, order[n], k) = <<A[i]>>
    /\ Paired(A)

(* If no two descriptors wake up the same bufferevent, epoll_dispatch      *)
(* makes active what it finds in its table, in pairs.                      *)
LEMMA DispatchedQueue ==
    ASSUME NEW b \in Bases, NEW order \in Seq(Fd \cup {Listener}),
           NEW what \in [Fd -> SUBSET Kinds], OneDescriptorEach(b, order, what)
    PROVE  WokenInPairs(Dispatched(b, order, what).active, b, order, what)
<1> DEFINE L == Len(order)
           W(n, k) == Woken(b, what, order[n], k)
           q == Queue(b, order, what)
           Stems(A, n) == \A i \in 1..Len(A) : \E m \in 1..n, k \in Kinds : W(m, k) = <<A[i]>>
           S == {n \in 0..L : Stems(q[n], n) /\ Paired(q[n])}
<1>1. L \in Nat /\ q \in [0..L -> ActiveQueues] /\ q[0] = <<>>
      /\ \A n \in 1..L : q[n] = q[n - 1] \o W(n, "read") \o W(n, "write")
  <2>1. L \in Nat
    BY LenProperties
  <2>2. QED
    BY <2>1, QueueEquations
<1>2. \A n \in 1..L, k \in Kinds :
         W(n, k) = <<>> \/ \E e \in Events \cup {ListenEvent} : W(n, k) = <<e>> /\ e[2] = k
  <2>1. SUFFICES ASSUME NEW n \in 1..L, NEW k \in Kinds
                 PROVE  \/ W(n, k) = <<>>
                        \/ \E e \in Events \cup {ListenEvent} : W(n, k) = <<e>> /\ e[2] = k
    OBVIOUS
  <2>2. order[n] \in Fd \cup {Listener}
    BY ElementOfSeq
  <2>4. CASE order[n] = Listener
    BY <2>4, SMTT(30) DEF Woken, ListenEvent
  <2>5. CASE order[n] \in Fd
    <3> DEFINE e == <<b.slot[order[n]][k], k>>
    <3>1. b.slot[order[n]][k] # None => e \in Events /\ e[2] = k
      BY <2>5, SMTT(30) DEF Events, Bases
    <3>2. W(n, k) = <<>> \/ (W(n, k) = <<e>> /\ b.slot[order[n]][k] # None)
      BY <2>5 DEF Woken
    <3> HIDE DEF e, W
    <3>3. QED
      BY <3>1, <3>2
  <2>6. QED
    BY <2>2, <2>4, <2>5
<1> HIDE DEF W, L, q
<1>3. 0 \in S
  BY <1>1, SMTT(30) DEF Paired
<1>4. ASSUME NEW n \in 1..L, n - 1 \in S PROVE n \in S
  <2> DEFINE u == W(n, "read")
             v == W(n, "write")
  <2>1. n - 1 \in 0..L /\ q[n - 1] \in ActiveQueues /\ Stems(q[n - 1], n - 1) /\ Paired(q[n - 1])
    BY <1>1, <1>4
  <2>2. /\ u = <<>> \/ \E e \in Events \cup {ListenEvent} : u = <<e>> /\ e[2] = "read"
        /\ v = <<>> \/ \E e \in Events \cup {ListenEvent} : v = <<e>> /\ e[2] = "write"
    BY <1>2 DEF Kinds
  <2>3. ASSUME NEW w, NEW k \in Kinds,
               w = <<>> \/ \E e \in Events \cup {ListenEvent} : w = <<e>> /\ e[2] = k
        PROVE  /\ w \in ActiveQueues /\ Len(w) <= 1
               /\ \A j \in 1..Len(w) :
                     j = 1 /\ w = <<w[j]>> /\ w[j][2] = k /\ w[j] \in Events \cup {ListenEvent}
    <3>1. CASE w = <<>>
      BY <3>1, SMTT(30) DEF ActiveQueues
    <3>2. CASE w # <<>>
      <4>1. PICK e \in Events \cup {ListenEvent} : w = <<e>> /\ e[2] = k
        BY <2>3, <3>2
      <4>2. w \in ActiveQueues /\ Len(w) = 1 /\ w[1] = e
        BY <4>1, SingletonIsSeq DEF ActiveQueues
      <4>3. QED
        BY <4>1, <4>2, SMTT(30)
    <3>3. QED
      BY <3>1, <3>2
  <2> DEFINE p == q[n - 1]
  <2>4. /\ u \in ActiveQueues /\ Len(u) <= 1
        /\ \A j \in 1..Len(u) :
              j = 1 /\ u = <<u[j]>> /\ u[j][2] = "read" /\ u[j] \in Events \cup {ListenEvent}
    BY <2>2, <2>3 DEF Kinds
  <2>5. /\ v \in ActiveQueues /\ Len(v) <= 1
        /\ \A j \in 1..Len(v) :
              j = 1 /\ v = <<v[j]>> /\ v[j][2] = "write" /\ v[j] \in Events \cup {ListenEvent}
    BY <2>2, <2>3 DEF Kinds
  <2>6. ASSUME NEW i \in 1..Len(p), NEW k \in Kinds,
               NEW e \in Events \cup {ListenEvent}, W(n, k) = <<e>>
        PROVE  p[i][1] # e[1]
    <3>1. PICK m \in 1..(n - 1), l \in Kinds : W(m, l) = <<p[i]>>
      BY <2>1
    <3>2. m \in 1..L /\ m # n
      BY <1>1, SMTT(30)
    <3>3. p[i] \in Events \cup {ListenEvent}
      BY <2>1, ElementOfSeq DEF ActiveQueues
    <3>4. QED
      BY <2>6, <3>1, <3>2, <3>3 DEF W, L, OneDescriptorEach
  <2>7. \A j \in 1..Len(u) : u[j][2] = "read" /\ \A i \in 1..Len(p) : p[i][1] # u[j][1]
    BY <2>4, <2>6 DEF Kinds
  <2>8. \A j \in 1..Len(v) : v[j][2] = "write" /\ \A i \in 1..Len(p) : p[i][1] # v[j][1]
    BY <2>5, <2>6 DEF Kinds
  <2>9. Paired(q[n])
    <3> HIDE DEF u, v, p
    <3>1. Paired(p \o u \o v)
      BY <2>1, <2>4, <2>5, <2>7, <2>8, PairedStep DEF ActiveQueues, p
    <3>2. QED
      BY <3>1, <1>1 DEF p, u, v
  <2>10. Stems(q[n], n)
    <3> DEFINE A == p \o u \o v
    <3>0. q[n] = A
      BY <1>1
    <3> HIDE DEF u, v, p
    <3>1. Len(p) \in Nat /\ Len(u) \in {0, 1} /\ Len(v) \in {0, 1} /\ p \in ActiveQueues
      BY <2>1, <2>4, <2>5, LenProperties, AtMostOne DEF ActiveQueues, p
    <3>2. /\ p \o u \in ActiveQueues /\ Len(p \o u) = Len(p) + Len(u)
          /\ \A i \in 1..(Len(p) + Len(u)) :
                (p \o u)[i] = IF i <= Len(p) THEN p[i] ELSE u[i - Len(p)]
      BY <3>1, <2>4, ConcatProperties, SMTT(30) DEF ActiveQueues
    <3>3. /\ Len(A) = Len(p) + Len(u) + Len(v)
          /\ \A i \in 1..Len(A) : A[i] = IF i <= Len(p) + Len(u) THEN (p \o u)[i]
                                         ELSE v[i - (Len(p) + Len(u))]
      BY <3>1, <3>2, <2>5, ConcatProperties, SMTT(30) DEF ActiveQueues
    <3> HIDE DEF A
    <3>4. ASSUME NEW i \in 1..Len(A) PROVE \E m \in 1..n, k \in Kinds : W(m, k) = <<A[i]>>
      <4>1. CASE i <= Len(p)
        <5>1. i \in 1..Len(p) /\ A[i] = p[i]
          BY <3>1, <3>2, <3>3, <4>1, SMTT(30)
        <5>2. PICK m \in 1..(n - 1), l \in Kinds : W(m, l) = <<p[i]>>
          BY <2>1, <5>1 DEF p
        <5>3. m \in 1..n
          BY <1>1, SMTT(30)
        <5>4. QED
          BY <5>1, <5>2, <5>3
      <4>2. CASE i > Len(p) /\ i <= Len(p) + Len(u)
        <5>1. 1 \in 1..Len(u) /\ A[i] = u[1]
          BY <3>1, <3>2, <3>3, <4>2, SMTT(30)
        <5>2. W(n, "read") = <<A[i]>>
          BY <5>1, <2>4 DEF u
        <5>3. n \in 1..n
          BY <1>1, SMTT(30)
        <5>4. QED
          BY <5>2, <5>3 DEF Kinds
      <4>3. CASE i > Len(p) + Len(u)
        <5>1. 1 \in 1..Len(v) /\ A[i] = v[1]
          BY <3>1, <3>2, <3>3, <4>3, SMTT(30)
        <5>2. W(n, "write") = <<A[i]>>
          BY <5>1, <2>5 DEF v
        <5>3. n \in 1..n
          BY <1>1, SMTT(30)
        <5>4. QED
          BY <5>2, <5>3 DEF Kinds
      <4>4. QED
        BY <3>1, <3>3, <4>1, <4>2, <4>3, SMTT(30)
    <3>5. QED
      BY <3>0, <3>4
  <2>11. QED
    BY <1>1, <2>9, <2>10, SMTT(30)
<1>5. \A n \in 0..L : n \in S
  <2> HIDE DEF S
  <2>1. QED
    BY <1>1, <1>3, <1>4, UpToInduction
<1>6. Dispatched(b, order, what).active = q[L]
  BY DEF Dispatched, Bases, q, L
<1>7. QED
  BY <1>1, <1>5, <1>6, SMTT(30) DEF W, L, WokenInPairs

(* epoll_wait reports finitely many descriptors.                           *)
LEMMA ReadyIsFinite == IsFiniteSet(Ready)
<1>1. Ready \subseteq Fd \cup {Listener}
  BY DEF Ready
<1>2. IsFiniteSet(Fd \cup {Listener})
  BY FS_AddElement, ManagerAssumption
<1>3. QED
  BY <1>1, <1>2, FS_Subset

\* What a descriptor wakes up is a known event.
LEMMA WokenKnown ==
    ASSUME AnyInv, NEW what \in [Fd -> SUBSET Kinds], NEW f \in Fd \cup {Listener}, NEW k \in Kinds
    PROVE  Woken(base, what, f, k) \in Seq(KnownEvents(bev))
<1>1. CASE f = Listener
  <2>1. ListenEvent \in KnownEvents(bev)
    BY DEF KnownEvents
  <2>2. QED
    BY <1>1, <2>1, SingletonIsSeq, EmptySeq DEF Woken
<1>2. CASE f # Listener /\ f \in Fd
  <2> DEFINE e == <<base.slot[f][k], k>>
  <2>1. Woken(base, what, f, k) = <<>> \/
        (base.slot[f][k] # None /\ Woken(base, what, f, k) = <<e>>)
    BY <1>2 DEF Woken
  <2>2. base.slot[f][k] # None => base.slot[f][k] \in Bev /\ Known(bev, base.slot[f][k])
    BY <1>2, SMTT(30) DEF AnyInv, BaseKnown, Bases
  <2>3. base.slot[f][k] # None => e \in KnownEvents(bev)
    BY <2>2 DEF KnownEvents, Events
  <2> HIDE DEF e
  <2>4. CASE Woken(base, what, f, k) = <<>>
    BY <2>4, EmptySeq
  <2>5. CASE base.slot[f][k] # None /\ Woken(base, what, f, k) = <<e>>
    BY <2>3, <2>5, SingletonIsSeq, SMTT(30)
  <2>6. QED
    BY <2>1, <2>4, <2>5
<1>3. QED
  BY <1>1, <1>2

(* An order of the ready descriptors, and what is reported of them.        *)
LEMMA DispatchOrder ==
    ASSUME TypeOK, NEW order \in [1..Cardinality(Ready) -> Ready]
    PROVE  /\ order \in Seq(Fd \cup {Listener}) /\ Len(order) = Cardinality(Ready)
           /\ [f \in Fd |-> Reported(f)] \in [Fd -> SUBSET Kinds]
<1>1. Cardinality(Ready) \in Nat
  BY ReadyIsFinite, FS_CardinalityType
<1>2. Ready \subseteq Fd \cup {Listener}
  BY DEF Ready
<1>3. \A f \in Fd : Reported(f) \subseteq Kinds
  BY DEF Reported, TypeOK, Bases
<1>4. QED
  <2> HIDE DEF Ready
  <2>1. order \in Seq(Fd \cup {Listener}) /\ Len(order) = Cardinality(Ready)
    BY <1>1, <1>2, SMTT(30)
  <2>2. QED
    BY <1>3, <2>1

(* A turn of epoll_dispatch keeps AnyInv.                                  *)
LEMMA DispatchAny == AnyInv /\ Dispatch => AnyInv'
<1> SUFFICES ASSUME AnyInv, Dispatch PROVE AnyInv'
  OBVIOUS
<1> DEFINE what == [f \in Fd |-> Reported(f)]
<1>1. PICK order \in [1..Cardinality(Ready) -> Ready] : base' = Dispatched(base, order, what)
  BY DEF Dispatch
<1>2. /\ proc' = "run" /\ UNCHANGED <<file, net, bev, obj, maps, told, misrouted, foreign>>
  BY DEF Dispatch
<1>3. order \in Seq(Fd \cup {Listener}) /\ what \in [Fd -> SUBSET Kinds]
  BY DispatchOrder DEF AnyInv
<1>4. base \in Bases
  BY DEF AnyInv, BaseKnown
<1> HIDE DEF what
<1>5. \A n \in 1..Len(order), k \in Kinds :
         Woken(base, what, order[n], k) \in Seq(KnownEvents(bev))
  <2>1. \A n \in 1..Len(order) : order[n] \in Fd \cup {Listener}
    BY <1>3, ElementOfSeq
  <2>2. QED
    BY <1>3, <2>1, WokenKnown
<1>6. base' \in Bases /\ base'.slot = base.slot /\ base'.active \in Seq(KnownEvents(bev))
  BY <1>1, <1>3, <1>4, <1>5, DispatchedFields
<1>7. BaseKnown(base', bev')
  BY <1>2, <1>6 DEF AnyInv, BaseKnown
<1>8. /\ file' \in Files /\ net' \in Nets /\ proc' \in Procs
      /\ misrouted' \in BOOLEAN /\ foreign' \in BOOLEAN
      /\ bev' \in Bevs /\ SameTargets(bev', bev)
  BY <1>2 DEF AnyInv, TypeOK, Files, Nets, Procs, Bevs, SameTargets
<1>9. QED
  BY <1>2, <1>7, <1>8, PeersUntouched

(* Every step keeps AnyInv.                                                *)
LEMMA NextAny == AnyInv /\ [Next]_vars => AnyInv'
<1> SUFFICES ASSUME AnyInv, [Next]_vars PROVE AnyInv'
  OBVIOUS
<1>1. CASE UNCHANGED vars
  <2>1. TypeOK' /\ LookupsSucceed' /\ ErrorsAfterConnects'
    BY <1>1 DEF vars, maps, AnyInv, TypeOK, LookupsSucceed, ErrorsAfterConnects, Peers,
                InMapOfType
  <2>2. BaseKnown(base', bev') /\ PeersKnown(obj', bev')
    BY <1>1 DEF vars, AnyInv
  <2>3. QED
    BY <2>1, <2>2 DEF AnyInv
<1>2. CASE \E c \in Conn : CreateClientSocket(c)
  BY <1>2, CreateClientSocketAny
<1>3. CASE Dispatch
  BY <1>3, DispatchAny
<1>4. CASE Process
  BY <1>4, ProcessAny
<1>5. CASE Elsewhere
  BY <1>5, ElsewhereAny
<1>6. QED
  BY <1>1, <1>2, <1>3, <1>4, <1>5 DEF Next, Loop, Elsewhere

(* The inductive invariant for every content of freed memory.              *)
LEMMA AnyInvariant == Spec => []AnyInv
  BY InitAny, NextAny, PTL DEF Spec

(* The variables of the process keep their types, whatever _Vfd of a       *)
(* deleted peer reads as. In particular descriptors come from the table of *)
(* open files and the maps hold addresses of peers.                        *)
THEOREM ManagerTypeOK == Spec => []TypeOK
<1>1. AnyInv => TypeOK
  BY DEF AnyInv
<1>2. QED
  BY <1>1, AnyInvariant, PTL

(* Whatever _Vfd of a deleted peer reads as, and whichever descriptor is   *)
(* closed for that: every lookup of the PeerVfdOn functions finds a live   *)
(* peer with that descriptor in the map of its type (PeerVfdOnConnect,     *)
(* PeerVfdOnClose, DelPeerVfd, DelClientVfd).                              *)
THEOREM ManagerLookups == Spec => []LookupsSucceed
<1>1. AnyInv => LookupsSucceed
  BY DEF AnyInv
<1>2. QED
  BY <1>1, AnyInvariant, PTL

(* Whatever _Vfd of a deleted peer reads as: PacketOnError is never called *)
(* for a descriptor more often than PacketOnConnect, and a listed peer has *)
(* been announced (PeerVfdOnConnect, PeerVfdOnClose).                      *)
THEOREM ManagerErrors == Spec => []ErrorsAfterConnects
<1>1. AnyInv => ErrorsAfterConnects
  BY DEF AnyInv
<1>2. QED
  BY <1>1, AnyInvariant, PTL

(* A turn of epoll_dispatch keeps OwnInv: what becomes active belongs to  *)
(* open connections, and the events of one of them lie next to each other. *)
LEMMA DispatchOwn ==
    ASSUME OwnInv, Dispatch
    PROVE  OwnInv'
<1> DEFINE what == [f \in Fd |-> Reported(f)]
<1>1. PICK order \in [1..Cardinality(Ready) -> Ready] :
        /\ \A i, j \in 1..Cardinality(Ready) : i # j => order[i] # order[j]
        /\ base' = Dispatched(base, order, what)
  BY DEF Dispatch
<1>2. proc' = "run" /\ UNCHANGED <<file, net, bev, obj, maps, told, misrouted, foreign>>
  BY DEF Dispatch
<1>3. /\ order \in Seq(Fd \cup {Listener}) /\ Len(order) = Cardinality(Ready)
      /\ what \in [Fd -> SUBSET Kinds] /\ base \in Bases /\ AnyInv
  BY DispatchOrder DEF OwnInv, AnyInv, BaseKnown
<1>4. AnyInv'
  BY <1>3, DispatchAny
<1>5. ASSUME NEW f \in Fd \cup {Listener}, NEW k \in Kinds, NEW e \in Events \cup {ListenEvent},
             Woken(base, what, f, k) = <<e>>
      PROVE  \/ f = Listener /\ e = ListenEvent
             \/ f \in Fd /\ e # ListenEvent /\ e[1] \in Conn /\ file[f] = e[1] /\ bev[e[1]].fd = f
  <2>1. CASE f = Listener
    BY <1>5, <2>1 DEF Woken
  <2>2. CASE f \in Fd
    <3>1. k \in Reported(f) /\ base.slot[f][k] # None /\ e = <<base.slot[f][k], k>>
      BY <1>5, <2>2 DEF Woken
    <3>2. base.mask[f] # {}
      BY <3>1 DEF Reported
    <3>3. base.slot[f][k] = file[f] /\ file[f] \in Conn
      BY <2>2, <3>1, <3>2 DEF OwnInv, MaskOK
    <3>4. bev[file[f]].fd = f
      BY <2>2, <3>3 DEF OwnInv, Linked
    <3>5. e[1] = file[f] /\ e # ListenEvent
      BY <3>1, <3>3 DEF ListenEvent, Conn
    <3>6. QED
      BY <2>2, <3>3, <3>4, <3>5
  <2>3. QED
    BY <2>1, <2>2
<1>6. \A n \in 1..Len(order) : order[n] \in Fd \cup {Listener}
  BY <1>3, ElementOfSeq
<1> HIDE DEF what
<1>7. ASSUME NEW i \in 1..Len(order), NEW j \in 1..Len(order), NEW k \in Kinds, NEW l \in Kinds,
             NEW d \in Events \cup {ListenEvent}, NEW e \in Events \cup {ListenEvent},
             Woken(base, what, order[i], k) = <<d>>, Woken(base, what, order[j], l) = <<e>>,
             d[1] = e[1]
      PROVE  i = j
  <2>1. \/ order[i] = Listener /\ d = ListenEvent
        \/ order[i] \in Fd /\ d[1] \in Conn /\ bev[d[1]].fd = order[i]
    BY <1>5, <1>6, <1>7, SMTT(30)
  <2>2. \/ order[j] = Listener /\ e = ListenEvent
        \/ order[j] \in Fd /\ e[1] \in Conn /\ bev[e[1]].fd = order[j]
    BY <1>5, <1>6, <1>7, SMTT(30)
  <2>3. ListenEvent[1] = Listener /\ Listener \notin Conn
    BY DEF ListenEvent, Conn
  <2>4. order[i] = order[j]
    BY <1>7, <2>1, <2>2, <2>3
  <2>5. QED
    BY <1>1, <1>3, <2>4
<1> DEFINE A == base'.active
<1>8. /\ A \in ActiveQueues
      /\ \A i \in 1..Len(A) : \E n \in 1..Len(order), k \in Kinds :
            Woken(base, what, order[n], k) = <<A[i]>>
      /\ Paired(A)
  <2>1. OneDescriptorEach(base, order, what)
    BY <1>7 DEF OneDescriptorEach
  <2>2. WokenInPairs(Dispatched(base, order, what).active, base, order, what)
    BY <1>3, <2>1, DispatchedQueue
  <2>3. QED
    BY <1>1, <2>2 DEF WokenInPairs
<1>9. AllCurrent(A, file, bev)
  <2>1. ASSUME NEW i \in 1..Len(A), A[i] # ListenEvent PROVE Current(file, bev, A[i][1])
    <3>1. A[i] \in Events \cup {ListenEvent}
      BY <1>8, ElementOfSeq DEF ActiveQueues
    <3>2. PICK n \in 1..Len(order), k \in Kinds : Woken(base, what, order[n], k) = <<A[i]>>
      BY <1>8
    <3>3. order[n] \in Fd /\ file[order[n]] = A[i][1] /\ bev[A[i][1]].fd = order[n]
      BY <1>5, <1>6, <2>1, <3>1, <3>2, SMTT(30)
    <3>4. QED
      BY <3>3 DEF Current
  <2>2. QED
    BY <2>1 DEF AllCurrent
<1>10. QueueOK(A, file, bev, obj) /\ SameTargets(bev', bev)
  BY <1>2, <1>9, CurrentQueueOK DEF SameTargets
<1>11. MaskOK(base', file)
  <2>1. \A n \in 1..Len(order), k \in Kinds :
           Woken(base, what, order[n], k) \in Seq(KnownEvents(bev))
    BY <1>3, <1>6, WokenKnown
  <2>2. base'.slot = base.slot /\ base'.mask = base.mask
    BY <1>1, <1>3, <2>1, DispatchedFields
  <2>3. QED
    BY <2>2 DEF OwnInv, MaskOK
<1>12. QED
  BY <1>2, <1>4, <1>8, <1>10, <1>11, OwnUntouched

(* Once OnError has closed another connection, it has.                     *)
LEMMA ForeignStays == [Next]_vars /\ ~foreign' => ~foreign
<1> SUFFICES ASSUME [Next]_vars, ~foreign' PROVE ~foreign
  OBVIOUS
<1>1. CASE UNCHANGED vars
  BY <1>1 DEF vars
<1>2. CASE Dispatch \/ Elsewhere \/ \E c \in Conn : CreateClientSocket(c)
  BY <1>2 DEF Dispatch, Elsewhere, CreateServerSocket, LoopAgain, CreateClientSocket,
              RemoteConnects, RemoteCloses, RemoteResets, RemoteSends, RemoteReads, processVars
<1>3. CASE Process
  <2>1. ASSUME NEW c, NEW b, OnError(c, b) PROVE ~foreign
    BY <2>1 DEF OnError
  <2>2. NewConnect => ~foreign
    BY DEF NewConnect, Ends
  <2>3. ASSUME NEW c, ReadCb(c) PROVE ~foreign
    BY <2>1, <2>3 DEF ReadCb
  <2>4. ASSUME NEW c, WriteCb(c) PROVE ~foreign
    BY <2>1, <2>4 DEF WriteCb, Ends
  <2>5. QED
    BY <1>3, <2>2, <2>3, <2>4 DEF Process
<1>4. QED
  BY <1>1, <1>2, <1>3 DEF Next, Loop, Elsewhere

(* Every step keeps OwnInv, unless OnError closes another connection.      *)
LEMMA NextOwn ==
    ASSUME OwnInv, [Next]_vars, ~foreign'
    PROVE  OwnInv'
<1>1. CASE UNCHANGED vars
  <2>1. AnyInv'
    BY <1>1, NextAny DEF OwnInv
  <2>2. MapsAgree' /\ CallbacksAlternate' /\ ~misrouted' /\ ~foreign'
    <3>1. Peers' = Peers /\ ~misrouted' /\ ~foreign'
      BY <1>1 DEF OwnInv, Peers, vars, maps
    <3>2. MapsAgree'
      BY <1>1, <3>1, SMTT(30) DEF OwnInv, MapsAgree, vars, maps
    <3>3. CallbacksAlternate'
      BY <1>1, <3>1 DEF OwnInv, CallbacksAlternate, vars, maps
    <3>4. QED
      BY <3>1, <3>2, <3>3
  <2>3. /\ Linked(file', bev', obj', PeerObjList')
        /\ QueueOK(base'.active, file', bev', obj') /\ Paired(base'.active)
        /\ MaskOK(base', file') /\ Fresh(net', bev')
        /\ proc' \in {"start", "wait"} => base'.active = <<>>
    BY <1>1 DEF OwnInv, vars, maps
  <2>4. QED
    BY <2>1, <2>2, <2>3 DEF OwnInv
<1>2. CASE \E c \in Conn : CreateClientSocket(c)
  BY <1>2, CreateClientSocketOwn
<1>3. CASE Dispatch
  BY <1>3, DispatchOwn
<1>4. CASE Process
  BY <1>4, ProcessOwn
<1>5. CASE Elsewhere
  BY <1>5, ElsewhereOwn
<1>6. QED
  BY <1>1, <1>2, <1>3, <1>4, <1>5 DEF Next, Loop, Elsewhere

(* The inductive invariant as long as OnError has closed no connection but *)
(* the one it was called for, whatever _Vfd of a deleted peer reads as.    *)
LEMMA OwnInvariant == Spec => [](~foreign => OwnInv)
<1>1. Init => (~foreign => OwnInv)
  BY InitOwn
<1>2. (~foreign => OwnInv) /\ [Next]_vars => (~foreign => OwnInv)'
  BY NextOwn, ForeignStays
<1>3. QED
  BY <1>1, <1>2, PTL DEF Spec

(* Whatever _Vfd of a deleted peer reads as: while OnError has closed no   *)
(* other connection, the four maps of the SocketManager agree with each    *)
(* other, and exactly the peers that were not deleted are listed           *)
(* (AddPeerObj, DelPeerVfd, DelClientVfd).                                 *)
THEOREM ManagerMaps == Spec => []MapsAgree
<1>1. (~foreign => OwnInv) => MapsAgree
  <2>1. CASE foreign
    BY <2>1 DEF MapsAgree
  <2>2. CASE ~foreign
    BY <2>2 DEF OwnInv
  <2>3. QED
    BY <2>1, <2>2
<1>2. QED
  BY <1>1, OwnInvariant, PTL

(* Whatever _Vfd of a deleted peer reads as: while OnError has closed no   *)
(* other connection, PacketOnConnect and PacketOnError alternate for every *)
(* descriptor (OnError tests _Status).                                     *)
THEOREM ManagerCallbacks == Spec => []CallbacksAlternate
<1>1. (~foreign => OwnInv) => CallbacksAlternate
  <2>1. CASE foreign
    BY <2>1 DEF CallbacksAlternate
  <2>2. CASE ~foreign
    BY <2>2 DEF OwnInv
  <2>3. QED
    BY <2>1, <2>2
<1>2. QED
  BY <1>1, OwnInvariant, PTL

(* Whatever _Vfd of a deleted peer reads as: while OnError has closed no   *)
(* other connection, a listed peer's descriptor is open on the peer's own  *)
(* connection, whose bufferevent calls that peer (NewConnect, OnError).    *)
THEOREM ManagerDescriptors == Spec => []PeersOwnDescriptors
<1>1. (~foreign => OwnInv) => PeersOwnDescriptors
  BY DEF OwnInv, Linked, PeersOwnDescriptors, Peers
<1>2. QED
  BY <1>1, OwnInvariant, PTL

(* Whatever _Vfd of a deleted peer reads as: while OnError has closed no   *)
(* other connection, bytes read from a listed peer's connection are passed *)
(* on under that peer's descriptor (OnRead, PeerVfdOnRead).                *)
THEOREM ManagerData == Spec => []DataToOwner
<1>1. (~foreign => OwnInv) => DataToOwner
  BY DEF OwnInv, DataToOwner
<1>2. QED
  BY <1>1, OwnInvariant, PTL

(* Whatever _Vfd of a deleted peer reads as: while OnError has closed no   *)
(* other connection, no event of a closed connection is active once its    *)
(* descriptor, or the address of its peer, belongs to another (OnError,    *)
(* NewConnect, epoll_dispatch).                                            *)
THEOREM ManagerReuse == Spec => []NoCallbackAfterReuse
<1>1. (~foreign => OwnInv) => NoCallbackAfterReuse
  <2> SUFFICES ASSUME OwnInv, NEW c \in Conn, NEW k \in Kinds, IsActive(base, <<c, k>>)
               PROVE  \/ file[bev[c].fd] = c
                      \/ file[bev[c].fd] = Free /\ ~obj[bev[c].arg].live
    BY DEF NoCallbackAfterReuse
  <2>1. PICK i \in 1..Len(base.active) : base.active[i] = <<c, k>>
    BY DEF IsActive
  <2>2. <<c, k>> # ListenEvent /\ <<c, k>>[1] = c
    BY SMTT(30) DEF ListenEvent, Conn
  <2>3. Current(file, bev, c) \/ JustClosed(file, bev, obj, c)
    BY <2>1, <2>2 DEF OwnInv, QueueOK
  <2>4. QED
    BY <2>3 DEF Current, JustClosed
<1>2. QED
  BY <1>1, OwnInvariant, PTL
=============================================================================
