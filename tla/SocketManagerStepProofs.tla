---------------------- MODULE SocketManagerStepProofs -----------------------
(***************************************************************************)
(* What the operations of libevent and the handlers of the socket layer do *)
(* to the state of the manager, for every number of descriptors,           *)
(* connections and addresses: first whatever OnError reads from a deleted  *)
(* peer, then as long as what it closes is not another connection.         *)
(***************************************************************************)
EXTENDS SocketManager, TLAPS

\* Leaves are for Zenon; the ones with arithmetic or functions cite SMT.
USE EventAssumption, ZenonT(30)

\* What an active queue can be.
ActiveQueues == Seq(Events \cup {ListenEvent})

(* What the proofs need to know of sequences.                              *)
LEMMA SeqLength ==
    ASSUME NEW S, NEW s \in Seq(S)
    PROVE  Len(s) \in Nat /\ s \in [1..Len(s) -> S]
  BY SMTT(30)

(* An element of a sequence.                                               *)
LEMMA SeqElement ==
    ASSUME NEW S, NEW s \in Seq(S), NEW i \in 1..Len(s)
    PROVE  s[i] \in S
  BY SMTT(30)

(* The empty sequence, and the length of the others.                       *)
LEMMA SeqEmpty ==
    ASSUME NEW S
    PROVE  /\ <<>> \in Seq(S) /\ Len(<<>>) = 0
           /\ \A s \in Seq(S) : s # <<>> => Len(s) \in Nat \ {0}
  BY SMTT(30)

(* A piece of a sequence is a sequence.                                    *)
LEMMA SeqPart ==
    ASSUME NEW S, NEW s \in Seq(S), NEW m \in 1..(Len(s) + 1), NEW n \in 0..Len(s)
    PROVE  SubSeq(s, m, n) \in Seq(S)
  BY SMTT(30)

(* Nothing lies before the first element.                                  *)
LEMMA SeqNoPart ==
    ASSUME NEW S, NEW s \in Seq(S)
    PROVE  SubSeq(s, 1, 0) = <<>>
  BY SMTT(30)

(* What follows the first element.                                         *)
LEMMA SeqTail ==
    ASSUME NEW S, NEW s \in Seq(S), s # <<>>
    PROVE  SubSeq(s, 2, Len(s)) = Tail(s)
  BY SMTT(30)

(* The first element of a sequence and the rest.                           *)
LEMMA HeadAndTail ==
    ASSUME NEW S, NEW s \in Seq(S), s # <<>>
    PROVE  /\ Head(s) \in S /\ Tail(s) \in Seq(S) /\ Len(Tail(s)) = Len(s) - 1
           /\ \A i \in 1..Len(Tail(s)) : Tail(s)[i] = s[i + 1]
  BY SMTT(30)

(* Two sequences, one behind the other.                                    *)
LEMMA SeqJoined ==
    ASSUME NEW S, NEW s \in Seq(S), NEW t \in Seq(S)
    PROVE  s \o t \in Seq(S) /\ <<>> \o t = t
  BY SMTT(30)

(* A sequence over a set is one over every larger set.                     *)
LEMMA SeqWiden ==
    ASSUME NEW S, NEW T, NEW s \in Seq(S), S \subseteq T
    PROVE  s \in Seq(T)
  BY SMTT(30)

\* r is b, but for <<c, k>> being entered for descriptor f.
EntersOnly(r, b, c, k, f, open) ==
    /\ r \in Bases
    /\ r.active = b.active
    /\ \A g \in Fd \ {f} : r.slot[g] = b.slot[g] /\ r.mask[g] = b.mask[g]
    /\ \/ r = b
       \/ /\ open /\ r.slot[f][k] = c
          /\ \A j \in Kinds \ {k} : r.slot[f][j] = b.slot[f][j]
          /\ b.mask[f] = {} => \A j \in Kinds : b.slot[f][j] = None

(* event_add changes nothing but the entry of its own descriptor and kind, *)
(* and only on an open descriptor whose entries agree with the kernel's.   *)
LEMMA EventAddFields ==
    ASSUME NEW b \in Bases, NEW c \in Bev, NEW k \in Kinds, NEW f \in Fd,
           NEW open \in BOOLEAN
    PROVE  EntersOnly(EventAdd(b, c, k, f, open), b, c, k, f, open)
<1> DEFINE s == [b.slot EXCEPT ![f] = [@ EXCEPT ![k] = c]]
           m == [b.mask EXCEPT ![f] = Waiting(b, f) \cup {k}]
           n == b.inserted \cup {<<c, k>>}
           r == EventAdd(b, c, k, f, open)
           q == [b EXCEPT !.slot = s, !.mask = m, !.inserted = n]
<1>0. /\ b.slot \in [Fd -> [Kinds -> Bev \cup {None}]] /\ b.mask \in [Fd -> SUBSET Kinds]
      /\ b.inserted \in SUBSET Events /\ b.active \in Seq(Events \cup {ListenEvent})
  BY DEF Bases
<1>1. s \in [Fd -> [Kinds -> Bev \cup {None}]] /\ n \in SUBSET Events
  BY <1>0, SMTT(30) DEF Events
<1>2. m \in [Fd -> SUBSET Kinds]
  BY <1>0 DEF Waiting
<1>3. q \in Bases /\ q.slot = s /\ q.mask = m /\ q.inserted = n /\ q.active = b.active
  <2> HIDE DEF s, m, n
  <2>1. QED
    BY <1>0, <1>1, <1>2 DEF Bases
<1>4. r = b \/ (r = q /\ open /\ (b.mask[f] = {} => Waiting(b, f) = {}))
  BY <1>0 DEF EventAdd, EpollAddFails
<1>5. CASE r = b
  BY <1>5 DEF EntersOnly
<1>6. CASE r = q /\ open /\ (b.mask[f] = {} => Waiting(b, f) = {})
  <2> HIDE DEF q, r
  <2>1. \A g \in Fd \ {f} : r.slot[g] = b.slot[g] /\ r.mask[g] = b.mask[g]
    BY <1>6, <1>3, <1>0
  <2>2. r.slot[f][k] = c /\ \A j \in Kinds \ {k} : r.slot[f][j] = b.slot[f][j]
    BY <1>6, <1>3, <1>0, SMTT(30)
  <2>3. b.mask[f] = {} => \A j \in Kinds : b.slot[f][j] = None
    BY <1>6 DEF Waiting
  <2>4. QED
    BY <2>1, <2>2, <2>3, <1>6, <1>3 DEF r, EntersOnly
<1>7. QED
  BY <1>4, <1>5, <1>6

(* TAILQ_REMOVE adds nothing to the queue.                                 *)
LEMMA RemovedIsSeq ==
    ASSUME NEW S, NEW queue \in Seq(S), NEW e
    PROVE  Removed(queue, e) \in Seq(S)
<1> DEFINE at == CHOOSE i \in 1..Len(queue) : queue[i] = e
<1>1. CASE \A i \in 1..Len(queue) : queue[i] # e
  BY <1>1 DEF Removed
<1>2. CASE ~ \A i \in 1..Len(queue) : queue[i] # e
  <2>1. at \in 1..Len(queue)
    BY <1>2
  <2>2. Removed(queue, e) = SubSeq(queue, 1, at - 1) \o SubSeq(queue, at + 1, Len(queue))
    BY <1>2 DEF Removed
  <2> HIDE DEF at
  <2>3. \A i \in 1..Len(queue) : queue[i] \in S
    BY SeqElement
  <2>4. SubSeq(queue, 1, at - 1) \in Seq(S)
    BY <2>1, <2>3, SeqPart, SMTT(30)
  <2>5. SubSeq(queue, at + 1, Len(queue)) \in Seq(S)
    BY <2>1, <2>3, SeqPart, SMTT(30)
  <2>6. QED
    BY <2>2, <2>4, <2>5, SeqJoined, SMTT(30)
<1>3. QED
  BY <1>1, <1>2

(* What TAILQ_REMOVE leaves of a queue that holds its head only once.      *)
LEMMA RemovedHead ==
    ASSUME NEW S, NEW queue \in Seq(S), queue # <<>>,
           \A i \in 2..Len(queue) : queue[i] # Head(queue)
    PROVE  Removed(queue, Head(queue)) = Tail(queue)
<1> DEFINE e == Head(queue)
           at == CHOOSE i \in 1..Len(queue) : queue[i] = e
<1>1. Len(queue) \in Nat /\ Len(queue) > 0 /\ e = queue[1]
  BY SeqEmpty, SMTT(30)
<1>2. 1 \in 1..Len(queue) /\ queue[1] = e
  BY <1>1, SMTT(30)
<1>3. at \in 1..Len(queue) /\ queue[at] = e
  BY <1>2
<1>4. at = 1
  BY <1>1, <1>3, SMTT(30)
<1>5. Removed(queue, e) = SubSeq(queue, 1, at - 1) \o SubSeq(queue, at + 1, Len(queue))
  BY <1>2 DEF Removed
<1>6. Removed(queue, e) = SubSeq(queue, 1, 0) \o SubSeq(queue, 2, Len(queue))
  <2> HIDE DEF at
  <2>1. QED
    BY <1>4, <1>5, SMTT(30)
<1>7. SubSeq(queue, 1, 0) = <<>> /\ SubSeq(queue, 2, Len(queue)) = Tail(queue)
  BY <1>1, SeqNoPart, SeqTail
<1>8. Tail(queue) \in Seq(S)
  BY HeadAndTail
<1>9. QED
  BY <1>6, <1>7, <1>8, SeqJoined

\* r is b without event <<c, k>>.
Leaves(r, b, c, k) ==
    /\ r \in Bases
    /\ r.active = Removed(b.active, <<c, k>>)
    /\ \A g \in Fd : r.mask[g] # {} => b.mask[g] # {}
    /\ \A g \in Fd, j \in Kinds : r.slot[g][j] \in {None, b.slot[g][j]}

(* event_del adds nothing to the table of epoll.c and wakes up nothing.    *)
LEMMA EventDelFields ==
    ASSUME NEW b \in Bases, NEW c \in Bev, NEW k \in Kinds, NEW f \in Fd
    PROVE  Leaves(EventDel(b, c, k, f), b, c, k)
<1> DEFINE s == [b.slot EXCEPT ![f] = [@ EXCEPT ![k] = None]]
           m == [b.mask EXCEPT ![f] = IF @ = {} THEN {} ELSE Waiting(b, f) \ {k}]
           n == b.inserted \ {<<c, k>>}
           q == Removed(b.active, <<c, k>>)
           r == EventDel(b, c, k, f)
           deleted == [b EXCEPT !.slot = s, !.mask = m, !.inserted = n, !.active = q]
           kept == [b EXCEPT !.inserted = n, !.active = q]
<1>0. /\ b.slot \in [Fd -> [Kinds -> Bev \cup {None}]] /\ b.mask \in [Fd -> SUBSET Kinds]
      /\ b.inserted \in SUBSET Events /\ b.active \in ActiveQueues
  BY DEF Bases, ActiveQueues
<1>1. s \in [Fd -> [Kinds -> Bev \cup {None}]] /\ n \in SUBSET Events
  BY <1>0
<1>2. m \in [Fd -> SUBSET Kinds]
  BY <1>0 DEF Waiting
<1>3. q \in ActiveQueues
  BY <1>0, RemovedIsSeq DEF ActiveQueues
<1>4. r = deleted \/ r = kept
  <2> HIDE DEF q
  <2>1. CASE <<c, k>> \in b.inserted
    <3>1. EpollDel(b, k, f) = [b EXCEPT !.slot = s, !.mask = m]
      BY <1>0 DEF EpollDel
    <3>2. EpollDel(b, k, f).inserted = b.inserted /\ EpollDel(b, k, f).active = b.active
      BY <3>1, <1>0 DEF Bases
    <3>3. r = [EpollDel(b, k, f) EXCEPT !.inserted = n, !.active = q]
      BY <2>1, <3>2 DEF EventDel, q
    <3>4. QED
      BY <3>1, <3>3 DEF Bases
  <2>2. CASE ~(<<c, k>> \in b.inserted)
    BY <2>2 DEF EventDel, q
  <2>3. QED
    BY <2>1, <2>2
<1>5. CASE r = deleted
  <2> HIDE DEF s, m, n, q, r
  <2>1. r \in Bases /\ r.slot = s /\ r.mask = m /\ r.active = q
    BY <1>0, <1>1, <1>2, <1>3, <1>5 DEF Bases, ActiveQueues
  <2>2. \A g \in Fd : m[g] # {} => b.mask[g] # {}
    BY <1>0 DEF m
  <2>3. \A g \in Fd, j \in Kinds : s[g][j] \in {None, b.slot[g][j]}
    BY <1>0 DEF s
  <2>4. QED
    BY <2>1, <2>2, <2>3 DEF r, q, Leaves
<1>6. CASE r = kept
  <2> HIDE DEF n, q, r
  <2>1. r \in Bases /\ r.slot = b.slot /\ r.mask = b.mask /\ r.active = q
    BY <1>0, <1>1, <1>3, <1>6 DEF Bases, ActiveQueues
  <2>4. QED
    BY <2>1 DEF r, q, Leaves
<1>7. QED
  BY <1>4, <1>5, <1>6

(* Closing a descriptor takes it out of the kernel's set.                  *)
LEMMA ClosedFields ==
    ASSUME NEW b \in Bases, NEW f \in Fd
    PROVE  LET r == Closed(b, f) IN
           /\ r \in Bases /\ r.active = b.active /\ r.slot = b.slot
           /\ r.mask = [b.mask EXCEPT ![f] = {}]
<1> DEFINE m == [b.mask EXCEPT ![f] = {}]
           r == Closed(b, f)
<1>1. r = [b EXCEPT !.mask = m] /\ m \in [Fd -> SUBSET Kinds]
  BY DEF Closed, Bases
<1> HIDE DEF m, r
<1>2. r \in Bases /\ r.active = b.active /\ r.slot = b.slot /\ r.mask = m
  BY <1>1 DEF Bases
<1>3. QED
  BY <1>2 DEF r, m

Files == [Fd -> Conn \cup {Std, Unconnected, Free}]

Nets ==
    [Conn -> [st : {"none", "backlog", "open", "eof", "reset", "dead", "gone"},
              unread : BOOLEAN, room : BOOLEAN]]

Bevs == [Conn -> [fd : Fd \cup {None}, arg : Addr \cup {None}, out : BOOLEAN]]

Objs ==
    [Addr -> [live : BOOLEAN, vfd : Fd \cup {None}, type : {"server", "client", None},
              status : {0, 1}, buff : Conn \cup {None}]]

\* Bufferevent c has been set up for a peer.
Known(bevs, c) == bevs[c].fd # None /\ bevs[c].arg # None

KnownEvents(bevs) == {e \in Events \cup {ListenEvent} : e # ListenEvent => Known(bevs, e[1])}

\* Every event that is active, or can become so, belongs to a bufferevent with a peer.
BaseKnown(b, bevs) ==
    /\ b \in Bases
    /\ b.active \in Seq(KnownEvents(bevs))
    /\ \A f \in Fd, k \in Kinds : b.slot[f][k] # None => Known(bevs, b.slot[f][k])

\* Every peer that was not deleted is complete.
PeersKnown(objs, bevs) ==
    \A a \in Addr : objs[a].live =>
        /\ objs[a].vfd # None /\ objs[a].type \in {"server", "client"} /\ objs[a].buff # None
        /\ Known(bevs, objs[a].buff)

\* Two versions of the bufferevents differ in nothing but output.
SameTargets(bevs, older) ==
    \A c \in Conn : bevs[c].fd = older[c].fd /\ bevs[c].arg = older[c].arg

\* The peer listed under f is found by the PeerVfdOn functions.
Found(list, objs, server, client, f) ==
    /\ objs[list[f]].live /\ objs[list[f]].vfd = f
    /\ f \in IF objs[list[f]].type = "server" THEN server ELSE client

(* The inductive invariant behind what holds whatever is read from a       *)
(* deleted peer.                                                           *)
AnyInv ==
    /\ TypeOK /\ BaseKnown(base, bev) /\ PeersKnown(obj, bev)
    /\ LookupsSucceed /\ ErrorsAfterConnects

(* The events of a base stay those of bufferevents that have been set up,  *)
(* when more of these are set up.                                          *)
LEMMA KnownIsSeqOfKnown ==
    ASSUME NEW older \in Bevs, NEW bevs \in Bevs, NEW b, BaseKnown(b, older),
           \A c \in Conn : Known(older, c) => Known(bevs, c)
    PROVE  BaseKnown(b, bevs)
<1>1. KnownEvents(older) \subseteq KnownEvents(bevs)
  BY DEF KnownEvents, Events, Conn
<1>2. b.active \in Seq(KnownEvents(bevs))
  BY <1>1, SeqWiden DEF BaseKnown
<1>3. QED
  BY <1>2, SMTT(30) DEF BaseKnown, Bases, Conn

(* The peers keep their bufferevents when only the output of these         *)
(* changes.                                                                *)
LEMMA PeersStayKnown ==
    ASSUME NEW older \in Bevs, NEW bevs \in Bevs, NEW objs \in Objs, PeersKnown(objs, older),
           SameTargets(bevs, older)
    PROVE  PeersKnown(objs, bevs)
  BY DEF PeersKnown, Objs, SameTargets, Known

(* event_add of an event of a bufferevent that has been set up.            *)
LEMMA EventAddKnown ==
    ASSUME NEW bevs \in Bevs, NEW b, BaseKnown(b, bevs), NEW c \in Conn, Known(bevs, c),
           NEW k \in Kinds, NEW f \in Fd, NEW open \in BOOLEAN
    PROVE  BaseKnown(EventAdd(b, c, k, f, open), bevs)
<1> DEFINE r == EventAdd(b, c, k, f, open)
<1>1. b \in Bases /\ c \in Bev
  BY DEF BaseKnown, Conn
<1>2. EntersOnly(r, b, c, k, f, open)
  BY <1>1, EventAddFields
<1> HIDE DEF r
<1>3. \A g \in Fd, j \in Kinds : r.slot[g][j] = b.slot[g][j] \/ r.slot[g][j] = c
  BY <1>2 DEF EntersOnly
<1>4. QED
  BY <1>2, <1>3, SMTT(30) DEF BaseKnown, EntersOnly, r

(* event_del removes, and adds nothing that was not known.                 *)
LEMMA EventDelKnown ==
    ASSUME NEW bevs \in Bevs, NEW b, BaseKnown(b, bevs), NEW c \in Conn,
           NEW k \in Kinds, NEW f \in Fd
    PROVE  BaseKnown(EventDel(b, c, k, f), bevs)
<1> DEFINE r == EventDel(b, c, k, f)
<1>1. b \in Bases /\ c \in Bev
  BY DEF BaseKnown, Conn
<1>2. Leaves(r, b, c, k)
  BY <1>1, EventDelFields
<1> HIDE DEF r
<1>3. r.active \in Seq(KnownEvents(bevs))
  BY <1>2, RemovedIsSeq, SMTT(30) DEF BaseKnown, Leaves
<1>4. QED
  BY <1>2, <1>3 DEF BaseKnown, Leaves, r

\* What w makes of event base b and bufferevents bevs: c has output, and at most its
\* write event was added.
Wrote(w, b, bevs, c, f, open) ==
    /\ w.bev \in Bevs /\ SameTargets(w.bev, bevs) /\ BaseKnown(w.base, w.bev)
    /\ c \in Conn /\ f \in Fd
    /\ w.base \in {b, EventAdd(b, c, "write", f, f \in open)}

(* WriteData on a live peer (bufferevent_write) changes at most the output *)
(* of its bufferevent and enters at most its write event.                  *)
LEMMA WrittenFacts ==
    ASSUME NEW objs \in Objs, NEW bevs \in Bevs, NEW b, NEW open, NEW a \in Addr,
           BaseKnown(b, bevs), PeersKnown(objs, bevs), objs[a].live
    PROVE  Wrote(Written(b, objs, bevs, open, a), b, bevs, objs[a].buff,
                 bevs[objs[a].buff].fd, open)
<1> DEFINE w == Written(b, objs, bevs, open, a)
           c == objs[a].buff
           f == bevs[c].fd
           added == EventAdd(b, c, "write", f, f \in open)
           bevs2 == [bevs EXCEPT ![c] = [@ EXCEPT !.out = TRUE]]
<1>1. c \in Conn /\ Known(bevs, c)
  BY DEF PeersKnown, Objs
<1>2. f \in Fd
  BY <1>1 DEF Known, Bevs
<1>3. bevs2 \in Bevs /\ SameTargets(bevs2, bevs)
  <2> HIDE DEF c
  <2>1. QED
    BY <1>1 DEF Bevs, SameTargets
<1>4. w = [base |-> b, bev |-> bevs] \/ w = [base |-> added, bev |-> bevs2]
  BY DEF Written
<1>5. BaseKnown(added, bevs)
  <2>1. (f \in open) \in BOOLEAN /\ "write" \in Kinds
    BY SMTT(30) DEF Kinds
  <2> HIDE DEF c, f
  <2>2. QED
    BY <1>1, <1>2, <2>1, EventAddKnown
<1> HIDE DEF w, added, bevs2, c, f
<1>6. BaseKnown(added, bevs2)
  BY <1>3, <1>5, KnownIsSeqOfKnown, SMTT(30) DEF SameTargets, Known
<1>7. SameTargets(bevs, bevs)
  BY DEF SameTargets
<1>8. QED
  BY <1>1, <1>2, <1>3, <1>4, <1>6, <1>7, SMTT(30) DEF w, added, c, f, Wrote

(* LookupsSucceed, descriptor by descriptor.                               *)
LEMMA FoundPeers ==
    LookupsSucceed <=>
        /\ \A f \in Fd : PeerObjList[f] # None =>
              Found(PeerObjList, obj, PeerVfd2ServerObj, PeerVfd2ClientObj, f)
        /\ ClientObjList = PeerVfd2ClientObj
  BY DEF LookupsSucceed, Peers, Found, InMapOfType

\* What NewPeer does with the object at address a.
PeerMade(a, c, f, type, b) ==
    LET peer == [live |-> TRUE, vfd |-> f, type |-> type, status |-> 1, buff |-> c]
        objs == [obj EXCEPT ![a] = peer]
        bevs == [bev EXCEPT ![c] = [fd |-> f, arg |-> a, out |-> FALSE]]
        list == AddPeerObj(f, a)
        w == PeerVfdOnWrite(EventAdd(b, c, "read", f, TRUE), objs, bevs,
                            OpenFds \cup {f}, list, f)
    IN  /\ obj' = objs
        /\ PeerObjList' = list
        /\ PeerVfd2ServerObj' =
              PeerVfd2ServerObj \cup (IF type = "server" THEN {f} ELSE {})
        /\ PeerVfd2ClientObj' =
              PeerVfd2ClientObj \cup (IF type = "client" THEN {f} ELSE {})
        /\ ClientObjList' = ClientObjList \cup (IF type = "client" THEN {f} ELSE {})
        /\ PeerVfdOnConnect(list, f)
        /\ base' = w.base /\ bev' = w.bev
        /\ file' = [file EXCEPT ![f] = c]
        /\ net' = [net EXCEPT ![c].st = "open"]

(* A peer that is made keeps AnyInv: the lookups for it will succeed, and  *)
(* OnConnect was called for it (CreatePeerSocket, AddPeerObj,              *)
(* PeerVfdOnConnect).                                                      *)
LEMMA NewPeerAny ==
    ASSUME AnyInv, NEW c \in Conn, NEW f \in Fd, NEW type \in {"server", "client"},
           NEW b, BaseKnown(b, bev), NewPeer(c, f, type, b), UNCHANGED <<proc, misrouted, foreign>>
    PROVE  AnyInv'
<1>1. PICK a \in Addr : ~obj[a].live /\ PeerMade(a, c, f, type, b)
  <2>1. PICK a \in {x \in Addr : ~obj[x].live} : PeerMade(a, c, f, type, b)
    BY DEF NewPeer, PeerMade, PeerPoint
  <2>2. QED
    BY <2>1
<1> DEFINE peer == [live |-> TRUE, vfd |-> f, type |-> type, status |-> 1, buff |-> c]
           objs == [obj EXCEPT ![a] = peer]
           bevs == [bev EXCEPT ![c] = [fd |-> f, arg |-> a, out |-> FALSE]]
           list == AddPeerObj(f, a)
           added == EventAdd(b, c, "read", f, TRUE)
           w == Written(added, objs, bevs, OpenFds \cup {f}, list[f])
<1>2. obj \in Objs /\ bev \in Bevs /\ PeerObjList \in [Fd -> Addr \cup {None}]
  BY DEF AnyInv, TypeOK, Objs, Bevs
<1>3. /\ objs \in Objs /\ objs[a] = peer
      /\ \A x \in Addr \ {a} : objs[x] = obj[x]
  BY <1>2 DEF Objs
<1>4. bevs \in Bevs /\ Known(bevs, c) /\ \A x \in Conn \ {c} : bevs[x] = bev[x]
  BY <1>2, ManagerAssumption DEF Bevs, Known
<1>5. /\ list \in [Fd -> Addr \cup {None}] /\ list[f] \in Addr
      /\ list[f] = IF PeerObjList[f] # None THEN PeerObjList[f] ELSE a
      /\ \A g \in Fd \ {f} : list[g] = PeerObjList[g]
  BY <1>2, ManagerAssumption DEF AddPeerObj
<1>6. BaseKnown(b, bevs)
  <2>1. \A x \in Conn : Known(bev, x) => Known(bevs, x)
    BY <1>4 DEF Known
  <2> HIDE DEF bevs
  <2>2. QED
    BY <1>2, <1>4, <2>1, KnownIsSeqOfKnown
<1>7. PeersKnown(objs, bevs)
  <2>1. PeersKnown(obj, bev)
    BY DEF AnyInv
  <2>2. objs[a].live /\ objs[a].vfd = f /\ objs[a].type = type /\ objs[a].buff = c
    BY <1>3, SMTT(30)
  <2>3. f # None /\ c # None
    BY DEF Conn
  <2> HIDE DEF bevs, objs
  <2>4. ASSUME NEW x \in Addr, objs[x].live
        PROVE  /\ objs[x].vfd # None /\ objs[x].type \in {"server", "client"}
               /\ objs[x].buff # None /\ Known(bevs, objs[x].buff)
    <3>1. CASE x = a
      BY <1>4, <2>2, <2>3, <3>1
    <3>2. CASE x # a
      <4>1. objs[x] = obj[x] /\ obj[x].buff \in Conn
        BY <1>2, <1>3, <2>1, <2>4, <3>2 DEF PeersKnown, Objs
      <4>2. QED
        BY <1>4, <2>1, <2>4, <4>1 DEF PeersKnown, Known
    <3>3. QED
      BY <3>1, <3>2
  <2>5. QED
    BY <2>4 DEF PeersKnown
<1>8. BaseKnown(added, bevs)
  <2> HIDE DEF bevs
  <2>1. QED
    BY <1>4, <1>6, EventAddKnown DEF Kinds
<1>9. objs[list[f]].live
  <2>1. PeerObjList[f] # None => obj[PeerObjList[f]].live
    BY DEF AnyInv, LookupsSucceed, Peers
  <2>2. objs[a].live
    BY <1>3, SMTT(30)
  <2> HIDE DEF objs, list
  <2>3. QED
    BY <1>1, <1>2, <1>3, <1>5, <2>1, <2>2
<1>10. Wrote(w, added, bevs, objs[list[f]].buff, bevs[objs[list[f]].buff].fd, OpenFds \cup {f})
  <2> HIDE DEF objs, list, bevs, added
  <2>1. QED
    BY <1>3, <1>4, <1>5, <1>7, <1>8, <1>9, WrittenFacts
<1>11. /\ obj' = objs /\ PeerObjList' = list /\ base' = w.base /\ bev' = w.bev
       /\ file' = [file EXCEPT ![f] = c]
       /\ net' = [net EXCEPT ![c].st = "open"]
       /\ PeerVfdOnConnect(list, f)
       /\ PeerVfd2ServerObj' = PeerVfd2ServerObj \cup (IF type = "server" THEN {f} ELSE {})
       /\ PeerVfd2ClientObj' = PeerVfd2ClientObj \cup (IF type = "client" THEN {f} ELSE {})
       /\ ClientObjList' = ClientObjList \cup (IF type = "client" THEN {f} ELSE {})
  <2>1. list[f] # None
    BY <1>5, ManagerAssumption
  <2>2. QED
    BY <1>1, <2>1 DEF PeerVfdOnWrite, PeerMade
<1> HIDE DEF objs, list, bevs, added, w, peer
<1>12. BaseKnown(base', bev') /\ PeersKnown(obj', bev')
  <2>1. bev' \in Bevs /\ SameTargets(bev', bevs) /\ BaseKnown(base', bev')
    BY <1>10, <1>11 DEF Wrote
  <2>2. QED
    BY <1>3, <1>4, <1>7, <1>11, <2>1, PeersStayKnown
<1>13. told' = [told EXCEPT ![f] = @ + 1]
  BY <1>5, <1>11, ManagerAssumption DEF PeerVfdOnConnect
<1>14. TypeOK'
  <2>1. obj' \in Objs /\ bev' \in Bevs /\ base' \in Bases
    BY <1>3, <1>10, <1>11 DEF Wrote, BaseKnown
  <2>2. file' \in Files
    BY <1>11 DEF AnyInv, TypeOK, Files
  <2>3. net' \in Nets
    BY <1>11, SMTT(30) DEF AnyInv, TypeOK, Nets
  <2>4. told' \in [Fd -> Int]
    BY <1>13, SMTT(30) DEF AnyInv, TypeOK
  <2>5. PeerObjList' \in [Fd -> Addr \cup {None}]
    BY <1>5, <1>11
  <2>6. /\ PeerVfd2ServerObj' \subseteq Fd /\ PeerVfd2ClientObj' \subseteq Fd
        /\ ClientObjList' \subseteq Fd
    BY <1>11 DEF AnyInv, TypeOK
  <2>7. QED
    BY <2>1, <2>2, <2>3, <2>4, <2>5, <2>6 DEF AnyInv, TypeOK, Files, Nets, Bevs, Objs
<1>15. LookupsSucceed'
  <2>1. ASSUME NEW g \in Fd, PeerObjList'[g] # None
        PROVE  Found(PeerObjList', obj', PeerVfd2ServerObj', PeerVfd2ClientObj', g)
    <3>1. CASE PeerObjList[g] # None
      <4> DEFINE p == PeerObjList[g]
      <4>1. Found(PeerObjList, obj, PeerVfd2ServerObj, PeerVfd2ClientObj, g)
        BY <3>1, FoundPeers DEF AnyInv
      <4>2. PeerObjList'[g] = p /\ p \in Addr
        BY <1>2, <1>5, <1>11, <3>1
      <4>3. obj'[p] = obj[p]
        BY <1>1, <1>3, <1>11, <4>1, <4>2 DEF Found
      <4>4. QED
        BY <1>11, <4>1, <4>2, <4>3 DEF Found
    <3>2. CASE PeerObjList[g] = None
      <4>1. g = f /\ PeerObjList'[g] = a
        BY <1>5, <1>11, <2>1, <3>2
      <4>2. obj'[a].live /\ obj'[a].vfd = f /\ obj'[a].type = type
        BY <1>3, <1>11, SMTT(30) DEF peer
      <4>3. QED
        BY <1>11, <4>1, <4>2 DEF Found
    <3>3. QED
      BY <3>1, <3>2
  <2>2. ClientObjList' = PeerVfd2ClientObj'
    BY <1>11 DEF AnyInv, LookupsSucceed
  <2>3. QED
    BY <2>1, <2>2 DEF LookupsSucceed, Peers, Found, InMapOfType
<1>16. ErrorsAfterConnects'
  <2>1. \A g \in Fd : g \in Peers' => g = f \/ g \in Peers
    BY <1>5, <1>11 DEF Peers
  <2>2. \A g \in Fd : told[g] \in Int /\ told[g] >= 0 /\ (g \in Peers => told[g] >= 1)
    BY SMTT(30) DEF AnyInv, ErrorsAfterConnects, TypeOK
  <2>3. \A g \in Fd : told'[g] = IF g = f THEN told[g] + 1 ELSE told[g]
    BY <1>13 DEF AnyInv, TypeOK
  <2>4. QED
    BY <2>1, <2>2, <2>3, SMTT(30) DEF ErrorsAfterConnects
<1>17. QED
  BY <1>12, <1>14, <1>15, <1>16 DEF AnyInv

\* Closing a descriptor leaves the table of events.
LEMMA CloseKnown ==
    ASSUME AnyInv, NEW b, BaseKnown(b, bev), NEW v, Close(v, b)
    PROVE  file' \in Files /\ BaseKnown(base', bev)
<1>1. file' \in Files
  BY DEF Close, AnyInv, TypeOK, Files
<1>2. CASE v \in Fd
  <2>1. base' = Closed(b, v) /\ b \in Bases
    BY <1>2 DEF Close, BaseKnown
  <2>2. base' \in Bases /\ base'.active = b.active /\ base'.slot = b.slot
    BY <1>2, <2>1, ClosedFields
  <2>3. QED
    BY <1>1, <2>2 DEF BaseKnown
<1>3. CASE v \notin Fd
  BY <1>1, <1>3 DEF Close
<1>4. QED
  BY <1>2, <1>3

\* PeerVfdOnClose takes away what belongs to one descriptor, or nothing.
ClosesPeer(v, objs) ==
    \/ obj' = objs /\ UNCHANGED <<maps, told>>
    \/ /\ v \in Fd /\ PeerObjList[v] \in Addr
       /\ told' = [told EXCEPT ![v] = @ - 1]
       /\ obj' = [objs EXCEPT ![PeerObjList[v]].live = FALSE]
       /\ PeerObjList' = [PeerObjList EXCEPT ![v] = None]
       /\ PeerVfd2ServerObj' \in {PeerVfd2ServerObj, PeerVfd2ServerObj \ {v}}
       /\ PeerVfd2ClientObj' \in {PeerVfd2ClientObj, PeerVfd2ClientObj \ {v}}
       /\ ClientObjList' = PeerVfd2ClientObj'
       /\ IF obj[PeerObjList[v]].type = "server"
          THEN v \notin PeerVfd2ServerObj' /\ PeerVfd2ClientObj' = PeerVfd2ClientObj
          ELSE v \notin PeerVfd2ClientObj' /\ PeerVfd2ServerObj' = PeerVfd2ServerObj

(* PeerVfdOnClose takes a listed peer from the maps and deletes it, or     *)
(* finds none and does nothing.                                            *)
LEMMA PeerVfdOnCloseFacts ==
    ASSUME AnyInv, NEW v, NEW objs, PeerVfdOnClose(v, objs)
    PROVE  ClosesPeer(v, objs)
<1> DEFINE p == IF v \in Fd THEN PeerObjList[v] ELSE None
<1>1. CASE p = None \/ ~InMapOfType(p, v)
  BY <1>1 DEF PeerVfdOnClose, ClosesPeer
<1>2. CASE ~(p = None \/ ~InMapOfType(p, v))
  <2>1. v \in Fd /\ p = PeerObjList[v] /\ p \in Addr /\ PeerObjList[v] # None
    BY <1>2 DEF AnyInv, TypeOK
  <2>2. obj[p].vfd = v /\ ClientObjList = PeerVfd2ClientObj
    BY <2>1, FoundPeers DEF AnyInv, Found
  <2>3. /\ told' = [told EXCEPT ![v] = @ - 1]
        /\ obj' = [objs EXCEPT ![PeerObjList[v]].live = FALSE]
        /\ PeerObjList' = [PeerObjList EXCEPT ![v] = None]
        /\ IF obj[p].type = "server"
           THEN /\ PeerVfd2ServerObj' = PeerVfd2ServerObj \ {v}
                /\ UNCHANGED <<PeerVfd2ClientObj, ClientObjList>>
           ELSE /\ PeerVfd2ClientObj' = PeerVfd2ClientObj \ {v}
                /\ ClientObjList' = ClientObjList \ {v}
                /\ UNCHANGED PeerVfd2ServerObj
    BY <1>2, <2>2 DEF PeerVfdOnClose
  <2> HIDE DEF p
  <2>4. QED
    BY <2>1, <2>2, <2>3 DEF ClosesPeer
<1>3. QED
  BY <1>1, <1>2

(* OnError keeps AnyInv, whatever _Vfd it reads, before and after the peer *)
(* is deleted, and whichever descriptor it closes.                         *)
LEMMA OnErrorAny ==
    ASSUME AnyInv, NEW c \in Conn, Known(bev, c), NEW b, BaseKnown(b, bev), OnError(c, b),
           net' \in Nets, UNCHANGED <<proc, bev, misrouted>>
    PROVE  AnyInv'
<1> DEFINE a == bev[c].arg
<1>0. a \in Addr /\ foreign \in BOOLEAN
  BY DEF Known, AnyInv, TypeOK
<1>1. CASE obj[a].status = 0
  <2>1. base' = b /\ UNCHANGED <<file, obj, maps, told, foreign>>
    BY <1>1 DEF OnError
  <2>2. TypeOK'
    BY <2>1 DEF AnyInv, TypeOK, Nets, BaseKnown, maps
  <2>3. LookupsSucceed' /\ ErrorsAfterConnects'
    BY <2>1 DEF AnyInv, LookupsSucceed, ErrorsAfterConnects, Peers, InMapOfType, maps
  <2>4. BaseKnown(base', bev') /\ PeersKnown(obj', bev')
    BY <2>1 DEF AnyInv
  <2>5. QED
    BY <2>2, <2>3, <2>4 DEF AnyInv
<1>2. CASE obj[a].status # 0
  <2> DEFINE objs == [obj EXCEPT ![a].status = 0]
  <2>0. PICK v : PeerVfdOnClose(v, objs)
                 /\ \E w \in VfdOf(a, obj') :
                       Close(w, b) /\ foreign' = (foreign \/ EndsAnother(w, c))
    BY <1>2 DEF OnError
  <2>1. PeerVfdOnClose(v, objs) /\ foreign' \in BOOLEAN /\ \E w : Close(w, b)
    BY <1>0, <2>0
  <2> HIDE DEF a
  <2>2. ClosesPeer(v, objs)
    BY <2>1, PeerVfdOnCloseFacts
  <2>3. file' \in Files /\ BaseKnown(base', bev)
    BY <2>1, CloseKnown
  <2>4. obj \in Objs /\ PeerObjList \in [Fd -> Addr \cup {None}]
    BY DEF AnyInv, TypeOK, Objs
  <2>5. /\ objs \in Objs
        /\ \A x \in Addr : /\ objs[x].live = obj[x].live /\ objs[x].vfd = obj[x].vfd
                           /\ objs[x].type = obj[x].type /\ objs[x].buff = obj[x].buff
    BY <1>0, <2>4, SMTT(30) DEF Objs
  <2> HIDE DEF objs
  <2>6. /\ obj' \in Objs
        /\ \A x \in Addr : /\ obj'[x].live => obj[x].live
                           /\ obj'[x].vfd = obj[x].vfd
                           /\ obj'[x].type = obj[x].type /\ obj'[x].buff = obj[x].buff
    <3>1. obj' = objs \/ \E p \in Addr : obj' = [objs EXCEPT ![p].live = FALSE]
      BY <2>2 DEF ClosesPeer
    <3>2. CASE obj' = objs
      BY <2>5, <3>2
    <3>3. CASE \E p \in Addr : obj' = [objs EXCEPT ![p].live = FALSE]
      <4>1. PICK p \in Addr : obj' = [objs EXCEPT ![p].live = FALSE]
        BY <3>3
      <4>2. obj' \in Objs
        <5>1. objs \in Objs
          BY <2>5
        <5>2. QED
          BY <4>1, <5>1 DEF Objs
      <4>3. ASSUME NEW x \in Addr
            PROVE  /\ obj'[x].live => objs[x].live
                   /\ obj'[x].vfd = objs[x].vfd
                   /\ obj'[x].type = objs[x].type /\ obj'[x].buff = objs[x].buff
        BY <2>5, <4>1, SMTT(30) DEF Objs
      <4>4. QED
        BY <2>5, <4>2, <4>3
    <3>4. QED
      BY <3>1, <3>2, <3>3
  <2>7. PeersKnown(obj', bev')
    BY <2>6 DEF AnyInv, PeersKnown
  <2>8. TypeOK'
    <3>1. told' \in [Fd -> Int] /\ PeerObjList' \in [Fd -> Addr \cup {None}]
      BY <2>2, <2>4, SMTT(30) DEF ClosesPeer, AnyInv, TypeOK, maps
    <3>2. /\ PeerVfd2ServerObj' \subseteq Fd /\ PeerVfd2ClientObj' \subseteq Fd
          /\ ClientObjList' \subseteq Fd
      BY <2>2 DEF ClosesPeer, AnyInv, TypeOK, maps
    <3>3. QED
      BY <2>1, <2>3, <2>6, <3>1, <3>2 DEF AnyInv, TypeOK, Files, Nets, Objs, BaseKnown
  <2>9. LookupsSucceed' /\ ErrorsAfterConnects'
    <3>1. CASE obj' = objs /\ UNCHANGED <<maps, told>>
      <4>1. ASSUME NEW g \in Fd, PeerObjList[g] # None
            PROVE  Found(PeerObjList, objs, PeerVfd2ServerObj, PeerVfd2ClientObj, g)
        BY <4>1, <2>4, <2>5, FoundPeers, SMTT(30) DEF AnyInv, Found
      <4>2. LookupsSucceed'
        BY <3>1, <4>1, FoundPeers DEF AnyInv, LookupsSucceed, Peers, Found, InMapOfType, maps
      <4>3. ErrorsAfterConnects'
        BY <3>1 DEF AnyInv, ErrorsAfterConnects, Peers, maps
      <4>4. QED
        BY <4>2, <4>3
    <3>2. CASE ~(obj' = objs /\ UNCHANGED <<maps, told>>)
      <4> DEFINE p == PeerObjList[v]
      <4>1. /\ v \in Fd /\ p \in Addr
            /\ told' = [told EXCEPT ![v] = @ - 1]
            /\ obj' = [objs EXCEPT ![p].live = FALSE]
            /\ PeerObjList' = [PeerObjList EXCEPT ![v] = None]
            /\ PeerVfd2ServerObj' \in {PeerVfd2ServerObj, PeerVfd2ServerObj \ {v}}
            /\ PeerVfd2ClientObj' \in {PeerVfd2ClientObj, PeerVfd2ClientObj \ {v}}
            /\ ClientObjList' = PeerVfd2ClientObj'
        BY <2>2, <3>2 DEF ClosesPeer
      <4>2. obj[p].vfd = v
        BY <4>1, FoundPeers, ManagerAssumption DEF AnyInv, Found
      <4>3. ASSUME NEW g \in Fd, PeerObjList'[g] # None
            PROVE  Found(PeerObjList', obj', PeerVfd2ServerObj', PeerVfd2ClientObj', g)
        <5> DEFINE q == PeerObjList[g]
        <5>1. g # v /\ PeerObjList'[g] = q /\ q \in Addr /\ PeerObjList[g] # None
          BY <2>4, <4>1, <4>3
        <5>2. Found(PeerObjList, obj, PeerVfd2ServerObj, PeerVfd2ClientObj, g)
          BY <5>1, FoundPeers DEF AnyInv
        <5>3. q # p
          BY <4>2, <5>1, <5>2 DEF Found
        <5>4. obj'[q].live = obj[q].live
          BY <2>5, <4>1, <5>1, <5>3 DEF Objs
        <5> HIDE DEF p, q
        <5>5. /\ obj'[q].live /\ obj'[q].vfd = g /\ obj'[q].type = obj[q].type
              /\ g \in IF obj[q].type = "server" THEN PeerVfd2ServerObj ELSE PeerVfd2ClientObj
          BY <2>6, <5>1, <5>2, <5>4 DEF Found, q
        <5>6. /\ g \in PeerVfd2ServerObj => g \in PeerVfd2ServerObj'
              /\ g \in PeerVfd2ClientObj => g \in PeerVfd2ClientObj'
          BY <4>1, <5>1
        <5>7. QED
          BY <5>1, <5>5, <5>6 DEF Found
      <4>4. LookupsSucceed'
        BY <4>1, <4>3 DEF LookupsSucceed, Peers, Found, InMapOfType
      <4>5. ErrorsAfterConnects'
        <5>1. \A g \in Fd : told[g] \in Int /\ told[g] >= 0 /\ (g \in Peers => told[g] >= 1)
          BY SMTT(30) DEF AnyInv, ErrorsAfterConnects, TypeOK
        <5>2. v \in Peers /\ \A g \in Fd : g \in Peers' => g \in Peers /\ g # v
          BY <2>4, <4>1, ManagerAssumption DEF Peers
        <5>3. \A g \in Fd : told'[g] = IF g = v THEN told[g] - 1 ELSE told[g]
          BY <4>1 DEF AnyInv, TypeOK
        <5>4. QED
          BY <5>1, <5>2, <5>3, <4>1, SMTT(30) DEF ErrorsAfterConnects
      <4>6. QED
        BY <4>4, <4>5
    <3>3. QED
      BY <3>1, <3>2
  <2>10. QED
    BY <2>3, <2>7, <2>8, <2>9 DEF AnyInv
<1>3. QED
  BY <1>1, <1>2

Procs == {"start", "wait", "run", "exited", "threw_accept", "threw_read", "sigpipe"}

\* A step that leaves the peers and what the application was told alone.
LEMMA PeersUntouched ==
    ASSUME AnyInv, UNCHANGED <<obj, maps, told>>, file' \in Files, net' \in Nets,
           proc' \in Procs, misrouted' \in BOOLEAN /\ foreign' \in BOOLEAN,
           bev' \in Bevs, SameTargets(bev', bev), BaseKnown(base', bev')
    PROVE  AnyInv'
<1>1. TypeOK'
  BY DEF AnyInv, TypeOK, Files, Nets, Procs, Bevs, BaseKnown, maps
<1>2. LookupsSucceed' /\ ErrorsAfterConnects'
  BY DEF AnyInv, LookupsSucceed, ErrorsAfterConnects, Peers, InMapOfType, maps
<1>3. PeersKnown(obj', bev')
  <2>1. obj' \in Objs /\ bev \in Bevs /\ PeersKnown(obj', bev)
    BY DEF AnyInv, TypeOK, Objs, Bevs
  <2>2. QED
    BY <2>1, PeersStayKnown
<1>4. QED
  BY <1>1, <1>2, <1>3 DEF AnyInv

(* OnRead keeps AnyInv: what the application writes in PacketOnRead goes   *)
(* to a listed peer, or the process ends with an exception.                *)
LEMMA OnReadAny ==
    ASSUME AnyInv, NEW a \in Addr, NEW from, NEW b, BaseKnown(b, bev), OnRead(a, from, b),
           net' \in Nets, UNCHANGED <<file, obj, maps, told, foreign>>
    PROVE  AnyInv'
<1>1. /\ file' \in Files /\ bev \in Bevs /\ obj \in Objs /\ SameTargets(bev, bev)
      /\ PeerObjList \in [Fd -> Addr \cup {None}]
      /\ misrouted \in BOOLEAN /\ foreign \in BOOLEAN /\ proc \in Procs
  BY DEF AnyInv, TypeOK, Files, Bevs, Objs, SameTargets, Procs
<1>2. CASE bev' = bev /\ base' = b
  <2>1. proc' \in Procs /\ misrouted' \in BOOLEAN /\ foreign' \in BOOLEAN
    BY <1>1 DEF OnRead, PeerVfdOnRead, Procs
  <2>2. BaseKnown(base', bev')
    BY <1>2
  <2>3. QED
    BY <1>1, <1>2, <2>1, <2>2, PeersUntouched
<1>3. CASE ~(bev' = bev /\ base' = b)
  <2>1. UNCHANGED proc /\ \E v \in VfdOf(a, obj) : PeerVfdOnRead(v, from, b)
    BY <1>3 DEF OnRead
  <2>2. PICK v \in VfdOf(a, obj) : PeerVfdOnRead(v, from, b)
    BY <2>1
  <2>3. /\ misrouted' = (misrouted \/ (file[v] # from /\ \E f \in Peers : file[f] = from))
        /\ \E g \in Fd : LET w == PeerVfdOnWrite(b, obj, bev, OpenFds, PeerObjList, g)
                         IN  base' = w.base /\ bev' = w.bev
    BY <1>3, <2>2 DEF PeerVfdOnRead
  <2>4. PICK g \in Fd : LET w == PeerVfdOnWrite(b, obj, bev, OpenFds, PeerObjList, g)
                        IN  base' = w.base /\ bev' = w.bev
    BY <2>3
  <2> DEFINE p == PeerObjList[g]
             w == Written(b, obj, bev, OpenFds, p)
  <2>5. p # None /\ base' = w.base /\ bev' = w.bev
    BY <1>3, <2>4 DEF PeerVfdOnWrite
  <2>6. p \in Addr /\ obj[p].live
    BY <1>1, <2>5, FoundPeers DEF AnyInv, Found
  <2> HIDE DEF w
  <2>7. Wrote(w, b, bev, obj[p].buff, bev[obj[p].buff].fd, OpenFds)
    BY <1>1, <2>6, WrittenFacts DEF AnyInv, w
  <2>8. bev' \in Bevs /\ SameTargets(bev', bev) /\ BaseKnown(base', bev')
    BY <2>5, <2>7 DEF Wrote
  <2>9. proc' \in Procs /\ misrouted' \in BOOLEAN /\ foreign' \in BOOLEAN
    BY <1>1, <2>1, <2>3
  <2>10. QED
    BY <1>1, <2>8, <2>9, PeersUntouched
<1>4. QED
  BY <1>2, <1>3

(* bufferevent_readcb keeps AnyInv: data, end of file and errors.          *)
LEMMA ReadCbAny ==
    ASSUME AnyInv, NEW c \in Conn, Known(bev, c), ReadCb(c)
    PROVE  AnyInv'
<1> DEFINE f == bev[c].fd
           from == file[f]
           b == EventDel(base, c, "read", f)
           again == EventAdd(b, c, "read", f, f \in OpenFds)
<1>1. bev \in Bevs /\ file \in Files /\ net \in Nets /\ SameTargets(bev, bev)
  BY DEF AnyInv, TypeOK, Bevs, Files, Nets, SameTargets
<1>2. f \in Fd /\ bev[c].arg \in Addr
  BY <1>1 DEF Known, Bevs
<1>3. BaseKnown(b, bev)
  <2> HIDE DEF f
  <2>1. QED
    BY <1>1, <1>2, EventDelKnown DEF AnyInv, Kinds
<1>4. BaseKnown(again, bev)
  <2>1. (f \in OpenFds) \in BOOLEAN /\ "read" \in Kinds
    BY SMTT(30) DEF Kinds
  <2> HIDE DEF f, b
  <2>2. QED
    BY <1>1, <1>2, <1>3, <2>1, EventAddKnown
<1>5. CASE from \in Conn /\ net[from].unread
  <2>1. /\ net' = [net EXCEPT ![from].unread = FALSE]
        /\ OnRead(bev[c].arg, from, again)
        /\ UNCHANGED <<file, obj, maps, told, foreign>>
    BY <1>5 DEF ReadCb
  <2> HIDE DEF f, b, again, from
  <2>2. net' \in Nets
    BY <1>1, <1>5, <2>1 DEF Nets
  <2>3. QED
    BY <1>2, <1>4, <2>1, <2>2, OnReadAny
<1>6. CASE ~(from \in Conn /\ net[from].unread) /\ from \in Conn /\ net[from].st = "open"
  <2>1. base' = again /\ UNCHANGED <<file, net, proc, bev, obj, maps, told, misrouted, foreign>>
    BY <1>6 DEF ReadCb
  <2> HIDE DEF again
  <2>2. proc' \in Procs /\ misrouted' \in BOOLEAN /\ foreign' \in BOOLEAN
    BY <2>1 DEF AnyInv, TypeOK, Procs
  <2>3. QED
    BY <1>1, <1>4, <2>1, <2>2, PeersUntouched
<1>7. CASE /\ ~(from \in Conn /\ net[from].unread)
           /\ ~(from \in Conn /\ net[from].st = "open")
  <2>1. /\ net' = IF from \in Conn /\ net[from].st = "reset"
                  THEN [net EXCEPT ![from].st = "dead"] ELSE net
        /\ OnError(c, b)
        /\ UNCHANGED <<proc, bev, misrouted>>
    BY <1>7 DEF ReadCb
  <2> HIDE DEF b, from
  <2>2. net' \in Nets
    BY <1>1, <2>1, SMTT(30) DEF Nets
  <2>3. QED
    BY <1>2, <1>3, <2>1, <2>2, OnErrorAny
<1>8. QED
  BY <1>5, <1>6, <1>7

(* bufferevent_writecb keeps AnyInv: output that is written, output that   *)
(* is not, and errors.                                                     *)
LEMMA WriteCbAny ==
    ASSUME AnyInv, NEW c \in Conn, Known(bev, c), WriteCb(c)
    PROVE  AnyInv'
<1> DEFINE f == bev[c].fd
           to == file[f]
           b == EventDel(base, c, "write", f)
           again == EventAdd(b, c, "write", f, f \in OpenFds)
           cleared == [bev EXCEPT ![c].out = FALSE]
<1>1. /\ bev \in Bevs /\ file \in Files /\ net \in Nets /\ SameTargets(bev, bev)
      /\ proc \in Procs /\ misrouted \in BOOLEAN /\ foreign \in BOOLEAN
  BY DEF AnyInv, TypeOK, Bevs, Files, Nets, SameTargets, Procs
<1>2. f \in Fd /\ bev[c].arg \in Addr
  BY <1>1 DEF Known, Bevs
<1>3. BaseKnown(b, bev)
  <2> HIDE DEF f
  <2>1. QED
    BY <1>1, <1>2, EventDelKnown DEF AnyInv, Kinds
<1>4. BaseKnown(again, bev)
  <2>1. (f \in OpenFds) \in BOOLEAN /\ "write" \in Kinds
    BY SMTT(30) DEF Kinds
  <2> HIDE DEF f, b
  <2>2. QED
    BY <1>1, <1>2, <1>3, <2>1, EventAddKnown
<1>5. cleared \in Bevs /\ SameTargets(cleared, bev)
  BY <1>1 DEF Bevs, SameTargets
<1>6. BaseKnown(b, cleared)
  <2> HIDE DEF b, cleared
  <2>1. QED
    BY <1>1, <1>3, <1>5, KnownIsSeqOfKnown, SMTT(30) DEF SameTargets, Known
<1>7. CASE /\ base' \in {b, again} /\ bev' = bev /\ net' \in Nets /\ proc' \in Procs
           /\ UNCHANGED <<file, obj, maps, told, misrouted, foreign>>
  <2> HIDE DEF b, again
  <2>1. BaseKnown(base', bev')
    BY <1>3, <1>4, <1>7
  <2>2. QED
    BY <1>1, <1>7, <2>1, PeersUntouched
<1>8. CASE ~bev[c].out
  BY <1>1, <1>7, <1>8 DEF WriteCb
<1>9. CASE bev[c].out /\ to \in Conn /\ net[to].st = "dead"
  <2>1. Ends("sigpipe", b)
    BY <1>9 DEF WriteCb
  <2>2. QED
    BY <1>1, <1>7, <2>1 DEF Ends, Procs
<1>10. CASE bev[c].out /\ to \in Conn /\ net[to].st \in {"open", "eof"}
  <2>1. /\ \/ net[to].room /\ base' = b /\ bev' = cleared /\ net' = net
           \/ base' = again /\ bev' = bev /\ net' = [net EXCEPT ![to].room = FALSE]
        /\ UNCHANGED <<file, proc, obj, maps, told, misrouted, foreign>>
    BY <1>10 DEF WriteCb
  <2> HIDE DEF b, again, cleared, to
  <2>2. CASE base' = b /\ bev' = cleared /\ net' = net
    BY <1>1, <1>5, <1>6, <2>1, <2>2, PeersUntouched
  <2>3. CASE base' = again /\ bev' = bev /\ net' = [net EXCEPT ![to].room = FALSE]
    <3>1. net' \in Nets
      BY <1>1, <1>10, <2>3 DEF Nets
    <3>2. QED
      BY <1>1, <1>7, <2>1, <2>3, <3>1
  <2>4. QED
    BY <2>1, <2>2, <2>3
<1>11. CASE bev[c].out /\ ~(to \in Conn /\ net[to].st \in {"dead", "open", "eof"})
  <2>1. /\ net' = IF to \in Conn THEN [net EXCEPT ![to].st = "dead"] ELSE net
        /\ OnError(c, b)
        /\ UNCHANGED <<proc, bev, misrouted>>
    BY <1>11 DEF WriteCb
  <2> HIDE DEF b, to
  <2>2. net' \in Nets
    BY <1>1, <2>1 DEF Nets
  <2>3. QED
    BY <1>2, <1>3, <2>1, <2>2, OnErrorAny
<1>12. QED
  BY <1>8, <1>9, <1>10, <1>11

(* Running the first active event keeps AnyInv (event_process_active).     *)
LEMMA ProcessAny == AnyInv /\ Process => AnyInv'
<1> SUFFICES ASSUME AnyInv, Process PROVE AnyInv'
  OBVIOUS
<1> DEFINE e == Head(base.active)
           b == [base EXCEPT !.active = Tail(@)]
<1>1. base.active # <<>> /\ base.active \in Seq(KnownEvents(bev))
  BY DEF Process, AnyInv, BaseKnown
<1>2. e \in KnownEvents(bev) /\ Tail(base.active) \in Seq(KnownEvents(bev))
  BY <1>1, HeadAndTail
<1>3. CASE e = ListenEvent
  <2>1. NewConnect
    <3>1. ListenEvent[2] = "read"
      BY DEF ListenEvent
    <3>2. QED
      BY <1>3 DEF Process
  <2>2. BaseKnown(b, bev)
    <3>1. Tail(base.active) \in Seq(Events \cup {ListenEvent})
      <4>1. KnownEvents(bev) \subseteq Events \cup {ListenEvent}
        BY DEF KnownEvents
      <4>2. QED
        BY <1>2, <4>1, SeqWiden
    <3>2. b \in Bases /\ b.active = Tail(base.active) /\ b.slot = base.slot
      BY <3>1 DEF AnyInv, BaseKnown, Bases
    <3> HIDE DEF b
    <3>3. QED
      BY <1>2, <3>2 DEF AnyInv, BaseKnown
  <2>3. \/ \E c \in Conn, f \in Fd : /\ NewPeer(c, f, "server", b)
                                    /\ UNCHANGED <<proc, misrouted, foreign>>
        \/ Ends("threw_accept", b)
    BY <2>1 DEF NewConnect
  <2> HIDE DEF b
  <2>4. CASE \E c \in Conn, f \in Fd : /\ NewPeer(c, f, "server", b)
                                       /\ UNCHANGED <<proc, misrouted, foreign>>
    BY <2>2, <2>4, NewPeerAny
  <2>5. CASE Ends("threw_accept", b)
    <3>1. /\ file' \in Files /\ net' \in Nets /\ proc' \in Procs
          /\ misrouted' \in BOOLEAN /\ foreign' \in BOOLEAN
          /\ bev' \in Bevs /\ SameTargets(bev', bev) /\ UNCHANGED <<obj, maps, told>>
      BY <2>5 DEF Ends, AnyInv, TypeOK, Files, Nets, Procs, Bevs, SameTargets
    <3>2. BaseKnown(base', bev')
      BY <2>2, <2>5 DEF Ends
    <3>3. QED
      BY <3>1, <3>2, PeersUntouched
  <2>6. QED
    BY <2>3, <2>4, <2>5
<1>4. CASE e # ListenEvent
  <2>1. e[1] \in Conn /\ Known(bev, e[1])
    BY <1>2, <1>4 DEF KnownEvents, Events, Conn
  <2>2. ReadCb(e[1]) \/ WriteCb(e[1])
    BY <1>4 DEF Process
  <2>3. QED
    BY <2>1, <2>2, ReadCbAny, WriteCbAny
<1>5. QED
  BY <1>3, <1>4

(* Connecting to a server keeps AnyInv, whether or not the connection is   *)
(* made (CreateClientSocket).                                              *)
LEMMA CreateClientSocketAny ==
    ASSUME AnyInv, NEW c \in Conn, CreateClientSocket(c)
    PROVE  AnyInv'
<1>1. PICK f \in Fd :
        \/ NewPeer(c, f, "client", base) /\ UNCHANGED <<proc, misrouted, foreign>>
        \/ /\ net' = [net EXCEPT ![c].st = "gone"]
           /\ file' \in {[file EXCEPT ![f] = Unconnected], file}
           /\ UNCHANGED <<proc, base, bev, obj, maps, told, misrouted, foreign>>
  BY DEF CreateClientSocket
<1>2. BaseKnown(base, bev)
  BY DEF AnyInv
<1>3. CASE NewPeer(c, f, "client", base) /\ UNCHANGED <<proc, misrouted, foreign>>
  BY <1>2, <1>3, NewPeerAny
<1>4. CASE /\ net' = [net EXCEPT ![c].st = "gone"]
           /\ file' \in {[file EXCEPT ![f] = Unconnected], file}
           /\ UNCHANGED <<proc, base, bev, obj, maps, told, misrouted, foreign>>
  <2>1. file' \in Files
    BY <1>4 DEF AnyInv, TypeOK, Files
  <2>2. net' \in Nets
    BY <1>4, SMTT(30) DEF AnyInv, TypeOK, Nets
  <2>3. /\ proc' \in Procs /\ misrouted' \in BOOLEAN /\ foreign' \in BOOLEAN
        /\ bev' \in Bevs /\ SameTargets(bev', bev)
    BY <1>4 DEF AnyInv, TypeOK, Procs, Bevs, SameTargets
  <2>4. QED
    BY <1>2, <1>4, <2>1, <2>2, <2>3, PeersUntouched
<1>5. QED
  BY <1>1, <1>3, <1>4

\* What the remote side does, and what the process does without any peer.
Elsewhere ==
    \/ CreateServerSocket \/ LoopAgain
    \/ \E c \in Conn : \/ RemoteConnects(c) \/ RemoteCloses(c) \/ RemoteResets(c)
                       \/ RemoteSends(c) \/ RemoteReads(c)

(* What the other side and the application do keeps AnyInv.                *)
LEMMA ElsewhereAny == AnyInv /\ Elsewhere => AnyInv'
<1> SUFFICES ASSUME AnyInv, Elsewhere PROVE AnyInv'
  OBVIOUS
<1>1. UNCHANGED <<file, base, bev, obj, maps, told, misrouted, foreign>>
  BY DEF Elsewhere, CreateServerSocket, LoopAgain, RemoteConnects, RemoteCloses, RemoteResets,
         RemoteSends, RemoteReads, processVars
<1>2. proc' \in Procs
  BY DEF Elsewhere, CreateServerSocket, LoopAgain, RemoteConnects, RemoteCloses, RemoteResets,
         RemoteSends, RemoteReads, processVars, AnyInv, TypeOK, Procs
<1>3. net' \in Nets
  <2>1. net \in Nets
    BY DEF AnyInv, TypeOK, Nets
  <2>2. CASE net' = net
    BY <2>1, <2>2
  <2>3. CASE net' # net
    <3>1. PICK c \in Conn : \/ net' = [net EXCEPT ![c].st = "backlog"]
                            \/ net' = [net EXCEPT ![c].st = "eof"]
                            \/ net' = [net EXCEPT ![c].st = "reset"]
                            \/ net' = [net EXCEPT ![c].unread = TRUE]
                            \/ net' = [net EXCEPT ![c].room = TRUE]
      BY <2>3 DEF Elsewhere, CreateServerSocket, LoopAgain, RemoteConnects, RemoteCloses,
                  RemoteResets, RemoteSends, RemoteReads
    <3>2. [net EXCEPT ![c].st = "backlog"] \in Nets /\ [net EXCEPT ![c].st = "eof"] \in Nets
      BY <2>1 DEF Nets
    <3>3. [net EXCEPT ![c].st = "reset"] \in Nets /\ [net EXCEPT ![c].unread = TRUE] \in Nets
      BY <2>1 DEF Nets
    <3>4. [net EXCEPT ![c].room = TRUE] \in Nets
      BY <2>1 DEF Nets
    <3>5. QED
      BY <3>1, <3>2, <3>3, <3>4
  <2>4. QED
    BY <2>2, <2>3
<1>4. /\ file' \in Files /\ misrouted' \in BOOLEAN /\ foreign' \in BOOLEAN
      /\ bev' \in Bevs /\ SameTargets(bev', bev)
      /\ BaseKnown(base', bev')
  BY <1>1 DEF AnyInv, TypeOK, Files, Bevs, SameTargets
<1>5. QED
  BY <1>1, <1>2, <1>3, <1>4, PeersUntouched

(* AnyInv holds when the process starts.                                   *)
LEMMA InitAny == Init => AnyInv
<1> SUFFICES ASSUME Init PROVE AnyInv
  OBVIOUS
<1>1. base \in Bases /\ base.active = <<>> /\ \A f \in Fd, k \in Kinds : base.slot[f][k] = None
  BY SMTT(30) DEF Init, NewBase, Bases
<1>2. BaseKnown(base, bev)
  BY <1>1, SeqEmpty DEF BaseKnown
<1>3. TypeOK
  <2>1. file \in Files
    BY DEF Init, Files
  <2>2. net \in Nets
    BY DEF Init, Nets
  <2>3. bev \in Bevs
    BY DEF Init, Bevs
  <2>4. obj \in Objs
    BY DEF Init, Objs
  <2>5. /\ proc = "start" /\ PeerObjList \in [Fd -> Addr \cup {None}] /\ told \in [Fd -> Int]
        /\ PeerVfd2ServerObj = {} /\ PeerVfd2ClientObj = {} /\ ClientObjList = {}
        /\ misrouted = FALSE /\ foreign = FALSE
    BY SMTT(30) DEF Init
  <2>6. QED
    BY <1>1, <2>1, <2>2, <2>3, <2>4, <2>5 DEF TypeOK, Files, Nets, Bevs, Objs
<1>4. PeersKnown(obj, bev)
  BY DEF Init, PeersKnown
<1>5. Peers = {}
  BY DEF Init, Peers
<1>6. LookupsSucceed /\ ErrorsAfterConnects
  BY <1>5, SMTT(30) DEF LookupsSucceed, ErrorsAfterConnects, Init
<1>7. QED
  BY <1>2, <1>3, <1>4, <1>6 DEF AnyInv

-----------------------------------------------------------------------------
(* A peer is made, a peer is deleted: peers, maps, bufferevents and        *)
(* descriptors stay in step, as long as OnError closes no connection but   *)
(* the one it was called for.                                              *)

\* The descriptor of bufferevent c is still open on connection c.
Current(files, bevs, c) == bevs[c].fd \in Fd /\ files[bevs[c].fd] = c

\* Connection c was closed and its descriptor has not been used again.
JustClosed(files, bevs, objs, c) ==
    /\ bevs[c].fd \in Fd /\ files[bevs[c].fd] = Free
    /\ bevs[c].arg \in Addr /\ ~objs[bevs[c].arg].live

\* Active events belong to open connections, except for the write event that was
\* queued behind the read event whose callback has just closed the connection.
QueueOK(active, files, bevs, objs) ==
    \A i \in 1..Len(active) : active[i] # ListenEvent =>
        \/ Current(files, bevs, active[i][1])
        \/ i = 1 /\ active[i][2] = "write" /\ JustClosed(files, bevs, objs, active[i][1])

\* The events of one bufferevent lie next to each other in the queue, the read event
\* first.
Paired(A) ==
    \A i, j \in 1..Len(A) :
        i < j /\ A[i][1] = A[j][1] => j = i + 1 /\ A[i][2] = "read" /\ A[j][2] = "write"

\* A connection that is open, or was left open, has one descriptor.  Descriptor,
\* connection, bufferevent and object of a listed peer lead to each other.
Linked(files, bevs, objs, list) ==
    /\ \A f \in Fd : files[f] \in Conn => bevs[files[f]].fd = f
    /\ \A f \in Fd : list[f] # None =>
          /\ files[f] \in Conn /\ bevs[files[f]].arg = list[f]
          /\ objs[list[f]].live /\ objs[list[f]].vfd = f /\ objs[list[f]].buff = files[f]
    /\ \A a \in Addr : objs[a].live => list[objs[a].vfd] = a
    /\ \A a \in Addr : objs[a].status = IF objs[a].live THEN 1 ELSE 0

\* What the kernel waits for on a descriptor, its own connection's events are told of.
MaskOK(b, files) ==
    \A f \in Fd : b.mask[f] # {} =>
        files[f] \in Conn /\ \A k \in Kinds : b.slot[f][k] \in {None, files[f]}

\* A connection that was not accepted has no bufferevent yet.
Fresh(nets, bevs) == \A c \in Conn : nets[c].st \in {"none", "backlog"} => bevs[c].fd = None

(* The inductive invariant of the process in which OnError has closed no   *)
(* other connection.                                                       *)
OwnInv ==
    /\ AnyInv /\ ~foreign
    /\ Linked(file, bev, obj, PeerObjList)
    /\ QueueOK(base.active, file, bev, obj) /\ Paired(base.active)
    /\ MaskOK(base, file) /\ Fresh(net, bev)
    /\ proc \in {"start", "wait"} => base.active = <<>>
    /\ MapsAgree /\ CallbacksAlternate /\ ~misrouted

MaskKept(r, b, files) == r \in Bases /\ MaskOK(r, files) /\ r.active = b.active

(* event_add of an event of the connection that is open on the descriptor  *)
(* keeps the table of epoll.c in step with the kernel.                     *)
LEMMA EventAddMask ==
    ASSUME NEW b \in Bases, NEW files, MaskOK(b, files), NEW c \in Conn, NEW f \in Fd,
           files[f] = c, NEW k \in Kinds, NEW open \in BOOLEAN
    PROVE  MaskKept(EventAdd(b, c, k, f, open), b, files)
<1> DEFINE r == EventAdd(b, c, k, f, open)
<1>1. EntersOnly(r, b, c, k, f, open)
  BY EventAddFields DEF Conn
<1> HIDE DEF r
<1>2. ASSUME NEW g \in Fd, r.mask[g] # {}
      PROVE  files[g] \in Conn /\ \A j \in Kinds : r.slot[g][j] \in {None, files[g]}
  <2>1. CASE r = b
    BY <1>2, <2>1 DEF MaskOK
  <2>2. CASE r # b /\ g # f
    BY <1>1, <1>2, <2>2 DEF MaskOK, EntersOnly
  <2>3. CASE r # b /\ g = f
    <3>1. \A j \in Kinds : b.slot[f][j] \in {None, c}
      BY <1>1, <2>3 DEF MaskOK, EntersOnly
    <3>2. QED
      BY <1>1, <2>3, <3>1 DEF EntersOnly
  <2>4. QED
    BY <2>1, <2>2, <2>3
<1>3. QED
  BY <1>1, <1>2 DEF MaskKept, MaskOK, EntersOnly, r

(* event_del keeps the table of epoll.c in step with the kernel.           *)
LEMMA EventDelMask ==
    ASSUME NEW b \in Bases, NEW files, MaskOK(b, files), NEW c \in Conn, NEW f \in Fd,
           NEW k \in Kinds
    PROVE  MaskOK(EventDel(b, c, k, f), files) /\ EventDel(b, c, k, f) \in Bases
<1> DEFINE r == EventDel(b, c, k, f)
<1>1. Leaves(r, b, c, k)
  BY EventDelFields DEF Conn
<1> HIDE DEF r
<1>2. QED
  BY <1>1, SMTT(30) DEF MaskOK, Leaves, r

\* event_del of the event whose callback runs leaves the rest of the queue.
LEMMA EventDelHead ==
    ASSUME AnyInv, Paired(base.active), base.active # <<>>, NEW c \in Conn, NEW k \in Kinds,
           Head(base.active) = <<c, k>>, NEW f \in Fd
    PROVE  EventDel(base, c, k, f).active = Tail(base.active)
<1> DEFINE A == base.active
<1>1. A \in Seq(Events \cup {ListenEvent}) /\ base \in Bases
  BY DEF AnyInv, BaseKnown, Bases
<1>2. Leaves(EventDel(base, c, k, f), base, c, k)
  BY <1>1, EventDelFields DEF Conn
<1>3. Len(A) \in Nat /\ Len(A) > 0 /\ A[1] = <<c, k>>
  BY <1>1, SeqEmpty, SMTT(30)
<1>4. ASSUME NEW i \in 2..Len(A), A[i] = Head(A) PROVE FALSE
  <2>1. 1 \in 1..Len(A) /\ i \in 1..Len(A) /\ 1 < i /\ A[1][1] = A[i][1]
    BY <1>3, <1>4, SMTT(30)
  <2>2. A[1][2] = "read" /\ A[i][2] = "write"
    BY <2>1 DEF Paired
  <2>3. QED
    BY <1>3, <1>4, <2>2
<1>5. Removed(A, Head(A)) = Tail(A)
  <2> HIDE DEF A
  <2>1. A # <<>>
    BY DEF A
  <2>2. QED
    BY <1>1, <1>4, <2>1, RemovedHead
<1>6. QED
  BY <1>2, <1>5 DEF Leaves

\* The tail of a queue in pairs.
LEMMA PairedTail ==
    ASSUME NEW S, NEW A \in Seq(S), A # <<>>, Paired(A)
    PROVE  Paired(Tail(A))
<1>1. /\ Len(A) \in Nat /\ Len(Tail(A)) = Len(A) - 1
      /\ \A i \in 1..Len(Tail(A)) : Tail(A)[i] = A[i + 1]
  BY HeadAndTail, SeqLength
<1>2. SUFFICES ASSUME NEW i \in 1..Len(Tail(A)), NEW j \in 1..Len(Tail(A)), i < j,
                      Tail(A)[i][1] = Tail(A)[j][1]
               PROVE  j = i + 1 /\ Tail(A)[i][2] = "read" /\ Tail(A)[j][2] = "write"
  BY DEF Paired
<1>3. i + 1 \in 1..Len(A) /\ j + 1 \in 1..Len(A) /\ i + 1 < j + 1 /\ A[i + 1][1] = A[j + 1][1]
  BY <1>1, <1>2, SMTT(30)
<1>4. j + 1 = (i + 1) + 1 /\ A[i + 1][2] = "read" /\ A[j + 1][2] = "write"
  BY <1>3 DEF Paired
<1>5. QED
  BY <1>1, <1>4, SMTT(30)

AllCurrent(A, files, bevs) ==
    \A i \in 1..Len(A) : A[i] # ListenEvent => Current(files, bevs, A[i][1])

\* Only the first active event can be of a closed connection.
LEMMA TailCurrent ==
    ASSUME NEW S, NEW A \in Seq(S), A # <<>>, NEW files, NEW bevs, NEW objs,
           QueueOK(A, files, bevs, objs)
    PROVE  AllCurrent(Tail(A), files, bevs)
<1>1. /\ Len(A) \in Nat /\ Len(Tail(A)) = Len(A) - 1
      /\ \A i \in 1..Len(Tail(A)) : Tail(A)[i] = A[i + 1]
  BY HeadAndTail, SeqLength
<1>2. ASSUME NEW i \in 1..Len(Tail(A)), Tail(A)[i] # ListenEvent
      PROVE  Current(files, bevs, Tail(A)[i][1])
  <2>1. i + 1 \in 1..Len(A) /\ i + 1 # 1 /\ A[i + 1] # ListenEvent /\ Tail(A)[i] = A[i + 1]
    BY <1>1, <1>2, SMTT(30)
  <2>2. QED
    BY <2>1 DEF QueueOK
<1>3. QED
  BY <1>2 DEF AllCurrent

(* A queue with events of open connections only is in order.               *)
LEMMA CurrentQueueOK ==
    ASSUME NEW A, NEW files, NEW bevs, NEW objs, AllCurrent(A, files, bevs)
    PROVE  QueueOK(A, files, bevs, objs)
  BY DEF AllCurrent, QueueOK

(* The order of the queue depends on descriptor and argument of the        *)
(* bufferevents, not on their output.                                      *)
LEMMA QueueKeepsTargets ==
    ASSUME NEW A \in Seq(Events \cup {ListenEvent}), NEW files, NEW bevs, NEW older, NEW objs,
           QueueOK(A, files, older, objs), SameTargets(bevs, older)
    PROVE  QueueOK(A, files, bevs, objs)
<1>1. ASSUME NEW i \in 1..Len(A), A[i] # ListenEvent
      PROVE  \/ Current(files, bevs, A[i][1])
             \/ i = 1 /\ A[i][2] = "write" /\ JustClosed(files, bevs, objs, A[i][1])
  <2>1. A[i] \in Events \cup {ListenEvent}
    BY SeqElement
  <2>2. A[i][1] \in Conn
    BY <1>1, <2>1 DEF Events, Conn
  <2>3. bevs[A[i][1]].fd = older[A[i][1]].fd /\ bevs[A[i][1]].arg = older[A[i][1]].arg
    BY <2>2 DEF SameTargets
  <2>4. QED
    BY <1>1, <2>3 DEF QueueOK, Current, JustClosed
<1>2. QED
  BY <1>1 DEF QueueOK

\* A step that leaves descriptors, peers and what the application was told alone.
LEMMA OwnUntouched ==
    ASSUME OwnInv, AnyInv', UNCHANGED <<file, obj, maps, told, misrouted, foreign>>,
           SameTargets(bev', bev),
           QueueOK(base'.active, file, bev, obj), Paired(base'.active), MaskOK(base', file),
           \A c \in Conn : net'[c].st \in {"none", "backlog"} => net[c].st \in {"none", "backlog"},
           proc' \in {"start", "wait"} => base'.active = <<>>
    PROVE  OwnInv'
<1>1. /\ base' \in Bases /\ base'.active \in Seq(Events \cup {ListenEvent})
      /\ PeerObjList \in [Fd -> Addr \cup {None}]
  BY DEF AnyInv, BaseKnown, Bases, TypeOK, maps
<1>2. QueueOK(base'.active, file', bev', obj')
  <2>1. QueueOK(base'.active, file, bev', obj)
    BY <1>1, QueueKeepsTargets
  <2>2. QED
    BY <2>1
<1>3. Linked(file', bev', obj', PeerObjList')
  BY <1>1, SMTT(30) DEF OwnInv, Linked, SameTargets, maps
<1>4. MaskOK(base', file') /\ Fresh(net', bev')
  BY DEF OwnInv, Fresh, SameTargets
<1>5. MapsAgree' /\ CallbacksAlternate' /\ ~misrouted' /\ ~foreign'
  <2>1. Peers' = Peers /\ ~misrouted' /\ ~foreign'
    BY DEF OwnInv, Peers, maps
  <2>2. MapsAgree'
    BY <2>1, SMTT(30) DEF OwnInv, MapsAgree, maps
  <2>3. CallbacksAlternate'
    BY <2>1 DEF OwnInv, CallbacksAlternate, maps
  <2>4. QED
    BY <2>1, <2>2, <2>3
<1>6. QED
  BY <1>2, <1>3, <1>4, <1>5 DEF OwnInv

(* What a new peer a for connection c on descriptor f changes, as the      *)
(* loops and lookups of the socket layer see it; b is the event base       *)
(* before its bufferevent is set up.                                       *)
PeerAdded(a, c, f, type, b) ==
    /\ AnyInv' /\ ~obj[a].live /\ PeerObjList[f] = None
    /\ \A x \in Addr :
          obj'[x] = IF x = a
                    THEN [live |-> TRUE, vfd |-> f, type |-> type, status |-> 1, buff |-> c]
                    ELSE obj[x]
    /\ \A g \in Fd : PeerObjList'[g] = IF g = f THEN a ELSE PeerObjList[g]
    /\ \A g \in Fd : file'[g] = IF g = f THEN c ELSE file[g]
    /\ \A g \in Fd : told'[g] = IF g = f THEN told[g] + 1 ELSE told[g]
    /\ bev'[c].fd = f /\ bev'[c].arg = a
    /\ \A x \in Conn \ {c} : bev'[x].fd = bev[x].fd /\ bev'[x].arg = bev[x].arg
    /\ PeerVfd2ServerObj' = PeerVfd2ServerObj \cup (IF type = "server" THEN {f} ELSE {})
    /\ PeerVfd2ClientObj' = PeerVfd2ClientObj \cup (IF type = "client" THEN {f} ELSE {})
    /\ ClientObjList' = ClientObjList \cup (IF type = "client" THEN {f} ELSE {})
    /\ MaskOK(base', file') /\ base'.active = b.active /\ Fresh(net', bev')

(* Accepting or creating a connection adds a peer (NewPeer).               *)
LEMMA NewPeerAdds ==
    ASSUME OwnInv, NEW c \in Conn, NEW f \in Fd, NEW type \in {"server", "client"}, NEW b,
           file[f] = Free, bev[c].fd = None, BaseKnown(b, bev), MaskOK(b, file),
           NewPeer(c, f, type, b), UNCHANGED <<proc, misrouted, foreign>>
    PROVE  \E a \in Addr : PeerAdded(a, c, f, type, b)
<1>1. PICK a \in {x \in Addr : ~obj[x].live} : PeerMade(a, c, f, type, b)
  BY DEF NewPeer, PeerMade, PeerPoint
<1> DEFINE peer == [live |-> TRUE, vfd |-> f, type |-> type, status |-> 1, buff |-> c]
           objs == [obj EXCEPT ![a] = peer]
           bevs == [bev EXCEPT ![c] = [fd |-> f, arg |-> a, out |-> FALSE]]
           list == [PeerObjList EXCEPT ![f] = a]
           files == [file EXCEPT ![f] = c]
           added == EventAdd(b, c, "read", f, TRUE)
           w == Written(added, objs, bevs, OpenFds \cup {f}, a)
<1>2. AnyInv /\ AnyInv' /\ a \in Addr /\ ~obj[a].live
  BY NewPeerAny DEF OwnInv
<1>3. /\ obj \in Objs /\ bev \in Bevs /\ PeerObjList \in [Fd -> Addr \cup {None}]
      /\ file \in Files /\ told \in [Fd -> Int] /\ net \in Nets
  BY <1>2 DEF AnyInv, TypeOK, Objs, Bevs, Files, Nets
<1>4. PeerObjList[f] = None
  <2>1. Free \notin Conn
    BY ManagerAssumption
  <2>2. QED
    BY <2>1 DEF OwnInv, Linked
<1>5. /\ obj' = objs /\ PeerObjList' = list /\ file' = files
      /\ net' = [net EXCEPT ![c].st = "open"]
      /\ base' = w.base /\ bev' = w.bev
      /\ told' = [told EXCEPT ![f] = @ + 1]
      /\ PeerVfd2ServerObj' = PeerVfd2ServerObj \cup (IF type = "server" THEN {f} ELSE {})
      /\ PeerVfd2ClientObj' = PeerVfd2ClientObj \cup (IF type = "client" THEN {f} ELSE {})
      /\ ClientObjList' = ClientObjList \cup (IF type = "client" THEN {f} ELSE {})
  <2>1. AddPeerObj(f, a) = list /\ list[f] = a /\ a # None
    BY <1>2, <1>3, <1>4, ManagerAssumption DEF AddPeerObj
  <2>2. QED
    BY <1>1, <2>1 DEF PeerMade, PeerVfdOnWrite, PeerVfdOnConnect
<1>6. Wrote(w, added, bevs, c, f, OpenFds \cup {f})
  <2>1. objs[a] = peer /\ bevs[c].fd = f /\ objs \in Objs /\ bevs \in Bevs
    BY <1>2, <1>3 DEF Objs, Bevs
  <2>2. Known(bevs, c) /\ \A x \in Conn : Known(bev, x) => Known(bevs, x)
    BY <1>2, <1>3, ManagerAssumption DEF Known, Bevs
  <2>3. \A x \in Addr \ {a} : objs[x] = obj[x]
    BY <1>2, <1>3 DEF Objs
  <2>4. objs[a].live /\ objs[a].buff = c /\ objs[a].vfd = f /\ objs[a].type = type
    BY <2>1, SMTT(30)
  <2> HIDE DEF objs, bevs, added
  <2>5. BaseKnown(b, bevs)
    BY <1>3, <2>1, <2>2, KnownIsSeqOfKnown
  <2>6. BaseKnown(added, bevs)
    <3>1. "read" \in Kinds /\ TRUE \in BOOLEAN
      BY DEF Kinds
    <3>2. QED
      BY <2>1, <2>2, <2>5, <3>1, EventAddKnown DEF added
  <2>7. PeersKnown(objs, bevs)
    <3>1. PeersKnown(obj, bev) /\ f # None /\ c # None
      BY <1>2 DEF AnyInv, Conn
    <3>2. ASSUME NEW x \in Addr, x # a, objs[x].live
          PROVE  /\ objs[x].vfd # None /\ objs[x].type \in {"server", "client"}
                 /\ objs[x].buff # None /\ Known(bevs, objs[x].buff)
      <4>1. objs[x] = obj[x] /\ obj[x].buff \in Conn
        BY <1>3, <2>3, <3>1, <3>2 DEF PeersKnown, Objs
      <4>2. QED
        BY <2>2, <3>1, <3>2, <4>1 DEF PeersKnown
    <3>3. QED
      BY <2>2, <2>4, <3>1, <3>2 DEF PeersKnown
  <2>8. Wrote(w, added, bevs, objs[a].buff, bevs[objs[a].buff].fd, OpenFds \cup {f})
    BY <1>2, <2>1, <2>4, <2>6, <2>7, WrittenFacts
  <2>9. QED
    <3> HIDE DEF w
    <3>1. QED
      BY <2>1, <2>4, <2>8
<1>7. /\ \A x \in Addr : obj'[x] = IF x = a THEN peer ELSE obj[x]
      /\ \A g \in Fd : PeerObjList'[g] = IF g = f THEN a ELSE PeerObjList[g]
      /\ \A g \in Fd : file'[g] = IF g = f THEN c ELSE file[g]
      /\ \A g \in Fd : told'[g] = IF g = f THEN told[g] + 1 ELSE told[g]
  BY <1>2, <1>3, <1>5 DEF Objs, Files
<1>8. /\ bev'[c].fd = f /\ bev'[c].arg = a
      /\ \A x \in Conn \ {c} : bev'[x].fd = bev[x].fd /\ bev'[x].arg = bev[x].arg
  <2>1. SameTargets(bev', bevs)
    BY <1>5, <1>6 DEF Wrote
  <2>2. QED
    BY <1>3, <2>1 DEF Bevs, SameTargets
<1>9. base' = added \/ base' = EventAdd(added, c, "write", f, f \in OpenFds \cup {f})
  BY <1>5, <1>6 DEF Wrote
<1> HIDE DEF objs, bevs, list, files, added, w
<1>10. b \in Bases /\ MaskOK(b, file') /\ file'[f] = c
  <2>1. b.mask[f] = {}
    BY ManagerAssumption DEF MaskOK
  <2>2. QED
    BY <1>7, <2>1 DEF BaseKnown, MaskOK
<1>11. MaskKept(added, b, file')
  <2>1. "read" \in Kinds /\ TRUE \in BOOLEAN
    BY DEF Kinds
  <2>2. QED
    BY <1>10, <2>1, EventAddMask DEF added
<1>12. MaskOK(base', file') /\ base'.active = b.active
  <2>1. "write" \in Kinds /\ (f \in OpenFds \cup {f}) \in BOOLEAN
    BY DEF Kinds
  <2>2. added \in Bases /\ MaskOK(added, file') /\ added.active = b.active
    BY <1>11 DEF MaskKept
  <2>3. MaskKept(EventAdd(added, c, "write", f, f \in OpenFds \cup {f}), added, file')
    BY <1>10, <2>1, <2>2, EventAddMask
  <2>4. QED
    BY <1>9, <2>2, <2>3 DEF MaskKept
<1>13. Fresh(net', bev')
  <2>1. \A x \in Conn : net'[x].st = IF x = c THEN "open" ELSE net[x].st
    BY <1>3, <1>5, SMTT(30) DEF Nets
  <2>2. QED
    BY <1>8, <2>1 DEF OwnInv, Fresh
<1>14. PeerAdded(a, c, f, type, b)
  BY <1>2, <1>4, <1>5, <1>7, <1>8, <1>12, <1>13 DEF PeerAdded, peer
<1>15. QED
  BY <1>2, <1>14

(* The active events are those of open connections, as before.             *)
LEMMA AddedQueue ==
    ASSUME NEW a \in Addr, NEW c \in Conn, NEW f \in Fd, NEW type, NEW b \in Bases,
           PeerAdded(a, c, f, type, b), file[f] = Free, bev[c].fd = None,
           AllCurrent(b.active, file, bev)
    PROVE  AllCurrent(b.active, file', bev')
<1>1. /\ \A g \in Fd : file'[g] = IF g = f THEN c ELSE file[g]
      /\ \A x \in Conn \ {c} : bev'[x].fd = bev[x].fd
  BY DEF PeerAdded
<1>2. b.active \in Seq(Events \cup {ListenEvent})
  BY DEF Bases
<1>3. ASSUME NEW i \in 1..Len(b.active), b.active[i] # ListenEvent
      PROVE  Current(file', bev', b.active[i][1])
  <2> DEFINE d == b.active[i][1]
  <2>1. d \in Conn /\ Current(file, bev, d)
    <3>1. b.active[i] \in Events \cup {ListenEvent}
      BY <1>2, SeqElement
    <3>2. QED
      BY <1>3, <3>1 DEF AllCurrent, Events, Conn
  <2>2. d # c /\ bev[d].fd # f
    BY <2>1, ManagerAssumption DEF Current
  <2> HIDE DEF d
  <2>3. QED
    BY <1>1, <2>1, <2>2 DEF Current, d
<1>4. QED
  BY <1>3 DEF AllCurrent

(* The new peer is linked as the others are.                               *)
LEMMA AddedLinked ==
    ASSUME AnyInv, Linked(file, bev, obj, PeerObjList),
           NEW a \in Addr, NEW c \in Conn, NEW f \in Fd, NEW type, NEW b,
           PeerAdded(a, c, f, type, b), bev[c].fd = None
    PROVE  Linked(file', bev', obj', PeerObjList')
<1>1. /\ ~obj[a].live /\ PeerObjList[f] = None
      /\ \A x \in Addr :
            obj'[x] = IF x = a
                      THEN [live |-> TRUE, vfd |-> f, type |-> type, status |-> 1, buff |-> c]
                      ELSE obj[x]
      /\ \A g \in Fd : PeerObjList'[g] = IF g = f THEN a ELSE PeerObjList[g]
      /\ \A g \in Fd : file'[g] = IF g = f THEN c ELSE file[g]
  BY DEF PeerAdded
<1>2. /\ bev'[c].fd = f /\ bev'[c].arg = a
      /\ \A x \in Conn \ {c} : bev'[x].fd = bev[x].fd /\ bev'[x].arg = bev[x].arg
  BY DEF PeerAdded
<1>3. obj \in Objs /\ PeerObjList \in [Fd -> Addr \cup {None}]
  BY DEF AnyInv, TypeOK, Objs
<1>4. ASSUME NEW g \in Fd, file'[g] \in Conn PROVE bev'[file'[g]].fd = g
  <2>1. CASE g = f
    BY <1>1, <1>2, <2>1, SMTT(30)
  <2>2. CASE g # f
    <3>1. file'[g] = file[g] /\ bev[file[g]].fd = g
      BY <1>1, <1>4, <2>2, SMTT(30) DEF Linked
    <3>2. file[g] # c
      BY <3>1
    <3>3. QED
      BY <1>2, <1>4, <3>1, <3>2, SMTT(30)
  <2>3. QED
    BY <2>1, <2>2
<1>5. ASSUME NEW g \in Fd, PeerObjList'[g] # None
      PROVE  LET p == PeerObjList'[g] IN
             /\ file'[g] \in Conn /\ bev'[file'[g]].arg = p
             /\ obj'[p].live /\ obj'[p].vfd = g /\ obj'[p].buff = file'[g]
  <2>1. CASE g = f
    BY <1>1, <1>2, <2>1, SMTT(30)
  <2>2. CASE g # f
    <3> DEFINE p == PeerObjList[g]
    <3>1. PeerObjList'[g] = p /\ file'[g] = file[g] /\ p # None /\ p \in Addr
      BY <1>1, <1>3, <1>5, <2>2
    <3>2. /\ obj[p].live /\ obj[p].vfd = g /\ obj[p].buff = file[g] /\ file[g] \in Conn
          /\ bev[file[g]].fd = g /\ bev[file[g]].arg = p
      BY <3>1 DEF Linked
    <3>3. p # a /\ file[g] # c
      BY <1>1, <3>2, SMTT(30)
    <3>4. QED
      BY <1>1, <1>2, <3>1, <3>2, <3>3, SMTT(30)
  <2>3. QED
    BY <2>1, <2>2
<1>6. ASSUME NEW x \in Addr, obj'[x].live PROVE PeerObjList'[obj'[x].vfd] = x
  <2>1. CASE x = a
    BY <1>1, <2>1, SMTT(30)
  <2>2. CASE x # a
    <3>1. obj'[x] = obj[x] /\ obj[x].live
      BY <1>1, <1>6, <2>2
    <3>2. obj[x].vfd \in Fd /\ PeerObjList[obj[x].vfd] = x
      BY <1>3, <3>1, SMTT(30) DEF Linked, AnyInv, PeersKnown, Objs
    <3>3. obj[x].vfd # f
      BY <1>1, <3>2, ManagerAssumption, SMTT(30)
    <3>4. QED
      BY <1>1, <3>1, <3>2, <3>3, SMTT(30)
  <2>3. QED
    BY <2>1, <2>2
<1>7. \A x \in Addr : obj'[x].status = IF obj'[x].live THEN 1 ELSE 0
  BY <1>1, SMTT(30) DEF Linked
<1>8. QED
  BY <1>4, <1>5, <1>6, <1>7 DEF Linked

LiveListed(objs, list) ==
    {a \in Addr : objs[a].live} = {list[f] : f \in {g \in Fd : list[g] # None}}

(* The objects that are not deleted are those of the listed peers.         *)
LEMMA LiveIsListed ==
    ASSUME NEW files, NEW bevs, NEW objs \in Objs, NEW list \in [Fd -> Addr \cup {None}],
           Linked(files, bevs, objs, list), PeersKnown(objs, bevs)
    PROVE  LiveListed(objs, list)
<1> DEFINE P == {g \in Fd : list[g] # None}
<1>1. ASSUME NEW a \in Addr, objs[a].live PROVE \E f \in P : list[f] = a
  <2>1. objs[a].vfd \in Fd
    BY <1>1 DEF Objs, PeersKnown
  <2>2. list[objs[a].vfd] = a /\ a # None
    BY <1>1, ManagerAssumption DEF Linked
  <2>3. QED
    BY <2>1, <2>2
<1>2. ASSUME NEW f \in P PROVE list[f] \in Addr /\ objs[list[f]].live
  <2>1. f \in Fd /\ list[f] # None
    OBVIOUS
  <2>2. list[f] \in Addr
    BY <2>1
  <2>3. QED
    BY <2>1, <2>2 DEF Linked
<1> HIDE DEF P
<1>3. {a \in Addr : objs[a].live} = {list[f] : f \in P}
  BY <1>1, <1>2, SMTT(30)
<1>4. QED
  BY <1>3 DEF P, LiveListed

(* The new peer is in the map of its type, and OnConnect was called for it *)
(* once more than OnClose.                                                 *)
LEMMA AddedMaps ==
    ASSUME AnyInv, ~foreign, MapsAgree, CallbacksAlternate,
           Linked(file', bev', obj', PeerObjList'),
           NEW a \in Addr, NEW c \in Conn, NEW f \in Fd, NEW type \in {"server", "client"}, NEW b,
           PeerAdded(a, c, f, type, b)
    PROVE  MapsAgree' /\ CallbacksAlternate'
<1>1. /\ ~obj[a].live /\ PeerObjList[f] = None
      /\ \A x \in Addr :
            obj'[x] = IF x = a
                      THEN [live |-> TRUE, vfd |-> f, type |-> type, status |-> 1, buff |-> c]
                      ELSE obj[x]
      /\ \A g \in Fd : PeerObjList'[g] = IF g = f THEN a ELSE PeerObjList[g]
      /\ \A g \in Fd : told'[g] = IF g = f THEN told[g] + 1 ELSE told[g]
  BY DEF PeerAdded
<1>2. /\ PeerVfd2ServerObj' = PeerVfd2ServerObj \cup (IF type = "server" THEN {f} ELSE {})
      /\ PeerVfd2ClientObj' = PeerVfd2ClientObj \cup (IF type = "client" THEN {f} ELSE {})
      /\ ClientObjList' = ClientObjList \cup (IF type = "client" THEN {f} ELSE {})
  BY DEF PeerAdded
<1>3. PeerObjList \in [Fd -> Addr \cup {None}]
  BY DEF AnyInv, TypeOK
<1>4. Peers' = Peers \cup {f} /\ f \notin Peers
  BY <1>1, ManagerAssumption, SMTT(30) DEF Peers
<1>5. \A g \in Peers : g # f /\ PeerObjList'[g] = PeerObjList[g] /\ PeerObjList[g] \in Addr
  BY <1>1, <1>3 DEF Peers
<1>6. \A g \in Peers : obj'[PeerObjList[g]] = obj[PeerObjList[g]]
  BY <1>1, <1>5 DEF AnyInv, LookupsSucceed
<1>7. {x \in Addr : obj'[x].live} = {PeerObjList'[g] : g \in Peers'}
  <2>1. /\ obj' \in Objs /\ PeerObjList' \in [Fd -> Addr \cup {None}]
        /\ PeersKnown(obj', bev')
    BY DEF PeerAdded, AnyInv, TypeOK, Objs
  <2>2. LiveListed(obj', PeerObjList')
    BY <2>1, LiveIsListed
  <2>3. QED
    BY <2>2 DEF LiveListed, Peers
<1>8. PeerObjList'[f] = a /\ obj'[a].type = type
  BY <1>1, SMTT(30)
<1>9. /\ PeerVfd2ServerObj' = {g \in Peers' : obj'[PeerObjList'[g]].type = "server"}
      /\ PeerVfd2ClientObj' = {g \in Peers' : obj'[PeerObjList'[g]].type = "client"}
  BY <1>2, <1>4, <1>5, <1>6, <1>8, SMTT(30) DEF MapsAgree
<1>10. ClientObjList' = PeerVfd2ClientObj'
  BY <1>2 DEF MapsAgree
<1>11. MapsAgree'
  BY <1>7, <1>9, <1>10 DEF MapsAgree
<1>12. CallbacksAlternate'
  BY <1>1, <1>4, SMTT(30) DEF CallbacksAlternate
<1>13. QED
  BY <1>11, <1>12

(* A new peer keeps everything in step.                                    *)
LEMMA NewPeerOwn ==
    ASSUME OwnInv, NEW c \in Conn, NEW f \in Fd, NEW type \in {"server", "client"}, NEW b,
           file[f] = Free, bev[c].fd = None, BaseKnown(b, bev), MaskOK(b, file),
           AllCurrent(b.active, file, bev), Paired(b.active),
           proc \in {"start", "wait"} => b.active = <<>>,
           NewPeer(c, f, type, b), UNCHANGED <<proc, misrouted, foreign>>
    PROVE  OwnInv'
<1>1. PICK a \in Addr : PeerAdded(a, c, f, type, b)
  BY NewPeerAdds
<1>2. b \in Bases
  BY DEF BaseKnown
<1>3. /\ AnyInv /\ Linked(file, bev, obj, PeerObjList) /\ MapsAgree /\ CallbacksAlternate
      /\ ~misrouted /\ ~foreign
  BY DEF OwnInv
<1>4. AnyInv' /\ MaskOK(base', file') /\ base'.active = b.active /\ Fresh(net', bev')
  BY <1>1 DEF PeerAdded
<1>5. AllCurrent(b.active, file', bev')
  BY <1>1, <1>2, AddedQueue
<1>6. QueueOK(base'.active, file', bev', obj') /\ Paired(base'.active)
  BY <1>4, <1>5, CurrentQueueOK
<1>7. Linked(file', bev', obj', PeerObjList')
  BY <1>1, <1>3, AddedLinked
<1>8. MapsAgree' /\ CallbacksAlternate'
  BY <1>1, <1>3, <1>7, AddedMaps
<1>9. ~misrouted' /\ ~foreign' /\ (proc' \in {"start", "wait"} => base'.active = <<>>)
  BY <1>3, <1>4
<1>10. QED
  BY <1>4, <1>6, <1>7, <1>8, <1>9 DEF OwnInv

-----------------------------------------------------------------------------
(* Every step but the waiting in epoll_wait keeps peers, maps,             *)
(* bufferevents and descriptors in step.                                   *)

(* A peer object that was not deleted is listed for its descriptor, which  *)
(* is open on its connection.                                              *)
LEMMA LivePeer ==
    ASSUME OwnInv, NEW p \in Addr, obj[p].status # 0
    PROVE  LET g == obj[p].vfd IN
           /\ g \in Fd /\ PeerObjList[g] = p /\ p # None /\ obj[p].live
           /\ file[g] \in Conn /\ bev[file[g]].fd = g /\ bev[file[g]].arg = p
           /\ InMapOfType(p, g) /\ VfdOf(p, obj) = {g}
<1> DEFINE g == obj[p].vfd
<1>1. obj[p].live
  BY SMTT(30) DEF OwnInv, Linked
<1>2. g \in Fd /\ PeerObjList[g] = p /\ p # None
  BY <1>1, ManagerAssumption, SMTT(30) DEF OwnInv, Linked, AnyInv, PeersKnown, TypeOK
<1>3. file[g] \in Conn /\ bev[file[g]].arg = p /\ bev[file[g]].fd = g
  <2> HIDE DEF g
  <2>1. QED
    BY <1>2 DEF OwnInv, Linked
<1>4. InMapOfType(p, g)
  <2> HIDE DEF g
  <2>1. QED
    BY <1>2 DEF OwnInv, AnyInv, LookupsSucceed, Peers
<1>5. VfdOf(p, obj) = {g}
  BY <1>1 DEF VfdOf
<1>6. QED
  BY <1>1, <1>2, <1>3, <1>4, <1>5

\* OnError for connection c has deleted the peer p of descriptor g.
PeerGone(p, g) ==
    /\ told' = [told EXCEPT ![g] = @ - 1]
    /\ obj' = [obj EXCEPT ![p].status = 0, ![p].live = FALSE]
    /\ PeerObjList' = [PeerObjList EXCEPT ![g] = None]
    /\ IF obj[p].type = "server"
       THEN /\ PeerVfd2ServerObj' = PeerVfd2ServerObj \ {g}
            /\ UNCHANGED <<PeerVfd2ClientObj, ClientObjList>>
       ELSE /\ PeerVfd2ClientObj' = PeerVfd2ClientObj \ {g}
            /\ ClientObjList' = ClientObjList \ {g}
            /\ UNCHANGED PeerVfd2ServerObj

\* What it has closed is connection c, something that is no connection, or nothing.
ClosesAtMost(c, b) ==
    /\ base' \in Bases /\ base'.active = b.active /\ base'.slot = b.slot
    /\ \A g \in Fd :
          \/ file'[g] = file[g] /\ base'.mask[g] = b.mask[g]
          \/ file'[g] = Free /\ base'.mask[g] = {} /\ (file[g] = c \/ file[g] \notin Conn)

(* close() of a descriptor that is not another connection's.               *)
LEMMA CloseOwn ==
    ASSUME AnyInv, NEW c \in Conn, NEW b \in Bases, NEW w, Close(w, b), ~EndsAnother(w, c)
    PROVE  ClosesAtMost(c, b)
<1>1. CASE w \in Fd
  <2>1. base' = Closed(b, w)
    BY <1>1 DEF Close
  <2>2. /\ base' \in Bases /\ base'.active = b.active /\ base'.slot = b.slot
        /\ base'.mask = [b.mask EXCEPT ![w] = {}]
    BY <1>1, <2>1, ClosedFields
  <2>3. \A g \in Fd : base'.mask[g] = IF g = w THEN {} ELSE b.mask[g]
    BY <1>1, <2>2 DEF Bases
  <2>4. \A g \in Fd : file'[g] = IF g = w THEN Free ELSE file[g]
    BY DEF Close
  <2>5. file[w] = c \/ file[w] \notin Conn
    BY <1>1 DEF EndsAnother
  <2>6. QED
    BY <2>2, <2>3, <2>4, <2>5 DEF ClosesAtMost
<1>2. CASE w \notin Fd
  <2>1. base' = b /\ \A g \in Fd : file'[g] = file[g]
    BY <1>2 DEF Close
  <2>2. QED
    BY <2>1 DEF ClosesAtMost
<1>3. QED
  BY <1>1, <1>2

(* OnError on a peer that was not cleared takes it from the maps and       *)
(* deletes it.  What it closes then, reading _Vfd once more, depends on    *)
(* the allocator.                                                          *)
LEMMA OnErrorCloses ==
    ASSUME OwnInv, NEW c \in Conn, bev[c].arg \in Addr, obj[bev[c].arg].status # 0,
           NEW b \in Bases, OnError(c, b), ~foreign'
    PROVE  PeerGone(bev[c].arg, obj[bev[c].arg].vfd) /\ ClosesAtMost(c, b)
<1> DEFINE p == bev[c].arg
           g == obj[p].vfd
           objs == [obj EXCEPT ![p].status = 0]
<1>1. /\ g \in Fd /\ PeerObjList[g] = p /\ p # None /\ InMapOfType(p, g)
      /\ VfdOf(p, obj) = {g} /\ AnyInv /\ obj[p].vfd = g
  BY LivePeer DEF OwnInv
<1>2. \E v \in VfdOf(p, obj) :
         /\ PeerVfdOnClose(v, objs)
         /\ \E w \in VfdOf(p, obj') : Close(w, b) /\ foreign' = (foreign \/ EndsAnother(w, c))
  BY DEF OnError
<1> HIDE DEF g, objs, p
<1>3. /\ PeerVfdOnClose(g, objs)
      /\ \E w : Close(w, b) /\ foreign' = (foreign \/ EndsAnother(w, c))
  BY <1>1, <1>2
<1>4. ClosesAtMost(c, b)
  <2>1. PICK w : Close(w, b) /\ foreign' = (foreign \/ EndsAnother(w, c))
    BY <1>3
  <2>2. ~EndsAnother(w, c)
    BY <2>1
  <2>3. QED
    BY <1>1, <2>1, <2>2, CloseOwn
<1>5. /\ told' = [told EXCEPT ![g] = @ - 1]
      /\ obj' = [objs EXCEPT ![p].live = FALSE]
      /\ PeerObjList' = [PeerObjList EXCEPT ![g] = None]
      /\ IF obj[p].type = "server"
         THEN /\ PeerVfd2ServerObj' = PeerVfd2ServerObj \ {g}
              /\ UNCHANGED <<PeerVfd2ClientObj, ClientObjList>>
         ELSE /\ PeerVfd2ClientObj' = PeerVfd2ClientObj \ {g}
              /\ ClientObjList' = ClientObjList \ {g}
              /\ UNCHANGED PeerVfd2ServerObj
  BY <1>1, <1>3 DEF PeerVfdOnClose
<1>6. obj' = [obj EXCEPT ![p].status = 0, ![p].live = FALSE]
  BY <1>5 DEF objs
<1>7. PeerGone(p, g)
  BY <1>5, <1>6 DEF PeerGone
<1>8. QED
  BY <1>4, <1>7 DEF p, g

(* What is different once the peer p of descriptor g is deleted, as the    *)
(* lookups and the loop see it.                                            *)
PeerRemoved(p, g) ==
    /\ \A x \in Addr : /\ obj'[x].live <=> (x # p /\ obj[x].live)
                       /\ obj'[x].status = IF x = p THEN 0 ELSE obj[x].status
                       /\ obj'[x].vfd = obj[x].vfd /\ obj'[x].buff = obj[x].buff
                       /\ obj'[x].type = obj[x].type
    /\ \A f \in Fd : PeerObjList'[f] = IF f = g THEN None ELSE PeerObjList[f]
    /\ \A f \in Fd : told'[f] = IF f = g THEN told[f] - 1 ELSE told[f]

(* Deleting a peer changes its own entries only.                           *)
LEMMA GoneIsRemoved ==
    ASSUME AnyInv, NEW p \in Addr, NEW g \in Fd, PeerGone(p, g)
    PROVE  PeerRemoved(p, g)
<1>1. obj \in Objs /\ PeerObjList \in [Fd -> Addr \cup {None}] /\ told \in [Fd -> Int]
  BY DEF AnyInv, TypeOK, Objs
<1>2. /\ \A x \in Addr : /\ obj'[x].live <=> (x # p /\ obj[x].live)
                         /\ obj'[x].status = IF x = p THEN 0 ELSE obj[x].status
                         /\ obj'[x].vfd = obj[x].vfd /\ obj'[x].buff = obj[x].buff
                         /\ obj'[x].type = obj[x].type
      /\ \A f \in Fd : PeerObjList'[f] = IF f = g THEN None ELSE PeerObjList[f]
  BY <1>1, SMTT(30) DEF PeerGone, Objs
<1>3. \A f \in Fd : told'[f] = IF f = g THEN told[f] - 1 ELSE told[f]
  BY <1>1 DEF PeerGone
<1>4. QED
  BY <1>2, <1>3 DEF PeerRemoved

(* Of the active events, only a write event of the connection just closed  *)
(* is left without an open descriptor.                                     *)
LEMMA RemovedQueue ==
    ASSUME NEW c \in Conn, Current(file, bev, c), bev[c].arg \in Addr, NEW g, NEW b,
           PeerRemoved(bev[c].arg, g), ClosesAtMost(c, b), UNCHANGED bev,
           b.active \in ActiveQueues, AllCurrent(b.active, file, bev),
           \A i \in 1..Len(b.active) :
              b.active[i][1] = c => i = 1 /\ b.active[i][2] = "write"
    PROVE  QueueOK(b.active, file', bev', obj')
<1> DEFINE f == bev[c].fd
           active == b.active
<1>1. f \in Fd /\ file[f] = c
  BY DEF Current
<1>2. Current(file', bev', c) \/ JustClosed(file', bev', obj', c)
  <2>1. ~obj'[bev[c].arg].live
    BY DEF PeerRemoved
  <2>2. file'[f] = c \/ file'[f] = Free
    BY <1>1 DEF ClosesAtMost
  <2>3. QED
    BY <1>1, <2>1, <2>2 DEF Current, JustClosed
<1>3. ASSUME NEW i \in 1..Len(active), active[i] # ListenEvent
      PROVE  \/ Current(file', bev', active[i][1])
             \/ i = 1 /\ active[i][2] = "write" /\ JustClosed(file', bev', obj', active[i][1])
  <2> DEFINE d == active[i][1]
  <2>1. Current(file, bev, d)
    BY <1>3 DEF AllCurrent
  <2>2. CASE d = c
    BY <1>2, <2>2
  <2>3. CASE d # c
    <3>1. active[i] \in Events \cup {ListenEvent}
      BY SeqElement DEF ActiveQueues
    <3>2. d \in Conn
      BY <1>3, <3>1 DEF Events, Conn
    <3>3. bev[d].fd \in Fd /\ file[bev[d].fd] = d
      BY <2>1 DEF Current
    <3>4. file'[bev[d].fd] = d
      BY <2>3, <3>2, <3>3 DEF ClosesAtMost
    <3>5. QED
      BY <3>3, <3>4 DEF Current
  <2>4. QED
    BY <2>2, <2>3
<1>4. QED
  BY <1>3 DEF QueueOK

(* The other peers stay linked.                                            *)
LEMMA RemovedLinked ==
    ASSUME AnyInv, Linked(file, bev, obj, PeerObjList), UNCHANGED bev,
           NEW c \in Conn, NEW p \in Addr, NEW g \in Fd, NEW b, bev[c].arg = p,
           PeerObjList[g] = p, obj[p].vfd = g, PeerRemoved(p, g), ClosesAtMost(c, b)
    PROVE  Linked(file', bev', obj', PeerObjList')
<1>1. /\ \A x \in Addr : /\ obj'[x].live <=> (x # p /\ obj[x].live)
                         /\ obj'[x].status = IF x = p THEN 0 ELSE obj[x].status
                         /\ obj'[x].vfd = obj[x].vfd /\ obj'[x].buff = obj[x].buff
      /\ \A f \in Fd : PeerObjList'[f] = IF f = g THEN None ELSE PeerObjList[f]
  BY DEF PeerRemoved
<1>2. obj \in Objs /\ PeerObjList \in [Fd -> Addr \cup {None}]
  BY DEF AnyInv, TypeOK, Objs
<1>3. \A f \in Fd : file'[f] \in Conn => bev'[file'[f]].fd = f
  <2>1. \A f \in Fd : file'[f] \in Conn => file'[f] = file[f]
    BY ManagerAssumption DEF ClosesAtMost
  <2>2. QED
    BY <2>1 DEF Linked
<1>4. ASSUME NEW f \in Fd, PeerObjList'[f] # None
      PROVE  LET q == PeerObjList'[f] IN
             /\ file'[f] \in Conn /\ bev'[file'[f]].arg = q
             /\ obj'[q].live /\ obj'[q].vfd = f /\ obj'[q].buff = file'[f]
  <2> DEFINE q == PeerObjList[f]
  <2>1. f # g /\ PeerObjList'[f] = q /\ q # None /\ q \in Addr
    BY <1>1, <1>2, <1>4, SMTT(30)
  <2>2. /\ obj[q].live /\ obj[q].vfd = f /\ obj[q].buff = file[f]
        /\ file[f] \in Conn /\ bev[file[f]].arg = q
    BY <2>1 DEF Linked
  <2>3. q # p
    BY <2>1, <2>2
  <2>4. file'[f] = file[f]
    BY <2>2, <2>3 DEF ClosesAtMost
  <2>5. QED
    BY <1>1, <2>1, <2>2, <2>3, <2>4, SMTT(30)
<1>5. ASSUME NEW x \in Addr, obj'[x].live PROVE PeerObjList'[obj'[x].vfd] = x
  <2>1. x # p /\ obj[x].live /\ obj'[x].vfd = obj[x].vfd
    BY <1>1, <1>5
  <2>2. obj[x].vfd \in Fd /\ PeerObjList[obj[x].vfd] = x
    BY <1>2, <2>1, SMTT(30) DEF Linked, AnyInv, PeersKnown, Objs
  <2>3. obj[x].vfd # g
    BY <2>1, <2>2
  <2>4. QED
    BY <1>1, <2>1, <2>2, <2>3, SMTT(30)
<1>6. \A x \in Addr : obj'[x].status = IF obj'[x].live THEN 1 ELSE 0
  BY <1>1, SMTT(30) DEF Linked
<1>7. QED
  BY <1>3, <1>4, <1>5, <1>6 DEF Linked

(* The maps lose the peer, and OnClose was called for it.                  *)
LEMMA RemovedMaps ==
    ASSUME AnyInv, AnyInv', ~foreign, MapsAgree, CallbacksAlternate,
           Linked(file', bev', obj', PeerObjList'),
           NEW p \in Addr, NEW f \in Fd, PeerObjList[f] = p, p # None, obj[p].live,
           PeerGone(p, f), PeerRemoved(p, f)
    PROVE  MapsAgree' /\ CallbacksAlternate'
<1>1. /\ \A x \in Addr : obj'[x].type = obj[x].type
      /\ \A g \in Fd : PeerObjList'[g] = IF g = f THEN None ELSE PeerObjList[g]
      /\ \A g \in Fd : told'[g] = IF g = f THEN told[g] - 1 ELSE told[g]
  BY DEF PeerRemoved
<1>2. PeerObjList \in [Fd -> Addr \cup {None}]
  BY DEF AnyInv, TypeOK
<1>3. Peers' = Peers \ {f} /\ f \in Peers
  BY <1>1 DEF Peers
<1>4. \A g \in Peers : PeerObjList[g] \in Addr /\ (g # f => PeerObjList'[g] = PeerObjList[g])
  BY <1>1, <1>2 DEF Peers
<1>5. \A g \in Peers : obj'[PeerObjList[g]].type = obj[PeerObjList[g]].type
  BY <1>1, <1>4
<1>6. {x \in Addr : obj'[x].live} = {PeerObjList'[g] : g \in Peers'}
  <2>1. /\ obj' \in Objs /\ PeerObjList' \in [Fd -> Addr \cup {None}]
        /\ PeersKnown(obj', bev')
    BY DEF AnyInv, TypeOK, Objs
  <2>2. LiveListed(obj', PeerObjList')
    BY <2>1, LiveIsListed
  <2>3. QED
    BY <2>2 DEF LiveListed, Peers
<1>7. obj[p].type \in {"server", "client"}
  BY DEF AnyInv, PeersKnown
<1>8. /\ PeerVfd2ServerObj = {g \in Peers : obj[PeerObjList[g]].type = "server"}
      /\ PeerVfd2ClientObj = {g \in Peers : obj[PeerObjList[g]].type = "client"}
      /\ ClientObjList = PeerVfd2ClientObj
  BY DEF MapsAgree
<1>9. /\ PeerVfd2ServerObj' = PeerVfd2ServerObj \ {f}
      /\ PeerVfd2ClientObj' = PeerVfd2ClientObj \ {f}
      /\ ClientObjList' = PeerVfd2ClientObj'
  BY <1>7, <1>8 DEF PeerGone
<1>10. /\ PeerVfd2ServerObj' = {g \in Peers' : obj'[PeerObjList'[g]].type = "server"}
       /\ PeerVfd2ClientObj' = {g \in Peers' : obj'[PeerObjList'[g]].type = "client"}
  BY <1>3, <1>4, <1>5, <1>8, <1>9, SMTT(30)
<1>11. MapsAgree'
  BY <1>6, <1>9, <1>10 DEF MapsAgree
<1>12. CallbacksAlternate'
  BY <1>1, <1>3, SMTT(30) DEF CallbacksAlternate
<1>13. QED
  BY <1>11, <1>12

(* OnError for a connection that is open keeps everything in step; only    *)
(* the write event queued behind the read event may be left over.          *)
LEMMA OnErrorOwn ==
    ASSUME OwnInv, NEW c \in Conn, Current(file, bev, c), bev[c].arg \in Addr, NEW b,
           BaseKnown(b, bev), MaskOK(b, file), AllCurrent(b.active, file, bev),
           Paired(b.active),
           \A i \in 1..Len(b.active) :
              b.active[i][1] = c => i = 1 /\ b.active[i][2] = "write",
           OnError(c, b), net' \in Nets,
           \A d \in Conn : net'[d].st \in {"none", "backlog"} => net[d].st \in {"none", "backlog"},
           proc = "run", UNCHANGED <<proc, bev, misrouted>>, ~foreign'
    PROVE  OwnInv'
<1> DEFINE p == bev[c].arg
           g == obj[p].vfd
<1>1. AnyInv /\ AnyInv'
  <2>1. Known(bev, c)
    BY ManagerAssumption DEF Known, Current
  <2>2. QED
    BY <2>1, OnErrorAny DEF OwnInv
<1>2. b \in Bases /\ b.active \in ActiveQueues
  BY DEF BaseKnown, Bases, ActiveQueues
<1>3. CASE obj[p].status = 0
  <2>1. base' = b /\ UNCHANGED <<file, obj, maps, told, foreign>>
    BY <1>3 DEF OnError
  <2>2. QueueOK(b.active, file, bev, obj) /\ SameTargets(bev', bev)
    BY CurrentQueueOK DEF SameTargets
  <2>3. QED
    BY <1>1, <2>1, <2>2, OwnUntouched
<1>4. CASE obj[p].status # 0
  <2>1. /\ g \in Fd /\ p \in Addr /\ PeerObjList[g] = p /\ p # None
        /\ obj[p].live /\ obj[p].vfd = g
    BY <1>4, LivePeer
  <2>2. PeerGone(p, g) /\ ClosesAtMost(c, b)
    BY <1>2, <1>4, OnErrorCloses
  <2>3. PeerRemoved(p, g)
    <3> HIDE DEF p, g
    <3>1. QED
      BY <1>1, <2>1, <2>2, GoneIsRemoved
  <2>4. QueueOK(b.active, file', bev', obj')
    BY <1>2, <2>2, <2>3, RemovedQueue
  <2> HIDE DEF g
  <2>5. MaskOK(base', file') /\ base'.active = b.active
    BY <2>2 DEF ClosesAtMost, MaskOK
  <2>6. Linked(file', bev', obj', PeerObjList')
    BY <1>1, <2>1, <2>2, <2>3, RemovedLinked DEF OwnInv
  <2>7. MapsAgree' /\ CallbacksAlternate'
    BY <1>1, <2>1, <2>2, <2>3, <2>6, RemovedMaps DEF OwnInv
  <2>8. Fresh(net', bev') /\ ~misrouted' /\ proc' = "run"
    BY DEF OwnInv, Fresh
  <2>9. QED
    BY <1>1, <2>4, <2>5, <2>6, <2>7, <2>8 DEF OwnInv
<1>5. QED
  BY <1>3, <1>4

\* What is left once event <<c, k>> has been taken from the head of the queue.
Rest(b, c, k) ==
    /\ BaseKnown(b, bev) /\ MaskOK(b, file)
    /\ AllCurrent(b.active, file, bev) /\ Paired(b.active)
    /\ \A i \in 1..Len(b.active) :
          b.active[i][1] = c => i = 1 /\ k = "read" /\ b.active[i][2] = "write"

(* When an active event is run, either its connection is open, or it is    *)
(* the write event behind the read event that closed it. What is left in   *)
(* the queue belongs to open connections, and at most the write event of   *)
(* the same connection comes next.                                         *)
LEMMA HeadTaken ==
    ASSUME OwnInv, base.active # <<>>, NEW c \in Conn, NEW k \in Kinds,
           Head(base.active) = <<c, k>>
    PROVE  /\ bev[c].fd \in Fd /\ bev[c].arg \in Addr /\ Known(bev, c)
           /\ Rest(EventDel(base, c, k, bev[c].fd), c, k)
           /\ Current(file, bev, c) \/ (k = "write" /\ JustClosed(file, bev, obj, c))
<1> DEFINE A == base.active
           f == bev[c].fd
           b == EventDel(base, c, k, f)
<1>1. /\ A \in Seq(Events \cup {ListenEvent}) /\ base \in Bases /\ bev \in Bevs
      /\ AnyInv /\ BaseKnown(base, bev)
  BY DEF OwnInv, AnyInv, BaseKnown, Bases, TypeOK, Bevs
<1>2. Len(A) \in Nat /\ Len(A) > 0 /\ A[1] = <<c, k>>
  BY <1>1, SeqEmpty, SMTT(30)
<1>3. <<c, k>> # ListenEvent
  BY DEF Conn, ListenEvent
<1>4. 1 \in 1..Len(A) /\ A[1][1] = c /\ A[1][2] = k
  BY <1>2, SMTT(30)
<1>5. Current(file, bev, c) \/ (k = "write" /\ JustClosed(file, bev, obj, c))
  BY <1>2, <1>3, <1>4 DEF OwnInv, QueueOK
<1>6. f \in Fd /\ bev[c].arg \in Addr /\ Known(bev, c)
  <2>1. <<c, k>> \in KnownEvents(bev)
    <3>1. A \in Seq(KnownEvents(bev)) /\ A # <<>>
      BY <1>1 DEF BaseKnown
    <3> HIDE DEF A
    <3>2. Head(A) \in KnownEvents(bev)
      BY <3>1, HeadAndTail
    <3>3. QED
      BY <3>2 DEF A
  <2>2. Known(bev, c)
    BY <1>3, <2>1 DEF KnownEvents
  <2>3. QED
    BY <1>1, <2>2 DEF Known, Bevs
<1> HIDE DEF f
<1>7. BaseKnown(b, bev) /\ MaskOK(b, file)
  BY <1>1, <1>6, EventDelKnown, EventDelMask DEF OwnInv
<1>8. b.active = Tail(A)
  BY <1>1, <1>6, EventDelHead DEF OwnInv
<1>9. AllCurrent(b.active, file, bev) /\ Paired(b.active)
  <2> HIDE DEF A, b
  <2>1. A # <<>> /\ QueueOK(A, file, bev, obj) /\ Paired(A)
    BY DEF OwnInv, A
  <2>2. QED
    BY <1>1, <1>8, <2>1, TailCurrent, PairedTail
<1>10. ASSUME NEW i \in 1..Len(b.active), b.active[i][1] = c
       PROVE  i = 1 /\ k = "read" /\ b.active[i][2] = "write"
  <2>1. Len(Tail(A)) = Len(A) - 1 /\ \A j \in 1..Len(Tail(A)) : Tail(A)[j] = A[j + 1]
    BY <1>1, HeadAndTail
  <2> HIDE DEF b
  <2>2. i + 1 \in 1..Len(A) /\ 1 < i + 1 /\ A[i + 1] = b.active[i]
    BY <1>2, <1>8, <2>1, SMTT(30)
  <2>3. i + 1 = 1 + 1 /\ A[1][2] = "read" /\ A[i + 1][2] = "write"
    BY <1>4, <1>10, <2>2 DEF OwnInv, Paired
  <2>4. QED
    BY <1>4, <2>2, <2>3, SMTT(30)
<1>11. QED
  BY <1>5, <1>6, <1>7, <1>9, <1>10 DEF Rest, f

\* The event is added again, or another one's: the queue stays.
LEMMA AddedToRest ==
    ASSUME OwnInv, NEW b, BaseKnown(b, bev), MaskOK(b, file), NEW d \in Conn,
           NEW g \in Fd, file[g] = d, NEW j \in Kinds, NEW open \in BOOLEAN
    PROVE  MaskKept(EventAdd(b, d, j, g, open), b, file)
  BY EventAddMask DEF BaseKnown

(* bufferevent_readcb keeps OwnInv: data goes to its owner, and an end of *)
(* file or an error closes the connection once.                            *)
LEMMA ReadCbOwn ==
    ASSUME OwnInv, proc = "run", base.active # <<>>, NEW c \in Conn,
           Head(base.active) = <<c, "read">>, ReadCb(c), ~foreign'
    PROVE  OwnInv'
<1> DEFINE f == bev[c].fd
           p == bev[c].arg
           b == EventDel(base, c, "read", f)
           again == EventAdd(b, c, "read", f, f \in OpenFds)
<1>1. "read" \in Kinds /\ "write" \in Kinds
  BY DEF Kinds
<1>2. /\ f \in Fd /\ p \in Addr /\ Known(bev, c)
      /\ Rest(b, c, "read") /\ Current(file, bev, c)
  BY <1>1, HeadTaken
<1>3. file[f] = c
  BY <1>2 DEF Current
<1>4. MaskKept(again, b, file)
  <2>1. (f \in OpenFds) \in BOOLEAN
    BY SMTT(30)
  <2> HIDE DEF f, b
  <2>2. BaseKnown(b, bev) /\ MaskOK(b, file)
    BY <1>2 DEF Rest
  <2>3. QED
    BY <1>1, <1>2, <1>3, <2>1, <2>2, AddedToRest
<1>5. AnyInv'
  <2>1. AnyInv
    BY DEF OwnInv
  <2>2. QED
    BY <1>2, <2>1, ReadCbAny
<1>6. QueueOK(b.active, file, bev, obj) /\ Paired(b.active)
  BY <1>2, CurrentQueueOK DEF Rest
<1>7. net \in Nets
  BY DEF OwnInv, AnyInv, TypeOK, Nets
<1>8. CASE net[c].unread
  <2>1. /\ net' = [net EXCEPT ![c].unread = FALSE]
        /\ OnRead(p, c, again)
        /\ UNCHANGED <<file, obj, maps, told, foreign>>
    BY <1>3, <1>8 DEF ReadCb
  <2> HIDE DEF again, f, p, b
  <2>2. \A d \in Conn : net'[d].st \in {"none", "backlog"} => net[d].st \in {"none", "backlog"}
    BY <1>7, <2>1, SMTT(30) DEF Nets
  <2>3. proc' \notin {"start", "wait"}
    BY <2>1 DEF OnRead
  <2>4. ~misrouted' /\ \/ base' = again /\ UNCHANGED bev
                       \/ \E g \in Fd :
                             LET w == PeerVfdOnWrite(again, obj, bev, OpenFds, PeerObjList, g)
                             IN  base' = w.base /\ bev' = w.bev
    <3>1. CASE obj[p].status = 0
      BY <2>1, <3>1 DEF OnRead, OwnInv
    <3>2. CASE obj[p].status # 0
      <4> DEFINE v == obj[p].vfd
      <4>1. /\ v \in Fd /\ PeerObjList[v] = p /\ p # None /\ InMapOfType(p, v)
            /\ VfdOf(p, obj) = {v}
        BY <1>2, <3>2, LivePeer
      <4>2. file[v] # c => \A g \in Peers : file[g] # c
        <5> SUFFICES ASSUME NEW g \in Peers, file[g] = c PROVE file[v] = c
          OBVIOUS
        <5>1. g \in Fd /\ PeerObjList[g] # None
          BY DEF Peers
        <5>2. /\ bev[file[g]].arg = PeerObjList[g]
              /\ obj[PeerObjList[g]].vfd = g
          BY <5>1 DEF OwnInv, Linked
        <5>3. QED
          BY <5>2 DEF p
      <4> HIDE DEF v
      <4>3. PeerVfdOnRead(v, c, again)
        BY <2>1, <3>2, <4>1 DEF OnRead
      <4>4. QED
        BY <4>1, <4>2, <4>3 DEF PeerVfdOnRead, OwnInv
    <3>3. QED
      BY <3>1, <3>2
  <2>5. misrouted' = misrouted
    <3>1. misrouted \in BOOLEAN /\ misrouted' \in BOOLEAN /\ ~misrouted
      BY <1>5 DEF OwnInv, AnyInv, TypeOK
    <3>2. QED
      BY <2>4, <3>1
  <2>6. CASE base' = again /\ UNCHANGED bev
    <3>1. MaskOK(base', file) /\ base'.active = b.active /\ SameTargets(bev', bev)
      BY <1>4, <2>6 DEF MaskKept, SameTargets
    <3>2. QED
      BY <1>5, <1>6, <2>1, <2>2, <2>3, <2>5, <3>1, OwnUntouched
  <2>7. CASE \E g \in Fd : LET w == PeerVfdOnWrite(again, obj, bev, OpenFds, PeerObjList, g)
                           IN  base' = w.base /\ bev' = w.bev
    <3>1. PICK g \in Fd : LET w == PeerVfdOnWrite(again, obj, bev, OpenFds, PeerObjList, g)
                          IN  base' = w.base /\ bev' = w.bev
      BY <2>7
    <3>2. CASE PeerObjList[g] = None
      <4>1. base' = again /\ bev' = bev
        BY <3>1, <3>2 DEF PeerVfdOnWrite
      <4>2. QED
        BY <2>6, <4>1
    <3>3. CASE PeerObjList[g] # None
      <4> DEFINE q == PeerObjList[g]
                 w == Written(again, obj, bev, OpenFds, q)
      <4>1. base' = w.base /\ bev' = w.bev
        BY <3>1, <3>3 DEF PeerVfdOnWrite
      <4>2. /\ q \in Addr /\ obj[q].live /\ obj[q].buff = file[g] /\ file[g] \in Conn
            /\ bev[file[g]].fd = g
        BY <3>3, SMTT(30) DEF OwnInv, Linked, AnyInv, TypeOK
      <4>3. obj \in Objs /\ bev \in Bevs /\ PeersKnown(obj, bev) /\ AnyInv
        BY DEF OwnInv, AnyInv, TypeOK, Objs, Bevs
      <4>4. BaseKnown(again, bev)
        <5>1. (f \in OpenFds) \in BOOLEAN /\ BaseKnown(b, bev) /\ Known(bev, c)
          BY <1>2, SMTT(30) DEF Rest
        <5>2. QED
          BY <1>1, <1>2, <4>3, <5>1, EventAddKnown DEF again
      <4> HIDE DEF w
      <4>5. Wrote(w, again, bev, file[g], g, OpenFds)
        <5>1. Wrote(w, again, bev, obj[q].buff, bev[obj[q].buff].fd, OpenFds)
          BY <4>2, <4>3, <4>4, WrittenFacts DEF w
        <5>2. QED
          BY <4>2, <5>1
      <4>6. SameTargets(bev', bev)
        BY <4>1, <4>5 DEF Wrote
      <4>7. base' = again \/ base' = EventAdd(again, file[g], "write", g, g \in OpenFds)
        BY <4>1, <4>5 DEF Wrote
      <4>8. MaskKept(EventAdd(again, file[g], "write", g, g \in OpenFds), again, file)
        <5>1. (g \in OpenFds) \in BOOLEAN /\ MaskOK(again, file)
          BY <1>4, SMTT(30) DEF MaskKept
        <5>2. QED
          BY <1>1, <4>2, <4>4, <5>1, AddedToRest
      <4>9. MaskOK(base', file) /\ base'.active = b.active
        BY <1>4, <4>7, <4>8 DEF MaskKept
      <4>10. QED
        BY <1>5, <1>6, <2>1, <2>2, <2>3, <2>5, <4>6, <4>9, OwnUntouched
    <3>4. QED
      BY <3>2, <3>3
  <2>8. QED
    BY <2>4, <2>6, <2>7
<1>9. CASE ~net[c].unread /\ net[c].st = "open"
  <2>1. base' = again /\ UNCHANGED <<file, net, proc, bev, obj, maps, told, misrouted, foreign>>
    BY <1>3, <1>9 DEF ReadCb
  <2> HIDE DEF again, b
  <2>2. MaskOK(base', file) /\ base'.active = b.active /\ SameTargets(bev', bev)
    BY <1>4, <2>1 DEF MaskKept, SameTargets
  <2>3. QED
    BY <1>5, <1>6, <2>1, <2>2, OwnUntouched
<1>10. CASE ~net[c].unread /\ net[c].st # "open"
  <2>1. /\ net' = IF net[c].st = "reset" THEN [net EXCEPT ![c].st = "dead"] ELSE net
        /\ OnError(c, b)
        /\ UNCHANGED <<proc, bev, misrouted>>
    BY <1>3, <1>10 DEF ReadCb
  <2> HIDE DEF b
  <2>2. \A d \in Conn : net'[d].st \in {"none", "backlog"} => net[d].st \in {"none", "backlog"}
    BY <1>7, <2>1 DEF Nets
  <2>3. net' \in Nets
    BY <1>7, <2>1 DEF Nets
  <2>4. /\ BaseKnown(b, bev) /\ MaskOK(b, file) /\ AllCurrent(b.active, file, bev)
        /\ Paired(b.active)
        /\ \A i \in 1..Len(b.active) : b.active[i][1] = c => i = 1 /\ b.active[i][2] = "write"
    BY <1>2 DEF Rest
  <2>5. QED
    BY <1>2, <2>1, <2>2, <2>3, <2>4, OnErrorOwn
<1>11. QED
  BY <1>8, <1>9, <1>10

(* bufferevent_writecb keeps OwnInv. Run for a connection that was just   *)
(* closed it finds _Status 0 and does nothing (OnError).                   *)
LEMMA WriteCbOwn ==
    ASSUME OwnInv, proc = "run", base.active # <<>>, NEW c \in Conn,
           Head(base.active) = <<c, "write">>, WriteCb(c), ~foreign'
    PROVE  OwnInv'
<1> DEFINE f == bev[c].fd
           p == bev[c].arg
           b == EventDel(base, c, "write", f)
           again == EventAdd(b, c, "write", f, f \in OpenFds)
<1>1. "write" \in Kinds
  BY DEF Kinds
<1>2. /\ f \in Fd /\ p \in Addr /\ Known(bev, c) /\ Rest(b, c, "write")
      /\ Current(file, bev, c) \/ JustClosed(file, bev, obj, c)
  BY <1>1, HeadTaken
<1>3. AnyInv'
  <2>1. AnyInv
    BY DEF OwnInv
  <2>2. QED
    BY <1>2, <2>1, WriteCbAny
<1>4. QueueOK(b.active, file, bev, obj) /\ Paired(b.active)
  BY <1>2, CurrentQueueOK DEF Rest
<1>5. /\ net \in Nets /\ bev \in Bevs /\ SameTargets(bev, bev)
      /\ BaseKnown(b, bev) /\ MaskOK(b, file)
  BY <1>2 DEF OwnInv, AnyInv, TypeOK, Nets, Bevs, SameTargets, Rest
<1>6. CASE ~bev[c].out
  <2>1. base' = b /\ UNCHANGED <<file, net, proc, bev, obj, maps, told, misrouted, foreign>>
    BY <1>6 DEF WriteCb
  <2> HIDE DEF b
  <2>2. QED
    BY <1>3, <1>4, <1>5, <2>1, OwnUntouched
<1>7. CASE bev[c].out /\ JustClosed(file, bev, obj, c)
  <2>1. file[f] = Free /\ Free \notin Conn /\ p \in Addr /\ ~obj[p].live
    BY <1>7, ManagerAssumption DEF JustClosed
  <2>2. net' = net /\ OnError(c, b) /\ UNCHANGED <<proc, bev, misrouted>>
    BY <1>7, <2>1 DEF WriteCb
  <2> HIDE DEF b
  <2>3. obj[p].status = 0
    BY <2>1 DEF OwnInv, Linked
  <2>4. base' = b /\ UNCHANGED <<file, obj, maps, told, foreign>>
    BY <2>2, <2>3 DEF OnError
  <2>5. QED
    BY <1>3, <1>4, <1>5, <2>2, <2>4, OwnUntouched
<1>8. CASE bev[c].out /\ Current(file, bev, c)
  <2>1. file[f] = c
    BY <1>8 DEF Current
  <2>2. CASE net[c].st = "dead"
    <3>1. Ends("sigpipe", b)
      BY <1>8, <2>1, <2>2 DEF WriteCb
    <3> HIDE DEF b
    <3>2. /\ base' = b /\ proc' = "sigpipe"
          /\ UNCHANGED <<file, net, bev, obj, maps, told, misrouted, foreign>>
      BY <3>1 DEF Ends
    <3>3. QED
      BY <1>3, <1>4, <1>5, <3>2, OwnUntouched
  <2>3. CASE net[c].st \in {"open", "eof"}
    <3>1. /\ \/ base' = b /\ bev' = [bev EXCEPT ![c].out = FALSE] /\ net' = net
             \/ base' = again /\ bev' = bev /\ net' = [net EXCEPT ![c].room = FALSE]
          /\ UNCHANGED <<file, proc, obj, maps, told, misrouted, foreign>>
      BY <1>8, <2>1, <2>3 DEF WriteCb
    <3>2. MaskKept(again, b, file)
      <4>1. (f \in OpenFds) \in BOOLEAN
        BY SMTT(30)
      <4> HIDE DEF f, b
      <4>2. QED
        BY <1>1, <1>2, <1>5, <2>1, <4>1, AddedToRest
    <3> HIDE DEF b, again
    <3>3. MaskOK(base', file) /\ base'.active = b.active
      BY <1>5, <3>1, <3>2 DEF MaskKept
    <3>4. SameTargets(bev', bev)
      BY <1>5, <3>1, SMTT(30) DEF SameTargets, Bevs
    <3>5. \A d \in Conn : net'[d].st \in {"none", "backlog"} => net[d].st \in {"none", "backlog"}
      BY <1>5, <3>1, SMTT(30) DEF Nets
    <3>6. QED
      BY <1>3, <1>4, <3>1, <3>3, <3>4, <3>5, OwnUntouched
  <2>4. CASE net[c].st \notin {"dead", "open", "eof"}
    <3>1. /\ net' = [net EXCEPT ![c].st = "dead"]
          /\ OnError(c, b)
          /\ UNCHANGED <<proc, bev, misrouted>>
      BY <1>8, <2>1, <2>4 DEF WriteCb
    <3> HIDE DEF b
    <3>2. \A d \in Conn : net'[d].st \in {"none", "backlog"} => net[d].st \in {"none", "backlog"}
      BY <1>5, <3>1 DEF Nets
    <3>3. net' \in Nets
      BY <1>5, <3>1 DEF Nets
    <3>4. /\ BaseKnown(b, bev) /\ MaskOK(b, file) /\ AllCurrent(b.active, file, bev)
          /\ Paired(b.active)
          /\ \A i \in 1..Len(b.active) : b.active[i][1] = c => i = 1 /\ b.active[i][2] = "write"
      BY <1>2 DEF Rest
    <3>5. QED
      BY <1>2, <1>8, <3>1, <3>2, <3>3, <3>4, OnErrorOwn
  <2>5. QED
    BY <2>2, <2>3, <2>4
<1>9. QED
  BY <1>2, <1>6, <1>7, <1>8

(* Running the first active event keeps OwnInv (event_process_active).    *)
LEMMA ProcessOwn ==
    ASSUME OwnInv, Process, ~foreign'
    PROVE  OwnInv'
<1> DEFINE A == base.active
           e == Head(A)
           b == [base EXCEPT !.active = Tail(@)]
<1>1. /\ proc = "run" /\ A # <<>> /\ A \in Seq(Events \cup {ListenEvent})
      /\ A \in Seq(KnownEvents(bev)) /\ base \in Bases /\ AnyInv
  BY DEF Process, OwnInv, AnyInv, BaseKnown, Bases
<1>2. e \in Events \cup {ListenEvent}
  BY <1>1, HeadAndTail
<1>3. CASE e = ListenEvent
  <2>1. NewConnect
    BY <1>3 DEF Process
  <2>2. /\ Tail(A) \in Seq(Events \cup {ListenEvent}) /\ Tail(A) \in Seq(KnownEvents(bev))
        /\ AllCurrent(Tail(A), file, bev) /\ Paired(Tail(A))
    <3> HIDE DEF A
    <3>1. QueueOK(A, file, bev, obj) /\ Paired(A)
      BY DEF OwnInv, A
    <3>2. QED
      BY <1>1, <3>1, TailCurrent, PairedTail, HeadAndTail
  <2>3. b \in Bases /\ b.active = Tail(A) /\ b.slot = base.slot /\ b.mask = base.mask
    BY <1>1, <2>2 DEF Bases
  <2>4. /\ \/ \E c \in Conn, f \in Fd : /\ net[c].st = "backlog" /\ Lowest(f)
                                        /\ NewPeer(c, f, "server", b)
                                        /\ UNCHANGED <<proc, misrouted, foreign>>
           \/ Ends("threw_accept", b)
    BY <2>1 DEF NewConnect
  <2> HIDE DEF b
  <2>5. BaseKnown(b, bev) /\ MaskOK(b, file)
    BY <2>2, <2>3 DEF OwnInv, AnyInv, BaseKnown, MaskOK
  <2>6. CASE \E c \in Conn, f \in Fd : /\ net[c].st = "backlog" /\ Lowest(f)
                                       /\ NewPeer(c, f, "server", b)
                                       /\ UNCHANGED <<proc, misrouted, foreign>>
    <3>1. PICK c \in Conn, f \in Fd : /\ net[c].st = "backlog" /\ Lowest(f)
                                      /\ NewPeer(c, f, "server", b)
                                      /\ UNCHANGED <<proc, misrouted, foreign>>
      BY <2>6
    <3>2. file[f] = Free /\ bev[c].fd = None
      BY <3>1 DEF Lowest, OpenFds, OwnInv, Fresh
    <3>3. QED
      BY <1>1, <2>2, <2>3, <2>5, <3>1, <3>2, NewPeerOwn
  <2>7. CASE Ends("threw_accept", b)
    <3>1. /\ base' = b /\ proc' = "threw_accept"
          /\ UNCHANGED <<file, net, bev, obj, maps, told, misrouted, foreign>>
      BY <2>7 DEF Ends
    <3>2. AnyInv'
      BY <1>1, ProcessAny
    <3>3. QueueOK(b.active, file, bev, obj)
      BY <2>2, <2>3, CurrentQueueOK
    <3>4. SameTargets(bev', bev)
      BY <3>1 DEF SameTargets
    <3>5. QED
      BY <2>2, <2>3, <2>5, <3>1, <3>2, <3>3, <3>4, OwnUntouched
  <2>8. QED
    BY <2>4, <2>6, <2>7
<1>4. CASE e # ListenEvent
  <2>1. e \in Events /\ e[1] \in Conn /\ e = <<e[1], e[2]>>
    BY <1>2, <1>4, SMTT(30) DEF Events, Conn
  <2>2. (e[2] = "read" /\ ReadCb(e[1])) \/ (e[2] = "write" /\ WriteCb(e[1]))
    BY <1>4 DEF Process
  <2>3. QED
    BY <1>1, <2>1, <2>2, ReadCbOwn, WriteCbOwn
<1>5. QED
  BY <1>3, <1>4

(* Connecting to a server keeps OwnInv, whether or not the connection is  *)
(* made (CreateClientSocket).                                              *)
LEMMA CreateClientSocketOwn ==
    ASSUME OwnInv, NEW c \in Conn, CreateClientSocket(c)
    PROVE  OwnInv'
<1>1. proc = "wait" /\ net[c].st = "none" /\ base.active = <<>> /\ AnyInv
  BY DEF CreateClientSocket, OwnInv
<1>2. PICK f \in Fd :
        /\ Lowest(f)
        /\ \/ NewPeer(c, f, "client", base) /\ UNCHANGED <<proc, misrouted, foreign>>
           \/ /\ net' = [net EXCEPT ![c].st = "gone"]
              /\ file' \in {[file EXCEPT ![f] = Unconnected], file}
              /\ UNCHANGED <<proc, base, bev, obj, maps, told, misrouted, foreign>>
  BY DEF CreateClientSocket
<1>3. file[f] = Free /\ bev[c].fd = None
  BY <1>1, <1>2 DEF Lowest, OpenFds, OwnInv, Fresh
<1>4. AllCurrent(base.active, file, bev) /\ Paired(base.active)
  BY <1>1, SMTT(30) DEF AllCurrent, Paired
<1>5. CASE NewPeer(c, f, "client", base) /\ UNCHANGED <<proc, misrouted, foreign>>
  <2>1. BaseKnown(base, bev) /\ MaskOK(base, file)
    BY DEF OwnInv, AnyInv
  <2>2. QED
    BY <1>1, <1>3, <1>4, <1>5, <2>1, NewPeerOwn
<1>6. CASE /\ net' = [net EXCEPT ![c].st = "gone"]
           /\ file' \in {[file EXCEPT ![f] = Unconnected], file}
           /\ UNCHANGED <<proc, base, bev, obj, maps, told, misrouted, foreign>>
  <2>1. AnyInv'
    BY <1>1, CreateClientSocketAny
  <2>2. file \in Files /\ net \in Nets
    BY <1>1 DEF AnyInv, TypeOK, Files, Nets
  <2>3. \A g \in Fd : file'[g] = file[g] \/ (file[g] = Free /\ file'[g] = Unconnected)
    BY <1>3, <1>6, <2>2 DEF Files
  <2>4. Free \notin Conn /\ Unconnected \notin Conn
    BY ManagerAssumption
  <2>5. Linked(file', bev', obj', PeerObjList')
    <3>1. \A g \in Fd : file'[g] \in Conn => file'[g] = file[g]
      BY <2>3, <2>4
    <3>2. \A g \in Fd : file[g] \in Conn => file'[g] = file[g]
      BY <2>3, <2>4
    <3>3. QED
      BY <1>6, <3>1, <3>2, SMTT(30) DEF OwnInv, Linked, maps
  <2>6. MaskOK(base', file')
    <3>1. \A g \in Fd : file[g] \in Conn => file'[g] = file[g]
      BY <2>3, <2>4
    <3>2. QED
      BY <1>6, <3>1 DEF OwnInv, MaskOK
  <2>7. QueueOK(base'.active, file', bev', obj') /\ Paired(base'.active) /\ base'.active = <<>>
    BY <1>1, <1>6, SMTT(30) DEF QueueOK, Paired
  <2>8. Fresh(net', bev')
    BY <1>6, <2>2 DEF OwnInv, Fresh, Nets
  <2>9. MapsAgree' /\ CallbacksAlternate' /\ ~misrouted' /\ ~foreign'
    <3>1. Peers' = Peers /\ ~misrouted' /\ ~foreign'
      BY <1>6 DEF OwnInv, Peers, maps
    <3>2. MapsAgree'
      BY <1>6, <3>1, SMTT(30) DEF OwnInv, MapsAgree, maps
    <3>3. CallbacksAlternate'
      BY <1>6, <3>1 DEF OwnInv, CallbacksAlternate, maps
    <3>4. QED
      BY <3>1, <3>2, <3>3
  <2>10. QED
    BY <2>1, <2>5, <2>6, <2>7, <2>8, <2>9 DEF OwnInv
<1>7. QED
  BY <1>2, <1>5, <1>6

(* What the other side and the application do keeps OwnInv.               *)
LEMMA ElsewhereOwn ==
    ASSUME OwnInv, Elsewhere
    PROVE  OwnInv'
<1>1. UNCHANGED <<file, base, bev, obj, maps, told, misrouted, foreign>>
  BY DEF Elsewhere, CreateServerSocket, LoopAgain, RemoteConnects, RemoteCloses, RemoteResets,
         RemoteSends, RemoteReads, processVars
<1>2. AnyInv'
  BY ElsewhereAny DEF OwnInv
<1>3. proc' \in {"start", "wait"} => base.active = <<>>
  BY DEF Elsewhere, CreateServerSocket, LoopAgain, RemoteConnects, RemoteCloses, RemoteResets,
         RemoteSends, RemoteReads, processVars, OwnInv
<1>4. ASSUME NEW d \in Conn, net'[d].st \in {"none", "backlog"}
      PROVE  net[d].st \in {"none", "backlog"}
  <2>1. net \in Nets
    BY DEF OwnInv, AnyInv, TypeOK, Nets
  <2>2. CASE net' = net
    BY <1>4, <2>2
  <2>3. CASE net' # net
    <3>1. PICK c \in Conn : \/ net[c].st = "none" /\ net' = [net EXCEPT ![c].st = "backlog"]
                            \/ net' = [net EXCEPT ![c].st = "eof"]
                            \/ net' = [net EXCEPT ![c].st = "reset"]
                            \/ net' = [net EXCEPT ![c].unread = TRUE]
                            \/ net' = [net EXCEPT ![c].room = TRUE]
      BY <2>3 DEF Elsewhere, CreateServerSocket, LoopAgain, RemoteConnects, RemoteCloses,
                  RemoteResets, RemoteSends, RemoteReads
    <3>2. CASE net[c].st = "none" /\ net' = [net EXCEPT ![c].st = "backlog"]
      BY <1>4, <2>1, <3>2 DEF Nets
    <3>3. CASE net' = [net EXCEPT ![c].st = "eof"] \/ net' = [net EXCEPT ![c].st = "reset"]
      BY <1>4, <2>1, <3>3, SMTT(30) DEF Nets
    <3>4. CASE net' = [net EXCEPT ![c].unread = TRUE] \/ net' = [net EXCEPT ![c].room = TRUE]
      BY <1>4, <2>1, <3>4, SMTT(30) DEF Nets
    <3>5. QED
      BY <3>1, <3>2, <3>3, <3>4
  <2>4. QED
    BY <2>2, <2>3
<1>5. /\ QueueOK(base'.active, file, bev, obj) /\ Paired(base'.active) /\ MaskOK(base', file)
      /\ SameTargets(bev', bev)
  BY <1>1 DEF OwnInv, SameTargets
<1>6. QED
  BY <1>1, <1>2, <1>3, <1>4, <1>5, OwnUntouched

(* OwnInv holds when the process starts.                                  *)
LEMMA InitOwn == Init => OwnInv
<1> SUFFICES ASSUME Init PROVE OwnInv
  OBVIOUS
<1>1. AnyInv
  BY InitAny
<1>2. /\ base.active = <<>> /\ \A f \in Fd : base.mask[f] = {}
      /\ \A f \in Fd : PeerObjList[f] = None /\ told[f] = 0
      /\ \A c \in Conn : bev[c].fd = None
      /\ \A a \in Addr : obj[a].live = FALSE /\ obj[a].status = 0
      /\ PeerVfd2ServerObj = {} /\ PeerVfd2ClientObj = {} /\ ClientObjList = {}
      /\ proc = "start" /\ ~misrouted /\ ~foreign
  BY DEF Init, NewBase
<1>3. \A f \in Fd : file[f] \notin Conn
  BY ManagerAssumption DEF Init
<1>4. Linked(file, bev, obj, PeerObjList)
  BY <1>2, <1>3 DEF Linked
<1>5. QueueOK(base.active, file, bev, obj) /\ Paired(base.active)
  BY <1>2, SMTT(30) DEF QueueOK, Paired
<1>6. MaskOK(base, file) /\ Fresh(net, bev)
  BY <1>2 DEF MaskOK, Fresh
<1>7. Peers = {}
  BY <1>2 DEF Peers
<1>8. MapsAgree /\ CallbacksAlternate
  BY <1>2, <1>7 DEF MapsAgree, CallbacksAlternate
<1>9. QED
  BY <1>1, <1>2, <1>4, <1>5, <1>6, <1>8 DEF OwnInv
=============================================================================
