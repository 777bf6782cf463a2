--------------------------- MODULE SocketManager ---------------------------
(***************************************************************************)
(* A process built on the socket layer (socket/): the maps of the          *)
(* SocketManager, the clsPeerPoint objects, their bufferevents, the table  *)
(* of open descriptors and the event loop that runs their callbacks.       *)
(*                                                                         *)
(* A connection has one peer object and one bufferevent, so bufferevents   *)
(* are named by their connection.  Peer objects live at addresses that are *)
(* used again once freed; bufferevents are never freed.  Contents of       *)
(* messages do not matter here.                                            *)
(***************************************************************************)
EXTENDS Libevent, FiniteSets

CONSTANTS
    Addr,       \* addresses of peer objects
    Junk        \* an int that is no descriptor

Conn == Bev

\* What else a descriptor can be: standard input, a socket that never got a
\* connection, or free.  Descriptor 0 is standard input at first, unless the
\* process was started without one.
Std == "std"
Unconnected == "unconnected"
Free == "free"

ASSUME ManagerAssumption ==
    /\ Fd \subseteq Nat /\ IsFiniteSet(Fd) /\ None \notin Addr /\ Junk \notin Fd
    /\ Conn \cap {Std, Unconnected, Free} = {}

VARIABLES
    \* the kernel and the other side
    file,       \* what each descriptor is open on
    net,        \* the connections: [st, unread, room]
    \* the process
    proc,       \* "start", "wait" (in epoll_wait), "run" (active events) or how it ended
    base,       \* libevent's event base
    bev,        \* the bufferevents: [fd, arg, out], arg the peer object they call
    obj,        \* the peer objects: [live, vfd, type, status, buff]
    PeerObjList, PeerVfd2ServerObj, PeerVfd2ClientObj, ClientObjList,
    \* history
    told,       \* for each descriptor, calls of PacketOnConnect minus PacketOnError
    misrouted,  \* bytes of a listed peer's connection were passed on as another's
    foreign     \* OnError has closed a connection other than the one it was called for

maps == <<PeerObjList, PeerVfd2ServerObj, PeerVfd2ClientObj, ClientObjList>>
vars == <<file, net, proc, base, bev, obj, maps, told, misrouted, foreign>>

OpenFds == {f \in Fd : file[f] # Free}
Peers == {f \in Fd : PeerObjList[f] # None}

Init ==
    /\ file \in {[f \in Fd |-> IF f = 0 THEN input ELSE Free] : input \in {Std, Free}}
    /\ net = [c \in Conn |-> [st |-> "none", unread |-> FALSE, room |-> TRUE]]
    /\ proc = "start"
    /\ base = NewBase
    /\ bev = [c \in Conn |-> [fd |-> None, arg |-> None, out |-> FALSE]]
    /\ obj = [a \in Addr |-> [live |-> FALSE, vfd |-> None, type |-> None,
                              status |-> 0, buff |-> None]]
    /\ PeerObjList = [f \in Fd |-> None]
    /\ PeerVfd2ServerObj = {} /\ PeerVfd2ClientObj = {} /\ ClientObjList = {}
    /\ told = [f \in Fd |-> 0]
    /\ misrouted = FALSE /\ foreign = FALSE

-----------------------------------------------------------------------------
(* The other side of the connections.                                      *)

processVars == <<file, proc, base, bev, obj, maps, told, misrouted, foreign>>

\* What the remote side does matters while a descriptor is open on c.
Attached(c) == \E f \in Fd : file[f] = c

RemoteConnects(c) ==
    /\ proc \in {"wait", "run"} /\ net[c].st = "none"
    /\ net' = [net EXCEPT ![c].st = "backlog"]
    /\ UNCHANGED processVars

RemoteCloses(c) ==
    /\ Attached(c) /\ net[c].st = "open"
    /\ net' = [net EXCEPT ![c].st = "eof"]
    /\ UNCHANGED processVars

RemoteResets(c) ==
    /\ Attached(c) /\ net[c].st \in {"open", "eof"}
    /\ net' = [net EXCEPT ![c].st = "reset"]
    /\ UNCHANGED processVars

RemoteSends(c) ==
    /\ Attached(c) /\ net[c].st = "open"
    /\ net' = [net EXCEPT ![c].unread = TRUE]
    /\ UNCHANGED processVars

\* It reads, so that the send buffer of this side has room again.
RemoteReads(c) ==
    /\ Attached(c) /\ net[c].st \in {"open", "eof"}
    /\ net' = [net EXCEPT ![c].room = TRUE]
    /\ UNCHANGED processVars

-----------------------------------------------------------------------------
(* Making a peer: the constructor of clsPeerPoint, AddPeerObj, the Add     *)
(* calls for the maps of its type (whose results nobody looks at), and     *)
(* PeerVfdOnConnect, where the application writes its greeting.            *)

\* clsPeerPoint::WriteData of the object at a calls bufferevent_write; b is the
\* base so far, open the open descriptors.
Written(b, objs, bevs, open, a) ==
    LET c == objs[a].buff
        f == bevs[c].fd
    IN  IF objs[a].status = 0 THEN [base |-> b, bev |-> bevs]
        ELSE [base |-> EventAdd(b, c, "write", f, f \in open),
              bev |-> [bevs EXCEPT ![c].out = TRUE]]

\* PeerVfdOnWrite(f), for a descriptor given by the application.
PeerVfdOnWrite(b, objs, bevs, open, list, f) ==
    IF list[f] = None THEN [base |-> b, bev |-> bevs]
    ELSE Written(b, objs, bevs, open, list[f])

AddPeerObj(f, a) ==
    IF PeerObjList[f] # None THEN PeerObjList ELSE [PeerObjList EXCEPT ![f] = a]

\* Mutant: the peer is announced before it is in the map.
PeerVfdOnConnectEarly(list, f) ==
    told' = IF PeerObjList[f] = None THEN told ELSE [told EXCEPT ![f] = @ + 1]

\* PeerVfdOnConnect looks the peer up and calls PacketOnConnect; list is the
\* PeerObjList of the moment.
PeerVfdOnConnect(list, f) ==
    told' = IF list[f] = None THEN told ELSE [told EXCEPT ![f] = @ + 1]

\* Mutant: _Vfd is only set in memory that was never used.
PeerPointKeepingVfd(a, f, type, c) ==
    [live |-> TRUE, vfd |-> IF obj[a].vfd = None THEN f ELSE obj[a].vfd,
     type |-> type, status |-> 1, buff |-> c]

\* The members that the constructor sets in the object at a.
PeerPoint(a, f, type, c) ==
    [live |-> TRUE, vfd |-> f, type |-> type, status |-> 1, buff |-> c]

\* Connection c was given descriptor f; b is the base so far.
NewPeer(c, f, type, b) ==
    \E a \in {x \in Addr : ~obj[x].live} :
      LET objs == [obj EXCEPT ![a] = PeerPoint(a, f, type, c)]
          bevs == [bev EXCEPT ![c] = [fd |-> f, arg |-> a, out |-> FALSE]]
          list == AddPeerObj(f, a)
          w == PeerVfdOnWrite(EventAdd(b, c, "read", f, TRUE), objs, bevs,
                              OpenFds \cup {f}, list, f)
      IN  /\ obj' = objs
          /\ PeerObjList' = list
          /\ PeerVfd2ServerObj' =
                PeerVfd2ServerObj \cup (IF type = "server" THEN {f} ELSE {})
          /\ PeerVfd2ClientObj' =
                PeerVfd2ClientObj \cup (IF type = "client" THEN {f} ELSE {})
          /\ ClientObjList' = ClientObjList \cup (IF type = "client" THEN {f} ELSE {})
          /\ PeerVfdOnConnect(list, f)
          /\ base' = w.base /\ bev' = w.bev
          /\ file' = [file EXCEPT ![f] = c]
          /\ net' = [net EXCEPT ![c].st = "open"]

\* The descriptor the kernel gives to the next socket.
Lowest(f) == f \in Fd \ OpenFds /\ \A g \in Fd \ OpenFds : f <= g

Ends(how, b) ==
    /\ proc' = how /\ base' = b
    /\ UNCHANGED <<file, net, bev, obj, maps, told, misrouted, foreign>>

\* CreateServerSocket, from main.  If Start fails there is no event, and
\* event_dispatch returns.
CreateServerSocket ==
    /\ proc = "start"
    /\ proc' \in {"wait", "exited"}
    /\ UNCHANGED <<file, net, base, bev, obj, maps, told, misrouted, foreign>>

\* CreateClientSocket, while no callback runs.  socket() may fail; when connect()
\* fails the descriptor stays open; when fcntl() fails it is closed again.
CreateClientSocket(c) ==
    /\ proc = "wait" /\ net[c].st = "none"
    /\ \E f \in Fd :
          /\ Lowest(f)
          /\ \/ NewPeer(c, f, "client", base) /\ UNCHANGED <<proc, misrouted, foreign>>
             \/ /\ net' = [net EXCEPT ![c].st = "gone"]
                /\ file' \in {[file EXCEPT ![f] = Unconnected], file}
                /\ UNCHANGED <<proc, base, bev, obj, maps, told, misrouted, foreign>>

\* NewConnect.  main calls event_dispatch outside any try: an exception ends the process.
NewConnect ==
    LET b == [base EXCEPT !.active = Tail(@)] IN
    \/ \E c \in Conn, f \in Fd :
          /\ net[c].st = "backlog" /\ Lowest(f)
          /\ NewPeer(c, f, "server", b)
          /\ UNCHANGED <<proc, misrouted, foreign>>
    \/ Ends("threw_accept", b)
-----------------------------------------------------------------------------
(* clsPeerPoint::OnError, and what it calls.                               *)

\* _Vfd as read from object a.  If that was freed, it is still there, or overwritten by
\* the allocator's link to the next free block: zero at the end of the list, else part
\* of an address.
VfdOf(a, objs) ==
    IF objs[a].live THEN {objs[a].vfd} ELSE {objs[a].vfd, 0, Junk}

\* close(v), b being the base so far.
Close(v, b) ==
    /\ file' = [f \in Fd |-> IF f = v THEN Free ELSE file[f]]
    /\ base' = IF v \in Fd THEN Closed(b, v) ELSE b

\* Whether close(v) in a callback of c ends another connection.
EndsAnother(v, c) == \E f \in Fd : f = v /\ file[f] \in Conn \ {c}

InMapOfType(p, v) ==
    v \in IF obj[p].type = "server" THEN PeerVfd2ServerObj ELSE PeerVfd2ClientObj

\* Mutants: DelPeerVfd forgets DelClientVfd; only peers of the server are
\* reported to the application; only those are removed.
PeerVfdOnCloseKeepingClient(v, objs) ==
    LET p == IF v \in Fd THEN PeerObjList[v] ELSE None IN
    IF p = None \/ ~InMapOfType(p, v)
    THEN obj' = objs /\ UNCHANGED <<maps, told>>
    ELSE /\ told' = [told EXCEPT ![v] = @ - 1]
         /\ obj' = [objs EXCEPT ![p].live = FALSE]
         /\ PeerObjList' = [PeerObjList EXCEPT ![v] = None]
         /\ PeerVfd2ServerObj' = PeerVfd2ServerObj \ {v}
         /\ PeerVfd2ClientObj' = PeerVfd2ClientObj \ {v}
         /\ UNCHANGED ClientObjList

PeerVfdOnCloseQuietly(v, objs) ==
    LET p == IF v \in Fd THEN PeerObjList[v] ELSE None IN
    IF p = None \/ ~InMapOfType(p, v)
    THEN obj' = objs /\ UNCHANGED <<maps, told>>
    ELSE /\ told' = [told EXCEPT ![v] = IF obj[p].type = "server" THEN @ - 1 ELSE @]
         /\ obj' = [objs EXCEPT ![p].live = FALSE]
         /\ PeerObjList' = [PeerObjList EXCEPT ![v] = None]
         /\ PeerVfd2ServerObj' = PeerVfd2ServerObj \ {v}
         /\ PeerVfd2ClientObj' = PeerVfd2ClientObj \ {v}
         /\ ClientObjList' = ClientObjList \ {v}

PeerVfdOnCloseOfServer(v, objs) ==
    LET p == IF v \in Fd THEN PeerObjList[v] ELSE None IN
    IF p = None \/ v \notin PeerVfd2ServerObj
    THEN obj' = objs /\ UNCHANGED <<maps, told>>
    ELSE /\ told' = [told EXCEPT ![v] = @ - 1]
         /\ obj' = [objs EXCEPT ![p].live = FALSE]
         /\ PeerObjList' = [PeerObjList EXCEPT ![v] = None]
         /\ PeerVfd2ServerObj' = PeerVfd2ServerObj \ {v}
         /\ UNCHANGED <<PeerVfd2ClientObj, ClientObjList>>

\* PeerVfdOnClose(v): PacketOnError of the application, then DelPeerVfd.
PeerVfdOnClose(v, objs) ==
    LET p == IF v \in Fd THEN PeerObjList[v] ELSE None IN
    IF p = None \/ ~InMapOfType(p, v)
    THEN obj' = objs /\ UNCHANGED <<maps, told>>
    ELSE LET d == obj[p].vfd IN
         /\ told' = [told EXCEPT ![v] = @ - 1]
         /\ obj' = [objs EXCEPT ![PeerObjList[d]].live = FALSE]
         /\ PeerObjList' = [PeerObjList EXCEPT ![d] = None]
         /\ IF obj[p].type = "server"
            THEN /\ PeerVfd2ServerObj' = PeerVfd2ServerObj \ {d}
                 /\ UNCHANGED <<PeerVfd2ClientObj, ClientObjList>>
            ELSE /\ PeerVfd2ClientObj' = PeerVfd2ClientObj \ {d}
                 /\ ClientObjList' = ClientObjList \ {d}
                 /\ UNCHANGED PeerVfd2ServerObj

\* Mutant: another value for a closed peer's status.
OnErrorMinusOne(c, b) ==
    LET a == bev[c].arg IN
    IF obj[a].status # 1
    THEN base' = b /\ UNCHANGED <<file, obj, maps, told, foreign>>
    ELSE \E v \in VfdOf(a, obj) :
           /\ PeerVfdOnClose(v, [obj EXCEPT ![a].status = -1])
           /\ \E w \in VfdOf(a, obj') :
                Close(w, b) /\ foreign' = (foreign \/ EndsAnother(w, c))

\* OnError, called by bufferevent c.  _Vfd is read a second time after the peer was deleted.
OnError(c, b) ==
    LET a == bev[c].arg IN
    IF obj[a].status = 0
    THEN base' = b /\ UNCHANGED <<file, obj, maps, told, foreign>>
    ELSE \E v \in VfdOf(a, obj) :
           /\ PeerVfdOnClose(v, [obj EXCEPT ![a].status = 0])
           /\ \E w \in VfdOf(a, obj') :
                Close(w, b) /\ foreign' = (foreign \/ EndsAnother(w, c))

-----------------------------------------------------------------------------
(* bufferevent_readcb and clsPeerPoint::OnRead.  What read() finds depends *)
(* on what the descriptor is open on by now.                               *)

\* Bytes of connection from are passed on as v's.  In PacketOnRead the application
\* may write to some descriptor.
PeerVfdOnRead(v, from, b) ==
    IF v \notin Fd \/ (v \in Fd /\ (PeerObjList[v] = None \/ ~InMapOfType(PeerObjList[v], v)))
    THEN base' = b /\ UNCHANGED <<bev, misrouted>>
    ELSE /\ misrouted' = (misrouted \/ (file[v] # from /\ \E f \in Peers : file[f] = from))
         /\ \/ base' = b /\ UNCHANGED bev
            \/ \E g \in Fd :
                 LET w == PeerVfdOnWrite(b, obj, bev, OpenFds, PeerObjList, g)
                 IN  base' = w.base /\ bev' = w.bev

OnRead(a, from, b) ==
    IF obj[a].status = 0
    THEN proc' = "threw_read" /\ base' = b /\ UNCHANGED <<bev, misrouted>>
    ELSE UNCHANGED proc /\ \E v \in VfdOf(a, obj) : PeerVfdOnRead(v, from, b)

\* Mutant: the read event is not added again after a read.
ReadCbOnce(c) ==
    LET f == bev[c].fd
        from == file[f]
        b == EventDel(base, c, "read", f)
    IN  IF from \in Conn /\ net[from].unread
        THEN /\ net' = [net EXCEPT ![from].unread = FALSE]
             /\ OnRead(bev[c].arg, from, b)
             /\ UNCHANGED <<file, obj, maps, told, foreign>>
        ELSE /\ OnError(c, b)
             /\ UNCHANGED <<net, proc, bev, misrouted>>

ReadCb(c) ==
    LET f == bev[c].fd
        from == file[f]
        b == EventDel(base, c, "read", f)
        again == EventAdd(b, c, "read", f, f \in OpenFds)
    IN  IF from \in Conn /\ net[from].unread
        THEN /\ net' = [net EXCEPT ![from].unread = FALSE]
             /\ OnRead(bev[c].arg, from, again)
             /\ UNCHANGED <<file, obj, maps, told, foreign>>
        ELSE IF from \in Conn /\ net[from].st = "open"       \* EAGAIN
        THEN /\ base' = again
             /\ UNCHANGED <<file, net, proc, bev, obj, maps, told, misrouted, foreign>>
        ELSE /\ net' = IF from \in Conn /\ net[from].st = "reset"
                       THEN [net EXCEPT ![from].st = "dead"] ELSE net
             /\ OnError(c, b)
             /\ UNCHANGED <<proc, bev, misrouted>>

(* bufferevent_writecb.  The first call on a connection that was reset     *)
(* reports the reset; a write after that raises SIGPIPE.                   *)
WriteCb(c) ==
    LET f == bev[c].fd
        to == file[f]
        b == EventDel(base, c, "write", f)
        again == EventAdd(b, c, "write", f, f \in OpenFds)
    IN  IF ~bev[c].out
        THEN /\ base' = b
             /\ UNCHANGED <<file, net, proc, bev, obj, maps, told, misrouted, foreign>>
        ELSE IF to \in Conn /\ net[to].st = "dead" THEN Ends("sigpipe", b)
        ELSE IF to \in Conn /\ net[to].st \in {"open", "eof"}
        THEN /\ \/ \* everything is written
                   /\ net[to].room /\ base' = b
                   /\ bev' = [bev EXCEPT ![c].out = FALSE] /\ net' = net
                \/ \* part of it, or nothing (EAGAIN)
                   /\ base' = again /\ bev' = bev
                   /\ net' = [net EXCEPT ![to].room = FALSE]
             /\ UNCHANGED <<file, proc, obj, maps, told, misrouted, foreign>>
        ELSE /\ net' = IF to \in Conn THEN [net EXCEPT ![to].st = "dead"] ELSE net
             /\ OnError(c, b)
             /\ UNCHANGED <<proc, bev, misrouted>>

-----------------------------------------------------------------------------
(* The event loop.                                                         *)

\* What epoll_wait reports of descriptor f.
Reported(f) ==
    LET c == file[f] IN
    IF base.mask[f] = {} \/ c \notin Conn THEN {}
    ELSE IF net[c].st \in {"reset", "dead"} THEN Kinds
    ELSE base.mask[f] \cap ( (IF net[c].unread \/ net[c].st = "eof" THEN {"read"} ELSE {})
                            \cup (IF net[c].room THEN {"write"} ELSE {}) )

Ready ==
    {f \in Fd : Reported(f) # {}}
    \cup (IF \E c \in Conn : net[c].st = "backlog" THEN {Listener} ELSE {})

\* event_base_loop and epoll_dispatch.
Dispatch ==
    /\ proc = "wait" /\ Ready # {}
    /\ \E order \in [1..Cardinality(Ready) -> Ready] :
          /\ \A i, j \in 1..Cardinality(Ready) : i # j => order[i] # order[j]
          /\ base' = Dispatched(base, order, [f \in Fd |-> Reported(f)])
    /\ proc' = "run"
    /\ UNCHANGED <<file, net, bev, obj, maps, told, misrouted, foreign>>

\* event_process_active: the first active event's callback runs.
Process ==
    /\ proc = "run" /\ base.active # <<>>
    /\ LET e == Head(base.active) IN
       \/ e = ListenEvent /\ NewConnect
       \/ e # ListenEvent /\ e[2] = "read" /\ ReadCb(e[1])
       \/ e # ListenEvent /\ e[2] = "write" /\ WriteCb(e[1])

LoopAgain ==
    /\ proc = "run" /\ base.active = <<>>
    /\ proc' = "wait"
    /\ UNCHANGED <<file, net, base, bev, obj, maps, told, misrouted, foreign>>

Loop == Dispatch \/ Process \/ LoopAgain

Next ==
    \/ CreateServerSocket
    \/ Loop
    \/ \E c \in Conn : \/ CreateClientSocket(c)
                       \/ RemoteConnects(c) \/ RemoteCloses(c) \/ RemoteResets(c)
                       \/ RemoteSends(c) \/ RemoteReads(c)

Spec == Init /\ [][Next]_vars

\* The process runs its loop; the remote sides need do nothing.
FairSpec == Spec /\ WF_vars(Loop)
-----------------------------------------------------------------------------
TypeOK ==
    /\ file \in [Fd -> Conn \cup {Std, Unconnected, Free}]
    /\ net \in [Conn -> [st : {"none", "backlog", "open", "eof", "reset", "dead", "gone"},
                         unread : BOOLEAN, room : BOOLEAN]]
    /\ proc \in {"start", "wait", "run", "exited", "threw_accept", "threw_read", "sigpipe"}
    /\ base \in Bases
    /\ bev \in [Conn -> [fd : Fd \cup {None}, arg : Addr \cup {None}, out : BOOLEAN]]
    /\ obj \in [Addr -> [live : BOOLEAN, vfd : Fd \cup {None},
                         type : {"server", "client", None}, status : {0, 1},
                         buff : Conn \cup {None}]]
    /\ PeerObjList \in [Fd -> Addr \cup {None}]
    /\ PeerVfd2ServerObj \subseteq Fd /\ PeerVfd2ClientObj \subseteq Fd
    /\ ClientObjList \subseteq Fd
    /\ told \in [Fd -> Int] /\ misrouted \in BOOLEAN /\ foreign \in BOOLEAN

(* What the PeerVfdOn functions look up is there, whatever was read from   *)
(* deleted peers and whichever descriptor was closed for that.  A listed   *)
(* peer has not been deleted, has the _Vfd it is listed under, and has an  *)
(* entry in the map of its type; the two maps of clients agree             *)
(* (DelPeerVfd, DelClientVfd, AddPeerObj).                                 *)
LookupsSucceed ==
    /\ \A f \in Peers : LET p == PeerObjList[f] IN
          obj[p].live /\ obj[p].vfd = f /\ InMapOfType(p, f)
    /\ ClientObjList = PeerVfd2ClientObj

(* The application hears PacketOnError only for a descriptor for which it  *)
(* has heard PacketOnConnect, and a peer that is still listed has been     *)
(* announced and not yet taken back (PeerVfdOnConnect, PeerVfdOnClose).    *)
ErrorsAfterConnects == \A f \in Fd : told[f] >= IF f \in Peers THEN 1 ELSE 0

(* OnError closes what it reads from the peer it has deleted.  As long as  *)
(* this never was another connection's descriptor (it may be the right     *)
(* one, standard input or none at all, so that the connection stays open)  *)
(* the maps of the SocketManager agree with each other and with the peer   *)
(* objects after every callback (AddPeerObj, AddPeerServerMap,             *)
(* AddPeerClientMap, AddClientObj, DelPeerVfd, DelClientVfd): a key is in  *)
(* the maps of its peer's type, and only those, and exactly the peers that *)
(* were not deleted are listed.                                            *)
MapsAgree ==
    ~foreign =>
        /\ PeerVfd2ServerObj = {f \in Peers : obj[PeerObjList[f]].type = "server"}
        /\ PeerVfd2ClientObj = {f \in Peers : obj[PeerObjList[f]].type = "client"}
        /\ ClientObjList = PeerVfd2ClientObj
        /\ {a \in Addr : obj[a].live} = {PeerObjList[f] : f \in Peers}

(* Under the same condition PacketOnConnect and PacketOnError alternate,   *)
(* descriptor by descriptor: one PacketOnConnect for each peer and exactly *)
(* one PacketOnError when it is removed, although the end of a connection  *)
(* can be reported by its read and by its write event, and once more by a  *)
(* connection that was left open (OnError's test of _Status).              *)
CallbacksAlternate ==
    ~foreign => \A f \in Fd : told[f] = IF f \in Peers THEN 1 ELSE 0

(* Under the same condition the descriptor of a listed peer is open on the *)
(* peer's own connection, and that connection's bufferevent calls this     *)
(* peer (NewConnect, OnError): no peer is listed for a connection that was *)
(* closed, nor for a later connection's descriptor.                        *)
PeersOwnDescriptors ==
    ~foreign => \A f \in Peers : LET p == PeerObjList[f] IN
        file[f] = obj[p].buff /\ bev[file[f]].fd = f /\ bev[file[f]].arg = p

(* Under the same condition bytes read from a listed peer's connection are *)
(* passed to the application under that peer's descriptor, though          *)
(* descriptors and addresses of peer objects are used again, also by       *)
(* connections that were left open (OnRead, PeerVfdOnRead).  Nothing is    *)
(* said of what a connection that was left open still receives: if the     *)
(* address of its peer has a new owner, the bytes are passed on as that    *)
(* peer's (see NeverReadsCleared for the other case).                      *)
DataToOwner == ~foreign => ~misrouted

(* The end of a connection is reported twice when its read and its write   *)
(* event are both active, the second time to a peer that was deleted.      *)
(* Under the same condition nothing comes between the two: when an event   *)
(* of a closed connection is active, neither its descriptor nor the        *)
(* address of its peer belongs to anyone else (epoll_dispatch queues the   *)
(* events of a descriptor one behind the other; OnError, NewConnect).      *)
NoCallbackAfterReuse ==
    ~foreign => \A c \in Conn : (\E k \in Kinds : IsActive(base, <<c, k>>)) =>
        \/ file[bev[c].fd] = c
        \/ file[bev[c].fd] = Free /\ ~obj[bev[c].arg].live

(* OnRead is never called on a peer that OnError has cleared ("Try To Read *)
(* Cleared vfd", peer_point.cpp:37).                                       *)
NeverReadsCleared == proc # "threw_read"

(* Removing a peer does not touch the others ("delete everything that can  *)
(* be found, so that other entries are not affected", "//                  *)
(* 把能够找到的相应内容都删除掉，以免影响其它的对应", socket_manager.cpp:157): *)
(* every listed peer's bufferevent still waits for input.                  *)
PeersListen ==
    proc = "wait" =>
        \A f \in Peers : <<obj[PeerObjList[f]].buff, "read">> \in base.inserted

(* Bytes that arrive on a listed peer's descriptor are read, unless an     *)
(* earlier connection's event is still entered for that descriptor (see    *)
(* PeersListen) or the process ends (bufferevent_readcb adds its event     *)
(* again, OnRead empties the input).                                       *)
DataIsRead ==
    \A c \in Conn, f \in Fd :
        /\ file[f] = c /\ f \in Peers /\ net[c].unread
        /\ \A k \in Kinds : base.slot[f][k] \in {None, c}
        ~> ~net[c].unread \/ file[f] # c \/ proc \notin {"wait", "run"}
=============================================================================
