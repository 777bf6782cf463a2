------------------------------ MODULE Libevent ------------------------------
(***************************************************************************)
(* The part of libevent 1.4 that the socket layer runs on: events, the     *)
(* table of epoll.c that says which event waits on a descriptor, and the   *)
(* queue of active events.  An event is a pair <<b, k>>: the ev_read or    *)
(* ev_write of bufferevent b.                                              *)
(*                                                                         *)
(* An event base is a record:                                              *)
(*   slot      epollop->fds: for each descriptor, the bufferevent whose    *)
(*             event of each kind is entered there                         *)
(*   mask      what the kernel's epoll set waits for on the descriptor;    *)
(*             {} when it is not in the set                                *)
(*   inserted  the events with EVLIST_INSERTED                             *)
(*   active    the active queue                                            *)
(***************************************************************************)
EXTENDS Integers, Sequences

CONSTANTS
    Fd,         \* descriptors a socket can get
    Bev,        \* bufferevents
    Listener,   \* stands for the listening socket and its event
    None        \* NULL, or no such key

ASSUME EventAssumption == None \notin Fd \cup Bev \cup {Listener} /\ Listener \notin Fd \cup Bev

Kinds == {"read", "write"}
Events == Bev \X Kinds
ListenEvent == <<Listener, "read">>

NewBase ==
    [slot |-> [f \in Fd |-> [k \in Kinds |-> None]], mask |-> [f \in Fd |-> {}],
     inserted |-> {}, active |-> <<>>]

Waiting(base, f) == {k \in Kinds : base.slot[f][k] # None}

IsActive(base, e) == \E i \in 1..Len(base.active) : base.active[i] = e

\* epoll_add asks epoll_ctl to modify an entry if the table knows of an event on
\* f, else to add one, which fails if the kernel's set disagrees or f is closed.
EpollAddFails(base, f, open) == ~open \/ (Waiting(base, f) = {}) # (base.mask[f] = {})

\* event_add of <<b, k>> on descriptor f.
EventAdd(base, b, k, f, open) ==
    IF <<b, k>> \in base.inserted \/ IsActive(base, <<b, k>>) \/ EpollAddFails(base, f, open)
    THEN base
    ELSE [base EXCEPT !.slot[f][k] = b,
                      !.mask[f] = Waiting(base, f) \cup {k},
                      !.inserted = @ \cup {<<b, k>>}]

\* epoll_del; a failing epoll_ctl is not looked at.
EpollDel(base, k, f) ==
    [base EXCEPT !.slot[f][k] = None,
                 !.mask[f] = IF @ = {} THEN {} ELSE Waiting(base, f) \ {k}]

\* TAILQ_REMOVE of an event from the active queue, if it is there.
Removed(queue, e) ==
    LET at == CHOOSE i \in 1..Len(queue) : queue[i] = e
    IN  IF \A i \in 1..Len(queue) : queue[i] # e THEN queue
        ELSE SubSeq(queue, 1, at - 1) \o SubSeq(queue, at + 1, Len(queue))

EventDel(base, b, k, f) ==
    LET left == IF <<b, k>> \in base.inserted THEN EpollDel(base, k, f) ELSE base
    IN  [left EXCEPT !.inserted = @ \ {<<b, k>>}, !.active = Removed(@, <<b, k>>)]

\* The kernel forgets a descriptor that is closed; libevent is not told.
Closed(base, f) == [base EXCEPT !.mask[f] = {}]

\* The event of kind k that becomes active for what is reported of descriptor f.
Woken(base, what, f, k) ==
    IF f = Listener THEN IF k = "read" THEN <<ListenEvent>> ELSE <<>>
    ELSE IF k \in what[f] /\ base.slot[f][k] # None THEN <<<<base.slot[f][k], k>>>> ELSE <<>>

\* Mutant: all read events become active before all write events.
DispatchedByKind(base, order, what) ==
    LET queue[n \in 0..(2 * Len(order))] ==
            IF n = 0 THEN <<>>
            ELSE queue[n - 1] \o (IF n <= Len(order) THEN Woken(base, what, order[n], "read")
                                  ELSE Woken(base, what, order[n - Len(order)], "write"))
    IN  [base EXCEPT !.active = queue[2 * Len(order)]]

\* The loop of epoll_dispatch over the descriptors in the order the kernel reports
\* them: the active queue after n of them.
Queue(base, order, what) ==
    LET queue[n \in 0..Len(order)] ==
            IF n = 0 THEN <<>>
            ELSE queue[n - 1] \o Woken(base, what, order[n], "read")
                              \o Woken(base, what, order[n], "write")
    IN  queue

\* epoll_dispatch: the events of the ready descriptors become active; what[f] is what
\* is reported of f.
Dispatched(base, order, what) ==
    [base EXCEPT !.active = Queue(base, order, what)[Len(order)]]

Bases ==
    [slot : [Fd -> [Kinds -> Bev \cup {None}]], mask : [Fd -> SUBSET Kinds],
     inserted : SUBSET Events, active : Seq(Events \cup {ListenEvent})]
=============================================================================
