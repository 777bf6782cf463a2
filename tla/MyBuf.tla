------------------------------- MODULE MyBuf -------------------------------
(***************************************************************************)
(* One object of class MyBuf and every sequence of calls on it.            *)
(***************************************************************************)
EXTENDS MyBufOps

CONSTANT MaxInput   \* bound: the longest input a caller passes at once

ASSUME InputAssumption == MaxInput \in 0..MaxInt

VARIABLES
    buf,        \* the object
    io          \* the last call and the bytes passed in or handed out

vars == <<buf, io>>

-----------------------------------------------------------------------------
Init == buf \in NewBuf /\ io = [call |-> "new", data |-> <<>>]

Running == buf.fault = "none"

InsertData(s) ==
    /\ Running
    /\ buf' \in Inserted(buf, s)
    /\ io' = [call |-> "put", data |-> s]

\* The caller reads the bytes it is handed; through NULL it cannot.
GetBufData(n) ==
    /\ Running
    /\ buf' = IF buf.null /\ RealLen(buf, n) > 0
              THEN [buf EXCEPT !.fault = "null_read"]
              ELSE Drained(buf, n)
    /\ io' = [call |-> "get", data |-> SubSeq(Contents(buf), 1, RealLen(buf, n))]

Inputs == UNION {[1..n -> Byte] : n \in 0..MaxInput}

Next ==
    \/ \E s \in Inputs : InsertData(s)
    \/ \E n \in 0..MaxInput : GetBufData(n)

Spec == Init /\ [][Next]_vars

-----------------------------------------------------------------------------
TypeOK ==
    /\ buf \in Buffer
    /\ io \in [call : {"new", "put", "get"}, data : Seq(Byte \cup {Junk})]

(* After any sequence of inserts and takes, failed ones included, the      *)
(* pointers delimit a region of the capacity the buffer believes it has:   *)
(* _Buf <= _Head <= _Tail <= _Buf + _BufSize (mybuf.cpp InsertData,        *)
(* GetBufData).                                                            *)
PointersInOrder == 0 <= buf.head /\ buf.head <= buf.tail /\ buf.tail <= buf.bufsize

(* InsertData passes _Head, not _Buf, to realloc.  That is sound only      *)
(* because whenever the buffer must grow it has been slid down before, so  *)
(* that _Head = _Buf: the two length tests of InsertData imply each other. *)
ReallocOfBlockStart == buf.fault # "bad_realloc"

(* What the block is asked to grow to is never less than what it had: a    *)
(* realloc in InsertData never cuts off bytes it holds.                    *)
NeverShrinks == [][buf.alloc <= buf'.alloc \/ buf'.null]_vars

(* As long as memory does not run out, writes stay inside the block the    *)
(* allocator gave: after "//扩充buf" (mybuf.cpp:38, "enlarge the buffer")   *)
(* there is room for the _BufSize bytes the next call counts on.           *)
WritesStayInBlock == buf.overrun => buf.failed

-----------------------------------------------------------------------------
(* A MyBuf is a queue of bytes until memory runs out or is overrun.        *)
Queue == INSTANCE ByteQueue WITH
            q <- IF Sound(buf) THEN Contents(buf) ELSE <<>>,
            kept <- Sound(buf)

QueueSpec == Queue!Spec
=============================================================================
