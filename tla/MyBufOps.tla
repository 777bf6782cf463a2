------------------------------ MODULE MyBufOps ------------------------------
(***************************************************************************)
(* class MyBuf (encrypt/mybuf.cpp, and its identical copy in packet/): a   *)
(* linear buffer with a head and a tail pointer.  InsertData appends,      *)
(* first sliding the contents down to the start of the block and then, if  *)
(* that is not enough, reallocating it; GetBufData advances the head.      *)
(*                                                                         *)
(* A buffer is a record.  Pointers are offsets from _Buf.  Cells of mem    *)
(* outside head..tail-1 are Junk: the code never reads them again.  The    *)
(* record also says how many bytes the allocator really gave (alloc), so   *)
(* that an access outside the block can be seen, and what has gone wrong.  *)
(***************************************************************************)
EXTENDS Words

CONSTANTS
    Junk,       \* the content of memory that was never (properly) written
    BufSize     \* the constructor's argument (1024 by default)

ASSUME BufAssumption ==
    /\ BufSize \in 1..MaxInt
    /\ Junk \notin Byte

-----------------------------------------------------------------------------
(* GetBufLen, GetTailLen, GetRemainLen of mybuf.h.                         *)
GetBufLen(b) == b.tail - b.head
GetTailLen(b) == b.bufsize - b.tail
GetRemainLen(b) == b.bufsize - GetBufLen(b)

Cells == 0..MaxInt
NoBytes == [i \in Cells |-> Junk]

\* The bytes a reader of the buffer sees.
Contents(b) == [i \in 1..GetBufLen(b) |-> b.mem[b.head + i - 1]]

\* Whether every allocation has succeeded and every write stayed inside the block.
Sound(b) == ~b.failed /\ ~b.overrun /\ b.fault = "none"

\* The constructor; malloc may return NULL, which is not looked at.
NewBuf ==
    {[bufsize |-> BufSize, alloc |-> IF null THEN 0 ELSE BufSize, null |-> null,
      mem |-> NoBytes, head |-> 0, tail |-> 0, failed |-> null,
      overrun |-> FALSE, fault |-> "none"] : null \in BOOLEAN}

-----------------------------------------------------------------------------
(* InsertData.                                                             *)

\* Mutant: _Tail is left where it was.
SlideDownKeepingTail(b) ==
    [b EXCEPT !.mem = [i \in Cells |-> IF i < GetBufLen(b) THEN b.mem[b.head + i] ELSE Junk],
              !.head = 0]

\* memmove(_Buf, _Head, BufLen), _Head = _Buf, _Tail = _Head + BufLen
SlideDown(b) ==
    [b EXCEPT !.mem = [i \in Cells |-> IF i < GetBufLen(b) THEN b.mem[b.head + i] ELSE Junk],
              !.head = 0,
              !.tail = GetBufLen(b)]

\* What a _BufSize doubled k times is multiplied by.
Power2[k \in 0..30] == IF k = 0 THEN 1 ELSE 2 * Power2[k - 1]

\* Mutant: the loop goes on beyond an int.
DoubledPastInt(size, need) ==
    LET enough == {c \in need..(4 * MaxInt) :
                     \E k \in 0..30 : c % Power2[k] = 0 /\ c \div Power2[k] = size}
    IN  {c \in enough : \A d \in enough : c <= d}

\* Mutant: while (_BufSize <= NeedLen).
DoubledBeyond(size, need) ==
    LET enough == {c \in (need + 1)..MaxInt :
                     \E k \in 0..30 : c % Power2[k] = 0 /\ c \div Power2[k] = size}
    IN  {c \in enough : \A d \in enough : c <= d}

\* while (_BufSize < NeedLen) _BufSize = _BufSize * 2: the value the loop stops
\* at, if it reaches one before _BufSize exceeds an int.  (A _BufSize that is a
\* power of two, as every buffer of the program has, is 0 from there on.)
DoubledTo(size, need) ==
    LET enough == {c \in need..MaxInt :
                     \E k \in 0..30 : c % Power2[k] = 0 /\ c \div Power2[k] = size}
    IN  {c \in enough : \A d \in enough : c <= d}

\* memcpy(_Tail, Input, RealLen).  Bytes beyond the allocated block land in
\* memory of somebody else, who may or may not overwrite them later.
CopyIn(b, s) ==
    LET end == b.tail + Len(s)
        Landed(i, lost) == IF i \notin b.tail..(end - 1) THEN b.mem[i]
                           ELSE IF i >= b.alloc /\ lost THEN Junk
                           ELSE s[i - b.tail + 1]
    IN  IF s = <<>> THEN {b}
        ELSE IF b.null THEN {[b EXCEPT !.fault = "null_write"]}
        ELSE {[b EXCEPT !.mem = [i \in Cells |-> Landed(i, lost)],
                        !.tail = end,
                        !.overrun = @ \/ end > b.alloc] : lost \in BOOLEAN}

\* Mutant: NeedLen forgets the bytes that are already there.
ReallocatedForInputOnly(b, size, need) ==
    [b EXCEPT !.mem = [i \in Cells |-> IF i < b.alloc THEN b.mem[i] ELSE Junk],
              !.bufsize = size, !.alloc = need - GetBufLen(b), !.null = FALSE,
              !.head = 0, !.tail = GetBufLen(b)]

\* realloc(_Head, NeedLen) returned a block: the old one's bytes are copied
\* (those that were inside it), the rest is uninitialized.
Reallocated(b, size, need) ==
    [b EXCEPT !.mem = [i \in Cells |-> IF i < b.alloc THEN b.mem[i] ELSE Junk],
              !.bufsize = size, !.alloc = need, !.null = FALSE,
              !.head = 0, !.tail = GetBufLen(b)]

\* realloc returned NULL: _Head = NULL and _Tail = NULL + BufLen.
NoMemory(b, size) ==
    [b EXCEPT !.mem = NoBytes, !.bufsize = size, !.alloc = 0, !.null = TRUE,
              !.failed = TRUE, !.head = 0, !.tail = GetBufLen(b)]

\* The growing branch.  NeedLen wraps to a negative number when it exceeds an
\* int: the loop is skipped and realloc, asked for nearly all of memory, fails.
\* Otherwise, if no doubling of _BufSize reaches NeedLen within an int, the
\* loop never ends.  realloc of anything but a block's start, or of a block
\* whose neighbourhood was overwritten, may make the allocator abort.
GrowAndCopy(b, s) ==
    LET need == GetBufLen(b) + Len(s)
        sizes == DoubledTo(b.bufsize, need)
        Fault(f) == [b EXCEPT !.fault = f]
    IN  IF need > MaxInt THEN {NoMemory(b, b.bufsize)}
        ELSE IF sizes = {} THEN {Fault("endless_loop")}
        ELSE IF b.head # 0 THEN {Fault("bad_realloc")}
        ELSE (IF b.overrun THEN {Fault("abort")} ELSE {})
             \cup {NoMemory(b, c) : c \in sizes}
             \cup UNION {CopyIn(Reallocated(b, c, need), s) : c \in sizes}

\* Mutant: nothing is ever slid down.
InsertedUnslid(b, s) ==
    IF Len(s) > GetRemainLen(b) THEN GrowAndCopy(b, s) ELSE CopyIn(b, s)

\* Mutant: the contents are slid down only when the block is full.
InsertedSlidLate(b, s) ==
    IF Len(s) > GetRemainLen(b) THEN GrowAndCopy(SlideDown(b), s) ELSE CopyIn(b, s)

\* The whole of InsertData: the set of buffers it can leave behind.
Inserted(b, s) ==
    LET slid == IF Len(s) > GetTailLen(b) /\ b.head # 0 THEN SlideDown(b) ELSE b
    IN  IF Len(s) > GetRemainLen(slid) THEN GrowAndCopy(slid, s)
        ELSE CopyIn(slid, s)

(* GetBufData: the head moves past the bytes handed out.  (GetBufHead      *)
(* changes nothing: its two results are head and GetBufLen.)               *)
RealLen(b, n) == IF n > GetBufLen(b) THEN GetBufLen(b) ELSE n

Drained(b, n) ==
    LET h == b.head + RealLen(b, n)
    IN  [b EXCEPT !.head = h, !.mem = [i \in Cells |-> IF i < h THEN Junk ELSE b.mem[i]]]

-----------------------------------------------------------------------------
Buffer ==
    [bufsize : 1..MaxInt, alloc : 0..MaxInt, null : BOOLEAN,
     mem : [Cells -> Byte \cup {Junk}], head : 0..MaxInt, tail : 0..MaxInt,
     failed : BOOLEAN, overrun : BOOLEAN,
     fault : {"none", "null_write", "null_read", "endless_loop", "bad_realloc",
              "abort"}]
=============================================================================
