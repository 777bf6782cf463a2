---------------------------- MODULE PacketHeader ----------------------------
(***************************************************************************)
(* PacketHeaderProcess (packet/PacketProcess.cpp): packets, an int length  *)
(* and that many bytes, read from descriptors whose streams are cut into   *)
(* pieces of any size.  One object reads for a process.  ReadData runs     *)
(* ReadOnceData over a piece until nothing is left of it.                  *)
(*                                                                         *)
(* The object's members follow each other in memory as _Header,            *)
(* _ProcessVfd, _VfdBuf: ReadOnceData, resuming a header after k bytes,    *)
(* writes the rest k ints (not bytes) behind the start of _Header.         *)
(***************************************************************************)
EXTENDS MyBufOps, FiniteSets

CONSTANTS
    Vfd,        \* descriptors
    MaxMsgs,    \* bound: packets sent
    MaxMsgLen   \* bound: the length of a packet's body

ASSUME HeaderAssumption ==
    /\ Vfd \subseteq 1..(IntValues \div 2 - 1)
    /\ MaxMsgs \in Nat /\ MaxMsgLen \in 0..(IntValues \div 2 - 1)

VARIABLES
    sent,       \* the bodies given to WriteData
    wire,       \* for each descriptor, the bytes not yet read
    piece,      \* what ReadData still has to go through: [vfd, bytes]
    reading,    \* inside ReadData
    status,     \* _status: "header" or "body"
    need,       \* _NeedBufLen
    header,     \* the four bytes of _Header
    processVfd, \* _ProcessVfd
    buf,        \* *_VfdBuf
    handed,     \* what was found in the buffer at each end of a body
    fault,      \* "none", or how the process ended
    split       \* history: a header came in more than one piece

object == <<status, need, header, processVfd, buf>>
vars == <<sent, wire, piece, reading, object, handed, fault, split>>

Messages == UNION {[1..n -> Byte] : n \in 0..MaxMsgLen}

Init ==
    /\ sent = <<>> /\ wire = [v \in Vfd |-> <<>>]
    /\ piece = [vfd |-> 0, bytes |-> <<>>] /\ reading = FALSE
    /\ status = "header" /\ need = 4 /\ header = [i \in 1..4 |-> Junk] /\ processVfd = -1
    /\ buf \in NewBuf /\ handed = <<>> /\ fault = "none" /\ split = FALSE

\* Mutant: the length is written as one byte.
WriteDataShort(v, msg) ==
    /\ Len(sent) < MaxMsgs
    /\ sent' = Append(sent, msg)
    /\ wire' = [wire EXCEPT ![v] = @ \o <<Len(msg)>> \o msg]
    /\ UNCHANGED <<piece, reading, object, handed, fault, split>>

WriteData(v, msg) ==
    /\ Len(sent) < MaxMsgs
    /\ sent' = Append(sent, msg)
    /\ wire' = [wire EXCEPT ![v] = @ \o BytesOfInt(Len(msg)) \o msg]
    /\ UNCHANGED <<piece, reading, object, handed, fault, split>>

ReadData(v, n) ==
    /\ fault = "none" /\ ~reading /\ n <= Len(wire[v])
    /\ piece' = [vfd |-> v, bytes |-> SubSeq(wire[v], 1, n)] /\ reading' = TRUE
    /\ wire' = [wire EXCEPT ![v] = SubSeq(@, n + 1, Len(@))]
    /\ UNCHANGED <<sent, object, handed, fault, split>>

ReturnFromReadData ==
    /\ fault = "none" /\ reading /\ piece.bytes = <<>>
    /\ reading' = FALSE
    /\ UNCHANGED <<sent, wire, piece, object, handed, fault, split>>

-----------------------------------------------------------------------------
(* ReadOnceData                                                            *)

Lesser(a, b) == IF a > b THEN b ELSE a
Left(k) == [piece EXCEPT !.bytes = SubSeq(@, k + 1, Len(@))]

\* The ints that four bytes, some of them never written, can be read as.
IntsOf(cells) ==
    {IntOfBytes(t) : t \in {u \in [1..4 -> Byte] : \A i \in 1..4 : cells[i] \in {Junk, u[i]}}}

Overwritten(cells, s) == [i \in 1..4 |-> IF i <= Len(s) THEN s[i] ELSE cells[i]]

ReadHeader ==
    LET k == Lesser(Len(piece.bytes), need)
        s == SubSeq(piece.bytes, 1, k)
        missing == 4 - need
        complete == need <= Len(piece.bytes)
    IN
    /\ fault = "none" /\ reading /\ piece.bytes # <<>> /\ status = "header"
    /\ header' = IF missing = 0 THEN Overwritten(header, s) ELSE header
    /\ processVfd' = IF missing = 1 THEN IntOfBytes(Overwritten(BytesOfInt(piece.vfd), s))
                     ELSE piece.vfd
    /\ fault' = IF missing > 1 THEN "wild_pointer" ELSE fault     \* _VfdBuf is overwritten
    /\ status' = IF complete THEN "body" ELSE "header"
    /\ IF complete THEN need' \in IntsOf(header') ELSE need' = need - k
    /\ split' = (split \/ ~complete)
    /\ piece' = Left(k)
    /\ UNCHANGED <<sent, wire, reading, buf, handed>>

\* Mutant: a body is taken for complete one byte early.
ReadBodyEarly ==
    LET k == Lesser(Len(piece.bytes), need)
        complete == need <= Len(piece.bytes) + 1
    IN
    /\ fault = "none" /\ reading /\ piece.bytes # <<>> /\ status = "body"
    /\ piece.vfd = processVfd /\ need >= 0
    /\ buf' \in Inserted(buf, SubSeq(piece.bytes, 1, k))
    /\ fault' = buf'.fault
    /\ status' = IF complete THEN "header" ELSE "body"
    /\ need' = IF complete THEN 4 ELSE need - k
    /\ processVfd' = IF complete THEN -1 ELSE processVfd
    /\ handed' = IF complete THEN Append(handed, Contents(buf')) ELSE handed
    /\ piece' = Left(k)
    /\ UNCHANGED <<sent, wire, reading, header, split>>

\* A body of negative length is copied as a huge one.
ReadBody ==
    LET k == Lesser(Len(piece.bytes), need)
        complete == need <= Len(piece.bytes)
    IN
    /\ fault = "none" /\ reading /\ piece.bytes # <<>> /\ status = "body"
    /\ IF piece.vfd # processVfd \/ need < 0
       THEN /\ fault' = IF piece.vfd # processVfd THEN "assert_vfd" ELSE "negative"
            /\ UNCHANGED <<piece, object, handed>>
       ELSE /\ buf' \in Inserted(buf, SubSeq(piece.bytes, 1, k))
            /\ fault' = IF buf'.fault = "none" /\ GetBufLen(buf') # GetBufLen(buf) + k
                        THEN "assert_len" ELSE buf'.fault
            /\ status' = IF complete THEN "header" ELSE "body"
            /\ need' = IF complete THEN 4 ELSE need - k
            /\ processVfd' = IF complete THEN -1 ELSE processVfd
            /\ handed' = IF complete /\ fault' = "none" THEN Append(handed, Contents(buf'))
                         ELSE handed
            /\ piece' = Left(k)
            /\ UNCHANGED header
    /\ UNCHANGED <<sent, wire, reading, split>>

Next ==
    \/ \E v \in Vfd, msg \in Messages : WriteData(v, msg)
    \/ \E v \in Vfd : \E n \in 1..Len(wire[v]) : ReadData(v, n)
    \/ ReadHeader \/ ReadBody \/ ReturnFromReadData

Spec == Init /\ [][Next]_vars
-----------------------------------------------------------------------------
TypeOK ==
    /\ sent \in Seq(Messages) /\ wire \in [Vfd -> Seq(Byte)]
    /\ piece.bytes \in Seq(Byte) /\ reading \in BOOLEAN
    /\ status \in {"header", "body"} /\ need \in Int
    /\ header \in [1..4 -> Byte \cup {Junk}] /\ processVfd \in Int
    /\ buf \in Buffer /\ handed \in Seq(Seq(Byte \cup {Junk})) /\ split \in BOOLEAN
    /\ fault \in {"none", "assert_vfd", "assert_len", "negative", "wild_pointer", "null_write",
                  "endless_loop", "bad_realloc", "abort"}

\* The bodies of the first n messages, one behind the other.
Bodies(msgs) ==
    LET upto[n \in 0..Len(msgs)] == IF n = 0 THEN <<>> ELSE upto[n - 1] \o msgs[n]
    IN  upto

(* However a descriptor's stream is cut, as long as no header is cut and   *)
(* only one descriptor is read from, each end of a body is seen where the  *)
(* sender put it; as the buffer is never emptied (ReadOnceData looks at it *)
(* with GetBufHead only), it then holds all bodies so far.                 *)
BodiesInOrder ==
    ~split /\ Cardinality(Vfd) = 1 /\ Sound(buf) =>
        /\ Len(handed) <= Len(sent)
        /\ \A n \in 1..Len(handed) : handed[n] = Bodies(sent)[n]
=============================================================================
