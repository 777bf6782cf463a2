---------------------------- MODULE MyBufProofs ----------------------------
(***************************************************************************)
(* MyBuf for every capacity, every int size and every input: the pointers  *)
(* stay in order, realloc is only ever given the start of the block, the   *)
(* block never shrinks, and until memory runs out or is overrun the buffer *)
(* is a queue of bytes.                                                    *)
(***************************************************************************)
EXTENDS MyBuf, MyBufOpsProofs

\* Leaves are for Zenon; the ones with arithmetic or functions cite SMT.
USE WordAssumption, BufAssumption, InputAssumption, ZenonT(30)

-----------------------------------------------------------------------------
(* From one buffer to the specification.                                   *)

(* What InsertData is given is a sequence of bytes.                        *)
LEMMA InputsAreSeqs == Inputs \subseteq Seq(Byte)
  BY SMTT(30) DEF Inputs

(* The constructor leaves a buffer that satisfies the invariant, whether   *)
(* or not malloc failed.                                                   *)
LEMMA InitInv == Init => BufInv(buf) /\ TypeOK
<1> SUFFICES ASSUME Init PROVE BufInv(buf) /\ TypeOK
  OBVIOUS
<1>1. PICK null \in BOOLEAN :
        buf = [bufsize |-> BufSize, alloc |-> IF null THEN 0 ELSE BufSize,
               null |-> null, mem |-> NoBytes, head |-> 0, tail |-> 0,
               failed |-> null, overrun |-> FALSE, fault |-> "none"]
  BY DEF Init, NewBuf
<1>2. NoBytes \in [Cells -> Byte \cup {Junk}]
  BY DEF NoBytes
<1>3. buf \in Buffer
  BY <1>1, <1>2, SMTT(30) DEF Buffer
<1>4. BufInv(buf)
  BY <1>1, <1>3, SMTT(30) DEF BufInv, Sound
<1>5. QED
  BY <1>3, <1>4, SMTT(30) DEF Init, TypeOK

(* What one step of the specification does to the invariant, to the block  *)
(* and to the queue.                                                       *)
LEMMA StepInv ==
    ASSUME BufInv(buf), TypeOK, Next
    PROVE  /\ BufInv(buf)' /\ TypeOK'
           /\ buf.alloc <= buf'.alloc \/ buf'.null
           /\ Sound(buf') => Sound(buf) /\ (\/ /\ io'.call = "put"
                                              /\ Contents(buf') = Contents(buf) \o io'.data
                                           \/ /\ io'.call = "get"
                                              /\ Contents(buf) = io'.data \o Contents(buf'))
<1>0. buf.alloc \in Int
  BY SMTT(30) DEF BufInv, Buffer
<1>1. ASSUME NEW s \in Inputs, InsertData(s)
      PROVE  /\ BufInv(buf)' /\ TypeOK'
             /\ buf.alloc <= buf'.alloc \/ buf'.null
             /\ Sound(buf') => Sound(buf) /\ Contents(buf') = Contents(buf) \o io'.data
             /\ io'.call = "put"
  <2>1. s \in Seq(Byte) /\ s \in Seq(Byte \cup {Junk})
    BY InputsAreSeqs, SeqMonotonic
  <2>2. io' = [call |-> "put", data |-> s] /\ buf' \in Inserted(buf, s)
    BY <1>1 DEF InsertData
  <2>3. /\ BufInv(buf') /\ (buf.alloc <= buf'.alloc \/ buf'.null)
        /\ Sound(buf') => Sound(buf) /\ Contents(buf') = Contents(buf) \o s
    BY <1>1, <2>1, <2>2, InsertedAppends DEF InsertData, Running
  <2>4. io'.call = "put" /\ io'.data = s
    BY <2>2
  <2>5. TypeOK'
    BY <2>1, <2>2, <2>3 DEF TypeOK, BufInv
  <2>6. QED
    BY <2>3, <2>4, <2>5
<1>2. ASSUME NEW n \in 0..MaxInput, GetBufData(n)
      PROVE  /\ BufInv(buf)' /\ TypeOK'
             /\ buf.alloc <= buf'.alloc \/ buf'.null
             /\ Sound(buf') => Sound(buf) /\ Contents(buf) = io'.data \o Contents(buf')
             /\ io'.call = "get"
  <2> DEFINE out == SubSeq(Contents(buf), 1, RealLen(buf, n))
  <2>1. n \in Nat /\ io' = [call |-> "get", data |-> out]
    BY <1>2, SMTT(30) DEF GetBufData
  <2>2. out \in Seq(Byte \cup {Junk})
    <3>1. /\ Contents(buf) \in Seq(Byte \cup {Junk})
          /\ Len(Contents(buf)) = buf.tail - buf.head
      BY ContentsIsSeq
    <3>2. RealLen(buf, n) \in 0..Len(Contents(buf))
      BY <2>1, <3>1, SMTT(30) DEF RealLen, GetBufLen, BufInv, Buffer
    <3>3. QED
      BY <3>1, <3>2, SMTT(30)
  <2>3. io'.call = "get" /\ io'.data = out
    BY <2>1
  <2>4. CASE buf' = [buf EXCEPT !.fault = "null_read"]
    <3>1. BufInv(buf') /\ ~Sound(buf') /\ buf'.alloc = buf.alloc
      BY <2>4, FaultInv
    <3>2. QED
      BY <1>0, <2>1, <2>2, <2>3, <3>1, SMTT(30) DEF TypeOK, BufInv
  <2>5. CASE buf' = Drained(buf, n)
    <3>1. /\ BufInv(buf') /\ buf'.alloc = buf.alloc /\ Sound(buf') = Sound(buf)
          /\ Contents(buf) = out \o Contents(buf')
      BY <2>1, <2>5, DrainedTakes
    <3>2. TypeOK'
      BY <2>1, <2>2, <3>1 DEF TypeOK, BufInv
    <3>3. buf.alloc <= buf'.alloc
      BY <1>0, <3>1, SMTT(30)
    <3>4. QED
      BY <2>3, <3>1, <3>2, <3>3
  <2>6. QED
    BY <1>2, <2>4, <2>5 DEF GetBufData
<1>3. QED
  BY <1>1, <1>2 DEF Next
-----------------------------------------------------------------------------
(* The inductive invariant: the buffer's own, and the type of io.          *)
Inv == BufInv(buf) /\ TypeOK

(* BufInv holds of the object after every sequence of calls, including     *)
(* calls during which malloc or realloc failed.                            *)
THEOREM Invariance == Spec => []Inv
<1>1. Init => Inv
  BY InitInv DEF Inv
<1>2. Inv /\ [Next]_vars => Inv'
  <2> SUFFICES ASSUME Inv, [Next]_vars PROVE Inv'
    OBVIOUS
  <2>1. CASE Next
    BY <2>1, StepInv DEF Inv
  <2>2. CASE UNCHANGED vars
    BY <2>2 DEF Inv, BufInv, TypeOK, vars, Sound
  <2>3. QED
    BY <2>1, <2>2
<1>3. QED
  BY <1>1, <1>2, PTL DEF Spec

(* Every call leaves a well-formed object.                                 *)
THEOREM TypeCorrect == Spec => []TypeOK
<1>1. Inv => TypeOK
  BY DEF Inv
<1>2. QED
  BY <1>1, Invariance, PTL

(* _Buf <= _Head <= _Tail <= _Buf + _BufSize after every call.             *)
THEOREM PointersStayInOrder == Spec => []PointersInOrder
<1>1. Inv => PointersInOrder
  BY SMTT(30) DEF Inv, BufInv, Buffer, PointersInOrder
<1>2. QED
  BY <1>1, Invariance, PTL

(* realloc(_Head, ...) is only ever given the start of the block.          *)
THEOREM ReallocIsOfBlockStart == Spec => []ReallocOfBlockStart
<1>1. Inv => ReallocOfBlockStart
  BY DEF Inv, BufInv, ReallocOfBlockStart
<1>2. QED
  BY <1>1, Invariance, PTL

(* The block InsertData reallocates never gets smaller.                    *)
THEOREM BlockNeverShrinks == Spec => NeverShrinks
<1>1. Inv /\ [Next]_vars => [buf.alloc <= buf'.alloc \/ buf'.null]_vars
  BY StepInv DEF Inv
<1>2. QED
  BY <1>1, Invariance, PTL DEF Spec, NeverShrinks

(* The bytes GetBufData hands out are the bytes InsertData was given, in   *)
(* order, none lost and none twice, until memory runs out or is overrun.   *)
THEOREM ImplementsQueue == Spec => QueueSpec
<1>1. Init => Queue!Init
  <2> SUFFICES ASSUME Init PROVE Queue!Init
    OBVIOUS
  <2>1. BufInv(buf) /\ buf.tail = 0 /\ buf.head = 0
    BY InitInv, SMTT(30) DEF Init, NewBuf
  <2>2. Contents(buf) = <<>>
    BY <2>1, ContentsIsSeq, SMTT(30)
  <2>3. Sound(buf) \in BOOLEAN
    BY <2>1 DEF Sound, BufInv, Buffer
  <2>4. QED
    BY <2>2, <2>3 DEF Queue!Init, Init
<1>2. Inv /\ [Next]_vars => [Queue!Next]_(Queue!vars)
  <2> SUFFICES ASSUME Inv, [Next]_vars PROVE [Queue!Next]_(Queue!vars)
    OBVIOUS
  <2>1. CASE Next
    <3>1. CASE Sound(buf')
      BY <2>1, <3>1, StepInv DEF Inv, Queue!Next, Queue!Put, Queue!Get
    <3>2. CASE ~Sound(buf')
      BY <3>2 DEF Queue!Next
    <3>3. QED
      BY <3>1, <3>2
  <2>2. CASE UNCHANGED vars
    BY <2>2 DEF vars, Queue!vars, Sound, Contents, GetBufLen
  <2>3. QED
    BY <2>1, <2>2
<1>3. QED
  BY <1>1, <1>2, Invariance, PTL DEF Spec, QueueSpec, Queue!Spec
=============================================================================
