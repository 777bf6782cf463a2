---------------------------- MODULE PacketStream ----------------------------
(***************************************************************************)
(* One direction of a connection: a clsPacketEncrypt at one end, a         *)
(* clsPacketDecrypt at the other (encrypt/packet_process.cpp), and a byte  *)
(* stream between them that hands over what was written in pieces of any   *)
(* size.  A packet ("bag") is an int, its length, and that many bytes;     *)
(* bags are encrypted one behind the other as one stream.                  *)
(*                                                                         *)
(* The sender is a process of its own.  The receiver is single-threaded:   *)
(* DecryptPacket decrypts and buffers a piece and then runs the loop of    *)
(* BagProcess to its return before anything else is read.                  *)
(***************************************************************************)
EXTENDS MyBufOps, SimpleXOR

CONSTANTS
    Seeds,      \* the values of random() considered
    RecvBlock,  \* the most bytes OnRead passes on at once (RECV_BLOCK_SIZE)
    MaxMsgs,    \* bound: the messages sent
    MaxMsgLen   \* bound: the length of a message

ASSUME StreamAssumption ==
    /\ Seeds \subseteq 0..(IntValues \div 2 - 1)
    /\ RecvBlock \in Nat \ {0}
    /\ MaxMsgs \in Nat
    /\ MaxMsgLen \in 0..(IntValues \div 2 - 1)

VARIABLES
    \* the sender
    enc,        \* its SimpleXOR
    sent,       \* the messages given to EncryptPacket
    plain,      \* history: the bytes of all bags, before encryption
    ends,       \* history: Len(plain) after each message
    \* the connection
    wire,       \* the bytes written and not yet read
    \* the receiver
    dec,        \* its SimpleXOR
    buf,        \* _DecryptBuf
    bagFlag,    \* _BagFlag: the length of the next bag is known ...
    bagLen,     \* _BagLen: ... and is this
    got,        \* the bags BagProcess has handed on
    pc,         \* "bags" inside the loop of BagProcess, else "idle"
    rcvd,       \* history: the number of decrypted bytes
    dropped     \* history: bytes of the seed were dropped

senderVars == <<enc, sent, plain, ends>>
vars == <<senderVars, wire, dec, buf, bagFlag, bagLen, got, pc, rcvd, dropped>>

Messages == UNION {[1..n -> Byte] : n \in 0..MaxMsgLen}

Init ==
    /\ enc = NewCipher /\ sent = <<>> /\ plain = <<>> /\ ends = <<>>
    /\ wire = <<>>
    /\ dec = NewCipher /\ buf \in NewBuf /\ bagFlag = FALSE /\ bagLen = 0
    /\ got = <<>> /\ pc = "idle" /\ rcvd = 0 /\ dropped = FALSE

-----------------------------------------------------------------------------
(* The sender: WriteData of the packet interfaces calls EncryptPacket and  *)
(* writes the result to the connection.                                    *)

Bag(msg) == BytesOfInt(Len(msg)) \o msg

WriteData(msg, random) ==
    /\ Len(sent) < MaxMsgs
    /\ LET e == Encrypt(enc, Bag(msg), random)
       IN  enc' = e.cipher /\ wire' = wire \o e.out
    /\ sent' = Append(sent, msg)
    /\ plain' = plain \o Bag(msg)
    /\ ends' = Append(ends, Len(plain'))
    /\ UNCHANGED <<dec, buf, bagFlag, bagLen, got, pc, rcvd, dropped>>

-----------------------------------------------------------------------------
(* The receiver.  After a fault its process is gone, or loops for ever.    *)

Alive == buf.fault = "none"

\* A piece of n bytes arrives.
DecryptPacket(n) ==
    /\ Alive /\ pc = "idle"
    /\ LET d == Decrypt(dec, SubSeq(wire, 1, n))
       IN  /\ dec' = d.cipher
           /\ buf' \in IF Len(d.out) > 0 THEN Inserted(buf, d.out) ELSE {buf}
           /\ rcvd' = rcvd + Len(d.out)
           /\ dropped' = (dropped \/ ~d.cipher.seeded)
    /\ wire' = SubSeq(wire, n + 1, Len(wire))
    /\ pc' = "bags"
    /\ UNCHANGED <<senderVars, bagFlag, bagLen, got>>

\* What reading memory yields: bytes never properly written can be anything.
Reads(s) == {t \in [1..Len(s) -> Byte] : \A i \in 1..Len(s) : s[i] \in {Junk, t[i]}}

\* GetBufData by a caller that looks at the n bytes it asked for.
Taken(n) ==
    IF buf.null /\ n > 0 THEN [buf EXCEPT !.fault = "null_read"] ELSE Drained(buf, n)

TakeLength ==
    /\ Alive /\ pc = "bags"
    /\ ~bagFlag /\ ~(GetBufLen(buf) < 4)
    /\ \E head \in Reads(SubSeq(Contents(buf), 1, 4)) :
          bagLen' = Unsigned(IntOfBytes(head))
    /\ bagFlag' = TRUE
    /\ buf' = Taken(4)
    /\ UNCHANGED <<senderVars, wire, dec, got, pc, rcvd, dropped>>

\* Mutant: the loop waits for a byte more than the bag has.
TakeBagLate ==
    /\ Alive /\ pc = "bags"
    /\ bagFlag /\ GetBufLen(buf) > bagLen
    /\ \E bag \in Reads(SubSeq(Contents(buf), 1, bagLen)) : got' = Append(got, bag)
    /\ bagFlag' = FALSE
    /\ buf' = Taken(bagLen)
    /\ UNCHANGED <<senderVars, wire, dec, bagLen, pc, rcvd, dropped>>

\* Mutant: _BagFlag stays set, so the length of the next bag is taken for its bytes.
TakeBagForEver ==
    /\ Alive /\ pc = "bags"
    /\ bagFlag /\ ~(GetBufLen(buf) < bagLen)
    /\ \E bag \in Reads(SubSeq(Contents(buf), 1, bagLen)) : got' = Append(got, bag)
    /\ buf' = Taken(bagLen)
    /\ UNCHANGED <<senderVars, wire, dec, bagFlag, bagLen, pc, rcvd, dropped>>

TakeBag ==
    /\ Alive /\ pc = "bags"
    /\ bagFlag /\ ~(GetBufLen(buf) < bagLen)
    /\ \E bag \in Reads(SubSeq(Contents(buf), 1, bagLen)) : got' = Append(got, bag)
    /\ bagFlag' = FALSE
    /\ buf' = Taken(bagLen)
    /\ UNCHANGED <<senderVars, wire, dec, bagLen, pc, rcvd, dropped>>

Return ==
    /\ Alive /\ pc = "bags"
    /\ GetBufLen(buf) < IF bagFlag THEN bagLen ELSE 4
    /\ pc' = "idle"
    /\ UNCHANGED <<senderVars, wire, dec, buf, bagFlag, bagLen, got, rcvd, dropped>>

BagProcess == TakeLength \/ TakeBag \/ Return

-----------------------------------------------------------------------------
Send == \E msg \in Messages : \E random \in IF enc.seeded THEN {0} ELSE Seeds :
            WriteData(msg, random)

Receive == \E n \in 1..RecvBlock : n <= Len(wire) /\ DecryptPacket(n)

Next == Send \/ Receive \/ BagProcess

Spec == Init /\ [][Next]_vars

\* The event loop goes on reading while there are bytes, and BagProcess goes on
\* until it returns.
FairSpec == Spec /\ WF_vars(Receive) /\ WF_vars(BagProcess)
-----------------------------------------------------------------------------
TypeOK ==
    /\ enc \in Ciphers /\ dec \in Ciphers /\ buf \in Buffer
    /\ sent \in Seq(Seq(Byte)) /\ got \in Seq(Seq(Byte))
    /\ plain \in Seq(Byte) /\ ends \in Seq(Nat) /\ wire \in Seq(Byte)
    /\ bagFlag \in BOOLEAN /\ bagLen \in Nat /\ pc \in {"idle", "bags"}
    /\ rcvd \in Nat /\ dropped \in BOOLEAN

\* Nothing has gone wrong that the code has no answer to.
Healthy == Sound(buf) /\ ~dropped

(* However the stream is cut into pieces, and however the sender's writes  *)
(* interleave with the receiver's reads, what BagProcess hands on is what  *)
(* EncryptPacket was given: the same messages, in order, none twice.       *)
DeliveredPrefix == Healthy => got = SubSeq(sent, 1, Len(got)) /\ Len(got) <= Len(sent)

Channel == INSTANCE MessageChannel WITH Message <- Messages, kept <- Healthy

(* Step by step, the encrypted stream is a channel of messages: a call of  *)
(* EncryptPacket puts one in, BagProcess takes the next one out, and no    *)
(* other step of the two ends or of the wire (a piece of any size read, a  *)
(* length taken, the loop left) changes what the channel holds.  A broken  *)
(* channel (no memory, a lost seed) is never whole again.                  *)
ChannelSpec == Channel!Spec

Consumed == (IF got = <<>> THEN 0 ELSE ends[Len(got)]) + (IF bagFlag THEN 4 ELSE 0)

(* The two ciphers and the buffer keep step (Encrypt, Decrypt, InsertData, *)
(* BagProcess): the receiver's next key byte is the one its next byte was  *)
(* encrypted with, the buffer holds exactly the bytes decrypted and not    *)
(* yet used, and the length BagProcess waits for is the next message's.    *)
InStep ==
    Healthy =>
        /\ Contents(buf) = SubSeq(plain, Consumed + 1, rcvd)
        /\ bagFlag => bagLen = Len(sent[Len(got) + 1])
        /\ dec.seeded => /\ dec.dic = enc.dic
                         /\ (dec.dic_i + Len(wire)) % DicSize = enc.dic_i

(* BagProcess leaves less than one bag behind, so the buffer never has to  *)
(* hold more than that and one block, and InsertData doubles it no further *)
(* than needed for that.                                                   *)
BufferStaysSmall ==
    LET most == RecvBlock + (IF MaxMsgLen > 4 THEN MaxMsgLen ELSE 4) - 1
    IN  Healthy => /\ GetBufLen(buf) <= most
                   /\ buf.bufsize = BufSize \/ buf.bufsize < 2 * most

(* Every message sent is handed on in the end, as long as nothing is lost: *)
(* the loop of BagProcess does not leave a complete bag waiting for bytes  *)
(* that need not come.                                                     *)
AllArrive ==
    \A k \in 1..MaxMsgs : Len(sent) >= k ~> Len(got) >= k \/ ~Healthy

(* The receiver decrypts with the sender's seed: the sender puts "the seed *)
(* in the first bytes" and the receiver takes it from there                *)
(* (encrypt.h:56, "//如果没有，则把种子放在前几位，然后取后续内容").       *)
SeedsAgree == dec.seeded => dec.dic = enc.dic
=============================================================================
