---------------------------- MODULE NetProtocol ----------------------------
(***************************************************************************)
(* The messages of a net_protocol (protocol/protocol.cpp): the protocol's  *)
(* id and the packed arguments, written by marshal() into a buffer of      *)
(* MAXTONETD bytes, and read by unpack_data() and unpack().                *)
(***************************************************************************)
EXTENDS TableFormat

\* Mutant: ids are counted from one.
IdBytesFromOne(id) == LowBytes(id + 1, 1)

IdBytes(id) == IF id < Base THEN LowBytes(id, 1) ELSE <<0>> \o LowBytes(id, 2)

\* An argument that was not passed is nil to lua_type and the like.
Passed(vals, i) == IF i <= Len(vals) THEN vals[i] ELSE Nil

\* The loop of marshal(): what is packed after n arguments.
Packing(id, args, vals, room) ==
    LET packed[n \in 0..Len(args)] ==
            IF n = 0 THEN Begun(IdBytes(id))
            ELSE LET st == packed[n - 1]
                 IN  MorePacked(st, Pack(args[n], Passed(vals, n), room - Len(st.bytes)))
    IN  packed

\* marshal(): the id, then as many arguments as the format has, whatever else is
\* passed.  It fails, without bytes, as soon as one argument does.
Marshal(id, args, vals, room) ==
    Outcome(Packing(id, args, vals, room)[Len(args)])

\* The id in front of a message, and its length; no length if it is cut short.
ReadId(buf) ==
    IF 1 > Len(buf) THEN [len |-> 0, id |-> 0]
    ELSE IF buf[1] # 0 THEN [len |-> 1, id |-> buf[1]]
    ELSE IF 3 > Len(buf) THEN [len |-> 0, id |-> 0]
    ELSE [len |-> 3, id |-> buf[2] + buf[3] * Base]

\* The loop of unpack(): what is read after n arguments.
Unpacking(args, buf) ==
    LET read[n \in 0..Len(args)] ==
            IF n = 0 THEN [failed |-> FALSE, len |-> 0, vals |-> <<>>]
            ELSE LET st == read[n - 1]
                 IN  MoreRead(st, Unpack(args[n], From(buf, st.len)))
    IN  read

\* The arguments found, or failed.
UnpackArgs(args, buf) == Unpacking(args, buf)[Len(args)]

-----------------------------------------------------------------------------
(* What the formats promise.                                               *)

CarriesArg(arg, v) ==
    IF arg.type # "array" THEN Carries(arg.type, v)
    ELSE /\ v.t = "table" /\ DOMAIN v.f = {}
         /\ Len(v.a) \in IF arg.size = 0 THEN 0..(Base - 1) ELSE {arg.size}
         /\ \A i \in 1..Len(v.a) : Carries(arg.base, v.a[i])

CarriesAll(args, vals) ==
    Len(vals) = Len(args) /\ \A i \in 1..Len(args) : CarriesArg(args[i], vals[i])
=============================================================================
