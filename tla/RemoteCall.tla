----------------------------- MODULE RemoteCall -----------------------------
(***************************************************************************)
(* One remote call: marshal() at the caller and unpack_data() at a maker   *)
(* that has the same format under the same id.  The maker may be handed    *)
(* the message whole, with another one behind it, or cut short.            *)
(***************************************************************************)
EXTENDS NetProtocol, TableTravel

CONSTANTS
    Ids,        \* protocol ids
    Formats,    \* argument formats: sequences of formats
    Values,     \* Lua values to pass
    Rooms       \* sizes of the buffer (MAXTONETD)

ASSUME CallAssumption == Ids \subseteq 1..(Base^2 - 1) /\ Rooms \subseteq Nat \ {0, 1, 2}

VARIABLES
    pc,         \* "load", "call", "sent", "failed", "raised" or "done"
    call,       \* the call: [id, args, vals]
    loaded,     \* its formats as both ends have loaded them: tables have opcodes
    room,       \* the size of the buffer
    msg,        \* what marshal() wrote
    buf,        \* what unpack_data() is given
    found       \* what it makes of it: [id, len, vals], len being 0 on failure

vars == <<pc, call, loaded, room, msg, buf, found>>

Nothing == [id |-> 0, len |-> 0, vals |-> <<>>]

Init ==
    /\ pc = "load" /\ loaded = <<>> /\ msg = <<>> /\ buf = <<>> /\ found = Nothing
    /\ room \in Rooms
    /\ \E id \in Ids, args \in Formats : \E vals \in [1..Len(args) -> Values] :
          call = [id |-> id, args |-> args, vals |-> vals]

LoadFormats ==
    /\ pc = "load" /\ pc' = "call"
    /\ loaded' = [i \in 1..Len(call.args) |->
                    LET arg == call.args[i] IN
                    IF arg.type # "table" THEN arg
                    ELSE [type |-> "table", ops |-> ReadFormat(arg.sample)]]
    /\ UNCHANGED <<call, room, msg, buf, found>>

Call ==
    /\ pc = "call"
    /\ LET p == Marshal(call.id, loaded, call.vals, room)
       IN  /\ msg' = p.bytes
           /\ pc' = IF p.raised THEN "raised" ELSE IF p.bytes = <<>> THEN "failed" ELSE "sent"
    /\ UNCHANGED <<call, loaded, room, buf, found>>

Arrive ==
    /\ pc = "sent" /\ buf = <<>>
    /\ buf' \in {SubSeq(msg, 1, n) : n \in 1..Len(msg)} \cup {msg \o msg}
    /\ UNCHANGED <<pc, call, loaded, room, msg, found>>

UnpackData ==
    /\ pc = "sent" /\ buf # <<>>
    /\ LET head == ReadId(buf)
           u == UnpackArgs(loaded, SubSeq(buf, head.len + 1, Len(buf)))
       IN  found' = IF head.len = 0 \/ head.id # call.id \/ u.failed THEN Nothing
                    ELSE [id |-> head.id, len |-> head.len + u.len, vals |-> u.vals]
    /\ pc' = "done"
    /\ UNCHANGED <<call, loaded, room, msg, buf>>

Next == LoadFormats \/ Call \/ Arrive \/ UnpackData

Spec == Init /\ [][Next]_vars
-----------------------------------------------------------------------------
TypeOK ==
    /\ pc \in {"load", "call", "sent", "failed", "raised", "done"}
    /\ room \in Rooms /\ call.id \in Ids /\ call.args \in Formats
    /\ msg \in Seq(Byte) /\ buf \in Seq(Byte)
    /\ found.len \in Nat /\ found.id \in Nat

\* A table format carries tables if it has no more than max_table_deep of them.
Carried(arg, v) ==
    IF arg.type = "table" THEN Tables(arg.sample) <= MaxTableDeep /\ CarriesTable(arg.sample, v)
    ELSE CarriesArg(arg, v)

(* A call whose values the formats can carry arrives as it was made: same  *)
(* id, same values (of a table, the fields of its format, nested ones      *)
(* included), nothing else on the stack, and the length unpack_data        *)
(* returns is that of the message even if another follows (marshal,        *)
(* _travel_table, and pack and unpack of every format).                    *)
RoundTrip ==
    /\ pc = "done" /\ Len(buf) >= Len(msg)
    /\ \A i \in 1..Len(call.args) : Carried(call.args[i], call.vals[i])
    => found = [id |-> call.id, len |-> Len(msg),
                vals |-> [i \in 1..Len(call.args) |->
                            IF call.args[i].type = "table"
                            THEN Kept(call.args[i].sample, call.vals[i]) ELSE call.vals[i]]]

NoLongArrays ==
    \A i \in 1..Len(call.args) :
        call.args[i].type = "array" /\ call.args[i].size = 0 => Len(call.vals[i].a) <= Base - 1

(* A message that is cut short is refused, never taken for a call with     *)
(* other values (check_buf in every unpack), even if its values are not    *)
(* carried whole, as long as the length of an array fits its byte.         *)
CutIsRefused ==
    pc = "done" /\ NoLongArrays /\ Len(buf) < Len(msg) => found = Nothing

(* marshal() stays inside its buffer of MAXTONETD bytes whatever is passed *)
(* (the remaining length given to every pack).                             *)
StaysInBuffer == Len(msg) <= room
=============================================================================
