---------------------------- MODULE ProtoManager ----------------------------
(***************************************************************************)
(* Two processes, "client" and "server" (cur_char), each with one          *)
(* proto_manager (protocol/protocol.cpp).  Scripts add and update          *)
(* protocols from description files, call the functions that this puts     *)
(* into the table for_caller, and have calls of the other side run the     *)
(* functions of the table for_maker.  Calls travel in order and whole.     *)
(*                                                                         *)
(* A description file is a record                                          *)
(*   path     "c" or "s" for a file named c_... or s_..., else "bad"       *)
(*   loads    the file can be read and run                                 *)
(*   func     the function's name (of the path, or its func_name)          *)
(*   args     its arg_list: formats, or a format with type "bad" (not a    *)
(*            table, unknown type, impossible size), "null" (an array of   *)
(*            an unknown type, on which the constructor fails) or          *)
(*            "untyped" (no string for its type: luaL_checkstring raises)  *)
(*   listed   it has an arg_list                                           *)
(***************************************************************************)
EXTENDS NetProtocol, FiniteSets

CONSTANTS
    Files,          \* description files
    Addr, None,     \* addresses of net_protocol objects; NULL
    MaxToNetd,      \* MAXTONETD, the size of the buffer of pack()
    HasDefault,     \* the scripts define construc_default_rpcfunc
    Started,        \* the sides that run
    Calls,          \* the values passed in calls: sequences of Lua values
    MaxProtos,      \* bound: the protocols of a manager, the default one included
    MaxInFlight     \* bound: calls under way

Side == {"client", "server"}
Other(s) == IF s = "client" THEN "server" ELSE "client"
Func == {f.func : f \in Files}
Value == UNION {{vals[i] : i \in 1..Len(vals)} : vals \in Calls}

ASSUME ManagerAssumption ==
    /\ None \notin Addr /\ MaxToNetd \in Nat \ {0, 1, 2} /\ HasDefault \in BOOLEAN
    /\ Started \subseteq Side /\ MaxProtos \in Nat \ {0} /\ MaxInFlight \in Nat
    /\ \A f \in Files : f.path \in {"c", "s", "bad"} /\ f.loads \in BOOLEAN /\ f.listed \in BOOLEAN
    /\ Calls \subseteq Seq(Value) /\ \A v \in Value : IsValue(v)

VARIABLES
    status,     \* "up", or how the process ended
    obj,        \* the net_protocol objects: [live, id, file, maker, ref, args]
    protos,     \* _s_protos: addresses, the one of id i at place i + 1
    forCaller,  \* for each function the object its closure is bound to
    forMaker,   \* the functions the scripts of a side implement
    chan,       \* the calls under way to a side; a call is stale if its closure
                \* was bound to an earlier object at the same address
    done        \* history: the call the last step handled, and whether its id stood for
                \* the same file at both ends

vars == <<status, obj, protos, forCaller, forMaker, chan, done>>

NoFile == [path |-> "bad", loads |-> FALSE, func |-> "", args |-> <<>>, listed |-> FALSE]
Fresh(id) == [live |-> TRUE, id |-> id, file |-> NoFile, maker |-> FALSE,
              ref |-> FALSE, args |-> <<>>]

\* What was in a deleted object is gone.
Deleted == [Fresh(0) EXCEPT !.live = FALSE]

Nothing == [result |-> "none"]

Init ==
    /\ status = [s \in Side |-> IF s \in Started THEN "up" ELSE "down"]
    /\ \E a \in Addr :
          /\ obj = [s \in Side |-> [x \in Addr |-> IF x = a THEN Fresh(0) ELSE Deleted]]
          /\ protos = [s \in Side |-> <<a>>]
    /\ forCaller = [s \in Side |-> [f \in Func |-> None]]
    /\ forMaker = [s \in Side |-> {}]
    /\ chan = [s \in Side |-> <<>>]
    /\ done = Nothing

-----------------------------------------------------------------------------
(* net_protocol::load                                                      *)

IsMaker(s, file) == s = IF file.path = "c" THEN "client" ELSE "server"

\* func_proc succeeds for a caller, and for a maker that has a function to bind.
FuncProc(s, file) == IsMaker(s, file) => file.func \in forMaker[s] \/ HasDefault

\* The arguments arglist_proc takes before it meets one that it refuses.
GoodArgs(args) ==
    LET bad == {i \in 1..Len(args) : args[i].type \in {"bad", "null", "untyped"}}
        n == IF bad = {} THEN Len(args) ELSE (CHOOSE i \in bad : \A j \in bad : i <= j) - 1
    IN  SubSeq(args, 1, n)

\* Mutant: arguments that are refused are kept.
LoadAllArgs(s, id, file) ==
    LET bound == file.path # "bad" /\ file.loads /\ FuncProc(s, file)
        maker == file.path # "bad" /\ IsMaker(s, file)
    IN  [obj |-> [live |-> TRUE, id |-> id, file |-> file, maker |-> maker,
                  ref |-> bound /\ maker, args |-> IF bound THEN file.args ELSE <<>>],
         ok |-> bound /\ file.listed, closure |-> bound /\ ~maker,
         died |-> FALSE, raised |-> FALSE]

\* The object after load() of file, whether it succeeded, whether a closure was bound
\* to it, and whether the process died of a null pointer or load() was left by a Lua
\* error, which the script that called it catches.
Load(s, id, file) ==
    LET begun == file.path # "bad" /\ file.loads
        bound == begun /\ FuncProc(s, file)
        good == GoodArgs(file.args)
        maker == file.path # "bad" /\ IsMaker(s, file)
        listed == bound /\ file.listed
        Refuses(type) ==
            listed /\ good # file.args /\ file.args[Len(good) + 1].type = type
    IN  [obj |-> [live |-> TRUE, id |-> id, file |-> file, maker |-> maker,
                  ref |-> bound /\ maker, args |-> IF listed THEN good ELSE <<>>],
         ok |-> listed /\ good = file.args,
         closure |-> bound /\ ~maker,
         died |-> Refuses("null"),
         raised |-> Refuses("untyped")]

Bind(s, l, file, a) ==
    forCaller' = IF l.closure THEN [forCaller EXCEPT ![s][file.func] = a] ELSE forCaller

Ended(s, how) == status' = [status EXCEPT ![s] = how]
-----------------------------------------------------------------------------
(* add_protocol (and add_static_protocol, which only counts).  An object   *)
(* whose load failed, or was left, is neither kept nor deleted.            *)
AddProtocol(s, file) ==
    /\ status[s] = "up" /\ Len(protos[s]) < MaxProtos
    /\ \E a \in {x \in Addr : ~obj[s][x].live} :
         LET l == Load(s, Len(protos[s]), file) IN
         /\ obj' = [obj EXCEPT ![s][a] = l.obj]
         /\ Bind(s, l, file, a)
         /\ protos' = IF l.ok THEN [protos EXCEPT ![s] = Append(@, a)] ELSE protos
         /\ IF l.died THEN Ended(s, "null_arg") ELSE UNCHANGED status
    /\ done' = Nothing
    /\ UNCHANGED <<forMaker, chan>>

\* Mutant: the old protocol is deleted before the new one is known to load.
UpdateProtocolEager(s, id, file) ==
    /\ status[s] = "up" /\ id < Len(protos[s])
    /\ \E a \in {x \in Addr : ~obj[s][x].live} :
         LET l == Load(s, id, file)
             old == protos[s][id + 1]
         IN
         /\ obj' = [obj EXCEPT ![s][a] = IF l.ok THEN l.obj ELSE Deleted, ![s][old] = Deleted]
         /\ Bind(s, l, file, a)
         /\ protos' = IF l.ok THEN [protos EXCEPT ![s][id + 1] = a] ELSE protos
         /\ IF l.died THEN Ended(s, "null_arg") ELSE UNCHANGED status
    /\ done' = Nothing
    /\ UNCHANGED <<forMaker, chan>>

(* update_protocol.  The new object is deleted if load returned an error,  *)
(* and lost if a Lua error left load.                                      *)
UpdateProtocol(s, id, file) ==
    /\ status[s] = "up" /\ id < Len(protos[s])
    /\ \E a \in {x \in Addr : ~obj[s][x].live} :
         LET l == Load(s, id, file)
             old == protos[s][id + 1]
         IN
         /\ obj' = IF l.ok THEN [obj EXCEPT ![s][a] = l.obj, ![s][old] = Deleted]
                   ELSE IF l.raised THEN [obj EXCEPT ![s][a] = l.obj] ELSE obj
         /\ Bind(s, l, file, a)
         /\ protos' = IF l.ok THEN [protos EXCEPT ![s][id + 1] = a] ELSE protos
         /\ IF l.died THEN Ended(s, "null_arg") ELSE UNCHANGED status
    /\ done' = Nothing
    /\ UNCHANGED <<forMaker, chan>>

\* A script defines the functions of for_maker.
DefineFuncs(s) ==
    /\ status[s] = "up" /\ forMaker[s] # Func
    /\ forMaker' = [forMaker EXCEPT ![s] = Func]
    /\ done' = Nothing
    /\ UNCHANGED <<status, obj, protos, forCaller, chan>>

-----------------------------------------------------------------------------
(* Calls.                                                                  *)

\* pack(), called as for_caller.func(vfd, ...) or for_caller.func({vfds}, ...); n is
\* the number of descriptors that follow the message, 0 for a single one.
PackCall(s, func, vals, n) ==
    LET a == forCaller[s][func]
        o == obj[s][a]
        p == Marshal(o.id, o.args, vals, MaxToNetd)
        sent == p.bytes # <<>> /\ (n > 0 => MaxToNetd - Len(p.bytes) >= SizeofInt)
        call == [bytes |-> p.bytes, id |-> o.id, file |-> o.file, vals |-> vals,
                 stale |-> o.maker \/ o.file.func # func]
    IN
    /\ status[s] = "up" /\ a # None /\ Len(chan[Other(s)]) < MaxInFlight
    /\ IF ~o.live THEN Ended(s, "used_freed") /\ UNCHANGED chan
       ELSE IF o.id = 0 THEN Ended(s, "assert_id") /\ UNCHANGED chan
       ELSE /\ UNCHANGED status
            /\ chan' = IF sent THEN [chan EXCEPT ![Other(s)] = Append(@, call)] ELSE chan
    /\ done' = Nothing
    /\ UNCHANGED <<obj, protos, forCaller, forMaker>>

\* unpack_data() and unpack(): the function is called, or an error returned.
UnpackData(s) ==
    /\ status[s] = "up" /\ chan[s] # <<>>
    /\ LET m == Head(chan[s])
           head == ReadId(m.bytes)
           known == head.len > 0 /\ head.id < Len(protos[s])
           o == obj[s][protos[s][head.id + 1]]
           u == UnpackArgs(o.args, SubSeq(m.bytes, head.len + 1, Len(m.bytes)))
           ran == known /\ o.ref /\ ~u.failed
       IN  done' = [result |-> IF ran THEN "ran" ELSE "format_error", call |-> m,
                    same |-> /\ m.id < Len(protos[s])
                             /\ obj[s][protos[s][m.id + 1]].file = m.file,
                    func |-> IF ran THEN o.file.func ELSE "",
                    vals |-> IF ran THEN u.vals ELSE <<>>]
    /\ chan' = [chan EXCEPT ![s] = Tail(@)]
    /\ UNCHANGED <<status, obj, protos, forCaller, forMaker>>

Next ==
    \E s \in Side :
        \/ DefineFuncs(s) \/ UnpackData(s)
        \/ \E file \in Files : \/ AddProtocol(s, file)
                               \/ \E id \in 0..(MaxProtos - 1) : UpdateProtocol(s, id, file)
        \/ \E func \in Func, vals \in Calls, n \in {0, 1} : PackCall(s, func, vals, n)

Spec == Init /\ [][Next]_vars
-----------------------------------------------------------------------------
Objects ==
    [live : BOOLEAN, id : 0..MaxProtos, file : Files \cup {NoFile}, maker : BOOLEAN,
     ref : BOOLEAN, args : {NoFile.args} \cup {GoodArgs(f.args) : f \in Files}]

TypeOK ==
    /\ status \in [Side -> {"up", "down", "null_arg", "used_freed", "assert_id"}]
    /\ obj \in [Side -> [Addr -> Objects]]
    /\ protos \in [Side -> Seq(Addr)]
    /\ forCaller \in [Side -> [Func -> Addr \cup {None}]]
    /\ forMaker \in [Side -> SUBSET Func]
    /\ DOMAIN chan = Side

(* The table of protocols is sound after every add and update, failed ones *)
(* included (add_protocol, update_protocol, load): every entry is an       *)
(* object that has not been deleted, its id is its place, no two entries   *)
(* share an object, and entries other than the default one have all their  *)
(* arguments and, on the maker's side, a function.                         *)
RegistrySound ==
    \A s \in Side : \A i \in 1..Len(protos[s]) :
        LET o == obj[s][protos[s][i]] IN
        /\ o.live /\ o.id = i - 1
        /\ o.file # NoFile => o.args = o.file.args /\ (o.maker => o.ref)
        /\ i > 1 => o.file # NoFile
        /\ \A j \in 1..Len(protos[s]) : protos[s][i] = protos[s][j] => i = j

(* A call whose id stands for the same file at both ends runs that file's  *)
(* function, with the values passed if the formats can carry them, however *)
(* protocols were added and updated on either side before (pack, marshal,  *)
(* unpack_data, unpack).  A closure left over from a deleted protocol (see *)
(* NeverUsesDeleted) may find another protocol in its place.               *)
CallsArrive ==
    done # Nothing /\ done.same /\ ~done.call.stale =>
        /\ done.result = "ran" /\ done.func = done.call.file.func
        /\ LET args == done.call.file.args
               vals == SubSeq(done.call.vals, 1, Len(args))
           IN  CarriesAll(args, vals) => done.vals = vals

(* "The upvalue binds the protocol's format data to the pack function"     *)
(* (protocol.cpp:250, "用upvalue将协议格式数据绑定到打包函数"): a call     *)
(* never uses the data of a protocol that was deleted.                     *)
NeverUsesDeleted == \A s \in Side : status[s] # "used_freed"
=============================================================================
