---------------------------- MODULE TableFormat ----------------------------
(***************************************************************************)
(* fcall_table_arg::pack and unpack (protocol/data_format.cpp): tables of  *)
(* one shape are packed and unpacked by running through a list of opcodes  *)
(* [op, key, type] with the open tables on the Lua stack.  Fields are      *)
(* scalars or tables.                                                      *)
(***************************************************************************)
EXTENDS ArgFormats

Get(v, key) == IF key \in DOMAIN v.f THEN v.f[key] ELSE Nil
With(v, key, x) == Struct([k \in DOMAIN v.f \cup {key} |-> IF k = key THEN x ELSE v.f[k]])

Op(op, key, type) == [op |-> op, key |-> key, type |-> type]

Field(st, op) == Get(st.stack[Len(st.stack)], op.key)

\* One opcode of pack(): the open tables, and the bytes so far.
PackOp(st, op, room) ==
    CASE st.out.raised \/ st.out.failed -> st
      [] op.op = "tb_begin" -> IF Field(st, op).t = "table"
                               THEN [st EXCEPT !.stack = Append(@, Field(st, op))]
                               ELSE [st EXCEPT !.out.raised = TRUE]
      [] op.op = "push_value" ->
            [st EXCEPT !.out = MorePacked(@, PackScalar(op.type, Field(st, op),
                                                        room - Len(@.bytes)))]
      [] op.op = "tb_end" -> [st EXCEPT !.stack = SubSeq(@, 1, Len(@) - 1)]

PackTable(ops, v, room) ==
    LET run[n \in 0..Len(ops)] ==
            IF n = 0 THEN [stack |-> <<v>>, out |-> Begun(<<>>)]
            ELSE PackOp(run[n - 1], ops[n], room)
    IN  IF v.t # "table" THEN Raised ELSE Outcome(run[Len(ops)].out)

\* lua_settable(L, -3): the topmost value goes, by the key below it, into the table
\* below that.
SetTable(stack, n) ==
    Append(SubSeq(stack, 1, n - 3), With(stack[n - 2], stack[n - 1], stack[n]))

PushValue(st, op, u) ==
    IF u.len = 0 THEN [st EXCEPT !.failed = TRUE]
    ELSE [st EXCEPT !.len = @ + u.len,
                    !.vals = SetTable(@ \o <<op.key>> \o u.vals, Len(@) + 2)]

\* One opcode of unpack().
UnpackOp(st, op, buf) ==
    CASE st.failed -> st
      [] op.op = "tb_begin" -> [st EXCEPT !.vals = @ \o <<op.key, EmptyTable>>]
      [] op.op = "push_value" -> PushValue(st, op, UnpackScalar(op.type, From(buf, st.len)))
      [] op.op = "tb_end" -> [st EXCEPT !.vals = SetTable(@, Len(@))]

\* What is left on the stack, if no field failed.
Unpacked(st) == IF st.failed THEN NotRead ELSE [len |-> st.len, vals |-> st.vals]

\* The last tb_end is left out.
UnpackTable(ops, buf) ==
    LET run[n \in 0..(Len(ops) - 1)] ==
            IF n = 0 THEN [failed |-> FALSE, len |-> 0, vals |-> <<EmptyTable>>]
            ELSE UnpackOp(run[n - 1], ops[n], buf)
    IN  Unpacked(run[Len(ops) - 1])

-----------------------------------------------------------------------------
(* Arguments of any format; a table's has its opcodes in ops.              *)

Pack(arg, v, room) ==
    CASE arg.type = "table" -> PackTable(arg.ops, v, room)
      [] arg.type = "array" -> PackArray(arg.base, arg.size, v, room)
      [] OTHER -> PackScalar(arg.type, v, room)

Unpack(arg, buf) ==
    CASE arg.type = "table" -> UnpackTable(arg.ops, buf)
      [] arg.type = "array" -> UnpackArray(arg.base, arg.size, buf)
      [] OTHER -> UnpackScalar(arg.type, buf)
=============================================================================
