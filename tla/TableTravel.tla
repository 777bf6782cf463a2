---------------------------- MODULE TableTravel ----------------------------
(***************************************************************************)
(* fcall_table_arg::_travel_table (protocol/data_format.cpp): from a       *)
(* sample table to the opcodes of a format.  A sample is a sequence of     *)
(* fields [key, type, sub] in the order of lua_next; type is a scalar      *)
(* format, "bad" for an unknown one, or "table" with the fields sub.  Keys *)
(* are numbers or strings (the code asserts it).                           *)
(***************************************************************************)
EXTENDS TableFormat, SequencesExt

CONSTANT MaxTableDeep   \* max_table_deep (10)

ASSUME DeepAssumption == MaxTableDeep \in Nat \ {0}

RECURSIVE Travel(_, _), Tables(_), Kept(_, _), CarriesTable(_, _)

\* st is [deep, ops], _cur_table_deep and _opcodes; deep only ever grows.
Travel(fields, st) ==
    LET Push(s, op) == [s EXCEPT !.ops = Append(@, op)]
        Step(s, field) ==
            CASE field.type = "table" -> Travel(field.sub, Push(s, Op("tb_begin", field.key, "")))
              [] field.type = "bad" -> s
              [] OTHER -> Push(s, Op("push_value", field.key, field.type))
        deeper == [st EXCEPT !.deep = @ + 1]
    IN  IF deeper.deep > MaxTableDeep THEN deeper
        ELSE Push(FoldLeft(Step, deeper, fields), Op("tb_end", "", ""))

\* _read_format
ReadFormat(fields) == Travel(fields, [deep |-> 0, ops |-> <<>>]).ops

-----------------------------------------------------------------------------
(* What a table format promises.                                           *)

\* The number of tables of a sample.
Tables(fields) ==
    LET Step(n, field) == IF field.type = "table" THEN n + Tables(field.sub) ELSE n
    IN  FoldLeft(Step, 1, fields)

Known(fields) == {i \in 1..Len(fields) : fields[i].type # "bad"}

\* What is kept of a table: the fields that the sample has.
Kept(fields, v) ==
    LET At(k) == CHOOSE i \in Known(fields) : fields[i].key = k
    IN  Struct([k \in {fields[i].key : i \in Known(fields)} |->
                  IF fields[At(k)].type = "table" THEN Kept(fields[At(k)].sub, v.f[k])
                  ELSE v.f[k]])

CarriesTable(fields, v) ==
    /\ v.t = "table"
    /\ \A i \in Known(fields) :
          /\ fields[i].key \in DOMAIN v.f
          /\ IF fields[i].type = "table" THEN CarriesTable(fields[i].sub, v.f[fields[i].key])
             ELSE Carries(fields[i].type, v.f[fields[i].key])
=============================================================================
