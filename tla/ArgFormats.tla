----------------------------- MODULE ArgFormats -----------------------------
(***************************************************************************)
(* How arguments of remote calls become bytes and back                     *)
(* (protocol/data_format.cpp).  The limits of the code, 0xff, 0xffff, 512, *)
(* are the ones of a byte with Base values.                                *)
(*                                                                         *)
(* A format is a record [type, base, size]: type is "number", "byte",      *)
(* "word", "dword", "string" or "array"; an array has a base type and a    *)
(* size, 0 if the length is sent along.  A Lua value is a record with a    *)
(* type t: numbers [t, n], strings [t, s], nil, and tables [t, a, f] with  *)
(* a sequence a of elements and a function f on other keys.                *)
(*                                                                         *)
(* pack() writes into a buffer with room for a number of bytes and returns *)
(* how many it used, 0 on failure; it may also raise a Lua error.  Here it *)
(* yields [raised, bytes], bytes being empty on failure.  unpack() yields  *)
(* [len, vals], how many bytes it used, 0 on failure, and the values that  *)
(* it leaves on the Lua stack.                                             *)
(***************************************************************************)
EXTENDS Words

CONSTANTS
    Number2Int(_),  \* lua_number2int: what a Lua number is as an int
    NumberText(_)   \* luaL_checklstring: what a Lua number is as a string

MinInt32 == -(IntValues \div 2)
MaxInt32 == IntValues \div 2 - 1

\* The byte in front of a number, [is_negative : 1, len : 7], needs nine values.
ASSUME FormatAssumption ==
    /\ Base >= 10
    /\ \A n \in MinInt32..MaxInt32 : Number2Int(n) = n /\ NumberText(n) \in Seq(Byte)

Number(n) == [t |-> "number", n |-> n]
String(s) == [t |-> "string", s |-> s]
Table(a) == [t |-> "table", a |-> a, f |-> [k \in {} |-> 0]]
Struct(f) == [t |-> "table", a |-> <<>>, f |-> f]
EmptyTable == Table(<<>>)
Nil == [t |-> "nil"]

\* What a script may pass: a number that lua_number2int makes an int, a string of
\* bytes, nil or a table.
IsValue(v) ==
    \/ /\ v.t = "number" /\ v = Number(v.n)
       /\ Number2Int(v.n) \in MinInt32..MaxInt32 /\ NumberText(v.n) \in Seq(Byte)
    \/ v.t = "string" /\ v = String(v.s) /\ v.s \in Seq(Byte)
    \/ v.t \in {"nil", "table"}

Raised == [raised |-> TRUE, bytes |-> <<>>]
Packed(bytes) == [raised |-> FALSE, bytes |-> bytes]
Failed == Packed(<<>>)
Read(len, v) == [len |-> len, vals |-> <<v>>]
NotRead == [len |-> 0, vals |-> <<>>]

\* Packing one after the other into the room that is left, up to the first failure.
Begun(bytes) == [raised |-> FALSE, failed |-> FALSE, bytes |-> bytes]
MorePacked(st, p) ==
    IF st.raised \/ st.failed THEN st
    ELSE [raised |-> p.raised, failed |-> p.bytes = <<>>, bytes |-> st.bytes \o p.bytes]
Outcome(st) == IF st.raised THEN Raised ELSE IF st.failed THEN Failed ELSE Packed(st.bytes)

\* Unpacking one after the other, up to the first failure.
MoreRead(st, u) ==
    IF st.failed THEN st
    ELSE [failed |-> u.len = 0, len |-> st.len + u.len, vals |-> st.vals \o u.vals]
From(buf, n) == SubSeq(buf, n + 1, Len(buf))

\* check_buf, then the copying.
CheckBuf(bytes, room) == IF Len(bytes) > room THEN Failed ELSE Packed(bytes)

\* memcpy of the first k bytes of an int, and of k bytes into an int set to zero.
LowBytes(n, k) == SubSeq(BytesOfInt(n), 1, k)
OfLowBytes(s, k) == IntOfBytes([i \in 1..SizeofInt |-> IF i <= k THEN s[i] ELSE 0])

-----------------------------------------------------------------------------
(* Numbers.                                                                *)

\* Mutant: the length is chosen one value too late.
NumberLenLate(data) ==
    IF data <= Base THEN 1 ELSE IF data <= Base * Base THEN 2
    ELSE IF data <= Base * Base * Base THEN 3 ELSE 4

\* The bytes number_type.len says a number needs; data is unsigned.
NumberLen(data) ==
    IF data <= Base - 1 THEN 1
    ELSE IF data <= Base * Base - 1 THEN 2
    ELSE IF data <= Base * Base * Base - 1 THEN 3 ELSE 4

PackNumber(num, room) ==
    LET negative == num < 0
        data == Unsigned(IF negative THEN -num ELSE num)
        len == NumberLen(data)
        header == len * 2 + (IF negative THEN 1 ELSE 0)
    IN  CheckBuf(<<header>> \o LowBytes(data, len), room)

UnpackNumber(buf) ==
    IF 1 > Len(buf) THEN NotRead ELSE
    LET len == buf[1] \div 2
        data == OfLowBytes(Tail(buf), len)
    IN  IF len <= 0 \/ len >= 5 \/ 1 + len > Len(buf) THEN NotRead
        ELSE Read(1 + len, Number(IF buf[1] % 2 = 1 THEN Wrapped(-data) ELSE data))

\* byte, word and dword: the low bytes of the int.
Width(type) == CASE type = "byte" -> 1 [] type = "word" -> 2 [] type = "dword" -> 4

PackFixed(type, num, room) == CheckBuf(LowBytes(num, Width(type)), room)

\* A byte is read as unsigned, a word as a short and a dword as an int.
UnpackFixed(type, buf) ==
    LET k == Width(type) IN
    IF k > Len(buf) THEN NotRead ELSE
    LET u == OfLowBytes(buf, k)
        short == IF u >= (Base * Base + 1) \div 2 THEN u - Base * Base ELSE u
    IN  Read(k, Number(IF type = "word" THEN short ELSE u))

-----------------------------------------------------------------------------
(* Strings: the length plus one in a byte, or a zero byte and the length   *)
(* plus one in two bytes.                                                  *)

\* Mutant: there is no long form.
PackStringShort(s, room) == CheckBuf(<<Len(s) + 1>> \o s, room)

PackString(s, room) ==
    LET str_id == Len(s) + 1 IN
    IF str_id <= Base - 1 THEN CheckBuf(<<str_id>> \o s, room)
    ELSE IF str_id <= Base * Base - 1 THEN CheckBuf(<<0>> \o LowBytes(str_id, 2) \o s, room)
    ELSE Failed

\* Mutant: a long string that is cut short is taken as far as it goes.
UnpackStringCut(buf) ==
    IF 1 > Len(buf) THEN NotRead
    ELSE IF buf[1] > 0
    THEN IF buf[1] > Len(buf) THEN NotRead
         ELSE Read(buf[1], String(SubSeq(buf, 2, buf[1])))
    ELSE IF 3 > Len(buf) THEN NotRead
    ELSE Read(Len(buf), String(SubSeq(buf, 4, Len(buf))))

UnpackString(buf) ==
    IF 1 > Len(buf) THEN NotRead
    ELSE IF buf[1] > 0
    THEN IF buf[1] > Len(buf) THEN NotRead
         ELSE Read(buf[1], String(SubSeq(buf, 2, buf[1])))
    ELSE IF 3 > Len(buf) THEN NotRead ELSE
    LET str_len == buf[2] + buf[3] * Base - 1 IN
    IF str_len < 0 \/ 3 + str_len > Len(buf) THEN NotRead
    ELSE Read(3 + str_len, String(SubSeq(buf, 4, 3 + str_len)))

-----------------------------------------------------------------------------
\* luaL_checklstring takes a number for its text; luaL_checktype takes no string.
PackScalar(type, v, room) ==
    CASE type = "string" /\ v.t = "string" -> PackString(v.s, room)
      [] type = "string" /\ v.t = "number" -> PackString(NumberText(v.n), room)
      [] type = "number" /\ v.t = "number" -> PackNumber(Number2Int(v.n), room)
      [] type \in {"byte", "word", "dword"} /\ v.t = "number" ->
             PackFixed(type, Number2Int(v.n), room)
      [] OTHER -> Raised

UnpackScalar(type, buf) ==
    CASE type = "string" -> UnpackString(buf)
      [] type = "number" -> UnpackNumber(buf)
      [] OTHER -> UnpackFixed(type, buf)

(* Arrays: the length in a byte unless it is fixed, then the elements.     *)

MaxArray == 2 * Base

ArrayLen(size, v) == IF size = 0 THEN Len(v.a) ELSE size
ArrayHead(size, v) == IF size = 0 THEN <<Len(v.a) % Base>> ELSE <<>>
Elem(v, i) == IF i <= Len(v.a) THEN v.a[i] ELSE Nil

\* Mutant: every element is offered the whole room.
PackArrayUnbounded(base, size, v, room) ==
    LET packed[n \in 0..ArrayLen(size, v)] ==
            IF n = 0 THEN Begun(ArrayHead(size, v))
            ELSE MorePacked(packed[n - 1], PackScalar(base, Elem(v, n), room))
    IN  IF v.t # "table" THEN Raised
        ELSE IF Len(ArrayHead(size, v)) > room \/ ArrayLen(size, v) > MaxArray THEN Failed
        ELSE Outcome(packed[ArrayLen(size, v)])

PackArray(base, size, v, room) ==
    LET packed[n \in 0..ArrayLen(size, v)] ==
            IF n = 0 THEN Begun(ArrayHead(size, v))
            ELSE LET st == packed[n - 1]
                 IN  MorePacked(st, PackScalar(base, Elem(v, n), room - Len(st.bytes)))
    IN  IF v.t # "table" THEN Raised
        ELSE IF Len(ArrayHead(size, v)) > room \/ ArrayLen(size, v) > MaxArray THEN Failed
        ELSE Outcome(packed[ArrayLen(size, v)])

\* The array that was read, if all its elements were.
ArrayOf(st) == IF st.failed THEN NotRead ELSE Read(st.len, Table(st.vals))

UnpackArray(base, size, buf) ==
    LET start == [failed |-> FALSE, len |-> IF size = 0 THEN 1 ELSE 0, vals |-> <<>>]
        count == IF size = 0 THEN buf[1] ELSE size
        read[n \in 0..count] ==
            IF n = 0 THEN start
            ELSE LET st == read[n - 1]
                 IN  MoreRead(st, UnpackScalar(base, From(buf, st.len)))
    IN  IF size = 0 /\ 1 > Len(buf) THEN NotRead ELSE ArrayOf(read[count])

-----------------------------------------------------------------------------
\* The values a scalar format carries unchanged.
Carries(type, v) ==
    CASE type = "string" -> v.t = "string" /\ Len(v.s) <= Base * Base - 2
      [] type = "byte" -> v.t = "number" /\ v.n \in Byte
      [] type = "word" -> /\ v.t = "number"
                          /\ v.n \in -((Base * Base) \div 2)..((Base * Base + 1) \div 2 - 1)
      [] OTHER -> v.t = "number" /\ v.n \in MinInt32..MaxInt32
=============================================================================
