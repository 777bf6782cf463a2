------------------------------- MODULE MCLua -------------------------------
(* Lua's conversions of numbers, for bytes of ten values, and formats.     *)
EXTENDS ArgFormats

\* (int)d as x86-64 converts it.
Cast(n) == IF n \in MinInt32..MaxInt32 THEN n ELSE MinInt32

\* The text of a number: a byte for each digit, and one for the sign.
Text(n) ==
    LET a == IF n < 0 THEN -n ELSE n
        k == CHOOSE j \in 1..6 : a < 10^j /\ \A i \in 1..(j - 1) : a >= 10^i
        digits == [i \in 1..k |-> (a \div 10^(k - i)) % 10]
    IN  IF n < 0 THEN <<9>> \o digits ELSE digits

Scalar(type) == [type |-> type, base |-> type, size |-> 0]
Array(base, size) == [type |-> "array", base |-> base, size |-> size]
=============================================================================
