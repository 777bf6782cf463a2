---------------------------- MODULE MCRemoteCall ----------------------------
(* Bytes of ten values: ints are -5000..4999, strings of more than 8 and   *)
(* arrays of more than 9 elements need, or break, the long forms.          *)
EXTENDS RemoteCall, MCLua, TLC

Single == {Scalar(type) : type \in {"number", "byte", "word", "dword", "string"}}
          \cup {Array("byte", 0), Array("number", 2), Array("string", 0)}
Mixed == {<<Scalar("number"), Scalar("string")>>, <<Array("byte", 0), Scalar("word")>>}
Leaf(key, type) == [key |-> key, type |-> type, sub |-> <<>>]
Sub(key, fields) == [key |-> key, type |-> "table", sub |-> fields]
N == Leaf("n", "number")
S == Leaf("s", "string")

\* At most three tables are allowed: Deep has three, nested; Wide has four, side by side.
Flat == <<Leaf("x", "bad"), N, S>>
Nested == <<N, Sub("t", <<>>), Sub("u", Flat), S>>
Deep == <<Sub("t", <<Sub("u", <<S>>), N>>), S>>
Wide == <<S, Sub("t", <<N>>), Sub("u", <<N>>), Sub("v", <<N>>)>>
TableArg(sample) == [type |-> "table", sample |-> sample]
Tabled == {<<TableArg(sample)>> : sample \in {Flat, Nested, Deep, Wide}}
          \cup {<<TableArg(Wide), Scalar("byte")>>, <<TableArg(Deep), Scalar("byte")>>}

AllFormats == {<<>>} \cup {<<arg>> : arg \in Single} \cup Mixed \cup Tabled

Ones(n) == [i \in 1..n |-> 1]
Pair(n, s) == "n" :> Number(n) @@ "s" :> String(s)
Structs(n, s) ==
    LET f == Pair(n, s)
        flat == Struct(f)
    IN  {flat, Struct(f @@ "t" :> EmptyTable @@ "u" :> flat),
         Struct("t" :> Struct("u" :> flat @@ f) @@ f),
         Struct(f @@ "t" :> flat @@ "u" :> flat @@ "v" :> flat)}

Numbers == {0, 9, 10, 49, 50, 99, 100, 999, 1000, 4999, 5000, -1, -10, -50, -1000, -5000}
AllValues ==
    {Number(n) : n \in Numbers} \cup {String(Ones(n)) : n \in {0, 1, 8, 9, 98, 99}}
    \cup {Table([i \in 1..n |-> Number(i % 7)]) : n \in {0, 1, 2, 9, 10, 21}}
    \cup {Table(<<Number(99), Number(-100)>>), Table(<<String(<<>>), String(Ones(9))>>),
          Table(<<String(<<1>>), Number(1)>>), Nil}
    \cup Structs(12, <<1>>) \cup Structs(-7, Ones(9))
=============================================================================
