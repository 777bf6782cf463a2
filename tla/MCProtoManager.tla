--------------------------- MODULE MCProtoManager ---------------------------
EXTENDS ProtoManager, MCLua, TLC

File(path, func, args) ==
    [path |-> path, loads |-> TRUE, func |-> func, args |-> args, listed |-> TRUE]

ServerFile == File("s", "f", <<Scalar("number")>>)
NewerFile == File("s", "f", <<Scalar("byte"), Scalar("string")>>)
BadArgs == File("s", "h", <<Scalar("number"), Scalar("bad")>>)
Untyped == File("s", "h", <<Scalar("number"), Scalar("untyped")>>)

\* A file and its new version, one whose load fails after its function was stored, and
\* one whose load is left by a Lua error then.
GoodAndBad == {ServerFile, NewerFile, BadArgs, Untyped}
OneBad == {ServerFile, BadArgs}

OneCall == {<<Number(7), String(<<1>>)>>}

Alike == Permutations(Addr)

\* What was left in an object that neither a table nor a closure refers to is never read
\* again: states that differ in it alone behave alike.
Kept(s, a) ==
    IF a \in {protos[s][i] : i \in 1..Len(protos[s])} \cup {forCaller[s][f] : f \in Func}
    THEN obj[s][a]
    ELSE [Fresh(0) EXCEPT !.live = obj[s][a].live]

Reached ==
    <<status, [s \in Side |-> [a \in Addr |-> Kept(s, a)]],
      protos, forCaller, forMaker, chan, done>>
=============================================================================
