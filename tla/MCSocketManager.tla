-------------------------- MODULE MCSocketManager --------------------------
EXTENDS SocketManager, TLC

\* Connections are alike, and so are addresses.
Alike == Permutations(Conn) \cup Permutations(Addr)

\* No step and no property looks at a connection that had a descriptor and has none any
\* more: states that differ only there are one.
Looked ==
    <<file, [c \in Conn |-> IF Attached(c) \/ net[c].st \in {"none", "backlog"}
                            THEN net[c] ELSE None],
      proc, base, bev, obj, maps, told, misrouted, foreign>>
=============================================================================
