----------------------------- MODULE ByteQueue -----------------------------
(***************************************************************************)
(* What a receive buffer promises its user: a first-in first-out queue of  *)
(* bytes.  Once the promise is broken (memory ran out, or the buffer wrote *)
(* outside its memory) nothing more is said about the contents.            *)
(***************************************************************************)
EXTENDS Integers, Sequences

VARIABLES
    q,          \* the bytes inserted and not yet taken, oldest first
    io,         \* the last call: "put" or "get", and the bytes it passed
    kept        \* TRUE as long as the promise is kept

vars == <<q, io, kept>>

Init == q = <<>> /\ io = [call |-> "new", data |-> <<>>] /\ kept \in BOOLEAN

\* The bytes passed in go behind the old ones, all of them and in order.
Put == io'.call = "put" /\ q' = q \o io'.data

\* The bytes handed out are the oldest ones, in order.
Get == io'.call = "get" /\ q = io'.data \o q'

Next ==
    \/ kept /\ kept' /\ (Put \/ Get)
    \/ ~kept' /\ q' = <<>>      \* broken, and never whole again

Spec == Init /\ [][Next]_vars
=============================================================================
