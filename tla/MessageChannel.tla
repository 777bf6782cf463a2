--------------------------- MODULE MessageChannel ---------------------------
(***************************************************************************)
(* What a connection promises its two users: every message taken at one    *)
(* end is the oldest one put in at the other and not yet taken.  Once the  *)
(* promise is broken (the receiver ran out of memory, or the seed was      *)
(* lost) nothing more is said about the messages.                          *)
(***************************************************************************)
EXTENDS Integers, Sequences

CONSTANT Message

VARIABLES
    sent,       \* the messages put in, oldest first
    got,        \* the messages taken out, oldest first
    kept        \* TRUE as long as the promise is kept

vars == <<sent, got, kept>>

Init == sent = <<>> /\ got = <<>> /\ kept \in BOOLEAN

Put == (\E m \in Message : sent' = Append(sent, m)) /\ got' = got

Take ==
    /\ Len(got) < Len(sent)
    /\ got' = Append(got, sent[Len(got) + 1])
    /\ sent' = sent

Next ==
    \/ kept /\ kept' /\ (Put \/ Take)
    \/ ~kept'                   \* broken, and never whole again

Spec == Init /\ [][Next]_vars
=============================================================================
