------------------------------ MODULE MCSession ------------------------------
(* Session instantiated for TLC. *)
EXTENDS Session, TLC

CONSTANTS ada, bob

Pair == {ada, bob}
Solo == {ada}

\* Everything a user can do, and everything but broadcasts to recipients that
\* were frozen earlier.
EveryCommand == {"invite", "remove", "send", "handoff", "broadcast",
                 "frozenBroadcast", "shutdown"}
AllCommands  == EveryCommand \ {"frozenBroadcast"}

\* A conversation: nobody is removed and the session goes on.
TalkCommands == {"invite", "send"}

\* The aliases are interchangeable.
AliasSymmetry == Permutations(Pair)
=============================================================================
