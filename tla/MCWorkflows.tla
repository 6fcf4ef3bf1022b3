----------------------------- MODULE MCWorkflows -----------------------------
(* Workflows instantiated for TLC. *)
EXTENDS Workflows

CONSTANTS ada, bob

Pair == <<ada, bob>>

BothIdle    == <<"idle", "idle">>
BothWorking == <<"working", "working">>
AdaWorking  == <<"working", "idle">>
BobWorking  == <<"idle", "working">>

Silent == {FALSE}
Spoken == {TRUE}

\* A broadcast waits for busy participants, or for one that is starting, and
\* is interrupted or edited; it reaches some of those it was for.
Broadcasts ==
    {Scenario(<<Staged(Broadcast), Interrupts>>, BobWorking, 0, FALSE, FALSE, Silent),
     Scenario(<<Staged(Broadcast), Edit>>, <<"starting", "idle">>, 0, FALSE, FALSE, Silent),
     Scenario(<<Staged(Broadcast), Discard>>, BobWorking, 0, TRUE, FALSE, Silent),
     Scenario(<<Removal(bob), Shell, Staged(Broadcast)>>, BothIdle, 0, FALSE, FALSE, Silent)}

\* A send with a notice to the other; an agent crashes.
Sends ==
    {Scenario(<<Staged(Send(ada))>>, first, 1, FALSE, TRUE, Silent) :
        first \in {AdaWorking, BobWorking}}

\* Handoffs: of a busy participant that leaves output or none, and of one that
\* a loop gives another turn.
Handoffs ==
    {Scenario(<<Staged(Handoff(ada, bob)), Interrupts>>, AdaWorking, 0, TRUE, FALSE, BOOLEAN),
     Scenario(<<Staged(Handoff(ada, bob))>>, BobWorking, 0, FALSE, FALSE, BOOLEAN),
     Scenario(<<Loop(ada), Staged(Handoff(ada, bob))>>, BothIdle, 0, FALSE, FALSE, Spoken)}

\* A loop beside other commands, loops that are refused, and one that gives a
\* participant work while a stage waits for the other.
Loops ==
    {Scenario(<<Loop(ada), Removal(ada)>>, BothIdle, 0, FALSE, FALSE, Silent),
     Scenario(<<Loop(ada), Loop(bob)>>, BothIdle, 1, TRUE, FALSE, Silent),
     Scenario(<<Loop(ada), Staged(Send(bob))>>, BobWorking, 0, FALSE, FALSE, Silent)}

\* One loop and nothing else.
OneLoop == {Scenario(<<Loop(ada)>>, BothIdle, 0, FALSE, FALSE, Silent)}

\* Commands: defined and not, session commands, and an alias invited again.
Commands ==
    {Undefined(Scenario(<<Line("invoke"), Line("def"), Line("def"), Line("invoke"), Line("who")>>,
                        BothIdle, 0, FALSE, FALSE, Silent)),
     Undefined(Scenario(<<Loop(ada), Line("help"), Line("invalid"), CancelOf(bob)>>,
                        AdaWorking, 0, TRUE, FALSE, Silent)),
     Scenario(<<Policy, Staged(Send(ada))>>, BobWorking, 0, FALSE, FALSE, Silent),
     Scenario(<<Removal(bob), Invite(bob), Staged(Broadcast)>>, BothIdle, 0, FALSE, FALSE,
              Silent)}

\* A broadcast that waits for two turns and is interrupted.
TwoTurns == {Scenario(<<Staged(Broadcast), Interrupts>>, BothWorking, 0, FALSE, FALSE, Silent)}

Everything == Broadcasts \cup Sends \cup Handoffs \cup Loops \cup Commands
=============================================================================
