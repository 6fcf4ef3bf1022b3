------------------------------ MODULE MCExecutor ------------------------------
(***************************************************************************)
(* Instances of Executor: who calls what.                                  *)
(***************************************************************************)
EXTENDS Executor

CONSTANTS u1, u2, cb        \* two callers, and an observer that calls back

By(a, b, c) == (u1 :> a) @@ (u2 :> b) @@ (cb :> c)

MCUsers == {u1, u2, cb}

MCScenarios ==
    {\* reads of a caller and of an observer, one of them after Close
     Scenario(By(<<"line", "snapshot">>, <<"close">>, <<"snapshot">>), 1, FALSE, FALSE),
     \* a shell is running, and a request under way, when the user quits
     Scenario(By(<<"shell", "stage">>, <<"quit">>, <<>>), 0, FALSE, FALSE),
     \* the context is cancelled
     Scenario(By(<<"resolve">>, <<"shell">>, <<>>), 1, TRUE, FALSE),
     \* the interface ends while the user quits
     Scenario(By(<<"quit">>, <<"snapshot">>, <<>>), 0, FALSE, TRUE),
     \* nothing but events
     Scenario(By(<<>>, <<>>, <<>>), 2, TRUE, FALSE)}

==============================================================================
