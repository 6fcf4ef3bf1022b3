----------------------------- MODULE ApprovalDesk -----------------------------
(***************************************************************************)
(* What the approval hub of a session promises: requests for a decision    *)
(* wait in the order they were made, only the oldest is decided, each is   *)
(* decided at most once, and a requester hears the decision of its own     *)
(* request or that the request was cancelled.                              *)
(***************************************************************************)
EXTENDS Naturals

CONSTANTS Requests, Answers, NoAnswer

VARIABLES
    asked,     \* how many requests were made
    waiting,   \* the undecided requests
    verdict,   \* request -> the decision made, NoAnswer before
    told       \* request -> what its requester learnt

desk == <<asked, waiting, verdict, told>>

DeskInit ==
    /\ asked = 0
    /\ waiting = {}
    /\ verdict = [r \in Requests |-> NoAnswer]
    /\ told = [r \in Requests |-> "nothing"]

Ask(r) ==
    /\ r = asked + 1
    /\ told[r] = "nothing"
    /\ asked' = r
    /\ waiting' = waiting \cup {r}
    /\ UNCHANGED <<verdict, told>>

Decide(r, answer) ==
    /\ r \in waiting
    /\ \A older \in Requests : older < r => older \notin waiting
    /\ verdict[r] = NoAnswer
    /\ verdict' = [verdict EXCEPT ![r] = answer]
    /\ waiting' = waiting \ {r}
    /\ UNCHANGED <<asked, told>>

Hear(r) ==
    /\ verdict[r] # NoAnswer
    /\ told[r] = "nothing"
    /\ told' = [told EXCEPT ![r] = "decided"]
    /\ UNCHANGED <<asked, waiting, verdict>>

\* A cancelled request waits no longer; one that was decided before its
\* requester noticed keeps its decision, unheard.
Leave(r) ==
    /\ r <= asked
    /\ told[r] = "nothing"
    /\ told' = [told EXCEPT ![r] = "cancelled"]
    /\ waiting' = waiting \ {r}
    /\ UNCHANGED <<asked, verdict>>

DeskNext ==
    \E r \in Requests :
        \/ Ask(r) \/ Hear(r) \/ Leave(r)
        \/ \E answer \in Answers : Decide(r, answer)

DeskSpec == DeskInit /\ [][DeskNext]_desk
=============================================================================
