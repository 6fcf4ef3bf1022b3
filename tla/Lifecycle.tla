------------------------------ MODULE Lifecycle ------------------------------
(***************************************************************************)
(* What a session promises about the life of the participant under an      *)
(* alias, whatever its goroutines do: the phases a client of the session   *)
(* can observe, the moves between them, and the numbering of turns.  The   *)
(* phase "opening" is a participant whose agent is attached but whose      *)
(* startup is not published yet (StartupReady is false).  Session is       *)
(* checked to implement this specification.                                *)
(***************************************************************************)
EXTENDS Naturals

CONSTANT Alias

VARIABLES
    life,     \* alias -> phase
    turn,     \* alias -> the turn last begun by its participant, 0 at first
    lastTurn  \* the number of the latest turn of the session

lives == <<life, turn, lastTurn>>

Active  == {"preparing", "working"}
Serving == {"idle", "keepalive"} \cup Active
Opening == {"starting", "attached", "opening"}
Phases  == {"absent", "crashed"} \cup Opening \cup Serving

LifeInit ==
    /\ life = [a \in Alias |-> "absent"]
    /\ turn = [a \in Alias |-> 0]
    /\ lastTurn = 0

Move(a, from, to) ==
    /\ life[a] \in from
    /\ life' = [life EXCEPT ![a] = to]

Quietly(a, from, to) == Move(a, from, to) /\ UNCHANGED <<turn, lastTurn>>

Invite(a) == Quietly(a, {"absent"}, "starting")

Start(a) ==
    \/ Quietly(a, {"starting"}, "attached")
    \/ Quietly(a, {"attached"}, "opening")
    \/ Quietly(a, {"opening"}, "idle")

\* Only an idle participant is given work, and the work is numbered when it
\* begins: no other turn of the session has that number.
Reserve(a) == Quietly(a, {"idle"}, "preparing")

Work(a) ==
    /\ Move(a, {"preparing"}, "working")
    /\ lastTurn' = lastTurn + 1
    /\ turn' = [turn EXCEPT ![a] = lastTurn']

Rest(a) == Quietly(a, Active, "idle")

\* A sweep pings several idle participants at once.
Ping(S) ==
    /\ \A a \in S : life[a] = "idle"
    /\ life' = [a \in Alias |-> IF a \in S THEN "keepalive" ELSE life[a]]
    /\ UNCHANGED <<turn, lastTurn>>

Pong(a) == Quietly(a, {"keepalive"}, "idle")

\* Whoever is in the session can crash, and stays crashed until removed.
Fail(a) == Quietly(a, Phases \ {"absent"}, "crashed")

\* A participant leaves by /remove once its startup is published or it has
\* crashed, or is withdrawn by its own startup at the last moment; a
\* participant that is starting or attached never disappears.
Leave(a) ==
    /\ Move(a, Serving \cup {"opening", "crashed"}, "absent")
    /\ turn' = [turn EXCEPT ![a] = 0]
    /\ UNCHANGED lastTurn

LifeNext ==
    \/ \E a \in Alias :
         \/ Invite(a) \/ Start(a) \/ Reserve(a) \/ Work(a) \/ Rest(a)
         \/ Pong(a) \/ Fail(a) \/ Leave(a)
    \/ \E S \in SUBSET Alias : Ping(S)

LifeSpec == LifeInit /\ [][LifeNext]_lives
=============================================================================
