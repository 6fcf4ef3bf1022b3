-------------------------------- MODULE Queue --------------------------------
(***************************************************************************)
(* The unbounded FIFO that decouples a goroutine from the one that pulls   *)
(* (internal/queue).  A pump goroutine owns the buffer and selects among   *)
(* push, pull and close.  Close does not wait for the pump: until it has   *)
(* noticed, a push may still get in and a pull may still get a value, for  *)
(* each select takes any of its ready cases.                               *)
(***************************************************************************)
EXTENDS Sequences

NewQueue == [buf |-> <<>>, closed |-> FALSE]

QueueOf(S) == [buf : Seq(S), closed : BOOLEAN]

CloseQueue(q) == [q EXCEPT !.closed = TRUE]

\* The queues that a push of v may leave.
Pushed(q, v) == {[q EXCEPT !.buf = Append(@, v)]} \cup (IF q.closed THEN {q} ELSE {})

\* A pull that finds a value, and one that reports the queue closed.
HasValue(q)     == q.buf # <<>>
Value(q)        == Head(q.buf)
Pulled(q)       == [q EXCEPT !.buf = Tail(@)]
ReportsClosed(q) == q.closed

==============================================================================
