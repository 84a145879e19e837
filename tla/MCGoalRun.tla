------------------------------ MODULE MCGoalRun ------------------------------
(* Finite instances of GoalRun. *)
EXTENDS GoalRun, TLC

CONSTANTS p1, p2, n1, n2

\* Two nodes, the second on the first.
Chain == (n1 :> {}) @@ (n2 :> {n1})

InOrder == <<n1, n2>>

\* One attempt per node, or two; two consecutive failures trip the breaker.
OneAttempt == [attempts |-> 1, failures |-> 2]
TwoAttempts == [attempts |-> 2, failures |-> 2]

Few == {OneAttempt, TwoAttempts}
First1 == [scope |-> "planned", budgets |-> OneAttempt]

=============================================================================
