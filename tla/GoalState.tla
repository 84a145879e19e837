------------------------------ MODULE GoalState ------------------------------
(***************************************************************************)
(* lib/goal-lifecycle/state-machine.mjs: the named transitions of a goal   *)
(* run, as operators from a run record (the content of run.json) to a run  *)
(* record.  With them, the pure questions the engine asks of a run:        *)
(* graph.mjs (which node is ready), runner.mjs (is the approval still      *)
(* good, are the budgets spent) and policy.mjs (is there a grant to spend).*)
(*                                                                         *)
(* A digest is injective, so an envelope stands for its own digest.  Of an *)
(* envelope the engine distinguishes the budgets, which an amendment may   *)
(* change, and everything else, here one field `scope`.                    *)
(***************************************************************************)
EXTENDS GoalPhases, Naturals, Sequences, FiniteSets

CONSTANTS
    Nodes,      \* the nodes of the plan
    DependsOn,  \* the dependencies of each node
    Order,      \* topoOrder(plan): the nodes, each after its dependencies
    Budgets     \* bound: the budgets an operator asks for

ASSUME GoalStateAssumption ==
    /\ IsFiniteSet(Nodes) /\ Nodes # {}
    /\ DependsOn \in [Nodes -> SUBSET Nodes]
    /\ Order \in [1..Cardinality(Nodes) -> Nodes]
    /\ \A n \in Nodes : \E i \in DOMAIN Order : Order[i] = n
    /\ \A i \in DOMAIN Order : \A d \in DependsOn[Order[i]] :
          \E j \in 1..(i - 1) : Order[j] = d
    /\ Budgets \subseteq [attempts : Nat, failures : Nat]

\* Budgets: max_attempts_per_node and max_consecutive_failures.  An amendment is
\* not validated, and its flags take 0.
Envelopes == [scope : {"planned", "edited"}, budgets : Budgets]

NoEnvelope == [scope |-> "none", budgets |-> [attempts |-> 0, failures |-> 0]]

\* attemptId: <node>#<n>, deterministic, reused by the id of an action request.
AttemptIds == Nodes \X (Nat \ {0})
NoAttempt == <<>>

Attempts == [result : {"dispatched", "running", "passed", "failed", "errored"},
             pid : BOOLEAN]

Grants == [request : AttemptIds, spent : AttemptIds \cup {NoAttempt}]

\* An unspent grant of a request.
Grant(request) == [request |-> request, spent |-> NoAttempt]

Runs == [phase     : PHASES,
         nodes     : [Nodes -> [state : {"pending", "running", "completed", "failed"},
                                attempts : Seq(Attempts)]],
         approved  : Envelopes \cup {NoEnvelope},
         approvals : Seq(Envelopes),
         failures  : Nat,
         diverged  : BOOLEAN,
         request   : AttemptIds \cup {NoAttempt},
         grants    : Seq(Grants)]

\* A planned run, its envelope offered (toAwaitingApproval).
Offered == [phase     |-> "awaiting_approval",
            nodes     |-> [n \in Nodes |-> [state |-> "pending", attempts |-> <<>>]],
            approved  |-> NoEnvelope,
            approvals |-> <<>>,
            failures  |-> 0,
            diverged  |-> FALSE,
            request   |-> NoAttempt,
            grants    |-> <<>>]

-----------------------------------------------------------------------------
(* Phase transitions *)

Move(r, to) == [r EXCEPT !.phase = to]

\* Clears the approval: a re-plan binds another digest.
ToPlanning(r) == [Move(r, "planning") EXCEPT !.approved = NoEnvelope]

ToRunning(r) ==
    [Move(r, "running") EXCEPT
        !.request = IF r.phase = "awaiting_action_approval" THEN NoAttempt ELSE @]

\* approveEnvelope, and the bookkeeping of a budget amendment.
ApproveEnvelope(r, e) ==
    [ToRunning(r) EXCEPT !.approved = e, !.approvals = Append(@, e)]

ToAwaitingActionApproval(r, a) ==
    [Move(r, "awaiting_action_approval") EXCEPT !.request = a]

-----------------------------------------------------------------------------
(* Nodes and attempts *)

AttemptCount(r, n) == Len(r.nodes[n].attempts)

AttemptOf(r, a) == r.nodes[a[1]].attempts[a[2]]

OpenResults == {"dispatched", "running"}

\* Attempts without a terminal result.
UnsettledAttempts(r) ==
    {a \in UNION {{n} \X (1..AttemptCount(r, n)) : n \in Nodes} :
        AttemptOf(r, a).result \in OpenResults}

StartAttempt(r, n) ==
    [r EXCEPT !.nodes[n] =
        [state |-> "running",
         attempts |-> Append(@.attempts, [result |-> "dispatched", pid |-> FALSE])]]

RecordAttemptProcess(r, a, pid) ==
    [r EXCEPT !.nodes[a[1]].attempts[a[2]] = [result |-> "running", pid |-> pid]]

\* Fault: only a failed attempt leaves its node unfinished.
FinishAttemptLenient(r, a, result) ==
    [r EXCEPT
        !.nodes[a[1]].attempts[a[2]].result = result,
        !.nodes[a[1]].state = IF result = "failed" THEN "failed" ELSE "completed",
        !.failures = IF result = "passed" THEN 0 ELSE @ + 1]

FinishAttempt(r, a, result) ==
    [r EXCEPT
        !.nodes[a[1]].attempts[a[2]].result = result,
        !.nodes[a[1]].state = IF result = "passed" THEN "completed" ELSE "failed",
        !.failures = IF result = "passed" THEN 0 ELSE @ + 1]

\* Fault: a reopened node starts over, without its attempts.
ReopenNodesAfresh(r, S) ==
    [r EXCEPT !.nodes = [n \in Nodes |->
        IF n \in S THEN [state |-> "pending", attempts |-> <<>>] ELSE r.nodes[n]]]

\* The history and its count are kept.
ReopenNodes(r, S) ==
    [r EXCEPT !.nodes = [n \in Nodes |->
        IF n \in S THEN [r.nodes[n] EXCEPT !.state = "failed"] ELSE r.nodes[n]]]

\* The first of some indices of a sequence, 0 if there is none.
First(I) == IF I = {} THEN 0 ELSE CHOOSE i \in I : \A j \in I : i <= j

\* The oldest unspent grant of a node, as the id of its request.
PendingGrantFor(r, n) ==
    LET i == First({j \in DOMAIN r.grants :
                        r.grants[j].request[1] = n /\ r.grants[j].spent = NoAttempt})
    IN  IF i = 0 THEN NoAttempt ELSE r.grants[i].request

\* consumeGrant finds the grant by its request id ...
GrantIndex(r, q) == First({i \in DOMAIN r.grants : r.grants[i].request = q})

\* ... and refuses one that is spent.
GrantSpendable(r, q) == r.grants[GrantIndex(r, q)].spent = NoAttempt

ConsumeGrant(r, q, a) == [r EXCEPT !.grants[GrantIndex(r, q)].spent = a]

-----------------------------------------------------------------------------
(* The engine's questions *)

\* Fault: a plan without failures counts as complete.
NoNodeFailed(r) == \A n \in Nodes : r.nodes[n].state # "failed"

AllNodesComplete(r) == \A n \in Nodes : r.nodes[n].state = "completed"

Ready(r, n) ==
    /\ r.nodes[n].state \notin {"completed", "running"}
    /\ \A d \in DependsOn[n] : r.nodes[d].state = "completed"

\* selectReadyNode: the first ready node in topological order.
SelectReadyNode(r) == Order[First({i \in DOMAIN Order : Ready(r, Order[i])})]

NoNodeReady(r) == \A n \in Nodes : ~Ready(r, n)

\* Fault: that there is an approval is enough.
ApprovalMissing(r, onDisk) == r.approved = NoEnvelope

\* checkApprovalDrift: the envelope on disk against the approved digest.
ApprovalDrift(r, onDisk) == r.approved = NoEnvelope \/ onDisk # r.approved

\* checkBudgets, the failure breaker.
BreakerTripped(r, e) == r.failures >= e.budgets.failures

\* runExitCheck over run.json.
ExitCheck(r) ==
    AllNodesComplete(r) /\ ~r.diverged /\ r.approved # NoEnvelope

=============================================================================
