---------------------------- MODULE GoalStateProofs ----------------------------
(***************************************************************************)
(* What each operator of GoalState does to a run record: the facts a proof *)
(* about goal runs needs of them, for every plan and every record.         *)
(***************************************************************************)
EXTENDS GoalState, SequenceTheorems, WellFoundedInduction, TLAPS

-----------------------------------------------------------------------------
(* The first of some indices *)

LEMMA FirstIs ==
    ASSUME NEW I \in SUBSET Nat, I # {}
    PROVE  First(I) \in I /\ \A j \in I : First(I) <= j
<1> DEFINE Less == OpToRel(<, Nat)
<1>1. \A i, j \in Nat : <<j, i>> \in Less <=> j < i
  BY DEF OpToRel
<1>2. IsWellFoundedOn(Less, Nat)
  BY NatLessThanWellFounded
<1> HIDE DEF Less
<1>3. \E i \in I : \A j \in I : ~(<<j, i>> \in Less)
  BY <1>2, WFMin
<1>4. \A i \in I : i \in Nat
  OBVIOUS
<1>5. PICK i \in I : \A j \in I : ~(<<j, i>> \in Less)
  BY <1>3
<1>6. \A j \in I : i <= j
  <2>1. ASSUME NEW j \in I PROVE i <= j
    <3>1. ~(j < i)
      BY <1>1, <1>4, <1>5
    <3> QED
      BY <1>4, <3>1
  <2> QED
    BY <2>1
<1> QED
  BY <1>6 DEF First

LEMMA FirstOf ==
    ASSUME NEW n \in Nat, NEW I \in SUBSET (1..n)
    PROVE  /\ First(I) \in 0..n
           /\ First(I) # 0 => First(I) \in I /\ \A j \in I : First(I) <= j
           /\ First(I) = 0 => I = {}
<1>1. CASE I = {}
  BY <1>1 DEF First
<1>2. CASE I # {}
  <2> I \in SUBSET Nat
    OBVIOUS
  <2>1. First(I) \in I /\ \A j \in I : First(I) <= j
    BY <1>2, FirstIs
  <2>2. First(I) \in 1..n
    BY <2>1
  <2> QED
    BY <1>2, <2>1, <2>2
<1> QED
  BY <1>1, <1>2

LEMMA SelectedIsReady ==
    ASSUME NEW r, ~NoNodeReady(r)
    PROVE  SelectReadyNode(r) \in Nodes /\ Ready(r, SelectReadyNode(r))
<1> DEFINE I == {i \in DOMAIN Order : Ready(r, Order[i])}
<1>1. I # {} /\ I \in SUBSET Nat /\ \A i \in I : Order[i] \in Nodes
  BY GoalStateAssumption DEF NoNodeReady
<1>2. First(I) \in I
  BY <1>1, FirstIs
<1> QED
  BY <1>1, <1>2 DEF SelectReadyNode

-----------------------------------------------------------------------------
(* Attempts *)

LEMMA AttemptTypes ==
    ASSUME NEW r \in Runs, NEW n \in Nodes
    PROVE  /\ AttemptCount(r, n) \in Nat
           /\ r.nodes[n].attempts \in Seq(Attempts)
           /\ DOMAIN r.nodes[n].attempts = 1..AttemptCount(r, n)
           /\ \A i \in 1..AttemptCount(r, n) : AttemptOf(r, <<n, i>>) \in Attempts
BY DEF Runs, AttemptCount, AttemptOf

LEMMA UnsettledIs ==
    ASSUME NEW r \in Runs, NEW a, a \in UnsettledAttempts(r)
    PROVE  /\ a \in AttemptIds /\ a = <<a[1], a[2]>> /\ a[1] \in Nodes
           /\ a[2] \in 1..AttemptCount(r, a[1]) /\ a[2] <= AttemptCount(r, a[1])
           /\ AttemptOf(r, a).result \in OpenResults
<1>1. PICK n \in Nodes : a \in {n} \X (1..AttemptCount(r, n))
  BY DEF UnsettledAttempts
<1>2. a = <<n, a[2]>> /\ a[1] = n /\ a[2] \in 1..AttemptCount(r, n)
  BY <1>1
<1>3. AttemptCount(r, n) \in Nat /\ a[2] \in Nat \ {0} /\ a[2] <= AttemptCount(r, n)
  BY <1>2, AttemptTypes
<1>4. AttemptOf(r, a).result \in OpenResults
  BY DEF UnsettledAttempts
<1> QED
  BY <1>2, <1>3, <1>4 DEF AttemptIds

NodeStates == {"pending", "running", "completed", "failed"}

\* What no transition of nodes and attempts touches.
SameButNodes(q, r) ==
    /\ q.phase = r.phase /\ q.approved = r.approved /\ q.approvals = r.approvals
    /\ q.diverged = r.diverged /\ q.request = r.request /\ q.grants = r.grants

\* A node has one more attempt, open, and is running.
Opened(q, r, n) ==
    /\ q \in Runs /\ SameButNodes(q, r)
    /\ \A m \in Nodes \ {n} : q.nodes[m] = r.nodes[m]
    /\ q.nodes[n].state = "running"
    /\ AttemptCount(q, n) = AttemptCount(r, n) + 1
    /\ \A i \in 1..AttemptCount(r, n) : AttemptOf(q, <<n, i>>) = AttemptOf(r, <<n, i>>)
    /\ AttemptOf(q, <<n, AttemptCount(q, n)>>) = [result |-> "dispatched", pid |-> FALSE]

LEMMA StartAttemptDoes ==
    ASSUME NEW r \in Runs, NEW n \in Nodes, NEW q, q = StartAttempt(r, n)
    PROVE  Opened(q, r, n)
<1> DEFINE s == r.nodes[n].attempts
           new == [result |-> "dispatched", pid |-> FALSE]
<1>1. s \in Seq(Attempts) /\ new \in Attempts
  BY AttemptTypes DEF Attempts
<1>2. q.nodes = [r.nodes EXCEPT ![n] = [state |-> "running", attempts |-> Append(s, new)]]
  BY DEF StartAttempt, Runs
<1>3. q.nodes \in [Nodes -> [state : {"pending", "running", "completed", "failed"},
                             attempts : Seq(Attempts)]]
  BY <1>1, <1>2 DEF Runs
<1>4. SameButNodes(q, r)
  BY DEF SameButNodes, StartAttempt
<1>5. q = [r EXCEPT !.nodes = q.nodes]
  BY <1>2 DEF StartAttempt, Runs
<1>6. q \in Runs
  BY <1>3, <1>5 DEF Runs
<1>7. q.nodes[n] = [state |-> "running", attempts |-> Append(s, new)]
  BY <1>2 DEF Runs
<1> QED
  BY <1>1, <1>2, <1>4, <1>6, <1>7 DEF Opened, Runs, AttemptCount, AttemptOf

\* One attempt of a node is rewritten, and with it the state of the node and
\* the count of failures.
WithNodes(r, ns, f) == [r EXCEPT !.nodes = ns, !.failures = f]
Rewrite(r, n, i, x, st, f) ==
    WithNodes(r, [r.nodes EXCEPT ![n] = [state    |-> st,
                                         attempts |-> [r.nodes[n].attempts EXCEPT ![i] = x]]], f)

LEMMA NodesAndFailures ==
    ASSUME NEW r \in Runs, NEW f \in Nat, NEW q,
           NEW ns \in [Nodes -> [state : NodeStates, attempts : Seq(Attempts)]],
           q = WithNodes(r, ns, f)
    PROVE  q \in Runs /\ SameButNodes(q, r) /\ q.nodes = ns /\ q.failures = f
<1>1. q \in Runs
  BY Zenon DEF Runs, NodeStates, WithNodes
<1>2. SameButNodes(q, r) /\ q.nodes = ns /\ q.failures = f
  BY DEF Runs, SameButNodes, WithNodes
<1> QED
  BY <1>1, <1>2

\* What that leaves.
Rewritten(q, r, n, i, x, st) ==
    /\ q \in Runs /\ SameButNodes(q, r)
    /\ \A m \in Nodes \ {n} : q.nodes[m] = r.nodes[m]
    /\ q.nodes[n].state = st
    /\ AttemptCount(q, n) = AttemptCount(r, n)
    /\ \A j \in 1..AttemptCount(r, n) :
          AttemptOf(q, <<n, j>>) = IF j = i THEN x ELSE AttemptOf(r, <<n, j>>)

LEMMA RewriteDoes ==
    ASSUME NEW r \in Runs, NEW n \in Nodes, NEW i \in Nat, NEW x \in Attempts,
           NEW st \in NodeStates, NEW f \in Nat, NEW q, q = Rewrite(r, n, i, x, st, f)
    PROVE  Rewritten(q, r, n, i, x, st)
<1> DEFINE s == r.nodes[n].attempts
           t == [s EXCEPT ![i] = x]
           ns == [r.nodes EXCEPT ![n] = [state |-> st, attempts |-> t]]
<1>1. s \in Seq(Attempts) /\ Len(s) \in Nat /\ DOMAIN s = 1..Len(s)
  BY AttemptTypes
<1>2. t \in Seq(Attempts) /\ Len(t) = Len(s) /\ \A j \in 1..Len(s) : t[j] = IF j = i THEN x ELSE s[j]
  <2>1. CASE i \in 1..Len(s)
    BY <1>1, <2>1, ExceptSeq
  <2>2. CASE i \notin 1..Len(s)
    <3>1. t = s
      BY <1>1, <2>2
    <3> QED
      BY <1>1, <2>2, <3>1
  <2> QED
    BY <2>1, <2>2
<1>3. q = WithNodes(r, ns, f)
  BY DEF Rewrite
<1> HIDE DEF t
<1>4. ns \in [Nodes -> [state : NodeStates, attempts : Seq(Attempts)]]
  BY <1>2 DEF Runs, NodeStates
<1>5. ns[n] = [state |-> st, attempts |-> t] /\ \A m \in Nodes \ {n} : ns[m] = r.nodes[m]
  BY DEF Runs
<1> HIDE DEF ns
<1>6. q \in Runs /\ SameButNodes(q, r) /\ q.nodes = ns
  BY <1>3, <1>4, NodesAndFailures
<1>7. q.nodes[n].state = st /\ q.nodes[n].attempts = t
  BY <1>5, <1>6
<1>8. AttemptCount(q, n) = AttemptCount(r, n)
  BY <1>2, <1>7 DEF AttemptCount
<1>9. \A j \in 1..AttemptCount(r, n) :
         AttemptOf(q, <<n, j>>) = IF j = i THEN x ELSE AttemptOf(r, <<n, j>>)
  BY <1>2, <1>7 DEF AttemptCount, AttemptOf
<1> QED
  BY <1>5, <1>6, <1>7, <1>8, <1>9 DEF Rewritten

LEMMA RecordDoes ==
    ASSUME NEW r \in Runs, NEW a \in AttemptIds, NEW pid \in BOOLEAN, NEW q,
           q = RecordAttemptProcess(r, a, pid)
    PROVE  Rewritten(q, r, a[1], a[2], [result |-> "running", pid |-> pid], r.nodes[a[1]].state)
<1> DEFINE x == [result |-> "running", pid |-> pid]
           old == r.nodes[a[1]]
<1>1. a[1] \in Nodes /\ a[2] \in Nat /\ x \in Attempts
  BY DEF AttemptIds, Attempts
<1>2. old = [state |-> old.state, attempts |-> old.attempts]
      /\ old.state \in NodeStates /\ r.failures \in Nat
  BY <1>1 DEF Runs, NodeStates
<1>3. [old EXCEPT !.attempts[a[2]] = x] = [state |-> old.state, attempts |-> [old.attempts EXCEPT ![a[2]] = x]]
  BY <1>2
<1>4. q = Rewrite(r, a[1], a[2], x, old.state, r.failures)
  BY <1>1, <1>3 DEF RecordAttemptProcess, Rewrite, WithNodes, Runs
<1> HIDE DEF x, old
<1>5. Rewritten(q, r, a[1], a[2], x, old.state)
  BY <1>1, <1>2, <1>4, RewriteDoes
<1> QED
  BY <1>5 DEF x, old

Settled(result) == IF result = "passed" THEN "completed" ELSE "failed"

LEMMA FinishDoes ==
    ASSUME NEW r \in Runs, NEW a \in AttemptIds, NEW result \in {"passed", "failed", "errored"},
           NEW q, q = FinishAttempt(r, a, result), a[2] <= AttemptCount(r, a[1])
    PROVE  Rewritten(q, r, a[1], a[2], [result |-> result, pid |-> AttemptOf(r, a).pid], Settled(result))
<1> DEFINE old == r.nodes[a[1]]
           x == [result |-> result, pid |-> AttemptOf(r, a).pid]
           f == IF result = "passed" THEN 0 ELSE r.failures + 1
<1>1. /\ a[1] \in Nodes /\ a[2] \in 1..AttemptCount(r, a[1]) /\ a = <<a[1], a[2]>>
      /\ AttemptCount(r, a[1]) \in Nat
  BY AttemptTypes DEF AttemptIds
<1>2. AttemptOf(r, a) \in Attempts /\ AttemptOf(r, a) = old.attempts[a[2]]
  BY <1>1, AttemptTypes DEF AttemptOf
<1>3. x \in Attempts /\ x = [AttemptOf(r, a) EXCEPT !.result = result]
  BY <1>2 DEF Attempts
<1>4. /\ old = [state |-> old.state, attempts |-> old.attempts]
      /\ r.failures \in Nat
  BY <1>1 DEF Runs
<1>5. f \in Nat /\ Settled(result) \in NodeStates
  BY <1>4 DEF Settled, NodeStates
<1>6. [old.attempts EXCEPT ![a[2]].result = result] = [old.attempts EXCEPT ![a[2]] = x]
  <2>1. x = [old.attempts[a[2]] EXCEPT !.result = result]
    BY <1>2, <1>3
  <2> QED
    BY <2>1
<1>7. [old EXCEPT !.attempts[a[2]].result = result, !.state = Settled(result)]
        = [state |-> Settled(result), attempts |-> [old.attempts EXCEPT ![a[2]] = x]]
  <2> DEFINE u == [old EXCEPT !.attempts[a[2]].result = result]
             w == [old.attempts EXCEPT ![a[2]].result = result]
  <2>1. [old EXCEPT !.attempts[a[2]].result = result, !.state = Settled(result)]
          = [u EXCEPT !.state = Settled(result)]
    OBVIOUS
  <2>2. u = [state |-> old.state, attempts |-> w]
    <3> HIDE DEF old
    <3> QED
      BY <1>4
  <2> HIDE DEF u, w
  <2>3. [u EXCEPT !.state = Settled(result)] = [state |-> Settled(result), attempts |-> w]
    BY <2>2
  <2> QED
    BY <1>6, <2>1, <2>3 DEF w
<1>8. q = Rewrite(r, a[1], a[2], x, Settled(result), f)
  BY <1>1, <1>7 DEF FinishAttempt, Rewrite, WithNodes, Settled, Runs
<1> HIDE DEF x, f, old
<1>9. Rewritten(q, r, a[1], a[2], x, Settled(result))
  BY <1>1, <1>3, <1>5, <1>8, RewriteDoes
<1> QED
  BY <1>9 DEF x

-----------------------------------------------------------------------------
(* The other fields *)

SameNodesAndHistory(q, r) ==
    /\ q.nodes = r.nodes /\ q.approvals = r.approvals /\ q.grants = r.grants

LEMMA MoveDoes ==
    ASSUME NEW r \in Runs, NEW to \in PHASES, NEW q, q = Move(r, to)
    PROVE  /\ q \in Runs /\ SameNodesAndHistory(q, r)
           /\ q.phase = to /\ q.approved = r.approved /\ q.request = r.request
<1>1. q \in Runs
  BY Zenon DEF Move, Runs
<1> QED
  BY <1>1 DEF Move, SameNodesAndHistory, Runs

LEMMA ToPlanningDoes ==
    ASSUME NEW r \in Runs, NEW q, q = ToPlanning(r)
    PROVE  /\ q \in Runs /\ SameNodesAndHistory(q, r)
           /\ q.phase = "planning" /\ q.approved = NoEnvelope /\ q.request = r.request
<1>1. Move(r, "planning") \in Runs /\ SameNodesAndHistory(Move(r, "planning"), r)
      /\ Move(r, "planning").phase = "planning" /\ Move(r, "planning").request = r.request
  BY MoveDoes DEF PHASES
<1>2. \A x \in Runs : [x EXCEPT !.approved = NoEnvelope] \in Runs
  BY Zenon DEF Runs
<1> QED
  BY <1>1, <1>2 DEF ToPlanning, SameNodesAndHistory, Runs

LEMMA ToRunningDoes ==
    ASSUME NEW r \in Runs, NEW q, q = ToRunning(r)
    PROVE  /\ q \in Runs /\ SameNodesAndHistory(q, r)
           /\ q.phase = "running" /\ q.approved = r.approved
<1>1. Move(r, "running") \in Runs /\ SameNodesAndHistory(Move(r, "running"), r)
      /\ Move(r, "running").phase = "running" /\ Move(r, "running").approved = r.approved
  BY MoveDoes DEF PHASES
<1>2. \A x \in Runs, y \in AttemptIds \cup {NoAttempt} : [x EXCEPT !.request = y] \in Runs
  BY Zenon DEF Runs
<1>3. q = [Move(r, "running") EXCEPT
             !.request = IF r.phase = "awaiting_action_approval" THEN NoAttempt ELSE Move(r, "running").request]
  BY DEF ToRunning
<1>4. (IF r.phase = "awaiting_action_approval" THEN NoAttempt ELSE Move(r, "running").request)
        \in AttemptIds \cup {NoAttempt}
  BY <1>1 DEF Runs
<1> QED
  BY <1>1, <1>2, <1>3, <1>4 DEF SameNodesAndHistory, Runs

LEMMA AwaitDoes ==
    ASSUME NEW r \in Runs, NEW a \in AttemptIds, NEW q, q = ToAwaitingActionApproval(r, a)
    PROVE  /\ q \in Runs /\ SameNodesAndHistory(q, r)
           /\ q.phase = "awaiting_action_approval" /\ q.request = a /\ q.approved = r.approved
<1> DEFINE m == Move(r, "awaiting_action_approval")
<1>1. m \in Runs /\ SameNodesAndHistory(m, r)
      /\ m.phase = "awaiting_action_approval" /\ m.approved = r.approved
  BY MoveDoes DEF PHASES
<1>2. \A x \in Runs, y \in AttemptIds \cup {NoAttempt} : [x EXCEPT !.request = y] \in Runs
  BY Zenon DEF Runs
<1> QED
  BY <1>1, <1>2 DEF ToAwaitingActionApproval, SameNodesAndHistory, Runs

LEMMA ApproveDoes ==
    ASSUME NEW r \in Runs, NEW e \in Envelopes, NEW q, q = ApproveEnvelope(r, e)
    PROVE  /\ q \in Runs /\ q.nodes = r.nodes /\ q.grants = r.grants
           /\ q.phase = "running" /\ q.approved = e
           /\ q.approvals = Append(r.approvals, e)
<1>1. ToRunning(r) \in Runs /\ SameNodesAndHistory(ToRunning(r), r) /\ ToRunning(r).phase = "running"
  BY ToRunningDoes
<1>2. \A x \in Runs, s \in Seq(Envelopes) : [x EXCEPT !.approved = e, !.approvals = s] \in Runs
  BY Zenon DEF Runs
<1>3. Append(r.approvals, e) \in Seq(Envelopes)
  BY AppendProperties DEF Runs
<1> QED
  BY <1>1, <1>2, <1>3 DEF ApproveEnvelope, SameNodesAndHistory, Runs

LEMMA DivergedDoes ==
    ASSUME NEW r \in Runs, NEW b \in BOOLEAN, NEW q, q = [r EXCEPT !.diverged = b]
    PROVE  /\ q \in Runs /\ SameNodesAndHistory(q, r) /\ q.diverged = b
           /\ q.phase = r.phase /\ q.approved = r.approved /\ q.request = r.request
<1>1. q \in Runs
  BY Zenon DEF Runs
<1> QED
  BY <1>1 DEF SameNodesAndHistory, Runs

LEMMA ReopenDoes ==
    ASSUME NEW r \in Runs, NEW S \in SUBSET Nodes, NEW q, q = ReopenNodes(r, S)
    PROVE  /\ q \in Runs /\ SameButNodes(q, r)
           /\ \A n \in Nodes : q.nodes[n] = IF n \in S THEN [state |-> "failed", attempts |-> r.nodes[n].attempts]
                                                     ELSE r.nodes[n]
<1> DEFINE ns == [n \in Nodes |-> IF n \in S THEN [r.nodes[n] EXCEPT !.state = "failed"] ELSE r.nodes[n]]
<1>1. \A n \in Nodes : /\ r.nodes[n] \in [state : NodeStates, attempts : Seq(Attempts)]
                       /\ [r.nodes[n] EXCEPT !.state = "failed"]
                            = [state |-> "failed", attempts |-> r.nodes[n].attempts]
  BY DEF Runs, NodeStates
<1>2. ns \in [Nodes -> [state : NodeStates, attempts : Seq(Attempts)]]
  BY <1>1 DEF NodeStates
<1>3. \A n \in Nodes : ns[n] = IF n \in S THEN [state |-> "failed", attempts |-> r.nodes[n].attempts]
                                         ELSE r.nodes[n]
  BY <1>1
<1>4. q = WithNodes(r, ns, r.failures) /\ r.failures \in Nat
  BY DEF ReopenNodes, WithNodes, Runs
<1> HIDE DEF ns
<1>5. q \in Runs /\ SameButNodes(q, r) /\ q.nodes = ns
  BY <1>2, <1>4, NodesAndFailures
<1> QED
  BY <1>3, <1>5

-----------------------------------------------------------------------------
(* Grants *)

LEMMA GrantIndexIs ==
    ASSUME NEW r \in Runs, NEW g, NEW k, k = GrantIndex(r, g)
    PROVE  /\ k \in 0..Len(r.grants)
           /\ k # 0 => /\ r.grants[k] \in Grants /\ r.grants[k].request = g
                       /\ \A j \in 1..(k - 1) : r.grants[j].request # g
           /\ k = 0 => \A j \in 1..Len(r.grants) : r.grants[j].request # g
<1> DEFINE n == Len(r.grants)
           I == {i \in DOMAIN r.grants : r.grants[i].request = g}
<1>1. r.grants \in Seq(Grants) /\ n \in Nat /\ DOMAIN r.grants = 1..n
  BY DEF Runs
<1>2. I \in SUBSET (1..n) /\ k = First(I) /\ \A i \in 1..n : i \in I <=> r.grants[i].request = g
  BY <1>1 DEF GrantIndex
<1> HIDE DEF I
<1>3. /\ k \in 0..n
      /\ k # 0 => k \in I /\ \A j \in I : k <= j
      /\ k = 0 => I = {}
  BY <1>1, <1>2, FirstOf
<1>4. ASSUME k # 0
      PROVE  /\ r.grants[k] \in Grants /\ r.grants[k].request = g
             /\ \A j \in 1..(k - 1) : r.grants[j].request # g
  <2>1. k \in 1..n /\ r.grants[k].request = g
    BY <1>1, <1>2, <1>3, <1>4
  <2>2. \A j \in 1..(k - 1) : j \in 1..n /\ j \notin I
    BY <1>1, <1>3, <1>4, <2>1
  <2> QED
    BY <1>1, <1>2, <2>1, <2>2
<1>5. k = 0 => \A j \in 1..n : r.grants[j].request # g
  BY <1>1, <1>2, <1>3
<1> QED
  BY <1>3, <1>4, <1>5

\* What is granted may be spent and further grants may follow: a request keeps
\* the place of its first grant.
LEMMA GrantIndexKept ==
    ASSUME NEW r \in Runs, NEW q \in Runs, NEW g, GrantIndex(r, g) # 0,
           Len(r.grants) <= Len(q.grants),
           \A i \in 1..Len(r.grants) : q.grants[i].request = r.grants[i].request
    PROVE  GrantIndex(q, g) = GrantIndex(r, g)
<1> DEFINE j == GrantIndex(r, g)
           k == GrantIndex(q, g)
<1>1. Len(r.grants) \in Nat /\ Len(q.grants) \in Nat
  BY DEF Runs
<1>2. /\ j \in 1..Len(r.grants) /\ r.grants[j].request = g
      /\ \A i \in 1..(j - 1) : r.grants[i].request # g
  BY <1>1, GrantIndexIs
<1>3. /\ k \in 0..Len(q.grants)
      /\ k # 0 => /\ q.grants[k].request = g
                  /\ \A i \in 1..(k - 1) : q.grants[i].request # g
      /\ k = 0 => \A i \in 1..Len(q.grants) : q.grants[i].request # g
  BY <1>1, GrantIndexIs
<1> HIDE DEF j, k
<1>4. j \in 1..Len(q.grants) /\ q.grants[j].request = g
  BY <1>1, <1>2
<1>5. k # 0 /\ ~(j < k)
  BY <1>1, <1>2, <1>3, <1>4
<1>6. ~(k < j)
  BY <1>1, <1>2, <1>3, <1>5
<1>7. k = j
  BY <1>1, <1>2, <1>3, <1>5, <1>6
<1> QED
  BY <1>7 DEF j, k

SameButGrants(q, r) ==
    /\ q.nodes = r.nodes /\ q.phase = r.phase /\ q.approved = r.approved
    /\ q.approvals = r.approvals /\ q.request = r.request

LEMMA WithGrants ==
    ASSUME NEW r \in Runs, NEW s \in Seq(Grants), NEW q, q = [r EXCEPT !.grants = s]
    PROVE  q \in Runs /\ SameButGrants(q, r) /\ q.grants = s
<1>1. q \in Runs
  BY Zenon DEF Runs
<1> QED
  BY <1>1 DEF SameButGrants, Runs

\* A grant is spent on an attempt, and that is all.
Spent(q, r, g, a) ==
    /\ q \in Runs /\ SameButGrants(q, r)
    /\ Len(q.grants) = Len(r.grants)
    /\ \A i \in 1..Len(r.grants) :
          q.grants[i] = IF i = GrantIndex(r, g) THEN [request |-> g, spent |-> a] ELSE r.grants[i]

LEMMA ConsumeDoes ==
    ASSUME NEW r \in Runs, NEW g, NEW a \in AttemptIds, GrantIndex(r, g) # 0,
           NEW q, q = ConsumeGrant(r, g, a)
    PROVE  Spent(q, r, g, a)
<1> DEFINE k == GrantIndex(r, g)
           x == [request |-> g, spent |-> a]
           s == [r.grants EXCEPT ![k] = x]
<1>1. /\ r.grants \in Seq(Grants) /\ k \in 1..Len(r.grants)
      /\ r.grants[k] \in Grants /\ r.grants[k].request = g
  BY GrantIndexIs DEF Runs
<1>2. x \in Grants /\ x = [r.grants[k] EXCEPT !.spent = a]
  BY <1>1 DEF Grants
<1>3. /\ s \in Seq(Grants) /\ Len(s) = Len(r.grants)
      /\ \A i \in 1..Len(r.grants) : s[i] = IF i = k THEN x ELSE r.grants[i]
  BY <1>1, <1>2, ExceptSeq
<1>4. q = [r EXCEPT !.grants = s]
  BY <1>2 DEF ConsumeGrant
<1> HIDE DEF s
<1>5. q \in Runs /\ SameButGrants(q, r) /\ q.grants = s
  BY <1>3, <1>4, WithGrants
<1> QED
  BY <1>3, <1>5 DEF Spent

\* A grant that is not there is not spent.
LEMMA ConsumeTyped ==
    ASSUME NEW r \in Runs, NEW g, NEW a \in AttemptIds
    PROVE  ConsumeGrant(r, g, a) \in Runs /\ SameButGrants(ConsumeGrant(r, g, a), r)
<1>1. CASE GrantIndex(r, g) # 0
  BY <1>1, ConsumeDoes DEF Spent
<1>2. CASE GrantIndex(r, g) = 0
  <2>1. r.grants \in Seq(Grants) /\ 0 \notin DOMAIN r.grants
    BY DEF Runs
  <2>2. [r.grants EXCEPT ![GrantIndex(r, g)].spent = a] = r.grants
    BY <1>2, <2>1
  <2>3. ConsumeGrant(r, g, a) = [r EXCEPT !.grants = r.grants]
    BY <2>2 DEF ConsumeGrant
  <2> QED
    BY <2>1, <2>3, WithGrants
<1> QED
  BY <1>1, <1>2

LEMMA GrantDoes ==
    ASSUME NEW r \in Runs, NEW g \in AttemptIds, NEW q,
           q = [r EXCEPT !.grants = Append(r.grants, Grant(g))]
    PROVE  /\ q \in Runs /\ SameButGrants(q, r)
           /\ Len(q.grants) = Len(r.grants) + 1
           /\ \A i \in 1..Len(r.grants) : q.grants[i] = r.grants[i]
<1>1. Grant(g) \in Grants /\ r.grants \in Seq(Grants)
  BY DEF Grant, Grants, Runs
<1>2. /\ Append(r.grants, Grant(g)) \in Seq(Grants)
      /\ Len(Append(r.grants, Grant(g))) = Len(r.grants) + 1
      /\ \A i \in 1..Len(r.grants) : Append(r.grants, Grant(g))[i] = r.grants[i]
  BY <1>1, AppendProperties
<1> QED
  BY <1>2, WithGrants

LEMMA PendingGrantIs ==
    ASSUME NEW r \in Runs, NEW n, NEW g, g = PendingGrantFor(r, n)
    PROVE  /\ g \in AttemptIds \cup {NoAttempt}
           /\ g # NoAttempt => g[1] = n /\ GrantIndex(r, g) # 0
<1> DEFINE I == {j \in DOMAIN r.grants : r.grants[j].request[1] = n /\ r.grants[j].spent = NoAttempt}
           i == First(I)
<1>1. r.grants \in Seq(Grants) /\ Len(r.grants) \in Nat /\ DOMAIN r.grants = 1..Len(r.grants)
  BY DEF Runs
<1>2. /\ I \in SUBSET (1..Len(r.grants))
      /\ \A j \in I : r.grants[j].request[1] = n
  BY <1>1
<1>3. g = IF i = 0 THEN NoAttempt ELSE r.grants[i].request
  BY DEF PendingGrantFor
<1> HIDE DEF I
<1>4. i \in 0..Len(r.grants) /\ (i # 0 => i \in I)
  BY <1>1, <1>2, FirstOf
<1>5. CASE i = 0
  BY <1>3, <1>5
<1>6. CASE i # 0
  <2>1. i \in I /\ i \in 1..Len(r.grants) /\ g = r.grants[i].request
    BY <1>1, <1>3, <1>6, <1>4
  <2>2. g[1] = n
    BY <1>2, <2>1
  <2>3. g \in AttemptIds
    <3>1. r.grants[i] \in Grants
      BY <1>1, <2>1, ElementOfSeq
    <3> QED
      BY <2>1, <3>1 DEF Grants
  <2>4. GrantIndex(r, g) # 0
    BY <2>1, GrantIndexIs
  <2> QED
    BY <2>2, <2>3, <2>4
<1> QED
  BY <1>5, <1>6

=============================================================================
