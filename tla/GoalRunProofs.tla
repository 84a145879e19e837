----------------------------- MODULE GoalRunProofs -----------------------------
(***************************************************************************)
(* The safety of GoalRun, for every plan, budget, number of approvals and  *)
(* of troubles.                                                            *)
(*                                                                         *)
(* run.json is written whole from copies, and resume, approve, its         *)
(* amendment and approve-action take no lease: what the record says is     *)
(* kept only if two verbs do not overlap.  OneVerb is that hypothesis, the *)
(* operator's; the run GoalRunOverlap shows what happens without it.  The  *)
(* verb may still die at any step, and leave its children running.  STOP   *)
(* is honoured without the hypothesis, by the lease alone.                 *)
(***************************************************************************)
EXTENDS GoalRunTyping

-----------------------------------------------------------------------------
(* What a run record may say, beside the sessions D spawned and L running *)

\* Only the last attempt of a node is open, and the node is then running; a
\* completed node's last attempt passed.
NodesSound(r) ==
    \A n \in Nodes :
        /\ \A i \in 1..AttemptCount(r, n) : AttemptOf(r, <<n, i>>).result \in OpenResults =>
              i = AttemptCount(r, n) /\ r.nodes[n].state = "running"
        /\ r.nodes[n].state = "completed" =>
              /\ AttemptCount(r, n) > 0
              /\ AttemptOf(r, <<n, AttemptCount(r, n)>>).result = "passed"

\* LiveChildKept, of a record and the sessions that run.
Kept(r, L) ==
    \A s \in L : s.at[2] <= AttemptCount(r, s.at[1]) /\ AttemptOf(r, s.at).pid =>
        s.at \in UnsettledAttempts(r) /\ r.nodes[s.at[1]].state = "running"

\* AttemptBudget, of a record.
Budgeted(r) ==
    \A n \in Nodes : AttemptCount(r, n) > 0 =>
        \E i \in DOMAIN r.approvals : AttemptCount(r, n) <= r.approvals[i].budgets.attempts

\* The approval in force was granted.
Bound(r) ==
    r.approved # NoEnvelope => \E i \in DOMAIN r.approvals : r.approvals[i] = r.approved

\* Every session spawned: its attempt, its approval, its grant and what it
\* depended on are in the record.
Recorded(r, D) == \A s \in D : s.at[2] <= AttemptCount(r, s.at[1])

Approving(r, D) == \A s \in D : \E i \in DOMAIN r.approvals : r.approvals[i] = s.env

Granted(r, D) ==
    \A s \in D : s.grant # NoAttempt =>
        /\ s.grant[1] = s.at[1]
        /\ GrantIndex(r, s.grant) # 0
        /\ r.grants[GrantIndex(r, s.grant)].spent = s.at

DependedOn(r, D) ==
    \A s \in D : \A d \in DependsOn[s.at[1]] :
        \E i \in 1..AttemptCount(r, d) : r.nodes[d].attempts[i].result = "passed"

Past(r, D) == Recorded(r, D) /\ Approving(r, D) /\ Granted(r, D) /\ DependedOn(r, D)

Sound(r, D, L) == NodesSound(r) /\ Kept(r, L) /\ Budgeted(r) /\ Bound(r) /\ Past(r, D)

-----------------------------------------------------------------------------
(* What a write may do to a record *)

NodesKept(q, r) ==
    \A n \in Nodes :
        /\ AttemptCount(r, n) <= AttemptCount(q, n)
        /\ \A i \in 1..AttemptCount(r, n) : AttemptOf(r, <<n, i>>).result \notin OpenResults =>
              AttemptOf(q, <<n, i>>) = AttemptOf(r, <<n, i>>)

ApprovalsKept(q, r) ==
    /\ Len(r.approvals) <= Len(q.approvals)
    /\ \A i \in 1..Len(r.approvals) : q.approvals[i] = r.approvals[i]

GrantsKept(q, r) ==
    /\ Len(r.grants) <= Len(q.grants)
    /\ \A i \in 1..Len(r.grants) :
          /\ q.grants[i].request = r.grants[i].request
          /\ r.grants[i].spent # NoAttempt => q.grants[i] = r.grants[i]

Keeps(q, r) == NodesKept(q, r) /\ ApprovalsKept(q, r) /\ GrantsKept(q, r)

LEMMA PastKept ==
    ASSUME NEW r \in Runs, NEW q \in Runs, NEW D \in SUBSET Sessions, Keeps(q, r), Past(r, D)
    PROVE  Past(q, D)
<1> USE DEF Keeps, Past
<1>1. \A s \in D : s.at \in AttemptIds /\ s.at[1] \in Nodes /\ s.at[2] \in Nat /\ s.at # NoAttempt
  BY DEF Sessions, AttemptIds, NoAttempt
<1>2. \A n \in Nodes : AttemptCount(r, n) \in Nat /\ AttemptCount(q, n) \in Nat
  BY AttemptTypes
<1>3. /\ Len(r.approvals) \in Nat /\ DOMAIN r.approvals = 1..Len(r.approvals)
      /\ Len(q.approvals) \in Nat /\ DOMAIN q.approvals = 1..Len(q.approvals)
      /\ Len(r.grants) \in Nat
  BY DEF Runs
<1>4. Recorded(q, D)
  BY <1>1, <1>2 DEF Recorded, NodesKept
<1>5. Approving(q, D)
  BY <1>3 DEF Approving, ApprovalsKept
<1>6. Granted(q, D)
  <2> SUFFICES ASSUME NEW s \in D, s.grant # NoAttempt
               PROVE  /\ s.grant[1] = s.at[1]
                      /\ GrantIndex(q, s.grant) # 0
                      /\ q.grants[GrantIndex(q, s.grant)].spent = s.at
    BY DEF Granted
  <2> DEFINE k == GrantIndex(r, s.grant)
  <2>1. s.grant[1] = s.at[1] /\ k # 0 /\ r.grants[k].spent = s.at
    BY DEF Granted
  <2>2. GrantIndex(q, s.grant) = k
    BY <2>1, GrantIndexKept DEF GrantsKept
  <2>3. k \in 0..Len(r.grants)
    BY GrantIndexIs
  <2> HIDE DEF k
  <2>4. q.grants[k] = r.grants[k]
    BY <1>1, <1>3, <2>1, <2>3 DEF GrantsKept
  <2> QED
    BY <2>1, <2>2, <2>4
<1>7. DependedOn(q, D)
  <2> SUFFICES ASSUME NEW s \in D, NEW d \in DependsOn[s.at[1]]
               PROVE  \E i \in 1..AttemptCount(q, d) : q.nodes[d].attempts[i].result = "passed"
    BY DEF DependedOn
  <2>1. d \in Nodes
    BY <1>1, GoalStateAssumption
  <2>2. PICK i \in 1..AttemptCount(r, d) : r.nodes[d].attempts[i].result = "passed"
    BY DEF DependedOn
  <2>3. AttemptOf(r, <<d, i>>) = r.nodes[d].attempts[i] /\ AttemptOf(q, <<d, i>>) = q.nodes[d].attempts[i]
    BY DEF AttemptOf
  <2>4. q.nodes[d].attempts[i].result = "passed"
    BY <2>1, <2>2, <2>3 DEF NodesKept, OpenResults
  <2> QED
    BY <1>2, <2>1, <2>2, <2>4 DEF NodesKept
<1> QED
  BY <1>4, <1>5, <1>6, <1>7

LEMMA SameNodesSound ==
    ASSUME NEW r \in Runs, NEW q \in Runs, NEW D \in SUBSET Sessions, NEW L \in SUBSET D,
           Sound(r, D, L), q.nodes = r.nodes, ApprovalsKept(q, r), GrantsKept(q, r), Bound(q)
    PROVE  Sound(q, D, L) /\ Keeps(q, r)
<1>1. \A n : AttemptCount(q, n) = AttemptCount(r, n)
  BY DEF AttemptCount
<1>2. \A a : AttemptOf(q, a) = AttemptOf(r, a)
  BY DEF AttemptOf
<1>3. UnsettledAttempts(q) = UnsettledAttempts(r)
  BY <1>1, <1>2 DEF UnsettledAttempts
<1>4. NodesKept(q, r)
  BY <1>1, <1>2, AttemptTypes DEF NodesKept
<1>5. Keeps(q, r)
  BY <1>4 DEF Keeps
<1>6. NodesSound(q)
  BY <1>1, <1>2 DEF Sound, NodesSound
<1>7. Kept(q, L)
  BY <1>1, <1>2, <1>3 DEF Sound, Kept
<1>8. Budgeted(q)
  <2>1. /\ Len(r.approvals) \in Nat /\ DOMAIN r.approvals = 1..Len(r.approvals)
        /\ Len(q.approvals) \in Nat /\ DOMAIN q.approvals = 1..Len(q.approvals)
    BY DEF Runs
  <2> QED
    BY <1>1, <2>1 DEF Sound, Budgeted, ApprovalsKept
<1>9. Past(q, D)
  BY <1>5, PastKept DEF Sound
<1> QED
  BY <1>5, <1>6, <1>7, <1>8, <1>9 DEF Sound


\* A phase, an approval taken back, a divergence: nothing of the past.
LEMMA HistorySound ==
    ASSUME NEW r \in Runs, NEW q \in Runs, NEW D \in SUBSET Sessions, NEW L \in SUBSET D,
           Sound(r, D, L), SameNodesAndHistory(q, r), q.approved \in {r.approved, NoEnvelope}
    PROVE  Sound(q, D, L) /\ Keeps(q, r)
<1>1. q.nodes = r.nodes /\ ApprovalsKept(q, r) /\ GrantsKept(q, r)
  BY DEF SameNodesAndHistory, ApprovalsKept, GrantsKept, Runs
<1>2. Bound(q)
  BY DEF SameNodesAndHistory, Bound, Sound
<1> QED
  BY <1>1, <1>2, SameNodesSound

LEMMA ApproveSound ==
    ASSUME NEW r \in Runs, NEW e \in Envelopes, NEW D \in SUBSET Sessions, NEW L \in SUBSET D,
           Sound(r, D, L), NEW q, q = ApproveEnvelope(r, e)
    PROVE  Sound(q, D, L) /\ Keeps(q, r)
<1>1. /\ q \in Runs /\ q.nodes = r.nodes /\ q.grants = r.grants /\ q.approved = e
      /\ q.approvals = Append(r.approvals, e)
  BY ApproveDoes
<1>2. /\ r.approvals \in Seq(Envelopes) /\ Len(r.approvals) \in Nat
      /\ Len(q.approvals) = Len(r.approvals) + 1 /\ q.approvals[Len(r.approvals) + 1] = e
      /\ \A i \in 1..Len(r.approvals) : q.approvals[i] = r.approvals[i]
      /\ DOMAIN q.approvals = 1..Len(q.approvals)
  BY <1>1, AppendProperties DEF Runs
<1>3. ApprovalsKept(q, r) /\ GrantsKept(q, r)
  BY <1>1, <1>2 DEF ApprovalsKept, GrantsKept, Runs
<1>4. Bound(q)
  BY <1>1, <1>2 DEF Bound
<1> QED
  BY <1>1, <1>3, <1>4, SameNodesSound

LEMMA GrantSound ==
    ASSUME NEW r \in Runs, NEW g \in AttemptIds, NEW D \in SUBSET Sessions, NEW L \in SUBSET D,
           Sound(r, D, L), NEW q, q = [r EXCEPT !.grants = Append(r.grants, Grant(g))]
    PROVE  Sound(q, D, L) /\ Keeps(q, r)
<1>1. /\ q \in Runs /\ SameButGrants(q, r) /\ Len(q.grants) = Len(r.grants) + 1
      /\ \A i \in 1..Len(r.grants) : q.grants[i] = r.grants[i]
  BY GrantDoes
<1>2. ApprovalsKept(q, r) /\ GrantsKept(q, r)
  BY <1>1 DEF SameButGrants, ApprovalsKept, GrantsKept, Runs
<1>3. Bound(q)
  BY <1>1 DEF SameButGrants, Bound, Sound
<1> QED
  BY <1>1, <1>2, <1>3, SameNodesSound DEF SameButGrants

LEMMA ConsumeSound ==
    ASSUME NEW r \in Runs, NEW g, NEW a \in AttemptIds, NEW D \in SUBSET Sessions, NEW L \in SUBSET D,
           Sound(r, D, L), GrantIndex(r, g) # 0, GrantSpendable(r, g), NEW q, q = ConsumeGrant(r, g, a)
    PROVE  /\ Sound(q, D, L) /\ Keeps(q, r)
           /\ GrantIndex(q, g) # 0 /\ q.grants[GrantIndex(q, g)].spent = a
<1> DEFINE k == GrantIndex(r, g)
<1>1. k \in 0..Len(r.grants) /\ (k # 0 => r.grants[k].request = g)
  BY GrantIndexIs
<1>2. k # 0 /\ r.grants[k].spent = NoAttempt
  BY DEF GrantSpendable
<1>3. /\ q \in Runs /\ SameButGrants(q, r) /\ Len(q.grants) = Len(r.grants)
      /\ \A i \in 1..Len(r.grants) :
            q.grants[i] = IF i = k THEN [request |-> g, spent |-> a] ELSE r.grants[i]
  BY ConsumeDoes DEF Spent
<1>4. Len(r.grants) \in Nat
  BY DEF Runs
<1>5. ApprovalsKept(q, r)
  BY <1>3 DEF SameButGrants, ApprovalsKept, Runs
<1>6. \A i \in 1..Len(r.grants) : /\ q.grants[i].request = r.grants[i].request
                                  /\ r.grants[i].spent # NoAttempt => q.grants[i] = r.grants[i]
  <2> HIDE DEF k
  <2> QED
    BY <1>1, <1>2, <1>3
<1>7. GrantsKept(q, r)
  BY <1>3, <1>4, <1>6 DEF GrantsKept
<1>8. Bound(q)
  BY <1>3 DEF SameButGrants, Bound, Sound
<1>9. Sound(q, D, L) /\ Keeps(q, r)
  BY <1>3, <1>5, <1>7, <1>8, SameNodesSound DEF SameButGrants
<1>10. GrantIndex(q, g) = k
  BY <1>2, <1>3, <1>4, <1>6, GrantIndexKept
<1>11. q.grants[k].spent = a
  <2> HIDE DEF k
  <2> QED
    BY <1>1, <1>2, <1>3, <1>4
<1> QED
  BY <1>2, <1>9, <1>10, <1>11

LEMMA StartSound ==
    ASSUME NEW r \in Runs, NEW n \in Nodes, NEW D \in SUBSET Sessions, NEW L \in SUBSET D,
           Sound(r, D, L), r.nodes[n].state # "running",
           NEW i \in DOMAIN r.approvals, AttemptCount(r, n) < r.approvals[i].budgets.attempts,
           NEW q, q = StartAttempt(r, n)
    PROVE  Sound(q, D, L) /\ Keeps(q, r)
<1>1. /\ q \in Runs /\ SameButNodes(q, r)
      /\ \A m \in Nodes \ {n} : q.nodes[m] = r.nodes[m]
      /\ q.nodes[n].state = "running"
      /\ AttemptCount(q, n) = AttemptCount(r, n) + 1
      /\ \A j \in 1..AttemptCount(r, n) : AttemptOf(q, <<n, j>>) = AttemptOf(r, <<n, j>>)
      /\ AttemptOf(q, <<n, AttemptCount(q, n)>>) = [result |-> "dispatched", pid |-> FALSE]
  BY StartAttemptDoes DEF Opened
<1>2. \A m \in Nodes : AttemptCount(r, m) \in Nat /\ AttemptCount(q, m) \in Nat
  BY <1>1, AttemptTypes
<1>3. \A m \in Nodes \ {n} : /\ AttemptCount(q, m) = AttemptCount(r, m)
                             /\ \A j : AttemptOf(q, <<m, j>>) = AttemptOf(r, <<m, j>>)
  BY <1>1 DEF AttemptCount, AttemptOf
<1>4. NodesKept(q, r)
  BY <1>1, <1>2, <1>3 DEF NodesKept
<1>5. ApprovalsKept(q, r) /\ GrantsKept(q, r) /\ Bound(q)
  BY <1>1 DEF SameButNodes, ApprovalsKept, GrantsKept, Bound, Sound, Runs
<1>6. Past(q, D) /\ Keeps(q, r)
  BY <1>1, <1>4, <1>5, PastKept DEF Sound, Keeps
<1>7. \A j \in 1..AttemptCount(r, n) : AttemptOf(r, <<n, j>>).result \notin OpenResults
  BY DEF Sound, NodesSound
<1>8. NodesSound(q)
  <2> SUFFICES ASSUME NEW m \in Nodes
               PROVE  /\ \A j \in 1..AttemptCount(q, m) : AttemptOf(q, <<m, j>>).result \in OpenResults =>
                            j = AttemptCount(q, m) /\ q.nodes[m].state = "running"
                      /\ q.nodes[m].state = "completed" =>
                            /\ AttemptCount(q, m) > 0
                            /\ AttemptOf(q, <<m, AttemptCount(q, m)>>).result = "passed"
    BY DEF NodesSound
  <2>1. CASE m = n
    BY <1>1, <1>2, <1>7, <2>1
  <2>2. CASE m # n
    BY <1>1, <1>3, <2>2 DEF Sound, NodesSound
  <2> QED
    BY <2>1, <2>2
<1>9. Kept(q, L)
  <2> SUFFICES ASSUME NEW s \in L, s.at[2] <= AttemptCount(q, s.at[1]), AttemptOf(q, s.at).pid
               PROVE  s.at \in UnsettledAttempts(q) /\ q.nodes[s.at[1]].state = "running"
    BY DEF Kept
  <2>1. s.at \in AttemptIds /\ s.at = <<s.at[1], s.at[2]>> /\ s.at[1] \in Nodes /\ s.at[2] \in Nat \ {0}
    BY DEF Sessions, AttemptIds
  <2>2. s.at[2] <= AttemptCount(r, s.at[1])
    BY DEF Sound, Past, Recorded
  <2>3. AttemptOf(q, s.at) = AttemptOf(r, s.at)
    BY <1>1, <1>2, <1>3, <2>1, <2>2
  <2>4. s.at \in UnsettledAttempts(r) /\ r.nodes[s.at[1]].state = "running"
    BY <2>2, <2>3 DEF Sound, Kept
  <2>5. s.at[1] # n
    BY <2>4
  <2> QED
    BY <1>1, <1>3, <2>1, <2>4, <2>5 DEF UnsettledAttempts
<1>10. Budgeted(q)
  <2> SUFFICES ASSUME NEW m \in Nodes, AttemptCount(q, m) > 0
               PROVE  \E j \in DOMAIN q.approvals : AttemptCount(q, m) <= q.approvals[j].budgets.attempts
    BY DEF Budgeted
  <2>1. q.approvals = r.approvals
    BY <1>1 DEF SameButNodes
  <2>2. CASE m = n
    <3>1. r.approvals[i].budgets.attempts \in Nat
      <4>1. r.approvals[i] \in Envelopes
        BY DEF Runs
      <4> QED
        BY <4>1, GoalStateAssumption DEF Envelopes
    <3>2. AttemptCount(q, n) <= r.approvals[i].budgets.attempts
      BY <1>1, <1>2, <3>1
    <3> QED
      BY <2>1, <2>2, <3>2
  <2>3. CASE m # n
    BY <1>3, <2>1, <2>3 DEF Sound, Budgeted
  <2> QED
    BY <2>2, <2>3
<1> QED
  BY <1>5, <1>6, <1>8, <1>9, <1>10 DEF Sound


\* The open attempt of a node is rewritten: what ends is of no child that runs.
LEMMA RewriteSound ==
    ASSUME NEW r \in Runs, NEW a \in AttemptIds, NEW D \in SUBSET Sessions, NEW L \in SUBSET D,
           Sound(r, D, L), a \in UnsettledAttempts(r),
           NEW x \in Attempts, NEW st \in NodeStates, NEW q, Rewritten(q, r, a[1], a[2], x, st),
           x.result \in OpenResults => st = "running",
           st = "completed" => x.result = "passed",
           x.result \notin OpenResults /\ x.pid => \A s \in L : s.at # a
    PROVE  Sound(q, D, L) /\ Keeps(q, r)
<1> DEFINE n == a[1]
           i == a[2]
<1>1. n \in Nodes /\ i \in Nat \ {0} /\ a = <<n, i>>
  BY DEF AttemptIds
<1>2. /\ q \in Runs /\ SameButNodes(q, r)
      /\ \A m \in Nodes \ {n} : q.nodes[m] = r.nodes[m]
      /\ q.nodes[n].state = st
      /\ AttemptCount(q, n) = AttemptCount(r, n)
      /\ \A j \in 1..AttemptCount(r, n) :
            AttemptOf(q, <<n, j>>) = IF j = i THEN x ELSE AttemptOf(r, <<n, j>>)
  BY DEF Rewritten
<1>3. \A m \in Nodes : AttemptCount(r, m) \in Nat /\ AttemptCount(q, m) \in Nat
  BY <1>2, AttemptTypes
<1>4. AttemptOf(r, a).result \in OpenResults /\ i \in 1..AttemptCount(r, n)
  BY <1>1 DEF UnsettledAttempts
<1>5. i = AttemptCount(r, n)
  BY <1>1, <1>4 DEF Sound, NodesSound
<1>6. \A m \in Nodes \ {n} : /\ AttemptCount(q, m) = AttemptCount(r, m)
                             /\ \A j : AttemptOf(q, <<m, j>>) = AttemptOf(r, <<m, j>>)
  BY <1>2 DEF AttemptCount, AttemptOf
<1> HIDE DEF n, i
<1>7. NodesKept(q, r)
  <2> SUFFICES ASSUME NEW m \in Nodes
               PROVE  /\ AttemptCount(r, m) <= AttemptCount(q, m)
                      /\ \A j \in 1..AttemptCount(r, m) : AttemptOf(r, <<m, j>>).result \notin OpenResults =>
                            AttemptOf(q, <<m, j>>) = AttemptOf(r, <<m, j>>)
    BY DEF NodesKept
  <2>1. CASE m = n
    BY <1>1, <1>2, <1>3, <1>4, <2>1
  <2>2. CASE m # n
    BY <1>3, <1>6, <2>2
  <2> QED
    BY <2>1, <2>2
<1>8. ApprovalsKept(q, r) /\ GrantsKept(q, r) /\ Bound(q)
  BY <1>2 DEF SameButNodes, ApprovalsKept, GrantsKept, Bound, Sound, Runs
<1>9. Past(q, D) /\ Keeps(q, r)
  BY <1>2, <1>7, <1>8, PastKept DEF Sound, Keeps
<1>10. NodesSound(q)
  <2> SUFFICES ASSUME NEW m \in Nodes
               PROVE  /\ \A j \in 1..AttemptCount(q, m) : AttemptOf(q, <<m, j>>).result \in OpenResults =>
                            j = AttemptCount(q, m) /\ q.nodes[m].state = "running"
                      /\ q.nodes[m].state = "completed" =>
                            /\ AttemptCount(q, m) > 0
                            /\ AttemptOf(q, <<m, AttemptCount(q, m)>>).result = "passed"
    BY DEF NodesSound
  <2>1. CASE m = n
    <3>1. \A j \in 1..AttemptCount(q, n) : AttemptOf(q, <<n, j>>).result \in OpenResults =>
             j = AttemptCount(q, n) /\ q.nodes[n].state = "running"
      BY <1>1, <1>2, <1>3, <1>5 DEF Sound, NodesSound
    <3>2. q.nodes[n].state = "completed" =>
             /\ AttemptCount(q, n) > 0
             /\ AttemptOf(q, <<n, AttemptCount(q, n)>>).result = "passed"
      BY <1>1, <1>2, <1>3, <1>4, <1>5
    <3> QED
      BY <2>1, <3>1, <3>2
  <2>2. CASE m # n
    BY <1>2, <1>6, <2>2 DEF Sound, NodesSound
  <2> QED
    BY <2>1, <2>2
<1>11. Kept(q, L)
  <2> SUFFICES ASSUME NEW s \in L, s.at[2] <= AttemptCount(q, s.at[1]), AttemptOf(q, s.at).pid
               PROVE  s.at \in UnsettledAttempts(q) /\ q.nodes[s.at[1]].state = "running"
    BY DEF Kept
  <2>1. s.at \in AttemptIds /\ s.at = <<s.at[1], s.at[2]>> /\ s.at[1] \in Nodes /\ s.at[2] \in Nat \ {0}
    BY DEF Sessions, AttemptIds
  <2>2. CASE s.at = a
    <3>1. s.at[1] = n /\ s.at[2] = i /\ AttemptOf(q, s.at) = x
      BY <1>1, <1>2, <1>4, <2>2 DEF n, i
    <3>2. x.result \in OpenResults
      BY <2>2, <3>1
    <3> QED
      BY <1>1, <1>2, <1>4, <2>1, <3>1, <3>2 DEF UnsettledAttempts
  <2>3. CASE s.at # a
    <3>1. AttemptOf(q, s.at) = AttemptOf(r, s.at) /\ AttemptCount(q, s.at[1]) = AttemptCount(r, s.at[1])
      BY <1>1, <1>2, <1>3, <1>6, <2>1, <2>3
    <3>2. s.at \in UnsettledAttempts(r) /\ r.nodes[s.at[1]].state = "running"
      BY <3>1 DEF Sound, Kept
    <3>3. s.at[2] \in 1..AttemptCount(r, s.at[1]) /\ AttemptOf(r, s.at).result \in OpenResults
      BY <2>1, <3>2 DEF UnsettledAttempts
    <3>4. s.at[1] # n
      BY <1>1, <1>5, <2>1, <2>3, <3>3 DEF Sound, NodesSound
    <3> QED
      BY <1>2, <1>6, <2>1, <3>1, <3>2, <3>3, <3>4 DEF UnsettledAttempts
  <2> QED
    BY <2>2, <2>3
<1>12. Budgeted(q)
  <2>1. q.approvals = r.approvals
    BY <1>2 DEF SameButNodes
  <2>2. \A m \in Nodes : AttemptCount(q, m) = AttemptCount(r, m)
    BY <1>2, <1>6
  <2> QED
    BY <2>1, <2>2 DEF Sound, Budgeted
<1> QED
  BY <1>8, <1>9, <1>10, <1>11, <1>12 DEF Sound

LEMMA RecordSound ==
    ASSUME NEW r \in Runs, NEW a \in AttemptIds, NEW D \in SUBSET Sessions, NEW L \in SUBSET D,
           Sound(r, D, L), a \in UnsettledAttempts(r), NEW pid \in BOOLEAN,
           NEW q, q = RecordAttemptProcess(r, a, pid)
    PROVE  Sound(q, D, L) /\ Keeps(q, r)
<1> DEFINE x == [result |-> "running", pid |-> pid]
           st == r.nodes[a[1]].state
<1>1. Rewritten(q, r, a[1], a[2], x, st)
  BY RecordDoes
<1>2. x \in Attempts /\ x.result \in OpenResults
  BY DEF Attempts, OpenResults
<1>3. st = "running" /\ st \in NodeStates
  BY UnsettledIs DEF Sound, NodesSound, NodeStates
<1> HIDE DEF x, st
<1> QED
  BY <1>1, <1>2, <1>3, RewriteSound

LEMMA FinishSound ==
    ASSUME NEW r \in Runs, NEW a \in AttemptIds, NEW D \in SUBSET Sessions, NEW L \in SUBSET D,
           Sound(r, D, L), a \in UnsettledAttempts(r), AttemptOf(r, a).pid => \A s \in L : s.at # a,
           NEW result \in {"passed", "failed", "errored"}, NEW q, q = FinishAttempt(r, a, result)
    PROVE  Sound(q, D, L) /\ Keeps(q, r)
<1> DEFINE x == [result |-> result, pid |-> AttemptOf(r, a).pid]
<1>1. AttemptOf(r, a) \in Attempts /\ a[2] <= AttemptCount(r, a[1])
  BY UnsettledIs, AttemptTypes
<1>2. Rewritten(q, r, a[1], a[2], x, Settled(result))
  BY <1>1, FinishDoes
<1>3. x \in Attempts /\ x.result = result /\ x.pid = AttemptOf(r, a).pid
  BY <1>1 DEF Attempts
<1>4. Settled(result) \in NodeStates /\ (Settled(result) = "completed" => result = "passed")
  BY DEF Settled, NodeStates
<1>5. result \notin OpenResults
  BY DEF OpenResults
<1> HIDE DEF x
<1> QED
  BY <1>2, <1>3, <1>4, <1>5, RewriteSound

LEMMA ReopenSound ==
    ASSUME NEW r \in Runs, NEW S \in SUBSET Nodes, NEW D \in SUBSET Sessions, NEW L \in SUBSET D,
           Sound(r, D, L), AllNodesComplete(r), NEW q, q = ReopenNodes(r, S)
    PROVE  Sound(q, D, L) /\ Keeps(q, r)
<1>1. /\ q \in Runs /\ SameButNodes(q, r)
      /\ \A n \in Nodes : q.nodes[n] = IF n \in S THEN [state |-> "failed", attempts |-> r.nodes[n].attempts]
                                                  ELSE r.nodes[n]
  BY ReopenDoes
<1>2. ASSUME NEW n \in Nodes
      PROVE  q.nodes[n].attempts = r.nodes[n].attempts /\ q.nodes[n].state \in {"failed", r.nodes[n].state}
  <2>1. CASE n \in S
    <3>1. q.nodes[n] = [state |-> "failed", attempts |-> r.nodes[n].attempts]
      BY <1>1, <2>1
    <3> QED
      BY <3>1
  <2>2. CASE n \notin S
    BY <1>1, <2>2
  <2> QED
    BY <2>1, <2>2
<1>3. \A n \in Nodes : AttemptCount(q, n) = AttemptCount(r, n) /\ AttemptCount(r, n) \in Nat
  BY <1>2, AttemptTypes DEF AttemptCount
<1>4. \A n \in Nodes : \A i : AttemptOf(q, <<n, i>>) = AttemptOf(r, <<n, i>>)
  BY <1>2 DEF AttemptOf
<1>5. NodesKept(q, r)
  BY <1>3, <1>4 DEF NodesKept
<1>6. ApprovalsKept(q, r) /\ GrantsKept(q, r) /\ Bound(q)
  BY <1>1 DEF SameButNodes, ApprovalsKept, GrantsKept, Bound, Sound, Runs
<1>7. Past(q, D) /\ Keeps(q, r)
  BY <1>1, <1>5, <1>6, PastKept DEF Sound, Keeps
<1>8. \A n \in Nodes : r.nodes[n].state = "completed"
  BY DEF AllNodesComplete
<1>9. NodesSound(q)
  BY <1>2, <1>3, <1>4, <1>8 DEF Sound, NodesSound
<1>10. Kept(q, L)
  <2>1. ASSUME NEW s \in L
        PROVE  s.at = <<s.at[1], s.at[2]>> /\ s.at[1] \in Nodes
    BY DEF Sessions, AttemptIds
  <2>2. ASSUME NEW s \in L, s.at[2] <= AttemptCount(q, s.at[1]), AttemptOf(q, s.at).pid
        PROVE  FALSE
    <3>1. AttemptCount(q, s.at[1]) = AttemptCount(r, s.at[1]) /\ AttemptOf(q, s.at) = AttemptOf(r, s.at)
      BY <1>3, <1>4, <2>1
    <3>2. r.nodes[s.at[1]].state = "running"
      BY <2>2, <3>1 DEF Sound, Kept
    <3> QED
      BY <1>8, <2>1, <3>2
  <2> QED
    BY <2>2 DEF Kept
<1>11. Budgeted(q)
  BY <1>1, <1>3 DEF Sound, Budgeted, SameButNodes
<1> QED
  BY <1>6, <1>7, <1>9, <1>10, <1>11 DEF Sound

\* A session that the record allows is spawned.
LEMMA SpawnSound ==
    ASSUME NEW r \in Runs, NEW D \in SUBSET Sessions, NEW L \in SUBSET D, Sound(r, D, L),
           NEW s \in Sessions, s.at[2] <= AttemptCount(r, s.at[1]), ~AttemptOf(r, s.at).pid,
           \E i \in DOMAIN r.approvals : r.approvals[i] = s.env,
           s.grant # NoAttempt => /\ s.grant[1] = s.at[1]
                                  /\ GrantIndex(r, s.grant) # 0
                                  /\ r.grants[GrantIndex(r, s.grant)].spent = s.at,
           \A d \in DependsOn[s.at[1]] : r.nodes[d].state = "completed"
    PROVE  Sound(r, D \cup {s}, L \cup {s})
<1>1. Kept(r, L \cup {s})
  BY DEF Sound, Kept
<1>2. Recorded(r, D \cup {s}) /\ Approving(r, D \cup {s})
  BY DEF Sound, Past, Recorded, Approving
<1>3. Granted(r, D \cup {s})
  BY DEF Sound, Past, Granted
<1>4. DependedOn(r, D \cup {s})
  <2>1. ASSUME NEW d \in DependsOn[s.at[1]]
        PROVE  \E i \in 1..AttemptCount(r, d) : r.nodes[d].attempts[i].result = "passed"
    <3>1. d \in Nodes
      <4>1. s.at[1] \in Nodes
        BY DEF Sessions, AttemptIds
      <4> QED
        BY <4>1, GoalStateAssumption
    <3>2. AttemptCount(r, d) \in Nat
      BY <3>1, AttemptTypes
    <3>3. AttemptCount(r, d) > 0 /\ AttemptOf(r, <<d, AttemptCount(r, d)>>).result = "passed"
      BY <3>1 DEF Sound, NodesSound
    <3>4. AttemptOf(r, <<d, AttemptCount(r, d)>>) = r.nodes[d].attempts[AttemptCount(r, d)]
      BY DEF AttemptOf
    <3> QED
      BY <3>2, <3>3, <3>4
  <2> QED
    BY <2>1 DEF Sound, Past, DependedOn
<1> QED
  BY <1>1, <1>2, <1>3, <1>4 DEF Sound, Past

-----------------------------------------------------------------------------
(* The invariant of a run whose verbs do not overlap *)

\* An operator runs one verb at a time.
OneVerb == \A p, q \in Procs : pc[p] # "idle" /\ pc[q] # "idle" => p = q

\* One process is one operator.
LEMMA OneOperator ==
    ASSUME \A p, q \in Procs : p = q
    PROVE  []OneVerb
<1>1. OneVerb
  BY DEF OneVerb
<1> QED
  BY <1>1, PTL

\* What is verified is complete, and what is done was approved.
Phases(r) ==
    /\ r.phase \in {"final_verification", "done"} => AllNodesComplete(r)
    /\ r.phase = "done" => r.approved # NoEnvelope

\* An edit of the envelope is never undone but by an approval.
Scoped(e, r) == e.scope = "planned" => r.approved.scope # "edited"

\* What a process at a place may count on: the record r and the envelope e as
\* they are, the envelope v, the attempt c and the grant g it has in hand.
Placed(place, r, e, v, c, g, D) ==
    /\ place \in Looping => r.phase = "running"
    /\ place = "verify" => r.phase = "final_verification"
    /\ place \in {"lease", "stamp"} => r.phase \in {"running", "final_verification"}
    /\ place \in Loaded => Scoped(v, r) /\ (v.scope = "edited" => e.scope = "edited")
    /\ place \in InLease => v.budgets = e.budgets
    /\ place \in Deciding =>
          /\ v = r.approved
          /\ \A d \in DependsOn[c[1]] : r.nodes[d].state = "completed"
          /\ g # NoAttempt => g[1] = c[1] /\ GrantIndex(r, g) # 0
    /\ place = "open" => r.nodes[c[1]].state \notin {"running", "completed"}
    /\ place \in OnAttempt => c \in UnsettledAttempts(r)
    /\ place \in {"consume", "spawn"} => ~AttemptOf(r, c).pid /\ \A s \in D : s.at # c
    /\ place = "spawn" /\ g # NoAttempt => r.grants[GrantIndex(r, g)].spent = c

Place(p) == Placed(At(p), run, envelope, env[p], cur[p], grant[p], dispatched)

\* A running verb has run.json as it is, but for a divergence it is to stamp.
Copy(p) ==
    pc[p] # "idle" => mem[p] = IF pc[p] = "diverge" THEN [run EXCEPT !.diverged = TRUE] ELSE run

Inv ==
    /\ TypeInv
    /\ SpawnedOnce /\ Sound(run, dispatched, live) /\ Phases(run) /\ Scoped(envelope, run)
    /\ \A p \in Procs : Copy(p) /\ Place(p)

\* What is kept of the record.
HistoryStep == Keeps(run', run) /\ (run.phase = "done" => run'.phase = "done")

LEMMA Elsewhere ==
    ASSUME NEW place, place \notin Loaded \cup {"idle"}, NEW r, NEW e, NEW v, NEW c, NEW g, NEW D
    PROVE  Placed(place, r, e, v, c, g, D)
BY DEF Placed, Loaded, InLease, Looping, Deciding, OnAttempt

LEMMA Idle ==
    ASSUME NEW r, NEW e, NEW v, NEW c, NEW g, NEW D
    PROVE  Placed("idle", r, e, v, c, g, D)
BY DEF Placed, Loaded, InLease, Looping, Deciding, OnAttempt

LEMMA InitInv == Init => Inv
<1> SUFFICES ASSUME Init PROVE Inv
  OBVIOUS
<1>1. TypeInv
  BY InitTyped
<1>2. /\ run = Offered /\ live = {} /\ dispatched = {}
      /\ \A p \in Procs : pc[p] = "idle" /\ At(p) = "idle"
  BY DEF Init, At
<1>3. /\ \A n \in Nodes : AttemptCount(run, n) = 0 /\ run.nodes[n].state = "pending"
      /\ run.approved = NoEnvelope /\ run.phase = "awaiting_approval"
  BY <1>2 DEF Offered, AttemptCount
<1>4. Sound(run, dispatched, live)
  BY <1>2, <1>3 DEF Sound, NodesSound, Kept, Budgeted, Bound, Past, Recorded, Approving, Granted, DependedOn
<1>5. Phases(run) /\ Scoped(envelope, run) /\ SpawnedOnce
  BY <1>2, <1>3 DEF Phases, Scoped, NoEnvelope, SpawnedOnce
<1>6. \A p \in Procs : Copy(p) /\ Place(p)
  BY <1>2, Idle DEF Copy, Place
<1> QED
  BY <1>1, <1>4, <1>5, <1>6 DEF Inv

LEMMA StepInv ==
    ASSUME Inv, OneVerb, OneVerb', NEW p \in Procs, pc[p] # "idle" \/ pc'[p] # "idle", OthersKept(p),
           TypeInv', SpawnedOnce', Sound(run', dispatched', live'), Phases(run'), Scoped(envelope', run'),
           Copy(p)', Place(p)'
    PROVE  Inv'
<1>1. ASSUME NEW q \in Procs, q # p PROVE Copy(q)' /\ Place(q)'
  <2>1. pc'[q] = "idle" /\ (At(q))' = "idle"
    BY <1>1 DEF OneVerb, OthersKept, At
  <2> QED
    BY <2>1, Idle DEF Copy, Place
<1> QED
  BY <1>1 DEF Inv

LEMMA CommitInv ==
    ASSUME Inv, OneVerb, OneVerb', NEW p \in Procs, pc[p] # "idle", OthersKept(p), TypeInv',
           NEW r \in Runs, NEW next \in Places \ {"diverge", "grant", "idle"}, Awaited(r),
           Commit(p, r, next), UNCHANGED <<envelope, env, grant, live, dispatched>>,
           Sound(r, dispatched, live), Keeps(r, run), Phases(r), Scoped(envelope, r),
           run.phase = "done" => r.phase = "done",
           Placed(next, r, envelope, env[p], cur'[p], grant[p], dispatched)
    PROVE  Inv' /\ HistoryStep
<1>1. /\ run' = r /\ (At(p))' = next
      /\ mem'[p] = IF pc'[p] = "diverge" THEN [r EXCEPT !.diverged = TRUE] ELSE r
  BY CommitDoes DEF Inv
<1>2. Copy(p)'
  BY <1>1 DEF Copy
<1>3. Place(p)'
  BY <1>1 DEF Place
<1>4. SpawnedOnce'
  BY DEF Inv, SpawnedOnce
<1>5. Inv'
  BY <1>1, <1>2, <1>3, <1>4, StepInv
<1> QED
  BY <1>1, <1>5 DEF HistoryStep

\* A step of a process that writes no record.
LEMMA QuietInv ==
    ASSUME Inv, OneVerb, OneVerb', NEW p \in Procs, pc[p] # "idle" \/ pc'[p] # "idle", OthersKept(p), TypeInv',
           UNCHANGED <<run, envelope, live, dispatched>>, Copy(p)', Place(p)'
    PROVE  Inv' /\ HistoryStep
<1>1. SpawnedOnce'
  BY DEF Inv, SpawnedOnce
<1>2. Inv'
  BY <1>1, StepInv DEF Inv
<1>3. run \in Runs /\ SameNodesAndHistory(run, run)
  BY DEF Inv, TypeInv, GoalTypeOK, SameNodesAndHistory
<1>4. live \in SUBSET dispatched /\ dispatched \in SUBSET Sessions
  BY DEF Inv, TypeInv, GoalTypeOK
<1>5. Keeps(run, run)
  BY <1>3, <1>4, HistorySound DEF Inv
<1> QED
  BY <1>2, <1>5 DEF HistoryStep

\* A step of one process is its own: the others keep what they have.
LEMMA VerbOthers ==
    ASSUME TypeInv, NEW p \in Procs, Verb(p) \/ Crash(p)
    PROVE  OthersKept(p)
<1> USE DEF TypeInv, GoalTypeOK, OthersKept, Goto, Load, Quit, Commit, CommitMove, local, disk
<1>1. CASE StampDivergence(p) \/ Exit(p) \/ Crash(p)
  BY <1>1 DEF StampDivergence, Exit, Crash
<1>2. CASE LeaseStep(p)
  BY <1>2 DEF LeaseStep, LoadRun, AcquireLease, LeaseBusy, StampLease, FinallyRead, FinallyWrite, ReleaseLease
<1>3. CASE Gate(p)
  BY <1>3 DEF Gate, GateDiverged, GateStopped, GateBlocked, GateSpent, GateComplete, GateNode, GateLimit
<1>4. CASE AttemptStep(p)
  BY <1>4 DEF AttemptStep, RefuseAttempt, OpenAttempt, SpendGrant, Spawn, SpawnRefused, SpawnFails,
              RecordSpawn, Record, Settle, SettleHeld, Pause
<1>5. CASE Verify(p)
  BY <1>5 DEF Verify, VerifyBlocked, RejectedScopeChange, RejectedInScope, Approved
<1>6. CASE ResumeStep(p)
  BY <1>6 DEF ResumeStep, LoadResume, InspectLease, Abandon, ClearDivergence, Continue, ResumeRefuses
<1>7. CASE ApproveStep(p)
  BY <1>7 DEF ApproveStep, LoadApprove, Approve, LoadAmend, AmendEnvelope, Amend, LoadGrant,
              GrantAction, GrantResumes
<1> QED
  BY <1>1, <1>2, <1>3, <1>4, <1>5, <1>6, <1>7 DEF Verb

LEMMA Acting ==
    ASSUME Inv, NEW p \in Procs, pc[p] \notin {"idle", "diverge"}
    PROVE  /\ mem[p] = run /\ At(p) = pc[p]
           /\ run \in Runs /\ Awaited(run) /\ envelope \in Envelopes
           /\ dispatched \in SUBSET Sessions /\ live \in SUBSET dispatched /\ IsFiniteSet(dispatched)
           /\ Sound(run, dispatched, live) /\ Phases(run) /\ Scoped(envelope, run)
           /\ cur[p] \in AttemptIds \cup {NoAttempt} /\ grant[p] \in AttemptIds \cup {NoAttempt}
           /\ env[p] \in Envelopes \cup {NoEnvelope}
           /\ Local(p) /\ Placed(pc[p], run, envelope, env[p], cur[p], grant[p], dispatched)
<1>1. mem[p] = run /\ At(p) = pc[p]
  BY DEF Inv, Copy, At
<1>2. Local(p)
  BY DEF Inv, TypeInv
<1>3. Placed(pc[p], run, envelope, env[p], cur[p], grant[p], dispatched)
  BY <1>1 DEF Inv, Place
<1> QED
  BY <1>1, <1>2, <1>3 DEF Inv, TypeInv, GoalTypeOK

LEMMA MoveInv ==
    ASSUME Inv, OneVerb, OneVerb', NEW p \in Procs, pc[p] \notin {"idle", "diverge"}, OthersKept(p), TypeInv',
           NEW r \in Runs, NEW next \in Places \ {"diverge", "grant", "idle"}, next \notin Loaded,
           Awaited(r), CommitMove(p, r, next), UNCHANGED <<envelope, env, grant, live, dispatched>>,
           SameNodesAndHistory(r, run), r.approved \in {run.approved, NoEnvelope},
           r.phase \notin {"final_verification", "done"}
    PROVE  Inv' /\ HistoryStep
<1>1. /\ mem[p] = run /\ run \in Runs /\ Sound(run, dispatched, live) /\ Scoped(envelope, run)
      /\ dispatched \in SUBSET Sessions /\ live \in SUBSET dispatched
  BY Acting
<1>2. Commit(p, r, next) /\ run.phase # "done"
  BY <1>1 DEF CommitMove, TRANSITIONS
<1>3. Sound(r, dispatched, live) /\ Keeps(r, run)
  BY <1>1, HistorySound
<1>4. Phases(r) /\ Scoped(envelope, r)
  BY <1>1 DEF Phases, Scoped, NoEnvelope
<1>5. Placed(next, r, envelope, env[p], cur'[p], grant[p], dispatched)
  BY Elsewhere
<1> QED
  BY <1>2, <1>3, <1>4, <1>5, CommitInv

LEMMA QuitInv ==
    ASSUME Inv, OneVerb, OneVerb', NEW p \in Procs, pc[p] # "idle", OthersKept(p), TypeInv',
           Quit(p), UNCHANGED <<run, envelope, live, dispatched>>
    PROVE  Inv' /\ HistoryStep
<1>1. pc'[p] = "idle" /\ (At(p))' = "idle"
  BY DEF Quit, Goto, At, Inv, TypeInv, GoalTypeOK
<1>2. Copy(p)' /\ Place(p)'
  BY <1>1, Idle DEF Copy, Place
<1> QED
  BY <1>2, QuietInv

\* A step that only goes elsewhere.
LEMMA GoInv ==
    ASSUME Inv, OneVerb, OneVerb', NEW p \in Procs, pc[p] \notin {"idle", "diverge"}, OthersKept(p), TypeInv',
           NEW next \in Places \ {"idle", "diverge"}, next \notin Loaded, Goto(p, next),
           UNCHANGED <<run, envelope, live, dispatched>>, mem'[p] = run
    PROVE  Inv' /\ HistoryStep
<1>1. pc'[p] = next /\ (At(p))' = next
  BY DEF Goto, At, Inv, TypeInv, GoalTypeOK
<1>2. Copy(p)' /\ Place(p)'
  BY <1>1, Elsewhere DEF Copy, Place
<1> QED
  BY <1>2, QuietInv

LEMMA LeaseInv ==
    ASSUME Inv, OneVerb, OneVerb', NEW p \in Procs, LeaseStep(p), OthersKept(p), TypeInv'
    PROVE  Inv' /\ HistoryStep
<1> USE DEF disk, local, observed
<1>1. pc \in [Procs -> Places] /\ mem \in [Procs -> Runs] /\ env \in [Procs -> Envelopes \cup {NoEnvelope}]
  BY DEF Inv, TypeInv, GoalTypeOK
<1>2. CASE LoadRun(p)
  <2>1. /\ pc'[p] = "lease" /\ (At(p))' = "lease" /\ mem'[p] = run /\ env'[p] = envelope
        /\ run.phase \in {"running", "final_verification"}
        /\ UNCHANGED <<run, envelope, live, dispatched, cur, grant>>
    BY <1>1, <1>2 DEF LoadRun, Load, Goto, At
  <2>2. Copy(p)'
    BY <2>1 DEF Copy
  <2>3. Place(p)'
    BY <2>1 DEF Place, Placed, Inv, Scoped, Looping, Deciding, OnAttempt
  <2> QED
    BY <2>1, <2>2, <2>3, QuietInv
<1>3. CASE AcquireLease(p)
  <2>1. /\ pc[p] = "lease" /\ pc'[p] = "stamp" /\ (At(p))' = "stamp"
        /\ UNCHANGED <<run, envelope, live, dispatched, mem, env, cur, grant>>
    BY <1>1, <1>3 DEF AcquireLease, Goto, At
  <2>2. mem[p] = run /\ Placed("lease", run, envelope, env[p], cur[p], grant[p], dispatched)
    BY <2>1, Acting
  <2>3. Copy(p)'
    BY <2>1, <2>2 DEF Copy
  <2>4. Place(p)'
    BY <2>1, <2>2 DEF Place, Placed, Looping, Deciding, OnAttempt, InLease, Loaded
  <2> QED
    BY <2>1, <2>3, <2>4, QuietInv
<1>4. CASE LeaseBusy(p) \/ ReleaseLease(p)
  <2>1. pc[p] # "idle" /\ Quit(p) /\ UNCHANGED <<run, envelope, live, dispatched>>
    BY <1>4 DEF LeaseBusy, ReleaseLease
  <2> QED
    BY <2>1, QuitInv
<1>5. CASE StampLease(p)
  <2>1. /\ pc[p] = "stamp" /\ run' = mem[p]
        /\ pc'[p] = IF mem[p].phase = "final_verification" THEN "verify" ELSE "gate"
        /\ (At(p))' = pc'[p]
        /\ UNCHANGED <<envelope, live, dispatched, mem, env, cur, grant>>
    BY <1>1, <1>5 DEF StampLease, Goto, At
  <2>2. mem[p] = run /\ Placed("stamp", run, envelope, env[p], cur[p], grant[p], dispatched)
    BY <2>1, Acting
  <2>3. Copy(p)'
    BY <2>1, <2>2 DEF Copy
  <2>4. Place(p)'
    BY <2>1, <2>2 DEF Place, Placed, Looping, Deciding, OnAttempt, InLease, Loaded
  <2> QED
    BY <2>1, <2>2, <2>3, <2>4, QuietInv
<1>6. CASE FinallyRead(p)
  <2>1. /\ pc[p] = "finally" /\ Goto(p, "clear") /\ mem'[p] = run
        /\ UNCHANGED <<run, envelope, live, dispatched>>
    BY <1>1, <1>6 DEF FinallyRead
  <2> QED
    BY <2>1, GoInv DEF Places, Loaded, InLease, Looping
<1>7. CASE FinallyWrite(p)
  <2>1. /\ pc[p] = "clear" /\ Goto(p, "release") /\ run' = mem[p] /\ mem' = mem
        /\ UNCHANGED <<envelope, live, dispatched>>
    BY <1>7 DEF FinallyWrite
  <2>2. mem[p] = run
    BY <2>1, Acting
  <2> QED
    BY <2>1, <2>2, GoInv DEF Places, Loaded, InLease, Looping
<1> QED
  BY <1>2, <1>3, <1>4, <1>5, <1>6, <1>7 DEF LeaseStep

LEMMA GateInv ==
    ASSUME Inv, OneVerb, OneVerb', NEW p \in Procs, Gate(p), OthersKept(p), TypeInv'
    PROVE  Inv' /\ HistoryStep
<1> USE DEF disk, local, observed
<1>1. /\ pc[p] = "gate" /\ mem[p] = run /\ At(p) = "gate" /\ run \in Runs /\ Awaited(run) /\ Local(p)
      /\ Sound(run, dispatched, live) /\ Phases(run) /\ Scoped(envelope, run)
      /\ dispatched \in SUBSET Sessions /\ live \in SUBSET dispatched
      /\ env[p] \in Envelopes \cup {NoEnvelope} /\ envelope \in Envelopes
      /\ Placed("gate", run, envelope, env[p], cur[p], grant[p], dispatched)
      /\ UNCHANGED <<envelope, env, live, dispatched>>
      /\ pc \in [Procs -> Places] /\ cur \in [Procs -> AttemptIds \cup {NoAttempt}]
      /\ grant \in [Procs -> AttemptIds \cup {NoAttempt}]
  <2>1. pc[p] = "gate" /\ UNCHANGED <<envelope, env, live, dispatched>>
    BY DEF Gate, GateDiverged, GateStopped, GateBlocked, GateSpent, GateComplete, GateNode, GateLimit
  <2> QED
    BY <2>1, Acting DEF Inv, TypeInv, GoalTypeOK
<1>2. CASE GateStopped(p) \/ GateBlocked(p) \/ GateSpent(p)
  <2>1. PICK to \in {"stopped", "needs_user"} : CommitMove(p, Move(mem[p], to), "finally")
    BY <1>2 DEF GateStopped, GateBlocked, GateSpent
  <2>2. grant' = grant
    BY <1>2 DEF GateStopped, GateBlocked, GateSpent
  <2> DEFINE r == Move(mem[p], to)
  <2>3. r \in Runs /\ SameNodesAndHistory(r, run) /\ r.phase = to /\ r.approved = run.approved
    BY <1>1, MoveDoes DEF PHASES
  <2>4. Awaited(r)
    BY <2>3 DEF Awaited
  <2> HIDE DEF r
  <2> QED
    BY <1>1, <2>1, <2>2, <2>3, <2>4, MoveInv DEF r, Places, Loaded, InLease, Looping
<1>3. CASE GateComplete(p) /\ ~again[p]
  <2>1. /\ CommitMove(p, Move(mem[p], "final_verification"), "verify")
        /\ AllNodesComplete(run) /\ UNCHANGED <<grant, cur>>
    BY <1>1, <1>3 DEF GateComplete
  <2> DEFINE r == Move(mem[p], "final_verification")
  <2>2. r \in Runs /\ SameNodesAndHistory(r, run) /\ r.phase = "final_verification" /\ r.approved = run.approved
    BY <1>1, MoveDoes DEF PHASES
  <2>3. Awaited(r) /\ Phases(r) /\ Scoped(envelope, r)
    BY <1>1, <2>1, <2>2 DEF Awaited, Phases, Scoped, AllNodesComplete, SameNodesAndHistory
  <2>4. Sound(r, dispatched, live) /\ Keeps(r, run)
    BY <1>1, <2>2, HistorySound
  <2>5. Commit(p, r, "verify") /\ run.phase # "done"
    BY <1>1, <2>1 DEF CommitMove, TRANSITIONS
  <2> HIDE DEF r
  <2>6. Placed("verify", r, envelope, env[p], cur'[p], grant[p], dispatched)
    BY <1>1, <2>2 DEF Placed, Scoped, Looping, Deciding, OnAttempt, InLease, Loaded
  <2> QED
    BY <1>1, <2>1, <2>2, <2>3, <2>4, <2>5, <2>6, CommitInv DEF Places
<1>4. CASE GateDiverged(p) \/ GateLimit(p) \/ (GateComplete(p) /\ again[p])
  <2>1. Goto(p, "finally") /\ UNCHANGED <<run, mem>>
    BY <1>4 DEF GateDiverged, GateLimit, GateComplete
  <2> QED
    BY <1>1, <2>1, GoInv DEF Places, Loaded, InLease, Looping
<1>5. CASE GateNode(p)
  <2> DEFINE n == SelectReadyNode(mem[p])
             a == <<n, AttemptCount(mem[p], n) + 1>>
             g == PendingGrantFor(mem[p], n)
  <2>1. n \in Nodes /\ Ready(run, n)
    BY <1>1, <1>5, SelectedIsReady DEF GateNode
  <2>2. cur'[p] = a /\ grant'[p] = g /\ pc'[p] = "open" /\ (At(p))' = "open" /\ UNCHANGED <<run, mem>>
    BY <1>1, <1>5 DEF GateNode, Goto, At
  <2>3. g # NoAttempt => g[1] = n /\ GrantIndex(run, g) # 0
    BY <1>1, PendingGrantIs
  <2>4. a[1] = n
    OBVIOUS
  <2>5. envelope = run.approved /\ envelope # NoEnvelope
    BY <1>1, <1>5, NoEnvelopeApart DEF GateNode, Passes, ApprovalDrift
  <2>6. env[p] = run.approved
    <3>1. env[p] # NoEnvelope /\ env[p].budgets = envelope.budgets
          /\ Scoped(env[p], run) /\ (env[p].scope = "edited" => envelope.scope = "edited")
      BY <1>1 DEF Local, Placed, InLease, Loaded, Looping
    <3>2. env[p] \in Envelopes
      BY <1>1, <3>1
    <3> QED
      BY <1>1, <2>5, <3>1, <3>2 DEF Scoped, Envelopes
  <2> HIDE DEF n, a, g
  <2>7. Copy(p)'
    BY <1>1, <2>2 DEF Copy
  <2>8. Place(p)'
    BY <1>1, <2>1, <2>2, <2>3, <2>4, <2>6
       DEF Place, Placed, Ready, Looping, Deciding, OnAttempt, InLease, Loaded
  <2> QED
    BY <1>1, <2>2, <2>7, <2>8, QuietInv
<1> QED
  BY <1>2, <1>3, <1>4, <1>5 DEF Gate


\* A transition of nodes or grants in the loop.
LEMMA LoopInv ==
    ASSUME Inv, OneVerb, OneVerb', NEW p \in Procs, pc[p] \in Looping, OthersKept(p), TypeInv',
           NEW r \in Runs, NEW next \in Looping, Commit(p, r, next),
           UNCHANGED <<envelope, env, cur, grant, live, dispatched>>,
           r.phase = run.phase, r.approved = run.approved, r.request = run.request,
           Sound(r, dispatched, live), Keeps(r, run),
           next \in Deciding \cup OnAttempt => Placed(next, r, envelope, env[p], cur[p], grant[p], dispatched)
    PROVE  Inv' /\ HistoryStep
<1>1. /\ Awaited(run) /\ Scoped(envelope, run)
      /\ Placed(pc[p], run, envelope, env[p], cur[p], grant[p], dispatched)
  BY Acting DEF Looping
<1>2. run.phase = "running"
  BY <1>1 DEF Placed
<1>3. Awaited(r) /\ Phases(r) /\ Scoped(envelope, r)
  BY <1>1, <1>2 DEF Awaited, Phases, Scoped
<1>4. Placed(next, r, envelope, env[p], cur[p], grant[p], dispatched)
  <2>1. CASE next \in Deciding \cup OnAttempt
    BY <2>1
  <2>2. CASE next \notin Deciding \cup OnAttempt
    BY <1>1, <1>2, <2>2 DEF Placed, Deciding, OnAttempt, Looping, InLease, Loaded, Scoped
  <2> QED
    BY <2>1, <2>2
<1>5. pc[p] # "idle" /\ next \in Places \ {"diverge", "grant", "idle"}
  BY DEF Looping, Places
<1> QED
  BY <1>2, <1>3, <1>4, <1>5, CommitInv

LEMMA AttemptInv ==
    ASSUME Inv, OneVerb, OneVerb', NEW p \in Procs, AttemptStep(p), OthersKept(p), TypeInv'
    PROVE  Inv' /\ HistoryStep
<1> USE DEF disk, local, observed
<1>1. pc[p] \in Looping
  BY DEF AttemptStep, RefuseAttempt, OpenAttempt, SpendGrant, Spawn, SpawnRefused, SpawnFails, RecordSpawn,
         Settle, SettleHeld, SessionEnded, Pause, Looping
<1>2. /\ mem[p] = run /\ At(p) = pc[p] /\ run \in Runs /\ Awaited(run) /\ Local(p)
      /\ Sound(run, dispatched, live) /\ Phases(run) /\ Scoped(envelope, run)
      /\ dispatched \in SUBSET Sessions /\ live \in SUBSET dispatched
      /\ cur[p] \in AttemptIds \cup {NoAttempt} /\ grant[p] \in AttemptIds \cup {NoAttempt}
      /\ Placed(pc[p], run, envelope, env[p], cur[p], grant[p], dispatched)
      /\ pc \in [Procs -> Places] /\ pc[p] \notin {"idle", "diverge"}
  BY <1>1, Acting DEF Inv, TypeInv, GoalTypeOK, Looping
<1>3. CASE RefuseAttempt(p) \/ (pc[p] = "unreviewable" /\ Pause(p))
  <2> DEFINE r == Move(mem[p], "needs_user")
  <2>1. CommitMove(p, r, "finally") /\ UNCHANGED <<envelope, env, grant, live, dispatched>>
    BY <1>3 DEF RefuseAttempt, Pause
  <2>2. r \in Runs /\ SameNodesAndHistory(r, run) /\ r.phase = "needs_user" /\ r.approved = run.approved
    BY <1>2, MoveDoes DEF PHASES
  <2>3. Awaited(r)
    BY <2>2 DEF Awaited
  <2> HIDE DEF r
  <2> QED
    BY <1>2, <2>1, <2>2, <2>3, MoveInv DEF Places, Loaded, InLease, Looping
<1>4. CASE OpenAttempt(p)
  <2> DEFINE n == cur[p][1]
             r == StartAttempt(run, n)
             next == IF grant[p] = NoAttempt THEN "spawn" ELSE "consume"
  <2>1. /\ pc[p] = "open" /\ Commit(p, r, next) /\ AttemptCount(run, n) < env[p].budgets.attempts
        /\ UNCHANGED <<envelope, env, cur, grant, live, dispatched>>
    BY <1>2, <1>4 DEF OpenAttempt
  <2>2. /\ cur[p] \in AttemptIds /\ env[p] # NoEnvelope
        /\ cur[p][2] = AttemptCount(run, n) + 1
    BY <1>2, <2>1 DEF Local, At, Loaded, InLease, Looping
  <2>3. n \in Nodes /\ cur[p] = <<n, AttemptCount(run, n) + 1>>
    BY <2>2 DEF AttemptIds
  <2>4. /\ run.nodes[n].state \notin {"running", "completed"} /\ env[p] = run.approved
        /\ \A d \in DependsOn[n] : run.nodes[d].state = "completed"
        /\ grant[p] # NoAttempt => grant[p][1] = n /\ GrantIndex(run, grant[p]) # 0
        /\ run.phase = "running" /\ Scoped(env[p], run) /\ (env[p].scope = "edited" => envelope.scope = "edited")
        /\ env[p].budgets = envelope.budgets
    BY <1>2, <2>1 DEF Placed, Deciding, Looping, InLease, Loaded
  <2>5. PICK i \in DOMAIN run.approvals : run.approvals[i] = env[p]
    BY <1>2, <2>2, <2>4 DEF Sound, Bound
  <2>6. Sound(r, dispatched, live) /\ Keeps(r, run)
    BY <1>2, <2>1, <2>3, <2>4, <2>5, StartSound
  <2>7. Opened(r, run, n)
    BY <1>2, <2>3, StartAttemptDoes
  <2>8. /\ r \in Runs /\ SameButNodes(r, run) /\ r.nodes[n].state = "running"
        /\ \A m \in Nodes \ {n} : r.nodes[m] = run.nodes[m]
        /\ AttemptCount(r, n) = AttemptCount(run, n) + 1
        /\ AttemptOf(r, <<n, AttemptCount(r, n)>>) = [result |-> "dispatched", pid |-> FALSE]
    BY <2>7 DEF Opened
  <2> HIDE DEF r, n
  <2>9. AttemptCount(run, n) \in Nat
    BY <1>2, <2>3, AttemptTypes
  <2>10. AttemptOf(r, cur[p]).result = "dispatched" /\ ~AttemptOf(r, cur[p]).pid
    BY <2>3, <2>8
  <2>11. cur[p] \in UnsettledAttempts(r)
    BY <2>3, <2>8, <2>9, <2>10 DEF UnsettledAttempts, OpenResults
  <2>12. \A d \in DependsOn[n] : r.nodes[d].state = "completed"
    BY <2>3, <2>4, <2>8, GoalStateAssumption
  <2>13. \A s \in dispatched : s.at # cur[p]
    <3>1. ASSUME NEW s \in dispatched, s.at = cur[p] PROVE FALSE
      <4>1. s.at[1] = n /\ s.at[2] = AttemptCount(run, n) + 1
        BY <2>3, <3>1
      <4>2. s.at[2] <= AttemptCount(run, s.at[1])
        BY <1>2 DEF Sound, Past, Recorded
      <4> QED
        BY <2>9, <4>1, <4>2
    <3> QED
      BY <3>1
  <2>14. Placed(next, r, envelope, env[p], cur[p], grant[p], dispatched)
    <3>1. r.grants = run.grants /\ r.approved = run.approved /\ r.phase = run.phase /\ cur[p][1] = n
      BY <2>3, <2>8 DEF SameButNodes
    <3>2. \A g : GrantIndex(r, g) = GrantIndex(run, g)
      BY <3>1 DEF GrantIndex
    <3> QED
      BY <2>4, <2>10, <2>11, <2>12, <2>13, <3>1, <3>2
         DEF Placed, Scoped, Looping, Deciding, OnAttempt, InLease, Loaded
  <2>15. next \in Looping
    BY DEF Looping
  <2> HIDE DEF next
  <2> QED
    BY <1>1, <2>1, <2>6, <2>8, <2>14, <2>15, LoopInv DEF SameButNodes
<1>5. CASE SpendGrant(p) /\ GrantSpendable(mem[p], grant[p])
  <2> DEFINE r == ConsumeGrant(run, grant[p], cur[p])
  <2>1. /\ pc[p] = "consume" /\ Commit(p, r, "spawn") /\ GrantSpendable(run, grant[p])
        /\ UNCHANGED <<envelope, env, cur, grant, live, dispatched>>
    BY <1>2, <1>5 DEF SpendGrant
  <2>2. cur[p] \in AttemptIds /\ grant[p] # NoAttempt
    BY <1>2, <2>1 DEF Local, At, OnAttempt
  <2>3. Placed("consume", run, envelope, env[p], cur[p], grant[p], dispatched)
    BY <1>2, <2>1
  <2>4. GrantIndex(run, grant[p]) # 0
    BY <2>2, <2>3 DEF Placed, Deciding
  <2>5. /\ Sound(r, dispatched, live) /\ Keeps(r, run)
        /\ GrantIndex(r, grant[p]) # 0 /\ r.grants[GrantIndex(r, grant[p])].spent = cur[p]
    BY <1>2, <2>1, <2>2, <2>4, ConsumeSound
  <2>6. r \in Runs /\ SameButGrants(r, run)
    BY <1>2, <2>2, ConsumeTyped
  <2> HIDE DEF r
  <2>7. Placed("spawn", r, envelope, env[p], cur[p], grant[p], dispatched)
    <3>1. /\ r.nodes = run.nodes /\ r.approved = run.approved /\ r.phase = run.phase
          /\ AttemptOf(r, cur[p]) = AttemptOf(run, cur[p])
          /\ UnsettledAttempts(r) = UnsettledAttempts(run)
      BY <2>6 DEF SameButGrants, AttemptOf, UnsettledAttempts, AttemptCount
    <3> QED
      BY <2>3, <2>5, <3>1 DEF Placed, Scoped, Looping, Deciding, OnAttempt, InLease, Loaded
  <2> QED
    BY <1>1, <2>1, <2>5, <2>6, <2>7, LoopInv DEF Looping, SameButGrants
<1>6. CASE (SpendGrant(p) /\ ~GrantSpendable(mem[p], grant[p])) \/ SpawnRefused(p)
  <2>1. Goto(p, "finally") /\ UNCHANGED <<run, envelope, live, dispatched, mem>>
    BY <1>6 DEF SpendGrant, SpawnRefused
  <2> QED
    BY <1>2, <2>1, GoInv DEF Places, Loaded, InLease, Looping
<1>7. CASE Spawn(p)
  <2> DEFINE s == Session(p)
  <2>1. /\ pc[p] = "spawn" /\ pc'[p] = "record" /\ (At(p))' = "record"
        /\ UNCHANGED <<run, envelope, mem, env, cur, grant>>
        /\ live' = live \cup {s} /\ dispatched' = dispatched \cup {s}
    BY <1>2, <1>7 DEF Spawn, Goto, At
  <2>2. s.at = cur[p] /\ s.env = env[p] /\ s.grant = grant[p]
    BY DEF Session
  <2>3. Placed("spawn", run, envelope, env[p], cur[p], grant[p], dispatched)
    BY <1>2, <2>1
  <2>4. cur[p] \in AttemptIds /\ env[p] # NoEnvelope
    BY <1>2, <2>1 DEF Local, At, OnAttempt, Loaded, InLease, Looping
  <2>5. s \in Sessions
    <3>1. dispatched' \subseteq Sessions
      BY DEF TypeInv, GoalTypeOK
    <3> QED
      BY <2>1, <3>1
  <2> HIDE DEF s
  <2>6. /\ cur[p] \in UnsettledAttempts(run) /\ ~AttemptOf(run, cur[p]).pid
        /\ \A t \in dispatched : t.at # cur[p]
    BY <2>3 DEF Placed, OnAttempt
  <2>7. /\ env[p] = run.approved
        /\ \A d \in DependsOn[cur[p][1]] : run.nodes[d].state = "completed"
        /\ grant[p] # NoAttempt => /\ grant[p][1] = cur[p][1]
                                   /\ GrantIndex(run, grant[p]) # 0
                                   /\ run.grants[GrantIndex(run, grant[p])].spent = cur[p]
    BY <2>3 DEF Placed, Deciding
  <2>8. \E i \in DOMAIN run.approvals : run.approvals[i] = env[p]
    BY <1>2, <2>4, <2>7 DEF Sound, Bound
  <2>9. cur[p][2] <= AttemptCount(run, cur[p][1])
    BY <1>2, <2>6, UnsettledIs
  <2>10. Sound(run, dispatched', live')
    BY <1>2, <2>1, <2>2, <2>5, <2>6, <2>7, <2>8, <2>9, SpawnSound
  <2>11. SpawnedOnce'
    BY <2>1, <2>2, <2>6 DEF Inv, SpawnedOnce
  <2>12. Copy(p)'
    BY <1>2, <2>1 DEF Copy
  <2>13. Place(p)'
    BY <2>1, <2>3 DEF Place, Placed, Looping, Deciding, OnAttempt, InLease, Loaded
  <2>14. Keeps(run, run) /\ SameNodesAndHistory(run, run)
    <3>1. SameNodesAndHistory(run, run)
      BY DEF SameNodesAndHistory
    <3> QED
      BY <1>2, <3>1, HistorySound
  <2>15. Inv'
    BY <1>2, <2>1, <2>10, <2>11, <2>12, <2>13, StepInv
  <2> QED
    BY <2>1, <2>14, <2>15 DEF HistoryStep
<1>8. CASE SpawnFails(p) \/ RecordSpawn(p)
  <2>1. PICK pid \in BOOLEAN : Record(p, pid)
    BY <1>8 DEF SpawnFails, RecordSpawn
  <2> DEFINE r == RecordAttemptProcess(run, cur[p], pid)
  <2>2. /\ pc[p] \in {"spawn", "record"} /\ Goto(p, "session")
        /\ UNCHANGED <<envelope, env, cur, grant, live, dispatched>>
    BY <1>8 DEF SpawnFails, RecordSpawn
  <2>3. run' = r /\ mem'[p] = r /\ pc'[p] = "session" /\ (At(p))' = "session"
    BY <1>2, <2>1, <2>2 DEF Record, Goto, At, Inv, TypeInv, GoalTypeOK
  <2>4. cur[p] \in UnsettledAttempts(run)
    BY <1>2, <2>2 DEF Placed, OnAttempt
  <2>5. cur[p] \in AttemptIds
    BY <1>2, <2>4, UnsettledIs
  <2>6. Sound(r, dispatched, live) /\ Keeps(r, run)
    BY <1>2, <2>4, <2>5, RecordSound
  <2>7. Rewritten(r, run, cur[p][1], cur[p][2], [result |-> "running", pid |-> pid],
                  run.nodes[cur[p][1]].state)
    BY <1>2, <2>5, RecordDoes
  <2> HIDE DEF r
  <2>8. /\ r \in Runs /\ SameButNodes(r, run)
        /\ AttemptCount(r, cur[p][1]) = AttemptCount(run, cur[p][1])
        /\ \A j \in 1..AttemptCount(run, cur[p][1]) : AttemptOf(r, <<cur[p][1], j>>) =
              IF j = cur[p][2] THEN [result |-> "running", pid |-> pid] ELSE AttemptOf(run, <<cur[p][1], j>>)
    BY <2>7 DEF Rewritten
  <2>9. cur[p] \in UnsettledAttempts(r)
    <3>1. /\ cur[p] = <<cur[p][1], cur[p][2]>> /\ cur[p][1] \in Nodes
          /\ cur[p][2] \in 1..AttemptCount(run, cur[p][1])
      BY <1>2, <2>4, UnsettledIs
    <3>2. AttemptOf(r, cur[p]) = [result |-> "running", pid |-> pid]
      BY <2>8, <3>1
    <3>3. AttemptOf(r, cur[p]).result \in OpenResults
      BY <3>2 DEF OpenResults
    <3> QED
      BY <2>8, <3>1, <3>3 DEF UnsettledAttempts
  <2>10. run.phase = "running" /\ r.phase = run.phase /\ r.approved = run.approved
    BY <1>2, <2>2, <2>8 DEF Placed, Looping, SameButNodes
  <2>11. Phases(r) /\ Scoped(envelope, r)
    BY <1>2, <2>10 DEF Phases, Scoped
  <2>12. Placed("session", r, envelope, env[p], cur[p], grant[p], dispatched)
    BY <1>2, <2>2, <2>9, <2>10 DEF Placed, Scoped, Looping, Deciding, OnAttempt, InLease, Loaded
  <2>13. Copy(p)' /\ Place(p)'
    BY <2>2, <2>3, <2>12 DEF Copy, Place
  <2>14. SpawnedOnce'
    BY <2>2 DEF Inv, SpawnedOnce
  <2>15. Inv'
    BY <1>2, <2>2, <2>3, <2>6, <2>11, <2>13, <2>14, StepInv
  <2> QED
    BY <2>3, <2>6, <2>10, <2>15 DEF HistoryStep
<1>9. CASE Settle(p) \/ SettleHeld(p)
  <2>1. PICK result \in {"passed", "failed", "errored"}, next \in {"gate", "pause", "unreviewable"} :
           Commit(p, FinishAttempt(run, cur[p], result), next)
    BY <1>2, <1>9 DEF Settle, SettleHeld
  <2> DEFINE r == FinishAttempt(run, cur[p], result)
  <2>2. /\ pc[p] = "session" /\ \A s \in live : s.at # cur[p]
        /\ UNCHANGED <<envelope, env, cur, grant, live, dispatched>>
    BY <1>9 DEF Settle, SettleHeld, SessionEnded
  <2>3. cur[p] \in UnsettledAttempts(run)
    BY <1>2, <2>2 DEF Placed, OnAttempt
  <2>4. cur[p] \in AttemptIds /\ cur[p][2] <= AttemptCount(run, cur[p][1])
    BY <1>2, <2>3, UnsettledIs
  <2>5. Sound(r, dispatched, live) /\ Keeps(r, run)
    BY <1>2, <2>2, <2>3, <2>4, FinishSound
  <2>6. r \in Runs /\ SameButNodes(r, run)
    BY <1>2, <2>4, FinishDoes DEF Rewritten
  <2>7. Commit(p, r, next)
    BY <2>1
  <2> HIDE DEF r
  <2> QED
    BY <1>1, <2>2, <2>5, <2>6, <2>7, LoopInv DEF Looping, Deciding, OnAttempt, SameButNodes
<1>10. CASE pc[p] = "pause" /\ Pause(p)
  <2> DEFINE r == ToAwaitingActionApproval(run, cur[p])
  <2>1. CommitMove(p, r, "finally") /\ UNCHANGED <<envelope, env, grant, live, dispatched>>
    BY <1>2, <1>10 DEF Pause
  <2>2. cur[p] \in AttemptIds /\ cur[p] # NoAttempt
    BY <1>2, <1>10 DEF Local, At
  <2>3. /\ r \in Runs /\ SameNodesAndHistory(r, run) /\ r.phase = "awaiting_action_approval"
        /\ r.request = cur[p] /\ r.approved = run.approved
    BY <1>2, <2>2, AwaitDoes
  <2>4. Awaited(r)
    BY <2>2, <2>3 DEF Awaited
  <2> HIDE DEF r
  <2> QED
    BY <1>2, <2>1, <2>3, <2>4, MoveInv DEF Places, Loaded, InLease, Looping
<1> QED
  BY <1>3, <1>4, <1>5, <1>6, <1>7, <1>8, <1>9, <1>10 DEF AttemptStep, Pause

LEMMA VerifyInv ==
    ASSUME Inv, OneVerb, OneVerb', NEW p \in Procs, Verify(p), OthersKept(p), TypeInv'
    PROVE  Inv' /\ HistoryStep
<1> USE DEF disk, local, observed
<1>1. /\ pc[p] = "verify" /\ UNCHANGED <<envelope, env, grant, live, dispatched>>
      /\ mem[p] = run /\ run \in Runs /\ Awaited(run)
      /\ Sound(run, dispatched, live) /\ Phases(run) /\ Scoped(envelope, run)
      /\ dispatched \in SUBSET Sessions /\ live \in SUBSET dispatched
      /\ Placed("verify", run, envelope, env[p], cur[p], grant[p], dispatched)
      /\ pc[p] \notin {"idle", "diverge"}
  BY Acting DEF Verify
<1>2. run.phase = "final_verification" /\ AllNodesComplete(run)
  BY <1>1 DEF Placed, Phases
<1>3. CASE VerifyBlocked(p)
  <2> DEFINE r == Move(run, "needs_user")
  <2>1. CommitMove(p, r, "finally")
    BY <1>1, <1>3 DEF VerifyBlocked
  <2>2. r \in Runs /\ SameNodesAndHistory(r, run) /\ r.phase = "needs_user" /\ r.approved = run.approved
    BY <1>1, MoveDoes DEF PHASES
  <2>3. Awaited(r)
    BY <2>2 DEF Awaited
  <2> HIDE DEF r
  <2> QED
    BY <1>1, <2>1, <2>2, <2>3, MoveInv DEF Places, Loaded, InLease, Looping
<1>4. CASE RejectedScopeChange(p)
  <2> DEFINE r == ToPlanning(run)
  <2>1. CommitMove(p, r, "finally")
    BY <1>1, <1>4 DEF RejectedScopeChange
  <2>2. r \in Runs /\ SameNodesAndHistory(r, run) /\ r.phase = "planning" /\ r.approved = NoEnvelope
    BY <1>1, ToPlanningDoes
  <2>3. Awaited(r)
    BY <2>2 DEF Awaited
  <2> HIDE DEF r
  <2> QED
    BY <1>1, <2>1, <2>2, <2>3, MoveInv DEF Places, Loaded, InLease, Looping
<1>5. CASE RejectedInScope(p)
  <2>1. PICK S \in SUBSET Nodes : Commit(p, ToRunning(ReopenNodes(run, S)), "gate")
    BY <1>1, <1>5 DEF RejectedInScope, CommitMove
  <2> DEFINE o == ReopenNodes(run, S)
             r == ToRunning(o)
  <2>2. o \in Runs /\ SameButNodes(o, run) /\ Sound(o, dispatched, live) /\ Keeps(o, run)
    BY <1>1, <1>2, ReopenDoes, ReopenSound
  <2> HIDE DEF o
  <2>3. r \in Runs /\ SameNodesAndHistory(r, o) /\ r.phase = "running" /\ r.approved = o.approved
    BY <2>2, ToRunningDoes
  <2>4. Commit(p, r, "gate")
    BY <2>1 DEF o
  <2> HIDE DEF r
  <2>5. Sound(r, dispatched, live)
    BY <1>1, <2>2, <2>3, HistorySound
  <2>6. Keeps(r, run)
    BY <2>2, <2>3 DEF Keeps, NodesKept, ApprovalsKept, GrantsKept, SameNodesAndHistory, AttemptCount, AttemptOf
  <2>7. r.approved = run.approved
    BY <2>2, <2>3 DEF SameButNodes
  <2>8. Awaited(r) /\ Phases(r) /\ Scoped(envelope, r)
    BY <1>1, <2>3, <2>7 DEF Awaited, Phases, Scoped
  <2>9. Placed("gate", r, envelope, env[p], cur'[p], grant[p], dispatched)
    BY <1>1, <2>3, <2>7 DEF Placed, Scoped, Looping, Deciding, OnAttempt, InLease, Loaded
  <2> QED
    BY <1>1, <1>2, <2>3, <2>4, <2>5, <2>6, <2>8, <2>9, CommitInv DEF Places
<1>6. CASE Approved(p)
  <2> DEFINE r == Move(run, "done")
  <2>1. Commit(p, r, "finally") /\ run.approved # NoEnvelope
    BY <1>1, <1>6 DEF Approved, CommitMove, ExitCheck
  <2>2. r \in Runs /\ SameNodesAndHistory(r, run) /\ r.phase = "done" /\ r.approved = run.approved
    BY <1>1, MoveDoes DEF PHASES
  <2> HIDE DEF r
  <2>3. Sound(r, dispatched, live) /\ Keeps(r, run)
    BY <1>1, <2>2, HistorySound
  <2>4. Awaited(r) /\ Phases(r) /\ Scoped(envelope, r)
    BY <1>1, <1>2, <2>1, <2>2 DEF Awaited, Phases, Scoped, AllNodesComplete, SameNodesAndHistory
  <2>5. Placed("finally", r, envelope, env[p], cur'[p], grant[p], dispatched)
    BY Elsewhere DEF Loaded, InLease, Looping
  <2> QED
    BY <1>1, <2>1, <2>2, <2>3, <2>4, <2>5, CommitInv DEF Places
<1> QED
  BY <1>3, <1>4, <1>5, <1>6 DEF Verify

LEMMA ResumeInv ==
    ASSUME Inv, OneVerb, OneVerb', NEW p \in Procs, ResumeStep(p), OthersKept(p), TypeInv'
    PROVE  Inv' /\ HistoryStep
<1> USE DEF disk, local, observed
<1>1. pc \in [Procs -> Places] /\ mem \in [Procs -> Runs]
  BY DEF Inv, TypeInv, GoalTypeOK
<1>2. CASE LoadResume(p)
  <2>1. /\ pc'[p] = "inspect" /\ (At(p))' = "inspect" /\ mem'[p] = run
        /\ UNCHANGED <<run, envelope, live, dispatched>>
    BY <1>1, <1>2 DEF LoadResume, Load, Goto, At
  <2>2. Copy(p)' /\ Place(p)'
    BY <2>1, Elsewhere DEF Copy, Place, Loaded, InLease, Looping
  <2> QED
    BY <2>1, <2>2, QuietInv
<1>3. CASE (InspectLease(p) /\ lease \notin {"free", "dead"}) \/ ResumeRefuses(p)
  <2>1. pc[p] # "idle" /\ Quit(p) /\ UNCHANGED <<run, envelope, live, dispatched>>
    BY <1>3 DEF InspectLease, ResumeRefuses
  <2> QED
    BY <2>1, QuitInv
<1>4. CASE InspectLease(p) /\ lease \in {"free", "dead"}
  <2>1. pc[p] = "inspect" /\ Goto(p, "reconcile") /\ UNCHANGED <<run, envelope, live, dispatched, mem>>
    BY <1>4 DEF InspectLease
  <2>2. mem[p] = run
    BY <2>1, Acting
  <2> QED
    BY <2>1, <2>2, GoInv DEF Places, Loaded, InLease, Looping
<1>5. CASE Abandon(p) \/ ClearDivergence(p) \/ Continue(p)
  <2>1. /\ pc[p] \in {"reconcile", "abandoned"} /\ UNCHANGED <<envelope, env, cur, grant, live, dispatched>>
        /\ mem[p] = run /\ run \in Runs /\ Awaited(run)
        /\ Sound(run, dispatched, live) /\ Phases(run) /\ Scoped(envelope, run)
        /\ dispatched \in SUBSET Sessions /\ live \in SUBSET dispatched
    BY <1>5, Acting DEF Abandon, ClearDivergence, Continue, Reconciling
  <2>2. CASE Abandon(p)
    <3>1. PICK a \in UnsettledAttempts(run) : Commit(p, FinishAttempt(run, a, "errored"), "abandoned")
      BY <2>1, <2>2 DEF Abandon, Unsettled
    <3>2. AttemptOf(run, a).pid => \A s \in live : s.at # a
      BY <2>1, <2>2 DEF Abandon, Unsettled, IsLive
    <3>3. a \in AttemptIds /\ a[1] \in Nodes /\ a[2] \in 1..AttemptCount(run, a[1])
          /\ a[2] <= AttemptCount(run, a[1]) /\ a = <<a[1], a[2]>> /\ AttemptOf(run, a).result \in OpenResults
      BY <2>1, UnsettledIs
    <3> DEFINE r == FinishAttempt(run, a, "errored")
    <3>4. Sound(r, dispatched, live) /\ Keeps(r, run)
      BY <2>1, <3>2, <3>3, FinishSound
    <3>5. r \in Runs /\ SameButNodes(r, run)
      BY <2>1, <3>3, FinishDoes DEF Rewritten
    <3>6. Commit(p, r, "abandoned")
      BY <3>1
    <3> HIDE DEF r
    <3>7. run.nodes[a[1]].state = "running"
      BY <2>1, <3>3 DEF Sound, NodesSound
    <3>8. run.phase \notin {"final_verification", "done"}
      BY <2>1, <3>3, <3>7 DEF Phases, AllNodesComplete
    <3>9. Awaited(r) /\ Phases(r) /\ Scoped(envelope, r)
      BY <2>1, <3>5, <3>8 DEF Awaited, Phases, Scoped, SameButNodes
    <3>10. Placed("abandoned", r, envelope, env[p], cur'[p], grant[p], dispatched)
      BY Elsewhere DEF Loaded, InLease, Looping
    <3> QED
      BY <2>1, <3>4, <3>5, <3>6, <3>8, <3>9, <3>10, CommitInv DEF Places
  <2>3. CASE ClearDivergence(p)
    <3> DEFINE r == [run EXCEPT !.diverged = FALSE]
    <3>1. run' = r /\ mem'[p] = r /\ pc'[p] = pc[p] /\ (At(p))' = pc[p]
      BY <1>1, <2>1, <2>3 DEF ClearDivergence, At
    <3>2. r \in Runs
      BY <2>1, Zenon DEF Runs
    <3>3. SameNodesAndHistory(r, run) /\ r.phase = run.phase /\ r.approved = run.approved
      BY <2>1 DEF SameNodesAndHistory, Runs
    <3> HIDE DEF r
    <3>4. Sound(r, dispatched, live) /\ Keeps(r, run)
      BY <2>1, <3>2, <3>3, HistorySound
    <3>5. Phases(r) /\ Scoped(envelope, r)
      BY <2>1, <3>3 DEF Phases, Scoped, AllNodesComplete, SameNodesAndHistory
    <3>6. Copy(p)' /\ Place(p)'
      BY <2>1, <3>1, Elsewhere DEF Copy, Place, Loaded, InLease, Looping
    <3>7. SpawnedOnce'
      BY <2>1 DEF Inv, SpawnedOnce
    <3>8. Inv'
      BY <2>1, <3>1, <3>4, <3>5, <3>6, <3>7, StepInv
    <3> QED
      BY <3>1, <3>3, <3>4, <3>8 DEF HistoryStep
  <2>4. CASE Continue(p)
    <3>1. PICK r \in {ToRunning(run), ToPlanning(run)} : CommitMove(p, r, "exit")
      BY <2>1, <2>4 DEF Continue
    <3>2. /\ r \in Runs /\ SameNodesAndHistory(r, run) /\ r.phase \in {"running", "planning"}
          /\ r.approved \in {run.approved, NoEnvelope}
      BY <2>1, ToRunningDoes, ToPlanningDoes
    <3>3. Awaited(r)
      BY <3>2 DEF Awaited
    <3> QED
      BY <2>1, <3>1, <3>2, <3>3, MoveInv DEF Places, Loaded, InLease, Looping
  <2> QED
    BY <1>5, <2>2, <2>3, <2>4
<1> QED
  BY <1>2, <1>3, <1>4, <1>5 DEF ResumeStep

LEMMA ApproveInv ==
    ASSUME Inv, OneVerb, OneVerb', NEW p \in Procs, ApproveStep(p), OthersKept(p), TypeInv'
    PROVE  Inv' /\ HistoryStep
<1> USE DEF disk, local, observed
<1>1. pc \in [Procs -> Places] /\ mem \in [Procs -> Runs] /\ env \in [Procs -> Envelopes \cup {NoEnvelope}]
  BY DEF Inv, TypeInv, GoalTypeOK
<1>2. CASE LoadApprove(p) \/ LoadAmend(p) \/ LoadGrant(p)
  <2>1. /\ UNCHANGED <<run, envelope, live, dispatched, cur, grant>>
        /\ \E place \in {"approve", "amend", "grant"}, e \in Envelopes \cup {NoEnvelope} :
              /\ Load(p, e) /\ Goto(p, place)
              /\ place # "grant" => e.scope = envelope.scope
    BY <1>2 DEF LoadApprove, LoadAmend, LoadGrant, Load, Inv, TypeInv, GoalTypeOK
  <2>2. PICK place \in {"approve", "amend", "grant"}, e \in Envelopes \cup {NoEnvelope} :
              /\ Load(p, e) /\ Goto(p, place)
              /\ place # "grant" => e.scope = envelope.scope
    BY <2>1
  <2>3. pc'[p] = place /\ (At(p))' = place /\ mem'[p] = run /\ env'[p] = e
    BY <1>1, <2>2 DEF Load, Goto, At
  <2>4. Copy(p)'
    BY <2>1, <2>3 DEF Copy
  <2>5. Place(p)'
    BY <2>1, <2>2, <2>3 DEF Inv, Place, Placed, Scoped, Loaded, InLease, Looping, Deciding, OnAttempt
  <2> QED
    BY <2>1, <2>3, <2>4, <2>5, QuietInv
<1>3. CASE Approve(p) \/ Amend(p)
  <2> DEFINE r == ApproveEnvelope(run, env[p])
  <2>1. /\ pc[p] \in {"approve", "amended"} /\ mem[p] = run /\ run \in Runs
        /\ Sound(run, dispatched, live) /\ dispatched \in SUBSET Sessions /\ live \in SUBSET dispatched
        /\ Placed(pc[p], run, envelope, env[p], cur[p], grant[p], dispatched)
        /\ env[p] \in Envelopes \cup {NoEnvelope} /\ Local(p) /\ At(p) = pc[p]
    BY <1>3, Acting DEF Approve, Amend
  <2>2. CommitMove(p, r, "exit") /\ UNCHANGED <<envelope, env, cur, grant, live, dispatched>>
    BY <1>3, <2>1 DEF Approve, Amend
  <2>3. env[p] \in Envelopes
    BY <2>1 DEF Local, Loaded
  <2>4. r \in Runs /\ r.nodes = run.nodes /\ r.phase = "running" /\ r.approved = env[p]
    BY <2>1, <2>3, ApproveDoes
  <2>5. Sound(r, dispatched, live) /\ Keeps(r, run)
    BY <2>1, <2>3, ApproveSound
  <2> HIDE DEF r
  <2>6. Commit(p, r, "exit") /\ run.phase # "done"
    BY <2>1, <2>2 DEF CommitMove, TRANSITIONS
  <2>7. Awaited(r) /\ Phases(r) /\ Scoped(envelope, r)
    BY <2>1, <2>4 DEF Awaited, Phases, Scoped, Placed, Loaded
  <2>8. Placed("exit", r, envelope, env[p], cur'[p], grant[p], dispatched)
    BY Elsewhere DEF Loaded, InLease, Looping
  <2> QED
    BY <2>1, <2>2, <2>4, <2>5, <2>6, <2>7, <2>8, CommitInv DEF Places
<1>4. CASE AmendEnvelope(p)
  <2>1. /\ pc[p] = "amend" /\ pc'[p] = "amended" /\ (At(p))' = "amended" /\ envelope' = env[p]
        /\ UNCHANGED <<run, live, dispatched, mem, env, cur, grant>>
    BY <1>1, <1>4 DEF AmendEnvelope, Goto, At
  <2>2. /\ mem[p] = run /\ run \in Runs /\ Sound(run, dispatched, live) /\ Phases(run)
        /\ dispatched \in SUBSET Sessions /\ live \in SUBSET dispatched
        /\ Placed("amend", run, envelope, env[p], cur[p], grant[p], dispatched)
    BY <2>1, Acting
  <2>3. Scoped(env[p], run)
    BY <2>2 DEF Placed, Loaded
  <2>4. Copy(p)' /\ Place(p)'
    BY <2>1, <2>2, <2>3 DEF Copy, Place, Placed, Loaded, InLease, Looping, Deciding, OnAttempt
  <2>5. SpawnedOnce'
    BY <2>1 DEF Inv, SpawnedOnce
  <2>6. Inv'
    BY <2>1, <2>2, <2>3, <2>4, <2>5, StepInv
  <2>7. Keeps(run, run)
    <3>1. SameNodesAndHistory(run, run)
      BY DEF SameNodesAndHistory
    <3> QED
      BY <2>2, <3>1, HistorySound
  <2> QED
    BY <2>1, <2>6, <2>7 DEF HistoryStep
<1>5. CASE GrantAction(p)
  <2> DEFINE r == [run EXCEPT !.grants = Append(run.grants, Grant(run.request))]
  <2>1. /\ pc[p] = "grant" /\ mem[p] = run /\ run \in Runs /\ Awaited(run) /\ Local(p)
        /\ Sound(run, dispatched, live) /\ Phases(run) /\ Scoped(envelope, run)
        /\ dispatched \in SUBSET Sessions /\ live \in SUBSET dispatched
    BY <1>5, Acting DEF GrantAction
  <2>2. /\ run' = r /\ mem'[p] = r /\ pc'[p] = "granted" /\ (At(p))' = "granted"
        /\ UNCHANGED <<envelope, live, dispatched>>
    BY <1>1, <1>5, <2>1 DEF GrantAction, Goto, At
  <2>3. run.request \in AttemptIds
    BY <2>1 DEF Local, Awaited, Runs
  <2>4. r \in Runs /\ SameButGrants(r, run)
    BY <2>1, <2>3, GrantDoes
  <2>5. Sound(r, dispatched, live) /\ Keeps(r, run)
    BY <2>1, <2>3, GrantSound
  <2> HIDE DEF r
  <2>6. Phases(r) /\ Scoped(envelope, r)
    BY <2>1, <2>4 DEF Phases, Scoped, AllNodesComplete, SameButGrants
  <2>7. Copy(p)' /\ Place(p)'
    BY <2>2, Elsewhere DEF Copy, Place, Loaded, InLease, Looping
  <2>8. SpawnedOnce'
    BY <2>2 DEF Inv, SpawnedOnce
  <2>9. Inv'
    BY <2>1, <2>2, <2>5, <2>6, <2>7, <2>8, StepInv
  <2> QED
    BY <2>2, <2>4, <2>5, <2>9 DEF HistoryStep, SameButGrants
<1>6. CASE GrantResumes(p)
  <2> DEFINE r == ToRunning(run)
  <2>1. pc[p] = "granted" /\ mem[p] = run /\ run \in Runs
    BY <1>6, Acting DEF GrantResumes
  <2>2. CommitMove(p, r, "exit") /\ UNCHANGED <<envelope, env, cur, grant, live, dispatched>>
    BY <1>6, <2>1 DEF GrantResumes
  <2>3. r \in Runs /\ SameNodesAndHistory(r, run) /\ r.phase = "running" /\ r.approved = run.approved
    BY <2>1, ToRunningDoes
  <2>4. Awaited(r)
    BY <2>3 DEF Awaited
  <2> HIDE DEF r
  <2> QED
    BY <2>1, <2>2, <2>3, <2>4, MoveInv DEF Places, Loaded, InLease, Looping
<1> QED
  BY <1>2, <1>3, <1>4, <1>5, <1>6 DEF ApproveStep

LEMMA OtherInv ==
    ASSUME Inv, OneVerb, OneVerb', NEW p \in Procs, StampDivergence(p) \/ Exit(p) \/ Crash(p),
           OthersKept(p), TypeInv'
    PROVE  Inv' /\ HistoryStep
<1> USE DEF disk, local, observed
<1>1. CASE StampDivergence(p)
  <2> DEFINE r == [run EXCEPT !.diverged = TRUE]
  <2>1. /\ pc[p] = "diverge" /\ run' = mem[p] /\ pc'[p] = then[p] /\ then[p] # "diverge"
        /\ (At(p))' = then[p] /\ At(p) = then[p] /\ mem[p] = r
        /\ UNCHANGED <<envelope, live, dispatched, mem, env, cur, grant>>
    BY <1>1 DEF StampDivergence, Goto, At, Inv, TypeInv, GoalTypeOK, Local, Copy
  <2>2. /\ run \in Runs /\ Sound(run, dispatched, live) /\ Phases(run) /\ Scoped(envelope, run)
        /\ dispatched \in SUBSET Sessions /\ live \in SUBSET dispatched
        /\ Placed(then[p], run, envelope, env[p], cur[p], grant[p], dispatched)
    BY <2>1 DEF Inv, TypeInv, GoalTypeOK, Place
  <2>3. r \in Runs
    BY <2>2, Zenon DEF Runs
  <2>4. SameNodesAndHistory(r, run) /\ r.phase = run.phase /\ r.approved = run.approved
    BY <2>2 DEF SameNodesAndHistory, Runs
  <2> HIDE DEF r
  <2>5. Sound(r, dispatched, live) /\ Keeps(r, run)
    BY <2>2, <2>3, <2>4, HistorySound
  <2>6. Phases(r) /\ Scoped(envelope, r)
    BY <2>2, <2>4 DEF Phases, Scoped, AllNodesComplete, SameNodesAndHistory
  <2>7. Placed(then[p], r, envelope, env[p], cur[p], grant[p], dispatched)
    <3>1. /\ UnsettledAttempts(r) = UnsettledAttempts(run)
          /\ \A g : GrantIndex(r, g) = GrantIndex(run, g)
          /\ \A a : AttemptOf(r, a) = AttemptOf(run, a)
      BY <2>4 DEF SameNodesAndHistory, UnsettledAttempts, AttemptCount, AttemptOf, GrantIndex
    <3> QED
      BY <2>2, <2>4, <3>1 DEF Placed, Scoped, SameNodesAndHistory
  <2>8. Copy(p)' /\ Place(p)'
    BY <2>1, <2>7 DEF Copy, Place
  <2>9. SpawnedOnce'
    BY <2>1 DEF Inv, SpawnedOnce
  <2>10. Inv'
    BY <2>1, <2>5, <2>6, <2>8, <2>9, StepInv
  <2> QED
    BY <2>1, <2>4, <2>5, <2>10 DEF HistoryStep
<1>2. CASE Exit(p) \/ Crash(p)
  <2>1. pc[p] # "idle" /\ Quit(p) /\ UNCHANGED <<run, envelope, live, dispatched>>
    BY <1>2 DEF Exit, Crash
  <2> QED
    BY <2>1, QuitInv
<1> QED
  BY <1>1, <1>2

LEMMA WorldInv ==
    ASSUME Inv, World \/ UNCHANGED vars, TypeInv'
    PROVE  Inv' /\ run' = run
<1> USE DEF disk, local, observed
<1>1. /\ UNCHANGED <<run, pc, local, dispatched>> /\ live' \subseteq live
      /\ \/ envelope' = envelope
         \/ envelope' = [envelope EXCEPT !.scope = "edited"]
  BY DEF World, Stop, RemoveStop, ChildEnds, RemoveLock, EditEnvelope, vars
<1>2. Sound(run', dispatched', live')
  BY <1>1 DEF Inv, Sound, Kept
<1>3. envelope'.budgets = envelope.budgets /\ (envelope' = envelope \/ envelope'.scope = "edited")
  BY <1>1 DEF Inv, TypeInv, GoalTypeOK, Envelopes
<1>4. Scoped(envelope', run')
  BY <1>1, <1>3 DEF Inv, Scoped
<1>5. ASSUME NEW p \in Procs PROVE Copy(p)' /\ Place(p)'
  <2>1. Copy(p)' /\ (At(p))' = At(p)
    BY <1>1 DEF Inv, Copy, At
  <2>2. Placed(At(p), run, envelope, env[p], cur[p], grant[p], dispatched)
    BY DEF Inv, Place
  <2>3. Placed(At(p), run, envelope', env[p], cur[p], grant[p], dispatched)
    <3> HIDE DEF At
    <3> QED
      BY <1>3, <2>2 DEF Placed
  <2> QED
    BY <1>1, <2>1, <2>3 DEF Place
<1>6. SpawnedOnce' /\ Phases(run')
  BY <1>1 DEF Inv, SpawnedOnce
<1> QED
  BY <1>1, <1>2, <1>4, <1>5, <1>6 DEF Inv

LEMMA NextInv == Inv /\ OneVerb /\ OneVerb' /\ [Next]_vars => Inv' /\ (run' = run \/ HistoryStep)
<1> SUFFICES ASSUME Inv, OneVerb, OneVerb', [Next]_vars
             PROVE  Inv' /\ (run' = run \/ HistoryStep)
  OBVIOUS
<1>1. TypeInv /\ TypeInv'
  BY NextTyped DEF Inv
<1>2. ASSUME NEW p \in Procs, Verb(p) \/ Crash(p)
      PROVE  Inv' /\ HistoryStep
  <2>1. OthersKept(p)
    BY <1>1, <1>2, VerbOthers
  <2> QED
    BY <1>1, <1>2, <2>1, LeaseInv, GateInv, AttemptInv, VerifyInv, ResumeInv, ApproveInv, OtherInv DEF Verb
<1>3. CASE World \/ UNCHANGED vars
  BY <1>1, <1>3, WorldInv
<1> QED
  BY <1>2, <1>3 DEF Next, Environment, World

-----------------------------------------------------------------------------
(* What follows from it *)

LEMMA GrantOnce == Inv => GrantSpentOnce
<1> SUFFICES ASSUME Inv, NEW s \in dispatched, s.grant # NoAttempt
             PROVE  /\ s.grant[1] = s.at[1]
                    /\ \E i \in DOMAIN run.grants : run.grants[i] = [request |-> s.grant, spent |-> s.at]
                    /\ \A t \in dispatched : t.grant = s.grant => t = s
  BY DEF GrantSpentOnce
<1> DEFINE k == GrantIndex(run, s.grant)
<1>1. run \in Runs /\ Granted(run, dispatched) /\ SpawnedOnce
  BY DEF Inv, TypeInv, GoalTypeOK, Sound, Past
<1>2. s.grant[1] = s.at[1] /\ k # 0 /\ run.grants[k].spent = s.at
  BY <1>1 DEF Granted
<1>3. k \in 0..Len(run.grants) /\ run.grants[k] \in Grants /\ run.grants[k].request = s.grant
  BY <1>1, <1>2, GrantIndexIs
<1>4. ASSUME NEW t \in dispatched, t.grant = s.grant PROVE t = s
  <2>1. run.grants[k].spent = t.at
    BY <1>1, <1>4 DEF Granted
  <2> QED
    BY <1>1, <1>2, <2>1 DEF SpawnedOnce
<1> HIDE DEF k
<1>5. k \in DOMAIN run.grants /\ run.grants[k] = [request |-> s.grant, spent |-> s.at]
  BY <1>1, <1>2, <1>3 DEF Runs, Grants
<1> QED
  BY <1>2, <1>4, <1>5

LEMMA DoneIsEarned == Inv => DoneEarned
<1> SUFFICES ASSUME Inv, run.phase = "done" PROVE DoneEarned
  BY DEF DoneEarned
<1>1. AllNodesComplete(run) /\ run.approved # NoEnvelope
  BY DEF Inv, Phases
<1>2. ASSUME NEW n \in Nodes
      PROVE  LET k == AttemptCount(run, n) IN k > 0 /\ run.nodes[n].attempts[k].result = "passed"
  BY <1>1 DEF Inv, Sound, NodesSound, AllNodesComplete, AttemptOf
<1>3. ASSUME NEW s \in live PROVE ~AttemptOf(run, s.at).pid
  <2>1. s \in dispatched /\ s.at[1] \in Nodes
    BY DEF Inv, TypeInv, GoalTypeOK, Sessions, AttemptIds
  <2>2. s.at[2] <= AttemptCount(run, s.at[1])
    BY <2>1 DEF Inv, Sound, Past, Recorded
  <2> QED
    BY <1>1, <2>1, <2>2 DEF Inv, Sound, Kept, AllNodesComplete
<1> QED
  BY <1>1, <1>2, <1>3 DEF DoneEarned

LEMMA InvIsSafe ==
    Inv => /\ SpawnedOnce /\ LiveChildKept /\ ApprovedDispatch /\ AttemptBudget
           /\ GrantSpentOnce /\ DependencyPassed /\ DoneEarned
BY GrantOnce, DoneIsEarned
   DEF Inv, Sound, Past, Kept, LiveChildKept, Approving, ApprovedDispatch, Budgeted, AttemptBudget,
       DependedOn, DependencyPassed

\* What HistoryKept says of a step.
HistoryOfStep ==
    /\ \A n \in Nodes : \A i \in DOMAIN run.nodes[n].attempts :
          /\ i \in DOMAIN run'.nodes[n].attempts
          /\ AttemptOf(run, <<n, i>>).result \notin OpenResults =>
                AttemptOf(run', <<n, i>>) = AttemptOf(run, <<n, i>>)
    /\ \A i \in DOMAIN run.approvals : run'.approvals[i] = run.approvals[i]
    /\ \A i \in DOMAIN run.grants : run'.grants[i].request = run.grants[i].request
    /\ run.phase = "done" => run'.phase = "done"

LEMMA StepIsSafe ==
    ASSUME Inv, Inv', HistoryStep
    PROVE  HistoryOfStep
<1>1. run \in Runs /\ run' \in Runs
  BY DEF Inv, TypeInv, GoalTypeOK
<1>2. ASSUME NEW n \in Nodes, NEW i \in DOMAIN run.nodes[n].attempts
      PROVE  /\ i \in DOMAIN run'.nodes[n].attempts
             /\ AttemptOf(run, <<n, i>>).result \notin OpenResults =>
                   AttemptOf(run', <<n, i>>) = AttemptOf(run, <<n, i>>)
  <2>1. /\ AttemptCount(run, n) \in Nat /\ AttemptCount(run', n) \in Nat
        /\ DOMAIN run.nodes[n].attempts = 1..AttemptCount(run, n)
        /\ DOMAIN run'.nodes[n].attempts = 1..AttemptCount(run', n)
    BY <1>1, AttemptTypes
  <2> QED
    BY <1>2, <2>1 DEF HistoryStep, Keeps, NodesKept
<1>3. /\ DOMAIN run.approvals = 1..Len(run.approvals)
      /\ DOMAIN run.grants = 1..Len(run.grants)
  BY <1>1 DEF Runs
<1> QED
  BY <1>2, <1>3 DEF HistoryOfStep, HistoryStep, Keeps, ApprovalsKept, GrantsKept

LEMMA RunInvariant == Spec /\ []OneVerb => []Inv
<1>1. Init => Inv
  BY InitInv
<1>2. Inv /\ OneVerb /\ OneVerb' /\ [Next]_vars => Inv'
  BY NextInv
<1> QED
  BY <1>1, <1>2, PTL DEF Spec

\* An attempt is spawned at most once: it is on disk before its session, and
\* no resume or restart opens it again (startAttempt, resume).
THEOREM RunSpawnsOnce == Spec /\ []OneVerb => []SpawnedOnce
BY RunInvariant, InvIsSafe, PTL

\* Nobody settles, abandons or re-dispatches the attempt of a session whose pid
\* is on disk while it runs, though its engine may be long dead.
THEOREM RunKeepsLiveChild == Spec /\ []OneVerb => []LiveChildKept
BY RunInvariant, InvIsSafe, PTL

\* No session runs under an envelope that was not approved: the drift check of
\* every gate, on an envelope loaded once.
THEOREM RunDispatchesApproved == Spec /\ []OneVerb => []ApprovedDispatch
BY RunInvariant, InvIsSafe, PTL

\* Reopening, writing off and amending never open more attempts of a node than
\* some approval allowed.
THEOREM RunKeepsBudget == Spec /\ []OneVerb => []AttemptBudget
BY RunInvariant, InvIsSafe, PTL

\* One grant, one session, through crashes between its spending and the spawn
\* (pendingGrantFor, consumeGrant).
THEOREM RunSpendsGrantOnce == Spec /\ []OneVerb => []GrantSpentOnce
BY RunInvariant, InvIsSafe, PTL

\* No session is spawned before the dependencies of its node have passed, for
\* every plan (selectReadyNode).
THEOREM RunPassesDependencies == Spec /\ []OneVerb => []DependencyPassed
BY RunInvariant, InvIsSafe, PTL

\* A run is done only with every node's last attempt passed, an approval bound
\* and no known child running (runExitCheck).
THEOREM RunEarnsDone == Spec /\ []OneVerb => []DoneEarned
BY RunInvariant, InvIsSafe, PTL

\* No write of run.json loses an attempt, changes a settled one, forgets an
\* approval or a grant, or leaves `done`: each writer's copy is the record.
THEOREM RunHistory == Spec /\ []OneVerb => HistoryKept
<1>1. Inv /\ OneVerb /\ OneVerb' /\ [Next]_vars => [HistoryOfStep]_run
  BY NextInv, StepIsSafe
<1>2. Spec /\ []OneVerb => [][HistoryOfStep]_run
  BY <1>1, RunInvariant, PTL DEF Spec
<1> QED
  BY <1>2 DEF HistoryOfStep, HistoryKept

-----------------------------------------------------------------------------
(* STOP, however the verbs overlap: the lease keeps one process in the loop *)

Holding == (Looping \cup {"stamp", "verify", "finally", "clear", "release"}) \ {"lease"}

LeaseHeld == \A p \in Procs : At(p) \in Holding => lease = p

StopInv ==
    /\ LeaseHeld
    /\ ~stop => sinceStop = 0
    /\ \A p \in Procs : At(p) = "open" => sinceStop = 0
    /\ StopHonoured

\* What a step of p does to the lease, STOP and the count, seen from outside.
Within(p) ==
    /\ UNCHANGED <<lease, stop, sinceStop>>
    /\ (At(p))' \in Holding => At(p) \in Holding
    /\ (At(p))' = "open" => At(p) = "open" \/ ~stop

Enters(p) ==
    /\ lease \in {"free", "dead"} /\ lease' = p /\ (At(p))' = "stamp"
    /\ UNCHANGED <<stop, sinceStop>>

Leaves(p) ==
    /\ (At(p))' = "idle" /\ UNCHANGED <<stop, sinceStop>>
    /\ lease' = lease \/ lease \notin Procs \ {p}

Opens(p) ==
    /\ At(p) = "open" /\ (At(p))' \in Holding \ {"open"} /\ UNCHANGED <<lease, stop>>
    /\ sinceStop' = IF stop THEN sinceStop + 1 ELSE 0

LEMMA GoesTo ==
    ASSUME TypeInv, NEW p \in Procs, NEW place \in Places \ {"diverge"}, Goto(p, place)
    PROVE  (At(p))' = place
BY DEF TypeInv, GoalTypeOK, Goto, At

LEMMA CommitGoes ==
    ASSUME TypeInv, NEW p \in Procs, NEW r, NEW place \in Places \ {"diverge"}, Commit(p, r, place)
    PROVE  (At(p))' = place
BY DEF TypeInv, GoalTypeOK, Commit, Goto, At

LEMMA StopStep ==
    ASSUME TypeInv, NEW p \in Procs, Verb(p) \/ Crash(p)
    PROVE  Within(p) \/ Enters(p) \/ Leaves(p) \/ Opens(p)
<1> USE DEF disk, local, observed
<1> DEFINE P == Holding \cup {"lease", "exit", "inspect", "reconcile", "abandoned", "approve", "amend",
                             "amended", "grant", "granted"}
<1>0. pc \in [Procs -> Places] /\ then \in [Procs -> Places] /\ P = Places \ {"idle", "diverge"}
  BY DEF TypeInv, GoalTypeOK, Holding, Looping, Places
<1>1. CASE Exit(p) \/ LeaseBusy(p) \/ ReleaseLease(p) \/ Crash(p)
           \/ (InspectLease(p) /\ lease \notin {"free", "dead"}) \/ ResumeRefuses(p)
  <2>1. Quit(p) /\ UNCHANGED <<stop, sinceStop>> /\ (lease' = lease \/ lease \notin Procs \ {p})
    BY <1>1, GoalRunAssumption DEF Exit, LeaseBusy, ReleaseLease, Crash, InspectLease, ResumeRefuses
  <2>2. (At(p))' = "idle"
    BY <2>1, GoesTo DEF Quit, Places
  <2> QED
    BY <2>1, <2>2 DEF Leaves
<1>2. CASE AcquireLease(p)
  <2>1. (At(p))' = "stamp"
    BY <1>2, GoesTo DEF AcquireLease, Places
  <2> QED
    BY <1>2, <2>1 DEF AcquireLease, Enters
<1>3. CASE OpenAttempt(p)
  <2>1. PICK next \in {"spawn", "consume"} : Commit(p, StartAttempt(mem[p], cur[p][1]), next)
    BY <1>3 DEF OpenAttempt
  <2>2. (At(p))' = next
    BY <2>1, CommitGoes DEF Places
  <2> QED
    BY <1>3, <2>2 DEF OpenAttempt, Opens, At, Holding, Looping
<1>4. CASE GateNode(p) /\ Gate(p)
  <2>1. (At(p))' = "open"
    BY <1>4, GoesTo DEF GateNode, Places
  <2> QED
    BY <1>4, <2>1 DEF Gate, GateNode, Passes, Within, At, Holding, Looping
<1>5. CASE StampDivergence(p)
  <2>1. then[p] # "diverge"
    BY DEF TypeInv, Local
  <2> QED
    BY <1>0, <1>5, <2>1 DEF StampDivergence, Within, At, Goto
<1>6. ASSUME NEW r, NEW next \in P \ {"open"}, Commit(p, r, next) \/ Goto(p, next),
             UNCHANGED <<lease, stop, sinceStop>>, next \in Holding => At(p) \in Holding
      PROVE  Within(p)
  <2>1. (At(p))' = next
    BY <1>0, <1>6, GoesTo, CommitGoes
  <2> QED
    BY <1>6, <2>1 DEF Within
<1>7. CASE LoadRun(p) \/ StampLease(p) \/ FinallyRead(p) \/ FinallyWrite(p)
  <2>1. PICK next \in P \ {"open"} : Goto(p, next)
    BY <1>7 DEF LoadRun, StampLease, FinallyRead, FinallyWrite, Holding, Looping
  <2>2. next \in Holding => At(p) \in Holding
    BY <1>0, <1>7, <2>1 DEF LoadRun, StampLease, FinallyRead, FinallyWrite, Goto, At, Holding, Looping
  <2> QED
    BY <1>6, <1>7, <2>1, <2>2 DEF LoadRun, StampLease, FinallyRead, FinallyWrite, Load
<1>8. CASE Gate(p) /\ ~GateNode(p)
  <2>1. PICK next \in {"finally", "verify"} : (\E r : Commit(p, r, next)) \/ Goto(p, next)
    BY <1>8 DEF Gate, GateDiverged, GateStopped, GateBlocked, GateSpent, GateComplete, GateLimit, CommitMove
  <2>2. UNCHANGED <<lease, stop, sinceStop>> /\ pc[p] = "gate"
    BY <1>8 DEF Gate, GateDiverged, GateStopped, GateBlocked, GateSpent, GateComplete, GateLimit
  <2> QED
    BY <1>6, <2>1, <2>2 DEF At, Holding, Looping
<1>9. CASE AttemptStep(p) /\ ~OpenAttempt(p)
  <2>1. PICK next \in Holding \ {"open"} : (\E r : Commit(p, r, next)) \/ Goto(p, next)
    BY <1>9 DEF AttemptStep, RefuseAttempt, SpendGrant, Spawn, SpawnRefused, SpawnFails, RecordSpawn,
                Settle, SettleHeld, Pause, CommitMove, Holding, Looping
  <2>2. UNCHANGED <<lease, stop, sinceStop>> /\ pc[p] \in Holding
    BY <1>9 DEF AttemptStep, RefuseAttempt, SpendGrant, Spawn, SpawnRefused, SpawnFails, RecordSpawn, Record,
                Settle, SettleHeld, SessionEnded, Pause, Holding, Looping
  <2> QED
    BY <1>6, <2>1, <2>2 DEF At, Holding, Looping
<1>10. CASE Verify(p)
  <2>1. PICK next \in {"finally", "gate"} : \E r : Commit(p, r, next)
    BY <1>10 DEF Verify, VerifyBlocked, RejectedScopeChange, RejectedInScope, Approved, CommitMove
  <2>2. UNCHANGED <<lease, stop, sinceStop>> /\ pc[p] = "verify"
    BY <1>10 DEF Verify
  <2> QED
    BY <1>6, <2>1, <2>2 DEF At, Holding, Looping
<1>11. CASE ClearDivergence(p)
  BY <1>11 DEF ClearDivergence, Within, At
<1>12. CASE \/ LoadResume(p) \/ (InspectLease(p) /\ lease \in {"free", "dead"}) \/ Abandon(p) \/ Continue(p)
            \/ ApproveStep(p)
  <2>1. PICK next \in P \ Holding : (\E r : Commit(p, r, next)) \/ Goto(p, next)
    BY <1>12 DEF LoadResume, InspectLease, Abandon, Continue, ApproveStep, LoadApprove, Approve, LoadAmend,
                 AmendEnvelope, Amend, LoadGrant, GrantAction, GrantResumes, CommitMove, Holding, Looping
  <2>2. UNCHANGED <<lease, stop, sinceStop>>
    BY <1>12 DEF LoadResume, InspectLease, Abandon, Continue, ApproveStep, LoadApprove, Approve, LoadAmend,
                 AmendEnvelope, Amend, LoadGrant, GrantAction, GrantResumes
  <2> QED
    BY <1>6, <2>1, <2>2 DEF Holding, Looping
<1> HIDE DEF P
<1> QED
  BY <1>1, <1>2, <1>3, <1>4, <1>5, <1>7, <1>8, <1>9, <1>10, <1>11, <1>12 DEF Verb, LeaseStep, ResumeStep, Gate

LEMMA StopNext ==
    ASSUME TypeInv, StopInv, [Next]_vars
    PROVE  StopInv'
<1> USE DEF Holding, Looping
<1>1. ASSUME NEW p \in Procs, Verb(p) \/ Crash(p) PROVE StopInv'
  <2>1. \A q \in Procs \ {p} : (At(q))' = At(q)
    BY <1>1, VerbOthers DEF OthersKept, At
  <2>2. sinceStop \in Nat /\ {"free", "dead"} \cap Procs = {}
    BY GoalRunAssumption DEF TypeInv, GoalTypeOK
  <2>3. CASE Within(p)
    BY <2>1, <2>3 DEF Within, StopInv, LeaseHeld, StopHonoured
  <2>4. CASE Enters(p)
    BY <2>1, <2>2, <2>4 DEF Enters, StopInv, LeaseHeld, StopHonoured
  <2>5. CASE Leaves(p)
    BY <2>1, <2>5 DEF Leaves, StopInv, LeaseHeld, StopHonoured
  <2>6. CASE Opens(p)
    BY <2>1, <2>2, <2>6 DEF Opens, StopInv, LeaseHeld, StopHonoured
  <2> QED
    BY <1>1, <2>3, <2>4, <2>5, <2>6, StopStep
<1>2. CASE World \/ UNCHANGED vars
  <2>1. \A q \in Procs : (At(q))' = At(q)
    BY <1>2 DEF World, Stop, RemoveStop, ChildEnds, RemoveLock, EditEnvelope, vars, disk, local, observed, At
  <2>2. /\ lease' = lease \/ lease = "torn"
        /\ UNCHANGED <<stop, sinceStop>> \/ (stop' /\ UNCHANGED sinceStop) \/ sinceStop' = 0
    BY <1>2 DEF World, Stop, RemoveStop, ChildEnds, RemoveLock, EditEnvelope, vars, disk, observed
  <2> QED
    BY <2>1, <2>2, GoalRunAssumption DEF StopInv, LeaseHeld, StopHonoured
<1> QED
  BY <1>1, <1>2 DEF Next, Environment, World

\* After STOP appears at most one more attempt is opened, whatever verbs overlap
\* and crash: only the holder of the lease is in the loop, past its gate.
THEOREM RunHonoursStop == Spec => []StopHonoured
<1>1. Init => TypeInv /\ StopInv
  <2>1. Init => StopInv
    BY DEF Init, StopInv, LeaseHeld, At, Holding, Looping, StopHonoured
  <2> QED
    BY <2>1, InitTyped
<1>2. TypeInv /\ StopInv /\ [Next]_vars => TypeInv' /\ StopInv'
  BY NextTyped, StopNext
<1>3. StopInv => StopHonoured
  BY DEF StopInv
<1> QED
  BY <1>1, <1>2, <1>3, PTL DEF Spec

=============================================================================
