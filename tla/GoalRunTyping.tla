----------------------------- MODULE GoalRunTyping -----------------------------
(***************************************************************************)
(* Type correctness of GoalRun, whatever verbs overlap.  Types alone are   *)
(* not inductive: a spawn needs an attempt and an envelope in hand, a      *)
(* record write an attempt that is in the copy, an approval of an action a *)
(* request.  Local(p) says what a process has in hand at each place; it is *)
(* about the process and its own copy, so no other process disturbs it.    *)
(***************************************************************************)
EXTENDS GoalRun, GoalStateProofs, FiniteSetTheorems

-----------------------------------------------------------------------------
(* Typing *)

\* Where a process is in its verb, a divergence to stamp aside.
At(p) == IF pc[p] = "diverge" THEN then[p] ELSE pc[p]

Deciding == {"open", "consume", "spawn"}
Looping == {"gate", "open", "consume", "spawn", "record", "session", "pause", "unreviewable"}
InLease == Looping \cup {"lease", "stamp", "verify"}
Loaded == InLease \cup {"approve", "amend", "amended"}
OnAttempt == {"consume", "spawn", "record", "session"}

\* A pause names what it waits for.
Awaited(r) == r.phase = "awaiting_action_approval" => r.request # NoAttempt

\* What a process has in hand where it is.
Local(p) ==
    /\ Awaited(mem[p])
    /\ then[p] \notin {"diverge", "grant"}
    /\ At(p) \in OnAttempt \cup {"open", "pause"} => cur[p] # NoAttempt
    /\ At(p) \in Loaded => env[p] # NoEnvelope
    /\ At(p) = "consume" => grant[p] # NoAttempt
    /\ At(p) = "open" => cur[p][2] = AttemptCount(mem[p], cur[p][1]) + 1
    /\ At(p) \in OnAttempt => cur[p][2] = AttemptCount(mem[p], cur[p][1])
    /\ pc[p] = "grant" => mem[p].phase = "awaiting_action_approval"

TypeInv ==
    /\ GoalTypeOK /\ IsFiniteSet(dispatched)
    /\ Awaited(run) /\ \A p \in Procs : Local(p)

LEMMA OfferedIsRun == Offered \in Runs /\ NoRun \in Runs /\ Awaited(Offered) /\ Awaited(NoRun)
<1>1. Offered \in Runs
  <2>1. [n \in Nodes |-> [state |-> "pending", attempts |-> <<>>]]
          \in [Nodes -> [state : {"pending", "running", "completed", "failed"}, attempts : Seq(Attempts)]]
    BY EmptySeq
  <2> QED
    BY <2>1, EmptySeq DEF Offered, Runs, PHASES
<1>2. NoRun \in Runs
  BY <1>1, MoveDoes DEF NoRun, Move, PHASES
<1> QED
  BY <1>1, <1>2 DEF Awaited, Offered, NoRun

LEMMA NoEnvelopeApart == NoEnvelope \notin Envelopes
BY DEF NoEnvelope, Envelopes

LEMMA InitTyped == Init => TypeInv
<1> SUFFICES ASSUME Init PROVE TypeInv
  OBVIOUS
<1>1. GoalTypeOK
  <2>1. run \in Runs /\ mem \in [Procs -> Runs]
    BY OfferedIsRun DEF Init
  <2>2. envelope \in Envelopes /\ stop \in BOOLEAN /\ lease \in Procs \cup {"free", "dead", "torn"}
    BY GoalRunAssumption DEF Init
  <2>3. pc \in [Procs -> Places] /\ then \in [Procs -> Places] /\ again \in [Procs -> BOOLEAN]
    BY DEF Init, Places
  <2>4. /\ env \in [Procs -> Envelopes \cup {NoEnvelope}]
        /\ cur \in [Procs -> AttemptIds \cup {NoAttempt}]
        /\ grant \in [Procs -> AttemptIds \cup {NoAttempt}]
    BY DEF Init
  <2>5. /\ live \subseteq dispatched /\ dispatched \subseteq Sessions
        /\ sinceStop \in Nat /\ troubles \in 0..MaxTroubles
    BY GoalRunAssumption DEF Init
  <2> QED
    BY <2>1, <2>2, <2>3, <2>4, <2>5 DEF GoalTypeOK
<1>2. IsFiniteSet(dispatched)
  BY FS_EmptySet DEF Init
<1>3. Awaited(run) /\ \A p \in Procs : Local(p)
  BY OfferedIsRun DEF Init, Local, At, OnAttempt, Loaded, InLease, Looping
<1> QED
  BY <1>1, <1>2, <1>3 DEF TypeInv

\* A committed transition: run.json holds it, and the process goes where it
\* meant to, with the divergence to stamp in hand or without.
LEMMA CommitDoes ==
    ASSUME TypeInv, NEW p \in Procs, NEW r \in Runs, NEW next \in Places \ {"diverge", "grant", "idle"},
           Awaited(r), Commit(p, r, next)
    PROVE  /\ run' = r /\ (At(p))' = next
           /\ pc' \in [Procs -> Places] /\ then' \in [Procs -> Places] /\ mem' \in [Procs -> Runs]
           /\ troubles' \in 0..MaxTroubles
           /\ \A q \in Procs \ {p} :
                 /\ pc'[q] = pc[q] /\ then'[q] = then[q] /\ mem'[q] = mem[q]
                 /\ (At(q))' = At(q)
           /\ pc'[p] \in {next, "diverge"} /\ then'[p] \notin {"diverge", "grant"}
           /\ Awaited(mem'[p])
           /\ mem'[p] = IF pc'[p] = "diverge" THEN [r EXCEPT !.diverged = TRUE] ELSE r
<1>1. [r EXCEPT !.diverged = TRUE] \in Runs /\ Awaited([r EXCEPT !.diverged = TRUE])
  BY DivergedDoes DEF Awaited
<1>2. CASE /\ mem' = [mem EXCEPT ![p] = r]
           /\ Goto(p, next)
           /\ UNCHANGED <<then, troubles>>
  BY <1>2 DEF TypeInv, GoalTypeOK, Local, At, Goto, Commit
<1>3. CASE /\ troubles < MaxTroubles
           /\ troubles' = troubles + 1
           /\ mem' = [mem EXCEPT ![p] = [r EXCEPT !.diverged = TRUE]]
           /\ then' = [then EXCEPT ![p] = next]
           /\ Goto(p, "diverge")
  BY <1>1, <1>3, GoalRunAssumption DEF TypeInv, GoalTypeOK, Local, At, Goto, Commit, Places
<1> QED
  BY <1>2, <1>3 DEF Commit

-----------------------------------------------------------------------------
LEMMA QuitTyped ==
    ASSUME TypeInv, NEW p \in Procs, Quit(p)
    PROVE  /\ pc' \in [Procs -> Places] /\ then' \in [Procs -> Places]
           /\ mem' \in [Procs -> Runs] /\ env' \in [Procs -> Envelopes \cup {NoEnvelope}]
           /\ cur' \in [Procs -> AttemptIds \cup {NoAttempt}]
           /\ grant' \in [Procs -> AttemptIds \cup {NoAttempt}]
           /\ again' \in [Procs -> BOOLEAN]
           /\ \A q \in Procs : Local(q)'
BY OfferedIsRun DEF TypeInv, GoalTypeOK, Local, At, Quit, Goto, Places, OnAttempt, Loaded, InLease, Looping

\* A step of p leaves what the others have in hand.
OthersKept(p) ==
    \A q \in Procs \ {p} :
        /\ pc'[q] = pc[q] /\ mem'[q] = mem[q] /\ env'[q] = env[q] /\ cur'[q] = cur[q]
        /\ grant'[q] = grant[q] /\ then'[q] = then[q] /\ again'[q] = again[q]

LEMMA StepTyped ==
    ASSUME TypeInv, NEW p \in Procs, OthersKept(p),
           GoalTypeOK', IsFiniteSet(dispatched'), Awaited(run'), Local(p)'
    PROVE  TypeInv'
BY DEF TypeInv, OthersKept, Local, At

LEMMA CommitTyped ==
    ASSUME TypeInv, NEW p \in Procs, NEW r \in Runs, NEW next \in Places \ {"diverge", "grant", "idle", "open"},
           Awaited(r), Commit(p, r, next), UNCHANGED <<envelope, stop, lease, env, grant, live, dispatched>>,
           sinceStop' \in Nat, again' \in [Procs -> BOOLEAN], cur' \in [Procs -> AttemptIds \cup {NoAttempt}],
           \A q \in Procs \ {p} : cur'[q] = cur[q] /\ again'[q] = again[q],
           next \in OnAttempt \cup {"pause"} => cur'[p] # NoAttempt,
           next \in Loaded => env[p] # NoEnvelope,
           next = "consume" => grant[p] # NoAttempt,
           next \in OnAttempt => cur'[p][2] = AttemptCount(r, cur'[p][1])
    PROVE  TypeInv'
<1>1. /\ run' = r /\ (At(p))' = next
      /\ pc' \in [Procs -> Places] /\ then' \in [Procs -> Places] /\ mem' \in [Procs -> Runs]
      /\ troubles' \in 0..MaxTroubles
      /\ \A q \in Procs \ {p} : pc'[q] = pc[q] /\ then'[q] = then[q] /\ mem'[q] = mem[q]
      /\ pc'[p] \in {next, "diverge"} /\ then'[p] \notin {"diverge", "grant"}
      /\ Awaited(mem'[p])
      /\ mem'[p] = IF pc'[p] = "diverge" THEN [r EXCEPT !.diverged = TRUE] ELSE r
  BY CommitDoes
<1>2. mem'[p].nodes = r.nodes
  BY <1>1, DivergedDoes DEF SameNodesAndHistory
<1>3. GoalTypeOK'
  BY <1>1 DEF TypeInv, GoalTypeOK
<1>4. Local(p)'
  BY <1>1, <1>2 DEF Local, AttemptCount
<1>5. OthersKept(p)
  BY <1>1 DEF OthersKept
<1> QED
  BY <1>1, <1>3, <1>4, <1>5, StepTyped DEF TypeInv

LEMMA LeaseTyped ==
    ASSUME TypeInv, NEW p \in Procs, LeaseStep(p)
    PROVE  TypeInv'
<1> USE DEF disk, local, observed
<1>1. CASE LoadRun(p)
  <2>1. GoalTypeOK'
    BY <1>1 DEF TypeInv, GoalTypeOK, LoadRun, Load, Goto, Places
  <2>2. Local(p)'
    BY <1>1, NoEnvelopeApart
       DEF TypeInv, GoalTypeOK, Local, At, LoadRun, Load, Goto, Places, OnAttempt, Loaded, InLease, Looping
  <2>3. OthersKept(p)
    BY <1>1 DEF TypeInv, GoalTypeOK, OthersKept, LoadRun, Load, Goto
  <2> QED
    BY <1>1, <2>1, <2>2, <2>3, StepTyped DEF TypeInv, LoadRun
<1>2. CASE AcquireLease(p)
  <2>1. GoalTypeOK'
    BY <1>2 DEF TypeInv, GoalTypeOK, AcquireLease, Goto, Places
  <2>2. Local(p)' /\ OthersKept(p)
    BY <1>2 DEF TypeInv, GoalTypeOK, Local, At, OthersKept, AcquireLease, Goto, OnAttempt, Loaded, InLease, Looping
  <2> QED
    BY <1>2, <2>1, <2>2, StepTyped DEF TypeInv, AcquireLease
<1>3. CASE LeaseBusy(p) \/ ReleaseLease(p)
  <2>1. Quit(p) /\ lease' \in {"free", lease} /\ UNCHANGED <<run, envelope, stop, observed, troubles>>
    BY <1>3 DEF LeaseBusy, ReleaseLease
  <2> QED
    BY <2>1, QuitTyped DEF TypeInv, GoalTypeOK
<1>4. CASE StampLease(p) \/ FinallyWrite(p)
  <2>1. GoalTypeOK'
    BY <1>4 DEF TypeInv, GoalTypeOK, StampLease, FinallyWrite, Goto, Places
  <2>2. Local(p)' /\ OthersKept(p)
    BY <1>4 DEF TypeInv, GoalTypeOK, Local, At, OthersKept, StampLease, FinallyWrite, Goto,
                OnAttempt, Loaded, InLease, Looping
  <2>3. Awaited(run') /\ UNCHANGED dispatched
    BY <1>4 DEF TypeInv, Local, StampLease, FinallyWrite
  <2> QED
    BY <2>1, <2>2, <2>3, StepTyped DEF TypeInv
<1>5. CASE FinallyRead(p)
  <2>1. GoalTypeOK'
    BY <1>5 DEF TypeInv, GoalTypeOK, FinallyRead, Goto, Places
  <2>2. Local(p)' /\ OthersKept(p)
    BY <1>5 DEF TypeInv, GoalTypeOK, Local, At, OthersKept, FinallyRead, Goto, OnAttempt, Loaded, InLease, Looping
  <2> QED
    BY <1>5, <2>1, <2>2, StepTyped DEF TypeInv, FinallyRead
<1> QED
  BY <1>1, <1>2, <1>3, <1>4, <1>5 DEF LeaseStep

LEMMA GateTyped ==
    ASSUME TypeInv, NEW p \in Procs, Gate(p)
    PROVE  TypeInv'
<1> USE DEF disk, local, observed
<1>1. pc[p] = "gate" /\ mem[p] \in Runs /\ env[p] # NoEnvelope /\ UNCHANGED observed
  BY DEF Gate, TypeInv, GoalTypeOK, Local, At, Loaded, InLease, Looping
<1>2. CASE GateStopped(p) \/ GateBlocked(p) \/ GateSpent(p)
  <2>1. PICK to \in {"stopped", "needs_user"} : Commit(p, Move(mem[p], to), "finally")
    BY <1>2 DEF GateStopped, GateBlocked, GateSpent, CommitMove
  <2>2. Move(mem[p], to) \in Runs /\ Awaited(Move(mem[p], to))
    BY <1>1, MoveDoes DEF Awaited, PHASES
  <2> QED
    BY <1>1, <1>2, <2>1, <2>2, CommitTyped
       DEF GateStopped, GateBlocked, GateSpent, TypeInv, GoalTypeOK, Places, OnAttempt, Loaded, InLease, Looping
<1>3. CASE GateComplete(p) /\ ~again[p]
  <2>1. Commit(p, Move(mem[p], "final_verification"), "verify")
    BY <1>3 DEF GateComplete, CommitMove
  <2>2. Move(mem[p], "final_verification") \in Runs /\ Awaited(Move(mem[p], "final_verification"))
    BY <1>1, MoveDoes DEF Awaited, PHASES
  <2> QED
    BY <1>1, <1>3, <2>1, <2>2, CommitTyped
       DEF GateComplete, TypeInv, GoalTypeOK, Places, OnAttempt, Loaded, InLease, Looping
<1>4. CASE GateDiverged(p) \/ GateLimit(p) \/ (GateComplete(p) /\ again[p])
  <2>1. Goto(p, "finally") /\ UNCHANGED <<disk, local, troubles>>
    BY <1>4 DEF GateDiverged, GateLimit, GateComplete
  <2>2. GoalTypeOK'
    BY <1>1, <2>1 DEF TypeInv, GoalTypeOK, Goto, Places
  <2>3. Local(p)' /\ OthersKept(p)
    BY <1>1, <2>1 DEF TypeInv, GoalTypeOK, Local, At, OthersKept, Goto, OnAttempt, Loaded, InLease, Looping
  <2> QED
    BY <1>1, <2>1, <2>2, <2>3, StepTyped DEF TypeInv
<1>5. CASE GateNode(p)
  <2> DEFINE n == SelectReadyNode(mem[p])
             a == <<n, AttemptCount(mem[p], n) + 1>>
             g == PendingGrantFor(mem[p], n)
  <2>1. n \in Nodes
    BY <1>5, SelectedIsReady DEF GateNode
  <2>2. a \in AttemptIds
    BY <1>1, <2>1, AttemptTypes DEF AttemptIds
  <2>3. g \in AttemptIds \cup {NoAttempt}
    BY <1>1, PendingGrantIs
  <2>4. a # NoAttempt
    BY DEF NoAttempt
  <2>5. cur' = [cur EXCEPT ![p] = a] /\ grant' = [grant EXCEPT ![p] = g] /\ Goto(p, "open")
    BY <1>5 DEF GateNode
  <2>6. a[1] = n /\ a[2] = AttemptCount(mem[p], n) + 1
    OBVIOUS
  <2> HIDE DEF a, g, n
  <2>7. GoalTypeOK'
    BY <1>1, <1>5, <2>2, <2>3, <2>5 DEF GateNode, TypeInv, GoalTypeOK, Goto, Places
  <2>8. Local(p)'
    BY <1>1, <1>5, <2>4, <2>5, <2>6
       DEF GateNode, TypeInv, GoalTypeOK, Local, At, Goto, OnAttempt, Loaded, InLease, Looping
  <2>9. OthersKept(p)
    BY <1>5, <2>5 DEF GateNode, TypeInv, GoalTypeOK, OthersKept, Goto
  <2> QED
    BY <1>1, <1>5, <2>7, <2>8, <2>9, StepTyped DEF GateNode, TypeInv
<1> QED
  BY <1>2, <1>3, <1>4, <1>5 DEF Gate

LEMMA AttemptTyped ==
    ASSUME TypeInv, NEW p \in Procs, AttemptStep(p)
    PROVE  TypeInv'
<1> USE DEF disk, local, observed
<1>1. mem[p] \in Runs /\ Awaited(mem[p]) /\ sinceStop \in Nat
  BY DEF TypeInv, GoalTypeOK, Local
<1>2. CASE RefuseAttempt(p) \/ (pc[p] = "unreviewable" /\ Pause(p))
  <2>1. Commit(p, Move(mem[p], "needs_user"), "finally")
    BY <1>2 DEF RefuseAttempt, Pause, CommitMove
  <2>2. Move(mem[p], "needs_user") \in Runs /\ Awaited(Move(mem[p], "needs_user"))
    BY <1>1, MoveDoes DEF Awaited, PHASES
  <2> QED
    BY <1>1, <1>2, <2>1, <2>2, CommitTyped
       DEF RefuseAttempt, Pause, TypeInv, GoalTypeOK, Places, OnAttempt, Loaded, InLease, Looping
<1>3. CASE OpenAttempt(p)
  <2> DEFINE r == StartAttempt(mem[p], cur[p][1])
             next == IF grant[p] = NoAttempt THEN "spawn" ELSE "consume"
  <2>1. /\ pc[p] = "open" /\ Commit(p, r, next) /\ sinceStop' = IF stop THEN sinceStop + 1 ELSE 0
        /\ UNCHANGED <<envelope, stop, lease, env, cur, grant, again, live, dispatched>>
    BY <1>3 DEF OpenAttempt
  <2>2. cur[p] \in AttemptIds /\ cur[p] # NoAttempt /\ env[p] # NoEnvelope
        /\ cur[p][2] = AttemptCount(mem[p], cur[p][1]) + 1
    BY <2>1 DEF TypeInv, GoalTypeOK, Local, At, Loaded, InLease, Looping
  <2>3. cur[p][1] \in Nodes
    BY <2>2 DEF AttemptIds
  <2>4. Opened(r, mem[p], cur[p][1])
    BY <1>1, <2>3, StartAttemptDoes
  <2>5. /\ r \in Runs /\ SameButNodes(r, mem[p])
        /\ AttemptCount(r, cur[p][1]) = AttemptCount(mem[p], cur[p][1]) + 1
    BY <2>4 DEF Opened
  <2>6. Awaited(r)
    BY <1>1, <2>5 DEF Awaited, SameButNodes
  <2> HIDE DEF r
  <2> QED
    BY <1>1, <2>1, <2>2, <2>5, <2>6, CommitTyped DEF TypeInv, GoalTypeOK, Places
<1>4. CASE SpendGrant(p) /\ GrantSpendable(mem[p], grant[p])
  <2> DEFINE r == ConsumeGrant(mem[p], grant[p], cur[p])
  <2>1. /\ pc[p] = "consume" /\ Commit(p, r, "spawn")
        /\ UNCHANGED <<envelope, stop, lease, env, cur, grant, again, observed>>
    BY <1>4 DEF SpendGrant
  <2>2. cur[p] \in AttemptIds /\ cur[p] # NoAttempt /\ env[p] # NoEnvelope
        /\ cur[p][2] = AttemptCount(mem[p], cur[p][1])
    BY <2>1 DEF TypeInv, GoalTypeOK, Local, At, OnAttempt, Loaded, InLease, Looping
  <2>3. r \in Runs /\ SameButGrants(r, mem[p])
    BY <1>1, <2>2, ConsumeTyped
  <2>4. Awaited(r) /\ AttemptCount(r, cur[p][1]) = AttemptCount(mem[p], cur[p][1])
    BY <1>1, <2>3 DEF SameButGrants, Awaited, AttemptCount
  <2> HIDE DEF r
  <2> QED
    BY <1>1, <2>1, <2>2, <2>3, <2>4, CommitTyped DEF TypeInv, GoalTypeOK, Places
<1>5. CASE (SpendGrant(p) /\ ~GrantSpendable(mem[p], grant[p])) \/ SpawnRefused(p)
  <2>1. /\ pc[p] # "diverge" /\ Goto(p, "finally") /\ UNCHANGED <<disk, local, observed>>
        /\ troubles' \in 0..MaxTroubles
    BY <1>5, GoalRunAssumption DEF SpendGrant, SpawnRefused, TypeInv, GoalTypeOK
  <2>2. GoalTypeOK'
    BY <2>1 DEF TypeInv, GoalTypeOK, Goto, Places
  <2>3. Local(p)' /\ OthersKept(p)
    BY <2>1 DEF TypeInv, GoalTypeOK, Local, At, OthersKept, Goto, OnAttempt, Loaded, InLease, Looping
  <2> QED
    BY <2>1, <2>2, <2>3, StepTyped DEF TypeInv
<1>6. CASE Spawn(p)
  <2>1. /\ pc[p] = "spawn" /\ Goto(p, "record") /\ UNCHANGED <<disk, local, sinceStop, troubles>>
        /\ live' = live \cup {Session(p)} /\ dispatched' = dispatched \cup {Session(p)}
    BY <1>6 DEF Spawn
  <2>2. Session(p) \in Sessions
    <3>1. cur[p] \in AttemptIds /\ env[p] \in Envelopes /\ grant[p] \in AttemptIds \cup {NoAttempt}
      BY <2>1 DEF TypeInv, GoalTypeOK, Local, At, OnAttempt, Loaded, InLease, Looping
    <3>2. Cardinality({s \in dispatched : s.at = cur[p]}) \in Nat
      BY FS_Subset, FS_CardinalityType DEF TypeInv
    <3> QED
      BY <3>1, <3>2 DEF Session, Sessions
  <2>3. IsFiniteSet(dispatched')
    BY <2>1, FS_AddElement DEF TypeInv
  <2>4. GoalTypeOK'
    BY <2>1, <2>2 DEF TypeInv, GoalTypeOK, Goto, Places
  <2>5. Local(p)' /\ OthersKept(p)
    BY <2>1 DEF TypeInv, GoalTypeOK, Local, At, OthersKept, Goto, OnAttempt, Loaded, InLease, Looping
  <2> QED
    BY <2>1, <2>3, <2>4, <2>5, StepTyped DEF TypeInv
<1>7. CASE SpawnFails(p) \/ RecordSpawn(p)
  <2>1. PICK pid \in BOOLEAN : Record(p, pid)
    BY <1>7 DEF SpawnFails, RecordSpawn
  <2> DEFINE r == RecordAttemptProcess(mem[p], cur[p], pid)
  <2>2. /\ pc[p] \in {"spawn", "record"} /\ Goto(p, "session") /\ run' = r /\ mem' = [mem EXCEPT ![p] = r]
        /\ troubles' \in 0..MaxTroubles
        /\ UNCHANGED <<envelope, stop, lease, env, cur, grant, then, again, observed>>
    <3>1. CASE SpawnFails(p)
      BY <2>1, <3>1, GoalRunAssumption DEF SpawnFails, Record, TypeInv, GoalTypeOK
    <3>2. CASE RecordSpawn(p)
      BY <2>1, <3>2, GoalRunAssumption DEF RecordSpawn, Record, TypeInv, GoalTypeOK
    <3> QED
      BY <1>7, <3>1, <3>2
  <2>3. cur[p] \in AttemptIds /\ cur[p][2] = AttemptCount(mem[p], cur[p][1])
    BY <2>2 DEF TypeInv, GoalTypeOK, Local, At, OnAttempt
  <2>4. Rewritten(r, mem[p], cur[p][1], cur[p][2], [result |-> "running", pid |-> pid], mem[p].nodes[cur[p][1]].state)
    BY <1>1, <2>3, RecordDoes
  <2>5. r \in Runs /\ SameButNodes(r, mem[p]) /\ AttemptCount(r, cur[p][1]) = AttemptCount(mem[p], cur[p][1])
    BY <2>4 DEF Rewritten
  <2>6. Awaited(r)
    BY <1>1, <2>5 DEF Awaited, SameButNodes
  <2> HIDE DEF r
  <2>7. GoalTypeOK'
    BY <2>2, <2>5 DEF TypeInv, GoalTypeOK, Goto, Places
  <2>8. Local(p)' /\ OthersKept(p)
    BY <2>2, <2>3, <2>5, <2>6 DEF TypeInv, GoalTypeOK, Local, At, OthersKept, Goto, OnAttempt, Loaded, InLease, Looping
  <2> QED
    BY <2>2, <2>7, <2>8, <2>6, StepTyped DEF TypeInv
<1>8. CASE Settle(p) \/ SettleHeld(p)
  <2>1. PICK result \in {"passed", "failed", "errored"}, next \in {"gate", "pause", "unreviewable"} :
           Commit(p, FinishAttempt(mem[p], cur[p], result), next)
    BY <1>8 DEF Settle, SettleHeld
  <2> DEFINE r == FinishAttempt(mem[p], cur[p], result)
  <2>2. /\ pc[p] = "session" /\ Commit(p, r, next)
        /\ UNCHANGED <<envelope, stop, lease, env, cur, grant, again, observed>>
    BY <1>8, <2>1 DEF Settle, SettleHeld, SessionEnded
  <2>3. cur[p] \in AttemptIds /\ cur[p] # NoAttempt /\ env[p] # NoEnvelope
        /\ cur[p][2] = AttemptCount(mem[p], cur[p][1])
    BY <2>2 DEF TypeInv, GoalTypeOK, Local, At, OnAttempt, Loaded, InLease, Looping
  <2>4. cur[p][2] <= AttemptCount(mem[p], cur[p][1])
    BY <2>3 DEF AttemptIds
  <2>5. r \in Runs /\ SameButNodes(r, mem[p])
    BY <1>1, <2>3, <2>4, FinishDoes DEF Rewritten
  <2>6. Awaited(r)
    BY <1>1, <2>5 DEF Awaited, SameButNodes
  <2> HIDE DEF r
  <2> QED
    BY <1>1, <2>2, <2>3, <2>5, <2>6, CommitTyped DEF TypeInv, GoalTypeOK, Places, OnAttempt
<1>9. CASE pc[p] = "pause" /\ Pause(p)
  <2> DEFINE r == ToAwaitingActionApproval(mem[p], cur[p])
  <2>1. /\ Commit(p, r, "finally")
        /\ UNCHANGED <<envelope, stop, lease, env, cur, grant, again, observed>>
    BY <1>9 DEF Pause, CommitMove
  <2>2. cur[p] \in AttemptIds /\ cur[p] # NoAttempt
    BY <1>9 DEF TypeInv, GoalTypeOK, Local, At
  <2>3. r \in Runs /\ Awaited(r)
    BY <1>1, <2>2, AwaitDoes DEF Awaited
  <2> HIDE DEF r
  <2> QED
    BY <1>1, <2>1, <2>3, CommitTyped DEF TypeInv, GoalTypeOK, Places, OnAttempt, Loaded, InLease, Looping
<1> QED
  BY <1>2, <1>3, <1>4, <1>5, <1>6, <1>7, <1>8, <1>9 DEF AttemptStep, Pause

LEMMA VerifyTyped ==
    ASSUME TypeInv, NEW p \in Procs, Verify(p)
    PROVE  TypeInv'
<1> USE DEF disk, local, observed
<1>1. /\ mem[p] \in Runs /\ Awaited(mem[p]) /\ env[p] # NoEnvelope
      /\ pc[p] = "verify" /\ UNCHANGED <<envelope, stop, lease, env, grant, observed>>
      /\ sinceStop \in Nat /\ again \in [Procs -> BOOLEAN] /\ cur \in [Procs -> AttemptIds \cup {NoAttempt}]
  BY DEF TypeInv, GoalTypeOK, Local, Verify, At, Loaded, InLease, Looping
<1>2. CASE VerifyBlocked(p) \/ RejectedScopeChange(p) \/ Approved(p)
  <2>1. PICK r \in {Move(mem[p], "needs_user"), ToPlanning(mem[p]), Move(mem[p], "done")} :
            Commit(p, r, "finally") /\ UNCHANGED <<cur, again>>
    BY <1>2 DEF VerifyBlocked, RejectedScopeChange, Approved, CommitMove
  <2>2. r \in Runs /\ Awaited(r)
    <3>1. CASE r = Move(mem[p], "needs_user") \/ r = Move(mem[p], "done")
      BY <1>1, <3>1, MoveDoes DEF Awaited, PHASES
    <3>2. CASE r = ToPlanning(mem[p])
      BY <1>1, <3>2, ToPlanningDoes DEF Awaited
    <3> QED
      BY <2>1, <3>1, <3>2
  <2> QED
    BY <1>1, <2>1, <2>2, CommitTyped DEF Places, OnAttempt, Loaded, InLease, Looping
<1>3. CASE RejectedInScope(p)
  <2>1. PICK S \in SUBSET Nodes : Commit(p, ToRunning(ReopenNodes(mem[p], S)), "gate")
    BY <1>3 DEF RejectedInScope, CommitMove
  <2>2. /\ again' = [again EXCEPT ![p] = TRUE] /\ cur' = [cur EXCEPT ![p] = NoAttempt]
    BY <1>3 DEF RejectedInScope
  <2>3. ReopenNodes(mem[p], S) \in Runs
    BY <1>1, ReopenDoes
  <2> DEFINE r == ToRunning(ReopenNodes(mem[p], S))
  <2>4. r \in Runs /\ Awaited(r)
    BY <2>3, ToRunningDoes DEF Awaited
  <2> HIDE DEF r
  <2> QED
    BY <1>1, <2>1, <2>2, <2>4, CommitTyped DEF r, Places, OnAttempt
<1> QED
  BY <1>2, <1>3 DEF Verify

LEMMA ResumeTyped ==
    ASSUME TypeInv, NEW p \in Procs, ResumeStep(p)
    PROVE  TypeInv'
<1> USE DEF disk, local, observed
<1>1. /\ mem[p] \in Runs /\ Awaited(mem[p]) /\ sinceStop \in Nat /\ again \in [Procs -> BOOLEAN]
      /\ cur \in [Procs -> AttemptIds \cup {NoAttempt}]
  BY DEF TypeInv, GoalTypeOK, Local
<1>2. CASE LoadResume(p)
  <2>1. GoalTypeOK'
    BY <1>2 DEF TypeInv, GoalTypeOK, LoadResume, Load, Goto, Places
  <2>2. Local(p)' /\ OthersKept(p)
    BY <1>2 DEF TypeInv, GoalTypeOK, Local, At, OthersKept, LoadResume, Load, Goto,
                OnAttempt, Loaded, InLease, Looping
  <2> QED
    BY <1>2, <2>1, <2>2, StepTyped DEF TypeInv, LoadResume
<1>3. CASE InspectLease(p) /\ lease \in {"free", "dead"}
  <2>1. GoalTypeOK'
    BY <1>3 DEF TypeInv, GoalTypeOK, InspectLease, Goto, Places
  <2>2. Local(p)' /\ OthersKept(p)
    BY <1>3 DEF TypeInv, GoalTypeOK, Local, At, OthersKept, InspectLease, Goto,
                OnAttempt, Loaded, InLease, Looping
  <2> QED
    BY <1>3, <2>1, <2>2, StepTyped DEF TypeInv, InspectLease
<1>4. CASE (InspectLease(p) /\ lease \notin {"free", "dead"}) \/ ResumeRefuses(p)
  <2>1. Quit(p) /\ UNCHANGED <<disk, observed>> /\ troubles' \in 0..MaxTroubles
    BY <1>4, GoalRunAssumption DEF InspectLease, ResumeRefuses, TypeInv, GoalTypeOK
  <2> QED
    BY <2>1, QuitTyped DEF TypeInv, GoalTypeOK
<1>5. CASE Abandon(p)
  <2>1. PICK a \in Unsettled(p) : Commit(p, FinishAttempt(mem[p], a, "errored"), "abandoned")
    BY <1>5 DEF Abandon
  <2>2. PICK n \in Nodes : a \in {n} \X (1..AttemptCount(mem[p], n))
    BY <2>1 DEF Unsettled, UnsettledAttempts
  <2>3. a \in AttemptIds /\ a[2] <= AttemptCount(mem[p], a[1])
    BY <1>1, <2>2, AttemptTypes DEF AttemptIds
  <2> DEFINE r == FinishAttempt(mem[p], a, "errored")
  <2>4. r \in Runs /\ SameButNodes(r, mem[p])
    BY <1>1, <2>3, FinishDoes DEF Rewritten
  <2>5. Awaited(r)
    BY <1>1, <2>4 DEF Awaited, SameButNodes
  <2>6. Commit(p, r, "abandoned") /\ UNCHANGED <<envelope, stop, lease, env, cur, grant, again, observed>>
    BY <1>5, <2>1 DEF Abandon
  <2> HIDE DEF r
  <2> QED
    BY <1>1, <2>4, <2>5, <2>6, CommitTyped DEF Places, OnAttempt, Loaded, InLease, Looping
<1>6. CASE ClearDivergence(p)
  <2> DEFINE r == [mem[p] EXCEPT !.diverged = FALSE]
  <2>1. /\ mem' = [mem EXCEPT ![p] = r] /\ run' = r /\ pc[p] \in {"reconcile", "abandoned"}
        /\ UNCHANGED <<pc, envelope, stop, lease, env, cur, grant, then, again, observed, troubles>>
    <3>1. mem' = [mem EXCEPT ![p].diverged = FALSE]
      BY <1>6 DEF ClearDivergence
    <3> QED
      BY <1>6, <3>1 DEF ClearDivergence, Reconciling
  <2>2. r \in Runs /\ r.phase = mem[p].phase /\ r.request = mem[p].request
    <3>1. r \in Runs
      BY <1>1, Zenon DEF Runs
    <3> QED
      BY <1>1, <3>1 DEF Runs
  <2> HIDE DEF r
  <2>3. GoalTypeOK'
    BY <2>1, <2>2 DEF TypeInv, GoalTypeOK
  <2>4. Local(p)' /\ OthersKept(p)
    BY <1>1, <2>1, <2>2 DEF TypeInv, GoalTypeOK, Local, Awaited, At, OthersKept, OnAttempt, Loaded, InLease, Looping
  <2> QED
    BY <1>1, <2>1, <2>2, <2>3, <2>4, StepTyped DEF TypeInv, Awaited
<1>7. CASE Continue(p)
  <2>1. PICK r \in {ToRunning(mem[p]), ToPlanning(mem[p])} : Commit(p, r, "exit")
    BY <1>7 DEF Continue, CommitMove
  <2>2. r \in Runs /\ Awaited(r)
    BY <1>1, ToRunningDoes, ToPlanningDoes DEF Awaited
  <2>3. UNCHANGED <<envelope, stop, lease, env, cur, grant, again, observed>>
    BY <1>7 DEF Continue
  <2> QED
    BY <1>1, <2>1, <2>2, <2>3, CommitTyped DEF Places, OnAttempt, Loaded, InLease, Looping
<1> QED
  BY <1>2, <1>3, <1>4, <1>5, <1>6, <1>7 DEF ResumeStep

LEMMA ApproveTyped ==
    ASSUME TypeInv, NEW p \in Procs, ApproveStep(p)
    PROVE  TypeInv'
<1> USE DEF disk, local, observed
<1>1. /\ mem[p] \in Runs /\ Awaited(mem[p]) /\ sinceStop \in Nat /\ again \in [Procs -> BOOLEAN]
      /\ cur \in [Procs -> AttemptIds \cup {NoAttempt}]
  BY DEF TypeInv, GoalTypeOK, Local
<1>2. CASE LoadApprove(p) \/ LoadAmend(p) \/ LoadGrant(p)
  <2>1. /\ UNCHANGED <<disk, observed, troubles>> /\ pc[p] = "idle"
        /\ \E place \in {"approve", "amend", "grant"}, e \in Envelopes \cup {NoEnvelope} :
              /\ Load(p, e) /\ Goto(p, place)
              /\ place = "grant" => run.phase = "awaiting_action_approval"
              /\ place # "grant" => e \in Envelopes
    BY <1>2 DEF LoadApprove, LoadAmend, LoadGrant, TypeInv, GoalTypeOK
  <2>2. PICK place \in {"approve", "amend", "grant"}, e \in Envelopes \cup {NoEnvelope} :
              /\ Load(p, e) /\ Goto(p, place)
              /\ place = "grant" => run.phase = "awaiting_action_approval"
              /\ place # "grant" => e \in Envelopes
    BY <2>1
  <2>3. GoalTypeOK'
    BY <2>1, <2>2 DEF TypeInv, GoalTypeOK, Load, Goto, Places
  <2>4. Local(p)' /\ OthersKept(p)
    BY <2>1, <2>2, NoEnvelopeApart
       DEF TypeInv, GoalTypeOK, Local, At, OthersKept, Load, Goto, OnAttempt, Loaded, InLease, Looping
  <2> QED
    BY <2>1, <2>3, <2>4, StepTyped DEF TypeInv
<1>3. CASE Approve(p) \/ Amend(p)
  <2> DEFINE r == ApproveEnvelope(mem[p], env[p])
  <2>1. /\ pc[p] \in {"approve", "amended"} /\ Commit(p, r, "exit")
        /\ UNCHANGED <<envelope, stop, lease, env, cur, grant, again, observed>>
    BY <1>3 DEF Approve, Amend, CommitMove
  <2>2. env[p] \in Envelopes
    BY <2>1 DEF TypeInv, GoalTypeOK, Local, At, Loaded
  <2>3. r \in Runs /\ Awaited(r)
    BY <1>1, <2>2, ApproveDoes DEF Awaited
  <2> HIDE DEF r
  <2> QED
    BY <1>1, <2>1, <2>3, CommitTyped DEF Places, OnAttempt, Loaded, InLease, Looping
<1>4. CASE AmendEnvelope(p)
  <2>1. env[p] \in Envelopes
    BY <1>4 DEF AmendEnvelope, TypeInv, GoalTypeOK, Local, At, Loaded
  <2>2. GoalTypeOK'
    BY <1>4, <2>1 DEF AmendEnvelope, TypeInv, GoalTypeOK, Goto, Places
  <2>3. Local(p)' /\ OthersKept(p)
    BY <1>4 DEF AmendEnvelope, TypeInv, GoalTypeOK, Local, At, OthersKept, Goto,
                OnAttempt, Loaded, InLease, Looping
  <2> QED
    BY <1>4, <2>2, <2>3, StepTyped DEF AmendEnvelope, TypeInv
<1>5. CASE GrantAction(p)
  <2> DEFINE r == [mem[p] EXCEPT !.grants = Append(mem[p].grants, Grant(mem[p].request))]
  <2>1. /\ pc[p] = "grant" /\ run' = r /\ mem' = [mem EXCEPT ![p] = r] /\ Goto(p, "granted")
        /\ UNCHANGED <<envelope, stop, lease, env, cur, grant, then, again, observed, troubles>>
    BY <1>5 DEF GrantAction
  <2>2. mem[p].request \in AttemptIds
    BY <1>1, <2>1 DEF TypeInv, Local, Awaited, Runs
  <2>3. r \in Runs /\ SameButGrants(r, mem[p])
    BY <1>1, <2>2, GrantDoes
  <2>4. Awaited(r)
    BY <1>1, <2>3 DEF Awaited, SameButGrants
  <2> HIDE DEF r
  <2>5. GoalTypeOK'
    BY <2>1, <2>3 DEF TypeInv, GoalTypeOK, Goto, Places
  <2>6. Local(p)' /\ OthersKept(p)
    BY <2>1, <2>3, <2>4 DEF TypeInv, GoalTypeOK, Local, At, OthersKept, Goto, OnAttempt, Loaded, InLease, Looping
  <2> QED
    BY <2>1, <2>4, <2>5, <2>6, StepTyped DEF TypeInv
<1>6. CASE GrantResumes(p)
  <2>1. /\ Commit(p, ToRunning(mem[p]), "exit")
        /\ UNCHANGED <<envelope, stop, lease, env, cur, grant, again, observed>>
    BY <1>6 DEF GrantResumes, CommitMove
  <2>2. ToRunning(mem[p]) \in Runs /\ Awaited(ToRunning(mem[p]))
    BY <1>1, ToRunningDoes DEF Awaited
  <2> QED
    BY <1>1, <2>1, <2>2, CommitTyped DEF Places, OnAttempt, Loaded, InLease, Looping
<1> QED
  BY <1>2, <1>3, <1>4, <1>5, <1>6 DEF ApproveStep

LEMMA OtherTyped ==
    ASSUME TypeInv, NEW p \in Procs, StampDivergence(p) \/ Exit(p) \/ Crash(p)
    PROVE  TypeInv'
<1> USE DEF disk, local, observed
<1>1. CASE StampDivergence(p)
  <2>1. GoalTypeOK'
    BY <1>1 DEF TypeInv, GoalTypeOK, StampDivergence, Goto, Places
  <2>2. Local(p)' /\ OthersKept(p)
    BY <1>1 DEF TypeInv, GoalTypeOK, Local, At, OthersKept, StampDivergence, Goto
  <2> QED
    BY <1>1, <2>1, <2>2, StepTyped DEF TypeInv, Local, StampDivergence
<1>2. CASE Exit(p) \/ Crash(p)
  <2>1. /\ Quit(p) /\ lease' \in {lease, "dead", "torn"} /\ troubles' \in 0..MaxTroubles
        /\ UNCHANGED <<run, envelope, stop, observed>>
    BY <1>2, GoalRunAssumption DEF Exit, Crash, TypeInv, GoalTypeOK
  <2> QED
    BY <2>1, QuitTyped DEF TypeInv, GoalTypeOK
<1> QED
  BY <1>1, <1>2

\* What is neither a process nor a crash writes neither run.json nor a copy.
World == Stop \/ RemoveStop \/ ChildEnds \/ RemoveLock \/ EditEnvelope

LEMMA WorldTyped ==
    ASSUME TypeInv, World \/ UNCHANGED vars
    PROVE  TypeInv'
<1> USE DEF disk, local, observed
<1>1. UNCHANGED <<run, pc, local, dispatched>>
  BY DEF World, Stop, RemoveStop, ChildEnds, RemoveLock, EditEnvelope, vars
<1>2. /\ stop' \in BOOLEAN /\ lease' \in Procs \cup {"free", "dead", "torn"} /\ live' \subseteq dispatched
      /\ sinceStop' \in Nat /\ troubles' \in 0..MaxTroubles
  <2> USE DEF TypeInv, GoalTypeOK
  <2>1. CASE Stop
    BY <2>1, GoalRunAssumption DEF Stop
  <2>2. CASE RemoveStop
    BY <2>2 DEF RemoveStop
  <2>3. CASE ChildEnds
    BY <2>3 DEF ChildEnds
  <2>4. CASE RemoveLock
    BY <2>4 DEF RemoveLock
  <2>5. CASE EditEnvelope
    BY <2>5, GoalRunAssumption DEF EditEnvelope
  <2>6. CASE UNCHANGED vars
    BY <2>6 DEF vars
  <2> QED
    BY <2>1, <2>2, <2>3, <2>4, <2>5, <2>6 DEF World
<1>3. envelope' \in Envelopes
  <2>1. \A e \in Envelopes : [e EXCEPT !.scope = "edited"] \in Envelopes
    BY DEF Envelopes
  <2> QED
    BY <2>1 DEF World, Stop, RemoveStop, ChildEnds, RemoveLock, EditEnvelope, vars, TypeInv, GoalTypeOK
<1> QED
  BY <1>1, <1>2, <1>3 DEF TypeInv, GoalTypeOK, Local, At

LEMMA NextTyped == TypeInv /\ [Next]_vars => TypeInv'
BY LeaseTyped, GateTyped, AttemptTyped, VerifyTyped, ResumeTyped, ApproveTyped, OtherTyped, WorldTyped
   DEF Next, Environment, Verb, World

\* Type correctness: every verb writes and keeps only what run.json, the lease
\* and its own copy can hold, through crashes and overlapping verbs.
THEOREM GoalTyped == Spec => []GoalTypeOK
<1>1. Init => TypeInv
  BY InitTyped
<1>2. TypeInv /\ [Next]_vars => TypeInv'
  BY NextTyped
<1>3. TypeInv => GoalTypeOK
  BY DEF TypeInv
<1> QED
  BY <1>1, <1>2, <1>3, PTL DEF Spec

=============================================================================
