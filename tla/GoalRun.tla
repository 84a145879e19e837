------------------------------- MODULE GoalRun -------------------------------
(***************************************************************************)
(* An approved goal run driven to its end by CLI processes: goal run       *)
(* (run.mjs, runner.mjs, final-verify.mjs), goal resume, goal approve and  *)
(* its budget amendment, goal approve-action, goal stop.                   *)
(*                                                                         *)
(* run.json is the authority; every process works on a copy `mem` it       *)
(* loaded, and persists it.  A step of a process is one access to what it  *)
(* shares with the others: run.json, the envelope, STOP, the lease, the    *)
(* event sidecar, the children it spawns.  A process may crash between any *)
(* two of them.  Children are detached: they outlive the engine.           *)
(*                                                                         *)
(* The lease is the lock of RunLock, taken and released in one step; the   *)
(* sidecar is an append that is recorded or fails.                         *)
(***************************************************************************)
EXTENDS GoalState

CONSTANTS
    Procs,         \* CLI processes; with one, an operator runs a verb at a time
    FirstEnvelope,   \* the envelope offered
    MaxApprovals,  \* bound: approvals granted
    MaxTroubles    \* bound: crashes, failed event appends, children that do not
                   \* start, edits of the envelope and STOP requests, together

ASSUME GoalRunAssumption ==
    /\ {"free", "dead", "torn"} \cap Procs = {}
    /\ FirstEnvelope \in Envelopes /\ FirstEnvelope.scope = "planned"
    /\ MaxApprovals \in Nat /\ MaxTroubles \in Nat

VARIABLES
    run,         \* run.json
    envelope,    \* approval-envelope.json
    stop,        \* the STOP file is present
    lease,       \* run.lock: "free", its owner; left by a crash: "dead", or
                 \* "torn" when its owner had not been written
    pc,          \* where each process is
    mem,         \* its copy of run.json
    env,         \* the envelope it loaded
    cur,         \* the attempt it is on
    grant,       \* the action request whose grant that attempt carries
    then,        \* where it goes once its transition is committed
    again,       \* it is in the loop after a rejected final verdict
    live,        \* the implementation sessions that are running
    dispatched,  \* every session ever spawned, and under what
    sinceStop,   \* attempts opened since the STOP file was last absent
    troubles     \* how much of MaxTroubles has happened

disk == <<run, envelope, stop, lease>>
local == <<mem, env, cur, grant, then, again>>
observed == <<live, dispatched, sinceStop>>
vars == <<disk, pc, local, observed, troubles>>

Places == {"idle", "lease", "stamp", "gate", "open", "consume", "spawn", "record",
           "session", "pause", "unreviewable", "verify", "finally", "clear", "release",
           "diverge", "exit",
           "inspect", "reconcile", "abandoned", "approve", "amend", "amended",
           "grant", "granted"}

\* no: how many were spawned before it for the same attempt.
Sessions == [at : AttemptIds, no : Nat, env : Envelopes,
             grant : AttemptIds \cup {NoAttempt}]

\* No copy loaded.
NoRun == [Offered EXCEPT !.phase = "planning"]

Init ==
    /\ run = Offered
    /\ envelope = FirstEnvelope
    /\ stop = FALSE
    /\ lease = "free"
    /\ pc = [p \in Procs |-> "idle"]
    /\ mem = [p \in Procs |-> NoRun]
    /\ env = [p \in Procs |-> NoEnvelope]
    /\ cur = [p \in Procs |-> NoAttempt]
    /\ grant = [p \in Procs |-> NoAttempt]
    /\ then = [p \in Procs |-> "idle"]
    /\ again = [p \in Procs |-> FALSE]
    /\ live = {}
    /\ dispatched = {}
    /\ sinceStop = 0
    /\ troubles = 0

Goto(p, place) == pc' = [pc EXCEPT ![p] = place]

Load(p, e) ==
    /\ mem' = [mem EXCEPT ![p] = run]
    /\ env' = [env EXCEPT ![p] = e]
    /\ UNCHANGED <<cur, grant, then, again>>

\* The process ends; what it knew is gone.
Quit(p) ==
    /\ Goto(p, "idle")
    /\ mem' = [mem EXCEPT ![p] = NoRun]
    /\ env' = [env EXCEPT ![p] = NoEnvelope]
    /\ cur' = [cur EXCEPT ![p] = NoAttempt]
    /\ grant' = [grant EXCEPT ![p] = NoAttempt]
    /\ then' = [then EXCEPT ![p] = "idle"]
    /\ again' = [again EXCEPT ![p] = FALSE]

-----------------------------------------------------------------------------
(* commitTransition: run.json first, then the sidecar, then the divergence *)

\* The event is recorded, or its failure is stamped on the state by a second
\* write.
Commit(p, r, next) ==
    /\ run' = r
    /\ \/ /\ mem' = [mem EXCEPT ![p] = r]
          /\ Goto(p, next)
          /\ UNCHANGED <<then, troubles>>
       \/ /\ troubles < MaxTroubles
          /\ troubles' = troubles + 1
          /\ mem' = [mem EXCEPT ![p] = [r EXCEPT !.diverged = TRUE]]
          /\ then' = [then EXCEPT ![p] = next]
          /\ Goto(p, "diverge")

\* A move of the phase; `move` throws on one that is not in the table.
CommitMove(p, r, next) ==
    /\ r.phase \in TRANSITIONS[mem[p].phase]
    /\ Commit(p, r, next)

StampDivergence(p) ==
    /\ pc[p] = "diverge"
    /\ run' = mem[p]
    /\ Goto(p, then[p])
    /\ then' = [then EXCEPT ![p] = "idle"]
    /\ UNCHANGED <<envelope, stop, lease, mem, env, cur, grant, again, observed, troubles>>

Exit(p) ==
    /\ pc[p] = "exit"
    /\ Quit(p)
    /\ UNCHANGED <<disk, observed, troubles>>

-----------------------------------------------------------------------------
(* goal run: the lease around the loop *)

LoadRun(p) ==
    /\ pc[p] = "idle"
    /\ run.phase \in {"running", "final_verification"} /\ ~run.diverged
    /\ Load(p, envelope)
    /\ Goto(p, "lease")
    /\ UNCHANGED <<disk, observed, troubles>>

AcquireLease(p) ==
    /\ pc[p] = "lease"
    /\ lease \in {"free", "dead"}
    /\ lease' = p
    /\ Goto(p, "stamp")
    /\ UNCHANGED <<run, envelope, stop, local, observed, troubles>>

\* Fault: a busy lease is waited for without a deadline.
LeaseAwaited(p) ==
    /\ pc[p] = "lease"
    /\ lease \notin {"free", "dead"}
    /\ UNCHANGED vars

\* acquireLock's deadline passed.
LeaseBusy(p) ==
    /\ pc[p] = "lease"
    /\ lease \notin {"free", "dead"}
    /\ Quit(p)
    /\ UNCHANGED <<disk, observed, troubles>>

\* stampLease, writeRunState: of the state loaded BEFORE the lease was taken.
StampLease(p) ==
    /\ pc[p] = "stamp"
    /\ run' = mem[p]
    /\ Goto(p, IF mem[p].phase = "final_verification" THEN "verify" ELSE "gate")
    /\ UNCHANGED <<envelope, stop, lease, local, observed, troubles>>

\* finally: re-read, drop the lease record, write, release the lock.  What the
\* loop knew is gone.
FinallyRead(p) ==
    /\ pc[p] = "finally"
    /\ mem' = [mem EXCEPT ![p] = run]
    /\ env' = [env EXCEPT ![p] = NoEnvelope]
    /\ cur' = [cur EXCEPT ![p] = NoAttempt]
    /\ grant' = [grant EXCEPT ![p] = NoAttempt]
    /\ again' = [again EXCEPT ![p] = FALSE]
    /\ Goto(p, "clear")
    /\ UNCHANGED <<disk, then, observed, troubles>>

FinallyWrite(p) ==
    /\ pc[p] = "clear"
    /\ run' = mem[p]
    /\ Goto(p, "release")
    /\ UNCHANGED <<envelope, stop, lease, local, observed, troubles>>

ReleaseLease(p) ==
    /\ pc[p] = "release"
    /\ lease' = IF lease = p THEN "free" ELSE lease
    /\ Quit(p)
    /\ UNCHANGED <<run, envelope, stop, observed, troubles>>

LeaseStep(p) ==
    \/ LoadRun(p) \/ AcquireLease(p) \/ LeaseBusy(p) \/ StampLease(p)
    \/ FinallyRead(p) \/ FinallyWrite(p) \/ ReleaseLease(p)

-----------------------------------------------------------------------------
(* runNodes: the gate before every dispatch *)

\* The reads of one round, in the order their answers are acted upon.
GateDiverged(p) ==
    /\ mem[p].diverged
    /\ Goto(p, "finally")
    /\ UNCHANGED <<disk, local, troubles>>

GateStopped(p) ==
    /\ ~mem[p].diverged /\ stop
    /\ CommitMove(p, Move(mem[p], "stopped"), "finally")
    /\ UNCHANGED <<envelope, stop, lease, env, cur, grant, again>>

GateBlocked(p) ==
    /\ ~mem[p].diverged /\ ~stop
    /\ \/ ApprovalDrift(mem[p], envelope)
       \/ BreakerTripped(mem[p], env[p])
       \/ ~AllNodesComplete(mem[p]) /\ NoNodeReady(mem[p])
    /\ CommitMove(p, Move(mem[p], "needs_user"), "finally")
    /\ UNCHANGED <<envelope, stop, lease, env, cur, grant, again>>

\* The attempts or the wall clock of the whole run are spent: neither is counted
\* here, so it may be so in any round.
GateSpent(p) ==
    /\ ~mem[p].diverged /\ ~stop /\ ~ApprovalDrift(mem[p], envelope)
    /\ CommitMove(p, Move(mem[p], "needs_user"), "finally")
    /\ UNCHANGED <<envelope, stop, lease, env, cur, grant, again>>

\* Fault: the gate does not look for STOP before it lets a node through.
PassesUnstopped(p) ==
    /\ ~mem[p].diverged
    /\ ~ApprovalDrift(mem[p], envelope) /\ ~BreakerTripped(mem[p], env[p])

Passes(p) ==
    /\ ~mem[p].diverged /\ ~stop
    /\ ~ApprovalDrift(mem[p], envelope) /\ ~BreakerTripped(mem[p], env[p])

GateComplete(p) ==
    /\ Passes(p) /\ AllNodesComplete(mem[p])
    /\ IF again[p]
         THEN Goto(p, "finally") /\ UNCHANGED <<run, mem, then, troubles>>
         ELSE CommitMove(p, Move(mem[p], "final_verification"), "verify")
    /\ UNCHANGED <<envelope, stop, lease, env, cur, grant, again>>

\* The node, its attempt number and the grant it may spend.
GateNode(p) ==
    /\ Passes(p) /\ ~AllNodesComplete(mem[p]) /\ ~NoNodeReady(mem[p])
    /\ LET n == SelectReadyNode(mem[p]) IN
         /\ cur' = [cur EXCEPT ![p] = <<n, AttemptCount(mem[p], n) + 1>>]
         /\ grant' = [grant EXCEPT ![p] = PendingGrantFor(mem[p], n)]
    /\ Goto(p, "open")
    /\ UNCHANGED <<disk, mem, env, then, again, troubles>>

\* --max-nodes is reached.
GateLimit(p) ==
    /\ Passes(p) /\ ~AllNodesComplete(mem[p]) /\ ~NoNodeReady(mem[p])
    /\ cur[p] # NoAttempt
    /\ Goto(p, "finally")
    /\ UNCHANGED <<disk, local, troubles>>

Gate(p) ==
    /\ pc[p] = "gate"
    /\ \/ GateDiverged(p) \/ GateStopped(p) \/ GateBlocked(p) \/ GateSpent(p)
       \/ GateComplete(p) \/ GateNode(p) \/ GateLimit(p)
    /\ UNCHANGED <<observed>>

-----------------------------------------------------------------------------
(* runOneAttempt *)

\* The write owners or the executor refuse; or the attempts of the node are
\* spent.
RefuseAttempt(p) ==
    /\ pc[p] = "open"
    /\ CommitMove(p, Move(mem[p], "needs_user"), "finally")
    /\ UNCHANGED <<envelope, stop, lease, env, cur, grant, again, observed>>

\* Fault: the attempt is opened in memory and reaches the disk after the spawn.
OpenAttemptUnsaved(p) ==
    /\ pc[p] = "open"
    /\ AttemptCount(mem[p], cur[p][1]) < env[p].budgets.attempts
    /\ mem' = [mem EXCEPT ![p] = StartAttempt(mem[p], cur[p][1])]
    /\ Goto(p, IF grant[p] = NoAttempt THEN "spawn" ELSE "consume")
    /\ sinceStop' = IF stop THEN sinceStop + 1 ELSE 0
    /\ UNCHANGED <<disk, env, cur, grant, then, again, live, dispatched, troubles>>

\* Fault: one attempt more than the budget.
OpenAttemptOneMore(p) ==
    /\ pc[p] = "open"
    /\ AttemptCount(mem[p], cur[p][1]) <= env[p].budgets.attempts
    /\ Commit(p, StartAttempt(mem[p], cur[p][1]),
              IF grant[p] = NoAttempt THEN "spawn" ELSE "consume")
    /\ sinceStop' = IF stop THEN sinceStop + 1 ELSE 0
    /\ UNCHANGED <<envelope, stop, lease, env, cur, grant, again, live, dispatched>>

\* The attempt is on disk before anything is spawned.
OpenAttempt(p) ==
    /\ pc[p] = "open"
    /\ AttemptCount(mem[p], cur[p][1]) < env[p].budgets.attempts
    /\ Commit(p, StartAttempt(mem[p], cur[p][1]),
              IF grant[p] = NoAttempt THEN "spawn" ELSE "consume")
    /\ sinceStop' = IF stop THEN sinceStop + 1 ELSE 0
    /\ UNCHANGED <<envelope, stop, lease, env, cur, grant, again, live, dispatched>>

\* Fault: a grant is spent on disk only with the next write.
SpendGrantUnsaved(p) ==
    /\ pc[p] = "consume"
    /\ GrantSpendable(mem[p], grant[p])
    /\ mem' = [mem EXCEPT ![p] = ConsumeGrant(mem[p], grant[p], cur[p])]
    /\ Goto(p, "spawn")
    /\ UNCHANGED <<disk, env, cur, grant, then, again, observed, troubles>>

\* A grant that is already spent throws, out of the loop.
SpendGrant(p) ==
    /\ pc[p] = "consume"
    /\ IF GrantSpendable(mem[p], grant[p])
         THEN Commit(p, ConsumeGrant(mem[p], grant[p], cur[p]), "spawn")
         ELSE Goto(p, "finally") /\ UNCHANGED <<run, mem, then, troubles>>
    /\ UNCHANGED <<envelope, stop, lease, env, cur, grant, again, observed>>

Session(p) ==
    [at |-> cur[p], env |-> env[p], grant |-> grant[p],
     no |-> Cardinality({s \in dispatched : s.at = cur[p]})]

Spawn(p) ==
    /\ pc[p] = "spawn"
    /\ live' = live \cup {Session(p)}
    /\ dispatched' = dispatched \cup {Session(p)}
    /\ Goto(p, "record")
    /\ UNCHANGED <<disk, local, sinceStop, troubles>>

\* The binary is not found or the command is too long: the error leaves the
\* loop, and the attempt open.
SpawnRefused(p) ==
    /\ pc[p] = "spawn"
    /\ troubles < MaxTroubles
    /\ troubles' = troubles + 1
    /\ Goto(p, "finally")
    /\ UNCHANGED <<disk, local, observed>>

\* onSpawn: what is known of the child reaches run.json.
Record(p, pid) ==
    /\ run' = RecordAttemptProcess(mem[p], cur[p], pid)
    /\ mem' = [mem EXCEPT ![p] = RecordAttemptProcess(mem[p], cur[p], pid)]

\* The system starts no child: there is no pid to record.
SpawnFails(p) ==
    /\ pc[p] = "spawn"
    /\ troubles < MaxTroubles
    /\ troubles' = troubles + 1
    /\ Record(p, FALSE)
    /\ Goto(p, "session")
    /\ UNCHANGED <<envelope, stop, lease, env, cur, grant, then, again, observed>>

RecordSpawn(p) ==
    /\ pc[p] = "record"
    /\ Record(p, TRUE)
    /\ Goto(p, "session")
    /\ UNCHANGED <<envelope, stop, lease, env, cur, grant, then, again, observed, troubles>>

\* The engine awaits its own child.
SessionEnded(p) == pc[p] = "session" /\ ~\E s \in live : s.at = cur[p]

\* There was a child to hear from.
Started(p) == AttemptOf(mem[p], cur[p]).pid

\* Unreviewable, out of its roots, reviewed and rejected, or accepted.
Settle(p) ==
    /\ SessionEnded(p)
    /\ \E result \in IF Started(p) THEN {"passed", "failed", "errored"} ELSE {"errored"} :
          Commit(p, FinishAttempt(mem[p], cur[p], result), "gate")
    /\ UNCHANGED <<envelope, stop, lease, env, cur, grant, again, observed>>

\* The session asks for an action, or no executor can review it.
SettleHeld(p) ==
    /\ SessionEnded(p) /\ Started(p)
    /\ \E next \in {"pause", "unreviewable"} :
          Commit(p, FinishAttempt(mem[p], cur[p], "errored"), next)
    /\ UNCHANGED <<envelope, stop, lease, env, cur, grant, again, observed>>

Pause(p) ==
    /\ \/ /\ pc[p] = "pause"
          /\ CommitMove(p, ToAwaitingActionApproval(mem[p], cur[p]), "finally")
       \/ /\ pc[p] = "unreviewable"
          /\ CommitMove(p, Move(mem[p], "needs_user"), "finally")
    /\ UNCHANGED <<envelope, stop, lease, env, cur, grant, again, observed>>

AttemptStep(p) ==
    \/ RefuseAttempt(p) \/ OpenAttempt(p) \/ SpendGrant(p) \/ Spawn(p)
    \/ SpawnRefused(p) \/ SpawnFails(p) \/ RecordSpawn(p) \/ Settle(p) \/ SettleHeld(p) \/ Pause(p)

-----------------------------------------------------------------------------
(* runFinalVerification *)

\* No seat, no usable verdict, no owner of what was rejected, a failed test or
\* a failed exit check.
VerifyBlocked(p) ==
    CommitMove(p, Move(mem[p], "needs_user"), "finally") /\ UNCHANGED <<cur, again>>

RejectedScopeChange(p) ==
    CommitMove(p, ToPlanning(mem[p]), "finally") /\ UNCHANGED <<cur, again>>

RejectedInScope(p) ==
    /\ \E S \in SUBSET Nodes :
          S # {} /\ CommitMove(p, ToRunning(ReopenNodes(mem[p], S)), "gate")
    /\ again' = [again EXCEPT ![p] = TRUE]
    /\ cur' = [cur EXCEPT ![p] = NoAttempt]

Approved(p) ==
    /\ ExitCheck(mem[p])
    /\ CommitMove(p, Move(mem[p], "done"), "finally")
    /\ UNCHANGED <<cur, again>>

Verify(p) ==
    /\ pc[p] = "verify"
    /\ VerifyBlocked(p) \/ RejectedScopeChange(p) \/ RejectedInScope(p) \/ Approved(p)
    /\ UNCHANGED <<envelope, stop, lease, env, grant, observed>>

-----------------------------------------------------------------------------
(* goal resume: reconcile, under no lease of its own *)

LoadResume(p) ==
    /\ pc[p] = "idle"
    /\ Load(p, NoEnvelope)
    /\ Goto(p, "inspect")
    /\ UNCHANGED <<disk, observed, troubles>>

\* inspectRunLease: a live owner is left alone, a malformed lock too.
InspectLease(p) ==
    /\ pc[p] = "inspect"
    /\ IF lease \notin {"free", "dead"} THEN Quit(p) ELSE Goto(p, "reconcile") /\ UNCHANGED local
    /\ UNCHANGED <<disk, observed, troubles>>

Unsettled(p) == UnsettledAttempts(mem[p])

\* Fault: the recorded pid of a running attempt is not probed.
IsLiveUnspawned(p, a) == ~AttemptOf(mem[p], a).pid /\ \E s \in live : s.at = a

\* classifyUnsettled: a recorded pid that is running.
IsLive(p, a) == AttemptOf(mem[p], a).pid /\ \E s \in live : s.at = a

\* --abandon-attempt writes off an attempt classified dead.
Abandon(p) ==
    /\ pc[p] = "reconcile"
    /\ \A a \in Unsettled(p) : ~IsLive(p, a)
    /\ \E a \in Unsettled(p) : Commit(p, FinishAttempt(mem[p], a, "errored"), "abandoned")
    /\ UNCHANGED <<envelope, stop, lease, env, cur, grant, again, observed>>

Reconciling(p) == pc[p] \in {"reconcile", "abandoned"} /\ Unsettled(p) = {}

\* The reconciliation event is recorded, and the divergence cleared; if it is
\* not, the run stays halted.
ClearDivergence(p) ==
    /\ Reconciling(p) /\ mem[p].diverged
    /\ mem' = [mem EXCEPT ![p].diverged = FALSE]
    /\ run' = [mem[p] EXCEPT !.diverged = FALSE]
    /\ UNCHANGED <<pc, envelope, stop, lease, env, cur, grant, then, again, observed, troubles>>

\* The phase decides; without an approved envelope the plan must be re-made.
Continue(p) ==
    /\ Reconciling(p) /\ ~mem[p].diverged /\ ~stop
    /\ \/ /\ mem[p].phase = "stopped"
          /\ CommitMove(p, ToRunning(mem[p]), "exit")
       \/ /\ mem[p].phase = "needs_user"
          /\ CommitMove(p, IF mem[p].approved = NoEnvelope
                             THEN ToPlanning(mem[p]) ELSE ToRunning(mem[p]), "exit")
    /\ UNCHANGED <<envelope, stop, lease, env, cur, grant, again, observed>>

\* Every other answer changes nothing.
ResumeRefuses(p) ==
    /\ pc[p] \in {"reconcile", "abandoned"}
    /\ \/ Unsettled(p) # {}
       \/ mem[p].diverged /\ troubles < MaxTroubles
       \/ ~mem[p].diverged /\ (stop \/ mem[p].phase \notin {"stopped", "needs_user"})
    /\ troubles' = IF Unsettled(p) = {} /\ mem[p].diverged THEN troubles + 1 ELSE troubles
    /\ Quit(p)
    /\ UNCHANGED <<disk, observed>>

ResumeStep(p) ==
    \/ LoadResume(p) \/ InspectLease(p) \/ Abandon(p) \/ ClearDivergence(p)
    \/ Continue(p) \/ ResumeRefuses(p)

-----------------------------------------------------------------------------
(* goal approve, its amendment, goal approve-action: no lease either *)

\* Fault: the envelope that is approved was never read.
LoadApproveUnread(p) ==
    /\ pc[p] = "idle"
    /\ run.phase = "awaiting_approval"
    /\ Load(p, NoEnvelope)
    /\ Goto(p, "approve")
    /\ UNCHANGED <<disk, observed, troubles>>

LoadApprove(p) ==
    /\ pc[p] = "idle"
    /\ run.phase = "awaiting_approval"
    /\ Load(p, envelope)
    /\ Goto(p, "approve")
    /\ UNCHANGED <<disk, observed, troubles>>

Approve(p) ==
    /\ pc[p] = "approve"
    /\ CommitMove(p, ApproveEnvelope(mem[p], env[p]), "exit")
    /\ UNCHANGED <<envelope, stop, lease, env, cur, grant, again, observed>>

\* The proposal: the envelope on disk, with other budgets.
LoadAmend(p) ==
    /\ pc[p] = "idle"
    /\ run.phase \in {"needs_user", "stopped"}
    /\ Len(run.approvals) < MaxApprovals
    /\ \E e \in Envelopes :
          e # envelope /\ e.scope = envelope.scope /\ Load(p, e)
    /\ Goto(p, "amend")
    /\ UNCHANGED <<disk, observed, troubles>>

AmendEnvelope(p) ==
    /\ pc[p] = "amend"
    /\ envelope' = env[p]
    /\ Goto(p, "amended")
    /\ UNCHANGED <<run, stop, lease, local, observed, troubles>>

Amend(p) ==
    /\ pc[p] = "amended"
    /\ CommitMove(p, ApproveEnvelope(mem[p], env[p]), "exit")
    /\ UNCHANGED <<envelope, stop, lease, env, cur, grant, again, observed>>

LoadGrant(p) ==
    /\ pc[p] = "idle"
    /\ run.phase = "awaiting_action_approval"
    /\ Load(p, NoEnvelope)
    /\ Goto(p, "grant")
    /\ UNCHANGED <<disk, observed, troubles>>

GrantAction(p) ==
    /\ pc[p] = "grant"
    /\ LET r == [mem[p] EXCEPT !.grants = Append(@, Grant(mem[p].request))] IN
         run' = r /\ mem' = [mem EXCEPT ![p] = r]
    /\ Goto(p, "granted")
    /\ UNCHANGED <<envelope, stop, lease, env, cur, grant, then, again, observed, troubles>>

GrantResumes(p) ==
    /\ pc[p] = "granted"
    /\ CommitMove(p, ToRunning(mem[p]), "exit")
    /\ UNCHANGED <<envelope, stop, lease, env, cur, grant, again, observed>>

ApproveStep(p) ==
    \/ LoadApprove(p) \/ Approve(p) \/ LoadAmend(p) \/ AmendEnvelope(p) \/ Amend(p)
    \/ LoadGrant(p) \/ GrantAction(p) \/ GrantResumes(p)

-----------------------------------------------------------------------------
(* The environment *)

\* goal stop, from any session, at any moment.
Stop ==
    /\ ~stop
    /\ troubles < MaxTroubles
    /\ troubles' = troubles + 1
    /\ stop' = TRUE
    /\ UNCHANGED <<run, envelope, lease, pc, local, observed>>

RemoveStop ==
    /\ stop
    /\ stop' = FALSE
    /\ sinceStop' = 0
    /\ UNCHANGED <<run, envelope, lease, pc, local, live, dispatched, troubles>>

ChildEnds ==
    /\ \E s \in live : live' = live \ {s}
    /\ UNCHANGED <<disk, pc, local, dispatched, sinceStop, troubles>>

\* "confirm the owner is really gone, then remove the run.lock file by hand".
RemoveLock ==
    /\ lease = "torn"
    /\ lease' = "free"
    /\ UNCHANGED <<run, envelope, stop, pc, local, observed, troubles>>

\* Somebody edits the approval envelope in the run folder.
EditEnvelope ==
    /\ envelope.scope = "planned"
    /\ troubles < MaxTroubles
    /\ troubles' = troubles + 1
    /\ envelope' = [envelope EXCEPT !.scope = "edited"]
    /\ UNCHANGED <<run, stop, lease, pc, local, observed>>

Crash(p) ==
    /\ pc[p] # "idle"
    /\ troubles < MaxTroubles
    /\ troubles' = troubles + 1
    /\ lease' \in IF lease = p THEN {"dead"}
                  ELSE IF pc[p] = "lease" /\ lease \in {"free", "dead"}
                         THEN {lease, "torn"} ELSE {lease}
    /\ Quit(p)
    /\ UNCHANGED <<run, envelope, stop, observed>>

Environment ==
    \/ Stop \/ RemoveStop \/ ChildEnds \/ RemoveLock \/ EditEnvelope
    \/ \E p \in Procs : Crash(p)

\* What a started process does by itself.
Verb(p) ==
    \/ StampDivergence(p) \/ Exit(p) \/ LeaseStep(p) \/ Gate(p) \/ AttemptStep(p)
    \/ Verify(p) \/ ResumeStep(p) \/ ApproveStep(p)

Next == Environment \/ \E p \in Procs : Verb(p)

Spec == Init /\ [][Next]_vars

\* A process that runs keeps running (each step is synchronous code or an await
\* that settles), and a child ends: it has a timeout, or finishes by itself.
FairSpec == Spec /\ WF_vars(ChildEnds) /\ \A p \in Procs : WF_vars(Verb(p))

-----------------------------------------------------------------------------
GoalTypeOK ==
    /\ run \in Runs
    /\ envelope \in Envelopes
    /\ stop \in BOOLEAN
    /\ lease \in Procs \cup {"free", "dead", "torn"}
    /\ pc \in [Procs -> Places]
    /\ mem \in [Procs -> Runs]
    /\ env \in [Procs -> Envelopes \cup {NoEnvelope}]
    /\ cur \in [Procs -> AttemptIds \cup {NoAttempt}]
    /\ grant \in [Procs -> AttemptIds \cup {NoAttempt}]
    /\ then \in [Procs -> Places]
    /\ again \in [Procs -> BOOLEAN]
    /\ live \subseteq dispatched
    /\ dispatched \subseteq Sessions
    /\ sinceStop \in Nat
    /\ troubles \in 0..MaxTroubles

\* An attempt id is spawned at most once, across crashes, restarts, resumes and
\* write-offs: "a crash between here and the spawn leaves a visible attempt",
\* never "one that gets silently duplicated" (startAttempt).
SpawnedOnce ==
    \A d, e \in dispatched : d.at = e.at => d = e

\* While a session whose pid is on disk is running, its attempt stays open and
\* its node is not offered to another: nobody settles, abandons or re-dispatches
\* it (classifyUnsettled's `live`, and the engine that awaits its own child).
LiveChildKept ==
    \A s \in live :
        s.at[2] <= AttemptCount(run, s.at[1]) /\ AttemptOf(run, s.at).pid
            => s.at \in UnsettledAttempts(run) /\ run.nodes[s.at[1]].state = "running"

\* Every session ran under budgets and a scope the operator had approved, though
\* the envelope is loaded once and the file may be edited at any moment.
ApprovedDispatch ==
    \A s \in dispatched : \E i \in DOMAIN run.approvals : run.approvals[i] = s.env

\* A node never has more attempts than some approval allowed it: reopening and
\* writing off buy none (reopenNode, startAttempt).
AttemptBudget ==
    \A n \in Nodes : AttemptCount(run, n) > 0 =>
        \E i \in DOMAIN run.approvals : AttemptCount(run, n) <= run.approvals[i].budgets.attempts

\* One grant, one session: a request's grant is carried by at most one session,
\* of the node that asked, and its consumption names that session's attempt
\* (consumeGrant: "once" means once, through crashes and re-dispatches).
GrantSpentOnce ==
    \A s \in dispatched : s.grant # NoAttempt =>
        /\ s.grant[1] = s.at[1]
        /\ \E i \in DOMAIN run.grants : run.grants[i] = [request |-> s.grant, spent |-> s.at]
        /\ \A t \in dispatched : t.grant = s.grant => t = s

\* A dependency has passed before its dependent is dispatched (selectReadyNode).
DependencyPassed ==
    \A s \in dispatched : \A d \in DependsOn[s.at[1]] :
        \E i \in 1..AttemptCount(run, d) : run.nodes[d].attempts[i].result = "passed"

\* done: the last attempt of every node passed, an approval is bound, and no
\* child the engine knows the pid of is still changing what was verified.
DoneEarned ==
    run.phase = "done" =>
        /\ \A n \in Nodes : LET k == AttemptCount(run, n) IN
              k > 0 /\ run.nodes[n].attempts[k].result = "passed"
        /\ run.approved # NoEnvelope
        /\ \A s \in live : ~AttemptOf(run, s.at).pid

\* After STOP appears at most one more attempt is opened: the one past its gate.
StopHonoured == sinceStop <= 1

\* What is settled stays as it was: no later write of run.json loses an attempt,
\* changes its result, forgets an approval or a grant, or leaves `done`.
HistoryKept ==
    [][ /\ \A n \in Nodes : \A i \in DOMAIN run.nodes[n].attempts :
              /\ i \in DOMAIN run'.nodes[n].attempts
              /\ AttemptOf(run, <<n, i>>).result \notin OpenResults =>
                    AttemptOf(run', <<n, i>>) = AttemptOf(run, <<n, i>>)
        /\ \A i \in DOMAIN run.approvals : run'.approvals[i] = run.approvals[i]
        /\ \A i \in DOMAIN run.grants : run'.grants[i].request = run.grants[i].request
        /\ run.phase = "done" => run'.phase = "done" ]_run

\* Every verb comes back to its operator: no gate, lease or await holds it.
VerbsEnd == \A p \in Procs : pc[p] # "idle" ~> pc[p] = "idle"

\* "two implementation sessions editing the same files because the first one's
\* fate was unknown" (resume.mjs): a node has at most one running session.
OneSessionPerNode ==
    \A s, t \in live : s.at[1] = t.at[1] => s = t

=============================================================================
