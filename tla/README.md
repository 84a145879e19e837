# A verification project for the Sidekicks harness

The Sidekicks harness is a command-line framework for AI coding sessions. Nearly all of it is
one-shot file handling, but some parts are concurrent systems made of short-lived processes that
meet only in the file system: the **run-event sidecar** and its lock; the **goal engine** that drives
an approved plan through detached child sessions, and the **planning contest** before it; the **agent
lane**, a mailbox of message files with a delegate loop that wakes headless sessions; the **routine
scheduler**, a daemon that owns the repository by a pid file; and the **conversation threads** that a
chat relay and the woken sessions share. Their promises ("never re-dispatched", "recorded once",
"belongs to a dead session", "exactly one loop") rest on the order in which processes touch the same
files, and on what is left behind when one of them ends between two of its steps. Those parts are
modelled here. TLC checks them on small instances; TLAPS proves the results about the sidecar, its
lock, the goal run, the planning contest, the lane's mailbox and the scheduler (its due-math, its
ownership and its markers) for every value of the constants.

Paths below are relative to `src/lib/`.

## 1. Inventory

### 1.1 Run-event sidecar (`run-events/store.mjs`, `schema.mjs`)

- **State**: `events.v1.jsonl` (complete lines and perhaps an unterminated tail), `events.v1.lock`
  (absent, created and empty, or with an ownership record), `events.v1.recovery/`.
- **Operations**: `appendEvent` (acquire, scan, archive and cut a tail, scan again, refuse a corrupt
  file, answer `duplicate` or `conflict` for a known id, number, write, release); `acquireLock`,
  `classifyLock`, `archiveLock`, `releaseLock`, the operator's `unlockEvents`; the read-only
  `replayEvents`, `checkEvents`, `listRecovery`.
- **Users**: the artifact event verbs, and the goal store for every transition; the lock alone is also
  the goal engine's run lease.
- **Hard**: a lock is a path and not a handle, so what was classified and what is renamed or unlinked
  may be two different files; a process may die inside a write; a write may fail half way; hosts cannot
  judge each other's pids.
- **Correct when**: at most one live process is in the critical section; the file has no torn, repeated
  or misnumbered complete line; an acknowledged event stays; every call ends; a dead owner's lock does
  not need a human on its own host.

### 1.2 Goal engine (`goal-lifecycle/`)

- **State**: `run.json` (phase, nodes with their attempts, approvals, action requests and grants,
  divergence, lease record), `approval-envelope.json`, the `STOP` file, `run.lock`, the sidecar, and
  the detached child sessions themselves, which no file describes completely.
- **Operations**: `goal plan` (planner fan-out, contest, critique, offer), `goal approve` and its budget
  amendment, `goal run` (gates, dispatch, settlement, final verification), `goal approve-action`,
  `goal resume` (lease inspection, classification of open attempts, write-off, reconciliation,
  continuation), `goal stop`.
- **Interactions**: each verb is a process that loads `run.json`, works on its copy and writes it back;
  only `goal run` takes the lease; every transition is a write of `run.json` followed by an event
  append, and a failed append is stamped on the run as a divergence.
- **Hard**: crashes between any two writes, children that outlive their engine, an envelope edited
  while it is used, STOP at any moment, write-offs and reopened nodes, events that collide.
- **Correct when**: an attempt id is spawned at most once; a live child's attempt is not settled by
  somebody else; nothing runs outside what was approved; budgets and grants are spent once; `done` is
  earned; a divergence halts; history is not rewritten; every verb ends.

### 1.3 Agent lane (`agent-lifecycle/`)

- **State**: `inbox/{new,claimed,done}` (one file per message, with a requeue counter and a result),
  `runtime/presence.json`, `runtime/control.json`, the delegate's loop state (failure count, quota
  pause), and the sessions.
- **Operations**: `agent send`, `claim`, `complete` (with its auto-reply), `heartbeat`, `wait`, `stop`;
  the delegate loop: yield to foreign presence, own the presence, control gate, requeue of orphaned
  claims with fail-out, quota pause, pending mail and settling, wake, judgement of the wake.
- **Interactions**: the delegate and its wakes, interactive sessions, senders and the operator only
  meet in these files; a wake is a child process that the delegate awaits and kills on a timer.
- **Hard**: a claim is a rename followed by a rewrite; sessions die with messages claimed; a poison
  message kills every session that reads it; presence expires; supervisors restart the loop.
- **Correct when**: a message is in one folder; what is taken back belongs to nobody; retries are
  bounded and counted right; the sender is answered once; a stop ends loop and wakes; an interrupted
  assignment returns by itself.

### 1.4 Planning contest (`goal-lifecycle/plan.mjs`, `contest.mjs`, `jobs.mjs`)

- **State**: the job ledger in `run.json` (per job: substate, pid, host, retries, folded), one artifact
  file per job that answered, `plan.json`, the planning phase, and the sessions.
- **Operations**: declare the contestants, dispatch them in parallel, fold what each answers, declare and
  run judges, rank, run the synthesis, offer the winner for approval, critique it, correct it; `goal
  resume` classifies the jobs of a dead engine and takes the contest up again.
- **Hard**: sessions settle in any order and each settlement is several writes; a crash at any of them;
  a resume on another host, where a pid says nothing; a retry of a session that still runs; a file that
  vanished.
- **Correct when**: a job has one session at a time and a bounded number of them; what a session
  produced is folded and stays; the plan offered is the one its verdicts rank first, or the grafted one
  that was built on it; a live engine ends.

### 1.5 Routine scheduler (`agent-lifecycle/scheduler.mjs`, `_routines.mjs`, `_cron.mjs`, `_bridge.mjs`)

- **State**: the routine table and the state entries (`last`, `inFlight`, `retired`), the pid file, the
  stop gate, the start hook of the session start, and the calendar.
- **Operations**: `scheduler serve` (claim the pid file, loop, clean up), the tick (judge each routine,
  mark the intent, send, mark the outcome), `agent routine add | remove | enable | disable | run`,
  `scheduler stop`, and `ensureCommsProcesses`, which starts the daemons from a hook.
- **Hard**: a crash between intent, send and mark; two starts and a stale pid file; a switch or a removal
  while a tick runs; a pause that must consume what fell due; instants at the edges of days and weeks.
- **Correct when**: an occurrence has one outcome; one loop is up; what is due is settled while a loop
  runs; a stop ends it; last and next occurrence enclose the clock.

### 1.6 Conversation threads (`agent-lifecycle/_threads.mjs`)

- **State**: `turns.jsonl` and one archived generation, `thread.json`, `digest.md`, the rotation lock.
- **Operations**: append a turn (once per message), roll the file at its cap, note a message id, write a
  digest, close, reopen, rebuild.
- **Hard**: `thread.json` is read and replaced whole by the relay and by the woken session.
- **Correct when**: no writer undoes another, so that turns keep their numbers. This is not so (finding 6).

### 1.7 The rest

| Component | State and operations | Status |
|---|---|---|
| Goal review, evidence, guard, reports | git state and prompt text | results of an attempt, chosen nondeterministically in `GoalRun` |
| Office, telegram relay, LAN bridge | update offsets, network I/O, presentation | senders for the lane, the appender of a thread; offsets planned |
| Session rotation, pacemaker's decision | resume or refresh of the delegate's session | planned; the pacemaker is one more sender |
| Artifact verbs, journal, memory | front ends of the sidecar; document transformation | not modelled |
| CLI executors | building and starting a command line | a child that starts or not, whose pid is reported in the same step, and that ends |
| Skills, packages, catalogs, scopes, projects, services, worktrees, branches | one-shot generation and git wrappers in one process | not modelled |
| Configuration, settings, state stores, `fs-safety` | write-and-rename of one file | one atomic step in every module |
| Framework update, checks, hooks, installers, argument parsing | deployment scripts | not modelled |

Most of the repository's lines are in the last four rows: sequential code whose correctness is a matter
of text and of git, and which unit tests reach.

The hazards of the modelled parts, each with its line and the property that watches it, are listed in
`PROJECT.json`.

## 2. Modules

| Module | Models | Builds on |
|---|---|---|
| `RunLock` | the exclusive-create lock, one system call per step | |
| `RunLockProofs` | type correctness, mutual exclusion | `RunLock`, TLAPS |
| `EventLog` | abstract: an append-only log, ids once, sequence = position | |
| `RunEvents` | `appendEvent` under that lock, one file access per step; refines `EventLog` | `RunLock`, `INSTANCE EventLog` |
| `RunEventsProofs` | type correctness, soundness, durability, the refinement | `RunEvents`, `RunLockProofs` |
| `GoalPhases` | the phase transition table of `state-machine.mjs` | |
| `GoalState` | the run record and the named transitions of `state-machine.mjs` and `schema.mjs`, as operators from record to record | `GoalPhases` |
| `GoalRun` | every verb of an approved run, one access to shared state per step | `GoalState` |
| `GoalStateProofs` | what each operator of `GoalState` does to a record | `GoalState`, TLAPS |
| `GoalRunTyping` | type correctness of the goal run | `GoalRun`, `GoalStateProofs` |
| `GoalRunProofs` | its safety and its history, and that STOP is honoured | `GoalRunTyping` |
| `GoalEvents` | the event ids and details a run's transitions append | `GoalPhases` |
| `AgentLane` | the mailbox, the delegate loop, the wakes, senders and operator | |
| `AgentLaneShared` | the same with interactive sessions and a delegate killed alone | `AgentLane` |
| `AgentLaneProofs` | types, folders, the requeue counter and the replies of the lane | `AgentLane`, TLAPS |
| `PlanContest` | the planning contest: ledger, artifacts, sessions, offer, critique, resume | |
| `PlanContestProofs` | types, settled jobs, sessions and the offered plan of the contest | `PlanContest`, TLAPS |
| `Schedule` | the due-math: last and next occurrence of every kind of schedule, on a scaled calendar | |
| `DaemonPid` | the pid file: claim, stale file, start hook, deaths | |
| `Scheduler` | the loop, its tick and the routine verbs, under that ownership | `Schedule`, `DaemonPid` |
| `SchedulerProofs` | the due-math, one loop per repository, types, one outcome per occurrence | `Scheduler`, TLAPS |
| `Transcript` | one conversation thread, one access to a file per step | |
| `MCRunLock`, `MCRunEvents`, `MCGoalRun`, `MCScheduler` | the finite instances | |

Definitions named `...Fault`, `...Blind`, `...Early` and the like, with a comment that begins with "Fault:",
are broken variants of the action that follows them. No next-state relation uses them; they are what
the properties are shown to detect.

### 2.1 How they correspond to the code

**RunLock.** `lock` is the file at the path, named by the acquisition `<<p, n>>` that created it (the
code's nonce). `Create` is `openSync(.., 'wx')`, `Stamp` the write of the ownership record, `ReadOwner`
and `JudgeOwner` the two halves of `classifyLock` (read, then `kill(pid, 0)`), `ArchiveLock` the rename
of whatever is there by then with `UnlinkFallback` its copy-and-unlink branch, `Retry`/`GiveUp` the
2 s deadline, `CheckOwner`/`DropLock` the two halves of `releaseLock`. `ConfirmOwnerDead` and
`UnlockEvents` are the operator following the procedure of the refusal message. `Die` is an exit or a
crash at any step.

**RunEvents.** `lines` and `tail` are the file; `stage` refines the critical section: `Scan`,
`SaveTail`, `Truncate`, `Rescan`, `Write`, with `WriteFails` (an exception part way), and `DieWriting`
(a death inside the write). A line written after an unterminated tail parses as nothing (`Torn`), and
truncation beyond the end pads, as in the code.

**GoalState / GoalRun.** Every process has `mem`, the copy of `run.json` it loaded. `Commit` is
`commitTransition`: the write of `run.json`, then the append, and on a failed append a second write
that stamps the divergence (`StampDivergence`). `LoadRun`, `AcquireLease`, `StampLease` are the three
steps at the head of `goal run` in the order of `run.mjs`; `Gate...` are the reads at the top of
`runNodes`; `OpenAttempt`, `SpendGrant`, `Spawn`, `RecordSpawn`, `SessionEnded`, `Settle`/`SettleHeld`
are `runOneAttempt`; `Verify` is `final-verify.mjs`; `FinallyRead`, `FinallyWrite`, `ReleaseLease` the
`finally` block. `LoadResume` to `Continue` are `resume.mjs` with `classifyUnsettled`; `Approve`,
`Amend...` and `GrantAction`/`GrantResumes` the operator's verbs. The environment raises and removes
STOP, ends children, crashes a process, removes a lock by hand as the error message says, and edits the
envelope file.

**GoalEvents.** One action per transition that appends an event, with the id `appendGoalEvent` gives it
and the detail as the intent that is compared. `Reconcile` is `resume.mjs:217-245`.

**AgentLane.** `inbox[folder][m]` is the set of files of that message in that folder: none or one. One
action per rename or rewrite; `pc` is the place in one tick of the loop, in the order of
`delegate.mjs`; `at` is the place of each session in its verb. What a session does between verbs is its
own choice (`Abandon`, `End` with any outcome). `Send` stands for `agent send`, a routine or the
pacemaker: all write one new file with an id of its own.

**PlanContest.** `ledger` is the job table in `run.json`, `files` the artifacts, `live` the sessions with
their host. A stage (contestants, judges, synthesis) is declared, held until its sessions have settled,
and left; `Dispatch`, `Open`, `Answer`, `Keep...`, `Settle` are one job's `markDispatched`, spawn and
`onSpawn`, the end of the child, the write of its artifact and `markTerminal`, and the jobs of a stage
interleave. `Enter` is the disposition of `runContest` at each stage (skip, fold, retry a missing
artifact). `Resume` is `resume.mjs` with `classifyPlanningJobs`, `Return` its early returns; `Crash` ends
the engine and leaves its children, `Exit` ends a child, `Lose` removes a file. `Offer`, `Approve`,
`Critique`, `Correct` and `Block` are `finishPlanning` and `critiqueLoop`.

**Scheduler.** `at[p]` is the place of a process in `acquirePidFile`, one file access per step
(`BeginClaim`, `ReadOwner`, `ClearStale`, `CreateFile`, `WriteFile`), and `hook` the place of the start
hook in `ensureCommsProcesses`. `pc[p]` is the place in `serve` and `tickOnce`: `LookAtGate`,
`StartTick`, per due routine `PassOver` or `Intend`, `Send`, `Fired` / `Failed`, and `EndTick`.
`table` is the routine file, `marks` the state entries. `Pass` is the clock. `ledger` and `added` are
ghosts: the outcomes of each occurrence, and how often an id has been added.

**Transcript.** `rec` is `thread.json` and `mem[p]` the copy a process has read; every `Load...` is a
read, every `Save...` the write of that copy with the fields the writer changes. `SizeGate` to `Unlock`
are `rollTurnsIfNeeded` under `withRotationLock`.

## 3. Runs

Deadlock checking is off in every run because every one of these systems really may stop: all
calls made, the plan done, the mailbox empty and the loop stopped.

| Run | Question | Result |
|---|---|---|
| `RunEvents` | Three processes on two hosts append two ids with two bodies, with deaths and failed writes at any step and an operator unlocking: is the file always a sound log, does it keep what it acknowledged, does it implement `EventLog`? | holds |
| `RunEventsShared` | The same on one host, where a dead owner's lock is reclaimed automatically | violated: finding 1 |
| `RunLockLive` | One process that may die anywhere and its successor, no operator: safe reclaim, every call ends, a dead owner's lock goes by itself | holds |
| `GoalRun` | One verb at a time over a chain of two nodes with crashes, failed appends, refused spawns, STOP, edited envelopes, amendments, grants | eleven properties hold |
| `GoalRunOverlap` | Two processes: does an attempt get spawned once? | violated: finding 2 |
| `GoalRunOrphan` | One crash: does a node have one session at a time? | violated: finding 3 |
| `GoalReconcile` | No fault of any kind: does reconciliation clear a divergence? | violated: finding 4 |
| `AgentLane` | One delegate, its wakes, two messages, deaths, a usage limit, pause, stop, restart, a power cut | eight properties hold |
| `AgentLaneShared` | An interactive session comes online during a wake: is the presence it holds respected? | violated: finding 5 |
| `PlanContest` | Two contestants and their judges through dead engines, bad and throwing sessions, resumes on two hosts, a vanished artifact: is a session doubled, a result lost, an untraceable plan offered? | holds |
| `Scheduler` | Two daemons in turn, crashes, refused sends, pauses, stops, switches, a routine id used twice: one outcome each, one loop, all due settled? | holds |
| `Transcript` | A relay that rolls a thread and a wake that writes a digest: does the counter cover the archive? | violated: finding 6 |

### 3.1 Bounds, and why they are enough

- `RunEvents`: `MaxAcquire = 1`, one append per process. Three processes give every pair of an owner and
  two competitors; two ids and two bodies give a duplicate, a conflict and a new event; a process that
  appends twice is, for the file, two processes. The mortal process has host A for itself, the reason
  why is finding 1. Ids, bodies and the two immortal processes are symmetric.
- `RunLockLive`: `MaxAcquire = 3`, so that a process meets its own past acquisitions as well as its
  rival's. No symmetry, since liveness is checked.
- `GoalRun`: the chain of two nodes is the smallest plan with a dependency and a reopening; budgets of
  one or two attempts put the per-node limit and the two-failure breaker within reach; two approvals
  give one amendment; `MaxTroubles = 2` bounds crashes, failed appends, refused spawns, edits and STOPs
  together, so that every pair of them is met in every order. The two-process instance adds only the
  second process.
- `GoalReconcile`: `MaxSequence = 14` transitions, more than the two pauses and two reconciliations need.
- `AgentLane`: two messages let the requeue hold a list while a claim or a completion runs, and one
  message be failed out beside a healthy one; `RequeueLimit = 1` puts the limit at the second claim;
  `MaxFailures = 2` gives one tolerated and one fatal failure; one usage limit, one power cut. One wake
  id: wakes of one delegate never overlap (proved for any number, `LaneAlone`), so that a second id
  would only rename the first.
- `AgentLaneShared`: one message, one wake and one interactive session; the counterexample needs no
  accident at all, so all accident bounds are zero.
- `PlanContest`: two contestants are the smallest contest (and one of them may fail, which ends it or
  leaves one survivor), two hosts, scores of 1 and 2, so that candidates tie or win either way;
  `MaxMishaps = 2` lets a second engine die while it repairs what the first left. A session is opened
  and recorded in one step (`GapCrash = FALSE`, see 5). 480 000 states.
- `Scheduler`: two process ids, so that a pid file outlives its owner and is taken over; one routine id,
  added twice (a removed and reused id is the interesting case; two routines share nothing but the
  tick); two clock steps on a calendar with hours of two minutes, days of two hours, weeks of two days
  and months of three, in which a slot falls due, is missed beyond its grace, and falls due again; two
  operator moves, one end. Starts do not overlap and routines are not removed inside a tick (`Overlap`,
  `MidTick = FALSE`, see 5). The due-math is compared with its definition for every kind of schedule at
  48 instants, twelve days: every weekday, month edge and `dom`/`dow` combination occurs. The clock starts `MaxScanDays` days after
  the origin (`Distant`; the code scans 1462 days and its origin is 1970), so that no scan back leaves the
  calendar. 550 000 states.
- `Transcript`: a file that rolls after two turns, one relay, one wake, no deaths.

### 3.2 Fairness

- `LockFairSpec`: a live process inside `acquireLock` or `releaseLock` goes on, for it is synchronous
  code (weak fairness of `CallStep`). A call that keeps returning to its wait passes its deadline at some
  time (strong fairness of `DeadlineStep`: the wait is left and re-entered at each retry). No fairness
  for beginning a call, leaving the critical section, dying, or the operator, who is absent here so that
  the lock must clear itself.
- `GoalRun!FairSpec`: a started verb goes on (weak fairness per process; every step is synchronous or an
  await that settles), and a child ends (weak fairness of `ChildEnds`: sessions have a timeout).
  Nothing obliges the operator to begin a verb, to resume, or to remove STOP.
- `AgentLane!FairSpec`: the supervisor restarts the loop (`Start`), the loop goes on (`Tick`), a
  heartbeat grows old (`PresenceExpires`: the 900 s time to live), and a wake that does not end is
  killed (`End(w, "failed")`: `--max-runtime`, or the control ticker on a stop). Sessions are obliged to
  nothing: neither to claim nor to complete.
- `PlanContest!FairSpec`: a live engine goes on (weak fairness of `Engine`, which includes the end of a
  session it awaits: `invokeExecutor` kills a child at its timeout). Nobody has to resume.
- `Scheduler!FairSpec`: each daemon goes on (weak fairness of `Daemon(p)`: synchronous code and a sleep).
  Nobody is obliged to start one, the clock need not move, and crashes may end any of them, which is why
  `DueSettled` and `StopEnds` speak of as long as a loop is up.

### 3.3 What the properties say

The lock: `MutualExclusion`, `LiveLockKept` (the lock file of a live holder is its own), `CallsEnd`,
`DeadOwnerReclaimed`. The sidecar: `LogSound`, `AcknowledgedRecorded`, `ImplementsEventLog`. The goal
run: `SpawnedOnce`, `LiveChildKept`, `ApprovedDispatch`, `AttemptBudget`, `GrantSpentOnce`,
`DependencyPassed`, `DoneEarned`, `StopHonoured` (at most the one attempt that had passed its gate is
opened under STOP), `HistoryKept` (an action property), `VerbsEnd`. The lane: `InOneFolder`,
`OrphansOnly`, `PoisonBounded` (claims of a message are at most the limit, plus one, plus the ones a
usage limit excused), `FailOutEarned` (the converse: nothing is given up early; a power cut between the
counter and the rename may count an attempt twice, which the formula names), `OneReply`,
`StopHonoured`, `ClaimsRecovered`. The contest: `SessionsBounded`, `OneSession`, `OfferTraced` (the
offered plan is the survivor the kept verdicts rank first, or the grafted plan of its synthesis),
`SettledKept` (an action property: a job that answered, with its artifact on disk, is folded by every
later resume and never asked again), `ContestEnds`. The scheduler: `OneOutcome` (an occurrence gets one
task, one recorded miss or one recorded error, whoever dies between intent and mark), `OneLoop`,
`LastAndNextAdjacent`, `DueSettled`, `StopEnds`. Each has a comment where it is defined.

## 4. Proofs

All statements are for any constants that satisfy the modules' named assumptions.

**RunLockProofs.** `LockTyped`: `LockSpec => []LockTypeOK`. `LockMutualExclusion` and `LockKept` hold
under `Isolated \/ Succession`: either no process shares its host with one that may end (nobody can
judge a dead owner; its lock waits for the operator), for any number of processes, or there is one
process and one successor and no operator. Without it they are false (finding 1).
Mutual exclusion is not inductive: it must be known that the file at the path is the owner's *from
exclusive create to unlink* (`OwnLock`), that a live process left none behind (`NoRemains`), that a
record is put to the pid test only on its host (`JudgedAtHome`), that whoever is about to rename a lock
is alone (`ReclaimerAlone`, where the assumption is used), and that a lock an operator has found dead is
still the one at the path (`ConfirmedDead`). `LockInv` is their conjunction.

**RunEventsProofs.** `SidecarLock` shows that every step of the sidecar is a step of the lock or leaves
it alone, so that `LockInv` carries over. `SidecarTyped` needs no assumption; `SidecarSound`,
`SidecarDurable` and `SidecarImplementsEventLog` have that of the lock. The invariant `EventInv` adds
what a process inside the critical section knows of the file (`ScanStillTrue`: its cut is still the
length, after a rescan there is no tail, its number is still the next one and its id is still
new): the facts that mutual exclusion keeps true between two file accesses. The refinement maps `lines`
to the abstract log: `Write` is a `Record`, cutting a tail is a stutter because the cut is the length
of the complete lines.

**GoalStateProofs, GoalRunTyping, GoalRunProofs.** The goal run is proved for every plan (any finite
set of nodes with their dependencies and a topological order), any budgets, approvals and troubles.
`GoalStateProofs` says of each named transition what it changes of a record and what it leaves
(`StartAttemptDoes`, `FinishDoes`, `ConsumeDoes`, ...); the proofs about the run cite these and never
unfold a transition.
- `GoalTyped` (`GoalTypeOK`) and `RunHonoursStop` (`StopHonoured`) hold for any number of processes and
  however their verbs overlap. Types need `Local(p)`: what a process has in hand at each place (an
  attempt that is in its copy, an envelope that is not the missing one, a request while it grants).
  STOP needs `LeaseHeld`: whoever is between `stamp` and `release`, a pending divergence included, owns
  the lease, so one process at most is past the gate when STOP appears.
- The other eight have the hypothesis `[]OneVerb`: at any time one process at most is inside a verb. It
  is the operator's part, true of itself when there is one process (`OneOperator`), and it cannot be
  dropped: `GoalRunOverlap` violates `SpawnedOnce` without it (finding 2), because only `goal run` takes
  the lease and it takes it after its copy. Crashes remain free: a verb may end at any step, and the
  children of every dead verb may still run.
- `Inv` is what makes them inductive. `Copy`: a verb's `mem` is `run.json` but for a divergence it is
  still to stamp, so a whole-file write loses nothing. `Sound` is the record beside the sessions ever
  spawned: the last attempt only may be open, and then its node is running (`NodesSound`); every session
  has its attempt, its approval, its grant and its passed dependencies in the record (`Past`), in a form
  that every later write keeps (`Keeps`, `PastKept`). `Placed` is what a place of the loop may count on:
  the approved envelope is the one in hand, the dependencies are complete, the attempt about to be
  spawned is open, without a pid and never spawned, its grant is spent on it. `Phases` and `Scoped` carry
  completeness into the final verification, and an edit of the envelope past the drift check.
- Each step keeps `Inv` and is a `HistoryStep`, from which `RunHistory` (the action property
  `HistoryKept`) follows. TLC has checked `Inv` and `HistoryStep` on the instance of `GoalRun`, and the
  STOP invariant there and, as far as 20 million states, with two overlapping processes and a crash.

**AgentLaneProofs.** `LaneAlone`: a session is live only while the delegate awaits it and is the child
it awaits; a list of claims to take back exists only inside the requeue. From it `LaneOrphansOnly`:
what the delegate takes back no live session works on, the claim of `requeueOrphanedClaims`, for a
delegate alone with its wakes (with interactive sessions it is false, finding 5). `LaneInOneFolder`
needs more: `Apart` (a message has a file in one folder), `Single` (and one there), and that what a
verb or the requeue has in hand is in `claimed` until it moves it (`SessionInHand`, `RequeueInHand`).
These two depend on `LaneAlone`: were a requeue and a verb to interleave, the rewrite of a claimed
message would bring back a file that has been renamed away.
`LanePoisonBounded`, `LaneFailOutEarned` and `LaneOneReply` rest on what a message file says.
`CountInv` ties its counter to the claims that were made: in `new` the counter stands for all the claims
that were not excused (`Tallied`), in `claimed` for all but the one being served (`Ahead`), except between
the write of an advanced counter and the rename that follows it (`Backing`), where it already stands for
all. A power cut in that interval is why the upper bound allows one count for every crash. `RequeueFile` and
`SessionFile` say that what was read of a file before it is written back is still what the file says
(by `LaneAlone` nobody else writes it), and `Unheard` that a message about to be answered is in `done` and
unanswered, which nothing leaves. TLC has checked `CountInv` on the instance of `AgentLane` with two power
cuts. `LaneTyped` adds the types of the loop, the files of the line and the counters.

**PlanContestProofs.** For any finite set of two or more seats, any hosts, scores and number of mishaps.
`ContestInv` is the invariant all of it stands on: per job, its ledger record, the place the engine is at
with it (`at`), its artifact and its sessions agree (`JobSound`), only jobs of the stages passed are
declared (`Placed`), and the held synthesis is the one on disk when it was folded (`GraftHeld`). The engine
settles jobs in any order, so the proof is by job: `JobFrame` says what a step with one job leaves alone of
all others, and a step has to restore the invariant of that job only.
- `PlanTyped` and `ContestSettledKept` follow from it with no hypothesis. What a resume would fold is
  never touched again (`FoldStands`): that is the promise of `resumeDisposition`.
- `ContestSessionsBounded` adds `Budget`: the sessions opened for a job are paid for by its record, by
  the first dispatch or by the retry, before they are opened. `ContestOneSession` adds `Alive`: each
  session that runs is one the engine waits for or one whose host and pid the record holds, so that a
  resume sees it. Both have the hypothesis `GapCrash = FALSE`, and TLC violates both without it: a
  session spawned by an engine that died before `onSpawn` is in no record (section 5).
- `ContestOfferTraced` rests on `TracedInv`: every candidate, verdict and graft the engine has in memory
  is, while no artifact vanished, the one on disk, and a stage is left only when every job of it is
  settled, so that the memory a resumed engine rebuilds from artifacts ranks the same plans. Whether an
  artifact vanished is part of the property.
TLC has checked each of these invariants on instances of 0.5 to 4.7 million states before its proof.

**SchedulerProofs.** For any processes, routine ids, schedules, calendar lengths and accidents.
- `InstantsEnclose` (`LastAndNextAdjacent`): the computed last and next occurrence are occurrences on
  either side of the clock with none in between. A weekly or a cron scan goes through the days one by one
  and stops at the first day with a hit; `BackFound` and `ForthFound` show that this is the last hit (the
  first) of the days scanned, `ScanSound` that a whole week of days is enough when nothing is found
  nearer. A cron expression is such a scan at the clocks of its hours and minutes (`CronClock`); `every`
  is the grid of `Grid`, which starts over at midnight. The assumptions: the calendar's lengths are
  positive, `WeekLen < MaxScanDays` (7 and 1462 in the code), the schedules are `WellFormed` (what
  `parseAt`, `parseEvery` and `parseCron` return), the times are `Distant`. The one consequence the
  scheduler needs is `LastMonotone`: the last occurrence does not go back as the clock goes on.
- `OneLoopHolds`: at most one process is in the loop, *provided starts do not overlap*
  (`Overlap = FALSE`; with two starts at once it is false, see 5). The pid file alone does not say who is
  up. `PidInv` adds that a process that is up is the one in the file (`UpOwns`), that one start is under
  way (`OneStart`), that nobody is up while a claimant is past its look at the owner (`TakingAlone`), that
  a claimant about to write its pid has created the file (`WriterOwns`), and what the hook may assume
  (`HookAlone`).
- `SchedTyped` (`SchedTypeOK`), without either hypothesis. `LoopInv` ties the place in the loop to the
  place in the claim; `TypeInv` adds that an occurrence in hand has a job and an instant, and that the
  jobs of a tick are jobs.
- `OneOutcomeHolds` (`OneOutcome`): an occurrence gets one outcome, *provided starts do not overlap and no
  routine is removed in the middle of a tick* (`Overlap = FALSE`, `MidTick = FALSE`; see 5).
  `OneOutcome` only speaks of what is written, so `OutcomeInv` says what keeps the next write away:
  whatever the ledger holds of the routine as it stands is behind one of its two markers (`LedgerInv`);
  what is in flight is an instant the routine had by now, and by the time each job of a tick was read
  (`MarksInv`, `TodoInv`); a job is still its routine's; an occurrence in hand carries its intent and is
  not settled before its send (`Stamped`). With `LastMonotone` a verdict other than skip is then ahead of
  every recorded outcome (`DueAhead`). The crash between intent and send needs no case of its own: the
  intent stays, and the occurrence is skipped for good. `OutcomeInvariant` shows the same from `[]OneLoop`
  alone, however one loop is brought about.
TLC has checked `OutcomeInv` on all 550 000 states of the `Scheduler` instance.

**Model-checked only.** Liveness (the prover has no proof rule for fairness here): `CallsEnd`,
`DeadOwnerReclaimed`, `VerbsEnd`, `ClaimsRecovered`, the lane's `StopHonoured`, `ContestEnds`,
`DueSettled`, `StopEnds`.

## 5. Findings

1. **Two reclaimers** (`run-events/store.mjs:284`, run `RunEventsShared`). A lock is classified, then
   whatever is at the path is renamed. Two reclaimers of one dead owner's lock can both classify it; the
   second archives the live lock the first has just created.
2. **A stale copy under the lease** (`goal-lifecycle/run.mjs:99`, run `GoalRunOverlap`). `run.json` is
   loaded before the lease, the wait for it is up to 2 s, and the old copy is written back.
3. **An orphan without a pid** (`goal-lifecycle/resume.mjs:96`, run `GoalRunOrphan`). A crash between
   spawn and pid record makes a running child look as if it had never started.
4. **One id for every reconciliation** (`goal-lifecycle/resume.mjs:227`, run `GoalReconcile`). The second
   reconciliation of a run is refused by the sidecar as a conflict and the run stays halted.
5. **Presence reclaimed unseen** (`agent-lifecycle/delegate.mjs:1622`, run `AgentLaneShared`). After a
   wake the delegate overwrites the presence of an interactive session that came online meanwhile, and
   its next requeue takes that session's claims.
6. **A digest undoes a rotation** (`agent-lifecycle/_threads.mjs:839`, run `Transcript`). The copy of
   `thread.json` read before the rotation was counted is written back after it; turns are numbered from
   the start again. In the same way a title, a message id or a close is lost.

Each is quoted with the line it contradicts in `PROJECT.json`.

Read in the code, or found with a constant of the models at its other value, and not held by a run:

- **Overlapping starts** (`Scheduler` with `Overlap = TRUE` violates `OneLoop`). The start hook decides
  to spawn when it sees no live owner (`_comms.mjs:119`) and then writes the pid of its child over the
  file (`_comms.mjs:130`), over a daemon that came up in between; the child reads its own pid and loops.
  Two claimants of one stale file do the same: the second removes what the first has just created
  (`_bridge.mjs:359-363`). The delegate and the relay look at the file again on every tick; the
  scheduler does not.
- **Removal during a tick** (`MidTick = TRUE` violates `OneOutcome`). `markFired` re-creates the state
  entry that `removeRoutine` has dropped, so that a routine added under that id starts with the past of
  the old one.
- **A stop lost at a start**. `scheduler serve` clears the stop gate before it claims the pid file: a
  second serve, refused because a loop is up, takes back the stop that loop has not seen.
- **A crash between spawn and record** (`PlanContest` with `GapCrash = TRUE` violates `OneSession`).
  `jobs.mjs` re-runs a `pending` job because "no child was ever spawned for it"; `onSpawn` is called after
  the spawn (`invoke.mjs:365-377`).
- A synthesis that throws leaves no artifact, so a resume asks it again, although a job that "failed on
  its own merits" is not to be retried (`jobs.mjs:93-94`). A crash in `plan_review` has no automatic
  resume. A crash in a correction pass enters the contest again and offers the winner a second time. A
  verdict outlives a candidate file that vanished and was produced anew, which is why `OfferTraced`
  speaks of runs in which no file vanished.
- **The divergence gate is passed once** (`runner.mjs:312`). A divergence stamped while an attempt is
  opened does not prevent its spawn.
- **Abandoned counts as drained** (`delegate.mjs:1636-1638`). Progress is judged before the requeue that
  would put the message back; its own counter still bounds its retries (`PoisonBounded`).
- **Zero budgets** (`approve.mjs:89`). `--max-attempts 0` and `--breaker 0` are advertised as unbounded; the
  amendment path does not call `validateEnvelope`, which refuses them, and the amended run refuses every
  attempt.
- **Threads**: a message re-sent after a rotation is recorded again, for only the live file is searched
  (`_threads.mjs:597`); two waiters that find the rotation lock stale may both remove it, the second the
  new lock of the first (`_threads.mjs:708`).
- `resume`, `approve` and `approve-action` write `run.json` without the lease. Reopening a node does not
  reopen its completed dependents. The `gone` and `reclaimable` branches of `acquireLock` retry without
  looking at the deadline (in `RunLockLive` each such round needs an acquisition of the other process,
  whose number is bounded).

## 6. Abstractions, and what is left out

- **Lock and sidecar**: time is a choice between retry and giving up. Archive names, permissions and
  the contents of events beyond id and body are left out; a file system rename is atomic.
- **Goal run**: the lease is `RunLock`'s lock taken and released in one step, on one host. The total
  attempt and wall-clock budgets are one gate that may refuse in any round (`GateSpent`). Evidence, review
  and write-boundary checks are the outcomes of `Settle`. Planning phases absorb: a run that goes back
  to planning is over for this module. A failed write in `onSpawn` and a deleted envelope
  are not modelled.
- **Lane**: one delegate per agent (the pid file is `DaemonPid`, composed with the scheduler only). A SIGTERM is the stop stage. The
  owner in a claim stamp is dropped because no step reads it. Message ids are unique, routing and
  cycle checks of `send` come before its one write. Session rotation, its handoff wake and the
  decision of the pacemaker are left out; the pacemaker's message is one more `Send`.
- **Contest**: the single planner is one step, its plan without a ledger; a plan is where it came from and
  a verdict is a score; eligibility of seats, prompts, `--no-critique` and STOP during planning are left
  out. Two resumes at once are not modelled: `continuePlanning` takes the lease only after the
  classification.
- **Scheduler**: `updateEntry` is one step. Presence, the drain of the own inbox, the persisted fleet
  and the dry run are left out, `--once` is a loop that is signalled after its first tick. One agent;
  validation of a routine file is not modelled. The calendar is scaled by constants, its arithmetic is
  that of the code.
- **Threads**: an append is one step (the code itself names the straggler that a finer step would show);
  which thread a message belongs to, prune and rendering are left out.
- Parsing, formatting, logging, prompts, git and every network bridge.

## 7. Plan

Done: the lock, the sidecar with its refinement and proofs, the goal run with its proofs, its event ids, the lane with
its proofs, the planning contest with its proofs, the scheduler with the proofs of its due-math, pid file and markers, the
threads. Next, in this order:

1. **Threads**: that a rotation takes away no generation but the one it replaces, with one reclaimer of
   a stale rotation lock (the present model has 10^8 states in the smallest interesting instance).
2. **The relay**: update offsets against redelivery, and its own ownership check.
3. **Two verbs without the lease**: lost writes of `resume`, `approve` and `approve-action`.
4. Session rotation with its handoff; an abstract mailbox (a message is assigned, executed, answered)
   that the lane implements.
