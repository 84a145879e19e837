------------------------------- MODULE RunLock -------------------------------
(***************************************************************************)
(* The exclusive-create lock of lib/run-events/store.mjs: acquireLock,     *)
(* classifyLock, archiveLock, releaseLock and the operator's unlockEvents. *)
(* Two users share it verbatim: the event sidecar (events.v1.lock) and the *)
(* goal engine's run lease (run.lock, goal-lifecycle/store.mjs).           *)
(*                                                                         *)
(* One step is one system call: the code holds nothing while it is between *)
(* two of them, so another process may run there.  The lock is a PATH; an  *)
(* acquisition <<p, n>> names the file that process p created at its n-th  *)
(* attempt (the nonce of the code), and `stamped` says which of those      *)
(* files carry a complete ownership record.  A process dies at any step,   *)
(* by a crash or by simply finishing: the CLI is short-lived.              *)
(***************************************************************************)
EXTENDS Naturals, FiniteSets

CONSTANTS
    Procs,       \* process instances; a restart is another instance
    Host,        \* the host each process runs on
    Mortal,      \* the processes that may exit or crash
    MaxAcquire,  \* bound: acquisitions per process
    Operated,    \* does an operator run `artifacts events unlock`?
    NoLock       \* the path is free

ASSUME RunLockAssumption ==
    /\ Mortal \subseteq Procs
    /\ MaxAcquire \in Nat
    /\ Operated \in BOOLEAN
    /\ \A p \in Procs, n \in 1..MaxAcquire : NoLock # <<p, n>>

VARIABLES
    lock,       \* the acquisition whose file is at the lock path
    stamped,    \* acquisitions whose file holds an ownership record
    archived,   \* files moved under the recovery directory
    alive,      \* processes that kill(pid, 0) finds
    pc,         \* where each process is
    count,      \* acquisitions each process has begun
    seen,       \* the ownership record each process has read and not judged
    confirmed   \* the lock whose owner the operator has found dead

lockVars == <<lock, stamped, archived, alive, pc, count, seen, confirmed>>

Acquisitions == Procs \X (1..MaxAcquire)

Steps == {"idle", "open", "stamp", "held", "read", "judge", "wait",
          "rename", "unlink", "release", "drop"}

\* The acquisition p is engaged in.
Mine(p) == <<p, count[p]>>

\* From the exclusive create to the unlink the lock file is p's own.
Owning == {"stamp", "held", "release", "drop"}

Goto(p, step) == pc' = [pc EXCEPT ![p] = step]

LockInit ==
    /\ lock = NoLock
    /\ stamped = {}
    /\ archived = {}
    /\ alive = Procs
    /\ pc = [p \in Procs |-> "idle"]
    /\ count = [p \in Procs |-> 0]
    /\ seen = [p \in Procs |-> NoLock]
    /\ confirmed = NoLock

-----------------------------------------------------------------------------
(* acquireLock *)

Begin(p) ==
    /\ pc[p] = "idle"
    /\ count[p] < MaxAcquire
    /\ count' = [count EXCEPT ![p] = @ + 1]
    /\ Goto(p, "open")
    /\ UNCHANGED <<lock, stamped, archived, alive, seen, confirmed>>

\* openSync(lock, 'wx'): create the file, or learn that it exists.
Create(p) ==
    /\ pc[p] = "open"
    /\ IF lock = NoLock
         THEN lock' = Mine(p) /\ Goto(p, "stamp")
         ELSE lock' = lock    /\ Goto(p, "read")
    /\ UNCHANGED <<stamped, archived, alive, count, seen, confirmed>>

\* writeSync goes to the file p created, wherever its name is by now.
Stamp(p) ==
    /\ pc[p] = "stamp"
    /\ stamped' = stamped \cup {Mine(p)}
    /\ Goto(p, "held")
    /\ UNCHANGED <<lock, archived, alive, count, seen, confirmed>>

\* Fault: a record that is not complete yet is taken for a dead owner's.
ReadOwnerTornDead(p) ==
    /\ pc[p] = "read"
    /\ Goto(p, IF lock = NoLock THEN "open" ELSE IF lock \in stamped THEN "judge" ELSE "rename")
    /\ seen' = IF lock \in stamped THEN [seen EXCEPT ![p] = lock] ELSE seen
    /\ UNCHANGED <<lock, stamped, archived, alive, count, confirmed>>

\* Fault: a malformed lock is read again at once, the deadline never looked at.
ReadOwnerNoDeadline(p) ==
    /\ pc[p] = "read"
    /\ Goto(p, IF lock \in stamped THEN "judge" ELSE "open")
    /\ seen' = IF lock \in stamped THEN [seen EXCEPT ![p] = lock] ELSE seen
    /\ UNCHANGED <<lock, stamped, archived, alive, count, confirmed>>

\* classifyLock up to the host comparison: gone, malformed, foreign, or a
\* record of this host whose pid is still to be probed.
ReadOwner(p) ==
    /\ pc[p] = "read"
    /\ \/ /\ lock = NoLock
          /\ Goto(p, "open")
          /\ UNCHANGED seen
       \/ /\ lock # NoLock
          /\ lock \notin stamped \/ Host[lock[1]] # Host[p]
          /\ Goto(p, "wait")
          /\ UNCHANGED seen
       \/ /\ lock \in stamped
          /\ Host[lock[1]] = Host[p]
          /\ seen' = [seen EXCEPT ![p] = lock]
          /\ Goto(p, "judge")
    /\ UNCHANGED <<lock, stamped, archived, alive, count, confirmed>>

\* Fault: a probe that is refused (EPERM) counts as a dead process.
JudgeOwnerRefused(p) ==
    /\ pc[p] = "judge"
    /\ Goto(p, "rename")
    /\ seen' = [seen EXCEPT ![p] = NoLock]
    /\ UNCHANGED <<lock, stamped, archived, alive, count, confirmed>>

\* Fault: a dead owner is waited for.
JudgeOwnerWaits(p) ==
    /\ pc[p] = "judge"
    /\ Goto(p, "wait")
    /\ seen' = [seen EXCEPT ![p] = NoLock]
    /\ UNCHANGED <<lock, stamped, archived, alive, count, confirmed>>

\* pidAlive: kill(pid, 0) of the owner that was READ.
JudgeOwner(p) ==
    /\ pc[p] = "judge"
    /\ Goto(p, IF seen[p][1] \in alive THEN "wait" ELSE "rename")
    /\ seen' = [seen EXCEPT ![p] = NoLock]
    /\ UNCHANGED <<lock, stamped, archived, alive, count, confirmed>>

\* Fault: a file that is gone by the time of the rename is archived all the same.
ArchiveLockBlind(p) ==
    /\ pc[p] = "rename"
    /\ archived' = archived \cup {lock}
    /\ lock' = NoLock
    /\ Goto(p, "open")
    /\ UNCHANGED <<stamped, alive, count, seen, confirmed>>

\* archiveLock: rename whatever file is at the path NOW; a rename that finds
\* none falls into the copy-and-unlink branch.
ArchiveLock(p) ==
    /\ pc[p] = "rename"
    /\ IF lock # NoLock
         THEN /\ archived' = archived \cup {lock}
              /\ lock' = NoLock
              /\ Goto(p, "open")
         ELSE /\ UNCHANGED <<archived, lock>>
              /\ Goto(p, "unlink")
    /\ UNCHANGED <<stamped, alive, count, seen, confirmed>>

UnlinkFallback(p) ==
    /\ pc[p] = "unlink"
    /\ lock' = NoLock
    /\ Goto(p, "open")
    /\ UNCHANGED <<stamped, archived, alive, count, seen, confirmed>>

\* Before the deadline: sleep and try again.
Retry(p) ==
    /\ pc[p] = "wait"
    /\ Goto(p, "open")
    /\ UNCHANGED <<lock, stamped, archived, alive, count, seen, confirmed>>

\* After it: throw 'lock busy'.
GiveUp(p) ==
    /\ pc[p] = "wait"
    /\ Goto(p, "idle")
    /\ UNCHANGED <<lock, stamped, archived, alive, count, seen, confirmed>>

-----------------------------------------------------------------------------
(* releaseLock *)

Leave(p) ==
    /\ pc[p] = "held"
    /\ Goto(p, "release")
    /\ UNCHANGED <<lock, stamped, archived, alive, count, seen, confirmed>>

\* A record with another nonce is left alone; an absent or unreadable one is
\* not told apart from one's own.
CheckOwner(p) ==
    /\ pc[p] = "release"
    /\ Goto(p, IF lock \in stamped /\ lock # Mine(p) THEN "idle" ELSE "drop")
    /\ UNCHANGED <<lock, stamped, archived, alive, count, seen, confirmed>>

DropLock(p) ==
    /\ pc[p] = "drop"
    /\ lock' = NoLock
    /\ Goto(p, "idle")
    /\ UNCHANGED <<stamped, archived, alive, count, seen, confirmed>>

-----------------------------------------------------------------------------
(* The environment: deaths, and the operator's recovery *)

Die(p) ==
    /\ p \in Mortal \cap alive
    /\ alive' = alive \ {p}
    /\ UNCHANGED <<lock, stamped, archived, pc, count, seen, confirmed>>

\* An operator who keeps the promise of --confirm-owner-dead: the owner is
\* dead when looked at.
ConfirmOwnerDead ==
    /\ Operated
    /\ lock # NoLock
    /\ lock[1] \notin alive
    /\ confirmed # lock
    /\ confirmed' = lock
    /\ UNCHANGED <<lock, stamped, archived, alive, pc, count, seen>>

\* unlockEvents archives the lock at the path, whatever classifyLock says.
UnlockEvents ==
    /\ confirmed # NoLock
    /\ archived' = IF lock = NoLock THEN archived ELSE archived \cup {lock}
    /\ lock' = NoLock
    /\ confirmed' = NoLock
    /\ UNCHANGED <<stamped, alive, pc, count, seen>>

AcquireStep(p) ==
    \/ Begin(p) \/ Create(p) \/ Stamp(p) \/ ReadOwner(p) \/ JudgeOwner(p)
    \/ ArchiveLock(p) \/ UnlinkFallback(p) \/ Retry(p) \/ GiveUp(p)

ReleaseStep(p) == Leave(p) \/ CheckOwner(p) \/ DropLock(p)

ProcStep(p) == p \in alive /\ (AcquireStep(p) \/ ReleaseStep(p))

Operator == ConfirmOwnerDead \/ UnlockEvents

Unattended == \E p \in Procs : ProcStep(p) \/ Die(p)

LockNext == Operator \/ Unattended

LockSpec == LockInit /\ [][LockNext]_lockVars

\* Where a call of acquireLock, or of releaseLock, that has begun goes by itself:
\* synchronous code, so a live process gets on with it.  Beginning, and leaving
\* the critical section, is up to the caller.
CallStep(p) == p \in alive /\ pc[p] \notin {"idle", "held"} /\ ProcStep(p)

\* The deadline: a call that keeps waiting does not wait for ever.
DeadlineStep(p) == p \in alive /\ GiveUp(p)

\* No operator: what the calls achieve by themselves.
LockFairSpec ==
    /\ LockInit /\ [][Unattended]_lockVars
    /\ \A p \in Procs : WF_lockVars(CallStep(p)) /\ SF_lockVars(DeadlineStep(p))

-----------------------------------------------------------------------------
LockTypeOK ==
    /\ lock \in Acquisitions \cup {NoLock}
    /\ stamped \subseteq Acquisitions
    /\ archived \subseteq Acquisitions
    /\ alive \subseteq Procs
    /\ pc \in [Procs -> Steps]
    /\ count \in [Procs -> 0..MaxAcquire]
    /\ seen \in [Procs -> Acquisitions \cup {NoLock}]
    /\ confirmed \in Acquisitions \cup {NoLock}

\* No two live processes are between acquireLock's return and releaseLock's
\* at once: the reason the lock exists (store.mjs rule 3).
MutualExclusion ==
    \A p, q \in alive : pc[p] = "held" /\ pc[q] = "held" => p = q

\* acquireLock returns or throws, whoever holds the lock, died holding it, or
\* never stamped it; releaseLock returns (no caller waits for ever).
CallsEnd ==
    \A p \in Procs :
        pc[p] \notin {"idle", "held"} ~> pc[p] \in {"idle", "held"} \/ p \notin alive

\* The complete lock of a dead process of this host is out of the way once a
\* process that stays alive tries to acquire: no operator is needed.
DeadOwnerReclaimed ==
    \A a \in Acquisitions :
        (/\ lock = a /\ a \in stamped /\ a[1] \notin alive
         /\ \E q \in Procs \ Mortal : pc[q] = "open" /\ Host[q] = Host[a[1]])
            ~> lock # a

\* "A lock file whose owner is still alive is ACTIVE and is never reclaimed":
\* while a live process holds the lock, the file at the path is its own.
LiveLockKept ==
    \A p \in alive : pc[p] = "held" => lock = Mine(p)

=============================================================================
