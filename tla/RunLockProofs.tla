---------------------------- MODULE RunLockProofs ----------------------------
(***************************************************************************)
(* Type correctness of the lock, and its mutual exclusion for any number   *)
(* of acquisitions, where the code has it: either every process that may   *)
(* die has a host of its own (nobody is in a position to judge a dead      *)
(* owner, whose lock waits for the operator), for any number of processes; *)
(* or there is one process and one successor, on one host or two, and no   *)
(* operator (a dead owner's lock is reclaimed).                            *)
(***************************************************************************)
EXTENDS RunLock, TLAPS

\* No process shares a host with one that may die.
Isolated == \A p \in Mortal : \A q \in Procs \ {p} : Host[p] # Host[q]

\* A process and its successor, and nobody to recover the lock by hand.
Succession == ~Operated /\ \E p, q : Procs \subseteq {p, q}

-----------------------------------------------------------------------------
(* Type correctness *)

LEMMA LockInitType == LockInit => LockTypeOK
BY RunLockAssumption DEF LockInit, LockTypeOK, Steps, Acquisitions

LEMMA MineType ==
    ASSUME LockTypeOK, NEW p \in Procs, count[p] \in 1..MaxAcquire
    PROVE  Mine(p) \in Acquisitions /\ Mine(p) # NoLock
BY RunLockAssumption DEF Mine, Acquisitions

\* A process that is not idle has begun an acquisition.
Counted == \A p \in Procs : pc[p] # "idle" => count[p] \in 1..MaxAcquire

LEMMA CountedStep ==
    ASSUME LockTypeOK, Counted, [LockNext]_lockVars
    PROVE  Counted'
<1>1. ASSUME NEW p \in Procs, ProcStep(p) PROVE Counted'
  <2>1. CASE Begin(p)
    BY <2>1, RunLockAssumption DEF Begin, Goto, Counted, LockTypeOK
  <2>2. CASE ~Begin(p)
    <3>1. count' = count /\ pc[p] # "idle"
      BY <1>1, <2>2 DEF ProcStep, AcquireStep, ReleaseStep, Create, Stamp, ReadOwner,
         JudgeOwner, ArchiveLock, UnlinkFallback, Retry, GiveUp, Leave, CheckOwner, DropLock
    <3>2. \A q \in Procs \ {p} : pc'[q] = pc[q]
      BY <1>1, <2>2 DEF LockTypeOK, ProcStep, AcquireStep, ReleaseStep, Create, Stamp,
         ReadOwner, JudgeOwner, ArchiveLock, UnlinkFallback, Retry, GiveUp, Leave,
         CheckOwner, DropLock, Goto
    <3> QED
      BY <3>1, <3>2 DEF Counted
  <2> QED
    BY <2>1, <2>2
<1>2. CASE UNCHANGED <<pc, count>>
  BY <1>2 DEF Counted
<1> QED
  BY <1>1, <1>2 DEF LockNext, Unattended, lockVars, Operator, ConfirmOwnerDead, UnlockEvents, Die

LEMMA TypeStep ==
    ASSUME LockTypeOK, Counted, [LockNext]_lockVars
    PROVE  LockTypeOK'
<1> USE DEF LockTypeOK, Steps, Goto
<1>1. ASSUME NEW p \in Procs, AcquireStep(p) PROVE LockTypeOK'
  <2>1. CASE Begin(p)
    BY <2>1, RunLockAssumption DEF Begin
  <2>2. CASE Create(p)
    BY <2>2, MineType DEF Create, Counted
  <2>3. CASE Stamp(p)
    BY <2>3, MineType DEF Stamp, Counted
  <2>4. CASE ReadOwner(p)
    BY <2>4 DEF ReadOwner
  <2>5. CASE JudgeOwner(p)
    BY <2>5 DEF JudgeOwner
  <2>6. CASE ArchiveLock(p)
    BY <2>6 DEF ArchiveLock
  <2>7. CASE UnlinkFallback(p) \/ Retry(p) \/ GiveUp(p)
    BY <2>7 DEF UnlinkFallback, Retry, GiveUp
  <2> QED
    BY <1>1, <2>1, <2>2, <2>3, <2>4, <2>5, <2>6, <2>7 DEF AcquireStep
<1>2. ASSUME NEW p \in Procs, ReleaseStep(p) PROVE LockTypeOK'
  BY <1>2 DEF ReleaseStep, Leave, CheckOwner, DropLock
<1>3. ASSUME NEW p \in Procs, Die(p) PROVE LockTypeOK'
  BY <1>3 DEF Die
<1>4. CASE Operator
  BY <1>4 DEF Operator, ConfirmOwnerDead, UnlockEvents
<1>5. CASE UNCHANGED lockVars
  BY <1>5 DEF lockVars
<1> QED
  BY <1>1, <1>2, <1>3, <1>4, <1>5 DEF LockNext, Unattended, ProcStep

\* Every variable of the lock keeps its type, whatever dies and whoever shares a
\* host.
THEOREM LockTyped == LockSpec => []LockTypeOK
<1>1. LockInit => LockTypeOK /\ Counted
  BY LockInitType DEF LockInit, Counted
<1>2. LockTypeOK /\ Counted /\ [LockNext]_lockVars => (LockTypeOK /\ Counted)'
  BY TypeStep, CountedStep
<1> QED
  BY <1>1, <1>2, PTL DEF LockSpec

-----------------------------------------------------------------------------
(* Mutual exclusion *)

\* The file at the path is that of the live process between its exclusive create
\* and its unlink.
OwnLock == \A p \in alive : pc[p] \in Owning => lock = Mine(p)

\* A live process that does not own the lock left no file there.
NoRemains == \A p \in alive : lock # NoLock /\ lock[1] = p => pc[p] \in Owning

\* Only mortals die.
Immortals == Procs \ Mortal \subseteq alive

\* A record is put to the pid test only by another process of the host it names.
JudgedAtHome ==
    \A p \in Procs : pc[p] = "judge" =>
        seen[p] \in Acquisitions /\ Host[seen[p][1]] = Host[p] /\ (p \in alive => seen[p][1] # p)

\* Whoever is about to move a lock out of the way is alone.
ReclaimerAlone ==
    \A p \in alive : pc[p] \in {"rename", "unlink"} => alive = {p} /\ ~Isolated

\* The lock an operator has confirmed is still there, and its owner dead.
ConfirmedDead ==
    confirmed # NoLock => Operated /\ lock = confirmed /\ confirmed[1] \notin alive

Parts == OwnLock /\ NoRemains /\ Immortals /\ JudgedAtHome /\ ReclaimerAlone /\ ConfirmedDead

LockInv == LockTypeOK /\ Counted /\ Parts

LEMMA LockInvInit == LockInit => LockInv
BY LockInitType DEF LockInit, LockInv, Parts, Counted, OwnLock, NoRemains, Immortals,
   JudgedAtHome, ReclaimerAlone, ConfirmedDead, Owning

\* What an acquisition is made of.
LEMMA AcquisitionOwner ==
    ASSUME NEW a \in Acquisitions PROVE a[1] \in Procs /\ a # NoLock
BY RunLockAssumption DEF Acquisitions

\* A dead owner is found only by its lone successor.
LEMMA JudgedDead ==
    ASSUME Isolated \/ Succession, LockInv, NEW p \in alive, pc[p] = "judge",
           seen[p][1] \notin alive
    PROVE  alive = {p} /\ ~Isolated
<1>1. /\ p \in Procs /\ alive \subseteq Procs
      /\ seen[p] \in Acquisitions /\ Host[seen[p][1]] = Host[p] /\ seen[p][1] # p
  BY DEF LockInv, LockTypeOK, Parts, JudgedAtHome
<1>2. seen[p][1] \in Procs \cap Mortal
  BY <1>1, AcquisitionOwner DEF LockInv, Parts, Immortals
<1>3. ~Isolated
  BY <1>1, <1>2 DEF Isolated
<1>4. Procs \subseteq {p, seen[p][1]}
  BY <1>1, <1>2, <1>3 DEF Succession
<1> QED
  BY <1>1, <1>3, <1>4

\* Distinct live processes do not both own the lock.
LEMMA OneOwner ==
    ASSUME LockInv, NEW p \in alive, NEW q \in alive,
           pc[p] \in Owning, pc[q] \in Owning
    PROVE  p = q
BY DEF LockInv, Parts, OwnLock, Mine

LEMMA LockInvStep ==
    ASSUME Isolated \/ Succession, LockInv, [LockNext]_lockVars
    PROVE  LockInv'
<1> USE DEF Owning
<1>0. LockTypeOK' /\ Counted'
  BY TypeStep, CountedStep DEF LockInv
<1> SUFFICES Parts'
  BY <1>0 DEF LockInv
<1>1. ASSUME NEW p \in alive, AcquireStep(p) PROVE Parts'
  <2> p \in Procs
    BY DEF LockInv, LockTypeOK
  <2> USE DEF LockInv, LockTypeOK, Parts, Goto, Mine
  <2>1. CASE Begin(p)
    BY <2>1 DEF Begin, OwnLock, NoRemains, Immortals, JudgedAtHome, ReclaimerAlone, ConfirmedDead
  <2>2. CASE Create(p)
    <3>1. CASE lock = NoLock
      <4>1. \A q \in alive : pc[q] \notin Owning
        BY <3>1, MineType DEF OwnLock, Counted
      <4>2. lock' = Mine(p) /\ pc' = [pc EXCEPT ![p] = "stamp"]
        BY <2>2, <3>1 DEF Create
      <4>3. OwnLock' /\ NoRemains'
        BY <2>2, <4>1, <4>2 DEF Create, OwnLock, NoRemains
      <4> QED
        BY <2>2, <3>1, <4>2, <4>3 DEF Create, Immortals, JudgedAtHome, ReclaimerAlone, ConfirmedDead
    <3>2. CASE lock # NoLock
      BY <2>2, <3>2 DEF Create, OwnLock, NoRemains, Immortals, JudgedAtHome, ReclaimerAlone,
         ConfirmedDead
    <3> QED
      BY <3>1, <3>2
  <2>3. CASE Stamp(p)
    BY <2>3 DEF Stamp, OwnLock, NoRemains, Immortals, JudgedAtHome, ReclaimerAlone, ConfirmedDead
  <2>4. CASE ReadOwner(p)
    <3>1. \A a \in stamped : a = lock /\ pc[p] = "read" => a # NoLock /\ a[1] # p
      BY AcquisitionOwner DEF NoRemains
    <3>2. JudgedAtHome'
      BY <2>4, <3>1 DEF ReadOwner, JudgedAtHome
    <3> QED
      BY <2>4, <3>2 DEF ReadOwner, OwnLock, NoRemains, Immortals, ReclaimerAlone, ConfirmedDead
  <2>5. CASE JudgeOwner(p)
    <3>1. pc'[p] = "rename" => alive = {p} /\ ~Isolated
      BY <2>5, JudgedDead DEF JudgeOwner
    <3>2. ReclaimerAlone'
      BY <2>5, <3>1 DEF JudgeOwner, ReclaimerAlone
    <3> QED
      BY <2>5, <3>2 DEF JudgeOwner, OwnLock, NoRemains, Immortals, JudgedAtHome, ConfirmedDead
  <2>6. CASE ArchiveLock(p) \/ UnlinkFallback(p)
    <3>1. alive = {p} /\ ~Isolated /\ ~Operated
      BY <2>6 DEF ArchiveLock, UnlinkFallback, ReclaimerAlone, Succession
    <3>2. /\ pc[p] \notin Owning /\ pc'[p] \in {"open", "unlink"}
          /\ alive' = alive /\ lock' = NoLock /\ seen' = seen /\ confirmed' = confirmed
      BY <2>6 DEF ArchiveLock, UnlinkFallback
    <3>3. \A q \in Procs \ {p} : pc'[q] = pc[q]
      BY <2>6 DEF ArchiveLock, UnlinkFallback
    <3> QED
      BY <3>1, <3>2, <3>3 DEF OwnLock, NoRemains, Immortals, JudgedAtHome, ReclaimerAlone,
         ConfirmedDead
  <2>7. CASE Retry(p) \/ GiveUp(p)
    BY <2>7 DEF Retry, GiveUp, OwnLock, NoRemains, Immortals, JudgedAtHome, ReclaimerAlone,
       ConfirmedDead
  <2> QED
    BY <1>1, <2>1, <2>2, <2>3, <2>4, <2>5, <2>6, <2>7 DEF AcquireStep
<1>2. ASSUME NEW p \in alive, ReleaseStep(p) PROVE Parts'
  <2> p \in Procs
    BY DEF LockInv, LockTypeOK
  <2> USE DEF LockInv, LockTypeOK, Parts, Goto, Mine
  <2>1. CASE Leave(p)
    BY <2>1 DEF Leave, OwnLock, NoRemains, Immortals, JudgedAtHome, ReclaimerAlone, ConfirmedDead
  <2>2. CASE CheckOwner(p)
    <3>1. lock = Mine(p) /\ pc' = [pc EXCEPT ![p] = "drop"]
      BY <2>2 DEF CheckOwner, OwnLock
    <3> QED
      BY <2>2, <3>1 DEF CheckOwner, OwnLock, NoRemains, Immortals, JudgedAtHome, ReclaimerAlone,
         ConfirmedDead
  <2>3. CASE DropLock(p)
    <3>1. \A q \in alive \ {p} : pc[q] \notin Owning
      BY <2>3, OneOwner DEF DropLock
    <3>2. confirmed = NoLock
      BY <2>3, MineType DEF DropLock, ConfirmedDead, OwnLock
    <3> QED
      BY <2>3, <3>1, <3>2 DEF DropLock, OwnLock, NoRemains, Immortals, JudgedAtHome,
         ReclaimerAlone, ConfirmedDead
  <2> QED
    BY <1>2, <2>1, <2>2, <2>3 DEF ReleaseStep
<1>3. ASSUME NEW p \in Procs, Die(p) PROVE Parts'
  BY <1>3 DEF LockInv, Parts, Die, OwnLock, NoRemains, Mine, Immortals, JudgedAtHome,
     ReclaimerAlone, ConfirmedDead
<1>4. CASE ConfirmOwnerDead
  BY <1>4 DEF LockInv, Parts, ConfirmOwnerDead, OwnLock, NoRemains, Mine, Immortals,
     JudgedAtHome, ReclaimerAlone, ConfirmedDead
<1>5. CASE UnlockEvents
  <2>1. \A p \in alive : pc[p] \notin Owning
    BY <1>5 DEF LockInv, Parts, UnlockEvents, ConfirmedDead, OwnLock, Mine
  <2> QED
    BY <1>5, <2>1 DEF LockInv, Parts, UnlockEvents, OwnLock, NoRemains, Immortals,
       JudgedAtHome, ReclaimerAlone, ConfirmedDead
<1>6. CASE UNCHANGED lockVars
  BY <1>6 DEF lockVars, LockInv, Parts, OwnLock, NoRemains, Mine, Immortals, JudgedAtHome,
     ReclaimerAlone, ConfirmedDead
<1> QED
  BY <1>1, <1>2, <1>3, <1>4, <1>5, <1>6 DEF LockNext, Unattended, ProcStep, Operator

THEOREM LockInvariant == ASSUME Isolated \/ Succession PROVE LockSpec => []LockInv
<1>1. LockInv /\ [LockNext]_lockVars => LockInv'
  BY LockInvStep
<1> QED
  BY LockInvInit, <1>1, PTL DEF LockSpec

\* No two live processes are in the critical section at once.
THEOREM LockMutualExclusion == ASSUME Isolated \/ Succession PROVE LockSpec => []MutualExclusion
<1>1. LockInv => MutualExclusion
  BY OneOwner DEF MutualExclusion, Owning
<1> QED
  BY LockInvariant, <1>1, PTL

\* The lock of a live process is not taken from it.
THEOREM LockKept == ASSUME Isolated \/ Succession PROVE LockSpec => []LiveLockKept
<1>1. LockInv => LiveLockKept
  BY DEF LockInv, Parts, OwnLock, LiveLockKept, Owning
<1> QED
  BY LockInvariant, <1>1, PTL

=============================================================================
