--------------------------- MODULE RunEventsProofs ---------------------------
(***************************************************************************)
(* The sidecar is sound, and implements the abstract log, for any ids and  *)
(* intents, on the assumption of RunLockProofs: no process shares a host   *)
(* with one that may die, or one process succeeds another.  The lock's     *)
(* mutual exclusion carries over; what it gives the body of appendEvent is *)
(* that a scan is still true when its conclusions are written.             *)
(***************************************************************************)
EXTENDS RunEvents, RunLockProofs, SequenceTheorems

\* Every step of the sidecar is a step of the lock, or leaves it alone.
LEMMA StepIsLockStep == [Next]_vars => [LockNext]_lockVars
<1>1. ASSUME NEW p \in Procs, LockStep(p) PROVE LockNext
  BY <1>1 DEF LockStep, LockNext, Unattended, ProcStep, AcquireStep, ReleaseStep
<1>2. ASSUME NEW p \in Procs, Body(p) PROVE LockNext \/ UNCHANGED lockVars
  BY <1>2 DEF Body, Scan, SaveTail, Truncate, Rescan, Write, WriteFails, DieWriting, LockNext, Unattended
<1>3. ASSUME NEW p \in Procs, NEW i \in Intents, Call(p, i) PROVE LockNext
  BY <1>3 DEF Call, LockNext, Unattended, ProcStep, AcquireStep
<1>4. CASE Environment
  BY <1>4 DEF Environment, LockNext, Unattended
<1> QED
  BY <1>1, <1>2, <1>3, <1>4 DEF Next, vars

\* The lock of the sidecar is the lock of RunLock.
THEOREM SidecarLock == Spec => LockSpec
<1>1. Init => LockInit
  BY DEF Init
<1> QED
  BY <1>1, StepIsLockStep, PTL DEF Spec, LockSpec

-----------------------------------------------------------------------------
(* Types of the sidecar's own variables *)

EventTypeOK ==
    /\ lines \in Seq(Lines)
    /\ tail \in BOOLEAN
    /\ stage \in [Procs -> Stages]
    /\ intent \in [Procs -> Intents]
    /\ next \in [Procs -> Nat]
    /\ cut \in [Procs -> Nat]
    /\ result \in [Procs -> Results]

LEMMA EventTypeInit == Init => EventTypeOK
<1>1. \E i \in Intents : TRUE
  <2>1. PICK id \in Ids, b \in Bodies : TRUE
    BY RunEventsAssumption
  <2>2. [id |-> id, body |-> b] \in Intents
    BY DEF Intents
  <2> QED
    BY <2>2
<1>2. AnyIntent \in Intents
  BY <1>1 DEF AnyIntent
<1>3. Init => intent \in [Procs -> Intents]
  BY <1>2 DEF Init
<1>4. Init => lines = <<>>
  BY DEF Init
<1>5. <<>> \in Seq(Lines)
  OBVIOUS
<1>6. Init => tail \in BOOLEAN
  BY DEF Init
<1>7. Init => next \in [Procs -> Nat] /\ cut \in [Procs -> Nat]
  BY DEF Init
<1>8. Init => stage \in [Procs -> Stages] /\ result \in [Procs -> Results]
  BY DEF Init, Stages, Results
<1> QED
  BY <1>3, <1>4, <1>5, <1>6, <1>7, <1>8 DEF EventTypeOK

LEMMA DecideType ==
    ASSUME EventTypeOK, NEW p \in Procs, Decide(p)
    PROVE  /\ stage' \in [Procs -> Stages]
           /\ next' \in [Procs -> Nat]
           /\ result' \in [Procs -> Results]
<1> USE DEF EventTypeOK, Stage, Answer, Stages, Results
<1>1. \A s \in Stages : Stage(p, s) => stage' \in [Procs -> Stages]
  OBVIOUS
<1>2. \A r \in Results : Answer(p, r) => result' \in [Procs -> Results]
  OBVIOUS
<1>3. /\ Stage(p, "done") \/ Stage(p, "write")
      /\ result' = result \/ \E r \in Results : Answer(p, r)
      /\ next' = next \/ next' = [next EXCEPT ![p] = Len(lines) + 1]
  BY DEF Decide
<1>4. Len(lines) + 1 \in Nat
  OBVIOUS
<1> QED
  BY <1>1, <1>2, <1>3, <1>4

LEMMA EventTypeStep ==
    ASSUME EventTypeOK, [Next]_vars
    PROVE  EventTypeOK'
<1>1. ASSUME NEW p \in Procs, Body(p) PROVE EventTypeOK'
  <2>1. CASE Scan(p)
    <3>1. CASE tail
      BY <2>1, <3>1 DEF Scan, EventTypeOK, Stage, Stages, fileVars
    <3>2. CASE ~tail
      BY <2>1, <3>2, DecideType DEF Scan, EventTypeOK, fileVars
    <3> QED
      BY <3>1, <3>2
  <2>2. CASE SaveTail(p)
    <3>1. Len(lines) \in Nat
      BY DEF EventTypeOK
    <3>2. cut' \in [Procs -> Nat] /\ stage' \in [Procs -> Stages]
      BY <2>2, <3>1 DEF SaveTail, EventTypeOK, Stage, Stages
    <3> QED
      BY <2>2, <3>2 DEF SaveTail, EventTypeOK, fileVars
  <2>3. CASE Truncate(p)
    <3>1. cut[p] \in Nat /\ Len(lines) \in Nat
      BY DEF EventTypeOK
    <3>2. cut[p] <= Len(lines) => SubSeq(lines, 1, cut[p]) \in Seq(Lines)
      BY <3>1, SubSeqProperties DEF EventTypeOK
    <3>3. tail' \in BOOLEAN /\ lines' \in Seq(Lines)
      BY <2>3, <3>2 DEF Truncate, EventTypeOK
    <3> QED
      BY <2>3, <3>3 DEF Truncate, EventTypeOK, Stage, Stages
  <2>4. CASE Rescan(p)
    BY <2>4, DecideType DEF Rescan, EventTypeOK, fileVars
  <2>5. CASE Write(p)
    <3>1. NewLine(p) \in Lines
      BY DEF NewLine, Lines, EventTypeOK, Intents
    <3>2. Append(lines, NewLine(p)) \in Seq(Lines)
      BY <3>1 DEF EventTypeOK
    <3> QED
      BY <2>5, <3>2 DEF Write, EventTypeOK, Stage, Answer, Stages, Results
  <2>6. CASE WriteFails(p)
    BY <2>6 DEF WriteFails, EventTypeOK, Stage, Answer, Stages, Results
  <2>7. CASE DieWriting(p)
    BY <2>7 DEF DieWriting, EventTypeOK, callVars
  <2> QED
    BY <1>1, <2>1, <2>2, <2>3, <2>4, <2>5, <2>6, <2>7 DEF Body
<1>2. ASSUME NEW p \in Procs, NEW i \in Intents, Call(p, i) PROVE EventTypeOK'
  BY <1>2 DEF Call, EventTypeOK, Stage, Answer, Stages, Results, fileVars
<1>3. CASE UNCHANGED <<fileVars, callVars>>
  BY <1>3 DEF EventTypeOK, fileVars, callVars
<1> QED
  BY <1>1, <1>2, <1>3 DEF Next, vars, LockStep, Environment

\* Every variable keeps its type.
THEOREM SidecarTyped == Spec => []TypeOK
<1>1. Spec => []EventTypeOK
  BY EventTypeInit, EventTypeStep, PTL DEF Spec
<1>2. LockTypeOK /\ EventTypeOK => TypeOK
  BY DEF TypeOK, EventTypeOK
<1> QED
  BY <1>1, <1>2, SidecarLock, LockTyped, PTL

-----------------------------------------------------------------------------
(* What a process in the body of appendEvent knows of the file *)

\* A process in its critical section, alive.
Inside(p) == p \in alive /\ pc[p] = "held"

\* A call that is not in its critical section has not begun its body, or ended it.
BodyInside ==
    \A p \in Procs : p \in alive /\ pc[p] # "held" => stage[p] \in {"scan", "done"}

\* What its last look at the file told a process is still so.
ScanStillTrue ==
    \A p \in Procs : Inside(p) =>
        /\ stage[p] = "truncate" => cut[p] = Len(lines)
        /\ stage[p] = "rescan" => ~tail
        /\ stage[p] = "write" =>
              /\ ~tail
              /\ next[p] = Len(lines) + 1
              /\ \A k \in 1..Len(lines) : lines[k].id # intent[p].id

EventInv == EventTypeOK /\ BodyInside /\ ScanStillTrue /\ LogSound /\ AcknowledgedRecorded

LEMMA EventInvInit == Init => EventInv
<1>1. Init => BodyInside
  BY DEF Init, LockInit, BodyInside
<1>2. Init => ScanStillTrue
  BY DEF Init, LockInit, ScanStillTrue, Inside
<1>3. Init => lines = <<>> /\ result = [p \in Procs |-> "none"]
  BY DEF Init
<1>4. Init => LogSound /\ AcknowledgedRecorded
  BY <1>3 DEF LogSound, Corrupt, AcknowledgedRecorded
<1> QED
  BY EventTypeInit, <1>1, <1>2, <1>4 DEF EventInv

\* Nobody else is inside.
LEMMA Alone ==
    ASSUME MutualExclusion, NEW p \in Procs, Inside(p),
           NEW q \in Procs, Inside(q)
    PROVE  p = q
BY DEF MutualExclusion, Inside

\* The file as one complete line more leaves it.
LEMMA AppendSound ==
    ASSUME EventInv, NEW p \in Procs, Inside(p), stage[p] = "write"
    PROVE  LET e == NewLine(p) IN
           /\ e = [id |-> intent[p].id, body |-> intent[p].body, seq |-> Len(lines) + 1]
           /\ e \in Lines /\ e.id # Torn
           /\ Len(Append(lines, e)) = Len(lines) + 1
           /\ \A k \in 1..Len(lines) : Append(lines, e)[k] = lines[k]
           /\ Append(lines, e)[Len(lines) + 1] = e
<1> DEFINE e == NewLine(p)
<1>1. ~tail /\ next[p] = Len(lines) + 1
  BY DEF EventInv, ScanStillTrue
<1>2. e = [id |-> intent[p].id, body |-> intent[p].body, seq |-> Len(lines) + 1]
  BY <1>1 DEF NewLine
<1>3. intent[p].id \in Ids /\ intent[p].body \in Bodies /\ lines \in Seq(Lines)
  BY DEF EventInv, EventTypeOK, Intents
<1>4. e \in Lines /\ e.id # Torn
  BY <1>2, <1>3, RunEventsAssumption DEF Lines
<1>5. /\ Len(Append(lines, e)) = Len(lines) + 1
      /\ \A k \in 1..Len(lines) : Append(lines, e)[k] = lines[k]
      /\ Append(lines, e)[Len(lines) + 1] = e
  BY <1>3, <1>4
<1> QED
  BY <1>2, <1>4, <1>5

\* A decision leaves the file alone and is true of it.
LEMMA DecideInv ==
    ASSUME EventInv, EventTypeOK', MutualExclusion, NEW p \in Procs, Inside(p), ~tail,
           Decide(p), UNCHANGED <<lockVars, fileVars, intent, cut>>
    PROVE  EventInv'
<1> USE DEF EventInv, fileVars, lockVars
<1>1. /\ lines' = lines /\ tail' = tail /\ pc' = pc /\ alive' = alive
      /\ intent' = intent /\ cut' = cut
  OBVIOUS
<1>2. /\ \A q \in Procs \ {p} :
            stage'[q] = stage[q] /\ next'[q] = next[q] /\ result'[q] = result[q]
      /\ \/ stage'[p] = "done"
         \/ /\ stage'[p] = "write" /\ next'[p] = Len(lines) + 1
            /\ \A k \in 1..Len(lines) : lines[k].id # intent[p].id
  BY DEF Decide, Stage, Answer, EventTypeOK
<1>3. result'[p] \in {"appended", "duplicate"} => result'[p] = result[p] \/ Recorded(intent[p])
  BY DEF Decide, Stage, Answer, EventTypeOK
<1>4. BodyInside'
  BY <1>1, <1>2 DEF BodyInside, Inside
<1>5. ScanStillTrue'
  BY <1>1, <1>2 DEF ScanStillTrue, Inside
<1>6. LogSound'
  BY <1>1 DEF LogSound, Corrupt
<1>7. AcknowledgedRecorded'
  BY <1>1, <1>2, <1>3 DEF AcknowledgedRecorded, Recorded
<1> QED
  BY <1>4, <1>5, <1>6, <1>7

\* The body of appendEvent.
LEMMA BodyInv ==
    ASSUME EventInv, EventTypeOK', LockTypeOK, MutualExclusion, NEW p \in Procs, Body(p)
    PROVE  EventInv'
<1> USE DEF EventInv, In, Stage, Answer
<1>1. CASE Scan(p)
  <2>1. CASE tail
    <3>1. /\ UNCHANGED <<lockVars, fileVars, intent, cut, next, result>>
          /\ stage' = [stage EXCEPT ![p] = "saveTail"] /\ Inside(p)
      BY <1>1, <2>1 DEF Scan, Inside
    <3> QED
      BY <3>1 DEF EventTypeOK, lockVars, fileVars, BodyInside, ScanStillTrue, Inside, LogSound,
         Corrupt, AcknowledgedRecorded, Recorded
  <2>2. CASE ~tail
    BY <1>1, <2>2, DecideInv DEF Scan, Inside
  <2> QED
    BY <2>1, <2>2
<1>2. CASE SaveTail(p)
  <2>1. UNCHANGED <<lockVars, fileVars, intent, next, result>> /\ Inside(p)
    BY <1>2 DEF SaveTail, Inside
  <2>2. \/ stage'[p] = "truncate" /\ cut'[p] = Len(lines)
        \/ stage'[p] = "rescan" /\ ~tail
    BY <1>2 DEF SaveTail, EventTypeOK
  <2>3. \A q \in Procs \ {p} : stage'[q] = stage[q] /\ cut'[q] = cut[q]
    BY <1>2 DEF SaveTail, EventTypeOK
  <2>4. BodyInside' /\ ScanStillTrue'
    BY <2>1, <2>2, <2>3 DEF lockVars, fileVars, BodyInside, ScanStillTrue, Inside
  <2>5. LogSound' /\ AcknowledgedRecorded'
    BY <2>1 DEF fileVars, LogSound, Corrupt, AcknowledgedRecorded, Recorded
  <2> QED
    BY <2>4, <2>5
<1>3. CASE Truncate(p)
  <2>1. Inside(p) /\ cut[p] = Len(lines)
    BY <1>3 DEF Truncate, Inside, ScanStillTrue
  <2>2. lines' = SubSeq(lines, 1, Len(lines)) /\ tail' = FALSE
    <3>1. Len(lines) \in Nat
      BY DEF EventTypeOK
    <3>2. cut[p] <= Len(lines)
      BY <2>1, <3>1
    <3> QED
      BY <1>3, <2>1, <3>2 DEF Truncate
  <2>3. lines' = lines
    BY <2>2, SubSeqFull DEF EventTypeOK
  <2>4. /\ UNCHANGED <<lockVars, intent, next, result>>
        /\ stage' = [stage EXCEPT ![p] = "rescan"] /\ cut' = [cut EXCEPT ![p] = 0]
    BY <1>3 DEF Truncate
  <2>5. \A q \in Procs : Inside(q) => q = p
    BY <2>1, Alone
  <2>6. BodyInside' /\ ScanStillTrue'
    BY <2>1, <2>2, <2>3, <2>4, <2>5 DEF EventTypeOK, lockVars, BodyInside, ScanStillTrue, Inside
  <2>7. LogSound' /\ AcknowledgedRecorded'
    BY <2>3, <2>4 DEF LogSound, Corrupt, AcknowledgedRecorded, Recorded
  <2> QED
    BY <2>6, <2>7
<1>4. CASE Rescan(p)
  <2>1. Inside(p) /\ ~tail
    BY <1>4 DEF Rescan, Inside, ScanStillTrue
  <2> QED
    BY <1>4, <2>1, DecideInv DEF Rescan
<1>5. CASE Write(p)
  <2> DEFINE e == NewLine(p)
  <2>1. /\ Inside(p) /\ stage[p] = "write" /\ UNCHANGED <<lockVars, intent, cut>>
        /\ lines' = Append(lines, e)
        /\ tail' = FALSE
        /\ next' = [next EXCEPT ![p] = 0]
        /\ stage' = [stage EXCEPT ![p] = "done"] /\ result' = [result EXCEPT ![p] = "appended"]
    BY <1>5 DEF Write, Inside
  <2>2. /\ e = [id |-> intent[p].id, body |-> intent[p].body, seq |-> Len(lines) + 1]
        /\ e.id # Torn
        /\ Len(lines') = Len(lines) + 1
        /\ \A k \in 1..Len(lines) : lines'[k] = lines[k]
        /\ lines'[Len(lines) + 1] = e
    BY <2>1, AppendSound
  <2>3. /\ Len(lines) \in Nat
        /\ \A k \in 1..Len(lines) : lines[k].id # intent[p].id
    BY <2>1 DEF ScanStillTrue, EventTypeOK
  <2> HIDE DEF e
  <2>4. \A q \in Procs : Inside(q) => q = p
    BY <2>1, Alone
  <2>5. BodyInside' /\ ScanStillTrue'
    BY <2>1, <2>4 DEF EventTypeOK, lockVars, BodyInside, ScanStillTrue, Inside
  <2>6. LogSound'
    <3> SUFFICES ASSUME NEW k \in 1..Len(lines')
                 PROVE  /\ lines'[k].id # Torn /\ lines'[k].seq = k
                        /\ \A j \in 1..(k - 1) : lines'[j].id # lines'[k].id
      BY DEF LogSound, Corrupt
    <3>1. CASE k \in 1..Len(lines)
      <4>1. /\ lines[k].id # Torn /\ lines[k].seq = k
            /\ \A j \in 1..(k - 1) : lines[j].id # lines[k].id
        BY <3>1 DEF LogSound, Corrupt
      <4>2. \A j \in 1..(k - 1) : j \in 1..Len(lines)
        BY <2>3, <3>1
      <4> QED
        BY <2>2, <3>1, <4>1, <4>2
    <3>2. CASE k = Len(lines) + 1
      <4>1. \A j \in 1..(k - 1) : lines'[j].id # e.id
        BY <2>2, <2>3, <3>2
      <4> QED
        BY <2>2, <3>2, <4>1
    <3> QED
      BY <2>2, <2>3, <3>1, <3>2
  <2>7. AcknowledgedRecorded'
    <3>1. Recorded(intent[p])'
      <4>1. Len(lines) + 1 \in 1..Len(lines')
        BY <2>2, <2>3
      <4>2. lines'[Len(lines) + 1].id = intent[p].id /\ lines'[Len(lines) + 1].body = intent[p].body
        BY <2>2
      <4>3. intent' = intent
        BY <2>1
      <4> QED
        BY <4>1, <4>2, <4>3 DEF Recorded
    <3>2. \A q \in Procs : Recorded(intent[q]) => Recorded(intent[q])'
      BY <2>1, <2>2, <2>3 DEF Recorded
    <3>3. \A q \in Procs \ {p} : result'[q] = result[q]
      BY <2>1 DEF EventTypeOK
    <3> QED
      BY <3>1, <3>2, <3>3 DEF AcknowledgedRecorded
  <2> QED
    BY <2>5, <2>6, <2>7
<1>6. CASE WriteFails(p)
  <2>1. /\ Inside(p) /\ UNCHANGED <<lockVars, lines, intent, cut>>
        /\ next' = [next EXCEPT ![p] = 0]
        /\ stage' = [stage EXCEPT ![p] = "done"] /\ result' = [result EXCEPT ![p] = "io"]
    BY <1>6 DEF WriteFails, Inside
  <2>2. \A q \in Procs : Inside(q) => q = p
    BY <2>1, Alone
  <2> QED
    BY <2>1, <2>2 DEF EventTypeOK, lockVars, BodyInside, ScanStillTrue, Inside, LogSound,
       Corrupt, AcknowledgedRecorded, Recorded
<1>7. CASE DieWriting(p)
  <2>1. /\ Inside(p) /\ UNCHANGED <<lines, callVars>> /\ alive' = alive \ {p} /\ pc' = pc
    BY <1>7 DEF DieWriting, Die, Inside
  <2>2. \A q \in Procs : Inside(q) => q = p
    BY <2>1, Alone
  <2> QED
    BY <2>1, <2>2 DEF callVars, BodyInside, ScanStillTrue, Inside, LogSound,
       Corrupt, AcknowledgedRecorded, Recorded
<1> QED
  BY <1>1, <1>2, <1>3, <1>4, <1>5, <1>6, <1>7 DEF Body

\* The lock's own steps, the call, and the environment.
LEMMA OutsideInv ==
    ASSUME EventInv, EventTypeOK', LockTypeOK,
           \/ \E p \in Procs : LockStep(p) \/ \E i \in Intents : Call(p, i)
           \/ Environment
           \/ UNCHANGED vars
    PROVE  EventInv'
<1> USE DEF EventInv
<1>1. ASSUME NEW p \in Procs, NEW i \in Intents, Call(p, i) PROVE EventInv'
  <2>1. /\ pc[p] = "idle" /\ pc' = [pc EXCEPT ![p] = "open"] /\ alive' = alive
        /\ UNCHANGED <<lines, tail, next, cut>>
        /\ intent' = [intent EXCEPT ![p] = i]
        /\ stage' = [stage EXCEPT ![p] = "scan"] /\ result' = [result EXCEPT ![p] = "none"]
    BY <1>1 DEF Call, Begin, Goto, Stage, Answer, fileVars
  <2>2. pc'[p] = "open" /\ stage'[p] = "scan" /\ result'[p] = "none"
    BY <2>1 DEF EventTypeOK, LockTypeOK
  <2>3. \A q \in Procs \ {p} : /\ pc'[q] = pc[q] /\ stage'[q] = stage[q]
                              /\ intent'[q] = intent[q] /\ result'[q] = result[q]
    BY <2>1 DEF EventTypeOK, LockTypeOK
  <2>4. BodyInside'
    BY <2>1, <2>2, <2>3 DEF BodyInside
  <2>5. ScanStillTrue'
    BY <2>1, <2>2, <2>3 DEF ScanStillTrue, Inside
  <2>6. LogSound'
    BY <2>1 DEF LogSound, Corrupt
  <2>7. AcknowledgedRecorded'
    BY <2>1, <2>2, <2>3 DEF AcknowledgedRecorded, Recorded
  <2> QED
    BY <2>4, <2>5, <2>6, <2>7
<1>2. ASSUME UNCHANGED <<fileVars, callVars>>, alive' \subseteq alive,
             \A q \in Procs : q \in alive' =>
                 \/ pc'[q] = pc[q]
                 \/ pc[q] # "held"
                 \/ stage[q] = "done"
      PROVE  EventInv'
  BY <1>2 DEF fileVars, callVars, BodyInside, ScanStillTrue, Inside, LogSound, Corrupt,
     AcknowledgedRecorded, Recorded
<1>3. ASSUME NEW p \in Procs, LockStep(p) PROVE EventInv'
  <2>1. UNCHANGED <<fileVars, callVars>> /\ alive' = alive
    BY <1>3 DEF LockStep, Create, Stamp, ReadOwner, JudgeOwner, ArchiveLock, UnlinkFallback,
       Retry, GiveUp, Leave, CheckOwner, DropLock
  <2>2. pc[p] # "held" \/ stage[p] = "done"
    BY <1>3 DEF LockStep, Create, Stamp, ReadOwner, JudgeOwner, ArchiveLock, UnlinkFallback,
       Retry, GiveUp, Leave, CheckOwner, DropLock
  <2>3. \A q \in Procs \ {p} : pc'[q] = pc[q]
    BY <1>3 DEF LockTypeOK, LockStep, Create, Stamp, ReadOwner, JudgeOwner, ArchiveLock,
       UnlinkFallback, Retry, GiveUp, Leave, CheckOwner, DropLock, Goto
  <2> QED
    BY <1>2, <2>1, <2>2, <2>3
<1>4. CASE Environment
  <2>1. UNCHANGED <<fileVars, callVars>> /\ alive' \subseteq alive /\ pc' = pc
    BY <1>4 DEF Environment, Operator, ConfirmOwnerDead, UnlockEvents, Die
  <2> QED
    BY <1>2, <2>1
<1>5. CASE UNCHANGED vars
  BY <1>2, <1>5 DEF vars, lockVars
<1> QED
  BY <1>1, <1>3, <1>4, <1>5

LEMMA EventInvStep ==
    ASSUME EventInv, LockTypeOK, MutualExclusion, [Next]_vars
    PROVE  EventInv'
<1>1. EventTypeOK'
  BY EventTypeStep DEF EventInv
<1>2. CASE \E p \in Procs : Body(p)
  BY <1>1, <1>2, BodyInv
<1>3. CASE ~\E p \in Procs : Body(p)
  BY <1>1, <1>3, OutsideInv DEF Next
<1> QED
  BY <1>2, <1>3

THEOREM SidecarInvariant == ASSUME Isolated \/ Succession PROVE Spec => []EventInv
<1>1. Spec => [](LockTypeOK /\ MutualExclusion)
  BY SidecarLock, LockTyped, LockMutualExclusion, PTL
<1>2. EventInv /\ (LockTypeOK /\ MutualExclusion) /\ [Next]_vars => EventInv'
  BY EventInvStep
<1> QED
  BY EventInvInit, <1>1, <1>2, PTL DEF Spec

\* The file is never corrupt.
THEOREM SidecarSound == ASSUME Isolated \/ Succession PROVE Spec => []LogSound
<1>1. EventInv => LogSound
  BY DEF EventInv
<1> QED
  BY SidecarInvariant, <1>1, PTL

\* Nothing a caller was told is recorded is ever lost.
THEOREM SidecarDurable == ASSUME Isolated \/ Succession PROVE Spec => []AcknowledgedRecorded
<1>1. EventInv => AcknowledgedRecorded
  BY DEF EventInv
<1> QED
  BY SidecarInvariant, <1>1, PTL

-----------------------------------------------------------------------------
(* The sidecar implements the abstract log *)

\* Truncating cuts a tail and no line; a write records one new event.
LEMMA StepIsLogStep ==
    ASSUME EventInv, MutualExclusion, [Next]_vars
    PROVE  [L!LogNext]_lines
<1>1. CASE \E p \in Procs : Truncate(p)
  <2>1. PICK p \in Procs : Truncate(p)
    BY <1>1
  <2>2. cut[p] = Len(lines) /\ lines \in Seq(Lines)
    BY <2>1 DEF Truncate, In, Inside, EventInv, EventTypeOK, ScanStillTrue
  <2>3. lines' = SubSeq(lines, 1, Len(lines))
    <3>1. cut[p] <= Len(lines)
      BY <2>2
    <3> QED
      BY <2>1, <2>2, <3>1 DEF Truncate
  <2> QED
    BY <2>2, <2>3, SubSeqFull
<1>2. CASE \E p \in Procs : Write(p)
  <2>1. PICK p \in Procs : Write(p)
    BY <1>2
  <2>2. Inside(p) /\ stage[p] = "write" /\ lines' = Append(lines, NewLine(p))
    BY <2>1 DEF Write, In, Inside
  <2>3. /\ NewLine(p) = [id |-> intent[p].id, body |-> intent[p].body, seq |-> Len(lines) + 1]
        /\ \A k \in 1..Len(lines) : lines[k].id # intent[p].id
    BY <2>2, AppendSound DEF EventInv, ScanStillTrue
  <2>4. intent[p].id \in Ids /\ intent[p].body \in Bodies
    BY DEF EventInv, EventTypeOK, Intents
  <2>5. L!Record(intent[p].id, intent[p].body)
    BY <2>2, <2>3 DEF L!Record
  <2> QED
    BY <2>4, <2>5 DEF L!LogNext
<1>3. CASE ~(\E p \in Procs : Truncate(p) \/ Write(p))
  <2>1. UNCHANGED lines
    BY <1>3 DEF Next, vars, fileVars, LockStep, Environment, Body, Scan, SaveTail, Rescan,
       WriteFails, DieWriting, Call
  <2> QED
    BY <2>1
<1> QED
  BY <1>1, <1>2, <1>3

\* The sidecar is one append-only log, each id once, numbered by position.
THEOREM SidecarImplementsEventLog == ASSUME Isolated \/ Succession PROVE Spec => ImplementsEventLog
<1>1. Init => L!LogInit
  BY DEF Init, L!LogInit
<1>2. Spec => [](EventInv /\ MutualExclusion)
  BY SidecarInvariant, SidecarLock, LockMutualExclusion, PTL
<1>3. EventInv /\ MutualExclusion /\ [Next]_vars => [L!LogNext]_lines
  BY StepIsLogStep
<1> QED
  BY <1>1, <1>2, <1>3, PTL DEF Spec, ImplementsEventLog, L!LogSpec

=============================================================================
