------------------------------ MODULE RunEvents ------------------------------
(***************************************************************************)
(* The event sidecar of lib/run-events/store.mjs: appendEvent under the    *)
(* lock of RunLock.  The file is its complete lines plus an optional       *)
(* unterminated tail.  A line is an event record, or `Torn` when it does   *)
(* not parse.  Between two file accesses of an append any other process    *)
(* may run; the critical section of RunLock (pc = "held") is refined by    *)
(* `stage`.                                                                *)
(***************************************************************************)
EXTENDS RunLock, Sequences

CONSTANTS Ids, Bodies,  \* event_id values, and intents that differ
          Torn          \* the id of a complete line that is not JSON

ASSUME RunEventsAssumption == Torn \notin Ids /\ Ids # {} /\ Bodies # {}

VARIABLES
    lines,   \* the complete lines of events.v1.jsonl
    tail,    \* bytes follow the last newline
    stage,   \* where each process is in the body of appendEvent
    intent,  \* the intent each process is appending
    next,    \* the sequence its scan computed
    cut,     \* the length it will truncate the file to
    result   \* what its last appendEvent answered

fileVars == <<lines, tail>>
callVars == <<stage, intent, next, cut, result>>
vars == <<lockVars, fileVars, callVars>>

Intents == [id : Ids, body : Bodies]
AnyIntent == CHOOSE i \in Intents : TRUE
Stages == {"scan", "saveTail", "truncate", "rescan", "write", "done"}
Results == {"none", "appended", "duplicate", "conflict", "corrupt", "io"}
Lines == [id : Ids \cup {Torn}, body : Bodies, seq : Nat]

\* The events a reader recognises.
Recorded(i) == \E k \in 1..Len(lines) :
    lines[k].id = i.id /\ lines[k].body = i.body

\* scanEvents: some complete line is unparseable, out of sequence, or repeats
\* an event_id (an error, never repaired).
Corrupt == \E k \in 1..Len(lines) :
    \/ lines[k].id = Torn
    \/ lines[k].seq # k
    \/ \E j \in 1..(k - 1) : lines[j].id = lines[k].id

Init ==
    /\ LockInit
    /\ lines = <<>>
    /\ tail = FALSE
    /\ stage = [p \in Procs |-> "done"]
    /\ intent = [p \in Procs |-> AnyIntent]
    /\ next = [p \in Procs |-> 0]
    /\ cut = [p \in Procs |-> 0]
    /\ result = [p \in Procs |-> "none"]

\* The body of appendEvent runs while the lock is believed held.
In(p, s) == p \in alive /\ pc[p] = "held" /\ stage[p] = s

Stage(p, s) == stage' = [stage EXCEPT ![p] = s]
Answer(p, r) == result' = [result EXCEPT ![p] = r]

-----------------------------------------------------------------------------
\* appendEvent(runDir, intent) is called.
Call(p, i) ==
    /\ p \in alive
    /\ Begin(p)
    /\ intent' = [intent EXCEPT ![p] = i]
    /\ Stage(p, "scan")
    /\ Answer(p, "none")
    /\ UNCHANGED <<fileVars, next, cut>>

\* Fault: an id that is recorded with another intent is not refused.
DecideNoConflict(p) ==
    \/ /\ Corrupt \/ Recorded(intent[p])
       /\ Stage(p, "done") /\ Answer(p, IF Corrupt THEN "corrupt" ELSE "duplicate")
       /\ UNCHANGED next
    \/ /\ ~Corrupt /\ ~Recorded(intent[p])
       /\ next' = [next EXCEPT ![p] = Len(lines) + 1]
       /\ Stage(p, "write")
       /\ UNCHANGED result

\* throwOnErrors, the idempotency check, and the choice of the sequence: pure
\* decisions on one reading of the file.
Decide(p) ==
    \/ /\ Corrupt
       /\ Stage(p, "done") /\ Answer(p, "corrupt")
       /\ UNCHANGED next
    \/ /\ ~Corrupt /\ Recorded(intent[p])
       /\ Stage(p, "done") /\ Answer(p, "duplicate")
       /\ UNCHANGED next
    \/ /\ ~Corrupt /\ ~Recorded(intent[p])
       /\ \E k \in 1..Len(lines) : lines[k].id = intent[p].id
       /\ Stage(p, "done") /\ Answer(p, "conflict")
       /\ UNCHANGED next
    \/ /\ ~Corrupt
       /\ \A k \in 1..Len(lines) : lines[k].id # intent[p].id
       /\ next' = [next EXCEPT ![p] = Len(lines) + 1]
       /\ Stage(p, "write")
       /\ UNCHANGED result

\* Fault: a truncated tail is not repaired before the append.
ScanNoRepair(p) ==
    /\ In(p, "scan")
    /\ Decide(p)
    /\ UNCHANGED <<lockVars, fileVars, intent, cut>>

Scan(p) ==
    /\ In(p, "scan")
    /\ IF tail
         THEN Stage(p, "saveTail") /\ UNCHANGED <<next, result>>
         ELSE Decide(p)
    /\ UNCHANGED <<lockVars, fileVars, intent, cut>>

\* Fault: the last complete line is counted as part of the tail.
SaveTailOffByOne(p) ==
    /\ In(p, "saveTail")
    /\ IF tail
         THEN cut' = [cut EXCEPT ![p] = Len(lines) - 1] /\ Stage(p, "truncate")
         ELSE UNCHANGED cut /\ Stage(p, "rescan")
    /\ UNCHANGED <<lockVars, fileVars, intent, next, result>>

\* Read the file again and archive the tail under events.v1.recovery/.
SaveTail(p) ==
    /\ In(p, "saveTail")
    /\ IF tail
         THEN cut' = [cut EXCEPT ![p] = Len(lines)] /\ Stage(p, "truncate")
         ELSE UNCHANGED cut /\ Stage(p, "rescan")
    /\ UNCHANGED <<lockVars, fileVars, intent, next, result>>

\* Fault: the truncation takes the last complete line with it.
TruncateShort(p) ==
    /\ In(p, "truncate")
    /\ lines' = SubSeq(lines, 1, cut[p] - 1) /\ tail' = FALSE
    /\ cut' = [cut EXCEPT ![p] = 0]
    /\ Stage(p, "rescan")
    /\ UNCHANGED <<lockVars, intent, next, result>>

\* truncateSync to the length read: whatever follows is gone, and a file that
\* is shorter by now is padded.
Truncate(p) ==
    /\ In(p, "truncate")
    /\ IF cut[p] <= Len(lines)
         THEN lines' = SubSeq(lines, 1, cut[p]) /\ tail' = FALSE
         ELSE lines' = lines /\ tail' = TRUE
    /\ cut' = [cut EXCEPT ![p] = 0]
    /\ Stage(p, "rescan")
    /\ UNCHANGED <<lockVars, intent, next, result>>

Rescan(p) ==
    /\ In(p, "rescan")
    /\ Decide(p)
    /\ UNCHANGED <<lockVars, fileVars, intent, cut>>

\* The line an append-mode write completes: after a tail it parses as nothing.
NewLine(p) ==
    [id |-> IF tail THEN Torn ELSE intent[p].id,
     body |-> intent[p].body, seq |-> next[p]]

Write(p) ==
    /\ In(p, "write")
    /\ lines' = Append(lines, NewLine(p))
    /\ tail' = FALSE
    /\ next' = [next EXCEPT ![p] = 0]
    /\ Stage(p, "done") /\ Answer(p, "appended")
    /\ UNCHANGED <<lockVars, intent, cut>>

\* The write throws: part of the line, or none of it, reached the file.
WriteFails(p) ==
    /\ In(p, "write")
    /\ tail' \in {tail, TRUE}
    /\ next' = [next EXCEPT ![p] = 0]
    /\ Stage(p, "done") /\ Answer(p, "io")
    /\ UNCHANGED <<lockVars, lines, intent, cut>>

\* The process dies inside the write.
DieWriting(p) ==
    /\ In(p, "write")
    /\ Die(p)
    /\ tail' = TRUE
    /\ UNCHANGED <<lines, callVars>>

\* The lock's own steps; the body ends before the lock is released.
LockStep(p) ==
    /\ p \in alive
    /\ \/ Create(p) \/ Stamp(p) \/ ReadOwner(p) \/ JudgeOwner(p)
       \/ ArchiveLock(p) \/ UnlinkFallback(p) \/ Retry(p) \/ GiveUp(p)
       \/ (stage[p] = "done" /\ Leave(p)) \/ CheckOwner(p) \/ DropLock(p)
    /\ UNCHANGED <<fileVars, callVars>>

Body(p) ==
    \/ Scan(p) \/ SaveTail(p) \/ Truncate(p) \/ Rescan(p)
    \/ Write(p) \/ WriteFails(p) \/ DieWriting(p)

Environment ==
    /\ Operator \/ \E p \in Procs : Die(p)
    /\ UNCHANGED <<fileVars, callVars>>

Next ==
    \/ \E p \in Procs : LockStep(p) \/ Body(p) \/ \E i \in Intents : Call(p, i)
    \/ Environment

Spec == Init /\ [][Next]_vars

-----------------------------------------------------------------------------
TypeOK ==
    /\ LockTypeOK
    /\ lines \in Seq(Lines)
    /\ tail \in BOOLEAN
    /\ stage \in [Procs -> Stages]
    /\ intent \in [Procs -> Intents]
    /\ next \in [Procs -> Nat]
    /\ cut \in [Procs -> Nat]
    /\ result \in [Procs -> Results]

\* Only a truncated final line is ever wrong with the file: every complete
\* line parses, sequences run 1..n and no event_id appears twice (rule 2 of
\* store.mjs, and what appendEvent and replayEvents refuse to work without).
LogSound == ~Corrupt

\* A caller that was told its event is recorded finds it in the file.
AcknowledgedRecorded ==
    \A p \in Procs : result[p] \in {"appended", "duplicate"} => Recorded(intent[p])

\* Every step of the sidecar is a step of the abstract log or leaves it alone.
L == INSTANCE EventLog WITH log <- lines
ImplementsEventLog == L!LogSpec

=============================================================================
