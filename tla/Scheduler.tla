----------------------------- MODULE Scheduler ------------------------------
(***************************************************************************)
(* The fleet-wide routine scheduler (lib/agent-lifecycle/scheduler.mjs)    *)
(* over one agent's routines: the daemon loop and its tick, the firing of  *)
(* one occurrence (_routines.mjs fireRoutine), the operator's `agent       *)
(* routine` and `agent scheduler` verbs (routine.mjs), and the pid file    *)
(* that is to keep the loop alone (DaemonPid).                             *)
(*                                                                         *)
(* One step of a daemon is one access to a file another process writes, or *)
(* a synchronous read-modify-write of the routine state; the send of a     *)
(* fired routine is the await between two of them.  Presence, the log and  *)
(* the display counters are left out.                                      *)
(***************************************************************************)
EXTENDS DaemonPid, Schedule, Sequences, SequencesExt

CONSTANTS
    Ids,            \* routine ids of the agent's routines.yaml
    Catalogue,      \* the schedules an operator may add
    Samples, SampleTimes, \* schedules and times the due-math is checked on
    StartTime, MaxTime,   \* bound: the clock
    MaxAdds,        \* bound: how often an id is added
    MaxOps,         \* bound: pauses, stops, removals, switches, manual runs
    MaxEnds,        \* bound: crashes and signals
    MidTick         \* may `routine remove` run while a tick is going on?

ASSUME SchedulerAssumption ==
    /\ MaxAdds \in Nat /\ MaxOps \in Nat /\ MaxEnds \in Nat
    /\ IsFiniteSet(Ids)
    /\ Distant(StartTime) /\ MaxTime \in Nat /\ StartTime <= MaxTime
    /\ \A t \in SampleTimes : Distant(t)
    /\ \A plan \in Catalogue \cup Samples : WellFormed(plan)
    /\ MidTick \in BOOLEAN

VARIABLES
    now,       \* the clock
    gate,      \* the scheduler's own control stage: running or stop
    paused,    \* is the agent's control stage pause (or stop)?
    table,     \* routines.yaml: per id none or one routine
    marks,     \* routines-state.json: per id none or one entry
    pc, todo, due,   \* per daemon: where it is, routines left in this tick, instant in hand
    added,     \* how often each id was added
    ledger,    \* what became of each occurrence
    ops,       \* operator's changes so far
    ends       \* crashes and signals so far

loopVars == <<pc, todo, due>>
fileVars == <<table, marks>>
ghostVars == <<added, ledger, ops, ends>>
vars == <<pidVars, loopVars, fileVars, now, gate, paused, ghostVars>>

\* A routine's state entry: markers of the instants it has dealt with.
Entries == [last : Nat \cup {NoInstant}, inFlight : Nat \cup {NoInstant}, retired : BOOLEAN]
Blank == [last |-> NoInstant, inFlight |-> NoInstant, retired |-> FALSE]

Entry(id) == IF marks[id] = {} THEN Blank ELSE CHOOSE e \in marks[id] : TRUE
Listed(id) == table[id] # {}
RoutineOf(id) == CHOOSE r \in table[id] : TRUE

SchedTypeOK ==
    /\ PidTypeOK
    /\ now \in StartTime .. MaxTime
    /\ gate \in {"running", "stop"} /\ paused \in BOOLEAN
    /\ \A id \in Ids : /\ table[id] \subseteq [plan : Catalogue, enabled : BOOLEAN]
                       /\ Cardinality(table[id]) <= 1
                       /\ marks[id] \subseteq Entries /\ Cardinality(marks[id]) <= 1
    /\ \A p \in Pids :
          /\ pc[p] \in {"off", "gate", "each", "send", "sent", "failed", "leave"}
          /\ pc[p] # "off" => Up(p)
          /\ due[p] \in Nat \cup {NoInstant}
    /\ \A id \in Ids : added[id] \in 0 .. MaxAdds
    /\ ops \in 0 .. MaxOps
    /\ ends \in 0 .. MaxEnds

Init ==
    /\ PidInit
    /\ now = StartTime
    /\ gate = "running" /\ paused = FALSE
    /\ table = [id \in Ids |-> {}]
    /\ marks = [id \in Ids |-> {}]
    /\ pc = [p \in Pids |-> "off"]
    /\ todo = [p \in Pids |-> <<>>]
    /\ due = [p \in Pids |-> NoInstant]
    /\ added = [id \in Ids |-> 0]
    /\ ledger = {}
    /\ ops = 0
    /\ ends = 0

-----------------------------------------------------------------------------
(* routineDue *)

Verdict(r, e, time) ==
    LET t == LastInstant(r.plan, time)
    IN  IF ~r.enabled \/ e.retired \/ t = NoInstant \/ e.last >= t \/ e.inFlight = t
        THEN "skip"
        ELSE IF time - t > r.plan.grace THEN "miss" ELSE "fire"

(* updateEntry: read-modify-write of one entry *)
Update(id, e) == marks' = [marks EXCEPT ![id] = {e}]

\* An occurrence got its outcome, the first or not.
Record(id, n, t, how) ==
    LET same == {o \in ledger : o.id = id /\ o.n = n /\ o.t = t}
    IN  ledger' = ledger \cup
            {[id |-> id, n |-> n, t |-> t, how |-> how, nth |-> Cardinality(same) + 1]}

(* retiresOnFire *)
Retires(r) == r.plan.when = "once"

MarkIntent(id, t) == Update(id, [Entry(id) EXCEPT !.inFlight = t])

Settle(id, t, retire) ==
    Update(id, [last |-> t, inFlight |-> NoInstant, retired |-> Entry(id).retired \/ retire])

MarkFired(id, r, t) == Settle(id, t, Retires(r))
MarkMissed(id, r, t) == Settle(id, t, Retires(r))
MarkError(id, t) == Settle(id, t, FALSE)

-----------------------------------------------------------------------------
(* The daemon *)

\* An explicit serve clears a stop gate before it claims the pid file.
Enter(p) ==
    /\ BeginClaim(p)
    /\ gate' = "running"
    /\ UNCHANGED <<loopVars, fileVars, now, paused, ghostVars>>

\* Fault: the loop is entered whatever the claim came to.
AcquireFault(p) ==
    /\ Claim(p)
    /\ pc' = [pc EXCEPT ![p] = "gate"]
    /\ UNCHANGED <<todo, due, fileVars, now, gate, paused, ghostVars>>

Acquire(p) ==
    /\ Claim(p)
    /\ pc' = [pc EXCEPT ![p] = IF at'[p] = "up" THEN "gate" ELSE "off"]
    /\ UNCHANGED <<todo, due, fileVars, now, gate, paused, ghostVars>>

\* The head of the loop: a stop ends it.
LookAtGate(p) ==
    /\ pc[p] = "gate" /\ gate = "stop"
    /\ pc' = [pc EXCEPT ![p] = "leave"]
    /\ UNCHANGED <<pidVars, todo, due, fileVars, now, gate, paused, ghostVars>>

\* tickOnce reads the clock, the routines and the agent's control stage, once.
Job(id) == [id |-> id, r |-> RoutineOf(id), n |-> added[id], time |-> now, gated |-> paused]

\* Fault: the gate is only read by the start hook.
StartTickFault(p) ==
    /\ pc[p] = "gate"
    /\ todo' = [todo EXCEPT ![p] = SetToSeq({Job(id) : id \in {i \in Ids : Listed(i)}})]
    /\ pc' = [pc EXCEPT ![p] = "each"]
    /\ UNCHANGED <<pidVars, due, fileVars, now, gate, paused, ghostVars>>

StartTick(p) ==
    /\ pc[p] = "gate" /\ gate # "stop"
    /\ todo' = [todo EXCEPT ![p] = SetToSeq({Job(id) : id \in {i \in Ids : Listed(i)}})]
    /\ pc' = [pc EXCEPT ![p] = "each"]
    /\ UNCHANGED <<pidVars, due, fileVars, now, gate, paused, ghostVars>>

Current(p) == Head(todo[p])
NextJob(p) == todo' = [todo EXCEPT ![p] = Tail(@)]
Judge(job) == Verdict(job.r, Entry(job.id), job.time)
Instant(job) == LastInstant(job.r.plan, job.time)

\* Fault: the occurrences of a paused agent are left for its resume.
PassOverFault(p) ==
    /\ pc[p] = "each" /\ todo[p] # <<>>
    /\ Judge(Current(p)) = "skip" \/ Current(p).gated
    /\ NextJob(p)
    /\ UNCHANGED <<pidVars, fileVars, pc, due, now, gate, paused, ghostVars>>

\* Nothing due, or an occurrence that is not fired: past its grace, or
\* consumed because the agent is paused.
PassOver(p) ==
    /\ pc[p] = "each" /\ todo[p] # <<>>
    /\ LET job == Current(p)
       IN  \/ /\ Judge(job) = "skip"
              /\ UNCHANGED <<fileVars, ledger>>
           \/ /\ Judge(job) = "miss" \/ (Judge(job) = "fire" /\ job.gated)
              /\ MarkMissed(job.id, job.r, Instant(job))
              /\ Record(job.id, job.n, Instant(job), "missed")
              /\ UNCHANGED table
    /\ NextJob(p)
    /\ UNCHANGED <<pidVars, pc, due, now, gate, paused, added, ops, ends>>

\* Fault: the intent is not written.
IntendFault(p) ==
    /\ pc[p] = "each" /\ todo[p] # <<>> /\ ~Current(p).gated
    /\ Judge(Current(p)) = "fire"
    /\ due' = [due EXCEPT ![p] = Instant(Current(p))]
    /\ pc' = [pc EXCEPT ![p] = "send"]
    /\ UNCHANGED <<pidVars, fileVars, todo, now, gate, paused, ghostVars>>

\* fireRoutine stamps the intent before it sends.
Intend(p) ==
    /\ pc[p] = "each" /\ todo[p] # <<>> /\ ~Current(p).gated
    /\ Judge(Current(p)) = "fire"
    /\ MarkIntent(Current(p).id, Instant(Current(p)))
    /\ due' = [due EXCEPT ![p] = Instant(Current(p))]
    /\ pc' = [pc EXCEPT ![p] = "send"]
    /\ UNCHANGED <<pidVars, table, todo, now, gate, paused, ghostVars>>

\* `agent send` puts the task in the agent's inbox, or refuses it: the charter
\* drifted, the sequence file is gone.
Send(p) ==
    /\ pc[p] = "send"
    /\ \/ /\ Record(Current(p).id, Current(p).n, due[p], "fired")
          /\ pc' = [pc EXCEPT ![p] = "sent"]
       \/ /\ pc' = [pc EXCEPT ![p] = "failed"]
          /\ UNCHANGED ledger
    /\ UNCHANGED <<pidVars, fileVars, todo, due, now, gate, paused, added, ops, ends>>

Fired(p) ==
    /\ pc[p] = "sent"
    /\ MarkFired(Current(p).id, Current(p).r, due[p])
    /\ pc' = [pc EXCEPT ![p] = "each"]
    /\ due' = [due EXCEPT ![p] = NoInstant]
    /\ NextJob(p)
    /\ UNCHANGED <<pidVars, table, now, gate, paused, ghostVars>>

Failed(p) ==
    /\ pc[p] = "failed"
    /\ MarkError(Current(p).id, due[p])
    /\ Record(Current(p).id, Current(p).n, due[p], "error")
    /\ pc' = [pc EXCEPT ![p] = "each"]
    /\ due' = [due EXCEPT ![p] = NoInstant]
    /\ NextJob(p)
    /\ UNCHANGED <<pidVars, table, now, gate, paused, added, ops, ends>>

\* Then the interval, which a stop cuts short.
EndTick(p) ==
    /\ pc[p] = "each" /\ todo[p] = <<>>
    /\ pc' = [pc EXCEPT ![p] = "gate"]
    /\ UNCHANGED <<pidVars, todo, due, fileVars, now, gate, paused, ghostVars>>

Ending == ends < MaxEnds /\ ends' = ends + 1

\* SIGTERM or SIGINT, looked at where the gate is; and the end of `--once`.
Signalled(p) ==
    /\ pc[p] = "gate" /\ Ending
    /\ pc' = [pc EXCEPT ![p] = "leave"]
    /\ UNCHANGED <<pidVars, todo, due, fileVars, now, gate, paused, added, ledger, ops>>

Cleanup(p) ==
    /\ pc[p] = "leave"
    /\ Drop(p)
    /\ pc' = [pc EXCEPT ![p] = "off"]
    /\ UNCHANGED <<todo, due, fileVars, now, gate, paused, ghostVars>>

Crash(p) ==
    /\ Die(p) /\ Ending
    /\ pc' = [pc EXCEPT ![p] = "off"]
    /\ todo' = [todo EXCEPT ![p] = <<>>]
    /\ due' = [due EXCEPT ![p] = NoInstant]
    /\ UNCHANGED <<fileVars, now, gate, paused, added, ledger, ops>>

Daemon(p) ==
    \/ Enter(p) \/ Acquire(p) \/ LookAtGate(p) \/ StartTick(p) \/ PassOver(p)
    \/ Intend(p) \/ Send(p) \/ Fired(p) \/ Failed(p) \/ EndTick(p) \/ Cleanup(p)

-----------------------------------------------------------------------------
(* Whoever starts a daemon *)

Start(p) ==
    /\ Serve(p) \/ HookSpawns(p)
    /\ UNCHANGED <<loopVars, fileVars, now, gate, paused, ghostVars>>

\* ensureCommsProcesses honours a stop; an explicit serve does not.
AutoStart ==
    /\ \/ HookLooks /\ gate # "stop"
       \/ HookStamps
    /\ UNCHANGED <<loopVars, fileVars, now, gate, paused, ghostVars>>

-----------------------------------------------------------------------------
(* The operator *)

Operator == ops < MaxOps /\ ops' = ops + 1

\* agent scheduler stop, and agent stop --stage resume scheduler.
SetGate ==
    /\ Operator
    /\ gate' = IF gate = "stop" THEN "running" ELSE "stop"
    /\ UNCHANGED <<pidVars, loopVars, fileVars, now, paused, added, ledger, ends>>

SetStage ==
    /\ Operator
    /\ paused' = ~paused
    /\ UNCHANGED <<pidVars, loopVars, fileVars, now, gate, added, ledger, ends>>

\* addRoutine: an id that is in the file is refused; a past one-shot needs --force.
AddRoutine(id) ==
    /\ ~Listed(id) /\ added[id] < MaxAdds
    /\ \E plan \in Catalogue, enabled \in BOOLEAN :
          table' = [table EXCEPT ![id] = {[plan |-> plan, enabled |-> enabled]}]
    /\ added' = [added EXCEPT ![id] = @ + 1]
    /\ UNCHANGED <<pidVars, loopVars, marks, now, gate, paused, ledger, ops, ends>>

\* removeRoutine drops the state entry with the routine.
RemoveRoutine(id) ==
    /\ Operator /\ Listed(id)
    /\ MidTick \/ \A p \in Pids : pc[p] \in {"off", "gate", "leave"}
    /\ table' = [table EXCEPT ![id] = {}]
    /\ marks' = [marks EXCEPT ![id] = {}]
    /\ UNCHANGED <<pidVars, loopVars, now, gate, paused, added, ledger, ends>>

SetEnabled(id) ==
    /\ Operator /\ Listed(id)
    /\ table' = [table EXCEPT ![id] = {[RoutineOf(id) EXCEPT !.enabled = ~@]}]
    /\ UNCHANGED <<pidVars, loopVars, marks, now, gate, paused, added, ledger, ends>>

\* runNow: a manual fire leaves the markers as they are.
RunNow(id) ==
    /\ Operator /\ Listed(id)
    /\ Update(id, Entry(id))
    /\ UNCHANGED <<pidVars, loopVars, table, now, gate, paused, added, ledger, ends>>

\* Minutes pass.
Pass ==
    /\ now < MaxTime
    /\ now' = now + 1
    /\ UNCHANGED <<pidVars, loopVars, fileVars, gate, paused, ghostVars>>

Next ==
    \/ \E p \in Pids : Daemon(p) \/ Signalled(p) \/ Crash(p) \/ Start(p)
    \/ AutoStart \/ SetGate \/ SetStage \/ Pass
    \/ \E id \in Ids : AddRoutine(id) \/ RemoveRoutine(id) \/ SetEnabled(id) \/ RunNow(id)

Spec == Init /\ [][Next]_vars

\* A daemon that runs takes its steps; nobody has to start one or end one.
FairSpec == Spec /\ \A p \in Pids : WF_vars(Daemon(p))

-----------------------------------------------------------------------------
(* Properties *)

\* An occurrence of a routine gets one outcome: a task in the mailbox, a
\* recorded miss, or a recorded error - never two of them, and never two
\* tasks, whatever crashes, restarts, pauses, switches and slow sends lie
\* between two ticks (the markers of routines-state.json, stamped around the
\* send).
OneOutcome == \A o \in ledger : o.nth = 1

\* At most one process is in the scheduler's loop (the pid file; "exactly one
\* loop per repo can fire").
OneLoop == \A p, q \in Pids : Up(p) /\ Up(q) => p = q

\* Whatever the kind of a schedule and the time of the week and the month, what
\* the code computes as its last and its next occurrence are occurrences on
\* either side of the clock, with none in between (the bounded day-by-day scans
\* of weekly and cron schedules, the grid of `every` that starts over at
\* midnight).  It depends on no variable: it is looked at while the clock moves
\* and nobody has started a daemon or added a routine.
Untouched == hook = "idle" /\ ops = 0 /\ ends = 0 /\ \A p \in Pids : at[p] = "gone"
LastAndNextAdjacent ==
    Untouched => \A t \in SampleTimes : \A plan \in Catalogue \cup Samples : Adjacent(plan, t)

Owed(id) == Listed(id) /\ Verdict(RoutineOf(id), Entry(id), now) # "skip"
SomeoneUp == \E p \in Pids : Up(p)

\* As long as a loop runs, whatever is due is dealt with - fired, missed,
\* consumed by a pause, or given up after one error.
DueSettled == \A id \in Ids : Owed(id) ~> (~Owed(id) \/ ~SomeoneUp)
\* A requested stop ends the loop, unless somebody takes it back.
StopEnds == gate = "stop" ~> (gate = "running" \/ ~SomeoneUp)

=============================================================================
