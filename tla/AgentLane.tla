------------------------------ MODULE AgentLane ------------------------------
(***************************************************************************)
(* The lane of one agent (lib/agent-lifecycle): its mailbox of message     *)
(* files in inbox/{new,claimed,done}, its presence and control files, the  *)
(* delegate loop that wakes a headless session when there is mail, the     *)
(* verbs that session calls (claim, heartbeat, complete), the senders and  *)
(* the operator of `agent stop`.                                           *)
(*                                                                         *)
(* One step is one file operation, or the reads between two of them.  The  *)
(* delegate and the sessions are different processes that only meet in     *)
(* these files.  What a session does between two verbs is the model's to   *)
(* choose: it may forget a message, stop, crash or hit a usage limit.      *)
(***************************************************************************)
EXTENDS Naturals, FiniteSets

CONSTANTS
    Msgs,          \* task messages, each from another agent with a charter
    Wakes,         \* session ids of the children the delegate spawns
    Standbys,      \* session ids of interactively started sessions
    Delegate,      \* the session id of the delegate (dlg-<pid>-<ts>)
    RequeueLimit,  \* --requeue-limit
    MaxFailures,   \* MAX_CONSECUTIVE_FAILURES
    MaxQuota,      \* bound: usage-limit stalls
    MaxCrash,      \* bound: power cuts
    NoMsg, NoSession

Sessions == Wakes \cup Standbys

ASSUME LaneAssumption ==
    /\ RequeueLimit \in Nat /\ MaxFailures \in Nat \ {0}
    /\ MaxQuota \in Nat /\ MaxCrash \in Nat
    /\ NoMsg \notin Msgs
    /\ Wakes \cap Standbys = {}
    /\ Delegate \notin Sessions
    /\ NoSession \notin Sessions \cup {Delegate}

VARIABLES
    inbox,      \* for each folder and message, the file there: none or one
    replies,    \* auto-replies put in the sender's inbox, per message
    presence,   \* runtime/presence.json: its session, and within the TTL or not
    stage,      \* runtime/control.json
    pc,         \* where the delegate's loop is
    gate,       \* the control stage it read at the gate of this tick
    todo,       \* claims it has listed and not yet dealt with
    cur, held,  \* the claim it is dealing with, and the file it read
    counted,    \* does this requeue advance the counter?
    before,     \* pendingBeforeIds
    failures,   \* consecutive_failures
    paused,     \* is a quota pause recorded?
    child,      \* the wake it awaits
    outcome,    \* how the last wake ended
    at,         \* where each session is
    msg, copy,  \* the message it carries, and the file its verb has read
    claims,     \* how often each message was claimed
    excused,    \* how often each went back without being counted
    stalls, crashes   \* usage limits hit, power cuts

mailVars == <<inbox, replies>>
lineVars == <<presence, stage>>
localVars == <<gate, todo, cur, held, counted, before, failures, child, outcome>>
loopVars == <<pc, paused, localVars>>
sessionVars == <<at, msg, copy>>
countVars == <<claims, excused, stalls, crashes>>
vars == <<mailVars, lineVars, loopVars, sessionVars, countVars>>

Folders == {"new", "claimed", "done"}
Stages == {"running", "pause", "stop"}

\* A message file: its requeue counter, and the result it carries.
Letters == [count : Nat, result : {"none", "done", "failed"}]
Blank == [count |-> 0, result |-> "none"]

\* A folder holds at most one file per id: a set with no element or one.
Has(folder, m) == inbox[folder][m] # {}
Ids(folder) == {m \in Msgs : Has(folder, m)}

\* readMessage, with the `|| { id }` both of its callers put behind it.
ReadClaimed(m) == IF Has("claimed", m) THEN CHOOSE f \in inbox["claimed"][m] : TRUE ELSE Blank

Put(folder, m, file) == inbox' = [inbox EXCEPT ![folder][m] = {file}]

\* renameSync from one folder to another.
Move(m, from, to) ==
    inbox' = [inbox EXCEPT ![from][m] = {}, ![to][m] = inbox[from][m]]

Live(s) == at[s] # "off"

\* isForeignLiveSession: the id of a dead delegate names a dead pid.
Foreign(s) == presence.by \notin {s, NoSession} /\ presence.fresh
ForeignToDelegate == Foreign(Delegate)

Init ==
    /\ inbox = [f \in Folders |-> [m \in Msgs |-> {}]]
    /\ replies = [m \in Msgs |-> 0]
    /\ presence = [by |-> NoSession, fresh |-> FALSE]
    /\ stage = "running"
    /\ pc = "off" /\ gate = "running"
    /\ todo = {} /\ cur = NoMsg /\ held = Blank /\ counted = TRUE
    /\ before = {} /\ failures = 0 /\ paused = FALSE
    /\ child = NoSession /\ outcome = "ok"
    /\ at = [s \in Sessions |-> "off"]
    /\ msg = [s \in Sessions |-> NoMsg]
    /\ copy = [s \in Sessions |-> Blank]
    /\ claims = [m \in Msgs |-> 0] /\ excused = [m \in Msgs |-> 0]
    /\ stalls = 0 /\ crashes = 0

-----------------------------------------------------------------------------
(* Senders and the operator *)

\* `agent send`, a routine or the lane's own pacemaker: a new id each time.
Send(m) ==
    /\ \A f \in Folders : ~Has(f, m)
    /\ Put("new", m, Blank)
    /\ UNCHANGED <<replies, lineVars, loopVars, sessionVars, countVars>>

\* `agent stop --stage stop|pause|running`.
Control(st) ==
    /\ stage # st
    /\ stage' = st
    /\ UNCHANGED <<mailVars, presence, loopVars, sessionVars, countVars>>

-----------------------------------------------------------------------------
(* The delegate: startup, and the head of every tick *)

Goto(step) == pc' = step

\* What a process knows goes with it.  The failure counter is in a file, but
\* every generation begins by clearing it.
Forget ==
    /\ gate' = "running" /\ todo' = {} /\ cur' = NoMsg /\ held' = Blank /\ counted' = TRUE
    /\ before' = {} /\ failures' = 0 /\ child' = NoSession /\ outcome' = "ok"

\* The loop returns; `finally` removes the presence only if it is its own.
Exit ==
    /\ Goto("off")
    /\ Forget
    /\ presence' = IF presence.by = Delegate THEN [by |-> NoSession, fresh |-> FALSE] ELSE presence

\* A start that finds a live session returns at once.
Start ==
    /\ pc = "off"
    /\ ~ForeignToDelegate
    /\ Goto("check")
    /\ UNCHANGED <<mailVars, lineVars, localVars, paused, sessionVars, countVars>>

\* 1. Yield to a foreign live session.
CheckForeign ==
    /\ pc = "check"
    /\ IF ForeignToDelegate THEN Exit ELSE Goto("own") /\ UNCHANGED <<presence, localVars>>
    /\ UNCHANGED <<mailVars, stage, paused, sessionVars, countVars>>

\* 2. Own the presence while idle.
OwnPresence ==
    /\ pc = "own"
    /\ presence' = [by |-> Delegate, fresh |-> TRUE]
    /\ Goto("gate")
    /\ UNCHANGED <<mailVars, stage, localVars, paused, sessionVars, countVars>>

\* Fault: only a pause is looked for at the gate.
ControlGateNoStop ==
    /\ pc = "gate"
    /\ gate' = stage
    /\ Goto("list")
    /\ UNCHANGED <<mailVars, presence, todo, cur, stage, held, counted, before, failures, paused,
                   child, outcome, sessionVars, countVars>>

\* 4. The control gate.
ControlGate ==
    /\ pc = "gate"
    /\ \/ stage = "stop" /\ Exit
       \/ /\ stage # "stop"
          /\ gate' = stage
          /\ Goto("list")
          /\ UNCHANGED <<presence, todo, cur, held, counted, before, failures, child, outcome>>
    /\ UNCHANGED <<mailVars, stage, paused, sessionVars, countVars>>

-----------------------------------------------------------------------------
(* requeueOrphanedClaims, from the idle tick (counted) or after a quota stall *)

\* Fault: only a usage limit gives claims back.
ListClaimsOfStall ==
    /\ pc \in {"list", "giveback"}
    /\ counted' = (pc = "list")
    /\ todo' = IF pc = "list" THEN {} ELSE Ids("claimed")
    /\ Goto("recover")
    /\ UNCHANGED <<mailVars, lineVars, gate, cur, held, before, failures, paused,
                   child, outcome, sessionVars, countVars>>

\* Every file in claimed, in no order that matters.
ListClaims ==
    /\ pc \in {"list", "giveback"}
    /\ counted' = (pc = "list")
    /\ todo' = Ids("claimed")
    /\ Goto("recover")
    /\ UNCHANGED <<mailVars, lineVars, gate, cur, held, before, failures, paused,
                   child, outcome, sessionVars, countVars>>

RequeueRead(m) ==
    /\ pc = "recover"
    /\ m \in todo
    /\ cur' = m
    /\ held' = ReadClaimed(m)
    /\ Goto("stamp")
    /\ UNCHANGED <<mailVars, lineVars, gate, todo, counted, before, failures, paused,
                   child, outcome, sessionVars, countVars>>

\* Fault: the counter is compared before it is advanced.
RequeueStampEarly ==
    /\ pc = "stamp"
    /\ LET spent == counted /\ held.count + 2 > RequeueLimit
       IN  /\ Goto(IF spent THEN "failout" ELSE "back")
           /\ Put("claimed", cur, IF spent THEN [held EXCEPT !.result = "failed"]
                                           ELSE [held EXCEPT !.count = IF counted THEN @ + 1 ELSE @])
    /\ held' = Blank
    /\ UNCHANGED <<replies, lineVars, gate, todo, cur, counted, before, failures, paused,
                   child, outcome, sessionVars, countVars>>

\* The counter advances; past the limit the message is failed out instead.
\* Whatever else the file says stays in it (`...msg`).
RequeueStamp ==
    /\ pc = "stamp"
    /\ LET spent == counted /\ held.count + 1 > RequeueLimit
       IN  /\ Goto(IF spent THEN "failout" ELSE "back")
           /\ Put("claimed", cur, IF spent THEN [held EXCEPT !.result = "failed"]
                                           ELSE [held EXCEPT !.count = IF counted THEN @ + 1 ELSE @])
    /\ held' = Blank
    /\ UNCHANGED <<replies, lineVars, gate, todo, cur, counted, before, failures, paused,
                   child, outcome, sessionVars, countVars>>

\* The rename back to inbox/new.
RequeueMove ==
    /\ pc = "back"
    /\ Has("claimed", cur)
    /\ Move(cur, "claimed", "new")
    /\ excused' = IF counted THEN excused ELSE [excused EXCEPT ![cur] = @ + 1]
    /\ todo' = todo \ {cur} /\ cur' = NoMsg
    /\ Goto("recover")
    /\ UNCHANGED <<replies, lineVars, gate, held, counted, before, failures, paused,
                   child, outcome, sessionVars, claims, stalls, crashes>>

\* moveToDone of an abandoned message.
FailOutMove ==
    /\ pc = "failout"
    /\ Has("claimed", cur)
    /\ Move(cur, "claimed", "done")
    /\ Goto("tell")
    /\ UNCHANGED <<replies, lineVars, gate, todo, cur, held, counted, before, failures, paused,
                   child, outcome, sessionVars, countVars>>

\* autoReplyToSender.
FailOutReply ==
    /\ pc = "tell"
    /\ replies' = [replies EXCEPT ![cur] = @ + 1]
    /\ todo' = todo \ {cur} /\ cur' = NoMsg
    /\ Goto("recover")
    /\ UNCHANGED <<inbox, lineVars, gate, held, counted, before, failures, paused,
                   child, outcome, sessionVars, countVars>>

\* After a quota stall the pause is recorded and the loop goes round.
Recovered ==
    /\ pc = "recover"
    /\ todo = {}
    /\ paused' = (paused \/ ~counted)
    /\ counted' = TRUE
    /\ Goto(IF counted THEN "quota" ELSE "check")
    /\ UNCHANGED <<mailVars, lineVars, gate, todo, cur, held, before, failures,
                   child, outcome, sessionVars, countVars>>

-----------------------------------------------------------------------------
(* The rest of the tick: quota pause, pending mail, the wake and its outcome *)

\* 4d. While the pause is in force the lane wakes for nothing.
QuotaWait ==
    /\ pc = "quota"
    /\ paused
    /\ Goto("check")
    /\ UNCHANGED <<mailVars, lineVars, localVars, paused, sessionVars, countVars>>

QuotaOver ==
    /\ pc = "quota"
    /\ paused' = FALSE
    /\ Goto("pending")
    /\ UNCHANGED <<mailVars, lineVars, gate, todo, cur, held, counted, before, failures,
                   child, outcome, sessionVars, countVars>>

\* 5. Nothing to do, or settle before the wake.
Pending ==
    /\ pc = "pending"
    /\ before' = IF gate = "pause" THEN {} ELSE Ids("new")
    /\ gate' = "running"
    /\ Goto(IF before' = {} THEN "check" ELSE "settle")
    /\ UNCHANGED <<mailVars, lineVars, todo, cur, held, counted, failures, paused,
                   child, outcome, sessionVars, countVars>>

\* 5a. The burst has settled: control is read again, and the mail listed again.
Settle ==
    /\ pc = "settle"
    /\ \/ stage = "stop" /\ Exit
       \/ /\ stage # "stop"
          /\ before' = Ids("new")
          /\ Goto(IF before' = {} THEN "check" ELSE "release")
          /\ UNCHANGED <<presence, gate, todo, cur, held, counted, failures, child, outcome>>
    /\ UNCHANGED <<mailVars, stage, paused, sessionVars, countVars>>

\* The session that is about to be woken is to own the presence.
ReleasePresence ==
    /\ pc = "release"
    /\ presence' = [by |-> NoSession, fresh |-> FALSE]
    /\ Goto("spawn")
    /\ UNCHANGED <<mailVars, stage, localVars, paused, sessionVars, countVars>>

SpawnWake(w) ==
    /\ pc = "spawn"
    /\ ~Live(w)
    /\ at' = [at EXCEPT ![w] = "idle"]
    /\ child' = w
    /\ Goto("await")
    /\ UNCHANGED <<mailVars, lineVars, gate, todo, cur, held, counted, before, failures, paused,
                   outcome, msg, copy, countVars>>

SpawnError ==
    /\ pc = "spawn"
    /\ outcome' = "failed"
    /\ Goto("reclaim")
    /\ UNCHANGED <<mailVars, lineVars, gate, todo, cur, held, counted, before, failures, paused,
                   child, sessionVars, countVars>>

\* Fault: the kill timer resolves the wake without waiting for the child to exit.
WakeOverEarly ==
    /\ pc = "await"
    /\ child' = NoSession
    /\ Goto("reclaim")
    /\ UNCHANGED <<mailVars, lineVars, gate, todo, cur, held, counted, before, failures, paused,
                   outcome, sessionVars, countVars>>

\* runWakeSession resolves on the child's exit.
WakeOver ==
    /\ pc = "await"
    /\ ~Live(child)
    /\ child' = NoSession
    /\ Goto("reclaim")
    /\ UNCHANGED <<mailVars, lineVars, gate, todo, cur, held, counted, before, failures, paused,
                   outcome, sessionVars, countVars>>

\* "the child is gone; its last heartbeat is history": whoever's file is there
\* is overwritten.
ReclaimPresence ==
    /\ pc = "reclaim"
    /\ presence' = [by |-> Delegate, fresh |-> TRUE]
    /\ Goto("judge")
    /\ UNCHANGED <<mailVars, stage, localVars, paused, sessionVars, countVars>>

\* computeProgress: the mail of before that is no longer in new.
Drained == before \ Ids("new")

JudgeStop ==
    /\ pc = "judge"
    /\ stage = "stop"
    /\ Exit
    /\ UNCHANGED <<mailVars, stage, paused, sessionVars, countVars>>

\* classifyWakeStall: the mail goes back without losing an attempt.
JudgeQuota ==
    /\ pc = "judge"
    /\ stage # "stop"
    /\ outcome = "quota"
    /\ before' = {} /\ outcome' = "ok"
    /\ Goto("giveback")
    /\ UNCHANGED <<mailVars, lineVars, gate, todo, cur, held, counted, failures, paused, child,
                   sessionVars, countVars>>

JudgeProgress ==
    /\ pc = "judge"
    /\ stage # "stop"
    /\ outcome = "ok" /\ Drained # {}
    /\ failures' = 0
    /\ before' = {}
    /\ Goto("check")
    /\ UNCHANGED <<mailVars, lineVars, gate, todo, cur, held, counted, paused, child, outcome,
                   sessionVars, countVars>>

\* Fault: the loop never gives up.
JudgeFailureEndless ==
    /\ pc = "judge"
    /\ stage # "stop"
    /\ outcome = "failed" \/ (outcome = "ok" /\ Drained = {})
    /\ failures' = failures + 1
    /\ before' = {} /\ outcome' = "ok"
    /\ Goto("check")
    /\ UNCHANGED <<mailVars, lineVars, gate, todo, cur, held, counted, paused, child,
                   sessionVars, countVars>>

JudgeFailure ==
    /\ pc = "judge"
    /\ stage # "stop"
    /\ outcome = "failed" \/ (outcome = "ok" /\ Drained = {})
    /\ failures + 1 < MaxFailures
    /\ failures' = failures + 1
    /\ before' = {} /\ outcome' = "ok"
    /\ Goto("check")
    /\ UNCHANGED <<mailVars, lineVars, gate, todo, cur, held, counted, paused, child,
                   sessionVars, countVars>>

\* The last failure this generation tolerates ends it.
JudgeLastFailure ==
    /\ pc = "judge"
    /\ stage # "stop"
    /\ outcome = "failed" \/ (outcome = "ok" /\ Drained = {})
    /\ failures + 1 >= MaxFailures
    /\ Exit
    /\ UNCHANGED <<mailVars, stage, paused, sessionVars, countVars>>

-----------------------------------------------------------------------------
(* A session: agent heartbeat, agent claim, agent complete *)

To(s, step) == at' = [at EXCEPT ![s] = step]

\* Between two verbs a session has a message in work or it has none.
Between(s) == at[s] \in {"idle", "working"}
Resting(s) == IF msg[s] = NoMsg THEN "idle" ELSE "working"

\* agent heartbeat (agent wait begins likewise): no foreign live session was found.
Beat(s) ==
    /\ Between(s)
    /\ ~Foreign(s)
    /\ To(s, "beating")
    /\ UNCHANGED <<mailVars, lineVars, loopVars, msg, copy, countVars>>

BeatWrite(s) ==
    /\ at[s] = "beating"
    /\ presence' = [by |-> s, fresh |-> TRUE]
    /\ To(s, Resting(s))
    /\ UNCHANGED <<mailVars, stage, loopVars, msg, copy, countVars>>

\* claimRename: the rename decides between racing claimants.
ClaimRename(s, m) ==
    /\ at[s] = "idle"
    /\ Has("new", m)
    /\ Move(m, "new", "claimed")
    /\ msg' = [msg EXCEPT ![s] = m]
    /\ claims' = [claims EXCEPT ![m] = @ + 1]
    /\ To(s, "renamed")
    /\ UNCHANGED <<replies, lineVars, loopVars, copy, excused, stalls, crashes>>

ClaimRead(s) ==
    /\ at[s] = "renamed"
    /\ copy' = [copy EXCEPT ![s] = ReadClaimed(msg[s])]
    /\ To(s, "stamping")
    /\ UNCHANGED <<mailVars, lineVars, loopVars, msg, countVars>>

\* Fault: the claim is stamped on a fresh message, the requeue counter lost.
ClaimStampFresh(s) ==
    /\ at[s] = "stamping"
    /\ Put("claimed", msg[s], Blank)
    /\ copy' = [copy EXCEPT ![s] = Blank]
    /\ To(s, "working")
    /\ UNCHANGED <<replies, lineVars, loopVars, msg, countVars>>

\* The claim stamp names the session; no later step reads it.
ClaimStamp(s) ==
    /\ at[s] = "stamping"
    /\ Put("claimed", msg[s], copy[s])
    /\ copy' = [copy EXCEPT ![s] = Blank]
    /\ To(s, "working")
    /\ UNCHANGED <<replies, lineVars, loopVars, msg, countVars>>

\* agent complete; it does not ask who claimed the message.
CompleteRead(s) ==
    /\ at[s] = "working"
    /\ Has("claimed", msg[s])
    /\ copy' = [copy EXCEPT ![s] = ReadClaimed(msg[s])]
    /\ To(s, "finishing")
    /\ UNCHANGED <<mailVars, lineVars, loopVars, msg, countVars>>

\* Fault: the sender is told before the message is moved.
CompleteWriteTells(s) ==
    /\ at[s] = "finishing"
    /\ Put("claimed", msg[s], [copy[s] EXCEPT !.result = "done"])
    /\ replies' = [replies EXCEPT ![msg[s]] = @ + 1]
    /\ copy' = [copy EXCEPT ![s] = Blank]
    /\ To(s, "moving")
    /\ UNCHANGED <<lineVars, loopVars, msg, countVars>>

CompleteWrite(s) ==
    /\ at[s] = "finishing"
    /\ Put("claimed", msg[s], [copy[s] EXCEPT !.result = "done"])
    /\ copy' = [copy EXCEPT ![s] = Blank]
    /\ To(s, "moving")
    /\ UNCHANGED <<replies, lineVars, loopVars, msg, countVars>>

\* Fault: the result is written to done and the claimed file is left behind.
CompleteMoveCopies(s) ==
    /\ at[s] = "moving"
    /\ Has("claimed", msg[s])
    /\ inbox' = [inbox EXCEPT !["done"][msg[s]] = inbox["claimed"][msg[s]]]
    /\ To(s, "replying")
    /\ UNCHANGED <<replies, lineVars, loopVars, msg, copy, countVars>>

CompleteMove(s) ==
    /\ at[s] = "moving"
    /\ Has("claimed", msg[s])
    /\ Move(msg[s], "claimed", "done")
    /\ To(s, "replying")
    /\ UNCHANGED <<replies, lineVars, loopVars, msg, copy, countVars>>

\* The auto-reply, unless --no-reply.
CompleteReply(s, n) ==
    /\ at[s] = "replying"
    /\ replies' = [replies EXCEPT ![msg[s]] = @ + n]
    /\ msg' = [msg EXCEPT ![s] = NoMsg]
    /\ To(s, "idle")
    /\ UNCHANGED <<inbox, lineVars, loopVars, copy, countVars>>

\* The session drops what it is doing and does not say so.
Abandon(s) ==
    /\ at[s] = "working"
    /\ msg' = [msg EXCEPT ![s] = NoMsg]
    /\ To(s, "idle")
    /\ UNCHANGED <<mailVars, lineVars, loopVars, copy, countVars>>

\* The session is gone, at any step unless it ends of its own accord.
End(s, how) ==
    /\ Live(s)
    /\ how = "ok" => Between(s)
    /\ how = "quota" => stalls < MaxQuota
    /\ stalls' = IF how = "quota" THEN stalls + 1 ELSE stalls
    /\ outcome' = IF s = child THEN how ELSE outcome
    /\ msg' = [msg EXCEPT ![s] = NoMsg]
    /\ copy' = [copy EXCEPT ![s] = Blank]
    /\ To(s, "off")
    /\ UNCHANGED <<mailVars, lineVars, pc, gate, todo, cur, held, counted, before, failures,
                   paused, child, claims, excused, crashes>>

-----------------------------------------------------------------------------
(* Time and accidents *)

\* A heartbeat of a session grows older than PRESENCE_TTL_MS.
PresenceExpires ==
    /\ presence.by \in Sessions
    /\ presence.fresh
    /\ presence' = [presence EXCEPT !.fresh = FALSE]
    /\ UNCHANGED <<mailVars, stage, loopVars, sessionVars, countVars>>

\* Every process of the machine is gone; the files are what they were.
PowerCut ==
    /\ crashes < MaxCrash
    /\ crashes' = crashes + 1
    /\ Goto("off")
    /\ Forget
    /\ at' = [s \in Sessions |-> "off"]
    /\ msg' = [s \in Sessions |-> NoMsg]
    /\ copy' = [s \in Sessions |-> Blank]
    /\ UNCHANGED <<mailVars, lineVars, paused, claims, excused, stalls>>

-----------------------------------------------------------------------------
Recovery ==
    \/ ListClaims \/ RequeueStamp \/ RequeueMove \/ FailOutMove \/ FailOutReply \/ Recovered
    \/ \E m \in Msgs : RequeueRead(m)

Tick ==
    \/ CheckForeign \/ OwnPresence \/ ControlGate \/ Recovery
    \/ QuotaWait \/ QuotaOver \/ Pending \/ Settle
    \/ ReleasePresence \/ SpawnError \/ \E w \in Wakes : SpawnWake(w)
    \/ WakeOver \/ ReclaimPresence
    \/ JudgeStop \/ JudgeQuota \/ JudgeProgress \/ JudgeFailure \/ JudgeLastFailure

Verb(s) ==
    \/ Beat(s) \/ BeatWrite(s)
    \/ ClaimRead(s) \/ ClaimStamp(s) \/ \E m \in Msgs : ClaimRename(s, m)
    \/ CompleteRead(s) \/ CompleteWrite(s) \/ CompleteMove(s)
    \/ \E n \in {0, 1} : CompleteReply(s, n)

Session(s) == Verb(s) \/ Abandon(s) \/ \E how \in {"ok", "failed", "quota"} : End(s, how)

\* The lane as it is meant to run: its delegate, and the wakes it spawns.
Next ==
    \/ Start \/ Tick
    \/ \E w \in Wakes : Session(w)
    \/ \E m \in Msgs : Send(m)
    \/ \E st \in Stages : Control(st)
    \/ PresenceExpires \/ PowerCut

Spec == Init /\ [][Next]_vars

\* The loop goes on by itself and its supervisor restarts it; a wake that does
\* not end is killed (--max-runtime, or the control ticker); heartbeats age.
LaneFairness ==
    /\ WF_vars(Start) /\ WF_vars(Tick) /\ WF_vars(PresenceExpires)
    /\ \A w \in Wakes : WF_vars(End(w, "failed"))

FairSpec == Spec /\ LaneFairness

-----------------------------------------------------------------------------
LaneTypeOK ==
    /\ inbox \in [Folders -> [Msgs -> SUBSET Letters]]
    /\ \A f \in Folders, m \in Msgs : Cardinality(inbox[f][m]) <= 1
    /\ replies \in [Msgs -> Nat]
    /\ presence \in [by : Sessions \cup {Delegate, NoSession}, fresh : BOOLEAN]
    /\ stage \in Stages /\ gate \in Stages
    /\ pc \in {"off", "check", "own", "gate", "list", "giveback", "recover", "stamp", "back",
               "failout", "tell", "quota", "pending", "settle", "release", "spawn", "await",
               "reclaim", "judge"}
    /\ todo \subseteq Msgs /\ before \subseteq Msgs
    /\ cur \in Msgs \cup {NoMsg} /\ held \in Letters
    /\ counted \in BOOLEAN /\ paused \in BOOLEAN
    /\ failures \in 0..MaxFailures
    /\ child \in Wakes \cup {NoSession} /\ outcome \in {"ok", "failed", "quota"}
    /\ at \in [Sessions -> {"off", "idle", "beating", "renamed", "stamping", "working",
                            "finishing", "moving", "replying", "waiting", "owning", "polling"}]
    /\ msg \in [Sessions -> Msgs \cup {NoMsg}]
    /\ copy \in [Sessions -> Letters]
    /\ claims \in [Msgs -> Nat] /\ excused \in [Msgs -> Nat]
    /\ stalls \in 0..MaxQuota /\ crashes \in 0..MaxCrash

\* A message is in one folder, however the steps of its claim, its completion
\* and its requeue interleave and wherever they are cut off.
InOneFolder ==
    \A m \in Msgs : Cardinality({f \in Folders : Has(f, m)}) <= 1

\* "every claim still sitting in claimed/ belongs to a dead session"
\* (requeueOrphanedClaims): what the delegate is taking back, no live session
\* has in work.
OrphansOnly ==
    \A m \in todo, s \in Sessions : ~(Live(s) /\ msg[s] = m)

\* A poison message does not wedge the loop: it is executed at most
\* RequeueLimit + 1 times, stalls on a usage limit not counted.
PoisonBounded ==
    \A m \in Msgs : claims[m] <= RequeueLimit + 1 + excused[m]

\* A message is only given up for having been claimed more than RequeueLimit
\* times in vain (a power cut inside the requeue may count one of them twice).
FailOutEarned ==
    \A m \in Msgs : (\E f \in inbox["done"][m] : f.result = "failed")
                        => claims[m] + crashes > RequeueLimit + excused[m]

\* The sender hears once at most, and nothing is redone after it has heard.
OneReply ==
    \A m \in Msgs : replies[m] > 0 => replies[m] = 1 /\ Has("done", m)
                                        /\ ~Has("new", m) /\ ~Has("claimed", m)

\* `agent stop` ends the lane: loop and wakes.
StopHonoured ==
    stage = "stop" ~> (stage # "stop" \/ (pc = "off" /\ \A s \in Sessions : ~Live(s)))

\* An interrupted assignment is not stranded in claimed/, whatever cut it off.
ClaimsRecovered ==
    \A m \in Msgs : Has("claimed", m) ~> (~Has("claimed", m) \/ stage = "stop")

=============================================================================
