---------------------------- MODULE PlanContest -----------------------------
(***************************************************************************)
(* The planning phase of a goal run with --contest                         *)
(* (lib/goal-lifecycle/plan.mjs, contest.mjs, jobs.mjs and the planning    *)
(* branch of resume.mjs): contestants in parallel, one judge per candidate,*)
(* one synthesis pass, then the critique loop - and what a resume does with*)
(* the ledger and the artifacts of a run whose engine died.                *)
(*                                                                         *)
(* One step of the engine is one write of run.json or of one artifact, or  *)
(* the start or the end of a session.  Sessions are detached: they outlive *)
(* the engine, and their answer is lost with it.  Only the engine writes,  *)
(* from the one copy of the state it holds, so run.json is that copy.      *)
(***************************************************************************)
EXTENDS Naturals, FiniteSets

CONSTANTS
    Seats,          \* eligible families, by routing priority: 1 .. n
    Hosts, NoHost,
    Scores,         \* totals a judge may give
    MaxMishaps,     \* bound: deaths of the engine, blocked runs taken up
                    \* again, artifacts that vanish
    GapCrash        \* may the engine die between a spawn and its record?

ASSUME ContestAssumption ==
    /\ Seats \subseteq Nat /\ IsFiniteSet(Seats) /\ Cardinality(Seats) >= 2
    /\ Scores \subseteq Nat \ {0}
    /\ Hosts # {} /\ NoHost \notin Hosts
    /\ MaxMishaps \in Nat
    /\ GapCrash \in BOOLEAN

MAX_JOB_RETRIES == 1
MAX_CRITIQUE_PASSES == 2
MIN_CONTEST_FAMILIES == 2

VARIABLES
    phase,      \* run.json: planning, plan_review, needs_user, awaiting_approval
    planned,    \* run.json: the plan whose digest is recorded
    passes,     \* run.json: planning.critique_passes
    jobs,       \* run.json: the ledger, per job none or one record
    files,      \* plan-candidates/ and contest/: what the artifacts hold
    lease,      \* run.lock: the host of its owner
    engine,     \* the live engine: its host, whether it resumes, its stage
    at,         \* per job: where the engine is with it
    answer,     \* per job: what its session gave
    field,      \* per seat: the candidate the engine holds
    score,      \* per seat: the score the engine holds
    live,       \* sessions that run, whoever waits for them
    opened,     \* per job: sessions opened so far
    mishaps,    \* deaths, returns and losses so far
    lost        \* of these, losses

memVars == <<at, answer, field, score>>
vars == <<phase, planned, passes, jobs, files, lease, engine, memVars, live, opened, mishaps, lost>>

(* jobId *)
Contestant(f) == [kind |-> "contestant", key |-> f]
Judge(f) == [kind |-> "judge", key |-> f]
Synthesis == [kind |-> "synthesis", key |-> 0]

Contestants == {Contestant(f) : f \in Seats}
Judges == {Judge(f) : f \in Seats}
Jobs == Contestants \cup Judges \cup {Synthesis}

\* A plan is named by where it comes from.
NoPlan == [by |-> "nobody"]
Disqualified == [by |-> "disqualified"]
CandidatePlan(f, n) == [by |-> "seat", seat |-> f, nth |-> n]
Grafted(base) == [by |-> "synthesis", base |-> base]
SinglePlan == [by |-> "single"]
Corrected(n) == [by |-> "correction", nth |-> n]
MaxSessions == 1 + MaxMishaps   \* one per engine
Candidates == {CandidatePlan(f, n) : f \in Seats, n \in 1 .. MaxSessions}
Plans == Candidates \cup {Grafted(p) : p \in Candidates} \cup {SinglePlan}
            \cup {Corrected(n) : n \in 1 .. MAX_CRITIQUE_PASSES}

Unscored == 0
NoVerdict == [score |-> Unscored, of |-> NoPlan]

Down == [host |-> NoHost, resuming |-> FALSE, stage |-> "down"]
Up == engine.host # NoHost

-----------------------------------------------------------------------------
(* The ledger (jobs.mjs) *)

Terminal == {"completed", "failed", "disqualified"}
Substates == {"pending", "dispatched", "running"} \cup Terminal

NoSession == [job |-> Synthesis, nth |-> 0, host |-> NoHost]
Sessions == [job : Jobs, nth : 1 .. MaxSessions, host : Hosts]
Records == [substate : Substates, child : Sessions \cup {NoSession},
            retries : 0 .. MAX_JOB_RETRIES, retryable : BOOLEAN]

Declared(j) == jobs[j] # {}
Record(j) == CHOOSE r \in jobs[j] : TRUE
Set(j, r) == jobs' = [jobs EXCEPT ![j] = {r}]

Pending == [substate |-> "pending", child |-> NoSession, retries |-> 0, retryable |-> FALSE]

\* declareJobs: a record that is there stays.
Declare(js) ==
    jobs' = [j \in Jobs |-> IF j \in js /\ ~Declared(j) THEN {Pending} ELSE jobs[j]]

MarkDispatched(j, child) ==
    Set(j, [Record(j) EXCEPT !.substate = "dispatched", !.child = child])

MarkRunning(j) ==
    Set(j, [Record(j) EXCEPT !.substate = IF @ = "dispatched" THEN "running" ELSE @])

MarkTerminal(j, how) == Set(j, [Record(j) EXCEPT !.substate = how])

MarkUnverifiable(r) ==
    [r EXCEPT !.substate = "failed", !.retryable = r.retries < MAX_JOB_RETRIES]

\* Fault: the budget is not looked at.
MaySpendRetryFault(j) == Declared(j)

MaySpendRetry(j) == Record(j).retries < MAX_JOB_RETRIES

\* Fault: the retry is granted and not charged.
SpendRetryFault(j) == Set(j, [Pending EXCEPT !.retries = Record(j).retries])

\* spendRetry, when it is granted: the record is wiped clean.
SpendRetry(j) == Set(j, [Pending EXCEPT !.retries = Record(j).retries + 1])

\* Fault: a completed job is not told from a failed one.
FoldsFault(j) ==
    /\ Declared(j) /\ Record(j).substate \in Terminal
    /\ ~MaySpendRetry(j)

\* resumeDisposition: fold or dispatch.  (A job to observe has stopped the
\* resume before the engine looks at it.)
Folds(j) ==
    /\ Declared(j) /\ Record(j).substate \in Terminal
    /\ ~(Record(j).retryable /\ MaySpendRetry(j))

Unfinished == {j \in Jobs : Declared(j) /\ Record(j).substate \notin Terminal}

\* Fault: the pid of another host is looked for on this one.
VerdictFault(j, h) ==
    CASE Record(j).substate = "pending" -> "never-dispatched"
      [] OTHER -> IF Record(j).child \in live /\ Record(j).child.host = h THEN "live" ELSE "dead"

\* classifyPlanningJobs, on host h
Verdict(j, h) ==
    CASE Record(j).substate = "pending" -> "never-dispatched"
      [] Record(j).child.host # h -> "unknown"
      [] OTHER -> IF Record(j).child \in live THEN "live" ELSE "dead"

-----------------------------------------------------------------------------
(* The artifacts, and what is folded from them *)

NoFiles ==
    [plan |-> [f \in Seats |-> NoPlan],        \* plan-candidates/<f>/plan.json
     candidate |-> [f \in Seats |-> NoPlan],   \* .../candidate.json: its digest, or why not
     verdict |-> [f \in Seats |-> NoVerdict],  \* .../judge-verdict.json
     decisions |-> "none",                     \* contest/synthesis-decisions.json
     grafted |-> NoPlan]                       \* contest/synthesis-plan.json

\* Fault: accepted decisions are folded without the plan they made.
StoredFault(j) ==
    CASE j \in Contestants -> \/ files.candidate[j.key] = Disqualified
                              \/ files.candidate[j.key] # NoPlan /\ files.plan[j.key] # NoPlan
      [] j \in Judges -> files.verdict[j.key] # NoVerdict
      [] OTHER -> files.decisions # "none"

\* foldCandidate, the verdict file, foldSynthesis: is there something to fold?
Stored(j) ==
    CASE j \in Contestants -> \/ files.candidate[j.key] = Disqualified
                              \/ files.candidate[j.key] # NoPlan /\ files.plan[j.key] # NoPlan
      [] j \in Judges -> files.verdict[j.key] # NoVerdict
      [] OTHER -> \/ files.decisions = "rejected"
                  \/ files.decisions = "accepted" /\ files.grafted # NoPlan

PlanTypeOK ==
    /\ phase \in {"planning", "plan_review", "needs_user", "awaiting_approval"}
    /\ planned \in Plans \cup {NoPlan}
    /\ passes \in 0 .. MAX_CRITIQUE_PASSES
    /\ \A j \in Jobs : jobs[j] \subseteq Records /\ Cardinality(jobs[j]) <= 1
    /\ files.plan \in [Seats -> Candidates \cup {NoPlan}]
    /\ files.candidate \in [Seats -> Candidates \cup {NoPlan, Disqualified}]
    /\ lease \in Hosts \cup {NoHost}
    /\ Up => lease = engine.host
    /\ at \in [Jobs -> {"idle", "open", "asked", "waits", "answered", "kept", "written", "over"}]
    /\ field \in [Seats -> Candidates \cup {NoPlan, Disqualified}]
    /\ score \in [Seats -> Scores \cup {Unscored}]
    /\ live \subseteq Sessions
    /\ mishaps \in 0 .. MaxMishaps /\ lost \in 0 .. mishaps

Start(h, resuming) ==
    [host |-> h, resuming |-> resuming, stage |-> "declare"]

Init ==
    /\ phase = "planning" /\ planned = NoPlan /\ passes = 0
    /\ jobs = [j \in Jobs |-> {}]
    /\ files = NoFiles
    /\ LET h == CHOOSE x \in Hosts : TRUE   \* whichever host it is
       IN  lease = h /\ engine = Start(h, FALSE)
    /\ at = [j \in Jobs |-> "idle"]
    /\ answer = [j \in Jobs |-> "none"]
    /\ field = [f \in Seats |-> NoPlan]
    /\ score = [f \in Seats |-> Unscored]
    /\ live = {}
    /\ opened = [j \in Jobs |-> 0]
    /\ mishaps = 0 /\ lost = 0

-----------------------------------------------------------------------------
(* One job, from the ledger's answer to its settlement *)

Survivors == {f \in Seats : field[f] \notin {NoPlan, Disqualified}}

StageJobs ==
    CASE engine.stage = "contest" -> Contestants
      [] engine.stage = "judge" -> {Judge(f) : f \in Survivors}
      [] engine.stage = "synthesis" -> {Synthesis}
      [] OTHER -> {}

Goto(j, place) == at' = [at EXCEPT ![j] = place]

\* What the engine holds of a job it does not run: the artifact, or nothing.
Hold(j) ==
    /\ field' = IF j \in Contestants
                THEN [field EXCEPT ![j.key] = IF files.candidate[j.key] = Disqualified
                                              THEN Disqualified ELSE files.plan[j.key]]
                ELSE field
    /\ score' = IF j \in Judges THEN [score EXCEPT ![j.key] = files.verdict[j.key].score] ELSE score
    /\ answer' = [answer EXCEPT ![j] = IF j = Synthesis /\ files.decisions = "accepted"
                                       THEN "good" ELSE @]

\* An artifact that says why there is none.
HoldNothing(j) ==
    /\ field' = IF j \in Contestants THEN [field EXCEPT ![j.key] = Disqualified] ELSE field
    /\ files' = CASE j \in Contestants -> [files EXCEPT !.candidate[j.key] = Disqualified]
                  [] j \in Judges -> [files EXCEPT !.verdict[j.key] =
                                            [score |-> Unscored, of |-> field[j.key]]]
                  [] OTHER -> files
    /\ UNCHANGED <<score, answer>>

\* Fresh: dispatch.  Resumed: what the ledger says, a retry being charged here.
Enter(j) ==
    /\ j \in StageJobs /\ at[j] = "idle"
    /\ \/ /\ ~(engine.resuming /\ Folds(j))
          /\ IF engine.resuming /\ Record(j).retryable THEN SpendRetry(j) ELSE UNCHANGED jobs
          /\ Goto(j, "open")
          /\ UNCHANGED <<files, answer, field, score>>
       \/ /\ engine.resuming /\ Folds(j) /\ Stored(j)
          /\ Hold(j)
          /\ Goto(j, "over")
          /\ UNCHANGED <<jobs, files>>
       \/ /\ engine.resuming /\ Folds(j) /\ ~Stored(j) /\ MaySpendRetry(j)
          /\ SpendRetry(j)
          /\ Goto(j, "open")
          /\ UNCHANGED <<files, answer, field, score>>
       \/ /\ engine.resuming /\ Folds(j) /\ ~Stored(j) /\ ~MaySpendRetry(j)
          /\ HoldNothing(j)
          /\ Goto(j, "over")
          /\ UNCHANGED jobs
    /\ UNCHANGED <<phase, planned, passes, lease, engine, live, opened, mishaps, lost>>

Session(j) == [job |-> j, nth |-> opened[j], host |-> engine.host]

\* invokeExecutor: a session is spawned, or the call throws.
Open(j) ==
    /\ at[j] = "open"
    /\ \/ /\ opened' = [opened EXCEPT ![j] = @ + 1]
          /\ live' = live \cup {[Session(j) EXCEPT !.nth = opened[j] + 1]}
          /\ Goto(j, "asked")
          /\ UNCHANGED answer
       \/ /\ answer' = [answer EXCEPT ![j] = "threw"]
          /\ Goto(j, "answered")
          /\ UNCHANGED <<opened, live>>
    /\ UNCHANGED <<phase, planned, passes, jobs, files, lease, engine, field, score, mishaps, lost>>

\* onSpawn
Dispatch(j) ==
    /\ at[j] = "asked"
    /\ MarkDispatched(j, Session(j))
    /\ Goto(j, "waits")
    /\ UNCHANGED <<phase, planned, passes, files, lease, engine, answer, field, score, live,
                   opened, mishaps, lost>>

\* The session ends, by itself or by the timeout, and the engine hears of it.
Answer(j) ==
    /\ at[j] = "waits"
    /\ live' = live \ {Session(j)}
    /\ \E a \in {"good", "bad"} : answer' = [answer EXCEPT ![j] = a]
    /\ IF j = Synthesis THEN UNCHANGED jobs ELSE MarkRunning(j)
    /\ Goto(j, "answered")
    /\ UNCHANGED <<phase, planned, passes, files, lease, engine, field, score, opened, mishaps, lost>>

KeepPlan(f) ==
    LET j == Contestant(f) IN
    /\ at[j] = "answered" /\ answer[j] = "good"
    /\ files' = [files EXCEPT !.plan[f] = CandidatePlan(f, opened[j])]
    /\ Goto(j, "kept")
    /\ UNCHANGED field

KeepCandidate(f) ==
    LET j == Contestant(f) IN
    /\ \/ /\ at[j] = "kept"
          /\ field' = [field EXCEPT ![f] = files.plan[f]]
       \/ /\ at[j] = "answered" /\ answer[j] # "good"
          /\ field' = [field EXCEPT ![f] = Disqualified]
    /\ files' = [files EXCEPT !.candidate[f] = field'[f]]
    /\ Goto(j, "written")

KeepVerdict(f) ==
    LET j == Judge(f) IN
    /\ at[j] = "answered"
    /\ \E s \in IF answer[j] = "good" THEN Scores ELSE {Unscored} :
          /\ score' = [score EXCEPT ![f] = s]
          /\ files' = [files EXCEPT !.verdict[f] = [score |-> s, of |-> field[f]]]
    /\ Goto(j, "written")

\* rankCandidates: by score, then by routing priority.
Ranked(f, g) == score[f] > score[g] \/ (score[f] = score[g] /\ f <= g)
Winner == CHOOSE f \in Survivors : \A g \in Survivors : Ranked(f, g)

\* synthesize: the decisions, then the plan they made; a call that throws
\* leaves neither.
KeepDecisions ==
    /\ at[Synthesis] = "answered"
    /\ files' = CASE answer[Synthesis] = "good" -> [files EXCEPT !.decisions = "accepted"]
                  [] answer[Synthesis] = "bad" -> [files EXCEPT !.decisions = "rejected"]
                  [] OTHER -> files
    /\ Goto(Synthesis, IF answer[Synthesis] = "good" THEN "kept" ELSE "written")

KeepGrafted ==
    /\ at[Synthesis] = "kept"
    /\ files' = [files EXCEPT !.grafted = Grafted(field[Winner])]
    /\ Goto(Synthesis, "written")

Keep ==
    /\ \/ \E f \in Seats : KeepPlan(f) /\ UNCHANGED score
       \/ \E f \in Seats : KeepCandidate(f) /\ UNCHANGED score
       \/ \E f \in Seats : KeepVerdict(f) /\ UNCHANGED field
       \/ (KeepDecisions \/ KeepGrafted) /\ UNCHANGED <<field, score>>
    /\ UNCHANGED <<phase, planned, passes, jobs, lease, engine, answer, live, opened, mishaps, lost>>

\* Fault: a session that threw is left to whoever comes next.
SettleFault(j) ==
    /\ at[j] = "written" /\ answer[j] # "threw"
    /\ MarkTerminal(j, IF answer[j] = "good" THEN "completed" ELSE "failed")
    /\ Goto(j, "over")
    /\ UNCHANGED <<phase, planned, passes, files, lease, engine, answer, field, score, live,
                   opened, mishaps, lost>>

Settle(j) ==
    /\ at[j] = "written"
    /\ MarkTerminal(j, CASE answer[j] = "good" -> "completed"
                         [] answer[j] = "bad" /\ j \in Contestants -> "disqualified"
                         [] OTHER -> "failed")
    /\ Goto(j, "over")
    /\ UNCHANGED <<phase, planned, passes, files, lease, engine, answer, field, score, live,
                   opened, mishaps, lost>>

-----------------------------------------------------------------------------
(* runContest, from stage to stage; finishPlanning *)

Stage(s) == engine' = [engine EXCEPT !.stage = s]

\* toPlanReview
Offer(plan) ==
    /\ phase' = "plan_review" /\ planned' = plan
    /\ Stage("review")
    /\ UNCHANGED <<jobs, lease>>

\* The end of the verb: the phase, then the lease given back.
End(p) ==
    /\ phase' = p
    /\ engine' = Down /\ lease' = NoHost

DeclareContestants ==
    /\ engine.stage = "declare"
    /\ Declare(Contestants)
    /\ Stage("contest")
    /\ UNCHANGED <<phase, planned, lease>>

StageOver == \A j \in StageJobs : at[j] = "over"

\* Fewer than two to compare: the one plan there is, the single planner, or -
\* resumed - the operator.
AfterContestants ==
    /\ engine.stage = "contest" /\ StageOver
    /\ CASE Cardinality(Survivors) >= MIN_CONTEST_FAMILIES ->
                /\ Declare({Judge(f) : f \in Survivors})
                /\ Stage("judge")
                /\ UNCHANGED <<phase, planned, lease>>
         [] Cardinality(Survivors) = 1 -> Offer(field[CHOOSE f \in Survivors : TRUE])
         [] OTHER -> /\ IF engine.resuming
                        THEN End("needs_user")
                        ELSE Stage("single") /\ UNCHANGED <<phase, lease>>
                     /\ UNCHANGED <<planned, jobs>>

Scored == {f \in Survivors : score[f] # Unscored}

\* A winner with a runner-up is compared with it; a lone or an unjudged winner
\* stands as written.
AfterJudges ==
    /\ engine.stage = "judge" /\ StageOver
    /\ IF Cardinality(Scored) >= 2
       THEN Declare({Synthesis}) /\ Stage("synthesis") /\ UNCHANGED <<phase, planned, lease>>
       ELSE Offer(field[Winner])

AfterSynthesis ==
    /\ engine.stage = "synthesis" /\ StageOver
    /\ Offer(IF answer[Synthesis] = "good" THEN files.grafted ELSE field[Winner])

SinglePlanner ==
    /\ engine.stage = "single"
    /\ \/ Offer(SinglePlan)
       \/ End("needs_user") /\ UNCHANGED <<planned, jobs>>

Move ==
    /\ DeclareContestants \/ AfterContestants \/ AfterJudges \/ AfterSynthesis \/ SinglePlanner
    /\ UNCHANGED <<passes, files, memVars, live, opened, mishaps, lost>>

-----------------------------------------------------------------------------
(* critiqueLoop *)

\* Approved, and the envelope made of it: offered to the operator.
Approve ==
    /\ engine.stage = "review"
    /\ End("awaiting_approval")
    /\ UNCHANGED <<planned, passes>>

\* toPlanCorrection: back to planning, once more.
Correct ==
    /\ engine.stage = "review" /\ passes < MAX_CRITIQUE_PASSES
    /\ phase' = "planning" /\ passes' = passes + 1
    /\ Stage("correct")
    /\ UNCHANGED <<planned, lease>>

\* No verdict, no critic, no envelope, or the budget is spent.
Block ==
    /\ engine.stage = "review"
    /\ End("needs_user")
    /\ UNCHANGED <<planned, passes>>

Redo ==
    /\ engine.stage = "correct"
    /\ \/ /\ phase' = "plan_review" /\ planned' = Corrected(passes)
          /\ Stage("review")
          /\ UNCHANGED lease
       \/ End("needs_user") /\ UNCHANGED planned
    /\ UNCHANGED passes

Critique ==
    /\ Approve \/ Correct \/ Block \/ Redo
    /\ UNCHANGED <<jobs, files, memVars, live, opened, mishaps, lost>>

-----------------------------------------------------------------------------
(* Deaths and resumes *)

Forget ==
    /\ at' = [j \in Jobs |-> "idle"]
    /\ answer' = [j \in Jobs |-> "none"]
    /\ field' = [f \in Seats |-> NoPlan]
    /\ score' = [f \in Seats |-> Unscored]

Mishap == mishaps < MaxMishaps /\ mishaps' = mishaps + 1

\* The lock file and the sessions stay.
Crash ==
    /\ Up /\ Mishap
    /\ GapCrash \/ \A j \in Jobs : at[j] # "asked"
    /\ engine' = Down
    /\ Forget
    /\ UNCHANGED <<phase, planned, passes, jobs, files, lease, live, opened, lost>>

\* A session nobody waits for any more.
Exit ==
    /\ \E s \in live : (Up => at[s.job] # "waits" \/ s # Session(s.job)) /\ live' = live \ {s}
    /\ UNCHANGED <<phase, planned, passes, jobs, files, lease, engine, memVars, opened, mishaps, lost>>

\* The lease of a dead owner is reclaimed on its host, and removed by hand on
\* another.
Unlock ==
    /\ ~Up /\ lease # NoHost
    /\ lease' = NoHost
    /\ UNCHANGED <<phase, planned, passes, jobs, files, engine, memVars, live, opened, mishaps, lost>>

\* goal resume in phase planning
Judged(h, how) == {j \in Unfinished : Verdict(j, h) = how}

Resume(h) ==
    /\ ~Up /\ lease \in {NoHost, h} /\ phase = "planning"
    /\ \E j \in Jobs : Declared(j)
    /\ Judged(h, "live") = {}
    /\ IF Judged(h, "unknown") # {}
       THEN /\ phase' = "needs_user"
            /\ UNCHANGED <<jobs, engine, lease>>
       ELSE /\ jobs' = [j \in Jobs |-> IF j \in Judged(h, "dead")
                                       THEN {MarkUnverifiable(Record(j))} ELSE jobs[j]]
            /\ engine' = Start(h, TRUE) /\ lease' = h
            /\ UNCHANGED phase
    /\ Forget
    /\ UNCHANGED <<planned, passes, files, live, opened, mishaps, lost>>

\* goal resume of a blocked run that was never approved: back to planning.
Return(h) ==
    /\ ~Up /\ lease \in {NoHost, h} /\ phase = "needs_user"
    /\ Mishap
    /\ phase' = "planning" /\ planned' = NoPlan
    /\ UNCHANGED <<passes, jobs, files, lease, engine, memVars, live, opened, lost>>

\* A candidate file goes missing.
Lose(f) ==
    /\ Mishap /\ files.candidate[f] # NoPlan
    /\ files' = [files EXCEPT !.candidate[f] = NoPlan]
    /\ lost' = lost + 1
    /\ UNCHANGED <<phase, planned, passes, jobs, lease, engine, memVars, live, opened>>

Engine ==
    \/ \E j \in Jobs : Enter(j) \/ Open(j) \/ Dispatch(j) \/ Answer(j) \/ Settle(j)
    \/ Keep \/ Move \/ Critique

Next ==
    \/ Engine \/ Crash \/ Exit \/ Unlock
    \/ \E h \in Hosts : Resume(h) \/ Return(h)
    \/ \E f \in Seats : Lose(f)

Spec == Init /\ [][Next]_vars

\* A live engine goes on: every session it waits for ends, at the latest by the
\* timeout of invokeExecutor.  Nobody has to resume a run.
FairSpec == Spec /\ WF_vars(Engine)

-----------------------------------------------------------------------------
(* Properties *)

\* No job is asked more than once and one retry, however often the engine dies,
\* the operator resumes and an artifact goes missing (MAX_JOB_RETRIES, the one
\* budget both roads to a second dispatch pass through).
SessionsBounded == \A j \in Jobs : opened[j] <= 1 + MAX_JOB_RETRIES

\* Two sessions of one job never run at once, whoever died and whoever resumed
\* in between ("a job that cannot be PROVEN dead is never re-dispatched").
OneSession == \A s, t \in live : s.job = t.job => s = t

\* A job that gave its answer, with the artifact of it on disk, is folded by
\* every later resume and never asked again.
SettledKept ==
    [][\A j \in Jobs :
          Declared(j) /\ Record(j).substate \in {"completed", "disqualified"} /\ Stored(j)
          => opened'[j] = opened[j] /\ Record(j)'.substate = Record(j).substate]_vars

OnFile == {f \in Seats : files.candidate[f] \notin {NoPlan, Disqualified}}
Total(f) == files.verdict[f].score
Base(plan) == IF plan.by = "synthesis" THEN plan.base ELSE plan

\* What is offered for review can be traced on disk: a plan a contestant wrote
\* and nobody disqualified, which no other candidate outranks by verdicts given
\* on the very plans that are on disk - or the synthesis made of that plan.
\* Corrections and the single planner aside, and no artifact having vanished.
OfferTraced ==
    phase \in {"plan_review", "awaiting_approval"} =>
        /\ planned # NoPlan
        /\ lost = 0 /\ planned.by \in {"seat", "synthesis"} =>
              LET f == Base(planned).seat
              IN  /\ f \in OnFile /\ Base(planned) = files.plan[f]
                  /\ \A g \in OnFile :
                        /\ files.verdict[g].of \in {NoPlan, files.plan[g]}
                        /\ Total(f) > Total(g) \/ (Total(f) = Total(g) /\ f <= g)

\* A live engine ends: in an offer, with the operator, or dead - never waiting
\* for a session that is gone.
ContestEnds == Up ~> ~Up

=============================================================================
