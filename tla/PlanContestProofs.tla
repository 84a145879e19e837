------------------------- MODULE PlanContestProofs --------------------------
(***************************************************************************)
(* Proofs about the planning phase with --contest, for any number of       *)
(* seats, hosts, scores and mishaps.                                       *)
(*                                                                         *)
(* ContestInv is the inductive invariant: the types, which jobs of the     *)
(* stage are declared, and for every job that its ledger record, the place *)
(* the engine is at with it and the number of its sessions agree.  JobFrame*)
(* says what a step with one job leaves alone; a step then only has to     *)
(* show the invariant of that one job.  On top of it stand                 *)
(*   FoldStands  what a resume would fold is never touched again;          *)
(*   Budget      sessions are paid for out of the record's retries, and    *)
(*   Alive       every session that runs is one the engine waits for or    *)
(*               the record names - both for an engine that does not die   *)
(*               between a spawn and its record (GapCrash = FALSE:         *)
(*               neither holds otherwise);                                 *)
(*   TracedInv   while no artifact vanished, the candidates, scores and    *)
(*               grafts the engine holds are those on disk.                *)
(***************************************************************************)
EXTENDS PlanContest, FiniteSetTheorems, WellFoundedInduction, TLAPS

-----------------------------------------------------------------------------
(* Types, the kinds of job, and the ledger *)

Working == {"open", "asked", "waits", "answered", "kept", "written"}
Phases == {"planning", "plan_review", "needs_user", "awaiting_approval"}
EngineStages ==
    {"down", "declare", "contest", "judge", "synthesis", "single", "review", "correct"}
Written == Candidates \cup {NoPlan, Disqualified}
Grafts == {Grafted(p) : p \in Candidates} \cup {NoPlan}
Verdicts == [score : Scores \cup {Unscored}, of : Written]
Decisions == {"none", "accepted", "rejected"}

RunTypes ==
    /\ phase \in Phases
    /\ planned \in Plans \cup {NoPlan}
    /\ passes \in 0 .. MAX_CRITIQUE_PASSES
    /\ mishaps \in 0 .. MaxMishaps /\ lost \in 0 .. mishaps
LedgerTypes ==
    /\ DOMAIN jobs = Jobs
    /\ \A j \in Jobs : jobs[j] = {} \/ \E r \in Records : jobs[j] = {r}
FileTypes ==
    /\ files \in [plan : [Seats -> Candidates \cup {NoPlan}], candidate : [Seats -> Written],
                  verdict : [Seats -> Verdicts], decisions : Decisions, grafted : Grafts]
EngineTypes ==
    /\ engine \in [host : Hosts \cup {NoHost}, resuming : BOOLEAN, stage : EngineStages]
    /\ lease \in Hosts \cup {NoHost}
    /\ Up => lease = engine.host
    /\ Up <=> engine.stage # "down"
    /\ Up => phase = IF engine.stage = "review" THEN "plan_review" ELSE "planning"
MemTypes ==
    /\ at \in [Jobs -> {"idle", "over"} \cup Working]
    /\ answer \in [Jobs -> {"none", "good", "bad", "threw"}]
    /\ field \in [Seats -> Written]
    /\ score \in [Seats -> Scores \cup {Unscored}]
SessionTypes ==
    /\ live \subseteq Sessions
    /\ opened \in [Jobs -> Nat]

\* The three kinds of job are apart, and the key names the seat.
LEMMA JobKinds ==
    /\ Synthesis \in Jobs /\ Synthesis \notin Contestants /\ Synthesis \notin Judges
    /\ \A f \in Seats : /\ Contestant(f) \in Contestants /\ Contestant(f) \notin Judges
                        /\ Judge(f) \in Judges /\ Judge(f) \notin Contestants
                        /\ Contestant(f) # Synthesis /\ Judge(f) # Synthesis
                        /\ Contestant(f).key = f /\ Judge(f).key = f
    /\ \A f, g \in Seats : /\ Contestant(f) = Contestant(g) => f = g
                           /\ Judge(f) = Judge(g) => f = g
                           /\ Contestant(f) # Judge(g)
    /\ \A j \in Contestants : j.key \in Seats /\ j = Contestant(j.key) /\ j \in Jobs
    /\ \A j \in Judges : j.key \in Seats /\ j = Judge(j.key) /\ j \in Jobs
    /\ Jobs = Contestants \cup Judges \cup {Synthesis}
<1>1. \A f : /\ Contestant(f).kind = "contestant" /\ Contestant(f).key = f
              /\ Judge(f).kind = "judge" /\ Judge(f).key = f
  BY DEF Contestant, Judge
<1>2. Synthesis.kind = "synthesis"
  BY DEF Synthesis
<1>3. /\ \A j \in Contestants : j.kind = "contestant" /\ j.key \in Seats /\ j = Contestant(j.key)
      /\ \A j \in Judges : j.kind = "judge" /\ j.key \in Seats /\ j = Judge(j.key)
      /\ \A f \in Seats : Contestant(f) \in Contestants /\ Judge(f) \in Judges
  BY <1>1 DEF Contestants, Judges
<1>4. Jobs = Contestants \cup Judges \cup {Synthesis}
  BY DEF Jobs
<1> QED
  BY <1>1, <1>2, <1>3, <1>4

\* A record of the ledger, and what writing one leaves.
LEMMA RecordOf ==
    ASSUME NEW j, NEW r, jobs[j] = {r} PROVE Declared(j) /\ Record(j) = r
  BY DEF Declared, Record

\* A declared job has one record.
LEMMA Recorded ==
    ASSUME LedgerTypes, NEW j \in Jobs, Declared(j)
    PROVE  Record(j) \in Records /\ jobs[j] = {Record(j)}
  BY DEF LedgerTypes, Declared, Record

LEMMA SetLedger ==
    ASSUME LedgerTypes, NEW j \in Jobs, NEW r \in Records, Set(j, r)
    PROVE  /\ LedgerTypes'
           /\ jobs'[j] = {r} /\ \A k \in Jobs : k # j => jobs'[k] = jobs[k]
  BY DEF LedgerTypes, Set

LEMMA PendingIsARecord == Pending \in Records
  BY DEF Pending, Records, Substates, MAX_JOB_RETRIES

\* Names of plans do not collide with the signs for there being none.
LEMMA PlanNames ==
    /\ NoPlan \notin Candidates /\ Disqualified \notin Candidates /\ NoPlan # Disqualified
    /\ \A p \in Candidates : p.by = "seat" /\ Base(p) = p
    /\ \A p : Grafted(p) # NoPlan /\ Grafted(p).by = "synthesis" /\ Base(Grafted(p)) = p
    /\ SinglePlan # NoPlan /\ SinglePlan.by = "single"
    /\ \A n : Corrected(n) # NoPlan /\ Corrected(n).by = "correction"
<1>1. \A p \in Candidates : p.by = "seat"
  BY DEF Candidates, CandidatePlan
<1>2. NoPlan.by = "nobody" /\ Disqualified.by = "disqualified" /\ SinglePlan.by = "single"
  BY DEF NoPlan, Disqualified, SinglePlan
<1>3. \A p : Grafted(p).by = "synthesis" /\ Grafted(p).base = p
  BY DEF Grafted
<1>4. \A n : Corrected(n).by = "correction"
  BY DEF Corrected
<1> QED
  BY <1>1, <1>2, <1>3, <1>4 DEF Base

\* The sort has a head: of finitely many survivors one is outranked by none.
LEMMA WinnerFound ==
    ASSUME score \in [Seats -> Scores \cup {Unscored}], Survivors # {}
    PROVE  Winner \in Survivors /\ \A g \in Survivors : Ranked(Winner, g)
<1> DEFINE Above(f) == {g \in Survivors : ~Ranked(f, g)}
           Tops == {Above(f) : f \in Survivors}
<1>1. Survivors \subseteq Seats /\ IsFiniteSet(Survivors)
  BY ContestAssumption, FS_Subset DEF Survivors
<1>2. \A f \in Seats : score[f] \in Nat /\ f \in Nat
  <2>1. Scores \cup {Unscored} \subseteq Nat /\ Seats \subseteq Nat
    BY ContestAssumption DEF Unscored
  <2> QED
    BY <2>1
<1>3. IsWellFoundedOn(StrictSubsetOrdering(Survivors), SUBSET Survivors)
  BY <1>1, FS_StrictSubsetOrderingWellFounded, FS_FiniteSubsetsOfFinite
<1>4. Tops \subseteq SUBSET Survivors /\ Tops # {}
  OBVIOUS
<1>5. PICK top \in Tops : \A other \in Tops : ~(<<other, top>> \in StrictSubsetOrdering(Survivors))
  BY <1>3, <1>4, WFMin
<1>6. PICK f \in Survivors : top = Above(f)
  OBVIOUS
<1>7. ASSUME NEW g \in Above(f) PROVE FALSE
  <2>1. g \in Survivors /\ ~Ranked(f, g)
    BY <1>7
  <2>2. \A h \in Survivors : ~Ranked(g, h) => ~Ranked(f, h)
    BY <1>1, <1>2, <2>1 DEF Ranked
  <2>3. Ranked(g, g)
    BY <1>1, <1>2, <2>1 DEF Ranked
  <2>4. Above(g) \subseteq Above(f) /\ Above(g) # Above(f)
    BY <1>7, <2>1, <2>2, <2>3
  <2>5. <<Above(g), Above(f)>> \in StrictSubsetOrdering(Survivors)
    BY <2>4 DEF StrictSubsetOrdering
  <2> QED
    BY <1>5, <1>6, <2>1, <2>5
<1>8. \A g \in Survivors : Ranked(f, g)
  BY <1>7
<1> QED
  BY <1>8 DEF Winner

-----------------------------------------------------------------------------
(* One artifact is written, the others stay *)

\* Writing one artifact leaves the others.
PutPlan(f, p) == files' = [files EXCEPT !.plan[f] = p]
PutCandidate(f, c) == files' = [files EXCEPT !.candidate[f] = c]
PutVerdict(f, v) == files' = [files EXCEPT !.verdict[f] = v]
PutDecisions(d) == files' = [files EXCEPT !.decisions = d]
PutGrafted(p) == files' = [files EXCEPT !.grafted = p]

LEMMA PlanPut ==
    ASSUME FileTypes, NEW f \in Seats, NEW p \in Candidates, PutPlan(f, p)
    PROVE  /\ FileTypes' /\ files'.plan[f] = p
           /\ \A g \in Seats : g # f => files'.plan[g] = files.plan[g]
           /\ files'.candidate = files.candidate /\ files'.verdict = files.verdict
           /\ files'.decisions = files.decisions /\ files'.grafted = files.grafted
  BY DEF FileTypes, PutPlan

LEMMA CandidatePut ==
    ASSUME FileTypes, NEW f \in Seats, NEW c \in Written, PutCandidate(f, c)
    PROVE  /\ FileTypes' /\ files'.candidate[f] = c
           /\ \A g \in Seats : g # f => files'.candidate[g] = files.candidate[g]
           /\ files'.plan = files.plan /\ files'.verdict = files.verdict
           /\ files'.decisions = files.decisions /\ files'.grafted = files.grafted
  BY DEF FileTypes, PutCandidate

LEMMA VerdictPut ==
    ASSUME FileTypes, NEW f \in Seats, NEW v \in Verdicts, PutVerdict(f, v)
    PROVE  /\ FileTypes' /\ files'.verdict[f] = v
           /\ \A g \in Seats : g # f => files'.verdict[g] = files.verdict[g]
           /\ files'.plan = files.plan /\ files'.candidate = files.candidate
           /\ files'.decisions = files.decisions /\ files'.grafted = files.grafted
  BY DEF FileTypes, PutVerdict

LEMMA DecisionsPut ==
    ASSUME FileTypes, NEW d \in Decisions, PutDecisions(d)
    PROVE  /\ FileTypes' /\ files'.decisions = d
           /\ files'.plan = files.plan /\ files'.candidate = files.candidate
           /\ files'.verdict = files.verdict /\ files'.grafted = files.grafted
  BY DEF FileTypes, PutDecisions

LEMMA GraftedPut ==
    ASSUME FileTypes, NEW p \in Grafts, PutGrafted(p)
    PROVE  /\ FileTypes' /\ files'.grafted = p
           /\ files'.plan = files.plan /\ files'.candidate = files.candidate
           /\ files'.verdict = files.verdict /\ files'.decisions = files.decisions
  BY DEF FileTypes, PutGrafted

-----------------------------------------------------------------------------
(* The inductive invariant: where the engine is with its jobs *)

\* Where the engine is with its jobs.
Placed ==
    /\ \A j \in Jobs : at[j] \in Working => j \in StageJobs
    /\ \A j \in StageJobs : Declared(j)
    /\ engine.stage \in {"judge", "synthesis"} =>
          Survivors # {} /\ \A j \in Contestants : at[j] = "over"
    /\ engine.stage = "synthesis" => \A f \in Survivors : at[Judge(f)] = "over"

\* What the ledger says of a job, and where the engine is with it.
RecordSound(j) ==
    /\ Record(j).retryable => Record(j).substate = "failed"
    /\ at[j] \in {"open", "asked"} => Record(j).substate = "pending"
    /\ at[j] = "waits" => Record(j).substate = "dispatched" /\ Record(j).child = Session(j)
    /\ at[j] \in {"answered", "kept", "written"} => Record(j).substate \notin Terminal
    /\ at[j] = "over" => Record(j).substate \in Terminal
    /\ Up /\ engine.resuming /\ at[j] = "idle" => Record(j).substate \in {"pending"} \cup Terminal
    /\ Up /\ ~engine.resuming /\ at[j] = "idle" => Record(j).substate = "pending" /\ opened[j] = 0

\* One session a life of the engine.
OpensSound(j) ==
    /\ opened[j] <= 1 + mishaps
    /\ (Up /\ at[j] \in {"idle", "open"}) \/ (~Up /\ phase = "planning") => opened[j] <= mishaps
    /\ at[j] \in {"asked", "waits"} => opened[j] >= 1
    /\ at[j] \in {"answered", "kept"} /\ answer[j] = "good" => opened[j] >= 1

JobSound(j) ==
    /\ IF Declared(j) THEN RecordSound(j) ELSE opened[j] = 0 /\ at[j] = "idle"
    /\ OpensSound(j)
    /\ at[j] \in {"idle", "open"} => answer[j] = "none"

Typed == RunTypes /\ LedgerTypes /\ FileTypes /\ EngineTypes /\ MemTypes /\ SessionTypes
Sound == Typed /\ Placed /\ \A j \in Jobs : JobSound(j)

\* The stage a job is in.
LEMMA StageOf ==
    ASSUME EngineTypes, NEW j \in StageJobs
    PROVE  /\ Up /\ engine.host \in Hosts /\ j \in Jobs
           /\ \/ engine.stage = "contest" /\ j \in Contestants
              \/ engine.stage = "judge" /\ j \in Judges /\ j.key \in Survivors
              \/ engine.stage = "synthesis" /\ j = Synthesis
<1>1. engine.stage \in {"contest", "judge", "synthesis"}
  BY DEF StageJobs
<1>2. Up /\ engine.host \in Hosts
  BY <1>1 DEF EngineTypes, Up
<1>3. Survivors \subseteq Seats
  BY DEF Survivors
<1> QED
  BY <1>1, <1>2, <1>3, JobKinds DEF StageJobs

\* What the steps the engine takes with one job have in common.
JobFrame(j) ==
    /\ j \in StageJobs
    /\ UNCHANGED <<phase, planned, passes, lease, engine, mishaps, lost>>
    /\ LedgerTypes' /\ FileTypes' /\ MemTypes' /\ SessionTypes'
    /\ Declared(j)'
    /\ \A k \in Jobs : k # j => /\ at'[k] = at[k] /\ jobs'[k] = jobs[k]
                                /\ answer'[k] = answer[k] /\ opened'[k] = opened[k]
    /\ \A f \in Seats : Contestant(f) # j =>
            /\ field'[f] = field[f]
            /\ files'.plan[f] = files.plan[f] /\ files'.candidate[f] = files.candidate[f]
    /\ \A f \in Seats : Judge(f) # j =>
            score'[f] = score[f] /\ files'.verdict[f] = files.verdict[f]
    /\ j # Synthesis => files'.decisions = files.decisions /\ files'.grafted = files.grafted

\* Set: one record written, the others as they were.
LEMMA SetRecord ==
    ASSUME LedgerTypes, NEW j \in Jobs, NEW r \in Records, Set(j, r)
    PROVE  /\ LedgerTypes' /\ Declared(j)' /\ Record(j)' = r
           /\ \A k \in Jobs : k # j => jobs'[k] = jobs[k]
  BY SetLedger DEF Declared, Record

\* The rewrites of a record give records.
LEMMA RecordsMade ==
    ASSUME NEW r \in Records
    PROVE  /\ \A s \in Substates : [r EXCEPT !.substate = s] \in Records
           /\ \A c \in Sessions : [r EXCEPT !.substate = "dispatched", !.child = c] \in Records
           /\ r.retries < MAX_JOB_RETRIES => [Pending EXCEPT !.retries = r.retries + 1] \in Records
           /\ MarkUnverifiable(r) \in Records
<1>1. \A s \in Substates : [r EXCEPT !.substate = s] \in Records
  BY DEF Records
<1>2. \A c \in Sessions : [r EXCEPT !.substate = "dispatched", !.child = c] \in Records
  BY DEF Records, Substates
<1>3. r.retries < MAX_JOB_RETRIES => [Pending EXCEPT !.retries = r.retries + 1] \in Records
  <2>1. ASSUME NEW n \in 0 .. MAX_JOB_RETRIES PROVE [Pending EXCEPT !.retries = n] \in Records
    BY DEF Records, Substates, Pending
  <2>2. r.retries < MAX_JOB_RETRIES => r.retries + 1 \in 0 .. MAX_JOB_RETRIES
    BY DEF Records, MAX_JOB_RETRIES
  <2> QED
    BY <2>1, <2>2
<1>4. MarkUnverifiable(r) \in Records
  <2>1. ASSUME NEW b \in BOOLEAN
        PROVE  [r EXCEPT !.substate = "failed", !.retryable = b] \in Records
    BY DEF Records, Substates, Terminal
  <2>2. (r.retries < MAX_JOB_RETRIES) \in BOOLEAN
    OBVIOUS
  <2> QED
    BY <2>1, <2>2, Zenon DEF MarkUnverifiable
<1> QED
  BY <1>1, <1>2, <1>3, <1>4

\* What the invariant says of a job of the stage.
LEMMA SoundOf ==
    ASSUME Sound, NEW j \in StageJobs
    PROVE  /\ LedgerTypes /\ FileTypes /\ MemTypes /\ SessionTypes /\ EngineTypes /\ RunTypes
           /\ j \in Jobs /\ Declared(j) /\ Record(j) \in Records /\ RecordSound(j) /\ OpensSound(j)
           /\ Up /\ engine.host \in Hosts /\ opened[j] \in Nat
<1>1. LedgerTypes /\ FileTypes /\ MemTypes /\ SessionTypes /\ EngineTypes /\ RunTypes
  BY DEF Sound, Typed
<1>2. j \in Jobs /\ Up /\ engine.host \in Hosts
  BY <1>1, StageOf
<1>3. Declared(j) /\ JobSound(j)
  BY <1>2 DEF Sound, Placed
<1> QED
  BY <1>1, <1>2, <1>3, Recorded DEF JobSound, SessionTypes

-----------------------------------------------------------------------------
(* What a step with one job leaves alone *)

\* Only the entry of j moves.
LEMMA GotoMoves ==
    ASSUME MemTypes, NEW j \in Jobs, NEW place \in {"idle", "over"} \cup Working, Goto(j, place)
    PROVE  /\ at' \in [Jobs -> {"idle", "over"} \cup Working]
           /\ at'[j] = place /\ \A k \in Jobs : k # j => at'[k] = at[k]
  BY DEF MemTypes, Goto

LEMMA SpendsRetry ==
    ASSUME LedgerTypes, NEW j \in Jobs, Declared(j), MaySpendRetry(j), SpendRetry(j)
    PROVE  /\ LedgerTypes' /\ Declared(j)'
           /\ Record(j)' = [Pending EXCEPT !.retries = Record(j).retries + 1]
           /\ \A k \in Jobs : k # j => jobs'[k] = jobs[k]
  BY Recorded, RecordsMade, SetRecord DEF MaySpendRetry, SpendRetry

\* The four ways into a job.
EnterSame(j) ==
    ~(engine.resuming /\ Folds(j)) /\ ~(engine.resuming /\ Record(j).retryable) /\ UNCHANGED jobs
EnterAgain(j) ==
    /\ engine.resuming /\ MaySpendRetry(j) /\ SpendRetry(j)
    /\ Record(j).retryable \/ (Folds(j) /\ ~Stored(j))
EnterOpen(j) ==
    /\ at[j] = "idle" /\ (EnterSame(j) \/ EnterAgain(j))
    /\ Goto(j, "open") /\ UNCHANGED <<files, answer, field, score>>
EnterFold(j) ==
    /\ at[j] = "idle" /\ engine.resuming /\ Folds(j) /\ Stored(j)
    /\ Hold(j) /\ Goto(j, "over") /\ UNCHANGED <<jobs, files>>
EnterNothing(j) ==
    /\ at[j] = "idle" /\ engine.resuming /\ Folds(j) /\ ~Stored(j) /\ ~MaySpendRetry(j)
    /\ HoldNothing(j) /\ Goto(j, "over") /\ UNCHANGED jobs

\* A record to retry is never folded, so the budget has room: there are no other ways.
LEMMA EnterWays ==
    ASSUME Sound, NEW j \in Jobs, Enter(j)
    PROVE  /\ j \in StageJobs
           /\ EnterOpen(j) \/ EnterFold(j) \/ EnterNothing(j)
<1>1. j \in StageJobs /\ at[j] = "idle"
  BY DEF Enter
<1>2. RecordSound(j)
  BY <1>1, SoundOf
<1>3. ASSUME ~(engine.resuming /\ Folds(j)), engine.resuming, Record(j).retryable
      PROVE  MaySpendRetry(j)
  <2>1. Declared(j) /\ Record(j).substate \in Terminal
    BY <1>1, <1>2, <1>3, SoundOf DEF RecordSound, Terminal
  <2> QED
    BY <1>3, <2>1 DEF Folds
<1> QED
  BY <1>1, <1>3 DEF Enter, EnterOpen, EnterSame, EnterAgain, EnterFold, EnterNothing

\* Each of the five steps with one job leaves the other jobs alone.
LEMMA EnterFrame ==
    ASSUME Sound, NEW j \in Jobs, Enter(j) PROVE JobFrame(j) /\ UNCHANGED <<opened, live>>
<1>1. j \in StageJobs /\ (EnterOpen(j) \/ EnterFold(j) \/ EnterNothing(j))
  BY EnterWays
<1>2. /\ LedgerTypes /\ FileTypes /\ MemTypes /\ SessionTypes /\ j \in Jobs /\ Declared(j)
      /\ MemTypes
  BY <1>1, SoundOf
<1>3. UNCHANGED <<phase, planned, passes, lease, engine, live, opened, mishaps, lost>>
  BY DEF Enter
<1>4. SessionTypes'
  BY <1>2, <1>3 DEF SessionTypes
<1>5. CASE EnterOpen(j)
  <2>1. LedgerTypes' /\ Declared(j)' /\ \A k \in Jobs : k # j => jobs'[k] = jobs[k]
    BY <1>2, <1>5, SpendsRetry DEF EnterOpen, EnterSame, EnterAgain, LedgerTypes, Declared
  <2>2. at' \in [Jobs -> {"idle", "over"} \cup Working] /\ \A k \in Jobs : k # j => at'[k] = at[k]
    BY <1>2, <1>5, GotoMoves DEF EnterOpen, Working
  <2>3. UNCHANGED <<files, answer, field, score>>
    BY <1>5 DEF EnterOpen
  <2>4. FileTypes' /\ MemTypes'
    BY <1>2, <2>2, <2>3 DEF FileTypes, MemTypes
  <2> QED
    BY <1>1, <1>3, <1>4, <2>1, <2>2, <2>3, <2>4 DEF JobFrame
<1>6. ASSUME EnterFold(j) \/ EnterNothing(j)
      PROVE  /\ LedgerTypes' /\ Declared(j)' /\ UNCHANGED jobs
             /\ at' \in [Jobs -> {"idle", "over"} \cup Working]
             /\ \A k \in Jobs : k # j => at'[k] = at[k]
  BY <1>2, <1>6, GotoMoves DEF EnterFold, EnterNothing, LedgerTypes, Declared, Working
<1>7. CASE EnterFold(j)
  <2>1. UNCHANGED files /\ FileTypes' /\ Hold(j)
    BY <1>2, <1>7 DEF EnterFold, FileTypes
  <2>2. /\ field' \in [Seats -> Written]
        /\ \A f \in Seats : Contestant(f) # j => field'[f] = field[f]
    <3>1. CASE j \in Contestants
      <4>1. PICK c \in Written : field' = [field EXCEPT ![j.key] = c]
        <5>1. files.plan[j.key] \in Written /\ Disqualified \in Written
          BY <1>2, <3>1, JobKinds DEF FileTypes, Written
        <5> QED
          BY <2>1, <3>1, <5>1 DEF Hold
      <4> QED
        BY <1>2, <3>1, <4>1, JobKinds DEF MemTypes
    <3>2. CASE j \notin Contestants
      BY <1>2, <2>1, <3>2 DEF Hold, MemTypes
    <3> QED
      BY <3>1, <3>2
  <2>3. /\ score' \in [Seats -> Scores \cup {Unscored}]
        /\ \A f \in Seats : Judge(f) # j => score'[f] = score[f]
    <3>1. CASE j \in Judges
      <4>1. PICK s \in Scores \cup {Unscored} : score' = [score EXCEPT ![j.key] = s]
        <5>1. files.verdict[j.key].score \in Scores \cup {Unscored}
          BY <1>2, <3>1, JobKinds DEF FileTypes, Verdicts
        <5> QED
          BY <2>1, <3>1, <5>1 DEF Hold
      <4> QED
        BY <1>2, <3>1, <4>1, JobKinds DEF MemTypes
    <3>2. CASE j \notin Judges
      BY <1>2, <2>1, <3>2 DEF Hold, MemTypes
    <3> QED
      BY <3>1, <3>2
  <2>4. /\ answer' \in [Jobs -> {"none", "good", "bad", "threw"}]
        /\ \A k \in Jobs : k # j => answer'[k] = answer[k]
    BY <1>2, <2>1 DEF Hold, MemTypes
  <2>5. MemTypes'
    BY <1>6, <1>7, <2>2, <2>3, <2>4 DEF MemTypes
  <2> QED
    BY <1>1, <1>3, <1>4, <1>6, <1>7, <2>1, <2>2, <2>3, <2>4, <2>5 DEF JobFrame
<1>8. CASE EnterNothing(j)
  <2>1. HoldNothing(j)
    BY <1>8 DEF EnterNothing
  <2>2. /\ field' \in [Seats -> Written]
        /\ \A f \in Seats : Contestant(f) # j => field'[f] = field[f]
    <3>1. Disqualified \in Written
      BY DEF Written
    <3>2. CASE j \in Contestants
      BY <1>2, <2>1, <3>1, <3>2, JobKinds DEF HoldNothing, MemTypes
    <3>3. CASE j \notin Contestants
      BY <1>2, <2>1, <3>3 DEF HoldNothing, MemTypes
    <3> QED
      BY <3>2, <3>3
  <2>3. UNCHANGED <<score, answer>> /\ MemTypes'
    BY <1>2, <1>6, <1>8, <2>1, <2>2 DEF HoldNothing, MemTypes
  <2>4. /\ FileTypes'
        /\ \A f \in Seats : Contestant(f) # j =>
              files'.plan[f] = files.plan[f] /\ files'.candidate[f] = files.candidate[f]
        /\ \A f \in Seats : Judge(f) # j => files'.verdict[f] = files.verdict[f]
        /\ files'.decisions = files.decisions /\ files'.grafted = files.grafted
    <3>1. CASE j \in Contestants
      <4>1. PICK f \in Seats : j = Contestant(f) /\ j.key = f
        BY <3>1, JobKinds
      <4>2. PutCandidate(f, Disqualified) /\ Disqualified \in Written
        BY <2>1, <3>1, <4>1, JobKinds DEF HoldNothing, PutCandidate, Written
      <4>3. \A g \in Seats : Contestant(g) # j => g # f
        BY <4>1
      <4> QED
        BY <1>2, <4>2, <4>3, CandidatePut
    <3>2. CASE j \in Judges
      <4>1. PutVerdict(j.key, [score |-> Unscored, of |-> field[j.key]])
        BY <2>1, <3>2, JobKinds DEF HoldNothing, PutVerdict
      <4>2. [score |-> Unscored, of |-> field[j.key]] \in Verdicts
        BY <1>2, <3>2, JobKinds DEF MemTypes, Verdicts
      <4> QED
        BY <1>2, <3>2, <4>1, <4>2, VerdictPut, JobKinds
    <3>3. CASE j \notin Contestants \cup Judges
      BY <1>2, <2>1, <3>3 DEF HoldNothing, FileTypes
    <3> QED
      BY <3>1, <3>2, <3>3
  <2> QED
    BY <1>1, <1>3, <1>4, <1>6, <1>8, <2>2, <2>3, <2>4 DEF JobFrame
<1> QED
  BY <1>1, <1>5, <1>7, <1>8, <1>3

LEMMA OpenFrame ==
    ASSUME Sound, NEW j \in Jobs, Open(j) PROVE JobFrame(j)
<1>1. j \in StageJobs
  BY DEF Open, Sound, Placed, Working
<1>2. /\ LedgerTypes /\ FileTypes /\ MemTypes /\ SessionTypes /\ RunTypes /\ Declared(j)
      /\ OpensSound(j) /\ Up /\ engine.host \in Hosts /\ opened[j] \in Nat
  BY <1>1, SoundOf
<1>3. /\ UNCHANGED <<phase, planned, passes, jobs, files, lease, engine, field, score, mishaps,
                     lost>>
      /\ at[j] = "open"
  BY DEF Open
<1>4. LedgerTypes' /\ FileTypes' /\ Declared(j)'
  BY <1>2, <1>3 DEF LedgerTypes, FileTypes, Declared
<1>5. PICK place \in Working : Goto(j, place)
  BY DEF Open, Working
<1>6. /\ at' \in [Jobs -> {"idle", "over"} \cup Working]
      /\ \A k \in Jobs : k # j => at'[k] = at[k]
  BY <1>2, <1>5, GotoMoves
<1>7. /\ answer' \in [Jobs -> {"none", "good", "bad", "threw"}]
      /\ opened' \in [Jobs -> Nat]
      /\ \A k \in Jobs : k # j => answer'[k] = answer[k] /\ opened'[k] = opened[k]
  BY <1>2 DEF Open, MemTypes, SessionTypes
<1>8. live' \subseteq Sessions
  <2>1. opened[j] + 1 \in 1 .. MaxSessions
    BY <1>2, <1>3, ContestAssumption DEF OpensSound, RunTypes, MaxSessions
  <2>2. [Session(j) EXCEPT !.nth = opened[j] + 1] \in Sessions
    BY <1>2, <2>1 DEF Session, Sessions
  <2> QED
    BY <1>2, <2>2 DEF Open, SessionTypes
<1>9. MemTypes' /\ SessionTypes'
  BY <1>2, <1>3, <1>6, <1>7, <1>8 DEF MemTypes, SessionTypes
<1> QED
  BY <1>1, <1>3, <1>4, <1>6, <1>7, <1>9 DEF JobFrame

LEMMA DispatchFrame ==
    ASSUME Sound, NEW j \in Jobs, Dispatch(j)
    PROVE  /\ JobFrame(j)
           /\ Record(j)' = [Record(j) EXCEPT !.substate = "dispatched", !.child = Session(j)]
<1>1. j \in StageJobs /\ at[j] = "asked"
  BY DEF Dispatch, Sound, Placed, Working
<1>2. /\ LedgerTypes /\ FileTypes /\ MemTypes /\ SessionTypes /\ RunTypes /\ Declared(j)
      /\ OpensSound(j) /\ Up /\ engine.host \in Hosts /\ opened[j] \in Nat /\ Record(j) \in Records
  BY <1>1, SoundOf
<1>3. UNCHANGED <<phase, planned, passes, files, lease, engine, answer, field, score, live,
                  opened, mishaps, lost>>
  BY DEF Dispatch
<1>4. Session(j) \in Sessions
  <2>1. opened[j] \in 1 .. MaxSessions
    BY <1>1, <1>2, ContestAssumption DEF OpensSound, RunTypes, MaxSessions
  <2> QED
    BY <1>2, <2>1 DEF Session, Sessions
<1>5. /\ LedgerTypes' /\ Declared(j)' /\ \A k \in Jobs : k # j => jobs'[k] = jobs[k]
      /\ Record(j)' = [Record(j) EXCEPT !.substate = "dispatched", !.child = Session(j)]
  BY <1>2, <1>4, RecordsMade, SetRecord DEF Dispatch, MarkDispatched
<1>6. /\ at' \in [Jobs -> {"idle", "over"} \cup Working]
      /\ \A k \in Jobs : k # j => at'[k] = at[k]
  BY <1>2, GotoMoves DEF Dispatch, Working
<1>7. MemTypes' /\ SessionTypes' /\ FileTypes'
  BY <1>2, <1>3, <1>6 DEF MemTypes, SessionTypes, FileTypes
<1> QED
  BY <1>1, <1>3, <1>5, <1>6, <1>7 DEF JobFrame

LEMMA AnswerFrame ==
    ASSUME Sound, NEW j \in Jobs, Answer(j)
    PROVE  /\ JobFrame(j)
           /\ \/ Record(j)' = Record(j)
              \/ Record(j)' = [Record(j) EXCEPT !.substate = "running"]
<1>1. j \in StageJobs /\ at[j] = "waits"
  BY DEF Answer, Sound, Placed, Working
<1>2. /\ LedgerTypes /\ FileTypes /\ MemTypes /\ SessionTypes /\ Declared(j)
      /\ Record(j) \in Records /\ RecordSound(j)
  BY <1>1, SoundOf
<1>3. UNCHANGED <<phase, planned, passes, files, lease, engine, field, score, opened, mishaps,
                  lost>>
  BY DEF Answer
<1>4. /\ LedgerTypes' /\ Declared(j)' /\ \A k \in Jobs : k # j => jobs'[k] = jobs[k]
      /\ \/ Record(j)' = Record(j)
         \/ Record(j)' = [Record(j) EXCEPT !.substate = "running"]
  <2>1. CASE UNCHANGED jobs
    BY <1>2, <2>1 DEF LedgerTypes, Declared, Record
  <2>2. CASE MarkRunning(j)
    <3>1. Set(j, [Record(j) EXCEPT !.substate = "running"])
      BY <1>1, <1>2, <2>2 DEF MarkRunning, RecordSound
    <3>2. [Record(j) EXCEPT !.substate = "running"] \in Records
      BY <1>2, RecordsMade DEF Substates
    <3> QED
      BY <1>2, <3>1, <3>2, SetRecord
  <2> QED
    BY <2>1, <2>2 DEF Answer
<1>5. /\ at' \in [Jobs -> {"idle", "over"} \cup Working]
      /\ \A k \in Jobs : k # j => at'[k] = at[k]
  BY <1>2, GotoMoves DEF Answer, Working
<1>6. /\ answer' \in [Jobs -> {"none", "good", "bad", "threw"}]
      /\ \A k \in Jobs : k # j => answer'[k] = answer[k]
  BY <1>2 DEF Answer, MemTypes
<1>7. MemTypes' /\ SessionTypes' /\ FileTypes'
  <2>1. live' \subseteq Sessions
    BY <1>2 DEF Answer, SessionTypes
  <2> QED
    BY <1>2, <1>3, <1>5, <1>6, <2>1 DEF MemTypes, SessionTypes, FileTypes
<1> QED
  BY <1>1, <1>3, <1>4, <1>5, <1>6, <1>7 DEF JobFrame

LEMMA SettleFrame ==
    ASSUME Sound, NEW j \in Jobs, Settle(j)
    PROVE  /\ JobFrame(j)
           /\ \E s \in Terminal : Record(j)' = [Record(j) EXCEPT !.substate = s]
<1>1. j \in StageJobs /\ at[j] = "written"
  BY DEF Settle, Sound, Placed, Working
<1>2. /\ LedgerTypes /\ FileTypes /\ MemTypes /\ SessionTypes /\ Declared(j)
      /\ Record(j) \in Records
  BY <1>1, SoundOf
<1>3. UNCHANGED <<phase, planned, passes, files, lease, engine, answer, field, score, live,
                  opened, mishaps, lost>>
  BY DEF Settle
<1>4. PICK s \in Terminal : Set(j, [Record(j) EXCEPT !.substate = s])
  BY DEF Settle, MarkTerminal, Terminal
<1>5. /\ LedgerTypes' /\ Declared(j)' /\ \A k \in Jobs : k # j => jobs'[k] = jobs[k]
      /\ Record(j)' = [Record(j) EXCEPT !.substate = s]
  <2>1. [Record(j) EXCEPT !.substate = s] \in Records
    BY <1>2, RecordsMade DEF Substates
  <2> QED
    BY <1>2, <1>4, <2>1, SetRecord
<1>6. /\ at' \in [Jobs -> {"idle", "over"} \cup Working]
      /\ \A k \in Jobs : k # j => at'[k] = at[k]
  BY <1>2, GotoMoves DEF Settle
<1>7. MemTypes' /\ SessionTypes' /\ FileTypes'
  BY <1>2, <1>3, <1>6 DEF MemTypes, SessionTypes, FileTypes
<1> QED
  BY <1>1, <1>3, <1>5, <1>6, <1>7 DEF JobFrame

KeepRest ==
    UNCHANGED <<phase, planned, passes, jobs, lease, engine, answer, live, opened, mishaps, lost>>

\* What a step that writes artifacts only has to show.
LEMMA KeepFrame ==
    ASSUME Sound, NEW j \in StageJobs, KeepRest, NEW place \in {"idle", "over"} \cup Working,
           Goto(j, place), FileTypes',
           field' \in [Seats -> Written], score' \in [Seats -> Scores \cup {Unscored}],
           \A f \in Seats : Contestant(f) # j =>
              /\ field'[f] = field[f]
              /\ files'.plan[f] = files.plan[f] /\ files'.candidate[f] = files.candidate[f],
           \A f \in Seats : Judge(f) # j =>
              score'[f] = score[f] /\ files'.verdict[f] = files.verdict[f],
           j # Synthesis => files'.decisions = files.decisions /\ files'.grafted = files.grafted
    PROVE  JobFrame(j)
<1>1. /\ LedgerTypes /\ MemTypes /\ SessionTypes /\ j \in Jobs /\ Declared(j)
  BY SoundOf
<1>2. LedgerTypes' /\ SessionTypes' /\ Declared(j)'
  BY <1>1 DEF KeepRest, LedgerTypes, SessionTypes, Declared
<1>3. /\ at' \in [Jobs -> {"idle", "over"} \cup Working]
      /\ \A k \in Jobs : k # j => at'[k] = at[k]
  BY <1>1, GotoMoves
<1>4. MemTypes'
  BY <1>1, <1>3 DEF KeepRest, MemTypes
<1> QED
  BY <1>2, <1>3, <1>4 DEF JobFrame, KeepRest

\* So do the writers of artifacts; what they write is what the engine was given.
LEMMA KeepPlanFrame ==
    ASSUME Sound, NEW f \in Seats, KeepPlan(f), UNCHANGED score, KeepRest
    PROVE  /\ JobFrame(Contestant(f)) /\ files'.candidate = files.candidate
           /\ opened[Contestant(f)] \in 1 .. MaxSessions
           /\ files'.plan[f] = CandidatePlan(f, opened[Contestant(f)])
           /\ CandidatePlan(f, opened[Contestant(f)]) \in Candidates
<1> DEFINE j == Contestant(f)
<1>1. at[j] = "answered" /\ answer[j] = "good" /\ Goto(j, "kept") /\ UNCHANGED field
  BY DEF KeepPlan
<1>2. j \in Jobs /\ j \in Contestants /\ j # Synthesis /\ j \notin Judges
  BY JobKinds
<1>3. j \in StageJobs
  BY <1>1, <1>2 DEF Sound, Placed, Working
<1>4. OpensSound(j) /\ RunTypes /\ FileTypes /\ MemTypes /\ opened[j] \in Nat
  BY <1>3, SoundOf
<1>5. opened[j] \in 1 .. MaxSessions
  BY <1>1, <1>4, ContestAssumption DEF OpensSound, RunTypes, MaxSessions
<1>6. CandidatePlan(f, opened[j]) \in Candidates
  BY <1>5 DEF Candidates
<1>7. PutPlan(f, CandidatePlan(f, opened[j]))
  BY DEF KeepPlan, PutPlan
<1>8. /\ FileTypes' /\ files'.plan[f] = CandidatePlan(f, opened[j])
      /\ \A g \in Seats : g # f => files'.plan[g] = files.plan[g]
      /\ files'.candidate = files.candidate /\ files'.verdict = files.verdict
      /\ files'.decisions = files.decisions /\ files'.grafted = files.grafted
  BY <1>4, <1>6, <1>7, PlanPut
<1>9. \A g \in Seats : Contestant(g) # j => g # f
  OBVIOUS
<1>10. field' \in [Seats -> Written] /\ score' \in [Seats -> Scores \cup {Unscored}]
  BY <1>1, <1>4 DEF MemTypes
<1> HIDE DEF j
<1>11. JobFrame(j)
  BY <1>1, <1>3, <1>8, <1>9, <1>10, KeepFrame DEF Working
<1> QED
  BY <1>5, <1>6, <1>8, <1>11 DEF j

LEMMA KeepCandidateFrame ==
    ASSUME Sound, NEW f \in Seats, KeepCandidate(f), UNCHANGED score, KeepRest
    PROVE  /\ JobFrame(Contestant(f)) /\ files'.candidate[f] = field'[f] /\ files'.plan = files.plan
           /\ field'[f] = IF at[Contestant(f)] = "kept" THEN files.plan[f] ELSE Disqualified
<1> DEFINE j == Contestant(f)
<1>1. at[j] \in {"kept", "answered"} /\ Goto(j, "written")
  BY DEF KeepCandidate
<1>2. j \in Jobs /\ j \in Contestants /\ j # Synthesis /\ j \notin Judges
  BY JobKinds
<1>3. j \in StageJobs
  BY <1>1, <1>2 DEF Sound, Placed, Working
<1>4. FileTypes /\ MemTypes
  BY <1>3, SoundOf
<1>5. files.plan[f] \in Written /\ Disqualified \in Written
  BY <1>4 DEF FileTypes, Written
<1>6. /\ field' \in [Seats -> Written]
      /\ field'[f] = IF at[j] = "kept" THEN files.plan[f] ELSE Disqualified
      /\ \A g \in Seats : g # f => field'[g] = field[g]
  BY <1>4, <1>5 DEF KeepCandidate, MemTypes
<1>7. PutCandidate(f, field'[f]) /\ field'[f] \in Written
  BY <1>6 DEF KeepCandidate, PutCandidate
<1>8. /\ FileTypes' /\ files'.candidate[f] = field'[f]
      /\ \A g \in Seats : g # f => files'.candidate[g] = files.candidate[g]
      /\ files'.plan = files.plan /\ files'.verdict = files.verdict
      /\ files'.decisions = files.decisions /\ files'.grafted = files.grafted
  BY <1>4, <1>7, CandidatePut
<1>9. \A g \in Seats : Contestant(g) # j => g # f
  OBVIOUS
<1>10. score' \in [Seats -> Scores \cup {Unscored}]
  BY <1>4 DEF MemTypes
<1> HIDE DEF j
<1>11. JobFrame(j)
  BY <1>1, <1>3, <1>6, <1>8, <1>9, <1>10, KeepFrame DEF Working
<1> QED
  BY <1>6, <1>8, <1>11 DEF j

LEMMA KeepVerdictFrame ==
    ASSUME Sound, NEW f \in Seats, KeepVerdict(f), UNCHANGED field, KeepRest
    PROVE  /\ JobFrame(Judge(f))
           /\ files'.verdict[f] = [score |-> score'[f], of |-> field[f]]
           /\ files'.candidate = files.candidate /\ files'.plan = files.plan
<1> DEFINE j == Judge(f)
<1>1. at[j] = "answered" /\ Goto(j, "written")
  BY DEF KeepVerdict
<1>2. j \in Jobs /\ j \in Judges /\ j # Synthesis /\ j \notin Contestants
  BY JobKinds
<1>3. j \in StageJobs
  BY <1>1, <1>2 DEF Sound, Placed, Working
<1>4. FileTypes /\ MemTypes
  BY <1>3, SoundOf
<1>5. PICK s \in Scores \cup {Unscored} :
          /\ score' = [score EXCEPT ![f] = s]
          /\ files' = [files EXCEPT !.verdict[f] = [score |-> s, of |-> field[f]]]
  BY DEF KeepVerdict
<1>6. score' \in [Seats -> Scores \cup {Unscored}] /\ score'[f] = s
      /\ \A g \in Seats : g # f => score'[g] = score[g]
  BY <1>4, <1>5 DEF MemTypes
<1>7. PutVerdict(f, [score |-> s, of |-> field[f]]) /\ [score |-> s, of |-> field[f]] \in Verdicts
  BY <1>4, <1>5 DEF PutVerdict, MemTypes, Verdicts
<1>8. /\ FileTypes' /\ files'.verdict[f] = [score |-> s, of |-> field[f]]
      /\ \A g \in Seats : g # f => files'.verdict[g] = files.verdict[g]
      /\ files'.plan = files.plan /\ files'.candidate = files.candidate
      /\ files'.decisions = files.decisions /\ files'.grafted = files.grafted
  BY <1>4, <1>7, VerdictPut
<1>9. \A g \in Seats : Judge(g) # j => g # f
  OBVIOUS
<1>10. field' \in [Seats -> Written]
  BY <1>4 DEF MemTypes
<1> HIDE DEF j
<1>11. JobFrame(j)
  BY <1>1, <1>3, <1>6, <1>8, <1>9, <1>10, KeepFrame DEF Working
<1> QED
  BY <1>6, <1>8, <1>11 DEF j

\* Whoever works on the synthesis has a winner to start from.
LEMMA SynthesisStage ==
    ASSUME Sound, at[Synthesis] \in Working
    PROVE  /\ Synthesis \in StageJobs /\ engine.stage = "synthesis"
           /\ Winner \in Survivors /\ field[Winner] \in Candidates
           /\ \A g \in Survivors : Ranked(Winner, g)
<1>1. Synthesis \in StageJobs
  BY JobKinds DEF Sound, Placed
<1>2. EngineTypes /\ MemTypes
  BY DEF Sound, Typed
<1>3. engine.stage = "synthesis"
  BY <1>1, <1>2, StageOf, JobKinds
<1>4. Survivors # {}
  BY <1>3 DEF Sound, Placed
<1>5. Winner \in Survivors /\ \A g \in Survivors : Ranked(Winner, g)
  BY <1>2, <1>4, WinnerFound DEF MemTypes
<1>6. field[Winner] \in Candidates
  BY <1>2, <1>5 DEF Survivors, MemTypes, Written
<1> QED
  BY <1>1, <1>3, <1>5, <1>6

LEMMA KeepSynthesisFrame ==
    ASSUME Sound, KeepDecisions \/ KeepGrafted, UNCHANGED <<field, score>>, KeepRest
    PROVE  /\ JobFrame(Synthesis)
           /\ files'.plan = files.plan /\ files'.candidate = files.candidate
           /\ files'.verdict = files.verdict
           /\ \/ /\ KeepDecisions /\ files'.grafted = files.grafted
              \/ /\ KeepGrafted /\ files'.grafted = Grafted(field[Winner])
<1>1. /\ at[Synthesis] \in Working
      /\ \E place \in Working : Goto(Synthesis, place)
  BY DEF KeepDecisions, KeepGrafted, Working
<1>2. Synthesis \in StageJobs /\ field[Winner] \in Candidates
  BY <1>1, SynthesisStage
<1>3. FileTypes /\ MemTypes
  BY <1>2, SoundOf
<1>4. /\ FileTypes'
      /\ files'.plan = files.plan /\ files'.candidate = files.candidate
      /\ files'.verdict = files.verdict
      /\ \/ /\ KeepDecisions /\ files'.grafted = files.grafted
         \/ /\ KeepGrafted /\ files'.grafted = Grafted(field[Winner])
  <2>1. CASE KeepDecisions
    <3>1. UNCHANGED files \/ \E d \in Decisions : PutDecisions(d)
      BY <2>1 DEF KeepDecisions, PutDecisions, Decisions
    <3> QED
      BY <1>3, <2>1, <3>1, DecisionsPut DEF FileTypes
  <2>2. CASE KeepGrafted
    <3>1. PutGrafted(Grafted(field[Winner])) /\ Grafted(field[Winner]) \in Grafts
      BY <1>2, <2>2 DEF KeepGrafted, PutGrafted, Grafts
    <3> QED
      BY <1>3, <2>2, <3>1, GraftedPut
  <2> QED
    BY <2>1, <2>2
<1>5. field' \in [Seats -> Written] /\ score' \in [Seats -> Scores \cup {Unscored}]
  BY <1>3 DEF MemTypes
<1>6. PICK place \in Working : Goto(Synthesis, place)
  BY <1>1
<1>7. JobFrame(Synthesis)
  BY <1>2, <1>4, <1>5, <1>6, KeepFrame
<1> QED
  BY <1>4, <1>7

\* A step with one job keeps what holds of the others.
LEMMA FrameStages ==
    ASSUME Sound, NEW j \in Jobs, JobFrame(j)
    PROVE  /\ StageJobs' = StageJobs
           /\ engine.stage \in {"judge", "synthesis"} =>
                 j \notin Contestants /\ Survivors' = Survivors
           /\ engine.stage = "synthesis" => j \notin Judges
<1>1. j \in StageJobs /\ engine' = engine /\ EngineTypes
  BY DEF JobFrame, Sound, Typed
<1>2. \/ engine.stage = "contest" /\ j \in Contestants
      \/ engine.stage = "judge" /\ j \in Judges
      \/ engine.stage = "synthesis" /\ j = Synthesis
  BY <1>1, StageOf
<1>3. ASSUME engine.stage # "contest" PROVE Survivors' = Survivors
  <2>1. \A f \in Seats : field'[f] = field[f]
    BY <1>2, <1>3, JobKinds DEF JobFrame
  <2> QED
    BY <2>1 DEF Survivors
<1>4. StageJobs' = StageJobs
  BY <1>1, <1>2, <1>3 DEF StageJobs
<1> QED
  BY <1>2, <1>3, <1>4, JobKinds

\* The invariant of the one job is all a step with one job has to show.
LEMMA FrameSound ==
    ASSUME Sound, NEW j \in Jobs, JobFrame(j), JobSound(j)' PROVE Sound'
<1>1. Typed'
  <2>1. RunTypes' /\ EngineTypes'
    BY DEF JobFrame, Sound, Typed, RunTypes, EngineTypes, Up
  <2> QED
    BY <2>1 DEF JobFrame, Typed
<1>2. Placed'
  <2>1. \A k \in Jobs : Declared(k) => Declared(k)'
    BY DEF JobFrame, Declared
  <2>2. StageJobs \subseteq Jobs
    BY StageOf DEF Sound, Typed
  <2>3. /\ \A k \in Jobs : at'[k] \in Working => k \in StageJobs'
        /\ \A k \in StageJobs' : Declared(k)'
    BY <2>1, <2>2, FrameStages DEF JobFrame, Sound, Placed
  <2>4. engine'.stage \in {"judge", "synthesis"} =>
            Survivors' # {} /\ \A k \in Contestants : at'[k] = "over"
    BY FrameStages, JobKinds DEF JobFrame, Sound, Placed
  <2>5. engine'.stage = "synthesis" => \A f \in Survivors' : at'[Judge(f)] = "over"
    <3>1. Survivors \subseteq Seats
      BY DEF Survivors
    <3> QED
      BY <3>1, FrameStages, JobKinds DEF JobFrame, Sound, Placed
  <2> QED
    BY <2>3, <2>4, <2>5 DEF Placed
<1>3. ASSUME NEW k \in Jobs, k # j PROVE JobSound(k)'
  BY <1>3
     DEF JobFrame, Sound, JobSound, RecordSound, OpensSound, Declared, Record, Up, Session
<1> QED
  BY <1>1, <1>2, <1>3 DEF Sound

-----------------------------------------------------------------------------
(* Every step with one job keeps the invariant *)

\* Entered without a retry, the record is pending: nobody else dispatched it.
LEMMA EnterSound ==
    ASSUME Sound, NEW j \in Jobs, Enter(j) PROVE Sound'
<1>1. JobFrame(j) /\ UNCHANGED <<opened, live>>
  BY EnterFrame
<1>2. j \in StageJobs /\ (EnterOpen(j) \/ EnterFold(j) \/ EnterNothing(j))
  BY EnterWays
<1>3. /\ LedgerTypes /\ MemTypes /\ Declared(j) /\ RecordSound(j) /\ OpensSound(j)
      /\ answer[j] = "none" \/ at[j] # "idle"
      /\ Up
  BY <1>2, SoundOf DEF Sound, JobSound
<1>4. Up' = Up /\ engine' = engine /\ mishaps' = mishaps /\ phase' = phase
  BY <1>1 DEF JobFrame, Up
<1>5. CASE EnterOpen(j)
  <2>1. at[j] = "idle" /\ at'[j] = "open" /\ answer'[j] = "none" /\ opened'[j] = opened[j]
    BY <1>1, <1>3, <1>5, GotoMoves DEF EnterOpen, Working
  <2>2. Record(j)'.substate = "pending" /\ ~Record(j)'.retryable
    <3>1. CASE EnterSame(j)
      <4>1. Record(j)' = Record(j)
        BY <3>1 DEF EnterSame, Record
      <4>2. Record(j).substate \in {"pending"} \cup Terminal /\ (engine.resuming => ~Folds(j))
        BY <1>3, <2>1, <3>1 DEF RecordSound, EnterSame
      <4>3. engine.resuming => ~Record(j).retryable
        BY <3>1 DEF EnterSame
      <4>4. Record(j).substate = "pending"
        BY <1>3, <2>1, <4>2, <4>3 DEF Folds, RecordSound
      <4> QED
        BY <1>3, <4>1, <4>4 DEF RecordSound
    <3>2. CASE EnterAgain(j)
      <4>1. Record(j)' = [Pending EXCEPT !.retries = Record(j).retries + 1]
        BY <1>3, <3>2, SpendsRetry DEF EnterAgain
      <4> QED
        BY <4>1 DEF Pending
    <3> QED
      BY <1>5, <3>1, <3>2 DEF EnterOpen
  <2>3. RecordSound(j)'
    BY <2>1, <2>2 DEF RecordSound, Terminal
  <2>4. OpensSound(j)'
    BY <1>3, <1>4, <2>1 DEF OpensSound
  <2>5. JobSound(j)'
    BY <1>1, <2>1, <2>3, <2>4 DEF JobSound, JobFrame
  <2> QED
    BY <1>1, <2>5, FrameSound
<1>6. CASE EnterFold(j) \/ EnterNothing(j)
  <2>1. at[j] = "idle" /\ at'[j] = "over" /\ opened'[j] = opened[j]
    BY <1>1, <1>3, <1>6, GotoMoves DEF EnterFold, EnterNothing
  <2>2. Record(j)' = Record(j) /\ Record(j).substate \in Terminal
    BY <1>6 DEF EnterFold, EnterNothing, Record, Folds
  <2>3. RecordSound(j)'
    BY <1>3, <2>1, <2>2 DEF RecordSound
  <2>4. OpensSound(j)'
    BY <1>3, <1>4, <2>1 DEF OpensSound
  <2>5. JobSound(j)'
    BY <1>1, <2>1, <2>3, <2>4 DEF JobSound, JobFrame
  <2> QED
    BY <1>1, <2>5, FrameSound
<1> QED
  BY <1>2, <1>5, <1>6

\* One session more, for an engine that had not opened one in its life.
LEMMA OpenSound ==
    ASSUME Sound, NEW j \in Jobs, Open(j) PROVE Sound'
<1>1. JobFrame(j)
  BY OpenFrame
<1>2. j \in StageJobs /\ at[j] = "open"
  BY <1>1 DEF Open, JobFrame
<1>3. /\ MemTypes /\ SessionTypes /\ RunTypes /\ Declared(j) /\ RecordSound(j) /\ OpensSound(j)
      /\ Up /\ opened[j] \in Nat
  BY <1>2, SoundOf
<1>4. Up' = Up /\ engine' = engine /\ mishaps' = mishaps /\ phase' = phase
  BY <1>1 DEF JobFrame, Up
<1>5. Record(j)' = Record(j) /\ Record(j).substate = "pending"
  BY <1>2, <1>3 DEF Open, Record, RecordSound
<1>6. \/ at'[j] = "asked" /\ opened'[j] = opened[j] + 1
      \/ at'[j] = "answered" /\ opened'[j] = opened[j] /\ answer'[j] = "threw"
  BY <1>3, GotoMoves DEF Open, Working, MemTypes, SessionTypes
<1>7. RecordSound(j)'
  BY <1>3, <1>5, <1>6 DEF RecordSound, Terminal
<1>8. OpensSound(j)'
  <2>1. opened[j] <= mishaps /\ mishaps \in Nat
    BY <1>2, <1>3, ContestAssumption DEF OpensSound, RunTypes
  <2> QED
    BY <1>3, <1>4, <1>6, <2>1 DEF OpensSound
<1>9. JobSound(j)'
  BY <1>1, <1>6, <1>7, <1>8 DEF JobSound, JobFrame
<1> QED
  BY <1>1, <1>9, FrameSound

LEMMA DispatchSound ==
    ASSUME Sound, NEW j \in Jobs, Dispatch(j) PROVE Sound'
<1>1. /\ JobFrame(j)
      /\ Record(j)' = [Record(j) EXCEPT !.substate = "dispatched", !.child = Session(j)]
  BY DispatchFrame
<1>2. j \in StageJobs /\ at[j] = "asked" /\ UNCHANGED <<opened, engine, answer>>
  BY <1>1 DEF Dispatch, JobFrame
<1>3. /\ MemTypes /\ RunTypes /\ Declared(j) /\ RecordSound(j) /\ OpensSound(j)
      /\ Up /\ opened[j] \in Nat /\ Record(j) \in Records
  BY <1>2, SoundOf
<1>4. Up' = Up /\ mishaps' = mishaps /\ phase' = phase
  BY <1>1 DEF JobFrame, Up
<1>5. at'[j] = "waits"
  BY <1>3, GotoMoves DEF Dispatch, Working
<1>6. /\ Record(j)'.substate = "dispatched" /\ Record(j)'.child = Session(j)
      /\ Record(j)'.retryable = Record(j).retryable
  BY <1>1, <1>3 DEF Records
<1>7. RecordSound(j)'
  <2>1. Session(j)' = Session(j)
    BY <1>2 DEF Session
  <2>2. ~Record(j).retryable
    BY <1>2, <1>3 DEF RecordSound
  <2> QED
    BY <1>5, <1>6, <2>1, <2>2 DEF RecordSound
<1>8. OpensSound(j)'
  BY <1>2, <1>3, <1>4, <1>5 DEF OpensSound
<1>9. JobSound(j)'
  BY <1>1, <1>5, <1>7, <1>8 DEF JobSound, JobFrame
<1> QED
  BY <1>1, <1>9, FrameSound

LEMMA AnswerSound ==
    ASSUME Sound, NEW j \in Jobs, Answer(j) PROVE Sound'
<1>1. /\ JobFrame(j)
      /\ \/ Record(j)' = Record(j)
         \/ Record(j)' = [Record(j) EXCEPT !.substate = "running"]
  BY AnswerFrame
<1>2. j \in StageJobs /\ at[j] = "waits" /\ UNCHANGED <<opened, engine>>
  BY <1>1 DEF Answer, JobFrame
<1>3. /\ MemTypes /\ RunTypes /\ Declared(j) /\ RecordSound(j) /\ OpensSound(j)
      /\ Up /\ opened[j] \in Nat /\ Record(j) \in Records
  BY <1>2, SoundOf
<1>4. Up' = Up /\ mishaps' = mishaps /\ phase' = phase
  BY <1>1 DEF JobFrame, Up
<1>5. at'[j] = "answered"
  BY <1>3, GotoMoves DEF Answer, Working
<1>6. Record(j)'.substate \in {"dispatched", "running"} /\ ~Record(j)'.retryable
  <2>1. Record(j).substate = "dispatched" /\ ~Record(j).retryable
    BY <1>2, <1>3 DEF RecordSound
  <2> QED
    BY <1>1, <1>3, <2>1 DEF Records
<1>7. RecordSound(j)'
  BY <1>5, <1>6 DEF RecordSound, Terminal
<1>8. OpensSound(j)'
  BY <1>2, <1>3, <1>4, <1>5 DEF OpensSound
<1>9. JobSound(j)'
  BY <1>1, <1>5, <1>7, <1>8 DEF JobSound, JobFrame
<1> QED
  BY <1>1, <1>9, FrameSound

LEMMA SettleSound ==
    ASSUME Sound, NEW j \in Jobs, Settle(j) PROVE Sound'
<1>1. /\ JobFrame(j)
      /\ \E s \in Terminal : Record(j)' = [Record(j) EXCEPT !.substate = s]
  BY SettleFrame
<1>2. j \in StageJobs /\ at[j] = "written" /\ UNCHANGED <<opened, engine>>
  BY <1>1 DEF Settle, JobFrame
<1>3. /\ MemTypes /\ RunTypes /\ Declared(j) /\ RecordSound(j) /\ OpensSound(j)
      /\ Up /\ opened[j] \in Nat /\ Record(j) \in Records
  BY <1>2, SoundOf
<1>4. Up' = Up /\ mishaps' = mishaps /\ phase' = phase
  BY <1>1 DEF JobFrame, Up
<1>5. at'[j] = "over"
  BY <1>3, GotoMoves DEF Settle
<1>6. Record(j)'.substate \in Terminal /\ ~Record(j)'.retryable
  <2>1. Record(j).substate \notin Terminal /\ ~Record(j).retryable
    BY <1>2, <1>3 DEF RecordSound, Terminal
  <2> QED
    BY <1>1, <1>3, <2>1 DEF Records
<1>7. RecordSound(j)'
  BY <1>5, <1>6 DEF RecordSound
<1>8. OpensSound(j)'
  BY <1>2, <1>3, <1>4, <1>5 DEF OpensSound
<1>9. JobSound(j)'
  BY <1>1, <1>5, <1>7, <1>8 DEF JobSound, JobFrame
<1> QED
  BY <1>1, <1>9, FrameSound

\* A step that writes artifacts only: the engine goes on with the job.
LEMMA KeepSoundOf ==
    ASSUME Sound, NEW j \in StageJobs, JobFrame(j), KeepRest,
           NEW place \in {"kept", "written"}, Goto(j, place), at[j] \in {"answered", "kept"},
           at[j] = "kept" => place = "written"
    PROVE  Sound'
<1>1. /\ MemTypes /\ RunTypes /\ Declared(j) /\ RecordSound(j) /\ OpensSound(j)
      /\ Up /\ opened[j] \in Nat /\ j \in Jobs
  BY SoundOf
<1>2. at'[j] = place
  BY <1>1, GotoMoves DEF Working
<1>3. Record(j)' = Record(j) /\ Up' = Up
  BY DEF KeepRest, Record, Up
<1>4. RecordSound(j)'
  BY <1>1, <1>2, <1>3 DEF RecordSound, Terminal
<1>5. OpensSound(j)'
  BY <1>1, <1>2, <1>3 DEF OpensSound, KeepRest
<1>6. JobSound(j)'
  BY <1>1, <1>2, <1>4, <1>5 DEF JobSound, JobFrame
<1> QED
  BY <1>1, <1>6, FrameSound

LEMMA KeepSound ==
    ASSUME Sound, Keep PROVE Sound'
<1>1. KeepRest
  BY DEF Keep, KeepRest
<1>2. CASE \E f \in Seats : KeepPlan(f) /\ UNCHANGED score
  <2>1. PICK f \in Seats : KeepPlan(f) /\ UNCHANGED score
    BY <1>2
  <2>2. JobFrame(Contestant(f)) /\ Contestant(f) \in StageJobs
    BY <1>1, <2>1, KeepPlanFrame DEF JobFrame
  <2>3. Goto(Contestant(f), "kept") /\ at[Contestant(f)] = "answered"
    BY <2>1 DEF KeepPlan
  <2> QED
    BY <1>1, <2>2, <2>3, KeepSoundOf
<1>3. CASE \E f \in Seats : KeepCandidate(f) /\ UNCHANGED score
  <2>1. PICK f \in Seats : KeepCandidate(f) /\ UNCHANGED score
    BY <1>3
  <2>2. JobFrame(Contestant(f)) /\ Contestant(f) \in StageJobs
    BY <1>1, <2>1, KeepCandidateFrame DEF JobFrame
  <2>3. Goto(Contestant(f), "written") /\ at[Contestant(f)] \in {"answered", "kept"}
    BY <2>1 DEF KeepCandidate
  <2> QED
    BY <1>1, <2>2, <2>3, KeepSoundOf
<1>4. CASE \E f \in Seats : KeepVerdict(f) /\ UNCHANGED field
  <2>1. PICK f \in Seats : KeepVerdict(f) /\ UNCHANGED field
    BY <1>4
  <2>2. JobFrame(Judge(f)) /\ Judge(f) \in StageJobs
    BY <1>1, <2>1, KeepVerdictFrame DEF JobFrame
  <2>3. Goto(Judge(f), "written") /\ at[Judge(f)] = "answered"
    BY <2>1 DEF KeepVerdict
  <2> QED
    BY <1>1, <2>2, <2>3, KeepSoundOf
<1>5. CASE (KeepDecisions \/ KeepGrafted) /\ UNCHANGED <<field, score>>
  <2>1. JobFrame(Synthesis) /\ Synthesis \in StageJobs
    BY <1>1, <1>5, KeepSynthesisFrame DEF JobFrame
  <2>2. CASE KeepDecisions
    <3>1. at[Synthesis] = "answered"
          /\ Goto(Synthesis, IF answer[Synthesis] = "good" THEN "kept" ELSE "written")
      BY <2>2 DEF KeepDecisions
    <3> QED
      BY <1>1, <2>1, <3>1, KeepSoundOf
  <2>3. CASE KeepGrafted
    <3>1. at[Synthesis] = "kept" /\ Goto(Synthesis, "written")
      BY <2>3 DEF KeepGrafted
    <3> QED
      BY <1>1, <2>1, <3>1, KeepSoundOf
  <2> QED
    BY <1>5, <2>2, <2>3
<1> QED
  BY <1>2, <1>3, <1>4, <1>5 DEF Keep

\* What the engine holds of the synthesis, and that a correction is a counted pass.
GraftHeld ==
    /\ engine.stage = "correct" => passes >= 1
    /\ at[Synthesis] = "kept" => answer[Synthesis] = "good"
    /\ at[Synthesis] \in {"written", "over"} /\ answer[Synthesis] = "good" => files.grafted # NoPlan

LEMMA GraftHeldFrame ==
    ASSUME Sound, GraftHeld, NEW j \in Jobs, j # Synthesis, JobFrame(j) PROVE GraftHeld'
  BY JobKinds DEF JobFrame, GraftHeld

\* Good answers come with a plan: from the session, or folded with the file.
LEMMA GraftHeldEngine ==
    ASSUME Sound, GraftHeld,
           (\E j \in Jobs : Enter(j) \/ Open(j) \/ Dispatch(j) \/ Answer(j) \/ Settle(j)) \/ Keep
    PROVE  GraftHeld'
<1>1. FileTypes /\ MemTypes /\ JobSound(Synthesis) /\ Synthesis \in Jobs
  BY JobKinds DEF Sound, Typed
<1>2. ASSUME NEW j \in Jobs, Enter(j) \/ Open(j) \/ Dispatch(j) \/ Answer(j) \/ Settle(j)
      PROVE  GraftHeld'
  <2>1. JobFrame(j) /\ UNCHANGED <<engine, passes>>
    BY <1>2, EnterFrame, OpenFrame, DispatchFrame, AnswerFrame, SettleFrame DEF JobFrame
  <2>2. ASSUME j = Synthesis, Enter(j) PROVE GraftHeld'
    <3>1. answer[j] = "none" \/ at[j] # "idle"
      BY <1>1, <2>2 DEF JobSound
    <3>2. EnterOpen(j) \/ EnterFold(j) \/ EnterNothing(j)
      BY <2>2, EnterWays
    <3>3. CASE EnterOpen(j)
      <4>1. at'[j] = "open"
        BY <1>1, <3>3, GotoMoves DEF EnterOpen, Working
      <4> QED
        BY <2>1, <2>2, <4>1 DEF GraftHeld
    <3>4. CASE EnterFold(j)
      <4>1. at'[j] = "over" /\ files' = files
        BY <1>1, <3>4, GotoMoves DEF EnterFold
      <4>2. answer'[j] = "good" => files.decisions = "accepted"
        BY <1>1, <3>1, <3>4 DEF EnterFold, Hold, MemTypes
      <4>3. files.decisions = "accepted" => files.grafted # NoPlan
        BY <2>2, <3>4, JobKinds DEF EnterFold, Stored
      <4> QED
        BY <2>1, <2>2, <4>1, <4>2, <4>3 DEF GraftHeld
    <3>5. CASE EnterNothing(j)
      <4>1. at'[j] = "over" /\ answer'[j] = "none"
        BY <1>1, <3>1, <3>5, GotoMoves DEF EnterNothing, HoldNothing
      <4> QED
        BY <2>1, <2>2, <4>1 DEF GraftHeld
    <3> QED
      BY <3>2, <3>3, <3>4, <3>5
  <2>3. ASSUME j = Synthesis, Open(j) PROVE GraftHeld'
    <3>1. at'[j] \in {"asked", "answered"}
      BY <1>1, <2>3, GotoMoves DEF Open, Working
    <3> QED
      BY <2>1, <2>3, <3>1 DEF GraftHeld
  <2>4. ASSUME j = Synthesis, Dispatch(j) PROVE GraftHeld'
    <3>1. at'[j] = "waits"
      BY <1>1, <2>4, GotoMoves DEF Dispatch, Working
    <3> QED
      BY <2>1, <2>4, <3>1 DEF GraftHeld
  <2>5. ASSUME j = Synthesis, Answer(j) PROVE GraftHeld'
    <3>1. at'[j] = "answered"
      BY <1>1, <2>5, GotoMoves DEF Answer, Working
    <3> QED
      BY <2>1, <2>5, <3>1 DEF GraftHeld
  <2>6. ASSUME j = Synthesis, Settle(j) PROVE GraftHeld'
    <3>1. at'[j] = "over" /\ at[j] = "written" /\ UNCHANGED <<files, answer>>
      BY <1>1, <2>6, GotoMoves DEF Settle
    <3> QED
      BY <2>1, <2>6, <3>1 DEF GraftHeld
  <2> QED
    BY <1>2, <2>1, <2>2, <2>3, <2>4, <2>5, <2>6, GraftHeldFrame
<1>3. CASE Keep
  <2>1. KeepRest
    BY <1>3 DEF Keep, KeepRest
  <2>2. CASE \E f \in Seats : KeepPlan(f) /\ UNCHANGED score
    BY <2>1, <2>2, KeepPlanFrame, GraftHeldFrame, JobKinds
  <2>3. CASE \E f \in Seats : KeepCandidate(f) /\ UNCHANGED score
    BY <2>1, <2>3, KeepCandidateFrame, GraftHeldFrame, JobKinds
  <2>4. CASE \E f \in Seats : KeepVerdict(f) /\ UNCHANGED field
    BY <2>1, <2>4, KeepVerdictFrame, GraftHeldFrame, JobKinds
  <2>5. CASE KeepDecisions /\ UNCHANGED <<field, score>>
    <3>1. Goto(Synthesis, IF answer[Synthesis] = "good" THEN "kept" ELSE "written")
          /\ answer' = answer
      BY <2>1, <2>5 DEF KeepDecisions, KeepRest
    <3>2. at'[Synthesis] = IF answer[Synthesis] = "good" THEN "kept" ELSE "written"
      BY <1>1, <3>1 DEF Goto, MemTypes
    <3> QED
      BY <2>1, <3>1, <3>2 DEF GraftHeld, KeepRest
  <2>6. CASE KeepGrafted /\ UNCHANGED <<field, score>>
    <3>1. at'[Synthesis] = "written"
      BY <1>1, <2>6, GotoMoves DEF KeepGrafted, Working
    <3>2. files'.grafted = Grafted(field[Winner])
      BY <1>1, <2>6 DEF KeepGrafted, FileTypes
    <3> QED
      BY <2>1, <3>1, <3>2, PlanNames DEF GraftHeld, KeepRest
  <2> QED
    BY <1>3, <2>2, <2>3, <2>4, <2>5, <2>6 DEF Keep
<1> QED
  BY <1>2, <1>3

-----------------------------------------------------------------------------
(* The moves from stage to stage, and the critique, keep it *)

\* Stages change when nothing is in the engine's hands.
LEMMA NoneWorking ==
    ASSUME Sound, StageOver PROVE \A j \in Jobs : at[j] \notin Working
  BY DEF Sound, Placed, StageOver, Working

\* declareJobs keeps the records that are there.
LEMMA DeclareLedger ==
    ASSUME LedgerTypes, NEW js \in SUBSET Jobs, Declare(js)
    PROVE  /\ LedgerTypes'
           /\ \A j \in js : Declared(j)'
           /\ \A j \in Jobs : IF Declared(j) THEN Declared(j)' /\ Record(j)' = Record(j)
                              ELSE Declared(j)' => Record(j)' = Pending
<1>1. \A j \in Jobs : jobs'[j] = IF j \in js /\ ~Declared(j) THEN {Pending} ELSE jobs[j]
  BY DEF Declare
<1>2. LedgerTypes'
  BY <1>1, PendingIsARecord DEF LedgerTypes, Declare
<1>3. \A j \in js : Declared(j)'
  BY <1>1 DEF Declared
<1>4. ASSUME NEW j \in Jobs
      PROVE  IF Declared(j) THEN Declared(j)' /\ Record(j)' = Record(j)
             ELSE Declared(j)' => Record(j)' = Pending
  BY <1>1 DEF Declared, Record
<1> QED
  BY <1>2, <1>3, <1>4

\* The stage after, or the end of the verb, with perhaps more jobs declared.
Onward(js) ==
    /\ Declare(js) \/ (js = {} /\ UNCHANGED jobs)
    /\ UNCHANGED <<files, memVars, live, opened, mishaps, lost>>
    /\ Up
    /\ \/ \E s \in EngineStages \ {"down"} : Stage(s)
       \/ engine' = Down /\ phase' # "planning"

LEMMA OnwardJobs ==
    ASSUME Sound, NEW js \in SUBSET Jobs, Onward(js), \A j \in Jobs : at[j] \notin Working
    PROVE  /\ LedgerTypes' /\ FileTypes' /\ MemTypes' /\ SessionTypes'
           /\ \A j \in js : Declared(j)'
           /\ \A j \in Jobs : JobSound(j)'
<1>1. LedgerTypes /\ FileTypes /\ MemTypes /\ SessionTypes /\ EngineTypes
  BY DEF Sound, Typed
<1>2. /\ LedgerTypes' /\ \A j \in js : Declared(j)'
      /\ \A j \in Jobs : IF Declared(j) THEN Declared(j)' /\ Record(j)' = Record(j)
                         ELSE Declared(j)' => Record(j)' = Pending
  <2>1. CASE Declare(js)
    BY <1>1, <2>1, DeclareLedger
  <2>2. CASE js = {} /\ UNCHANGED jobs
    BY <1>1, <2>2 DEF LedgerTypes, Declared, Record
  <2> QED
    BY <2>1, <2>2 DEF Onward
<1>3. FileTypes' /\ MemTypes' /\ SessionTypes'
  BY <1>1 DEF Onward, memVars, FileTypes, MemTypes, SessionTypes
<1>4. UNCHANGED <<at, answer, opened, mishaps>> /\ Up
  BY DEF Onward, memVars
<1>5. \/ Up' /\ engine'.resuming = engine.resuming
      \/ ~Up' /\ phase' # "planning"
  BY <1>1 DEF Onward, Stage, Down, Up, EngineTypes
<1>6. ASSUME NEW j \in Jobs PROVE JobSound(j)'
  <2>1. JobSound(j) /\ at[j] \in {"idle", "over"}
    BY <1>1 DEF Sound, MemTypes
  <2>2. OpensSound(j)'
    BY <1>4, <1>5, <2>1 DEF JobSound, OpensSound
  <2>3. CASE Declared(j)
    <3>1. Declared(j)' /\ Record(j)' = Record(j) /\ RecordSound(j)
      BY <1>2, <2>1, <2>3 DEF JobSound
    <3>2. RecordSound(j)'
      BY <1>4, <1>5, <2>1, <3>1 DEF RecordSound
    <3> QED
      BY <1>4, <2>1, <2>2, <3>1, <3>2 DEF JobSound
  <2>4. CASE ~Declared(j) /\ Declared(j)'
    <3>1. Record(j)' = Pending /\ opened[j] = 0 /\ at[j] = "idle"
      BY <1>2, <2>1, <2>4 DEF JobSound
    <3>2. RecordSound(j)'
      BY <1>4, <3>1 DEF RecordSound, Pending
    <3> QED
      BY <1>4, <2>1, <2>2, <2>4, <3>2 DEF JobSound
  <2>5. CASE ~Declared(j) /\ ~Declared(j)'
    BY <1>4, <2>1, <2>2, <2>5 DEF JobSound
  <2> QED
    BY <2>3, <2>4, <2>5
<1> QED
  BY <1>2, <1>3, <1>6

\* A stage without jobs.
LEMMA OnwardIdle ==
    ASSUME Sound, Onward({}), \A j \in Jobs : at[j] \notin Working,
           engine'.stage \notin {"contest", "judge", "synthesis"}, RunTypes', EngineTypes'
    PROVE  Sound'
<1>1. /\ LedgerTypes' /\ FileTypes' /\ MemTypes' /\ SessionTypes'
      /\ \A j \in Jobs : JobSound(j)'
  BY OnwardJobs
<1>2. \A j \in Jobs : at'[j] \notin Working
  BY DEF Onward, memVars
<1>3. StageJobs' = {}
  BY DEF StageJobs
<1> QED
  BY <1>1, <1>2, <1>3 DEF Sound, Typed, Placed

MoveRest == UNCHANGED <<passes, files, memVars, live, opened, mishaps, lost>>

\* The next stage, and the end of the verb, as the types see them.
LEMMA StageSet ==
    ASSUME EngineTypes, Up, NEW s \in EngineStages \ {"down"}, Stage(s),
           lease' = lease, phase' = IF s = "review" THEN "plan_review" ELSE "planning"
    PROVE  EngineTypes' /\ engine'.stage = s /\ Up'
  BY DEF EngineTypes, Stage, Up, EngineStages

LEMMA EndSet ==
    ASSUME NEW p \in Phases, End(p)
    PROVE  EngineTypes' /\ engine'.stage = "down" /\ engine' = Down /\ phase' = p /\ ~Up'
  BY ContestAssumption DEF EngineTypes, End, Down, Up, EngineStages

LEMMA UpAt ==
    ASSUME Sound, engine.stage # "down"
    PROVE  /\ Up /\ EngineTypes /\ RunTypes
           /\ engine.stage # "review" => phase = "planning"
  BY DEF Sound, Typed, EngineTypes

\* toPlanReview, from any stage that has a plan.
LEMMA OfferSound ==
    ASSUME Sound, engine.stage \notin {"down", "review"}, StageOver, NEW plan \in Plans,
           Offer(plan), MoveRest
    PROVE  Sound' /\ planned' = plan /\ phase' = "plan_review"
<1>1. Up /\ EngineTypes /\ RunTypes
  BY UpAt
<1>2. EngineTypes' /\ engine'.stage = "review"
  BY <1>1, StageSet DEF Offer, EngineStages
<1>3. RunTypes'
  BY <1>1 DEF RunTypes, Offer, MoveRest, Phases
<1>4. Onward({})
  BY <1>1 DEF Onward, Offer, MoveRest, EngineStages
<1> QED
  BY <1>2, <1>3, <1>4, NoneWorking, OnwardIdle DEF Offer

\* The end of the verb, in any phase but planning.
LEMMA EndSound ==
    ASSUME Sound, engine.stage # "down", StageOver, NEW p \in Phases \ {"planning"}, End(p),
           UNCHANGED <<planned, jobs, passes, files, memVars, live, opened, mishaps, lost>>
    PROVE  Sound'
<1>1. Up /\ EngineTypes /\ RunTypes
  BY UpAt
<1>2. EngineTypes' /\ engine'.stage = "down" /\ engine' = Down /\ phase' = p
  BY EndSet
<1>3. RunTypes'
  BY <1>1, <1>2 DEF RunTypes
<1>4. Onward({})
  BY <1>1, <1>2 DEF Onward
<1> QED
  BY <1>2, <1>3, <1>4, NoneWorking, OnwardIdle

LEMMA DeclareContestantsSound ==
    ASSUME Sound, DeclareContestants, MoveRest PROVE Sound'
<1>1. Up /\ EngineTypes /\ RunTypes /\ engine.stage = "declare" /\ phase = "planning"
  BY UpAt DEF DeclareContestants
<1>2. StageJobs = {} /\ StageOver
  BY <1>1 DEF StageJobs, StageOver
<1>3. EngineTypes' /\ engine'.stage = "contest"
  BY <1>1, StageSet DEF DeclareContestants, EngineStages
<1>4. RunTypes'
  BY <1>1 DEF RunTypes, DeclareContestants, MoveRest
<1>5. Contestants \in SUBSET Jobs
  BY JobKinds
<1>6. Onward(Contestants)
  BY <1>1 DEF Onward, DeclareContestants, MoveRest, EngineStages
<1>7. /\ LedgerTypes' /\ FileTypes' /\ MemTypes' /\ SessionTypes'
      /\ \A j \in Contestants : Declared(j)'
      /\ \A j \in Jobs : JobSound(j)'
  BY <1>2, <1>5, <1>6, OnwardJobs, NoneWorking
<1>8. Placed'
  <2>1. StageJobs' = Contestants
    BY <1>3 DEF StageJobs
  <2>2. \A j \in Jobs : at'[j] \notin Working
    BY <1>2, NoneWorking DEF MoveRest, memVars
  <2> QED
    BY <1>3, <1>7, <2>1, <2>2 DEF Placed
<1> QED
  BY <1>3, <1>4, <1>7, <1>8 DEF Sound, Typed

LEMMA Several ==
    ASSUME NEW S, IsFiniteSet(S), Cardinality(S) >= 1 PROVE S # {}
  BY FS_EmptySet

\* Judges for two survivors, an offer for one, and nobody to go on with.
LEMMA AfterContestantsSound ==
    ASSUME Sound, AfterContestants, MoveRest PROVE Sound'
<1>1. /\ Up /\ EngineTypes /\ RunTypes /\ MemTypes /\ engine.stage = "contest" /\ StageOver
      /\ phase = "planning"
  BY UpAt DEF AfterContestants, Sound, Typed
<1>2. IsFiniteSet(Survivors) /\ Survivors \subseteq Seats /\ Cardinality(Survivors) \in Nat
  BY ContestAssumption, FS_Subset, FS_CardinalityType DEF Survivors
<1>3. \A f \in Survivors : field[f] \in Candidates
  BY <1>1 DEF Survivors, MemTypes, Written
<1>4. CASE Cardinality(Survivors) >= MIN_CONTEST_FAMILIES
  <2> DEFINE js == {Judge(f) : f \in Survivors}
  <2>1. Declare(js) /\ Stage("judge") /\ UNCHANGED <<phase, planned, lease>>
    BY <1>4 DEF AfterContestants, MIN_CONTEST_FAMILIES
  <2>2. EngineTypes' /\ engine'.stage = "judge"
    BY <1>1, <2>1, StageSet DEF EngineStages
  <2>3. RunTypes'
    BY <1>1, <2>1 DEF RunTypes, MoveRest
  <2>4. js \in SUBSET Jobs
    BY <1>2, JobKinds
  <2>5. Onward(js)
    BY <1>1, <2>1 DEF Onward, MoveRest, EngineStages
  <2>6. Survivors' = Survivors
    BY DEF MoveRest, memVars, Survivors
  <2>7. StageJobs' = js
    BY <2>2, <2>6 DEF StageJobs
  <2> HIDE DEF js
  <2>8. /\ LedgerTypes' /\ FileTypes' /\ MemTypes' /\ SessionTypes'
        /\ \A j \in js : Declared(j)'
        /\ \A j \in Jobs : JobSound(j)'
    BY <1>1, <2>4, <2>5, OnwardJobs, NoneWorking
  <2>9. Placed'
    <3>1. \A j \in Jobs : at'[j] \notin Working
      BY <1>1, NoneWorking DEF MoveRest, memVars
    <3>2. \A j \in Contestants : at'[j] = "over"
      BY <1>1 DEF StageOver, StageJobs, MoveRest, memVars
    <3>3. Survivors # {}
      BY <1>2, <1>4, Several DEF MIN_CONTEST_FAMILIES
    <3> QED
      BY <2>2, <2>6, <2>7, <2>8, <3>1, <3>2, <3>3 DEF Placed
  <2> QED
    BY <2>2, <2>3, <2>8, <2>9 DEF Sound, Typed
<1>5. CASE Cardinality(Survivors) = 1
  <2>1. Offer(field[CHOOSE f \in Survivors : TRUE])
    BY <1>5 DEF AfterContestants, MIN_CONTEST_FAMILIES
  <2>2. (CHOOSE f \in Survivors : TRUE) \in Survivors
    BY <1>2, <1>5, Several
  <2>3. field[CHOOSE f \in Survivors : TRUE] \in Plans
    BY <1>3, <2>2 DEF Plans
  <2> QED
    BY <1>1, <2>1, <2>3, OfferSound
<1>6. CASE Cardinality(Survivors) < 1
  <2>1. /\ IF engine.resuming
           THEN End("needs_user")
           ELSE Stage("single") /\ UNCHANGED <<phase, lease>>
        /\ UNCHANGED <<planned, jobs>>
    BY <1>2, <1>6 DEF AfterContestants, MIN_CONTEST_FAMILIES
  <2>2. CASE engine.resuming
    <3>1. End("needs_user")
          /\ UNCHANGED <<planned, jobs, passes, files, memVars, live, opened, mishaps, lost>>
      BY <2>1, <2>2 DEF MoveRest
    <3>2. "needs_user" \in Phases \ {"planning"}
      BY DEF Phases
    <3> QED
      BY <1>1, <3>1, <3>2, EndSound
  <2>3. CASE ~engine.resuming
    <3>1. EngineTypes' /\ engine'.stage = "single"
      BY <1>1, <2>1, <2>3, StageSet DEF EngineStages
    <3>2. RunTypes'
      BY <1>1, <2>1, <2>3 DEF RunTypes, MoveRest
    <3>3. Onward({})
      BY <1>1, <2>1, <2>3 DEF Onward, MoveRest, EngineStages
    <3> QED
      BY <1>1, <3>1, <3>2, <3>3, NoneWorking, OnwardIdle
  <2> QED
    BY <2>2, <2>3
<1> QED
  BY <1>2, <1>4, <1>5, <1>6 DEF MIN_CONTEST_FAMILIES

\* From judging on there is a winner, and it wrote a plan.
LEMMA WinnerHeld ==
    ASSUME Sound, engine.stage \in {"judge", "synthesis"}
    PROVE  /\ Winner \in Survivors /\ field[Winner] \in Candidates
           /\ \A g \in Survivors : Ranked(Winner, g)
<1>1. MemTypes /\ Survivors # {}
  BY DEF Sound, Typed, Placed
<1>2. Winner \in Survivors /\ \A g \in Survivors : Ranked(Winner, g)
  BY <1>1, WinnerFound DEF MemTypes
<1> QED
  BY <1>1, <1>2 DEF Survivors, MemTypes, Written

\* The synthesis of a winner with a runner-up, or the winner as it stands.
LEMMA AfterJudgesSound ==
    ASSUME Sound, AfterJudges, MoveRest PROVE Sound'
<1>1. /\ Up /\ EngineTypes /\ RunTypes /\ MemTypes /\ engine.stage = "judge" /\ StageOver
      /\ phase = "planning"
  BY UpAt DEF AfterJudges, Sound, Typed
<1>2. CASE Declare({Synthesis}) /\ Stage("synthesis") /\ UNCHANGED <<phase, planned, lease>>
  <2>1. EngineTypes' /\ engine'.stage = "synthesis"
    BY <1>1, <1>2, StageSet DEF EngineStages
  <2>2. RunTypes'
    BY <1>1, <1>2 DEF RunTypes, MoveRest
  <2>3. {Synthesis} \in SUBSET Jobs
    BY JobKinds
  <2>4. Onward({Synthesis})
    BY <1>1, <1>2 DEF Onward, MoveRest, EngineStages
  <2>5. /\ LedgerTypes' /\ FileTypes' /\ MemTypes' /\ SessionTypes'
        /\ \A j \in {Synthesis} : Declared(j)'
        /\ \A j \in Jobs : JobSound(j)'
    BY <1>1, <2>3, <2>4, OnwardJobs, NoneWorking
  <2>6. Placed'
    <3>1. \A j \in Jobs : at'[j] \notin Working
      BY <1>1, NoneWorking DEF MoveRest, memVars
    <3>2. Survivors' = Survivors /\ at' = at
      BY DEF MoveRest, memVars, Survivors
    <3>3. Survivors # {} /\ \A j \in Contestants : at[j] = "over"
      BY <1>1 DEF Sound, Placed
    <3>4. \A f \in Survivors : at[Judge(f)] = "over"
      BY <1>1 DEF StageOver, StageJobs
    <3>5. StageJobs' = {Synthesis}
      BY <2>1 DEF StageJobs
    <3> QED
      BY <2>1, <2>5, <3>1, <3>2, <3>3, <3>4, <3>5 DEF Placed
  <2> QED
    BY <2>1, <2>2, <2>5, <2>6 DEF Sound, Typed
<1>3. CASE Offer(field[Winner])
  <2>1. field[Winner] \in Plans
    BY <1>1, WinnerHeld DEF Plans
  <2> QED
    BY <1>1, <1>3, <2>1, OfferSound
<1> QED
  BY <1>2, <1>3 DEF AfterJudges

\* A synthesis that went well left its plan on disk.
LEMMA GraftTaken ==
    ASSUME Sound, GraftHeld, engine.stage = "synthesis", StageOver
    PROVE  /\ answer[Synthesis] = "good" =>
                files.grafted \in Grafts /\ files.grafted # NoPlan /\ files.grafted \in Plans
<1>1. at[Synthesis] = "over"
  BY DEF StageOver, StageJobs
<1>2. files.grafted \in Grafts
  BY DEF Sound, Typed, FileTypes
<1> QED
  BY <1>1, <1>2 DEF GraftHeld, Grafts, Plans

LEMMA AfterSynthesisSound ==
    ASSUME Sound, GraftHeld, AfterSynthesis, MoveRest PROVE Sound'
<1>1. engine.stage = "synthesis" /\ StageOver
      /\ Offer(IF answer[Synthesis] = "good" THEN files.grafted ELSE field[Winner])
  BY DEF AfterSynthesis
<1>2. field[Winner] \in Plans
  BY <1>1, WinnerHeld DEF Plans
<1>3. (IF answer[Synthesis] = "good" THEN files.grafted ELSE field[Winner]) \in Plans
  BY <1>1, <1>2, GraftTaken
<1> QED
  BY <1>1, <1>3, OfferSound

LEMMA SinglePlannerSound ==
    ASSUME Sound, SinglePlanner, MoveRest PROVE Sound'
<1>1. engine.stage = "single" /\ StageOver
  BY DEF SinglePlanner, StageOver, StageJobs
<1>2. SinglePlan \in Plans /\ "needs_user" \in Phases \ {"planning"}
  BY DEF Plans, Phases
<1>3. CASE Offer(SinglePlan)
  BY <1>1, <1>2, <1>3, OfferSound
<1>4. CASE End("needs_user") /\ UNCHANGED <<planned, jobs>>
  BY <1>1, <1>2, <1>4, EndSound DEF MoveRest
<1> QED
  BY <1>3, <1>4 DEF SinglePlanner

LEMMA MoveSound ==
    ASSUME Sound, GraftHeld, Move PROVE Sound' /\ GraftHeld'
<1>1. MoveRest
  BY DEF Move, MoveRest
<1>2. GraftHeld'
  <2>1. EngineTypes
    BY DEF Sound, Typed
  <2>2. engine'.stage # "correct"
    BY <2>1 DEF Move, DeclareContestants, AfterContestants, AfterJudges, AfterSynthesis,
                SinglePlanner, Offer, End, Stage, Down, EngineTypes
  <2> QED
    BY <1>1, <2>2 DEF MoveRest, memVars, GraftHeld
<1> QED
  BY <1>1, <1>2, DeclareContestantsSound, AfterContestantsSound, AfterJudgesSound,
     AfterSynthesisSound, SinglePlannerSound DEF Move

\* The critique loop holds no job.
LEMMA CritiqueSound ==
    ASSUME Sound, GraftHeld, Critique PROVE Sound' /\ GraftHeld'
<1>1. engine.stage \in {"review", "correct"} /\ StageOver
  BY DEF Critique, Approve, Correct, Block, Redo, StageOver, StageJobs
<1>2. UNCHANGED <<jobs, files, memVars, live, opened, mishaps, lost>>
  BY DEF Critique
<1>3. Up /\ EngineTypes /\ RunTypes /\ (engine.stage # "review" => phase = "planning")
  BY <1>1, UpAt
<1>4. GraftHeld'
  <2>1. engine'.stage = "correct" => passes' >= 1
    BY <1>3 DEF Critique, Approve, Correct, Block, Redo, End, Stage, Down, EngineTypes, RunTypes
  <2> QED
    BY <1>2, <2>1 DEF memVars, GraftHeld
<1>5. "needs_user" \in Phases \ {"planning"} /\ "awaiting_approval" \in Phases \ {"planning"}
  BY DEF Phases
<1>6. CASE Approve
  BY <1>1, <1>2, <1>4, <1>5, <1>6, EndSound DEF Approve
<1>7. CASE Block
  BY <1>1, <1>2, <1>4, <1>5, <1>7, EndSound DEF Block
<1>8. CASE Correct
  <2>1. EngineTypes' /\ engine'.stage = "correct"
    BY <1>3, <1>8, StageSet DEF Correct, EngineStages
  <2>2. RunTypes'
    BY <1>2, <1>3, <1>8 DEF Correct, RunTypes, Phases, MAX_CRITIQUE_PASSES
  <2>3. Onward({})
    BY <1>2, <1>3, <1>8 DEF Onward, Correct, EngineStages
  <2> QED
    BY <1>1, <1>4, <2>1, <2>2, <2>3, NoneWorking, OnwardIdle
<1>9. CASE Redo
  <2>1. engine.stage = "correct" /\ passes \in 1 .. MAX_CRITIQUE_PASSES /\ passes' = passes
    BY <1>3, <1>9 DEF Redo, GraftHeld, RunTypes
  <2>2. CASE End("needs_user") /\ UNCHANGED planned
    BY <1>1, <1>2, <1>4, <1>5, <2>1, <2>2, EndSound
  <2>3. CASE phase' = "plan_review" /\ planned' = Corrected(passes) /\ Stage("review")
             /\ UNCHANGED lease
    <3>1. EngineTypes' /\ engine'.stage = "review"
      BY <1>3, <2>3, StageSet DEF EngineStages
    <3>2. RunTypes'
      BY <1>2, <1>3, <2>1, <2>3 DEF RunTypes, Phases, Plans
    <3>3. Onward({})
      BY <1>2, <1>3, <2>3 DEF Onward, EngineStages
    <3> QED
      BY <1>1, <1>4, <3>1, <3>2, <3>3, NoneWorking, OnwardIdle
  <2> QED
    BY <1>9, <2>2, <2>3 DEF Redo
<1> QED
  BY <1>2, <1>6, <1>7, <1>8, <1>9 DEF Critique

-----------------------------------------------------------------------------
(* Deaths, losses and resumes keep it *)

ContestInv == Sound /\ GraftHeld

\* A fresh run: nothing declared, nothing asked.
LEMMA InitInv == Init => ContestInv
<1> SUFFICES ASSUME Init PROVE ContestInv
  OBVIOUS
<1> DEFINE h == CHOOSE x \in Hosts : TRUE
<1>1. h \in Hosts /\ h # NoHost /\ lease = h /\ engine = Start(h, FALSE)
  BY ContestAssumption DEF Init
<1> HIDE DEF h
<1>2. EngineTypes /\ Up /\ engine.stage = "declare"
  <2>1. phase = "planning"
    BY DEF Init
  <2> QED
    BY <1>1, <2>1 DEF EngineTypes, Start, Up, EngineStages
<1>3. RunTypes
  BY ContestAssumption DEF RunTypes, Init, Phases, MAX_CRITIQUE_PASSES
<1>4. LedgerTypes
  BY DEF LedgerTypes, Init
<1>5. FileTypes
  BY DEF FileTypes, Init, NoFiles, Written, Verdicts, NoVerdict, Decisions, Grafts
<1>6. MemTypes /\ SessionTypes
  BY DEF MemTypes, SessionTypes, Init, Written
<1>7. \A j \in Jobs : at[j] = "idle" /\ answer[j] = "none" /\ opened[j] = 0 /\ ~Declared(j)
  BY DEF Init, Declared
<1>8. \A j \in Jobs : JobSound(j)
  <2>1. mishaps = 0
    BY DEF Init
  <2> QED
    BY <1>7, <2>1 DEF JobSound, OpensSound
<1>9. Placed
  BY <1>2, <1>7 DEF Placed, StageJobs, Working
<1>10. GraftHeld
  BY <1>2, <1>7, JobKinds DEF GraftHeld
<1> QED
  BY <1>2, <1>3, <1>4, <1>5, <1>6, <1>8, <1>9, <1>10 DEF ContestInv, Sound, Typed

LEMMA Counted ==
    ASSUME RunTypes PROVE mishaps \in Nat /\ lost \in Nat /\ MaxMishaps \in Nat
  BY ContestAssumption DEF RunTypes

LEMMA Forgotten ==
    ASSUME Forget
    PROVE  /\ MemTypes' /\ \A j \in Jobs : at'[j] = "idle" /\ answer'[j] = "none"
  BY DEF Forget, MemTypes, Written

LEMMA ForgottenHolds ==
    ASSUME ContestInv, Forget, UNCHANGED <<files, passes>>, engine'.stage # "correct"
    PROVE  GraftHeld' /\ FileTypes'
  BY Forgotten, JobKinds DEF GraftHeld, ContestInv, Sound, Typed, FileTypes

\* A death forgets what the engine held, and spends the sessions it opened.
LEMMA CrashInv ==
    ASSUME ContestInv, Crash PROVE ContestInv'
<1>1. /\ RunTypes /\ LedgerTypes /\ EngineTypes /\ SessionTypes /\ \A j \in Jobs : JobSound(j)
  BY DEF ContestInv, Sound, Typed
<1>2. /\ engine' = Down /\ Forget /\ mishaps' = mishaps + 1 /\ mishaps < MaxMishaps
      /\ UNCHANGED <<phase, planned, passes, jobs, files, lease, live, opened, lost>>
  BY DEF Crash, Mishap
<1>3. MemTypes' /\ \A j \in Jobs : at'[j] = "idle" /\ answer'[j] = "none"
  BY <1>2, Forgotten
<1>4. RunTypes' /\ mishaps \in Nat
  BY <1>1, <1>2, Counted DEF RunTypes
<1>5. EngineTypes' /\ ~Up' /\ engine'.stage = "down"
  BY <1>1, <1>2 DEF EngineTypes, Down, Up, EngineStages
<1>6. LedgerTypes' /\ SessionTypes'
  BY <1>1, <1>2 DEF LedgerTypes, SessionTypes
<1>7. GraftHeld' /\ FileTypes'
  BY <1>2, <1>5, ForgottenHolds
<1>8. ASSUME NEW j \in Jobs PROVE JobSound(j)'
  <2>1. JobSound(j) /\ at'[j] = "idle" /\ answer'[j] = "none" /\ opened[j] \in Nat
    BY <1>1, <1>3 DEF SessionTypes
  <2>2. Declared(j)' = Declared(j) /\ Record(j)' = Record(j) /\ opened'[j] = opened[j]
    BY <1>2 DEF Declared, Record
  <2>3. OpensSound(j)'
    BY <1>2, <1>4, <2>1, <2>2 DEF JobSound, OpensSound
  <2>4. Declared(j) => RecordSound(j)'
    BY <1>5, <2>1, <2>2 DEF JobSound, RecordSound
  <2> QED
    BY <2>1, <2>2, <2>3, <2>4 DEF JobSound
<1>9. Placed'
  BY <1>3, <1>5 DEF Placed, StageJobs, Working
<1> QED
  BY <1>3, <1>4, <1>5, <1>6, <1>7, <1>8, <1>9 DEF ContestInv, Sound, Typed

\* Sessions and the lock file apart, nothing moves.
LEMMA StillInv ==
    ASSUME ContestInv, UNCHANGED <<phase, planned, passes, jobs, files, engine, memVars, opened,
                            mishaps, lost>>,
           live' \subseteq live, lease' = lease \/ (~Up /\ lease' \in Hosts \cup {NoHost})
    PROVE  ContestInv'
<1>1. UNCHANGED <<phase, planned, passes, jobs, files, engine, at, answer, field, score, opened,
                  mishaps, lost>>
  BY DEF memVars
<1>2. RunTypes' /\ LedgerTypes' /\ FileTypes' /\ MemTypes' /\ SessionTypes'
  BY <1>1 DEF ContestInv, Sound, Typed, RunTypes, LedgerTypes, FileTypes, MemTypes, SessionTypes
<1>3. EngineTypes' /\ Up' = Up
  BY <1>1 DEF ContestInv, Sound, Typed, EngineTypes, Up
<1>4. \A j \in Jobs : JobSound(j)'
  <2>1. \A j \in Jobs : Declared(j)' = Declared(j) /\ Record(j)' = Record(j)
                        /\ Session(j)' = Session(j)
    BY <1>1 DEF Declared, Record, Session
  <2> QED
    BY <1>1, <1>3, <2>1 DEF ContestInv, Sound, JobSound, RecordSound, OpensSound
<1>5. Placed'
  <2>1. Survivors' = Survivors /\ \A j \in Jobs : Declared(j)' = Declared(j)
    BY <1>1 DEF Survivors, Declared
  <2>2. StageJobs' = StageJobs /\ StageJobs \subseteq Jobs
    BY <1>1, <2>1, StageOf DEF StageJobs, ContestInv, Sound, Typed
  <2> QED
    BY <1>1, <2>1, <2>2 DEF Placed, ContestInv, Sound
<1>6. GraftHeld'
  BY <1>1 DEF GraftHeld, ContestInv
<1> QED
  BY <1>2, <1>3, <1>4, <1>5, <1>6 DEF ContestInv, Sound, Typed

\* A resume that starts has proved every unfinished job dead or never dispatched.
LEMMA ResumeLedger ==
    ASSUME ContestInv, NEW h \in Hosts, Judged(h, "live") = {}, Judged(h, "unknown") = {},
           jobs' = [j \in Jobs |-> IF j \in Judged(h, "dead")
                                   THEN {MarkUnverifiable(Record(j))} ELSE jobs[j]]
    PROVE  /\ LedgerTypes'
           /\ \A j \in Jobs : Declared(j)' = Declared(j)
           /\ \A j \in Jobs : Declared(j) =>
                 \/ j \in Judged(h, "dead") /\ Record(j)' = MarkUnverifiable(Record(j))
                 \/ /\ Record(j)' = Record(j) /\ jobs'[j] = jobs[j]
                    /\ Record(j).substate \in {"pending"} \cup Terminal
<1>1. LedgerTypes /\ \A j \in Jobs : Declared(j) => Record(j) \in Records
  BY Recorded DEF ContestInv, Sound, Typed
<1>2. \A j \in Judged(h, "dead") : j \in Jobs /\ Declared(j)
  BY DEF Judged, Unfinished
<1>3. ASSUME NEW j \in Jobs
      PROVE  /\ jobs'[j] = {} \/ \E r \in Records : jobs'[j] = {r}
             /\ Declared(j)' = Declared(j)
             /\ j \in Judged(h, "dead") => Record(j)' = MarkUnverifiable(Record(j))
             /\ j \notin Judged(h, "dead") => Record(j)' = Record(j) /\ jobs'[j] = jobs[j]
  <2>1. CASE j \in Judged(h, "dead")
    <3>1. jobs'[j] = {MarkUnverifiable(Record(j))} /\ Declared(j)
      BY <1>2, <2>1
    <3>2. MarkUnverifiable(Record(j)) \in Records
      BY <1>1, <3>1, RecordsMade
    <3>3. Record(j)' = MarkUnverifiable(Record(j)) /\ Declared(j)'
      <4> DEFINE m == MarkUnverifiable(Record(j))
      <4>1. jobs'[j] = {m}
        BY <3>1
      <4> HIDE DEF m
      <4>2. Record(j)' = m /\ Declared(j)'
        BY <4>1 DEF Record, Declared
      <4> QED
        BY <4>2 DEF m
    <3> QED
      BY <2>1, <3>1, <3>2, <3>3
  <2>2. CASE j \notin Judged(h, "dead")
    BY <1>1, <2>2 DEF LedgerTypes, Declared, Record
  <2> QED
    BY <2>1, <2>2
<1>4. ASSUME NEW j \in Jobs, Declared(j), j \notin Judged(h, "dead")
      PROVE  Record(j).substate \in {"pending"} \cup Terminal
  <2>1. CASE j \in Unfinished
    <3>1. Verdict(j, h) \notin {"live", "unknown", "dead"}
      BY <1>4, <2>1 DEF Judged
    <3> QED
      BY <3>1 DEF Verdict
  <2> QED
    BY <1>4, <2>1 DEF Unfinished
<1>5. LedgerTypes'
  BY <1>3 DEF LedgerTypes
<1> QED
  BY <1>3, <1>4, <1>5

\* It starts with every record pending or terminal.
LEMMA ResumeInv ==
    ASSUME ContestInv, NEW h \in Hosts, Resume(h) PROVE ContestInv'
<1>1. /\ RunTypes /\ LedgerTypes /\ EngineTypes /\ SessionTypes /\ \A j \in Jobs : JobSound(j)
  BY DEF ContestInv, Sound, Typed
<1>2. /\ ~Up /\ phase = "planning" /\ Judged(h, "live") = {} /\ Forget
      /\ UNCHANGED <<planned, passes, files, live, opened, mishaps, lost>>
  BY DEF Resume
<1>3. MemTypes' /\ SessionTypes' /\ \A j \in Jobs : at'[j] = "idle" /\ answer'[j] = "none"
  BY <1>1, <1>2, Forgotten DEF SessionTypes
<1>4. CASE Judged(h, "unknown") # {}
  <2>1. phase' = "needs_user" /\ UNCHANGED <<jobs, engine, lease>>
    BY <1>4 DEF Resume
  <2>2. RunTypes'
    BY <1>1, <1>2, <2>1 DEF RunTypes, Phases
  <2>3. EngineTypes' /\ ~Up' /\ engine'.stage = "down"
    BY <1>1, <1>2, <2>1 DEF EngineTypes, Up
  <2>4. LedgerTypes'
    BY <1>1, <2>1 DEF LedgerTypes
  <2>5. GraftHeld' /\ FileTypes'
    BY <1>2, <2>3, ForgottenHolds
  <2>6. ASSUME NEW j \in Jobs PROVE JobSound(j)'
    <3>1. JobSound(j) /\ at'[j] = "idle" /\ answer'[j] = "none"
      BY <1>1, <1>3
    <3>2. Declared(j)' = Declared(j) /\ Record(j)' = Record(j) /\ opened'[j] = opened[j]
      BY <1>2, <2>1 DEF Declared, Record
    <3>3. OpensSound(j)'
      BY <1>2, <2>1, <2>3, <3>1, <3>2 DEF JobSound, OpensSound
    <3>4. Declared(j) => RecordSound(j)'
      BY <2>3, <3>1, <3>2 DEF JobSound, RecordSound
    <3> QED
      BY <3>1, <3>2, <3>3, <3>4 DEF JobSound
  <2>7. Placed'
    BY <1>3, <2>3 DEF Placed, StageJobs, Working
  <2> QED
    BY <1>3, <2>2, <2>3, <2>4, <2>5, <2>6, <2>7 DEF ContestInv, Sound, Typed
<1>5. CASE Judged(h, "unknown") = {}
  <2>1. /\ jobs' = [j \in Jobs |-> IF j \in Judged(h, "dead")
                                   THEN {MarkUnverifiable(Record(j))} ELSE jobs[j]]
        /\ engine' = Start(h, TRUE) /\ lease' = h /\ UNCHANGED phase
    BY <1>5 DEF Resume
  <2>2. RunTypes'
    BY <1>1, <1>2, <2>1 DEF RunTypes
  <2>3. EngineTypes' /\ Up' /\ engine'.stage = "declare" /\ engine'.resuming
    BY <1>2, <2>1, ContestAssumption DEF EngineTypes, Up, Start, EngineStages
  <2>4. /\ LedgerTypes'
        /\ \A j \in Jobs : Declared(j)' = Declared(j)
        /\ \A j \in Jobs : Declared(j) =>
              \/ j \in Judged(h, "dead") /\ Record(j)' = MarkUnverifiable(Record(j))
              \/ /\ Record(j)' = Record(j) /\ jobs'[j] = jobs[j]
                 /\ Record(j).substate \in {"pending"} \cup Terminal
    BY <1>2, <1>5, <2>1, ResumeLedger
  <2>5. GraftHeld' /\ FileTypes'
    BY <1>2, <2>3, ForgottenHolds
  <2>6. ASSUME NEW j \in Jobs PROVE JobSound(j)'
    <3>1. JobSound(j) /\ at'[j] = "idle" /\ answer'[j] = "none"
      BY <1>1, <1>3
    <3>2. OpensSound(j)'
      BY <1>2, <2>1, <2>3, <3>1 DEF JobSound, OpensSound
    <3>3. ASSUME Declared(j)
          PROVE  /\ Record(j)'.substate \in {"pending"} \cup Terminal
                 /\ Record(j)'.retryable => Record(j)'.substate = "failed"
      <4>1. CASE Record(j)' = MarkUnverifiable(Record(j))
        <5>1. Record(j) \in Records
          BY <1>1, <3>3, Recorded
        <5> QED
          BY <4>1, <5>1 DEF MarkUnverifiable, Records, Terminal
      <4>2. CASE /\ Record(j)' = Record(j)
                 /\ Record(j).substate \in {"pending"} \cup Terminal
        BY <3>1, <3>3, <4>2 DEF JobSound, RecordSound
      <4> QED
        BY <2>4, <3>3, <4>1, <4>2
    <3>4. Declared(j) => RecordSound(j)'
      BY <2>3, <3>1, <3>3 DEF RecordSound
    <3> QED
      BY <1>2, <2>4, <3>1, <3>2, <3>4 DEF JobSound
  <2>7. Placed'
    BY <1>3, <2>3 DEF Placed, StageJobs, Working
  <2> QED
    BY <1>3, <2>2, <2>3, <2>4, <2>5, <2>6, <2>7 DEF ContestInv, Sound, Typed
<1> QED
  BY <1>4, <1>5

\* A mishap that leaves the engine where it was.
LEMMA MishapInv ==
    ASSUME ContestInv, mishaps < MaxMishaps, mishaps' = mishaps + 1,
           UNCHANGED <<passes, jobs, lease, engine, memVars, live, opened>>,
           FileTypes', files'.grafted = files.grafted,
           \/ ~Up /\ phase' = "planning" /\ planned' = NoPlan /\ lost' = lost
           \/ UNCHANGED <<phase, planned>> /\ lost' = lost + 1
    PROVE  ContestInv'
<1>1. /\ RunTypes /\ LedgerTypes /\ EngineTypes /\ MemTypes /\ SessionTypes /\ Placed
      /\ \A j \in Jobs : JobSound(j)
  BY DEF ContestInv, Sound, Typed
<1>2. UNCHANGED <<passes, jobs, lease, engine, at, answer, field, score, live, opened>>
  BY DEF memVars
<1>3. RunTypes' /\ mishaps \in Nat
  BY <1>1, <1>2, Counted DEF RunTypes, Phases
<1>4. EngineTypes' /\ Up' = Up
  BY <1>1, <1>2 DEF EngineTypes, Up
<1>5. LedgerTypes' /\ MemTypes' /\ SessionTypes'
  BY <1>1, <1>2 DEF LedgerTypes, MemTypes, SessionTypes
<1>6. \A j \in Jobs : /\ Declared(j)' = Declared(j) /\ Record(j)' = Record(j)
                      /\ Session(j)' = Session(j) /\ opened[j] \in Nat
  BY <1>1, <1>2 DEF Declared, Record, Session, SessionTypes
<1>7. ASSUME NEW j \in Jobs PROVE JobSound(j)'
  <2>1. JobSound(j) /\ opened[j] <= mishaps + 1
    BY <1>1, <1>3, <1>6 DEF JobSound, OpensSound
  <2>2. OpensSound(j)'
    BY <1>2, <1>3, <1>6, <2>1 DEF JobSound, OpensSound
  <2>3. Declared(j) => RecordSound(j)'
    BY <1>2, <1>4, <1>6, <2>1 DEF JobSound, RecordSound
  <2> QED
    BY <1>2, <1>6, <2>1, <2>2, <2>3 DEF JobSound
<1>8. Placed'
  <2>1. Survivors' = Survivors
    BY <1>2 DEF Survivors
  <2>2. StageJobs' = StageJobs /\ StageJobs \subseteq Jobs
    BY <1>1, <1>2, <2>1, StageOf DEF StageJobs
  <2> QED
    BY <1>1, <1>2, <1>6, <2>1, <2>2 DEF Placed
<1>9. GraftHeld'
  BY <1>2 DEF ContestInv, GraftHeld
<1> QED
  BY <1>3, <1>4, <1>5, <1>7, <1>8, <1>9 DEF ContestInv, Sound, Typed

\* A candidate file that vanishes.
LEMMA LoseInv ==
    ASSUME ContestInv, NEW f \in Seats, Lose(f)
    PROVE  /\ ContestInv' /\ PutCandidate(f, NoPlan) /\ FileTypes'
<1>1. FileTypes /\ NoPlan \in Written /\ PutCandidate(f, NoPlan)
  BY DEF ContestInv, Sound, Typed, Written, Lose, PutCandidate
<1>2. FileTypes' /\ files'.grafted = files.grafted
  BY <1>1, CandidatePut
<1> QED
  BY <1>1, <1>2, MishapInv DEF Lose, Mishap

\* ContestInv is inductive.
LEMMA NextInv == ContestInv /\ [Next]_vars => ContestInv'
<1> SUFFICES ASSUME ContestInv, [Next]_vars PROVE ContestInv'
  OBVIOUS
<1>1. Sound /\ GraftHeld
  BY DEF ContestInv
<1>2. ASSUME NEW j \in Jobs, Enter(j) \/ Open(j) \/ Dispatch(j) \/ Answer(j) \/ Settle(j)
      PROVE  ContestInv'
  BY <1>1, <1>2, EnterSound, OpenSound, DispatchSound, AnswerSound, SettleSound, GraftHeldEngine
     DEF ContestInv
<1>3. CASE Keep
  BY <1>1, <1>3, KeepSound, GraftHeldEngine DEF ContestInv
<1>4. CASE Move
  BY <1>1, <1>4, MoveSound DEF ContestInv
<1>5. CASE Critique
  BY <1>1, <1>5, CritiqueSound DEF ContestInv
<1>6. CASE Crash
  BY <1>6, CrashInv
<1>7. CASE Exit
  <2>1. live' \subseteq live
    BY <1>7 DEF Exit
  <2> QED
    BY <1>7, <2>1, StillInv DEF Exit
<1>8. CASE Unlock
  BY <1>8, StillInv DEF Unlock
<1>9. ASSUME NEW h \in Hosts, Resume(h) PROVE ContestInv'
  BY <1>9, ResumeInv
<1>10. ASSUME NEW h \in Hosts, Return(h) PROVE ContestInv'
  <2>1. FileTypes' /\ files' = files
    BY <1>10 DEF Return, ContestInv, Sound, Typed, FileTypes
  <2> QED
    BY <1>10, <2>1, MishapInv DEF Return, Mishap
<1>11. ASSUME NEW f \in Seats, Lose(f) PROVE ContestInv'
  BY <1>11, LoseInv
<1>12. CASE UNCHANGED vars
  BY <1>12, StillInv DEF vars
<1> QED
  BY <1>2, <1>3, <1>4, <1>5, <1>6, <1>7, <1>8, <1>9, <1>10, <1>11, <1>12 DEF Next, Engine

\* The ledger, the engine's place in every job and the sessions opened agree in
\* every reachable state: crashes between any two writes, blocked runs taken up
\* again, files lost.
THEOREM ContestSound == Spec => []ContestInv
<1> QED
  BY InitInv, NextInv, PTL DEF Spec

\* Type correctness of the planning phase: among it that a live engine holds the
\* lease, whoever died and whoever reclaimed it.
THEOREM PlanTyped == Spec => []PlanTypeOK
<1>1. ContestInv => PlanTypeOK
  <2> SUFFICES ASSUME ContestInv PROVE PlanTypeOK
    OBVIOUS
  <2>1. RunTypes /\ LedgerTypes /\ FileTypes /\ EngineTypes /\ MemTypes /\ SessionTypes
    BY DEF ContestInv, Sound, Typed
  <2>2. \A j \in Jobs : jobs[j] \subseteq Records /\ Cardinality(jobs[j]) <= 1
    <3>1. TAKE j \in Jobs
    <3>2. CASE jobs[j] = {}
      BY <3>2, FS_EmptySet
    <3>3. CASE \E r \in Records : jobs[j] = {r}
      BY <3>3, FS_Singleton
    <3> QED
      BY <2>1, <3>2, <3>3 DEF LedgerTypes
  <2> QED
    BY <2>1, <2>2
       DEF PlanTypeOK, RunTypes, FileTypes, EngineTypes, MemTypes, SessionTypes, Phases, Written,
           Working
<1> QED
  BY <1>1, ContestSound, PTL

-----------------------------------------------------------------------------
(* What was folded once stands *)

\* What the moves from stage to stage do to the ledger.
LEMMA MoveLedger ==
    ASSUME Sound, Move
    PROVE  /\ MoveRest /\ Up /\ \A j \in Jobs : at[j] \notin Working
           /\ \A j \in Jobs : Declared(j) =>
                 Declared(j)' /\ Record(j)' = Record(j) /\ jobs'[j] = jobs[j]
           /\ \A j \in Jobs : ~Declared(j) /\ Declared(j)' => Record(j)' = Pending
<1>1. MoveRest
  BY DEF Move, MoveRest
<1>2. engine.stage # "down" /\ StageOver
  BY DEF Move, DeclareContestants, AfterContestants, AfterJudges, AfterSynthesis, SinglePlanner,
         StageOver, StageJobs
<1>3. Up /\ \A j \in Jobs : at[j] \notin Working
  BY <1>2, UpAt, NoneWorking
<1>4. \A j \in Jobs : jobs'[j] = jobs[j] \/ (~Declared(j) /\ jobs'[j] = {Pending})
  BY DEF Move, DeclareContestants, AfterContestants, AfterJudges, AfterSynthesis, SinglePlanner,
         Offer, Declare
<1>5. ASSUME NEW j \in Jobs
      PROVE  /\ Declared(j) => Declared(j)' /\ Record(j)' = Record(j) /\ jobs'[j] = jobs[j]
             /\ ~Declared(j) /\ Declared(j)' => Record(j)' = Pending
  BY <1>4 DEF Declared, Record
<1> QED
  BY <1>1, <1>3, <1>5

\* A job to be folded is not being worked on.
LEMMA FoldsIdle ==
    ASSUME Sound, NEW j \in Jobs, Folds(j)
    PROVE  /\ at[j] \in {"idle", "over"} /\ (at[j] = "idle" /\ Up => engine.resuming)
           /\ Declared(j) /\ j \notin Unfinished
<1>1. JobSound(j) /\ at[j] \in {"idle", "over"} \cup Working
  BY DEF Sound, Typed, MemTypes
<1>2. Declared(j) /\ Record(j).substate \in Terminal
  BY DEF Folds
<1>3. RecordSound(j) /\ Record(j).substate # "pending"
  BY <1>1, <1>2 DEF JobSound, Terminal
<1> QED
  BY <1>1, <1>2, <1>3 DEF RecordSound, Working, Unfinished, Terminal

\* The steps that touch the ledger, the counts of sessions or the artifacts.
LEMMA StepKinds ==
    ASSUME Next
    PROVE  \/ \E j \in Jobs : Enter(j) \/ Open(j) \/ Dispatch(j) \/ Answer(j) \/ Settle(j)
           \/ Keep
           \/ Move
           \/ \E h \in Hosts : Resume(h)
           \/ \E f \in Seats : Lose(f)
           \/ UNCHANGED <<jobs, opened, files, lost>>
  BY DEF Next, Engine, Critique, Crash, Exit, Unlock, Return

\* Keep is a step with one job, which the engine has the answer of.
LEMMA KeepJob ==
    ASSUME Sound, Keep
    PROVE  KeepRest /\ \E j \in Jobs : JobFrame(j) /\ at[j] \in {"answered", "kept"}
<1>1. KeepRest
  BY DEF Keep, KeepRest
<1>2. ASSUME NEW f \in Seats, KeepPlan(f) /\ UNCHANGED score
      PROVE  JobFrame(Contestant(f)) /\ at[Contestant(f)] \in {"answered", "kept"}
  BY <1>1, <1>2, KeepPlanFrame DEF KeepPlan
<1>3. ASSUME NEW f \in Seats, KeepCandidate(f) /\ UNCHANGED score
      PROVE  JobFrame(Contestant(f)) /\ at[Contestant(f)] \in {"answered", "kept"}
  BY <1>1, <1>3, KeepCandidateFrame DEF KeepCandidate
<1>4. ASSUME NEW f \in Seats, KeepVerdict(f) /\ UNCHANGED field
      PROVE  JobFrame(Judge(f)) /\ at[Judge(f)] \in {"answered", "kept"}
  BY <1>1, <1>4, KeepVerdictFrame DEF KeepVerdict
<1>5. ASSUME (KeepDecisions \/ KeepGrafted) /\ UNCHANGED <<field, score>>
      PROVE  JobFrame(Synthesis) /\ at[Synthesis] \in {"answered", "kept"}
  BY <1>1, <1>5, KeepSynthesisFrame DEF KeepDecisions, KeepGrafted
<1> QED
  BY <1>1, <1>2, <1>3, <1>4, <1>5, JobKinds DEF Keep

\* What is folded once is folded ever after: neither its record nor its count
\* of sessions moves, and no step but a loss or one with another job writes a file.
LEMMA FoldStands ==
    ASSUME ContestInv, [Next]_vars, NEW j \in Jobs, Folds(j), Stored(j)
    PROVE  /\ opened'[j] = opened[j] /\ jobs'[j] = jobs[j]
           /\ \/ files' = files
              \/ lost' = lost + 1
              \/ \E k \in Jobs \ {j} : JobFrame(k)
<1>1. Sound
  BY DEF ContestInv
<1>2. at[j] \in {"idle", "over"} /\ (at[j] = "idle" /\ Up => engine.resuming)
      /\ Declared(j) /\ j \notin Unfinished
  BY <1>1, FoldsIdle
<1>3. ASSUME NEW k \in Jobs, Enter(k) \/ Open(k) \/ Dispatch(k) \/ Answer(k) \/ Settle(k)
      PROVE  /\ opened'[j] = opened[j] /\ jobs'[j] = jobs[j]
             /\ files' = files \/ \E i \in Jobs \ {j} : JobFrame(i)
  <2>1. JobFrame(k)
    BY <1>1, <1>3, EnterFrame, OpenFrame, DispatchFrame, AnswerFrame, SettleFrame
  <2>2. CASE k # j
    BY <2>1, <2>2 DEF JobFrame
  <2>3. CASE k = j
    <3>1. Enter(j)
      BY <1>2, <1>3, <2>3 DEF Open, Dispatch, Answer, Settle
    <3>2. /\ UNCHANGED opened /\ j \in StageJobs /\ Up
          /\ EnterOpen(j) \/ EnterFold(j) \/ EnterNothing(j)
      BY <1>1, <3>1, EnterWays, EnterFrame, SoundOf
    <3>3. EnterFold(j)
      BY <1>2, <3>2 DEF EnterOpen, EnterSame, EnterAgain, EnterNothing, Folds
    <3> QED
      BY <3>2, <3>3 DEF EnterFold
  <2> QED
    BY <2>2, <2>3
<1>4. CASE Keep
  <2>1. PICK k \in Jobs : JobFrame(k) /\ at[k] \in {"answered", "kept"}
    BY <1>1, <1>4, KeepJob
  <2> QED
    BY <1>1, <1>2, <1>4, <2>1, KeepJob DEF KeepRest
<1>5. CASE Move
  <2>1. MoveRest
    BY <1>1, <1>5, MoveLedger
  <2>2. jobs'[j] = jobs[j]
    BY <1>1, <1>2, <1>5, MoveLedger
  <2> QED
    BY <2>1, <2>2 DEF MoveRest
<1>6. ASSUME NEW h \in Hosts, Resume(h)
      PROVE  opened'[j] = opened[j] /\ jobs'[j] = jobs[j] /\ files' = files
  BY <1>1, <1>2, <1>6 DEF Resume, Judged, Sound, Typed, LedgerTypes
<1>7. ASSUME NEW f \in Seats, Lose(f)
      PROVE  opened'[j] = opened[j] /\ jobs'[j] = jobs[j] /\ lost' = lost + 1
  BY <1>7 DEF Lose
<1>8. CASE UNCHANGED <<jobs, opened, files, lost>>
  BY <1>8
<1>9. CASE UNCHANGED vars
  BY <1>9 DEF vars
<1> QED
  BY <1>3, <1>4, <1>5, <1>6, <1>7, <1>8, <1>9, StepKinds

\* A job with its answer and its artifact on disk is never asked again and its
\* record never rewritten, by any engine (resumeDisposition: fold).
THEOREM ContestSettledKept == Spec => SettledKept
<1>1. ASSUME ContestInv, [Next]_vars, NEW j \in Jobs,
             Declared(j), Record(j).substate \in {"completed", "disqualified"}, Stored(j)
      PROVE  opened'[j] = opened[j] /\ Record(j)'.substate = Record(j).substate
  <2>1. Folds(j)
    <3>1. ~Record(j).retryable
      BY <1>1 DEF ContestInv, Sound, JobSound, RecordSound
    <3> QED
      BY <1>1, <3>1 DEF Folds, Terminal
  <2> QED
    BY <1>1, <2>1, FoldStands DEF Record
<1>2. ContestInv /\ [Next]_vars =>
        [\A j \in Jobs :
            Declared(j) /\ Record(j).substate \in {"completed", "disqualified"} /\ Stored(j)
            => opened'[j] = opened[j] /\ Record(j)'.substate = Record(j).substate]_vars
  BY <1>1
<1> QED
  BY <1>2, ContestSound, PTL DEF Spec, SettledKept

-----------------------------------------------------------------------------
(* The budget of sessions, and no two of one job *)

\* A dispatch beyond the first is paid for before it is made.
Paid(j) ==
    Declared(j) =>
        /\ opened[j] <= 1 + Record(j).retries
        /\ Record(j).substate = "pending" /\ at[j] # "asked" => opened[j] <= Record(j).retries
Budget == \A j \in Jobs : Paid(j)

\* A session that runs is the one the engine waits for, or the record names it.
Tracked(s) ==
    /\ Declared(s.job)
    /\ \/ at[s.job] \in {"asked", "waits"} /\ s = Session(s.job)
       \/ ~Up /\ Record(s.job).child = s /\ Record(s.job).substate = "dispatched"
Alive == \A s \in live : Tracked(s)

\* A session the engine waits for is not touched by its writes.
LEMMA KeepAt ==
    ASSUME Sound, Keep
    PROVE  /\ KeepRest
           /\ \A k \in Jobs : at[k] \in {"asked", "waits"} => at'[k] = at[k]
<1>1. MemTypes
  BY DEF Sound, Typed
<1>2. KeepRest
  BY DEF Keep, KeepRest
<1>3. PICK j \in Jobs : at[j] \in {"answered", "kept"} /\ \E place : Goto(j, place)
  BY JobKinds DEF Keep, KeepPlan, KeepCandidate, KeepVerdict, KeepDecisions, KeepGrafted
<1>4. \A k \in Jobs : k # j => at'[k] = at[k]
  BY <1>1, <1>3 DEF MemTypes, Goto
<1> QED
  BY <1>2, <1>3, <1>4

LEMMA FramePaid ==
    ASSUME Sound, Budget, NEW j \in Jobs, JobFrame(j), Paid(j)' PROVE Budget'
  BY DEF JobFrame, Budget, Paid, Declared, Record

\* Every way to a second dispatch spends a retry first (spendRetry).
LEMMA JobBudget ==
    ASSUME Sound, Budget, NEW j \in Jobs,
           Enter(j) \/ Open(j) \/ Dispatch(j) \/ Answer(j) \/ Settle(j)
    PROVE  Budget'
<1>1. JobFrame(j) /\ j \in StageJobs
  BY EnterFrame, OpenFrame, DispatchFrame, AnswerFrame, SettleFrame DEF JobFrame
<1>2. /\ LedgerTypes /\ MemTypes /\ SessionTypes /\ Declared(j) /\ Record(j) \in Records
      /\ RecordSound(j) /\ opened[j] \in Nat /\ Paid(j)
      /\ Record(j).retries \in 0 .. MAX_JOB_RETRIES
  BY <1>1, SoundOf DEF Budget, Records
<1>3. CASE Enter(j)
  <2>1. UNCHANGED opened /\ (EnterOpen(j) \/ EnterFold(j) \/ EnterNothing(j)) /\ at[j] = "idle"
    BY <1>1, <1>3, EnterFrame, EnterWays DEF Enter
  <2>2. CASE UNCHANGED jobs
    <3>1. Paid(j)'
      BY <1>2, <2>1, <2>2 DEF Paid, Record, Declared
    <3> QED
      BY <1>1, <3>1, FramePaid
  <2>3. CASE EnterAgain(j)
    <3>1. Record(j)' = [Pending EXCEPT !.retries = Record(j).retries + 1]
      BY <1>2, <2>3, SpendsRetry DEF EnterAgain
    <3>2. Record(j)'.retries = Record(j).retries + 1
      BY <3>1 DEF Pending
    <3>3. Paid(j)'
      BY <1>2, <2>1, <3>2 DEF Paid, MAX_JOB_RETRIES
    <3> QED
      BY <1>1, <3>3, FramePaid
  <2> QED
    BY <2>1, <2>2, <2>3 DEF EnterOpen, EnterSame, EnterFold, EnterNothing
<1>4. CASE Open(j)
  <2>1. Record(j)' = Record(j) /\ Record(j).substate = "pending" /\ at[j] = "open"
    BY <1>2, <1>4 DEF Open, Record, RecordSound
  <2>2. \/ at'[j] = "asked" /\ opened'[j] = opened[j] + 1
        \/ at'[j] = "answered" /\ opened'[j] = opened[j]
    BY <1>2, <1>4, GotoMoves DEF Open, Working, SessionTypes
  <2>3. Paid(j)'
    BY <1>2, <2>1, <2>2 DEF Paid, MAX_JOB_RETRIES
  <2> QED
    BY <1>1, <2>3, FramePaid
<1>5. ASSUME Dispatch(j) \/ Answer(j) \/ Settle(j) PROVE Paid(j)'
  <2>1. /\ Record(j)'.retries = Record(j).retries
        /\ Record(j)'.substate \in {"dispatched", "running"} \cup Terminal
    <3>1. CASE Dispatch(j)
      BY <1>2, <3>1, DispatchFrame DEF Records
    <3>2. CASE Answer(j)
      <4>1. Record(j).substate = "dispatched"
        BY <1>2, <3>2 DEF Answer, RecordSound
      <4> QED
        BY <1>2, <3>2, <4>1, AnswerFrame DEF Records
    <3>3. CASE Settle(j)
      BY <1>2, <3>3, SettleFrame DEF Records
    <3> QED
      BY <1>5, <3>1, <3>2, <3>3
  <2>2. opened' = opened
    BY <1>5 DEF Dispatch, Answer, Settle
  <2> QED
    BY <1>2, <2>1, <2>2 DEF Paid, Terminal
<1> QED
  BY <1>1, <1>3, <1>4, <1>5, FramePaid

\* A resume fails dead jobs and keeps what they spent.
LEMMA BudgetStep ==
    ASSUME GapCrash = FALSE, ContestInv, Budget, [Next]_vars PROVE Budget'
<1>1. Sound /\ EngineTypes /\ LedgerTypes /\ SessionTypes /\ \A j \in Jobs : JobSound(j)
  BY DEF ContestInv, Sound, Typed
<1>2. ASSUME NEW j \in Jobs, Enter(j) \/ Open(j) \/ Dispatch(j) \/ Answer(j) \/ Settle(j)
      PROVE  Budget'
  BY <1>1, <1>2, JobBudget
\* Records and counts as they were: what matters is who is asked.
<1>3. ASSUME UNCHANGED <<jobs, opened>>, \A j \in Jobs : at[j] = "asked" => at'[j] = "asked"
      PROVE  Budget'
  BY <1>3 DEF Budget, Paid, Declared, Record
<1>4. CASE Keep
  <2>1. UNCHANGED <<jobs, opened>> /\ \A j \in Jobs : at[j] = "asked" => at'[j] = "asked"
    BY <1>1, <1>4, KeepAt DEF KeepRest
  <2> QED
    BY <1>3, <2>1
<1>5. CASE Move
  <2>1. /\ UNCHANGED <<at, opened>>
        /\ \A j \in Jobs : Declared(j) => Declared(j)' /\ Record(j)' = Record(j)
        /\ \A j \in Jobs : ~Declared(j) /\ Declared(j)' => Record(j)' = Pending
    BY <1>1, <1>5, MoveLedger DEF MoveRest, memVars
  <2>2. \A j \in Jobs : ~Declared(j) => opened[j] = 0
    BY <1>1 DEF JobSound
  <2>3. \A j \in Jobs : Declared(j) => Paid(j)'
    BY <2>1 DEF Budget, Paid
  <2>4. \A j \in Jobs : ~Declared(j) => Paid(j)'
    BY <2>1, <2>2 DEF Paid, Pending
  <2> QED
    BY <2>3, <2>4 DEF Budget
<1>6. CASE Critique \/ Exit \/ Unlock \/ UNCHANGED vars
  BY <1>3, <1>6 DEF Critique, Exit, Unlock, vars, memVars
<1>7. CASE Crash
  <2>1. \A j \in Jobs : at[j] # "asked"
    BY <1>7 DEF Crash
  <2> QED
    BY <1>3, <1>7, <2>1 DEF Crash
<1>8. ASSUME NEW h \in Hosts, Resume(h) PROVE Budget'
  <2>1. \A j \in Jobs : at[j] # "asked"
    BY <1>1, <1>8 DEF Resume, Sound, Placed, StageJobs, EngineTypes, Working
  <2>2. UNCHANGED opened /\ ~Up /\ Judged(h, "live") = {}
    BY <1>8 DEF Resume
  <2>3. CASE UNCHANGED jobs
    BY <1>3, <2>1, <2>2, <2>3
  <2>4. CASE Judged(h, "unknown") = {}
    <3>1. /\ \A j \in Jobs : Declared(j)' = Declared(j)
          /\ \A j \in Jobs : Declared(j) =>
                \/ j \in Judged(h, "dead") /\ Record(j)' = MarkUnverifiable(Record(j))
                \/ Record(j)' = Record(j) /\ jobs'[j] = jobs[j]
      BY <1>8, <2>2, <2>4, ResumeLedger DEF Resume
    <3>2. ASSUME NEW j \in Jobs PROVE Paid(j)'
      <4>1. CASE Declared(j) /\ Record(j)' = MarkUnverifiable(Record(j))
        <5>1. Record(j)'.retries = Record(j).retries /\ Record(j)'.substate = "failed"
          BY <1>1, <4>1, Recorded DEF MarkUnverifiable, Records
        <5> QED
          BY <2>2, <3>1, <4>1, <5>1 DEF Paid, Budget
      <4>2. CASE Declared(j) /\ Record(j)' = Record(j)
        BY <2>1, <2>2, <3>1, <4>2 DEF Paid, Budget
      <4>3. CASE ~Declared(j)
        BY <3>1, <4>3 DEF Paid
      <4> QED
        BY <3>1, <4>1, <4>2, <4>3
    <3> QED
      BY <3>2 DEF Budget
  <2> QED
    BY <1>8, <2>3, <2>4 DEF Resume
<1>9. CASE (\E h \in Hosts : Return(h)) \/ (\E f \in Seats : Lose(f))
  BY <1>3, <1>9 DEF Return, Lose, memVars
<1> QED
  BY <1>2, <1>4, <1>5, <1>6, <1>7, <1>8, <1>9 DEF Next, Engine

\* One session and one retry a job, over all the engines of a run that do not die
\* between a spawn and its record (MAX_JOB_RETRIES).
THEOREM ContestSessionsBounded == GapCrash = FALSE => (Spec => []SessionsBounded)
<1> SUFFICES ASSUME GapCrash = FALSE PROVE Spec => []SessionsBounded
  OBVIOUS
<1>1. Init => Budget
  BY DEF Init, Budget, Paid, Declared
<1>2. ContestInv /\ Budget /\ [Next]_vars => Budget'
  BY BudgetStep
<1>3. ContestInv /\ Budget => SessionsBounded
  <2> SUFFICES ASSUME ContestInv, Budget, NEW j \in Jobs PROVE opened[j] <= 1 + MAX_JOB_RETRIES
    BY DEF SessionsBounded
  <2>1. JobSound(j) /\ LedgerTypes /\ SessionTypes /\ opened[j] \in Nat
    BY DEF ContestInv, Sound, Typed, SessionTypes
  <2>2. CASE Declared(j)
    <3>1. Record(j).retries \in 0 .. MAX_JOB_RETRIES
      BY <2>1, <2>2, Recorded DEF Records
    <3> QED
      BY <2>1, <2>2, <3>1 DEF Budget, Paid, MAX_JOB_RETRIES
  <2>3. CASE ~Declared(j)
    BY <2>1, <2>3 DEF JobSound, MAX_JOB_RETRIES
  <2> QED
    BY <2>2, <2>3
<1> QED
  BY <1>1, <1>2, <1>3, ContestSound, PTL DEF Spec

\* No job in hand, no session running, for a live engine.
LEMMA NothingRuns ==
    ASSUME Sound, Alive, Up, \A j \in Jobs : at[j] \notin Working PROVE live = {}
  BY DEF Sound, Typed, SessionTypes, Sessions, Alive, Tracked, Working

LEMMA FrameTracked ==
    ASSUME Sound, Alive, NEW j \in Jobs, JobFrame(j), NEW s \in live, s.job # j PROVE Tracked(s)'
<1>1. s.job \in Jobs
  BY DEF Sound, Typed, SessionTypes, Sessions
<1> QED
  BY <1>1 DEF JobFrame, Alive, Tracked, Declared, Record, Session, Up

\* A session is opened where none runs, and recorded under its own name.
LEMMA JobAlive ==
    ASSUME Sound, Alive, NEW j \in Jobs,
           Enter(j) \/ Open(j) \/ Dispatch(j) \/ Answer(j) \/ Settle(j)
    PROVE  Alive'
<1>1. JobFrame(j) /\ j \in StageJobs
  BY EnterFrame, OpenFrame, DispatchFrame, AnswerFrame, SettleFrame DEF JobFrame
<1>2. /\ Up /\ Declared(j) /\ MemTypes /\ SessionTypes /\ Declared(j)' /\ engine' = engine
  BY <1>1, SoundOf DEF JobFrame
<1>3. \A s \in live : s.job = j => at[j] \in {"asked", "waits"} /\ s = Session(j)
  BY <1>2 DEF Alive, Tracked
<1>4. \A s \in live : s.job # j => Tracked(s)'
  BY <1>1, FrameTracked
<1>5. CASE Enter(j) \/ Settle(j)
  <2>1. live' = live /\ at[j] \notin {"asked", "waits"}
    BY <1>5 DEF Enter, Settle
  <2> QED
    BY <1>3, <1>4, <2>1 DEF Alive
<1>6. CASE Open(j)
  <2>1. at[j] = "open"
    BY <1>6 DEF Open
  <2>2. CASE live' = live
    BY <1>3, <1>4, <2>1, <2>2 DEF Alive
  <2>3. CASE /\ opened' = [opened EXCEPT ![j] = @ + 1]
             /\ live' = live \cup {[Session(j) EXCEPT !.nth = opened[j] + 1]}
             /\ Goto(j, "asked")
    <3>1. Session(j)' = [Session(j) EXCEPT !.nth = opened[j] + 1] /\ Session(j)'.job = j
      BY <1>2, <2>3 DEF Session, SessionTypes
    <3>2. at'[j] = "asked"
      BY <1>2, <2>3, GotoMoves DEF Working
    <3>3. ASSUME NEW s \in live' PROVE Tracked(s)'
      <4>1. s = Session(j)' \/ s \in live
        BY <2>3, <3>1, <3>3
      <4>2. CASE s = Session(j)'
        <5>1. s.job = j
          BY <3>1, <4>2
        <5> QED
          BY <1>2, <3>2, <4>2, <5>1 DEF Tracked
      <4>3. CASE s \in live
        <5>1. s.job # j
          BY <1>3, <2>1, <4>3
        <5> QED
          BY <1>4, <4>3, <5>1
      <4> QED
        BY <4>1, <4>2, <4>3
    <3> QED
      BY <3>3 DEF Alive
  <2> QED
    BY <1>6, <2>2, <2>3 DEF Open
<1>7. CASE Dispatch(j)
  <2>1. live' = live /\ opened' = opened /\ at'[j] = "waits"
    BY <1>2, <1>7, GotoMoves DEF Dispatch, Working
  <2>2. Session(j)' = Session(j)
    BY <1>2, <2>1 DEF Session
  <2>3. \A s \in live : s.job = j => Tracked(s)'
    BY <1>2, <1>3, <2>1, <2>2 DEF Tracked
  <2> QED
    BY <1>4, <2>1, <2>3 DEF Alive
<1>8. CASE Answer(j)
  <2>1. live' = live \ {Session(j)}
    BY <1>8 DEF Answer
  <2> QED
    BY <1>3, <1>4, <2>1 DEF Alive
<1> QED
  BY <1>5, <1>6, <1>7, <1>8

\* A resume with a session still running never starts: the record shows it live,
\* or of another host.
LEMMA AliveStep ==
    ASSUME GapCrash = FALSE, ContestInv, Alive, [Next]_vars PROVE Alive'
<1>1. /\ Sound /\ EngineTypes /\ LedgerTypes /\ SessionTypes
      /\ \A j \in Jobs : JobSound(j)
      /\ \A s \in live : s.job \in Jobs
  BY DEF ContestInv, Sound, Typed, SessionTypes, Sessions
<1>2. ASSUME NEW j \in Jobs, Enter(j) \/ Open(j) \/ Dispatch(j) \/ Answer(j) \/ Settle(j)
      PROVE  Alive'
  BY <1>1, <1>2, JobAlive
<1>3. CASE Keep
  <2>1. \A j \in Jobs : at[j] \in {"asked", "waits"} => at'[j] = at[j]
    BY <1>1, <1>3, KeepAt
  <2>2. UNCHANGED <<jobs, engine, live, opened>>
    BY <1>3 DEF Keep
  <2>3. ASSUME NEW s \in live PROVE Tracked(s)'
    <3>1. Tracked(s) /\ s.job \in Jobs
      BY <1>1, <2>3 DEF Alive
    <3>2. at[s.job] \in {"asked", "waits"} => at'[s.job] = at[s.job]
      BY <2>1, <3>1
    <3> QED
      BY <2>2, <3>1, <3>2 DEF Tracked, Declared, Record, Session, Up
  <2> QED
    BY <2>2, <2>3 DEF Alive
<1>4. CASE Move \/ Critique
  <2>1. live' = live /\ Up /\ \A j \in Jobs : at[j] \notin Working
    <3>1. CASE Move
      BY <1>1, <3>1, MoveLedger DEF MoveRest
    <3>2. CASE Critique
      <4>1. engine.stage # "down" /\ StageOver
        BY <3>2 DEF Critique, Approve, Correct, Block, Redo, StageOver, StageJobs
      <4> QED
        BY <1>1, <3>2, <4>1, UpAt, NoneWorking DEF Critique
    <3> QED
      BY <1>4, <3>1, <3>2
  <2> QED
    BY <1>1, <2>1, NothingRuns DEF Alive
<1>5. CASE Crash
  <2>1. /\ Up /\ \A j \in Jobs : at[j] # "asked"
        /\ engine' = Down /\ UNCHANGED <<jobs, live>>
    BY <1>5 DEF Crash
  <2>2. ASSUME NEW s \in live PROVE Tracked(s)'
    <3>1. Declared(s.job) /\ at[s.job] = "waits" /\ s = Session(s.job) /\ s.job \in Jobs
      <4>1. Tracked(s) /\ s.job \in Jobs
        BY <1>1, <2>2 DEF Alive
      <4> QED
        BY <2>1, <4>1 DEF Tracked
    <3>2. Record(s.job).substate = "dispatched" /\ Record(s.job).child = s
      BY <1>1, <3>1 DEF JobSound, RecordSound
    <3>3. ~Up'
      BY <2>1 DEF Up, Down
    <3> QED
      BY <2>1, <3>1, <3>2, <3>3 DEF Tracked, Declared, Record
  <2> QED
    BY <2>1, <2>2 DEF Alive
<1>6. ASSUME UNCHANGED <<jobs, engine, at, opened>>, live' \subseteq live PROVE Alive'
  BY <1>6 DEF Alive, Tracked, Declared, Record, Session, Up
<1>7. CASE Exit \/ Unlock \/ UNCHANGED vars
  BY <1>6, <1>7 DEF Exit, Unlock, vars, memVars
<1>8. CASE (\E h \in Hosts : Return(h)) \/ (\E f \in Seats : Lose(f))
  BY <1>6, <1>8 DEF Return, Lose, memVars
<1>9. ASSUME NEW h \in Hosts, Resume(h) PROVE Alive'
  <2>1. ~Up /\ Judged(h, "live") = {} /\ live' = live
    BY <1>9 DEF Resume
  <2>2. \A j \in Jobs : at[j] \notin Working
    BY <1>1, <2>1 DEF Sound, Placed, StageJobs, EngineTypes
  <2>3. \A s \in live : /\ Declared(s.job) /\ Record(s.job).child = s
                        /\ Record(s.job).substate = "dispatched"
    <3>1. TAKE s \in live
    <3>2. Tracked(s) /\ s.job \in Jobs
      BY <1>1 DEF Alive
    <3> QED
      BY <2>2, <3>2 DEF Tracked, Working
  <2>4. CASE UNCHANGED <<jobs, engine>>
    BY <2>1, <2>3, <2>4 DEF Alive, Tracked, Declared, Record, Up
  <2>5. CASE Judged(h, "unknown") = {}
    <3>1. ASSUME NEW s \in live PROVE FALSE
      <4>1. s.job \in Unfinished
        <5>1. s.job \in Jobs /\ Declared(s.job) /\ Record(s.job).substate = "dispatched"
          BY <1>1, <2>3, <3>1
        <5> QED
          BY <5>1 DEF Unfinished, Terminal
      <4>2. Verdict(s.job, h) \in {"unknown", "live"}
        BY <2>3, <3>1 DEF Verdict
      <4> QED
        BY <2>1, <2>5, <4>1, <4>2 DEF Judged
    <3> QED
      BY <2>1, <3>1 DEF Alive
  <2> QED
    BY <1>9, <2>4, <2>5 DEF Resume
<1> QED
  BY <1>2, <1>3, <1>4, <1>5, <1>7, <1>8, <1>9 DEF Next, Engine

\* Two sessions of one job never run at once, on whichever hosts the engines died
\* and resumed, as long as none died between a spawn and its record
\* (classifyPlanningJobs).
THEOREM ContestOneSession == GapCrash = FALSE => (Spec => []OneSession)
<1> SUFFICES ASSUME GapCrash = FALSE PROVE Spec => []OneSession
  OBVIOUS
<1>1. Init => Alive
  BY DEF Init, Alive
<1>2. ContestInv /\ Alive /\ [Next]_vars => Alive'
  BY AliveStep
<1>3. ContestInv /\ Alive => OneSession
  <2> SUFFICES ASSUME ContestInv, Alive, NEW s \in live, NEW t \in live, s.job = t.job PROVE s = t
    BY DEF OneSession
  <2>1. s.job \in Jobs /\ (at[s.job] \in {"asked", "waits"} => Up)
    BY DEF ContestInv, Sound, Typed, SessionTypes, Sessions, Placed, StageJobs, EngineTypes, Working
  <2> QED
    BY <2>1 DEF Alive, Tracked
<1> QED
  BY <1>1, <1>2, <1>3, ContestSound, PTL DEF Spec

-----------------------------------------------------------------------------
(* What is offered can be traced: the invariant *)

\* What the engine holds of a candidate is what a resume would fold.
Folded(f) == IF files.candidate[f] = Disqualified THEN Disqualified ELSE files.plan[f]
FieldAt(f) ==
    /\ at[Contestant(f)] \in {"written", "over"} => field[f] = Folded(f) /\ Stored(Contestant(f))
    /\ at[Contestant(f)] = "over" => Folds(Contestant(f))
FieldTraced == \A f \in Seats : FieldAt(f)

\* Once judging is declared the contestants are settled, and stay so.
ContestOver ==
    (\E j \in Judges \cup {Synthesis} : Declared(j)) =>
        \A f \in Seats : Folds(Contestant(f)) /\ Stored(Contestant(f))

\* A verdict is one on the plan that is on disk.
VerdictAt(f) ==
    /\ Stored(Judge(f)) => Declared(Judge(f)) /\ files.verdict[f].of = files.plan[f]
    /\ at[Judge(f)] \in {"written", "over"} => Stored(Judge(f)) /\ score[f] = Total(f)
    /\ at[Judge(f)] = "over" => Folds(Judge(f))
VerdictTraced == \A f \in Seats : VerdictAt(f)
JudgingOver ==
    Declared(Synthesis) => \A f \in OnFile : Folds(Judge(f)) /\ Stored(Judge(f))

Best(f) ==
    /\ f \in OnFile
    /\ \A g \in OnFile : Total(f) > Total(g) \/ (Total(f) = Total(g) /\ f <= g)
GraftTraced ==
    files.grafted # NoPlan =>
        Declared(Synthesis) /\ \E f \in Seats : Best(f) /\ files.grafted = Grafted(files.plan[f])

Traced == FieldTraced /\ ContestOver /\ VerdictTraced /\ JudgingOver /\ GraftTraced

\* What holds of plans and scores however many artifacts vanished.
GivenAt(f) ==
    /\ at[Contestant(f)] = "kept" => files.plan[f] # NoPlan
    /\ files.plan[f] # NoPlan => files.plan[f].seat = f
    /\ at[Judge(f)] \in {"idle", "open", "asked", "waits", "answered"} => score[f] = Unscored
Given == \A f \in Seats : GivenAt(f)

TracedInv == ContestInv /\ Given /\ (lost = 0 => Traced)

\* Stored, by kind of job.
LEMMA StoredContestant ==
    \A f \in Seats :
        Stored(Contestant(f)) <=>
            \/ files.candidate[f] = Disqualified
            \/ files.candidate[f] # NoPlan /\ files.plan[f] # NoPlan
  BY JobKinds DEF Stored

LEMMA StoredJudge ==
    \A f \in Seats : Stored(Judge(f)) <=> files.verdict[f] # NoVerdict
  BY JobKinds DEF Stored

LEMMA StoredSynthesis ==
    Stored(Synthesis) <=> \/ files.decisions = "rejected"
                          \/ files.decisions = "accepted" /\ files.grafted # NoPlan
  BY JobKinds DEF Stored

\* The survivors are the candidates on file.
LEMMA FieldOnFile ==
    ASSUME Sound, FieldTraced, \A j \in Contestants : at[j] = "over"
    PROVE  /\ Survivors = OnFile
           /\ \A f \in Survivors : /\ field[f] = files.plan[f] /\ field[f] \in Candidates
                                   /\ f \in Seats
           /\ \A f \in Seats : Folds(Contestant(f)) /\ Stored(Contestant(f))
<1>1. FileTypes /\ MemTypes
  BY DEF Sound, Typed
<1>2. \A f \in Seats : /\ field[f] = Folded(f) /\ Stored(Contestant(f)) /\ Folds(Contestant(f))
                       /\ files.plan[f] \in Candidates \cup {NoPlan}
                       /\ files.candidate[f] \in Written
  BY <1>1, JobKinds DEF FieldTraced, FieldAt, FileTypes
<1>3. ASSUME NEW f \in Seats
      PROVE  /\ f \in Survivors <=> f \in OnFile
             /\ f \in Survivors => field[f] = files.plan[f] /\ field[f] \in Candidates
  BY <1>2, <1>3, StoredContestant, PlanNames DEF Folded, Survivors, OnFile
<1>4. Survivors \subseteq Seats /\ OnFile \subseteq Seats
  BY DEF Survivors, OnFile
<1> QED
  BY <1>2, <1>3, <1>4

\* The winner of the engine is the best on file.
LEMMA WinnerBest ==
    ASSUME Sound, FieldTraced, VerdictTraced, engine.stage \in {"judge", "synthesis"},
           \A f \in Survivors : at[Judge(f)] = "over"
    PROVE  /\ Best(Winner) /\ field[Winner] = files.plan[Winner] /\ Winner \in Seats
           /\ \A f \in OnFile : Folds(Judge(f)) /\ Stored(Judge(f))
<1>1. \A j \in Contestants : at[j] = "over"
  BY DEF Sound, Placed
<1>2. /\ Survivors = OnFile
      /\ \A f \in Survivors : field[f] = files.plan[f] /\ f \in Seats
  BY <1>1, FieldOnFile
<1>3. Winner \in Survivors /\ \A g \in Survivors : Ranked(Winner, g)
  BY WinnerHeld
<1>4. \A f \in Survivors : score[f] = Total(f) /\ Folds(Judge(f)) /\ Stored(Judge(f))
  BY <1>2 DEF VerdictTraced, VerdictAt
<1>5. Best(Winner)
  BY <1>2, <1>3, <1>4 DEF Best, Ranked
<1> QED
  BY <1>2, <1>3, <1>4, <1>5

\* Declared jobs stay declared, and who declares new ones.
LEMMA DeclaredStays ==
    ASSUME ContestInv, [Next]_vars
    PROVE  /\ \A j \in Jobs : Declared(j) => Declared(j)'
           /\ \A j \in Jobs : ~Declared(j) /\ Declared(j)' => Move
<1>1. Sound /\ LedgerTypes /\ \A j \in Jobs : Declared(j) => Record(j) \in Records
  BY Recorded DEF ContestInv, Sound, Typed
<1>2. ASSUME NEW k \in Jobs, JobFrame(k) PROVE \A j \in Jobs : Declared(j)' = Declared(j)
  <2>1. Declared(k)
    BY <1>1, <1>2, SoundOf DEF JobFrame
  <2> QED
    BY <1>2, <2>1 DEF JobFrame, Declared
<1>3. ASSUME NEW k \in Jobs, Enter(k) \/ Open(k) \/ Dispatch(k) \/ Answer(k) \/ Settle(k)
      PROVE  \A j \in Jobs : Declared(j)' = Declared(j)
  BY <1>1, <1>2, <1>3, EnterFrame, OpenFrame, DispatchFrame, AnswerFrame, SettleFrame
<1>4. CASE Keep
  BY <1>1, <1>2, <1>4, KeepJob
<1>5. CASE Move
  BY <1>1, <1>5, MoveLedger
<1>6. ASSUME NEW h \in Hosts, Resume(h) PROVE \A j \in Jobs : Declared(j)' = Declared(j)
  <2>1. CASE UNCHANGED jobs
    BY <2>1 DEF Declared
  <2>2. CASE Judged(h, "unknown") = {}
    BY <1>6, <2>2, ResumeLedger DEF Resume
  <2> QED
    BY <1>6, <2>1, <2>2 DEF Resume
<1>7. ASSUME UNCHANGED jobs PROVE \A j \in Jobs : Declared(j)' = Declared(j)
  BY <1>7 DEF Declared
<1>8. CASE UNCHANGED <<jobs, opened, files, lost>>
  BY <1>7, <1>8
<1>9. CASE \E f \in Seats : Lose(f)
  BY <1>7, <1>9 DEF Lose
<1>10. CASE UNCHANGED vars
  BY <1>7, <1>10 DEF vars
<1> QED
  BY <1>3, <1>4, <1>5, <1>6, <1>8, <1>9, <1>10, StepKinds

\* Losses are counted: a step after which there was none is none.
LEMMA LossCounted ==
    ASSUME ContestInv, [Next]_vars, lost' = 0
    PROVE  lost = 0 /\ lost' # lost + 1 /\ \A f \in Seats : ~Lose(f)
<1>1. lost \in Nat
  BY Counted DEF ContestInv, Sound, Typed
<1>2. ASSUME NEW f \in Seats, Lose(f) PROVE lost' = lost + 1
  BY <1>2 DEF Lose
<1>3. lost' = lost \/ lost' = lost + 1
  <2>1. ASSUME NEW k \in Jobs, JobFrame(k) PROVE lost' = lost
    BY <2>1 DEF JobFrame
  <2>2. ASSUME NEW k \in Jobs, Enter(k) \/ Open(k) \/ Dispatch(k) \/ Answer(k) \/ Settle(k)
        PROVE  lost' = lost
    BY <2>2 DEF Enter, Open, Dispatch, Answer, Settle
  <2> QED
    BY <1>2, <2>2, StepKinds DEF Keep, Move, Resume, vars
<1> QED
  BY <1>1, <1>2, <1>3

\* Without a loss, what is folded keeps its files.
LEMMA FoldKeepsFiles ==
    ASSUME ContestInv, [Next]_vars, lost' = 0
    PROVE  /\ \A f \in Seats : Folds(Contestant(f)) /\ Stored(Contestant(f)) =>
                 /\ files'.plan[f] = files.plan[f] /\ files'.candidate[f] = files.candidate[f]
                 /\ Folds(Contestant(f))' /\ Stored(Contestant(f))'
           /\ \A f \in Seats : Folds(Judge(f)) /\ Stored(Judge(f)) =>
                 /\ files'.verdict[f] = files.verdict[f]
                 /\ Folds(Judge(f))' /\ Stored(Judge(f))'
<1>1. lost' # lost + 1
  BY LossCounted
<1>2. ASSUME NEW f \in Seats, Folds(Contestant(f)), Stored(Contestant(f))
      PROVE  /\ files'.plan[f] = files.plan[f] /\ files'.candidate[f] = files.candidate[f]
             /\ Folds(Contestant(f))' /\ Stored(Contestant(f))'
  <2>1. Contestant(f) \in Jobs
    BY JobKinds
  <2>2. /\ jobs'[Contestant(f)] = jobs[Contestant(f)]
        /\ files' = files \/ \E k \in Jobs \ {Contestant(f)} : JobFrame(k)
    BY <1>1, <1>2, <2>1, FoldStands
  <2>3. files'.plan[f] = files.plan[f] /\ files'.candidate[f] = files.candidate[f]
    BY <2>2 DEF JobFrame
  <2>4. Stored(Contestant(f))'
    BY <1>2, <2>3, JobKinds DEF Stored
  <2>5. Folds(Contestant(f))'
    BY <1>2, <2>2 DEF Folds, Declared, Record, MaySpendRetry
  <2> QED
    BY <2>3, <2>4, <2>5
<1>3. ASSUME NEW f \in Seats, Folds(Judge(f)), Stored(Judge(f))
      PROVE  files'.verdict[f] = files.verdict[f] /\ Folds(Judge(f))' /\ Stored(Judge(f))'
  <2>1. Judge(f) \in Jobs
    BY JobKinds
  <2>2. /\ jobs'[Judge(f)] = jobs[Judge(f)]
        /\ files' = files \/ \E k \in Jobs \ {Judge(f)} : JobFrame(k)
    BY <1>1, <1>3, <2>1, FoldStands
  <2>3. files'.verdict[f] = files.verdict[f]
    BY <2>2 DEF JobFrame
  <2>4. Stored(Judge(f))'
    BY <1>3, <2>3, JobKinds DEF Stored
  <2>5. Folds(Judge(f))'
    BY <1>3, <2>2 DEF Folds, Declared, Record, MaySpendRetry
  <2> QED
    BY <2>3, <2>4, <2>5
<1> QED
  BY <1>2, <1>3

-----------------------------------------------------------------------------
(* Tracing, across the stages *)


\* Judging is declared after every contestant was settled, and none is reopened.
LEMMA ContestOverStep ==
    ASSUME TracedInv, [Next]_vars, lost' = 0 PROVE ContestOver'
<1>1. ContestInv /\ Sound /\ Traced
  BY LossCounted DEF TracedInv, ContestInv
<1>2. CASE \E j \in Judges \cup {Synthesis} : Declared(j)
  <2>1. \A f \in Seats : Folds(Contestant(f)) /\ Stored(Contestant(f))
    BY <1>1, <1>2 DEF Traced, ContestOver
  <2> QED
    BY <1>1, <2>1, FoldKeepsFiles DEF ContestOver
<1>3. CASE \A j \in Judges \cup {Synthesis} : ~Declared(j)
  <2> SUFFICES ASSUME NEW j \in Judges \cup {Synthesis}, Declared(j)'
               PROVE  \A f \in Seats : Folds(Contestant(f))' /\ Stored(Contestant(f))'
    BY DEF ContestOver
  <2>1. Move
    BY <1>1, <1>3, DeclaredStays, JobKinds
  <2>2. \A k \in Contestants : at[k] = "over"
    <3>1. (engine.stage = "contest" /\ StageOver) \/ engine.stage \in {"judge", "synthesis"}
      <4>1. CASE DeclareContestants
        <5>1. jobs'[j] = jobs[j]
          BY <4>1, <1>3, JobKinds DEF DeclareContestants, Declare
        <5> QED
          BY <1>3, <5>1 DEF Declared
      <4>2. CASE AfterContestants \/ AfterJudges \/ AfterSynthesis
        BY <4>2 DEF AfterContestants, AfterJudges, AfterSynthesis
      <4>3. CASE SinglePlanner
        <5>1. jobs' = jobs
          BY <4>3 DEF SinglePlanner, Offer
        <5> QED
          BY <1>3, <5>1 DEF Declared
      <4> QED
        BY <2>1, <4>1, <4>2, <4>3 DEF Move
    <3>2. CASE engine.stage = "contest" /\ StageOver
      BY <3>2 DEF StageOver, StageJobs
    <3>3. CASE engine.stage \in {"judge", "synthesis"}
      BY <1>1, <3>3 DEF Sound, Placed
    <3> QED
      BY <3>1, <3>2, <3>3
  <2>3. \A f \in Seats : Folds(Contestant(f)) /\ Stored(Contestant(f))
    BY <1>1, <2>2, FieldOnFile DEF Traced
  <2> QED
    BY <1>1, <2>3, FoldKeepsFiles
<1> QED
  BY <1>2, <1>3

\* So for the synthesis and the judges; files and verdicts then stay.
LEMMA JudgingOverStep ==
    ASSUME TracedInv, [Next]_vars, lost' = 0
    PROVE  /\ JudgingOver'
           /\ Declared(Synthesis) =>
                 /\ OnFile' = OnFile
                 /\ \A f \in Seats : files'.plan[f] = files.plan[f]
                 /\ \A f \in OnFile : files'.verdict[f] = files.verdict[f]
<1>1. ContestInv /\ Sound /\ Traced
  BY LossCounted DEF TracedInv, ContestInv
<1>2. OnFile \subseteq Seats
  BY DEF OnFile
<1>3. ASSUME \A f \in Seats : Folds(Contestant(f)) /\ Stored(Contestant(f))
      PROVE  OnFile' = OnFile /\ \A f \in Seats : files'.plan[f] = files.plan[f]
  BY <1>1, <1>3, FoldKeepsFiles DEF OnFile
<1>4. CASE Declared(Synthesis)
  <2>1. \A f \in Seats : Folds(Contestant(f)) /\ Stored(Contestant(f))
    BY <1>1, <1>4 DEF Traced, ContestOver
  <2>2. \A f \in OnFile : Folds(Judge(f)) /\ Stored(Judge(f))
    BY <1>1, <1>4 DEF Traced, JudgingOver
  <2>3. \A f \in OnFile : /\ files'.verdict[f] = files.verdict[f]
                          /\ Folds(Judge(f))' /\ Stored(Judge(f))'
    BY <1>1, <1>2, <2>2, FoldKeepsFiles
  <2> QED
    BY <1>3, <2>1, <2>3 DEF JudgingOver
<1>5. CASE ~Declared(Synthesis) /\ Declared(Synthesis)'
  <2>1. Move
    BY <1>1, <1>5, DeclaredStays, JobKinds
  <2>2. engine.stage = "judge" /\ StageOver
    <3>1. CASE DeclareContestants
      <4>1. jobs'[Synthesis] = jobs[Synthesis]
        BY <3>1, JobKinds DEF DeclareContestants, Declare
      <4> QED
        BY <1>5, <4>1 DEF Declared
    <3>2. CASE AfterContestants
      <4>1. jobs'[Synthesis] = jobs[Synthesis]
        <5>1. Survivors \subseteq Seats
          BY DEF Survivors
        <5>2. UNCHANGED jobs \/ Declare({Judge(f) : f \in Survivors})
          BY <3>2 DEF AfterContestants, Offer
        <5> QED
          BY <5>1, <5>2, JobKinds DEF Declare
      <4> QED
        BY <1>5, <4>1 DEF Declared
    <3>3. CASE AfterJudges
      BY <3>3 DEF AfterJudges
    <3>4. CASE AfterSynthesis \/ SinglePlanner
      <4>1. jobs' = jobs
        BY <3>4 DEF AfterSynthesis, SinglePlanner, Offer
      <4> QED
        BY <1>5, <4>1 DEF Declared
    <3> QED
      BY <2>1, <3>1, <3>2, <3>3, <3>4 DEF Move
  <2>3. \A f \in Survivors : at[Judge(f)] = "over"
    BY <2>2 DEF StageOver, StageJobs
  <2>4. \A f \in OnFile : Folds(Judge(f)) /\ Stored(Judge(f))
    BY <1>1, <2>2, <2>3, WinnerBest DEF Traced
  <2>5. \A f \in Seats : Folds(Contestant(f)) /\ Stored(Contestant(f))
    BY <1>1, <2>2, FieldOnFile DEF Traced, Sound, Placed
  <2>6. \A f \in OnFile : Folds(Judge(f))' /\ Stored(Judge(f))'
    BY <1>1, <1>2, <2>4, FoldKeepsFiles
  <2> QED
    BY <1>3, <1>5, <2>5, <2>6 DEF JudgingOver
<1>6. CASE ~Declared(Synthesis) /\ ~Declared(Synthesis)'
  BY <1>6 DEF JudgingOver
<1> QED
  BY <1>4, <1>5, <1>6

\* What a job of the contest or of the judging leaves of the synthesis.
LEMMA GraftOnly ==
    ASSUME ContestInv, [Next]_vars, lost' = 0
    PROVE  \/ files'.grafted = files.grafted
           \/ KeepGrafted /\ UNCHANGED <<field, score>> /\ KeepRest
<1>1. Sound
  BY DEF ContestInv
<1>2. ASSUME NEW k \in Jobs, Enter(k) \/ Open(k) \/ Dispatch(k) \/ Answer(k) \/ Settle(k)
      PROVE  files'.grafted = files.grafted
  <2>1. JobFrame(k)
    BY <1>1, <1>2, EnterFrame, OpenFrame, DispatchFrame, AnswerFrame, SettleFrame
  <2>2. CASE k # Synthesis
    BY <2>1, <2>2 DEF JobFrame
  <2>3. CASE k = Synthesis
    <3>1. files' = files
      <4>1. Enter(k) => EnterOpen(k) \/ EnterFold(k) \/ EnterNothing(k)
        BY <1>1, EnterWays
      <4> QED
        BY <1>2, <2>3, <4>1, JobKinds
           DEF EnterOpen, EnterFold, EnterNothing, HoldNothing, Open, Dispatch, Answer, Settle
    <3> QED
      BY <3>1
  <2> QED
    BY <2>2, <2>3
<1>3. CASE Keep
  <2>1. KeepRest
    BY <1>3 DEF Keep, KeepRest
  <2>2. ASSUME NEW f \in Seats, KeepPlan(f) \/ KeepCandidate(f), UNCHANGED score
        PROVE  files'.grafted = files.grafted
    <3>1. JobFrame(Contestant(f))
      BY <1>1, <2>1, <2>2, KeepPlanFrame, KeepCandidateFrame
    <3> QED
      BY <3>1, JobKinds DEF JobFrame
  <2>3. ASSUME NEW f \in Seats, KeepVerdict(f) /\ UNCHANGED field
        PROVE  files'.grafted = files.grafted
    <3>1. JobFrame(Judge(f))
      BY <1>1, <2>1, <2>3, KeepVerdictFrame
    <3> QED
      BY <3>1, JobKinds DEF JobFrame
  <2>4. CASE (KeepDecisions \/ KeepGrafted) /\ UNCHANGED <<field, score>>
    BY <1>1, <2>1, <2>4, KeepSynthesisFrame
  <2> QED
    BY <1>3, <2>2, <2>3, <2>4 DEF Keep
<1>4. CASE Move
  BY <1>4 DEF Move
<1>5. CASE \E h \in Hosts : Resume(h)
  BY <1>5 DEF Resume
<1>6. \A f \in Seats : ~Lose(f)
  BY LossCounted
<1>7. CASE UNCHANGED vars
  BY <1>7 DEF vars
<1> QED
  BY <1>2, <1>3, <1>4, <1>5, <1>6, <1>7, StepKinds

\* The graft is made of the best on file, and the best stays the best.
LEMMA GraftTracedStep ==
    ASSUME TracedInv, [Next]_vars, lost' = 0 PROVE GraftTraced'
<1>1. ContestInv /\ Sound /\ Traced
  BY LossCounted DEF TracedInv, ContestInv
<1>2. Declared(Synthesis) => Declared(Synthesis)'
  BY <1>1, DeclaredStays, JobKinds
<1>3. ASSUME Declared(Synthesis), NEW f \in Seats, Best(f)
      PROVE  Best(f)' /\ files'.plan[f] = files.plan[f]
  BY <1>3, JudgingOverStep DEF Best, Total
<1>4. CASE files'.grafted = files.grafted /\ files.grafted # NoPlan
  <2>1. PICK f \in Seats : Best(f) /\ files.grafted = Grafted(files.plan[f])
    BY <1>1, <1>4 DEF Traced, GraftTraced
  <2>2. Declared(Synthesis)
    BY <1>1, <1>4 DEF Traced, GraftTraced
  <2>3. Best(f)' /\ files'.grafted = Grafted(files'.plan[f])
    BY <1>3, <1>4, <2>1, <2>2
  <2> QED
    BY <1>2, <2>2, <2>3 DEF GraftTraced
<1>5. CASE KeepGrafted /\ UNCHANGED <<field, score>> /\ KeepRest
  <2>1. at[Synthesis] \in Working
    BY <1>5 DEF KeepGrafted, Working
  <2>2. engine.stage = "synthesis" /\ Synthesis \in StageJobs
    BY <1>1, <2>1, SynthesisStage
  <2>3. Declared(Synthesis)
    BY <1>1, <2>2, SoundOf
  <2>4. \A f \in Survivors : at[Judge(f)] = "over"
    BY <1>1, <2>2 DEF Sound, Placed
  <2>5. Best(Winner) /\ field[Winner] = files.plan[Winner] /\ Winner \in Seats
    BY <1>1, <2>2, <2>4, WinnerBest DEF Traced
  <2>6. files'.grafted = Grafted(field[Winner])
    BY <1>1, <1>5 DEF KeepGrafted, Sound, Typed, FileTypes
  <2>7. PICK w \in Seats : w = Winner
    BY <2>5
  <2>8. Best(w)' /\ files'.grafted = Grafted(files'.plan[w])
    BY <1>3, <2>3, <2>5, <2>6, <2>7
  <2> QED
    BY <1>2, <2>3, <2>8 DEF GraftTraced
<1>6. CASE files'.grafted = files.grafted /\ files.grafted = NoPlan
  BY <1>6 DEF GraftTraced
<1> QED
  BY <1>1, <1>4, <1>5, <1>6, GraftOnly

-----------------------------------------------------------------------------
(* Tracing, across the steps with one job *)

JobStep(j) == Enter(j) \/ Open(j) \/ Dispatch(j) \/ Answer(j) \/ Settle(j)

\* The five steps of JobStep at once.
LEMMA JobStepFrame ==
    ASSUME Sound, NEW j \in Jobs, JobStep(j)
    PROVE  JobFrame(j) /\ MemTypes /\ FileTypes /\ Declared(j) /\ RecordSound(j)
           /\ Record(j) \in Records /\ j \in StageJobs
<1>1. JobFrame(j)
  BY EnterFrame, OpenFrame, DispatchFrame, AnswerFrame, SettleFrame DEF JobStep
<1> QED
  BY <1>1, SoundOf DEF JobFrame

\* Such a step writes no file, unless it writes that there is nothing.
LEMMA JobStepWays ==
    ASSUME Sound, NEW j \in Jobs, JobStep(j)
    PROVE  \/ /\ at'[j] = "open" /\ at[j] = "idle" /\ UNCHANGED <<files, field, score>>
           \/ EnterFold(j) /\ at'[j] = "over"
           \/ EnterNothing(j) /\ at'[j] = "over"
           \/ /\ at'[j] \in {"asked", "waits", "answered"} /\ at[j] \in {"open", "asked", "waits"}
              /\ UNCHANGED <<files, field, score>>
           \/ Settle(j) /\ at'[j] = "over"
<1>1. MemTypes
  BY JobStepFrame
<1>2. CASE Enter(j)
  <2>1. EnterOpen(j) \/ EnterFold(j) \/ EnterNothing(j)
    BY <1>2, EnterWays
  <2>2. CASE EnterOpen(j)
    BY <1>1, <2>2, GotoMoves DEF EnterOpen, Working
  <2>3. CASE EnterFold(j)
    BY <1>1, <2>3, GotoMoves DEF EnterFold
  <2>4. CASE EnterNothing(j)
    BY <1>1, <2>4, GotoMoves DEF EnterNothing
  <2> QED
    BY <2>1, <2>2, <2>3, <2>4
<1>3. CASE Open(j)
  BY <1>1, <1>3, GotoMoves DEF Open, Working
<1>4. CASE Dispatch(j)
  BY <1>1, <1>4, GotoMoves DEF Dispatch, Working
<1>5. CASE Answer(j)
  BY <1>1, <1>5, GotoMoves DEF Answer, Working
<1>6. CASE Settle(j)
  BY <1>1, <1>6, GotoMoves DEF Settle
<1> QED
  BY <1>2, <1>3, <1>4, <1>5, <1>6 DEF JobStep

\* A settled job is one a resume folds.
LEMMA SettleFolds ==
    ASSUME Sound, NEW j \in Jobs, Settle(j) PROVE Folds(j)' /\ UNCHANGED <<files, field, score>>
<1>1. /\ JobFrame(j) /\ \E s \in Terminal : Record(j)' = [Record(j) EXCEPT !.substate = s]
  BY SettleFrame
<1>2. Record(j) \in Records /\ RecordSound(j) /\ at[j] = "written"
  BY JobStepFrame DEF JobStep, Settle
<1>3. Record(j)'.substate \in Terminal /\ ~Record(j)'.retryable
  BY <1>1, <1>2 DEF RecordSound, Records, Terminal
<1>4. Declared(j)'
  BY <1>1 DEF JobFrame
<1> QED
  BY <1>3, <1>4 DEF Folds, Settle

\* What an entry that finds nothing to fold writes.
LEMMA NothingWritten ==
    ASSUME Sound, NEW j \in Jobs, EnterNothing(j), j \in StageJobs
    PROVE  /\ UNCHANGED <<jobs, score>> /\ Folds(j) /\ files'.plan = files.plan
           /\ \A f \in Seats : j = Contestant(f) =>
                 files'.candidate[f] = Disqualified /\ field'[f] = Disqualified
           /\ \A f \in Seats : j = Judge(f) =>
                 files'.verdict[f] = [score |-> Unscored, of |-> field[f]]
<1>1. HoldNothing(j) /\ Folds(j) /\ UNCHANGED jobs
  BY DEF EnterNothing
<1>2. FileTypes /\ MemTypes
  BY DEF Sound, Typed
<1>3. UNCHANGED score
  BY <1>1 DEF HoldNothing
<1>4. CASE j \in Contestants
  <2>1. PICK f \in Seats : j = Contestant(f) /\ j.key = f
    BY <1>4, JobKinds
  <2>2. PutCandidate(f, Disqualified) /\ Disqualified \in Written
        /\ field' = [field EXCEPT ![f] = Disqualified]
    BY <1>1, <1>4, <2>1, JobKinds DEF HoldNothing, PutCandidate, Written
  <2>3. files'.plan = files.plan /\ files'.candidate[f] = Disqualified /\ field'[f] = Disqualified
    BY <1>2, <2>2, CandidatePut DEF MemTypes
  <2> QED
    BY <1>1, <1>3, <2>1, <2>3, JobKinds
<1>5. CASE j \in Judges
  <2>1. PICK f \in Seats : j = Judge(f) /\ j.key = f
    BY <1>5, JobKinds
  <2>2. PutVerdict(f, [score |-> Unscored, of |-> field[f]])
    BY <1>1, <1>5, <2>1, JobKinds DEF HoldNothing, PutVerdict
  <2>3. [score |-> Unscored, of |-> field[f]] \in Verdicts
    BY <1>2 DEF MemTypes, Verdicts
  <2>4. files'.plan = files.plan /\ files'.verdict[f] = [score |-> Unscored, of |-> field[f]]
    BY <1>2, <2>2, <2>3, VerdictPut
  <2> QED
    BY <1>1, <1>3, <2>1, <2>4, JobKinds
<1>6. CASE j \notin Contestants \cup Judges
  <2>1. files' = files
    BY <1>1, <1>6 DEF HoldNothing
  <2> QED
    BY <1>1, <1>3, <1>6, <2>1, JobKinds
<1> QED
  BY <1>4, <1>5, <1>6

\* What an entry that folds takes over.
LEMMA FoldTaken ==
    ASSUME Sound, NEW j \in Jobs, EnterFold(j)
    PROVE  /\ UNCHANGED <<jobs, files>> /\ Folds(j) /\ Stored(j)
           /\ \A f \in Seats : j = Contestant(f) => field'[f] = Folded(f)
           /\ \A f \in Seats : j = Judge(f) => score'[f] = Total(f)
<1>1. Hold(j) /\ Folds(j) /\ Stored(j) /\ UNCHANGED <<jobs, files>>
  BY DEF EnterFold
<1>2. MemTypes
  BY DEF Sound, Typed
<1>3. ASSUME NEW f \in Seats, j = Contestant(f) PROVE field'[f] = Folded(f)
  <2>1. j \in Contestants /\ j.key = f
    BY <1>3, JobKinds
  <2>2. field' = [field EXCEPT ![f] = Folded(f)]
    BY <1>1, <2>1 DEF Hold, Folded
  <2> QED
    BY <1>2, <2>2 DEF MemTypes
<1>4. ASSUME NEW f \in Seats, j = Judge(f) PROVE score'[f] = Total(f)
  <2>1. j \in Judges /\ j.key = f
    BY <1>4, JobKinds
  <2>2. score' = [score EXCEPT ![f] = Total(f)]
    BY <1>1, <2>1 DEF Hold, Total
  <2> QED
    BY <1>2, <2>2 DEF MemTypes
<1> QED
  BY <1>1, <1>3, <1>4

\* A step with one job moves only the seat of it ...
LEMMA SeatFrame ==
    ASSUME Sound, NEW j \in Jobs, JobFrame(j), NEW f \in Seats
    PROVE  /\ j # Contestant(f) /\ FieldAt(f) => FieldAt(f)'
           /\ j # Judge(f) /\ files'.plan[f] = files.plan[f] /\ VerdictAt(f) => VerdictAt(f)'
           /\ j # Contestant(f) /\ j # Judge(f) /\ GivenAt(f) => GivenAt(f)'
<1>1. Contestant(f) \in Jobs /\ Judge(f) \in Jobs
  BY JobKinds
<1>2. ASSUME j # Contestant(f), FieldAt(f) PROVE FieldAt(f)'
  <2>1. /\ at'[Contestant(f)] = at[Contestant(f)] /\ jobs'[Contestant(f)] = jobs[Contestant(f)]
        /\ field'[f] = field[f]
        /\ files'.plan[f] = files.plan[f] /\ files'.candidate[f] = files.candidate[f]
    BY <1>1, <1>2 DEF JobFrame
  <2>2. Stored(Contestant(f)) => Stored(Contestant(f))'
    BY <2>1, JobKinds DEF Stored
  <2>3. Folds(Contestant(f)) => Folds(Contestant(f))'
    BY <2>1 DEF Folds, Declared, Record, MaySpendRetry
  <2> QED
    BY <1>2, <2>1, <2>2, <2>3 DEF FieldAt, Folded
<1>3. ASSUME j # Judge(f), files'.plan[f] = files.plan[f], VerdictAt(f) PROVE VerdictAt(f)'
  <2>1. /\ at'[Judge(f)] = at[Judge(f)] /\ jobs'[Judge(f)] = jobs[Judge(f)]
        /\ score'[f] = score[f] /\ files'.verdict[f] = files.verdict[f]
    BY <1>1, <1>3 DEF JobFrame
  <2>2. Stored(Judge(f)) <=> Stored(Judge(f))'
    BY <2>1, JobKinds DEF Stored
  <2>3. /\ Folds(Judge(f)) => Folds(Judge(f))'
        /\ Declared(Judge(f)) => Declared(Judge(f))'
    BY <2>1 DEF Folds, Declared, Record, MaySpendRetry
  <2> QED
    BY <1>3, <2>1, <2>2, <2>3 DEF VerdictAt, Total
<1>4. ASSUME j # Contestant(f), j # Judge(f), GivenAt(f) PROVE GivenAt(f)'
  BY <1>1, <1>4 DEF GivenAt, JobFrame
<1> QED
  BY <1>2, <1>3, <1>4

\* ... and other steps none, or they forget all.
LEMMA SeatsStill ==
    ASSUME UNCHANGED <<at, field, score, files>>,
           \A j \in Jobs : Declared(j) => Declared(j)' /\ Record(j)' = Record(j),
           NEW f \in Seats
    PROVE  /\ FieldAt(f) => FieldAt(f)'
           /\ VerdictAt(f) => VerdictAt(f)'
           /\ GivenAt(f) => GivenAt(f)'
<1>1. Contestant(f) \in Jobs /\ Judge(f) \in Jobs
  BY JobKinds
<1>2. /\ Stored(Contestant(f))' <=> Stored(Contestant(f))
      /\ Stored(Judge(f))' <=> Stored(Judge(f))
  BY JobKinds DEF Stored
<1>3. /\ Folds(Contestant(f)) => Folds(Contestant(f))'
      /\ Folds(Judge(f)) => Folds(Judge(f))'
  BY <1>1 DEF Folds, MaySpendRetry
<1> QED
  BY <1>1, <1>2, <1>3 DEF FieldAt, VerdictAt, GivenAt, Folded, Total

LEMMA SeatsForgotten ==
    ASSUME Forget, UNCHANGED files,
           \A j \in Jobs : Declared(j) => Declared(j)',
           NEW f \in Seats
    PROVE  /\ FieldAt(f)'
           /\ VerdictAt(f) => VerdictAt(f)'
           /\ GivenAt(f) => GivenAt(f)'
<1>1. Contestant(f) \in Jobs /\ Judge(f) \in Jobs
  BY JobKinds
<1>2. at'[Contestant(f)] = "idle" /\ at'[Judge(f)] = "idle" /\ score'[f] = Unscored
  BY <1>1 DEF Forget
<1>3. Stored(Judge(f))' <=> Stored(Judge(f))
  BY JobKinds DEF Stored
<1> QED
  BY <1>1, <1>2, <1>3 DEF FieldAt, VerdictAt, GivenAt

LEMMA KeepSteps ==
    ASSUME Keep
    PROVE  /\ KeepRest
           /\ \/ \E f \in Seats : KeepPlan(f) /\ UNCHANGED score
              \/ \E f \in Seats : KeepCandidate(f) /\ UNCHANGED score
              \/ \E f \in Seats : KeepVerdict(f) /\ UNCHANGED field
              \/ (KeepDecisions \/ KeepGrafted) /\ UNCHANGED <<field, score>>
  BY DEF Keep, KeepRest

\* All steps, as tracing sees them.
LEMMA RestKinds ==
    ASSUME ContestInv, [Next]_vars
    PROVE  \/ \E j \in Jobs : JobStep(j)
           \/ Keep
           \/ /\ UNCHANGED <<at, field, score, files>>
              /\ \A j \in Jobs : Declared(j) => Declared(j)' /\ Record(j)' = Record(j)
           \/ /\ Forget /\ UNCHANGED files
              /\ \A j \in Jobs : Declared(j) => Declared(j)'
           \/ \E f \in Seats : Lose(f)
<1>1. Sound /\ \A j \in Jobs : Declared(j) => Declared(j)'
  BY DeclaredStays DEF ContestInv
<1>2. CASE Move
  BY <1>1, <1>2, MoveLedger DEF MoveRest, memVars
<1>3. ASSUME UNCHANGED <<at, field, score, files, jobs>>
      PROVE  /\ UNCHANGED <<at, field, score, files>>
             /\ \A j \in Jobs : Declared(j) => Declared(j)' /\ Record(j)' = Record(j)
  BY <1>3 DEF Declared, Record
<1>4. CASE Critique \/ Exit \/ Unlock \/ (\E h \in Hosts : Return(h)) \/ UNCHANGED vars
  BY <1>3, <1>4 DEF Critique, Exit, Unlock, Return, vars, memVars
<1>5. CASE Crash \/ \E h \in Hosts : Resume(h)
  BY <1>1, <1>5 DEF Crash, Resume
<1> QED
  BY <1>2, <1>4, <1>5 DEF Next, Engine, JobStep

\* Given is kept by every step, losses among them.
LEMMA GivenJob ==
    ASSUME Sound, NEW j \in Jobs, JobStep(j), Given PROVE Given'
<1> SUFFICES ASSUME NEW f \in Seats PROVE GivenAt(f)'
  BY DEF Given
<1>1. JobFrame(j) /\ j \in StageJobs /\ GivenAt(f)
  BY JobStepFrame DEF Given
<1>2. CASE j # Contestant(f) /\ j # Judge(f)
  BY <1>1, <1>2, SeatFrame
<1>3. /\ Contestant(f) \in Jobs /\ Judge(f) \in Jobs /\ Contestant(f) # Judge(f)
  BY JobKinds
<1>4. files'.plan[f] = files.plan[f]
  BY <1>1, JobStepWays, FoldTaken, NothingWritten, SettleFolds
<1>5. at'[j] # "kept"
  BY JobStepWays
<1>6. at'[j] \in {"idle", "open", "asked", "waits", "answered"} =>
          at[j] \in {"idle", "open", "asked", "waits", "answered"} /\ UNCHANGED score
  BY JobStepWays
<1>7. CASE j = Contestant(f)
  <2>1. at'[Judge(f)] = at[Judge(f)] /\ score'[f] = score[f]
    BY <1>1, <1>3, <1>7 DEF JobFrame
  <2> QED
    BY <1>1, <1>4, <1>5, <1>7, <2>1 DEF GivenAt
<1>8. CASE j = Judge(f)
  <2>1. at'[Contestant(f)] = at[Contestant(f)]
    BY <1>1, <1>3, <1>8 DEF JobFrame
  <2> QED
    BY <1>1, <1>4, <1>6, <1>8, <2>1 DEF GivenAt
<1> QED
  BY <1>2, <1>7, <1>8

LEMMA GivenKeep ==
    ASSUME Sound, Keep, Given PROVE Given'
<1>1. KeepRest /\ MemTypes /\ FileTypes
  BY KeepSteps DEF Sound, Typed
<1>2. ASSUME NEW g \in Seats, KeepPlan(g) /\ UNCHANGED score, NEW f \in Seats PROVE GivenAt(f)'
  <2>1. /\ JobFrame(Contestant(g))
        /\ opened[Contestant(g)] \in 1 .. MaxSessions
        /\ files'.plan[g] = CandidatePlan(g, opened[Contestant(g)])
        /\ CandidatePlan(g, opened[Contestant(g)]) \in Candidates
    BY <1>1, <1>2, KeepPlanFrame
  <2>2. GivenAt(f) /\ Contestant(g) \in Jobs /\ Judge(f) \in Jobs /\ Contestant(g) # Judge(f)
    BY JobKinds DEF Given
  <2>3. CASE f # g
    BY <2>1, <2>2, <2>3, SeatFrame, JobKinds
  <2>4. CASE f = g
    <3>1. files'.plan[f] # NoPlan /\ files'.plan[f].seat = f
      BY <2>1, <2>4, PlanNames DEF CandidatePlan
    <3>2. at'[Judge(f)] = at[Judge(f)] /\ score'[f] = score[f]
      BY <1>2, <2>1, <2>2 DEF JobFrame
    <3> QED
      BY <2>2, <3>1, <3>2 DEF GivenAt
  <2> QED
    BY <2>3, <2>4
<1>3. ASSUME NEW g \in Seats, KeepCandidate(g) /\ UNCHANGED score, NEW f \in Seats
      PROVE  GivenAt(f)'
  <2>1. JobFrame(Contestant(g)) /\ files'.plan = files.plan
    BY <1>1, <1>3, KeepCandidateFrame
  <2>2. /\ GivenAt(f) /\ Contestant(g) \in Jobs /\ Judge(f) \in Jobs
        /\ Contestant(g) # Judge(f)
    BY JobKinds DEF Given
  <2>3. CASE f # g
    BY <2>1, <2>2, <2>3, SeatFrame, JobKinds
  <2>4. CASE f = g
    <3>1. at'[Contestant(f)] = "written"
      BY <1>1, <1>3, <2>2, <2>4, GotoMoves DEF KeepCandidate, Working
    <3>2. at'[Judge(f)] = at[Judge(f)] /\ score'[f] = score[f]
      BY <1>3, <2>1, <2>2 DEF JobFrame
    <3> QED
      BY <2>1, <2>2, <3>1, <3>2 DEF GivenAt
  <2> QED
    BY <2>3, <2>4
<1>4. ASSUME NEW g \in Seats, KeepVerdict(g) /\ UNCHANGED field, NEW f \in Seats PROVE GivenAt(f)'
  <2>1. JobFrame(Judge(g)) /\ files'.plan = files.plan
    BY <1>1, <1>4, KeepVerdictFrame
  <2>2. /\ GivenAt(f) /\ Contestant(f) \in Jobs /\ Judge(g) \in Jobs
        /\ Contestant(f) # Judge(g)
    BY JobKinds DEF Given
  <2>3. CASE f # g
    BY <2>1, <2>2, <2>3, SeatFrame, JobKinds
  <2>4. CASE f = g
    <3>1. at'[Judge(f)] = "written"
      BY <1>1, <1>4, <2>2, <2>4, GotoMoves DEF KeepVerdict, Working
    <3>2. at'[Contestant(f)] = at[Contestant(f)]
      BY <2>1, <2>2 DEF JobFrame
    <3> QED
      BY <2>1, <2>2, <3>1, <3>2 DEF GivenAt
  <2> QED
    BY <2>3, <2>4
<1>5. ASSUME (KeepDecisions \/ KeepGrafted) /\ UNCHANGED <<field, score>>, NEW f \in Seats
      PROVE  GivenAt(f)'
  <2>1. JobFrame(Synthesis) /\ GivenAt(f)
    BY <1>1, <1>5, KeepSynthesisFrame DEF Given
  <2> QED
    BY <2>1, SeatFrame, JobKinds
<1> QED
  BY <1>2, <1>3, <1>4, <1>5, KeepSteps DEF Given

LEMMA GivenStep ==
    ASSUME ContestInv, Given, [Next]_vars PROVE Given'
<1>1. Sound
  BY DEF ContestInv
<1>2. ASSUME NEW j \in Jobs, JobStep(j) PROVE Given'
  BY <1>1, <1>2, GivenJob
<1>3. CASE Keep
  BY <1>1, <1>3, GivenKeep
<1>4. CASE /\ UNCHANGED <<at, field, score, files>>
           /\ \A j \in Jobs : Declared(j) => Declared(j)' /\ Record(j)' = Record(j)
  BY <1>4, SeatsStill DEF Given
<1>5. CASE /\ Forget /\ UNCHANGED files
           /\ \A j \in Jobs : Declared(j) => Declared(j)'
  BY <1>5, SeatsForgotten DEF Given
<1>6. ASSUME NEW g \in Seats, Lose(g) PROVE Given'
  <2>1. PutCandidate(g, NoPlan) /\ FileTypes /\ NoPlan \in Written
    BY <1>6, LoseInv DEF ContestInv, Sound, Typed, Written
  <2>2. files'.plan = files.plan /\ UNCHANGED <<at, score>>
    BY <1>6, <2>1, CandidatePut DEF Lose, memVars
  <2> QED
    BY <2>2 DEF Given, GivenAt
<1> QED
  BY <1>2, <1>3, <1>4, <1>5, <1>6, RestKinds

\* The candidate in the engine's hands is the one on disk: folded, or written
\* before the job is settled.
LEMMA FieldJob ==
    ASSUME Sound, NEW j \in Jobs, JobStep(j), FieldTraced PROVE FieldTraced'
<1> SUFFICES ASSUME NEW f \in Seats PROVE FieldAt(f)'
  BY DEF FieldTraced
<1>1. JobFrame(j) /\ j \in StageJobs /\ FieldAt(f)
  BY JobStepFrame DEF FieldTraced
<1>2. CASE j # Contestant(f)
  BY <1>1, <1>2, SeatFrame
<1>3. CASE j = Contestant(f)
  <2>1. CASE at'[j] \in {"open", "asked", "waits", "answered"}
    BY <1>3, <2>1 DEF FieldAt
  <2>2. CASE EnterFold(j)
    <3>1. UNCHANGED <<jobs, files>> /\ Folds(j) /\ Stored(j) /\ field'[f] = Folded(f)
      BY <1>3, <2>2, FoldTaken
    <3>2. Folds(j)' /\ Stored(j)' /\ Folded(f)' = Folded(f)
      BY <3>1 DEF Folds, Declared, Record, MaySpendRetry, Stored, Folded
    <3> QED
      BY <1>3, <3>1, <3>2 DEF FieldAt
  <2>3. CASE EnterNothing(j)
    <3>1. /\ UNCHANGED jobs /\ Folds(j)
          /\ files'.candidate[f] = Disqualified /\ field'[f] = Disqualified
      BY <1>1, <1>3, <2>3, NothingWritten
    <3>2. Folds(j)' /\ Stored(j)' /\ Folded(f)' = Disqualified
      BY <1>3, <3>1, JobKinds DEF Folds, Declared, Record, MaySpendRetry, Stored, Folded
    <3> QED
      BY <1>3, <3>1, <3>2 DEF FieldAt
  <2>4. CASE Settle(j)
    <3>1. Folds(j)' /\ UNCHANGED <<files, field>> /\ at[j] = "written"
      BY <2>4, SettleFolds DEF Settle
    <3>2. Stored(j)' = Stored(j) /\ Folded(f)' = Folded(f)
      BY <3>1 DEF Stored, Folded
    <3> QED
      BY <1>1, <1>3, <3>1, <3>2 DEF FieldAt
  <2> QED
    BY <2>1, <2>2, <2>3, <2>4, JobStepWays
<1> QED
  BY <1>2, <1>3

LEMMA FieldKeep ==
    ASSUME Sound, Keep, Given, FieldTraced PROVE FieldTraced'
<1>1. KeepRest /\ MemTypes /\ FileTypes
  BY KeepSteps DEF Sound, Typed
<1>2. ASSUME NEW g \in Seats, KeepPlan(g) /\ UNCHANGED score, NEW f \in Seats PROVE FieldAt(f)'
  <2>1. JobFrame(Contestant(g)) /\ Contestant(g) \in Jobs /\ FieldAt(f)
    BY <1>1, <1>2, KeepPlanFrame, JobKinds DEF FieldTraced
  <2>2. at'[Contestant(g)] = "kept"
    BY <1>1, <1>2, <2>1, GotoMoves DEF KeepPlan, Working
  <2>3. CASE Contestant(g) = Contestant(f)
    BY <2>2, <2>3 DEF FieldAt
  <2> QED
    BY <2>1, <2>3, SeatFrame
<1>3. ASSUME NEW g \in Seats, KeepCandidate(g) /\ UNCHANGED score, NEW f \in Seats
      PROVE  FieldAt(f)'
  <2>1. /\ JobFrame(Contestant(g)) /\ files'.plan = files.plan /\ files'.candidate[g] = field'[g]
        /\ field'[g] = IF at[Contestant(g)] = "kept" THEN files.plan[g] ELSE Disqualified
    BY <1>1, <1>3, KeepCandidateFrame
  <2>2. Contestant(g) \in Jobs /\ FieldAt(f) /\ GivenAt(g)
    BY JobKinds DEF FieldTraced, Given
  <2>3. at'[Contestant(g)] = "written"
    BY <1>1, <1>3, <2>2, GotoMoves DEF KeepCandidate, Working
  <2>4. CASE Contestant(g) = Contestant(f)
    <3>1. f = g
      BY <2>4, JobKinds
    <3>2. files.plan[g] \in Candidates \cup {NoPlan}
      BY <1>1 DEF FileTypes
    <3>3. field'[f] = Folded(f)'
      BY <2>1, <2>2, <3>1 DEF Folded, GivenAt
    <3>4. Stored(Contestant(f))'
      <4>1. \/ files'.candidate[f] = Disqualified
            \/ files'.candidate[f] # NoPlan /\ files'.plan[f] # NoPlan
        BY <2>1, <2>2, <3>1 DEF GivenAt
      <4> QED
        BY <4>1, JobKinds DEF Stored
    <3> QED
      BY <2>3, <2>4, <3>3, <3>4 DEF FieldAt
  <2>5. CASE Contestant(g) # Contestant(f)
    BY <2>1, <2>2, <2>5, SeatFrame
  <2> QED
    BY <2>4, <2>5
<1>4. ASSUME NEW g \in Seats, KeepVerdict(g) /\ UNCHANGED field, NEW f \in Seats PROVE FieldAt(f)'
  <2>1. JobFrame(Judge(g)) /\ Judge(g) \in Jobs /\ Judge(g) # Contestant(f) /\ FieldAt(f)
    BY <1>1, <1>4, KeepVerdictFrame, JobKinds DEF FieldTraced
  <2> QED
    BY <2>1, SeatFrame
<1>5. ASSUME (KeepDecisions \/ KeepGrafted) /\ UNCHANGED <<field, score>>, NEW f \in Seats
      PROVE  FieldAt(f)'
  <2>1. JobFrame(Synthesis) /\ FieldAt(f)
    BY <1>1, <1>5, KeepSynthesisFrame DEF FieldTraced
  <2> QED
    BY <2>1, SeatFrame, JobKinds
<1> QED
  BY <1>2, <1>3, <1>4, <1>5, KeepSteps DEF FieldTraced

\* A judge is at work on a plan that is on disk.
LEMMA JudgedPlan ==
    ASSUME Sound, FieldTraced, NEW f \in Seats, Judge(f) \in StageJobs
    PROVE  field[f] = files.plan[f] /\ field[f] \in Candidates
<1>1. EngineTypes
  BY DEF Sound, Typed
<1>2. engine.stage = "judge" /\ f \in Survivors
  BY <1>1, StageOf, JobKinds
<1>3. \A j \in Contestants : at[j] = "over"
  BY <1>2 DEF Sound, Placed
<1> QED
  BY <1>2, <1>3, FieldOnFile

\* A verdict outlives the steps of others: its plan is settled before judging.
LEMMA VerdictOthers ==
    ASSUME TracedInv, [Next]_vars, lost' = 0, NEW f \in Seats, NEW j \in Jobs, JobFrame(j),
           j # Judge(f)
    PROVE  VerdictAt(f)'
<1>1. ContestInv /\ Sound /\ Traced /\ VerdictAt(f)
  BY LossCounted DEF TracedInv, ContestInv, Traced, VerdictTraced
<1>2. CASE Stored(Judge(f))
  <2>1. Declared(Judge(f)) /\ Judge(f) \in Judges
    BY <1>1, <1>2, JobKinds DEF VerdictAt
  <2>2. Folds(Contestant(f)) /\ Stored(Contestant(f))
    BY <1>1, <2>1 DEF Traced, ContestOver
  <2>3. files'.plan[f] = files.plan[f]
    BY <1>1, <2>2, FoldKeepsFiles
  <2> QED
    BY <1>1, <2>3, SeatFrame
<1>3. CASE ~Stored(Judge(f))
  <2>1. at'[Judge(f)] = at[Judge(f)] /\ files'.verdict[f] = files.verdict[f]
    BY JobKinds DEF JobFrame
  <2>2. ~Stored(Judge(f))'
    BY <1>3, <2>1, JobKinds DEF Stored
  <2> QED
    BY <1>1, <1>3, <2>1, <2>2 DEF VerdictAt
<1> QED
  BY <1>2, <1>3

\* The judge's own steps: a verdict is folded, withheld or settled ...
LEMMA VerdictJob ==
    ASSUME TracedInv, [Next]_vars, lost' = 0, NEW f \in Seats, JobStep(Judge(f))
    PROVE  VerdictAt(f)'
<1> DEFINE j == Judge(f)
<1>1. ContestInv /\ Sound /\ Traced /\ VerdictAt(f) /\ GivenAt(f) /\ j \in Jobs
  BY LossCounted, JobKinds DEF TracedInv, ContestInv, Traced, VerdictTraced, Given
<1>2. JobFrame(j) /\ j \in StageJobs /\ Declared(j)'
  BY <1>1, JobStepFrame DEF JobFrame
<1>3. Contestant(f) # j
  BY JobKinds
<1>4. files'.plan[f] = files.plan[f]
  BY <1>2, <1>3 DEF JobFrame
<1> HIDE DEF j
<1>5. CASE at'[j] \in {"open", "asked", "waits", "answered"} /\ UNCHANGED files
  <2>1. Stored(j)' <=> Stored(j)
    BY <1>5 DEF Stored
  <2> QED
    BY <1>1, <1>2, <1>5, <2>1 DEF VerdictAt, j
<1>6. CASE EnterFold(j)
  <2>1. UNCHANGED <<jobs, files>> /\ Folds(j) /\ Stored(j) /\ score'[f] = Total(f)
    BY <1>1, <1>6, FoldTaken DEF j
  <2>2. Folds(j)' /\ Stored(j)' /\ Total(f)' = Total(f)
    BY <2>1 DEF Folds, Declared, Record, MaySpendRetry, Stored, Total
  <2> QED
    BY <1>1, <1>2, <2>1, <2>2 DEF VerdictAt, j
<1>7. CASE EnterNothing(j)
  <2>1. /\ UNCHANGED <<jobs, score>> /\ Folds(j)
        /\ files'.verdict[f] = [score |-> Unscored, of |-> field[f]]
    BY <1>1, <1>2, <1>7, NothingWritten DEF j
  <2>2. field[f] = files.plan[f] /\ field[f] \in Candidates
    BY <1>1, <1>2, JudgedPlan DEF j, Traced
  <2>3. files'.verdict[f] # NoVerdict /\ files'.verdict[f].of = files'.plan[f]
    BY <1>4, <2>1, <2>2, PlanNames DEF NoVerdict
  <2>4. score'[f] = Total(f)'
    BY <1>1, <1>7, <2>1 DEF EnterNothing, GivenAt, Total, j
  <2>5. Folds(j)' /\ Stored(j)'
    <3>1. j \in Judges /\ j \notin Contestants /\ j.key = f
      BY JobKinds DEF j
    <3> QED
      BY <2>1, <2>3, <3>1 DEF Folds, Declared, Record, MaySpendRetry, Stored
  <2> QED
    BY <1>2, <2>3, <2>4, <2>5 DEF VerdictAt, j
<1>8. CASE Settle(j)
  <2>1. Folds(j)' /\ UNCHANGED <<files, score>> /\ at[j] = "written"
    BY <1>1, <1>8, SettleFolds DEF Settle
  <2>2. Stored(j)' = Stored(j) /\ Total(f)' = Total(f)
    BY <2>1 DEF Stored, Total
  <2> QED
    BY <1>1, <1>2, <2>1, <2>2 DEF VerdictAt, j
<1>9. \/ at'[j] \in {"open", "asked", "waits", "answered"} /\ UNCHANGED files
      \/ EnterFold(j) \/ EnterNothing(j) \/ Settle(j)
  <2>1. JobStep(j)
    BY DEF j
  <2> QED
    BY <1>1, <2>1, JobStepWays
<1> QED
  BY <1>5, <1>6, <1>7, <1>8, <1>9

\* ... or written, on the plan of the survivor it judges.
LEMMA VerdictKeep ==
    ASSUME TracedInv, [Next]_vars, lost' = 0, Keep PROVE VerdictTraced'
<1>1. ContestInv /\ Sound /\ Traced /\ MemTypes /\ KeepRest
  BY LossCounted, KeepSteps DEF TracedInv, ContestInv, Sound, Typed
<1>2. ASSUME NEW f \in Seats, NEW g \in Seats,
             \/ KeepPlan(g) /\ UNCHANGED score
             \/ KeepCandidate(g) /\ UNCHANGED score
      PROVE  VerdictAt(f)'
  <2>1. JobFrame(Contestant(g)) /\ Contestant(g) \in Jobs /\ Contestant(g) # Judge(f)
    BY <1>1, <1>2, KeepPlanFrame, KeepCandidateFrame, JobKinds
  <2> QED
    BY <2>1, VerdictOthers
<1>3. ASSUME NEW f \in Seats, NEW g \in Seats, KeepVerdict(g) /\ UNCHANGED field
      PROVE  VerdictAt(f)'
  <2>1. /\ JobFrame(Judge(g)) /\ Judge(g) \in Jobs
        /\ files'.verdict[g] = [score |-> score'[g], of |-> field[g]]
        /\ files'.plan = files.plan
    BY <1>1, <1>3, KeepVerdictFrame, JobKinds
  <2>2. CASE Judge(g) # Judge(f)
    BY <2>1, <2>2, VerdictOthers
  <2>3. CASE Judge(g) = Judge(f)
    <3>1. f = g /\ Judge(f) \in StageJobs /\ Declared(Judge(f))'
      BY <2>1, <2>3, JobKinds DEF JobFrame
    <3>2. field[f] = files.plan[f] /\ field[f] \in Candidates
      BY <1>1, <3>1, JudgedPlan DEF Traced
    <3>3. at'[Judge(f)] = "written"
      BY <1>1, <1>3, <2>1, <3>1, GotoMoves DEF KeepVerdict, Working
    <3>4. /\ files'.verdict[f] # NoVerdict /\ files'.verdict[f].of = files'.plan[f]
          /\ score'[f] = Total(f)'
      BY <2>1, <3>1, <3>2, PlanNames DEF NoVerdict, Total
    <3>5. Stored(Judge(f))'
      BY <3>4, JobKinds DEF Stored
    <3> QED
      BY <3>1, <3>3, <3>4, <3>5 DEF VerdictAt
  <2> QED
    BY <2>2, <2>3
<1>4. ASSUME NEW f \in Seats, (KeepDecisions \/ KeepGrafted) /\ UNCHANGED <<field, score>>
      PROVE  VerdictAt(f)'
  <2>1. JobFrame(Synthesis) /\ Synthesis \in Jobs /\ Synthesis # Judge(f)
    BY <1>1, <1>4, KeepSynthesisFrame, JobKinds
  <2> QED
    BY <2>1, VerdictOthers
<1> QED
  BY <1>2, <1>3, <1>4, KeepSteps DEF VerdictTraced

LEMMA TracedStep ==
    ASSUME TracedInv, [Next]_vars, lost' = 0 PROVE Traced'
<1>1. ContestInv /\ Sound /\ Given /\ Traced /\ \A f \in Seats : ~Lose(f)
  BY LossCounted DEF TracedInv, ContestInv
<1>2. FieldTraced' /\ VerdictTraced'
  <2>1. ASSUME NEW j \in Jobs, JobStep(j) PROVE FieldTraced' /\ VerdictTraced'
    <3>1. FieldTraced'
      BY <1>1, <2>1, FieldJob DEF Traced
    <3>2. ASSUME NEW f \in Seats PROVE VerdictAt(f)'
      <4>1. JobFrame(j)
        BY <1>1, <2>1, JobStepFrame
      <4> QED
        BY <2>1, <4>1, VerdictOthers, VerdictJob
    <3> QED
      BY <3>1, <3>2 DEF VerdictTraced
  <2>2. CASE Keep
    BY <1>1, <2>2, FieldKeep, VerdictKeep DEF Traced
  <2>3. CASE /\ UNCHANGED <<at, field, score, files>>
             /\ \A j \in Jobs : Declared(j) => Declared(j)' /\ Record(j)' = Record(j)
    BY <1>1, <2>3, SeatsStill DEF Traced, FieldTraced, VerdictTraced
  <2>4. CASE /\ Forget /\ UNCHANGED files
             /\ \A j \in Jobs : Declared(j) => Declared(j)'
    BY <1>1, <2>4, SeatsForgotten DEF Traced, FieldTraced, VerdictTraced
  <2> QED
    BY <1>1, <2>1, <2>2, <2>3, <2>4, RestKinds
<1>3. ContestOver' /\ JudgingOver' /\ GraftTraced'
  BY ContestOverStep, JudgingOverStep, GraftTracedStep
<1> QED
  BY <1>2, <1>3 DEF Traced

\* TracedInv is inductive.
LEMMA FullStep == TracedInv /\ [Next]_vars => TracedInv'
  BY NextInv, GivenStep, TracedStep DEF TracedInv

LEMMA InitFull == Init => TracedInv
<1> SUFFICES ASSUME Init PROVE TracedInv
  OBVIOUS
<1>1. /\ \A j \in Jobs : at[j] = "idle" /\ ~Declared(j)
      /\ \A f \in Seats : score[f] = Unscored /\ files.plan[f] = NoPlan
                          /\ files.verdict[f] = NoVerdict
      /\ files.grafted = NoPlan
  BY DEF Init, Declared, NoFiles
<1>2. Given
  BY <1>1, JobKinds DEF Given, GivenAt
<1>3. FieldTraced
  BY <1>1, JobKinds DEF FieldTraced, FieldAt
<1>4. VerdictTraced
  BY <1>1, JobKinds, StoredJudge DEF VerdictTraced, VerdictAt
<1>5. ContestOver /\ JudgingOver /\ GraftTraced
  BY <1>1, JobKinds DEF ContestOver, JudgingOver, GraftTraced
<1> QED
  BY <1>2, <1>3, <1>4, <1>5, InitInv DEF TracedInv, Traced

-----------------------------------------------------------------------------
(* The offer *)

\* What OfferTraced asks of the plan on offer.
Traceable(p) ==
    /\ p # NoPlan
    /\ lost = 0 /\ p.by \in {"seat", "synthesis"} =>
          /\ Base(p).seat \in OnFile /\ Base(p) = files.plan[Base(p).seat]
          /\ \A g \in OnFile :
                /\ files.verdict[g].of \in {NoPlan, files.plan[g]}
                /\ \/ Total(Base(p).seat) > Total(g)
                   \/ Total(Base(p).seat) = Total(g) /\ Base(p).seat <= g

LEMMA OfferedIsTraceable ==
    OfferTraced <=> (phase \in {"plan_review", "awaiting_approval"} => Traceable(planned))
  BY DEF OfferTraced, Traceable

\* The best on file, or the graft made of it, is fit to be offered.
LEMMA BestTraceable ==
    ASSUME Sound, Given, Traced, NEW f \in Seats, Best(f), files.plan[f] \in Candidates,
           NEW p, p = files.plan[f] \/ p = Grafted(files.plan[f])
    PROVE  Traceable(p)
<1>1. p # NoPlan /\ Base(p) = files.plan[f]
  BY PlanNames
<1>2. Base(p).seat = f
  BY <1>1, PlanNames DEF Given, GivenAt
<1>3. ASSUME NEW g \in OnFile PROVE files.verdict[g].of \in {NoPlan, files.plan[g]}
  <2>1. g \in Seats /\ VerdictAt(g)
    BY <1>3 DEF OnFile, Traced, VerdictTraced
  <2> QED
    BY <2>1, StoredJudge DEF VerdictAt, NoVerdict
<1> QED
  BY <1>1, <1>2, <1>3 DEF Traceable, Best

LEMMA OfferedAt ==
    ASSUME NEW p \in Plans, Traceable(p), planned' = p, UNCHANGED <<files, lost>>
    PROVE  OfferTraced'
<1>1. Traceable(p)'
  BY DEF Traceable, OnFile, Total
<1> QED
  BY <1>1 DEF OfferTraced, Traceable

\* Every road to an offer: the one survivor, the winner, the graft, the single planner.
LEMMA OfferMove ==
    ASSUME TracedInv, Move, phase' \in {"plan_review", "awaiting_approval"} PROVE OfferTraced'
<1>1. Sound /\ GraftHeld /\ Given /\ (lost = 0 => Traced) /\ FileTypes /\ MemTypes /\ MoveRest
  BY MoveLedger DEF TracedInv, ContestInv, Sound, Typed
<1>2. UNCHANGED <<files, lost>>
  BY <1>1 DEF MoveRest
<1>3. engine.stage # "down" => phase \notin {"plan_review", "awaiting_approval"}
                               \/ engine.stage = "review"
  BY <1>1, UpAt
<1>4. SUFFICES \E p \in Plans : Traceable(p) /\ planned' = p
  BY <1>2, OfferedAt
<1>5. CASE DeclareContestants
  BY <1>3, <1>5 DEF DeclareContestants
<1>6. CASE AfterContestants
  <2>1. engine.stage = "contest" /\ StageOver
    BY <1>6 DEF AfterContestants
  <2>2. \A k \in Contestants : at[k] = "over"
    BY <2>1 DEF StageOver, StageJobs
  <2>3. IsFiniteSet(Survivors) /\ Survivors \subseteq Seats /\ Cardinality(Survivors) \in Nat
    BY ContestAssumption, FS_Subset, FS_CardinalityType DEF Survivors
  <2>4. CASE Cardinality(Survivors) # 1
    <3>1. phase' = phase \/ phase' = "needs_user"
      BY <1>6, <2>3, <2>4 DEF AfterContestants, MIN_CONTEST_FAMILIES, End
    <3> QED
      BY <1>3, <2>1, <3>1
  <2>5. CASE Cardinality(Survivors) = 1
    <3>1. Offer(field[CHOOSE f \in Survivors : TRUE])
      BY <1>6, <2>5 DEF AfterContestants, MIN_CONTEST_FAMILIES
    <3>2. PICK f : Survivors = {f}
      BY <2>3, <2>5, FS_Singleton
    <3>3. f \in Seats /\ (CHOOSE g \in Survivors : TRUE) = f
      BY <2>3, <3>2
    <3>4. field[f] \in Candidates
      BY <1>1, <3>2 DEF Survivors, MemTypes, Written
    <3>5. planned' = field[f]
      BY <3>1, <3>3 DEF Offer
    <3>6. Traceable(field[f])
      <4>1. CASE lost = 0
        <5>1. Survivors = OnFile /\ field[f] = files.plan[f]
          BY <1>1, <2>2, <3>2, <4>1, FieldOnFile DEF Traced
        <5>2. f <= f
          BY <3>3, ContestAssumption
        <5>3. Best(f)
          BY <3>2, <5>1, <5>2 DEF Best
        <5> QED
          BY <1>1, <3>3, <3>4, <4>1, <5>1, <5>3, BestTraceable
      <4>2. CASE lost # 0
        BY <3>4, <4>2, PlanNames DEF Traceable
      <4> QED
        BY <4>1, <4>2
    <3> QED
      BY <3>4, <3>5, <3>6 DEF Plans
  <2> QED
    BY <2>4, <2>5
\* The winner stands, once judging is over.
<1>7. ASSUME engine.stage \in {"judge", "synthesis"},
             \A f \in Survivors : at[Judge(f)] = "over"
      PROVE  field[Winner] \in Plans /\ Traceable(field[Winner])
  <2>1. Winner \in Survivors /\ field[Winner] \in Candidates
    BY <1>1, <1>7, WinnerHeld
  <2>2. CASE lost = 0
    <3>1. Best(Winner) /\ field[Winner] = files.plan[Winner] /\ Winner \in Seats
      BY <1>1, <1>7, <2>2, WinnerBest DEF Traced
    <3> QED
      BY <1>1, <2>1, <2>2, <3>1, BestTraceable DEF Plans
  <2>3. CASE lost # 0
    BY <2>1, <2>3, PlanNames DEF Traceable, Plans
  <2> QED
    BY <2>2, <2>3
<1>8. CASE AfterJudges
  <2>1. engine.stage = "judge" /\ \A f \in Survivors : at[Judge(f)] = "over"
    BY <1>8 DEF AfterJudges, StageOver, StageJobs
  <2>2. CASE phase' = phase
    BY <1>3, <2>1, <2>2
  <2>3. CASE planned' = field[Winner]
    BY <1>7, <2>1, <2>3
  <2> QED
    BY <1>8, <2>2, <2>3 DEF AfterJudges, Offer
<1>9. CASE AfterSynthesis
  <2>1. engine.stage = "synthesis" /\ StageOver
        /\ planned' = IF answer[Synthesis] = "good" THEN files.grafted ELSE field[Winner]
    BY <1>9 DEF AfterSynthesis, Offer
  <2>2. \A f \in Survivors : at[Judge(f)] = "over"
    BY <1>1, <2>1 DEF Sound, Placed
  <2>3. CASE answer[Synthesis] = "good"
    <3>1. files.grafted \in Grafts /\ files.grafted # NoPlan /\ files.grafted \in Plans
      BY <1>1, <2>1, <2>3, GraftTaken
    <3>2. CASE lost = 0
      <4>1. PICK f \in Seats : Best(f) /\ files.grafted = Grafted(files.plan[f])
        BY <1>1, <3>1, <3>2 DEF Traced, GraftTraced
      <4>2. files.plan[f] \in Candidates
        <5>1. \A k \in Contestants : at[k] = "over"
          BY <1>1, <2>1 DEF Sound, Placed
        <5> QED
          BY <1>1, <3>2, <4>1, <5>1, FieldOnFile DEF Traced, Best
      <4> QED
        BY <1>1, <2>1, <2>3, <3>1, <3>2, <4>1, <4>2, BestTraceable
    <3>3. CASE lost # 0
      BY <2>1, <2>3, <3>1, <3>3 DEF Traceable
    <3> QED
      BY <3>2, <3>3
  <2>4. CASE answer[Synthesis] # "good"
    BY <1>7, <2>1, <2>2, <2>4
  <2> QED
    BY <2>3, <2>4
<1>10. CASE SinglePlanner
  <2>1. planned' = SinglePlan
    BY <1>10 DEF SinglePlanner, Offer, End
  <2>2. Traceable(SinglePlan) /\ SinglePlan \in Plans
    BY PlanNames DEF Traceable, Plans
  <2> QED
    BY <2>1, <2>2
<1> QED
  BY <1>5, <1>6, <1>8, <1>9, <1>10 DEF Move

\* On offer, nothing moves: no job is in hand, only a correction replaces the plan.
LEMMA OfferStep ==
    ASSUME TracedInv, OfferTraced, [Next]_vars PROVE OfferTraced'
<1> SUFFICES ASSUME phase' \in {"plan_review", "awaiting_approval"} PROVE OfferTraced'
  BY DEF OfferTraced
<1>1. ContestInv /\ Sound /\ GraftHeld /\ RunTypes /\ EngineTypes
  BY DEF TracedInv, ContestInv, Sound, Typed
<1>2. ASSUME UNCHANGED <<phase, planned, files, lost>> PROVE OfferTraced'
  BY <1>2 DEF OfferTraced, OnFile, Total
<1>3. ASSUME NEW j \in Jobs, JobFrame(j) PROVE FALSE
  <2>1. Up /\ phase' = phase /\ j \in StageJobs
    BY <1>1, <1>3, StageOf DEF JobFrame
  <2>2. engine.stage \in {"contest", "judge", "synthesis"}
    BY <2>1 DEF StageJobs
  <2> QED
    BY <1>1, <2>1, <2>2 DEF EngineTypes
<1>4. ASSUME NEW j \in Jobs, JobStep(j) PROVE OfferTraced'
  BY <1>1, <1>3, <1>4, JobStepFrame
<1>5. CASE Keep
  BY <1>1, <1>3, <1>5, KeepJob
<1>6. CASE Move
  BY <1>6, OfferMove
<1>7. CASE Critique
  <2>1. UNCHANGED <<files, lost>>
    BY <1>7 DEF Critique
  <2>2. CASE Approve
    <3>1. phase = "plan_review" /\ planned' = planned /\ planned \in Plans \cup {NoPlan}
      BY <1>1, <2>2 DEF Approve, EngineTypes, RunTypes
    <3>2. Traceable(planned)
      BY <3>1, OfferedIsTraceable
    <3> QED
      BY <2>1, <3>1, <3>2, OfferedAt DEF Traceable
  <2>3. CASE Redo
    <3>1. planned' = Corrected(passes) /\ passes \in 1 .. MAX_CRITIQUE_PASSES
      BY <1>1, <2>3 DEF Redo, End, GraftHeld, RunTypes
    <3>2. Corrected(passes) \in Plans /\ Traceable(Corrected(passes))
      BY <3>1, PlanNames DEF Traceable, Plans
    <3> QED
      BY <2>1, <3>1, <3>2, OfferedAt
  <2>4. CASE Correct \/ Block
    BY <2>4 DEF Correct, Block, End
  <2> QED
    BY <1>7, <2>2, <2>3, <2>4 DEF Critique
<1>8. CASE Crash \/ Exit \/ Unlock \/ UNCHANGED vars
  BY <1>2, <1>8 DEF Crash, Exit, Unlock, vars
<1>9. ASSUME NEW h \in Hosts, Resume(h) \/ Return(h) PROVE OfferTraced'
  BY <1>9 DEF Resume, Return
<1>10. ASSUME NEW f \in Seats, Lose(f) PROVE OfferTraced'
  <2>1. lost' = lost + 1 /\ lost \in Nat /\ UNCHANGED <<phase, planned>>
    BY <1>1, <1>10, Counted DEF Lose
  <2>2. lost' # 0
    BY <2>1
  <2> QED
    BY <2>1, <2>2 DEF OfferTraced
<1> QED
  BY <1>4, <1>5, <1>6, <1>7, <1>8, <1>9, <1>10 DEF Next, Engine, JobStep

\* What is offered for review is, while no artifact vanished, a plan on disk that
\* no other candidate outranks by verdicts on the plans on disk, or its synthesis
\* - however often the engine died, and from whichever artifacts it resumed.
THEOREM ContestOfferTraced == Spec => []OfferTraced
<1>1. Init => OfferTraced
  BY DEF Init, OfferTraced
<1> QED
  BY <1>1, InitFull, FullStep, OfferStep, PTL DEF Spec

=============================================================================
