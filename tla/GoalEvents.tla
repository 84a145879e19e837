------------------------------ MODULE GoalEvents ------------------------------
(***************************************************************************)
(* What a goal run writes to its event sidecar (appendGoalEvent of         *)
(* lib/goal-lifecycle/store.mjs) as its phase moves: every transition has  *)
(* an event id made of the event, the step and the attempt, and a detail.  *)
(* The sidecar answers `duplicate` to an id it holds with the same intent  *)
(* and refuses one it holds with a different intent.                       *)
(*                                                                         *)
(* The sidecar can always be written here: no I/O fails, nothing crashes,  *)
(* one verb at a time.  Events of attempts carry the attempt's number, so  *)
(* their ids never repeat; an attempt only advances the sequence.          *)
(***************************************************************************)
EXTENDS GoalPhases, Naturals

CONSTANTS
    Causes,      \* what a human is asked to look at, or to grant
    MaxSequence  \* bound: transitions of the run

VARIABLES
    phase,       \* run.json: phase
    sequence,    \* run.json: sequence
    passes,      \* run.json: planning.critique_passes
    approved,    \* run.json: an envelope digest is approved
    diverged,    \* run.json: divergence
    sidecar,     \* the events recorded, as <<id, detail>>
    answer       \* what the last reconciliation of goal resume came to

vars == <<phase, sequence, passes, approved, diverged, sidecar, answer>>

Init ==
    /\ phase = "new"
    /\ sequence = 0
    /\ passes = 0
    /\ approved = FALSE
    /\ diverged = FALSE
    /\ sidecar = {}
    /\ answer = "none"

\* The id is already recorded with another detail.
Conflict(id, detail) == \E e \in sidecar : e[1] = id /\ e[2] # detail

Record(id, detail) ==
    sidecar' = IF Conflict(id, detail) THEN sidecar ELSE sidecar \cup {<<id, detail>>}

\* commitTransition of a `move`; the detail carries where the run came from.
Commit(to, id, detail) ==
    /\ sequence < MaxSequence
    /\ to \in TRANSITIONS[phase]
    /\ phase' = to
    /\ sequence' = sequence + 1
    /\ Record(id, <<phase, detail>>)
    /\ diverged' = (diverged \/ Conflict(id, <<phase, detail>>))
    /\ UNCHANGED answer

-----------------------------------------------------------------------------
(* goal plan: one process, to the offer or to a human *)

ToPlanning ==
    /\ phase = "new"
    /\ Commit("planning", "run.created", "intake")
    /\ UNCHANGED <<passes, approved>>

ToPlanReview ==
    /\ phase = "planning"
    /\ Commit("plan_review", "step.started|plan-review", passes + 1)
    /\ UNCHANGED <<passes, approved>>

\* At most two correction passes.
ToPlanCorrection ==
    /\ phase = "plan_review" /\ passes < 2
    /\ passes' = passes + 1
    /\ Commit("planning", "step.failed|plan-review", passes + 1)
    /\ UNCHANGED approved

ToAwaitingApproval ==
    /\ Commit("awaiting_approval", "step.completed|plan-review", "envelope")
    /\ UNCHANGED <<passes, approved>>

\* The critique is out of passes, no seat answers, jobs cannot be judged.
PlanBlocked ==
    /\ phase \in {"planning", "plan_review"}
    /\ \E c \in Causes : Commit("needs_user", "run.blocked", c)
    /\ UNCHANGED <<passes, approved>>

-----------------------------------------------------------------------------
(* goal approve, goal run: refused while the run is diverged *)

ApproveEnvelope ==
    /\ phase = "awaiting_approval"
    /\ Commit("running", "run.approved", "envelope")
    /\ approved' = TRUE
    /\ UNCHANGED passes

Driven == phase \in {"running", "final_verification"} /\ ~diverged

\* An attempt is opened and settled, with ids of its own.
Attempt ==
    /\ Driven /\ phase = "running" /\ sequence + 2 <= MaxSequence
    /\ sequence' = sequence + 2
    /\ UNCHANGED <<phase, passes, approved, diverged, sidecar, answer>>

Pause ==
    /\ Driven
    /\ \/ \E c \in Causes : Commit("needs_user", "run.blocked", c)
       \/ phase = "running" /\ Commit("stopped", "run.blocked", "STOP")
       \/ /\ phase = "running"
          /\ \E c \in Causes : Commit("awaiting_action_approval", "run.blocked", c)
    /\ UNCHANGED <<passes, approved>>

\* The final check starts, reopens nodes, or approves.
Verify ==
    /\ Driven
    /\ \/ phase = "running" /\ Commit("final_verification", "step.started|final-verify", "plan")
       \/ /\ phase = "final_verification"
          /\ \/ \E c \in Causes : Commit("running", "run.started", c)
             \/ Commit("done", "run.completed|final-verify", "exit check")
    /\ UNCHANGED <<passes, approved>>

\* It finds a scope change: the approval is cleared.
ScopeChange ==
    /\ Driven /\ phase = "final_verification"
    /\ \E c \in Causes : Commit("planning", "run.reconciled", c)
    /\ approved' = FALSE
    /\ UNCHANGED passes

\* goal approve-action; or an amendment of the envelope in the run folder.
Unpause ==
    /\ \/ phase = "awaiting_action_approval"
       \/ /\ phase \in {"needs_user", "stopped"}
          /\ \E e \in sidecar : e[1] = "step.completed|plan-review"
    /\ \E c \in Causes : Commit("running", "run.started", c)
    /\ approved' = TRUE
    /\ UNCHANGED passes

-----------------------------------------------------------------------------
(* goal resume, of a run no verb is driving *)

\* Of the intent built by reconciliationIntent only the detail is used, a digest
\* of phase, sequence and nodes; the id is that of every other run.reconciled.
Reconcile ==
    /\ diverged /\ phase \notin {"new", "planning", "plan_review"}
    /\ Record("run.reconciled", <<"digest", phase, sequence>>)
    /\ IF Conflict("run.reconciled", <<"digest", phase, sequence>>)
         THEN diverged' = TRUE  /\ answer' = "halted"
         ELSE diverged' = FALSE /\ answer' = "cleared"
    /\ UNCHANGED <<phase, sequence, passes, approved>>

\* With nothing to reconcile the phase decides; without an approval the plan
\* has to be re-made.
Resume ==
    /\ ~diverged
    /\ \/ phase = "stopped" /\ Commit("running", "run.started", "STOP removed")
       \/ phase = "needs_user" /\ approved /\ Commit("running", "run.started", "remedied")
       \/ phase = "needs_user" /\ ~approved /\ Commit("planning", "run.reconciled", "no envelope")
    /\ UNCHANGED <<passes, approved>>

Next ==
    \/ ToPlanning \/ ToPlanReview \/ ToPlanCorrection \/ ToAwaitingApproval \/ PlanBlocked
    \/ ApproveEnvelope \/ Attempt \/ Pause \/ Verify \/ ScopeChange \/ Unpause
    \/ Reconcile \/ Resume

Spec == Init /\ [][Next]_vars

-----------------------------------------------------------------------------
\* "`goal resume` is what clears it after reconciliation" (stampDivergence):
\* with a sidecar that can be written, a reconciliation succeeds.
ReconciliationClears == answer # "halted"

=============================================================================
