------------------------------ MODULE GoalPhases ------------------------------
(* The phase table of lib/goal-lifecycle/state-machine.mjs. *)

PHASES == {"new", "planning", "plan_review", "awaiting_approval", "running",
           "awaiting_action_approval", "final_verification", "needs_user",
           "stopped", "done", "failed"}

\* The legal successors of each phase.
TRANSITIONS ==
    [new                      |-> {"planning"},
     planning                 |-> {"plan_review", "needs_user"},
     plan_review              |-> {"awaiting_approval", "planning", "needs_user"},
     awaiting_approval        |-> {"running"},
     running                  |-> {"final_verification", "awaiting_action_approval",
                                   "needs_user", "stopped", "failed", "planning"},
     awaiting_action_approval |-> {"running", "stopped"},
     final_verification       |-> {"done", "running", "planning", "needs_user",
                                   "awaiting_action_approval", "stopped", "failed"},
     needs_user               |-> {"running", "planning"},
     stopped                  |-> {"running"},
     done                     |-> {},
     failed                   |-> {}]

=============================================================================
