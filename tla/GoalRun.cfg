\* One operator, one verb at a time; crashes, orphans, STOP and edits at any step.
SPECIFICATION FairSpec
CONSTANTS
    p1 = p1
    p2 = p2
    n1 = n1
    n2 = n2
    Procs = {p1}
    Nodes = {n1, n2}
    DependsOn <- Chain
    Order <- InOrder
    Budgets <- Few
    FirstEnvelope <- First1
    MaxApprovals = 2
    MaxTroubles = 2
INVARIANTS
    GoalTypeOK SpawnedOnce LiveChildKept  AttemptBudget
    GrantSpentOnce DependencyPassed DoneEarned StopHonoured
PROPERTIES HistoryKept VerbsEnd
CHECK_DEADLOCK FALSE
