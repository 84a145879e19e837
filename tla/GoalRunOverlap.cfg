\* Two terminals: the verbs of two processes interleave, nothing else goes wrong.
SPECIFICATION Spec
CONSTANTS
    p1 = p1
    p2 = p2
    n1 = n1
    n2 = n2
    Procs = {p1, p2}
    Nodes = {n1, n2}
    DependsOn <- Chain
    Order <- InOrder
    Budgets <- Few
    FirstEnvelope <- First1
    MaxApprovals = 1
    MaxTroubles = 0
INVARIANT SpawnedOnce
CHECK_DEADLOCK FALSE
