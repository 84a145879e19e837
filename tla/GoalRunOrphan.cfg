\* One operator, one crash of the engine: what becomes of the child it leaves.
SPECIFICATION Spec
CONSTANTS
    p1 = p1
    p2 = p2
    n1 = n1
    n2 = n2
    Procs = {p1}
    Nodes = {n1, n2}
    DependsOn <- Chain
    Order <- InOrder
    Budgets <- Few
    FirstEnvelope <- First1
    MaxApprovals = 2
    MaxTroubles = 1
INVARIANT OneSessionPerNode
CHECK_DEADLOCK FALSE
