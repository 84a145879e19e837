\* One host: a process that may die at any step and its successor, no operator.
SPECIFICATION LockFairSpec
CONSTANTS
    p1 = p1
    p2 = p2
    hostA = hostA
    Procs = {p1, p2}
    Mortal = {p1}
    Host <- HostShared
    MaxAcquire = 3
    Operated = FALSE
    NoLock = NoLock
INVARIANTS LockTypeOK MutualExclusion LiveLockKept

PROPERTIES CallsEnd DeadOwnerReclaimed
CHECK_DEADLOCK FALSE
