\* One host, one process that ends, nobody operating the recovery.
SPECIFICATION Spec
CONSTANTS
    p1 = p1
    p2 = p2
    p3 = p3
    hostA = hostA
    hostB = hostB
    Procs = {p1, p2, p3}
    Mortal = {p1}
    Host <- HostShared
    MaxAcquire = 1
    Operated = FALSE
    NoLock = NoLock
    Ids = {e1, e2}
    Bodies = {x, y}
    Torn = Torn
INVARIANT LogSound
CHECK_DEADLOCK FALSE
