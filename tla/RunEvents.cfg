\* Two hosts: the mortal process p1 has host A for itself.
SPECIFICATION Spec
CONSTANTS
    p1 = p1
    p2 = p2
    p3 = p3
    hostA = hostA
    hostB = hostB
    Procs = {p1, p2, p3}
    Mortal = {p1}
    Host <- HostApart
    MaxAcquire = 1
    Operated = TRUE
    NoLock = NoLock
    Ids = {e1, e2}
    Bodies = {x, y}
    Torn = Torn
INVARIANTS TypeOK LogSound 
PROPERTY ImplementsEventLog
SYMMETRY Interchangeable
CHECK_DEADLOCK FALSE
