\* No fault of any kind: the ids of the run's own events.
SPECIFICATION Spec
CONSTANTS
    Causes = {c1, c2}
    MaxSequence = 14
INVARIANT ReconciliationClears
CHECK_DEADLOCK FALSE
