\* Nobody dies: a relay and a wake, a thread that rolls after two turns.
SPECIFICATION Spec
CONSTANTS
    Procs = {relay, wake}
    Appenders = {relay}
    Mortal = {}
    Nobody = Nobody
    Msgs = {m1, m2, m3}
    UserMsgs = {m1, m3}
    Cap = 2
    MaxTurns = 2
INVARIANT CounterCovers
CHECK_DEADLOCK FALSE
