\* A delegate with one wake, and one interactive session coming online; no accidents.
SPECIFICATION SharedSpec
CONSTANTS
    Msgs = {m1}
    Wakes = {w}
    Standbys = {s}
    Delegate = dlg
    RequeueLimit = 1
    MaxFailures = 2
    MaxQuota = 0
    MaxCrash = 0
    NoMsg = NoMsg
    NoSession = NoSession
INVARIANT HeartbeatIsHistory
CHECK_DEADLOCK FALSE
