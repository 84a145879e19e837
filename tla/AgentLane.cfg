\* The delegate and its wakes: two messages, one retry, one usage limit, one power cut.
SPECIFICATION FairSpec
CONSTANTS
    Msgs = {m1, m2}
    Wakes = {w}
    Standbys = {}
    Delegate = dlg
    RequeueLimit = 1
    MaxFailures = 2
    MaxQuota = 1
    MaxCrash = 1
    NoMsg = NoMsg
    NoSession = NoSession
INVARIANTS LaneTypeOK   PoisonBounded FailOutEarned OneReply
PROPERTIES StopHonoured ClaimsRecovered
CHECK_DEADLOCK FALSE
