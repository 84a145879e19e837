\* Two seats, two hosts, two mishaps.
SPECIFICATION FairSpec
CONSTANTS
    Seats = {1, 2}
    Hosts = {h1, h2}
    NoHost = NoHost
    Scores = {1, 2}
    MaxMishaps = 2
    GapCrash = FALSE
INVARIANTS PlanTypeOK   OfferTraced
PROPERTIES SettledKept ContestEnds
CHECK_DEADLOCK FALSE
