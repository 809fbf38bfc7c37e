SPECIFICATION FairSpec
CONSTANTS
    Workers = {api, sched}
    Api = {api}
    Possible = {"GOAL_DRIFT", "IDLE_CASH"}
    MaxScans = 2
    MaxChanges = 1
    Retries = 1
    CustomerActs = TRUE
    MayCrash = TRUE
INVARIANTS
    RecommendationMatches
    ReportIsFaithful
    OpenSignalsBounded
PROPERTIES
    ScansFinish
CHECK_DEADLOCK FALSE
