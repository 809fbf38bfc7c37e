SPECIFICATION FairSpec
CONSTANTS
    Workers = {w1}
    Recs = {r1, r2}
    s1 = s1
    Signals = {s1}
    SignalOf <- SameSignal
    Options = {budget, goal, reminder}
    Exempt = {reminder}
    MaxActions = 2
    MayTimeout = TRUE
    MayCrash = FALSE
    NoRec = NoRec
    NoOption = NoOption
INVARIANTS
    RefusedNeverApplied
    OnePendingPerRecommendation
PROPERTIES
    OutcomesFinal
    HandlersReturn
    ConfirmedResolves
CHECK_DEADLOCK FALSE
