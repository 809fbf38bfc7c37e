SPECIFICATION Spec
CONSTANTS
    Workers = {w1, w2}
    Recs = {r1}
    s1 = s1
    Signals = {s1}
    SignalOf <- SameSignal
    Options = {budget, reminder}
    Exempt = {reminder}
    MaxActions = 1
    MayTimeout = FALSE
    MayCrash = FALSE
    NoRec = NoRec
    NoOption = NoOption
INVARIANT
    RefusedNeverApplied
CHECK_DEADLOCK FALSE
