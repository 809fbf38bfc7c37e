SPECIFICATION Spec
CONSTANTS
    Workers = {w1, w2}
    Recs = {r1}
    s1 = s1
    Signals = {s1}
    SignalOf <- SameSignal
    Options = {budget, reminder}
    Exempt = {reminder}
    MaxActions = 2
    MayTimeout = TRUE
    MayCrash = TRUE
    NoRec = NoRec
    NoOption = NoOption
SYMMETRY Symmetry
INVARIANTS
    TypeOK
    AtMostOnce
    EffectAuthorised
    ReportsTrue
PROPERTIES
    KeepsContract
CHECK_DEADLOCK FALSE
