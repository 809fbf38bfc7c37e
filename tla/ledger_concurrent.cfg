SPECIFICATION Spec
CONSTANTS
    Workers = {w1, w2}
    Nobody = Nobody
    Kinds = {"activate", "sweep", "demo", "withdraw", "draw", "post", "budget"}
    Amounts = {1, 2}
    Minimums = {1}
    Keys = {k1}
    NoKey = NoKey
    Categories = {transfer}
    Transfer = transfer
    Opening = 3
    Limit = 2
    MaxDay = 2
    MaxRequests = 4
SYMMETRY Symmetry
INVARIANTS
    TypeOK
    LimitsKept
    SavingsExplained
    OneSweepPerDay
    KeyedOnce
PROPERTY
    MinimumKept
CHECK_DEADLOCK FALSE
