SPECIFICATION Spec
CONSTANTS
    Workers = {w1, w2}
    Nobody = Nobody
    Kinds = {"post"}
    Amounts = {1, 2}
    Minimums = {1}
    Keys = {k1, k2}
    NoKey = NoKey
    Categories = {food, transfer}
    Transfer = transfer
    Opening = 3
    Limit = 2
    MaxDay = 2
    MaxRequests = 4
SYMMETRY Symmetry
INVARIANT
    StatementExplainsBalance
CHECK_DEADLOCK FALSE
