SPECIFICATION Spec
CONSTANTS
    Workers = {w1, w2}
    Ids = {"C1", "C10"}
    Accounts = {a1, a2}
    Links = {l1}
    Keys = {k1}
    Within <- MCWithin
    MaxRequests = 8
INVARIANTS
    AppliedOnce
    RecordsDieWithCustomer
    SavingsLinked
PROPERTIES
    OnlyOwnRows
SYMMETRY Symmetry
CHECK_DEADLOCK FALSE
