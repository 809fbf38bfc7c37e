SPECIFICATION FairSpec
CONSTANTS
    Schedulers = {s1, s2}
    Customers = {c1, c2}
    Frozen = {c2}
    NoCustomer = NoCustomer
    MaxFaults = 2
    MaxOutages = 1
INVARIANTS
    TypeOK
    LockSound
    FailuresIsolated
PROPERTIES
    ScannedAgain
