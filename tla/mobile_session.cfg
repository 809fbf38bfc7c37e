SPECIFICATION FairSpec
CONSTANTS
    Customers = {c1, c2}
    Jobs = {j1, j2}
    Offers <- MCOffers
    Attempts = 2
    MaxStarts = 3
    MaxReports = 2
INVARIANTS
    OwnData
    ConsentInformed
    ContextCurrent
PROPERTIES
    ScansEnd
CHECK_DEADLOCK FALSE
