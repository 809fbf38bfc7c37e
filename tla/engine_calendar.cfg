SPECIFICATION Spec
CONSTANTS
    Customers <- MCCustomers
    ContextLimit = 100
    Lookback = 30
    Horizon = 14
    BaselineMonths = 3
    MaxUpdates = 2
INVARIANTS
    TypeOK
    ForecastComesTrue
    ShortfallsForeseen
    AnomaliesAreReal
    OffersAreSound
PROPERTIES
    PlansReachTarget
CHECK_DEADLOCK FALSE
