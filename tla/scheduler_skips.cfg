SPECIFICATION Spec
CONSTANTS
    Schedulers = {s1}
    Customers = {c1, c2}
    Frozen = {c2}
    NoCustomer = NoCustomer
    MaxFaults = 0
    MaxOutages = 0
INVARIANTS
    EveryCustomerScanned
