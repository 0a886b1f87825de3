CONSTANTS
    Opener = Opener
    Scheduler = Scheduler
    Clients = {c1, c2}
    Kinds = {"served", "refused", "garbled"}
    MaxRequests = 2
    MayAwait = TRUE
    RecvFaults = TRUE
    NoRequest = NoRequest
SPECIFICATION AFairSpec
CHECK_DEADLOCK FALSE
INVARIANTS
    
    OneReader
    ReaderAttends
    RequestConserved
    TroveHoldsOpen
PROPERTIES
    USpec
    
    WakeupServed
