CONSTANTS
    Main = Main
    Worker = Worker
    Nobody = Nobody
    SignalThreads = {Main, Worker}
    MaxSignals = 6
    MayHang = TRUE
SPECIFICATION SFairSpec
CHECK_DEADLOCK FALSE
INVARIANTS
    STypeOK
    HandlerStateAlive
    
    NoLostWakeup

    
