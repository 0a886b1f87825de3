SPECIFICATION Spec
CONSTANTS
    UInt32Max = 3
    LongMax = 7
    KDF_ITERS_MIN = 1
    KDF_ITERS_MAX = 3
    KDF_ITERS_DEFAULT = 2
    Passwords <- MCPasswords
    Salts <- MCSalts
    Greeds = {1, 2, 8}
    InitialWallets <- MCInitialWallets
    MaxRuns = 2
INVARIANTS
    GTypeOK
    
    

    
    
