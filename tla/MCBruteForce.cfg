CONSTANTS
    Addresses = {a1, a2, a3}
    MAX_OFFENSES = 3
    LOCKOUT_SECONDS = 3
    CLEANUP_INTERVAL_SECONDS = 1
SPECIFICATION BSpec
SYMMETRY AddressSymmetry
INVARIANTS
    BTypeOK
    StrikesBlock
