CONSTANTS
    Addresses = {a1}
    MAX_OFFENSES = 3
    LOCKOUT_SECONDS = 3
    CLEANUP_INTERVAL_SECONDS = 1
SPECIFICATION BFairSpec
PROPERTY
    Forgiven
