CONSTANTS
    Blocks <- MCBlocks
    NullHash <- Null
    Recons = {0, 1, 2, 3}
    Shards = {0, 1}
    Numbers = {0, 1, 2}
    Faults = {"session", "query"}
    MaxCrashes = 2
    NoSession = NoSession
    NoCall = NoCall
SPECIFICATION Spec
INVARIANTS
    CacheMatchesDatabase
    SecondCheckRedundant
    WholePreviousImported
PROPERTIES
    ImplementsChain
