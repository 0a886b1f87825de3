CONSTANTS
    Blocks <- MCBlocks
    NullHash <- Null
    Recons = {0, 1, 2}
    Shards = {0}
    Numbers = {0}
    Faults = {"commit"}
    MaxCrashes = 0
    NoSession = NoSession
    NoCall = NoCall
SPECIFICATION Spec
INVARIANTS
    WholePreviousImported
