CONSTANTS
    Blocks <- MCBlocks
    NullHash <- Null
    Recons = {0, 1}
    Shards = {0}
    Numbers = {0}
    Faults = {}
    MaxCrashes = 1
    NoSession = NoSession
    NoCall = NoCall
SPECIFICATION FairSpec
PROPERTIES
    InitFinishes
