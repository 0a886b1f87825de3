CONSTANTS
    Blocks <- MCBlocks
    NullHash <- Null
    Recons = {0, 1, 2, 3}
    Shards = {0, 1}
    Numbers = {0, 1}
    Faults = {}
    FileFaults = {}
    MaxCrashes = 0
    Directories <- MCDirectories
    NoSession = NoSession
    NoCall = NoCall
    Undecodable = Undecodable
SPECIFICATION CFairSpec
CHECK_DEADLOCK FALSE
INVARIANTS
    LoadedInAnyOrder
PROPERTIES
    LoaderFinishes
