CONSTANTS
    Blocks <- MCBlocks
    NullHash <- Null
    Recons = {0, 1, 2, 3}
    Shards = {0, 1}
    Numbers = {0, 1}
    Faults = {"session", "query", "commit"}
    FileFaults = {"list", "read"}
    MaxCrashes = 1
    Directories <- MCDirectories
    NoSession = NoSession
    NoCall = NoCall
    Undecodable = Undecodable
SPECIFICATION CSpec
CHECK_DEADLOCK FALSE
INVARIANTS
    CTypeOK
    
    ImportIsAtomic
    CacheCoversDatabase
PROPERTIES
    PositionMovesForward
