SPECIFICATION Spec
CONSTANTS
    Topics <- MCTopics
    Types = {"T"}
    Handlers <- MCHandlers
    ServerKey <- MCServerKey
    PeerKeys <- MCPeerKeys
    MaxEvents <- MCMaxEvents
    MaxTries <- MCMaxTries
INVARIANTS
    ETypeOK
    RightHandler
    InOrderOnce
    FramesPaired
PROPERTY
    WaitingEventHandled
CHECK_DEADLOCK FALSE
