SPECIFICATION FairSpec
CONSTANTS
    CallIds = {c1}
    MaxCalls = 2
    MaxThreads = 1
    MaxBoth = 2
INVARIANTS
    RegisteredNotFreed
    UnstoppedCallIsMapped
    NoOrphanIncoming
    CallsResolveToOwnCall
PROPERTIES
    ImplementsScriptLife
    ShutdownEnds
