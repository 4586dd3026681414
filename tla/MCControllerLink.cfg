SPECIFICATION FairSpec
CONSTANTS
    Worker = worker
    Setters = {s1}
    Cap = 1
    MaxStores = 1
    MaxMishaps = 2
INVARIANTS
    WritesOnLivePort
    OutputIsStored
    InputIsKnown
    RelayFollows
PROPERTIES
    LinkComesBack
CHECK_DEADLOCK FALSE
