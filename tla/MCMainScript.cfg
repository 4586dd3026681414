SPECIFICATION FairSpec
CONSTANTS
    PhoneCount = 2
    CallIds = {c1, c2}
    BellRepeats = 2
    Buttons = {"main", "indoor", "door"}
    Readings = {"near"}
    QueueMax = 1
    MaxEvents = 2
    MaxCalls = 2
    NoCall = NoCall
INVARIANTS
    LightsComeBack
    NoRingingAfterCalling
    RingingIsWatched
    ConnectedEndsCalling
PROPERTIES
    CallingComesToRest
CHECK_DEADLOCK FALSE
