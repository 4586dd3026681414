SPECIFICATION Spec
CONSTANTS
    PhoneCount = 1
    CallIds = {c1}
    BellRepeats = 2
    Buttons = {"main", "indoor", "door"}
    Readings = {"near", "far"}
    QueueMax = 2
    MaxEvents = 5
    MaxCalls = 1
    NoCall = NoCall
INVARIANTS
    RepeatIsArmed
CHECK_DEADLOCK FALSE
