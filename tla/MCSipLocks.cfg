SPECIFICATION FairSpec
CONSTANTS
    Calls = {c1, c2}
    Worker = worker
    Timer = timer
    MainThread = main
    CallThread = call
    Pjsua = pjsua
    Mutex = mutex
    NoThread = none
    MaxOps = 4
INVARIANTS
    LockOrder
    SessionOutlivesReader
PROPERTIES
    OperationsEnd
CHECK_DEADLOCK FALSE
