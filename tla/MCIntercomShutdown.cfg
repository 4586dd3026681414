SPECIFICATION Spec
CONSTANTS
    CallIds = {c1}
    MaxCalls = 1
    MaxThreads = 0
    MaxBoth = 1
INVARIANTS
    AllCallsScriptsDeleted
