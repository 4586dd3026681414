SPECIFICATION FairSpec
CONSTANTS
    Digits = {one, hash}
    MaxOps = 3
    MaxDigits = 2
INVARIANTS
    ReportedOnce
    SilentAfterStop
PROPERTIES
    AsyncIsReported
    SyncReturns
