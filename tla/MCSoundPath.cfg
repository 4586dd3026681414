\* Two captured and three played pieces fill m_put_buffer and m_buffer past their limits,
\* lat_buf, and the delay buffer past its limit; a capture can find it empty.
CONSTANTS
    PutCapacity = 1
    MonCapacity = 1
    Latency = 1
    DelayMax = 1
    MaxCaptured = 2
    MaxPlayed = 3
SPECIFICATION FairSpec
INVARIANTS LatencyKept ReferencesInOrder UsedWhileAlive NoFrameSleeps
PROPERTIES TakenApart
\* The frames are bounded, and clean_system() ends.
CHECK_DEADLOCK FALSE
