SPECIFICATION FairSpec
CONSTANTS
    Producers = {p1, p2}
    Posts <- MCPosts
    QuitPosts <- MCQuitPosts
    MaxElements = 2
    NoThread = NoThread
INVARIANTS
    NoLostWakeup
PROPERTIES
    EveryMessageLeaves
    ImplementsDeque
