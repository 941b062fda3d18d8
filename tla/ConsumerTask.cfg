SPECIFICATION FairSpec
CONSTANTS
    Channels = {1}
    Apps = {app}
    Component = comp
    Deadlines = {0}
    DeferredCap = 1
    MaxMessages = 2
    MaxTime = 2
    MaxEvents = 1
    Callers = {k1, k2}
    QueueDepth = 1
    PushDepth = 1
INVARIANTS
    HandedOnce
    PassedIsAccounted
PROPERTIES
    CallerIsAnswered
    OwedIsServed
CHECK_DEADLOCK FALSE
