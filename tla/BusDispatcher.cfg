SPECIFICATION FairSpec
CONSTANTS
    Channels = {1}
    Apps = {app}
    Component = comp
    Deadlines = {0, 2}
    DeferredCap = 2
    MaxMessages = 2
    MaxTime = 2
    MaxEvents = 1
    Poll = 9
    Debounce = 1
    MaxWriters = 1
INVARIANT
    SleepTargetIsFresh
PROPERTIES
    RetainedIsFinal
    ImplementsBus
CHECK_DEADLOCK FALSE
