SPECIFICATION Spec
CONSTANTS
    Channels = {1}
    Apps = {app}
    Component = comp
    Deadlines = {0}
    DeferredCap = 1
    MaxMessages = 1
    MaxTime = 2
    MaxEvents = 1
    Poll = 9
    Debounce = 1
    MaxWriters = 1
INVARIANT
    ReleaseTimeIffUnpositioned
CHECK_DEADLOCK FALSE
