SPECIFICATION AtomicSpec
CONSTANTS
    Subscribers = {s1, s2}
    Senders = {alice, bob}
    Depths = {1, 3}
    PushDepths = {2}
    RetainDepths = {0}
    MaxMessages = 3
    MaxTime = 2
INVARIANTS
    EachLossReportedOnce
    EachMessageInOnePlace
PROPERTIES
    DeferredLeavesRightfully
SYMMETRY Symmetry
