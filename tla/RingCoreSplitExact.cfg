SPECIFICATION SplitSpec
CONSTANTS
    Subscribers = {s1}
    Senders = {alice}
    Depths = {1}
    PushDepths = {1}
    RetainDepths = {0}
    MaxMessages = 2
    MaxTime = 0
INVARIANT
    EachLossReportedOnce
