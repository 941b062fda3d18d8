SPECIFICATION SplitSpec
CONSTANTS
    Subscribers = {s1}
    Senders = {}
    Depths = {0, 1, 3}
    PushDepths = {0, 1, 2}
    RetainDepths = {0, 3}
    MaxMessages = 5
    MaxTime = 0
INVARIANTS
    PositionsAreSound
    NoLossUnreported
    WakeIffWindowHasNew
    ContinuityClaimIsExact
    GapSuffixAccounts
PROPERTIES
    DeliverableIsStable
    ImplementsFeed
