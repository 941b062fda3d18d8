SPECIFICATION Spec
CONSTANTS
    Classes = {"durable", "ephemeral"}
    Attachers = {"surface", "remote"}
    Statements <- NarrowOrState
    Bounds <- WakingBound
    Depth = 2
    PushFrames = 2
    MaxPublishes = 3
    MaxHolds = 2
    MaxRefs = 2
    MaxConns = 2
    MaxRestarts = 1
    MaxRecreates = 0
    MaxRestores = 0
INVARIANTS
    OpenOnBothEnds
    PeersConform
    NoSilentLoss
    NoSecondCopy
    GapIsReal
    DeadNumberingIsAGap
    CursorFollowsAcceptance
    QuietMeansServed
CHECK_DEADLOCK FALSE
