SPECIFICATION Spec
CONSTANTS
    Classes = {"durable", "ephemeral"}
    Attachers = {"surface", "remote"}
    Statements <- OneStatement
    Bounds <- WakingBound
    Depth = 2
    PushFrames = 1
    MaxPublishes = 3
    MaxHolds = 2
    MaxRefs = 1
    MaxConns = 2
    MaxRestarts = 0
    MaxRecreates = 1
    MaxRestores = 0
INVARIANT DeadNumberingIsAGap
CHECK_DEADLOCK FALSE
