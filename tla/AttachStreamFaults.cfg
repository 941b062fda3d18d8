SPECIFICATION FairSpec
CONSTANTS
    Classes = {"durable", "ephemeral"}
    Attachers = {"surface"}
    Statements <- OneStatement
    Bounds <- EitherBound
    Depth = 2
    PushFrames = 1
    MaxPublishes = 2
    MaxHolds = 1
    MaxRefs = 1
    MaxConns = 2
    MaxRestarts = 2
    MaxRecreates = 1
    MaxRestores = 1

    
PROPERTY
    HeldIsServed
CHECK_DEADLOCK FALSE
