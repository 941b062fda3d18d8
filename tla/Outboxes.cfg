SPECIFICATION FairSpec
CONSTANTS
    Keys = {1, 2}
    Depths = {1, 2}
    MaxFlushes = 3
    MaxGenerations = 2
    MaxConns = 2
    MaxRefusals = 1
INVARIANTS
    AnswersReconcile
    AppliedAtMostOnce
    NothingOwedIsOvertaken
    LossIsAccounted
    ReportedIsDead
PROPERTY
    QueuedIsOffered
CHECK_DEADLOCK FALSE
