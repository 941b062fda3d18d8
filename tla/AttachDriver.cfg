SPECIFICATION FairSpec
CHECK_DEADLOCK FALSE
CONSTANTS
    Ours <- Build
    PeerVersions <- Peers
    Heartbeats = {0, 1, 2}
    Multiplier = 2
    ConnectTimeout = 2
    InitialBackoff = 1
    MaxBackoff = 4
    StepCap = 3
    MaxInbox = 2
INVARIANTS
    TransportOwned
    DeadlineKept
    AttachedIsActive
PROPERTIES
    ReapedOnlySilent
    BackoffFollowsFailures
    AttemptEnds
    SilentPeerIsReaped
