SPECIFICATION FairSpec
CONSTANTS
    MaxHops = 2
    MaxAttempts = 2
    MaxSignals = 2
    Options <- MCOptions
    Specs = {"local", "dynamic"}
    Conn = {1, 2}
    Slots = 1
INVARIANTS TimeoutTruthful SuccessIsReal TunnelSound
PROPERTIES RetryIsHarmless AbandonedSendsNothing WindsDown
CHECK_DEADLOCK FALSE
