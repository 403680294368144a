CONSTANTS
    Jobs = {j1, j2}
    MaxTries = 2
    Env = {"timeout", "crash", "shutdown", "write"}
    NoToken = NoToken
SPECIFICATION FairSpec
INVARIANT OverlapNeedsReplay
PROPERTY NeverStuckSyncing
CHECK_DEADLOCK FALSE
