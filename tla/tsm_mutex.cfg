CONSTANTS
    Jobs = {j1, j2, j3}
    MaxTries = 2
    Env = {"timeout", "clear", "redis", "lookup", "write"}
    NoToken = NoToken
SPECIFICATION Spec
SYMMETRY Symmetry
INVARIANT MutualExclusion
PROPERTY ImplementsIngestMutex
CHECK_DEADLOCK FALSE
