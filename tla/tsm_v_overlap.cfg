CONSTANTS
    Jobs = {j1, j2}
    MaxTries = 1
    Env = {"cancel"}
    NoToken = NoToken
SPECIFICATION Spec
SYMMETRY Symmetry
INVARIANT MutualExclusion
CHECK_DEADLOCK FALSE
