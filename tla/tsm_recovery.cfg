CONSTANTS
    Jobs = {j1, j2}
    MaxTries = 2
    Env = {"crash", "cancel", "write"}
    NoToken = NoToken
SPECIFICATION Spec
SYMMETRY Symmetry
INVARIANT TypeOK
PROPERTIES OwnerOrRecoverer CancellationWinsOnReplay
CHECK_DEADLOCK FALSE
