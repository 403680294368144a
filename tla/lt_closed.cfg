CONSTANTS
    Tx = {a}
    NoTx = NoTx
    Stamps = {1}
    Hooks = {h1, h2, h3}
    Page = {"poll"}
    Env = {"stale", "redis"}
SPECIFICATION LiveSpec
INVARIANT LiveTypeOK
PROPERTY LateEventsSuppressed
