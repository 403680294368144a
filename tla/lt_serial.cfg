CONSTANTS
    Tx = {a}
    NoTx = NoTx
    Stamps = {1, 2}
    Hooks = {h1}
    Page = {"poll", "socket"}
    Env = {"stale", "ttl"}
SPECIFICATION FairSpec
PROPERTIES LiveTripGrows ScreenSettles PointerHeals
