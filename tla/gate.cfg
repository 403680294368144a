CONSTANTS
    Jobs = {j1}
    MaxTries = 1
    Env = {"crash", "ttl", "failopen", "redis", "stale", "cancel"}
    NoToken = NoToken
    Retries = {r1, r2, r3}
    NoRetry = NoRetry
SPECIFICATION GateSpec
INVARIANT RetryExclusive
CHECK_DEADLOCK FALSE
