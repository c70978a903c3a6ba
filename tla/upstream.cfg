SPECIFICATION UpstreamFairSpec
CONSTANTS
    NoConn = NoConn
    Conns = {c1, c2}
    Coros = {k1, k2}
    Settings <- MCSettings
INVARIANTS PoolConsistent LimitHolds
PROPERTIES WaitsEnd DroppedIsFreed
CHECK_DEADLOCK FALSE
