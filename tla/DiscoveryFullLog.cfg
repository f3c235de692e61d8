\* One endpoint, both log limits disabled: the complete log.
SPECIFICATION Spec
CONSTANTS
    Mac = {m1}
    Ip <- TwoIps
    Port <- TwoPorts
    p1 = p1
    p2 = p2
    NoPort = NoPort
    OfflineAfter = 1
    Retention = 0
    KeepPerType = 0
    MaxClock = 5
    MaxCycles = 4
INVARIANTS
    AddressLogReplays
    LifecycleBalances
CHECK_DEADLOCK FALSE
