\* One endpoint, both log limits on.
SPECIFICATION Spec
CONSTANTS
    Mac = {m1}
    Ip <- TwoIps
    Port <- TwoPorts
    p1 = p1
    p2 = p2
    NoPort = NoPort
    OfflineAfter = 1
    Retention = 3
    KeepPerType = 1
    MaxClock = 6
    MaxCycles = 4
INVARIANTS
    TypeOK
    StatusMatchesAge
    AddressesAreCurrent
    LogAgreesWithStatus
CHECK_DEADLOCK FALSE
