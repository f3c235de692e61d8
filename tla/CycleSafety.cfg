\* Every way to start a cycle, crashes and store failures.
SPECIFICATION Spec
CONSTANTS
    Api <- OneApi
    Once <- OneOnce
    a1 = a1
    o1 = o1
    Nobody = Nobody
    RunOnStart = TRUE
    DryRun = FALSE
    Crashes = TRUE
    StoreFails = TRUE
    BeatFails = TRUE
    MaxClock = 2
    MaxTriggers = 3
INVARIANTS
    TypeOK
    LockIsNeverLeaked
    RowsAreHonest
PROPERTIES
    NewestWins
    OutageChangesNothing
    ImplementsSerialCycles
CHECK_DEADLOCK FALSE
