\* Fair threads, whatever fails or is killed.
SPECIFICATION FairSpec
CONSTANTS
    Api <- OneApi
    Once <- NoWorkers
    a1 = a1
    o1 = o1
    Nobody = Nobody
    RunOnStart = TRUE
    DryRun = FALSE
    Crashes = TRUE
    StoreFails = TRUE
    BeatFails = TRUE
    MaxClock = 1
    MaxTriggers = 3
PROPERTIES
    ShutdownCompletes
    TriggersAreServed
CHECK_DEADLOCK FALSE
