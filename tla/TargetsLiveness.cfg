\* Fair cycles on PostgreSQL; every device keeps its own address.
SPECIFICATION FairSpec
CONSTANTS
    d1 = d1
    d2 = d2
    a1 = a1
    a2 = a2
    default = default
    other = other
    Device <- TwoDevices
    Address <- TwoAddresses
    NoAddress = NoAddress
    Profile <- TwoProfiles
    NoProfile = NoProfile
    NoDevice = NoDevice
    Configured <- TwoProfiles
    Names <- NamesBoth
    Unusable <- OtherUnusable
    Home <- Homes
    Seeds <- OneSeed
    SeedNames <- SeedNamesOther
    Waiting = Waiting
    Unreachable = Unreachable
    Readdress = FALSE
    Serialised = FALSE
PROPERTIES
    OfferedIsPolled
