\* SQLite; devices move, profiles come and go.
SPECIFICATION Spec
CONSTANTS
    d1 = d1
    d2 = d2
    a1 = a1
    a2 = a2
    default = default
    other = other
    Device <- TwoDevices
    Address <- TwoAddresses
    NoAddress = NoAddress
    Profile <- TwoProfiles
    NoProfile = NoProfile
    NoDevice = NoDevice
    Configured <- OneProfile
    Names <- NamesBoth
    Unusable <- NoneUnusable
    Home <- Homes
    Seeds <- OneSeed
    SeedNames <- SeedNamesOther
    Waiting = Waiting
    Unreachable = Unreachable
    Readdress = TRUE
    Serialised = TRUE
INVARIANTS
    TypeOK
    ImportedAreOffered
    RefsAreUnique
PROPERTIES
    ProfilesAreKept
    OutageDisablesNothing
