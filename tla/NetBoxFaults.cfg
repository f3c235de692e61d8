\* Two hosts that share an address, with lost calls and an edit.
SPECIFICATION Spec
CONSTANTS
    Mac <- TwoMacs
    Address <- OneAddress
    Device = {d1, d2, d3}
    NoMac = NoMac
    NoAddress = NoAddress
    NoDevice = NoDevice
    OfflineAfter = 0
    DeleteAfter = 1
    AutoDelete = TRUE
    Edits <- Adopting
    MaxEdits = 1
    MaxLosses = 1
SYMMETRY DeviceSymmetry
INVARIANTS
    TypeOK
    SyncRepairs
    HeldByNewestHolder
    ReservationsSurvive
    OneDevicePerMac
PROPERTIES
    NothingFreshIsDeleted
