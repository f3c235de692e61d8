\* A host whose lease becomes a reservation, while a call is lost.
SPECIFICATION Spec
CONSTANTS
    Mac <- OneMac
    Address <- OneAddress
    Device = {d1}
    NoMac = NoMac
    NoAddress = NoAddress
    NoDevice = NoDevice
    OfflineAfter = 0
    DeleteAfter = 1
    AutoDelete = TRUE
    Edits <- Protecting
    MaxEdits = 0
    MaxLosses = 1
SYMMETRY DeviceSymmetry
PROPERTIES
    ReservationsKept
