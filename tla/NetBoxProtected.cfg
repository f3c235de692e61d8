\* A protected address of a host that is not.
SPECIFICATION Spec
CONSTANTS
    Mac <- OneMac
    Address <- OneAddress
    Device = {d1}
    NoMac = NoMac
    NoAddress = NoAddress
    NoDevice = NoDevice
    OfflineAfter = 0
    DeleteAfter = 1
    AutoDelete = TRUE
    Edits <- Protecting
    MaxEdits = 1
    MaxLosses = 0
SYMMETRY DeviceSymmetry
PROPERTIES
    ProtectedSurvive
