\* Two firewalls, two switches, any replies, sources failing at any point.
SPECIFICATION Spec
CONSTANTS
    f1 = f1
    f2 = f2
    s1 = s1
    s2 = s2
    Firewalls <- TwoFirewalls
    Switches <- TwoSwitches
    Mac = {m1, m2}
    Ip = {ip1}
    Port = {p1, p2}
    Threshold <- OneMacOrTwo
    NoLocation = NoLocation
    MaxEntries = 3
SYMMETRY HostSymmetry
INVARIANTS
    ReservationBeatsLease
    LocationsAreAccessPorts
PROPERTIES
    LossesAreObserved
