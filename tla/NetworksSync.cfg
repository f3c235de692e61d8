\* Disagreeing switches, shared networks and ranges, lost calls, restarts and edits.
SPECIFICATION Spec
CONSTANTS
    v1 = v1
    n1 = n1
    p1 = p1
    a = a
    b = b
    i = i
    j = j
    x = x
    y = y
    s1 = s1
    s2 = s2
    m = m
    Model <- OneModel
    NoModel = NoModel
    Vid = {v1}
    Net = {n1}
    Pool = {p1}
    Name = {a, b}
    Iface = {i, j}
    Label = {x, y}
    Host <- TwoHosts
    NoVid = NoVid
    NoName = NoName
    Hand = Hand
    FactSets <- SomeFacts
    MaxFaults = 1
    MaxRestarts = 1
INVARIANTS
    TypeOK
    SwitchNamesVlan
    SecondPassIsQuiet
    StoreAgrees
    RestartRepairs
PROPERTIES
    OnlyOwnWrites
