\* An operator's profile, two scopes, two keys, two restarts.
SPECIFICATION Spec
CONSTANTS
    core = core
    switch = switch
    firewall = firewall
    Profile <- OneProfile
    Builtin <- NoBuiltin
    Target <- TwoTargets
    Firewall <- OneFirewall
    Key = {k1, k2}
    NoKey = NoKey
    NoProfile = NoProfile
    MaxRestarts = 2
SYMMETRY KeySymmetry
INVARIANTS
    ConfiguredIsStored
    OnlyKeysAndSettingsStop
PROPERTIES
    OthersSurvive
