CONSTANTS
    a = a
    b = b
    Namespaces <- Two
    Excluded <- OnlyB
    NsPolicy <- NoOwnPolicy
    ClusterPolicy = "selects"
    Modes = {"perNamespace", "central", "disabled"}
    MaxFaults = 1
    MaxEdits = 2
    MaxRestarts = 1
SPECIFICATION FairSpec
INVARIANTS TypeOK StatusIsSound
PROPERTIES CheckersAreReported CentralStatusSettles
