CONSTANTS
    a = a
    b = b
    Audit = Audit
    None = None
    Namespaces <- JustA
    Excluded = {}
    NsPolicy <- NoOwnPolicy
    ClusterPolicy = "selects"
    Modes = {"perNamespace", "disabled"}
    MaxFaults = 1
    MaxEdits = 0
    MaxRestarts = 1
    MaxTrouble = 2
SPECIFICATION FairSpec
PROPERTIES TeardownIsRetried
