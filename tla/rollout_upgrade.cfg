CONSTANTS
    a = a
    b = b
    Audit = Audit
    None = None
    Namespaces <- Two
    Excluded <- OnlyB
    NsPolicy <- NoOwnPolicy
    ClusterPolicy = "selects"
    Modes = {"perNamespace", "disabled"}
    MaxFaults = 2
    MaxEdits = 1
    MaxRestarts = 2
    MaxTrouble = 3
SPECIFICATION FairSpec
INVARIANTS ExcludedStayEmpty BootstrapReachesAll
PROPERTIES UpgradeReaches StaysSettled
