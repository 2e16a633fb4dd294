CONSTANTS
    a = a
    Audit = Audit
    None = None
    Namespaces <- One
    Excluded = {}
    NsPolicy <- NoOwnPolicy
    ClusterPolicy = "selects"
    Configs <- Turned
    MaxFaults = 2
    MaxEdits = 2
    MaxRestarts = 2
SPECIFICATION FairSpec
INVARIANTS TypeOK
PROPERTIES GrantsConverge StaysSettled FailuresAreReal NoDanglingBinding
