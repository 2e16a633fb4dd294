CONSTANTS
    a = a
    b = b
    Audit = Audit
    None = None
    Namespaces <- Two
    Excluded = {}
    NsPolicy <- OwnPolicyForB
    ClusterPolicy = "selects"
    Modes = {"perNamespace"}
    MaxFaults = 1
    MaxEdits = 1
    MaxRestarts = 0
    MaxTrouble = 2
SPECIFICATION FairSpec
PROPERTIES Converges LockComesFree
