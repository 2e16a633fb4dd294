CONSTANTS
    a = a
    b = b
    Audit = Audit
    None = None
    Namespaces <- Two
    Excluded = {}
    NsPolicy <- NoOwnPolicy
    ClusterPolicy = "selects"
    Modes = {"perNamespace", "disabled"}
    MaxFaults = 1
    MaxEdits = 1
    MaxRestarts = 1
    MaxTrouble = 3
SPECIFICATION Spec
SYMMETRY Alike
INVARIANTS OneRolloutAtATime WholeOrNothing IInv
PROPERTIES RolloutsAreSerial
