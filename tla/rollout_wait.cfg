CONSTANTS
    a = a
    b = b
    old = old
    new = new
    None = None
    Namespaces <- Two
    Templates <- OldAndNew
    MaxPatches = 3
    MaxFaults = 2
SPECIFICATION FairSpec
INVARIANTS TypeOK CompleteIsTrue
PROPERTIES RolloutsArePaced WaitsEnd
CHECK_DEADLOCK FALSE
