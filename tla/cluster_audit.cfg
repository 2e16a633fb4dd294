CONSTANTS
    Hosts <- TheHosts
    Words <- AllWords
    Number = "number"
    LatestWord = "latest"
    BuiltInSuffixes <- Platforms
    Pods <- FourPods
    Namespaces <- TwoNamespaces
    Template <- Workloads
    Present <- AllButJob
    Policies <- TwoPolicies
    BuiltIn <- Default
    MaxDays = 2
    MaxEdits = 2
    MaxFaults = 1
SPECIFICATION FairSpec
INVARIANTS TypeOK FamiliesShowOnePass FreshIsAccurate
PROPERTIES AuditSettles
