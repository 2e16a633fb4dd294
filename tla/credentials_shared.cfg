CONSTANTS
    a = a
    b = b
    x = x
    y = y
    z = z
    app = app
    web = web
    s = s
    t = t
    k = k
    l = l
    reg = reg
    hub = hub
    regHost = regHost
    hubHost = hubHost
    regKey = regKey
    regUrl = regUrl
    hubKey = hubKey
    hubUrl = hubUrl
    Anonymous = Anonymous
    None = None
    Scheme = Scheme
    Implicit = Implicit
    Namespaces <- TwoNamespaces
    Images <- TwoImages
    Names <- TwoNames
    Tokens <- TwoTokens
    Keys <- FourKeys
    PodOrder <- ThreePods
    Home <- HomeOfThree
    Host <- Hosts
    Spellings <- BothHosts
    At <- RegistryAt
    Part <- Parts
    Hub = hub
    Registries <- BothRegistries
    Worlds <- AllWorlds
SPECIFICATION Spec
INVARIANTS TypeOK ReportsAreExact NoFalseClaims ValidityIsMeasured
