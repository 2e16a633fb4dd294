CONSTANTS
    a = a
    b = b
    x = x
    y = y
    z = z
    None = None
    Namespaces <- Two
    Pods <- Three
    Home <- HomeOfThree
    Annotated <- OnlyY
    Excluded <- OnlyB
    Configs <- Every
    PageSize = 2
    MaxFaults = 2
    MaxEdits = 2
    MaxRestarts = 1
SPECIFICATION FairSpec
INVARIANTS TypeOK ExcludedNeverAudited OptOutsKept FreshOptOutsHonoured ScrapesNeverMix
PROPERTIES SeriesSettle
