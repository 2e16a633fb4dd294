CONSTANTS
    Interval = 13
    FirstCycle = 5
    Costs <- SomeCosts
    MaxPlan = 3
    MaxCreds = 2
SPECIFICATION Spec
INVARIANTS TypeOK EvenlySpread
PROPERTIES CyclesAnIntervalApart
