SPECIFICATION ReadSpec
CONSTANTS
    w1 = w1
    w2 = w2
    n1 = n1
    n2 = n2
    old = old
    new = new
    Writer = {w1, w2}
    Name = {n1, n2}
    Content = {old, new}
    Torn = torn
    Missing = missing
    NoName = noName
    NoOne = noOne
    Dest = dest
    Byte = {"o", "n"}
    Text <- Texts
    ReadLimits <- Budgets
    MaxFailures = 2
    MaxCrashes = 2
    MaxDisturbance = 0
SYMMETRY Symmetry
INVARIANT TemporariesAreAccounted
INVARIANT AllOrNothing
INVARIANT ResultIsTruthful
INVARIANT ReadIsExact
