SPECIFICATION Spec
CONSTANTS
    d1 = d1
    d2 = d2
    foreign = foreign
    missing = missing
    torn = torn
    noOne = noOne
    noPlan = noPlan
    unread = unread
    q1 = q1
    q2 = q2
    Process = {q1, q2}
    Path <- TwoPaths
    CaseKey <- DistinctKeys
    Document = {d1, d2}
    Foreign = foreign
    Missing = missing
    Torn = torn
    Plans <- SomePlans
    NoOne = noOne
    NoPlan = noPlan
    Unread = unread
    MaxGeneration = 2
    MaxEdits = 0
    MaxCrashes = 1
    MaxFailures = 1
    Settled = settled
INVARIANT TypeOK
INVARIANT InterruptedUpdateIsRecoverable
PROPERTY GenerationNamesOneUpdate
PROPERTY KeepsPromise
SYMMETRY Symmetry
