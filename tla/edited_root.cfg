SPECIFICATION Spec
CONSTANTS
    d1 = d1
    d2 = d2
    foreign = foreign
    missing = missing
    torn = torn
    noOne = noOne
    noPlan = noPlan
    unread = unread
    q1 = q1
    q2 = q2
    Process = {q1, q2}
    Path <- ThreePaths
    CaseKey <- SharedKeys
    Document = {d1, d2}
    Foreign = foreign
    Missing = missing
    Torn = torn
    Plans <- SpellingPlans
    NoOne = noOne
    NoPlan = noPlan
    Unread = unread
    MaxGeneration = 2
    MaxEdits = 1
    MaxCrashes = 1
    MaxFailures = 0
    Settled = settled
INVARIANT OwnershipMatchesDisk
INVARIANT JournalAlwaysLoads
PROPERTY OnlyJournaledBytesReplaced
PROPERTY NoStaleGeneration
SYMMETRY Symmetry
