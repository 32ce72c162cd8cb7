SPECIFICATION ProgressSpec
CONSTANTS
    d1 = d1
    d2 = d2
    foreign = foreign
    missing = missing
    torn = torn
    noOne = noOne
    noPlan = noPlan
    unread = unread
    q1 = q1
    q2 = q2
    Process = {q1, q2}
    Path <- OnePath
    CaseKey <- OneKey
    Document = {d1, d2}
    Foreign = foreign
    Missing = missing
    Torn = torn
    Plans <- OnePathPlans
    NoOne = noOne
    NoPlan = noPlan
    Unread = unread
    MaxGeneration = 1
    MaxEdits = 1
    MaxCrashes = 1
    MaxFailures = 0
    Settled = settled
    w1 = w1
    w2 = w2
    Waker = {w1, w2}
    None = none
    Inline = TRUE
    MaxSignals = 3
CHECK_DEADLOCK FALSE
INVARIANT NoLostWakeup
INVARIANT CompletedWins
PROPERTY CommandsEnd
PROPERTY InterruptedUpdateResolves
PROPERTY RequestEndsRace
