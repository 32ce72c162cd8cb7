SPECIFICATION CommandsSpec
CONSTANTS
    q1 = q1
    q2 = q2
    q3 = q3
    Process = {q1, q3}
    Pid <- SharedPid
    Free = free
    Foreign = foreign
    NoName = noName
    MaxCollision = 2
    MaxTemporary = 0
    MaxFailures = 3
    MaxKills = 1
    Artifacts <- MCArtifacts
    Conventional <- MCConventional
    Packings <- MCPackings
    Wire <- MCWire
    Node = {1, 2, 3, 4, 5, 6, 7, 8, 9, 10, 11, 12, 13, 14, 15, 16}
    Top = 1
    Found <- MCFound
    Away = "away"
    Outside <- Out
    Fuel = 3
    o1 = o1
    o2 = o2
    o3 = o3
    o4 = o4
    t1 = t1
    signature = signature
    sketch = sketch
    Operation = {o1, o2, o3, o4}
    Thread = {t1}
    Kit = {signature, sketch}
    KitOf <- TwoKits
    InFlight = 1
    Pending = 1
INVARIANT PermitsConserved
INVARIANT NobodyAbandoned
INVARIANT CommandIsExact
INVARIANT PathsAreConfined
INVARIANT AnswerIsTruthful
PROPERTY NoClobber
PROPERTY PublicationEnds
PROPERTY RefusalIsDue
PROPERTY OperationsEnd
