CONSTANTS
    q1 = q1
    q2 = q2
    q3 = q3
    u1 = u1
    u2 = u2
    i1 = i1
    i2 = i2
    None = None
    Questions = {q1, q2, q3}
    Users = {u1, u2}
    UserOf <- TwoUsers
    Instances = {i1, i2}
    Workers = 1
    MaxSize = 1
    MaxPerUser = 1
    GlobalMax = 1
    Cap = 1
    MaxStops = 1
    Routes <- Sticky
    Mortal = {i2}
    Slow = FALSE
SPECIFICATION FairSpec
INVARIANTS TypeOK GateIsExact UserCountIsExact CapHolds
PROPERTIES EveryQuestionEnds
CHECK_DEADLOCK FALSE
