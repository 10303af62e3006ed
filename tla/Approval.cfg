CONSTANTS
    c1 = c1
    c2 = c2
    r1 = r1
    r2 = r2
    r3 = r3
    i1 = i1
    i2 = i2
    None = None
    Calls = {c1, c2}
    Requests = {r1, r2, r3}
    Instances = {i1, i2}
    Home <- Homes
    For <- About
    Rightful = {r1, r2}
    Mortal = {i1}
    Redis = TRUE
SPECIFICATION FairSpec
INVARIANTS TypeOK OkIsTaken AlreadyIsLost OnlyTheAskedDecides
PROPERTIES WaitEnds
CHECK_DEADLOCK FALSE
