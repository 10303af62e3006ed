CONSTANTS
    c1 = c1
    c2 = c2
    c3 = c3
    Clients = {c1, c2, c3}
    None = None
    Orphan = Orphan
    Lease = 2
    RenewInterval = 1
    Punctual = {c1}
SPECIFICATION FairSpec
INVARIANTS TypeOK LiveContextOwns NilMeansExclusive
PROPERTIES OthersNeverRemove NoPermanentLock
