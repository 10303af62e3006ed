CONSTANTS
    c1 = c1
    c2 = c2
    c3 = c3
    Calls = {c1, c2, c3}
    Ttl = 3
    Interval = 1
    Patience = 1
    Skew <- Ahead
    MaxSkew = 1
    Limits = {0, 1, 2}
    Punctual = {c1, c2}
    Faulty = {c2, c3}
SPECIFICATION FairSpec
INVARIANTS TypeOK WithinLimit
PROPERTIES NobodyWaitsForever
