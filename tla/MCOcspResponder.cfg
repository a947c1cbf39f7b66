CONSTANTS
    Intermediates = {i1, i2}
    Serials = {"1a", "1a2b"}
    Entries = {"1a", "1a:2b"}
    Meant <- SerialsOfEntries
    Value <- NumbersOfEntries
    Certificates <- AskedFor
    Requests = {r1, r2}
    Lifetime = 2
    None = None
    MaxFaults = 1
SPECIFICATION FairSpec
INVARIANTS
    TypeOK
    RevokedIsListed
    ClearedStaysRevoked
PROPERTIES
    GoodWanes
    GoodEnds
