CONSTANTS
    Intermediates = {i1, i2}
    Serials = {"1a", "2b", "1a2b"}
    Entries = {"1a", "2b", "1a:2b"}
    Meant <- SerialsOfEntries
    Value <- NumbersOfEntries
    Nobody = Nobody
    MaxFaults = 2
SPECIFICATION FairSpec
INVARIANTS
    TypeOK
    ListsItsOwn
    NeverForgets
    ServedIsReadable
PROPERTY
    RevocationIsListed
