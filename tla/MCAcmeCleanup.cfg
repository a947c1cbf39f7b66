CONSTANTS
    N = 1
    Wildcard = {1}
    Validations = {v1}
    Finalizes = {f1}
    Certs = {c1}
    NoCert = NoCert
    Absent = Absent
    Empty = Empty
    Garbled = Garbled
    MaxFaults = 1
    Limit = 1
SPECIFICATION CleanupFairSpec
INVARIANTS
    CleanupTypeOK
    ReadyMeansProved
    PartsOutliveOrder
PROPERTY
    AllIsRemoved
