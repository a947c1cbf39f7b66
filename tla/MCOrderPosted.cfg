CONSTANTS
    N = 1
    Wildcard = {}
    Validations = {v1, v2}
    Finalizes = {}
    Certs = {}
    NoCert = NoCert
    Absent = Absent
    Empty = Empty
    Garbled = Garbled
    MaxFaults = 1
SPECIFICATION FairSpec
CHECK_DEADLOCK FALSE
INVARIANTS
    AuthzExplained
    DecisionReachesDisk
PROPERTIES
    PostedIsDecided
    TruncatedIsRewritten
