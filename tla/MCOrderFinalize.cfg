CONSTANTS
    N = 2
    Wildcard = {1, 2}
    Validations = {v1}
    Finalizes = {f1, f2}
    Certs = {c1, c2}
    NoCert = NoCert
    Absent = Absent
    Empty = Empty
    Garbled = Garbled
    MaxFaults = 1
SPECIFICATION Spec
SYMMETRY Symmetric
CHECK_DEADLOCK FALSE
INVARIANTS
    CertUrlResolves
    StatusFollowsAuthz
    OrderIsComplete
PROPERTY
    KeepsPromise
