CONSTANTS
    N = 2
    Wildcard = {1}
    Validations = {v1}
    Finalizes = {}
    Certs = {}
    NoCert = NoCert
    Absent = Absent
    Empty = Empty
    Garbled = Garbled
    MaxFaults = 0
SPECIFICATION Spec
SYMMETRY Symmetric
CHECK_DEADLOCK FALSE
INVARIANTS
    OtherwisePending
