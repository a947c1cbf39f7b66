CONSTANTS
    N = 2
    Wildcard = {1, 2}
    Validations = {v1, v2}
    Finalizes = {}
    Certs = {}
    NoCert = NoCert
    Absent = Absent
    Empty = Empty
    Garbled = Garbled
    MaxFaults = 0
SPECIFICATION Spec
SYMMETRY Symmetric
CHECK_DEADLOCK FALSE
INVARIANTS
    ReadyIfAllValid
