CONSTANTS
    N = 2
    Wildcard = {1, 2}
    Validations = {v1, v2}
    Finalizes = {f1}
    Certs = {c1}
    NoCert = NoCert
    Absent = Absent
    Empty = Empty
    Garbled = Garbled
    MaxFaults = 1
SPECIFICATION Spec
SYMMETRY Symmetric
CHECK_DEADLOCK FALSE
INVARIANTS
    ReadyMeansProved
PROPERTIES
    NamedForGood
