CONSTANTS
    Handlers = {h1, h2}
    Versions = {v1, v2, v3}
    Roots = {own, foreign}
    Own = own
    Issuer <- IssuedByOwn
    Junk = Junk
    Absent = Absent
    Truncated = Truncated
    None = None
    Asked = {0, 30}
    MaxFaults = 1
SPECIFICATION Spec
SYMMETRY Symmetry
INVARIANTS
    TypeOK
    PairsMatch
    AnswersVerify
    ToldIsCertified
