CONSTANTS
    Accounts = {a1, a2}
    Requests = {r1}
    Deactivations = {d1}
    NoAccount = NoAccount
    Absent = Absent
    Empty = Empty
    MaxFaults = 0
SPECIFICATION Spec
INVARIANTS
    OneAccountPerKey
