CONSTANTS
    Accounts = {a1, a2, a3}
    Requests = {r1, r2}
    Deactivations = {d1, d2}
    NoAccount = NoAccount
    Absent = Absent
    Empty = Empty
    MaxFaults = 2
SPECIFICATION Spec
SYMMETRY Symmetric
INVARIANTS
    TypeOK
    AccountResolves
    RetiredForGood
    KeyLeadsToAClient
    FurtherAccountsAreMisreads
    OrphansAreFaults
