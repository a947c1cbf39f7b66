CONSTANTS
    Nonces = {n1, n2, n3}
    NoNonce = NoNonce
    Requests = {r1, r2}
    TTL = 1
    MaxClock = 2
    MaxRestarts = 1
SPECIFICATION FairSpec
INVARIANTS
    TypeOK
    AcceptedOnce
    GoodForItsLifetime
    SweptByGenerate
PROPERTIES
    ImplementsSingleUseToken
    ExpiredReclaimed
