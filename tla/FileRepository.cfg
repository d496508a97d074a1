SPECIFICATION FileSpec

CONSTANTS
    MaxVersion = 3
    Versions <- MCVersions
    Keys = {k1, k2}
    k1 = k1
    k2 = k2
    Payloads = {x}
    NoPayload = NoPayload
    CommandIds = {o1, o2}
    Digests = {d1, d2}
    NoDigest = NoDigest
    Scopes = {s1, s2}
    Transactions <- MCTransactions

INVARIANT ReceiptsConsistent
INVARIANT AlwaysLoadable
PROPERTY ImplementsRepository
