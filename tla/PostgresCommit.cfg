SPECIFICATION PostgresSpec

CONSTANTS
    MaxVersion = 2
    Versions <- MCVersions
    Keys = {k1, k2}
    k1 = k1
    k2 = k2
    Payloads = {x}
    NoPayload = NoPayload
    CommandIds = {o1, o2, o3}
    Digests = {d1}
    NoDigest = NoDigest
    Scopes = {s1}
    Connections = {c1, c2}
    NoConnection = NoConnection
    Transactions <- MCTransactions

INVARIANT VersionsDense
INVARIANT SnapshotConsistent
PROPERTY ImplementsContract
PROPERTY TransactionsEnd
