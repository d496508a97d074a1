SPECIFICATION Spec

CONSTANTS
    Tenants = {t1, t2}
    Ids = {1, 2, 3}
    Runs = {r1}
    Clients = {c1, c2, c3}
    NoCursor = NoCursor
    NoRequest = NoRequest
    MaxInFlight = 2
    MaxConnections = 1
    MaxVersion = 4
    t1 = t1
    t2 = t2
    r1 = r1
    c1 = c1
    c2 = c2
    c3 = c3
    Workloads = {"tickets", "results", "run", "saturation"}
    Contents <- MCContents
    Commands <- MCCommands

INVARIANT ListingExact
PROPERTY ResultCursorsKept
PROPERTY AdmissionRecovers
PROPERTY ShutdownEnds
