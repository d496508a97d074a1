SPECIFICATION Spec

CONSTANTS
    t1 = t1
    t2 = t2
    t3 = t3
    s1 = s1
    i1 = i1
    i2 = i2
    r1 = r1
    r2 = r2
    a1 = a1
    a2 = a2
    p1 = p1
    p2 = p2
    w1 = w1
    w2 = w2
    v1 = v1
    f1 = f1
    f2 = f2
    g1 = g1
    g2 = g2
    n1 = n1
    n2 = n2
    n3 = n3
    n4 = n4
    n5 = n5
    o1 = o1
    o2 = o2
    o3 = o3
    o4 = o4
    o5 = o5
    o6 = o6
    m1 = m1
    m2 = m2
    d1 = d1
    d2 = d2
    ImportIds = {m1, m2}
    Journals = {d1, d2}
    MaxBatches = 4
    BatchSize = 5
    Imports <- MCImports
    Model <- MCModel
    proposalIdentity <- MCProposalIdentity
    NoID = NoID
    NoPayload = NoPayload
    NoDigest = NoDigest
    TicketIds = {t1, t2, t3}
    PlayerIds = {i1, i2}
    SessionIds = {s1}
    ReservationIds = {r1, r2}
    AssignmentIds = {a1, a2}
    OperationIds = {n1, n2, n3, n4, n5, o1, o2, o3, o4, o5, o6}
    ProposalIds = {p1, p2}
    RunIds = {w1, w2}
    PolicyVersions = {v1}
    Fingerprints = {f1, f2}
    Rosters = {g1, g2}
    Plan <- MCPlan
    Suits <- MCSuits
    TTL = 1
    MaxAttempts = 2
    Calls = {c1, c2}
    Workloads = {"reservations"}
    Sent <- MCSent
    Contents <- MCContents
    MaxClock <- MCMaxClock
    MaxSkew <- MCMaxSkew
    Commands <- MCCommands
    EarlierCommands <- MCEarlierCommands

SYMMETRY CallSymmetry

INVARIANT AnswersStored
