SPECIFICATION Spec

CONSTANTS
    TicketIds = {t1, t2}
    PlayerIds = {p1}
    SessionIds = {s1}
    ReservationIds = {r1, r2}
    AssignmentIds = {a1}
    OperationIds = {o1, o2}
    PolicyVersions = {v1}
    Fingerprints = {f1, f2}
    SnapshotIds = {n1, n2}
    NoID = NoID
    TTL = 1
    t1 = t1
    t2 = t2
    s1 = s1
    v1 = v1
    n1 = n1
    Workloads = {"planning"}
    Offers <- MCOffers
    Planned <- MCPlanned

SYMMETRY Symmetry

INVARIANT PlanAnswersAgree
