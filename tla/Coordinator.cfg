SPECIFICATION CoordinatorSpec

CONSTANTS
    TicketIds = {t1, t2}
    PlayerIds = {p1, p2}
    s1 = s1
    s2 = s2
    o1 = o1
    o2 = o2
    SessionIds = {s1, s2}
    ReservationIds = {r1, r2}
    AssignmentIds = {a1, a2}
    OperationIds = {o1, o2}
    NoID = NoID
    TTL = 1
    MatchTickets <- Parties
    BackfillTickets <- Vacancies
    Proposals <- MCProposals
    Acknowledgments <- MCAcknowledgments
    Times = {0, 1}

SYMMETRY Symmetry

INVARIANT ReservationIndexExact
INVARIANT PlayerOwnershipExact
INVARIANT DemandDisjoint
INVARIANT AssignmentsPaired
INVARIANT AcknowledgmentsRecorded
INVARIANT RetriesIdempotent
PROPERTY LifecycleOneWay
PROPERTY ConfirmConsumesExactly
