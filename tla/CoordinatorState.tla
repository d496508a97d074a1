-------------------------- MODULE CoordinatorState --------------------------
(***************************************************************************)
(* The Coordinator struct of internal/coordinator and its operations, as   *)
(* functions of the struct.  Every exported method holds coordinator.mu    *)
(* from its first read to its last write, so an operation is one function  *)
(* from the old struct c to [state, failure]: the struct it leaves behind  *)
(* and the failure code it returns ("none" for a nil error).  A failing    *)
(* call may still have changed the struct: expiry is applied before the    *)
(* operation's own checks, and a stale Confirm cancels the reservation.    *)
(*                                                                         *)
(* Coordinator.tla runs these operations as the actions of one process;    *)
(* Durable.tla runs them a second time when a journal is replayed.         *)
(***************************************************************************)
EXTENDS Domain

CONSTANT TTL          \* Coordinator.ttl

ASSUME TTLAssumption == TTL \in Nat \ {0}

ReservationStatuses == {"active", "confirmed", "cancelled", "expired"}

ReservationRecord ==
    [status : ReservationStatuses \cup {"absent"}, proposal : MatchProposal,
     expiresAt : Nat, assignment : AssignmentIds \cup {NoID}]

NoReservation == [status |-> "absent", proposal |-> NoProposal,
                  expiresAt |-> 0, assignment |-> NoID]

Assignment ==
    [status : Outcomes \cup {"pending", "absent"},
     reservation : ReservationIds \cup {NoID}, proposal : MatchProposal,
     confirmedAt : Nat, acknowledgment : AcknowledgmentRequest]

NoAssignment ==
    [status |-> "absent", reservation |-> NoID, proposal |-> NoProposal,
     confirmedAt |-> 0, acknowledgment |-> NoAcknowledgment]

CoordinatorStruct ==
    [matchTickets : [TicketIds -> MatchTicket],
     backfillTickets : [TicketIds -> BackfillTicket],
     playerTickets : [PlayerIds -> TicketIds \cup {NoID}],
     ticketReservations : [TicketIds -> ReservationIds \cup {NoID}],
     backfillReservations : [TicketIds -> ReservationIds \cup {NoID}],
     reservations : [ReservationIds -> ReservationRecord],
     assignments : [AssignmentIds -> Assignment]]

New ==
    [matchTickets |-> [t \in TicketIds |-> NoMatchTicket],
     backfillTickets |-> [t \in TicketIds |-> NoBackfillTicket],
     playerTickets |-> [p \in PlayerIds |-> NoID],
     ticketReservations |-> [t \in TicketIds |-> NoID],
     backfillReservations |-> [t \in TicketIds |-> NoID],
     reservations |-> [r \in ReservationIds |-> NoReservation],
     assignments |-> [a \in AssignmentIds |-> NoAssignment]]

Ok(c) == [state |-> c, failure |-> "none"]

Fail(c, code) == [state |-> c, failure |-> code]

-----------------------------------------------------------------------------
(* The helpers of the operations. *)

(* Mutant: the roster of the backfilled session is not compared. *)
validateFreshnessLocked_roster(c, proposal) ==
    /\ \A t \in Supply(proposal) :
         c.matchTickets[t].revision = proposal.tickets[t]
    /\ IsBackfill(proposal) =>
         c.backfillTickets[proposal.backfill.ticket].revision
           >= proposal.backfill.revision

validateFreshnessLocked(c, proposal) ==
    /\ \A t \in Supply(proposal) :
         c.matchTickets[t].revision = proposal.tickets[t]
    /\ IsBackfill(proposal) =>
         LET target == proposal.backfill
             current == c.backfillTickets[target.ticket]
         IN /\ current.revision = target.revision
            /\ current.session = target.session
            /\ current.rosterVersion = target.rosterVersion

validateAvailabilityLocked(c, proposal) ==
    /\ \A t \in Supply(proposal) : c.ticketReservations[t] = NoID
    /\ IsBackfill(proposal) =>
         c.backfillReservations[proposal.backfill.ticket] = NoID

(* The two indexes after releaseLocked on every reservation of the set R:  *)
(* an entry goes only if its owner is in R and that owner's reservation    *)
(* names the ticket.                                                       *)
releaseTickets(c, R) ==
    [t \in TicketIds |->
       LET r == c.ticketReservations[t]
       IN IF r \in R /\ t \in Supply(c.reservations[r].proposal)
          THEN NoID ELSE r]

releaseBackfills(c, R) ==
    [t \in TicketIds |->
       LET r == c.backfillReservations[t]
       IN IF r \in R /\ c.reservations[r].proposal.backfill.ticket = t
          THEN NoID ELSE r]

(* Mutant: the status is set and the demand is not released. *)
endReservations_unreleased(c, R, status) ==
    [c EXCEPT !.reservations = [r \in ReservationIds |->
        IF r \in R THEN [c.reservations[r] EXCEPT !.status = status]
                   ELSE c.reservations[r]]]

(* Release the reservations of R and give them their final status. *)
endReservations(c, R, status) ==
    [c EXCEPT
       !.ticketReservations = releaseTickets(c, R),
       !.backfillReservations = releaseBackfills(c, R),
       !.reservations = [r \in ReservationIds |->
           IF r \in R THEN [c.reservations[r] EXCEPT !.status = status]
                      ELSE c.reservations[r]]]

(* Mutants: expired only after the deadline; expired whatever the status. *)
Due_late(c, now) == {r \in ReservationIds : /\ c.reservations[r].status = "active"
                                            /\ now > c.reservations[r].expiresAt}

Due_ended(c, now) == {r \in ReservationIds : /\ c.reservations[r].status # "absent"
                                             /\ now >= c.reservations[r].expiresAt}

Due(c, now) == {r \in ReservationIds : /\ c.reservations[r].status = "active"
                                       /\ now >= c.reservations[r].expiresAt}

expireLocked(c, now) == endReservations(c, Due(c, now), "expired")

duplicatedPlayerLocked(c, id, ticket) ==
    \E p \in ticket.players : c.playerTickets[p] \notin {NoID, id}

(* Mutant: players are never given up. *)
releasePlayerOwnershipLocked_kept(c, T) == c.playerTickets

(* playerTickets after releasePlayerOwnershipLocked on the tickets of T. *)
releasePlayerOwnershipLocked(c, T) ==
    [p \in PlayerIds |->
       IF \E t \in T : p \in c.matchTickets[t].players /\ c.playerTickets[p] = t
       THEN NoID ELSE c.playerTickets[p]]

-----------------------------------------------------------------------------
(* Active input. *)

UpsertMatchTicket(c, id, ticket) ==
    LET current == c.matchTickets[id]
        released == releasePlayerOwnershipLocked(c, {id})
    IN IF ~ValidateMatchTicket(ticket) THEN Fail(c, "InvalidInput")
       ELSE IF c.backfillTickets[id].revision # 0 THEN Fail(c, "InvalidInput")
       ELSE IF ticket.revision < current.revision THEN Fail(c, "InvalidRevision")
       ELSE IF ticket = current THEN Ok(c)
       ELSE IF ticket.revision = current.revision THEN Fail(c, "InvalidRevision")
       ELSE IF duplicatedPlayerLocked(c, id, ticket) THEN Fail(c, "InvalidInput")
       ELSE Ok([c EXCEPT
              !.matchTickets[id] = ticket,
              !.playerTickets = [p \in PlayerIds |->
                  IF p \in ticket.players THEN id ELSE released[p]]])

(* Mutant: a session may have two backfill tickets. *)
UpsertBackfillTicket_session(c, id, ticket) ==
    IF \/ ~ValidateBackfillTicket(ticket)
       \/ c.matchTickets[id].revision # 0
       \/ ticket.revision <= c.backfillTickets[id].revision
    THEN Fail(c, "InvalidInput")
    ELSE Ok([c EXCEPT !.backfillTickets[id] = ticket])

UpsertBackfillTicket(c, id, ticket) ==
    LET current == c.backfillTickets[id]
        sessionTaken == \E other \in TicketIds \ {id} :
                          c.backfillTickets[other].session = ticket.session
    IN IF ~ValidateBackfillTicket(ticket) THEN Fail(c, "InvalidInput")
       ELSE IF c.matchTickets[id].revision # 0 THEN Fail(c, "InvalidInput")
       ELSE IF sessionTaken THEN Fail(c, "InvalidInput")
       ELSE IF ticket.revision < current.revision THEN Fail(c, "InvalidRevision")
       ELSE IF ticket = current THEN Ok(c)
       ELSE IF ticket.revision = current.revision THEN Fail(c, "InvalidRevision")
       ELSE Ok([c EXCEPT !.backfillTickets[id] = ticket])

CancelMatchTicket(c, id, revision) ==
    LET current == c.matchTickets[id]
    IN IF current.revision = 0 \/ current.revision # revision
       THEN Fail(c, "StaleSnapshot")
       ELSE Ok([c EXCEPT
              !.playerTickets = releasePlayerOwnershipLocked(c, {id}),
              !.matchTickets[id] = NoMatchTicket])

CancelBackfillTicket(c, id, revision, rosterVersion) ==
    LET current == c.backfillTickets[id]
    IN IF \/ current.revision = 0
          \/ current.revision # revision
          \/ current.rosterVersion # rosterVersion
       THEN Fail(c, "StaleSnapshot")
       ELSE Ok([c EXCEPT !.backfillTickets[id] = NoBackfillTicket])

(* What Snapshot hands to the planner once expiry has been applied to c. *)
UnreservedMatchTickets(c) ==
    {t \in TicketIds : /\ c.matchTickets[t].revision # 0
                       /\ c.ticketReservations[t] = NoID}

UnreservedBackfillTickets(c) ==
    {t \in TicketIds : /\ c.backfillTickets[t].revision # 0
                       /\ c.backfillReservations[t] = NoID}

(* Snapshot changes nothing but expiry; reading it is left to the caller.  *)
Snapshot(c, now) == Ok(expireLocked(c, now))

-----------------------------------------------------------------------------
(* Reservations. *)

Reserve(c0, proposal, r, now) ==
    LET c == expireLocked(c0, now)
        existing == c.reservations[r]
        reservation == [status |-> "active", proposal |-> proposal,
                        expiresAt |-> now + TTL, assignment |-> NoID]
    IN IF ~ValidateProposal(proposal) THEN Fail(c0, "InvalidInput")
       ELSE IF existing.status # "absent" /\ existing.proposal # proposal
         THEN Fail(c, "IdempotencyConflict")
       ELSE IF existing.status \in {"active", "confirmed"} THEN Ok(c)
       ELSE IF existing.status = "expired" THEN Fail(c, "ReservationExpired")
       ELSE IF existing.status = "cancelled" THEN Fail(c, "InvalidTransition")
       ELSE IF ~validateFreshnessLocked(c, proposal)
         THEN Fail(c, "StaleSnapshot")
       ELSE IF ~validateAvailabilityLocked(c, proposal)
         THEN Fail(c, "ReservationConflict")
       ELSE Ok([c EXCEPT
              !.reservations[r] = reservation,
              !.ticketReservations = [t \in TicketIds |->
                  IF t \in Supply(proposal) THEN r
                                            ELSE c.ticketReservations[t]],
              !.backfillReservations = [t \in TicketIds |->
                  IF t = proposal.backfill.ticket
                  THEN r ELSE c.backfillReservations[t]]])

(* Confirm's success path: consume the input, end the reservation, assign. *)
consume(c, r, a, now) ==
    LET proposal == c.reservations[r].proposal
    IN [c EXCEPT
          !.ticketReservations = releaseTickets(c, {r}),
          !.backfillReservations = releaseBackfills(c, {r}),
          !.playerTickets = releasePlayerOwnershipLocked(c, Supply(proposal)),
          !.matchTickets = [t \in TicketIds |->
              IF t \in Supply(proposal) THEN NoMatchTicket
                                        ELSE c.matchTickets[t]],
          !.backfillTickets = [t \in TicketIds |->
              IF t = proposal.backfill.ticket THEN NoBackfillTicket
                                              ELSE c.backfillTickets[t]],
          !.reservations[r] = [c.reservations[r] EXCEPT
                                 !.status = "confirmed", !.assignment = a],
          !.assignments[a] = [status |-> "pending", reservation |-> r,
                              proposal |-> proposal, confirmedAt |-> now,
                              acknowledgment |-> NoAcknowledgment]]

Confirm(c0, r, a, now) ==
    LET c == expireLocked(c0, now)
        record == c.reservations[r]
        existing == c.assignments[a]
    IN IF record.status = "absent" THEN Fail(c, "InvalidTransition")
       ELSE IF record.status = "confirmed" /\ record.assignment # a
         THEN Fail(c, "IdempotencyConflict")
       ELSE IF record.status = "confirmed" THEN Ok(c)
       ELSE IF record.status = "expired" THEN Fail(c, "ReservationExpired")
       ELSE IF record.status = "cancelled" THEN Fail(c, "InvalidTransition")
       ELSE IF ~validateFreshnessLocked(c, record.proposal)
         THEN Fail(endReservations(c, {r}, "cancelled"), "StaleSnapshot")
       ELSE IF existing.status # "absent" /\ existing.reservation = r THEN Ok(c)
       ELSE IF existing.status # "absent" THEN Fail(c, "IdempotencyConflict")
       ELSE Ok(consume(c, r, a, now))

AcknowledgeAssignment(c, a, request) ==
    LET assignment == c.assignments[a]
        acknowledged == assignment.acknowledgment
        failure == ValidateAssignmentAcknowledgment(assignment.proposal, request)
        terminal == assignment.status # "pending"
    IN IF request.operation = NoID THEN Fail(c, "InvalidInput")
       ELSE IF assignment.status = "absent" THEN Fail(c, "InvalidTransition")
       ELSE IF terminal /\ acknowledged = request THEN Ok(c)
       ELSE IF terminal /\ acknowledged.operation = request.operation
         THEN Fail(c, "IdempotencyConflict")
       ELSE IF terminal THEN Fail(c, "InvalidTransition")
       ELSE IF failure # "none" THEN Fail(c, failure)
       ELSE Ok([c EXCEPT
              !.assignments[a] = [assignment EXCEPT
                                    !.status = request.outcome,
                                    !.acknowledgment = request]])

(* Mutant: a second Cancel of the same reservation is refused. *)
Cancel_once(c0, r, now) ==
    LET c == expireLocked(c0, now)
    IN IF c.reservations[r].status = "active"
       THEN Ok(endReservations(c, {r}, "cancelled"))
       ELSE Fail(c, "InvalidTransition")

Cancel(c0, r, now) ==
    LET c == expireLocked(c0, now)
        status == c.reservations[r].status
    IN IF status = "active" THEN Ok(endReservations(c, {r}, "cancelled"))
       ELSE IF status = "cancelled" THEN Ok(c)
       ELSE IF status = "expired" THEN Fail(c, "ReservationExpired")
       ELSE Fail(c, "InvalidTransition")

=============================================================================
