---------------------------- MODULE Coordinator -----------------------------
(***************************************************************************)
(* The in-memory coordinator as a process: any number of callers invoke    *)
(* its methods in any order, with any of the inputs and with any clock     *)
(* value.  The method's own mutex makes a call one step.  Callers choose   *)
(* "now" (internal/httpapi reads the clock before it takes any lock), so   *)
(* the times of successive calls need not increase.                        *)
(***************************************************************************)
EXTENDS CoordinatorState

CONSTANTS
    MatchTickets,      \* the match tickets producers submit
    BackfillTickets,   \* the backfill tickets producers submit
    Proposals,         \* the proposals callers reserve
    Acknowledgments,   \* the acknowledgment requests consumers send
    Times              \* the clock readings callers pass

ASSUME InputAssumption ==
    /\ MatchTickets \subseteq MatchTicket
    /\ BackfillTickets \subseteq BackfillTicket
    /\ Proposals \subseteq MatchProposal
    /\ Acknowledgments \subseteq AcknowledgmentRequest
    /\ Times \subseteq Nat

VARIABLE coordinator

CoordinatorInit == coordinator = New

-----------------------------------------------------------------------------
(* One action per exported method that changes the struct. *)

UpsertMatchTicketStep == \E id \in TicketIds, ticket \in MatchTickets :
    coordinator' = UpsertMatchTicket(coordinator, id, ticket).state

UpsertBackfillTicketStep == \E id \in TicketIds, ticket \in BackfillTickets :
    coordinator' = UpsertBackfillTicket(coordinator, id, ticket).state

CancelMatchTicketStep == \E id \in TicketIds, ticket \in MatchTickets :
    coordinator' = CancelMatchTicket(coordinator, id, ticket.revision).state

CancelBackfillTicketStep == \E id \in TicketIds, ticket \in BackfillTickets :
    coordinator' = CancelBackfillTicket(coordinator, id, ticket.revision,
                                        ticket.rosterVersion).state

SnapshotStep == \E now \in Times :
    coordinator' = Snapshot(coordinator, now).state

ReserveStep == \E r \in ReservationIds, proposal \in Proposals, now \in Times :
    coordinator' = Reserve(coordinator, proposal, r, now).state

ConfirmStep == \E r \in ReservationIds, a \in AssignmentIds, now \in Times :
    coordinator' = Confirm(coordinator, r, a, now).state

AcknowledgeStep == \E a \in AssignmentIds, request \in Acknowledgments :
    coordinator' = AcknowledgeAssignment(coordinator, a, request).state

CancelStep == \E r \in ReservationIds, now \in Times :
    coordinator' = Cancel(coordinator, r, now).state

CoordinatorNext ==
    \/ UpsertMatchTicketStep
    \/ UpsertBackfillTicketStep
    \/ CancelMatchTicketStep
    \/ CancelBackfillTicketStep
    \/ SnapshotStep
    \/ ReserveStep
    \/ ConfirmStep
    \/ AcknowledgeStep
    \/ CancelStep

CoordinatorSpec == CoordinatorInit /\ [][CoordinatorNext]_coordinator

-----------------------------------------------------------------------------
(* Invariants, as predicates of the struct. *)

(* The struct has the shape of the Go type. *)
StructOK == coordinator \in CoordinatorStruct

Active(c, r) == c.reservations[r].status = "active"

(* The two reservation indexes are exact: a ticket is indexed under r if   *)
(* and only if r is an active reservation whose proposal names the ticket. *)
(* An entry that outlived its reservation would hide the ticket from every *)
(* later snapshot; a missing one would let a second reservation take it.   *)
(* Replacing and cancelling a reserved ticket leave the index alone, and   *)
(* every way to end a reservation (Cancel, expiry inside any call, a       *)
(* confirm, a stale confirm) has to clear it.                              *)
IndexExact(c) == \A t \in TicketIds, r \in ReservationIds :
    /\ c.ticketReservations[t] = r
         <=> Active(c, r) /\ t \in Supply(c.reservations[r].proposal)
    /\ c.backfillReservations[t] = r
         <=> Active(c, r) /\ t = c.reservations[r].proposal.backfill.ticket

ReservationIndexExact == IndexExact(coordinator)

(* No ticket, match or backfill, is held by two active reservations.       *)
(* This is what docs/domain-model.md calls the exclusivity of tickets      *)
(* among active reservations, and it is what the index is kept for.        *)
Exclusive(c) == \A r, s \in ReservationIds :
    (r # s /\ Active(c, r) /\ Active(c, s)) =>
       /\ Supply(c.reservations[r].proposal)
            \cap Supply(c.reservations[s].proposal) = {}
       /\ IsBackfill(c.reservations[r].proposal) =>
            c.reservations[r].proposal.backfill.ticket
              # c.reservations[s].proposal.backfill.ticket

ExclusiveReservations == Exclusive(coordinator)

(* playerTickets is exact: a player is owned by t if and only if t is an   *)
(* active match ticket whose current revision lists the player.  Hence no  *)
(* player is in two active tickets, and a player dropped by a replacement, *)
(* a cancel or a confirm is free at once.                                  *)
OwnershipExact(c) == \A p \in PlayerIds, t \in TicketIds :
    c.playerTickets[p] = t <=> p \in c.matchTickets[t].players

PlayerOwnershipExact == OwnershipExact(coordinator)

(* An identifier is never match supply and backfill demand at once, and a  *)
(* session has at most one active backfill ticket.                         *)
Disjoint(c) ==
    /\ \A t \in TicketIds :
         c.matchTickets[t].revision = 0 \/ c.backfillTickets[t].revision = 0
    /\ \A t, u \in TicketIds :
         (/\ t # u
          /\ c.backfillTickets[t].revision # 0
          /\ c.backfillTickets[u].revision # 0)
         => c.backfillTickets[t].session # c.backfillTickets[u].session

DemandDisjoint == Disjoint(coordinator)

(* Assignments and confirmed reservations are in one-to-one correspondence *)
(* and carry the same proposal, and no assignment was made at or after the *)
(* expiry of its reservation.                                              *)
Paired(c) ==
    /\ \A a \in AssignmentIds : c.assignments[a].status # "absent" =>
         \E r \in ReservationIds :
            /\ c.assignments[a].reservation = r
            /\ c.reservations[r].status = "confirmed"
            /\ c.reservations[r].assignment = a
            /\ c.reservations[r].proposal = c.assignments[a].proposal
            /\ c.assignments[a].confirmedAt < c.reservations[r].expiresAt
    /\ \A r \in ReservationIds : c.reservations[r].status = "confirmed" =>
         \E a \in AssignmentIds :
            /\ c.reservations[r].assignment = a
            /\ c.assignments[a].status # "absent"
            /\ c.assignments[a].reservation = r

AssignmentsPaired == Paired(coordinator)

(* An acknowledged assignment records the outcome of its acknowledgment,   *)
(* and a completed backfill advanced exactly the roster it was planned on. *)
Acknowledged(c) == \A a \in AssignmentIds :
    LET assignment == c.assignments[a]
        request == assignment.acknowledgment
        target == assignment.proposal.backfill
    IN /\ assignment.status \in Outcomes => request.outcome = assignment.status
       /\ (assignment.status = "completed" /\ IsBackfill(assignment.proposal)) =>
            /\ request.session = target.session
            /\ request.expected = target.rosterVersion
            /\ request.resulting > target.rosterVersion

AcknowledgmentsRecorded == Acknowledged(coordinator)

(* The reservation still holds, or has become an assignment. *)
Stands(reservation, now) ==
    \/ reservation.status = "confirmed"
    \/ reservation.status = "active" /\ now < reservation.expiresAt

Idempotent(c) ==
    /\ \A r \in ReservationIds, now \in Times :
         LET reservation == c.reservations[r]
             again == Reserve(c, reservation.proposal, r, now)
         IN reservation.status # "absent" =>
              /\ again.state = expireLocked(c, now)
              /\ again.failure = "none" <=> Stands(reservation, now)
    /\ \A r \in ReservationIds, now \in Times :
         c.reservations[r].status = "confirmed" =>
           Confirm(c, r, c.reservations[r].assignment, now) = Ok(expireLocked(c, now))
    /\ \A r \in ReservationIds, now \in Times :
         c.reservations[r].status = "cancelled" =>
           Cancel(c, r, now) = Ok(expireLocked(c, now))
    /\ \A a \in AssignmentIds : c.assignments[a].status \in Outcomes =>
         AcknowledgeAssignment(c, a, c.assignments[a].acknowledgment) = Ok(c)

(* What becomes of a call that succeeded and is sent again, at any later   *)
(* time and with any clock.  A repeated Confirm, Cancel or acknowledgment  *)
(* succeeds.  A repeated Reserve succeeds exactly while its reservation    *)
(* stands, and is refused once that was cancelled or has expired.  None of *)
(* them takes a ticket again: all that changes is what expiry changes.     *)
RetriesIdempotent == Idempotent(coordinator)

-----------------------------------------------------------------------------
(* Action properties. *)

OneWay(c, d) == \A r \in ReservationIds :
    LET old == c.reservations[r]
        new == d.reservations[r]
    IN /\ old.status # "absent" => /\ new.proposal = old.proposal
                                   /\ new.expiresAt = old.expiresAt
       /\ old.status \in {"confirmed", "cancelled", "expired"} => new = old

Fixed(c, d) == \A a \in AssignmentIds :
    LET old == c.assignments[a]
        new == d.assignments[a]
    IN /\ old.status # "absent" => /\ new.status # "absent"
                                   /\ new.reservation = old.reservation
                                   /\ new.proposal = old.proposal
                                   /\ new.confirmedAt = old.confirmedAt
       /\ old.status \in Outcomes => new = old

(* A reservation moves only from active to one of the three final statuses *)
(* and never again; its proposal and its expiry are fixed at Reserve (the  *)
(* TTL is never renewed).  An assignment keeps what Confirm put into it,   *)
(* and the first terminal acknowledgment is the last: no later one, of the *)
(* same or of another operation, replaces it.                              *)
LifecycleOneWay ==
    [][OneWay(coordinator, coordinator') /\ Fixed(coordinator, coordinator')]_coordinator

Consumes(c, d, proposal) ==
    /\ \A t \in TicketIds :
         IF t \in Supply(proposal)
         THEN /\ c.matchTickets[t].revision = proposal.tickets[t]
              /\ d.matchTickets[t] = NoMatchTicket
         ELSE d.matchTickets[t] = c.matchTickets[t]
    /\ \A t \in TicketIds :
         IF t = proposal.backfill.ticket
         THEN /\ c.backfillTickets[t] =
                   [revision |-> proposal.backfill.revision,
                    session |-> proposal.backfill.session,
                    rosterVersion |-> proposal.backfill.rosterVersion]
              /\ d.backfillTickets[t] = NoBackfillTicket
         ELSE d.backfillTickets[t] = c.backfillTickets[t]

ConsumesExactly(c, d) == \A r \in ReservationIds :
    (c.reservations[r].status # "confirmed" /\ d.reservations[r].status = "confirmed") =>
       Consumes(c, d, c.reservations[r].proposal)

(* The step that confirms a reservation consumes exactly what the proposal *)
(* names: every ticket is at the proposed revision before the step and     *)
(* gone after it, the backfill demand is at the proposed revision, session *)
(* and roster version before and gone after, and no other ticket changes.  *)
ConfirmConsumesExactly == [][ConsumesExactly(coordinator, coordinator')]_coordinator

=============================================================================
