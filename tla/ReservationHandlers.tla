------------------------- MODULE ReservationHandlers -------------------------
(***************************************************************************)
(* Reservations and Assignments of internal/service, from the snapshot     *)
(* they read to the mutations they ask to commit.  A live claim per ticket *)
(* says which reservation holds the ticket; a reservation and its claims   *)
(* are always written together.                                            *)
(***************************************************************************)
EXTENDS Consistency

CONSTANT TTL          \* Reservations.ttl

(* A referenced ticket is live as it was planned. *)
FreshTicket(s, demand, t) ==
    IF t \in Supply(demand)
    THEN /\ Live(s, "match_ticket", t)
         /\ Read(s, "match_ticket", t).revision = demand.tickets[t]
    ELSE /\ Live(s, "backfill_ticket", t)
         /\ LET current == Read(s, "backfill_ticket", t)
            IN /\ current.revision = demand.backfill.revision
               /\ current.session = demand.backfill.session
               /\ current.rosterVersion = demand.backfill.rosterVersion

Fresh(s, demand) == \A t \in References(demand) : FreshTicket(s, demand, t)

(* The failures Reserve may meet: match tickets come before the backfill   *)
(* and are looked at in some order, each for freshness and then for claims. *)
ReserveFailures(s, demand) ==
    LET failure(t) == IF ~FreshTicket(s, demand, t) THEN "StaleSnapshot"
                      ELSE IF Live(s, "demand_reservation_claim", t)
                        THEN "ReservationConflict" ELSE "none"
        among(T) == {failure(t) : t \in T} \ {"none"}
    IN IF among(Supply(demand)) # {} THEN among(Supply(demand))
       ELSE among(References(demand))

(* Mutant: the tombstone of a released claim is not looked for. *)
reservationClaimMutation_first(s, r, demand, t) ==
    put("demand_reservation_claim", t, 0,
        [reservation |-> r, revision |-> ReferencedRevision(demand, t)])

reservationClaimMutation(s, r, demand, t) ==
    put("demand_reservation_claim", t, VersionOf(s, "demand_reservation_claim", t),
        [reservation |-> r, revision |-> ReferencedRevision(demand, t)])

(* Mutant: only the first ticket of the proposal is claimed. *)
reserveMutations_first(s, r, reservation) ==
    LET demand == reservation.demand
        first == CHOOSE t \in References(demand) : TRUE
    IN {put("reservation", r, 0, reservation),
        reservationClaimMutation(s, r, demand, first)}

reserveMutations(s, r, reservation) ==
    {put("reservation", r, 0, reservation)}
      \cup {reservationClaimMutation(s, r, reservation.demand, t) :
              t \in References(reservation.demand)}

(* The set of outcomes Reserve may have. *)
Reserve(s, operation, r, p, at) ==
    LET demand == Read(s, "proposal", p).demand
        reservation == [status |-> "active", proposal |-> p, demand |-> demand,
                        expiresAt |-> at + TTL]
    IN IF Exists(s, "reservation", r) THEN {Refuse("InvalidRevision")}
       ELSE IF ~Live(s, "proposal", p) THEN {Refuse("NotFound")}
       ELSE IF ~ValidateProposal(demand) THEN {Refuse("InvalidInput")}
       ELSE IF ReserveFailures(s, demand) # {}
         THEN {Refuse(failure) : failure \in ReserveFailures(s, demand)}
       ELSE {Accept(reserveMutations(s, r, reservation)
                      \cup {put("operation_result", operation, 0,
                                [record |-> reservation])},
                    reservation)}

-----------------------------------------------------------------------------

reservationClaimDeletions(s, demand) ==
    {delete("demand_reservation_claim", t, VersionOf(s, "demand_reservation_claim", t)) :
       t \in References(demand)}

(* Mutant: the claims are kept. *)
endMutations_keep(s, r, status) ==
    LET reservation == Read(s, "reservation", r)
    IN {put("reservation", r, VersionOf(s, "reservation", r),
            [reservation EXCEPT !.status = status])}

(* End a reservation that does not become an assignment. *)
endMutations(s, r, status) ==
    LET reservation == Read(s, "reservation", r)
    IN {put("reservation", r, VersionOf(s, "reservation", r),
            [reservation EXCEPT !.status = status])}
         \cup reservationClaimDeletions(s, reservation.demand)

Cancel(s, operation, r) ==
    LET reservation == Read(s, "reservation", r)
        cancelled == [reservation EXCEPT !.status = "cancelled"]
        result == put("operation_result", operation, 0, [record |-> cancelled])
    IN IF ~Live(s, "reservation", r) THEN Refuse("NotFound")
       ELSE IF reservation.status = "expired" THEN Refuse("ReservationExpired")
       ELSE IF reservation.status = "confirmed" THEN Refuse("InvalidTransition")
       ELSE IF reservation.status = "cancelled"
         THEN Accept({result}, cancelled)
       ELSE IF ~HoldsClaims(s, r, reservation.demand) THEN Refuse("Internal")
       ELSE Accept(endMutations(s, r, "cancelled") \cup {result}, cancelled)

(* Reservations whose deadline a clock reading has reached. *)
Due(s, at) ==
    {r \in ReservationIds :
       /\ Live(s, "reservation", r)
       /\ Read(s, "reservation", r).status = "active"
       /\ at >= Read(s, "reservation", r).expiresAt}

expireOperation(s, r) ==
    [id |-> <<"/reservation.expire/", r>>,
     digest |-> [kind |-> "reservation.expire", reservation |-> r,
                 expiresAt |-> Read(s, "reservation", r).expiresAt]]

invalidateOperation(s, r) ==
    [id |-> <<"/reservation.invalidate-stale/", r>>,
     digest |-> [kind |-> "reservation.invalidate_stale", reservation |-> r,
                 proposal |-> Read(s, "reservation", r).proposal]]

(* expireOne and invalidateStale: "done" when the reservation has ended. *)
EndActive(s, r, status) ==
    LET reservation == Read(s, "reservation", r)
    IN IF ~Live(s, "reservation", r) \/ reservation.status # "active"
       THEN Refuse("done")
       ELSE IF ~HoldsClaims(s, r, reservation.demand) THEN Refuse("Internal")
       ELSE Accept(endMutations(s, r, status), NoPayload)

-----------------------------------------------------------------------------

(* Mutant: the tickets are not consumed. *)
confirmDemandMutations_kept(s, demand) == reservationClaimDeletions(s, demand)

(* Mutant: the session of a filled backfill stays claimed. *)
confirmDemandMutations_session(s, demand) ==
    {delete("match_ticket", t, VersionOf(s, "match_ticket", t)) : t \in Supply(demand)}
      \cup (IF ~IsBackfill(demand) THEN {}
            ELSE {delete("backfill_ticket", demand.backfill.ticket,
                         VersionOf(s, "backfill_ticket", demand.backfill.ticket))})
      \cup reservationClaimDeletions(s, demand)

confirmDemandMutations(s, demand) ==
    LET target == demand.backfill
    IN {delete("match_ticket", t, VersionOf(s, "match_ticket", t)) :
          t \in Supply(demand)}
       \cup (IF ~IsBackfill(demand) THEN {}
             ELSE {delete("backfill_ticket", target.ticket,
                          VersionOf(s, "backfill_ticket", target.ticket)),
                   delete("backfill_session_claim", target.session,
                          VersionOf(s, "backfill_session_claim", target.session))})
       \cup reservationClaimDeletions(s, demand)

(* "stale" sends the caller to invalidateStale. *)
Confirm(s, operation, r, a, at) ==
    LET reservation == Read(s, "reservation", r)
        demand == reservation.demand
        session == demand.backfill.session
        proposal == Read(s, "proposal", reservation.proposal)
        assignment == [status |-> "pending", reservation |-> r,
                       proposal |-> reservation.proposal, demand |-> demand,
                       confirmedAt |-> at, acknowledgment |-> NoAcknowledgment,
                       acknowledgedAt |-> 0]
    IN IF ~Live(s, "reservation", r) THEN Refuse("NotFound")
       ELSE IF reservation.status = "expired" THEN Refuse("ReservationExpired")
       ELSE IF reservation.status # "active" THEN Refuse("InvalidTransition")
       ELSE IF Exists(s, "assignment", a) THEN Refuse("InvalidRevision")
       ELSE IF \/ ~Live(s, "proposal", reservation.proposal)
               \/ proposal.demand # demand
         THEN Refuse("Internal")
       ELSE IF ~Fresh(s, demand) THEN Refuse("stale")
       ELSE IF IsBackfill(demand) /\
               ~(/\ Live(s, "backfill_session_claim", session)
                 /\ Read(s, "backfill_session_claim", session).ticket
                      = demand.backfill.ticket)
         THEN Refuse("Internal")
       ELSE IF ~HoldsClaims(s, r, demand) THEN Refuse("Internal")
       ELSE Accept(confirmDemandMutations(s, demand)
                     \cup {put("reservation", r, VersionOf(s, "reservation", r),
                               [reservation EXCEPT !.status = "confirmed"]),
                           put("assignment", a, 0, assignment),
                           put("operation_result", operation, 0,
                               [record |-> assignment])},
                   assignment)

(* Mutant: an assignment that was acknowledged may be acknowledged again. *)
Acknowledge_again(s, a, request, at) ==
    LET current == Read(s, "assignment", a)
        assignment == [current EXCEPT !.status = request.outcome,
                                      !.acknowledgment = request,
                                      !.acknowledgedAt = at]
    IN IF ~Live(s, "assignment", a) THEN Refuse("NotFound")
       ELSE Accept({put("assignment", a, VersionOf(s, "assignment", a), assignment),
                    put("operation_result", request.operation, 0,
                        [record |-> assignment])},
                   assignment)

Acknowledge(s, a, request, at) ==
    LET current == Read(s, "assignment", a)
        failure == ValidateAssignmentAcknowledgment(current.demand, request)
        assignment == [current EXCEPT !.status = request.outcome,
                                      !.acknowledgment = request,
                                      !.acknowledgedAt = at]
    IN IF ~Live(s, "assignment", a) THEN Refuse("NotFound")
       ELSE IF current.status # "pending" THEN Refuse("InvalidTransition")
       ELSE IF failure # "none" THEN Refuse(failure)
       ELSE Accept({put("assignment", a, VersionOf(s, "assignment", a), assignment),
                    put("assignment_acknowledgment", a, 0,
                        [acknowledgment |-> request, acknowledgedAt |-> at]),
                    put("operation_result", request.operation, 0,
                        [record |-> assignment])},
                   assignment)

=============================================================================
