---------------------------- MODULE LegacyModel -----------------------------
(***************************************************************************)
(* legacyImportModel of internal/service/legacy_import.go: what the import *)
(* of a v0 journal makes of its events.  Every event runs on an engine of  *)
(* the importer's own; beside it the importer keeps maps, which it updates *)
(* itself, and from which the target resources are written.  (The v0       *)
(* runtime recovers from the engine alone: see Journal.)                   *)
(*                                                                         *)
(* A plan record carries the batch; here it is known by its input, and     *)
(* Planned says which proposals the planner made of that.  A proposal is   *)
(* known by its content, and not by an identifier that is made of its run  *)
(* as well: a reservation retried with the same content from another run   *)
(* passes for a retry here.                                                *)
(***************************************************************************)
EXTENDS Journal

NoRun == [policy |-> NoID]

(* domain.Reservation: the coordinator's record without the assignment. *)
Reservation(record) == [status |-> record.status, proposal |-> record.proposal,
                        expiresAt |-> record.expiresAt]

NewModel ==
    [engine |-> NewEngine,
     matchTickets |-> [t \in TicketIds |-> NoMatchTicket],
     backfillTickets |-> [t \in TicketIds |-> NoBackfillTicket],
     demandKinds |-> [t \in TicketIds |-> "none"],
     sessions |-> {},
     planningRuns |-> [n \in SnapshotIds |-> NoRun],
     proposals |-> {},
     reservations |-> [r \in ReservationIds |-> Reservation(NoReservation)],
     reservationClaims |-> {},
     assignments |-> [a \in AssignmentIds |-> NoAssignment]]

expireReservations(m, now) ==
    [m EXCEPT !.reservations = [r \in ReservationIds |->
       IF @[r].status = "active" /\ now >= @[r].expiresAt
       THEN [@[r] EXCEPT !.status = "expired"] ELSE @[r]]]

(* claimDemandKind. *)
ChangesKind(m, id, kind) == m.demandKinds[id] \notin {"none", kind}

-----------------------------------------------------------------------------
(* The changes of an event to the maps, once the engine of m took it. *)

matchTicketSubmitted(m, event) ==
    [m EXCEPT !.demandKinds[event.id] = "match_ticket",
              !.matchTickets[event.id] = event.ticket]

backfillSubmitted(m, event) ==
    [m EXCEPT !.demandKinds[event.id] = "backfill_ticket",
              !.backfillTickets[event.id] = event.ticket,
              !.sessions = @ \cup {event.ticket.session}]

(* The run with the demand that the importer's engine captured for it. *)
planCompleted(m, event) ==
    LET c == m.engine.coordinator
        proposals == Planned(event.batch)
    IN [m EXCEPT
          !.planningRuns[event.snapshot] =
            [policy |-> event.policy, fingerprint |-> m.engine.policies[event.policy],
             now |-> event.now,
             matches |-> [t \in UnreservedMatchTickets(c) |-> c.matchTickets[t]],
             backfills |-> [t \in UnreservedBackfillTickets(c) |-> c.backfillTickets[t]],
             proposals |-> proposals,
             unmatched |-> DOMAIN event.batch.match
                             \ UNION {Supply(p) : p \in proposals}],
          !.proposals = @ \cup ({event.snapshot} \X proposals)]

proposalReserved(m, event) ==
    [m EXCEPT !.reservations[event.reservation] =
                Reservation(m.engine.coordinator.reservations[event.reservation]),
              !.reservationClaims = @ \cup Supply(event.proposal)
                \cup ({event.proposal.backfill.ticket} \ {NoID})]

(* Mutant: the tickets of the assignment stay. *)
reservationConfirmed_kept(m, event) ==
    [m EXCEPT !.reservations[event.reservation].status = "confirmed",
              !.assignments[event.assignment] =
                m.engine.coordinator.assignments[event.assignment]]

(* The tickets of the assignment go, also when the event repeats an        *)
(* earlier confirmation.                                                   *)
reservationConfirmed(m, event) ==
    LET assignment == m.engine.coordinator.assignments[event.assignment]
    IN [m EXCEPT
          !.reservations[event.reservation].status = "confirmed",
          !.matchTickets = [t \in TicketIds |->
             IF t \in Supply(assignment.proposal) THEN NoMatchTicket ELSE @[t]],
          !.backfillTickets = [t \in TicketIds |->
             IF t = assignment.proposal.backfill.ticket THEN NoBackfillTicket ELSE @[t]],
          !.assignments[event.assignment] = assignment]

reservationCancelled(m, event) ==
    [m EXCEPT !.reservations[event.reservation] =
                Reservation(m.engine.coordinator.reservations[event.reservation])]

assignmentAcknowledged(m, event) ==
    [m EXCEPT !.assignments[event.assignment] =
                m.engine.coordinator.assignments[event.assignment]]

Normalize(m, event) ==
    CASE event.kind = "policy_registered" -> m
      [] event.kind = "match_ticket_submitted" -> matchTicketSubmitted(m, event)
      [] event.kind = "backfill_ticket_submitted" -> backfillSubmitted(m, event)
      [] event.kind = "match_ticket_cancelled" ->
           [m EXCEPT !.matchTickets[event.id] = NoMatchTicket]
      [] event.kind = "backfill_ticket_cancelled" ->
           [m EXCEPT !.backfillTickets[event.id] = NoBackfillTicket]
      [] event.kind = "plan_completed" -> planCompleted(m, event)
      [] event.kind = "proposal_reserved" -> proposalReserved(m, event)
      [] event.kind = "reservation_confirmed" -> reservationConfirmed(m, event)
      [] event.kind = "reservation_cancelled" -> reservationCancelled(m, event)
      [] event.kind = "assignment_acknowledged" -> assignmentAcknowledged(m, event)

-----------------------------------------------------------------------------
(* What is refused. *)

(* validatePlanningBatch: the batch accounts for exactly the match tickets *)
(* that the importer's engine captures, and fills demand that it captures. *)
AccountsFor(c, batch) ==
    /\ batch.match = [t \in UnreservedMatchTickets(c) |-> c.matchTickets[t].revision]
    /\ \A p \in Planned(batch) : IsBackfill(p) =>
         LET target == p.backfill
         IN /\ target.ticket \in UnreservedBackfillTickets(c)
            /\ c.backfillTickets[target.ticket]
                 = [revision |-> target.revision, session |-> target.session,
                    rosterVersion |-> target.rosterVersion]

Refused(m, event) ==
    \/ event.kind = "match_ticket_submitted" /\ ChangesKind(m, event.id, "match_ticket")
    \/ event.kind = "backfill_ticket_submitted" /\ ChangesKind(m, event.id, "backfill_ticket")
    \/ event.kind = "proposal_reserved" /\ \A known \in m.proposals : known[2] # event.proposal

Dated == {"plan_completed", "proposal_reserved", "reservation_confirmed",
          "reservation_cancelled"}

(* Mutant: a plan changes nothing, as in the replay of the runtime. *)
Run_replayed(e, event) == replayRecord(e, event)

(* The engine's part of an event: for a plan that is Engine.Snapshot. *)
Run(e, event) ==
    IF event.kind = "plan_completed" THEN enginePlan(e, event.policy, event.now)
    ELSE engineCall(e, event)

(* The maps m after the engine's part of the event has ended as ran. *)
applyRan(m, event, ran) ==
    IF Refused(m, event) THEN Fail(m, "Refused")
    ELSE IF ran.failure # "none" THEN Fail(m, ran.failure)
    ELSE IF /\ event.kind = "plan_completed"
            /\ ~AccountsFor(ran.state.coordinator, event.batch)
      THEN Fail(m, "Refused")
    ELSE Ok(Normalize([m EXCEPT !.engine = ran.state], event))

applyExpired(m, event) == applyRan(m, event, Run(m.engine, event))

(* legacyImportModel.apply. *)
apply(m, event) ==
    applyExpired(IF event.kind \in Dated THEN expireReservations(m, event.now) ELSE m,
                 event)

(* One turn of the loop over the events: nothing follows a failure. *)
applyNext(done, event) ==
    IF done.failure # "none" THEN done ELSE apply(done.state, event)

(* Every event is applied in turn. *)
applyAll(records) ==
    LET built[n \in 0..Len(records)] ==
          IF n = 0 THEN Ok(NewModel) ELSE applyNext(built[n - 1], records[n])
    IN built[Len(records)]

(* ReadLegacyJournal accepts what replays; then every event is applied. *)
buildLegacyImportModel(records) ==
    IF replay(records).failure # "none" THEN Fail(NewModel, "Unreadable")
    ELSE applyAll(records)

-----------------------------------------------------------------------------
(* The maps m of a journal beside what its replay recovers. *)

(* The tickets a proposal holds, the vacancy it fills among them. *)
Held(proposal) == Supply(proposal) \cup {proposal.backfill.ticket}

(* Places in a journal that record the confirmation of an assignment. *)
Confirmations(records, a) ==
    {i \in DOMAIN records : /\ records[i].kind = "reservation_confirmed"
                            /\ records[i].assignment = a}

(* The tickets of the confirmations that the journal holds twice: Confirm  *)
(* answers a retry with the assignment it has, and the runtime journals    *)
(* that answer as well.                                                    *)
Reconfirmed(records, assignments) ==
    {t \in TicketIds : \E a \in AssignmentIds :
       /\ t \in Held(assignments[a].proposal)
       /\ \E i, j \in Confirmations(records, a) : i # j}

(* The same reservation, or one that a plan has expired since. *)
SameOrExpired(imported, reservation) ==
    \/ imported = reservation
    \/ /\ reservation.status = "active"
       /\ imported = [reservation EXCEPT !.status = "expired"]

SameTickets(m, recovered, tickets) ==
    \A t \in tickets : /\ m.matchTickets[t] = recovered.matchTickets[t]
                       /\ m.backfillTickets[t] = recovered.backfillTickets[t]

MapsAgree(records, m, recovered) ==
    /\ SameTickets(m, recovered, TicketIds \ Reconfirmed(records, recovered.assignments))
    /\ m.assignments = recovered.assignments
    /\ \A r \in ReservationIds :
         /\ SameOrExpired(m.reservations[r], Reservation(recovered.reservations[r]))
         /\ m.reservations[r] = Reservation(m.engine.coordinator.reservations[r])
         /\ m.reservations[r].status = "active" =>
              /\ Supply(m.reservations[r].proposal) \subseteq m.reservationClaims
              /\ \E known \in m.proposals : known[2] = m.reservations[r].proposal

=============================================================================
