---------------------------- MODULE Consistency -----------------------------
(***************************************************************************)
(* How the resources of a tenant scope belong together: what the handlers  *)
(* of internal/service check when they read a snapshot, and what must hold *)
(* of the contents of a scope, whichever commands have changed them.       *)
(***************************************************************************)
EXTENDS Resources, FiniteSets

CONSTANT Plan(_)     \* planner.Plan, from the captured input to a batch

-----------------------------------------------------------------------------
(* What belongs to a resource, as the handlers read it. *)

(* The tickets a proposal or reservation refers to, supply and demand. *)
References(demand) ==
    Supply(demand) \cup (IF IsBackfill(demand) THEN {demand.backfill.ticket} ELSE {})

ReferencedRevision(demand, t) ==
    IF t \in Supply(demand) THEN demand.tickets[t] ELSE demand.backfill.revision

(* The claims of a reservation are live and its own. *)
HoldsClaims(s, r, demand) ==
    \A t \in References(demand) :
      /\ Live(s, "demand_reservation_claim", t)
      /\ Read(s, "demand_reservation_claim", t)
           = [reservation |-> r, revision |-> ReferencedRevision(demand, t)]

validateDemandIdentity(s, kind, t) ==
    Live(s, "demand_identity", t) /\ Read(s, "demand_identity", t).kind = kind

validateBackfillSessionClaim(s, session, t) ==
    /\ Live(s, "backfill_session_claim", session)
    /\ Read(s, "backfill_session_claim", session).ticket = t

CapturedMatches(input) == {t \in TicketIds : input.matches[t] # NoPayload}

CapturedBackfills(input) == {t \in TicketIds : input.backfills[t] # NoPayload}

Proposed(batch) == {p \in ProposalIds : batch.proposals[p] # NoProposal}

-----------------------------------------------------------------------------
(* Reservations, their claims and their assignments. *)

IsActive(s, r) == Live(s, "reservation", r) /\ Read(s, "reservation", r).status = "active"

IsConfirmed(s, r) == Live(s, "reservation", r) /\ Read(s, "reservation", r).status = "confirmed"

(* Active reservations hold their claims, and nothing else is claimed. *)
ClaimsExact(s) ==
    /\ \A r \in ReservationIds : IsActive(s, r) =>
         HoldsClaims(s, r, Read(s, "reservation", r).demand)
    /\ \A t \in TicketIds : Live(s, "demand_reservation_claim", t) =>
         LET r == Read(s, "demand_reservation_claim", t).reservation
         IN /\ r \in ReservationIds
            /\ IsActive(s, r)
            /\ t \in References(Read(s, "reservation", r).demand)

(* The reservation r took ticket t with it, when it was confirmed. *)
Consumed(s, r, t) == \E kind \in {"match_ticket", "backfill_ticket"} :
    /\ Get(s, kind, t).deleted
    /\ VersionOf(s, kind, t) = VersionOf(s, "reservation", r)

(* Confirmed reservations, and assignments; imported ones are older than   *)
(* the version given.                                                      *)
Paired(s, imported) ==
    /\ \A a \in AssignmentIds : Exists(s, "assignment", a) =>
         LET assignment == Read(s, "assignment", a)
             reservation == Read(s, "reservation", assignment.reservation)
         IN /\ assignment.reservation \in ReservationIds
            /\ IsConfirmed(s, assignment.reservation)
            /\ reservation.proposal = assignment.proposal
            /\ reservation.demand = assignment.demand
    /\ \A r \in ReservationIds : IsConfirmed(s, r) =>
         /\ \E a \in AssignmentIds :
              /\ Exists(s, "assignment", a)
              /\ Read(s, "assignment", a).reservation = r
              /\ \A b \in AssignmentIds \ {a} : Exists(s, "assignment", b) =>
                   Read(s, "assignment", b).reservation # r
         /\ \/ VersionOf(s, "reservation", r) < imported
            \/ \A t \in References(Read(s, "reservation", r).demand) : Consumed(s, r, t)

-----------------------------------------------------------------------------
(* Demand, and planning runs. *)

(* An identifier is claimed for the kind of its ticket, a session by its   *)
(* live backfill.                                                          *)
DemandExact(s) ==
    /\ \A t \in TicketIds, kind \in {"match_ticket", "backfill_ticket"} :
         Exists(s, kind, t) <=> validateDemandIdentity(s, kind, t)
    /\ \A t \in TicketIds, session \in SessionIds :
         validateBackfillSessionClaim(s, session, t) <=>
           /\ Live(s, "backfill_ticket", t)
           /\ Read(s, "backfill_ticket", t).session = session

ResultsOf(s, run) ==
    {p \in ProposalIds : Exists(s, "proposal", p) /\ Read(s, "proposal", p).run = run}

UnmatchedOf(s, run) == {t \in TicketIds : Exists(s, "planning_unmatched", <<run, t>>)}

IsCompleted(s, run) ==
    Exists(s, "planning_run", run) /\ Read(s, "planning_run", run).status = "completed"

(* The results of a run are there when it is completed, and not before. *)
RunExact(s, run) ==
    LET batch == Plan(Read(s, "planning_snapshot", run).input)
    IN IF IsCompleted(s, run)
       THEN /\ ResultsOf(s, run) = Proposed(batch)
            /\ \A p \in ResultsOf(s, run) : Read(s, "proposal", p).demand = batch.proposals[p]
            /\ UnmatchedOf(s, run) = batch.unmatched
            /\ Read(s, "planning_run", run).proposals = Cardinality(ResultsOf(s, run))
            /\ Read(s, "planning_run", run).unmatched = Cardinality(UnmatchedOf(s, run))
       ELSE ResultsOf(s, run) = {} /\ UnmatchedOf(s, run) = {}

-----------------------------------------------------------------------------
(* The life of a resource. *)

(* Resources of these kinds are written once. *)
Unchanging == {"proposal", "planning_snapshot", "planning_unmatched", "operation_result",
               "demand_identity", "assignment_acknowledgment"}

(* How a resource of the kind may go on. *)
Follows(kind, old, new) ==
    /\ kind \in Unchanging => new = old
    /\ kind = "reservation" => new = old \/ old.payload.status = "active"
    /\ kind = "assignment" => new = old \/ old.payload.status = "pending"
    /\ kind = "planning_run" => new = old \/ old.payload.status = "planning"
    /\ kind \in {"match_ticket", "backfill_ticket"} =>
         /\ old.deleted => new = old
         /\ new = old \/ new.deleted \/ new.payload.revision > old.payload.revision
    /\ kind = "policy" => new.payload = old.payload

=============================================================================
