------------------------------ MODULE Changes -------------------------------
(***************************************************************************)
(* The changes that the handlers of internal/service prepare for a commit, *)
(* and what makes them safe to commit later.  A scope is Sound when all    *)
(* that Consistency says holds of it and its resources are what the        *)
(* handlers rely on; changes are Pending while their commit, if it is not  *)
(* refused, takes a sound scope to a sound scope.                          *)
(*                                                                         *)
(* A call decides on a snapshot that may be old when it commits.  What it  *)
(* saw is kept here as a conditional: while the resource of a change still *)
(* has the version the change expects, it is still what the handler saw.   *)
(* A commit of another call gives every resource it writes a new version,  *)
(* so it makes the condition false or leaves the resource alone.           *)
(***************************************************************************)
EXTENDS Consistency

-----------------------------------------------------------------------------
(* The contents of a scope. *)

(* The backfill a proposal names is one of the scope. *)
Known(demand) == IsBackfill(demand) =>
    demand.backfill.ticket \in TicketIds /\ demand.backfill.session \in SessionIds

RunFields == {"status", "policy", "fingerprint", "version", "capturedAt", "completedAt",
              "proposals", "unmatched"}

(* Resources of these kinds are never deleted. *)
PutOnly == {"reservation", "assignment", "planning_run", "policy"} \cup Unchanging

(* What the handlers rely on in a resource of the kind. *)
ValueOK(kind, v) ==
    /\ kind = "match_ticket" => v \in StoredMatch
    /\ kind = "backfill_ticket" => v \in StoredBackfill
    /\ kind = "proposal" => Known(v.demand)
    /\ kind = "reservation" =>
         /\ DOMAIN v = {"status", "proposal", "demand", "expiresAt"}
         /\ v.status \in ReservationStatuses
         /\ Known(v.demand)
    /\ kind = "assignment" =>
         DOMAIN v = {"status", "reservation", "proposal", "demand", "confirmedAt",
                     "acknowledgment", "acknowledgedAt"}
    /\ kind = "planning_run" =>
         DOMAIN v = RunFields /\ v.status \in {"planning", "completed"}
    /\ kind = "policy" => v \in Policy
    /\ kind = "planning_snapshot" =>
         \A t \in CapturedBackfills(v.input) : v.input.backfills[t] \in StoredBackfill

Sound(s) ==
    /\ s.version \in Nat
    /\ \A k \in Keys :
         /\ s.resources[k].version \in Nat
         /\ s.resources[k].version <= s.version
         /\ s.resources[k].deleted \in BOOLEAN
         /\ k[1] \in PutOnly => ~s.resources[k].deleted
         /\ (s.resources[k].version # 0 /\ ~s.resources[k].deleted) =>
              ValueOK(k[1], s.resources[k].payload)
    /\ ClaimsExact(s)
    /\ DemandExact(s)
    /\ Paired(s, 0)
    /\ \A run \in RunIds :
         /\ Exists(s, "planning_run", run) => Exists(s, "planning_snapshot", run)
         /\ RunExact(s, run)

-----------------------------------------------------------------------------
(* Changes that a call has prepared. *)

TicketKinds == {"match_ticket", "backfill_ticket"}

(* What a handler has seen when it changes a resource that is now old. *)
Legal(old, m) ==
    LET kind == m.key[1]
        first == old.version = 0
    IN /\ kind \in Unchanging => first
       /\ kind = "reservation" =>
            \/ first /\ m.payload.status = "active"
            \/ /\ ~first
               /\ ~old.deleted
               /\ old.payload.status = "active"
               /\ m.payload.status # "active"
               /\ m.payload.demand = old.payload.demand
       /\ kind = "assignment" =>
            \/ first
            \/ /\ old.payload.status = "pending"
               /\ m.payload.reservation = old.payload.reservation
               /\ m.payload.proposal = old.payload.proposal
               /\ m.payload.demand = old.payload.demand
       /\ kind = "planning_run" => first \/ old.payload.status = "planning"
       /\ kind \in TicketKinds =>
            \/ first
            \/ /\ ~old.deleted
               /\ m.change = "put" => m.payload.revision > old.payload.revision
               /\ (kind = "backfill_ticket" /\ m.change = "put") =>
                    m.payload.session = old.payload.session
       /\ kind = "policy" => first \/ m.payload = old.payload
       /\ (kind \in {"demand_reservation_claim", "backfill_session_claim"}
             /\ m.change = "put") => first \/ old.deleted

Prepared(s, m) ==
    /\ m.key \in Keys
    /\ m.change \in {"put", "delete"}
    /\ m.key[1] \in PutOnly => m.change = "put"
    /\ m.expected \in Nat
    /\ m.expected <= s.version
    /\ m.expected = s.resources[m.key].version => Legal(s.resources[m.key], m)
    /\ m.change = "put" => ValueOK(m.key[1], m.payload)

Touches(ch, kind, id) == \E m \in ch : m.key = <<kind, id>>

(* Nothing of these kinds is changed. *)
Spares(ch, kinds) == \A m \in ch : m.key[1] \notin kinds

(* A reservation starts or ends with all its claims, and in the changes of *)
(* other commands neither occurs.                                          *)
Whole(ch, r, demand, moment) ==
    /\ Known(demand)
    /\ Touches(ch, "reservation", r)
    /\ \A t \in References(demand) : Touches(ch, "demand_reservation_claim", t)
    /\ \A m \in ch, x \in ReservationIds : m.key = <<"reservation", x>> =>
         /\ x = r
         /\ m.payload.demand = demand
         /\ IF moment = "start" THEN m.payload.status = "active"
            ELSE m.payload.status # "active"
    /\ \A m \in ch, t \in TicketIds : m.key = <<"demand_reservation_claim", t>> =>
         /\ t \in References(demand)
         /\ IF moment = "start"
            THEN /\ m.change = "put"
                 /\ m.payload = [reservation |-> r,
                                 revision |-> ReferencedRevision(demand, t)]
            ELSE m.change = "delete"

ClaimChanges(ch) ==
    \/ Spares(ch, {"reservation", "demand_reservation_claim"})
    \/ \E r \in ReservationIds, moment \in {"start", "end"} :
         \E m \in {n \in ch : n.key = <<"reservation", r>>} :
           Whole(ch, r, m.payload.demand, moment)

(* A ticket comes with its claims. *)
Creates(ch, t, kind, session) ==
    /\ Touches(ch, "demand_identity", t)
    /\ Touches(ch, kind, t)
    /\ kind = "backfill_ticket" =>
         session \in SessionIds /\ Touches(ch, "backfill_session_claim", session)
    /\ \A m \in ch, u \in TicketIds : m.key = <<"demand_identity", u>> =>
         u = t /\ m.payload = [kind |-> kind]
    /\ \A m \in ch, u \in TicketIds, any \in TicketKinds : m.key = <<any, u>> =>
         /\ any = kind
         /\ u = t
         /\ m.change = "put"
         /\ m.expected = 0
         /\ kind = "backfill_ticket" => m.payload.session = session
    /\ \A m \in ch, x \in SessionIds : m.key = <<"backfill_session_claim", x>> =>
         /\ kind = "backfill_ticket"
         /\ x = session
         /\ m.change = "put"
         /\ m.payload = [ticket |-> t]

(* Tickets that are there are changed or removed, no backfill is removed. *)
Keeps(ch) ==
    /\ Spares(ch, {"demand_identity", "backfill_session_claim"})
    /\ \A m \in ch, u \in TicketIds, kind \in TicketKinds : m.key = <<kind, u>> =>
         /\ m.expected # 0
         /\ kind = "backfill_ticket" => m.change = "put"

(* The backfill t is removed with the claim of its session. *)
Removes(s, ch, t, session) ==
    /\ Spares(ch, {"demand_identity"})
    /\ Touches(ch, "backfill_ticket", t)
    /\ Touches(ch, "backfill_session_claim", session)
    /\ \A m \in ch, u \in TicketIds, kind \in TicketKinds : m.key = <<kind, u>> =>
         /\ m.expected # 0
         /\ kind = "backfill_ticket" =>
              /\ u = t
              /\ m.change = "delete"
              /\ m.expected = VersionOf(s, "backfill_ticket", t) =>
                   Read(s, "backfill_ticket", t).session = session
    /\ \A m \in ch, x \in SessionIds : m.key = <<"backfill_session_claim", x>> =>
         x = session /\ m.change = "delete"

DemandChanges(s, ch) ==
    \/ Keeps(ch)
    \/ \E t \in TicketIds, kind \in TicketKinds, session \in SessionIds \cup {NoID} :
         Creates(ch, t, kind, session)
    \/ \E t \in TicketIds, session \in SessionIds : Removes(s, ch, t, session)

(* Reservation r is confirmed as assignment a, which consumes its tickets. *)
Confirms(ch, r, a) ==
    /\ Touches(ch, "reservation", r)
    /\ Touches(ch, "assignment", a)
    /\ \A m \in ch, x \in ReservationIds : m.key = <<"reservation", x>> =>
         /\ x = r
         /\ m.payload.status = "confirmed"
         /\ \A t \in References(m.payload.demand) : \E kind \in TicketKinds :
              Touches(ch, kind, t)
         /\ \A n \in ch, b \in AssignmentIds : n.key = <<"assignment", b>> =>
              /\ n.payload.proposal = m.payload.proposal
              /\ n.payload.demand = m.payload.demand
    /\ \A n \in ch, b \in AssignmentIds : n.key = <<"assignment", b>> =>
         /\ b = a
         /\ n.expected = 0
         /\ n.payload.reservation = r
    /\ \A m \in ch, u \in TicketIds, kind \in TicketKinds :
         m.key = <<kind, u>> => m.change = "delete"

AssignmentChanges(ch) ==
    \/ /\ \A m \in ch, r \in ReservationIds : m.key = <<"reservation", r>> =>
            m.payload.status # "confirmed"
       /\ \A m \in ch, a \in AssignmentIds : m.key = <<"assignment", a>> => m.expected # 0
    \/ \E r \in ReservationIds, a \in AssignmentIds : Confirms(ch, r, a)

Captures(ch, run) ==
    /\ Spares(ch, {"proposal", "planning_unmatched"})
    /\ Touches(ch, "planning_snapshot", run)
    /\ \A m \in ch, x \in RunIds, kind \in {"planning_run", "planning_snapshot"} :
         m.key = <<kind, x>> => x = run /\ m.expected = 0
    /\ \A m \in ch, x \in RunIds : m.key = <<"planning_run", x>> =>
         m.payload.status = "planning"

(* A run is completed with all that the planner makes of its snapshot. *)
Completes(s, ch, run) ==
    LET batch == Plan(Read(s, "planning_snapshot", run).input)
    IN /\ Exists(s, "planning_snapshot", run)
       /\ Spares(ch, {"planning_snapshot"})
       /\ Touches(ch, "planning_run", run)
       /\ batch.unmatched \subseteq TicketIds
       /\ \A p \in Proposed(batch) : Touches(ch, "proposal", p)
       /\ \A t \in batch.unmatched : Touches(ch, "planning_unmatched", <<run, t>>)
       /\ \A m \in ch, x \in RunIds : m.key = <<"planning_run", x>> =>
            /\ x = run
            /\ m.payload.status = "completed"
            /\ m.payload.proposals = Cardinality(Proposed(batch))
            /\ m.payload.unmatched = Cardinality(batch.unmatched)
       /\ \A m \in ch, p \in ProposalIds : m.key = <<"proposal", p>> =>
            p \in Proposed(batch) /\ m.payload = [run |-> run, demand |-> batch.proposals[p]]
       /\ \A m \in ch, x \in RunIds, t \in TicketIds :
            m.key = <<"planning_unmatched", <<x, t>>>> => x = run /\ t \in batch.unmatched

RunChanges(s, ch) ==
    \/ Spares(ch, {"planning_run", "planning_snapshot", "proposal", "planning_unmatched"})
    \/ \E run \in RunIds : Captures(ch, run) \/ Completes(s, ch, run)

Pending(s, ch) ==
    /\ \A m \in ch : Prepared(s, m)
    /\ ClaimChanges(ch)
    /\ DemandChanges(s, ch)
    /\ AssignmentChanges(ch)
    /\ RunChanges(s, ch)

=============================================================================
