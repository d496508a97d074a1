------------------------------ MODULE Journal -------------------------------
(***************************************************************************)
(* internal/engine and the records of internal/durable, as functions: what *)
(* an operation does to the engine, named by the record that journals it,  *)
(* and what replaying a journal gives.                                     *)
(*                                                                         *)
(* The first record (runtime_configured) is implicit: TTL is a constant.   *)
(***************************************************************************)
EXTENDS CoordinatorState, Sequences, FiniteSets

CONSTANTS
    PolicyVersions,    \* MatchmakingPolicy.Version
    Fingerprints,      \* domain.PolicyFingerprint, one per policy content
    SnapshotIds,       \* domain.SnapshotID
    Planned(_)         \* the proposals the planner makes of a batch's input

ASSUME JournalAssumption == NoID \notin Fingerprints \cup PolicyVersions

(* engine.Engine: the coordinator and the policy catalog, which holds the  *)
(* fingerprint a version was first registered with.                        *)
NewEngine == [coordinator |-> New,
              policies |-> [v \in PolicyVersions |-> NoID]]

NoPlan == [policy |-> NoID, batch |-> NoID]

NoPlans == [n \in SnapshotIds |-> NoPlan]

-----------------------------------------------------------------------------
(* The engine's operations, named by the record that journals them. *)

RegisterPolicy(e, version, fingerprint) ==
    IF e.policies[version] \notin {NoID, fingerprint}
    THEN Fail(e, "PolicyConflict")
    ELSE Ok([e EXCEPT !.policies[version] = fingerprint])

enginePlan(e, version, now) ==
    IF e.policies[version] = NoID THEN Fail(e, "InvalidInput")
    ELSE Ok([e EXCEPT !.coordinator = Snapshot(@, now).state])

(* The planner is a function of the snapshot: the batch is known by the    *)
(* revisions of the unreserved input it was planned on.                    *)
batchOf(c) ==
    [match |-> [t \in UnreservedMatchTickets(c) |->
                  c.matchTickets[t].revision],
     backfill |-> [t \in UnreservedBackfillTickets(c) |->
                     c.backfillTickets[t].revision]]

coordinatorCall(c, event) ==
    CASE event.kind = "match_ticket_submitted" ->
           UpsertMatchTicket(c, event.id, event.ticket)
      [] event.kind = "backfill_ticket_submitted" ->
           UpsertBackfillTicket(c, event.id, event.ticket)
      [] event.kind = "match_ticket_cancelled" ->
           CancelMatchTicket(c, event.id, event.revision)
      [] event.kind = "backfill_ticket_cancelled" ->
           CancelBackfillTicket(c, event.id, event.revision, event.rosterVersion)
      [] event.kind = "proposal_reserved" ->
           Reserve(c, event.proposal, event.reservation, event.now)
      [] event.kind = "reservation_confirmed" ->
           Confirm(c, event.reservation, event.assignment, event.now)
      [] event.kind = "reservation_cancelled" ->
           Cancel(c, event.reservation, event.now)
      [] event.kind = "assignment_acknowledged" ->
           AcknowledgeAssignment(c, event.assignment, event.request)

(* The engine around what its coordinator has answered. *)
delegated(e, result) ==
    [state |-> [e EXCEPT !.coordinator = result.state], failure |-> result.failure]

(* A mutation of the engine. *)
engineCall(e, event) ==
    IF event.kind = "policy_registered"
    THEN RegisterPolicy(e, event.version, event.fingerprint)
    ELSE delegated(e, coordinatorCall(e.coordinator, event))

-----------------------------------------------------------------------------
(* Recovery. *)

(* A plan record changes nothing, not even what has expired. *)
replayRecord(e, event) ==
    IF event.kind = "plan_completed" THEN Ok(e) ELSE engineCall(e, event)

(* One turn of the loop over the records: nothing follows a failure. *)
replayNext(done, event) ==
    IF done.failure # "none" THEN done ELSE replayRecord(done.state, event)

replay(records) ==
    LET replayed[n \in 0..Len(records)] ==
          IF n = 0 THEN Ok(NewEngine) ELSE replayNext(replayed[n - 1], records[n])
    IN replayed[Len(records)]

PlanRecords(records) ==
    {i \in DOMAIN records : records[i].kind = "plan_completed"}

plansFromRecords(records) ==
    [n \in SnapshotIds |->
       LET of == {i \in PlanRecords(records) : records[i].snapshot = n}
       IN IF of = {} THEN NoPlan
          ELSE LET i == CHOOSE j \in of : TRUE
               IN [policy |-> records[i].policy, batch |-> records[i].batch]]

(* plansFromRecords refuses two different plans of one snapshot. *)
PlansAgree(records) ==
    \A i, j \in PlanRecords(records) :
      records[i].snapshot = records[j].snapshot => records[i] = records[j]

Recoverable(records) ==
    /\ replay(records).failure = "none"
    /\ PlansAgree(records)

=============================================================================
