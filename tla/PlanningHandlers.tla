-------------------------- MODULE PlanningHandlers ---------------------------
(***************************************************************************)
(* Policies and PlanningRuns of internal/service.  A planning run is       *)
(* captured (the demand of one snapshot, and the policy, are stored) and   *)
(* completed later, by the same call or by a retry on another replica:     *)
(* the planner is a function of what was captured.                         *)
(***************************************************************************)
EXTENDS DemandHandlers

CONSTANT
    Suits(_, _)      \* a roster has the team layout of a policy

PutPolicy(s, version, fingerprint) ==
    IF /\ Exists(s, "policy", version)
       /\ Read(s, "policy", version).fingerprint # fingerprint
    THEN Refuse("PolicyConflict")
    ELSE Accept({put("policy", version, VersionOf(s, "policy", version),
                     [fingerprint |-> fingerprint])}, NoPayload)

-----------------------------------------------------------------------------

(* domain.ValidateSnapshot, on tickets that were validated when stored. *)
ValidateSnapshot(input) ==
    /\ \A t \in CapturedMatches(input) : input.matches[t].enqueuedAt <= input.now
    /\ \A t, u \in CapturedMatches(input) :
         t # u => input.matches[t].players \cap input.matches[u].players = {}
    /\ \A t \in CapturedBackfills(input) :
         /\ input.backfills[t].enqueuedAt <= input.now
         /\ Suits(input.fingerprint, input.backfills[t].roster)
    /\ CapturedMatches(input) \cap CapturedBackfills(input) = {}

planningInput(s, run, version, at) ==
    LET demand(kind) == [t \in TicketIds |->
                           IF Live(s, kind, t) THEN Read(s, kind, t) ELSE NoPayload]
    IN [run |-> run, policy |-> version,
        fingerprint |-> Read(s, "policy", version).fingerprint, now |-> at,
        matches |-> demand("match_ticket"), backfills |-> demand("backfill_ticket")]

(* The identity and session claims behind the captured demand. *)
ClaimsBehind(s, input) ==
    /\ \A t \in CapturedMatches(input) : validateDemandIdentity(s, "match_ticket", t)
    /\ \A t \in CapturedBackfills(input) :
         /\ validateDemandIdentity(s, "backfill_ticket", t)
         /\ validateBackfillSessionClaim(s, input.backfills[t].session, t)

(* "registered" makes the caller look for its own receipt once more. *)
Capture(s, run, version, at) ==
    LET input == planningInput(s, run, version, at)
    IN IF Exists(s, "planning_run", run) THEN Refuse("registered")
       ELSE IF ~Live(s, "policy", version) THEN Refuse("InvalidInput")
       ELSE IF ~ClaimsBehind(s, input) THEN Refuse("Internal")
       ELSE IF ~ValidateSnapshot(input) THEN Refuse("InvalidInput")
       ELSE Accept({put("planning_run", run, 0,
                        [status |-> "planning", policy |-> version,
                         fingerprint |-> input.fingerprint, version |-> s.version,
                         capturedAt |-> at, completedAt |-> 0,
                         proposals |-> 0, unmatched |-> 0]),
                    put("planning_snapshot", run, 0,
                        [version |-> s.version, input |-> input])}, NoPayload)

-----------------------------------------------------------------------------

(* A proposal places captured demand as it was captured. *)
PlacesCaptured(input, proposal) ==
    /\ \A t \in Supply(proposal) :
         /\ t \in CapturedMatches(input)
         /\ proposal.tickets[t] = input.matches[t].revision
    /\ IsBackfill(proposal) =>
         LET target == proposal.backfill
         IN /\ target.ticket \in CapturedBackfills(input)
            /\ target.revision = input.backfills[target.ticket].revision
            /\ target.session = input.backfills[target.ticket].session
            /\ target.rosterVersion = input.backfills[target.ticket].rosterVersion

(* Every captured match ticket is placed once or left unmatched, and no    *)
(* backfill is filled twice.                                               *)
validatePlanningBatch(input, batch) ==
    LET placed(p) == Supply(batch.proposals[p])
    IN /\ \A p \in Proposed(batch) :
            /\ ValidateProposal(batch.proposals[p])
            /\ PlacesCaptured(input, batch.proposals[p])
       /\ \A p, q \in Proposed(batch) : p # q =>
            /\ placed(p) \cap placed(q) = {}
            /\ IsBackfill(batch.proposals[p]) =>
                 batch.proposals[p].backfill.ticket # batch.proposals[q].backfill.ticket
       /\ batch.unmatched
            = CapturedMatches(input) \ UNION {placed(p) : p \in Proposed(batch)}

validatePlanningRun(run) ==
    run.status = "completed" => run.completedAt >= run.capturedAt

CompletedRun(initial, batch, at) ==
    [initial EXCEPT !.status = "completed", !.completedAt = at,
                    !.proposals = Cardinality(Proposed(batch)),
                    !.unmatched = Cardinality(batch.unmatched)]

(* encodePlanningCompletionCommand: the completion time is not in it. *)
completeOperation(run, completed, batch) ==
    [id |-> <<"/planning.complete/", run>>,
     digest |-> [kind |-> "planning_run.complete",
                 run |-> [completed EXCEPT !.completedAt = completed.capturedAt],
                 batch |-> batch]]

completeMutations(s, run, completed, batch) ==
    {put("planning_run", run, VersionOf(s, "planning_run", run), completed)}
      \cup {put("proposal", p, 0, [run |-> run, demand |-> batch.proposals[p]]) :
              p \in Proposed(batch)}
      \cup {put("planning_unmatched", <<run, t>>, 0,
                [unmatched |-> Read(s, "planning_snapshot", run).input.matches[t].revision]) :
              t \in batch.unmatched}

=============================================================================
