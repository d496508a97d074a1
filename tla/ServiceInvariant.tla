-------------------------- MODULE ServiceInvariant --------------------------
(***************************************************************************)
(* The inductive invariant of Service, from which its safety properties    *)
(* follow.  Calls share nothing but the scope, so it has two parts: the    *)
(* contents of the scope are Sound, and what a call has prepared and not   *)
(* yet committed is Pending (both of Changes).                             *)
(***************************************************************************)
EXTENDS Service, Changes

(* What clients ask for, as the handlers of the API decode it. *)
ClientCommands ==
    [kind : {"match_ticket.put"}, operation : OperationIds, ticket : TicketIds,
     value : StoredMatch]
    \cup [kind : {"match_ticket.cancel"}, operation : OperationIds, ticket : TicketIds,
          revision : Nat]
    \cup [kind : {"backfill_ticket.put"}, operation : OperationIds, ticket : TicketIds,
          value : StoredBackfill]
    \cup [kind : {"backfill_ticket.cancel"}, operation : OperationIds, ticket : TicketIds,
          revision : Nat, rosterVersion : Nat]
    \cup [kind : {"policy.put"}, operation : OperationIds, policy : PolicyVersions,
          fingerprint : Fingerprints]
    \cup [kind : {"planning_run.execute"}, operation : OperationIds, run : RunIds,
          policy : PolicyVersions]
    \cup [kind : {"reservation.reserve"}, operation : OperationIds,
          reservation : ReservationIds, proposal : ProposalIds]
    \cup [kind : {"reservation.cancel"}, operation : OperationIds,
          reservation : ReservationIds]
    \cup [kind : {"reservation.confirm"}, operation : OperationIds,
          reservation : ReservationIds, assignment : AssignmentIds]
    \cup [kind : {"assignment.acknowledge"}, operation : OperationIds,
          assignment : AssignmentIds, request : AcknowledgmentRequest]
    \cup [kind : {"reservation.list"}, operation : OperationIds]

ASSUME SentAssumption == \A w \in Workloads : Sent(w) \subseteq ClientCommands

(* The contents from which a workload starts were made by commands alone;  *)
(* an empty scope is sound.                                                *)
ASSUME ContentsAssumption == \A w \in Workloads : Sound(Contents(w))

-----------------------------------------------------------------------------
(* Calls. *)

(* What load has checked before a run is completed. *)
Planned(s, call) ==
    LET run == call.command.run
        input == Read(s, "planning_snapshot", run).input
    IN /\ Live(s, "planning_snapshot", run)
       /\ validatePlanningBatch(input, Plan(input))
       /\ DOMAIN call.record = RunFields
       /\ call.record.status = "completed"
       /\ call.record.proposals = Cardinality(Proposed(Plan(input)))
       /\ call.record.unmatched = Cardinality(Plan(input).unmatched)

CallOK(s, w, call) ==
    /\ DOMAIN call = DOMAIN NoCall
    /\ call.pc # "idle" => call.command \in Sent(w)
    /\ call.pc \in {"expireCommit", "commit", "invalidateCommit", "completeCommit"} =>
         Pending(s, call.changes)
    /\ call.pc = "commit" => call.command.kind # "reservation.list"
    /\ call.pc \in {"invalidate", "invalidateCommit"} =>
         call.command.kind = "reservation.confirm"
    /\ call.pc \in {"load", "complete", "completeCommit"} =>
         call.command.kind = "planning_run.execute"
    /\ call.pc \in {"complete", "completeCommit"} => Planned(s, call)

IInv ==
    /\ workload \in Workloads
    /\ Sound(store)
    /\ DOMAIN calls = Calls
    /\ \A c \in Calls : CallOK(store, workload, calls[c])

=============================================================================
