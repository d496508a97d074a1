----------------------------- MODULE Resources ------------------------------
(***************************************************************************)
(* The tenant-scoped resources of internal/service: what is stored under   *)
(* which key, and how a service reads a snapshot and writes mutations.     *)
(* The contents of a scope and its transactions are those of Store.        *)
(*                                                                         *)
(* A handler is a function of the snapshot that it reads and of the        *)
(* command; its outcome is a failure code or the mutations it asks to      *)
(* commit, each with the version it expects.                               *)
(***************************************************************************)
EXTENDS Domain

CONSTANTS
    ProposalIds,       \* domain.ProposalID
    RunIds,            \* planning run identifiers
    PolicyVersions,    \* version names of policies
    Fingerprints,      \* domain.PolicyFingerprint, one per policy content
    Rosters,           \* contents of backfill rosters
    Commands,          \* what clients ask for
    EarlierCommands,   \* what was done before
    ImportIds,         \* identifiers of imports of v0 journals
    Journals,          \* v0 journals, by their digest
    MaxBatches,        \* bound: the batches of an import
    NoPayload,
    NoDigest

-----------------------------------------------------------------------------
(* Payloads.  An identifier that is part of the key is left out. *)

StoredMatch == [revision : Nat, players : SUBSET PlayerIds, enqueuedAt : Nat]

StoredBackfill ==
    [revision : Nat, session : SessionIds, rosterVersion : Nat,
     roster : Rosters, enqueuedAt : Nat]

IdentityClaim == [kind : {"match_ticket", "backfill_ticket"}]

SessionClaim == [ticket : TicketIds]

ReservationClaim == [reservation : ReservationIds, revision : Nat]

ProposalRecord == [run : RunIds, demand : MatchProposal]

ReservationStatuses == {"active", "confirmed", "cancelled", "expired"}

Reservation ==
    [status : ReservationStatuses, proposal : ProposalIds,
     demand : MatchProposal, expiresAt : Nat]

Assignment ==
    [status : Outcomes \cup {"pending"}, reservation : ReservationIds,
     proposal : ProposalIds, demand : MatchProposal, confirmedAt : Nat,
     acknowledgment : AcknowledgmentRequest, acknowledgedAt : Nat]

Acknowledgment == [acknowledgment : AcknowledgmentRequest, acknowledgedAt : Nat]

(* The answer a command got. *)
OperationResult == [record : Reservation \cup Assignment]

Policy == [fingerprint : Fingerprints]

(* The demand that a planning run captured, by ticket. *)
PlanningInput ==
    [run : RunIds, policy : PolicyVersions, fingerprint : Fingerprints, now : Nat,
     matches : [TicketIds -> StoredMatch \cup {NoPayload}],
     backfills : [TicketIds -> StoredBackfill \cup {NoPayload}]]

PlanningSnapshot == [version : Nat, input : PlanningInput]

PlanningRun ==
    [status : {"planning", "completed"}, policy : PolicyVersions,
     fingerprint : Fingerprints, version : Nat, capturedAt : Nat,
     completedAt : Nat, proposals : Nat, unmatched : Nat]

(* domain.ProposalBatch: NoProposal under the identifiers it does not use. *)
ProposalBatch ==
    [proposals : [ProposalIds -> MatchProposal], unmatched : SUBSET TicketIds]

Unmatched == [unmatched : Nat]

(* LegacyImportStatus: the marker of an import. *)
LegacyImportStatus ==
    [state : {"importing", "completed"}, source : Journals, startedAt : Nat,
     completedAt : Nat, resources : Nat]

Payloads ==
    StoredMatch \cup StoredBackfill \cup IdentityClaim \cup SessionClaim
      \cup ReservationClaim \cup ProposalRecord \cup Reservation
      \cup Assignment \cup Acknowledgment \cup OperationResult \cup Policy
      \cup PlanningSnapshot \cup PlanningRun \cup Unmatched \cup LegacyImportStatus

-----------------------------------------------------------------------------
(* Keys, operations and the store. *)

Keys ==
    ({"match_ticket", "backfill_ticket", "demand_identity",
      "demand_reservation_claim"} \X TicketIds)
    \cup ({"backfill_session_claim"} \X SessionIds)
    \cup ({"proposal"} \X ProposalIds)
    \cup ({"reservation"} \X ReservationIds)
    \cup ({"assignment", "assignment_acknowledgment"} \X AssignmentIds)
    \cup ({"operation_result"} \X OperationIds)
    \cup ({"policy"} \X PolicyVersions)
    \cup ({"planning_run", "planning_snapshot"} \X RunIds)
    \cup ({"planning_unmatched"} \X (RunIds \X TicketIds))
    \cup ({"legacy_import"} \X ImportIds)

(* Operations the services start themselves, in a namespace of their own. *)
InternalOperations ==
    ({"/reservation.expire/", "/reservation.invalidate-stale/"} \X ReservationIds)
    \cup ({"/planning.complete/"} \X RunIds)
    \cup ({"/legacy.import/start", "/legacy.import/complete"} \X ImportIds)
    \cup ({"/legacy.import/batch"} \X (ImportIds \X (0..(MaxBatches - 1))))

CommandIds == OperationIds \cup InternalOperations

(* A digest stands for the canonical command, which has no clock reading;  *)
(* that of a completion covers the results.                                *)
Digests ==
    Commands \cup EarlierCommands
    \cup [kind : {"reservation.expire"}, reservation : ReservationIds, expiresAt : Nat]
    \cup [kind : {"reservation.invalidate_stale"}, reservation : ReservationIds,
          proposal : ProposalIds]
    \cup [kind : {"planning_run.complete"}, run : PlanningRun, batch : ProposalBatch]
    \cup [kind : {"legacy_import.start"}, import : ImportIds, source : Journals]
    \cup [kind : {"legacy_import.batch"}, import : ImportIds, source : Journals,
          version : Nat, batch : Nat]
    \cup [kind : {"legacy_import.complete"}, import : ImportIds, source : Journals]

Versions == Nat

INSTANCE Store

-----------------------------------------------------------------------------
(* Reading a snapshot. *)

Get(s, kind, id) == s.resources[<<kind, id>>]

Exists(s, kind, id) == Get(s, kind, id).version # 0

Live(s, kind, id) == Exists(s, kind, id) /\ ~Get(s, kind, id).deleted

Read(s, kind, id) == Get(s, kind, id).payload

VersionOf(s, kind, id) == Get(s, kind, id).version

(* Writing mutations. *)

put(kind, id, expected, payload) ==
    [key |-> <<kind, id>>, change |-> "put", expected |-> expected,
     payload |-> payload]

delete(kind, id, expected) ==
    [key |-> <<kind, id>>, change |-> "delete", expected |-> expected,
     payload |-> NoPayload]

(* A slice of mutations as the function a transaction takes. *)
Normalized(changes) ==
    [k \in Keys |->
       IF \E m \in changes : m.key = k
       THEN LET m == CHOOSE m \in changes : m.key = k
            IN [change |-> m.change, expected |-> m.expected, payload |-> m.payload]
       ELSE NoMutation]

-----------------------------------------------------------------------------
(* What a handler decided; record is what a successful call answers. *)

Refuse(code) == [failure |-> code, changes |-> {}, record |-> NoPayload]

Accept(changes, record) ==
    [failure |-> "none", changes |-> changes, record |-> record]

=============================================================================
