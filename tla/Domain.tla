------------------------------- MODULE Domain -------------------------------
(***************************************************************************)
(* The entities of internal/domain and their validation rules.             *)
(*                                                                         *)
(* Identifiers are elements of constant sets.  NoID is the empty string,   *)
(* Go's zero value of every identifier type, which validation rejects.  A  *)
(* Go map is a total function that reads as the zero value where the map   *)
(* has no entry, exactly as an index expression does in Go; the zero value *)
(* never validates, so "revision # 0" and "status # absent" are the        *)
(* "exists" results of the code's two-valued map reads.                    *)
(*                                                                         *)
(* What the coordinator and the repositories compare is kept: identities,  *)
(* revisions, roster versions, sessions and the players of a party.        *)
(* Skills, roles, latencies, team layout and evidence only matter to the   *)
(* planner and are left out here.                                          *)
(***************************************************************************)
EXTENDS Naturals

CONSTANTS
    TicketIds,        \* domain.TicketID, match and backfill tickets alike
    PlayerIds,        \* domain.PlayerID
    SessionIds,       \* domain.SessionID
    ReservationIds,   \* domain.ReservationID
    AssignmentIds,    \* domain.AssignmentID
    OperationIds,     \* domain.OperationID of acknowledgments
    NoID              \* the empty identifier

ASSUME NoIDAssumption ==
    NoID \notin TicketIds \cup PlayerIds \cup SessionIds \cup ReservationIds
                  \cup AssignmentIds \cup OperationIds

(* domain.FailureCode; "none" is a nil error. *)
FailureCodes == {"InvalidInput", "InvalidRevision", "StaleSnapshot",
                 "ReservationConflict", "ReservationExpired",
                 "InvalidTransition", "IdempotencyConflict", "PolicyConflict"}

-----------------------------------------------------------------------------
(* Tickets.  The identifier is the key a ticket is stored under. *)

MatchTicket == [revision : Nat, players : SUBSET PlayerIds]

NoMatchTicket == [revision |-> 0, players |-> {}]

ValidateMatchTicket(ticket) ==
    ticket.revision # 0 /\ ticket.players # {}

BackfillTicket ==
    [revision : Nat, session : SessionIds \cup {NoID}, rosterVersion : Nat]

NoBackfillTicket == [revision |-> 0, session |-> NoID, rosterVersion |-> 0]

ValidateBackfillTicket(ticket) ==
    /\ ticket.revision # 0
    /\ ticket.session # NoID
    /\ ticket.rosterVersion # 0

-----------------------------------------------------------------------------
(* Proposals.  tickets[t] is the revision at which the proposal refers to  *)
(* ticket t, and 0 for a ticket it does not place.                         *)

BackfillTarget ==
    [ticket : TicketIds \cup {NoID}, revision : Nat,
     session : SessionIds \cup {NoID}, rosterVersion : Nat]

NoTarget ==
    [ticket |-> NoID, revision |-> 0, session |-> NoID, rosterVersion |-> 0]

MatchProposal == [tickets : [TicketIds -> Nat], backfill : BackfillTarget]

NoProposal == [tickets |-> [t \in TicketIds |-> 0], backfill |-> NoTarget]

(* The match tickets a proposal places. *)
Supply(proposal) == {t \in TicketIds : proposal.tickets[t] # 0}

IsBackfill(proposal) == proposal.backfill.ticket # NoID

ValidateProposal(proposal) ==
    /\ Supply(proposal) # {}
    /\ IsBackfill(proposal) =>
         /\ proposal.backfill.revision # 0
         /\ proposal.backfill.session # NoID
         /\ proposal.backfill.rosterVersion # 0
         /\ proposal.backfill.ticket \notin Supply(proposal)

-----------------------------------------------------------------------------
(* Acknowledgments of assignments. *)

Outcomes == {"completed", "cancelled", "failed"}

AcknowledgmentRequest ==
    [operation : OperationIds \cup {NoID}, outcome : Outcomes \cup {"pending"},
     session : SessionIds \cup {NoID}, expected : Nat, resulting : Nat,
     failureCode : FailureCodes \cup {"none"}, reason : BOOLEAN]

NoAcknowledgment ==
    [operation |-> NoID, outcome |-> "pending", session |-> NoID,
     expected |-> 0, resulting |-> 0, failureCode |-> "none", reason |-> FALSE]

hasAcknowledgedRosterDetail(request) ==
    request.session # NoID \/ request.expected # 0 \/ request.resulting # 0

(* Mutant: the roster need not have advanced. *)
validateAcknowledgedBackfillVersions_same(proposal, request) ==
    IF \/ ~IsBackfill(proposal)
       \/ request.session # proposal.backfill.session
       \/ request.expected # proposal.backfill.rosterVersion
    THEN "StaleSnapshot"
    ELSE IF request.resulting < request.expected THEN "InvalidInput" ELSE "none"

(* The failure of validateAcknowledgedBackfillVersions, "none" if it passes. *)
validateAcknowledgedBackfillVersions(proposal, request) ==
    IF \/ ~IsBackfill(proposal)
       \/ request.session # proposal.backfill.session
       \/ request.expected # proposal.backfill.rosterVersion
    THEN "StaleSnapshot"
    ELSE IF request.resulting <= request.expected THEN "InvalidInput" ELSE "none"

(* proposal is the placement the assignment delivered: its kind and target. *)
ValidateAssignmentAcknowledgment(proposal, request) ==
    LET detail == hasAcknowledgedRosterDetail(request)
        versions == validateAcknowledgedBackfillVersions(proposal, request)
        requireIf(ok) == IF ok THEN "none" ELSE "InvalidInput"
    IN IF request.operation = NoID THEN "InvalidInput"
       ELSE CASE request.outcome = "completed" ->
              IF request.failureCode # "none" \/ request.reason
              THEN "InvalidInput"
              ELSE IF IsBackfill(proposal) THEN versions ELSE requireIf(~detail)
         [] request.outcome = "cancelled" ->
              requireIf(/\ request.reason
                        /\ request.failureCode = "none"
                        /\ ~detail)
         [] request.outcome = "failed" ->
              IF request.failureCode = "none" \/ ~request.reason
              THEN "InvalidInput"
              ELSE IF IsBackfill(proposal) /\ request.failureCode = "StaleSnapshot"
                   THEN versions ELSE requireIf(~detail)
         [] OTHER -> "InvalidInput"

=============================================================================
