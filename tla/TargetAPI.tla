----------------------------- MODULE TargetAPI -----------------------------
(***************************************************************************)
(* The answers of the target API.  A tenant's scope is kept as far as a    *)
(* page shows it: the repository version, the storage version of every     *)
(* live match ticket and the planning runs with their proposals.  A client *)
(* lists a collection a page at a time and goes on from the cursor of the  *)
(* page before, while other requests commit.                               *)
(*                                                                         *)
(* Match tickets stand for every collection fenced by the repository       *)
(* version (backfill tickets, policies, reservations and assignments are   *)
(* listed by the same code); proposals stand for the two collections of a  *)
(* completed run.  What a mutation checks is modelled in Service; here it  *)
(* is a commit that moves the version on.  Identifiers are positive        *)
(* numbers in the order of the strings.                                    *)
(***************************************************************************)
EXTENDS Integers, Sequences, SequencesExt

CONSTANTS Tenants, Ids, Runs, NoCursor

ASSUME TargetAPIAssumption == Ids \subseteq Nat \ {0}

EmptyScope ==
    [version |-> 0,
     tickets |-> [id \in Ids |-> 0],
     runs |-> [r \in Runs |-> [status |-> "absent", version |-> 0, proposals |-> {}]]]

-----------------------------------------------------------------------------
(* Cursors.  A token is authenticated together with the listing it was     *)
(* made for, so that decoding it for another one fails.                    *)

Tickets(t) == [tenant |-> t, kind |-> "match_ticket", filter |-> "active"]

Proposals(t, r) == [tenant |-> t, kind |-> "proposal", filter |-> r]

Bindings == {Tickets(t) : t \in Tenants} \cup {Proposals(t, r) : t \in Tenants, r \in Runs}

encode(binding, version, after) ==
    [binding |-> binding, version |-> version, after |-> after]

(* Mutant: the tenant is not part of what is authenticated. *)
decode_tenant(cursor, binding) ==
    cursor = NoCursor \/ [cursor.binding EXCEPT !.tenant = binding.tenant] = binding

decode(cursor, binding) == cursor = NoCursor \/ cursor.binding = binding

-----------------------------------------------------------------------------
(* Reads. *)

Listed(scope, binding) == binding.kind = "match_ticket" \/ scope.runs[binding.filter].status = "completed"

(* Snapshot and Proposals: the live records in the order of their IDs. *)
Records(scope, binding) ==
    LET run == scope.runs[binding.filter]
        ids == IF binding.kind = "match_ticket"
               THEN {id \in Ids : scope.tickets[id] # 0}
               ELSE run.proposals
        record(id) == [id |-> id,
                       version |-> IF binding.kind = "match_ticket" THEN scope.tickets[id]
                                                                   ELSE run.version]
        sorted == SetToSortSeq(ids, <)
    IN  [i \in 1..Len(sorted) |-> record(sorted[i])]

(* Mutant: the pages of a run's result are fenced by the repository        *)
(* version.                                                                *)
Fence_repository(scope, binding) == scope.version

Fence(scope, binding) ==
    IF binding.kind = "match_ticket" THEN scope.version ELSE scope.runs[binding.filter].version

Failure(code) == [code |-> code, items |-> <<>>, next |-> NoCursor]

(* listMatchTickets and listPlanningRunProposals, from the snapshot on. *)
list(scope, binding, limit, cursor) ==
    LET after == IF cursor = NoCursor THEN 0 ELSE cursor.after
        rest == SelectSeq(Records(scope, binding), LAMBDA record : record.id > after)
        items == SubSeq(rest, 1, IF limit < Len(rest) THEN limit ELSE Len(rest))
    IN  IF ~Listed(scope, binding)
        THEN Failure(IF scope.runs[binding.filter].status = "absent" THEN "NotFound" ELSE "InvalidTransition")
        ELSE IF cursor # NoCursor /\ cursor.version # Fence(scope, binding)
        THEN Failure(IF binding.kind = "match_ticket" THEN "StaleSnapshot" ELSE "InvalidInput")
        ELSE [code |-> "OK",
              items |-> items,
              next |-> IF Len(rest) > limit
                       THEN encode(binding, Fence(scope, binding), Last(items).id)
                       ELSE NoCursor]

-----------------------------------------------------------------------------
(* Commits. *)

put(scope, id) ==
    LET version == scope.version + 1
    IN  [scope EXCEPT !.version = version, !.tickets[id] = version]

delete(scope, id) == [scope EXCEPT !.version = @ + 1, !.tickets[id] = 0]

(* PlanningRuns.Execute commits twice: the capture of the run, then its    *)
(* result, over tickets that may have changed in between.  The planner's   *)
(* choice is any set of proposals; a completed run is only replayed.       *)
execute(scope, r) ==
    LET version == scope.version + 1
    IN  CASE scope.runs[r].status = "absent" ->
               {[scope EXCEPT !.version = version, !.runs[r].status = "captured"]}
          [] scope.runs[r].status = "captured" ->
               {[scope EXCEPT !.version = version,
                              !.runs[r] = [status |-> "completed", version |-> version, proposals |-> p]] :
                    p \in SUBSET Ids}
          [] OTHER -> {scope}
=============================================================================
