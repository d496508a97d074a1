--------------------------- MODULE MCCoordinator ----------------------------
(* A small instance of Coordinator for TLC: two identifiers that may be     *)
(* parties or demand, matches and backfills that compete for them.         *)
EXTENDS Coordinator, TLC

CONSTANTS s1, s2, o1, o2

(* A party of one, and its replacement by a party of all. *)
Parties ==
    {[revision |-> 1, players |-> {p}] : p \in PlayerIds}
      \cup {[revision |-> 2, players |-> PlayerIds]}

(* Backfill demand of a first session whose replacement moves the roster,   *)
(* and a replacement that moves the demand to the second session.          *)
Vacancies ==
    {[revision |-> 1, session |-> s1, rosterVersion |-> 1],
     [revision |-> 2, session |-> s1, rosterVersion |-> 2],
     [revision |-> 2, session |-> s2, rosterVersion |-> 1]}

(* The match of all the tickets, and of one that was replaced. *)
NewMatches ==
    {[tickets |-> [t \in TicketIds |-> 1], backfill |-> NoTarget]}
      \cup {[tickets |-> [t \in TicketIds |-> IF t = u THEN 2 ELSE 0],
             backfill |-> NoTarget] : u \in TicketIds}

(* For each vacancy of the first session, the other ticket. *)
Backfills ==
    {[tickets |-> [t \in TicketIds |-> IF t = target THEN 0 ELSE 1],
      backfill |-> [ticket |-> target, revision |-> v.revision,
                    session |-> v.session, rosterVersion |-> v.rosterVersion]] :
       target \in TicketIds, v \in {v \in Vacancies : v.session = s1}}

MCProposals == NewMatches \cup Backfills

(* Completions of either roster under one identifier, and a failure. *)
MCAcknowledgments ==
    {[NoAcknowledgment EXCEPT
        !.operation = o1, !.outcome = "completed", !.session = s1,
        !.expected = e, !.resulting = 2] : e \in 1..2}
      \cup {[NoAcknowledgment EXCEPT
               !.operation = o2, !.outcome = "failed", !.reason = TRUE,
               !.failureCode = "ReservationConflict"]}

Symmetry == Permutations(TicketIds) \cup Permutations(PlayerIds)
              \cup Permutations(ReservationIds) \cup Permutations(AssignmentIds)

=============================================================================
