----------------------------- MODULE MCDurable ------------------------------
(* Small instances of Durable and of the import from it, for TLC. *)
EXTENDS ImportSource, TLC

CONSTANTS s1, t1, t2, v1, n1

(* A party of all the players, waiting as t1 or as t2. *)
Party == [revision |-> 1, players |-> PlayerIds]

Vacancy == [revision |-> 1, session |-> s1, rosterVersion |-> 1]

(* The match of one party, and the party t1 filling the vacancy t2. *)
Single(t) == [tickets |-> [u \in TicketIds |-> IF u = t THEN 1 ELSE 0],
              backfill |-> NoTarget]

Fill == [tickets |-> Single(t1).tickets,
         backfill |-> [ticket |-> t2, revision |-> Vacancy.revision,
                       session |-> s1, rosterVersion |-> Vacancy.rosterVersion]]

(* Backfill is served first. *)
MCPlanned(batch) ==
    IF t1 \notin DOMAIN batch.match THEN {}
    ELSE IF t2 \in DOMAIN batch.backfill THEN {Fill} ELSE {Single(t1)}

Completions == {[NoAcknowledgment EXCEPT !.operation = o, !.outcome = "completed",
                                        !.session = s1, !.expected = 1,
                                        !.resulting = 2] :
                  o \in OperationIds}

(* One party that comes and goes. *)
Quiet ==
    [matches |-> {[id |-> t1, ticket |-> Party]}, backfills |-> {},
     direct |-> {Single(t1)}, acknowledgments |-> {},
     policies |-> {}, fingerprints |-> {}, snapshots |-> {},
     time |-> 1, skew |-> 0, reservations |-> 2, records |-> 5, unsynced |-> 2]

(* expiry: two reservations of one party, with every fault.                *)
(* planning: policies and plans, with every fault.                         *)
(* delivery: a backfill that is acknowledged, with every fault.            *)
(* skewed: calls that read the clock before they wait for the lock.        *)
(* import, import_backfill: longer journals, written without a fault, in   *)
(* which only planned proposals are reserved.                              *)
MCOffers(w) ==
    CASE w = "expiry" -> Quiet
      [] w = "planning" ->
           [Quiet EXCEPT !.policies = {v1}, !.fingerprints = Fingerprints,
                         !.snapshots = {n1}, !.direct = {},
                         !.reservations = 1]
      [] w = "delivery" ->
           [Quiet EXCEPT !.backfills = {[id |-> t2, ticket |-> Vacancy]},
                         !.direct = {Fill}, !.acknowledgments = Completions,
                         !.time = 0, !.reservations = 1]
      [] w = "skewed" ->
           [Quiet EXCEPT !.policies = {v1}, !.fingerprints = Fingerprints,
                         !.snapshots = {n1}, !.skew = 1, !.unsynced = 0]
      [] w = "import" ->
           [Quiet EXCEPT !.policies = {v1}, !.fingerprints = Fingerprints,
                         !.snapshots = SnapshotIds, !.direct = {},
                         !.skew = 1, !.records = 6, !.unsynced = 0]
      [] w = "import_backfill" ->
           [Quiet EXCEPT !.matches = @ \cup {[id |-> t2, ticket |-> Party]},
                         !.backfills = {[id |-> t2, ticket |-> Vacancy]},
                         !.policies = {v1}, !.fingerprints = Fingerprints,
                         !.snapshots = {n1}, !.direct = {}, !.time = 0,
                         !.acknowledgments = Completions, !.reservations = 1,
                         !.records = 7, !.unsynced = 0]

Symmetry == Permutations(ReservationIds) \cup Permutations(Fingerprints)

=============================================================================
