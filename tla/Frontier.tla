------------------------------- MODULE Frontier -------------------------------
(***************************************************************************)
(* internal/evaluation: the exhaustive references the planner is measured  *)
(* against.  oracle.go finds the best single new match, frontier.go every  *)
(* batch that no other batch dominates.                                    *)
(***************************************************************************)
EXTENDS Batch

MaxOracleTickets == 12
MaxOracleTeams == 2
MaxBatchFrontierTickets == 12
MaxBatchFrontierBackfills == 2
MaxBatchFrontierTeams == 2

(* enumerateExactPlacements: every way to fill the slots exactly with      *)
(* whole parties; 0 stands for "not placed".                               *)
ExactPlacements(tickets, slots) ==
    LET members(f, team) == SelectSeq([i \in DOMAIN tickets |-> i],
                                      LAMBDA i : f[i] = team)
        team(f, t) == [i \in DOMAIN members(f, t) |-> tickets[members(f, t)[i]]]
        filled == {f \in [DOMAIN tickets -> 0 .. Len(slots)] :
                     \A t \in DOMAIN slots :
                       SumOver(PartySize, team(f, t)) = slots[t]}
    IN  {[t \in DOMAIN slots |-> team(f, t)] : f \in filled}

OracleEligible(snapshot) ==
    /\ snapshot.backfills = <<>>
    /\ snapshot.policy.teamCount <= MaxOracleTeams
    /\ Len(snapshot.tickets) <= MaxOracleTickets

(* ExhaustiveNewMatch: the evaluations of the admissible new matches. *)
AdmissibleMatches(snapshot, tickets) ==
    {e \in {Evaluate(snapshot.now, placement, snapshot.policy) :
              placement \in ExactPlacements(tickets,
                                            matchSlots(snapshot.policy))} :
       e.admissible}

(* CompareBatch: the first proposal against the oracle's optimum. *)
QualityRelation(snapshot, proposals) ==
    LET matches == AdmissibleMatches(snapshot, snapshot.tickets)
        first == proposals[1].evaluation
    IN  CASE proposals = <<>> /\ matches = {} -> "equivalent"
          [] proposals = <<>> /\ matches # {} -> "oracle_preferred"
          [] proposals # <<>> /\ \E m \in matches : Compare(m, first) < 0 ->
               "oracle_preferred"
          [] proposals # <<>> /\ \A m \in matches : Compare(first, m) < 0 ->
               "planner_preferred"
          [] OTHER -> "equivalent"

-----------------------------------------------------------------------------

BatchFrontierEligible(snapshot) ==
    /\ Len(snapshot.tickets) <= MaxBatchFrontierTickets
    /\ Len(snapshot.backfills) <= MaxBatchFrontierBackfills
    /\ snapshot.policy.teamCount <= MaxBatchFrontierTeams

frontierProposalLimit(policy) ==
    IF policy.maxProposals > 0 THEN policy.maxProposals
    ELSE MaxBatchFrontierTickets + MaxBatchFrontierBackfills

OneForEach(candidates) ==
    LET identity(c) == <<TicketIdsOf(c.placement), c.backfill, c.evaluation>>
    IN  {CHOOSE c \in candidates : identity(c) = i :
           i \in {identity(c) : c \in candidates}}

(* enumerateFrontierCandidates: the admissible placements of new matches   *)
(* and of each vacancy, one for each identity: tickets, vacancy, evidence. *)
FrontierCandidates(snapshot) ==
    LET candidate(kind, backfill, placement, evaluation) ==
            [kind |-> kind, backfill |-> backfill, placement |-> placement,
             evaluation |-> evaluation]
        matches ==
            {candidate("new_match", <<>>, p,
                       Evaluate(snapshot.now, p, snapshot.policy)) :
               p \in ExactPlacements(snapshot.tickets,
                                     matchSlots(snapshot.policy))}
        fills(backfill) ==
            {candidate("backfill", <<backfill.id>>, p,
                       EvaluateBackfill(snapshot.now, p, snapshot.policy,
                                        backfill)) :
               p \in ExactPlacements(snapshot.tickets, backfill.slots)}
        all == matches \cup UNION {fills(snapshot.backfills[i]) :
                                     i \in DOMAIN snapshot.backfills}
    IN  OneForEach({c \in all : c.evaluation.admissible})

Disjoint(left, right) ==
    /\ TicketIdsOf(left.placement) \cap TicketIdsOf(right.placement) = {}
    /\ left.backfill # <<>> => left.backfill # right.backfill

(* The batches of enumerateBatchFrontier: every set of at most limit       *)
(* disjoint candidates.                                                    *)
DisjointBatches(candidates, limit) ==
    LET extend(c, batches) ==
            batches \cup {batch \cup {c} :
                            batch \in {b \in batches :
                                        /\ Cardinality(b) < limit
                                        /\ \A d \in b : Disjoint(c, d)}}
    IN  FoldSet(extend, {{}}, candidates)

(* addCandidateQuality and finalizeBatchQuality: the same point as         *)
(* batch.go's selectedBatchQuality.                                        *)
BatchQuality(candidates) ==
    selectedBatchQuality(candidates, [i \in DOMAIN candidates |-> i])

(* batchQualityDominates of frontier.go: coverage counts too, and any      *)
(* batch dominates the empty one.                                          *)
FrontierDominates(left, right) ==
    LET costs(q) == <<-q.backfills, -q.proposals, -q.players>> \o QualityCosts(q)
    IN  /\ left.proposals > 0
        /\ \/ right.proposals = 0
           \/ CostsDominate(costs(left), costs(right))

(* addFrontierPoint, over all batches: the points that no other one        *)
(* dominates.                                                              *)
Undominated(points) ==
    {p \in points : ~\E q \in points : FrontierDominates(q, p)}

(* plannerBatchQuality: the proposals of a batch are refused, or evaluated *)
(* again; what they say of themselves does not count.                      *)
plannerBatchQuality(snapshot, proposals) ==
    LET vacancies == ToSet(snapshot.backfills)
        vacancy(p) == CHOOSE b \in vacancies : b.id = p.backfill[1]
        known(p) == /\ ToSet(PlacedTickets(p.placement)) \subseteq ToSet(snapshot.tickets)
                    /\ p.kind = "backfill" =>
                         \E b \in vacancies : b.id = p.backfill[1]
        slots(p) == IF p.kind = "new_match" THEN matchSlots(snapshot.policy)
                    ELSE vacancy(p).slots
        evaluation(p) ==
            IF p.kind = "new_match"
            THEN Evaluate(snapshot.now, p.placement, snapshot.policy)
            ELSE EvaluateBackfill(snapshot.now, p.placement, snapshot.policy,
                                  vacancy(p))
        valid(p) ==
            /\ known(p)
            /\ IsInjective(PlacedTickets(p.placement))
            /\ slots(p) = [t \in DOMAIN p.placement |->
                             SumOver(PartySize, p.placement[t])]
            /\ evaluation(p).admissible
        accepted ==
            /\ Len(proposals) <= frontierProposalLimit(snapshot.policy)
            /\ \A p \in ToSet(proposals) : valid(p)
            /\ \A i, j \in DOMAIN proposals :
                 i # j => Disjoint(proposals[i], proposals[j])
    IN  IF accepted
        THEN [accepted |-> TRUE,
              quality |-> BatchQuality(
                            [i \in DOMAIN proposals |->
                               [proposals[i] EXCEPT
                                  !.evaluation = evaluation(proposals[i])]])]
        ELSE [accepted |-> FALSE, quality |-> BatchQuality(<<>>)]

RelationTo(frontier, planner) ==
    IF ~planner.accepted THEN "invalid"
    ELSE IF planner.quality \in frontier THEN "frontier_equivalent"
    ELSE IF \E p \in frontier : FrontierDominates(p, planner.quality)
    THEN "frontier_dominated" ELSE "frontier_incomparable"

(* CompareBatchFrontier. *)
FrontierRelation(snapshot, proposals) ==
    RelationTo(Undominated(
                 {BatchQuality(AsSeq(batch)) :
                    batch \in DisjointBatches(FrontierCandidates(snapshot),
                                frontierProposalLimit(snapshot.policy))}),
               plannerBatchQuality(snapshot, proposals))
=============================================================================
