-------------------------------- MODULE Batch --------------------------------
(***************************************************************************)
(* batch.go: the disjoint set of candidates that becomes the proposal      *)
(* batch.                                                                  *)
(*                                                                         *)
(* A selection under construction is a sequence of positions in the        *)
(* ordered candidates.  The search carries [best, bestScore, nodes,        *)
(* truncated].                                                             *)
(***************************************************************************)
EXTENDS Candidates

IsBackfill(candidate) == candidate.kind = "backfill"

(* compareCandidateQuality. *)
QualityBefore(left, right) ==
    LET order == Compare(left.evaluation, right.evaluation)
    IN  \/ order < 0
        \/ order = 0 /\ CompareLex(left.key, right.key) < 0

(* rankCandidateUtilities: a candidate's rank among the distinct qualities, *)
(* above an admission utility that makes one proposal more outweigh any    *)
(* difference of rank.                                                     *)
rankCandidateUtilities(candidates, maxProposals) ==
    LET sorted == SortSeq(candidates, QualityBefore)
        admission == maxProposals * Len(sorted) + 1
        group(i) == Min({j \in 1 .. i :
                           \A k \in j + 1 .. i :
                             Compare(sorted[k - 1].evaluation,
                                     sorted[k].evaluation) = 0})
    IN  [i \in DOMAIN sorted |->
           [sorted[i] EXCEPT
              !.utility = admission + Len(sorted) - (group(i) - 1)]]

OldestDemand(candidate) == Max({0} \cup {d.wait : d \in candidate.demands})

(* The search order: vacancies, then the oldest and the most priority      *)
(* demand, then utility.                                                   *)
SearchBefore(left, right) ==
    LET rank(c) == <<IF IsBackfill(c) THEN 0 ELSE 1, -OldestDemand(c),
                     -Cardinality(c.demands), -c.effective>> \o c.key
    IN  CompareLex(rank(left), rank(right)) < 0

(* A vacancy's bonus outweighs every selection without it. *)
orderCandidates(candidates, maxProposals) ==
    LET bonus == maxProposals * Max({0} \cup {candidates[i].utility :
                                               i \in DOMAIN candidates}) + 1
        effective(c) == c.utility + (IF IsBackfill(c) THEN bonus ELSE 0)
    IN  SortSeq([i \in DOMAIN candidates |->
                   [candidates[i] EXCEPT !.effective = effective(candidates[i])]],
                SearchBefore)

(* Mutant: a vacancy may be filled twice. *)
candidateAvailable_vacancy(ordered, index, selected) ==
    \A i \in DOMAIN selected :
        TicketIdsOf(ordered[selected[i]].placement)
          \cap TicketIdsOf(ordered[index].placement) = {}

candidateAvailable(ordered, index, selected) ==
    \A i \in DOMAIN selected :
        LET used == ordered[selected[i]] IN
        /\ TicketIdsOf(used.placement)
             \cap TicketIdsOf(ordered[index].placement) = {}
        /\ ordered[index].backfill # <<>> => used.backfill # ordered[index].backfill

selectedBackfillCount(ordered, selected) ==
    Cardinality({i \in DOMAIN selected : IsBackfill(ordered[selected[i]])})

(* selectedPriorityQuality: the oldest priority demand served, and how     *)
(* many are.                                                               *)
selectedOldest(ordered, selected) ==
    Max({0} \cup {OldestDemand(ordered[selected[i]]) : i \in DOMAIN selected})

selectedDemands(ordered, selected) ==
    SumOver(LAMBDA i : Cardinality(ordered[i].demands), selected)

-----------------------------------------------------------------------------
(* Quality of a batch.  Means are integer divisions, as in the code.       *)

selectedBatchQuality(ordered, selected) ==
    LET evidence(i) == ordered[i].evaluation
        tickets == SumOver(LAMBDA i : Len(PlacedTickets(ordered[i].placement)),
                           selected)
        mean(total, n) == IF n = 0 THEN 0 ELSE total \div n
        n == Len(selected)
    IN  [backfills |-> selectedBackfillCount(ordered, selected),
         proposals |-> n,
         players |-> SumOver(LAMBDA i :
                       Len(TeamPlayers(PlacedTickets(ordered[i].placement))),
                       selected),
         oldestWait |-> MaxOver(LAMBDA i : evidence(i).oldestWait, selected),
         meanWait |-> mean(SumOver(LAMBDA i : evidence(i).totalWait, selected),
                           tickets),
         maxRole |-> MaxOver(LAMBDA i : evidence(i).rolePenalty, selected),
         meanRole |-> mean(1000 * SumOver(LAMBDA i : evidence(i).rolePenalty,
                                          selected), n),
         maxGap |-> MaxOver(LAMBDA i : evidence(i).skillGap, selected),
         meanGap |-> mean(1000 * SumOver(LAMBDA i : evidence(i).skillGap,
                                         selected), n),
         latency |-> MaxOver(LAMBDA i : evidence(i).latency, selected)]

(* The dimensions that are maximised, as costs beside the minimised ones. *)
QualityCosts(q) ==
    <<-q.oldestWait, -q.meanWait, q.maxRole, q.meanRole, q.maxGap, q.meanGap,
      q.latency>>

(* No dimension worse and one better. *)
CostsDominate(left, right) ==
    /\ \A d \in DOMAIN left : left[d] <= right[d]
    /\ left # right

batchQualityDominates(left, right) ==
    CostsDominate(QualityCosts(left), QualityCosts(right))

(* selectionKey: the sorted candidate keys. *)
selectionKey(ordered, selected) ==
    SortSet({ordered[selected[i]].key : i \in DOMAIN selected},
            LAMBDA a, b : CompareLex(a, b) < 0)

SelectionKeyBefore(left, right) ==
    LET differ == {i \in DOMAIN left : left[i] # right[i]}
    IN  /\ differ # {}
        /\ CompareLex(left[Min(differ)], right[Min(differ)]) < 0

(* What is compared first: the vacancies and the priority demand, and on   *)
(* the expanded path the coverage too.                                     *)
selectionTier(ordered, selected, quality, preferPareto) ==
    <<-selectedBackfillCount(ordered, selected), -selectedOldest(ordered, selected),
      -selectedDemands(ordered, selected)>>
    \o (IF preferPareto THEN <<-quality.proposals, -quality.players>> ELSE <<>>)

(* -1, 0 or 1 as left dominates, neither, or right does. *)
CompareQuality(left, right) ==
    IF batchQualityDominates(left, right) THEN -1
    ELSE IF batchQualityDominates(right, left) THEN 1 ELSE 0

BetterThan(ordered, left, leftScore, leftQuality, right, rightScore, rightQuality, preferPareto) ==
    LET order == CompareLex(
          selectionTier(ordered, left, leftQuality, preferPareto)
            \o <<IF preferPareto THEN CompareQuality(leftQuality, rightQuality) ELSE 0,
                 -leftScore, -Len(left)>>,
          selectionTier(ordered, right, rightQuality, preferPareto)
            \o <<0, -rightScore, -Len(right)>>)
    IN  \/ order < 0
        \/ /\ order = 0
           /\ SelectionKeyBefore(selectionKey(ordered, left), selectionKey(ordered, right))

(* betterSelection. *)
betterSelection(ordered, left, leftScore, right, rightScore, preferPareto) ==
    BetterThan(ordered, left, leftScore, selectedBatchQuality(ordered, left),
               right, rightScore, selectedBatchQuality(ordered, right), preferPareto)

(* The incumbent both searches start from. *)
greedySelection(ordered, maxProposals) ==
    Loop(LAMBDA selected, i :
           IF /\ Len(selected) < maxProposals
              /\ ordered[i].utility > 0
              /\ candidateAvailable(ordered, i, selected)
           THEN Append(selected, i) ELSE selected,
         <<>>, [i \in DOMAIN ordered |-> i])

ScoreOf(ordered, selected) ==
    SumOver(LAMBDA i : ordered[i].effective, selected)

Improve(ordered, selected, preferPareto, search) ==
    LET score == ScoreOf(ordered, selected)
    IN  IF betterSelection(ordered, selected, score, search.best,
                           search.bestScore, preferPareto)
        THEN [search EXCEPT !.best = selected, !.bestScore = score]
        ELSE search

-----------------------------------------------------------------------------

(* Mutant: one proposal too few in the bound. *)
selectionUpperBound_short(ordered, index, slots, score) ==
    score + ScoreOf(ordered,
                    [i \in 1 .. Min({slots - 1, Len(ordered) + 1 - index}) |->
                       index + i - 1])

(* The most the next slots could add: the candidates are in descending     *)
(* effective utility when no demand has priority.                          *)
selectionUpperBound(ordered, index, slots, score) ==
    score + ScoreOf(ordered,
                    [i \in 1 .. Min({slots, Len(ordered) + 1 - index}) |->
                       index + i - 1])

(* A branch that cannot beat the incumbent.  With priority demand the      *)
(* bound is on vacancies and on the oldest demand, otherwise on the score. *)
Pruned(ordered, index, selected, maxProposals, search) ==
    LET slots == maxProposals - Len(selected)
        rest == index .. Len(ordered)
        possible == selectedBackfillCount(ordered, selected)
                      + Min({slots, Cardinality({i \in rest :
                                                   IsBackfill(ordered[i])})})
        reached == selectedBackfillCount(ordered, search.best)
        oldest == Max({selectedOldest(ordered, selected)}
                        \cup {OldestDemand(ordered[i]) : i \in rest})
    IN  IF \E i \in DOMAIN ordered : ordered[i].demands # {}
        THEN \/ possible < reached
             \/ /\ possible = reached
                /\ oldest < selectedOldest(ordered, search.best)
        ELSE selectionUpperBound(ordered, index, slots,
                                 ScoreOf(ordered, selected)) < search.bestScore

(* The bounded path: branch and bound, the candidate taken first. *)
RECURSIVE BranchAndBound(_, _, _, _, _, _)
BranchAndBound(ordered, index, selected, maxProposals, maxNodes, entered) ==
    LET search == [entered EXCEPT !.nodes = @ + 1]
        taken == IF ordered[index].utility > 0
                    /\ candidateAvailable(ordered, index, selected)
                 THEN BranchAndBound(ordered, index + 1,
                                     Append(selected, index), maxProposals,
                                     maxNodes, search)
                 ELSE search
    IN  IF entered.nodes >= maxNodes
        THEN [entered EXCEPT !.truncated = TRUE]
        ELSE IF index > Len(ordered) \/ Len(selected) = maxProposals
        THEN Improve(ordered, selected, FALSE, search)
        ELSE IF Pruned(ordered, index, selected, maxProposals, search)
        THEN search
        ELSE BranchAndBound(ordered, index + 1, selected, maxProposals,
                            maxNodes, taken)

(* The expanded path: paretoSelection visits every feasible subset. *)
RECURSIVE ParetoSearch(_, _, _, _, _, _)
ParetoExtend(ordered, start, selected, maxProposals, maxNodes, visited) ==
    LET extend(search, i) ==
            IF search.truncated \/ ordered[i].utility <= 0
               \/ ~candidateAvailable(ordered, i, selected)
            THEN search
            ELSE ParetoSearch(ordered, i + 1, Append(selected, i),
                              maxProposals, maxNodes, search)
    IN  IF visited.truncated \/ Len(selected) = maxProposals THEN visited
        ELSE Loop(extend, visited,
                  [i \in 1 .. Len(ordered) + 1 - start |-> start + i - 1])

ParetoSearch(ordered, start, selected, maxProposals, maxNodes, entered) ==
    IF entered.nodes >= maxNodes
    THEN [entered EXCEPT !.truncated = TRUE]
    ELSE ParetoExtend(ordered, start, selected, maxProposals, maxNodes,
                      Improve(ordered, selected, TRUE, [entered EXCEPT !.nodes = @ + 1]))

(* The order in which proposals are numbered: vacancies, then quality. *)
NumberedBefore(left, right) ==
    IF IsBackfill(left) # IsBackfill(right) THEN IsBackfill(left)
    ELSE QualityBefore(left, right)

Selected(ordered, search) ==
    [candidates |-> SortSeq([i \in DOMAIN search.best |-> ordered[search.best[i]]],
                            NumberedBefore),
     nodes |-> search.nodes, truncated |-> search.truncated]

searchFromGreedy(ordered, maxProposals, maxNodes, preferPareto, greedy) ==
    LET start == [best |-> greedy, bestScore |-> ScoreOf(ordered, greedy),
                  nodes |-> 0, truncated |-> FALSE]
    IN  IF preferPareto
        THEN ParetoSearch(ordered, 1, <<>>, maxProposals, maxNodes, start)
        ELSE BranchAndBound(ordered, 1, <<>>, maxProposals, maxNodes, start)

selectOrdered(ordered, maxProposals, maxNodes, preferPareto) ==
    Selected(ordered, searchFromGreedy(ordered, maxProposals, maxNodes, preferPareto,
                                       greedySelection(ordered, maxProposals)))

(* selectProposalBatch.  The result is [candidates, nodes, truncated]. *)
selectProposalBatch(candidates, maxProposals, maxNodes, preferPareto) ==
    IF maxProposals <= 0 \/ candidates = <<>>
    THEN [candidates |-> <<>>, nodes |-> 0, truncated |-> FALSE]
    ELSE selectOrdered(orderCandidates(candidates, maxProposals), maxProposals,
                       maxNodes, preferPareto)
=============================================================================
