------------------------------- MODULE Planner -------------------------------
(***************************************************************************)
(* planner.Plan as a state machine: a snapshot is planned in the stages    *)
(* the function goes through, each of which keeps its result.              *)
(*                                                                         *)
(* Evidence counters and proposal identities are left out.  The snapshots  *)
(* are the ones ValidateSnapshot accepts; a rejected one ends the call     *)
(* before any of this.                                                     *)
(***************************************************************************)
EXTENDS Frontier

CONSTANT Snapshots     \* the matchmaking snapshots to plan

VARIABLES
    snapshot,          \* domain.MatchmakingSnapshot, the argument
    stage,             \* "new", "generated", "selected" or "planned"
    generation,        \* candidateGeneration
    selection,         \* batchSelection
    batch              \* the ProposalBatch returned

vars == <<snapshot, stage, generation, selection, batch>>

ValidatePolicy(policy) ==
    /\ policy.teamCount > 0 /\ policy.teamSize > 0
    /\ policy.maxLatency > 0
    /\ \A r \in policy.roles : r.min \in 1 .. policy.teamSize
    /\ \A r, other \in policy.roles : r.role = other.role => r = other
    /\ \A limit \in {"maxProposals", "maxSearchNodes", "maxCandidateTickets",
                    "maxCandidatesPerProposal", "maxBatchCandidates",
                    "maxBatchSearchNodes"} : policy[limit] >= 0
    /\ policy.steps # <<>> => /\ policy.steps[1].after = 0
                              /\ policy.steps[1].gap >= 0
                              /\ policy.steps[1].penalty >= 0
    /\ \A i \in 2 .. Len(policy.steps) :
         /\ policy.steps[i].after > policy.steps[i - 1].after
         /\ policy.steps[i].gap >= policy.steps[i - 1].gap
         /\ policy.steps[i].penalty >= policy.steps[i - 1].penalty
         /\ policy.steps[i - 1].priority => policy.steps[i].priority

(* The players of a ticket are anonymous here: no player is in two         *)
(* tickets.                                                                *)
ValidateSnapshot(s) ==
    /\ ValidatePolicy(s.policy)
    /\ \A i \in DOMAIN s.tickets :
         /\ s.tickets[i].players # <<>>
         /\ \A j \in DOMAIN s.tickets[i].players :
              /\ s.tickets[i].players[j].skill >= 0
              /\ s.tickets[i].players[j].latency >= 0
         /\ s.tickets[i].enqueuedAt <= s.now
    /\ \A i \in DOMAIN s.backfills :
         LET ticket == s.backfills[i] IN
         /\ ticket.enqueuedAt <= s.now
         /\ Len(ticket.slots) = s.policy.teamCount
         /\ SumSlots(ticket.slots) > 0
         /\ \A t \in DOMAIN ticket.slots :
              /\ ticket.slots[t] \in 0 .. s.policy.teamSize
              /\ ticket.existing # <<>> =>
                   LET team == ticket.existing[t] IN
                   /\ team.players + ticket.slots[t] = s.policy.teamSize
                   /\ team.skill >= 0 /\ team.latency >= 0
                   /\ MapThenSumSet(LAMBDA r : team.roles[r],
                                    DOMAIN team.roles) <= team.players
    /\ LET all == s.tickets \o s.backfills
       IN  \A i, j \in DOMAIN all : all[i].id = all[j].id => i = j

Available(s) ==
    SortTickets(SelectSeq(s.tickets, LAMBDA t : TicketAllowed(t, s.policy)))

Limits(s) == PlanLimits(s.policy, Available(s), s.backfills)

GenerateFor(s, limits) ==
    generateProposalCandidates(Available(s), SortTickets(s.backfills), s, limits)

SelectFrom(candidates, limits) ==
    selectProposalBatch(rankCandidateUtilities(candidates, limits.proposals),
                        limits.proposals, limits.batchNodes, limits.expanded)

(* batchUnmatchedReason. *)
batchUnmatchedReason(s, generated, selected) ==
    CASE generated.truncated \/ selected.truncated -> "search_budget"
      [] Len(selected.candidates) >= Limits(s).proposals -> "proposal_limit"
      [] Len(generated.candidates) > Len(selected.candidates) ->
           "batch_objective"
      [] generated.sawQuality -> "quality_threshold"
      [] generated.sawHard -> "hard_constraint"
      [] OTHER -> "insufficient_capacity"

Assemble(s, generated, selected) ==
    LET placed == UNION {TicketIdsOf(selected.candidates[i].placement) :
                           i \in DOMAIN selected.candidates}
        allowed == {Available(s)[i].id : i \in DOMAIN Available(s)}
        all == {s.tickets[i].id : i \in DOMAIN s.tickets}
        reason == batchUnmatchedReason(s, generated, selected)
    IN  [exhausted |-> generated.truncated \/ selected.truncated,
         proposals |-> selected.candidates,
         unmatched |-> [id \in all \ placed |->
                          IF id \in allowed THEN reason ELSE "hard_constraint"]]

-----------------------------------------------------------------------------

Init ==
    /\ snapshot \in Snapshots
    /\ stage = "new"
    /\ generation = <<>>
    /\ selection = <<>>
    /\ batch = <<>>

Generate ==
    /\ stage = "new"
    /\ generation' = GenerateFor(snapshot, Limits(snapshot))
    /\ stage' = "generated"
    /\ UNCHANGED <<snapshot, selection, batch>>

Select ==
    /\ stage = "generated"
    /\ selection' = SelectFrom(generation.candidates, Limits(snapshot))
    /\ stage' = "selected"
    /\ UNCHANGED <<snapshot, generation, batch>>

Report ==
    /\ stage = "selected"
    /\ batch' = Assemble(snapshot, generation, selection)
    /\ stage' = "planned"
    /\ UNCHANGED <<snapshot, generation, selection>>

Next == Generate \/ Select \/ Report

Spec == Init /\ [][Next]_vars

-----------------------------------------------------------------------------

planned == stage = "planned"

Proposals == {batch.proposals[i] : i \in DOMAIN batch.proposals}

(* The evaluation harness accepts every batch and finds in it the quality  *)
(* the planner states: each proposal fills its shape exactly with whole    *)
(* parties of the snapshot and is admissible, no ticket and no vacancy is  *)
(* in two of them.  The tickets that are in none are exactly the unmatched *)
(* ones, and there are no more proposals than the policy allows            *)
(* (planner.Plan against evaluation.plannerBatchQuality).                  *)
BatchValid ==
    planned =>
      LET ids == {snapshot.tickets[i].id : i \in DOMAIN snapshot.tickets}
          again == plannerBatchQuality(snapshot, batch.proposals)
      IN  /\ again.accepted
          /\ again.quality = BatchQuality(batch.proposals)
          /\ Len(batch.proposals) <= Limits(snapshot).proposals
          /\ UNION {TicketIdsOf(p.placement) : p \in Proposals}
               = ids \ DOMAIN batch.unmatched

(* The bounded selection is optimal: when branch and bound was not cut     *)
(* short, no disjoint set of the generated candidates is better than the   *)
(* selected one, so its pruning loses nothing (selectProposalBatch).       *)
SelectionOptimal ==
    planned /\ ~Limits(snapshot).expanded /\ ~selection.truncated =>
      LET max == Limits(snapshot).proposals
          ordered == orderCandidates(
                       rankCandidateUtilities(generation.candidates, max), max)
          chosen == SelectSeq([i \in DOMAIN ordered |-> i], LAMBDA i :
                      \E p \in Proposals : p.key = ordered[i].key)
          at(i) == [placement |-> ordered[i].placement,
                    backfill |-> ordered[i].backfill, index |-> i]
          rivals == {SortSet({c.index : c \in b}, <) :
                       b \in DisjointBatches({at(i) : i \in DOMAIN ordered}, max)}
      IN  \A rival \in rivals :
            ~betterSelection(ordered, rival, ScoreOf(ordered, rival),
                             chosen, ScoreOf(ordered, chosen), FALSE)

(* The search skips a team of which it has tried one with the same free    *)
(* slots and skill.  Roles and rosters tell such teams apart, and are what *)
(* the properties below that compare with every match leave out: there the *)
(* search misses matches.                                                  *)
Uniform ==
    /\ snapshot.policy.roles = {}
    /\ \A i \in DOMAIN snapshot.backfills : snapshot.backfills[i].existing = <<>>

(* A small queue of solos is served as well as it can be: no batch of      *)
(* disjoint admissible matches dominates the selected one in coverage,     *)
(* waits, skill gaps and latency, so none of its proposals could be        *)
(* improved and no further match fits (smallQueueExpandedSearch against    *)
(* evaluation.CompareBatchFrontier).  For policies without roles and       *)
(* vacancies without rosters.                                              *)
SolosOnFrontier ==
    /\ planned /\ ~batch.exhausted
    /\ Limits(snapshot).expanded /\ Uniform
    /\ \A i \in DOMAIN snapshot.tickets : PartySize(snapshot.tickets[i]) = 1
    => FrontierRelation(snapshot, batch.proposals) = "frontier_equivalent"

(* No starvation by quality: without vacancies and roles, the oldest       *)
(* wait-priority ticket that any admissible match could hold is placed,    *)
(* whatever the skill of the matches it displaces (relaxation steps with   *)
(* PrioritizeWait, selectedPriorityQuality and objective.Compare).         *)
OldestServed ==
    planned /\ ~batch.exhausted /\ Uniform /\ snapshot.backfills = <<>> =>
      LET aged == {m \in AdmissibleMatches(snapshot, snapshot.tickets) :
                     m.waitPriority}
          served == {p.evaluation.oldestWait :
                       p \in {q \in Proposals : q.evaluation.waitPriority}}
      IN  aged # {} => /\ served # {}
                       /\ Max(served) = Max({m.oldestWait : m \in aged})

(* The plan with the same path through the search and no budget. *)
PlanOf(s, generated, limits) ==
    Assemble(s, generated, SelectFrom(generated.candidates, limits))

UnboundedLimits(limits) ==
    [limits EXCEPT
       !.nodes = Unlimited, !.batch = Unlimited, !.batchNodes = Unlimited, !.window = 0,
       !.candidates = IF @ < defaultMaxCandidatesPerProposal
                      THEN defaultMaxCandidatesPerProposal - 1 ELSE Unlimited]

UnboundedPlan ==
    LET limits == UnboundedLimits(Limits(snapshot))
    IN  PlanOf(snapshot, GenerateFor(snapshot, limits), limits)

(* A plan that does not say its budget was exhausted is the plan an        *)
(* unbounded search would have returned: no limit of the policy changes a  *)
(* batch silently (BudgetExhausted, S-scenarios on truncation evidence).   *)
TruncationHonest ==
    planned /\ ~batch.exhausted =>
      LET what(b) == <<{<<p.key, p.placement>> :
                          p \in ToSet(b.proposals)}, b.unmatched>>
      IN  what(batch) = what(UnboundedPlan)

(* When only one match can be made, it is an optimal one: the fast path    *)
(* agrees with the exhaustive oracle (findBestPlacement against            *)
(* evaluation.CompareBatch).  For policies without roles, so it is about   *)
(* the slots and the skill in the state that is not tried twice.           *)
BestMatchFound ==
    /\ planned /\ ~batch.exhausted /\ Uniform
    /\ OracleEligible(snapshot)
    /\ \/ Limits(snapshot).proposals = 1
       \/ ~canFillMultipleProposals(Available(snapshot),
                                    matchSlots(snapshot.policy))
    => QualityRelation(snapshot, batch.proposals) = "equivalent"

(* The partitioned index returns the window of the linear scan, with its   *)
(* cached thresholds and without them, also for tickets of several         *)
(* partitions that came at the same time (Index.SelectWindow against       *)
(* discovery.SelectWindow).                                                *)
WindowAgrees ==
    stage = "new" =>
      LET queue == SortTickets(snapshot.tickets)
      IN  \A cachedSizes \in {1, 16}, limit \in 0 .. Len(queue) + 1,
             size \in 0 .. snapshot.policy.teamSize :
            IndexWindow(BuildIndex(queue, cachedSizes), <<size>>, limit)
              = SelectWindow(queue, <<size>>, limit)
=============================================================================
