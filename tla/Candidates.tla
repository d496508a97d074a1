------------------------------ MODULE Candidates ------------------------------
(***************************************************************************)
(* planner.go: the placement search, and the generation of the candidates  *)
(* a batch is selected from.                                               *)
(***************************************************************************)
EXTENDS Discovery

------------------------------------------------------------------------------
(***************************************************************************)
(* planner.go's placement search: findBestPlacement enumerates the ways to *)
(* fill a shape exactly with whole parties, in queue order, and keeps the  *)
(* preferred admissible ones.                                              *)
(*                                                                         *)
(* A query is [tickets, slots, snapshot, backfill, required,               *)
(* maxCandidates, maxAlternatives]: backfill is a sequence of at most one  *)
(* backfill ticket (empty for a new match) and required the position of    *)
(* the anchor ticket (0 for none).  A search is                            *)
(*   [used, max, exhausted, exact, truncated, sawHard, sawQuality, best,   *)
(*    stop]                                                                *)
(* where used, max and exhausted are the search budget that all searches   *)
(* of a plan share, best maps each kept ticket set to its preferred        *)
(* placement, and stop is the result of the code's search function.        *)
(***************************************************************************)

SumSlots(slots) == SumOver(LAMBDA n : n, slots)

SuffixPlayers(tickets, index) ==
    SumOver(PartySize, SubSeq(tickets, index, Len(tickets)))

EvaluatePlacement(query, placement) ==
    LET now == query.snapshot.now
        policy == query.snapshot.policy
    IN  IF query.backfill = <<>>
        THEN Evaluate(now, placement, policy)
        ELSE EvaluateBackfill(now, placement, policy, query.backfill[1])

(* comparePlacement: ticket by ticket, team by team; a shorter team that   *)
(* is a prefix comes first.                                                *)
ComparePlacement(left, right) ==
    LET ids(team) == [i \in DOMAIN team |-> team[i].id]
        differ == {t \in DOMAIN left : ids(left[t]) # ids(right[t])}
    IN  IF differ = {} THEN 0
        ELSE CompareLex(ids(left[Min(differ)]), ids(right[Min(differ)]))

(* Replacing an alternative or a candidate: a better evaluation, or an     *)
(* equal one with the smaller placement.                                   *)
Preferred(new, old) ==
    LET order == Compare(new.evaluation, old.evaluation)
    IN  \/ order < 0
        \/ order = 0 /\ ComparePlacement(new.placement, old.placement) < 0

-----------------------------------------------------------------------------

(* Mutant: running out of budget stops the search and is not reported. *)
Visit_silent(search) ==
    IF search.used >= search.max
    THEN [search EXCEPT !.stop = TRUE]
    ELSE [search EXCEPT !.used = @ + 1]

(* searchBudget.visit. *)
Visit(search) ==
    IF search.used >= search.max
    THEN [search EXCEPT !.exhausted = TRUE, !.stop = TRUE]
    ELSE [search EXCEPT !.used = @ + 1]

(* Teams with room, by the skill spread they would leave and then by       *)
(* index.                                                                  *)
candidateTeams(remaining, skills, size, skill) ==
    LET open == {t \in DOMAIN remaining : size <= remaining[t]}
        with(t) == [skills EXCEPT ![t] = @ + skill]
        projected(t) == {with(t)[u] : u \in DOMAIN skills}
        spread(t) == Max(projected(t)) - Min(projected(t))
    IN  SortSet(open, LAMBDA t, u :
            \/ spread(t) < spread(u)
            \/ spread(t) = spread(u) /\ t < u)

(* Mutant: teams with the same free capacity count as the same state. *)
distinctTeams_capacity(teams, remaining, skills) ==
    LET fresh == SelectSeq([i \in DOMAIN teams |-> i],
                           LAMBDA i : \A j \in 1 .. i - 1 :
                             remaining[teams[j]] # remaining[teams[i]])
    IN  [i \in DOMAIN fresh |-> teams[fresh[i]]]

(* seenStates: of the teams with the same free capacity and the same       *)
(* incoming skill only the first is tried.                                 *)
distinctTeams(teams, remaining, skills) ==
    LET state(i) == <<remaining[teams[i]], skills[teams[i]]>>
        fresh == SelectSeq([i \in DOMAIN teams |-> i],
                           LAMBDA i : \A j \in 1 .. i - 1 :
                                        state(j) # state(i))
    IN  [i \in DOMAIN fresh |-> teams[fresh[i]]]

(* An evaluated placement is recorded when it is admissible.  With one     *)
(* alternative all placements compete; with more, those of the same ticket *)
(* set do.                                                                 *)
Record(query, search, placement, evaluation) ==
    LET found == [placement |-> placement, evaluation |-> evaluation]
        key == IF query.maxAlternatives = 1 THEN {} ELSE TicketIdsOf(placement)
        keep == /\ evaluation.admissible
                /\ \/ key \notin DOMAIN search.best
                   \/ Preferred(found, search.best[key])
    IN  [search EXCEPT
           !.exact = @ + 1,
           !.truncated = search.exact + 1 >= query.maxCandidates,
           !.stop = search.exact + 1 >= query.maxCandidates,
           !.sawHard = @ \/ evaluation.hardViolation,
           !.sawQuality = @ \/ /\ ~evaluation.hardViolation
                               /\ ~evaluation.admissible,
           !.best = IF keep THEN (key :> found) @@ @ ELSE @]

EvaluateAndRecord(query, search, placement) ==
    Record(query, search, placement, EvaluatePlacement(query, placement))

(* A complete placement; one without the anchor does not count. *)
RecordComplete(query, assigned, search) ==
    IF /\ query.required # 0
       /\ \A t \in DOMAIN assigned : ~Contains(assigned[t], query.required)
    THEN search
    ELSE EvaluateAndRecord(query, search,
           [t \in DOMAIN assigned |->
              [i \in DOMAIN assigned[t] |-> query.tickets[assigned[t][i]]]])

(* The search function: place the ticket at index in each distinct team,   *)
(* then leave it out, unless it is the anchor.                             *)
RECURSIVE SearchFrom(_, _, _, _)
RECURSIVE TryTeams(_, _, _, _, _)
TryTeams(query, index, assigned, teams, search) ==
    CASE ~search.stop /\ teams # <<>> ->
           TryTeams(query, index, assigned, Tail(teams),
                    SearchFrom(query, index + 1,
                               [assigned EXCEPT ![Head(teams)] = Append(@, index)],
                               search))
      [] ~search.stop /\ teams = <<>> /\ index # query.required ->
           SearchFrom(query, index + 1, assigned, search)
      [] OTHER -> search

SearchFrom(query, index, assigned, entered) ==
    LET search == Visit(entered)
        tickets == query.tickets
        sum(op(_), t) == SumOver(LAMBDA i : op(tickets[i]), assigned[t])
        remaining == [t \in DOMAIN assigned |->
                        query.slots[t] - sum(PartySize, t)]
        skills == [t \in DOMAIN assigned |-> sum(TotalSkill, t)]
        needed == SumSlots(remaining)
        teams == distinctTeams(
                     candidateTeams(remaining, skills,
                                    PartySize(tickets[index]),
                                    TotalSkill(tickets[index])),
                     remaining, skills)
    IN  IF search.stop THEN search
        ELSE IF needed = 0 THEN RecordComplete(query, assigned, search)
        ELSE IF index > Len(tickets) \/ SuffixPlayers(tickets, index) < needed
        THEN search
        ELSE TryTeams(query, index, assigned, teams, search)

AlternativeBefore(left, right) == left # right /\ Preferred(left, right)

(* The placements a search has kept, in preference order, cut to           *)
(* maxAlternatives.                                                        *)
BestOf(query, search) ==
    LET kept == SortSet({search.best[k] : k \in DOMAIN search.best},
                        AlternativeBefore)
    IN  [budget |-> [used |-> search.used, max |-> search.max,
                     exhausted |-> search.exhausted],
         alternatives |-> SubSeq(kept, 1, Min({query.maxAlternatives, Len(kept)})),
         truncated |-> search.truncated,
         sawHard |-> search.sawHard, sawQuality |-> search.sawQuality]

(* findBestPlacement, given the shared budget. *)
findBestPlacement(query, budget) ==
    LET start == [used |-> budget.used, max |-> budget.max,
                  exhausted |-> budget.exhausted, exact |-> 0,
                  truncated |-> FALSE, sawHard |-> FALSE,
                  sawQuality |-> FALSE, best |-> <<>>, stop |-> FALSE]
        needed == SumSlots(query.slots)
    IN  BestOf(query,
               IF needed = 0 \/ SuffixPlayers(query.tickets, 1) < needed
               THEN start
               ELSE SearchFrom(query, 1, [t \in DOMAIN query.slots |-> <<>>], start))

------------------------------------------------------------------------------
(***************************************************************************)
(* planner.go's candidate generation: the proposals a batch is selected    *)
(* from.                                                                   *)
(*                                                                         *)
(* A candidate is [placement, evaluation, kind, backfill, demands, key,    *)
(* utility, effective]; demands are the demands it serves that have        *)
(* reached wait priority, key its canonical key: the kind, the backfill    *)
(* ticket and the sorted ticket identifiers, compared as the code compares *)
(* the strings.  A generation is [candidates, truncated, sawHard,          *)
(* sawQuality, budget]; limits are the policy's with defaults filled in.   *)
(***************************************************************************)

defaultMaxProposals == 64
defaultMaxSearchNodes == 100000
defaultMaxCandidatesPerProposal == 64
defaultMaxBatchCandidates == 256
defaultMaxBatchSearchNodes == 100000
smallQueueTicketLimit == 12
smallQueueBackfillLimit == 2
smallQueueTeamLimit == 2
smallQueueCandidateLimit == 4096

matchSlots(policy) == [team \in 1 .. policy.teamCount |-> policy.teamSize]

canFillMultipleProposals(tickets, slots) ==
    /\ SumSlots(slots) > 0
    /\ SuffixPlayers(tickets, 1) >= 2 * SumSlots(slots)

(* The limits of Plan: a zero means the default, and a small queue whose   *)
(* candidate limits are both left at zero gets the expanded search.        *)
PlanLimits(policy, available, backfills) ==
    LET given(limit, default) == IF limit = 0 THEN default ELSE limit
        expanded == /\ policy.maxCandidatesPerProposal = 0
                    /\ policy.maxBatchCandidates = 0
                    /\ Len(available) <= smallQueueTicketLimit
                    /\ Len(backfills) <= smallQueueBackfillLimit
                    /\ policy.teamCount <= smallQueueTeamLimit
        wide(default) == IF expanded THEN smallQueueCandidateLimit ELSE default
    IN  [proposals |-> given(policy.maxProposals, defaultMaxProposals),
         nodes |-> given(policy.maxSearchNodes, defaultMaxSearchNodes),
         candidates |-> given(policy.maxCandidatesPerProposal,
                              wide(defaultMaxCandidatesPerProposal)),
         batch |-> given(policy.maxBatchCandidates,
                         wide(defaultMaxBatchCandidates)),
         batchNodes |-> given(policy.maxBatchSearchNodes,
                              defaultMaxBatchSearchNodes),
         window |-> policy.maxCandidateTickets,
         expanded |-> expanded]

-----------------------------------------------------------------------------

(* canonicalCandidateKey. *)
candidateKey(placement, backfill) ==
    (IF backfill = <<>> THEN <<1>> ELSE <<0, backfill[1].id>>)
      \o SortSet(TicketIdsOf(placement), <)

(* placementPriorityDemands, and the vacancy itself. *)
priorityDemands(snapshot, placement, backfill) ==
    LET demand(kind, ticket) ==
            [key |-> <<kind, ticket.id>>,
             wait |-> WaitMillis(snapshot.now, ticket.enqueuedAt)]
        aged(ticket) ==
            TicketWaitPriority(snapshot.now, ticket.enqueuedAt, snapshot.policy)
        placed == PlacedTickets(placement)
    IN  {demand("match", placed[i]) : i \in {j \in DOMAIN placed : aged(placed[j])}}
          \cup {demand("backfill", backfill[i]) :
                  i \in {j \in DOMAIN backfill : aged(backfill[j])}}

(* recordGeneratedCandidate: a placement of a key that is already there    *)
(* only replaces a worse one.                                              *)
recordCandidate(generation, found, snapshot, backfill) ==
    LET key == candidateKey(found.placement, backfill)
        candidate == [placement |-> found.placement,
                      evaluation |-> found.evaluation,
                      kind |-> IF backfill = <<>> THEN "new_match"
                                                  ELSE "backfill",
                      backfill |-> [i \in DOMAIN backfill |-> backfill[i].id],
                      demands |-> priorityDemands(snapshot, found.placement,
                                                  backfill),
                      key |-> key, utility |-> 0, effective |-> 0]
        known == {i \in DOMAIN generation.candidates :
                    generation.candidates[i].key = key}
    IN  IF known = {}
        THEN [generation EXCEPT !.candidates = Append(@, candidate)]
        ELSE LET i == CHOOSE i \in known : TRUE
             IN  IF Preferred(candidate, generation.candidates[i])
                 THEN [generation EXCEPT !.candidates[i] = candidate]
                 ELSE generation

(* What every search leaves in the generation, found or not. *)
noteSearch(generation, search, windowTruncated) ==
    [generation EXCEPT
       !.truncated = @ \/ search.truncated \/ windowTruncated,
       !.sawHard = @ \/ search.sawHard,
       !.sawQuality = @ \/ search.sawQuality,
       !.budget = search.budget]

Full(generation, limits) ==
    \/ generation.budget.exhausted
    \/ Len(generation.candidates) >= limits.batch

-----------------------------------------------------------------------------

(* What a search has found, as far as there is room. *)
recordSearch(generation, search, window, snapshot, backfill, limits) ==
    Loop(LAMBDA g, found :
           IF Len(g.candidates) >= limits.batch THEN g
           ELSE recordCandidate(g, found, snapshot, backfill),
         noteSearch(generation, search, window.truncated),
         search.alternatives)

(* Mutant: the alternatives around each ticket are left out. *)
collectShapeCandidates_unanchored(generation, window, slots, snapshot, backfill, anchors, alternatives, limits) ==
    recordSearch(generation,
                 findBestPlacement(
                    [tickets |-> window.tickets, slots |-> slots,
                     snapshot |-> snapshot, backfill |-> backfill,
                     required |-> 0, maxCandidates |-> limits.candidates,
                     maxAlternatives |-> 1], generation.budget),
                 window, snapshot, backfill, limits)

(* The searches of a shape from one anchor to the last. *)
RECURSIVE collectFrom(_, _, _, _, _, _)
collectFrom(anchor, last, g, query, window, limits) ==
    IF anchor > last THEN g
    ELSE IF Full(g, limits) THEN [g EXCEPT !.truncated = TRUE]
    ELSE collectFrom(anchor + 1, last,
           recordSearch(g,
             findBestPlacement(
               [query EXCEPT
                  !.required = anchor,
                  !.maxAlternatives = Min({@, limits.batch - Len(g.candidates)})],
               g.budget),
             window, query.snapshot, query.backfill, limits),
           query, window, limits)

(* collectShapeCandidates: the best placements of a shape, then the best   *)
(* ones that contain each ticket of the window.                            *)
collectShapeCandidates(generation, window, slots, snapshot, backfill, anchors, alternatives, limits) ==
    collectFrom(0, IF anchors THEN Len(window.tickets) ELSE 0, generation,
                [tickets |-> window.tickets, slots |-> slots,
                 snapshot |-> snapshot, backfill |-> backfill,
                 required |-> 0, maxCandidates |-> limits.candidates,
                 maxAlternatives |-> alternatives],
                window, limits)

(* collectGreedyCoverCandidates: the best match, then the best one of the  *)
(* tickets that are left, until none is found.                             *)
Without(tickets, placement) ==
    SelectSeq(tickets, LAMBDA t : t.id \notin TicketIdsOf(placement))

RECURSIVE collectGreedyCoverCandidates(_, _, _, _, _, _)
coverNext(generation, remaining, slots, snapshot, seed, limits, window, search) ==
    IF search.alternatives = <<>>
    THEN noteSearch(generation, search, window.truncated)
    ELSE collectGreedyCoverCandidates(
           recordSearch(generation, search, window, snapshot, <<>>, limits),
           Without(remaining, search.alternatives[1].placement),
           slots, snapshot, seed + 1, limits)

coverWindow(generation, remaining, slots, snapshot, seed, limits, window) ==
    coverNext(generation, remaining, slots, snapshot, seed, limits, window,
              findBestPlacement(
                [tickets |-> window.tickets, slots |-> slots,
                 snapshot |-> snapshot, backfill |-> <<>>,
                 required |-> 0, maxCandidates |-> limits.candidates,
                 maxAlternatives |-> 1],
                generation.budget))

collectGreedyCoverCandidates(generation, remaining, slots, snapshot, seed, limits) ==
    IF seed = limits.proposals \/ Full(generation, limits)
    THEN [generation EXCEPT !.truncated = @ \/ Full(generation, limits)]
    ELSE coverWindow(generation, remaining, slots, snapshot, seed, limits,
                     SelectWindow(remaining, slots, limits.window))

(* generateProposalCandidates: vacancies first, then the greedy cover and  *)
(* the alternatives around each ticket.  When at most one proposal can be  *)
(* selected the alternatives are skipped.                                  *)
generateProposalCandidates(available, backfills, snapshot, limits) ==
    LET slots == matchSlots(snapshot.policy)
        single == /\ limits.candidates >= defaultMaxCandidatesPerProposal
                  /\ \/ limits.proposals = 1
                     \/ /\ backfills = <<>>
                        /\ ~canFillMultipleProposals(available, slots)
        alternatives == IF limits.expanded /\ ~single THEN limits.candidates
                                                      ELSE 1
        empty == [candidates |-> <<>>, truncated |-> FALSE, sawHard |-> FALSE,
                  sawQuality |-> FALSE,
                  budget |-> [used |-> 0, max |-> limits.nodes,
                              exhausted |-> FALSE]]
        collect(g, shape, backfill, anchors) ==
            collectShapeCandidates(g, SelectWindow(available, shape, limits.window),
                                   shape, snapshot, backfill, anchors,
                                   alternatives, limits)
        fill(g, backfill) ==
            IF Full(g, limits) THEN [g EXCEPT !.truncated = TRUE]
            ELSE collect(g, backfill.slots, <<backfill>>, ~single)
        cover(g) ==
            IF Full(g, limits) THEN g
            ELSE collectGreedyCoverCandidates(g, available, slots, snapshot, 0, limits)
        anchored(g) ==
            IF single THEN g
            ELSE IF Full(g, limits)
            THEN [g EXCEPT !.truncated = @ \/ available # <<>>]
            ELSE collect(g, slots, <<>>, TRUE)
        done(g) == [g EXCEPT !.truncated = @ \/ g.budget.exhausted]
    IN  done(anchored(cover(Loop(fill, empty, backfills))))

==============================================================================
