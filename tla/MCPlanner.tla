------------------------------ MODULE MCPlanner ------------------------------
(***************************************************************************)
(* Small queues for Planner: duels, pairs with whole parties, tickets of   *)
(* several partitions that came at the same time, vacancies and required   *)
(* roles, under the default limits and under tight ones.                   *)
(***************************************************************************)
EXTENDS Planner

CONSTANTS Families      \* the families of snapshots to plan

Now == 10000

(* A demand that has waited for so many seconds. *)
Since(seconds) == Now - 1000 * seconds

Player(skill, role, latency) ==
    [skill |-> skill, role |-> role, latency |-> latency]

Solo(id, wait, skill) ==
    [id |-> id, enqueuedAt |-> Since(wait),
     players |-> <<Player(skill, "any", 20)>>]

Party(id, wait, skills) ==
    [id |-> id, enqueuedAt |-> Since(wait),
     players |-> [i \in DOMAIN skills |-> Player(skills[i], "any", 20)]]

Step(after, gap, priority) ==
    [after |-> 1000 * after, gap |-> gap, penalty |-> 1, priority |-> priority]

Base(teamSize) ==
    [teamCount |-> 2, teamSize |-> teamSize, maxLatency |-> 100,
     maxProposals |-> 0, maxSearchNodes |-> 0, maxCandidateTickets |-> 0,
     maxCandidatesPerProposal |-> 0, maxBatchCandidates |-> 0,
     maxBatchSearchNodes |-> 0, roles |-> {}, steps |-> <<>>]

(* No relaxation; a gap that opens with the wait; priority after a wait. *)
StepLists == {<<>>, <<Step(0, 10, FALSE), Step(5, 20, FALSE)>>,
              <<Step(0, 10, FALSE), Step(4, 30, TRUE)>>}

(* Default limits, single selection, and every limit small once. *)
Bounded(policy) ==
    {policy,
     [policy EXCEPT !.maxProposals = 1],
     [policy EXCEPT !.maxBatchCandidates = 2],
     [policy EXCEPT !.maxBatchCandidates = 8, !.maxBatchSearchNodes = 12],
     [policy EXCEPT !.maxBatchCandidates = 16, !.maxProposals = 2],
     [policy EXCEPT !.maxCandidatesPerProposal = 4],
     [policy EXCEPT !.maxSearchNodes = 40],
     [policy EXCEPT !.maxCandidateTickets = 3]}

Snapshot(policy, tickets, backfills) ==
    [now |-> Now, policy |-> policy, tickets |-> tickets,
     backfills |-> backfills]

(* Five solos for matches of one against one. *)
Duels ==
    {Snapshot(policy, <<Solo(1, 6, a), Solo(2, 5, b), Solo(3, 4, c),
                        Solo(4, 4, d), Solo(5, 1, 0)>>, <<>>) :
       policy \in UNION {Bounded([Base(1) EXCEPT !.steps = steps]) :
                           steps \in StepLists},
       a \in {0, 25}, b \in {0, 8}, c \in {0, 12, 40}, d \in {10, 20}}

(* Solos and duos for matches of two against two. *)
Pairs ==
    {Snapshot(policy, <<Party(1, 6, a), Solo(2, 5, b), Solo(3, 4, c),
                        Party(4, 3, d), Solo(5, 2, 0)>>, <<>>) :
       policy \in UNION {Bounded([Base(2) EXCEPT !.steps = steps]) :
                           steps \in StepLists},
       a \in {<<0>>, <<10, 30>>}, b \in {0, 10, 20}, c \in {10, 20},
       d \in {<<20>>, <<10, 20>>}}

(* Solos and duos in two latency bands, three of them of the same age. *)
Located(id, wait, size, latency) ==
    [id |-> id, enqueuedAt |-> Since(wait),
     players |-> [i \in 1 .. size |-> Player(10, "any", latency)]]

Bands ==
    {Snapshot([Base(2) EXCEPT !.maxProposals = 1],
              <<Located(1, 5, 1, 20), Located(2, 4, sizes[1], latencies[1]),
                Located(3, 4, sizes[2], latencies[2]),
                Located(4, 4, sizes[3], latencies[3]), Located(5, 3, 2, 60)>>, <<>>) :
       sizes \in [1 .. 3 -> {1, 2}], latencies \in [1 .. 3 -> {20, 60}]}

(* Vacancies beside new matches. *)
Vacancy(id, wait, slots) ==
    [id |-> id, enqueuedAt |-> Since(wait), slots |-> slots, existing |-> <<>>]

Vacancies ==
    {Snapshot(policy, <<Solo(1, 6, a), Solo(2, 5, 10), Solo(3, 4, c),
                        Solo(4, 1, 30)>>, backfills) :
       policy \in UNION {Bounded([Base(1) EXCEPT !.steps = steps]) :
                           steps \in StepLists},
       a \in {0, 25}, c \in {0, 20},
       backfills \in {<<Vacancy(8, 7, <<1, 0>>)>>,
                      <<Vacancy(8, 1, <<0, 1>>), Vacancy(9, 2, <<1, 1>>)>>}}

(* Four or five players with a role, and two of each role to a match. *)
Required(hard) == {[role |-> "tank", min |-> 1, hard |-> hard],
                   [role |-> "healer", min |-> 1, hard |-> FALSE]}

Specialist(id, role, skill) ==
    [id |-> id, enqueuedAt |-> Since(6 - id),
     players |-> <<Player(skill, role, 20)>>]

Roles ==
    {Snapshot(policy, <<Specialist(1, a, 10), Specialist(2, b, 10),
                        Specialist(3, c, 20), Specialist(4, d, 20),
                        Specialist(5, "tank", 20)>>, <<>>) :
       policy \in UNION {Bounded([Base(2) EXCEPT !.roles = Required(hard),
                                                !.steps = steps]) :
                           hard \in BOOLEAN, steps \in StepLists},
       a \in {"tank", "healer"}, b \in {"tank", "healer"},
       c \in {"tank", "healer"}, d \in {"tank", "healer"}}

(* A vacancy on each side of a match whose rosters differ. *)
Roster(skill) ==
    [players |-> 1, skill |-> skill, latency |-> 20,
     roles |-> [role \in {"tank", "healer"} |-> 0]]

Rosters ==
    {Snapshot(policy, <<Solo(1, 6, a), Solo(2, 5, b), Solo(3, 4, 20)>>,
              <<[id |-> 8, enqueuedAt |-> Since(7), slots |-> <<1, 1>>,
                 existing |-> <<Roster(left), Roster(right)>>]>>) :
       policy \in UNION {Bounded([Base(2) EXCEPT !.steps = steps]) :
                           steps \in StepLists},
       a \in {0, 20}, b \in {0, 20}, left \in {0, 20}, right \in {0, 20}}

MCSnapshots ==
    UNION {CASE family = "duels" -> Duels [] family = "pairs" -> Pairs
             [] family = "bands" -> Bands
             [] family = "vacancies" -> Vacancies [] family = "roles" -> Roles
             [] family = "rosters" -> Rosters : family \in Families}

(* Every snapshot planned is one Plan accepts. *)
ASSUME SnapshotsValid == \A s \in MCSnapshots : ValidateSnapshot(s)
=============================================================================
