------------------------------ MODULE Objective ------------------------------
(***************************************************************************)
(* What a placement is worth: internal/constraint (the rules nothing       *)
(* relaxes) and internal/objective (the evidence of a placement, whether   *)
(* it is admissible, and which of two evaluations is preferred).           *)
(*                                                                         *)
(* A match ticket is [id, enqueuedAt, players], its players a sequence of  *)
(* [skill, role, latency]; a backfill ticket is [id, enqueuedAt, slots,    *)
(* existing], where existing is empty or one roster summary [players,      *)
(* skill, roles, latency] per team.  A ticket has one revision within a    *)
(* snapshot, so its identifier stands for its reference.  Identifiers are  *)
(* numbers, ordered as the code orders the strings.  A placement is a      *)
(* sequence of teams, each a sequence of tickets.                          *)
(***************************************************************************)
EXTENDS Integers, FiniteSets, SequencesExt

(* math.MaxInt, the limits of a policy without relaxation steps: above any *)
(* gap or penalty that tickets can have.                                   *)
Unlimited == 1000000

(* A loop over seq that carries a value.  (FoldLeft recurses over sets of  *)
(* positions: the searches below nest too many of those.)                  *)
Loop(op(_, _), start, seq) ==
    LET after[i \in 0 .. Len(seq)] ==
            IF i = 0 THEN start ELSE op(after[i - 1], seq[i])
    IN  after[Len(seq)]

(* Sum of op over the elements of a sequence. *)
SumOver(op(_), seq) == Loop(LAMBDA total, x : total + op(x), 0, seq)

MaxOver(op(_), seq) ==
    Loop(LAMBDA best, x : IF op(x) > best THEN op(x) ELSE best, 0, seq)

(* A set as a sequence, and as a sorted one.  (SetToSeq chooses among all   *)
(* sequences of the set, too many for the candidates of a queue.)          *)
AsSeq(set) == FoldSet(LAMBDA x, seq : Append(seq, x), <<>>, set)

SortSet(set, before(_, _)) == SortSeq(AsSeq(set), before)

PartySize(ticket) == Len(ticket.players)

TotalSkill(ticket) == SumOver(LAMBDA p : p.skill, ticket.players)

(* time.Time.Sub in milliseconds, never negative. *)
WaitMillis(now, enqueuedAt) == IF enqueuedAt < now THEN now - enqueuedAt ELSE 0

TeamPlayers(team) == FlattenSeq([i \in DOMAIN team |-> team[i].players])

PlacedTickets(placement) == FlattenSeq(placement)

TicketIdsOf(placement) ==
    {PlacedTickets(placement)[i].id : i \in DOMAIN PlacedTickets(placement)}

RoleCount(players, role) ==
    Cardinality({i \in DOMAIN players : players[i].role = role})

-----------------------------------------------------------------------------
(* internal/constraint. *)

TicketAllowed(ticket, policy) ==
    /\ PartySize(ticket) <= policy.teamSize
    /\ \A i \in DOMAIN ticket.players :
         ticket.players[i].latency <= policy.maxLatency

HardViolation(placement, policy, kind) ==
    \E team \in DOMAIN placement :
        LET players == TeamPlayers(placement[team]) IN
        \/ \E i \in DOMAIN players : players[i].latency > policy.maxLatency
        \/ /\ kind = "new_match"
           /\ \E requirement \in policy.roles :
                /\ requirement.hard
                /\ RoleCount(players, requirement.role) < requirement.min

-----------------------------------------------------------------------------
(* internal/objective. *)

(* The relaxation step in force after a wait: the last one it has reached. *)
ActiveStep(steps, waited) ==
    IF steps = <<>>
    THEN [after |-> 0, gap |-> Unlimited, penalty |-> Unlimited,
          priority |-> FALSE]
    ELSE steps[CHOOSE level \in DOMAIN steps :
                 /\ level = 1 \/ steps[level].after <= waited
                 /\ \A later \in level + 1 .. Len(steps) :
                      steps[later].after > waited]

TicketWaitPriority(now, enqueuedAt, policy) ==
    ActiveStep(policy.steps, WaitMillis(now, enqueuedAt)).priority

(* The averages of the teams that have players, roster included. *)
TeamAverages(placement, existing) ==
    LET players(team) == TeamPlayers(placement[team])
        base(team) == IF existing = <<>> THEN [players |-> 0, skill |-> 0]
                                         ELSE existing[team]
        count(team) == base(team).players + Len(players(team))
        skill(team) == base(team).skill
                         + SumOver(LAMBDA p : p.skill, players(team))
    IN  {skill(team) \div count(team) :
           team \in {t \in DOMAIN placement : count(t) > 0}}

(* The players a team lacks of a required role, its roster counted. *)
RoleDeficit(placement, existing, team, requirement) ==
    LET have == RoleCount(TeamPlayers(placement[team]), requirement.role)
                  + (IF existing = <<>> THEN 0
                     ELSE existing[team].roles[requirement.role])
    IN  IF have < requirement.min THEN requirement.min - have ELSE 0

Spread(values) == IF values = {} THEN 0 ELSE Max(values) - Min(values)

LackingRole(placement, existing, requirement) ==
    MapThenSumSet(LAMBDA team : RoleDeficit(placement, existing, team, requirement),
                  DOMAIN placement)

(* What the step in force admits, with the evidence it was decided from. *)
Evidence(hard, gap, penalty, oldest, total, latency, step) ==
    [hardViolation |-> hard,
     admissible |-> ~hard /\ gap <= step.gap /\ penalty <= step.penalty,
     waitPriority |-> step.priority,
     rolePenalty |-> penalty, skillGap |-> gap,
     oldestWait |-> oldest, totalWait |-> total, latency |-> latency]

EvidenceAfter(oldest, steps, hard, gap, penalty, total, latency) ==
    Evidence(hard, gap, penalty, oldest, total, latency, ActiveStep(steps, oldest))

(* evaluate.  A backfill without roster context has neither a skill gap    *)
(* nor role counts.                                                        *)
EvaluateWith(now, placement, policy, kind, existing) ==
    LET context == kind = "new_match" \/ existing # <<>>
        tickets == PlacedTickets(placement)
        lacking(requirement) == LackingRole(placement, existing, requirement)
        soft == {r \in policy.roles : ~r.hard}
        wait(t) == WaitMillis(now, t.enqueuedAt)
    IN  EvidenceAfter(
          MaxOver(wait, tickets),
          policy.steps,
          \/ HardViolation(placement, policy, kind)
          \/ context /\ \E r \in policy.roles \ soft : lacking(r) > 0,
          IF context THEN Spread(TeamAverages(placement, existing)) ELSE 0,
          IF context THEN MapThenSumSet(lacking, soft) ELSE 0,
          SumOver(wait, tickets),
          MaxOver(LAMBDA p : p.latency,
                  TeamPlayers(tickets) \o
                    [i \in DOMAIN existing |-> [latency |-> existing[i].latency]]))

Evaluate(now, placement, policy) ==
    EvaluateWith(now, placement, policy, "new_match", <<>>)

(* The wait of the vacancy counts as evidence, after admissibility was     *)
(* decided from the waits of the incoming tickets.                         *)
EvaluateBackfill(now, placement, policy, backfill) ==
    LET wait == WaitMillis(now, backfill.enqueuedAt)
    IN  [EvaluateWith(now, placement, policy, "backfill", backfill.existing) EXCEPT
           !.oldestWait = IF wait > @ THEN wait ELSE @,
           !.totalWait = @ + wait,
           !.waitPriority =
              @ \/ TicketWaitPriority(now, backfill.enqueuedAt, policy)]

(* Lexicographic comparison of two sequences of numbers: -1, 0 or 1.  A    *)
(* sequence precedes its extensions.                                       *)
CompareLex(left, right) ==
    LET differ == {i \in DOMAIN left \cap DOMAIN right : left[i] # right[i]}
    IN  IF differ # {}
        THEN IF left[Min(differ)] < right[Min(differ)] THEN -1 ELSE 1
        ELSE IF Len(left) = Len(right) THEN 0
             ELSE IF Len(left) < Len(right) THEN -1 ELSE 1

(* Mutant: quality comes first however long anyone has waited. *)
Compare_quality(left, right) ==
    LET rank(e) == <<e.rolePenalty, e.skillGap, -e.oldestWait, -e.totalWait,
                     e.latency>>
    IN  CompareLex(rank(left), rank(right))

(* objective.Compare: negative when left is preferred.  Once either side   *)
(* has reached wait priority, waits come before quality.                   *)
Compare(left, right) ==
    LET waitFirst == left.waitPriority \/ right.waitPriority
        waits(e) == <<-e.oldestWait, -e.totalWait>>
        quality(e) == <<e.rolePenalty, e.skillGap>>
        rank(e) == (IF waitFirst THEN waits(e) \o quality(e)
                                 ELSE quality(e) \o waits(e)) \o <<e.latency>>
    IN  CompareLex(rank(left), rank(right))
=============================================================================
