----------------------------- MODULE MCService ------------------------------
(* The workloads of Service for TLC: which commands clients send, and the  *)
(* commands that ran before them.                                          *)
EXTENDS LegacyImport, ServiceInvariant

CONSTANTS
    t1, t2, t3, s1, i1, i2, r1, r2, a1, a2, p1, p2, w1, w2, v1, f1, f2, g1, g2,
    n1, n2, n3, n4, n5, o1, o2, o3, o4, o5, o6, m1, m2, d1, d2

-----------------------------------------------------------------------------
(* Commands. *)

putMatch(o, t, revision, player) ==
    [kind |-> "match_ticket.put", operation |-> o, ticket |-> t,
     value |-> [revision |-> revision, players |-> {player}, enqueuedAt |-> 0]]

cancelMatch(o, t, revision) ==
    [kind |-> "match_ticket.cancel", operation |-> o, ticket |-> t,
     revision |-> revision]

putBackfill(o, t, revision, rosterVersion, roster) ==
    [kind |-> "backfill_ticket.put", operation |-> o, ticket |-> t,
     value |-> [revision |-> revision, session |-> s1,
                rosterVersion |-> rosterVersion, roster |-> roster,
                enqueuedAt |-> 0]]

cancelBackfill(o, t, revision, rosterVersion) ==
    [kind |-> "backfill_ticket.cancel", operation |-> o, ticket |-> t,
     revision |-> revision, rosterVersion |-> rosterVersion]

putPolicy(o, fingerprint) ==
    [kind |-> "policy.put", operation |-> o, policy |-> v1, fingerprint |-> fingerprint]

execute(o, run) ==
    [kind |-> "planning_run.execute", operation |-> o, run |-> run, policy |-> v1]

reserve(o, r, p) ==
    [kind |-> "reservation.reserve", operation |-> o, reservation |-> r, proposal |-> p]

cancel(o, r) == [kind |-> "reservation.cancel", operation |-> o, reservation |-> r]

list(o) == [kind |-> "reservation.list", operation |-> o]

confirm(o, r, a) ==
    [kind |-> "reservation.confirm", operation |-> o, reservation |-> r, assignment |-> a]

acknowledge(o, a, request) ==
    [kind |-> "assignment.acknowledge", operation |-> o, assignment |-> a,
     request |-> [request EXCEPT !.operation = o]]

completed(resulting) ==
    [NoAcknowledgment EXCEPT !.outcome = "completed", !.session = s1,
                             !.expected = 1, !.resulting = resulting]

cancelled == [NoAcknowledgment EXCEPT !.outcome = "cancelled", !.reason = TRUE]

-----------------------------------------------------------------------------
(* The planner: run w1 places t1 alone, run w2 t1 and t2 together, for the *)
(* backfill t3 if there is one.  The proposals of the runs compete.        *)

MCPlan(input) ==
    LET chosen == IF input.run = w1 THEN {t1} ELSE {t1, t2}
        placed == chosen \cap CapturedMatches(input)
        target == IF input.run = w2 /\ t3 \in CapturedBackfills(input)
                  THEN [ticket |-> t3, revision |-> input.backfills[t3].revision,
                        session |-> s1,
                        rosterVersion |-> input.backfills[t3].rosterVersion]
                  ELSE NoTarget
        proposal == [tickets |-> [t \in TicketIds |->
                       IF t \in placed THEN input.matches[t].revision ELSE 0],
                     backfill |-> target]
    IN [proposals |-> [p \in ProposalIds |->
          IF placed # {} /\ p = (IF input.run = w1 THEN p1 ELSE p2)
          THEN proposal ELSE NoProposal],
        unmatched |-> CapturedMatches(input) \ placed]

MCSuits(fingerprint, roster) == TRUE

-----------------------------------------------------------------------------
(* A command that runs alone and succeeds. *)

RunAlone(s, command) ==
    LET outcome == CHOOSE outcome \in Handle(s, command, 0) : TRUE
        next == applied(s, operation(command), Normalized(outcome.changes), s.version + 1)
        batch == Plan(Read(next, "planning_snapshot", command.run).input)
        done == CompletedRun(Read(next, "planning_run", command.run), batch, 0)
    IN IF command.kind # "planning_run.execute" THEN next
       ELSE applied(next, completeOperation(command.run, done, batch),
                    Normalized(completeMutations(next, command.run, done, batch)),
                    next.version + 1)

-----------------------------------------------------------------------------
(* Two v0 journals, in which the party t1 fills the vacancy t3: reserved   *)
(* in the first, confirmed and acknowledged in the second.                 *)

MCPlanned(batch) ==
    IF t3 \in DOMAIN batch.backfill
    THEN {[tickets |-> [t \in TicketIds |-> IF t = t1 THEN 1 ELSE 0],
           backfill |-> [ticket |-> t3, revision |-> 1, session |-> s1,
                         rosterVersion |-> 1]]}
    ELSE {}

V0 == INSTANCE LegacyModel WITH SnapshotIds <- RunIds, Planned <- MCPlanned

V0Batch == [match |-> (t1 :> 1), backfill |-> (t3 :> 1)]

V0Reserved ==
    <<[kind |-> "policy_registered", version |-> v1, fingerprint |-> f1],
      [kind |-> "match_ticket_submitted", id |-> t1,
       ticket |-> [revision |-> 1, players |-> {i1}]],
      [kind |-> "backfill_ticket_submitted", id |-> t3,
       ticket |-> [revision |-> 1, session |-> s1, rosterVersion |-> 1]],
      [kind |-> "plan_completed", snapshot |-> w2, policy |-> v1, now |-> 0,
       batch |-> V0Batch],
      [kind |-> "proposal_reserved", now |-> 0, reservation |-> r1,
       proposal |-> CHOOSE p \in MCPlanned(V0Batch) : TRUE]>>

V0Delivered ==
    V0Reserved \o
    <<[kind |-> "reservation_confirmed", reservation |-> r1, assignment |-> a1, now |-> 0],
      [kind |-> "assignment_acknowledged", assignment |-> a1,
       request |-> [NoAcknowledgment EXCEPT !.operation = o6, !.outcome = "completed",
                      !.session = s1, !.expected = 1, !.resulting = 2]]>>

V0Models == (d1 :> V0!buildLegacyImportModel(V0Reserved).state)
              @@ (d2 :> V0!buildLegacyImportModel(V0Delivered).state)

MCModel(d) == V0Models[d]

MCProposalIdentity(run, demand) == IF run = w1 THEN p1 ELSE p2

import(i, d) ==
    [kind |-> "legacy_import", operation |-> NoID, import |-> i, source |-> d]

-----------------------------------------------------------------------------
(* Workloads.  Earlier: the commands that ran before, in order. *)

Earlier(w) ==
    CASE w \in {"reservations", "replaced"} ->
           <<putPolicy(n1, f1), putMatch(n2, t1, 1, i1), putMatch(n3, t2, 1, i2),
             execute(n4, w1), execute(n5, w2)>>
      [] w = "delivery" ->
           <<putPolicy(n1, f1), putMatch(n2, t1, 1, i1), putBackfill(n3, t3, 1, 1, g1),
             execute(n4, w2)>>
      [] w = "planning" -> <<putMatch(n1, t1, 1, i1), putMatch(n2, t2, 1, i2)>>
      [] w \in {"demand", "policies", "import"} -> <<>>

MCSent(w) ==
    CASE w = "reservations" ->
           {reserve(o1, r1, p1), reserve(o2, r2, p2), confirm(o3, r1, a1),
            cancel(o5, r1)}
      [] w = "replaced" ->
           {reserve(o1, r1, p2), confirm(o3, r1, a1), cancel(o5, r1), putMatch(o6, t1, 2, i1)}
      [] w = "delivery" ->
           {reserve(o1, r1, p2), confirm(o2, r1, a1), acknowledge(o3, a1, completed(2)),
            acknowledge(o4, a1, cancelled), putBackfill(o5, t3, 2, 2, g2), list(o6)}
      [] w = "planning" ->
           {putPolicy(o1, f1), putPolicy(o2, f2), execute(o3, w1), execute(o4, w1),
            putMatch(o5, t1, 2, i2)}
      [] w = "policies" ->
           {putPolicy(o1, f1), putPolicy(o2, f1), putPolicy(o3, f1), putPolicy(o4, f2)}
      [] w = "demand" ->
           {putMatch(o1, t1, 1, i1), putBackfill(o2, t1, 1, 1, g1),
            putBackfill(o3, t3, 1, 1, g1), putBackfill(o4, t3, 2, 1, g2),
            cancelBackfill(o5, t3, 1, 1), cancelMatch(o6, t1, 1)}
      [] w = "import" ->
           {confirm(o1, r1, a1), acknowledge(o2, a1, completed(2))}

MCImports(w) ==
    IF w = "import" THEN {import(m1, d1), import(m2, d1), import(m1, d2)} ELSE {}

MCContents(w) == FoldLeft(RunAlone, EmptyStore, Earlier(w))

MCCommands == UNION {MCSent(w) \cup MCImports(w) : w \in Workloads}

MCEarlierCommands == UNION {Range(Earlier(w)) : w \in Workloads}

(* Time passes where there are reservations to expire; the clocks differ   *)
(* where a run is captured by one replica and completed by another.        *)
MCMaxClock(w) == IF w \in {"reservations", "replaced", "delivery"} THEN 1 ELSE 0

MCMaxSkew(w) == IF w = "planning" THEN 1 ELSE 0

CallSymmetry == Permutations(Calls)

=============================================================================
