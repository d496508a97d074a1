---------------------------- MODULE LegacyImport ----------------------------
(***************************************************************************)
(* LegacyImporter.Import of internal/service/legacy_import.go, as calls    *)
(* beside those of Service: the scope is looked at, a start marker is      *)
(* committed, then the resources in batches, then the completion.  Nothing *)
(* is resumed: a scope with an import that broke off is to be discarded.   *)
(***************************************************************************)
EXTENDS Service, SequencesExt

CONSTANTS
    BatchSize,         \* LegacyImportOptions.BatchSize
    Model(_),          \* buildLegacyImportModel of a journal
    proposalIdentity(_, _)     \* the identifier of a run's proposal

ASSUME LegacyImportAssumption == BatchSize \in Nat \ {0}

-----------------------------------------------------------------------------
(***************************************************************************)
(* legacyImportModel.mutations of internal/service/legacy_import.go: the   *)
(* target resources that are written for the model of a v0 journal (see    *)
(* LegacyModel, whose records the model has).                              *)
(*                                                                         *)
(* What the v0 modules leave out of a record is filled in: enqueue times   *)
(* are 0, a roster is some content, and an acknowledgment came with the    *)
(* confirmation.                                                           *)
(***************************************************************************)

targetMatch(ticket) ==
    [revision |-> ticket.revision, players |-> ticket.players, enqueuedAt |-> 0]

targetBackfill(ticket) ==
    [revision |-> ticket.revision, session |-> ticket.session,
     rosterVersion |-> ticket.rosterVersion,
     roster |-> CHOOSE roster \in Rosters : TRUE, enqueuedAt |-> 0]

(* The tickets and claims: those that are gone leave tombstones. *)
demandMutations(m) ==
    LET known == {t \in TicketIds : m.demandKinds[t] # "none"}
        live(kind, t) == IF kind = "match_ticket" THEN m.matchTickets[t].revision # 0
                         ELSE m.backfillTickets[t].revision # 0
        target(kind, t) == IF kind = "match_ticket" THEN targetMatch(m.matchTickets[t])
                           ELSE targetBackfill(m.backfillTickets[t])
    IN {put("demand_identity", t, 0, [kind |-> m.demandKinds[t]]) : t \in known}
       \cup {LET kind == m.demandKinds[t]
             IN IF live(kind, t) THEN put(kind, t, 0, target(kind, t))
                ELSE delete(kind, t, 0) : t \in known}

sessionMutations(m) ==
    {LET active == {t \in TicketIds : /\ m.backfillTickets[t].revision # 0
                                      /\ m.backfillTickets[t].session = session}
     IN IF active = {} THEN delete("backfill_session_claim", session, 0)
        ELSE put("backfill_session_claim", session, 0,
                 [ticket |-> CHOOSE t \in active : TRUE]) : session \in m.sessions}

(* The runs are completed; their snapshots are of the version of the start *)
(* marker.                                                                 *)
planningMutations(m, version) ==
    UNION {
      LET run == m.planningRuns[w]
          capture(tickets, target(_)) ==
            [t \in TicketIds |-> IF t \in DOMAIN tickets THEN target(tickets[t]) ELSE NoPayload]
          input == [run |-> w, policy |-> run.policy, fingerprint |-> run.fingerprint,
                    now |-> run.now, matches |-> capture(run.matches, targetMatch),
                    backfills |-> capture(run.backfills, targetBackfill)]
      IN {put("planning_run", w, 0,
              [status |-> "completed", policy |-> run.policy,
               fingerprint |-> run.fingerprint, version |-> version,
               capturedAt |-> run.now, completedAt |-> run.now,
               proposals |-> Cardinality(run.proposals),
               unmatched |-> Cardinality(run.unmatched)]),
          put("planning_snapshot", w, 0, [version |-> version, input |-> input])}
         \cup {put("proposal", proposalIdentity(w, demand), 0,
                   [run |-> w, demand |-> demand]) : demand \in run.proposals}
         \cup {put("planning_unmatched", <<w, t>>, 0,
                   [unmatched |-> run.matches[t].revision]) : t \in run.unmatched} :
      w \in {w \in RunIds : m.planningRuns[w].policy # NoID}}

(* The identifier under which a reserved proposal was planned. *)
plannedAs(m, demand) ==
    LET known == CHOOSE known \in m.proposals : known[2] = demand
    IN proposalIdentity(known[1], demand)

(* A ticket that was ever reserved has a claim, live or released. *)
claimMutations(m) ==
    {LET active == {r \in ReservationIds :
                      /\ m.reservations[r].status = "active"
                      /\ t \in References(m.reservations[r].proposal)}
         r == CHOOSE r \in active : TRUE
     IN IF active = {} THEN delete("demand_reservation_claim", t, 0)
        ELSE put("demand_reservation_claim", t, 0,
                 [reservation |-> r,
                  revision |-> ReferencedRevision(m.reservations[r].proposal, t)]) :
       t \in m.reservationClaims}

reservationMutations(m) ==
    {put("reservation", r, 0,
         [status |-> m.reservations[r].status,
          proposal |-> plannedAs(m, m.reservations[r].proposal),
          demand |-> m.reservations[r].proposal,
          expiresAt |-> m.reservations[r].expiresAt]) :
       r \in {r \in ReservationIds : m.reservations[r].status # "absent"}}

assignmentMutations(m) ==
    UNION {
      LET assignment == m.assignments[a]
          terminal == assignment.status # "pending"
          at == IF terminal THEN assignment.confirmedAt ELSE 0
      IN {put("assignment", a, 0,
              [status |-> assignment.status, reservation |-> assignment.reservation,
               proposal |-> plannedAs(m, assignment.proposal),
               demand |-> assignment.proposal, confirmedAt |-> assignment.confirmedAt,
               acknowledgment |-> assignment.acknowledgment, acknowledgedAt |-> at])}
         \cup (IF terminal
               THEN {put("assignment_acknowledgment", a, 0,
                         [acknowledgment |-> assignment.acknowledgment,
                          acknowledgedAt |-> at])}
               ELSE {}) :
      a \in {a \in AssignmentIds : m.assignments[a].status # "absent"}}

importMutations(m, version) ==
    {put("policy", v, 0, [fingerprint |-> m.engine.policies[v]]) :
       v \in {v \in PolicyVersions : m.engine.policies[v] # NoID}}
    \cup demandMutations(m) \cup sessionMutations(m) \cup planningMutations(m, version)
    \cup reservationMutations(m) \cup claimMutations(m) \cup assignmentMutations(m)

(* The order of the kinds; within a kind the order is that of the names. *)
Kinds == <<"assignment", "assignment_acknowledgment", "backfill_session_claim",
           "backfill_ticket", "demand_identity", "demand_reservation_claim",
           "match_ticket", "planning_run", "planning_snapshot",
           "planning_unmatched", "policy", "proposal", "reservation">>

inOrder(mutations) ==
    FoldLeft(LAMBDA sorted, kind :
               FoldSet(LAMBDA m, before : Append(before, m), sorted,
                       {m \in mutations : m.key[1] = kind}),
             <<>>, Kinds)

-----------------------------------------------------------------------------
(* The calls of an importer. *)

(* The digests name no clock reading.  The mutations of a batch are known  *)
(* by the journal, the version of the start marker and the batch's number. *)
startOperation(i, d) ==
    [id |-> <<"/legacy.import/start", i>>,
     digest |-> [kind |-> "legacy_import.start", import |-> i, source |-> d]]

batchOperation(i, d, version, n) ==
    [id |-> <<"/legacy.import/batch", <<i, n>>>>,
     digest |-> [kind |-> "legacy_import.batch", import |-> i, source |-> d,
                 version |-> version, batch |-> n]]

importedOperation(i, d) ==
    [id |-> <<"/legacy.import/complete", i>>,
     digest |-> [kind |-> "legacy_import.complete", import |-> i, source |-> d]]

Resources(d, version) == inOrder(importMutations(Model(d), version))

BeginImport(c, command, at) ==
    /\ At(c, "idle")
    /\ Become(c, [NoCall EXCEPT !.command = command, !.at = at, !.pc = "importRead"])
    /\ UNCHANGED <<store, clock>>

(* Mutant: a marker that is there is taken for a completed import. *)
ImportRead_exists(c) ==
    LET call == calls[c]
        i == call.command.import
    IN /\ At(c, "importRead")
       /\ Become(c, IF store.version = 0 THEN [call EXCEPT !.pc = "importStart"]
                    ELSE IF Live(store, "legacy_import", i)
                      THEN Answered(call, "none", Read(store, "legacy_import", i))
                    ELSE Failed(call, "LegacyImportTargetUsed"))
       /\ UNCHANGED <<store, clock>>

ImportRead(c) ==
    LET call == calls[c]
        i == call.command.import
        marker == Read(store, "legacy_import", i)
    IN /\ At(c, "importRead")
       /\ Become(c, IF store.version = 0 THEN [call EXCEPT !.pc = "importStart"]
                    ELSE IF /\ Live(store, "legacy_import", i)
                            /\ marker.source = call.command.source
                      THEN IF marker.state = "completed" THEN Answered(call, "none", marker)
                           ELSE Failed(call, "LegacyImportIncomplete")
                    ELSE Failed(call, "LegacyImportTargetUsed"))
       /\ UNCHANGED <<store, clock>>

(* A call commits: the commit took effect, now or before, or it failed. *)
CommitThen(c, op, mutations, done, conflict) ==
    LET outcome == CommitOutcome(op, mutations)
    IN /\ Committed(op, mutations)
       /\ Become(c, CASE outcome = "none" -> done
                      [] outcome = "conflict" -> Failed(calls[c], conflict)
                      [] OTHER -> Failed(calls[c], outcome))
       /\ UNCHANGED clock

(* The resources are those of the version in the receipt. *)
Started(call, resources, version) ==
    [call EXCEPT !.pc = IF resources = <<>> THEN "importComplete" ELSE "importBatch",
                 !.started = version]

(* A start that finds its receipt goes on from the version in it. *)
ImportStart(c) ==
    LET call == calls[c]
        op == startOperation(call.command.import, call.command.source)
    IN /\ At(c, "importStart")
       /\ CommitThen(c, op,
            Normalized({put("legacy_import", call.command.import, 0,
              [state |-> "importing", source |-> call.command.source,
               startedAt |-> call.at, completedAt |-> 0, resources |-> 0])}),
            Started(call, Resources(call.command.source, store'.operations[op.id].version),
                    store'.operations[op.id].version),
            "LegacyImportTargetUsed")

CommitBatch(c, call, resources, from, to) ==
    CommitThen(c,
      batchOperation(call.command.import, call.command.source, call.started, call.batch),
      Normalized({resources[n] : n \in (from + 1)..to \cap DOMAIN resources}),
      IF to < Len(resources) THEN [call EXCEPT !.batch = @ + 1]
      ELSE [call EXCEPT !.pc = "importComplete"],
      "StaleSnapshot")

ImportBatch(c) ==
    LET call == calls[c]
    IN /\ At(c, "importBatch")
       /\ CommitBatch(c, call, Resources(call.command.source, call.started),
                      call.batch * BatchSize, (call.batch + 1) * BatchSize)

CommitCompletion(c, call, completed) ==
    CommitThen(c,
      importedOperation(call.command.import, call.command.source),
      Normalized({put("legacy_import", call.command.import, call.started, completed)}),
      Answered(call, "none", completed), "StaleSnapshot")

ImportComplete(c, at) ==
    LET call == calls[c]
        d == call.command.source
    IN /\ At(c, "importComplete")
       /\ CommitCompletion(c, call,
            [state |-> "completed", source |-> d, startedAt |-> call.at,
             completedAt |-> at, resources |-> Len(Resources(d, call.started))])

ImportStep(c) ==
    \/ ImportRead(c)
    \/ ImportStart(c)
    \/ ImportBatch(c)
    \/ \E at \in Readings : ImportComplete(c, at)

ImportNext ==
    \/ Next
    \/ /\ \E c \in Calls :
            \/ \E command \in Imports(workload), at \in Readings : BeginImport(c, command, at)
            \/ ImportStep(c)
       /\ UNCHANGED workload

ImportSpec == Init /\ [][ImportNext]_vars

-----------------------------------------------------------------------------

(* The scope holds these resources and nothing else, but for the markers. *)
ExactlyThese(s, resources) ==
    \A k \in Keys : k[1] # "legacy_import" =>
      LET is == s.resources[k]
      IN IF is.version = 0 THEN \A m \in resources : m.key # k
         ELSE \E m \in resources : /\ m.key = k
                                   /\ is.deleted = (m.change = "delete")
                                   /\ is.payload = m.payload

(* The step that completes an import leaves in the scope exactly what the  *)
(* journal says: every resource of it with its content, and nothing else,  *)
(* whichever importers of the same journal wrote the batches, were lost or *)
(* broke off.  (Importers with other identifiers leave their markers.)     *)
(* Nobody is told of success without that.                                 *)
ImportExact ==
    [][
      /\ \A i \in ImportIds :
         LET old == store.resources[<<"legacy_import", i>>]
             new == store'.resources[<<"legacy_import", i>>]
             complete(resources) == /\ new.payload.resources = Cardinality(resources)
                                    /\ ExactlyThese(store', resources)
         IN (new # old /\ new.payload.state = "completed") =>
              /\ old.payload.state = "importing"
              /\ complete(Range(Resources(new.payload.source,
                            store'.operations[<<"/legacy.import/start", i>>].version)))
      /\ \A c \in Calls :
           LET call == calls'[c]
           IN (call.pc = "idle" /\ call.command \in Imports(workload)
                 /\ call.answer.failure = "none") =>
                LET marker == store'.resources[<<"legacy_import", call.command.import>>].payload
                IN marker.state = "completed" /\ marker.source = call.command.source
      ]_vars

=============================================================================
