---------------------------- MODULE RecordProofs ----------------------------
(***************************************************************************)
(* One record of a journal: one turn of the two loops over a journal (the  *)
(* replay of internal/durable, and the import of the v0 importer), the     *)
(* engine that a record leaves behind, and the maps that the importer      *)
(* keeps beside its own engine.                                            *)
(***************************************************************************)
EXTENDS LegacyModel, CoordinatorProofs

-----------------------------------------------------------------------------
(* The recursion of replay. *)

(* g holds what replaying the first n records gives, for every n up to m. *)
Replays(g, records, m) ==
    g = [n \in 0..m |->
           IF n = 0 THEN Ok(NewEngine) ELSE replayNext(g[n - 1], records[n])]

OnlyReplay(g, records) ==
    \A h : Replays(h, records, Len(records)) <=> h = g

(* There is one, and only one.  The recursion over a journal of any length *)
(* is well defined because that of the journal without its last record is: *)
(* the invariant of the runtime carries the fact along with the journal.   *)
Replayable(records) ==
    \E g : OnlyReplay(g, records)

(* replay is the one function that satisfies its recursion. *)
LEMMA ReplayChosen ==
    ASSUME NEW records, NEW n, n = Len(records),
           NEW g, \A h : Replays(h, records, n) <=> h = g
    PROVE  replay(records) = g[n]
<1>1. replay(records) = (CHOOSE h : Replays(h, records, n))[n]
  BY Zenon DEF replay, Replays
<1>2. Replays(CHOOSE h : Replays(h, records, n), records, n)
  BY Zenon
<1> QED BY <1>1, <1>2, Zenon

(* Replay starts from an empty engine. *)
LEMMA ReplayEmpty == Replayable(<<>>) /\ replay(<<>>) = Ok(NewEngine)
<1> DEFINE g == [n \in 0..0 |-> Ok(NewEngine)]
<1>1. Len(<<>>) = 0 /\ 0 \in 0..0 /\ \A n \in 0..0 : n = 0
  OBVIOUS
<1>2. ASSUME NEW h PROVE Replays(h, <<>>, 0) <=> h = g
  <2>1. [n \in 0..0 |-> IF n = 0 THEN Ok(NewEngine) ELSE replayNext(h[n - 1], <<>>[n])] = g
    BY <1>1, Zenon
  <2> QED BY <2>1, Zenon DEF Replays
<1>3. g[0] = Ok(NewEngine)
  BY <1>1, Zenon
<1> HIDE DEF g
<1>4. \A h : Replays(h, <<>>, Len(<<>>)) <=> h = g
  BY <1>1, <1>2
<1>5. replay(<<>>) = g[0]
  BY <1>1, <1>4, ReplayChosen, Zenon
<1>6. OnlyReplay(g, <<>>)
  BY <1>4, Zenon DEF OnlyReplay
<1> QED BY <1>3, <1>5, <1>6, Zenon DEF Replayable

(* One more record is one more turn of the loop. *)
LEMMA ReplayAppend ==
    ASSUME NEW S, NEW records \in Seq(S), NEW event \in S, Replayable(records)
    PROVE  /\ Replayable(Append(records, event))
           /\ replay(Append(records, event)) = replayNext(replay(records), event)
<1> DEFINE n == Len(records)
           long == Append(records, event)
<1>1. /\ n \in Nat /\ Len(long) = n + 1 /\ long[n + 1] = event
      /\ \A i \in 1..n : records[i] = long[i]
  OBVIOUS
<1>2. PICK g : \A h : Replays(h, records, n) <=> h = g
  BY Zenon DEF Replayable, OnlyReplay
<1> HIDE DEF n, long
<1>3. /\ n \in 0..n /\ n + 1 \in 0..(n + 1) /\ n + 1 # 0 /\ (n + 1) - 1 = n
      /\ \A i \in 0..n : i \in 0..(n + 1) /\ i # n + 1
      /\ \A i \in 0..(n + 1) : i = n + 1 \/ i \in 0..n
      /\ \A i \in 0..n : i # 0 => i \in 1..n /\ i - 1 \in 0..n
  BY <1>1
<1> DEFINE k == [i \in 0..(n + 1) |-> IF i = n + 1 THEN replayNext(g[n], event) ELSE g[i]]
<1>4. \A i \in 0..n : g[i] = IF i = 0 THEN Ok(NewEngine) ELSE replayNext(g[i - 1], records[i])
  BY <1>2, Zenon DEF Replays
<1>5. Replays(k, long, n + 1)
  <2>1. k[n + 1] = replayNext(g[n], event) /\ \A i \in 0..n : k[i] = g[i]
    BY <1>3, Zenon
  <2>2. k = [i \in 0..(n + 1) |-> k[i]]
    BY Zenon
  <2> HIDE DEF k
  <2>3. ASSUME NEW i \in 0..(n + 1)
        PROVE  k[i] = IF i = 0 THEN Ok(NewEngine) ELSE replayNext(k[i - 1], long[i])
    <3>1. CASE i = n + 1
      BY <1>1, <1>3, <2>1, <3>1, Zenon
    <3>2. CASE i \in 0..n
      BY <1>1, <1>3, <1>4, <2>1, <3>2, Zenon
    <3> QED BY <1>3, <3>1, <3>2, Zenon
  <2> QED BY <2>2, <2>3, Zenon DEF Replays
<1>6. ASSUME NEW h, Replays(h, long, n + 1) PROVE h = k
  <2> DEFINE f == [i \in 0..n |-> h[i]]
  <2>1. /\ h = [i \in 0..(n + 1) |-> h[i]]
        /\ \A i \in 0..(n + 1) :
             h[i] = IF i = 0 THEN Ok(NewEngine) ELSE replayNext(h[i - 1], long[i])
    BY <1>6, Zenon DEF Replays
  <2>2. \A i \in 0..n : f[i] = h[i]
    BY Zenon
  <2>3. f = [i \in 0..n |-> f[i]]
    BY Zenon
  <2> HIDE DEF f
  <2>4. ASSUME NEW i \in 0..n
        PROVE  f[i] = IF i = 0 THEN Ok(NewEngine) ELSE replayNext(f[i - 1], records[i])
    BY <1>1, <1>3, <2>1, <2>2, Zenon
  <2>5. Replays(f, records, n)
    BY <2>3, <2>4, Zenon DEF Replays
  <2>6. f = g
    BY <1>2, <2>5
  <2>7. h[n + 1] = replayNext(g[n], event)
    BY <1>1, <1>3, <2>1, <2>2, <2>6, Zenon
  <2>8. \A i \in 0..(n + 1) : h[i] = IF i = n + 1 THEN replayNext(g[n], event) ELSE g[i]
    BY <1>3, <2>2, <2>6, <2>7, Zenon
  <2> QED BY <2>1, <2>8, Zenon
<1>7. k[n + 1] = replayNext(g[n], event)
  BY <1>3, Zenon
<1> HIDE DEF k
<1>8. \A h : Replays(h, long, n + 1) <=> h = k
  BY <1>5, <1>6, Zenon
<1>9. replay(records) = g[n] /\ replay(long) = k[n + 1]
  BY <1>1, <1>2, <1>8, ReplayChosen, Zenon DEF n
<1>10. \A h : Replays(h, long, Len(long)) <=> h = k
  BY <1>1, <1>8
<1>11. OnlyReplay(k, long)
  BY <1>10, Zenon DEF OnlyReplay
<1> QED BY <1>7, <1>9, <1>11, Zenon DEF Replayable, long

-----------------------------------------------------------------------------
(* The recursion of applyAll, as that of replay. *)

(* g holds what applying the first n records gives, for every n up to m. *)
Applies(g, records, m) ==
    g = [n \in 0..m |->
           IF n = 0 THEN Ok(NewModel) ELSE applyNext(g[n - 1], records[n])]

OnlyResult(g, records) ==
    \A h : Applies(h, records, Len(records)) <=> h = g

Appliable(records) ==
    \E g : OnlyResult(g, records)

(* applyAll is the one function that satisfies its recursion. *)
LEMMA ApplyChosen ==
    ASSUME NEW records, NEW n, n = Len(records),
           NEW g, \A h : Applies(h, records, n) <=> h = g
    PROVE  applyAll(records) = g[n]
<1>1. applyAll(records) = (CHOOSE h : Applies(h, records, n))[n]
  BY Zenon DEF applyAll, Applies
<1>2. Applies(CHOOSE h : Applies(h, records, n), records, n)
  BY Zenon
<1> QED BY <1>1, <1>2, Zenon

(* The import starts from empty maps. *)
LEMMA ApplyEmpty == Appliable(<<>>) /\ applyAll(<<>>) = Ok(NewModel)
<1> DEFINE g == [n \in 0..0 |-> Ok(NewModel)]
<1>1. Len(<<>>) = 0 /\ 0 \in 0..0 /\ \A n \in 0..0 : n = 0
  OBVIOUS
<1>2. ASSUME NEW h PROVE Applies(h, <<>>, 0) <=> h = g
  <2>1. [n \in 0..0 |-> IF n = 0 THEN Ok(NewModel) ELSE applyNext(h[n - 1], <<>>[n])] = g
    BY <1>1, Zenon
  <2> QED BY <2>1, Zenon DEF Applies
<1>3. g[0] = Ok(NewModel)
  BY <1>1, Zenon
<1> HIDE DEF g
<1>4. \A h : Applies(h, <<>>, Len(<<>>)) <=> h = g
  BY <1>1, <1>2
<1>5. applyAll(<<>>) = g[0]
  BY <1>1, <1>4, ApplyChosen, Zenon
<1>6. OnlyResult(g, <<>>)
  BY <1>4, Zenon DEF OnlyResult
<1> QED BY <1>3, <1>5, <1>6, Zenon DEF Appliable

(* One more record is one more turn of the loop. *)
LEMMA ApplyAppend ==
    ASSUME NEW S, NEW records \in Seq(S), NEW event \in S, Appliable(records)
    PROVE  /\ Appliable(Append(records, event))
           /\ applyAll(Append(records, event)) = applyNext(applyAll(records), event)
<1> DEFINE n == Len(records)
           long == Append(records, event)
<1>1. /\ n \in Nat /\ Len(long) = n + 1 /\ long[n + 1] = event
      /\ \A i \in 1..n : records[i] = long[i]
  OBVIOUS
<1>2. PICK g : \A h : Applies(h, records, n) <=> h = g
  BY Zenon DEF Appliable, OnlyResult
<1> HIDE DEF n, long
<1>3. /\ n \in 0..n /\ n + 1 \in 0..(n + 1) /\ n + 1 # 0 /\ (n + 1) - 1 = n
      /\ \A i \in 0..n : i \in 0..(n + 1) /\ i # n + 1
      /\ \A i \in 0..(n + 1) : i = n + 1 \/ i \in 0..n
      /\ \A i \in 0..n : i # 0 => i \in 1..n /\ i - 1 \in 0..n
  BY <1>1
<1> DEFINE k == [i \in 0..(n + 1) |-> IF i = n + 1 THEN applyNext(g[n], event) ELSE g[i]]
<1>4. \A i \in 0..n : g[i] = IF i = 0 THEN Ok(NewModel) ELSE applyNext(g[i - 1], records[i])
  BY <1>2, Zenon DEF Applies
<1>5. Applies(k, long, n + 1)
  <2>1. k[n + 1] = applyNext(g[n], event) /\ \A i \in 0..n : k[i] = g[i]
    BY <1>3, Zenon
  <2>2. k = [i \in 0..(n + 1) |-> k[i]]
    BY Zenon
  <2> HIDE DEF k
  <2>3. ASSUME NEW i \in 0..(n + 1)
        PROVE  k[i] = IF i = 0 THEN Ok(NewModel) ELSE applyNext(k[i - 1], long[i])
    <3>1. CASE i = n + 1
      BY <1>1, <1>3, <2>1, <3>1, Zenon
    <3>2. CASE i \in 0..n
      BY <1>1, <1>3, <1>4, <2>1, <3>2, Zenon
    <3> QED BY <1>3, <3>1, <3>2, Zenon
  <2> QED BY <2>2, <2>3, Zenon DEF Applies
<1>6. ASSUME NEW h, Applies(h, long, n + 1) PROVE h = k
  <2> DEFINE f == [i \in 0..n |-> h[i]]
  <2>1. /\ h = [i \in 0..(n + 1) |-> h[i]]
        /\ \A i \in 0..(n + 1) :
             h[i] = IF i = 0 THEN Ok(NewModel) ELSE applyNext(h[i - 1], long[i])
    BY <1>6, Zenon DEF Applies
  <2>2. \A i \in 0..n : f[i] = h[i]
    BY Zenon
  <2>3. f = [i \in 0..n |-> f[i]]
    BY Zenon
  <2> HIDE DEF f
  <2>4. ASSUME NEW i \in 0..n
        PROVE  f[i] = IF i = 0 THEN Ok(NewModel) ELSE applyNext(f[i - 1], records[i])
    BY <1>1, <1>3, <2>1, <2>2, Zenon
  <2>5. Applies(f, records, n)
    BY <2>3, <2>4, Zenon DEF Applies
  <2>6. f = g
    BY <1>2, <2>5
  <2>7. h[n + 1] = applyNext(g[n], event)
    BY <1>1, <1>3, <2>1, <2>2, <2>6, Zenon
  <2>8. \A i \in 0..(n + 1) : h[i] = IF i = n + 1 THEN applyNext(g[n], event) ELSE g[i]
    BY <1>3, <2>2, <2>6, <2>7, Zenon
  <2> QED BY <2>1, <2>8, Zenon
<1>7. k[n + 1] = applyNext(g[n], event)
  BY <1>3, Zenon
<1> HIDE DEF k
<1>8. \A h : Applies(h, long, n + 1) <=> h = k
  BY <1>5, <1>6, Zenon
<1>9. applyAll(records) = g[n] /\ applyAll(long) = k[n + 1]
  BY <1>1, <1>2, <1>8, ApplyChosen, Zenon DEF n
<1>10. \A h : Applies(h, long, Len(long)) <=> h = k
  BY <1>1, <1>8
<1>11. OnlyResult(k, long)
  BY <1>10, Zenon DEF OnlyResult
<1> QED BY <1>7, <1>9, <1>11, Zenon DEF Appliable, long

-----------------------------------------------------------------------------
(* The records of calls that change the engine, and of plans. *)
Untimed ==
    [kind : {"match_ticket_submitted"}, id : TicketIds, ticket : MatchTicket]
      \cup [kind : {"backfill_ticket_submitted"}, id : TicketIds, ticket : BackfillTicket]
      \cup [kind : {"match_ticket_cancelled"}, id : TicketIds, revision : Nat]
      \cup [kind : {"backfill_ticket_cancelled"}, id : TicketIds, revision : Nat,
            rosterVersion : Nat]
      \cup [kind : {"assignment_acknowledged"}, assignment : AssignmentIds,
            request : AcknowledgmentRequest]

Timed ==
    [kind : {"proposal_reserved"}, proposal : MatchProposal, reservation : ReservationIds,
     now : Nat]
      \cup [kind : {"reservation_confirmed"}, reservation : ReservationIds,
            assignment : AssignmentIds, now : Nat]
      \cup [kind : {"reservation_cancelled"}, reservation : ReservationIds, now : Nat]

Registrations ==
    [kind : {"policy_registered"}, version : PolicyVersions, fingerprint : Fingerprints]

Mutations == Registrations \cup Untimed \cup Timed

Batches == {batchOf(c) : c \in CoordinatorStruct}

Plans == [kind : {"plan_completed"}, snapshot : SnapshotIds, policy : PolicyVersions,
          now : Nat, batch : Batches]

Events == Mutations \cup Plans

(* The engine keeps the invariant of the coordinator. *)

EngineOK(e) ==
    /\ e \in [coordinator : CoordinatorStruct,
               policies : [PolicyVersions -> Fingerprints \cup {NoID}]]
    /\ IInv(e.coordinator)

(* What a coordinator's call leaves behind satisfies the invariant. *)
LEMMA CoordinatorCallInv ==
    ASSUME NEW c, IInv(c), NEW event \in Untimed \cup Timed
    PROVE  IInv(coordinatorCall(c, event).state)
<1> DEFINE d == coordinatorCall(c, event)
<1>1. CASE event \in [kind : {"match_ticket_submitted"}, id : TicketIds, ticket : MatchTicket]
  <2>1. event.kind = "match_ticket_submitted" /\ event.id \in TicketIds /\ event.ticket \in MatchTicket
    BY <1>1, Zenon
  <2>2. d = UpsertMatchTicket(c, event.id, event.ticket)
    BY <2>1, Zenon DEF coordinatorCall
  <2> QED BY <2>1, <2>2, UpsertMatchTicketInv, Zenon
<1>2. CASE event \in [kind : {"backfill_ticket_submitted"}, id : TicketIds, ticket : BackfillTicket]
  <2>1. event.kind = "backfill_ticket_submitted" /\ event.id \in TicketIds /\ event.ticket \in BackfillTicket
    BY <1>2, Zenon
  <2>2. d = UpsertBackfillTicket(c, event.id, event.ticket)
    BY <2>1, Zenon DEF coordinatorCall
  <2> QED BY <2>1, <2>2, UpsertBackfillTicketInv, Zenon
<1>3. CASE event \in [kind : {"match_ticket_cancelled"}, id : TicketIds, revision : Nat]
  <2>1. event.kind = "match_ticket_cancelled" /\ event.id \in TicketIds
    BY <1>3, Zenon
  <2>2. d = CancelMatchTicket(c, event.id, event.revision)
    BY <2>1, Zenon DEF coordinatorCall
  <2> QED BY <2>1, <2>2, CancelMatchTicketInv, Zenon
<1>4. CASE event \in [kind : {"backfill_ticket_cancelled"}, id : TicketIds, revision : Nat,
                      rosterVersion : Nat]
  <2>1. event.kind = "backfill_ticket_cancelled" /\ event.id \in TicketIds
    BY <1>4, Zenon
  <2>2. d = CancelBackfillTicket(c, event.id, event.revision, event.rosterVersion)
    BY <2>1, Zenon DEF coordinatorCall
  <2> QED BY <2>1, <2>2, CancelBackfillTicketInv, Zenon
<1>5. CASE event \in [kind : {"assignment_acknowledged"}, assignment : AssignmentIds,
                      request : AcknowledgmentRequest]
  <2>1. event.kind = "assignment_acknowledged" /\ event.assignment \in AssignmentIds
          /\ event.request \in AcknowledgmentRequest
    BY <1>5, Zenon
  <2>2. d = AcknowledgeAssignment(c, event.assignment, event.request)
    BY <2>1, Zenon DEF coordinatorCall
  <2> QED BY <2>1, <2>2, AcknowledgeInv, Zenon
<1>6. CASE event \in [kind : {"proposal_reserved"}, proposal : MatchProposal,
                      reservation : ReservationIds, now : Nat]
  <2>1. event.kind = "proposal_reserved" /\ event.proposal \in MatchProposal
          /\ event.reservation \in ReservationIds /\ event.now \in Nat
    BY <1>6, Zenon
  <2>2. d = Reserve(c, event.proposal, event.reservation, event.now)
    BY <2>1, Zenon DEF coordinatorCall
  <2> QED BY <2>1, <2>2, ReserveInv, Zenon
<1>7. CASE event \in [kind : {"reservation_confirmed"}, reservation : ReservationIds,
                      assignment : AssignmentIds, now : Nat]
  <2>1. event.kind = "reservation_confirmed" /\ event.reservation \in ReservationIds
          /\ event.assignment \in AssignmentIds /\ event.now \in Nat
    BY <1>7, Zenon
  <2>2. d = Confirm(c, event.reservation, event.assignment, event.now)
    BY <2>1, Zenon DEF coordinatorCall
  <2> QED BY <2>1, <2>2, ConfirmInv, Zenon
<1>8. CASE event \in [kind : {"reservation_cancelled"}, reservation : ReservationIds, now : Nat]
  <2>1. event.kind = "reservation_cancelled" /\ event.reservation \in ReservationIds
          /\ event.now \in Nat
    BY <1>8, Zenon
  <2>2. d = Cancel(c, event.reservation, event.now)
    BY <2>1, Zenon DEF coordinatorCall
  <2> QED BY <2>1, <2>2, CancelInv, Zenon
<1> QED BY <1>1, <1>2, <1>3, <1>4, <1>5, <1>6, <1>7, <1>8, Zenon DEF Untimed, Timed

(* So do the engine's calls, and the engine that a record is replayed on. *)
LEMMA EngineCallInv ==
    ASSUME NEW e, EngineOK(e), NEW event \in Mutations
    PROVE  EngineOK(engineCall(e, event).state)
<1>0. /\ e \in [coordinator : CoordinatorStruct,
                 policies : [PolicyVersions -> Fingerprints \cup {NoID}]]
      /\ IInv(e.coordinator)
  BY Zenon DEF EngineOK
<1>1. CASE event \in Registrations
  <2>1. /\ event.kind = "policy_registered"
        /\ event.version \in PolicyVersions
        /\ event.fingerprint \in Fingerprints
    BY <1>1, Zenon DEF Registrations
  <2> DEFINE d == [e EXCEPT !.policies[event.version] = event.fingerprint]
  <2>2. engineCall(e, event).state \in {e, d}
    BY <2>1, Zenon DEF engineCall, RegisterPolicy, Ok, Fail
  <2>3. d \in [coordinator : CoordinatorStruct,
                policies : [PolicyVersions -> Fingerprints \cup {NoID}]]
    BY <1>0, <2>1, Zenon
  <2>4. d.coordinator = e.coordinator
    BY <1>0, Zenon
  <2> HIDE DEF d
  <2> QED BY <1>0, <2>2, <2>3, <2>4, Zenon DEF EngineOK
<1>2. CASE event \in Untimed \cup Timed
  <2>1. event.kind # "policy_registered"
    BY <1>2, Zenon DEF Untimed, Timed
  <2> DEFINE c == coordinatorCall(e.coordinator, event).state
             d == [e EXCEPT !.coordinator = c]
  <2>2. IInv(c) /\ c \in CoordinatorStruct
    BY <1>0, <1>2, CoordinatorCallInv, Zenon DEF IInv
  <2>3. engineCall(e, event).state = d
    BY <2>1, Zenon DEF engineCall, delegated
  <2> HIDE DEF c
  <2>4. /\ d \in [coordinator : CoordinatorStruct,
                   policies : [PolicyVersions -> Fingerprints \cup {NoID}]]
        /\ d.coordinator = c
    BY <1>0, <2>2, Zenon
  <2> HIDE DEF d
  <2> QED BY <2>2, <2>3, <2>4, Zenon DEF EngineOK
<1> QED BY <1>1, <1>2, Zenon DEF Mutations

(* Planning keeps the engine well formed. *)
LEMMA EnginePlanInv ==
    ASSUME NEW e, EngineOK(e), NEW version, NEW now \in Nat
    PROVE  EngineOK(enginePlan(e, version, now).state)
<1> DEFINE c == expireLocked(e.coordinator, now)
           d == [e EXCEPT !.coordinator = c]
<1>0. /\ e \in [coordinator : CoordinatorStruct,
                 policies : [PolicyVersions -> Fingerprints \cup {NoID}]]
      /\ IInv(e.coordinator)
  BY Zenon DEF EngineOK
<1>1. IInv(c) /\ c \in CoordinatorStruct
  BY <1>0, ExpireInv, Zenon DEF IInv
<1>2. enginePlan(e, version, now).state \in {e, d}
  BY Zenon DEF enginePlan, Snapshot, Ok, Fail
<1> HIDE DEF c
<1>3. /\ d \in [coordinator : CoordinatorStruct,
                 policies : [PolicyVersions -> Fingerprints \cup {NoID}]]
      /\ d.coordinator = c
  BY <1>0, <1>1, Zenon
<1> HIDE DEF d
<1> QED BY <1>1, <1>2, <1>3, Zenon DEF EngineOK

(* So does the replay of one more record. *)
LEMMA ReplayInv ==
    ASSUME NEW done, EngineOK(done.state), NEW event \in Events
    PROVE  EngineOK(replayNext(done, event).state)
<1>1. event \in Mutations \/ event.kind = "plan_completed"
  BY Zenon DEF Events, Plans
<1> QED BY <1>1, EngineCallInv, Zenon DEF replayNext, replayRecord, Ok

(* A new engine is well formed. *)
LEMMA NewEngineOK == EngineOK(NewEngine)
<1>1. IInv(New) /\ New \in CoordinatorStruct
  BY NewInv, Zenon DEF IInv
<1>2. NewEngine.coordinator = New
  BY Zenon DEF NewEngine
<1>3. NewEngine \in [coordinator : CoordinatorStruct,
                     policies : [PolicyVersions -> Fingerprints \cup {NoID}]]
  BY <1>1, Zenon DEF NewEngine
<1> QED BY <1>1, <1>2, <1>3, Zenon DEF EngineOK

-----------------------------------------------------------------------------
(* The maps of the importer, beside the engine it runs the events on. *)

Shaped(m) ==
    m \in [engine : {m.engine}, matchTickets : {m.matchTickets},
           backfillTickets : {m.backfillTickets}, demandKinds : {m.demandKinds},
           sessions : {m.sessions}, planningRuns : {m.planningRuns},
           proposals : {m.proposals}, reservations : {m.reservations},
           reservationClaims : {m.reservationClaims}, assignments : {m.assignments}]

(* An active reservation of a coordinator c: its tickets are claimed, and  *)
(* its proposal is one of a plan.                                          *)
Claimed(m, reservation) ==
    reservation.status = "active" =>
      /\ Supply(reservation.proposal) \subseteq m.reservationClaims
      /\ \E known \in m.proposals : known[2] = reservation.proposal

TicketsOf(m, c, tickets) ==
    /\ m.matchTickets = [t \in TicketIds |-> m.matchTickets[t]]
    /\ m.backfillTickets = [t \in TicketIds |-> m.backfillTickets[t]]
    /\ SameTickets(m, c, tickets)

(* An assignment is there if and only if the journal records it. *)
AssignmentsIn(records, c) ==
    \A a \in AssignmentIds :
      c.assignments[a].status # "absent" <=> Confirmations(records, a) # {}

Maps(records, m, c) ==
    /\ m.assignments = c.assignments
    /\ m.reservations = [r \in ReservationIds |-> Reservation(c.reservations[r])]
    /\ TicketsOf(m, c, TicketIds \ Reconfirmed(records, c.assignments))
    /\ AssignmentsIn(records, c)
    /\ \A r \in ReservationIds : Claimed(m, c.reservations[r])

(* One more record. *)
LEMMA ConfirmationsGrow ==
    ASSUME NEW S, NEW records \in Seq(S), NEW event \in S, NEW a
    PROVE  LET long == Append(records, event)
               n == Len(records) + 1
               this == event.kind = "reservation_confirmed" /\ event.assignment = a
           IN /\ Confirmations(records, a) \subseteq Confirmations(long, a)
              /\ ~this => Confirmations(long, a) = Confirmations(records, a)
              /\ this => n \in Confirmations(long, a) /\ n \notin Confirmations(records, a)
BY DEF Confirmations

(* The tickets of repeated confirmations stay such, if assignments keep    *)
(* their proposals.                                                        *)
LEMMA ReconfirmedGrows ==
    ASSUME NEW S, NEW records \in Seq(S), NEW event \in S, NEW c, NEW d,
           AssignmentsIn(records, c),
           \A a \in AssignmentIds : c.assignments[a].status # "absent" =>
             d.assignments[a].proposal = c.assignments[a].proposal
    PROVE  Reconfirmed(records, c.assignments)
             \subseteq Reconfirmed(Append(records, event), d.assignments)
<1> DEFINE long == Append(records, event)
<1> SUFFICES ASSUME NEW t \in TicketIds, NEW a \in AssignmentIds,
                    t \in Held(c.assignments[a].proposal),
                    \E i, j \in Confirmations(records, a) : i # j
             PROVE  t \in Reconfirmed(long, d.assignments)
  BY Zenon DEF Reconfirmed
<1>1. d.assignments[a].proposal = c.assignments[a].proposal
  BY Zenon DEF AssignmentsIn
<1>2. Confirmations(records, a) \subseteq Confirmations(long, a)
  BY ConfirmationsGrow, Zenon
<1> HIDE DEF long
<1> QED BY <1>1, <1>2, Zenon DEF Reconfirmed

-----------------------------------------------------------------------------
(* One event on the maps. *)

(* The fields of the maps in another engine. *)
LEMMA EngineReplaced ==
    ASSUME NEW m, Shaped(m), NEW e
    PROVE  LET n == [m EXCEPT !.engine = e] IN
           /\ Shaped(n)
           /\ n.engine = e
           /\ \A field \in DOMAIN m : field # "engine" => n[field] = m[field]
BY DEF Shaped

(* expireReservations does to the maps what expireLocked does to the       *)
(* coordinator.                                                            *)
LEMMA ExpireMaps ==
    ASSUME NEW records, NEW m, Shaped(m), NEW c \in CoordinatorStruct, Maps(records, m, c),
           NEW now \in Nat
    PROVE  LET n == expireReservations(m, now) IN
           /\ Shaped(n) /\ n.engine = m.engine /\ n.proposals = m.proposals
           /\ Maps(records, n, expireLocked(c, now))
<1> DEFINE n == expireReservations(m, now)
           b == expireLocked(c, now)
           R == [r \in ReservationIds |->
                   IF m.reservations[r].status = "active" /\ now >= m.reservations[r].expiresAt
                   THEN [m.reservations[r] EXCEPT !.status = "expired"] ELSE m.reservations[r]]
<1>1. n = [m EXCEPT !.reservations = R]
  BY Zenon DEF expireReservations
<1> HIDE DEF R
<1>2. /\ Shaped(n)
      /\ n.reservations = R
      /\ n.engine = m.engine
      /\ n.proposals = m.proposals
      /\ n.assignments = m.assignments
      /\ n.matchTickets = m.matchTickets
      /\ n.backfillTickets = m.backfillTickets
      /\ n.reservationClaims = m.reservationClaims
  BY <1>1 DEF Shaped
<1>3. /\ SameDemand(b, c)
      /\ \A r \in ReservationIds :
           /\ b.reservations[r].proposal = c.reservations[r].proposal
           /\ b.reservations[r].expiresAt = c.reservations[r].expiresAt
           /\ b.reservations[r].status =
                IF c.reservations[r].status = "active" /\ now >= c.reservations[r].expiresAt
                THEN "expired" ELSE c.reservations[r].status
  BY ExpireFields, Zenon
<1> HIDE DEF n, b
<1>4. ASSUME NEW r \in ReservationIds PROVE R[r] = Reservation(b.reservations[r])
  <2>1. m.reservations[r] = Reservation(c.reservations[r])
    BY Zenon DEF Maps
  <2> QED BY <1>3, <2>1 DEF R, Reservation
<1>5. n.reservations = [r \in ReservationIds |-> Reservation(b.reservations[r])]
  BY <1>2, <1>4, Zenon DEF R
<1>6. ASSUME NEW r \in ReservationIds PROVE Claimed(n, b.reservations[r])
  <2>1. Claimed(m, c.reservations[r])
    BY Zenon DEF Maps
  <2> QED BY <1>2, <1>3, <2>1, Zenon DEF Claimed
<1>7. /\ n.assignments = b.assignments
      /\ AssignmentsIn(records, b)
      /\ TicketsOf(n, b, TicketIds \ Reconfirmed(records, b.assignments))
  <2>1. /\ m.assignments = c.assignments
        /\ AssignmentsIn(records, c)
        /\ TicketsOf(m, c, TicketIds \ Reconfirmed(records, c.assignments))
    BY Zenon DEF Maps
  <2>2. /\ b.assignments = c.assignments
        /\ b.matchTickets = c.matchTickets
        /\ b.backfillTickets = c.backfillTickets
    BY <1>3, Zenon DEF SameDemand
  <2>3. AssignmentsIn(records, b)
    BY <2>1, <2>2, Zenon DEF AssignmentsIn
  <2> QED BY <1>2, <2>1, <2>2, <2>3 DEF TicketsOf, SameTickets
<1> QED BY <1>2, <1>5, <1>6, <1>7, Zenon DEF Maps, n, b

(* A change of the maps m to n and of the coordinator c to d alike, that   *)
(* adds no assignment.                                                     *)
Alike(m, c, n, d) ==
    /\ n.assignments = d.assignments
    /\ \A a \in AssignmentIds :
         /\ d.assignments[a].proposal = c.assignments[a].proposal
         /\ d.assignments[a].status = "absent" <=> c.assignments[a].status = "absent"
    /\ n.reservations = [r \in ReservationIds |-> Reservation(d.reservations[r])]
    /\ n.matchTickets = [t \in TicketIds |-> n.matchTickets[t]]
    /\ n.backfillTickets = [t \in TicketIds |-> n.backfillTickets[t]]
    /\ \A t \in TicketIds :
         /\ m.matchTickets[t] = c.matchTickets[t] => n.matchTickets[t] = d.matchTickets[t]
         /\ m.backfillTickets[t] = c.backfillTickets[t] =>
              n.backfillTickets[t] = d.backfillTickets[t]
    /\ \A r \in ReservationIds : Claimed(n, d.reservations[r])

(* A record that changes neither the maps nor the coordinator. *)
LEMMA MapsAfter ==
    ASSUME NEW S, NEW records \in Seq(S), NEW event \in S, event.kind # "reservation_confirmed",
           NEW m, NEW c, Maps(records, m, c), NEW n, NEW d, Alike(m, c, n, d)
    PROVE  Maps(Append(records, event), n, d)
<1> DEFINE long == Append(records, event)
<1>1. \A a \in AssignmentIds : Confirmations(long, a) = Confirmations(records, a)
  BY ConfirmationsGrow
<1>2. AssignmentsIn(records, c)
  BY Zenon DEF Maps
<1>3. Reconfirmed(records, c.assignments) \subseteq Reconfirmed(long, d.assignments)
  BY <1>2, ReconfirmedGrows, Zenon DEF Alike
<1> HIDE DEF long
<1>4. AssignmentsIn(long, d)
  BY <1>1, <1>2, Zenon DEF AssignmentsIn, Alike
<1>5. SameTickets(n, d, TicketIds \ Reconfirmed(long, d.assignments))
  BY <1>3, Zenon DEF Maps, TicketsOf, SameTickets, Alike
<1> QED BY <1>4, <1>5, Zenon DEF Maps, TicketsOf, long, Alike

(* The maps do not include the importer's engine. *)
LEMMA MapsEngine ==
    ASSUME NEW records, NEW m, Shaped(m), NEW c, Maps(records, m, c), NEW e
    PROVE  Maps(records, [m EXCEPT !.engine = e], c)
<1> DEFINE n == [m EXCEPT !.engine = e]
<1>1. /\ n.reservations = m.reservations
      /\ n.proposals = m.proposals
      /\ n.assignments = m.assignments
      /\ n.matchTickets = m.matchTickets
      /\ n.backfillTickets = m.backfillTickets
      /\ n.reservationClaims = m.reservationClaims
  BY DEF Shaped
<1> HIDE DEF n
<1> QED BY <1>1, Zenon DEF Maps, TicketsOf, SameTickets, Claimed, n

(* Only the tickets change, and one of them alike. *)
KeptBeside(m, n) ==
    /\ Shaped(n) /\ n.engine = m.engine
    /\ n.assignments = m.assignments /\ n.reservations = m.reservations
    /\ n.proposals = m.proposals /\ n.reservationClaims = m.reservationClaims
    /\ n.matchTickets = [t \in TicketIds |-> n.matchTickets[t]]
    /\ n.backfillTickets = [t \in TicketIds |-> n.backfillTickets[t]]

PutsMatch(x, y, id, ticket) ==
    /\ \A t \in TicketIds : y.matchTickets[t] = IF t = id THEN ticket ELSE x.matchTickets[t]
    /\ y.backfillTickets = x.backfillTickets

PutsBackfill(x, y, id, ticket) ==
    /\ \A t \in TicketIds :
         y.backfillTickets[t] = IF t = id THEN ticket ELSE x.backfillTickets[t]
    /\ y.matchTickets = x.matchTickets

(* A ticket put in the maps and in the coordinator alike. *)
LEMMA PutMaps ==
    ASSUME NEW records \in Seq(Events), NEW event \in Events,
           event.kind # "reservation_confirmed",
           NEW m, NEW c, Maps(records, m, c), NEW n, KeptBeside(m, n),
           NEW d, d.assignments = c.assignments /\ d.reservations = c.reservations,
           NEW id, NEW ticket,
           \/ PutsMatch(m, n, id, ticket) /\ PutsMatch(c, d, id, ticket)
           \/ PutsBackfill(m, n, id, ticket) /\ PutsBackfill(c, d, id, ticket)
    PROVE  Maps(Append(records, event), n, d)
<1>1. \A r \in ReservationIds : Claimed(n, d.reservations[r])
  BY DEF Maps, Claimed, KeptBeside
<1>2. n.reservations = [r \in ReservationIds |-> Reservation(d.reservations[r])]
  BY Zenon DEF Maps, KeptBeside
<1>3. \A t \in TicketIds :
        /\ m.matchTickets[t] = c.matchTickets[t] => n.matchTickets[t] = d.matchTickets[t]
        /\ m.backfillTickets[t] = c.backfillTickets[t] =>
             n.backfillTickets[t] = d.backfillTickets[t]
  BY Zenon DEF PutsMatch, PutsBackfill
<1>4. Alike(m, c, n, d)
  BY <1>1, <1>2, <1>3, Zenon DEF Alike, Maps, KeptBeside
<1> QED BY <1>4, MapsAfter

(* An acknowledgment; d is what the call has left in the importer's engine. *)
LEMMA AcknowledgedMaps ==
    ASSUME NEW records \in Seq(Events), NEW event \in Events,
           event.kind = "assignment_acknowledged", event.assignment \in AssignmentIds,
           event.request \in AcknowledgmentRequest,
           NEW m, Shaped(m), NEW c \in CoordinatorStruct, Maps(records, m, c),
           AcknowledgeAssignment(c, event.assignment, event.request).failure = "none",
           NEW d, d = AcknowledgeAssignment(c, event.assignment, event.request).state,
           d \in CoordinatorStruct, m.engine.coordinator = d
    PROVE  LET n == assignmentAcknowledged(m, event) IN
           /\ Shaped(n) /\ n.engine = m.engine
           /\ Maps(Append(records, event), n, d)
<1> DEFINE n == assignmentAcknowledged(m, event)
           a == event.assignment
<1>1. /\ m.assignments = c.assignments
      /\ m.reservations = [r \in ReservationIds |-> Reservation(c.reservations[r])]
      /\ m.matchTickets = [t \in TicketIds |-> m.matchTickets[t]]
      /\ m.backfillTickets = [t \in TicketIds |-> m.backfillTickets[t]]
  BY Zenon DEF Maps, TicketsOf
<1>2. /\ \A b \in AssignmentIds :
           /\ b # a => d.assignments[b] = c.assignments[b]
           /\ d.assignments[b].proposal = c.assignments[b].proposal
           /\ d.assignments[b].status = "absent" <=> c.assignments[b].status = "absent"
      /\ d.matchTickets = c.matchTickets
      /\ d.backfillTickets = c.backfillTickets
      /\ d.reservations = c.reservations
  BY Acknowledges
<1>3. /\ Shaped(n) /\ n.engine = m.engine
      /\ n.assignments = [m.assignments EXCEPT ![a] = d.assignments[a]]
      /\ n.reservations = m.reservations
      /\ n.proposals = m.proposals
      /\ n.reservationClaims = m.reservationClaims
      /\ n.matchTickets = m.matchTickets
      /\ n.backfillTickets = m.backfillTickets
  BY DEF Shaped, assignmentAcknowledged
<1>4. /\ c.assignments = [b \in AssignmentIds |-> c.assignments[b]]
      /\ d.assignments = [b \in AssignmentIds |-> d.assignments[b]]
  BY DEF CoordinatorStruct
<1> HIDE DEF n
<1>5. n.assignments = d.assignments
  <2>1. n.assignments = [c.assignments EXCEPT ![a] = d.assignments[a]]
    BY <1>1, <1>3, Zenon
  <2>2. n.assignments = [b \in AssignmentIds |->
                           IF b = a THEN d.assignments[a] ELSE c.assignments[b]]
    BY <1>4, <2>1
  <2>3. \A b \in AssignmentIds :
          d.assignments[b] = IF b = a THEN d.assignments[a] ELSE c.assignments[b]
    BY <1>2, Zenon
  <2> QED BY <1>4, <2>2, <2>3, Zenon
<1>6. \A r \in ReservationIds : Claimed(n, d.reservations[r])
  <2>1. \A r \in ReservationIds : Claimed(m, c.reservations[r])
    BY Zenon DEF Maps
  <2> QED BY <1>2, <1>3, <2>1 DEF Claimed
<1>7. Alike(m, c, n, d)
  BY <1>1, <1>2, <1>3, <1>5, <1>6, Zenon DEF Alike
<1>8. Maps(Append(records, event), n, d)
  BY <1>7, MapsAfter
<1> QED BY <1>3, <1>8, Zenon DEF n

(* Only the reservation r changes. *)
LEMMA ReservationAlike ==
    ASSUME NEW records, NEW m, NEW b, Maps(records, m, b), NEW n, NEW d,
           NEW r \in ReservationIds,
           /\ n.assignments = m.assignments
           /\ n.matchTickets = m.matchTickets
           /\ n.backfillTickets = m.backfillTickets
           /\ n.proposals = m.proposals
           /\ m.reservationClaims \subseteq n.reservationClaims
           /\ n.reservations = [m.reservations EXCEPT ![r] = Reservation(d.reservations[r])],
           /\ d.assignments = b.assignments
           /\ d.matchTickets = b.matchTickets
           /\ d.backfillTickets = b.backfillTickets
           /\ \A q \in ReservationIds : q # r => d.reservations[q] = b.reservations[q],
           Claimed(n, d.reservations[r])
    PROVE  Alike(m, b, n, d)
<1>1. /\ m.assignments = b.assignments
      /\ m.reservations = [q \in ReservationIds |-> Reservation(b.reservations[q])]
      /\ m.matchTickets = [t \in TicketIds |-> m.matchTickets[t]]
      /\ m.backfillTickets = [t \in TicketIds |-> m.backfillTickets[t]]
  BY Zenon DEF Maps, TicketsOf
<1>2. ASSUME NEW q \in ReservationIds PROVE Claimed(n, d.reservations[q])
  <2>1. Claimed(m, b.reservations[q])
    BY Zenon DEF Maps
  <2> QED BY <2>1, Zenon DEF Claimed
<1>3. n.reservations = [q \in ReservationIds |-> Reservation(d.reservations[q])]
  BY <1>1
<1> QED BY <1>1, <1>2, <1>3, Zenon DEF Alike

(* The maps after a reservation. *)
LEMMA ReservedMaps ==
    ASSUME NEW records \in Seq(Events), NEW event \in Events,
           event.kind = "proposal_reserved", event.reservation \in ReservationIds,
           NEW m, Shaped(m), NEW b \in CoordinatorStruct, Maps(records, m, b),
           NEW d, m.engine.coordinator = d,
           LET ended == b.reservations[event.reservation].status IN
             \/ ended \in {"active", "confirmed"} /\ d = b
             \/ /\ ended = "absent"
                /\ d = Reserved(b, event.proposal, event.reservation, event.now),
           \E known \in m.proposals : known[2] = event.proposal
    PROVE  LET n == proposalReserved(m, event) IN
           /\ Shaped(n) /\ n.engine = m.engine
           /\ Maps(Append(records, event), n, d)
<1> DEFINE n == proposalReserved(m, event)
           r == event.reservation
           x == Reserved(b, event.proposal, r, event.now)
<1>1. /\ Shaped(n) /\ n.engine = m.engine
      /\ n.assignments = m.assignments
      /\ n.matchTickets = m.matchTickets
      /\ n.backfillTickets = m.backfillTickets
      /\ n.proposals = m.proposals
      /\ m.reservationClaims \subseteq n.reservationClaims
      /\ Supply(event.proposal) \subseteq n.reservationClaims
      /\ n.reservations = [m.reservations EXCEPT ![r] = Reservation(d.reservations[r])]
  BY Zenon DEF Shaped, proposalReserved
<1>2. /\ x.assignments = b.assignments
      /\ x.matchTickets = b.matchTickets
      /\ x.backfillTickets = b.backfillTickets
      /\ \A q \in ReservationIds : q # r => x.reservations[q] = b.reservations[q]
      /\ x.reservations[r].proposal = event.proposal
  BY DEF Reserved, CoordinatorStruct
<1>3. d = b \/ d = x
  OBVIOUS
<1> HIDE DEF n, x
<1>4. Claimed(m, b.reservations[r])
  BY Zenon DEF Maps
<1>5. Claimed(n, d.reservations[r])
  BY <1>1, <1>2, <1>3, <1>4 DEF Claimed
<1>6. /\ d.assignments = b.assignments
      /\ d.matchTickets = b.matchTickets
      /\ d.backfillTickets = b.backfillTickets
      /\ \A q \in ReservationIds : q # r => d.reservations[q] = b.reservations[q]
  BY <1>2, <1>3
<1>7. Alike(m, b, n, d)
  BY <1>1, <1>5, <1>6, ReservationAlike, Zenon
<1>8. Maps(Append(records, event), n, d)
  BY <1>7, MapsAfter
<1> QED BY <1>1, <1>8, Zenon DEF n

(* The maps after a cancellation. *)
LEMMA CancelledMaps ==
    ASSUME NEW records \in Seq(Events), NEW event \in Events,
           event.kind = "reservation_cancelled", event.reservation \in ReservationIds,
           NEW m, Shaped(m), NEW b \in CoordinatorStruct, Maps(records, m, b),
           NEW d, m.engine.coordinator = d,
           d \in {b, endReservations(b, {event.reservation}, "cancelled")}
    PROVE  LET n == reservationCancelled(m, event) IN
           /\ Shaped(n) /\ n.engine = m.engine
           /\ Maps(Append(records, event), n, d)
<1> DEFINE n == reservationCancelled(m, event)
           r == event.reservation
           x == endReservations(b, {r}, "cancelled")
<1>1. /\ Shaped(n) /\ n.engine = m.engine
      /\ n.assignments = m.assignments
      /\ n.matchTickets = m.matchTickets
      /\ n.backfillTickets = m.backfillTickets
      /\ n.proposals = m.proposals
      /\ m.reservationClaims \subseteq n.reservationClaims
      /\ m.reservationClaims = n.reservationClaims
      /\ n.reservations = [m.reservations EXCEPT ![r] = Reservation(d.reservations[r])]
  BY DEF Shaped, reservationCancelled
<1>2. /\ SameDemand(x, b)
      /\ \A q \in ReservationIds : q # r => x.reservations[q] = b.reservations[q]
      /\ x.reservations[r].status = "cancelled"
  BY CancelledFields, Zenon
<1>3. d = b \/ d = x
  OBVIOUS
<1> HIDE DEF n, x
<1>4. Claimed(m, b.reservations[r])
  BY Zenon DEF Maps
<1>5. Claimed(n, d.reservations[r])
  BY <1>1, <1>2, <1>3, <1>4 DEF Claimed
<1>6. /\ d.assignments = b.assignments
      /\ d.matchTickets = b.matchTickets
      /\ d.backfillTickets = b.backfillTickets
      /\ \A q \in ReservationIds : q # r => d.reservations[q] = b.reservations[q]
  BY <1>2, <1>3 DEF SameDemand
<1>7. Alike(m, b, n, d)
  BY <1>1, <1>5, <1>6, ReservationAlike, Zenon
<1>8. Maps(Append(records, event), n, d)
  BY <1>7, MapsAfter
<1> QED BY <1>1, <1>8, Zenon DEF n

(* A plan adds a run and its proposals; b is the engine's coordinator,     *)
(* after expiry.                                                           *)
LEMMA PlannedMaps ==
    ASSUME NEW records \in Seq(Events), NEW event \in Events,
           event.kind = "plan_completed",
           NEW m, Shaped(m), NEW b \in CoordinatorStruct, Maps(records, m, b)
    PROVE  LET n == planCompleted(m, event) IN
           /\ Shaped(n) /\ n.engine = m.engine
           /\ Maps(Append(records, event), n, b)
<1> DEFINE n == planCompleted(m, event)
<1>1. /\ Shaped(n) /\ n.engine = m.engine
      /\ n.assignments = m.assignments
      /\ n.matchTickets = m.matchTickets
      /\ n.backfillTickets = m.backfillTickets
      /\ m.proposals \subseteq n.proposals
      /\ n.reservationClaims = m.reservationClaims
      /\ n.reservations = m.reservations
  BY Zenon DEF Shaped, planCompleted
<1> HIDE DEF n
<1>2. ASSUME NEW q \in ReservationIds PROVE Claimed(n, b.reservations[q])
  <2>1. Claimed(m, b.reservations[q])
    BY Zenon DEF Maps
  <2> QED BY <1>1, <2>1, Zenon DEF Claimed
<1>3. Alike(m, b, n, b)
  BY <1>1, <1>2, Zenon DEF Alike, Maps, TicketsOf
<1>4. Maps(Append(records, event), n, b)
  BY <1>3, MapsAfter
<1> QED BY <1>1, <1>4, Zenon DEF n

(* What the importer makes of a confirmation; c is in its engine. *)
Confirming(m, n, event, c) ==
    LET assignment == c.assignments[event.assignment] IN
    /\ Shaped(n) /\ n.engine = m.engine
    /\ n.proposals = m.proposals
    /\ n.reservationClaims = m.reservationClaims
    /\ n.reservations = [m.reservations EXCEPT ![event.reservation].status = "confirmed"]
    /\ n.assignments = [m.assignments EXCEPT ![event.assignment] = assignment]
    /\ n.matchTickets = [t \in TicketIds |->
         IF t \in Supply(assignment.proposal) THEN NoMatchTicket ELSE m.matchTickets[t]]
    /\ n.backfillTickets = [t \in TicketIds |->
         IF t = assignment.proposal.backfill.ticket THEN NoBackfillTicket
         ELSE m.backfillTickets[t]]

(* The fields that reservationConfirmed changes, one by one. *)
LEMMA ConfirmedFields ==
    ASSUME NEW m, Shaped(m), NEW event, NEW c, m.engine.coordinator = c
    PROVE  Confirming(m, reservationConfirmed(m, event), event, c)
BY Zenon DEF Shaped, reservationConfirmed, Confirming

(* What a confirmation, repeated or not, makes of the coordinator b. *)
Settles(records, event, b, d) ==
    LET r == event.reservation
        a == event.assignment
        p == d.assignments[a].proposal
    IN /\ \A q \in ReservationIds :
            /\ Reservation(d.reservations[q]) =
                 IF q = r THEN [Reservation(b.reservations[q]) EXCEPT !.status = "confirmed"]
                 ELSE Reservation(b.reservations[q])
            /\ d.reservations[q].status = "active" => d.reservations[q] = b.reservations[q]
       /\ d.assignments = [b.assignments EXCEPT ![a] = d.assignments[a]]
       /\ d.assignments[a].status # "absent"
       /\ \A o \in AssignmentIds :
            /\ o # a => d.assignments[o] = b.assignments[o]
            /\ b.assignments[o].status # "absent" =>
                 d.assignments[o].proposal = b.assignments[o].proposal
       /\ \A t \in TicketIds \ Reconfirmed(Append(records, event), d.assignments) :
            /\ d.matchTickets[t] =
                 IF t \in Supply(p) THEN NoMatchTicket ELSE b.matchTickets[t]
            /\ d.backfillTickets[t] =
                 IF t = p.backfill.ticket THEN NoBackfillTicket ELSE b.backfillTickets[t]

(* The maps after a confirmation, first or repeated. *)
LEMMA SettledMaps ==
    ASSUME NEW records \in Seq(Events), NEW event \in Events,
           event.kind = "reservation_confirmed", event.reservation \in ReservationIds,
           event.assignment \in AssignmentIds,
           NEW m, Shaped(m), NEW b, Maps(records, m, b),
           NEW d, m.engine.coordinator = d, Settles(records, event, b, d)
    PROVE  LET n == reservationConfirmed(m, event) IN
           /\ Shaped(n) /\ n.engine = m.engine
           /\ Maps(Append(records, event), n, d)
<1> DEFINE n == reservationConfirmed(m, event)
           long == Append(records, event)
           a == event.assignment
<1>1. Confirming(m, n, event, d)
  BY ConfirmedFields, Zenon
<1>2. /\ Len(records) + 1 \in Confirmations(long, a)
      /\ \A o : o # a => Confirmations(long, o) = Confirmations(records, o)
  BY ConfirmationsGrow
<1>3. /\ AssignmentsIn(records, b)
      /\ d.assignments[a].status # "absent"
      /\ \A o \in AssignmentIds : o # a => d.assignments[o] = b.assignments[o]
      /\ \A o \in AssignmentIds : b.assignments[o].status # "absent" =>
           d.assignments[o].proposal = b.assignments[o].proposal
  BY Zenon DEF Maps, Settles
<1>4. /\ \A q \in ReservationIds : /\ m.reservations[q] = Reservation(b.reservations[q])
                                   /\ Claimed(m, b.reservations[q])
      /\ m.reservations = [q \in ReservationIds |-> m.reservations[q]]
  BY Zenon DEF Maps
<1>5. Reconfirmed(records, b.assignments) \subseteq Reconfirmed(long, d.assignments)
  BY <1>3, ReconfirmedGrows, Zenon
<1> HIDE DEF n, long
<1>6. ASSUME NEW t \in TicketIds \ Reconfirmed(long, d.assignments)
      PROVE  /\ n.matchTickets[t] = d.matchTickets[t]
             /\ n.backfillTickets[t] = d.backfillTickets[t]
  <2>1. /\ m.matchTickets[t] = b.matchTickets[t]
        /\ m.backfillTickets[t] = b.backfillTickets[t]
    BY <1>5, Zenon DEF Maps, TicketsOf, SameTickets
  <2>2. LET p == d.assignments[a].proposal IN
        /\ n.matchTickets[t] = IF t \in Supply(p) THEN NoMatchTicket ELSE m.matchTickets[t]
        /\ n.backfillTickets[t] =
             IF t = p.backfill.ticket THEN NoBackfillTicket ELSE m.backfillTickets[t]
    BY <1>1, Zenon DEF Confirming
  <2>3. LET p == d.assignments[a].proposal IN
        /\ d.matchTickets[t] = IF t \in Supply(p) THEN NoMatchTicket ELSE b.matchTickets[t]
        /\ d.backfillTickets[t] =
             IF t = p.backfill.ticket THEN NoBackfillTicket ELSE b.backfillTickets[t]
    BY Zenon DEF Settles, long
  <2> QED BY <2>1, <2>2, <2>3, Zenon
<1>7. ASSUME NEW q \in ReservationIds
      PROVE  /\ n.reservations[q] = Reservation(d.reservations[q])
             /\ Claimed(n, d.reservations[q])
  <2>1. n.reservations[q] = IF q = event.reservation
                            THEN [m.reservations[q] EXCEPT !.status = "confirmed"]
                            ELSE m.reservations[q]
    BY <1>1, <1>4, Zenon DEF Confirming
  <2>2. /\ Reservation(d.reservations[q]) =
             IF q = event.reservation
             THEN [Reservation(b.reservations[q]) EXCEPT !.status = "confirmed"]
             ELSE Reservation(b.reservations[q])
        /\ d.reservations[q].status = "active" => d.reservations[q] = b.reservations[q]
    BY Zenon DEF Settles
  <2>3. n.reservations[q] = Reservation(d.reservations[q])
    BY <1>4, <2>1, <2>2, Zenon
  <2>4. n.proposals = m.proposals /\ n.reservationClaims = m.reservationClaims
    BY <1>1, Zenon DEF Confirming
  <2> QED BY <1>4, <2>2, <2>3, <2>4 DEF Claimed
<1>8. n.reservations = [q \in ReservationIds |-> Reservation(d.reservations[q])]
  BY <1>1, <1>4, <1>7, Zenon DEF Confirming
<1>9. n.assignments = d.assignments
  BY <1>1, Zenon DEF Confirming, Settles, Maps
<1>10. AssignmentsIn(long, d)
  BY <1>2, <1>3 DEF AssignmentsIn
<1>11. /\ Shaped(n) /\ n.engine = m.engine
       /\ TicketsOf(n, d, TicketIds \ Reconfirmed(long, d.assignments))
  BY <1>1, <1>6, Zenon DEF TicketsOf, SameTickets, Confirming
<1> QED BY <1>7, <1>8, <1>9, <1>10, <1>11, Zenon DEF Maps, n, long

(* A confirmation of an assignment that the journal holds already. *)
LEMMA RetrySettles ==
    ASSUME NEW records \in Seq(Events), NEW event \in Events,
           event.kind = "reservation_confirmed", event.reservation \in ReservationIds,
           event.assignment \in AssignmentIds,
           NEW b \in CoordinatorStruct, AssignmentsIn(records, b),
           Retried(b, event.reservation, event.assignment)
    PROVE  Settles(records, event, b, b)
<1> DEFINE long == Append(records, event)
           r == event.reservation
           a == event.assignment
<1>1. \E i, j \in Confirmations(long, a) : i # j
  <2>1. /\ Len(records) + 1 \in Confirmations(long, a)
        /\ Len(records) + 1 \notin Confirmations(records, a)
        /\ Confirmations(records, a) \subseteq Confirmations(long, a)
    BY ConfirmationsGrow
  <2>2. PICK i : i \in Confirmations(records, a)
    BY Zenon DEF AssignmentsIn, Retried
  <2> QED BY <2>1, <2>2, Zenon
<1> HIDE DEF long
<1>2. \A t \in TicketIds \ Reconfirmed(long, b.assignments) :
        LET p == b.assignments[a].proposal IN t \notin Supply(p) /\ t # p.backfill.ticket
  BY <1>1, Zenon DEF Reconfirmed, Held
<1>3. [Reservation(b.reservations[r]) EXCEPT !.status = "confirmed"]
        = Reservation(b.reservations[r])
  BY DEF Reservation, Retried
<1>4. b.assignments = [b.assignments EXCEPT ![a] = b.assignments[a]]
  BY Zenon DEF CoordinatorStruct
<1> QED BY <1>2, <1>3, <1>4, Zenon DEF Settles, Retried, long

(* The first confirmation of an assignment. *)
LEMMA ConsumeSettles ==
    ASSUME NEW records, NEW event, event.reservation \in ReservationIds,
           event.assignment \in AssignmentIds, NEW b \in CoordinatorStruct, NEW d,
           b.assignments[event.assignment].status = "absent",
           Consumed(b, d, event.reservation, event.assignment, event.now)
    PROVE  Settles(records, event, b, d)
<1> DEFINE r == event.reservation
           a == event.assignment
           p == b.reservations[r].proposal
<1>1. b.assignments \in [AssignmentIds -> Assignment] /\ b.reservations[r] \in ReservationRecord
  BY Zenon DEF CoordinatorStruct
<1>2. /\ d.assignments[a].proposal = p
      /\ d.assignments[a].status = "pending"
      /\ \A o \in AssignmentIds : o # a => d.assignments[o] = b.assignments[o]
      /\ d.assignments = [b.assignments EXCEPT ![a] = d.assignments[a]]
  BY <1>1 DEF Consumed
<1>3. /\ d.reservations[r].status = "confirmed"
      /\ Reservation(d.reservations[r])
           = [Reservation(b.reservations[r]) EXCEPT !.status = "confirmed"]
  BY <1>1 DEF Consumed, Reservation, ReservationRecord
<1>4. /\ \A q \in ReservationIds : q # r => d.reservations[q] = b.reservations[q]
      /\ \A t \in TicketIds :
           /\ d.matchTickets[t] = IF t \in Supply(p) THEN NoMatchTicket ELSE b.matchTickets[t]
           /\ d.backfillTickets[t] =
                IF t = p.backfill.ticket THEN NoBackfillTicket ELSE b.backfillTickets[t]
  BY DEF Consumed
<1> QED BY <1>2, <1>3, <1>4 DEF Settles

(* The event on the maps, once the engine of m took it. *)
Normalized(records, m, event, d) ==
    LET n == Normalize(m, event) IN
    /\ Shaped(n) /\ n.engine = m.engine
    /\ Maps(Append(records, event), n, d)

(* The maps after a call that takes no time. *)
LEMMA UntimedMaps ==
    ASSUME NEW records \in Seq(Events), NEW event \in Events, event \in Untimed,
           NEW m, Shaped(m), NEW c \in CoordinatorStruct, Maps(records, m, c),
           coordinatorCall(c, event).failure = "none",
           NEW d \in CoordinatorStruct, d = coordinatorCall(c, event).state,
           m.engine.coordinator = d
    PROVE  Normalized(records, m, event, d)
<1>0. /\ m.matchTickets = [t \in TicketIds |-> m.matchTickets[t]]
      /\ m.backfillTickets = [t \in TicketIds |-> m.backfillTickets[t]]
  BY Zenon DEF Maps, TicketsOf
<1>1. CASE event \in [kind : {"match_ticket_submitted"}, id : TicketIds, ticket : MatchTicket]
  <2> DEFINE n == matchTicketSubmitted(m, event)
  <2>1. /\ event.kind = "match_ticket_submitted" /\ event.id \in TicketIds
        /\ event.ticket \in MatchTicket
    BY <1>1, Zenon
  <2>2. /\ coordinatorCall(c, event) =
             UpsertMatchTicket(c, event.id, event.ticket)
        /\ Normalize(m, event) = n
    BY <2>1, Zenon DEF coordinatorCall, Normalize
  <2>3. KeptBeside(m, n) /\ PutsMatch(m, n, event.id, event.ticket)
    BY <1>0, <2>1, Zenon DEF KeptBeside, PutsMatch, Shaped, matchTicketSubmitted
  <2>4. /\ PutsMatch(c, d, event.id, event.ticket)
        /\ d.assignments = c.assignments /\ d.reservations = c.reservations
    BY <2>1, <2>2, SubmitsMatch DEF PutsMatch
  <2> HIDE DEF n
  <2>5. Maps(Append(records, event), n, d)
    BY <2>1, <2>3, <2>4, PutMaps
  <2> QED BY <2>2, <2>3, <2>5, Zenon DEF Normalized, KeptBeside
<1>2. CASE event \in [kind : {"backfill_ticket_submitted"}, id : TicketIds, ticket : BackfillTicket]
  <2> DEFINE n == backfillSubmitted(m, event)
  <2>1. /\ event.kind = "backfill_ticket_submitted" /\ event.id \in TicketIds
        /\ event.ticket \in BackfillTicket
    BY <1>2, Zenon
  <2>2. /\ coordinatorCall(c, event) =
             UpsertBackfillTicket(c, event.id, event.ticket)
        /\ Normalize(m, event) = n
    BY <2>1, Zenon DEF coordinatorCall, Normalize
  <2>3. KeptBeside(m, n) /\ PutsBackfill(m, n, event.id, event.ticket)
    BY <1>0, <2>1, Zenon DEF KeptBeside, PutsBackfill, Shaped, backfillSubmitted
  <2>4. /\ PutsBackfill(c, d, event.id, event.ticket)
        /\ d.assignments = c.assignments /\ d.reservations = c.reservations
    BY <2>1, <2>2, SubmitsBackfill DEF PutsBackfill
  <2> HIDE DEF n
  <2>5. Maps(Append(records, event), n, d)
    BY <2>1, <2>3, <2>4, PutMaps
  <2> QED BY <2>2, <2>3, <2>5, Zenon DEF Normalized, KeptBeside
<1>3. CASE event \in [kind : {"match_ticket_cancelled"}, id : TicketIds, revision : Nat]
  <2> DEFINE n == [m EXCEPT !.matchTickets[event.id] = NoMatchTicket]
  <2>1. event.kind = "match_ticket_cancelled" /\ event.id \in TicketIds
    BY <1>3, Zenon
  <2>2. /\ coordinatorCall(c, event) =
             CancelMatchTicket(c, event.id, event.revision)
        /\ Normalize(m, event) = n
    BY <2>1, Zenon DEF coordinatorCall, Normalize
  <2>3. KeptBeside(m, n) /\ PutsMatch(m, n, event.id, NoMatchTicket)
    BY <1>0, <2>1, Zenon DEF KeptBeside, PutsMatch, Shaped
  <2>4. /\ PutsMatch(c, d, event.id, NoMatchTicket)
        /\ d.assignments = c.assignments /\ d.reservations = c.reservations
    BY <2>1, <2>2, CancelsMatch DEF PutsMatch
  <2> HIDE DEF n
  <2>5. Maps(Append(records, event), n, d)
    BY <2>1, <2>3, <2>4, PutMaps
  <2> QED BY <2>2, <2>3, <2>5, Zenon DEF Normalized, KeptBeside
<1>4. CASE event \in [kind : {"backfill_ticket_cancelled"}, id : TicketIds, revision : Nat,
                      rosterVersion : Nat]
  <2> DEFINE n == [m EXCEPT !.backfillTickets[event.id] = NoBackfillTicket]
  <2>1. event.kind = "backfill_ticket_cancelled" /\ event.id \in TicketIds
    BY <1>4, Zenon
  <2>2. /\ coordinatorCall(c, event) =
             CancelBackfillTicket(c, event.id, event.revision, event.rosterVersion)
        /\ Normalize(m, event) = n
    BY <2>1, Zenon DEF coordinatorCall, Normalize
  <2>3. KeptBeside(m, n) /\ PutsBackfill(m, n, event.id, NoBackfillTicket)
    BY <1>0, <2>1, Zenon DEF KeptBeside, PutsBackfill, Shaped
  <2>4. /\ PutsBackfill(c, d, event.id, NoBackfillTicket)
        /\ d.assignments = c.assignments /\ d.reservations = c.reservations
    BY <2>1, <2>2, CancelsBackfill DEF PutsBackfill
  <2> HIDE DEF n
  <2>5. Maps(Append(records, event), n, d)
    BY <2>1, <2>3, <2>4, PutMaps
  <2> QED BY <2>2, <2>3, <2>5, Zenon DEF Normalized, KeptBeside
<1>5. CASE event \in [kind : {"assignment_acknowledged"}, assignment : AssignmentIds,
                      request : AcknowledgmentRequest]
  <2>1. /\ event.kind = "assignment_acknowledged"
        /\ event.assignment \in AssignmentIds
        /\ event.request \in AcknowledgmentRequest
    BY <1>5, Zenon
  <2>2. coordinatorCall(c, event) = AcknowledgeAssignment(c, event.assignment, event.request)
    BY <2>1, Zenon DEF coordinatorCall
  <2>3. Normalize(m, event) = assignmentAcknowledged(m, event)
    BY <2>1, Zenon DEF Normalize
  <2>4. LET n == assignmentAcknowledged(m, event) IN
        /\ Shaped(n) /\ n.engine = m.engine
        /\ Maps(Append(records, event), n, d)
    BY <2>1, <2>2, AcknowledgedMaps
  <2> QED BY <2>3, <2>4, Zenon DEF Normalized
<1> QED BY <1>1, <1>2, <1>3, <1>4, <1>5, Zenon DEF Untimed

(* The maps after a call as of a time, once both sides have expired. *)
LEMMA TimedMaps ==
    ASSUME NEW records \in Seq(Events), NEW event \in Events, event \in Timed,
           NEW m, Shaped(m), NEW c, IInv(c), Maps(records, m, expireLocked(c, event.now)),
           coordinatorCall(c, event).failure = "none",
           NEW d \in CoordinatorStruct, d = coordinatorCall(c, event).state,
           m.engine.coordinator = d,
           event.kind = "proposal_reserved" => \E known \in m.proposals : known[2] = event.proposal
    PROVE  Normalized(records, m, event, d)
<1> DEFINE b == expireLocked(c, event.now)
<1>0. event.now \in Nat
  BY Zenon DEF Timed
<1>1. b \in CoordinatorStruct /\ IInv(b)
  BY <1>0, ExpireInv, Zenon DEF IInv
<1>2. CASE event \in [kind : {"proposal_reserved"}, proposal : MatchProposal,
                      reservation : ReservationIds, now : Nat]
  <2>1. event.kind = "proposal_reserved" /\ event.reservation \in ReservationIds
    BY <1>2, Zenon
  <2>2. coordinatorCall(c, event) = Reserve(c, event.proposal, event.reservation, event.now)
    BY <2>1, Zenon DEF coordinatorCall
  <2>3. Normalize(m, event) = proposalReserved(m, event)
    BY <2>1, Zenon DEF Normalize
  <2>4. b.reservations[event.reservation].status \in ReservationStatuses \cup {"absent"}
    BY <1>1, <2>1, Zenon DEF CoordinatorStruct, ReservationRecord
  <2>5. LET ended == b.reservations[event.reservation].status IN
        \/ ended \in {"active", "confirmed"} /\ d = b
        \/ /\ ended = "absent"
           /\ d = Reserved(b, event.proposal, event.reservation, event.now)
    BY <2>2, <2>4, ReserveEnds
  <2> HIDE DEF b
  <2>6. Maps(records, m, b)
    BY Zenon DEF b
  <2>7. LET n == proposalReserved(m, event) IN
        /\ Shaped(n) /\ n.engine = m.engine
        /\ Maps(Append(records, event), n, d)
    BY <1>1, <2>1, <2>5, <2>6, ReservedMaps
  <2> QED BY <2>3, <2>7, Zenon DEF Normalized
<1>3. CASE event \in [kind : {"reservation_cancelled"}, reservation : ReservationIds, now : Nat]
  <2>1. event.kind = "reservation_cancelled" /\ event.reservation \in ReservationIds
    BY <1>3, Zenon
  <2>2. coordinatorCall(c, event) = Cancel(c, event.reservation, event.now)
    BY <2>1, Zenon DEF coordinatorCall
  <2>3. Normalize(m, event) = reservationCancelled(m, event)
    BY <2>1, Zenon DEF Normalize
  <2>4. d \in {b, endReservations(b, {event.reservation}, "cancelled")}
    BY <2>2, CancelEnds
  <2> HIDE DEF b
  <2>5. Maps(records, m, b)
    BY Zenon DEF b
  <2>6. LET n == reservationCancelled(m, event) IN
        /\ Shaped(n) /\ n.engine = m.engine
        /\ Maps(Append(records, event), n, d)
    BY <1>1, <2>1, <2>4, <2>5, CancelledMaps, Zenon
  <2> QED BY <2>3, <2>6, Zenon DEF Normalized
<1>4. CASE event \in [kind : {"reservation_confirmed"}, reservation : ReservationIds,
                      assignment : AssignmentIds, now : Nat]
  <2>1. /\ event.kind = "reservation_confirmed"
        /\ event.reservation \in ReservationIds
        /\ event.assignment \in AssignmentIds
    BY <1>4, Zenon
  <2>2. coordinatorCall(c, event) = Confirm(c, event.reservation, event.assignment, event.now)
    BY <2>1, Zenon DEF coordinatorCall
  <2>3. Normalize(m, event) = reservationConfirmed(m, event)
    BY <2>1, Zenon DEF Normalize
  <2>4. \/ Retried(b, event.reservation, event.assignment) /\ d = b
        \/ /\ b.assignments[event.assignment].status = "absent"
           /\ d = consume(b, event.reservation, event.assignment, event.now)
    BY <1>1, <2>1, <2>2, ConfirmAccepted
  <2> HIDE DEF b
  <2>5. Maps(records, m, b)
    BY Zenon DEF b
  <2>6. Settles(records, event, b, d)
    <3>1. CASE Retried(b, event.reservation, event.assignment) /\ d = b
      BY <1>1, <2>1, <2>5, <3>1, RetrySettles DEF Maps
    <3>2. CASE /\ b.assignments[event.assignment].status = "absent"
               /\ d = consume(b, event.reservation, event.assignment, event.now)
      <4>1. Consumed(b, d, event.reservation, event.assignment, event.now)
        BY <1>1, <2>1, <3>2, ConsumeFields, Zenon
      <4> QED BY <1>1, <2>1, <3>2, <4>1, ConsumeSettles
    <3> QED BY <2>4, <3>1, <3>2, Zenon
  <2>7. LET n == reservationConfirmed(m, event) IN
        /\ Shaped(n) /\ n.engine = m.engine
        /\ Maps(Append(records, event), n, d)
    BY <2>1, <2>5, <2>6, SettledMaps
  <2> QED BY <2>3, <2>7, Zenon DEF Normalized
<1> QED BY <1>2, <1>3, <1>4, Zenon DEF Timed

=============================================================================
