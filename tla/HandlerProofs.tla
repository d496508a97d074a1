---------------------------- MODULE HandlerProofs ----------------------------
(***************************************************************************)
(* Proofs that each handler of internal/service prepares Pending changes,  *)
(* when the scope that it reads is Sound.                                  *)
(***************************************************************************)
EXTENDS ReservationHandlers, PlanningHandlers, Changes, TLAPS

(* The keys at which handlers read and write. *)
LEMMA HandledKey ==
    /\ \A r \in ReservationIds : <<"reservation", r>> \in Keys
    /\ \A t \in TicketIds, kind \in {"match_ticket", "backfill_ticket", "demand_identity",
                                     "demand_reservation_claim"} : <<kind, t>> \in Keys
    /\ \A session \in SessionIds : <<"backfill_session_claim", session>> \in Keys
    /\ \A p \in ProposalIds : <<"proposal", p>> \in Keys
    /\ \A a \in AssignmentIds, kind \in {"assignment", "assignment_acknowledgment"} :
         <<kind, a>> \in Keys
    /\ \A o \in OperationIds : <<"operation_result", o>> \in Keys
    /\ \A v \in PolicyVersions : <<"policy", v>> \in Keys
    /\ \A run \in RunIds, kind \in {"planning_run", "planning_snapshot"} : <<kind, run>> \in Keys
    /\ \A run \in RunIds, t \in TicketIds : <<"planning_unmatched", <<run, t>>>> \in Keys
BY Zenon DEF Keys

(* A demand that handlers can know of is on tickets. *)
LEMMA HandledReferences ==
    ASSUME NEW demand, Known(demand)
    PROVE  References(demand) \subseteq TicketIds
BY Zenon DEF Known, References, Supply

-----------------------------------------------------------------------------
(* What the handlers prepare. *)

(* What put makes. *)
LEMMA PutFields ==
    ASSUME NEW kind, NEW id, NEW expected, NEW payload
    PROVE  LET m == put(kind, id, expected, payload)
           IN /\ m.key = <<kind, id>>
              /\ m.key[1] = kind
              /\ m.change = "put"
              /\ m.expected = expected
              /\ m.payload = payload
BY Zenon DEF put

(* What delete makes. *)
LEMMA DeleteFields ==
    ASSUME NEW kind, NEW id, NEW expected
    PROVE  LET m == delete(kind, id, expected)
           IN /\ m.key = <<kind, id>>
              /\ m.key[1] = kind
              /\ m.change = "delete"
              /\ m.expected = expected
BY Zenon DEF delete

(* A put that expects the version it read is prepared, if it is legal. *)
LEMMA PutPrepared ==
    ASSUME NEW s, Sound(s), NEW kind, NEW id, <<kind, id>> \in Keys, NEW payload,
           ValueOK(kind, payload),
           LET e == VersionOf(s, kind, id)
           IN Legal(Get(s, kind, id), put(kind, id, e, payload))
    PROVE  Prepared(s, put(kind, id, VersionOf(s, kind, id), payload))
<1>. DEFINE m == put(kind, id, VersionOf(s, kind, id), payload)
<1>1. /\ m.key = <<kind, id>>
      /\ m.key[1] = kind
      /\ m.change = "put"
      /\ m.expected = VersionOf(s, kind, id)
      /\ m.payload = payload
  BY PutFields
<1>2. m.expected \in Nat /\ m.expected <= s.version
  BY <1>1, Zenon DEF Sound, VersionOf, Get
<1>3. Legal(s.resources[m.key], m)
  BY <1>1, Zenon DEF Get
<1>. HIDE DEF m
<1>4. Prepared(s, m)
  BY <1>1, <1>2, <1>3, Zenon DEF Prepared
<1>. QED BY <1>4, Zenon DEF m

(* So is a delete. *)
LEMMA DeletePrepared ==
    ASSUME NEW s, Sound(s), NEW kind, NEW id, <<kind, id>> \in Keys, kind \notin PutOnly,
           LET e == VersionOf(s, kind, id)
           IN Legal(Get(s, kind, id), delete(kind, id, e))
    PROVE  Prepared(s, delete(kind, id, VersionOf(s, kind, id)))
<1>. DEFINE m == delete(kind, id, VersionOf(s, kind, id))
<1>1. /\ m.key = <<kind, id>>
      /\ m.key[1] = kind
      /\ m.change = "delete"
      /\ m.expected = VersionOf(s, kind, id)
  BY DeleteFields
<1>2. m.expected \in Nat /\ m.expected <= s.version
  BY <1>1, Zenon DEF Sound, VersionOf, Get
<1>3. Legal(s.resources[m.key], m)
  BY <1>1, Zenon DEF Get
<1>. HIDE DEF m
<1>4. Prepared(s, m)
  BY <1>1, <1>2, <1>3, Zenon DEF Prepared
<1>. QED BY <1>4, Zenon DEF m

(* A resource that is never changed is written if there is none. *)
LEMMA FirstPrepared ==
    ASSUME NEW s, Sound(s), NEW kind \in Unchanging, NEW id, <<kind, id>> \in Keys, NEW payload,
           ValueOK(kind, payload)
    PROVE  Prepared(s, put(kind, id, 0, payload))
<1>. DEFINE m == put(kind, id, 0, payload)
<1>1. /\ m.key = <<kind, id>>
      /\ m.key[1] = kind
      /\ m.change = "put"
      /\ m.expected = 0
      /\ m.payload = payload
  BY PutFields
<1>2. ASSUME s.resources[m.key].version = 0
      PROVE  Legal(s.resources[m.key], m)
  BY <1>1, <1>2, Zenon DEF Legal, Unchanging, TicketKinds
<1>3. 0 <= s.version
  BY DEF Sound
<1>. HIDE DEF m
<1>4. Prepared(s, m)
  BY <1>1, <1>2, <1>3 DEF Prepared
<1>. QED BY <1>4, Zenon DEF m

(* Changes without reservations and claims need no more. *)
LEMMA QuietClaims ==
    ASSUME NEW ch, Spares(ch, {"reservation", "demand_reservation_claim"})
    PROVE  ClaimChanges(ch)
BY Zenon DEF ClaimChanges

(* Changes without tickets need no more. *)
LEMMA QuietDemand ==
    ASSUME NEW s, NEW ch,
           Spares(ch, {"demand_identity", "backfill_session_claim", "match_ticket",
                       "backfill_ticket"})
    PROVE  DemandChanges(s, ch)
<1>1. Keeps(ch)
  BY DEF Keeps, Spares, TicketKinds
<1>. QED BY <1>1, Zenon DEF DemandChanges

(* Changes without reservations and assignments need no more. *)
LEMMA QuietAssignments ==
    ASSUME NEW ch, Spares(ch, {"reservation", "assignment"})
    PROVE  AssignmentChanges(ch)
BY DEF AssignmentChanges, Spares

(* Changes without runs and results need no more. *)
LEMMA QuietRuns ==
    ASSUME NEW s, NEW ch,
           Spares(ch, {"planning_run", "planning_snapshot", "proposal", "planning_unmatched"})
    PROVE  RunChanges(s, ch)
BY Zenon DEF RunChanges

-----------------------------------------------------------------------------
(* MatchTickets and BackfillTickets. *)

(* PutMatchTicket prepares a new ticket with its identity, or a higher     *)
(* revision of the one it read.                                            *)
LEMMA PutMatchPending ==
    ASSUME NEW s, Sound(s), NEW t \in TicketIds, NEW ticket \in StoredMatch,
           PutMatchTicket(s, t, ticket).failure = "none"
    PROVE  Pending(s, PutMatchTicket(s, t, ticket).changes)
<1>. DEFINE ch == PutMatchTicket(s, t, ticket).changes
            e == VersionOf(s, "match_ticket", t)
            m == put("match_ticket", t, e, ticket)
            n == put("demand_identity", t, 0, [kind |-> "match_ticket"])
            old == Get(s, "match_ticket", t)
<1>1. <<"match_ticket", t>> \in Keys /\ <<"demand_identity", t>> \in Keys
  BY HandledKey, Zenon
<1>2. old.deleted \in BOOLEAN /\ e \in Nat
  BY <1>1, Zenon DEF Sound, Get, VersionOf
<1>3. /\ ~old.deleted
      /\ \/ /\ e # 0
            /\ ~(ticket.revision <= old.payload.revision)
            /\ ch = {m}
         \/ e = 0 /\ ch = {n, m}
  BY <1>2, Zenon DEF PutMatchTicket, Refuse, Accept, Exists, VersionOf
<1>4. /\ m.key = <<"match_ticket", t>>
      /\ m.key[1] = "match_ticket"
      /\ m.change = "put"
      /\ m.expected = e
      /\ m.payload = ticket
  BY PutFields
<1>5. /\ n.key = <<"demand_identity", t>>
      /\ n.key[1] = "demand_identity"
      /\ n.change = "put"
      /\ n.expected = 0
      /\ n.payload = [kind |-> "match_ticket"]
  BY PutFields
<1>6. Prepared(s, m)
  <2>1. ValueOK("match_ticket", ticket)
    BY Zenon DEF ValueOK
  <2>2. e # 0 => ticket.revision > old.payload.revision
    <3>1. e # 0 => old.payload \in StoredMatch
      BY <1>1, <1>3, Zenon DEF Sound, ValueOK, Get, VersionOf
    <3>. QED BY <1>3, <3>1 DEF StoredMatch
  <2>3. Legal(old, m)
    BY <1>3, <1>4, <2>2, Zenon DEF Legal, Unchanging, TicketKinds, VersionOf
  <2>. QED BY <1>1, <2>1, <2>3, PutPrepared, Zenon
<1>7. Prepared(s, n)
  BY <1>1, FirstPrepared, Zenon DEF ValueOK, Unchanging
<1>. HIDE DEF m, n, ch
<1>8. ClaimChanges(ch)
  BY <1>3, <1>4, <1>5, QuietClaims, Zenon DEF Spares
<1>9. DemandChanges(s, ch)
  <2>1. CASE ch = {m} /\ e # 0
    <3>1. Keeps(ch)
      BY <1>4, <2>1, Zenon DEF Keeps, Spares, TicketKinds
    <3>. QED BY <3>1, Zenon DEF DemandChanges
  <2>2. CASE ch = {n, m} /\ e = 0
    <3>1. Touches(ch, "demand_identity", t) /\ Touches(ch, "match_ticket", t)
      BY <1>4, <1>5, <2>2, Zenon DEF Touches
    <3>2. Creates(ch, t, "match_ticket", NoID)
      BY <1>4, <1>5, <2>2, <3>1 DEF Creates, TicketKinds
    <3>. QED BY <3>2, Zenon DEF DemandChanges, TicketKinds
  <2>. QED BY <1>3, <2>1, <2>2, Zenon
<1>10. AssignmentChanges(ch)
  BY <1>3, <1>4, <1>5, QuietAssignments, Zenon DEF Spares
<1>11. RunChanges(s, ch)
  BY <1>3, <1>4, <1>5, QuietRuns, Zenon DEF Spares
<1>. QED BY <1>3, <1>6, <1>7, <1>8, <1>9, <1>10, <1>11, Zenon DEF Pending, ch

(* CancelMatchTicket prepares the removal of the ticket it read. *)
LEMMA CancelMatchPending ==
    ASSUME NEW s, Sound(s), NEW t \in TicketIds, NEW revision,
           CancelMatchTicket(s, t, revision).failure = "none"
    PROVE  Pending(s, CancelMatchTicket(s, t, revision).changes)
<1>. DEFINE ch == CancelMatchTicket(s, t, revision).changes
            m == delete("match_ticket", t, VersionOf(s, "match_ticket", t))
<1>1. <<"match_ticket", t>> \in Keys
  BY HandledKey, Zenon
<1>2. Live(s, "match_ticket", t) /\ ch = {m}
  BY Zenon DEF CancelMatchTicket, Refuse, Accept
<1>3. /\ m.key = <<"match_ticket", t>>
      /\ m.key[1] = "match_ticket"
      /\ m.change = "delete"
      /\ m.expected = VersionOf(s, "match_ticket", t)
  BY DeleteFields
<1>4. Prepared(s, m)
  <2>1. Legal(Get(s, "match_ticket", t), m)
    BY <1>2, <1>3, Zenon DEF Legal, Unchanging, TicketKinds, Live
  <2>. QED BY <1>1, <2>1, DeletePrepared, Zenon DEF PutOnly, Unchanging
<1>. HIDE DEF m, ch
<1>5. ClaimChanges(ch)
  BY <1>2, <1>3, QuietClaims, Zenon DEF Spares
<1>6. DemandChanges(s, ch)
  <2>1. m.expected # 0
    BY <1>2, <1>3, Zenon DEF Live, Exists, VersionOf
  <2>2. Keeps(ch)
    BY <1>2, <1>3, <2>1 DEF Keeps, Spares, TicketKinds
  <2>. QED BY <2>2, Zenon DEF DemandChanges
<1>7. AssignmentChanges(ch)
  BY <1>2, <1>3, QuietAssignments, Zenon DEF Spares
<1>8. RunChanges(s, ch)
  BY <1>2, <1>3, QuietRuns, Zenon DEF Spares
<1>. QED BY <1>2, <1>4, <1>5, <1>6, <1>7, <1>8, Zenon DEF Pending, ch

(* PutBackfillTicket prepares a new ticket with its identity and its       *)
(* session, or a higher revision of the one it read.                       *)
LEMMA PutBackfillPending ==
    ASSUME NEW s, Sound(s), NEW t \in TicketIds, NEW ticket \in StoredBackfill,
           PutBackfillTicket(s, t, ticket).failure = "none"
    PROVE  Pending(s, PutBackfillTicket(s, t, ticket).changes)
<1>. DEFINE ch == PutBackfillTicket(s, t, ticket).changes
            e == VersionOf(s, "backfill_ticket", t)
            session == ticket.session
            claim == Get(s, "backfill_session_claim", session)
            m == put("backfill_ticket", t, e, ticket)
            n == put("demand_identity", t, 0, [kind |-> "backfill_ticket"])
            o == put("backfill_session_claim", session,
                     VersionOf(s, "backfill_session_claim", session), [ticket |-> t])
            old == Get(s, "backfill_ticket", t)
<1>1. /\ <<"backfill_ticket", t>> \in Keys
      /\ <<"demand_identity", t>> \in Keys
      /\ <<"backfill_session_claim", session>> \in Keys
      /\ session \in SessionIds
  BY HandledKey, Zenon DEF StoredBackfill
<1>2. old.deleted \in BOOLEAN /\ e \in Nat
  BY <1>1, Zenon DEF Sound, Get, VersionOf
<1>3. /\ ~old.deleted
      /\ \/ /\ e # 0
            /\ validateBackfillReplacement(old.payload, ticket)
            /\ ch = {m}
         \/ e = 0 /\ ~Live(s, "backfill_session_claim", session) /\ ch = {n, o, m}
  BY <1>2, Zenon DEF PutBackfillTicket, Refuse, Accept, Exists, VersionOf
<1>4. /\ m.key = <<"backfill_ticket", t>>
      /\ m.key[1] = "backfill_ticket"
      /\ m.change = "put"
      /\ m.expected = e
      /\ m.payload = ticket
  BY PutFields
<1>5. /\ n.key = <<"demand_identity", t>>
      /\ n.key[1] = "demand_identity"
      /\ n.change = "put"
      /\ n.expected = 0
      /\ n.payload = [kind |-> "backfill_ticket"]
  BY PutFields
<1>6. /\ o.key = <<"backfill_session_claim", session>>
      /\ o.key[1] = "backfill_session_claim"
      /\ o.change = "put"
      /\ o.payload = [ticket |-> t]
  BY PutFields
<1>7. Prepared(s, m)
  <2>1. ValueOK("backfill_ticket", ticket)
    BY Zenon DEF ValueOK
  <2>2. e # 0 =>
          ticket.revision > old.payload.revision /\ ticket.session = old.payload.session
    BY <1>3, Zenon DEF validateBackfillReplacement
  <2>3. Legal(old, m)
    BY <1>3, <1>4, <2>2, Zenon DEF Legal, Unchanging, TicketKinds, VersionOf
  <2>. QED BY <1>1, <2>1, <2>3, PutPrepared, Zenon
<1>8. Prepared(s, n)
  BY <1>1, FirstPrepared, Zenon DEF ValueOK, Unchanging
<1>9. e = 0 => Prepared(s, o)
  <2>1. ValueOK("backfill_session_claim", [ticket |-> t])
    BY Zenon DEF ValueOK
  <2>2. e = 0 => Legal(claim, o)
    BY <1>3, <1>6, Zenon DEF Legal, Unchanging, TicketKinds, Live, Exists
  <2>. QED BY <1>1, <2>1, <2>2, PutPrepared, Zenon
<1>. HIDE DEF m, n, o, ch, e
<1>10. ClaimChanges(ch)
  BY <1>3, <1>4, <1>5, <1>6, QuietClaims, Zenon DEF Spares
<1>11. DemandChanges(s, ch)
  <2>1. CASE ch = {m} /\ e # 0
    <3>1. Keeps(ch)
      BY <1>4, <2>1, Zenon DEF Keeps, Spares, TicketKinds
    <3>. QED BY <3>1, Zenon DEF DemandChanges
  <2>2. CASE ch = {n, o, m} /\ e = 0
    <3>1. /\ Touches(ch, "demand_identity", t)
          /\ Touches(ch, "backfill_ticket", t)
          /\ Touches(ch, "backfill_session_claim", session)
      BY <1>4, <1>5, <1>6, <2>2, Zenon DEF Touches
    <3>2. Creates(ch, t, "backfill_ticket", session)
      BY <1>1, <1>4, <1>5, <1>6, <2>2, <3>1 DEF Creates, TicketKinds
    <3>. QED BY <1>1, <3>2, Zenon DEF DemandChanges, TicketKinds
  <2>. QED BY <1>3, <2>1, <2>2, Zenon
<1>12. AssignmentChanges(ch)
  BY <1>3, <1>4, <1>5, <1>6, QuietAssignments, Zenon DEF Spares
<1>13. RunChanges(s, ch)
  BY <1>3, <1>4, <1>5, <1>6, QuietRuns, Zenon DEF Spares
<1>. QED BY <1>3, <1>7, <1>8, <1>9, <1>10, <1>11, <1>12, <1>13, Zenon DEF Pending, ch

(* CancelBackfillTicket prepares the removal of the ticket it read, with   *)
(* the claim of its session.                                               *)
LEMMA CancelBackfillPending ==
    ASSUME NEW s, Sound(s), NEW t \in TicketIds, NEW revision, NEW rosterVersion,
           CancelBackfillTicket(s, t, revision, rosterVersion).failure = "none"
    PROVE  Pending(s, CancelBackfillTicket(s, t, revision, rosterVersion).changes)
<1>. DEFINE ch == CancelBackfillTicket(s, t, revision, rosterVersion).changes
            session == Read(s, "backfill_ticket", t).session
            m == delete("backfill_ticket", t, VersionOf(s, "backfill_ticket", t))
            n == delete("backfill_session_claim", session,
                        VersionOf(s, "backfill_session_claim", session))
<1>1. <<"backfill_ticket", t>> \in Keys
  BY HandledKey, Zenon
<1>2. Live(s, "backfill_ticket", t) /\ ch = {m, n}
  BY Zenon DEF CancelBackfillTicket, Refuse, Accept
<1>3. session \in SessionIds
  <2>1. ValueOK("backfill_ticket", Read(s, "backfill_ticket", t))
    BY <1>1, <1>2, Zenon DEF Sound, Live, Exists, Read, Get
  <2>. QED BY <2>1, Zenon DEF ValueOK, StoredBackfill
<1>4. <<"backfill_session_claim", session>> \in Keys
  BY <1>3, HandledKey, Zenon
<1>5. /\ m.key = <<"backfill_ticket", t>>
      /\ m.key[1] = "backfill_ticket"
      /\ m.change = "delete"
      /\ m.expected = VersionOf(s, "backfill_ticket", t)
  BY DeleteFields
<1>6. /\ n.key = <<"backfill_session_claim", session>>
      /\ n.key[1] = "backfill_session_claim"
      /\ n.change = "delete"
  BY DeleteFields
<1>7. Prepared(s, m)
  <2>1. Legal(Get(s, "backfill_ticket", t), m)
    BY <1>2, <1>5, Zenon DEF Legal, Unchanging, TicketKinds, Live
  <2>. QED BY <1>1, <2>1, DeletePrepared, Zenon DEF PutOnly, Unchanging
<1>8. Prepared(s, n)
  <2>1. Legal(Get(s, "backfill_session_claim", session), n)
    BY <1>6, Zenon DEF Legal, Unchanging, TicketKinds
  <2>. QED BY <1>4, <2>1, DeletePrepared, Zenon DEF PutOnly, Unchanging
<1>. HIDE DEF m, n, ch
<1>9. ClaimChanges(ch)
  BY <1>2, <1>5, <1>6, QuietClaims, Zenon DEF Spares
<1>10. DemandChanges(s, ch)
  <2>1. m.expected # 0
    BY <1>2, <1>5, Zenon DEF Live, Exists, VersionOf
  <2>2. Touches(ch, "backfill_ticket", t) /\ Touches(ch, "backfill_session_claim", session)
    BY <1>2, <1>5, <1>6, Zenon DEF Touches
  <2>3. Removes(s, ch, t, session)
    BY <1>2, <1>5, <1>6, <2>1, <2>2 DEF Removes, Spares, TicketKinds
  <2>. QED BY <1>3, <2>3, Zenon DEF DemandChanges
<1>11. AssignmentChanges(ch)
  BY <1>2, <1>5, <1>6, QuietAssignments, Zenon DEF Spares
<1>12. RunChanges(s, ch)
  BY <1>2, <1>5, <1>6, QuietRuns, Zenon DEF Spares
<1>. QED BY <1>2, <1>7, <1>8, <1>9, <1>10, <1>11, <1>12, Zenon DEF Pending, ch

-----------------------------------------------------------------------------
(* Policies and the capture of a planning run. *)

(* PutPolicy prepares a new version, or the same content again. *)
LEMMA PutPolicyPending ==
    ASSUME NEW s, Sound(s), NEW v \in PolicyVersions, NEW fingerprint \in Fingerprints,
           PutPolicy(s, v, fingerprint).failure = "none"
    PROVE  Pending(s, PutPolicy(s, v, fingerprint).changes)
<1>. DEFINE ch == PutPolicy(s, v, fingerprint).changes
            policy == [fingerprint |-> fingerprint]
            m == put("policy", v, VersionOf(s, "policy", v), policy)
<1>1. <<"policy", v>> \in Keys
  BY HandledKey, Zenon
<1>2. /\ Exists(s, "policy", v) => Read(s, "policy", v).fingerprint = fingerprint
      /\ ch = {m}
  BY Zenon DEF PutPolicy, Refuse, Accept
<1>3. /\ m.key = <<"policy", v>>
      /\ m.key[1] = "policy"
      /\ m.payload = policy
  BY PutFields
<1>4. Exists(s, "policy", v) => Read(s, "policy", v) = policy
  <2>1. Exists(s, "policy", v) => ValueOK("policy", Read(s, "policy", v))
    BY <1>1, Zenon DEF Sound, PutOnly, Exists, Read, Get
  <2>. QED BY <1>2, <2>1, Zenon DEF ValueOK, Policy
<1>5. Prepared(s, m)
  <2>1. ValueOK("policy", policy)
    BY Zenon DEF ValueOK, Policy
  <2>2. Legal(Get(s, "policy", v), m)
    BY <1>3, <1>4, Zenon DEF Legal, Unchanging, TicketKinds, Exists, Read
  <2>. QED BY <1>1, <2>1, <2>2, PutPrepared, Zenon
<1>. HIDE DEF m, ch
<1>6. ClaimChanges(ch)
  BY <1>2, <1>3, QuietClaims, Zenon DEF Spares
<1>7. DemandChanges(s, ch)
  BY <1>2, <1>3, QuietDemand, Zenon DEF Spares
<1>8. AssignmentChanges(ch)
  BY <1>2, <1>3, QuietAssignments, Zenon DEF Spares
<1>9. RunChanges(s, ch)
  BY <1>2, <1>3, QuietRuns, Zenon DEF Spares
<1>. QED BY <1>2, <1>5, <1>6, <1>7, <1>8, <1>9, Zenon DEF Pending, ch

(* The capture of a run prepares a run and its snapshot, without results. *)
LEMMA CapturePending ==
    ASSUME NEW s, Sound(s), NEW run \in RunIds, NEW v, NEW at,
           Capture(s, run, v, at).failure = "none"
    PROVE  Pending(s, Capture(s, run, v, at).changes)
<1>. DEFINE ch == Capture(s, run, v, at).changes
            input == planningInput(s, run, v, at)
            record == [status |-> "planning", policy |-> v, fingerprint |-> input.fingerprint,
                       version |-> s.version, capturedAt |-> at, completedAt |-> 0,
                       proposals |-> 0, unmatched |-> 0]
            captured == [version |-> s.version, input |-> input]
            m == put("planning_run", run, 0, record)
            n == put("planning_snapshot", run, 0, captured)
<1>1. <<"planning_run", run>> \in Keys /\ <<"planning_snapshot", run>> \in Keys
  BY HandledKey, Zenon
<1>2. ~Exists(s, "planning_run", run) /\ ch = {m, n}
  BY Zenon DEF Capture, Refuse, Accept
<1>3. /\ m.key = <<"planning_run", run>>
      /\ m.key[1] = "planning_run"
      /\ m.expected = 0
      /\ m.payload.status = "planning"
  BY PutFields
<1>4. /\ n.key = <<"planning_snapshot", run>>
      /\ n.key[1] = "planning_snapshot"
      /\ n.expected = 0
  BY PutFields
<1>5. Prepared(s, m)
  <2>1. ValueOK("planning_run", record)
    BY Zenon DEF ValueOK, RunFields
  <2>2. VersionOf(s, "planning_run", run) = 0
    BY <1>2, Zenon DEF Exists, VersionOf
  <2>3. Legal(Get(s, "planning_run", run), m)
    BY <1>3, <2>2, Zenon DEF Legal, Unchanging, TicketKinds, VersionOf
  <2>. QED BY <1>1, <2>1, <2>2, <2>3, PutPrepared, Zenon
<1>6. Prepared(s, n)
  <2>1. ASSUME NEW t \in CapturedBackfills(captured.input)
        PROVE  captured.input.backfills[t] \in StoredBackfill
    <3>1. t \in TicketIds /\ input.backfills[t] # NoPayload
      BY Zenon DEF CapturedBackfills
    <3>2. input.backfills[t]
            = IF Live(s, "backfill_ticket", t) THEN Read(s, "backfill_ticket", t) ELSE NoPayload
      BY <3>1, Zenon DEF planningInput
    <3>3. Live(s, "backfill_ticket", t)
      BY <3>1, <3>2, Zenon
    <3>4. ValueOK("backfill_ticket", Read(s, "backfill_ticket", t))
      BY <3>1, <3>3, HandledKey, Zenon DEF Sound, Live, Exists, Read, Get
    <3>. QED BY <3>2, <3>3, <3>4, Zenon DEF ValueOK
  <2>2. ValueOK("planning_snapshot", captured)
    BY <2>1, Zenon DEF ValueOK
  <2>. QED BY <1>1, <2>2, FirstPrepared, Zenon DEF Unchanging
<1>. HIDE DEF m, n, ch
<1>7. ClaimChanges(ch)
  BY <1>2, <1>3, <1>4, QuietClaims, Zenon DEF Spares
<1>8. DemandChanges(s, ch)
  BY <1>2, <1>3, <1>4, QuietDemand, Zenon DEF Spares
<1>9. AssignmentChanges(ch)
  BY <1>2, <1>3, <1>4, QuietAssignments, Zenon DEF Spares
<1>10. RunChanges(s, ch)
  <2>1. Touches(ch, "planning_snapshot", run)
    BY <1>2, <1>4, Zenon DEF Touches
  <2>2. Captures(ch, run)
    BY <1>2, <1>3, <1>4, <2>1 DEF Captures, Spares
  <2>. QED BY <2>2, Zenon DEF RunChanges
<1>. QED BY <1>2, <1>5, <1>6, <1>7, <1>8, <1>9, <1>10, Zenon DEF Pending, ch

-----------------------------------------------------------------------------
(* Reservations and assignments. *)

(* What a stored reservation has. *)
LEMMA ReservationValue ==
    ASSUME NEW s, Sound(s), NEW r \in ReservationIds, Live(s, "reservation", r)
    PROVE  /\ ValueOK("reservation", Read(s, "reservation", r))
           /\ DOMAIN Read(s, "reservation", r) = {"status", "proposal", "demand", "expiresAt"}
           /\ Known(Read(s, "reservation", r).demand)
<1>1. <<"reservation", r>> \in Keys
  BY HandledKey, Zenon
<1>2. ValueOK("reservation", Read(s, "reservation", r))
  BY <1>1, Zenon DEF Sound, Live, Exists, Read, Get
<1>. QED BY <1>2, Zenon DEF ValueOK

(* The results that are stored for the retries of a command. *)
LEMMA ResultPrepared ==
    ASSUME NEW s, Sound(s), NEW o \in OperationIds, NEW record
    PROVE  LET m == put("operation_result", o, 0, record)
           IN Prepared(s, m) /\ m.key[1] = "operation_result"
<1>1. <<"operation_result", o>> \in Keys
  BY HandledKey, Zenon
<1>2. "operation_result" \in Unchanging /\ ValueOK("operation_result", record)
  BY Zenon DEF Unchanging, ValueOK
<1>. QED BY <1>1, <1>2, FirstPrepared, PutFields

(* An active reservation may end. *)
LEMMA EndedPrepared ==
    ASSUME NEW s, Sound(s), NEW r \in ReservationIds, IsActive(s, r),
           NEW status \in ReservationStatuses \ {"active"}
    PROVE  LET old == Read(s, "reservation", r)
               m == put("reservation", r, VersionOf(s, "reservation", r),
                        [old EXCEPT !.status = status])
           IN /\ Prepared(s, m)
              /\ m.key = <<"reservation", r>>
              /\ m.key[1] = "reservation"
              /\ m.payload.status = status
              /\ m.payload.demand = old.demand
              /\ m.payload.proposal = old.proposal
<1>. DEFINE old == Read(s, "reservation", r)
            new == [old EXCEPT !.status = status]
            m == put("reservation", r, VersionOf(s, "reservation", r), new)
<1>1. <<"reservation", r>> \in Keys
  BY HandledKey, Zenon
<1>2. Live(s, "reservation", r) /\ old.status = "active"
  BY Zenon DEF IsActive
<1>3. DOMAIN old = {"status", "proposal", "demand", "expiresAt"} /\ Known(old.demand)
  BY <1>2, ReservationValue, Zenon
<1>4. /\ DOMAIN new = {"status", "proposal", "demand", "expiresAt"}
      /\ new.status = status
      /\ new.demand = old.demand
      /\ new.proposal = old.proposal
  BY <1>3, Zenon
<1>5. m.key = <<"reservation", r>> /\ m.key[1] = "reservation" /\ m.payload = new
  BY PutFields
<1>. HIDE DEF new
<1>6. ValueOK("reservation", new)
  BY <1>3, <1>4, Zenon DEF ValueOK
<1>. HIDE DEF m
<1>7. Legal(Get(s, "reservation", r), m)
  BY <1>2, <1>4, <1>5, Zenon DEF Legal, Unchanging, TicketKinds, Live, Exists, Read
<1>8. Prepared(s, m)
  BY <1>1, <1>6, <1>7, PutPrepared, Zenon DEF m
<1>. QED BY <1>4, <1>5, <1>8, Zenon DEF m, new

(* The claims of a reservation may go. *)
LEMMA DeletionsPrepared ==
    ASSUME NEW s, Sound(s), NEW demand, Known(demand)
    PROVE  /\ \A m \in reservationClaimDeletions(s, demand) :
                /\ Prepared(s, m)
                /\ m.key[1] = "demand_reservation_claim"
                /\ m.change = "delete"
                /\ \E t \in References(demand) : m.key = <<"demand_reservation_claim", t>>
           /\ \A t \in References(demand) :
                Touches(reservationClaimDeletions(s, demand), "demand_reservation_claim", t)
<1>. DEFINE m(t) == delete("demand_reservation_claim", t,
                           VersionOf(s, "demand_reservation_claim", t))
<1>1. References(demand) \subseteq TicketIds
  BY HandledReferences, Zenon
<1>2. ASSUME NEW t \in References(demand)
      PROVE  /\ m(t).key = <<"demand_reservation_claim", t>>
             /\ m(t).key[1] = "demand_reservation_claim"
             /\ m(t).change = "delete"
  BY DeleteFields
<1>3. ASSUME NEW t \in References(demand)
      PROVE  Prepared(s, m(t))
  <2>1. <<"demand_reservation_claim", t>> \in Keys
    BY <1>1, HandledKey, Zenon
  <2>2. Legal(Get(s, "demand_reservation_claim", t), m(t))
    BY <1>2, Zenon DEF Legal, Unchanging, TicketKinds
  <2>3. "demand_reservation_claim" \notin PutOnly
    BY Zenon DEF PutOnly, Unchanging
  <2>. QED BY <2>1, <2>2, <2>3, DeletePrepared, Zenon
<1>4. reservationClaimDeletions(s, demand) = {m(t) : t \in References(demand)}
  BY Zenon DEF reservationClaimDeletions
<1>. HIDE DEF m
<1>. QED BY <1>2, <1>3, <1>4, Zenon DEF Touches

(* The part of the changes that ends a reservation. *)
LEMMA EndsWhole ==
    ASSUME NEW ch, NEW r \in ReservationIds, NEW demand, Known(demand),
           NEW m \in ch, m.key = <<"reservation", r>>, m.payload.demand = demand,
           m.payload.status # "active",
           NEW D, D \subseteq ch,
           \A t \in References(demand) : Touches(D, "demand_reservation_claim", t),
           \A n \in D : /\ n.change = "delete"
                        /\ \E t \in References(demand) :
                             n.key = <<"demand_reservation_claim", t>>,
           \A n \in ch : n \in D \/ n = m
                         \/ n.key[1] \notin {"reservation", "demand_reservation_claim"}
    PROVE  ClaimChanges(ch)
<1>1. Touches(ch, "reservation", r)
  BY Zenon DEF Touches
<1>2. \A t \in References(demand) : Touches(ch, "demand_reservation_claim", t)
  BY Zenon DEF Touches
<1>3. ASSUME NEW n \in ch, NEW x \in ReservationIds, n.key = <<"reservation", x>>
      PROVE  x = r /\ n.payload.demand = demand /\ n.payload.status # "active"
  BY <1>3
<1>4. ASSUME NEW n \in ch, NEW t \in TicketIds, n.key = <<"demand_reservation_claim", t>>
      PROVE  t \in References(demand) /\ n.change = "delete"
  BY <1>4
<1>5. Whole(ch, r, demand, "end")
  BY <1>1, <1>2, <1>3, <1>4, Zenon DEF Whole
<1>. QED BY <1>5, Zenon DEF ClaimChanges

(* A reservation is prepared to end together with all its claims. *)
LEMMA EndPending ==
    ASSUME NEW s, Sound(s), NEW r \in ReservationIds, IsActive(s, r),
           NEW status \in {"expired", "cancelled"},
           NEW results, \A m \in results : Prepared(s, m) /\ m.key[1] = "operation_result"
    PROVE  Pending(s, endMutations(s, r, status) \cup results)
<1>. DEFINE old == Read(s, "reservation", r)
            demand == old.demand
            m == put("reservation", r, VersionOf(s, "reservation", r),
                     [old EXCEPT !.status = status])
            D == reservationClaimDeletions(s, demand)
            ch == endMutations(s, r, status) \cup results
<1>1. /\ Prepared(s, m)
      /\ m.key = <<"reservation", r>>
      /\ m.key[1] = "reservation"
      /\ m.payload.status = status
      /\ m.payload.demand = demand
  BY EndedPrepared DEF ReservationStatuses
<1>2. Known(demand)
  BY ReservationValue, Zenon DEF IsActive
<1>3. /\ \A n \in D : /\ Prepared(s, n)
                      /\ n.key[1] = "demand_reservation_claim"
                      /\ n.change = "delete"
                      /\ \E t \in References(demand) :
                           n.key = <<"demand_reservation_claim", t>>
      /\ \A t \in References(demand) : Touches(D, "demand_reservation_claim", t)
  BY <1>2, DeletionsPrepared, Zenon
<1>4. ch = {m} \cup D \cup results
  BY Zenon DEF endMutations
<1>. HIDE DEF m, D, ch, demand
<1>5. \A n \in ch : Prepared(s, n)
  BY <1>1, <1>3, <1>4, Zenon
<1>6. ClaimChanges(ch)
  <2>1. \A n \in ch : n \in D \/ n = m
                      \/ n.key[1] \notin {"reservation", "demand_reservation_claim"}
    BY <1>4, Zenon
  <2>2. m \in ch /\ D \subseteq ch
    BY <1>4, Zenon
  <2>. QED BY <1>1, <1>2, <1>3, <2>1, <2>2, EndsWhole
<1>7. DemandChanges(s, ch)
  BY <1>1, <1>3, <1>4, QuietDemand, Zenon DEF Spares
<1>8. AssignmentChanges(ch)
  <2>1. ASSUME NEW n \in ch, NEW x \in ReservationIds, n.key = <<"reservation", x>>
        PROVE  n.payload.status # "confirmed"
    <3>1. n = m
      BY <1>3, <1>4, <2>1
    <3>. QED BY <1>1, <3>1, Zenon
  <2>2. ASSUME NEW n \in ch, NEW a \in AssignmentIds, n.key = <<"assignment", a>>
        PROVE  FALSE
    BY <1>1, <1>3, <1>4, <2>2
  <2>. QED BY <2>1, <2>2, Zenon DEF AssignmentChanges
<1>9. RunChanges(s, ch)
  BY <1>1, <1>3, <1>4, QuietRuns, Zenon DEF Spares
<1>. QED BY <1>5, <1>6, <1>7, <1>8, <1>9, Zenon DEF Pending, ch

(* expireDue and the invalidation of Confirm prepare such an end. *)
LEMMA EndActivePending ==
    ASSUME NEW s, Sound(s), NEW r \in ReservationIds, NEW status \in {"expired", "cancelled"},
           EndActive(s, r, status).failure = "none"
    PROVE  Pending(s, EndActive(s, r, status).changes)
<1>1. IsActive(s, r) /\ EndActive(s, r, status).changes = endMutations(s, r, status)
  BY Zenon DEF EndActive, Refuse, Accept, IsActive
<1>2. Pending(s, endMutations(s, r, status) \cup {})
  BY <1>1, EndPending, Zenon
<1>. QED BY <1>1, <1>2, Zenon

(* Cancel prepares such an end and the result for its retries. *)
LEMMA CancelPending ==
    ASSUME NEW s, Sound(s), NEW o \in OperationIds, NEW r \in ReservationIds,
           Cancel(s, o, r).failure = "none"
    PROVE  Pending(s, Cancel(s, o, r).changes)
<1>. DEFINE old == Read(s, "reservation", r)
            m == put("operation_result", o, 0, [record |-> [old EXCEPT !.status = "cancelled"]])
            ch == Cancel(s, o, r).changes
<1>1. /\ Live(s, "reservation", r)
      /\ old.status \notin {"expired", "confirmed"}
      /\ \/ old.status = "cancelled" /\ ch = {m}
         \/ old.status # "cancelled" /\ ch = endMutations(s, r, "cancelled") \cup {m}
  BY Zenon DEF Cancel, Refuse, Accept
<1>2. Prepared(s, m) /\ m.key[1] = "operation_result"
  BY ResultPrepared, Zenon
<1>3. CASE old.status # "cancelled"
  <2>1. old.status \in ReservationStatuses
    BY <1>1, ReservationValue, Zenon DEF ValueOK
  <2>2. IsActive(s, r)
    BY <1>1, <1>3, <2>1, Zenon DEF IsActive, ReservationStatuses
  <2>. HIDE DEF m
  <2>3. Pending(s, endMutations(s, r, "cancelled") \cup {m})
    BY <1>2, <2>2, EndPending, Zenon
  <2>. QED BY <1>1, <1>3, <2>3, Zenon
<1>4. CASE old.status = "cancelled"
  <2>. HIDE DEF m, ch
  <2>1. ch = {m}
    BY <1>1, <1>4, Zenon
  <2>2. ClaimChanges(ch) /\ DemandChanges(s, ch) /\ AssignmentChanges(ch) /\ RunChanges(s, ch)
    BY <1>2, <2>1, QuietClaims, QuietDemand, QuietAssignments, QuietRuns, Zenon DEF Spares
  <2>. QED BY <1>2, <2>1, <2>2, Zenon DEF Pending, ch
<1>. QED BY <1>3, <1>4, Zenon

(* What Reserve takes is claimed by nobody. *)
LEMMA ReserveUnclaimed ==
    ASSUME NEW s, NEW demand, ReserveFailures(s, demand) = {}
    PROVE  \A t \in References(demand) : ~Live(s, "demand_reservation_claim", t)
<1>. DEFINE failure(t) == IF ~FreshTicket(s, demand, t) THEN "StaleSnapshot"
                          ELSE IF Live(s, "demand_reservation_claim", t)
                            THEN "ReservationConflict" ELSE "none"
            among(T) == {failure(t) : t \in T} \ {"none"}
<1>1. among(References(demand)) = {}
  BY Zenon DEF ReserveFailures
<1>2. ASSUME NEW t \in References(demand)
      PROVE  failure(t) = "none"
  BY <1>1
<1>. QED BY <1>2, Zenon

(* Reserve prepares an active reservation together with all its claims. *)
LEMMA ReservePending ==
    ASSUME NEW s, Sound(s), NEW o \in OperationIds, NEW r \in ReservationIds,
           NEW p \in ProposalIds, NEW at, NEW outcome \in Reserve(s, o, r, p, at),
           outcome.failure = "none"
    PROVE  Pending(s, outcome.changes)
<1>. DEFINE demand == Read(s, "proposal", p).demand
            reservation == [status |-> "active", proposal |-> p, demand |-> demand,
                            expiresAt |-> at + TTL]
            m == put("reservation", r, 0, reservation)
            c(t) == reservationClaimMutation(s, r, demand, t)
            C == {c(t) : t \in References(demand)}
            n == put("operation_result", o, 0, [record |-> reservation])
            ch == outcome.changes
<1>1. \A failure \in ReserveFailures(s, demand) : failure # "none"
  BY Zenon DEF ReserveFailures
<1>2. /\ ~Exists(s, "reservation", r)
      /\ Live(s, "proposal", p)
      /\ ReserveFailures(s, demand) = {}
      /\ ch = reserveMutations(s, r, reservation) \cup {n}
  BY <1>1 DEF Reserve, Refuse, Accept
<1>3. ch = {m} \cup C \cup {n}
  <2>1. reservation.demand = demand
    BY Zenon
  <2>2. reserveMutations(s, r, reservation) = {m} \cup C
    BY <2>1, Zenon DEF reserveMutations
  <2>. QED BY <1>2, <2>2, Zenon
<1>4. Known(demand)
  <2>1. <<"proposal", p>> \in Keys
    BY HandledKey, Zenon
  <2>2. ValueOK("proposal", Read(s, "proposal", p))
    BY <1>2, <2>1, Zenon DEF Sound, Live, Exists, Read, Get
  <2>. QED BY <2>2, Zenon DEF ValueOK
<1>5. References(demand) \subseteq TicketIds
  BY <1>4, HandledReferences, Zenon
<1>6. /\ m.key = <<"reservation", r>>
      /\ m.key[1] = "reservation"
      /\ m.payload.status = "active"
      /\ m.payload.demand = demand
  <2>1. m.key = <<"reservation", r>> /\ m.key[1] = "reservation" /\ m.payload = reservation
    BY PutFields
  <2>2. reservation.status = "active" /\ reservation.demand = demand
    BY Zenon
  <2>. QED BY <2>1, <2>2, Zenon
<1>7. Prepared(s, m)
  <2>1. <<"reservation", r>> \in Keys
    BY HandledKey, Zenon
  <2>2. ValueOK("reservation", reservation)
    BY <1>4, Zenon DEF ValueOK, ReservationStatuses
  <2>3. VersionOf(s, "reservation", r) = 0
    BY <1>2, Zenon DEF Exists, VersionOf
  <2>4. Legal(Get(s, "reservation", r), m)
    BY <1>6, <2>3, Zenon DEF Legal, Unchanging, TicketKinds, VersionOf
  <2>. QED BY <2>1, <2>2, <2>3, <2>4, PutPrepared, Zenon
<1>8. Prepared(s, n) /\ n.key[1] = "operation_result"
  BY ResultPrepared, Zenon
<1>9. ASSUME NEW t \in References(demand)
      PROVE  /\ c(t).key = <<"demand_reservation_claim", t>>
             /\ c(t).key[1] = "demand_reservation_claim"
             /\ c(t).change = "put"
             /\ c(t).payload = [reservation |-> r, revision |-> ReferencedRevision(demand, t)]
  BY PutFields DEF reservationClaimMutation
<1>10. ASSUME NEW t \in References(demand)
       PROVE  Prepared(s, c(t))
  <2>. DEFINE payload == [reservation |-> r, revision |-> ReferencedRevision(demand, t)]
  <2>1. <<"demand_reservation_claim", t>> \in Keys
    BY <1>5, HandledKey, Zenon
  <2>2. ValueOK("demand_reservation_claim", payload)
    BY Zenon DEF ValueOK
  <2>3. ~Live(s, "demand_reservation_claim", t)
    BY <1>2, ReserveUnclaimed, Zenon
  <2>4. Legal(Get(s, "demand_reservation_claim", t), c(t))
    BY <1>9, <2>3, Zenon DEF Legal, Unchanging, TicketKinds, Live, Exists
  <2>. QED BY <2>1, <2>2, <2>4, PutPrepared, Zenon DEF reservationClaimMutation
<1>11. \A x \in C : /\ Prepared(s, x)
                   /\ x.key[1] = "demand_reservation_claim"
                   /\ \E t \in References(demand) : x = c(t)
  BY <1>9, <1>10, Zenon
<1>12. \A t \in References(demand) : c(t) \in C
  BY Zenon
<1>. HIDE DEF m, n, c, C, ch, demand
<1>13. \A x \in ch : Prepared(s, x)
  BY <1>3, <1>7, <1>8, <1>11, Zenon
<1>14. ClaimChanges(ch)
  <2>1. Touches(ch, "reservation", r)
    BY <1>3, <1>6, Zenon DEF Touches
  <2>2. \A t \in References(demand) : Touches(ch, "demand_reservation_claim", t)
    BY <1>3, <1>9, <1>12, Zenon DEF Touches
  <2>3. ASSUME NEW x \in ch, NEW y \in ReservationIds, x.key = <<"reservation", y>>
        PROVE  y = r /\ x.payload.demand = demand /\ x.payload.status = "active"
    <3>1. x = m
      BY <1>3, <1>8, <1>11, <2>3
    <3>. QED BY <1>6, <2>3, <3>1
  <2>4. ASSUME NEW x \in ch, NEW t \in TicketIds, x.key = <<"demand_reservation_claim", t>>
        PROVE  /\ t \in References(demand)
               /\ x.change = "put"
               /\ x.payload = [reservation |-> r, revision |-> ReferencedRevision(demand, t)]
    <3>1. x \in C
      BY <1>3, <1>6, <1>8, <2>4
    <3>2. PICK u \in References(demand) : x = c(u)
      BY <1>11, <3>1, Zenon
    <3>3. x.key = <<"demand_reservation_claim", u>>
      BY <1>9, <3>2, Zenon
    <3>4. u = t
      BY <2>4, <3>3
    <3>. QED BY <1>9, <3>2, <3>4, Zenon
  <2>5. Whole(ch, r, demand, "start")
    BY <1>4, <2>1, <2>2, <2>3, <2>4, Zenon DEF Whole
  <2>6. m \in ch
    BY <1>3, Zenon
  <2>. QED BY <1>6, <2>5, <2>6, Zenon DEF ClaimChanges
<1>15. DemandChanges(s, ch)
  BY <1>3, <1>6, <1>8, <1>11, QuietDemand, Zenon DEF Spares
<1>16. AssignmentChanges(ch)
  <2>1. ASSUME NEW x \in ch, NEW y \in ReservationIds, x.key = <<"reservation", y>>
        PROVE  x.payload.status # "confirmed"
    <3>1. x = m
      BY <1>3, <1>8, <1>11, <2>1
    <3>. QED BY <1>6, <3>1, Zenon
  <2>2. ASSUME NEW x \in ch, NEW a \in AssignmentIds, x.key = <<"assignment", a>>
        PROVE  FALSE
    BY <1>3, <1>6, <1>8, <1>11, <2>2
  <2>. QED BY <2>1, <2>2, Zenon DEF AssignmentChanges
<1>17. RunChanges(s, ch)
  BY <1>3, <1>6, <1>8, <1>11, QuietRuns, Zenon DEF Spares
<1>. QED BY <1>13, <1>14, <1>15, <1>16, <1>17, Zenon DEF Pending, ch

(* Acknowledge prepares the outcome of a pending assignment. *)
LEMMA AcknowledgePending ==
    ASSUME NEW s, Sound(s), NEW a \in AssignmentIds, NEW request \in AcknowledgmentRequest,
           NEW at, Acknowledge(s, a, request, at).failure = "none"
    PROVE  Pending(s, Acknowledge(s, a, request, at).changes)
<1>. DEFINE old == Read(s, "assignment", a)
            new == [old EXCEPT !.status = request.outcome, !.acknowledgment = request,
                               !.acknowledgedAt = at]
            m == put("assignment", a, VersionOf(s, "assignment", a), new)
            n == put("assignment_acknowledgment", a, 0,
                     [acknowledgment |-> request, acknowledgedAt |-> at])
            x == put("operation_result", request.operation, 0, [record |-> new])
            ch == Acknowledge(s, a, request, at).changes
<1>1. <<"assignment", a>> \in Keys /\ <<"assignment_acknowledgment", a>> \in Keys
  BY HandledKey, Zenon
<1>2. /\ Live(s, "assignment", a)
      /\ old.status = "pending"
      /\ ValidateAssignmentAcknowledgment(old.demand, request) = "none"
      /\ ch = {m, n, x}
  BY Zenon DEF Acknowledge, Refuse, Accept
<1>3. request.operation \in OperationIds
  <2>1. request.operation # NoID
    BY <1>2, Zenon DEF ValidateAssignmentAcknowledgment
  <2>. QED BY <2>1, Zenon DEF AcknowledgmentRequest
<1>4. DOMAIN old = {"status", "reservation", "proposal", "demand", "confirmedAt",
                    "acknowledgment", "acknowledgedAt"}
  <2>1. ValueOK("assignment", old)
    BY <1>1, <1>2, Zenon DEF Sound, Live, Exists, Read, Get
  <2>. QED BY <2>1, Zenon DEF ValueOK
<1>5. /\ DOMAIN new = DOMAIN old
      /\ new.reservation = old.reservation
      /\ new.proposal = old.proposal
      /\ new.demand = old.demand
  BY <1>4, Zenon
<1>6. /\ m.key = <<"assignment", a>>
      /\ m.key[1] = "assignment"
      /\ m.expected = VersionOf(s, "assignment", a)
      /\ m.payload = new
  BY PutFields
<1>7. n.key[1] = "assignment_acknowledgment"
  BY PutFields
<1>8. Prepared(s, x) /\ x.key[1] = "operation_result"
  BY <1>3, ResultPrepared, Zenon
<1>9. Prepared(s, n)
  BY <1>1, FirstPrepared, Zenon DEF ValueOK, Unchanging
<1>. HIDE DEF new
<1>10. Prepared(s, m)
  <2>1. ValueOK("assignment", new)
    BY <1>4, <1>5, Zenon DEF ValueOK
  <2>2. Legal(Get(s, "assignment", a), m)
    BY <1>2, <1>5, <1>6, Zenon DEF Legal, Unchanging, TicketKinds, Read
  <2>. QED BY <1>1, <2>1, <2>2, PutPrepared, Zenon
<1>. HIDE DEF m, n, x, ch
<1>11. ClaimChanges(ch)
  BY <1>2, <1>6, <1>7, <1>8, QuietClaims, Zenon DEF Spares
<1>12. DemandChanges(s, ch)
  BY <1>2, <1>6, <1>7, <1>8, QuietDemand, Zenon DEF Spares
<1>13. AssignmentChanges(ch)
  <2>1. ASSUME NEW y \in ch, NEW r \in ReservationIds, y.key = <<"reservation", r>>
        PROVE  FALSE
    BY <1>2, <1>6, <1>7, <1>8, <2>1
  <2>2. ASSUME NEW y \in ch, NEW b \in AssignmentIds, y.key = <<"assignment", b>>
        PROVE  y.expected # 0
    <3>1. y = m
      BY <1>2, <1>7, <1>8, <2>2
    <3>. QED BY <1>2, <1>6, <3>1, Zenon DEF Live, Exists, VersionOf
  <2>. QED BY <2>1, <2>2, Zenon DEF AssignmentChanges
<1>14. RunChanges(s, ch)
  BY <1>2, <1>6, <1>7, <1>8, QuietRuns, Zenon DEF Spares
<1>. QED BY <1>2, <1>8, <1>9, <1>10, <1>11, <1>12, <1>13, <1>14, Zenon DEF Pending, ch

(* The match tickets that a confirmation consumes. *)
LEMMA ConsumedMatches ==
    ASSUME NEW s, Sound(s), NEW demand, Fresh(s, demand)
    PROVE  LET T == {delete("match_ticket", t, VersionOf(s, "match_ticket", t)) :
                       t \in Supply(demand)}
           IN /\ \A n \in T :
                   /\ Prepared(s, n)
                   /\ n.key[1] = "match_ticket"
                   /\ n.change = "delete"
                   /\ n.expected # 0
              /\ \A t \in Supply(demand) : Touches(T, "match_ticket", t)
<1>. DEFINE m(t) == delete("match_ticket", t, VersionOf(s, "match_ticket", t))
            T == {m(t) : t \in Supply(demand)}
<1>1. ASSUME NEW t \in Supply(demand)
      PROVE  /\ m(t).key = <<"match_ticket", t>>
             /\ m(t).key[1] = "match_ticket"
             /\ m(t).change = "delete"
             /\ m(t).expected = VersionOf(s, "match_ticket", t)
  BY DeleteFields
<1>2. ASSUME NEW t \in Supply(demand)
      PROVE  Prepared(s, m(t)) /\ m(t).expected # 0
  <2>1. <<"match_ticket", t>> \in Keys
    BY HandledKey, Zenon DEF Supply
  <2>2. Live(s, "match_ticket", t)
    BY Zenon DEF Fresh, FreshTicket, References
  <2>3. Legal(Get(s, "match_ticket", t), m(t))
    BY <1>1, <2>2, Zenon DEF Legal, Unchanging, TicketKinds, Live
  <2>4. m(t).expected # 0
    BY <1>1, <2>2, Zenon DEF Live, Exists, VersionOf
  <2>5. "match_ticket" \notin PutOnly
    BY Zenon DEF PutOnly, Unchanging
  <2>. QED BY <2>1, <2>3, <2>4, <2>5, DeletePrepared, Zenon
<1>3. \A t \in Supply(demand) : m(t) \in T
  BY Zenon
<1>4. \A n \in T : \E t \in Supply(demand) : n = m(t)
  BY Zenon
<1>5. T = {delete("match_ticket", t, VersionOf(s, "match_ticket", t)) : t \in Supply(demand)}
  BY Zenon
<1>. HIDE DEF m, T
<1>6. \A n \in T : /\ Prepared(s, n)
                   /\ n.key[1] = "match_ticket"
                   /\ n.change = "delete"
                   /\ n.expected # 0
  BY <1>1, <1>2, <1>4, Zenon
<1>7. \A t \in Supply(demand) : Touches(T, "match_ticket", t)
  BY <1>1, <1>3, Zenon DEF Touches
<1>. QED BY <1>5, <1>6, <1>7, Zenon

(* The backfill ticket that a confirmation consumes, and its session. *)
LEMMA ConsumedBackfill ==
    ASSUME NEW s, Sound(s), NEW t \in TicketIds, NEW session \in SessionIds,
           validateBackfillSessionClaim(s, session, t)
    PROVE  LET m == delete("backfill_ticket", t, VersionOf(s, "backfill_ticket", t))
               n == delete("backfill_session_claim", session,
                           VersionOf(s, "backfill_session_claim", session))
           IN /\ Prepared(s, m)
              /\ m.key = <<"backfill_ticket", t>>
              /\ m.key[1] = "backfill_ticket"
              /\ m.change = "delete"
              /\ m.expected # 0
              /\ Prepared(s, n)
              /\ n.key = <<"backfill_session_claim", session>>
              /\ n.key[1] = "backfill_session_claim"
              /\ n.change = "delete"
              /\ Read(s, "backfill_ticket", t).session = session
<1>. DEFINE m == delete("backfill_ticket", t, VersionOf(s, "backfill_ticket", t))
            n == delete("backfill_session_claim", session,
                        VersionOf(s, "backfill_session_claim", session))
<1>1. <<"backfill_ticket", t>> \in Keys /\ <<"backfill_session_claim", session>> \in Keys
  BY HandledKey, Zenon
<1>2. Live(s, "backfill_ticket", t) /\ Read(s, "backfill_ticket", t).session = session
  BY Zenon DEF Sound, DemandExact
<1>3. /\ m.key = <<"backfill_ticket", t>>
      /\ m.key[1] = "backfill_ticket"
      /\ m.change = "delete"
      /\ m.expected = VersionOf(s, "backfill_ticket", t)
  BY DeleteFields
<1>4. /\ n.key = <<"backfill_session_claim", session>>
      /\ n.key[1] = "backfill_session_claim"
      /\ n.change = "delete"
  BY DeleteFields
<1>5. "backfill_ticket" \notin PutOnly /\ "backfill_session_claim" \notin PutOnly
  BY Zenon DEF PutOnly, Unchanging
<1>6. Legal(Get(s, "backfill_ticket", t), m)
  BY <1>2, <1>3, Zenon DEF Legal, Unchanging, TicketKinds, Live
<1>7. Legal(Get(s, "backfill_session_claim", session), n)
  BY <1>4, Zenon DEF Legal, Unchanging, TicketKinds
<1>8. Prepared(s, m) /\ Prepared(s, n)
  BY <1>1, <1>5, <1>6, <1>7, DeletePrepared, Zenon
<1>9. m.expected # 0
  BY <1>2, <1>3, Zenon DEF Live, Exists, VersionOf
<1>. QED BY <1>2, <1>3, <1>4, <1>8, <1>9, Zenon

(* Confirm prepares the end of the reservation, its assignment and the     *)
(* consumption of what it names.                                           *)
LEMMA ConfirmPending ==
    ASSUME NEW s, Sound(s), NEW o \in OperationIds, NEW r \in ReservationIds,
           NEW a \in AssignmentIds, NEW at, Confirm(s, o, r, a, at).failure = "none"
    PROVE  Pending(s, Confirm(s, o, r, a, at).changes)
<1>. DEFINE old == Read(s, "reservation", r)
            demand == old.demand
            t == demand.backfill.ticket
            session == demand.backfill.session
            assignment == [status |-> "pending", reservation |-> r, proposal |-> old.proposal,
                           demand |-> demand, confirmedAt |-> at,
                           acknowledgment |-> NoAcknowledgment, acknowledgedAt |-> 0]
            m == put("reservation", r, VersionOf(s, "reservation", r),
                     [old EXCEPT !.status = "confirmed"])
            n == put("assignment", a, 0, assignment)
            x == put("operation_result", o, 0, [record |-> assignment])
            T == {delete("match_ticket", u, VersionOf(s, "match_ticket", u)) :
                    u \in Supply(demand)}
            b == delete("backfill_ticket", t, VersionOf(s, "backfill_ticket", t))
            c == delete("backfill_session_claim", session,
                        VersionOf(s, "backfill_session_claim", session))
            B == IF ~IsBackfill(demand) THEN {} ELSE {b, c}
            D == reservationClaimDeletions(s, demand)
            ch == Confirm(s, o, r, a, at).changes
<1>1. /\ Live(s, "reservation", r)
      /\ old.status = "active"
      /\ ~Exists(s, "assignment", a)
      /\ Fresh(s, demand)
      /\ IsBackfill(demand) =>
           /\ Live(s, "backfill_session_claim", session)
           /\ Read(s, "backfill_session_claim", session).ticket = t
      /\ ch = confirmDemandMutations(s, demand) \cup {m, n, x}
  BY Zenon DEF Confirm, Refuse, Accept
<1>2. ch = T \cup B \cup D \cup {m, n, x}
  BY <1>1, Zenon DEF confirmDemandMutations
<1>3. IsActive(s, r)
  BY <1>1, Zenon DEF IsActive
<1>4. Known(demand)
  BY <1>1, ReservationValue, Zenon
<1>5. /\ Prepared(s, m)
      /\ m.key = <<"reservation", r>>
      /\ m.key[1] = "reservation"
      /\ m.payload.status = "confirmed"
      /\ m.payload.demand = demand
      /\ m.payload.proposal = old.proposal
  BY <1>3, EndedPrepared DEF ReservationStatuses
<1>6. /\ n.key = <<"assignment", a>>
      /\ n.key[1] = "assignment"
      /\ n.expected = 0
      /\ n.payload.reservation = r
      /\ n.payload.proposal = old.proposal
      /\ n.payload.demand = demand
  <2>1. /\ n.key = <<"assignment", a>>
        /\ n.key[1] = "assignment"
        /\ n.expected = 0
        /\ n.payload = assignment
    BY PutFields
  <2>2. /\ assignment.reservation = r
        /\ assignment.proposal = old.proposal
        /\ assignment.demand = demand
    BY Zenon
  <2>. QED BY <2>1, <2>2, Zenon
<1>7. Prepared(s, n)
  <2>1. <<"assignment", a>> \in Keys
    BY HandledKey, Zenon
  <2>2. ValueOK("assignment", assignment)
    BY Zenon DEF ValueOK
  <2>3. VersionOf(s, "assignment", a) = 0
    BY <1>1, Zenon DEF Exists, VersionOf
  <2>4. Legal(Get(s, "assignment", a), n)
    BY <1>6, <2>3, Zenon DEF Legal, Unchanging, TicketKinds, VersionOf
  <2>. QED BY <2>1, <2>2, <2>3, <2>4, PutPrepared, Zenon
<1>8. Prepared(s, x) /\ x.key[1] = "operation_result"
  BY ResultPrepared, Zenon
<1>9. /\ \A y \in T : /\ Prepared(s, y)
                      /\ y.key[1] = "match_ticket"
                      /\ y.change = "delete"
                      /\ y.expected # 0
      /\ \A u \in Supply(demand) : Touches(T, "match_ticket", u)
  BY <1>1, ConsumedMatches, Zenon
<1>10. /\ \A y \in D : /\ Prepared(s, y)
                       /\ y.key[1] = "demand_reservation_claim"
                       /\ y.change = "delete"
                       /\ \E u \in References(demand) :
                            y.key = <<"demand_reservation_claim", u>>
       /\ \A u \in References(demand) : Touches(D, "demand_reservation_claim", u)
  BY <1>4, DeletionsPrepared, Zenon
<1>11. ASSUME IsBackfill(demand)
       PROVE  /\ t \in TicketIds /\ session \in SessionIds
              /\ Prepared(s, b)
              /\ b.key = <<"backfill_ticket", t>>
              /\ b.key[1] = "backfill_ticket"
              /\ b.change = "delete"
              /\ b.expected # 0
              /\ Prepared(s, c)
              /\ c.key = <<"backfill_session_claim", session>>
              /\ c.key[1] = "backfill_session_claim"
              /\ c.change = "delete"
              /\ Read(s, "backfill_ticket", t).session = session
  <2>1. t \in TicketIds /\ session \in SessionIds
    BY <1>4, <1>11, Zenon DEF Known
  <2>2. validateBackfillSessionClaim(s, session, t)
    BY <1>1, <1>11, Zenon DEF validateBackfillSessionClaim
  <2>. HIDE DEF t, session
  <2>. QED BY <2>1, <2>2, ConsumedBackfill
<1>12. References(demand) = Supply(demand) \cup (IF IsBackfill(demand) THEN {t} ELSE {})
  BY Zenon DEF References
<1>13. B = IF ~IsBackfill(demand) THEN {} ELSE {b, c}
  BY Zenon
<1>. HIDE DEF m, n, x, T, B, b, c, D, ch, t, session, demand
<1>14. ASSUME NEW y \in B
       PROVE  /\ IsBackfill(demand)
              /\ y.change = "delete"
              /\ y = b \/ y = c
              /\ y.key[1] \in {"backfill_ticket", "backfill_session_claim"}
              /\ Prepared(s, y)
  BY <1>11, <1>13, Zenon
<1>15. \A y \in ch : Prepared(s, y)
  BY <1>2, <1>5, <1>7, <1>8, <1>9, <1>10, <1>14, Zenon
<1>16. ClaimChanges(ch)
  <2>1. \A y \in ch : y \in D \/ y = m
                      \/ y.key[1] \notin {"reservation", "demand_reservation_claim"}
    BY <1>2, <1>6, <1>8, <1>9, <1>14, Zenon
  <2>2. m \in ch /\ D \subseteq ch
    BY <1>2, Zenon
  <2>3. m.payload.status # "active"
    BY <1>5, Zenon
  <2>. QED BY <1>4, <1>5, <1>10, <2>1, <2>2, <2>3, EndsWhole
<1>17. ASSUME NEW y \in ch, NEW kind \in TicketKinds, NEW u \in TicketIds, y.key = <<kind, u>>
       PROVE  /\ y.change = "delete"
              /\ y.expected # 0
              /\ kind = "backfill_ticket" => IsBackfill(demand) /\ y = b /\ u = t
  <2>1. y.key[1] = kind
    BY <1>17
  <2>2. y \in T \/ y \in B
    BY <1>2, <1>5, <1>6, <1>8, <1>10, <2>1, Zenon DEF TicketKinds
  <2>3. CASE y \in T
    BY <1>9, <2>1, <2>3, Zenon
  <2>4. CASE y \in B
    <3>1. IsBackfill(demand)
      BY <1>14, <2>4, Zenon
    <3>2. y = b
      BY <1>11, <1>14, <2>1, <2>4, <3>1, Zenon DEF TicketKinds
    <3>. QED BY <1>11, <1>17, <3>1, <3>2
  <2>. QED BY <2>2, <2>3, <2>4, Zenon
<1>18. DemandChanges(s, ch)
  <2>1. Spares(ch, {"demand_identity"})
    BY <1>2, <1>5, <1>6, <1>8, <1>9, <1>10, <1>14, Zenon DEF Spares
  <2>2. CASE ~IsBackfill(demand)
    <3>1. Spares(ch, {"demand_identity", "backfill_session_claim"})
      BY <1>2, <1>5, <1>6, <1>8, <1>9, <1>10, <1>13, <2>2, Zenon DEF Spares
    <3>2. Keeps(ch)
      BY <1>17, <2>2, <3>1, Zenon DEF Keeps
    <3>. QED BY <3>2, Zenon DEF DemandChanges
  <2>3. CASE IsBackfill(demand)
    <3>1. b \in ch /\ c \in ch
      BY <1>2, <1>13, <2>3, Zenon
    <3>2. Touches(ch, "backfill_ticket", t) /\ Touches(ch, "backfill_session_claim", session)
      BY <1>11, <2>3, <3>1, Zenon DEF Touches
    <3>3. ASSUME NEW y \in ch, NEW z \in SessionIds, y.key = <<"backfill_session_claim", z>>
          PROVE  z = session /\ y.change = "delete"
      <4>1. y.key[1] = "backfill_session_claim"
        BY <3>3
      <4>2. y \in B
        BY <1>2, <1>5, <1>6, <1>8, <1>9, <1>10, <4>1, Zenon
      <4>3. y = c
        BY <1>11, <1>14, <2>3, <4>1, <4>2, Zenon
      <4>. QED BY <1>11, <2>3, <3>3, <4>3
    <3>4. Read(s, "backfill_ticket", t).session = session
      BY <1>11, <2>3, Zenon
    <3>5. Removes(s, ch, t, session)
      BY <1>17, <2>1, <3>2, <3>3, <3>4, Zenon DEF Removes
    <3>. QED BY <1>11, <2>3, <3>5, Zenon DEF DemandChanges
  <2>. QED BY <2>2, <2>3, Zenon
<1>19. AssignmentChanges(ch)
  <2>1. Touches(ch, "reservation", r) /\ Touches(ch, "assignment", a)
    BY <1>2, <1>5, <1>6, Zenon DEF Touches
  <2>2. ASSUME NEW y \in ch, NEW z \in ReservationIds, y.key = <<"reservation", z>>
        PROVE  y = m /\ z = r
    <3>1. y.key[1] = "reservation"
      BY <2>2
    <3>2. y = m
      BY <1>2, <1>6, <1>8, <1>9, <1>10, <1>14, <3>1, Zenon
    <3>. QED BY <1>5, <2>2, <3>2
  <2>3. ASSUME NEW y \in ch, NEW z \in AssignmentIds, y.key = <<"assignment", z>>
        PROVE  y = n /\ z = a
    <3>1. y.key[1] = "assignment"
      BY <2>3
    <3>2. y = n
      BY <1>2, <1>5, <1>8, <1>9, <1>10, <1>14, <3>1, Zenon
    <3>. QED BY <1>6, <2>3, <3>2
  <2>4. ASSUME NEW u \in References(demand)
        PROVE  \E kind \in TicketKinds : Touches(ch, kind, u)
    <3>1. CASE u \in Supply(demand)
      <4>1. Touches(T, "match_ticket", u)
        BY <1>9, <3>1, Zenon
      <4>. QED BY <1>2, <4>1, Zenon DEF Touches, TicketKinds
    <3>2. CASE u \notin Supply(demand)
      <4>1. IsBackfill(demand) /\ u = t
        BY <1>12, <3>2, Zenon
      <4>2. b \in ch /\ b.key = <<"backfill_ticket", u>>
        BY <1>2, <1>11, <1>13, <4>1, Zenon
      <4>. QED BY <4>2, Zenon DEF Touches, TicketKinds
    <3>. QED BY <3>1, <3>2, Zenon
  <2>5. Confirms(ch, r, a)
    BY <1>5, <1>6, <1>17, <2>1, <2>2, <2>3, <2>4 DEF Confirms
  <2>. QED BY <2>5, Zenon DEF AssignmentChanges
<1>20. RunChanges(s, ch)
  BY <1>2, <1>5, <1>6, <1>8, <1>9, <1>10, <1>14, QuietRuns DEF Spares
<1>. QED BY <1>15, <1>16, <1>18, <1>19, <1>20, Zenon DEF Pending, ch

-----------------------------------------------------------------------------
(* The completion of a planning run. *)

(* The completion of a run prepares all results of the batch planned. *)
LEMMA CompletePending ==
    ASSUME NEW s, Sound(s), NEW run \in RunIds, NEW record,
           Live(s, "planning_run", run), Live(s, "planning_snapshot", run),
           Read(s, "planning_run", run).status # "completed",
           DOMAIN record = RunFields, record.status = "completed",
           LET input == Read(s, "planning_snapshot", run).input
           IN /\ validatePlanningBatch(input, Plan(input))
              /\ record.proposals = Cardinality(Proposed(Plan(input)))
              /\ record.unmatched = Cardinality(Plan(input).unmatched)
    PROVE  LET batch == Plan(Read(s, "planning_snapshot", run).input)
           IN Pending(s, completeMutations(s, run, record, batch))
<1>. DEFINE input == Read(s, "planning_snapshot", run).input
            batch == Plan(input)
            m == put("planning_run", run, VersionOf(s, "planning_run", run), record)
            p(id) == put("proposal", id, 0, [run |-> run, demand |-> batch.proposals[id]])
            P == {p(id) : id \in Proposed(batch)}
            u(t) == put("planning_unmatched", <<run, t>>, 0,
                        [unmatched |-> input.matches[t].revision])
            U == {u(t) : t \in batch.unmatched}
            ch == completeMutations(s, run, record, batch)
<1>1. <<"planning_run", run>> \in Keys /\ <<"planning_snapshot", run>> \in Keys
  BY HandledKey, Zenon
<1>2. ch = {m} \cup P \cup U
  BY Zenon DEF completeMutations
<1>3. /\ Live(s, "planning_snapshot", run)
      /\ validatePlanningBatch(input, batch)
      /\ DOMAIN record = RunFields
      /\ record.status = "completed"
      /\ record.proposals = Cardinality(Proposed(batch))
      /\ record.unmatched = Cardinality(batch.unmatched)
  BY Zenon
<1>4. /\ m.key = <<"planning_run", run>>
      /\ m.key[1] = "planning_run"
      /\ m.payload = record
  BY PutFields
<1>5. Prepared(s, m)
  <2>1. Read(s, "planning_run", run).status = "planning"
    <3>1. ValueOK("planning_run", Read(s, "planning_run", run))
      BY <1>1, Zenon DEF Sound, Live, Exists, Read, Get
    <3>. QED BY <3>1, Zenon DEF ValueOK
  <2>2. ValueOK("planning_run", record)
    BY <1>3, Zenon DEF ValueOK
  <2>3. Legal(Get(s, "planning_run", run), m)
    BY <1>4, <2>1, Zenon DEF Legal, Unchanging, TicketKinds, Read
  <2>. QED BY <1>1, <2>2, <2>3, PutPrepared, Zenon
<1>6. ASSUME NEW id \in Proposed(batch)
      PROVE  /\ p(id).key = <<"proposal", id>>
             /\ p(id).key[1] = "proposal"
             /\ p(id).payload = [run |-> run, demand |-> batch.proposals[id]]
  BY Zenon DEF put
<1>7. ASSUME NEW id \in Proposed(batch)
      PROVE  Prepared(s, p(id))
  <2>. DEFINE demand == batch.proposals[id]
  <2>1. <<"proposal", id>> \in Keys
    BY HandledKey, Zenon DEF Proposed
  <2>2. PlacesCaptured(input, demand)
    BY <1>3, Zenon DEF validatePlanningBatch
  <2>3. \A t \in CapturedBackfills(input) : input.backfills[t] \in StoredBackfill
    <3>1. ValueOK("planning_snapshot", Read(s, "planning_snapshot", run))
      BY <1>1, <1>3, Zenon DEF Sound, Live, Exists, Read, Get
    <3>. QED BY <3>1, Zenon DEF ValueOK
  <2>4. Known(demand)
    BY <2>2, <2>3, Zenon DEF PlacesCaptured, Known, CapturedBackfills, StoredBackfill
  <2>5. ValueOK("proposal", [run |-> run, demand |-> demand])
    BY <2>4, Zenon DEF ValueOK
  <2>. QED BY <2>1, <2>5, FirstPrepared, Zenon DEF Unchanging
<1>8. batch.unmatched \subseteq TicketIds
  BY <1>3, Zenon DEF validatePlanningBatch, CapturedMatches
<1>9. ASSUME NEW t \in batch.unmatched
      PROVE  /\ u(t).key = <<"planning_unmatched", <<run, t>>>>
             /\ u(t).key[1] = "planning_unmatched"
  BY Zenon DEF put
<1>10. ASSUME NEW t \in batch.unmatched
       PROVE  Prepared(s, u(t))
  <2>1. <<"planning_unmatched", <<run, t>>>> \in Keys
    BY <1>8, HandledKey, Zenon
  <2>. QED BY <2>1, FirstPrepared, Zenon DEF ValueOK, Unchanging
<1>11. /\ \A x \in P : \E id \in Proposed(batch) : x = p(id)
       /\ \A id \in Proposed(batch) : p(id) \in P
       /\ \A x \in U : \E t \in batch.unmatched : x = u(t)
       /\ \A t \in batch.unmatched : u(t) \in U
  BY Zenon
<1>. HIDE DEF m, p, P, u, U, ch, batch, input
<1>12. /\ \A x \in P : Prepared(s, x) /\ x.key[1] = "proposal"
       /\ \A x \in U : Prepared(s, x) /\ x.key[1] = "planning_unmatched"
  BY <1>6, <1>7, <1>9, <1>10, <1>11, Zenon
<1>13. \A x \in ch : Prepared(s, x)
  BY <1>2, <1>5, <1>12, Zenon
<1>14. ClaimChanges(ch)
  BY <1>2, <1>4, <1>12, QuietClaims, Zenon DEF Spares
<1>15. DemandChanges(s, ch)
  BY <1>2, <1>4, <1>12, QuietDemand, Zenon DEF Spares
<1>16. AssignmentChanges(ch)
  BY <1>2, <1>4, <1>12, QuietAssignments, Zenon DEF Spares
<1>17. RunChanges(s, ch)
  <2>1. Exists(s, "planning_snapshot", run)
    BY <1>3, Zenon DEF Live
  <2>2. Spares(ch, {"planning_snapshot"})
    BY <1>2, <1>4, <1>12, Zenon DEF Spares
  <2>3. Touches(ch, "planning_run", run)
    BY <1>2, <1>4, Zenon DEF Touches
  <2>4. \A id \in Proposed(batch) : Touches(ch, "proposal", id)
    BY <1>2, <1>6, <1>11, Zenon DEF Touches
  <2>5. \A t \in batch.unmatched : Touches(ch, "planning_unmatched", <<run, t>>)
    BY <1>2, <1>9, <1>11, Zenon DEF Touches
  <2>6. ASSUME NEW x \in ch, NEW y \in RunIds, x.key = <<"planning_run", y>>
        PROVE  y = run /\ x.payload = record
    <3>1. x.key[1] = "planning_run"
      BY <2>6
    <3>2. x = m
      BY <1>2, <1>12, <3>1, Zenon
    <3>. QED BY <1>4, <2>6, <3>2
  <2>7. ASSUME NEW x \in ch, NEW id \in ProposalIds, x.key = <<"proposal", id>>
        PROVE  id \in Proposed(batch) /\ x.payload = [run |-> run, demand |-> batch.proposals[id]]
    <3>1. x.key[1] = "proposal"
      BY <2>7
    <3>2. x \in P
      BY <1>2, <1>4, <1>12, <3>1, Zenon
    <3>3. PICK other \in Proposed(batch) : x = p(other)
      BY <1>11, <3>2, Zenon
    <3>4. x.key = <<"proposal", other>>
      BY <1>6, <3>3, Zenon
    <3>5. other = id
      BY <2>7, <3>4
    <3>. QED BY <1>6, <3>3, <3>5, Zenon
  <2>8. ASSUME NEW x \in ch, NEW y \in RunIds, NEW t \in TicketIds,
               x.key = <<"planning_unmatched", <<y, t>>>>
        PROVE  y = run /\ t \in batch.unmatched
    <3>1. x.key[1] = "planning_unmatched"
      BY <2>8
    <3>2. x \in U
      BY <1>2, <1>4, <1>12, <3>1, Zenon
    <3>3. PICK other \in batch.unmatched : x = u(other)
      BY <1>11, <3>2, Zenon
    <3>4. x.key = <<"planning_unmatched", <<run, other>>>>
      BY <1>9, <3>3, Zenon
    <3>5. other = t /\ run = y
      BY <2>8, <3>4
    <3>. QED BY <3>5, Zenon
  <2>9. Completes(s, ch, run)
    BY <1>3, <1>8, <2>1, <2>2, <2>3, <2>4, <2>5, <2>6, <2>7, <2>8, Zenon DEF Completes,
       batch, input
  <2>. QED BY <2>9, Zenon DEF RunChanges
<1>. QED BY <1>13, <1>14, <1>15, <1>16, <1>17, Zenon DEF Pending, ch, batch, input

==============================================================================
