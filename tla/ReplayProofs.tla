---------------------------- MODULE ReplayProofs -----------------------------
(***************************************************************************)
(* The replay of a journal beside the live engine that wrote it and beside *)
(* the importer's model of it.  The replay lags: it knows no expiry that   *)
(* a plan or a refused call has made, and of no reservation that a refused *)
(* Confirm has withdrawn.  The lemmas say what each kind of call does to   *)
(* that difference, then what a journal with one more record replays and   *)
(* imports to, so that nothing is left to an induction over journals.      *)
(***************************************************************************)
EXTENDS RecordProofs

-----------------------------------------------------------------------------
(* A call of the coordinator, beside the same call of the replay's. *)

(* A call that takes no time answers alike where the demand is the same,   *)
(* and leaves it the same.                                                 *)
LEMMA UntimedAlike ==
    ASSUME NEW c \in CoordinatorStruct, NEW d \in CoordinatorStruct, SameDemand(c, d),
           NEW event \in Untimed
    PROVE  LET x == coordinatorCall(c, event)
               y == coordinatorCall(d, event)
           IN /\ x.failure = y.failure
              /\ SameDemand(x.state, y.state)
              /\ x.state.reservations = c.reservations
              /\ y.failure # "none" => y.state = d
<1>1. CASE event \in [kind : {"match_ticket_submitted"}, id : TicketIds, ticket : MatchTicket]
  <2>1. event.kind = "match_ticket_submitted" /\ event.id \in TicketIds /\ event.ticket \in MatchTicket
    BY <1>1, Zenon
  <2>2. \A b : coordinatorCall(b, event) = UpsertMatchTicket(b, event.id, event.ticket)
    BY <2>1, Zenon DEF coordinatorCall
  <2> QED BY <2>1, <2>2, UpsertMatchAlike
<1>2. CASE event \in [kind : {"backfill_ticket_submitted"}, id : TicketIds, ticket : BackfillTicket]
  <2>1. event.kind = "backfill_ticket_submitted" /\ event.id \in TicketIds /\ event.ticket \in BackfillTicket
    BY <1>2, Zenon
  <2>2. \A b : coordinatorCall(b, event) = UpsertBackfillTicket(b, event.id, event.ticket)
    BY <2>1, Zenon DEF coordinatorCall
  <2> QED BY <2>1, <2>2, UpsertBackfillAlike
<1>3. CASE event \in [kind : {"match_ticket_cancelled"}, id : TicketIds, revision : Nat]
  <2>1. event.kind = "match_ticket_cancelled" /\ event.id \in TicketIds
    BY <1>3, Zenon
  <2>2. \A b : coordinatorCall(b, event) = CancelMatchTicket(b, event.id, event.revision)
    BY <2>1, Zenon DEF coordinatorCall
  <2> QED BY <2>1, <2>2, CancelMatchAlike
<1>4. CASE event \in [kind : {"backfill_ticket_cancelled"}, id : TicketIds, revision : Nat,
                      rosterVersion : Nat]
  <2>1. event.kind = "backfill_ticket_cancelled" /\ event.id \in TicketIds
    BY <1>4, Zenon
  <2>2. \A b : coordinatorCall(b, event) =
                 CancelBackfillTicket(b, event.id, event.revision, event.rosterVersion)
    BY <2>1, Zenon DEF coordinatorCall
  <2> QED BY <2>1, <2>2, CancelBackfillAlike
<1>5. CASE event \in [kind : {"assignment_acknowledged"}, assignment : AssignmentIds,
                      request : AcknowledgmentRequest]
  <2>1. event.kind = "assignment_acknowledged" /\ event.assignment \in AssignmentIds
    BY <1>5, Zenon
  <2>2. \A b : coordinatorCall(b, event) =
                 AcknowledgeAssignment(b, event.assignment, event.request)
    BY <2>1, Zenon DEF coordinatorCall
  <2> QED BY <2>1, <2>2, AcknowledgeAlike
<1> QED BY <1>1, <1>2, <1>3, <1>4, <1>5, Zenon DEF Untimed

(* A call that the live coordinator refuses is not journalled: what it     *)
(* withdraws is added to the difference.                                   *)
LEMMA RefusedLags ==
    ASSUME NEW c \in CoordinatorStruct, NEW d \in CoordinatorStruct, NEW U, Lags(c, d, U),
           NEW event \in Untimed \cup Timed,
           coordinatorCall(d, event).failure # "none"
    PROVE  LET e == coordinatorCall(d, event).state
           IN Lags(c, e, U \cup Withdrawn(d, e))
<1> DEFINE e == coordinatorCall(d, event).state
           V == U \cup Withdrawn(d, e)
<1>1. U \subseteq V
  BY Zenon
<1>2. ASSUME Lags(c, e, U) PROVE Lags(c, e, V)
  <2> HIDE DEF e, V
  <2> QED BY <1>1, <1>2, LagsMore, Zenon
<1>3. CASE event \in Untimed
  <2>1. SameDemand(d, d)
    BY Zenon DEF SameDemand
  <2>2. e = d
    BY <1>3, <2>1, UntimedAlike, Zenon
  <2> QED BY <1>2, <2>2, Zenon
<1>4. CASE event \in [kind : {"proposal_reserved"}, proposal : MatchProposal,
                      reservation : ReservationIds, now : Nat]
  <2>1. event.kind = "proposal_reserved" /\ event.proposal \in MatchProposal
          /\ event.reservation \in ReservationIds /\ event.now \in Nat
    BY <1>4, Zenon
  <2>2. coordinatorCall(d, event) = Reserve(d, event.proposal, event.reservation, event.now)
    BY <2>1, Zenon DEF coordinatorCall
  <2>3. expireLocked(d, event.now).reservations[event.reservation] \in ReservationRecord
    BY <2>1, ExpireFields, Zenon
  <2>4. expireLocked(d, event.now).reservations[event.reservation].status
          \in ReservationStatuses \cup {"absent"}
    BY <2>3, Zenon DEF ReservationRecord
  <2>5. e \in {d, expireLocked(d, event.now)}
    BY <2>2, <2>4, ReserveEnds
  <2>6. Lags(c, expireLocked(d, event.now), U)
    BY <2>1, ExpireLags, Zenon
  <2> QED BY <1>2, <2>5, <2>6, Zenon
<1>5. CASE event \in [kind : {"reservation_confirmed"}, reservation : ReservationIds,
                      assignment : AssignmentIds, now : Nat]
  <2>1. event.kind = "reservation_confirmed" /\ event.reservation \in ReservationIds
          /\ event.assignment \in AssignmentIds /\ event.now \in Nat
    BY <1>5, Zenon
  <2>2. coordinatorCall(d, event) = Confirm(d, event.reservation, event.assignment, event.now)
    BY <2>1, Zenon DEF coordinatorCall
  <2> QED BY <2>1, <2>2, ConfirmRefused, Zenon
<1>6. CASE event \in [kind : {"reservation_cancelled"}, reservation : ReservationIds, now : Nat]
  <2>1. event.kind = "reservation_cancelled" /\ event.reservation \in ReservationIds
          /\ event.now \in Nat
    BY <1>6, Zenon
  <2>2. coordinatorCall(d, event) = Cancel(d, event.reservation, event.now)
    BY <2>1, Zenon DEF coordinatorCall
  <2>3. e = expireLocked(d, event.now)
    BY <2>2, CancelRefused
  <2>4. Lags(c, expireLocked(d, event.now), U)
    BY <2>1, ExpireLags, Zenon
  <2> QED BY <1>2, <2>3, <2>4, Zenon
<1> QED BY <1>3, <1>4, <1>5, <1>6, Zenon DEF Timed

(* A call both coordinators accept leaves the replay behind as it was. *)
LEMMA AcceptedLags ==
    ASSUME NEW c \in CoordinatorStruct, NEW d \in CoordinatorStruct, NEW U, Lags(c, d, U),
           NEW event \in Untimed \cup Timed,
           coordinatorCall(c, event).failure = "none",
           coordinatorCall(d, event).failure = "none"
    PROVE  Lags(coordinatorCall(c, event).state, coordinatorCall(d, event).state, U)
<1>1. CASE event \in Untimed
  <2> DEFINE x == coordinatorCall(c, event).state
             y == coordinatorCall(d, event).state
  <2>1. SameDemand(c, d) /\ SameDemand(d, d)
    BY Zenon DEF Lags, SameDemand
  <2>2. SameDemand(x, y) /\ x.reservations = c.reservations
    BY <1>1, <2>1, UntimedAlike, Zenon
  <2>3. y.reservations = d.reservations
    BY <1>1, <2>1, UntimedAlike, Zenon
  <2> HIDE DEF x, y
  <2>4. Lags(x, y, U)
    BY <2>2, <2>3, Zenon DEF Lags
  <2> QED BY <2>4, Zenon DEF x, y
<1>2. CASE event \in [kind : {"proposal_reserved"}, proposal : MatchProposal,
                      reservation : ReservationIds, now : Nat]
  <2>1. event.kind = "proposal_reserved" /\ event.proposal \in MatchProposal
          /\ event.reservation \in ReservationIds /\ event.now \in Nat
    BY <1>2, Zenon
  <2>2. \A b : coordinatorCall(b, event)
                 = Reserve(b, event.proposal, event.reservation, event.now)
    BY <2>1, Zenon DEF coordinatorCall
  <2> QED BY <2>1, <2>2, ReserveLags, Zenon
<1>3. CASE event \in [kind : {"reservation_confirmed"}, reservation : ReservationIds,
                      assignment : AssignmentIds, now : Nat]
  <2>1. event.kind = "reservation_confirmed" /\ event.reservation \in ReservationIds
          /\ event.assignment \in AssignmentIds /\ event.now \in Nat
    BY <1>3, Zenon
  <2>2. \A b : coordinatorCall(b, event)
                 = Confirm(b, event.reservation, event.assignment, event.now)
    BY <2>1, Zenon DEF coordinatorCall
  <2> QED BY <2>1, <2>2, ConfirmLags, Zenon
<1>4. CASE event \in [kind : {"reservation_cancelled"}, reservation : ReservationIds, now : Nat]
  <2>1. event.kind = "reservation_cancelled" /\ event.reservation \in ReservationIds
          /\ event.now \in Nat
    BY <1>4, Zenon
  <2>2. \A b : coordinatorCall(b, event) = Cancel(b, event.reservation, event.now)
    BY <2>1, Zenon DEF coordinatorCall
  <2> QED BY <2>1, <2>2, CancelLags, Zenon
<1> QED BY <1>1, <1>2, <1>3, <1>4, Zenon DEF Timed

(* A replay that knows of every cancellation answers as the live           *)
(* coordinator does, unless the call's time is before an expiry already    *)
(* made.                                                                   *)
LEMMA SameAnswer ==
    ASSUME NEW c, IInv(c), NEW d, IInv(d), Lags(c, d, {}),
           NEW event \in Untimed \cup Timed,
           "now" \in DOMAIN event =>
             \A r \in ReservationIds : d.reservations[r].status = "expired" =>
                                         event.now >= d.reservations[r].expiresAt
    PROVE  coordinatorCall(c, event).failure = coordinatorCall(d, event).failure
<1>1. c \in CoordinatorStruct /\ d \in CoordinatorStruct /\ SameDemand(c, d)
  BY Zenon DEF IInv, Lags
<1>2. CASE event \in Untimed
  BY <1>1, <1>2, UntimedAlike, Zenon
<1>3. CASE event \in Timed
  <2>1. event.now \in Nat /\ "now" \in DOMAIN event
    BY <1>3, Zenon DEF Timed
  <2>2. expireLocked(c, event.now) = expireLocked(d, event.now)
    BY <2>1, CaughtUp, Zenon
  <2>3. CASE event.kind = "proposal_reserved"
    <3>1. \A b : coordinatorCall(b, event)
                   = Reserve(b, event.proposal, event.reservation, event.now)
      BY <2>3, Zenon DEF coordinatorCall
    <3>2. Reserve(c, event.proposal, event.reservation, event.now).failure
            = Reserve(d, event.proposal, event.reservation, event.now).failure
      BY <2>2, Zenon DEF Reserve, Ok, Fail
    <3> QED BY <3>1, <3>2
  <2>4. CASE event.kind = "reservation_confirmed"
    <3>1. \A b : coordinatorCall(b, event)
                   = Confirm(b, event.reservation, event.assignment, event.now)
      BY <2>4, Zenon DEF coordinatorCall
    <3>2. Confirm(c, event.reservation, event.assignment, event.now)
            = Confirm(d, event.reservation, event.assignment, event.now)
      BY <2>2, Zenon DEF Confirm
    <3> QED BY <3>1, <3>2, Zenon
  <2>5. CASE event.kind = "reservation_cancelled"
    <3>1. \A b : coordinatorCall(b, event) = Cancel(b, event.reservation, event.now)
      BY <2>5, Zenon DEF coordinatorCall
    <3>2. Cancel(c, event.reservation, event.now) = Cancel(d, event.reservation, event.now)
      BY <2>2, Zenon DEF Cancel
    <3> QED BY <3>1, <3>2, Zenon
  <2> QED BY <1>3, <2>3, <2>4, <2>5, Zenon DEF Timed
<1> QED BY <1>2, <1>3, Zenon

-----------------------------------------------------------------------------
(* The engine that a replay gives, beside the live one. *)

Follows(e, l, U) ==
    /\ e.policies = l.policies
    /\ Lags(e.coordinator, l.coordinator, U)

Engines == [coordinator : CoordinatorStruct,
            policies : [PolicyVersions -> Fingerprints \cup {NoID}]]

(* A call of the coordinator, seen at the engine. *)
LEMMA Delegated ==
    ASSUME NEW e, EngineOK(e), NEW event \in Untimed \cup Timed
    PROVE  LET x == engineCall(e, event)
               y == coordinatorCall(e.coordinator, event)
           IN /\ x.failure = y.failure
              /\ x.state.coordinator = y.state
              /\ x.state.policies = e.policies
<1>1. event.kind # "policy_registered"
  BY Zenon DEF Untimed, Timed
<1>2. engineCall(e, event) = delegated(e, coordinatorCall(e.coordinator, event))
  BY <1>1, Zenon DEF engineCall
<1>3. e \in Engines
  BY Zenon DEF EngineOK, Engines
<1> QED BY <1>2, <1>3 DEF delegated, Engines

(* Registering a policy, seen at the engine. *)
LEMMA Registered ==
    ASSUME NEW e, EngineOK(e), NEW event \in Registrations
    PROVE  LET x == engineCall(e, event) IN
           /\ x.state.coordinator = e.coordinator
           /\ x.failure = IF e.policies[event.version] \notin {NoID, event.fingerprint}
                          THEN "PolicyConflict" ELSE "none"
           /\ x.failure = "none" =>
                x.state.policies = [e.policies EXCEPT ![event.version] = event.fingerprint]
           /\ x.failure # "none" => x.state = e
<1>1. event.kind = "policy_registered"
  BY Zenon DEF Registrations
<1>2. engineCall(e, event) = RegisterPolicy(e, event.version, event.fingerprint)
  BY <1>1, Zenon DEF engineCall
<1>3. e \in Engines
  BY Zenon DEF EngineOK, Engines
<1> QED BY <1>2, <1>3 DEF RegisterPolicy, Ok, Fail, Engines

(* The coordinator of a well-formed engine satisfies the invariant of      *)
(* Coordinator.                                                            *)
LEMMA EngineStruct ==
    ASSUME NEW e, EngineOK(e)
    PROVE  e.coordinator \in CoordinatorStruct /\ IInv(e.coordinator)
BY Zenon DEF EngineOK, IInv

(* A mutation that both engines accept leaves the replay behind as it was. *)
LEMMA MutationAccepted ==
    ASSUME NEW e, EngineOK(e), NEW l, EngineOK(l), NEW U, Follows(e, l, U),
           NEW event \in Mutations,
           engineCall(e, event).failure = "none", engineCall(l, event).failure = "none"
    PROVE  Follows(engineCall(e, event).state, engineCall(l, event).state, U)
<1> DEFINE x == engineCall(e, event).state
           y == engineCall(l, event).state
<1>0. e.policies = l.policies /\ Lags(e.coordinator, l.coordinator, U)
  BY Zenon DEF Follows
<1>1. CASE event \in Registrations
  <2>1. /\ x.coordinator = e.coordinator /\ y.coordinator = l.coordinator
        /\ x.policies = [e.policies EXCEPT ![event.version] = event.fingerprint]
        /\ y.policies = [l.policies EXCEPT ![event.version] = event.fingerprint]
    BY <1>1, Registered, Zenon
  <2> HIDE DEF x, y
  <2>2. Follows(x, y, U)
    BY <1>0, <2>1, Zenon DEF Follows
  <2> QED BY <2>2, Zenon DEF x, y
<1>2. CASE event \in Untimed \cup Timed
  <2> DEFINE c == coordinatorCall(e.coordinator, event)
             d == coordinatorCall(l.coordinator, event)
  <2>1. /\ c.failure = "none" /\ x.coordinator = c.state /\ x.policies = e.policies
        /\ d.failure = "none" /\ y.coordinator = d.state /\ y.policies = l.policies
    BY <1>2, Delegated, Zenon
  <2>2. Lags(c.state, d.state, U)
    BY <1>0, <1>2, <2>1, AcceptedLags, EngineStruct, Zenon
  <2> HIDE DEF x, y, c, d
  <2>3. Follows(x, y, U)
    BY <1>0, <2>1, <2>2, Zenon DEF Follows
  <2> QED BY <2>3, Zenon DEF x, y
<1> QED BY <1>1, <1>2, Zenon DEF Mutations

(* A mutation that the live engine refuses changes that engine alone. *)
LEMMA MutationRefused ==
    ASSUME NEW e, EngineOK(e), NEW l, EngineOK(l), NEW U, Follows(e, l, U),
           NEW event \in Mutations, engineCall(l, event).failure # "none"
    PROVE  LET m == engineCall(l, event).state
           IN Follows(e, m, U \cup Withdrawn(l.coordinator, m.coordinator))
<1> DEFINE m == engineCall(l, event).state
           V == U \cup Withdrawn(l.coordinator, m.coordinator)
<1>0. e.policies = l.policies /\ Lags(e.coordinator, l.coordinator, U)
  BY Zenon DEF Follows
<1>1. CASE event \in Registrations
  <2>1. m = l
    BY <1>1, Registered, Zenon
  <2>2. Lags(e.coordinator, l.coordinator, V)
    BY <1>0, LagsMore, Zenon
  <2> QED BY <1>0, <2>1, <2>2, Zenon DEF Follows
<1>2. CASE event \in Untimed \cup Timed
  <2> DEFINE d == coordinatorCall(l.coordinator, event)
  <2>1. /\ d.failure # "none" /\ m.coordinator = d.state /\ m.policies = l.policies
    BY <1>2, Delegated, Zenon
  <2>2. Lags(e.coordinator, d.state, U \cup Withdrawn(l.coordinator, d.state))
    BY <1>0, <1>2, <2>1, RefusedLags, EngineStruct, Zenon
  <2> HIDE DEF m, d
  <2> QED BY <1>0, <2>1, <2>2, Zenon DEF Follows, m
<1> QED BY <1>1, <1>2, Zenon DEF Mutations

(* A replay that knows of every cancellation answers a mutation as the     *)
(* live engine does, unless its time is before an expiry already made.     *)
LEMMA MutationAnswered ==
    ASSUME NEW e, EngineOK(e), NEW l, EngineOK(l), Follows(e, l, {}),
           NEW event \in Mutations,
           "now" \in DOMAIN event =>
             \A r \in ReservationIds :
               l.coordinator.reservations[r].status = "expired" =>
                 event.now >= l.coordinator.reservations[r].expiresAt
    PROVE  engineCall(e, event).failure = engineCall(l, event).failure
<1>0. e.policies = l.policies /\ Lags(e.coordinator, l.coordinator, {})
  BY Zenon DEF Follows
<1>1. CASE event \in Registrations
  <2>1. /\ engineCall(e, event).failure =
             IF e.policies[event.version] \notin {NoID, event.fingerprint}
             THEN "PolicyConflict" ELSE "none"
        /\ engineCall(l, event).failure =
             IF l.policies[event.version] \notin {NoID, event.fingerprint}
             THEN "PolicyConflict" ELSE "none"
    BY <1>1, Registered, Zenon
  <2> QED BY <1>0, <2>1, Zenon
<1>2. CASE event \in Untimed \cup Timed
  <2>1. /\ engineCall(e, event).failure = coordinatorCall(e.coordinator, event).failure
        /\ engineCall(l, event).failure = coordinatorCall(l.coordinator, event).failure
    BY <1>2, Delegated, Zenon
  <2>2. IInv(e.coordinator) /\ IInv(l.coordinator)
    BY EngineStruct, Zenon
  <2>3. coordinatorCall(e.coordinator, event).failure
          = coordinatorCall(l.coordinator, event).failure
    BY <1>0, <1>2, <2>2, SameAnswer, Zenon
  <2> QED BY <2>1, <2>3, Zenon
<1> QED BY <1>1, <1>2, Zenon DEF Mutations

(* Planning applies expiry to the live engine alone. *)
LEMMA PlanFollows ==
    ASSUME NEW e, EngineOK(e), NEW l, EngineOK(l), NEW U, Follows(e, l, U),
           NEW version, NEW now \in Nat
    PROVE  Follows(e, enginePlan(l, version, now).state, U)
<1> DEFINE m == [l EXCEPT !.coordinator = expireLocked(l.coordinator, now)]
<1>1. \/ enginePlan(l, version, now) = Fail(l, "InvalidInput")
      \/ enginePlan(l, version, now) = Ok(m)
  BY Zenon DEF enginePlan, Snapshot, Ok
<1>2. m.coordinator = expireLocked(l.coordinator, now) /\ m.policies = l.policies
  BY Zenon DEF EngineOK
<1>3. Lags(e.coordinator, expireLocked(l.coordinator, now), U)
  BY ExpireLags, EngineStruct, Zenon DEF Follows
<1> HIDE DEF m
<1>4. Follows(e, m, U)
  BY <1>2, <1>3, Zenon DEF Follows
<1> QED BY <1>1, <1>4 DEF Ok, Fail

-----------------------------------------------------------------------------
(* The plans of a journal. *)

(* The plans of a journal with one more record. *)
LEMMA AppendPlans ==
    ASSUME NEW S, NEW records \in Seq(S), NEW event \in S
    PROVE  LET long == Append(records, event)
               n == Len(records) + 1
           IN /\ \A i \in PlanRecords(records) : i \in PlanRecords(long)
                                                   /\ long[i] = records[i] /\ i # n
              /\ \A i \in PlanRecords(long) : i = n \/ i \in PlanRecords(records)
              /\ n \in PlanRecords(long) <=> event.kind = "plan_completed"
              /\ long[n] = event
BY DEF PlanRecords

(* Plans that agree, agree in every shorter journal. *)
LEMMA PlansAgreeBefore ==
    ASSUME NEW S, NEW records \in Seq(S), NEW event \in S,
           PlansAgree(Append(records, event))
    PROVE  PlansAgree(records)
<1> DEFINE long == Append(records, event)
<1>1. \A i \in PlanRecords(records) : i \in PlanRecords(long) /\ long[i] = records[i]
  BY AppendPlans, Zenon
<1> HIDE DEF long
<1>2. PlansAgree(long) BY Zenon DEF long
<1> QED BY <1>1, <1>2 DEF PlansAgree

(* A record that is no plan. *)
LEMMA MutationKeepsPlans ==
    ASSUME NEW S, NEW records \in Seq(S), NEW event \in S, event.kind # "plan_completed"
    PROVE  LET long == Append(records, event) IN
           /\ PlansAgree(records) => PlansAgree(long)
           /\ plansFromRecords(long) = plansFromRecords(records)
<1> DEFINE long == Append(records, event)
           last == Len(records) + 1
<1>1. /\ \A i \in PlanRecords(records) : i \in PlanRecords(long) /\ long[i] = records[i]
      /\ \A i \in PlanRecords(long) : i = last \/ i \in PlanRecords(records)
  BY AppendPlans, Zenon
<1>2. last \notin PlanRecords(long)
  BY AppendPlans, Zenon
<1> HIDE DEF long, last
<1>3. /\ PlanRecords(long) = PlanRecords(records)
      /\ \A i \in PlanRecords(records) : long[i] = records[i]
  BY <1>1, <1>2, Zenon
<1> HIDE DEF long
<1>4. PlansAgree(records) => PlansAgree(long)
  BY <1>3, Zenon DEF PlansAgree
<1>5. ASSUME NEW n \in SnapshotIds
      PROVE  plansFromRecords(long)[n] = plansFromRecords(records)[n]
  <2> DEFINE of == {i \in PlanRecords(records) : records[i].snapshot = n}
             oflong == {i \in PlanRecords(long) : long[i].snapshot = n}
             i == CHOOSE j \in of : TRUE
  <2>1. of = oflong
    BY <1>3, Zenon
  <2>2. /\ plansFromRecords(records)[n] =
             IF of = {} THEN NoPlan ELSE [policy |-> records[i].policy, batch |-> records[i].batch]
        /\ plansFromRecords(long)[n] =
             IF oflong = {} THEN NoPlan
             ELSE LET k == CHOOSE j \in oflong : TRUE
                  IN [policy |-> long[k].policy, batch |-> long[k].batch]
    BY Zenon DEF plansFromRecords
  <2>3. of # {} => i \in PlanRecords(records)
    BY Zenon
  <2> HIDE DEF of, oflong
  <2> QED BY <1>3, <2>1, <2>2, <2>3, Zenon
<1>6. /\ plansFromRecords(long) = [n \in SnapshotIds |-> plansFromRecords(long)[n]]
      /\ plansFromRecords(records) = [n \in SnapshotIds |-> plansFromRecords(records)[n]]
  BY Zenon DEF plansFromRecords
<1>7. plansFromRecords(long) = plansFromRecords(records)
  BY <1>5, <1>6, Zenon
<1> QED BY <1>4, <1>7, Zenon DEF long

(* A plan of a snapshot that has none. *)
LEMMA PlanAddsPlan ==
    ASSUME NEW records \in Seq(Events), NEW event \in Plans,
           plansFromRecords(records)[event.snapshot] = NoPlan
    PROVE  LET long == Append(records, event) IN
           /\ PlansAgree(records) => PlansAgree(long)
           /\ plansFromRecords(long) =
                [plansFromRecords(records) EXCEPT ![event.snapshot] =
                   [policy |-> event.policy, batch |-> event.batch]]
<1> DEFINE long == Append(records, event)
           last == Len(records) + 1
           m == event.snapshot
<1>0. /\ event \in Events /\ event.kind = "plan_completed"
      /\ m \in SnapshotIds /\ event.policy \in PolicyVersions
  BY Zenon DEF Events, Plans
<1>1. /\ \A i \in PlanRecords(records) : /\ i \in PlanRecords(long)
                                         /\ long[i] = records[i] /\ i # last
      /\ \A i \in PlanRecords(long) : i = last \/ i \in PlanRecords(records)
      /\ last \in PlanRecords(long)
      /\ long[last] = event
  BY <1>0, AppendPlans, Zenon
<1>2. ASSUME NEW i \in PlanRecords(records) PROVE records[i].policy \in PolicyVersions
  <2>1. records[i] \in Events /\ records[i].kind = "plan_completed"
    BY DEF PlanRecords
  <2>2. records[i] \in Plans
    BY <2>1, Zenon DEF Events, Mutations, Registrations, Untimed, Timed
  <2> QED BY <2>2, Zenon DEF Plans
<1>3. \A i \in PlanRecords(records) : records[i].snapshot # m
  <2> SUFFICES ASSUME NEW k \in PlanRecords(records), records[k].snapshot = m PROVE FALSE
    BY Zenon
  <2> DEFINE of == {i \in PlanRecords(records) : records[i].snapshot = m}
             i == CHOOSE j \in of : TRUE
  <2>1. of # {} /\ i \in of
    BY Zenon
  <2>2. plansFromRecords(records)[m] =
           IF of = {} THEN NoPlan ELSE [policy |-> records[i].policy, batch |-> records[i].batch]
    BY <1>0, Zenon DEF plansFromRecords
  <2>3. records[i].policy \in PolicyVersions
    BY <1>2, <2>1, Zenon
  <2> HIDE DEF of, i
  <2>4. plansFromRecords(records)[m].policy = records[i].policy
    BY <2>1, <2>2
  <2> QED BY <2>3, <2>4, JournalAssumption DEF NoPlan
<1> HIDE DEF long, last, m
<1>4. PlansAgree(records) => PlansAgree(long)
  BY <1>1, <1>3 DEF PlansAgree, m
<1>5. ASSUME NEW n \in SnapshotIds
      PROVE  plansFromRecords(long)[n] =
               IF n = m THEN [policy |-> event.policy, batch |-> event.batch]
                        ELSE plansFromRecords(records)[n]
  <2> DEFINE of == {i \in PlanRecords(records) : records[i].snapshot = n}
             oflong == {i \in PlanRecords(long) : long[i].snapshot = n}
             i == CHOOSE j \in of : TRUE
             k == CHOOSE j \in oflong : TRUE
  <2>1. /\ plansFromRecords(records)[n] =
             IF of = {} THEN NoPlan ELSE [policy |-> records[i].policy, batch |-> records[i].batch]
        /\ plansFromRecords(long)[n] =
             IF oflong = {} THEN NoPlan ELSE [policy |-> long[k].policy, batch |-> long[k].batch]
    BY Zenon DEF plansFromRecords
  <2>2. CASE n = m
    <3>1. oflong = {last}
      BY <1>1, <1>3, <2>2, Zenon DEF m
    <3>2. k = last
      BY <3>1, Zenon
    <3> QED BY <1>1, <2>1, <2>2, <3>1, <3>2, Zenon
  <2>3. CASE n # m
    <3>1. of = oflong
      BY <1>1, <2>3, Zenon DEF m
    <3>2. of # {} => i \in PlanRecords(records)
      BY Zenon
    <3> HIDE DEF of, oflong
    <3> QED BY <1>1, <2>1, <2>3, <3>1, <3>2, Zenon
  <2> QED BY <2>2, <2>3, Zenon
<1>6. /\ plansFromRecords(long) = [n \in SnapshotIds |-> plansFromRecords(long)[n]]
      /\ plansFromRecords(records) = [n \in SnapshotIds |-> plansFromRecords(records)[n]]
  BY Zenon DEF plansFromRecords
<1>7. plansFromRecords(long) =
        [plansFromRecords(records) EXCEPT ![m] = [policy |-> event.policy, batch |-> event.batch]]
  BY <1>5, <1>6, Zenon
<1> QED BY <1>4, <1>7, Zenon DEF long, m

-----------------------------------------------------------------------------
(* The importer's model of a journal. *)

(* An event that the importer accepts has run on its engine and updated    *)
(* its maps.                                                               *)
LEMMA RanEnds ==
    ASSUME NEW n, NEW event, NEW ran, applyRan(n, event, ran).failure = "none"
    PROVE  /\ ran.failure = "none"
           /\ ~Refused(n, event)
           /\ applyRan(n, event, ran).state = Normalize([n EXCEPT !.engine = ran.state], event)
<1> DEFINE x == applyRan(n, event, ran)
           s == Normalize([n EXCEPT !.engine = ran.state], event)
<1>1. \/ x = Fail(n, "Refused")
      \/ ran.failure # "none" /\ x = Fail(n, ran.failure)
      \/ ran.failure = "none" /\ ~Refused(n, event) /\ x = Ok(s)
  BY Zenon DEF applyRan
<1> HIDE DEF x, s
<1>2. x.failure = "none"
  BY Zenon DEF x
<1> QED BY <1>1, <1>2 DEF Ok, Fail, x, s

Mirrors(records, m) ==
    /\ Shaped(m)
    /\ EngineOK(m.engine)
    /\ Maps(records, m, m.engine.coordinator)

(* An event that the importer accepts. *)
LEMMA AppliedMirrors ==
    ASSUME NEW records \in Seq(Events), NEW event \in Events,
           NEW m, Mirrors(records, m), apply(m, event).failure = "none"
    PROVE  LET s == apply(m, event).state
               ran == Run(m.engine, event)
           IN /\ Mirrors(Append(records, event), s)
              /\ s.engine = ran.state
              /\ ran.failure = "none"
<1> DEFINE s == apply(m, event).state
           ran == Run(m.engine, event)
           c == m.engine.coordinator
           n == IF event.kind \in Dated THEN expireReservations(m, event.now) ELSE m
           b == IF event.kind \in Dated THEN expireLocked(c, event.now) ELSE c
           q == [n EXCEPT !.engine = ran.state]
<1>0. /\ Shaped(m) /\ EngineOK(m.engine) /\ Maps(records, m, c)
      /\ c \in CoordinatorStruct /\ IInv(c)
  BY EngineStruct, Zenon DEF Mirrors
<1>1. event.kind \in Dated => event.now \in Nat
  BY Zenon DEF Dated, Events, Mutations, Registrations, Untimed, Timed, Plans
<1>2. /\ Shaped(n) /\ n.engine = m.engine /\ n.proposals = m.proposals
      /\ Maps(records, n, b)
      /\ b \in CoordinatorStruct
  <2>1. CASE event.kind \in Dated
    <3>1. LET e == expireReservations(m, event.now) IN
          /\ Shaped(e) /\ e.engine = m.engine /\ e.proposals = m.proposals
          /\ Maps(records, e, expireLocked(c, event.now))
      BY <1>0, <1>1, <2>1, ExpireMaps, Zenon
    <3>2. expireLocked(c, event.now) \in CoordinatorStruct
      BY <1>0, <1>1, <2>1, ExpireTyped, Zenon
    <3> QED BY <2>1, <3>1, <3>2, Zenon
  <2>2. CASE event.kind \notin Dated
    BY <1>0, <2>2, Zenon
  <2> QED BY <2>1, <2>2, Zenon
<1>3. apply(m, event) = applyRan(n, event, ran)
  <2>1. apply(m, event) = applyRan(n, event, Run(n.engine, event))
    BY Zenon DEF apply, applyExpired
  <2> QED BY <1>2, <2>1, Zenon
<1> HIDE DEF n
<1>4. ran.failure = "none" /\ ~Refused(n, event) /\ s = Normalize(q, event)
  <2>1. applyRan(n, event, ran).failure = "none" /\ s = applyRan(n, event, ran).state
    BY <1>3, Zenon
  <2> HIDE DEF ran, s
  <2> QED BY <2>1, RanEnds, Zenon
<1>5. /\ Shaped(q) /\ q.engine = ran.state /\ q.proposals = n.proposals
  BY <1>2 DEF Shaped
<1>6. Maps(records, q, b)
  BY <1>2, MapsEngine, Zenon
<1>7. EngineOK(ran.state)
  <2>1. CASE event \in Mutations
    <3>1. event.kind # "plan_completed"
      BY <2>1, Zenon DEF Mutations, Registrations, Untimed, Timed
    <3> QED BY <1>0, <2>1, <3>1, EngineCallInv, Zenon DEF Run
  <2>2. CASE event \in Plans
    <3>1. event.kind = "plan_completed" /\ event.now \in Nat
      BY <2>2, Zenon DEF Plans
    <3> QED BY <1>0, <3>1, EnginePlanInv, Zenon DEF Run
  <2> QED BY <2>1, <2>2, Zenon DEF Events
<1> DEFINE d == ran.state.coordinator
<1>8. d \in CoordinatorStruct
  BY <1>7, EngineStruct, Zenon
<1> HIDE DEF q, ran
<1>9. Normalized(records, q, event, d)
  <2>1. CASE event \in Registrations
    <3>1. event.kind = "policy_registered" /\ event.kind \notin Dated
      BY <2>1, Zenon DEF Registrations, Dated
    <3>2. ran = engineCall(m.engine, event)
      BY <3>1, Zenon DEF Run, ran
    <3>3. d = c /\ b = c
      BY <1>0, <2>1, <3>1, <3>2, Registered, Zenon
    <3>4. Normalize(q, event) = q
      BY <3>1, Zenon DEF Normalize
    <3>5. Alike(q, c, q, c)
      BY <1>6, <3>3, Zenon DEF Maps, TicketsOf, Alike
    <3>6. Maps(Append(records, event), q, c)
      BY <1>6, <3>1, <3>3, <3>5, MapsAfter
    <3> QED BY <1>5, <3>3, <3>4, <3>6 DEF Normalized
  <2>2. CASE event \in Untimed \cup Timed
    <3>1. event.kind # "plan_completed"
      BY <2>2, Zenon DEF Untimed, Timed
    <3>2. ran = engineCall(m.engine, event)
      BY <3>1, Zenon DEF Run, ran
    <3>3. coordinatorCall(c, event).failure = "none" /\ d = coordinatorCall(c, event).state
      BY <1>0, <1>4, <2>2, <3>2, Delegated, Zenon
    <3>4. q.engine.coordinator = d
      BY <1>5, Zenon
    <3>5. CASE event \in Untimed
      <4>1. event.kind \notin Dated
        BY <3>5, Zenon DEF Untimed, Dated
      <4>2. Maps(records, q, c)
        BY <1>6, <4>1, Zenon
      <4> HIDE DEF c, d
      <4> QED BY <1>0, <1>5, <1>8, <3>3, <3>4, <3>5, <4>2, UntimedMaps
    <3>6. CASE event \in Timed
      <4>1. event.kind \in Dated
        BY <3>6, Zenon DEF Timed, Dated
      <4>2. Maps(records, q, expireLocked(c, event.now))
        BY <1>6, <4>1, Zenon
      <4>3. event.kind = "proposal_reserved" =>
              \E known \in q.proposals : known[2] = event.proposal
        BY <1>4, <1>5, Zenon DEF Refused
      <4> HIDE DEF c, d
      <4> QED BY <1>0, <1>5, <1>8, <3>3, <3>4, <3>6, <4>2, <4>3, TimedMaps
    <3> QED BY <2>2, <3>5, <3>6, Zenon
  <2>3. CASE event \in Plans
    <3>1. event.kind = "plan_completed" /\ event.kind \in Dated
      BY <2>3, Zenon DEF Plans, Dated
    <3>2. ran = enginePlan(m.engine, event.policy, event.now)
      BY <3>1, Zenon DEF Run, ran
    <3>3. ran.state = [m.engine EXCEPT !.coordinator = expireLocked(c, event.now)]
      BY <1>4, <3>2 DEF enginePlan, Snapshot, Ok, Fail
    <3>4. d = b
      BY <1>0, <3>1, <3>3, Zenon DEF EngineOK
    <3>5. Normalize(q, event) = planCompleted(q, event)
      BY <3>1, Zenon DEF Normalize
    <3> HIDE DEF b, d
    <3>6. LET p == planCompleted(q, event) IN
          /\ Shaped(p) /\ p.engine = q.engine
          /\ Maps(Append(records, event), p, b)
      BY <1>2, <1>5, <1>6, <3>1, PlannedMaps
    <3> QED BY <3>4, <3>5, <3>6, Zenon DEF Normalized
  <2> QED BY <2>1, <2>2, <2>3, Zenon DEF Events, Mutations
<1>10. /\ Shaped(s) /\ s.engine = ran.state
       /\ Maps(Append(records, event), s, d)
  BY <1>4, <1>5, <1>9, Zenon DEF Normalized
<1> HIDE DEF s
<1>11. Mirrors(Append(records, event), s)
  BY <1>7, <1>10, Zenon DEF Mirrors
<1> QED BY <1>4, <1>10, <1>11, Zenon DEF s, ran

(* A journal that the runtime has written: its replay, and the model that  *)
(* the importer builds of it.                                              *)
Written(records) ==
    LET done == replay(records)
        built == applyAll(records)
    IN /\ records \in Seq(Events)
       /\ Replayable(records) /\ Appliable(records)
       /\ EngineOK(done.state)
       /\ (done.failure = "none" /\ built.failure = "none") =>
            /\ Mirrors(records, built.state)
            /\ Follows(done.state, built.state.engine, {})

(* The empty journal. *)
LEMMA WrittenEmpty == Written(<<>>)
<1> DEFINE m == NewModel
<1>0. <<>> \in Seq(Events)
  OBVIOUS
<1>1. /\ Replayable(<<>>) /\ replay(<<>>) = Ok(NewEngine)
      /\ Appliable(<<>>) /\ applyAll(<<>>) = Ok(m)
  BY ReplayEmpty, ApplyEmpty, Zenon
<1>2. EngineOK(NewEngine)
  BY NewEngineOK, Zenon
<1>3. /\ Shaped(m) /\ m.engine = NewEngine
      /\ m.matchTickets = New.matchTickets
      /\ m.backfillTickets = New.backfillTickets
      /\ m.assignments = New.assignments
      /\ m.reservations = [r \in ReservationIds |-> Reservation(New.reservations[r])]
      /\ New.matchTickets = [t \in TicketIds |-> NoMatchTicket]
      /\ New.backfillTickets = [t \in TicketIds |-> NoBackfillTicket]
      /\ \A a \in AssignmentIds : New.assignments[a].status = "absent"
      /\ \A r \in ReservationIds : New.reservations[r].status = "absent"
  BY Zenon DEF NewModel, New, Shaped, NoAssignment, NoReservation
<1>4. NewEngine.coordinator = New
  BY Zenon DEF NewEngine
<1>5. AssignmentsIn(<<>>, New)
  <2>1. \A a : Confirmations(<<>>, a) = {}
    BY DEF Confirmations
  <2> QED BY <1>3, <2>1, Zenon DEF AssignmentsIn
<1> HIDE DEF m
<1>6. \A r \in ReservationIds : Claimed(m, New.reservations[r])
  BY <1>3 DEF Claimed
<1>7. TicketsOf(m, New, TicketIds \ Reconfirmed(<<>>, New.assignments))
  BY <1>3, Zenon DEF TicketsOf, SameTickets
<1>8. Mirrors(<<>>, m)
  BY <1>2, <1>3, <1>4, <1>5, <1>6, <1>7, Zenon DEF Mirrors, Maps
<1>9. Follows(NewEngine, m.engine, {})
  BY <1>3, Zenon DEF Follows, Lags, Lag, SameDemand
<1> QED BY <1>0, <1>1, <1>2, <1>8, <1>9 DEF Written, Ok

(* A journal stays so with one more record, whatever the record. *)
LEMMA WrittenAppend ==
    ASSUME NEW records, Written(records), NEW event \in Events
    PROVE  /\ Written(Append(records, event))
           /\ replay(Append(records, event)) = replayNext(replay(records), event)
<1> DEFINE long == Append(records, event)
           done == replay(records)
           built == applyAll(records)
           e == done.state
           m == built.state
<1>0. /\ records \in Seq(Events)
      /\ EngineOK(e) /\ Replayable(records) /\ Appliable(records)
  BY Zenon DEF Written
<1>1. /\ Replayable(long) /\ replay(long) = replayNext(done, event)
      /\ Appliable(long) /\ applyAll(long) = applyNext(built, event)
  BY <1>0, ReplayAppend, ApplyAppend, Zenon
<1>2. long \in Seq(Events)
  BY <1>0
<1>3. EngineOK(replay(long).state)
  BY <1>0, <1>1, ReplayInv, Zenon
<1>4. ASSUME replay(long).failure = "none", applyAll(long).failure = "none"
      PROVE  /\ Mirrors(long, applyAll(long).state)
             /\ Follows(replay(long).state, applyAll(long).state.engine, {})
  <2>1. /\ done.failure = "none" /\ replay(long) = replayRecord(e, event)
        /\ built.failure = "none" /\ applyAll(long) = apply(m, event)
    BY <1>1, <1>4 DEF replayNext, applyNext
  <2>2. Mirrors(records, m) /\ Follows(e, m.engine, {})
    BY <2>1, Zenon DEF Written
  <2>3. EngineOK(m.engine)
    BY <2>2, Zenon DEF Mirrors
  <2> HIDE DEF m, e
  <2>4. apply(m, event).failure = "none"
    BY <1>4, <2>1, Zenon
  <2>5. LET s == apply(m, event).state
            ran == Run(m.engine, event)
        IN /\ Mirrors(Append(records, event), s)
           /\ s.engine = ran.state
           /\ ran.failure = "none"
    BY <1>0, <2>2, <2>4, AppliedMirrors
  <2>6. CASE event \in Mutations
    <3>1. event.kind # "plan_completed"
      BY <2>6, Zenon DEF Mutations, Registrations, Untimed, Timed
    <3>2. Run(m.engine, event) = engineCall(m.engine, event)
          /\ replayRecord(e, event) = engineCall(e, event)
      BY <3>1, Zenon DEF Run, replayRecord
    <3>3. engineCall(e, event).failure = "none" /\ engineCall(m.engine, event).failure = "none"
      BY <1>4, <2>1, <2>5, <3>2, Zenon
    <3>4. Follows(engineCall(e, event).state, engineCall(m.engine, event).state, {})
      BY <1>0, <2>2, <2>3, <2>6, <3>3, MutationAccepted, Zenon DEF e
    <3> QED BY <2>1, <2>5, <3>2, <3>4, Zenon
  <2>7. CASE event \in Plans
    <3>1. event.kind = "plan_completed" /\ event.now \in Nat
      BY <2>7, Zenon DEF Plans
    <3>2. /\ Run(m.engine, event) = enginePlan(m.engine, event.policy, event.now)
          /\ replayRecord(e, event) = Ok(e)
      BY <3>1, Zenon DEF Run, replayRecord
    <3>3. Follows(e, enginePlan(m.engine, event.policy, event.now).state, {})
      BY <1>0, <2>2, <2>3, <3>1, PlanFollows, Zenon DEF e
    <3>4. replay(long).state = e
      BY <2>1, <3>2 DEF Ok
    <3> QED BY <2>1, <2>5, <3>2, <3>3, <3>4, Zenon
  <2> QED BY <2>6, <2>7, Zenon DEF Events
<1> QED BY <1>1, <1>2, <1>3, <1>4, Zenon DEF Written

(* Such a model agrees with the replay, as ImportAgrees says. *)
LEMMA MirrorsAgree ==
    ASSUME NEW records, NEW m, Mirrors(records, m), NEW e, EngineOK(e), Follows(e, m.engine, {})
    PROVE  MapsAgree(records, m, e.coordinator)
<1> DEFINE c == e.coordinator
           d == m.engine.coordinator
<1>1. /\ m.assignments = d.assignments
      /\ m.reservations = [r \in ReservationIds |-> Reservation(d.reservations[r])]
      /\ SameTickets(m, d, TicketIds \ Reconfirmed(records, d.assignments))
      /\ \A r \in ReservationIds : Claimed(m, d.reservations[r])
  BY Zenon DEF Mirrors, Maps, TicketsOf
<1>2. /\ SameDemand(c, d)
      /\ \A r \in ReservationIds : Lag(r, c.reservations[r], d.reservations[r], {})
  BY Zenon DEF Follows, Lags
<1> HIDE DEF c, d
<1>3. /\ m.assignments = c.assignments
      /\ SameTickets(m, c, TicketIds \ Reconfirmed(records, c.assignments))
  BY <1>1, <1>2, Zenon DEF SameDemand, SameTickets
<1>4. ASSUME NEW r \in ReservationIds
      PROVE  /\ SameOrExpired(m.reservations[r], Reservation(c.reservations[r]))
             /\ m.reservations[r] = Reservation(d.reservations[r])
             /\ m.reservations[r].status = "active" =>
                  /\ Supply(m.reservations[r].proposal) \subseteq m.reservationClaims
                  /\ \E known \in m.proposals : known[2] = m.reservations[r].proposal
  <2>1. m.reservations[r] = Reservation(d.reservations[r])
    BY <1>1, Zenon
  <2>2. Claimed(m, d.reservations[r])
    BY <1>1, Zenon
  <2>3. /\ m.reservations[r].status = d.reservations[r].status
        /\ m.reservations[r].proposal = d.reservations[r].proposal
    BY <2>1 DEF Reservation
  <2>4. SameOrExpired(m.reservations[r], Reservation(c.reservations[r]))
    <3>1. Lag(r, c.reservations[r], d.reservations[r], {})
      BY <1>2, Zenon
    <3> QED BY <2>1, <3>1 DEF Lag, SameOrExpired, Reservation
  <2> QED BY <2>1, <2>2, <2>3, <2>4 DEF Claimed
<1> QED BY <1>3, <1>4, Zenon DEF MapsAgree, c, d

=============================================================================
