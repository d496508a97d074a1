------------------------- MODULE CoordinatorProofs --------------------------
(***************************************************************************)
(* Proofs, for every choice of the constants, of the invariants of         *)
(* Coordinator, of what a step may do to a reservation and to an           *)
(* assignment, and that retries are idempotent.  The operations are        *)
(* functions of the struct, so the work is one lemma per operation: it     *)
(* takes a struct that satisfies IInv to one that does.  The action        *)
(* properties and the idempotence of retries rest on one description of a  *)
(* step: each reservation stays as it is, ends, is confirmed while its     *)
(* proposal is consumed, or is made from nothing out of a valid proposal;  *)
(* each assignment stays, is made, or has its delivery settled.            *)
(***************************************************************************)
EXTENDS Coordinator, TLAPS

(* The inductive invariant.  IndexExact and OwnershipExact carry it: the   *)
(* other parts are preserved because of them and of the types.             *)
IInv(c) ==
    /\ c \in CoordinatorStruct
    /\ IndexExact(c)
    /\ OwnershipExact(c)
    /\ Disjoint(c)
    /\ Paired(c)
    /\ Acknowledged(c)

-----------------------------------------------------------------------------
(* What a method leaves alone keeps the parts of the invariant that are    *)
(* about it.                                                               *)
LEMMA Frame ==
    ASSUME NEW c, NEW d, IInv(c)
    PROVE  /\ /\ d.reservations = c.reservations
              /\ d.ticketReservations = c.ticketReservations
              /\ d.backfillReservations = c.backfillReservations
              => IndexExact(d)
           /\ /\ d.playerTickets = c.playerTickets
              /\ d.matchTickets = c.matchTickets
              => OwnershipExact(d)
           /\ /\ d.matchTickets = c.matchTickets
              /\ d.backfillTickets = c.backfillTickets
              => Disjoint(d)
           /\ /\ d.reservations = c.reservations
              /\ d.assignments = c.assignments
              => Paired(d)
           /\ d.assignments = c.assignments => Acknowledged(d)
<1>0. /\ IndexExact(c)
      /\ OwnershipExact(c)
      /\ Disjoint(c)
      /\ Paired(c)
      /\ Acknowledged(c)
  BY Zenon DEF IInv
<1>1. ASSUME d.reservations = c.reservations,
             d.ticketReservations = c.ticketReservations,
             d.backfillReservations = c.backfillReservations
      PROVE  IndexExact(d)
  BY <1>0, <1>1 DEF IndexExact, Active
<1>2. ASSUME d.playerTickets = c.playerTickets, d.matchTickets = c.matchTickets
      PROVE  OwnershipExact(d)
  BY <1>0, <1>2 DEF OwnershipExact
<1>3. ASSUME d.matchTickets = c.matchTickets, d.backfillTickets = c.backfillTickets
      PROVE  Disjoint(d)
  BY <1>0, <1>3, Zenon DEF Disjoint
<1>4. ASSUME d.reservations = c.reservations, d.assignments = c.assignments
      PROVE  Paired(d)
  BY <1>0, <1>4 DEF Paired
<1>5. ASSUME d.assignments = c.assignments PROVE Acknowledged(d)
  BY <1>0, <1>5, Zenon DEF Acknowledged
<1>. QED BY <1>1, <1>2, <1>3, <1>4, <1>5, Zenon

(* Paired depends on the confirmed reservations, and on what assignments   *)
(* say but for the way they ended.                                         *)
LEMMA PairedFrame ==
    ASSUME NEW c, NEW d, Paired(c),
           \A b \in AssignmentIds :
             /\ d.assignments[b].status # "absent" <=> c.assignments[b].status # "absent"
             /\ d.assignments[b].reservation = c.assignments[b].reservation
             /\ d.assignments[b].proposal = c.assignments[b].proposal
             /\ d.assignments[b].confirmedAt = c.assignments[b].confirmedAt,
           \A q \in ReservationIds :
             d.reservations[q].status = "confirmed" \/ c.reservations[q].status = "confirmed"
               => d.reservations[q] = c.reservations[q]
    PROVE  Paired(d)
<1>1. ASSUME NEW b \in AssignmentIds, d.assignments[b].status # "absent"
      PROVE  \E q \in ReservationIds :
               /\ d.assignments[b].reservation = q
               /\ d.reservations[q].status = "confirmed"
               /\ d.reservations[q].assignment = b
               /\ d.reservations[q].proposal = d.assignments[b].proposal
               /\ d.assignments[b].confirmedAt < d.reservations[q].expiresAt
  <2>1. PICK q \in ReservationIds :
          /\ c.assignments[b].reservation = q
          /\ c.reservations[q].status = "confirmed"
          /\ c.reservations[q].assignment = b
          /\ c.reservations[q].proposal = c.assignments[b].proposal
          /\ c.assignments[b].confirmedAt < c.reservations[q].expiresAt
    BY <1>1, Zenon DEF Paired
  <2>2. d.reservations[q] = c.reservations[q] BY <2>1, Zenon
  <2>. QED BY <2>1, <2>2, Zenon
<1>2. ASSUME NEW q \in ReservationIds, d.reservations[q].status = "confirmed"
      PROVE  \E b \in AssignmentIds : /\ d.reservations[q].assignment = b
                                       /\ d.assignments[b].status # "absent"
                                       /\ d.assignments[b].reservation = q
  <2>1. d.reservations[q] = c.reservations[q] BY <1>2, Zenon
  <2>2. PICK b \in AssignmentIds : /\ c.reservations[q].assignment = b
                                   /\ c.assignments[b].status # "absent"
                                   /\ c.assignments[b].reservation = q
    BY <1>2, <2>1, Zenon DEF Paired
  <2>. QED BY <2>1, <2>2, Zenon
<1>. QED BY <1>1, <1>2, Zenon DEF Paired

(* The zero values and the empty struct are well typed. *)
LEMMA ZeroTypes ==
    /\ NoMatchTicket \in MatchTicket
    /\ NoBackfillTicket \in BackfillTicket
    /\ NoProposal \in MatchProposal
    /\ NoAcknowledgment \in AcknowledgmentRequest
    /\ NoReservation \in ReservationRecord
    /\ NoAssignment \in Assignment
<1>1. NoMatchTicket \in MatchTicket BY Zenon DEF NoMatchTicket, MatchTicket
<1>2. NoBackfillTicket \in BackfillTicket
  BY Zenon DEF NoBackfillTicket, BackfillTicket
<1>3. NoProposal \in MatchProposal
  BY Zenon DEF NoProposal, MatchProposal, NoTarget, BackfillTarget
<1>4. NoAcknowledgment \in AcknowledgmentRequest
  BY Zenon DEF NoAcknowledgment, AcknowledgmentRequest
<1>5. NoReservation \in ReservationRecord
  BY <1>3, Zenon DEF NoReservation, ReservationRecord
<1>6. NoAssignment \in Assignment
  BY <1>3, <1>4, Zenon DEF NoAssignment, Assignment
<1>. QED BY <1>1, <1>2, <1>3, <1>4, <1>5, <1>6, Zenon

(* New returns a struct that satisfies the invariant. *)
LEMMA NewInv == IInv(New)
<1>1. New \in CoordinatorStruct
  BY ZeroTypes, Zenon DEF New, CoordinatorStruct
<1>2. IndexExact(New)
  BY NoIDAssumption, Zenon DEF New, IndexExact, Active, NoReservation
<1>3. OwnershipExact(New)
  BY NoIDAssumption, Zenon DEF New, OwnershipExact, NoMatchTicket
<1>4. Disjoint(New)
  BY Zenon DEF New, Disjoint, NoMatchTicket, NoBackfillTicket
<1>5. Paired(New)
  BY Zenon DEF New, Paired, NoAssignment, NoReservation
<1>6. Acknowledged(New)
  BY Zenon DEF New, Acknowledged, NoAssignment, Outcomes
<1>. QED BY <1>1, <1>2, <1>3, <1>4, <1>5, <1>6, Zenon DEF IInv

(* The fields of a struct whose reservations R were ended. *)
LEMMA EndFields ==
    ASSUME NEW c \in CoordinatorStruct, NEW R, NEW status
    PROVE  LET d == endReservations(c, R, status) IN
           /\ d.matchTickets = c.matchTickets
           /\ d.backfillTickets = c.backfillTickets
           /\ d.playerTickets = c.playerTickets
           /\ d.ticketReservations = releaseTickets(c, R)
           /\ d.backfillReservations = releaseBackfills(c, R)
           /\ d.reservations = [r \in ReservationIds |->
                IF r \in R THEN [c.reservations[r] EXCEPT !.status = status]
                           ELSE c.reservations[r]]
           /\ d.assignments = c.assignments
BY Zenon DEF endReservations, CoordinatorStruct

(* A record whose status was set, field by field. *)
LEMMA StatusFields ==
    ASSUME NEW record \in ReservationRecord, NEW status \in ReservationStatuses
    PROVE  LET ended == [record EXCEPT !.status = status] IN
           /\ ended \in ReservationRecord
           /\ ended.status = status
           /\ ended.proposal = record.proposal
           /\ ended.expiresAt = record.expiresAt
           /\ ended.assignment = record.assignment
BY Zenon DEF ReservationRecord

(* Ending active reservations, by expiry or by cancellation, preserves the *)
(* invariant: exactly the entries of the ended reservations leave the      *)
(* indexes.                                                                *)
LEMMA EndInv ==
    ASSUME NEW c, IInv(c),
           NEW R \in SUBSET ReservationIds, \A r \in R : Active(c, r),
           NEW status \in {"cancelled", "expired"}
    PROVE  IInv(endReservations(c, R, status))
<1> DEFINE d == endReservations(c, R, status)
<1>0. c \in CoordinatorStruct BY Zenon DEF IInv
<1>1. /\ d.matchTickets = c.matchTickets
      /\ d.backfillTickets = c.backfillTickets
      /\ d.playerTickets = c.playerTickets
      /\ d.ticketReservations = releaseTickets(c, R)
      /\ d.backfillReservations = releaseBackfills(c, R)
      /\ d.reservations = [r \in ReservationIds |->
           IF r \in R THEN [c.reservations[r] EXCEPT !.status = status]
                      ELSE c.reservations[r]]
      /\ d.assignments = c.assignments
  BY <1>0, EndFields
<1>2. /\ c.reservations \in [ReservationIds -> ReservationRecord]
      /\ c.ticketReservations \in [TicketIds -> ReservationIds \cup {NoID}]
      /\ c.backfillReservations \in [TicketIds -> ReservationIds \cup {NoID}]
  BY <1>0, Zenon DEF CoordinatorStruct
<1>3. \A r \in ReservationIds :
         /\ d.reservations[r] \in ReservationRecord
         /\ r \in R => d.reservations[r].status = status
         /\ r \notin R => d.reservations[r] = c.reservations[r]
         /\ d.reservations[r].proposal = c.reservations[r].proposal
         /\ d.reservations[r].expiresAt = c.reservations[r].expiresAt
         /\ d.reservations[r].assignment = c.reservations[r].assignment
  <2> TAKE r \in ReservationIds
  <2>1. c.reservations[r] \in ReservationRecord BY <1>2, Zenon
  <2>2. CASE r \in R
    <3>1. d.reservations[r] = [c.reservations[r] EXCEPT !.status = status]
      BY <1>1, <2>2, Zenon
    <3>2. status \in ReservationStatuses BY Zenon DEF ReservationStatuses
    <3>. HIDE DEF d
    <3>. QED BY <2>1, <2>2, <3>1, <3>2, StatusFields
  <2>3. CASE r \notin R
    BY <1>1, <2>1, <2>3, Zenon
  <2>. QED BY <2>2, <2>3, Zenon
<1>4. d \in CoordinatorStruct
  <2>1. /\ releaseTickets(c, R) \in [TicketIds -> ReservationIds \cup {NoID}]
        /\ releaseBackfills(c, R) \in [TicketIds -> ReservationIds \cup {NoID}]
    BY <1>2, Zenon DEF releaseTickets, releaseBackfills
  <2>2. d.reservations \in [ReservationIds -> ReservationRecord]
    BY <1>1, <1>3, Zenon
  <2>. QED BY <1>0, <1>1, <2>1, <2>2, Zenon DEF endReservations, CoordinatorStruct
<1> HIDE DEF d
<1>5. IndexExact(d)
  <2> SUFFICES ASSUME NEW t \in TicketIds, NEW r \in ReservationIds
               PROVE  /\ d.ticketReservations[t] = r
                           <=> Active(d, r) /\ t \in Supply(d.reservations[r].proposal)
                      /\ d.backfillReservations[t] = r
                           <=> /\ Active(d, r)
                               /\ t = d.reservations[r].proposal.backfill.ticket
    BY Zenon DEF IndexExact
  <2>1. /\ c.ticketReservations[t] = r
             <=> Active(c, r) /\ t \in Supply(c.reservations[r].proposal)
        /\ c.backfillReservations[t] = r
             <=> Active(c, r) /\ t = c.reservations[r].proposal.backfill.ticket
    BY Zenon DEF IInv, IndexExact
  <2>2. Active(d, r) <=> Active(c, r) /\ r \notin R
    BY <1>3, Zenon DEF Active
  <2>3. d.ticketReservations[t] = r <=> c.ticketReservations[t] = r /\ r \notin R
    BY <1>1, <1>2, <2>1, NoIDAssumption DEF releaseTickets
  <2>4. d.backfillReservations[t] = r <=> c.backfillReservations[t] = r /\ r \notin R
    <3>1. d.backfillReservations[t] =
            IF /\ c.backfillReservations[t] \in R
               /\ c.reservations[c.backfillReservations[t]].proposal.backfill.ticket = t
            THEN NoID ELSE c.backfillReservations[t]
      BY <1>1, Zenon DEF releaseBackfills
    <3>2. r # NoID BY NoIDAssumption, Zenon
    <3>. QED BY <2>1, <3>1, <3>2, Zenon
  <2>. QED BY <1>3, <2>1, <2>2, <2>3, <2>4, Zenon
<1>6. OwnershipExact(d) /\ Disjoint(d) /\ Acknowledged(d)
  BY <1>1, Frame, Zenon
<1>7. Paired(d)
  <2>1. \A r \in ReservationIds : c.reservations[r].status = "confirmed"
                                   <=> d.reservations[r].status = "confirmed"
    BY <1>3, Zenon DEF Active
  <2>. QED BY <1>1, <1>3, <2>1 DEF IInv, Paired
<1>. QED BY <1>4, <1>5, <1>6, <1>7, Zenon DEF IInv, d

(* expireLocked preserves the invariant, and what is active after it has   *)
(* not reached its expiry.                                                 *)
LEMMA ExpireInv ==
    ASSUME NEW c, IInv(c), NEW now \in Nat
    PROVE  LET d == expireLocked(c, now) IN
           /\ IInv(d)
           /\ \A r \in ReservationIds :
                Active(d, r) => now < d.reservations[r].expiresAt
<1>1. c \in CoordinatorStruct BY Zenon DEF IInv
<1>2. \A r \in ReservationIds : c.reservations[r].expiresAt \in Nat
  BY <1>1, Zenon DEF CoordinatorStruct, ReservationRecord
<1>3. Due(c, now) \in SUBSET ReservationIds BY Zenon DEF Due
<1>4. \A r \in Due(c, now) : Active(c, r) BY Zenon DEF Due, Active
<1>5. IInv(expireLocked(c, now))
  BY <1>3, <1>4, EndInv, Zenon DEF expireLocked
<1>6. ASSUME NEW r \in ReservationIds, Active(expireLocked(c, now), r)
      PROVE  now < expireLocked(c, now).reservations[r].expiresAt
  <2>1. expireLocked(c, now).reservations[r] =
          IF r \in Due(c, now)
          THEN [c.reservations[r] EXCEPT !.status = "expired"]
          ELSE c.reservations[r]
    <3>1. endReservations(c, Due(c, now), "expired").reservations =
            [q \in ReservationIds |->
               IF q \in Due(c, now)
               THEN [c.reservations[q] EXCEPT !.status = "expired"]
               ELSE c.reservations[q]]
      BY <1>1, EndFields
    <3>. QED BY <3>1, Zenon DEF expireLocked
  <2>2. c.reservations[r] \in ReservationRecord
    BY <1>1, Zenon DEF CoordinatorStruct
  <2>3. r \notin Due(c, now)
    <3>1. "expired" \in ReservationStatuses BY Zenon DEF ReservationStatuses
    <3>2. [c.reservations[r] EXCEPT !.status = "expired"].status = "expired"
      BY <2>2, <3>1, StatusFields, Zenon
    <3>. QED BY <1>6, <2>1, <3>2, Zenon DEF Active
  <2>. QED BY <1>2, <1>6, <2>1, <2>3 DEF Due, Active
<1>. QED BY <1>5, <1>6, Zenon

-----------------------------------------------------------------------------
(* Active input. *)

(* UpsertMatchTicket preserves the invariant: ownership moves with the     *)
(* players of the new revision.                                            *)
LEMMA UpsertMatchTicketInv ==
    ASSUME NEW c, IInv(c), NEW id \in TicketIds, NEW ticket \in MatchTicket
    PROVE  IInv(UpsertMatchTicket(c, id, ticket).state)
<1> DEFINE released == releasePlayerOwnershipLocked(c, {id})
           players == [p \in PlayerIds |->
                         IF p \in ticket.players THEN id ELSE released[p]]
           d == [c EXCEPT !.matchTickets[id] = ticket, !.playerTickets = players]
<1>1. \/ UpsertMatchTicket(c, id, ticket).state = c
      \/ /\ UpsertMatchTicket(c, id, ticket).state = d
         /\ c.backfillTickets[id].revision = 0
         /\ ~duplicatedPlayerLocked(c, id, ticket)
  BY Zenon DEF UpsertMatchTicket, Ok, Fail
<1> SUFFICES ASSUME c.backfillTickets[id].revision = 0,
                    ~duplicatedPlayerLocked(c, id, ticket)
             PROVE  IInv(d)
  BY <1>1, Zenon
<1>2. c \in CoordinatorStruct BY Zenon DEF IInv
<1>3. /\ d.matchTickets = [c.matchTickets EXCEPT ![id] = ticket]
      /\ d.backfillTickets = c.backfillTickets
      /\ d.playerTickets = players
      /\ d.ticketReservations = c.ticketReservations
      /\ d.backfillReservations = c.backfillReservations
      /\ d.reservations = c.reservations
      /\ d.assignments = c.assignments
  BY <1>2, Zenon DEF CoordinatorStruct
<1>4. /\ c.matchTickets \in [TicketIds -> MatchTicket]
      /\ c.playerTickets \in [PlayerIds -> TicketIds \cup {NoID}]
      /\ ticket.players \subseteq PlayerIds
  BY <1>2, Zenon DEF CoordinatorStruct, MatchTicket
<1>5. d \in CoordinatorStruct
  <2>1. players \in [PlayerIds -> TicketIds \cup {NoID}]
    BY <1>4, Zenon DEF releasePlayerOwnershipLocked
  <2>2. [c.matchTickets EXCEPT ![id] = ticket] \in [TicketIds -> MatchTicket]
    BY <1>4, Zenon
  <2>. HIDE DEF players
  <2>. QED BY <1>2, <2>1, <2>2, Zenon DEF CoordinatorStruct
<1>6. OwnershipExact(d)
  <2> SUFFICES ASSUME NEW p \in PlayerIds, NEW t \in TicketIds
               PROVE  d.playerTickets[p] = t <=> p \in d.matchTickets[t].players
    BY Zenon DEF OwnershipExact
  <2>1. \A u \in TicketIds : c.playerTickets[p] = u <=> p \in c.matchTickets[u].players
    BY Zenon DEF IInv, OwnershipExact
  <2>2. released[p] = IF c.playerTickets[p] = id THEN NoID ELSE c.playerTickets[p]
    BY <2>1, Zenon DEF releasePlayerOwnershipLocked
  <2>3. p \in ticket.players => c.playerTickets[p] \in {NoID, id}
    BY Zenon DEF duplicatedPlayerLocked
  <2>4. d.playerTickets[p] = IF p \in ticket.players THEN id ELSE released[p]
    BY <1>3, Zenon
  <2>5. t # NoID BY NoIDAssumption, Zenon
  <2>6. d.matchTickets[t] = IF t = id THEN ticket ELSE c.matchTickets[t]
    BY <1>3, <1>4
  <2>. HIDE DEF d, released, players
  <2>. QED BY <2>1, <2>2, <2>3, <2>4, <2>5, <2>6
<1> HIDE DEF d, players, released
<1>7. IndexExact(d) /\ Paired(d) /\ Acknowledged(d)
  BY <1>3, Frame, Zenon
<1>8. Disjoint(d)
  <2>1. Disjoint(c) BY Zenon DEF IInv
  <2>. QED BY <1>3, <1>4, <2>1 DEF Disjoint
<1>. QED BY <1>5, <1>6, <1>7, <1>8, Zenon DEF IInv

(* UpsertBackfillTicket preserves the invariant. *)
LEMMA UpsertBackfillTicketInv ==
    ASSUME NEW c, IInv(c), NEW id \in TicketIds, NEW ticket \in BackfillTicket
    PROVE  IInv(UpsertBackfillTicket(c, id, ticket).state)
<1> DEFINE d == [c EXCEPT !.backfillTickets[id] = ticket]
<1>1. \/ UpsertBackfillTicket(c, id, ticket).state = c
      \/ /\ UpsertBackfillTicket(c, id, ticket).state = d
         /\ c.matchTickets[id].revision = 0
         /\ \A other \in TicketIds \ {id} :
              c.backfillTickets[other].session # ticket.session
  BY Zenon DEF UpsertBackfillTicket, Ok, Fail
<1> SUFFICES ASSUME c.matchTickets[id].revision = 0,
                    \A other \in TicketIds \ {id} :
                       c.backfillTickets[other].session # ticket.session
             PROVE  IInv(d)
  BY <1>1, Zenon
<1>2. c \in CoordinatorStruct BY Zenon DEF IInv
<1>3. /\ d.matchTickets = c.matchTickets
      /\ d.backfillTickets = [c.backfillTickets EXCEPT ![id] = ticket]
      /\ d.playerTickets = c.playerTickets
      /\ d.ticketReservations = c.ticketReservations
      /\ d.backfillReservations = c.backfillReservations
      /\ d.reservations = c.reservations
      /\ d.assignments = c.assignments
  BY <1>2, Zenon DEF CoordinatorStruct
<1>4. c.backfillTickets \in [TicketIds -> BackfillTicket]
  BY <1>2, Zenon DEF CoordinatorStruct
<1>5. d \in CoordinatorStruct
  <2>1. [c.backfillTickets EXCEPT ![id] = ticket] \in [TicketIds -> BackfillTicket]
    BY <1>4, Zenon
  <2>. QED BY <1>2, <2>1, Zenon DEF CoordinatorStruct
<1> HIDE DEF d
<1>6. IndexExact(d) /\ OwnershipExact(d) /\ Paired(d) /\ Acknowledged(d)
  BY <1>3, Frame, Zenon
<1>7. Disjoint(d)
  <2>1. \A t \in TicketIds : d.backfillTickets[t] =
          IF t = id THEN ticket ELSE c.backfillTickets[t]
    BY <1>3, <1>4, Zenon
  <2>2. Disjoint(c) BY Zenon DEF IInv
  <2>. QED BY <1>3, <2>1, <2>2 DEF Disjoint
<1>. QED BY <1>5, <1>6, <1>7, Zenon DEF IInv

(* Taking tickets T out of the active input, with the ownership of their   *)
(* players, preserves exact ownership.  Used for a producer's cancel and   *)
(* for the consumption of a confirmed proposal.                            *)
LEMMA RemoveTickets ==
    ASSUME NEW c \in CoordinatorStruct, OwnershipExact(c), NEW T \in SUBSET TicketIds,
           NEW p \in PlayerIds, NEW t \in TicketIds
    PROVE  releasePlayerOwnershipLocked(c, T)[p] = t
             <=> t \notin T /\ p \in c.matchTickets[t].players
<1>1. \A u \in TicketIds : c.playerTickets[p] = u <=> p \in c.matchTickets[u].players
  BY Zenon DEF OwnershipExact
<1>2. releasePlayerOwnershipLocked(c, T)[p] =
        IF \E u \in T : c.playerTickets[p] = u THEN NoID ELSE c.playerTickets[p]
  BY <1>1, Zenon DEF releasePlayerOwnershipLocked
<1>3. t # NoID BY NoIDAssumption, Zenon
<1>. QED BY <1>1, <1>2, <1>3, Zenon

(* CancelMatchTicket preserves the invariant.  The reservation indexes are *)
(* left alone: the reservation that held the ticket still owns its entry.  *)
LEMMA CancelMatchTicketInv ==
    ASSUME NEW c, IInv(c), NEW id \in TicketIds, NEW revision
    PROVE  IInv(CancelMatchTicket(c, id, revision).state)
<1> DEFINE players == releasePlayerOwnershipLocked(c, {id})
           d == [c EXCEPT !.playerTickets = players,
                          !.matchTickets[id] = NoMatchTicket]
<1>1. CancelMatchTicket(c, id, revision).state \in {c, d}
  BY Zenon DEF CancelMatchTicket, Ok, Fail
<1> SUFFICES IInv(d)
  BY <1>1, Zenon
<1>2. c \in CoordinatorStruct BY Zenon DEF IInv
<1>3. /\ d.matchTickets = [c.matchTickets EXCEPT ![id] = NoMatchTicket]
      /\ d.backfillTickets = c.backfillTickets
      /\ d.playerTickets = players
      /\ d.ticketReservations = c.ticketReservations
      /\ d.backfillReservations = c.backfillReservations
      /\ d.reservations = c.reservations
      /\ d.assignments = c.assignments
  BY <1>2, Zenon DEF CoordinatorStruct
<1>4. /\ c.matchTickets \in [TicketIds -> MatchTicket]
      /\ c.playerTickets \in [PlayerIds -> TicketIds \cup {NoID}]
  BY <1>2, Zenon DEF CoordinatorStruct
<1>5. d \in CoordinatorStruct
  <2>1. players \in [PlayerIds -> TicketIds \cup {NoID}]
    BY <1>4, Zenon DEF releasePlayerOwnershipLocked
  <2>2. [c.matchTickets EXCEPT ![id] = NoMatchTicket] \in [TicketIds -> MatchTicket]
    BY <1>4, ZeroTypes, Zenon
  <2>. HIDE DEF players
  <2>. QED BY <1>2, <2>1, <2>2, Zenon DEF CoordinatorStruct
<1>6. OwnershipExact(d)
  <2> SUFFICES ASSUME NEW p \in PlayerIds, NEW t \in TicketIds
               PROVE  d.playerTickets[p] = t <=> p \in d.matchTickets[t].players
    BY Zenon DEF OwnershipExact
  <2>1. d.playerTickets[p] = t <=> t # id /\ p \in c.matchTickets[t].players
    <3>1. OwnershipExact(c) BY Zenon DEF IInv
    <3>2. {id} \in SUBSET TicketIds BY Zenon
    <3>. QED BY <1>2, <1>3, <3>1, <3>2, RemoveTickets
  <2>2. d.matchTickets[t] = IF t = id THEN NoMatchTicket ELSE c.matchTickets[t]
    BY <1>3, <1>4
  <2>. HIDE DEF d, players
  <2>. QED BY <2>1, <2>2 DEF NoMatchTicket
<1> HIDE DEF d, players
<1>7. IndexExact(d) /\ Paired(d) /\ Acknowledged(d)
  BY <1>3, Frame, Zenon
<1>8. Disjoint(d)
  <2>1. \A t \in TicketIds : d.matchTickets[t] =
          IF t = id THEN NoMatchTicket ELSE c.matchTickets[t]
    BY <1>3, <1>4, Zenon
  <2>2. Disjoint(c) BY Zenon DEF IInv
  <2>. QED BY <1>3, <2>1, <2>2 DEF Disjoint, NoMatchTicket
<1>. QED BY <1>5, <1>6, <1>7, <1>8, Zenon DEF IInv

(* CancelBackfillTicket preserves the invariant. *)
LEMMA CancelBackfillTicketInv ==
    ASSUME NEW c, IInv(c), NEW id \in TicketIds, NEW revision, NEW rosterVersion
    PROVE  IInv(CancelBackfillTicket(c, id, revision, rosterVersion).state)
<1> DEFINE d == [c EXCEPT !.backfillTickets[id] = NoBackfillTicket]
<1>1. CancelBackfillTicket(c, id, revision, rosterVersion).state \in {c, d}
  BY Zenon DEF CancelBackfillTicket, Ok, Fail
<1> SUFFICES IInv(d)
  BY <1>1, Zenon
<1>2. c \in CoordinatorStruct BY Zenon DEF IInv
<1>3. /\ d.matchTickets = c.matchTickets
      /\ d.backfillTickets = [c.backfillTickets EXCEPT ![id] = NoBackfillTicket]
      /\ d.playerTickets = c.playerTickets
      /\ d.ticketReservations = c.ticketReservations
      /\ d.backfillReservations = c.backfillReservations
      /\ d.reservations = c.reservations
      /\ d.assignments = c.assignments
  BY <1>2, Zenon DEF CoordinatorStruct
<1>4. c.backfillTickets \in [TicketIds -> BackfillTicket]
  BY <1>2, Zenon DEF CoordinatorStruct
<1>5. d \in CoordinatorStruct
  <2>1. [c.backfillTickets EXCEPT ![id] = NoBackfillTicket]
          \in [TicketIds -> BackfillTicket]
    BY <1>4, ZeroTypes, Zenon
  <2>. QED BY <1>2, <2>1, Zenon DEF CoordinatorStruct
<1> HIDE DEF d
<1>6. IndexExact(d) /\ OwnershipExact(d) /\ Paired(d) /\ Acknowledged(d)
  BY <1>3, Frame, Zenon
<1>7. Disjoint(d)
  <2>1. \A t \in TicketIds : d.backfillTickets[t] =
          IF t = id THEN NoBackfillTicket ELSE c.backfillTickets[t]
    BY <1>3, <1>4, Zenon
  <2>2. Disjoint(c) BY Zenon DEF IInv
  <2>. QED BY <1>3, <2>1, <2>2 DEF Disjoint, NoBackfillTicket
<1>. QED BY <1>5, <1>6, <1>7, Zenon DEF IInv

-----------------------------------------------------------------------------
(* Reservations. *)

(* Reserve preserves the invariant: a new reservation takes only entries   *)
(* that were free, so every entry still has one owner.                     *)
LEMMA ReserveInv ==
    ASSUME NEW c0, IInv(c0), NEW proposal \in MatchProposal,
           NEW r \in ReservationIds, NEW now \in Nat
    PROVE  IInv(Reserve(c0, proposal, r, now).state)
<1> DEFINE c == expireLocked(c0, now)
           reservation == [status |-> "active", proposal |-> proposal,
                           expiresAt |-> now + TTL, assignment |-> NoID]
           tickets == [t \in TicketIds |->
                         IF t \in Supply(proposal) THEN r ELSE c.ticketReservations[t]]
           backfills == [t \in TicketIds |->
                           IF t = proposal.backfill.ticket
                           THEN r ELSE c.backfillReservations[t]]
           d == [c EXCEPT !.reservations[r] = reservation,
                          !.ticketReservations = tickets,
                          !.backfillReservations = backfills]
<1>1. IInv(c) BY ExpireInv, Zenon
<1> HIDE DEF c
<1>2. c \in CoordinatorStruct BY <1>1, Zenon DEF IInv
<1>3. /\ c.reservations \in [ReservationIds -> ReservationRecord]
      /\ c.ticketReservations \in [TicketIds -> ReservationIds \cup {NoID}]
      /\ c.backfillReservations \in [TicketIds -> ReservationIds \cup {NoID}]
      /\ c.reservations[r].status \in ReservationStatuses \cup {"absent"}
  BY <1>2, Zenon DEF CoordinatorStruct, ReservationRecord
<1>4. \/ Reserve(c0, proposal, r, now).state = c0
      \/ Reserve(c0, proposal, r, now).state = c
      \/ /\ Reserve(c0, proposal, r, now).state = d
         /\ c.reservations[r].status \notin ReservationStatuses
         /\ validateAvailabilityLocked(c, proposal)
  BY Zenon DEF Reserve, Ok, Fail, c, ReservationStatuses
<1> SUFFICES ASSUME c.reservations[r].status \notin ReservationStatuses,
                    validateAvailabilityLocked(c, proposal)
             PROVE  IInv(d)
  BY <1>1, <1>4, Zenon
<1>5. c.reservations[r].status = "absent" BY <1>3, Zenon
<1>6. /\ d.matchTickets = c.matchTickets
      /\ d.backfillTickets = c.backfillTickets
      /\ d.playerTickets = c.playerTickets
      /\ d.ticketReservations = tickets
      /\ d.backfillReservations = backfills
      /\ d.reservations = [c.reservations EXCEPT ![r] = reservation]
      /\ d.assignments = c.assignments
  BY <1>2, Zenon DEF CoordinatorStruct
<1>7. reservation \in ReservationRecord
  BY TTLAssumption DEF ReservationRecord, ReservationStatuses
<1>8. d \in CoordinatorStruct
  <2>1. /\ tickets \in [TicketIds -> ReservationIds \cup {NoID}]
        /\ backfills \in [TicketIds -> ReservationIds \cup {NoID}]
        /\ [c.reservations EXCEPT ![r] = reservation]
              \in [ReservationIds -> ReservationRecord]
    BY <1>3, <1>7, Zenon
  <2>. HIDE DEF tickets, backfills, reservation
  <2>. QED BY <1>2, <2>1, Zenon DEF CoordinatorStruct
<1>9. \A q \in ReservationIds :
         /\ q # r => d.reservations[q] = c.reservations[q]
         /\ q = r => d.reservations[q] = reservation
  BY <1>3, <1>6
<1>10. IndexExact(d)
  <2> SUFFICES ASSUME NEW t \in TicketIds, NEW q \in ReservationIds
               PROVE  /\ d.ticketReservations[t] = q
                           <=> Active(d, q) /\ t \in Supply(d.reservations[q].proposal)
                      /\ d.backfillReservations[t] = q
                           <=> /\ Active(d, q)
                               /\ t = d.reservations[q].proposal.backfill.ticket
    BY Zenon DEF IndexExact
  <2>1. /\ c.ticketReservations[t] = q
             <=> Active(c, q) /\ t \in Supply(c.reservations[q].proposal)
        /\ c.backfillReservations[t] = q
             <=> Active(c, q) /\ t = c.reservations[q].proposal.backfill.ticket
    <3>1. IndexExact(c) BY <1>1, Zenon DEF IInv
    <3>. QED BY <3>1, Zenon DEF IndexExact
  <2>2. t \in Supply(proposal) => c.ticketReservations[t] = NoID
    BY Zenon DEF validateAvailabilityLocked
  <2>3. t = proposal.backfill.ticket => c.backfillReservations[t] = NoID
    BY NoIDAssumption, Zenon DEF validateAvailabilityLocked, IsBackfill
  <2>4. q # NoID BY NoIDAssumption, Zenon
  <2>5. CASE q = r
    <3>1. Active(d, q) /\ ~Active(c, q) /\ d.reservations[q].proposal = proposal
      BY <1>5, <1>9, <2>5 DEF Active
    <3>2. c.ticketReservations[t] # q /\ c.backfillReservations[t] # q
      BY <2>1, <3>1, Zenon
    <3>. QED BY <1>6, <2>5, <3>1, <3>2
  <2>6. CASE q # r
    <3>1. d.reservations[q] = c.reservations[q] BY <1>9, <2>6, Zenon
    <3>2. d.ticketReservations[t] = q <=> c.ticketReservations[t] = q
      BY <1>6, <2>2, <2>4, <2>6
    <3>3. d.backfillReservations[t] = q <=> c.backfillReservations[t] = q
      BY <1>6, <2>3, <2>4, <2>6
    <3>. QED BY <2>1, <3>1, <3>2, <3>3, Zenon DEF Active
  <2>. QED BY <2>5, <2>6, Zenon
<1> HIDE DEF d, tickets, backfills
<1> HIDE DEF c, reservation
<1>11. OwnershipExact(d) /\ Disjoint(d) /\ Acknowledged(d)
  BY <1>1, <1>6, Frame, Zenon
<1> USE DEF reservation
<1>12. Paired(d)
  <2>1. d.reservations[r].status # "confirmed" /\ c.reservations[r].status # "confirmed"
    <3>1. reservation.status = "active" BY Zenon
    <3>2. d.reservations[r] = reservation BY <1>9, Zenon
    <3>. HIDE DEF reservation
    <3>. QED BY <1>5, <3>1, <3>2, Zenon
  <2>. HIDE DEF reservation
  <2>2. Paired(c) BY <1>1, Zenon DEF IInv
  <2>3. \A q \in ReservationIds :
           d.reservations[q].status = "confirmed" \/ c.reservations[q].status = "confirmed"
             => d.reservations[q] = c.reservations[q]
    BY <1>9, <2>1, Zenon
  <2>4. \A b \in AssignmentIds : d.assignments[b] = c.assignments[b] BY <1>6, Zenon
  <2>. QED BY <2>2, <2>3, <2>4, PairedFrame, Zenon
<1>. QED BY <1>8, <1>10, <1>11, <1>12, Zenon DEF IInv

(* Cancel preserves the invariant. *)
LEMMA CancelInv ==
    ASSUME NEW c0, IInv(c0), NEW r \in ReservationIds, NEW now \in Nat
    PROVE  IInv(Cancel(c0, r, now).state)
<1> DEFINE c == expireLocked(c0, now)
<1>1. IInv(c) BY ExpireInv, Zenon
<1> HIDE DEF c
<1>2. \/ Cancel(c0, r, now).state = c
      \/ /\ Cancel(c0, r, now).state = endReservations(c, {r}, "cancelled")
         /\ Active(c, r)
  BY Zenon DEF Cancel, Ok, Fail, Active, c
<1>3. {r} \in SUBSET ReservationIds BY Zenon
<1>. QED BY <1>1, <1>2, <1>3, EndInv, Zenon

(* The success path of Confirm preserves the invariant: the consumed       *)
(* tickets give up their players, the reservation gives up its entries,    *)
(* and the new assignment is paired with the reservation.                  *)
LEMMA ConsumeInv ==
    ASSUME NEW c, IInv(c), NEW r \in ReservationIds, Active(c, r),
           NEW a \in AssignmentIds, c.assignments[a].status = "absent",
           NEW now \in Nat, now < c.reservations[r].expiresAt
    PROVE  IInv(consume(c, r, a, now))
<1> DEFINE proposal == c.reservations[r].proposal
           players == releasePlayerOwnershipLocked(c, Supply(proposal))
           matches == [t \in TicketIds |->
                         IF t \in Supply(proposal) THEN NoMatchTicket
                                                   ELSE c.matchTickets[t]]
           backfills == [t \in TicketIds |->
                           IF t = proposal.backfill.ticket THEN NoBackfillTicket
                                                           ELSE c.backfillTickets[t]]
           confirmed == [c.reservations[r] EXCEPT !.status = "confirmed",
                                                  !.assignment = a]
           assignment == [status |-> "pending", reservation |-> r,
                          proposal |-> proposal, confirmedAt |-> now,
                          acknowledgment |-> NoAcknowledgment]
           d == consume(c, r, a, now)
<1>1. c \in CoordinatorStruct BY Zenon DEF IInv
<1>2. /\ d.matchTickets = matches
      /\ d.backfillTickets = backfills
      /\ d.playerTickets = players
      /\ d.ticketReservations = releaseTickets(c, {r})
      /\ d.backfillReservations = releaseBackfills(c, {r})
      /\ d.reservations = [c.reservations EXCEPT ![r] = confirmed]
      /\ d.assignments = [c.assignments EXCEPT ![a] = assignment]
  BY <1>1, Zenon DEF consume, CoordinatorStruct
<1>3. /\ c.matchTickets \in [TicketIds -> MatchTicket]
      /\ c.backfillTickets \in [TicketIds -> BackfillTicket]
      /\ c.playerTickets \in [PlayerIds -> TicketIds \cup {NoID}]
      /\ c.reservations \in [ReservationIds -> ReservationRecord]
      /\ c.ticketReservations \in [TicketIds -> ReservationIds \cup {NoID}]
      /\ c.backfillReservations \in [TicketIds -> ReservationIds \cup {NoID}]
      /\ c.assignments \in [AssignmentIds -> Assignment]
  BY <1>1, Zenon DEF CoordinatorStruct
<1>4. c.reservations[r] \in ReservationRecord /\ proposal \in MatchProposal
  BY <1>3, Zenon DEF ReservationRecord
<1>5. /\ confirmed \in ReservationRecord
      /\ confirmed.status = "confirmed"
      /\ confirmed.assignment = a
      /\ confirmed.proposal = proposal
      /\ confirmed.expiresAt = c.reservations[r].expiresAt
  BY <1>4, Zenon DEF ReservationRecord, ReservationStatuses
<1>6. assignment \in Assignment
  BY <1>4, ZeroTypes, Zenon DEF Assignment
<1>7. d \in CoordinatorStruct
  <2>1. matches \in [TicketIds -> MatchTicket]
    BY <1>3, ZeroTypes, Zenon
  <2>2. backfills \in [TicketIds -> BackfillTicket]
    BY <1>3, ZeroTypes, Zenon
  <2>3. players \in [PlayerIds -> TicketIds \cup {NoID}]
    BY <1>3, Zenon DEF releasePlayerOwnershipLocked
  <2>4. /\ releaseTickets(c, {r}) \in [TicketIds -> ReservationIds \cup {NoID}]
        /\ releaseBackfills(c, {r}) \in [TicketIds -> ReservationIds \cup {NoID}]
    BY <1>3, Zenon DEF releaseTickets, releaseBackfills
  <2>5. [c.reservations EXCEPT ![r] = confirmed] \in [ReservationIds -> ReservationRecord]
    BY <1>3, <1>5, Zenon
  <2>6. [c.assignments EXCEPT ![a] = assignment] \in [AssignmentIds -> Assignment]
    BY <1>3, <1>6, Zenon
  <2>7. d = [c EXCEPT !.ticketReservations = releaseTickets(c, {r}),
                      !.backfillReservations = releaseBackfills(c, {r}),
                      !.playerTickets = players, !.matchTickets = matches,
                      !.backfillTickets = backfills,
                      !.reservations[r] = confirmed, !.assignments[a] = assignment]
    BY Zenon DEF consume
  <2>. HIDE DEF d, players, matches, backfills, confirmed, assignment
  <2>. QED BY <1>1, <2>1, <2>2, <2>3, <2>4, <2>5, <2>6, <2>7, Zenon DEF CoordinatorStruct
<1>8. \A q \in ReservationIds :
         /\ q # r => d.reservations[q] = c.reservations[q]
         /\ q = r => d.reservations[q] = confirmed
  BY <1>2, <1>3, Zenon
<1>9. \A b \in AssignmentIds :
         /\ b # a => d.assignments[b] = c.assignments[b]
         /\ b = a => d.assignments[b] = assignment
  BY <1>2, <1>3, Zenon
<1>10. IndexExact(d)
  <2> SUFFICES ASSUME NEW t \in TicketIds, NEW q \in ReservationIds
               PROVE  /\ d.ticketReservations[t] = q
                           <=> Active(d, q) /\ t \in Supply(d.reservations[q].proposal)
                      /\ d.backfillReservations[t] = q
                           <=> /\ Active(d, q)
                               /\ t = d.reservations[q].proposal.backfill.ticket
    BY Zenon DEF IndexExact
  <2>1. /\ c.ticketReservations[t] = q
             <=> Active(c, q) /\ t \in Supply(c.reservations[q].proposal)
        /\ c.backfillReservations[t] = q
             <=> Active(c, q) /\ t = c.reservations[q].proposal.backfill.ticket
    BY Zenon DEF IInv, IndexExact
  <2>2. q # NoID BY NoIDAssumption, Zenon
  <2>3. Active(d, q) <=> Active(c, q) /\ q # r
    BY <1>5, <1>8, Zenon DEF Active
  <2>4. d.ticketReservations[t] = q <=> c.ticketReservations[t] = q /\ q # r
    <3>1. d.ticketReservations[t] =
            IF /\ c.ticketReservations[t] \in {r}
               /\ t \in Supply(c.reservations[c.ticketReservations[t]].proposal)
            THEN NoID ELSE c.ticketReservations[t]
      BY <1>2, Zenon DEF releaseTickets
    <3>. QED BY <2>1, <2>2, <3>1, Zenon
  <2>5. d.backfillReservations[t] = q <=> c.backfillReservations[t] = q /\ q # r
    <3>1. d.backfillReservations[t] =
            IF /\ c.backfillReservations[t] \in {r}
               /\ c.reservations[c.backfillReservations[t]].proposal.backfill.ticket = t
            THEN NoID ELSE c.backfillReservations[t]
      BY <1>2, Zenon DEF releaseBackfills
    <3>. QED BY <2>1, <2>2, <3>1, Zenon
  <2>. QED BY <1>8, <2>1, <2>3, <2>4, <2>5, Zenon
<1>11. OwnershipExact(d)
  <2> SUFFICES ASSUME NEW p \in PlayerIds, NEW t \in TicketIds
               PROVE  d.playerTickets[p] = t <=> p \in d.matchTickets[t].players
    BY Zenon DEF OwnershipExact
  <2>1. Supply(proposal) \in SUBSET TicketIds BY Zenon DEF Supply
  <2>2. d.playerTickets[p] = t
          <=> t \notin Supply(proposal) /\ p \in c.matchTickets[t].players
    <3>1. OwnershipExact(c) BY Zenon DEF IInv
    <3>. QED BY <1>1, <1>2, <2>1, <3>1, RemoveTickets
  <2>3. d.matchTickets[t] = IF t \in Supply(proposal) THEN NoMatchTicket
                                                      ELSE c.matchTickets[t]
    BY <1>2, Zenon
  <2>. HIDE DEF d, players, proposal
  <2>. QED BY <2>2, <2>3 DEF NoMatchTicket
<1>12. Disjoint(d)
  <2>1. \A t \in TicketIds :
          /\ d.matchTickets[t] \in {NoMatchTicket, c.matchTickets[t]}
          /\ d.backfillTickets[t] \in {NoBackfillTicket, c.backfillTickets[t]}
    BY <1>2, Zenon
  <2>. HIDE DEF d
  <2>2. Disjoint(c) BY Zenon DEF IInv
  <2>0. NoMatchTicket.revision = 0 /\ NoBackfillTicket.revision = 0
    BY Zenon DEF NoMatchTicket, NoBackfillTicket
  <2>3. \A t \in TicketIds :
          /\ d.matchTickets[t].revision # 0 => d.matchTickets[t] = c.matchTickets[t]
          /\ d.backfillTickets[t].revision # 0 =>
               d.backfillTickets[t] = c.backfillTickets[t]
    BY <2>0, <2>1, Zenon
  <2>. QED BY <2>2, <2>3 DEF Disjoint
<1> HIDE DEF d
<1>13. Paired(d)
  <2>0. /\ assignment.status = "pending"
        /\ assignment.reservation = r
        /\ assignment.proposal = proposal
        /\ assignment.confirmedAt = now
    BY Zenon
  <2> HIDE DEF assignment, confirmed, proposal
  <2>1. ASSUME NEW b \in AssignmentIds, d.assignments[b].status # "absent"
        PROVE  \E q \in ReservationIds :
                  /\ d.assignments[b].reservation = q
                  /\ d.reservations[q].status = "confirmed"
                  /\ d.reservations[q].assignment = b
                  /\ d.reservations[q].proposal = d.assignments[b].proposal
                  /\ d.assignments[b].confirmedAt < d.reservations[q].expiresAt
    <3>1. CASE b = a
      <4>1. /\ d.assignments[b] = assignment
            /\ d.reservations[r].status = "confirmed"
            /\ d.reservations[r].assignment = b
            /\ d.reservations[r].proposal = proposal
        BY <1>5, <1>8, <1>9, <3>1, Zenon
      <4>2. now < d.reservations[r].expiresAt BY <1>5, <1>8, Zenon
      <4>. QED BY <2>0, <4>1, <4>2, Zenon
    <3>2. CASE b # a
      <4>1. PICK q \in ReservationIds :
               /\ c.assignments[b].reservation = q
               /\ c.reservations[q].status = "confirmed"
               /\ c.reservations[q].assignment = b
               /\ c.reservations[q].proposal = c.assignments[b].proposal
               /\ c.assignments[b].confirmedAt < c.reservations[q].expiresAt
        BY <1>9, <2>1, <3>2, Zenon DEF IInv, Paired
      <4>2. q # r BY <4>1, Zenon DEF Active
      <4>. QED BY <1>8, <1>9, <3>2, <4>1, <4>2, Zenon
    <3>. QED BY <3>1, <3>2, Zenon
  <2>2. ASSUME NEW q \in ReservationIds, d.reservations[q].status = "confirmed"
        PROVE  \E b \in AssignmentIds :
                  /\ d.reservations[q].assignment = b
                  /\ d.assignments[b].status # "absent"
                  /\ d.assignments[b].reservation = q
    <3>1. CASE q = r
      BY <1>5, <1>8, <1>9, <2>0, <3>1, Zenon
    <3>2. CASE q # r
      <4>1. PICK b \in AssignmentIds :
               /\ c.reservations[q].assignment = b
               /\ c.assignments[b].status # "absent"
               /\ c.assignments[b].reservation = q
        BY <1>8, <2>2, <3>2, Zenon DEF IInv, Paired
      <4>. QED BY <1>8, <1>9, <3>2, <4>1, Zenon
    <3>. QED BY <3>1, <3>2, Zenon
  <2>. QED BY <2>1, <2>2, Zenon DEF Paired
<1>14. Acknowledged(d)
  <2>1. assignment.status \notin Outcomes BY Zenon DEF Outcomes
  <2>2. "completed" \in Outcomes BY Zenon DEF Outcomes
  <2>3. Acknowledged(c) BY Zenon DEF IInv
  <2>. HIDE DEF assignment, confirmed, proposal
  <2>4. \A b \in AssignmentIds : d.assignments[b].status \in Outcomes =>
                                  d.assignments[b] = c.assignments[b]
    BY <1>9, <2>1, Zenon
  <2>. QED BY <2>2, <2>3, <2>4, Zenon DEF Acknowledged
<1>. QED BY <1>7, <1>10, <1>11, <1>12, <1>13, <1>14, Zenon DEF IInv, d

(* Confirm preserves the invariant on all its paths. *)
LEMMA ConfirmInv ==
    ASSUME NEW c0, IInv(c0), NEW r \in ReservationIds, NEW a \in AssignmentIds,
           NEW now \in Nat
    PROVE  IInv(Confirm(c0, r, a, now).state)
<1> DEFINE c == expireLocked(c0, now)
<1>1. /\ IInv(c)
      /\ Active(c, r) => now < c.reservations[r].expiresAt
  BY ExpireInv, Zenon
<1> HIDE DEF c
<1>2. c.reservations[r].status \in ReservationStatuses \cup {"absent"}
  BY <1>1, Zenon DEF IInv, CoordinatorStruct, ReservationRecord
<1>3. \/ Confirm(c0, r, a, now).state = c
      \/ /\ Confirm(c0, r, a, now).state = endReservations(c, {r}, "cancelled")
         /\ Active(c, r)
      \/ /\ Confirm(c0, r, a, now).state = consume(c, r, a, now)
         /\ Active(c, r)
         /\ c.assignments[a].status = "absent"
  BY <1>2, Zenon DEF Confirm, Ok, Fail, Active, ReservationStatuses, c
<1>4. {r} \in SUBSET ReservationIds BY Zenon
<1>. QED BY <1>1, <1>3, <1>4, EndInv, ConsumeInv, Zenon

(* A completion that validates against a backfill advances its roster, and *)
(* only terminal outcomes validate.                                        *)
LEMMA ValidAcknowledgment ==
    ASSUME NEW proposal \in MatchProposal, NEW request \in AcknowledgmentRequest,
           ValidateAssignmentAcknowledgment(proposal, request) = "none"
    PROVE  /\ request.outcome \in Outcomes
           /\ (request.outcome = "completed" /\ IsBackfill(proposal)) =>
                /\ request.session = proposal.backfill.session
                /\ request.expected = proposal.backfill.rosterVersion
                /\ request.resulting > proposal.backfill.rosterVersion
<1>1. /\ request.outcome \in Outcomes \cup {"pending"}
      /\ request.expected \in Nat
      /\ request.resulting \in Nat
  BY Zenon DEF AcknowledgmentRequest
<1>2. request.outcome # "pending"
  BY Zenon DEF ValidateAssignmentAcknowledgment
<1>3. ASSUME request.outcome = "completed", IsBackfill(proposal)
      PROVE  validateAcknowledgedBackfillVersions(proposal, request) = "none"
  BY <1>3, Zenon DEF ValidateAssignmentAcknowledgment
<1>. QED BY <1>1, <1>2, <1>3 DEF validateAcknowledgedBackfillVersions

(* AcknowledgeAssignment preserves the invariant: only the status and the  *)
(* acknowledgment of one pending assignment change.                        *)
LEMMA AcknowledgeInv ==
    ASSUME NEW c, IInv(c), NEW a \in AssignmentIds,
           NEW request \in AcknowledgmentRequest
    PROVE  IInv(AcknowledgeAssignment(c, a, request).state)
<1> DEFINE old == c.assignments[a]
           new == [old EXCEPT !.status = request.outcome,
                              !.acknowledgment = request]
           d == [c EXCEPT !.assignments[a] = new]
<1>1. \/ AcknowledgeAssignment(c, a, request).state = c
      \/ /\ AcknowledgeAssignment(c, a, request).state = d
         /\ old.status = "pending"
         /\ ValidateAssignmentAcknowledgment(old.proposal, request) = "none"
  BY Zenon DEF AcknowledgeAssignment, Ok, Fail
<1> SUFFICES ASSUME old.status = "pending",
                    ValidateAssignmentAcknowledgment(old.proposal, request) = "none"
             PROVE  IInv(d)
  BY <1>1, Zenon
<1>2. c \in CoordinatorStruct BY Zenon DEF IInv
<1>3. /\ d.matchTickets = c.matchTickets
      /\ d.backfillTickets = c.backfillTickets
      /\ d.playerTickets = c.playerTickets
      /\ d.ticketReservations = c.ticketReservations
      /\ d.backfillReservations = c.backfillReservations
      /\ d.reservations = c.reservations
      /\ d.assignments = [c.assignments EXCEPT ![a] = new]
  BY <1>2, Zenon DEF CoordinatorStruct
<1>4. c.assignments \in [AssignmentIds -> Assignment]
  BY <1>2, Zenon DEF CoordinatorStruct
<1>5. old \in Assignment /\ old.proposal \in MatchProposal
  BY <1>4, Zenon DEF Assignment
<1>6. /\ request.outcome \in Outcomes
      /\ (request.outcome = "completed" /\ IsBackfill(old.proposal)) =>
           /\ request.session = old.proposal.backfill.session
           /\ request.expected = old.proposal.backfill.rosterVersion
           /\ request.resulting > old.proposal.backfill.rosterVersion
  BY <1>5, ValidAcknowledgment, Zenon
<1>7. /\ new \in Assignment
      /\ new.status = request.outcome
      /\ new.acknowledgment = request
      /\ new.reservation = old.reservation
      /\ new.proposal = old.proposal
      /\ new.confirmedAt = old.confirmedAt
  BY <1>5, <1>6, Zenon DEF Assignment
<1> HIDE DEF new
<1>8. d \in CoordinatorStruct
  <2>1. [c.assignments EXCEPT ![a] = new] \in [AssignmentIds -> Assignment]
    BY <1>4, <1>7, Zenon
  <2>. QED BY <1>2, <2>1, Zenon DEF CoordinatorStruct
<1>9. \A b \in AssignmentIds :
        /\ b # a => d.assignments[b] = c.assignments[b]
        /\ b = a => d.assignments[b] = new
  BY <1>3, <1>4, Zenon
<1> HIDE DEF d
<1>10. IndexExact(d) /\ OwnershipExact(d) /\ Disjoint(d)
  BY <1>3, Frame, Zenon
<1>11. Paired(d)
  <2>1. new.status # "absent" BY <1>6, <1>7, Zenon DEF Outcomes
  <2>2. ASSUME NEW b \in AssignmentIds
        PROVE  /\ d.assignments[b].status # "absent" <=> c.assignments[b].status # "absent"
               /\ d.assignments[b].reservation = c.assignments[b].reservation
               /\ d.assignments[b].proposal = c.assignments[b].proposal
               /\ d.assignments[b].confirmedAt = c.assignments[b].confirmedAt
    BY <1>7, <1>9, <2>1, Zenon
  <2>3. Paired(c) BY Zenon DEF IInv
  <2>4. \A q \in ReservationIds : d.reservations[q] = c.reservations[q] BY <1>3, Zenon
  <2>. QED BY <2>2, <2>3, <2>4, PairedFrame, Zenon
<1>12. Acknowledged(d)
  <2> SUFFICES ASSUME NEW b \in AssignmentIds
               PROVE  LET assignment == d.assignments[b]
                          recorded == assignment.acknowledgment
                          target == assignment.proposal.backfill
                      IN /\ assignment.status \in Outcomes =>
                              recorded.outcome = assignment.status
                         /\ (/\ assignment.status = "completed"
                             /\ IsBackfill(assignment.proposal)) =>
                              /\ recorded.session = target.session
                              /\ recorded.expected = target.rosterVersion
                              /\ recorded.resulting > target.rosterVersion
    BY Zenon DEF Acknowledged
  <2>1. CASE b = a BY <1>6, <1>7, <1>9, <2>1, Zenon
  <2>2. CASE b # a
    <3>1. Acknowledged(c) BY Zenon DEF IInv
    <3>. QED BY <1>9, <2>2, <3>1, Zenon DEF Acknowledged
  <2>. QED BY <2>1, <2>2, Zenon
<1>. QED BY <1>8, <1>10, <1>11, <1>12, Zenon DEF IInv

-----------------------------------------------------------------------------
InductiveInv == IInv(coordinator)

(* Every call preserves the inductive invariant. *)
LEMMA StepInv == InductiveInv /\ [CoordinatorNext]_coordinator => InductiveInv'
<1> SUFFICES ASSUME IInv(coordinator), [CoordinatorNext]_coordinator
             PROVE  IInv(coordinator')
  BY Zenon DEF InductiveInv
<1>1. CASE UpsertMatchTicketStep
  BY <1>1, UpsertMatchTicketInv, InputAssumption, Zenon DEF UpsertMatchTicketStep
<1>2. CASE UpsertBackfillTicketStep
  BY <1>2, UpsertBackfillTicketInv, InputAssumption, Zenon DEF UpsertBackfillTicketStep
<1>3. CASE CancelMatchTicketStep
  BY <1>3, CancelMatchTicketInv, Zenon DEF CancelMatchTicketStep
<1>4. CASE CancelBackfillTicketStep
  BY <1>4, CancelBackfillTicketInv, Zenon DEF CancelBackfillTicketStep
<1>5. CASE SnapshotStep
  BY <1>5, ExpireInv, InputAssumption, Zenon DEF SnapshotStep, Snapshot, Ok
<1>6. CASE ReserveStep
  BY <1>6, ReserveInv, InputAssumption, Zenon DEF ReserveStep
<1>7. CASE ConfirmStep
  BY <1>7, ConfirmInv, InputAssumption, Zenon DEF ConfirmStep
<1>8. CASE AcknowledgeStep
  BY <1>8, AcknowledgeInv, InputAssumption, Zenon DEF AcknowledgeStep
<1>9. CASE CancelStep
  BY <1>9, CancelInv, InputAssumption, Zenon DEF CancelStep
<1>10. CASE UNCHANGED coordinator
  BY <1>10, Zenon
<1>. QED BY <1>1, <1>2, <1>3, <1>4, <1>5, <1>6, <1>7, <1>8, <1>9, <1>10, Zenon DEF CoordinatorNext

(* The inductive invariant holds in every reachable state. *)
LEMMA Invariance == CoordinatorSpec => []InductiveInv
<1>1. CoordinatorInit => InductiveInv BY NewInv, Zenon DEF CoordinatorInit, InductiveInv
<1>. QED BY <1>1, StepInv, PTL DEF CoordinatorSpec

(* The struct keeps the shape of the Go type: every call is total on it. *)
THEOREM TypeCorrect == CoordinatorSpec => []StructOK
<1>1. InductiveInv => StructOK BY Zenon DEF InductiveInv, IInv, StructOK
<1>. QED BY <1>1, Invariance, PTL

(* The reservation indexes always name exactly the active reservations'    *)
(* tickets, for any number of tickets, reservations and callers and any    *)
(* clock readings.                                                         *)
THEOREM IndexIsExact == CoordinatorSpec => []ReservationIndexExact
<1>1. InductiveInv => ReservationIndexExact
  BY Zenon DEF InductiveInv, IInv, ReservationIndexExact
<1>. QED BY <1>1, Invariance, PTL

(* No ticket is ever held by two active reservations. *)
THEOREM Exclusivity == CoordinatorSpec => []ExclusiveReservations
<1>1. ASSUME InductiveInv PROVE ExclusiveReservations
  <2>0. IInv(coordinator) BY <1>1, Zenon DEF InductiveInv
  <2> SUFFICES ASSUME NEW r \in ReservationIds, NEW s \in ReservationIds,
                      r # s, Active(coordinator, r), Active(coordinator, s)
               PROVE  /\ Supply(coordinator.reservations[r].proposal)
                            \cap Supply(coordinator.reservations[s].proposal) = {}
                      /\ IsBackfill(coordinator.reservations[r].proposal) =>
                           coordinator.reservations[r].proposal.backfill.ticket
                             # coordinator.reservations[s].proposal.backfill.ticket
    BY Zenon DEF ExclusiveReservations, Exclusive
  <2>1. IndexExact(coordinator) BY <2>0, Zenon DEF IInv
  <2>2. ASSUME NEW q \in ReservationIds, Active(coordinator, q),
               coordinator.reservations[q].proposal.backfill.ticket \in TicketIds
        PROVE  coordinator.backfillReservations[
                 coordinator.reservations[q].proposal.backfill.ticket] = q
    BY <2>1, <2>2, Zenon DEF IndexExact
  <2>3. \A q \in ReservationIds :
           Supply(coordinator.reservations[q].proposal) \subseteq TicketIds
    BY Zenon DEF Supply
  <2>4. IsBackfill(coordinator.reservations[r].proposal) =>
          coordinator.reservations[r].proposal.backfill.ticket \in TicketIds
    <3>1. coordinator.reservations[r].proposal \in MatchProposal
      BY <2>0, Zenon DEF IInv, CoordinatorStruct, ReservationRecord
    <3>. QED BY <3>1, Zenon DEF IsBackfill, MatchProposal, BackfillTarget
  <2>5. ASSUME NEW t \in TicketIds,
               t \in Supply(coordinator.reservations[r].proposal),
               t \in Supply(coordinator.reservations[s].proposal)
        PROVE  FALSE
    <3>1. coordinator.ticketReservations[t] = r BY <2>1, <2>5, Zenon DEF IndexExact
    <3>2. coordinator.ticketReservations[t] = s BY <2>1, <2>5, Zenon DEF IndexExact
    <3>. QED BY <3>1, <3>2, Zenon
  <2>. QED BY <2>2, <2>3, <2>4, <2>5, Zenon
<1>. QED BY <1>1, Invariance, PTL

(* The player index is exact, so no player is in two active tickets. *)
THEOREM OwnershipIsExact == CoordinatorSpec => []PlayerOwnershipExact
<1>1. InductiveInv => PlayerOwnershipExact
  BY Zenon DEF InductiveInv, IInv, PlayerOwnershipExact
<1>. QED BY <1>1, Invariance, PTL

(* No identifier is both kinds of demand; one backfill per session. *)
THEOREM DemandIsDisjoint == CoordinatorSpec => []DemandDisjoint
<1>1. InductiveInv => DemandDisjoint BY Zenon DEF InductiveInv, IInv, DemandDisjoint
<1>. QED BY <1>1, Invariance, PTL

(* Assignments and confirmed reservations correspond one to one, and every *)
(* assignment was made before its reservation expired.                     *)
THEOREM AssignmentsArePaired == CoordinatorSpec => []AssignmentsPaired
<1>1. InductiveInv => AssignmentsPaired BY Zenon DEF InductiveInv, IInv, AssignmentsPaired
<1>. QED BY <1>1, Invariance, PTL

(* A recorded acknowledgment agrees with its assignment and, for a         *)
(* completed backfill, with the roster the assignment was planned on.      *)
THEOREM AcknowledgmentsAreRecorded == CoordinatorSpec => []AcknowledgmentsRecorded
<1>1. InductiveInv => AcknowledgmentsRecorded
  BY Zenon DEF InductiveInv, IInv, AcknowledgmentsRecorded
<1>. QED BY <1>1, Invariance, PTL

-----------------------------------------------------------------------------
(* The ways in which a reservation may differ before and after a call. *)
Same(c, d, q) == d.reservations[q] = c.reservations[q]

Ends(c, d, q) ==
    /\ Active(c, q)
    /\ \E status \in {"cancelled", "expired"} :
         d.reservations[q] = [c.reservations[q] EXCEPT !.status = status]

Confirms(c, d, q) ==
    /\ Active(c, q)
    /\ \E a \in AssignmentIds :
         d.reservations[q] = [c.reservations[q] EXCEPT !.status = "confirmed",
                                                       !.assignment = a]
    /\ Consumes(c, d, c.reservations[q].proposal)

Starts(c, d, q) ==
    /\ c.reservations[q].status = "absent"
    /\ d.reservations[q].status = "active"
    /\ ValidateProposal(d.reservations[q].proposal)

Moves(c, d) == \A q \in ReservationIds :
    \/ Same(c, d, q)
    \/ Ends(c, d, q)
    \/ Confirms(c, d, q)
    \/ Starts(c, d, q)

(* A call that leaves the reservations alone. *)
LEMMA SameMoves ==
    ASSUME NEW c, NEW d, d.reservations = c.reservations
    PROVE  Moves(c, d)
BY Zenon DEF Moves, Same

(* Ending active reservations. *)
LEMMA EndMoves ==
    ASSUME NEW c \in CoordinatorStruct,
           NEW R \in SUBSET ReservationIds, \A r \in R : Active(c, r),
           NEW status \in {"cancelled", "expired"}
    PROVE  Moves(c, endReservations(c, R, status))
<1> DEFINE d == endReservations(c, R, status)
<1>1. d.reservations = [r \in ReservationIds |->
        IF r \in R THEN [c.reservations[r] EXCEPT !.status = status]
                   ELSE c.reservations[r]]
  BY EndFields
<1> HIDE DEF d
<1>2. ASSUME NEW q \in ReservationIds PROVE Same(c, d, q) \/ Ends(c, d, q)
  <2>1. CASE q \in R
    BY <1>1, <2>1, Zenon DEF Ends
  <2>2. CASE q \notin R
    BY <1>1, <2>2, Zenon DEF Same
  <2>. QED BY <2>1, <2>2, Zenon
<1>3. Moves(c, d) BY <1>2, Zenon DEF Moves
<1>. QED BY <1>3, Zenon DEF d

(* What expiry does, and that it leaves the demand alone. *)
LEMMA ExpireMoves ==
    ASSUME NEW c \in CoordinatorStruct, NEW now \in Nat
    PROVE  LET e == expireLocked(c, now) IN
           /\ e.matchTickets = c.matchTickets
           /\ e.backfillTickets = c.backfillTickets
           /\ e.assignments = c.assignments
           /\ \A q \in ReservationIds :
                \/ Same(c, e, q)
                \/ Ends(c, e, q) /\ e.reservations[q].status = "expired"
<1> DEFINE e == expireLocked(c, now)
<1>1. /\ e.matchTickets = c.matchTickets
      /\ e.backfillTickets = c.backfillTickets
      /\ e.assignments = c.assignments
      /\ e.reservations = [r \in ReservationIds |->
           IF r \in Due(c, now) THEN [c.reservations[r] EXCEPT !.status = "expired"]
                                ELSE c.reservations[r]]
  BY EndFields DEF expireLocked
<1> HIDE DEF e
<1>2. ASSUME NEW q \in ReservationIds
      PROVE  \/ Same(c, e, q)
             \/ Ends(c, e, q) /\ e.reservations[q].status = "expired"
  <2>1. CASE q \in Due(c, now)
    <3>1. e.reservations[q] = [c.reservations[q] EXCEPT !.status = "expired"]
      BY <1>1, <2>1, Zenon
    <3>2. Active(c, q) BY <2>1, Zenon DEF Due, Active
    <3>3. c.reservations[q] \in ReservationRecord BY Zenon DEF CoordinatorStruct
    <3>4. e.reservations[q].status = "expired"
      BY <3>1, <3>3, StatusFields DEF ReservationStatuses
    <3>. QED BY <3>1, <3>2, <3>4, Zenon DEF Ends
  <2>2. CASE q \notin Due(c, now)
    BY <1>1, <2>2, Zenon DEF Same
  <2>. QED BY <2>1, <2>2, Zenon
<1>. QED BY <1>1, <1>2, Zenon DEF e

(* What is consumed depends on the demand only. *)
LEMMA ConsumesFrame ==
    ASSUME NEW c, NEW e, NEW d, NEW proposal, Consumes(e, d, proposal),
           e.matchTickets = c.matchTickets, e.backfillTickets = c.backfillTickets
    PROVE  Consumes(c, d, proposal)
BY Zenon DEF Consumes

(* A call that expires first and then makes a move makes a move. *)
LEMMA AfterExpiry ==
    ASSUME NEW c \in CoordinatorStruct, NEW now \in Nat, NEW d,
           Moves(expireLocked(c, now), d)
    PROVE  Moves(c, d)
<1> DEFINE e == expireLocked(c, now)
<1>1. /\ e.matchTickets = c.matchTickets
      /\ e.backfillTickets = c.backfillTickets
      /\ \A q \in ReservationIds :
           \/ Same(c, e, q)
           \/ Ends(c, e, q) /\ e.reservations[q].status = "expired"
  BY ExpireMoves, Zenon
<1>2. Moves(e, d) BY Zenon
<1> HIDE DEF e
<1> SUFFICES ASSUME NEW q \in ReservationIds
             PROVE  Same(c, d, q) \/ Ends(c, d, q) \/ Confirms(c, d, q) \/ Starts(c, d, q)
  BY Zenon DEF Moves
<1>3. CASE Same(e, d, q)
  BY <1>1, <1>3, Zenon DEF Same, Ends
<1>4. ASSUME ~Same(e, d, q) PROVE Same(c, e, q)
  BY <1>1, <1>2, <1>4, Zenon DEF Moves, Ends, Confirms, Starts, Active
<1>5. CASE Ends(e, d, q)
  BY <1>3, <1>4, <1>5, Zenon DEF Same, Ends, Active
<1>6. CASE Confirms(e, d, q) /\ ~Same(e, d, q)
  <2>1. e.reservations[q] = c.reservations[q] BY <1>4, <1>6, Zenon DEF Same
  <2>2. Consumes(e, d, c.reservations[q].proposal)
    BY <1>6, <2>1, Zenon DEF Confirms
  <2>3. Consumes(c, d, c.reservations[q].proposal)
    BY <1>1, <2>2, ConsumesFrame, Zenon
  <2>. QED BY <1>6, <2>1, <2>3, Zenon DEF Confirms, Active
<1>7. CASE Starts(e, d, q) /\ ~Same(e, d, q)
  BY <1>4, <1>7, Zenon DEF Same, Starts
<1>. QED BY <1>2, <1>3, <1>5, <1>6, <1>7, Zenon DEF Moves

(* Reserve: a new reservation has passed ValidateProposal. *)
LEMMA ReserveMoves ==
    ASSUME NEW c0 \in CoordinatorStruct, NEW proposal \in MatchProposal,
           NEW r \in ReservationIds, NEW now \in Nat, IInv(c0)
    PROVE  Moves(c0, Reserve(c0, proposal, r, now).state)
<1> DEFINE c == expireLocked(c0, now)
           reservation == [status |-> "active", proposal |-> proposal,
                           expiresAt |-> now + TTL, assignment |-> NoID]
           d == [c EXCEPT !.reservations[r] = reservation,
                          !.ticketReservations = [t \in TicketIds |->
                             IF t \in Supply(proposal) THEN r
                                                       ELSE c.ticketReservations[t]],
                          !.backfillReservations = [t \in TicketIds |->
                             IF t = proposal.backfill.ticket
                             THEN r ELSE c.backfillReservations[t]]]
<1>1. c \in CoordinatorStruct BY ExpireInv, Zenon DEF IInv
<1>2. Moves(c, c) BY SameMoves, Zenon
<1>3. \/ Reserve(c0, proposal, r, now).state = c0
      \/ Reserve(c0, proposal, r, now).state = c
      \/ /\ Reserve(c0, proposal, r, now).state = d
         /\ c.reservations[r].status \notin ReservationStatuses
         /\ ValidateProposal(proposal)
  BY Zenon DEF Reserve, Ok, Fail, ReservationStatuses
<1>4. ASSUME c.reservations[r].status \notin ReservationStatuses,
             ValidateProposal(proposal)
      PROVE  Moves(c, d)
  <2> HIDE DEF c
  <2>1. /\ c.reservations \in [ReservationIds -> ReservationRecord]
        /\ c.reservations[r].status = "absent"
    BY <1>1, <1>4, Zenon DEF CoordinatorStruct, ReservationRecord
  <2>2. d.reservations = [c.reservations EXCEPT ![r] = reservation]
    BY <1>1, Zenon DEF CoordinatorStruct
  <2> HIDE DEF d
  <2>3. ASSUME NEW q \in ReservationIds PROVE Same(c, d, q) \/ Starts(c, d, q)
    <3>1. CASE q = r
      <4>1. d.reservations[q] = reservation BY <2>1, <2>2, <3>1, Zenon
      <4>. QED BY <1>4, <2>1, <3>1, <4>1 DEF Starts
    <3>2. CASE q # r
      BY <2>1, <2>2, <3>2, Zenon DEF Same
    <3>. QED BY <3>1, <3>2, Zenon
  <2>. QED BY <2>3, Zenon DEF Moves
<1>5. Moves(c0, c0) BY SameMoves, Zenon
<1> HIDE DEF d
<1>. QED BY <1>2, <1>3, <1>4, <1>5, AfterExpiry, Zenon

(* Cancel. *)
LEMMA CancelMoves ==
    ASSUME NEW c0, IInv(c0), NEW r \in ReservationIds, NEW now \in Nat
    PROVE  Moves(c0, Cancel(c0, r, now).state)
<1> DEFINE c == expireLocked(c0, now)
<1>1. c0 \in CoordinatorStruct /\ c \in CoordinatorStruct
  BY ExpireInv, Zenon DEF IInv
<1>2. \/ Cancel(c0, r, now).state = c
      \/ /\ Cancel(c0, r, now).state = endReservations(c, {r}, "cancelled")
         /\ Active(c, r)
  BY Zenon DEF Cancel, Ok, Fail, Active
<1>3. Moves(c, c) BY SameMoves, Zenon
<1>4. Active(c, r) => Moves(c, endReservations(c, {r}, "cancelled"))
  BY <1>1, EndMoves, Zenon
<1> HIDE DEF c
<1>5. Moves(c, Cancel(c0, r, now).state) BY <1>2, <1>3, <1>4, Zenon
<1>. QED BY <1>1, <1>5, AfterExpiry, Zenon DEF c

(* Confirm: a reservation becomes confirmed in the step that consumes its  *)
(* proposal, after the tickets were found at the proposed revisions.       *)
LEMMA ConsumeMoves ==
    ASSUME NEW c \in CoordinatorStruct, NEW r \in ReservationIds, Active(c, r),
           NEW a \in AssignmentIds, NEW now \in Nat,
           validateFreshnessLocked(c, c.reservations[r].proposal)
    PROVE  Moves(c, consume(c, r, a, now))
<1> DEFINE proposal == c.reservations[r].proposal
           target == proposal.backfill
           confirmed == [c.reservations[r] EXCEPT !.status = "confirmed",
                                                  !.assignment = a]
           d == consume(c, r, a, now)
<1>1. /\ d.matchTickets = [t \in TicketIds |->
           IF t \in Supply(proposal) THEN NoMatchTicket ELSE c.matchTickets[t]]
      /\ d.backfillTickets = [t \in TicketIds |->
           IF t = target.ticket THEN NoBackfillTicket ELSE c.backfillTickets[t]]
      /\ d.reservations = [c.reservations EXCEPT ![r] = confirmed]
  BY Zenon DEF consume, CoordinatorStruct
<1>2. /\ c.reservations \in [ReservationIds -> ReservationRecord]
      /\ c.backfillTickets \in [TicketIds -> BackfillTicket]
  BY Zenon DEF CoordinatorStruct
<1> HIDE DEF d
<1>3. Consumes(c, d, proposal)
  <2>1. \A t \in Supply(proposal) : c.matchTickets[t].revision = proposal.tickets[t]
    BY Zenon DEF validateFreshnessLocked
  <2>2. ASSUME NEW t \in TicketIds, t = target.ticket
        PROVE  c.backfillTickets[t] = [revision |-> target.revision,
                                       session |-> target.session,
                                       rosterVersion |-> target.rosterVersion]
    <3>1. IsBackfill(proposal) BY <2>2, NoIDAssumption, Zenon DEF IsBackfill
    <3>2. /\ c.backfillTickets[t].revision = target.revision
          /\ c.backfillTickets[t].session = target.session
          /\ c.backfillTickets[t].rosterVersion = target.rosterVersion
      BY <2>2, <3>1, Zenon DEF validateFreshnessLocked
    <3>3. c.backfillTickets[t] \in BackfillTicket BY <1>2, Zenon
    <3>. QED BY <3>2, <3>3, Zenon DEF BackfillTicket
  <2> HIDE DEF target, proposal
  <2>. QED BY <1>1, <2>1, <2>2 DEF Consumes, target
<1>4. ASSUME NEW q \in ReservationIds PROVE Same(c, d, q) \/ Confirms(c, d, q)
  <2>1. CASE q = r
    <3>1. d.reservations[q] = confirmed BY <1>1, <1>2, <2>1, Zenon
    <3>. QED BY <1>3, <2>1, <3>1, Zenon DEF Confirms
  <2>2. CASE q # r
    BY <1>1, <1>2, <2>2, Zenon DEF Same
  <2>. QED BY <2>1, <2>2, Zenon
<1>5. Moves(c, d) BY <1>4, Zenon DEF Moves
<1>. QED BY <1>5, Zenon DEF d

(* Confirm moves each reservation along its lifecycle, also when it refuses. *)
LEMMA ConfirmMoves ==
    ASSUME NEW c0, IInv(c0), NEW r \in ReservationIds, NEW a \in AssignmentIds,
           NEW now \in Nat
    PROVE  Moves(c0, Confirm(c0, r, a, now).state)
<1> DEFINE c == expireLocked(c0, now)
           d == Confirm(c0, r, a, now).state
<1>1. c0 \in CoordinatorStruct /\ c \in CoordinatorStruct
  BY ExpireInv, Zenon DEF IInv
<1>2. c.reservations[r].status \in ReservationStatuses \cup {"absent"}
  BY <1>1, Zenon DEF CoordinatorStruct, ReservationRecord
<1>3. \/ d = c
      \/ d = endReservations(c, {r}, "cancelled") /\ Active(c, r)
      \/ /\ d = consume(c, r, a, now)
         /\ Active(c, r)
         /\ validateFreshnessLocked(c, c.reservations[r].proposal)
  BY <1>2, Zenon DEF Confirm, Ok, Fail, Active, ReservationStatuses
<1> HIDE DEF c, d
<1>4. Moves(c, d)
  <2>1. CASE d = c
    BY <2>1, SameMoves, Zenon
  <2>2. CASE d = endReservations(c, {r}, "cancelled") /\ Active(c, r)
    BY <1>1, <2>2, EndMoves, Zenon
  <2>3. CASE /\ d = consume(c, r, a, now)
             /\ Active(c, r)
             /\ validateFreshnessLocked(c, c.reservations[r].proposal)
    BY <1>1, <2>3, ConsumeMoves, Zenon
  <2>. QED BY <1>3, <2>1, <2>2, <2>3, Zenon
<1>. QED BY <1>1, <1>4, AfterExpiry, Zenon DEF c, d

(* The methods of demand and the acknowledgment leave reservations alone. *)
LEMMA OtherMoves ==
    ASSUME NEW c \in CoordinatorStruct
    PROVE  /\ \A id \in TicketIds, ticket \in MatchTicket :
                /\ Moves(c, UpsertMatchTicket(c, id, ticket).state)
                /\ Moves(c, CancelMatchTicket(c, id, ticket.revision).state)
           /\ \A id \in TicketIds, ticket \in BackfillTicket :
                /\ Moves(c, UpsertBackfillTicket(c, id, ticket).state)
                /\ Moves(c, CancelBackfillTicket(c, id, ticket.revision,
                                                 ticket.rosterVersion).state)
           /\ \A a \in AssignmentIds, request \in AcknowledgmentRequest :
                Moves(c, AcknowledgeAssignment(c, a, request).state)
<1>1. ASSUME NEW id \in TicketIds, NEW ticket \in MatchTicket
      PROVE  /\ UpsertMatchTicket(c, id, ticket).state.reservations = c.reservations
             /\ CancelMatchTicket(c, id, ticket.revision).state.reservations
                  = c.reservations
  BY Zenon DEF UpsertMatchTicket, CancelMatchTicket, Ok, Fail, CoordinatorStruct
<1>2. ASSUME NEW id \in TicketIds, NEW ticket \in BackfillTicket
      PROVE  /\ UpsertBackfillTicket(c, id, ticket).state.reservations = c.reservations
             /\ CancelBackfillTicket(c, id, ticket.revision, ticket.rosterVersion)
                  .state.reservations = c.reservations
  BY Zenon DEF UpsertBackfillTicket, CancelBackfillTicket, Ok, Fail, CoordinatorStruct
<1>3. ASSUME NEW a \in AssignmentIds, NEW request \in AcknowledgmentRequest
      PROVE  AcknowledgeAssignment(c, a, request).state.reservations = c.reservations
  BY Zenon DEF AcknowledgeAssignment, Ok, Fail, CoordinatorStruct
<1>. QED BY <1>1, <1>2, <1>3, SameMoves, Zenon

(* Every call moves every reservation in one of the four ways. *)
LEMMA StepMoves ==
    ASSUME InductiveInv, [CoordinatorNext]_coordinator
    PROVE  Moves(coordinator, coordinator')
<1>0. IInv(coordinator) /\ coordinator \in CoordinatorStruct
  BY Zenon DEF InductiveInv, IInv
<1>1. CASE UpsertMatchTicketStep
  BY <1>0, <1>1, OtherMoves, InputAssumption, Zenon DEF UpsertMatchTicketStep
<1>2. CASE UpsertBackfillTicketStep
  BY <1>0, <1>2, OtherMoves, InputAssumption, Zenon DEF UpsertBackfillTicketStep
<1>3. CASE CancelMatchTicketStep
  BY <1>0, <1>3, OtherMoves, InputAssumption, Zenon DEF CancelMatchTicketStep
<1>4. CASE CancelBackfillTicketStep
  BY <1>0, <1>4, OtherMoves, InputAssumption, Zenon DEF CancelBackfillTicketStep
<1>5. CASE SnapshotStep
  <2>1. PICK now \in Times : coordinator' = expireLocked(coordinator, now)
    BY <1>5, Zenon DEF SnapshotStep, Snapshot, Ok
  <2>2. Moves(expireLocked(coordinator, now), coordinator')
    BY <2>1, SameMoves, Zenon
  <2>. QED BY <1>0, <2>2, AfterExpiry, InputAssumption, Zenon
<1>6. CASE ReserveStep
  BY <1>0, <1>6, ReserveMoves, InputAssumption, Zenon DEF ReserveStep
<1>7. CASE ConfirmStep
  BY <1>0, <1>7, ConfirmMoves, InputAssumption, Zenon DEF ConfirmStep
<1>8. CASE AcknowledgeStep
  BY <1>0, <1>8, OtherMoves, InputAssumption, Zenon DEF AcknowledgeStep
<1>9. CASE CancelStep
  BY <1>0, <1>9, CancelMoves, InputAssumption, Zenon DEF CancelStep
<1>10. CASE UNCHANGED coordinator
  BY <1>10, SameMoves, Zenon
<1>. QED BY <1>1, <1>2, <1>3, <1>4, <1>5, <1>6, <1>7, <1>8, <1>9, <1>10, Zenon DEF CoordinatorNext

-----------------------------------------------------------------------------

(* What the moves leave of a reservation. *)
LEMMA MoveFields ==
    ASSUME NEW c \in CoordinatorStruct, NEW d, Moves(c, d),
           NEW q \in ReservationIds, ~Same(c, d, q), ~Starts(c, d, q)
    PROVE  /\ Active(c, q)
           /\ d.reservations[q].proposal = c.reservations[q].proposal
           /\ d.reservations[q].expiresAt = c.reservations[q].expiresAt
           /\ \/ d.reservations[q].status \in {"cancelled", "expired"}
              \/ /\ d.reservations[q].status = "confirmed"
                 /\ Consumes(c, d, c.reservations[q].proposal)
<1>1. c.reservations[q] \in ReservationRecord BY Zenon DEF CoordinatorStruct
<1>2. CASE Ends(c, d, q)
  <2>1. PICK status \in {"cancelled", "expired"} :
          d.reservations[q] = [c.reservations[q] EXCEPT !.status = status]
    BY <1>2, Zenon DEF Ends
  <2>2. status \in ReservationStatuses BY Zenon DEF ReservationStatuses
  <2>. QED BY <1>1, <1>2, <2>1, <2>2, StatusFields DEF Ends
<1>3. CASE Confirms(c, d, q)
  <2>1. PICK a \in AssignmentIds :
          d.reservations[q] = [c.reservations[q] EXCEPT !.status = "confirmed",
                                                        !.assignment = a]
    BY <1>3, Zenon DEF Confirms
  <2>2. /\ d.reservations[q].status = "confirmed"
        /\ d.reservations[q].proposal = c.reservations[q].proposal
        /\ d.reservations[q].expiresAt = c.reservations[q].expiresAt
    BY <1>1, <2>1, Zenon DEF ReservationRecord
  <2>. QED BY <1>3, <2>2, Zenon DEF Confirms
<1>. QED BY <1>2, <1>3, Zenon DEF Moves

(* What a step does to reservations, in their own terms. *)
LEMMA StepOneWay ==
    ASSUME InductiveInv, [CoordinatorNext]_coordinator
    PROVE  OneWay(coordinator, coordinator')
<1>1. Moves(coordinator, coordinator') BY StepMoves, Zenon
<1>2. coordinator \in CoordinatorStruct BY Zenon DEF InductiveInv, IInv
<1> SUFFICES ASSUME NEW r \in ReservationIds
             PROVE  LET old == coordinator.reservations[r]
                        new == coordinator'.reservations[r]
                    IN /\ old.status # "absent" => /\ new.proposal = old.proposal
                                                   /\ new.expiresAt = old.expiresAt
                       /\ old.status \in {"confirmed", "cancelled", "expired"} => new = old
  BY Zenon DEF OneWay
<1>3. CASE Same(coordinator, coordinator', r)
  BY <1>3, Zenon DEF Same
<1>4. CASE Starts(coordinator, coordinator', r)
  BY <1>4, Zenon DEF Starts
<1>5. CASE ~Same(coordinator, coordinator', r) /\ ~Starts(coordinator, coordinator', r)
  BY <1>1, <1>2, <1>5, MoveFields DEF Active
<1>. QED BY <1>3, <1>4, <1>5, Zenon

(* A reservation becomes confirmed only in the step that consumes exactly  *)
(* its proposal, at the revisions and the roster it was planned on.        *)
THEOREM ConfirmsConsumeExactly == CoordinatorSpec => ConfirmConsumesExactly
<1>1. InductiveInv /\ [CoordinatorNext]_coordinator
        => [ConsumesExactly(coordinator, coordinator')]_coordinator
  <2> SUFFICES ASSUME InductiveInv, [CoordinatorNext]_coordinator
               PROVE  ConsumesExactly(coordinator, coordinator')
    BY Zenon
  <2>1. Moves(coordinator, coordinator') BY StepMoves, Zenon
  <2>2. coordinator \in CoordinatorStruct BY Zenon DEF InductiveInv, IInv
  <2> SUFFICES ASSUME NEW r \in ReservationIds,
                      coordinator.reservations[r].status # "confirmed",
                      coordinator'.reservations[r].status = "confirmed"
               PROVE  Consumes(coordinator, coordinator',
                               coordinator.reservations[r].proposal)
    BY Zenon DEF ConsumesExactly
  <2>3. ~Same(coordinator, coordinator', r) /\ ~Starts(coordinator, coordinator', r)
    BY Zenon DEF Same, Starts
  <2>. QED BY <2>1, <2>2, <2>3, MoveFields, Zenon
<1>. QED BY <1>1, Invariance, PTL DEF CoordinatorSpec, ConfirmConsumesExactly

-----------------------------------------------------------------------------
(* What a retry meets: reservations were made of valid proposals, and      *)
(* outcomes were recorded under an operation.                              *)
Retryable(c) ==
    /\ \A r \in ReservationIds : c.reservations[r].status # "absent" =>
         ValidateProposal(c.reservations[r].proposal)
    /\ \A a \in AssignmentIds : c.assignments[a].status \in Outcomes =>
         c.assignments[a].acknowledgment.operation # NoID

(* An assignment is left alone, made, or acknowledged under an operation. *)
AssignmentMove(old, new) ==
    \/ new = old
    \/ old.status = "absent" /\ new.status = "pending"
    \/ /\ old.status = "pending"
       /\ \E request \in Acknowledgments :
            /\ request.operation # NoID
            /\ request.outcome # "absent"
            /\ new = [old EXCEPT !.status = request.outcome, !.acknowledgment = request]

(* A step leaves an assignment as it is, makes it, or settles its delivery. *)
LEMMA AssignmentMoves ==
    ASSUME InductiveInv, [CoordinatorNext]_coordinator, NEW b \in AssignmentIds
    PROVE  AssignmentMove(coordinator.assignments[b], coordinator'.assignments[b])
<1>0. /\ IInv(coordinator)
      /\ coordinator \in CoordinatorStruct
      /\ coordinator.assignments \in [AssignmentIds -> Assignment]
  BY Zenon DEF InductiveInv, IInv, CoordinatorStruct
<1>1. \A now \in Nat : /\ expireLocked(coordinator, now) \in CoordinatorStruct
                       /\ expireLocked(coordinator, now).assignments
                            = coordinator.assignments
  BY <1>0, ExpireInv, ExpireMoves, Zenon DEF IInv
<1>2. CASE UpsertMatchTicketStep
  BY <1>0, <1>2, Zenon DEF UpsertMatchTicketStep, UpsertMatchTicket, Ok, Fail,
     CoordinatorStruct, AssignmentMove
<1>3. CASE UpsertBackfillTicketStep
  BY <1>0, <1>3, Zenon DEF UpsertBackfillTicketStep, UpsertBackfillTicket, Ok, Fail,
     CoordinatorStruct, AssignmentMove
<1>4. CASE CancelMatchTicketStep
  BY <1>0, <1>4, Zenon DEF CancelMatchTicketStep, CancelMatchTicket, Ok, Fail,
     CoordinatorStruct, AssignmentMove
<1>5. CASE CancelBackfillTicketStep
  BY <1>0, <1>5, Zenon DEF CancelBackfillTicketStep, CancelBackfillTicket, Ok, Fail,
     CoordinatorStruct, AssignmentMove
<1>6. CASE SnapshotStep
  BY <1>1, <1>6, InputAssumption, Zenon DEF SnapshotStep, Snapshot, Ok, AssignmentMove
<1>7. CASE ReserveStep
  <2>1. PICK r \in ReservationIds, proposal \in Proposals, now \in Times :
          coordinator' = Reserve(coordinator, proposal, r, now).state
    BY <1>7, Zenon DEF ReserveStep
  <2>2. now \in Nat BY InputAssumption, Zenon
  <2> DEFINE c == expireLocked(coordinator, now)
  <2>3. c \in CoordinatorStruct /\ c.assignments = coordinator.assignments
    BY <1>1, <2>2, Zenon
  <2>4. Reserve(coordinator, proposal, r, now).state.assignments = coordinator.assignments
    <3>1. ASSUME NEW tickets, NEW backfills, NEW reservation
          PROVE  [c EXCEPT !.reservations[r] = reservation,
                           !.ticketReservations = tickets,
                           !.backfillReservations = backfills].assignments = c.assignments
      <4> HIDE DEF c
      <4>. QED BY <2>3, Zenon DEF CoordinatorStruct
    <3>. QED BY <2>3, <3>1, Zenon DEF Reserve, Ok, Fail
  <2>. QED BY <2>1, <2>4, Zenon DEF AssignmentMove
<1>8. CASE ConfirmStep
  <2>1. PICK r \in ReservationIds, a \in AssignmentIds, now \in Times :
          coordinator' = Confirm(coordinator, r, a, now).state
    BY <1>8, Zenon DEF ConfirmStep
  <2>2. now \in Nat BY InputAssumption, Zenon
  <2> DEFINE c == expireLocked(coordinator, now)
             assignment == [status |-> "pending", reservation |-> r,
                            proposal |-> c.reservations[r].proposal,
                            confirmedAt |-> now, acknowledgment |-> NoAcknowledgment]
  <2>3. c \in CoordinatorStruct /\ c.assignments = coordinator.assignments
    BY <1>1, <2>2, Zenon
  <2>4. \/ coordinator' = c
        \/ coordinator' = endReservations(c, {r}, "cancelled")
        \/ coordinator' = consume(c, r, a, now) /\ c.assignments[a].status = "absent"
    BY <2>1, Zenon DEF Confirm, Ok, Fail
  <2> HIDE DEF c
  <2>5. consume(c, r, a, now).assignments = [c.assignments EXCEPT ![a] = assignment]
    BY <2>3, Zenon DEF consume, CoordinatorStruct
  <2>6. endReservations(c, {r}, "cancelled").assignments = c.assignments
    BY <2>3, Zenon DEF endReservations, CoordinatorStruct
  <2>7. assignment.status = "pending" OBVIOUS
  <2> HIDE DEF assignment
  <2>8. CASE coordinator'.assignments = coordinator.assignments
    BY <2>8, Zenon DEF AssignmentMove
  <2>9. CASE coordinator'.assignments = [coordinator.assignments EXCEPT ![a] = assignment]
    <3>1. CASE b = a
      BY <1>0, <2>3, <2>4, <2>6, <2>7, <2>8, <2>9, <3>1, Zenon DEF AssignmentMove
    <3>2. CASE b # a
      BY <1>0, <2>9, <3>2, Zenon DEF AssignmentMove
    <3>. QED BY <3>1, <3>2, Zenon
  <2>. QED BY <2>3, <2>4, <2>5, <2>6, <2>8, <2>9, Zenon
<1>9. CASE AcknowledgeStep
  <2>1. PICK a \in AssignmentIds, request \in Acknowledgments :
          coordinator' = AcknowledgeAssignment(coordinator, a, request).state
    BY <1>9, Zenon DEF AcknowledgeStep
  <2> DEFINE new == [coordinator.assignments[a] EXCEPT !.status = request.outcome,
                                                       !.acknowledgment = request]
  <2>2. \/ coordinator' = coordinator
        \/ /\ coordinator' = [coordinator EXCEPT !.assignments[a] = new]
           /\ request.operation # NoID
           /\ coordinator.assignments[a].status = "pending"
    BY <2>1, Zenon DEF AcknowledgeAssignment, Ok, Fail
  <2>3. [coordinator EXCEPT !.assignments[a] = new].assignments
          = [coordinator.assignments EXCEPT ![a] = new]
    BY <1>0, Zenon DEF CoordinatorStruct
  <2>4. request.outcome # "absent"
    BY InputAssumption, Zenon DEF AcknowledgmentRequest, Outcomes
  <2>5. CASE b = a
    BY <1>0, <2>2, <2>3, <2>4, <2>5, Zenon DEF AssignmentMove
  <2>6. CASE b # a
    BY <1>0, <2>2, <2>3, <2>6, Zenon DEF AssignmentMove
  <2>. QED BY <2>5, <2>6, Zenon
<1>10. CASE CancelStep
  <2>1. PICK r \in ReservationIds, now \in Times :
          coordinator' = Cancel(coordinator, r, now).state
    BY <1>10, Zenon DEF CancelStep
  <2>2. now \in Nat BY InputAssumption, Zenon
  <2> DEFINE c == expireLocked(coordinator, now)
  <2>3. c \in CoordinatorStruct /\ c.assignments = coordinator.assignments
    BY <1>1, <2>2, Zenon
  <2>4. coordinator' = c \/ coordinator' = endReservations(c, {r}, "cancelled")
    BY <2>1, Zenon DEF Cancel, Ok, Fail
  <2> HIDE DEF c
  <2>5. endReservations(c, {r}, "cancelled").assignments = c.assignments
    BY <2>3, Zenon DEF endReservations, CoordinatorStruct
  <2>. QED BY <2>3, <2>4, <2>5, Zenon DEF AssignmentMove
<1>11. CASE UNCHANGED coordinator
  BY <1>11, Zenon DEF AssignmentMove
<1>. QED BY <1>2, <1>3, <1>4, <1>5, <1>6, <1>7, <1>8, <1>9, <1>10, <1>11, Zenon DEF CoordinatorNext

(* A reservation never leaves a final status, and its proposal and expiry  *)
(* are fixed when it is made; an assignment keeps what Confirm put into it *)
(* and its first acknowledgment.                                           *)
THEOREM LifecyclesAreOneWay == CoordinatorSpec => LifecycleOneWay
<1>1. InductiveInv /\ [CoordinatorNext]_coordinator
        => [OneWay(coordinator, coordinator') /\ Fixed(coordinator, coordinator')]_coordinator
  <2> SUFFICES ASSUME InductiveInv, [CoordinatorNext]_coordinator
               PROVE  OneWay(coordinator, coordinator') /\ Fixed(coordinator, coordinator')
    BY Zenon
  <2>1. OneWay(coordinator, coordinator') BY StepOneWay, Zenon
  <2>2. ASSUME NEW a \in AssignmentIds
        PROVE  LET old == coordinator.assignments[a]
                   new == coordinator'.assignments[a]
               IN /\ old.status # "absent" => /\ new.status # "absent"
                                              /\ new.reservation = old.reservation
                                              /\ new.proposal = old.proposal
                                              /\ new.confirmedAt = old.confirmedAt
                  /\ old.status \in Outcomes => new = old
    <3>1. coordinator.assignments[a] \in Assignment
      BY Zenon DEF InductiveInv, IInv, CoordinatorStruct
    <3>2. AssignmentMove(coordinator.assignments[a], coordinator'.assignments[a])
      BY AssignmentMoves, Zenon
    <3>. QED BY <3>1, <3>2 DEF AssignmentMove, Assignment, Outcomes
  <2>. QED BY <2>1, <2>2, Zenon DEF Fixed
<1>. QED BY <1>1, Invariance, PTL DEF CoordinatorSpec, LifecycleOneWay

(* What a retry relies on holds in every reachable state. *)
LEMMA RetryInvariance == CoordinatorSpec => []Retryable(coordinator)
<1>1. CoordinatorInit => Retryable(coordinator)
  BY DEF CoordinatorInit, New, Retryable, NoReservation, NoAssignment, Outcomes
<1>2. InductiveInv /\ Retryable(coordinator) /\ [CoordinatorNext]_coordinator
        => Retryable(coordinator)'
  <2> SUFFICES ASSUME InductiveInv, Retryable(coordinator), [CoordinatorNext]_coordinator
               PROVE  Retryable(coordinator')
    BY Zenon
  <2>1. Moves(coordinator, coordinator') BY StepMoves, Zenon
  <2>2. coordinator \in CoordinatorStruct BY Zenon DEF InductiveInv, IInv
  <2>3. ASSUME NEW r \in ReservationIds, coordinator'.reservations[r].status # "absent"
        PROVE  ValidateProposal(coordinator'.reservations[r].proposal)
    <3>1. CASE Same(coordinator, coordinator', r)
      BY <2>3, <3>1, Zenon DEF Same, Retryable
    <3>2. CASE Starts(coordinator, coordinator', r)
      BY <3>2, Zenon DEF Starts
    <3>3. CASE ~Same(coordinator, coordinator', r) /\ ~Starts(coordinator, coordinator', r)
      <4>1. /\ Active(coordinator, r)
            /\ coordinator'.reservations[r].proposal = coordinator.reservations[r].proposal
        BY <2>1, <2>2, <3>3, MoveFields, Zenon
      <4>. QED BY <4>1, Zenon DEF Active, Retryable
    <3>. QED BY <3>1, <3>2, <3>3, Zenon
  <2>4. ASSUME NEW a \in AssignmentIds, coordinator'.assignments[a].status \in Outcomes
        PROVE  coordinator'.assignments[a].acknowledgment.operation # NoID
    <3>1. coordinator'.assignments[a].status # "pending" BY <2>4, Zenon DEF Outcomes
    <3>2. coordinator.assignments[a] \in Assignment
      BY Zenon DEF InductiveInv, IInv, CoordinatorStruct
    <3>3. AssignmentMove(coordinator.assignments[a], coordinator'.assignments[a])
      BY AssignmentMoves, Zenon
    <3>4. CASE coordinator'.assignments[a] = coordinator.assignments[a]
      BY <2>4, <3>4, Zenon DEF Retryable
    <3>5. CASE coordinator'.assignments[a] # coordinator.assignments[a]
      BY <3>1, <3>2, <3>3, <3>5 DEF AssignmentMove, Assignment
    <3>. QED BY <3>4, <3>5, Zenon
  <2>. QED BY <2>3, <2>4, Zenon DEF Retryable
<1>. QED BY <1>1, <1>2, Invariance, PTL DEF CoordinatorSpec

(* A call that succeeded may be sent again at any time and with any clock: *)
(* Confirm, Cancel and AcknowledgeAssignment succeed again; Reserve does   *)
(* exactly while its reservation is active or confirmed, and is refused    *)
(* after its cancellation or expiry.  None of them changes anything but by *)
(* expiry.                                                                 *)
THEOREM RetriesAreIdempotent == CoordinatorSpec => []RetriesIdempotent
<1>1. InductiveInv /\ Retryable(coordinator) => RetriesIdempotent
  <2> SUFFICES ASSUME InductiveInv, Retryable(coordinator)
               PROVE  Idempotent(coordinator)
    BY Zenon DEF RetriesIdempotent
  <2> DEFINE c == coordinator
  <2>1. c \in CoordinatorStruct BY Zenon DEF InductiveInv, IInv
  <2>2. ASSUME NEW r \in ReservationIds, NEW now \in Times, ~Active(c, r)
        PROVE  expireLocked(c, now).reservations[r] = c.reservations[r]
    <3>1. now \in Nat BY InputAssumption, Zenon
    <3>. QED BY <2>1, <2>2, <3>1, ExpireMoves, Zenon DEF Same, Ends
  <2>3. ASSUME NEW r \in ReservationIds, NEW now \in Times,
               c.reservations[r].status = "confirmed"
        PROVE  Confirm(c, r, c.reservations[r].assignment, now)
                 = Ok(expireLocked(c, now))
    <3>1. expireLocked(c, now).reservations[r] = c.reservations[r]
      BY <2>2, <2>3, Zenon DEF Active
    <3>. QED BY <2>3, <3>1, Zenon DEF Confirm
  <2>4. ASSUME NEW r \in ReservationIds, NEW now \in Times,
               c.reservations[r].status = "cancelled"
        PROVE  Cancel(c, r, now) = Ok(expireLocked(c, now))
    <3>1. expireLocked(c, now).reservations[r] = c.reservations[r]
      BY <2>2, <2>4, Zenon DEF Active
    <3>. QED BY <2>4, <3>1, Zenon DEF Cancel
  <2>5. ASSUME NEW a \in AssignmentIds, c.assignments[a].status \in Outcomes
        PROVE  AcknowledgeAssignment(c, a, c.assignments[a].acknowledgment) = Ok(c)
    BY <2>5, Zenon DEF Retryable, AcknowledgeAssignment, Outcomes
  <2>6. ASSUME NEW r \in ReservationIds, NEW now \in Times,
               c.reservations[r].status # "absent"
        PROVE  LET again == Reserve(c, c.reservations[r].proposal, r, now)
               IN /\ again.state = expireLocked(c, now)
                  /\ again.failure = "none" <=> Stands(c.reservations[r], now)
    <3> DEFINE e == expireLocked(c, now)
    <3>1. ValidateProposal(c.reservations[r].proposal)
      BY <2>6, Zenon DEF Retryable
    <3>2. /\ e.reservations[r].proposal = c.reservations[r].proposal
          /\ e.reservations[r].status \in ReservationStatuses
          /\ e.reservations[r].status \in {"active", "confirmed"}
               <=> Stands(c.reservations[r], now)
      <4>1. c.reservations[r] \in ReservationRecord /\ now \in Nat
        BY <2>1, InputAssumption, Zenon DEF CoordinatorStruct
      <4>2. e.reservations[r] = IF r \in Due(c, now)
                                THEN [c.reservations[r] EXCEPT !.status = "expired"]
                                ELSE c.reservations[r]
        BY <2>1, Zenon DEF expireLocked, endReservations, CoordinatorStruct
      <4>3. r \in Due(c, now) <=> /\ c.reservations[r].status = "active"
                                  /\ ~(now < c.reservations[r].expiresAt)
        BY <4>1 DEF Due, ReservationRecord
      <4> HIDE DEF e
      <4>. QED BY <2>6, <4>1, <4>2, <4>3 DEF Stands, ReservationRecord, ReservationStatuses
    <3> HIDE DEF e
    <3>3. Reserve(c, c.reservations[r].proposal, r, now)
            = IF e.reservations[r].status \in {"active", "confirmed"} THEN Ok(e)
              ELSE IF e.reservations[r].status = "expired" THEN Fail(e, "ReservationExpired")
              ELSE Fail(e, "InvalidTransition")
      BY <3>1, <3>2, Zenon DEF Reserve, ReservationStatuses, e
    <3>. QED BY <3>2, <3>3 DEF Ok, Fail, e
  <2>. QED BY <2>3, <2>4, <2>5, <2>6, Zenon DEF Idempotent
<1>. QED BY <1>1, Invariance, RetryInvariance, PTL

-----------------------------------------------------------------------------
(* The coordinator that a replay of a journal gives, beside the live one. *)

(* A reservation of the replay beside the live one; U are the reservations *)
(* that refused calls have cancelled.                                      *)
Lag(r, is, was, U) ==
    /\ is.proposal = was.proposal
    /\ is.expiresAt = was.expiresAt
    /\ is.assignment = was.assignment
    /\ \/ is.status = was.status
       \/ is.status = "active" /\ was.status = "expired"
       \/ /\ r \in U
          /\ was.status = "cancelled"
          /\ is.status \in {"active", "expired"}

SameDemand(c, d) ==
    /\ c.matchTickets = d.matchTickets
    /\ c.backfillTickets = d.backfillTickets
    /\ c.playerTickets = d.playerTickets
    /\ c.assignments = d.assignments

Lags(c, d, U) ==
    /\ SameDemand(c, d)
    /\ \A r \in ReservationIds : Lag(r, c.reservations[r], d.reservations[r], U)

(* Records with equal fields are equal. *)
LEMMA SameReservation ==
    ASSUME NEW is \in ReservationRecord, NEW was \in ReservationRecord,
           is.status = was.status, is.proposal = was.proposal,
           is.expiresAt = was.expiresAt, is.assignment = was.assignment
    PROVE  is = was
BY DEF ReservationRecord

(* The fields of the struct are all there is of it. *)
LEMMA SameStruct ==
    ASSUME NEW c \in CoordinatorStruct, NEW d \in CoordinatorStruct,
           SameDemand(c, d), c.reservations = d.reservations,
           c.ticketReservations = d.ticketReservations,
           c.backfillReservations = d.backfillReservations
    PROVE  c = d
BY DEF CoordinatorStruct, SameDemand

(* What expiry does to a struct, field by field. *)
LEMMA ExpireFields ==
    ASSUME NEW c \in CoordinatorStruct, NEW now \in Nat
    PROVE  LET e == expireLocked(c, now) IN
           /\ SameDemand(e, c)
           /\ e.reservations \in [ReservationIds -> ReservationRecord]
           /\ \A r \in ReservationIds :
                /\ e.reservations[r].proposal = c.reservations[r].proposal
                /\ e.reservations[r].expiresAt = c.reservations[r].expiresAt
                /\ e.reservations[r].assignment = c.reservations[r].assignment
                /\ e.reservations[r].status =
                     IF c.reservations[r].status = "active" /\ now >= c.reservations[r].expiresAt
                     THEN "expired" ELSE c.reservations[r].status
<1> DEFINE e == expireLocked(c, now)
<1>1. /\ SameDemand(e, c)
      /\ e.reservations = [r \in ReservationIds |->
           IF r \in Due(c, now) THEN [c.reservations[r] EXCEPT !.status = "expired"]
                                ELSE c.reservations[r]]
  BY EndFields DEF expireLocked, SameDemand
<1> HIDE DEF e
<1>2. ASSUME NEW r \in ReservationIds
      PROVE  /\ e.reservations[r] \in ReservationRecord
             /\ e.reservations[r].proposal = c.reservations[r].proposal
             /\ e.reservations[r].expiresAt = c.reservations[r].expiresAt
             /\ e.reservations[r].assignment = c.reservations[r].assignment
             /\ e.reservations[r].status =
                  IF c.reservations[r].status = "active" /\ now >= c.reservations[r].expiresAt
                  THEN "expired" ELSE c.reservations[r].status
  <2>1. c.reservations[r] \in ReservationRecord BY Zenon DEF CoordinatorStruct
  <2>2. r \in Due(c, now) <=> /\ c.reservations[r].status = "active"
                              /\ now >= c.reservations[r].expiresAt
    BY Zenon DEF Due
  <2>3. CASE r \in Due(c, now)
    <3>1. e.reservations[r] = [c.reservations[r] EXCEPT !.status = "expired"]
      BY <1>1, <2>3, Zenon
    <3>2. "expired" \in ReservationStatuses BY Zenon DEF ReservationStatuses
    <3> QED BY <2>1, <2>2, <2>3, <3>1, <3>2, StatusFields
  <2>4. CASE r \notin Due(c, now)
    <3>1. e.reservations[r] = c.reservations[r]
      BY <1>1, <2>4, Zenon
    <3> QED BY <2>1, <2>2, <2>4, <3>1, Zenon
  <2> QED BY <2>3, <2>4, Zenon
<1>3. e.reservations \in [ReservationIds -> ReservationRecord]
  BY <1>1, <1>2, Zenon
<1> QED BY <1>1, <1>2, <1>3, Zenon DEF e

(* expireLocked keeps the types. *)
LEMMA ExpireTyped ==
    ASSUME NEW c \in CoordinatorStruct, NEW now \in Nat
    PROVE  expireLocked(c, now) \in CoordinatorStruct
<1> DEFINE e == expireLocked(c, now)
<1>1. e.reservations \in [ReservationIds -> ReservationRecord]
  BY ExpireFields, Zenon
<1>2. /\ releaseTickets(c, Due(c, now)) \in [TicketIds -> ReservationIds \cup {NoID}]
      /\ releaseBackfills(c, Due(c, now)) \in [TicketIds -> ReservationIds \cup {NoID}]
  BY Zenon DEF releaseTickets, releaseBackfills, CoordinatorStruct
<1>3. e = [c EXCEPT !.ticketReservations = releaseTickets(c, Due(c, now)),
                    !.backfillReservations = releaseBackfills(c, Due(c, now)),
                    !.reservations = e.reservations]
  BY EndFields, Zenon DEF expireLocked, endReservations, CoordinatorStruct
<1> HIDE DEF e
<1> QED BY <1>1, <1>2, <1>3, Zenon DEF CoordinatorStruct, e

(* Expiry, on both sides or on the live side alone, leaves the replay      *)
(* behind.                                                                 *)
LEMMA ExpireLags ==
    ASSUME NEW c \in CoordinatorStruct, NEW d \in CoordinatorStruct, NEW U,
           Lags(c, d, U), NEW now \in Nat
    PROVE  /\ Lags(expireLocked(c, now), expireLocked(d, now), U)
           /\ Lags(c, expireLocked(d, now), U)
<1> DEFINE x == expireLocked(c, now)
           y == expireLocked(d, now)
<1>1. /\ SameDemand(x, c)
      /\ \A r \in ReservationIds :
           /\ x.reservations[r].proposal = c.reservations[r].proposal
           /\ x.reservations[r].expiresAt = c.reservations[r].expiresAt
           /\ x.reservations[r].assignment = c.reservations[r].assignment
           /\ x.reservations[r].status =
                IF c.reservations[r].status = "active" /\ now >= c.reservations[r].expiresAt
                THEN "expired" ELSE c.reservations[r].status
  BY ExpireFields, Zenon
<1>2. /\ SameDemand(y, d)
      /\ \A r \in ReservationIds :
           /\ y.reservations[r].proposal = d.reservations[r].proposal
           /\ y.reservations[r].expiresAt = d.reservations[r].expiresAt
           /\ y.reservations[r].assignment = d.reservations[r].assignment
           /\ y.reservations[r].status =
                IF d.reservations[r].status = "active" /\ now >= d.reservations[r].expiresAt
                THEN "expired" ELSE d.reservations[r].status
  BY ExpireFields, Zenon
<1> HIDE DEF x, y
<1>3. SameDemand(x, y) /\ SameDemand(c, y)
  BY <1>1, <1>2, Zenon DEF Lags, SameDemand
<1>4. ASSUME NEW r \in ReservationIds
      PROVE  /\ Lag(r, x.reservations[r], y.reservations[r], U)
             /\ Lag(r, c.reservations[r], y.reservations[r], U)
  <2>1. Lag(r, c.reservations[r], d.reservations[r], U)
    BY Zenon DEF Lags
  <2> QED BY <1>1, <1>2, <2>1, Zenon DEF Lag
<1> QED BY <1>3, <1>4, Zenon DEF Lags, x, y

(* A replay that knows of every cancellation catches up with the live      *)
(* coordinator at a time that is not before any expiry already made.       *)
LEMMA CaughtUp ==
    ASSUME NEW c, IInv(c), NEW d, IInv(d), Lags(c, d, {}), NEW now \in Nat,
           \A r \in ReservationIds : d.reservations[r].status = "expired" =>
                                       now >= d.reservations[r].expiresAt
    PROVE  expireLocked(c, now) = expireLocked(d, now)
<1> DEFINE x == expireLocked(c, now)
           y == expireLocked(d, now)
<1>0. c \in CoordinatorStruct /\ d \in CoordinatorStruct
  BY Zenon DEF IInv
<1>1. /\ SameDemand(x, c)
      /\ x.reservations \in [ReservationIds -> ReservationRecord]
      /\ \A r \in ReservationIds :
           /\ x.reservations[r].proposal = c.reservations[r].proposal
           /\ x.reservations[r].expiresAt = c.reservations[r].expiresAt
           /\ x.reservations[r].assignment = c.reservations[r].assignment
           /\ x.reservations[r].status =
                IF c.reservations[r].status = "active" /\ now >= c.reservations[r].expiresAt
                THEN "expired" ELSE c.reservations[r].status
  BY <1>0, ExpireFields, Zenon
<1>2. /\ SameDemand(y, d)
      /\ y.reservations \in [ReservationIds -> ReservationRecord]
      /\ \A r \in ReservationIds :
           /\ y.reservations[r].proposal = d.reservations[r].proposal
           /\ y.reservations[r].expiresAt = d.reservations[r].expiresAt
           /\ y.reservations[r].assignment = d.reservations[r].assignment
           /\ y.reservations[r].status =
                IF d.reservations[r].status = "active" /\ now >= d.reservations[r].expiresAt
                THEN "expired" ELSE d.reservations[r].status
  BY <1>0, ExpireFields, Zenon
<1>3. IInv(x) /\ IInv(y)
  BY ExpireInv, Zenon
<1> HIDE DEF x, y
<1>4. SameDemand(x, y)
  BY <1>1, <1>2, Zenon DEF Lags, SameDemand
<1>5. ASSUME NEW r \in ReservationIds PROVE x.reservations[r] = y.reservations[r]
  <2>1. Lag(r, c.reservations[r], d.reservations[r], {})
    BY Zenon DEF Lags
  <2>2. /\ x.reservations[r].proposal = y.reservations[r].proposal
        /\ x.reservations[r].expiresAt = y.reservations[r].expiresAt
        /\ x.reservations[r].assignment = y.reservations[r].assignment
    BY <1>1, <1>2, <2>1, Zenon DEF Lag
  <2>3. x.reservations[r].status = y.reservations[r].status
    BY <1>1, <1>2, <2>1 DEF Lag
  <2>4. x.reservations[r] \in ReservationRecord /\ y.reservations[r] \in ReservationRecord
    BY <1>1, <1>2, Zenon
  <2> QED BY <2>2, <2>3, <2>4, SameReservation, Zenon
<1>6. x.reservations = y.reservations
  BY <1>1, <1>2, <1>5
<1>7. /\ x \in CoordinatorStruct /\ IndexExact(x)
      /\ y \in CoordinatorStruct /\ IndexExact(y)
  BY <1>3, Zenon DEF IInv
<1>8. /\ x.ticketReservations \in [TicketIds -> ReservationIds \cup {NoID}]
      /\ x.backfillReservations \in [TicketIds -> ReservationIds \cup {NoID}]
      /\ y.ticketReservations \in [TicketIds -> ReservationIds \cup {NoID}]
      /\ y.backfillReservations \in [TicketIds -> ReservationIds \cup {NoID}]
  BY <1>7, Zenon DEF CoordinatorStruct
<1>9. ASSUME NEW t \in TicketIds, NEW r \in ReservationIds
      PROVE  /\ x.ticketReservations[t] = r <=> y.ticketReservations[t] = r
             /\ x.backfillReservations[t] = r <=> y.backfillReservations[t] = r
  <2>1. /\ x.ticketReservations[t] = r
             <=> Active(x, r) /\ t \in Supply(x.reservations[r].proposal)
        /\ x.backfillReservations[t] = r
             <=> Active(x, r) /\ t = x.reservations[r].proposal.backfill.ticket
        /\ y.ticketReservations[t] = r
             <=> Active(y, r) /\ t \in Supply(y.reservations[r].proposal)
        /\ y.backfillReservations[t] = r
             <=> Active(y, r) /\ t = y.reservations[r].proposal.backfill.ticket
    BY <1>7 DEF IndexExact
  <2>2. x.reservations[r] = y.reservations[r]
    BY <1>5, Zenon
  <2>3. Active(x, r) <=> Active(y, r)
    BY <2>2, Zenon DEF Active
  <2> QED BY <2>1, <2>2, <2>3, Zenon
<1>10. ASSUME NEW t \in TicketIds
       PROVE  /\ x.ticketReservations[t] = y.ticketReservations[t]
              /\ x.backfillReservations[t] = y.backfillReservations[t]
  <2>1. /\ x.ticketReservations[t] \in ReservationIds \cup {NoID}
        /\ y.ticketReservations[t] \in ReservationIds \cup {NoID}
        /\ x.backfillReservations[t] \in ReservationIds \cup {NoID}
        /\ y.backfillReservations[t] \in ReservationIds \cup {NoID}
    BY <1>8, Zenon
  <2> QED BY <1>9, <2>1, Zenon
<1>11. /\ x.ticketReservations = y.ticketReservations
       /\ x.backfillReservations = y.backfillReservations
  BY <1>8, <1>10
<1> QED BY <1>4, <1>6, <1>7, <1>11, SameStruct, Zenon DEF x, y

(* What the calls on tickets and assignments answer and do depends on the  *)
(* demand alone, and they leave the reservations as they are.              *)
LEMMA UpsertMatchAlike ==
    ASSUME NEW c \in CoordinatorStruct, NEW d \in CoordinatorStruct, SameDemand(c, d),
           NEW id \in TicketIds, NEW ticket \in MatchTicket
    PROVE  LET x == UpsertMatchTicket(c, id, ticket)
               y == UpsertMatchTicket(d, id, ticket)
           IN /\ x.failure = y.failure
              /\ SameDemand(x.state, y.state)
              /\ x.state.reservations = c.reservations
              /\ y.failure # "none" => y.state = d
<1> DEFINE x == UpsertMatchTicket(c, id, ticket)
           y == UpsertMatchTicket(d, id, ticket)
           released(b) == releasePlayerOwnershipLocked(b, {id})
           change(b) == [b EXCEPT !.matchTickets[id] = ticket,
                                  !.playerTickets = [p \in PlayerIds |->
                                     IF p \in ticket.players THEN id ELSE released(b)[p]]]
<1>1. /\ c.matchTickets = d.matchTickets
      /\ c.backfillTickets = d.backfillTickets
      /\ c.playerTickets = d.playerTickets
  BY Zenon DEF SameDemand
<1>2. /\ released(c) = released(d)
      /\ duplicatedPlayerLocked(c, id, ticket) <=> duplicatedPlayerLocked(d, id, ticket)
  BY <1>1, Zenon DEF releasePlayerOwnershipLocked, duplicatedPlayerLocked
<1>3. \/ x = Ok(c) /\ y = Ok(d)
      \/ x = Fail(c, "InvalidInput") /\ y = Fail(d, "InvalidInput")
      \/ x = Fail(c, "InvalidRevision") /\ y = Fail(d, "InvalidRevision")
      \/ x = Ok(change(c)) /\ y = Ok(change(d))
  BY <1>1, <1>2, Zenon DEF UpsertMatchTicket
<1>4. SameDemand(change(c), change(d)) /\ change(c).reservations = c.reservations
  BY <1>1, <1>2, Zenon DEF SameDemand, CoordinatorStruct
<1> HIDE DEF x, y, change
<1> QED BY <1>3, <1>4 DEF Ok, Fail, x, y

(* Submitting a backfill ticket does not look at reservations. *)
LEMMA UpsertBackfillAlike ==
    ASSUME NEW c \in CoordinatorStruct, NEW d \in CoordinatorStruct, SameDemand(c, d),
           NEW id \in TicketIds, NEW ticket \in BackfillTicket
    PROVE  LET x == UpsertBackfillTicket(c, id, ticket)
               y == UpsertBackfillTicket(d, id, ticket)
           IN /\ x.failure = y.failure
              /\ SameDemand(x.state, y.state)
              /\ x.state.reservations = c.reservations
              /\ y.failure # "none" => y.state = d
<1> DEFINE x == UpsertBackfillTicket(c, id, ticket)
           y == UpsertBackfillTicket(d, id, ticket)
           change(b) == [b EXCEPT !.backfillTickets[id] = ticket]
<1>1. c.matchTickets = d.matchTickets /\ c.backfillTickets = d.backfillTickets
  BY Zenon DEF SameDemand
<1>2. \/ x = Ok(c) /\ y = Ok(d)
      \/ x = Fail(c, "InvalidInput") /\ y = Fail(d, "InvalidInput")
      \/ x = Fail(c, "InvalidRevision") /\ y = Fail(d, "InvalidRevision")
      \/ x = Ok(change(c)) /\ y = Ok(change(d))
  BY <1>1, Zenon DEF UpsertBackfillTicket
<1>3. SameDemand(change(c), change(d)) /\ change(c).reservations = c.reservations
  BY Zenon DEF SameDemand, CoordinatorStruct
<1> HIDE DEF x, y, change
<1> QED BY <1>2, <1>3 DEF Ok, Fail, x, y

(* Cancelling a match ticket does not look at reservations. *)
LEMMA CancelMatchAlike ==
    ASSUME NEW c \in CoordinatorStruct, NEW d \in CoordinatorStruct, SameDemand(c, d),
           NEW id \in TicketIds, NEW revision
    PROVE  LET x == CancelMatchTicket(c, id, revision)
               y == CancelMatchTicket(d, id, revision)
           IN /\ x.failure = y.failure
              /\ SameDemand(x.state, y.state)
              /\ x.state.reservations = c.reservations
              /\ y.failure # "none" => y.state = d
<1> DEFINE x == CancelMatchTicket(c, id, revision)
           y == CancelMatchTicket(d, id, revision)
           change(b) == [b EXCEPT
                           !.playerTickets = releasePlayerOwnershipLocked(b, {id}),
                           !.matchTickets[id] = NoMatchTicket]
<1>1. c.matchTickets = d.matchTickets /\ c.playerTickets = d.playerTickets
  BY Zenon DEF SameDemand
<1>2. releasePlayerOwnershipLocked(c, {id}) = releasePlayerOwnershipLocked(d, {id})
  BY <1>1, Zenon DEF releasePlayerOwnershipLocked
<1>3. \/ x = Fail(c, "StaleSnapshot") /\ y = Fail(d, "StaleSnapshot")
      \/ x = Ok(change(c)) /\ y = Ok(change(d))
  BY <1>1, Zenon DEF CancelMatchTicket
<1>4. SameDemand(change(c), change(d)) /\ change(c).reservations = c.reservations
  BY <1>2, Zenon DEF SameDemand, CoordinatorStruct
<1> HIDE DEF x, y, change
<1> QED BY <1>3, <1>4 DEF Ok, Fail, x, y

(* Cancelling a backfill ticket does not look at reservations. *)
LEMMA CancelBackfillAlike ==
    ASSUME NEW c \in CoordinatorStruct, NEW d \in CoordinatorStruct, SameDemand(c, d),
           NEW id \in TicketIds, NEW revision, NEW rosterVersion
    PROVE  LET x == CancelBackfillTicket(c, id, revision, rosterVersion)
               y == CancelBackfillTicket(d, id, revision, rosterVersion)
           IN /\ x.failure = y.failure
              /\ SameDemand(x.state, y.state)
              /\ x.state.reservations = c.reservations
              /\ y.failure # "none" => y.state = d
<1> DEFINE x == CancelBackfillTicket(c, id, revision, rosterVersion)
           y == CancelBackfillTicket(d, id, revision, rosterVersion)
           change(b) == [b EXCEPT !.backfillTickets[id] = NoBackfillTicket]
<1>1. c.backfillTickets = d.backfillTickets
  BY Zenon DEF SameDemand
<1>2. \/ x = Fail(c, "StaleSnapshot") /\ y = Fail(d, "StaleSnapshot")
      \/ x = Ok(change(c)) /\ y = Ok(change(d))
  BY <1>1, Zenon DEF CancelBackfillTicket
<1>3. SameDemand(change(c), change(d)) /\ change(c).reservations = c.reservations
  BY Zenon DEF SameDemand, CoordinatorStruct
<1> HIDE DEF x, y, change
<1> QED BY <1>2, <1>3 DEF Ok, Fail, x, y

(* An acknowledgment does not look at reservations. *)
LEMMA AcknowledgeAlike ==
    ASSUME NEW c \in CoordinatorStruct, NEW d \in CoordinatorStruct, SameDemand(c, d),
           NEW a \in AssignmentIds, NEW request
    PROVE  LET x == AcknowledgeAssignment(c, a, request)
               y == AcknowledgeAssignment(d, a, request)
           IN /\ x.failure = y.failure
              /\ SameDemand(x.state, y.state)
              /\ x.state.reservations = c.reservations
              /\ y.failure # "none" => y.state = d
<1> DEFINE x == AcknowledgeAssignment(c, a, request)
           y == AcknowledgeAssignment(d, a, request)
           change(b) == [b EXCEPT !.assignments[a] =
                           [b.assignments[a] EXCEPT !.status = request.outcome,
                                                    !.acknowledgment = request]]
           failure == ValidateAssignmentAcknowledgment(d.assignments[a].proposal, request)
<1>1. c.assignments = d.assignments
  BY Zenon DEF SameDemand
<1>2. \/ x = Ok(c) /\ y = Ok(d)
      \/ x = Fail(c, "InvalidInput") /\ y = Fail(d, "InvalidInput")
      \/ x = Fail(c, "InvalidTransition") /\ y = Fail(d, "InvalidTransition")
      \/ x = Fail(c, "IdempotencyConflict") /\ y = Fail(d, "IdempotencyConflict")
      \/ failure # "none" /\ x = Fail(c, failure) /\ y = Fail(d, failure)
      \/ x = Ok(change(c)) /\ y = Ok(change(d))
  BY <1>1, Zenon DEF AcknowledgeAssignment
<1>3. SameDemand(change(c), change(d)) /\ change(c).reservations = c.reservations
  BY Zenon DEF SameDemand, CoordinatorStruct
<1> HIDE DEF x, y, change, failure
<1> QED BY <1>2, <1>3 DEF Ok, Fail, x, y

(* More refused cancellations explain more. *)
LEMMA LagsMore ==
    ASSUME NEW c, NEW d, NEW U, NEW V, Lags(c, d, U), U \subseteq V
    PROVE  Lags(c, d, V)
BY Zenon DEF Lags, Lag

(* What ending one reservation does to a struct. *)
LEMMA CancelledFields ==
    ASSUME NEW c \in CoordinatorStruct, NEW r \in ReservationIds
    PROVE  LET e == endReservations(c, {r}, "cancelled") IN
           /\ SameDemand(e, c)
           /\ \A q \in ReservationIds : q # r => e.reservations[q] = c.reservations[q]
           /\ e.reservations[r].status = "cancelled"
           /\ e.reservations[r].proposal = c.reservations[r].proposal
           /\ e.reservations[r].expiresAt = c.reservations[r].expiresAt
           /\ e.reservations[r].assignment = c.reservations[r].assignment
<1> DEFINE e == endReservations(c, {r}, "cancelled")
<1>1. /\ SameDemand(e, c)
      /\ e.reservations = [q \in ReservationIds |->
           IF q \in {r} THEN [c.reservations[q] EXCEPT !.status = "cancelled"]
                        ELSE c.reservations[q]]
  BY EndFields DEF SameDemand
<1> HIDE DEF e
<1>2. \A q \in ReservationIds : q # r => e.reservations[q] = c.reservations[q]
  BY <1>1, Zenon
<1>3. e.reservations[r] = [c.reservations[r] EXCEPT !.status = "cancelled"]
  BY <1>1, Zenon
<1>4. c.reservations[r] \in ReservationRecord /\ "cancelled" \in ReservationStatuses
  BY Zenon DEF CoordinatorStruct, ReservationStatuses
<1>5. /\ e.reservations[r].status = "cancelled"
      /\ e.reservations[r].proposal = c.reservations[r].proposal
      /\ e.reservations[r].expiresAt = c.reservations[r].expiresAt
      /\ e.reservations[r].assignment = c.reservations[r].assignment
  BY <1>3, <1>4, StatusFields
<1> QED BY <1>1, <1>2, <1>5, Zenon DEF e

-----------------------------------------------------------------------------
(* The calls that carry a time. *)

(* The success path of Reserve. *)
Reserved(c, proposal, r, now) ==
    [c EXCEPT
       !.reservations[r] = [status |-> "active", proposal |-> proposal,
                            expiresAt |-> now + TTL, assignment |-> NoID],
       !.ticketReservations = [t \in TicketIds |->
           IF t \in Supply(proposal) THEN r ELSE c.ticketReservations[t]],
       !.backfillReservations = [t \in TicketIds |->
           IF t = proposal.backfill.ticket THEN r ELSE c.backfillReservations[t]]]

(* How the three calls end, after expiry. *)
LEMMA ReserveEnds ==
    ASSUME NEW c, NEW proposal, NEW r, NEW now,
           expireLocked(c, now).reservations[r].status \in ReservationStatuses \cup {"absent"}
    PROVE  LET x == Reserve(c, proposal, r, now)
               b == expireLocked(c, now)
               ended == b.reservations[r].status
           IN /\ x.failure = "none" =>
                   \/ ended \in {"active", "confirmed"} /\ x.state = b
                   \/ ended = "absent" /\ x.state = Reserved(b, proposal, r, now)
              /\ x.failure # "none" => x.state \in {c, b}
<1> DEFINE x == Reserve(c, proposal, r, now)
           b == expireLocked(c, now)
           ended == b.reservations[r].status
<1>1. \/ x = Fail(c, "InvalidInput")
      \/ x = Fail(b, "IdempotencyConflict")
      \/ x = Fail(b, "ReservationExpired")
      \/ x = Fail(b, "InvalidTransition")
      \/ x = Fail(b, "StaleSnapshot")
      \/ x = Fail(b, "ReservationConflict")
      \/ ended \in {"active", "confirmed"} /\ x = Ok(b)
      \/ ended = "absent" /\ x = Ok(Reserved(b, proposal, r, now))
  BY Zenon DEF Reserve, Reserved, ReservationStatuses
<1> HIDE DEF x, b
<1> QED BY <1>1 DEF Ok, Fail, x, b

Confirmed(d, b, r, a, now) ==
    LET ended == b.reservations[r].status IN
    \/ ended = "confirmed" /\ d = b
    \/ ended = "active" /\ b.assignments[a].status # "absent" /\ d = b
    \/ ended = "active" /\ b.assignments[a].status = "absent" /\ d = consume(b, r, a, now)

(* What a Confirm leaves: the confirmed reservation, or, when it refuses,  *)
(* the expiries and perhaps the cancellation of the stale reservation.     *)
LEMMA ConfirmEnds ==
    ASSUME NEW c, NEW r, NEW a, NEW now,
           expireLocked(c, now).reservations[r].status \in ReservationStatuses \cup {"absent"}
    PROVE  LET x == Confirm(c, r, a, now)
               b == expireLocked(c, now)
               ended == b.reservations[r].status
           IN /\ x.failure = "none" => Confirmed(x.state, b, r, a, now)
              /\ x.failure # "none" =>
                   \/ x.state = b
                   \/ ended = "active" /\ x.state = endReservations(b, {r}, "cancelled")
<1> DEFINE x == Confirm(c, r, a, now)
           b == expireLocked(c, now)
           ended == b.reservations[r].status
<1>1. \/ x = Fail(b, "IdempotencyConflict")
      \/ x = Fail(b, "ReservationExpired")
      \/ x = Fail(b, "InvalidTransition")
      \/ ended = "active" /\ x = Fail(endReservations(b, {r}, "cancelled"), "StaleSnapshot")
      \/ ended = "confirmed" /\ x = Ok(b)
      \/ ended = "active" /\ b.assignments[a].status # "absent" /\ x = Ok(b)
      \/ ended = "active" /\ b.assignments[a].status = "absent" /\ x = Ok(consume(b, r, a, now))
  BY Zenon DEF Confirm, ReservationStatuses
<1> HIDE DEF x, b
<1> QED BY <1>1 DEF Ok, Fail, Confirmed, x, b

(* What a Cancel leaves: the cancelled reservation, or the expiries alone. *)
LEMMA CancelEnds ==
    ASSUME NEW c, NEW r, NEW now
    PROVE  LET x == Cancel(c, r, now)
               b == expireLocked(c, now)
               ended == b.reservations[r].status
           IN /\ x.failure = "none" =>
                   \/ ended = "active" /\ x.state = endReservations(b, {r}, "cancelled")
                   \/ ended = "cancelled" /\ x.state = b
              /\ x.failure # "none" => x.state = b
<1> DEFINE x == Cancel(c, r, now)
           b == expireLocked(c, now)
           ended == b.reservations[r].status
<1>1. \/ x = Fail(b, "ReservationExpired")
      \/ x = Fail(b, "InvalidTransition")
      \/ ended = "active" /\ x = Ok(endReservations(b, {r}, "cancelled"))
      \/ ended = "cancelled" /\ x = Ok(b)
  BY Zenon DEF Cancel
<1> HIDE DEF x, b
<1> QED BY <1>1 DEF Ok, Fail, x, b

(* A change to one reservation. *)
LEMMA LagsChanged ==
    ASSUME NEW c, NEW d, NEW e, NEW f, NEW U, NEW r \in ReservationIds,
           Lags(c, d, U), SameDemand(e, f),
           \A q \in ReservationIds : q # r => /\ e.reservations[q] = c.reservations[q]
                                             /\ f.reservations[q] = d.reservations[q],
           Lag(r, e.reservations[r], f.reservations[r], U)
    PROVE  Lags(e, f, U)
<1>1. ASSUME NEW q \in ReservationIds PROVE Lag(q, e.reservations[q], f.reservations[q], U)
  <2>1. CASE q = r BY <2>1, Zenon
  <2>2. CASE q # r
    <3>1. Lag(q, c.reservations[q], d.reservations[q], U) BY Zenon DEF Lags
    <3>2. e.reservations[q] = c.reservations[q] /\ f.reservations[q] = d.reservations[q]
      BY <2>2, Zenon
    <3> QED BY <3>1, <3>2, Zenon
  <2> QED BY <2>1, <2>2, Zenon
<1> QED BY <1>1, Zenon DEF Lags

(* Two successes leave the replay behind as it was. *)
LEMMA ReserveLags ==
    ASSUME NEW c \in CoordinatorStruct, NEW d \in CoordinatorStruct, NEW U, Lags(c, d, U),
           NEW proposal, NEW r \in ReservationIds, NEW now \in Nat,
           Reserve(c, proposal, r, now).failure = "none",
           Reserve(d, proposal, r, now).failure = "none"
    PROVE  Lags(Reserve(c, proposal, r, now).state, Reserve(d, proposal, r, now).state, U)
<1> DEFINE x == expireLocked(c, now)
           y == expireLocked(d, now)
<1>1. /\ x.reservations[r] \in ReservationRecord
      /\ y.reservations[r] \in ReservationRecord
  BY ExpireFields, Zenon
<1>2. /\ x.reservations[r].status \in ReservationStatuses \cup {"absent"}
      /\ y.reservations[r].status \in ReservationStatuses \cup {"absent"}
  BY <1>1, Zenon DEF ReservationRecord
<1>3. Lags(x, y, U)
  BY ExpireLags, Zenon
<1>4. \/ /\ x.reservations[r].status \in {"active", "confirmed"}
         /\ Reserve(c, proposal, r, now).state = x
      \/ /\ x.reservations[r].status = "absent"
         /\ Reserve(c, proposal, r, now).state = Reserved(x, proposal, r, now)
  BY <1>2, ReserveEnds, Zenon
<1>5. \/ /\ y.reservations[r].status \in {"active", "confirmed"}
         /\ Reserve(d, proposal, r, now).state = y
      \/ /\ y.reservations[r].status = "absent"
         /\ Reserve(d, proposal, r, now).state = Reserved(y, proposal, r, now)
  BY <1>2, ReserveEnds, Zenon
<1>6. x \in CoordinatorStruct /\ y \in CoordinatorStruct
  BY ExpireTyped, Zenon
<1> HIDE DEF x, y
<1>7. x.reservations[r].status = y.reservations[r].status
  <2>1. Lag(r, x.reservations[r], y.reservations[r], U)
    BY <1>3, Zenon DEF Lags
  <2> QED BY <1>4, <1>5, <2>1, Zenon DEF Lag
<1>8. ASSUME NEW b \in CoordinatorStruct
      PROVE  LET e == Reserved(b, proposal, r, now) IN
             /\ SameDemand(e, b)
             /\ e.reservations[r] = [status |-> "active", proposal |-> proposal,
                                     expiresAt |-> now + TTL, assignment |-> NoID]
             /\ \A q \in ReservationIds : q # r => e.reservations[q] = b.reservations[q]
  BY <1>8, Zenon DEF Reserved, SameDemand, CoordinatorStruct
<1>9. Lags(Reserved(x, proposal, r, now), Reserved(y, proposal, r, now), U)
  <2> DEFINE e == Reserved(x, proposal, r, now)
             f == Reserved(y, proposal, r, now)
  <2>1. SameDemand(e, f)
    BY <1>3, <1>6, <1>8, Zenon DEF SameDemand, Lags
  <2>2. e.reservations[r] = f.reservations[r]
    BY <1>6, <1>8, Zenon
  <2>3. \A q \in ReservationIds : q # r => /\ e.reservations[q] = x.reservations[q]
                                           /\ f.reservations[q] = y.reservations[q]
    BY <1>6, <1>8, Zenon
  <2>4. Lag(r, e.reservations[r], f.reservations[r], U)
    BY <2>2, Zenon DEF Lag
  <2> HIDE DEF e, f
  <2>5. Lags(e, f, U) BY <1>3, <2>1, <2>3, <2>4, LagsChanged
  <2> QED BY <2>5, Zenon DEF e, f
<1> QED BY <1>3, <1>4, <1>5, <1>7, <1>9, Zenon

(* A Cancel that both coordinators accept. *)
LEMMA CancelLags ==
    ASSUME NEW c \in CoordinatorStruct, NEW d \in CoordinatorStruct, NEW U, Lags(c, d, U),
           NEW r \in ReservationIds, NEW now \in Nat,
           Cancel(c, r, now).failure = "none",
           Cancel(d, r, now).failure = "none"
    PROVE  Lags(Cancel(c, r, now).state, Cancel(d, r, now).state, U)
<1> DEFINE x == expireLocked(c, now)
           y == expireLocked(d, now)
           e == endReservations(x, {r}, "cancelled")
           f == endReservations(y, {r}, "cancelled")
<1>1. Lags(x, y, U)
  BY ExpireLags, Zenon
<1>2. x \in CoordinatorStruct /\ y \in CoordinatorStruct
  BY ExpireTyped, Zenon
<1>3. \/ x.reservations[r].status = "active" /\ Cancel(c, r, now).state = e
      \/ x.reservations[r].status = "cancelled" /\ Cancel(c, r, now).state = x
  BY CancelEnds, Zenon
<1>4. \/ y.reservations[r].status = "active" /\ Cancel(d, r, now).state = f
      \/ y.reservations[r].status = "cancelled" /\ Cancel(d, r, now).state = y
  BY CancelEnds, Zenon
<1> HIDE DEF x, y
<1>5. Lag(r, x.reservations[r], y.reservations[r], U)
  BY <1>1, Zenon DEF Lags
<1>6. /\ SameDemand(e, x)
      /\ \A q \in ReservationIds : q # r => e.reservations[q] = x.reservations[q]
      /\ e.reservations[r].status = "cancelled"
      /\ e.reservations[r].proposal = x.reservations[r].proposal
      /\ e.reservations[r].expiresAt = x.reservations[r].expiresAt
      /\ e.reservations[r].assignment = x.reservations[r].assignment
  BY <1>2, CancelledFields, Zenon
<1>7. /\ SameDemand(f, y)
      /\ \A q \in ReservationIds : q # r => f.reservations[q] = y.reservations[q]
      /\ f.reservations[r].status = "cancelled"
      /\ f.reservations[r].proposal = y.reservations[r].proposal
      /\ f.reservations[r].expiresAt = y.reservations[r].expiresAt
      /\ f.reservations[r].assignment = y.reservations[r].assignment
  BY <1>2, CancelledFields, Zenon
<1> HIDE DEF e, f
<1>8. SameDemand(x, y) /\ SameDemand(e, f) /\ SameDemand(e, y)
  BY <1>1, <1>6, <1>7, Zenon DEF Lags, SameDemand
<1>9. Lags(e, f, U)
  <2>1. Lag(r, e.reservations[r], f.reservations[r], U)
    BY <1>5, <1>6, <1>7, Zenon DEF Lag
  <2> QED BY <1>1, <1>6, <1>7, <1>8, <2>1, LagsChanged
<1>10. ASSUME y.reservations[r].status = "cancelled" PROVE Lags(e, y, U)
  <2>1. Lag(r, e.reservations[r], y.reservations[r], U)
    BY <1>5, <1>6, <1>10, Zenon DEF Lag
  <2> QED BY <1>1, <1>6, <1>8, <2>1, LagsChanged
<1>11. y.reservations[r].status = "active" => x.reservations[r].status = "active"
  BY <1>5, Zenon DEF Lag
<1> QED BY <1>1, <1>3, <1>4, <1>9, <1>10, <1>11, Zenon

(* What the success path of Confirm makes of b, but for the indexes. *)
Consumed(b, g, r, a, now) ==
    LET proposal == b.reservations[r].proposal IN
    /\ g.playerTickets = releasePlayerOwnershipLocked(b, Supply(proposal))
    /\ g.matchTickets = [t \in TicketIds |->
          IF t \in Supply(proposal) THEN NoMatchTicket ELSE b.matchTickets[t]]
    /\ g.backfillTickets = [t \in TicketIds |->
          IF t = proposal.backfill.ticket THEN NoBackfillTicket ELSE b.backfillTickets[t]]
    /\ g.assignments = [b.assignments EXCEPT ![a] =
          [status |-> "pending", reservation |-> r, proposal |-> proposal,
           confirmedAt |-> now, acknowledgment |-> NoAcknowledgment]]
    /\ g.reservations[r] = [b.reservations[r] EXCEPT !.status = "confirmed",
                                                    !.assignment = a]
    /\ \A q \in ReservationIds : q # r => g.reservations[q] = b.reservations[q]

(* The fields that consume changes, one by one. *)
LEMMA ConsumeFields ==
    ASSUME NEW b \in CoordinatorStruct, NEW r \in ReservationIds, NEW a \in AssignmentIds,
           NEW now
    PROVE  Consumed(b, consume(b, r, a, now), r, a, now)
BY Zenon DEF consume, Consumed, CoordinatorStruct

(* A Confirm that both coordinators accept. *)
LEMMA ConfirmLags ==
    ASSUME NEW c \in CoordinatorStruct, NEW d \in CoordinatorStruct, NEW U, Lags(c, d, U),
           NEW r \in ReservationIds, NEW a \in AssignmentIds, NEW now \in Nat,
           Confirm(c, r, a, now).failure = "none",
           Confirm(d, r, a, now).failure = "none"
    PROVE  Lags(Confirm(c, r, a, now).state, Confirm(d, r, a, now).state, U)
<1> DEFINE x == expireLocked(c, now)
           y == expireLocked(d, now)
           e == consume(x, r, a, now)
           f == consume(y, r, a, now)
<1>1. /\ x.reservations[r] \in ReservationRecord
      /\ y.reservations[r] \in ReservationRecord
  BY ExpireFields, Zenon
<1>2. /\ x.reservations[r].status \in ReservationStatuses \cup {"absent"}
      /\ y.reservations[r].status \in ReservationStatuses \cup {"absent"}
  BY <1>1, Zenon DEF ReservationRecord
<1>3. Lags(x, y, U)
  BY ExpireLags, Zenon
<1>4. Confirmed(Confirm(c, r, a, now).state, x, r, a, now)
  BY <1>2, ConfirmEnds, Zenon
<1>5. Confirmed(Confirm(d, r, a, now).state, y, r, a, now)
  BY <1>2, ConfirmEnds, Zenon
<1>6. x \in CoordinatorStruct /\ y \in CoordinatorStruct
  BY ExpireTyped, Zenon
<1> HIDE DEF x, y
<1>7. Lag(r, x.reservations[r], y.reservations[r], U)
  BY <1>3, Zenon DEF Lags
<1>8. /\ x.reservations[r].status = y.reservations[r].status
      /\ x.assignments = y.assignments
  BY <1>3, <1>4, <1>5, <1>7, Zenon DEF Confirmed, Lag, Lags, SameDemand
<1>9. x.reservations[r] = y.reservations[r]
  BY <1>1, <1>7, <1>8, SameReservation, Zenon DEF Lag, x, y
<1>10. Consumed(x, e, r, a, now) /\ Consumed(y, f, r, a, now)
  BY <1>6, ConsumeFields, Zenon
<1> HIDE DEF e, f
<1>11. Lags(e, f, U)
  <2>1. SameDemand(x, y)
    BY <1>3, Zenon DEF Lags
  <2>2. releasePlayerOwnershipLocked(x, Supply(x.reservations[r].proposal))
          = releasePlayerOwnershipLocked(y, Supply(y.reservations[r].proposal))
    BY <1>9, <2>1, Zenon DEF releasePlayerOwnershipLocked, SameDemand
  <2>3. e.playerTickets = f.playerTickets
    BY <1>10, <2>2, Zenon DEF Consumed
  <2>4. e.matchTickets = f.matchTickets /\ e.backfillTickets = f.backfillTickets
    BY <1>9, <1>10, <2>1 DEF SameDemand, Consumed
  <2>5. e.assignments = f.assignments
    BY <1>9, <1>10, <2>1, Zenon DEF SameDemand, Consumed
  <2>6. SameDemand(e, f)
    BY <2>3, <2>4, <2>5, Zenon DEF SameDemand
  <2>7. e.reservations[r] = f.reservations[r]
    BY <1>9, <1>10, Zenon DEF Consumed
  <2>8. \A q \in ReservationIds : q # r => /\ e.reservations[q] = x.reservations[q]
                                           /\ f.reservations[q] = y.reservations[q]
    BY <1>10, Zenon DEF Consumed
  <2>9. Lag(r, e.reservations[r], f.reservations[r], U)
    BY <2>7, Zenon DEF Lag
  <2> QED BY <1>3, <2>6, <2>8, <2>9, LagsChanged
<1> QED BY <1>3, <1>4, <1>5, <1>8, <1>11, Zenon DEF Confirmed, e, f

(* A call that the live coordinator refuses leaves no record; the replay   *)
(* stays behind, and the refused call may have cancelled a reservation.    *)
Withdrawn(d, e) ==
    {r \in ReservationIds : d.reservations[r].status = "active"
                              /\ e.reservations[r].status = "cancelled"}

(* A Confirm that the live coordinator refuses is not journalled: what it  *)
(* withdraws is added to the difference.                                   *)
LEMMA ConfirmRefused ==
    ASSUME NEW c \in CoordinatorStruct, NEW d \in CoordinatorStruct, NEW U, Lags(c, d, U),
           NEW r \in ReservationIds, NEW a \in AssignmentIds, NEW now \in Nat,
           Confirm(d, r, a, now).failure # "none"
    PROVE  LET e == Confirm(d, r, a, now).state
           IN Lags(c, e, U \cup Withdrawn(d, e))
<1> DEFINE y == expireLocked(d, now)
           e == Confirm(d, r, a, now).state
           f == endReservations(y, {r}, "cancelled")
           V == U \cup Withdrawn(d, e)
<1>1. y.reservations[r] \in ReservationRecord
  BY ExpireFields, Zenon
<1>2. y.reservations[r].status \in ReservationStatuses \cup {"absent"}
  BY <1>1, Zenon DEF ReservationRecord
<1>3. \/ e = y
      \/ y.reservations[r].status = "active" /\ e = f
  BY <1>2, ConfirmEnds, Zenon
<1>4. Lags(c, y, U) /\ U \subseteq V
  BY ExpireLags, Zenon
<1>5. y \in CoordinatorStruct
  BY ExpireTyped, Zenon
<1>6. y.reservations[r].status = "active" => d.reservations[r].status = "active"
  BY ExpireFields, Zenon
<1> HIDE DEF y, e, V
<1>7. Lags(c, y, V)
  BY <1>4, LagsMore, Zenon
<1>8. ASSUME y.reservations[r].status = "active", e = f
      PROVE  Lags(c, f, V)
  <2>1. /\ SameDemand(f, y)
        /\ \A q \in ReservationIds : q # r => f.reservations[q] = y.reservations[q]
        /\ f.reservations[r].status = "cancelled"
        /\ f.reservations[r].proposal = y.reservations[r].proposal
        /\ f.reservations[r].expiresAt = y.reservations[r].expiresAt
        /\ f.reservations[r].assignment = y.reservations[r].assignment
    BY <1>5, CancelledFields, Zenon
  <2>2. r \in V
    BY <1>6, <1>8, <2>1, Zenon DEF V, Withdrawn
  <2> HIDE DEF f
  <2>3. SameDemand(c, f)
    BY <1>7, <2>1, Zenon DEF Lags, SameDemand
  <2>4. Lag(r, c.reservations[r], y.reservations[r], V)
    BY <1>7, Zenon DEF Lags
  <2>5. Lag(r, c.reservations[r], f.reservations[r], V)
    BY <1>8, <2>1, <2>2, <2>4, Zenon DEF Lag
  <2> QED BY <1>7, <2>1, <2>3, <2>5, LagsChanged
<1> QED BY <1>3, <1>7, <1>8, Zenon DEF V, e

(* A Cancel that is refused has applied expiry and nothing else. *)
LEMMA CancelRefused ==
    ASSUME NEW c, NEW r, NEW now, Cancel(c, r, now).failure # "none"
    PROVE  Cancel(c, r, now).state = expireLocked(c, now)
BY Zenon DEF Cancel, Ok, Fail

-----------------------------------------------------------------------------
(* What an accepted call leaves in the struct. *)
LEMMA SubmitsMatch ==
    ASSUME NEW c \in CoordinatorStruct, NEW id \in TicketIds, NEW ticket \in MatchTicket,
           UpsertMatchTicket(c, id, ticket).failure = "none"
    PROVE  LET d == UpsertMatchTicket(c, id, ticket).state IN
           /\ \A t \in TicketIds :
                d.matchTickets[t] = IF t = id THEN ticket ELSE c.matchTickets[t]
           /\ d.backfillTickets = c.backfillTickets
           /\ d.assignments = c.assignments
           /\ d.reservations = c.reservations
<1> DEFINE x == UpsertMatchTicket(c, id, ticket)
           owners == [p \in PlayerIds |-> IF p \in ticket.players THEN id
                        ELSE releasePlayerOwnershipLocked(c, {id})[p]]
           change == [c EXCEPT !.matchTickets[id] = ticket, !.playerTickets = owners]
<1>1. \/ x = Ok(c) /\ ticket = c.matchTickets[id]
      \/ x = Fail(c, "InvalidInput")
      \/ x = Fail(c, "InvalidRevision")
      \/ x = Ok(change)
  BY Zenon DEF UpsertMatchTicket
<1> HIDE DEF owners
<1>2. /\ \A t \in TicketIds :
           change.matchTickets[t] = IF t = id THEN ticket ELSE c.matchTickets[t]
      /\ change.backfillTickets = c.backfillTickets
      /\ change.assignments = c.assignments
      /\ change.reservations = c.reservations
  BY DEF CoordinatorStruct
<1> HIDE DEF x, change
<1> QED BY <1>1, <1>2 DEF Ok, Fail, x

(* What an accepted backfill ticket changes. *)
LEMMA SubmitsBackfill ==
    ASSUME NEW c \in CoordinatorStruct, NEW id \in TicketIds, NEW ticket \in BackfillTicket,
           UpsertBackfillTicket(c, id, ticket).failure = "none"
    PROVE  LET d == UpsertBackfillTicket(c, id, ticket).state IN
           /\ \A t \in TicketIds :
                d.backfillTickets[t] = IF t = id THEN ticket ELSE c.backfillTickets[t]
           /\ d.matchTickets = c.matchTickets
           /\ d.assignments = c.assignments
           /\ d.reservations = c.reservations
<1> DEFINE x == UpsertBackfillTicket(c, id, ticket)
           change == [c EXCEPT !.backfillTickets[id] = ticket]
<1>1. \/ x = Ok(c) /\ ticket = c.backfillTickets[id]
      \/ x = Fail(c, "InvalidInput")
      \/ x = Fail(c, "InvalidRevision")
      \/ x = Ok(change)
  BY Zenon DEF UpsertBackfillTicket
<1>2. /\ \A t \in TicketIds :
           change.backfillTickets[t] = IF t = id THEN ticket ELSE c.backfillTickets[t]
      /\ change.matchTickets = c.matchTickets
      /\ change.assignments = c.assignments
      /\ change.reservations = c.reservations
  BY DEF CoordinatorStruct
<1> HIDE DEF x, change
<1> QED BY <1>1, <1>2 DEF Ok, Fail, x

(* What the accepted cancellation of a match ticket changes. *)
LEMMA CancelsMatch ==
    ASSUME NEW c \in CoordinatorStruct, NEW id \in TicketIds, NEW revision,
           CancelMatchTicket(c, id, revision).failure = "none"
    PROVE  LET d == CancelMatchTicket(c, id, revision).state IN
           /\ \A t \in TicketIds :
                d.matchTickets[t] = IF t = id THEN NoMatchTicket ELSE c.matchTickets[t]
           /\ d.backfillTickets = c.backfillTickets
           /\ d.assignments = c.assignments
           /\ d.reservations = c.reservations
<1> DEFINE x == CancelMatchTicket(c, id, revision)
           owners == releasePlayerOwnershipLocked(c, {id})
           change == [c EXCEPT !.playerTickets = owners, !.matchTickets[id] = NoMatchTicket]
<1>1. x = Fail(c, "StaleSnapshot") \/ x = Ok(change)
  BY Zenon DEF CancelMatchTicket
<1> HIDE DEF owners
<1>2. /\ \A t \in TicketIds :
           change.matchTickets[t] = IF t = id THEN NoMatchTicket ELSE c.matchTickets[t]
      /\ change.backfillTickets = c.backfillTickets
      /\ change.assignments = c.assignments
      /\ change.reservations = c.reservations
  BY DEF CoordinatorStruct
<1> HIDE DEF x, change
<1> QED BY <1>1, <1>2 DEF Ok, Fail, x

(* What the accepted cancellation of a backfill ticket changes. *)
LEMMA CancelsBackfill ==
    ASSUME NEW c \in CoordinatorStruct, NEW id \in TicketIds, NEW revision, NEW rosterVersion,
           CancelBackfillTicket(c, id, revision, rosterVersion).failure = "none"
    PROVE  LET d == CancelBackfillTicket(c, id, revision, rosterVersion).state IN
           /\ \A t \in TicketIds :
                d.backfillTickets[t] = IF t = id THEN NoBackfillTicket ELSE c.backfillTickets[t]
           /\ d.matchTickets = c.matchTickets
           /\ d.assignments = c.assignments
           /\ d.reservations = c.reservations
<1> DEFINE x == CancelBackfillTicket(c, id, revision, rosterVersion)
           change == [c EXCEPT !.backfillTickets[id] = NoBackfillTicket]
<1>1. x = Fail(c, "StaleSnapshot") \/ x = Ok(change)
  BY Zenon DEF CancelBackfillTicket
<1>2. /\ \A t \in TicketIds :
           change.backfillTickets[t] = IF t = id THEN NoBackfillTicket ELSE c.backfillTickets[t]
      /\ change.matchTickets = c.matchTickets
      /\ change.assignments = c.assignments
      /\ change.reservations = c.reservations
  BY DEF CoordinatorStruct
<1> HIDE DEF x, change
<1> QED BY <1>1, <1>2 DEF Ok, Fail, x

(* What an accepted acknowledgment changes. *)
LEMMA Acknowledges ==
    ASSUME NEW c \in CoordinatorStruct, NEW a \in AssignmentIds,
           NEW request \in AcknowledgmentRequest,
           AcknowledgeAssignment(c, a, request).failure = "none"
    PROVE  LET d == AcknowledgeAssignment(c, a, request).state IN
           /\ \A b \in AssignmentIds :
                /\ b # a => d.assignments[b] = c.assignments[b]
                /\ d.assignments[b].proposal = c.assignments[b].proposal
                /\ d.assignments[b].status = "absent" <=> c.assignments[b].status = "absent"
           /\ d.matchTickets = c.matchTickets
           /\ d.backfillTickets = c.backfillTickets
           /\ d.reservations = c.reservations
<1> DEFINE x == AcknowledgeAssignment(c, a, request)
           updated == [c.assignments[a] EXCEPT !.status = request.outcome,
                                               !.acknowledgment = request]
           change == [c EXCEPT !.assignments[a] = updated]
<1>0. c.assignments[a] \in Assignment
  BY Zenon DEF CoordinatorStruct
<1>1. \/ x.failure # "none"
      \/ x = Ok(c)
      \/ x = Ok(change) /\ c.assignments[a].status = "pending"
  BY DEF AcknowledgeAssignment, Ok, Fail
<1>2. request.outcome # "absent"
  BY DEF AcknowledgmentRequest, Outcomes
<1>3. /\ updated.proposal = c.assignments[a].proposal
      /\ updated.status # "absent"
  BY <1>0, <1>2 DEF Assignment
<1> HIDE DEF updated
<1>4. /\ \A b \in AssignmentIds :
           change.assignments[b] = IF b = a THEN updated ELSE c.assignments[b]
      /\ change.matchTickets = c.matchTickets
      /\ change.backfillTickets = c.backfillTickets
      /\ change.reservations = c.reservations
  BY DEF CoordinatorStruct
<1> HIDE DEF x, change
<1> QED BY <1>1, <1>3, <1>4 DEF Ok, Fail, x

(* A confirmation that is accepted after expiry has left b: a retry of one *)
(* that there is, or a first one.                                          *)
Retried(b, r, a) ==
    /\ b.reservations[r].status = "confirmed"
    /\ b.assignments[a].status # "absent"

(* An accepted Confirm is a retry, or consumes an active reservation. *)
LEMMA ConfirmAccepted ==
    ASSUME NEW c, NEW r \in ReservationIds, NEW a \in AssignmentIds, NEW now,
           IInv(expireLocked(c, now)), Confirm(c, r, a, now).failure = "none"
    PROVE  LET b == expireLocked(c, now)
               d == Confirm(c, r, a, now).state
           IN \/ Retried(b, r, a) /\ d = b
              \/ /\ b.reservations[r].status = "active"
                 /\ b.assignments[a].status = "absent"
                 /\ d = consume(b, r, a, now)
<1> DEFINE x == Confirm(c, r, a, now)
           b == expireLocked(c, now)
           ended == b.reservations[r].status
<1>1. b.reservations[r] \in ReservationRecord
  BY Zenon DEF IInv, CoordinatorStruct
<1>2. ended \in ReservationStatuses \cup {"absent"}
  BY <1>1, Zenon DEF ReservationRecord
<1>3. \/ x.failure # "none"
      \/ ended = "confirmed" /\ b.reservations[r].assignment = a /\ x = Ok(b)
      \/ /\ ended = "active" /\ x = Ok(b)
         /\ b.assignments[a].status # "absent" /\ b.assignments[a].reservation = r
      \/ ended = "active" /\ b.assignments[a].status = "absent" /\ x = Ok(consume(b, r, a, now))
  BY <1>2 DEF Confirm, Fail, Ok, ReservationStatuses
<1>4. Paired(b)
  BY Zenon DEF IInv
<1> HIDE DEF x, b
<1>5. ended = "confirmed" /\ b.reservations[r].assignment = a => Retried(b, r, a)
  BY <1>4 DEF Paired, Retried
<1>6. ~(ended = "active" /\ b.assignments[a].status # "absent" /\ b.assignments[a].reservation = r)
  BY <1>4 DEF Paired
<1>7. x.failure = "none"
  BY Zenon DEF x
<1> QED BY <1>3, <1>5, <1>6, <1>7 DEF Ok, x, b

=============================================================================
