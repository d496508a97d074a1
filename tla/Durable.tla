------------------------------ MODULE Durable -------------------------------
(***************************************************************************)
(* internal/durable: the in-memory engine behind an append-only journal.   *)
(*                                                                         *)
(* Runtime.mu is held for a whole call, so calls do not interleave; what   *)
(* can come between two steps of a call is a fault.  An operation first    *)
(* runs on the engine.  If the engine refuses it the call returns at once  *)
(* and nothing is journaled, although the engine may have changed.         *)
(* Otherwise a record is appended and synced, and only then is success     *)
(* reported.  The append may fail, the process may die at any point of it, *)
(* and the machine may lose what was written but not synced.               *)
(*                                                                         *)
(* The first record (runtime_configured) is implicit: TTL is a constant.   *)
(* A torn tail is implicit too: recoverRecords cuts it off before anybody  *)
(* looks, so a half-written record is the same as none.                    *)
(***************************************************************************)
EXTENDS Journal

CONSTANTS
    Workloads,     \* the callers' workloads; a behavior has one of them
    Offers(_)      \* what the callers of a workload send, and its bounds

(* The fields of Offers(w): the tickets submitted under each identifier    *)
(* (matches, backfills), the proposals that callers of the package bring   *)
(* themselves (direct; callers of the HTTP adapter reserve only what was   *)
(* planned), acknowledgments, policies and fingerprints, and snapshots.    *)
(* Bounds: time, the last clock value; skew, how far behind the clock the  *)
(* "now" of a call may be; reservations, how many identifiers are in use;  *)
(* records, the length of the journal; unsynced, the contents the disk may *)
(* hold at once (with 0 of them no append fails).                          *)
ASSUME DurableAssumption == \A w \in Workloads :
    /\ \A offer \in Offers(w).matches : offer.id \in TicketIds /\ offer.ticket \in MatchTicket
    /\ \A offer \in Offers(w).backfills : offer.id \in TicketIds /\ offer.ticket \in BackfillTicket
    /\ Offers(w).direct \subseteq MatchProposal
    /\ Offers(w).acknowledgments \subseteq AcknowledgmentRequest
    /\ Offers(w).policies \subseteq PolicyVersions
    /\ Offers(w).fingerprints \subseteq Fingerprints
    /\ Offers(w).snapshots \subseteq SnapshotIds
    /\ {Offers(w).time, Offers(w).skew, Offers(w).reservations, Offers(w).records,
        Offers(w).unsynced} \subseteq Nat

VARIABLES
    workload,    \* which callers there are; chosen at the start
    engine,      \* Runtime.engine
    plans,       \* Runtime.plans; the proposals index holds what they hold
    file,        \* the complete records a reader of the journal file sees
    survivors,   \* what the file may hold after the machine goes down
    status,      \* "open", "poisoned", or "down" (no process)
    clock,
    promised,    \* history: the journal at the last reported mutation
    answered,    \* history: the plans reported to callers
    unrecorded,  \* history: the reservations a refused Confirm has cancelled
    outrun       \* history: a call was accepted as of a time before an expiry
                 \* that the engine had already made

history == <<unrecorded, outrun>>

vars == <<workload, engine, plans, file, survivors, status, clock, promised,
          answered, history>>

Offered == Offers(workload)

Init ==
    /\ workload \in Workloads
    /\ engine = NewEngine
    /\ plans = NoPlans
    /\ file = <<>>
    /\ survivors = {<<>>}
    /\ status = "down"
    /\ clock = 0
    /\ promised = <<>>
    /\ answered = {}
    /\ unrecorded = {}
    /\ outrun = FALSE

Recovered(records, replayed) ==
    /\ replayed.failure = "none"
    /\ PlansAgree(records)
    /\ engine' = replayed.state
    /\ plans' = plansFromRecords(records)

Recover(records) == Recovered(records, replay(records))

(* No process: its memory reads as empty. *)
Stopped ==
    /\ status' = "down"
    /\ engine' = NewEngine
    /\ plans' = NoPlans

(* Open recovers and replays.  A journal that does not replay leaves the   *)
(* runtime down, so that is no step.  Nothing is synced here: a complete   *)
(* record that was written and never synced is accepted as it is.          *)
Open ==
    /\ status = "down"
    /\ status' = "open"
    /\ Recover(file)
    /\ UNCHANGED <<file, survivors, clock, promised, answered, history>>

-----------------------------------------------------------------------------
(* The end of an accepted call: journal.append and persistLocked. *)

(* Mutant: success is reported although the sync has not happened. *)
Persisted_unsynced(event, accepted) ==
    /\ file' = Append(file, event)
    /\ survivors' = survivors \cup {file'}
    /\ engine' = accepted
    /\ promised' = file'
    /\ UNCHANGED <<plans, answered, status>>

(* What the caller of Plan is told. *)
Answer(n, version, batch) == [snapshot |-> n, policy |-> version, batch |-> batch]

(* Written and synced; the response leaves the process. *)
Persisted(event, accepted) ==
    /\ file' = Append(file, event)
    /\ survivors' = {file'}
    /\ engine' = accepted
    /\ IF event.kind = "plan_completed"
       THEN /\ plans' = [plans EXCEPT ![event.snapshot] =
                           [policy |-> event.policy, batch |-> event.batch]]
            /\ answered' = answered \cup {Answer(event.snapshot, event.policy, event.batch)}
            /\ UNCHANGED promised
       ELSE /\ promised' = file'
            /\ UNCHANGED <<plans, answered>>
    /\ UNCHANGED status

(* Mutant: the engine keeps what the journal does not have. *)
AppendFailed_unrecovered(event, accepted) ==
    /\ survivors' = survivors \cup {Append(file, event)}
    /\ engine' = accepted
    /\ UNCHANGED <<plans, file, status, promised, answered>>

(* The write or the sync fails.  rollbackAppend cuts the record off again, *)
(* or fails to; either way the disk may hold the record or not.  The       *)
(* journal is read again and replayed, or else the runtime is poisoned,    *)
(* with the engine as the refused call left it.                            *)
AppendFailed(event, accepted) ==
    /\ file' \in {file, Append(file, event)}
    /\ survivors' = survivors \cup {Append(file, event)}
    /\ Cardinality(survivors') <= Offered.unsynced
    /\ \/ /\ Recover(file')
          /\ UNCHANGED status
       \/ /\ status' = "poisoned"
          /\ engine' = accepted
          /\ UNCHANGED plans
    /\ UNCHANGED <<promised, answered>>

(* The process dies before the response: before the write, between write   *)
(* and sync, or after the sync.                                            *)
DiedInAppend(event) ==
    /\ \/ UNCHANGED <<file, survivors>>
       \/ /\ file' = Append(file, event)
          /\ survivors' \in {survivors \cup {file'}, {file'}}
          /\ Cardinality(survivors') <= Offered.unsynced
    /\ Stopped
    /\ UNCHANGED <<promised, answered>>

(* The handler reads the clock before it waits for Runtime.mu: the call may *)
(* come after one that read a later time, and that expired a reservation.  *)
Outruns(event) ==
    /\ "now" \in DOMAIN event
    /\ \E r \in ReservationIds :
         LET reservation == engine.coordinator.reservations[r]
         IN reservation.status = "expired" /\ event.now < reservation.expiresAt

(* A call of the runtime that runs operation on the engine. *)
Call(event, result) ==
    /\ status = "open"
    /\ Len(file) < Offered.records
    /\ UNCHANGED clock
    /\ IF result.failure = "none"
       THEN /\ \/ Persisted(event, result.state)
               \/ AppendFailed(event, result.state)
               \/ DiedInAppend(event)
            /\ outrun' = (outrun \/ Outruns(event))
            /\ UNCHANGED unrecorded
       ELSE /\ engine' = result.state
            /\ unrecorded' = unrecorded \cup
                 {r \in ReservationIds :
                    /\ engine.coordinator.reservations[r].status = "active"
                    /\ result.state.coordinator.reservations[r].status = "cancelled"}
            /\ UNCHANGED <<plans, file, survivors, status, promised, answered, outrun>>

Mutate(event) == Call(event, engineCall(engine, event))

-----------------------------------------------------------------------------
(* One action per operation of the runtime. *)

Now == {t \in 0..clock : clock - t <= Offered.skew}

RegisterPolicyCall == \E v \in Offered.policies, f \in Offered.fingerprints :
    Mutate([kind |-> "policy_registered", version |-> v, fingerprint |-> f])

SubmitMatchTicket == \E offer \in Offered.matches :
    Mutate([kind |-> "match_ticket_submitted", id |-> offer.id,
            ticket |-> offer.ticket])

SubmitBackfillTicket == \E offer \in Offered.backfills :
    Mutate([kind |-> "backfill_ticket_submitted", id |-> offer.id,
            ticket |-> offer.ticket])

CancelMatchTicketCall == \E offer \in Offered.matches :
    Mutate([kind |-> "match_ticket_cancelled", id |-> offer.id,
            revision |-> offer.ticket.revision])

CancelBackfillTicketCall == \E offer \in Offered.backfills :
    Mutate([kind |-> "backfill_ticket_cancelled", id |-> offer.id,
            revision |-> offer.ticket.revision,
            rosterVersion |-> offer.ticket.rosterVersion])

(* The proposals Runtime.Proposal finds, and those a caller brings.  What  *)
(* a batch holds is a parameter: the Go type of Reserve is the filter.     *)
Reservable ==
    {p \in Offered.direct \cup
             UNION {Planned(plans[n].batch) : n \in {m \in SnapshotIds : plans[m] # NoPlan}} :
       p \in MatchProposal}

(* The identifiers in use, with that of a new call. *)
WithinReservations(r) ==
    Cardinality({r} \cup {q \in ReservationIds :
                   engine.coordinator.reservations[q] # NoReservation})
      <= Offered.reservations

(* Mutant: the record loses the time of the call. *)
ReserveCall_untimed == \E p \in Reservable, r \in ReservationIds, now \in Now :
    /\ WithinReservations(r)
    /\ LET event == [kind |-> "proposal_reserved", proposal |-> p,
                      reservation |-> r, now |-> now]
       IN Call([event EXCEPT !.now = 0], engineCall(engine, event))

ReserveCall == \E p \in Reservable, r \in ReservationIds, now \in Now :
    /\ WithinReservations(r)
    /\ Mutate([kind |-> "proposal_reserved", proposal |-> p,
               reservation |-> r, now |-> now])

ConfirmCall == \E r \in ReservationIds, a \in AssignmentIds, now \in Now :
    Mutate([kind |-> "reservation_confirmed", reservation |-> r,
            assignment |-> a, now |-> now])

CancelReservation == \E r \in ReservationIds, now \in Now :
    Mutate([kind |-> "reservation_cancelled", reservation |-> r, now |-> now])

AcknowledgeCall == \E a \in AssignmentIds, request \in Offered.acknowledgments :
    Mutate([kind |-> "assignment_acknowledged", assignment |-> a,
            request |-> request])

PlanEvent(n, version, now, batch) ==
    [kind |-> "plan_completed", snapshot |-> n, policy |-> version,
     now |-> now, batch |-> batch]

(* A snapshot that was planned before is answered from the index, without  *)
(* touching the engine or the journal.                                     *)
PlanCall == \E n \in Offered.snapshots, version \in Offered.policies, now \in Now :
    IF plans[n] = NoPlan
    THEN LET result == enginePlan(engine, version, now)
         IN Call(PlanEvent(n, version, now, batchOf(result.state.coordinator)), result)
    ELSE /\ status = "open"
         /\ plans[n].policy = version
         /\ answered' = answered \cup {Answer(n, version, plans[n].batch)}
         /\ UNCHANGED <<engine, plans, file, survivors, status, clock, promised,
                       history>>

-----------------------------------------------------------------------------
(* The process ends between two calls: Close, a crash, or an operator who  *)
(* stops a poisoned runtime.                                               *)
Exit ==
    /\ status # "down"
    /\ Stopped
    /\ UNCHANGED <<file, survivors, clock, promised, answered, history>>

(* The machine goes down: of what was not synced, anything may be lost. *)
PowerLoss ==
    /\ file' \in survivors
    /\ survivors' = {file'}
    /\ Stopped
    /\ UNCHANGED <<clock, promised, answered, history>>

Tick ==
    /\ clock < Offered.time
    /\ clock' = clock + 1
    /\ UNCHANGED <<engine, plans, file, survivors, status, promised, answered,
                   history>>

Next ==
  /\ UNCHANGED workload
  /\ \/ Open
     \/ RegisterPolicyCall
     \/ SubmitMatchTicket
     \/ SubmitBackfillTicket
     \/ CancelMatchTicketCall
     \/ CancelBackfillTicketCall
     \/ PlanCall
     \/ ReserveCall
     \/ ConfirmCall
     \/ CancelReservation
     \/ AcknowledgeCall
     \/ Exit
     \/ PowerLoss
     \/ Tick

Spec == Init /\ [][Next]_vars

-----------------------------------------------------------------------------
(* Properties. *)

(* The runtime's memory and the files have the shape of the Go types. *)
TypeOK ==
    /\ engine.coordinator \in CoordinatorStruct
    /\ engine.policies \in [PolicyVersions -> Fingerprints \cup {NoID}]
    /\ DOMAIN plans = SnapshotIds
    /\ file \in survivors
    /\ status \in {"open", "poisoned", "down"}
    /\ unrecorded \subseteq ReservationIds

(* What the file may hold from here on, whichever fault comes next. *)
Recoveries == survivors \cup {file}

(* A reported mutation survives: whatever process or machine failure       *)
(* follows, the journal still starts with every record up to the last      *)
(* mutation that was answered with success.  persistLocked returns nil     *)
(* only after journal.append has synced the record.                        *)
ReportedSurvives == \A records \in Recoveries :
    /\ Len(promised) <= Len(records)
    /\ \A i \in 1..Len(promised) : records[i] = promised[i]

(* A journal the runtime wrote can be replayed by Open, after any crash.   *)
RestartSucceeds == \A records \in Recoveries : Recoverable(records)

(* The same as long as no Confirm was refused for stale input, and no call *)
(* was accepted as of a time before an expiry already made.  Such a refusal *)
(* cancels the reservation in the engine and leaves no record; such a call *)
(* is journaled with the earlier time, and replayed before the expiry.     *)
(* Nothing else breaks recovery: not expiry itself, which leaves no record *)
(* either, and not a call that is merely late.                             *)
RestartSucceedsUnlessStale ==
    (unrecorded = {} /\ ~outrun) => RestartSucceeds

(* A reservation of the replay beside the one of the engine. *)
Behind(r, is, was) ==
    \/ is = was
    \/ /\ was.status \in {"cancelled", "expired"}
       /\ is = [was EXCEPT !.status = IF r \in unrecorded THEN is.status ELSE "active"]
       /\ is.status \in {"active", "expired"}

Agrees(recovered, live) ==
    /\ recovered.policies = live.policies
    /\ \A field \in {"matchTickets", "backfillTickets", "playerTickets", "assignments"} :
         recovered.coordinator[field] = live.coordinator[field]
    /\ \A r \in ReservationIds :
         Behind(r, recovered.coordinator.reservations[r], live.coordinator.reservations[r])

RecoveredAgrees(replayed) ==
    (replayed.failure = "none" /\ PlansAgree(file)) =>
      /\ Agrees(replayed.state, engine)
      /\ plansFromRecords(file) = plans

(* Replaying the journal of an open runtime gives back its policies, its   *)
(* tickets, its players, its assignments and its plans, and every          *)
(* reservation with its proposal and expiry.  A reservation may only be    *)
(* less far along: ended in the engine by an expiry or a stale Confirm     *)
(* that left no record, and not yet or otherwise ended in the replay.      *)
RecoveryAgrees == status = "open" => RecoveredAgrees(replay(file))

(* A snapshot identifier is planned once: every answer for it is the same  *)
(* batch, whatever crashes lie between the answers.                        *)
PlanAnswersAgree == \A p, q \in answered : p.snapshot = q.snapshot => p = q

=============================================================================
