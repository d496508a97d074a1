---------------------------- MODULE DurableProofs ----------------------------
(***************************************************************************)
(* Proofs, for every choice of the constants, of what the durable runtime  *)
(* promises across crashes: reported mutations survive, a restart succeeds *)
(* and gives back what was in memory, and the v0 importer makes of the     *)
(* journal what a restart would have.  The invariant is about every        *)
(* journal that a crash may leave, not only the one on disk now: each is   *)
(* one that the runtime has written (Written, of ReplayProofs) and starts  *)
(* with what was reported.                                                 *)
(***************************************************************************)
EXTENDS ImportSource, ReplayProofs

-----------------------------------------------------------------------------
(* The inductive invariant. *)

StartsWith(records, start) ==
    /\ Len(start) <= Len(records)
    /\ \A i \in 1..Len(start) : records[i] = start[i]

(* What replaying the journal gives, beside the live engine and its plans. *)
Current(records, e, p, U) ==
    Recoverable(records) => /\ Follows(replay(records).state, e, U)
                            /\ plansFromRecords(records) = p

DurableInv ==
    /\ workload \in Workloads
    /\ clock \in Nat
    /\ EngineOK(engine)
    /\ plans = [n \in SnapshotIds |-> plans[n]]
    /\ status \in {"open", "poisoned", "down"}
    /\ unrecorded \subseteq ReservationIds
    /\ file \in survivors
    /\ \A records \in survivors : Written(records) /\ StartsWith(records, promised)
    /\ status = "open" => Current(file, engine, plans, unrecorded)
    /\ (unrecorded = {} /\ ~outrun) => \A records \in survivors : Recoverable(records)

(* What the proof needs to know of a call: the record it journals, and how *)
(* the replay of that record compares with what the live engine has done.  *)
Fits(event, result) ==
    LET e == replay(file).state IN
    /\ event \in Events
    /\ EngineOK(result.state)
    /\ result.failure = "none" =>
         \A U : (Follows(e, engine, U) /\ replayRecord(e, event).failure = "none") =>
                  Follows(replayRecord(e, event).state, result.state, U)
    /\ result.failure # "none" =>
         \A U : Follows(e, engine, U) =>
                  Follows(e, result.state,
                          U \cup Withdrawn(engine.coordinator, result.state.coordinator))
    /\ (result.failure = "none" /\ Follows(e, engine, {}) /\ ~Outruns(event)) =>
         replayRecord(e, event).failure = "none"
    /\ event.kind = "plan_completed" => event \in Plans /\ plans[event.snapshot] = NoPlan

PlansWith(event) ==
    IF event.kind = "plan_completed"
    THEN [plans EXCEPT ![event.snapshot] = [policy |-> event.policy, batch |-> event.batch]]
    ELSE plans

(* An engine follows itself. *)
LEMMA FollowsItself ==
    ASSUME NEW e, NEW U PROVE Follows(e, e, U)
BY Zenon DEF Follows, Lags, Lag, SameDemand

(* The journal with the record of an accepted call. *)
LEMMA AppendWritten ==
    ASSUME NEW records, Written(records), NEW start, StartsWith(records, start),
           NEW event \in Events
    PROVE  LET long == Append(records, event) IN
           /\ long \in Seq(Events)
           /\ Written(long)
           /\ StartsWith(long, start)
           /\ replay(long) = replayNext(replay(records), event)
<1> DEFINE long == Append(records, event)
<1>1. records \in Seq(Events)
  BY Zenon DEF Written
<1>2. long \in Seq(Events)
  BY <1>1
<1>3. Written(long) /\ replay(long) = replayNext(replay(records), event)
  BY WrittenAppend, Zenon
<1>4. StartsWith(long, start)
  <2>1. Len(long) = Len(records) + 1 /\ Len(records) \in Nat
    BY <1>1
  <2>2. \A i \in 1..Len(records) : long[i] = records[i]
    BY <1>1
  <2>3. Len(start) <= Len(records) /\ \A i \in 1..Len(start) : records[i] = start[i]
    BY Zenon DEF StartsWith
  <2> HIDE DEF long
  <2> QED BY <2>1, <2>2, <2>3 DEF StartsWith
<1> QED BY <1>2, <1>3, <1>4, Zenon

(* What is known of the journal once an accepted call has appended its     *)
(* record.                                                                 *)
LEMMA AppendRecord ==
    ASSUME NEW event, NEW result, DurableInv, status = "open", Fits(event, result),
           result.failure = "none"
    PROVE  LET long == Append(file, event) IN
           /\ Written(long)
           /\ StartsWith(long, promised)
           /\ Current(long, result.state, PlansWith(event), unrecorded)
           /\ (unrecorded = {} /\ ~outrun /\ ~Outruns(event)) => Recoverable(long)
<1> DEFINE long == Append(file, event)
           e == replay(file).state
<1>1. /\ event \in Events
      /\ Written(file) /\ StartsWith(file, promised)
      /\ Current(file, engine, plans, unrecorded)
      /\ file \in Seq(Events)
      /\ file \in survivors
  BY Zenon DEF DurableInv, Fits, Written
<1>2. /\ Written(long) /\ StartsWith(long, promised)
      /\ replay(long) = replayNext(replay(file), event)
  BY <1>1, AppendWritten, Zenon
<1>3. ASSUME Recoverable(file)
      PROVE  replay(long) = replayRecord(e, event)
  BY <1>2, <1>3, Zenon DEF Recoverable, replayNext
<1>4. Recoverable(long) => Recoverable(file)
  <2>1. replay(long).failure = "none" => replay(file).failure = "none"
    BY <1>2, Zenon DEF replayNext
  <2>2. PlansAgree(long) => PlansAgree(file)
    BY <1>1, PlansAgreeBefore, Zenon
  <2> QED BY <2>1, <2>2, Zenon DEF Recoverable
<1>5. ASSUME Recoverable(file)
      PROVE  /\ PlansAgree(long)
             /\ plansFromRecords(long) = PlansWith(event)
  <2>1. plansFromRecords(file) = plans /\ PlansAgree(file)
    BY <1>1, <1>5, Zenon DEF Current, Recoverable
  <2>2. CASE event.kind = "plan_completed"
    <3>1. event \in Plans /\ plans[event.snapshot] = NoPlan
      BY <2>2, Zenon DEF Fits
    <3>2. /\ PlansAgree(file) => PlansAgree(long)
          /\ plansFromRecords(long) =
               [plansFromRecords(file) EXCEPT ![event.snapshot] =
                  [policy |-> event.policy, batch |-> event.batch]]
      BY <1>1, <2>1, <3>1, PlanAddsPlan, Zenon
    <3> QED BY <2>1, <2>2, <3>2, Zenon DEF PlansWith
  <2>3. CASE event.kind # "plan_completed"
    <3>1. /\ PlansAgree(file) => PlansAgree(long)
          /\ plansFromRecords(long) = plansFromRecords(file)
      BY <1>1, <2>3, MutationKeepsPlans, Zenon
    <3> QED BY <2>1, <2>3, <3>1, Zenon DEF PlansWith
  <2> QED BY <2>2, <2>3, Zenon
<1>6. Current(long, result.state, PlansWith(event), unrecorded)
  <2> SUFFICES ASSUME Recoverable(long)
               PROVE  /\ Follows(replay(long).state, result.state, unrecorded)
                      /\ plansFromRecords(long) = PlansWith(event)
    BY Zenon DEF Current
  <2>1. Recoverable(file) /\ replay(long).failure = "none"
    BY <1>4, Zenon DEF Recoverable
  <2>2. replay(long) = replayRecord(e, event)
    BY <1>3, <2>1, Zenon
  <2>3. Follows(e, engine, unrecorded)
    BY <1>1, <2>1, Zenon DEF Current
  <2>4. Follows(replayRecord(e, event).state, result.state, unrecorded)
    BY <2>1, <2>2, <2>3, Zenon DEF Fits
  <2> QED BY <1>5, <2>1, <2>2, <2>4, Zenon
<1>7. ASSUME unrecorded = {}, ~outrun, ~Outruns(event)
      PROVE  Recoverable(long)
  <2>1. Recoverable(file)
    BY <1>1, <1>7, Zenon DEF DurableInv
  <2>2. Follows(e, engine, {})
    BY <1>1, <1>7, <2>1, Zenon DEF Current
  <2>3. replayRecord(e, event).failure = "none"
    BY <1>7, <2>2, Zenon DEF Fits
  <2> QED BY <1>3, <1>5, <2>1, <2>3, Zenon DEF Recoverable
<1> QED BY <1>2, <1>6, <1>7, Zenon

(* A call keeps the invariant, however it ends. *)
LEMMA CallStep ==
    ASSUME NEW event, NEW result, DurableInv, Fits(event, result),
           Call(event, result), workload' = workload
    PROVE  DurableInv'
<1> DEFINE long == Append(file, event)
<1>1. /\ status = "open" /\ clock' = clock
      /\ workload \in Workloads /\ clock \in Nat
      /\ EngineOK(engine)
      /\ plans = [n \in SnapshotIds |-> plans[n]]
      /\ unrecorded \subseteq ReservationIds
      /\ file \in survivors
      /\ \A records \in survivors : Written(records) /\ StartsWith(records, promised)
      /\ Current(file, engine, plans, unrecorded)
      /\ (unrecorded = {} /\ ~outrun) => \A records \in survivors : Recoverable(records)
      /\ EngineOK(result.state) /\ event \in Events
  BY Zenon DEF DurableInv, Call, Fits
<1>2. CASE result.failure # "none"
  <2> DEFINE more == Withdrawn(engine.coordinator, result.state.coordinator)
  <2>1. /\ engine' = result.state
        /\ unrecorded' = unrecorded \cup more
        /\ UNCHANGED <<plans, file, survivors, status, promised, outrun>>
    BY <1>2, Zenon DEF Call, Withdrawn
  <2>2. more \subseteq ReservationIds
    BY Zenon DEF Withdrawn
  <2>3. Current(file, result.state, plans, unrecorded \cup more)
    BY <1>1, <1>2, Zenon DEF Current, Fits
  <2> HIDE DEF more
  <2>4. unrecorded' \subseteq ReservationIds /\ (unrecorded' = {} => unrecorded = {})
    BY <1>1, <2>1, <2>2, Zenon
  <2> QED BY <1>1, <2>1, <2>3, <2>4, Zenon DEF DurableInv
<1>3. CASE result.failure = "none"
  <2>0. /\ unrecorded' = unrecorded
        /\ outrun' = (outrun \/ Outruns(event))
        /\ \/ Persisted(event, result.state)
           \/ AppendFailed(event, result.state)
           \/ DiedInAppend(event)
    BY <1>3, Zenon DEF Call
  <2>1. /\ Written(long) /\ StartsWith(long, promised)
        /\ Current(long, result.state, PlansWith(event), unrecorded)
        /\ (unrecorded = {} /\ ~outrun /\ ~Outruns(event)) => Recoverable(long)
    BY <1>1, <1>3, AppendRecord, Zenon
  <2>2. \A records \in survivors \cup {long} :
          /\ Written(records) /\ StartsWith(records, promised)
          /\ (unrecorded' = {} /\ ~outrun') => Recoverable(records)
    BY <1>1, <2>0, <2>1, Zenon
  <2>3. CASE Persisted(event, result.state)
    <3>1. /\ file' = long /\ survivors' = {long} /\ engine' = result.state
          /\ status' = status
          /\ plans' = PlansWith(event)
          /\ promised' \in {promised, long}
      BY <2>3, Zenon DEF Persisted, PlansWith
    <3>2. plans' = [n \in SnapshotIds |-> plans'[n]]
      BY <1>1, <3>1, Zenon DEF PlansWith
    <3>3. StartsWith(long, long)
      <4>1. long \in Seq(Events) BY <2>1, Zenon DEF Written
      <4> HIDE DEF long
      <4> QED BY <4>1 DEF StartsWith
    <3> HIDE DEF long
    <3> QED BY <1>1, <2>0, <2>1, <2>2, <3>1, <3>2, <3>3, Zenon DEF DurableInv
  <2>4. CASE AppendFailed(event, result.state)
    <3>1. /\ file' \in {file, long}
          /\ survivors' = survivors \cup {long}
          /\ promised' = promised
          /\ \/ Recover(file') /\ status' = status
             \/ status' = "poisoned" /\ engine' = result.state /\ plans' = plans
      BY <2>4, Zenon DEF AppendFailed
    <3>2. file' \in survivors' /\ Written(file')
      BY <1>1, <2>1, <3>1, Zenon
    <3>3. CASE Recover(file') /\ status' = status
      <4>1. engine' = replay(file').state /\ plans' = plansFromRecords(file')
        BY <3>3, Zenon DEF Recover, Recovered
      <4>2. EngineOK(engine')
        BY <3>2, <4>1, Zenon DEF Written
      <4>3. plans' = [n \in SnapshotIds |-> plans'[n]]
        BY <4>1, Zenon DEF plansFromRecords
      <4>4. Current(file', engine', plans', unrecorded')
        BY <4>1, FollowsItself, Zenon DEF Current
      <4> HIDE DEF long
      <4> QED BY <1>1, <2>0, <2>2, <3>1, <3>2, <3>3, <4>2, <4>3, <4>4, Zenon DEF DurableInv
    <3>4. CASE status' = "poisoned" /\ engine' = result.state /\ plans' = plans
      <4> HIDE DEF long
      <4> QED BY <1>1, <2>0, <2>2, <3>1, <3>2, <3>4, Zenon DEF DurableInv
    <3> QED BY <3>1, <3>3, <3>4, Zenon
  <2>5. CASE DiedInAppend(event)
    <3>1. /\ \/ file' = file /\ survivors' = survivors
             \/ file' = long /\ survivors' \in {survivors \cup {long}, {long}}
          /\ Stopped
          /\ promised' = promised
      BY <2>5, Zenon DEF DiedInAppend
    <3>2. file' \in survivors' /\ survivors' \subseteq survivors \cup {long}
      BY <1>1, <3>1, Zenon
    <3>3. status' = "down" /\ engine' = NewEngine /\ plans' = NoPlans
      BY <3>1, Zenon DEF Stopped
    <3>4. EngineOK(engine') /\ plans' = [n \in SnapshotIds |-> plans'[n]]
      BY <3>3, NewEngineOK, Zenon DEF NoPlans
    <3> HIDE DEF long
    <3> QED BY <1>1, <2>0, <2>2, <3>1, <3>2, <3>3, <3>4, Zenon DEF DurableInv
  <2> QED BY <2>0, <2>3, <2>4, <2>5, Zenon
<1> QED BY <1>2, <1>3, Zenon

(* A mutation, accepted or refused, journalled or failing to be. *)
LEMMA MutateStep ==
    ASSUME NEW event \in Mutations, DurableInv, Mutate(event), workload' = workload
    PROVE  DurableInv'
<1> DEFINE e == replay(file).state
<1>1. PICK result : result = engineCall(engine, event)
  BY Zenon
<1>2. Call(event, result)
  BY <1>1, Zenon DEF Mutate
<1>3. EngineOK(e) /\ EngineOK(engine)
  BY Zenon DEF DurableInv, Written
<1>4. event.kind # "plan_completed"
  BY Zenon DEF Mutations, Registrations, Untimed, Timed
<1>5. replayRecord(e, event) = engineCall(e, event)
  BY <1>4, Zenon DEF replayRecord
<1>6. EngineOK(result.state)
  BY <1>1, <1>3, EngineCallInv, Zenon
<1>7. result.failure = "none" =>
        \A U : (Follows(e, engine, U) /\ replayRecord(e, event).failure = "none") =>
                 Follows(replayRecord(e, event).state, result.state, U)
  BY <1>1, <1>3, <1>5, MutationAccepted, Zenon
<1>8. result.failure # "none" =>
        \A U : Follows(e, engine, U) =>
                 Follows(e, result.state,
                         U \cup Withdrawn(engine.coordinator, result.state.coordinator))
  BY <1>1, <1>3, MutationRefused, Zenon
<1>9. ASSUME result.failure = "none", Follows(e, engine, {}), ~Outruns(event)
      PROVE  replayRecord(e, event).failure = "none"
  <2>1. ASSUME "now" \in DOMAIN event, NEW r \in ReservationIds,
               engine.coordinator.reservations[r].status = "expired"
        PROVE  event.now >= engine.coordinator.reservations[r].expiresAt
    <3>1. event.now \in Nat
      BY <2>1 DEF Mutations, Registrations, Untimed, Timed
    <3>2. engine.coordinator.reservations[r].expiresAt \in Nat
      BY <1>3, EngineStruct DEF CoordinatorStruct, ReservationRecord
    <3>3. ~(event.now < engine.coordinator.reservations[r].expiresAt)
      BY <1>9, <2>1, Zenon DEF Outruns
    <3> QED BY <3>1, <3>2, <3>3
  <2>2. engineCall(e, event).failure = engineCall(engine, event).failure
    BY <1>3, <1>9, <2>1, MutationAnswered, Zenon
  <2> QED BY <1>1, <1>5, <1>9, <2>2, Zenon
<1>10. Fits(event, result)
  BY <1>4, <1>6, <1>7, <1>8, <1>9, Zenon DEF Fits, Events
<1> QED BY <1>2, <1>10, CallStep, Zenon

(* A plan, which applies expiry before it is journalled. *)
LEMMA PlanStep ==
    ASSUME DurableInv, PlanCall, workload' = workload
    PROVE  DurableInv'
<1> DEFINE e == replay(file).state
<1>1. PICK n \in Offered.snapshots, version \in Offered.policies, now \in Now :
        IF plans[n] = NoPlan
        THEN LET result == enginePlan(engine, version, now)
             IN Call(PlanEvent(n, version, now, batchOf(result.state.coordinator)), result)
        ELSE /\ status = "open"
             /\ plans[n].policy = version
             /\ answered' = answered \cup {Answer(n, version, plans[n].batch)}
             /\ UNCHANGED <<engine, plans, file, survivors, status, clock, promised,
                            history>>
  BY Zenon DEF PlanCall
<1>2. /\ EngineOK(e) /\ EngineOK(engine)
      /\ workload \in Workloads /\ clock \in Nat
  BY Zenon DEF DurableInv, Written
<1>3. n \in SnapshotIds /\ version \in PolicyVersions /\ now \in Nat
  BY <1>2, DurableAssumption DEF Offered, Now
<1>4. CASE plans[n] = NoPlan
  <2>1. PICK result : result = enginePlan(engine, version, now)
    BY Zenon
  <2>2. PICK event : event = PlanEvent(n, version, now, batchOf(result.state.coordinator))
    BY Zenon
  <2>3. Call(event, result)
    BY <1>1, <1>4, <2>1, <2>2, Zenon
  <2>4. EngineOK(result.state)
    BY <1>2, <1>3, <2>1, EnginePlanInv, Zenon
  <2>5. /\ event \in Plans /\ event.kind = "plan_completed" /\ event.snapshot = n
    <3>1. batchOf(result.state.coordinator) \in Batches
      BY <2>4, EngineStruct, Zenon DEF Batches
    <3> QED BY <1>3, <2>2, <3>1, Zenon DEF Plans, PlanEvent
  <2>6. replayRecord(e, event) = Ok(e)
    BY <2>5, Zenon DEF replayRecord
  <2>7. Ok(e).state = e /\ Ok(e).failure = "none"
    BY Zenon DEF Ok
  <2>8. \A U : Follows(e, engine, U) => Follows(e, result.state, U)
    BY <1>2, <1>3, <2>1, PlanFollows, Zenon
  <2>9. \A U : Follows(e, engine, U) =>
          Follows(e, result.state,
                  U \cup Withdrawn(engine.coordinator, result.state.coordinator))
    <3> TAKE U
    <3> SUFFICES ASSUME Follows(e, engine, U)
                 PROVE  Follows(e, result.state,
                          U \cup Withdrawn(engine.coordinator, result.state.coordinator))
      BY Zenon
    <3>1. Follows(e, result.state, U)
      BY <2>8, Zenon
    <3> QED BY <3>1, LagsMore, Zenon DEF Follows
  <2>10. Fits(event, result)
    BY <1>4, <2>4, <2>5, <2>6, <2>7, <2>8, <2>9, Zenon DEF Fits, Events
  <2> QED BY <2>3, <2>10, CallStep, Zenon
<1>5. CASE plans[n] # NoPlan
  <2>1. UNCHANGED <<engine, plans, file, survivors, status, clock, promised, history>>
    BY <1>1, <1>5, Zenon
  <2> QED BY <2>1, Zenon DEF DurableInv, history, Outruns
<1> QED BY <1>4, <1>5, Zenon

(* The steps that are no call. *)
LEMMA OtherStep ==
    ASSUME DurableInv, Open \/ Exit \/ PowerLoss \/ Tick, workload' = workload
    PROVE  DurableInv'
<1>0. /\ workload \in Workloads /\ clock \in Nat /\ file \in survivors
      /\ unrecorded \subseteq ReservationIds
      /\ \A records \in survivors : Written(records) /\ StartsWith(records, promised)
      /\ (unrecorded = {} /\ ~outrun) => \A records \in survivors : Recoverable(records)
  BY Zenon DEF DurableInv
<1>1. CASE Open
  <2>1. /\ status' = "open" /\ UNCHANGED <<file, survivors, clock, promised, history>>
        /\ engine' = replay(file).state /\ plans' = plansFromRecords(file)
    BY <1>1, Zenon DEF Open, Recover, Recovered
  <2>2. EngineOK(engine')
    BY <1>0, <2>1, Zenon DEF Written
  <2>3. plans' = [n \in SnapshotIds |-> plans'[n]]
    BY <2>1, Zenon DEF plansFromRecords
  <2>4. Current(file', engine', plans', unrecorded')
    BY <2>1, FollowsItself, Zenon DEF Current
  <2> QED BY <1>0, <2>1, <2>2, <2>3, <2>4, Zenon DEF DurableInv, history
<1>2. ASSUME Stopped PROVE /\ status' = "down" /\ EngineOK(engine')
                           /\ plans' = [n \in SnapshotIds |-> plans'[n]]
  BY <1>2, NewEngineOK, Zenon DEF Stopped, NoPlans
<1>3. CASE Exit
  <2>1. UNCHANGED <<file, survivors, clock, promised, history>> /\ Stopped
    BY <1>3, Zenon DEF Exit
  <2> QED BY <1>0, <1>2, <2>1, Zenon DEF DurableInv, history
<1>4. CASE PowerLoss
  <2>1. /\ file' \in survivors /\ survivors' = {file'} /\ Stopped
        /\ UNCHANGED <<clock, promised, history>>
    BY <1>4, Zenon DEF PowerLoss
  <2> QED BY <1>0, <1>2, <2>1, Zenon DEF DurableInv, history
<1>5. CASE Tick
  <2>1. /\ clock' = clock + 1
        /\ UNCHANGED <<engine, plans, file, survivors, status, promised, history>>
    BY <1>5, Zenon DEF Tick
  <2> QED BY <1>0, <2>1 DEF DurableInv, history
<1> QED BY <1>1, <1>3, <1>4, <1>5, Zenon

(* An empty journal and a new engine. *)
LEMMA DurableInit == Init => DurableInv
<1> SUFFICES ASSUME Init PROVE DurableInv
  BY Zenon
<1>1. /\ workload \in Workloads /\ engine = NewEngine /\ plans = NoPlans /\ file = <<>>
      /\ survivors = {<<>>} /\ status = "down" /\ clock = 0 /\ promised = <<>>
      /\ unrecorded = {} /\ outrun = FALSE
  BY Zenon DEF Init
<1>2. /\ replay(<<>>).state = NewEngine /\ replay(<<>>).failure = "none"
  BY ReplayEmpty DEF Ok
<1>3. <<>> \in Seq(Events) /\ Len(<<>>) = 0 /\ DOMAIN <<>> = {}
  OBVIOUS
<1>4. Written(<<>>)
  BY WrittenEmpty, Zenon
<1>5. StartsWith(<<>>, <<>>)
  BY <1>3 DEF StartsWith
<1>6. Recoverable(<<>>)
  BY <1>2, <1>3, Zenon DEF Recoverable, PlansAgree, PlanRecords
<1> QED BY <1>1, <1>4, <1>5, <1>6, NewEngineOK, Zenon DEF DurableInv, NoPlans

(* Every step of the runtime, crashes and recoveries included. *)
LEMMA DurableStep == DurableInv /\ [Next]_vars => DurableInv'
<1> SUFFICES ASSUME DurableInv, [Next]_vars PROVE DurableInv'
  BY Zenon
<1>0. workload \in Workloads /\ clock \in Nat
  BY Zenon DEF DurableInv
<1>1. CASE UNCHANGED vars
  BY <1>1, Zenon DEF vars, history, DurableInv
<1>2. CASE Next
  <2>0. workload' = workload
    BY <1>2, Zenon DEF Next
  <2>1. CASE RegisterPolicyCall
    <3>1. PICK v \in Offered.policies, f \in Offered.fingerprints :
            Mutate([kind |-> "policy_registered", version |-> v, fingerprint |-> f])
      BY <2>1, Zenon DEF RegisterPolicyCall
    <3>2. [kind |-> "policy_registered", version |-> v, fingerprint |-> f] \in Mutations
      BY <1>0, DurableAssumption, Zenon DEF Offered, Mutations, Registrations
    <3> QED BY <2>0, <3>1, <3>2, MutateStep, Zenon
  <2>2. CASE SubmitMatchTicket
    <3>1. PICK offer \in Offered.matches :
            Mutate([kind |-> "match_ticket_submitted", id |-> offer.id, ticket |-> offer.ticket])
      BY <2>2, Zenon DEF SubmitMatchTicket
    <3>2. [kind |-> "match_ticket_submitted", id |-> offer.id, ticket |-> offer.ticket]
            \in Mutations
      BY <1>0, DurableAssumption, Zenon DEF Offered, Mutations, Untimed
    <3> QED BY <2>0, <3>1, <3>2, MutateStep, Zenon
  <2>3. CASE SubmitBackfillTicket
    <3>1. PICK offer \in Offered.backfills :
            Mutate([kind |-> "backfill_ticket_submitted", id |-> offer.id, ticket |-> offer.ticket])
      BY <2>3, Zenon DEF SubmitBackfillTicket
    <3>2. [kind |-> "backfill_ticket_submitted", id |-> offer.id, ticket |-> offer.ticket]
            \in Mutations
      BY <1>0, DurableAssumption, Zenon DEF Offered, Mutations, Untimed
    <3> QED BY <2>0, <3>1, <3>2, MutateStep, Zenon
  <2>4. CASE CancelMatchTicketCall
    <3>1. PICK offer \in Offered.matches :
            Mutate([kind |-> "match_ticket_cancelled", id |-> offer.id,
                    revision |-> offer.ticket.revision])
      BY <2>4, Zenon DEF CancelMatchTicketCall
    <3>2. offer.id \in TicketIds /\ offer.ticket.revision \in Nat
      BY <1>0, DurableAssumption, Zenon DEF Offered, MatchTicket
    <3>3. [kind |-> "match_ticket_cancelled", id |-> offer.id,
           revision |-> offer.ticket.revision] \in Mutations
      BY <3>2, Zenon DEF Mutations, Untimed
    <3> QED BY <2>0, <3>1, <3>3, MutateStep, Zenon
  <2>5. CASE CancelBackfillTicketCall
    <3>1. PICK offer \in Offered.backfills :
            Mutate([kind |-> "backfill_ticket_cancelled", id |-> offer.id,
                    revision |-> offer.ticket.revision,
                    rosterVersion |-> offer.ticket.rosterVersion])
      BY <2>5, Zenon DEF CancelBackfillTicketCall
    <3>2. /\ offer.id \in TicketIds /\ offer.ticket.revision \in Nat
          /\ offer.ticket.rosterVersion \in Nat
      BY <1>0, DurableAssumption, Zenon DEF Offered, BackfillTicket
    <3>3. [kind |-> "backfill_ticket_cancelled", id |-> offer.id,
           revision |-> offer.ticket.revision,
           rosterVersion |-> offer.ticket.rosterVersion] \in Mutations
      BY <3>2, Zenon DEF Mutations, Untimed
    <3> QED BY <2>0, <3>1, <3>3, MutateStep, Zenon
  <2>6. CASE ReserveCall
    <3>1. PICK p \in Reservable, r \in ReservationIds, now \in Now :
            Mutate([kind |-> "proposal_reserved", proposal |-> p,
                    reservation |-> r, now |-> now])
      BY <2>6, Zenon DEF ReserveCall
    <3>2. p \in MatchProposal /\ now \in Nat
      BY <1>0 DEF Reservable, Now
    <3>3. [kind |-> "proposal_reserved", proposal |-> p, reservation |-> r, now |-> now]
            \in Mutations
      BY <3>2, Zenon DEF Mutations, Timed
    <3> QED BY <2>0, <3>1, <3>3, MutateStep, Zenon
  <2>7. CASE ConfirmCall
    <3>1. PICK r \in ReservationIds, a \in AssignmentIds, now \in Now :
            Mutate([kind |-> "reservation_confirmed", reservation |-> r,
                    assignment |-> a, now |-> now])
      BY <2>7, Zenon DEF ConfirmCall
    <3>2. now \in Nat
      BY <1>0 DEF Now
    <3>3. [kind |-> "reservation_confirmed", reservation |-> r, assignment |-> a, now |-> now]
            \in Mutations
      BY <3>2, Zenon DEF Mutations, Timed
    <3> QED BY <2>0, <3>1, <3>3, MutateStep, Zenon
  <2>8. CASE CancelReservation
    <3>1. PICK r \in ReservationIds, now \in Now :
            Mutate([kind |-> "reservation_cancelled", reservation |-> r, now |-> now])
      BY <2>8, Zenon DEF CancelReservation
    <3>2. now \in Nat
      BY <1>0 DEF Now
    <3>3. [kind |-> "reservation_cancelled", reservation |-> r, now |-> now] \in Mutations
      BY <3>2, Zenon DEF Mutations, Timed
    <3> QED BY <2>0, <3>1, <3>3, MutateStep, Zenon
  <2>9. CASE AcknowledgeCall
    <3>1. PICK a \in AssignmentIds, request \in Offered.acknowledgments :
            Mutate([kind |-> "assignment_acknowledged", assignment |-> a, request |-> request])
      BY <2>9, Zenon DEF AcknowledgeCall
    <3>2. [kind |-> "assignment_acknowledged", assignment |-> a, request |-> request]
            \in Mutations
      BY <1>0, DurableAssumption, Zenon DEF Offered, Mutations, Untimed
    <3> QED BY <2>0, <3>1, <3>2, MutateStep, Zenon
  <2> QED BY <1>2, <2>0, <2>1, <2>2, <2>3, <2>4, <2>5, <2>6, <2>7, <2>8, <2>9,
             PlanStep, OtherStep, Zenon DEF Next
<1> QED BY <1>1, <1>2, Zenon

(* The inductive invariant holds in every reachable state. *)
LEMMA DurableInvariance == Spec => []DurableInv
BY DurableInit, DurableStep, PTL DEF Spec

-----------------------------------------------------------------------------
(* The theorems. *)

(* The memory of the runtime keeps the shape of the Go types, through      *)
(* calls, failed appends, crashes and recoveries.                          *)
THEOREM DurableTypeCorrect == Spec => []TypeOK
<1>1. DurableInv => TypeOK
  BY Zenon DEF DurableInv, TypeOK, EngineOK
<1> QED BY <1>1, DurableInvariance, PTL

(* Whatever process or machine failure follows, the journal starts with    *)
(* every record up to the last mutation that was reported: persistLocked   *)
(* returns nil only after journal.append has synced the record.            *)
THEOREM ReportedMutationsSurvive == Spec => []ReportedSurvives
<1>1. DurableInv => ReportedSurvives
  BY Zenon DEF DurableInv, ReportedSurvives, Recoveries, StartsWith
<1> QED BY <1>1, DurableInvariance, PTL

(* Open replays every journal that the runtime wrote, after any crash, as  *)
(* long as no Confirm was refused for stale input and no call was accepted *)
(* as of a time before an expiry already made.                             *)
THEOREM RestartsSucceed == Spec => []RestartSucceedsUnlessStale
<1>1. DurableInv => RestartSucceedsUnlessStale
  BY Zenon DEF DurableInv, RestartSucceedsUnlessStale, RestartSucceeds, Recoveries
<1> QED BY <1>1, DurableInvariance, PTL

(* Replaying the journal of an open runtime gives back its policies, its   *)
(* tickets, its players, its assignments and its plans; a reservation may  *)
(* only be less far along, by an expiry or by a cancellation that a        *)
(* refused Confirm has made.                                               *)
THEOREM RecoveriesAgree == Spec => []RecoveryAgrees
<1>1. ASSUME DurableInv PROVE RecoveryAgrees
  <2> DEFINE e == replay(file).state
             c == e.coordinator
             d == engine.coordinator
  <2> SUFFICES ASSUME status = "open", replay(file).failure = "none", PlansAgree(file)
               PROVE  Agrees(e, engine) /\ plansFromRecords(file) = plans
    BY Zenon DEF RecoveryAgrees, RecoveredAgrees
  <2>1. /\ Follows(e, engine, unrecorded) /\ plansFromRecords(file) = plans
        /\ EngineOK(e) /\ EngineOK(engine)
    BY <1>1, Zenon DEF DurableInv, Current, Recoverable, Written
  <2>2. /\ e.policies = engine.policies
        /\ SameDemand(c, d)
        /\ \A r \in ReservationIds :
             Lag(r, c.reservations[r], d.reservations[r], unrecorded)
    BY <2>1, Zenon DEF Follows, Lags
  <2>3. c \in CoordinatorStruct /\ d \in CoordinatorStruct
    BY <2>1, EngineStruct, Zenon
  <2> HIDE DEF c, d
  <2>4. ASSUME NEW r \in ReservationIds
        PROVE  Behind(r, c.reservations[r], d.reservations[r])
    <3> DEFINE is == c.reservations[r]
               was == d.reservations[r]
    <3>1. is \in ReservationRecord /\ was \in ReservationRecord
      BY <2>3, Zenon DEF CoordinatorStruct
    <3>2. Lag(r, is, was, unrecorded)
      BY <2>2, Zenon
    <3> HIDE DEF is, was
    <3>3. CASE is.status = was.status
      <4>1. is = was BY <3>1, <3>2, <3>3, SameReservation, Zenon DEF Lag
      <4> QED BY <4>1, Zenon DEF Behind, is, was
    <3>4. CASE is.status # was.status
      <4>1. /\ was.status \in {"cancelled", "expired"}
            /\ is.status \in {"active", "expired"}
            /\ is.status = IF r \in unrecorded THEN is.status ELSE "active"
        BY <3>2, <3>4, Zenon DEF Lag
      <4>2. is.status \in ReservationStatuses
        BY <4>1, Zenon DEF ReservationStatuses
      <4>3. LET ended == [was EXCEPT !.status = is.status] IN
            /\ ended \in ReservationRecord
            /\ ended.status = is.status
            /\ ended.proposal = was.proposal
            /\ ended.expiresAt = was.expiresAt
            /\ ended.assignment = was.assignment
        BY <3>1, <4>2, StatusFields, Zenon
      <4>4. is = [was EXCEPT !.status = is.status]
        BY <3>1, <3>2, <4>3, SameReservation, Zenon DEF Lag
      <4>5. is = [was EXCEPT !.status = IF r \in unrecorded THEN is.status ELSE "active"]
        BY <4>1, <4>4, Zenon
      <4> QED BY <4>1, <4>5, Zenon DEF Behind, is, was
    <3> QED BY <3>3, <3>4, Zenon
  <2>5. \A field \in {"matchTickets", "backfillTickets", "playerTickets", "assignments"} :
          c[field] = d[field]
    BY <2>2, Zenon DEF SameDemand
  <2> QED BY <2>1, <2>2, <2>4, <2>5, Zenon DEF Agrees, c, d
<1> QED BY <1>1, DurableInvariance, PTL

(* Whatever journal the writer left, the tickets, assignments and          *)
(* reservations in the maps of buildLegacyImportModel are those that Open  *)
(* would have recovered, but for the tickets of repeated confirmations and *)
(* for expiries that plans made; an active reservation has its claims and  *)
(* a proposal of one of the runs.                                          *)
THEOREM ImportedMapsAgree == Spec => []ImportAgrees
<1>1. ASSUME DurableInv PROVE ImportAgrees
  <2> SUFFICES ASSUME Importing, Imported.failure = "none"
               PROVE  MapsAgree(file, Imported.state, Remembered)
    BY Zenon DEF ImportAgrees
  <2>1. Written(file)
    BY <1>1, Zenon DEF DurableInv
  <2>2. replay(file).failure = "none"
    BY Zenon DEF Importing, Recoverable
  <2>3. Imported = applyAll(file)
    BY <2>2, Zenon DEF Imported, buildLegacyImportModel
  <2>4. /\ EngineOK(replay(file).state)
        /\ Mirrors(file, Imported.state)
        /\ Follows(replay(file).state, Imported.state.engine, {})
    BY <2>1, <2>2, <2>3, Zenon DEF Written
  <2> QED BY <2>4, MirrorsAgree, Zenon DEF Remembered
<1> QED BY <1>1, DurableInvariance, PTL

=============================================================================
