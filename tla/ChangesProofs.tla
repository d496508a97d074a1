---------------------------- MODULE ChangesProofs ----------------------------
(***************************************************************************)
(* Proofs that Pending changes are safe to commit.  A commit has an effect *)
(* that depends on its changes alone (Effect).  The effect of Pending      *)
(* changes keeps a Sound scope Sound, one conjunct of Sound after the      *)
(* other (SoundStep), and every resource goes on as it may (FollowsStep).  *)
(* Changes that are Pending stay so when another call commits              *)
(* (PendingStable).                                                        *)
(***************************************************************************)
EXTENDS Changes, TLAPS

(* A resource as a change leaves it. *)
Stored(m, version) ==
    [version |-> version, payload |-> m.payload, deleted |-> m.change = "delete"]

(* The changes ch take the contents s to d. *)
Effect(s, d, ch) ==
    /\ d.version = s.version + 1
    /\ \A k \in Keys :
         \/ /\ \A m \in ch : m.key # k
            /\ d.resources[k] = s.resources[k]
         \/ \E m \in ch :
              /\ m.key = k
              /\ m.expected = s.resources[k].version
              /\ d.resources[k] = Stored(m, d.version)

(* A transaction that is accepted writes all its changes, each at the      *)
(* version it expects, and nothing else.                                   *)
LEMMA AppliedEffect ==
    ASSUME NEW s, NEW op, NEW ch, Accepted(s, op, Normalized(ch)),
           \A m \in ch : m.change \in {"put", "delete"}
    PROVE  Effect(s, applied(s, op, Normalized(ch), s.version + 1), ch)
<1>. DEFINE M == Normalized(ch)
            d == applied(s, op, M, s.version + 1)
<1>1. Accepted(s, op, M)
  BY Zenon
<1>2. d.version = s.version + 1
  BY Zenon DEF applied
<1>3. ASSUME NEW k \in Keys
      PROVE  \/ /\ \A m \in ch : m.key # k
                /\ d.resources[k] = s.resources[k]
             \/ \E m \in ch :
                  /\ m.key = k
                  /\ m.expected = s.resources[k].version
                  /\ d.resources[k] = Stored(m, d.version)
  <2>1. CASE \A m \in ch : m.key # k
    <3>1. M[k] = NoMutation
      BY <2>1, Zenon DEF Normalized
    <3>2. k \notin Written(M)
      BY <3>1 DEF Written, NoMutation
    <3>. QED BY <2>1, <3>2, Zenon DEF applied
  <2>2. CASE \E m \in ch : m.key = k
    <3>. DEFINE m == CHOOSE m \in ch : m.key = k
    <3>1. m \in ch /\ m.key = k
      BY <2>2, Zenon
    <3>2. M[k] = [change |-> m.change, expected |-> m.expected, payload |-> m.payload]
      BY <2>2, Zenon DEF Normalized
    <3>3. k \in Written(M)
      BY <3>1, <3>2 DEF Written
    <3>4. s.resources[k].version = m.expected
      BY <1>1, <3>2, <3>3 DEF Accepted, Conflicts, Actual
    <3>5. d.resources[k] = Stored(m, d.version)
      BY <3>2, <3>3 DEF applied, Stored
    <3>. QED BY <3>1, <3>4, <3>5, Zenon
  <2>. QED BY <2>1, <2>2, Zenon
<1>. QED BY <1>2, <1>3, Zenon DEF Effect

-----------------------------------------------------------------------------
(* Keys and changes. *)

(* What a written resource has. *)
LEMMA StoredFields ==
    ASSUME NEW m, NEW version
    PROVE  LET new == Stored(m, version)
           IN /\ new.version = version
              /\ new.payload = m.payload
              /\ new.deleted \in BOOLEAN
              /\ new.deleted <=> m.change = "delete"
BY Zenon DEF Stored

(* The keys of the resources of each kind. *)
LEMMA KeyOf ==
    /\ \A r \in ReservationIds : <<"reservation", r>> \in Keys
    /\ \A t \in TicketIds, kind \in {"match_ticket", "backfill_ticket", "demand_identity",
                                     "demand_reservation_claim"} : <<kind, t>> \in Keys
    /\ \A session \in SessionIds : <<"backfill_session_claim", session>> \in Keys
    /\ \A p \in ProposalIds : <<"proposal", p>> \in Keys
    /\ \A a \in AssignmentIds, kind \in {"assignment", "assignment_acknowledgment"} :
         <<kind, a>> \in Keys
    /\ \A o \in OperationIds : <<"operation_result", o>> \in Keys
    /\ \A v \in PolicyVersions : <<"policy", v>> \in Keys
    /\ \A run \in RunIds, kind \in {"planning_run", "planning_snapshot"} : <<kind, run>> \in Keys
    /\ \A run \in RunIds, t \in TicketIds : <<"planning_unmatched", <<run, t>>>> \in Keys
BY Zenon DEF Keys

(* Changes that spare a kind write no resource of it. *)
LEMMA SparesKey ==
    ASSUME NEW ch, NEW kinds, NEW kind \in kinds, NEW id, Spares(ch, kinds)
    PROVE  \A m \in ch : m.key # <<kind, id>>
BY DEF Spares

(* A demand names tickets of the scope. *)
LEMMA ReferencesTyped ==
    ASSUME NEW demand, Known(demand)
    PROVE  References(demand) \subseteq TicketIds
BY Zenon DEF Known, References, Supply

(* A commit that takes s to d writes the change m at the key k. *)
Writes(s, d, k, m) ==
    /\ m.key = k
    /\ Prepared(s, m)
    /\ m.expected = s.resources[k].version
    /\ d.resources[k] = Stored(m, s.version + 1)

(* What is known of a resource that a commit writes. *)
LEMMA WrittenFields ==
    ASSUME NEW s, NEW d, NEW k, NEW m, Writes(s, d, k, m)
    PROVE  /\ m.key = k
           /\ m.expected = s.resources[k].version
           /\ d.resources[k].version = s.version + 1
           /\ d.resources[k].payload = m.payload
           /\ d.resources[k].deleted \in BOOLEAN
           /\ d.resources[k].deleted <=> m.change = "delete"
           /\ m.change \in {"put", "delete"}
           /\ Legal(s.resources[k], m)
           /\ m.change = "put" => ValueOK(k[1], m.payload)
           /\ k[1] \in PutOnly => m.change = "put"
BY StoredFields DEF Writes, Prepared

(* A resource that a change names is written by one of the changes. *)
LEMMA WrittenKey ==
    ASSUME NEW s, NEW d, NEW ch, NEW k \in Keys, Effect(s, d, ch),
           \A m \in ch : Prepared(s, m), \E m \in ch : m.key = k
    PROVE  \E m \in ch : Writes(s, d, k, m)
<1>1. PICK m \in ch : /\ m.key = k
                      /\ m.expected = s.resources[k].version
                      /\ d.resources[k] = Stored(m, d.version)
  BY Zenon DEF Effect
<1>2. Prepared(s, m) /\ d.version = s.version + 1
  BY Zenon DEF Effect
<1>3. Writes(s, d, k, m)
  BY <1>1, <1>2, Zenon DEF Writes
<1>. QED BY <1>3, Zenon

(* A resource that no change names stays as it is. *)
LEMMA OtherKey ==
    ASSUME NEW s, NEW d, NEW ch, NEW k \in Keys, Effect(s, d, ch), \A m \in ch : m.key # k
    PROVE  d.resources[k] = s.resources[k]
BY Zenon DEF Effect

(* A resource stays as it is or is written by one of the changes. *)
LEMMA EitherKey ==
    ASSUME NEW s, NEW d, NEW ch, NEW k \in Keys, Effect(s, d, ch),
           \A m \in ch : Prepared(s, m)
    PROVE  d.resources[k] = s.resources[k] \/ \E m \in ch : Writes(s, d, k, m)
BY WrittenKey, OtherKey, Zenon

(* A resource of a kind that is spared stays as it is. *)
LEMMA SparedKey ==
    ASSUME NEW s, NEW d, NEW ch, NEW kinds, NEW kind \in kinds, NEW id,
           <<kind, id>> \in Keys, Effect(s, d, ch), Spares(ch, kinds)
    PROVE  Get(d, kind, id) = Get(s, kind, id)
BY OtherKey, SparesKey DEF Get

-----------------------------------------------------------------------------
(* Reservations and their claims. *)

(* The commit of Reserve gives the new reservation its claims, and takes   *)
(* none from another.                                                      *)
LEMMA StartsExact ==
    ASSUME NEW s, NEW d, NEW ch, NEW r \in ReservationIds, NEW demand, Sound(s), Effect(s, d, ch),
           \A m \in ch : Prepared(s, m), Whole(ch, r, demand, "start")
    PROVE  ClaimsExact(d)
<1>. DEFINE res(x) == <<"reservation", x>>
            claim(t) == <<"demand_reservation_claim", t>>
            refs == References(demand)
<1>1. refs \subseteq TicketIds
  BY ReferencesTyped, Zenon DEF Whole
<1>2. /\ s.resources[res(r)].version = 0
      /\ d.resources[res(r)].version # 0
      /\ ~d.resources[res(r)].deleted
      /\ d.resources[res(r)].payload.status = "active"
      /\ d.resources[res(r)].payload.demand = demand
  <2>1. res(r) \in Keys
    BY <1>1, KeyOf, Zenon
  <2>2. \E m \in ch : m.key = res(r)
    BY Zenon DEF Whole, Touches
  <2>3. PICK m \in ch : Writes(s, d, res(r), m)
    BY <2>1, <2>2, WrittenKey, Zenon
  <2>4. m.key = res(r) /\ Legal(s.resources[res(r)], m)
    BY <2>3, WrittenFields
  <2>5. m.payload.demand = demand /\ m.payload.status = "active"
    BY <1>1, <2>4, Zenon DEF Whole
  <2>6. s.resources[res(r)].version = 0
    BY <2>4, <2>5 DEF Legal
  <2>. QED BY <2>3, <2>5, <2>6, WrittenFields DEF Sound, PutOnly
<1>3. ASSUME NEW x \in ReservationIds, x # r
      PROVE  d.resources[res(x)] = s.resources[res(x)]
  <2>1. res(x) \in Keys
    BY KeyOf, Zenon
  <2>2. \A m \in ch : m.key # res(x)
    BY <1>3, Zenon DEF Whole
  <2>. QED BY <2>1, <2>2, OtherKey
<1>4. ASSUME NEW t \in refs
      PROVE  /\ d.resources[claim(t)].version # 0
             /\ ~d.resources[claim(t)].deleted
             /\ d.resources[claim(t)].payload
                  = [reservation |-> r, revision |-> ReferencedRevision(demand, t)]
             /\ s.resources[claim(t)].version = 0 \/ s.resources[claim(t)].deleted
  <2>1. claim(t) \in Keys
    BY <1>1, KeyOf, Zenon
  <2>2. \E m \in ch : m.key = claim(t)
    BY Zenon DEF Whole, Touches
  <2>3. PICK m \in ch : Writes(s, d, claim(t), m)
    BY <2>1, <2>2, WrittenKey, Zenon
  <2>4. m.key = claim(t) /\ Legal(s.resources[claim(t)], m)
    BY <2>3, WrittenFields
  <2>5. /\ m.change = "put"
        /\ m.payload = [reservation |-> r, revision |-> ReferencedRevision(demand, t)]
    BY <1>1, <2>4, Zenon DEF Whole
  <2>6. s.resources[claim(t)].version = 0 \/ s.resources[claim(t)].deleted
    BY <2>4, <2>5 DEF Legal
  <2>. QED BY <2>3, <2>5, <2>6, WrittenFields DEF Sound
<1>5. ASSUME NEW t \in TicketIds, t \notin refs
      PROVE  d.resources[claim(t)] = s.resources[claim(t)]
  <2>1. claim(t) \in Keys
    BY KeyOf, Zenon
  <2>2. \A m \in ch : m.key # claim(t)
    BY <1>5, Zenon DEF Whole
  <2>. QED BY <2>1, <2>2, OtherKey
<1>6. ASSUME NEW x \in ReservationIds, IsActive(d, x)
      PROVE  HoldsClaims(d, x, Read(d, "reservation", x).demand)
  <2>1. CASE x = r
    BY <1>2, <1>4, <2>1, Zenon DEF HoldsClaims, Read, Live, Exists, Get
  <2>2. CASE x # r
    <3>. DEFINE other == Read(s, "reservation", x).demand
    <3>1. /\ IsActive(s, x)
          /\ Read(d, "reservation", x).demand = other
      BY <1>3, <1>6, <2>2, Zenon DEF IsActive, Read, Live, Exists, Get
    <3>2. HoldsClaims(s, x, other)
      BY <3>1, Zenon DEF Sound, ClaimsExact
    <3>3. ValueOK("reservation", Read(s, "reservation", x))
      BY <3>1, KeyOf, Zenon DEF Sound, IsActive, Live, Exists, Read, Get
    <3>4. References(other) \subseteq TicketIds
      BY <3>3, ReferencesTyped, Zenon DEF ValueOK
    <3>5. \A t \in References(other) : d.resources[claim(t)] = s.resources[claim(t)]
      BY <1>4, <1>5, <3>2, <3>4, Zenon DEF HoldsClaims, Live, Exists, Get
    <3>. QED BY <3>1, <3>2, <3>5, Zenon DEF HoldsClaims, Read, Live, Exists, Get
  <2>. QED BY <2>1, <2>2, Zenon
<1>7. ASSUME NEW t \in TicketIds, Live(d, "demand_reservation_claim", t)
      PROVE  LET x == Read(d, "demand_reservation_claim", t).reservation
             IN /\ x \in ReservationIds
                /\ IsActive(d, x)
                /\ t \in References(Read(d, "reservation", x).demand)
  <2>1. CASE t \in refs
    <3>1. Read(d, "demand_reservation_claim", t).reservation = r
      <4>1. d.resources[claim(t)].payload
              = [reservation |-> r, revision |-> ReferencedRevision(demand, t)]
        BY <1>4, <2>1, Zenon
      <4>. QED BY <4>1 DEF Read, Get
    <3>2. IsActive(d, r) /\ Read(d, "reservation", r).demand = demand
      BY <1>2, Zenon DEF IsActive, Read, Live, Exists, Get
    <3>. QED BY <1>1, <2>1, <3>1, <3>2, Zenon
  <2>2. CASE t \notin refs
    <3>. DEFINE x == Read(s, "demand_reservation_claim", t).reservation
    <3>1. /\ Live(s, "demand_reservation_claim", t)
          /\ Read(d, "demand_reservation_claim", t).reservation = x
      BY <1>5, <1>7, <2>2, Zenon DEF Live, Exists, Read, Get
    <3>2. /\ x \in ReservationIds
          /\ IsActive(s, x)
          /\ t \in References(Read(s, "reservation", x).demand)
      BY <3>1, Zenon DEF Sound, ClaimsExact
    <3>3. x # r
      BY <1>2, <3>2, Zenon DEF IsActive, Live, Exists, Get
    <3>. QED BY <1>3, <3>1, <3>2, <3>3, Zenon DEF IsActive, Read, Live, Exists, Get
  <2>. QED BY <2>1, <2>2, Zenon
<1>. QED BY <1>6, <1>7, Zenon DEF ClaimsExact

(* A commit that ends a reservation releases its claims and no others. *)
LEMMA EndsExact ==
    ASSUME NEW s, NEW d, NEW ch, NEW r \in ReservationIds, NEW demand, NEW moment, moment # "start",
           Sound(s), Effect(s, d, ch), \A m \in ch : Prepared(s, m),
           Whole(ch, r, demand, moment)
    PROVE  ClaimsExact(d)
<1>. DEFINE res(x) == <<"reservation", x>>
            claim(t) == <<"demand_reservation_claim", t>>
            refs == References(demand)
<1>1. refs \subseteq TicketIds
  BY ReferencesTyped, Zenon DEF Whole
<1>2. /\ IsActive(s, r)
      /\ Read(s, "reservation", r).demand = demand
      /\ d.resources[res(r)].payload.status # "active"
  <2>1. res(r) \in Keys
    BY <1>1, KeyOf, Zenon
  <2>2. \E m \in ch : m.key = res(r)
    BY Zenon DEF Whole, Touches
  <2>3. PICK m \in ch : Writes(s, d, res(r), m)
    BY <2>1, <2>2, WrittenKey, Zenon
  <2>4. m.key = res(r) /\ Legal(s.resources[res(r)], m)
    BY <2>3, WrittenFields
  <2>5. m.payload.demand = demand /\ m.payload.status # "active"
    BY <1>1, <2>4, Zenon DEF Whole
  <2>6. LET old == s.resources[res(r)]
        IN /\ old.version # 0
           /\ ~old.deleted
           /\ old.payload.status = "active"
           /\ old.payload.demand = demand
    BY <2>4, <2>5 DEF Legal
  <2>. QED BY <2>3, <2>5, <2>6, WrittenFields DEF IsActive, Live, Exists, Read, Get
<1>3. ASSUME NEW x \in ReservationIds, x # r
      PROVE  d.resources[res(x)] = s.resources[res(x)]
  <2>1. res(x) \in Keys
    BY KeyOf, Zenon
  <2>2. \A m \in ch : m.key # res(x)
    BY <1>3, Zenon DEF Whole
  <2>. QED BY <2>1, <2>2, OtherKey
<1>4. ASSUME NEW t \in refs
      PROVE  d.resources[claim(t)].deleted
  <2>1. claim(t) \in Keys
    BY <1>1, KeyOf, Zenon
  <2>2. \E m \in ch : m.key = claim(t)
    BY Zenon DEF Whole, Touches
  <2>3. PICK m \in ch : Writes(s, d, claim(t), m)
    BY <2>1, <2>2, WrittenKey, Zenon
  <2>4. m.key = claim(t) /\ Legal(s.resources[claim(t)], m)
    BY <2>3, WrittenFields
  <2>5. m.change = "delete"
    BY <1>1, <2>4, Zenon DEF Whole
  <2>. QED BY <2>3, <2>5, WrittenFields, Zenon
<1>5. ASSUME NEW t \in TicketIds, t \notin refs
      PROVE  d.resources[claim(t)] = s.resources[claim(t)]
  <2>1. claim(t) \in Keys
    BY KeyOf, Zenon
  <2>2. \A m \in ch : m.key # claim(t)
    BY <1>5, Zenon DEF Whole
  <2>. QED BY <2>1, <2>2, OtherKey
<1>6. HoldsClaims(s, r, demand)
  BY <1>1, <1>2, Zenon DEF Sound, ClaimsExact
<1>7. ASSUME NEW x \in ReservationIds, IsActive(d, x)
      PROVE  HoldsClaims(d, x, Read(d, "reservation", x).demand)
  <2>. DEFINE other == Read(s, "reservation", x).demand
  <2>1. x # r
    BY <1>2, <1>7, Zenon DEF IsActive, Read, Get
  <2>2. /\ IsActive(s, x)
        /\ Read(d, "reservation", x).demand = other
    BY <1>3, <1>7, <2>1, Zenon DEF IsActive, Read, Live, Exists, Get
  <2>3. HoldsClaims(s, x, other)
    BY <2>2, Zenon DEF Sound, ClaimsExact
  <2>4. ValueOK("reservation", Read(s, "reservation", x))
    BY <2>2, KeyOf, Zenon DEF Sound, IsActive, Live, Exists, Read, Get
  <2>5. References(other) \subseteq TicketIds
    BY <2>4, ReferencesTyped, Zenon DEF ValueOK
  <2>6. ASSUME NEW t \in References(other)
        PROVE  t \notin refs
    <3>1. Read(s, "demand_reservation_claim", t).reservation = x
      BY <2>3 DEF HoldsClaims
    <3>2. t \in refs => Read(s, "demand_reservation_claim", t).reservation = r
      BY <1>6 DEF HoldsClaims
    <3>. QED BY <2>1, <3>1, <3>2, Zenon
  <2>7. \A t \in References(other) : d.resources[claim(t)] = s.resources[claim(t)]
    BY <1>5, <2>5, <2>6, Zenon
  <2>. QED BY <2>2, <2>3, <2>7, Zenon DEF HoldsClaims, Read, Live, Exists, Get
<1>8. ASSUME NEW t \in TicketIds, Live(d, "demand_reservation_claim", t)
      PROVE  LET x == Read(d, "demand_reservation_claim", t).reservation
             IN /\ x \in ReservationIds
                /\ IsActive(d, x)
                /\ t \in References(Read(d, "reservation", x).demand)
  <2>. DEFINE x == Read(s, "demand_reservation_claim", t).reservation
  <2>1. t \notin refs
    BY <1>4, <1>8, Zenon DEF Live, Get
  <2>2. /\ Live(s, "demand_reservation_claim", t)
        /\ Read(d, "demand_reservation_claim", t).reservation = x
    BY <1>5, <1>8, <2>1, Zenon DEF Live, Exists, Read, Get
  <2>3. /\ x \in ReservationIds
        /\ IsActive(s, x)
        /\ t \in References(Read(s, "reservation", x).demand)
    BY <2>2, Zenon DEF Sound, ClaimsExact
  <2>4. x # r
    BY <1>2, <2>1, <2>3, Zenon
  <2>. QED BY <1>3, <2>2, <2>3, <2>4, Zenon DEF IsActive, Read, Live, Exists, Get
<1>. QED BY <1>7, <1>8, Zenon DEF ClaimsExact

(* Commits that write neither reservations nor claims keep them exact. *)
LEMMA SparedExact ==
    ASSUME NEW s, NEW d, NEW ch, Sound(s), Effect(s, d, ch),
           Spares(ch, {"reservation", "demand_reservation_claim"})
    PROVE  ClaimsExact(d)
<1>1. ASSUME NEW r \in ReservationIds
      PROVE  Get(d, "reservation", r) = Get(s, "reservation", r)
  <2>1. <<"reservation", r>> \in Keys
    BY KeyOf, Zenon
  <2>. QED BY <2>1, SparedKey
<1>2. ASSUME NEW t \in TicketIds
      PROVE  Get(d, "demand_reservation_claim", t) = Get(s, "demand_reservation_claim", t)
  <2>1. <<"demand_reservation_claim", t>> \in Keys
    BY KeyOf, Zenon
  <2>. QED BY <2>1, SparedKey
<1>3. \A r \in ReservationIds : IsActive(s, r) =>
        References(Read(s, "reservation", r).demand) \subseteq TicketIds
  <2>1. \A r \in ReservationIds : IsActive(s, r) =>
          ValueOK("reservation", Read(s, "reservation", r))
    BY KeyOf, Zenon DEF Sound, IsActive, Live, Exists, Read, Get
  <2>. QED BY <2>1, ReferencesTyped, Zenon DEF ValueOK
<1>4. ClaimsExact(s)
  BY Zenon DEF Sound
<1>5. ASSUME NEW r \in ReservationIds, IsActive(d, r)
      PROVE  HoldsClaims(d, r, Read(d, "reservation", r).demand)
  <2>1. IsActive(s, r) /\ Read(d, "reservation", r) = Read(s, "reservation", r)
    BY <1>1, <1>5, Zenon DEF IsActive, Live, Exists, Read
  <2>. QED BY <1>2, <1>3, <1>4, <2>1, Zenon DEF ClaimsExact, HoldsClaims, Live, Exists, Read
<1>6. ASSUME NEW t \in TicketIds, Live(d, "demand_reservation_claim", t)
      PROVE  LET x == Read(d, "demand_reservation_claim", t).reservation
             IN /\ x \in ReservationIds
                /\ IsActive(d, x)
                /\ t \in References(Read(d, "reservation", x).demand)
  BY <1>1, <1>2, <1>4, <1>6, Zenon DEF ClaimsExact, IsActive, Live, Exists, Read
<1>. QED BY <1>5, <1>6, Zenon DEF ClaimsExact

-----------------------------------------------------------------------------
(* Tickets and their claims. *)

(* Revised, cancelled and consumed tickets keep the claims of the others   *)
(* exact.                                                                  *)
LEMMA KeepsExact ==
    ASSUME NEW s, NEW d, NEW ch, Sound(s), Effect(s, d, ch), \A m \in ch : Prepared(s, m),
           Keeps(ch)
    PROVE  DemandExact(d)
<1>. USE DEF TicketKinds
<1>1. ASSUME NEW t \in TicketIds
      PROVE  Get(d, "demand_identity", t) = Get(s, "demand_identity", t)
  <2>1. <<"demand_identity", t>> \in Keys
    BY KeyOf, Zenon
  <2>. QED BY <2>1, SparedKey DEF Keeps
<1>2. ASSUME NEW x \in SessionIds
      PROVE  Get(d, "backfill_session_claim", x) = Get(s, "backfill_session_claim", x)
  <2>1. <<"backfill_session_claim", x>> \in Keys
    BY KeyOf, Zenon
  <2>. QED BY <2>1, SparedKey DEF Keeps
<1>3. ASSUME NEW t \in TicketIds, NEW kind \in TicketKinds
      PROVE  /\ Exists(d, kind, t) <=> Exists(s, kind, t)
             /\ kind = "backfill_ticket" =>
                  /\ Live(d, kind, t) <=> Live(s, kind, t)
                  /\ Live(s, kind, t) => Read(d, kind, t).session = Read(s, kind, t).session
  <2>. DEFINE k == <<kind, t>>
  <2>1. k \in Keys
    BY KeyOf, Zenon
  <2>2. CASE d.resources[k] = s.resources[k]
    BY <2>2, Zenon DEF Exists, Live, Read, Get
  <2>3. CASE \E m \in ch : Writes(s, d, k, m)
    <3>1. PICK m \in ch : Writes(s, d, k, m)
      BY <2>3, Zenon
    <3>2. /\ m.key = k
          /\ m.expected = s.resources[k].version
          /\ Legal(s.resources[k], m)
      BY <3>1, WrittenFields
    <3>3. /\ s.resources[k].version # 0
          /\ kind = "backfill_ticket" => m.change = "put"
      BY <3>2, Zenon DEF Keeps
    <3>4. ~s.resources[k].deleted
      BY <3>2, <3>3 DEF Legal
    <3>5. kind = "backfill_ticket" => m.payload.session = s.resources[k].payload.session
      BY <3>2, <3>3 DEF Legal
    <3>6. /\ d.resources[k].version # 0
          /\ d.resources[k].payload = m.payload
          /\ d.resources[k].deleted <=> m.change = "delete"
      BY <3>1, WrittenFields DEF Sound
    <3>. QED BY <3>3, <3>4, <3>5, <3>6, Zenon DEF Exists, Live, Read, Get
  <2>. QED BY <2>1, <2>2, <2>3, EitherKey, Zenon
<1>4. DemandExact(s)
  BY Zenon DEF Sound
<1>5. ASSUME NEW t \in TicketIds, NEW kind \in TicketKinds
      PROVE  Exists(d, kind, t) <=> validateDemandIdentity(d, kind, t)
  BY <1>1, <1>3, <1>4 DEF DemandExact, validateDemandIdentity, Live, Exists, Read
<1>6. ASSUME NEW t \in TicketIds, NEW x \in SessionIds
      PROVE  validateBackfillSessionClaim(d, x, t) <=>
               /\ Live(d, "backfill_ticket", t)
               /\ Read(d, "backfill_ticket", t).session = x
  <2>1. validateBackfillSessionClaim(d, x, t) <=> validateBackfillSessionClaim(s, x, t)
    BY <1>2, Zenon DEF validateBackfillSessionClaim, Live, Exists, Read
  <2>2. validateBackfillSessionClaim(s, x, t) <=>
          /\ Live(s, "backfill_ticket", t)
          /\ Read(s, "backfill_ticket", t).session = x
    BY <1>4, Zenon DEF DemandExact
  <2>. QED BY <1>3, <2>1, <2>2, Zenon
<1>. QED BY <1>5, <1>6, Zenon DEF DemandExact

(* A new ticket comes with its identity, and a backfill with its session. *)
LEMMA CreatesExact ==
    ASSUME NEW s, NEW d, NEW ch, Sound(s), Effect(s, d, ch), \A m \in ch : Prepared(s, m),
           NEW t \in TicketIds, NEW kind \in TicketKinds, NEW session,
           Creates(ch, t, kind, session)
    PROVE  DemandExact(d)
<1>. USE DEF TicketKinds
<1>. DEFINE identity(u) == <<"demand_identity", u>>
            claim(x) == <<"backfill_session_claim", x>>
<1>1. /\ s.resources[identity(t)].version = 0
      /\ d.resources[identity(t)].version # 0
      /\ ~d.resources[identity(t)].deleted
      /\ d.resources[identity(t)].payload = [kind |-> kind]
  <2>1. identity(t) \in Keys /\ \E m \in ch : m.key = identity(t)
    BY KeyOf, Zenon DEF Creates, Touches
  <2>2. PICK m \in ch : Writes(s, d, identity(t), m)
    BY <2>1, WrittenKey, Zenon
  <2>3. m.key = identity(t) /\ Legal(s.resources[identity(t)], m)
    BY <2>2, WrittenFields
  <2>4. s.resources[identity(t)].version = 0
    BY <2>3 DEF Legal, Unchanging
  <2>5. m.payload = [kind |-> kind]
    BY <2>3, Zenon DEF Creates
  <2>6. m.change = "put"
    BY <2>2, WrittenFields DEF PutOnly, Unchanging
  <2>. QED BY <2>2, <2>4, <2>5, <2>6, WrittenFields DEF Sound
<1>2. ASSUME NEW u \in TicketIds, u # t
      PROVE  d.resources[identity(u)] = s.resources[identity(u)]
  <2>1. identity(u) \in Keys /\ \A m \in ch : m.key # identity(u)
    BY <1>2, KeyOf, Zenon DEF Creates
  <2>. QED BY <2>1, OtherKey
<1>3. /\ s.resources[<<kind, t>>].version = 0
      /\ d.resources[<<kind, t>>].version # 0
      /\ ~d.resources[<<kind, t>>].deleted
      /\ kind = "backfill_ticket" => d.resources[<<kind, t>>].payload.session = session
  <2>1. <<kind, t>> \in Keys /\ \E m \in ch : m.key = <<kind, t>>
    BY KeyOf, Zenon DEF Creates, Touches
  <2>2. PICK m \in ch : Writes(s, d, <<kind, t>>, m)
    BY <2>1, WrittenKey, Zenon
  <2>3. m.key = <<kind, t>> /\ m.expected = s.resources[<<kind, t>>].version
    BY <2>2, WrittenFields
  <2>4. /\ m.change = "put"
        /\ m.expected = 0
        /\ kind = "backfill_ticket" => m.payload.session = session
    BY <2>3, Zenon DEF Creates
  <2>. QED BY <2>2, <2>3, <2>4, WrittenFields DEF Sound
<1>4. ASSUME NEW u \in TicketIds, NEW any \in TicketKinds, u # t \/ any # kind
      PROVE  d.resources[<<any, u>>] = s.resources[<<any, u>>]
  <2>1. <<any, u>> \in Keys /\ \A m \in ch : m.key # <<any, u>>
    BY <1>4, KeyOf, Zenon DEF Creates
  <2>. QED BY <2>1, OtherKey
<1>5. ASSUME kind = "backfill_ticket"
      PROVE  /\ s.resources[claim(session)].version = 0 \/ s.resources[claim(session)].deleted
             /\ d.resources[claim(session)].version # 0
             /\ ~d.resources[claim(session)].deleted
             /\ d.resources[claim(session)].payload = [ticket |-> t]
  <2>1. claim(session) \in Keys /\ \E m \in ch : m.key = claim(session)
    BY <1>5, KeyOf, Zenon DEF Creates, Touches
  <2>2. PICK m \in ch : Writes(s, d, claim(session), m)
    BY <2>1, WrittenKey, Zenon
  <2>3. m.key = claim(session) /\ Legal(s.resources[claim(session)], m)
    BY <2>2, WrittenFields
  <2>4. m.change = "put" /\ m.payload = [ticket |-> t]
    BY <1>5, <2>3, Zenon DEF Creates
  <2>5. s.resources[claim(session)].version = 0 \/ s.resources[claim(session)].deleted
    BY <2>3, <2>4 DEF Legal
  <2>. QED BY <2>2, <2>4, <2>5, WrittenFields DEF Sound
<1>6. ASSUME NEW x \in SessionIds, x # session \/ kind # "backfill_ticket"
      PROVE  d.resources[claim(x)] = s.resources[claim(x)]
  <2>1. claim(x) \in Keys /\ \A m \in ch : m.key # claim(x)
    BY <1>6, KeyOf, Zenon DEF Creates
  <2>. QED BY <2>1, OtherKey
<1>7. DemandExact(s)
  BY Zenon DEF Sound
<1>8. ASSUME NEW any \in TicketKinds
      PROVE  s.resources[<<any, t>>].version = 0
  BY <1>1, <1>7, Zenon DEF DemandExact, validateDemandIdentity, Live, Exists, Get
<1>9. ASSUME NEW u \in TicketIds, NEW any \in TicketKinds
      PROVE  Exists(d, any, u) <=> validateDemandIdentity(d, any, u)
  <2>1. CASE u # t
    <3>1. Exists(s, any, u) <=> validateDemandIdentity(s, any, u)
      BY <1>7, Zenon DEF DemandExact
    <3>2. Exists(d, any, u) <=> Exists(s, any, u)
      BY <1>4, <2>1, Zenon DEF Exists, Get
    <3>3. validateDemandIdentity(d, any, u) <=> validateDemandIdentity(s, any, u)
      BY <1>2, <2>1, Zenon DEF validateDemandIdentity, Live, Exists, Read, Get
    <3>. QED BY <3>1, <3>2, <3>3, Zenon
  <2>2. CASE u = t
    <3>1. validateDemandIdentity(d, any, t) <=> any = kind
      BY <1>1 DEF validateDemandIdentity, Live, Exists, Read, Get
    <3>2. Exists(d, any, t) <=> any = kind
      BY <1>3, <1>4, <1>8, Zenon DEF Exists, Get
    <3>. QED BY <2>2, <3>1, <3>2, Zenon
  <2>. QED BY <2>1, <2>2, Zenon
<1>10. ASSUME NEW u \in TicketIds, NEW x \in SessionIds
       PROVE  validateBackfillSessionClaim(d, x, u) <=>
                /\ Live(d, "backfill_ticket", u)
                /\ Read(d, "backfill_ticket", u).session = x
  <2>1. validateBackfillSessionClaim(s, x, u) <=>
          /\ Live(s, "backfill_ticket", u)
          /\ Read(s, "backfill_ticket", u).session = x
    BY <1>7, Zenon DEF DemandExact
  <2>2. CASE kind # "backfill_ticket"
    <3>1. d.resources[<<"backfill_ticket", u>>] = s.resources[<<"backfill_ticket", u>>]
      BY <1>4, <2>2, Zenon
    <3>2. d.resources[claim(x)] = s.resources[claim(x)]
      BY <1>6, <2>2, Zenon
    <3>. QED BY <2>1, <3>1, <3>2, Zenon DEF validateBackfillSessionClaim, Live, Exists,
                Read, Get
  <2>3. CASE kind = "backfill_ticket" /\ u # t
    <3>1. /\ Live(d, "backfill_ticket", u) <=> Live(s, "backfill_ticket", u)
          /\ Read(d, "backfill_ticket", u) = Read(s, "backfill_ticket", u)
      BY <1>4, <2>3, Zenon DEF Live, Exists, Read, Get
    <3>2. CASE x # session
      BY <1>6, <2>1, <3>1, <3>2, Zenon DEF validateBackfillSessionClaim, Live, Exists, Read,
         Get
    <3>3. CASE x = session
      <4>1. ~validateBackfillSessionClaim(d, x, u)
        BY <1>5, <2>3, <3>3 DEF validateBackfillSessionClaim, Read, Get
      <4>2. ~validateBackfillSessionClaim(s, x, u)
        BY <1>5, <2>3, <3>3, Zenon DEF validateBackfillSessionClaim, Live, Exists, Get
      <4>. QED BY <2>1, <3>1, <4>1, <4>2, Zenon
    <3>. QED BY <3>2, <3>3, Zenon
  <2>4. CASE kind = "backfill_ticket" /\ u = t
    <3>1. /\ Live(d, "backfill_ticket", t)
          /\ Read(d, "backfill_ticket", t).session = session
      BY <1>3, <2>4, Zenon DEF Live, Exists, Read, Get
    <3>2. CASE x = session
      BY <1>5, <2>4, <3>1, <3>2 DEF validateBackfillSessionClaim, Live, Exists, Read, Get
    <3>3. CASE x # session
      <4>1. ~validateBackfillSessionClaim(s, x, t)
        BY <1>8, <2>1, <2>4, Zenon DEF Live, Exists, Get
      <4>2. ~validateBackfillSessionClaim(d, x, t)
        BY <1>6, <3>3, <4>1, Zenon DEF validateBackfillSessionClaim, Live, Exists, Read, Get
      <4>. QED BY <2>4, <3>1, <3>3, <4>2, Zenon
    <3>. QED BY <3>2, <3>3, Zenon
  <2>. QED BY <2>2, <2>3, <2>4, Zenon
<1>. QED BY <1>9, <1>10, Zenon DEF DemandExact

(* A backfill goes with the claim of its session. *)
LEMMA RemovesExact ==
    ASSUME NEW s, NEW d, NEW ch, Sound(s), Effect(s, d, ch), \A m \in ch : Prepared(s, m),
           NEW t \in TicketIds, NEW session \in SessionIds, Removes(s, ch, t, session)
    PROVE  DemandExact(d)
<1>. USE DEF TicketKinds
<1>. DEFINE backfill(u) == <<"backfill_ticket", u>>
            claim(x) == <<"backfill_session_claim", x>>
<1>1. ASSUME NEW u \in TicketIds
      PROVE  Get(d, "demand_identity", u) = Get(s, "demand_identity", u)
  <2>1. <<"demand_identity", u>> \in Keys
    BY KeyOf, Zenon
  <2>. QED BY <2>1, SparedKey DEF Removes
<1>2. ASSUME NEW u \in TicketIds, NEW kind \in TicketKinds
      PROVE  Exists(d, kind, u) <=> Exists(s, kind, u)
  <2>. DEFINE k == <<kind, u>>
  <2>1. k \in Keys
    BY KeyOf, Zenon
  <2>2. CASE d.resources[k] = s.resources[k]
    BY <2>2, Zenon DEF Exists, Get
  <2>3. CASE \E m \in ch : Writes(s, d, k, m)
    <3>1. PICK m \in ch : Writes(s, d, k, m)
      BY <2>3, Zenon
    <3>2. m.key = k /\ m.expected = s.resources[k].version
      BY <3>1, WrittenFields
    <3>3. s.resources[k].version # 0
      BY <3>2, Zenon DEF Removes
    <3>4. d.resources[k].version # 0
      BY <3>1, WrittenFields DEF Sound
    <3>. QED BY <3>3, <3>4, Zenon DEF Exists, Get
  <2>. QED BY <2>1, <2>2, <2>3, EitherKey, Zenon
<1>3. /\ s.resources[backfill(t)].version # 0
      /\ ~s.resources[backfill(t)].deleted
      /\ s.resources[backfill(t)].payload.session = session
      /\ d.resources[backfill(t)].deleted
  <2>1. backfill(t) \in Keys /\ \E m \in ch : m.key = backfill(t)
    BY KeyOf, Zenon DEF Removes, Touches
  <2>2. PICK m \in ch : Writes(s, d, backfill(t), m)
    BY <2>1, WrittenKey, Zenon
  <2>3. /\ m.key = backfill(t)
        /\ m.expected = s.resources[backfill(t)].version
        /\ Legal(s.resources[backfill(t)], m)
    BY <2>2, WrittenFields
  <2>4. /\ m.change = "delete"
        /\ m.expected # 0
        /\ s.resources[backfill(t)].payload.session = session
    BY <2>3, Zenon DEF Removes, VersionOf, Read, Get
  <2>5. ~s.resources[backfill(t)].deleted
    BY <2>3, <2>4 DEF Legal
  <2>. QED BY <2>2, <2>3, <2>4, <2>5, WrittenFields, Zenon
<1>4. ASSUME NEW u \in TicketIds, u # t
      PROVE  d.resources[backfill(u)] = s.resources[backfill(u)]
  <2>1. backfill(u) \in Keys /\ \A m \in ch : m.key # backfill(u)
    BY <1>4, KeyOf, Zenon DEF Removes
  <2>. QED BY <2>1, OtherKey
<1>5. d.resources[claim(session)].deleted
  <2>1. claim(session) \in Keys /\ \E m \in ch : m.key = claim(session)
    BY KeyOf, Zenon DEF Removes, Touches
  <2>2. PICK m \in ch : Writes(s, d, claim(session), m)
    BY <2>1, WrittenKey, Zenon
  <2>3. m.key = claim(session)
    BY <2>2, WrittenFields
  <2>4. m.change = "delete"
    BY <2>3, Zenon DEF Removes
  <2>. QED BY <2>2, <2>4, WrittenFields, Zenon
<1>6. ASSUME NEW x \in SessionIds, x # session
      PROVE  d.resources[claim(x)] = s.resources[claim(x)]
  <2>1. claim(x) \in Keys /\ \A m \in ch : m.key # claim(x)
    BY <1>6, KeyOf, Zenon DEF Removes
  <2>. QED BY <2>1, OtherKey, Zenon
<1>7. DemandExact(s)
  BY Zenon DEF Sound
<1>8. ASSUME NEW u \in TicketIds, NEW kind \in TicketKinds
      PROVE  Exists(d, kind, u) <=> validateDemandIdentity(d, kind, u)
  BY <1>1, <1>2, <1>7, Zenon DEF DemandExact, validateDemandIdentity, Live, Exists, Read
<1>9. ASSUME NEW u \in TicketIds, NEW x \in SessionIds
      PROVE  validateBackfillSessionClaim(d, x, u) <=>
               /\ Live(d, "backfill_ticket", u)
               /\ Read(d, "backfill_ticket", u).session = x
  <2>1. \A v \in TicketIds, y \in SessionIds :
          validateBackfillSessionClaim(s, y, v) <=>
            /\ Live(s, "backfill_ticket", v)
            /\ Read(s, "backfill_ticket", v).session = y
    BY <1>7, Zenon DEF DemandExact
  <2>2. validateBackfillSessionClaim(s, session, t)
    BY <1>3, <2>1, Zenon DEF Live, Exists, Read, Get
  <2>3. CASE u = t
    <3>1. ~Live(d, "backfill_ticket", u)
      BY <1>3, <2>3, Zenon DEF Live, Get
    <3>2. x # session => ~validateBackfillSessionClaim(s, x, t)
      BY <1>3, <2>1, Zenon DEF Read, Get
    <3>3. ~validateBackfillSessionClaim(d, x, u)
      BY <1>5, <1>6, <2>3, <3>2, Zenon DEF validateBackfillSessionClaim, Live, Exists, Read,
         Get
    <3>. QED BY <3>1, <3>3, Zenon
  <2>4. CASE u # t
    <3>1. /\ Live(d, "backfill_ticket", u) <=> Live(s, "backfill_ticket", u)
          /\ Read(d, "backfill_ticket", u) = Read(s, "backfill_ticket", u)
      BY <1>4, <2>4, Zenon DEF Live, Exists, Read, Get
    <3>2. CASE x # session
      <4>1. validateBackfillSessionClaim(d, x, u) <=> validateBackfillSessionClaim(s, x, u)
        BY <1>6, <3>2, Zenon DEF validateBackfillSessionClaim, Live, Exists, Read, Get
      <4>. QED BY <2>1, <3>1, <4>1, Zenon
    <3>3. CASE x = session
      <4>1. ~validateBackfillSessionClaim(d, x, u)
        BY <1>5, <3>3, Zenon DEF validateBackfillSessionClaim, Live, Get
      <4>2. ~validateBackfillSessionClaim(s, x, u)
        BY <2>2, <2>4, <3>3, Zenon DEF validateBackfillSessionClaim
      <4>. QED BY <2>1, <3>1, <4>1, <4>2, Zenon
    <3>. QED BY <3>2, <3>3, Zenon
  <2>. QED BY <2>3, <2>4, Zenon
<1>. QED BY <1>8, <1>9, Zenon DEF DemandExact

-----------------------------------------------------------------------------
(* Confirmed reservations and their assignments. *)

(* A confirmed reservation is never written again. *)
LEMMA ConfirmedStays ==
    ASSUME NEW s, NEW d, NEW ch, Effect(s, d, ch), \A m \in ch : Prepared(s, m),
           NEW r \in ReservationIds, IsConfirmed(s, r)
    PROVE  Get(d, "reservation", r) = Get(s, "reservation", r)
<1>. DEFINE k == <<"reservation", r>>
<1>1. k \in Keys
  BY KeyOf, Zenon
<1>2. ASSUME NEW m \in ch, Writes(s, d, k, m)
      PROVE  FALSE
  <2>1. m.key = k /\ Legal(s.resources[k], m)
    BY <1>2, WrittenFields
  <2>. QED BY <2>1 DEF Legal, IsConfirmed, Live, Exists, Read, Get
<1>. QED BY <1>1, <1>2, EitherKey, Zenon DEF Get

(* A ticket that was consumed stays consumed. *)
LEMMA ConsumedStays ==
    ASSUME NEW s, NEW d, NEW ch, Effect(s, d, ch), \A m \in ch : Prepared(s, m),
           NEW r \in ReservationIds, IsConfirmed(s, r),
           NEW t \in TicketIds, Consumed(s, r, t)
    PROVE  Consumed(d, r, t)
<1>1. PICK kind \in TicketKinds : /\ Get(s, kind, t).deleted
                                  /\ VersionOf(s, kind, t) = VersionOf(s, "reservation", r)
  BY Zenon DEF Consumed, TicketKinds
<1>. DEFINE k == <<kind, t>>
<1>2. k \in Keys
  BY KeyOf, Zenon DEF TicketKinds
<1>3. s.resources[k].deleted /\ s.resources[k].version # 0
  BY <1>1, Zenon DEF IsConfirmed, Live, Exists, VersionOf, Get
<1>4. ASSUME NEW m \in ch, Writes(s, d, k, m)
      PROVE  FALSE
  <2>1. m.key = k /\ Legal(s.resources[k], m)
    BY <1>4, WrittenFields
  <2>. QED BY <1>3, <2>1 DEF Legal, TicketKinds
<1>5. d.resources[k] = s.resources[k]
  BY <1>2, <1>4, EitherKey, Zenon
<1>6. Get(d, "reservation", r) = Get(s, "reservation", r)
  BY ConfirmedStays, Zenon
<1>. QED BY <1>1, <1>5, <1>6, Zenon DEF Consumed, VersionOf, Get, TicketKinds

(* An assignment stays, for the same reservation, proposal and demand. *)
LEMMA AssignmentStays ==
    ASSUME NEW s, NEW d, NEW ch, Sound(s), Effect(s, d, ch), \A m \in ch : Prepared(s, m),
           NEW a \in AssignmentIds, Exists(s, "assignment", a)
    PROVE  /\ Exists(d, "assignment", a)
           /\ Read(d, "assignment", a).reservation = Read(s, "assignment", a).reservation
           /\ Read(d, "assignment", a).proposal = Read(s, "assignment", a).proposal
           /\ Read(d, "assignment", a).demand = Read(s, "assignment", a).demand
<1>. DEFINE k == <<"assignment", a>>
<1>1. k \in Keys
  BY KeyOf, Zenon
<1>2. CASE d.resources[k] = s.resources[k]
  BY <1>2, Zenon DEF Exists, Read, Get
<1>3. ASSUME NEW m \in ch, Writes(s, d, k, m)
      PROVE  /\ Exists(d, "assignment", a)
             /\ Read(d, "assignment", a).reservation = Read(s, "assignment", a).reservation
             /\ Read(d, "assignment", a).proposal = Read(s, "assignment", a).proposal
             /\ Read(d, "assignment", a).demand = Read(s, "assignment", a).demand
  <2>1. m.key = k /\ Legal(s.resources[k], m)
    BY <1>3, WrittenFields
  <2>2. /\ m.payload.reservation = s.resources[k].payload.reservation
        /\ m.payload.proposal = s.resources[k].payload.proposal
        /\ m.payload.demand = s.resources[k].payload.demand
    BY <2>1 DEF Legal, Exists, Get
  <2>3. d.resources[k].version # 0 /\ d.resources[k].payload = m.payload
    BY <1>3, WrittenFields DEF Sound
  <2>. QED BY <2>2, <2>3, Zenon DEF Exists, Read, Get
<1>. QED BY <1>1, <1>2, <1>3, EitherKey, Zenon

(* What is in Paired for one assignment and for one reservation. *)
HasReservation(s, a) ==
    LET assignment == Read(s, "assignment", a)
        reservation == Read(s, "reservation", assignment.reservation)
    IN /\ assignment.reservation \in ReservationIds
       /\ IsConfirmed(s, assignment.reservation)
       /\ reservation.proposal = assignment.proposal
       /\ reservation.demand = assignment.demand

HasAssignment(s, r, a) ==
    /\ Exists(s, "assignment", a)
    /\ Read(s, "assignment", a).reservation = r
    /\ \A b \in AssignmentIds \ {a} : Exists(s, "assignment", b) =>
         Read(s, "assignment", b).reservation # r

(* The two directions of Paired, and that an assignment names one          *)
(* reservation.                                                            *)
LEMMA PairedParts ==
    ASSUME NEW s, Sound(s)
    PROVE  /\ \A a \in AssignmentIds : Exists(s, "assignment", a) => HasReservation(s, a)
           /\ \A r \in ReservationIds : IsConfirmed(s, r) =>
                /\ \E a \in AssignmentIds : HasAssignment(s, r, a)
                /\ References(Read(s, "reservation", r).demand) \subseteq TicketIds
                /\ \A t \in References(Read(s, "reservation", r).demand) : Consumed(s, r, t)
<1>1. Paired(s, 0)
  BY Zenon DEF Sound
<1>2. ASSUME NEW r \in ReservationIds
      PROVE  ~(VersionOf(s, "reservation", r) < 0)
  <2>1. <<"reservation", r>> \in Keys
    BY KeyOf, Zenon
  <2>. QED BY <2>1 DEF Sound, VersionOf, Get
<1>3. ASSUME NEW r \in ReservationIds, IsConfirmed(s, r)
      PROVE  References(Read(s, "reservation", r).demand) \subseteq TicketIds
  <2>1. <<"reservation", r>> \in Keys
    BY KeyOf, Zenon
  <2>2. ValueOK("reservation", Read(s, "reservation", r))
    BY <1>3, <2>1, Zenon DEF Sound, IsConfirmed, Live, Exists, Read, Get
  <2>. QED BY <2>2, ReferencesTyped, Zenon DEF ValueOK
<1>4. \A a \in AssignmentIds : Exists(s, "assignment", a) => HasReservation(s, a)
  BY <1>1, Zenon DEF Paired, HasReservation
<1>5. ASSUME NEW r \in ReservationIds, IsConfirmed(s, r)
      PROVE  /\ \E a \in AssignmentIds : HasAssignment(s, r, a)
             /\ \A t \in References(Read(s, "reservation", r).demand) : Consumed(s, r, t)
  BY <1>1, <1>2, <1>5, Zenon DEF Paired, HasAssignment
<1>. QED BY <1>3, <1>4, <1>5, Zenon

(* The directions make Paired. *)
LEMMA PartsPaired ==
    ASSUME NEW s,
           \A a \in AssignmentIds : Exists(s, "assignment", a) => HasReservation(s, a),
           \A r \in ReservationIds : IsConfirmed(s, r) =>
             /\ \E a \in AssignmentIds : HasAssignment(s, r, a)
             /\ \A t \in References(Read(s, "reservation", r).demand) : Consumed(s, r, t)
    PROVE  Paired(s, 0)
BY Zenon DEF Paired, HasReservation, HasAssignment

(* A pair stays a pair, if the commit adds no assignment to it. *)
LEMMA PairStays ==
    ASSUME NEW s, NEW d, NEW ch, Sound(s), Effect(s, d, ch), \A m \in ch : Prepared(s, m),
           NEW r \in ReservationIds, IsConfirmed(s, r),
           \A b \in AssignmentIds : (Exists(d, "assignment", b) /\ ~Exists(s, "assignment", b))
             => Read(d, "assignment", b).reservation # r
    PROVE  /\ \E a \in AssignmentIds : HasAssignment(d, r, a)
           /\ \A t \in References(Read(d, "reservation", r).demand) : Consumed(d, r, t)
<1>1. PICK a \in AssignmentIds : HasAssignment(s, r, a)
  BY PairedParts, Zenon
<1>2. HasAssignment(d, r, a)
  <2>1. Exists(d, "assignment", a) /\ Read(d, "assignment", a).reservation = r
    BY <1>1, AssignmentStays DEF HasAssignment
  <2>2. ASSUME NEW b \in AssignmentIds \ {a}, Exists(d, "assignment", b)
        PROVE  Read(d, "assignment", b).reservation # r
    <3>1. CASE Exists(s, "assignment", b)
      <4>1. Read(s, "assignment", b).reservation # r
        BY <1>1, <3>1, Zenon DEF HasAssignment
      <4>2. Read(d, "assignment", b).reservation = Read(s, "assignment", b).reservation
        BY <3>1, AssignmentStays
      <4>. QED BY <4>1, <4>2, Zenon
    <3>2. CASE ~Exists(s, "assignment", b)
      BY <2>2, <3>2, Zenon
    <3>. QED BY <3>1, <3>2, Zenon
  <2>. QED BY <2>1, <2>2, Zenon DEF HasAssignment
<1>3. Get(d, "reservation", r) = Get(s, "reservation", r)
  BY ConfirmedStays, Zenon
<1>4. ASSUME NEW t \in References(Read(d, "reservation", r).demand)
      PROVE  Consumed(d, r, t)
  <2>1. t \in References(Read(s, "reservation", r).demand)
    BY <1>3, Zenon DEF Read
  <2>2. t \in TicketIds /\ Consumed(s, r, t)
    BY <2>1, PairedParts, Zenon
  <2>. QED BY <2>2, ConsumedStays, Zenon
<1>. QED BY <1>2, <1>4, Zenon

(* An assignment keeps its reservation. *)
LEMMA ReservationStays ==
    ASSUME NEW s, NEW d, NEW ch, Sound(s), Effect(s, d, ch), \A m \in ch : Prepared(s, m),
           NEW a \in AssignmentIds, Exists(s, "assignment", a)
    PROVE  HasReservation(d, a)
<1>. DEFINE r == Read(s, "assignment", a).reservation
<1>1. /\ r \in ReservationIds
      /\ IsConfirmed(s, r)
      /\ Read(s, "reservation", r).proposal = Read(s, "assignment", a).proposal
      /\ Read(s, "reservation", r).demand = Read(s, "assignment", a).demand
  BY PairedParts, Zenon DEF HasReservation
<1>2. Get(d, "reservation", r) = Get(s, "reservation", r)
  BY <1>1, ConfirmedStays, Zenon
<1>3. /\ IsConfirmed(d, r)
      /\ Read(d, "reservation", r) = Read(s, "reservation", r)
  BY <1>1, <1>2, Zenon DEF IsConfirmed, Live, Exists, Read
<1>4. /\ Read(d, "assignment", a).reservation = r
      /\ Read(d, "assignment", a).proposal = Read(s, "assignment", a).proposal
      /\ Read(d, "assignment", a).demand = Read(s, "assignment", a).demand
  BY AssignmentStays
<1>. QED BY <1>1, <1>3, <1>4, Zenon DEF HasReservation

(* Commits that confirm nothing and make no assignment keep the pairs. *)
LEMMA QuietPaired ==
    ASSUME NEW s, NEW d, NEW ch, Sound(s), Effect(s, d, ch), \A m \in ch : Prepared(s, m),
           \A m \in ch, r \in ReservationIds : m.key = <<"reservation", r>> =>
             m.payload.status # "confirmed",
           \A m \in ch, a \in AssignmentIds : m.key = <<"assignment", a>> => m.expected # 0
    PROVE  Paired(d, 0)
<1>1. ASSUME NEW a \in AssignmentIds, Exists(d, "assignment", a)
      PROVE  Exists(s, "assignment", a)
  <2>. DEFINE k == <<"assignment", a>>
  <2>1. k \in Keys
    BY KeyOf, Zenon
  <2>2. ASSUME NEW m \in ch, Writes(s, d, k, m)
        PROVE  s.resources[k].version # 0
    BY <2>2, WrittenFields
  <2>. QED BY <1>1, <2>1, <2>2, EitherKey, Zenon DEF Exists, Get
<1>2. ASSUME NEW r \in ReservationIds, IsConfirmed(d, r)
      PROVE  IsConfirmed(s, r)
  <2>. DEFINE k == <<"reservation", r>>
  <2>1. k \in Keys
    BY KeyOf, Zenon
  <2>2. ASSUME NEW m \in ch, Writes(s, d, k, m)
        PROVE  FALSE
    <3>1. m.key = k /\ d.resources[k].payload = m.payload
      BY <2>2, WrittenFields
    <3>. QED BY <1>2, <3>1, Zenon DEF IsConfirmed, Read, Get
  <2>3. d.resources[k] = s.resources[k]
    BY <2>1, <2>2, EitherKey, Zenon
  <2>. QED BY <1>2, <2>3, Zenon DEF IsConfirmed, Live, Exists, Read, Get
<1>3. \A a \in AssignmentIds : Exists(d, "assignment", a) => HasReservation(d, a)
  BY <1>1, ReservationStays, Zenon
<1>4. ASSUME NEW r \in ReservationIds, IsConfirmed(d, r)
      PROVE  /\ \E a \in AssignmentIds : HasAssignment(d, r, a)
             /\ \A t \in References(Read(d, "reservation", r).demand) : Consumed(d, r, t)
  BY <1>1, <1>2, <1>4, PairStays, Zenon
<1>. QED BY <1>3, <1>4, PartsPaired, Zenon

(* The commit of Confirm makes one pair more, and consumes its tickets. *)
LEMMA ConfirmsPaired ==
    ASSUME NEW s, NEW d, NEW ch, Sound(s), Effect(s, d, ch), \A m \in ch : Prepared(s, m),
           NEW r \in ReservationIds, NEW a \in AssignmentIds, Confirms(ch, r, a)
    PROVE  Paired(d, 0)
<1>. DEFINE k == <<"reservation", r>>
            l == <<"assignment", a>>
<1>1. k \in Keys /\ l \in Keys
  BY KeyOf, Zenon
<1>2. PICK m \in ch : Writes(s, d, k, m)
  <2>1. \E m \in ch : m.key = k
    BY Zenon DEF Confirms, Touches
  <2>. QED BY <1>1, <2>1, WrittenKey, Zenon
<1>3. PICK n \in ch : Writes(s, d, l, n)
  <2>1. \E n \in ch : n.key = l
    BY Zenon DEF Confirms, Touches
  <2>. QED BY <1>1, <2>1, WrittenKey, Zenon
<1>4. m.key = k /\ Legal(s.resources[k], m)
  BY <1>2, WrittenFields
<1>5. n.key = l
  BY <1>3, WrittenFields
<1>6. /\ m.payload.status = "confirmed"
      /\ \A t \in References(m.payload.demand) : \E kind \in TicketKinds : Touches(ch, kind, t)
      /\ n.payload.proposal = m.payload.proposal
      /\ n.payload.demand = m.payload.demand
  BY <1>4, <1>5, Zenon DEF Confirms
<1>7. n.expected = 0 /\ n.payload.reservation = r
  BY <1>5, Zenon DEF Confirms
<1>8. ~IsConfirmed(s, r)
  BY <1>4, <1>6 DEF Legal, IsConfirmed, Live, Exists, Read, Get
<1>9. IsConfirmed(d, r) /\ Read(d, "reservation", r) = m.payload
  <2>1. d.resources[k].version # 0 /\ d.resources[k].payload = m.payload
    BY <1>2, WrittenFields DEF Sound
  <2>2. ~d.resources[k].deleted
    BY <1>2, <1>4, WrittenFields DEF PutOnly
  <2>. QED BY <1>6, <2>1, <2>2, Zenon DEF IsConfirmed, Live, Exists, Read, Get
<1>10. ~Exists(s, "assignment", a)
  BY <1>3, <1>7, WrittenFields DEF Exists, Get
<1>11. Exists(d, "assignment", a) /\ Read(d, "assignment", a) = n.payload
  BY <1>3, WrittenFields DEF Sound, Exists, Read, Get
<1>12. ASSUME NEW b \in AssignmentIds, Exists(d, "assignment", b), ~Exists(s, "assignment", b)
       PROVE  b = a
  <2>1. <<"assignment", b>> \in Keys
    BY KeyOf, Zenon
  <2>2. SUFFICES ASSUME b # a PROVE FALSE
    BY Zenon
  <2>3. \A x \in ch : x.key # <<"assignment", b>>
    BY <2>2, Zenon DEF Confirms
  <2>. QED BY <1>12, <2>1, <2>3, OtherKey, Zenon DEF Exists, Get
<1>13. ASSUME NEW b \in AssignmentIds, Exists(d, "assignment", b)
       PROVE  HasReservation(d, b)
  <2>1. CASE Exists(s, "assignment", b)
    BY <2>1, ReservationStays, Zenon
  <2>2. CASE ~Exists(s, "assignment", b)
    BY <1>6, <1>7, <1>9, <1>11, <1>12, <1>13, <2>2, Zenon DEF HasReservation
  <2>. QED BY <2>1, <2>2, Zenon
<1>14. ASSUME NEW x \in ReservationIds, IsConfirmed(d, x), x # r
       PROVE  IsConfirmed(s, x)
  <2>1. <<"reservation", x>> \in Keys
    BY KeyOf, Zenon
  <2>2. \A y \in ch : y.key # <<"reservation", x>>
    BY <1>14, Zenon DEF Confirms
  <2>3. d.resources[<<"reservation", x>>] = s.resources[<<"reservation", x>>]
    BY <2>1, <2>2, OtherKey
  <2>. QED BY <1>14, <2>3, Zenon DEF IsConfirmed, Live, Exists, Read, Get
<1>15. HasAssignment(d, r, a)
  <2>1. ASSUME NEW b \in AssignmentIds \ {a}, Exists(d, "assignment", b)
        PROVE  Read(d, "assignment", b).reservation # r
    <3>1. Exists(s, "assignment", b)
      BY <1>12, <2>1, Zenon
    <3>2. IsConfirmed(s, Read(s, "assignment", b).reservation)
      BY <3>1, PairedParts, Zenon DEF HasReservation
    <3>3. Read(d, "assignment", b).reservation = Read(s, "assignment", b).reservation
      BY <3>1, AssignmentStays
    <3>. QED BY <1>8, <3>2, <3>3, Zenon
  <2>. QED BY <1>7, <1>11, <2>1, Zenon DEF HasAssignment
<1>16. ASSUME NEW t \in References(Read(d, "reservation", r).demand)
       PROVE  Consumed(d, r, t)
  <2>1. PICK kind \in TicketKinds : Touches(ch, kind, t)
    BY <1>6, <1>9, <1>16, Zenon
  <2>2. t \in TicketIds
    <3>1. ValueOK("reservation", m.payload)
      BY <1>2, <1>4, WrittenFields DEF PutOnly
    <3>. QED BY <1>9, <1>16, <3>1, ReferencesTyped, Zenon DEF ValueOK
  <2>. DEFINE q == <<kind, t>>
  <2>3. q \in Keys
    BY <2>2, KeyOf, Zenon DEF TicketKinds
  <2>4. PICK x \in ch : Writes(s, d, q, x)
    <3>1. \E x \in ch : x.key = q
      BY <2>1, Zenon DEF Touches
    <3>. QED BY <2>3, <3>1, WrittenKey, Zenon
  <2>5. x.key = q
    BY <2>4, WrittenFields
  <2>6. x.change = "delete"
    BY <2>2, <2>5, Zenon DEF Confirms
  <2>7. d.resources[q].deleted /\ d.resources[q].version = s.version + 1
    BY <2>4, <2>6, WrittenFields, Zenon
  <2>8. d.resources[k].version = s.version + 1
    BY <1>2, WrittenFields
  <2>9. Get(d, kind, t).deleted /\ VersionOf(d, kind, t) = VersionOf(d, "reservation", r)
    BY <2>7, <2>8, Zenon DEF VersionOf, Get
  <2>. QED BY <2>9, Zenon DEF Consumed, TicketKinds
<1>17. ASSUME NEW x \in ReservationIds, IsConfirmed(d, x)
       PROVE  /\ \E b \in AssignmentIds : HasAssignment(d, x, b)
              /\ \A t \in References(Read(d, "reservation", x).demand) : Consumed(d, x, t)
  <2>1. CASE x = r
    BY <1>15, <1>16, <2>1, Zenon
  <2>2. CASE x # r
    <3>1. IsConfirmed(s, x)
      BY <1>14, <1>17, <2>2, Zenon
    <3>2. ASSUME NEW b \in AssignmentIds, Exists(d, "assignment", b), ~Exists(s, "assignment", b)
          PROVE  Read(d, "assignment", b).reservation # x
      BY <1>7, <1>11, <1>12, <2>2, <3>2, Zenon
    <3>. QED BY <3>1, <3>2, PairStays, Zenon
  <2>. QED BY <2>1, <2>2, Zenon
<1>. QED BY <1>13, <1>17, PartsPaired, Zenon

-----------------------------------------------------------------------------
(* Planning runs and their results. *)

(* A result, and the snapshot of a run, are never written again. *)
LEMMA UnchangingStays ==
    ASSUME NEW s, NEW d, NEW ch, Effect(s, d, ch), \A m \in ch : Prepared(s, m),
           NEW kind \in Unchanging, NEW id, <<kind, id>> \in Keys, Exists(s, kind, id)
    PROVE  Get(d, kind, id) = Get(s, kind, id)
<1>. DEFINE k == <<kind, id>>
<1>1. ASSUME NEW m \in ch, Writes(s, d, k, m)
      PROVE  FALSE
  <2>1. m.key = k /\ Legal(s.resources[k], m)
    BY <1>1, WrittenFields
  <2>. QED BY <2>1 DEF Legal, Exists, Get
<1>. QED BY <1>1, EitherKey, Zenon DEF Get

(* RunExact depends on these only. *)
LEMMA RunExactSame ==
    ASSUME NEW s, NEW d, NEW run \in RunIds, RunExact(s, run),
           IsCompleted(d, run) <=> IsCompleted(s, run),
           IsCompleted(s, run) =>
             /\ Get(d, "planning_run", run) = Get(s, "planning_run", run)
             /\ Get(d, "planning_snapshot", run) = Get(s, "planning_snapshot", run),
           ResultsOf(d, run) = ResultsOf(s, run),
           \A p \in ResultsOf(s, run) : Get(d, "proposal", p) = Get(s, "proposal", p),
           UnmatchedOf(d, run) = UnmatchedOf(s, run)
    PROVE  RunExact(d, run)
<1>1. CASE IsCompleted(s, run)
  <2>1. /\ Read(d, "planning_snapshot", run) = Read(s, "planning_snapshot", run)
        /\ Read(d, "planning_run", run) = Read(s, "planning_run", run)
        /\ \A p \in ResultsOf(s, run) : Read(d, "proposal", p) = Read(s, "proposal", p)
    BY <1>1, Zenon DEF Read
  <2>. QED BY <1>1, <2>1, Zenon DEF RunExact
<1>2. CASE ~IsCompleted(s, run)
  BY <1>2, Zenon DEF RunExact
<1>. QED BY <1>1, <1>2, Zenon

(* What a run has, when no commit gives it a result. *)
LEMMA ResultsStay ==
    ASSUME NEW s, NEW d, NEW ch, Sound(s), Effect(s, d, ch), \A m \in ch : Prepared(s, m),
           NEW run \in RunIds,
           \A m \in ch, p \in ProposalIds : m.key = <<"proposal", p>> => m.payload.run # run,
           \A m \in ch, t \in TicketIds : m.key # <<"planning_unmatched", <<run, t>>>>
    PROVE  /\ ResultsOf(d, run) = ResultsOf(s, run)
           /\ \A p \in ResultsOf(s, run) : Get(d, "proposal", p) = Get(s, "proposal", p)
           /\ UnmatchedOf(d, run) = UnmatchedOf(s, run)
<1>1. ASSUME NEW p \in ProposalIds, Exists(s, "proposal", p)
      PROVE  Get(d, "proposal", p) = Get(s, "proposal", p)
  <2>1. <<"proposal", p>> \in Keys
    BY KeyOf, Zenon
  <2>2. "proposal" \in Unchanging
    BY Zenon DEF Unchanging
  <2>. QED BY <1>1, <2>1, <2>2, UnchangingStays
<1>2. ASSUME NEW p \in ProposalIds, p \in ResultsOf(d, run)
      PROVE  p \in ResultsOf(s, run)
  <2>. DEFINE k == <<"proposal", p>>
  <2>1. k \in Keys
    BY KeyOf, Zenon
  <2>2. ASSUME NEW m \in ch, Writes(s, d, k, m)
        PROVE  FALSE
    <3>1. m.key = k /\ d.resources[k].payload = m.payload
      BY <2>2, WrittenFields
    <3>. QED BY <1>2, <3>1, Zenon DEF ResultsOf, Read, Get
  <2>3. d.resources[k] = s.resources[k]
    BY <2>1, <2>2, EitherKey, Zenon
  <2>. QED BY <1>2, <2>3, Zenon DEF ResultsOf, Exists, Read, Get
<1>3. ASSUME NEW p \in ProposalIds, p \in ResultsOf(s, run)
      PROVE  p \in ResultsOf(d, run)
  BY <1>1, <1>3, Zenon DEF ResultsOf, Exists, Read
<1>4. ResultsOf(d, run) = ResultsOf(s, run)
  BY <1>2, <1>3, Zenon DEF ResultsOf
<1>5. \A p \in ResultsOf(s, run) : Get(d, "proposal", p) = Get(s, "proposal", p)
  BY <1>1, Zenon DEF ResultsOf
<1>6. ASSUME NEW t \in TicketIds
      PROVE  Get(d, "planning_unmatched", <<run, t>>) = Get(s, "planning_unmatched", <<run, t>>)
  <2>1. <<"planning_unmatched", <<run, t>>>> \in Keys
    BY KeyOf, Zenon
  <2>2. d.resources[<<"planning_unmatched", <<run, t>>>>]
          = s.resources[<<"planning_unmatched", <<run, t>>>>]
    BY <2>1, OtherKey, Zenon
  <2>. QED BY <2>2, Zenon DEF Get
<1>7. UnmatchedOf(d, run) = UnmatchedOf(s, run)
  BY <1>6, Zenon DEF UnmatchedOf, Exists
<1>. QED BY <1>4, <1>5, <1>7, Zenon

(* A run has its snapshot, and its results are all there or not at all. *)
RunSound(s, run) ==
    /\ Exists(s, "planning_run", run) => Exists(s, "planning_snapshot", run)
    /\ RunExact(s, run)

(* A run of which nothing is written. *)
LEMMA RunStays ==
    ASSUME NEW s, NEW d, NEW ch, Sound(s), Effect(s, d, ch), \A m \in ch : Prepared(s, m),
           NEW run \in RunIds,
           \A m \in ch : m.key # <<"planning_run", run>>,
           \A m \in ch, p \in ProposalIds : m.key = <<"proposal", p>> => m.payload.run # run,
           \A m \in ch, t \in TicketIds : m.key # <<"planning_unmatched", <<run, t>>>>
    PROVE  RunSound(d, run)
<1>1. <<"planning_run", run>> \in Keys /\ <<"planning_snapshot", run>> \in Keys
  BY KeyOf, Zenon
<1>2. Get(d, "planning_run", run) = Get(s, "planning_run", run)
  <2>1. d.resources[<<"planning_run", run>>] = s.resources[<<"planning_run", run>>]
    BY <1>1, OtherKey, Zenon
  <2>. QED BY <2>1, Zenon DEF Get
<1>3. RunSound(s, run)
  BY Zenon DEF Sound, RunSound
<1>4. "planning_snapshot" \in Unchanging
  BY Zenon DEF Unchanging
<1>5. ASSUME Exists(s, "planning_run", run)
      PROVE  /\ Exists(s, "planning_snapshot", run)
             /\ Get(d, "planning_snapshot", run) = Get(s, "planning_snapshot", run)
  BY <1>1, <1>3, <1>4, <1>5, UnchangingStays DEF RunSound
<1>6. Exists(d, "planning_run", run) => Exists(d, "planning_snapshot", run)
  BY <1>2, <1>5, Zenon DEF Exists
<1>7. IsCompleted(d, run) <=> IsCompleted(s, run)
  BY <1>2, Zenon DEF IsCompleted, Exists, Read
<1>8. IsCompleted(s, run) => Exists(s, "planning_run", run)
  BY Zenon DEF IsCompleted
<1>9. /\ ResultsOf(d, run) = ResultsOf(s, run)
      /\ \A p \in ResultsOf(s, run) : Get(d, "proposal", p) = Get(s, "proposal", p)
      /\ UnmatchedOf(d, run) = UnmatchedOf(s, run)
  BY ResultsStay
<1>10. RunExact(s, run)
  BY <1>3, Zenon DEF RunSound
<1>11. RunExact(d, run)
  BY <1>2, <1>5, <1>7, <1>8, <1>9, <1>10, RunExactSame, Zenon
<1>. QED BY <1>6, <1>11, Zenon DEF RunSound

(* The commit that captures a run makes a run without results. *)
LEMMA CapturedSound ==
    ASSUME NEW s, NEW d, NEW ch, Sound(s), Effect(s, d, ch), \A m \in ch : Prepared(s, m),
           NEW run \in RunIds, Captures(ch, run), Touches(ch, "planning_run", run)
    PROVE  RunSound(d, run)
<1>. DEFINE k == <<"planning_run", run>>
            l == <<"planning_snapshot", run>>
<1>1. k \in Keys /\ l \in Keys
  BY KeyOf, Zenon
<1>2. PICK m \in ch : Writes(s, d, k, m)
  <2>1. \E m \in ch : m.key = k
    BY Zenon DEF Touches
  <2>. QED BY <1>1, <2>1, WrittenKey, Zenon
<1>3. PICK n \in ch : Writes(s, d, l, n)
  <2>1. \E n \in ch : n.key = l
    BY Zenon DEF Captures, Touches
  <2>. QED BY <1>1, <2>1, WrittenKey, Zenon
<1>4. m.key = k
  BY <1>2, WrittenFields
<1>5. m.expected = 0 /\ m.payload.status = "planning"
  BY <1>4, Zenon DEF Captures
<1>6. s.resources[k].version = 0 /\ d.resources[k].payload = m.payload
  BY <1>2, <1>5, WrittenFields
<1>7. Exists(d, "planning_snapshot", run)
  BY <1>3, WrittenFields DEF Sound, Exists, Get
<1>8. ~IsCompleted(s, run) /\ ~IsCompleted(d, run)
  BY <1>5, <1>6, Zenon DEF IsCompleted, Exists, Read, Get
<1>9. \A x \in ch, p \in ProposalIds : x.key = <<"proposal", p>> => x.payload.run # run
  <2>1. Spares(ch, {"proposal", "planning_unmatched"})
    BY Zenon DEF Captures
  <2>. QED BY <2>1, SparesKey, Zenon
<1>10. \A x \in ch, t \in TicketIds : x.key # <<"planning_unmatched", <<run, t>>>>
  <2>1. Spares(ch, {"proposal", "planning_unmatched"})
    BY Zenon DEF Captures
  <2>. QED BY <2>1, SparesKey, Zenon
<1>11. ResultsOf(d, run) = ResultsOf(s, run) /\ UnmatchedOf(d, run) = UnmatchedOf(s, run)
  BY <1>9, <1>10, ResultsStay
<1>12. RunExact(s, run)
  BY Zenon DEF Sound
<1>13. RunExact(d, run)
  BY <1>8, <1>11, <1>12, Zenon DEF RunExact
<1>. QED BY <1>7, <1>13, Zenon DEF RunSound

(* The commit that completes a run writes all its results. *)
LEMMA CompletedSound ==
    ASSUME NEW s, NEW d, NEW ch, Sound(s), Effect(s, d, ch), \A m \in ch : Prepared(s, m),
           NEW run \in RunIds, Completes(s, ch, run)
    PROVE  RunSound(d, run)
<1>. DEFINE k == <<"planning_run", run>>
            l == <<"planning_snapshot", run>>
            batch == Plan(Read(s, "planning_snapshot", run).input)
<1>1. k \in Keys /\ l \in Keys
  BY KeyOf, Zenon
<1>2. PICK m \in ch : Writes(s, d, k, m)
  <2>1. \E m \in ch : m.key = k
    BY Zenon DEF Completes, Touches
  <2>. QED BY <1>1, <2>1, WrittenKey, Zenon
<1>3. m.key = k /\ Legal(s.resources[k], m)
  BY <1>2, WrittenFields
<1>4. /\ m.payload.status = "completed"
      /\ m.payload.proposals = Cardinality(Proposed(batch))
      /\ m.payload.unmatched = Cardinality(batch.unmatched)
  BY <1>3, Zenon DEF Completes
<1>5. ~IsCompleted(s, run)
  BY <1>3 DEF Legal, IsCompleted, Exists, Read, Get
<1>6. IsCompleted(d, run) /\ Read(d, "planning_run", run) = m.payload
  <2>1. d.resources[k].version # 0 /\ d.resources[k].payload = m.payload
    BY <1>2, WrittenFields DEF Sound
  <2>. QED BY <1>4, <2>1, Zenon DEF IsCompleted, Exists, Read, Get
<1>7. ResultsOf(s, run) = {} /\ UnmatchedOf(s, run) = {}
  <2>1. RunExact(s, run)
    BY Zenon DEF Sound
  <2>. QED BY <1>5, <2>1, Zenon DEF RunExact
<1>8. Get(d, "planning_snapshot", run) = Get(s, "planning_snapshot", run)
  <2>1. Exists(s, "planning_snapshot", run) /\ "planning_snapshot" \in Unchanging
    BY Zenon DEF Completes, Unchanging
  <2>. QED BY <1>1, <2>1, UnchangingStays
<1>9. Exists(d, "planning_snapshot", run)
  BY <1>8, Zenon DEF Completes, Exists
<1>10. batch = Plan(Read(d, "planning_snapshot", run).input)
  BY <1>8, Zenon DEF Read
<1>11. ASSUME NEW p \in Proposed(batch)
       PROVE  /\ p \in ResultsOf(d, run)
              /\ Read(d, "proposal", p).demand = batch.proposals[p]
  <2>. DEFINE q == <<"proposal", p>>
  <2>1. p \in ProposalIds
    BY Zenon DEF Proposed
  <2>2. q \in Keys
    BY <2>1, KeyOf, Zenon
  <2>3. \E x \in ch : x.key = q
    BY Zenon DEF Completes, Touches
  <2>4. PICK x \in ch : Writes(s, d, q, x)
    BY <2>2, <2>3, WrittenKey, Zenon
  <2>5. x.key = q /\ d.resources[q].payload = x.payload /\ d.resources[q].version # 0
    BY <2>4, WrittenFields DEF Sound
  <2>6. x.payload = [run |-> run, demand |-> batch.proposals[p]]
    BY <2>1, <2>5, Zenon DEF Completes
  <2>. QED BY <2>1, <2>5, <2>6 DEF ResultsOf, Exists, Read, Get
<1>12. ASSUME NEW p \in ResultsOf(d, run)
       PROVE  p \in Proposed(batch)
  <2>. DEFINE q == <<"proposal", p>>
  <2>1. p \in ProposalIds
    BY Zenon DEF ResultsOf
  <2>2. q \in Keys
    BY <2>1, KeyOf, Zenon
  <2>3. CASE d.resources[q] = s.resources[q]
    <3>1. p \in ResultsOf(s, run)
      BY <1>12, <2>3, Zenon DEF ResultsOf, Exists, Read, Get
    <3>. QED BY <1>7, <3>1, Zenon
  <2>4. ASSUME NEW x \in ch, Writes(s, d, q, x)
        PROVE  p \in Proposed(batch)
    <3>1. x.key = q
      BY <2>4, WrittenFields
    <3>. QED BY <2>1, <3>1, Zenon DEF Completes
  <2>. QED BY <2>2, <2>3, <2>4, EitherKey, Zenon
<1>13. ResultsOf(d, run) = Proposed(batch)
  BY <1>11, <1>12, Zenon
<1>14. ASSUME NEW t \in batch.unmatched
       PROVE  t \in UnmatchedOf(d, run)
  <2>. DEFINE q == <<"planning_unmatched", <<run, t>>>>
  <2>1. t \in TicketIds
    BY Zenon DEF Completes
  <2>2. q \in Keys
    BY <2>1, KeyOf, Zenon
  <2>3. \E x \in ch : x.key = q
    BY Zenon DEF Completes, Touches
  <2>4. PICK x \in ch : Writes(s, d, q, x)
    BY <2>2, <2>3, WrittenKey, Zenon
  <2>5. d.resources[q].version # 0
    BY <2>4, WrittenFields DEF Sound
  <2>. QED BY <2>1, <2>5, Zenon DEF UnmatchedOf, Exists, Get
<1>15. ASSUME NEW t \in UnmatchedOf(d, run)
       PROVE  t \in batch.unmatched
  <2>. DEFINE q == <<"planning_unmatched", <<run, t>>>>
  <2>1. t \in TicketIds
    BY Zenon DEF UnmatchedOf
  <2>2. q \in Keys
    BY <2>1, KeyOf, Zenon
  <2>3. CASE d.resources[q] = s.resources[q]
    <3>1. t \in UnmatchedOf(s, run)
      BY <1>15, <2>3, Zenon DEF UnmatchedOf, Exists, Get
    <3>. QED BY <1>7, <3>1, Zenon
  <2>4. ASSUME NEW x \in ch, Writes(s, d, q, x)
        PROVE  t \in batch.unmatched
    <3>1. x.key = q
      BY <2>4, WrittenFields
    <3>. QED BY <2>1, <3>1, Zenon DEF Completes
  <2>. QED BY <2>2, <2>3, <2>4, EitherKey, Zenon
<1>16. UnmatchedOf(d, run) = batch.unmatched
  BY <1>14, <1>15, Zenon
<1>17. RunExact(d, run)
  BY <1>4, <1>6, <1>10, <1>11, <1>13, <1>16, Zenon DEF RunExact
<1>. QED BY <1>9, <1>17, Zenon DEF RunSound

(* Runs and their results stay exact in every commit. *)
LEMMA RunsSound ==
    ASSUME NEW s, NEW d, NEW ch, Sound(s), Effect(s, d, ch), \A m \in ch : Prepared(s, m),
           RunChanges(s, ch), NEW run \in RunIds
    PROVE  RunSound(d, run)
<1>1. CASE Spares(ch, {"planning_run", "planning_snapshot", "proposal", "planning_unmatched"})
  <2>1. \A m \in ch : m.key # <<"planning_run", run>>
    BY <1>1, SparesKey, Zenon
  <2>2. \A m \in ch, p \in ProposalIds : m.key # <<"proposal", p>>
    BY <1>1, SparesKey, Zenon
  <2>3. \A m \in ch, t \in TicketIds : m.key # <<"planning_unmatched", <<run, t>>>>
    BY <1>1, SparesKey, Zenon
  <2>. QED BY <2>1, <2>2, <2>3, RunStays, Zenon
<1>2. ASSUME NEW other \in RunIds, Captures(ch, other)
      PROVE  RunSound(d, run)
  <2>1. CASE Touches(ch, "planning_run", run)
    <3>1. run = other
      BY <1>2, <2>1, Zenon DEF Captures, Touches
    <3>. QED BY <1>2, <2>1, <3>1, CapturedSound, Zenon
  <2>2. CASE ~Touches(ch, "planning_run", run)
    <3>1. Spares(ch, {"proposal", "planning_unmatched"})
      BY <1>2, Zenon DEF Captures
    <3>2. \A m \in ch : m.key # <<"planning_run", run>>
      BY <2>2, Zenon DEF Touches
    <3>3. \A m \in ch, p \in ProposalIds : m.key # <<"proposal", p>>
      BY <3>1, SparesKey, Zenon
    <3>4. \A m \in ch, t \in TicketIds : m.key # <<"planning_unmatched", <<run, t>>>>
      BY <3>1, SparesKey, Zenon
    <3>. QED BY <3>2, <3>3, <3>4, RunStays, Zenon
  <2>. QED BY <2>1, <2>2, Zenon
<1>3. ASSUME NEW other \in RunIds, Completes(s, ch, other)
      PROVE  RunSound(d, run)
  <2>1. CASE run = other
    BY <1>3, <2>1, CompletedSound, Zenon
  <2>2. CASE run # other
    <3>1. \A m \in ch : m.key # <<"planning_run", run>>
      BY <1>3, <2>2, Zenon DEF Completes
    <3>2. ASSUME NEW m \in ch, NEW p \in ProposalIds, m.key = <<"proposal", p>>
          PROVE  m.payload.run # run
      <4>. DEFINE batch == Plan(Read(s, "planning_snapshot", other).input)
      <4>1. m.payload = [run |-> other, demand |-> batch.proposals[p]]
        BY <1>3, <3>2, Zenon DEF Completes
      <4>2. m.payload.run = other
        BY <4>1
      <4>. QED BY <2>2, <4>2, Zenon
    <3>3. \A m \in ch, t \in TicketIds : m.key # <<"planning_unmatched", <<run, t>>>>
      BY <1>3, <2>2, Zenon DEF Completes
    <3>. QED BY <3>1, <3>2, <3>3, RunStays, Zenon
  <2>. QED BY <2>1, <2>2, Zenon
<1>. QED BY <1>1, <1>2, <1>3, Zenon DEF RunChanges

-----------------------------------------------------------------------------
(* A commit of prepared changes keeps the contents sound. *)

(* What is in Sound for one resource. *)
KeySound(d, k) ==
    /\ d.resources[k].version \in Nat
    /\ d.resources[k].version <= d.version
    /\ d.resources[k].deleted \in BOOLEAN
    /\ k[1] \in PutOnly => ~d.resources[k].deleted
    /\ (d.resources[k].version # 0 /\ ~d.resources[k].deleted) =>
         ValueOK(k[1], d.resources[k].payload)

(* Each resource stays what the handlers rely on. *)
LEMMA KeysSound ==
    ASSUME NEW s, NEW d, NEW ch, Sound(s), Effect(s, d, ch), \A m \in ch : Prepared(s, m)
    PROVE  /\ d.version \in Nat
           /\ \A k \in Keys : KeySound(d, k)
<1>1. d.version = s.version + 1 /\ s.version \in Nat
  BY Zenon DEF Effect, Sound
<1>2. ASSUME NEW k \in Keys, d.resources[k] = s.resources[k]
      PROVE  KeySound(d, k)
  BY <1>1, <1>2 DEF Sound, KeySound
<1>3. ASSUME NEW k \in Keys, NEW m \in ch, Writes(s, d, k, m)
      PROVE  KeySound(d, k)
  <2>1. d.resources[k].version = s.version + 1 /\ d.resources[k].payload = m.payload
    BY <1>3, WrittenFields
  <2>2. d.resources[k].deleted \in BOOLEAN
    BY <1>3, WrittenFields, Zenon
  <2>3. k[1] \in PutOnly => ~d.resources[k].deleted
    BY <1>3, WrittenFields, Zenon
  <2>4. ~d.resources[k].deleted => ValueOK(k[1], m.payload)
    BY <1>3, WrittenFields, Zenon
  <2>5. d.resources[k].version \in Nat /\ d.resources[k].version <= d.version
    BY <1>1, <2>1
  <2>. QED BY <2>1, <2>2, <2>3, <2>4, <2>5, Zenon DEF KeySound
<1>. QED BY <1>1, <1>2, <1>3, EitherKey

(* The effect of pending changes keeps the contents sound. *)
LEMMA SoundStep ==
    ASSUME NEW s, NEW d, NEW ch, Sound(s), Effect(s, d, ch), Pending(s, ch)
    PROVE  Sound(d)
<1>1. \A m \in ch : Prepared(s, m)
  BY Zenon DEF Pending
<1>2. ClaimsExact(d)
  <2>1. CASE Spares(ch, {"reservation", "demand_reservation_claim"})
    BY <1>1, <2>1, SparedExact, Zenon
  <2>2. ASSUME NEW r \in ReservationIds, NEW moment \in {"start", "end"}, NEW demand,
               Whole(ch, r, demand, moment)
        PROVE  ClaimsExact(d)
    BY <1>1, <2>2, StartsExact, EndsExact, Zenon
  <2>. QED BY <2>1, <2>2, Zenon DEF Pending, ClaimChanges
<1>3. DemandExact(d)
  BY <1>1, KeepsExact, CreatesExact, RemovesExact, Zenon DEF Pending, DemandChanges
<1>4. Paired(d, 0)
  BY <1>1, QuietPaired, ConfirmsPaired, Zenon DEF Pending, AssignmentChanges
<1>5. \A run \in RunIds : RunSound(d, run)
  BY <1>1, RunsSound, Zenon DEF Pending
<1>6. d.version \in Nat /\ \A k \in Keys : KeySound(d, k)
  BY <1>1, KeysSound, Zenon
<1>. QED BY <1>2, <1>3, <1>4, <1>5, <1>6, Zenon DEF Sound, KeySound, RunSound

(* A resource that is not written goes on as it is. *)
LEMMA FollowsSelf ==
    ASSUME NEW kind, NEW old
    PROVE  Follows(kind, old, old)
BY Zenon DEF Follows

(* A legal change of a resource is one that its life allows. *)
LEMMA FollowsLegal ==
    ASSUME NEW kind, NEW old, NEW new, NEW m, NEW id, m.key = <<kind, id>>,
           Legal(old, m), old.version # 0, new.payload = m.payload,
           m.change \in {"put", "delete"}, new.deleted <=> m.change = "delete",
           kind = "policy" => m.change = "put"
    PROVE  Follows(kind, old, new)
<1>. DEFINE K == m.key[1]
<1>1. K = kind
  OBVIOUS
<1>2. kind \notin Unchanging
  BY <1>1, Zenon DEF Legal
<1>3. kind = "reservation" => old.payload.status = "active"
  BY <1>1, Zenon DEF Legal
<1>4. kind = "assignment" => old.payload.status = "pending"
  BY <1>1, Zenon DEF Legal
<1>5. kind = "planning_run" => old.payload.status = "planning"
  BY <1>1, Zenon DEF Legal
<1>6. kind \in {"match_ticket", "backfill_ticket"} =>
        ~old.deleted /\ (m.change = "put" => m.payload.revision > old.payload.revision)
  BY <1>1, Zenon DEF Legal, TicketKinds
<1>7. kind = "policy" => m.payload = old.payload
  BY <1>1, Zenon DEF Legal
<1>. QED BY <1>2, <1>3, <1>4, <1>5, <1>6, <1>7, Zenon DEF Follows

(* In the effect of pending changes every resource goes on as it may. *)
LEMMA FollowsStep ==
    ASSUME NEW s, NEW d, NEW ch, Effect(s, d, ch), Pending(s, ch),
           NEW k \in Keys, s.resources[k].version # 0
    PROVE  Follows(k[1], s.resources[k], d.resources[k])
<1>1. \A m \in ch : Prepared(s, m)
  BY Zenon DEF Pending
<1>2. CASE d.resources[k] = s.resources[k]
  BY <1>2, FollowsSelf, Zenon
<1>3. ASSUME NEW m \in ch, Writes(s, d, k, m)
      PROVE  Follows(k[1], s.resources[k], d.resources[k])
  <2>1. m.key = <<k[1], k[2]>>
    <3>1. m.key = k
      BY <1>3, WrittenFields
    <3>2. k = <<k[1], k[2]>>
      BY DEF Keys
    <3>. QED BY <3>1, <3>2, Zenon
  <2>2. /\ Legal(s.resources[k], m)
        /\ d.resources[k].payload = m.payload
        /\ m.change \in {"put", "delete"}
        /\ d.resources[k].deleted <=> m.change = "delete"
        /\ k[1] = "policy" => m.change = "put"
    BY <1>3, WrittenFields DEF PutOnly
  <2>. QED BY <2>1, <2>2, FollowsLegal, Zenon
<1>. QED BY <1>1, <1>2, <1>3, EitherKey, Zenon

-----------------------------------------------------------------------------
(* What another call has prepared stays prepared. *)

(* A change that was legal is legal, or expects an old version. *)
LEMMA PreparedStable ==
    ASSUME NEW s, NEW d, NEW ch, Sound(s), Effect(s, d, ch), \A m \in ch : Prepared(s, m),
           NEW n, Prepared(s, n)
    PROVE  Prepared(d, n)
<1>. DEFINE k == n.key
<1>1. k \in Keys /\ n.expected \in Nat /\ n.expected <= s.version
  BY Zenon DEF Prepared
<1>2. d.version = s.version + 1 /\ s.version \in Nat
  BY Zenon DEF Effect, Sound
<1>3. n.expected <= d.version
  BY <1>1, <1>2
<1>4. n.expected = d.resources[k].version => Legal(d.resources[k], n)
  <2>1. CASE d.resources[k] = s.resources[k]
    BY <2>1, Zenon DEF Prepared
  <2>2. ASSUME NEW m \in ch, Writes(s, d, k, m)
        PROVE  n.expected # d.resources[k].version
    <3>1. d.resources[k].version = s.version + 1
      BY <2>2, WrittenFields
    <3>. QED BY <1>1, <1>2, <3>1
  <2>. QED BY <1>1, <2>1, <2>2, EitherKey, Zenon
<1>. QED BY <1>3, <1>4, Zenon DEF Prepared

(* So it is for the removal of a backfill. *)
LEMMA RemovesStable ==
    ASSUME NEW s, NEW d, NEW ch, Sound(s), Effect(s, d, ch), \A m \in ch : Prepared(s, m),
           NEW other, \A m \in other : Prepared(s, m),
           NEW t \in TicketIds, NEW session \in SessionIds, Removes(s, other, t, session)
    PROVE  Removes(d, other, t, session)
<1>. DEFINE k == <<"backfill_ticket", t>>
<1>1. k \in Keys
  BY KeyOf, Zenon
<1>2. ASSUME NEW n \in other, n.key = k, n.expected = VersionOf(d, "backfill_ticket", t)
      PROVE  Read(d, "backfill_ticket", t).session = session
  <2>1. CASE d.resources[k] = s.resources[k]
    <3>1. n.expected = VersionOf(s, "backfill_ticket", t)
      BY <1>2, <2>1, Zenon DEF VersionOf, Get
    <3>2. Read(s, "backfill_ticket", t).session = session
      BY <1>2, <3>1, Zenon DEF Removes, TicketKinds
    <3>. QED BY <2>1, <3>2, Zenon DEF Read, Get
  <2>2. ASSUME NEW m \in ch, Writes(s, d, k, m)
        PROVE  FALSE
    <3>1. d.resources[k].version = s.version + 1 /\ s.version \in Nat
      BY <2>2, WrittenFields DEF Sound
    <3>2. n.expected \in Nat /\ n.expected <= s.version
      BY Zenon DEF Prepared
    <3>3. n.expected = d.resources[k].version
      BY <1>2, Zenon DEF VersionOf, Get
    <3>. QED BY <3>1, <3>2, <3>3
  <2>. QED BY <1>1, <2>1, <2>2, EitherKey, Zenon
<1>3. ASSUME NEW n \in other, NEW u \in TicketIds, NEW kind \in TicketKinds, n.key = <<kind, u>>
      PROVE  /\ n.expected # 0
             /\ kind = "backfill_ticket" =>
                  /\ u = t
                  /\ n.change = "delete"
                  /\ n.expected = VersionOf(d, "backfill_ticket", t) =>
                       Read(d, "backfill_ticket", t).session = session
  <2>1. n.expected # 0 /\ (kind = "backfill_ticket" => u = t /\ n.change = "delete")
    BY <1>3, Zenon DEF Removes
  <2>. QED BY <1>2, <1>3, <2>1, Zenon
<1>. QED BY <1>3, Zenon DEF Removes

(* Pending changes stay pending when another call commits. *)
LEMMA PendingStable ==
    ASSUME NEW s, NEW d, NEW ch, Sound(s), Effect(s, d, ch), \A m \in ch : Prepared(s, m),
           NEW other, Pending(s, other)
    PROVE  Pending(d, other)
<1>1. \A n \in other : Prepared(s, n)
  BY Zenon DEF Pending
<1>2. \A n \in other : Prepared(d, n)
  BY <1>1, PreparedStable, Zenon
<1>3. DemandChanges(d, other)
  BY <1>1, RemovesStable, Zenon DEF Pending, DemandChanges
<1>4. ASSUME NEW run \in RunIds, Completes(s, other, run)
      PROVE  Completes(d, other, run)
  <2>1. /\ Exists(s, "planning_snapshot", run)
        /\ "planning_snapshot" \in Unchanging
        /\ <<"planning_snapshot", run>> \in Keys
    BY <1>4, KeyOf, Zenon DEF Completes, Unchanging
  <2>2. Get(d, "planning_snapshot", run) = Get(s, "planning_snapshot", run)
    BY <2>1, UnchangingStays
  <2>3. /\ Read(d, "planning_snapshot", run) = Read(s, "planning_snapshot", run)
        /\ Exists(d, "planning_snapshot", run)
    BY <2>1, <2>2, Zenon DEF Read, Exists
  <2>. QED BY <1>4, <2>3 DEF Completes
<1>5. RunChanges(d, other)
  BY <1>4, Zenon DEF Pending, RunChanges
<1>. QED BY <1>2, <1>3, <1>5, Zenon DEF Pending

==============================================================================
