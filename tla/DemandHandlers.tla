--------------------------- MODULE DemandHandlers ---------------------------
(***************************************************************************)
(* MatchTickets and BackfillTickets of internal/service, from the snapshot *)
(* they read to the mutations they ask to commit.  A ticket identifier is  *)
(* claimed for one kind of demand for ever; a session is claimed by its    *)
(* one live backfill ticket.                                               *)
(***************************************************************************)
EXTENDS Consistency

PutMatchTicket(s, t, ticket) ==
    LET current == Get(s, "match_ticket", t)
        exists == Exists(s, "match_ticket", t)
    IN IF ~ValidateMatchTicket(ticket) THEN Refuse("InvalidInput")
       ELSE IF current.deleted THEN Refuse("InvalidRevision")
       ELSE IF exists /\ ticket.revision <= current.payload.revision
         THEN Refuse("InvalidRevision")
       ELSE IF exists /\ ~validateDemandIdentity(s, "match_ticket", t)
         THEN Refuse("Internal")
       ELSE IF exists
         THEN Accept({put("match_ticket", t, current.version, ticket)}, NoPayload)
       ELSE IF Exists(s, "demand_identity", t) THEN Refuse("InvalidRevision")
       ELSE Accept({put("demand_identity", t, 0, [kind |-> "match_ticket"]),
                    put("match_ticket", t, 0, ticket)}, NoPayload)

CancelMatchTicket(s, t, revision) ==
    IF ~Live(s, "match_ticket", t) THEN Refuse("NotFound")
    ELSE IF Read(s, "match_ticket", t).revision # revision
      THEN Refuse("InvalidRevision")
    ELSE Accept({delete("match_ticket", t, VersionOf(s, "match_ticket", t))}, NoPayload)

-----------------------------------------------------------------------------

(* Same roster version, same roster. *)
sameBackfillRoster(current, next) == next.roster = current.roster

validateBackfillReplacement(current, next) ==
    /\ next.revision > current.revision
    /\ next.session = current.session
    /\ next.rosterVersion >= current.rosterVersion
    /\ next.rosterVersion = current.rosterVersion => sameBackfillRoster(current, next)

PutBackfillTicket(s, t, ticket) ==
    LET current == Get(s, "backfill_ticket", t)
        exists == Exists(s, "backfill_ticket", t)
        session == ticket.session
    IN IF ~ValidateBackfillTicket(ticket) THEN Refuse("InvalidInput")
       ELSE IF current.deleted THEN Refuse("InvalidRevision")
       ELSE IF exists /\ ~validateBackfillReplacement(current.payload, ticket)
         THEN Refuse("InvalidRevision")
       ELSE IF /\ exists
               /\ \/ ~validateDemandIdentity(s, "backfill_ticket", t)
                  \/ ~validateBackfillSessionClaim(s, session, t)
         THEN Refuse("Internal")
       ELSE IF exists
         THEN Accept({put("backfill_ticket", t, current.version, ticket)}, NoPayload)
       ELSE IF Exists(s, "demand_identity", t) THEN Refuse("InvalidRevision")
       ELSE IF Live(s, "backfill_session_claim", session) THEN Refuse("InvalidInput")
       ELSE Accept({put("demand_identity", t, 0, [kind |-> "backfill_ticket"]),
                    put("backfill_session_claim", session,
                        VersionOf(s, "backfill_session_claim", session),
                        [ticket |-> t]),
                    put("backfill_ticket", t, 0, ticket)}, NoPayload)

CancelBackfillTicket(s, t, revision, rosterVersion) ==
    LET stored == Read(s, "backfill_ticket", t)
    IN IF ~Live(s, "backfill_ticket", t) THEN Refuse("NotFound")
       ELSE IF stored.revision # revision \/ stored.rosterVersion # rosterVersion
         THEN Refuse("StaleSnapshot")
       ELSE IF ~validateBackfillSessionClaim(s, stored.session, t)
         THEN Refuse("Internal")
       ELSE Accept({delete("backfill_ticket", t, VersionOf(s, "backfill_ticket", t)),
                    delete("backfill_session_claim", stored.session,
                           VersionOf(s, "backfill_session_claim", stored.session))},
                   NoPayload)

(* The failure a conflicting commit becomes: conflicts are looked for in   *)
(* the order of the keys, and the session claim comes first.               *)
mapBackfillConflict(conflicts) ==
    IF \E session \in SessionIds : <<"backfill_session_claim", session>> \in conflicts
    THEN "InvalidInput" ELSE "InvalidRevision"

=============================================================================
