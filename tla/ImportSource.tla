---------------------------- MODULE ImportSource ----------------------------
(***************************************************************************)
(* The v0 runtime as the source of an import.  The operator stops the      *)
(* writer; then the importer reads the journal (durable.ReadLegacyJournal) *)
(* and builds its model of it (LegacyModel).                               *)
(***************************************************************************)
EXTENDS Durable, LegacyModel

Importing == status = "down" /\ Recoverable(file)

Imported == buildLegacyImportModel(file)

(* What the v0 runtime would find. *)
Remembered == replay(file).state.coordinator

(* An identifier was match supply and, after that was gone, vacancy, or    *)
(* the other way round.  The v0 coordinator allows it and replays it.      *)
KindChanged ==
    \E i, j \in DOMAIN file : /\ file[i].kind = "match_ticket_submitted"
                               /\ file[j].kind = "backfill_ticket_submitted"
                               /\ file[i].id = file[j].id

(* A record that is as of an earlier time than a plan before it.  The      *)
(* importer's engine has expired reservations for the plan; a runtime that *)
(* was restarted in between has not, since its replay passes over plans.   *)
Overtaken ==
    \E i, j \in DOMAIN file : /\ i < j
                               /\ file[i].kind = "plan_completed"
                               /\ "now" \in DOMAIN file[j]
                               /\ file[j].now < file[i].now

(* A journal the runtime can be restarted from can be imported, unless an  *)
(* identifier changed its kind, and then it is refused.  The importer      *)
(* checks more than the replay: it also refuses a plan whose batch does    *)
(* not account for the demand of its own engine, and a reservation of a    *)
(* proposal that no plan of the journal made.  A runtime behind the HTTP   *)
(* adapter never writes such a journal, with the two exceptions of         *)
(* RestartSucceedsUnlessStale and that of a plan that was overtaken.       *)
ImportAccepts ==
    (/\ Offered.direct = {}
     /\ unrecorded = {} /\ ~outrun /\ ~Overtaken
     /\ Importing) => (Imported.failure = "none" <=> ~KindChanged)

(* The maps the importer keeps say what the v0 runtime would have          *)
(* recovered: the same tickets (but see ImportKeepsTickets), the same      *)
(* assignments, and the same reservations; an expiry that a plan made is   *)
(* in the maps and not in the replay.                                      *)
ImportAgrees ==
    (Importing /\ Imported.failure = "none") => MapsAgree(file, Imported.state, Remembered)

(* Every ticket that is live in the v0 runtime is live after the import.   *)
ImportKeepsTickets ==
    (Importing /\ Imported.failure = "none") =>
      SameTickets(Imported.state, Remembered, TicketIds)

=============================================================================
