------------------------------ MODULE MCTarget ------------------------------
(* A lister c1, a writer c2 and a third client around a process that       *)
(* serves two requests at a time over one connection.                      *)
EXTENDS TargetRuntime, TLC

CONSTANTS c1, c2, c3, t1, t2, r1

command(kind, t) == [kind |-> kind, tenant |-> t]

Put(t, id) == [kind |-> "put", tenant |-> t, id |-> id]

Delete(t, id) == [kind |-> "delete", tenant |-> t, id |-> id]

Run(t, r) == [kind |-> "run", tenant |-> t, run |-> r]

Page(binding, limit) ==
    [kind |-> "list", tenant |-> binding.tenant, binding |-> binding, limit |-> limit]

MCContents(w) ==
    [t \in Tenants |->
        CASE w = "tickets" /\ t = t1 -> put(put(EmptyScope, 1), 3)
          [] w = "tickets" /\ t = t2 -> put(put(EmptyScope, 2), 3)
          [] w = "results" /\ t = t1 ->
               CHOOSE scope \in UNION {execute(captured, r1) : captured \in execute(EmptyScope, r1)} :
                   scope.runs[r1].proposals = Ids
          [] OTHER -> EmptyScope]

MCCommands(w) ==
    CASE w = "tickets" ->
           (c1 :> {Page(Tickets(t1), 1), Page(Tickets(t1), 2), Page(Tickets(t2), 1)}
            @@ c2 :> {Put(t1, 2), Put(t1, 3), Delete(t1, 1)}
            @@ c3 :> {})
      [] w = "results" ->
           (c1 :> {Page(Proposals(t1, r1), 1), Page(Proposals(t1, r1), 2), Page(Tickets(t1), 1)}
            @@ c2 :> {Put(t1, 1)}
            @@ c3 :> {})
      [] w = "run" ->
           (c1 :> {Page(Proposals(t1, r1), 2)}
            @@ c2 :> {Run(t1, r1)}
            @@ c3 :> {})
      [] w = "saturation" ->
           (c1 :> {command("malformed", t1)}
            @@ c2 :> {Put(t1, 1)}
            @@ c3 :> {Page(Tickets(t1), 1), command("ready", t1)})
=============================================================================
