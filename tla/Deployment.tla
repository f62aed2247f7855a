----------------------------- MODULE Deployment -----------------------------
(***************************************************************************)
(* How a tenant's schema comes to be and keeps up with releases: the       *)
(* create route of tenantsController.js (services/tenantSetup.js), the     *)
(* scripts setupAdmin, provisionTenantCli and migrateTenants, and what     *)
(* they share: services/tenantProvisioning.js and the migrator.            *)
(*                                                                         *)
(* Provisioning is a sequence of statements, each committed by itself; a   *)
(* failure, or the end of the process, may come between any two.  Only the *)
(* migrator and the last part of create run in transactions.  DDL takes    *)
(* locks: DROP SCHEMA waits for a migration that created tables in it.     *)
(*                                                                         *)
(* A schema is abstracted to the migrations whose tables it has, whether   *)
(* its roles are seeded and whether it has an administrator; employees of  *)
(* different incarnations of a schema are different (born counts them).    *)
(***************************************************************************)
EXTENDS Naturals

CONSTANTS
    Tenants,        \* tenant codes, each with the schema named after it
    Root,           \* ROOT_TENANT_CODE
    Procs,          \* requests and scripts running at a time
    Releases,       \* bound: releases ever deployed, one migration each
    MaxBorn         \* bound: how often a schema is created anew

ASSUME DeploymentConstants ==
    Root \in Tenants /\ Releases \in Nat \ {0} /\ MaxBorn \in Nat \ {0}

Migrations == 1..Releases

VARIABLES
    release,    \* migrations of the deployed code are 1..release
    row,        \* the tenant's record in admin.tenants
    schema,     \* the tenant's schema in PostgreSQL
    history,    \* pgschemata.migrations: what is recorded of the schema
    binding,    \* the employee the administrator's login is bound to; 0: none
    proc,       \* what each process is doing
    scars       \* history: what went wrong since the tenant's schema was dropped

vars == <<release, row, schema, history, binding, proc, scars>>

Ops == {"create", "cli", "setup", "migrate"}
Scars == {"cut", "stale", "unseeded", "bare", "undone", "reopened"}
Idle == [pc |-> "idle", op |-> "migrate", t |-> Root, pending |-> {}]
Gone(b) == [exists |-> FALSE, born |-> b, tables |-> {}, roles |-> FALSE, staff |-> 0]
Fresh(b) == [exists |-> TRUE, born |-> b, tables |-> {}, roles |-> FALSE, staff |-> 0]

ProcRecord == [pc : {"idle", "drop", "forget", "schema", "migrate", "commit", "seed",
                     "undo", "admin", "employee", "bind", "done"},
               op : Ops, t : Tenants, pending : SUBSET Migrations]
SchemaRecord == [exists : BOOLEAN, born : 0..MaxBorn, tables : SUBSET Migrations,
                 roles : BOOLEAN, staff : 0..MaxBorn]

TypeOK ==
    /\ release \in 1..Releases
    /\ row \in [Tenants -> {"none", "live", "archived"}]
    /\ schema \in [Tenants -> SchemaRecord]
    /\ history \in [Tenants -> SUBSET (1..release)]
    /\ binding \in [Tenants -> 0..MaxBorn]
    /\ proc \in [Procs -> ProcRecord]
    /\ scars \in [Tenants -> SUBSET Scars]
    /\ \A t \in Tenants : ~schema[t].exists => schema[t] = Gone(schema[t].born)
    /\ \A p, q \in Procs : proc[p].pc = "commit" /\ proc[q].pc = "commit" => p = q

Init ==
    /\ release = 1
    /\ row = [t \in Tenants |-> "none"]
    /\ schema = [t \in Tenants |-> Gone(0)]
    /\ history = [t \in Tenants |-> {}]
    /\ binding = [t \in Tenants |-> 0]
    /\ proc = [p \in Procs |-> Idle]
    /\ scars = [t \in Tenants |-> {}]

At(p, pc, op) == proc[p].pc = pc /\ proc[p].op \in op
Goto(p, pc) == proc' = [proc EXCEPT ![p].pc = pc]
Begin(p, op, t, pc) ==
    /\ proc[p] = Idle
    /\ proc' = [proc EXCEPT ![p] = [pc |-> pc, op |-> op, t |-> t, pending |-> {}]]
Scar(t, s) == scars' = [scars EXCEPT ![t] = @ \cup {s}]

\* Operators do not provision a tenant that is being provisioned.
Quiet(t) == \A p \in Procs : proc[p].t = t => proc[p].op = "migrate"

-----------------------------------------------------------------------------
(* The record of the tenant.                                               *)

\* provisionNewTenant, 1; an unknown code, company and schema name are unique.
Create(p, t) ==
    /\ t # Root /\ row[t] = "none" /\ Quiet(t)
    /\ Begin(p, "create", t, "drop")
    /\ row' = [row EXCEPT ![t] = "live"]
    /\ UNCHANGED <<release, schema, history, binding, scars>>

\* provisionTenantCli skips the insert for a live tenant; that of an archived
\* one violates the unique code.
Cli(p, t) ==
    /\ row[t] # "archived" /\ Quiet(t)
    /\ Begin(p, "cli", t, "drop")
    /\ row' = [row EXCEPT ![t] = "live"]
    /\ UNCHANGED <<release, schema, history, binding, scars>>

\* setupAdmin: the migrations of the admin schema insert the root tenant.
Setup(p) ==
    /\ Quiet(Root) /\ \A q \in Procs : proc[q].pc # "commit"
    /\ Begin(p, "setup", Root, "drop")
    /\ row' = [row EXCEPT ![Root] = "live"]
    /\ UNCHANGED <<release, schema, history, binding, scars>>

MigrateTenant(p, t) ==
    /\ Begin(p, "migrate", t, "migrate")
    /\ UNCHANGED <<release, row, schema, history, binding, scars>>

\* tenantsController.archive and restore, without the bindings (see Logins).
Archive(t) ==
    /\ t # Root /\ row[t] = "live"
    /\ row' = [row EXCEPT ![t] = "archived"]
    /\ UNCHANGED <<release, schema, history, binding, proc, scars>>

Restore(t) ==
    /\ row[t] = "archived"
    /\ row' = [row EXCEPT ![t] = "live"]
    /\ IF "undone" \in scars[t] THEN Scar(t, "reopened") ELSE UNCHANGED scars
    /\ UNCHANGED <<release, schema, history, binding, proc>>

-----------------------------------------------------------------------------
(* provisionTenant.                                                        *)

DropSchema(p) ==
    LET t == proc[p].t IN
    /\ At(p, "drop", Ops)
    /\ \A q \in Procs : ~(At(q, "commit", Ops) /\ proc[q].t = t /\ proc[q].pending # {})
    /\ schema' = [schema EXCEPT ![t] = Gone(schema[t].born)]
    /\ scars' = [scars EXCEPT ![t] = IF proc[p].op = "cli" THEN {"bare"} ELSE {}]
    /\ Goto(p, "forget")
    /\ UNCHANGED <<release, row, history, binding>>

\* Mutant: the clean slate forgets about the history.
DeleteNothing(p) ==
    /\ At(p, "forget", Ops)
    /\ Goto(p, "schema")
    /\ UNCHANGED <<release, row, schema, history, binding, scars>>

DeleteHistory(p) ==
    LET t == proc[p].t IN
    /\ At(p, "forget", Ops)
    /\ history' = [history EXCEPT ![t] = {}]
    /\ Goto(p, "schema")
    /\ UNCHANGED <<release, row, schema, binding, scars>>

\* Any error of the DELETE is taken for a missing history table.
DeleteFails(p) ==
    LET t == proc[p].t IN
    /\ At(p, "forget", Ops)
    /\ IF history[t] # {} THEN Scar(t, "stale") ELSE UNCHANGED scars
    /\ Goto(p, "schema")
    /\ UNCHANGED <<release, row, schema, history, binding>>

CreateSchema(p) ==
    LET t == proc[p].t IN
    /\ At(p, "schema", Ops)
    /\ ~schema[t].exists /\ schema[t].born < MaxBorn
    /\ schema' = [schema EXCEPT ![t] = Fresh(schema[t].born + 1)]
    /\ Goto(p, "migrate")
    /\ UNCHANGED <<release, row, history, binding, scars>>

\* Mutant: two migrations may run at a time.
LockShared(p) ==
    LET t == proc[p].t
        pending == (1..release) \ history[t] IN
    /\ At(p, "migrate", Ops)
    /\ pending = {} \/ schema[t].exists
    /\ proc' = [proc EXCEPT ![p] =
                  [pc |-> "commit", op |-> proc[p].op, t |-> t, pending |-> pending]]
    /\ UNCHANGED <<release, row, schema, history, binding, scars>>

\* migrator.run takes the advisory lock or fails at once; it creates what the
\* history does not list.
Lock(p) ==
    LET t == proc[p].t
        pending == (1..release) \ history[t] IN
    /\ At(p, "migrate", Ops)
    /\ \A q \in Procs : proc[q].pc # "commit"
    /\ pending = {} \/ schema[t].exists
    /\ proc' = [proc EXCEPT ![p] =
                  [pc |-> "commit", op |-> proc[p].op, t |-> t, pending |-> pending]]
    /\ UNCHANGED <<release, row, schema, history, binding, scars>>

Commit(p) ==
    LET t == proc[p].t IN
    /\ At(p, "commit", Ops)
    /\ history' = [history EXCEPT ![t] = @ \cup proc[p].pending]
    /\ schema' = [schema EXCEPT ![t].tables = @ \cup proc[p].pending]
    /\ Goto(p, IF proc[p].op = "migrate" THEN "done" ELSE "seed")
    /\ UNCHANGED <<release, row, binding, scars>>

\* The seeds' errors are logged and dropped; so is that of a schema whose
\* history says it has the tables it lacks.
After(p) == IF proc[p].op = "create" THEN "admin"
            ELSE IF proc[p].op = "setup" THEN "employee" ELSE "done"

Seed(p) ==
    /\ At(p, "seed", Ops)
    /\ 1 \in schema[proc[p].t].tables
    /\ schema' = [schema EXCEPT ![proc[p].t].roles = TRUE]
    /\ Goto(p, After(p))
    /\ UNCHANGED <<release, row, history, binding, scars>>

SeedFails(p) ==
    /\ At(p, "seed", Ops)
    /\ Scar(proc[p].t, "unseeded")
    /\ Goto(p, After(p))
    /\ UNCHANGED <<release, row, schema, history, binding>>

-----------------------------------------------------------------------------
(* What follows provisioning, and what its failure does.                   *)

\* provisionNewTenant, 3: company, employee, login and binding in one
\* transaction.
CreateAdmin(p) ==
    LET t == proc[p].t IN
    /\ At(p, "admin", {"create"})
    /\ 1 \in schema[t].tables
    /\ schema' = [schema EXCEPT ![t].staff = schema[t].born]
    /\ binding' = [binding EXCEPT ![t] = schema[t].born]
    /\ Goto(p, "done")
    /\ UNCHANGED <<release, row, history, scars>>

\* The e-mail is another login's, or a statement fails: all of it is undone,
\* the tenant stays.
AdminFails(p) ==
    /\ At(p, "admin", {"create"})
    /\ Scar(proc[p].t, "bare")
    /\ proc' = [proc EXCEPT ![p] = Idle]
    /\ UNCHANGED <<release, row, schema, history, binding>>

Linked(t) == binding[t] # 0 /\ binding[t] = schema[t].staff

\* seedRootEntity: without ROOT_EMAIL, a live login of that address and a live
\* root tenant it leaves with a warning at most, and setup ends well all the same.
RootMissing(p) ==
    /\ At(p, "employee", {"setup"})
    /\ Scar(Root, "bare")
    /\ Goto(p, "done")
    /\ UNCHANGED <<release, row, schema, history, binding>>

\* Otherwise a binding whose employee is there is left alone.
RootEmployee(p) ==
    /\ At(p, "employee", {"setup"}) /\ row[Root] = "live"
    /\ 1 \in schema[Root].tables
    /\ IF Linked(Root)
       THEN Goto(p, "done") /\ UNCHANGED schema
       ELSE /\ schema' = [schema EXCEPT ![Root].staff = schema[Root].born]
            /\ Goto(p, "bind")
    /\ UNCHANGED <<release, row, history, binding, scars>>

RootBinding(p) ==
    /\ At(p, "bind", {"setup"})
    /\ binding' = [binding EXCEPT ![Root] = schema[Root].staff]
    /\ Goto(p, "done")
    /\ UNCHANGED <<release, row, schema, history, scars>>

\* A statement fails: create compensates, the scripts end with an error.
Stopped == {"drop", "schema", "migrate", "commit", "employee", "bind"}

\* Mutant: create does not compensate for a failed provisioning.
FailUncompensated(p) ==
    /\ proc[p].pc \in Stopped
    /\ proc' = [proc EXCEPT ![p] = Idle]
    /\ IF proc[p].op \in {"migrate", "create"} THEN UNCHANGED scars ELSE Scar(proc[p].t, "cut")
    /\ UNCHANGED <<release, row, schema, history, binding>>

Fail(p) ==
    /\ proc[p].pc \in Stopped
    /\ IF proc[p].op = "create"
       THEN Goto(p, "undo") /\ UNCHANGED scars
       ELSE /\ proc' = [proc EXCEPT ![p] = Idle]
            /\ IF proc[p].op = "migrate" THEN UNCHANGED scars ELSE Scar(proc[p].t, "cut")
    /\ UNCHANGED <<release, row, schema, history, binding>>

Deactivate(p) ==
    /\ At(p, "undo", {"create"})
    /\ row' = [row EXCEPT ![proc[p].t] = "archived"]
    /\ Scar(proc[p].t, "undone")
    /\ proc' = [proc EXCEPT ![p] = Idle]
    /\ UNCHANGED <<release, schema, history, binding>>

\* The process ends between two statements, or the compensation fails.
Crash(p) ==
    /\ ~At(p, "idle", Ops) /\ ~At(p, "done", Ops)
    /\ proc' = [proc EXCEPT ![p] = Idle]
    /\ IF proc[p].op = "migrate" THEN UNCHANGED scars ELSE Scar(proc[p].t, "cut")
    /\ UNCHANGED <<release, row, schema, history, binding>>

End(p) ==
    /\ At(p, "done", Ops)
    /\ proc' = [proc EXCEPT ![p] = Idle]
    /\ UNCHANGED <<release, row, schema, history, binding, scars>>

\* A new release with one more migration is deployed while nothing runs.
Deploy ==
    /\ release < Releases /\ \A p \in Procs : proc[p] = Idle
    /\ release' = release + 1
    /\ UNCHANGED <<row, schema, history, binding, proc, scars>>

Provision(p) ==
    \/ DropSchema(p) \/ DeleteHistory(p) \/ DeleteFails(p) \/ CreateSchema(p)
    \/ Lock(p) \/ Commit(p) \/ Seed(p) \/ SeedFails(p)
    \/ CreateAdmin(p) \/ AdminFails(p) \/ RootMissing(p) \/ RootEmployee(p) \/ RootBinding(p)
    \/ Fail(p) \/ Deactivate(p) \/ Crash(p) \/ End(p)

Next ==
    \/ \E p \in Procs : Provision(p) \/ Setup(p)
    \/ \E p \in Procs, t \in Tenants : Create(p, t) \/ Cli(p, t) \/ MigrateTenant(p, t)
    \/ \E t \in Tenants : Archive(t) \/ Restore(t)
    \/ Deploy

Spec == Init /\ [][Next]_vars

-----------------------------------------------------------------------------
(* Properties.                                                             *)

\* A tenant that is open, and that nothing is provisioning, has the tables its
\* history lists, of some release, and can be entered, roles and all, by the
\* administrator it was created with.  The ways to lose this are those of the
\* code without compensation: a process or script stopped half-way, history
\* that could not be deleted, a failed creation that is restored; and for the
\* administrator alone a dropped seed, a taken e-mail, the command line and a
\* root login that setup did not find.
LiveIsWhole ==
    \A t \in Tenants : row[t] = "live" /\ Quiet(t) =>
        /\ scars[t] \cap {"cut", "stale", "reopened"} = {} =>
               1 \in history[t] /\ schema[t].tables = history[t]
        /\ scars[t] = {} => Linked(t) /\ schema[t].roles

\* Whatever an earlier attempt, crash or release left behind, provisioning that
\* gets past its migrations has created them all, in a schema made for it, and
\* a setup that ends well and has found the root login has bound it to an
\* employee that exists (the clean slate of provisionTenant, the repairs of
\* seedRootEntity).
Rebuilt ==
    \A p \in Procs :
        LET t == proc[p].t IN
        /\ /\ proc[p].op # "migrate" /\ "stale" \notin scars[t]
           /\ proc[p].pc \in {"seed", "admin", "employee", "bind", "done"}
           => schema[t].tables = 1..release /\ history[t] = 1..release
        /\ At(p, "done", {"setup"}) /\ "bare" \notin scars[Root] => Linked(Root)

=============================================================================
