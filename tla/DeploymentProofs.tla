-------------------------- MODULE DeploymentProofs --------------------------
(***************************************************************************)
(* Proofs about Deployment, for any tenants, processes and releases: every *)
(* live tenant is whole but for the listed scars, and what provisioning    *)
(* rebuilds is complete whatever it found.                                 *)
(*                                                                         *)
(* The invariant says what each statement of provisionTenant leaves for    *)
(* the next one (Phase), that the advisory lock keeps what the migrator    *)
(* read true until it commits (Locked), and that these facts are handed    *)
(* over to the tenant at rest (Rest).                                      *)
(***************************************************************************)
EXTENDS Deployment, TLAPS

Busy(p) == proc[p].op # "migrate"
Built == {"seed", "admin", "employee", "bind", "done"}

\* One process at most provisions a tenant.
Sole ==
    \A p, q \in Procs : Busy(p) /\ Busy(q) /\ proc[p].t = proc[q].t => p = q

\* What the migrator read is still so, or it has nothing to do.
Locked(p) ==
    proc[p].pc = "commit" =>
        \/ proc[p].pending = {} /\ ~Busy(p)
        \/ /\ proc[p].pending = (1..release) \ history[proc[p].t]
           /\ proc[p].pending = {} \/ schema[proc[p].t].exists

\* Which operation may be where.
Place(p) ==
    /\ ~Busy(p) => proc[p].pc \in {"idle", "migrate", "commit", "done"}
    /\ Busy(p) => proc[p].pc # "idle" /\ row[proc[p].t] # "none"
    /\ proc[p].pc \in {"undo", "admin"} => proc[p].op = "create"
    /\ proc[p].pc \in {"employee", "bind"} => proc[p].op = "setup"
    /\ proc[p].op = "setup" => proc[p].t = Root
    /\ proc[p].op = "create" => proc[p].t # Root
    /\ proc[p].op = "cli" /\ proc[p].pc # "drop" => "bare" \in scars[proc[p].t]

\* What each statement of provisioning leaves for the next one.
Phase(p) ==
    Busy(p) =>
        /\ proc[p].pc \in {"forget", "schema"} => ~schema[proc[p].t].exists
        /\ "stale" \notin scars[proc[p].t] =>
              /\ proc[p].pc = "schema" => history[proc[p].t] = {}
              /\ proc[p].pc \in {"migrate", "commit"} =>
                     schema[proc[p].t].tables = history[proc[p].t]
              /\ proc[p].pc \in Built => /\ schema[proc[p].t].tables = 1..release
                                         /\ history[proc[p].t] = 1..release
        /\ proc[p].pc \in Built \ {"seed"} /\ "unseeded" \notin scars[proc[p].t] =>
               schema[proc[p].t].roles
        /\ proc[p].pc = "bind" => schema[proc[p].t].staff # 0
        /\ proc[p].pc = "done" /\ proc[p].op # "cli" /\ "bare" \notin scars[proc[p].t] =>
               Linked(proc[p].t)

\* What holds of a tenant nothing is provisioning.
Rest(t) ==
    row[t] # "none" /\ Quiet(t) =>
        /\ scars[t] \cap {"cut", "stale", "undone"} = {} =>
               1 \in history[t] /\ schema[t].tables = history[t]
        /\ scars[t] = {} => Linked(t) /\ schema[t].roles

\* A failed creation is closed until somebody restores it.
Closed(t) ==
    /\ row[t] = "none" => "undone" \notin scars[t]
    /\ row[t] = "live" /\ "undone" \in scars[t] => "reopened" \in scars[t]
    /\ schema[t].exists => schema[t].born # 0

Inv ==
    /\ TypeOK /\ Sole
    /\ \A p \in Procs : Locked(p) /\ Place(p) /\ Phase(p)
    /\ \A t \in Tenants : Rest(t) /\ Closed(t)
    /\ row[Root] # "archived"

-----------------------------------------------------------------------------
(* A step of one process, for one tenant.                                  *)

Untouched(u) ==
    /\ row'[u] = row[u] /\ schema'[u] = schema[u] /\ history'[u] = history[u]
    /\ binding'[u] = binding[u] /\ scars'[u] = scars[u]

Local(p, t) ==
    /\ release' = release
    /\ \A u \in Tenants \ {t} : Untouched(u)
    /\ \A q \in Procs \ {p} : proc'[q] = proc[q]

\* TypeOK without what relates its parts.
Shaped ==
    /\ release \in 1..Releases
    /\ row \in [Tenants -> {"none", "live", "archived"}]
    /\ schema \in [Tenants -> SchemaRecord]
    /\ history \in [Tenants -> SUBSET (1..release)]
    /\ binding \in [Tenants -> 0..MaxBorn]
    /\ proc \in [Procs -> ProcRecord]
    /\ scars \in [Tenants -> SUBSET Scars]

Whole(t) == ~schema[t].exists => schema[t] = Gone(schema[t].born)

\* What the invariant says of one process and one tenant.
Before(p, t) ==
    /\ proc[p] \in ProcRecord /\ schema[t] \in SchemaRecord
    /\ history[t] \in SUBSET (1..release) /\ release \in 1..Releases
    /\ Locked(p) /\ Place(p) /\ Phase(p) /\ Rest(t) /\ Closed(t) /\ Whole(t)

LEMMA Known ==
    ASSUME Inv, NEW p \in Procs, NEW t \in Tenants
    PROVE  Before(p, t)
BY DEF Inv, TypeOK, Before, Whole

LEMMA OtherTenants ==
    ASSUME NEW p \in Procs, NEW t \in Tenants, Inv, Local(p, t),
           proc[p].t = t \/ ~Busy(p), NEW u \in Tenants \ {t}
    PROVE  Rest(u)' /\ Closed(u)' /\ Whole(u)'
<1>1. Untouched(u)
  BY DEF Local
<1>2. Quiet(u)' => Quiet(u)
  BY DEF Quiet, Local, Busy
<1>3. Rest(u) /\ Closed(u) /\ Whole(u)
  BY DEF Inv, TypeOK, Whole
<1> QED  BY <1>1, <1>2, <1>3 DEF Rest, Closed, Whole, Untouched, Linked

LEMMA OtherProcesses ==
    ASSUME NEW p \in Procs, NEW t \in Tenants, Inv, Local(p, t),
           NEW q \in Procs \ {p}, proc[q].t # t
    PROVE  Locked(q)' /\ Place(q)' /\ Phase(q)'
<1>1. proc'[q] = proc[q] /\ release' = release
  BY DEF Local
<1>2. Untouched(proc[q].t)
  BY DEF Local, Inv, TypeOK, ProcRecord
<1>3. Locked(q) /\ Place(q) /\ Phase(q)
  BY DEF Inv
<1>4. Locked(q)'
  BY <1>1, <1>2, <1>3 DEF Locked, Busy, Untouched
<1>5. Place(q)'
  BY <1>1, <1>2, <1>3 DEF Place, Busy, Untouched
<1>6. Phase(q)'
  BY <1>1, <1>2, <1>3 DEF Phase, Busy, Untouched, Linked
<1> QED  BY <1>4, <1>5, <1>6

LEMMA StepKeeps ==
    ASSUME NEW p \in Procs, NEW t \in Tenants, Inv, Local(p, t), Shaped',
           proc[p].t = t \/ ~Busy(p),
           Busy(p)' => proc'[p].t = t /\ (Busy(p) \/ Quiet(t)),
           proc'[p].pc = "commit" => \A q \in Procs : proc[q].pc # "commit",
           Locked(p)', Place(p)', Phase(p)', Rest(t)', Closed(t)', Whole(t)',
           \A q \in Procs \ {p} : proc[q].t = t => Locked(q)' /\ Place(q)' /\ Phase(q)',
           row'[Root] # "archived"
    PROVE  Inv'
<1>1. \A q \in Procs \ {p} : proc'[q] = proc[q]
  BY DEF Local
<1>2. ASSUME NEW q \in Procs, NEW r \in Procs, proc'[q].pc = "commit", proc'[r].pc = "commit"
      PROVE  q = r
  <2>1. \A a, b \in Procs : proc[a].pc = "commit" /\ proc[b].pc = "commit" => a = b
    BY DEF Inv, TypeOK
  <2> QED  BY <1>1, <1>2, <2>1
<1>3. \A q, r \in Procs : proc'[q].pc = "commit" /\ proc'[r].pc = "commit" => q = r
  BY <1>2
<1>4. \A u \in Tenants : Rest(u)' /\ Closed(u)' /\ Whole(u)'
  BY OtherTenants
<1>5. TypeOK'
  BY <1>3, <1>4 DEF Shaped, TypeOK, Whole
<1>6. Sole'
  <2>1. ASSUME NEW q \in Procs, NEW r \in Procs, Busy(q)', Busy(r)', proc'[q].t = proc'[r].t
        PROVE  q = r
    <3>1. \A a, b \in Procs : Busy(a) /\ Busy(b) /\ proc[a].t = proc[b].t => a = b
      BY DEF Inv, Sole
    <3>2. CASE q # p /\ r # p
      BY <1>1, <2>1, <3>1, <3>2 DEF Busy
    <3>3. ASSUME NEW a \in Procs \ {p}, Busy(p)', Busy(a)', proc'[a].t = proc'[p].t PROVE FALSE
      BY <1>1, <3>1, <3>3 DEF Busy, Quiet
    <3> QED  BY <2>1, <3>2, <3>3
  <2> QED  BY <2>1 DEF Sole
<1>7. \A q \in Procs : Locked(q)' /\ Place(q)' /\ Phase(q)'
  <2>1. ASSUME NEW q \in Procs PROVE Locked(q)' /\ Place(q)' /\ Phase(q)'
    BY OtherProcesses
  <2> QED  BY <2>1
<1> QED  BY <1>4, <1>5, <1>6, <1>7 DEF Inv

\* The migrations other processes run on a tenant that p provisions.
LEMMA OtherMigrations ==
    ASSUME NEW p \in Procs, NEW t \in Tenants, Inv, Local(p, t), proc[p].t = t, Busy(p),
           NEW q \in Procs \ {p}, proc[q].t = t,
           \/ proc[q].pc = "commit" => proc[q].pending = {}
           \/ history'[t] = history[t] /\ (schema[t].exists => schema'[t].exists)
    PROVE  Locked(q)' /\ Place(q)' /\ Phase(q)'
<1>1. proc'[q] = proc[q] /\ ~Busy(q) /\ release' = release /\ Locked(q) /\ Place(q)
  BY DEF Local, Inv, Sole
<1>2. Locked(q)'
  BY <1>1 DEF Locked, Busy
<1>3. Place(q)' /\ Phase(q)'
  BY <1>1 DEF Place, Phase, Busy
<1> QED  BY <1>2, <1>3

-----------------------------------------------------------------------------
(* The statements of provisioning, one by one.                             *)

LEMMA DropSchemaKeeps ==
    ASSUME NEW p \in Procs, NEW t \in Tenants, proc[p].t = t, Inv, DropSchema(p)
    PROVE  Inv'
<1>1. Before(p, t)
  BY Known
<1>2. proc[p].pc = "drop" /\ \A q \in Procs : proc[q].pc = "commit" /\ proc[q].t = t => proc[q].pending = {}
  <2>1. proc[p].pc = "drop"
    BY DEF DropSchema, At
  <2>2. ASSUME NEW q \in Procs, proc[q].pc = "commit", proc[q].t = t PROVE proc[q].pending = {}
    <3>1. proc[q].op \in Ops
      BY Known DEF Before, ProcRecord
    <3> QED  BY <2>2, <3>1 DEF DropSchema, At
  <2> QED  BY <2>1, <2>2
<1>3. /\ proc'[p] = [pc |-> "forget", op |-> proc[p].op, t |-> t, pending |-> proc[p].pending]
      /\ row'[t] = row[t]
      /\ schema'[t] = Gone(schema[t].born)
      /\ history'[t] = history[t]
      /\ binding'[t] = binding[t]
      /\ scars'[t] = IF proc[p].op = "cli" THEN {"bare"} ELSE {}
  BY <1>1, <1>2 DEF Before, Inv, TypeOK, Place, Busy, ProcRecord, SchemaRecord, DropSchema, At, Goto, Scar
<1>4. Local(p, t)
  BY <1>2 DEF Local, Untouched, Inv, TypeOK, DropSchema, At, Goto, Scar
<1>5. Shaped'
  <2>1. proc'[p] \in ProcRecord /\ schema'[t] \in SchemaRecord
    BY <1>1, <1>2, <1>3, DeploymentConstants
    DEF Before, ProcRecord, SchemaRecord, Migrations, Ops, Idle, Gone, Fresh
  <2>2. proc' \in [Procs -> ProcRecord] /\ schema' \in [Tenants -> SchemaRecord]
    BY <1>4, <2>1 DEF Local, Untouched, Inv, TypeOK, DropSchema, At, Goto, Scar
  <2>3. /\ scars' \in [Tenants -> SUBSET Scars]
        /\ row' \in [Tenants -> {"none", "live", "archived"}]
    BY <1>1 DEF Before, Inv, TypeOK, Scars, DropSchema, At, Goto, Scar
  <2>4. history' \in [Tenants -> SUBSET (1..release)]
    BY <1>1, <1>2 DEF Before, Inv, TypeOK, Locked, DropSchema, At, Goto, Scar
  <2>5. binding' \in [Tenants -> 0..MaxBorn]
    BY <1>1 DEF Before, Inv, TypeOK, SchemaRecord, DropSchema, At, Goto, Scar
  <2> QED  BY <1>1, <1>4, <2>2, <2>3, <2>4, <2>5 DEF Before, Local, Shaped
<1>6. Locked(p)' /\ Place(p)'
  <2>1. Locked(p)'
    BY <1>1, <1>2, <1>3, <1>4 DEF Local, Before, Locked, Place, Phase, Busy, Built, Linked, Idle, Gone, Fresh, ProcRecord, SchemaRecord, Ops
  <2>2. Place(p)'
    BY <1>1, <1>2, <1>3, <1>4 DEF Local, Before, Locked, Place, Phase, Busy, Built, Linked, Idle, Gone, Fresh, ProcRecord, SchemaRecord, Ops
  <2> QED  BY <2>1, <2>2
<1>7. Phase(p)'
  BY <1>1, <1>2, <1>3, <1>4 DEF Local, Closed, Before, Locked, Place, Phase, Busy, Built, Linked, Idle, Gone, Fresh, ProcRecord, SchemaRecord, Ops
<1>8. ASSUME NEW q \in Procs \ {p}, proc[q].t = t PROVE Locked(q)' /\ Place(q)' /\ Phase(q)'
  <2>1. Busy(p)
    BY <1>1, <1>2 DEF Before, Place, Busy
  <2>2. proc[q].pc = "commit" => proc[q].pending = {}
    BY <1>2, <1>8
  <2> QED  BY <1>4, <1>8, <2>1, <2>2, OtherMigrations
<1>9. Rest(t)'
  BY <1>1, <1>2, <1>3 DEF Before, Place, Rest, Quiet, Busy
<1>10. Closed(t)' /\ row'[Root] # "archived"
  BY <1>1, <1>2, <1>3, <1>4, DeploymentConstants
  DEF Before, Inv, Local, Untouched, Closed, Place, Gone, Fresh, SchemaRecord, Busy
<1>11. Whole(t)'
  BY <1>1, <1>2, <1>3 DEF Before, Whole, Gone, Fresh
<1> QED
  BY <1>1, <1>2, <1>3, <1>4, <1>5, <1>6, <1>7, <1>8, <1>9, <1>10, <1>11, StepKeeps
  DEF Busy, Idle

LEMMA DeleteHistoryKeeps ==
    ASSUME NEW p \in Procs, NEW t \in Tenants, proc[p].t = t, Inv, DeleteHistory(p)
    PROVE  Inv'
<1>1. Before(p, t)
  BY Known
<1>2. proc[p].pc = "forget"
  BY <1>1 DEF Before, Place, Busy, DeleteHistory, At, Goto, Scar
<1>3. /\ proc'[p] = [pc |-> "schema", op |-> proc[p].op, t |-> t, pending |-> proc[p].pending]
      /\ row'[t] = row[t]
      /\ schema'[t] = schema[t]
      /\ history'[t] = {}
      /\ binding'[t] = binding[t]
      /\ scars'[t] = scars[t]
  BY <1>1, <1>2 DEF Before, Inv, TypeOK, Place, Busy, ProcRecord, SchemaRecord, DeleteHistory, At, Goto, Scar
<1>4. Local(p, t)
  BY <1>2 DEF Local, Untouched, Inv, TypeOK, DeleteHistory, At, Goto, Scar
<1>5. Shaped'
  <2>1. proc'[p] \in ProcRecord /\ schema'[t] \in SchemaRecord
    BY <1>1, <1>2, <1>3, DeploymentConstants
    DEF Before, ProcRecord, SchemaRecord, Migrations, Ops, Idle, Gone, Fresh
  <2>2. proc' \in [Procs -> ProcRecord] /\ schema' \in [Tenants -> SchemaRecord]
    BY <1>4, <2>1 DEF Local, Untouched, Inv, TypeOK, DeleteHistory, At, Goto, Scar
  <2>3. /\ scars' \in [Tenants -> SUBSET Scars]
        /\ row' \in [Tenants -> {"none", "live", "archived"}]
    BY <1>1 DEF Before, Inv, TypeOK, Scars, DeleteHistory, At, Goto, Scar
  <2>4. history' \in [Tenants -> SUBSET (1..release)]
    BY <1>1, <1>2 DEF Before, Inv, TypeOK, Locked, DeleteHistory, At, Goto, Scar
  <2>5. binding' \in [Tenants -> 0..MaxBorn]
    BY <1>1 DEF Before, Inv, TypeOK, SchemaRecord, DeleteHistory, At, Goto, Scar
  <2> QED  BY <1>1, <1>4, <2>2, <2>3, <2>4, <2>5 DEF Before, Local, Shaped
<1>6. Locked(p)' /\ Place(p)'
  <2>1. Locked(p)'
    BY <1>1, <1>2, <1>3, <1>4 DEF Local, Before, Locked, Place, Phase, Busy, Built, Linked, Idle, Gone, Fresh, ProcRecord, SchemaRecord, Ops
  <2>2. Place(p)'
    BY <1>1, <1>2, <1>3, <1>4 DEF Local, Before, Locked, Place, Phase, Busy, Built, Linked, Idle, Gone, Fresh, ProcRecord, SchemaRecord, Ops
  <2> QED  BY <2>1, <2>2
<1>7. Phase(p)'
  BY <1>1, <1>2, <1>3, <1>4 DEF Local, Closed, Before, Locked, Place, Phase, Busy, Built, Linked, Idle, Gone, Fresh, ProcRecord, SchemaRecord, Ops
<1>8. ASSUME NEW q \in Procs \ {p}, proc[q].t = t PROVE Locked(q)' /\ Place(q)' /\ Phase(q)'
  <2>1. ~schema[t].exists /\ Busy(p)
    BY <1>1, <1>2 DEF Before, Phase, Place, Busy
  <2>2. proc[q].pc = "commit" => proc[q].pending = {}
    BY <1>8, <2>1, Known DEF Before, Locked
  <2> QED  BY <1>4, <1>8, <2>1, <2>2, OtherMigrations
<1>9. Rest(t)'
  BY <1>1, <1>2, <1>3 DEF Before, Place, Rest, Quiet, Busy
<1>10. Closed(t)' /\ row'[Root] # "archived"
  BY <1>1, <1>2, <1>3, <1>4, DeploymentConstants
  DEF Before, Inv, Local, Untouched, Closed, Place, Gone, Fresh, SchemaRecord, Busy
<1>11. Whole(t)'
  BY <1>1, <1>2, <1>3 DEF Before, Whole, Gone, Fresh
<1> QED
  BY <1>1, <1>2, <1>3, <1>4, <1>5, <1>6, <1>7, <1>8, <1>9, <1>10, <1>11, StepKeeps
  DEF Busy, Idle

LEMMA DeleteFailsKeeps ==
    ASSUME NEW p \in Procs, NEW t \in Tenants, proc[p].t = t, Inv, DeleteFails(p)
    PROVE  Inv'
<1>1. Before(p, t)
  BY Known
<1>2. proc[p].pc = "forget"
  BY <1>1 DEF Before, Place, Busy, DeleteFails, At, Goto, Scar
<1>3. /\ proc'[p] = [pc |-> "schema", op |-> proc[p].op, t |-> t, pending |-> proc[p].pending]
      /\ row'[t] = row[t]
      /\ schema'[t] = schema[t]
      /\ history'[t] = history[t]
      /\ binding'[t] = binding[t]
      /\ scars'[t] = IF history[t] # {} THEN scars[t] \cup {"stale"} ELSE scars[t]
  BY <1>1, <1>2 DEF Before, Inv, TypeOK, Place, Busy, ProcRecord, SchemaRecord, DeleteFails, At, Goto, Scar
<1>4. Local(p, t)
  BY <1>2 DEF Local, Untouched, Inv, TypeOK, DeleteFails, At, Goto, Scar
<1>5. Shaped'
  <2>1. proc'[p] \in ProcRecord /\ schema'[t] \in SchemaRecord
    BY <1>1, <1>2, <1>3, DeploymentConstants
    DEF Before, ProcRecord, SchemaRecord, Migrations, Ops, Idle, Gone, Fresh
  <2>2. proc' \in [Procs -> ProcRecord] /\ schema' \in [Tenants -> SchemaRecord]
    BY <1>4, <2>1 DEF Local, Untouched, Inv, TypeOK, DeleteFails, At, Goto, Scar
  <2>3. /\ scars' \in [Tenants -> SUBSET Scars]
        /\ row' \in [Tenants -> {"none", "live", "archived"}]
    BY <1>1 DEF Before, Inv, TypeOK, Scars, DeleteFails, At, Goto, Scar
  <2>4. history' \in [Tenants -> SUBSET (1..release)]
    BY <1>1, <1>2 DEF Before, Inv, TypeOK, Locked, DeleteFails, At, Goto, Scar
  <2>5. binding' \in [Tenants -> 0..MaxBorn]
    BY <1>1 DEF Before, Inv, TypeOK, SchemaRecord, DeleteFails, At, Goto, Scar
  <2> QED  BY <1>1, <1>4, <2>2, <2>3, <2>4, <2>5 DEF Before, Local, Shaped
<1>6. Locked(p)' /\ Place(p)'
  <2>1. Locked(p)'
    BY <1>1, <1>2, <1>3, <1>4 DEF Local, Before, Locked, Place, Phase, Busy, Built, Linked, Idle, Gone, Fresh, ProcRecord, SchemaRecord, Ops
  <2>2. Place(p)'
    BY <1>1, <1>2, <1>3, <1>4 DEF Local, Before, Locked, Place, Phase, Busy, Built, Linked, Idle, Gone, Fresh, ProcRecord, SchemaRecord, Ops
  <2> QED  BY <2>1, <2>2
<1>7. Phase(p)'
  BY <1>1, <1>2, <1>3, <1>4 DEF Local, Closed, Before, Locked, Place, Phase, Busy, Built, Linked, Idle, Gone, Fresh, ProcRecord, SchemaRecord, Ops
<1>8. ASSUME NEW q \in Procs \ {p}, proc[q].t = t PROVE Locked(q)' /\ Place(q)' /\ Phase(q)'
  BY <1>1, <1>2, <1>3, <1>4, <1>8, OtherMigrations DEF Before, Place, Busy, Gone, Fresh
<1>9. Rest(t)'
  BY <1>1, <1>2, <1>3 DEF Before, Place, Rest, Quiet, Busy
<1>10. Closed(t)' /\ row'[Root] # "archived"
  BY <1>1, <1>2, <1>3, <1>4, DeploymentConstants
  DEF Before, Inv, Local, Untouched, Closed, Place, Gone, Fresh, SchemaRecord, Busy
<1>11. Whole(t)'
  BY <1>1, <1>2, <1>3 DEF Before, Whole, Gone, Fresh
<1> QED
  BY <1>1, <1>2, <1>3, <1>4, <1>5, <1>6, <1>7, <1>8, <1>9, <1>10, <1>11, StepKeeps
  DEF Busy, Idle

LEMMA CreateSchemaKeeps ==
    ASSUME NEW p \in Procs, NEW t \in Tenants, proc[p].t = t, Inv, CreateSchema(p)
    PROVE  Inv'
<1>1. Before(p, t)
  BY Known
<1>2. proc[p].pc = "schema" /\ ~schema[t].exists /\ schema[t].born < MaxBorn
  BY <1>1 DEF Before, Place, Busy, CreateSchema, At, Goto, Scar
<1>3. /\ proc'[p] = [pc |-> "migrate", op |-> proc[p].op, t |-> t, pending |-> proc[p].pending]
      /\ row'[t] = row[t]
      /\ schema'[t] = Fresh(schema[t].born + 1)
      /\ history'[t] = history[t]
      /\ binding'[t] = binding[t]
      /\ scars'[t] = scars[t]
  BY <1>1, <1>2 DEF Before, Inv, TypeOK, Place, Busy, ProcRecord, SchemaRecord, CreateSchema, At, Goto, Scar
<1>4. Local(p, t)
  BY <1>2 DEF Local, Untouched, Inv, TypeOK, CreateSchema, At, Goto, Scar
<1>5. Shaped'
  <2>1. proc'[p] \in ProcRecord /\ schema'[t] \in SchemaRecord
    BY <1>1, <1>2, <1>3, DeploymentConstants
    DEF Before, ProcRecord, SchemaRecord, Migrations, Ops, Idle, Gone, Fresh
  <2>2. proc' \in [Procs -> ProcRecord] /\ schema' \in [Tenants -> SchemaRecord]
    BY <1>4, <2>1 DEF Local, Untouched, Inv, TypeOK, CreateSchema, At, Goto, Scar
  <2>3. /\ scars' \in [Tenants -> SUBSET Scars]
        /\ row' \in [Tenants -> {"none", "live", "archived"}]
    BY <1>1 DEF Before, Inv, TypeOK, Scars, CreateSchema, At, Goto, Scar
  <2>4. history' \in [Tenants -> SUBSET (1..release)]
    BY <1>1, <1>2 DEF Before, Inv, TypeOK, Locked, CreateSchema, At, Goto, Scar
  <2>5. binding' \in [Tenants -> 0..MaxBorn]
    BY <1>1 DEF Before, Inv, TypeOK, SchemaRecord, CreateSchema, At, Goto, Scar
  <2> QED  BY <1>1, <1>4, <2>2, <2>3, <2>4, <2>5 DEF Before, Local, Shaped
<1>6. Locked(p)' /\ Place(p)'
  <2>1. Locked(p)'
    BY <1>1, <1>2, <1>3, <1>4 DEF Local, Before, Locked, Place, Phase, Busy, Built, Linked, Idle, Gone, Fresh, ProcRecord, SchemaRecord, Ops
  <2>2. Place(p)'
    BY <1>1, <1>2, <1>3, <1>4 DEF Local, Before, Locked, Place, Phase, Busy, Built, Linked, Idle, Gone, Fresh, ProcRecord, SchemaRecord, Ops
  <2> QED  BY <2>1, <2>2
<1>7. Phase(p)'
  <2>1. Busy(p)' /\ proc'[p].pc \in {"forget", "schema"} => ~schema'[t].exists
    BY <1>1, <1>2, <1>3, <1>4 DEF Local, Closed, Whole, Before, Locked, Place, Phase, Busy, Built, Linked, Idle, Gone, Fresh, ProcRecord, SchemaRecord, Ops
  <2>2. Busy(p)' /\ "stale" \notin scars'[t] /\ proc'[p].pc = "schema" => history'[t] = {}
    BY <1>1, <1>2, <1>3, <1>4 DEF Local, Closed, Whole, Before, Locked, Place, Phase, Busy, Built, Linked, Idle, Gone, Fresh, ProcRecord, SchemaRecord, Ops
  <2>3. Busy(p)' /\ "stale" \notin scars'[t] /\ proc'[p].pc \in {"migrate", "commit"} =>
            schema'[t].tables = history'[t]
    BY <1>1, <1>2, <1>3, <1>4 DEF Local, Closed, Whole, Before, Locked, Place, Phase, Busy, Built, Linked, Idle, Gone, Fresh, ProcRecord, SchemaRecord, Ops
  <2>4. Busy(p)' /\ "stale" \notin scars'[t] /\ proc'[p].pc \in Built =>
            schema'[t].tables = 1..release /\ history'[t] = 1..release
    BY <1>1, <1>2, <1>3, <1>4 DEF Local, Closed, Whole, Before, Locked, Place, Phase, Busy, Built, Linked, Idle, Gone, Fresh, ProcRecord, SchemaRecord, Ops
  <2>5. Busy(p)' /\ proc'[p].pc \in Built \ {"seed"} /\ "unseeded" \notin scars'[t] => schema'[t].roles
    BY <1>1, <1>2, <1>3, <1>4 DEF Local, Closed, Whole, Before, Locked, Place, Phase, Busy, Built, Linked, Idle, Gone, Fresh, ProcRecord, SchemaRecord, Ops
  <2>6. Busy(p)' /\ proc'[p].pc = "bind" => schema'[t].staff # 0
    BY <1>1, <1>2, <1>3, <1>4 DEF Local, Closed, Whole, Before, Locked, Place, Phase, Busy, Built, Linked, Idle, Gone, Fresh, ProcRecord, SchemaRecord, Ops
  <2>7. Busy(p)' /\ proc'[p].pc = "done" /\ proc'[p].op # "cli" /\ "bare" \notin scars'[t]
            => Linked(t)'
    BY <1>1, <1>2, <1>3, <1>4 DEF Local, Closed, Whole, Before, Locked, Place, Phase, Busy, Built, Linked, Idle, Gone, Fresh, ProcRecord, SchemaRecord, Ops
  <2>8. proc'[p].t = t /\ release' = release
    BY <1>3, <1>4 DEF Local
  <2> QED  BY <2>1, <2>2, <2>3, <2>4, <2>5, <2>6, <2>7, <2>8 DEF Phase, Linked
<1>8. ASSUME NEW q \in Procs \ {p}, proc[q].t = t PROVE Locked(q)' /\ Place(q)' /\ Phase(q)'
  BY <1>1, <1>2, <1>3, <1>4, <1>8, OtherMigrations DEF Before, Place, Busy, Gone, Fresh
<1>9. Rest(t)'
  BY <1>1, <1>2, <1>3 DEF Before, Place, Rest, Quiet, Busy
<1>10. Closed(t)' /\ row'[Root] # "archived"
  BY <1>1, <1>2, <1>3, <1>4, DeploymentConstants
  DEF Before, Inv, Local, Untouched, Closed, Place, Gone, Fresh, SchemaRecord, Busy
<1>11. Whole(t)'
  BY <1>1, <1>2, <1>3 DEF Before, Whole, Gone, Fresh
<1> QED
  BY <1>1, <1>2, <1>3, <1>4, <1>5, <1>6, <1>7, <1>8, <1>9, <1>10, <1>11, StepKeeps
  DEF Busy, Idle

LEMMA LockKeeps ==
    ASSUME NEW p \in Procs, NEW t \in Tenants, proc[p].t = t, Inv, Lock(p)
    PROVE  Inv'
<1>1. Before(p, t)
  BY Known
<1>2. /\ proc[p].pc = "migrate" /\ \A q \in Procs : proc[q].pc # "commit"
      /\ (1..release) \ history[t] = {} \/ schema[t].exists
  BY DEF Lock, At
<1>3. /\ proc'[p] = [pc |-> "commit", op |-> proc[p].op, t |-> t, pending |-> (1..release) \ history[t]]
      /\ row'[t] = row[t]
      /\ schema'[t] = schema[t]
      /\ history'[t] = history[t]
      /\ binding'[t] = binding[t]
      /\ scars'[t] = scars[t]
  BY <1>1, <1>2 DEF Before, Inv, TypeOK, Place, Busy, ProcRecord, SchemaRecord, Lock, At, Goto, Scar
<1>4. Local(p, t)
  BY <1>2 DEF Local, Untouched, Inv, TypeOK, Lock, At, Goto, Scar
<1>5. Shaped'
  <2>1. proc'[p] \in ProcRecord /\ schema'[t] \in SchemaRecord
    BY <1>1, <1>2, <1>3, DeploymentConstants
    DEF Before, ProcRecord, SchemaRecord, Migrations, Ops, Idle, Gone, Fresh
  <2>2. proc' \in [Procs -> ProcRecord] /\ schema' \in [Tenants -> SchemaRecord]
    BY <1>4, <2>1 DEF Local, Untouched, Inv, TypeOK, Lock, At, Goto, Scar
  <2>3. /\ scars' \in [Tenants -> SUBSET Scars]
        /\ row' \in [Tenants -> {"none", "live", "archived"}]
    BY <1>1 DEF Before, Inv, TypeOK, Scars, Lock, At, Goto, Scar
  <2>4. history' \in [Tenants -> SUBSET (1..release)]
    BY <1>1, <1>2 DEF Before, Inv, TypeOK, Locked, Lock, At, Goto, Scar
  <2>5. binding' \in [Tenants -> 0..MaxBorn]
    BY <1>1 DEF Before, Inv, TypeOK, SchemaRecord, Lock, At, Goto, Scar
  <2> QED  BY <1>1, <1>4, <2>2, <2>3, <2>4, <2>5 DEF Before, Local, Shaped
<1>6. Locked(p)' /\ Place(p)'
  <2>1. Locked(p)'
    BY <1>1, <1>2, <1>3, <1>4 DEF Local, Before, Locked, Place, Phase, Busy, Built, Linked, Idle, Gone, Fresh, ProcRecord, SchemaRecord, Ops
  <2>2. Place(p)'
    BY <1>1, <1>2, <1>3, <1>4 DEF Local, Before, Locked, Place, Phase, Busy, Built, Linked, Idle, Gone, Fresh, ProcRecord, SchemaRecord, Ops
  <2> QED  BY <2>1, <2>2
<1>7. Phase(p)'
  BY <1>1, <1>2, <1>3, <1>4 DEF Local, Closed, Before, Locked, Place, Phase, Busy, Built, Linked, Idle, Gone, Fresh, ProcRecord, SchemaRecord, Ops
<1>8. ASSUME NEW q \in Procs \ {p}, proc[q].t = t PROVE Locked(q)' /\ Place(q)' /\ Phase(q)'
  <2>1. proc'[q] = proc[q] /\ release' = release /\ Locked(q) /\ Place(q) /\ Phase(q)
    BY <1>4, <1>8, Known DEF Before, Local
  <2>2. Locked(q)' /\ Place(q)'
    BY <1>1, <1>2, <1>3, <1>8, <2>1 DEF Locked, Place, Busy
  <2>3. Phase(q)'
    BY <1>1, <1>2, <1>3, <1>8, <2>1 DEF Before, Phase, Busy, Linked, Inv, Sole
  <2> QED  BY <2>2, <2>3
<1>9. Rest(t)'
  <2>1. CASE ~Busy(p)
    <3>1. Quiet(t)' => Quiet(t)
      BY <1>4, <2>1 DEF Quiet, Busy, Local
    <3> QED  BY <1>1, <1>3, <2>1, <3>1 DEF Before, Rest, Linked, Busy
  <2>2. CASE Busy(p)
    BY <1>3, <2>2 DEF Rest, Quiet, Busy
  <2> QED  BY <2>1, <2>2
<1>10. Closed(t)' /\ row'[Root] # "archived"
  BY <1>1, <1>2, <1>3, <1>4, DeploymentConstants
  DEF Before, Inv, Local, Untouched, Closed, Place, Gone, Fresh, SchemaRecord, Busy
<1>11. Whole(t)'
  BY <1>1, <1>2, <1>3 DEF Before, Whole, Gone, Fresh
<1> QED
  BY <1>1, <1>2, <1>3, <1>4, <1>5, <1>6, <1>7, <1>8, <1>9, <1>10, <1>11, StepKeeps
  DEF Busy, Idle

LEMMA CommitKeeps ==
    ASSUME NEW p \in Procs, NEW t \in Tenants, proc[p].t = t, Inv, Commit(p)
    PROVE  Inv'
<1>1. Before(p, t)
  BY Known
<1>2. proc[p].pc = "commit"
  BY <1>1 DEF Before, Place, Busy, Commit, At, Goto, Scar
<1>3. /\ proc'[p] = [pc |-> IF proc[p].op = "migrate" THEN "done" ELSE "seed", op |-> proc[p].op, t |-> t, pending |-> proc[p].pending]
      /\ row'[t] = row[t]
      /\ schema'[t] = [exists |-> schema[t].exists, born |-> schema[t].born, tables |-> schema[t].tables \cup proc[p].pending,
                       roles |-> schema[t].roles, staff |-> schema[t].staff]
      /\ history'[t] = history[t] \cup proc[p].pending
      /\ binding'[t] = binding[t]
      /\ scars'[t] = scars[t]
  BY <1>1, <1>2 DEF Before, Inv, TypeOK, Place, Busy, ProcRecord, SchemaRecord, Commit, At, Goto, Scar
<1>4. Local(p, t)
  BY <1>2 DEF Local, Untouched, Inv, TypeOK, Commit, At, Goto, Scar
<1>5. Shaped'
  <2>1. proc'[p] \in ProcRecord /\ schema'[t] \in SchemaRecord
    BY <1>1, <1>2, <1>3, DeploymentConstants
    DEF Before, ProcRecord, SchemaRecord, Migrations, Ops, Idle, Gone, Fresh
  <2>2. proc' \in [Procs -> ProcRecord] /\ schema' \in [Tenants -> SchemaRecord]
    BY <1>4, <2>1 DEF Local, Untouched, Inv, TypeOK, Commit, At, Goto, Scar
  <2>3. /\ scars' \in [Tenants -> SUBSET Scars]
        /\ row' \in [Tenants -> {"none", "live", "archived"}]
    BY <1>1 DEF Before, Inv, TypeOK, Scars, Commit, At, Goto, Scar
  <2>4. history' \in [Tenants -> SUBSET (1..release)]
    BY <1>1, <1>2 DEF Before, Inv, TypeOK, Locked, Commit, At, Goto, Scar
  <2>5. binding' \in [Tenants -> 0..MaxBorn]
    BY <1>1 DEF Before, Inv, TypeOK, SchemaRecord, Commit, At, Goto, Scar
  <2> QED  BY <1>1, <1>4, <2>2, <2>3, <2>4, <2>5 DEF Before, Local, Shaped
<1>6. Locked(p)' /\ Place(p)'
  <2>1. Locked(p)'
    BY <1>1, <1>2, <1>3, <1>4 DEF Local, Before, Locked, Place, Phase, Busy, Built, Linked, Idle, Gone, Fresh, ProcRecord, SchemaRecord, Ops
  <2>2. Place(p)'
    BY <1>1, <1>2, <1>3, <1>4 DEF Local, Before, Locked, Place, Phase, Busy, Built, Linked, Idle, Gone, Fresh, ProcRecord, SchemaRecord, Ops
  <2> QED  BY <2>1, <2>2
<1>7. Phase(p)'
  <2>1. Busy(p) /\ "stale" \notin scars[t] => schema[t].tables = history[t]
    BY <1>1, <1>2 DEF Before, Phase, Busy
  <2>2. ASSUME Busy(p) PROVE history[t] \cup proc[p].pending = 1..release
    <3>1. proc[p].pending = (1..release) \ history[t]
      BY <1>1, <1>2, <2>2 DEF Before, Locked
    <3>2. history[t] \subseteq 1..release
      BY <1>1 DEF Before
    <3> QED  BY <3>1, <3>2
  <2>3. Busy(p)' => Busy(p) /\ proc'[p].pc = "seed" /\ proc'[p].t = t
    BY <1>3 DEF Busy
  <2>4. /\ schema'[t].tables = schema[t].tables \cup proc[p].pending
        /\ history'[t] = history[t] \cup proc[p].pending /\ scars'[t] = scars[t]
    BY <1>3
  <2> QED  BY <1>4, <2>1, <2>2, <2>3, <2>4 DEF Phase, Built, Local
<1>8. ASSUME NEW q \in Procs \ {p}, proc[q].t = t PROVE Locked(q)' /\ Place(q)' /\ Phase(q)'
  <2>1. proc'[q] = proc[q] /\ release' = release /\ Locked(q) /\ Place(q) /\ Phase(q)
    BY <1>4, <1>8, Known DEF Before, Local
  <2>2. proc[q].pc # "commit"
    BY <1>2, <1>8 DEF Inv, TypeOK
  <2>3. Locked(q)' /\ Place(q)'
    BY <1>3, <1>8, <2>1, <2>2 DEF Locked, Place, Busy
  <2>4. Phase(q)'
    <3>1. CASE ~Busy(q)
      BY <2>1, <3>1 DEF Phase, Busy
    <3>2. CASE Busy(q)
      <4>1. ~Busy(p)
        BY <1>8, <3>2 DEF Inv, Sole
      <4>2. CASE proc[p].pending = {}
        BY <1>3, <1>8, <2>1, <4>2 DEF Phase, Busy, Linked
      <4>3. CASE proc[p].pending # {}
        <5>1. schema[t].exists /\ proc[p].pending = (1..release) \ history[t]
          BY <1>1, <1>2, <4>3 DEF Before, Locked
        <5>2. proc[q].pc \notin {"forget", "schema"}
          BY <1>8, <2>1, <3>2, <5>1 DEF Phase
        <5>3. ASSUME "stale" \notin scars[t], proc[q].pc \in Built PROVE FALSE
          <6>1. history[proc[q].t] = 1..release
            BY <1>8, <2>1, <3>2, <5>3 DEF Phase
          <6> QED  BY <1>8, <4>3, <5>1, <6>1
        <5>4. /\ schema'[t].tables = schema[t].tables \cup proc[p].pending
              /\ history'[t] = history[t] \cup proc[p].pending /\ scars'[t] = scars[t]
              /\ schema'[t].roles = schema[t].roles /\ schema'[t].staff = schema[t].staff
          BY <1>3
        <5>5. Linked(t) => Linked(t)'
          BY <1>3, <5>4 DEF Linked
        <5>6. Busy(q)' /\ proc[q].pc # "commit"
          BY <2>1, <2>2, <3>2 DEF Busy
        <5>7. ASSUME "stale" \notin scars'[t]
              PROVE  /\ proc[q].pc \notin Built \cup {"schema"}
                     /\ proc[q].pc = "migrate" => schema'[t].tables = history'[t]
          BY <1>8, <2>1, <3>2, <5>2, <5>3, <5>4, <5>7 DEF Phase
        <5>8. /\ proc[q].pc \in Built \ {"seed"} /\ "unseeded" \notin scars'[t] =>
                     schema'[t].roles
              /\ proc[q].pc = "bind" => schema'[t].staff # 0
              /\ proc[q].pc = "done" /\ proc[q].op # "cli" /\ "bare" \notin scars'[t] =>
                     Linked(t)'
          BY <1>8, <2>1, <3>2, <5>4, <5>5 DEF Phase
        <5> QED  BY <1>8, <2>1, <5>2, <5>6, <5>7, <5>8 DEF Phase, Linked
      <4> QED  BY <4>2, <4>3
    <3> QED  BY <3>1, <3>2
  <2> QED  BY <2>3, <2>4
<1>9. Rest(t)'
  <2>1. CASE ~Busy(p)
    <3>1. Quiet(t)' => Quiet(t)
      BY <1>4, <2>1 DEF Quiet, Busy, Local
    <3> QED  BY <1>1, <1>3, <2>1, <3>1 DEF Before, Rest, Linked, Busy
  <2>2. CASE Busy(p)
    BY <1>3, <2>2 DEF Rest, Quiet, Busy
  <2> QED  BY <2>1, <2>2
<1>10. Closed(t)' /\ row'[Root] # "archived"
  BY <1>1, <1>2, <1>3, <1>4, DeploymentConstants
  DEF Before, Inv, Local, Untouched, Closed, Place, Gone, Fresh, SchemaRecord, Busy
<1>11. Whole(t)'
  <2>1. ~schema[t].exists => schema[t].tables \cup proc[p].pending = schema[t].tables
    BY <1>1, <1>2 DEF Before, Locked
  <2>2. CASE schema[t].exists
    BY <1>3, <2>2 DEF Whole
  <2>3. CASE ~schema[t].exists
    BY <1>1, <1>3, <2>1, <2>3 DEF Before, Whole, Gone
  <2> QED  BY <2>2, <2>3
<1> QED
  BY <1>1, <1>2, <1>3, <1>4, <1>5, <1>6, <1>7, <1>8, <1>9, <1>10, <1>11, StepKeeps
  DEF Busy, Idle

LEMMA SeedKeeps ==
    ASSUME NEW p \in Procs, NEW t \in Tenants, proc[p].t = t, Inv, Seed(p)
    PROVE  Inv'
<1>1. Before(p, t)
  BY Known
<1>2. proc[p].pc = "seed" /\ 1 \in schema[t].tables
  BY <1>1 DEF Before, Place, Busy, Seed, At, Goto, Scar, After
<1>3. /\ proc'[p] = [pc |-> After(p), op |-> proc[p].op, t |-> t, pending |-> proc[p].pending]
      /\ row'[t] = row[t]
      /\ schema'[t] = [exists |-> schema[t].exists, born |-> schema[t].born, tables |-> schema[t].tables,
                       roles |-> TRUE, staff |-> schema[t].staff]
      /\ history'[t] = history[t]
      /\ binding'[t] = binding[t]
      /\ scars'[t] = scars[t]
  BY <1>1, <1>2 DEF Before, Inv, TypeOK, Place, Busy, ProcRecord, SchemaRecord, Seed, At, Goto, Scar
<1>4. Local(p, t)
  BY <1>2 DEF Local, Untouched, Inv, TypeOK, Seed, At, Goto, Scar
<1>5. Shaped'
  <2>1. proc'[p] \in ProcRecord /\ schema'[t] \in SchemaRecord
    BY <1>1, <1>2, <1>3, DeploymentConstants
    DEF Before, ProcRecord, SchemaRecord, Migrations, Ops, Idle, Gone, Fresh, After
  <2>2. proc' \in [Procs -> ProcRecord] /\ schema' \in [Tenants -> SchemaRecord]
    BY <1>4, <2>1 DEF Local, Untouched, Inv, TypeOK, Seed, At, Goto, Scar
  <2>3. /\ scars' \in [Tenants -> SUBSET Scars]
        /\ row' \in [Tenants -> {"none", "live", "archived"}]
    BY <1>1 DEF Before, Inv, TypeOK, Scars, Seed, At, Goto, Scar
  <2>4. history' \in [Tenants -> SUBSET (1..release)]
    BY <1>1, <1>2 DEF Before, Inv, TypeOK, Locked, Seed, At, Goto, Scar
  <2>5. binding' \in [Tenants -> 0..MaxBorn]
    BY <1>1 DEF Before, Inv, TypeOK, SchemaRecord, Seed, At, Goto, Scar
  <2> QED  BY <1>1, <1>4, <2>2, <2>3, <2>4, <2>5 DEF Before, Local, Shaped
<1>6. Locked(p)' /\ Place(p)'
  <2>1. Locked(p)'
    BY <1>1, <1>2, <1>3, <1>4 DEF Local, Before, Locked, Place, Phase, Busy, Built, Linked, Idle, Gone, Fresh, ProcRecord, SchemaRecord, Ops, After
  <2>2. Place(p)'
    BY <1>1, <1>2, <1>3, <1>4 DEF Local, Before, Locked, Place, Phase, Busy, Built, Linked, Idle, Gone, Fresh, ProcRecord, SchemaRecord, Ops, After
  <2> QED  BY <2>1, <2>2
<1>7. Phase(p)'
  BY <1>1, <1>2, <1>3, <1>4 DEF Local, Closed, Before, Locked, Place, Phase, Busy, Built, Linked, Idle, Gone, Fresh, ProcRecord, SchemaRecord, Ops, After
<1>8. ASSUME NEW q \in Procs \ {p}, proc[q].t = t PROVE Locked(q)' /\ Place(q)' /\ Phase(q)'
  BY <1>1, <1>2, <1>3, <1>4, <1>8, OtherMigrations DEF Before, Place, Busy, Gone, Fresh
<1>9. Rest(t)'
  BY <1>1, <1>2, <1>3 DEF Before, Place, Rest, Quiet, Busy
<1>10. Closed(t)' /\ row'[Root] # "archived"
  BY <1>1, <1>2, <1>3, <1>4, DeploymentConstants
  DEF Before, Inv, Local, Untouched, Closed, Place, Gone, Fresh, SchemaRecord, Busy
<1>11. Whole(t)'
  BY <1>1, <1>2, <1>3 DEF Before, Whole, Gone, Fresh
<1> QED
  BY <1>1, <1>2, <1>3, <1>4, <1>5, <1>6, <1>7, <1>8, <1>9, <1>10, <1>11, StepKeeps
  DEF Busy, Idle, After

LEMMA SeedFailsKeeps ==
    ASSUME NEW p \in Procs, NEW t \in Tenants, proc[p].t = t, Inv, SeedFails(p)
    PROVE  Inv'
<1>1. Before(p, t)
  BY Known
<1>2. proc[p].pc = "seed"
  BY <1>1 DEF Before, Place, Busy, SeedFails, At, Goto, Scar, After
<1>3. /\ proc'[p] = [pc |-> After(p), op |-> proc[p].op, t |-> t, pending |-> proc[p].pending]
      /\ row'[t] = row[t]
      /\ schema'[t] = schema[t]
      /\ history'[t] = history[t]
      /\ binding'[t] = binding[t]
      /\ scars'[t] = scars[t] \cup {"unseeded"}
  BY <1>1, <1>2 DEF Before, Inv, TypeOK, Place, Busy, ProcRecord, SchemaRecord, SeedFails, At, Goto, Scar
<1>4. Local(p, t)
  BY <1>2 DEF Local, Untouched, Inv, TypeOK, SeedFails, At, Goto, Scar
<1>5. Shaped'
  <2>1. proc'[p] \in ProcRecord /\ schema'[t] \in SchemaRecord
    BY <1>1, <1>2, <1>3, DeploymentConstants
    DEF Before, ProcRecord, SchemaRecord, Migrations, Ops, Idle, Gone, Fresh, After
  <2>2. proc' \in [Procs -> ProcRecord] /\ schema' \in [Tenants -> SchemaRecord]
    BY <1>4, <2>1 DEF Local, Untouched, Inv, TypeOK, SeedFails, At, Goto, Scar
  <2>3. /\ scars' \in [Tenants -> SUBSET Scars]
        /\ row' \in [Tenants -> {"none", "live", "archived"}]
    BY <1>1 DEF Before, Inv, TypeOK, Scars, SeedFails, At, Goto, Scar
  <2>4. history' \in [Tenants -> SUBSET (1..release)]
    BY <1>1, <1>2 DEF Before, Inv, TypeOK, Locked, SeedFails, At, Goto, Scar
  <2>5. binding' \in [Tenants -> 0..MaxBorn]
    BY <1>1 DEF Before, Inv, TypeOK, SchemaRecord, SeedFails, At, Goto, Scar
  <2> QED  BY <1>1, <1>4, <2>2, <2>3, <2>4, <2>5 DEF Before, Local, Shaped
<1>6. Locked(p)' /\ Place(p)'
  <2>1. Locked(p)'
    BY <1>1, <1>2, <1>3, <1>4 DEF Local, Before, Locked, Place, Phase, Busy, Built, Linked, Idle, Gone, Fresh, ProcRecord, SchemaRecord, Ops, After
  <2>2. Place(p)'
    BY <1>1, <1>2, <1>3, <1>4 DEF Local, Before, Locked, Place, Phase, Busy, Built, Linked, Idle, Gone, Fresh, ProcRecord, SchemaRecord, Ops, After
  <2> QED  BY <2>1, <2>2
<1>7. Phase(p)'
  BY <1>1, <1>2, <1>3, <1>4 DEF Local, Closed, Before, Locked, Place, Phase, Busy, Built, Linked, Idle, Gone, Fresh, ProcRecord, SchemaRecord, Ops, After
<1>8. ASSUME NEW q \in Procs \ {p}, proc[q].t = t PROVE Locked(q)' /\ Place(q)' /\ Phase(q)'
  BY <1>1, <1>2, <1>3, <1>4, <1>8, OtherMigrations DEF Before, Place, Busy, Gone, Fresh
<1>9. Rest(t)'
  BY <1>1, <1>2, <1>3 DEF Before, Place, Rest, Quiet, Busy
<1>10. Closed(t)' /\ row'[Root] # "archived"
  BY <1>1, <1>2, <1>3, <1>4, DeploymentConstants
  DEF Before, Inv, Local, Untouched, Closed, Place, Gone, Fresh, SchemaRecord, Busy
<1>11. Whole(t)'
  BY <1>1, <1>2, <1>3 DEF Before, Whole, Gone, Fresh
<1> QED
  BY <1>1, <1>2, <1>3, <1>4, <1>5, <1>6, <1>7, <1>8, <1>9, <1>10, <1>11, StepKeeps
  DEF Busy, Idle, After

LEMMA CreateAdminKeeps ==
    ASSUME NEW p \in Procs, NEW t \in Tenants, proc[p].t = t, Inv, CreateAdmin(p)
    PROVE  Inv'
<1>1. Before(p, t)
  BY Known
<1>2. proc[p].pc = "admin" /\ 1 \in schema[t].tables
  BY <1>1 DEF Before, Place, Busy, CreateAdmin, At, Goto, Scar
<1>3. /\ proc'[p] = [pc |-> "done", op |-> proc[p].op, t |-> t, pending |-> proc[p].pending]
      /\ row'[t] = row[t]
      /\ schema'[t] = [exists |-> schema[t].exists, born |-> schema[t].born, tables |-> schema[t].tables,
                       roles |-> schema[t].roles, staff |-> schema[t].born]
      /\ history'[t] = history[t]
      /\ binding'[t] = schema[t].born
      /\ scars'[t] = scars[t]
  BY <1>1, <1>2 DEF Before, Inv, TypeOK, Place, Busy, ProcRecord, SchemaRecord, CreateAdmin, At, Goto, Scar
<1>4. Local(p, t)
  BY <1>2 DEF Local, Untouched, Inv, TypeOK, CreateAdmin, At, Goto, Scar
<1>5. Shaped'
  <2>1. proc'[p] \in ProcRecord /\ schema'[t] \in SchemaRecord
    BY <1>1, <1>2, <1>3, DeploymentConstants
    DEF Before, ProcRecord, SchemaRecord, Migrations, Ops, Idle, Gone, Fresh
  <2>2. proc' \in [Procs -> ProcRecord] /\ schema' \in [Tenants -> SchemaRecord]
    BY <1>4, <2>1 DEF Local, Untouched, Inv, TypeOK, CreateAdmin, At, Goto, Scar
  <2>3. /\ scars' \in [Tenants -> SUBSET Scars]
        /\ row' \in [Tenants -> {"none", "live", "archived"}]
    BY <1>1 DEF Before, Inv, TypeOK, Scars, CreateAdmin, At, Goto, Scar
  <2>4. history' \in [Tenants -> SUBSET (1..release)]
    BY <1>1, <1>2 DEF Before, Inv, TypeOK, Locked, CreateAdmin, At, Goto, Scar
  <2>5. binding' \in [Tenants -> 0..MaxBorn]
    BY <1>1 DEF Before, Inv, TypeOK, SchemaRecord, CreateAdmin, At, Goto, Scar
  <2> QED  BY <1>1, <1>4, <2>2, <2>3, <2>4, <2>5 DEF Before, Local, Shaped
<1>6. Locked(p)' /\ Place(p)'
  <2>1. Locked(p)'
    BY <1>1, <1>2, <1>3, <1>4 DEF Local, Before, Locked, Place, Phase, Busy, Built, Linked, Idle, Gone, Fresh, ProcRecord, SchemaRecord, Ops
  <2>2. Place(p)'
    BY <1>1, <1>2, <1>3, <1>4 DEF Local, Before, Locked, Place, Phase, Busy, Built, Linked, Idle, Gone, Fresh, ProcRecord, SchemaRecord, Ops
  <2> QED  BY <2>1, <2>2
<1>7. Phase(p)'
  <2>1. Busy(p)' /\ proc'[p].pc \in {"forget", "schema"} => ~schema'[t].exists
    BY <1>1, <1>2, <1>3, <1>4 DEF Local, Closed, Whole, Before, Locked, Place, Phase, Busy, Built, Linked, Idle, Gone, Fresh, ProcRecord, SchemaRecord, Ops
  <2>2. Busy(p)' /\ "stale" \notin scars'[t] /\ proc'[p].pc = "schema" => history'[t] = {}
    BY <1>1, <1>2, <1>3, <1>4 DEF Local, Closed, Whole, Before, Locked, Place, Phase, Busy, Built, Linked, Idle, Gone, Fresh, ProcRecord, SchemaRecord, Ops
  <2>3. Busy(p)' /\ "stale" \notin scars'[t] /\ proc'[p].pc \in {"migrate", "commit"} =>
            schema'[t].tables = history'[t]
    BY <1>1, <1>2, <1>3, <1>4 DEF Local, Closed, Whole, Before, Locked, Place, Phase, Busy, Built, Linked, Idle, Gone, Fresh, ProcRecord, SchemaRecord, Ops
  <2>4. Busy(p)' /\ "stale" \notin scars'[t] /\ proc'[p].pc \in Built =>
            schema'[t].tables = 1..release /\ history'[t] = 1..release
    BY <1>1, <1>2, <1>3, <1>4 DEF Local, Closed, Whole, Before, Locked, Place, Phase, Busy, Built, Linked, Idle, Gone, Fresh, ProcRecord, SchemaRecord, Ops
  <2>5. Busy(p)' /\ proc'[p].pc \in Built \ {"seed"} /\ "unseeded" \notin scars'[t] => schema'[t].roles
    BY <1>1, <1>2, <1>3, <1>4 DEF Local, Closed, Whole, Before, Locked, Place, Phase, Busy, Built, Linked, Idle, Gone, Fresh, ProcRecord, SchemaRecord, Ops
  <2>6. Busy(p)' /\ proc'[p].pc = "bind" => schema'[t].staff # 0
    BY <1>1, <1>2, <1>3, <1>4 DEF Local, Closed, Whole, Before, Locked, Place, Phase, Busy, Built, Linked, Idle, Gone, Fresh, ProcRecord, SchemaRecord, Ops
  <2>7. Busy(p)' /\ proc'[p].pc = "done" /\ proc'[p].op # "cli" /\ "bare" \notin scars'[t]
            => Linked(t)'
    BY <1>1, <1>2, <1>3, <1>4 DEF Local, Closed, Whole, Before, Locked, Place, Phase, Busy, Built, Linked, Idle, Gone, Fresh, ProcRecord, SchemaRecord, Ops
  <2>8. proc'[p].t = t /\ release' = release
    BY <1>3, <1>4 DEF Local
  <2> QED  BY <2>1, <2>2, <2>3, <2>4, <2>5, <2>6, <2>7, <2>8 DEF Phase, Linked
<1>8. ASSUME NEW q \in Procs \ {p}, proc[q].t = t PROVE Locked(q)' /\ Place(q)' /\ Phase(q)'
  BY <1>1, <1>2, <1>3, <1>4, <1>8, OtherMigrations DEF Before, Place, Busy, Gone, Fresh
<1>9. Rest(t)'
  BY <1>1, <1>2, <1>3 DEF Before, Place, Rest, Quiet, Busy
<1>10. Closed(t)' /\ row'[Root] # "archived"
  BY <1>1, <1>2, <1>3, <1>4, DeploymentConstants
  DEF Before, Inv, Local, Untouched, Closed, Place, Gone, Fresh, SchemaRecord, Busy
<1>11. Whole(t)'
  BY <1>1, <1>2, <1>3 DEF Before, Whole, Gone, Fresh
<1> QED
  BY <1>1, <1>2, <1>3, <1>4, <1>5, <1>6, <1>7, <1>8, <1>9, <1>10, <1>11, StepKeeps
  DEF Busy, Idle

LEMMA AdminFailsKeeps ==
    ASSUME NEW p \in Procs, NEW t \in Tenants, proc[p].t = t, Inv, AdminFails(p)
    PROVE  Inv'
<1>1. Before(p, t)
  BY Known
<1>2. proc[p].pc = "admin"
  BY <1>1 DEF Before, Place, Busy, AdminFails, At, Goto, Scar
<1>3. /\ proc'[p] = Idle
      /\ row'[t] = row[t]
      /\ schema'[t] = schema[t]
      /\ history'[t] = history[t]
      /\ binding'[t] = binding[t]
      /\ scars'[t] = scars[t] \cup {"bare"}
  BY <1>1, <1>2 DEF Before, Inv, TypeOK, Place, Busy, ProcRecord, SchemaRecord, AdminFails, At, Goto, Scar
<1>4. Local(p, t)
  BY <1>2 DEF Local, Untouched, Inv, TypeOK, AdminFails, At, Goto, Scar
<1>5. Shaped'
  <2>1. proc'[p] \in ProcRecord /\ schema'[t] \in SchemaRecord
    BY <1>1, <1>2, <1>3, DeploymentConstants
    DEF Before, ProcRecord, SchemaRecord, Migrations, Ops, Idle, Gone, Fresh
  <2>2. proc' \in [Procs -> ProcRecord] /\ schema' \in [Tenants -> SchemaRecord]
    BY <1>4, <2>1 DEF Local, Untouched, Inv, TypeOK, AdminFails, At, Goto, Scar
  <2>3. /\ scars' \in [Tenants -> SUBSET Scars]
        /\ row' \in [Tenants -> {"none", "live", "archived"}]
    BY <1>1 DEF Before, Inv, TypeOK, Scars, AdminFails, At, Goto, Scar
  <2>4. history' \in [Tenants -> SUBSET (1..release)]
    BY <1>1, <1>2 DEF Before, Inv, TypeOK, Locked, AdminFails, At, Goto, Scar
  <2>5. binding' \in [Tenants -> 0..MaxBorn]
    BY <1>1 DEF Before, Inv, TypeOK, SchemaRecord, AdminFails, At, Goto, Scar
  <2> QED  BY <1>1, <1>4, <2>2, <2>3, <2>4, <2>5 DEF Before, Local, Shaped
<1>6. Locked(p)' /\ Place(p)'
  <2>1. Locked(p)'
    BY <1>1, <1>2, <1>3, <1>4 DEF Local, Before, Locked, Place, Phase, Busy, Built, Linked, Idle, Gone, Fresh, ProcRecord, SchemaRecord, Ops
  <2>2. Place(p)'
    BY <1>1, <1>2, <1>3, <1>4 DEF Local, Before, Locked, Place, Phase, Busy, Built, Linked, Idle, Gone, Fresh, ProcRecord, SchemaRecord, Ops
  <2> QED  BY <2>1, <2>2
<1>7. Phase(p)'
  BY <1>1, <1>2, <1>3, <1>4 DEF Local, Closed, Before, Locked, Place, Phase, Busy, Built, Linked, Idle, Gone, Fresh, ProcRecord, SchemaRecord, Ops
<1>8. ASSUME NEW q \in Procs \ {p}, proc[q].t = t PROVE Locked(q)' /\ Place(q)' /\ Phase(q)'
  BY <1>1, <1>2, <1>3, <1>4, <1>8, OtherMigrations DEF Before, Place, Busy, Gone, Fresh
<1>9. Rest(t)'
  BY <1>1, <1>2, <1>3, <1>4, DeploymentConstants DEF Before, Local, Rest, Quiet, Busy, Built, Place, Phase, Linked, Inv, TypeOK, Sole
<1>10. Closed(t)' /\ row'[Root] # "archived"
  BY <1>1, <1>2, <1>3, <1>4, DeploymentConstants
  DEF Before, Inv, Local, Untouched, Closed, Place, Gone, Fresh, SchemaRecord, Busy
<1>11. Whole(t)'
  BY <1>1, <1>2, <1>3 DEF Before, Whole, Gone, Fresh
<1> QED
  BY <1>1, <1>2, <1>3, <1>4, <1>5, <1>6, <1>7, <1>8, <1>9, <1>10, <1>11, StepKeeps
  DEF Busy, Idle

LEMMA RootMissingKeeps ==
    ASSUME NEW p \in Procs, NEW t \in Tenants, proc[p].t = t, Inv, RootMissing(p)
    PROVE  Inv'
<1>1. Before(p, t)
  BY Known
<1>2. proc[p].pc = "employee" /\ t = Root
  BY <1>1 DEF Before, Place, Busy, RootMissing, At, Goto, Scar
<1>3. /\ proc'[p] = [pc |-> "done", op |-> proc[p].op, t |-> t, pending |-> proc[p].pending]
      /\ row'[t] = row[t]
      /\ schema'[t] = schema[t]
      /\ history'[t] = history[t]
      /\ binding'[t] = binding[t]
      /\ scars'[t] = scars[t] \cup {"bare"}
  BY <1>1, <1>2 DEF Before, Inv, TypeOK, Place, Busy, ProcRecord, SchemaRecord, RootMissing, At, Goto, Scar
<1>4. Local(p, t)
  BY <1>2 DEF Local, Untouched, Inv, TypeOK, RootMissing, At, Goto, Scar
<1>5. Shaped'
  <2>1. proc'[p] \in ProcRecord /\ schema'[t] \in SchemaRecord
    BY <1>1, <1>2, <1>3, DeploymentConstants
    DEF Before, ProcRecord, SchemaRecord, Migrations, Ops, Idle, Gone, Fresh
  <2>2. proc' \in [Procs -> ProcRecord] /\ schema' \in [Tenants -> SchemaRecord]
    BY <1>4, <2>1 DEF Local, Untouched, Inv, TypeOK, RootMissing, At, Goto, Scar
  <2>3. /\ scars' \in [Tenants -> SUBSET Scars]
        /\ row' \in [Tenants -> {"none", "live", "archived"}]
    BY <1>1 DEF Before, Inv, TypeOK, Scars, RootMissing, At, Goto, Scar
  <2>4. history' \in [Tenants -> SUBSET (1..release)]
    BY <1>1, <1>2 DEF Before, Inv, TypeOK, Locked, RootMissing, At, Goto, Scar
  <2>5. binding' \in [Tenants -> 0..MaxBorn]
    BY <1>1 DEF Before, Inv, TypeOK, SchemaRecord, RootMissing, At, Goto, Scar
  <2> QED  BY <1>1, <1>4, <2>2, <2>3, <2>4, <2>5 DEF Before, Local, Shaped
<1>6. Locked(p)' /\ Place(p)'
  <2>1. Locked(p)'
    BY <1>1, <1>2, <1>3, <1>4 DEF Local, Before, Locked, Place, Phase, Busy, Built, Linked, Idle, Gone, Fresh, ProcRecord, SchemaRecord, Ops
  <2>2. Place(p)'
    BY <1>1, <1>2, <1>3, <1>4 DEF Local, Before, Locked, Place, Phase, Busy, Built, Linked, Idle, Gone, Fresh, ProcRecord, SchemaRecord, Ops
  <2> QED  BY <2>1, <2>2
<1>7. Phase(p)'
  BY <1>1, <1>2, <1>3, <1>4 DEF Local, Closed, Before, Locked, Place, Phase, Busy, Built, Linked, Idle, Gone, Fresh, ProcRecord, SchemaRecord, Ops
<1>8. ASSUME NEW q \in Procs \ {p}, proc[q].t = t PROVE Locked(q)' /\ Place(q)' /\ Phase(q)'
  BY <1>1, <1>2, <1>3, <1>4, <1>8, OtherMigrations DEF Before, Place, Busy, Gone, Fresh
<1>9. Rest(t)'
  BY <1>1, <1>2, <1>3 DEF Before, Place, Rest, Quiet, Busy
<1>10. Closed(t)' /\ row'[Root] # "archived"
  BY <1>1, <1>2, <1>3, <1>4, DeploymentConstants
  DEF Before, Inv, Local, Untouched, Closed, Place, Gone, Fresh, SchemaRecord, Busy
<1>11. Whole(t)'
  BY <1>1, <1>2, <1>3 DEF Before, Whole, Gone, Fresh
<1> QED
  BY <1>1, <1>2, <1>3, <1>4, <1>5, <1>6, <1>7, <1>8, <1>9, <1>10, <1>11, StepKeeps
  DEF Busy, Idle

LEMMA RootEmployeeKeeps ==
    ASSUME NEW p \in Procs, NEW t \in Tenants, proc[p].t = t, Inv, RootEmployee(p)
    PROVE  Inv'
<1>1. Before(p, t)
  BY Known
<1>2. proc[p].pc = "employee" /\ t = Root /\ 1 \in schema[t].tables
  BY <1>1 DEF Before, Place, Busy, RootEmployee, At, Goto, Scar
<1>3. /\ proc'[p] = [pc |-> IF Linked(t) THEN "done" ELSE "bind", op |-> proc[p].op, t |-> t, pending |-> proc[p].pending]
      /\ row'[t] = row[t]
      /\ schema'[t] = [exists |-> schema[t].exists, born |-> schema[t].born, tables |-> schema[t].tables,
                       roles |-> schema[t].roles, staff |-> IF Linked(t) THEN schema[t].staff ELSE schema[t].born]
      /\ history'[t] = history[t]
      /\ binding'[t] = binding[t]
      /\ scars'[t] = scars[t]
  <2>1. CASE Linked(t)
    BY <1>1, <1>2, <2>1 DEF Before, Inv, TypeOK, ProcRecord, SchemaRecord, RootEmployee, At, Goto
  <2>2. CASE ~Linked(t)
    BY <1>1, <1>2, <2>2 DEF Before, Inv, TypeOK, ProcRecord, SchemaRecord, RootEmployee, At, Goto
  <2> QED  BY <2>1, <2>2
<1>4. Local(p, t)
  BY <1>2 DEF Local, Untouched, Inv, TypeOK, RootEmployee, At, Goto, Scar
<1>5. Shaped'
  <2>1. proc'[p] \in ProcRecord /\ schema'[t] \in SchemaRecord
    BY <1>1, <1>2, <1>3, DeploymentConstants
    DEF Before, ProcRecord, SchemaRecord, Migrations, Ops, Idle, Gone, Fresh
  <2>2. proc' \in [Procs -> ProcRecord] /\ schema' \in [Tenants -> SchemaRecord]
    BY <1>4, <2>1 DEF Local, Untouched, Inv, TypeOK, RootEmployee, At, Goto, Scar
  <2>3. /\ scars' \in [Tenants -> SUBSET Scars]
        /\ row' \in [Tenants -> {"none", "live", "archived"}]
    BY <1>1 DEF Before, Inv, TypeOK, Scars, RootEmployee, At, Goto, Scar
  <2>4. history' \in [Tenants -> SUBSET (1..release)]
    BY <1>1, <1>2 DEF Before, Inv, TypeOK, Locked, RootEmployee, At, Goto, Scar
  <2>5. binding' \in [Tenants -> 0..MaxBorn]
    BY <1>1 DEF Before, Inv, TypeOK, SchemaRecord, RootEmployee, At, Goto, Scar
  <2> QED  BY <1>1, <1>4, <2>2, <2>3, <2>4, <2>5 DEF Before, Local, Shaped
<1>6. Locked(p)' /\ Place(p)'
  <2>1. Locked(p)'
    BY <1>1, <1>2, <1>3, <1>4 DEF Local, Before, Locked, Place, Phase, Busy, Built, Linked, Idle, Gone, Fresh, ProcRecord, SchemaRecord, Ops
  <2>2. Place(p)'
    BY <1>1, <1>2, <1>3, <1>4 DEF Local, Before, Locked, Place, Phase, Busy, Built, Linked, Idle, Gone, Fresh, ProcRecord, SchemaRecord, Ops
  <2> QED  BY <2>1, <2>2
<1>7. Phase(p)'
  <2>1. Busy(p)' /\ proc'[p].pc \in {"forget", "schema"} => ~schema'[t].exists
    BY <1>1, <1>2, <1>3, <1>4 DEF Local, Closed, Whole, Before, Locked, Place, Phase, Busy, Built, Linked, Idle, Gone, Fresh, ProcRecord, SchemaRecord, Ops
  <2>2. Busy(p)' /\ "stale" \notin scars'[t] /\ proc'[p].pc = "schema" => history'[t] = {}
    BY <1>1, <1>2, <1>3, <1>4 DEF Local, Closed, Whole, Before, Locked, Place, Phase, Busy, Built, Linked, Idle, Gone, Fresh, ProcRecord, SchemaRecord, Ops
  <2>3. Busy(p)' /\ "stale" \notin scars'[t] /\ proc'[p].pc \in {"migrate", "commit"} =>
            schema'[t].tables = history'[t]
    BY <1>1, <1>2, <1>3, <1>4 DEF Local, Closed, Whole, Before, Locked, Place, Phase, Busy, Built, Linked, Idle, Gone, Fresh, ProcRecord, SchemaRecord, Ops
  <2>4. Busy(p)' /\ "stale" \notin scars'[t] /\ proc'[p].pc \in Built =>
            schema'[t].tables = 1..release /\ history'[t] = 1..release
    BY <1>1, <1>2, <1>3, <1>4 DEF Local, Closed, Whole, Before, Locked, Place, Phase, Busy, Built, Linked, Idle, Gone, Fresh, ProcRecord, SchemaRecord, Ops
  <2>5. Busy(p)' /\ proc'[p].pc \in Built \ {"seed"} /\ "unseeded" \notin scars'[t] => schema'[t].roles
    BY <1>1, <1>2, <1>3, <1>4 DEF Local, Closed, Whole, Before, Locked, Place, Phase, Busy, Built, Linked, Idle, Gone, Fresh, ProcRecord, SchemaRecord, Ops
  <2>6. Busy(p)' /\ proc'[p].pc = "bind" => schema'[t].staff # 0
    BY <1>1, <1>2, <1>3, <1>4 DEF Local, Closed, Whole, Before, Locked, Place, Phase, Busy, Built, Linked, Idle, Gone, Fresh, ProcRecord, SchemaRecord, Ops
  <2>7. Busy(p)' /\ proc'[p].pc = "done" /\ proc'[p].op # "cli" /\ "bare" \notin scars'[t]
            => Linked(t)'
    BY <1>1, <1>2, <1>3, <1>4 DEF Local, Closed, Whole, Before, Locked, Place, Phase, Busy, Built, Linked, Idle, Gone, Fresh, ProcRecord, SchemaRecord, Ops
  <2>8. proc'[p].t = t /\ release' = release
    BY <1>3, <1>4 DEF Local
  <2> QED  BY <2>1, <2>2, <2>3, <2>4, <2>5, <2>6, <2>7, <2>8 DEF Phase, Linked
<1>8. ASSUME NEW q \in Procs \ {p}, proc[q].t = t PROVE Locked(q)' /\ Place(q)' /\ Phase(q)'
  BY <1>1, <1>2, <1>3, <1>4, <1>8, OtherMigrations DEF Before, Place, Busy, Gone, Fresh
<1>9. Rest(t)'
  BY <1>1, <1>2, <1>3 DEF Before, Place, Rest, Quiet, Busy
<1>10. Closed(t)' /\ row'[Root] # "archived"
  BY <1>1, <1>2, <1>3, <1>4, DeploymentConstants
  DEF Before, Inv, Local, Untouched, Closed, Place, Gone, Fresh, SchemaRecord, Busy
<1>11. Whole(t)'
  BY <1>1, <1>2, <1>3 DEF Before, Whole, Gone, Fresh
<1> QED
  BY <1>1, <1>2, <1>3, <1>4, <1>5, <1>6, <1>7, <1>8, <1>9, <1>10, <1>11, StepKeeps
  DEF Busy, Idle

LEMMA RootBindingKeeps ==
    ASSUME NEW p \in Procs, NEW t \in Tenants, proc[p].t = t, Inv, RootBinding(p)
    PROVE  Inv'
<1>1. Before(p, t)
  BY Known
<1>2. proc[p].pc = "bind" /\ t = Root
  BY <1>1 DEF Before, Place, Busy, RootBinding, At, Goto, Scar
<1>3. /\ proc'[p] = [pc |-> "done", op |-> proc[p].op, t |-> t, pending |-> proc[p].pending]
      /\ row'[t] = row[t]
      /\ schema'[t] = schema[t]
      /\ history'[t] = history[t]
      /\ binding'[t] = schema[t].staff
      /\ scars'[t] = scars[t]
  BY <1>1, <1>2 DEF Before, Inv, TypeOK, Place, Busy, ProcRecord, SchemaRecord, RootBinding, At, Goto, Scar
<1>4. Local(p, t)
  BY <1>2 DEF Local, Untouched, Inv, TypeOK, RootBinding, At, Goto, Scar
<1>5. Shaped'
  <2>1. proc'[p] \in ProcRecord /\ schema'[t] \in SchemaRecord
    BY <1>1, <1>2, <1>3, DeploymentConstants
    DEF Before, ProcRecord, SchemaRecord, Migrations, Ops, Idle, Gone, Fresh
  <2>2. proc' \in [Procs -> ProcRecord] /\ schema' \in [Tenants -> SchemaRecord]
    BY <1>4, <2>1 DEF Local, Untouched, Inv, TypeOK, RootBinding, At, Goto, Scar
  <2>3. /\ scars' \in [Tenants -> SUBSET Scars]
        /\ row' \in [Tenants -> {"none", "live", "archived"}]
    BY <1>1 DEF Before, Inv, TypeOK, Scars, RootBinding, At, Goto, Scar
  <2>4. history' \in [Tenants -> SUBSET (1..release)]
    BY <1>1, <1>2 DEF Before, Inv, TypeOK, Locked, RootBinding, At, Goto, Scar
  <2>5. binding' \in [Tenants -> 0..MaxBorn]
    BY <1>1 DEF Before, Inv, TypeOK, SchemaRecord, RootBinding, At, Goto, Scar
  <2> QED  BY <1>1, <1>4, <2>2, <2>3, <2>4, <2>5 DEF Before, Local, Shaped
<1>6. Locked(p)' /\ Place(p)'
  <2>1. Locked(p)'
    BY <1>1, <1>2, <1>3, <1>4 DEF Local, Before, Locked, Place, Phase, Busy, Built, Linked, Idle, Gone, Fresh, ProcRecord, SchemaRecord, Ops
  <2>2. Place(p)'
    BY <1>1, <1>2, <1>3, <1>4 DEF Local, Before, Locked, Place, Phase, Busy, Built, Linked, Idle, Gone, Fresh, ProcRecord, SchemaRecord, Ops
  <2> QED  BY <2>1, <2>2
<1>7. Phase(p)'
  BY <1>1, <1>2, <1>3, <1>4 DEF Local, Closed, Before, Locked, Place, Phase, Busy, Built, Linked, Idle, Gone, Fresh, ProcRecord, SchemaRecord, Ops
<1>8. ASSUME NEW q \in Procs \ {p}, proc[q].t = t PROVE Locked(q)' /\ Place(q)' /\ Phase(q)'
  BY <1>1, <1>2, <1>3, <1>4, <1>8, OtherMigrations DEF Before, Place, Busy, Gone, Fresh
<1>9. Rest(t)'
  BY <1>1, <1>2, <1>3 DEF Before, Place, Rest, Quiet, Busy
<1>10. Closed(t)' /\ row'[Root] # "archived"
  BY <1>1, <1>2, <1>3, <1>4, DeploymentConstants
  DEF Before, Inv, Local, Untouched, Closed, Place, Gone, Fresh, SchemaRecord, Busy
<1>11. Whole(t)'
  BY <1>1, <1>2, <1>3 DEF Before, Whole, Gone, Fresh
<1> QED
  BY <1>1, <1>2, <1>3, <1>4, <1>5, <1>6, <1>7, <1>8, <1>9, <1>10, <1>11, StepKeeps
  DEF Busy, Idle

LEMMA FailKeeps ==
    ASSUME NEW p \in Procs, NEW t \in Tenants, proc[p].t = t, Inv, Fail(p)
    PROVE  Inv'
<1>1. Before(p, t)
  BY Known
<1>2. proc[p].pc \in Stopped
  BY <1>1 DEF Before, Place, Busy, Fail, At, Goto, Scar, Stopped
<1>3. /\ proc'[p] = IF proc[p].op = "create" THEN [pc |-> "undo", op |-> proc[p].op, t |-> t, pending |-> proc[p].pending]
                 ELSE Idle
      /\ row'[t] = row[t]
      /\ schema'[t] = schema[t]
      /\ history'[t] = history[t]
      /\ binding'[t] = binding[t]
      /\ scars'[t] = IF proc[p].op \in {"create", "migrate"} THEN scars[t] ELSE scars[t] \cup {"cut"}
  <2>1. CASE proc[p].op = "create"
    BY <1>1, <2>1 DEF Before, Inv, TypeOK, ProcRecord, Fail, Goto
  <2>2. CASE proc[p].op # "create"
    BY <1>1, <2>2 DEF Before, Inv, TypeOK, ProcRecord, Fail, Scar
  <2> QED  BY <2>1, <2>2
<1>4. Local(p, t)
  BY <1>2 DEF Local, Untouched, Inv, TypeOK, Fail, At, Goto, Scar
<1>5. Shaped'
  <2>1. proc'[p] \in ProcRecord /\ schema'[t] \in SchemaRecord
    BY <1>1, <1>2, <1>3, DeploymentConstants
    DEF Before, ProcRecord, SchemaRecord, Migrations, Ops, Idle, Gone, Fresh, Stopped
  <2>2. proc' \in [Procs -> ProcRecord] /\ schema' \in [Tenants -> SchemaRecord]
    BY <1>4, <2>1 DEF Local, Untouched, Inv, TypeOK, Fail, At, Goto, Scar
  <2>3. /\ scars' \in [Tenants -> SUBSET Scars]
        /\ row' \in [Tenants -> {"none", "live", "archived"}]
    BY <1>1 DEF Before, Inv, TypeOK, Scars, Fail, At, Goto, Scar
  <2>4. history' \in [Tenants -> SUBSET (1..release)]
    BY <1>1, <1>2 DEF Before, Inv, TypeOK, Locked, Fail, At, Goto, Scar
  <2>5. binding' \in [Tenants -> 0..MaxBorn]
    BY <1>1 DEF Before, Inv, TypeOK, SchemaRecord, Fail, At, Goto, Scar
  <2> QED  BY <1>1, <1>4, <2>2, <2>3, <2>4, <2>5 DEF Before, Local, Shaped
<1>6. Locked(p)' /\ Place(p)'
  <2>1. Locked(p)'
    BY <1>1, <1>2, <1>3, <1>4 DEF Local, Before, Locked, Place, Phase, Busy, Built, Linked, Idle, Gone, Fresh, ProcRecord, SchemaRecord, Ops, Stopped
  <2>2. Place(p)'
    BY <1>1, <1>2, <1>3, <1>4 DEF Local, Before, Locked, Place, Phase, Busy, Built, Linked, Idle, Gone, Fresh, ProcRecord, SchemaRecord, Ops, Stopped
  <2> QED  BY <2>1, <2>2
<1>7. Phase(p)'
  BY <1>1, <1>2, <1>3, <1>4 DEF Local, Closed, Before, Locked, Place, Phase, Busy, Built, Linked, Idle, Gone, Fresh, ProcRecord, SchemaRecord, Ops, Stopped
<1>8. ASSUME NEW q \in Procs \ {p}, proc[q].t = t PROVE Locked(q)' /\ Place(q)' /\ Phase(q)'
  <2>1. proc'[q] = proc[q] /\ release' = release /\ Locked(q) /\ Place(q) /\ Phase(q)
    BY <1>4, <1>8, Known DEF Before, Local
  <2>2. Locked(q)' /\ Place(q)'
    BY <1>1, <1>2, <1>3, <1>8, <2>1 DEF Locked, Place, Busy
  <2>3. Phase(q)'
    BY <1>1, <1>2, <1>3, <1>8, <2>1 DEF Before, Phase, Busy, Linked, Inv, Sole
  <2> QED  BY <2>2, <2>3
<1>9. Rest(t)'
  <2>1. CASE ~Busy(p)
    <3>1. Quiet(t)' => Quiet(t)
      BY <1>4, <2>1 DEF Quiet, Busy, Local
    <3> QED  BY <1>1, <1>3, <2>1, <3>1 DEF Before, Rest, Linked, Busy
  <2>2. CASE proc[p].op = "create"
    BY <1>3, <2>2 DEF Rest, Quiet
  <2>3. CASE proc[p].op \notin {"create", "migrate"}
    BY <1>3, <2>3 DEF Rest
  <2> QED  BY <2>1, <2>2, <2>3 DEF Busy
<1>10. Closed(t)' /\ row'[Root] # "archived"
  BY <1>1, <1>2, <1>3, <1>4, DeploymentConstants
  DEF Before, Inv, Local, Untouched, Closed, Place, Gone, Fresh, SchemaRecord, Busy
<1>11. Whole(t)'
  BY <1>1, <1>2, <1>3 DEF Before, Whole, Gone, Fresh
<1> QED
  BY <1>1, <1>2, <1>3, <1>4, <1>5, <1>6, <1>7, <1>8, <1>9, <1>10, <1>11, StepKeeps
  DEF Busy, Idle, Stopped

LEMMA DeactivateKeeps ==
    ASSUME NEW p \in Procs, NEW t \in Tenants, proc[p].t = t, Inv, Deactivate(p)
    PROVE  Inv'
<1>1. Before(p, t)
  BY Known
<1>2. proc[p].pc = "undo"
  BY <1>1 DEF Before, Place, Busy, Deactivate, At, Goto, Scar
<1>3. /\ proc'[p] = Idle
      /\ row'[t] = "archived"
      /\ schema'[t] = schema[t]
      /\ history'[t] = history[t]
      /\ binding'[t] = binding[t]
      /\ scars'[t] = scars[t] \cup {"undone"}
  BY <1>1, <1>2 DEF Before, Inv, TypeOK, Place, Busy, ProcRecord, SchemaRecord, Deactivate, At, Goto, Scar
<1>4. Local(p, t)
  BY <1>2 DEF Local, Untouched, Inv, TypeOK, Deactivate, At, Goto, Scar
<1>5. Shaped'
  <2>1. proc'[p] \in ProcRecord /\ schema'[t] \in SchemaRecord
    BY <1>1, <1>2, <1>3, DeploymentConstants
    DEF Before, ProcRecord, SchemaRecord, Migrations, Ops, Idle, Gone, Fresh
  <2>2. proc' \in [Procs -> ProcRecord] /\ schema' \in [Tenants -> SchemaRecord]
    BY <1>4, <2>1 DEF Local, Untouched, Inv, TypeOK, Deactivate, At, Goto, Scar
  <2>3. /\ scars' \in [Tenants -> SUBSET Scars]
        /\ row' \in [Tenants -> {"none", "live", "archived"}]
    BY <1>1 DEF Before, Inv, TypeOK, Scars, Deactivate, At, Goto, Scar
  <2>4. history' \in [Tenants -> SUBSET (1..release)]
    BY <1>1, <1>2 DEF Before, Inv, TypeOK, Locked, Deactivate, At, Goto, Scar
  <2>5. binding' \in [Tenants -> 0..MaxBorn]
    BY <1>1 DEF Before, Inv, TypeOK, SchemaRecord, Deactivate, At, Goto, Scar
  <2> QED  BY <1>1, <1>4, <2>2, <2>3, <2>4, <2>5 DEF Before, Local, Shaped
<1>6. Locked(p)' /\ Place(p)'
  <2>1. Locked(p)'
    BY <1>1, <1>2, <1>3, <1>4 DEF Local, Before, Locked, Place, Phase, Busy, Built, Linked, Idle, Gone, Fresh, ProcRecord, SchemaRecord, Ops
  <2>2. Place(p)'
    BY <1>1, <1>2, <1>3, <1>4 DEF Local, Before, Locked, Place, Phase, Busy, Built, Linked, Idle, Gone, Fresh, ProcRecord, SchemaRecord, Ops
  <2> QED  BY <2>1, <2>2
<1>7. Phase(p)'
  BY <1>1, <1>2, <1>3, <1>4 DEF Local, Closed, Before, Locked, Place, Phase, Busy, Built, Linked, Idle, Gone, Fresh, ProcRecord, SchemaRecord, Ops
<1>8. ASSUME NEW q \in Procs \ {p}, proc[q].t = t PROVE Locked(q)' /\ Place(q)' /\ Phase(q)'
  BY <1>1, <1>2, <1>3, <1>4, <1>8, OtherMigrations DEF Before, Place, Busy, Gone, Fresh
<1>9. Rest(t)'
  BY <1>1, <1>2, <1>3, <1>4, DeploymentConstants DEF Before, Local, Rest, Quiet, Busy, Built, Place, Phase, Linked, Inv, TypeOK, Sole
<1>10. Closed(t)' /\ row'[Root] # "archived"
  BY <1>1, <1>2, <1>3, <1>4, DeploymentConstants
  DEF Before, Inv, Local, Untouched, Closed, Place, Gone, Fresh, SchemaRecord, Busy
<1>11. Whole(t)'
  BY <1>1, <1>2, <1>3 DEF Before, Whole, Gone, Fresh
<1> QED
  BY <1>1, <1>2, <1>3, <1>4, <1>5, <1>6, <1>7, <1>8, <1>9, <1>10, <1>11, StepKeeps
  DEF Busy, Idle

LEMMA CrashKeeps ==
    ASSUME NEW p \in Procs, NEW t \in Tenants, proc[p].t = t, Inv, Crash(p)
    PROVE  Inv'
<1>1. Before(p, t)
  BY Known
<1>2. proc[p].pc \notin {"idle", "done"}
  BY <1>1 DEF Before, Crash, At, ProcRecord
<1>3. /\ proc'[p] = Idle
      /\ row'[t] = row[t]
      /\ schema'[t] = schema[t]
      /\ history'[t] = history[t]
      /\ binding'[t] = binding[t]
      /\ scars'[t] = IF proc[p].op = "migrate" THEN scars[t] ELSE scars[t] \cup {"cut"}
  BY <1>1, <1>2 DEF Before, Inv, TypeOK, Place, Busy, ProcRecord, SchemaRecord, Crash, At, Goto, Scar
<1>4. Local(p, t)
  BY <1>2 DEF Local, Untouched, Inv, TypeOK, Crash, At, Goto, Scar
<1>5. Shaped'
  <2>1. proc'[p] \in ProcRecord /\ schema'[t] \in SchemaRecord
    BY <1>1, <1>2, <1>3, DeploymentConstants
    DEF Before, ProcRecord, SchemaRecord, Migrations, Ops, Idle, Gone, Fresh
  <2>2. proc' \in [Procs -> ProcRecord] /\ schema' \in [Tenants -> SchemaRecord]
    BY <1>4, <2>1 DEF Local, Untouched, Inv, TypeOK, Crash, At, Goto, Scar
  <2>3. /\ scars' \in [Tenants -> SUBSET Scars]
        /\ row' \in [Tenants -> {"none", "live", "archived"}]
    BY <1>1 DEF Before, Inv, TypeOK, Scars, Crash, At, Goto, Scar
  <2>4. history' \in [Tenants -> SUBSET (1..release)]
    BY <1>1, <1>2 DEF Before, Inv, TypeOK, Locked, Crash, At, Goto, Scar
  <2>5. binding' \in [Tenants -> 0..MaxBorn]
    BY <1>1 DEF Before, Inv, TypeOK, SchemaRecord, Crash, At, Goto, Scar
  <2> QED  BY <1>1, <1>4, <2>2, <2>3, <2>4, <2>5 DEF Before, Local, Shaped
<1>6. Locked(p)' /\ Place(p)'
  <2>1. Locked(p)'
    BY <1>1, <1>2, <1>3, <1>4 DEF Local, Before, Locked, Place, Phase, Busy, Built, Linked, Idle, Gone, Fresh, ProcRecord, SchemaRecord, Ops
  <2>2. Place(p)'
    BY <1>1, <1>2, <1>3, <1>4 DEF Local, Before, Locked, Place, Phase, Busy, Built, Linked, Idle, Gone, Fresh, ProcRecord, SchemaRecord, Ops
  <2> QED  BY <2>1, <2>2
<1>7. Phase(p)'
  BY <1>1, <1>2, <1>3, <1>4 DEF Local, Closed, Before, Locked, Place, Phase, Busy, Built, Linked, Idle, Gone, Fresh, ProcRecord, SchemaRecord, Ops
<1>8. ASSUME NEW q \in Procs \ {p}, proc[q].t = t PROVE Locked(q)' /\ Place(q)' /\ Phase(q)'
  <2>1. proc'[q] = proc[q] /\ release' = release /\ Locked(q) /\ Place(q) /\ Phase(q)
    BY <1>4, <1>8, Known DEF Before, Local
  <2>2. Locked(q)' /\ Place(q)'
    BY <1>1, <1>2, <1>3, <1>8, <2>1 DEF Locked, Place, Busy
  <2>3. Phase(q)'
    BY <1>1, <1>2, <1>3, <1>8, <2>1 DEF Before, Phase, Busy, Linked, Inv, Sole
  <2> QED  BY <2>2, <2>3
<1>9. Rest(t)'
  <2>1. CASE ~Busy(p)
    <3>1. Quiet(t)' => Quiet(t)
      BY <1>4, <2>1 DEF Quiet, Busy, Local
    <3> QED  BY <1>1, <1>3, <2>1, <3>1 DEF Before, Rest, Linked, Busy
  <2>2. CASE Busy(p)
    BY <1>3, <2>2 DEF Rest, Busy
  <2> QED  BY <2>1, <2>2
<1>10. Closed(t)' /\ row'[Root] # "archived"
  BY <1>1, <1>2, <1>3, <1>4, DeploymentConstants
  DEF Before, Inv, Local, Untouched, Closed, Place, Gone, Fresh, SchemaRecord, Busy
<1>11. Whole(t)'
  BY <1>1, <1>2, <1>3 DEF Before, Whole, Gone, Fresh
<1> QED
  BY <1>1, <1>2, <1>3, <1>4, <1>5, <1>6, <1>7, <1>8, <1>9, <1>10, <1>11, StepKeeps
  DEF Busy, Idle

LEMMA EndKeeps ==
    ASSUME NEW p \in Procs, NEW t \in Tenants, proc[p].t = t, Inv, End(p)
    PROVE  Inv'
<1>1. Before(p, t)
  BY Known
<1>2. proc[p].pc = "done"
  BY <1>1 DEF Before, Place, Busy, End, At, Goto, Scar
<1>3. /\ proc'[p] = Idle
      /\ row'[t] = row[t]
      /\ schema'[t] = schema[t]
      /\ history'[t] = history[t]
      /\ binding'[t] = binding[t]
      /\ scars'[t] = scars[t]
  BY <1>1, <1>2 DEF Before, Inv, TypeOK, Place, Busy, ProcRecord, SchemaRecord, End, At, Goto, Scar
<1>4. Local(p, t)
  BY <1>2 DEF Local, Untouched, Inv, TypeOK, End, At, Goto, Scar
<1>5. Shaped'
  <2>1. proc'[p] \in ProcRecord /\ schema'[t] \in SchemaRecord
    BY <1>1, <1>2, <1>3, DeploymentConstants
    DEF Before, ProcRecord, SchemaRecord, Migrations, Ops, Idle, Gone, Fresh
  <2>2. proc' \in [Procs -> ProcRecord] /\ schema' \in [Tenants -> SchemaRecord]
    BY <1>4, <2>1 DEF Local, Untouched, Inv, TypeOK, End, At, Goto, Scar
  <2>3. /\ scars' \in [Tenants -> SUBSET Scars]
        /\ row' \in [Tenants -> {"none", "live", "archived"}]
    BY <1>1 DEF Before, Inv, TypeOK, Scars, End, At, Goto, Scar
  <2>4. history' \in [Tenants -> SUBSET (1..release)]
    BY <1>1, <1>2 DEF Before, Inv, TypeOK, Locked, End, At, Goto, Scar
  <2>5. binding' \in [Tenants -> 0..MaxBorn]
    BY <1>1 DEF Before, Inv, TypeOK, SchemaRecord, End, At, Goto, Scar
  <2> QED  BY <1>1, <1>4, <2>2, <2>3, <2>4, <2>5 DEF Before, Local, Shaped
<1>6. Locked(p)' /\ Place(p)'
  <2>1. Locked(p)'
    BY <1>1, <1>2, <1>3, <1>4 DEF Local, Before, Locked, Place, Phase, Busy, Built, Linked, Idle, Gone, Fresh, ProcRecord, SchemaRecord, Ops
  <2>2. Place(p)'
    BY <1>1, <1>2, <1>3, <1>4 DEF Local, Before, Locked, Place, Phase, Busy, Built, Linked, Idle, Gone, Fresh, ProcRecord, SchemaRecord, Ops
  <2> QED  BY <2>1, <2>2
<1>7. Phase(p)'
  BY <1>1, <1>2, <1>3, <1>4 DEF Local, Closed, Before, Locked, Place, Phase, Busy, Built, Linked, Idle, Gone, Fresh, ProcRecord, SchemaRecord, Ops
<1>8. ASSUME NEW q \in Procs \ {p}, proc[q].t = t PROVE Locked(q)' /\ Place(q)' /\ Phase(q)'
  <2>1. proc'[q] = proc[q] /\ release' = release /\ Locked(q) /\ Place(q) /\ Phase(q)
    BY <1>4, <1>8, Known DEF Before, Local
  <2>2. Locked(q)' /\ Place(q)'
    BY <1>1, <1>2, <1>3, <1>8, <2>1 DEF Locked, Place, Busy
  <2>3. Phase(q)'
    BY <1>1, <1>2, <1>3, <1>8, <2>1 DEF Before, Phase, Busy, Linked, Inv, Sole
  <2> QED  BY <2>2, <2>3
<1>9. Rest(t)'
  <2>1. CASE ~Busy(p)
    <3>1. Quiet(t)' => Quiet(t)
      BY <1>4, <2>1 DEF Quiet, Busy, Local
    <3> QED  BY <1>1, <1>3, <2>1, <3>1 DEF Before, Rest, Linked, Busy
  <2>2. CASE Busy(p)
    <3>1. /\ "stale" \notin scars[t] => schema[t].tables = 1..release /\ history[t] = 1..release
          /\ scars[t] = {} => schema[t].roles /\ Linked(t)
      BY <1>1, <1>2, <2>2 DEF Before, Phase, Place, Built
    <3>2. 1 \in 1..release
      BY <1>1 DEF Before
    <3> QED  BY <1>3, <3>1, <3>2 DEF Rest, Linked
  <2> QED  BY <2>1, <2>2
<1>10. Closed(t)' /\ row'[Root] # "archived"
  BY <1>1, <1>2, <1>3, <1>4, DeploymentConstants
  DEF Before, Inv, Local, Untouched, Closed, Place, Gone, Fresh, SchemaRecord, Busy
<1>11. Whole(t)'
  BY <1>1, <1>2, <1>3 DEF Before, Whole, Gone, Fresh
<1> QED
  BY <1>1, <1>2, <1>3, <1>4, <1>5, <1>6, <1>7, <1>8, <1>9, <1>10, <1>11, StepKeeps
  DEF Busy, Idle

-----------------------------------------------------------------------------
(* The other steps.                                                        *)

LEMMA StartKeeps ==
    ASSUME NEW p \in Procs, NEW t \in Tenants, NEW op \in Ops \ {"migrate"}, Inv,
           row[t] # "archived", Quiet(t), Begin(p, op, t, "drop"),
           op = "create" => t # Root, op = "setup" => t = Root,
           row' = [row EXCEPT ![t] = "live"],
           UNCHANGED <<release, schema, history, binding, scars>>
    PROVE  Inv'
<1>1. Before(p, t) /\ proc[p] = Idle /\ ~Busy(p)
  BY Known DEF Begin, Busy, Idle
<1>2. proc'[p] = [pc |-> "drop", op |-> op, t |-> t, pending |-> {}] /\ row'[t] = "live"
  BY DEF Begin, Inv, TypeOK
<1>3. Local(p, t)
  BY DEF Begin, Local, Untouched, Inv, TypeOK
<1>4. Shaped'
  <2>1. proc'[p] \in ProcRecord
    BY <1>2 DEF ProcRecord
  <2>2. proc' \in [Procs -> ProcRecord]
    BY <2>1 DEF Begin, Inv, TypeOK
  <2> QED  BY <2>2 DEF Shaped, Inv, TypeOK
<1>5. Locked(p)' /\ Place(p)' /\ Phase(p)'
  BY <1>2 DEF Locked, Place, Phase, Busy, Built
<1>6. Rest(t)'
  BY <1>2 DEF Rest, Quiet
<1>7. Closed(t)' /\ Whole(t)'
  <2>1. row[t] \in {"none", "live"}
    BY DEF Inv, TypeOK
  <2> QED  BY <1>1, <1>2, <2>1 DEF Before, Closed, Whole
<1>8. ASSUME NEW q \in Procs \ {p}, proc[q].t = t PROVE Locked(q)' /\ Place(q)' /\ Phase(q)'
  <2>1. ~Busy(q) /\ proc'[q] = proc[q] /\ Locked(q) /\ Place(q)
    BY <1>3, <1>8, Known DEF Before, Local, Quiet, Busy
  <2> QED  BY <2>1 DEF Locked, Place, Phase, Busy
<1>9. row'[Root] # "archived"
  BY DeploymentConstants DEF Inv, TypeOK
<1> QED
  BY <1>1, <1>2, <1>3, <1>4, <1>5, <1>6, <1>7, <1>8, <1>9, StepKeeps

LEMMA MigrateTenantKeeps ==
    ASSUME NEW p \in Procs, NEW t \in Tenants, Inv, MigrateTenant(p, t)
    PROVE  Inv'
<1>1. Before(p, t) /\ ~Busy(p)
  BY Known DEF MigrateTenant, Begin, Busy, Idle
<1>2. proc'[p] = [pc |-> "migrate", op |-> "migrate", t |-> t, pending |-> {}]
  BY DEF MigrateTenant, Begin, Inv, TypeOK
<1>3. Local(p, t)
  BY DEF MigrateTenant, Begin, Local, Untouched, Inv, TypeOK
<1>4. UNCHANGED <<release, row, schema, history, binding, scars>>
  BY DEF MigrateTenant
<1>5. Shaped'
  <2>1. proc'[p] \in ProcRecord
    BY <1>2 DEF ProcRecord, Ops
  <2>2. proc' \in [Procs -> ProcRecord]
    BY <2>1 DEF MigrateTenant, Begin, Inv, TypeOK
  <2> QED  BY <1>4, <2>2 DEF Shaped, Inv, TypeOK
<1>6. ~Busy(p)' /\ Locked(p)' /\ Place(p)' /\ Phase(p)'
  BY <1>2 DEF Locked, Place, Phase, Busy
<1>7. Rest(t)' /\ Closed(t)' /\ Whole(t)' /\ row'[Root] # "archived"
  <2>1. Quiet(t)' => Quiet(t)
    BY <1>1, <1>3 DEF Quiet, Local, Busy
  <2> QED  BY <1>1, <1>4, <2>1 DEF Before, Rest, Closed, Whole, Linked, Inv
<1>8. ASSUME NEW q \in Procs \ {p} PROVE Locked(q)' /\ Place(q)' /\ Phase(q)'
  <2>1. proc'[q] = proc[q] /\ Locked(q) /\ Place(q) /\ Phase(q)
    BY <1>3, Known DEF Before, Local
  <2> QED  BY <1>4, <2>1 DEF Locked, Place, Phase, Busy, Linked
<1> QED
  BY <1>1, <1>2, <1>3, <1>5, <1>6, <1>7, <1>8, StepKeeps

\* Archiving and restoring a tenant.
LEMMA RowKeeps ==
    ASSUME NEW t \in Tenants, Inv, row[t] # "none",
           \/ row' = [row EXCEPT ![t] = "archived"] /\ t # Root
           \/ /\ row' = [row EXCEPT ![t] = "live"]
              /\ "undone" \in scars[t] => "reopened" \in scars'[t],
           \A u \in Tenants : scars'[u] \in {scars[u], scars[u] \cup {"reopened"}},
           scars' \in [Tenants -> SUBSET Scars],
           UNCHANGED <<release, schema, history, binding, proc>>
    PROVE  Inv'
<1>1. row' \in [Tenants -> {"none", "live", "archived"}]
  BY DEF Inv, TypeOK
<1>2. \A u \in Tenants : row'[u] = "none" <=> row[u] = "none"
  BY DEF Inv, TypeOK
<1>3. TypeOK'
  BY <1>1 DEF Inv, TypeOK
<1>4. Sole'
  BY DEF Inv, Sole, Busy
<1>5. ASSUME NEW p \in Procs PROVE Locked(p)' /\ Place(p)' /\ Phase(p)'
  <2>1. proc[p].t \in Tenants /\ Locked(p) /\ Place(p) /\ Phase(p)
    BY DEF Inv, TypeOK, ProcRecord
  <2>2. Locked(p)'
    BY <2>1 DEF Locked, Busy
  <2>3. Place(p)'
    BY <1>2, <2>1 DEF Place, Busy
  <2>4. Phase(p)'
    BY <2>1 DEF Phase, Busy, Linked
  <2> QED  BY <2>2, <2>3, <2>4
<1>6. ASSUME NEW u \in Tenants PROVE Rest(u)' /\ Closed(u)'
  <2>1. Rest(u) /\ Closed(u)
    BY DEF Inv
  <2>2. Rest(u)'
    BY <1>2, <2>1 DEF Rest, Quiet, Linked
  <2>3. Closed(u)'
    <3>1. CASE u = t
      BY <1>2, <2>1, <3>1 DEF Closed, Inv, TypeOK
    <3>2. CASE u # t
      BY <1>2, <2>1, <3>2 DEF Closed, Inv, TypeOK
    <3> QED  BY <3>1, <3>2
  <2> QED  BY <2>2, <2>3
<1>7. row'[Root] # "archived"
  BY DeploymentConstants DEF Inv, TypeOK
<1> QED  BY <1>3, <1>4, <1>5, <1>6, <1>7 DEF Inv

LEMMA DeployKeeps ==
    ASSUME Inv, Deploy
    PROVE  Inv'
<1>1. release' \in 1..Releases /\ 1..release \subseteq 1..release'
  BY DeploymentConstants DEF Inv, TypeOK, Deploy
<1>2. history' \in [Tenants -> SUBSET (1..release')]
  <2>1. \A t \in Tenants : history[t] \subseteq 1..release
    BY DEF Inv, TypeOK
  <2> QED  BY <1>1, <2>1 DEF Inv, TypeOK, Deploy
<1>3. TypeOK'
  BY <1>1, <1>2 DEF Inv, TypeOK, Deploy
<1>4. \A p \in Procs : proc'[p] = Idle
  BY DEF Deploy
<1>5. Sole' /\ \A p \in Procs : Locked(p)' /\ Place(p)' /\ Phase(p)'
  BY <1>4 DEF Sole, Locked, Place, Phase, Busy, Idle
<1>6. ASSUME NEW u \in Tenants PROVE Rest(u)' /\ Closed(u)'
  BY DEF Inv, Rest, Closed, Quiet, Linked, Deploy
<1> QED  BY <1>3, <1>5, <1>6 DEF Inv, Deploy

-----------------------------------------------------------------------------
(* The theorems.                                                           *)

LEMMA InitHolds == Init => Inv
<1> SUFFICES ASSUME Init PROVE Inv
  OBVIOUS
<1>1. 1 \in 1..Releases
  BY DeploymentConstants
<1>2. TypeOK
  <2>1. Gone(0) \in SchemaRecord /\ Idle \in ProcRecord
    BY DeploymentConstants DEF Gone, Idle, SchemaRecord, ProcRecord, Ops
  <2>2. schema \in [Tenants -> SchemaRecord] /\ proc \in [Procs -> ProcRecord]
    BY <2>1 DEF Init
  <2>3. /\ \A t \in Tenants : ~schema[t].exists => schema[t] = Gone(schema[t].born)
        /\ \A p \in Procs : proc[p].pc = "idle"
    BY DEF Init, Gone, Idle
  <2> QED  BY <1>1, <2>2, <2>3, DeploymentConstants DEF Init, TypeOK
<1>3. Sole /\ \A p \in Procs : Locked(p) /\ Place(p) /\ Phase(p)
  BY DEF Init, Sole, Locked, Place, Phase, Busy, Idle
<1>4. \A t \in Tenants : Rest(t) /\ Closed(t)
  BY DEF Init, Rest, Closed, Gone
<1>5. row[Root] # "archived"
  BY DeploymentConstants DEF Init
<1> QED  BY <1>2, <1>3, <1>4, <1>5 DEF Inv

LEMMA ProvisionKeeps ==
    ASSUME Inv, NEW p \in Procs, Provision(p)
    PROVE  Inv'
<1>1. PICK t \in Tenants : proc[p].t = t
  BY DEF Inv, TypeOK, ProcRecord
<1>2. CASE DropSchema(p) \/ DeleteHistory(p) \/ DeleteFails(p) \/ CreateSchema(p)
  BY <1>1, <1>2, DropSchemaKeeps, DeleteHistoryKeeps, DeleteFailsKeeps, CreateSchemaKeeps
<1>3. CASE Lock(p) \/ Commit(p) \/ Seed(p) \/ SeedFails(p)
  BY <1>1, <1>3, LockKeeps, CommitKeeps, SeedKeeps, SeedFailsKeeps
<1>4. CASE \/ CreateAdmin(p) \/ AdminFails(p) \/ RootMissing(p) \/ RootEmployee(p)
           \/ RootBinding(p)
  BY <1>1, <1>4, CreateAdminKeeps, AdminFailsKeeps, RootMissingKeeps, RootEmployeeKeeps,
     RootBindingKeeps
<1>5. CASE Fail(p) \/ Deactivate(p) \/ Crash(p) \/ End(p)
  BY <1>1, <1>5, FailKeeps, DeactivateKeeps, CrashKeeps, EndKeeps
<1> QED  BY <1>2, <1>3, <1>4, <1>5 DEF Provision

LEMMA NextKeeps == Inv /\ [Next]_vars => Inv'
<1> SUFFICES ASSUME Inv, [Next]_vars PROVE Inv'
  OBVIOUS
<1>1. ASSUME NEW p \in Procs, Setup(p) PROVE Inv'
  <2>1. Root \in Tenants /\ row[Root] # "archived"
    BY DeploymentConstants DEF Inv
  <2> QED  BY <1>1, <2>1, StartKeeps DEF Setup, Ops
<1>2. ASSUME NEW p \in Procs, NEW t \in Tenants, Create(p, t) PROVE Inv'
  BY <1>2, StartKeeps DEF Create, Ops
<1>3. ASSUME NEW p \in Procs, NEW t \in Tenants, Cli(p, t) PROVE Inv'
  BY <1>3, StartKeeps DEF Cli, Ops
<1>4. ASSUME NEW t \in Tenants, Archive(t) PROVE Inv'
  <2>1. scars' = scars /\ scars \in [Tenants -> SUBSET Scars]
    BY <1>4 DEF Archive, Inv, TypeOK
  <2> QED  BY <1>4, <2>1, RowKeeps DEF Archive
<1>5. ASSUME NEW t \in Tenants, Restore(t) PROVE Inv'
  <2>1. /\ scars' \in [Tenants -> SUBSET Scars]
        /\ \A u \in Tenants : scars'[u] \in {scars[u], scars[u] \cup {"reopened"}}
        /\ "undone" \in scars[t] => "reopened" \in scars'[t]
    BY <1>5 DEF Restore, Scar, Scars, Inv, TypeOK
  <2> QED  BY <1>5, <2>1, RowKeeps DEF Restore
<1>6. ASSUME UNCHANGED vars PROVE Inv'
  <2>1. TypeOK' /\ Sole'
    BY <1>6 DEF vars, Inv, TypeOK, Sole, Busy
  <2>2. \A p \in Procs : Locked(p)' /\ Place(p)' /\ Phase(p)'
    BY <1>6 DEF vars, Inv, Locked, Place, Phase, Busy, Linked
  <2>3. \A t \in Tenants : Rest(t)' /\ Closed(t)'
    BY <1>6 DEF vars, Inv, Rest, Closed, Quiet, Linked
  <2> QED  BY <1>6, <2>1, <2>2, <2>3 DEF vars, Inv
<1> QED
  BY <1>1, <1>2, <1>3, <1>4, <1>5, <1>6, ProvisionKeeps, MigrateTenantKeeps, DeployKeeps DEF Next

LEMMA Invariant == Spec => []Inv
BY InitHolds, NextKeeps, PTL DEF Spec

\* In every state the variables have their types, a schema that is not there
\* has nothing in it, and one migration at most is under way (the advisory lock
\* of createMigrator).
THEOREM Typed == Spec => []TypeOK
<1>1. Inv => TypeOK
  BY DEF Inv
<1> QED  BY <1>1, Invariant, PTL

\* A tenant that is open and that nothing is provisioning has the tables its
\* history lists and an administrator who can enter, but for the failures the
\* code does not compensate (tenantProvisioning, tenantSetup, createMigrator).
THEOREM Complete == Spec => []LiveIsWhole
<1>1. ASSUME Inv PROVE LiveIsWhole
  <2>1. ASSUME NEW t \in Tenants, row[t] = "live", Quiet(t),
               scars[t] \cap {"cut", "stale", "reopened"} = {}
        PROVE  1 \in history[t] /\ schema[t].tables = history[t]
    <3>1. Rest(t) /\ Closed(t)
      BY <1>1 DEF Inv
    <3>2. scars[t] \cap {"cut", "stale", "undone"} = {}
      BY <2>1, <3>1 DEF Closed
    <3> QED  BY <2>1, <3>1, <3>2 DEF Rest
  <2>2. ASSUME NEW t \in Tenants, row[t] = "live", Quiet(t), scars[t] = {}
        PROVE  Linked(t) /\ schema[t].roles
    BY <1>1, <2>2 DEF Inv, Rest
  <2> QED  BY <2>1, <2>2 DEF LiveIsWhole
<1> QED  BY <1>1, Invariant, PTL

\* Whatever was there before, provisioning that gets past its migrations has
\* made the schema anew with all of them, and a setup that ends well and has found
\* the root login has bound it to an employee that exists (provisionTenant,
\* seedRootEntity).
THEOREM Rebuilds == Spec => []Rebuilt
<1>1. ASSUME Inv PROVE Rebuilt
  <2>1. ASSUME NEW p \in Procs, proc[p].op # "migrate", "stale" \notin scars[proc[p].t],
               proc[p].pc \in {"seed", "admin", "employee", "bind", "done"}
        PROVE  schema[proc[p].t].tables = 1..release /\ history[proc[p].t] = 1..release
    BY <1>1, <2>1 DEF Inv, Phase, Busy, Built
  <2>2. ASSUME NEW p \in Procs, At(p, "done", {"setup"}), "bare" \notin scars[Root]
        PROVE  Linked(Root)
    BY <1>1, <2>2 DEF Inv, Phase, Place, Busy, At
  <2> QED  BY <2>1, <2>2 DEF Rebuilt
<1> QED  BY <1>1, Invariant, PTL

=============================================================================
