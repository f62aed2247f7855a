------------------------------- MODULE Logins -------------------------------
(***************************************************************************)
(* Logins: portal users, their bindings to tenants, and the entities that  *)
(* own the bindings.                                                       *)
(*                                                                         *)
(* A portal user (admin.portal_users) is an e-mail address with a          *)
(* password; a binding (admin.portal_user_tenants) lets it into one        *)
(* tenant, usually as an employee, client or vendor contact of that        *)
(* tenant.  Rows are archived by a time stamp and come back when the stamp *)
(* is cleared.  A request reads with single statements, hashes a password, *)
(* and writes in one or more transactions, so that other requests run      *)
(* between its steps; it can die between any two.  A transaction is one    *)
(* step, save that of the archive cascade, whose decision to lock the user *)
(* is taken from a snapshot and committed later.                           *)
(*                                                                         *)
(* Abstracted: passwords, the status column (only a login reads it),       *)
(* roles, sessions, and the tenant's own table of e-mail rows: the address *)
(* a request resolves is its parameter m.                                  *)
(***************************************************************************)
EXTENDS Integers, Sequences, FiniteSets

CONSTANTS
  Actors,      \* concurrent requests
  Tenants,
  Entities,    \* employees, clients and vendor contacts
  TenantOf,    \* Entities -> Tenants
  KindOf,      \* Entities -> {"employee", "client", "vendor_contact"}
  Emails,
  None,        \* NULL
  Start,       \* the states the model starts in
  MaxOps       \* how many requests are made

ASSUME ConstantsAssumption ==
  /\ TenantOf \in [Entities -> Tenants]
  /\ KindOf \in [Entities -> {"employee", "client", "vendor_contact"}]
  /\ None \notin Entities \cup Emails \cup Tenants
  /\ MaxOps \in Nat

VARIABLES
  tenant,    \* Tenants -> BOOLEAN: live
  entity,    \* Entities -> its row
  user,      \* portal_users in order of creation; gone = 0 is live
  binding,   \* portal_user_tenants in order of creation; gone = 0 is live
  clock,     \* the next time stamp
  req,       \* Actors -> what the request has read
  ops,       \* requests made so far
  crossed,   \* history: users and tenants of which two requests overlapped,
             \* a request died, or an import archived a login
  moved,     \* history: users whose access a swap gave to another
  took       \* history: bindings the last archive of a tenant took

vars == <<tenant, entity, user, binding, clock, req, ops, crossed, moved, took>>
rows == <<tenant, entity, user, binding>>

EntityRow == [row : {"absent", "live", "archived"}, app : BOOLEAN]
UserRow == [email : Emails, gone : Nat]
BindingRow == [user : Nat, tenant : Tenants, entity : Entities \cup {None}, gone : Nat]

Idle == [pc |-> "idle", op |-> "none", e |-> None, u |-> 0, t |-> None,
         m |-> None, b |-> 0, x |-> 0, y |-> 0, at |-> 0,
         todo |-> {}]

-----------------------------------------------------------------------------
(* Queries.                                                                *)

Newest(S) == CHOOSE i \in S : \A j \in S : j <= i
Oldest(S) == CHOOSE i \in S : \A j \in S : i <= j
LiveOf(rs) == {i \in DOMAIN rs : rs[i].gone = 0}

Bound(e) == {i \in DOMAIN binding : binding[i].entity = e}
BoundTo(u) == {i \in DOMAIN binding : binding[i].user = u}
InTenant(t) == {i \in DOMAIN binding : binding[i].tenant = t}

\* Of a set of rows the live one first, else the latest; 0 if there is none.
LiveFirst(S, rs) ==
  IF S = {} THEN 0
  ELSE IF S \cap LiveOf(rs) # {} THEN Newest(S \cap LiveOf(rs)) ELSE Newest(S)

ActiveBinding(e) == IF Bound(e) \cap LiveOf(binding) = {} THEN 0
                    ELSE Newest(Bound(e) \cap LiveOf(binding))
AnyBinding(e) == LiveFirst(Bound(e), binding)

\* The user of an address: the live one, else the one archived last.
Owner(m) ==
  LET S == {i \in DOMAIN user : user[i].email = m}
  IN IF S = {} THEN 0
     ELSE IF S \cap LiveOf(user) # {} THEN Newest(S \cap LiveOf(user))
     ELSE CHOOSE i \in S : \A j \in S : user[j].gone <= user[i].gone

SameTenant(u, t, bs) ==
  LiveFirst({i \in DOMAIN bs : bs[i].user = u /\ bs[i].tenant = t}, bs)

\* The partial unique indexes: one live user of an address, one live binding
\* of a user in a tenant and one of an entity.
Unique(us, bs) ==
  /\ \A i, j \in LiveOf(us) : i # j => us[i].email # us[j].email
  /\ \A i, j \in LiveOf(bs) : i # j =>
       /\ <<bs[i].user, bs[i].tenant>> # <<bs[j].user, bs[j].tenant>>
       /\ bs[i].entity # bs[j].entity \/ bs[i].entity = None

\* authRedis: the binding a user enters by, the oldest live one, and its tenant.
Home(u) == LET S == BoundTo(u) \cap LiveOf(binding)
           IN IF S = {} THEN 0 ELSE Oldest(S)
MayEnter(u) == user[u].gone = 0 /\ Home(u) # 0 /\ tenant[binding[Home(u)].tenant]

NewUser(m) == [email |-> m, gone |-> 0]
NewBinding(u, t, e) == [user |-> u, tenant |-> t, entity |-> e, gone |-> 0]
Gone(r, at) == [r EXCEPT !.gone = at]
Back(r) == [r EXCEPT !.gone = 0]
-----------------------------------------------------------------------------
(* How a step of a request ends.                                           *)

\* The rows another transaction has written and not committed are locked.
NotLocked(a, us, bs) ==
  \A c \in Actors \ {a} : req[c].pc = "shutting" =>
    /\ bs[req[c].b] = binding[req[c].b]
    /\ req[c].x = 1 => us[req[c].u] = user[req[c].u]

Go(a, r) == req' = [req EXCEPT ![a] = r]
Goto(a, pc) == Go(a, [req[a] EXCEPT !.pc = pc])
Done(a) == Go(a, Idle)

\* Fault: no unique index.
CommitUnchecked(a, us, bs, next) ==
  NotLocked(a, us, bs) /\ user' = us /\ binding' = bs /\ Go(a, next)

\* A transaction that writes both tables: all of it, or an index refuses it.
Commit(a, us, bs, next) ==
  /\ NotLocked(a, us, bs)
  /\ IF Unique(us, bs)
     THEN user' = us /\ binding' = bs /\ Go(a, next)
     ELSE UNCHANGED <<user, binding>> /\ Done(a)

\* A new request: the caller's session is in a live tenant, or is root's.
Begin(a, op) ==
  /\ req[a] = Idle
  /\ ops < MaxOps
  /\ ops' = ops + 1
InSession(e) == tenant[TenantOf[e]]

-----------------------------------------------------------------------------
(* Employees, clients and vendor contacts.                                 *)

\* POST: the entity, with its code and e-mail, then the login.
Create(a, e, app, m) ==
  /\ Begin(a, "create") /\ InSession(e)
  /\ entity[e].row = "absent"
  /\ entity' = [entity EXCEPT ![e] = [row |-> "live", app |-> app]]
  /\ IF app THEN Go(a, [Idle EXCEPT !.pc = "look", !.op = "create", !.e = e, !.m = m])
     ELSE Done(a)
  /\ UNCHANGED <<tenant, user, binding, clock, moved, took>>

\* PUT: reads the entity and its binding and decides what is_app_user asks for.
Update(a, e, app, m) ==
  /\ Begin(a, "update") /\ InSession(e)
  /\ entity[e].row = "live"
  /\ LET provision == app /\ (~entity[e].app \/ ActiveBinding(e) = 0)
         cut == entity[e].app /\ ~app
     IN Go(a, [Idle EXCEPT !.pc = "save", !.op = "update", !.e = e, !.m = IF app THEN m ELSE None,
               !.x = IF app THEN 1 ELSE 0,
               !.y = IF provision THEN 1 ELSE IF cut THEN 2 ELSE 0])
  /\ UNCHANGED <<tenant, entity, user, binding, clock, moved, took>>

Save(a) ==
  /\ req[a].pc = "save"
  /\ IF entity[req[a].e].row = "live"
     THEN /\ entity' = [entity EXCEPT ![req[a].e].app = (req[a].x = 1)]
          /\ CASE req[a].y = 1 -> Goto(a, "look")
               [] req[a].y = 2 -> Goto(a, "find")
               [] OTHER -> Done(a)
     ELSE UNCHANGED entity /\ Done(a)
  /\ UNCHANGED <<tenant, user, binding, clock, ops, moved, took>>

\* #provisionAppUser reads, one statement at a time: a binding the entity has
\* had; else, for a vendor contact, the user of the address...
Look(a) ==
  /\ req[a].pc = "look"
  /\ LET prior == AnyBinding(req[a].e)
         pc == IF KindOf[req[a].e] = "vendor_contact" /\ prior = 0 THEN "match" ELSE "grant"
     IN Go(a, [req[a] EXCEPT !.pc = pc, !.b = prior, !.u = 0, !.x = 0, !.y = 0])
  /\ UNCHANGED <<tenant, entity, user, binding, clock, ops, moved, took>>

Match(a) ==
  /\ req[a].pc = "match"
  /\ LET u == Owner(req[a].m)
         x == IF u # 0 /\ user[u].gone # 0 THEN 1 ELSE 0
     IN Go(a, [req[a] EXCEPT !.pc = IF u = 0 THEN "grant" ELSE "fit", !.u = u, !.x = x])
  /\ UNCHANGED <<tenant, entity, user, binding, clock, ops, moved, took>>

\* ... and that user's binding to the tenant.
Fit(a) ==
  /\ req[a].pc = "fit"
  /\ LET same == SameTenant(req[a].u, TenantOf[req[a].e], binding)
     IN IF same # 0 /\ same \in LiveOf(binding) /\ binding[same].entity # None
        THEN Done(a)
        ELSE Go(a, [req[a] EXCEPT !.pc = "grant", !.y = same])
  /\ UNCHANGED <<tenant, entity, user, binding, clock, ops, moved, took>>

\* The user and binding rows once the entity's earlier binding is restored.
Revived(e, b, m) ==
  [user EXCEPT ![binding[b].user] =
     IF KindOf[e] = "vendor_contact" THEN Back(@) ELSE NewUser(m)]

\* Bind a user to a vendor contact: a bare row, or one of the same contact,
\* is upgraded in place; otherwise a row is added.
BindTo(bs, u, e, same) ==
  IF same # 0 /\ bs[same].entity \in {None, e}
  THEN [bs EXCEPT ![same] = [@ EXCEPT !.gone = 0, !.entity = e]]
  ELSE Append(bs, NewBinding(u, TenantOf[e], e))

\* #provisionAppUser writes, in one transaction.
Grant(a) ==
  /\ req[a].pc = "grant"
  /\ LET r == req[a]
         e == r.e
     IN CASE r.b # 0 ->
               Commit(a, Revived(e, r.b, r.m),
                      [binding EXCEPT ![r.b] = Back(@)], Idle)
          [] r.b = 0 /\ r.u # 0 ->
               Commit(a, IF r.x = 1 THEN [user EXCEPT ![r.u] = Back(@)] ELSE user,
                      BindTo(binding, r.u, e, r.y), Idle)
          [] OTHER ->
               Commit(a, Append(user, NewUser(r.m)),
                      Append(binding, NewBinding(Len(user) + 1, TenantOf[e], e)), Idle)
  /\ UNCHANGED <<tenant, entity, clock, ops, moved, took>>

\* DELETE: the login first, if the entity has one, then the entity.
Archive(a, e) ==
  /\ Begin(a, "archive") /\ InSession(e)
  /\ entity[e].row = "live"
  /\ Go(a, [Idle EXCEPT !.pc = IF entity[e].app THEN "find" ELSE "mark",
                        !.op = "archive", !.e = e])
  /\ UNCHANGED <<tenant, entity, user, binding, clock, moved, took>>

Mark(a) ==
  /\ req[a].pc = "mark"
  /\ entity' = [entity EXCEPT ![req[a].e].row = "archived"]
  /\ Done(a)
  /\ UNCHANGED <<tenant, user, binding, clock, ops, moved, took>>

AfterShut(r) == IF r.op = "archive" THEN [r EXCEPT !.pc = "mark"] ELSE Idle

\* archivePortalUserFor finds the live binding...
Find(a) ==
  /\ req[a].pc = "find"
  /\ LET b == ActiveBinding(req[a].e)
     IN IF b = 0 THEN Go(a, AfterShut(req[a]))
        ELSE Go(a, [req[a] EXCEPT !.pc = "shut", !.b = b, !.u = binding[b].user])
  /\ UNCHANGED <<tenant, entity, user, binding, clock, ops, moved, took>>

\* Faults: the user always goes with a binding, or never.
LastOneAlways(u, b) == TRUE
LastOneNever(u, b) == FALSE

\* The user has no live binding but b, as far as this transaction sees.
LastOne(u, b) == BoundTo(u) \cap LiveOf(binding) \subseteq {b}

\* ... and its transaction writes it; in the same snapshot it decides whether
\* the user goes too.
Shut(a) ==
  /\ req[a].pc = "shut"
  /\ \A c \in Actors \ {a} : req[c].pc = "shutting" => req[c].b # req[a].b
  /\ LET u == req[a].u
         last == user[u].gone = 0 /\ LastOne(u, req[a].b)
     IN Go(a, [req[a] EXCEPT !.pc = "shutting", !.at = clock, !.x = IF last THEN 1 ELSE 0])
  /\ clock' = clock + 1
  /\ UNCHANGED <<tenant, entity, user, binding, ops, moved, took>>

Shutting(a) ==
  /\ req[a].pc = "shutting"
  /\ LET r == req[a]
     IN Commit(a, IF r.x = 1 THEN [user EXCEPT ![r.u] = Gone(@, r.at)] ELSE user,
               [binding EXCEPT ![r.b] = Gone(@, r.at)], AfterShut(r))
  /\ UNCHANGED <<tenant, entity, clock, ops, moved, took>>

\* PATCH: the entity, then the login if it is an app user.
Restore(a, e) ==
  /\ Begin(a, "restore") /\ InSession(e)
  /\ entity[e].row = "archived"
  /\ entity' = [entity EXCEPT ![e].row = "live"]
  /\ Go(a, [Idle EXCEPT !.pc = "reread", !.op = "restore", !.e = e])
  /\ UNCHANGED <<tenant, user, binding, clock, moved, took>>

Reread(a) ==
  /\ req[a].pc = "reread"
  /\ IF entity[req[a].e] = [row |-> "live", app |-> TRUE] THEN Goto(a, "revive") ELSE Done(a)
  /\ UNCHANGED <<tenant, entity, user, binding, clock, ops, moved, took>>

\* Faults: every archived binding comes back; the users do not.
CohortAll(S) == S \ LiveOf(binding)
ClearUsersNone(C) == user

\* Of a set of bindings, those archived last: the cohort of a restore.
Cohort(S) ==
  LET A == S \ LiveOf(binding)
  IN {i \in A : \A j \in A : binding[j].gone <= binding[i].gone}
ClearBindings(C) == [i \in DOMAIN binding |-> IF i \in C THEN Back(binding[i]) ELSE binding[i]]
ClearUsers(C) == [u \in DOMAIN user |-> IF \E i \in C : binding[i].user = u
                                        THEN Back(user[u]) ELSE user[u]]

\* restorePortalUserFor: the cohort and its users; no status changes.
Revive(a) ==
  /\ req[a].pc = "revive"
  /\ LET C == Cohort(Bound(req[a].e)) IN Commit(a, ClearUsers(C), ClearBindings(C), Idle)
  /\ UNCHANGED <<tenant, entity, clock, ops, moved, took>>

\* PUT swap-login-email: a vendor contact's access goes to another identity.
Swap(a, e, m) ==
  /\ Begin(a, "swap") /\ InSession(e)
  /\ KindOf[e] = "vendor_contact" /\ entity[e].row = "live"
  /\ ActiveBinding(e) # 0
  /\ LET b == ActiveBinding(e)
         match == Owner(m)
     IN /\ match # binding[b].user
        /\ Go(a, [Idle EXCEPT !.pc = "swap", !.op = "swap", !.e = e, !.m = m, !.b = b,
                  !.u = match,
                  !.x = IF match # 0 /\ user[match].gone # 0 THEN 1 ELSE 0])
  /\ UNCHANGED <<tenant, entity, user, binding, clock, moved, took>>

\* One transaction; when the address was taken meanwhile, a second with its owner.
Swapped(a) ==
  /\ req[a].pc = "swap"
  /\ LET r == req[a]
         shut == [binding EXCEPT ![r.b] = Gone(@, clock)]
         raced == Owner(r.m)
         match == IF r.u # 0 THEN r.u ELSE IF raced # 0 /\ user[raced].gone = 0 THEN raced ELSE 0
         same == IF r.u = 0 THEN 0 ELSE SameTenant(r.u, TenantOf[r.e], shut)
         us == IF match = 0 THEN Append(user, NewUser(r.m))
               ELSE IF r.x = 1 /\ user[match].gone # 0 THEN [user EXCEPT ![match] = Back(@)]
               ELSE user
         bs == BindTo(shut, IF match = 0 THEN Len(user) + 1 ELSE match, r.e, same)
         refused == \/ match = binding[r.b].user
                    \/ same # 0 /\ same \in LiveOf(shut) /\ shut[same].entity # None
     IN IF refused \/ ~Unique(us, bs)
        THEN Done(a) /\ UNCHANGED <<user, binding, moved>>
        ELSE Commit(a, us, bs, Idle) /\ moved' = moved \cup {binding[r.b].user}
  /\ clock' = clock + 1
  /\ UNCHANGED <<tenant, entity, ops, took>>

\* PUT /emails: the login address of an employee or client, then the user's.
ChangeEmail(a, e, m) ==
  /\ Begin(a, "email") /\ InSession(e)
  /\ KindOf[e] # "vendor_contact" /\ entity[e].row # "absent"
  /\ ActiveBinding(e) # 0
  /\ Go(a, [Idle EXCEPT !.pc = "sync", !.op = "email", !.e = e, !.m = m,
            !.u = binding[ActiveBinding(e)].user])
  /\ UNCHANGED <<tenant, entity, user, binding, clock, moved, took>>

Sync(a) ==
  /\ req[a].pc = "sync"
  /\ LET u == req[a].u
     IN Commit(a, IF user[u].gone = 0 THEN [user EXCEPT ![u].email = req[a].m] ELSE user,
               binding, Idle)
  /\ UNCHANGED <<tenant, entity, clock, ops, moved, took>>

-----------------------------------------------------------------------------
(* Portal users.                                                           *)

\* POST register: a user and a binding to a tenant that owns no entity.
Register(a, t, m) ==
  /\ Begin(a, "register")
  /\ tenant[t]
  /\ Go(a, [Idle EXCEPT !.pc = "register", !.op = "register", !.t = t, !.m = m])
  /\ UNCHANGED <<tenant, entity, user, binding, clock, moved, took>>

Registered(a) ==
  /\ req[a].pc = "register"
  /\ Commit(a, Append(user, NewUser(req[a].m)),
            Append(binding, NewBinding(Len(user) + 1, req[a].t, None)), Idle)
  /\ UNCHANGED <<tenant, entity, clock, ops, moved, took>>

\* The bindings a cascade has read, with the entities they were for.
Linked(B) == {<<i, binding[i].entity>> : i \in B}
FirstOf(todo) == CHOOSE l \in todo : \A k \in todo : l[1] <= k[1]

\* DELETE: reads the live bindings, writes user and bindings, then archives
\* the entities one by one.
ArchiveUser(a, u) ==
  /\ Begin(a, "ban")
  /\ user[u].gone = 0
  /\ Go(a, [Idle EXCEPT !.pc = "ban", !.op = "ban", !.u = u,
            !.todo = Linked(BoundTo(u) \cap LiveOf(binding))])
  /\ UNCHANGED <<tenant, entity, user, binding, clock, moved, took>>

\* What is left of a cascade over the entities of bindings.
Rest(r) == IF r.todo = {} THEN Idle ELSE r

Ban(a) ==
  /\ req[a].pc = "ban"
  /\ LET r == req[a]
     IN Commit(a, [user EXCEPT ![r.u] = Gone(@, clock)],
               [i \in DOMAIN binding |->
                  IF r.todo # {} /\ i \in BoundTo(r.u) \cap LiveOf(binding)
                  THEN Gone(binding[i], clock) ELSE binding[i]],
               Rest([r EXCEPT !.pc = "unseat"]))
  /\ clock' = clock + 1
  /\ UNCHANGED <<tenant, entity, ops, moved, took>>

\* The next entity of the cascade: archived if its tenant is live...
Unseat(a) ==
  /\ req[a].pc = "unseat"
  /\ LET l == FirstOf(req[a].todo)
         e == l[2]
     IN /\ entity' = IF e # None /\ entity[e].row = "live" /\ tenant[binding[l[1]].tenant]
                     THEN [entity EXCEPT ![e].row = "archived"] ELSE entity
        /\ Go(a, Rest([req[a] EXCEPT !.todo = @ \ {l}]))
  /\ UNCHANGED <<tenant, user, binding, clock, ops, moved, took>>

\* PATCH: reads the archived bindings; those of live tenants come back.
RestoreUser(a, u) ==
  /\ Begin(a, "unban")
  /\ LET archived == BoundTo(u) \ LiveOf(binding)
         restorable == {i \in archived : tenant[binding[i].tenant]}
     IN /\ archived = {} \/ restorable # {}
        /\ Go(a, [Idle EXCEPT !.pc = "unban", !.op = "unban", !.u = u,
                  !.todo = Linked(restorable)])
  /\ UNCHANGED <<tenant, entity, user, binding, clock, moved, took>>

Unban(a) ==
  /\ req[a].pc = "unban"
  /\ LET r == req[a]
     IN Commit(a, [user EXCEPT ![r.u] = Back(@)],
               [i \in DOMAIN binding |-> IF \E l \in r.todo : l[1] = i THEN Back(binding[i])
                                         ELSE binding[i]],
               Rest([r EXCEPT !.pc = "reseat"]))
  /\ UNCHANGED <<tenant, entity, clock, ops, moved, took>>

\* ... and restored.
Reseat(a) ==
  /\ req[a].pc = "reseat"
  /\ LET l == FirstOf(req[a].todo)
         e == l[2]
     IN /\ entity' = IF e # None /\ entity[e].row = "archived"
                     THEN [entity EXCEPT ![e].row = "live"] ELSE entity
        /\ Go(a, Rest([req[a] EXCEPT !.todo = @ \ {l}]))
  /\ UNCHANGED <<tenant, user, binding, clock, ops, moved, took>>

-----------------------------------------------------------------------------
(* Tenants.                                                                *)

\* DELETE: the tenant row, then in a transaction its live bindings and the
\* users they leave without one.  The stamp is taken before both.
ArchiveTenant(a, t) ==
  /\ Begin(a, "close")
  /\ tenant[t]
  /\ tenant' = [tenant EXCEPT ![t] = FALSE]
  /\ Go(a, [Idle EXCEPT !.pc = "evict", !.op = "close", !.t = t, !.at = clock])
  /\ clock' = clock + 1
  /\ UNCHANGED <<entity, user, binding, moved, took>>

Evict(a) ==
  /\ req[a].pc = "evict"
  /\ LET r == req[a]
         B == InTenant(r.t) \cap LiveOf(binding)
         left == {binding[i].user : i \in B} \ {binding[i].user : i \in LiveOf(binding) \ B}
     IN /\ Commit(a, [u \in DOMAIN user |-> IF u \in left /\ user[u].gone = 0
                                            THEN Gone(user[u], r.at) ELSE user[u]],
                  [i \in DOMAIN binding |-> IF i \in B THEN Gone(binding[i], r.at) ELSE binding[i]],
                  Idle)
        /\ took' = [took EXCEPT ![r.t] = B]
  /\ UNCHANGED <<tenant, entity, clock, ops, moved>>

\* PATCH: the tenant and the cohort of its bindings in one transaction.
RestoreTenant(a, t) ==
  /\ Begin(a, "open")
  /\ Go(a, [Idle EXCEPT !.pc = "reopen", !.op = "open", !.t = t])
  /\ UNCHANGED <<tenant, entity, user, binding, clock, moved, took>>

Reopen(a) ==
  /\ req[a].pc = "reopen"
  /\ LET t == req[a].t
         C == IF tenant[t] THEN {} ELSE Cohort(InTenant(t))
         us == ClearUsers(C)
         bs == ClearBindings(C)
     IN /\ Commit(a, us, bs, Idle)
        /\ tenant' = IF Unique(us, bs) THEN [tenant EXCEPT ![t] = TRUE] ELSE tenant
  /\ UNCHANGED <<entity, clock, ops, moved, took>>

-----------------------------------------------------------------------------
(* A spreadsheet of entities.                                              *)

\* Reads the row and validates: an employee's or client's login address is
\* not another live user's.
Import(a, e, row, app, m) ==
  /\ Begin(a, "import") /\ InSession(e)
  /\ entity[e].row # "absent"
  /\ (app /\ KindOf[e] # "vendor_contact" /\ Owner(m) \in LiveOf(user))
       => \E i \in Bound(e) \cap LiveOf(binding) : binding[i].user = Owner(m)
  /\ Go(a, [Idle EXCEPT !.pc = "import", !.op = "import", !.e = e,
            !.m = IF app THEN m ELSE None, !.b = IF app THEN 1 ELSE 0,
            !.x = IF row = "archived" THEN 1 ELSE 0,
            !.y = IF entity[e].app THEN (IF entity[e].row = "archived" THEN 3 ELSE 2) ELSE
                  (IF entity[e].row = "archived" THEN 1 ELSE 0)])
  /\ UNCHANGED <<tenant, entity, user, binding, clock, moved, took>>

\* employeeAppUserSync: archive the live binding of e and its user, whatever
\* else the user is bound to.
Off(e, s) ==
  LET B == {i \in LiveOf(s.binding) : s.binding[i].entity = e}
  IN IF B = {} THEN s
     ELSE LET b == Newest(B)
          IN [user |-> [s.user EXCEPT ![s.binding[b].user] = Gone(@, clock)],
              binding |-> [s.binding EXCEPT ![b] = Gone(@, clock)]]

\* Restore the entity's binding, live or last, and its user.
On(e, m, s) ==
  LET b == LiveFirst({i \in DOMAIN s.binding : s.binding[i].entity = e}, s.binding)
  IN IF b = 0 THEN s
     ELSE [user |-> [s.user EXCEPT ![s.binding[b].user] =
                       NewUser(IF m = None THEN @.email ELSE m)],
           binding |-> [s.binding EXCEPT ![b] = Back(@)]]

\* Enable: nothing when bound, a restore when bound once, a new user when the
\* address is free; a taken address is passed over.
Enable(e, m, s) ==
  LET B == {i \in DOMAIN s.binding : s.binding[i].entity = e}
  IN CASE B \cap LiveOf(s.binding) # {} -> s
       [] B # {} /\ B \cap LiveOf(s.binding) = {} -> On(e, m, s)
       [] B = {} /\ (\E u \in LiveOf(s.user) : s.user[u].email = m) -> s
       [] OTHER -> [user |-> Append(s.user, NewUser(m)),
                    binding |-> Append(s.binding,
                      NewBinding(Len(s.user) + 1, TenantOf[e], e))]

\* A changed login address reaches the live user of the live binding.
Synced(e, m, s) ==
  LET B == {i \in LiveOf(s.binding) : s.binding[i].entity = e}
  IN IF B = {} \/ s.user[s.binding[Newest(B)].user].gone # 0 THEN s
     ELSE [s EXCEPT !.user[s.binding[Newest(B)].user].email = m]

\* The transaction for one row: the entity, then the cascades in their order.
Imported(a) ==
  /\ req[a].pc = "import"
  /\ LET r == req[a]
         e == r.e
         will == r.b = 1
         was == r.y \in {2, 3}
         gone == r.x = 1
         wasGone == r.y \in {1, 3}
         s0 == [user |-> user, binding |-> binding]
         s1 == IF will /\ ~gone THEN Synced(e, r.m, s0) ELSE s0
         s2 == IF ~wasGone /\ gone /\ was THEN Off(e, s1) ELSE s1
         s3 == IF wasGone /\ ~gone /\ was THEN On(e, None, s2) ELSE s2
         s4 == IF ~gone /\ was /\ ~will THEN Off(e, s3) ELSE s3
         s5 == IF ~gone /\ ~was /\ will THEN Enable(e, r.m, s4) ELSE s4
     IN /\ Commit(a, s5.user, s5.binding, Idle)
        /\ entity' = IF Unique(s5.user, s5.binding)
                     THEN [entity EXCEPT ![e] =
                             [row |-> IF gone THEN "archived" ELSE "live", app |-> will]]
                     ELSE entity
  /\ clock' = clock + 1
  /\ UNCHANGED <<tenant, ops, moved, took>>

-----------------------------------------------------------------------------
\* The request dies: an error, a lost connection, a crash of the server.
Die(a) ==
  /\ req[a] # Idle
  /\ Done(a)
  /\ UNCHANGED <<tenant, entity, user, binding, clock, ops, moved, took>>

\* The users and tenants a request has to do with, in the state it is in.
UsersOf(r) ==
  ({binding[i].user : i \in {j \in DOMAIN binding :
       \/ r.e # None /\ binding[j].entity = r.e
       \/ r.t # None /\ binding[j].tenant = r.t}}
   \cup {r.u, IF r.m = None THEN 0 ELSE Owner(r.m)}) \ {0}
TenantsOf(r) ==
  {t \in Tenants : \/ r.t = t
                   \/ r.e # None /\ t = TenantOf[r.e]
                   \/ r.u # 0 /\ \E i \in BoundTo(r.u) : binding[i].tenant = t}
Scope(r) == UsersOf(r) \cup TenantsOf(r)

\* Two requests share users, and tenants when one is about the tenant itself.
Shared(r, s) ==
  (UsersOf(r) \cap UsersOf(s))
  \cup (IF {r.op, s.op} \cap {"close", "open"} = {} THEN {}
        ELSE TenantsOf(r) \cap TenantsOf(s))

\* What crosses in a step of a: what its request shares with another, before
\* or after the step, and the users and tenants in S.
Cross(a, S) ==
  crossed' = crossed \cup S
    \cup UNION {Shared(req[a], req[c]) \cup Shared(req[a], req[c])' : c \in Actors \ {a}}

Entity(a) ==
  \/ \E e \in Entities, m \in Emails :
       \/ Create(a, e, TRUE, m) \/ Create(a, e, FALSE, m)
       \/ \E app \in BOOLEAN : Update(a, e, app, m)
       \/ Swap(a, e, m) \/ ChangeEmail(a, e, m)
  \/ \E e \in Entities : Archive(a, e) \/ Restore(a, e)
  \/ Save(a) \/ Look(a) \/ Match(a) \/ Fit(a) \/ Grant(a) \/ Find(a) \/ Shut(a) \/ Shutting(a)
  \/ Mark(a) \/ Reread(a) \/ Revive(a) \/ Swapped(a) \/ Sync(a)

PortalUser(a) ==
  \/ \E t \in Tenants, m \in Emails : Register(a, t, m)
  \/ \E u \in DOMAIN user :
       ArchiveUser(a, u) \/ RestoreUser(a, u)
  \/ Registered(a) \/ Ban(a) \/ Unseat(a) \/ Unban(a) \/ Reseat(a)

Tenant(a) ==
  \/ \E t \in Tenants : ArchiveTenant(a, t) \/ RestoreTenant(a, t)
  \/ Evict(a) \/ Reopen(a)

Sheet(a) ==
  \/ \E e \in Entities, row \in {"live", "archived"}, app \in BOOLEAN, m \in Emails :
       Import(a, e, row, app, m)
  \/ Imported(a)

\* The model starts from rows that were only ever created: a user comes with a
\* binding, and the binding of an entity is in the entity's tenant.
ASSUME StartAssumption ==
  \A s \in Start :
    /\ s.entity \in [Entities -> EntityRow]
    /\ s.user \in Seq([email : Emails, gone : {0}])
    /\ s.binding \in Seq([user : DOMAIN s.user, tenant : Tenants,
                          entity : Entities \cup {None}, gone : {0}])
    /\ \A i \in DOMAIN s.binding :
          s.binding[i].entity # None => s.binding[i].tenant = TenantOf[s.binding[i].entity]
    /\ \A u \in DOMAIN s.user : \E i \in DOMAIN s.binding : s.binding[i].user = u
    /\ Unique(s.user, s.binding)

Init ==
  /\ \E s \in Start : /\ entity = s.entity /\ user = s.user /\ binding = s.binding
  /\ tenant = [t \in Tenants |-> TRUE]
  /\ clock = 1
  /\ req = [a \in Actors |-> Idle]
  /\ ops = 0
  /\ crossed = {}
  /\ moved = {}
  /\ took = [t \in Tenants |-> {}]

\* A step archives a login: a live binding, or a live user.
Shuts == \/ \E i \in LiveOf(binding) : binding'[i].gone # 0
         \/ \E u \in LiveOf(user) : user'[u].gone # 0

Next == \E a \in Actors :
  \/ (Entity(a) \/ PortalUser(a) \/ Tenant(a)) /\ Cross(a, {})
  \/ Sheet(a) /\ Cross(a, IF Shuts THEN Scope(req[a]) ELSE {})
  \/ Die(a) /\ Cross(a, Scope(req[a]))

Spec == Init /\ [][Next]_vars

-----------------------------------------------------------------------------
(* Properties.                                                             *)

\* Every row is of its type, a binding is of a user there is, and no write
\* gets past the unique indexes.
TypeOK ==
  /\ tenant \in [Tenants -> BOOLEAN]
  /\ entity \in [Entities -> EntityRow]
  /\ user \in Seq(UserRow)
  /\ binding \in Seq(BindingRow)
  /\ \A i \in DOMAIN binding : binding[i].user \in DOMAIN user
  /\ Unique(user, binding)

\* Users whom requests under way have to do with, and those whom nothing is
\* promised: two requests crossed on them or on a tenant of theirs.
Busy == UNION {UsersOf(req[a]) : a \in Actors}
Excused(u) == u \in crossed \/ \E i \in BoundTo(u) : binding[i].tenant \in crossed

\* A user bound to a live tenant can enter: what other tenants archived never
\* keeps out a user whom a live tenant still has.
DoorsOpen ==
  \A i \in LiveOf(binding) :
    LET u == binding[i].user
    IN tenant[binding[i].tenant] /\ u \notin Busy /\ ~Excused(u) => MayEnter(u)

\* A live user has somewhere to enter, unless a swap gave its access away.
NoStrayUsers ==
  \A u \in LiveOf(user) \ (Busy \cup moved) : ~Excused(u) => MayEnter(u)

\* Archiving a tenant and restoring it gives back exactly the bindings that
\* the archive took, and their users, when nothing crossed the tenant.
TenantRoundTrip ==
  [][\A t \in Tenants :
       ~tenant[t] /\ tenant'[t] /\ took[t] # {} /\ t \notin crossed' =>
         /\ {i \in DOMAIN binding' : binding'[i].tenant = t /\ binding'[i].gone = 0} = took[t]
         /\ \A i \in took[t] : user'[binding[i].user].gone = 0]_vars

\* The bindings of an archived tenant can be restored: their indexes do not
\* refuse the cohort.
CohortFits ==
  \A t \in Tenants : ~tenant[t] /\ t \notin crossed
                     /\ (\A a \in Actors : t \notin TenantsOf(req[a])) =>
    Unique(<<>>, ClearBindings(Cohort(InTenant(t))))

=============================================================================
