--------------------------- MODULE PermissionCache ---------------------------
(***************************************************************************)
(* The permission canon in one tenant: roles and policies in PostgreSQL,   *)
(* the resolved canon in Redis (services/permissionLoader.js), its hash in *)
(* the access token (authController.js), the lookup of every request       *)
(* (middleware/authRedis.js), and the invalidation after a change          *)
(* (services/permCacheInvalidator.js).                                     *)
(*                                                                         *)
(* Every action is one statement or Redis command of a handler; any other  *)
(* request may run in between.  A canon is its capabilities: scope, state  *)
(* filters and field groups are resolved from the same roles in the same   *)
(* way.  A hash is the canon it was computed from.                         *)
(*                                                                         *)
(* An entity names its roles by code, and the record of a role can be      *)
(* given another code.  A failed read of either is taken for no roles.     *)
(*                                                                         *)
(* Time passes in ticks.  roleAge, codeAge and grantAge are history: the   *)
(* ticks since a user last had a role, a role last bore its code and a     *)
(* role last had a right, counted up to Horizon.                           *)
(***************************************************************************)
EXTENDS Naturals

CONSTANTS
    Users, Roles, Rights, NoUser,
    Procs,          \* concurrent requests
    TTL,            \* ticks a cached canon lives
    TokenLife,      \* ticks an access token is valid
    MaxFlight,      \* bound: ticks a request takes
    MaxEdits,       \* bound: changes of roles and policies
    MaxFaults       \* bound: reads that fail and are taken for no roles

Horizon == TTL + 2 * MaxFlight

ASSUME CacheConstants ==
    /\ NoUser \notin Users
    /\ TTL \in Nat \ {0} /\ TokenLife \in Nat \ {0}
    /\ MaxFlight \in Nat /\ MaxEdits \in Nat /\ MaxFaults \in Nat

VARIABLES
    roles,          \* entity.roles of each user: codes
    coded,          \* the roles whose record bears the code entities name
    grants,         \* policies: the rights of each role
    cache,          \* perm:{userId}:{tenantCode}; left = 0: no key
    token,          \* the access token of each user; left = 0: none or expired
    req,            \* the request each process is executing
    edits,          \* changes so far
    faults,         \* reads taken for no roles so far
    roleAge, codeAge, grantAge

stored == <<roles, coded, grants, edits, roleAge, codeAge, grantAge>>
vars == <<stored, faults, cache, token, req>>

Canon(R) == UNION {grants[r] : r \in R}
Rightful(u) == Canon(roles[u] \cap coded)

Idle == [pc |-> "idle", op |-> "none", user |-> NoUser, roles |-> {}, caps |-> {}, age |-> 0]

ReqRecord ==
    [pc : {"idle", "get", "roles", "lookup", "policies", "prime", "issue",
           "serve", "scan", "del", "clear", "invalidate"},
     op : {"none", "access", "signin", "logout", "change"},
     user : Users \cup {NoUser}, roles : SUBSET Roles, caps : SUBSET Rights,
     age : 0..MaxFlight]

ReqOK(r) == r.pc \in {"idle", "invalidate"} \/ r.user \in Users

Lived(life) == [caps : SUBSET Rights, left : 0..life]

TypeOK ==
    /\ roles \in [Users -> SUBSET Roles] /\ coded \subseteq Roles
    /\ grants \in [Roles -> SUBSET Rights]
    /\ cache \in [Users -> Lived(TTL)] /\ token \in [Users -> Lived(TokenLife)]
    /\ req \in [Procs -> ReqRecord] /\ \A p \in Procs : ReqOK(req[p])
    /\ edits \in 0..MaxEdits /\ faults \in 0..MaxFaults
    /\ roleAge \in [Users -> [Roles -> 0..Horizon]] /\ codeAge \in [Roles -> 0..Horizon]
    /\ grantAge \in [Roles -> [Rights -> 0..Horizon]]

AgeOf(held) == IF held THEN 0 ELSE Horizon
None == [caps |-> {}, left |-> 0]

Init ==
    /\ roles \in [Users -> SUBSET Roles] /\ coded = Roles
    /\ grants \in [Roles -> SUBSET Rights]
    /\ cache = [u \in Users |-> None] /\ token = [u \in Users |-> None]
    /\ req = [p \in Procs |-> Idle]
    /\ edits = 0 /\ faults = 0
    /\ roleAge = [u \in Users |-> [r \in Roles |-> AgeOf(r \in roles[u])]]
    /\ codeAge = [r \in Roles |-> 0]
    /\ grantAge = [r \in Roles |-> [g \in Rights |-> AgeOf(g \in grants[r])]]

-----------------------------------------------------------------------------

Begin(p, pc, op, u) ==
    /\ req[p].pc = "idle"
    /\ req' = [req EXCEPT ![p] = [Idle EXCEPT !.pc = pc, !.op = op, !.user = u]]
    /\ UNCHANGED <<stored, faults, cache, token>>

At(p, pc) == req[p].pc = pc
Goto(p, pc) == req' = [req EXCEPT ![p].pc = pc]
End(p) == req' = [req EXCEPT ![p] = Idle]

-----------------------------------------------------------------------------
(* loadPermissions and primePermCache.                                     *)

\* A sign-in with an empty canon is refused.
Loaded(p, caps) ==
    IF caps = {} /\ req[p].op = "signin"
    THEN End(p)
    ELSE req' = [req EXCEPT ![p].pc = "prime", ![p].roles = {}, ![p].caps = caps]

\* No roles: no more is read.
Found(p, pc, R) ==
    IF R = {} THEN Loaded(p, {}) ELSE req' = [req EXCEPT ![p].pc = pc, ![p].roles = R]

\* A loader that would answer from the cache when it can.
LoadMemoised(p) ==
    LET c == cache[req[p].user] IN
    /\ At(p, "roles")
    /\ IF c.left > 0 THEN Loaded(p, c.caps) ELSE Found(p, "lookup", roles[req[p].user])
    /\ UNCHANGED <<stored, faults, cache, token>>

LoadEntity(p) ==
    /\ At(p, "roles")
    /\ Found(p, "lookup", roles[req[p].user])
    /\ UNCHANGED <<stored, faults, cache, token>>

LoadRoles(p) ==
    /\ At(p, "lookup")
    /\ Found(p, "policies", req[p].roles \cap coded)
    /\ UNCHANGED <<stored, faults, cache, token>>

\* Either read fails, and the canon is empty.
ReadFails(p) ==
    /\ At(p, "roles") \/ At(p, "lookup")
    /\ faults < MaxFaults /\ faults' = faults + 1
    /\ Loaded(p, {})
    /\ UNCHANGED <<stored, cache, token>>

LoadPolicies(p) ==
    /\ At(p, "policies")
    /\ Loaded(p, Canon(req[p].roles))
    /\ UNCHANGED <<stored, faults, cache, token>>

FreshInMillis(caps) == [caps |-> caps, left |-> 1000 * TTL]
Fresh(caps) == [caps |-> caps, left |-> TTL]

\* SET with EX; a Redis error is swallowed.
Prime(p) ==
    /\ At(p, "prime")
    /\ \/ cache' = [cache EXCEPT ![req[p].user] = Fresh(req[p].caps)]
       \/ UNCHANGED cache
    /\ Goto(p, IF req[p].op = "signin" THEN "issue" ELSE "serve")
    /\ UNCHANGED <<stored, faults, token>>

-----------------------------------------------------------------------------
(* An authenticated request.                                               *)

Access(p, u) == token[u].left > 0 /\ Begin(p, "get", "access", u)

\* Sliding expiry: a hit gives the key its full life again.
CacheHitSliding(p) ==
    LET c == cache[req[p].user] IN
    /\ At(p, "get") /\ c.left > 0
    /\ req' = [req EXCEPT ![p].pc = "serve", ![p].caps = c.caps]
    /\ cache' = [cache EXCEPT ![req[p].user].left = TTL]
    /\ UNCHANGED <<stored, faults, token>>

CacheHit(p) ==
    LET c == cache[req[p].user] IN
    /\ At(p, "get") /\ c.left > 0
    /\ req' = [req EXCEPT ![p].pc = "serve", ![p].caps = c.caps]
    /\ UNCHANGED <<stored, faults, cache, token>>

\* No key, or Redis cannot be reached.
CacheMiss(p) == At(p, "get") /\ Goto(p, "roles") /\ UNCHANGED <<stored, faults, cache, token>>

\* rbac decides on req[p].caps, and the handler runs.
Serve(p) == At(p, "serve") /\ End(p) /\ UNCHANGED <<stored, faults, cache, token>>

-----------------------------------------------------------------------------
(* Login and refresh load the canon, never the cache; logout flushes it.   *)

SignIn(p, u) == Begin(p, "roles", "signin", u)

Issue(p) ==
    /\ At(p, "issue")
    /\ token' = [token EXCEPT ![req[p].user] = [caps |-> req[p].caps, left |-> TokenLife]]
    /\ End(p)
    /\ UNCHANGED <<stored, faults, cache>>

\* Without a valid access token nothing is flushed.
Logout(p, u) == Begin(p, IF token[u].left > 0 THEN "scan" ELSE "clear", "logout", u)

\* Redis errors are swallowed here, too.
ScanKeys(p) ==
    /\ At(p, "scan")
    /\ \/ cache[req[p].user].left > 0 /\ Goto(p, "del")
       \/ Goto(p, "clear")
    /\ UNCHANGED <<stored, faults, cache, token>>

DeleteKeys(p) ==
    /\ At(p, "del")
    /\ cache' = [cache EXCEPT ![req[p].user] = None] \/ UNCHANGED cache
    /\ Goto(p, "clear")
    /\ UNCHANGED <<stored, faults, token>>

ClearCookies(p) ==
    /\ At(p, "clear")
    /\ token' = [token EXCEPT ![req[p].user] = None]
    /\ End(p)
    /\ UNCHANGED <<stored, faults, cache>>

-----------------------------------------------------------------------------
(* Changes of roles and policies.                                          *)

\* What is held, borne or granted has age 0.
Edited(p, R, C, G) ==
    /\ At(p, "idle") /\ edits < MaxEdits
    /\ roles' = R /\ coded' = C /\ grants' = G /\ edits' = edits + 1
    /\ roleAge' = [u \in Users |-> [r \in Roles |-> IF r \in R[u] THEN 0 ELSE roleAge[u][r]]]
    /\ codeAge' = [r \in Roles |-> IF r \in C THEN 0 ELSE codeAge[r]]
    /\ grantAge' = [r \in Roles |-> [g \in Rights |-> IF g \in G[r] THEN 0 ELSE grantAge[r][g]]]
    /\ req' = [req EXCEPT ![p] = [Idle EXCEPT !.pc = "invalidate", !.op = "change"]]
    /\ UNCHANGED <<faults, cache, token>>

\* PUT /policies/sync-for-role: one transaction.
SyncForRole(p, r, rights) == Edited(p, roles, coded, [grants EXCEPT ![r] = rights])

\* PUT /roles with another code, or with the code entities name again.
Recode(p, r) ==
    Edited(p, roles, IF r \in coded THEN coded \ {r} ELSE coded \cup {r}, grants)

\* PUT /employees with roles: at least one.
AssignRoles(p, u, R) == R # {} /\ Edited(p, [roles EXCEPT ![u] = R], coded, grants)

\* invalidateByRole, invalidateByEntity: the lookup of the portal users names
\* columns admin.portal_users does not have; it fails, and that is logged.
Invalidate(p) == At(p, "invalidate") /\ End(p) /\ UNCHANGED <<stored, faults, cache, token>>

-----------------------------------------------------------------------------

\* The request fails, or the server stops.
Cut(p) == req[p].pc # "idle" /\ End(p) /\ UNCHANGED <<stored, faults, cache, token>>

Older(n) == IF n < Horizon THEN n + 1 ELSE n
Shorter(c) == IF c.left > 1 THEN [c EXCEPT !.left = @ - 1] ELSE None

Tick ==
    /\ \A p \in Procs : req[p].pc # "idle" => req[p].age < MaxFlight
    /\ req' = [p \in Procs |-> IF req[p].pc = "idle" THEN req[p] ELSE [req[p] EXCEPT !.age = @ + 1]]
    /\ cache' = [u \in Users |-> Shorter(cache[u])]
    /\ token' = [u \in Users |-> Shorter(token[u])]
    /\ roleAge' = [u \in Users |-> [r \in Roles |->
           IF r \in roles[u] THEN 0 ELSE Older(roleAge[u][r])]]
    /\ codeAge' = [r \in Roles |-> IF r \in coded THEN 0 ELSE Older(codeAge[r])]
    /\ grantAge' = [r \in Roles |-> [g \in Rights |->
           IF g \in grants[r] THEN 0 ELSE Older(grantAge[r][g])]]
    /\ UNCHANGED <<roles, coded, grants, edits, faults>>

Progress(p) ==
    \/ LoadEntity(p) \/ LoadRoles(p) \/ LoadPolicies(p) \/ Prime(p)
    \/ CacheHit(p) \/ CacheMiss(p) \/ Serve(p)
    \/ Issue(p) \/ ScanKeys(p) \/ DeleteKeys(p) \/ ClearCookies(p)
    \/ Invalidate(p)

Request(p) ==
    \/ \E u \in Users : Access(p, u) \/ SignIn(p, u) \/ Logout(p, u)
    \/ \E r \in Roles, G \in SUBSET Rights : SyncForRole(p, r, G)
    \/ \E r \in Roles : Recode(p, r)
    \/ \E u \in Users, R \in SUBSET Roles : AssignRoles(p, u, R)

Next == Tick \/ \E p \in Procs : Request(p) \/ Progress(p) \/ ReadFails(p) \/ Cut(p)

Spec == Init /\ [][Next]_vars

\* Time passes, and a request that has begun goes on or is cut.
FairSpec ==
    /\ Spec /\ WF_vars(Tick)
    /\ \A p \in Procs : WF_vars(Progress(p) \/ ReadFails(p) \/ Cut(p))

-----------------------------------------------------------------------------
(* Properties.                                                             *)

\* Within the last n ticks user u had a role, the role bore its code and it had
\* right g: the three are read by three statements, perhaps never true together.
Backed(u, g, n) ==
    \E r \in Roles : roleAge[u][r] <= n /\ codeAge[r] <= n /\ grantAge[r][g] <= n

\* A right taken away stops working: no request is decided on a right whose
\* role, code or policy was gone longer than a key lives (ADR-0007: "15-minute
\* TTL bounds staleness") and two requests take, the one that primed the key and
\* the one that read it.
RevokedRightsLapse ==
    \A p \in Procs : At(p, "serve") =>
        \A g \in req[p].caps : Backed(req[p].user, g, TTL - 1 + 2 * MaxFlight)

\* Login and refresh issue a token for rights that held while they ran, however
\* stale the cache is (authController.refresh: a user whose authorization has
\* been revoked must not be allowed to rotate), and never for none.
SignInsAreFresh ==
    \A p \in Procs : At(p, "issue") =>
        /\ req[p].caps # {}
        /\ \A g \in req[p].caps : Backed(req[p].user, g, req[p].age)

\* When roles and policies stop changing and reads stop failing, what is cached
\* and what tokens were hashed from come to agree with them for good, whatever
\* requests keep running and though nothing invalidates a key.  A key primed
\* from a failed read is out of date like any other.
Agrees(u) ==
    /\ cache[u].left > 0 => cache[u].caps = Rightful(u)
    /\ token[u].left > 0 => token[u].caps = Rightful(u)
CacheSettles == <>[](\A u \in Users : Agrees(u))

=============================================================================
