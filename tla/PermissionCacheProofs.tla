------------------------ MODULE PermissionCacheProofs ------------------------
(***************************************************************************)
(* Theorems about PermissionCache, for all users, roles, rights, requests  *)
(* and lengths of time.                                                    *)
(***************************************************************************)
EXTENDS PermissionCache, Integers, TLAPS

LEMMA Numbers ==
    /\ TTL \in Nat /\ TTL >= 1 /\ TokenLife \in Nat /\ TokenLife >= 1
    /\ MaxFlight \in Nat /\ MaxEdits \in Nat /\ MaxFaults \in Nat
    /\ Horizon \in Nat /\ Horizon = TTL + 2 * MaxFlight
  BY CacheConstants DEF Horizon

-----------------------------------------------------------------------------
(* Type correctness.                                                       *)

LEMMA NoneTyped == None \in Lived(TTL) /\ None \in Lived(TokenLife)
  BY Numbers DEF None, Lived

LEMMA IdleTyped == Idle \in ReqRecord /\ ReqOK(Idle)
  BY Numbers DEF Idle, ReqRecord, ReqOK

LEMMA InitTyped == Init => TypeOK
  <1> SUFFICES ASSUME Init PROVE TypeOK
    OBVIOUS
  <1>1. cache \in [Users -> Lived(TTL)] /\ token \in [Users -> Lived(TokenLife)]
    BY NoneTyped DEF Init
  <1>2. req \in [Procs -> ReqRecord] /\ \A p \in Procs : ReqOK(req[p])
    BY IdleTyped DEF Init
  <1>3. /\ roleAge \in [Users -> [Roles -> 0..Horizon]] /\ codeAge \in [Roles -> 0..Horizon]
        /\ grantAge \in [Roles -> [Rights -> 0..Horizon]]
    BY Numbers DEF Init, AgeOf
  <1>4. QED
    BY <1>1, <1>2, <1>3, Numbers DEF Init, TypeOK

(* A step that writes one request record, and cache or token besides.      *)
LEMMA ReqTyped ==
    ASSUME TypeOK, NEW p \in Procs, NEW r \in ReqRecord, ReqOK(r),
           req' = [req EXCEPT ![p] = r], UNCHANGED stored, faults' \in 0..MaxFaults,
           cache' \in [Users -> Lived(TTL)], token' \in [Users -> Lived(TokenLife)]
    PROVE  TypeOK'
  BY DEF TypeOK, stored

LEMMA BegunTyped ==
    ASSUME TypeOK, NEW p \in Procs, NEW u \in Users,
           NEW pc \in {"get", "roles", "scan", "clear"},
           NEW op \in {"access", "signin", "logout"}, Begin(p, pc, op, u)
    PROVE  TypeOK'
  <1>1. PICK r : r = [Idle EXCEPT !.pc = pc, !.op = op, !.user = u]
    OBVIOUS
  <1>2. r = [pc |-> pc, op |-> op, user |-> u, roles |-> {}, caps |-> {}, age |-> 0]
    BY <1>1 DEF Idle
  <1>3. pc \in {"idle", "get", "roles", "lookup", "policies", "prime", "issue",
                "serve", "scan", "del", "clear", "invalidate"}
    OBVIOUS
  <1>4. op \in {"none", "access", "signin", "logout", "change"} /\ 0 \in 0..MaxFlight
    BY Numbers
  <1>5. r \in ReqRecord /\ ReqOK(r)
    BY <1>2, <1>3, <1>4 DEF ReqRecord, ReqOK
  <1>6. QED
    BY <1>1, <1>5, ReqTyped DEF Begin, TypeOK

LEMMA StateTyped ==
    ASSUME TypeOK, NEW p \in Procs, req[p].pc \notin {"idle", "invalidate"}
    PROVE  /\ req[p].user \in Users /\ req[p] \in ReqRecord
           /\ req[p].roles \subseteq Roles /\ req[p].caps \subseteq Rights
           /\ req[p].age \in Nat /\ req[p].age <= MaxFlight
           /\ cache[req[p].user] \in Lived(TTL) /\ cache[req[p].user].left \in 0..TTL
           /\ Canon(req[p].roles) \subseteq Rights
           /\ faults \in 0..MaxFaults
  <1>1. req[p].user \in Users /\ req[p] \in ReqRecord
    BY DEF TypeOK, ReqOK
  <1>2. /\ req[p].roles \subseteq Roles /\ req[p].caps \subseteq Rights
        /\ req[p].age \in Nat /\ req[p].age <= MaxFlight
    BY <1>1, Numbers DEF ReqRecord
  <1>3. QED
    BY <1>1, <1>2 DEF TypeOK, Lived, Canon

LEMMA EndTyped ==
    ASSUME TypeOK, NEW p \in Procs, End(p), UNCHANGED stored, faults' \in 0..MaxFaults,
           cache' \in [Users -> Lived(TTL)], token' \in [Users -> Lived(TokenLife)]
    PROVE  TypeOK'
  BY IdleTyped, ReqTyped DEF End

(* Where a request goes from a place, with some roles and rights.          *)
Places == {"roles", "lookup", "policies", "prime", "issue", "serve", "del", "clear"}
Moved(p, pc, R, C) == req' = [req EXCEPT ![p] = [req[p] EXCEPT !.pc = pc, !.roles = R, !.caps = C]]

LEMMA MovedTyped ==
    ASSUME TypeOK, NEW p \in Procs, req[p].pc \notin {"idle", "invalidate"},
           NEW pc \in Places, NEW R \in SUBSET Roles, NEW C \in SUBSET Rights,
           Moved(p, pc, R, C), UNCHANGED stored, faults' \in 0..MaxFaults,
           cache' \in [Users -> Lived(TTL)], token' \in [Users -> Lived(TokenLife)]
    PROVE  TypeOK'
  <1>1. PICK r : r = [req[p] EXCEPT !.pc = pc, !.roles = R, !.caps = C]
    OBVIOUS
  <1>2. r \in ReqRecord /\ ReqOK(r)
    BY <1>1, StateTyped DEF ReqRecord, ReqOK, Places
  <1>3. QED
    BY <1>1, <1>2, ReqTyped DEF Moved

(* Where the steps that do not end a request take it.                      *)
LEMMA LoadedMoves ==
    ASSUME TypeOK, NEW p \in Procs, NEW C, Loaded(p, C)
    PROVE  \/ End(p)
           \/ Moved(p, "prime", {}, C) /\ (req[p].op = "signin" => C # {})
  <1>1. CASE C = {} /\ req[p].op = "signin"
    BY <1>1 DEF Loaded
  <1>2. CASE ~(C = {} /\ req[p].op = "signin")
    <2>1. Moved(p, "prime", {}, C)
      BY <1>2 DEF Loaded, TypeOK, ReqRecord, Moved
    <2>2. QED
      BY <1>2, <2>1
  <1>3. QED
    BY <1>1, <1>2

LEMMA FoundMoves ==
    ASSUME TypeOK, NEW p \in Procs, NEW pc, NEW R, Found(p, pc, R)
    PROVE  \/ R = {} /\ Loaded(p, {})
           \/ R # {} /\ Moved(p, pc, R, req[p].caps)
  <1>1. CASE R = {}
    BY <1>1 DEF Found
  <1>2. CASE R # {}
    BY <1>2 DEF Found, TypeOK, ReqRecord, Moved
  <1>3. QED
    BY <1>1, <1>2

LEMMA Moves ==
    ASSUME TypeOK, NEW p \in Procs
    PROVE  /\ Prime(p) => \/ Moved(p, "issue", req[p].roles, req[p].caps) /\ req[p].op = "signin"
                         \/ Moved(p, "serve", req[p].roles, req[p].caps)
           /\ CacheHit(p) => Moved(p, "serve", req[p].roles, cache[req[p].user].caps)
           /\ CacheMiss(p) => Moved(p, "roles", req[p].roles, req[p].caps)
           /\ ScanKeys(p) => \/ Moved(p, "del", req[p].roles, req[p].caps)
                            \/ Moved(p, "clear", req[p].roles, req[p].caps)
           /\ DeleteKeys(p) => Moved(p, "clear", req[p].roles, req[p].caps)
  BY DEF TypeOK, ReqRecord, Prime, CacheHit, CacheMiss, ScanKeys, DeleteKeys, Goto, Moved

LEMMA LoadedTyped ==
    ASSUME TypeOK, NEW p \in Procs, req[p].pc \in {"roles", "lookup", "policies"},
           NEW C \in SUBSET Rights, Loaded(p, C), UNCHANGED <<stored, cache, token>>,
           faults' \in 0..MaxFaults
    PROVE  TypeOK'
  <1>1. /\ cache' \in [Users -> Lived(TTL)] /\ token' \in [Users -> Lived(TokenLife)]
        /\ UNCHANGED stored /\ req[p].pc \notin {"idle", "invalidate"}
    BY DEF TypeOK
  <1>2. CASE End(p)
    BY <1>1, <1>2, EndTyped
  <1>3. CASE Moved(p, "prime", {}, C)
    BY <1>1, <1>3, MovedTyped DEF Places
  <1>4. QED
    BY <1>2, <1>3, LoadedMoves

LEMMA FoundTyped ==
    ASSUME TypeOK, NEW p \in Procs, req[p].pc \in {"roles", "lookup"},
           NEW pc \in {"lookup", "policies"}, NEW R \in SUBSET Roles, Found(p, pc, R),
           UNCHANGED <<stored, faults, cache, token>>
    PROVE  TypeOK'
  <1>1. /\ cache' \in [Users -> Lived(TTL)] /\ token' \in [Users -> Lived(TokenLife)]
        /\ UNCHANGED stored /\ faults' \in 0..MaxFaults
        /\ req[p].pc \notin {"idle", "invalidate"} /\ {} \in SUBSET Rights
    BY DEF TypeOK
  <1>2. CASE Loaded(p, {})
    BY <1>1, <1>2, LoadedTyped
  <1>3. CASE Moved(p, pc, R, req[p].caps)
    <2>1. req[p].caps \in SUBSET Rights
      BY <1>1, StateTyped
    <2>2. QED
      BY <1>1, <1>3, <2>1, MovedTyped DEF Places
  <1>4. QED
    BY <1>2, <1>3, FoundMoves

LEMMA ProgressTyped ==
    ASSUME TypeOK, NEW p \in Procs, Progress(p) \/ ReadFails(p) \/ Cut(p)
    PROVE  TypeOK'
  <1> USE Moves, MovedTyped, EndTyped, StateTyped DEF Places, At
  <1>0. /\ cache \in [Users -> Lived(TTL)] /\ token \in [Users -> Lived(TokenLife)]
        /\ faults \in 0..MaxFaults
    BY DEF TypeOK
  <1>1. CASE LoadEntity(p) \/ LoadRoles(p)
    <2>1. CASE LoadEntity(p)
      <3>1. /\ roles[req[p].user] \in SUBSET Roles /\ req[p].pc = "roles"
            /\ Found(p, "lookup", roles[req[p].user])
            /\ UNCHANGED <<stored, faults, cache, token>>
        BY <2>1 DEF LoadEntity, TypeOK
      <3>2. QED
        BY ONLY TypeOK, p \in Procs, <3>1, FoundTyped
    <2>2. CASE LoadRoles(p)
      <3>1. /\ req[p].roles \cap coded \in SUBSET Roles /\ req[p].pc = "lookup"
            /\ Found(p, "policies", req[p].roles \cap coded)
            /\ UNCHANGED <<stored, faults, cache, token>>
        BY <2>2 DEF LoadRoles, TypeOK
      <3>2. QED
        BY ONLY TypeOK, p \in Procs, <3>1, FoundTyped
    <2>3. QED
      BY <1>1, <2>1, <2>2
  <1>2. CASE LoadPolicies(p) \/ ReadFails(p)
    <2>1. PICK C \in SUBSET Rights :
              /\ Loaded(p, C) /\ req[p].pc \in {"roles", "lookup", "policies"}
              /\ UNCHANGED <<stored, cache, token>>
      BY <1>2 DEF LoadPolicies, ReadFails
    <2>2. faults' \in 0..MaxFaults
      BY <1>2, Numbers DEF LoadPolicies, ReadFails, TypeOK
    <2>3. QED
      BY <2>1, <2>2, LoadedTyped
  <1>3. CASE Prime(p)
    <2>1. Fresh(req[p].caps) \in Lived(TTL)
      BY <1>3, Numbers DEF Prime, Fresh, Lived
    <2>2. cache' \in [Users -> Lived(TTL)]
      BY <1>0, <1>3, <2>1 DEF Prime
    <2>3. QED
      BY <1>0, <1>3, <2>2 DEF Prime
  <1>4. CASE CacheHit(p)
    <2>1. cache[req[p].user].caps \in SUBSET Rights
      BY <1>4 DEF CacheHit, Lived
    <2>2. Moved(p, "serve", req[p].roles, cache[req[p].user].caps)
      BY <1>4
    <2>3. QED
      BY <1>0, <1>4, <2>1, <2>2 DEF CacheHit
  <1>5. CASE CacheMiss(p)
    BY <1>0, <1>5 DEF CacheMiss
  <1>6. CASE Serve(p)
    BY <1>0, <1>6 DEF Serve
  <1>7. CASE Issue(p)
    <2>1. [caps |-> req[p].caps, left |-> TokenLife] \in Lived(TokenLife)
      BY <1>7, Numbers DEF Issue, Lived
    <2>2. token' \in [Users -> Lived(TokenLife)]
      BY <1>0, <1>7, <2>1 DEF Issue
    <2>3. QED
      BY <1>0, <1>7, <2>2 DEF Issue
  <1>8. CASE ScanKeys(p)
    BY <1>0, <1>8 DEF ScanKeys
  <1>9. CASE DeleteKeys(p)
    <2>1. cache' \in [Users -> Lived(TTL)]
      BY <1>0, <1>9, NoneTyped DEF DeleteKeys
    <2>2. Moved(p, "clear", req[p].roles, req[p].caps)
      BY <1>9
    <2>3. QED
      BY <1>0, <1>9, <2>1, <2>2 DEF DeleteKeys
  <1>10. CASE ClearCookies(p)
    <2>1. token' \in [Users -> Lived(TokenLife)]
      BY <1>0, <1>10, NoneTyped DEF ClearCookies
    <2>2. QED
      BY <1>0, <1>10, <2>1 DEF ClearCookies
  <1>11. CASE Invalidate(p)
    BY <1>0, <1>11 DEF Invalidate
  <1>12. CASE Cut(p)
    BY <1>0, <1>12 DEF Cut
  <1>13. QED
    BY <1>1, <1>2, <1>3, <1>4, <1>5, <1>6, <1>7, <1>8, <1>9, <1>10, <1>11, <1>12 DEF Progress

LEMMA EditTyped ==
    ASSUME TypeOK, NEW p \in Procs, NEW R \in [Users -> SUBSET Roles],
           NEW C \in SUBSET Roles,
           NEW G \in [Roles -> SUBSET Rights], Edited(p, R, C, G)
    PROVE  TypeOK'
  <1>1. PICK r : r = [Idle EXCEPT !.pc = "invalidate", !.op = "change"]
    OBVIOUS
  <1>2. r \in ReqRecord /\ ReqOK(r)
    <2>1. r = [pc |-> "invalidate", op |-> "change", user |-> NoUser,
               roles |-> {}, caps |-> {}, age |-> 0]
      BY <1>1 DEF Idle
    <2>2. 0 \in 0..MaxFlight
      BY Numbers
    <2>3. QED
      BY <2>1, <2>2 DEF ReqRecord, ReqOK
  <1>3. req' \in [Procs -> ReqRecord] /\ \A q \in Procs : ReqOK(req'[q])
    BY <1>1, <1>2 DEF Edited, TypeOK
  <1>4. /\ roleAge' \in [Users -> [Roles -> 0..Horizon]] /\ codeAge' \in [Roles -> 0..Horizon]
        /\ grantAge' \in [Roles -> [Rights -> 0..Horizon]]
    BY Numbers DEF Edited, TypeOK
  <1>5. edits' \in 0..MaxEdits /\ faults' \in 0..MaxFaults
    BY Numbers DEF Edited, TypeOK
  <1>6. QED
    BY <1>3, <1>4, <1>5 DEF Edited, TypeOK

LEMMA ChangeTyped ==
    ASSUME TypeOK, NEW p \in Procs,
           \/ \E r \in Roles, G \in SUBSET Rights : SyncForRole(p, r, G)
           \/ \E r \in Roles : Recode(p, r)
           \/ \E u \in Users, R \in SUBSET Roles : AssignRoles(p, u, R)
    PROVE  \E R \in [Users -> SUBSET Roles], C \in SUBSET Roles,
              G \in [Roles -> SUBSET Rights] : Edited(p, R, C, G)
  <1>1. roles \in [Users -> SUBSET Roles] /\ coded \in SUBSET Roles /\ grants \in [Roles -> SUBSET Rights]
    BY DEF TypeOK
  <1>2. ASSUME NEW r \in Roles, NEW G \in SUBSET Rights PROVE [grants EXCEPT ![r] = G] \in [Roles -> SUBSET Rights]
    BY <1>1
  <1>3. ASSUME NEW u \in Users, NEW R \in SUBSET Roles PROVE [roles EXCEPT ![u] = R] \in [Users -> SUBSET Roles]
    BY <1>1
  <1>4. ASSUME NEW r \in Roles
        PROVE  (IF r \in coded THEN coded \ {r} ELSE coded \cup {r}) \in SUBSET Roles
    BY <1>1
  <1>5. QED
    BY <1>1, <1>2, <1>3, <1>4 DEF SyncForRole, Recode, AssignRoles

LEMMA LivesShorten ==
    ASSUME NEW life \in Nat, NEW c \in Lived(life)
    PROVE  /\ Shorter(c) \in Lived(life)
           /\ Shorter(c).left > 0 => Shorter(c).caps = c.caps /\ Shorter(c).left = c.left - 1
  <1>1. c.left \in 0..life /\ c.caps \subseteq Rights
    BY DEF Lived
  <1>2. CASE c.left > 1
    BY <1>1, <1>2 DEF Shorter, Lived
  <1>3. CASE ~(c.left > 1)
    BY <1>1, <1>3 DEF Shorter, Lived, None
  <1>4. QED
    BY <1>2, <1>3

LEMMA AgesGrow == \A n \in 0..Horizon : Older(n) \in 0..Horizon /\ Older(n) <= n + 1
  BY Numbers DEF Older

LEMMA TickTyped == ASSUME TypeOK, Tick PROVE TypeOK'
  <1>1. cache' \in [Users -> Lived(TTL)] /\ token' \in [Users -> Lived(TokenLife)]
    BY LivesShorten, Numbers DEF Tick, TypeOK
  <1>2. /\ roleAge' \in [Users -> [Roles -> 0..Horizon]] /\ codeAge' \in [Roles -> 0..Horizon]
        /\ grantAge' \in [Roles -> [Rights -> 0..Horizon]]
    BY AgesGrow, Numbers DEF Tick, TypeOK
  <1>3. ASSUME NEW p \in Procs PROVE req'[p] \in ReqRecord /\ ReqOK(req'[p])
    <2>1. req[p] \in ReqRecord /\ ReqOK(req[p])
      BY DEF TypeOK
    <2>2. CASE req[p].pc = "idle"
      BY <2>1, <2>2 DEF Tick
    <2>3. CASE req[p].pc # "idle"
      <3>1. req[p].age \in 0..MaxFlight /\ req[p].age < MaxFlight
        BY <2>1, <2>3 DEF Tick, ReqRecord
      <3>2. req[p].age + 1 \in 0..MaxFlight
        BY <3>1, Numbers
      <3>3. req'[p] = [req[p] EXCEPT !.age = req[p].age + 1]
        BY <2>3 DEF Tick
      <3>4. QED
        BY <2>1, <3>2, <3>3 DEF ReqRecord, ReqOK
    <2>4. QED
      BY <2>2, <2>3
  <1>4. req' \in [Procs -> ReqRecord]
    BY <1>3 DEF Tick
  <1>5. QED
    BY <1>1, <1>2, <1>3, <1>4 DEF Tick, TypeOK

LEMMA StepTyped == TypeOK /\ [Next]_vars => TypeOK'
  <1> SUFFICES ASSUME TypeOK, [Next]_vars PROVE TypeOK'
    OBVIOUS
  <1>1. CASE Tick
    BY <1>1, TickTyped
  <1>2. ASSUME NEW p \in Procs, Request(p) PROVE TypeOK'
    <2>1. ASSUME NEW u \in Users, Access(p, u) \/ SignIn(p, u) \/ Logout(p, u) PROVE TypeOK'
      BY <2>1, BegunTyped DEF Access, SignIn, Logout
    <2>2. QED
      BY <1>2, <2>1, ChangeTyped, EditTyped DEF Request
  <1>3. ASSUME NEW p \in Procs, Progress(p) \/ ReadFails(p) \/ Cut(p) PROVE TypeOK'
    BY <1>3, ProgressTyped
  <1>4. CASE UNCHANGED vars
    BY <1>4 DEF vars, stored, TypeOK
  <1>5. QED
    BY <1>1, <1>2, <1>3, <1>4 DEF Next

(* TypeOK: every reachable state of roles, cache, tokens and requests is   *)
(* well typed; no key or token outlives its life.                          *)
THEOREM TypeCorrect == Spec => []TypeOK
  BY InitTyped, StepTyped, PTL DEF Spec

-----------------------------------------------------------------------------
(* The inductive invariant.  RevokedRightsLapse is about the requests that *)
(* are about to be decided; it takes what the keys hold, and what requests *)
(* on their way to a key have read.                                        *)

Current ==
    /\ \A u \in Users : \A x \in roles[u] : roleAge[u][x] = 0
    /\ \A x \in coded : codeAge[x] = 0
    /\ \A x \in Roles : \A g \in grants[x] : grantAge[x][g] = 0

\* A key that has been alive for TTL - left ticks was loaded MaxFlight ticks
\* before that at most.
KeyBacked(u) ==
    cache[u].left > 0 =>
        \A g \in cache[u].caps : Backed(u, g, TTL - cache[u].left + MaxFlight)

Knows(r) ==
    /\ r.pc \in {"lookup", "policies"} => \A x \in r.roles : roleAge[r.user][x] <= r.age
    /\ r.pc = "policies" => \A x \in r.roles : codeAge[x] <= r.age
    /\ r.pc \in {"prime", "issue"} => \A g \in r.caps : Backed(r.user, g, r.age)
    /\ r.pc \in {"prime", "issue"} /\ r.op = "signin" => r.caps # {}
    /\ r.pc = "issue" => r.op = "signin"
    /\ r.pc = "serve" => \A g \in r.caps : Backed(r.user, g, TTL - 1 + MaxFlight + r.age)

IInv ==
    /\ TypeOK /\ Current
    /\ \A u \in Users : KeyBacked(u)
    /\ \A p \in Procs : Knows(req[p])

(* A right stays backed when no age grows, and for one tick more when each *)
(* grows by at most one.                                                   *)
AgesBy(d) ==
    /\ \A u \in Users, r \in Roles : roleAge'[u][r] <= roleAge[u][r] + d
    /\ \A r \in Roles : codeAge'[r] <= codeAge[r] + d
    /\ \A r \in Roles, g \in Rights : grantAge'[r][g] <= grantAge[r][g] + d

LEMMA BackedOn ==
    ASSUME TypeOK, TypeOK', NEW d \in Nat, AgesBy(d)
    PROVE  \A u \in Users, g \in Rights, m, n \in Int :
               Backed(u, g, m) /\ n >= m + d =>
                   \E r \in Roles : roleAge'[u][r] <= n /\ codeAge'[r] <= n /\ grantAge'[r][g] <= n
  <1> SUFFICES ASSUME NEW u \in Users, NEW g \in Rights, NEW m \in Int, NEW n \in Int,
                      Backed(u, g, m), n >= m + d
               PROVE  \E r \in Roles :
                          roleAge'[u][r] <= n /\ codeAge'[r] <= n /\ grantAge'[r][g] <= n
    OBVIOUS
  <1>1. PICK r \in Roles : roleAge[u][r] <= m /\ codeAge[r] <= m /\ grantAge[r][g] <= m
    BY DEF Backed
  <1>2. /\ roleAge[u][r] \in Nat /\ codeAge[r] \in Nat /\ grantAge[r][g] \in Nat
        /\ roleAge'[u][r] \in Nat /\ codeAge'[r] \in Nat /\ grantAge'[r][g] \in Nat
    BY Numbers DEF TypeOK
  <1>3. /\ roleAge'[u][r] <= roleAge[u][r] + d /\ codeAge'[r] <= codeAge[r] + d
        /\ grantAge'[r][g] <= grantAge[r][g] + d
    BY DEF AgesBy
  <1>4. roleAge'[u][r] <= n /\ codeAge'[r] <= n /\ grantAge'[r][g] <= n
    BY <1>1, <1>2, <1>3
  <1>5. QED
    BY <1>4

(* What each request and key knows survives a step of another request.     *)
LEMMA KeyKept ==
    ASSUME TypeOK, TypeOK', AgesBy(0), NEW u \in Users, KeyBacked(u), cache'[u] = cache[u]
    PROVE  KeyBacked(u)'
  <1>1. TTL - cache[u].left + MaxFlight \in Int /\ cache[u].caps \subseteq Rights
    BY Numbers DEF TypeOK, Lived
  <1>2. QED
    BY <1>1, BackedOn DEF KeyBacked, Backed

LEMMA KnowsKept ==
    ASSUME TypeOK, TypeOK', AgesBy(0), NEW r \in ReqRecord, ReqOK(r), Knows(r)
    PROVE  Knows(r)'
  <1>1. r.age \in Nat /\ r.caps \subseteq Rights /\ r.roles \subseteq Roles
    BY Numbers DEF ReqRecord
  <1>2. /\ r.age \in Int /\ TTL - 1 + MaxFlight + r.age \in Int
        /\ r.pc \notin {"idle", "invalidate"} => r.user \in Users
    BY <1>1, Numbers DEF ReqOK
  <1>3. r.pc \in {"lookup", "policies"} => \A x \in r.roles : roleAge'[r.user][x] <= r.age
    <2> SUFFICES ASSUME r.pc \in {"lookup", "policies"}, NEW x \in r.roles PROVE roleAge'[r.user][x] <= r.age
      OBVIOUS
    <2>1. /\ roleAge[r.user][x] <= r.age /\ roleAge'[r.user][x] <= roleAge[r.user][x] + 0
          /\ roleAge[r.user][x] \in Nat /\ roleAge'[r.user][x] \in Nat
      BY <1>1, <1>2, Numbers DEF Knows, AgesBy, TypeOK
    <2>2. QED
      BY <1>1, <2>1
  <1>4. r.pc \in {"prime", "issue"} =>
            \A g \in r.caps : \E x \in Roles :
                roleAge'[r.user][x] <= r.age /\ codeAge'[x] <= r.age /\ grantAge'[x][g] <= r.age
    BY <1>1, <1>2, BackedOn DEF Knows
  <1>5. r.pc = "serve" =>
            \A g \in r.caps : \E x \in Roles : /\ roleAge'[r.user][x] <= TTL - 1 + MaxFlight + r.age
                                             /\ codeAge'[x] <= TTL - 1 + MaxFlight + r.age
                                             /\ grantAge'[x][g] <= TTL - 1 + MaxFlight + r.age
    BY <1>1, <1>2, BackedOn DEF Knows
  <1>6. r.pc = "policies" => \A x \in r.roles : codeAge'[x] <= r.age
    <2> SUFFICES ASSUME r.pc = "policies", NEW x \in r.roles PROVE codeAge'[x] <= r.age
      OBVIOUS
    <2>1. /\ codeAge[x] <= r.age /\ codeAge'[x] <= codeAge[x] + 0
          /\ codeAge[x] \in Nat /\ codeAge'[x] \in Nat
      BY <1>1, Numbers DEF Knows, AgesBy, TypeOK
    <2>2. QED
      BY <1>1, <2>1
  <1>7. QED
    BY <1>3, <1>4, <1>5, <1>6 DEF Knows, Backed

LEMMA BackedMore ==
    ASSUME TypeOK, NEW u \in Users, NEW g \in Rights, NEW m \in Nat, NEW n \in Nat,
           Backed(u, g, m), m <= n
    PROVE  Backed(u, g, n)
  <1>1. PICK r \in Roles : roleAge[u][r] <= m /\ codeAge[r] <= m /\ grantAge[r][g] <= m
    BY DEF Backed
  <1>2. roleAge[u][r] \in Nat /\ codeAge[r] \in Nat /\ grantAge[r][g] \in Nat
    BY Numbers DEF TypeOK
  <1>3. QED
    BY <1>1, <1>2 DEF Backed

(* A step that changes one request, and of the keys at most some that come *)
(* out backed, keeps the invariant if what the request knows is so.        *)
LEMMA OneStep ==
    ASSUME IInv, TypeOK', UNCHANGED stored, NEW p \in Procs,
           NEW r \in ReqRecord, ReqOK(r), Knows(r), req' = [req EXCEPT ![p] = r],
           \A u \in Users : cache'[u] = cache[u] \/ KeyBacked(u)'
    PROVE  IInv'
  <1>1. AgesBy(0)
    BY Numbers DEF stored, AgesBy, IInv, TypeOK
  <1>2. Current'
    BY DEF stored, IInv, Current
  <1>3. ASSUME NEW u \in Users PROVE KeyBacked(u)'
    BY <1>1, KeyKept DEF IInv
  <1>4. ASSUME NEW q \in Procs PROVE Knows(req[q])'
    <2>1. PICK k : k = req'[q]
      OBVIOUS
    <2>2. k \in ReqRecord /\ ReqOK(k) /\ Knows(k)
      BY <2>1 DEF IInv, TypeOK
    <2>3. Knows(k)'
      BY <1>1, <2>2, KnowsKept DEF IInv
    <2>4. QED
      BY <2>1, <2>3 DEF Knows, Backed
  <1>5. QED
    BY <1>2, <1>3, <1>4 DEF IInv

LEMMA KnowsIdle == Knows(Idle)
  BY DEF Knows, Idle

LEMMA InitHolds == Init => IInv
  <1> SUFFICES ASSUME Init PROVE IInv
    OBVIOUS
  <1>1. TypeOK
    BY InitTyped
  <1>2. Current
    BY <1>1 DEF Init, Current, AgeOf, TypeOK
  <1>3. \A u \in Users : KeyBacked(u)
    BY DEF Init, KeyBacked, None
  <1>4. \A p \in Procs : Knows(req[p])
    BY KnowsIdle DEF Init
  <1>5. QED
    BY <1>1, <1>2, <1>3, <1>4 DEF IInv

LEMMA BeginHolds ==
    ASSUME IInv, TypeOK', NEW p \in Procs, NEW u \in Users,
           NEW pc \in {"get", "roles", "scan", "clear"}, NEW op, Begin(p, pc, op, u)
    PROVE  IInv'
  <1>1. PICK r : r = [Idle EXCEPT !.pc = pc, !.op = op, !.user = u]
    OBVIOUS
  <1>2. r.pc = pc
    BY <1>1 DEF Idle
  <1>3. Knows(r)
    BY <1>2 DEF Knows
  <1>4. req' = [req EXCEPT ![p] = r] /\ UNCHANGED <<stored, cache>>
    BY <1>1 DEF Begin
  <1>5. r \in ReqRecord /\ ReqOK(r)
    BY <1>4 DEF IInv, TypeOK
  <1>6. QED
    BY <1>3, <1>4, <1>5, OneStep

LEMMA EndHolds ==
    ASSUME IInv, TypeOK', NEW p \in Procs, End(p), UNCHANGED <<stored, cache>>
    PROVE  IInv'
  BY KnowsIdle, IdleTyped, OneStep DEF End

(* A request goes to pc with R and C, and knows what it must there.        *)
LEMMA MoveHolds ==
    ASSUME IInv, TypeOK', UNCHANGED stored, NEW p \in Procs,
           NEW pc \in Places, NEW R, NEW C, Moved(p, pc, R, C),
           pc \in {"lookup", "policies"} => \A x \in R : roleAge[req[p].user][x] <= req[p].age,
           pc = "policies" => \A x \in R : codeAge[x] <= req[p].age,
           pc \in {"prime", "issue"} => \A g \in C : Backed(req[p].user, g, req[p].age),
           pc \in {"prime", "issue"} /\ req[p].op = "signin" => C # {},
           pc = "issue" => req[p].op = "signin",
           pc = "serve" => \A g \in C : Backed(req[p].user, g, TTL - 1 + MaxFlight + req[p].age),
           \A u \in Users : cache'[u] = cache[u] \/ KeyBacked(u)'
    PROVE  IInv'
  <1>1. PICK r : r = [req[p] EXCEPT !.pc = pc, !.roles = R, !.caps = C]
    OBVIOUS
  <1>2. req' = [req EXCEPT ![p] = r]
    BY <1>1 DEF Moved
  <1>3. r \in ReqRecord /\ ReqOK(r)
    BY <1>2 DEF IInv, TypeOK
  <1>4. req[p] \in ReqRecord
    BY DEF IInv, TypeOK
  <1>5. r.pc = pc /\ r.op = req[p].op /\ r.user = req[p].user /\ r.roles = R /\ r.caps = C /\ r.age = req[p].age
    BY <1>1, <1>4 DEF ReqRecord
  <1>6. Knows(r)
    BY <1>5 DEF Knows
  <1>7. QED
    BY <1>2, <1>3, <1>6, OneStep

LEMMA LoadedHolds ==
    ASSUME IInv, TypeOK', UNCHANGED <<stored, cache>>, NEW p \in Procs,
           NEW C, Loaded(p, C), \A g \in C : Backed(req[p].user, g, req[p].age)
    PROVE  IInv'
  <1>1. CASE End(p)
    BY <1>1, EndHolds
  <1>2. CASE Moved(p, "prime", {}, C) /\ (req[p].op = "signin" => C # {})
    BY <1>2, MoveHolds DEF Places
  <1>3. QED
    BY <1>1, <1>2, LoadedMoves DEF IInv

LEMMA ProgressHolds ==
    ASSUME IInv, TypeOK', NEW p \in Procs, Progress(p) \/ ReadFails(p) \/ Cut(p)
    PROVE  IInv'
  <1>0. TypeOK /\ Knows(req[p])
    BY DEF IInv
  <1>1. CASE LoadEntity(p)
    <2>1. req[p].user \in Users /\ req[p].age \in Nat
      BY <1>0, <1>1, StateTyped DEF LoadEntity, At
    <2>2. \A x \in roles[req[p].user] : roleAge[req[p].user][x] <= req[p].age
      BY <2>1 DEF IInv, Current
    <2>3. CASE Loaded(p, {})
      BY <1>1, <2>3, LoadedHolds DEF LoadEntity
    <2>4. CASE Moved(p, "lookup", roles[req[p].user], req[p].caps)
      BY <1>1, <2>2, <2>4, MoveHolds DEF LoadEntity, Places
    <2>5. QED
      BY <1>0, <1>1, <2>3, <2>4, FoundMoves DEF LoadEntity
  <1>1a. CASE LoadRoles(p)
    <2>1. req[p].user \in Users /\ req[p].age \in Nat /\ req[p].pc = "lookup"
      BY <1>0, <1>1a, StateTyped DEF LoadRoles, At
    <2>2. \A x \in req[p].roles \cap coded :
              roleAge[req[p].user][x] <= req[p].age /\ codeAge[x] <= req[p].age
      BY <1>0, <2>1 DEF IInv, Current, Knows
    <2>3. CASE Loaded(p, {})
      BY <1>1a, <2>3, LoadedHolds DEF LoadRoles
    <2>4. CASE Moved(p, "policies", req[p].roles \cap coded, req[p].caps)
      BY <1>1a, <2>2, <2>4, MoveHolds DEF LoadRoles, Places
    <2>5. QED
      BY <1>0, <1>1a, <2>3, <2>4, FoundMoves DEF LoadRoles
  <1>1b. CASE ReadFails(p)
    BY <1>1b, LoadedHolds DEF ReadFails
  <1>2. CASE LoadPolicies(p)
    <2>0. /\ req[p].user \in Users /\ req[p].age \in Nat /\ req[p].roles \subseteq Roles
          /\ req[p].pc = "policies"
      BY <1>0, <1>2, StateTyped DEF LoadPolicies, At
    <2>1. ASSUME NEW g \in Canon(req[p].roles) PROVE Backed(req[p].user, g, req[p].age)
      <3>1. PICK x \in req[p].roles : g \in grants[x]
        BY DEF Canon
      <3>2. /\ grantAge[x][g] = 0 /\ roleAge[req[p].user][x] <= req[p].age
            /\ codeAge[x] <= req[p].age
        BY <1>0, <2>0, <3>1 DEF IInv, Current, Knows
      <3>3. QED
        BY <2>0, <3>2 DEF Backed
    <2>2. QED
      BY <1>2, <2>1, LoadedHolds DEF LoadPolicies
  <1>3. CASE Prime(p)
    <2>0. /\ req[p].user \in Users /\ req[p].age \in Nat /\ req[p].age <= MaxFlight
          /\ req[p].caps \subseteq Rights /\ req[p].pc = "prime"
      BY <1>0, <1>3, StateTyped DEF Prime, At
    <2>1. \A g \in req[p].caps : Backed(req[p].user, g, req[p].age)
      BY <1>0, <2>0 DEF Knows
    <2>2. \A g \in req[p].caps : Backed(req[p].user, g, TTL - 1 + MaxFlight + req[p].age)
      BY <1>0, <2>0, <2>1, BackedMore, Numbers
    <2>3. \A g \in req[p].caps : Backed(req[p].user, g, MaxFlight)
      BY <1>0, <2>0, <2>1, BackedMore, Numbers
    <2>4. ASSUME NEW u \in Users PROVE cache'[u] = cache[u] \/ KeyBacked(u)'
      <3>1. CASE cache' = [cache EXCEPT ![req[p].user] = Fresh(req[p].caps)] /\ u = req[p].user
        <4>1. cache'[u] = [caps |-> req[p].caps, left |-> TTL]
          BY <1>0, <3>1 DEF Fresh, TypeOK
        <4>2. cache'[u].caps = req[p].caps /\ TTL - cache'[u].left + MaxFlight = MaxFlight
          BY <4>1, Numbers
        <4>3. UNCHANGED <<roleAge, codeAge, grantAge>>
          BY <1>3 DEF Prime, stored
        <4>4. QED
          BY <2>3, <3>1, <4>2, <4>3 DEF KeyBacked, Backed
      <3>2. CASE ~(cache' = [cache EXCEPT ![req[p].user] = Fresh(req[p].caps)] /\ u = req[p].user)
        BY <1>0, <1>3, <3>2 DEF Prime, TypeOK
      <3>3. QED
        BY <3>1, <3>2
    <2>5. req[p].op = "signin" => req[p].caps # {}
      BY <1>0, <2>0 DEF Knows
    <2>6. CASE Moved(p, "issue", req[p].roles, req[p].caps) /\ req[p].op = "signin"
      BY <1>3, <2>1, <2>4, <2>5, <2>6, MoveHolds DEF Prime, Places
    <2>7. CASE Moved(p, "serve", req[p].roles, req[p].caps)
      BY <1>3, <2>2, <2>4, <2>7, MoveHolds DEF Prime, Places
    <2>8. QED
      BY <1>0, <1>3, <2>6, <2>7, Moves
  <1>4. CASE CacheHit(p)
    <2> DEFINE u == req[p].user
    <2>0. /\ u \in Users /\ req[p].age \in Nat /\ cache[u].left \in 0..TTL /\ cache[u].left > 0
          /\ cache[u].caps \subseteq Rights
      BY <1>0, <1>4, StateTyped DEF CacheHit, At, Lived
    <2>1. \A g \in cache[u].caps : Backed(u, g, TTL - cache[u].left + MaxFlight)
      BY <2>0 DEF IInv, KeyBacked
    <2>2. /\ TTL - cache[u].left + MaxFlight \in Nat /\ TTL - 1 + MaxFlight + req[p].age \in Nat
          /\ TTL - cache[u].left + MaxFlight <= TTL - 1 + MaxFlight + req[p].age
      BY <2>0, Numbers
    <2>3. \A g \in cache[u].caps : Backed(u, g, TTL - 1 + MaxFlight + req[p].age)
      BY <1>0, <2>0, <2>1, <2>2, BackedMore
    <2>4. Moved(p, "serve", req[p].roles, cache[u].caps)
      BY <1>0, <1>4, Moves
    <2>5. QED
      BY <1>4, <2>3, <2>4, MoveHolds DEF CacheHit, Places
  <1>5. CASE CacheMiss(p)
    <2>1. Moved(p, "roles", req[p].roles, req[p].caps)
      BY <1>0, <1>5, Moves
    <2>2. QED
      BY <1>5, <2>1, MoveHolds DEF CacheMiss, Places
  <1>6. CASE ScanKeys(p)
    <2>1. PICK pc \in {"del", "clear"} : Moved(p, pc, req[p].roles, req[p].caps)
      BY <1>0, <1>6, Moves
    <2>2. QED
      BY <1>6, <2>1, MoveHolds DEF ScanKeys, Places
  <1>7. CASE DeleteKeys(p)
    <2>1. Moved(p, "clear", req[p].roles, req[p].caps)
      BY <1>0, <1>7, Moves
    <2>2. ASSUME NEW u \in Users PROVE cache'[u] = cache[u] \/ KeyBacked(u)'
      BY <1>0, <1>7 DEF DeleteKeys, TypeOK, KeyBacked, None
    <2>3. QED
      BY <1>7, <2>1, <2>2, MoveHolds DEF DeleteKeys, Places
  <1>8. CASE Serve(p) \/ Issue(p) \/ ClearCookies(p) \/ Invalidate(p) \/ Cut(p)
    BY <1>8, EndHolds DEF Serve, Issue, ClearCookies, Invalidate, Cut
  <1>9. QED
    BY <1>1, <1>1a, <1>1b, <1>2, <1>3, <1>4, <1>5, <1>6, <1>7, <1>8 DEF Progress

LEMMA EditHolds ==
    ASSUME IInv, TypeOK', NEW p \in Procs, NEW R \in [Users -> SUBSET Roles],
           NEW C \in SUBSET Roles,
           NEW G \in [Roles -> SUBSET Rights], Edited(p, R, C, G)
    PROVE  IInv'
  <1>0. TypeOK
    BY DEF IInv
  <1>1. ASSUME NEW u \in Users, NEW r \in Roles
        PROVE  roleAge'[u][r] <= roleAge[u][r] + 0 /\ (r \in R[u] => roleAge'[u][r] = 0)
    BY <1>0, Numbers DEF Edited, TypeOK
  <1>2. ASSUME NEW r \in Roles, NEW g \in Rights
        PROVE  grantAge'[r][g] <= grantAge[r][g] + 0 /\ (g \in G[r] => grantAge'[r][g] = 0)
    BY <1>0, Numbers DEF Edited, TypeOK
  <1>2a. ASSUME NEW r \in Roles
         PROVE  codeAge'[r] <= codeAge[r] + 0 /\ (r \in C => codeAge'[r] = 0)
    BY <1>0, Numbers DEF Edited, TypeOK
  <1>3. AgesBy(0)
    BY <1>1, <1>2, <1>2a DEF AgesBy
  <1>4. Current'
    BY <1>1, <1>2, <1>2a DEF Edited, Current
  <1>5. ASSUME NEW u \in Users PROVE KeyBacked(u)'
    BY <1>0, <1>3, KeyKept DEF IInv, Edited
  <1>6. ASSUME NEW q \in Procs PROVE Knows(req[q])'
    <2>1. CASE q = p
      <3>1. req'[p].pc = "invalidate"
        BY <1>0 DEF Edited, TypeOK, Idle
      <3>2. QED
        BY <2>1, <3>1 DEF Knows
    <2>2. CASE q # p
      <3>1. PICK k : k = req[q]
        OBVIOUS
      <3>2. k \in ReqRecord /\ ReqOK(k) /\ Knows(k) /\ k = req'[q]
        BY <1>0, <2>2, <3>1 DEF IInv, TypeOK, Edited
      <3>3. Knows(k)'
        BY <1>0, <1>3, <3>2, KnowsKept
      <3>4. QED
        BY <3>2, <3>3 DEF Knows, Backed
    <2>3. QED
      BY <2>1, <2>2
  <1>7. QED
    BY <1>4, <1>5, <1>6 DEF IInv

(* A tick: every age grows by one at most, the key's included.             *)
LEMMA TickHolds == ASSUME IInv, TypeOK', Tick PROVE IInv'
  <1>0. TypeOK
    BY DEF IInv
  <1>1. ASSUME NEW u \in Users, NEW r \in Roles
        PROVE  roleAge'[u][r] <= roleAge[u][r] + 1 /\ (r \in roles[u] => roleAge'[u][r] = 0)
    BY <1>0, AgesGrow, Numbers DEF Tick, TypeOK
  <1>2. ASSUME NEW r \in Roles, NEW g \in Rights
        PROVE  grantAge'[r][g] <= grantAge[r][g] + 1 /\ (g \in grants[r] => grantAge'[r][g] = 0)
    BY <1>0, AgesGrow, Numbers DEF Tick, TypeOK
  <1>2a. ASSUME NEW r \in Roles
         PROVE  codeAge'[r] <= codeAge[r] + 1 /\ (r \in coded => codeAge'[r] = 0)
    BY <1>0, AgesGrow, Numbers DEF Tick, TypeOK
  <1>3. AgesBy(1)
    BY <1>1, <1>2, <1>2a DEF AgesBy
  <1>4. Current'
    BY <1>0, <1>1, <1>2, <1>2a DEF Tick, Current, TypeOK
  <1>5. ASSUME NEW u \in Users PROVE KeyBacked(u)'
    <2>1. cache[u] \in Lived(TTL) /\ cache'[u] = Shorter(cache[u])
      BY <1>0 DEF Tick, TypeOK
    <2>2. /\ cache[u].left \in 0..TTL /\ cache[u].caps \subseteq Rights
          /\ cache'[u].left > 0 => cache'[u].caps = cache[u].caps /\ cache'[u].left = cache[u].left - 1
      BY <2>1, LivesShorten, Numbers DEF Lived
    <2>3. CASE cache'[u].left > 0
      <3>1. /\ TTL - cache[u].left + MaxFlight \in Int
            /\ TTL - cache'[u].left + MaxFlight \in Int
            /\ TTL - cache'[u].left + MaxFlight >= TTL - cache[u].left + MaxFlight + 1
            /\ cache[u].left > 0
        BY <2>2, <2>3, Numbers
      <3>2. \A g \in cache[u].caps : Backed(u, g, TTL - cache[u].left + MaxFlight)
        BY <3>1 DEF IInv, KeyBacked
      <3>3. \A g \in cache[u].caps : \E r \in Roles :
                /\ roleAge'[u][r] <= TTL - cache'[u].left + MaxFlight
                /\ codeAge'[r] <= TTL - cache'[u].left + MaxFlight
                /\ grantAge'[r][g] <= TTL - cache'[u].left + MaxFlight
        BY <1>0, <1>3, <2>2, <3>1, <3>2, BackedOn
      <3>4. QED
        BY <2>2, <2>3, <3>3 DEF KeyBacked, Backed
    <2>4. CASE ~(cache'[u].left > 0)
      BY <2>4 DEF KeyBacked
    <2>5. QED
      BY <2>3, <2>4
  <1>6. ASSUME NEW p \in Procs PROVE Knows(req[p])'
    <2>1. CASE req[p].pc = "idle"
      <3>1. req'[p] = req[p]
        BY <1>0, <2>1 DEF Tick, TypeOK
      <3>2. QED
        BY <2>1, <3>1 DEF Knows
    <2>2. CASE req[p].pc # "idle"
      <3>1. req[p] \in ReqRecord /\ req'[p] = [req[p] EXCEPT !.age = req[p].age + 1]
        BY <1>0, <2>2 DEF Tick, TypeOK
      <3>2. /\ req'[p].pc = req[p].pc /\ req'[p].op = req[p].op /\ req'[p].user = req[p].user
            /\ req'[p].roles = req[p].roles /\ req'[p].caps = req[p].caps
            /\ req'[p].age = req[p].age + 1 /\ req[p].age \in Nat
        BY <3>1, Numbers DEF ReqRecord
      <3>3. /\ req[p].caps \subseteq Rights /\ req[p].roles \subseteq Roles
            /\ req[p].pc # "invalidate" => req[p].user \in Users
        BY <1>0, <2>2, <3>1 DEF ReqRecord, TypeOK, ReqOK
      <3>4. Knows(req[p])
        BY DEF IInv
      <3>5. req[p].pc \in {"lookup", "policies"} =>
                \A x \in req[p].roles : roleAge'[req[p].user][x] <= req[p].age + 1
        <4> SUFFICES ASSUME req[p].pc \in {"lookup", "policies"}, NEW x \in req[p].roles
                     PROVE  roleAge'[req[p].user][x] <= req[p].age + 1
          OBVIOUS
        <4>1. /\ roleAge[req[p].user][x] <= req[p].age
              /\ roleAge'[req[p].user][x] <= roleAge[req[p].user][x] + 1
              /\ roleAge[req[p].user][x] \in Nat /\ roleAge'[req[p].user][x] \in Nat
          BY <1>0, <1>1, <3>3, <3>4, Numbers DEF Knows, TypeOK
        <4>2. QED
          BY <3>2, <4>1
      <3>5a. req[p].pc = "policies" => \A x \in req[p].roles : codeAge'[x] <= req[p].age + 1
        <4> SUFFICES ASSUME req[p].pc = "policies", NEW x \in req[p].roles
                     PROVE  codeAge'[x] <= req[p].age + 1
          OBVIOUS
        <4>1. /\ codeAge[x] <= req[p].age /\ codeAge'[x] <= codeAge[x] + 1
              /\ codeAge[x] \in Nat /\ codeAge'[x] \in Nat
          BY <1>0, <1>2a, <3>3, <3>4, Numbers DEF Knows, TypeOK
        <4>2. QED
          BY <3>2, <4>1
      <3>6. req[p].pc \in {"prime", "issue"} => \A g \in req[p].caps : \E x \in Roles :
                /\ roleAge'[req[p].user][x] <= req[p].age + 1
                /\ codeAge'[x] <= req[p].age + 1 /\ grantAge'[x][g] <= req[p].age + 1
        BY <1>0, <1>3, <3>2, <3>3, <3>4, BackedOn DEF Knows
      <3>7. /\ TTL - 1 + MaxFlight + req[p].age \in Nat
            /\ TTL - 1 + MaxFlight + (req[p].age + 1) \in Nat
            /\ TTL - 1 + MaxFlight + (req[p].age + 1) >= (TTL - 1 + MaxFlight + req[p].age) + 1
        BY <3>2, Numbers
      <3>8. req[p].pc = "serve" => \A g \in req[p].caps : \E x \in Roles :
                /\ roleAge'[req[p].user][x] <= TTL - 1 + MaxFlight + (req[p].age + 1)
                /\ codeAge'[x] <= TTL - 1 + MaxFlight + (req[p].age + 1)
                /\ grantAge'[x][g] <= TTL - 1 + MaxFlight + (req[p].age + 1)
        BY <1>0, <1>3, <3>3, <3>4, <3>7, BackedOn DEF Knows
      <3>9. QED
        BY <3>2, <3>4, <3>5, <3>5a, <3>6, <3>8 DEF Knows, Backed
    <2>3. QED
      BY <2>1, <2>2
  <1>7. QED
    BY <1>4, <1>5, <1>6 DEF IInv

LEMMA StepHolds == IInv /\ [Next]_vars => IInv'
  <1> SUFFICES ASSUME IInv, [Next]_vars PROVE IInv'
    OBVIOUS
  <1>0. TypeOK'
    BY StepTyped DEF IInv
  <1>1. CASE Tick
    BY <1>0, <1>1, TickHolds
  <1>2. ASSUME NEW p \in Procs, Request(p) PROVE IInv'
    <2>1. ASSUME NEW u \in Users, Access(p, u) \/ SignIn(p, u) \/ Logout(p, u) PROVE IInv'
      BY <1>0, <2>1, BeginHolds DEF Access, SignIn, Logout
    <2>2. CASE \/ \E r \in Roles, G \in SUBSET Rights : SyncForRole(p, r, G)
               \/ \E r \in Roles : Recode(p, r)
               \/ \E u \in Users, R \in SUBSET Roles : AssignRoles(p, u, R)
      <3>1. \E R \in [Users -> SUBSET Roles], C \in SUBSET Roles,
               G \in [Roles -> SUBSET Rights] : Edited(p, R, C, G)
        BY <2>2, ChangeTyped DEF IInv
      <3>2. QED
        BY <1>0, <3>1, EditHolds
    <2>3. QED
      BY <1>2, <2>1, <2>2 DEF Request
  <1>3. ASSUME NEW p \in Procs, Progress(p) \/ ReadFails(p) \/ Cut(p) PROVE IInv'
    BY <1>0, <1>3, ProgressHolds
  <1>4. CASE UNCHANGED vars
    BY <1>4 DEF vars, stored, IInv, TypeOK, Current, KeyBacked, Knows, Backed, ReqOK, Lived
  <1>5. QED
    BY <1>1, <1>2, <1>3, <1>4 DEF Next

(* IInv: keys and requests hold rights no older than the time since the    *)
(* reads they come from.                                                   *)
THEOREM ReadsAreRecent == Spec => []IInv
  BY InitHolds, StepHolds, PTL DEF Spec

(* RevokedRightsLapse: a right taken away decides no request once a key's  *)
(* life and the time of two requests are over, invalidated or not.         *)
THEOREM RevocationsLapse == Spec => []RevokedRightsLapse
  <1>1. IInv => RevokedRightsLapse
    <2> SUFFICES ASSUME IInv, NEW p \in Procs, At(p, "serve"), NEW g \in req[p].caps
                 PROVE  Backed(req[p].user, g, TTL - 1 + 2 * MaxFlight)
      BY DEF RevokedRightsLapse
    <2>1. TypeOK /\ Knows(req[p]) /\ req[p].pc = "serve"
      BY DEF IInv, At
    <2>2. /\ req[p].user \in Users /\ g \in Rights
          /\ req[p].age \in Nat /\ req[p].age <= MaxFlight
      BY <2>1, StateTyped
    <2>3. Backed(req[p].user, g, TTL - 1 + MaxFlight + req[p].age)
      BY <2>1 DEF Knows
    <2>4. /\ TTL - 1 + MaxFlight + req[p].age \in Nat /\ TTL - 1 + 2 * MaxFlight \in Nat
          /\ TTL - 1 + MaxFlight + req[p].age <= TTL - 1 + 2 * MaxFlight
      BY <2>2, Numbers
    <2>5. QED
      BY <2>1, <2>2, <2>3, <2>4, BackedMore
  <1>2. QED
    BY <1>1, ReadsAreRecent, PTL

(* SignInsAreFresh: login and refresh issue no token for rights that were  *)
(* gone before they began.                                                 *)
THEOREM TokensAreFresh == Spec => []SignInsAreFresh
  <1>1. IInv => SignInsAreFresh
    BY DEF IInv, Knows, At, SignInsAreFresh
  <1>2. QED
    BY <1>1, ReadsAreRecent, PTL

-----------------------------------------------------------------------------
(* What CacheSettles rests on besides fairness.  What is out of date lapses *)
(* by a deadline: a key or a token when it expires, what a request carries  *)
(* a whole life after the request must be over, since it may still end up   *)
(* in a key or a token.                                                     *)

Life == IF TTL >= TokenLife THEN TTL ELSE TokenLife

Outdated(r) ==
    \/ r.pc = "lookup" /\ r.roles # roles[r.user]
    \/ r.pc = "policies" /\ r.roles # roles[r.user] \cap coded
    \/ r.pc \in {"prime", "issue"} /\ r.caps # Rightful(r.user)

\* All that is out of date lapses within n ticks.
Within(n) ==
    /\ \A u \in Users : /\ cache[u].left > n => cache[u].caps = Rightful(u)
                        /\ token[u].left > n => token[u].caps = Rightful(u)
    /\ \A p \in Procs : Outdated(req[p]) => MaxFlight - req[p].age + Life <= n

\* It never takes longer than a request and a life, and when no time is left all
\* agrees.
Bounded == Within(MaxFlight + Life) /\ (Within(0) => \A u \in Users : Agrees(u))

\* The deadline is kept by every step that changes no role and no policy and takes
\* no failed read for no roles, and each tick brings it nearer.
RunsOut ==
    UNCHANGED <<roles, coded, grants, faults>> =>
        \A n \in Nat : /\ Within(n) => Within(n)'
                       /\ Within(n + 1) /\ Tick => Within(n)'

LEMMA LifeIsLongest == Life \in Nat /\ Life >= 1 /\ TTL <= Life /\ TokenLife <= Life
  BY Numbers DEF Life

LEMMA OnlyThis ==
    ASSUME TypeOK, UNCHANGED <<roles, coded, grants>>, NEW n \in Nat, Within(n),
           NEW p \in Procs, NEW r, req' = [req EXCEPT ![p] = r],
           Outdated(r) => MaxFlight - r.age + Life <= n,
           \A u \in Users :
               /\ cache'[u] = cache[u] \/ (cache'[u].left > n => cache'[u].caps = Rightful(u))
               /\ token'[u] = token[u] \/ (token'[u].left > n => token'[u].caps = Rightful(u))
    PROVE  Within(n)'
  <1>1. \A u : Rightful(u)' = Rightful(u)
    BY DEF Rightful, Canon
  <1>2. \A u \in Users : /\ cache'[u].left > n => cache'[u].caps = Rightful(u)'
                         /\ token'[u].left > n => token'[u].caps = Rightful(u)'
    BY <1>1 DEF Within
  <1>3. ASSUME NEW q \in Procs, Outdated(req'[q])
        PROVE  MaxFlight - req'[q].age + Life <= n
    <2>1. req'[q] = IF q = p THEN r ELSE req[q]
      BY DEF TypeOK
    <2>2. QED
      BY <1>3, <2>1 DEF Within
  <1>4. \A q \in Procs : Outdated(req[q])' => Outdated(req'[q])
    BY <1>1 DEF Outdated
  <1>5. QED
    BY <1>1, <1>2, <1>3, <1>4 DEF Within

\* A request that begins or ends carries nothing.
LEMMA CarriesNothing ==
    ASSUME TypeOK, UNCHANGED <<roles, coded, grants>>, NEW n \in Nat, Within(n), NEW p \in Procs,
           NEW r, r.pc \notin {"lookup", "policies", "prime", "issue"}, req' = [req EXCEPT ![p] = r],
           \A u \in Users : /\ cache'[u] = cache[u] \/ cache'[u] = None
                            /\ token'[u] = token[u] \/ token'[u] = None
    PROVE  Within(n)'
  <1>1. ~Outdated(r)
    BY DEF Outdated
  <1>2. None.left <= n
    BY DEF None
  <1>3. \A u \in Users :
            /\ cache'[u] = cache[u] \/ (cache'[u].left > n => cache'[u].caps = Rightful(u))
            /\ token'[u] = token[u] \/ (token'[u].left > n => token'[u].caps = Rightful(u))
    BY <1>2 DEF None
  <1>4. QED
    BY <1>1, <1>3, OnlyThis

LEMMA RequestWithin ==
    ASSUME TypeOK, UNCHANGED <<roles, coded, grants>>, NEW n \in Nat, Within(n), NEW p \in Procs,
           Request(p)
    PROVE  Within(n)'
  <1>1. ASSUME NEW pc \in {"get", "roles", "scan", "clear"}, NEW op, NEW u, Begin(p, pc, op, u)
        PROVE  Within(n)'
    <2> DEFINE r == [Idle EXCEPT !.pc = pc, !.op = op, !.user = u]
    <2>1. r.pc = pc /\ req' = [req EXCEPT ![p] = r] /\ UNCHANGED <<cache, token>>
      BY <1>1 DEF Begin, Idle
    <2> HIDE DEF r
    <2>2. QED
      BY <2>1, CarriesNothing
  <1>2. ASSUME NEW R, NEW C, NEW G, Edited(p, R, C, G) PROVE Within(n)'
    <2> DEFINE r == [Idle EXCEPT !.pc = "invalidate", !.op = "change"]
    <2>1. r.pc = "invalidate" /\ req' = [req EXCEPT ![p] = r] /\ UNCHANGED <<cache, token>>
      BY <1>2 DEF Edited, Idle
    <2> HIDE DEF r
    <2>2. QED
      BY <2>1, CarriesNothing
  <1>3. QED
    BY <1>1, <1>2 DEF Request, Access, SignIn, Logout, SyncForRole, Recode, AssignRoles

\* A canon that agrees, or was out of date with what it was loaded from.
LEMMA LoadedWithin ==
    ASSUME TypeOK, UNCHANGED <<roles, coded, grants>>, NEW n \in Nat, Within(n),
           NEW p \in Procs, NEW C, Loaded(p, C), UNCHANGED <<cache, token>>,
           C # Rightful(req[p].user) => Outdated(req[p])
    PROVE  Within(n)'
  <1>1. CASE End(p)
    <2>1. Idle.pc = "idle" /\ req' = [req EXCEPT ![p] = Idle]
      BY <1>1 DEF End, Idle
    <2>2. QED
      BY <2>1, CarriesNothing
  <1>2. CASE Moved(p, "prime", {}, C)
    <2> DEFINE r == [req[p] EXCEPT !.pc = "prime", !.roles = {}, !.caps = C]
    <2>1. req' = [req EXCEPT ![p] = r]
      BY <1>2 DEF Moved
    <2>2. r.pc = "prime" /\ r.caps = C /\ r.user = req[p].user /\ r.age = req[p].age
      BY DEF TypeOK, ReqRecord
    <2>3. Outdated(r) => MaxFlight - r.age + Life <= n
      BY <2>2 DEF Outdated, Within
    <2> HIDE DEF r
    <2>4. QED
      BY <2>1, <2>3, OnlyThis
  <1>3. QED
    BY <1>1, <1>2, LoadedMoves

\* Roles that agree, or came from such as did not.
LEMMA FoundWithin ==
    ASSUME TypeOK, UNCHANGED <<roles, coded, grants>>, NEW n \in Nat, Within(n),
           NEW p \in Procs, NEW pc \in {"lookup", "policies"}, NEW R, Found(p, pc, R),
           UNCHANGED <<cache, token>>,
           pc = "lookup" /\ R # roles[req[p].user] => Outdated(req[p]),
           pc = "policies" /\ R # roles[req[p].user] \cap coded => Outdated(req[p])
    PROVE  Within(n)'
  <1>1. CASE R = {} /\ Loaded(p, {})
    <2>1. R = roles[req[p].user] \/ R = roles[req[p].user] \cap coded => {} = Rightful(req[p].user)
      BY <1>1 DEF Rightful, Canon
    <2>2. {} # Rightful(req[p].user) => Outdated(req[p])
      BY <2>1
    <2>3. QED
      BY <1>1, <2>2, LoadedWithin
  <1>2. CASE Moved(p, pc, R, req[p].caps)
    <2> DEFINE r == [req[p] EXCEPT !.pc = pc, !.roles = R, !.caps = req[p].caps]
    <2>1. req' = [req EXCEPT ![p] = r]
      BY <1>2 DEF Moved
    <2>2. r.pc = pc /\ r.roles = R /\ r.user = req[p].user /\ r.age = req[p].age
      BY DEF TypeOK, ReqRecord
    <2>3. Outdated(r) => MaxFlight - r.age + Life <= n
      BY <2>2 DEF Outdated, Within
    <2> HIDE DEF r
    <2>4. QED
      BY <2>1, <2>3, OnlyThis
  <1>3. QED
    BY <1>1, <1>2, FoundMoves

LEMMA ProgressWithin ==
    ASSUME TypeOK, UNCHANGED <<roles, coded, grants>>, NEW n \in Nat, Within(n), NEW p \in Procs,
           Progress(p) \/ Cut(p)
    PROVE  Within(n)'
  <1>1. ASSUME End(p), \A u \in Users : /\ cache'[u] = cache[u] \/ cache'[u] = None
                                        /\ token'[u] = token[u] \/ token'[u] = None
        PROVE  Within(n)'
    <2>1. Idle.pc = "idle" /\ req' = [req EXCEPT ![p] = Idle]
      BY <1>1 DEF End, Idle
    <2>2. QED
      BY <1>1, <2>1, CarriesNothing
  <1>2. ASSUME NEW pc \in {"serve", "roles", "del", "clear"}, NEW R, NEW C, Moved(p, pc, R, C),
               UNCHANGED token, \A u \in Users : cache'[u] = cache[u] \/ cache'[u] = None
        PROVE  Within(n)'
    <2> DEFINE r == [req[p] EXCEPT !.pc = pc, !.roles = R, !.caps = C]
    <2>1. r.pc = pc /\ req' = [req EXCEPT ![p] = r]
      BY <1>2 DEF Moved, TypeOK, ReqRecord
    <2> HIDE DEF r
    <2>2. QED
      BY <1>2, <2>1, CarriesNothing
  <1>3. CASE LoadEntity(p)
    BY <1>3, FoundWithin DEF LoadEntity
  <1>3a. CASE LoadRoles(p)
    <2>1. req[p].roles \cap coded # roles[req[p].user] \cap coded => Outdated(req[p])
      BY <1>3a DEF LoadRoles, At, Outdated
    <2>2. QED
      BY <1>3a, <2>1, FoundWithin DEF LoadRoles
  <1>4. CASE LoadPolicies(p)
    <2>1. Canon(req[p].roles) # Rightful(req[p].user) => Outdated(req[p])
      BY <1>4 DEF LoadPolicies, At, Outdated, Rightful
    <2>2. QED
      BY <1>4, <2>1, LoadedWithin DEF LoadPolicies
  <1>5. CASE Prime(p)
    <2>1. req[p].pc = "prime" /\ UNCHANGED token
      BY <1>5 DEF Prime, At
    <2>2. /\ MaxFlight - req[p].age \in Nat
          /\ Outdated(req[p]) => MaxFlight - req[p].age + Life <= n
      BY <2>1, StateTyped, Numbers DEF Within
    <2>3. TTL > n => req[p].caps = Rightful(req[p].user)
      BY <2>1, <2>2, LifeIsLongest, Numbers DEF Outdated
    <2>4. ASSUME NEW u \in Users
          PROVE  cache'[u] = cache[u] \/ (cache'[u].left > n => cache'[u].caps = Rightful(u))
      <3>1. CASE UNCHANGED cache
        BY <3>1
      <3>2. CASE cache' = [cache EXCEPT ![req[p].user] = Fresh(req[p].caps)]
        <4>1. cache'[u] = IF u = req[p].user THEN [caps |-> req[p].caps, left |-> TTL] ELSE cache[u]
          BY <3>2 DEF TypeOK, Fresh
        <4>2. QED
          BY <2>3, <4>1
      <3>3. QED
        BY <1>5, <3>1, <3>2 DEF Prime
    <2>5. ASSUME NEW pc \in {"issue", "serve"}, Moved(p, pc, req[p].roles, req[p].caps)
          PROVE  Within(n)'
      <3> DEFINE r == [req[p] EXCEPT !.pc = pc, !.roles = req[p].roles, !.caps = req[p].caps]
      <3>1. req' = [req EXCEPT ![p] = r]
        BY <2>5 DEF Moved
      <3>2. /\ r.pc \in {"issue", "serve"} /\ r.caps = req[p].caps
            /\ r.user = req[p].user /\ r.age = req[p].age
        BY DEF TypeOK, ReqRecord
      <3>3. Outdated(r) => MaxFlight - r.age + Life <= n
        BY <2>1, <2>2, <3>2 DEF Outdated
      <3> HIDE DEF r
      <3>4. QED
        BY <2>1, <2>4, <3>1, <3>3, OnlyThis
    <2>6. QED
      BY <1>5, <2>5, Moves
  <1>6. CASE CacheHit(p)
    <2>1. Moved(p, "serve", req[p].roles, cache[req[p].user].caps)
      BY <1>6, Moves
    <2>2. QED
      BY <1>2, <1>6, <2>1 DEF CacheHit
  <1>7. CASE CacheMiss(p)
    <2>1. Moved(p, "roles", req[p].roles, req[p].caps)
      BY <1>7, Moves
    <2>2. QED
      BY <1>2, <1>7, <2>1 DEF CacheMiss
  <1>8. CASE Serve(p) \/ Invalidate(p) \/ Cut(p)
    BY <1>1, <1>8 DEF Serve, Invalidate, Cut
  <1>9. CASE Issue(p)
    <2>1. req[p].pc = "issue" /\ End(p) /\ UNCHANGED cache
      BY <1>9 DEF Issue, At
    <2>2. /\ MaxFlight - req[p].age \in Nat
          /\ Outdated(req[p]) => MaxFlight - req[p].age + Life <= n
      BY <2>1, StateTyped, Numbers DEF Within
    <2>3. TokenLife > n => req[p].caps = Rightful(req[p].user)
      BY <2>1, <2>2, LifeIsLongest, Numbers DEF Outdated
    <2>4. \A u \in Users :
              token'[u] = token[u] \/ (token'[u].left > n => token'[u].caps = Rightful(u))
      BY <1>9, <2>3 DEF Issue, TypeOK
    <2>5. req' = [req EXCEPT ![p] = Idle] /\ ~Outdated(Idle)
      BY <2>1 DEF End, Outdated, Idle
    <2>6. QED
      BY <2>1, <2>4, <2>5, OnlyThis
  <1>10. CASE ScanKeys(p)
    <2>1. \/ Moved(p, "del", req[p].roles, req[p].caps)
          \/ Moved(p, "clear", req[p].roles, req[p].caps)
      BY <1>10, Moves
    <2>2. QED
      BY <1>2, <1>10, <2>1 DEF ScanKeys
  <1>11. CASE DeleteKeys(p)
    <2>1. Moved(p, "clear", req[p].roles, req[p].caps)
      BY <1>11, Moves
    <2>2. \A u \in Users : cache'[u] = cache[u] \/ cache'[u] = None
      BY <1>11 DEF DeleteKeys, TypeOK
    <2>3. QED
      BY <1>2, <1>11, <2>1, <2>2 DEF DeleteKeys
  <1>12. CASE ClearCookies(p)
    <2>1. \A u \in Users : token'[u] = token[u] \/ token'[u] = None
      BY <1>12 DEF ClearCookies, TypeOK
    <2>2. QED
      BY <1>1, <1>12, <2>1 DEF ClearCookies
  <1>13. QED
    BY <1>3, <1>3a, <1>4, <1>5, <1>6, <1>7, <1>8, <1>9, <1>10, <1>11, <1>12 DEF Progress

LEMMA TickWithin ==
    ASSUME TypeOK, Tick, NEW m \in Nat, NEW n \in Nat, m <= n + 1, Within(m)
    PROVE  Within(n)'
  <1>1. roles' = roles /\ coded' = coded /\ \A u : Rightful(u)' = Rightful(u)
    BY DEF Tick, Rightful, Canon
  <1>2. ASSUME NEW u \in Users
        PROVE  /\ cache'[u].left > n => cache'[u].caps = Rightful(u)
               /\ token'[u].left > n => token'[u].caps = Rightful(u)
    <2>1. /\ cache[u] \in Lived(TTL) /\ cache'[u] = Shorter(cache[u])
          /\ token[u] \in Lived(TokenLife) /\ token'[u] = Shorter(token[u])
      BY DEF Tick, TypeOK
    <2>2. /\ cache[u].left \in Nat /\ token[u].left \in Nat
          /\ Shorter(cache[u]).left \in Nat /\ Shorter(token[u]).left \in Nat
      BY <2>1, LivesShorten, Numbers DEF Lived
    <2>3. /\ Shorter(cache[u]).left > n =>
                 Shorter(cache[u]).caps = cache[u].caps /\ cache[u].left > m
          /\ Shorter(token[u]).left > n =>
                 Shorter(token[u]).caps = token[u].caps /\ token[u].left > m
      <3>1. \A x, y \in Nat : (x > 0 => x = y - 1) /\ x > n => x > 0 /\ y > m
        OBVIOUS
      <3>2. QED
        BY <2>1, <2>2, <3>1, LivesShorten, Numbers
    <2>4. QED
      BY <2>1, <2>3 DEF Within
  <1>3. ASSUME NEW p \in Procs, Outdated(req[p])'
        PROVE  MaxFlight - req'[p].age + Life <= n
    <2>1. req[p] \in ReqRecord
      BY DEF TypeOK
    <2>2. req'[p] = IF req[p].pc = "idle" THEN req[p] ELSE [req[p] EXCEPT !.age = @ + 1]
      BY DEF Tick
    <2>3. /\ req'[p].pc = req[p].pc /\ req'[p].roles = req[p].roles
          /\ req'[p].caps = req[p].caps /\ req'[p].user = req[p].user
      BY <2>1, <2>2 DEF ReqRecord
    <2>4. Outdated(req[p]) /\ req[p].pc # "idle"
      BY <1>1, <1>3, <2>3 DEF Outdated
    <2>5. req'[p].age = req[p].age + 1 /\ req[p].age \in Nat
      BY <2>1, <2>2, <2>4, Numbers DEF ReqRecord
    <2>6. MaxFlight - req[p].age + Life <= m
      BY <2>4 DEF Within
    <2>7. QED
      BY <2>5, <2>6, LifeIsLongest, Numbers
  <1>4. QED
    BY <1>1, <1>2, <1>3 DEF Within

LEMMA StepRunsOut == TypeOK /\ [Next]_vars => RunsOut
  <1> SUFFICES ASSUME TypeOK, [Next]_vars, UNCHANGED <<roles, coded, grants, faults>>, NEW n \in Nat
               PROVE  (Within(n) => Within(n)') /\ (Within(n + 1) /\ Tick => Within(n)')
    BY DEF RunsOut
  <1>1. Within(n + 1) /\ Tick => Within(n)'
    BY TickWithin
  <1>2. ASSUME Within(n) PROVE Within(n)'
    <2>1. CASE Tick
      BY <1>2, <2>1, TickWithin
    <2>2. CASE UNCHANGED vars
      BY <1>2, <2>2 DEF vars, stored, Within, Outdated, Rightful, Canon
    <2>3. ASSUME NEW p \in Procs PROVE ~ReadFails(p)
      BY Numbers DEF ReadFails, TypeOK
    <2>4. QED
      BY <1>2, <2>1, <2>2, <2>3, RequestWithin, ProgressWithin DEF Next
  <1>3. QED
    BY <1>1, <1>2

(* Once roles and policies stay as they are and no read fails unnoticed,    *)
(* what is out of date, a canon left empty by such a read too, is gone      *)
(* after the ticks of a request and a life, whatever requests keep running. *)
THEOREM StaleRunsOut == Spec => []Bounded /\ [][RunsOut]_vars
  <1>1. TypeOK => Bounded
    <2> SUFFICES ASSUME TypeOK PROVE Bounded
      OBVIOUS
    <2>1. \A u \in Users : /\ cache[u].left \in 0..TTL
                           /\ token[u].left \in 0..TokenLife
      BY DEF TypeOK, Lived
    <2>2. \A p \in Procs : req[p].age \in 0..MaxFlight
      BY DEF TypeOK, ReqRecord
    <2>3. Within(MaxFlight + Life)
      BY <2>1, <2>2, LifeIsLongest, Numbers DEF Within
    <2>4. Within(0) => \A u \in Users : Agrees(u)
      BY DEF Within, Agrees
    <2>5. QED
      BY <2>3, <2>4 DEF Bounded
  <1>2. TypeOK /\ [Next]_vars => [RunsOut]_vars
    BY StepRunsOut
  <1>3. QED
    BY <1>1, <1>2, TypeCorrect, PTL DEF Spec

=============================================================================
