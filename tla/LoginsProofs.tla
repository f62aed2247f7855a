---------------------------- MODULE LoginsProofs ----------------------------
(***************************************************************************)
(* Proofs about Logins, for any tenants, entities, addresses and requests  *)
(* at once.  Three invariants, each resting on the one before:             *)
(*   TInv   rows, requests and stamps are well formed, and rows archived   *)
(*          with one stamp can be live together;                           *)
(*   HInv   what every write leaves behind of the users and tenants that   *)
(*          no two requests crossed: a live user has a live binding and    *)
(*          the other way round, and only an archive under way leaves live *)
(*          bindings in an archived tenant;                                *)
(*   Taken  what an archive took from a tenant is its newest cohort.       *)
(***************************************************************************)
EXTENDS Logins, NaturalsInduction, WellFoundedInduction, TLAPS

Pcs == {"idle", "save", "look", "match", "fit", "grant", "mark", "find", "shut", "shutting", "reread",
        "revive", "swap", "sync", "register", "ban", "unseat", "unban", "reseat",
        "evict", "reopen", "import"}
Ops == {"none", "create", "update", "archive", "restore", "swap", "email", "register",
        "ban", "unban", "close", "open", "import"}

Request == [pc : Pcs, op : Ops, e : Entities \cup {None}, u : Nat, t : Tenants \cup {None},
            m : Emails \cup {None}, b : Nat, x : {0, 1}, y : Nat, at : Nat,
            todo : SUBSET (Nat \X (Entities \cup {None}))]

OfEntity == {"save", "look", "match", "fit", "grant", "mark", "find", "shut", "shutting", "reread",
             "revive", "swap", "sync", "import"}
OfTenant == {"register", "evict", "reopen"}

\* A request names rows there are...
Named(r, us) ==
  /\ r.pc = "idle" => r = Idle
  /\ r.pc \in OfEntity => r.e \in Entities
  /\ r.pc \notin OfEntity => r.e = None
  /\ r.pc \in OfTenant => r.t \in Tenants
  /\ r.pc \notin OfTenant => r.t = None
  /\ r.pc \in {"look", "match", "fit", "grant", "swap", "sync", "register"} => r.m \in Emails
  /\ r.pc = "save" /\ r.y = 1 => r.m \in Emails
  /\ r.pc = "import" /\ r.b = 1 => r.m \in Emails
  /\ r.u = 0 \/ r.u \in DOMAIN us
  /\ r.pc \in {"fit", "shut", "shutting", "sync", "ban", "unban"} => r.u # 0
  /\ r.pc \in {"unseat", "reseat"} => r.todo # {}
  /\ r.op \in {"close", "open"} <=> r.pc \in {"evict", "reopen"}

\* ... and the binding it read is still of the entity, the user and the tenant
\* it read it for.
Read(r, bs) ==
  /\ r.pc \in {"shut", "shutting", "swap"} => r.b \in DOMAIN bs /\ bs[r.b].entity = r.e
  /\ r.pc \in {"shut", "shutting"} => bs[r.b].user = r.u
  /\ r.pc \in {"match", "fit"} => r.b = 0 /\ r.y = 0
  /\ r.pc = "grant" =>
        /\ r.b # 0 => r.b \in DOMAIN bs /\ bs[r.b].entity = r.e
        /\ r.y # 0 => /\ r.u # 0 /\ r.y \in DOMAIN bs
                      /\ bs[r.y].user = r.u /\ bs[r.y].tenant = TenantOf[r.e]
  /\ \A l \in r.todo : l[1] \in DOMAIN bs
  /\ r.pc \in {"ban", "unban"} => \A l \in r.todo : bs[l[1]].user = r.u

RowsOK(us, bs) ==
  /\ us \in Seq(UserRow) /\ bs \in Seq(BindingRow)
  /\ \A i \in DOMAIN bs :
       /\ bs[i].user \in DOMAIN us
       /\ bs[i].entity # None => bs[i].tenant = TenantOf[bs[i].entity]

\* Time stamps are in the past, and those of the transactions under way are new.
Stamping == {"shutting", "evict"}
Past ==
  /\ clock \in Nat \ {0}
  /\ \A u \in DOMAIN user : user[u].gone < clock
  /\ \A i \in DOMAIN binding : binding[i].gone < clock
  /\ \A a \in Actors : req[a].pc \in Stamping =>
       /\ 0 < req[a].at /\ req[a].at < clock
       /\ \A i \in DOMAIN binding : binding[i].gone # req[a].at
       /\ \A c \in Actors \ {a} : req[c].pc \in Stamping => req[c].at # req[a].at

\* Rows of one time stamp were live together.
Apart(p, q) ==
  /\ <<p.user, p.tenant>> # <<q.user, q.tenant>>
  /\ p.entity # q.entity \/ p.entity = None
Together == \A i, j \in DOMAIN binding :
  i # j /\ binding[i].gone = binding[j].gone => Apart(binding[i], binding[j])

RowsInv ==
  /\ tenant \in [Tenants -> BOOLEAN] /\ entity \in [Entities -> EntityRow]
  /\ RowsOK(user, binding) /\ Unique(user, binding)
ReqInv ==
  req \in [Actors -> Request] /\ \A a \in Actors : Named(req[a], user) /\ Read(req[a], binding)
TInv == RowsInv /\ ReqInv /\ Past /\ Together

-----------------------------------------------------------------------------
(* The rows a query chooses.                                               *)

LEMMA LeastOf ==
    ASSUME NEW S, S \subseteq Nat, S # {} PROVE \E n \in S : \A m \in S : n <= m
  <1> DEFINE R == {xy \in Nat \X Nat : xy[1] < xy[2]}
  <1>1. IsWellFoundedOn(R, Nat)
    BY NatLessThanWellFounded DEF OpToRel
  <1> HIDE DEF R
  <1>2. PICK n \in S : \A m \in S : <<m, n>> \notin R
    BY <1>1, WFMin
  <1>3. ASSUME NEW m \in S PROVE n <= m
    <2>1. m \in Nat /\ n \in Nat
      OBVIOUS
    <2>2. ASSUME m < n PROVE <<m, n>> \in R
      BY <2>1, <2>2 DEF R
    <2>3. QED
      BY <1>2, <2>1, <2>2
  <1>4. QED
    BY <1>3

LEMMA GreatestOf ==
    ASSUME NEW k \in Nat, NEW S, S \subseteq Nat, \A m \in S : m <= k, S # {}
    PROVE  \E n \in S : \A m \in S : m <= n
  <1> DEFINE B == {n \in Nat : \A m \in S : m <= n}
  <1>1. PICK n \in B : \A m \in B : n <= m
    BY LeastOf, k \in B
  <1>2. ASSUME n \notin S PROVE FALSE
    <2>1. n \in Nat /\ (\A m \in S : m \in Nat /\ m <= n) /\ \E m \in S : TRUE
      BY <1>1
    <2>2. n - 1 \in Nat /\ \A m \in S : m <= n - 1
      BY <1>2, <2>1
    <2>3. n - 1 \in B
      BY <2>2
    <2>4. QED
      BY <1>1, <2>3
  <1>3. QED
    BY <1>1, <1>2

LEMMA RowIndex == ASSUME NEW R, NEW rs \in Seq(R) PROVE DOMAIN rs = 1..Len(rs) /\ Len(rs) \in Nat
  OBVIOUS

LEMMA RowIn == ASSUME NEW R, NEW rs \in Seq(R), NEW i \in DOMAIN rs PROVE rs[i] \in R
  OBVIOUS

LEMMA NewestIn ==
    ASSUME NEW R, NEW rs \in Seq(R), NEW S, S \subseteq DOMAIN rs, S # {}
    PROVE  Newest(S) \in S
  <1>1. S \subseteq Nat /\ Len(rs) \in Nat /\ \A j \in S : j <= Len(rs)
    BY RowIndex
  <1>2. \E i \in S : \A j \in S : j <= i
    BY <1>1, GreatestOf
  <1>3. QED
    BY <1>2 DEF Newest

LEMMA OldestIn ==
    ASSUME NEW R, NEW rs \in Seq(R), NEW S, S \subseteq DOMAIN rs, S # {}
    PROVE  Oldest(S) \in S
  <1>1. S \subseteq Nat
    BY RowIndex
  <1>2. \E i \in S : \A j \in S : i <= j
    BY <1>1, LeastOf
  <1>3. QED
    BY <1>2 DEF Oldest

LEMMA LiveFirstIn ==
    ASSUME NEW R, NEW rs \in Seq(R), NEW S, S \subseteq DOMAIN rs
    PROVE  LiveFirst(S, rs) = 0 \/ LiveFirst(S, rs) \in S
  BY NewestIn DEF LiveFirst

LEMMA ActiveIn ==
    ASSUME binding \in Seq(BindingRow), NEW e
    PROVE  ActiveBinding(e) = 0 \/ ActiveBinding(e) \in Bound(e) \cap LiveOf(binding)
  BY NewestIn DEF ActiveBinding, Bound

LEMMA AnyIn ==
    ASSUME binding \in Seq(BindingRow), NEW e
    PROVE  AnyBinding(e) = 0 \/ AnyBinding(e) \in Bound(e)
  BY LiveFirstIn DEF AnyBinding, Bound

LEMMA SameTenantIn ==
    ASSUME NEW bs \in Seq(BindingRow), NEW u, NEW t
    PROVE  LET i == SameTenant(u, t, bs) IN
           i = 0 \/ (i \in DOMAIN bs /\ bs[i].user = u /\ bs[i].tenant = t)
  <1> DEFINE S == {i \in DOMAIN bs : bs[i].user = u /\ bs[i].tenant = t}
  <1>1. LiveFirst(S, bs) = 0 \/ LiveFirst(S, bs) \in S
    BY LiveFirstIn
  <1>2. QED
    BY <1>1 DEF SameTenant

LEMMA OwnerIn ==
    ASSUME TInv, NEW m
    PROVE  Owner(m) = 0 \/ (Owner(m) \in DOMAIN user /\ user[Owner(m)].email = m)
  <1> DEFINE S == {i \in DOMAIN user : user[i].email = m}
  <1>1. user \in Seq(UserRow)
    BY DEF TInv, RowsInv, RowsOK
  <1>2. S # {} => \E i \in S : \A j \in S : user[j].gone <= user[i].gone
    <2> SUFFICES ASSUME S # {} PROVE \E i \in S : \A j \in S : user[j].gone <= user[i].gone
      OBVIOUS
    <2> DEFINE G == {user[i].gone : i \in S}
    <2>1. clock \in Nat /\ G \subseteq Nat /\ \A g \in G : g <= clock
      <3>1. ASSUME NEW i \in DOMAIN user PROVE user[i].gone \in Nat
        <4>1. user[i] \in UserRow
          BY <1>1, RowIn
        <4>2. QED
          BY <4>1 DEF UserRow
      <3>2. clock \in Nat /\ \A i \in DOMAIN user : user[i].gone < clock
        BY DEF TInv, Past
      <3>3. ASSUME NEW i \in DOMAIN user PROVE user[i].gone <= clock
        <4>1. user[i].gone \in Nat /\ clock \in Nat /\ user[i].gone < clock
          BY <3>1, <3>2
        <4>2. QED
          BY <4>1
      <3>4. QED
        BY <3>1, <3>2, <3>3
    <2>2. PICK g \in G : \A h \in G : h <= g
      <3>1. G # {}
        OBVIOUS
      <3> HIDE DEF G
      <3>2. ASSUME NEW k \in Nat, NEW B, B \subseteq Nat, B # {}, \A h \in B : h <= k
            PROVE  \E g \in B : \A h \in B : h <= g
        BY <3>2, GreatestOf
      <3>3. QED
        BY <2>1, <3>1, <3>2
    <2>3. QED
      BY <2>2
  <1>3. S \cap LiveOf(user) # {} => Newest(S \cap LiveOf(user)) \in S
    BY <1>1, NewestIn
  <1> HIDE DEF S
  <1>4. Owner(m) = 0 \/ Owner(m) \in S
    BY <1>2, <1>3 DEF Owner, S
  <1>5. QED
    BY <1>4 DEF S

-----------------------------------------------------------------------------
(* What every write keeps.                                                 *)

\* Rows are never deleted; a binding stays of its user, its tenant and, once it
\* has one, its entity.
Grown(us, bs) ==
  /\ DOMAIN user \subseteq DOMAIN us /\ DOMAIN binding \subseteq DOMAIN bs
  /\ \A i \in DOMAIN binding :
       /\ bs[i].user = binding[i].user /\ bs[i].tenant = binding[i].tenant
       /\ binding[i].entity # None => bs[i].entity = binding[i].entity

\* A transaction archives under its own time stamp at, and if it archives more
\* than one binding they were all live; an archived binding is not rebound.
Stamped(us, bs, at) ==
  /\ \A u \in DOMAIN us :
       us[u].gone \in {0, at} \/ (u \in DOMAIN user /\ us[u].gone = user[u].gone)
  /\ \A i \in DOMAIN bs : bs[i].gone # 0 =>
       /\ i \in DOMAIN binding /\ bs[i].entity = binding[i].entity
       /\ bs[i].gone \in {at, binding[i].gone}
  /\ \A i, j \in DOMAIN bs : i # j /\ bs[i].gone = at /\ bs[j].gone = at /\ at # 0 =>
       i \in LiveOf(binding) /\ j \in LiveOf(binding)

Tidy(us, bs, at) == RowsOK(us, bs) /\ Grown(us, bs) /\ Stamped(us, bs, at)

\* The stamp a transaction of a writes: a new one, that of its request, or none.
StampOf(a, at) ==
  \/ at = clock /\ clock' = clock + 1
  \/ at = req[a].at /\ req[a].pc \in Stamping /\ clock' = clock
  \/ at = 0 /\ clock' \in {clock, clock + 1}

TablesOK == tenant \in [Tenants -> BOOLEAN] /\ entity \in [Entities -> EntityRow]

LEMMA RowTypes ==
    ASSUME NEW us, NEW bs, RowsOK(us, bs)
    PROVE  /\ \A u \in DOMAIN us : us[u].email \in Emails /\ us[u].gone \in Nat
           /\ \A i \in DOMAIN bs : /\ bs[i].user \in DOMAIN us /\ bs[i].tenant \in Tenants
                                   /\ bs[i].entity \in Entities \cup {None}
                                   /\ bs[i].gone \in Nat
           /\ DOMAIN us = 1..Len(us) /\ Len(us) \in Nat
           /\ DOMAIN bs = 1..Len(bs) /\ Len(bs) \in Nat
  <1>1. us \in Seq(UserRow) /\ bs \in Seq(BindingRow) /\ \A i \in DOMAIN bs : bs[i].user \in DOMAIN us
    BY DEF RowsOK
  <1>2. (\A u \in DOMAIN us : us[u] \in UserRow) /\ \A i \in DOMAIN bs : bs[i] \in BindingRow
    BY <1>1, RowIn
  <1>3. QED
    BY <1>1, <1>2, RowIndex DEF UserRow, BindingRow

LEMMA IdleFits ==
    ASSUME NEW us, NEW bs
    PROVE  Idle \in Request /\ Named(Idle, us) /\ Read(Idle, bs) /\ Idle.pc \notin Stamping
  BY DEF Idle, Request, Named, Read, Pcs, Ops, OfEntity, OfTenant, Stamping

LEMMA ReqStays ==
    ASSUME NEW r \in Request, NEW us, NEW bs, Named(r, user), Read(r, binding), Grown(us, bs),
           ConstantsAssumption
    PROVE  Named(r, us) /\ Read(r, bs)
  <1>1. Named(r, us)
    BY DEF Named, Grown
  <1>2. r.pc \in {"shut", "shutting", "swap", "grant"} => r.e # None
    BY ConstantsAssumption DEF Named, OfEntity, ConstantsAssumption
  <1>3. r.pc \in {"shut", "shutting", "swap"} => r.b \in DOMAIN bs /\ bs[r.b].entity = r.e
    BY <1>2 DEF Read, Grown
  <1>4. r.pc \in {"shut", "shutting"} => bs[r.b].user = r.u
    BY DEF Read, Grown
  <1>5. r.pc = "grant" /\ r.b # 0 => r.b \in DOMAIN bs /\ bs[r.b].entity = r.e
    BY <1>2 DEF Read, Grown
  <1>6. r.pc = "grant" /\ r.y # 0 =>
           r.u # 0 /\ r.y \in DOMAIN bs /\ bs[r.y].user = r.u /\ bs[r.y].tenant = TenantOf[r.e]
    BY DEF Read, Grown
  <1>7. \A l \in r.todo : l[1] \in DOMAIN bs
    BY DEF Read, Grown
  <1>8. r.pc \in {"ban", "unban"} => \A l \in r.todo : bs[l[1]].user = r.u
    BY DEF Read, Grown
  <1>9. QED
    BY <1>1, <1>3, <1>4, <1>5, <1>6, <1>7, <1>8 DEF Read

\* The requests after a step of a that leaves its request as next.
LEMMA NextRequests ==
    ASSUME ReqInv, NEW a \in Actors, NEW next, Go(a, next), next \in Request,
           Named(next, user'), Read(next, binding'), Grown(user', binding')
    PROVE  ReqInv'
  <1>1. req' \in [Actors -> Request] /\ req'[a] = next /\ \A c \in Actors \ {a} : req'[c] = req[c]
    BY DEF ReqInv, Go
  <1>2. ASSUME NEW c \in Actors \ {a} PROVE Named(req[c], user') /\ Read(req[c], binding')
    BY ReqStays, ConstantsAssumption DEF ReqInv
  <1>3. ASSUME NEW c \in Actors PROVE Named(req'[c], user') /\ Read(req'[c], binding')
    BY <1>1, <1>2
  <1>4. QED
    BY <1>1, <1>3 DEF ReqInv

\* The rows stay in order, and none is lost.
Keeps == TInv' /\ Grown(user', binding')

\* A step that writes neither table.
LEMMA QuietStep ==
    ASSUME TInv, NEW a \in Actors, NEW next, Go(a, next), next \in Request,
           Named(next, user), Read(next, binding), UNCHANGED <<user, binding>>, TablesOK',
           \/ next.pc \notin Stamping /\ clock' \in {clock, clock + 1}
           \/ next.at = clock /\ clock' = clock + 1
    PROVE  Keeps
  <1>1. Grown(user', binding')
    BY DEF Grown
  <1>2. ReqInv'
    <2>1. Named(next, user') /\ Read(next, binding')
      OBVIOUS
    <2>2. QED
      BY <1>1, <2>1, NextRequests DEF TInv
  <1>3. RowsInv' /\ Together'
    BY DEF TInv, RowsInv, Together, TablesOK
  <1>4. Past'
    <2>1. clock \in Nat \ {0} /\ clock' \in Nat \ {0} /\ clock <= clock'
      BY DEF TInv, Past
    <2>2. req'[a] = next /\ \A c \in Actors \ {a} : req'[c] = req[c]
      BY DEF TInv, ReqInv, Go
    <2>3. \A u \in DOMAIN user : user[u].gone \in Nat /\ user[u].gone < clock
      BY RowTypes DEF TInv, RowsInv, Past
    <2>4. \A i \in DOMAIN binding : binding[i].gone \in Nat /\ binding[i].gone < clock
      BY RowTypes DEF TInv, RowsInv, Past
    <2>5. \A c \in Actors : req[c].at \in Nat
      BY DEF TInv, ReqInv, Request
    <2>6. \A c \in Actors : req[c].pc \in Stamping =>
            /\ 0 < req[c].at /\ req[c].at < clock
            /\ \A i \in DOMAIN binding : binding[i].gone # req[c].at
            /\ \A d \in Actors \ {c} : req[d].pc \in Stamping => req[d].at # req[c].at
      BY DEF TInv, Past
    <2>7. ASSUME NEW c \in Actors, req'[c].pc \in Stamping
          PROVE  /\ 0 < req'[c].at /\ req'[c].at < clock'
                 /\ \A i \in DOMAIN binding : binding[i].gone # req'[c].at
                 /\ \A d \in Actors \ {c} : req'[d].pc \in Stamping => req'[d].at # req'[c].at
      <3>1. CASE c = a
        BY <2>1, <2>2, <2>4, <2>5, <2>6, <2>7, <3>1
      <3>2. CASE c # a
        BY <2>1, <2>2, <2>4, <2>5, <2>6, <2>7, <3>2
      <3>3. QED
        BY <3>1, <3>2
    <2>8. \A u \in DOMAIN user : user[u].gone < clock'
      BY <2>1, <2>3
    <2>9. \A i \in DOMAIN binding : binding[i].gone < clock'
      BY <2>1, <2>4
    <2>10. QED
      BY <2>1, <2>7, <2>8, <2>9 DEF Past
  <1>5. QED
    BY <1>1, <1>2, <1>3, <1>4 DEF TInv, Keeps

\* Rows a tidy write leaves under one stamp were live together.
LEMMA TidyTogether ==
    ASSUME TInv, NEW us, NEW bs, NEW at \in Nat, Tidy(us, bs, at), Unique(us, bs),
           at # 0 => \A i \in DOMAIN binding : binding[i].gone # at,
           NEW i \in DOMAIN bs, NEW j \in DOMAIN bs, i # j, bs[i].gone = bs[j].gone
    PROVE  Apart(bs[i], bs[j])
  <1>1. CASE bs[i].gone = 0
    BY <1>1 DEF Unique, Apart, LiveOf
  <1>2. CASE bs[i].gone # 0
    <2>1. /\ i \in DOMAIN binding /\ bs[i].entity = binding[i].entity
          /\ bs[i].gone \in {at, binding[i].gone}
          /\ j \in DOMAIN binding /\ bs[j].entity = binding[j].entity
          /\ bs[j].gone \in {at, binding[j].gone}
      BY <1>2 DEF Tidy, Stamped
    <2>2. /\ bs[i].user = binding[i].user /\ bs[i].tenant = binding[i].tenant
          /\ bs[j].user = binding[j].user /\ bs[j].tenant = binding[j].tenant
      BY <2>1 DEF Tidy, Grown
    <2>3. CASE bs[i].gone = at
      <3>1. binding[i].gone = 0 /\ binding[j].gone = 0
        BY <1>2, <2>3 DEF Tidy, Stamped, LiveOf
      <3>2. QED
        BY <2>1, <2>2, <3>1 DEF TInv, Together, Apart
    <2>4. CASE bs[i].gone # at
      BY <2>1, <2>2, <2>4 DEF TInv, Together, Apart
    <2>5. QED
      BY <2>3, <2>4
  <1>3. QED
    BY <1>1, <1>2

\* A step of a that commits a tidy write.
LEMMA CommitStep ==
    ASSUME TInv, NEW a \in Actors, NEW us, NEW bs, NEW next, NEW at \in Nat,
           Tidy(us, bs, at), StampOf(a, at), Commit(a, us, bs, next), TablesOK',
           next \in Request, next.pc \notin Stamping, Named(next, us), Read(next, bs)
    PROVE  Keeps
  <1>1. clock \in Nat \ {0} /\ clock' \in {clock, clock + 1}
    BY DEF TInv, Past, StampOf
  <1>2. CASE Unique(us, bs)
    <2>1. user' = us /\ binding' = bs /\ Go(a, next)
      BY <1>2 DEF Commit
    <2>2. RowsInv'
      BY <1>2, <2>1 DEF RowsInv, Tidy, TablesOK
    <2>3. ReqInv'
      <3>1. Named(next, user') /\ Read(next, binding') /\ Grown(user', binding')
        BY <2>1 DEF Tidy
      <3>2. QED
        BY <2>1, <3>1, NextRequests DEF TInv
    <2>4. /\ \A u \in DOMAIN user : user[u].gone \in Nat /\ user[u].gone < clock
          /\ \A i \in DOMAIN binding : binding[i].gone \in Nat /\ binding[i].gone < clock
      BY RowTypes DEF TInv, RowsInv, Past
    <2>5. /\ \A c \in Actors : req[c].at \in Nat
          /\ \A c \in Actors : req[c].pc \in Stamping =>
                /\ 0 < req[c].at /\ req[c].at < clock
                /\ \A i \in DOMAIN binding : binding[i].gone # req[c].at
                /\ \A d \in Actors \ {c} : req[d].pc \in Stamping => req[d].at # req[c].at
      BY DEF TInv, ReqInv, Request, Past
    <2>6. /\ at < clock'
          /\ at # 0 => \A i \in DOMAIN binding : binding[i].gone # at
          /\ \A c \in Actors \ {a} : req[c].pc \in Stamping => req[c].at # at
      BY <1>1, <2>4, <2>5 DEF StampOf
    <2>7. Together'
      BY <1>2, <2>1, <2>6, TidyTogether DEF Together
    <2>8. Past'
      <3>1. req'[a] = next /\ \A c \in Actors \ {a} : req'[c] = req[c]
        BY <2>1 DEF TInv, ReqInv, Go
      <3>2. ASSUME NEW u \in DOMAIN us PROVE us[u].gone < clock'
        BY <1>1, <2>4, <2>6 DEF Tidy, Stamped
      <3>3. ASSUME NEW i \in DOMAIN bs PROVE bs[i].gone < clock'
        BY <1>1, <2>4, <2>6 DEF Tidy, Stamped
      <3>4. ASSUME NEW c \in Actors, req'[c].pc \in Stamping
            PROVE  /\ 0 < req'[c].at /\ req'[c].at < clock'
                   /\ \A i \in DOMAIN bs : bs[i].gone # req'[c].at
                   /\ \A d \in Actors \ {c} : req'[d].pc \in Stamping => req'[d].at # req'[c].at
        <4>1. c # a /\ req'[c] = req[c]
          BY <3>1, <3>4
        <4>2. 0 < req[c].at /\ req[c].at < clock'
          BY <1>1, <2>5, <3>4, <4>1
        <4>3. ASSUME NEW i \in DOMAIN bs PROVE bs[i].gone # req[c].at
          BY <2>5, <2>6, <3>4, <4>1, <4>2 DEF Tidy, Stamped
        <4>4. \A d \in Actors \ {c} : req'[d].pc \in Stamping => req'[d].at # req'[c].at
          BY <2>5, <3>1, <3>4, <4>1
        <4>5. QED
          BY <4>1, <4>2, <4>3, <4>4
      <3>5. clock' \in Nat \ {0}
        BY <1>1
      <3>6. QED
        BY <2>1, <3>2, <3>3, <3>4, <3>5 DEF Past
    <2>9. QED
      BY <2>1, <2>2, <2>3, <2>7, <2>8 DEF TInv, Keeps, Tidy
  <1>3. CASE ~Unique(us, bs)
    <2>1. UNCHANGED <<user, binding>> /\ Go(a, Idle)
      BY <1>3 DEF Commit, Done
    <2>2. QED
      BY <1>1, <2>1, IdleFits, QuietStep
  <1>4. QED
    BY <1>2, <1>3
-----------------------------------------------------------------------------
(* The steps that only read.                                               *)

\* The request a is about to take up.
Fits(r) == r \in Request /\ Named(r, user) /\ Read(r, binding)

LEMMA ReqFits == ASSUME TInv, NEW a \in Actors PROVE Fits(req[a])
  BY DEF TInv, ReqInv, Fits

LEMMA EntityTyped ==
    ASSUME TInv, NEW e \in Entities
    PROVE  entity[e] \in EntityRow /\ entity[e].row \in {"absent", "live", "archived"}
           /\ entity[e].app \in BOOLEAN
  BY DEF TInv, RowsInv, EntityRow

LEMMA TablesStay == ASSUME TInv, UNCHANGED <<tenant, entity>> PROVE TablesOK'
  BY DEF TInv, RowsInv, TablesOK

LEMMA QuietRead ==
    ASSUME TInv, NEW a \in Actors, NEW next, Go(a, next), Fits(next),
           UNCHANGED <<user, binding, clock>>, TablesOK', next.pc \notin Stamping
    PROVE  Keeps
  BY QuietStep DEF Fits

LEMMA QuietDone ==
    ASSUME TInv, NEW a \in Actors, Done(a), UNCHANGED <<user, binding, clock>>, TablesOK'
    PROVE  Keeps
  BY QuietRead, IdleFits DEF Fits, Done

\* One entity is written.
LEMMA EntityWritten ==
    ASSUME TInv, NEW e \in Entities, NEW row \in EntityRow, UNCHANGED tenant,
           entity' = [entity EXCEPT ![e] = row]
    PROVE  TablesOK'
  BY DEF TInv, RowsInv, TablesOK

LEMMA CreateStep ==
    ASSUME TInv, NEW a \in Actors, NEW e \in Entities, NEW app \in BOOLEAN, NEW m \in Emails,
           Create(a, e, app, m)
    PROVE  Keeps
  <1> DEFINE r == [Idle EXCEPT !.pc = "look", !.op = "create", !.e = e, !.m = m]
  <1>1. TablesOK'
    <2>1. [row |-> "live", app |-> app] \in EntityRow
      BY DEF EntityRow
    <2>2. QED
      BY <2>1, EntityWritten DEF Create
  <1>2. Fits(r) /\ r.pc \notin Stamping
    BY DEF Fits, Idle, Request, Named, Read, Pcs, Ops, OfEntity, OfTenant, Stamping
  <1>3. Go(a, r) \/ Done(a)
    BY DEF Create
  <1>4. UNCHANGED <<user, binding, clock>>
    BY DEF Create
  <1> HIDE DEF r
  <1>5. QED
    BY <1>1, <1>2, <1>3, <1>4, QuietRead, QuietDone

LEMMA UpdateStep ==
    ASSUME TInv, NEW a \in Actors, NEW e \in Entities, NEW app \in BOOLEAN, NEW m \in Emails,
           Update(a, e, app, m)
    PROVE  Keeps
  <1> DEFINE provision == app /\ (~entity[e].app \/ ActiveBinding(e) = 0)
             cut == entity[e].app /\ ~app
             n == IF app THEN m ELSE None
             x == IF app THEN 1 ELSE 0
             y == IF provision THEN 1 ELSE IF cut THEN 2 ELSE 0
             r == [Idle EXCEPT !.pc = "save", !.op = "update", !.e = e, !.m = n, !.x = x, !.y = y]
  <1>1. Go(a, r) /\ UNCHANGED <<tenant, entity, user, binding, clock>>
    BY DEF Update
  <1>2. n \in Emails \cup {None} /\ x \in {0, 1} /\ y \in Nat /\ (y = 1 => n \in Emails)
    OBVIOUS
  <1> HIDE DEF n, x, y
  <1>3. Fits(r) /\ r.pc \notin Stamping
    <2>1. r \in Request
      BY <1>2 DEF Idle, Request, Pcs, Ops
    <2>2. /\ r.pc = "save" /\ r.op = "update" /\ r.e = e /\ r.m = n /\ r.y = y
          /\ r.u = 0 /\ r.t = None /\ r.todo = {}
      BY DEF Idle
    <2> HIDE DEF r
    <2>3. QED
      BY <1>2, <2>1, <2>2 DEF Fits, Named, Read, OfEntity, OfTenant, Stamping
  <1> HIDE DEF r
  <1>4. QED
    BY <1>1, <1>3, TablesStay, QuietRead

LEMMA SaveStep == ASSUME TInv, NEW a \in Actors, Save(a) PROVE Keeps
  <1>1. Fits(req[a]) /\ req[a].pc = "save" /\ req[a].e \in Entities
    BY ReqFits DEF Save, Fits, Named, OfEntity
  <1>2. TablesOK'
    <2>1. [entity[req[a].e] EXCEPT !.app = (req[a].x = 1)] \in EntityRow
      BY <1>1, EntityTyped DEF EntityRow
    <2>2. CASE UNCHANGED entity
      BY <2>2, TablesStay DEF Save
    <2>3. CASE entity' = [entity EXCEPT ![req[a].e].app = (req[a].x = 1)]
      BY <1>1, <2>1, <2>3 DEF TInv, RowsInv, TablesOK, Save
    <2>4. QED
      BY <2>2, <2>3 DEF Save
  <1>3. req[a].y = 1 => Fits([req[a] EXCEPT !.pc = "look"])
    BY <1>1 DEF Fits, Request, Named, Read, Pcs, OfEntity, OfTenant
  <1>4. Fits([req[a] EXCEPT !.pc = "find"])
    BY <1>1 DEF Fits, Request, Named, Read, Pcs, OfEntity, OfTenant
  <1>5. (req[a].y = 1 /\ Goto(a, "look")) \/ Goto(a, "find") \/ Done(a)
    BY DEF Save
  <1>6. /\ [req[a] EXCEPT !.pc = "look"].pc \notin Stamping
        /\ [req[a] EXCEPT !.pc = "find"].pc \notin Stamping
    BY <1>1 DEF Fits, Request, Stamping
  <1>7. UNCHANGED <<user, binding, clock>>
    BY DEF Save
  <1>8. QED
    BY <1>2, <1>3, <1>4, <1>5, <1>6, <1>7, QuietRead, QuietDone DEF Goto

\* What the first SELECT makes of a request, the second and the third.
AfterLook(r, pc, b) == [r EXCEPT !.pc = pc, !.b = b, !.u = 0, !.x = 0, !.y = 0]
AfterMatch(r, pc, u, x) == [r EXCEPT !.pc = pc, !.u = u, !.x = x]
AfterFit(r, y) == [r EXCEPT !.pc = "grant", !.y = y]

LEMMA LookStep == ASSUME TInv, NEW a \in Actors, Look(a) PROVE Keeps
  <1> DEFINE e == req[a].e
             prior == AnyBinding(e)
             pc == IF KindOf[e] = "vendor_contact" /\ prior = 0 THEN "match" ELSE "grant"
             r == AfterLook(req[a], pc, prior)
  <1>1. Fits(req[a]) /\ req[a].pc = "look" /\ e \in Entities /\ req[a].m \in Emails
    BY ReqFits DEF Look, Fits, Named, OfEntity
  <1>2. RowsOK(user, binding)
    BY DEF TInv, RowsInv
  <1>3. prior \in Nat /\ (prior # 0 => prior \in DOMAIN binding /\ binding[prior].entity = e)
    BY <1>2, AnyIn, RowTypes DEF RowsOK, Bound
  <1>4. pc \in {"match", "grant"} /\ (pc = "match" => prior = 0)
    OBVIOUS
  <1>5. Go(a, r) /\ UNCHANGED <<tenant, entity, user, binding, clock>>
    BY DEF Look, AfterLook
  <1> HIDE DEF prior, pc
  <1>6. Fits(r) /\ r.pc \notin Stamping
    <2>1. r \in Request
      BY <1>1, <1>3, <1>4 DEF Fits, Request, Pcs, AfterLook
    <2>2. /\ r.pc = pc /\ r.b = prior /\ r.u = 0 /\ r.y = 0 /\ r.e = e
          /\ r.op = req[a].op /\ r.m = req[a].m /\ r.t = req[a].t /\ r.todo = req[a].todo
      BY <1>1 DEF Fits, Request, AfterLook
    <2> HIDE DEF r
    <2>3. Named(r, user)
      BY <1>1, <1>4, <2>2 DEF Fits, Named, OfEntity, OfTenant
    <2>4. Read(r, binding)
      BY <1>1, <1>3, <1>4, <2>2 DEF Fits, Read
    <2>5. QED
      BY <1>4, <2>1, <2>2, <2>3, <2>4 DEF Fits, Stamping
  <1> HIDE DEF r
  <1>7. QED
    BY <1>5, <1>6, TablesStay, QuietRead

LEMMA MatchStep == ASSUME TInv, NEW a \in Actors, Match(a) PROVE Keeps
  <1> DEFINE u == Owner(req[a].m)
             x == IF u # 0 /\ user[u].gone # 0 THEN 1 ELSE 0
             pc == IF u = 0 THEN "grant" ELSE "fit"
             r == AfterMatch(req[a], pc, u, x)
  <1>1. Fits(req[a]) /\ req[a].pc = "match" /\ req[a].e \in Entities /\ req[a].m \in Emails
    BY ReqFits DEF Match, Fits, Named, OfEntity
  <1>2. u \in Nat /\ (u # 0 => u \in DOMAIN user) /\ x \in {0, 1}
    BY OwnerIn, RowTypes DEF TInv, RowsInv
  <1>3. pc \in {"grant", "fit"} /\ (pc = "fit" => u # 0)
    OBVIOUS
  <1>4. Go(a, r) /\ UNCHANGED <<tenant, entity, user, binding, clock>>
    BY DEF Match, AfterMatch
  <1> HIDE DEF u, x, pc
  <1>5. Fits(r) /\ r.pc \notin Stamping
    <2>1. r \in Request
      BY <1>1, <1>2, <1>3 DEF Fits, Request, Pcs, AfterMatch
    <2>2. /\ r.pc = pc /\ r.b = req[a].b /\ r.u = u /\ r.y = req[a].y /\ r.e = req[a].e
          /\ r.op = req[a].op /\ r.m = req[a].m /\ r.t = req[a].t /\ r.todo = req[a].todo
      BY <1>1 DEF Fits, Request, AfterMatch
    <2> HIDE DEF r
    <2>3. Named(r, user)
      BY <1>1, <1>2, <1>3, <2>2 DEF Fits, Named, OfEntity, OfTenant
    <2>4. Read(r, binding)
      BY <1>1, <1>3, <2>2 DEF Fits, Read
    <2>5. QED
      BY <1>3, <2>1, <2>2, <2>3, <2>4 DEF Fits, Stamping
  <1> HIDE DEF r
  <1>6. QED
    BY <1>4, <1>5, TablesStay, QuietRead

LEMMA FitStep == ASSUME TInv, NEW a \in Actors, Fit(a) PROVE Keeps
  <1> DEFINE e == req[a].e
             same == SameTenant(req[a].u, TenantOf[e], binding)
             r == AfterFit(req[a], same)
  <1>1. /\ Fits(req[a]) /\ req[a].pc = "fit" /\ e \in Entities /\ req[a].m \in Emails
        /\ req[a].u # 0 /\ req[a].b = 0
    BY ReqFits DEF Fit, Fits, Named, Read, OfEntity
  <1>2. same \in Nat /\ (same # 0 => /\ same \in DOMAIN binding
                                     /\ binding[same].user = req[a].u
                                     /\ binding[same].tenant = TenantOf[e])
    <2>1. binding \in Seq(BindingRow) /\ \A i \in DOMAIN binding : i \in Nat
      BY RowTypes DEF TInv, RowsInv, RowsOK
    <2>2. QED
      BY <2>1, SameTenantIn
  <1>3. (Go(a, r) \/ Done(a)) /\ UNCHANGED <<tenant, entity, user, binding, clock>>
    BY DEF Fit, AfterFit
  <1> HIDE DEF same
  <1>4. Fits(r) /\ r.pc \notin Stamping
    <2>1. r \in Request
      BY <1>1, <1>2 DEF Fits, Request, Pcs, AfterFit
    <2>2. /\ r.pc = "grant" /\ r.b = 0 /\ r.u = req[a].u /\ r.y = same /\ r.e = e
          /\ r.op = req[a].op /\ r.m = req[a].m /\ r.t = req[a].t /\ r.todo = req[a].todo
      BY <1>1 DEF Fits, Request, AfterFit
    <2> HIDE DEF r
    <2>3. Named(r, user)
      BY <1>1, <2>2 DEF Fits, Named, OfEntity, OfTenant
    <2>4. Read(r, binding)
      BY <1>1, <1>2, <2>2 DEF Fits, Read
    <2>5. QED
      BY <2>1, <2>2, <2>3, <2>4 DEF Fits, Stamping
  <1> HIDE DEF r
  <1>5. QED
    BY <1>3, <1>4, TablesStay, QuietRead, QuietDone

LEMMA ArchiveStep ==
    ASSUME TInv, NEW a \in Actors, NEW e \in Entities, Archive(a, e) PROVE Keeps
  <1> DEFINE r == [Idle EXCEPT !.pc = IF entity[e].app THEN "find" ELSE "mark",
                   !.op = "archive", !.e = e]
  <1>1. Fits(r) /\ r.pc \notin Stamping
    BY DEF Fits, Idle, Request, Named, Read, Pcs, Ops, OfEntity, OfTenant, Stamping
  <1>2. Go(a, r) /\ UNCHANGED <<tenant, entity, user, binding, clock>>
    BY DEF Archive
  <1> HIDE DEF r
  <1>3. QED
    BY <1>1, <1>2, TablesStay, QuietRead

LEMMA MarkStep == ASSUME TInv, NEW a \in Actors, Mark(a) PROVE Keeps
  <1>1. req[a].e \in Entities
    BY ReqFits DEF Mark, Fits, Named, OfEntity
  <1>2. TablesOK'
    <2>1. [entity[req[a].e] EXCEPT !.row = "archived"] \in EntityRow
      BY <1>1, EntityTyped DEF EntityRow
    <2>2. QED
      BY <1>1, <2>1, EntityWritten DEF Mark
  <1>3. QED
    BY <1>2, QuietDone DEF Mark

LEMMA AfterShutFits ==
    ASSUME NEW r \in Request, NEW us, NEW bs, Named(r, us), Read(r, bs),
           r.pc \in {"find", "shutting"}
    PROVE  LET n == AfterShut(r) IN
           n \in Request /\ Named(n, us) /\ Read(n, bs) /\ n.pc \notin Stamping
  <1>1. LET n == [r EXCEPT !.pc = "mark"] IN
        n \in Request /\ Named(n, us) /\ Read(n, bs) /\ n.pc \notin Stamping
    BY DEF Request, Named, Read, Pcs, OfEntity, OfTenant, Stamping
  <1>2. QED
    BY <1>1, IdleFits DEF AfterShut

LEMMA FindStep == ASSUME TInv, NEW a \in Actors, Find(a) PROVE Keeps
  <1> DEFINE b == ActiveBinding(req[a].e)
             r == [req[a] EXCEPT !.pc = "shut", !.b = b, !.u = binding[b].user]
  <1>1. Fits(req[a]) /\ req[a].pc = "find" /\ req[a].e \in Entities
    BY ReqFits DEF Find, Fits, Named, OfEntity
  <1>2. b = 0 \/ (b \in DOMAIN binding /\ binding[b].entity = req[a].e)
    BY ActiveIn DEF TInv, RowsInv, RowsOK, Bound
  <1>3. Fits(AfterShut(req[a])) /\ AfterShut(req[a]).pc \notin Stamping
    BY <1>1, AfterShutFits DEF Fits
  <1> HIDE DEF b
  <1>4. b # 0 => Fits(r) /\ r.pc \notin Stamping
    <2>1. b # 0 => b \in Nat /\ binding[b].user \in DOMAIN user /\ binding[b].user \in Nat
                   /\ binding[b].user # 0
      BY <1>2, RowTypes DEF TInv, RowsInv
    <2>2. SUFFICES ASSUME b # 0 PROVE Fits(r) /\ r.pc \notin Stamping
      OBVIOUS
    <2>3. r \in Request
      BY <1>1, <2>1, <2>2 DEF Fits, Request, Pcs
    <2>4. /\ r.pc = "shut" /\ r.b = b /\ r.u = binding[b].user /\ r.e = req[a].e
          /\ r.op = req[a].op /\ r.t = req[a].t /\ r.todo = req[a].todo
      BY <1>1 DEF Fits, Request
    <2> HIDE DEF r
    <2>5. Named(r, user)
      BY <1>1, <2>1, <2>2, <2>4 DEF Fits, Named, OfEntity, OfTenant
    <2>6. Read(r, binding)
      BY <1>1, <1>2, <2>2, <2>4 DEF Fits, Read
    <2>7. QED
      BY <2>3, <2>4, <2>5, <2>6 DEF Fits, Stamping
  <1>5. (b # 0 /\ Go(a, r)) \/ Go(a, AfterShut(req[a]))
    BY DEF Find, b
  <1>6. UNCHANGED <<tenant, entity, user, binding, clock>>
    BY DEF Find
  <1> HIDE DEF r
  <1>7. QED
    BY <1>3, <1>4, <1>5, <1>6, TablesStay, QuietRead

LEMMA ShutStep == ASSUME TInv, NEW a \in Actors, Shut(a) PROVE Keeps
  <1> DEFINE last == user[req[a].u].gone = 0 /\ LastOne(req[a].u, req[a].b)
             x == IF last THEN 1 ELSE 0
             r == [req[a] EXCEPT !.pc = "shutting", !.at = clock, !.x = x]
  <1>1. Fits(req[a]) /\ req[a].pc = "shut" /\ clock \in Nat
    BY ReqFits DEF Shut, TInv, Past
  <1>2. Fits(r) /\ r.at = clock
    <2> x \in {0, 1}
      OBVIOUS
    <2> HIDE DEF x
    <2>1. r \in Request
      <3>1. req[a] \in Request /\ "shutting" \in Pcs
        BY <1>1 DEF Fits, Pcs
      <3>2. QED
        BY <1>1, <3>1 DEF Request
    <2>2. /\ r.pc = "shutting" /\ r.at = clock /\ r.b = req[a].b /\ r.u = req[a].u /\ r.e = req[a].e
          /\ r.op = req[a].op /\ r.t = req[a].t /\ r.todo = req[a].todo
      BY <1>1 DEF Fits, Request
    <2> HIDE DEF r
    <2>3. Named(r, user)
      BY <1>1, <2>2 DEF Fits, Named, OfEntity, OfTenant
    <2>4. Read(r, binding)
      BY <1>1, <2>2 DEF Fits, Read
    <2>5. QED
      BY <2>1, <2>2, <2>3, <2>4 DEF Fits
  <1>3. Go(a, r) /\ clock' = clock + 1 /\ UNCHANGED <<tenant, entity, user, binding>>
    BY DEF Shut
  <1> HIDE DEF r
  <1>4. QED
    BY <1>2, <1>3, TablesStay, QuietStep DEF Fits

LEMMA RestoreStep ==
    ASSUME TInv, NEW a \in Actors, NEW e \in Entities, Restore(a, e) PROVE Keeps
  <1> DEFINE r == [Idle EXCEPT !.pc = "reread", !.op = "restore", !.e = e]
  <1>1. TablesOK'
    <2>1. [entity[e] EXCEPT !.row = "live"] \in EntityRow
      BY EntityTyped DEF EntityRow
    <2>2. QED
      BY <2>1, EntityWritten DEF Restore
  <1>2. Fits(r) /\ r.pc \notin Stamping
    BY DEF Fits, Idle, Request, Named, Read, Pcs, Ops, OfEntity, OfTenant, Stamping
  <1>3. Go(a, r) /\ UNCHANGED <<user, binding, clock>>
    BY DEF Restore
  <1> HIDE DEF r
  <1>4. QED
    BY <1>1, <1>2, <1>3, QuietRead

LEMMA RereadStep == ASSUME TInv, NEW a \in Actors, Reread(a) PROVE Keeps
  <1>1. Fits([req[a] EXCEPT !.pc = "revive"]) /\ [req[a] EXCEPT !.pc = "revive"].pc \notin Stamping
    BY ReqFits DEF Reread, Fits, Request, Named, Read, Pcs, OfEntity, OfTenant, Stamping
  <1>2. Goto(a, "revive") \/ Done(a)
    BY DEF Reread
  <1>3. UNCHANGED <<tenant, entity, user, binding, clock>>
    BY DEF Reread
  <1>4. QED
    BY <1>1, <1>2, <1>3, TablesStay, QuietRead, QuietDone DEF Goto

LEMMA SwapStep ==
    ASSUME TInv, NEW a \in Actors, NEW e \in Entities, NEW m \in Emails, Swap(a, e, m) PROVE Keeps
  <1> DEFINE b == ActiveBinding(e)
             match == Owner(m)
             x == IF match # 0 /\ user[match].gone # 0 THEN 1 ELSE 0
             r == [Idle EXCEPT !.pc = "swap", !.op = "swap", !.e = e, !.m = m, !.b = b,
                   !.u = match, !.x = x]
  <1>1. Go(a, r) /\ b # 0 /\ UNCHANGED <<tenant, entity, user, binding, clock>>
    BY DEF Swap
  <1>2. RowsOK(user, binding)
    BY DEF TInv, RowsInv
  <1>3. b \in DOMAIN binding /\ b \in Nat /\ binding[b].entity = e
    BY <1>1, <1>2, ActiveIn, RowTypes DEF RowsOK, Bound
  <1>4. match \in Nat /\ (match # 0 => match \in DOMAIN user) /\ x \in {0, 1}
    BY <1>2, OwnerIn, RowTypes
  <1> HIDE DEF b, match, x
  <1>5. Fits(r) /\ r.pc \notin Stamping
    BY <1>3, <1>4 DEF Fits, Idle, Request, Named, Read, Pcs, Ops, OfEntity, OfTenant, Stamping
  <1> HIDE DEF r
  <1>6. QED
    BY <1>1, <1>5, TablesStay, QuietRead

LEMMA ChangeEmailStep ==
    ASSUME TInv, NEW a \in Actors, NEW e \in Entities, NEW m \in Emails, ChangeEmail(a, e, m)
    PROVE  Keeps
  <1> DEFINE b == ActiveBinding(e)
             u == binding[b].user
             r == [Idle EXCEPT !.pc = "sync", !.op = "email", !.e = e, !.m = m, !.u = u]
  <1>1. Go(a, r) /\ b # 0 /\ UNCHANGED <<tenant, entity, user, binding, clock>>
    BY DEF ChangeEmail
  <1>2. RowsOK(user, binding)
    BY DEF TInv, RowsInv
  <1>3. b \in DOMAIN binding
    BY <1>1, <1>2, ActiveIn DEF RowsOK, Bound
  <1>4. u \in DOMAIN user /\ u \in Nat /\ u # 0
    BY <1>2, <1>3, RowTypes
  <1> HIDE DEF b, u
  <1>5. Fits(r) /\ r.pc \notin Stamping
    BY <1>4 DEF Fits, Idle, Request, Named, Read, Pcs, Ops, OfEntity, OfTenant, Stamping
  <1> HIDE DEF r
  <1>6. QED
    BY <1>1, <1>5, TablesStay, QuietRead

LEMMA RegisterStep ==
    ASSUME TInv, NEW a \in Actors, NEW t \in Tenants, NEW m \in Emails, Register(a, t, m)
    PROVE  Keeps
  <1> DEFINE r == [Idle EXCEPT !.pc = "register", !.op = "register", !.t = t, !.m = m]
  <1>1. Go(a, r) /\ UNCHANGED <<tenant, entity, user, binding, clock>>
    BY DEF Register
  <1>2. Fits(r) /\ r.pc \notin Stamping
    BY DEF Fits, Idle, Request, Named, Read, Pcs, Ops, OfEntity, OfTenant, Stamping
  <1> HIDE DEF r
  <1>3. QED
    BY <1>1, <1>2, TablesStay, QuietRead

\* A cascade over bindings of the user.
LEMMA LinkedFits ==
    ASSUME TInv, NEW u \in DOMAIN user, NEW B, B \subseteq BoundTo(u)
    PROVE  /\ Linked(B) \in SUBSET (Nat \X (Entities \cup {None}))
           /\ \A l \in Linked(B) : l[1] \in DOMAIN binding /\ binding[l[1]].user = u
           /\ u \in Nat /\ u # 0
  <1>1. RowsOK(user, binding)
    BY DEF TInv, RowsInv
  <1>2. \A i \in B : /\ i \in DOMAIN binding /\ i \in Nat /\ binding[i].user = u
                     /\ binding[i].entity \in Entities \cup {None}
    BY <1>1, RowTypes DEF BoundTo
  <1>3. u \in Nat /\ u # 0
    BY <1>1, RowTypes
  <1>4. QED
    BY <1>2, <1>3 DEF Linked

LEMMA ArchiveUserStep ==
    ASSUME TInv, NEW a \in Actors, NEW u \in DOMAIN user, ArchiveUser(a, u) PROVE Keeps
  <1> DEFINE L == Linked(BoundTo(u) \cap LiveOf(binding))
             r == [Idle EXCEPT !.pc = "ban", !.op = "ban", !.u = u, !.todo = L]
  <1>1. Go(a, r) /\ UNCHANGED <<tenant, entity, user, binding, clock>>
    BY DEF ArchiveUser
  <1>2. /\ L \in SUBSET (Nat \X (Entities \cup {None}))
        /\ \A l \in L : l[1] \in DOMAIN binding /\ binding[l[1]].user = u
        /\ u \in Nat /\ u # 0
    BY LinkedFits
  <1> HIDE DEF L
  <1>3. Fits(r) /\ r.pc \notin Stamping
    BY <1>2 DEF Fits, Idle, Request, Named, Read, Pcs, Ops, OfEntity, OfTenant, Stamping
  <1> HIDE DEF r
  <1>4. QED
    BY <1>1, <1>3, TablesStay, QuietRead

LEMMA RestoreUserStep ==
    ASSUME TInv, NEW a \in Actors, NEW u \in DOMAIN user, RestoreUser(a, u) PROVE Keeps
  <1> DEFINE L == Linked({i \in BoundTo(u) \ LiveOf(binding) : tenant[binding[i].tenant]})
             r == [Idle EXCEPT !.pc = "unban", !.op = "unban", !.u = u, !.todo = L]
  <1>1. Go(a, r) /\ UNCHANGED <<tenant, entity, user, binding, clock>>
    BY DEF RestoreUser
  <1>2. /\ L \in SUBSET (Nat \X (Entities \cup {None}))
        /\ \A l \in L : l[1] \in DOMAIN binding /\ binding[l[1]].user = u
        /\ u \in Nat /\ u # 0
    BY LinkedFits
  <1> HIDE DEF L
  <1>3. Fits(r) /\ r.pc \notin Stamping
    BY <1>2 DEF Fits, Idle, Request, Named, Read, Pcs, Ops, OfEntity, OfTenant, Stamping
  <1> HIDE DEF r
  <1>4. QED
    BY <1>1, <1>3, TablesStay, QuietRead

LEMMA RestFits ==
    ASSUME NEW r \in Request, NEW us, NEW bs, Named(Idle, us),
           r.todo # {} => Named(r, us) /\ Read(r, bs), r.pc \notin Stamping
    PROVE  Rest(r) \in Request /\ Named(Rest(r), us) /\ Read(Rest(r), bs) /\ Rest(r).pc \notin Stamping
  BY IdleFits DEF Rest

\* The next step of a cascade.
LEMMA RestStep ==
    ASSUME TInv, NEW a \in Actors, NEW l, req[a].pc \in {"unseat", "reseat"},
           Go(a, Rest([req[a] EXCEPT !.todo = @ \ {l}])),
           TablesOK', UNCHANGED <<user, binding, clock>>
    PROVE  Keeps
  <1> DEFINE r == [req[a] EXCEPT !.todo = @ \ {l}]
  <1>1. r \in Request /\ (r.todo # {} => Named(r, user) /\ Read(r, binding)) /\ r.pc \notin Stamping
    BY ReqFits DEF Fits, Request, Named, Read, OfEntity, OfTenant, Stamping
  <1> HIDE DEF r
  <1>2. Fits(Rest(r)) /\ Rest(r).pc \notin Stamping
    BY <1>1, RestFits, IdleFits DEF Fits
  <1>3. Go(a, Rest(r))
    BY DEF r
  <1>4. QED
    BY <1>2, <1>3, QuietRead

LEMMA TodoEntity ==
    ASSUME TInv, NEW a \in Actors, req[a].todo # {}
    PROVE  FirstOf(req[a].todo) \in req[a].todo /\ FirstOf(req[a].todo)[2] \in Entities \cup {None}
  <1> DEFINE T == req[a].todo
             S == {k[1] : k \in T}
  <1>1. T \subseteq Nat \X (Entities \cup {None})
    BY ReqFits DEF Fits, Request
  <1>2. S \subseteq Nat /\ S # {}
    BY <1>1
  <1>3. PICK n \in S : \A k \in S : n <= k
    <2> HIDE DEF S
    <2>1. QED
      BY <1>2, LeastOf
  <1>4. \E l \in T : \A k \in T : l[1] <= k[1]
    BY <1>3
  <1>5. FirstOf(T) \in T
    BY <1>4 DEF FirstOf
  <1>6. QED
    BY <1>1, <1>5

LEMMA UnseatStep == ASSUME TInv, NEW a \in Actors, Unseat(a) PROVE Keeps
  <1> DEFINE l == FirstOf(req[a].todo)
  <1>1. req[a].pc = "unseat" /\ req[a].todo # {}
    BY ReqFits DEF Unseat, Fits, Named
  <1>2. l[2] \in Entities \cup {None}
    BY <1>1, TodoEntity
  <1>3. TablesOK'
    <2>1. CASE UNCHANGED entity
      BY <2>1, TablesStay DEF Unseat
    <2>2. CASE l[2] # None /\ entity' = [entity EXCEPT ![l[2]].row = "archived"]
      <3>1. l[2] \in Entities /\ UNCHANGED tenant
        BY <1>2, <2>2 DEF Unseat
      <3>2. [entity[l[2]] EXCEPT !.row = "archived"] \in EntityRow
        BY <3>1, EntityTyped DEF EntityRow
      <3>3. QED
        BY <2>2, <3>1, <3>2, EntityWritten
    <2>3. QED
      BY <2>1, <2>2 DEF Unseat
  <1>4. Go(a, Rest([req[a] EXCEPT !.todo = @ \ {l}])) /\ UNCHANGED <<user, binding, clock>>
    BY DEF Unseat
  <1>5. QED
    BY <1>1, <1>3, <1>4, RestStep

LEMMA ReseatStep == ASSUME TInv, NEW a \in Actors, Reseat(a) PROVE Keeps
  <1> DEFINE l == FirstOf(req[a].todo)
  <1>1. req[a].pc = "reseat" /\ req[a].todo # {}
    BY ReqFits DEF Reseat, Fits, Named
  <1>2. l[2] \in Entities \cup {None}
    BY <1>1, TodoEntity
  <1>3. TablesOK'
    <2>1. CASE UNCHANGED entity
      BY <2>1, TablesStay DEF Reseat
    <2>2. CASE l[2] # None /\ entity' = [entity EXCEPT ![l[2]].row = "live"]
      <3>1. l[2] \in Entities /\ UNCHANGED tenant
        BY <1>2, <2>2 DEF Reseat
      <3>2. [entity[l[2]] EXCEPT !.row = "live"] \in EntityRow
        BY <3>1, EntityTyped DEF EntityRow
      <3>3. QED
        BY <2>2, <3>1, <3>2, EntityWritten
    <2>3. QED
      BY <2>1, <2>2 DEF Reseat
  <1>4. Go(a, Rest([req[a] EXCEPT !.todo = @ \ {l}])) /\ UNCHANGED <<user, binding, clock>>
    BY DEF Reseat
  <1>5. QED
    BY <1>1, <1>3, <1>4, RestStep

LEMMA ArchiveTenantStep ==
    ASSUME TInv, NEW a \in Actors, NEW t \in Tenants, ArchiveTenant(a, t) PROVE Keeps
  <1> DEFINE r == [Idle EXCEPT !.pc = "evict", !.op = "close", !.t = t, !.at = clock]
  <1>1. Go(a, r) /\ clock' = clock + 1 /\ UNCHANGED <<user, binding>>
    BY DEF ArchiveTenant
  <1>2. TablesOK'
    BY DEF ArchiveTenant, TInv, RowsInv, TablesOK
  <1>3. Fits(r) /\ r.at = clock
    BY DEF Fits, Idle, Request, Named, Read, Pcs, Ops, OfEntity, OfTenant, TInv, Past
  <1> HIDE DEF r
  <1>4. QED
    BY <1>1, <1>2, <1>3, QuietStep DEF Fits

LEMMA RestoreTenantStep ==
    ASSUME TInv, NEW a \in Actors, NEW t \in Tenants, RestoreTenant(a, t) PROVE Keeps
  <1> DEFINE r == [Idle EXCEPT !.pc = "reopen", !.op = "open", !.t = t]
  <1>1. Go(a, r) /\ UNCHANGED <<tenant, entity, user, binding, clock>>
    BY DEF RestoreTenant
  <1>2. Fits(r) /\ r.pc \notin Stamping
    BY DEF Fits, Idle, Request, Named, Read, Pcs, Ops, OfEntity, OfTenant, Stamping
  <1> HIDE DEF r
  <1>3. QED
    BY <1>1, <1>2, TablesStay, QuietRead

LEMMA ImportStep ==
    ASSUME TInv, NEW a \in Actors, NEW e \in Entities, NEW row, NEW app \in BOOLEAN,
           NEW m \in Emails, Import(a, e, row, app, m)
    PROVE  Keeps
  <1> DEFINE n == IF app THEN m ELSE None
             b == IF app THEN 1 ELSE 0
             x == IF row = "archived" THEN 1 ELSE 0
             y == IF entity[e].app THEN (IF entity[e].row = "archived" THEN 3 ELSE 2)
                  ELSE (IF entity[e].row = "archived" THEN 1 ELSE 0)
             r == [Idle EXCEPT !.pc = "import", !.op = "import", !.e = e, !.m = n, !.b = b,
                   !.x = x, !.y = y]
  <1>1. Go(a, r) /\ UNCHANGED <<tenant, entity, user, binding, clock>>
    BY DEF Import
  <1>2. /\ n \in Emails \cup {None} /\ b \in Nat /\ x \in {0, 1} /\ y \in Nat
        /\ b = 1 => n \in Emails
    OBVIOUS
  <1> HIDE DEF n, b, x, y
  <1>3. Fits(r) /\ r.pc \notin Stamping
    <2>1. r \in Request
      BY <1>2 DEF Idle, Request, Pcs, Ops
    <2>2. /\ r.pc = "import" /\ r.op = "import" /\ r.e = e /\ r.m = n /\ r.b = b
          /\ r.u = 0 /\ r.t = None /\ r.todo = {}
      BY DEF Idle
    <2> HIDE DEF r
    <2>3. QED
      BY <1>2, <2>1, <2>2 DEF Fits, Named, Read, OfEntity, OfTenant, Stamping
  <1> HIDE DEF r
  <1>4. QED
    BY <1>1, <1>3, TablesStay, QuietRead

LEMMA DieStep == ASSUME TInv, NEW a \in Actors, Die(a) PROVE Keeps
  BY TablesStay, QuietDone DEF Die
-----------------------------------------------------------------------------
(* Tidy writes, a row at a time.                                           *)

UsersDrawn(us, at) ==
  /\ us \in Seq(UserRow) /\ DOMAIN user \subseteq DOMAIN us
  /\ \A u \in DOMAIN us :
       us[u].gone \in {0, at} \/ (u \in DOMAIN user /\ us[u].gone = user[u].gone)

\* Row i of the bindings, as a write may leave it.
RowDrawn(bs, at, i) ==
  /\ bs[i].entity # None => bs[i].tenant = TenantOf[bs[i].entity]
  /\ i \in DOMAIN binding =>
       /\ bs[i].user = binding[i].user /\ bs[i].tenant = binding[i].tenant
       /\ binding[i].entity # None => bs[i].entity = binding[i].entity
  /\ bs[i].gone # 0 => /\ i \in DOMAIN binding /\ bs[i].entity = binding[i].entity
                       /\ bs[i].gone \in {at, binding[i].gone}

Drawn(bs, at) ==
  /\ bs \in Seq(BindingRow) /\ DOMAIN binding \subseteq DOMAIN bs
  /\ \A i \in DOMAIN bs : RowDrawn(bs, at, i)

\* No row, or only row i, has the stamp.
Unstamped(bs, at) == \A i \in DOMAIN bs : bs[i].gone # at
StampedOnly(bs, at, i) == \A j \in DOMAIN bs : j # i => bs[j].gone # at

Owned(us, bs) == \A i \in DOMAIN bs : bs[i].user \in DOMAIN us

LEMMA DrawnTidy ==
    ASSUME NEW us, NEW bs, NEW at, UsersDrawn(us, at), Drawn(bs, at), Owned(us, bs),
           \A i, j \in DOMAIN bs : i # j /\ bs[i].gone = at /\ bs[j].gone = at /\ at # 0 =>
             i \in LiveOf(binding) /\ j \in LiveOf(binding)
    PROVE  Tidy(us, bs, at)
  BY DEF Tidy, RowsOK, Grown, Stamped, UsersDrawn, Drawn, RowDrawn, Owned

LEMMA UsersAsTheyAre == ASSUME RowsInv, NEW at PROVE UsersDrawn(user, at)
  BY DEF RowsInv, RowsOK, UsersDrawn

LEMMA RowsAsTheyAre == ASSUME RowsInv, NEW at PROVE Drawn(binding, at) /\ Owned(user, binding)
  BY DEF RowsInv, RowsOK, Drawn, RowDrawn, Owned

LEMMA UserPut ==
    ASSUME NEW us, NEW at, UsersDrawn(us, at), NEW u \in DOMAIN us, NEW v \in UserRow,
           v.gone \in {0, at, us[u].gone}
    PROVE  UsersDrawn([us EXCEPT ![u] = v], at) /\ DOMAIN [us EXCEPT ![u] = v] = DOMAIN us
  BY DEF UsersDrawn

LEMMA UserAdded ==
    ASSUME NEW us, NEW at, UsersDrawn(us, at), NEW m \in Emails
    PROVE  /\ UsersDrawn(Append(us, NewUser(m)), at)
           /\ DOMAIN Append(us, NewUser(m)) = 1..(Len(us) + 1) /\ Len(us) \in Nat
           /\ DOMAIN us = 1..Len(us)
  <1> DEFINE v == NewUser(m)
  <1>1. v \in UserRow /\ v.gone = 0 /\ us \in Seq(UserRow)
    BY DEF NewUser, UserRow, UsersDrawn
  <1> HIDE DEF v
  <1>2. /\ Append(us, v) \in Seq(UserRow) /\ DOMAIN Append(us, v) = 1..(Len(us) + 1)
        /\ Len(us) \in Nat /\ DOMAIN us = 1..Len(us)
        /\ \A u \in DOMAIN us : Append(us, v)[u] = us[u]
        /\ Append(us, v)[Len(us) + 1] = v
    BY <1>1
  <1>3. \A u \in DOMAIN Append(us, v) : u \in DOMAIN us \/ u = Len(us) + 1
    BY <1>2
  <1>4. UsersDrawn(Append(us, v), at)
    BY <1>1, <1>2, <1>3 DEF UsersDrawn
  <1>5. QED
    BY <1>2, <1>4 DEF v

LEMMA RowPut ==
    ASSUME NEW bs, NEW at, Drawn(bs, at), NEW i \in DOMAIN bs, NEW v \in BindingRow,
           RowDrawn([bs EXCEPT ![i] = v], at, i)
    PROVE  /\ Drawn([bs EXCEPT ![i] = v], at) /\ DOMAIN [bs EXCEPT ![i] = v] = DOMAIN bs
           /\ bs[i].user = v.user => \A us : Owned(us, bs) => Owned(us, [bs EXCEPT ![i] = v])
  <1> DEFINE cs == [bs EXCEPT ![i] = v]
  <1>1. /\ cs \in Seq(BindingRow) /\ DOMAIN cs = DOMAIN bs /\ cs[i] = v
        /\ \A j \in DOMAIN bs \ {i} : cs[j] = bs[j]
    BY DEF Drawn
  <1>2. RowDrawn(cs, at, i)
    OBVIOUS
  <1> HIDE DEF cs
  <1>3. \A j \in DOMAIN bs \ {i} : RowDrawn(cs, at, j)
    BY <1>1 DEF Drawn, RowDrawn
  <1>4. Drawn(cs, at)
    BY <1>1, <1>2, <1>3 DEF Drawn
  <1>5. bs[i].user = v.user => \A us : Owned(us, bs) => Owned(us, cs)
    BY <1>1 DEF Owned
  <1>6. QED
    BY <1>1, <1>4, <1>5 DEF cs

\* A row comes back...
LEMMA RowBack ==
    ASSUME NEW bs, NEW at, Drawn(bs, at), NEW i \in DOMAIN bs
    PROVE  LET cs == [bs EXCEPT ![i] = Back(@)] IN
           /\ Drawn(cs, at) /\ DOMAIN cs = DOMAIN bs
           /\ \A us : Owned(us, bs) => Owned(us, cs)
           /\ \A j \in DOMAIN bs : cs[j].entity = bs[j].entity
           /\ at # 0 => \A j \in DOMAIN bs : bs[j].gone # at => cs[j].gone # at
  <1> DEFINE v == Back(bs[i])
             cs == [bs EXCEPT ![i] = v]
  <1>1. bs[i] \in BindingRow /\ bs \in Seq(BindingRow) /\ RowDrawn(bs, at, i)
    BY RowIn DEF Drawn
  <1>2. /\ v \in BindingRow /\ v.user = bs[i].user /\ v.tenant = bs[i].tenant
        /\ v.entity = bs[i].entity /\ v.gone = 0
    BY <1>1 DEF Back, BindingRow
  <1> HIDE DEF v
  <1>3. cs[i] = v /\ \A j \in DOMAIN bs \ {i} : cs[j] = bs[j]
    BY <1>1
  <1>4. RowDrawn(cs, at, i)
    BY <1>1, <1>2, <1>3 DEF RowDrawn
  <1>5. Drawn(cs, at) /\ DOMAIN cs = DOMAIN bs /\ \A us : Owned(us, bs) => Owned(us, cs)
    BY <1>2, <1>4, RowPut
  <1> HIDE DEF cs
  <1>6. /\ \A j \in DOMAIN bs : cs[j].entity = bs[j].entity
        /\ at # 0 => \A j \in DOMAIN bs : bs[j].gone # at => cs[j].gone # at
    BY <1>2, <1>3
  <1>7. QED
    BY <1>5, <1>6 DEF cs, v

\* ... goes, alone...
LEMMA RowGone ==
    ASSUME NEW bs, NEW at \in Nat, Drawn(bs, at), NEW i \in DOMAIN bs, Unstamped(bs, at),
           i \in DOMAIN binding, bs[i].entity = binding[i].entity
    PROVE  LET cs == [bs EXCEPT ![i] = Gone(@, at)] IN
           /\ Drawn(cs, at) /\ DOMAIN cs = DOMAIN bs /\ StampedOnly(cs, at, i)
           /\ \A us : Owned(us, bs) => Owned(us, cs)
  <1> DEFINE v == Gone(bs[i], at)
             cs == [bs EXCEPT ![i] = v]
  <1>1. bs[i] \in BindingRow /\ bs \in Seq(BindingRow) /\ RowDrawn(bs, at, i)
    BY RowIn DEF Drawn
  <1>2. /\ v \in BindingRow /\ v.user = bs[i].user /\ v.tenant = bs[i].tenant
        /\ v.entity = bs[i].entity /\ v.gone = at
    BY <1>1 DEF Gone, BindingRow
  <1> HIDE DEF v
  <1>3. cs[i] = v /\ \A j \in DOMAIN bs \ {i} : cs[j] = bs[j]
    BY <1>1
  <1>4. RowDrawn(cs, at, i)
    BY <1>1, <1>2, <1>3 DEF RowDrawn
  <1>5. Drawn(cs, at) /\ DOMAIN cs = DOMAIN bs /\ \A us : Owned(us, bs) => Owned(us, cs)
    BY <1>2, <1>4, RowPut
  <1> HIDE DEF cs
  <1>6. StampedOnly(cs, at, i)
    BY <1>3, <1>5 DEF StampedOnly, Unstamped
  <1>7. QED
    BY <1>5, <1>6 DEF cs, v

\* ... or is added.
LEMMA RowAdded ==
    ASSUME NEW bs, NEW at, Drawn(bs, at), NEW u \in Nat, NEW t \in Tenants,
           NEW e \in Entities \cup {None}, e # None => t = TenantOf[e]
    PROVE  LET cs == Append(bs, NewBinding(u, t, e)) IN
           /\ Drawn(cs, at)
           /\ \A i \in DOMAIN bs : cs[i] = bs[i]
           /\ \A i \in DOMAIN cs : i \in DOMAIN bs \/ (cs[i].user = u /\ cs[i].gone = 0)
           /\ \A us : Owned(us, bs) /\ u \in DOMAIN us => Owned(us, cs)
  <1> DEFINE v == NewBinding(u, t, e)
             cs == Append(bs, v)
  <1>1. v \in BindingRow /\ v.user = u /\ v.tenant = t /\ v.entity = e /\ v.gone = 0
    BY DEF NewBinding, BindingRow
  <1>2. bs \in Seq(BindingRow) /\ DOMAIN binding \subseteq DOMAIN bs
    BY DEF Drawn
  <1> HIDE DEF v
  <1>3. /\ cs \in Seq(BindingRow) /\ DOMAIN bs \subseteq DOMAIN cs
        /\ \A i \in DOMAIN bs : cs[i] = bs[i]
        /\ \A i \in DOMAIN cs : i \in DOMAIN bs \/ (i \notin DOMAIN bs /\ cs[i] = v)
    BY <1>1, <1>2
  <1> HIDE DEF cs
  <1>4. \A i \in DOMAIN cs : RowDrawn(cs, at, i)
    BY <1>1, <1>2, <1>3 DEF Drawn, RowDrawn
  <1>5. Drawn(cs, at)
    BY <1>2, <1>3, <1>4 DEF Drawn
  <1>6. \A us : Owned(us, bs) /\ u \in DOMAIN us => Owned(us, cs)
    BY <1>1, <1>3 DEF Owned
  <1>7. QED
    BY <1>1, <1>3, <1>5, <1>6 DEF cs, v

LEMMA LoneTidy ==
    ASSUME NEW us, NEW bs, NEW at, NEW i, UsersDrawn(us, at), Drawn(bs, at), Owned(us, bs),
           at = 0 \/ Unstamped(bs, at) \/ StampedOnly(bs, at, i)
    PROVE  Tidy(us, bs, at)
  BY DrawnTidy DEF Unstamped, StampedOnly

\* A commit that ends the request.
LEMMA CommitDone ==
    ASSUME TInv, NEW a \in Actors, NEW us, NEW bs, NEW at \in Nat,
           Tidy(us, bs, at), StampOf(a, at), Commit(a, us, bs, Idle), TablesOK'
    PROVE  Keeps
  BY IdleFits, CommitStep

\* Many rows at once: those of C come back, or those of B, all live, go.
LEMMA RowsMapped ==
    ASSUME NEW R, NEW rs \in Seq(R), NEW f, f \in [DOMAIN rs -> R]
    PROVE  f \in Seq(R) /\ DOMAIN f = DOMAIN rs
  <1>1. DOMAIN rs = 1..Len(rs) /\ Len(rs) \in Nat
    OBVIOUS
  <1>2. QED
    BY <1>1

LEMMA UserRows ==
    ASSUME NEW v \in UserRow, NEW at \in Nat
    PROVE  /\ Back(v) \in UserRow /\ Back(v).gone = 0 /\ Back(v).email = v.email
           /\ Gone(v, at) \in UserRow /\ Gone(v, at).gone = at /\ Gone(v, at).email = v.email
  BY DEF Back, Gone, UserRow

LEMMA UsersMapped ==
    ASSUME RowsInv, NEW at \in Nat, NEW us, DOMAIN us = DOMAIN user, us = [u \in DOMAIN user |-> us[u]],
           \A u \in DOMAIN user : us[u] \in {user[u], Back(user[u]), Gone(user[u], at)}
    PROVE  UsersDrawn(us, at)
  <1>1. user \in Seq(UserRow) /\ \A u \in DOMAIN user : user[u] \in UserRow
    BY RowIn DEF RowsInv, RowsOK
  <1>2. ASSUME NEW u \in DOMAIN user
        PROVE  us[u] \in UserRow /\ us[u].gone \in {0, at, user[u].gone}
    <2>1. user[u] \in UserRow
      BY <1>1
    <2>2. /\ Back(user[u]) \in UserRow /\ Back(user[u]).gone = 0
          /\ Gone(user[u], at) \in UserRow /\ Gone(user[u], at).gone = at
      BY <2>1, UserRows
    <2>3. QED
      BY <2>1, <2>2
  <1>3. us \in [DOMAIN user -> UserRow]
    BY <1>2
  <1>4. us \in Seq(UserRow)
    BY <1>1, <1>3, RowsMapped
  <1>5. QED
    BY <1>2, <1>4 DEF UsersDrawn

LEMMA BindingsMapped ==
    ASSUME RowsInv, NEW at \in Nat, NEW bs, DOMAIN bs = DOMAIN binding,
           bs = [i \in DOMAIN binding |-> bs[i]],
           \A i \in DOMAIN binding : bs[i] \in {binding[i], Back(binding[i]), Gone(binding[i], at)}
    PROVE  Drawn(bs, at) /\ Owned(user, bs)
  <1>1. RowsOK(user, binding) /\ binding \in Seq(BindingRow)
        /\ \A i \in DOMAIN binding : binding[i] \in BindingRow
    BY RowIn DEF RowsInv, RowsOK
  <1>2. \A i \in DOMAIN binding :
          /\ bs[i] \in BindingRow /\ bs[i].gone \in {0, at, binding[i].gone}
          /\ bs[i].user = binding[i].user /\ bs[i].tenant = binding[i].tenant
          /\ bs[i].entity = binding[i].entity
    BY <1>1 DEF Back, Gone, BindingRow
  <1>3. bs \in [DOMAIN binding -> BindingRow]
    BY <1>2
  <1>4. bs \in Seq(BindingRow)
    BY <1>1, <1>3, RowsMapped
  <1>5. \A i \in DOMAIN binding : RowDrawn(bs, at, i)
    BY <1>1, <1>2 DEF RowsOK, RowDrawn
  <1>6. QED
    BY <1>1, <1>2, <1>4, <1>5 DEF RowsOK, Drawn, Owned

LEMMA ClearedTidy == ASSUME RowsInv, NEW C PROVE Tidy(ClearUsers(C), ClearBindings(C), 0)
  <1>1. UsersDrawn(ClearUsers(C), 0) /\ DOMAIN ClearUsers(C) = DOMAIN user
    BY UsersMapped DEF ClearUsers
  <1>2. Drawn(ClearBindings(C), 0) /\ Owned(user, ClearBindings(C))
    BY BindingsMapped DEF ClearBindings
  <1>3. QED
    BY <1>1, <1>2, LoneTidy DEF Owned

LEMMA GoneTidy ==
    ASSUME RowsInv, NEW at \in Nat, NEW B, B \subseteq LiveOf(binding), NEW us,
           UsersDrawn(us, at), \A i \in DOMAIN binding : binding[i].gone # at \/ at = 0
    PROVE  Tidy(us, [i \in DOMAIN binding |-> IF i \in B THEN Gone(binding[i], at) ELSE binding[i]],
                at)
  <1> DEFINE bs == [i \in DOMAIN binding |-> IF i \in B THEN Gone(binding[i], at) ELSE binding[i]]
  <1>1. Drawn(bs, at) /\ Owned(user, bs)
    BY BindingsMapped
  <1>2. Owned(us, bs)
    BY <1>1 DEF UsersDrawn, Owned
  <1>3. \A i \in DOMAIN bs : i \in DOMAIN binding /\ (i \in B \/ bs[i] = binding[i])
    OBVIOUS
  <1> HIDE DEF bs
  <1>4. QED
    BY <1>1, <1>2, <1>3, DrawnTidy DEF bs

\* A user is bound to a contact: its bare row, or one of the contact, is taken,
\* else a row is added.
LEMMA BoundDrawn ==
    ASSUME NEW bs, NEW at, Drawn(bs, at), NEW u \in Nat, NEW e \in Entities, NEW same,
           same # 0 => /\ same \in DOMAIN bs /\ bs[same].user = u
                       /\ bs[same].tenant = TenantOf[e]
    PROVE  LET cs == BindTo(bs, u, e, same) IN
           /\ Drawn(cs, at)
           /\ \A us : Owned(us, bs) /\ u \in DOMAIN us => Owned(us, cs)
           /\ \A i \in DOMAIN cs : \/ cs[i].gone = 0
                                   \/ i \in DOMAIN bs /\ cs[i] = bs[i]
  <1>0. TenantOf[e] \in Tenants /\ e # None
    BY ConstantsAssumption DEF ConstantsAssumption
  <1>1. CASE same # 0 /\ bs[same].entity \in {None, e}
    <2> DEFINE v == [bs[same] EXCEPT !.gone = 0, !.entity = e]
               cs == [bs EXCEPT ![same] = v]
    <2>1. same \in DOMAIN bs /\ bs[same] \in BindingRow /\ bs \in Seq(BindingRow)
          /\ RowDrawn(bs, at, same) /\ bs[same].tenant = TenantOf[e]
      BY <1>1, RowIn DEF Drawn
    <2>2. /\ v \in BindingRow /\ v.user = bs[same].user /\ v.tenant = bs[same].tenant
          /\ v.entity = e /\ v.gone = 0
      BY <2>1 DEF BindingRow
    <2> HIDE DEF v
    <2>3. cs[same] = v /\ (\A j \in DOMAIN bs \ {same} : cs[j] = bs[j]) /\ DOMAIN cs = DOMAIN bs
      BY <2>1
    <2>4. RowDrawn(cs, at, same)
      BY <1>1, <2>1, <2>2, <2>3 DEF RowDrawn
    <2>5. Drawn(cs, at) /\ \A us : Owned(us, bs) => Owned(us, cs)
      BY <2>1, <2>2, <2>4, RowPut
    <2>6. BindTo(bs, u, e, same) = cs
      BY <1>1 DEF BindTo, v
    <2> HIDE DEF cs
    <2>7. QED
      BY <2>2, <2>3, <2>5, <2>6
  <1>2. CASE ~(same # 0 /\ bs[same].entity \in {None, e})
    <2> DEFINE cs == Append(bs, NewBinding(u, TenantOf[e], e))
    <2>1. BindTo(bs, u, e, same) = cs
      BY <1>2 DEF BindTo
    <2>2. /\ Drawn(cs, at)
          /\ \A i \in DOMAIN bs : cs[i] = bs[i]
          /\ \A i \in DOMAIN cs : i \in DOMAIN bs \/ (cs[i].user = u /\ cs[i].gone = 0)
          /\ \A us : Owned(us, bs) /\ u \in DOMAIN us => Owned(us, cs)
      BY <1>0, RowAdded
    <2> HIDE DEF cs
    <2>3. QED
      BY <2>1, <2>2
  <1>3. QED
    BY <1>1, <1>2

-----------------------------------------------------------------------------
(* The steps that write.                                                   *)

LEMMA GrantStep == ASSUME TInv, NEW a \in Actors, Grant(a) PROVE Keeps
  <1> DEFINE r == req[a]
             e == req[a].e
  <1>1. Fits(req[a]) /\ req[a].pc = "grant" /\ e \in Entities /\ r.m \in Emails
    BY ReqFits DEF Grant, Fits, Named, OfEntity
  <1>2. RowsInv /\ TablesOK' /\ StampOf(a, 0)
    BY TablesStay DEF TInv, Grant, StampOf
  <1>3. /\ UsersDrawn(user, 0) /\ Drawn(binding, 0) /\ Owned(user, binding)
        /\ RowsOK(user, binding)
    BY <1>2, UsersAsTheyAre, RowsAsTheyAre DEF RowsInv
  <1>4. CASE r.b # 0
    <2> DEFINE us == Revived(e, r.b, r.m)
               bs == [binding EXCEPT ![r.b] = Back(@)]
               u == binding[r.b].user
               v == IF KindOf[e] = "vendor_contact" THEN Back(user[u]) ELSE NewUser(r.m)
    <2>1. r.b \in DOMAIN binding /\ u \in DOMAIN user
      BY <1>1, <1>3, <1>4, RowTypes DEF Fits, Read
    <2>2. v \in UserRow /\ v.gone \in {0, 0, user[u].gone}
      <3>1. user[u] \in UserRow
        BY <1>3, <2>1, RowIn DEF RowsOK
      <3>2. QED
        BY <1>1, <3>1 DEF Back, NewUser, UserRow
    <2>3. UsersDrawn(us, 0) /\ DOMAIN us = DOMAIN user
      <3>1. us = [user EXCEPT ![u] = v]
        BY DEF Revived
      <3> HIDE DEF us, v
      <3>2. QED
        BY <1>3, <2>1, <2>2, <3>1, UserPut
    <2>4. Drawn(bs, 0) /\ Owned(user, bs)
      BY <1>3, <2>1, RowBack
    <2>5. Commit(a, us, bs, Idle)
      BY <1>4 DEF Grant
    <2> HIDE DEF us, bs
    <2>6. Tidy(us, bs, 0)
      BY <2>3, <2>4, LoneTidy DEF Owned
    <2>7. QED
      BY <1>2, <2>5, <2>6, CommitDone
  <1>5. CASE r.b = 0 /\ r.u # 0
    <2> DEFINE us == IF r.x = 1 THEN [user EXCEPT ![r.u] = Back(@)] ELSE user
               bs == BindTo(binding, r.u, e, r.y)
    <2>1. r.u \in DOMAIN user /\ r.u \in Nat /\ (r.y # 0 => r.y \in DOMAIN binding
             /\ binding[r.y].user = r.u /\ binding[r.y].tenant = TenantOf[e])
      BY <1>1, <1>5 DEF Fits, Named, Read, Request
    <2>2. UsersDrawn(us, 0) /\ DOMAIN us = DOMAIN user
      <3>1. user[r.u] \in UserRow
        BY <1>3, <2>1, RowIn DEF RowsOK
      <3>2. Back(user[r.u]) \in UserRow /\ Back(user[r.u]).gone = 0
        BY <3>1, UserRows
      <3>3. QED
        BY <1>3, <2>1, <3>2, UserPut
    <2>3. Drawn(bs, 0) /\ Owned(user, bs)
      BY <1>1, <1>3, <2>1, BoundDrawn
    <2>4. Commit(a, us, bs, Idle)
      BY <1>5 DEF Grant
    <2> HIDE DEF us, bs
    <2>5. Tidy(us, bs, 0)
      BY <2>2, <2>3, LoneTidy DEF Owned
    <2>6. QED
      BY <1>2, <2>4, <2>5, CommitDone
  <1>6. CASE r.b = 0 /\ r.u = 0
    <2> DEFINE us == Append(user, NewUser(r.m))
               bs == Append(binding, NewBinding(Len(user) + 1, TenantOf[e], e))
    <2>1. /\ UsersDrawn(us, 0) /\ DOMAIN us = 1..(Len(user) + 1) /\ Len(user) \in Nat
          /\ DOMAIN user = 1..Len(user)
      BY <1>1, <1>3, UserAdded
    <2>2. TenantOf[e] \in Tenants
      BY <1>1, ConstantsAssumption DEF ConstantsAssumption
    <2>3. Owned(us, binding) /\ Len(user) + 1 \in DOMAIN us /\ Len(user) + 1 \in Nat
      BY <1>3, <2>1 DEF Owned
    <2> HIDE DEF us
    <2>4. Drawn(bs, 0) /\ Owned(us, bs)
      BY <1>1, <1>3, <2>2, <2>3, RowAdded
    <2>5. Commit(a, us, bs, Idle)
      BY <1>6 DEF Grant, us
    <2> HIDE DEF bs
    <2>6. Tidy(us, bs, 0)
      BY <2>1, <2>4, LoneTidy
    <2>7. QED
      BY <1>2, <2>5, <2>6, CommitDone
  <1>7. QED
    BY <1>4, <1>5, <1>6

LEMMA RowsOf ==
    ASSUME TInv, NEW at
    PROVE  /\ RowsInv /\ RowsOK(user, binding)
           /\ UsersDrawn(user, at) /\ Drawn(binding, at) /\ Owned(user, binding)
           /\ \A u \in DOMAIN user : user[u] \in UserRow
  <1>1. RowsInv /\ RowsOK(user, binding)
    BY DEF TInv, RowsInv
  <1>2. user \in Seq(UserRow)
    BY <1>1 DEF RowsOK
  <1>3. QED
    BY <1>1, <1>2, UsersAsTheyAre, RowsAsTheyAre, RowIn

\* No row has the stamp of a transaction, nor the next one.
LEMMA NewStamps ==
    ASSUME TInv
    PROVE  /\ clock \in Nat /\ clock # 0 /\ Unstamped(binding, clock)
           /\ \A a \in Actors : req[a].pc \in Stamping =>
                 req[a].at \in Nat /\ Unstamped(binding, req[a].at)
  <1>1. \A i \in DOMAIN binding : binding[i].gone \in Nat /\ binding[i].gone < clock
    BY RowsOf, RowTypes DEF TInv, Past
  <1>2. clock \in Nat \ {0}
    BY DEF TInv, Past
  <1>3. \A a \in Actors : req[a].at \in Nat
    BY DEF TInv, ReqInv, Request
  <1>4. \A a \in Actors : req[a].pc \in Stamping =>
           \A i \in DOMAIN binding : binding[i].gone # req[a].at
    BY DEF TInv, Past
  <1>5. \A i \in DOMAIN binding : binding[i].gone # clock
    BY <1>1, <1>2
  <1>6. QED
    BY <1>2, <1>3, <1>4, <1>5 DEF Unstamped

LEMMA ShuttingStep == ASSUME TInv, NEW a \in Actors, Shutting(a) PROVE Keeps
  <1> DEFINE r == req[a]
             us == IF r.x = 1 THEN [user EXCEPT ![r.u] = Gone(@, r.at)] ELSE user
             bs == [binding EXCEPT ![r.b] = Gone(@, r.at)]
  <1>1. /\ Fits(r) /\ r.pc = "shutting" /\ r.pc \in Stamping
        /\ r.at \in Nat /\ Unstamped(binding, r.at)
    BY ReqFits, NewStamps DEF Shutting, Stamping
  <1>2. TablesOK' /\ StampOf(a, r.at)
    BY <1>1, TablesStay DEF Shutting, StampOf
  <1>3. r.u \in DOMAIN user /\ r.b \in DOMAIN binding
    BY <1>1 DEF Fits, Named, Read
  <1>4. UsersDrawn(us, r.at) /\ DOMAIN us = DOMAIN user
    <2>1. Gone(user[r.u], r.at) \in UserRow /\ Gone(user[r.u], r.at).gone = r.at
      BY <1>1, <1>3, RowsOf, UserRows
    <2>2. UsersDrawn(user, r.at)
      BY RowsOf
    <2>3. QED
      BY <1>3, <2>1, <2>2, UserPut
  <1>5. Drawn(bs, r.at) /\ Owned(user, bs) /\ StampedOnly(bs, r.at, r.b)
    BY <1>1, <1>3, RowsOf, RowGone
  <1>6. Commit(a, us, bs, AfterShut(r))
    BY DEF Shutting
  <1> HIDE DEF us, bs
  <1>7. Tidy(us, bs, r.at)
    BY <1>4, <1>5, LoneTidy DEF Owned
  <1>8. LET n == AfterShut(r) IN
        n \in Request /\ Named(n, us) /\ Read(n, bs) /\ n.pc \notin Stamping
    <2>1. Named(r, us) /\ Read(r, bs)
      BY <1>1, <1>7, ReqStays, ConstantsAssumption DEF Fits, Tidy
    <2>2. QED
      BY <1>1, <2>1, AfterShutFits DEF Fits
  <1>9. QED
    BY <1>1, <1>2, <1>6, <1>7, <1>8, CommitStep

LEMMA ReviveStep == ASSUME TInv, NEW a \in Actors, Revive(a) PROVE Keeps
  <1>1. TablesOK' /\ StampOf(a, 0)
    BY TablesStay DEF Revive, StampOf
  <1>2. PICK C : Commit(a, ClearUsers(C), ClearBindings(C), Idle)
    BY DEF Revive
  <1>3. Tidy(ClearUsers(C), ClearBindings(C), 0)
    BY RowsOf, ClearedTidy
  <1>4. QED
    BY <1>1, <1>2, <1>3, CommitDone

LEMMA ReopenStep == ASSUME TInv, NEW a \in Actors, Reopen(a) PROVE Keeps
  <1>1. TablesOK' /\ StampOf(a, 0)
    BY DEF Reopen, StampOf, TInv, RowsInv, TablesOK
  <1>2. PICK C : Commit(a, ClearUsers(C), ClearBindings(C), Idle)
    BY DEF Reopen
  <1>3. Tidy(ClearUsers(C), ClearBindings(C), 0)
    BY RowsOf, ClearedTidy
  <1>4. QED
    BY <1>1, <1>2, <1>3, CommitDone

LEMMA SyncStep == ASSUME TInv, NEW a \in Actors, Sync(a) PROVE Keeps
  <1> DEFINE u == req[a].u
             v == [user[u] EXCEPT !.email = req[a].m]
             us == IF user[u].gone = 0 THEN [user EXCEPT ![u].email = req[a].m] ELSE user
  <1>1. TablesOK' /\ StampOf(a, 0)
    BY TablesStay DEF Sync, StampOf
  <1>2. Fits(req[a]) /\ u \in DOMAIN user /\ req[a].m \in Emails
    BY ReqFits DEF Sync, Fits, Named
  <1>3. v \in UserRow /\ v.gone = user[u].gone
    BY <1>2, RowsOf DEF UserRow
  <1>4. us \in {[user EXCEPT ![u] = v], user}
    OBVIOUS
  <1>5. Commit(a, us, binding, Idle)
    BY DEF Sync
  <1> HIDE DEF us, v
  <1>6. UsersDrawn(us, 0) /\ DOMAIN us = DOMAIN user
    BY <1>2, <1>3, <1>4, RowsOf, UserPut
  <1>7. Tidy(us, binding, 0)
    BY <1>6, RowsOf, LoneTidy DEF Owned
  <1>8. QED
    BY <1>1, <1>5, <1>7, CommitDone

LEMMA RegisteredStep == ASSUME TInv, NEW a \in Actors, Registered(a) PROVE Keeps
  <1> DEFINE r == req[a]
             us == Append(user, NewUser(r.m))
             bs == Append(binding, NewBinding(Len(user) + 1, r.t, None))
  <1>1. TablesOK' /\ StampOf(a, 0)
    BY TablesStay DEF Registered, StampOf
  <1>2. r.t \in Tenants /\ r.m \in Emails
    BY ReqFits DEF Registered, Fits, Named, OfTenant
  <1>3. /\ UsersDrawn(us, 0) /\ DOMAIN us = 1..(Len(user) + 1) /\ Len(user) \in Nat
        /\ DOMAIN user = 1..Len(user)
    BY <1>2, RowsOf, UserAdded
  <1>4. Owned(us, binding) /\ Len(user) + 1 \in DOMAIN us /\ Len(user) + 1 \in Nat
    BY <1>3, RowsOf DEF Owned
  <1>5. Commit(a, us, bs, Idle)
    BY DEF Registered
  <1> HIDE DEF us
  <1>6. Drawn(bs, 0) /\ Owned(us, bs)
    BY <1>2, <1>4, RowsOf, RowAdded
  <1> HIDE DEF bs
  <1>7. Tidy(us, bs, 0)
    BY <1>3, <1>6, LoneTidy
  <1>8. QED
    BY <1>1, <1>5, <1>7, CommitDone

LEMMA BanStep == ASSUME TInv, NEW a \in Actors, Ban(a) PROVE Keeps
  <1> DEFINE r == req[a]
             B == IF r.todo = {} THEN {} ELSE BoundTo(r.u) \cap LiveOf(binding)
             us == [user EXCEPT ![r.u] = Gone(@, clock)]
             bs == [i \in DOMAIN binding |-> IF i \in B THEN Gone(binding[i], clock) ELSE binding[i]]
             next == Rest([r EXCEPT !.pc = "unseat"])
  <1>1. TablesOK' /\ StampOf(a, clock) /\ clock \in Nat /\ clock # 0 /\ Unstamped(binding, clock)
    BY TablesStay, NewStamps DEF Ban, StampOf
  <1>2. Fits(r) /\ r.pc = "ban" /\ r.u \in DOMAIN user
    BY ReqFits DEF Ban, Fits, Named
  <1>3. UsersDrawn(us, clock)
    <2>1. Gone(user[r.u], clock) \in UserRow /\ Gone(user[r.u], clock).gone = clock
      BY <1>1, <1>2, RowsOf, UserRows
    <2>2. UsersDrawn(user, clock)
      BY RowsOf
    <2>3. QED
      BY <1>2, <2>1, <2>2, UserPut
  <1>4. Tidy(us, bs, clock)
    <2>1. B \subseteq LiveOf(binding)
      OBVIOUS
    <2>2. \A i \in DOMAIN binding : binding[i].gone # clock
      BY <1>1 DEF Unstamped
    <2> HIDE DEF us, B
    <2>3. QED
      BY <1>1, <1>3, <2>1, <2>2, RowsOf, GoneTidy
  <1>5. Commit(a, us, bs, next)
    <2>1. bs = [i \in DOMAIN binding |->
                  IF r.todo # {} /\ i \in BoundTo(r.u) \cap LiveOf(binding)
                  THEN Gone(binding[i], clock) ELSE binding[i]]
      OBVIOUS
    <2> HIDE DEF bs
    <2>2. QED
      BY <2>1 DEF Ban
  <1> HIDE DEF us, bs
  <1>6. next \in Request /\ Named(next, us) /\ Read(next, bs) /\ next.pc \notin Stamping
    <2> DEFINE n == [r EXCEPT !.pc = "unseat"]
    <2>1. Named(r, us) /\ Read(r, bs) /\ r \in Request
      BY <1>2, <1>4, ReqStays, ConstantsAssumption DEF Fits, Tidy
    <2>2. n \in Request /\ (n.todo # {} => Named(n, us) /\ Read(n, bs)) /\ n.pc \notin Stamping
      BY <1>2, <2>1 DEF Request, Named, Read, Pcs, OfEntity, OfTenant, Stamping
    <2> HIDE DEF n
    <2>3. Rest(n) \in Request /\ Named(Rest(n), us) /\ Read(Rest(n), bs) /\ Rest(n).pc \notin Stamping
      BY <2>2, IdleFits, RestFits
    <2>4. QED
      BY <2>3 DEF n
  <1>7. QED
    BY <1>1, <1>4, <1>5, <1>6, CommitStep

LEMMA UnbanStep == ASSUME TInv, NEW a \in Actors, Unban(a) PROVE Keeps
  <1> DEFINE r == req[a]
             C == {i \in DOMAIN binding : \E l \in r.todo : l[1] = i}
             us == [user EXCEPT ![r.u] = Back(@)]
             bs == ClearBindings(C)
             next == Rest([r EXCEPT !.pc = "reseat"])
  <1>1. TablesOK' /\ StampOf(a, 0)
    BY TablesStay DEF Unban, StampOf
  <1>2. Fits(r) /\ r.pc = "unban" /\ r.u \in DOMAIN user
    BY ReqFits DEF Unban, Fits, Named
  <1>3. UsersDrawn(us, 0) /\ DOMAIN us = DOMAIN user
    <2>1. Back(user[r.u]) \in UserRow /\ Back(user[r.u]).gone = 0
      BY <1>2, RowsOf, UserRows
    <2>2. UsersDrawn(user, 0)
      BY RowsOf
    <2>3. QED
      BY <1>2, <2>1, <2>2, UserPut
  <1>4. Drawn(bs, 0) /\ Owned(user, bs)
    <2>1. RowsInv
      BY RowsOf
    <2>2. QED
      BY <2>1, BindingsMapped DEF ClearBindings
  <1>5. Commit(a, us, bs, next)
    <2>1. bs = [i \in DOMAIN binding |-> IF \E l \in r.todo : l[1] = i THEN Back(binding[i])
                                         ELSE binding[i]]
      BY DEF ClearBindings
    <2> HIDE DEF bs
    <2>2. QED
      BY <2>1 DEF Unban
  <1> HIDE DEF us, bs
  <1>6. Tidy(us, bs, 0)
    BY <1>3, <1>4, LoneTidy DEF Owned
  <1>7. next \in Request /\ Named(next, us) /\ Read(next, bs) /\ next.pc \notin Stamping
    <2> DEFINE n == [r EXCEPT !.pc = "reseat"]
    <2>1. Named(r, us) /\ Read(r, bs) /\ r \in Request
      BY <1>2, <1>6, ReqStays, ConstantsAssumption DEF Fits, Tidy
    <2>2. n \in Request /\ (n.todo # {} => Named(n, us) /\ Read(n, bs)) /\ n.pc \notin Stamping
      BY <1>2, <2>1 DEF Request, Named, Read, Pcs, OfEntity, OfTenant, Stamping
    <2> HIDE DEF n
    <2>3. Rest(n) \in Request /\ Named(Rest(n), us) /\ Read(Rest(n), bs) /\ Rest(n).pc \notin Stamping
      BY <2>2, IdleFits, RestFits
    <2>4. QED
      BY <2>3 DEF n
  <1>8. QED
    BY <1>1, <1>5, <1>6, <1>7, CommitStep

LEMMA EvictStep == ASSUME TInv, NEW a \in Actors, Evict(a) PROVE Keeps
  <1> DEFINE r == req[a]
             B == InTenant(r.t) \cap LiveOf(binding)
             left == {binding[i].user : i \in B} \ {binding[i].user : i \in LiveOf(binding) \ B}
             us == [u \in DOMAIN user |-> IF u \in left /\ user[u].gone = 0
                                          THEN Gone(user[u], r.at) ELSE user[u]]
             bs == [i \in DOMAIN binding |-> IF i \in B THEN Gone(binding[i], r.at) ELSE binding[i]]
  <1>1. r.pc \in Stamping /\ r.at \in Nat /\ Unstamped(binding, r.at)
    BY NewStamps DEF Evict, Stamping
  <1>2. TablesOK' /\ StampOf(a, r.at)
    BY <1>1, TablesStay DEF Evict, StampOf
  <1>3. UsersDrawn(us, r.at)
    <2>1. RowsInv
      BY RowsOf
    <2> HIDE DEF left
    <2>2. QED
      BY <1>1, <2>1, UsersMapped
  <1>4. Commit(a, us, bs, Idle)
    BY DEF Evict
  <1>5. Tidy(us, bs, r.at)
    <2>1. B \subseteq LiveOf(binding)
      OBVIOUS
    <2>2. \A i \in DOMAIN binding : binding[i].gone # r.at
      BY <1>1 DEF Unstamped
    <2> HIDE DEF us, B
    <2>3. QED
      BY <1>1, <1>3, <2>1, <2>2, RowsOf, GoneTidy
  <1> HIDE DEF us, bs
  <1>6. QED
    BY <1>1, <1>2, <1>4, <1>5, CommitDone

LEMMA SwappedStep == ASSUME TInv, NEW a \in Actors, Swapped(a) PROVE Keeps
  <1> DEFINE r == req[a]
             shut == [binding EXCEPT ![r.b] = Gone(@, clock)]
             raced == Owner(r.m)
             match == IF r.u # 0 THEN r.u
                      ELSE IF raced # 0 /\ user[raced].gone = 0 THEN raced ELSE 0
             same == IF r.u = 0 THEN 0 ELSE SameTenant(r.u, TenantOf[r.e], shut)
             us == IF match = 0 THEN Append(user, NewUser(r.m))
                   ELSE IF r.x = 1 /\ user[match].gone # 0 THEN [user EXCEPT ![match] = Back(@)]
                   ELSE user
             owner == IF match = 0 THEN Len(user) + 1 ELSE match
             bs == BindTo(shut, owner, r.e, same)
  <1>1. /\ Fits(r) /\ r.pc = "swap" /\ r.e \in Entities /\ r.m \in Emails
        /\ r.b \in DOMAIN binding /\ (r.u # 0 => r.u \in DOMAIN user)
    BY ReqFits DEF Swapped, Fits, Named, Read, OfEntity
  <1>2. TablesOK' /\ StampOf(a, clock) /\ clock \in Nat /\ clock # 0 /\ Unstamped(binding, clock)
    BY TablesStay, NewStamps DEF Swapped, StampOf
  <1>3. (Done(a) /\ UNCHANGED <<user, binding>>) \/ Commit(a, us, bs, Idle)
    BY DEF Swapped
  <1>4. match # 0 => match \in DOMAIN user
    BY <1>1, OwnerIn
  <1>5. Drawn(shut, clock) /\ Owned(user, shut) /\ StampedOnly(shut, clock, r.b)
        /\ DOMAIN shut = DOMAIN binding
    BY <1>1, <1>2, RowsOf, RowGone
  <1> HIDE DEF shut, match
  <1>6. /\ UsersDrawn(us, clock) /\ owner \in DOMAIN us /\ owner \in Nat
        /\ DOMAIN user \subseteq DOMAIN us /\ (r.u # 0 => owner = r.u)
    <2>1. UsersDrawn(user, clock) /\ RowsOK(user, binding)
      BY RowsOf
    <2>2. CASE match = 0
      <3>1. /\ UsersDrawn(us, clock) /\ DOMAIN us = 1..(Len(user) + 1) /\ Len(user) \in Nat
            /\ DOMAIN user = 1..Len(user)
        BY <1>1, <2>1, <2>2, UserAdded
      <3>2. r.u = 0
        BY <1>1, <2>2, RowTypes, <2>1 DEF match
      <3> HIDE DEF us
      <3>3. QED
        BY <2>2, <3>1, <3>2
    <2>3. CASE match # 0
      <3>1. Back(user[match]) \in UserRow /\ Back(user[match]).gone = 0
        BY <1>4, <2>3, RowsOf, UserRows
      <3>2. us \in {user, [user EXCEPT ![match] = Back(user[match])]}
        BY <2>3
      <3> HIDE DEF us
      <3>3. UsersDrawn(us, clock) /\ DOMAIN us = DOMAIN user
        BY <1>4, <2>1, <2>3, <3>1, <3>2, UserPut
      <3>4. match \in Nat
        BY <1>4, <2>1, <2>3, RowTypes
      <3>5. r.u # 0 => match = r.u
        BY DEF match
      <3>6. QED
        BY <1>4, <2>3, <3>3, <3>4, <3>5
    <2>4. QED
      BY <2>2, <2>3
  <1> HIDE DEF us, owner
  <1>7. same # 0 => /\ same \in DOMAIN shut /\ shut[same].user = owner
                    /\ shut[same].tenant = TenantOf[r.e]
    <2>1. CASE r.u = 0
      BY <2>1
    <2>2. CASE r.u # 0
      <3>1. shut \in Seq(BindingRow)
        BY <1>5 DEF Drawn
      <3>2. QED
        BY <1>6, <2>2, <3>1, SameTenantIn
    <2>3. QED
      BY <2>1, <2>2
  <1> HIDE DEF same
  <1>8. /\ Drawn(bs, clock) /\ Owned(us, bs)
        /\ \A i \in DOMAIN bs : bs[i].gone = 0 \/ (i \in DOMAIN shut /\ bs[i] = shut[i])
    <2>1. Owned(us, shut)
      BY <1>5, <1>6 DEF Owned
    <2>2. QED
      BY <1>1, <1>5, <1>6, <1>7, <2>1, BoundDrawn
  <1> HIDE DEF bs
  <1>9. StampedOnly(bs, clock, r.b)
    BY <1>2, <1>5, <1>8 DEF StampedOnly
  <1>10. Tidy(us, bs, clock)
    BY <1>6, <1>8, <1>9, LoneTidy
  <1>11. CASE Commit(a, us, bs, Idle)
    BY <1>2, <1>10, <1>11, CommitDone
  <1>12. CASE Done(a) /\ UNCHANGED <<user, binding>>
    <2>1. Go(a, Idle) /\ clock' = clock + 1
      BY <1>12 DEF Done, Swapped
    <2>2. QED
      BY <1>2, <1>12, <2>1, IdleFits, QuietStep
  <1>13. QED
    BY <1>3, <1>11, <1>12

\* The rows between the cascades of an import: no stamp is written yet, no row
\* added; and at the end.
Midway(s) ==
  /\ UsersDrawn(s.user, clock) /\ Drawn(s.binding, clock) /\ Owned(s.user, s.binding)
  /\ Unstamped(s.binding, clock) /\ DOMAIN s.binding = DOMAIN binding
  /\ \A i \in DOMAIN binding : s.binding[i].entity = binding[i].entity

LEMMA MidwayTidy == ASSUME NEW s, Midway(s) PROVE Tidy(s.user, s.binding, clock)
  BY LoneTidy DEF Midway

\* The row a cascade finds for an entity.
LEMMA MidwayRow ==
    ASSUME NEW s, Midway(s), NEW B, B \subseteq DOMAIN s.binding, B # {}
    PROVE  LET b == Newest(B) IN
           /\ b \in B /\ s.binding[b].user \in DOMAIN s.user
           /\ s.user[s.binding[b].user] \in UserRow
  <1>1. Newest(B) \in B
    BY NewestIn DEF Midway, Drawn
  <1>2. s.binding[Newest(B)].user \in DOMAIN s.user
    BY <1>1 DEF Midway, Owned
  <1>3. QED
    BY <1>1, <1>2, RowIn DEF Midway, UsersDrawn

LEMMA MidwayUser ==
    ASSUME NEW s, Midway(s), NEW u \in DOMAIN s.user, NEW v \in UserRow,
           v.gone \in {0, s.user[u].gone}
    PROVE  LET us == [s.user EXCEPT ![u] = v] IN
           UsersDrawn(us, clock) /\ Owned(us, s.binding) /\ DOMAIN us = DOMAIN s.user
  <1>1. UsersDrawn(s.user, clock) /\ v.gone \in {0, clock, s.user[u].gone}
    BY DEF Midway
  <1>2. UsersDrawn([s.user EXCEPT ![u] = v], clock)
        /\ DOMAIN [s.user EXCEPT ![u] = v] = DOMAIN s.user
    BY <1>1, UserPut
  <1>3. QED
    BY <1>2 DEF Midway, Owned

LEMMA SyncedMidway ==
    ASSUME NEW s, Midway(s), NEW e, NEW m \in Emails,
           s = [user |-> s.user, binding |-> s.binding]
    PROVE  Midway(Synced(e, m, s)) /\ Synced(e, m, s).binding = s.binding
           /\ Synced(e, m, s) = [user |-> Synced(e, m, s).user, binding |-> s.binding]
  <1> DEFINE B == {i \in LiveOf(s.binding) : s.binding[i].entity = e}
             u == s.binding[Newest(B)].user
             v == [s.user[u] EXCEPT !.email = m]
             us == [s.user EXCEPT ![u] = v]
  <1>1. CASE Synced(e, m, s) = s
    BY <1>1
  <1>2. CASE B # {} /\ Synced(e, m, s) # s
    <2>1. B \subseteq DOMAIN s.binding
      BY DEF LiveOf
    <2>2. u \in DOMAIN s.user /\ s.user[u] \in UserRow
      BY <1>2, <2>1, MidwayRow
    <2>3. Synced(e, m, s) = [s EXCEPT !.user = us]
      BY <1>2 DEF Synced
    <2>4. v \in UserRow /\ v.gone = s.user[u].gone
      BY <2>2 DEF UserRow
    <2> HIDE DEF u, v
    <2>5. UsersDrawn(us, clock) /\ Owned(us, s.binding)
      BY <2>2, <2>4, MidwayUser
    <2> HIDE DEF us
    <2>6. [s EXCEPT !.user = us] = [user |-> us, binding |-> s.binding]
      OBVIOUS
    <2>7. QED
      BY <2>3, <2>5, <2>6 DEF Midway
  <1>3. QED
    BY <1>1, <1>2 DEF Synced

LEMMA OnMidway ==
    ASSUME NEW s, Midway(s), NEW e, NEW m \in Emails \cup {None}, clock # 0
    PROVE  Midway(On(e, m, s))
  <1> DEFINE B == {i \in DOMAIN s.binding : s.binding[i].entity = e}
             b == LiveFirst(B, s.binding)
             u == s.binding[b].user
             v == NewUser(IF m = None THEN s.user[u].email ELSE m)
             us == [s.user EXCEPT ![u] = v]
             bs == [s.binding EXCEPT ![b] = Back(@)]
  <1>1. CASE b = 0
    BY <1>1 DEF On
  <1>2. CASE b # 0
    <2>1. s.binding \in Seq(BindingRow)
      BY DEF Midway, Drawn
    <2>2. b \in DOMAIN s.binding
      BY <1>2, <2>1, LiveFirstIn
    <2> HIDE DEF b
    <2>3. u \in DOMAIN s.user /\ s.user[u] \in UserRow
      BY <2>2, RowIn DEF Midway, Owned, UsersDrawn
    <2>4. v \in UserRow /\ v.gone = 0
      BY <2>3 DEF NewUser, UserRow
    <2> HIDE DEF v
    <2>5. UsersDrawn(us, clock) /\ Owned(us, s.binding) /\ DOMAIN us = DOMAIN s.user
      BY <2>3, <2>4, MidwayUser
    <2>6. /\ Drawn(bs, clock) /\ DOMAIN bs = DOMAIN s.binding
          /\ \A ws : Owned(ws, s.binding) => Owned(ws, bs)
          /\ \A j \in DOMAIN s.binding : bs[j].entity = s.binding[j].entity
          /\ \A j \in DOMAIN s.binding : s.binding[j].gone # clock => bs[j].gone # clock
      BY <2>2, RowBack DEF Midway
    <2>7. On(e, m, s) = [user |-> us, binding |-> bs]
      BY <1>2 DEF On, b, v
    <2> HIDE DEF us, bs
    <2>8. QED
      BY <2>5, <2>6, <2>7 DEF Midway, Unstamped
  <1>3. QED
    BY <1>1, <1>2

LEMMA OffTidy ==
    ASSUME NEW s, Midway(s), NEW e, clock \in Nat
    PROVE  Tidy(Off(e, s).user, Off(e, s).binding, clock)
  <1> DEFINE B == {i \in LiveOf(s.binding) : s.binding[i].entity = e}
             b == Newest(B)
             u == s.binding[b].user
             us == [s.user EXCEPT ![u] = Gone(@, clock)]
             bs == [s.binding EXCEPT ![b] = Gone(@, clock)]
  <1>1. CASE B = {}
    BY <1>1, MidwayTidy DEF Off
  <1>2. CASE B # {}
    <2>1. B \subseteq DOMAIN s.binding
      BY DEF LiveOf
    <2>2. b \in DOMAIN s.binding /\ u \in DOMAIN s.user /\ s.user[u] \in UserRow
      BY <1>2, <2>1, MidwayRow
    <2>3. Off(e, s) = [user |-> us, binding |-> bs]
      BY <1>2 DEF Off
    <2> HIDE DEF B, b
    <2>4. Gone(s.user[u], clock) \in UserRow /\ Gone(s.user[u], clock).gone = clock
      BY <2>2, UserRows
    <2>5. UsersDrawn(us, clock) /\ DOMAIN us = DOMAIN s.user
      BY <2>2, <2>4, UserPut DEF Midway
    <2>6. Drawn(bs, clock) /\ StampedOnly(bs, clock, b) /\ Owned(s.user, bs)
      BY <2>2, RowGone DEF Midway
    <2> HIDE DEF us, bs
    <2>7. Owned(us, bs)
      BY <2>5, <2>6 DEF Owned
    <2>8. Tidy(us, bs, clock)
      BY <2>5, <2>6, <2>7, LoneTidy
    <2>9. QED
      BY <2>3, <2>8
  <1>3. QED
    BY <1>1, <1>2

LEMMA EnableTidy ==
    ASSUME NEW s, Midway(s), NEW e \in Entities, NEW m \in Emails, clock \in Nat, clock # 0
    PROVE  Tidy(Enable(e, m, s).user, Enable(e, m, s).binding, clock)
  <1> DEFINE us == Append(s.user, NewUser(m))
             bs == Append(s.binding, NewBinding(Len(s.user) + 1, TenantOf[e], e))
  <1>1. CASE Enable(e, m, s) = s
    BY <1>1, MidwayTidy
  <1>2. CASE Enable(e, m, s) = On(e, m, s)
    BY <1>2, OnMidway, MidwayTidy
  <1>3. CASE Enable(e, m, s) = [user |-> us, binding |-> bs]
    <2>1. /\ UsersDrawn(us, clock) /\ DOMAIN us = 1..(Len(s.user) + 1) /\ Len(s.user) \in Nat
          /\ DOMAIN s.user = 1..Len(s.user)
      BY UserAdded DEF Midway
    <2>2. TenantOf[e] \in Tenants
      BY ConstantsAssumption DEF ConstantsAssumption
    <2>3. Owned(us, s.binding) /\ Len(s.user) + 1 \in DOMAIN us /\ Len(s.user) + 1 \in Nat
      BY <2>1 DEF Midway, Owned
    <2> HIDE DEF us
    <2>4. /\ Drawn(bs, clock) /\ Owned(us, bs)
          /\ \A i \in DOMAIN s.binding : bs[i] = s.binding[i]
          /\ \A i \in DOMAIN bs : i \in DOMAIN s.binding \/ bs[i].gone = 0
      <3>1. Drawn(s.binding, clock)
        BY DEF Midway
      <3>2. PICK k \in Nat : k = Len(s.user) + 1 /\ k \in DOMAIN us
        BY <2>3
      <3>3. bs = Append(s.binding, NewBinding(k, TenantOf[e], e))
        BY <3>2
      <3>4. LET cs == Append(s.binding, NewBinding(k, TenantOf[e], e)) IN
            /\ Drawn(cs, clock)
            /\ \A i \in DOMAIN s.binding : cs[i] = s.binding[i]
            /\ \A i \in DOMAIN cs : i \in DOMAIN s.binding \/ (cs[i].user = k /\ cs[i].gone = 0)
            /\ \A vs : Owned(vs, s.binding) /\ k \in DOMAIN vs => Owned(vs, cs)
        BY <2>2, <3>1, RowAdded
      <3> HIDE DEF bs
      <3>5. QED
        BY <2>3, <3>2, <3>3, <3>4
    <2> HIDE DEF bs
    <2>5. Unstamped(bs, clock)
      BY <2>4 DEF Midway, Unstamped
    <2>6. Tidy(us, bs, clock)
      BY <2>1, <2>4, <2>5, LoneTidy
    <2>7. QED
      BY <1>3, <2>6
  <1>4. QED
    BY <1>1, <1>2, <1>3 DEF Enable

LEMMA ImportedStep == ASSUME TInv, NEW a \in Actors, Imported(a) PROVE Keeps
  <1> DEFINE r == req[a]
             e == r.e
             will == r.b = 1
             was == r.y \in {2, 3}
             gone == r.x = 1
             wasGone == r.y \in {1, 3}
             s0 == [user |-> user, binding |-> binding]
             s1 == IF will /\ ~gone THEN Synced(e, r.m, s0) ELSE s0
             s2 == IF ~wasGone /\ gone /\ was THEN Off(e, s1) ELSE s1
             s3 == IF wasGone /\ ~gone /\ was THEN On(e, None, s2) ELSE s2
             s4 == IF ~gone /\ was /\ ~will THEN Off(e, s3) ELSE s3
             s5 == IF ~gone /\ ~was /\ will THEN Enable(e, r.m, s4) ELSE s4
  <1>1. /\ e \in Entities /\ (will => r.m \in Emails)
    BY ReqFits DEF Imported, Fits, Named, OfEntity
  <1>2. clock \in Nat /\ clock # 0 /\ Unstamped(binding, clock) /\ StampOf(a, clock)
    BY NewStamps DEF Imported, StampOf
  <1>3. Midway(s0)
    BY <1>2, RowsOf DEF Midway
  <1>4. Midway(s1)
    BY <1>1, <1>3, SyncedMidway
  <1>5. Tidy(s5.user, s5.binding, clock)
    <2> HIDE DEF s1
    <2>1. CASE gone
      <3>1. s5 = s2 /\ (s2 = s1 \/ s2 = Off(e, s1))
        BY <2>1
      <3> HIDE DEF s2, s5
      <3>2. QED
        BY <1>2, <1>4, <3>1, OffTidy, MidwayTidy
    <2>2. CASE ~gone
      <3>1. s2 = s1 /\ (s3 = s1 \/ s3 = On(e, None, s1))
        BY <2>2
      <3>2. Midway(s3)
        <4> HIDE DEF s2, s3
        <4>1. QED
          BY <1>2, <1>4, <3>1, OnMidway
      <3> HIDE DEF s2, s3
      <3>3. s5 = s3 \/ s5 = Off(e, s3) \/ (will /\ s5 = Enable(e, r.m, s3))
        BY <2>2
      <3> HIDE DEF s4, s5
      <3>4. QED
        BY <1>1, <1>2, <3>2, <3>3, OffTidy, MidwayTidy, EnableTidy
    <2>3. QED
      BY <2>1, <2>2
  <1>6. /\ Commit(a, s5.user, s5.binding, Idle)
        /\ \/ UNCHANGED entity
           \/ entity' = [entity EXCEPT ![e] =
                           [row |-> IF gone THEN "archived" ELSE "live", app |-> will]]
        /\ UNCHANGED tenant
    BY DEF Imported
  <1> HIDE DEF s5
  <1>7. TablesOK'
    <2>1. [row |-> IF gone THEN "archived" ELSE "live", app |-> will] \in EntityRow
      BY DEF EntityRow
    <2>2. QED
      BY <1>1, <1>6, <2>1, TablesStay, EntityWritten
  <1>8. QED
    BY <1>2, <1>5, <1>6, <1>7, CommitDone

-----------------------------------------------------------------------------
(* The rows are well formed.                                               *)

LEMMA RowsTyped ==
    ASSUME NEW R, NEW Q, NEW rs \in Seq(R), rs \in [DOMAIN rs -> Q] PROVE rs \in Seq(Q)
  <1>1. DOMAIN rs = 1..Len(rs) /\ Len(rs) \in Nat
    OBVIOUS
  <1>2. QED
    BY <1>1

LEMMA InitTInv == Init => TInv
  <1> SUFFICES ASSUME Init PROVE TInv
    OBVIOUS
  <1>1. PICK s \in Start : entity = s.entity /\ user = s.user /\ binding = s.binding
    BY DEF Init
  <1>2. /\ entity \in [Entities -> EntityRow]
        /\ user \in Seq([email : Emails, gone : {0}])
        /\ binding \in Seq([user : DOMAIN user, tenant : Tenants,
                            entity : Entities \cup {None}, gone : {0}])
        /\ \A i \in DOMAIN binding :
              binding[i].entity # None => binding[i].tenant = TenantOf[binding[i].entity]
        /\ Unique(user, binding)
    BY <1>1, StartAssumption
  <1>3. DOMAIN user \subseteq Nat
    BY <1>2
  <1>4. \A u \in DOMAIN user : user[u] \in [email : Emails, gone : {0}]
    BY <1>2, RowIn
  <1>5. \A i \in DOMAIN binding :
           binding[i] \in [user : DOMAIN user, tenant : Tenants,
                           entity : Entities \cup {None}, gone : {0}]
    BY <1>2, RowIn
  <1>6. user \in Seq(UserRow)
    <2>1. \A u \in DOMAIN user : user[u] \in UserRow
      BY <1>4 DEF UserRow
    <2>2. user = [u \in DOMAIN user |-> user[u]]
      BY <1>2
    <2>3. user \in [DOMAIN user -> UserRow]
      BY <2>1, <2>2
    <2>4. QED
      BY <1>2, <2>3, RowsTyped
  <1>7. binding \in Seq(BindingRow)
    <2>1. \A i \in DOMAIN binding : binding[i] \in BindingRow
      BY <1>3, <1>5 DEF BindingRow
    <2>2. binding = [i \in DOMAIN binding |-> binding[i]]
      BY <1>2
    <2>3. binding \in [DOMAIN binding -> BindingRow]
      BY <2>1, <2>2
    <2>4. QED
      BY <1>2, <2>3, RowsTyped
  <1>8. RowsInv
    BY <1>2, <1>5, <1>6, <1>7 DEF RowsInv, RowsOK, Init
  <1>9. req = [a \in Actors |-> Idle] /\ clock = 1
    BY DEF Init
  <1>10. ReqInv
    BY <1>9, IdleFits DEF ReqInv
  <1>11. Past
    <2>1. /\ \A u \in DOMAIN user : user[u].gone = 0
          /\ \A i \in DOMAIN binding : binding[i].gone = 0
      BY <1>4, <1>5
    <2>2. \A a \in Actors : req[a].pc \notin Stamping
      BY <1>9, IdleFits
    <2>3. QED
      BY <1>9, <2>1, <2>2 DEF Past
  <1>12. Together
    <2>1. \A i \in DOMAIN binding : i \in LiveOf(binding)
      BY <1>5 DEF LiveOf
    <2>2. QED
      BY <1>2, <2>1 DEF Together, Apart, Unique
  <1>13. QED
    BY <1>8, <1>10, <1>11, <1>12 DEF TInv

LEMMA EntityKeeps == ASSUME TInv, NEW a \in Actors, Entity(a) PROVE Keeps
  BY CreateStep, UpdateStep, SwapStep, ChangeEmailStep, ArchiveStep, RestoreStep, SaveStep,
     LookStep, MatchStep, FitStep, GrantStep, FindStep, ShutStep, ShuttingStep, MarkStep,
     RereadStep, ReviveStep,
     SwappedStep, SyncStep DEF Entity

LEMMA PortalUserKeeps == ASSUME TInv, NEW a \in Actors, PortalUser(a) PROVE Keeps
  BY RegisterStep, ArchiveUserStep, RestoreUserStep, RegisteredStep, BanStep, UnseatStep,
     UnbanStep, ReseatStep DEF PortalUser

LEMMA TenantKeeps == ASSUME TInv, NEW a \in Actors, Tenant(a) PROVE Keeps
  BY ArchiveTenantStep, RestoreTenantStep, EvictStep, ReopenStep DEF Tenant

LEMMA SheetKeeps == ASSUME TInv, NEW a \in Actors, Sheet(a) PROVE Keeps
  BY ImportStep, ImportedStep DEF Sheet

LEMMA StepKeeps ==
    ASSUME TInv, NEW a \in Actors, Entity(a) \/ PortalUser(a) \/ Tenant(a) \/ Sheet(a) \/ Die(a)
    PROVE  Keeps
  BY EntityKeeps, PortalUserKeeps, TenantKeeps, SheetKeeps, DieStep

LEMMA StepTInv == TInv /\ [Next]_vars => TInv'
  <1> SUFFICES ASSUME TInv, [Next]_vars PROVE TInv'
    OBVIOUS
  <1>1. CASE UNCHANGED vars
    BY <1>1 DEF vars, TInv, RowsInv, ReqInv, Past, Together
  <1>2. CASE Next
    BY <1>2, StepKeeps DEF Next, Keeps
  <1>3. QED
    BY <1>1, <1>2

LEMMA TInvHolds == Spec => []TInv
  BY InitTInv, StepTInv, PTL DEF Spec

\* Every row is of its type, a binding is of a user there is, and the unique
\* indexes hold, whatever the requests' interleaving and wherever they die.
THEOREM TypeCorrect == Spec => []TypeOK
  <1>1. TInv => TypeOK
    BY DEF TInv, RowsInv, RowsOK, TypeOK
  <1>2. QED
    BY <1>1, TInvHolds, PTL

-----------------------------------------------------------------------------
(* What holds of the tenants and users that no two requests crossed.       *)

\* A request about a tenant has it to itself: nobody archives or restores the
\* tenant under it.
AloneIn(t) == tenant[t] \/ t \in crossed
AloneFor(r) ==
  /\ r.e # None => AloneIn(TenantOf[r.e])
  /\ r.pc = "register" => AloneIn(r.t)
  /\ r.pc = "evict" => ~tenant[r.t] \/ r.t \in crossed
  /\ r.pc = "unban" => \A l \in r.todo : AloneIn(binding[l[1]].tenant)
Alone ==
  /\ \A a \in Actors : AloneFor(req[a])
  /\ \A a, c \in Actors :
       a # c /\ req[a].pc \in {"evict", "reopen"} /\ req[c].pc \in {"evict", "reopen"}
             /\ req[a].t = req[c].t => req[a].t \in crossed

\* A binding of an archived tenant is live only until its archive evicts it.
Evicting(t) == \E a \in Actors : req[a].pc = "evict" /\ req[a].t = t
Closed == \A i \in DOMAIN binding : binding[i].gone = 0 =>
  AloneIn(binding[i].tenant) \/ Evicting(binding[i].tenant)

\* Row i is a live binding of u.
LiveRow(i, u, bs) == bs[i].user = u /\ bs[i].gone = 0
HasLive(u, bs) == \E i \in DOMAIN bs : LiveRow(i, u, bs)

\* What a request decided about its user is still so.
DecidedFor(r, us, bs) ==
  /\ r.pc = "shutting" /\ r.x = 1 => \A i \in DOMAIN bs : LiveRow(i, r.u, bs) => i = r.b
  /\ r.pc = "shutting" /\ r.x = 0 =>
       us[r.u].gone # 0 \/ \E i \in DOMAIN bs : LiveRow(i, r.u, bs) /\ i # r.b
  /\ r.pc \in {"fit", "grant"} /\ r.b = 0 /\ r.u # 0 /\ r.x = 0 => us[r.u].gone = 0
  /\ r.pc = "swap" /\ r.u # 0 /\ r.x = 0 => us[r.u].gone = 0
  /\ r.pc = "ban" /\ r.todo = {} => ~HasLive(r.u, bs)
  /\ r.pc = "unban" /\ r.todo = {} => HasLive(r.u, bs)
Decided == \A a \in Actors : req[a].u \notin crossed => DecidedFor(req[a], user, binding)

\* A user is live as long as it has a live binding, and no longer, unless a
\* swap moved its access.
Fine(u, us, bs, mv) ==
  /\ HasLive(u, bs) => us[u].gone = 0
  /\ us[u].gone = 0 /\ u \notin mv => HasLive(u, bs)
Kept == \A u \in DOMAIN user : ~Excused(u) => Fine(u, user, binding, moved)

Rooted == \A u \in DOMAIN user : \E i \in DOMAIN binding : binding[i].user = u

HInv == Alone /\ Closed /\ Decided /\ Kept /\ Rooted

-----------------------------------------------------------------------------
(* What a step of a request leaves to the others.                          *)

Crossing(a) ==
  /\ crossed \subseteq crossed'
  /\ \A c \in Actors \ {a} :
       /\ UsersOf(req[a]) \cap UsersOf(req[c]) \subseteq crossed'
       /\ req[a].op \in {"close", "open"} =>
            TenantsOf(req[a]) \cap TenantsOf(req[c]) \subseteq crossed'
       /\ req'[a].op \in {"close", "open"} =>
            TenantsOf(req[a])' \cap TenantsOf(req[c])' \subseteq crossed'

LEMMA CrossFacts ==
    ASSUME NEW a, NEW S, Cross(a, S) PROVE Crossing(a) /\ S \subseteq crossed'
  <1>1. crossed' = crossed \cup S
          \cup UNION {Shared(req[a], req[c]) \cup Shared(req[a], req[c])' : c \in Actors \ {a}}
    BY DEF Cross
  <1>2. ASSUME NEW c \in Actors \ {a}
        PROVE  Shared(req[a], req[c]) \subseteq crossed' /\ Shared(req[a], req[c])' \subseteq crossed'
    BY <1>1
  <1>3. ASSUME NEW c \in Actors \ {a}
        PROVE  /\ UsersOf(req[a]) \cap UsersOf(req[c]) \subseteq crossed'
               /\ req[a].op \in {"close", "open"} =>
                    TenantsOf(req[a]) \cap TenantsOf(req[c]) \subseteq crossed'
    BY <1>2 DEF Shared
  <1>4. ASSUME NEW c \in Actors \ {a}
        PROVE  req'[a].op \in {"close", "open"} =>
                 TenantsOf(req[a])' \cap TenantsOf(req[c])' \subseteq crossed'
    BY <1>2 DEF Shared
  <1>5. QED
    BY <1>1, <1>3, <1>4 DEF Crossing

\* Whether a user and its bindings are live does not change.
Same(u, us, bs) ==
  /\ us[u].gone = 0 <=> user[u].gone = 0
  /\ \A i \in DOMAIN bs : bs[i].user = u =>
       i \in DOMAIN binding /\ (bs[i].gone = 0 <=> binding[i].gone = 0)

\* A step of a writes only users its request has to do with, and leaves them
\* consistent; a new user has a binding.
Writes(a) ==
  /\ \A u \in DOMAIN user : u \in UsersOf(req[a]) \/ Same(u, user', binding')
  /\ \A u \in DOMAIN user' : ~Excused(u)' =>
       (u \in DOMAIN user /\ Same(u, user', binding')) \/ Fine(u, user', binding', moved')
  /\ \A u \in DOMAIN user' : u \in DOMAIN user \/ \E i \in DOMAIN binding' : binding'[i].user = u
  /\ moved \subseteq moved'

Others(a) == \A c \in Actors \ {a} : req'[c] = req[c]

LEMMA SameRows ==
    ASSUME NEW us, NEW bs, Grown(us, bs), NEW u \in DOMAIN user, Same(u, us, bs)
    PROVE  /\ \A i : i \in DOMAIN bs /\ LiveRow(i, u, bs) <=> i \in DOMAIN binding /\ LiveRow(i, u, binding)
           /\ us[u].gone = 0 <=> user[u].gone = 0
  BY DEF Grown, Same, LiveRow

LEMMA UserNamed ==
    ASSUME NEW r, r.u # 0 PROVE r.u \in UsersOf(r)
  BY DEF UsersOf

LEMMA DecidedStep ==
    ASSUME TInv, Decided, NEW a \in Actors, Crossing(a), Others(a), Keeps, Writes(a),
           req'[a].u \notin crossed' => DecidedFor(req'[a], user', binding')
    PROVE  Decided'
  <1>1. ASSUME NEW c \in Actors \ {a}, req[c].u \notin crossed'
        PROVE  DecidedFor(req[c], user', binding')
    <2> DEFINE r == req[c]
    <2>1. DecidedFor(r, user, binding)
      BY <1>1 DEF Decided, Crossing
    <2>2. Fits(r)
      BY ReqFits
    <2>3. CASE r.u = 0
      BY <2>2, <2>3 DEF DecidedFor, Fits, Named
    <2>4. CASE r.u # 0
      <3>1. r.u \in DOMAIN user /\ r.u \in UsersOf(r)
        BY <2>2, <2>4, UserNamed DEF Fits, Named
      <3>2. Same(r.u, user', binding')
        BY <1>1, <3>1 DEF Crossing, Writes
      <3>3. /\ \A i : i \in DOMAIN binding' /\ LiveRow(i, r.u, binding')
                      <=> i \in DOMAIN binding /\ LiveRow(i, r.u, binding)
            /\ user'[r.u].gone = 0 <=> user[r.u].gone = 0
        BY <3>1, <3>2, SameRows DEF Keeps
      <3>4. QED
        BY <2>1, <3>3 DEF DecidedFor, HasLive
    <2>5. QED
      BY <2>3, <2>4
  <1>2. QED
    BY <1>1 DEF Decided, Others

LEMMA ExcusedStays ==
    ASSUME Keeps, NEW a, Crossing(a), NEW u, ~Excused(u)' PROVE ~Excused(u)
  <1>1. u \notin crossed
    BY DEF Excused, Crossing
  <1>2. \A i \in BoundTo(u) : i \in BoundTo(u)' /\ binding'[i].tenant = binding[i].tenant
    BY DEF Keeps, Grown, BoundTo
  <1>3. QED
    BY <1>1, <1>2 DEF Excused, Crossing

LEMMA KeptStep ==
    ASSUME TInv, Kept, NEW a \in Actors, Crossing(a), Keeps, Writes(a)
    PROVE  Kept'
  <1>1. ASSUME NEW u \in DOMAIN user', ~Excused(u)'
        PROVE  Fine(u, user', binding', moved')
    <2>1. CASE u \in DOMAIN user /\ Same(u, user', binding')
      <3>1. Fine(u, user, binding, moved)
        BY <1>1, <2>1, ExcusedStays DEF Kept
      <3>2. /\ \A i : i \in DOMAIN binding' /\ LiveRow(i, u, binding')
                      <=> i \in DOMAIN binding /\ LiveRow(i, u, binding)
            /\ user'[u].gone = 0 <=> user[u].gone = 0
        BY <2>1, SameRows DEF Keeps
      <3>3. moved \subseteq moved'
        BY DEF Writes
      <3>4. QED
        BY <3>1, <3>2, <3>3 DEF Fine, HasLive
    <2>2. QED
      BY <1>1, <2>1 DEF Writes
  <1>2. QED
    BY <1>1 DEF Kept

LEMMA RootedStep ==
    ASSUME Rooted, NEW a, Keeps, Writes(a) PROVE Rooted'
  <1>1. ASSUME NEW u \in DOMAIN user' PROVE \E i \in DOMAIN binding' : binding'[i].user = u
    BY DEF Rooted, Keeps, Grown, Writes
  <1>2. QED
    BY <1>1 DEF Rooted

\* A tenant is archived or restored only by a request that has it to itself.
Towards(a) ==
  /\ \A t \in Tenants :
       \/ tenant'[t] = tenant[t]
       \/ tenant'[t] /\ req[a].pc = "reopen" /\ req[a].t = t
       \/ req'[a].pc = "evict" /\ req'[a].t = t
  /\ req[a].pc \in {"evict", "reopen"} => req'[a] = Idle

LEMMA AloneStep ==
    ASSUME TInv, Alone, NEW a \in Actors, Crossing(a), Others(a), Keeps, Towards(a),
           AloneFor(req[a])'
    PROVE  Alone'
  <1>1. \A c \in Actors : Fits(req[c])
    BY ReqFits
  <1>2. /\ req[a].pc \in {"evict", "reopen"} => req[a].op \in {"close", "open"}
        /\ req'[a].pc \in {"evict", "reopen"} => req'[a].op \in {"close", "open"}
    BY <1>1 DEF Fits, Named, Keeps, TInv, ReqInv
  <1>3. ASSUME NEW c \in Actors \ {a}, NEW t \in Tenants, t \in TenantsOf(req[c]),
               t \in TenantsOf(req[c])'
        PROVE  tenant'[t] = tenant[t] \/ t \in crossed'
    <2>1. CASE req[a].pc = "reopen" /\ req[a].t = t
      <3>1. t \in TenantsOf(req[a])
        BY <2>1 DEF TenantsOf
      <3>2. QED
        BY <1>2, <1>3, <2>1, <3>1 DEF Crossing
    <2>2. CASE req'[a].pc = "evict" /\ req'[a].t = t
      <3>1. t \in TenantsOf(req[a])'
        BY <2>2 DEF TenantsOf
      <3>2. QED
        BY <1>2, <1>3, <2>2, <3>1 DEF Crossing
    <2>3. QED
      BY <2>1, <2>2 DEF Towards
  <1>4. ASSUME NEW c \in Actors \ {a} PROVE AloneFor(req[c])'
    <2> DEFINE r == req[c]
    <2>1. r' = r /\ AloneFor(r) /\ Fits(r)
      BY <1>1 DEF Others, Alone
    <2>2. r.e # None => TenantOf[r.e] \in Tenants
      BY <2>1, ConstantsAssumption DEF Fits, Request, ConstantsAssumption
    <2>3. r.e # None => AloneIn(TenantOf[r.e])'
      <3>1. r.e # None => TenantOf[r.e] \in TenantsOf(req[c]) /\ TenantOf[r.e] \in TenantsOf(req[c])'
        BY <2>1, <2>2 DEF TenantsOf
      <3>2. QED
        BY <1>3, <2>1, <2>2, <3>1 DEF AloneFor, AloneIn, Crossing
    <2>4. r.pc \in {"register", "evict"} => r.t \in Tenants
      BY <2>1 DEF Fits, Named, OfTenant
    <2>5. r.pc \in {"register", "evict"} => r.t \in TenantsOf(req[c]) /\ r.t \in TenantsOf(req[c])'
      BY <2>1, <2>4 DEF TenantsOf
    <2>6. r.pc = "register" => AloneIn(r.t)'
      BY <1>3, <2>1, <2>4, <2>5 DEF AloneFor, AloneIn, Crossing
    <2>7. r.pc = "evict" => ~tenant'[r.t] \/ r.t \in crossed'
      BY <1>3, <2>1, <2>4, <2>5 DEF AloneFor, Crossing
    <2>8. ASSUME r.pc = "unban", NEW l \in r.todo PROVE AloneIn(binding[l[1]].tenant)'
      <3> DEFINE i == l[1]
      <3>1. i \in DOMAIN binding /\ binding[i].user = r.u /\ r.u # 0
        BY <2>1, <2>8 DEF Fits, Named, Read
      <3>2. i \in DOMAIN binding' /\ binding'[i].user = r.u /\ binding'[i].tenant = binding[i].tenant
        BY <3>1 DEF Keeps, Grown
      <3>3. binding[i].tenant \in Tenants
        BY <3>1, RowsOf, RowTypes
      <3>4. binding[i].tenant \in TenantsOf(req[c]) /\ binding[i].tenant \in TenantsOf(req[c])'
        BY <2>1, <3>1, <3>2, <3>3 DEF TenantsOf, BoundTo
      <3>5. AloneIn(binding[i].tenant)
        BY <2>1, <2>8 DEF AloneFor
      <3>6. QED
        BY <1>3, <3>2, <3>3, <3>4, <3>5 DEF AloneIn, Crossing
    <2>9. QED
      BY <2>1, <2>3, <2>6, <2>7, <2>8 DEF AloneFor
  <1>5. ASSUME NEW c \in Actors \ {a}, req[c].pc \in {"evict", "reopen"},
               req'[a].pc \in {"evict", "reopen"}, req'[a].t = req[c].t
        PROVE  req[c].t \in crossed'
    <2>1. req[c].t \in Tenants /\ req'[c] = req[c]
      BY <1>1, <1>5 DEF Fits, Named, OfTenant, Others
    <2>2. req[c].t \in TenantsOf(req[a])' /\ req[c].t \in TenantsOf(req[c])'
      BY <1>5, <2>1 DEF TenantsOf
    <2>3. QED
      BY <1>2, <1>5, <2>2 DEF Crossing
  <1>6. ASSUME NEW b \in Actors, NEW c \in Actors, b # c, req'[b].pc \in {"evict", "reopen"},
               req'[c].pc \in {"evict", "reopen"}, req'[b].t = req'[c].t
        PROVE  req'[b].t \in crossed'
    <2>1. CASE b # a /\ c # a
      BY <1>6, <2>1 DEF Alone, Others, Crossing
    <2>2. CASE b = a
      BY <1>5, <1>6, <2>2 DEF Others
    <2>3. CASE c = a
      BY <1>5, <1>6, <2>3 DEF Others
    <2>4. QED
      BY <2>1, <2>2, <2>3
  <1>7. QED
    BY <1>4, <1>6 DEF Alone

\* A binding comes back, or is added, only in a tenant that stays live; an
\* archive has evicted all bindings when it ends.
Admits(a) ==
  /\ \A i \in DOMAIN binding' : binding'[i].gone = 0 =>
       (i \in DOMAIN binding /\ binding[i].gone = 0) \/ AloneIn(binding[i].tenant)'
  /\ req[a].pc = "evict" => \/ req[a].t \in crossed'
                            \/ \A i \in DOMAIN binding' : binding'[i].tenant = req[a].t
                                                           => binding'[i].gone # 0

LEMMA ClosedStep ==
    ASSUME TInv, Closed, NEW a \in Actors, Crossing(a), Others(a), Keeps, Towards(a), Admits(a)
    PROVE  Closed'
  <1>1. ASSUME NEW i \in DOMAIN binding', binding'[i].gone = 0
        PROVE  AloneIn(binding[i].tenant)' \/ Evicting(binding[i].tenant)'
    <2> DEFINE t == binding[i].tenant
    <2>1. CASE AloneIn(binding[i].tenant)'
      BY <2>1
    <2>2. CASE i \in DOMAIN binding /\ binding[i].gone = 0
      <3>1. binding'[i].tenant = t /\ t \in Tenants
        BY <2>2, RowsOf, RowTypes DEF Keeps, Grown
      <3>2. CASE tenant[t] \/ t \in crossed
        <4>1. CASE req'[a].pc = "evict" /\ req'[a].t = t
          BY <3>1, <4>1 DEF Evicting
        <4>2. CASE ~(req'[a].pc = "evict" /\ req'[a].t = t)
          <5>1. tenant'[t] \/ t \in crossed'
            BY <3>1, <3>2, <4>2 DEF Towards, Crossing
          <5>2. QED
            BY <3>1, <5>1 DEF AloneIn
        <4>3. QED
          BY <4>1, <4>2
      <3>3. ASSUME NEW c \in Actors, req[c].pc = "evict", req[c].t = t
            PROVE  AloneIn(binding[i].tenant)' \/ Evicting(binding[i].tenant)'
        <4>1. CASE c = a
          <5>1. t \in crossed'
            BY <1>1, <3>1, <3>3, <4>1 DEF Admits
          <5>2. QED
            BY <3>1, <5>1 DEF AloneIn
        <4>2. CASE c # a
          BY <3>1, <3>3, <4>2 DEF Others, Evicting
        <4>3. QED
          BY <4>1, <4>2
      <3>4. QED
        BY <2>2, <3>2, <3>3 DEF Closed, AloneIn, Evicting
    <2>3. QED
      BY <1>1, <2>1, <2>2 DEF Admits
  <1>2. QED
    BY <1>1 DEF Closed

LEMMA HistoryStep ==
    ASSUME TInv, HInv, NEW a \in Actors, Crossing(a), Others(a), Keeps, Writes(a), Towards(a),
           Admits(a), AloneFor(req[a])',
           req'[a].u \notin crossed' => DecidedFor(req'[a], user', binding')
    PROVE  HInv'
  BY AloneStep, ClosedStep, DecidedStep, KeptStep, RootedStep DEF HInv

\* A step that writes neither table and no tenant.
LEMMA QuietHistory ==
    ASSUME TInv, HInv, NEW a \in Actors, NEW next, Crossing(a), Keeps, Go(a, next),
           UNCHANGED <<tenant, user, binding, moved>>,
           req[a].pc \in {"evict", "reopen"} => next = Idle,
           req[a].pc = "evict" => req[a].t \in crossed',
           AloneFor(req[a])',
           next.u \notin crossed' => DecidedFor(next, user, binding)
    PROVE  HInv'
  <1>1. req'[a] = next /\ Others(a)
    BY DEF TInv, ReqInv, Go, Others
  <1>2. Writes(a)
    BY DEF Writes, Same
  <1>3. Towards(a)
    BY <1>1 DEF Towards
  <1>4. Admits(a)
    BY DEF Admits
  <1>5. QED
    BY <1>1, <1>2, <1>3, <1>4, HistoryStep

\* Nothing is decided yet.
Undecided == {"shutting", "fit", "grant", "swap", "ban", "unban"}

LEMMA UndecidedFor ==
    ASSUME NEW r, r.pc \notin Undecided PROVE \A us, bs : DecidedFor(r, us, bs)
  BY DEF Undecided, DecidedFor

\* The request goes on with the same entity, or ends.
Roots == {"register", "evict", "unban", "reopen"}

LEMMA AloneGoesOn ==
    ASSUME TInv, HInv, NEW a \in Actors, NEW next, crossed \subseteq crossed', Go(a, next),
           UNCHANGED tenant, next.e \in {None, req[a].e}, next.pc \notin Roots
    PROVE  AloneFor(req[a])'
  <1>1. req'[a] = next
    BY DEF TInv, ReqInv, Go
  <1>2. next.e # None => AloneIn(TenantOf[next.e])
    BY DEF HInv, Alone, AloneFor
  <1>3. QED
    BY <1>1, <1>2 DEF AloneFor, AloneIn, Roots

LEMMA QuietGoesOn ==
    ASSUME TInv, HInv, NEW a \in Actors, NEW next, Crossing(a), Keeps, Go(a, next),
           UNCHANGED <<tenant, user, binding, moved>>, req[a].pc \notin {"evict", "reopen"},
           next.e \in {None, req[a].e}, next.pc \notin Roots,
           next.pc \in Undecided /\ next.u \notin crossed' => DecidedFor(next, user, binding)
    PROVE  HInv'
  <1>1. AloneFor(req[a])'
    BY AloneGoesOn DEF Crossing
  <1>2. next.u \notin crossed' => DecidedFor(next, user, binding)
    BY UndecidedFor
  <1>3. QED
    BY <1>1, <1>2, QuietHistory

LEMMA IdleIs == Idle.pc = "idle" /\ Idle.e = None /\ Idle.u = 0 /\ Idle.pc \notin Undecided \cup Roots
  BY DEF Idle, Undecided, Roots

LEMMA SaveHistory ==
    ASSUME TInv, HInv, NEW a \in Actors, Crossing(a), Keeps, Save(a) PROVE HInv'
  <1>1. /\ Goto(a, "look") \/ Goto(a, "find") \/ Done(a)
        /\ UNCHANGED <<tenant, user, binding, moved>> /\ req[a].pc = "save"
    BY DEF Save
  <1>2. Fits(req[a])
    BY ReqFits
  <1>3. PICK next : /\ Go(a, next) /\ next.e \in {None, req[a].e}
                    /\ next.pc \notin Roots \cup Undecided
    <2>1. \A pc \in {"look", "find"} : LET r == [req[a] EXCEPT !.pc = pc] IN
            r.e = req[a].e /\ r.pc \notin Roots \cup Undecided
      BY <1>2 DEF Fits, Request, Roots, Undecided
    <2>2. QED
      BY <1>1, <2>1, IdleIs DEF Goto, Done
  <1>4. QED
    BY <1>1, <1>3, QuietGoesOn

LEMMA LookHistory ==
    ASSUME TInv, HInv, NEW a \in Actors, Crossing(a), Keeps, Look(a) PROVE HInv'
  <1> DEFINE prior == AnyBinding(req[a].e)
             pc == IF KindOf[req[a].e] = "vendor_contact" /\ prior = 0 THEN "match" ELSE "grant"
             r == AfterLook(req[a], pc, prior)
  <1>1. Go(a, r) /\ UNCHANGED <<tenant, user, binding, moved>> /\ req[a].pc = "look"
    BY DEF Look, AfterLook
  <1>2. pc \in {"match", "grant"}
    OBVIOUS
  <1> HIDE DEF prior, pc
  <1>3. r.e = req[a].e /\ r.pc = pc /\ r.u = 0
    BY ReqFits DEF Fits, Request, AfterLook
  <1> HIDE DEF r
  <1>4. DecidedFor(r, user, binding) /\ r.pc \notin Roots
    BY <1>2, <1>3 DEF DecidedFor, Roots
  <1>5. QED
    BY <1>1, <1>3, <1>4, QuietGoesOn

LEMMA MatchHistory ==
    ASSUME TInv, HInv, NEW a \in Actors, Crossing(a), Keeps, Match(a) PROVE HInv'
  <1> DEFINE u == Owner(req[a].m)
             x == IF u # 0 /\ user[u].gone # 0 THEN 1 ELSE 0
             pc == IF u = 0 THEN "grant" ELSE "fit"
             r == AfterMatch(req[a], pc, u, x)
  <1>1. Go(a, r) /\ UNCHANGED <<tenant, user, binding, moved>> /\ req[a].pc = "match"
    BY DEF Match, AfterMatch
  <1>2. pc \in {"fit", "grant"} /\ (u # 0 /\ x = 0 => user[u].gone = 0)
    OBVIOUS
  <1> HIDE DEF u, x, pc
  <1>3. r.e = req[a].e /\ r.pc = pc /\ r.u = u /\ r.x = x
    BY ReqFits DEF Fits, Request, AfterMatch
  <1> HIDE DEF r
  <1>4. DecidedFor(r, user, binding) /\ r.pc \notin Roots
    BY <1>2, <1>3 DEF DecidedFor, Roots
  <1>5. QED
    BY <1>1, <1>3, <1>4, QuietGoesOn

LEMMA FitHistory ==
    ASSUME TInv, HInv, NEW a \in Actors, Crossing(a), Keeps, Fit(a) PROVE HInv'
  <1> DEFINE same == SameTenant(req[a].u, TenantOf[req[a].e], binding)
             r == AfterFit(req[a], same)
  <1>1. /\ Go(a, r) \/ Done(a)
        /\ UNCHANGED <<tenant, user, binding, moved>> /\ req[a].pc = "fit"
    BY DEF Fit, AfterFit
  <1> HIDE DEF same
  <1>2. /\ r.e = req[a].e /\ r.pc = "grant" /\ r.u = req[a].u /\ r.x = req[a].x
        /\ r.b = req[a].b
    BY ReqFits DEF Fits, Request, AfterFit
  <1> HIDE DEF r
  <1>3. req[a].u \notin crossed' => DecidedFor(req[a], user, binding)
    BY DEF HInv, Decided, Crossing
  <1>4. (r.u \notin crossed' => DecidedFor(r, user, binding)) /\ r.pc \notin Roots
    BY <1>1, <1>2, <1>3 DEF DecidedFor, Roots
  <1>5. QED
    BY <1>1, <1>2, <1>4, IdleIs, QuietGoesOn DEF Done

LEMMA FindHistory ==
    ASSUME TInv, HInv, NEW a \in Actors, Crossing(a), Keeps, Find(a) PROVE HInv'
  <1>1. UNCHANGED <<tenant, user, binding, moved>> /\ req[a].pc = "find" /\ Fits(req[a])
    BY ReqFits DEF Find
  <1>2. PICK next : /\ Go(a, next) /\ next.e \in {None, req[a].e}
                    /\ next.pc \notin Roots \cup Undecided
    <2> DEFINE b == ActiveBinding(req[a].e)
               u == binding[b].user
               r == [req[a] EXCEPT !.pc = "shut", !.b = b, !.u = u]
    <2>1. Go(a, r) \/ Go(a, AfterShut(req[a]))
      BY DEF Find
    <2> HIDE DEF b, u
    <2>2. r.e = req[a].e /\ r.pc \notin Roots \cup Undecided
      BY <1>1 DEF Fits, Request, Roots, Undecided
    <2>3. AfterShut(req[a]).e \in {None, req[a].e} /\ AfterShut(req[a]).pc \notin Roots \cup Undecided
      BY <1>1, IdleIs DEF AfterShut, Fits, Request, Roots, Undecided
    <2> HIDE DEF r
    <2>4. QED
      BY <2>1, <2>2, <2>3
  <1>3. QED
    BY <1>1, <1>2, QuietGoesOn

\* The decision to lock the user is right when it is made.
LEMMA ShutHistory ==
    ASSUME TInv, HInv, NEW a \in Actors, Crossing(a), Keeps, Shut(a) PROVE HInv'
  <1> DEFINE last == user[req[a].u].gone = 0 /\ LastOne(req[a].u, req[a].b)
             x == IF last THEN 1 ELSE 0
             r == [req[a] EXCEPT !.pc = "shutting", !.at = clock, !.x = x]
  <1>1. Go(a, r) /\ UNCHANGED <<tenant, user, binding, moved>> /\ req[a].pc = "shut" /\ Fits(req[a])
    BY ReqFits DEF Shut
  <1>2. /\ x = 1 => \A i \in DOMAIN binding : LiveRow(i, req[a].u, binding) => i = req[a].b
        /\ x = 0 => \/ user[req[a].u].gone # 0
                    \/ \E i \in DOMAIN binding : LiveRow(i, req[a].u, binding) /\ i # req[a].b
    BY DEF LastOne, BoundTo, LiveOf, LiveRow
  <1> HIDE DEF x
  <1>3. r.e = req[a].e /\ r.pc = "shutting" /\ r.u = req[a].u /\ r.b = req[a].b /\ r.x = x
    BY <1>1 DEF Fits, Request
  <1> HIDE DEF r
  <1>4. DecidedFor(r, user, binding) /\ r.pc \notin Roots
    BY <1>2, <1>3 DEF DecidedFor, Roots
  <1>5. QED
    BY <1>1, <1>3, <1>4, QuietGoesOn

LEMMA RereadHistory ==
    ASSUME TInv, HInv, NEW a \in Actors, Crossing(a), Keeps, Reread(a) PROVE HInv'
  <1>1. /\ Goto(a, "revive") \/ Done(a)
        /\ UNCHANGED <<tenant, user, binding, moved>> /\ req[a].pc = "reread" /\ Fits(req[a])
    BY ReqFits DEF Reread
  <1>2. LET r == [req[a] EXCEPT !.pc = "revive"] IN
          r.e = req[a].e /\ r.pc \notin Roots \cup Undecided
    BY <1>1 DEF Fits, Request, Roots, Undecided
  <1>3. QED
    BY <1>1, <1>2, IdleIs, QuietGoesOn DEF Goto, Done

LEMMA MarkHistory ==
    ASSUME TInv, HInv, NEW a \in Actors, Crossing(a), Keeps, Mark(a) PROVE HInv'
  <1>1. Go(a, Idle) /\ UNCHANGED <<tenant, user, binding, moved>> /\ req[a].pc = "mark"
    BY DEF Mark, Done
  <1>2. QED
    BY <1>1, IdleIs, QuietGoesOn

LEMMA CascadeHistory ==
    ASSUME TInv, HInv, NEW a \in Actors, Crossing(a), Keeps, Unseat(a) \/ Reseat(a) PROVE HInv'
  <1>1. /\ UNCHANGED <<tenant, user, binding, moved>> /\ req[a].pc \in {"unseat", "reseat"}
        /\ Fits(req[a])
    BY ReqFits DEF Unseat, Reseat
  <1>2. PICK l : Go(a, Rest([req[a] EXCEPT !.todo = @ \ {l}]))
    BY DEF Unseat, Reseat
  <1> DEFINE r == [req[a] EXCEPT !.todo = @ \ {l}]
  <1>3. r.e = req[a].e /\ r.pc = req[a].pc
    BY <1>1 DEF Fits, Request
  <1> HIDE DEF r
  <1>4. Rest(r).e \in {None, req[a].e} /\ Rest(r).pc \notin Roots \cup Undecided
    BY <1>1, <1>3, IdleIs DEF Rest, Roots, Undecided
  <1>5. Go(a, Rest(r))
    BY <1>2 DEF r
  <1>6. QED
    BY <1>1, <1>4, <1>5, QuietGoesOn

\* Whoever dies crosses whatever it had to do with.
LEMMA DieHistory ==
    ASSUME TInv, HInv, NEW a \in Actors, Crossing(a), Keeps, Die(a), Scope(req[a]) \subseteq crossed'
    PROVE  HInv'
  <1>1. Go(a, Idle) /\ UNCHANGED <<tenant, user, binding, moved>>
    BY DEF Die, Done
  <1>2. req[a].pc = "evict" => req[a].t \in crossed'
    <2>1. req[a].pc = "evict" => req[a].t \in Tenants
      BY ReqFits DEF Fits, Named, OfTenant
    <2>2. QED
      BY <2>1 DEF Scope, TenantsOf
  <1>3. AloneFor(req[a])'
    BY <1>1, IdleIs, AloneGoesOn DEF Crossing
  <1>4. \A us, bs : DecidedFor(Idle, us, bs)
    BY IdleIs, UndecidedFor
  <1>5. QED
    BY <1>1, <1>2, <1>3, <1>4, QuietHistory

\* A request begins: the session's tenant is live, its user's tenants are too.
LEMMA QuietBegins ==
    ASSUME TInv, HInv, NEW a \in Actors, NEW next, Crossing(a), Keeps, Go(a, next),
           req[a] = Idle, UNCHANGED <<tenant, user, binding, moved>>, AloneFor(next),
           next.pc \in Undecided => DecidedFor(next, user, binding)
    PROVE  HInv'
  <1>1. req'[a] = next /\ crossed \subseteq crossed'
    BY DEF TInv, ReqInv, Go, Crossing
  <1>2. AloneFor(req[a])'
    BY <1>1 DEF AloneFor, AloneIn
  <1>3. req[a].pc \notin {"evict", "reopen"}
    BY IdleIs
  <1>4. DecidedFor(next, user, binding)
    BY UndecidedFor
  <1>5. QED
    BY <1>2, <1>3, <1>4, QuietHistory

LEMMA EntityBegins ==
    ASSUME TInv, HInv, NEW a \in Actors, NEW next, NEW e \in Entities, Crossing(a), Keeps,
           Go(a, next), req[a] = Idle, UNCHANGED <<tenant, user, binding, moved>>, InSession(e),
           next.e = e, next.pc \notin Roots,
           next.pc \in Undecided => DecidedFor(next, user, binding)
    PROVE  HInv'
  <1>1. AloneFor(next)
    BY DEF AloneFor, AloneIn, InSession, Roots
  <1>2. QED
    BY <1>1, QuietBegins

LEMMA NothingBegins ==
    ASSUME TInv, HInv, NEW a \in Actors, Crossing(a), Keeps, Done(a), req[a] = Idle,
           UNCHANGED <<tenant, user, binding, moved>>
    PROVE  HInv'
  <1>1. AloneFor(Idle)
    BY IdleIs DEF AloneFor, Roots
  <1>2. Go(a, Idle)
    BY DEF Done
  <1>3. QED
    BY <1>1, <1>2, IdleIs, QuietBegins

LEMMA CreateHistory ==
    ASSUME TInv, HInv, NEW a \in Actors, NEW e \in Entities, NEW app \in BOOLEAN, NEW m \in Emails,
           Crossing(a), Keeps, Create(a, e, app, m)
    PROVE  HInv'
  <1> DEFINE r == [Idle EXCEPT !.pc = "look", !.op = "create", !.e = e, !.m = m]
  <1>1. /\ Go(a, r) \/ Done(a)
        /\ req[a] = Idle /\ UNCHANGED <<tenant, user, binding, moved>> /\ InSession(e)
    BY DEF Create, Begin
  <1>2. r.e = e /\ r.pc \notin Roots \cup Undecided
    BY DEF Idle, Roots, Undecided
  <1> HIDE DEF r
  <1>3. QED
    BY <1>1, <1>2, EntityBegins, NothingBegins

LEMMA UpdateHistory ==
    ASSUME TInv, HInv, NEW a \in Actors, NEW e \in Entities, NEW app \in BOOLEAN, NEW m \in Emails,
           Crossing(a), Keeps, Update(a, e, app, m)
    PROVE  HInv'
  <1>1. /\ req[a] = Idle /\ UNCHANGED <<tenant, user, binding, moved>> /\ InSession(e)
    BY DEF Update, Begin
  <1>2. PICK n, x, y : Go(a, [Idle EXCEPT !.pc = "save", !.op = "update", !.e = e,
                                          !.m = n, !.x = x, !.y = y])
    BY DEF Update
  <1> DEFINE r == [Idle EXCEPT !.pc = "save", !.op = "update", !.e = e, !.m = n, !.x = x, !.y = y]
  <1>3. r.e = e /\ r.pc \notin Roots \cup Undecided
    BY DEF Idle, Roots, Undecided
  <1> HIDE DEF r
  <1>4. QED
    BY <1>1, <1>2, <1>3, EntityBegins DEF r

LEMMA ArchiveHistory ==
    ASSUME TInv, HInv, NEW a \in Actors, NEW e \in Entities, Crossing(a), Keeps, Archive(a, e)
    PROVE  HInv'
  <1> DEFINE r == [Idle EXCEPT !.pc = IF entity[e].app THEN "find" ELSE "mark",
                   !.op = "archive", !.e = e]
  <1>1. /\ Go(a, r) /\ req[a] = Idle /\ UNCHANGED <<tenant, user, binding, moved>> /\ InSession(e)
    BY DEF Archive, Begin
  <1>2. r.e = e /\ r.pc \notin Roots \cup Undecided
    BY DEF Idle, Roots, Undecided
  <1> HIDE DEF r
  <1>3. QED
    BY <1>1, <1>2, EntityBegins

LEMMA RestoreHistory ==
    ASSUME TInv, HInv, NEW a \in Actors, NEW e \in Entities, Crossing(a), Keeps, Restore(a, e)
    PROVE  HInv'
  <1> DEFINE r == [Idle EXCEPT !.pc = "reread", !.op = "restore", !.e = e]
  <1>1. /\ Go(a, r) /\ req[a] = Idle /\ UNCHANGED <<tenant, user, binding, moved>> /\ InSession(e)
    BY DEF Restore, Begin
  <1>2. r.e = e /\ r.pc \notin Roots \cup Undecided
    BY DEF Idle, Roots, Undecided
  <1> HIDE DEF r
  <1>3. QED
    BY <1>1, <1>2, EntityBegins

LEMMA SwapHistory ==
    ASSUME TInv, HInv, NEW a \in Actors, NEW e \in Entities, NEW m \in Emails,
           Crossing(a), Keeps, Swap(a, e, m)
    PROVE  HInv'
  <1> DEFINE b == ActiveBinding(e)
             match == Owner(m)
             x == IF match # 0 /\ user[match].gone # 0 THEN 1 ELSE 0
             r == [Idle EXCEPT !.pc = "swap", !.op = "swap", !.e = e, !.m = m, !.b = b,
                   !.u = match, !.x = x]
  <1>1. /\ Go(a, r) /\ req[a] = Idle /\ UNCHANGED <<tenant, user, binding, moved>> /\ InSession(e)
    BY DEF Swap, Begin
  <1>2. match # 0 /\ x = 0 => user[match].gone = 0
    OBVIOUS
  <1> HIDE DEF b, match, x
  <1>3. r.e = e /\ r.pc = "swap" /\ r.u = match /\ r.x = x
    BY DEF Idle
  <1> HIDE DEF r
  <1>4. DecidedFor(r, user, binding) /\ r.pc \notin Roots
    BY <1>2, <1>3 DEF DecidedFor, Roots
  <1>5. QED
    BY <1>1, <1>3, <1>4, EntityBegins

LEMMA ChangeEmailHistory ==
    ASSUME TInv, HInv, NEW a \in Actors, NEW e \in Entities, NEW m \in Emails,
           Crossing(a), Keeps, ChangeEmail(a, e, m)
    PROVE  HInv'
  <1> DEFINE u == binding[ActiveBinding(e)].user
             r == [Idle EXCEPT !.pc = "sync", !.op = "email", !.e = e, !.m = m, !.u = u]
  <1>1. /\ Go(a, r) /\ req[a] = Idle /\ UNCHANGED <<tenant, user, binding, moved>> /\ InSession(e)
    BY DEF ChangeEmail, Begin
  <1> HIDE DEF u
  <1>2. r.e = e /\ r.pc \notin Roots \cup Undecided
    BY DEF Idle, Roots, Undecided
  <1> HIDE DEF r
  <1>3. QED
    BY <1>1, <1>2, EntityBegins

LEMMA ImportHistory ==
    ASSUME TInv, HInv, NEW a \in Actors, NEW e \in Entities, NEW row, NEW app, NEW m,
           Crossing(a), Keeps, Import(a, e, row, app, m)
    PROVE  HInv'
  <1> DEFINE n == IF app THEN m ELSE None
             b == IF app THEN 1 ELSE 0
             x == IF row = "archived" THEN 1 ELSE 0
             y == IF entity[e].app THEN (IF entity[e].row = "archived" THEN 3 ELSE 2)
                  ELSE (IF entity[e].row = "archived" THEN 1 ELSE 0)
             r == [Idle EXCEPT !.pc = "import", !.op = "import", !.e = e,
                               !.m = n, !.b = b, !.x = x, !.y = y]
  <1>1. /\ req[a] = Idle /\ UNCHANGED <<tenant, user, binding, moved>> /\ InSession(e)
    BY DEF Import, Begin
  <1>2. Go(a, r)
    BY DEF Import
  <1> HIDE DEF n, b, x, y
  <1>3. r.e = e /\ r.pc \notin Roots \cup Undecided
    BY DEF Idle, Roots, Undecided
  <1> HIDE DEF r
  <1>4. QED
    BY <1>1, <1>2, <1>3, EntityBegins

LEMMA RegisterHistory ==
    ASSUME TInv, HInv, NEW a \in Actors, NEW t \in Tenants, NEW m,
           Crossing(a), Keeps, Register(a, t, m)
    PROVE  HInv'
  <1> DEFINE r == [Idle EXCEPT !.pc = "register", !.op = "register", !.t = t, !.m = m]
  <1>1. /\ Go(a, r) /\ req[a] = Idle /\ UNCHANGED <<tenant, user, binding, moved>> /\ tenant[t]
    BY DEF Register, Begin
  <1>2. r.e = None /\ r.pc = "register" /\ r.t = t /\ r.pc \notin Undecided
    BY DEF Idle, Undecided
  <1> HIDE DEF r
  <1>3. AloneFor(r)
    BY <1>1, <1>2 DEF AloneFor, AloneIn
  <1>4. QED
    BY <1>1, <1>2, <1>3, QuietBegins

LEMMA ArchiveUserHistory ==
    ASSUME TInv, HInv, NEW a \in Actors, NEW u \in DOMAIN user,
           Crossing(a), Keeps, ArchiveUser(a, u)
    PROVE  HInv'
  <1> DEFINE L == Linked(BoundTo(u) \cap LiveOf(binding))
             r == [Idle EXCEPT !.pc = "ban", !.op = "ban", !.u = u, !.todo = L]
  <1>1. /\ Go(a, r) /\ req[a] = Idle /\ UNCHANGED <<tenant, user, binding, moved>>
    BY DEF ArchiveUser, Begin
  <1>2. L = {} => ~HasLive(u, binding)
    BY DEF Linked, BoundTo, LiveOf, HasLive, LiveRow
  <1> HIDE DEF L
  <1>3. r.e = None /\ r.pc = "ban" /\ r.u = u /\ r.todo = L
    BY DEF Idle
  <1> HIDE DEF r
  <1>4. AloneFor(r) /\ DecidedFor(r, user, binding)
    BY <1>2, <1>3 DEF AloneFor, DecidedFor
  <1>5. QED
    BY <1>1, <1>3, <1>4, QuietBegins

\* A user with no archived binding has a live one: it has at least one.
LEMMA RestoreUserHistory ==
    ASSUME TInv, HInv, NEW a \in Actors, NEW u \in DOMAIN user,
           Crossing(a), Keeps, RestoreUser(a, u)
    PROVE  HInv'
  <1> DEFINE A == BoundTo(u) \ LiveOf(binding)
             B == {i \in A : tenant[binding[i].tenant]}
             L == Linked(B)
             r == [Idle EXCEPT !.pc = "unban", !.op = "unban", !.u = u, !.todo = L]
  <1>1. /\ Go(a, r) /\ req[a] = Idle /\ UNCHANGED <<tenant, user, binding, moved>>
        /\ A = {} \/ B # {}
    BY DEF RestoreUser, Begin
  <1>2. L = {} => HasLive(u, binding)
    <2>1. PICK i \in DOMAIN binding : binding[i].user = u
      BY DEF HInv, Rooted
    <2>2. L = {} => i \in LiveOf(binding)
      BY <1>1, <2>1 DEF Linked, BoundTo
    <2>3. QED
      BY <2>1, <2>2 DEF LiveOf, HasLive, LiveRow
  <1>3. \A l \in L : tenant[binding[l[1]].tenant]
    BY DEF Linked
  <1> HIDE DEF L
  <1>4. r.e = None /\ r.pc = "unban" /\ r.u = u /\ r.todo = L
    BY DEF Idle
  <1> HIDE DEF r
  <1>5. AloneFor(r) /\ DecidedFor(r, user, binding)
    BY <1>2, <1>3, <1>4 DEF AloneFor, AloneIn, DecidedFor
  <1>6. QED
    BY <1>1, <1>4, <1>5, QuietBegins

LEMMA ArchiveTenantHistory ==
    ASSUME TInv, HInv, NEW a \in Actors, NEW t \in Tenants,
           Crossing(a), Keeps, ArchiveTenant(a, t)
    PROVE  HInv'
  <1> DEFINE r == [Idle EXCEPT !.pc = "evict", !.op = "close", !.t = t, !.at = clock]
  <1>1. /\ Go(a, r) /\ req[a] = Idle /\ UNCHANGED <<user, binding, moved>>
        /\ tenant' = [tenant EXCEPT ![t] = FALSE] /\ tenant \in [Tenants -> BOOLEAN]
    BY DEF ArchiveTenant, Begin, TInv, RowsInv
  <1>2. r.e = None /\ r.pc = "evict" /\ r.t = t /\ r.u = 0
    BY DEF Idle
  <1> HIDE DEF r
  <1>3. req'[a] = r /\ Others(a)
    BY <1>1 DEF TInv, ReqInv, Go, Others
  <1>4. Writes(a)
    BY <1>1 DEF Writes, Same
  <1>5. Towards(a) /\ Admits(a)
    BY <1>1, <1>2, <1>3, IdleIs DEF Towards, Admits
  <1>6. AloneFor(req[a])'
    BY <1>1, <1>2, <1>3 DEF AloneFor
  <1>7. DecidedFor(r, user', binding')
    BY <1>2 DEF DecidedFor
  <1>8. QED
    BY <1>3, <1>4, <1>5, <1>6, <1>7, HistoryStep

LEMMA RestoreTenantHistory ==
    ASSUME TInv, HInv, NEW a \in Actors, NEW t, Crossing(a), Keeps, RestoreTenant(a, t)
    PROVE  HInv'
  <1> DEFINE r == [Idle EXCEPT !.pc = "reopen", !.op = "open", !.t = t]
  <1>1. /\ Go(a, r) /\ req[a] = Idle /\ UNCHANGED <<tenant, user, binding, moved>>
    BY DEF RestoreTenant, Begin
  <1>2. r.e = None /\ r.pc = "reopen" /\ r.pc \notin Undecided
    BY DEF Idle, Undecided
  <1> HIDE DEF r
  <1>3. AloneFor(r)
    BY <1>2 DEF AloneFor
  <1>4. QED
    BY <1>1, <1>2, <1>3, QuietBegins

\* What a write must be: users outside the request stay as they are, the users
\* written are consistent, and what is let in is let into a live tenant.
Footprint(a, us, bs) == \A u \in DOMAIN user : u \in UsersOf(req[a]) \/ Same(u, us, bs)
Consistent(us, bs, cr, mv) ==
  /\ \A u \in DOMAIN us : u \notin cr /\ ~Excused(u) =>
       (u \in DOMAIN user /\ Same(u, us, bs)) \/ Fine(u, us, bs, mv)
  /\ \A u \in DOMAIN us : u \in DOMAIN user \/ \E i \in DOMAIN bs : bs[i].user = u
LetIn(bs) == \A i \in DOMAIN bs : bs[i].gone = 0 =>
  (i \in DOMAIN binding /\ binding[i].gone = 0) \/ AloneIn(bs[i].tenant)

LEMMA WriteHistory ==
    ASSUME TInv, HInv, NEW a \in Actors, NEW us, NEW bs, NEW next, Crossing(a), Keeps,
           user' = us, binding' = bs, Go(a, next), UNCHANGED tenant, moved \subseteq moved',
           req[a].pc \notin {"evict", "reopen"}, next.e \in {None, req[a].e},
           next.pc \notin Roots \cup Undecided,
           Footprint(a, us, bs), Consistent(us, bs, crossed', moved'), LetIn(bs)
    PROVE  HInv'
  <1>1. req'[a] = next /\ Others(a) /\ crossed \subseteq crossed'
    BY DEF TInv, ReqInv, Go, Others, Crossing
  <1>2. Writes(a)
    <2>1. \A u \in DOMAIN us : ~Excused(u)' => u \notin crossed' /\ ~Excused(u)
      BY ExcusedStays DEF Excused
    <2>2. QED
      BY <2>1 DEF Writes, Footprint, Consistent
  <1>3. Towards(a)
    BY DEF Towards
  <1>4. Admits(a)
    BY <1>1 DEF Admits, LetIn, AloneIn
  <1>5. AloneFor(req[a])'
    BY <1>1, AloneGoesOn
  <1>6. DecidedFor(next, user', binding')
    BY UndecidedFor
  <1>7. QED
    BY <1>1, <1>2, <1>3, <1>4, <1>5, <1>6, HistoryStep

\* A write refused by an index.
LEMMA RefusedHistory ==
    ASSUME TInv, HInv, NEW a \in Actors, Crossing(a), Keeps, Done(a),
           UNCHANGED <<tenant, user, binding, moved>>, req[a].pc \notin {"evict", "reopen"}
    PROVE  HInv'
  BY IdleIs, QuietGoesOn DEF Done

\* Only the rows of user v are written.
OnlyOf(v, us, bs) ==
  /\ \A u \in DOMAIN us : u # v => u \in DOMAIN user /\ us[u].gone = user[u].gone
  /\ \A i \in DOMAIN bs : bs[i].user # v => i \in DOMAIN binding /\ bs[i].gone = binding[i].gone

LEMMA OnlyOfWrite ==
    ASSUME NEW a, NEW us, NEW bs, NEW v, NEW cr, NEW mv, DOMAIN user \subseteq DOMAIN us,
           v \in UsersOf(req[a]) \/ v \notin DOMAIN user, OnlyOf(v, us, bs),
           v \notin cr /\ ~Excused(v) => Fine(v, us, bs, mv),
           v \in DOMAIN user \/ \E i \in DOMAIN bs : bs[i].user = v
    PROVE  Footprint(a, us, bs) /\ Consistent(us, bs, cr, mv)
  <1>1. ASSUME NEW u \in DOMAIN us, u # v PROVE u \in DOMAIN user /\ Same(u, us, bs)
    BY <1>1 DEF OnlyOf, Same
  <1>2. Footprint(a, us, bs)
    BY <1>1 DEF Footprint
  <1>3. Consistent(us, bs, cr, mv)
    BY <1>1 DEF Consistent
  <1>4. QED
    BY <1>2, <1>3

LEMMA OneUserHistory ==
    ASSUME TInv, HInv, NEW a \in Actors, NEW us, NEW bs, NEW next, NEW v, Crossing(a), Keeps,
           Commit(a, us, bs, next), UNCHANGED <<tenant, moved>>,
           req[a].pc \notin {"evict", "reopen"}, next.e \in {None, req[a].e},
           next.pc \notin Roots \cup Undecided,
           v \in UsersOf(req[a]) \/ v \notin DOMAIN user, OnlyOf(v, us, bs),
           v \notin crossed' /\ ~Excused(v) => Fine(v, us, bs, moved),
           v \in DOMAIN user \/ \E i \in DOMAIN bs : bs[i].user = v, LetIn(bs)
    PROVE  HInv'
  <1>1. CASE ~Unique(us, bs)
    BY <1>1, RefusedHistory DEF Commit
  <1>2. CASE Unique(us, bs)
    <2>1. user' = us /\ binding' = bs /\ Go(a, next) /\ moved' = moved
      BY <1>2 DEF Commit
    <2>2. DOMAIN user \subseteq DOMAIN us
      BY <2>1 DEF Keeps, Grown
    <2>3. Footprint(a, us, bs) /\ Consistent(us, bs, crossed', moved')
      BY <2>1, <2>2, OnlyOfWrite
    <2>4. QED
      BY <2>1, <2>3, WriteHistory
  <1>3. QED
    BY <1>1, <1>2

\* A user whose login is given, or given back.
LEMMA FineLive ==
    ASSUME NEW u, NEW us, NEW bs, NEW mv, NEW i \in DOMAIN bs, LiveRow(i, u, bs), us[u].gone = 0
    PROVE  Fine(u, us, bs, mv)
  BY DEF Fine, HasLive

\* The users of the bindings of a request's entity.
LEMMA BoundNamed ==
    ASSUME TInv, NEW r, r.e # None, NEW i \in DOMAIN binding, binding[i].entity = r.e
    PROVE  binding[i].user \in UsersOf(r)
  <1>1. binding[i].user # 0
    BY RowsOf, RowTypes
  <1>2. QED
    BY <1>1 DEF UsersOf

\* A binding is upgraded or added: row k is live that may not have been.
BoundAt(k, cs, bs, u, t) ==
  /\ k \in DOMAIN cs /\ cs[k].user = u /\ cs[k].gone = 0 /\ cs[k].tenant = t
  /\ \A i \in DOMAIN cs \ {k} : i \in DOMAIN bs /\ cs[i] = bs[i]

LEMMA BoundRow ==
    ASSUME NEW bs \in Seq(BindingRow), NEW u \in Nat, NEW e \in Entities, NEW same,
           same # 0 => /\ same \in DOMAIN bs /\ bs[same].user = u
                       /\ bs[same].tenant = TenantOf[e]
    PROVE  \E k : BoundAt(k, BindTo(bs, u, e, same), bs, u, TenantOf[e])
  <1>1. CASE same # 0 /\ bs[same].entity \in {None, e}
    <2> DEFINE v == [bs[same] EXCEPT !.gone = 0, !.entity = e]
               cs == [bs EXCEPT ![same] = v]
    <2>1. same \in DOMAIN bs /\ bs[same] \in BindingRow
      BY <1>1, RowIn
    <2>2. v.user = u /\ v.tenant = TenantOf[e] /\ v.gone = 0
      BY <1>1, <2>1 DEF BindingRow
    <2> HIDE DEF v
    <2>3. cs[same] = v /\ (\A j \in DOMAIN bs \ {same} : cs[j] = bs[j]) /\ DOMAIN cs = DOMAIN bs
      BY <2>1
    <2>4. BindTo(bs, u, e, same) = cs
      BY <1>1 DEF BindTo, v
    <2> HIDE DEF cs
    <2>5. BoundAt(same, cs, bs, u, TenantOf[e])
      BY <2>1, <2>2, <2>3 DEF BoundAt
    <2>6. QED
      BY <2>4, <2>5
  <1>2. CASE ~(same # 0 /\ bs[same].entity \in {None, e})
    <2> DEFINE v == NewBinding(u, TenantOf[e], e)
               cs == Append(bs, v)
    <2>1. BindTo(bs, u, e, same) = cs
      BY <1>2 DEF BindTo
    <2>2. v \in BindingRow /\ v.user = u /\ v.tenant = TenantOf[e] /\ v.gone = 0
      BY ConstantsAssumption DEF NewBinding, BindingRow, ConstantsAssumption
    <2> HIDE DEF v
    <2>3. /\ Len(bs) + 1 \in DOMAIN cs /\ cs[Len(bs) + 1] = v
          /\ \A i \in DOMAIN cs \ {Len(bs) + 1} : i \in DOMAIN bs /\ cs[i] = bs[i]
      BY <2>2
    <2> HIDE DEF cs
    <2>4. BoundAt(Len(bs) + 1, cs, bs, u, TenantOf[e])
      BY <2>2, <2>3 DEF BoundAt
    <2>5. QED
      BY <2>1, <2>4
  <1>3. QED
    BY <1>1, <1>2

\* A new user, with its binding.
LEMMA NewUserHistory ==
    ASSUME TInv, HInv, NEW a \in Actors, NEW m \in Emails, NEW t \in Tenants,
           NEW e \in Entities \cup {None}, Crossing(a), Keeps, UNCHANGED <<tenant, moved>>,
           req[a].pc \notin {"evict", "reopen"}, AloneIn(t),
           Commit(a, Append(user, NewUser(m)),
                  Append(binding, NewBinding(Len(user) + 1, t, e)), Idle)
    PROVE  HInv'
  <1> DEFINE v == Len(user) + 1
             us == Append(user, NewUser(m))
             bs == Append(binding, NewBinding(v, t, e))
             k == Len(binding) + 1
  <1>1. user \in Seq(UserRow) /\ binding \in Seq(BindingRow)
    BY RowsOf DEF RowsOK
  <1>2. NewUser(m) \in UserRow /\ NewUser(m).gone = 0
    BY DEF NewUser, UserRow
  <1>3. /\ DOMAIN us = DOMAIN user \cup {v} /\ v \notin DOMAIN user /\ v \in Nat
        /\ us[v].gone = 0 /\ \A u \in DOMAIN user : us[u] = user[u]
    <2> HIDE DEF us
    <2>1. Len(user) \in Nat /\ DOMAIN user = 1..Len(user)
      BY <1>1
    <2>2. DOMAIN us = 1..(Len(user) + 1) /\ us[v] = NewUser(m)
          /\ \A u \in DOMAIN user : us[u] = user[u]
      BY <1>1, <1>2 DEF us
    <2>3. QED
      BY <1>2, <2>1, <2>2
  <1> HIDE DEF us, v
  <1>4. LET w == NewBinding(v, t, e) IN
        w \in BindingRow /\ w.user = v /\ w.tenant = t /\ w.gone = 0
    BY <1>3 DEF NewBinding, BindingRow
  <1>5. /\ k \in DOMAIN bs /\ bs[k] = NewBinding(v, t, e)
        /\ \A i \in DOMAIN bs \ {k} : i \in DOMAIN binding /\ bs[i] = binding[i]
    BY <1>1, <1>4
  <1> HIDE DEF k
  <1>6. Commit(a, us, bs, Idle)
    BY DEF us, v
  <1> HIDE DEF bs
  <1>7. OnlyOf(v, us, bs)
    BY <1>3, <1>4, <1>5 DEF OnlyOf
  <1>8. Fine(v, us, bs, moved) /\ \E i \in DOMAIN bs : bs[i].user = v
    BY <1>3, <1>4, <1>5, FineLive DEF LiveRow
  <1>9. LetIn(bs)
    BY <1>4, <1>5 DEF LetIn
  <1>10. QED
    BY <1>3, <1>6, <1>7, <1>8, <1>9, IdleIs, OneUserHistory

LEMMA GrantHistory ==
    ASSUME TInv, HInv, NEW a \in Actors, Crossing(a), Keeps, Grant(a) PROVE HInv'
  <1> DEFINE r == req[a]
             e == req[a].e
  <1>1. /\ Fits(r) /\ r.pc = "grant" /\ r.pc \notin {"evict", "reopen"}
        /\ e \in Entities /\ e # None /\ r.m \in Emails
    BY ReqFits, ConstantsAssumption DEF Grant, Fits, Named, OfEntity, ConstantsAssumption
  <1>2. UNCHANGED <<tenant, moved>> /\ AloneIn(TenantOf[e])
    BY <1>1 DEF Grant, HInv, Alone, AloneFor
  <1>3. /\ RowsOK(user, binding) /\ \A u \in DOMAIN user : user[u] \in UserRow
    BY RowsOf
  <1>4. CASE r.b # 0
    <2> DEFINE us == Revived(e, r.b, r.m)
               bs == [binding EXCEPT ![r.b] = Back(@)]
               v == binding[r.b].user
    <2>1. r.b \in DOMAIN binding /\ binding[r.b].entity = e /\ v \in DOMAIN user
      BY <1>1, <1>3, <1>4, RowTypes DEF Fits, Read
    <2>2. Commit(a, us, bs, Idle)
      BY <1>4 DEF Grant
    <2>3. binding[r.b].tenant = TenantOf[e]
      BY <1>1, <1>3, <2>1 DEF RowsOK
    <2>4. /\ DOMAIN bs = DOMAIN binding /\ bs[r.b].user = v /\ bs[r.b].gone = 0
          /\ bs[r.b].tenant = TenantOf[e]
          /\ \A i \in DOMAIN binding \ {r.b} : bs[i] = binding[i]
      <3>1. binding[r.b] \in BindingRow
        BY <1>3, <2>1, RowIn DEF RowsOK
      <3>2. QED
        BY <2>1, <2>3, <3>1 DEF Back, BindingRow
    <2>5. /\ DOMAIN us = DOMAIN user /\ us[v].gone = 0
          /\ \A u \in DOMAIN user \ {v} : us[u] = user[u]
      <3>1. Back(user[v]).gone = 0 /\ NewUser(r.m).gone = 0
        BY <1>3, <2>1, UserRows DEF NewUser
      <3>2. QED
        BY <2>1, <3>1 DEF Revived
    <2> HIDE DEF us, bs
    <2>6. v \in UsersOf(r)
      BY <1>1, <2>1, BoundNamed
    <2>7. OnlyOf(v, us, bs)
      BY <2>4, <2>5 DEF OnlyOf
    <2>8. Fine(v, us, bs, moved)
      BY <2>1, <2>4, <2>5, FineLive DEF LiveRow
    <2>9. LetIn(bs)
      BY <1>2, <2>4 DEF LetIn
    <2>10. QED
      BY <1>1, <1>2, <2>1, <2>2, <2>6, <2>7, <2>8, <2>9, IdleIs, OneUserHistory
  <1>5. CASE r.b = 0 /\ r.u # 0
    <2> DEFINE us == IF r.x = 1 THEN [user EXCEPT ![r.u] = Back(@)] ELSE user
               bs == BindTo(binding, r.u, e, r.y)
               v == r.u
    <2>1. v \in DOMAIN user /\ v \in Nat /\ (r.y # 0 => r.y \in DOMAIN binding
             /\ binding[r.y].user = r.u /\ binding[r.y].tenant = TenantOf[e])
      BY <1>1, <1>5 DEF Fits, Named, Read, Request
    <2>2. Commit(a, us, bs, Idle)
      BY <1>5 DEF Grant
    <2>3. \E k : BoundAt(k, bs, binding, v, TenantOf[e])
      <3>1. binding \in Seq(BindingRow)
        BY <1>3 DEF RowsOK
      <3> HIDE DEF us
      <3>2. QED
        BY <1>1, <2>1, <3>1, BoundRow
    <2>4. /\ DOMAIN us = DOMAIN user /\ (r.x = 1 => us[v].gone = 0)
          /\ (r.x # 1 => us[v] = user[v])
          /\ \A u \in DOMAIN user \ {v} : us[u] = user[u]
      <3>1. Back(user[v]).gone = 0
        BY <1>3, <2>1, UserRows
      <3>2. QED
        BY <2>1, <3>1
    <2>5. r.x # 1 /\ v \notin crossed => user[v].gone = 0
      <3>1. r.x \in {0, 1}
        BY <1>1 DEF Fits, Request
      <3>2. QED
        BY <1>1, <1>5, <3>1 DEF HInv, Decided, DecidedFor, Fits, Request
    <2> HIDE DEF us, bs
    <2>6. v \in UsersOf(r)
      BY <1>5, UserNamed
    <2>7. PICK k \in DOMAIN bs :
               /\ bs[k].user = v /\ bs[k].gone = 0 /\ bs[k].tenant = TenantOf[e]
               /\ \A i \in DOMAIN bs \ {k} : i \in DOMAIN binding /\ bs[i] = binding[i]
      BY <2>3 DEF BoundAt
    <2>8. OnlyOf(v, us, bs)
      BY <2>4, <2>7 DEF OnlyOf
    <2>9. v \notin crossed' => Fine(v, us, bs, moved)
      <3>1. v \notin crossed' => us[v].gone = 0
        BY <2>4, <2>5 DEF Crossing
      <3>2. QED
        BY <2>7, <3>1, FineLive DEF LiveRow
    <2>10. LetIn(bs)
      BY <1>2, <2>7 DEF LetIn
    <2>11. QED
      BY <1>1, <1>2, <2>1, <2>2, <2>6, <2>8, <2>9, <2>10, IdleIs, OneUserHistory
  <1>6. CASE r.b = 0 /\ r.u = 0
    <2>1. Commit(a, Append(user, NewUser(r.m)),
                 Append(binding, NewBinding(Len(user) + 1, TenantOf[e], e)), Idle)
      BY <1>6 DEF Grant
    <2>2. TenantOf[e] \in Tenants
      BY <1>1, ConstantsAssumption DEF ConstantsAssumption
    <2>3. QED
      BY <1>1, <1>2, <2>1, <2>2, NewUserHistory
  <1>7. QED
    BY <1>4, <1>5, <1>6

LEMMA RegisteredHistory ==
    ASSUME TInv, HInv, NEW a \in Actors, Crossing(a), Keeps, Registered(a) PROVE HInv'
  <1>1. req[a].pc = "register" /\ req[a].t \in Tenants /\ req[a].m \in Emails
    BY ReqFits DEF Registered, Fits, Named, OfTenant
  <1>2. AloneIn(req[a].t)
    BY <1>1 DEF HInv, Alone, AloneFor
  <1>3. Commit(a, Append(user, NewUser(req[a].m)),
               Append(binding, NewBinding(Len(user) + 1, req[a].t, None)), Idle)
        /\ UNCHANGED <<tenant, moved>>
    BY DEF Registered
  <1>4. QED
    BY <1>1, <1>2, <1>3, NewUserHistory

LEMMA SyncHistory ==
    ASSUME TInv, HInv, NEW a \in Actors, Crossing(a), Keeps, Sync(a) PROVE HInv'
  <1> DEFINE v == req[a].u
             us == IF user[v].gone = 0 THEN [user EXCEPT ![v].email = req[a].m] ELSE user
  <1>1. Fits(req[a]) /\ req[a].pc = "sync" /\ v \in DOMAIN user /\ v # 0
    BY ReqFits DEF Sync, Fits, Named
  <1>2. Commit(a, us, binding, Idle) /\ UNCHANGED <<tenant, moved>>
    BY DEF Sync
  <1>3. DOMAIN us = DOMAIN user /\ \A u \in DOMAIN user : us[u].gone = user[u].gone
    <2>1. user[v] \in UserRow
      BY <1>1, RowsOf
    <2>2. [user[v] EXCEPT !.email = req[a].m].gone = user[v].gone
      BY <2>1 DEF UserRow
    <2>3. QED
      BY <1>1, <2>2
  <1> HIDE DEF us
  <1>4. v \in UsersOf(req[a])
    BY <1>1, UserNamed
  <1>5. OnlyOf(v, us, binding) /\ LetIn(binding)
    BY <1>3 DEF OnlyOf, LetIn
  <1>6. ~Excused(v) => Fine(v, us, binding, moved)
    BY <1>1, <1>3 DEF HInv, Kept, Fine
  <1>7. QED
    BY <1>1, <1>2, <1>4, <1>5, <1>6, IdleIs, OneUserHistory

\* The binding goes, and the user with its last one.
LEMMA ShuttingHistory ==
    ASSUME TInv, HInv, NEW a \in Actors, Crossing(a), Keeps, Shutting(a) PROVE HInv'
  <1> DEFINE r == req[a]
             v == r.u
             us == IF r.x = 1 THEN [user EXCEPT ![v] = Gone(@, r.at)] ELSE user
             bs == [binding EXCEPT ![r.b] = Gone(@, r.at)]
  <1>1. /\ Fits(r) /\ r.pc = "shutting" /\ v \in DOMAIN user /\ v # 0 /\ r.x \in {0, 1}
        /\ r.b \in DOMAIN binding /\ binding[r.b].user = v
    BY ReqFits DEF Shutting, Fits, Named, Read, Request
  <1>2. Commit(a, us, bs, AfterShut(r)) /\ UNCHANGED <<tenant, moved>>
    BY DEF Shutting
  <1>3. r.at \in Nat /\ r.at # 0
    BY <1>1 DEF TInv, Past, Stamping, Fits, Request
  <1>4. /\ DOMAIN us = DOMAIN user /\ (r.x = 1 => us[v].gone # 0) /\ (r.x = 0 => us[v] = user[v])
        /\ \A u \in DOMAIN user \ {v} : us[u] = user[u]
    <2>1. Gone(user[v], r.at).gone = r.at
      BY <1>1, <1>3, RowsOf, UserRows
    <2>2. QED
      BY <1>1, <1>3, <2>1
  <1>5. /\ DOMAIN bs = DOMAIN binding /\ bs[r.b].gone # 0 /\ bs[r.b].user = v
        /\ \A i \in DOMAIN binding \ {r.b} : bs[i] = binding[i]
    <2>1. binding[r.b] \in BindingRow
      BY <1>1, RowsOf, RowIn DEF RowsOK
    <2>2. Gone(binding[r.b], r.at).gone = r.at /\ Gone(binding[r.b], r.at).user = binding[r.b].user
      BY <2>1 DEF Gone, BindingRow
    <2>3. QED
      BY <1>1, <1>3, <2>2
  <1> HIDE DEF us, bs
  <1>6. v \in UsersOf(r)
    BY <1>1, UserNamed
  <1>7. OnlyOf(v, us, bs) /\ LetIn(bs)
    BY <1>4, <1>5 DEF OnlyOf, LetIn
  <1>8. ASSUME v \notin crossed', ~Excused(v) PROVE Fine(v, us, bs, moved)
    <2>1. Fine(v, user, binding, moved) /\ DecidedFor(r, user, binding)
      BY <1>1, <1>8 DEF HInv, Kept, Decided, Crossing
    <2>2. HasLive(v, bs) => HasLive(v, binding)
      BY <1>5 DEF HasLive, LiveRow
    <2>3. CASE r.x = 1
      <3>1. \A i \in DOMAIN binding : LiveRow(i, v, binding) => i = r.b
        BY <1>1, <2>1, <2>3 DEF DecidedFor
      <3>2. ~HasLive(v, bs)
        BY <1>5, <3>1 DEF HasLive, LiveRow
      <3>3. QED
        BY <1>4, <2>3, <3>2 DEF Fine
    <2>4. CASE r.x = 0
      <3>1. user[v].gone # 0 \/ \E i \in DOMAIN binding : LiveRow(i, v, binding) /\ i # r.b
        BY <1>1, <2>1, <2>4 DEF DecidedFor
      <3>2. (\E i \in DOMAIN binding : LiveRow(i, v, binding) /\ i # r.b) => HasLive(v, bs)
        BY <1>5 DEF HasLive, LiveRow
      <3>3. QED
        BY <1>4, <2>1, <2>2, <2>4, <3>1, <3>2 DEF Fine
    <2>5. QED
      BY <1>1, <2>3, <2>4
  <1>9. AfterShut(r).e \in {None, r.e} /\ AfterShut(r).pc \notin Roots \cup Undecided
    BY <1>1, IdleIs DEF AfterShut, Fits, Request, Roots, Undecided
  <1>10. QED
    BY <1>1, <1>2, <1>6, <1>7, <1>8, <1>9, OneUserHistory

\* A cascade step's next.
LEMMA RestGoesOn ==
    ASSUME NEW r \in Request, NEW pc, pc \notin Roots \cup Undecided
    PROVE  LET n == Rest([r EXCEPT !.pc = pc]) IN
           n.e \in {None, r.e} /\ n.pc \notin Roots \cup Undecided
  <1> DEFINE n == [r EXCEPT !.pc = pc]
  <1>1. n.e = r.e /\ n.pc = pc
    BY DEF Request
  <1> HIDE DEF n
  <1>2. Rest(n).e \in {None, r.e} /\ Rest(n).pc \notin Roots \cup Undecided
    BY <1>1, IdleIs DEF Rest
  <1>3. QED
    BY <1>2 DEF n

LEMMA BanHistory ==
    ASSUME TInv, HInv, NEW a \in Actors, Crossing(a), Keeps, Ban(a) PROVE HInv'
  <1> DEFINE r == req[a]
             v == r.u
             us == [user EXCEPT ![v] = Gone(@, clock)]
             bs == [i \in DOMAIN binding |->
                      IF r.todo # {} /\ i \in BoundTo(v) \cap LiveOf(binding)
                      THEN Gone(binding[i], clock) ELSE binding[i]]
             next == Rest([r EXCEPT !.pc = "unseat"])
  <1>1. Fits(r) /\ r.pc = "ban" /\ v \in DOMAIN user /\ v # 0 /\ clock \in Nat /\ clock # 0
    BY ReqFits, NewStamps DEF Ban, Fits, Named
  <1>2. Commit(a, us, bs, next) /\ UNCHANGED <<tenant, moved>>
    BY DEF Ban
  <1>3. /\ DOMAIN us = DOMAIN user /\ us[v].gone # 0
        /\ \A u \in DOMAIN user \ {v} : us[u] = user[u]
    <2>1. Gone(user[v], clock).gone = clock
      BY <1>1, RowsOf, UserRows
    <2>2. QED
      BY <1>1, <2>1
  <1>4. /\ DOMAIN bs = DOMAIN binding /\ \A i \in DOMAIN binding : bs[i].user = binding[i].user
        /\ \A i \in DOMAIN binding : bs[i].user # v => bs[i] = binding[i]
        /\ \A i \in DOMAIN binding : bs[i].gone = 0 =>
             binding[i].gone = 0 /\ (r.todo # {} => binding[i].user # v)
    <2>1. \A i \in DOMAIN binding : binding[i] \in BindingRow
      BY RowsOf, RowIn DEF RowsOK
    <2>2. \A i \in DOMAIN binding : /\ Gone(binding[i], clock).gone = clock
                                    /\ Gone(binding[i], clock).user = binding[i].user
      BY <2>1 DEF Gone, BindingRow
    <2>3. QED
      BY <1>1, <2>2 DEF BoundTo, LiveOf
  <1> HIDE DEF us, bs
  <1>5. v \in UsersOf(r)
    BY <1>1, UserNamed
  <1>6. OnlyOf(v, us, bs) /\ LetIn(bs)
    BY <1>3, <1>4 DEF OnlyOf, LetIn
  <1>7. ASSUME v \notin crossed', ~Excused(v) PROVE Fine(v, us, bs, moved)
    <2>1. r.todo = {} => ~HasLive(v, binding)
      BY <1>1, <1>7 DEF HInv, Decided, DecidedFor, Crossing
    <2>2. ~HasLive(v, bs)
      BY <1>4, <2>1 DEF HasLive, LiveRow
    <2>3. QED
      BY <1>3, <2>2 DEF Fine
  <1>8. next.e \in {None, r.e} /\ next.pc \notin Roots \cup Undecided
    <2>1. "unseat" \notin Roots \cup Undecided
      BY DEF Roots, Undecided
    <2>2. QED
      BY <1>1, <2>1, RestGoesOn DEF Fits
  <1> HIDE DEF next
  <1>9. QED
    BY <1>1, <1>2, <1>5, <1>6, <1>7, <1>8, OneUserHistory

LEMMA UnbanHistory ==
    ASSUME TInv, HInv, NEW a \in Actors, Crossing(a), Keeps, Unban(a) PROVE HInv'
  <1> DEFINE r == req[a]
             v == r.u
             us == [user EXCEPT ![v] = Back(@)]
             bs == [i \in DOMAIN binding |-> IF \E l \in r.todo : l[1] = i THEN Back(binding[i])
                                             ELSE binding[i]]
             next == Rest([r EXCEPT !.pc = "reseat"])
  <1>1. /\ Fits(r) /\ r.pc = "unban" /\ v \in DOMAIN user /\ v # 0
        /\ \A l \in r.todo : l[1] \in DOMAIN binding /\ binding[l[1]].user = v
    BY ReqFits DEF Unban, Fits, Named, Read
  <1>2. Commit(a, us, bs, next) /\ UNCHANGED <<tenant, moved>>
    BY DEF Unban
  <1>3. /\ DOMAIN us = DOMAIN user /\ us[v].gone = 0
        /\ \A u \in DOMAIN user \ {v} : us[u] = user[u]
    <2>1. Back(user[v]).gone = 0
      BY <1>1, RowsOf, UserRows
    <2>2. QED
      BY <1>1, <2>1
  <1>4. /\ DOMAIN bs = DOMAIN binding
        /\ \A i \in DOMAIN binding : bs[i].user = binding[i].user /\ bs[i].tenant = binding[i].tenant
        /\ \A l \in r.todo : bs[l[1]].gone = 0
        /\ \A i \in DOMAIN binding : bs[i] = binding[i] \/ \E l \in r.todo : l[1] = i
        /\ \A i \in DOMAIN binding : binding[i].gone = 0 => bs[i].gone = 0
    <2>1. \A i \in DOMAIN binding : binding[i] \in BindingRow
      BY RowsOf, RowIn DEF RowsOK
    <2>2. \A i \in DOMAIN binding :
            LET w == Back(binding[i]) IN
            w.gone = 0 /\ w.user = binding[i].user /\ w.tenant = binding[i].tenant
      BY <2>1 DEF Back, BindingRow
    <2>3. QED
      BY <1>1, <2>2
  <1> HIDE DEF us, bs
  <1>5. v \in UsersOf(r)
    BY <1>1, UserNamed
  <1>6. OnlyOf(v, us, bs)
    BY <1>1, <1>3, <1>4 DEF OnlyOf
  <1>7. LetIn(bs)
    <2>1. \A l \in r.todo : AloneIn(binding[l[1]].tenant)
      BY <1>1 DEF HInv, Alone, AloneFor
    <2>2. QED
      BY <1>4, <2>1 DEF LetIn
  <1>8. ASSUME v \notin crossed' PROVE Fine(v, us, bs, moved)
    <2>1. r.todo = {} => HasLive(v, binding)
      BY <1>1, <1>8 DEF HInv, Decided, DecidedFor, Crossing
    <2>2. HasLive(v, bs)
      BY <1>1, <1>4, <2>1 DEF HasLive, LiveRow
    <2>3. QED
      BY <1>3, <2>2 DEF Fine
  <1>9. next.e \in {None, r.e} /\ next.pc \notin Roots \cup Undecided
    <2>1. "reseat" \notin Roots \cup Undecided
      BY DEF Roots, Undecided
    <2>2. QED
      BY <1>1, <2>1, RestGoesOn DEF Fits
  <1> HIDE DEF next
  <1>10. QED
    BY <1>1, <1>2, <1>5, <1>6, <1>7, <1>8, <1>9, OneUserHistory

\* The bindings of C come back with their users.
LEMMA ClearedWrite ==
    ASSUME TInv, NEW a, NEW C, C \subseteq DOMAIN binding, NEW cr, NEW mv,
           \A i \in C : binding[i].user \in UsersOf(req[a])
    PROVE  LET us == ClearUsers(C)  bs == ClearBindings(C) IN
           /\ Footprint(a, us, bs) /\ Consistent(us, bs, cr, mv)
           /\ DOMAIN bs = DOMAIN binding
           /\ \A i \in DOMAIN binding : /\ bs[i].tenant = binding[i].tenant
                                        /\ i \notin C => bs[i] = binding[i]
  <1> DEFINE us == ClearUsers(C)
             bs == ClearBindings(C)
  <1>1. /\ \A u \in DOMAIN user : user[u] \in UserRow
        /\ \A i \in DOMAIN binding : binding[i] \in BindingRow /\ binding[i].user \in DOMAIN user
    BY RowsOf, RowIn DEF RowsOK
  <1>2. /\ DOMAIN bs = DOMAIN binding
        /\ \A i \in DOMAIN binding : /\ bs[i].tenant = binding[i].tenant
                                     /\ bs[i].user = binding[i].user
                                     /\ i \notin C => bs[i] = binding[i]
                                     /\ i \in C => bs[i].gone = 0
    <2>1. \A i \in DOMAIN binding :
            LET w == Back(binding[i]) IN
            w.gone = 0 /\ w.user = binding[i].user /\ w.tenant = binding[i].tenant
      BY <1>1 DEF Back, BindingRow
    <2>2. QED
      BY <2>1 DEF ClearBindings
  <1>3. /\ DOMAIN us = DOMAIN user
        /\ \A u \in DOMAIN user : (\E i \in C : binding[i].user = u) => us[u].gone = 0
        /\ \A u \in DOMAIN user : ~(\E i \in C : binding[i].user = u) => us[u] = user[u]
    <2>1. \A u \in DOMAIN user : Back(user[u]).gone = 0
      BY <1>1 DEF Back, UserRow
    <2>2. QED
      BY <2>1 DEF ClearUsers
  <1> HIDE DEF us, bs
  <1>4. ASSUME NEW u \in DOMAIN user, ~ \E i \in C : binding[i].user = u PROVE Same(u, us, bs)
    BY <1>2, <1>3, <1>4 DEF Same
  <1>5. ASSUME NEW u \in DOMAIN user, NEW i \in C, binding[i].user = u PROVE Fine(u, us, bs, mv)
    <2>1. LiveRow(i, u, bs) /\ i \in DOMAIN bs /\ us[u].gone = 0
      BY <1>2, <1>3, <1>5 DEF LiveRow
    <2>2. QED
      BY <2>1, FineLive
  <1>6. Footprint(a, us, bs)
    BY <1>4 DEF Footprint
  <1>7. Consistent(us, bs, cr, mv)
    BY <1>3, <1>4, <1>5 DEF Consistent
  <1>8. QED
    BY <1>2, <1>6, <1>7 DEF us, bs

LEMMA ReviveHistory ==
    ASSUME TInv, HInv, NEW a \in Actors, Crossing(a), Keeps, Revive(a) PROVE HInv'
  <1> DEFINE r == req[a]
             C == Cohort(Bound(r.e))
             us == ClearUsers(C)
             bs == ClearBindings(C)
  <1>1. /\ r.pc = "revive" /\ r.e \in Entities /\ r.e # None
        /\ Commit(a, us, bs, Idle) /\ UNCHANGED <<tenant, moved>>
    BY ReqFits, ConstantsAssumption DEF Revive, Fits, Named, OfEntity, ConstantsAssumption
  <1>2. C \subseteq DOMAIN binding /\ \A i \in C : binding[i].entity = r.e
    BY DEF Cohort, Bound
  <1>3. /\ \A i \in C : binding[i].user \in UsersOf(r)
        /\ \A i \in C : binding[i].tenant = TenantOf[r.e]
    BY <1>1, <1>2, RowsOf, BoundNamed DEF RowsOK
  <1>4. AloneIn(TenantOf[r.e])
    BY <1>1 DEF HInv, Alone, AloneFor
  <1> HIDE DEF C
  <1>5. /\ Footprint(a, us, bs) /\ Consistent(us, bs, crossed', moved')
        /\ DOMAIN bs = DOMAIN binding
        /\ \A i \in DOMAIN binding : /\ bs[i].tenant = binding[i].tenant
                                     /\ i \notin C => bs[i] = binding[i]
    <2>1. \A i \in C : binding[i].user \in UsersOf(req[a])
      BY <1>3
    <2>2. QED
      BY <1>2, <2>1, ClearedWrite
  <1>6. LetIn(bs)
    BY <1>3, <1>4, <1>5 DEF LetIn
  <1> HIDE DEF us, bs
  <1>7. CASE ~Unique(us, bs)
    BY <1>1, <1>7, RefusedHistory DEF Commit
  <1>8. CASE Unique(us, bs)
    <2>1. user' = us /\ binding' = bs /\ Go(a, Idle) /\ moved' = moved
      BY <1>1, <1>8 DEF Commit
    <2>2. QED
      BY <1>1, <1>5, <1>6, <2>1, IdleIs, WriteHistory
  <1>9. QED
    BY <1>7, <1>8

LEMMA ReopenHistory ==
    ASSUME TInv, HInv, NEW a \in Actors, Crossing(a), Keeps, Reopen(a) PROVE HInv'
  <1> DEFINE t == req[a].t
             C == IF tenant[t] THEN {} ELSE Cohort(InTenant(t))
             us == ClearUsers(C)
             bs == ClearBindings(C)
  <1>1. /\ req[a].pc = "reopen" /\ t \in Tenants /\ t # None
        /\ Commit(a, us, bs, Idle) /\ UNCHANGED moved
        /\ tenant' = IF Unique(us, bs) THEN [tenant EXCEPT ![t] = TRUE] ELSE tenant
        /\ tenant \in [Tenants -> BOOLEAN]
    BY ReqFits, ConstantsAssumption
    DEF Reopen, Fits, Named, OfTenant, ConstantsAssumption, TInv, RowsInv
  <1>2. C \subseteq DOMAIN binding /\ \A i \in C : binding[i].tenant = t
    BY DEF Cohort, InTenant
  <1>3. \A i \in C : binding[i].user \in UsersOf(req[a])
    <2>1. \A i \in C : binding[i].user # 0
      BY <1>2, RowsOf, RowTypes
    <2>2. QED
      BY <1>1, <1>2, <2>1 DEF UsersOf
  <1> HIDE DEF C
  <1>4. /\ Footprint(a, us, bs) /\ Consistent(us, bs, crossed', moved')
        /\ DOMAIN bs = DOMAIN binding
        /\ \A i \in DOMAIN binding : /\ bs[i].tenant = binding[i].tenant
                                     /\ i \notin C => bs[i] = binding[i]
    BY <1>2, <1>3, ClearedWrite
  <1> HIDE DEF us, bs
  <1>5. Go(a, Idle)
    BY <1>1 DEF Commit, Done
  <1>6. req'[a] = Idle /\ Others(a) /\ crossed \subseteq crossed'
    BY <1>5 DEF TInv, ReqInv, Go, Others, Crossing
  <1>7. Towards(a)
    BY <1>1, <1>6 DEF Towards
  <1>8. AloneFor(req[a])'
    BY <1>6, IdleIs DEF AloneFor, Roots
  <1>9. DecidedFor(Idle, user', binding')
    BY IdleIs, UndecidedFor
  <1>10. CASE ~Unique(us, bs)
    <2>1. UNCHANGED <<user, binding>>
      BY <1>1, <1>10 DEF Commit
    <2>2. Writes(a) /\ Admits(a)
      BY <1>1, <2>1 DEF Writes, Same, Admits
    <2>3. QED
      BY <1>6, <1>7, <1>8, <1>9, <2>2, HistoryStep
  <1>11. CASE Unique(us, bs)
    <2>1. user' = us /\ binding' = bs /\ tenant'[t] = TRUE
      BY <1>1, <1>11 DEF Commit
    <2>2. Writes(a)
      <3>1. \A u \in DOMAIN us : ~Excused(u)' => u \notin crossed' /\ ~Excused(u)
        BY ExcusedStays DEF Excused
      <3>2. QED
        BY <1>1, <1>4, <2>1, <3>1 DEF Writes, Footprint, Consistent
    <2>3. Admits(a)
      BY <1>1, <1>2, <1>4, <2>1 DEF Admits, AloneIn
    <2>4. QED
      BY <1>6, <1>7, <1>8, <1>9, <2>2, <2>3, HistoryStep
  <1>12. QED
    BY <1>10, <1>11

\* Rows that are archived leave the indexes as they are.
LEMMA UniqueShrinks ==
    ASSUME Unique(user, binding), NEW us, NEW bs,
           \A u \in LiveOf(us) : u \in LiveOf(user) /\ us[u].email = user[u].email,
           \A i \in LiveOf(bs) : i \in LiveOf(binding) /\ bs[i] = binding[i]
    PROVE  Unique(us, bs)
  BY DEF Unique

\* The bindings of the tenant go, and the users they leave with none.
Evicted(t) == InTenant(t) \cap LiveOf(binding)
LeftBy(t) ==
  {binding[i].user : i \in Evicted(t)} \ {binding[i].user : i \in LiveOf(binding) \ Evicted(t)}

LEMMA EvictWrites ==
    ASSUME TInv, NEW a \in Actors, Evict(a)
    PROVE  LET r == req[a]  B == Evicted(r.t)  left == LeftBy(r.t) IN
           /\ r.pc = "evict" /\ r.t \in Tenants /\ r.t # None /\ r.at \in Nat /\ r.at # 0
           /\ Go(a, Idle) /\ took' = [took EXCEPT ![r.t] = B]
           /\ DOMAIN binding' = DOMAIN binding
           /\ \A i \in DOMAIN binding : /\ binding'[i].user = binding[i].user
                                        /\ binding'[i].tenant = binding[i].tenant
                                        /\ i \in B => binding'[i].gone = r.at
                                        /\ i \notin B => binding'[i] = binding[i]
           /\ DOMAIN user' = DOMAIN user
           /\ \A u \in DOMAIN user : /\ u \in left => user'[u].gone # 0
                                     /\ u \notin left => user'[u] = user[u]
                                     /\ user'[u].gone = 0 => user[u].gone = 0
  <1> DEFINE r == req[a]
             t == r.t
             B == Evicted(t)
             left == LeftBy(t)
             us == [u \in DOMAIN user |-> IF u \in left /\ user[u].gone = 0
                                          THEN Gone(user[u], r.at) ELSE user[u]]
             bs == [i \in DOMAIN binding |-> IF i \in B THEN Gone(binding[i], r.at) ELSE binding[i]]
  <1>1. /\ r.pc = "evict" /\ t \in Tenants /\ t # None /\ r.at \in Nat /\ r.at # 0
        /\ Commit(a, us, bs, Idle) /\ took' = [took EXCEPT ![t] = B]
    BY ReqFits, NewStamps, ConstantsAssumption
    DEF Evict, Evicted, LeftBy, Fits, Named, OfTenant, ConstantsAssumption, Stamping, TInv, Past
  <1>2. /\ \A u \in DOMAIN user : user[u] \in UserRow
        /\ \A i \in DOMAIN binding : binding[i] \in BindingRow /\ binding[i].user \in DOMAIN user
    BY RowsOf, RowIn DEF RowsOK
  <1>3. /\ DOMAIN bs = DOMAIN binding
        /\ \A i \in DOMAIN binding : /\ bs[i].user = binding[i].user
                                     /\ bs[i].tenant = binding[i].tenant
                                     /\ i \in B => bs[i].gone = r.at
                                     /\ i \notin B => bs[i] = binding[i]
    <2>1. \A i \in DOMAIN binding :
            LET w == Gone(binding[i], r.at) IN
            w.gone = r.at /\ w.user = binding[i].user /\ w.tenant = binding[i].tenant
      BY <1>2 DEF Gone, BindingRow
    <2>2. QED
      BY <1>1, <2>1
  <1>4. /\ DOMAIN us = DOMAIN user
        /\ \A u \in DOMAIN user : us[u].email = user[u].email
        /\ \A u \in DOMAIN user : u \in left => us[u].gone # 0
        /\ \A u \in DOMAIN user : u \notin left => us[u] = user[u]
        /\ \A u \in DOMAIN user : us[u].gone = 0 => user[u].gone = 0
    <2>1. \A u \in DOMAIN user :
            Gone(user[u], r.at).gone = r.at /\ Gone(user[u], r.at).email = user[u].email
      BY <1>2 DEF Gone, UserRow
    <2> HIDE DEF left
    <2>2. QED
      BY <1>1, <2>1
  <1>5. \A i \in DOMAIN binding : i \in B => binding[i].gone = 0
    BY DEF Evicted, LiveOf
  <1> HIDE DEF B, left, us, bs
  <1>6. Unique(us, bs)
    <2>1. \A u \in LiveOf(us) : u \in LiveOf(user) /\ us[u].email = user[u].email
      BY <1>4 DEF LiveOf
    <2>2. \A i \in LiveOf(bs) : i \in LiveOf(binding) /\ bs[i] = binding[i]
      BY <1>1, <1>3, <1>5 DEF LiveOf
    <2>3. Unique(user, binding)
      BY RowsOf DEF RowsInv
    <2>4. QED
      BY <2>1, <2>2, <2>3, UniqueShrinks
  <1>7. user' = us /\ binding' = bs /\ Go(a, Idle)
    BY <1>1, <1>6 DEF Commit
  <1>8. QED
    BY <1>1, <1>3, <1>4, <1>7 DEF B, left

LEMMA EvictHistory ==
    ASSUME TInv, HInv, NEW a \in Actors, Crossing(a), Keeps, Evict(a) PROVE HInv'
  <1> DEFINE r == req[a]
             t == r.t
             B == Evicted(t)
             left == LeftBy(t)
             us == user'
             bs == binding'
  <1>1. r.pc = "evict" /\ t \in Tenants /\ t # None /\ UNCHANGED <<tenant, moved>>
    BY EvictWrites DEF Evict
  <1>2. /\ Go(a, Idle)
        /\ DOMAIN user' = DOMAIN user
    BY EvictWrites
  <1>3. /\ DOMAIN bs = DOMAIN binding
        /\ \A i \in DOMAIN binding : /\ bs[i].user = binding[i].user
                                     /\ bs[i].tenant = binding[i].tenant
                                     /\ i \in B => bs[i].gone # 0
                                     /\ i \notin B => bs[i] = binding[i]
    BY EvictWrites
  <1>4. /\ DOMAIN us = DOMAIN user
        /\ \A u \in DOMAIN user : u \in left => us[u].gone # 0
        /\ \A u \in DOMAIN user : u \notin left => us[u] = user[u]
        /\ \A u \in DOMAIN user : us[u].gone = 0 => user[u].gone = 0
    BY EvictWrites
  <1>5. \A i \in DOMAIN binding : i \in B <=> binding[i].tenant = t /\ binding[i].gone = 0
    BY DEF Evicted, InTenant, LiveOf
  <1>6. \A u : u \in left <=> /\ \E i \in DOMAIN binding : i \in B /\ binding[i].user = u
                             /\ \A i \in DOMAIN binding : LiveRow(i, u, binding) => i \in B
    BY DEF LeftBy, Evicted, LiveOf, LiveRow
  <1> HIDE DEF B, left
  <1>7. req'[a] = Idle /\ Others(a)
    BY <1>2 DEF TInv, ReqInv, Go, Others
  <1>8. Writes(a)
    <2>1. ASSUME NEW u \in DOMAIN user,
                 ~ \E i \in DOMAIN binding : binding[i].user = u /\ binding[i].tenant = t
          PROVE  Same(u, us, bs)
      BY <1>3, <1>4, <1>5, <1>6, <2>1 DEF Same
    <2>2. ASSUME NEW u \in DOMAIN user, NEW i \in DOMAIN binding,
                 binding[i].user = u, binding[i].tenant = t
          PROVE  u \in UsersOf(r)
      <3>1. u # 0
        BY RowsOf, RowTypes
      <3>2. QED
        BY <1>1, <2>2, <3>1 DEF UsersOf
    <2>3. ASSUME NEW u \in DOMAIN user, ~Excused(u)' PROVE Fine(u, us, bs, moved)
      <3>1. Fine(u, user, binding, moved)
        BY <2>3, ExcusedStays DEF HInv, Kept
      <3>2. HasLive(u, bs) => HasLive(u, binding) /\ u \notin left
        BY <1>3, <1>6 DEF HasLive, LiveRow
      <3>3. HasLive(u, binding) /\ u \notin left => HasLive(u, bs)
        BY <1>3, <1>6 DEF HasLive, LiveRow
      <3>4. QED
        BY <1>4, <3>1, <3>2, <3>3 DEF Fine
    <2>4. QED
      BY <1>1, <1>2, <1>4, <2>1, <2>2, <2>3 DEF Writes
  <1>9. Towards(a)
    BY <1>1, <1>7 DEF Towards
  <1>10. Admits(a)
    BY <1>2, <1>3, <1>5 DEF Admits
  <1>11. AloneFor(req[a])'
    BY <1>7, IdleIs DEF AloneFor, Roots
  <1>12. DecidedFor(Idle, user', binding')
    BY IdleIs, UndecidedFor
  <1>13. QED
    BY <1>7, <1>8, <1>9, <1>10, <1>11, <1>12, HistoryStep

\* A swap writes two users, the one of row r.b who loses the login and owner who
\* gets it, and two bindings, r.b and k, of one tenant.
Swaps(r, us, bs, owner, k) ==
  /\ DOMAIN user \subseteq DOMAIN us /\ owner \in DOMAIN us
  /\ owner \in UsersOf(r) \/ owner \notin DOMAIN user
  /\ owner \notin crossed => us[owner].gone = 0
  /\ \A u \in DOMAIN us \ {owner} : u \in DOMAIN user /\ us[u] = user[u]
  /\ k \in DOMAIN bs /\ bs[k].user = owner /\ bs[k].gone = 0 /\ bs[k].tenant = TenantOf[r.e]
  /\ \A i \in DOMAIN bs \ {k} :
       /\ i \in DOMAIN binding /\ bs[i].user = binding[i].user /\ bs[i].tenant = binding[i].tenant
       /\ IF i = r.b THEN bs[i].gone # 0 ELSE bs[i] = binding[i]
SwapEnds(a, us, bs) ==
  \/ Done(a) /\ UNCHANGED <<user, binding, moved>>
  \/ Unique(us, bs) /\ Commit(a, us, bs, Idle) /\ moved' = moved \cup {binding[req[a].b].user}

LEMMA SwappedWrites ==
    ASSUME TInv, HInv, NEW a \in Actors, Swapped(a)
    PROVE  \E us, bs, owner, k : SwapEnds(a, us, bs) /\ Swaps(req[a], us, bs, owner, k)
  <1> DEFINE r == req[a]
             shut == [binding EXCEPT ![r.b] = Gone(@, clock)]
             raced == Owner(r.m)
             match == IF r.u # 0 THEN r.u
                      ELSE IF raced # 0 /\ user[raced].gone = 0 THEN raced ELSE 0
             same == IF r.u = 0 THEN 0 ELSE SameTenant(r.u, TenantOf[r.e], shut)
             us == IF match = 0 THEN Append(user, NewUser(r.m))
                   ELSE IF r.x = 1 /\ user[match].gone # 0 THEN [user EXCEPT ![match] = Back(@)]
                   ELSE user
             owner == IF match = 0 THEN Len(user) + 1 ELSE match
             bs == BindTo(shut, owner, r.e, same)
  <1>1. /\ Fits(r) /\ r.pc = "swap" /\ r.e \in Entities /\ r.e # None /\ r.m \in Emails
        /\ r.m # None /\ r.b \in DOMAIN binding /\ binding[r.b].entity = r.e
        /\ (r.u # 0 => r.u \in DOMAIN user) /\ r.x \in {0, 1}
    <2>1. Fits(r) /\ r.pc = "swap"
      BY ReqFits DEF Swapped
    <2> HIDE DEF r
    <2>2. QED
      BY <2>1, ConstantsAssumption DEF Fits, Named, Read, OfEntity, Request, ConstantsAssumption
  <1>2. clock \in Nat /\ clock # 0
    BY NewStamps
  <1>3. SwapEnds(a, us, bs)
    BY DEF Swapped, SwapEnds
  <1>4. /\ RowsOK(user, binding) /\ user \in Seq(UserRow) /\ binding \in Seq(BindingRow)
        /\ \A u \in DOMAIN user : user[u] \in UserRow
    BY RowsOf DEF RowsOK
  <1>5. match # 0 => /\ match \in DOMAIN user /\ match \in Nat
                     /\ match \in UsersOf(r)
    <2>1. match # 0 => match \in DOMAIN user
      BY <1>1, OwnerIn
    <2>2. r.u # 0 => r.u \in UsersOf(r)
      BY UserNamed
    <2>3. raced # 0 => raced \in UsersOf(r)
      BY <1>1 DEF UsersOf
    <2>4. QED
      BY <1>4, <2>1, <2>2, <2>3, RowTypes
  <1>6. /\ DOMAIN shut = DOMAIN binding /\ shut \in Seq(BindingRow)
        /\ shut[r.b].user = binding[r.b].user /\ shut[r.b].tenant = binding[r.b].tenant
        /\ shut[r.b].gone # 0
        /\ \A i \in DOMAIN binding \ {r.b} : shut[i] = binding[i]
    <2>1. binding[r.b] \in BindingRow
      BY <1>1, <1>4, RowIn
    <2>2. LET w == Gone(binding[r.b], clock) IN
          /\ w \in BindingRow /\ w.gone = clock
          /\ w.user = binding[r.b].user /\ w.tenant = binding[r.b].tenant
      BY <1>2, <2>1 DEF Gone, BindingRow
    <2>3. QED
      BY <1>1, <1>2, <1>4, <2>2
  <1>7. match # 0 /\ match \notin crossed => r.x = 1 \/ user[match].gone = 0
    <2>1. r.u # 0 /\ r.u \notin crossed /\ r.x = 0 => user[r.u].gone = 0
      BY <1>1 DEF HInv, Decided, DecidedFor
    <2>2. QED
      BY <1>1, <2>1
  <1> HIDE DEF shut, match
  <1>8. /\ owner \in DOMAIN us /\ owner \in Nat /\ DOMAIN user \subseteq DOMAIN us
        /\ (r.u # 0 => owner = r.u)
        /\ owner \in UsersOf(r) \/ owner \notin DOMAIN user
        /\ owner \notin crossed => us[owner].gone = 0
        /\ \A u \in DOMAIN us \ {owner} : u \in DOMAIN user /\ us[u] = user[u]
    <2>1. CASE match = 0
      <3>1. NewUser(r.m).gone = 0 /\ r.u = 0
        BY <1>1, <1>4, <2>1, RowTypes DEF NewUser, match
      <3>2. /\ us = Append(user, NewUser(r.m)) /\ owner = Len(user) + 1
            /\ Len(user) \in Nat /\ DOMAIN user = 1..Len(user)
        BY <1>4, <2>1
      <3>3. /\ DOMAIN us = 1..(Len(user) + 1) /\ us[Len(user) + 1] = NewUser(r.m)
            /\ \A u \in DOMAIN user : us[u] = user[u]
        BY <1>4, <3>2
      <3> HIDE DEF us, owner
      <3>4. QED
        BY <3>1, <3>2, <3>3
    <2>2. CASE match # 0
      <3>1. Back(user[match]).gone = 0
        BY <1>4, <1>5, <2>2, UserRows
      <3>2. /\ owner = match /\ us \in {user, [user EXCEPT ![match] = Back(user[match])]}
            /\ r.x = 1 => us[match].gone = 0
            /\ r.x # 1 => us = user
        BY <1>5, <2>2, <3>1
      <3>3. r.u # 0 => match = r.u
        BY DEF match
      <3> HIDE DEF us, owner
      <3>4. /\ DOMAIN us = DOMAIN user
            /\ \A u \in DOMAIN user \ {match} : us[u] = user[u]
        BY <3>2
      <3>5. owner \notin crossed => us[owner].gone = 0
        BY <1>7, <2>2, <3>2
      <3>6. QED
        BY <1>5, <2>2, <3>2, <3>3, <3>4, <3>5
    <2>3. QED
      BY <2>1, <2>2
  <1> HIDE DEF us, owner
  <1>9. same # 0 => /\ same \in DOMAIN shut /\ shut[same].user = owner
                    /\ shut[same].tenant = TenantOf[r.e]
    BY <1>6, <1>8, SameTenantIn
  <1> HIDE DEF same
  <1>10. \E k : BoundAt(k, bs, shut, owner, TenantOf[r.e])
    BY <1>1, <1>6, <1>8, <1>9, BoundRow
  <1> HIDE DEF bs
  <1>11. PICK k : BoundAt(k, bs, shut, owner, TenantOf[r.e])
    BY <1>10
  <1>12. Swaps(r, us, bs, owner, k)
    BY <1>6, <1>8, <1>11 DEF Swaps, BoundAt
  <1>13. QED
    BY <1>3, <1>12

LEMMA SwappedHistory ==
    ASSUME TInv, HInv, NEW a \in Actors, Crossing(a), Keeps, Swapped(a) PROVE HInv'
  <1> DEFINE r == req[a]
             v == binding[r.b].user
  <1>1. /\ Fits(r) /\ r.pc = "swap" /\ r.e # None /\ r.b \in DOMAIN binding
        /\ binding[r.b].entity = r.e
    BY ReqFits, ConstantsAssumption
    DEF Swapped, Fits, Named, Read, OfEntity, ConstantsAssumption
  <1>2. UNCHANGED tenant /\ AloneIn(TenantOf[r.e]) /\ v \in DOMAIN user /\ v \in UsersOf(r)
    BY <1>1, RowsOf, BoundNamed DEF Swapped, HInv, Alone, AloneFor, RowsOK
  <1>3. PICK us, bs, owner, k : SwapEnds(a, us, bs) /\ Swaps(r, us, bs, owner, k)
    BY SwappedWrites
  <1>4. CASE Done(a) /\ UNCHANGED <<user, binding, moved>>
    BY <1>1, <1>2, <1>4, RefusedHistory
  <1>5. CASE Unique(us, bs) /\ Commit(a, us, bs, Idle) /\ moved' = moved \cup {v}
    <2>1. user' = us /\ binding' = bs /\ Go(a, Idle)
      BY <1>5 DEF Commit
    <2>2. \A u \in DOMAIN us \ {owner, v} : u \in DOMAIN user /\ Same(u, us, bs)
      BY <1>1, <1>3 DEF Same, Swaps
    <2>3. Footprint(a, us, bs)
      BY <1>2, <1>3, <2>2 DEF Footprint, Swaps
    <2>4. owner \notin crossed' => Fine(owner, us, bs, moved')
      BY <1>3, FineLive DEF LiveRow, Crossing, Swaps
    <2>5. v # owner /\ ~Excused(v) => Fine(v, us, bs, moved')
      <3>1. v # owner /\ HasLive(v, bs) => HasLive(v, binding)
        BY <1>3 DEF HasLive, LiveRow, Swaps
      <3>2. ~Excused(v) => Fine(v, user, binding, moved)
        BY <1>2 DEF HInv, Kept
      <3>3. v # owner => us[v] = user[v]
        BY <1>2, <1>3 DEF Swaps
      <3>4. QED
        BY <1>5, <3>1, <3>2, <3>3 DEF Fine
    <2>6. Consistent(us, bs, crossed', moved')
      BY <1>3, <2>2, <2>4, <2>5 DEF Consistent, Swaps
    <2>7. LetIn(bs)
      BY <1>2, <1>3 DEF LetIn, Swaps
    <2>8. QED
      BY <1>1, <1>2, <1>5, <2>1, <2>3, <2>6, <2>7, IdleIs, WriteHistory
  <1>6. QED
    BY <1>3, <1>4, <1>5 DEF SwapEnds

\* The cascades of an import write the bindings of its entity and their users.
Mine(e, u) == \E i \in DOMAIN binding : binding[i].entity = e /\ binding[i].user = u
Beside(e, us, bs) ==
  /\ DOMAIN us = DOMAIN user /\ DOMAIN bs = DOMAIN binding
  /\ \A u \in DOMAIN user : Mine(e, u) \/ us[u].gone = user[u].gone
  /\ \A i \in DOMAIN binding :
       /\ bs[i].user = binding[i].user /\ bs[i].tenant = binding[i].tenant
       /\ bs[i].entity = binding[i].entity
       /\ binding[i].entity = e \/ bs[i].gone = binding[i].gone

LEMMA BesidePut ==
    ASSUME NEW e, NEW us, NEW bs, Beside(e, us, bs), NEW b \in DOMAIN bs, bs[b].entity = e,
           NEW w, NEW v, v.user = bs[b].user, v.tenant = bs[b].tenant, v.entity = bs[b].entity
    PROVE  Beside(e, [us EXCEPT ![bs[b].user] = w], [bs EXCEPT ![b] = v])
  <1> DEFINE ws == [us EXCEPT ![bs[b].user] = w]
             cs == [bs EXCEPT ![b] = v]
  <1>1. b \in DOMAIN binding /\ binding[b].entity = e /\ bs[b].user = binding[b].user
    BY DEF Beside
  <1>2. Mine(e, bs[b].user)
    BY <1>1 DEF Mine
  <1>3. /\ DOMAIN ws = DOMAIN us /\ \A u \in DOMAIN us : u # bs[b].user => ws[u] = us[u]
        /\ DOMAIN cs = DOMAIN bs /\ cs[b] = v /\ \A i \in DOMAIN bs \ {b} : cs[i] = bs[i]
    OBVIOUS
  <1> HIDE DEF ws, cs
  <1>4. QED
    BY <1>1, <1>2, <1>3 DEF Beside, ws, cs

LEMMA BesideOff ==
    ASSUME NEW s, Midway(s), NEW e, Beside(e, s.user, s.binding), clock \in Nat
    PROVE  Beside(e, Off(e, s).user, Off(e, s).binding)
  <1> DEFINE B == {i \in LiveOf(s.binding) : s.binding[i].entity = e}
             b == Newest(B)
  <1>1. CASE B = {}
    BY <1>1 DEF Off
  <1>2. CASE B # {}
    <2>1. B \subseteq DOMAIN s.binding
      BY DEF LiveOf
    <2>2. b \in B /\ b \in DOMAIN s.binding /\ s.binding[b].entity = e
      BY <1>2, <2>1, MidwayRow
    <2>3. Off(e, s) = [user |-> [s.user EXCEPT ![s.binding[b].user] = Gone(@, clock)],
                       binding |-> [s.binding EXCEPT ![b] = Gone(@, clock)]]
      BY <1>2 DEF Off
    <2> HIDE DEF b
    <2>4. s.binding[b] \in BindingRow
      BY <2>2, RowIn DEF Midway, Drawn
    <2>5. LET v == Gone(s.binding[b], clock) IN
          /\ v.user = s.binding[b].user /\ v.tenant = s.binding[b].tenant
          /\ v.entity = s.binding[b].entity
      BY <2>4 DEF Gone, BindingRow
    <2>6. QED
      BY <2>2, <2>3, <2>5, BesidePut
  <1>3. QED
    BY <1>1, <1>2

LEMMA BesideOn ==
    ASSUME NEW s, Midway(s), NEW e, NEW m, Beside(e, s.user, s.binding)
    PROVE  Beside(e, On(e, m, s).user, On(e, m, s).binding)
  <1> DEFINE B == {i \in DOMAIN s.binding : s.binding[i].entity = e}
             b == LiveFirst(B, s.binding)
             w == NewUser(IF m = None THEN s.user[s.binding[b].user].email ELSE m)
  <1>1. CASE b = 0
    BY <1>1 DEF On
  <1>2. CASE b # 0
    <2>1. b \in B /\ b \in DOMAIN s.binding /\ s.binding[b].entity = e
      <3>1. s.binding \in Seq(BindingRow)
        BY DEF Midway, Drawn
      <3>2. B \subseteq DOMAIN s.binding
        OBVIOUS
      <3> HIDE DEF B
      <3>3. b = 0 \/ b \in B
        BY <3>1, <3>2, LiveFirstIn
      <3>4. QED
        BY <1>2, <3>3 DEF B
    <2>2. On(e, m, s) = [user |-> [s.user EXCEPT ![s.binding[b].user] = w],
                         binding |-> [s.binding EXCEPT ![b] = Back(@)]]
      BY <1>2 DEF On
    <2> HIDE DEF b, w
    <2>3. s.binding[b] \in BindingRow
      BY <2>1, RowIn DEF Midway, Drawn
    <2>4. LET v == Back(s.binding[b]) IN
          /\ v.user = s.binding[b].user /\ v.tenant = s.binding[b].tenant
          /\ v.entity = s.binding[b].entity
      BY <2>3 DEF Back, BindingRow
    <2>5. Beside(e, [s.user EXCEPT ![s.binding[b].user] = w],
                    [s.binding EXCEPT ![b] = Back(s.binding[b])])
      BY <2>1, <2>4, BesidePut
    <2>6. QED
      BY <2>2, <2>5
  <1>3. QED
    BY <1>1, <1>2

LEMMA BesideSynced ==
    ASSUME NEW s, Midway(s), NEW e, NEW m, Beside(e, s.user, s.binding),
           s = [user |-> s.user, binding |-> s.binding]
    PROVE  Beside(e, Synced(e, m, s).user, Synced(e, m, s).binding)
  <1> DEFINE B == {i \in LiveOf(s.binding) : s.binding[i].entity = e}
             b == Newest(B)
             u == s.binding[b].user
             w == [s.user[u] EXCEPT !.email = m]
  <1>1. CASE Synced(e, m, s) = s
    BY <1>1
  <1>2. CASE B # {} /\ Synced(e, m, s) # s
    <2>1. B \subseteq DOMAIN s.binding
      BY DEF LiveOf
    <2>2. b \in B /\ b \in DOMAIN s.binding /\ s.binding[b].entity = e
      BY <1>2, <2>1, MidwayRow
    <2>3. Synced(e, m, s) = [s EXCEPT !.user = [s.user EXCEPT ![u] = w]]
      BY <1>2 DEF Synced
    <2> HIDE DEF b, w
    <2>4. [s.binding EXCEPT ![b] = s.binding[b]] = s.binding
      <3>1. s.binding \in Seq(BindingRow)
        BY DEF Midway, Drawn
      <3>2. QED
        BY <2>2, <3>1
    <2>5. Beside(e, [s.user EXCEPT ![u] = w], [s.binding EXCEPT ![b] = s.binding[b]])
      BY <2>2, BesidePut
    <2>6. Synced(e, m, s).user = [s.user EXCEPT ![u] = w] /\ Synced(e, m, s).binding = s.binding
      BY <2>3
    <2>7. QED
      BY <2>4, <2>5, <2>6
  <1>3. QED
    BY <1>1, <1>2 DEF Synced

\* Of the users that had no access, a cascade lets in those it gives a binding,
\* and an entity keeps to one live binding.
Dormant(u) == user[u].gone # 0 /\ ~HasLive(u, binding)
Level(us, bs) == \A u \in DOMAIN user : Dormant(u) => (us[u].gone = 0 <=> HasLive(u, bs))
Single(e, bs) == \A i, j \in DOMAIN bs :
  bs[i].entity = e /\ bs[j].entity = e /\ bs[i].gone = 0 /\ bs[j].gone = 0 => i = j

LEMMA LevelStart ==
    ASSUME TInv, NEW e, e # None PROVE Single(e, binding) /\ Level(user, binding)
  <1>1. Single(e, binding)
    BY DEF Single, TInv, RowsInv, Unique, LiveOf
  <1>2. Level(user, binding)
    BY DEF Level, Dormant
  <1>3. QED
    BY <1>1, <1>2

LEMMA LevelPut ==
    ASSUME NEW us, NEW bs, DOMAIN us = DOMAIN user, Level(us, bs), NEW b \in DOMAIN bs,
           NEW w, NEW v, v.user = bs[b].user,
           \/ w.gone = 0 /\ v.gone = 0
           \/ /\ w.gone # 0 /\ v.gone # 0
              /\ bs[b].user \in DOMAIN user /\ Dormant(bs[b].user) =>
                   \A i \in DOMAIN bs : LiveRow(i, bs[b].user, bs) => i = b
    PROVE  Level([us EXCEPT ![bs[b].user] = w], [bs EXCEPT ![b] = v])
  <1> DEFINE ws == [us EXCEPT ![bs[b].user] = w]
             cs == [bs EXCEPT ![b] = v]
  <1>1. /\ \A u \in DOMAIN us : ws[u] = IF u = bs[b].user THEN w ELSE us[u]
        /\ DOMAIN cs = DOMAIN bs /\ cs[b] = v /\ \A i \in DOMAIN bs \ {b} : cs[i] = bs[i]
    OBVIOUS
  <1> HIDE DEF ws, cs
  <1>2. ASSUME NEW u \in DOMAIN user, Dormant(u) PROVE ws[u].gone = 0 <=> HasLive(u, cs)
    <2>1. us[u].gone = 0 <=> HasLive(u, bs)
      BY <1>2 DEF Level
    <2>2. CASE u # bs[b].user
      BY <1>1, <2>1, <2>2 DEF HasLive, LiveRow
    <2>3. CASE u = bs[b].user /\ w.gone = 0 /\ v.gone = 0
      BY <1>1, <2>3 DEF HasLive, LiveRow
    <2>4. CASE u = bs[b].user /\ w.gone # 0 /\ v.gone # 0
      BY <1>1, <1>2, <2>4 DEF HasLive, LiveRow
    <2>5. QED
      BY <2>2, <2>3, <2>4
  <1>3. QED
    BY <1>2 DEF Level, ws, cs

LEMMA LevelOff ==
    ASSUME NEW s, Midway(s), NEW e, Beside(e, s.user, s.binding), Single(e, s.binding),
           Level(s.user, s.binding), clock \in Nat, clock # 0
    PROVE  Level(Off(e, s).user, Off(e, s).binding)
  <1> DEFINE B == {i \in LiveOf(s.binding) : s.binding[i].entity = e}
             b == Newest(B)
             u == s.binding[b].user
  <1>1. CASE B = {}
    BY <1>1 DEF Off
  <1>2. CASE B # {}
    <2>1. B \subseteq DOMAIN s.binding
      BY DEF LiveOf
    <2>2. /\ b \in B /\ b \in DOMAIN s.binding /\ s.binding[b].entity = e
          /\ s.binding[b].gone = 0 /\ s.user[u] \in UserRow
      <3>1. b \in B /\ s.user[u] \in UserRow
        <4> HIDE DEF B
        <4>1. QED
          BY <1>2, <2>1, MidwayRow
      <3> HIDE DEF b
      <3>2. QED
        BY <3>1 DEF LiveOf
    <2>3. Off(e, s) = [user |-> [s.user EXCEPT ![u] = Gone(@, clock)],
                       binding |-> [s.binding EXCEPT ![b] = Gone(@, clock)]]
      BY <1>2 DEF Off
    <2> HIDE DEF b
    <2>4. s.binding[b] \in BindingRow
      BY <2>2, RowIn DEF Midway, Drawn
    <2>5. /\ Gone(s.binding[b], clock).user = u /\ Gone(s.binding[b], clock).gone = clock
          /\ Gone(s.user[u], clock).gone = clock
      BY <2>2, <2>4 DEF Gone, BindingRow, UserRow
    <2>6. ASSUME Dormant(u), NEW i \in DOMAIN s.binding, LiveRow(i, u, s.binding) PROVE i = b
      <3>1. i \in DOMAIN binding /\ binding[i].user = u /\ binding[i].gone # 0
        BY <2>6 DEF Beside, LiveRow, Dormant, HasLive
      <3>2. s.binding[i].entity = e /\ s.binding[i].gone = 0
        BY <2>6, <3>1 DEF Beside, LiveRow
      <3>3. QED
        BY <2>2, <3>2 DEF Single
    <2>7. DOMAIN s.user = DOMAIN user
      BY DEF Beside
    <2> HIDE DEF u
    <2>8. Level([s.user EXCEPT ![u] = Gone(s.user[u], clock)],
                [s.binding EXCEPT ![b] = Gone(s.binding[b], clock)])
      BY <2>2, <2>5, <2>6, <2>7, LevelPut DEF u
    <2>9. QED
      BY <2>3, <2>8
  <1>3. QED
    BY <1>1, <1>2

LEMMA LevelOn ==
    ASSUME NEW s, Midway(s), NEW e, NEW m, Beside(e, s.user, s.binding), Single(e, s.binding),
           Level(s.user, s.binding)
    PROVE  Single(e, On(e, m, s).binding) /\ Level(On(e, m, s).user, On(e, m, s).binding)
  <1> DEFINE B == {i \in DOMAIN s.binding : s.binding[i].entity = e}
             b == LiveFirst(B, s.binding)
             u == s.binding[b].user
             w == NewUser(IF m = None THEN s.user[s.binding[b].user].email ELSE m)
  <1>1. CASE b = 0
    BY <1>1 DEF On
  <1>2. CASE b # 0
    <2>1. s.binding \in Seq(BindingRow)
      BY DEF Midway, Drawn
    <2>2. /\ b \in B /\ b \in DOMAIN s.binding
          /\ s.binding[b].gone = 0 \/ \A i \in B : s.binding[i].gone # 0
      <3>1. B \subseteq DOMAIN s.binding
        OBVIOUS
      <3> HIDE DEF B
      <3>2. b = 0 \/ b \in B
        BY <2>1, <3>1, LiveFirstIn
      <3>3. CASE B \cap LiveOf(s.binding) = {}
        BY <1>2, <3>1, <3>2, <3>3 DEF LiveOf
      <3>4. CASE B \cap LiveOf(s.binding) # {}
        <4>1. b = Newest(B \cap LiveOf(s.binding))
          BY <3>4 DEF LiveFirst
        <4>2. B \cap LiveOf(s.binding) \subseteq DOMAIN s.binding
          BY <3>1
        <4>3. Newest(B \cap LiveOf(s.binding)) \in B \cap LiveOf(s.binding)
          BY <2>1, <3>4, <4>2, NewestIn
        <4>4. QED
          BY <3>1, <4>1, <4>3 DEF LiveOf
      <3>5. QED
        BY <3>3, <3>4
    <2>3. On(e, m, s) = [user |-> [s.user EXCEPT ![u] = w],
                         binding |-> [s.binding EXCEPT ![b] = Back(@)]]
      BY <1>2 DEF On
    <2> HIDE DEF b
    <2>4. s.binding[b] \in BindingRow
      BY <2>1, <2>2, RowIn
    <2>5. /\ Back(s.binding[b]).user = u /\ Back(s.binding[b]).gone = 0 /\ w.gone = 0
          /\ Back(s.binding[b]).entity = s.binding[b].entity
      BY <2>4 DEF Back, BindingRow, NewUser
    <2> HIDE DEF w
    <2>6. Single(e, [s.binding EXCEPT ![b] = Back(s.binding[b])])
      BY <2>2, <2>5 DEF Single
    <2>7. DOMAIN s.user = DOMAIN user
      BY DEF Beside
    <2>8. Level([s.user EXCEPT ![u] = w], [s.binding EXCEPT ![b] = Back(s.binding[b])])
      BY <2>2, <2>5, <2>7, LevelPut
    <2>9. QED
      BY <2>3, <2>6, <2>8
  <1>3. QED
    BY <1>1, <1>2

LEMMA LevelSynced ==
    ASSUME NEW s, Midway(s), NEW e, NEW m, Beside(e, s.user, s.binding),
           s = [user |-> s.user, binding |-> s.binding], Level(s.user, s.binding)
    PROVE  Level(Synced(e, m, s).user, s.binding)
  <1> DEFINE B == {i \in LiveOf(s.binding) : s.binding[i].entity = e}
             u == s.binding[Newest(B)].user
             us == [s.user EXCEPT ![u] = [@ EXCEPT !.email = m]]
  <1>1. CASE Synced(e, m, s) = s
    BY <1>1
  <1>2. CASE B # {} /\ Synced(e, m, s) # s
    <2>1. B \subseteq DOMAIN s.binding
      BY DEF LiveOf
    <2>2. u \in DOMAIN s.user /\ s.user[u] \in UserRow
      BY <1>2, <2>1, MidwayRow
    <2>3. Synced(e, m, s) = [s EXCEPT !.user = us]
      BY <1>2 DEF Synced
    <2> HIDE DEF u
    <2>4. \A v \in DOMAIN s.user : us[v].gone = s.user[v].gone
      BY <2>2 DEF UserRow
    <2>5. DOMAIN s.user = DOMAIN user
      BY DEF Beside
    <2> HIDE DEF us
    <2>6. Synced(e, m, s).user = us
      BY <2>3
    <2>7. QED
      BY <2>4, <2>5, <2>6 DEF Level
  <1>3. QED
    BY <1>1, <1>2 DEF Synced

LEMMA EnableIs ==
    ASSUME NEW s, NEW e, NEW m
    PROVE  \/ Enable(e, m, s) \in {s, On(e, m, s)}
           \/ /\ {i \in DOMAIN s.binding : s.binding[i].entity = e} = {}
              /\ Enable(e, m, s) =
                   [user |-> Append(s.user, NewUser(m)),
                    binding |-> Append(s.binding, NewBinding(Len(s.user) + 1, TenantOf[e], e))]
  BY DEF Enable

LEMMA BesideHistory ==
    ASSUME TInv, HInv, NEW a \in Actors, NEW us, NEW bs, Crossing(a), Keeps,
           Commit(a, us, bs, Idle), UNCHANGED <<tenant, moved>>,
           req[a].pc \notin {"evict", "reopen"}, req[a].e \in Entities, req[a].e # None,
           Shuts => UsersOf(req[a]) \subseteq crossed', Beside(req[a].e, us, bs), Level(us, bs)
    PROVE  HInv'
  <1> DEFINE e == req[a].e
  <1>1. CASE ~Unique(us, bs)
    BY <1>1, RefusedHistory DEF Commit
  <1>2. CASE Unique(us, bs)
    <2>1. user' = us /\ binding' = bs /\ Go(a, Idle)
      BY <1>2 DEF Commit
    <2>2. \A u : Mine(e, u) => u \in UsersOf(req[a])
      BY BoundNamed DEF Mine
    <2>3. \A u \in DOMAIN user : Mine(e, u) \/ Same(u, us, bs)
      BY DEF Beside, Same, Mine
    <2>4. DOMAIN us = DOMAIN user
      BY DEF Beside
    <2>5. Footprint(a, us, bs)
      BY <2>2, <2>3 DEF Footprint
    <2>6. ASSUME NEW u \in DOMAIN user, u \in UsersOf(req[a]), u \notin crossed', ~Excused(u)
          PROVE  Fine(u, us, bs, moved')
      <3>1. Fine(u, user, binding, moved)
        BY <2>6 DEF HInv, Kept
      <3>2. /\ \A i \in DOMAIN binding : binding[i].gone = 0 => bs[i].gone = 0
            /\ user[u].gone = 0 => us[u].gone = 0
        BY <2>1, <2>6 DEF Shuts, LiveOf
      <3>3. HasLive(u, binding) => HasLive(u, bs)
        BY <3>2 DEF HasLive, LiveRow, Beside
      <3>4. CASE user[u].gone = 0
        BY <3>1, <3>2, <3>3, <3>4 DEF Fine
      <3>5. CASE user[u].gone # 0
        BY <3>1, <3>5 DEF Fine, Level, Dormant
      <3>6. QED
        BY <3>4, <3>5
    <2>7. Consistent(us, bs, crossed', moved')
      BY <2>2, <2>3, <2>4, <2>6 DEF Consistent
    <2>8. LetIn(bs)
      <3>1. ASSUME NEW i \in DOMAIN binding, binding[i].entity = e PROVE AloneIn(bs[i].tenant)
        <4>1. binding[i].tenant = TenantOf[e]
          BY <3>1, RowsOf DEF RowsOK
        <4>2. AloneIn(TenantOf[e])
          BY DEF HInv, Alone, AloneFor
        <4>3. QED
          BY <4>1, <4>2 DEF Beside
      <3>2. QED
        BY <3>1 DEF LetIn, Beside
    <2>9. QED
      BY <2>1, <2>5, <2>7, <2>8, IdleIs, WriteHistory
  <1>3. QED
    BY <1>1, <1>2

Adds(r, us, bs) ==
  /\ r.m \in Emails
  /\ us = Append(user, NewUser(r.m))
  /\ bs = Append(binding, NewBinding(Len(user) + 1, TenantOf[r.e], r.e))

LEMMA ImportedWrites ==
    ASSUME TInv, NEW a \in Actors, Imported(a)
    PROVE  \E us, bs : /\ Commit(a, us, bs, Idle)
                       /\ \/ Beside(req[a].e, us, bs) /\ Level(us, bs)
                          \/ Adds(req[a], us, bs)
  <1> DEFINE r == req[a]
             e == r.e
             will == r.b = 1
             was == r.y \in {2, 3}
             gone == r.x = 1
             wasGone == r.y \in {1, 3}
             s0 == [user |-> user, binding |-> binding]
             s1 == IF will /\ ~gone THEN Synced(e, r.m, s0) ELSE s0
             s2 == IF ~wasGone /\ gone /\ was THEN Off(e, s1) ELSE s1
             s3 == IF wasGone /\ ~gone /\ was THEN On(e, None, s2) ELSE s2
             s4 == IF ~gone /\ was /\ ~will THEN Off(e, s3) ELSE s3
             s5 == IF ~gone /\ ~was /\ will THEN Enable(e, r.m, s4) ELSE s4
             added == [user |-> Append(user, NewUser(r.m)),
                       binding |-> Append(binding, NewBinding(Len(user) + 1, TenantOf[e], e))]
  <1>1. /\ e \in Entities /\ e # None /\ (will => r.m \in Emails) /\ r.pc = "import"
    BY ReqFits, ConstantsAssumption
    DEF Imported, Fits, Named, OfEntity, ConstantsAssumption
  <1>2. clock \in Nat /\ clock # 0 /\ Unstamped(binding, clock)
    BY NewStamps DEF Imported
  <1>3. /\ Midway(s0) /\ Beside(e, s0.user, s0.binding)
        /\ Single(e, s0.binding) /\ Level(s0.user, s0.binding)
    BY <1>1, <1>2, RowsOf, LevelStart DEF Midway, Beside
  <1>4. /\ Midway(s1) /\ Beside(e, s1.user, s1.binding)
        /\ Single(e, s1.binding) /\ Level(s1.user, s1.binding)
    BY <1>1, <1>3, SyncedMidway, BesideSynced, LevelSynced
  <1>5. \/ Beside(e, s5.user, s5.binding) /\ Level(s5.user, s5.binding)
        \/ will /\ s5 = added
    <2>1. CASE gone
      <3>1. s5 = s2 /\ (s2 = s1 \/ s2 = Off(e, s1))
        BY <2>1
      <3> HIDE DEF s1, s2, s5
      <3>2. QED
        BY <1>2, <1>4, <3>1, BesideOff, LevelOff
    <2>2. CASE ~gone /\ ~was /\ will
      <3>1. s5 = Enable(e, r.m, s1) /\ s1 = Synced(e, r.m, s0)
        BY <2>2
      <3>2. CASE Enable(e, r.m, s1) \in {s1, On(e, r.m, s1)}
        <4> HIDE DEF s1, s5
        <4>1. QED
          BY <1>4, <3>1, <3>2, BesideOn, LevelOn
      <3>3. CASE {i \in DOMAIN s1.binding : s1.binding[i].entity = e} = {}
                 /\ Enable(e, r.m, s1) =
                      [user |-> Append(s1.user, NewUser(r.m)),
                       binding |-> Append(s1.binding,
                         NewBinding(Len(s1.user) + 1, TenantOf[e], e))]
        <4>1. s1.binding = binding
          BY <1>1, <1>3, <3>1, SyncedMidway
        <4>2. {i \in LiveOf(s0.binding) : s0.binding[i].entity = e} = {}
          BY <3>3, <4>1 DEF LiveOf
        <4>3. s1 = s0
          BY <3>1, <4>2 DEF Synced
        <4>4. s0.user = user /\ s0.binding = binding
          OBVIOUS
        <4> HIDE DEF s0, s1, s5
        <4>5. s5 = added
          BY <3>1, <3>3, <4>3, <4>4
        <4>6. QED
          BY <2>2, <4>5
      <3> HIDE DEF s1, s5
      <3>4. QED
        BY <3>2, <3>3, EnableIs
    <2>3. CASE ~gone /\ ~(~was /\ will)
      <3>1. s5 = s4 /\ (s4 = s3 \/ s4 = Off(e, s3)) /\ (s3 = s1 \/ s3 = On(e, None, s1))
        BY <2>3
      <3>2. /\ Midway(s3) /\ Beside(e, s3.user, s3.binding)
            /\ Single(e, s3.binding) /\ Level(s3.user, s3.binding)
        <4> HIDE DEF s1, s3
        <4>1. QED
          BY <1>2, <1>4, <3>1, OnMidway, BesideOn, LevelOn
      <3> HIDE DEF s3, s4, s5
      <3>3. QED
        BY <1>2, <3>1, <3>2, BesideOff, LevelOff
    <2>4. QED
      BY <2>1, <2>2, <2>3
  <1>6. Commit(a, s5.user, s5.binding, Idle)
    BY DEF Imported
  <1> HIDE DEF s5
  <1>7. \/ Beside(e, s5.user, s5.binding) /\ Level(s5.user, s5.binding)
        \/ Adds(r, s5.user, s5.binding)
    BY <1>1, <1>5 DEF Adds
  <1>8. QED
    BY <1>6, <1>7

LEMMA ImportedHistory ==
    ASSUME TInv, HInv, NEW a \in Actors, Crossing(a), Shuts => Scope(req[a]) \subseteq crossed',
           Keeps, Imported(a)
    PROVE  HInv'
  <1> DEFINE r == req[a]
             e == r.e
  <1>1. /\ e \in Entities /\ e # None /\ r.pc = "import" /\ UNCHANGED <<tenant, moved>>
    BY ReqFits, ConstantsAssumption
    DEF Imported, Fits, Named, OfEntity, ConstantsAssumption
  <1>2. PICK us, bs : /\ Commit(a, us, bs, Idle)
                      /\ \/ Beside(e, us, bs) /\ Level(us, bs)
                         \/ Adds(r, us, bs)
    BY ImportedWrites
  <1>3. CASE Beside(e, us, bs) /\ Level(us, bs)
    BY <1>1, <1>2, <1>3, BesideHistory DEF Scope
  <1>4. CASE Adds(r, us, bs)
    <2>1. TenantOf[e] \in Tenants /\ AloneIn(TenantOf[e])
      BY <1>1, ConstantsAssumption DEF ConstantsAssumption, HInv, Alone, AloneFor
    <2>2. Commit(a, Append(user, NewUser(r.m)),
                 Append(binding, NewBinding(Len(user) + 1, TenantOf[e], e)), Idle)
      BY <1>2, <1>4 DEF Adds
    <2>3. QED
      BY <1>1, <1>4, <2>1, <2>2, NewUserHistory DEF Adds
  <1>5. QED
    BY <1>2, <1>3, <1>4

-----------------------------------------------------------------------------
(* The history of the rows is kept.                                        *)

LEMMA EntityHistory == ASSUME TInv, HInv, NEW a \in Actors, Crossing(a), Entity(a) PROVE HInv'
  BY EntityKeeps, CreateHistory, UpdateHistory, SwapHistory, ChangeEmailHistory, ArchiveHistory,
     RestoreHistory, SaveHistory, LookHistory, MatchHistory, FitHistory, GrantHistory,
     FindHistory, ShutHistory,
     ShuttingHistory, MarkHistory, RereadHistory, ReviveHistory, SwappedHistory, SyncHistory
  DEF Entity

LEMMA PortalUserHistory ==
    ASSUME TInv, HInv, NEW a \in Actors, Crossing(a), PortalUser(a) PROVE HInv'
  BY PortalUserKeeps, RegisterHistory, ArchiveUserHistory, RestoreUserHistory,
     RegisteredHistory, BanHistory, UnbanHistory, CascadeHistory DEF PortalUser

LEMMA TenantHistory == ASSUME TInv, HInv, NEW a \in Actors, Crossing(a), Tenant(a) PROVE HInv'
  BY TenantKeeps, ArchiveTenantHistory, RestoreTenantHistory, EvictHistory, ReopenHistory
  DEF Tenant

LEMMA SheetHistory ==
    ASSUME TInv, HInv, NEW a \in Actors, Crossing(a), Sheet(a),
           Shuts => Scope(req[a]) \subseteq crossed'
    PROVE  HInv'
  BY SheetKeeps, ImportHistory, ImportedHistory DEF Sheet

LEMMA StepHInv == TInv /\ HInv /\ [Next]_vars => HInv'
  <1> SUFFICES ASSUME TInv, HInv, [Next]_vars PROVE HInv'
    OBVIOUS
  <1>1. CASE UNCHANGED vars
    BY <1>1 DEF vars, HInv, Alone, AloneFor, AloneIn, Closed, Evicting, Decided, DecidedFor,
                HasLive, LiveRow, Kept, Fine, Excused, BoundTo, Rooted
  <1>2. ASSUME NEW a \in Actors, Entity(a) \/ PortalUser(a) \/ Tenant(a), Cross(a, {})
        PROVE  HInv'
    BY <1>2, CrossFacts, EntityHistory, PortalUserHistory, TenantHistory
  <1>3. ASSUME NEW a \in Actors, Sheet(a), Cross(a, IF Shuts THEN Scope(req[a]) ELSE {})
        PROVE  HInv'
    BY <1>3, CrossFacts, SheetHistory
  <1>4. ASSUME NEW a \in Actors, Die(a), Cross(a, Scope(req[a])) PROVE HInv'
    BY <1>4, CrossFacts, DieStep, DieHistory
  <1>5. QED
    BY <1>1, <1>2, <1>3, <1>4 DEF Next

LEMMA InitHInv == Init => HInv
  <1> SUFFICES ASSUME Init PROVE HInv
    OBVIOUS
  <1>1. /\ tenant = [t \in Tenants |-> TRUE] /\ req = [a \in Actors |-> Idle]
        /\ crossed = {} /\ moved = {}
    BY DEF Init
  <1>2. PICK s \in Start : user = s.user /\ binding = s.binding
    BY DEF Init
  <1>3. /\ user \in Seq([email : Emails, gone : {0}])
        /\ binding \in Seq([user : DOMAIN user, tenant : Tenants,
                            entity : Entities \cup {None}, gone : {0}])
        /\ \A u \in DOMAIN user : \E i \in DOMAIN binding : binding[i].user = u
    BY <1>2, StartAssumption
  <1>4. /\ \A u \in DOMAIN user : user[u].gone = 0
        /\ \A i \in DOMAIN binding : binding[i].tenant \in Tenants /\ binding[i].gone = 0
    <2>1. \A u \in DOMAIN user : user[u] \in [email : Emails, gone : {0}]
      BY <1>3, RowIn
    <2>2. \A i \in DOMAIN binding :
             binding[i] \in [user : DOMAIN user, tenant : Tenants,
                             entity : Entities \cup {None}, gone : {0}]
      BY <1>3, RowIn
    <2>3. QED
      BY <2>1, <2>2
  <1>5. \A a \in Actors : req[a] = Idle
    BY <1>1
  <1>6. Alone
    BY <1>5, IdleIs DEF Alone, AloneFor, Roots
  <1>7. Closed
    BY <1>1, <1>4 DEF Closed, AloneIn
  <1>8. Decided
    BY <1>5, IdleIs, UndecidedFor DEF Decided
  <1>9. Kept
    BY <1>3, <1>4 DEF Kept, Fine, HasLive, LiveRow
  <1>10. QED
    BY <1>3, <1>6, <1>7, <1>8, <1>9 DEF HInv, Rooted

LEMMA HInvHolds == Spec => []HInv
  BY InitHInv, StepHInv, TInvHolds, PTL DEF Spec

-----------------------------------------------------------------------------
(* Who can enter.                                                          *)

LEMMA Enters ==
    ASSUME TInv, HInv, NEW u \in DOMAIN user, u \notin Busy, ~Excused(u),
           user[u].gone = 0, HasLive(u, binding)
    PROVE  MayEnter(u)
  <1> DEFINE S == BoundTo(u) \cap LiveOf(binding)
  <1>1. S # {}
    BY DEF HasLive, LiveRow, BoundTo, LiveOf
  <1>2. Home(u) \in S
    <2>1. S \subseteq DOMAIN binding /\ binding \in Seq(BindingRow)
      BY RowsOf DEF BoundTo, RowsOK
    <2>2. Home(u) = Oldest(S)
      BY <1>1 DEF Home
    <2> HIDE DEF S
    <2>3. QED
      BY <1>1, <2>1, <2>2, OldestIn
  <1>3. PICK k \in DOMAIN binding : k = Home(u) /\ binding[k].user = u /\ binding[k].gone = 0
    BY <1>2 DEF BoundTo, LiveOf
  <1>4. k # 0 /\ u # 0 /\ binding[k].tenant \in Tenants
    BY <1>3, RowsOf, RowTypes
  <1>5. binding[k].tenant \notin crossed
    BY <1>3 DEF Excused, BoundTo
  <1>6. ~Evicting(binding[k].tenant)
    <2>1. ASSUME NEW a \in Actors, req[a].t = binding[k].tenant PROVE FALSE
      <3>1. req[a].t # None
        BY <1>4, <2>1, ConstantsAssumption DEF ConstantsAssumption
      <3>2. u \in UsersOf(req[a])
        BY <1>3, <1>4, <2>1, <3>1 DEF UsersOf
      <3>3. QED
        BY <3>2 DEF Busy
    <2>2. QED
      BY <2>1 DEF Evicting
  <1>7. tenant[binding[k].tenant]
    BY <1>3, <1>5, <1>6 DEF HInv, Closed, AloneIn
  <1>8. QED
    BY <1>3, <1>4, <1>7 DEF MayEnter

\* A user with a live binding of a live tenant, whom no request is about and no
\* two requests crossed, can enter: what other tenants, entities or requests
\* archived before does not keep it out.
THEOREM DoorsStayOpen == Spec => []DoorsOpen
  <1>1. TInv /\ HInv => DoorsOpen
    <2> SUFFICES ASSUME TInv, HInv, NEW i \in LiveOf(binding),
                        binding[i].user \notin Busy, ~Excused(binding[i].user)
                 PROVE  MayEnter(binding[i].user)
      BY DEF DoorsOpen
    <2> DEFINE u == binding[i].user
    <2>1. i \in DOMAIN binding /\ binding[i].gone = 0 /\ u \in DOMAIN user
      BY RowsOf DEF LiveOf, RowsOK
    <2>2. HasLive(u, binding)
      BY <2>1 DEF HasLive, LiveRow
    <2>3. user[u].gone = 0
      BY <2>1, <2>2 DEF HInv, Kept, Fine
    <2>4. QED
      BY <2>1, <2>2, <2>3, Enters
  <1>2. QED
    BY <1>1, TInvHolds, HInvHolds, PTL

\* A live user whom no request is about and no two requests crossed can enter
\* somewhere, unless a swap gave its access away: archives leave no user that is
\* live and locked out.
THEOREM NobodyStrays == Spec => []NoStrayUsers
  <1>1. TInv /\ HInv => NoStrayUsers
    <2> SUFFICES ASSUME TInv, HInv, NEW u \in LiveOf(user) \ (Busy \cup moved), ~Excused(u)
                 PROVE  MayEnter(u)
      BY DEF NoStrayUsers
    <2>1. u \in DOMAIN user /\ user[u].gone = 0
      BY DEF LiveOf
    <2>2. HasLive(u, binding)
      BY <2>1 DEF HInv, Kept, Fine
    <2>3. QED
      BY <2>1, <2>2, Enters
  <1>2. QED
    BY <1>1, TInvHolds, HInvHolds, PTL

\* The bindings of an archived tenant that its restore brings back collide
\* neither with each other nor with what was created meanwhile, when no two
\* requests crossed the tenant.
THEOREM CohortsFit == Spec => []CohortFits
  <1>1. TInv /\ HInv => CohortFits
    <2> SUFFICES ASSUME TInv, HInv, NEW t \in Tenants, ~tenant[t], t \notin crossed,
                        \A a \in Actors : t \notin TenantsOf(req[a])
                 PROVE  Unique(<<>>, ClearBindings(Cohort(InTenant(t))))
      BY DEF CohortFits
    <2> DEFINE C == Cohort(InTenant(t))
               bs == ClearBindings(C)
    <2>1. \A i \in DOMAIN binding : binding[i] \in BindingRow
      BY RowsOf, RowIn DEF RowsOK
    <2>2. /\ DOMAIN bs = DOMAIN binding
          /\ \A i \in DOMAIN bs : /\ bs[i].user = binding[i].user
                                  /\ bs[i].tenant = binding[i].tenant
                                  /\ bs[i].entity = binding[i].entity
                                  /\ i \notin C => bs[i] = binding[i]
      BY <2>1 DEF ClearBindings, Back, BindingRow
    <2>3. \A i \in C : i \in DOMAIN binding /\ binding[i].tenant = t
      BY DEF Cohort, InTenant
    <2>4. \A i, j \in C : binding[i].gone = binding[j].gone
      <3>1. \A i \in DOMAIN binding : binding[i].gone \in Nat
        BY <2>1 DEF BindingRow
      <3>2. \A i, j \in C : i \in DOMAIN binding /\ j \in DOMAIN binding
                            /\ binding[i].gone <= binding[j].gone
        BY <2>3 DEF Cohort
      <3> HIDE DEF C
      <3>3. QED
        BY <3>1, <3>2
    <2> HIDE DEF C, bs
    <2>5. ASSUME NEW i \in DOMAIN binding, binding[i].gone = 0 PROVE binding[i].tenant # t
      <3>1. ~Evicting(t)
        BY DEF Evicting, TenantsOf
      <3>2. QED
        BY <2>5, <3>1 DEF HInv, Closed, AloneIn
    <2>6. ASSUME NEW i \in C, NEW j \in DOMAIN binding, binding[j].gone = 0
          PROVE  Apart(binding[i], binding[j])
      <3>1. binding[i].tenant # binding[j].tenant
        BY <2>3, <2>5, <2>6
      <3>2. binding[i].entity = binding[j].entity => binding[i].entity = None
        BY <2>3, <3>1, RowsOf DEF RowsOK
      <3>3. QED
        BY <3>1, <3>2 DEF Apart
    <2>7. ASSUME NEW i \in DOMAIN bs, NEW j \in DOMAIN bs, bs[i].gone = 0, bs[j].gone = 0, i # j
          PROVE  Apart(binding[i], binding[j])
      <3>1. CASE i \in C /\ j \in C
        BY <2>3, <2>4, <2>7, <3>1 DEF TInv, Together
      <3>2. CASE i \in C /\ j \notin C
        BY <2>2, <2>6, <2>7, <3>2
      <3>3. CASE i \notin C /\ j \in C
        <4>1. Apart(binding[j], binding[i])
          BY <2>2, <2>6, <2>7, <3>3
        <4>2. QED
          BY <4>1 DEF Apart
      <3>4. CASE i \notin C /\ j \notin C
        BY <2>2, <2>7, <3>4 DEF TInv, Together
      <3>5. QED
        BY <3>1, <3>2, <3>3, <3>4
    <2>8. QED
      BY <2>2, <2>7 DEF Unique, LiveOf, Apart, C, bs
  <1>2. QED
    BY <1>1, TInvHolds, HInvHolds, PTL

-----------------------------------------------------------------------------
(* What the archive of a tenant took, and its restore gives back.          *)

\* The rows of a tenant archived last: its cohort.
LastOf(t, bs) ==
  {i \in DOMAIN bs :
     /\ bs[i].tenant = t /\ bs[i].gone # 0
     /\ \A j \in DOMAIN bs : bs[j].tenant = t /\ bs[j].gone # 0 => bs[j].gone <= bs[i].gone}

\* Of a tenant archived and not crossed, the evicting request's stamp is past
\* all others; once it has evicted, what it took is the cohort.
TakenOf(t, rq, tk, bs) ==
  /\ \A a \in Actors : rq[a].pc = "evict" /\ rq[a].t = t =>
       \A i \in DOMAIN bs : bs[i].tenant = t => bs[i].gone < rq[a].at
  /\ (\A a \in Actors : ~(rq[a].pc = "evict" /\ rq[a].t = t)) =>
       tk = {} \/ tk = LastOf(t, bs)
Taken == /\ took \in [Tenants -> SUBSET Nat]
         /\ \A t \in Tenants : ~tenant[t] /\ t \notin crossed => TakenOf(t, req, took[t], binding)

LEMMA LastIs == ASSUME NEW t PROVE Cohort(InTenant(t)) = LastOf(t, binding)
  BY DEF Cohort, InTenant, LiveOf, LastOf

\* A step that neither archives nor evicts a tenant, and archives, restores
\* and adds bindings of live or crossed tenants only.
Calm(a) == \A i \in DOMAIN binding' :
  (i \in DOMAIN binding /\ binding'[i].gone = binding[i].gone) \/ AloneIn(binding[i].tenant)'
Spares(a) ==
  /\ UNCHANGED took /\ Others(a) /\ req'[a].pc # "evict"
  /\ req[a].pc = "evict" => req[a].t \in crossed'
  /\ Calm(a)

LEMMA QuietSpares ==
    ASSUME TInv, NEW a \in Actors, NEW next, Go(a, next), UNCHANGED <<binding, took>>,
           next.pc # "evict", req[a].pc = "evict" => req[a].t \in crossed'
    PROVE  Spares(a)
  <1>1. req'[a] = next /\ Others(a)
    BY DEF TInv, ReqInv, Go, Others
  <1>2. QED
    BY <1>1 DEF Spares, Calm

LEMMA CommitSpares ==
    ASSUME TInv, NEW a \in Actors, NEW us, NEW bs, NEW next, crossed \subseteq crossed',
           Commit(a, us, bs, next), UNCHANGED <<tenant, took>>, next.pc # "evict",
           req[a].pc # "evict",
           \A i \in DOMAIN bs : \/ i \in DOMAIN binding /\ bs[i].gone = binding[i].gone
                                \/ AloneIn(bs[i].tenant) \/ bs[i].tenant \in crossed'
    PROVE  Spares(a)
  <1>1. CASE ~Unique(us, bs)
    <2>1. Go(a, Idle) /\ UNCHANGED binding
      BY <1>1 DEF Commit, Done
    <2>2. QED
      BY <2>1, IdleIs, QuietSpares
  <1>2. CASE Unique(us, bs)
    <2>1. binding' = bs /\ req'[a] = next /\ Others(a)
      BY <1>2 DEF Commit, TInv, ReqInv, Go, Others
    <2>2. Calm(a)
      BY <2>1 DEF Calm, AloneIn
    <2>3. QED
      BY <2>1, <2>2 DEF Spares
  <1>3. QED
    BY <1>1, <1>2

\* The bindings written are of one tenant.
Near(bs, t) == \A i \in DOMAIN bs :
  (i \in DOMAIN binding /\ bs[i].gone = binding[i].gone) \/ bs[i].tenant = t

LEMMA NearSpares ==
    ASSUME TInv, NEW a \in Actors, NEW us, NEW bs, NEW next, NEW t, Crossing(a),
           Commit(a, us, bs, next), UNCHANGED <<tenant, took>>, next.pc # "evict",
           req[a].pc # "evict", AloneIn(t), Near(bs, t)
    PROVE  Spares(a)
  BY CommitSpares DEF Near, Crossing

LEMMA RowNear ==
    ASSUME NEW bs, DOMAIN bs = DOMAIN binding, NEW b \in DOMAIN binding,
           \A i \in DOMAIN binding \ {b} : bs[i] = binding[i]
    PROVE  Near(bs, bs[b].tenant)
  BY DEF Near

LEMMA AddedNear ==
    ASSUME TInv, NEW u \in Nat, NEW t \in Tenants, NEW e \in Entities \cup {None}
    PROVE  Near(Append(binding, NewBinding(u, t, e)), t)
  <1> DEFINE w == NewBinding(u, t, e)
             bs == Append(binding, w)
  <1>1. binding \in Seq(BindingRow)
    BY RowsOf DEF RowsOK
  <1>2. w \in BindingRow /\ w.tenant = t
    BY DEF NewBinding, BindingRow
  <1> HIDE DEF w
  <1>3. \A i \in DOMAIN bs : (i \in DOMAIN binding /\ bs[i] = binding[i]) \/ bs[i] = w
    BY <1>1, <1>2
  <1> HIDE DEF bs
  <1>4. Near(bs, t)
    BY <1>2, <1>3 DEF Near
  <1>5. QED
    BY <1>4 DEF bs, w

LEMMA BoundNear ==
    ASSUME NEW bs, NEW cs, NEW k, NEW u, NEW t, BoundAt(k, cs, bs, u, t), Near(bs, t)
    PROVE  Near(cs, t)
  BY DEF Near, BoundAt

LEMMA GrantSpares ==
    ASSUME TInv, HInv, NEW a \in Actors, Crossing(a), Grant(a) PROVE Spares(a) /\ UNCHANGED tenant
  <1> DEFINE r == req[a]
             e == req[a].e
             t == TenantOf[e]
  <1>1. /\ Fits(r) /\ r.pc = "grant" /\ e \in Entities /\ e # None /\ r.m \in Emails
        /\ t \in Tenants /\ AloneIn(t) /\ UNCHANGED <<tenant, took>>
    BY ReqFits, ConstantsAssumption
    DEF Grant, Fits, Named, OfEntity, ConstantsAssumption, HInv, Alone, AloneFor
  <1>2. binding \in Seq(BindingRow) /\ user \in Seq(UserRow) /\ RowsOK(user, binding)
    BY RowsOf DEF RowsOK
  <1>3. PICK us, bs : Commit(a, us, bs, Idle) /\ Near(bs, t)
    <2>1. CASE r.b # 0
      <3> DEFINE bs == [binding EXCEPT ![r.b] = Back(@)]
      <3>1. r.b \in DOMAIN binding /\ binding[r.b].tenant = t
        BY <1>1, <1>2, <2>1 DEF Fits, Read, RowsOK
      <3>2. binding[r.b] \in BindingRow
        BY <1>2, <3>1, RowIn
      <3>3. Back(binding[r.b]).tenant = t
        BY <3>1, <3>2 DEF Back, BindingRow
      <3>4. /\ DOMAIN bs = DOMAIN binding /\ bs[r.b].tenant = t
            /\ \A i \in DOMAIN binding \ {r.b} : bs[i] = binding[i]
        BY <1>2, <3>1, <3>3
      <3>5. Commit(a, Revived(e, r.b, r.m), bs, Idle)
        BY <2>1 DEF Grant
      <3> HIDE DEF bs
      <3>6. Near(bs, t)
        BY <3>1, <3>4, RowNear
      <3>7. QED
        BY <3>5, <3>6
    <2>2. CASE r.b = 0 /\ r.u # 0
      <3> DEFINE us == IF r.x = 1 THEN [user EXCEPT ![r.u] = Back(@)] ELSE user
                 bs == BindTo(binding, r.u, e, r.y)
      <3>1. Commit(a, us, bs, Idle)
        BY <2>2 DEF Grant
      <3> HIDE DEF us
      <3>2. r.u \in Nat /\ (r.y # 0 => r.y \in DOMAIN binding
               /\ binding[r.y].user = r.u /\ binding[r.y].tenant = t)
        BY <1>1 DEF Fits, Read, Request
      <3>3. \E k : BoundAt(k, bs, binding, r.u, t)
        BY <1>1, <1>2, <3>2, BoundRow
      <3>4. Near(binding, t)
        BY DEF Near
      <3> HIDE DEF bs
      <3>5. QED
        BY <3>1, <3>3, <3>4, BoundNear
    <2>3. CASE r.b = 0 /\ r.u = 0
      <3>1. Commit(a, Append(user, NewUser(r.m)),
                   Append(binding, NewBinding(Len(user) + 1, t, e)), Idle)
        BY <2>3 DEF Grant
      <3>2. Len(user) + 1 \in Nat
        BY <1>2
      <3>3. QED
        BY <1>1, <3>1, <3>2, AddedNear
    <2>4. QED
      BY <2>1, <2>2, <2>3
  <1>4. QED
    BY <1>1, <1>3, IdleIs, NearSpares

LEMMA ShuttingSpares ==
    ASSUME TInv, HInv, NEW a \in Actors, Crossing(a), Shutting(a) PROVE Spares(a) /\ UNCHANGED tenant
  <1> DEFINE r == req[a]
             us == IF r.x = 1 THEN [user EXCEPT ![r.u] = Gone(@, r.at)] ELSE user
             bs == [binding EXCEPT ![r.b] = Gone(@, r.at)]
  <1>1. /\ Fits(r) /\ r.pc = "shutting" /\ r.e \in Entities /\ r.e # None
        /\ r.b \in DOMAIN binding /\ binding[r.b].entity = r.e
    BY ReqFits, ConstantsAssumption
    DEF Shutting, Fits, Named, OfEntity, Read, ConstantsAssumption
  <1>2. Commit(a, us, bs, AfterShut(r)) /\ UNCHANGED <<tenant, took>>
    BY DEF Shutting
  <1>3. AloneIn(TenantOf[r.e]) /\ binding[r.b].tenant = TenantOf[r.e]
        /\ binding \in Seq(BindingRow)
    BY <1>1, RowsOf DEF HInv, Alone, AloneFor, RowsOK
  <1>4. Near(bs, TenantOf[r.e])
    <2>1. Gone(binding[r.b], r.at).tenant = binding[r.b].tenant
      BY <1>1, <1>3, RowIn DEF Gone, BindingRow
    <2>2. /\ DOMAIN bs = DOMAIN binding /\ bs[r.b].tenant = TenantOf[r.e]
          /\ \A i \in DOMAIN binding \ {r.b} : bs[i] = binding[i]
      BY <1>1, <1>3, <2>1
    <2> HIDE DEF bs
    <2>3. QED
      BY <1>1, <2>2, RowNear
  <1> HIDE DEF us, bs
  <1>5. AfterShut(r).pc # "evict"
    BY <1>1, IdleIs DEF AfterShut, Fits, Request
  <1>6. QED
    BY <1>1, <1>2, <1>3, <1>4, <1>5, NearSpares

LEMMA ReviveSpares ==
    ASSUME TInv, HInv, NEW a \in Actors, Crossing(a), Revive(a) PROVE Spares(a) /\ UNCHANGED tenant
  <1> DEFINE e == req[a].e
             C == Cohort(Bound(e))
             bs == ClearBindings(C)
  <1>1. /\ req[a].pc = "revive" /\ e \in Entities /\ e # None
        /\ Commit(a, ClearUsers(C), bs, Idle) /\ UNCHANGED <<tenant, took>>
    BY ReqFits, ConstantsAssumption DEF Revive, Fits, Named, OfEntity, ConstantsAssumption
  <1>2. AloneIn(TenantOf[e])
    BY <1>1 DEF HInv, Alone, AloneFor
  <1>3. \A i \in C : i \in DOMAIN binding /\ binding[i].tenant = TenantOf[e]
    BY <1>1, RowsOf DEF Cohort, Bound, RowsOK
  <1>4. \A i \in DOMAIN binding : Back(binding[i]).tenant = binding[i].tenant
    BY RowsOf, RowIn DEF RowsOK, Back, BindingRow
  <1>5. Near(bs, TenantOf[e])
    <2> HIDE DEF C
    <2>1. QED
      BY <1>3, <1>4 DEF Near, ClearBindings
  <1> HIDE DEF bs
  <1>6. QED
    BY <1>1, <1>2, <1>5, IdleIs, NearSpares

LEMMA SwappedSpares ==
    ASSUME TInv, HInv, NEW a \in Actors, Crossing(a), Swapped(a) PROVE Spares(a) /\ UNCHANGED tenant
  <1> DEFINE r == req[a]
  <1>1. /\ Fits(r) /\ r.pc = "swap" /\ r.e \in Entities /\ r.e # None /\ r.b \in DOMAIN binding
        /\ binding[r.b].entity = r.e /\ UNCHANGED <<tenant, took>>
    BY ReqFits, ConstantsAssumption
    DEF Swapped, Fits, Named, Read, OfEntity, ConstantsAssumption
  <1>2. AloneIn(TenantOf[r.e]) /\ binding[r.b].tenant = TenantOf[r.e]
    BY <1>1, RowsOf DEF HInv, Alone, AloneFor, RowsOK
  <1>3. PICK us, bs, owner, k : SwapEnds(a, us, bs) /\ Swaps(r, us, bs, owner, k)
    BY SwappedWrites
  <1>4. Near(bs, TenantOf[r.e])
    BY <1>2, <1>3 DEF Near, Swaps
  <1>5. CASE Done(a) /\ UNCHANGED <<user, binding, moved>>
    <2>1. Go(a, Idle)
      BY <1>5 DEF Done
    <2>2. QED
      BY <1>1, <1>5, <2>1, IdleIs, QuietSpares
  <1>6. CASE Commit(a, us, bs, Idle)
    BY <1>1, <1>2, <1>4, <1>6, IdleIs, NearSpares
  <1>7. QED
    BY <1>3, <1>5, <1>6 DEF SwapEnds

LEMMA RegisteredSpares ==
    ASSUME TInv, HInv, NEW a \in Actors, Crossing(a), Registered(a)
    PROVE  Spares(a) /\ UNCHANGED tenant
  <1> DEFINE t == req[a].t
  <1>1. /\ req[a].pc = "register" /\ t \in Tenants /\ UNCHANGED <<tenant, took>>
        /\ Commit(a, Append(user, NewUser(req[a].m)),
                  Append(binding, NewBinding(Len(user) + 1, t, None)), Idle)
    BY ReqFits DEF Registered, Fits, Named, OfTenant
  <1>2. AloneIn(t)
    BY <1>1 DEF HInv, Alone, AloneFor
  <1>3. Len(user) + 1 \in Nat
    BY RowsOf DEF RowsOK
  <1>4. QED
    BY <1>1, <1>2, <1>3, IdleIs, AddedNear, NearSpares

LEMMA SyncSpares ==
    ASSUME TInv, HInv, NEW a \in Actors, Crossing(a), Sync(a) PROVE Spares(a) /\ UNCHANGED tenant
  <1>1. req[a].pc = "sync" /\ UNCHANGED <<tenant, took>> /\ \E us : Commit(a, us, binding, Idle)
    BY DEF Sync
  <1>2. QED
    BY <1>1, IdleIs, CommitSpares DEF Crossing

\* Who writes into an archived tenant crosses the request that evicts it.
CrossingClose(a) == \A c \in Actors \ {a} :
  req[c].op \in {"close", "open"} => TenantsOf(req[a]) \cap TenantsOf(req[c]) \subseteq crossed'

LEMMA CrossTenants == ASSUME NEW a, NEW S, Cross(a, S) PROVE CrossingClose(a)
  <1>1. crossed' = crossed \cup S
          \cup UNION {Shared(req[a], req[c]) \cup Shared(req[a], req[c])' : c \in Actors \ {a}}
    BY DEF Cross
  <1>2. ASSUME NEW c \in Actors \ {a} PROVE Shared(req[a], req[c]) \subseteq crossed'
    BY <1>1
  <1>3. QED
    BY <1>2 DEF CrossingClose, Shared

LEMMA BanSpares ==
    ASSUME TInv, HInv, NEW a \in Actors, Crossing(a), CrossingClose(a), Ban(a)
    PROVE  Spares(a) /\ UNCHANGED tenant
  <1> DEFINE r == req[a]
             us == [user EXCEPT ![r.u] = Gone(@, clock)]
             bs == [i \in DOMAIN binding |->
                      IF r.todo # {} /\ i \in BoundTo(r.u) \cap LiveOf(binding)
                      THEN Gone(binding[i], clock) ELSE binding[i]]
             next == Rest([r EXCEPT !.pc = "unseat"])
  <1>1. Fits(r) /\ r.pc = "ban" /\ r.u # 0
    BY ReqFits DEF Ban, Fits, Named
  <1>2. Commit(a, us, bs, next) /\ UNCHANGED <<tenant, took>>
    BY DEF Ban
  <1>3. next.pc # "evict"
    <2>1. "unseat" \notin Roots \cup Undecided
      BY DEF Roots, Undecided
    <2>2. next.pc \notin Roots
      BY <1>1, <2>1, RestGoesOn DEF Fits
    <2> HIDE DEF next
    <2>3. QED
      BY <2>2 DEF Roots
  <1>4. /\ DOMAIN bs = DOMAIN binding /\ \A i \in DOMAIN binding : bs[i].tenant = binding[i].tenant
        /\ \A i \in DOMAIN binding : bs[i] = binding[i] \/ LiveRow(i, r.u, binding)
    <2>1. \A i \in DOMAIN binding : Gone(binding[i], clock).tenant = binding[i].tenant
      BY RowsOf, RowIn DEF RowsOK, Gone, BindingRow
    <2>2. QED
      BY <2>1 DEF BoundTo, LiveOf, LiveRow
  <1> HIDE DEF us, bs, next
  <1>5. ASSUME NEW i \in DOMAIN binding, LiveRow(i, r.u, binding)
        PROVE  AloneIn(binding[i].tenant) \/ binding[i].tenant \in crossed'
    <2> DEFINE t == binding[i].tenant
    <2>1. t \in Tenants
      BY RowsOf, RowTypes
    <2>2. ASSUME NEW c \in Actors, req[c].pc = "evict", req[c].t = t PROVE t \in crossed'
      <3>1. t \in TenantsOf(r) /\ t \in TenantsOf(req[c])
        BY <1>1, <1>5, <2>1, <2>2 DEF TenantsOf, LiveRow, BoundTo
      <3>2. c # a /\ req[c].op \in {"close", "open"}
        BY <1>1, <2>2, ReqFits DEF Fits, Named
      <3>3. QED
        BY <3>1, <3>2 DEF CrossingClose
    <2>3. AloneIn(t) \/ Evicting(t)
      BY <1>5 DEF HInv, Closed, LiveRow
    <2>4. QED
      BY <2>2, <2>3 DEF Evicting
  <1>6. QED
    BY <1>1, <1>2, <1>3, <1>4, <1>5, CommitSpares DEF Crossing

LEMMA UnbanSpares ==
    ASSUME TInv, HInv, NEW a \in Actors, Crossing(a), Unban(a) PROVE Spares(a) /\ UNCHANGED tenant
  <1> DEFINE r == req[a]
             us == [user EXCEPT ![r.u] = Back(@)]
             bs == [i \in DOMAIN binding |-> IF \E l \in r.todo : l[1] = i THEN Back(binding[i])
                                             ELSE binding[i]]
             next == Rest([r EXCEPT !.pc = "reseat"])
  <1>1. Fits(r) /\ r.pc = "unban"
    BY ReqFits DEF Unban, Fits
  <1>2. Commit(a, us, bs, next) /\ UNCHANGED <<tenant, took>>
    BY DEF Unban
  <1>3. next.pc # "evict"
    <2>1. "reseat" \notin Roots \cup Undecided
      BY DEF Roots, Undecided
    <2>2. next.pc \notin Roots
      BY <1>1, <2>1, RestGoesOn DEF Fits
    <2> HIDE DEF next
    <2>3. QED
      BY <2>2 DEF Roots
  <1>4. /\ DOMAIN bs = DOMAIN binding /\ \A i \in DOMAIN binding : bs[i].tenant = binding[i].tenant
        /\ \A i \in DOMAIN binding : bs[i] = binding[i] \/ \E l \in r.todo : l[1] = i
    <2>1. \A i \in DOMAIN binding : Back(binding[i]).tenant = binding[i].tenant
      BY RowsOf, RowIn DEF RowsOK, Back, BindingRow
    <2>2. QED
      BY <2>1
  <1> HIDE DEF us, bs, next
  <1>5. \A l \in r.todo : AloneIn(binding[l[1]].tenant)
    BY <1>1 DEF HInv, Alone, AloneFor
  <1>6. QED
    BY <1>1, <1>2, <1>3, <1>4, <1>5, CommitSpares DEF Crossing

LEMMA ImportedSpares ==
    ASSUME TInv, HInv, NEW a \in Actors, Crossing(a), Imported(a) PROVE Spares(a) /\ UNCHANGED tenant
  <1> DEFINE r == req[a]
             t == TenantOf[r.e]
  <1>1. /\ r.e \in Entities /\ r.e # None /\ r.pc = "import" /\ UNCHANGED <<tenant, took>>
        /\ t \in Tenants
    BY ReqFits, ConstantsAssumption
    DEF Imported, Fits, Named, OfEntity, ConstantsAssumption
  <1>2. AloneIn(t) /\ RowsOK(user, binding) /\ Len(user) + 1 \in Nat
    BY <1>1, RowsOf DEF HInv, Alone, AloneFor, RowsOK
  <1>3. PICK us, bs : Commit(a, us, bs, Idle) /\ (Beside(r.e, us, bs) \/ Adds(r, us, bs))
    BY ImportedWrites
  <1>4. CASE Beside(r.e, us, bs)
    <2>1. Near(bs, t)
      BY <1>1, <1>2, <1>4 DEF Near, Beside, RowsOK
    <2>2. QED
      BY <1>1, <1>2, <1>3, <2>1, IdleIs, NearSpares
  <1>5. CASE Adds(r, us, bs)
    <2>1. Near(bs, t)
      BY <1>1, <1>2, <1>5, AddedNear DEF Adds
    <2>2. QED
      BY <1>1, <1>2, <1>3, <2>1, IdleIs, NearSpares
  <1>6. QED
    BY <1>3, <1>4, <1>5

\* The steps that write no binding.
Goes(a) == \E next : Go(a, next) /\ next.pc # "evict"

LEMMA GoesSparing ==
    ASSUME TInv, NEW a \in Actors, Goes(a), UNCHANGED <<tenant, binding, took>>,
           req[a].pc = "evict" => req[a].t \in crossed'
    PROVE  Spares(a) /\ UNCHANGED tenant
  BY QuietSpares DEF Goes

LEMMA GoesIdle == ASSUME NEW a, Done(a) PROVE Goes(a)
  BY IdleIs DEF Goes, Done

LEMMA GoesTo == ASSUME TInv, NEW a \in Actors, NEW pc, pc # "evict", Goto(a, pc) PROVE Goes(a)
  <1>1. req[a] \in Request
    BY DEF TInv, ReqInv
  <1>2. [req[a] EXCEPT !.pc = pc].pc = pc
    BY <1>1 DEF Request
  <1>3. QED
    BY <1>2 DEF Goes, Goto

LEMMA EntityBeginsSparing ==
    ASSUME TInv, NEW a \in Actors, NEW e \in Entities, NEW m,
           \/ \E app \in BOOLEAN : Create(a, e, app, m) \/ Update(a, e, app, m)
           \/ Swap(a, e, m) \/ ChangeEmail(a, e, m) \/ Archive(a, e) \/ Restore(a, e)
           \/ \E row, app : Import(a, e, row, app, m)
    PROVE  Spares(a) /\ UNCHANGED tenant
  <1>1. UNCHANGED <<tenant, binding, took>> /\ req[a] = Idle
    BY DEF Create, Update, Swap, ChangeEmail, Archive, Restore, Import, Begin
  <1>2. Goes(a)
    <2>1. ASSUME NEW app \in BOOLEAN, Create(a, e, app, m) PROVE Goes(a)
      <3> DEFINE r == [Idle EXCEPT !.pc = "look", !.op = "create", !.e = e, !.m = m]
      <3>1. Go(a, r) \/ Done(a)
        BY <2>1 DEF Create
      <3>2. r.pc # "evict"
        BY DEF Idle
      <3> HIDE DEF r
      <3>3. QED
        BY <3>1, <3>2, GoesIdle DEF Goes
    <2>2. ASSUME NEW app \in BOOLEAN, Update(a, e, app, m) PROVE Goes(a)
      <3>1. PICK n, x, y :
              Go(a, [Idle EXCEPT !.pc = "save", !.op = "update",
                                 !.e = e, !.m = n, !.x = x, !.y = y])
        BY <2>2 DEF Update
      <3> DEFINE r == [Idle EXCEPT !.pc = "save", !.op = "update", !.e = e, !.m = n, !.x = x, !.y = y]
      <3>2. Go(a, r)
        BY <3>1
      <3>3. r.pc # "evict"
        BY DEF Idle
      <3> HIDE DEF r
      <3>4. QED
        BY <3>2, <3>3 DEF Goes
    <2>3. CASE Swap(a, e, m)
      <3>1. PICK b, u, x :
              Go(a, [Idle EXCEPT !.pc = "swap", !.op = "swap",
                                 !.e = e, !.m = m, !.b = b, !.u = u, !.x = x])
        BY <2>3 DEF Swap
      <3> DEFINE r == [Idle EXCEPT !.pc = "swap", !.op = "swap",
                                   !.e = e, !.m = m, !.b = b, !.u = u, !.x = x]
      <3>2. Go(a, r)
        BY <3>1
      <3>3. r.pc # "evict"
        BY DEF Idle
      <3> HIDE DEF r
      <3>4. QED
        BY <3>2, <3>3 DEF Goes
    <2>4. CASE ChangeEmail(a, e, m)
      <3>1. PICK u : Go(a, [Idle EXCEPT !.pc = "sync", !.op = "email", !.e = e, !.m = m, !.u = u])
        BY <2>4 DEF ChangeEmail
      <3> DEFINE r == [Idle EXCEPT !.pc = "sync", !.op = "email", !.e = e, !.m = m, !.u = u]
      <3>2. Go(a, r)
        BY <3>1
      <3>3. r.pc # "evict"
        BY DEF Idle
      <3> HIDE DEF r
      <3>4. QED
        BY <3>2, <3>3 DEF Goes
    <2>5. CASE Archive(a, e)
      <3> DEFINE r == [Idle EXCEPT !.pc = IF entity[e].app THEN "find" ELSE "mark", !.op = "archive",
                                   !.e = e]
      <3>1. Go(a, r)
        BY <2>5 DEF Archive
      <3>2. r.pc # "evict"
        BY DEF Idle
      <3> HIDE DEF r
      <3>3. QED
        BY <3>1, <3>2 DEF Goes
    <2>6. CASE Restore(a, e)
      <3> DEFINE r == [Idle EXCEPT !.pc = "reread", !.op = "restore", !.e = e]
      <3>1. Go(a, r)
        BY <2>6 DEF Restore
      <3>2. r.pc # "evict"
        BY DEF Idle
      <3> HIDE DEF r
      <3>3. QED
        BY <3>1, <3>2 DEF Goes
    <2>7. ASSUME NEW row, NEW app, Import(a, e, row, app, m) PROVE Goes(a)
      <3> DEFINE n == IF app THEN m ELSE None
                 b == IF app THEN 1 ELSE 0
                 x == IF row = "archived" THEN 1 ELSE 0
                 y == IF entity[e].app THEN (IF entity[e].row = "archived" THEN 3 ELSE 2)
                      ELSE (IF entity[e].row = "archived" THEN 1 ELSE 0)
                 r == [Idle EXCEPT !.pc = "import", !.op = "import", !.e = e,
                                   !.m = n, !.b = b, !.x = x, !.y = y]
      <3>1. Go(a, r)
        BY <2>7 DEF Import
      <3> HIDE DEF n, b, x, y
      <3>2. r.pc # "evict"
        BY DEF Idle
      <3> HIDE DEF r
      <3>3. QED
        BY <3>1, <3>2 DEF Goes
    <2>8. QED
      BY <2>1, <2>2, <2>3, <2>4, <2>5, <2>6, <2>7
  <1>3. QED
    BY <1>1, <1>2, IdleIs, GoesSparing

LEMMA EntityGoesSparing ==
    ASSUME TInv, NEW a \in Actors,
           \/ Save(a) \/ Look(a) \/ Match(a) \/ Fit(a)
           \/ Find(a) \/ Shut(a) \/ Mark(a) \/ Reread(a)
    PROVE  Spares(a) /\ UNCHANGED tenant
  <1>1. UNCHANGED <<tenant, binding, took>> /\ req[a].pc # "evict"
    BY DEF Save, Look, Match, Fit, Find, Shut, Mark, Reread
  <1>2. req[a] \in Request
    BY DEF TInv, ReqInv
  <1>3. Goes(a)
    <2>1. CASE Save(a)
      BY <2>1, GoesIdle, GoesTo DEF Save
    <2>2. CASE Look(a) \/ Match(a) \/ Fit(a)
      <3>1. \A b, u, x, y : \A pc \in {"match", "fit", "grant"} :
              /\ AfterLook(req[a], pc, b).pc # "evict"
              /\ AfterMatch(req[a], pc, u, x).pc # "evict"
              /\ AfterFit(req[a], y).pc # "evict"
        BY <1>2 DEF Request, AfterLook, AfterMatch, AfterFit
      <3>2. CASE Look(a)
        <4>1. PICK b : \E pc \in {"match", "grant"} : Go(a, AfterLook(req[a], pc, b))
          BY <3>2 DEF Look, AfterLook
        <4>2. QED
          BY <3>1, <4>1 DEF Goes
      <3>3. CASE Match(a)
        <4>1. PICK u, x : \E pc \in {"fit", "grant"} : Go(a, AfterMatch(req[a], pc, u, x))
          BY <3>3 DEF Match, AfterMatch
        <4>2. QED
          BY <3>1, <4>1 DEF Goes
      <3>4. CASE Fit(a)
        <4>1. Done(a) \/ \E y : Go(a, AfterFit(req[a], y))
          BY <3>4 DEF Fit, AfterFit
        <4>2. QED
          BY <3>1, <4>1, GoesIdle DEF Goes
      <3>5. QED
        BY <2>2, <3>2, <3>3, <3>4
    <2>3. CASE Find(a)
      <3>1. PICK b, u : \/ Go(a, AfterShut(req[a]))
                        \/ Go(a, [req[a] EXCEPT !.pc = "shut", !.b = b, !.u = u])
        BY <2>3 DEF Find
      <3>2. AfterShut(req[a]).pc # "evict"
        BY <1>2, IdleIs DEF AfterShut, Request
      <3> DEFINE r == [req[a] EXCEPT !.pc = "shut", !.b = b, !.u = u]
      <3>3. Go(a, r) \/ Go(a, AfterShut(req[a]))
        BY <3>1
      <3>4. r.pc # "evict"
        BY <1>2 DEF Request
      <3> HIDE DEF r
      <3>5. QED
        BY <3>2, <3>3, <3>4 DEF Goes
    <2>4. CASE Shut(a)
      <3>1. PICK x : Go(a, [req[a] EXCEPT !.pc = "shutting", !.at = clock, !.x = x])
        BY <2>4 DEF Shut
      <3> DEFINE r == [req[a] EXCEPT !.pc = "shutting", !.at = clock, !.x = x]
      <3>2. Go(a, r)
        BY <3>1
      <3>3. r.pc # "evict"
        BY <1>2 DEF Request
      <3> HIDE DEF r
      <3>4. QED
        BY <3>2, <3>3 DEF Goes
    <2>5. CASE Mark(a)
      BY <2>5, GoesIdle DEF Mark
    <2>6. CASE Reread(a)
      BY <2>6, GoesIdle, GoesTo DEF Reread
    <2>7. QED
      BY <2>1, <2>2, <2>3, <2>4, <2>5, <2>6
  <1>4. QED
    BY <1>1, <1>3, GoesSparing

LEMMA UserGoesSparing ==
    ASSUME TInv, NEW a \in Actors,
           \/ \E t \in Tenants, m \in Emails : Register(a, t, m)
           \/ \E u \in DOMAIN user : ArchiveUser(a, u) \/ RestoreUser(a, u)
           \/ \E t \in Tenants : RestoreTenant(a, t)
           \/ Unseat(a) \/ Reseat(a)
    PROVE  Spares(a) /\ UNCHANGED tenant
  <1>1. UNCHANGED <<tenant, binding, took>> /\ req[a].pc # "evict"
    BY IdleIs DEF Register, ArchiveUser, RestoreUser, RestoreTenant, Unseat, Reseat, Begin
  <1>2. Goes(a)
    <2>1. ASSUME NEW t, NEW m, Register(a, t, m) PROVE Goes(a)
      <3> DEFINE r == [Idle EXCEPT !.pc = "register", !.op = "register", !.t = t, !.m = m]
      <3>1. Go(a, r)
        BY <2>1 DEF Register
      <3>2. r.pc # "evict"
        BY DEF Idle
      <3> HIDE DEF r
      <3>3. QED
        BY <3>1, <3>2 DEF Goes
    <2>2. ASSUME NEW u, ArchiveUser(a, u) PROVE Goes(a)
      <3>1. PICK l : Go(a, [Idle EXCEPT !.pc = "ban", !.op = "ban", !.u = u, !.todo = l])
        BY <2>2 DEF ArchiveUser
      <3> DEFINE r == [Idle EXCEPT !.pc = "ban", !.op = "ban", !.u = u, !.todo = l]
      <3>2. Go(a, r)
        BY <3>1
      <3>3. r.pc # "evict"
        BY DEF Idle
      <3> HIDE DEF r
      <3>4. QED
        BY <3>2, <3>3 DEF Goes
    <2>3. ASSUME NEW u, RestoreUser(a, u) PROVE Goes(a)
      <3>1. PICK l : Go(a, [Idle EXCEPT !.pc = "unban", !.op = "unban", !.u = u, !.todo = l])
        BY <2>3 DEF RestoreUser
      <3> DEFINE r == [Idle EXCEPT !.pc = "unban", !.op = "unban", !.u = u, !.todo = l]
      <3>2. Go(a, r)
        BY <3>1
      <3>3. r.pc # "evict"
        BY DEF Idle
      <3> HIDE DEF r
      <3>4. QED
        BY <3>2, <3>3 DEF Goes
    <2>4. ASSUME NEW t, RestoreTenant(a, t) PROVE Goes(a)
      <3> DEFINE r == [Idle EXCEPT !.pc = "reopen", !.op = "open", !.t = t]
      <3>1. Go(a, r)
        BY <2>4 DEF RestoreTenant
      <3>2. r.pc # "evict"
        BY DEF Idle
      <3> HIDE DEF r
      <3>3. QED
        BY <3>1, <3>2 DEF Goes
    <2>5. ASSUME Unseat(a) \/ Reseat(a) PROVE Goes(a)
      <3>1. PICK l : Go(a, Rest([req[a] EXCEPT !.todo = @ \ {l}]))
        BY <2>5 DEF Unseat, Reseat
      <3> DEFINE n == [req[a] EXCEPT !.todo = @ \ {l}]
      <3>2. req[a] \in Request
        BY DEF TInv, ReqInv
      <3>3. n.pc # "evict"
        BY <1>1, <3>2 DEF Request
      <3> HIDE DEF n
      <3>4. Rest(n).pc # "evict"
        BY <3>3, IdleIs DEF Rest
      <3>5. QED
        BY <3>1, <3>4 DEF Goes, n
    <2>6. QED
      BY <2>1, <2>2, <2>3, <2>4, <2>5
  <1>3. QED
    BY <1>1, <1>2, GoesSparing

LEMMA DieSparing ==
    ASSUME TInv, NEW a \in Actors, Die(a), Scope(req[a]) \subseteq crossed'
    PROVE  Spares(a) /\ UNCHANGED tenant
  <1>1. UNCHANGED <<tenant, binding, took>> /\ Goes(a)
    BY GoesIdle DEF Die
  <1>2. req[a].pc = "evict" => req[a].t \in crossed'
    <2>1. req[a].pc = "evict" => req[a].t \in Tenants
      BY ReqFits DEF Fits, Named, OfTenant
    <2>2. QED
      BY <2>1 DEF Scope, TenantsOf
  <1>3. QED
    BY <1>1, <1>2, GoesSparing

LEMMA ReopenSpares ==
    ASSUME TInv, NEW a \in Actors, Crossing(a), Reopen(a)
    PROVE  Spares(a) /\ \A t \in Tenants : tenant[t] => tenant'[t]
  <1> DEFINE t == req[a].t
             C == IF tenant[t] THEN {} ELSE Cohort(InTenant(t))
             us == ClearUsers(C)
             bs == ClearBindings(C)
  <1>1. /\ req[a].pc = "reopen" /\ t \in Tenants
        /\ Commit(a, us, bs, Idle) /\ UNCHANGED took
        /\ tenant' = IF Unique(us, bs) THEN [tenant EXCEPT ![t] = TRUE] ELSE tenant
        /\ tenant \in [Tenants -> BOOLEAN]
    BY ReqFits DEF Reopen, Fits, Named, OfTenant, TInv, RowsInv
  <1>2. \A s \in Tenants : tenant[s] => tenant'[s]
    BY <1>1
  <1>3. \A i \in C : binding[i].tenant = t
    BY DEF Cohort, InTenant
  <1>4. \A i \in DOMAIN binding : Back(binding[i]).tenant = binding[i].tenant
    BY RowsOf, RowIn DEF RowsOK, Back, BindingRow
  <1> HIDE DEF C, us
  <1>5. /\ DOMAIN bs = DOMAIN binding
        /\ \A i \in DOMAIN binding : /\ bs[i].tenant = binding[i].tenant
                                     /\ i \notin C => bs[i] = binding[i]
    BY <1>4 DEF ClearBindings
  <1> HIDE DEF bs
  <1>6. CASE ~Unique(us, bs)
    <2>1. Goes(a) /\ UNCHANGED binding /\ UNCHANGED tenant
      BY <1>1, <1>6, GoesIdle DEF Commit
    <2>2. QED
      BY <1>1, <2>1, GoesSparing
  <1>7. CASE Unique(us, bs)
    <2>1. binding' = bs /\ req'[a] = Idle /\ Others(a) /\ tenant'[t]
      BY <1>1, <1>7 DEF Commit, TInv, ReqInv, Go, Others
    <2>2. Calm(a)
      BY <1>3, <1>5, <2>1 DEF Calm, AloneIn
    <2>3. QED
      BY <1>1, <1>2, <2>1, <2>2, IdleIs DEF Spares
  <1>8. QED
    BY <1>6, <1>7
\* A tenant whose rows and evicting requests a step leaves as they were.
LEMMA TakenStays ==
    ASSUME NEW t \in Tenants, NEW rq, NEW bs, NEW tk, NEW r, NEW b,
           TakenOf(t, rq, tk, b),
           DOMAIN b \subseteq DOMAIN bs,
           \A i \in DOMAIN b : bs[i].tenant = b[i].tenant,
           \A i \in DOMAIN bs : bs[i].tenant = t => i \in DOMAIN b /\ bs[i].gone = b[i].gone,
           \A c \in Actors : r[c].pc = "evict" /\ r[c].t = t <=> rq[c].pc = "evict" /\ rq[c].t = t,
           \A c \in Actors : r[c].pc = "evict" /\ r[c].t = t => r[c].at = rq[c].at
    PROVE  TakenOf(t, r, tk, bs)
  <1>1. LastOf(t, bs) = LastOf(t, b)
    BY DEF LastOf
  <1>2. QED
    BY <1>1 DEF TakenOf

LEMMA TakenSpared ==
    ASSUME TInv, Taken, NEW a \in Actors, Crossing(a), Keeps, Spares(a),
           \A t \in Tenants : tenant[t] => tenant'[t]
    PROVE  Taken'
  <1>1. took' \in [Tenants -> SUBSET Nat]
    BY DEF Taken, Spares
  <1>2. ASSUME NEW t \in Tenants, ~tenant'[t], t \notin crossed'
        PROVE  TakenOf(t, req', took'[t], binding')
    <2>1. ~tenant[t] /\ t \notin crossed
      BY <1>2 DEF Crossing
    <2>2. TakenOf(t, req, took'[t], binding)
      BY <2>1 DEF Taken, Spares
    <2>3. /\ DOMAIN binding \subseteq DOMAIN binding'
          /\ \A i \in DOMAIN binding : binding'[i].tenant = binding[i].tenant
      BY DEF Keeps, Grown
    <2>4. \A i \in DOMAIN binding' :
            binding'[i].tenant = t => i \in DOMAIN binding /\ binding'[i].gone = binding[i].gone
      BY <1>2 DEF Spares, Calm, AloneIn
    <2>5. \A c \in Actors \ {a} : req'[c] = req[c]
      BY DEF Spares, Others
    <2>6. req'[a].pc # "evict" /\ ~(req[a].pc = "evict" /\ req[a].t = t)
      BY <1>2 DEF Spares
    <2>7. QED
      BY <2>2, <2>3, <2>4, <2>5, <2>6, TakenStays
  <1>3. QED
    BY <1>1, <1>2 DEF Taken

LEMMA TakenClosed ==
    ASSUME TInv, HInv, Taken, NEW a \in Actors, NEW t \in Tenants, Crossing(a),
           ArchiveTenant(a, t)
    PROVE  Taken'
  <1> DEFINE r == [Idle EXCEPT !.pc = "evict", !.op = "close", !.t = t, !.at = clock]
  <1>1. /\ Go(a, r) /\ req[a] = Idle /\ UNCHANGED <<binding, took>> /\ tenant[t]
        /\ tenant' = [tenant EXCEPT ![t] = FALSE] /\ tenant \in [Tenants -> BOOLEAN]
    BY DEF ArchiveTenant, Begin, TInv, RowsInv
  <1>2. r.pc = "evict" /\ r.t = t /\ r.at = clock
    BY DEF Idle
  <1> HIDE DEF r
  <1>3. req'[a] = r /\ Others(a) /\ crossed \subseteq crossed' /\ req[a].pc # "evict"
    BY <1>1, IdleIs DEF TInv, ReqInv, Go, Others, Crossing
  <1>4. ASSUME NEW s \in Tenants, ~tenant'[s], s \notin crossed', s # t
        PROVE  TakenOf(s, req', took'[s], binding')
    <2>1. TakenOf(s, req, took'[s], binding)
      BY <1>1, <1>3, <1>4 DEF Taken
    <2>2. QED
      BY <1>1, <1>2, <1>3, <1>4, <2>1, TakenStays DEF Others
  <1>5. ASSUME t \notin crossed' PROVE TakenOf(t, req', took'[t], binding')
    <2>1. \A c \in Actors \ {a} : ~(req'[c].pc = "evict" /\ req'[c].t = t)
      BY <1>1, <1>3, <1>5 DEF Others, HInv, Alone, AloneFor
    <2>2. \A i \in DOMAIN binding' : binding'[i].gone < r.at
      BY <1>1, <1>2 DEF TInv, Past
    <2>3. QED
      BY <1>2, <1>3, <2>1, <2>2 DEF TakenOf
  <1>6. QED
    BY <1>1, <1>4, <1>5 DEF Taken

LEMMA TakenEvict ==
    ASSUME TInv, HInv, Taken, NEW a \in Actors, Crossing(a), Evict(a) PROVE Taken'
  <1> DEFINE r == req[a]
             t == r.t
             B == Evicted(t)
             bs == binding'
  <1>1. /\ r.pc = "evict" /\ t \in Tenants /\ r.at \in Nat /\ r.at # 0 /\ UNCHANGED tenant
        /\ Go(a, Idle) /\ took' = [took EXCEPT ![t] = B]
    BY EvictWrites DEF Evict
  <1>2. /\ DOMAIN bs = DOMAIN binding
        /\ \A i \in DOMAIN binding : /\ bs[i].tenant = binding[i].tenant
                                     /\ i \in B => bs[i].gone = r.at
                                     /\ i \notin B => bs[i] = binding[i]
    BY EvictWrites
  <1>3. \A i \in DOMAIN binding : i \in B <=> binding[i].tenant = t /\ binding[i].gone = 0
    BY DEF Evicted, InTenant, LiveOf
  <1>4. B \subseteq DOMAIN binding
    BY DEF Evicted, InTenant
  <1> HIDE DEF B
  <1>5. B \subseteq Nat /\ \A i \in DOMAIN binding : binding[i].gone \in Nat
    BY <1>4, RowsOf, RowTypes
  <1>6. req'[a].pc # "evict" /\ Others(a) /\ crossed \subseteq crossed'
    BY <1>1, IdleIs DEF TInv, ReqInv, Go, Others, Crossing
  <1>7. took' \in [Tenants -> SUBSET Nat] /\ took'[t] = B
        /\ \A s \in Tenants \ {t} : took'[s] = took[s]
    BY <1>1, <1>5 DEF Taken
  <1>8. ASSUME NEW s \in Tenants, ~tenant'[s], s \notin crossed', s # t
        PROVE  TakenOf(s, req', took'[s], binding')
    <2>1. TakenOf(s, req, took'[s], binding)
      BY <1>1, <1>6, <1>7, <1>8 DEF Taken
    <2>2. \A i \in DOMAIN bs : bs[i].tenant = s => i \in DOMAIN binding /\ bs[i].gone = binding[i].gone
      BY <1>2, <1>3, <1>8
    <2>3. \A c \in Actors : /\ req'[c].pc = "evict" /\ req'[c].t = s
                                 <=> req[c].pc = "evict" /\ req[c].t = s
                            /\ req'[c].pc = "evict" /\ req'[c].t = s => req'[c].at = req[c].at
      BY <1>6, <1>8 DEF Others
    <2>4. QED
      BY <1>2, <2>1, <2>2, <2>3, TakenStays
  <1>9. ASSUME t \notin crossed' PROVE TakenOf(t, req', took'[t], binding')
    <2>1. \A c \in Actors : ~(req'[c].pc = "evict" /\ req'[c].t = t)
      BY <1>1, <1>6, <1>9 DEF Others, HInv, Alone
    <2>2. ~tenant[t] /\ t \notin crossed
      BY <1>1, <1>6, <1>9 DEF HInv, Alone, AloneFor
    <2>3. \A i \in DOMAIN binding : binding[i].tenant = t => binding[i].gone < r.at
      BY <1>1, <2>2 DEF Taken, TakenOf
    <2>4. ASSUME B # {} PROVE B = LastOf(t, bs)
      <3>1. \A i \in B : i \in DOMAIN bs /\ bs[i].tenant = t /\ bs[i].gone = r.at
        BY <1>2, <1>3, <1>4
      <3>2. \A i \in DOMAIN bs : bs[i].tenant = t => bs[i].gone \in Nat /\ bs[i].gone <= r.at
        BY <1>1, <1>2, <1>5, <2>3
      <3>3. \A i \in DOMAIN bs \ B : bs[i].tenant = t => bs[i].gone < r.at
        BY <1>2, <2>3
      <3>4. QED
        BY <1>1, <2>4, <3>1, <3>2, <3>3 DEF LastOf
    <2>5. QED
      BY <1>7, <2>1, <2>4 DEF TakenOf
  <1>10. QED
    BY <1>7, <1>8, <1>9 DEF Taken

\* Every step but the archive of a tenant, its eviction and its restore.
LEMMA MostSpare ==
    ASSUME TInv, HInv, NEW a \in Actors, Crossing(a), CrossingClose(a),
           \/ Entity(a) \/ PortalUser(a) \/ Sheet(a)
           \/ \E t \in Tenants : RestoreTenant(a, t)
    PROVE  Spares(a) /\ UNCHANGED tenant
  <1>1. CASE Entity(a)
    BY <1>1, EntityBeginsSparing, EntityGoesSparing, GrantSpares, ShuttingSpares, ReviveSpares,
       SwappedSpares, SyncSpares
    DEF Entity
  <1>2. CASE PortalUser(a)
    BY <1>2, UserGoesSparing, RegisteredSpares, BanSpares, UnbanSpares DEF PortalUser
  <1>3. CASE Sheet(a)
    BY <1>3, EntityBeginsSparing, ImportedSpares DEF Sheet
  <1>4. CASE \E t \in Tenants : RestoreTenant(a, t)
    BY <1>4, UserGoesSparing
  <1>5. QED
    BY <1>1, <1>2, <1>3, <1>4

LEMMA StepTaken == TInv /\ HInv /\ Taken /\ [Next]_vars => Taken'
  <1> SUFFICES ASSUME TInv, HInv, Taken, [Next]_vars PROVE Taken'
    OBVIOUS
  <1>1. CASE UNCHANGED vars
    BY <1>1 DEF vars, Taken, TakenOf, LastOf
  <1>2. ASSUME NEW a \in Actors, Entity(a) \/ PortalUser(a) \/ Tenant(a), Cross(a, {})
        PROVE  Taken'
    <2>1. Crossing(a) /\ CrossingClose(a) /\ Keeps
      BY <1>2, CrossFacts, CrossTenants, StepKeeps
    <2>2. CASE \E t \in Tenants : ArchiveTenant(a, t)
      BY <2>1, <2>2, TakenClosed
    <2>3. CASE Evict(a)
      BY <2>1, <2>3, TakenEvict
    <2>4. CASE Reopen(a)
      BY <2>1, <2>4, ReopenSpares, TakenSpared
    <2>5. CASE Entity(a) \/ PortalUser(a) \/ \E t \in Tenants : RestoreTenant(a, t)
      <3>1. Spares(a) /\ UNCHANGED tenant
        BY <2>1, <2>5, MostSpare
      <3>2. QED
        BY <2>1, <3>1, TakenSpared
    <2>6. QED
      BY <1>2, <2>2, <2>3, <2>4, <2>5 DEF Tenant
  <1>3. ASSUME NEW a \in Actors, Sheet(a), Cross(a, IF Shuts THEN Scope(req[a]) ELSE {})
        PROVE  Taken'
    <2>1. Crossing(a) /\ CrossingClose(a) /\ Keeps
      BY <1>3, CrossFacts, CrossTenants, SheetKeeps
    <2>2. Spares(a) /\ UNCHANGED tenant
      BY <1>3, <2>1, MostSpare
    <2>3. QED
      BY <2>1, <2>2, TakenSpared
  <1>4. ASSUME NEW a \in Actors, Die(a), Cross(a, Scope(req[a])) PROVE Taken'
    <2>1. Crossing(a) /\ CrossingClose(a) /\ Keeps /\ Scope(req[a]) \subseteq crossed'
      BY <1>4, CrossFacts, CrossTenants, DieStep
    <2>2. Spares(a) /\ UNCHANGED tenant
      BY <1>4, <2>1, DieSparing
    <2>3. QED
      BY <2>1, <2>2, TakenSpared
  <1>5. QED
    BY <1>1, <1>2, <1>3, <1>4 DEF Next

LEMMA TakenHolds == Spec => []Taken
  <1>1. Init => Taken
    BY DEF Init, Taken
  <1>2. QED
    BY <1>1, StepTaken, TInvHolds, HInvHolds, PTL DEF Spec

Given(t) ==
  /\ {i \in DOMAIN binding' : binding'[i].tenant = t /\ binding'[i].gone = 0} = took[t]
  /\ \A i \in took[t] : user'[binding[i].user].gone = 0

LEMMA ReopenGives ==
    ASSUME TInv, HInv, Taken, NEW a \in Actors, Crossing(a), Reopen(a),
           NEW t \in Tenants, ~tenant[t], tenant'[t], took[t] # {}, t \notin crossed'
    PROVE  Given(t)
  <1> DEFINE C == Cohort(InTenant(t))
             us == ClearUsers(C)
             bs == ClearBindings(C)
  <1>1. /\ req[a].pc = "reopen" /\ req[a].t = t /\ user' = us /\ binding' = bs
    BY DEF Reopen, Commit, TInv, RowsInv
  <1>2. t \notin crossed
    BY DEF Crossing
  <1>3. \A c \in Actors : ~(req[c].pc = "evict" /\ req[c].t = t)
    BY <1>1, <1>2 DEF HInv, Alone
  <1>4. took[t] = C
    <2>1. C = LastOf(t, binding)
      BY LastIs
    <2> HIDE DEF C
    <2>2. QED
      BY <1>2, <1>3, <2>1 DEF Taken, TakenOf
  <1>5. \A i \in DOMAIN binding : binding[i].tenant = t => binding[i].gone # 0
    BY <1>2, <1>3 DEF HInv, Closed, AloneIn, Evicting
  <1>6. \A i \in C : i \in DOMAIN binding /\ binding[i].tenant = t
    BY DEF Cohort, InTenant
  <1>7. \A i \in DOMAIN binding : /\ binding[i].user \in DOMAIN user
                                  /\ Back(binding[i]).tenant = binding[i].tenant
                                  /\ Back(binding[i]).gone = 0
    BY RowsOf, RowIn DEF RowsOK, Back, BindingRow
  <1>8. \A u \in DOMAIN user : Back(user[u]).gone = 0
    BY RowsOf, UserRows
  <1> HIDE DEF C
  <1>9. /\ DOMAIN bs = DOMAIN binding
        /\ \A i \in DOMAIN bs : bs[i].tenant = t /\ bs[i].gone = 0 <=> i \in C
    BY <1>5, <1>6, <1>7 DEF ClearBindings
  <1>10. \A i \in C : us[binding[i].user].gone = 0
    BY <1>6, <1>7, <1>8 DEF ClearUsers
  <1> HIDE DEF us, bs
  <1>11. C \subseteq DOMAIN bs
    BY <1>6, <1>9
  <1>12. QED
    BY <1>1, <1>4, <1>9, <1>10, <1>11 DEF Given

\* Archiving a tenant and restoring it gives back exactly the bindings that the
\* archive took, and their users, however many requests ran in between, as long
\* as none of them crossed the tenant: the cohort of the restore, found by the
\* stamps alone, is what the archive wrote.
THEOREM RoundTrip == Spec => TenantRoundTrip
  <1>1. ASSUME TInv, HInv, Taken, [Next]_vars, NEW t \in Tenants,
               ~tenant[t], tenant'[t], took[t] # {}, t \notin crossed'
        PROVE  Given(t)
    <2>1. CASE UNCHANGED vars
      BY <1>1, <2>1 DEF vars
    <2>2. ASSUME NEW a \in Actors, Entity(a) \/ PortalUser(a) \/ Tenant(a), Cross(a, {})
          PROVE  Given(t)
      <3>1. Crossing(a) /\ CrossingClose(a)
        BY <2>2, CrossFacts, CrossTenants
      <3>2. CASE Reopen(a)
        BY <1>1, <3>1, <3>2, ReopenGives
      <3>3. CASE Evict(a) \/ \E s \in Tenants : ArchiveTenant(a, s)
        <4>1. tenant \in [Tenants -> BOOLEAN]
          BY <1>1 DEF TInv, RowsInv
        <4>2. QED
          BY <1>1, <3>3, <4>1 DEF Evict, ArchiveTenant
      <3>4. CASE Entity(a) \/ PortalUser(a) \/ \E s \in Tenants : RestoreTenant(a, s)
        BY <1>1, <3>1, <3>4, MostSpare
      <3>5. QED
        BY <2>2, <3>2, <3>3, <3>4 DEF Tenant
    <2>3. ASSUME NEW a \in Actors, Sheet(a), Cross(a, IF Shuts THEN Scope(req[a]) ELSE {})
          PROVE  Given(t)
      <3>1. Crossing(a) /\ CrossingClose(a)
        BY <2>3, CrossFacts, CrossTenants
      <3>2. UNCHANGED tenant
        BY <1>1, <2>3, <3>1, MostSpare
      <3>3. QED
        BY <1>1, <3>2
    <2>4. CASE \E a \in Actors : Die(a)
      BY <1>1, <2>4 DEF Die
    <2>5. QED
      BY <1>1, <2>1, <2>2, <2>3, <2>4 DEF Next
  <1>2. TInv /\ HInv /\ Taken /\ [Next]_vars =>
          [\A t \in Tenants :
             ~tenant[t] /\ tenant'[t] /\ took[t] # {} /\ t \notin crossed' =>
               /\ {i \in DOMAIN binding' : binding'[i].tenant = t /\ binding'[i].gone = 0} = took[t]
               /\ \A i \in took[t] : user'[binding[i].user].gone = 0]_vars
    BY <1>1 DEF Given
  <1>3. QED
    BY <1>2, TInvHolds, HInvHolds, TakenHolds, PTL DEF Spec, TenantRoundTrip


=============================================================================
