----------------------------- MODULE WebClient -----------------------------
(***************************************************************************)
(* What a user of the web client sees while answers are cached: one query  *)
(* of TanStack Query, the pages that show it or offer mutations, and the   *)
(* requests that are out.  Queries do not touch one another, so one query  *)
(* at a time is enough; which pages show it, which of their mutations      *)
(* write what it reads and which invalidate it is the constant Queries.    *)
(* The server is a counter of the writes to what the query reads; a        *)
(* listing that takes several requests is one.                             *)
(***************************************************************************)
EXTENDS Naturals, FiniteSets

CONSTANTS
    Queries,    \* the queries, as records (see IsQuery)
    Schemas,    \* the tenants a user of the root tenant can look at
    Root,       \* the root tenant, whose tables are those of every tenant
    None,       \* no data
    MaxWrites,  \* bound: writes in a behaviour
    Slots       \* bound: one for each mutation that may be out at once

\* A mutation, as the query sees it: whether it writes what the query reads,
\* whether its hook invalidates the query when it succeeds, whether it is a
\* write that the hooks are known not to follow, and whether a route of the
\* server takes it to the handler it means.
Offer == [writes: BOOLEAN, stale: BOOLEAN, unfollowed: BOOLEAN, routed: BOOLEAN]

\* A query: the pages, which show it or not, and whether it reads rows of every
\* tenant or of the one a request names.
IsQuery(q) ==
    q \in [pages: SUBSET [shows: BOOLEAN, offers: SUBSET Offer],
           everyTenant: BOOLEAN, routed: BOOLEAN]

ASSUME RootAssumption == Root \in Schemas
ASSUME NoneAssumption == None \notin [tenant: Schemas, version: Nat]
ASSUME BoundsAssumption == MaxWrites \in Nat
ASSUME QueriesAssumption == \A q \in Queries : IsQuery(q)

VARIABLES
    query,   \* the query this behaviour is about
    page,    \* the page that is open
    header,  \* the tenant the requests of client.js name
    switch,  \* "none", or "asking" while /auth/me is out after a change of it
    adrift,  \* the last change of tenant failed there
    db,      \* how many writes there were to what the query reads
    told,    \* the last in each tenant that a success has told the user of
    cache,   \* the query's entry in the cache
    fetch,   \* its request
    out      \* the mutations that are out

vars == <<query, page, header, switch, adrift, db, told, cache, fetch, out>>

\* The tenant whose rows the query should show.
Here == IF query.everyTenant THEN Root ELSE header

Max2(a, b) == IF a >= b THEN a ELSE b

-----------------------------------------------------------------------------
\* The cache entry: the answer, that it was invalidated, that the last request
\* failed, and (for the properties) that its request was left to run when it
\* was invalidated although the answer had been read before.
Empty == [data |-> None, invalid |-> FALSE, failed |-> FALSE, crossed |-> FALSE]

Idle == [at |-> "idle", tenant |-> Root, version |-> 0, again |-> FALSE,
         crossed |-> FALSE]

\* A request for the query, with the tenant of the moment.
Sent(again) == [at |-> "sent", tenant |-> Here, version |-> 0, again |-> again,
                crossed |-> FALSE]

Free == [at |-> "free", tenant |-> Root, version |-> 0,
         offer |-> [writes |-> FALSE, stale |-> FALSE, unfollowed |-> FALSE,
                    routed |-> TRUE]]

\* invalidateQueries, on the query: a page that shows it asks again, dropping a
\* request that is out, unless that is the first and there is nothing to show
\* yet; with no such page a request that is out is left to run.  Its answer
\* will count as fresh.
invalidateQueries ==
    /\ cache' = [cache EXCEPT !.invalid = TRUE]
    /\ IF page.shows /\ (fetch.at = "idle" \/ cache.data # None)
       THEN fetch' = Sent(FALSE)
       ELSE fetch' = [fetch EXCEPT
                !.crossed = \/ fetch.crossed
                            \/ fetch.at = "served"
                            \/ (fetch.at = "sent" /\ fetch.tenant # Here)]

-----------------------------------------------------------------------------
Init ==
    /\ query \in Queries
    /\ page \in {p \in query.pages : ~p.shows}
    /\ header = Root
    /\ switch = "none" /\ adrift = FALSE
    /\ db = 0 /\ told = [t \in Schemas |-> 0]
    /\ cache = Empty /\ fetch = Idle
    /\ out = [s \in Slots |-> Free]

\* A page opens.  useQuery asks for what is missing or invalid; what is older
\* than its staleTime, which may be the case or not, it asks for as well.
Open(p) ==
    /\ page' = p
    /\ \/ /\ p.shows /\ fetch.at = "idle"
          /\ fetch' = Sent(FALSE)
       \/ /\ p.shows => \/ fetch.at # "idle"
                        \/ cache.data # None /\ ~cache.invalid
          /\ UNCHANGED fetch
    /\ UNCHANGED <<query, header, switch, adrift, db, told, cache, out>>

\* The window gets the focus, or the connection returns: data past its
\* staleTime is asked for again.
Focus ==
    /\ page.shows /\ fetch.at = "idle"
    /\ fetch' = Sent(FALSE)
    /\ UNCHANGED <<query, page, header, switch, adrift, db, told, cache, out>>

\* Data no page shows is dropped after the gcTime, unless it is being fetched.
Collect ==
    /\ ~page.shows /\ fetch.at = "idle"
    /\ cache.data # None
    /\ cache' = Empty
    /\ UNCHANGED <<query, page, header, switch, adrift, db, told, fetch, out>>

\* The server reads the rows for the query.
Read ==
    /\ fetch.at = "sent" /\ query.routed
    /\ fetch' = [fetch EXCEPT !.at = "served", !.version = db]
    /\ UNCHANGED <<query, page, header, switch, adrift, db, told, cache, out>>

\* The answer arrives.
Arrive ==
    /\ fetch.at = "served"
    /\ cache' = [data |-> [tenant |-> fetch.tenant, version |-> fetch.version],
                 invalid |-> FALSE, failed |-> FALSE, crossed |-> fetch.crossed]
    /\ fetch' = Idle
    /\ UNCHANGED <<query, page, header, switch, adrift, db, told, out>>

\* The request fails, or its answer is lost.  It is made once more, unless
\* every page that showed the query has been left.
Fail ==
    /\ fetch.at # "idle"
    /\ IF page.shows /\ ~fetch.again
       THEN /\ fetch' = Sent(TRUE)
            /\ UNCHANGED cache
       ELSE /\ fetch' = Idle
            /\ cache' = [cache EXCEPT !.invalid = TRUE, !.failed = TRUE]
    /\ UNCHANGED <<query, page, header, switch, adrift, db, told, out>>

-----------------------------------------------------------------------------
\* A button or a dialog of the page makes a mutation's request.
Mutate(s, o) ==
    /\ out[s] = Free
    /\ o \in page.offers
    /\ out' = [out EXCEPT ![s] = [at |-> "sent", tenant |-> Here, version |-> 0,
                                  offer |-> o]]
    /\ UNCHANGED <<query, page, header, switch, adrift, db, told, cache, fetch>>

\* The server carries it out.
Write(s) ==
    /\ out[s].at = "sent" /\ out[s].offer.routed
    /\ \/ /\ out[s].offer.writes /\ db < MaxWrites
          /\ db' = db + 1
          /\ out' = [out EXCEPT ![s].at = "served", ![s].version = db + 1]
       \/ /\ ~out[s].offer.writes
          /\ out' = [out EXCEPT ![s].at = "served"]
          /\ UNCHANGED db
    /\ UNCHANGED <<query, page, header, switch, adrift, told, cache, fetch>>

\* Its success arrives; onSuccess runs whatever page is open by now.
Succeed(s) ==
    /\ out[s].at = "served"
    /\ out' = [out EXCEPT ![s] = Free]
    /\ LET o == out[s].offer
           t == out[s].tenant
       IN  /\ told' = IF o.writes /\ ~o.unfollowed
                      THEN [told EXCEPT ![t] = Max2(@, out[s].version)]
                      ELSE told
           /\ IF o.stale THEN invalidateQueries ELSE UNCHANGED <<cache, fetch>>
    /\ UNCHANGED <<query, page, header, switch, adrift, db>>

\* It fails, or its answer is lost.  Mutations are not retried and invalidate
\* nothing then.
Lose(s) ==
    /\ out[s].at \in {"sent", "served"}
    /\ out' = [out EXCEPT ![s] = Free]
    /\ UNCHANGED <<query, page, header, switch, adrift, db, told, cache, fetch>>

-----------------------------------------------------------------------------
\* TenantPicker: assumeTenant and exitAssumption set the header and wait for
\* /auth/me; only then is everything invalidated that is one tenant's.
Switch(t) ==
    /\ switch = "none" /\ t # header
    /\ header' = t /\ switch' = "asking"
    /\ UNCHANGED <<query, page, adrift, db, told, cache, fetch, out>>

MeAnswers ==
    /\ switch = "asking"
    /\ switch' = "none" /\ adrift' = FALSE
    /\ IF query.everyTenant THEN UNCHANGED <<cache, fetch>> ELSE invalidateQueries
    /\ UNCHANGED <<query, page, header, db, told, out>>

\* Mutant: a failed change of tenant is never over.
MeNeverFails ==
    /\ switch = "asking"
    /\ switch' = "failed" /\ adrift' = TRUE
    /\ UNCHANGED <<query, page, header, db, told, cache, fetch, out>>

\* A 401 of /auth/me is not retried, and handleChange ends there.
MeFails ==
    /\ switch = "asking"
    /\ switch' = "none" /\ adrift' = TRUE
    /\ UNCHANGED <<query, page, header, db, told, cache, fetch, out>>

Next ==
    \/ \E p \in query.pages : Open(p)
    \/ Focus \/ Collect \/ Read \/ Arrive \/ Fail
    \/ \E s \in Slots : \/ \E o \in page.offers : Mutate(s, o)
                        \/ Write(s) \/ Succeed(s) \/ Lose(s)
    \/ \E t \in Schemas : Switch(t)
    \/ MeAnswers \/ MeFails

Spec == Init /\ [][Next]_vars

-----------------------------------------------------------------------------
Answers == [tenant: Schemas, version: Nat]
Entries == [data: Answers \cup {None}, invalid: BOOLEAN, failed: BOOLEAN,
            crossed: BOOLEAN]
Fetches == [at: {"idle", "sent", "served"}, tenant: Schemas, version: Nat,
            again: BOOLEAN, crossed: BOOLEAN]
Mutations == [at: {"free", "sent", "served"}, tenant: Schemas, version: Nat,
              offer: Offer]

\* The shape of the client's state.
TypeOK ==
    /\ IsQuery(query) /\ page \in query.pages
    /\ header \in Schemas /\ switch \in {"none", "asking"} /\ adrift \in BOOLEAN
    /\ db \in Nat /\ told \in [Schemas -> Nat]
    /\ cache \in Entries /\ fetch \in Fetches
    /\ out \in [Slots -> Mutations]

\* The tenant of the page is settled.
Steady == query.everyTenant \/ (switch = "none" /\ ~adrift)

\* The hooks invalidate what a mutation writes, but for the known exceptions.
Followed ==
    \A q \in Queries : \A p \in q.pages : \A o \in p.offers :
        o.writes => o.stale \/ o.unfollowed

\* A page at rest, with no error to show, shows rows of the tenant the requests
\* name, and they hold every write the user was told had succeeded: queries are
\* fetched again, invalidated and left alone in whatever order the pages, the
\* answers and the changes of tenant come.  Two cases are excepted, both real:
\* an answer read before the write that was let in after it (crossed), and a
\* change of tenant that failed half way (adrift).
BelievedFresh ==
    page.shows /\ fetch.at = "idle" /\ ~cache.failed /\ ~cache.crossed /\ Steady
        => /\ cache.data # None
           /\ cache.data.tenant = Here
           /\ cache.data.version >= told[Here]

\* Every request the pages can make reaches the handler it means: none is taken
\* by a route with a parameter that was added before its own, and none is for
\* a route that was switched off.
Reached ==
    /\ fetch.at # "idle" => query.routed
    /\ \A s \in Slots : out[s].offer.routed

\* "Tenant context changed -- invalidate all entity queries so active observers
\* refetch" (TenantPicker.jsx:34): once a change of tenant is over, a page at
\* rest shows the rows of the new one.
SwitchRefetches ==
    page.shows /\ fetch.at = "idle" /\ ~cache.failed /\ switch = "none"
        => cache.data # None /\ cache.data.tenant = Here
=============================================================================
