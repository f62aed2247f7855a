-------------------------- MODULE WebClientProofs --------------------------
(***************************************************************************)
(* Proofs about WebClient, for every set of queries and tenants and any    *)
(* number of mutations out at once: the state keeps its shape, and, when   *)
(* the hooks follow every write, a page at rest shows all the user was     *)
(* told of.                                                                *)
(***************************************************************************)
EXTENDS WebClient, TLAPS

USE RootAssumption

\* A request made now is a request.
LEMMA SentIsFetch ==
    ASSUME TypeOK, NEW again \in BOOLEAN
    PROVE  Sent(again) \in Fetches
  BY DEF TypeOK, Here, Sent, Fetches

LEMMA IdleIsFetch == Idle \in Fetches
  BY DEF Idle, Fetches

LEMMA FreeIsMutation == Free \in Mutations
  BY DEF Free, Mutations, Offer

\* Invalidating keeps the shape of the entry and of its request.
LEMMA InvalidateTyped ==
    ASSUME TypeOK, invalidateQueries
    PROVE  cache' \in Entries /\ fetch' \in Fetches
<1>1. cache' \in Entries
  BY DEF TypeOK, invalidateQueries, Entries
<1>2. Sent(FALSE) \in Fetches
  BY SentIsFetch
<1>3. fetch' \in Fetches
  BY <1>2 DEF TypeOK, invalidateQueries, Fetches
<1> QED
  BY <1>1, <1>3

\* Every step keeps the shape of the state.
LEMMA StepTyped ==
    ASSUME TypeOK, [Next]_vars
    PROVE  TypeOK'
<1> SUFFICES ASSUME Next
             PROVE  TypeOK'
  BY DEF TypeOK, vars
<1> USE DEF TypeOK
<1>1. ASSUME NEW p \in query.pages, Open(p)
      PROVE  TypeOK'
  BY <1>1, SentIsFetch DEF Open
<1>2. ASSUME Focus
      PROVE  TypeOK'
  BY <1>2, SentIsFetch DEF Focus
<1>3. ASSUME Collect
      PROVE  TypeOK'
  BY <1>3 DEF Collect, Empty, Entries
<1>4. ASSUME Read
      PROVE  TypeOK'
  BY <1>4 DEF Read, Fetches
<1>5. ASSUME Arrive
      PROVE  TypeOK'
  BY <1>5, IdleIsFetch DEF Arrive, Fetches, Entries, Answers
<1>6. ASSUME Fail
      PROVE  TypeOK'
  BY <1>6, IdleIsFetch, SentIsFetch DEF Fail, Entries
<1>7. ASSUME NEW s \in Slots, NEW o \in page.offers, Mutate(s, o)
      PROVE  TypeOK'
  <2>1. o \in Offer
    BY DEF IsQuery
  <2>2. Here \in Schemas
    BY DEF Here
  <2>3. [at |-> "sent", tenant |-> Here, version |-> 0, offer |-> o] \in Mutations
    BY <2>1, <2>2 DEF Mutations
  <2> QED
    BY <1>7, <2>3 DEF Mutate
<1>8. ASSUME NEW s \in Slots, Write(s)
      PROVE  TypeOK'
  <2>1. out[s] \in Mutations
    OBVIOUS
  <2>2. out' \in [Slots -> Mutations]
    BY <1>8, <2>1 DEF Write, Mutations
  <2> QED
    BY <1>8, <2>2 DEF Write
<1>9. ASSUME NEW s \in Slots, Succeed(s)
      PROVE  TypeOK'
  <2>1. out[s] \in Mutations
    OBVIOUS
  <2>2. told' \in [Schemas -> Nat]
    BY <1>9, <2>1 DEF Succeed, Mutations, Max2
  <2>3. cache' \in Entries /\ fetch' \in Fetches
    BY <1>9, InvalidateTyped DEF Succeed
  <2> QED
    BY <1>9, <2>2, <2>3, FreeIsMutation DEF Succeed
<1>10. ASSUME NEW s \in Slots, Lose(s)
       PROVE  TypeOK'
  BY <1>10, FreeIsMutation DEF Lose
<1>11. ASSUME NEW t \in Schemas, Switch(t)
       PROVE  TypeOK'
  BY <1>11 DEF Switch
<1>12. ASSUME MeAnswers
       PROVE  TypeOK'
  BY <1>12, InvalidateTyped DEF MeAnswers
<1>13. ASSUME MeFails
       PROVE  TypeOK'
  BY <1>13 DEF MeFails
<1> QED
  BY <1>1, <1>2, <1>3, <1>4, <1>5, <1>6, <1>7, <1>8, <1>9, <1>10, <1>11, <1>12,
     <1>13 DEF Next

LEMMA InitTyped == Init => TypeOK
<1> SUFFICES ASSUME Init
             PROVE  TypeOK
  OBVIOUS
<1>1. IsQuery(query) /\ page \in query.pages
  BY QueriesAssumption DEF Init
<1>2. cache \in Entries
  BY DEF Init, Empty, Entries
<1>3. fetch \in Fetches
  BY IdleIsFetch DEF Init
<1>4. out \in [Slots -> Mutations]
  BY FreeIsMutation DEF Init
<1> QED
  BY <1>1, <1>2, <1>3, <1>4 DEF Init, TypeOK

\* The state of the client keeps its shape.
THEOREM Typed == Spec => []TypeOK
<1>1. Init => TypeOK
  BY InitTyped
<1>2. TypeOK /\ [Next]_vars => TypeOK'
  BY StepTyped
<1> QED
  BY <1>1, <1>2, PTL DEF Spec

-----------------------------------------------------------------------------
\* What the client knows of the tenant of the page: a mutation that is out is
\* one some page offers; nothing is newer than the last write; a request that
\* was not crossed is for the tenant of the page and, once served, has all the
\* user was told of; so has an answer that is neither invalid nor crossed; and
\* a page that shows the query without an error has a valid answer, or asks.
Offered == \A s \in Slots : out[s].at # "free" =>
               \E p \in query.pages : out[s].offer \in p.offers
Dated ==
    /\ \A t \in Schemas : told[t] <= db
    /\ \A s \in Slots : out[s].version <= db
FetchGood ==
    Steady /\ fetch.at # "idle" /\ ~fetch.crossed =>
        /\ fetch.tenant = Here
        /\ fetch.at = "served" => fetch.version >= told[Here]
DataGood ==
    Steady /\ cache.data # None /\ ~cache.invalid /\ ~cache.crossed =>
        /\ cache.data.tenant = Here
        /\ cache.data.version >= told[Here]
Asking ==
    page.shows /\ fetch.at = "idle" /\ ~cache.failed =>
        cache.data # None /\ ~cache.invalid

Inv == /\ TypeOK /\ query \in Queries
       /\ Offered /\ Dated /\ FetchGood /\ DataGood /\ Asking

\* After an invalidation nothing is believed but what is asked for now.
LEMMA InvalidateGood ==
    ASSUME Inv, invalidateQueries, UNCHANGED <<query, page, header>>
    PROVE  FetchGood' /\ DataGood' /\ Asking'
<1>1. Here' = Here
  BY DEF Here
<1>2. cache' = [cache EXCEPT !.invalid = TRUE] /\ cache \in Entries
  BY DEF Inv, TypeOK, invalidateQueries
<1>3. cache'.invalid = TRUE /\ cache'.data = cache.data
      /\ cache'.failed = cache.failed
  BY <1>2 DEF Entries
<1>4. CASE page.shows /\ (fetch.at = "idle" \/ cache.data # None)
  <2>1. fetch' = Sent(FALSE)
    BY <1>4 DEF invalidateQueries
  <2> QED
    BY <1>1, <1>3, <2>1 DEF Sent, FetchGood, DataGood, Asking
<1>5. CASE ~(page.shows /\ (fetch.at = "idle" \/ cache.data # None))
  <2>1. fetch' = [fetch EXCEPT !.crossed =
                     \/ fetch.crossed
                     \/ fetch.at = "served"
                     \/ (fetch.at = "sent" /\ fetch.tenant # Here)]
    BY <1>5 DEF invalidateQueries
  <2>2. fetch \in Fetches
    BY DEF Inv, TypeOK
  <2>3. /\ fetch'.at = fetch.at /\ fetch'.tenant = fetch.tenant
        /\ ~fetch'.crossed =>
               fetch.at # "served" /\ (fetch.at = "sent" => fetch.tenant = Here)
    BY <2>1, <2>2 DEF Fetches
  <2>4. FetchGood'
    BY <1>1, <2>2, <2>3 DEF FetchGood, Fetches
  <2>5. DataGood' /\ Asking'
    BY <1>3, <1>5, <2>3 DEF DataGood, Asking
  <2> QED
    BY <2>4, <2>5
<1> QED
  BY <1>4, <1>5

LEMMA InitInv == Init => Inv
<1> SUFFICES ASSUME Init
             PROVE  Inv
  OBVIOUS
<1>1. TypeOK
  BY InitTyped
<1>2. Offered /\ Dated
  BY DEF Init, Offered, Dated, Free
<1>3. FetchGood /\ DataGood /\ Asking
  BY DEF Init, FetchGood, DataGood, Asking, Idle, Empty
<1> QED
  BY <1>1, <1>2, <1>3 DEF Init, Inv

LEMMA StepInv ==
    ASSUME Followed, Inv, [Next]_vars
    PROVE  Inv'
<1>1. TypeOK /\ TypeOK'
  BY StepTyped DEF Inv
<1>2. CASE UNCHANGED vars
  <2>1. Here' = Here /\ Steady' = Steady
    BY <1>2 DEF vars, Here, Steady
  <2> QED
    BY <1>1, <1>2, <2>1
    DEF vars, Inv, Offered, Dated, FetchGood, DataGood, Asking
<1> SUFFICES ASSUME Next
             PROVE  Inv'
  BY <1>2
<1>3. query' = query /\ query' \in Queries
  BY DEF Next, Open, Focus, Collect, Read, Arrive, Fail, Mutate, Write, Succeed,
         Lose, Switch, MeAnswers, MeFails, Inv
\* A request of the moment.
<1>4. ASSUME fetch' = Sent(FALSE) \/ fetch' = Sent(TRUE),
             UNCHANGED <<header, switch, adrift, db, told, out>>,
             cache' = cache
      PROVE  Inv'
  <2>1. Here' = Here /\ Steady' = Steady
    BY <1>3, <1>4 DEF Here, Steady
  <2>2. FetchGood' /\ Asking'
    BY <1>4, <2>1 DEF Sent, FetchGood, Asking
  <2>3. Offered' /\ Dated' /\ DataGood'
    BY <1>3, <1>4, <2>1 DEF Inv, Offered, Dated, DataGood
  <2> QED
    BY <1>1, <1>3, <2>2, <2>3 DEF Inv
<1>5. ASSUME NEW p \in query.pages, Open(p)
      PROVE  Inv'
  <2>1. CASE fetch' = Sent(FALSE)
    BY <1>4, <1>5, <2>1 DEF Open
  <2>2. CASE /\ p.shows => \/ fetch.at # "idle"
                           \/ (cache.data # None /\ ~cache.invalid)
             /\ UNCHANGED fetch
    <3>1. Here' = Here /\ Steady' = Steady
      BY <1>5 DEF Open, Here, Steady
    <3>2. Asking'
      BY <1>5, <2>2 DEF Open, Asking
    <3>3. Offered' /\ Dated' /\ FetchGood' /\ DataGood'
      BY <1>5, <2>2, <3>1 DEF Open, Inv, Offered, Dated, FetchGood, DataGood
    <3> QED
      BY <1>1, <1>3, <3>2, <3>3 DEF Inv
  <2> QED
    BY <1>5, <2>1, <2>2 DEF Open
<1>6. ASSUME Focus
      PROVE  Inv'
  BY <1>4, <1>6 DEF Focus
<1>7. ASSUME Collect
      PROVE  Inv'
  <2>1. Here' = Here /\ Steady' = Steady
    BY <1>7 DEF Collect, Here, Steady
  <2>2. DataGood' /\ Asking'
    BY <1>7 DEF Collect, Empty, DataGood, Asking
  <2>3. Offered' /\ Dated' /\ FetchGood'
    BY <1>7, <2>1 DEF Collect, Inv, Offered, Dated, FetchGood
  <2> QED
    BY <1>1, <1>3, <2>2, <2>3 DEF Inv
<1>8. ASSUME Read
      PROVE  Inv'
  <2>1. Here' = Here /\ Steady' = Steady /\ Here \in Schemas
    BY <1>1, <1>8 DEF Read, Here, Steady, TypeOK
  <2>2. /\ fetch'.tenant = fetch.tenant /\ fetch'.crossed = fetch.crossed
        /\ fetch'.at = "served" /\ fetch'.version = db /\ fetch.at = "sent"
    BY <1>1, <1>8 DEF Read, TypeOK, Fetches
  <2>3. told[Here] <= db
    BY <2>1 DEF Inv, Dated
  <2>4. FetchGood'
    <3>1. told'[Here'] <= db /\ told'[Here'] \in Nat /\ db \in Nat
      BY <1>1, <1>8, <2>1, <2>3 DEF Read, TypeOK
    <3> QED
      BY <2>1, <2>2, <3>1 DEF Inv, FetchGood
  <2>5. Offered' /\ Dated' /\ DataGood' /\ Asking'
    BY <1>8, <2>1, <2>2 DEF Read, Inv, Offered, Dated, DataGood, Asking
  <2> QED
    BY <1>1, <1>3, <2>4, <2>5 DEF Inv
<1>9. ASSUME Arrive
      PROVE  Inv'
  <2>1. Here' = Here /\ Steady' = Steady
    BY <1>9 DEF Arrive, Here, Steady
  <2>2. cache'.data = [tenant |-> fetch.tenant, version |-> fetch.version]
        /\ cache'.invalid = FALSE /\ cache'.crossed = fetch.crossed
        /\ fetch'.at = "idle" /\ fetch.at = "served" /\ told' = told
    BY <1>9 DEF Arrive, Idle
  <2>3. cache'.data # None
    BY <1>1, <2>2, NoneAssumption DEF TypeOK, Fetches
  <2>4. DataGood'
    BY <2>1, <2>2 DEF Inv, FetchGood, DataGood
  <2>5. FetchGood' /\ Asking'
    BY <2>2, <2>3 DEF FetchGood, Asking
  <2>6. Offered' /\ Dated'
    BY <1>9 DEF Arrive, Inv, Offered, Dated
  <2> QED
    BY <1>1, <1>3, <2>4, <2>5, <2>6 DEF Inv
<1>10. ASSUME Fail
       PROVE  Inv'
  <2>1. CASE page.shows /\ ~fetch.again
    BY <1>4, <1>10, <2>1 DEF Fail
  <2>2. CASE ~(page.shows /\ ~fetch.again)
    <3>1. fetch' = Idle /\ cache' = [cache EXCEPT !.invalid = TRUE, !.failed = TRUE]
      BY <1>10, <2>2 DEF Fail
    <3>2. cache'.invalid = TRUE /\ cache'.failed = TRUE
      BY <1>1, <3>1 DEF TypeOK, Entries
    <3>3. FetchGood' /\ DataGood' /\ Asking'
      BY <3>1, <3>2 DEF Idle, FetchGood, DataGood, Asking
    <3>4. Offered' /\ Dated'
      BY <1>10 DEF Fail, Inv, Offered, Dated
    <3> QED
      BY <1>1, <1>3, <3>3, <3>4 DEF Inv
  <2> QED
    BY <2>1, <2>2
<1>11. ASSUME NEW s \in Slots, NEW o \in page.offers, Mutate(s, o)
       PROVE  Inv'
  <2>1. Here' = Here /\ Steady' = Steady
    BY <1>11 DEF Mutate, Here, Steady
  <2>2. out' = [out EXCEPT ![s] = [at |-> "sent", tenant |-> Here, version |-> 0,
                                   offer |-> o]]
    BY <1>11 DEF Mutate
  <2>3. Offered'
    <3>1. page \in query.pages
      BY <1>1 DEF TypeOK
    <3> QED
      BY <1>1, <1>11, <2>2, <3>1 DEF Mutate, Inv, Offered, TypeOK
  <2>4. Dated'
    BY <1>1, <1>11, <2>2 DEF Mutate, Inv, Dated, TypeOK
  <2>5. FetchGood' /\ DataGood' /\ Asking'
    BY <1>11, <2>1 DEF Mutate, Inv, FetchGood, DataGood, Asking
  <2> QED
    BY <1>1, <1>3, <2>3, <2>4, <2>5 DEF Inv
<1>12. ASSUME NEW s \in Slots, Write(s)
       PROVE  Inv'
  <2>1. Here' = Here /\ Steady' = Steady
    BY <1>12 DEF Write, Here, Steady
  <2>2. db' \in Nat /\ db \in Nat /\ db <= db'
    BY <1>1, <1>12 DEF Write, TypeOK
  <2>3. \A r \in Slots : /\ out'[r].offer = out[r].offer
                         /\ out'[r].at # "free" => out[r].at # "free"
                         /\ out'[r].version = out[r].version
                                \/ out'[r].version = db'
    BY <1>1, <1>12 DEF Write, TypeOK, Mutations
  <2>4. \A r \in Slots : out[r].version \in Nat
    BY <1>1 DEF TypeOK, Mutations
  <2>5. Offered'
    BY <1>3, <2>3 DEF Inv, Offered
  <2>6. Dated'
    <3>1. told' = told /\ \A t \in Schemas : told[t] \in Nat
      BY <1>1, <1>12 DEF Write, TypeOK
    <3> QED
      BY <2>2, <2>3, <2>4, <3>1 DEF Inv, Dated
  <2>7. FetchGood' /\ DataGood' /\ Asking'
    BY <1>12, <2>1 DEF Write, Inv, FetchGood, DataGood, Asking
  <2> QED
    BY <1>1, <1>3, <2>5, <2>6, <2>7 DEF Inv
<1>13. ASSUME NEW s \in Slots, Succeed(s)
       PROVE  Inv'
  <2> DEFINE o == out[s].offer
             t == out[s].tenant
  <2>1. Here' = Here /\ Steady' = Steady
    BY <1>13 DEF Succeed, Here, Steady
  <2>2. out[s] \in Mutations /\ out[s].at = "served" /\ out' = [out EXCEPT ![s] = Free]
    BY <1>1, <1>13 DEF Succeed, TypeOK
  <2>3. o \in Offer /\ (o.writes => o.stale \/ o.unfollowed)
    <3>1. PICK p \in query.pages : o \in p.offers
      BY <2>2 DEF Inv, Offered
    <3> QED
      BY <2>2, <3>1 DEF Inv, Followed, Mutations
  <2>4. told' = IF o.writes /\ ~o.unfollowed
                THEN [told EXCEPT ![t] = Max2(@, out[s].version)] ELSE told
    BY <1>13 DEF Succeed
  <2>5. Dated'
    <3>1. out[s].version <= db /\ \A u \in Schemas : told[u] <= db
      BY DEF Inv, Dated
    <3>2. \A u \in Schemas : told'[u] <= db
      BY <1>1, <2>2, <2>4, <3>1 DEF TypeOK, Mutations, Max2
    <3>3. \A r \in Slots : out'[r].version <= db
      BY <1>1, <2>2 DEF Inv, Dated, TypeOK, Free
    <3> QED
      BY <1>13, <3>2, <3>3 DEF Succeed, Dated
  <2>6. Offered'
    BY <1>1, <1>3, <2>2 DEF Inv, Offered, TypeOK, Free
  <2>7. FetchGood' /\ DataGood' /\ Asking'
    <3>1. CASE o.stale
      <4>1. invalidateQueries /\ UNCHANGED <<query, page, header>>
        BY <1>13, <3>1 DEF Succeed
      <4> QED
        BY <4>1, InvalidateGood
    <3>2. CASE ~o.stale
      <4>1. told' = told /\ UNCHANGED <<cache, fetch, page>>
        BY <1>13, <2>3, <2>4, <3>2 DEF Succeed
      <4> QED
        BY <2>1, <4>1 DEF Inv, FetchGood, DataGood, Asking
    <3> QED
      BY <3>1, <3>2
  <2> QED
    BY <1>1, <1>3, <2>5, <2>6, <2>7 DEF Inv
<1>14. ASSUME NEW s \in Slots, Lose(s)
       PROVE  Inv'
  <2>1. Here' = Here /\ Steady' = Steady
    BY <1>14 DEF Lose, Here, Steady
  <2>2. out' = [out EXCEPT ![s] = Free]
    BY <1>14 DEF Lose
  <2>3. 0 <= db
    BY <1>1 DEF TypeOK
  <2>4. Offered'
    BY <1>1, <1>3, <2>2 DEF Inv, Offered, TypeOK, Free
  <2>5. Dated'
    BY <1>1, <1>14, <2>2, <2>3 DEF Lose, Inv, Dated, TypeOK, Free
  <2>6. FetchGood' /\ DataGood' /\ Asking'
    BY <1>14, <2>1 DEF Lose, Inv, FetchGood, DataGood, Asking
  <2> QED
    BY <1>1, <1>3, <2>4, <2>5, <2>6 DEF Inv
<1>15. ASSUME NEW t \in Schemas, Switch(t)
       PROVE  Inv'
  <2>1. Steady' => query.everyTenant
    BY <1>15 DEF Switch, Steady
  <2>2. query.everyTenant => Here' = Here /\ Steady
    BY <1>15 DEF Switch, Here, Steady
  <2>3. FetchGood' /\ DataGood' /\ Asking'
    BY <1>15, <2>1, <2>2 DEF Switch, Inv, FetchGood, DataGood, Asking
  <2>4. Offered' /\ Dated'
    BY <1>15 DEF Switch, Inv, Offered, Dated
  <2> QED
    BY <1>1, <1>3, <2>3, <2>4 DEF Inv
<1>16. ASSUME MeAnswers
       PROVE  Inv'
  <2>1. Offered' /\ Dated'
    BY <1>16 DEF MeAnswers, Inv, Offered, Dated
  <2>2. CASE query.everyTenant
    <3>1. Here' = Here /\ Steady' = Steady /\ UNCHANGED <<page, told, cache, fetch>>
      BY <1>16, <2>2 DEF MeAnswers, Here, Steady
    <3>2. FetchGood' /\ DataGood' /\ Asking'
      BY <3>1 DEF Inv, FetchGood, DataGood, Asking
    <3> QED
      BY <1>1, <1>3, <2>1, <3>2 DEF Inv
  <2>3. CASE ~query.everyTenant
    <3>1. FetchGood' /\ DataGood' /\ Asking'
      BY <1>16, <2>3, InvalidateGood DEF MeAnswers
    <3> QED
      BY <1>1, <1>3, <2>1, <3>1 DEF Inv
  <2> QED
    BY <2>2, <2>3
<1>17. ASSUME MeFails
       PROVE  Inv'
  <2>1. Steady' => query.everyTenant
    BY <1>17 DEF MeFails, Steady
  <2>2. query.everyTenant => Here' = Here /\ Steady
    BY <1>17 DEF MeFails, Here, Steady
  <2>3. FetchGood' /\ DataGood' /\ Asking'
    BY <1>17, <2>1, <2>2 DEF MeFails, Inv, FetchGood, DataGood, Asking
  <2>4. Offered' /\ Dated'
    BY <1>17 DEF MeFails, Inv, Offered, Dated
  <2> QED
    BY <1>1, <1>3, <2>3, <2>4 DEF Inv
<1> QED
  BY <1>5, <1>6, <1>7, <1>8, <1>9, <1>10, <1>11, <1>12, <1>13, <1>14, <1>15, <1>16,
     <1>17 DEF Next

\* When the hooks follow every write but the known exceptions, a page at rest
\* shows the rows of its tenant with all the user was told of, for any queries,
\* pages and tenants and any number of mutations out at once.
THEOREM FreshWhenFollowed ==
    ASSUME Followed
    PROVE  Spec => []BelievedFresh
<1>1. Inv => BelievedFresh
  BY DEF Inv, DataGood, Asking, BelievedFresh
<1>2. Inv /\ [Next]_vars => Inv'
  BY StepInv
<1> QED
  BY <1>1, <1>2, InitInv, PTL DEF Spec
=============================================================================
