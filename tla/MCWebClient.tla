---------------------------- MODULE MCWebClient ----------------------------
(***************************************************************************)
(* Queries of WebClient from the tables: every query of every page, with   *)
(* the mutations all pages offer.  Queries that cannot be told apart are   *)
(* one, so that all of them are checked.                                   *)
(***************************************************************************)
EXTENDS Screens, Routes, WebClient

CONSTANTS t1, t2, s1, s2

\* Where the server takes a request, and what the handler reads and writes.
Mount(r) == apiRoutes[r.base[1]][r.base[2]]
Handler(r) == Dispatch(Mount(r), r.verb, r.path)
Asked(r) ==
    CASE r.preview /\ Handler(r) = "importXls"         -> "previewXls"
      [] r.preview /\ Handler(r) = "importCombinedXls" -> "previewCombinedXls"
      [] OTHER                                         -> Handler(r)
Routed(r) ==
    /\ Handler(r) # "404"
    /\ Handler(r) = "getById" <=> r.path = <<Id>> /\ r.verb = "GET"
Effect(r) == Mount(r).controller[Asked(r)]

\* The writes the hooks do not follow.  Reports are only reread after their
\* staleTime; the logins of people, the children a sheet carries and the
\* entries an invoice or a payment books change under hooks of other records.
Unfollowed(key, r) ==
    LET kind == key[1]
    IN  \/ kind \in {w.key[1] : w \in Range(useReports)}
        \/ kind = "portal-users" /\ r.base[1] # "tenants"
        \/ kind = "portal-users" /\ r.path = <<"import-xls">>
        \/ kind = "portal-users" /\ r.base[2] = "orphan-portal-users"
        \/ /\ kind \in {"addresses", "taxIdentifiers", "emails", "phoneNumbers"}
           /\ r.path \in {<<"import-xls">>, <<"import-combined-xls">>}
        \/ kind = "emails" /\ r.base[2] \in {"clients", "employees",
                                             "vendor-contacts"}
        \/ kind = "field-group-grants" /\ r.path = <<"archive">>
        \/ kind = "journalEntries" /\ r.base[1] \in {"ap", "ar"}
        \/ kind = "tenant-schemas" /\ r.path = <<"update">>
        \/ kind = "vendorContacts" /\ r.base[2] = "vendors"
               /\ r.path \in {<<"archive">>, <<"restore">>}

OfferTo(q, m) ==
    LET stale == \E k \in m.stale : IsPrefix(k, q.key)
    IN  [writes     |-> /\ Routed(m.request) /\ Routed(q.request)
                        /\ Effect(m.request).writes \cap Effect(q.request).reads
                               # {},
         stale      |-> stale,
         unfollowed |-> ~stale /\ Unfollowed(q.key, m.request),
         routed     |-> Routed(m.request)]

\* Mutations that neither touch nor invalidate the query are left out.
PageTo(q, p) ==
    [shows  |-> q \in p.watches,
     offers |-> {o \in {OfferTo(q, m) : m \in p.offers} :
                     o.writes \/ o.stale \/ ~o.routed}]

\* A page that offers less than another adds nothing, and neither does a query
\* whose pages all offer less than some page of another.
Under(p, r) == p.shows = r.shows /\ p.offers \subseteq r.offers
Top(pages) == {p \in pages : \A r \in pages : Under(p, r) => Under(r, p)}

QueryOf(q, pages) ==
    [pages       |-> Top({PageTo(q, p) : p \in pages}
                             \cup {[shows |-> FALSE, offers |-> {}]}),
     everyTenant |-> q.key = useTenantSchemas.key,
     routed      |-> Routed(q.request)]
Covers(r, q) ==
    /\ r.everyTenant = q.everyTenant /\ r.routed = q.routed
    /\ \A p \in q.pages : \E o \in r.pages : Under(p, o)

\* The queries of all pages, each page with what is around it.
MCQueries ==
    LET pages   == {And(p, LayoutShell.watches, LayoutShell.offers) : p \in App}
        queries == {QueryOf(q, pages) : q \in UNION {p.watches : p \in pages}}
    IN  {q \in queries : \A r \in queries : Covers(r, q) => Covers(q, r)}
MCSchemas == {t1, t2}
MCSlots == {s1, s2}

\* The slots are alike.
Symmetry == Permutations(MCSlots)
=============================================================================
