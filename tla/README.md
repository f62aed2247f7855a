# Axerra: a TLA+ verification project

Axerra is a multi-tenant ERP for construction companies: a React client
(`apps/client`), an Express server on PostgreSQL and Redis (`apps/server`) and a
package of shared helpers (`packages/shared`). Every tenant has a PostgreSQL
schema of its own; `admin` holds the tenants, the logins and what ties them
together. All of the server's state is in the database and in Redis. Handlers are
asynchronous functions: between two `await`s any other request may run, in this
process or in another one, so what a handler has read may be stale when it
writes, and a server that stops leaves exactly what was committed. That is what
the models here are about. The client keeps the server's answers in a cache of its own, which other
writes make stale. Paths below are relative to `apps/server/src`.

## 1. Inventory

| part | state it keeps | operations | hard behaviour | what makes it correct |
|---|---|---|---|---|
| **general ledger** `modules/accounting` | `journal_entries`, `journal_entry_lines`, `posting_queues`, `ledger_balances` | create, post, reverse, retry; generic CRUD on the same tables | concurrent posts, stale status, row locks taken in line order, rollback | an entry reaches the balances once; balances are the sum of what was posted; a reversal has one exact opposite; debits equal credits |
| **numbering** `system/core/services/numberingService.js` | `tenant_numbering_config`, `tenant_number_sequence_state`, the `code` column of every entity | `allocateNumber(s)` inside a create or an import; `backfillCodes` when numbering is enabled | first allocation of a period has no row to lock; rollback; codes typed by hand | no serial twice, none skipped, codes unique |
| **settlement** `modules/ap`, `modules/ar` | invoices, lines, payments, receipts, credit memos | status workflow, record a payment, apply a memo; each posts a journal entry | no transaction at all: a chain of statements | no overpayment; settled means paid; the ledger agrees |
| **permissions** `services/permissionLoader.js`, `permCacheInvalidator.js`, `middleware/authRedis.js` | Redis permission canon per user and tenant, `ph` in the token, roles and policies in the tenant schema | load, prime, invalidate, compare with the token | cache fill racing invalidation; a token older than the policies | a revoked right stops working |
| **authentication** `system/auth` | `portal_users` (password, status), access and refresh cookies | login, refresh, logout, change password or e-mail | refresh against lock, archive and password change | a locked or archived login obtains no session |
| **portal users and bindings** `system/auth/services/portalUser*.js`, `lib/employeeAppUserSync.js`, `lib/loginEmailSync.js` | `portal_users`, `portal_user_tenants`, `is_app_user`, login e-mails | provision, bind, unbind, cascade from archive and restore | a record and its login are written in separate transactions | a login exists exactly while something binds it |
| **tenants** `system/tenants` | `tenants`, the schema of each | provision, archive, restore, impersonate | archive in two transactions, restore in one | archive followed by restore brings back what archive took |
| **core entities** `system/core` | employees, vendors, clients, contacts, companies, e-mails, phones, addresses | CRUD, archive cascades, exactly one login e-mail | check-then-insert | one login e-mail; children follow the parent |
| **activities** `modules/activities` | budgets and their versions, deliverables, cost lines, actual costs | version, approve, lock, release | approve, new version and release race | one current version; nothing released without an approved budget |
| **projects** `modules/projects` | projects, units, tasks, templates, change orders | CRUD with status fields | - | workflow of each status |
| **bill of materials** `modules/bom` | catalog, vendor SKUs, embeddings | match SKUs to the catalog by similarity | external embedding service | - |
| **reports** `modules/reports` | none: views | queries | - | - |
| **import and export** `lib/spreadsheetHelpers.js` | none of its own | parse a workbook, insert its rows | one bad row of many | all rows or none |
| **repositories, generic controllers, routing** `*/models`, `lib/BaseController.js`, `lib/createRouter.js`, `*/apiRoutes` | none of their own | create, get, update, archive, restore, bulk routes for every table | they reach every column, past the workflow of the special routes; a route with a parameter takes the paths of later ones | every request reaches the handler it means |
| **provisioning and migrations** `services/tenantSetup.js`, `tenantProvisioning.js`, `seedRootEntity.js`, `db/migrations`, `scripts` | `tenants`, the schema of each, `pgschemata.migrations` | create a tenant over the API, from the command line, by setup; migrate every tenant to a release | a chain of statements each committed by itself, an advisory lock, partial compensation | an open tenant has all its tables, its roles and an administrator |
| **web client** `apps/client` | the query cache, the tenant requests name | show a page, mutate, import, change tenant | answers, invalidations and changes of tenant arrive in any order | a page at rest shows what the user was told is done |
| **shared** `packages/shared` | none | helpers | - | - |

How they interact. A route is a middleware chain (`authRedis`, `rbac`, body
validation) ending in a controller. AP and AR controllers call
`postingService` after, or before, their own statement and log its failures.
Creates and imports call `numberingService` inside their transaction; the
numbering configuration calls it to backfill. Archiving an employee, a contact, a
vendor or a tenant calls the portal-user services. Everything that changes roles,
policies or bindings calls `permCacheInvalidator`, whose effect is seen by
`authRedis` on the next request. The generic routes write the same tables as the
special ones. A page of the client shows queries and offers mutations; a hook ties each
to a method of a service, the service to a mount, a verb and a path, the router to a
handler, the handler to the tables it reads and writes, and the hook of a mutation says
which queries to ask again.

## 2. Modules

| module | what it is |
|---|---|
| `AbstractLedger` | what accounting promises: *Enter*, *Book*, *Undo* |
| `GeneralLedger` | the ledger as it is written, statement by statement, with PostgreSQL's row locks |
| `GeneralLedgerProofs` | its theorems |
| `Numbering` | serial allocation, import, backfill and hand-typed codes |
| `NumberingProofs` | its theorems |
| `Settlement` | one invoice with payments (receipts) and credit memos |
| `SettlementProofs` | its theorems |
| `Budgets` | budget versions and the release of deliverables |
| `BudgetsProofs` | its theorems |
| `PermissionCache` | roles, policies, the cached canon, tokens, and the requests that read and change them |
| `PermissionCacheProofs` | its theorems |
| `Logins` | portal users, their bindings, the entities and tenants that own them |
| `LoginsProofs` | its theorems |
| `Deployment` | tenants created, set up, migrated from release to release |
| `DeploymentProofs` | its theorems |
| `Models` | every repository: its table, what an import of it writes and an export reads |
| `Controllers` | every handler: the tables it reads and those it writes |
| `Routes` | every router as the sequence of routes Express tries, and the mounts |
| `ApiClient` | every method of the client's services as a request |
| `Hooks` | every query and mutation: its request, its key, what it invalidates |
| `Screens` | every page: the queries it shows, the mutations it offers |
| `WebClient` | one query of the client's cache, the pages around it, requests, the tenant |
| `WebClientProofs` | its theorems |
| `MC...` | values for TLC: small sets, symmetry; `MCWebClient` composes the six tables with `WebClient` |

### GeneralLedger

State: `entry` is a `journal_entries` row with its lines (a function from the accounts
they name to the net, debit minus credit, that is stored of each, in whole cents),
`queue` the entry's `posting_queues` row, `ledger` the balance per account and
date. `tx` is the transaction each concurrent request is in, with what it read;
`rowLock` and `entryLock` are PostgreSQL's row locks; `applied` is history, the
number of times an entry's lines were committed to the ledger.

Actions: `CreateJournalEntry` and `CreateBare` (POST with and without lines, any
status a body may carry in `Births`); `Post`, `Retry`/`RetrySelect`, `Reverse`
(the first SELECT with its check); `ReadLines` (the second SELECT, a second
snapshot); `UpsertBalance` (one INSERT ... ON CONFLICT, taking the row lock);
`MarkEntry` (UPDATE by id, taking the entry's lock); `CommitPost` and
`CommitReverse` (everything the transaction wrote becomes visible);
`AbortDeadlock` and `Abort`. The generic routes `WriteLine`, `WriteEntryStatus`
and `WriteQueueStatus` are switched on one by one with `Generic`. `OnePerEntry`
keeps two requests from being in flight for the same entry; nothing in the code
does, so it marks precisely what the guarantees depend on.

A create request carries a sequence of accounts with signed amounts in tenths of a cent.
`Balanced` checks these amounts as they came, with the code's tolerance of 0.005;
`Stored` then rounds each line to cents, as its column does (`Rounded`), and adds up the
lines of an account. Descriptions, sources and company ids are dropped, and amounts finer than
a tenth of a cent.

### Numbering

State: `seq` is `last_serial` per period (0: no row), `seqLock` the row's owner,
`rows` the records of one type with their committed codes, `tx` the transaction of
each request: which records it inserted, what is left to number, the sequence
rows and codes it has written and not committed. `issued` and `typed` are
history. A code is the pair of its period (0 when the format shows none) and its
serial: the format is common to all codes of a type, and codes are compared, never
read, by everything except the scan.

Actions: `InsertTyped` and `InsertUncoded` (a create is one record, an import
several); `ReadConfig`; `Advance` (SELECT FOR UPDATE finds the row);
`ScanCodes`, `InsertSequence`, `InsertSequenceRefused` (it does not);
`AssignCodes`, `AssignRefused` (UPDATE of the code against the unique index);
`Commit`, `Abort`; `EnableRead`, `EnableWrite`, `SelectUncoded` (the configuration
update and its backfill, one record at a time); `Disable`; `TypeCode` (the update
route of the records); `Tick` (the date enters another period). A writer waits
(`Contended`) while another transaction holds the row or the index entry.

### Settlement

State: the invoice's `status`, the status of each `memo`, the sum `paid`, the
`liability` the journal entries have left on the payables account, and the request
each process runs. Every action is one statement of a handler, because these
handlers open no transaction. `InvoiceRead` / `InvoiceGL` / `InvoiceWrite` are the
status update; `PayRead`, `PayBalance`, `PayInsert`, `PayAfter`, `PayMark`, `PayGL`
the payment; `MemoRead`, `MemoWrite`, `MemoAfter`, `MemoMark` the memo. `GLFails`
is a journal entry that fails and is only logged; `Cut` a request that ends
between two statements. Any of these may overlap with any other, and a memo is applied
without a look at its invoice, as in the code. Receipts and AR invoices are the same handlers
without memos.

History tells the properties apart from what the code does when requests overlap: `crowd`
is the most status updates, and the most payments, that were ever in flight at once;
`overtaken` are the requests in flight when another's update of the status was written;
`astray` says that a memo found nothing remaining of an invoice that was not issued or paid.

### Budgets

State: `budget` is the sequence of `budgets` rows in the order they were inserted (a
row's id is its place), with its lineage (deliverable and activity), version,
`is_current` and status; `deliverable` the status of each deliverable; `req` the
request each process runs, which names its row by id as the code does.

Actions: `Create` (POST, the version and `is_current` take their defaults);
`BudgetRead` and `BudgetWrite` (an update with a status: the check, then the UPDATE
by id); `VersionRead` and `VersionSwitch` (a new version: the check, then the
transaction that flips the old version and inserts the next one; nothing depends
on its uncommitted state, so it is one step); `DeliverableRead`, `ReleaseCheck`,
`DeliverableWrite` (a release looks for an approved, current budget between its
check and its write); `Cut` (a statement fails or the server stops).

Status updates, new versions and releases race each other freely. A request remembers in
`was` the status it has read, and `raced` is history: the budgets whose status was written by
a request over another than it had read. `FirstOnly`
would keep users from creating a second budget of a lineage by hand; the run lets
them. Amounts are left out: no check looks at them.

### PermissionCache

State: `roles` of each user (the codes in `entity.roles`), `coded`, the roles whose record
bears the code that entities name, and `grants` of each role (`policies`) in
PostgreSQL; `cache`, the key `perm:{userId}:{tenantCode}` in Redis, and `token`, the
access token, each with the rights it stands for and the ticks it has `left`; `req`
what each process runs, with what it has read; `edits` and `faults` count. `roleAge`,
`codeAge` and `grantAge` are history: the ticks since a user last had a role, a role last
bore its code and a role last had a right, counted no further than `Horizon`.

Actions: `Access`, then `CacheHit`, or `CacheMiss`, `LoadEntity`, `LoadRoles`,
`LoadPolicies` (the three statements of `loadPermissions`) and `Prime` (SET with EX,
whose failure is swallowed), then `Serve` (`rbac` decides on what was found). `ReadFails` is
one of the first two reads failing: the loader catches the error, takes it for no roles
and goes on with an empty canon, which is primed like any other.
`SignIn` is login and refresh: both load, never read the cache, refuse an empty
canon, prime, and `Issue` a token with the hash. `Logout` deletes the user's keys
(`ScanKeys`, `DeleteKeys`), if it comes with a valid token, and clears the cookies.
`SyncForRole`, `Recode` and `AssignRoles` change policies, the code of a role's record and
roles, and go on to `Invalidate`.
`Cut` ends a request anywhere, `Tick` lets time pass.

Abstracted: a canon is its capabilities, and levels, scopes, state filters and field
groups, which are resolved from the same rows, are left out; a hash is the canon it
was computed from. There is one tenant and the user's binding exists; an archived
role is a role without grants.

### Logins

State: `tenant` (live or not), `entity` (an employee, client or vendor contact: its row
and `is_app_user`), `user` and `binding`, the rows of `portal_users` and
`portal_user_tenants` in the order they were created, each with the stamp (`gone`) of
its archive; `req` what each request has read. `crossed`, `moved` and `took` are
history.

Actions: creating, updating, archiving and restoring an entity (`Create`, `Update` and
`Save`, `Look`, `Match` and `Fit` (three SELECTs) before `Grant`, `Archive`, `Find`, `Shut`,
`Shutting`, `Mark`, `Restore`, `Reread`, `Revive`); a vendor contact's access given to another identity (`Swap`,
`Swapped`) and a login address changed (`ChangeEmail`, `Sync`); the root tenant's pages
for portal users (`Register`, `ArchiveUser`, `RestoreUser` and what follows each);
`ArchiveTenant` and `Evict`, `RestoreTenant` and `Reopen`; one row of a spreadsheet
(`Import`, `Imported`, with the cascades in their order); `Die`.

A transaction is one step, refused as a whole by the partial unique indexes (`Unique`):
one live user of an address, one live binding of a user in a tenant and of an entity.
The exception is the archive of a binding, whose `NOT EXISTS` is answered by a snapshot
(`Shut`) and committed later (`Shutting`): two of them each see the other's binding.
Passwords, the `status` column, sessions, roles and the tenant's e-mail rows are left out.

What is promised is promised of users and tenants on which no two requests overlapped
(`crossed` records those on which they did, those of a request that died, and those of an
import that archived a live login or binding, as `Shuts` says), and the observations below say what the code does to the
others.

### Deployment

State: `release` (the migrations of the deployed code are 1 to `release`), the tenant's
`row`, its `schema` (which migrations' tables it has, whether its roles are seeded, whether
an administrator is there, and how often it was created), `history` (the rows of
`pgschemata.migrations` for it), the `binding` of its administrator's login, `proc` what
each request or script is doing. `scars` is history: what went wrong since the schema was
last dropped.

Actions: `Create`, `Cli`, `Setup` and `MigrateTenant` begin; `DropSchema`,
`DeleteHistory` or `DeleteFails`, `CreateSchema`, `Lock`, `Commit`, `Seed` or
`SeedFails` are `provisionTenant` and the migrator, statement by statement; then
`CreateAdmin` or `AdminFails` (the API), `RootEmployee` and `RootBinding` (setup), or
`RootMissing`, when setup finds no `ROOT_EMAIL`, no live login of it or no live root tenant,
logs a warning and ends well.
`Fail` is a statement that fails, `Deactivate` the compensation, `Crash` the end of the
process, `Deploy` a new release; `Archive` and `Restore` change the row only (their
bindings are in `Logins`).

A scar names a way the code has of leaving a tenant incomplete without saying so: a
process stopped half-way (`cut`), history that could not be deleted (`stale`), a seed
whose error was dropped (`unseeded`), no administrator (`bare`: the API's failed, setup found no root login, the command line makes
none), a creation that was
compensated (`undone`) and then restored (`reopened`). Everything else must leave a whole
tenant. Assumed: operators do not provision a tenant that is being provisioned (`Quiet`),
and DROP SCHEMA waits for a transaction that created tables in it.
Dry runs, edits of `schema_name` and the order the planner gives to tables are left out.

### Models, Controllers, Routes, ApiClient, Hooks, Screens

Six tables without state, one definition per file of the repository. They say what a page
can cause and what an answer depends on, and leave out everything about values: `Models`
has the table of each repository, `Controllers` the tables each handler reads for its
answer and writes when it succeeds (its own, its services', its import's), `Routes` the
order in which Express tries the routes of each mount (`Dispatch` is Express's matching),
`ApiClient` the requests, `Hooks` the keys, `Screens` the pages.

### WebClient

State: one `query` of the client (queries do not touch one another), the open `page`, the
tenant named in the `header`, `switch` and `adrift` for a change of it, `db`, the number of
writes to what the query reads, `told`, the last of these that a success message has
spoken of, the `cache` entry, its `fetch` and the mutations that are `out`.

Actions: `Open`, `Focus` and `Collect` are TanStack Query's mount, refetch and
garbage collection; `Read`, `Arrive` and `Fail` its request (retried once); `Mutate`,
`Write`, `Succeed` (with `invalidateQueries`) and `Lose` a mutation; `Switch`,
`MeAnswers` and `MeFails` the tenant picker. What the library does is modelled from how
the client configures it (`main.jsx`) and marked external. A listing that takes several
requests is one.

`MCWebClient` computes the queries from the tables: a mutation of a page *writes* the
query when the handler its request is dispatched to writes a table that the query's handler
reads, and *is stale* for it when a key its hook invalidates is a prefix of the query's.
`Unfollowed` lists the writes the hooks are known not to follow, kind by kind; any other
one breaks `BelievedFresh`.

## 3. Runs

| run | question | bounds |
|---|---|---|
| `LedgerExclusive` | with one request per entry: status, reversals and balances in step, refinement of `AbstractLedger` | 2 accounts, 2 dates, 3 entries, 2 requests, entries without lines or with lines that rounding takes off balance |
| `LedgerConcurrent` | requests racing on the same entries, statuses edited by hand and entries born posted: is every commit in the balances exactly once per commit, does the queue agree, do the books balance but for tolerance and rounding | the same, and lines that must be refused; an entry set back to pending once |
| `LedgerEnds` | row locks taken in opposite orders, lines added at any moment: somebody can always go on, and (liveness) a begun request commits or is rolled back | 2 entries, 1 date, 2 accounts; who waits depends on the accounts only, so all amounts are 0 |
| `LedgerDoublePost` | *violated*: two posts of one entry | 2 entries |
| `Numbering` | creates, imports of two, backfills, typed and cleared codes, a new period, rollbacks | 2 requests, 3 records, 2 periods, 2 serials a period |
| `Settlement` | everything overlaps: by how much can payments exceed the total, is a settled invoice paid, which writes leave the workflow, what does the ledger owe | 2 requests, invoice of 3, payments of 1 to 3, memos of 1 and 2, one request cut off, one journal entry lost |
| `Budgets` | the latest version is current, versions grow from approved ones, releases rest on an approval, which writes leave the workflows | 2 deliverables with 1 activity, 2 requests, 3 budgets, born approved by hand or draft as a version |
| `PermissionCache` | a right taken away lapses, tokens are issued for rights that held, cache and tokens settle | 1 user, 1 role, 1 right, 2 requests of at most 1 tick, keys of 2 ticks, tokens of 3, 3 changes, 1 failed read |
| `Logins` | whom a live tenant has can enter, nobody else stays live, archiving a tenant can be undone exactly | 2 tenants, an employee of one and a vendor contact of the other, 2 addresses, 2 requests at a time, 3 in all, 4 states to start from |
| `WebClient` | does a page at rest show what the user was told is done; does every request reach its handler | all 54 queries and 187 mutations of 38 pages (5 profiles that contain the others), 2 tenants, 2 mutations out, 1 write |
| `TenantSwitch` | *violated*: after a change of tenant the rows are the new tenant's | the same |
| `Deployment` | which open tenants can be incomplete, and that provisioning again repairs them | the root tenant and another, 2 processes, 2 releases, a schema created twice |

Why these bounds are enough to be of use. Two requests are the least that race,
and every race found is between two. Two accounts let lock orders cross
(deadlock); three entries allow an entry, its reversal and a stranger; a second
date separates the entry's date from the reversal's. Three records and two
periods let the first allocation of a period meet a batch, a backfill and a typed
code. An invoice of 3 is settled by one, two or three payments and memos. Three budgets are
a version, its successor and a twin, or two deliverables one of which has a version
to lose. Three changes of a
right, a role or its code take it away, give it back and take it away again; a request of one tick can hold a canon across a change
and an expiry, and two requests are one that primes a key and one that reads it,
signs in, logs out or changes something meanwhile; a key of two ticks is read at
three ages. Three requests are a login given, taken and given back, in a tenant archived
or restored meanwhile; one of the states they start from has a person whom both tenants
bind. One write is enough for a page to miss, since the properties speak of one write at
a time; two slots let the successes of two mutations arrive in either order. Queries with
the same profile behave the same, and one whose profile is contained in another's can do
nothing the other cannot, so five stand for all. Two creations of a schema are a first
attempt and the one that must repair it, and two releases a tenant migrated and one left
behind. All unbounded counters are bounded in guards by `MaxReopened`, `MaxRows`,
`MaxSerial`, `LastPeriod`, `MaxCuts`, `MaxLost`, `MaxFaults`, `MaxBudgets`,
`MaxFlight` (how long a request takes: `Tick` waits for one that has used it up), `MaxEdits`, `MaxOps`, `MaxWrites`,
`Releases` and `MaxBorn`, and by the sets of ids.

Deadlock checking is off where the ids can be used up and every request have ended, so
that the modelled system has nothing left to do; that a *request* never hangs is what
`NeverStuck` and `RequestsEnd` check. It is on for the client, where a page can always be
opened, and for `Deployment`, where a migration can always be run.

Fairness. `FairSpec` is strong fairness of `Progress(p)`, what the server and the
database do for a request that has begun: the event loop runs every pending
continuation, the pool's connection executes its statement, PostgreSQL queues the
waiters of a row lock in order and aborts a transaction of a wait cycle. Strong and
not weak, because a waiter's statement is disabled each time another transaction
holds the row. Nothing is assumed of users: requests begin, edit and fail as they
like, and without `AbortDeadlock` the property is violated.

In `PermissionCache` fairness is weak: time passes, and a request that has begun goes on,
has a read fail or is cut. Nothing is assumed of users, who may read a key as often as they
like, nor of Redis, which may fail every command. Changes and failed reads are bounded, which
is the hypothesis of `CacheSettles`: once they are over, the cache settles.

## 4. What the disagreeing runs show

* **LedgerDoublePost.** `postEntry` reads the status with a plain SELECT and marks
  the entry by id alone. Two posts in flight both see `pending` and both add the
  lines. `docs/rules/accounting.md` describes posting as transactional with a
  check of the status; the transaction is there, the check is not under a lock.
* **TenantSwitch.** `assumeTenant` sets the header of every later request and then awaits
  `/auth/me`; `TenantPicker` invalidates the queries after it. When `/auth/me` fails, the
  header has changed and nothing is invalidated: pages at rest show the old tenant's rows,
  and what they ask for next is the new tenant's. A user who was idle for longer than the
  access token lives meets this, since `client.js` does not refresh the token for paths
  under `/auth/`.

What the code does in the cases that the runs bound away or the properties allow for:

* Numbering (`TypedCodes` ahead of the sequence). Once a period's sequence row exists nobody
  looks at the codes in use. A code typed ahead of the sequence makes the allocation that
  reaches it fail; the rollback gives the serial back, so every later create without a code
  fails on the same serial.
* Settlement. Balance check and insert are separate statements: two payments that each fit
  overpay together, though `docs/rules/ap.md:42` says "cannot overpay"; `NoOverpayment` bounds
  by how much. Two approvals of an invoice at once post it twice (`PostedOnce`). A payment in
  flight while the invoice is voided takes it back to `paid`, and a memo makes an open or a
  voided invoice `paid`, past the workflow of `docs/rules/ap.md:14-23`, where `voided` is
  terminal: the two exceptions of `WorkflowKept`. With `crowd` at 1, no request overtaken and
  no memo, the properties say what the documents do.
* Budgets. `createNewVersion` asks whether the budget it is given is approved
  or locked, not whether it is current or already has a successor. Called twice for
  one budget, one call after the other or both at once, it leaves two current drafts with
  the same version. `docs/rules/activities.md` leaves uniqueness to the application.
* Permissions. `invalidateByRole` and `invalidateByEntity` look the portal users up
  by `entity_type` and `entity_id` in `admin.portal_users`; these columns are now on
  `portal_user_tenants`. The query fails, the error is logged, and no key is deleted
  after a change of roles or policies. ADR-0007 and `docs/rules/rbac.md` promise explicit
  invalidation. What bounds staleness is the life of the key alone, and
  `RevokedRightsLapse` states that bound.
* A SELECT of the entity's roles or of the role records that fails is taken for no roles
  (`permissionLoader.js:116-119`, `:149-152`), and `authRedis.js:188-194` caches the empty
  canon: one failed read refuses a user everything for the life of a key, 900 s, unless a
  sign-in or a logout replaces it. `CacheSettles` therefore speaks of the time when reads have
  stopped failing, too.
* Ledger. The check of a journal entry tolerates a difference of 0.005 between sums of
  amounts not yet rounded (`docs/rules/accounting.md:29`), and each line is rounded to cents
  when it is stored: debits of 0.335, 0.335 and 0.33 against a credit of 1.00 are accepted and
  booked as 1.01 against 1.00. `BooksBalance` bounds what accumulates.

Further observations from variants of these configurations and from the source
(each is a consequence of the lines named):

* A create may carry `status: posted` or `reversed` (`journalEntriesController.js`);
  such an entry never reaches the balances and can be reversed. The runs of
  `Finalised` use `Births = {"pending"}`.
* A post that races a reversal or a second post moves a status back from
  `reversed` to `posted`; with `OnePerEntry = FALSE`, `StatusForward`,
  `Finalised`, `ReversalExact` and the refinement are all violated.
* Nothing writes `failed` to `posting_queues`: `docs/rules/accounting.md` lists the
  status and `/retry` requires it, but the update is part of the transaction that
  rolls back. Only the generic update route can set it.
* Lines are added by the generic route one at a time: an entry can be posted half
  entered, and `BooksBalance` fails with `"lines" \in Generic`. A post whose entry gets another
  line between its two SELECTs posts that line, too.
* Backfill selects the uncoded records first and writes each by id: a code typed in
  between is overwritten. Two updates that both read `is_enabled = false` both
  backfill. Enabling commits before the backfill: if that fails, numbering stays
  on, the records stay uncoded, and no later update backfills.
* With a yearly reset and `date_mode` none, a type that is not in `ID_TYPE_TABLE`
  (projects) starts every period at 1 and repeats its codes; the runs use
  `Scanned = TRUE`.
* The journal entry of an approval commits before the status. A request cut off
  between them posts it again the next time: hence `PostedOnce` allows one entry
  more per request cut off, and no fewer would hold.
* A memo that covers an invoice still open makes it `paid` without its ever having been
  posted; if that memo is voided, payments book against a liability that was never there
  (`astray`).
* Voiding an applied memo, archiving a payment or editing `total_amount` leaves a
  paid invoice with a balance.
* Two status updates of one budget in flight (an approval and a rejection that both
  read `submitted`) move it along no transition, and may take an approval back that a version
  or a release rests on. `WorkflowsKept` and `Stands` except exactly these writes.
* An update of a budget that carries no status, or that locks it, may edit its other
  columns, also when it is approved or locked; `activities.md` says that such
  budgets cannot be edited. `is_current` and `version` are among these columns.
* A deliverable may be created in any status, `released` included, without a budget.
* A locked budget is as final as an approved one for a new version, and does not
  count for a release.
* A canon may mix the roles of before a change with the policies of after it, and so
  hold a right that no moment granted: `Backed` has an age for each.
* Even with an invalidation that deletes keys, a load that began before the change could
  prime the key after it. The generic routes of policies never invalidate, and neither
  does restoring a role.
* `invalidateByRole` forms the keys from the tenant code as it is in the request, the
  loader from the normalised one.
* `res.body` is not set by Express, so `source_id` of a payment's journal entry is
  always null.

Logins, where requests cross or an import takes part:

* Two bindings of a user archived at once leave a live login with no binding
  (`portalUserCascade.js:34`): each transaction's snapshot has the other's binding.
* A tenant is archived in one transaction and its bindings in the next
  (`tenantsController.js`): a server that stops in between leaves the bindings, and a
  restore then takes the bindings of an older archive. An employee's login is archived
  before the employee, in a transaction of its own (`employeesController.js`).
* Restoring a tenant fails as a whole if the e-mail of one user it would revive has been
  registered again. Restoring a portal user revives every archived binding in a live
  tenant, also one archived for another reason, one whose entity is no longer an app user,
  and one the unique index then refuses.
* `archiveAppUser` (a spreadsheet that clears `is_app_user`) archives the login whatever
  other tenants bind it; `enableAppUser` passes over a vendor contact whose address is
  taken, and the row keeps `is_app_user` without a login.
* `docs/rules/tenants.md:104` says that e-mails are unique over active and archived users;
  the index is over the live ones. `docs/PRD.md:2657` has deactivating an entity lock its
  login; a spreadsheet of tenants, or of vendors with their contacts, archives by raw SQL
  and touches no login. The orphan clean-up can find nothing that the indexes allow.
* Restored users keep `status = 'locked'`; a login refuses them and a refresh does not look.

Tenants:

* `tenantProvisioning.js:49-52` says no active tenant owns the schema it drops. That is
  true of the API; `setupAdmin` and `provisionTenantCli` drop a live tenant's schema.
* `docs/rules/tenants.md:12` calls creation a three-step atomic operation. A failure of step
  3 leaves an open tenant without an administrator; one of step 2 leaves its code, company
  and schema name taken, so that it cannot be tried again over the API. Restoring it
  reopens a tenant without tables.
* Of two creations at once the second fails on the migrator's advisory lock, which does not
  wait, and is compensated.
* A tenant archived while it is being created gets its administrator's binding afterwards.
* Setup that finds no root login, because `ROOT_EMAIL` is unset or its login or tenant is
  archived, logs a warning and reports success (`seedRootEntity.js:34-52`).

The client (the list `Unfollowed`, and what lies outside of the model):

* No hook invalidates reports; portal users, when people, vendors, e-mails or passwords
  change or orphans are cleaned up; addresses, tax identifiers, e-mails and phone numbers
  after an import; e-mails after people are kept; grants after a field group is archived;
  journal entries after payables and receivables book; schemas after a tenant is renamed;
  vendor contacts after a vendor is archived or restored.
* A query's first answer may have been asked for before a change of tenant: TanStack Query
  joins it instead of asking again, and the old tenant's rows count as fresh.
* Logging in or out and starting or ending an impersonation do not clear the cache.
* An importer that ignores the preview flag writes on a preview (`BaseController.js`
  says so of itself).
* `/reports/pnl` and `/reports/balance-sheet` are linked from the navigation and have no
  page; `/projects/detail` and `/projects/profitability` match `/projects/:id`.
  `ApInvoicesPage` uses a component it does not import.
* Updating a catalog or vendor SKU keeps its old embedding, and matching writes a match
  without looking again at whether the catalog SKU is still live. The profitability view
  counts an invoice once for each of its receipts.

## 5. What is proved

`GeneralLedgerProofs`, for all accounts, dates, entries, requests and line sets:

* `TypeCorrect`: `Spec => []TypeOK`, by a lemma per group of actions.
* `RequestsOwnTheirEntry`: `Spec => []IInv`, assuming `Exclusive`: one request per
  entry in flight, and no route that writes an entry's status by hand. Lines may be
  edited at any moment, queue rows written, entries born posted. `Finalised` is
  not inductive: a post that commits must still find its entry pending, and a reversal
  its entry posted and unreversed. `IInv` adds what every running request knows: the
  entry it names has the status its operation needs, no other request names it,
  and the id of a correction is drawn by nobody else.
* From it `PostedOnce` (`AppliedOnce`, which `LedgerDoublePost` shows violated without
  `Exclusive`) and `StatusOnlyForward`; and `FinalisedOnce`, if entries are born pending as well.
* `Refines`: `Spec => AbstractSpec`, assuming `Restricted`, which adds to `Exclusive` that
  entries are born pending and that no route edits lines: an edit between the reading of
  the lines and the commit makes the entry differ from what was booked. There is a lemma for
  each of the steps that map to *Enter*, *Book* and *Undo* and one for the steps that
  stutter; that the lines a request read are still the entry's is the part of `LInv`
  (below) it needs.
* `ReversedOnce` (`ReversalExact`) is proved of the abstract steps: the corrections of an
  entry are none until *Undo* adds the one, which no later step can take away, and the
  refinement carries it to the code.
* `LinesStay`: `Spec => []LInv`, assuming only `NoLineEdits`, that no generic route writes
  the lines of an entry: requests overlap on an entry and statuses are written by hand, as
  in `LedgerConcurrent`. From it follow `BooksStayBalanced` (`BooksBalance`) and `LedgerIsSum`
  (`LedgerIsSumOfPostings`): an entry can be posted twice there, and the ledger is still
  the sum of what was posted, since every post that commits adds the whole of its lines. That
  these add up to nothing is not so: the check lets half a cent pass before the
  amounts are rounded, and rounding adds up to half a cent a line. `Near` carries this from
  the request to the stored lines, and the theorem from there to the books.
* A sum over a function is a fold over its domain. `SumUnfold` takes one element off it, and
  `SumChange`, `PostingSum` and `FlippedSum` say what a changed summand, a set of lines and
  a mirrored one do to a sum. They go through the subsets of the domain: the family of those
  for which the claim holds has the empty one and grows by any element, so it has
  them all. The invariants then only add the difference that a step makes.
* `QueueTellsTheTruth` (`QueueAgrees`), assuming only that `queue_status` is not written
  by hand.
* `NobodyHangs` and `RequestsComeNearer`, assuming nothing: what `RequestsEnd` rests on besides
  fairness. `LockInv` says that a lock is held by a running request, which is past the
  statement that would wait for it. So whoever a running request waits for, through
  however many others, one of them can take its next step, if only because it is in the
  cycle that PostgreSQL aborts (`NeverStuck`; `Able` writes out the guards of `Progress`, since
  ENABLED is out of the prover's reach). Each step of a request lowers its stage, or
  at one stage the set of accounts still to update, and no step of another one
  changes it (`OnlyNearer`).

`NumberingProofs`, for any number of requests, records, periods and serials:

* `TypeCorrect`.
* `SequencesAreOwned`: `Spec => []SInv`. Who holds uncommitted serials of a period
  owns its sequence row, holds the committed `last_serial` extended without a gap,
  and nobody else holds any of the period.
* `NoGaps` (`Gapless`) and `NoSerialTwice` (`SerialsFresh`) follow from it: the
  committed serials of a period are an interval that ends at `last_serial`, and an
  uncommitted one is above all of them.
* `OnlyTypedCollide` (`CollidesOnlyWithTyped`), assuming `Distinct`: the codes carry
  their period, or there is one period only. `CodesInv` follows a code from the serial it
  was made of through the batch and the staged rows to the table, so that a code
  in use that nobody typed comes from a serial issued before, which `SInv` says the next one
  exceeds.

`SettlementProofs`, for any total, amounts, memos and requests, which overlap as they like;
nothing is assumed beyond the constants, and what overlapping does is in the properties:

* `TypeCorrect`.
* `EntersOnce` (`PostedOnce`). Requests on their way to enter the invoice count with the entries
  made (`Entered`), and as long as the status is open each entry belongs to a request still to
  write it, or to one that was cut off.
* `OwesTheRest` (`LiabilityAgrees`) and `SettledGetsPaid` (`SettledIsPaid`). Payments may
  overlap, also when they overpay the invoice together. The ledger then owes
  the amounts of all payments recorded and not yet booked (`Owed`). The invariant asks for a
  function on the sets of processes that adds them up (`Sums`), which a step changes by
  what its own process has to book, so that neither a fold over the processes nor an induction
  over them is needed.
* `NeverOverpaid` (`NoOverpayment`). A payment is inserted some statements
  after its check of the remaining balance, so the invariant keeps room for each one in
  flight (`Fits`); with one at a time the bound is the total.
* `StatusMoves` (`WorkflowKept`): what a request checked is still true when it writes, unless
  another's update of the status has overtaken it. The invariant says this of the
  requests not in `overtaken` (`Checked`).
* What the applied memos are worth is the constant `CreditOf`, the sum over a set given by
  its two equations (`SettlementConstants`), as SQL's `SUM` is to the code.

`BudgetsProofs`, for any number of deliverables, activities, requests and budgets:

* `TypeCorrect`, and `LatestCurrent` (`LatestIsCurrent`), which need no restriction:
  a version loses `is_current` in the transaction that inserts a later one.
* `RequestsKnow`, the inductive invariant of the rest, with any number of updates of one
  record: the move a status update will write is a transition from the status it has read, the
  budget whose next version is being made was approved, and so was one of a release past its
  check; only a write over a status not read can have taken that back. It is needed because
  `VersionsGrowFromApproved` and `ReleaseRestsOnApproval` are broken by a *write*, long after
  the read that allowed it.
* `VersionsGrow`, `ReleasesRest` and `StatusesMove` follow from it.

`PermissionCacheProofs`, for any number of users, roles, rights and requests, any life of
keys and tokens, and any `MaxFlight`:

* `TypeCorrect`.
* `ReadsAreRecent`: `Spec => []IInv`. `RevokedRightsLapse` is about the request that is
  served, but the right it is served with was read by another one, long gone, and has been
  in a key since. `IInv` says of a key with `left` ticks that its rights were held at most
  `TTL - left + MaxFlight` ticks ago, and of each request that what it carries was held
  since it began, or, read from a key, at most a key's life before. `Tick` makes every one
  of these ages and bounds grow together.
* `RevocationsLapse` (`RevokedRightsLapse`) and `TokensAreFresh` (`SignInsAreFresh`) follow.
* `StaleRunsOut`: what `CacheSettles` rests on besides fairness. What is out of date, the empty
  canon of a failed read included, has a deadline: a key or a token when it expires; what a request carries, a life after
  the request must be over, since it may still end up in a key or a token. `Within(n)`
  says that every deadline is at most `n` ticks away. It holds of a request's time and a life in
  every state, is kept by each step that changes no role, code or policy and in which no read fails,
  and drops by one with each tick; at zero all agrees. The bound is a number of ticks, where `CacheSettles`
  only says that the day will come.

`LoginsProofs`, for any tenants, entities, addresses and requests at once, and any start
that `StartAssumption` describes (rows that were only ever created):

* `TypeCorrect`. `TInv` adds what a request has read of the rows it will write, that
  stamps are not used twice (`Past`), and that rows archived with one stamp can be live
  together (`Together`): a transaction that archives several rows found them live under the
  unique indexes. `CohortsFit` (`CohortFits`) rests on it.
* `DoorsStayOpen` (`DoorsOpen`) and `NobodyStrays` (`NoStrayUsers`), by `HInv`, about the
  users and tenants that are not in `crossed`. `Kept` is the promise: such a user is live
  exactly when it has a live binding. The reads that a write relies on are statements old,
  so `Decided` says that what a request has decided about its user is still
  so when it writes; `Alone` that no request works in an archived tenant; `Closed` that a
  live binding in an archived tenant has an archive under way that will find it. Why
  they hold is in each case the same: had another request changed what this one read,
  the two would share a user or a tenant, and `Cross` would have put it into `crossed`. The
  lemma `HistoryStep` says this once, for every action, of the rows it writes and those it
  leaves; each action has a lemma of its own that shows what it writes.
* `RoundTrip` (`TenantRoundTrip`, an action property). A restore finds the bindings to bring
  back by their stamp alone. `Taken` says that of a tenant which is archived and not crossed the
  stamp of the archive under way is later than all stamps of its rows, and that afterwards the
  newest cohort is what the archive took. `Spares` is what all other steps have in common:
  they archive and restore bindings of live or of crossed tenants only.

`DeploymentProofs`, for any tenants, processes, releases and incarnations of a schema:

* `Typed`: with one process at most between the migrator's lock and its commit.
* `Complete` (`LiveIsWhole`) and `Rebuilds` (`Rebuilt`) follow from an invariant of four
  parts. `Phase` says what each statement of `provisionTenant` leaves for the next one, the
  history empty before the schema is created and equal to its tables from then on; it needs
  `Sole`, that one process provisions a tenant. `Locked` says that what the migrator read is
  still so when it commits, whoever else migrates or drops. `Rest` says what a process that
  ends hands over to the tenant, with the scars of those that do not end well, and `Closed`
  that a creation undone stays closed until somebody restores it. One lemma per action
  shows that it keeps the parts for its process and its tenant; two lemmas show that the
  other processes and tenants do not notice.

`WebClientProofs`, for any set of queries, tenants, slots and writes:

* `Typed`.
* `FreshWhenFollowed`: if the hooks invalidate what mutations write but for the listed
  exceptions (`Followed`), then `BelievedFresh`. The invariant has to look at a query that
  is *not* at rest: what its request will bring unless it was crossed (`FetchGood`), what
  the cached answer is worth while nothing has invalidated it (`DataGood`), and that a page
  that shows the query asks for what is missing or invalid (`Asking`).

`Followed` is a statement about the tables, which the `WebClient` run evaluates; so is
`Reached`, which is left to TLC: in general it says no more than what it assumes.

The assumptions are those in the modules' `ASSUME`s, which TLC evaluates in every run
(the accounts, dates and entries of `GeneralLedger` are finite, `CreditOf` adds up, `Logins`
starts with rows that were only created, and the like), and
`Exclusive`, `Restricted`, `NoLineEdits`, `Distinct` and `Followed` where they are stated.

Checked by TLC only: `Reached`, and `RequestsEnd` and `CacheSettles`, which are liveness; of
each of these two the part that needs no fairness is proved, with the measure that falls. `SwitchRefetches` and the
property of `LedgerDoublePost` are violated, as these runs expect.

## 6. Not modelled

Soft deletion (archive, restore) of ledger and settlement rows, bulk routes,
intercompany entries (no caller), numbering scopes and increments other than 1,
invoices created in a later status. Of permissions: more than one tenant,
impersonation, scopes, state filters and field groups, and the client's answer to
`X-Token-Stale`. Of logins: passwords and their policy, the `status` column, the tenant's
rows of e-mails beside the one of the login, and the many rows of a spreadsheet (one is
modelled). Of provisioning: dry runs, `schema_name` edited by hand, the planner's order of
tables, and what the seeds contain.

Of cost lines, actual costs, projects, the bill of materials, reports and the rest of the
core entities, the tables say what their handlers touch, how they are reached and which
pages show them; the statuses of their rows, the similarity search over an external
service, and the arithmetic of the report views are left out. So are the forms of the
client, its session state and the parsing of spreadsheets. The shared package is helpers.

## 7. Plan

1. *done* - `GeneralLedger`, `Numbering`, `Settlement`, `Budgets`, `PermissionCache`,
   `Logins`, `Deployment`, and the client with its tables.
2. `Sessions`: lock, password change and impersonation, composed with `PermissionCache` and
   `Logins`: what an archived or locked login can still do, and for how long.
3. `Books`: `Settlement` composed with `GeneralLedger`, so that the liability is the
   balance of posted entries, and with soft deletion.
4. Proofs: every safety property of the passing runs but `Reached` is a theorem. Next are those of `Sessions` and
   `Books`.
5. Runs: `Settlement` is to become a run of `Books`.
