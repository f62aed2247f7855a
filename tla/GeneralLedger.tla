--------------------------- MODULE GeneralLedger ---------------------------
(***************************************************************************)
(* The general ledger of one tenant: journal entries with their lines, the *)
(* posting queue and the running balances, as written by                   *)
(* accounting/services/postingService.js and by the routes that call it.   *)
(*                                                                         *)
(* A request that posts or reverses is a READ COMMITTED transaction that   *)
(* reads the entry with a plain SELECT, so the status it acts on may be    *)
(* stale when it writes.  Its writes become visible together when it       *)
(* commits; until then it owns the rows it wrote (rowLock, entryLock) and  *)
(* every other writer of these rows waits.                                 *)
(*                                                                         *)
(* A create request carries signed amounts (debits positive) in tenths of  *)
(* a cent; what is stored is abstracted to the net (debit - credit) of an  *)
(* account, in whole cents.                                                *)
(***************************************************************************)
EXTENDS Integers, FiniteSets, Functions, Sequences

CONSTANTS
    Accounts,       \* chart of accounts
    Dates, Today,   \* entry dates, and the date a reversal is booked on
    Entries,        \* journal entry ids; bounds how many are ever created
    Procs,          \* concurrent requests
    NoProc, NoEntry,
    Amounts,        \* nets an account may have in an entry, in cents
    LineSets,       \* line arrays a create request may carry
    MaxLines,       \* bound: amounts of a request
    Births,         \* the statuses a create request may carry
    Generic,        \* generic CRUD routes in use: see GenericWrites
    OnePerEntry,    \* TRUE: no two requests in flight name the same entry
    MaxReopened     \* bound: an entry posted this often is not set back to pending

Statuses == {"pending", "posted", "reversed"}
GenericWrites == {"lines", "entry_status", "queue_status"}
Rows == Accounts \X Dates
Lines == UNION {[A -> Amounts] : A \in SUBSET Accounts}

\* numeric(12,2): to the nearest cent, halves away from zero.
Rounded(n) == IF n >= 0 THEN (n + 5) \div 10 ELSE -((5 - n) \div 10)

\* What the inserts of the lines r leave of each account they name.
Stored(r) ==
    [a \in {r[i].account : i \in DOMAIN r} |->
        SumFunction([i \in DOMAIN r |-> IF r[i].account = a THEN Rounded(r[i].amount) ELSE 0])]

ASSUME LedgerConstants ==
    /\ Today \in Dates
    /\ IsFiniteSet(Accounts) /\ IsFiniteSet(Dates) /\ IsFiniteSet(Entries)
    /\ NoProc \notin Procs /\ NoEntry \notin Entries
    /\ Amounts \subseteq Int /\ \A n \in Amounts : -n \in Amounts
    /\ LineSets \subseteq Seq([account : Accounts, amount : Int]) /\ MaxLines \in Nat
    /\ \A r \in LineSets : Stored(r) \in Lines /\ Len(r) <= MaxLines
    /\ Births \subseteq Statuses
    /\ Generic \subseteq GenericWrites
    /\ OnePerEntry \in BOOLEAN /\ MaxReopened \in Nat

VARIABLES
    entry,      \* journal_entries with their journal_entry_lines
    queue,      \* the posting_queues row of an entry
    ledger,     \* ledger_balances, one row per account and date
    tx,         \* the request each process is executing
    rowLock,    \* owner of a ledger_balances row
    entryLock,  \* owner of a journal_entries row
    applied     \* history: how often an entry's lines reached the ledger

vars == <<entry, queue, ledger, tx, rowLock, entryLock, applied>>

NoLines == [a \in {} |-> 0]
Absent == [status |-> "absent", lines |-> NoLines, date |-> Today, corrects |-> NoEntry]
Idle == [pc |-> "idle", op |-> "none", id |-> NoEntry, lines |-> NoLines,
         todo |-> {}, corr |-> NoEntry]

TxRecord == [pc : {"idle", "select", "lines", "upsert", "mark", "commit"},
             op : {"none", "post", "reverse"}, id : Entries \cup {NoEntry},
             lines : Lines, todo : SUBSET Accounts, corr : Entries \cup {NoEntry}]

TxOK ==
    /\ tx \in [Procs -> TxRecord]
    /\ \A p \in Procs :
          IF tx[p].pc = "idle" THEN tx[p] = Idle
          ELSE /\ tx[p].id \in Entries
               /\ tx[p].op = "post" \/ (tx[p].op = "reverse" /\ tx[p].corr \in Entries)

EntryRecord == [status : Statuses \cup {"absent"}, lines : Lines,
                date : Dates, corrects : Entries \cup {NoEntry}]

TypeOK ==
    /\ entry \in [Entries -> EntryRecord]
    /\ queue \in [Entries -> {"none", "pending", "posted", "failed"}]
    /\ ledger \in [Rows -> Int]
    /\ TxOK
    /\ rowLock \in [Rows -> Procs \cup {NoProc}]
    /\ entryLock \in [Entries -> Procs \cup {NoProc}]
    /\ applied \in [Entries -> Nat]

Init ==
    /\ entry = [e \in Entries |-> Absent]
    /\ queue = [e \in Entries |-> "none"]
    /\ ledger = [r \in Rows |-> 0]
    /\ tx = [p \in Procs |-> Idle]
    /\ rowLock = [r \in Rows |-> NoProc]
    /\ entryLock = [e \in Entries |-> NoProc]
    /\ applied = [e \in Entries |-> 0]

-----------------------------------------------------------------------------
(* Operators on lines.                                                     *)

Unchecked(r) == TRUE

\* createJournalEntry's check of the amounts as they came: off by 0.005 at most.
Balanced(r) == SumFunction([i \in DOMAIN r |-> r[i].amount]) \in -5..5
Copied(l) == l
Flipped(l) == [a \in DOMAIN l |-> -l[a]]
Net(l, a) == IF a \in DOMAIN l THEN l[a] ELSE 0

Replaced(b, l, d) ==
    [r \in Rows |-> IF r[2] = d /\ r[1] \in DOMAIN l THEN l[r[1]] ELSE b[r]]

\* The balances after the lines l, dated d, have been added to b.
Added(b, l, d) == [r \in Rows |-> IF r[2] = d THEN b[r] + Net(l, r[1]) ELSE b[r]]

\* Ids no insert has taken, committed or not.
Fresh == {e \in Entries : entry[e].status = "absent" /\ \A p \in Procs : tx[p].corr # e}

MayStart(p, e) ==
    /\ tx[p].pc = "idle"
    /\ OnePerEntry => \A q \in Procs : tx[q].id # e

Released(lock, p) == [x \in DOMAIN lock |-> IF lock[x] = p THEN NoProc ELSE lock[x]]

EndTxKeepingRows(p) ==
    /\ tx' = [tx EXCEPT ![p] = Idle]
    /\ entryLock' = Released(entryLock, p)
    /\ UNCHANGED rowLock

EndTxPcOnly(p) ==
    /\ tx' = [tx EXCEPT ![p].pc = "idle"]
    /\ rowLock' = Released(rowLock, p)
    /\ entryLock' = Released(entryLock, p)

\* The end of p's transaction, committed or rolled back.
EndTx(p) ==
    /\ tx' = [tx EXCEPT ![p] = Idle]
    /\ rowLock' = Released(rowLock, p)
    /\ entryLock' = Released(entryLock, p)

-----------------------------------------------------------------------------
(* Creation.                                                               *)

InsertEntry(e, r, d, s, q) ==
    /\ e \in Fresh
    /\ r # <<>> /\ Balanced(r)
    /\ entry' = [entry EXCEPT ![e] = [status |-> s, lines |-> Stored(r), date |-> d,
                                     corrects |-> NoEntry]]
    /\ queue' = [queue EXCEPT ![e] = q]
    /\ UNCHANGED <<ledger, tx, rowLock, entryLock, applied>>

CreateQueuedAsBorn(e, r, d, s) == InsertEntry(e, r, d, s, s)

\* One transaction of inserts that conflict with nothing: entry, lines, queue row.
CreateJournalEntry(e, r, d, s) == InsertEntry(e, r, d, s, "pending")

\* A create request without lines is a plain insert, with no queue row.
CreateBare(e, d, s) ==
    /\ e \in Fresh
    /\ entry' = [entry EXCEPT ![e] = [Absent EXCEPT !.status = s, !.date = d]]
    /\ UNCHANGED <<queue, ledger, tx, rowLock, entryLock, applied>>

-----------------------------------------------------------------------------
(* Posting and reversing.                                                  *)

OpenPost(p, e) ==
    /\ tx' = [tx EXCEPT ![p] = [Idle EXCEPT !.pc = "lines", !.op = "post", !.id = e]]
    /\ UNCHANGED <<entry, queue, ledger, rowLock, entryLock, applied>>

\* The SELECT of postEntry, with the check on what it read.
PostSelect(p, e) == entry[e].status = "pending" /\ OpenPost(p, e)

Post(p, e) == MayStart(p, e) /\ PostSelect(p, e)

\* POST /retry reads the queue row before postEntry opens its transaction.
Retry(p, e) ==
    /\ MayStart(p, e)
    /\ queue[e] = "failed"
    /\ tx' = [tx EXCEPT ![p] = [Idle EXCEPT !.pc = "select", !.op = "post", !.id = e]]
    /\ UNCHANGED <<entry, queue, ledger, rowLock, entryLock, applied>>

RetrySelect(p) == tx[p].pc = "select" /\ PostSelect(p, tx[p].id)

RetryRefused(p) ==
    /\ tx[p].pc = "select" /\ entry[tx[p].id].status # "pending"
    /\ EndTx(p)
    /\ UNCHANGED <<entry, queue, ledger, applied>>

OpenReverse(p, e, c) ==
    /\ MayStart(p, e)
    /\ entry[e].status # "absent"
    /\ c \in Fresh
    /\ tx' = [tx EXCEPT ![p] = [Idle EXCEPT !.pc = "lines", !.op = "reverse", !.id = e, !.corr = c]]
    /\ UNCHANGED <<entry, queue, ledger, rowLock, entryLock, applied>>

\* The SELECT of reverseEntry; corr is the id its INSERT will draw.
Reverse(p, e, c) == entry[e].status = "posted" /\ OpenReverse(p, e, c)

\* SELECT of the lines: a second statement, hence a second snapshot.
ReadLines(p) ==
    LET l == entry[tx[p].id].lines IN
    /\ tx[p].pc = "lines"
    /\ tx' = [tx EXCEPT ![p].lines = l,
                        ![p].todo = IF tx[p].op = "post" THEN DOMAIN l ELSE {},
                        ![p].pc = IF tx[p].op = "post" /\ DOMAIN l # {} THEN "upsert" ELSE "mark"]
    /\ UNCHANGED <<entry, queue, ledger, rowLock, entryLock, applied>>

\* INSERT ... ON CONFLICT DO UPDATE on one ledger row.  The lines come back
\* in no stated order, so any remaining one may be next.
UpsertBalance(p, a) ==
    LET r == <<a, entry[tx[p].id].date>> IN
    /\ tx[p].pc = "upsert"
    /\ a \in tx[p].todo
    /\ rowLock[r] = NoProc
    /\ rowLock' = [rowLock EXCEPT ![r] = p]
    /\ tx' = [tx EXCEPT ![p].todo = @ \ {a},
                        ![p].pc = IF tx[p].todo = {a} THEN "mark" ELSE "upsert"]
    /\ UNCHANGED <<entry, queue, ledger, entryLock, applied>>

\* UPDATE journal_entries SET status ... WHERE id: waits for the row, then
\* writes whatever the status has become.
MarkEntry(p) ==
    /\ tx[p].pc = "mark"
    /\ entryLock[tx[p].id] = NoProc
    /\ entryLock' = [entryLock EXCEPT ![tx[p].id] = p]
    /\ tx' = [tx EXCEPT ![p].pc = "commit"]
    /\ UNCHANGED <<entry, queue, ledger, rowLock, applied>>

CommitPost(p) ==
    LET e == tx[p].id IN
    /\ tx[p].pc = "commit" /\ tx[p].op = "post"
    /\ ledger' = Added(ledger, tx[p].lines, entry[e].date)
    /\ entry' = [entry EXCEPT ![e].status = "posted"]
    /\ queue' = [queue EXCEPT ![e] = IF @ = "none" THEN "none" ELSE "posted"]
    /\ applied' = [applied EXCEPT ![e] = @ + 1]
    /\ EndTx(p)

CommitCorrectionOnly(p) ==
    /\ tx[p].pc = "commit" /\ tx[p].op = "reverse"
    /\ entry' = [entry EXCEPT ![tx[p].corr] = [status |-> "pending", lines |-> Flipped(tx[p].lines),
                                              date |-> Today, corrects |-> tx[p].id]]
    /\ queue' = [queue EXCEPT ![tx[p].corr] = "pending"]
    /\ EndTx(p)
    /\ UNCHANGED <<ledger, applied>>

CommitReverse(p) ==
    LET e == tx[p].id  c == tx[p].corr IN
    /\ tx[p].pc = "commit" /\ tx[p].op = "reverse"
    /\ entry' = [entry EXCEPT
                    ![e].status = "reversed",
                    ![c] = [status |-> "pending", lines |-> Flipped(tx[p].lines),
                            date |-> Today, corrects |-> e]]
    /\ queue' = [queue EXCEPT ![c] = "pending"]
    /\ EndTx(p)
    /\ UNCHANGED <<ledger, applied>>

\* p waits for a row another process owns.
WaitsFor(p, q) ==
    \/ /\ tx[p].pc = "mark"
       /\ entryLock[tx[p].id] = q
    \/ /\ tx[p].pc = "upsert"
       /\ \A a \in tx[p].todo : rowLock[<<a, entry[tx[p].id].date>>] # NoProc
       /\ \E a \in tx[p].todo : rowLock[<<a, entry[tx[p].id].date>>] = q

Deadlocked(p) ==
    \E S \in SUBSET Procs :
        p \in S /\ \A q \in S : \E o \in S \ {q} : WaitsFor(q, o)

\* PostgreSQL aborts a transaction of a wait cycle.
AbortDeadlock(p) ==
    /\ Deadlocked(p)
    /\ EndTx(p)
    /\ UNCHANGED <<entry, queue, ledger, applied>>

\* Any other failure before COMMIT: a failed check, a lost connection.
Abort(p) ==
    /\ tx[p].pc # "idle"
    /\ EndTx(p)
    /\ UNCHANGED <<entry, queue, ledger, applied>>

-----------------------------------------------------------------------------
(* The generic CRUD routes on the same tables.                             *)

\* Add or edit a line: nothing looks at the entry's status.
WriteLine(e, a, n) ==
    /\ "lines" \in Generic
    /\ entry[e].status # "absent"
    /\ entry' = [entry EXCEPT ![e].lines =
                    [b \in DOMAIN @ \cup {a} |-> IF b = a THEN n ELSE @[b]]]
    /\ UNCHANGED <<queue, ledger, tx, rowLock, entryLock, applied>>

\* PUT /journal-entries/update with a status: only the CHECK constraint applies.
WriteEntryStatus(e, s) ==
    /\ "entry_status" \in Generic
    /\ entry[e].status # "absent" /\ entryLock[e] = NoProc
    /\ s = "pending" => applied[e] < MaxReopened
    /\ entry' = [entry EXCEPT ![e].status = s]
    /\ UNCHANGED <<queue, ledger, tx, rowLock, entryLock, applied>>

\* PUT /posting-queues/update: the only writer of 'failed'.
WriteQueueStatus(e, s) ==
    /\ "queue_status" \in Generic
    /\ queue[e] # "none"
    /\ queue' = [queue EXCEPT ![e] = s]
    /\ UNCHANGED <<entry, ledger, tx, rowLock, entryLock, applied>>

-----------------------------------------------------------------------------

Create(e) ==
    \E d \in Dates, s \in Births :
        \/ \E r \in LineSets : CreateJournalEntry(e, r, d, s)
        \/ CreateBare(e, d, s)

Generics(e) ==
    \/ \E a \in Accounts, n \in Amounts : WriteLine(e, a, n)
    \/ \E s \in Statuses : WriteEntryStatus(e, s)
    \/ \E s \in {"pending", "posted", "failed"} : WriteQueueStatus(e, s)

\* What the server and the database do for a request once it has begun.
Progress(p) ==
    \/ RetrySelect(p) \/ RetryRefused(p)
    \/ ReadLines(p)
    \/ \E a \in Accounts : UpsertBalance(p, a)
    \/ MarkEntry(p)
    \/ CommitPost(p)
    \/ CommitReverse(p)
    \/ AbortDeadlock(p)

Request(p) ==
    \/ \E e \in Entries : Post(p, e) \/ Retry(p, e)
    \/ \E e, c \in Entries : Reverse(p, e, c)

Next ==
    \/ \E e \in Entries : Create(e) \/ Generics(e)
    \/ \E p \in Procs : Request(p) \/ Progress(p) \/ Abort(p)

Spec == Init /\ [][Next]_vars

\* A begun request is executed by the event loop and the pool; PostgreSQL
\* queues the waiters of a row in order, hence strong fairness.
FairSpec == Spec /\ \A p \in Procs : SF_vars(Progress(p))

-----------------------------------------------------------------------------
(* Properties.                                                             *)

\* Posted and reversed entries, and no others, are in the ledger, each once:
\* postEntry and reverseEntry keep status and balances in step.
Finalised ==
    \A e \in Entries :
        applied[e] = IF entry[e].status \in {"posted", "reversed"} THEN 1 ELSE 0

\* No entry's lines reach the ledger twice: what postEntry's check that the
\* status is pending is for.  It is not enough when posts of one entry overlap.
AppliedOnce == \A e \in Entries : applied[e] <= 1

\* A balance is the sum of what was posted to it: no increment of postEntry's
\* upserts is lost to another post or kept after a rollback.
LedgerIsSumOfPostings ==
    \A r \in Rows :
        ledger[r] = SumFunction([e \in Entries |->
            IF entry[e].date = r[2] THEN applied[e] * Net(entry[e].lines, r[1]) ELSE 0])

\* Over all accounts and dates debits equal credits but for the half cent that
\* createJournalEntry lets pass in an entry and the half cent that rounding may
\* add in each of its lines: nothing else unbalances the books, through posts
\* (also repeated ones), reversals and rollbacks, as long as no line is edited.
BooksBalance ==
    LET slack == SumFunction(applied) * (MaxLines + 1) IN
    2 * SumFunction(ledger) \in -slack..slack

\* A queue row says posted only of an entry that is in the ledger
\* (postEntry updates both in one transaction).
QueueAgrees == \A e \in Entries : queue[e] = "posted" => applied[e] > 0

\* A reversed entry has exactly one correcting entry, with its lines flipped,
\* and no other entry has one (reverseEntry).
ReversalExact ==
    \A e \in Entries :
        LET corrections == {c \in Entries : entry[c].corrects = e} IN
        /\ Cardinality(corrections) = IF entry[e].status = "reversed" THEN 1 ELSE 0
        /\ \A c \in corrections, a \in Accounts :
               Net(entry[c].lines, a) = -Net(entry[e].lines, a)

\* The life cycle of journalEntriesController: pending -> posted -> reversed.
Forward(s, t) ==
    s = t \/ s = "absent" \/ <<s, t>> \in {<<"pending", "posted">>, <<"posted", "reversed">>}
StatusForward ==
    [][\A e \in Entries : Forward(entry[e].status, entry'[e].status)]_entry

\* The guards of the steps that Progress(p) is made of.
Able(p) ==
    \/ tx[p].pc \in {"select", "lines", "commit"}
    \/ tx[p].pc = "upsert" /\ \E a \in tx[p].todo : rowLock[<<a, entry[tx[p].id].date>>] = NoProc
    \/ tx[p].pc = "mark" /\ entryLock[tx[p].id] = NoProc
    \/ Deadlocked(p)

\* Among the requests that a running one waits for, directly or through others,
\* and itself, one can go on: no row lock outlives its transaction, and every
\* cycle of postEntry's upserts and updates is one PostgreSQL can break.
NeverStuck ==
    \A S \in SUBSET Procs :
        /\ \E p \in S : tx[p].pc # "idle"
        /\ \A q \in S, o \in Procs : WaitsFor(q, o) => o \in S
        => \E q \in S : tx[q].pc # "idle" /\ Able(q)

\* Every request ends: row locks taken in opposite orders are broken up and a
\* waiter gets its row (the transactions of postingService).
RequestsEnd == \A p \in Procs : tx[p].pc # "idle" ~> tx[p].pc = "idle"

\* What accounting promises a reader of the tables.
Abstract == INSTANCE AbstractLedger WITH entry <- entry, ledger <- ledger
AbstractSpec == Abstract!Spec

=============================================================================
