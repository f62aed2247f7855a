----------------------------- MODULE Numbering -----------------------------
(***************************************************************************)
(* Serial numbers for the records of one id type (employees, vendors, ...) *)
(* of one tenant: system/core/services/numberingService.js and the three   *)
(* places that call it inside a transaction - a create, a spreadsheet      *)
(* import and the backfill when numbering is enabled.                      *)
(*                                                                         *)
(* Every statement of a transaction sees what had committed when it began, *)
(* plus the transaction's own writes.  The sequence row of a period is     *)
(* locked by SELECT ... FOR UPDATE, but the first allocation of a period   *)
(* finds no row to lock: it scans the codes in use and inserts the row.    *)
(***************************************************************************)
EXTENDS Integers, FiniteSets

CONSTANTS
    Procs, NoProc,
    LastPeriod,     \* bound: periods (years, months or days) the clock goes through
    MaxRows,        \* bound: records ever inserted
    MaxSerial,      \* bound: serials ever allocated in a period
    NoCode,         \* a NULL code
    TypedCodes,     \* codes a user may enter by hand; NoCode clears one
    Dated,          \* date_mode # none: the code shows its period
    Scanned,        \* the id type has an entry in ID_TYPE_TABLE
    BatchSizes      \* how many uncoded records one request inserts

Periods == 1..LastPeriod
RowIds == 1..MaxRows
Codes == (0..LastPeriod) \X Nat

ASSUME NumberingConstants ==
    /\ NoProc \notin Procs /\ NoCode \notin Codes
    /\ LastPeriod \in Nat \ {0} /\ MaxRows \in Nat /\ MaxSerial \in Nat
    /\ TypedCodes \subseteq Codes \cup {NoCode}
    /\ Dated \in BOOLEAN /\ Scanned \in BOOLEAN
    /\ BatchSizes \subseteq RowIds

VARIABLES
    period,     \* the period of the current date
    enabled,    \* tenant_numbering_config.is_enabled
    seq,        \* last_serial of a period's committed sequence row, 0: no row
    seqLock,    \* who locked it, or inserted it without having committed yet
    rows,       \* the records: committed or not, and the committed code
    born,       \* records inserted so far, in created_at order
    tx,         \* what each process is executing
    issued,     \* history: the serials of a period that committed
    typed       \* history: the codes users entered

vars == <<period, enabled, seq, seqLock, rows, born, tx, issued, typed>>

NoSerials == [k \in Periods |-> 0]
NoneStaged == [r \in RowIds |-> NoCode]
Idle == [pc |-> "idle", op |-> "none", new |-> {}, todo |-> {}, batch |-> {}, k |-> 1,
         first |-> 1, last |-> NoSerials, staged |-> NoneStaged, nums |-> {}]

RowSets == SUBSET RowIds
LastSerials == [Periods -> Nat]
StagedCodes == [RowIds -> Codes \cup {NoCode}]
Allocations == SUBSET (Periods \X Nat)

\* last, staged and nums are the transaction's own writes: the sequence rows,
\* the codes, and the serials it allocated.
TxRecord ==
    [pc : {"idle", "config", "lock", "insert", "assign", "commit", "enable", "rows"},
     op : {"none", "insert", "enable"},
     new : RowSets, todo : RowSets, batch : RowSets, k : Periods, first : Nat \ {0},
     last : LastSerials, staged : StagedCodes, nums : Allocations]

TypeOK ==
    /\ period \in Periods /\ enabled \in BOOLEAN /\ born \in 0..MaxRows
    /\ seq \in LastSerials /\ seqLock \in [Periods -> Procs \cup {NoProc}]
    /\ rows \in [RowIds -> [shown : BOOLEAN, code : Codes \cup {NoCode}]]
    /\ tx \in [Procs -> TxRecord]
    /\ issued \in [Periods -> SUBSET Nat] /\ typed \subseteq Codes

Init ==
    /\ period = 1 /\ enabled = FALSE /\ born = 0
    /\ seq = NoSerials /\ seqLock = [k \in Periods |-> NoProc]
    /\ rows = [r \in RowIds |-> [shown |-> FALSE, code |-> NoCode]]
    /\ tx = [p \in Procs |-> Idle]
    /\ issued = [k \in Periods |-> {}] /\ typed = {}

-----------------------------------------------------------------------------

\* buildDisplayId: the format is the same for all, so period and serial tell codes apart.
CodeOf(k, n) == <<IF Dated THEN k ELSE 0, n>>

\* The code of r as p's statements see it.
SeenCode(p, r) ==
    IF tx[p].staged[r] # NoCode THEN tx[p].staged[r]
    ELSE IF rows[r].shown THEN rows[r].code ELSE NoCode

\* _findMaxExistingSerial finds n: the highest serial among the codes p sees, or 0.
MaxExisting(p, k, n) ==
    LET used == {m \in 1..MaxSerial : \E r \in RowIds : SeenCode(p, r) = CodeOf(k, m)} IN
    IF Scanned THEN n \in used \cup {0} /\ \A m \in used : m <= n ELSE n = 0

EndTx(p) ==
    /\ tx' = [tx EXCEPT ![p] = Idle]
    /\ seqLock' = [k \in Periods |-> IF seqLock[k] = p THEN NoProc ELSE seqLock[k]]

\* Another transaction has written r, or has written or overwritten code c:
\* who wants to write either waits for it.
Contended(p, r, c) ==
    \E q \in Procs \ {p}, x \in RowIds :
        /\ tx[q].staged[x] # NoCode
        /\ x = r \/ (c # NoCode /\ c \in {tx[q].staged[x], rows[x].code})

\* The unique constraint on (tenant_id, code).
Taken(p, r, c) == c # NoCode /\ \E x \in RowIds \ {r} : SeenCode(p, x) = c

-----------------------------------------------------------------------------
(* A record is inserted: with a code, or without one and then numbered.    *)

InsertTyped(p, c) ==
    LET r == born + 1 IN
    /\ tx[p].pc = "idle" /\ r \in RowIds /\ c # NoCode
    /\ ~Contended(p, r, c) /\ ~Taken(p, r, c)
    /\ born' = r
    /\ tx' = [tx EXCEPT ![p] = [Idle EXCEPT !.pc = "commit", !.op = "insert", !.new = {r},
                                            !.staged = [NoneStaged EXCEPT ![r] = c]]]
    /\ typed' = typed \cup {c}
    /\ UNCHANGED <<period, enabled, seq, seqLock, rows, issued>>

\* n records without a code: one for a create, the rows of a sheet for an import.
InsertUncoded(p, n) ==
    LET new == born + 1 .. born + n IN
    /\ tx[p].pc = "idle" /\ new \subseteq RowIds
    /\ born' = born + n
    /\ tx' = [tx EXCEPT ![p] = [Idle EXCEPT !.pc = "config", !.op = "insert", !.new = new,
                                            !.todo = new, !.batch = new]]
    /\ UNCHANGED <<period, enabled, seq, seqLock, rows, issued, typed>>

-----------------------------------------------------------------------------
(* allocateNumber and allocateNumbers.                                     *)

\* Go on with the rest of a backfill, one record at a time, or commit.
After(t) ==
    LET rest == t.todo \ t.batch IN
    [t EXCEPT !.todo = rest,
              !.batch = {r \in rest : \A x \in rest : r <= x},
              !.pc = IF rest = {} THEN "commit" ELSE "config"]

ReadConfig(p) ==
    /\ tx[p].pc = "config"
    /\ tx' = [tx EXCEPT ![p] = IF enabled THEN [tx[p] EXCEPT !.k = period, !.pc = "lock"]
                               ELSE After(tx[p])]
    /\ UNCHANGED <<period, enabled, seq, seqLock, rows, born, issued, typed>>

AdvancedFromLast(t, n) ==
    LET m == n + Cardinality(t.batch) IN
    [t EXCEPT !.first = n, !.last[t.k] = m, !.pc = "assign",
              !.nums = @ \cup ({t.k} \X (n .. m))]

\* t with the serials above n allocated to its batch.
Advanced(t, n) ==
    LET m == n + Cardinality(t.batch) IN
    [t EXCEPT !.first = n + 1, !.last[t.k] = m, !.pc = "assign",
              !.nums = @ \cup ({t.k} \X (n + 1 .. m))]

FitsBound(t, n) == n + Cardinality(t.batch) <= MaxSerial

AdvanceUnlocked(p) ==
    LET t == tx[p]  k == t.k
        n == IF t.last[k] > 0 THEN t.last[k] ELSE seq[k]
    IN
    /\ t.pc = "lock" /\ n > 0 /\ FitsBound(t, n)
    /\ tx' = [tx EXCEPT ![p] = Advanced(@, n)]
    /\ UNCHANGED <<period, enabled, seq, seqLock, rows, born, issued, typed>>

\* SELECT ... FOR UPDATE finds the sequence row, its own or a committed one,
\* and the UPDATE advances it.
Advance(p) ==
    LET t == tx[p]  k == t.k
        n == IF t.last[k] > 0 THEN t.last[k] ELSE seq[k]
    IN
    /\ t.pc = "lock" /\ n > 0 /\ seqLock[k] \in {p, NoProc} /\ FitsBound(t, n)
    /\ seqLock' = [seqLock EXCEPT ![k] = p]
    /\ tx' = [tx EXCEPT ![p] = Advanced(@, n)]
    /\ UNCHANGED <<period, enabled, seq, rows, born, issued, typed>>

\* It finds none: start above the highest serial in use.
ScanCodes(p) ==
    LET t == tx[p] IN
    /\ t.pc = "lock" /\ seq[t.k] = 0 /\ t.last[t.k] = 0
    /\ \E n \in 0..MaxSerial :
          /\ MaxExisting(p, t.k, n) /\ FitsBound(t, n)
          /\ tx' = [tx EXCEPT ![p].first = n + 1, ![p].pc = "insert"]
    /\ UNCHANGED <<period, enabled, seq, seqLock, rows, born, issued, typed>>

\* The INSERT waits for another's uncommitted row of the same period...
InsertSequence(p) ==
    LET k == tx[p].k IN
    /\ tx[p].pc = "insert" /\ seqLock[k] = NoProc /\ seq[k] = 0
    /\ seqLock' = [seqLock EXCEPT ![k] = p]
    /\ tx' = [tx EXCEPT ![p] = Advanced(@, tx[p].first - 1)]
    /\ UNCHANGED <<period, enabled, seq, rows, born, issued, typed>>

\* ... and fails if that one has committed.
InsertSequenceRefused(p) ==
    /\ tx[p].pc = "insert" /\ seq[tx[p].k] > 0
    /\ EndTx(p)
    /\ UNCHANGED <<period, enabled, seq, rows, born, issued, typed>>

\* The code the batch's record r gets.
NewCode(t, r) == CodeOf(t.k, t.first + Cardinality({x \in t.batch : x < r}))

Collides(p) == \E r \in tx[p].batch : Taken(p, r, NewCode(tx[p], r))

Assigned(t) ==
    [t EXCEPT !.staged = [r \in RowIds |-> IF r \in t.batch THEN NewCode(t, r) ELSE t.staged[r]]]

\* UPDATE ... SET code WHERE id: nothing looks at the code the record has by now.
AssignCodes(p) ==
    LET t == tx[p] IN
    /\ t.pc = "assign" /\ ~Collides(p)
    /\ \A r \in t.batch : ~Contended(p, r, NewCode(t, r))
    /\ tx' = [tx EXCEPT ![p] = After(Assigned(t))]
    /\ UNCHANGED <<period, enabled, seq, seqLock, rows, born, issued, typed>>

AssignRefused(p) ==
    /\ tx[p].pc = "assign" /\ Collides(p)
    /\ \A r \in tx[p].batch : ~Contended(p, r, NewCode(tx[p], r))
    /\ EndTx(p)
    /\ UNCHANGED <<period, enabled, seq, rows, born, issued, typed>>

\* The sequence rows once t's have become visible.
SeqWith(t) == [k \in Periods |-> IF t.last[k] > 0 THEN t.last[k] ELSE seq[k]]

Commit(p) ==
    LET t == tx[p] IN
    /\ t.pc = "commit"
    /\ seq' = SeqWith(t)
    /\ issued' = [k \in Periods |-> issued[k] \cup {n \in 1..t.last[k] : <<k, n>> \in t.nums}]
    /\ rows' = [r \in RowIds |->
                  [shown |-> rows[r].shown \/ r \in t.new,
                   code |-> IF t.staged[r] # NoCode THEN t.staged[r] ELSE rows[r].code]]
    /\ EndTx(p)
    /\ UNCHANGED <<period, enabled, born, typed>>

AbortKeepingSerials(p) ==
    /\ tx[p].pc # "idle"
    /\ seq' = SeqWith(tx[p])
    /\ EndTx(p)
    /\ UNCHANGED <<period, enabled, rows, born, issued, typed>>

\* Any failure before COMMIT: another insert of the create fails, the
\* connection is lost, the server stops.
Abort(p) ==
    /\ tx[p].pc # "idle"
    /\ EndTx(p)
    /\ UNCHANGED <<period, enabled, seq, rows, born, issued, typed>>

-----------------------------------------------------------------------------
(* The configuration, and the records' own update route.                   *)

\* update() of numberingConfigController: read is_enabled, ...
EnableRead(p) ==
    /\ tx[p].pc = "idle" /\ ~enabled
    /\ tx' = [tx EXCEPT ![p] = [Idle EXCEPT !.pc = "enable", !.op = "enable"]]
    /\ UNCHANGED <<period, enabled, seq, seqLock, rows, born, issued, typed>>

\* ... write it, committed at once, ...
EnableWrite(p) ==
    /\ tx[p].pc = "enable"
    /\ enabled' = TRUE
    /\ tx' = [tx EXCEPT ![p].pc = "rows"]
    /\ UNCHANGED <<period, seq, seqLock, rows, born, issued, typed>>

\* ... and, in a transaction, backfill the records without a code.
SelectUncoded(p) ==
    LET uncoded == {r \in RowIds : rows[r].shown /\ rows[r].code = NoCode} IN
    /\ tx[p].pc = "rows"
    /\ tx' = [tx EXCEPT ![p] = After([tx[p] EXCEPT !.todo = uncoded])]
    /\ UNCHANGED <<period, enabled, seq, seqLock, rows, born, issued, typed>>

Disable ==
    /\ enabled /\ enabled' = FALSE
    /\ UNCHANGED <<period, seq, seqLock, rows, born, tx, issued, typed>>

\* PUT /update with a code: one statement, committed at once.
TypeCode(r, c) ==
    /\ rows[r].shown /\ rows[r].code # c
    /\ \A p \in Procs : tx[p].staged[r] = NoCode
    /\ c # NoCode => \A x \in RowIds \ {r} :
          /\ rows[x].code # c
          /\ \A p \in Procs : tx[p].staged[x] # c
    /\ rows' = [rows EXCEPT ![r].code = c]
    /\ typed' = typed \cup ({c} \ {NoCode})
    /\ UNCHANGED <<period, enabled, seq, seqLock, born, tx, issued>>

Tick ==
    /\ period < LastPeriod /\ period' = period + 1
    /\ UNCHANGED <<enabled, seq, seqLock, rows, born, tx, issued, typed>>

-----------------------------------------------------------------------------

Allocate(p) ==
    \/ ReadConfig(p) \/ Advance(p)
    \/ ScanCodes(p) \/ InsertSequence(p) \/ InsertSequenceRefused(p)
    \/ AssignCodes(p) \/ AssignRefused(p)

Request(p) ==
    \/ \E c \in TypedCodes : InsertTyped(p, c)
    \/ \E n \in BatchSizes : InsertUncoded(p, n)
    \/ EnableRead(p) \/ EnableWrite(p) \/ SelectUncoded(p)

Next ==
    \/ \E p \in Procs : Request(p) \/ Allocate(p) \/ Commit(p) \/ Abort(p)
    \/ \E r \in RowIds, c \in TypedCodes : TypeCode(r, c)
    \/ Disable \/ Tick

Spec == Init /\ [][Next]_vars

-----------------------------------------------------------------------------
(* Properties.                                                             *)

\* A serial is never issued twice, not even after the record it was issued to
\* got another code: what a transaction holds is above all that committed and
\* no other transaction holds it (allocateNumber's row lock).
SerialsFresh ==
    \A p \in Procs : \A x \in tx[p].nums :
        /\ \A m \in issued[x[1]] : m < x[2]
        /\ \A q \in Procs \ {p} : x \notin tx[q].nums

\* The serials of a period leave no gap: a create, import or backfill that
\* rolls back gives its serials back.
Gapless ==
    \A k \in Periods :
        IF seq[k] = 0 THEN issued[k] = {}
        ELSE \E lo \in 1..seq[k] : issued[k] = lo..seq[k]

\* The next code can only be in use because a user typed it: two allocations
\* never meet, whichever of create, import and backfill they serve.
CollidesOnlyWithTyped ==
    \A p \in Procs : tx[p].pc = "assign" =>
        \A r \in tx[p].batch :
            Taken(p, r, NewCode(tx[p], r)) => NewCode(tx[p], r) \in typed

=============================================================================
