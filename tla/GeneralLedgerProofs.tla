------------------------ MODULE GeneralLedgerProofs ------------------------
(***************************************************************************)
(* Proofs about GeneralLedger.  For every instance: type correctness, and  *)
(* that no request waits for ever.  With one request in flight per entry:  *)
(* every finalised entry is in the ledger exactly once, and the code       *)
(* implements AbstractLedger.  With any number, as long as lines are not   *)
(* edited: the books balance but for the tolerance and rounding.           *)
(***************************************************************************)
EXTENDS GeneralLedger, FiniteSetTheorems, NaturalsInduction, WellFoundedInduction, TLAPS

LEMMA LinesIsFunction ==
    ASSUME NEW l \in Lines PROVE \E A \in SUBSET Accounts : l \in [A -> Amounts]
  BY DEF Lines

LEMMA NetIsInt ==
    ASSUME NEW l \in Lines, NEW a PROVE Net(l, a) \in Int
  <1>1. PICK A \in SUBSET Accounts : l \in [A -> Amounts]
    BY LinesIsFunction
  <1>2. CASE a \in A
    BY <1>1, <1>2, LedgerConstants DEF Net
  <1>3. CASE a \notin A
    BY <1>1, <1>3 DEF Net
  <1>4. QED
    BY <1>2, <1>3

LEMMA FlippedIsLines ==
    ASSUME NEW l \in Lines PROVE Flipped(l) \in Lines
  <1>1. PICK A \in SUBSET Accounts : l \in [A -> Amounts]
    BY LinesIsFunction
  <1>2. \A n \in Amounts : -n \in Amounts
    BY LedgerConstants
  <1>3. Flipped(l) \in [A -> Amounts]
    BY <1>1, <1>2 DEF Flipped
  <1>4. QED
    BY <1>3 DEF Lines

LEMMA NoLinesIsLines == NoLines \in Lines
  <1>1. NoLines \in [{} -> Amounts]
    BY DEF NoLines
  <1>2. QED
    BY <1>1 DEF Lines

LEMMA AddedIsLedger ==
    ASSUME NEW b \in [Rows -> Int], NEW l \in Lines, NEW d
    PROVE  Added(b, l, d) \in [Rows -> Int]
  <1>1. ASSUME NEW r \in Rows
        PROVE  (IF r[2] = d THEN b[r] + Net(l, r[1]) ELSE b[r]) \in Int
    BY NetIsInt
  <1>2. QED
    BY <1>1 DEF Added

LEMMA WrittenLineIsLines ==
    ASSUME NEW l \in Lines, NEW a \in Accounts, NEW n \in Amounts
    PROVE  [b \in DOMAIN l \cup {a} |-> IF b = a THEN n ELSE l[b]] \in Lines
  <1>1. PICK A \in SUBSET Accounts : l \in [A -> Amounts]
    BY LinesIsFunction
  <1>2. [b \in DOMAIN l \cup {a} |-> IF b = a THEN n ELSE l[b]] \in [A \cup {a} -> Amounts]
    BY <1>1
  <1>3. QED
    BY <1>2 DEF Lines

LEMMA LinesOver ==
    ASSUME NEW l \in Lines PROVE DOMAIN l \in SUBSET Accounts
  BY LinesIsFunction

LEMMA IdleIsTx == Idle \in TxRecord /\ Idle.pc = "idle"
  BY NoLinesIsLines DEF Idle, TxRecord

LEMMA EndTxType ==
    ASSUME TypeOK, NEW p \in Procs, EndTx(p)
    PROVE  /\ TxOK'
           /\ rowLock' \in [Rows -> Procs \cup {NoProc}]
           /\ entryLock' \in [Entries -> Procs \cup {NoProc}]
  BY IdleIsTx DEF TypeOK, TxOK, EndTx, Released

(* An operation of one process rewrites its own transaction record only.    *)
LEMMA TxStep ==
    ASSUME TxOK, NEW p \in Procs, NEW t \in TxRecord, t.pc # "idle", t.id \in Entries,
           t.op = "post" \/ (t.op = "reverse" /\ t.corr \in Entries),
           tx' = [tx EXCEPT ![p] = t]
    PROVE  TxOK'
  BY DEF TxOK

LEMMA RunningTx ==
    ASSUME TxOK, NEW p \in Procs, tx[p].pc # "idle"
    PROVE  /\ tx[p] \in TxRecord /\ tx[p].id \in Entries
           /\ tx[p].op = "post" \/ (tx[p].op = "reverse" /\ tx[p].corr \in Entries)
  BY DEF TxOK

LEMMA InitType == Init => TypeOK
  BY LedgerConstants, NoLinesIsLines, IdleIsTx DEF Init, TypeOK, TxOK, EntryRecord, Absent, Idle

LEMMA CreateType == ASSUME TypeOK, NEW e \in Entries, Create(e) PROVE TypeOK'
  <1>1. PICK d \in Dates, s \in Births :
            \/ \E r \in LineSets : CreateJournalEntry(e, r, d, s)
            \/ CreateBare(e, d, s)
    BY DEF Create
  <1>2. UNCHANGED tx => TxOK'
    BY DEF TypeOK, TxOK
  <1>3. ASSUME NEW r \in LineSets, CreateJournalEntry(e, r, d, s) PROVE TypeOK'
    <2>1. [status |-> s, lines |-> Stored(r), date |-> d, corrects |-> NoEntry] \in EntryRecord
      BY LedgerConstants DEF EntryRecord
    <2>2. QED
      BY <1>2, <1>3, <2>1 DEF CreateJournalEntry, InsertEntry, TypeOK
  <1>4. CASE CreateBare(e, d, s)
    <2>1. [Absent EXCEPT !.status = s, !.date = d] \in EntryRecord
      BY NoLinesIsLines, LedgerConstants DEF Absent, EntryRecord
    <2>2. QED
      BY <1>2, <1>4, <2>1 DEF CreateBare, TypeOK
  <1>5. QED
    BY <1>1, <1>3, <1>4

LEMMA GenericsType == ASSUME TypeOK, NEW e \in Entries, Generics(e) PROVE TypeOK'
  <1>1. UNCHANGED tx => TxOK'
    BY DEF TypeOK, TxOK
  <1>2. ASSUME NEW a \in Accounts, NEW n \in Amounts, WriteLine(e, a, n) PROVE TypeOK'
    <2> DEFINE old == entry[e].lines
               new == [b \in DOMAIN old \cup {a} |-> IF b = a THEN n ELSE old[b]]
    <2>0. entry[e] \in EntryRecord /\ old \in Lines
      BY DEF TypeOK, EntryRecord
    <2>1. entry[e] \in EntryRecord /\ new \in Lines
      BY <2>0, WrittenLineIsLines
    <2>2. entry' = [entry EXCEPT ![e] = [entry[e] EXCEPT !.lines = new]]
      BY <1>2 DEF WriteLine
    <2>3. [entry[e] EXCEPT !.lines = new] \in EntryRecord
      BY <2>1 DEF EntryRecord
    <2> HIDE DEF new
    <2>4. QED
      BY <1>1, <1>2, <2>2, <2>3 DEF WriteLine, TypeOK
  <1>3. ASSUME NEW s \in Statuses, WriteEntryStatus(e, s) PROVE TypeOK'
    BY <1>1, <1>3 DEF WriteEntryStatus, TypeOK, EntryRecord
  <1>4. ASSUME NEW s \in {"pending", "posted", "failed"}, WriteQueueStatus(e, s) PROVE TypeOK'
    BY <1>1, <1>4 DEF WriteQueueStatus, TypeOK
  <1>5. QED
    BY <1>2, <1>3, <1>4 DEF Generics

LEMMA OpenPostType ==
    ASSUME TypeOK, NEW p \in Procs, NEW e \in Entries, OpenPost(p, e) PROVE TypeOK'
  <1> DEFINE t == [Idle EXCEPT !.pc = "lines", !.op = "post", !.id = e]
  <1>1. t \in TxRecord /\ t.pc = "lines" /\ t.id = e /\ t.op = "post"
    BY IdleIsTx DEF TxRecord, Idle
  <1>2. tx' = [tx EXCEPT ![p] = t]
    BY DEF OpenPost
  <1> HIDE DEF t
  <1>3. TxOK'
    BY <1>1, <1>2, TxStep DEF TypeOK
  <1>4. QED
    BY <1>3 DEF OpenPost, TypeOK

LEMMA RequestType == ASSUME TypeOK, NEW p \in Procs, Request(p) PROVE TypeOK'
  <1>1. ASSUME NEW e \in Entries, Post(p, e) PROVE TypeOK'
    BY <1>1, OpenPostType DEF Post, PostSelect
  <1>2. ASSUME NEW e \in Entries, Retry(p, e) PROVE TypeOK'
    <2> DEFINE t == [Idle EXCEPT !.pc = "select", !.op = "post", !.id = e]
    <2>1. t \in TxRecord /\ t.pc = "select" /\ t.id = e /\ t.op = "post"
      BY IdleIsTx DEF TxRecord, Idle
    <2>2. tx' = [tx EXCEPT ![p] = t]
      BY <1>2 DEF Retry
    <2> HIDE DEF t
    <2>3. TxOK'
      BY <2>1, <2>2, TxStep DEF TypeOK
    <2>4. QED
      BY <1>2, <2>3 DEF Retry, TypeOK
  <1>3. ASSUME NEW e \in Entries, NEW c \in Entries, Reverse(p, e, c) PROVE TypeOK'
    <2> DEFINE t == [Idle EXCEPT !.pc = "lines", !.op = "reverse", !.id = e, !.corr = c]
    <2>1. t \in TxRecord /\ t.pc = "lines" /\ t.id = e /\ t.op = "reverse" /\ t.corr = c
      BY IdleIsTx DEF TxRecord, Idle
    <2>2. tx' = [tx EXCEPT ![p] = t]
      BY <1>3 DEF Reverse, OpenReverse
    <2> HIDE DEF t
    <2>3. TxOK'
      BY <2>1, <2>2, TxStep DEF TypeOK
    <2>4. QED
      BY <1>3, <2>3 DEF Reverse, OpenReverse, TypeOK
  <1>4. QED
    BY <1>1, <1>2, <1>3 DEF Request

LEMMA ProgressType == ASSUME TypeOK, NEW p \in Procs, Progress(p) PROVE TypeOK'
  <1>1. CASE RetrySelect(p)
    BY <1>1, OpenPostType, RunningTx DEF RetrySelect, PostSelect, TypeOK
  <1>2. CASE RetryRefused(p) \/ AbortDeadlock(p)
    BY <1>2, EndTxType DEF RetryRefused, AbortDeadlock, TypeOK
  <1>3. CASE ReadLines(p)
    <2>1. /\ tx[p] \in TxRecord /\ tx[p].id \in Entries
          /\ tx[p].op = "post" \/ (tx[p].op = "reverse" /\ tx[p].corr \in Entries)
      BY <1>3, RunningTx DEF ReadLines, TypeOK
    <2>2. /\ entry[tx[p].id].lines \in Lines
          /\ DOMAIN entry[tx[p].id].lines \in SUBSET Accounts
      BY <2>1, LinesOver DEF TypeOK, EntryRecord
    <2>3. TxOK'
      BY <1>3, <2>1, <2>2 DEF ReadLines, TypeOK, TxOK, TxRecord
    <2>4. QED
      BY <1>3, <2>3 DEF ReadLines, TypeOK
  <1>4. ASSUME NEW a \in Accounts, UpsertBalance(p, a) PROVE TypeOK'
    <2> DEFINE pc == IF tx[p].todo = {a} THEN "mark" ELSE "upsert"
               t == [tx[p] EXCEPT !.todo = tx[p].todo \ {a}, !.pc = pc]
    <2>1. /\ tx[p] \in TxRecord /\ tx[p].id \in Entries
          /\ tx[p].op = "post" \/ (tx[p].op = "reverse" /\ tx[p].corr \in Entries)
      BY <1>4, RunningTx DEF UpsertBalance, TypeOK
    <2>2. /\ t \in TxRecord /\ t.pc # "idle"
          /\ t.id = tx[p].id /\ t.op = tx[p].op /\ t.corr = tx[p].corr
      BY <2>1 DEF TxRecord
    <2>3. tx' = [tx EXCEPT ![p] = t]
      BY <1>4 DEF UpsertBalance, TypeOK, TxOK
    <2> HIDE DEF t
    <2>4. TxOK'
      BY <2>1, <2>2, <2>3, TxStep DEF TypeOK
    <2>5. QED
      BY <1>4, <2>4 DEF UpsertBalance, TypeOK
  <1>5. CASE MarkEntry(p)
    <2>1. TxOK'
      BY <1>5 DEF MarkEntry, TypeOK, TxOK, TxRecord
    <2>2. QED
      BY <1>5, <2>1 DEF MarkEntry, TypeOK
  <1>6. CASE CommitPost(p)
    <2>1. tx[p].lines \in Lines /\ tx[p].id \in Entries
      BY <1>6, RunningTx DEF CommitPost, TypeOK, TxRecord
    <2>2. entry[tx[p].id].date \in Dates
      BY <2>1 DEF TypeOK, EntryRecord
    <2>3. ledger' \in [Rows -> Int]
      BY <1>6, <2>1, <2>2, AddedIsLedger DEF CommitPost, TypeOK
    <2>4. entry' \in [Entries -> EntryRecord]
      BY <1>6, <2>1 DEF CommitPost, TypeOK, EntryRecord, Statuses
    <2>5. QED
      BY <1>6, <2>1, <2>3, <2>4, EndTxType DEF CommitPost, TypeOK
  <1>7. CASE CommitReverse(p)
    <2>1. /\ Flipped(tx[p].lines) \in Lines
          /\ tx[p].id \in Entries /\ tx[p].corr \in Entries
      BY <1>7, RunningTx, FlippedIsLines DEF CommitReverse, TypeOK, TxRecord
    <2>2. [status |-> "pending", lines |-> Flipped(tx[p].lines), date |-> Today,
           corrects |-> tx[p].id] \in EntryRecord
      BY <2>1, LedgerConstants DEF EntryRecord, Statuses
    <2>3. [entry[tx[p].id] EXCEPT !.status = "reversed"] \in EntryRecord
      BY <2>1 DEF TypeOK, EntryRecord, Statuses
    <2>4. QED
      BY <1>7, <2>1, <2>2, <2>3, EndTxType DEF CommitReverse, TypeOK
  <1>8. QED
    BY <1>1, <1>2, <1>3, <1>4, <1>5, <1>6, <1>7 DEF Progress

LEMMA TypeStep == ASSUME TypeOK, [Next]_vars PROVE TypeOK'
  <1>1. ASSUME NEW p \in Procs, Abort(p) PROVE TypeOK'
    BY <1>1, EndTxType DEF Abort, TypeOK
  <1>2. CASE UNCHANGED vars
    BY <1>2 DEF vars, TypeOK, TxOK
  <1>3. QED
    BY <1>1, <1>2, CreateType, GenericsType, RequestType, ProgressType DEF Next

\* Every variable keeps its type, whatever the generic routes write.
THEOREM TypeCorrect == Spec => []TypeOK
  <1>1. TypeOK /\ [Next]_vars => TypeOK'
    BY TypeStep
  <1>2. QED
    BY <1>1, InitType, PTL DEF Spec

-----------------------------------------------------------------------------
(* One request at a time per entry, and no status written by hand.  The     *)
(* invariant: a request in flight owns its entry (Distinct), so the status  *)
(* it read still holds (StatusHeld), and the id of a correcting entry is    *)
(* its own (CorrFree).  The lines of the entry may change under it, and an  *)
(* entry may be born posted or reversed: neither makes it reach the ledger  *)
(* twice.                                                                   *)

Exclusive == OnePerEntry /\ "entry_status" \notin Generic

InTx == {"lines", "upsert", "mark", "commit"}

Distinct == \A p, q \in Procs : p # q /\ tx[p].pc # "idle" => tx[p].id # tx[q].id
StatusHeld ==
    \A p \in Procs : tx[p].pc \in InTx =>
        entry[tx[p].id].status = IF tx[p].op = "post" THEN "pending" ELSE "posted"
CorrFree ==
    \A p \in Procs : tx[p].op = "reverse" =>
        /\ entry[tx[p].corr].status = "absent"
        /\ \A q \in Procs : q # p => tx[q].corr # tx[p].corr

\* What has not been posted is not in the ledger, what has is there once.
Once ==
    \A e \in Entries : /\ applied[e] <= 1
                       /\ entry[e].status \in {"absent", "pending"} => applied[e] = 0

Held == Distinct /\ StatusHeld /\ CorrFree
IInv == TypeOK /\ Held /\ Once

(* A step of p that rewrites its record and no table keeps what is held,   *)
(* when the new record holds.                                              *)
LEMMA TxStepHeld ==
    ASSUME TxOK, Held, NEW p \in Procs, NEW t, tx' = [tx EXCEPT ![p] = t], entry' = entry,
           t.pc # "idle" => \A q \in Procs \ {p} : tx[q].pc # "idle" => tx[q].id # t.id,
           t.pc # "idle" => t.id \in Entries, t.pc = "idle" => t = Idle,
           t.pc \in InTx =>
               entry[t.id].status = IF t.op = "post" THEN "pending" ELSE "posted",
           t.op = "reverse" =>
               /\ t.corr \in Entries /\ entry[t.corr].status = "absent"
               /\ \A q \in Procs \ {p} : tx[q].corr # t.corr,
           t.op # "reverse" => t.corr \in {NoEntry, tx[p].corr}
    PROVE  Held'
  <1>1. \A q \in Procs : tx'[q] = IF q = p THEN t ELSE tx[q]
    BY DEF TxOK
  <1>2. NoEntry \notin Entries
    BY LedgerConstants
  <1>3. \A q \in Procs : /\ tx[q].pc = "idle" => tx[q].id = NoEntry
                         /\ tx[q].pc # "idle" => tx[q].id \in Entries
                         /\ tx[q].op = "reverse" => tx[q].corr \in Entries
    BY DEF TxOK, Idle
  <1>4. Distinct'
    BY <1>1, <1>2, <1>3 DEF Held, Distinct, Idle
  <1>5. StatusHeld'
    BY <1>1 DEF Held, StatusHeld
  <1>6. CorrFree'
    BY <1>1, <1>2, <1>3 DEF Held, CorrFree
  <1>7. QED
    BY <1>4, <1>5, <1>6 DEF Held

LEMMA EndTxHeld ==
    ASSUME TxOK, Held, NEW p \in Procs, EndTx(p), entry' = entry
    PROVE  Held'
  <1>1. /\ Idle.pc = "idle" /\ Idle.op = "none" /\ Idle.corr = NoEntry
        /\ tx' = [tx EXCEPT ![p] = Idle]
    BY DEF Idle, EndTx
  <1>2. QED
    BY <1>1, TxStepHeld DEF InTx

LEMMA CreateHeld ==
    ASSUME IInv, NEW e \in Entries, Create(e) PROVE Held' /\ Once'
  <1>1. /\ entry[e].status = "absent" /\ \A p \in Procs : tx[p].corr # e
        /\ UNCHANGED <<tx, applied>>
        /\ \A x \in Entries : x # e => entry'[x] = entry[x]
    BY DEF Create, CreateJournalEntry, InsertEntry, CreateBare, Fresh, IInv, TypeOK
  <1>2. \A p \in Procs : tx[p].pc \in InTx => tx[p].id \in Entries /\ tx[p].id # e
    BY <1>1 DEF IInv, TypeOK, TxOK, Held, StatusHeld, InTx
  <1>3. \A p \in Procs : tx[p].op = "reverse" => tx[p].corr \in Entries
    BY DEF IInv, TypeOK, TxOK, Idle
  <1>4. Held'
    BY <1>1, <1>2, <1>3 DEF IInv, Held, Distinct, StatusHeld, CorrFree, InTx
  <1>5. Once'
    BY <1>1 DEF IInv, Once
  <1>6. QED
    BY <1>4, <1>5

(* What the generic routes leave alone when they write no status.          *)
LEMMA GenericsKeep ==
    ASSUME Exclusive, TypeOK, NEW e \in Entries, Generics(e)
    PROVE  UNCHANGED <<tx, applied>> /\ \A x \in Entries : entry'[x].status = entry[x].status
  <1>1. ASSUME NEW a \in Accounts, NEW n \in Amounts, WriteLine(e, a, n)
        PROVE  UNCHANGED <<tx, applied>>
               /\ \A x \in Entries : entry'[x].status = entry[x].status
    <2> DEFINE l == [b \in DOMAIN entry[e].lines \cup {a} |->
                        IF b = a THEN n ELSE entry[e].lines[b]]
    <2>1. entry' = [entry EXCEPT ![e].lines = l] /\ UNCHANGED <<tx, applied>>
      BY <1>1 DEF WriteLine
    <2>2. entry \in [Entries -> EntryRecord]
      BY DEF TypeOK
    <2> HIDE DEF l
    <2>3. QED
      BY <2>1, <2>2 DEF EntryRecord
  <1>2. ASSUME NEW s \in {"pending", "posted", "failed"}, WriteQueueStatus(e, s)
        PROVE  UNCHANGED <<tx, applied, entry>>
    BY <1>2 DEF WriteQueueStatus
  <1>3. QED
    BY <1>1, <1>2 DEF Generics, Exclusive, WriteEntryStatus

LEMMA GenericsHeld ==
    ASSUME Exclusive, IInv, NEW e \in Entries, Generics(e) PROVE Held' /\ Once'
  <1>1. UNCHANGED <<tx, applied>> /\ \A x \in Entries : entry'[x].status = entry[x].status
    BY GenericsKeep DEF IInv
  <1>2. \A p \in Procs : /\ tx[p].pc \in InTx => tx[p].id \in Entries
                         /\ tx[p].op = "reverse" => tx[p].corr \in Entries
    BY DEF IInv, TypeOK, TxOK, Idle, InTx
  <1>3. QED
    BY <1>1, <1>2 DEF IInv, Held, Distinct, StatusHeld, CorrFree, Once

LEMMA OpenPostHeld ==
    ASSUME IInv, NEW p \in Procs, NEW e \in Entries, PostSelect(p, e),
           \A q \in Procs \ {p} : tx[q].pc # "idle" => tx[q].id # e
    PROVE  Held' /\ Once'
  <1> DEFINE t == [Idle EXCEPT !.pc = "lines", !.op = "post", !.id = e]
  <1>1. t.pc = "lines" /\ t.op = "post" /\ t.id = e /\ t.corr = NoEntry
    BY DEF Idle
  <1>2. /\ tx' = [tx EXCEPT ![p] = t] /\ UNCHANGED <<entry, applied>>
        /\ entry[e].status = "pending"
    BY DEF PostSelect, OpenPost
  <1> HIDE DEF t
  <1>3. QED
    BY <1>1, <1>2, TxStepHeld DEF IInv, TypeOK, InTx, Once

LEMMA RequestHeld ==
    ASSUME Exclusive, IInv, NEW p \in Procs, Request(p) PROVE Held' /\ Once'
  <1>1. ASSUME NEW e \in Entries, Post(p, e) PROVE Held' /\ Once'
    BY <1>1, OpenPostHeld DEF Post, MayStart, Exclusive
  <1>2. ASSUME NEW e \in Entries, Retry(p, e) PROVE Held' /\ Once'
    <2> DEFINE t == [Idle EXCEPT !.pc = "select", !.op = "post", !.id = e]
    <2>1. t.pc = "select" /\ t.op = "post" /\ t.id = e /\ t.corr = NoEntry
      BY DEF Idle
    <2>2. /\ tx' = [tx EXCEPT ![p] = t] /\ UNCHANGED <<entry, applied>>
          /\ \A q \in Procs : tx[q].id # e
      BY <1>2 DEF Retry, MayStart, Exclusive
    <2> HIDE DEF t
    <2>3. QED
      BY <2>1, <2>2, TxStepHeld DEF IInv, TypeOK, InTx, Once
  <1>3. ASSUME NEW e \in Entries, NEW c \in Entries, Reverse(p, e, c) PROVE Held' /\ Once'
    <2> DEFINE t == [Idle EXCEPT !.pc = "lines", !.op = "reverse", !.id = e, !.corr = c]
    <2>1. t.pc = "lines" /\ t.op = "reverse" /\ t.id = e /\ t.corr = c
      BY DEF Idle
    <2>2. /\ tx' = [tx EXCEPT ![p] = t] /\ UNCHANGED <<entry, applied>>
          /\ \A q \in Procs : tx[q].id # e /\ tx[q].corr # c
          /\ entry[e].status = "posted" /\ entry[c].status = "absent"
      BY <1>3 DEF Reverse, OpenReverse, MayStart, Exclusive, Fresh
    <2> HIDE DEF t
    <2>3. QED
      BY <2>1, <2>2, TxStepHeld DEF IInv, TypeOK, InTx, Once
  <1>4. QED
    BY <1>1, <1>2, <1>3 DEF Request

(* The two commits: the entries they write belong to no other request.     *)
LEMMA CommitPostHeld ==
    ASSUME IInv, NEW p \in Procs, CommitPost(p) PROVE Held' /\ Once'
  <1> DEFINE e == tx[p].id
  <1>1. e \in Entries /\ tx[p].pc = "commit" /\ tx[p].op = "post"
    BY RunningTx DEF CommitPost, IInv, TypeOK
  <1>2. /\ entry[e].status = "pending" /\ applied[e] = 0
        /\ \A q \in Procs \ {p} : tx[q].id # e
    BY <1>1 DEF IInv, Held, StatusHeld, InTx, Distinct, Once
  <1>3. /\ tx' = [tx EXCEPT ![p] = Idle]
        /\ entry' = [entry EXCEPT ![e].status = "posted"]
        /\ applied' = [applied EXCEPT ![e] = applied[e] + 1]
    BY DEF CommitPost, EndTx
  <1>4. /\ \A q \in Procs : tx'[q] = IF q = p THEN Idle ELSE tx[q]
        /\ \A x \in Entries : x # e => entry'[x] = entry[x]
        /\ entry'[e].status = "posted"
    BY <1>1, <1>3 DEF IInv, TypeOK, TxOK, EntryRecord
  <1>5. \A q \in Procs : /\ tx[q].pc # "idle" => tx[q].id \in Entries
                         /\ tx[q].pc = "idle" => tx[q].id = NoEntry
                         /\ tx[q].op = "reverse" => tx[q].corr \in Entries
    BY DEF IInv, TypeOK, TxOK, Idle
  <1>6. Idle.pc = "idle" /\ Idle.id = NoEntry /\ Idle.op = "none" /\ Idle.corr = NoEntry
    BY DEF Idle
  <1>7. Distinct'
    BY <1>4, <1>5, <1>6, LedgerConstants DEF IInv, Held, Distinct
  <1>8. StatusHeld'
    BY <1>2, <1>4, <1>5, <1>6 DEF IInv, Held, StatusHeld, InTx
  <1>9. CorrFree'
    BY <1>1, <1>2, <1>4, <1>5, <1>6, LedgerConstants DEF IInv, Held, CorrFree
  <1>10. Once'
    BY <1>1, <1>2, <1>3, <1>4 DEF IInv, TypeOK, Once
  <1>11. QED
    BY <1>7, <1>8, <1>9, <1>10 DEF Held

LEMMA CommitReverseHeld ==
    ASSUME IInv, NEW p \in Procs, CommitReverse(p) PROVE Held' /\ Once'
  <1> DEFINE e == tx[p].id
             c == tx[p].corr
  <1>1. /\ e \in Entries /\ c \in Entries /\ tx[p].pc = "commit" /\ tx[p].op = "reverse"
    BY RunningTx DEF CommitReverse, IInv, TypeOK
  <1>2. /\ entry[e].status = "posted" /\ entry[c].status = "absent" /\ e # c
        /\ \A q \in Procs \ {p} : tx[q].id # e /\ tx[q].corr # c
    BY <1>1 DEF IInv, Held, StatusHeld, InTx, Distinct, CorrFree
  <1>3. tx' = [tx EXCEPT ![p] = Idle] /\ UNCHANGED applied
    BY DEF CommitReverse, EndTx
  <1>4. /\ \A q \in Procs : tx'[q] = IF q = p THEN Idle ELSE tx[q]
        /\ \A x \in Entries : x # e /\ x # c => entry'[x] = entry[x]
        /\ entry'[e].status = "reversed" /\ entry'[c].status = "pending"
    BY <1>1, <1>2, <1>3 DEF CommitReverse, IInv, TypeOK, TxOK, EntryRecord
  <1>5. \A q \in Procs : /\ tx[q].pc # "idle" => tx[q].id \in Entries
                         /\ tx[q].pc = "idle" => tx[q].id = NoEntry
                         /\ tx[q].op = "reverse" => tx[q].corr \in Entries
    BY DEF IInv, TypeOK, TxOK, Idle
  <1>6. Idle.pc = "idle" /\ Idle.id = NoEntry /\ Idle.op = "none" /\ Idle.corr = NoEntry
    BY DEF Idle
  <1>7. \A q \in Procs \ {p} : tx[q].pc \in InTx => tx[q].id # c
    BY <1>2, <1>5 DEF IInv, Held, StatusHeld, InTx
  <1>8. Distinct'
    BY <1>4, <1>5, <1>6, LedgerConstants DEF IInv, Held, Distinct
  <1>9. StatusHeld'
    BY <1>2, <1>4, <1>5, <1>6, <1>7 DEF IInv, Held, StatusHeld, InTx
  <1>10. CorrFree'
    <2>1. ASSUME NEW q \in Procs, tx'[q].op = "reverse"
          PROVE  /\ q # p /\ tx[q].op = "reverse" /\ tx'[q].corr = tx[q].corr
                 /\ entry[tx[q].corr].status = "absent"
                 /\ tx[q].corr # e /\ tx[q].corr # c
      BY <1>2, <1>4, <1>6, <2>1 DEF IInv, Held, CorrFree
    <2>2. QED
      BY <1>4, <1>5, <1>6, <2>1, LedgerConstants DEF IInv, Held, CorrFree
  <1>11. Once'
    BY <1>1, <1>2, <1>3, <1>4 DEF IInv, Once
  <1>12. QED
    BY <1>8, <1>9, <1>10, <1>11 DEF Held

LEMMA ProgressHeld ==
    ASSUME IInv, NEW p \in Procs, Progress(p) PROVE Held' /\ Once'
  <1> USE DEF IInv
  <1>0. TxOK
    BY DEF TypeOK
  <1>1. CASE RetrySelect(p)
    <2>1. /\ tx[p].id \in Entries /\ PostSelect(p, tx[p].id)
          /\ \A q \in Procs \ {p} : tx[q].pc # "idle" => tx[q].id # tx[p].id
      BY <1>0, <1>1, RunningTx DEF RetrySelect, Held, Distinct
    <2>2. QED
      BY <2>1, OpenPostHeld
  <1>2. CASE RetryRefused(p) \/ AbortDeadlock(p)
    BY <1>0, <1>2, EndTxHeld DEF RetryRefused, AbortDeadlock, Once
  <1> DEFINE Kept(t) == /\ t.id = tx[p].id /\ t.op = tx[p].op /\ t.corr = tx[p].corr
                        /\ t.pc \in InTx /\ t.pc # "idle"
  <1>3. ASSUME NEW t, Kept(t), tx[p].pc \in InTx, tx' = [tx EXCEPT ![p] = t],
               UNCHANGED <<entry, applied>>
        PROVE  Held' /\ Once'
    <2>1. /\ tx[p].pc # "idle" /\ t.id \in Entries
          /\ \A q \in Procs \ {p} : tx[q].pc # "idle" => tx[q].id # t.id
          /\ entry[t.id].status = IF t.op = "post" THEN "pending" ELSE "posted"
      BY <1>0, <1>3, RunningTx DEF InTx, Held, Distinct, StatusHeld
    <2>2. t.op = "reverse" => /\ t.corr \in Entries /\ entry[t.corr].status = "absent"
                              /\ \A q \in Procs \ {p} : tx[q].corr # t.corr
      BY <1>0, <1>3, <2>1, RunningTx DEF Held, CorrFree
    <2>3. Held'
      BY <1>0, <1>3, <2>1, <2>2, TxStepHeld
    <2>4. QED
      BY <1>3, <2>3 DEF Once
  <1>4. CASE ReadLines(p)
    <2> DEFINE t == [tx[p] EXCEPT
                 !.lines = entry[tx[p].id].lines,
                 !.todo = IF tx[p].op = "post" THEN DOMAIN entry[tx[p].id].lines ELSE {},
                 !.pc = IF tx[p].op = "post" /\ DOMAIN entry[tx[p].id].lines # {}
                        THEN "upsert" ELSE "mark"]
    <2>1. tx' = [tx EXCEPT ![p] = t]
      BY <1>0, <1>4 DEF ReadLines, TxOK
    <2>2. Kept(t) /\ tx[p].pc \in InTx
      BY <1>0, <1>4 DEF ReadLines, TxOK, TxRecord, InTx
    <2> HIDE DEF t
    <2>3. QED
      BY <1>3, <1>4, <2>1, <2>2 DEF ReadLines
  <1>5. ASSUME NEW a \in Accounts, UpsertBalance(p, a) PROVE Held' /\ Once'
    <2> DEFINE t == [tx[p] EXCEPT !.todo = tx[p].todo \ {a},
                                  !.pc = IF tx[p].todo = {a} THEN "mark" ELSE "upsert"]
    <2>1. tx' = [tx EXCEPT ![p] = t]
      BY <1>0, <1>5 DEF UpsertBalance, TxOK
    <2>2. Kept(t) /\ tx[p].pc \in InTx
      BY <1>0, <1>5 DEF UpsertBalance, TxOK, TxRecord, InTx, Held
    <2> HIDE DEF t
    <2>3. QED
      BY <1>3, <1>5, <2>1, <2>2 DEF UpsertBalance
  <1>6. CASE MarkEntry(p)
    <2> DEFINE t == [tx[p] EXCEPT !.pc = "commit"]
    <2>1. tx' = [tx EXCEPT ![p] = t]
      BY <1>0, <1>6 DEF MarkEntry, TxOK
    <2>2. Kept(t) /\ tx[p].pc \in InTx
      BY <1>0, <1>6 DEF MarkEntry, TxOK, TxRecord, InTx, Held
    <2> HIDE DEF t
    <2>3. QED
      BY <1>3, <1>6, <2>1, <2>2 DEF MarkEntry
  <1>7. QED
    BY <1>1, <1>2, <1>4, <1>5, <1>6, CommitPostHeld, CommitReverseHeld DEF Progress

LEMMA InitHeld == Init => Held /\ Once
  BY IdleIsTx DEF Init, Held, Distinct, StatusHeld, CorrFree, Once,
                  Absent, Idle, InTx

\* The invariant of the instances with one request at a time per entry.
THEOREM RequestsOwnTheirEntry == ASSUME Exclusive PROVE Spec => []IInv
  <1>1. IInv /\ [Next]_vars => IInv'
    <2> SUFFICES ASSUME IInv, [Next]_vars PROVE Held' /\ Once' /\ TypeOK'
      BY DEF IInv
    <2>1. TypeOK'
      BY TypeStep DEF IInv
    <2>2. ASSUME NEW p \in Procs, Abort(p) PROVE Held' /\ Once'
      BY <2>2, EndTxHeld DEF Abort, IInv, TypeOK, Once
    <2>3. CASE UNCHANGED vars
      <3>1. UNCHANGED <<entry, tx, applied>>
        BY <2>3 DEF vars
      <3>2. QED
        BY <2>1, <3>1 DEF IInv, Held, Distinct, StatusHeld, CorrFree, Once
    <2>4. QED
      BY <2>1, <2>2, <2>3, CreateHeld, GenericsHeld, RequestHeld, ProgressHeld DEF Next
  <1>2. Init => IInv
    BY InitType, InitHeld DEF IInv
  <1>3. QED
    BY <1>1, <1>2, PTL DEF Spec

\* No entry's lines reach the ledger twice, whatever lines are edited and whatever
\* status entries are born with.
THEOREM PostedOnce == ASSUME Exclusive PROVE Spec => []AppliedOnce
  <1>1. IInv => AppliedOnce
    BY DEF IInv, Once, AppliedOnce
  <1>2. QED
    BY <1>1, RequestsOwnTheirEntry, PTL

\* What the commits do to an entry they name: the status they write is the next.
LEMMA StatusSteps ==
    ASSUME Exclusive, IInv, [Next]_vars, NEW x \in Entries
    PROVE  \/ entry'[x].status = entry[x].status /\ applied'[x] = applied[x]
           \/ /\ entry[x].status = "absent" /\ applied'[x] = applied[x]
              /\ entry'[x].status \in Births \cup {"pending"}
           \/ /\ entry[x].status = "pending" /\ entry'[x].status = "posted"
              /\ applied'[x] = applied[x] + 1
           \/ /\ entry[x].status = "posted" /\ entry'[x].status = "reversed"
              /\ applied'[x] = applied[x]
  <1>0. entry \in [Entries -> EntryRecord] /\ applied \in [Entries -> Nat] /\ TxOK
    BY DEF IInv, TypeOK
  <1>1. ASSUME UNCHANGED <<entry, applied>>
        PROVE  entry'[x].status = entry[x].status /\ applied'[x] = applied[x]
    BY <1>1
  <1>2. ASSUME NEW e \in Entries, Create(e)
        PROVE  /\ applied' = applied
               /\ \/ entry'[x] = entry[x]
                  \/ entry[x].status = "absent" /\ entry'[x].status \in Births
    <2>1. PICK d \in Dates, s \in Births :
              \/ \E r \in LineSets : CreateJournalEntry(e, r, d, s)
              \/ CreateBare(e, d, s)
      BY <1>2 DEF Create
    <2>2. entry[e].status = "absent" /\ applied' = applied
      BY <2>1 DEF CreateJournalEntry, InsertEntry, CreateBare, Fresh
    <2>3. \E r : entry' = [entry EXCEPT ![e] = r] /\ r.status = s
      <3>1. ASSUME NEW q, CreateJournalEntry(e, q, d, s)
            PROVE  \E r : entry' = [entry EXCEPT ![e] = r] /\ r.status = s
        <4> DEFINE r == [status |-> s, lines |-> Stored(q), date |-> d, corrects |-> NoEntry]
        <4>1. entry' = [entry EXCEPT ![e] = r] /\ r.status = s
          BY <3>1 DEF CreateJournalEntry, InsertEntry
        <4> HIDE DEF r
        <4>2. QED
          BY <4>1
      <3>2. CASE CreateBare(e, d, s)
        <4> DEFINE r == [Absent EXCEPT !.status = s, !.date = d]
        <4>1. entry' = [entry EXCEPT ![e] = r] /\ r.status = s
          BY <3>2 DEF CreateBare, Absent
        <4> HIDE DEF r
        <4>2. QED
          BY <4>1
      <3>3. QED
        BY <2>1, <3>1, <3>2
    <2>4. QED
      BY <1>0, <2>2, <2>3
  <1>3. ASSUME NEW e \in Entries, Generics(e)
        PROVE  applied' = applied /\ entry'[x].status = entry[x].status
    BY <1>3, GenericsKeep DEF IInv
  <1>4. ASSUME NEW p \in Procs, CommitPost(p)
        PROVE  \/ entry'[x] = entry[x] /\ applied'[x] = applied[x]
               \/ /\ entry[x].status = "pending" /\ entry'[x].status = "posted"
                  /\ applied'[x] = applied[x] + 1
    <2>1. tx[p].id \in Entries /\ entry[tx[p].id].status = "pending"
      BY <1>0, <1>4, RunningTx DEF CommitPost, IInv, Held, StatusHeld, InTx
    <2>2. /\ entry' = [entry EXCEPT ![tx[p].id].status = "posted"]
          /\ applied' = [applied EXCEPT ![tx[p].id] = applied[tx[p].id] + 1]
      BY <1>4 DEF CommitPost
    <2>3. QED
      BY <1>0, <2>1, <2>2 DEF EntryRecord
  <1>5. ASSUME NEW p \in Procs, CommitReverse(p)
        PROVE  /\ applied' = applied
               /\ \/ entry'[x] = entry[x]
                  \/ entry[x].status = "posted" /\ entry'[x].status = "reversed"
                  \/ entry[x].status = "absent" /\ entry'[x].status = "pending"
    <2>1. /\ tx[p].id \in Entries /\ tx[p].corr \in Entries
          /\ entry[tx[p].id].status = "posted" /\ entry[tx[p].corr].status = "absent"
      BY <1>0, <1>5, RunningTx DEF CommitReverse, IInv, Held, StatusHeld, CorrFree, InTx
    <2>2. QED
      BY <1>0, <1>5, <2>1 DEF CommitReverse, EntryRecord
  <1>6. ASSUME NEW p \in Procs, Request(p) \/ Abort(p) \/ Progress(p),
               ~CommitPost(p), ~CommitReverse(p)
        PROVE  UNCHANGED <<entry, applied>>
    BY <1>6 DEF Request, Post, PostSelect, OpenPost, Retry, Reverse, OpenReverse, Progress,
                RetrySelect, RetryRefused, ReadLines, UpsertBalance, MarkEntry,
                AbortDeadlock, Abort
  <1>7. CASE UNCHANGED vars
    BY <1>7 DEF vars
  <1>8. QED
    BY <1>1, <1>2, <1>3, <1>4, <1>5, <1>6, <1>7 DEF Next

\* Posted and reversed entries are in the ledger exactly once, and no other entry
\* is, if entries are born pending.
THEOREM FinalisedOnce ==
    ASSUME Exclusive, Births \subseteq {"pending"} PROVE Spec => []Finalised
  <1>1. Init => Finalised
    BY DEF Init, Finalised, Absent
  <1>2. IInv /\ Finalised /\ [Next]_vars => Finalised'
    BY StatusSteps DEF Finalised
  <1>3. QED
    BY <1>1, <1>2, RequestsOwnTheirEntry, PTL DEF Spec

\* No status ever moves back, whoever asks and whatever fails.
THEOREM StatusOnlyForward == ASSUME Exclusive PROVE Spec => StatusForward
  <1> DEFINE F == \A e \in Entries : Forward(entry[e].status, entry'[e].status)
  <1>1. IInv /\ [Next]_vars => F \/ UNCHANGED entry
    BY StatusSteps DEF Forward
  <1>2. QED
    BY <1>1, RequestsOwnTheirEntry, PTL DEF Spec, StatusForward

-----------------------------------------------------------------------------
(* Sums.  SumFunction picks the elements of the domain in some order; what  *)
(* the proofs below need of it is that a change of one summand changes the  *)
(* sum by as much (SumChange).                                              *)

Pick(s) == CHOOSE x \in s : TRUE
Step(f, g, s) == IF s = {} THEN 0 ELSE f[Pick(s)] + g[s \ {Pick(s)}]
Solves(f, g, D) == g = [s \in SUBSET D |-> Step(f, g, s)]

LEMMA SumUnfold ==
    ASSUME NEW f PROVE SumFunction(f) = (CHOOSE g : Solves(f, g, DOMAIN f))[DOMAIN f]
  BY DEF SumFunction, SumFunctionOnSet, FoldFunctionOnSet, MapThenFoldSet, Step, Pick, Solves

LEMMA NatSteps ==
    ASSUME NEW N, 0 \in N, \A n \in Nat : n \in N => n + 1 \in N
    PROVE  Nat \subseteq N
  <1> SUFFICES ASSUME Nat \ N # {} PROVE FALSE
    OBVIOUS
  <1> DEFINE R == {xy \in Nat \X Nat : xy[1] < xy[2]}
  <1>1. IsWellFoundedOn(R, Nat)
    BY NatLessThanWellFounded DEF OpToRel
  <1> HIDE DEF R
  <1>2. PICK n \in Nat \ N : \A m \in Nat \ N : <<m, n>> \notin R
    BY <1>1, WFMin, Nat \ N \subseteq Nat
  <1>3. n - 1 \in Nat /\ <<n - 1, n>> \in R
    BY <1>2, SMT DEF R
  <1>4. n - 1 \in N
    BY <1>2, <1>3
  <1>5. QED
    BY <1>2, <1>3, <1>4, (n - 1) + 1 = n

\* F holds of the empty set, and of a set with one more element of S.
Grows(F, S) ==
    {} \in F /\ \A T \in SUBSET S, x \in S : T \in F /\ x \notin T => T \cup {x} \in F

LEMMA SubsetSteps ==
    ASSUME NEW S, IsFiniteSet(S), NEW F, Grows(F, S) PROVE SUBSET S \subseteq F
  <1> DEFINE N == {n \in Nat : \A T \in SUBSET S : Cardinality(T) = n => T \in F}
  <1>1. \A T \in SUBSET S : IsFiniteSet(T) /\ Cardinality(T) \in Nat
    BY FS_Subset, FS_CardinalityType
  <1>2. 0 \in N
    BY <1>1, FS_EmptySet DEF Grows
  <1>3. ASSUME NEW n \in N, NEW T \in SUBSET S, Cardinality(T) = n + 1
        PROVE  T \in F
    <2>0. n \in Nat /\ n + 1 # 0 /\ Cardinality({}) = 0
      BY FS_EmptySet
    <2>1. T # {}
      BY <1>3, <2>0
    <2>2. PICK x \in T : TRUE
      BY <2>1
    <2>3. T \ {x} \in SUBSET S /\ Cardinality(T \ {x}) = n
      <3>1. Cardinality(T \ {x}) = Cardinality(T) - 1
        BY <1>1, <2>2, FS_RemoveElement
      <3>2. QED
        BY <1>3, <2>0, <3>1
    <2>4. T \ {x} \in F
      BY <1>3, <2>3
    <2>5. (T \ {x}) \cup {x} = T /\ x \in S
      BY <2>2
    <2>6. (T \ {x}) \cup {x} \in F
      BY <2>3, <2>4, <2>5 DEF Grows
    <2>7. QED
      BY <2>5, <2>6
  <1>4. \A n \in Nat : n \in N => n + 1 \in N
    BY <1>3
  <1> HIDE DEF N
  <1>5. Nat \subseteq N
    BY <1>2, <1>4, NatSteps
  <1>6. QED
    BY <1>1, <1>5 DEF N

\* g gives the sum of f over every subset of D.
Adds(f, g, D) ==
    /\ g \in [SUBSET D -> Int] /\ g[{}] = 0
    /\ \A s \in SUBSET D, x \in D : x \in s => g[s] = f[x] + g[s \ {x}]

Summands(f, D) == IsFiniteSet(D) /\ DOMAIN f = D /\ \A x \in D : f[x] \in Int

LEMMA Solvable ==
    ASSUME NEW f, NEW D, IsFiniteSet(D), \A x \in D : f[x] \in Int
    PROVE  \E g \in [SUBSET D -> Int] : Solves(f, g, D)
  <1> DEFINE Small(n) == {T \in SUBSET D : Cardinality(T) <= n}
             N == {n \in Nat : \E g \in [SUBSET D -> Int] :
                                  \A s \in Small(n) : g[s] = Step(f, g, s)}
  <1>1. \A T \in SUBSET D : IsFiniteSet(T) /\ Cardinality(T) \in Nat
    BY FS_Subset, FS_CardinalityType
  <1>2. \A s \in SUBSET D : s # {} =>
            /\ Pick(s) \in s /\ s \ {Pick(s)} \in SUBSET D
            /\ Cardinality(s \ {Pick(s)}) = Cardinality(s) - 1
    <2> SUFFICES ASSUME NEW s \in SUBSET D, s # {}
                 PROVE  /\ Pick(s) \in s /\ s \ {Pick(s)} \in SUBSET D
                        /\ Cardinality(s \ {Pick(s)}) = Cardinality(s) - 1
      OBVIOUS
    <2>1. Pick(s) \in s
      BY DEF Pick
    <2>2. QED
      BY <1>1, <2>1, FS_RemoveElement
  <1>3. 0 \in N
    <2> DEFINE g == [s \in SUBSET D |-> 0]
    <2>1. \A s \in Small(0) : s = {}
      BY <1>1, FS_EmptySet
    <2>2. g \in [SUBSET D -> Int] /\ \A s \in Small(0) : g[s] = Step(f, g, s)
      BY <2>1 DEF Step
    <2> HIDE DEF g
    <2>3. QED
      BY <2>2
  <1>4. ASSUME NEW n \in Nat, n \in N PROVE n + 1 \in N
    <2>1. PICK g \in [SUBSET D -> Int] : \A s \in Small(n) : g[s] = Step(f, g, s)
      BY <1>4
    <2> DEFINE h == [s \in SUBSET D |-> Step(f, g, s)]
    <2>2. h \in [SUBSET D -> Int]
      <3>1. ASSUME NEW s \in SUBSET D PROVE Step(f, g, s) \in Int
        <4>1. CASE s = {}
          BY <4>1 DEF Step
        <4>2. CASE s # {}
          <5>1. f[Pick(s)] \in Int /\ g[s \ {Pick(s)}] \in Int
            BY <1>2, <4>2
          <5>2. QED
            BY <4>2, <5>1 DEF Step
        <4>3. QED
          BY <4>1, <4>2
      <3>2. QED
        BY <3>1
    <2>3. \A s \in Small(n) : h[s] = g[s]
      BY <2>1
    <2>4. ASSUME NEW s \in Small(n + 1) PROVE h[s] = Step(f, h, s)
      <3>1. CASE s = {}
        BY <3>1 DEF Step
      <3>2. CASE s # {}
        <4>1. s \ {Pick(s)} \in Small(n)
          BY <1>1, <1>2, <3>2
        <4>2. h[s] = f[Pick(s)] + g[s \ {Pick(s)}]
          BY <3>2 DEF Step
        <4> HIDE DEF h, Small
        <4>3. QED
          BY <2>3, <3>2, <4>1, <4>2 DEF Step
      <3>3. QED
        BY <3>1, <3>2
    <2> HIDE DEF h
    <2>5. QED
      BY <2>2, <2>4
  <1> HIDE DEF N
  <1>5. Nat \subseteq N
    BY <1>3, <1>4, NatSteps
  <1>6. Cardinality(D) \in N
    BY <1>1, <1>5
  <1>7. PICK g \in [SUBSET D -> Int] : \A s \in Small(Cardinality(D)) : g[s] = Step(f, g, s)
    BY <1>6 DEF N
  <1>8. \A s \in SUBSET D : s \in Small(Cardinality(D))
    BY FS_Subset
  <1>9. g = [s \in SUBSET D |-> Step(f, g, s)]
    BY <1>7, <1>8
  <1>10. QED
    BY <1>9 DEF Solves

\* A solution adds up the values in any order.
LEMMA Reordered ==
    ASSUME NEW f, NEW D, Summands(f, D), NEW g \in [SUBSET D -> Int], Solves(f, g, D)
    PROVE  Adds(f, g, D)
  <1> USE DEF Summands
  <1> DEFINE Ok(s) == \A x \in s : g[s] = f[x] + g[s \ {x}]
             N == {n \in Nat : \A s \in SUBSET D : Cardinality(s) = n => Ok(s)}
  <1>1. \A T \in SUBSET D : IsFiniteSet(T) /\ Cardinality(T) \in Nat
    BY FS_Subset, FS_CardinalityType
  <1>2. 0 \in N
    BY <1>1, FS_EmptySet
  <1>3. ASSUME NEW n \in Nat, n \in N, NEW s \in SUBSET D, Cardinality(s) = n + 1, NEW x \in s
        PROVE  g[s] = f[x] + g[s \ {x}]
    <2> DEFINE c == Pick(s)
    <2>1. s # {} /\ c \in s /\ g[s] = f[c] + g[s \ {c}]
      BY DEF Solves, Step, Pick
    <2>2. CASE x = c
      BY <2>1, <2>2
    <2>3. CASE x # c
      <3>1. \A y \in s : s \ {y} \in SUBSET D /\ Cardinality(s \ {y}) = n
        <4>1. ASSUME NEW y \in s PROVE Cardinality(s \ {y}) = Cardinality(s) - 1
          BY <1>1, FS_RemoveElement
        <4>2. QED
          BY <1>3, <4>1
      <3>2. Ok(s \ {x}) /\ Ok(s \ {c})
        BY <1>3, <2>1, <3>1
      <3>3. g[s \ {x}] = f[c] + g[(s \ {x}) \ {c}]
        BY <2>1, <2>3, <3>2
      <3>4. g[s \ {c}] = f[x] + g[(s \ {c}) \ {x}]
        BY <2>1, <2>3, <3>2
      <3>5. g[(s \ {x}) \ {c}] = g[(s \ {c}) \ {x}]
        <4>1. (s \ {x}) \ {c} = (s \ {c}) \ {x}
          OBVIOUS
        <4>2. QED
          BY <4>1
      <3>6. f[x] \in Int /\ f[c] \in Int /\ g[(s \ {c}) \ {x}] \in Int
        BY <2>1
      <3>7. \A i, j, k \in Int : i + (j + k) = j + (i + k)
        OBVIOUS
      <3> HIDE DEF c
      <3>8. g[s] = f[x] + (f[c] + g[(s \ {c}) \ {x}])
        BY <2>1, <3>4, <3>6, <3>7
      <3>9. QED
        BY <3>3, <3>5, <3>8
    <2>4. QED
      BY <2>2, <2>3
  <1>4. \A n \in Nat : n \in N => n + 1 \in N
    BY <1>3
  <1> HIDE DEF N
  <1>5. Nat \subseteq N
    BY <1>2, <1>4, NatSteps
  <1>6. \A s \in SUBSET D, x \in D : x \in s => g[s] = f[x] + g[s \ {x}]
    BY <1>1, <1>5 DEF N
  <1>7. g[{}] = 0
    BY DEF Solves, Step
  <1>8. QED
    BY <1>6, <1>7 DEF Adds

\* What the proofs below use of SumFunction.
LEMMA SumAdds ==
    ASSUME NEW f, NEW D, Summands(f, D)
    PROVE  \E g : Adds(f, g, D) /\ SumFunction(f) = g[D] /\ g[D] \in Int
  <1> USE DEF Summands
  <1> DEFINE g == CHOOSE h : Solves(f, h, D)
  <1>1. PICK h \in [SUBSET D -> Int] : Solves(f, h, D)
    BY Solvable
  <1>2. Solves(f, g, D)
    BY <1>1
  <1>3. SumFunction(f) = g[D]
    BY SumUnfold
  <1> HIDE DEF g
  <1>4. \A s \in SUBSET D : g[s] = Step(f, g, s)
    BY <1>2 DEF Solves
  <1>5. SUBSET D \subseteq {s \in SUBSET D : g[s] \in Int}
    <2> DEFINE N == {n \in Nat : \A s \in SUBSET D : Cardinality(s) = n => g[s] \in Int}
    <2>1. \A T \in SUBSET D : IsFiniteSet(T) /\ Cardinality(T) \in Nat
      BY FS_Subset, FS_CardinalityType
    <2>2. g[{}] = 0
      BY <1>4 DEF Step
    <2>3. 0 \in N
      <3>1. \A s \in SUBSET D : Cardinality(s) = 0 => s = {}
        BY <2>1, FS_EmptySet
      <3>2. \A s \in SUBSET D : Cardinality(s) = 0 => g[s] \in Int
        BY <2>2, <3>1
      <3>3. QED
        BY <3>2
    <2>4. ASSUME NEW n \in Nat, n \in N, NEW s \in SUBSET D, Cardinality(s) = n + 1
          PROVE  g[s] \in Int
      <3>1. CASE s = {}
        BY <2>2, <3>1
      <3>2. CASE s # {}
        <4>1. Pick(s) \in s
          BY <3>2 DEF Pick
        <4>2. Cardinality(s \ {Pick(s)}) = Cardinality(s) - 1
          BY <2>1, <4>1, FS_RemoveElement
        <4>3. g[s \ {Pick(s)}] \in Int /\ f[Pick(s)] \in Int
          BY <2>4, <4>1, <4>2
        <4>4. QED
          BY <1>4, <3>2, <4>3 DEF Step
      <3>3. QED
        BY <3>1, <3>2
    <2>5. \A n \in Nat : n \in N => n + 1 \in N
      BY <2>4
    <2> HIDE DEF N
    <2>6. Nat \subseteq N
      BY <2>3, <2>5, NatSteps
    <2>7. QED
      BY <2>1, <2>6 DEF N
  <1>6. g \in [SUBSET D -> Int] /\ g[{}] = 0
    BY <1>2, <1>4, <1>5 DEF Solves, Step
  <1>7. Adds(f, g, D)
    BY <1>2, <1>6, Reordered
  <1>8. QED
    BY <1>3, <1>6, <1>7

LEMMA SumIsInt == ASSUME NEW f, NEW D, Summands(f, D) PROVE SumFunction(f) \in Int
  BY SumAdds

LEMMA SumOfZeros ==
    ASSUME NEW f, NEW D, Summands(f, D), \A x \in D : f[x] = 0
    PROVE  SumFunction(f) = 0
  <1>1. PICK g : Adds(f, g, D) /\ SumFunction(f) = g[D]
    BY SumAdds
  <1> DEFINE F == {s \in SUBSET D : g[s] = 0}
  <1>2. ASSUME NEW T \in SUBSET D, NEW x \in D, g[T] = 0, x \notin T
        PROVE  g[T \cup {x}] = 0
    <2>1. g[T \cup {x}] = f[x] + g[(T \cup {x}) \ {x}]
      BY <1>1 DEF Adds
    <2>2. (T \cup {x}) \ {x} = T
      BY <1>2
    <2>3. QED
      BY <1>2, <2>1, <2>2
  <1>3. Grows(F, D)
    BY <1>1, <1>2 DEF Grows, Adds
  <1> HIDE DEF F
  <1>4. SUBSET D \subseteq F
    BY <1>3, SubsetSteps DEF Summands
  <1>5. QED
    BY <1>1, <1>4 DEF F

\* Only what changes at x changes the sum.
LEMMA SumChange ==
    ASSUME NEW f, NEW h, NEW D, Summands(f, D), Summands(h, D),
           NEW x \in D, \A y \in D \ {x} : h[y] = f[y]
    PROVE  SumFunction(h) = SumFunction(f) + (h[x] - f[x])
  <1>1. PICK g : Adds(f, g, D) /\ SumFunction(f) = g[D]
    BY SumAdds
  <1>2. PICK k : Adds(h, k, D) /\ SumFunction(h) = k[D]
    BY SumAdds
  <1> DEFINE E == D \ {x}
             F == {s \in SUBSET E : g[s] = k[s]}
  <1>3. ASSUME NEW T \in SUBSET E, NEW y \in E, g[T] = k[T], y \notin T
        PROVE  g[T \cup {y}] = k[T \cup {y}]
    <2>1. /\ g[T \cup {y}] = f[y] + g[(T \cup {y}) \ {y}]
          /\ k[T \cup {y}] = h[y] + k[(T \cup {y}) \ {y}]
      BY <1>1, <1>2 DEF Adds
    <2>2. (T \cup {y}) \ {y} = T
      BY <1>3
    <2>3. QED
      BY <1>3, <2>1, <2>2
  <1>4. Grows(F, E)
    BY <1>1, <1>2, <1>3 DEF Grows, Adds
  <1>5. IsFiniteSet(E)
    BY FS_RemoveElement DEF Summands
  <1> HIDE DEF F
  <1>6. SUBSET E \subseteq F
    BY <1>4, <1>5, SubsetSteps
  <1>7. g[E] = k[E] /\ g[E] \in Int /\ f[x] \in Int /\ h[x] \in Int
    BY <1>1, <1>6 DEF F, Adds, Summands
  <1>8. g[D] = f[x] + g[E] /\ k[D] = h[x] + k[E]
    BY <1>1, <1>2 DEF Adds
  <1> HIDE DEF E
  <1>9. QED
    BY <1>1, <1>2, <1>7, <1>8

-----------------------------------------------------------------------------
(* Posting and sums.  Both lemmas add the lines one account at a time.      *)

\* The lines l restricted to the accounts B, and the balances b with these added.
Part(l, B) == [a \in DOMAIN l |-> IF a \in B THEN l[a] ELSE 0]
AddedPart(b, l, d, B) ==
    [r \in Rows |-> IF r[2] = d /\ r[1] \in B THEN b[r] + l[r[1]] ELSE b[r]]

LEMMA LinesAreSummands ==
    ASSUME NEW l \in Lines
    PROVE  /\ DOMAIN l \in SUBSET Accounts /\ Summands(l, DOMAIN l)
           /\ l = [a \in DOMAIN l |-> l[a]]
  <1>1. PICK A \in SUBSET Accounts : l \in [A -> Amounts]
    BY LinesIsFunction
  <1>2. IsFiniteSet(A)
    BY FS_Subset, LedgerConstants
  <1>3. \A a \in A : l[a] \in Int
    BY <1>1, LedgerConstants
  <1>4. QED
    BY <1>1, <1>2, <1>3 DEF Summands

LEMMA PartSum ==
    ASSUME NEW l \in Lines, NEW B
    PROVE  /\ Summands(Part(l, B), DOMAIN l) /\ SumFunction(Part(l, B)) \in Int
           /\ B = {} => SumFunction(Part(l, B)) = 0
           /\ B = DOMAIN l => Part(l, B) = l
  <1>1. /\ IsFiniteSet(DOMAIN l) /\ \A a \in DOMAIN l : l[a] \in Int
        /\ l = [a \in DOMAIN l |-> l[a]]
    BY LinesAreSummands DEF Summands
  <1>2. Summands(Part(l, B), DOMAIN l)
    BY <1>1 DEF Part, Summands
  <1>3. B = {} => \A a \in DOMAIN l : Part(l, B)[a] = 0
    BY DEF Part
  <1>4. B = DOMAIN l => Part(l, B) = l
    BY <1>1 DEF Part
  <1>5. QED
    BY <1>2, <1>3, <1>4, SumIsInt, SumOfZeros

LEMMA PartGrows ==
    ASSUME NEW l \in Lines, NEW B, NEW a \in DOMAIN l, a \notin B
    PROVE  SumFunction(Part(l, B \cup {a})) = SumFunction(Part(l, B)) + l[a]
  <1> DEFINE f == Part(l, B)
             h == Part(l, B \cup {a})
  <1>1. f[a] = 0 /\ h[a] = l[a] /\ \A y \in DOMAIN l \ {a} : h[y] = f[y]
    BY DEF Part
  <1>2. Summands(f, DOMAIN l) /\ Summands(h, DOMAIN l)
    BY PartSum
  <1>3. l[a] \in Int
    BY LinesAreSummands DEF Summands
  <1> HIDE DEF f, h
  <1>4. SumFunction(h) = SumFunction(f) + (h[a] - f[a])
    BY <1>1, <1>2, SumChange
  <1>5. QED
    BY <1>1, <1>3, <1>4 DEF f, h

LEMMA PostingSum ==
    ASSUME NEW b \in [Rows -> Int], NEW l \in Lines, NEW d \in Dates
    PROVE  SumFunction(Added(b, l, d)) = SumFunction(b) + SumFunction(l)
  <1> DEFINE A == DOMAIN l
             F == {B \in SUBSET A : SumFunction(AddedPart(b, l, d, B))
                                    = SumFunction(b) + SumFunction(Part(l, B))}
  <1>1. IsFiniteSet(A) /\ A \in SUBSET Accounts /\ \A a \in A : l[a] \in Int
    BY LinesAreSummands DEF Summands
  <1>2. IsFiniteSet(Rows)
    BY FS_Product, LedgerConstants DEF Rows
  <1>3. ASSUME NEW B \in SUBSET A PROVE Summands(AddedPart(b, l, d, B), Rows)
    BY <1>1, <1>2, <1>3 DEF AddedPart, Summands
  <1>4. SumFunction(b) \in Int
    BY <1>2, SumIsInt DEF Summands
  <1>5. {} \in F
    <2>1. AddedPart(b, l, d, {}) = b
      BY DEF AddedPart
    <2>2. QED
      BY <1>4, <2>1, PartSum
  <1>6. ASSUME NEW B \in SUBSET A, NEW a \in A, B \in F, a \notin B PROVE B \cup {a} \in F
    <2> DEFINE f == AddedPart(b, l, d, B)
               h == AddedPart(b, l, d, B \cup {a})
               x == <<a, d>>
    <2>1. x \in Rows
      BY <1>1 DEF Rows
    <2>2. h[x] - f[x] = l[a]
      BY <1>1, <1>6, <2>1 DEF AddedPart
    <2>3. \A y \in Rows \ {x} : h[y] = f[y]
      BY DEF AddedPart, Rows
    <2>4. Summands(f, Rows) /\ Summands(h, Rows)
      BY <1>3
    <2> HIDE DEF f, h, x
    <2>5. SumFunction(h) = SumFunction(f) + (h[x] - f[x])
      BY <2>1, <2>3, <2>4, SumChange
    <2>6. SumFunction(f) = SumFunction(b) + SumFunction(Part(l, B))
      BY <1>6 DEF f
    <2>7. SumFunction(Part(l, B \cup {a})) = SumFunction(Part(l, B)) + l[a]
      BY <1>6, PartGrows
    <2>8. SumFunction(Part(l, B)) \in Int
      BY PartSum
    <2>9. SumFunction(h) = SumFunction(b) + SumFunction(Part(l, B \cup {a}))
      BY <1>1, <1>4, <2>2, <2>5, <2>6, <2>7, <2>8
    <2>10. QED
      BY <2>9 DEF h
  <1>7. Grows(F, A)
    BY <1>5, <1>6 DEF Grows
  <1> HIDE DEF F
  <1>8. A \in F
    BY <1>1, <1>7, SubsetSteps
  <1>9. AddedPart(b, l, d, A) = Added(b, l, d)
    <2>1. \A r \in Rows : (IF r[2] = d /\ r[1] \in A THEN b[r] + l[r[1]] ELSE b[r])
                          = (IF r[2] = d THEN b[r] + Net(l, r[1]) ELSE b[r])
      BY DEF Net
    <2>2. QED
      BY <2>1 DEF AddedPart, Added
  <1>10. QED
    BY <1>8, <1>9, PartSum DEF F

LEMMA FlippedSum ==
    ASSUME NEW l \in Lines
    PROVE  SumFunction(Flipped(l)) = -SumFunction(l)
  <1> DEFINE A == DOMAIN l
             m == Flipped(l)
             F == {B \in SUBSET A : SumFunction(Part(m, B)) = -SumFunction(Part(l, B))}
  <1>1. m \in Lines /\ DOMAIN m = A /\ \A a \in A : m[a] = -l[a]
    BY FlippedIsLines DEF Flipped
  <1>2. IsFiniteSet(A) /\ \A a \in A : l[a] \in Int
    BY LinesAreSummands DEF Summands
  <1> HIDE DEF m
  <1>3. {} \in F
    BY <1>1, PartSum
  <1>4. ASSUME NEW B \in SUBSET A, NEW a \in A, B \in F, a \notin B PROVE B \cup {a} \in F
    <2>1. /\ SumFunction(Part(l, B \cup {a})) = SumFunction(Part(l, B)) + l[a]
          /\ SumFunction(Part(l, B)) \in Int
      BY <1>4, PartSum, PartGrows
    <2>2. SumFunction(Part(m, B \cup {a})) = SumFunction(Part(m, B)) + m[a]
      BY <1>1, <1>4, PartGrows
    <2>3. QED
      BY <1>1, <1>2, <1>4, <2>1, <2>2
  <1>5. Grows(F, A)
    BY <1>3, <1>4 DEF Grows
  <1> HIDE DEF F
  <1>6. A \in F
    BY <1>2, <1>5, SubsetSteps
  <1>7. QED
    BY <1>1, <1>6, PartSum DEF F, m

-----------------------------------------------------------------------------
(* Rounding.  The lines of a request are stored one by one, each off by     *)
(* half a cent at most.                                                     *)

LEMMA RoundedIsNear ==
    ASSUME NEW n \in Int
    PROVE  Rounded(n) \in Int /\ 10 * Rounded(n) - n \in -5..5
  BY DEF Rounded

\* What the first lines B of the request r amount to, and leave of each account.
Asked(r, B) == [i \in DOMAIN r |-> IF i \in B THEN r[i].amount ELSE 0]
OfAccount(r, B, a) ==
    [i \in DOMAIN r |-> IF i \in B /\ r[i].account = a THEN Rounded(r[i].amount) ELSE 0]
StoredPart(r, B) ==
    [a \in {r[i].account : i \in DOMAIN r} |-> SumFunction(OfAccount(r, B, a))]

LEMMA RequestLines ==
    ASSUME NEW r \in LineSets
    PROVE  /\ IsFiniteSet(DOMAIN r) /\ Cardinality(DOMAIN r) \in 0..MaxLines
           /\ \A i \in DOMAIN r : r[i].account \in Accounts /\ r[i].amount \in Int
           /\ IsFiniteSet({r[i].account : i \in DOMAIN r})
  <1> DEFINE T == [account : Accounts, amount : Int]
  <1>1. r \in Seq(T) /\ Len(r) <= MaxLines /\ MaxLines \in Nat
    BY LedgerConstants
  <1> HIDE DEF T
  <1>2. DOMAIN r = 1..Len(r) /\ Len(r) \in Nat
    BY <1>1
  <1>3. \A i \in DOMAIN r : r[i] \in T
    BY <1>1, <1>2
  <1>4. \A i \in DOMAIN r : r[i].account \in Accounts /\ r[i].amount \in Int
    BY <1>3 DEF T
  <1>5. IsFiniteSet(1..Len(r)) /\ Cardinality(1..Len(r)) = Len(r)
    <2>1. 1 \in Int /\ Len(r) \in Int
      BY <1>2
    <2>2. Cardinality(1..Len(r)) = IF 1 > Len(r) THEN 0 ELSE Len(r) - 1 + 1
      BY <2>1, FS_Interval
    <2>3. QED
      BY <1>2, <2>1, <2>2, FS_Interval
  <1>6. {r[i].account : i \in DOMAIN r} \in SUBSET Accounts
    BY <1>4
  <1>7. IsFiniteSet({r[i].account : i \in DOMAIN r})
    BY <1>6, FS_Subset, LedgerConstants
  <1>8. QED
    BY <1>1, <1>2, <1>4, <1>5, <1>7

LEMMA RequestParts ==
    ASSUME NEW r \in LineSets, NEW B
    PROVE  /\ Summands(Asked(r, B), DOMAIN r)
           /\ \A a : Summands(OfAccount(r, B, a), DOMAIN r)
           /\ Summands(StoredPart(r, B), {r[i].account : i \in DOMAIN r})
  <1>0. /\ IsFiniteSet(DOMAIN r)
        /\ \A i \in DOMAIN r : r[i].amount \in Int /\ Rounded(r[i].amount) \in Int
    BY RequestLines, RoundedIsNear
  <1>1. Summands(Asked(r, B), DOMAIN r)
    BY <1>0 DEF Asked, Summands
  <1>2. ASSUME NEW a PROVE Summands(OfAccount(r, B, a), DOMAIN r)
    BY <1>0 DEF OfAccount, Summands
  <1>3. \A a : SumFunction(OfAccount(r, B, a)) \in Int
    BY <1>2, SumIsInt
  <1>4. QED
    BY <1>1, <1>2, <1>3, RequestLines DEF StoredPart, Summands

\* One more line moves what is stored by what it is rounded to.
LEMMA StoredGrows ==
    ASSUME NEW r \in LineSets, NEW B, NEW i \in DOMAIN r, i \notin B
    PROVE  SumFunction(StoredPart(r, B \cup {i}))
             = SumFunction(StoredPart(r, B)) + Rounded(r[i].amount)
  <1> DEFINE A == {r[j].account : j \in DOMAIN r}
             x == r[i].account
             f == StoredPart(r, B)
             h == StoredPart(r, B \cup {i})
  <1>1. x \in A /\ Rounded(r[i].amount) \in Int
    BY RequestLines, RoundedIsNear
  <1>2. h[x] = f[x] + Rounded(r[i].amount) /\ f[x] \in Int
    <2> DEFINE u == OfAccount(r, B, x)
               v == OfAccount(r, B \cup {i}, x)
    <2>1. u[i] = 0 /\ v[i] = Rounded(r[i].amount) /\ \A j \in DOMAIN r \ {i} : v[j] = u[j]
      BY DEF OfAccount
    <2>2. Summands(u, DOMAIN r) /\ Summands(v, DOMAIN r)
      BY RequestParts
    <2> HIDE DEF u, v
    <2>3. SumFunction(v) = SumFunction(u) + (v[i] - u[i]) /\ SumFunction(u) \in Int
      BY <2>1, <2>2, SumChange, SumIsInt
    <2>4. f[x] = SumFunction(u) /\ h[x] = SumFunction(v)
      BY <1>1 DEF StoredPart, u, v
    <2> HIDE DEF f, h, x
    <2>5. QED
      BY <1>1, <2>1, <2>3, <2>4
  <1>3. \A a \in A \ {x} : h[a] = f[a]
    <2> SUFFICES ASSUME NEW a \in A \ {x} PROVE h[a] = f[a]
      OBVIOUS
    <2>1. OfAccount(r, B \cup {i}, a) = OfAccount(r, B, a)
      BY DEF OfAccount
    <2>2. QED
      BY <2>1 DEF StoredPart
  <1>4. Summands(f, A) /\ Summands(h, A)
    BY RequestParts
  <1> HIDE DEF f, h, A, x
  <1>5. SumFunction(h) = SumFunction(f) + (h[x] - f[x]) /\ SumFunction(f) \in Int
    BY <1>1, <1>3, <1>4, SumChange, SumIsInt
  <1>6. QED
    BY <1>1, <1>2, <1>5 DEF f, h

LEMMA AskedGrows ==
    ASSUME NEW r \in LineSets, NEW B, NEW i \in DOMAIN r, i \notin B
    PROVE  SumFunction(Asked(r, B \cup {i})) = SumFunction(Asked(r, B)) + r[i].amount
  <1> DEFINE f == Asked(r, B)
             h == Asked(r, B \cup {i})
  <1>1. f[i] = 0 /\ h[i] = r[i].amount /\ \A j \in DOMAIN r \ {i} : h[j] = f[j]
    BY DEF Asked
  <1>2. Summands(f, DOMAIN r) /\ Summands(h, DOMAIN r) /\ r[i].amount \in Int
    BY RequestParts, RequestLines
  <1> HIDE DEF f, h
  <1>3. SumFunction(h) = SumFunction(f) + (h[i] - f[i]) /\ SumFunction(f) \in Int
    BY <1>1, <1>2, SumChange, SumIsInt
  <1>4. QED
    BY <1>1, <1>2, <1>3 DEF f, h

\* The net of an entry, twice, in cents: half a cent let pass and half a cent a line.
Near(l) == 2 * SumFunction(l) \in -(MaxLines + 1)..(MaxLines + 1)

LEMMA StoredIsNear ==
    ASSUME NEW r \in LineSets, Balanced(r) PROVE Near(Stored(r))
  <1> DEFINE D == DOMAIN r
             A == {r[i].account : i \in D}
             Off(B) == 10 * SumFunction(StoredPart(r, B)) - SumFunction(Asked(r, B))
             F == {B \in SUBSET D : Off(B) \in -(5 * Cardinality(B))..(5 * Cardinality(B))}
  <1>1. IsFiniteSet(D) /\ Cardinality(D) \in 0..MaxLines /\ MaxLines \in Nat
    BY RequestLines, LedgerConstants
  <1>2. \A B : SumFunction(StoredPart(r, B)) \in Int /\ SumFunction(Asked(r, B)) \in Int
    BY RequestParts, SumIsInt
  <1>3. {} \in F
    <2>1. SumFunction(Asked(r, {})) = 0
      <3>1. \A i \in DOMAIN r : Asked(r, {})[i] = 0
        BY DEF Asked
      <3>2. QED
        BY <3>1, RequestParts, SumOfZeros
    <2>2. \A a \in A : StoredPart(r, {})[a] = 0
      <3>1. \A a : \A i \in DOMAIN r : OfAccount(r, {}, a)[i] = 0
        BY DEF OfAccount
      <3>2. \A a : SumFunction(OfAccount(r, {}, a)) = 0
        BY <3>1, RequestParts, SumOfZeros
      <3>3. QED
        BY <3>2 DEF StoredPart
    <2>3. SumFunction(StoredPart(r, {})) = 0
      BY <2>2, RequestParts, SumOfZeros
    <2>4. QED
      BY <2>1, <2>3, FS_EmptySet
  <1>4. ASSUME NEW B \in SUBSET D, NEW i \in D, B \in F, i \notin B PROVE B \cup {i} \in F
    <2>1. /\ Cardinality(B) \in Nat /\ Cardinality(B \cup {i}) = Cardinality(B) + 1
      BY <1>1, <1>4, FS_Subset, FS_CardinalityType, FS_AddElement
    <2>2. /\ SumFunction(StoredPart(r, B \cup {i}))
                = SumFunction(StoredPart(r, B)) + Rounded(r[i].amount)
          /\ SumFunction(Asked(r, B \cup {i})) = SumFunction(Asked(r, B)) + r[i].amount
      BY <1>4, StoredGrows, AskedGrows
    <2>3. /\ r[i].amount \in Int /\ Rounded(r[i].amount) \in Int
          /\ 10 * Rounded(r[i].amount) - r[i].amount \in -5..5
      BY RequestLines, RoundedIsNear
    <2>4. \A n \in Nat, s, t, x, y \in Int :
              10 * s - t \in -(5 * n)..(5 * n) /\ 10 * x - y \in -5..5
              => 10 * (s + x) - (t + y) \in -(5 * (n + 1))..(5 * (n + 1))
      OBVIOUS
    <2>5. Off(B \cup {i}) \in -(5 * (Cardinality(B) + 1))..(5 * (Cardinality(B) + 1))
      BY <1>2, <1>4, <2>1, <2>2, <2>3, <2>4
    <2>6. QED
      BY <2>1, <2>5
  <1>5. Grows(F, D)
    BY <1>3, <1>4 DEF Grows
  <1> HIDE DEF F
  <1>6. D \in F
    BY <1>1, <1>5, SubsetSteps
  <1>7. StoredPart(r, D) = Stored(r)
    <2>1. \A a : OfAccount(r, D, a)
                = [i \in D |-> IF r[i].account = a THEN Rounded(r[i].amount) ELSE 0]
      BY DEF OfAccount
    <2>2. QED
      BY <2>1 DEF StoredPart, Stored
  <1>8. SumFunction(Asked(r, D)) \in -5..5
    <2>1. Asked(r, D) = [i \in D |-> r[i].amount]
      BY DEF Asked
    <2>2. QED
      BY <2>1 DEF Balanced
  <1>9. 10 * SumFunction(Stored(r)) - SumFunction(Asked(r, D))
            \in -(5 * Cardinality(D))..(5 * Cardinality(D))
    BY <1>6, <1>7 DEF F
  <1> HIDE DEF D
  <1>10. \A k, m \in Nat, s, t \in Int :
             k <= m /\ t \in -5..5 /\ 10 * s - t \in -(5 * k)..(5 * k)
             => 2 * s \in -(m + 1)..(m + 1)
    OBVIOUS
  <1>11. SumFunction(Stored(r)) \in Int
    BY <1>2, <1>7
  <1>12. QED
    BY <1>1, <1>2, <1>8, <1>9, <1>10, <1>11 DEF Near

-----------------------------------------------------------------------------
(* Any number of requests per entry, and statuses written by hand, but no   *)
(* route that edits lines.  The invariant: the lines a request read are     *)
(* those of an entry that exists, and stays as it is (Present, LinesHeld).  *)

NoLineEdits == "lines" \notin Generic

HasLines == {"upsert", "mark", "commit"}

LinesHeld ==
    \A p \in Procs : tx[p].pc \in HasLines => tx[p].lines = entry[tx[p].id].lines
Present == \A p \in Procs : tx[p].pc # "idle" => entry[tx[p].id].status # "absent"
Unused == \A e \in Entries : entry[e].status = "absent" => queue[e] = "none" /\ applied[e] = 0
AllBalanced == \A e \in Entries : Near(entry[e].lines)

Pinned == Present /\ LinesHeld /\ CorrFree
LInv == TypeOK /\ Pinned /\ Unused /\ AllBalanced

\* What every step does to the tables: entries only appear, balanced, and only
\* a post adds to the balances.
EntriesStay ==
    \A x \in Entries : entry[x].status # "absent" =>
        entry'[x].status # "absent" /\ entry'[x].lines = entry[x].lines
                                    /\ entry'[x].date = entry[x].date
LinesBalance == \A x \in Entries : entry'[x].lines = entry[x].lines \/ Near(entry'[x].lines)
QueueFollows == \A x \in Entries : entry'[x].status = "absent" => queue'[x] = queue[x]
Books(e) ==
    /\ entry[e].status # "absent"
    /\ ledger' = Added(ledger, entry[e].lines, entry[e].date)
    /\ applied' = [applied EXCEPT ![e] = applied[e] + 1]

Moves ==
    /\ EntriesStay /\ LinesBalance /\ QueueFollows
    /\ UNCHANGED <<ledger, applied>> \/ \E e \in Entries : Books(e)

LEMMA StayMoves ==
    ASSUME UNCHANGED <<entry, queue, ledger, applied>> PROVE Moves
  BY DEF Moves, EntriesStay, LinesBalance, QueueFollows

LEMMA PinnedStep ==
    ASSUME TxOK, Pinned, EntriesStay, NEW p \in Procs, NEW t, tx' = [tx EXCEPT ![p] = t],
           t.pc # "idle" => t.id \in Entries /\ entry'[t.id].status # "absent",
           t.pc \in HasLines => t.lines = entry'[t.id].lines,
           t.op = "reverse" =>
               /\ t.corr \in Entries /\ entry'[t.corr].status = "absent"
               /\ \A q \in Procs \ {p} : tx[q].corr # t.corr,
           t.op # "reverse" => t.corr \in {NoEntry, tx[p].corr},
           \A q \in Procs \ {p} : tx[q].op = "reverse" => entry'[tx[q].corr].status = "absent"
    PROVE  Pinned'
  <1>1. \A q \in Procs : tx'[q] = IF q = p THEN t ELSE tx[q]
    BY DEF TxOK
  <1>2. \A q \in Procs : /\ tx[q].pc # "idle" => tx[q].id \in Entries
                         /\ tx[q].pc \in HasLines => tx[q].pc # "idle"
                         /\ tx[q].op = "reverse" => tx[q].corr \in Entries
    BY DEF TxOK, HasLines, Idle
  <1>3. Present'
    BY <1>1, <1>2 DEF Pinned, Present, EntriesStay
  <1>4. LinesHeld'
    BY <1>1, <1>2 DEF Pinned, Present, LinesHeld, EntriesStay
  <1>5. CorrFree'
    BY <1>1, <1>2, LedgerConstants DEF Pinned, CorrFree
  <1>6. QED
    BY <1>3, <1>4, <1>5 DEF Pinned

\* Entries appear or change status under the requests in flight.
LEMMA PinnedUnder ==
    ASSUME TxOK, Pinned, EntriesStay, UNCHANGED tx,
           \A q \in Procs : tx[q].op = "reverse" => entry'[tx[q].corr].status = "absent"
    PROVE  Pinned'
  <1>1. \A q \in Procs : /\ tx[q].pc # "idle" => tx[q].id \in Entries
                         /\ tx[q].pc \in HasLines => tx[q].pc # "idle"
    BY DEF TxOK, HasLines
  <1>2. QED
    BY <1>1 DEF Pinned, Present, LinesHeld, CorrFree, EntriesStay

LEMMA EndTxPinned ==
    ASSUME TxOK, Pinned, NEW p \in Procs, EndTx(p), EntriesStay,
           \A q \in Procs \ {p} : tx[q].op = "reverse" => entry'[tx[q].corr].status = "absent"
    PROVE  Pinned'
  <1>1. /\ Idle.pc = "idle" /\ Idle.op = "none" /\ Idle.corr = NoEntry
        /\ tx' = [tx EXCEPT ![p] = Idle]
    BY DEF Idle, EndTx
  <1>2. QED
    BY <1>1, PinnedStep DEF HasLines

LEMMA NoLinesIsNear == Near(NoLines)
  <1>1. SumFunction(NoLines) = 0
    BY NoLinesIsLines, LinesAreSummands, SumOfZeros DEF NoLines
  <1>2. MaxLines \in Nat
    BY LedgerConstants
  <1>3. QED
    BY <1>1, <1>2 DEF Near

LEMMA CreateMoves ==
    ASSUME LInv, NEW e \in Entries, Create(e) PROVE Pinned' /\ Moves
  <1>1. PICK d \in Dates, s \in Births :
            (\E r \in LineSets : CreateJournalEntry(e, r, d, s)) \/ CreateBare(e, d, s)
    BY DEF Create
  <1>2. s # "absent"
    BY LedgerConstants DEF Statuses
  <1>3. \E l : /\ entry' = [entry EXCEPT ![e] = [status |-> s, lines |-> l, date |-> d,
                                                  corrects |-> NoEntry]]
               /\ Near(l)
    <2>1. ASSUME NEW r \in LineSets, CreateJournalEntry(e, r, d, s)
          PROVE  /\ entry' = [entry EXCEPT ![e] = [status |-> s, lines |-> Stored(r), date |-> d,
                                                   corrects |-> NoEntry]]
                 /\ Near(Stored(r))
      BY <2>1, StoredIsNear DEF CreateJournalEntry, InsertEntry
    <2>2. CreateBare(e, d, s) =>
              entry' = [entry EXCEPT ![e] = [status |-> s, lines |-> NoLines, date |-> d,
                                             corrects |-> NoEntry]]
      BY DEF CreateBare, Absent
    <2>3. QED
      BY <1>1, <2>1, <2>2, NoLinesIsNear
  <1>4. PICK l : /\ entry' = [entry EXCEPT ![e] = [status |-> s, lines |-> l, date |-> d,
                                                   corrects |-> NoEntry]]
                 /\ Near(l)
    BY <1>3
  <1>5. /\ entry[e].status = "absent" /\ \A q \in Procs : tx[q].corr # e
        /\ UNCHANGED <<ledger, applied, tx>>
        /\ \A x \in Entries \ {e} : queue'[x] = queue[x]
    BY <1>1 DEF CreateJournalEntry, InsertEntry, CreateBare, Fresh, LInv, TypeOK
  <1>6. /\ \A x \in Entries \ {e} : entry'[x] = entry[x]
        /\ entry'[e].status = s /\ entry'[e].lines = l
    BY <1>4 DEF LInv, TypeOK
  <1>7. Moves
    BY <1>2, <1>4, <1>5, <1>6 DEF Moves, EntriesStay, LinesBalance, QueueFollows
  <1>8. \A q \in Procs : tx[q].op = "reverse" => entry'[tx[q].corr].status = "absent"
    BY <1>5, <1>6 DEF LInv, TypeOK, TxOK, Pinned, CorrFree, Idle
  <1>9. QED
    BY <1>5, <1>7, <1>8, PinnedUnder DEF LInv, TypeOK, Moves

LEMMA GenericsMoves ==
    ASSUME NoLineEdits, LInv, NEW e \in Entries, Generics(e) PROVE Pinned' /\ Moves
  <1>1. ASSUME NEW s \in Statuses, WriteEntryStatus(e, s) PROVE Pinned' /\ Moves
    <2>1. /\ entry[e].status # "absent" /\ s # "absent"
          /\ entry' = [entry EXCEPT ![e].status = s] /\ UNCHANGED <<queue, ledger, applied, tx>>
      BY <1>1 DEF WriteEntryStatus, Statuses
    <2>2. /\ \A x \in Entries \ {e} : entry'[x] = entry[x]
          /\ entry'[e].status = s /\ entry'[e].lines = entry[e].lines
          /\ entry'[e].date = entry[e].date
      BY <2>1 DEF LInv, TypeOK, EntryRecord
    <2>3. Moves
      BY <2>1, <2>2 DEF Moves, EntriesStay, LinesBalance, QueueFollows
    <2>4. \A q \in Procs : tx[q].op = "reverse" => entry'[tx[q].corr].status = "absent"
      BY <2>1, <2>2 DEF LInv, TypeOK, TxOK, Pinned, CorrFree, Idle
    <2>5. QED
      BY <2>1, <2>3, <2>4, PinnedUnder DEF LInv, TypeOK, Moves
  <1>2. ASSUME NEW s \in {"pending", "posted", "failed"}, WriteQueueStatus(e, s)
        PROVE  Pinned' /\ Moves
    <2>1. /\ queue[e] # "none" /\ UNCHANGED <<entry, ledger, applied, tx>>
          /\ \A x \in Entries \ {e} : queue'[x] = queue[x]
      BY <1>2 DEF WriteQueueStatus, LInv, TypeOK
    <2>2. entry[e].status # "absent"
      BY <2>1 DEF LInv, Unused
    <2>3. Moves
      BY <2>1, <2>2 DEF Moves, EntriesStay, LinesBalance, QueueFollows
    <2>4. QED
      BY <2>1, <2>3, PinnedUnder DEF LInv, TypeOK, Moves, Pinned, CorrFree
  <1>3. QED
    BY <1>1, <1>2 DEF Generics, WriteLine, NoLineEdits

LEMMA OpenPostMoves ==
    ASSUME LInv, NEW p \in Procs, NEW e \in Entries, PostSelect(p, e) PROVE Pinned' /\ Moves
  <1> DEFINE t == [Idle EXCEPT !.pc = "lines", !.op = "post", !.id = e]
  <1>1. t.pc = "lines" /\ t.op = "post" /\ t.id = e /\ t.corr = NoEntry
    BY DEF Idle
  <1>2. /\ tx' = [tx EXCEPT ![p] = t] /\ UNCHANGED <<entry, queue, ledger, applied>>
        /\ entry[e].status = "pending"
    BY DEF PostSelect, OpenPost
  <1>3. Moves
    BY <1>2, StayMoves
  <1> HIDE DEF t
  <1>4. QED
    BY <1>1, <1>2, <1>3, PinnedStep DEF LInv, TypeOK, HasLines, Moves, Pinned, CorrFree

LEMMA RequestMoves ==
    ASSUME LInv, NEW p \in Procs, Request(p) PROVE Pinned' /\ Moves
  <1>1. ASSUME NEW e \in Entries, Post(p, e) PROVE Pinned' /\ Moves
    BY <1>1, OpenPostMoves DEF Post
  <1>2. ASSUME NEW e \in Entries, Retry(p, e) PROVE Pinned' /\ Moves
    <2> DEFINE t == [Idle EXCEPT !.pc = "select", !.op = "post", !.id = e]
    <2>1. t.pc = "select" /\ t.op = "post" /\ t.id = e /\ t.corr = NoEntry
      BY DEF Idle
    <2>2. /\ tx' = [tx EXCEPT ![p] = t] /\ UNCHANGED <<entry, queue, ledger, applied>>
          /\ queue[e] = "failed"
      BY <1>2 DEF Retry
    <2>3. Moves /\ entry[e].status # "absent"
      BY <2>2, StayMoves DEF LInv, Unused
    <2> HIDE DEF t
    <2>4. QED
      BY <2>1, <2>2, <2>3, PinnedStep DEF LInv, TypeOK, HasLines, Moves, Pinned, CorrFree
  <1>3. ASSUME NEW e \in Entries, NEW c \in Entries, Reverse(p, e, c) PROVE Pinned' /\ Moves
    <2> DEFINE t == [Idle EXCEPT !.pc = "lines", !.op = "reverse", !.id = e, !.corr = c]
    <2>1. t.pc = "lines" /\ t.op = "reverse" /\ t.id = e /\ t.corr = c
      BY DEF Idle
    <2>2. /\ tx' = [tx EXCEPT ![p] = t] /\ UNCHANGED <<entry, queue, ledger, applied>>
          /\ \A q \in Procs : tx[q].corr # c
          /\ entry[e].status = "posted" /\ entry[c].status = "absent"
      BY <1>3 DEF Reverse, OpenReverse, Fresh
    <2>3. Moves
      BY <2>2, StayMoves
    <2> HIDE DEF t
    <2>4. QED
      BY <2>1, <2>2, <2>3, PinnedStep DEF LInv, TypeOK, HasLines, Moves, Pinned, CorrFree
  <1>4. QED
    BY <1>1, <1>2, <1>3 DEF Request

LEMMA CommitPostMoves ==
    ASSUME LInv, NEW p \in Procs, CommitPost(p) PROVE Pinned' /\ Moves
  <1> DEFINE e == tx[p].id
  <1>1. e \in Entries /\ tx[p].pc = "commit" /\ tx[p].op = "post"
    BY RunningTx DEF CommitPost, LInv, TypeOK
  <1>2. entry[e].status # "absent" /\ tx[p].lines = entry[e].lines
    BY <1>1 DEF LInv, Pinned, Present, LinesHeld, HasLines
  <1>3. /\ entry' = [entry EXCEPT ![e].status = "posted"]
        /\ queue' = [queue EXCEPT ![e] = IF queue[e] = "none" THEN "none" ELSE "posted"]
        /\ Books(e) /\ EndTx(p)
    BY <1>2 DEF CommitPost, Books
  <1>4. /\ \A x \in Entries \ {e} : entry'[x] = entry[x] /\ queue'[x] = queue[x]
        /\ entry'[e].status = "posted" /\ entry'[e].lines = entry[e].lines
        /\ entry'[e].date = entry[e].date
    BY <1>1, <1>3 DEF LInv, TypeOK, EntryRecord
  <1> HIDE DEF e
  <1>5. Moves
    BY <1>1, <1>2, <1>3, <1>4 DEF Moves, EntriesStay, LinesBalance, QueueFollows
  <1>6. \A q \in Procs : tx[q].op = "reverse" => entry'[tx[q].corr].status = "absent"
    BY <1>2, <1>4 DEF LInv, TypeOK, TxOK, Pinned, CorrFree, Idle
  <1>7. QED
    BY <1>3, <1>5, <1>6, EndTxPinned DEF LInv, TypeOK, Moves

LEMMA CommitReverseMoves ==
    ASSUME LInv, NEW p \in Procs, CommitReverse(p) PROVE Pinned' /\ Moves
  <1> DEFINE e == tx[p].id
             c == tx[p].corr
             l == Flipped(tx[p].lines)
  <1>1. /\ e \in Entries /\ c \in Entries /\ tx[p].pc = "commit" /\ tx[p].op = "reverse"
    BY RunningTx DEF CommitReverse, LInv, TypeOK
  <1>2. /\ entry[e].status # "absent" /\ tx[p].lines = entry[e].lines
        /\ entry[c].status = "absent" /\ c # e
        /\ \A q \in Procs \ {p} : tx[q].corr # c
    BY <1>1 DEF LInv, Pinned, Present, LinesHeld, CorrFree, HasLines
  <1>3. Near(l)
    <2>1. entry[e].lines \in Lines /\ Near(entry[e].lines)
      BY <1>1 DEF LInv, TypeOK, EntryRecord, AllBalanced
    <2>2. SumFunction(l) = -SumFunction(entry[e].lines) /\ SumFunction(entry[e].lines) \in Int
      BY <1>2, <2>1, FlippedSum, LinesAreSummands, SumIsInt
    <2>3. MaxLines \in Nat
      BY LedgerConstants
    <2> HIDE DEF l
    <2>4. QED
      BY <2>1, <2>2, <2>3 DEF Near
  <1>4. /\ EndTx(p) /\ UNCHANGED <<ledger, applied>>
        /\ \A x \in Entries : x # e /\ x # c => entry'[x] = entry[x]
        /\ \A x \in Entries \ {c} : queue'[x] = queue[x]
        /\ entry'[e].status = "reversed" /\ entry'[e].lines = entry[e].lines
        /\ entry'[e].date = entry[e].date
        /\ entry'[c].status = "pending" /\ entry'[c].lines = l
    BY <1>1, <1>2 DEF CommitReverse, LInv, TypeOK, EntryRecord
  <1> HIDE DEF e, c, l
  <1>5. Moves
    BY <1>1, <1>2, <1>3, <1>4 DEF Moves, EntriesStay, LinesBalance, QueueFollows
  <1>6. \A q \in Procs \ {p} : tx[q].op = "reverse" => entry'[tx[q].corr].status = "absent"
    BY <1>2, <1>4 DEF LInv, TypeOK, TxOK, Pinned, CorrFree, Idle
  <1>7. QED
    BY <1>4, <1>5, <1>6, EndTxPinned DEF LInv, TypeOK, Moves

LEMMA ProgressMoves ==
    ASSUME LInv, NEW p \in Procs, Progress(p) \/ Abort(p) PROVE Pinned' /\ Moves
  <1>0. TxOK /\ Pinned
    BY DEF LInv, TypeOK
  <1>1. CASE RetrySelect(p)
    BY <1>0, <1>1, RunningTx, OpenPostMoves DEF RetrySelect
  <1>2. CASE RetryRefused(p) \/ AbortDeadlock(p) \/ Abort(p)
    <2>1. EndTx(p) /\ UNCHANGED <<entry, queue, ledger, applied>>
      BY <1>2 DEF RetryRefused, AbortDeadlock, Abort
    <2>2. Moves
      BY <2>1, StayMoves
    <2>3. QED
      BY <1>0, <2>1, <2>2, EndTxPinned DEF Moves, Pinned, CorrFree
  <1> DEFINE Kept(t) == /\ t.id = tx[p].id /\ t.op = tx[p].op /\ t.corr = tx[p].corr
                        /\ t.pc \in HasLines => t.lines = entry[t.id].lines
  <1>3. ASSUME NEW t, Kept(t), tx[p].pc # "idle", tx' = [tx EXCEPT ![p] = t],
               UNCHANGED <<entry, queue, ledger, applied>>
        PROVE  Pinned' /\ Moves
    <2>1. tx[p].id \in Entries /\ entry[tx[p].id].status # "absent"
      BY <1>0, <1>3, RunningTx DEF Pinned, Present
    <2>2. t.op = "reverse" => /\ t.corr \in Entries /\ entry[t.corr].status = "absent"
                              /\ \A q \in Procs \ {p} : tx[q].corr # t.corr
      BY <1>0, <1>3, RunningTx DEF Pinned, CorrFree
    <2>3. Moves
      BY <1>3, StayMoves
    <2>4. QED
      BY <1>0, <1>3, <2>1, <2>2, <2>3, PinnedStep DEF Moves, Pinned, CorrFree
  <1>4. CASE ReadLines(p)
    <2> DEFINE t == [tx[p] EXCEPT
                 !.lines = entry[tx[p].id].lines,
                 !.todo = IF tx[p].op = "post" THEN DOMAIN entry[tx[p].id].lines ELSE {},
                 !.pc = IF tx[p].op = "post" /\ DOMAIN entry[tx[p].id].lines # {}
                        THEN "upsert" ELSE "mark"]
    <2>1. tx' = [tx EXCEPT ![p] = t]
      BY <1>0, <1>4 DEF ReadLines, TxOK
    <2>2. Kept(t) /\ tx[p].pc # "idle"
      BY <1>0, <1>4 DEF ReadLines, TxOK, TxRecord, HasLines
    <2> HIDE DEF t
    <2>3. QED
      BY <1>3, <1>4, <2>1, <2>2 DEF ReadLines
  <1>5. ASSUME NEW a \in Accounts, UpsertBalance(p, a) PROVE Pinned' /\ Moves
    <2> DEFINE t == [tx[p] EXCEPT !.todo = tx[p].todo \ {a},
                                  !.pc = IF tx[p].todo = {a} THEN "mark" ELSE "upsert"]
    <2>1. tx' = [tx EXCEPT ![p] = t]
      BY <1>0, <1>5 DEF UpsertBalance, TxOK
    <2>2. Kept(t) /\ tx[p].pc # "idle"
      BY <1>0, <1>5 DEF UpsertBalance, TxOK, TxRecord, HasLines, Pinned, LinesHeld
    <2> HIDE DEF t
    <2>3. QED
      BY <1>3, <1>5, <2>1, <2>2 DEF UpsertBalance
  <1>6. CASE MarkEntry(p)
    <2> DEFINE t == [tx[p] EXCEPT !.pc = "commit"]
    <2>1. tx' = [tx EXCEPT ![p] = t]
      BY <1>0, <1>6 DEF MarkEntry, TxOK
    <2>2. Kept(t) /\ tx[p].pc # "idle"
      BY <1>0, <1>6 DEF MarkEntry, TxOK, TxRecord, HasLines, Pinned, LinesHeld
    <2> HIDE DEF t
    <2>3. QED
      BY <1>3, <1>6, <2>1, <2>2 DEF MarkEntry
  <1>7. QED
    BY <1>1, <1>2, <1>4, <1>5, <1>6, CommitPostMoves, CommitReverseMoves DEF Progress

LEMMA LInvInit == Init => LInv
  <1>1. Init => Pinned /\ Unused
    BY IdleIsTx DEF Init, Pinned, Present, LinesHeld, CorrFree, Unused, Idle, HasLines
  <1>3. Init => AllBalanced
    BY NoLinesIsNear DEF Init, AllBalanced, Absent
  <1>4. QED
    BY <1>1, <1>3, InitType DEF LInv

LEMMA LInvStep == ASSUME NoLineEdits, LInv, [Next]_vars PROVE LInv' /\ Moves
  <1>1. TypeOK'
    BY TypeStep DEF LInv
  <1>2. CASE UNCHANGED vars
    <2>1. UNCHANGED <<entry, queue, ledger, tx, applied>>
      BY <1>2 DEF vars
    <2>2. Moves
      BY <2>1, StayMoves
    <2>3. QED
      BY <1>1, <2>1, <2>2
         DEF LInv, Pinned, Present, LinesHeld, CorrFree, Unused, AllBalanced
  <1>3. CASE Next
    <2>1. Pinned' /\ Moves
      BY <1>3, CreateMoves, GenericsMoves, RequestMoves, ProgressMoves DEF Next
    <2>2. \A x \in Entries : entry'[x].status = "absent" => entry[x].status = "absent"
      BY <2>1 DEF Moves, EntriesStay
    <2>3. \A x \in Entries : entry'[x].status = "absent" => applied'[x] = applied[x]
      BY <2>1, <2>2 DEF Moves, Books, LInv, TypeOK
    <2>4. Unused'
      BY <2>1, <2>2, <2>3 DEF Moves, QueueFollows, LInv, Unused
    <2>5. AllBalanced'
      BY <2>1 DEF Moves, LinesBalance, LInv, AllBalanced
    <2>6. QED
      BY <1>1, <2>1, <2>4, <2>5 DEF LInv
  <1>4. QED
    BY <1>2, <1>3

\* The invariant of the instances in which no route edits lines.
THEOREM LinesStay == ASSUME NoLineEdits PROVE Spec => []LInv
  <1>1. LInv /\ [Next]_vars => LInv'
    BY LInvStep
  <1>2. QED
    BY <1>1, LInvInit, PTL DEF Spec

-----------------------------------------------------------------------------
(* The balances.                                                           *)

LEMMA BalanceStep ==
    ASSUME LInv, BooksBalance, Moves PROVE BooksBalance'
  <1> DEFINE N == SumFunction(applied)
             S == SumFunction(ledger)
             k == MaxLines + 1
  <1>1. CASE UNCHANGED <<ledger, applied>>
    BY <1>1 DEF BooksBalance
  <1>2. ASSUME NEW e \in Entries, Books(e) PROVE BooksBalance'
    <2> DEFINE m == SumFunction(entry[e].lines)
    <2>1. /\ ledger \in [Rows -> Int] /\ applied \in [Entries -> Nat]
          /\ entry[e].lines \in Lines /\ entry[e].date \in Dates /\ 2 * m \in -k..k
      BY DEF LInv, TypeOK, EntryRecord, AllBalanced, Near
    <2>2. SumFunction(ledger') = S + m
      BY <1>2, <2>1, PostingSum DEF Books
    <2>3. SumFunction(applied') = N + 1 /\ N \in Int
      <3>1. Summands(applied, Entries) /\ Summands(applied', Entries)
        BY <1>2, <2>1, LedgerConstants DEF Books, Summands
      <3>2. applied'[e] = applied[e] + 1 /\ \A x \in Entries \ {e} : applied'[x] = applied[x]
        BY <1>2, <2>1 DEF Books
      <3>3. applied[e] \in Int
        BY <2>1
      <3>4. SumFunction(applied') = N + (applied'[e] - applied[e]) /\ N \in Int
        BY <3>1, <3>2, SumChange, SumIsInt
      <3> HIDE DEF N
      <3>5. QED
        BY <3>2, <3>3, <3>4
    <2>4. S \in Int /\ m \in Int /\ k \in Nat
      <3>1. Summands(ledger, Rows)
        BY <2>1, FS_Product, LedgerConstants DEF Summands, Rows
      <3>2. QED
        BY <2>1, <3>1, LinesAreSummands, SumIsInt, LedgerConstants
    <2>5. 2 * S \in -(N * k)..(N * k)
      BY DEF BooksBalance
    <2>6. \A n, s, u \in Int, j \in Nat :
              2 * s \in -(n * j)..(n * j) /\ 2 * u \in -j..j
              => 2 * (s + u) \in -((n + 1) * j)..((n + 1) * j)
      <3> SUFFICES ASSUME NEW n \in Int, NEW s \in Int, NEW u \in Int, NEW j \in Nat,
                          2 * s \in -(n * j)..(n * j), 2 * u \in -j..j
                   PROVE  2 * (s + u) \in -((n + 1) * j)..((n + 1) * j)
        OBVIOUS
      <3>1. (n + 1) * j = n * j + j /\ n * j \in Int
        OBVIOUS
      <3> DEFINE b == n * j
      <3>2. b \in Int /\ 2 * s \in -b..b /\ (n + 1) * j = b + j
        BY <3>1
      <3> HIDE DEF b
      <3>3. 2 * (s + u) \in -(b + j)..(b + j)
        BY <3>2
      <3>4. QED
        BY <3>2, <3>3
    <2> HIDE DEF N, S, k, m
    <2>7. 2 * (S + m) \in -((N + 1) * k)..((N + 1) * k)
      BY <2>1, <2>3, <2>4, <2>5, <2>6
    <2>8. QED
      BY <2>2, <2>3, <2>7 DEF BooksBalance, k
  <1>3. QED
    BY <1>1, <1>2 DEF Moves

\* Debits equal credits over all accounts and dates but for what the check of
\* createJournalEntry lets pass and rounding adds, whoever posts what twice.
THEOREM BooksStayBalanced == ASSUME NoLineEdits PROVE Spec => []BooksBalance
  <1>1. Init => BooksBalance
    <2> SUFFICES ASSUME Init PROVE SumFunction(ledger) = 0 /\ SumFunction(applied) = 0
      BY LedgerConstants DEF BooksBalance
    <2>1. IsFiniteSet(Rows) /\ IsFiniteSet(Entries)
      BY FS_Product, LedgerConstants DEF Rows
    <2>2. Summands(ledger, Rows) /\ Summands(applied, Entries)
      BY <2>1 DEF Init, Summands
    <2>3. QED
      BY <2>2, SumOfZeros DEF Init
  <1>2. LInv /\ BooksBalance /\ [Next]_vars => BooksBalance'
    BY LInvStep, BalanceStep
  <1>3. QED
    BY <1>1, <1>2, LinesStay, PTL DEF Spec

\* What was posted to the row r, entry by entry.
Postings(r) == [e \in Entries |->
    IF entry[e].date = r[2] THEN applied[e] * Net(entry[e].lines, r[1]) ELSE 0]

LEMMA PostingsAreSummands ==
    ASSUME TypeOK, NEW r \in Rows PROVE Summands(Postings(r), Entries)
  <1>1. \A e \in Entries : applied[e] \in Nat /\ Net(entry[e].lines, r[1]) \in Int
    BY NetIsInt DEF TypeOK, EntryRecord
  <1>2. \A e \in Entries : Postings(r)[e] \in Int
    BY <1>1 DEF Postings
  <1>3. QED
    BY <1>2, LedgerConstants DEF Postings, Summands

LEMMA PostingsStep ==
    ASSUME LInv, TypeOK', LedgerIsSumOfPostings, Moves PROVE LedgerIsSumOfPostings'
  <1> SUFFICES ASSUME NEW r \in Rows PROVE ledger'[r] = SumFunction(Postings(r)')
    BY DEF LedgerIsSumOfPostings, Postings
  <1>1. ledger[r] = SumFunction(Postings(r)) /\ ledger[r] \in Int
    BY DEF LedgerIsSumOfPostings, Postings, LInv, TypeOK
  <1>2. Summands(Postings(r), Entries)
    BY PostingsAreSummands DEF LInv
  <1>3. \A e \in Entries : /\ applied[e] \in Nat /\ Net(entry[e].lines, r[1]) \in Int
                           /\ Net(entry'[e].lines, r[1]) \in Int
    BY NetIsInt DEF LInv, TypeOK, EntryRecord
  <1>4. ASSUME NEW x \in Entries, applied'[x] = applied[x]
        PROVE  Postings(r)'[x] = Postings(r)[x]
    <2>1. CASE entry[x].status = "absent"
      <3>1. applied[x] = 0 /\ applied'[x] = 0
        BY <1>4, <2>1 DEF LInv, Unused
      <3>2. QED
        BY <1>3, <3>1 DEF Postings
    <2>2. CASE entry[x].status # "absent"
      BY <1>4, <2>2 DEF Moves, EntriesStay, Postings
    <2>3. QED
      BY <2>1, <2>2
  <1>5. CASE UNCHANGED <<ledger, applied>>
    <2>1. \A x \in Entries : Postings(r)'[x] = Postings(r)[x]
      BY <1>4, <1>5
    <2>2. Postings(r)' = Postings(r)
      BY <2>1 DEF Postings
    <2>3. QED
      BY <1>1, <1>5, <2>2
  <1>6. ASSUME NEW e \in Entries, Books(e) PROVE ledger'[r] = SumFunction(Postings(r)')
    <2> DEFINE n == IF entry[e].date = r[2] THEN Net(entry[e].lines, r[1]) ELSE 0
               f == Postings(r)
    <2>1. /\ entry'[e].lines = entry[e].lines /\ entry'[e].date = entry[e].date
          /\ applied'[e] = applied[e] + 1
          /\ \A x \in Entries \ {e} : applied'[x] = applied[x]
      BY <1>6 DEF Books, Moves, EntriesStay, LInv, TypeOK
    <2>2. \A x \in Entries \ {e} : f'[x] = f[x]
      BY <1>4, <2>1
    <2>3. f'[e] = f[e] + n /\ f[e] \in Int /\ n \in Int
      <3> DEFINE N == Net(entry[e].lines, r[1])
      <3>1. /\ f[e] = IF entry[e].date = r[2] THEN applied[e] * N ELSE 0
            /\ f'[e] = IF entry[e].date = r[2] THEN (applied[e] + 1) * N ELSE 0
        BY <2>1 DEF Postings
      <3>2. N \in Int /\ applied[e] \in Nat
        BY <1>3
      <3>3. \A k \in Nat, m \in Int : (k + 1) * m = k * m + m /\ k * m \in Int
        OBVIOUS
      <3> HIDE DEF N, f
      <3>4. QED
        BY <3>1, <3>2, <3>3 DEF N
    <2>4. Summands(f', Entries)
      <3>1. \A x \in Entries : f'[x] \in Int
        BY <1>2, <2>2, <2>3 DEF Summands
      <3>2. DOMAIN f' = Entries
        BY DEF Postings
      <3>3. QED
        BY <3>1, <3>2, LedgerConstants DEF Summands
    <2>5. ledger'[r] = ledger[r] + n
      BY <1>1, <1>6 DEF Books, Added
    <2> HIDE DEF n, f
    <2>6. SumFunction(f') = SumFunction(f) + (f'[e] - f[e])
      BY <1>2, <2>2, <2>4, SumChange DEF f
    <2>7. QED
      BY <1>1, <2>3, <2>5, <2>6 DEF f
  <1>7. QED
    BY <1>5, <1>6 DEF Moves

\* No increment of a post is lost, and none survives a rollback.
THEOREM LedgerIsSum == ASSUME NoLineEdits PROVE Spec => []LedgerIsSumOfPostings
  <1>1. Init => LedgerIsSumOfPostings
    <2> SUFFICES ASSUME Init, NEW r \in Rows PROVE SumFunction(Postings(r)) = 0
      BY DEF LedgerIsSumOfPostings, Postings, Init
    <2>1. \A e \in Entries : Postings(r)[e] = 0
      BY NetIsInt, NoLinesIsLines DEF Init, Postings, Absent
    <2>2. QED
      BY <2>1, SumOfZeros, PostingsAreSummands, InitType
  <1>2. LInv /\ LedgerIsSumOfPostings /\ [Next]_vars => LedgerIsSumOfPostings'
    BY LInvStep, PostingsStep DEF LInv
  <1>3. QED
    BY <1>1, <1>2, LinesStay, PTL DEF Spec

-----------------------------------------------------------------------------
(* The queue, as long as its status is not written by hand.                 *)

\* A queue row says posted only of an entry that is in the ledger.
THEOREM QueueTellsTheTruth ==
    ASSUME "queue_status" \notin Generic PROVE Spec => []QueueAgrees
  <1>1. Init => QueueAgrees
    BY DEF Init, QueueAgrees
  <1>2. TypeOK /\ QueueAgrees /\ [Next]_vars => QueueAgrees'
    <2> SUFFICES ASSUME TypeOK, QueueAgrees, [Next]_vars PROVE QueueAgrees'
      OBVIOUS
    <2>1. ASSUME UNCHANGED <<queue, applied>> PROVE QueueAgrees'
      BY <2>1 DEF QueueAgrees
    <2>2. ASSUME NEW e \in Entries, Create(e) PROVE QueueAgrees'
      BY <2>2 DEF Create, CreateJournalEntry, InsertEntry, CreateBare, QueueAgrees, TypeOK
    <2>3. ASSUME NEW e \in Entries, Generics(e) PROVE QueueAgrees'
      BY <2>1, <2>3 DEF Generics, WriteLine, WriteEntryStatus, WriteQueueStatus
    <2>4. ASSUME NEW p \in Procs, Request(p) PROVE QueueAgrees'
      BY <2>1, <2>4 DEF Request, Post, PostSelect, OpenPost, Retry, Reverse, OpenReverse
    <2>5. ASSUME NEW p \in Procs, Progress(p) \/ Abort(p) PROVE QueueAgrees'
      <3>1. CASE CommitPost(p)
        <4>1. tx[p].id \in Entries
          BY <3>1, RunningTx DEF CommitPost, TypeOK
        <4>2. QED
          BY <3>1, <4>1 DEF CommitPost, QueueAgrees, TypeOK
      <3>2. CASE CommitReverse(p)
        <4>1. tx[p].corr \in Entries
          BY <3>2, RunningTx DEF CommitReverse, TypeOK
        <4>2. QED
          BY <3>2, <4>1 DEF CommitReverse, QueueAgrees, TypeOK
      <3>3. QED
        BY <2>1, <2>5, <3>1, <3>2 DEF Progress, RetrySelect, PostSelect, OpenPost,
           RetryRefused, ReadLines, UpsertBalance, MarkEntry, AbortDeadlock, Abort
    <2>6. CASE UNCHANGED vars
      BY <2>1, <2>6 DEF vars
    <2>7. QED
      BY <2>2, <2>3, <2>4, <2>5, <2>6 DEF Next
  <1>3. QED
    BY <1>1, <1>2, TypeCorrect, PTL DEF Spec

-----------------------------------------------------------------------------
(* Refinement, for entries that are born pending and keep their lines.  A   *)
(* creation enters, a commit books or undoes, and no other step touches the *)
(* entries or the balances.                                                 *)

Restricted == Exclusive /\ NoLineEdits /\ Births \subseteq {"pending"}

LEMMA CreateRefines ==
    ASSUME Restricted, IInv, NEW e \in Entries, Create(e)
    PROVE  Abstract!Enter(e)
  <1>1. PICK d \in Dates :
            (\E r \in LineSets : CreateJournalEntry(e, r, d, "pending"))
            \/ CreateBare(e, d, "pending")
    BY DEF Create, Restricted
  <1>2. \E l \in Lines : entry' = [entry EXCEPT ![e] =
            [status |-> "pending", lines |-> l, date |-> d, corrects |-> NoEntry]]
    <2>1. ASSUME NEW r \in LineSets, CreateJournalEntry(e, r, d, "pending")
          PROVE  /\ entry' = [entry EXCEPT ![e] = [status |-> "pending", lines |-> Stored(r),
                                                   date |-> d, corrects |-> NoEntry]]
                 /\ Stored(r) \in Lines
      BY <2>1, LedgerConstants DEF CreateJournalEntry, InsertEntry
    <2>2. CreateBare(e, d, "pending") =>
              entry' = [entry EXCEPT ![e] = [status |-> "pending", lines |-> NoLines,
                                             date |-> d, corrects |-> NoEntry]]
      BY DEF CreateBare, Absent
    <2>3. QED
      BY <1>1, <2>1, <2>2, NoLinesIsLines
  <1>3. PICK l \in Lines : entry' = [entry EXCEPT ![e] =
            [status |-> "pending", lines |-> l, date |-> d, corrects |-> NoEntry]]
    BY <1>2
  <1>4. entry[e].status = "absent" /\ ledger' = ledger
    BY <1>1 DEF CreateJournalEntry, InsertEntry, CreateBare, Fresh
  <1>5. /\ entry'[e].lines = l /\ entry'[e].date = d
    BY <1>3 DEF IInv, TypeOK
  <1>6. QED
    BY <1>3, <1>4, <1>5 DEF Abstract!Enter, Abstract!Entered, Abstract!Lines, Lines

LEMMA CommitPostRefines ==
    ASSUME IInv, LInv, NEW p \in Procs, CommitPost(p)
    PROVE  \E e \in Entries : Abstract!Book(e)
  <1> DEFINE e == tx[p].id
             l == entry[e].lines
             d == entry[e].date
  <1>1. e \in Entries
    BY RunningTx DEF CommitPost, IInv, TypeOK
  <1>2. entry[e].status = "pending" /\ tx[p].lines = l
    BY DEF CommitPost, IInv, Held, StatusHeld, LInv, Pinned, LinesHeld, InTx, HasLines
  <1>3. l \in Lines /\ ledger \in [Rows -> Int]
    BY <1>1 DEF IInv, TypeOK, EntryRecord
  <1>4. ledger' = [r \in Rows |-> IF r[2] = d THEN ledger[r] + Net(l, r[1]) ELSE ledger[r]]
    BY <1>2 DEF CommitPost, Added
  <1>5. \A r \in Rows :
            (IF r[2] = d THEN ledger[r] + Net(l, r[1]) ELSE ledger[r])
            = (IF r[1] \in DOMAIN l /\ r[2] = d THEN ledger[r] + l[r[1]] ELSE ledger[r])
    BY <1>3 DEF Net
  <1>6. ledger' = [r \in Accounts \X Dates |->
            IF r[1] \in DOMAIN l /\ r[2] = d THEN ledger[r] + l[r[1]] ELSE ledger[r]]
    BY <1>4, <1>5 DEF Rows
  <1>7. entry' = [entry EXCEPT ![e].status = "posted"]
    BY DEF CommitPost
  <1>8. Abstract!Book(e)
    BY <1>2, <1>6, <1>7 DEF Abstract!Book
  <1>9. QED
    BY <1>1, <1>8

LEMMA CommitReverseRefines ==
    ASSUME IInv, LInv, NEW p \in Procs, CommitReverse(p)
    PROVE  \E e, c \in Entries : Abstract!Undo(e, c)
  <1> DEFINE e == tx[p].id
             c == tx[p].corr
  <1>1. e \in Entries /\ c \in Entries
    BY RunningTx DEF CommitReverse, IInv, TypeOK
  <1>2. /\ entry[e].status = "posted" /\ entry[c].status = "absent"
        /\ tx[p].lines = entry[e].lines
    BY DEF CommitReverse, IInv, Held, StatusHeld, CorrFree, LInv, Pinned, LinesHeld, InTx,
           HasLines
  <1>3. Abstract!Undo(e, c)
    BY <1>2 DEF CommitReverse, Abstract!Undo, Abstract!Entered, Flipped
  <1>4. QED
    BY <1>1, <1>3

LEMMA OthersStutter ==
    ASSUME NEW p \in Procs,
           Request(p) \/ Abort(p) \/ Progress(p), ~CommitPost(p), ~CommitReverse(p)
    PROVE  UNCHANGED <<entry, ledger>>
  <1>1. CASE Request(p)
    BY <1>1 DEF Request, Post, PostSelect, OpenPost, Retry, Reverse, OpenReverse
  <1>2. CASE Progress(p)
    BY <1>2 DEF Progress, RetrySelect, PostSelect, OpenPost, RetryRefused, ReadLines,
                UpsertBalance, MarkEntry, AbortDeadlock
  <1>3. QED
    BY <1>1, <1>2 DEF Abort

\* With one request at a time per entry, the code keeps what accounting
\* promises: posting and reversing look atomic.
THEOREM Refines == ASSUME Restricted PROVE Spec => AbstractSpec
  <1>1. Init => Abstract!Init
    BY DEF Init, Abstract!Init, Absent, Rows
  <1>2. IInv /\ LInv /\ [Next]_vars => [Abstract!Next]_<<entry, ledger>>
    <2> SUFFICES ASSUME IInv, LInv, [Next]_vars
                 PROVE  Abstract!Next \/ UNCHANGED <<entry, ledger>>
      OBVIOUS
    <2>1. ASSUME NEW e \in Entries, Create(e) PROVE Abstract!Next
      BY <2>1, CreateRefines DEF Abstract!Next
    <2>2. ASSUME NEW e \in Entries, Generics(e) PROVE UNCHANGED <<entry, ledger>>
      BY <2>2 DEF Restricted, Exclusive, NoLineEdits, Generics, WriteLine, WriteEntryStatus,
                  WriteQueueStatus
    <2>3. ASSUME NEW p \in Procs, CommitPost(p) \/ CommitReverse(p) PROVE Abstract!Next
      BY <2>3, CommitPostRefines, CommitReverseRefines DEF Abstract!Next
    <2>4. CASE UNCHANGED vars
      BY <2>4 DEF vars
    <2>5. QED
      BY <2>1, <2>2, <2>3, <2>4, OthersStutter DEF Next
  <1>3. QED
    BY <1>1, <1>2, RequestsOwnTheirEntry, LinesStay, PTL
       DEF Restricted, Spec, AbstractSpec, Abstract!Spec

-----------------------------------------------------------------------------
(* Reversals, with one request at a time per entry: a step of the abstract  *)
(* ledger keeps one mirror image per reversed entry.                        *)

Corrections(e) == {c \in Entries : entry[c].corrects = e}
RevInv ==
    /\ \A e \in Entries : entry[e].status = "absent" => entry[e].corrects = NoEntry
    /\ \A e \in Entries :
          IF entry[e].status = "reversed"
          THEN \E c \in Entries : /\ Corrections(e) = {c}
                                  /\ entry[c].lines = Flipped(entry[e].lines)
          ELSE Corrections(e) = {}

LEMMA RevInvExact == ASSUME TypeOK, RevInv PROVE ReversalExact
  <1> SUFFICES ASSUME NEW e \in Entries
               PROVE  /\ Cardinality(Corrections(e))
                           = IF entry[e].status = "reversed" THEN 1 ELSE 0
                      /\ \A c \in Corrections(e), a \in Accounts :
                             Net(entry[c].lines, a) = -Net(entry[e].lines, a)
    BY DEF ReversalExact, Corrections
  <1>1. CASE entry[e].status = "reversed"
    <2>1. PICK c \in Entries : Corrections(e) = {c} /\ entry[c].lines = Flipped(entry[e].lines)
      BY <1>1 DEF RevInv
    <2>2. \A a \in Accounts : Net(Flipped(entry[e].lines), a) = -Net(entry[e].lines, a)
      BY DEF Net, Flipped
    <2>3. QED
      BY <1>1, <2>1, <2>2, FS_Singleton
  <1>2. CASE entry[e].status # "reversed"
    BY <1>2, FS_EmptySet DEF RevInv
  <1>3. QED
    BY <1>1, <1>2

LEMMA RevInvStep ==
    ASSUME TypeOK, RevInv, [Abstract!Next]_<<entry, ledger>> PROVE RevInv'
  <1>0. entry \in [Entries -> EntryRecord] /\ NoEntry \notin Entries
    BY LedgerConstants DEF TypeOK
  <1>1. CASE UNCHANGED entry
    BY <1>1 DEF RevInv, Corrections
  <1>2. ASSUME NEW e \in Entries, Abstract!Enter(e) PROVE RevInv'
    <2>1. /\ entry[e].status = "absent" /\ entry[e].corrects = NoEntry
          /\ entry'[e].corrects = NoEntry /\ entry'[e].status = "pending"
          /\ \A x \in Entries \ {e} : entry'[x] = entry[x]
      BY <1>0, <1>2 DEF Abstract!Enter, Abstract!Entered, RevInv
    <2>2. \A x \in Entries : Corrections(x)' = Corrections(x)
      BY <1>0, <2>1 DEF Corrections
    <2>3. \A x \in Entries : entry[x].status = "reversed" => e \notin Corrections(x) /\ x # e
      BY <1>0, <2>1 DEF Corrections
    <2>4. QED
      BY <2>1, <2>2, <2>3 DEF RevInv
  <1>3. ASSUME NEW e \in Entries, Abstract!Book(e) PROVE RevInv'
    <2>1. /\ \A x \in Entries : entry'[x].corrects = entry[x].corrects
                                /\ entry'[x].lines = entry[x].lines
          /\ \A x \in Entries : entry'[x].status = "reversed" <=> entry[x].status = "reversed"
          /\ \A x \in Entries : entry'[x].status = "absent" => entry[x].status = "absent"
      BY <1>0, <1>3 DEF Abstract!Book, EntryRecord
    <2>2. \A x \in Entries : Corrections(x)' = Corrections(x)
      BY <2>1 DEF Corrections
    <2>3. QED
      BY <2>1, <2>2 DEF RevInv
  <1>4. ASSUME NEW e \in Entries, NEW c \in Entries, Abstract!Undo(e, c) PROVE RevInv'
    <2>1. /\ entry[e].status = "posted" /\ entry[c].status = "absent" /\ c # e
          /\ entry[c].corrects = NoEntry /\ Corrections(e) = {}
      BY <1>4 DEF Abstract!Undo, RevInv
    <2>2. /\ \A x \in Entries : x # e /\ x # c => entry'[x] = entry[x]
          /\ entry'[e].status = "reversed" /\ entry'[e].lines = entry[e].lines
          /\ entry'[e].corrects = entry[e].corrects
          /\ entry'[c].status = "pending" /\ entry'[c].corrects = e
          /\ entry'[c].lines = Flipped(entry[e].lines)
      BY <1>0, <1>4, <2>1 DEF Abstract!Undo, Abstract!Entered, EntryRecord, Flipped
    <2>3. Corrections(e)' = {c}
      BY <2>1, <2>2 DEF Corrections
    <2>4. \A x \in Entries \ {e} : Corrections(x)' = Corrections(x)
      BY <1>0, <2>1, <2>2 DEF Corrections
    <2>5. \A x \in Entries : c \notin Corrections(x)
      BY <1>0, <2>1 DEF Corrections
    <2>6. ASSUME NEW x \in Entries \ {e}, entry'[x].status = "reversed"
          PROVE  \E y \in Entries : /\ Corrections(x)' = {y}
                                    /\ entry'[y].lines = Flipped(entry'[x].lines)
      <3>1. x # c /\ entry'[x] = entry[x]
        BY <2>2, <2>6
      <3>2. PICK y \in Entries : Corrections(x) = {y} /\ entry[y].lines = Flipped(entry[x].lines)
        BY <2>6, <3>1 DEF RevInv
      <3>3. y # c /\ entry'[y].lines = entry[y].lines
        BY <2>2, <2>5, <3>2
      <3>4. QED
        <4>1. entry'[y].lines = Flipped(entry'[x].lines)
          BY <3>1, <3>2, <3>3
        <4>2. Corrections(x)' = {y}
          BY <2>4, <3>2
        <4>3. QED
          BY <4>1, <4>2
    <2>7. ASSUME NEW x \in Entries \ {e}, entry'[x].status # "reversed"
          PROVE  Corrections(x)' = {}
      BY <2>1, <2>2, <2>4, <2>7 DEF RevInv
    <2>8. \A x \in Entries : entry'[x].status = "absent" => entry'[x].corrects = NoEntry
      BY <2>1, <2>2 DEF RevInv
    <2>9. IF entry'[e].status = "reversed"
          THEN \E y \in Entries : /\ Corrections(e)' = {y}
                                  /\ entry'[y].lines = Flipped(entry'[e].lines)
          ELSE Corrections(e)' = {}
      BY <2>2, <2>3
    <2>10. QED
      BY <2>6, <2>7, <2>8, <2>9 DEF RevInv
  <1>5. QED
    BY <1>1, <1>2, <1>3, <1>4 DEF Abstract!Next

\* A reversal leaves exactly one correcting entry, the mirror image.
THEOREM ReversedOnce == ASSUME Restricted PROVE Spec => []ReversalExact
  <1>1. Init => RevInv
    BY LedgerConstants DEF Init, RevInv, Corrections, Absent
  <1>2. RevInv /\ TypeOK /\ [Abstract!Next]_<<entry, ledger>> => RevInv'
    BY RevInvStep
  <1>3. RevInv /\ TypeOK => ReversalExact
    BY RevInvExact
  <1>4. QED
    BY <1>1, <1>2, <1>3, Refines, TypeCorrect, PTL DEF Spec, AbstractSpec, Abstract!Spec

-----------------------------------------------------------------------------
(* Requests get on, whatever they overlap with: what liveness rests on      *)
(* besides fairness.  A lock is held by a running request, which does not   *)
(* wait for it.                                                             *)

OwnsRows == {"upsert", "mark", "commit"}

LockInv ==
    /\ \A r \in Rows, p \in Procs :
          rowLock[r] = p => tx[p].pc \in OwnsRows /\ r[1] \notin tx[p].todo
    /\ \A e \in Entries, p \in Procs : entryLock[e] = p => tx[p].pc = "commit"
    /\ \A p \in Procs : tx[p].pc = "upsert" => tx[p].todo # {}

\* How far a request has come.
Stage == [pc \in {"select", "lines", "upsert", "mark", "commit", "idle"} |->
            CASE pc = "select" -> 5 [] pc = "lines"  -> 4 [] pc = "upsert" -> 3
              [] pc = "mark"   -> 2 [] pc = "commit" -> 1 [] OTHER -> 0]

Nearer(t, u) ==
    \/ Stage[t.pc] < Stage[u.pc]
    \/ t.pc = "upsert" /\ u.pc = "upsert" /\ t.todo \subseteq u.todo /\ t.todo # u.todo

\* A running request comes nearer to its end by each step of its own, and no step
\* of another takes it back.
GoesOn(p) == tx[p].pc # "idle" => tx'[p] = tx[p] \/ Nearer(tx'[p], tx[p])
OnlyNearer == [][\A p \in Procs : GoesOn(p)]_vars

LEMMA LockStep ==
    ASSUME TypeOK, LockInv, NEW p \in Procs, NEW t, tx' = [tx EXCEPT ![p] = t],
           \A r \in Rows : /\ rowLock'[r] = p => t.pc \in OwnsRows /\ r[1] \notin t.todo
                           /\ rowLock'[r] \in {rowLock[r], p, NoProc},
           \A e \in Entries : /\ entryLock'[e] = p => t.pc = "commit"
                              /\ entryLock'[e] \in {entryLock[e], p, NoProc},
           t.pc = "upsert" => t.todo # {}
    PROVE  LockInv'
  <1>1. \A q \in Procs : tx'[q] = IF q = p THEN t ELSE tx[q]
    BY DEF TypeOK, TxOK
  <1>2. NoProc \notin Procs
    BY LedgerConstants
  <1>3. QED
    BY <1>1, <1>2 DEF LockInv

LEMMA EndTxLocks ==
    ASSUME TypeOK, LockInv, NEW p \in Procs, EndTx(p) PROVE LockInv'
  <1>1. Idle.pc = "idle" /\ tx' = [tx EXCEPT ![p] = Idle] /\ NoProc # p
    BY LedgerConstants DEF Idle, EndTx
  <1>2. /\ \A r \in Rows : rowLock'[r] = IF rowLock[r] = p THEN NoProc ELSE rowLock[r]
        /\ \A e \in Entries : entryLock'[e] = IF entryLock[e] = p THEN NoProc ELSE entryLock[e]
    BY DEF TypeOK, EndTx, Released
  <1>3. QED
    BY <1>1, <1>2, LockStep

\* A request that begins owns nothing yet.
LEMMA BeginLocks ==
    ASSUME TypeOK, LockInv, NEW p \in Procs, NEW t, tx' = [tx EXCEPT ![p] = t],
           tx[p].pc \in {"idle", "select"}, t.pc \in {"select", "lines"},
           UNCHANGED <<rowLock, entryLock>>
    PROVE  LockInv'
  <1>1. /\ \A r \in Rows : rowLock[r] # p
        /\ \A e \in Entries : entryLock[e] # p
    BY DEF LockInv, OwnsRows
  <1>2. QED
    BY <1>1, LockStep

LEMMA StepLocks ==
    ASSUME TypeOK, LockInv, [Next]_vars PROVE LockInv'
  <1>0. TxOK
    BY DEF TypeOK
  <1>1. ASSUME UNCHANGED <<tx, rowLock, entryLock>> PROVE LockInv'
    BY <1>1 DEF LockInv
  <1>2. ASSUME NEW e \in Entries, Create(e) \/ Generics(e) PROVE LockInv'
    BY <1>1, <1>2 DEF Create, CreateJournalEntry, InsertEntry, CreateBare, Generics, WriteLine,
                      WriteEntryStatus, WriteQueueStatus
  <1>3. ASSUME NEW p \in Procs, NEW e, OpenPost(p, e), tx[p].pc \in {"idle", "select"}
        PROVE  LockInv'
    <2> DEFINE t == [Idle EXCEPT !.pc = "lines", !.op = "post", !.id = e]
    <2>1. t.pc = "lines" /\ tx' = [tx EXCEPT ![p] = t] /\ UNCHANGED <<rowLock, entryLock>>
      BY <1>3 DEF OpenPost, Idle
    <2> HIDE DEF t
    <2>2. QED
      BY <1>3, <2>1, BeginLocks
  <1>4. ASSUME NEW p \in Procs, Request(p) PROVE LockInv'
    <2>1. ASSUME NEW e \in Entries, Post(p, e) PROVE LockInv'
      BY <1>3, <2>1 DEF Post, MayStart, PostSelect
    <2>2. ASSUME NEW e \in Entries, Retry(p, e) PROVE LockInv'
      <3> DEFINE t == [Idle EXCEPT !.pc = "select", !.op = "post", !.id = e]
      <3>1. /\ t.pc = "select" /\ tx' = [tx EXCEPT ![p] = t] /\ tx[p].pc = "idle"
            /\ UNCHANGED <<rowLock, entryLock>>
        BY <2>2 DEF Retry, MayStart, Idle
      <3> HIDE DEF t
      <3>2. QED
        BY <3>1, BeginLocks
    <2>3. ASSUME NEW e \in Entries, NEW c \in Entries, Reverse(p, e, c) PROVE LockInv'
      <3> DEFINE t == [Idle EXCEPT !.pc = "lines", !.op = "reverse", !.id = e, !.corr = c]
      <3>1. /\ t.pc = "lines" /\ tx' = [tx EXCEPT ![p] = t] /\ tx[p].pc = "idle"
            /\ UNCHANGED <<rowLock, entryLock>>
        BY <2>3 DEF Reverse, OpenReverse, MayStart, Idle
      <3> HIDE DEF t
      <3>2. QED
        BY <3>1, BeginLocks
    <2>4. QED
      BY <1>4, <2>1, <2>2, <2>3 DEF Request
  <1>5. ASSUME NEW p \in Procs, Progress(p) \/ Abort(p) PROVE LockInv'
    <2>1. CASE RetrySelect(p)
      BY <1>3, <2>1 DEF RetrySelect, PostSelect
    <2>2. CASE RetryRefused(p) \/ CommitPost(p) \/ CommitReverse(p) \/ AbortDeadlock(p) \/ Abort(p)
      BY <2>2, EndTxLocks DEF RetryRefused, CommitPost, CommitReverse, AbortDeadlock, Abort
    <2>3. CASE ReadLines(p)
      <3> DEFINE l == entry[tx[p].id].lines
                 t == [tx[p] EXCEPT
                   !.lines = l,
                   !.todo = IF tx[p].op = "post" THEN DOMAIN l ELSE {},
                   !.pc = IF tx[p].op = "post" /\ DOMAIN l # {} THEN "upsert" ELSE "mark"]
      <3>1. tx' = [tx EXCEPT ![p] = t] /\ UNCHANGED <<rowLock, entryLock>> /\ tx[p].pc = "lines"
        BY <1>0, <2>3 DEF ReadLines, TxOK
      <3>2. t.pc = "upsert" => t.todo # {}
        BY <1>0, <3>1, RunningTx DEF TxRecord
      <3>3. /\ \A r \in Rows : rowLock[r] # p
            /\ \A e \in Entries : entryLock[e] # p
        BY <3>1 DEF LockInv, OwnsRows
      <3> HIDE DEF t
      <3>4. QED
        BY <3>1, <3>2, <3>3, LockStep
    <2>4. ASSUME NEW a \in Accounts, UpsertBalance(p, a) PROVE LockInv'
      <3> DEFINE t == [tx[p] EXCEPT !.todo = tx[p].todo \ {a},
                                    !.pc = IF tx[p].todo = {a} THEN "mark" ELSE "upsert"]
                 d == entry[tx[p].id].date
      <3>1. /\ tx' = [tx EXCEPT ![p] = t] /\ tx[p].pc = "upsert" /\ a \in tx[p].todo
            /\ rowLock' = [rowLock EXCEPT ![<<a, d>>] = p] /\ UNCHANGED entryLock
        BY <1>0, <2>4 DEF UpsertBalance, TxOK
      <3>2. /\ t.todo = tx[p].todo \ {a} /\ t.pc \in {"upsert", "mark"}
            /\ t.pc = "upsert" => t.todo # {}
        BY <1>0, <3>1, RunningTx DEF TxRecord
      <3>3. \A r \in Rows : /\ rowLock'[r] \in {rowLock[r], p}
                            /\ rowLock'[r] = p => rowLock[r] = p \/ r[1] = a
        BY <3>1 DEF TypeOK
      <3>4. \A r \in Rows : rowLock'[r] = p => r[1] \notin t.todo
        BY <3>2, <3>3 DEF LockInv
      <3>5. \A e \in Entries : entryLock[e] # p
        BY <3>1 DEF LockInv
      <3> HIDE DEF t, d
      <3>6. QED
        BY <3>1, <3>2, <3>3, <3>4, <3>5, LockStep DEF OwnsRows
    <2>5. CASE MarkEntry(p)
      <3> DEFINE t == [tx[p] EXCEPT !.pc = "commit"]
      <3>1. /\ tx' = [tx EXCEPT ![p] = t] /\ UNCHANGED rowLock
            /\ entryLock' = [entryLock EXCEPT ![tx[p].id] = p]
        BY <1>0, <2>5 DEF MarkEntry, TxOK
      <3>2. t.pc = "commit" /\ t.todo = tx[p].todo
        BY <1>0, <2>5, RunningTx DEF MarkEntry, TxRecord
      <3>3. \A e \in Entries : entryLock'[e] \in {entryLock[e], p}
        BY <3>1 DEF TypeOK
      <3>4. \A r \in Rows : rowLock[r] = p => r[1] \notin t.todo
        BY <3>2 DEF LockInv
      <3> HIDE DEF t
      <3>5. QED
        BY <3>1, <3>2, <3>3, <3>4, LockStep DEF OwnsRows
    <2>6. QED
      BY <1>5, <2>1, <2>2, <2>3, <2>4, <2>5 DEF Progress
  <1>6. CASE UNCHANGED vars
    BY <1>1, <1>6 DEF vars
  <1>7. QED
    BY <1>2, <1>4, <1>5, <1>6 DEF Next

\* A running request that cannot go on by itself waits for another that runs.
LEMMA BlockedWaits ==
    ASSUME TypeOK, LockInv, NEW p \in Procs, tx[p].pc # "idle", ~Able(p)
    PROVE  \E o \in Procs \ {p} : WaitsFor(p, o) /\ tx[o].pc # "idle"
  <1>1. tx[p] \in TxRecord /\ tx[p].id \in Entries
    BY RunningTx DEF TypeOK
  <1>2. CASE tx[p].pc = "upsert"
    <2> DEFINE d == entry[tx[p].id].date
    <2>1. \A a \in tx[p].todo : <<a, d>> \in Rows
      BY <1>1 DEF TypeOK, TxRecord, EntryRecord, Rows
    <2>2. \A a \in tx[p].todo : rowLock[<<a, d>>] \in Procs \ {p}
      <3>1. \A a \in tx[p].todo : rowLock[<<a, d>>] # NoProc
        BY <1>2 DEF Able
      <3>2. \A a \in tx[p].todo : rowLock[<<a, d>>] # p
        BY <2>1 DEF LockInv
      <3>3. QED
        BY <2>1, <3>1, <3>2 DEF TypeOK
    <2>3. PICK a \in tx[p].todo : TRUE
      BY <1>2 DEF LockInv
    <2> DEFINE o == rowLock[<<a, d>>]
    <2>4. o \in Procs \ {p} /\ tx[o].pc # "idle"
      BY <2>1, <2>2, <2>3 DEF LockInv, OwnsRows
    <2>5. WaitsFor(p, o)
      BY <1>2, <2>2, <2>3, LedgerConstants DEF WaitsFor
    <2>6. QED
      BY <2>4, <2>5
  <1>3. CASE tx[p].pc = "mark"
    <2> DEFINE o == entryLock[tx[p].id]
    <2>1. o \in Procs /\ tx[o].pc = "commit"
      BY <1>1, <1>3 DEF Able, TypeOK, LockInv
    <2>2. WaitsFor(p, o)
      BY <1>3 DEF WaitsFor
    <2>3. QED
      BY <1>3, <2>1, <2>2
  <1>4. QED
    BY <1>1, <1>2, <1>3 DEF Able, TxRecord

\* No request hangs: whoever a running request waits for, through however many
\* others, there is one among them that can take its next step, if only because
\* PostgreSQL finds the cycle they wait in and aborts it.
THEOREM NobodyHangs == Spec => []NeverStuck
  <1>1. Init => LockInv
    BY LedgerConstants DEF Init, LockInv, Idle
  <1>2. TypeOK /\ LockInv /\ [Next]_vars => LockInv'
    BY StepLocks
  <1>3. ASSUME TypeOK, LockInv PROVE NeverStuck
    <2> SUFFICES ASSUME NEW S \in SUBSET Procs, NEW p \in S, tx[p].pc # "idle",
                        \A q \in S, o \in Procs : WaitsFor(q, o) => o \in S,
                        \A q \in S : tx[q].pc # "idle" => ~Able(q)
                 PROVE  FALSE
      BY DEF NeverStuck
    <2> DEFINE R == {q \in S : tx[q].pc # "idle"}
    <2>1. ASSUME NEW q \in R PROVE \E o \in R \ {q} : WaitsFor(q, o)
      <3>1. PICK o \in Procs \ {q} : WaitsFor(q, o) /\ tx[o].pc # "idle"
        BY <1>3, <2>1, BlockedWaits
      <3>2. QED
        BY <2>1, <3>1
    <2>2. p \in R /\ R \in SUBSET Procs
      OBVIOUS
    <2> HIDE DEF R
    <2>3. Deadlocked(p)
      BY <2>1, <2>2 DEF Deadlocked
    <2>4. QED
      BY <2>3 DEF Able
  <1>4. QED
    BY <1>1, <1>2, <1>3, TypeCorrect, PTL DEF Spec

\* What a request of postingService has left to do shrinks with each of its steps, to
\* nothing, and what other requests do leaves it as it is.
THEOREM RequestsComeNearer == Spec => OnlyNearer
  <1>1. ASSUME TypeOK, [Next]_vars, NEW p \in Procs, tx[p].pc # "idle"
        PROVE  tx'[p] = tx[p] \/ Nearer(tx'[p], tx[p])
    <2>0. /\ TxOK /\ tx[p] \in TxRecord /\ tx \in [Procs -> TxRecord]
          /\ Stage[Idle.pc] = 0 /\ Stage[tx[p].pc] > 0
      <3>1. TxOK /\ tx[p] \in TxRecord /\ tx \in [Procs -> TxRecord]
        BY <1>1 DEF TypeOK, TxOK
      <3>2. QED
        BY <1>1, <3>1 DEF Idle, Stage, TxRecord
    <2>1. CASE UNCHANGED vars
      BY <2>1 DEF vars
    <2>2. ASSUME NEW e \in Entries, Create(e) \/ Generics(e) PROVE tx'[p] = tx[p]
      BY <2>2 DEF Create, CreateJournalEntry, InsertEntry, CreateBare, Generics, WriteLine,
                  WriteEntryStatus, WriteQueueStatus
    <2>3. ASSUME NEW q \in Procs, Request(q) PROVE tx'[p] = tx[p]
      <3> DEFINE Begun == tx[q].pc = "idle" /\ \E t : tx' = [tx EXCEPT ![q] = t]
      <3>1. ASSUME NEW e \in Entries, Post(q, e) \/ Retry(q, e) PROVE Begun
        BY <3>1 DEF Post, Retry, MayStart, PostSelect, OpenPost
      <3>2. ASSUME NEW e \in Entries, NEW c \in Entries, Reverse(q, e, c) PROVE Begun
        BY <3>2 DEF Reverse, OpenReverse, MayStart
      <3>3. Begun
        BY <2>3, <3>1, <3>2 DEF Request
      <3>4. QED
        BY <1>1, <2>0, <3>3
    <2>4. ASSUME NEW q \in Procs, q # p, Progress(q) \/ Abort(q) PROVE tx'[p] = tx[p]
      <3>1. CASE RetrySelect(q) \/ ReadLines(q) \/ MarkEntry(q)
        BY <2>0, <2>4, <3>1 DEF RetrySelect, PostSelect, OpenPost, ReadLines, MarkEntry
      <3>2. ASSUME NEW a \in Accounts, UpsertBalance(q, a) PROVE tx'[p] = tx[p]
        BY <2>0, <2>4, <3>2 DEF UpsertBalance
      <3>3. CASE EndTx(q)
        BY <2>0, <2>4, <3>3 DEF EndTx
      <3>4. QED
        BY <2>4, <3>1, <3>2, <3>3
           DEF Progress, RetryRefused, CommitPost, CommitReverse, AbortDeadlock, Abort
    <2>5. CASE Progress(p) \/ Abort(p)
      <3>1. CASE RetrySelect(p)
        <4>1. tx'[p].pc = "lines" /\ tx[p].pc = "select"
          BY <2>0, <3>1 DEF RetrySelect, PostSelect, OpenPost, Idle
        <4>2. QED
          BY <4>1 DEF Nearer, Stage
      <3>2. CASE RetryRefused(p) \/ CommitPost(p) \/ CommitReverse(p) \/ AbortDeadlock(p)
                 \/ Abort(p)
        <4>1. EndTx(p)
          BY <3>2 DEF RetryRefused, CommitPost, CommitReverse, AbortDeadlock, Abort
        <4>2. tx'[p] = Idle
          BY <2>0, <4>1 DEF EndTx
        <4>3. QED
          BY <2>0, <4>2 DEF Nearer
      <3>3. CASE ReadLines(p)
        <4>1. tx[p].pc = "lines" /\ tx'[p].pc \in {"upsert", "mark"}
          BY <2>0, <3>3 DEF ReadLines, TxRecord
        <4>2. QED
          BY <4>1 DEF Nearer, Stage
      <3>4. ASSUME NEW a \in Accounts, UpsertBalance(p, a) PROVE Nearer(tx'[p], tx[p])
        <4>1. /\ tx'[p].todo = tx[p].todo \ {a} /\ a \in tx[p].todo /\ tx[p].pc = "upsert"
              /\ tx'[p].pc \in {"upsert", "mark"}
          BY <2>0, <3>4 DEF UpsertBalance, TxRecord
        <4>2. QED
          BY <4>1 DEF Nearer, Stage
      <3>5. CASE MarkEntry(p)
        <4>1. tx[p].pc = "mark" /\ tx'[p].pc = "commit"
          BY <2>0, <3>5 DEF MarkEntry, TxRecord
        <4>2. QED
          BY <4>1 DEF Nearer, Stage
      <3>6. QED
        BY <2>5, <3>1, <3>2, <3>3, <3>4, <3>5 DEF Progress
    <2>6. QED
      BY <1>1, <2>1, <2>2, <2>3, <2>4, <2>5 DEF Next
  <1>2. TypeOK /\ [Next]_vars => [\A p \in Procs : GoesOn(p)]_vars
    BY <1>1 DEF GoesOn
  <1>3. QED
    BY <1>2, TypeCorrect, PTL DEF Spec, OnlyNearer

=============================================================================
