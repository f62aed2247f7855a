-------------------------- MODULE NumberingProofs --------------------------
(***************************************************************************)
(* Proofs about Numbering: whatever fails and whoever types codes, for any *)
(* number of periods, records and processes, a serial is issued once.      *)
(***************************************************************************)
EXTENDS Numbering, FiniteSetTheorems, WellFoundedInduction, TLAPS

LEMMA IdleIsTx == Idle \in TxRecord
  <1>1. /\ {} \in RowSets /\ NoSerials \in LastSerials /\ NoneStaged \in StagedCodes
        /\ {} \in Allocations /\ 1 \in Periods
    BY NumberingConstants
       DEF RowSets, LastSerials, StagedCodes, Allocations, NoSerials, NoneStaged, Periods
  <1>2. QED
    BY <1>1 DEF Idle, TxRecord

LEMMA BatchSize ==
    ASSUME NEW B \in RowSets PROVE Cardinality(B) \in Nat
  <1>1. IsFiniteSet(RowIds)
    BY FS_Interval, NumberingConstants DEF RowIds
  <1>2. IsFiniteSet(B)
    BY <1>1, FS_Subset DEF RowSets
  <1>3. QED
    BY <1>2, FS_CardinalityType

LEMMA AfterType ==
    ASSUME NEW t \in TxRecord PROVE After(t) \in TxRecord
  <1> DEFINE rest == t.todo \ t.batch
             low == {r \in rest : \A x \in rest : r <= x}
             pc == IF rest = {} THEN "commit" ELSE "config"
  <1>1. t.todo \in RowSets
    BY DEF TxRecord
  <1>2. /\ rest \in RowSets /\ low \in RowSets
        /\ pc \in {"commit", "config"}
    BY <1>1 DEF RowSets
  <1>3. After(t) = [t EXCEPT !.todo = rest, !.batch = low, !.pc = pc]
    BY DEF After
  <1> HIDE DEF rest, low, pc
  <1>4. QED
    BY <1>2, <1>3 DEF TxRecord

LEMMA AdvancedType ==
    ASSUME NEW t \in TxRecord, NEW n \in Nat PROVE Advanced(t, n) \in TxRecord
  <1> DEFINE m == n + Cardinality(t.batch)
             nums == t.nums \cup ({t.k} \X (n + 1 .. m))
             last == [t.last EXCEPT ![t.k] = m]
  <1>0. t.k \in Periods /\ t.last \in LastSerials /\ t.nums \in Allocations /\ t.batch \in RowSets
    BY DEF TxRecord
  <1>1. m \in Nat
    BY <1>0, BatchSize
  <1>2. last \in LastSerials
    BY <1>0, <1>1 DEF LastSerials
  <1>3. nums \in Allocations
    BY <1>0, <1>1 DEF Allocations
  <1>4. Advanced(t, n) = [t EXCEPT !.first = n + 1, !.last = last, !.pc = "assign", !.nums = nums]
    BY DEF Advanced
  <1>5. n + 1 \in Nat \ {0}
    OBVIOUS
  <1> HIDE DEF m, nums, last
  <1>6. QED
    BY <1>2, <1>3, <1>4, <1>5 DEF TxRecord

LEMMA EndTxType ==
    ASSUME TypeOK, NEW p \in Procs, EndTx(p)
    PROVE  tx' \in [Procs -> TxRecord] /\ seqLock' \in [Periods -> Procs \cup {NoProc}]
  BY IdleIsTx DEF TypeOK, EndTx

LEMMA NewCodeIsCode ==
    ASSUME NEW t \in TxRecord, NEW r \in RowIds PROVE NewCode(t, r) \in Codes
  <1>1. {x \in t.batch : x < r} \in RowSets
    BY DEF TxRecord, RowSets
  <1>2. Cardinality({x \in t.batch : x < r}) \in Nat
    BY <1>1, BatchSize
  <1>3. t.k \in Periods /\ t.first \in Nat
    BY DEF TxRecord
  <1>4. QED
    BY <1>2, <1>3, NumberingConstants DEF NewCode, CodeOf, Codes, Periods

LEMMA InitType == Init => TypeOK
  <1>1. NoSerials \in LastSerials /\ 1 \in Periods /\ 0 \in 0..MaxRows
    BY NumberingConstants DEF NoSerials, LastSerials, Periods
  <1>2. ASSUME Init PROVE tx \in [Procs -> TxRecord]
    BY <1>2, IdleIsTx DEF Init
  <1>3. ASSUME Init PROVE rows \in [RowIds -> [shown : BOOLEAN, code : Codes \cup {NoCode}]]
    BY <1>3 DEF Init
  <1>4. QED
    BY <1>1, <1>2, <1>3 DEF Init, TypeOK

LEMMA RequestType == ASSUME TypeOK, NEW p \in Procs, Request(p) PROVE TypeOK'
  <1>1. ASSUME NEW c \in TypedCodes, InsertTyped(p, c) PROVE TypeOK'
    <2> DEFINE staged == [NoneStaged EXCEPT ![born + 1] = c]
               t == [Idle EXCEPT !.pc = "commit", !.op = "insert", !.new = {born + 1},
                                 !.staged = staged]
    <2>1. c \in Codes /\ born + 1 \in RowIds
      BY <1>1, NumberingConstants DEF InsertTyped
    <2>2. staged \in StagedCodes /\ {born + 1} \in RowSets
      BY <2>1 DEF NoneStaged, StagedCodes, RowSets
    <2>3. tx' = [tx EXCEPT ![p] = t]
      BY <1>1 DEF InsertTyped, Idle
    <2> HIDE DEF staged
    <2>4. t \in TxRecord
      BY <2>1, <2>2, IdleIsTx DEF TxRecord
    <2> HIDE DEF t
    <2>5. QED
      BY <1>1, <2>1, <2>3, <2>4, NumberingConstants DEF InsertTyped, TypeOK, RowIds
  <1>2. ASSUME NEW n \in BatchSizes, InsertUncoded(p, n) PROVE TypeOK'
    <2> DEFINE new == born + 1 .. born + n
               t == [Idle EXCEPT !.pc = "config", !.op = "insert", !.new = new,
                                 !.todo = new, !.batch = new]
    <2>1. new \in RowSets /\ n \in RowIds /\ n >= 1 /\ born \in Nat
      BY <1>2, NumberingConstants DEF InsertUncoded, TypeOK, RowIds, RowSets
    <2>2. born + n \in new
      BY <2>1, NumberingConstants DEF RowIds
    <2>3. tx' = [tx EXCEPT ![p] = t]
      BY <1>2 DEF InsertUncoded
    <2>4. born + n \in 0..MaxRows
      BY <2>1, <2>2, NumberingConstants DEF RowIds, RowSets
    <2> HIDE DEF new
    <2>5. t \in TxRecord
      BY <2>1, IdleIsTx DEF TxRecord
    <2> HIDE DEF t
    <2>6. QED
      BY <1>2, <2>3, <2>4, <2>5 DEF InsertUncoded, TypeOK
  <1>3. CASE EnableRead(p)
    <2>1. [Idle EXCEPT !.pc = "enable", !.op = "enable"] \in TxRecord
      BY IdleIsTx DEF TxRecord
    <2>2. QED
      BY <1>3, <2>1 DEF EnableRead, TypeOK
  <1>4. CASE EnableWrite(p)
    <2>1. [tx[p] EXCEPT !.pc = "rows"] \in TxRecord
      BY DEF TypeOK, TxRecord
    <2>2. tx' = [tx EXCEPT ![p] = [tx[p] EXCEPT !.pc = "rows"]]
      BY <1>4 DEF EnableWrite, TypeOK
    <2>3. QED
      BY <1>4, <2>1, <2>2 DEF EnableWrite, TypeOK
  <1>5. CASE SelectUncoded(p)
    <2> DEFINE t == [tx[p] EXCEPT !.todo = {r \in RowIds : rows[r].shown /\ rows[r].code = NoCode}]
    <2>0. {r \in RowIds : rows[r].shown /\ rows[r].code = NoCode} \in RowSets
      BY DEF RowSets
    <2>1. t \in TxRecord
      BY <2>0 DEF TypeOK, TxRecord
    <2>2. tx' = [tx EXCEPT ![p] = After(t)]
      BY <1>5 DEF SelectUncoded
    <2> HIDE DEF t
    <2>3. QED
      BY <1>5, <2>1, <2>2, AfterType DEF SelectUncoded, TypeOK
  <1>6. QED
    BY <1>1, <1>2, <1>3, <1>4, <1>5 DEF Request

LEMMA AllocateType == ASSUME TypeOK, NEW p \in Procs, Allocate(p) PROVE TypeOK'
  <1>0. tx[p] \in TxRecord
    BY DEF TypeOK
  <1>1. CASE ReadConfig(p)
    <2> DEFINE t == IF enabled THEN [tx[p] EXCEPT !.k = period, !.pc = "lock"] ELSE After(tx[p])
    <2>1. t \in TxRecord
      BY <1>0, AfterType DEF TypeOK, TxRecord
    <2>2. tx' = [tx EXCEPT ![p] = t]
      BY <1>1 DEF ReadConfig
    <2> HIDE DEF t
    <2>3. QED
      BY <1>1, <2>1, <2>2 DEF ReadConfig, TypeOK
  <1>2. CASE Advance(p)
    <2>1. PICK n \in Nat : tx' = [tx EXCEPT ![p] = Advanced(tx[p], n)]
      BY <1>0, <1>2 DEF Advance, TypeOK, TxRecord, LastSerials
    <2>2. QED
      <3>1. Advanced(tx[p], n) \in TxRecord
        BY <1>0, AdvancedType
      <3>2. QED
        BY <1>2, <2>1, <3>1 DEF Advance, TypeOK
  <1>3. CASE ScanCodes(p)
    <2>1. PICK n \in 0..MaxSerial : tx' = [tx EXCEPT ![p].first = n + 1, ![p].pc = "insert"]
      BY <1>3 DEF ScanCodes
    <2>2. tx' = [tx EXCEPT ![p] = [tx[p] EXCEPT !.first = n + 1, !.pc = "insert"]]
      BY <2>1 DEF TypeOK
    <2>3. [tx[p] EXCEPT !.first = n + 1, !.pc = "insert"] \in TxRecord
      <3>1. n + 1 \in Nat \ {0}
        BY NumberingConstants
      <3>2. QED
        BY <1>0, <3>1 DEF TxRecord
    <2>4. QED
      BY <1>3, <2>2, <2>3 DEF ScanCodes, TypeOK
  <1>4. CASE InsertSequence(p)
    <2>1. tx[p].first - 1 \in Nat
      BY <1>0 DEF TxRecord
    <2>2. Advanced(tx[p], tx[p].first - 1) \in TxRecord
      BY <1>0, <2>1, AdvancedType
    <2>3. tx' = [tx EXCEPT ![p] = Advanced(tx[p], tx[p].first - 1)]
      BY <1>4 DEF InsertSequence
    <2>4. QED
      BY <1>4, <2>2, <2>3 DEF InsertSequence, TypeOK
  <1>5. CASE InsertSequenceRefused(p) \/ AssignRefused(p)
    BY <1>5, EndTxType DEF InsertSequenceRefused, AssignRefused, TypeOK
  <1>6. CASE AssignCodes(p)
    <2> DEFINE staged == [r \in RowIds |-> IF r \in tx[p].batch THEN NewCode(tx[p], r)
                                           ELSE tx[p].staged[r]]
               t == [tx[p] EXCEPT !.staged = staged]
    <2>1. staged \in StagedCodes
      BY <1>0, NewCodeIsCode DEF TxRecord, StagedCodes
    <2>2. tx' = [tx EXCEPT ![p] = After(t)]
      BY <1>6 DEF AssignCodes, Assigned
    <2> HIDE DEF staged
    <2>3. t \in TxRecord
      BY <1>0, <2>1 DEF TxRecord
    <2> HIDE DEF t
    <2>4. QED
      BY <1>6, <2>2, <2>3, AfterType DEF AssignCodes, TypeOK
  <1>7. QED
    BY <1>1, <1>2, <1>3, <1>4, <1>5, <1>6 DEF Allocate

LEMMA CommitType == ASSUME TypeOK, NEW p \in Procs, Commit(p) PROVE TypeOK'
  <1>1. tx[p].last \in LastSerials /\ tx[p].staged \in StagedCodes
    BY DEF TypeOK, TxRecord
  <1>2. seq' \in LastSerials
    BY <1>1 DEF Commit, SeqWith, TypeOK, LastSerials
  <1>3. rows' \in [RowIds -> [shown : BOOLEAN, code : Codes \cup {NoCode}]]
    BY <1>1 DEF Commit, TypeOK, StagedCodes
  <1>4. issued' \in [Periods -> SUBSET Nat]
    BY NumberingConstants DEF Commit, TypeOK
  <1>5. QED
    BY <1>2, <1>3, <1>4, EndTxType DEF Commit, TypeOK

LEMMA TypeStep == ASSUME TypeOK, [Next]_vars PROVE TypeOK'
  <1>1. ASSUME NEW p \in Procs, Abort(p) PROVE TypeOK'
    BY <1>1, EndTxType DEF Abort, TypeOK
  <1>2. ASSUME NEW r \in RowIds, NEW c \in TypedCodes, TypeCode(r, c) PROVE TypeOK'
    <2>1. c \in Codes \cup {NoCode}
      BY NumberingConstants
    <2>2. QED
      BY <1>2, <2>1 DEF TypeCode, TypeOK
  <1>3. CASE Disable
    BY <1>3 DEF Disable, TypeOK
  <1>3a. CASE Tick
    <2>1. period' \in Periods
      BY <1>3a, NumberingConstants DEF Tick, TypeOK, Periods
    <2>2. QED
      BY <1>3a, <2>1 DEF Tick, TypeOK
  <1>4. CASE UNCHANGED vars
    BY <1>4 DEF vars, TypeOK
  <1>5. QED
    BY <1>1, <1>2, <1>3, <1>3a, <1>4, RequestType, AllocateType, CommitType DEF Next

\* Every variable keeps its type.
THEOREM TypeCorrect == Spec => []TypeOK
  <1>1. TypeOK /\ [Next]_vars => TypeOK'
    BY TypeStep
  <1>2. QED
    BY <1>1, InitType, PTL DEF Spec

-----------------------------------------------------------------------------
(* Serials.  The invariant: who has advanced a period's sequence holds its  *)
(* lock (Owned), and its serials follow the committed ones without a gap    *)
(* (Contiguous), so committing them extends the interval that was issued.   *)

Serials(t, k) == {n \in Nat : <<k, n>> \in t.nums}

Follows(t, k, s) ==
    IF t.last[k] = 0 THEN Serials(t, k) = {}
    ELSE \E lo \in 1..t.last[k] : Serials(t, k) = lo..t.last[k] /\ (s > 0 => lo = s + 1)

Owned == \A p \in Procs, k \in Periods : tx[p].last[k] > 0 => seqLock[k] = p
Contiguous == \A p \in Procs, k \in Periods : Follows(tx[p], k, seq[k])
BatchHeld ==
    \A p \in Procs : tx[p].pc \in {"config", "lock", "insert", "assign"} => tx[p].batch # {}

SInv == TypeOK /\ Owned /\ Contiguous /\ BatchHeld /\ Gapless

LEMMA MinExists ==
    ASSUME NEW B \in RowSets, B # {} PROVE \E r \in B : \A x \in B : r <= x
  <1>1. B \subseteq Nat
    BY NumberingConstants DEF RowSets, RowIds
  <1> DEFINE R == {xy \in Nat \X Nat : xy[1] < xy[2]}
  <1>2. IsWellFoundedOn(R, Nat)
    BY NatLessThanWellFounded DEF OpToRel
  <1> HIDE DEF R
  <1>3. PICK r \in B : \A x \in B : ~(<<x, r>> \in R)
    BY <1>1, <1>2, WFMin
  <1>4. ASSUME NEW x \in B PROVE r <= x
    <2>1. x < r => <<x, r>> \in R
      BY <1>1, SMT DEF R
    <2>2. ~(x < r)
      BY <1>3, <2>1
    <2>3. QED
      BY <1>1, <2>2
  <1>5. QED
    BY <1>4

LEMMA AfterKeeps ==
    ASSUME NEW t \in TxRecord
    PROVE  LET u == After(t) IN
           /\ u.last = t.last /\ u.nums = t.nums
           /\ u.pc \in {"config", "commit"} /\ (u.pc = "config" => u.batch # {})
  <1> DEFINE rest == t.todo \ t.batch
             u == After(t)
  <1>1. rest \in RowSets
    BY DEF TxRecord, RowSets
  <1>2. /\ u.last = t.last /\ u.nums = t.nums
        /\ u.batch = {r \in rest : \A x \in rest : r <= x}
        /\ u.pc = IF rest = {} THEN "commit" ELSE "config"
    BY DEF After, TxRecord
  <1> HIDE DEF rest, u
  <1>3. rest # {} => u.batch # {}
    BY <1>1, <1>2, MinExists
  <1>4. QED
    BY <1>2, <1>3 DEF u

LEMMA AdvancedFollows ==
    ASSUME NEW t \in TxRecord, t.batch # {}, NEW s \in LastSerials, NEW n \in Nat,
           \A k \in Periods : Follows(t, k, s[k]),
           \/ t.last[t.k] > 0 /\ n = t.last[t.k]
           \/ t.last[t.k] = 0 /\ (s[t.k] > 0 => n = s[t.k])
    PROVE  /\ \A k \in Periods : Follows(Advanced(t, n), k, s[k])
           /\ \A k \in Periods \ {t.k} : Advanced(t, n).last[k] = t.last[k]
           /\ Advanced(t, n).batch # {}
  <1> DEFINE c == Cardinality(t.batch)
             m == n + c
             u == Advanced(t, n)
  <1>1. /\ t.k \in Periods /\ t.last \in [Periods -> Nat] /\ t.nums \in SUBSET (Periods \X Nat)
        /\ t.batch \in RowSets
    BY DEF TxRecord, LastSerials, Allocations
  <1>2. c \in Nat /\ c > 0
    <2>1. IsFiniteSet(t.batch)
      BY <1>1, FS_Interval, FS_Subset, NumberingConstants DEF RowSets, RowIds
    <2>2. QED
      BY <1>1, <2>1, BatchSize, FS_EmptySet
  <1>3. /\ u.last = [t.last EXCEPT ![t.k] = m] /\ u.batch = t.batch
        /\ u.nums = t.nums \cup ({t.k} \X (n + 1 .. m))
    BY DEF Advanced, TxRecord
  <1> HIDE DEF c, u
  <1>4. ASSUME NEW k \in Periods, k # t.k PROVE Follows(u, k, s[k])
    <2>1. Serials(u, k) = Serials(t, k) /\ u.last[k] = t.last[k]
      BY <1>1, <1>3, <1>4 DEF Serials
    <2>2. QED
      BY <2>1 DEF Follows
  <1>5. Follows(u, t.k, s[t.k])
    <2>1. Serials(u, t.k) = Serials(t, t.k) \cup (n + 1 .. m) /\ u.last[t.k] = m /\ m > n
      BY <1>1, <1>2, <1>3 DEF Serials
    <2>2. CASE t.last[t.k] > 0
      <3>1. PICK lo \in 1..n : /\ Serials(t, t.k) = lo..n
                               /\ s[t.k] > 0 => lo = s[t.k] + 1
        BY <1>1, <2>2 DEF Follows
      <3>2. Serials(u, t.k) = lo..m /\ lo \in 1..m
        BY <1>2, <2>1, <3>1
      <3>3. QED
        BY <1>2, <2>1, <3>1, <3>2 DEF Follows
    <2>3. CASE t.last[t.k] = 0
      <3>1. Serials(u, t.k) = n + 1 .. m /\ (s[t.k] > 0 => n + 1 = s[t.k] + 1)
        BY <1>1, <2>1, <2>3 DEF Follows
      <3>2. n + 1 \in 1..m /\ m # 0
        BY <1>2, <2>1
      <3>3. QED
        BY <2>1, <3>1, <3>2 DEF Follows
    <2>4. QED
      BY <1>1, <2>2, <2>3
  <1>6. QED
    BY <1>1, <1>3, <1>4, <1>5 DEF u

(* A step of p to the record t that neither commits nor loses a lock.       *)
LEMMA StepKeeps ==
    ASSUME SInv, NEW p \in Procs, NEW t, tx' = [tx EXCEPT ![p] = t], UNCHANGED <<seq, issued>>,
           \A k \in Periods : Follows(t, k, seq[k]),
           \A k \in Periods : t.last[k] > 0 => seqLock'[k] = p,
           \A k \in Periods, q \in Procs \ {p} : seqLock[k] = q => seqLock'[k] = q,
           t.pc \in {"config", "lock", "insert", "assign"} => t.batch # {}
    PROVE  Owned' /\ Contiguous' /\ BatchHeld' /\ Gapless'
  <1>1. \A q \in Procs : tx'[q] = IF q = p THEN t ELSE tx[q]
    BY DEF SInv, TypeOK
  <1>2. Owned'
    BY <1>1 DEF SInv, Owned
  <1>3. Contiguous'
    BY <1>1 DEF SInv, Contiguous
  <1>4. BatchHeld'
    BY <1>1 DEF SInv, BatchHeld
  <1>5. Gapless'
    BY DEF SInv, Gapless
  <1>6. QED
    BY <1>2, <1>3, <1>4, <1>5

LEMMA IdleFollows ==
    /\ Idle.pc = "idle" /\ Idle.last = NoSerials /\ Idle.nums = {}
    /\ \A k \in Periods : (\A s : Follows(Idle, k, s)) /\ Idle.last[k] = 0
  <1>1. Idle.pc = "idle" /\ Idle.last = NoSerials /\ Idle.nums = {}
    BY DEF Idle
  <1>2. QED
    BY <1>1 DEF Follows, Serials, NoSerials

LEMMA EndTxKeeps ==
    ASSUME SInv, NEW p \in Procs, EndTx(p), UNCHANGED <<seq, issued>>
    PROVE  Owned' /\ Contiguous' /\ BatchHeld' /\ Gapless'
  <1>1. tx' = [tx EXCEPT ![p] = Idle]
    BY DEF EndTx
  <1>2. \A k \in Periods, q \in Procs \ {p} : seqLock[k] = q => seqLock'[k] = q
    BY DEF EndTx, SInv, TypeOK
  <1>3. /\ \A k \in Periods : Follows(Idle, k, seq[k])
        /\ \A k \in Periods : Idle.last[k] > 0 => seqLock'[k] = p
        /\ Idle.pc \in {"config", "lock", "insert", "assign"} => Idle.batch # {}
    BY IdleFollows
  <1>4. QED
    BY <1>1, <1>2, <1>3, StepKeeps

(* A step of p that changes neither its own writes nor any lock.            *)
LEMMA QuietStepKeeps ==
    ASSUME SInv, NEW p \in Procs, NEW t, tx' = [tx EXCEPT ![p] = t],
           UNCHANGED <<seq, issued, seqLock>>,
           t.last = tx[p].last /\ t.nums = tx[p].nums,
           t.pc \in {"config", "lock", "insert", "assign"} => t.batch # {}
    PROVE  Owned' /\ Contiguous' /\ BatchHeld' /\ Gapless'
  <1>1. /\ \A k \in Periods : Follows(t, k, seq[k])
        /\ \A k \in Periods : t.last[k] > 0 => seqLock'[k] = p
    BY DEF SInv, Owned, Contiguous, Follows, Serials
  <1>2. QED
    BY <1>1, StepKeeps

LEMMA RequestKeeps ==
    ASSUME SInv, NEW p \in Procs, Request(p)
    PROVE  Owned' /\ Contiguous' /\ BatchHeld' /\ Gapless'
  <1> DEFINE New(t) == /\ t.last = Idle.last /\ t.nums = Idle.nums
                       /\ t.pc \in {"config", "lock", "insert", "assign"} => t.batch # {}
             Kept == Owned' /\ Contiguous' /\ BatchHeld' /\ Gapless'
  <1>1. ASSUME NEW t, New(t), tx' = [tx EXCEPT ![p] = t], UNCHANGED <<seq, issued, seqLock>>
        PROVE  Kept
    <2>1. /\ \A k \in Periods : Follows(t, k, seq[k])
          /\ \A k \in Periods : ~(t.last[k] > 0)
      BY <1>1, IdleFollows DEF Follows, Serials
    <2>2. QED
      BY <1>1, <2>1, StepKeeps
  <1>2. ASSUME NEW c \in TypedCodes, InsertTyped(p, c) PROVE Kept
    <2> DEFINE t == [Idle EXCEPT !.pc = "commit", !.op = "insert", !.new = {born + 1},
                                 !.staged = [NoneStaged EXCEPT ![born + 1] = c]]
    <2>1. New(t)
      BY DEF Idle
    <2>2. tx' = [tx EXCEPT ![p] = t] /\ UNCHANGED <<seq, issued, seqLock>>
      BY <1>2 DEF InsertTyped
    <2> HIDE DEF t
    <2>3. QED
      BY <1>1, <2>1, <2>2
  <1>3. ASSUME NEW n \in BatchSizes, InsertUncoded(p, n) PROVE Kept
    <2> DEFINE new == born + 1 .. born + n
               t == [Idle EXCEPT !.pc = "config", !.op = "insert", !.new = new,
                                 !.todo = new, !.batch = new]
    <2>1. new # {}
      <3>1. born \in Int /\ n \in Int /\ n >= 1
        BY NumberingConstants DEF SInv, TypeOK, RowIds
      <3>2. born + 1 \in new
        BY <3>1
      <3>3. QED
        BY <3>2
    <2>2. tx' = [tx EXCEPT ![p] = t] /\ UNCHANGED <<seq, issued, seqLock>>
      BY <1>3 DEF InsertUncoded
    <2> HIDE DEF new
    <2>3. New(t)
      BY <2>1 DEF Idle
    <2> HIDE DEF t
    <2>4. QED
      BY <1>1, <2>2, <2>3
  <1>4. CASE EnableRead(p)
    <2> DEFINE t == [Idle EXCEPT !.pc = "enable", !.op = "enable"]
    <2>1. New(t)
      BY DEF Idle
    <2>2. tx' = [tx EXCEPT ![p] = t] /\ UNCHANGED <<seq, issued, seqLock>>
      BY <1>4 DEF EnableRead
    <2> HIDE DEF t
    <2>3. QED
      BY <1>1, <2>1, <2>2
  <1>5. CASE EnableWrite(p)
    <2> DEFINE t == [tx[p] EXCEPT !.pc = "rows"]
    <2>1. /\ t.pc = "rows" /\ t.last = tx[p].last /\ t.nums = tx[p].nums
      BY DEF SInv, TypeOK, TxRecord
    <2>2. tx' = [tx EXCEPT ![p] = t] /\ UNCHANGED <<seq, issued, seqLock>>
      BY <1>5 DEF EnableWrite, SInv, TypeOK
    <2> HIDE DEF t
    <2>3. QED
      BY <2>1, <2>2, QuietStepKeeps
  <1>6. CASE SelectUncoded(p)
    <2> DEFINE t == [tx[p] EXCEPT !.todo = {r \in RowIds : rows[r].shown /\ rows[r].code = NoCode}]
    <2>0. {r \in RowIds : rows[r].shown /\ rows[r].code = NoCode} \in RowSets
      BY DEF RowSets
    <2>1. t \in TxRecord /\ t.last = tx[p].last /\ t.nums = tx[p].nums
      BY <2>0 DEF SInv, TypeOK, TxRecord
    <2>2. tx' = [tx EXCEPT ![p] = After(t)] /\ UNCHANGED <<seq, issued, seqLock>>
      BY <1>6 DEF SelectUncoded
    <2> HIDE DEF t
    <2>3. QED
      BY <2>1, <2>2, AfterKeeps, QuietStepKeeps
  <1>7. QED
    BY <1>2, <1>3, <1>4, <1>5, <1>6 DEF Request

LEMMA AllocateKeeps ==
    ASSUME SInv, NEW p \in Procs, Allocate(p)
    PROVE  Owned' /\ Contiguous' /\ BatchHeld' /\ Gapless'
  <1> DEFINE Kept == Owned' /\ Contiguous' /\ BatchHeld' /\ Gapless'
             k == tx[p].k
  <1>0. /\ tx[p] \in TxRecord /\ k \in Periods /\ seq \in LastSerials
        /\ tx[p].last \in LastSerials
    BY DEF SInv, TypeOK, TxRecord
  <1>1. CASE ReadConfig(p)
    <2> DEFINE u == [tx[p] EXCEPT !.k = period, !.pc = "lock"]
    <2>1. u.last = tx[p].last /\ u.nums = tx[p].nums /\ u.batch = tx[p].batch /\ u.pc = "lock"
      BY <1>0 DEF TxRecord
    <2>2. tx[p].batch # {}
      BY <1>1 DEF ReadConfig, SInv, BatchHeld
    <2>3. tx' = [tx EXCEPT ![p] = IF enabled THEN u ELSE After(tx[p])]
      BY <1>1 DEF ReadConfig
    <2>4. UNCHANGED <<seq, issued, seqLock>>
      BY <1>1 DEF ReadConfig
    <2> HIDE DEF u
    <2>5. CASE enabled
      BY <2>1, <2>2, <2>3, <2>4, <2>5, QuietStepKeeps
    <2>6. CASE ~enabled
      BY <1>0, <2>3, <2>4, <2>6, AfterKeeps, QuietStepKeeps
    <2>7. QED
      BY <2>5, <2>6
  <1>2. ASSUME NEW n \in Nat, tx' = [tx EXCEPT ![p] = Advanced(tx[p], n)],
               UNCHANGED <<seq, issued>>, seqLock' = [seqLock EXCEPT ![k] = p],
               seqLock[k] \in {p, NoProc}, tx[p].batch # {},
               \/ tx[p].last[k] > 0 /\ n = tx[p].last[k]
               \/ tx[p].last[k] = 0 /\ (seq[k] > 0 => n = seq[k])
        PROVE  Kept
    <2> DEFINE u == Advanced(tx[p], n)
    <2>1. /\ \A j \in Periods : Follows(u, j, seq[j])
          /\ \A j \in Periods \ {k} : u.last[j] = tx[p].last[j]
          /\ u.batch # {}
      BY <1>0, <1>2, AdvancedFollows DEF SInv, Contiguous
    <2> HIDE DEF u
    <2>2. \A j \in Periods : u.last[j] > 0 => seqLock'[j] = p
      BY <1>0, <1>2, <2>1 DEF SInv, TypeOK, Owned
    <2>3. \A j \in Periods, q \in Procs \ {p} : seqLock[j] = q => seqLock'[j] = q
      BY <1>0, <1>2, NumberingConstants DEF SInv, TypeOK
    <2>4. tx' = [tx EXCEPT ![p] = u]
      BY <1>2 DEF u
    <2>5. QED
      BY <1>2, <2>1, <2>2, <2>3, <2>4, StepKeeps
  <1>3. CASE Advance(p)
    <2> DEFINE n == IF tx[p].last[k] > 0 THEN tx[p].last[k] ELSE seq[k]
    <2>1. n \in Nat /\ tx[p].last[k] \in Nat
      BY <1>0 DEF LastSerials
    <2>2. /\ tx' = [tx EXCEPT ![p] = Advanced(tx[p], n)] /\ UNCHANGED <<seq, issued>>
          /\ seqLock' = [seqLock EXCEPT ![k] = p] /\ seqLock[k] \in {p, NoProc}
          /\ tx[p].batch # {}
      BY <1>3 DEF Advance, SInv, BatchHeld
    <2>3. \/ tx[p].last[k] > 0 /\ n = tx[p].last[k]
          \/ tx[p].last[k] = 0 /\ (seq[k] > 0 => n = seq[k])
      BY <2>1
    <2> HIDE DEF n
    <2>4. QED
      BY <1>2, <2>1, <2>2, <2>3
  <1>4. CASE ScanCodes(p)
    <2>1. PICK n \in 0..MaxSerial : tx' = [tx EXCEPT ![p].first = n + 1, ![p].pc = "insert"]
      BY <1>4 DEF ScanCodes
    <2> DEFINE u == [tx[p] EXCEPT !.first = n + 1, !.pc = "insert"]
    <2>2. tx' = [tx EXCEPT ![p] = u] /\ UNCHANGED <<seq, issued, seqLock>>
      BY <1>4, <2>1 DEF ScanCodes, SInv, TypeOK
    <2>3. u.last = tx[p].last /\ u.nums = tx[p].nums /\ u.batch = tx[p].batch /\ u.batch # {}
      BY <1>0, <1>4 DEF TxRecord, ScanCodes, SInv, BatchHeld
    <2> HIDE DEF u
    <2>4. QED
      BY <2>2, <2>3, QuietStepKeeps
  <1>5. CASE InsertSequence(p)
    <2> DEFINE n == tx[p].first - 1
    <2>1. n \in Nat
      BY <1>0 DEF TxRecord
    <2>2. /\ tx' = [tx EXCEPT ![p] = Advanced(tx[p], n)] /\ UNCHANGED <<seq, issued>>
          /\ seqLock' = [seqLock EXCEPT ![k] = p] /\ seqLock[k] = NoProc /\ seq[k] = 0
          /\ tx[p].batch # {}
      BY <1>5 DEF InsertSequence, SInv, BatchHeld
    <2>3. tx[p].last[k] = 0
      BY <1>0, <2>2, NumberingConstants DEF SInv, Owned, LastSerials
    <2>4. \/ tx[p].last[k] > 0 /\ n = tx[p].last[k]
          \/ tx[p].last[k] = 0 /\ (seq[k] > 0 => n = seq[k])
      BY <2>2, <2>3
    <2>5. seqLock[k] \in {p, NoProc}
      BY <2>2
    <2> HIDE DEF n
    <2>6. QED
      BY <1>2, <2>1, <2>2, <2>4, <2>5
  <1>6. CASE InsertSequenceRefused(p) \/ AssignRefused(p)
    BY <1>6, EndTxKeeps DEF InsertSequenceRefused, AssignRefused
  <1>7. CASE AssignCodes(p)
    <2> DEFINE u == Assigned(tx[p])
    <2>1. u \in TxRecord /\ u.last = tx[p].last /\ u.nums = tx[p].nums
      <3> DEFINE staged == [r \in RowIds |-> IF r \in tx[p].batch THEN NewCode(tx[p], r)
                                             ELSE tx[p].staged[r]]
      <3>1. staged \in StagedCodes
        BY <1>0, NewCodeIsCode DEF TxRecord, StagedCodes
      <3>2. u = [tx[p] EXCEPT !.staged = staged]
        BY DEF Assigned
      <3> HIDE DEF staged, u
      <3>3. QED
        BY <1>0, <3>1, <3>2 DEF TxRecord
    <2>2. tx' = [tx EXCEPT ![p] = After(u)] /\ UNCHANGED <<seq, issued, seqLock>>
      BY <1>7 DEF AssignCodes
    <2> HIDE DEF u
    <2>3. QED
      BY <2>1, <2>2, AfterKeeps, QuietStepKeeps
  <1>8. QED
    BY <1>1, <1>3, <1>4, <1>5, <1>6, <1>7 DEF Allocate

(* What p commits in a period comes right after what was issued there.      *)
LEMMA CommitKeeps ==
    ASSUME SInv, NEW p \in Procs, Commit(p)
    PROVE  Owned' /\ Contiguous' /\ BatchHeld' /\ Gapless'
  <1> DEFINE t == tx[p]
  <1>0. /\ t \in TxRecord /\ t.last \in [Periods -> Nat] /\ seq \in [Periods -> Nat]
        /\ issued \in [Periods -> SUBSET Nat]
    BY DEF SInv, TypeOK, TxRecord, LastSerials
  <1>1. /\ seq' = [k \in Periods |-> IF t.last[k] > 0 THEN t.last[k] ELSE seq[k]]
        /\ issued' = [k \in Periods |-> issued[k] \cup {n \in 1..t.last[k] : <<k, n>> \in t.nums}]
        /\ tx' = [tx EXCEPT ![p] = Idle]
    BY DEF Commit, SeqWith, EndTx
  <1>2. \A q \in Procs : tx'[q] = IF q = p THEN Idle ELSE tx[q]
    BY <1>1 DEF SInv, TypeOK
  <1>3. Owned'
    <2> SUFFICES ASSUME NEW q \in Procs, NEW k \in Periods, tx'[q].last[k] > 0
                 PROVE  seqLock'[k] = q
      BY DEF Owned
    <2>1. q # p /\ tx[q].last[k] > 0
      BY <1>2, IdleFollows
    <2>2. seqLock[k] = q
      BY <2>1 DEF SInv, Owned
    <2>3. QED
      BY <2>1, <2>2 DEF Commit, EndTx, SInv, TypeOK
  <1>4. Contiguous'
    <2> SUFFICES ASSUME NEW q \in Procs, NEW k \in Periods
                 PROVE  Follows(tx'[q], k, seq'[k])
      BY DEF Contiguous
    <2>1. CASE q = p
      BY <1>2, <2>1, IdleFollows
    <2>2. CASE q # p /\ t.last[k] > 0
      <3>1. tx[q].last[k] = 0
        BY <2>2 DEF SInv, Owned, TypeOK, TxRecord, LastSerials
      <3>2. QED
        BY <1>2, <2>2, <3>1 DEF SInv, Contiguous, Follows
    <2>3. CASE q # p /\ ~(t.last[k] > 0)
      BY <1>1, <1>2, <2>3 DEF SInv, Contiguous
    <2>4. QED
      BY <2>1, <2>2, <2>3
  <1>5. BatchHeld'
    BY <1>2, IdleFollows DEF SInv, BatchHeld
  <1>6. ASSUME NEW k \in Periods
        PROVE  IF seq'[k] = 0 THEN issued'[k] = {}
               ELSE \E lo \in 1..seq'[k] : issued'[k] = lo..seq'[k]
    <2>1. IF seq[k] = 0 THEN issued[k] = {} ELSE \E lo \in 1..seq[k] : issued[k] = lo..seq[k]
      BY DEF SInv, Gapless
    <2>2. Follows(t, k, seq[k])
      BY DEF SInv, Contiguous
    <2>3. seq[k] \in Nat /\ t.last[k] \in Nat
      BY <1>0
    <2>4. CASE t.last[k] = 0
      <3>1. seq'[k] = seq[k] /\ issued'[k] = issued[k]
        BY <1>1, <2>4
      <3>2. QED
        BY <2>1, <3>1
    <2>5. CASE t.last[k] # 0
      <3>1. PICK lo \in 1..t.last[k] : /\ Serials(t, k) = lo..t.last[k]
                                       /\ seq[k] > 0 => lo = seq[k] + 1
        BY <2>2, <2>5 DEF Follows
      <3>2. {n \in 1..t.last[k] : <<k, n>> \in t.nums} = lo..t.last[k]
        BY <2>3, <3>1 DEF Serials
      <3>3. seq'[k] = t.last[k] /\ issued'[k] = issued[k] \cup (lo..t.last[k])
        BY <1>1, <2>3, <2>5, <3>2
      <3>4. CASE seq[k] = 0
        BY <2>1, <2>5, <3>3, <3>4
      <3>5. CASE seq[k] # 0
        <4>1. PICK lo0 \in 1..seq[k] : issued[k] = lo0..seq[k]
          BY <2>1, <3>5
        <4>2. lo = seq[k] + 1
          BY <2>3, <3>1, <3>5
        <4>3. issued'[k] = lo0..t.last[k] /\ lo0 \in 1..t.last[k]
          BY <2>3, <3>1, <3>3, <4>1, <4>2
        <4>4. QED
          BY <2>5, <3>3, <4>3
      <3>6. QED
        BY <3>4, <3>5
    <2>6. QED
      BY <2>4, <2>5
  <1>7. Gapless'
    BY <1>6 DEF Gapless
  <1>8. QED
    BY <1>3, <1>4, <1>5, <1>6, <1>7

LEMMA SInvInit == Init => SInv
  <1>1. Init => Owned /\ Contiguous /\ BatchHeld
    BY IdleFollows DEF Init, Owned, Contiguous, BatchHeld
  <1>2. Init => Gapless
    BY DEF Init, Gapless, NoSerials
  <1>3. QED
    BY <1>1, <1>2, InitType DEF SInv

LEMMA SInvStep == ASSUME SInv, [Next]_vars PROVE SInv'
  <1> DEFINE Kept == Owned' /\ Contiguous' /\ BatchHeld' /\ Gapless'
  <1>1. TypeOK'
    BY TypeStep DEF SInv
  <1>2. ASSUME NEW p \in Procs, Request(p) \/ Allocate(p) \/ Commit(p) \/ Abort(p) PROVE Kept
    BY <1>2, RequestKeeps, AllocateKeeps, CommitKeeps, EndTxKeeps DEF Abort
  <1>3. (UNCHANGED <<seq, seqLock, tx, issued>>) => Kept
    BY DEF SInv, Owned, Contiguous, BatchHeld, Gapless
  <1>4. ASSUME NEW r \in RowIds, NEW c \in TypedCodes, TypeCode(r, c) PROVE Kept
    BY <1>3, <1>4 DEF TypeCode
  <1>5. ASSUME Disable PROVE Kept
    BY <1>3, <1>5 DEF Disable
  <1>6. ASSUME Tick PROVE Kept
    BY <1>3, <1>6 DEF Tick
  <1>7. ASSUME UNCHANGED vars PROVE Kept
    BY <1>3, <1>7 DEF vars
  <1> HIDE DEF Kept
  <1>8. Kept
    BY <1>2, <1>4, <1>5, <1>6, <1>7 DEF Next
  <1>9. QED
    BY <1>1, <1>8 DEF SInv, Kept

\* The row lock of allocateNumber: only its holder advances a sequence.
THEOREM SequencesAreOwned == Spec => []SInv
  <1>1. SInv /\ [Next]_vars => SInv'
    BY SInvStep
  <1>2. QED
    BY <1>1, SInvInit, PTL DEF Spec

\* No serial of a period is skipped, whichever requests roll back.
THEOREM NoGaps == Spec => []Gapless
  <1>1. SInv => Gapless
    BY DEF SInv
  <1>2. QED
    BY <1>1, SequencesAreOwned, PTL

LEMMA FreshSerials == SInv => SerialsFresh
  <1> SUFFICES ASSUME SInv, NEW p \in Procs, NEW x \in tx[p].nums
               PROVE  /\ \A m \in issued[x[1]] : m < x[2]
                      /\ \A q \in Procs \ {p} : x \notin tx[q].nums
    BY DEF SerialsFresh
  <1> DEFINE k == x[1]
  <1>1. /\ tx[p] \in TxRecord /\ seq \in [Periods -> Nat]
        /\ \A q \in Procs : tx[q].last \in [Periods -> Nat]
    BY DEF SInv, TypeOK, TxRecord, LastSerials
  <1>2. x \in Periods \X Nat
    BY <1>1 DEF TxRecord, Allocations
  <1>3. k \in Periods /\ x[2] \in Serials(tx[p], k) /\ x = <<k, x[2]>>
    BY <1>2 DEF Serials
  <1>4. Follows(tx[p], k, seq[k])
    BY <1>3 DEF SInv, Contiguous
  <1>5. tx[p].last[k] > 0 /\ (seq[k] > 0 => seq[k] < x[2])
    BY <1>1, <1>3, <1>4 DEF Follows
  <1>6. IF seq[k] = 0 THEN issued[k] = {} ELSE \E lo \in 1..seq[k] : issued[k] = lo..seq[k]
    BY <1>3 DEF SInv, Gapless
  <1>7. \A m \in issued[k] : m < x[2]
    BY <1>1, <1>2, <1>3, <1>5, <1>6
  <1>8. ASSUME NEW q \in Procs \ {p} PROVE x \notin tx[q].nums
    <2>1. tx[q].last[k] = 0
      BY <1>1, <1>3, <1>5 DEF SInv, Owned
    <2>2. Serials(tx[q], k) = {}
      BY <1>3, <2>1 DEF SInv, Contiguous, Follows
    <2>3. QED
      BY <1>2, <1>3, <2>2 DEF Serials
  <1>9. QED
    BY <1>7, <1>8

\* No serial is issued twice: who holds serials of a period holds its row.
THEOREM NoSerialTwice == Spec => []SerialsFresh
  BY FreshSerials, SequencesAreOwned, PTL

-----------------------------------------------------------------------------
(* Codes.  The invariant: every code in use was typed or comes from a       *)
(* serial that was issued (Accounted), every code a transaction writes from *)
(* one that it holds (Own), and the batch it is about to number has its     *)
(* last serials to itself (Batched).                                        *)

\* Periods show in the codes, or there is one only.
Distinct == Dated \/ LastPeriod = 1

Accounted(c) == c = NoCode \/ c \in typed \/ \E k \in Periods : \E n \in issued[k] : c = CodeOf(k, n)
Own(t, c, T) == c = NoCode \/ c \in T \/ \E x \in t.nums : c = CodeOf(x[1], x[2])

Batched(t, T) ==
    t.pc = "assign" =>
        /\ t.last[t.k] = t.first + Cardinality(t.batch) - 1
        /\ \A n \in t.first .. t.last[t.k] : <<t.k, n>> \in t.nums
        /\ \A r \in RowIds, x \in t.nums :
              t.staged[r] = CodeOf(t.k, x[2]) => x[2] < t.first \/ t.staged[r] \in T

OwnCodes(t, T) == (\A r \in RowIds : Own(t, t.staged[r], T)) /\ Batched(t, T)

CodesInv ==
    /\ \A r \in RowIds : Accounted(rows[r].code)
    /\ \A p \in Procs : OwnCodes(tx[p], typed)

LEMMA CodeTellsSerial ==
    ASSUME Distinct, NEW j \in Periods, NEW k \in Periods, NEW m, NEW n,
           CodeOf(j, m) = CodeOf(k, n)
    PROVE  j = k /\ m = n
  BY NumberingConstants DEF Distinct, CodeOf, Periods

\* The codes of a batch are among the serials it was given last.
LEMMA BatchCode ==
    ASSUME NEW t \in TxRecord, NEW T, Batched(t, T), t.pc = "assign", NEW r \in t.batch
    PROVE  \E n \in t.first .. t.last[t.k] :
              NewCode(t, r) = CodeOf(t.k, n) /\ <<t.k, n>> \in t.nums
  <1> DEFINE below == {x \in t.batch : x < r}
             n == t.first + Cardinality(below)
  <1>1. t.batch \in RowSets /\ below \in SUBSET t.batch /\ t.first \in Nat \ {0} /\ r \in Int
    BY NumberingConstants DEF TxRecord, RowSets, RowIds
  <1>2. IsFiniteSet(t.batch)
    <2>1. IsFiniteSet(1..MaxRows)
      BY FS_Interval, NumberingConstants
    <2>2. t.batch \in SUBSET (1..MaxRows)
      BY <1>1 DEF RowSets, RowIds
    <2> HIDE DEF below, n
    <2>3. QED
      BY <2>1, <2>2, FS_Subset
  <1>3. /\ Cardinality(below) \in Nat /\ Cardinality(t.batch) \in Nat
        /\ Cardinality(below) <= Cardinality(t.batch)
        /\ Cardinality(t.batch) = Cardinality(below) => t.batch = below
    BY <1>1, <1>2, FS_Subset, FS_CardinalityType
  <1>4. r \notin below
    BY <1>1
  <1>5. Cardinality(below) < Cardinality(t.batch)
    BY <1>3, <1>4
  <1>6. t.last[t.k] = t.first + Cardinality(t.batch) - 1
    BY DEF Batched
  <1>7. NewCode(t, r) = CodeOf(t.k, n)
    BY DEF NewCode
  <1> HIDE DEF below
  <1>8. n \in t.first .. t.last[t.k]
    BY <1>1, <1>3, <1>5, <1>6
  <1>9. <<t.k, n>> \in t.nums
    BY <1>8 DEF Batched
  <1> HIDE DEF n
  <1>10. QED
    BY <1>7, <1>8, <1>9

LEMMA OwnGrows ==
    ASSUME NEW t, NEW T, NEW U, T \subseteq U, OwnCodes(t, T)
    PROVE  OwnCodes(t, U)
  BY DEF OwnCodes, Own, Batched

LEMMA AfterOwns ==
    ASSUME NEW t \in TxRecord, NEW T, \A r \in RowIds : Own(t, t.staged[r], T)
    PROVE  OwnCodes(After(t), T)
  <1>1. /\ After(t).staged = t.staged /\ After(t).nums = t.nums
        /\ After(t).pc # "assign"
    BY DEF After, TxRecord
  <1>2. QED
    BY <1>1 DEF OwnCodes, Own, Batched

LEMMA IdleOwns == \A T : OwnCodes(Idle, T)
  BY DEF Idle, NoneStaged, OwnCodes, Own, Batched

(* A step of p to the record t that commits nothing.                        *)
LEMMA OwnStep ==
    ASSUME TypeOK, CodesInv, NEW p \in Procs, NEW t, tx' = [tx EXCEPT ![p] = t],
           UNCHANGED <<rows, issued>>, typed \subseteq typed', OwnCodes(t, typed')
    PROVE  CodesInv'
  <1>1. \A q \in Procs : tx'[q] = IF q = p THEN t ELSE tx[q]
    BY DEF TypeOK
  <1>2. \A q \in Procs : OwnCodes(tx'[q], typed')
    BY <1>1, OwnGrows DEF CodesInv
  <1>3. \A r \in RowIds : Accounted(rows[r].code)'
    BY DEF CodesInv, Accounted
  <1>4. QED
    BY <1>2, <1>3 DEF CodesInv

LEMMA EndTxOwns ==
    ASSUME TypeOK, CodesInv, NEW p \in Procs, EndTx(p), UNCHANGED <<rows, issued, typed>>
    PROVE  CodesInv'
  BY OwnStep, IdleOwns DEF EndTx

(* A step that changes neither serials, nor codes, nor the batch.           *)
LEMMA QuietOwns ==
    ASSUME TypeOK, CodesInv, NEW p \in Procs, NEW t, tx' = [tx EXCEPT ![p] = t],
           UNCHANGED <<rows, issued, typed>>,
           t.staged = tx[p].staged, t.nums = tx[p].nums, t.pc # "assign"
    PROVE  CodesInv'
  <1>1. OwnCodes(t, typed)
    BY DEF CodesInv, OwnCodes, Own, Batched
  <1>2. QED
    BY <1>1, OwnStep

LEMMA RequestOwns ==
    ASSUME TypeOK, CodesInv, NEW p \in Procs, Request(p)
    PROVE  CodesInv'
  <1>0. tx[p] \in TxRecord
    BY DEF TypeOK
  <1>1. ASSUME NEW c \in TypedCodes, InsertTyped(p, c) PROVE CodesInv'
    <2> DEFINE t == [Idle EXCEPT !.pc = "commit", !.op = "insert", !.new = {born + 1},
                                 !.staged = [NoneStaged EXCEPT ![born + 1] = c]]
    <2>1. /\ tx' = [tx EXCEPT ![p] = t] /\ typed' = typed \cup {c}
          /\ UNCHANGED <<rows, issued>>
      BY <1>1 DEF InsertTyped
    <2>2. OwnCodes(t, typed')
      BY <2>1 DEF Idle, NoneStaged, OwnCodes, Own, Batched
    <2> HIDE DEF t
    <2>3. QED
      BY <2>1, <2>2, OwnStep
  <1>2. ASSUME NEW n \in BatchSizes, InsertUncoded(p, n) PROVE CodesInv'
    <2> DEFINE new == born + 1 .. born + n
               t == [Idle EXCEPT !.pc = "config", !.op = "insert", !.new = new,
                                 !.todo = new, !.batch = new]
    <2>1. tx' = [tx EXCEPT ![p] = t] /\ UNCHANGED <<rows, issued, typed>>
      BY <1>2 DEF InsertUncoded
    <2> HIDE DEF new
    <2>2. OwnCodes(t, typed')
      BY DEF Idle, NoneStaged, OwnCodes, Own, Batched
    <2> HIDE DEF t
    <2>3. QED
      BY <2>1, <2>2, OwnStep
  <1>3. CASE EnableRead(p)
    <2> DEFINE t == [Idle EXCEPT !.pc = "enable", !.op = "enable"]
    <2>1. tx' = [tx EXCEPT ![p] = t] /\ UNCHANGED <<rows, issued, typed>>
      BY <1>3 DEF EnableRead
    <2>2. OwnCodes(t, typed')
      BY DEF Idle, NoneStaged, OwnCodes, Own, Batched
    <2> HIDE DEF t
    <2>3. QED
      BY <2>1, <2>2, OwnStep
  <1>4. CASE EnableWrite(p)
    <2> DEFINE t == [tx[p] EXCEPT !.pc = "rows"]
    <2>1. t.pc = "rows" /\ t.staged = tx[p].staged /\ t.nums = tx[p].nums
      BY <1>0 DEF TxRecord
    <2>2. tx' = [tx EXCEPT ![p] = t] /\ UNCHANGED <<rows, issued, typed>>
      BY <1>4 DEF EnableWrite, TypeOK
    <2> HIDE DEF t
    <2>3. QED
      BY <2>1, <2>2, QuietOwns
  <1>5. CASE SelectUncoded(p)
    <2> DEFINE t == [tx[p] EXCEPT !.todo = {r \in RowIds : rows[r].shown /\ rows[r].code = NoCode}]
    <2>0. {r \in RowIds : rows[r].shown /\ rows[r].code = NoCode} \in RowSets
      BY DEF RowSets
    <2>1. t \in TxRecord /\ t.staged = tx[p].staged /\ t.nums = tx[p].nums
      BY <1>0, <2>0 DEF TxRecord
    <2>2. tx' = [tx EXCEPT ![p] = After(t)] /\ UNCHANGED <<rows, issued, typed>>
      BY <1>5 DEF SelectUncoded
    <2> HIDE DEF t
    <2>3. \A r \in RowIds : Own(t, t.staged[r], typed)
      BY <2>1 DEF CodesInv, OwnCodes, Own
    <2>4. QED
      BY <2>1, <2>2, <2>3, AfterOwns, OwnStep
  <1>6. QED
    BY <1>1, <1>2, <1>3, <1>4, <1>5 DEF Request

(* The serials above n are new to p, whose codes have lower ones.           *)
LEMMA AdvancedOwns ==
    ASSUME Distinct, NEW t \in TxRecord, NEW T, NEW n \in Nat,
           \A r \in RowIds : Own(t, t.staged[r], T),
           \A m \in Serials(t, t.k) : m <= n
    PROVE  OwnCodes(Advanced(t, n), T)
  <1> DEFINE m == n + Cardinality(t.batch)
             u == Advanced(t, n)
  <1>1. /\ t.k \in Periods /\ t.batch \in RowSets /\ t.last \in [Periods -> Nat]
        /\ t.nums \in SUBSET (Periods \X Nat)
    BY DEF TxRecord, LastSerials, Allocations
  <1>2. Cardinality(t.batch) \in Nat
    BY <1>1, BatchSize
  <1>3. /\ u.first = n + 1 /\ u.last = [t.last EXCEPT ![t.k] = m] /\ u.k = t.k
        /\ u.batch = t.batch /\ u.staged = t.staged
        /\ u.nums = t.nums \cup ({t.k} \X (n + 1 .. m))
    BY DEF Advanced, TxRecord
  <1> HIDE DEF u
  <1>4. u.last[u.k] = u.first + Cardinality(u.batch) - 1
    BY <1>1, <1>2, <1>3
  <1>5. \A i \in u.first .. u.last[u.k] : <<u.k, i>> \in u.nums
    BY <1>1, <1>3
  <1>6. ASSUME NEW r \in RowIds, NEW x \in u.nums, u.staged[r] = CodeOf(u.k, x[2]),
               u.staged[r] \notin T, u.staged[r] # NoCode
        PROVE  x[2] < u.first
    <2>1. PICK y \in t.nums : t.staged[r] = CodeOf(y[1], y[2])
      BY <1>3, <1>6 DEF Own
    <2>2. y \in Periods \X Nat
      BY <1>1, <2>1
    <2>3. y[1] = t.k /\ y[2] = x[2]
      BY <1>1, <1>3, <1>6, <2>1, <2>2, CodeTellsSerial
    <2>4. y = <<t.k, x[2]>> /\ x[2] \in Nat
      BY <2>2, <2>3
    <2>5. x[2] \in Serials(t, t.k)
      BY <2>1, <2>4 DEF Serials
    <2>6. x[2] <= n
      BY <2>5
    <2>7. QED
      BY <1>3, <2>4, <2>6
  <1>7. ASSUME NEW r \in RowIds, NEW x \in u.nums, u.staged[r] = CodeOf(u.k, x[2])
        PROVE  u.staged[r] # NoCode
    <2>1. x \in Periods \X Nat
      BY <1>1, <1>2, <1>3
    <2>2. CodeOf(u.k, x[2]) \in Codes
      BY <1>1, <1>3, <2>1, NumberingConstants DEF CodeOf, Codes, Periods
    <2>3. QED
      BY <1>7, <2>2, NumberingConstants
  <1>8. Batched(u, T)
    BY <1>4, <1>5, <1>6, <1>7 DEF Batched
  <1>9. \A r \in RowIds : Own(u, u.staged[r], T)
    BY <1>3 DEF Own
  <1>10. QED
    BY <1>8, <1>9 DEF OwnCodes, u

LEMMA AllocateOwns ==
    ASSUME Distinct, SInv, CodesInv, NEW p \in Procs, Allocate(p)
    PROVE  CodesInv'
  <1> DEFINE k == tx[p].k
  <1>0. /\ TypeOK /\ tx[p] \in TxRecord /\ k \in Periods /\ seq \in [Periods -> Nat]
        /\ tx[p].last \in [Periods -> Nat]
        /\ \A r \in RowIds : Own(tx[p], tx[p].staged[r], typed)
    BY DEF SInv, TypeOK, TxRecord, LastSerials, CodesInv, OwnCodes
  <1>1. CASE ReadConfig(p)
    <2> DEFINE u == [tx[p] EXCEPT !.k = period, !.pc = "lock"]
    <2>1. u.pc = "lock" /\ u.staged = tx[p].staged /\ u.nums = tx[p].nums
      BY <1>0 DEF TxRecord
    <2>2. /\ tx' = [tx EXCEPT ![p] = IF enabled THEN u ELSE After(tx[p])]
          /\ UNCHANGED <<rows, issued, typed>>
      BY <1>1 DEF ReadConfig
    <2> HIDE DEF u
    <2>3. CASE enabled
      BY <1>0, <2>1, <2>2, <2>3, QuietOwns
    <2>4. CASE ~enabled
      BY <1>0, <2>2, <2>4, AfterOwns, OwnStep
    <2>5. QED
      BY <2>3, <2>4
  <1>2. ASSUME NEW n \in Nat, tx' = [tx EXCEPT ![p] = Advanced(tx[p], n)],
               UNCHANGED <<rows, issued, typed>>,
               tx[p].last[k] = 0 \/ n = tx[p].last[k]
        PROVE  CodesInv'
    <2>1. \A m \in Serials(tx[p], k) : m <= n
      <3>1. Follows(tx[p], k, seq[k])
        BY <1>0 DEF SInv, Contiguous
      <3>2. tx[p].last[k] \in Nat
        BY <1>0
      <3> HIDE DEF k
      <3>3. CASE tx[p].last[k] = 0
        BY <3>1, <3>3 DEF Follows
      <3>4. CASE tx[p].last[k] # 0 /\ n = tx[p].last[k]
        BY <3>1, <3>2, <3>4 DEF Follows
      <3>5. QED
        BY <1>2, <3>3, <3>4 DEF k
    <2>2. OwnCodes(Advanced(tx[p], n), typed)
      BY <1>0, <2>1, AdvancedOwns
    <2>3. QED
      BY <1>0, <1>2, <2>2, OwnStep
  <1>3. CASE Advance(p)
    <2> DEFINE n == IF tx[p].last[k] > 0 THEN tx[p].last[k] ELSE seq[k]
    <2>1. n \in Nat /\ (tx[p].last[k] = 0 \/ n = tx[p].last[k])
      BY <1>0
    <2>2. tx' = [tx EXCEPT ![p] = Advanced(tx[p], n)] /\ UNCHANGED <<rows, issued, typed>>
      BY <1>3 DEF Advance
    <2> HIDE DEF n
    <2>3. QED
      BY <1>2, <2>1, <2>2
  <1>4. CASE ScanCodes(p)
    <2>1. PICK n \in 0..MaxSerial : tx' = [tx EXCEPT ![p].first = n + 1, ![p].pc = "insert"]
      BY <1>4 DEF ScanCodes
    <2> DEFINE u == [tx[p] EXCEPT !.first = n + 1, !.pc = "insert"]
    <2>2. tx' = [tx EXCEPT ![p] = u] /\ UNCHANGED <<rows, issued, typed>>
      BY <1>4, <2>1 DEF ScanCodes, SInv, TypeOK
    <2>3. u.pc = "insert" /\ u.staged = tx[p].staged /\ u.nums = tx[p].nums
      BY <1>0 DEF TxRecord
    <2> HIDE DEF u
    <2>4. QED
      BY <1>0, <2>2, <2>3, QuietOwns
  <1>5. CASE InsertSequence(p)
    <2> DEFINE n == tx[p].first - 1
    <2>1. n \in Nat
      BY <1>0 DEF TxRecord
    <2>2. /\ tx' = [tx EXCEPT ![p] = Advanced(tx[p], n)] /\ UNCHANGED <<rows, issued, typed>>
          /\ seqLock[k] = NoProc
      BY <1>5 DEF InsertSequence
    <2>3. tx[p].last[k] = 0
      BY <1>0, <2>2, NumberingConstants DEF SInv, Owned
    <2> HIDE DEF n
    <2>4. QED
      BY <1>2, <2>1, <2>2, <2>3
  <1>6. CASE InsertSequenceRefused(p) \/ AssignRefused(p)
    BY <1>0, <1>6, EndTxOwns DEF InsertSequenceRefused, AssignRefused
  <1>7. CASE AssignCodes(p)
    <2> DEFINE staged == [r \in RowIds |-> IF r \in tx[p].batch THEN NewCode(tx[p], r)
                                           ELSE tx[p].staged[r]]
               u == [tx[p] EXCEPT !.staged = staged]
    <2>1. staged \in StagedCodes
      BY <1>0, NewCodeIsCode DEF TxRecord, StagedCodes
    <2>2. tx' = [tx EXCEPT ![p] = After(u)] /\ UNCHANGED <<rows, issued, typed>>
      BY <1>7 DEF AssignCodes, Assigned
    <2>3. tx[p].pc = "assign" /\ Batched(tx[p], typed)
      BY <1>7 DEF AssignCodes, CodesInv, OwnCodes
    <2>4. ASSUME NEW r \in RowIds PROVE Own(tx[p], staged[r], typed)
      <3>1. CASE r \in tx[p].batch
        BY <1>0, <2>3, <3>1, BatchCode DEF Own
      <3>2. CASE r \notin tx[p].batch
        BY <1>0, <3>2
      <3>3. QED
        BY <3>1, <3>2
    <2> HIDE DEF staged
    <2>5. u \in TxRecord /\ u.staged = staged /\ u.nums = tx[p].nums
      BY <1>0, <2>1 DEF TxRecord
    <2> HIDE DEF u
    <2>6. \A r \in RowIds : Own(u, u.staged[r], typed)
      BY <2>4, <2>5 DEF Own
    <2>7. QED
      BY <1>0, <2>2, <2>5, <2>6, AfterOwns, OwnStep
  <1>8. QED
    BY <1>1, <1>3, <1>4, <1>5, <1>6, <1>7 DEF Allocate

(* What p wrote from its serials is now written from issued ones.           *)
LEMMA CommitOwns ==
    ASSUME SInv, CodesInv, NEW p \in Procs, Commit(p)
    PROVE  CodesInv'
  <1> DEFINE t == tx[p]
  <1>0. /\ TypeOK /\ t \in TxRecord /\ t.last \in [Periods -> Nat]
        /\ t.nums \in SUBSET (Periods \X Nat)
    BY DEF SInv, TypeOK, TxRecord, LastSerials, Allocations
  <1>1. /\ issued' = [k \in Periods |-> issued[k] \cup {n \in 1..t.last[k] : <<k, n>> \in t.nums}]
        /\ tx' = [tx EXCEPT ![p] = Idle] /\ typed' = typed
        /\ \A r \in RowIds : rows'[r].code = IF t.staged[r] # NoCode THEN t.staged[r]
                                                ELSE rows[r].code
    BY DEF Commit, EndTx
  <1>2. \A q \in Procs : OwnCodes(tx'[q], typed')
    <2>1. \A q \in Procs : tx'[q] = IF q = p THEN Idle ELSE tx[q]
      BY <1>0, <1>1 DEF TypeOK
    <2>2. QED
      BY <1>1, <2>1, IdleOwns DEF CodesInv
  <1>3. ASSUME NEW x \in t.nums PROVE x[1] \in Periods /\ x[2] \in issued'[x[1]]
    <2>1. x \in Periods \X Nat
      BY <1>0
    <2>2. x[2] \in Serials(t, x[1]) /\ x = <<x[1], x[2]>> /\ x[1] \in Periods
      BY <2>1 DEF Serials
    <2>3. Follows(t, x[1], seq[x[1]])
      BY <2>2 DEF SInv, Contiguous
    <2>4. x[2] \in 1..t.last[x[1]]
      BY <1>0, <2>2, <2>3 DEF Follows
    <2>5. QED
      BY <1>1, <2>2, <2>4
  <1>4. ASSUME NEW r \in RowIds PROVE Accounted(rows[r].code)'
    <2>1. CASE t.staged[r] # NoCode
      <3>1. Own(t, t.staged[r], typed)
        BY DEF CodesInv, OwnCodes
      <3>2. QED
        BY <1>1, <1>3, <2>1, <3>1 DEF Own, Accounted
    <2>2. CASE t.staged[r] = NoCode
      <3>1. Accounted(rows[r].code)
        BY DEF CodesInv
      <3>2. \A k \in Periods : issued[k] \subseteq issued'[k]
        BY <1>1
      <3>3. QED
        BY <1>1, <2>2, <3>1, <3>2 DEF Accounted
    <2>3. QED
      BY <2>1, <2>2
  <1>5. QED
    BY <1>2, <1>4 DEF CodesInv

LEMMA CodesInit == Init => CodesInv
  BY IdleOwns DEF Init, CodesInv, Accounted

LEMMA CodesStep ==
    ASSUME Distinct, SInv, CodesInv, [Next]_vars
    PROVE  CodesInv'
  <1>0. TypeOK
    BY DEF SInv
  <1>1. ASSUME NEW p \in Procs, Request(p) \/ Allocate(p) \/ Commit(p) \/ Abort(p)
        PROVE  CodesInv'
    BY <1>0, <1>1, RequestOwns, AllocateOwns, CommitOwns, EndTxOwns DEF Abort
  <1>2. ASSUME NEW r \in RowIds, NEW c \in TypedCodes, TypeCode(r, c)
        PROVE  CodesInv'
    <2>1. typed \subseteq typed' /\ UNCHANGED <<tx, issued>>
      BY <1>2 DEF TypeCode
    <2>2. \A q \in Procs : OwnCodes(tx'[q], typed')
      BY <2>1, OwnGrows DEF CodesInv
    <2>3. \A x \in RowIds : rows'[x].code = rows[x].code \/ rows'[x].code \in typed' \cup {NoCode}
      BY <1>0, <1>2 DEF TypeCode, TypeOK
    <2>4. QED
      BY <2>1, <2>2, <2>3 DEF CodesInv, Accounted
  <1>3. (UNCHANGED <<rows, tx, issued, typed>>) => CodesInv'
    BY DEF CodesInv, Accounted
  <1>4. CASE Disable \/ Tick \/ UNCHANGED vars
    BY <1>3, <1>4 DEF Disable, Tick, vars
  <1>5. QED
    BY <1>1, <1>2, <1>4 DEF Next

\* The next code of a create, an import or a backfill is in use only because a
\* user typed it, as long as the codes of different periods differ.
THEOREM OnlyTypedCollide == ASSUME Distinct PROVE Spec => []CollidesOnlyWithTyped
  <1>1. ASSUME SInv, CodesInv PROVE CollidesOnlyWithTyped
    <2> SUFFICES ASSUME NEW p \in Procs, tx[p].pc = "assign", NEW r \in tx[p].batch,
                        Taken(p, r, NewCode(tx[p], r)), NewCode(tx[p], r) \notin typed
                 PROVE  FALSE
      BY DEF CollidesOnlyWithTyped
    <2> DEFINE t == tx[p]
               c == NewCode(t, r)
    <2>1. /\ TypeOK /\ t \in TxRecord /\ Batched(t, typed)
          /\ t.k \in Periods /\ t.first \in Nat /\ t.last \in [Periods -> Nat]
          /\ t.nums \in SUBSET (Periods \X Nat) /\ t.staged \in StagedCodes
      BY <1>1 DEF SInv, TypeOK, TxRecord, CodesInv, OwnCodes, LastSerials, Allocations
    <2>2. PICK n \in t.first .. t.last[t.k] : c = CodeOf(t.k, n) /\ <<t.k, n>> \in t.nums
      BY <2>1, BatchCode
    <2>3. PICK x \in RowIds \ {r} : SeenCode(p, x) = c
      BY DEF Taken
    <2>4. c # NoCode
      BY DEF Taken
    <2>5. CASE t.staged[x] = c
      BY <2>1, <2>2, <2>5 DEF Batched
    <2>6. CASE rows[x].code = c
      <3>1. PICK k \in Periods, m \in Nat : m \in issued[k] /\ c = CodeOf(k, m)
        <4>1. PICK k \in Periods : \E m \in issued[k] : c = CodeOf(k, m)
          BY <1>1, <2>4, <2>6 DEF CodesInv, Accounted
        <4>2. issued[k] \subseteq Nat
          BY <2>1 DEF TypeOK
        <4>3. QED
          BY <4>1, <4>2
      <3>2. k = t.k /\ m = n
        <4>1. t.k \in Periods /\ CodeOf(k, m) = CodeOf(t.k, n)
          BY <2>1, <2>2, <3>1
        <4> HIDE DEF t
        <4>2. QED
          BY <4>1, CodeTellsSerial
      <3>3. SerialsFresh
        BY <1>1, FreshSerials
      <3>4. \A j \in issued[t.k] : j < n
        BY <2>2, <3>3 DEF SerialsFresh
      <3>5. n \in Nat
        BY <2>1, <2>2
      <3>6. QED
        BY <3>1, <3>2, <3>4, <3>5
    <2>7. QED
      BY <2>3, <2>4, <2>5, <2>6 DEF SeenCode
  <1>2. SInv /\ CodesInv /\ [Next]_vars => CodesInv'
    BY CodesStep
  <1>3. Spec => []CodesInv
    BY <1>2, SequencesAreOwned, CodesInit, PTL DEF Spec
  <1>4. QED
    BY <1>1, <1>3, SequencesAreOwned, PTL

=============================================================================
