-------------------------- MODULE SettlementProofs --------------------------
(***************************************************************************)
(* Proofs about Settlement, for any memos, amounts and requests.  No       *)
(* handler of it runs in a transaction, so anything may happen between a   *)
(* check and the write it allowed.  Nothing keeps two requests apart: the  *)
(* properties say how far each overlap can take the rows.                  *)
(***************************************************************************)
EXTENDS Settlement, FiniteSetTheorems, TLAPS

\* The fields each operation uses, at the statements it has.
Shape(r) ==
    /\ r.pc = "idle" <=> r.op = "none"
    /\ r.op = "invoice" => /\ r.pc \in {"gl", "write"} /\ r.to \in Asked
                           /\ r.pc = "gl" => r.to = "issued"
    /\ r.op = "pay" => r.pc \in {"balance", "insert", "after", "mark", "gl"}
                       /\ r.amount \in Amounts
    /\ r.op = "memo" => r.pc \in {"write", "after", "mark"} /\ r.memo \in Memos
                        /\ r.to \in {"applied", "voided"}

TInv == TypeOK /\ \A p \in Procs : Shape(req[p])

-----------------------------------------------------------------------------
(* Types.                                                                  *)

LEMMA IdleShape == Idle \in ReqRecord /\ Shape(Idle)
BY DEF Idle, ReqRecord, Shape

LEMMA InitTyped == Init => TInv
<1> SUFFICES ASSUME Init
             PROVE  TInv
  OBVIOUS
<1>1. req \in [Procs -> ReqRecord] /\ \A p \in Procs : Shape(req[p])
  BY IdleShape DEF Init
<1>2. crowd \in [{"invoice", "pay"} -> Nat] /\ astray \in BOOLEAN /\ overtaken \subseteq Procs
  BY DEF Init
<1>3. /\ status \in Statuses /\ memo \in [Memos -> {"open", "applied", "voided"}]
      /\ paid \in Nat /\ liability \in Int
      /\ posted \in Nat /\ cut \in 0..MaxCuts /\ lost \in 0..MaxLost
  BY SettlementConstants DEF Init, Statuses
<1> QED
  BY <1>1, <1>2, <1>3 DEF TInv, TypeOK

\* The crowd of an operation grows to the requests of it now in flight.
LEMMA CrowdGrows ==
    ASSUME TInv, NEW op \in {"invoice", "pay"}, Crowds(op)
    PROVE  /\ crowd' \in [{"invoice", "pay"} -> Nat]
           /\ crowd'[op] >= Cardinality(InFlight(op)) + 1
           /\ \A o \in {"invoice", "pay"} : crowd'[o] >= crowd[o]
<1> DEFINE n == Cardinality(InFlight(op)) + 1
<1>1. n \in Nat
  <2>1. IsFiniteSet(InFlight(op))
    BY FS_Subset, SettlementConstants DEF InFlight
  <2> QED
    BY <2>1, FS_CardinalityType
<1>2. crowd' = [crowd EXCEPT ![op] = IF n > crowd[op] THEN n ELSE crowd[op]]
  BY DEF Crowds
<1> HIDE DEF n
<1>3. crowd \in [{"invoice", "pay"} -> Nat]
  BY DEF TInv, TypeOK
<1>4. crowd' \in [{"invoice", "pay"} -> Nat] /\ crowd'[op] >= n
      /\ \A o \in {"invoice", "pay"} : crowd'[o] >= crowd[o]
  BY <1>1, <1>2, <1>3
<1> QED
  BY <1>4 DEF n

\* A step of p that leaves the others' requests alone and p with a good one.
LEMMA ReqTyped ==
    ASSUME TInv, NEW p \in Procs, NEW r, r \in ReqRecord, Shape(r),
           req' = [req EXCEPT ![p] = r]
    PROVE  req' \in [Procs -> ReqRecord] /\ \A q \in Procs : Shape(req'[q])
BY DEF TInv, TypeOK

LEMMA StartTyped ==
    ASSUME TInv, NEW p \in Procs,
           \/ \E to \in Asked : InvoiceRead(p, to)
           \/ \E a \in Amounts : PayRead(p, a)
           \/ \E m \in Memos, to \in {"applied", "voided"} : MemoRead(p, m, to)
    PROVE  TInv'
<1>1. ASSUME NEW to \in Asked, InvoiceRead(p, to)
      PROVE  TInv'
  <2> DEFINE r == [Idle EXCEPT !.op = "invoice", !.to = to,
                               !.pc = IF to = "issued" THEN "gl" ELSE "write"]
  <2>1. r \in ReqRecord /\ Shape(r)
    BY SettlementConstants DEF Idle, ReqRecord, Shape, Ops
  <2>2. req' = [req EXCEPT ![p] = r]
    BY <1>1 DEF InvoiceRead, InvoiceAsked, Begin
  <2>3. UNCHANGED <<status, memo, paid, liability, posted, cut, lost, astray, overtaken>>
    BY <1>1 DEF InvoiceRead, InvoiceAsked, Begin
  <2>4. crowd' \in [{"invoice", "pay"} -> Nat]
    BY <1>1, CrowdGrows DEF InvoiceRead, InvoiceAsked
  <2> HIDE DEF r
  <2> QED
    BY <2>1, <2>2, <2>3, <2>4, ReqTyped DEF TInv, TypeOK
<1>2. ASSUME NEW a \in Amounts, PayRead(p, a)
      PROVE  TInv'
  <2> DEFINE r == [Idle EXCEPT !.op = "pay", !.pc = "balance", !.amount = a]
  <2>1. r \in ReqRecord /\ Shape(r)
    BY DEF Idle, ReqRecord, Shape, Ops
  <2>2. req' = [req EXCEPT ![p] = r]
    BY <1>2 DEF PayRead, PayUnchecked, Begin
  <2>3. UNCHANGED <<status, memo, paid, liability, posted, cut, lost, astray, overtaken>>
    BY <1>2 DEF PayRead, PayUnchecked, Begin
  <2>4. crowd' \in [{"invoice", "pay"} -> Nat]
    BY <1>2, CrowdGrows DEF PayRead, PayUnchecked
  <2> HIDE DEF r
  <2> QED
    BY <2>1, <2>2, <2>3, <2>4, ReqTyped DEF TInv, TypeOK
<1>3. ASSUME NEW m \in Memos, NEW to \in {"applied", "voided"}, MemoRead(p, m, to)
      PROVE  TInv'
  <2> DEFINE r == [Idle EXCEPT !.op = "memo", !.pc = "write", !.to = to, !.memo = m]
  <2>1. r \in ReqRecord /\ Shape(r)
    BY DEF Idle, ReqRecord, Shape, Ops, Statuses
  <2>2. req' = [req EXCEPT ![p] = r]
    BY <1>3 DEF MemoRead, Begin
  <2>3. UNCHANGED <<status, memo, paid, liability, posted, cut, lost, seen, overtaken>>
    BY <1>3 DEF MemoRead, Begin
  <2> HIDE DEF r
  <2> QED
    BY <2>1, <2>2, <2>3, ReqTyped DEF TInv, TypeOK, seen
<1> QED
  BY <1>1, <1>2, <1>3

Start(p) ==
    \/ \E to \in Asked : InvoiceRead(p, to)
    \/ \E a \in Amounts : PayRead(p, a)
    \/ \E m \in Memos, to \in {"applied", "voided"} : MemoRead(p, m, to)
Go(p) ==
    \/ InvoiceGL(p) \/ InvoiceWrite(p)
    \/ PayBalance(p) \/ PayInsert(p) \/ PayAfter(p) \/ PayMark(p) \/ PayGL(p)
    \/ MemoWrite(p) \/ MemoAfter(p) \/ MemoMark(p)
    \/ GLFails(p) \/ Cut(p)

LEMMA Steps ==
    ASSUME Next
    PROVE  \E p \in Procs : Start(p) \/ Go(p)
BY DEF Next, Start, Go, Invoice, Pay, Memo

\* A request ends, or goes on at a statement its operation has.
LEMMA NextReq ==
    ASSUME TInv, NEW p \in Procs, Go(p)
    PROVE  /\ req' \in [Procs -> ReqRecord]
           /\ \A q \in Procs : Shape(req'[q])
           /\ \A q \in Procs \ {p} : req'[q] = req[q]
           /\ \/ req'[p] = Idle
              \/ /\ req'[p].op = req[p].op /\ req'[p].to = req[p].to
                 /\ req'[p].amount = req[p].amount
<1>0. req[p] \in ReqRecord /\ Shape(req[p]) /\ req \in [Procs -> ReqRecord]
  BY DEF TInv, TypeOK
<1>1. CASE req' = [req EXCEPT ![p] = Idle]
  BY <1>1, <1>0, IdleShape, ReqTyped
<1>2. ASSUME NEW pc \in {"insert", "gl", "write", "after", "mark"},
             Shape([req[p] EXCEPT !.pc = pc]), req' = [req EXCEPT ![p].pc = pc]
      PROVE  /\ req' \in [Procs -> ReqRecord]
             /\ \A q \in Procs : Shape(req'[q])
             /\ \A q \in Procs \ {p} : req'[q] = req[q]
             /\ req'[p].op = req[p].op /\ req'[p].to = req[p].to
             /\ req'[p].amount = req[p].amount
  <2> DEFINE r == [req[p] EXCEPT !.pc = pc]
  <2>1. r \in ReqRecord /\ Shape(r)
    BY <1>0, <1>2 DEF ReqRecord
  <2>2. req' = [req EXCEPT ![p] = r]
    BY <1>2
  <2>3. r.op = req[p].op /\ r.to = req[p].to /\ r.amount = req[p].amount
    BY <1>0 DEF ReqRecord
  <2> HIDE DEF r
  <2> QED
    BY <2>1, <2>2, <2>3, <1>0, ReqTyped
<1>3. \/ req' = [req EXCEPT ![p] = Idle]
      \/ \E pc \in {"insert", "gl", "write", "after", "mark"} :
            Shape([req[p] EXCEPT !.pc = pc]) /\ req' = [req EXCEPT ![p].pc = pc]
  <2>1. CASE InvoiceGL(p)
    BY <2>1, <1>0 DEF InvoiceGL, Goto, Shape, ReqRecord
  <2>2. CASE PayBalance(p)
    BY <2>2, <1>0 DEF PayBalance, Goto, End, Finish, Shape, ReqRecord
  <2>3. CASE PayInsert(p)
    BY <2>3, <1>0 DEF PayInsert, Goto, Shape, ReqRecord
  <2>4. CASE PayAfter(p)
    BY <2>4, <1>0 DEF PayAfter, Goto, Shape, ReqRecord
  <2>5. CASE PayMark(p)
    BY <2>5, <1>0 DEF PayMark, Goto, Shape, ReqRecord
  <2>6. CASE MemoWrite(p)
    BY <2>6, <1>0 DEF MemoWrite, Goto, End, Finish, Shape, ReqRecord
  <2>7. CASE MemoAfter(p)
    BY <2>7, <1>0 DEF MemoAfter, Goto, End, Finish, Shape, ReqRecord
  <2>8. CASE GLFails(p)
    BY <2>8, <1>0 DEF GLFails, Goto, End, Finish, Shape, ReqRecord
  <2>9. CASE InvoiceWrite(p) \/ PayGL(p) \/ MemoMark(p) \/ Cut(p)
    BY <2>9 DEF InvoiceWrite, PayGL, MemoMark, Cut, End, Finish
  <2> QED
    BY <2>1, <2>2, <2>3, <2>4, <2>5, <2>6, <2>7, <2>8, <2>9 DEF Go
<1> QED
  BY <1>1, <1>2, <1>3

\* Only a memo that looks at the balance can go astray, and the crowd grows only
\* when a request begins.
LEMMA GoSeen ==
    ASSUME NEW p \in Procs, Go(p)
    PROVE  /\ crowd' = crowd
           /\ ~MemoAfter(p) => astray' = astray
           /\ astray => astray'
<1>1. CASE MemoAfter(p)
  BY <1>1 DEF MemoAfter
<1>2. CASE ~MemoAfter(p)
  <2>1. UNCHANGED seen
    BY <1>2 DEF Go, InvoiceGL, InvoiceWrite, PayBalance, PayInsert, PayAfter, PayMark, PayGL,
                MemoWrite, MemoMark, GLFails, Cut
  <2> QED
    BY <1>2, <2>1 DEF seen
<1> QED
  BY <1>1, <1>2

LEMMA StepTyped == TInv /\ [Next]_vars => TInv'
<1>1. ASSUME TInv, UNCHANGED vars
      PROVE  TInv'
  BY <1>1 DEF TInv, TypeOK, vars, seen
<1>2. ASSUME TInv, NEW p \in Procs, Start(p)
      PROVE  TInv'
  BY <1>2, StartTyped DEF Start
<1>3. ASSUME TInv, NEW p \in Procs, Go(p)
      PROVE  TInv'
  <2>1. req[p] \in ReqRecord /\ Shape(req[p])
    BY <1>3 DEF TInv, TypeOK
  <2>2. req' \in [Procs -> ReqRecord] /\ \A q \in Procs : Shape(req'[q])
    BY <1>3, NextReq
  <2>3. status' \in Statuses
    BY <1>3, <2>1, SettlementConstants
       DEF Go, TInv, TypeOK, Shape, Statuses, InvoiceGL, InvoiceWrite, PayBalance,
           PayInsert, PayAfter, PayMark, PayGL, MemoWrite, MemoAfter, MemoMark,
           GLFails, Cut
  <2>4. memo' \in [Memos -> {"open", "applied", "voided"}]
    BY <1>3, <2>1
       DEF Go, TInv, TypeOK, Shape, InvoiceGL, InvoiceWrite, PayBalance,
           PayInsert, PayAfter, PayMark, PayGL, MemoWrite, MemoAfter, MemoMark,
           GLFails, Cut
  <2>5. req[p].amount \in Nat
    <3>1. req[p].amount \in Amounts \cup {0}
      BY <2>1 DEF ReqRecord
    <3>2. \A a \in Amounts : a \in Nat
      BY SettlementConstants
    <3>3. \A a \in Amounts \cup {0} : a \in Nat
      BY <3>2
    <3> QED
      BY <3>1, <3>3
  <2>6. paid' \in Nat /\ liability' \in Int
    BY <1>3, <2>5, SettlementConstants
       DEF Go, TInv, TypeOK, InvoiceGL, InvoiceWrite, PayBalance,
           PayInsert, PayAfter, PayMark, PayGL, MemoWrite, MemoAfter, MemoMark,
           GLFails, Cut
  <2>7. posted' \in Nat /\ cut' \in 0..MaxCuts /\ lost' \in 0..MaxLost
    BY <1>3, SettlementConstants
       DEF Go, TInv, TypeOK, InvoiceGL, InvoiceWrite, PayBalance,
           PayInsert, PayAfter, PayMark, PayGL, MemoWrite, MemoAfter, MemoMark,
           GLFails, Cut
  <2>8. crowd' \in [{"invoice", "pay"} -> Nat] /\ astray' \in BOOLEAN
    <3>1. crowd' = crowd
      BY <1>3, GoSeen
    <3>2. astray' \in BOOLEAN
      <4>1. CASE MemoAfter(p)
        BY <4>1 DEF MemoAfter
      <4>2. CASE ~MemoAfter(p)
        BY <1>3, <4>2, GoSeen DEF TInv, TypeOK
      <4> QED
        BY <4>1, <4>2
    <3> QED
      BY <1>3, <3>1, <3>2 DEF TInv, TypeOK
  <2>9. overtaken' \subseteq Procs
    BY <1>3 DEF Go, TInv, TypeOK, InvoiceGL, InvoiceWrite, PayBalance, PayInsert, PayAfter,
                PayMark, PayGL, MemoWrite, MemoAfter, MemoMark, GLFails, Cut, Goto, End,
                Others
  <2> QED
    BY <2>2, <2>3, <2>4, <2>6, <2>7, <2>8, <2>9 DEF TInv, TypeOK
<1> QED
  BY <1>1, <1>2, <1>3, Steps

\* Whatever requests overlap, every row keeps its type: a status is one of those
\* the schema's CHECK allows, and no payment or memo changes sign.
THEOREM TypeCorrect == Spec => []TypeOK
<1>1. TInv => TypeOK
  BY DEF TInv
<1> QED
  BY <1>1, InitTyped, StepTyped, PTL DEF Spec

-----------------------------------------------------------------------------
(* What a step does to the request of one process.                         *)

Issuing(r) == r.op = "invoice" /\ r.pc = "write" /\ r.to = "issued"
Recorded(r) == r.op = "pay" /\ r.pc \in {"after", "mark", "gl"}

\* The request of p ends, the others stand.
LEMMA Ended ==
    ASSUME TInv, NEW p \in Procs, req' = [req EXCEPT ![p] = Idle]
    PROVE  /\ \A q \in Procs \ {p} : req'[q] = req[q]
           /\ req'[p].op = "none" /\ req'[p].pc = "idle"
           /\ ~Issuing(req'[p]) /\ ~Recorded(req'[p])
<1>1. req'[p] = Idle /\ \A q \in Procs \ {p} : req'[q] = req[q]
  BY DEF TInv, TypeOK
<1> QED
  BY <1>1 DEF Idle, Issuing, Recorded

\* It goes on, the others stand.
LEMMA WentOn ==
    ASSUME TInv, NEW p \in Procs, NEW pc, req' = [req EXCEPT ![p].pc = pc]
    PROVE  /\ \A q \in Procs \ {p} : req'[q] = req[q]
           /\ req'[p].pc = pc /\ req'[p].op = req[p].op /\ req'[p].to = req[p].to
           /\ req'[p].amount = req[p].amount
<1>1. req[p] \in ReqRecord
  BY DEF TInv, TypeOK
<1>2. req'[p] = [req[p] EXCEPT !.pc = pc] /\ \A q \in Procs \ {p} : req'[q] = req[q]
  BY DEF TInv, TypeOK
<1> QED
  BY <1>1, <1>2 DEF ReqRecord

LEMMA Kept ==
    ASSUME TInv, NEW p \in Procs, Go(p)
    PROVE  /\ \A q \in Procs \ {p} : req'[q] = req[q]
           /\ \/ req'[p].op = "none"
              \/ req'[p].op = req[p].op /\ req'[p].to = req[p].to
<1>1. Idle.op = "none"
  BY DEF Idle
<1> QED
  BY <1>1, NextReq

\* A new request has read what its check asks for, and nothing is written yet.
LEMMA StartReq ==
    ASSUME TInv, NEW p \in Procs, Start(p)
    PROVE  /\ UNCHANGED <<status, memo, paid, liability, posted, cut, lost, astray, overtaken>>
           /\ req[p].pc = "idle" /\ req[p].op = "none"
           /\ \A q \in Procs \ {p} : req'[q] = req[q]
           /\ req'[p].op \in Ops /\ req'[p].pc \in {"gl", "write", "balance"}
           /\ ~Issuing(req'[p]) /\ ~Recorded(req'[p])
           /\ req'[p].op = "invoice" => Crowds("invoice") /\ <<status, req'[p].to>> \in Transitions
           /\ req'[p].op = "pay" => Crowds("pay") /\ status \in {"issued", "paid"}
           /\ req'[p].op = "memo" => UNCHANGED crowd /\ req'[p].pc = "write"
<1> DEFINE Claim(op) ==
       /\ UNCHANGED <<status, memo, paid, liability, posted, cut, lost, astray, overtaken>>
       /\ req[p].pc = "idle"
       /\ \A q \in Procs \ {p} : req'[q] = req[q]
       /\ req'[p].op = op /\ req'[p].pc \in {"gl", "write", "balance"}
       /\ ~Issuing(req'[p]) /\ ~Recorded(req'[p])
       /\ op = "invoice" => Crowds("invoice") /\ <<status, req'[p].to>> \in Transitions
       /\ op = "pay" => Crowds("pay") /\ status \in {"issued", "paid"}
       /\ op = "memo" => UNCHANGED crowd /\ req'[p].pc = "write"
<1>1. ASSUME NEW to \in Asked, InvoiceRead(p, to)
      PROVE  Claim("invoice")
  <2>1. req' = [req EXCEPT ![p] = [Idle EXCEPT !.op = "invoice", !.to = to,
                                     !.pc = IF to = "issued" THEN "gl" ELSE "write"]]
    BY <1>1 DEF InvoiceRead, InvoiceAsked, Begin
  <2>2. req'[p].op = "invoice" /\ req'[p].to = to
        /\ req'[p].pc = IF to = "issued" THEN "gl" ELSE "write"
    BY <2>1 DEF Idle, TInv, TypeOK
  <2>3. \A q \in Procs \ {p} : req'[q] = req[q]
    BY <2>1 DEF TInv, TypeOK
  <2> QED
    BY <1>1, <2>2, <2>3 DEF InvoiceRead, InvoiceAsked, Begin, Issuing, Recorded
<1>2. ASSUME NEW a \in Amounts, PayRead(p, a)
      PROVE  Claim("pay")
  <2>1. req' = [req EXCEPT ![p] = [Idle EXCEPT !.op = "pay", !.pc = "balance",
                                               !.amount = a]]
    BY <1>2 DEF PayRead, PayUnchecked, Begin
  <2>2. req'[p].op = "pay" /\ req'[p].pc = "balance"
    BY <2>1 DEF Idle, TInv, TypeOK
  <2>3. \A q \in Procs \ {p} : req'[q] = req[q]
    BY <2>1 DEF TInv, TypeOK
  <2> QED
    BY <1>2, <2>2, <2>3 DEF PayRead, PayUnchecked, Begin, Issuing, Recorded
<1>3. ASSUME NEW m \in Memos, NEW to \in {"applied", "voided"}, MemoRead(p, m, to)
      PROVE  Claim("memo")
  <2>1. req' = [req EXCEPT ![p] = [Idle EXCEPT !.op = "memo", !.pc = "write",
                                               !.to = to, !.memo = m]]
    BY <1>3 DEF MemoRead, Begin
  <2>2. req'[p].op = "memo" /\ req'[p].pc = "write"
    BY <2>1 DEF Idle, TInv, TypeOK
  <2>3. \A q \in Procs \ {p} : req'[q] = req[q]
    BY <2>1 DEF TInv, TypeOK
  <2> QED
    BY <1>3, <2>2, <2>3 DEF MemoRead, Begin, seen, Issuing, Recorded
<1>4. req[p].pc = "idle" => req[p].op = "none"
  BY DEF TInv, Shape
<1>5. PICK op \in Ops : Claim(op)
  BY <1>1, <1>2, <1>3 DEF Start, Ops
<1> QED
  BY <1>4, <1>5

\* Who writes the status, and what.
LEMMA StatusWrites ==
    ASSUME TInv, NEW p \in Procs, Go(p)
    PROVE  \/ status' = status
           \/ InvoiceWrite(p) /\ req[p].op = "invoice" /\ status' = req[p].to
           \/ PayMark(p) /\ req[p].op = "pay" /\ status' = "paid"
           \/ MemoMark(p) /\ req[p].op = "memo" /\ status' = "paid"
BY DEF Go, InvoiceGL, InvoiceWrite, PayBalance, PayInsert, PayAfter, PayMark, PayGL,
       MemoWrite, MemoAfter, MemoMark, GLFails, Cut

\* An invoice is never opened again.
LEMMA NeverReopened ==
    ASSUME TInv, NEW p \in Procs, Go(p), status # "open"
    PROVE  status' # "open"
<1>1. req[p].op = "invoice" => req[p].to # "open"
  BY SettlementConstants DEF TInv, Shape
<1> QED
  BY <1>1, StatusWrites

\* The crowd of an operation is no smaller than what is in flight of it.
Crowded == \A op \in {"invoice", "pay"} : Cardinality(InFlight(op)) <= crowd[op]

CrowdInv == TInv /\ Crowded

LEMMA InFlightFinite ==
    ASSUME NEW op, NEW S, S \subseteq InFlight(op)
    PROVE  IsFiniteSet(S) /\ Cardinality(S) \in Nat /\ Cardinality(S) <= Cardinality(InFlight(op))
<1>1. IsFiniteSet(InFlight(op))
  BY FS_Subset, SettlementConstants DEF InFlight
<1> QED
  BY <1>1, FS_Subset, FS_CardinalityType

LEMMA CrowdInit == Init => CrowdInv
<1> SUFFICES ASSUME Init
             PROVE  CrowdInv
  OBVIOUS
<1>1. \A op \in {"invoice", "pay"} : InFlight(op) = {}
  BY DEF Init, Idle, InFlight
<1>2. \A op \in {"invoice", "pay"} : crowd[op] = 0
  BY DEF Init
<1> QED
  BY <1>1, <1>2, FS_EmptySet, InitTyped DEF CrowdInv, Crowded

LEMMA CrowdStart ==
    ASSUME CrowdInv, NEW p \in Procs, Start(p)
    PROVE  /\ Crowded'
           /\ \A op \in {"invoice", "pay"} : crowd'[op] \in Nat /\ crowd'[op] >= crowd[op]
<1>1. TInv /\ TInv' /\ crowd \in [{"invoice", "pay"} -> Nat]
  BY StartTyped DEF CrowdInv, Start, TInv, TypeOK
<1>2. /\ req[p].op = "none" /\ \A q \in Procs \ {p} : req'[q] = req[q]
      /\ req'[p].op \in Ops
      /\ req'[p].op \in {"invoice", "pay"} => Crowds(req'[p].op)
      /\ req'[p].op = "memo" => UNCHANGED crowd
  BY <1>1, StartReq DEF Ops
<1>3. ASSUME NEW op \in {"invoice", "pay"}, op # req'[p].op
      PROVE  InFlight(op)' = InFlight(op)
  BY <1>2, <1>3 DEF InFlight
<1>4. ASSUME NEW op \in {"invoice", "pay"}, op = req'[p].op
      PROVE  Cardinality(InFlight(op)') <= Cardinality(InFlight(op)) + 1
  <2>1. InFlight(op)' = InFlight(op) \cup {p} /\ p \notin InFlight(op)
    BY <1>2, <1>4 DEF InFlight
  <2>2. IsFiniteSet(InFlight(op))
    BY InFlightFinite
  <2>3. Cardinality(InFlight(op)) \in Nat
    BY <2>2, FS_CardinalityType
  <2> QED
    BY <2>1, <2>2, <2>3, FS_AddElement
<1>5. \A op \in {"invoice", "pay"} : Cardinality(InFlight(op)') \in Nat
  <2>1. \A op \in {"invoice", "pay"} : InFlight(op)' \subseteq Procs
    BY DEF InFlight
  <2> QED
    BY <2>1, FS_Subset, FS_CardinalityType, SettlementConstants
<1>6. \A op \in {"invoice", "pay"} : Cardinality(InFlight(op)) \in Nat
  BY InFlightFinite
<1>7. CASE req'[p].op = "memo"
  BY <1>1, <1>2, <1>3, <1>7 DEF CrowdInv, Crowded
<1>8. CASE req'[p].op \in {"invoice", "pay"}
  <2>1. /\ crowd' \in [{"invoice", "pay"} -> Nat]
        /\ crowd'[req'[p].op] >= Cardinality(InFlight(req'[p].op)) + 1
        /\ \A o \in {"invoice", "pay"} : crowd'[o] >= crowd[o]
    BY <1>1, <1>2, <1>8, CrowdGrows
  <2>2. ASSUME NEW op \in {"invoice", "pay"}
        PROVE  Cardinality(InFlight(op)') <= crowd'[op]
    <3>1. CASE op = req'[p].op
      BY <1>4, <1>5, <1>6, <2>1, <3>1
    <3>2. CASE op # req'[p].op
      <4>1. Cardinality(InFlight(op)) <= crowd[op] /\ InFlight(op)' = InFlight(op)
        BY <1>3, <3>2 DEF CrowdInv, Crowded
      <4> QED
        BY <1>1, <1>6, <2>1, <4>1
    <3> QED
      BY <3>1, <3>2
  <2> QED
    BY <2>1, <2>2 DEF Crowded
<1> QED
  BY <1>2, <1>7, <1>8 DEF Ops

LEMMA CrowdStep == CrowdInv /\ [Next]_vars => CrowdInv'
<1>1. CASE CrowdInv /\ UNCHANGED vars
  BY <1>1, StepTyped DEF vars, seen, CrowdInv, Crowded, InFlight
<1>2. ASSUME CrowdInv, NEW p \in Procs, Start(p)
      PROVE  CrowdInv'
  BY <1>2, CrowdStart, StartTyped DEF CrowdInv, Start
<1>3. ASSUME CrowdInv, NEW p \in Procs, Go(p)
      PROVE  CrowdInv'
  <2>1. TInv'
    BY <1>3, StepTyped DEF CrowdInv, Go, Next, Invoice, Pay, Memo
  <2>2. crowd' = crowd
    BY <1>3, GoSeen
  <2>3. ASSUME NEW op \in {"invoice", "pay"}
        PROVE  Cardinality(InFlight(op)') <= crowd[op]
    <3>1. InFlight(op)' \subseteq InFlight(op)
      BY <1>3, Kept DEF CrowdInv, InFlight
    <3>2. Cardinality(InFlight(op)') \in Nat /\ Cardinality(InFlight(op)) \in Nat
          /\ Cardinality(InFlight(op)') <= Cardinality(InFlight(op))
      BY <3>1, InFlightFinite
    <3>3. crowd[op] \in Nat /\ Cardinality(InFlight(op)) <= crowd[op]
      BY <1>3 DEF CrowdInv, Crowded, TInv, TypeOK
    <3> QED
      BY <3>2, <3>3
  <2> QED
    BY <2>1, <2>2, <2>3 DEF CrowdInv, Crowded
<1> QED
  BY <1>1, <1>2, <1>3, Steps

\* A crowd of one is one at a time.
LEMMA Single ==
    ASSUME CrowdInv, NEW op \in {"invoice", "pay"}, crowd[op] <= 1,
           NEW p \in Procs, NEW q \in Procs, req[p].op = op, req[q].op = op
    PROVE  p = q
<1> SUFFICES ASSUME p # q
             PROVE  FALSE
  OBVIOUS
<1>1. {p, q} \subseteq InFlight(op)
  BY DEF InFlight
<1>2. Cardinality({p, q}) = 2
  <2>1. IsFiniteSet({p}) /\ Cardinality({p}) = 1 /\ q \notin {p}
    BY FS_Singleton
  <2>2. Cardinality({p} \cup {q}) = Cardinality({p}) + 1
    BY <2>1, FS_AddElement
  <2>3. {p} \cup {q} = {p, q}
    OBVIOUS
  <2> QED
    BY <2>1, <2>2, <2>3
<1>3. Cardinality({p, q}) <= Cardinality(InFlight(op)) /\ Cardinality(InFlight(op)) \in Nat
  BY <1>1, InFlightFinite
<1>4. crowd[op] \in Nat /\ Cardinality(InFlight(op)) <= crowd[op]
  BY DEF CrowdInv, Crowded, TInv, TypeOK
<1> QED
  BY <1>2, <1>3, <1>4

-----------------------------------------------------------------------------
(* The invoice's journal entry.  It commits before the status, which says  *)
(* no more of it than that: the invoice is open until its entry is made,   *)
(* and stays so if the request that made it is cut off.  While it is open, *)
(* each entry was made by an update still to write, or by one cut off.     *)

Entering(r) == r.op = "invoice" /\ r.pc = "gl"

ToEnter == {p \in Procs : Entering(req[p])}
ToIssue == {p \in Procs : Issuing(req[p])}

Entered ==
    /\ posted + Cardinality(ToEnter) <= crowd["invoice"] + cut
    /\ status = "open" => posted <= Cardinality(ToIssue) + cut

IssueInv == CrowdInv /\ Entered

LEMMA ToFinite ==
    /\ IsFiniteSet(ToEnter) /\ Cardinality(ToEnter) \in Nat
    /\ IsFiniteSet(ToIssue) /\ Cardinality(ToIssue) \in Nat
<1>1. IsFiniteSet(ToEnter) /\ IsFiniteSet(ToIssue)
  BY FS_Subset, SettlementConstants DEF ToEnter, ToIssue
<1> QED
  BY <1>1, FS_CardinalityType

LEMMA IssueInit == Init => IssueInv
<1> SUFFICES ASSUME Init
             PROVE  IssueInv
  OBVIOUS
<1>1. ToEnter = {} /\ ToIssue = {}
  BY DEF Init, Idle, ToEnter, ToIssue, Issuing, Entering
<1>2. Cardinality(ToEnter) = 0 /\ Cardinality(ToIssue) = 0
  BY <1>1, FS_EmptySet
<1>3. Entered
  BY <1>2 DEF Init, Entered
<1> QED
  BY <1>3, CrowdInit DEF IssueInv

LEMMA IssueStart ==
    ASSUME IssueInv, NEW p \in Procs, Start(p)
    PROVE  Entered'
<1>0. TInv /\ CrowdInv /\ posted \in Nat /\ cut \in Nat /\ crowd["invoice"] \in Nat
  BY SettlementConstants DEF IssueInv, CrowdInv, TInv, TypeOK
<1>1. /\ UNCHANGED <<status, posted, cut>>
      /\ req[p].op = "none" /\ ~Issuing(req'[p])
      /\ \A q \in Procs \ {p} : req'[q] = req[q]
      /\ req'[p].op = "invoice" => <<status, req'[p].to>> \in Transitions
  BY <1>0, StartReq
<1>2. crowd'["invoice"] \in Nat /\ crowd'["invoice"] >= crowd["invoice"] /\ Crowded'
  BY <1>0, CrowdStart
<1>3. ToIssue' = ToIssue
  BY <1>1 DEF Issuing, ToIssue
<1>4. CASE ~Entering(req'[p])
  <2>1. ToEnter' = ToEnter
    BY <1>1, <1>4 DEF Entering, ToEnter
  <2> QED
    BY <1>0, <1>1, <1>2, <1>3, <2>1, ToFinite DEF IssueInv, Entered
<1>5. CASE Entering(req'[p])
  <2>1. req'[p].op = "invoice" /\ Shape(req'[p])
    BY <1>0, <1>5, StartTyped DEF Entering, TInv, Start
  <2>2. status = "open"
    BY <1>1, <1>5, <2>1 DEF Transitions, Entering, Shape
  <2>3. posted <= Cardinality(ToIssue) + cut
    BY <2>2 DEF IssueInv, Entered
  <2>4. IsFiniteSet(ToEnter') /\ Cardinality(ToEnter') \in Nat
    <3>1. ToEnter' \subseteq Procs
      BY DEF ToEnter
    <3>2. IsFiniteSet(ToEnter')
      BY <3>1, FS_Subset, SettlementConstants
    <3> QED
      BY <3>2, FS_CardinalityType
  <2>5. Cardinality(ToEnter') + Cardinality(ToIssue) <= Cardinality(InFlight("invoice")')
    <3>1. ToEnter' \cap ToIssue = {} /\ ToEnter' \cup ToIssue \subseteq InFlight("invoice")'
      BY <1>3 DEF ToEnter, ToIssue, Entering, Issuing, InFlight
    <3>2. Cardinality(ToEnter' \cup ToIssue) = Cardinality(ToEnter') + Cardinality(ToIssue)
      <4>1. Cardinality(ToEnter' \cup ToIssue)
                = Cardinality(ToEnter') + Cardinality(ToIssue) - Cardinality(ToEnter' \cap ToIssue)
        BY <2>4, ToFinite, FS_Union
      <4>2. Cardinality(ToEnter' \cap ToIssue) = 0
        BY <3>1, FS_EmptySet
      <4> QED
        BY <2>4, <4>1, <4>2, ToFinite
    <3>3. IsFiniteSet(InFlight("invoice")')
      <4>1. InFlight("invoice")' \subseteq Procs
        BY DEF InFlight
      <4> QED
        BY <4>1, FS_Subset, SettlementConstants
    <3> QED
      BY <3>1, <3>2, <3>3, FS_Subset
  <2>6. Cardinality(InFlight("invoice")') <= crowd'["invoice"]
        /\ Cardinality(InFlight("invoice")') \in Nat
    <3>1. InFlight("invoice")' \subseteq Procs
      BY DEF InFlight
    <3>2. Cardinality(InFlight("invoice")') \in Nat
      BY <3>1, FS_Subset, FS_CardinalityType, SettlementConstants
    <3> QED
      BY <1>2, <3>2 DEF Crowded
  <2>7. posted + Cardinality(ToEnter') <= crowd'["invoice"] + cut
    BY <1>0, <1>2, <2>3, <2>4, <2>5, <2>6, ToFinite
  <2> QED
    BY <1>1, <1>3, <2>3, <2>7 DEF Entered
<1> QED
  BY <1>4, <1>5

LEMMA IssueGo ==
    ASSUME IssueInv, NEW p \in Procs, Go(p)
    PROVE  Entered'
<1>1. /\ TInv /\ Shape(req[p]) /\ posted \in Nat /\ cut \in Nat
      /\ crowd["invoice"] \in Nat /\ crowd' = crowd
  BY SettlementConstants, GoSeen DEF IssueInv, CrowdInv, TInv, TypeOK
<1>2. \A q \in Procs \ {p} : req'[q] = req[q]
  BY <1>1, Kept
<1>3. CASE req[p].op = "invoice" /\ (InvoiceGL(p) \/ GLFails(p))
  <2>1. req' = [req EXCEPT ![p].pc = "write"] /\ req[p].to = "issued" /\ req[p].pc = "gl"
    BY <1>1, <1>3 DEF InvoiceGL, GLFails, Goto, Shape
  <2>2. Entering(req[p]) /\ ~Issuing(req[p])
    BY <1>3, <2>1 DEF Entering, Issuing
  <2>3. Issuing(req'[p]) /\ ~Entering(req'[p])
    <3>1. req'[p].pc = "write" /\ req'[p].op = req[p].op /\ req'[p].to = req[p].to
      BY <1>1, <2>1, WentOn
    <3> QED
      BY <1>3, <2>1, <3>1 DEF Issuing, Entering
  <2>4. ToEnter' = ToEnter \ {p} /\ p \in ToEnter
    BY <1>2, <2>2, <2>3 DEF ToEnter
  <2>5. ToIssue' = ToIssue \cup {p} /\ p \notin ToIssue
    BY <1>2, <2>2, <2>3 DEF ToIssue
  <2>6. Cardinality(ToEnter') = Cardinality(ToEnter) - 1
    BY <2>4, ToFinite, FS_RemoveElement
  <2>7. Cardinality(ToIssue') = Cardinality(ToIssue) + 1
    BY <2>5, ToFinite, FS_AddElement
  <2>8. UNCHANGED <<status, cut>> /\ posted' \in {posted, posted + 1}
    BY <1>3 DEF InvoiceGL, GLFails
  <2> QED
    BY <1>1, <2>6, <2>7, <2>8, ToFinite DEF IssueInv, Entered
<1>4. CASE InvoiceWrite(p)
  <2>1. UNCHANGED <<posted, cut>> /\ status' # "open"
    BY <1>1, <1>4, SettlementConstants DEF InvoiceWrite, Shape
  <2>2. ~Entering(req[p]) /\ ~Entering(req'[p])
    BY <1>1, <1>4, Ended DEF InvoiceWrite, Finish, Entering
  <2>3. ToEnter' = ToEnter
    BY <1>2, <2>2 DEF ToEnter
  <2> QED
    BY <1>1, <2>1, <2>3 DEF IssueInv, Entered
<1>5. CASE Cut(p)
  <2>1. UNCHANGED <<status, posted>> /\ cut' = cut + 1
    BY <1>5 DEF Cut
  <2>2. ~Entering(req'[p]) /\ ~Issuing(req'[p])
    BY <1>1, <1>5, Ended DEF Cut, End, Finish, Entering
  <2>3. ToEnter' = ToEnter \ {p} /\ ToIssue' = ToIssue \ {p}
    BY <1>2, <2>2 DEF ToEnter, ToIssue
  <2>4. Cardinality(ToEnter') \in Nat /\ Cardinality(ToEnter') <= Cardinality(ToEnter)
    <3>1. ToEnter' \subseteq ToEnter
      BY <2>3
    <3> QED
      BY <3>1, ToFinite, FS_Subset, FS_CardinalityType
  <2>5. Cardinality(ToIssue') \in Nat /\ Cardinality(ToIssue) <= Cardinality(ToIssue') + 1
    <3>1. CASE p \in ToIssue
      <4>1. Cardinality(ToIssue \ {p}) = Cardinality(ToIssue) - 1
            /\ IsFiniteSet(ToIssue \ {p})
        BY <3>1, ToFinite, FS_RemoveElement
      <4>2. Cardinality(ToIssue \ {p}) \in Nat
        BY <4>1, FS_CardinalityType
      <4> QED
        BY <2>3, <4>1, <4>2, ToFinite
    <3>2. CASE p \notin ToIssue
      <4>1. ToIssue' = ToIssue
        BY <2>3, <3>2
      <4> QED
        BY <4>1, ToFinite
    <3> QED
      BY <3>1, <3>2
  <2> QED
    BY <1>1, <2>1, <2>4, <2>5, ToFinite DEF IssueInv, Entered
<1>6. CASE /\ ~InvoiceGL(p) /\ ~InvoiceWrite(p) /\ ~Cut(p)
           /\ ~(GLFails(p) /\ req[p].op = "invoice")
  <2>1. UNCHANGED <<posted, cut>> /\ req[p].op # "invoice"
    BY <1>1, <1>6
       DEF Go, Shape, PayBalance, PayInsert, PayAfter, PayMark, PayGL, MemoWrite, MemoAfter,
           MemoMark, GLFails
  <2>2. status' = "open" => status = "open"
    BY <1>1, NeverReopened
  <2>3. ToEnter' = ToEnter /\ ToIssue' = ToIssue
    <3>1. req'[p].op # "invoice"
      BY <1>1, <2>1, Kept
    <3> QED
      BY <1>2, <2>1, <3>1 DEF Issuing, Entering, ToEnter, ToIssue
  <2> QED
    BY <1>1, <2>1, <2>2, <2>3 DEF IssueInv, Entered
<1> QED
  BY <1>3, <1>4, <1>5, <1>6 DEF InvoiceGL

LEMMA IssueStep == IssueInv /\ [Next]_vars => IssueInv'
<1>1. CASE IssueInv /\ UNCHANGED vars
  BY <1>1, CrowdStep DEF vars, seen, IssueInv, Entered, ToEnter, ToIssue
<1>2. IssueInv /\ [Next]_vars => CrowdInv'
  BY CrowdStep DEF IssueInv
<1> QED
  BY <1>1, <1>2, IssueStart, IssueGo, Steps DEF IssueInv

\* The journal entry of an invoice is made no more often than status updates of
\* it overlapped, counting the requests cut off after it, whatever else is in
\* flight: an approval asked for twice at once makes it twice, and never more.
THEOREM EntersOnce == Spec => []PostedOnce
<1>1. IssueInv => PostedOnce
  <2> SUFFICES ASSUME IssueInv
               PROVE  PostedOnce
    OBVIOUS
  <2>1. posted \in Nat /\ cut \in Nat /\ crowd["invoice"] \in Nat
    BY SettlementConstants DEF IssueInv, CrowdInv, TInv, TypeOK
  <2> QED
    BY <2>1, ToFinite DEF IssueInv, Entered, PostedOnce
<1> QED
  BY <1>1, IssueStep, IssueInit, PTL DEF Spec

-----------------------------------------------------------------------------
(* What the ledger owes.  Payments may overlap, so several of them may be  *)
(* recorded and not yet booked: their amounts are summed by a function on  *)
(* the sets of processes, which a step changes by the amount of its own.   *)

\* No payment finds the invoice open, no memo that went not astray marks it
\* paid while it is, and an approval that overlaps no other finds it so.
Late ==
    \A p \in Procs :
        /\ req[p].op = "pay" => status # "open"
        /\ ~astray /\ req[p].op = "memo" /\ req[p].pc = "mark" => status # "open"
        /\ /\ crowd["invoice"] <= 1 /\ ~astray
           /\ req[p].op = "invoice" /\ req[p].to = "issued"
           => status = "open"

LateInv == CrowdInv /\ Late

LEMMA LateInit == Init => LateInv
<1> SUFFICES ASSUME Init
             PROVE  LateInv
  OBVIOUS
<1>1. Late
  BY DEF Init, Idle, Late
<1> QED
  BY <1>1, CrowdInit DEF LateInv

LEMMA LateStart ==
    ASSUME LateInv, NEW p \in Procs, Start(p)
    PROVE  Late'
<1>1. /\ UNCHANGED <<status, astray>> /\ req'[p].op \in Ops
      /\ \A q \in Procs \ {p} : req'[q] = req[q]
      /\ req'[p].op = "invoice" => <<status, req'[p].to>> \in Transitions
      /\ req'[p].op = "pay" => status \in {"issued", "paid"}
      /\ req'[p].op = "memo" => req'[p].pc = "write"
  BY StartReq DEF LateInv, CrowdInv
<1>2. crowd["invoice"] \in Nat /\ crowd'["invoice"] \in Nat
      /\ crowd'["invoice"] >= crowd["invoice"]
  BY CrowdStart DEF LateInv, CrowdInv, TInv, TypeOK
<1>3. crowd'["invoice"] <= 1 => crowd["invoice"] <= 1
  BY <1>2
<1> QED
  BY <1>1, <1>3 DEF LateInv, Late, Transitions

LEMMA LateGo ==
    ASSUME LateInv, NEW p \in Procs, Go(p)
    PROVE  Late'
<1>1. TInv /\ Shape(req[p]) /\ req[p].op \in Ops \cup {"none"}
  BY DEF LateInv, CrowdInv, TInv, TypeOK, ReqRecord
<1>2. /\ \A q \in Procs \ {p} : req'[q] = req[q]
      /\ req'[p].op = "none" \/ (req'[p].op = req[p].op /\ req'[p].to = req[p].to)
  BY <1>1, Kept
<1>3. status # "open" => status' # "open"
  BY <1>1, NeverReopened
<1>4. crowd' = crowd /\ (~astray' => ~astray)
  BY GoSeen
<1>5. ASSUME ~astray', req'[p].op = "memo", req'[p].pc = "mark"
      PROVE  status' # "open"
  <2>1. CASE MemoAfter(p)
    BY <1>5, <2>1, WentOn, <1>1, Ended DEF MemoAfter, Goto, End, Finish
  <2>2. CASE ~MemoAfter(p)
    <3>1. req[p].op = "memo"
      BY <1>2, <1>5
    <3>2. MemoWrite(p) \/ MemoMark(p) \/ Cut(p)
      BY <1>1, <2>2, <3>1
         DEF Go, InvoiceGL, InvoiceWrite, PayBalance, PayInsert, PayAfter, PayMark, PayGL,
             GLFails, Shape
    <3>3. CASE MemoWrite(p)
      BY <1>1, <1>5, <3>3, WentOn, Ended DEF MemoWrite, Goto, End, Finish
    <3>4. CASE MemoMark(p) \/ Cut(p)
      BY <1>1, <1>5, <3>4, Ended DEF MemoMark, Cut, End, Finish
    <3> QED
      BY <3>2, <3>3, <3>4
  <2> QED
    BY <2>1, <2>2
<1>6. CASE status' = status
  BY <1>2, <1>4, <1>5, <1>6 DEF LateInv, Late
<1>7. CASE InvoiceWrite(p) /\ req[p].op = "invoice"
  <2>1. req'[p].op = "none"
    BY <1>1, <1>7, Ended DEF InvoiceWrite, Finish
  <2>2. status' # "open"
    BY <1>1, <1>7, SettlementConstants DEF InvoiceWrite, Shape
  <2>3. \A q \in Procs \ {p} : crowd["invoice"] <= 1 => req[q].op # "invoice"
    BY <1>7, Single DEF LateInv
  <2> QED
    BY <1>2, <1>4, <2>1, <2>2, <2>3 DEF Late
<1>8. CASE \/ PayMark(p) /\ req[p].op = "pay" /\ status' = "paid"
           \/ MemoMark(p) /\ req[p].op = "memo" /\ status' = "paid"
  <2>1. ~astray => status # "open"
    BY <1>8 DEF LateInv, Late, MemoMark
  <2> QED
    BY <1>2, <1>4, <1>8, <2>1 DEF LateInv, Late
<1> QED
  BY <1>1, <1>6, <1>7, <1>8, StatusWrites

LEMMA LateStep == LateInv /\ [Next]_vars => LateInv'
<1>1. LateInv /\ [Next]_vars => CrowdInv'
  BY CrowdStep DEF LateInv
<1>2. CASE LateInv /\ UNCHANGED vars
  BY <1>1, <1>2 DEF vars, seen, LateInv, Late
<1> QED
  BY <1>1, <1>2, LateStart, LateGo, Steps DEF LateInv

\* Who must have found the invoice in the ledger, unless its entry was lost.
Known(r) ==
    \/ Issuing(r) \/ r.op = "pay"
    \/ r.op = "memo" /\ r.pc = "mark"
    \/ r.op = "invoice" /\ r.to = "paid"
InLedger ==
    lost = 0 /\ ~astray => /\ status \in {"issued", "paid"} => posted >= 1
                           /\ \A p \in Procs : Known(req[p]) => posted >= 1

Due(r) == IF Recorded(r) THEN r.amount ELSE 0

\* g adds up what the requests r of a set of processes have not booked yet.
Sums(g, r) ==
    /\ g \in [SUBSET Procs -> Int]
    /\ \A S \in SUBSET Procs : (\A p \in S : ~Recorded(r[p])) => g[S] = 0
    /\ \A S \in SUBSET Procs : \A p \in S : g[S] = Due(r[p]) + g[S \ {p}]

Owed ==
    cut = 0 /\ lost = 0 =>
        \E g : /\ Sums(g, req)
               /\ liability = posted * Total - paid + g[Procs]

OwedInv == IssueInv /\ InLedger /\ Owed

LEMMA SumsStep ==
    ASSUME NEW r, NEW s, NEW g, Sums(g, r), NEW p \in Procs,
           \A q \in Procs \ {p} : s[q] = r[q],
           \A q \in Procs : Due(r[q]) \in Int /\ Due(s[q]) \in Int
    PROVE  \E h : Sums(h, s) /\ h[Procs] = g[Procs] + (Due(s[p]) - Due(r[p]))
<1> DEFINE d == Due(s[p]) - Due(r[p])
           h == [S \in SUBSET Procs |-> IF p \in S THEN g[S] + d ELSE g[S]]
<1>1. d \in Int /\ \A S \in SUBSET Procs : g[S] \in Int
  BY DEF Sums
<1>2. Due(s[p]) = Due(r[p]) + d
  OBVIOUS
<1>3. ~Recorded(s[p]) => Due(s[p]) = 0
  BY DEF Due
<1> HIDE DEF d
<1>4. h \in [SUBSET Procs -> Int]
  BY <1>1
<1>5. ASSUME NEW S \in SUBSET Procs, \A q \in S : ~Recorded(s[q])
      PROVE  h[S] = 0
  <2>1. CASE p \notin S
    <3>1. \A q \in S : ~Recorded(r[q])
      BY <1>5, <2>1
    <3> QED
      BY <2>1, <3>1 DEF Sums
  <2>2. CASE p \in S
    <3>1. g[S \ {p}] = 0
      <4>1. S \ {p} \in SUBSET Procs /\ \A q \in S \ {p} : ~Recorded(r[q])
        BY <1>5
      <4> QED
        BY <4>1 DEF Sums
    <3>2. g[S] = Due(r[p]) + 0
      BY <2>2, <3>1 DEF Sums
    <3>3. Due(s[p]) = 0
      BY <1>3, <1>5, <2>2
    <3> QED
      BY <1>1, <1>2, <2>2, <3>2, <3>3
  <2> QED
    BY <2>1, <2>2
<1>6. ASSUME NEW S \in SUBSET Procs, NEW q \in S
      PROVE  h[S] = Due(s[q]) + h[S \ {q}]
  <2>1. g[S] = Due(r[q]) + g[S \ {q}] /\ S \ {q} \in SUBSET Procs
    BY DEF Sums
  <2>2. CASE q = p
    <3>1. h[S] = g[S] + d /\ h[S \ {q}] = g[S \ {q}]
      BY <2>1, <2>2
    <3> HIDE DEF h
    <3>2. g[S \ {q}] \in Int
      BY <1>1, <2>1
    <3> QED
      BY <1>1, <1>2, <2>1, <2>2, <3>1, <3>2
  <2>3. CASE q # p
    <3>1. Due(s[q]) = Due(r[q])
      BY <2>3
    <3>2. CASE p \in S
      <4>1. h[S] = g[S] + d /\ h[S \ {q}] = g[S \ {q}] + d
        BY <2>1, <2>3, <3>2
      <4>2. Due(s[q]) \in Int /\ g[S \ {q}] \in Int
        BY <1>1, <2>1
      <4> HIDE DEF h
      <4> QED
        BY <1>1, <2>1, <3>1, <4>1, <4>2
    <3>3. CASE p \notin S
      BY <2>1, <3>1, <3>3
    <3> QED
      BY <3>2, <3>3
  <2> QED
    BY <2>2, <2>3
<1>7. h[Procs] = g[Procs] + d
  OBVIOUS
<1> HIDE DEF h
<1> QED
  BY <1>4, <1>5, <1>6, <1>7 DEF Sums, d

LEMMA DueType == ASSUME TInv, NEW p \in Procs PROVE Due(req[p]) \in Int
<1>1. req[p] \in ReqRecord
  BY DEF TInv, TypeOK
<1>2. \A a \in Amounts : a \in Int
  BY SettlementConstants
<1> QED
  BY <1>1, <1>2 DEF Due, ReqRecord

LEMMA OwedInit == Init => OwedInv
<1> SUFFICES ASSUME Init
             PROVE  OwedInv
  OBVIOUS
<1>1. \A p \in Procs : ~Known(req[p]) /\ ~Recorded(req[p]) /\ Due(req[p]) = 0
  BY DEF Init, Idle, Known, Issuing, Recorded, Due
<1>2. InLedger
  BY <1>1 DEF Init, InLedger
<1>3. Owed
  <2> DEFINE g == [S \in SUBSET Procs |-> 0]
  <2>1. Sums(g, req)
    BY <1>1 DEF Sums
  <2>2. liability = posted * Total - paid + g[Procs]
    BY SettlementConstants DEF Init
  <2> QED
    BY <2>1, <2>2 DEF Owed
<1> QED
  BY <1>2, <1>3, IssueInit DEF OwedInv

LEMMA OwedTyped == OwedInv => TInv
BY DEF OwedInv, IssueInv, CrowdInv

LEMMA InLedgerStart ==
    ASSUME OwedInv, NEW p \in Procs, Start(p)
    PROVE  InLedger'
<1>1. /\ UNCHANGED <<status, posted, lost, astray>> /\ req'[p].op \in Ops
      /\ \A q \in Procs \ {p} : req'[q] = req[q]
      /\ ~Issuing(req'[p])
      /\ req'[p].op = "invoice" => <<status, req'[p].to>> \in Transitions
      /\ req'[p].op = "pay" => status \in {"issued", "paid"}
      /\ req'[p].op = "memo" => req'[p].pc = "write"
  BY OwedTyped, StartReq
<1>2. Known(req'[p]) => status \in {"issued", "paid"}
  BY <1>1 DEF Known, Transitions
<1> QED
  BY <1>1, <1>2 DEF OwedInv, InLedger

LEMMA InLedgerGo ==
    ASSUME OwedInv, NEW p \in Procs, Go(p)
    PROVE  InLedger'
<1>1. TInv /\ Shape(req[p]) /\ posted \in Nat /\ lost \in Nat
  BY OwedTyped, SettlementConstants DEF TInv, TypeOK
<1>2. /\ \A q \in Procs \ {p} : req'[q] = req[q]
      /\ req'[p].op = "none" \/ (req'[p].op = req[p].op /\ req'[p].to = req[p].to)
  BY <1>1, Kept
<1>3. posted' >= posted /\ posted' \in Nat /\ (lost' = 0 => lost = 0)
  BY <1>1 DEF Go, InvoiceGL, InvoiceWrite, PayBalance, PayInsert, PayAfter, PayMark, PayGL,
              MemoWrite, MemoAfter, MemoMark, GLFails, Cut
<1>4. CASE InvoiceGL(p)
  <2>1. status' = status /\ posted' >= 1
    BY <1>1, <1>4 DEF InvoiceGL
  <2> QED
    BY <2>1 DEF InLedger
<1>5. CASE GLFails(p)
  <2>1. lost' # 0
    BY <1>1, <1>5 DEF GLFails
  <2> QED
    BY <2>1 DEF InLedger
<1>6. CASE MemoAfter(p)
  <2>1. /\ UNCHANGED <<status, posted, lost>>
        /\ ~astray' => ~astray /\ (Remaining <= 0 => status \in {"issued", "paid"})
    BY <1>6 DEF MemoAfter
  <2>2. Known(req'[p]) => Remaining <= 0
    <3>1. CASE ~(Remaining <= 0)
      <4>1. req'[p].op = "none" /\ ~Issuing(req'[p])
        BY <1>1, <1>6, <3>1, Ended DEF MemoAfter, End, Finish
      <4> QED
        BY <4>1 DEF Known
    <3> QED
      BY <3>1
  <2> QED
    BY <1>2, <2>1, <2>2 DEF OwedInv, InLedger
<1>7. CASE ~InvoiceGL(p) /\ ~GLFails(p) /\ ~MemoAfter(p)
  <2>1. Known(req'[p]) => Known(req[p])
    <3>1. \/ req' = [req EXCEPT ![p] = Idle]
          \/ \E pc \in {"insert", "gl", "after", "mark"} :
                req' = [req EXCEPT ![p].pc = pc] /\ (req[p].op = "memo" => pc # "mark")
      BY <1>1, <1>7
         DEF Go, InvoiceWrite, PayBalance, PayInsert, PayAfter, PayMark, PayGL,
             MemoWrite, MemoMark, Cut, Goto, End, Finish
    <3>2. CASE req' = [req EXCEPT ![p] = Idle]
      <4>1. req'[p].op = "none" /\ ~Issuing(req'[p])
        BY <1>1, <3>2, Ended
      <4> QED
        BY <4>1 DEF Known
    <3>3. ASSUME NEW pc \in {"insert", "gl", "after", "mark"},
                 req' = [req EXCEPT ![p].pc = pc], req[p].op = "memo" => pc # "mark"
          PROVE  Known(req'[p]) => Known(req[p])
      <4>1. req'[p].pc = pc /\ req'[p].op = req[p].op /\ req'[p].to = req[p].to
        BY <1>1, <3>3, WentOn
      <4> QED
        BY <3>3, <4>1 DEF Known, Issuing
    <3> QED
      BY <3>1, <3>2, <3>3
  <2>2. status' \in {"issued", "paid"} => status \in {"issued", "paid"} \/ Known(req[p])
    <3>1. CASE InvoiceWrite(p)
      BY <3>1 DEF InvoiceWrite, Known, Issuing
    <3> QED
      BY <1>1, <3>1, StatusWrites DEF Known, MemoMark
  <2>3. astray' = astray
    BY <1>7, GoSeen
  <2>4. lost' = 0 /\ ~astray /\ (status' \in {"issued", "paid"} \/ \E q \in Procs : Known(req'[q]))
            => posted >= 1
    BY <1>2, <1>3, <2>1, <2>2 DEF OwedInv, InLedger
  <2> QED
    BY <1>1, <1>3, <2>3, <2>4 DEF InLedger
<1> QED
  BY <1>4, <1>5, <1>6, <1>7

\* A step of p by which the ledger owes as much more or less as p has to book.
LEMMA OwedBy ==
    ASSUME OwedInv, TInv', cut' = 0 /\ lost' = 0 => cut = 0 /\ lost = 0,
           NEW p \in Procs, \A q \in Procs \ {p} : req'[q] = req[q],
           liability' - (posted' * Total - paid') - Due(req'[p])
               = liability - (posted * Total - paid) - Due(req[p])
    PROVE  Owed'
<1> SUFFICES ASSUME cut' = 0, lost' = 0
             PROVE  \E h : Sums(h, req') /\ liability' = posted' * Total - paid' + h[Procs]
  BY DEF Owed
<1>1. PICK g : Sums(g, req) /\ liability = posted * Total - paid + g[Procs]
  BY DEF OwedInv, Owed
<1>2. \A q \in Procs : Due(req[q]) \in Int
  BY DueType, OwedTyped
<1>3. \A q \in Procs : Due(req'[q]) \in Int
  <2>1. \A q \in Procs : req'[q] \in ReqRecord
    BY DEF TInv, TypeOK
  <2>2. \A a \in Amounts : a \in Int
    BY SettlementConstants
  <2> QED
    BY <2>1, <2>2 DEF Due, ReqRecord
<1>4. PICK h : Sums(h, req') /\ h[Procs] = g[Procs] + (Due(req'[p]) - Due(req[p]))
  BY <1>1, <1>2, <1>3, SumsStep
<1>5. /\ liability \in Int /\ liability' \in Int /\ paid \in Int /\ paid' \in Int
      /\ posted * Total \in Int /\ posted' * Total \in Int /\ g[Procs] \in Int
  <2>1. Total \in Nat /\ posted \in Nat /\ posted' \in Nat
    BY OwedTyped, SettlementConstants DEF TInv, TypeOK
  <2>2. posted * Total \in Int /\ posted' * Total \in Int
    BY <2>1
  <2> QED
    BY <1>1, <2>2, OwedTyped DEF TInv, TypeOK, Sums
<1>6. liability' = posted' * Total - paid' + h[Procs]
  <2> DEFINE old == posted * Total
             new == posted' * Total
  <2>1. liability = old - paid + g[Procs]
    BY <1>1
  <2>2. liability' - (new - paid') - Due(req'[p]) = liability - (old - paid) - Due(req[p])
    OBVIOUS
  <2>3. old \in Int /\ new \in Int
    BY <1>5
  <2> HIDE DEF old, new
  <2>4. liability' = new - paid' + h[Procs]
    BY <1>2, <1>3, <1>4, <1>5, <2>1, <2>2, <2>3
  <2> QED
    BY <2>4 DEF new
<1> QED
  BY <1>4, <1>6

LEMMA OwedGo ==
    ASSUME OwedInv, NEW p \in Procs, Go(p)
    PROVE  Owed'
<1>1. TInv /\ TInv' /\ Shape(req[p]) /\ req[p] \in ReqRecord
      /\ req[p].op \in Ops \cup {"none"}
  <2>1. TInv'
    BY OwedTyped, StepTyped DEF Go, Next, Invoice, Pay, Memo
  <2> QED
    BY <2>1, OwedTyped DEF TInv, TypeOK, ReqRecord
<1>2. \A q \in Procs \ {p} : req'[q] = req[q]
  BY <1>1, Kept
<1>3. /\ liability \in Int /\ paid \in Int /\ Total \in Int /\ posted \in Nat
      /\ cut \in Nat /\ lost \in Nat /\ req[p].amount \in Int
  <2>1. \A a \in Amounts \cup {0} : a \in Int
    BY SettlementConstants
  <2>2. req[p].amount \in Amounts \cup {0}
    BY <1>1 DEF ReqRecord
  <2>3. req[p].amount \in Int
    BY <2>1, <2>2
  <2> QED
    BY <1>1, <2>3, SettlementConstants DEF TInv, TypeOK
<1>9. posted * Total \in Int
  BY <1>3
<1>4. CASE InvoiceGL(p)
  <2>1. /\ liability' = liability + Total /\ posted' = posted + 1
        /\ UNCHANGED <<paid, cut, lost>>
    BY <1>4 DEF InvoiceGL
  <2>2. posted' * Total = posted * Total + Total /\ posted * Total \in Int
    <3>1. \A n, t \in Nat : (n + 1) * t = n * t + t /\ n * t \in Int
      OBVIOUS
    <3> QED
      BY <1>3, <2>1, <3>1, SettlementConstants
  <2>3. ~Recorded(req[p]) /\ ~Recorded(req'[p])
    <3>1. req' = [req EXCEPT ![p].pc = "write"] /\ req[p].op = "invoice"
      BY <1>4 DEF InvoiceGL, Goto
    <3>2. req'[p].op = "invoice"
      BY <1>1, <3>1, WentOn
    <3> QED
      BY <3>1, <3>2 DEF Recorded
  <2>4. Due(req[p]) = 0 /\ Due(req'[p]) = 0
    BY <2>3 DEF Due
  <2>5. liability' - (posted' * Total - paid') - Due(req'[p])
            = liability - (posted * Total - paid) - Due(req[p])
    <3> DEFINE old == posted * Total
    <3>1. posted' * Total = old + Total /\ old \in Int
      BY <2>2
    <3>2. liability' - ((old + Total) - paid') - Due(req'[p])
              = liability - (old - paid) - Due(req[p])
      <4> HIDE DEF old
      <4> QED
        BY <1>3, <2>1, <2>4, <3>1
    <3> QED
      BY <3>1, <3>2
  <2> QED
    BY <1>1, <1>2, <2>1, <2>5, OwedBy
<1>5. CASE PayInsert(p)
  <2>1. /\ paid' = paid + req[p].amount /\ UNCHANGED <<liability, posted, cut, lost>>
        /\ req' = [req EXCEPT ![p].pc = "after"] /\ req[p].pc = "insert"
    BY <1>5 DEF PayInsert, Goto
  <2>2. req[p].op = "pay"
    BY <1>1, <2>1 DEF Shape, Ops
  <2>3. /\ req'[p].pc = "after" /\ req'[p].op = "pay" /\ req'[p].amount = req[p].amount
    BY <1>1, <2>1, <2>2, WentOn
  <2>4. Due(req[p]) = 0 /\ Due(req'[p]) = req[p].amount
    BY <2>1, <2>3 DEF Due, Recorded
  <2>5. liability' - (posted' * Total - paid') - Due(req'[p])
            = liability - (posted * Total - paid) - Due(req[p])
    <3> DEFINE old == posted * Total
    <3>1. posted' * Total = old /\ old \in Int
      BY <1>9, <2>1
    <3>2. liability' - (old - paid') - Due(req'[p]) = liability - (old - paid) - Due(req[p])
      <4> HIDE DEF old
      <4> QED
        BY <1>3, <2>1, <2>4, <3>1
    <3> QED
      BY <3>1, <3>2
  <2> QED
    BY <1>1, <1>2, <2>1, <2>5, OwedBy
<1>6. CASE PayGL(p)
  <2>1. /\ liability' = liability - req[p].amount /\ UNCHANGED <<paid, posted, cut, lost>>
        /\ req' = [req EXCEPT ![p] = Idle] /\ req[p].pc = "gl" /\ req[p].op = "pay"
    BY <1>6 DEF PayGL, End, Finish
  <2>2. ~Recorded(req'[p])
    BY <1>1, <2>1, Ended
  <2>3. Due(req[p]) = req[p].amount /\ Due(req'[p]) = 0
    BY <2>1, <2>2 DEF Due, Recorded
  <2>4. liability' - (posted' * Total - paid') - Due(req'[p])
            = liability - (posted * Total - paid) - Due(req[p])
    <3> DEFINE old == posted * Total
    <3>1. posted' * Total = old /\ old \in Int
      BY <1>9, <2>1
    <3>2. liability' - (old - paid') - Due(req'[p]) = liability - (old - paid) - Due(req[p])
      <4> HIDE DEF old
      <4> QED
        BY <1>3, <2>1, <2>3, <3>1
    <3> QED
      BY <3>1, <3>2
  <2> QED
    BY <1>1, <1>2, <2>1, <2>4, OwedBy
<1>7. CASE GLFails(p) \/ Cut(p)
  <2>1. cut' # 0 \/ lost' # 0
    BY <1>3, <1>7 DEF GLFails, Cut
  <2> QED
    BY <2>1 DEF Owed
<1>8. CASE ~InvoiceGL(p) /\ ~PayInsert(p) /\ ~PayGL(p) /\ ~GLFails(p) /\ ~Cut(p)
  <2>1. UNCHANGED <<liability, paid, posted, cut, lost>>
    BY <1>8 DEF Go, InvoiceWrite, PayBalance, PayAfter, PayMark, MemoWrite, MemoAfter, MemoMark
  <2>2. Due(req'[p]) = Due(req[p])
    <3>1. CASE PayAfter(p) \/ PayMark(p)
      <4>1. /\ req[p].op = "pay" /\ req[p].pc \in {"after", "mark"}
            /\ \E pc \in {"mark", "gl"} : req' = [req EXCEPT ![p].pc = pc]
        BY <3>1 DEF PayAfter, PayMark, Goto
      <4>2. /\ req'[p].op = "pay" /\ req'[p].pc \in {"mark", "gl"}
            /\ req'[p].amount = req[p].amount
        BY <1>1, <4>1, WentOn
      <4> QED
        BY <4>1, <4>2 DEF Due, Recorded
    <3>2. CASE InvoiceWrite(p) \/ PayBalance(p) \/ MemoWrite(p) \/ MemoAfter(p) \/ MemoMark(p)
      <4>1. /\ ~Recorded(req[p])
            /\ \/ req' = [req EXCEPT ![p] = Idle]
               \/ /\ req[p].op = "memo" \/ req[p].pc = "balance"
                  /\ \E pc \in {"insert", "after", "mark"} :
                        /\ req' = [req EXCEPT ![p].pc = pc]
                        /\ req[p].op # "memo" => pc = "insert"
        BY <1>1, <3>2 DEF InvoiceWrite, PayBalance, MemoWrite, MemoAfter, MemoMark, Goto,
                          End, Finish, Recorded, Shape
      <4>2. ~Recorded(req'[p])
        <5>1. CASE req' = [req EXCEPT ![p] = Idle]
          BY <1>1, <5>1, Ended
        <5>2. ASSUME NEW pc \in {"insert", "after", "mark"}, req' = [req EXCEPT ![p].pc = pc],
                     req[p].op # "memo" => pc = "insert"
              PROVE  ~Recorded(req'[p])
          <6>1. req'[p].pc = pc /\ req'[p].op = req[p].op
            BY <1>1, <5>2, WentOn
          <6> QED
            BY <5>2, <6>1 DEF Recorded
        <5> QED
          BY <4>1, <5>1, <5>2
      <4> QED
        BY <4>1, <4>2 DEF Due
    <3> QED
      BY <1>8, <3>1, <3>2 DEF Go
  <2>3. Due(req[p]) \in Int
    BY <1>1, DueType
  <2> QED
    BY <1>1, <1>2, <1>3, <2>1, <2>2, <2>3, OwedBy
<1> QED
  BY <1>4, <1>5, <1>6, <1>7, <1>8

LEMMA OwedStep == OwedInv /\ [Next]_vars => OwedInv'
<1>1. OwedInv /\ [Next]_vars => IssueInv'
  BY IssueStep DEF OwedInv
<1>2. CASE OwedInv /\ UNCHANGED vars
  BY <1>1, <1>2 DEF vars, seen, OwedInv, InLedger, Owed
<1>3. ASSUME OwedInv, NEW p \in Procs, Start(p)
      PROVE  InLedger' /\ Owed'
  <2>1. /\ UNCHANGED <<liability, paid, posted, cut, lost>> /\ ~Recorded(req'[p])
        /\ req[p].op = "none" /\ \A q \in Procs \ {p} : req'[q] = req[q]
    BY <1>3, OwedTyped, StartReq
  <2>2. Due(req'[p]) = Due(req[p])
    BY <2>1 DEF Due, Recorded
  <2>3. TInv'
    BY <1>3, OwedTyped, StartTyped DEF Start
  <2>4. Owed'
    BY <1>3, <2>1, <2>2, <2>3, OwedBy
  <2> QED
    BY <1>3, <2>4, InLedgerStart
<1>4. ASSUME OwedInv, NEW p \in Procs, Go(p)
      PROVE  InLedger' /\ Owed'
  BY <1>4, InLedgerGo, OwedGo
<1> QED
  BY <1>1, <1>2, <1>3, <1>4, Steps DEF OwedInv

\* When nothing was cut off or lost, the payables account owes what the invoice
\* and its payments say, whatever came in between: payments that overlap with
\* one another (and may overpay the invoice together), memos of any invoice that
\* was issued, and status updates, each of which in flight at once with another
\* may count the invoice once more.
THEOREM OwesTheRest == Spec => []LiabilityAgrees
<1>1. ASSUME OwedInv
      PROVE  LiabilityAgrees
  <2> SUFFICES ASSUME status \in {"issued", "paid"}, cut = 0, lost = 0, ~astray,
                      \A p \in Procs : req[p] = Idle
               PROVE  \E n \in 1..crowd["invoice"] : liability = n * Total - paid
    BY DEF LiabilityAgrees
  <2>1. posted >= 1
    BY <1>1 DEF OwedInv, InLedger
  <2>2. PICK g : Sums(g, req) /\ liability = posted * Total - paid + g[Procs]
    BY <1>1 DEF OwedInv, Owed
  <2>3. \A p \in Procs : ~Recorded(req[p])
    BY DEF Idle, Recorded
  <2>4. g[Procs] = 0
    BY <2>2, <2>3 DEF Sums
  <2>5. Total \in Nat /\ paid \in Int /\ posted \in Nat /\ crowd["invoice"] \in Nat
    BY <1>1, OwedTyped, SettlementConstants DEF TInv, TypeOK
  <2>6. posted \in 1..crowd["invoice"]
    BY <1>1, <2>1, <2>5, ToFinite DEF OwedInv, IssueInv, Entered
  <2>7. posted * Total \in Int
    BY <2>5
  <2>8. liability = posted * Total - paid
    <3> DEFINE old == posted * Total
    <3>1. liability = old - paid + g[Procs] /\ old \in Int
      BY <2>2, <2>7
    <3> HIDE DEF old
    <3>2. liability = old - paid
      BY <2>4, <2>5, <3>1
    <3> QED
      BY <3>2 DEF old
  <2> QED
    BY <2>6, <2>8
<1> QED
  BY <1>1, OwedStep, OwedInit, PTL DEF Spec

-----------------------------------------------------------------------------
(* What remains to be paid.                                                *)

LEMMA CreditType == TypeOK => Applied \in SUBSET Memos /\ Credit \in Nat
BY SettlementConstants DEF TypeOK, Applied, Credit

\* A voided memo no longer reduces the balance.
LEMMA CreditFalls ==
    ASSUME TypeOK, NEW m \in Memos, memo' = [memo EXCEPT ![m] = "voided"]
    PROVE  Credit' <= Credit
<1>1. Applied' = Applied \ {m} /\ Applied' \in SUBSET Memos /\ m \in Memos \ Applied'
  BY DEF TypeOK, Applied
<1>2. CreditOf[Applied'] \in Nat /\ MemoAmount[m] \in Nat
  BY <1>1, SettlementConstants
<1>3. CASE m \in Applied
  <2>1. Applied = Applied' \cup {m}
    BY <1>1, <1>3
  <2>2. CreditOf[Applied' \cup {m}] = CreditOf[Applied'] + MemoAmount[m]
    BY <1>1, SettlementConstants
  <2> QED
    BY <1>2, <2>1, <2>2 DEF Credit
<1>4. CASE m \notin Applied
  <2>1. Applied' = Applied
    BY <1>1, <1>4
  <2> QED
    BY <1>2, <2>1 DEF Credit
<1> QED
  BY <1>3, <1>4

\* Who settles the invoice looks at the balance afterwards; who looks and finds
\* nothing remaining marks it paid.
LEMMA SettledKept ==
    ASSUME LateInv, SettledIsPaid, NEW p \in Procs, Go(p)
    PROVE  SettledIsPaid'
<1> SUFFICES ASSUME status' \in {"open", "issued"}, Remaining' <= 0, cut' = 0,
                    crowd'["invoice"] <= 1, ~astray'
             PROVE  \E q \in Procs : req'[q].pc \in {"after", "mark"}
  BY DEF SettledIsPaid
<1>1. TInv /\ TypeOK /\ Shape(req[p])
  BY DEF LateInv, CrowdInv, TInv
<1>0. crowd["invoice"] <= 1 /\ ~astray
  BY GoSeen
<1>2. paid \in Nat /\ Credit \in Nat /\ Total \in Nat \ {0} /\ cut \in Nat
  BY <1>1, CreditType, SettlementConstants DEF TypeOK
<1>3. \A q \in Procs \ {p} : req'[q] = req[q]
  BY <1>1, Kept
<1>4. ~Cut(p) /\ cut = 0
  BY <1>2 DEF Go, Cut, InvoiceGL, InvoiceWrite, PayBalance, PayInsert, PayAfter, PayMark,
              PayGL, MemoWrite, MemoAfter, MemoMark, GLFails
<1>12. CASE status \notin {"open", "issued"}
  <2>1. CASE InvoiceWrite(p)
    <3>1. req[p].op = "invoice" /\ req[p].to = "issued"
      BY <1>1, <2>1, SettlementConstants DEF InvoiceWrite, Shape
    <3> QED
      BY <1>0, <1>12, <3>1 DEF LateInv, Late
  <2> QED
    BY <1>1, <1>12, <2>1, StatusWrites
<1>13. ASSUME status \in {"open", "issued"}, Remaining <= 0
       PROVE  \E q \in Procs : req[q].pc \in {"after", "mark"}
  BY <1>0, <1>4, <1>13 DEF SettledIsPaid
<1>5. ASSUME UNCHANGED <<paid, memo>>
      PROVE  Remaining' = Remaining /\ Remaining = Total - paid - Credit
  BY <1>5 DEF Remaining, Credit, Applied
<1>6. CASE PayInsert(p)
  <2>1. req'[p].pc = "after"
    BY <1>1, <1>6, WentOn DEF PayInsert, Goto
  <2> QED
    BY <2>1
<1>7. CASE MemoWrite(p)
  <2>1. CASE req[p].to = "applied"
    <3>1. req'[p].pc = "after"
      BY <1>1, <1>7, <2>1, WentOn DEF MemoWrite, Goto
    <3> QED
      BY <3>1
  <2>2. CASE req[p].to # "applied"
    <3>1. /\ memo' = [memo EXCEPT ![req[p].memo] = "voided"]
          /\ req[p].memo \in Memos /\ UNCHANGED <<paid, status>>
      BY <1>1, <1>7, <2>2 DEF MemoWrite, Shape
    <3>2. Credit' <= Credit
      BY <1>1, <3>1, CreditFalls
    <3>3. Credit' \in Nat
      <4>1. Applied' \in SUBSET Memos
        BY DEF Applied
      <4> QED
        BY <4>1, SettlementConstants DEF Credit
    <3>4. Remaining <= 0
      <4>1. Total - paid - Credit' <= 0
        BY <3>1 DEF Remaining
      <4>2. \A c, d \in Nat : Total - paid - d <= 0 /\ d <= c => Total - paid - c <= 0
        BY <1>2
      <4>3. Total - paid - Credit <= 0
        BY <1>2, <3>2, <3>3, <4>1, <4>2
      <4> QED
        BY <4>3 DEF Remaining
    <3>5. PICK q \in Procs : req[q].pc \in {"after", "mark"}
      BY <1>13, <3>1, <3>4
    <3>6. q # p
      BY <1>7, <3>5 DEF MemoWrite
    <3> QED
      BY <1>3, <3>5, <3>6
  <2> QED
    BY <2>1, <2>2
<1>8. CASE InvoiceWrite(p)
  <2>1. req[p].to = "issued"
    BY <1>1, <1>8, SettlementConstants DEF InvoiceWrite, Shape
  <2>2. status = "open" /\ UNCHANGED <<paid, memo>> /\ req[p].pc = "write"
    BY <1>0, <1>8, <2>1 DEF InvoiceWrite, LateInv, Late
  <2>3. PICK q \in Procs : req[q].pc \in {"after", "mark"}
    BY <1>5, <1>13, <2>2
  <2> QED
    BY <1>3, <2>2, <2>3
<1>9. CASE PayMark(p) \/ MemoMark(p)
  BY <1>9 DEF PayMark, MemoMark
<1>10. CASE PayAfter(p) \/ MemoAfter(p)
  <2>1. UNCHANGED <<paid, memo>>
    BY <1>10 DEF PayAfter, MemoAfter
  <2>2. req' = [req EXCEPT ![p].pc = "mark"]
    BY <1>5, <1>10, <2>1 DEF PayAfter, MemoAfter, Goto
  <2> QED
    BY <1>1, <2>2, WentOn
<1>11. CASE InvoiceGL(p) \/ PayBalance(p) \/ PayGL(p) \/ GLFails(p)
  <2>1. UNCHANGED <<status, paid, memo>> /\ req[p].pc \notin {"after", "mark"}
    BY <1>11 DEF InvoiceGL, PayBalance, PayGL, GLFails
  <2>2. PICK q \in Procs : req[q].pc \in {"after", "mark"}
    BY <1>5, <1>13, <2>1
  <2> QED
    BY <1>3, <2>1, <2>2
<1> QED
  BY <1>4, <1>6, <1>7, <1>8, <1>9, <1>10, <1>11 DEF Go

\* Of payments and memos that settle an invoice together, in any number and in
\* any order, one is left that will see all of them and mark it paid.
THEOREM SettledGetsPaid == Spec => []SettledIsPaid
<1>1. ASSUME Init
      PROVE  SettledIsPaid
  <2>1. Applied = {}
    BY <1>1 DEF Init, Applied
  <2>2. Remaining = Total /\ Total \in Nat \ {0}
    BY <1>1, <2>1, SettlementConstants DEF Init, Remaining, Credit
  <2> QED
    BY <2>2 DEF SettledIsPaid
<1>2. ASSUME LateInv, SettledIsPaid, [Next]_vars
      PROVE  SettledIsPaid'
  <2>1. CASE UNCHANGED vars
    BY <1>2, <2>1 DEF vars, seen, SettledIsPaid, Remaining, Credit, Applied
  <2>2. ASSUME NEW p \in Procs, Start(p)
        PROVE  SettledIsPaid'
    <3>1. /\ UNCHANGED <<status, memo, paid, cut, astray>> /\ req[p].pc = "idle"
          /\ \A q \in Procs \ {p} : req'[q] = req[q]
      BY <1>2, <2>2, StartReq DEF LateInv, CrowdInv
    <3>2. Remaining' = Remaining
      BY <3>1 DEF Remaining, Credit, Applied
    <3>3. crowd'["invoice"] <= 1 => crowd["invoice"] <= 1
      <4>1. crowd["invoice"] \in Nat /\ crowd'["invoice"] \in Nat
            /\ crowd'["invoice"] >= crowd["invoice"]
        BY <1>2, <2>2, CrowdStart DEF LateInv, CrowdInv, TInv, TypeOK
      <4> QED
        BY <4>1
    <3> QED
      BY <1>2, <3>1, <3>2, <3>3 DEF SettledIsPaid
  <2> QED
    BY <1>2, <2>1, <2>2, SettledKept, Steps
<1> QED
  BY <1>1, <1>2, LateStep, LateInit, PTL DEF Spec

-----------------------------------------------------------------------------
(* Overpayment.  A payment that passed its check fits the total by itself; *)
(* of those in flight at once each may have been checked before any other  *)
(* was inserted, so each but the last checked may add the total once more. *)

Times(n) == Total * n       \* the total n times over

Passed == {p \in Procs : req[p].pc = "insert"}
Room == Times(crowd["pay"])

Fits ==
    /\ \A p \in Passed : req[p].amount <= Total
    /\ \/ paid + Times(Cardinality(Passed)) <= Room
       \/ \E p \in Passed :
             paid + req[p].amount + Times(Cardinality(Passed) - 1) <= Room

PayInv == CrowdInv /\ Fits

LEMMA TimesIs ==
    /\ \A n \in Nat : Times(n) \in Nat
    /\ \A n \in Nat : Times(n + 1) = Times(n) + Total
    /\ \A n, m \in Nat : n <= m => Times(n) <= Times(m)
    /\ Times(0) = 0
<1>1. Total \in Nat
  BY SettlementConstants
<1>2. \A n \in Nat : Times(n) \in Nat
  BY <1>1 DEF Times
<1>3. \A n \in Nat : Times(n + 1) = Times(n) + Total
  BY <1>1 DEF Times
<1>4. ASSUME NEW n \in Nat, NEW m \in Nat, n <= m
      PROVE  Times(n) <= Times(m)
  <2>1. PICK k \in Nat : m = n + k
    <3>1. m - n \in Nat /\ m = n + (m - n)
      BY <1>4
    <3> QED
      BY <3>1
  <2>2. Total * (n + k) = Total * n + Total * k
    BY <1>1
  <2>3. Total * k \in Nat /\ Total * n \in Nat
    BY <1>1
  <2>4. Times(m) = Total * n + Total * k
    BY <2>1, <2>2 DEF Times
  <2> QED
    BY <2>3, <2>4 DEF Times
<1>5. Times(0) = 0
  BY <1>1 DEF Times
<1> QED
  BY <1>2, <1>3, <1>4, <1>5

LEMMA PassedFinite == IsFiniteSet(Passed) /\ Cardinality(Passed) \in Nat
<1>1. IsFiniteSet(Passed)
  BY FS_Subset, SettlementConstants DEF Passed
<1> QED
  BY <1>1, FS_CardinalityType

\* What paying is about in a state of the proof.
LEMMA PayTyped ==
    ASSUME CrowdInv
    PROVE  /\ TInv /\ TypeOK
           /\ paid \in Nat /\ Total \in Nat /\ Credit \in Nat /\ crowd["pay"] \in Nat
           /\ Room \in Nat
           /\ \A p \in Procs : req[p].amount \in Nat
<1>1. TInv /\ TypeOK
  BY DEF CrowdInv, TInv
<1>2. paid \in Nat /\ Total \in Nat /\ crowd["pay"] \in Nat
  BY <1>1, SettlementConstants DEF TypeOK
<1>3. \A p \in Procs : req[p].amount \in Nat
  <2>1. \A p \in Procs : req[p].amount \in Amounts \cup {0}
    BY <1>1 DEF TypeOK, ReqRecord
  <2>2. \A a \in Amounts \cup {0} : a \in Nat
    BY SettlementConstants
  <2> QED
    BY <2>1, <2>2
<1> QED
  BY <1>1, <1>2, <1>3, CreditType, TimesIs DEF Room

\* Passing its check, a payment fits what was paid; the others that passed theirs
\* are no more than the crowd.
LEMMA PassFits ==
    ASSUME PayInv, CrowdInv', NEW p \in Procs, PayBalance(p)
    PROVE  Fits'
<1>1. /\ TInv /\ Shape(req[p]) /\ req[p].op = "pay" /\ p \notin Passed
      /\ UNCHANGED <<paid, crowd>> /\ Room' = Room
  BY PayTyped DEF PayInv, PayBalance, TInv, TypeOK, ReqRecord, Shape, Ops, seen, Room, Passed
<1>2. \A q \in Procs \ {p} : req'[q] = req[q]
  BY <1>1, Kept DEF Go
<1>3. CASE req[p].amount <= Remaining
  <2>1. req' = [req EXCEPT ![p].pc = "insert"]
    BY <1>3 DEF PayBalance, Goto
  <2>2. req'[p].pc = "insert" /\ req'[p].op = "pay" /\ req'[p].amount = req[p].amount
    BY <1>1, <2>1, WentOn
  <2>3. Passed' = Passed \cup {p}
    BY <1>2, <2>2 DEF Passed
  <2>4. Cardinality(Passed') = Cardinality(Passed) + 1
    BY <1>1, <2>3, PassedFinite, FS_AddElement
  <2>5. paid + req[p].amount <= Total /\ req[p].amount <= Total
    BY <1>3, PayTyped DEF PayInv, Remaining
  <2>6. Cardinality(Passed) + 1 <= crowd["pay"]
    <3>1. Passed' \subseteq InFlight("pay")'
      <4>1. \A q \in Procs : req'[q].pc = "insert" => req'[q].op = "pay"
        BY PayTyped DEF PayInv, CrowdInv, TInv, TypeOK, ReqRecord, Shape, Ops
      <4> QED
        BY <4>1 DEF Passed, InFlight
    <3>2. IsFiniteSet(InFlight("pay")')
      <4>1. InFlight("pay")' \subseteq Procs
        BY DEF InFlight
      <4> QED
        BY <4>1, FS_Subset, SettlementConstants
    <3>3. Cardinality(Passed') <= Cardinality(InFlight("pay")')
          /\ Cardinality(InFlight("pay")') \in Nat
      BY <3>1, <3>2, FS_Subset, FS_CardinalityType
    <3>4. Cardinality(InFlight("pay")') <= crowd["pay"]
      BY <1>1 DEF CrowdInv, Crowded
    <3> QED
      BY <2>4, <3>3, <3>4, PassedFinite, PayTyped DEF PayInv
  <2>7. Times(Cardinality(Passed)) + Total <= Room
    <3> DEFINE n == Cardinality(Passed)
    <3>1. n \in Nat /\ n + 1 \in Nat /\ crowd["pay"] \in Nat /\ n + 1 <= crowd["pay"]
      BY <2>6, PassedFinite, PayTyped DEF PayInv
    <3> HIDE DEF n
    <3>2. Times(n + 1) <= Times(crowd["pay"]) /\ Times(n + 1) = Times(n) + Total
      BY <3>1, TimesIs
    <3>3. Times(n) + Total <= Room
      BY <3>2 DEF Room
    <3> QED
      BY <3>3 DEF n
  <2>8. paid + req[p].amount + Times(Cardinality(Passed)) <= Room
    <3> DEFINE rest == Times(Cardinality(Passed))
    <3>1. rest \in Nat
      BY PassedFinite, TimesIs
    <3>2. rest + Total <= Room
      BY <2>7
    <3>3. paid \in Nat /\ Total \in Nat /\ Room \in Nat /\ req[p].amount \in Nat
      BY PayTyped DEF PayInv
    <3> HIDE DEF rest
    <3>4. paid + req[p].amount + rest <= Room
      BY <2>5, <3>1, <3>2, <3>3
    <3> QED
      BY <3>4 DEF rest
  <2>9. Cardinality(Passed') - 1 = Cardinality(Passed)
    BY <2>4, PassedFinite
  <2>10. paid' + req'[p].amount + Times(Cardinality(Passed') - 1) <= Room'
    BY <1>1, <2>2, <2>8, <2>9
  <2>11. \A q \in Passed' : req'[q].amount <= Total
    BY <1>2, <2>2, <2>3, <2>5 DEF PayInv, Fits, Passed
  <2> QED
    BY <2>3, <2>10, <2>11 DEF Fits
<1>4. CASE ~(req[p].amount <= Remaining)
  <2>1. req' = [req EXCEPT ![p] = Idle]
    BY <1>4 DEF PayBalance, End, Finish
  <2>2. req'[p].pc = "idle"
    BY <1>1, <2>1, Ended
  <2>3. Passed' = Passed
    BY <1>1, <1>2, <2>2 DEF Passed
  <2> QED
    BY <1>1, <1>2, <2>3 DEF PayInv, Fits, Passed
<1> QED
  BY <1>3, <1>4

\* A payment that leaves the ones that passed, recorded (add is its amount) or
\* cut off (add is 0), leaves room for the rest.
LEMMA LeaveFits ==
    ASSUME PayInv, NEW p \in Passed, NEW add \in {0, req[p].amount},
           paid' = paid + add, crowd' = crowd,
           req'[p].pc # "insert", \A q \in Procs \ {p} : req'[q] = req[q]
    PROVE  Fits'
<1> DEFINE n == Cardinality(Passed)
<1>1. p \in Procs /\ req[p].amount <= Total /\ req[p].amount \in Nat /\ add \in Nat
      /\ paid \in Nat /\ Total \in Nat /\ Room \in Nat /\ Room' = Room /\ add <= req[p].amount
  BY PayTyped DEF PayInv, Fits, Passed, Room
<1>2. Passed' = Passed \ {p}
  BY DEF Passed
<1>3. n \in Nat /\ Cardinality(Passed') = n - 1 /\ Cardinality(Passed') \in Nat
  BY <1>2, PassedFinite, FS_RemoveElement, FS_CardinalityType
<1>4. \A q \in Passed' : req'[q].amount <= Total
  BY <1>2 DEF PayInv, Fits, Passed
<1> HIDE DEF n
<1>5. Times(n) = Times(n - 1) + Total /\ Times(n - 1) \in Nat
  <2>1. n - 1 \in Nat /\ (n - 1) + 1 = n
    BY <1>3
  <2>2. Times((n - 1) + 1) = Times(n - 1) + Total
    BY <2>1, TimesIs
  <2> QED
    BY <2>1, <2>2, TimesIs
<1>6. CASE paid + Times(n) <= Room
  <2>1. paid + add + Times(n - 1) <= Room
    BY <1>1, <1>5, <1>6
  <2> QED
    BY <1>1, <1>3, <1>4, <2>1 DEF Fits
<1>7. CASE paid + req[p].amount + Times(n - 1) <= Room
  <2>1. paid + add + Times(n - 1) <= Room
    BY <1>1, <1>5, <1>7
  <2> QED
    BY <1>1, <1>3, <1>4, <2>1 DEF Fits
<1>8. ASSUME NEW q \in Passed, q # p, paid + req[q].amount + Times(n - 1) <= Room
      PROVE  Fits'
  <2>1. q \in Passed' /\ req'[q] = req[q] /\ req[q].amount \in Nat
    BY <1>2, <1>8, PayTyped DEF Passed, PayInv
  <2>2. n - 1 # 0
    <3>1. IsFiniteSet(Passed')
      BY <1>2, PassedFinite, FS_Subset
    <3>2. Passed' # {}
      BY <2>1
    <3> QED
      BY <1>3, <3>1, <3>2, FS_EmptySet
  <2>3. n - 2 \in Nat /\ (n - 2) + 1 = n - 1
    BY <1>3, <2>2
  <2>4. Times(n - 1) = Times(n - 2) + Total /\ Times(n - 2) \in Nat
    <3>1. Times((n - 2) + 1) = Times(n - 2) + Total
      BY <2>3, TimesIs
    <3> QED
      BY <2>3, <3>1, TimesIs
  <2>5. paid + add + req[q].amount + Times(n - 2) <= Room
    BY <1>1, <1>8, <2>1, <2>4
  <2>6. Cardinality(Passed') - 1 = n - 2
    BY <1>3
  <2>7. paid' + req'[q].amount + Times(Cardinality(Passed') - 1) <= Room'
    BY <1>1, <2>1, <2>4, <2>5, <2>6
  <2> QED
    BY <1>4, <2>1, <2>7 DEF Fits
<1>9. \/ paid + Times(n) <= Room
      \/ \E q \in Passed : paid + req[q].amount + Times(n - 1) <= Room
  BY DEF PayInv, Fits, n
<1> QED
  BY <1>6, <1>7, <1>8, <1>9

LEMMA PayStep == PayInv /\ [Next]_vars => PayInv'
<1>1. PayInv /\ [Next]_vars => CrowdInv'
  BY CrowdStep DEF PayInv
<1>2. CASE PayInv /\ UNCHANGED vars
  BY <1>1, <1>2 DEF vars, seen, PayInv, Fits, Passed, Room
<1>3. ASSUME PayInv, NEW p \in Procs, Start(p)
      PROVE  Fits'
  <2>1. /\ UNCHANGED paid /\ req'[p].pc # "insert" /\ req[p].pc = "idle"
        /\ \A q \in Procs \ {p} : req'[q] = req[q]
    BY <1>3, StartReq DEF PayInv, CrowdInv
  <2>2. Passed' = Passed
    BY <2>1 DEF Passed
  <2>3. Room <= Room' /\ Room' \in Nat
    <3>1. crowd["pay"] \in Nat /\ crowd'["pay"] \in Nat /\ crowd["pay"] <= crowd'["pay"]
      BY <1>3, CrowdStart, PayTyped DEF PayInv
    <3> QED
      BY <3>1, TimesIs DEF Room
  <2>4. \A q \in Passed : req'[q] = req[q]
    BY <2>1 DEF Passed
  <2>5. Cardinality(Passed) \in Nat /\ Times(Cardinality(Passed)) \in Nat
    BY PassedFinite, TimesIs
  <2>6. CASE paid + Times(Cardinality(Passed)) <= Room
    <3>1. paid' + Times(Cardinality(Passed')) <= Room'
      BY <1>3, <2>1, <2>2, <2>3, <2>5, <2>6, PayTyped DEF PayInv
    <3> QED
      BY <1>3, <2>2, <2>4, <3>1 DEF PayInv, Fits
  <2>7. ASSUME NEW q \in Passed,
               paid + req[q].amount + Times(Cardinality(Passed) - 1) <= Room
        PROVE  Fits'
    <3>1. Cardinality(Passed) - 1 \in Nat
      <4>1. Cardinality(Passed) # 0
        BY PassedFinite, FS_EmptySet
      <4> QED
        BY <2>5, <4>1
    <3>2. Times(Cardinality(Passed) - 1) \in Nat /\ req[q].amount \in Nat
      BY <1>3, <3>1, PayTyped, TimesIs DEF PayInv, Passed
    <3>3. paid' + req'[q].amount + Times(Cardinality(Passed') - 1) <= Room'
      BY <1>3, <2>1, <2>2, <2>3, <2>4, <2>7, <3>2, PayTyped DEF PayInv
    <3> QED
      BY <1>3, <2>2, <2>4, <3>3 DEF PayInv, Fits
  <2> QED
    BY <1>3, <2>6, <2>7 DEF PayInv, Fits
<1>4. ASSUME PayInv, CrowdInv', NEW p \in Procs, Go(p)
      PROVE  Fits'
  <2>1. TInv /\ Shape(req[p]) /\ crowd' = crowd
        /\ \A q \in Procs \ {p} : req'[q] = req[q]
    BY <1>4, GoSeen, Kept DEF PayInv, CrowdInv, TInv
  <2>2. CASE PayInsert(p)
    <3>1. p \in Passed /\ paid' = paid + req[p].amount
      BY <2>2 DEF PayInsert, Passed
    <3>2. req'[p].pc = "after"
      BY <2>1, <2>2, WentOn DEF PayInsert, Goto
    <3> QED
      BY <1>4, <2>1, <3>1, <3>2, LeaveFits
  <2>3. CASE PayBalance(p)
    BY <1>4, <2>3, PassFits
  <2>4. CASE ~PayInsert(p) /\ ~PayBalance(p)
    <3>1. UNCHANGED paid
      BY <1>4, <2>4 DEF Go, InvoiceGL, InvoiceWrite, PayAfter, PayMark, PayGL, MemoWrite,
                        MemoAfter, MemoMark, GLFails, Cut
    <3>2. req'[p].pc # "insert"
      <4>1. \/ req' = [req EXCEPT ![p] = Idle]
            \/ \E pc \in {"gl", "write", "after", "mark"} : req' = [req EXCEPT ![p].pc = pc]
        BY <1>4, <2>4 DEF Go, InvoiceGL, InvoiceWrite, PayAfter, PayMark, PayGL, MemoWrite,
                          MemoAfter, MemoMark, GLFails, Cut, Goto, End, Finish
      <4> QED
        BY <2>1, <4>1, WentOn, Ended
    <3>3. CASE p \in Passed
      <4>1. paid \in Nat /\ paid' = paid + 0
        BY <1>4, <3>1, PayTyped DEF PayInv
      <4> QED
        BY <1>4, <2>1, <3>2, <3>3, <4>1, LeaveFits
    <3>4. CASE p \notin Passed
      <4>1. Passed' = Passed /\ \A q \in Passed : req'[q] = req[q]
        BY <2>1, <3>2, <3>4 DEF Passed
      <4> QED
        BY <1>4, <2>1, <3>1, <4>1 DEF PayInv, Fits, Room
    <3> QED
      BY <3>3, <3>4
  <2> QED
    BY <2>2, <2>3, <2>4
<1> QED
  BY <1>1, <1>2, <1>3, <1>4, Steps DEF PayInv

\* The payments of an invoice add up to no more than its total once for each
\* payment that was in flight at the same time, though each is inserted some
\* statements after its check of the remaining balance, and memos are applied and
\* voided and the status changed in between: one at a time, they never overpay it.
THEOREM NeverOverpaid == Spec => []NoOverpayment
<1>1. ASSUME Init
      PROVE  PayInv
  <2>1. Passed = {}
    BY <1>1 DEF Init, Idle, Passed
  <2>2. Cardinality(Passed) = 0 /\ paid = 0 /\ crowd["pay"] = 0
    BY <1>1, <2>1, FS_EmptySet DEF Init
  <2>3. Fits
    BY <2>1, <2>2, TimesIs DEF Fits, Room
  <2> QED
    BY <1>1, <2>3, CrowdInit DEF PayInv
<1>2. ASSUME PayInv
      PROVE  NoOverpayment
  <2>1. paid \in Nat /\ Room \in Nat /\ \A p \in Procs : req[p].amount \in Nat
    BY <1>2, PayTyped DEF PayInv
  <2>2. CASE paid + Times(Cardinality(Passed)) <= Room
    <3>1. Times(Cardinality(Passed)) \in Nat
      BY PassedFinite, TimesIs
    <3>2. paid <= Room
      BY <2>1, <2>2, <3>1
    <3> QED
      BY <3>2 DEF NoOverpayment, Room, Times
  <2>3. ASSUME NEW p \in Passed,
               paid + req[p].amount + Times(Cardinality(Passed) - 1) <= Room
        PROVE  NoOverpayment
    <3>1. Cardinality(Passed) - 1 \in Nat
      <4>1. Cardinality(Passed) # 0
        BY PassedFinite, FS_EmptySet
      <4> QED
        BY <4>1, PassedFinite
    <3>2. Times(Cardinality(Passed) - 1) \in Nat /\ req[p].amount \in Nat
      BY <2>1, <3>1, TimesIs DEF Passed
    <3>3. paid <= Room
      BY <2>1, <2>3, <3>2
    <3> QED
      BY <3>3 DEF NoOverpayment, Room, Times
  <2> QED
    BY <1>2, <2>2, <2>3 DEF PayInv, Fits
<1> QED
  BY <1>1, <1>2, PayStep, PTL DEF Spec

-----------------------------------------------------------------------------
(* The invoice's workflow.                                                 *)

\* What a request has checked is so until it writes, unless it was overtaken:
\* payments mark paid what another payment or an update marked paid before.
Checked(r) ==
    /\ r.op = "invoice" => \/ <<status, r.to>> \in Transitions
                           \/ status = "paid" /\ r.to = "paid"
    /\ r.op = "pay" => status \in {"issued", "paid"}

MoveInv ==
    /\ TInv
    /\ \A p \in Procs : req[p].op = "pay" => status # "open"
    /\ \A p \in Procs \ overtaken : Checked(req[p])

\* Its own update leaves an invoice no request it does not overtake, and so does
\* a memo that finds it open; who is left checked an invoice issued or paid.
LEMMA MoveGo ==
    ASSUME MoveInv, NEW p \in Procs, Go(p)
    PROVE  /\ \A q \in Procs : req'[q].op = "pay" => status' # "open"
           /\ \A q \in Procs \ overtaken' : Checked(req[q])'
<1>1. /\ TInv /\ \A q \in Procs \ {p} : req'[q] = req[q]
      /\ \/ req'[p].op = "none"
         \/ req'[p].op = req[p].op /\ req'[p].to = req[p].to
  BY Kept DEF MoveInv
<1>2. \A q \in Procs : req'[q].op = "pay" => status' # "open"
  <2>1. status # "open" => status' # "open"
    BY <1>1, NeverReopened
  <2> QED
    BY <1>1, <2>1 DEF MoveInv
<1>3. ASSUME UNCHANGED status, overtaken' \in {overtaken, overtaken \ {p}},
             overtaken' = overtaken \/ req'[p].op = "none"
      PROVE  \A q \in Procs \ overtaken' : Checked(req[q])'
  BY <1>1, <1>3 DEF MoveInv, Checked
<1>4. ASSUME overtaken' = Others(p), req'[p].op = "none"
      PROVE  \A q \in Procs \ overtaken' : Checked(req[q])'
  <2> SUFFICES ASSUME NEW q \in Procs \ overtaken'
               PROVE  req'[q].op = "none"
    BY DEF Checked
  <2>1. CASE q # p
    <3>1. req[q].pc = "idle" /\ Shape(req[q]) /\ req'[q] = req[q]
      BY <1>1, <1>4, <2>1 DEF Others, TInv
    <3> QED
      BY <3>1 DEF Shape
  <2> QED
    BY <1>4, <2>1
<1>5. ASSUME overtaken' \in {overtaken, overtaken \ {p}}, status # "open", status' = "paid",
             req[p].op \in {"pay", "memo"}, req'[p].op \in {"none", "pay"},
             req'[p].op = "pay" => overtaken' = overtaken
      PROVE  \A q \in Procs \ overtaken' : Checked(req[q])'
  <2> SUFFICES ASSUME NEW q \in Procs \ overtaken'
               PROVE  Checked(req[q])'
    OBVIOUS
  <2>1. CASE q = p
    BY <1>5, <2>1 DEF Checked
  <2>2. CASE q # p
    <3>1. q \in Procs \ overtaken /\ req'[q] = req[q]
      BY <1>1, <1>5, <2>2
    <3>2. Checked(req[q])
      BY <3>1 DEF MoveInv
    <3> QED
      BY <1>5, <3>1, <3>2 DEF Checked, Transitions
  <2> QED
    BY <2>1, <2>2
<1>6. CASE InvoiceWrite(p)
  <2>1. req'[p].op = "none" /\ overtaken' = Others(p)
    BY <1>1, <1>6, Ended DEF InvoiceWrite, Finish
  <2> QED
    BY <1>2, <1>4, <2>1
<1>7. CASE MemoMark(p)
  <2>1. req'[p].op = "none" /\ req[p].op = "memo" /\ status' = "paid"
        /\ overtaken' = IF status = "open" THEN Others(p) ELSE overtaken \ {p}
    BY <1>1, <1>7, Ended DEF MemoMark, Finish
  <2> QED
    BY <1>2, <1>4, <1>5, <2>1
<1>8. CASE PayMark(p)
  <2>1. req' = [req EXCEPT ![p].pc = "gl"] /\ req[p].op = "pay" /\ status' = "paid"
        /\ overtaken' = overtaken /\ status # "open"
    BY <1>8 DEF PayMark, Goto, MoveInv
  <2>2. req'[p].op = "pay"
    BY <1>1, <2>1, WentOn
  <2> QED
    BY <1>2, <1>5, <2>1, <2>2
<1>9. CASE ~InvoiceWrite(p) /\ ~MemoMark(p) /\ ~PayMark(p)
  <2>1. /\ UNCHANGED status
        /\ \/ overtaken' = overtaken
           \/ req' = [req EXCEPT ![p] = Idle] /\ overtaken' = overtaken \ {p}
    BY <1>9 DEF Go, InvoiceGL, PayBalance, PayInsert, PayAfter, PayGL, MemoWrite, MemoAfter,
                GLFails, Cut, Goto, End, Finish
  <2>2. overtaken' = overtaken \/ (req'[p].op = "none" /\ overtaken' = overtaken \ {p})
    BY <1>1, <2>1, Ended
  <2> QED
    BY <1>2, <1>3, <2>1, <2>2
<1> QED
  BY <1>6, <1>7, <1>8, <1>9

LEMMA MoveInvariant == Spec => []MoveInv
<1>1. ASSUME Init
      PROVE  MoveInv
  <2>1. \A p \in Procs : Checked(req[p]) /\ req[p].op # "pay"
    BY <1>1 DEF Init, Idle, Checked
  <2> QED
    BY <1>1, <2>1, InitTyped DEF MoveInv
<1>2. ASSUME MoveInv, [Next]_vars
      PROVE  MoveInv'
  <2>1. TInv'
    BY <1>2, StepTyped DEF MoveInv
  <2>2. CASE UNCHANGED vars
    BY <1>2, <2>1, <2>2 DEF vars, MoveInv, Checked
  <2>3. ASSUME NEW p \in Procs, Start(p)
        PROVE  /\ \A q \in Procs : req'[q].op = "pay" => status' # "open"
               /\ \A q \in Procs \ overtaken' : Checked(req[q])'
    <3>1. /\ UNCHANGED <<status, overtaken>>
          /\ \A q \in Procs \ {p} : req'[q] = req[q]
          /\ req'[p].op = "invoice" => <<status, req'[p].to>> \in Transitions
          /\ req'[p].op = "pay" => status \in {"issued", "paid"}
      BY <1>2, <2>3, StartReq DEF MoveInv
    <3> QED
      BY <1>2, <3>1 DEF MoveInv, Checked
  <2> QED
    BY <1>2, <2>1, <2>2, <2>3, MoveGo, Steps DEF MoveInv
<1> QED
  BY <1>1, <1>2, PTL DEF Spec

\* A write moves the status as VALID_TRANSITIONS allows, though the check that
\* allowed it is some statements old and payments and memos overlap, unless
\* another's update of the status came in between, or a memo makes it.
THEOREM StatusMoves == Spec => WorkflowKept
<1> DEFINE Excused ==
       \E p \in Procs : req'[p] # req[p] /\ (p \in overtaken \/ req[p].op = "memo")
<1>1. ASSUME MoveInv, [Next]_vars
      PROVE  [Moves(status, status') \/ Excused]_status
  <2>1. CASE UNCHANGED vars
    BY <2>1 DEF vars
  <2>2. ASSUME NEW p \in Procs, Start(p)
        PROVE  status' = status
    BY <1>1, <2>2, StartReq DEF MoveInv
  <2>3. ASSUME NEW p \in Procs, Go(p)
        PROVE  status' = status \/ Moves(status, status') \/ Excused
    <3>1. TInv /\ TInv'
      BY <1>1, StepTyped DEF MoveInv
    <3>2. CASE InvoiceWrite(p) /\ req[p].op = "invoice" /\ status' = req[p].to
      <4>1. req'[p].op = "none"
        BY <3>1, <3>2, Ended DEF InvoiceWrite, Finish
      <4>2. req'[p] # req[p]
        BY <3>2, <4>1
      <4>3. p \notin overtaken => Checked(req[p])
        BY <1>1 DEF MoveInv
      <4> QED
        BY <3>2, <4>2, <4>3 DEF Checked, Moves
    <3>3. CASE PayMark(p) /\ req[p].op = "pay" /\ status' = "paid"
      <4>1. req'[p].pc = "gl" /\ req[p].pc = "mark"
        BY <3>1, <3>3, WentOn DEF PayMark, Goto
      <4>2. req'[p] # req[p]
        BY <4>1
      <4>3. p \notin overtaken => Checked(req[p])
        BY <1>1 DEF MoveInv
      <4> QED
        BY <3>3, <4>2, <4>3 DEF Checked, Moves, Transitions
    <3>4. CASE MemoMark(p) /\ req[p].op = "memo" /\ status' = "paid"
      <4>1. req'[p].op = "none"
        BY <3>1, <3>4, Ended DEF MemoMark, Finish
      <4>2. req'[p] # req[p]
        BY <3>4, <4>1
      <4> QED
        BY <3>4, <4>2
    <3> QED
      BY <2>3, <3>1, <3>2, <3>3, <3>4, StatusWrites
  <2> QED
    BY <1>1, <2>1, <2>2, <2>3, Steps
<1> QED
  BY <1>1, MoveInvariant, PTL DEF Spec, WorkflowKept

=============================================================================
