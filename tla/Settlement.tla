----------------------------- MODULE Settlement -----------------------------
(***************************************************************************)
(* One invoice and what settles it: payments and credit memos of an AP     *)
(* invoice, receipts of an AR invoice.  The controllers are                *)
(* ap/apInvoicesController, ap/paymentsController,                         *)
(* ap/apCreditMemosController, ar/arInvoicesController and                 *)
(* ar/receiptsController; AR is the instance without memos.                *)
(*                                                                         *)
(* None of them opens a transaction: a handler awaits one statement after  *)
(* another, each committed at once, and acts on what an earlier one read.  *)
(* Every action below is one statement of a handler.                       *)
(***************************************************************************)
EXTENDS Integers, FiniteSets

CONSTANTS
    Procs,          \* concurrent requests
    Memos, NoMemo,  \* credit memos linked to the invoice
    MemoAmount,     \* the amount of each
    CreditOf,       \* the amounts of a set of memos added up: SUM in SQL
    Total,          \* the invoice's total_amount
    Amounts,        \* amounts a payment request may carry
    Asked,          \* invoice statuses users ask for
    MaxCuts,        \* bound: requests cut off halfway
    MaxLost         \* bound: journal entries that fail

Statuses == {"open", "issued", "paid", "voided"}    \* issued: approved (AP), sent (AR)
Ops == {"invoice", "pay", "memo"}

Transitions ==
    {<<"open", "issued">>, <<"open", "voided">>, <<"issued", "paid">>,
     <<"issued", "voided">>, <<"paid", "voided">>}

MemoTransitions == {<<"open", "applied">>, <<"open", "voided">>, <<"applied", "voided">>}

ASSUME SettlementConstants ==
    /\ NoMemo \notin Memos /\ MemoAmount \in [Memos -> Nat \ {0}]
    /\ CreditOf \in [SUBSET Memos -> Nat] /\ CreditOf[{}] = 0
    /\ \A S \in SUBSET Memos : \A m \in Memos \ S :
          CreditOf[S \cup {m}] = CreditOf[S] + MemoAmount[m]
    /\ Total \in Nat \ {0} /\ Amounts \subseteq Nat \ {0}
    /\ Asked \subseteq Statuses \ {"open"} /\ IsFiniteSet(Procs)
    /\ MaxCuts \in Nat /\ MaxLost \in Nat

VARIABLES
    status,     \* ap_invoices.status
    memo,       \* ap_credit_memos.status
    paid,       \* the sum of the payments
    liability,  \* what the journal entries of this invoice add up to on the AP account
    req,        \* the request each process is executing
    posted,     \* history: journal entries made for the invoice itself
    cut,        \* history: requests cut off by a failed statement or a crash
    lost,       \* history: journal entries that failed and were only logged
    crowd,      \* history: the most status updates, and payments, in flight at once
    astray,     \* history: a memo found nothing remaining of an invoice not issued or paid
    overtaken   \* history: requests in flight when another's update changed the status

seen == <<crowd, astray>>
vars == <<status, memo, paid, liability, req, posted, cut, lost, seen, overtaken>>

Idle == [pc |-> "idle", op |-> "none", to |-> "none", amount |-> 0, memo |-> NoMemo]

ReqRecord ==
    [pc : {"idle", "balance", "insert", "gl", "write", "after", "mark"},
     op : Ops \cup {"none"}, to : Statuses \cup {"none", "applied"},
     amount : Amounts \cup {0}, memo : Memos \cup {NoMemo}]

TypeOK ==
    /\ status \in Statuses
    /\ memo \in [Memos -> {"open", "applied", "voided"}]
    /\ paid \in Nat /\ liability \in Int
    /\ req \in [Procs -> ReqRecord]
    /\ posted \in Nat /\ cut \in 0..MaxCuts /\ lost \in 0..MaxLost
    /\ crowd \in [{"invoice", "pay"} -> Nat] /\ astray \in BOOLEAN
    /\ overtaken \subseteq Procs

Init ==
    /\ status = "open" /\ memo = [m \in Memos |-> "open"]
    /\ paid = 0 /\ liability = 0
    /\ req = [p \in Procs |-> Idle]
    /\ posted = 0 /\ cut = 0 /\ lost = 0
    /\ crowd = [op \in {"invoice", "pay"} |-> 0] /\ astray = FALSE /\ overtaken = {}

-----------------------------------------------------------------------------

\* computeRemainingBalance
Applied == {m \in Memos : memo[m] = "applied"}
Credit == CreditOf[Applied]
Remaining == Total - paid - Credit

InFlight(op) == {q \in Procs : req[q].op = op}
Others(p) == {q \in Procs \ {p} : req[q].pc # "idle"}

Begin(p, r) ==
    /\ req[p].pc = "idle"
    /\ req' = [req EXCEPT ![p] = r]
    /\ UNCHANGED overtaken

\* The history of an operation whose requests, this one included, are n at once.
Crowds(op) ==
    LET n == Cardinality(InFlight(op)) + 1
    IN  crowd' = [crowd EXCEPT ![op] = IF n > @ THEN n ELSE @]

Goto(p, pc) == req' = [req EXCEPT ![p].pc = pc] /\ UNCHANGED overtaken
Finish(p) == req' = [req EXCEPT ![p] = Idle]
End(p) == Finish(p) /\ overtaken' = overtaken \ {p}

-----------------------------------------------------------------------------
(* update() of the invoice controllers, with a status.                     *)

InvoiceAsked(p, to) ==
    /\ Begin(p, [Idle EXCEPT !.op = "invoice", !.to = to,
                              !.pc = IF to = "issued" THEN "gl" ELSE "write"])
    /\ Crowds("invoice")
    /\ UNCHANGED <<status, memo, paid, liability, posted, cut, lost, astray>>

InvoiceRead(p, to) == <<status, to>> \in Transitions /\ InvoiceAsked(p, to)

\* postAPInvoice, postARInvoice: a transaction of their own.
InvoiceGL(p) ==
    /\ req[p].pc = "gl" /\ req[p].op = "invoice"
    /\ liability' = liability + Total
    /\ posted' = posted + 1
    /\ Goto(p, "write")
    /\ UNCHANGED <<status, memo, paid, cut, lost, seen>>

AnyWrite(p) ==
    /\ req[p].pc = "write"
    /\ status' = req[p].to
    /\ End(p)
    /\ UNCHANGED <<memo, paid, liability, posted, cut, lost, seen>>

\* updateWhere by id: the status read before may have changed.
InvoiceWrite(p) ==
    /\ req[p].pc = "write" /\ req[p].op = "invoice"
    /\ status' = req[p].to
    /\ Finish(p)
    /\ overtaken' = Others(p)
    /\ UNCHANGED <<memo, paid, liability, posted, cut, lost, seen>>

-----------------------------------------------------------------------------
(* create() of the payments and receipts controllers.                      *)

PayUnchecked(p, a) ==
    /\ Begin(p, [Idle EXCEPT !.op = "pay", !.pc = "balance", !.amount = a])
    /\ Crowds("pay")
    /\ UNCHANGED <<status, memo, paid, liability, posted, cut, lost, astray>>

PayRead(p, a) == status \in {"issued", "paid"} /\ PayUnchecked(p, a)

PayAgainstTotal(p) ==
    /\ req[p].pc = "balance"
    /\ IF req[p].amount <= Total - Credit THEN Goto(p, "insert") ELSE End(p)
    /\ UNCHANGED <<status, memo, paid, liability, posted, cut, lost, seen>>

PayBalance(p) ==
    /\ req[p].pc = "balance"
    /\ IF req[p].amount <= Remaining THEN Goto(p, "insert") ELSE End(p)
    /\ UNCHANGED <<status, memo, paid, liability, posted, cut, lost, seen>>

PayInsert(p) ==
    /\ req[p].pc = "insert"
    /\ paid' = paid + req[p].amount
    /\ Goto(p, "after")
    /\ UNCHANGED <<status, memo, liability, posted, cut, lost, seen>>

PayAfterExact(p) ==
    /\ req[p].pc = "after" /\ req[p].op = "pay"
    /\ Goto(p, IF req[p].amount = Total THEN "mark" ELSE "gl")
    /\ UNCHANGED <<status, memo, paid, liability, posted, cut, lost, seen>>

\* The balance once more, now with this payment.
PayAfter(p) ==
    /\ req[p].pc = "after" /\ req[p].op = "pay"
    /\ Goto(p, IF Remaining <= 0 THEN "mark" ELSE "gl")
    /\ UNCHANGED <<status, memo, paid, liability, posted, cut, lost, seen>>

\* UPDATE ... SET status = 'paid' WHERE id.
PayMark(p) ==
    /\ req[p].pc = "mark" /\ req[p].op = "pay"
    /\ status' = "paid"
    /\ Goto(p, "gl")
    /\ UNCHANGED <<memo, paid, liability, posted, cut, lost, seen>>

PayGLOnSettling(p) ==
    /\ req[p].pc = "gl" /\ req[p].op = "pay"
    /\ liability' = IF status = "paid" THEN liability - Total ELSE liability
    /\ End(p)
    /\ UNCHANGED <<status, memo, paid, posted, cut, lost, seen>>

\* postAPPayment, postARReceipt.
PayGL(p) ==
    /\ req[p].pc = "gl" /\ req[p].op = "pay"
    /\ liability' = liability - req[p].amount
    /\ End(p)
    /\ UNCHANGED <<status, memo, paid, posted, cut, lost, seen>>

-----------------------------------------------------------------------------
(* update() of apCreditMemosController, with a status.                     *)

MemoRead(p, m, to) ==
    /\ <<memo[m], to>> \in MemoTransitions
    /\ Begin(p, [Idle EXCEPT !.op = "memo", !.pc = "write", !.to = to, !.memo = m])
    /\ UNCHANGED <<status, memo, paid, liability, posted, cut, lost, seen>>

MemoWrite(p) ==
    /\ req[p].pc = "write" /\ req[p].op = "memo"
    /\ memo' = [memo EXCEPT ![req[p].memo] = req[p].to]
    /\ IF req[p].to = "applied" THEN Goto(p, "after") ELSE End(p)
    /\ UNCHANGED <<status, paid, liability, posted, cut, lost, seen>>

MemoAfter(p) ==
    /\ req[p].pc = "after" /\ req[p].op = "memo"
    /\ IF Remaining <= 0 THEN Goto(p, "mark") ELSE End(p)
    /\ astray' = (astray \/ (Remaining <= 0 /\ status \notin {"issued", "paid"}))
    /\ UNCHANGED <<status, memo, paid, liability, posted, cut, lost, crowd>>

\* Whatever the invoice's status is.
MemoMark(p) ==
    /\ req[p].pc = "mark" /\ req[p].op = "memo"
    /\ status' = "paid"
    /\ Finish(p)
    /\ overtaken' = IF status = "open" THEN Others(p) ELSE overtaken \ {p}
    /\ UNCHANGED <<memo, paid, liability, posted, cut, lost, seen>>

-----------------------------------------------------------------------------

\* A journal entry fails: the error is logged and the handler goes on.
GLFails(p) ==
    /\ req[p].pc = "gl" /\ lost < MaxLost
    /\ lost' = lost + 1
    /\ IF req[p].op = "invoice" THEN Goto(p, "write") ELSE End(p)
    /\ UNCHANGED <<status, memo, paid, liability, posted, cut, seen>>

\* Any other statement fails, or the server stops: what was written stays.
Cut(p) ==
    /\ req[p].pc # "idle" /\ cut < MaxCuts
    /\ cut' = cut + 1
    /\ End(p)
    /\ UNCHANGED <<status, memo, paid, liability, posted, lost, seen>>

Invoice(p) == InvoiceGL(p) \/ InvoiceWrite(p) \/ \E to \in Asked : InvoiceRead(p, to)

Pay(p) ==
    \/ \E a \in Amounts : PayRead(p, a)
    \/ PayBalance(p) \/ PayInsert(p) \/ PayAfter(p) \/ PayMark(p) \/ PayGL(p)

Memo(p) ==
    \/ \E m \in Memos, to \in {"applied", "voided"} : MemoRead(p, m, to)
    \/ MemoWrite(p) \/ MemoAfter(p) \/ MemoMark(p)

Next == \E p \in Procs : Invoice(p) \/ Pay(p) \/ Memo(p) \/ GLFails(p) \/ Cut(p)

Spec == Init /\ [][Next]_vars

-----------------------------------------------------------------------------
(* Properties.                                                             *)

\* Payments exceed the invoice only by overlapping: each was checked against
\* what remained (paymentsController, receiptsController), so they add up to
\* the total at most once for each payment that was in flight at the same time.
NoOverpayment == paid <= Total * crowd["pay"]

\* An open or issued invoice that is settled has a request under way that will
\* find it so: of payments and memos that settle it together, the last one
\* written marks it paid.  Excepted are a request cut off, status updates that
\* overlapped, and a memo that settled the invoice before it was issued.
SettledIsPaid ==
    status \in {"open", "issued"} /\ Remaining <= 0
        /\ cut = 0 /\ crowd["invoice"] <= 1 /\ ~astray
        => \E p \in Procs : req[p].pc \in {"after", "mark"}

\* The status moves along VALID_TRANSITIONS, also where payments move it.  What
\* leaves them is a write of a request overtaken by another's status update,
\* since none checks again, or a memo, which checks nothing of the invoice.
Moves(s, t) == <<s, t>> \in Transitions
WorkflowKept ==
    [][\/ Moves(status, status')
       \/ \E p \in Procs : req'[p] # req[p] /\ (p \in overtaken \/ req[p].op = "memo")]_status

\* The invoice enters the ledger once; each status update that overlaps another
\* and each request cut off between its journal entry and its status may repeat it.
PostedOnce == posted <= crowd["invoice"] + cut

\* With nothing in flight, cut off or lost, the ledger owes what the invoice
\* and its payments say, the invoice counted once unless status updates
\* overlapped; excepted is an invoice memos settled before it was issued.
LiabilityAgrees ==
    status \in {"issued", "paid"} /\ cut = 0 /\ lost = 0 /\ ~astray
        /\ (\A p \in Procs : req[p] = Idle)
        => \E n \in 1..crowd["invoice"] : liability = n * Total - paid

=============================================================================
