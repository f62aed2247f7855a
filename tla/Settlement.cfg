SPECIFICATION Spec
CONSTANTS
    m1 = m1
    m2 = m2
    Procs = {p1, p2}
    Memos = {m1, m2}
    NoMemo = NoMemo
    MemoAmount <- Credits
    CreditOf <- CreditSums
    Total = 3
    Amounts = {1, 2, 3}
    Asked = {"issued", "paid", "voided"}
    MaxCuts = 1
    MaxLost = 1
SYMMETRY Symm
INVARIANT TypeOK
INVARIANT NoOverpayment
INVARIANT SettledIsPaid
INVARIANT PostedOnce
INVARIANT LiabilityAgrees
PROPERTY WorkflowKept
CHECK_DEADLOCK FALSE
