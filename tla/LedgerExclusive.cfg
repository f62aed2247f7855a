SPECIFICATION Spec
CONSTANTS
    cash = cash
    expense = expense
    p1 = p1
    p2 = p2
    Accounts = {cash, expense}
    Dates = {d1, d2}
    Today = d2
    Entries = {e1, e2, e3}
    Procs = {p1, p2}
    NoProc = NoProc
    NoEntry = NoEntry
    Amounts <- Cents
    LineSets <- OneRough
    MaxLines = 4
    Births = {"pending"}
    Generic = {"queue_status"}
    MaxReopened = 1
    OnePerEntry = TRUE
SYMMETRY Symm
INVARIANT TypeOK
INVARIANT Finalised
 
PROPERTY StatusForward
PROPERTY AbstractSpec
CHECK_DEADLOCK FALSE
