SPECIFICATION Spec
CONSTANTS
    cash = cash
    expense = expense
    p1 = p1
    p2 = p2
    Accounts = {cash, expense}
    Dates = {d1, d2}
    Today = d2
    Entries = {e1, e2, e3}
    Procs = {p1, p2}
    NoProc = NoProc
    NoEntry = NoEntry
    Amounts <- Cents
    LineSets <- RoughAndUneven
    MaxLines = 4
    Births = {"pending", "posted"}
    Generic = {"entry_status"}
    MaxReopened = 1
    OnePerEntry = FALSE
SYMMETRY Symm
INVARIANT LedgerIsSumOfPostings
INVARIANT QueueAgrees
INVARIANT BooksBalance
CHECK_DEADLOCK FALSE
