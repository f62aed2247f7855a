SPECIFICATION FairSpec
CONSTANTS
    cash = cash
    expense = expense
    p1 = p1
    p2 = p2
    Accounts = {cash, expense}
    Dates = {d2}
    Today = d2
    Entries = {e1, e2}
    Procs = {p1, p2}
    NoProc = NoProc
    NoEntry = NoEntry
    Amounts <- NoCents
    LineSets <- Nothing
    MaxLines = 4
    Births = {"pending"}
    Generic = {"lines"}
    MaxReopened = 1
    OnePerEntry = FALSE
INVARIANT NeverStuck
PROPERTY RequestsEnd
CHECK_DEADLOCK FALSE
