SPECIFICATION Spec
CONSTANTS
    Procs = {p1, p2}
    NoProc = NoProc
    NoCode = NoCode
    LastPeriod = 2
    MaxRows = 3
    MaxSerial = 2
    TypedCodes <- TypedOrCleared
    Dated = TRUE
    Scanned = TRUE
    BatchSizes = {1, 2}
SYMMETRY Symm
INVARIANT TypeOK
INVARIANT Gapless
INVARIANT CollidesOnlyWithTyped
INVARIANT SerialsFresh
CHECK_DEADLOCK FALSE
