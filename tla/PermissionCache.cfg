SPECIFICATION FairSpec
CONSTANTS
    Users = {u1}
    Roles = {r1}
    Rights = {g1}
    NoUser = NoUser
    Procs = {p1, p2}
    TTL = 2
    TokenLife = 3
    MaxFlight = 1
    MaxEdits = 3
    MaxFaults = 1
INVARIANT TypeOK
INVARIANT RevokedRightsLapse
INVARIANT SignInsAreFresh
PROPERTY CacheSettles
CHECK_DEADLOCK FALSE
