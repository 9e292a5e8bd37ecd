SPECIFICATION CarefulSpec
CONSTANTS
    Machines = {m1, m2}
    Accounts = {a1}
    NoAccount = NoAccount
    Wal = FALSE
    Skew <- SameTime
    MaxBackups = 2
    MaxEdits = 3
    MaxTime = 5
    MaxFaults = 0
    Watched = {}
INVARIANT ContinuesWhereLeftOff
CHECK_DEADLOCK FALSE
