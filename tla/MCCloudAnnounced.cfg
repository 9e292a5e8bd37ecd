SPECIFICATION AnnouncedSpec
CONSTANTS
    Machines = {m1, m2}
    Accounts = {a1}
    NoAccount = NoAccount
    Wal = FALSE
    Skew <- SameTime
    MaxBackups = 2
    MaxEdits = 1
    MaxTime = 3
    MaxFaults = 0
    Watched = {m1, m2}
INVARIANT AnnouncedRestoreHolds
CHECK_DEADLOCK FALSE
