SPECIFICATION Spec
CONSTANTS
    Machines = {m1}
    Accounts = {a1, a2}
    NoAccount = NoAccount
    Wal = TRUE
    Skew <- SameTime
    MaxBackups = 2
    MaxEdits = 2
    MaxTime = 3
    MaxFaults = 3
    Watched = {m1}
INVARIANTS
    TypeOK
    DatabaseIsAVersion
    NothingLostLocally
    SkippedUploadIsSafe
CHECK_DEADLOCK FALSE
