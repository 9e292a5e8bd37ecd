SPECIFICATION Spec
CONSTANTS
    Machines = {m1, m2}
    Accounts = {a1}
    NoAccount = NoAccount
    Wal = FALSE
    Skew <- SameTime
    MaxBackups = 1
    MaxEdits = 2
    MaxTime = 2
    MaxFaults = 1
    Watched = {}
PROPERTY
    RestoresAreAtomic
SYMMETRY Symmetry
CHECK_DEADLOCK FALSE
