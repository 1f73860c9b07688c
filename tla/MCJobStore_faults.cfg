SPECIFICATION Spec
CONSTANTS
    c1 = c1
    c2 = c2
    c3 = c3
    d1 = d1
    Cli = {c1}
    Daemon = {d1}
    Name <- MCName
    File <- MCFile
    NoName = "nul"
    NoFile = "nul"
    Job <- MCJob
    InitialTables <- FewTables
    OneAtATime = TRUE
    MaxStarts = 2
    MaxKills = 1
    MaxSignals = 2
CHECK_DEADLOCK FALSE
INVARIANT TypeOK
INVARIANT LockHasHolder
INVARIANT CrashKeepsACopy
INVARIANT InterruptedAddIsWhole
