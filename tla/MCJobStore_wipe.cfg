SPECIFICATION Spec
CONSTANTS
    c1 = c1
    c2 = c2
    c3 = c3
    d1 = d1
    Cli = {c1}
    Daemon = {d1}
    Name <- MCName
    File <- MCFile
    NoName = "nul"
    NoFile = "nul"
    Job <- MCPlainJob
    InitialTables <- FewTables
    OneAtATime = TRUE
    MaxStarts = 2
    MaxKills = 0
    MaxSignals = 0
CHECK_DEADLOCK FALSE
PROPERTY DaemonKeepsJobs
