SPECIFICATION Spec
CONSTANTS
    c1 = c1
    c2 = c2
    c3 = c3
    d1 = d1
    Cli = {c1}
    Daemon = {}
    Name <- MCName
    File <- MCFile
    NoName = "nul"
    NoFile = "nul"
    Job <- MCJob
    InitialTables <- FewTables
    OneAtATime = TRUE
    MaxStarts = 3
    MaxKills = 0
    MaxSignals = 0
CHECK_DEADLOCK FALSE
PROPERTY ImplementsJobTable
