SPECIFICATION Spec
CONSTANTS
    c1 = c1
    c2 = c2
    c3 = c3
    d1 = d1
    Cli = {c1}
    Daemon = {}
    Name <- MCName
    File <- MCFile
    NoName = "nul"
    NoFile = "nul"
    Job <- MCJob
    InitialTables <- FewTables
    OneAtATime = TRUE
    MaxStarts = 1
    MaxKills = 0
    MaxSignals = 1
CHECK_DEADLOCK FALSE
INVARIANT LoadableAtRest
