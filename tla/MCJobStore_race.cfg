SPECIFICATION FairSpec
CONSTANTS
    c1 = c1
    c2 = c2
    c3 = c3
    d1 = d1
    Cli = {c1, c2, c3}
    Daemon = {}
    Name <- MCName
    File <- MCFile
    NoName = "nul"
    NoFile = "nul"
    Job <- MCFewJobs
    InitialTables <- TwoJobs
    OneAtATime = FALSE
    MaxStarts = 3
    MaxKills = 0
    MaxSignals = 0
CHECK_DEADLOCK FALSE
INVARIANT TablesDistinct
INVARIANT UndisturbedSaveIsExact
INVARIANT UndisturbedSaveIsLocked
PROPERTY CliFinishes
PROPERTY LockIsGivenBack
