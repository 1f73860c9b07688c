SPECIFICATION FairSpec
CONSTANTS
    p1 = p1
    p2 = p2
    p3 = p3
    Cli = {"c1"}
    Pid = {p1, p2, p3}
    NoPid = NoPid
    First <- MCFirst
    Rest <- MCRest
    Started = {}
    CarefulUser = TRUE
    MaxCommands = 5
    MaxWarmups = 3
    MaxCrashes = 0
    MaxStrangers = 2
    MaxSignals = 0
CHECK_DEADLOCK FALSE
INVARIANT TypeOK
INVARIANT OnlyDaemonsAreKilled
PROPERTY LaunchedIsNamed
