SPECIFICATION Spec
CONSTANTS
    p1 = p1
    p2 = p2
    p3 = p3
    Cli = {"c1", "c2"}
    Pid = {p1, p2, p3}
    NoPid = NoPid
    First <- MCFirst
    Rest <- MCRest
    Started = {p1}
    CarefulUser = TRUE
    MaxCommands = 3
    MaxWarmups = 1
    MaxCrashes = 1
    MaxStrangers = 0
    MaxSignals = 1
CHECK_DEADLOCK FALSE
INVARIANT DaemonsAreCounted
INVARIANT StatusTellsTruth
