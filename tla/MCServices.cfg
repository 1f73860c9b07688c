SPECIFICATION FairSpec
CONSTANTS
    Cli = {"c1", "c2"}
    Name = {"a", "b", "c"}
    Repo = {"r1", "r2"}
    p1 = p1
    p2 = p2
    Pid = {p1, p2}
    NoPid = NoPid
    Nothing = Nothing
    InitialTables <- MCTables
    MayOverlap = {"update", "neglect", "restart"}
    MaxCommands = 3
    MaxFaults = 1
CHECK_DEADLOCK FALSE
INVARIANT TypeOK
INVARIANT NoProcessIsLost
INVARIANT KillsOnlyItsOwn
INVARIANT NamesStayUnique
INVARIANT UpdateLockHasOwner
PROPERTY UpdateLockIsGivenBack
