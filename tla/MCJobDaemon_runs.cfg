SPECIFICATION FairSpec
CONSTANTS
    j1 = j1
    j2 = j2
    Job = {j1, j2}
    Interval <- MCInterval
    Cycle = 2
    Pid = {p1, p2, p3, p4, p5}
    NoJob = NoJob
    NoPid = NoPid
    FirstTable <- MCOne
    FdLimit = 20
    MaxLaunches = 2
    MaxKills = 1
    MaxEdits = 1
    MaxMishaps = 1
CHECK_DEADLOCK FALSE
INVARIANT TypeOK
INVARIANT RecordedPidIsDead
INVARIANT JobsRunOneAtATime
PROPERTY EveryJobGetsItsTurn
