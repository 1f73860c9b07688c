SPECIFICATION ShiftSpec
CONSTANTS
    Name = {"a", "b", "c"}
    Repo = {"r1", "r2"}
    p1 = p1
    p2 = p2
    Pid = {p1, p2}
    Mrn = Mrn
    NoPid = NoPid
    Nothing = Nothing
    Unlimited = Unlimited
    Cpu <- MCCpu
    Quota <- MCQuota
    FileCpu <- MCFileCpu
    TinyCpu = {1}
    Mem = {1, 2}
    BigMem = {2}
    Value = {"x"}
    j1 = j1
    j2 = j2
    NoJobs = NoJobs
    Jobs = {NoJobs, j1, j2}
    InitialProjects <- MCProjects
    MaxInvocations = 3
    MaxCommands = 3
    MaxFaults = 1
SYMMETRY JobsSymmetry
CHECK_DEADLOCK FALSE
INVARIANT ShiftTypeOK
INVARIANT LimitsStayLoadable
INVARIANT LimitsHaveServices
INVARIANT LimitsAreEnforced
INVARIANT LimitedProcessIsInside
INVARIANT FoldersFollow
INVARIANT ShiftIsApplied
PROPERTY ChangesReachDisk
