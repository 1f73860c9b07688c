SPECIFICATION MCSpec
CONSTANTS
    Kilo = 5
    Period = 100
    NameLength = 1
    PathLength = 1
    p1 = p1
    p2 = p2
    Config = {p1, p2}
    CpuOperand <- MCCpu
    MemOperand <- MCMem
    NoOperand = NoOperand
    MaxConfigs = 3
    MaxFaults = 2
    Directories <- MCDirectories
    Input <- MCInput
    MaxScript = 6
CHECK_DEADLOCK FALSE
INVARIANT AcceptedIsReadBack
INVARIANT OperandsAreExact
INVARIANT SegmentsRunInOrder
INVARIANT ScriptRunsEveryLine
INVARIANT LimitsAreAsked
INVARIANT SettledLimitsAreLast
INVARIANT DaemonIsLimitedAsAsked
