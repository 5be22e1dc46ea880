\* Tables with and without a gap; up to three power cuts or failing steps.
SPECIFICATION RecurrenceSpec
CONSTANTS
    LastBlock = 11
    MaxArray = 2
    MaxFaults = 3
    a1 = a1
    a2 = a2
    b2 = b2
    g = g
    o2 = o2
    l3 = l3
    s1 = s1
    NoRead = NoRead
    Data <- MCData
    Parts <- MCParts
    Unreadable = NoRead
    Disks <- MCDisks
\* A hybrid disk, once broken, is where the tool and the writer stop.
CHECK_DEADLOCK FALSE
INVARIANTS TableSurvives MainLoweredFirst
PROPERTIES PairSurvives RecurrenceEnds
