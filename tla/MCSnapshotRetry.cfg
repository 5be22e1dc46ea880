\* A restore planned over blocks that are still in flight.
SPECIFICATION SnapshotSpec
CONSTANTS
    LastBlock = 11
    MaxArray = 2
    MaxFaults = 2
    Conventional = 2
    MaxSaved = 2
    a1 = a1
    a2 = a2
    b2 = b2
    g = g
    o2 = o2
    l3 = l3
    s1 = s1
    NoRead = NoRead
    Data <- MCData
    Parts <- MCParts
    Unreadable = NoRead
    Disks <- MCDisks
    Files <- MCFiles
\* A full volume and a refused snapshot are where the operator stops.
CHECK_DEADLOCK FALSE
INVARIANT UsableTableThroughout
