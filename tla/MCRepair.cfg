\* Every disk of MCDisks; up to two power cuts or failing steps.
SPECIFICATION FairSpec
CONSTANTS
    LastBlock = 11
    MaxArray = 2
    MaxFaults = 2
    a1 = a1
    a2 = a2
    b2 = b2
    g = g
    o2 = o2
    l3 = l3
    s1 = s1
    NoRead = NoRead
    Data <- MCData
    Parts <- MCParts
    Unreadable = NoRead
    Disks <- MCDisks
\* A disk with nothing to repair is where the tool stops.
CHECK_DEADLOCK FALSE
INVARIANTS RecoverableTableKept HeaderAfterArray PartitionsUntouched
PROPERTIES MainNeverLost ImplementsTwoCopies RepairConverges
