SPECIFICATION Spec
CONSTANTS
    MaxSlot = 1
    LoaderA = LoaderA
    LoaderB = LoaderB
    Short = Short
    Long = Long
    Corrupt = Corrupt
    Garbled = Garbled
    Absent = Absent
    Loaders <- MCLoaders
    Timeouts <- MCTimeouts
    Machines <- MCMachines
    Misses <- MCMisses
    MaxSessions = 1
    MaxFiles = 2
INVARIANT FirstChangeSaved
PROPERTIES
    NoNewGap
    RegisterOnlyAdds
    OrderKeepsSlots
CHECK_DEADLOCK FALSE
