\* A limit of two levels instead of eight; one directory not read to its end.
SPECIFICATION Spec
CONSTANTS
    r = r
    a = a
    b = b
    c = c
    Dirs <- MCDirs
    Root = r
    Loaders = {"boot.efi"}
    MaxDepth = 2
    Machines <- MCMachines
    MaxFaults = 1
\* A machine without a loader has nothing to start.
CHECK_DEADLOCK FALSE
INVARIANTS NoneMissed ListedIsThere
