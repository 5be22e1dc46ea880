\* Two disks, two tables beyond the first, two copies, one loader.
SPECIFICATION Spec
CONSTANTS
    Inner = Inner
    Other = Other
    Native = Native
    Small = Small
    NoDisk = NoDisk
    Undrawable = Undrawable
    Text = Text
    Disks <- MCDisks
    Modes <- MCModes
    LoaderModes <- MCLoaderModes
    MaxTables = 2
    MaxCopies = 2
    MaxLoads = 1
\* The session may be left.
CHECK_DEADLOCK FALSE
SYMMETRY MCSymmetry
INVARIANTS PlanIsCurrent LossIsExplained WatchdogSparesMenus DrawsInTheModeLeft
PROPERTY OverwrittenIsCaptured
