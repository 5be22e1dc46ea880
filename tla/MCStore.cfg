\* Three numbers, three snapshots, two changes made on other machines.
SPECIFICATION Spec
CONSTANTS
    Esp = Esp
    Stick = Stick
    Junk = Junk
    Folder = Folder
    Volumes <- MCVolumes
    Launch = Esp
    MaxSequence = 3
    MaxRead = 2
    MaxSnapshots = 3
    MaxForeign = 2
\* Once the snapshots are used up there may be nothing left to do.
CHECK_DEADLOCK FALSE
INVARIANTS SavedIsOffered OneNameOneSnapshot NumbersInOrder NameIsFree
