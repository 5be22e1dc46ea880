\* Eight presses: one to reach the sequence, the sequence, and the two that open
\* and leave the display screen.
SPECIFICATION FairSpec
CONSTANTS
    Small = Small
    Large = Large
    Modes <- MCModes
    Seen <- MCSeen
    Buttons <- MCButtons
    Turns = 2
    MaxQueue = 1
    MaxPresses = 8
\* Once the presses are used up the screens wait.
CHECK_DEADLOCK FALSE
INVARIANTS WriteIsAuthorised PictureReadable
PROPERTY QuestionEnds
