\* As MCScreens.cfg: a held button and the display screen complete the sequence.
SPECIFICATION FairSpec
CONSTANTS
    Small = Small
    Large = Large
    Modes <- MCModes
    Seen <- MCSeen
    Buttons <- MCButtons
    Turns = 2
    MaxQueue = 1
    MaxPresses = 8
\* Once the presses are used up the screens wait.
CHECK_DEADLOCK FALSE
INVARIANT LastPressIsDiscrete
