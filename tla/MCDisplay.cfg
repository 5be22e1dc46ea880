\* Six screens; six modes, of which two fail once set and one cannot be drawn in.
SPECIFICATION DisplaySpec
CONSTANTS
    Screens <- MCScreens
    Grids <- MCGrids
    Modes <- MCModes
    Places = {"last"}
    Contents <- MCContents
    Blank = Blank
    Ink = Ink
    Unknown = Unknown
INVARIANTS SelectedShown NothingSkipped ShownIsTrue WritesOnlyInForce
PROPERTY ImplementsViewport
