------------------------------ MODULE Console --------------------------------
(***************************************************************************)
(* The character console the program draws itself (gfx/console.rs) on the  *)
(* framebuffer of the mode in force (gfx/mod.rs): the extent it writes     *)
(* within, the grid laid out in it, the cells, and what it believes the    *)
(* panel shows of them.                                                    *)
(*                                                                         *)
(* A grid's cells are stood for by a few places every grid has, and a      *)
(* cell's character and colours by a model value. Glyphs, colours and the  *)
(* cursor are left out.                                                    *)
(***************************************************************************)
EXTENDS Naturals, Sequences

CONSTANTS
    Modes,      \* the modes the firmware offers
    Places,     \* where in the grid a cell is
    Contents,   \* what a cell may hold
    Blank,      \* an empty cell
    Unknown     \* not one of the cells' contents

\* A mode has a size, says whether it is "drawable", and is "sound" when its buffer,
\* once it is set, is as large as it says. Soundness does not change.
Usable == {m \in Modes : m.drawable /\ m.sound}

VARIABLES
    mode,       \* the firmware's: the mode in force
    extent,     \* the size of the framebuffer that may be written to
    rotation,   \* how far the picture is turned clockwise
    font,       \* the cell size, an index
    grid,       \* how many columns and rows
    cells,      \* what the next flush should put on the panel
    shown,      \* what the panel is believed to show, or Unknown
    glass       \* what the panel does show, or Unknown

vars == <<mode, extent, rotation, font, grid, cells, shown, glass>>
display == <<cells, shown, glass>>

-----------------------------------------------------------------------------
(* Geometry                                                                *)

Size(w, h) == [width |-> w, height |-> h]
Empty == Size(0, 0)
SizeOf(m) == Size(m.width, m.height)

Rotations == {0, 90, 180, 270}
Turns(turn) == {(turn + 90) % 360, (turn + 270) % 360}     \* next and previous
Logical(turn, size) == IF turn \in {90, 270} THEN Size(size.height, size.width) ELSE size

\* Largest first.
Fonts == <<[w |-> 16, h |-> 32], [w |-> 12, h |-> 24], [w |-> 8, h |-> 16]>>

MIN_COLS == 80
MIN_ROWS == 25
TARGET_COLS == 104

Cells(f, size) == [cols |-> size.width \div Fonts[f].w, rows |-> size.height \div Fonts[f].h]

Fits(f, size) == Cells(f, size).cols >= MIN_COLS /\ Cells(f, size).rows >= MIN_ROWS

Distance(f, size) ==
    LET cols == Cells(f, size).cols
    IN IF cols > TARGET_COLS THEN cols - TARGET_COLS ELSE TARGET_COLS - cols

\* The size that fits with a line nearest the target, the larger of two as near.
Automatic(size) ==
    LET fitting == {f \in DOMAIN Fonts : Fits(f, size)}
        Nearer(f, other) ==
            \/ Distance(f, size) < Distance(other, size)
            \/ Distance(f, size) = Distance(other, size) /\ f <= other
    IN IF fitting = {} THEN Len(Fonts)
       ELSE CHOOSE f \in fitting : \A other \in fitting : Nearer(f, other)

\* Taller than wide is a panel mounted sideways.
Guess(size) == IF size.height > size.width THEN 90 ELSE 0

-----------------------------------------------------------------------------
(* The framebuffer                                                         *)

\* Mutant: the old description stays when the mode in force has none.
AdoptedKeeping(m) == IF m \in Usable THEN SizeOf(m) ELSE extent

\* What adopt makes of the mode in force: an empty extent is never written to.
Adopted(m) == IF m \in Usable THEN SizeOf(m) ELSE Empty

Everywhere(content) == [p \in Places |-> content]

\* fill leaves no cell on the panel, and does nothing in an empty extent: but there
\* SetMode cleared the panel before.
Wiped == Everywhere(Unknown)

\* Mutant: the cell size is kept, whatever it now comes to.
RelayoutKeeping(turn, size, f) ==
    /\ font' = f
    /\ grid' = Cells(f, Logical(turn, size))
    /\ cells' = Everywhere(Blank)
    /\ shown' = Everywhere(Unknown)
    /\ glass' = Wiped

\* The grid for a rotation and an extent, in this cell size if that still fits.
Relayout(turn, size, f) ==
    LET logical == Logical(turn, size)
    IN /\ font' = IF Fits(f, logical) THEN f ELSE Automatic(logical)
       /\ grid' = Cells(font', logical)
       /\ cells' = Everywhere(Blank)
       /\ shown' = Everywhere(Unknown)
       /\ glass' = Wiped

-----------------------------------------------------------------------------
(* Actions                                                                 *)

Init ==
    /\ mode \in Usable
    /\ extent = SizeOf(mode)
    /\ rotation = Guess(extent)
    /\ font = Automatic(Logical(rotation, extent))
    /\ grid = Cells(font, Logical(rotation, extent))
    /\ cells = Everywhere(Blank)
    /\ shown = Everywhere(Unknown)
    /\ glass = Wiped

Clear ==
    /\ cells' = Everywhere(Blank)
    /\ UNCHANGED <<mode, extent, rotation, font, grid, shown, glass>>

Write(place, content) ==
    /\ grid.cols * grid.rows > 0
    /\ cells' = [cells EXCEPT ![place] = content]
    /\ UNCHANGED <<mode, extent, rotation, font, grid, shown, glass>>

\* Only what differs from what is believed to be shown is drawn.
Flush ==
    /\ grid.cols * grid.rows > 0
    /\ shown' = cells
    /\ glass' = [p \in Places |->
                    IF shown[p] = cells[p] \/ extent = Empty THEN glass[p] ELSE cells[p]]
    /\ UNCHANGED <<mode, extent, rotation, font, grid, cells>>

\* resize_text to the next size, if there is one and it fits; else nothing happens.
ResizeText(next) ==
    /\ next \in DOMAIN Fonts
    /\ Fits(next, Logical(rotation, extent))
    /\ Relayout(rotation, extent, next)
    /\ UNCHANGED <<mode, extent, rotation>>

SetRotation(turn) ==
    /\ rotation' = turn
    /\ Relayout(turn, extent, font)
    /\ UNCHANGED <<mode, extent>>

\* The mode a request comes to. Without one, for the resolution in force, or when
\* the firmware refuses, nothing changes.
Wanted(size) == {m \in Modes : m.drawable /\ SizeOf(m) = size /\ SizeOf(mode) # size}

\* ModeChange::Set, in the cell size chosen afresh.
Take(m) ==
    /\ m.sound
    /\ mode' = m
    /\ extent' = Adopted(m)
    /\ Relayout(rotation, Adopted(m), Automatic(Logical(rotation, Adopted(m))))
    /\ UNCHANGED rotation

\* Mutant: what was on the panel is believed to be there still.
GoBackUnaware(m) ==
    /\ ~m.sound
    /\ mode' \in {mode, m}
    /\ extent' = Adopted(mode')
    /\ glass' = Wiped
    /\ UNCHANGED <<rotation, font, grid, cells, shown>>

\* ModeChange::Restored: the mode could not be adopted, and the one before it is set
\* again, unless the firmware does not. Each SetMode clears the panel.
GoBack(m) ==
    /\ ~m.sound
    /\ mode' \in {mode, m}
    /\ extent' = Adopted(mode')
    /\ shown' = Everywhere(Unknown)
    /\ glass' = Wiped
    /\ UNCHANGED <<rotation, font, grid, cells>>

SetMode == \E m \in Modes : m \in Wanted(SizeOf(m)) /\ (Take(m) \/ GoBack(m))

-----------------------------------------------------------------------------
(* Properties                                                              *)

\* Every variable keeps its type.
TypeOK ==
    /\ mode \in Modes
    /\ extent \in {Empty} \cup {SizeOf(m) : m \in Usable}
    /\ rotation \in Rotations
    /\ font \in DOMAIN Fonts
    /\ grid \in [cols : Nat, rows : Nat]
    /\ cells \in [Places -> Contents]
    /\ shown \in [Places -> Contents \cup {Unknown}]
    /\ glass \in [Places -> Contents \cup {Unknown}]

\* Pixels are only written by the description of the mode in force, whichever mode
\* changes failed before and however far they got (put's and fill's SAFETY).
WritesOnlyInForce == extent # Empty => mode \in Usable /\ extent = SizeOf(mode)

\* A cell a flush leaves out is on the panel already: nothing that clears the panel
\* leaves a belief behind (forget, relayout).
ShownIsTrue == extent # Empty => \A p \in Places : shown[p] # Unknown => glass[p] = shown[p]

=============================================================================
