------------------------------ MODULE Display --------------------------------
(***************************************************************************)
(* The screens of Viewport drawn on the grid of Console: View opens the    *)
(* display screen or a closer look over a menu or a page, the turns, sizes *)
(* and modes chosen there change the grid, and whatever it then comes to   *)
(* is what the menu or page is drawn for again (display, run_menu and page *)
(* in ui/mod.rs; size in ui/term.rs).                                      *)
(***************************************************************************)
EXTENDS Viewport, Sequences

CONSTANTS Modes, Places, Contents, Blank, Unknown

VARIABLES
    mode, extent, rotation, font, grid, cells, shown, glass,    \* Console's
    over        \* another screen is over the one Viewport shows

C == INSTANCE Console

\* The geometry of a mode, however it is turned.
ASSUME ModesAssumption ==
    \A m \in Modes : m.width \in Nat /\ m.height \in Nat

\* A height for every size that may be laid out in a mode: one that leaves the menus
\* their room, or the smallest.
ASSUME GridsAssumption ==
    \A m \in C!Usable, turn \in C!Rotations, f \in DOMAIN C!Fonts :
        LET logical == C!Logical(turn, C!SizeOf(m))
        IN C!Fits(f, logical) \/ f = Len(C!Fonts) => C!Cells(f, logical).rows \in Grids

ASSUME ContentsAssumption == Blank \in Contents /\ Unknown \notin Contents

console == <<mode, extent, rotation, font, grid, cells, shown, glass>>
displayVars == <<vars, console, over>>

-----------------------------------------------------------------------------

DisplayInit ==
    /\ C!Init
    /\ rows = grid.rows
    /\ Init
    /\ over = FALSE

\* A press that the screen in front answers itself.
Answer ==
    /\ ~over
    /\ \/ Open
       \/ MenuUp \/ MenuDown
       \/ PageUp \/ PageDown \/ PageLeft \/ PageRight
    /\ UNCHANGED <<console, over>>

\* View: the screen stays below, as it is.
View ==
    /\ ~over
    /\ screen.kind = "menu" => screen.view # "nothing"
    /\ over' = TRUE
    /\ UNCHANGED <<vars, console>>

\* What can be chosen there, any number of times.
Choose ==
    /\ over
    /\ \/ C!ResizeText(font - 1) \/ C!ResizeText(font + 1)
       \/ \E turn \in C!Turns(rotation) : C!SetRotation(turn)
       \/ C!SetMode
    /\ UNCHANGED <<vars, over>>

\* The screen below asks for the size again before it draws. What it would draw in
\* an empty extent nobody sees, and is left out.
Done ==
    /\ over
    /\ extent # C!Empty
    /\ Resize(grid.rows) \/ CloserLook(grid.rows)
    /\ over' = FALSE
    /\ UNCHANGED console

\* Drawing, by whichever screen: cell by cell, and only what differs reaches the panel.
Paint ==
    /\ C!Clear \/ C!Flush \/ \E p \in Places, c \in Contents : C!Write(p, c)
    /\ UNCHANGED <<vars, over>>

DisplayNext == Answer \/ View \/ Choose \/ Done \/ Paint

DisplaySpec == DisplayInit /\ [][DisplayNext]_displayVars

-----------------------------------------------------------------------------
(* Properties                                                              *)

\* Every grid the console may lay out is one Viewport's screens have room on, and
\* to a screen all that happens over it is a change of height: what is proved of
\* Viewport holds on the console (the menus' arithmetic against relayout's).
ImplementsViewport == Spec

\* A cell a flush leaves out is on the panel already: nothing that clears the panel
\* leaves a belief behind (forget, relayout).
ShownIsTrue == C!ShownIsTrue

\* Pixels are only written by the description of the mode in force, whichever mode
\* changes failed before and however far they got (put's and fill's SAFETY).
WritesOnlyInForce == C!WritesOnlyInForce

=============================================================================
