------------------------------ MODULE Viewport -------------------------------
(***************************************************************************)
(* Which part of a list or a page is on the screen, and which row of a     *)
(* menu is selected (run_menu, resolution_menu, page and message in        *)
(* ui/mod.rs), while the operator moves, turns pages, opens a closer look  *)
(* and changes the size of the screen from the display screen.             *)
(*                                                                         *)
(* A line is a row of the screen: cutting one to the width is left out.    *)
(* The rows of a menu's detail are those of its tallest one.               *)
(***************************************************************************)
EXTENDS Naturals

CONSTANTS
    Screens,    \* what may be shown: menus, pages and messages
    Grids       \* the heights the screen may have, in rows

Lesser(a, b) == IF a <= b THEN a ELSE b
Greater(a, b) == IF a <= b THEN b ELSE a
Minus(a, b) == IF a <= b THEN 0 ELSE a - b     \* saturating_sub

Menu == {s \in Screens : s.kind = "menu"}
Page == {s \in Screens : s.kind = "page"}

\* A screen names the rows of its header, and has that many lines. A menu has an
\* introduction, rows that cannot be selected, rows it may start on and a button
\* that opens the display screen, a closer look, or nothing.
ASSUME ScreensAssumption ==
    \A s \in Screens :
        /\ s.kind \in {"menu", "page", "message"}
        /\ s.header \in {2, 3}
        /\ s.lines \in Nat \ {0}
        /\ s.kind = "menu" =>
            /\ s.intro \in Nat
            /\ s.detail \in Nat
            /\ s.selectable \in (SUBSET (1..s.lines)) \ {{}}
            /\ s.starts \in (SUBSET (1..s.lines)) \ {{}}
            /\ s.view \in {"display", "look", "nothing"}

\* Every height leaves a row of a list, or four of a page.
ASSUME RoomAssumption ==
    \A r \in Grids :
        /\ r \in Nat
        /\ \A s \in Menu : s.header + s.intro + s.detail + 7 <= r
        /\ \A s \in Page : s.header + 8 <= r

VARIABLES
    screen,     \* what is shown
    rows,       \* the height it was last drawn for
    top,        \* how many lines are above the window
    selected,   \* the row a menu highlights
    seen        \* lines of a page, from the first, none of which was left out

vars == <<screen, rows, top, selected, seen>>

-----------------------------------------------------------------------------
(* The window                                                              *)

Clamped(left, s) == Greater(1, Lesser(left, s.lines))

Overhead(s) == s.header + s.intro + 1 + s.detail + 4

MenuView(s, r) ==
    LET view == Clamped(Minus(r, Overhead(s)), s)
    IN IF s.lines > view THEN Clamped(Minus(r, Overhead(s) + 1), s) ELSE view

\* Mutant: the footer's rows are not counted.
UncountedFooter(s, r) == Greater(Minus(r, s.header), 4)

PageView(s, r) == Greater(Minus(r, s.header + 4), 4)

\* Mutant: a selection one below the window does not move it.
LooseMenuTop(s, r, sel, t) ==
    LET view == MenuView(s, r)
    IN IF sel <= t THEN sel - 1 ELSE IF sel > t + view + 1 THEN sel - view ELSE t

MenuTop(s, r, sel, t) ==
    LET view == MenuView(s, r)
    IN IF sel <= t THEN sel - 1 ELSE IF sel > t + view THEN sel - view ELSE t

MaxTop(s, r) == Minus(s.lines, PageView(s, r))

TopFor(s, r, sel, t) ==
    CASE s.kind = "menu" -> MenuTop(s, r, sel, t)
      [] s.kind = "page" -> Lesser(t, MaxTop(s, r))
      [] s.kind = "message" -> 0

-----------------------------------------------------------------------------
(* Where it is drawn, counting rows from 0                                 *)

Scrolls(s, r) == s.lines > (IF s.kind = "menu" THEN MenuView(s, r) ELSE PageView(s, r))

FooterRow(r) == r - 3

\* The first row below everything the screen draws above the footer.
Bottom(s, r, t) ==
    CASE s.kind = "menu" ->
            s.header + s.intro + 1 + Lesser(MenuView(s, r), s.lines - t)
                + (IF Scrolls(s, r) THEN 1 ELSE 0) + 1 + s.detail
      [] s.kind = "page" -> s.header + Lesser(PageView(s, r), s.lines - t)
      [] s.kind = "message" -> s.header + s.lines

\* The lines of a page above the indicator, or the footer's rule, can be read.
LastRead(s, r, t) ==
    LET below == IF Scrolls(s, r) THEN r - 4 ELSE FooterRow(r)
    IN Lesser(s.lines, t + Lesser(PageView(s, r), below - s.header))

\* One pass of a screen's loop up to its wait. "before" is what had been seen.
Draw(s, r, sel, t, before) ==
    LET at == TopFor(s, r, sel, t)
    IN /\ screen' = s
       /\ rows' = r
       /\ selected' = sel
       /\ top' = at
       /\ seen' = IF s.kind # "page" THEN 0
                  ELSE IF at <= before THEN Greater(before, LastRead(s, r, at)) ELSE before

-----------------------------------------------------------------------------
(* The selected row                                                        *)

\* How many presses down from one row to another, round the end of the list.
Below(s, from, to) == IF to > from THEN to - from ELSE to + s.lines - from

StepDown(s, from) ==
    {to \in s.selectable : \A other \in s.selectable : Below(s, from, to) <= Below(s, from, other)}

StepUp(s, from) ==
    {to \in s.selectable : \A other \in s.selectable : Below(s, to, from) <= Below(s, other, from)}

\* Where run_menu starts from a row, which may be a separator.
Start(s, from) == IF from \in s.selectable THEN {from} ELSE StepDown(s, from)

-----------------------------------------------------------------------------
(* Actions                                                                 *)

\* A screen opened at this height. Only a menu has a selected row.
Opens(s, r) ==
    \/ /\ s.kind = "menu"
       /\ \E from \in s.starts : \E sel \in Start(s, from) : Draw(s, r, sel, 0, 0)
    \/ /\ s.kind # "menu"
       /\ Draw(s, r, 1, 0, 0)

Init ==
    /\ screen \in Screens
    /\ rows \in Grids
    /\ screen.kind # "menu" => selected = 1
    /\ screen.kind = "menu" => \E from \in screen.starts : selected \in Start(screen, from)
    /\ top = TopFor(screen, rows, selected, 0)
    /\ seen = IF screen.kind = "page" THEN LastRead(screen, rows, 0) ELSE 0
    /\ selected \in 1..screen.lines

\* The screen is answered and another follows it.
Open == \E s \in Screens : Opens(s, rows)

MenuUp == screen.kind = "menu" /\ \E to \in StepUp(screen, selected) : Draw(screen, rows, to, top, 0)

MenuDown ==
    screen.kind = "menu" /\ \E to \in StepDown(screen, selected) : Draw(screen, rows, to, top, 0)

SCROLL_LINES == 3

Scroll(to) == screen.kind = "page" /\ Draw(screen, rows, selected, to, seen)

PageUp == Scroll(Minus(top, SCROLL_LINES))
PageDown == Scroll(Lesser(top + SCROLL_LINES, MaxTop(screen, rows)))
PageLeft == Scroll(Minus(top, PageView(screen, rows)))
PageRight == Scroll(Lesser(top + PageView(screen, rows), MaxTop(screen, rows)))

\* View, where it opens the display screen: the height may be another after it.
Resize(r) ==
    /\ screen.kind = "menu" => screen.view = "display"
    /\ Draw(screen, r, selected, top, seen)

\* View, where it opens a closer look: the menu starts again on the same row, and
\* the page in between has a View of its own.
CloserLook(r) ==
    /\ screen.kind = "menu" /\ screen.view = "look"
    /\ \E sel \in Start(screen, selected) : Draw(screen, r, sel, 0, 0)

Next ==
    \/ Open
    \/ \E r \in Grids : Resize(r) \/ CloserLook(r)
    \/ MenuUp \/ MenuDown
    \/ PageUp \/ PageDown \/ PageLeft \/ PageRight

Spec == Init /\ [][Next]_vars

-----------------------------------------------------------------------------
(* Properties                                                              *)

\* Every variable keeps its type, and what is highlighted in a menu can be chosen:
\* moving, wrapping and starting again all step over the separators.
TypeOK ==
    /\ screen \in Screens
    /\ rows \in Grids
    /\ top \in Nat
    /\ selected \in Nat
    /\ seen \in Nat
    /\ screen.kind = "menu" => selected \in screen.selectable

\* The highlighted row is in the window, whatever was pressed and however the
\* screen changed its size: nothing is chosen that is not shown.
SelectedShown ==
    screen.kind = "menu" => top < selected /\ selected <= top + MenuView(screen, rows)

\* Nothing of a menu or a page lands on the footer's rule or the key hints.
ClearOfFooter == screen.kind # "message" => Bottom(screen, rows, top) <= FooterRow(rows)

\* No line of a page can be scrolled past without having been readable: what is
\* above the window was seen, and so was everything once the end is reached.
NothingSkipped ==
    screen.kind = "page" =>
        /\ top <= seen
        /\ top = MaxTop(screen, rows) => seen = screen.lines

=============================================================================
