--------------------------- MODULE DisplayProofs -----------------------------
(***************************************************************************)
(* Proofs about Viewport, for any menus and pages and any heights of the   *)
(* screen with room for them: what is drawn stays clear of the footer, the *)
(* selected row is in the window, and no line of a page can be passed by.  *)
(* And that Display implements Viewport: the console only ever comes to    *)
(* heights Viewport is about; and what Display keeps of the console's own. *)
(*                                                                         *)
(* Every action of Viewport ends with Draw, so the inductive invariant is  *)
(* what a single Draw establishes; the arithmetic of the window comes      *)
(* first.                                                                  *)
(***************************************************************************)
EXTENDS Display, TLAPS

\* The window of a menu has a row at least and ends where its layout has room.
LEMMA MenuWindow ==
    ASSUME NEW s \in Screens, NEW r \in Grids, s.kind = "menu", NEW t \in Nat, t <= s.lines
    PROVE  /\ MenuView(s, r) \in Nat
           /\ 1 <= MenuView(s, r)
           /\ Bottom(s, r, t) <= FooterRow(r)
<1>1. s \in Menu
  BY DEF Menu
<1>2. /\ s.lines \in Nat \ {0} /\ s.header \in Nat /\ s.intro \in Nat /\ s.detail \in Nat
      /\ r \in Nat
      /\ s.header + s.intro + s.detail + 7 <= r
  BY <1>1, ScreensAssumption, RoomAssumption
<1> DEFINE overhead == s.header + s.intro + 1 + s.detail + 4
           first == Clamped(Minus(r, overhead), s)
           second == Clamped(Minus(r, overhead + 1), s)
<1>3. /\ first \in Nat /\ 1 <= first /\ first <= s.lines
      /\ first <= r - overhead
  BY <1>2 DEF Clamped, Minus, Lesser, Greater
<1>4. /\ second \in Nat /\ 1 <= second
      /\ second <= r - overhead - 1
  BY <1>2 DEF Clamped, Minus, Lesser, Greater
<1>5. MenuView(s, r) = IF s.lines > first THEN second ELSE first
  BY DEF MenuView, Overhead
<1>6. Scrolls(s, r) <=> s.lines > MenuView(s, r)
  BY DEF Scrolls
<1>7. Bottom(s, r, t) = s.header + s.intro + 1 + Lesser(MenuView(s, r), s.lines - t)
                          + (IF Scrolls(s, r) THEN 1 ELSE 0) + 1 + s.detail
  BY DEF Bottom
<1>8. CASE s.lines > first
  <2>1. MenuView(s, r) = second
    BY <1>5, <1>8
  <2>2. Lesser(second, s.lines - t) \in Nat /\ Lesser(second, s.lines - t) <= second
    BY <1>2, <1>4 DEF Lesser
  <2> HIDE DEF second, first
  <2> QED
    BY <2>1, <2>2, <1>2, <1>4, <1>7 DEF FooterRow
<1>9. CASE ~(s.lines > first)
  <2>1. MenuView(s, r) = first
    BY <1>5, <1>9
  <2>2. ~Scrolls(s, r)
    BY <2>1, <1>6, <1>9
  <2>3. Lesser(first, s.lines - t) \in Nat /\ Lesser(first, s.lines - t) <= first
    BY <1>2, <1>3 DEF Lesser
  <2> HIDE DEF first
  <2> QED
    BY <2>1, <2>2, <2>3, <1>2, <1>3, <1>7 DEF FooterRow
<1> QED
  BY <1>8, <1>9

\* Wherever the window was, it is moved to where the selected row is.
LEMMA MenuTopShows ==
    ASSUME NEW s \in Screens, NEW r \in Grids, s.kind = "menu",
           NEW sel \in 1..s.lines, NEW t \in Nat
    PROVE  /\ MenuTop(s, r, sel, t) \in Nat
           /\ MenuTop(s, r, sel, t) < sel
           /\ sel <= MenuTop(s, r, sel, t) + MenuView(s, r)
<1>1. s.lines \in Nat
  BY ScreensAssumption
<1>2. MenuView(s, r) \in Nat /\ 1 <= MenuView(s, r)
  BY <1>1, MenuWindow, 0 \in Nat, 0 <= s.lines
<1> QED
  BY <1>1, <1>2 DEF MenuTop

\* The window of a page ends above its indicator, and its last position shows
\* the end of the page.
LEMMA PageWindow ==
    ASSUME NEW s \in Screens, NEW r \in Grids, s.kind = "page", NEW t \in Nat,
           t <= MaxTop(s, r)
    PROVE  /\ PageView(s, r) \in Nat
           /\ 4 <= PageView(s, r)
           /\ LastRead(s, r, t) \in Nat
           /\ LastRead(s, r, t) <= s.lines
           /\ LastRead(s, r, t) < s.lines => LastRead(s, r, t) = t + PageView(s, r)
           /\ t <= LastRead(s, r, t)
           /\ t = MaxTop(s, r) => LastRead(s, r, t) = s.lines
           /\ Bottom(s, r, t) <= FooterRow(r)
<1>1. s \in Page
  BY DEF Page
<1>2. /\ s.lines \in Nat \ {0} /\ s.header \in Nat /\ r \in Nat
      /\ s.header + 8 <= r
  BY <1>1, ScreensAssumption, RoomAssumption
<1>3. PageView(s, r) = r - s.header - 4
  BY <1>2 DEF PageView, Minus, Greater
<1>4. Scrolls(s, r) <=> s.lines > PageView(s, r)
  BY DEF Scrolls
<1>5. t <= IF Scrolls(s, r) THEN s.lines - PageView(s, r) ELSE 0
  BY <1>2, <1>3, <1>4 DEF MaxTop, Minus
<1>6. CASE Scrolls(s, r)
  <2>1. LastRead(s, r, t) = t + PageView(s, r)
    BY <1>2, <1>3, <1>5, <1>6 DEF LastRead, Lesser
  <2>2. MaxTop(s, r) = s.lines - PageView(s, r)
    BY <1>2, <1>3, <1>4, <1>6 DEF MaxTop, Minus
  <2>3. Bottom(s, r, t) = s.header + PageView(s, r)
    BY <1>2, <1>3, <1>5, <1>6 DEF Bottom, Lesser
  <2>4. PageView(s, r) \in Nat /\ 4 <= PageView(s, r)
    BY <1>2, <1>3
  <2>5. Bottom(s, r, t) <= FooterRow(r)
    BY <2>3, <1>2, <1>3 DEF FooterRow
  <2>6. t + PageView(s, r) <= s.lines
    BY <2>4, <1>2, <1>4, <1>5, <1>6
  <2>7. t = MaxTop(s, r) => t + PageView(s, r) = s.lines
    BY <2>2, <2>4, <1>2, <1>4, <1>6
  <2>8. /\ LastRead(s, r, t) \in Nat /\ LastRead(s, r, t) <= s.lines
        /\ t <= LastRead(s, r, t)
    BY <2>1, <2>4, <2>6, <1>2
  <2>9. t = MaxTop(s, r) => LastRead(s, r, t) = s.lines
    BY <2>1, <2>7
  <2> QED
    BY <2>1, <2>4, <2>5, <2>8, <2>9
<1>7. CASE ~Scrolls(s, r)
  <2>1. t = 0
    BY <1>5, <1>7
  <2>2. LastRead(s, r, t) = s.lines
    BY <2>1, <1>2, <1>3, <1>4, <1>7 DEF LastRead, Lesser, FooterRow
  <2>3. Bottom(s, r, t) <= s.header + PageView(s, r)
    BY <2>1, <1>2, <1>3, <1>7 DEF Bottom, Lesser
  <2>4. PageView(s, r) \in Nat /\ 4 <= PageView(s, r)
    BY <1>2, <1>3
  <2>5. Bottom(s, r, t) <= FooterRow(r)
    <3>1. Bottom(s, r, t) = s.header + Lesser(PageView(s, r), s.lines - t)
      BY DEF Bottom
    <3>2. Lesser(PageView(s, r), s.lines - t) \in Nat
      BY <2>1, <2>4, <1>2 DEF Lesser
    <3> QED
      BY <3>1, <3>2, <2>3, <2>4, <1>2, <1>3 DEF FooterRow
  <2>6. 0 <= s.lines /\ ~(s.lines < s.lines)
    BY <1>2
  <2> QED
    BY <2>1, <2>2, <2>4, <2>5, <2>6, <1>2
<1> QED
  BY <1>6, <1>7

-----------------------------------------------------------------------------

\* What a Draw leaves: the last line readable in a page's window is one of those
\* seen from the first line on without a gap.
Drawn ==
    /\ TypeOK
    /\ SelectedShown
    /\ screen.kind = "page" =>
        /\ top <= MaxTop(screen, rows)
        /\ LastRead(screen, rows, top) <= seen
        /\ seen <= screen.lines

\* What is drawn next follows on what was seen before, and a menu's selection is
\* one of its rows.
Follows(s, r, sel, t, before) ==
    /\ s.kind = "menu" => sel \in s.selectable
    /\ s.kind = "page" => Lesser(t, MaxTop(s, r)) <= before /\ before <= s.lines

LEMMA DrawIsDrawn ==
    ASSUME NEW s \in Screens, NEW r \in Grids, NEW sel \in Nat, NEW t \in Nat,
           NEW before \in Nat, Follows(s, r, sel, t, before), Draw(s, r, sel, t, before)
    PROVE  Drawn'
<1>1. s.kind \in {"menu", "page", "message"} /\ s.lines \in Nat \ {0}
  BY ScreensAssumption
<1>2. /\ screen' = s /\ rows' = r /\ selected' = sel
      /\ top' = TopFor(s, r, sel, t)
      /\ s.kind # "page" => seen' = 0
  BY DEF Draw
<1>3. CASE s.kind = "menu"
  <2>1. sel \in 1..s.lines /\ sel \in s.selectable
    BY <1>3, ScreensAssumption DEF Follows
  <2>2. top' = MenuTop(s, r, sel, t)
    BY <1>2, <1>3 DEF TopFor
  <2> QED
    BY <1>2, <1>3, <2>1, <2>2, MenuTopShows DEF Drawn, TypeOK, SelectedShown
<1>4. CASE s.kind = "page"
  <2>1. MaxTop(s, r) \in Nat
    <3>1. s.header \in Nat /\ r \in Nat
      BY ScreensAssumption, RoomAssumption
    <3> QED
      BY <1>1, <3>1 DEF MaxTop, PageView, Minus, Greater
  <2> DEFINE at == Lesser(t, MaxTop(s, r))
  <2>2. at \in Nat /\ at <= MaxTop(s, r)
    BY <2>1 DEF Lesser
  <2>3. top' = at /\ at <= before /\ before <= s.lines
    BY <1>2, <1>4 DEF TopFor, Follows
  <2>4. seen' = Greater(before, LastRead(s, r, at))
    BY <1>4, <2>3 DEF Draw, TopFor
  <2>5. LastRead(s, r, at) \in Nat /\ LastRead(s, r, at) <= s.lines
    BY <1>4, <2>2, PageWindow
  <2>6. seen' \in Nat /\ LastRead(s, r, at) <= seen' /\ seen' <= s.lines
    BY <1>1, <2>3, <2>4, <2>5 DEF Greater
  <2> QED
    BY <1>2, <1>4, <2>2, <2>3, <2>6 DEF Drawn, TypeOK, SelectedShown
<1>5. CASE s.kind = "message"
  <2>1. top' = 0 /\ seen' = 0
    BY <1>2, <1>5 DEF TopFor
  <2> QED
    BY <1>2, <1>5, <2>1 DEF Drawn, TypeOK, SelectedShown
<1> QED
  BY <1>1, <1>3, <1>4, <1>5

LEMMA InitIsDrawn == Init => Drawn
<1> SUFFICES ASSUME Init PROVE Drawn
  OBVIOUS
<1>1. screen \in Screens /\ rows \in Grids /\ screen.lines \in Nat \ {0} /\ selected \in 1..screen.lines
  BY ScreensAssumption DEF Init
<1>2. screen.kind \in {"menu", "page", "message"}
  BY <1>1, ScreensAssumption
<1>3. CASE screen.kind = "menu"
  <2>1. selected \in screen.selectable
    BY <1>3 DEF Init, Start, StepDown
  <2>2. top = MenuTop(screen, rows, selected, 0) /\ seen = 0
    BY <1>3 DEF Init, TopFor
  <2> QED
    BY <1>1, <1>3, <2>1, <2>2, MenuTopShows DEF Drawn, TypeOK, SelectedShown
<1>4. CASE screen.kind = "page"
  <2>1. MaxTop(screen, rows) \in Nat
    <3>1. screen.header \in Nat /\ rows \in Nat
      BY <1>1, ScreensAssumption, RoomAssumption
    <3> QED
      BY <1>1, <3>1 DEF MaxTop, PageView, Minus, Greater
  <2>2. top = 0 /\ seen = LastRead(screen, rows, 0)
    BY <1>4, <2>1 DEF Init, TopFor, Lesser
  <2>3. LastRead(screen, rows, 0) \in Nat /\ LastRead(screen, rows, 0) <= screen.lines
    BY <1>1, <1>4, <2>1, PageWindow
  <2> QED
    BY <1>1, <1>4, <2>1, <2>2, <2>3 DEF Drawn, TypeOK, SelectedShown
<1>5. CASE screen.kind = "message"
  <2>1. top = 0 /\ seen = 0
    BY <1>5 DEF Init, TopFor
  <2> QED
    BY <1>1, <1>5, <2>1 DEF Drawn, TypeOK, SelectedShown
<1> QED
  BY <1>2, <1>3, <1>4, <1>5

LEMMA NextIsDrawn == Drawn /\ [Next]_vars => Drawn'
<1> SUFFICES ASSUME Drawn, [Next]_vars PROVE Drawn'
  OBVIOUS
<1>1. /\ screen \in Screens /\ rows \in Grids /\ top \in Nat /\ selected \in Nat /\ seen \in Nat
      /\ screen.kind = "menu" => selected \in screen.selectable
  BY DEF Drawn, TypeOK
<1>2. screen.lines \in Nat \ {0}
  BY <1>1, ScreensAssumption
<1>3. screen.kind = "menu" => screen.selectable \subseteq 1..screen.lines
  BY <1>1, ScreensAssumption
\* A height and a page: how far it goes, and what of it has been seen.
<1>4. ASSUME NEW r \in Grids, NEW s \in Screens, s.kind = "page"
      PROVE  MaxTop(s, r) \in Nat
  <2>1. s.header \in Nat /\ r \in Nat /\ s.lines \in Nat
    BY <1>4, ScreensAssumption, RoomAssumption
  <2> QED
    BY <2>1 DEF MaxTop, PageView, Minus, Greater
<1>5. screen.kind = "page" =>
        /\ MaxTop(screen, rows) \in Nat
        /\ PageView(screen, rows) \in Nat /\ 4 <= PageView(screen, rows)
        /\ seen < screen.lines => top + PageView(screen, rows) <= seen
        /\ top <= seen /\ seen <= screen.lines
        /\ MaxTop(screen, rows) <= screen.lines
  <2> SUFFICES ASSUME screen.kind = "page"
               PROVE  /\ MaxTop(screen, rows) \in Nat
                      /\ PageView(screen, rows) \in Nat /\ 4 <= PageView(screen, rows)
                      /\ seen < screen.lines => top + PageView(screen, rows) <= seen
                      /\ top <= seen /\ seen <= screen.lines
                      /\ MaxTop(screen, rows) <= screen.lines
    OBVIOUS
  <2>1. /\ top <= MaxTop(screen, rows) /\ LastRead(screen, rows, top) <= seen
        /\ seen <= screen.lines
    BY DEF Drawn
  <2>2. /\ PageView(screen, rows) \in Nat /\ 4 <= PageView(screen, rows)
        /\ LastRead(screen, rows, top) \in Nat
        /\ LastRead(screen, rows, top) < screen.lines
             => LastRead(screen, rows, top) = top + PageView(screen, rows)
        /\ top <= LastRead(screen, rows, top)
    BY <1>1, <2>1, PageWindow
  <2>3. MaxTop(screen, rows) \in Nat
    BY <1>1, <1>4
  <2>4. MaxTop(screen, rows) <= screen.lines
    BY <1>2, <2>2 DEF MaxTop, Minus
  <2> QED
    BY <1>1, <1>2, <2>1, <2>2, <2>3, <2>4
<1>6. CASE Open
  <2>1. PICK s \in Screens : Opens(s, rows)
    BY <1>6 DEF Open
  <2>2. s.lines \in Nat \ {0}
    BY ScreensAssumption
  <2>3. CASE s.kind = "menu"
    <3>1. PICK from \in s.starts : \E sel \in Start(s, from) : Draw(s, rows, sel, 0, 0)
      BY <2>1, <2>3 DEF Opens
    <3>2. PICK sel \in Start(s, from) : Draw(s, rows, sel, 0, 0)
      BY <3>1
    <3>3. sel \in s.selectable
      BY <3>2 DEF Start, StepDown
    <3>4. sel \in Nat
      BY <2>2, <2>3, <3>3, ScreensAssumption
    <3> QED
      BY <1>1, <2>3, <3>2, <3>3, <3>4, DrawIsDrawn DEF Follows
  <2>4. CASE s.kind # "menu"
    <3>1. Draw(s, rows, 1, 0, 0)
      BY <2>1, <2>4 DEF Opens
    <3>2. s.kind = "page" => Lesser(0, MaxTop(s, rows)) <= 0
      BY <1>1, <1>4 DEF Lesser
    <3> QED
      BY <1>1, <2>2, <2>4, <3>1, <3>2, DrawIsDrawn DEF Follows
  <2> QED
    BY <2>3, <2>4
<1>7. ASSUME NEW r \in Grids, Resize(r) PROVE Drawn'
  <2>1. Draw(screen, r, selected, top, seen)
    BY <1>7 DEF Resize
  <2>2. screen.kind = "page" => Lesser(top, MaxTop(screen, r)) <= seen
    BY <1>1, <1>4, <1>5 DEF Lesser
  <2> QED
    BY <1>1, <1>5, <2>1, <2>2, DrawIsDrawn DEF Follows
<1>8. ASSUME NEW r \in Grids, CloserLook(r) PROVE Drawn'
  <2>1. screen.kind = "menu"
    BY <1>8 DEF CloserLook
  <2>2. PICK sel \in Start(screen, selected) : Draw(screen, r, sel, 0, 0)
    BY <1>8 DEF CloserLook
  <2>3. sel \in screen.selectable
    BY <2>2 DEF Start, StepDown
  <2>4. sel \in Nat
    BY <1>2, <1>3, <2>1, <2>3
  <2> QED
    BY <1>1, <2>1, <2>2, <2>3, <2>4, DrawIsDrawn DEF Follows
<1>9. CASE MenuUp \/ MenuDown
  <2>1. screen.kind = "menu"
    BY <1>9 DEF MenuUp, MenuDown
  <2>2. PICK to \in screen.selectable : Draw(screen, rows, to, top, 0)
    BY <1>9 DEF MenuUp, MenuDown, StepUp, StepDown
  <2>3. to \in Nat
    BY <1>2, <1>3, <2>1
  <2> QED
    BY <1>1, <2>1, <2>2, <2>3, DrawIsDrawn DEF Follows
\* Wherever a press takes a page, what comes above the window has been seen.
<1>10. ASSUME NEW to \in Nat, Scroll(to), to <= top + PageView(screen, rows),
              to <= MaxTop(screen, rows) \/ to <= top
       PROVE  Drawn'
  <2>1. screen.kind = "page" /\ Draw(screen, rows, selected, to, seen)
    BY <1>10 DEF Scroll
  <2>2. Lesser(to, MaxTop(screen, rows)) <= seen /\ seen <= screen.lines
    BY <1>1, <1>2, <1>5, <1>10, <2>1 DEF Lesser
  <2> QED
    BY <1>1, <2>1, <2>2, DrawIsDrawn DEF Follows
<1>11. CASE PageUp
  <2>1. screen.kind = "page" /\ Scroll(Minus(top, SCROLL_LINES))
    BY <1>11 DEF PageUp, Scroll
  <2>2. Minus(top, SCROLL_LINES) \in Nat /\ Minus(top, SCROLL_LINES) <= top
    BY <1>1 DEF Minus, SCROLL_LINES
  <2> QED
    BY <1>1, <1>5, <1>10, <2>1, <2>2
<1>12. CASE PageDown
  <2>1. screen.kind = "page" /\ Scroll(Lesser(top + SCROLL_LINES, MaxTop(screen, rows)))
    BY <1>12 DEF PageDown, Scroll
  <2> DEFINE to == Lesser(top + SCROLL_LINES, MaxTop(screen, rows))
  <2>2. to \in Nat /\ to <= top + 3 /\ to <= MaxTop(screen, rows)
    BY <1>1, <1>5, <2>1 DEF Lesser, SCROLL_LINES
  <2> HIDE DEF to
  <2>3. to <= top + PageView(screen, rows)
    BY <1>1, <1>5, <2>1, <2>2
  <2> QED
    BY <1>10, <2>1, <2>2, <2>3 DEF to
<1>13. CASE PageLeft
  <2>1. screen.kind = "page" /\ Scroll(Minus(top, PageView(screen, rows)))
    BY <1>13 DEF PageLeft, Scroll
  <2>2. /\ Minus(top, PageView(screen, rows)) \in Nat
        /\ Minus(top, PageView(screen, rows)) <= top
    BY <1>1, <1>5, <2>1 DEF Minus
  <2> QED
    BY <1>1, <1>5, <1>10, <2>1, <2>2
<1>14. CASE PageRight
  <2>1. screen.kind = "page" /\ Scroll(Lesser(top + PageView(screen, rows), MaxTop(screen, rows)))
    BY <1>14 DEF PageRight, Scroll
  <2>2. /\ Lesser(top + PageView(screen, rows), MaxTop(screen, rows)) \in Nat
        /\ Lesser(top + PageView(screen, rows), MaxTop(screen, rows)) <= top + PageView(screen, rows)
        /\ Lesser(top + PageView(screen, rows), MaxTop(screen, rows)) <= MaxTop(screen, rows)
    BY <1>1, <1>5, <2>1 DEF Lesser
  <2> QED
    BY <1>10, <2>1, <2>2
<1>15. CASE UNCHANGED vars
  BY <1>15 DEF vars, Drawn, TypeOK, SelectedShown
<1> QED
  BY <1>6, <1>7, <1>8, <1>9, <1>11, <1>12, <1>13, <1>14, <1>15 DEF Next

LEMMA AlwaysDrawn == Spec => []Drawn
  BY InitIsDrawn, NextIsDrawn, PTL DEF Spec

-----------------------------------------------------------------------------

\* What is highlighted can be chosen, and it is in the window: in every menu, at
\* every height, after any presses and changes of the height (run_menu,
\* resolution_menu).
THEOREM SelectionIsShown == Spec => [](TypeOK /\ SelectedShown)
<1>1. Drawn => TypeOK /\ SelectedShown
  BY DEF Drawn
<1> QED
  BY <1>1, AlwaysDrawn, PTL

\* The footer keeps its place: a menu's rows, its indicator and the tallest of
\* its details, and a page's window, all end above its rule (run_menu, page).
THEOREM FooterStaysClear == Spec => []ClearOfFooter
<1>1. Drawn => ClearOfFooter
  <2> SUFFICES ASSUME Drawn, screen.kind # "message"
               PROVE  Bottom(screen, rows, top) <= FooterRow(rows)
    BY DEF ClearOfFooter
  <2>1. screen \in Screens /\ rows \in Grids /\ top \in Nat
    BY DEF Drawn, TypeOK
  <2>2. CASE screen.kind = "menu"
    <3>1. top <= screen.lines
      BY <2>1, <2>2, ScreensAssumption DEF Drawn, TypeOK, SelectedShown
    <3> QED
      BY <2>1, <2>2, <3>1, MenuWindow
  <2>3. CASE screen.kind = "page"
    BY <2>1, <2>3, PageWindow DEF Drawn
  <2> QED
    BY <2>1, <2>2, <2>3, ScreensAssumption
<1> QED
  BY <1>1, AlwaysDrawn, PTL

\* An operator who reaches the end of a page has had every line of it in front of
\* them, whatever the presses and however often the height changed (page).
THEOREM PagesAreReadWhole == Spec => []NothingSkipped
<1>1. Drawn => NothingSkipped
  <2> SUFFICES ASSUME Drawn, screen.kind = "page"
               PROVE  /\ top <= seen
                      /\ top = MaxTop(screen, rows) => seen = screen.lines
    BY DEF NothingSkipped
  <2>1. /\ screen \in Screens /\ rows \in Grids /\ top \in Nat /\ seen \in Nat
        /\ top <= MaxTop(screen, rows) /\ LastRead(screen, rows, top) <= seen
        /\ seen <= screen.lines
    BY DEF Drawn, TypeOK
  <2>2. /\ LastRead(screen, rows, top) \in Nat /\ top <= LastRead(screen, rows, top)
        /\ top = MaxTop(screen, rows) => LastRead(screen, rows, top) = screen.lines
    BY <2>1, PageWindow
  <2>3. screen.lines \in Nat
    BY <2>1, ScreensAssumption
  <2> QED
    BY <2>1, <2>2, <2>3
<1> QED
  BY <1>1, AlwaysDrawn, PTL

-----------------------------------------------------------------------------
(* The console below: whatever is chosen, the grid is one Viewport knows.  *)

LEMMA SizesOfCells == /\ DOMAIN C!Fonts = 1..3 /\ Len(C!Fonts) = 3
                      /\ \A f \in 1..3 : C!Fonts[f].w \in Nat \ {0} /\ C!Fonts[f].h \in Nat \ {0}
  BY DEF C!Fonts

\* The nearest of the sizes that fit, or the smallest where none does.
LEMMA AutomaticFits ==
    ASSUME NEW size, size.width \in Nat, size.height \in Nat
    PROVE  /\ C!Automatic(size) \in DOMAIN C!Fonts
           /\ C!Fits(C!Automatic(size), size) \/ C!Automatic(size) = Len(C!Fonts)
<1> DEFINE fitting == {f \in DOMAIN C!Fonts : C!Fits(f, size)}
           Near(f) == \A g \in fitting :
                        \/ C!Distance(f, size) < C!Distance(g, size)
                        \/ C!Distance(f, size) = C!Distance(g, size) /\ f <= g
<1>1. C!Automatic(size) = IF fitting = {} THEN Len(C!Fonts) ELSE CHOOSE f \in fitting : Near(f)
  BY DEF C!Automatic
<1>2. CASE fitting = {}
  BY <1>1, <1>2, SizesOfCells
<1>3. CASE fitting # {}
  <2>1. \A f \in 1..3 : C!Distance(f, size) \in Nat
    <3> SUFFICES ASSUME NEW f \in 1..3 PROVE C!Distance(f, size) \in Nat
      OBVIOUS
    <3>1. C!Fonts[f].w \in Nat \ {0}
      BY SizesOfCells
    <3>2. size.width \div C!Fonts[f].w \in Nat
      BY <3>1
    <3> QED
      BY <3>2 DEF C!Distance, C!Cells, C!TARGET_COLS
  <2>2. fitting \in SUBSET (1..3)
    BY SizesOfCells
  <2> DEFINE D(f) == C!Distance(f, size)
  <2>3. \E f \in fitting : Near(f)
    <3>1. D(1) \in Nat /\ D(2) \in Nat /\ D(3) \in Nat
      BY <2>1
    <3>2. \A g \in fitting : g = 1 \/ g = 2 \/ g = 3
      BY <2>2
    <3>3. 1 \in fitting \/ 2 \in fitting \/ 3 \in fitting
      BY <1>3, <3>2
    <3> HIDE DEF fitting, D
    <3>4. \E f \in fitting : \A g \in fitting : D(f) < D(g) \/ (D(f) = D(g) /\ f <= g)
      BY <3>1, <3>2, <3>3
    <3> QED
      BY <3>4 DEF D
  <2>4. (CHOOSE f \in fitting : Near(f)) \in fitting
    BY <2>3
  <2> QED
    BY <1>1, <1>3, <2>4
<1> QED
  BY <1>2, <1>3

\* The extent is the one of the mode in force, and where there is one the grid was
\* laid out in it, in a size that fits or the smallest.
Laid ==
    LET logical == C!Logical(rotation, extent)
    IN /\ mode \in Modes
       /\ extent = C!Adopted(mode)
       /\ rotation \in C!Rotations
       /\ font \in DOMAIN C!Fonts
       /\ extent # C!Empty =>
            /\ C!Fits(font, logical) \/ font = Len(C!Fonts)
            /\ grid = C!Cells(font, logical)

LEMMA LogicalTyped ==
    ASSUME NEW m \in Modes, NEW turn
    PROVE  LET logical == C!Logical(turn, C!Adopted(m))
           IN logical.width \in Nat /\ logical.height \in Nat
  BY ModesAssumption DEF C!Logical, C!Adopted, C!SizeOf, C!Size, C!Empty

LEMMA LaidInGrids == Laid /\ extent # C!Empty => grid.rows \in Grids
<1> SUFFICES ASSUME Laid, extent # C!Empty PROVE grid.rows \in Grids
  OBVIOUS
<1>1. mode \in C!Usable /\ extent = C!SizeOf(mode)
  BY DEF Laid, C!Adopted
<1> QED
  BY <1>1, GridsAssumption DEF Laid

LEMMA InitIsLaid == DisplayInit => Laid
<1> SUFFICES ASSUME C!Init PROVE Laid
  BY DEF DisplayInit
<1>1. mode \in Modes /\ extent = C!Adopted(mode)
  BY DEF C!Init, C!Usable, C!Adopted
<1>2. rotation \in C!Rotations
  BY DEF C!Init, C!Guess, C!Rotations
<1>3. LET logical == C!Logical(rotation, extent)
      IN logical.width \in Nat /\ logical.height \in Nat
  BY <1>1, LogicalTyped
<1> QED
  BY <1>1, <1>2, <1>3, AutomaticFits DEF C!Init, Laid

\* A layout in an extent that is there keeps to the sizes.
LEMMA RelayoutIsLaid ==
    ASSUME NEW m \in Modes, NEW turn \in C!Rotations, NEW f \in DOMAIN C!Fonts,
           C!Relayout(turn, C!Adopted(m), f),
           mode' = m, extent' = C!Adopted(m), rotation' = turn
    PROVE  Laid'
<1> DEFINE logical == C!Logical(turn, C!Adopted(m))
<1>1. logical.width \in Nat /\ logical.height \in Nat
  BY LogicalTyped
<1>2. /\ font' = IF C!Fits(f, logical) THEN f ELSE C!Automatic(logical)
      /\ grid' = C!Cells(font', logical)
  BY DEF C!Relayout
<1> HIDE DEF logical
<1>3. /\ font' \in DOMAIN C!Fonts
      /\ C!Fits(font', logical) \/ font' = Len(C!Fonts)
  BY <1>1, <1>2, AutomaticFits
<1> QED
  BY <1>2, <1>3 DEF Laid, logical

LEMMA NextIsLaid == Laid /\ [DisplayNext]_displayVars => Laid'
<1> SUFFICES ASSUME Laid, [DisplayNext]_displayVars PROVE Laid'
  OBVIOUS
<1>1. /\ mode \in Modes /\ extent = C!Adopted(mode)
      /\ rotation \in C!Rotations /\ font \in DOMAIN C!Fonts
  BY DEF Laid
<1>2. CASE UNCHANGED <<mode, extent, rotation, font, grid>>
  BY <1>2 DEF Laid
<1>3. ASSUME NEW next \in {font - 1, font + 1}, C!ResizeText(next) PROVE Laid'
  BY <1>1, <1>3, RelayoutIsLaid DEF C!ResizeText
<1>4. ASSUME NEW turn \in C!Turns(rotation), C!SetRotation(turn) PROVE Laid'
  <2>1. turn \in C!Rotations
    BY <1>1 DEF C!Turns, C!Rotations
  <2> QED
    BY <1>1, <1>4, <2>1, RelayoutIsLaid DEF C!SetRotation
<1>5. CASE C!SetMode
  <2>1. PICK m \in Modes : m \in C!Wanted(C!SizeOf(m)) /\ (C!Take(m) \/ C!GoBack(m))
    BY <1>5 DEF C!SetMode
  <2>2. CASE C!Take(m)
    <3> DEFINE logical == C!Logical(rotation, C!Adopted(m))
    <3>1. logical.width \in Nat /\ logical.height \in Nat
      BY LogicalTyped
    <3>2. m \in C!Usable
      BY <2>1, <2>2 DEF C!Take, C!Wanted, C!Usable
    <3>3. /\ mode' = m /\ extent' = C!Adopted(m) /\ rotation' = rotation
          /\ C!Relayout(rotation, C!Adopted(m), C!Automatic(logical))
      BY <2>2, <3>2 DEF C!Take, C!Adopted
    <3> HIDE DEF logical
    <3> QED
      BY <1>1, <3>1, <3>3, AutomaticFits, RelayoutIsLaid
  <2>3. CASE C!GoBack(m)
    <3>1. /\ mode' \in {mode, m} /\ extent' = C!Adopted(mode')
          /\ UNCHANGED <<rotation, font, grid>> /\ ~m.sound
      BY <2>3 DEF C!GoBack
    <3>2. CASE mode' = mode
      BY <1>1, <1>2, <3>1, <3>2
    <3>3. CASE mode' = m
      <4>1. extent' = C!Empty
        BY <3>1, <3>3 DEF C!Adopted, C!Usable
      <4> QED
        BY <1>1, <2>1, <3>1, <3>3, <4>1 DEF Laid
    <3> QED
      BY <3>1, <3>2, <3>3
  <2> QED
    BY <2>1, <2>2, <2>3
<1>6. CASE Answer \/ View \/ Done \/ UNCHANGED displayVars
  BY <1>2, <1>6 DEF Answer, View, Done, console, displayVars
<1>7. CASE Choose
  BY <1>3, <1>4, <1>5, <1>7 DEF Choose
<1>8. CASE Paint
  BY <1>2, <1>8 DEF Paint, C!Clear, C!Flush, C!Write
<1> QED
  BY <1>6, <1>7, <1>8 DEF DisplayNext

\* The menus' arithmetic and the console's meet: whatever is chosen on the display
\* screen, in whichever modes, a screen is drawn again for a height it has room on,
\* so that the theorems above hold of the screens as they are drawn (run_menu and
\* page over relayout).
THEOREM DisplayImplementsViewport == DisplaySpec => ImplementsViewport
<1>1. DisplayInit => Init
  BY DEF DisplayInit
<1>2. ASSUME Laid, [DisplayNext]_displayVars PROVE [Next]_vars
  <2>1. CASE Answer
    BY <2>1 DEF Answer, Next
  <2>2. CASE View \/ Choose \/ Paint \/ UNCHANGED displayVars
    BY <2>2 DEF View, Choose, Paint, displayVars, vars
  <2>3. CASE Done
    <3>1. extent # C!Empty /\ (Resize(grid.rows) \/ CloserLook(grid.rows))
      BY <2>3 DEF Done
    <3>2. grid.rows \in Grids
      BY <1>2, <3>1, LaidInGrids
    <3> QED
      BY <3>1, <3>2 DEF Next
  <2> QED
    BY <1>2, <2>1, <2>2, <2>3 DEF DisplayNext
<1> QED
  BY <1>1, <1>2, InitIsLaid, NextIsLaid, PTL DEF DisplaySpec, ImplementsViewport, Spec

\* Whatever mode changes failed, and however far they got, pixels are only written
\* by the description of the mode in force (adopt, set_mode).
THEOREM DisplayWritesInForce == DisplaySpec => []WritesOnlyInForce
<1>1. Laid => WritesOnlyInForce
  BY DEF Laid, WritesOnlyInForce, C!WritesOnlyInForce, C!Adopted
<1> QED
  BY <1>1, InitIsLaid, NextIsLaid, PTL DEF DisplaySpec

\* Nothing that clears the panel leaves a belief behind about what it shows: every
\* cell a flush leaves out is on it (forget, relayout, flush).
THEOREM DisplayBelievesTrue == DisplaySpec => []ShownIsTrue
<1> USE DEF ShownIsTrue, C!ShownIsTrue
<1>1. DisplayInit => ShownIsTrue
  BY DEF DisplayInit, C!Init, C!Everywhere
<1>2. ASSUME ShownIsTrue, [DisplayNext]_displayVars PROVE ShownIsTrue'
  <2>1. CASE UNCHANGED <<extent, shown, glass>>
    BY <1>2, <2>1
  <2>2. CASE shown' = C!Everywhere(Unknown)
    BY <2>2 DEF C!Everywhere
  <2>3. CASE Answer \/ View \/ Done \/ UNCHANGED displayVars
    BY <2>1, <2>3 DEF Answer, View, Done, console, displayVars
  <2>4. CASE Choose
    BY <2>2, <2>4 DEF Choose, C!ResizeText, C!SetRotation, C!SetMode, C!Take, C!GoBack, C!Relayout
  <2>5. CASE Paint
    <3>1. CASE C!Flush
      <4> SUFFICES ASSUME extent # C!Empty, NEW p \in Places, cells[p] # Unknown
                   PROVE  glass'[p] = cells[p]
        BY <3>1 DEF C!Flush, C!Empty, C!Size
      <4>1. glass'[p] = IF shown[p] = cells[p] THEN glass[p] ELSE cells[p]
        BY <3>1 DEF C!Flush
      <4> QED
        BY <1>2, <4>1
    <3>2. CASE C!Clear \/ \E p \in Places, c \in Contents : C!Write(p, c)
      BY <2>1, <3>2 DEF C!Clear, C!Write
    <3> QED
      BY <2>5, <3>1, <3>2 DEF Paint
  <2> QED
    BY <1>2, <2>3, <2>4, <2>5 DEF DisplayNext
<1> QED
  BY <1>1, <1>2, PTL DEF DisplaySpec

(***************************************************************************)
(* The types: what Laid leaves open is the grid, that an empty extent keeps *)
(* from before, and the cells.                                             *)

CellsTyped ==
    /\ grid \in [cols : Nat, rows : Nat]
    /\ cells \in [Places -> Contents]
    /\ shown \in [Places -> Contents \cup {Unknown}]
    /\ glass \in [Places -> Contents \cup {Unknown}]

LEMMA CellsOfSize ==
    ASSUME NEW f \in DOMAIN C!Fonts, NEW size, size.width \in Nat, size.height \in Nat
    PROVE  C!Cells(f, size) \in [cols : Nat, rows : Nat]
<1>1. C!Fonts[f].w \in Nat \ {0} /\ C!Fonts[f].h \in Nat \ {0}
  BY SizesOfCells
<1>2. size.width \div C!Fonts[f].w \in Nat /\ size.height \div C!Fonts[f].h \in Nat
  BY <1>1
<1> QED
  BY <1>2 DEF C!Cells

LEMMA NothingKnown ==
    /\ C!Everywhere(Blank) \in [Places -> Contents]
    /\ C!Everywhere(Unknown) \in [Places -> Contents \cup {Unknown}]
    /\ C!Wiped \in [Places -> Contents \cup {Unknown}]
  BY ContentsAssumption DEF C!Everywhere, C!Wiped

LEMMA RelayoutIsTyped ==
    ASSUME NEW m \in Modes, NEW turn \in C!Rotations, NEW f \in DOMAIN C!Fonts,
           C!Relayout(turn, C!Adopted(m), f)
    PROVE  CellsTyped'
<1> DEFINE logical == C!Logical(turn, C!Adopted(m))
<1>1. logical.width \in Nat /\ logical.height \in Nat
  BY LogicalTyped
<1>2. /\ font' = IF C!Fits(f, logical) THEN f ELSE C!Automatic(logical)
      /\ grid' = C!Cells(font', logical)
      /\ cells' = C!Everywhere(Blank)
      /\ shown' = C!Everywhere(Unknown)
      /\ glass' = C!Wiped
  BY DEF C!Relayout
<1> HIDE DEF logical
<1>3. font' \in DOMAIN C!Fonts
  BY <1>1, <1>2, AutomaticFits
<1>4. grid' \in [cols : Nat, rows : Nat]
  BY <1>1, <1>2, <1>3, CellsOfSize
<1> QED
  BY <1>2, <1>4, NothingKnown DEF CellsTyped

LEMMA NextIsTyped ==
    ASSUME Laid, CellsTyped, [DisplayNext]_displayVars
    PROVE  CellsTyped'
<1>1. /\ mode \in Modes /\ extent = C!Adopted(mode)
      /\ rotation \in C!Rotations /\ font \in DOMAIN C!Fonts
  BY DEF Laid
<1>2. CASE Answer \/ View \/ Done \/ UNCHANGED displayVars
  BY <1>2 DEF Answer, View, Done, console, displayVars, CellsTyped
<1>3. ASSUME NEW next \in {font - 1, font + 1}, C!ResizeText(next) PROVE CellsTyped'
  BY <1>1, <1>3, RelayoutIsTyped DEF C!ResizeText
<1>4. ASSUME NEW turn \in C!Turns(rotation), C!SetRotation(turn) PROVE CellsTyped'
  <2>1. turn \in C!Rotations
    BY <1>1 DEF C!Turns, C!Rotations
  <2> QED
    BY <1>1, <1>4, <2>1, RelayoutIsTyped DEF C!SetRotation
<1>5. CASE C!SetMode
  <2>1. PICK m \in Modes : C!Take(m) \/ C!GoBack(m)
    BY <1>5 DEF C!SetMode
  <2>2. CASE C!Take(m)
    <3> DEFINE logical == C!Logical(rotation, C!Adopted(m))
    <3>1. C!Automatic(logical) \in DOMAIN C!Fonts
      BY LogicalTyped, AutomaticFits
    <3>2. C!Relayout(rotation, C!Adopted(m), C!Automatic(logical))
      BY <2>2 DEF C!Take
    <3> QED
      BY <1>1, <3>1, <3>2, RelayoutIsTyped
  <2>3. CASE C!GoBack(m)
    BY <2>3, NothingKnown DEF C!GoBack, CellsTyped
  <2> QED
    BY <2>1, <2>2, <2>3
<1>6. CASE Choose
  BY <1>3, <1>4, <1>5, <1>6 DEF Choose
<1>7. CASE Paint
  <2>1. CASE C!Clear
    BY <2>1, NothingKnown DEF C!Clear, CellsTyped
  <2>2. CASE C!Flush
    BY <2>2 DEF C!Flush, CellsTyped
  <2>3. ASSUME NEW p \in Places, NEW c \in Contents, C!Write(p, c) PROVE CellsTyped'
    BY <2>3 DEF C!Write, CellsTyped
  <2> QED
    BY <1>7, <2>1, <2>2, <2>3 DEF Paint
<1> QED
  BY <1>2, <1>6, <1>7 DEF DisplayNext

\* Type correctness of the console: the cells are always those of a grid, whichever
\* mode changes and layouts came before (relayout, adopt, flush).
THEOREM ConsoleTyped == DisplaySpec => []C!TypeOK
<1>1. DisplayInit => CellsTyped
  <2> SUFFICES ASSUME DisplayInit PROVE CellsTyped
    OBVIOUS
  <2>1. C!Init /\ Laid
    BY InitIsLaid DEF DisplayInit
  <2>2. font \in DOMAIN C!Fonts /\ mode \in Modes /\ extent = C!Adopted(mode)
    BY <2>1 DEF Laid
  <2> DEFINE logical == C!Logical(rotation, extent)
  <2>3. logical.width \in Nat /\ logical.height \in Nat
    BY <2>2, LogicalTyped
  <2>4. grid = C!Cells(font, logical)
    BY <2>1 DEF C!Init
  <2> HIDE DEF logical
  <2>5. grid \in [cols : Nat, rows : Nat]
    BY <2>2, <2>3, <2>4, CellsOfSize
  <2> QED
    BY <2>1, <2>5, NothingKnown DEF C!Init, CellsTyped
<1>2. Laid /\ CellsTyped => C!TypeOK
  BY DEF Laid, CellsTyped, C!TypeOK, C!Adopted
<1> QED
  BY <1>1, <1>2, InitIsLaid, NextIsLaid, NextIsTyped, PTL DEF DisplaySpec
=============================================================================
