----------------------------- MODULE MCDisplay -------------------------------
(***************************************************************************)
(* Screens of main.rs on a Steam Deck's portrait panel and in the modes of *)
(* the docs: two with a buffer too small for them, one of those of the     *)
(* same size as a sound one, and one that cannot be drawn in.              *)
(***************************************************************************)
EXTENDS Display

CONSTANTS Ink

Mode(width, height, drawable, sound) ==
    [width |-> width, height |-> height, drawable |-> drawable, sound |-> sound]

Panel == Mode(800, 1280, TRUE, TRUE)
Full == Mode(1920, 1080, TRUE, TRUE)
FullShort == Mode(1920, 1080, TRUE, FALSE)
Short == Mode(1024, 768, TRUE, FALSE)
BltOnly == Mode(1280, 1024, FALSE, TRUE)

MCModes == {Panel, Full, FullShort, Short, BltOnly}
MCContents == {Blank, Ink}

\* The heights of the sizes that fit some mode, either way up.
MCGrids ==
    LET Sizes == {C!Logical(turn, C!SizeOf(m)) : turn \in {0, 90}, m \in {Panel, Full}}
    IN {C!Cells(fit[1], fit[2]).rows : fit \in {fs \in (1..3) \X Sizes : C!Fits(fs[1], fs[2])}}

-----------------------------------------------------------------------------

List(intro, detail, lines, separators, starts, view) ==
    [kind |-> "menu", header |-> 2, intro |-> intro, detail |-> detail, lines |-> lines,
     selectable |-> 1..lines \ separators, starts |-> starts, view |-> view]

Text(kind, header, lines) == [kind |-> kind, header |-> header, lines |-> lines]

MainMenu == List(3, 3, 9, {5}, {1}, "display")
BootEntries == List(4, 2, 16, {}, {1}, "display")
Snapshots == List(2, 7, 12, {}, {1}, "look")
Resolutions == List(2, 1, 4, {}, 1..4, "nothing")
Review == Text("page", 3, 40)
Note == Text("message", 2, 12)

MCScreens == {MainMenu, BootEntries, Snapshots, Resolutions, Review, Note}
=============================================================================
