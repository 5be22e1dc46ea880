------------------------------- MODULE Screens -------------------------------
(***************************************************************************)
(* The screens a write or a change of display mode must pass, and the      *)
(* presses that pass them (ui/mod.rs): a menu, a page, the confirmation    *)
(* sequence, the message after a write, the display screen that View opens *)
(* over each of them, the list of resolutions, and the question asked in a *)
(* mode just set.                                                          *)
(*                                                                         *)
(* The firmware buffers presses and repeats a button that is held down;    *)
(* there is no event for letting go.  "old" marks a press that began       *)
(* before the question on the screen was asked.                            *)
(***************************************************************************)
EXTENDS Naturals, Sequences

CONSTANTS
    Modes,       \* the display modes the firmware offers
    Seen,        \* those the panel shows
    Buttons,     \* the buttons that get pressed
    Turns,       \* the polls of confirm_mode: 6 s of 10 ms
    MaxQueue,    \* bounds the firmware's buffer
    MaxPresses   \* bounds the presses

ASSUME ModesAssumption == Seen \subseteq Modes /\ Seen # {}
ASSUME PressesAssumption == Turns \in Nat \ {0} /\ MaxQueue \in Nat /\ MaxPresses \in Nat

Input == {"Up", "Down", "Left", "Right", "Select", "Cancel", "View"}
ConfirmSequence == <<"Left", "Right", "Left", "Right", "Select">>
Press == [button : Input, old : BOOLEAN]

ASSUME ButtonsAssumption == Buttons \subseteq Input

VARIABLES
    queue,      \* the presses the firmware has buffered
    held,       \* the press that is still down, <<>> if none is
    presses,    \* how many there were
    screen,     \* the screen that waits for one
    under,      \* the screen the display screen was opened over
    position,   \* how much of the sequence has been entered
    mode,       \* the display mode in force
    other,      \* the mode to change to, then the mode to go back to
    turns,      \* polls of the question so far
    reads,      \* history: what the sequence's screen read last, View apart
    detour,     \* history: it was left for the display screen meanwhile
    granted,    \* history: the reads that authorised the write, if it was
    carried,    \* history: an old press kept a mode
    stuck       \* history: the firmware would not set the old mode again

keys == <<queue, held, presses>>
gate == <<position, reads, detour, granted>>
display == <<mode, other, turns, carried, stuck>>
vars == <<keys, screen, under, gate, display>>

-----------------------------------------------------------------------------
(* Buttons                                                                 *)

\* Someone who sees nothing presses nothing new.
PressButton(button) ==
    /\ held = <<>>
    /\ mode \in Seen
    /\ presses < MaxPresses
    /\ Len(queue) < MaxQueue
    /\ held' = <<[button |-> button, old |-> FALSE]>>
    /\ queue' = queue \o held'
    /\ presses' = presses + 1
    /\ UNCHANGED <<screen, under, gate, display>>

RepeatButton ==
    /\ Len(queue) < MaxQueue
    /\ held # <<>>
    /\ queue' = queue \o held
    /\ UNCHANGED <<held, presses, screen, under, gate, display>>

ReleaseButton ==
    /\ held # <<>>
    /\ held' = <<>>
    /\ UNCHANGED <<queue, presses, screen, under, gate, display>>

Aged(events) == [i \in DOMAIN events |-> [events[i] EXCEPT !.old = TRUE]]

Reading(button) == queue # <<>> /\ Head(queue).button = button
Consume == queue' = Tail(queue) /\ UNCHANGED <<held, presses>>

\* A screen is put up once the buffer is drained; a button that is still down
\* will repeat into it.
Show(name) ==
    /\ screen' = name
    /\ queue' = <<>>
    /\ held' = Aged(held)
    /\ UNCHANGED presses

-----------------------------------------------------------------------------
(* run_menu, page, confirm_sequence and message                            *)

\* Every screen but the display screen's own leads there on View, and is put up
\* again when it is left.
OpensDisplay ==
    /\ Reading("View")
    /\ Show("display")
    /\ under' = screen

\* Nothing of the sequence outlives its screen.
NoSequence == position' = 0 /\ reads' = <<>> /\ detour' = FALSE

\* A menu whose rows have no closer look; every row leads to the same page here,
\* and going back to another menu that leads here again.
MenuReads ==
    /\ screen = "menu"
    /\ \/ /\ Reading("Select")
          /\ Show("page")
          /\ UNCHANGED under
       \/ OpensDisplay
       \/ /\ \E button \in Input \ {"Select", "View"} : Reading(button)
          /\ Consume
          /\ UNCHANGED <<screen, under>>
    /\ UNCHANGED <<gate, display>>

\* A review page: on to the sequence, or back to the menu.
PageReads ==
    /\ screen = "page"
    /\ \/ /\ Reading("Select")
          /\ Show("sequence")
          /\ UNCHANGED under
       \/ /\ Reading("Cancel")
          /\ Show("menu")
          /\ UNCHANGED under
       \/ OpensDisplay
       \/ /\ \E button \in Input \ {"Select", "Cancel", "View"} : Reading(button)
          /\ Consume
          /\ UNCHANGED <<screen, under>>
    /\ UNCHANGED <<gate, display>>

\* What came of it: of the write, or that it was cancelled.
MessageReads ==
    /\ screen = "message"
    /\ \/ /\ Reading("Select") \/ Reading("Cancel")
          /\ Show("menu")
          /\ NoSequence /\ granted' = <<>>
          /\ UNCHANGED under
       \/ /\ OpensDisplay
          /\ UNCHANGED gate
       \/ /\ \E button \in Input \ {"Select", "Cancel", "View"} : Reading(button)
          /\ Consume
          /\ UNCHANGED <<screen, under, gate>>
    /\ UNCHANGED display

\* Mutant: a wrong press is passed over.
AfterPressKept(button) ==
    IF button = ConfirmSequence[position + 1] THEN position + 1 ELSE position

\* A wrong press starts the sequence over, counting itself if it is the first.
AfterPress(button) ==
    IF button = ConfirmSequence[position + 1] THEN position + 1
    ELSE IF button = ConfirmSequence[1] THEN 1 ELSE 0

LastFive(events) == SubSeq(events, Len(events) - 4, Len(events))
Remembered(event) ==
    IF Len(reads) < 5 THEN Append(reads, event) ELSE LastFive(Append(reads, event))

\* The write is made and its outcome shown.
Authorise ==
    /\ Show("message")
    /\ granted' = Remembered(Head(queue))
    /\ position' = 0 /\ reads' = <<>>
    /\ UNCHANGED detour

\* Cancel is answered with a message, and then the menu.
SequenceReads ==
    /\ screen = "sequence"
    /\ \/ /\ Reading("Cancel")
          /\ Show("message")
          /\ NoSequence
          /\ UNCHANGED <<under, granted>>
       \/ /\ OpensDisplay
          /\ detour' = TRUE
          /\ UNCHANGED <<position, reads, granted>>
       \/ /\ queue # <<>> /\ Head(queue).button \notin {"Cancel", "View"}
          /\ IF AfterPress(Head(queue).button) = Len(ConfirmSequence)
             THEN Authorise
             ELSE /\ position' = AfterPress(Head(queue).button)
                  /\ reads' = Remembered(Head(queue))
                  /\ Consume
                  /\ UNCHANGED <<screen, detour, granted>>
          /\ UNCHANGED under
    /\ UNCHANGED display

-----------------------------------------------------------------------------
(* The display screen, its list of modes and the question in a new mode    *)

\* Turning the picture and stepping the text size change no other screen's
\* state.  With one mode only, View leaves, as A and B do.
DisplayReads ==
    /\ screen = "display"
    /\ \/ /\ Reading("View") /\ Modes # {mode}
          /\ Show("resolutions")
       \/ /\ \/ Reading("Select")
             \/ Reading("Cancel")
             \/ Reading("View") /\ Modes = {mode}
          /\ Show(under)
       \/ /\ \E button \in {"Up", "Down", "Left", "Right"} : Reading(button)
          /\ Consume
          /\ UNCHANGED screen
    /\ UNCHANGED <<under, gate, display>>

\* resolution_menu; the row that is in force already does nothing.
ResolutionsReads ==
    /\ screen = "resolutions"
    /\ \/ /\ Reading("Cancel")
          /\ Show("display")
          /\ UNCHANGED display
       \/ /\ Reading("Select")
          /\ \E m \in Modes \ {mode} : other' = m
          /\ Show("switching")
          /\ UNCHANGED <<mode, turns, carried, stuck>>
       \/ /\ queue # <<>> /\ Head(queue).button # "Cancel"
          /\ Consume
          /\ UNCHANGED <<screen, display>>
    /\ UNCHANGED <<under, gate>>

\* set_mode when nothing this program can draw in comes of it: the firmware
\* refuses, or the mode it set is undone, unless it will not go back.
SetModeFails ==
    \/ UNCHANGED <<mode, stuck>>
    \/ mode' = other /\ stuck' = TRUE

\* try_mode, once it has drained.
SwitchMode ==
    /\ screen = "switching"
    /\ \/ /\ SetModeFails
          /\ Show("display")
          /\ UNCHANGED <<other, turns, carried>>
       \/ /\ screen' = "question"
          /\ queue' = Aged(queue) /\ held' = Aged(held) /\ UNCHANGED presses
          /\ mode' = other /\ other' = mode /\ turns' = 0
          /\ UNCHANGED <<carried, stuck>>
    /\ UNCHANGED <<under, gate>>

KeepMode ==
    /\ carried' = (carried \/ Head(queue).old)
    /\ Show("display")
    /\ UNCHANGED <<mode, other, turns, stuck>>

\* Mutant: the question is left without setting the old mode again.
LeaveMode ==
    /\ Show("display")
    /\ UNCHANGED <<mode, other, turns, carried, stuck>>

\* The old mode is set again, if the firmware will.
RevertMode ==
    /\ \/ mode' = other /\ UNCHANGED stuck
       \/ stuck' = TRUE /\ UNCHANGED mode
    /\ Show("display")
    /\ UNCHANGED <<other, turns, carried>>

\* Only A keeps the mode.
Answers == {"Select"}

\* Mutant: a press that is no answer starts the count again.
CountAgain == turns' = IF queue = <<>> THEN turns + 1 ELSE 0

Count == turns' = turns + 1

Lapsed == turns + 1 = Turns

\* One poll of confirm_mode: an answer, or a press that is none, or nothing.
QuestionTurn ==
    /\ screen = "question"
    /\ \/ /\ queue # <<>> /\ Head(queue).button \in Answers
          /\ KeepMode
       \/ /\ Reading("Cancel")
          /\ RevertMode
       \/ /\ queue # <<>> => Head(queue).button \notin Answers \cup {"Cancel"}
          /\ IF Lapsed
             THEN RevertMode
             ELSE /\ queue' = IF queue = <<>> THEN <<>> ELSE Tail(queue)
                  /\ Count
                  /\ UNCHANGED <<held, presses, screen, mode, other, carried, stuck>>
    /\ UNCHANGED <<under, gate>>

-----------------------------------------------------------------------------
Init ==
    /\ queue = <<>>
    /\ held = <<>>
    /\ presses = 0
    /\ screen = "page"
    /\ under = "page"
    /\ position = 0
    /\ mode \in Seen
    /\ other = mode
    /\ turns = 0
    /\ reads = <<>>
    /\ detour = FALSE
    /\ granted = <<>>
    /\ carried = FALSE
    /\ stuck = FALSE

Next ==
    \/ \E button \in Buttons : PressButton(button)
    \/ RepeatButton \/ ReleaseButton
    \/ MenuReads \/ PageReads \/ SequenceReads \/ MessageReads \/ DisplayReads \/ ResolutionsReads
    \/ SwitchMode \/ QuestionTurn

Spec == Init /\ [][Next]_vars

\* set_mode returns and confirm_mode polls on a timer, whatever is pressed.
Fairness == WF_vars(SwitchMode) /\ WF_vars(QuestionTurn)

FairSpec == Spec /\ Fairness

-----------------------------------------------------------------------------
(* Properties                                                              *)

\* The screens the display screen opens over.
Beneath == {"menu", "page", "sequence", "message"}

\* Every variable keeps its type.
TypeOK ==
    /\ queue \in Seq(Press) /\ Len(queue) <= MaxQueue
    /\ held \in Seq(Press) /\ Len(held) <= 1
    /\ presses \in 0..MaxPresses
    /\ screen \in Beneath \cup {"display", "resolutions", "switching", "question"}
    /\ under \in Beneath
    /\ position \in 0..(Len(ConfirmSequence) - 1)
    /\ mode \in Modes /\ other \in Modes
    /\ turns \in 0..(Turns - 1)
    /\ reads \in Seq(Press) /\ granted \in Seq(Press)
    /\ detour \in BOOLEAN /\ carried \in BOOLEAN /\ stuck \in BOOLEAN

\* "Five specific presses in order", "a buffered burst of repeats cannot walk
\* through it": a write is authorised by exactly the sequence, with nothing else
\* pressed in between, and if View was not pressed in between by presses made
\* while its screen was up; only the first may be a button held down since before.
WriteIsAuthorised ==
    granted # <<>> =>
        /\ [i \in DOMAIN granted |-> granted[i].button] = ConfirmSequence
        /\ ~detour => \A i \in 2..Len(granted) : ~granted[i].old

\* "Every way this can go wrong ends with a picture somebody can read": but for
\* a firmware that will not go back and a button held since before the question,
\* a mode the panel does not show is in force only while the question is asked.
PictureReadable == screen # "question" /\ ~stuck /\ ~carried => mode \in Seen

\* "Silence has to count as a no": the question always ends, even with a button
\* held down that is no answer.
QuestionEnds == screen = "question" ~> screen # "question"

\* What ui/mod.rs says of the sequence, that it "depends only on discrete
\* presses": the press that completes it was made on its screen.
LastPressIsDiscrete == granted # <<>> => ~granted[Len(granted)].old

=============================================================================
