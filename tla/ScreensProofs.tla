---------------------------- MODULE ScreensProofs ----------------------------
(***************************************************************************)
(* What the consent screens of Screens promise, for any modes, any buffer  *)
(* and any number of presses: a write is authorised by the whole sequence, *)
(* entered on its screen, and a mode nobody can see is not kept.           *)
(*                                                                         *)
(* Neither promise is inductive.  The first speaks of the presses granted, *)
(* which were read, buffered and held down before: GateInv follows them    *)
(* from the button to the grant, and says of every screen the display      *)
(* screen was opened over what it left behind.  The second needs that a    *)
(* mode in question was entered from one that can be seen, and that        *)
(* nothing was pressed since by someone who sees nothing.                  *)
(***************************************************************************)
EXTENDS Screens, TLAPS

\* The screen that counts: the display screen and what it opens lie over it.
Base == IF screen \in Beneath THEN screen ELSE under

\* An old press is only preceded by others of the same button: a button held
\* since before, and let go of once.
OldFirst(events) ==
    \A i, j \in DOMAIN events : i < j /\ events[j].old => events[i] = events[j]

\* The presses of the sequence's screen, from the first read to the one held.
Stream == reads \o queue \o held

\* The last reads are the part of the sequence that has been entered.
Entered(events, n) ==
    /\ n <= Len(events)
    /\ \A i \in 1..n : events[Len(events) - n + i].button = ConfirmSequence[i]

Granted ==
    /\ Len(granted) = 5
    /\ \A i \in 1..5 : granted[i].button = ConfirmSequence[i]
    /\ ~detour => \A i \in 2..5 : ~granted[i].old

GateInv ==
    /\ Len(reads) <= 5 /\ Entered(reads, position)
    /\ Base \in {"menu", "page"} => reads = <<>> /\ position = 0 /\ ~detour
    /\ Base = "sequence" => granted = <<>>
    /\ Base = "sequence" /\ screen # "sequence" => detour
    /\ screen = "sequence" /\ ~detour => OldFirst(Stream)
    /\ granted # <<>> => Base = "message" /\ Granted

\* A mode that cannot be seen is in force only while it is in question.
SightInv ==
    ~stuck /\ ~carried =>
        /\ screen # "question" => mode \in Seen
        /\ screen = "question" =>
             /\ other \in Seen
             /\ mode \notin Seen => \A i \in DOMAIN queue : queue[i].old
             /\ mode \notin Seen => \A i \in DOMAIN held : held[i].old

-----------------------------------------------------------------------------
(* Types                                                                   *)

LEMMA AgedTyped ==
    ASSUME NEW events \in Seq(Press)
    PROVE  /\ Aged(events) \in Seq(Press) /\ Len(Aged(events)) = Len(events)
           /\ \A i \in DOMAIN events : /\ Aged(events)[i].old
                                       /\ Aged(events)[i].button = events[i].button
<1>1. \A i \in 1..Len(events) : [events[i] EXCEPT !.old = TRUE] \in Press
  <2>1. \A e \in Press : [e EXCEPT !.old = TRUE] \in Press
    BY DEF Press
  <2> QED
    BY <2>1
<1>2. Aged(events) = [i \in 1..Len(events) |-> [events[i] EXCEPT !.old = TRUE]]
  BY DEF Aged
<1>3. Aged(events) \in Seq(Press) /\ Len(Aged(events)) = Len(events)
  BY <1>1, <1>2
<1>4. \A i \in 1..Len(events) : events[i] \in Press
  OBVIOUS
<1> QED
  BY <1>2, <1>3, <1>4 DEF Press

\* A screen that is put up finds an empty buffer.
LEMMA ShowTyped ==
    ASSUME held \in Seq(Press), Len(held) <= 1, NEW name, Show(name)
    PROVE  /\ screen' = name /\ presses' = presses
           /\ queue' = <<>> /\ queue' \in Seq(Press) /\ Len(queue') <= MaxQueue
           /\ held' = Aged(held) /\ held' \in Seq(Press) /\ Len(held') <= 1
BY AgedTyped, PressesAssumption DEF Show, TypeOK

LEMMA ConsumeTyped ==
    ASSUME queue \in Seq(Press), Len(queue) <= MaxQueue, queue # <<>>
    PROVE  /\ Head(queue) \in Press /\ Tail(queue) \in Seq(Press)
           /\ Len(Tail(queue)) <= MaxQueue
BY PressesAssumption

LEMMA SequenceIs ==
    /\ Len(ConfirmSequence) = 5
    /\ 0..(Len(ConfirmSequence) - 1) = 0..4
    /\ \A i \in 1..5 : ConfirmSequence[i] \in Input
    /\ \A i \in 2..5 : ConfirmSequence[i] # ConfirmSequence[i - 1]
BY DEF ConfirmSequence, Input

LEMMA AfterPressTyped ==
    ASSUME NEW button, position \in 0..4
    PROVE  AfterPress(button) \in 0..5
BY DEF AfterPress

LEMMA RememberedTyped ==
    ASSUME reads \in Seq(Press), NEW event \in Press
    PROVE  Remembered(event) \in Seq(Press)
<1> DEFINE longer == Append(reads, event)
<1>1. longer \in Seq(Press)
  OBVIOUS
<1>2. CASE Len(reads) < 5
  BY <1>1, <1>2 DEF Remembered
<1>3. CASE ~(Len(reads) < 5)
  <2>1. PICK n \in Nat : n = Len(longer)
    BY <1>1
  <2>2. n >= 5
    <3>1. PICK m \in Nat : m = Len(reads)
      OBVIOUS
    <3>2. n = m + 1 /\ ~(m < 5)
      BY <1>3, <2>1, <3>1
    <3> QED
      BY <3>1, <3>2
  <2>3. SubSeq(longer, n - 4, n) \in Seq(Press)
    BY <1>1, <2>1, <2>2
  <2> QED
    BY <1>3, <2>1, <2>3 DEF Remembered, LastFive
<1> QED
  BY <1>2, <1>3

LEMMA RememberedIs ==
    ASSUME reads \in Seq(Press), Len(reads) <= 5, NEW event \in Press
    PROVE  /\ Len(Remembered(event)) <= 5 /\ Len(Remembered(event)) >= 1
           /\ Len(reads) >= 4 => Len(Remembered(event)) = 5
           /\ \E skipped \in {0, 1} :
                /\ Len(Remembered(event)) + skipped = Len(reads) + 1
                /\ \A i \in 1..Len(Remembered(event)) :
                     Remembered(event)[i] = Append(reads, event)[i + skipped]
<1> DEFINE longer == Append(reads, event)
<1>0. PICK n \in Nat : n = Len(reads)
  OBVIOUS
<1>1. longer \in Seq(Press) /\ Len(longer) = Len(reads) + 1
  OBVIOUS
<1>2. CASE Len(reads) < 5
  <2>1. Remembered(event) = longer /\ Len(longer) = n + 1 /\ n < 5
    BY <1>0, <1>1, <1>2 DEF Remembered
  <2>2. Len(longer) <= 5 /\ Len(longer) >= 1 /\ (n >= 4 => Len(longer) = 5)
    BY <2>1
  <2> QED
    BY <1>0, <1>1, <2>1, <2>2
<1>3. CASE ~(Len(reads) < 5)
  <2>1. Len(reads) = 5 /\ Len(longer) = 6
    <3>1. n <= 5 /\ ~(n < 5)
      BY <1>0, <1>3
    <3> HIDE DEF longer
    <3> QED
      BY <1>0, <1>1, <3>1
  <2>2. Remembered(event) = SubSeq(longer, 2, 6)
    BY <1>3, <2>1 DEF Remembered, LastFive
  <2>3. SubSeq(longer, 2, 6) \in Seq(Press) /\ Len(SubSeq(longer, 2, 6)) = 5
        /\ \A i \in 1..5 : SubSeq(longer, 2, 6)[i] = longer[i + 1]
    BY <1>1, <2>1
  <2> QED
    BY <2>1, <2>2, <2>3
<1> QED
  BY <1>2, <1>3
-----------------------------------------------------------------------------
(* The type invariant                                                      *)

\* The parts of TypeOK, by what reads and writes them.
KeysTyped ==
    /\ queue \in Seq(Press) /\ Len(queue) <= MaxQueue
    /\ held \in Seq(Press) /\ Len(held) <= 1
    /\ presses \in 0..MaxPresses
ScreenTyped ==
    /\ screen \in Beneath \cup {"display", "resolutions", "switching", "question"}
    /\ under \in Beneath
GateTyped ==
    /\ position \in 0..4
    /\ reads \in Seq(Press) /\ granted \in Seq(Press)
DisplayTyped ==
    /\ mode \in Modes /\ other \in Modes
    /\ turns \in 0..(Turns - 1)
FlagsTyped == detour \in BOOLEAN /\ carried \in BOOLEAN /\ stuck \in BOOLEAN

Typed == KeysTyped /\ ScreenTyped /\ GateTyped /\ DisplayTyped /\ FlagsTyped

LEMMA TypedIs == Typed <=> TypeOK
BY SequenceIs DEF Typed, TypeOK, KeysTyped, ScreenTyped, GateTyped, DisplayTyped, FlagsTyped

LEMMA KeysKept == KeysTyped /\ [Next]_vars => KeysTyped'
<1> SUFFICES ASSUME KeysTyped, [Next]_vars PROVE KeysTyped'
  OBVIOUS
<1>1. ASSUME NEW button \in Buttons, PressButton(button) PROVE KeysTyped'
  <2>1. [button |-> button, old |-> FALSE] \in Press
    BY ButtonsAssumption DEF Press
  <2>2. held' \in Seq(Press) /\ Len(held') = 1 /\ queue' \in Seq(Press)
        /\ Len(queue') = Len(queue) + 1
    BY <1>1, <2>1 DEF PressButton, KeysTyped
  <2> QED
    BY <1>1, <2>2, PressesAssumption DEF PressButton, KeysTyped
<1>2. CASE RepeatButton
  <2>1. queue' \in Seq(Press) /\ Len(queue') <= Len(queue) + 1
    BY <1>2 DEF RepeatButton, KeysTyped
  <2> QED
    BY <1>2, <2>1, PressesAssumption DEF RepeatButton, KeysTyped
<1>3. CASE ReleaseButton
  BY <1>3 DEF ReleaseButton, KeysTyped
<1>4. ASSUME NEW name, Show(name) PROVE KeysTyped'
  BY <1>4, ShowTyped DEF KeysTyped
<1>5. ASSUME queue # <<>>, queue' = Tail(queue), held' = held, presses' = presses
      PROVE  KeysTyped'
  BY <1>5, ConsumeTyped DEF KeysTyped
<1>6. CASE MenuReads \/ PageReads \/ MessageReads \/ SequenceReads \/ DisplayReads
           \/ ResolutionsReads
  <2>1. (\E name : Show(name)) \/ (queue # <<>> /\ Consume)
    <3>1. CASE MenuReads \/ PageReads \/ MessageReads
      BY <3>1 DEF MenuReads, PageReads, MessageReads, OpensDisplay, Reading
    <3>2. CASE SequenceReads
      BY <3>2 DEF SequenceReads, OpensDisplay, Authorise
    <3>3. CASE DisplayReads \/ ResolutionsReads
      BY <3>3 DEF DisplayReads, ResolutionsReads, Reading
    <3> QED
      BY <1>6, <3>1, <3>2, <3>3
  <2> QED
    BY <1>4, <1>5, <2>1 DEF Consume
<1>7. CASE SwitchMode
  <2>1. CASE Show("display")
    BY <1>4, <2>1
  <2>2. CASE queue' = Aged(queue) /\ held' = Aged(held) /\ presses' = presses
    BY <2>2, AgedTyped DEF KeysTyped
  <2> QED
    BY <1>7, <2>1, <2>2 DEF SwitchMode
<1>8. CASE QuestionTurn
  <2>1. CASE Show("display")
    BY <1>4, <2>1
  <2>2. CASE /\ queue' = IF queue = <<>> THEN <<>> ELSE Tail(queue)
             /\ UNCHANGED <<held, presses>>
    BY <1>5, <2>2 DEF KeysTyped
  <2> QED
    BY <1>8, <2>1, <2>2 DEF QuestionTurn, KeepMode, RevertMode
<1>9. CASE UNCHANGED vars
  BY <1>9 DEF vars, keys, KeysTyped
<1> QED
  BY <1>1, <1>2, <1>3, <1>6, <1>7, <1>8, <1>9 DEF Next

LEMMA ScreenKept == ScreenTyped /\ [Next]_vars => ScreenTyped'
BY DEF ScreenTyped, Next, PressButton, RepeatButton, ReleaseButton, MenuReads, PageReads,
       MessageReads, SequenceReads, DisplayReads, ResolutionsReads, SwitchMode, QuestionTurn,
       OpensDisplay, Consume, Authorise, KeepMode, RevertMode, Show, Beneath, vars

LEMMA GateKept == KeysTyped /\ GateTyped /\ [Next]_vars => GateTyped'
<1> SUFFICES ASSUME KeysTyped, GateTyped, [Next]_vars PROVE GateTyped'
  OBVIOUS
<1>1. CASE UNCHANGED gate
  BY <1>1 DEF gate, GateTyped
<1>2. CASE NoSequence /\ granted' \in {granted, <<>>}
  <2>1. <<>> \in Seq(Press)
    OBVIOUS
  <2>2. position' = 0 /\ reads' \in Seq(Press) /\ granted' \in Seq(Press)
    BY <1>2, <2>1, Zenon DEF NoSequence, GateTyped
  <2> QED
    BY <2>2 DEF GateTyped
<1>3. CASE SequenceReads
  <2>1. CASE NoSequence /\ granted' = granted
    BY <1>2, <2>1
  <2>2. CASE detour' = TRUE /\ UNCHANGED <<position, reads, granted>>
    BY <2>2 DEF GateTyped
  <2>3. CASE queue # <<>> /\ Head(queue).button \notin {"Cancel", "View"}
    <3>1. Head(queue) \in Press /\ AfterPress(Head(queue).button) \in 0..5
      BY <2>3, AfterPressTyped DEF KeysTyped, GateTyped
    <3>2. Remembered(Head(queue)) \in Seq(Press)
      BY <3>1, RememberedTyped DEF GateTyped
    <3>3. CASE AfterPress(Head(queue).button) = 5
      <4>1. Authorise
        BY <1>3, <2>3, <3>3, SequenceIs DEF SequenceReads, Reading, OpensDisplay
      <4> QED
        BY <3>2, <4>1 DEF Authorise, GateTyped
    <3>4. CASE AfterPress(Head(queue).button) # 5
      <4>1. AfterPress(Head(queue).button) \in 0..4
        BY <3>1, <3>4
      <4>2. /\ position' = AfterPress(Head(queue).button)
            /\ reads' = Remembered(Head(queue)) /\ granted' = granted
        BY <1>3, <2>3, <3>4, SequenceIs DEF SequenceReads, Reading, OpensDisplay
      <4> QED
        BY <3>2, <4>1, <4>2 DEF GateTyped
    <3> QED
      BY <3>3, <3>4
  <2> QED
    BY <1>3, <2>1, <2>2, <2>3 DEF SequenceReads
<1>4. UNCHANGED gate \/ (NoSequence /\ granted' \in {granted, <<>>}) \/ SequenceReads
  BY DEF Next, PressButton, RepeatButton, ReleaseButton, MenuReads, PageReads, MessageReads,
         DisplayReads, ResolutionsReads, SwitchMode, QuestionTurn, vars
<1> QED
  BY <1>1, <1>2, <1>3, <1>4

LEMMA DisplayKept == DisplayTyped /\ [Next]_vars => DisplayTyped'
<1> SUFFICES ASSUME DisplayTyped, [Next]_vars PROVE DisplayTyped'
  OBVIOUS
<1>1. CASE UNCHANGED display
  BY <1>1 DEF display, DisplayTyped
<1>2. CASE ResolutionsReads
  BY <1>2 DEF ResolutionsReads, DisplayTyped, display
<1>3. CASE SwitchMode
  BY <1>3, PressesAssumption DEF SwitchMode, SetModeFails, DisplayTyped
<1>4. CASE QuestionTurn
  <2>1. CASE KeepMode \/ RevertMode
    BY <2>1 DEF KeepMode, RevertMode, DisplayTyped
  <2>2. CASE ~Lapsed /\ Count /\ UNCHANGED <<mode, other, carried, stuck>>
    BY <2>2, PressesAssumption DEF Lapsed, Count, DisplayTyped
  <2> QED
    BY <1>4, <2>1, <2>2 DEF QuestionTurn
<1> QED
  BY <1>1, <1>2, <1>3, <1>4
     DEF Next, PressButton, RepeatButton, ReleaseButton, MenuReads, PageReads, MessageReads,
         SequenceReads, DisplayReads, vars, display

LEMMA FlagsKept == FlagsTyped /\ [Next]_vars => FlagsTyped'
BY Zenon
   DEF FlagsTyped, Next, PressButton, RepeatButton, ReleaseButton, MenuReads, PageReads,
       MessageReads, SequenceReads, DisplayReads, ResolutionsReads, SwitchMode, SetModeFails,
       QuestionTurn, NoSequence, Authorise, KeepMode, RevertMode, vars, gate, display

LEMMA TypedHolds == Spec => []Typed
<1>1. Init => Typed
  <2> SUFFICES ASSUME Init PROVE Typed
    OBVIOUS
  <2>1. KeysTyped
    BY PressesAssumption DEF Init, KeysTyped
  <2>2. ScreenTyped /\ GateTyped
    BY DEF Init, ScreenTyped, GateTyped, Beneath
  <2>3. DisplayTyped
    BY ModesAssumption, PressesAssumption DEF Init, DisplayTyped
  <2>4. FlagsTyped
    BY DEF Init, FlagsTyped
  <2> QED
    BY <2>1, <2>2, <2>3, <2>4 DEF Typed
<1>2. Typed /\ [Next]_vars => Typed'
  BY KeysKept, ScreenKept, GateKept, DisplayKept, FlagsKept DEF Typed
<1> QED
  BY <1>1, <1>2, PTL DEF Spec

\* Type correctness: the firmware's buffer, the sequence and the count of polls
\* keep their bounds.
THEOREM ScreensTyped == Spec => []TypeOK
BY TypedHolds, TypedIs, PTL

-----------------------------------------------------------------------------
(* A write is authorised by the sequence                                   *)

\* What a stream that is shortened or drawn out by its last press may not lose.
LEMMA OldFirstRest ==
    ASSUME NEW s \in Seq(Press), NEW t \in Seq(Press), OldFirst(s), NEW k \in {0, 1},
           Len(t) + k <= Len(s), \A i \in 1..Len(t) : t[i] = s[i + k]
    PROVE  OldFirst(t)
<1> SUFFICES ASSUME NEW i \in 1..Len(t), NEW j \in 1..Len(t), i < j, t[j].old
             PROVE  t[i] = t[j]
  BY DEF OldFirst
<1>1. i + k \in 1..Len(s) /\ j + k \in 1..Len(s) /\ i + k < j + k
  OBVIOUS
<1>2. t[i] = s[i + k] /\ t[j] = s[j + k]
  OBVIOUS
<1> QED
  BY <1>1, <1>2 DEF OldFirst

LEMMA OldFirstAppend ==
    ASSUME NEW s \in Seq(Press), OldFirst(s), NEW e \in Press,
           ~e.old \/ (Len(s) > 0 /\ e = s[Len(s)])
    PROVE  OldFirst(Append(s, e))
<1> DEFINE t == Append(s, e)
<1> SUFFICES ASSUME NEW i \in 1..Len(t), NEW j \in 1..Len(t), i < j, t[j].old
             PROVE  t[i] = t[j]
  BY DEF OldFirst
<1>1. Len(t) = Len(s) + 1 /\ t[Len(s) + 1] = e /\ \A n \in 1..Len(s) : t[n] = s[n]
  OBVIOUS
<1>2. PICK m \in Nat : m = Len(s)
  OBVIOUS
<1>3. i \in 1..m
  BY <1>1, <1>2
<1>4. CASE j \in 1..m
  <2>1. t[i] = s[i] /\ t[j] = s[j] /\ i \in 1..Len(s) /\ j \in 1..Len(s)
    BY <1>1, <1>2, <1>3, <1>4
  <2> QED
    BY <2>1 DEF OldFirst
<1>5. CASE j \notin 1..m
  <2>1. j = m + 1
    BY <1>1, <1>2, <1>5
  <2>2. e.old /\ m > 0 /\ e = s[m]
    BY <1>1, <1>2, <2>1
  <2>3. CASE i = m
    BY <1>1, <1>2, <1>3, <2>1, <2>2, <2>3
  <2>4. CASE i # m
    <3>1. i \in 1..m /\ m \in 1..m /\ i < m
      BY <1>2, <1>3, <2>2, <2>4
    <3>2. s[i] = s[m]
      BY <1>2, <2>2, <3>1 DEF OldFirst
    <3> QED
      BY <1>1, <1>2, <2>1, <2>2, <3>1, <3>2
  <2> QED
    BY <2>3, <2>4
<1> QED
  BY <1>4, <1>5

LEMMA OldFirstFresh ==
    ASSUME NEW s \in Seq(Press), OldFirst(s), NEW e \in Press, ~e.old
    PROVE  Append(s, e) \in Seq(Press) /\ OldFirst(Append(s, e))
<1>0. ~e.old \/ (Len(s) > 0 /\ e = s[Len(s)])
  OBVIOUS
<1>1. OldFirst(Append(s, e))
  BY <1>0, OldFirstAppend, Zenon
<1> QED
  BY <1>1

LEMMA SeqOfOne ==
    ASSUME NEW h \in Seq(Press), Len(h) <= 1, h # <<>>
    PROVE  \E e \in Press : h = <<e>>
<1>1. PICK n \in Nat : n = Len(h)
  OBVIOUS
<1>2. n = 1
  <2>1. n # 0
    BY <1>1
  <2> QED
    BY <1>1, <2>1
<1>3. h[1] \in Press /\ h \in [1..1 -> Press]
  <2>1. h \in [1..n -> Press]
    BY <1>1
  <2> QED
    BY <1>2, <2>1
<1>4. h = [i \in 1..1 |-> h[1]]
  BY <1>3
<1>5. \A x : <<x>> = [i \in 1..1 |-> x]
  OBVIOUS
<1> QED
  BY <1>3, <1>4, <1>5

\* How the buttons and the screen that reads them change the stream.
LEMMA StreamPressed ==
    ASSUME NEW r \in Seq(Press), NEW q \in Seq(Press), NEW e \in Press
    PROVE  (r \o (q \o <<e>>)) \o <<e>> = Append(Append((r \o q) \o <<>>, e), e)
<1>1. (r \o q) \o <<>> = r \o q /\ r \o q \in Seq(Press)
  OBVIOUS
<1>2. r \o (q \o <<e>>) = Append(r \o q, e)
  OBVIOUS
<1>3. \A s \in Seq(Press) : s \o <<e>> = Append(s, e)
  OBVIOUS
<1>4. Append(r \o q, e) \in Seq(Press)
  BY <1>1
<1> QED
  BY <1>1, <1>2, <1>3, <1>4

LEMMA StreamRepeated ==
    ASSUME NEW r \in Seq(Press), NEW q \in Seq(Press), NEW e \in Press
    PROVE  (r \o (q \o <<e>>)) \o <<e>> = Append((r \o q) \o <<e>>, e)
OBVIOUS

LEMMA StreamReleased ==
    ASSUME NEW r \in Seq(Press), NEW q \in Seq(Press), NEW h \in Seq(Press)
    PROVE  /\ (r \o q) \o h \in Seq(Press) /\ (r \o q) \o <<>> \in Seq(Press)
           /\ Len((r \o q) \o <<>>) <= Len((r \o q) \o h)
           /\ \A i \in 1..Len((r \o q) \o <<>>) : ((r \o q) \o <<>>)[i] = ((r \o q) \o h)[i]
OBVIOUS

LEMMA StreamRead ==
    ASSUME NEW r \in Seq(Press), NEW q \in Seq(Press), NEW h \in Seq(Press), q # <<>>
    PROVE  (Append(r, Head(q)) \o Tail(q)) \o h = (r \o q) \o h
OBVIOUS

\* The part of the sequence that is entered ends with the press just read.
LEMMA EnteredOn ==
    ASSUME GateTyped, Len(reads) <= 5, Entered(reads, position), NEW event \in Press
    PROVE  Entered(Remembered(event), AfterPress(event.button))
<1> DEFINE now == Remembered(event)
           longer == Append(reads, event)
<1>1. PICK n \in Nat : n = Len(reads)
  BY DEF GateTyped
<1>2. PICK skipped \in {0, 1} : /\ Len(now) + skipped = Len(reads) + 1
                                /\ \A i \in 1..Len(now) : now[i] = longer[i + skipped]
  BY RememberedIs DEF GateTyped
<1>3. now \in Seq(Press)
  BY RememberedTyped DEF GateTyped
<1>4. PICK m \in Nat : m = Len(now)
  BY <1>3
<1>5. m + skipped = n + 1 /\ n <= 5 /\ position \in 0..4 /\ position <= n
  BY <1>1, <1>2, <1>4 DEF GateTyped, Entered
<1>6. longer[n + 1] = event /\ \A i \in 1..n : longer[i] = reads[i]
  BY <1>1 DEF GateTyped
<1>7. CASE event.button = ConfirmSequence[position + 1]
  <2>1. AfterPress(event.button) = position + 1
    BY <1>7 DEF AfterPress
  <2>2. position + 1 <= m
    <3>1. n < 5 => m = n + 1
      <4>1. n < 5 => now = longer
        BY <1>1 DEF Remembered
      <4>2. Len(longer) = n + 1
        BY <1>1 DEF GateTyped
      <4> QED
        BY <1>4, <4>1, <4>2
    <3> QED
      BY <1>5, <3>1
  <2>3. ASSUME NEW i \in 1..(position + 1)
        PROVE  now[m - (position + 1) + i].button = ConfirmSequence[i]
    <3>1. m - (position + 1) + i \in 1..m
      BY <1>5, <2>2
    <3>2. now[m - (position + 1) + i] = longer[n - position + i]
      <4>1. m - (position + 1) + i + skipped = n - position + i
        BY <1>5
      <4> QED
        BY <1>2, <1>4, <3>1, <4>1
    <3>3. CASE i = position + 1
      <4>1. n - position + i = n + 1
        BY <1>5, <3>3
      <4> QED
        BY <1>6, <1>7, <3>2, <3>3, <4>1
    <3>4. CASE i # position + 1
      <4>1. i \in 1..position /\ n - position + i \in 1..n
        BY <1>5, <3>4
      <4>2. longer[n - position + i] = reads[n - position + i]
        BY <1>6, <4>1
      <4> QED
        BY <1>1, <3>2, <4>1, <4>2 DEF Entered
    <3> QED
      BY <3>3, <3>4
  <2> QED
    BY <1>4, <2>1, <2>2, <2>3 DEF Entered
<1>8. CASE event.button # ConfirmSequence[position + 1] /\ event.button = ConfirmSequence[1]
  <2>1. AfterPress(event.button) = 1
    BY <1>8 DEF AfterPress
  <2>2. m \in 1..m /\ m >= 1
    BY <1>1, <1>4, RememberedIs DEF GateTyped
  <2>3. now[m] = event
    BY <1>2, <1>4, <1>5, <1>6, <2>2
  <2>4. m - 1 + 1 = m
    BY <1>4
  <2> QED
    BY <1>4, <1>8, <2>1, <2>2, <2>3, <2>4 DEF Entered
<1>9. CASE event.button # ConfirmSequence[position + 1] /\ event.button # ConfirmSequence[1]
  <2>1. AfterPress(event.button) = 0
    BY <1>9 DEF AfterPress
  <2> QED
    BY <1>4, <2>1 DEF Entered
<1> QED
  BY <1>7, <1>8, <1>9

LEMMA SameSequence ==
    ASSUME NEW a \in Seq(Press), NEW b \in Seq(Press), Len(a) = Len(b),
           \A i \in 1..Len(a) : a[i] = b[i]
    PROVE  a = b
<1>1. a = [i \in 1..Len(a) |-> a[i]] /\ b = [i \in 1..Len(b) |-> b[i]]
  OBVIOUS
<1> QED
  BY <1>1

\* Dropping the head of what is in front drops the head of the whole.
LEMMA TailConcat ==
    ASSUME NEW r \in Seq(Press), NEW q \in Seq(Press), NEW h \in Seq(Press), r # <<>>
    PROVE  /\ (Tail(r) \o q) \o h = Tail((r \o q) \o h)
           /\ (r \o q) \o h \in Seq(Press) /\ (r \o q) \o h # <<>>
<1>1. ASSUME NEW s \in Seq(Press), NEW t \in Seq(Press), s # <<>>
      PROVE  Tail(s) \o t = Tail(s \o t) /\ s \o t # <<>>
  <2> PICK n, m \in Nat : n = Len(s) /\ m = Len(t)
    OBVIOUS
  <2>1. n > 0
    BY <1>1
  <2>2. s \o t \in Seq(Press) /\ Len(s \o t) = n + m
    OBVIOUS
  <2>3. \A i \in 1..(n + m) : (s \o t)[i] = IF i <= n THEN s[i] ELSE t[i - n]
    OBVIOUS
  <2>4. s \o t # <<>>
    BY <2>1, <2>2
  <2>5. /\ Tail(s) \in Seq(Press) /\ Len(Tail(s)) = n - 1
        /\ \A i \in 1..(n - 1) : Tail(s)[i] = s[i + 1]
    BY <1>1, <2>1
  <2>6. /\ Tail(s \o t) \in Seq(Press) /\ Len(Tail(s \o t)) = n + m - 1
        /\ \A i \in 1..(n + m - 1) : Tail(s \o t)[i] = (s \o t)[i + 1]
    <3> PICK w \in Seq(Press) : w = s \o t
      BY <2>2
    <3> QED
      BY <2>1, <2>2, <2>4
  <2>7. /\ Tail(s) \o t \in Seq(Press) /\ Len(Tail(s) \o t) = n + m - 1
        /\ \A i \in 1..(n + m - 1) :
             (Tail(s) \o t)[i] = IF i <= n - 1 THEN Tail(s)[i] ELSE t[i - (n - 1)]
    <3> PICK w \in Seq(Press) : w = Tail(s)
      BY <2>5
    <3> QED
      BY <2>1, <2>5
  <2>8. ASSUME NEW i \in 1..(n + m - 1) PROVE (Tail(s) \o t)[i] = Tail(s \o t)[i]
    <3>1. i + 1 \in 1..(n + m) /\ (i <= n - 1 => i \in 1..(n - 1)) /\ i - (n - 1) = (i + 1) - n
          /\ (i <= n - 1 <=> i + 1 <= n)
      OBVIOUS
    <3> QED
      BY <2>3, <2>5, <2>6, <2>7, <3>1
  <2> QED
    BY <2>4, <2>6, <2>7, <2>8, SameSequence
<1>2. r \o q \in Seq(Press) /\ (r \o q) \o h \in Seq(Press)
  OBVIOUS
<1>3. Tail(r) \o q = Tail(r \o q) /\ r \o q # <<>>
  BY <1>1
<1>4. Tail(r \o q) \o h = Tail((r \o q) \o h) /\ (r \o q) \o h # <<>>
  BY <1>1, <1>2, <1>3
<1> QED
  BY <1>2, <1>3, <1>4

LEMMA OldFirstTail ==
    ASSUME NEW s \in Seq(Press), OldFirst(s), s # <<>>
    PROVE  OldFirst(Tail(s))
<1>1. /\ Tail(s) \in Seq(Press) /\ Len(Tail(s)) + 1 <= Len(s)
      /\ \A i \in 1..Len(Tail(s)) : Tail(s)[i] = s[i + 1]
  OBVIOUS
<1> QED
  BY <1>1, OldFirstRest

LEMMA OldFirstTailConcat ==
    ASSUME NEW r \in Seq(Press), NEW q \in Seq(Press), NEW h \in Seq(Press), r # <<>>,
           OldFirst((r \o q) \o h)
    PROVE  OldFirst((Tail(r) \o q) \o h)
<1> DEFINE s == (r \o q) \o h
<1>1. (Tail(r) \o q) \o h = Tail(s) /\ s \in Seq(Press) /\ s # <<>> /\ OldFirst(s)
  BY TailConcat
<1> HIDE DEF s
<1>2. OldFirst(Tail(s))
  BY <1>1, OldFirstTail
<1> QED
  BY <1>1, <1>2

\* What is remembered of the reads: all of them, or all but the first.
LEMMA RememberedAll ==
    ASSUME reads \in Seq(Press), Len(reads) <= 5, NEW event \in Press
    PROVE  \/ Remembered(event) = Append(reads, event)
           \/ Remembered(event) = Tail(Append(reads, event))
<1> DEFINE longer == Append(reads, event)
           now == Remembered(event)
<1>1. longer \in Seq(Press) /\ now \in Seq(Press) /\ Tail(longer) \in Seq(Press)
  <2>1. longer \in Seq(Press) /\ longer # <<>>
    OBVIOUS
  <2> QED
    BY <2>1, RememberedTyped
<1>2. PICK skipped \in {0, 1} : /\ Len(now) + skipped = Len(reads) + 1
                                /\ \A i \in 1..Len(now) : now[i] = longer[i + skipped]
  BY RememberedIs
<1>3. Len(longer) = Len(reads) + 1 /\ Len(Tail(longer)) = Len(reads)
      /\ \A i \in 1..Len(Tail(longer)) : Tail(longer)[i] = longer[i + 1]
  OBVIOUS
<1>4. ASSUME NEW a \in Seq(Press), NEW b \in Seq(Press), Len(a) = Len(b),
             \A i \in 1..Len(a) : a[i] = b[i]
      PROVE  a = b
  BY <1>4
<1> HIDE DEF longer, now
<1>5. CASE skipped = 0
  BY <1>1, <1>2, <1>3, <1>4, <1>5 DEF longer, now
<1>6. CASE skipped = 1
  BY <1>1, <1>2, <1>3, <1>4, <1>6 DEF longer, now
<1> QED
  BY <1>5, <1>6

\* The stream of old presses first stays so when its head is read.
LEMMA StreamReadOn ==
    ASSUME KeysTyped, GateTyped, Len(reads) <= 5, queue # <<>>, OldFirst(Stream)
    PROVE  OldFirst((Remembered(Head(queue)) \o Tail(queue)) \o held)
<1> DEFINE e == Head(queue)
           longer == Append(reads, e)
<1>1. e \in Press /\ Tail(queue) \in Seq(Press) /\ held \in Seq(Press) /\ reads \in Seq(Press)
      /\ queue \in Seq(Press)
  BY ConsumeTyped DEF KeysTyped, GateTyped
<1>2. longer \in Seq(Press) /\ longer # <<>>
  <2>1. longer \in Seq(Press) /\ Len(longer) = Len(reads) + 1 /\ Len(reads) \in Nat
    BY <1>1
  <2>2. longer # <<>>
    <3> HIDE DEF longer
    <3> QED
      BY <2>1
  <2> QED
    BY <2>1, <2>2
<1>3. OldFirst((longer \o Tail(queue)) \o held)
  BY <1>1, StreamRead DEF Stream
<1>4. OldFirst((Tail(longer) \o Tail(queue)) \o held)
  <2>1. Tail(queue) \in Seq(Press)
    BY <1>1
  <2> HIDE DEF longer
  <2> QED
    BY <1>1, <1>2, <1>3, <2>1, OldFirstTailConcat
<1>5. Remembered(e) \in {longer, Tail(longer)}
  BY <1>1, RememberedAll
<1> QED
  BY <1>3, <1>4, <1>5

\* What the last press grants.
LEMMA GrantsSequence ==
    ASSUME KeysTyped, GateTyped, GateInv, screen = "sequence", queue # <<>>,
           AfterPress(Head(queue).button) = 5, granted' = Remembered(Head(queue)), detour' = detour
    PROVE  Granted'
<1> DEFINE e == Head(queue)
           now == Remembered(e)
<1>1. e \in Press /\ reads \in Seq(Press) /\ queue \in Seq(Press) /\ held \in Seq(Press)
  BY ConsumeTyped DEF KeysTyped, GateTyped
<1>2. now \in Seq(Press)
  BY <1>1, RememberedTyped
<1>3. Len(reads) <= 5 /\ Entered(reads, position) /\ position \in 0..4
  BY DEF GateInv, GateTyped
<1>4. Len(now) <= 5 /\ Entered(now, 5)
  BY <1>1, <1>3, EnteredOn, RememberedIs
<1>5. PICK m \in Nat : m = Len(now)
  BY <1>2
<1>6. m = 5
  <2>1. m <= 5 /\ 5 <= m
    BY <1>4, <1>5 DEF Entered
  <2> QED
    BY <2>1
<1>7. \A i \in 1..5 : now[i].button = ConfirmSequence[i]
  <2>1. \A i \in 1..5 : m - 5 + i = i
    BY <1>6
  <2> QED
    BY <1>4, <1>5, <2>1 DEF Entered
<1>8. ASSUME ~detour, NEW i \in 2..5 PROVE ~now[i].old
  <2>1. OldFirst(now \o Tail(queue) \o held)
    BY <1>3, <1>8, StreamReadOn DEF GateInv
  <2>2. OldFirst(now)
    <3>1. Tail(queue) \in Seq(Press)
      BY <1>1
    <3>2. ASSUME NEW a \in Seq(Press), NEW b \in Seq(Press), NEW c \in Seq(Press),
                 OldFirst((a \o b) \o c)
          PROVE  OldFirst(a)
      <4>1. (a \o b) \o c \in Seq(Press) /\ Len(a) + 0 <= Len((a \o b) \o c)
            /\ \A j \in 1..Len(a) : a[j] = ((a \o b) \o c)[j + 0]
        OBVIOUS
      <4> QED
        BY <3>2, <4>1, OldFirstRest
    <3> HIDE DEF now
    <3> QED
      BY <1>1, <1>2, <2>1, <3>1, <3>2
  <2>3. i - 1 \in 1..5 /\ i \in 1..5 /\ i - 1 < i
    OBVIOUS
  <2>4. now[i].old => now[i - 1] = now[i]
    <3>1. DOMAIN now = 1..5
      BY <1>2, <1>5, <1>6
    <3> HIDE DEF now
    <3> QED
      BY <2>2, <2>3, <3>1 DEF OldFirst
  <2>5. now[i - 1].button # now[i].button
    BY <1>7, <2>3, SequenceIs
  <2> QED
    BY <2>4, <2>5
<1> QED
  BY <1>5, <1>6, <1>7, <1>8 DEF Granted

\* Where the reads and what they granted are left alone.
LEMMA GateRests ==
    ASSUME GateInv, UNCHANGED gate, Base' = Base,
           Base = "sequence" /\ screen' # "sequence" => detour,
           screen' = "sequence" /\ ~detour => OldFirst(Stream')
    PROVE  GateInv'
<1>1. reads' = reads /\ position' = position /\ detour' = detour /\ granted' = granted
  BY DEF gate
<1>2. Entered(reads, position)' /\ (Granted => Granted')
  BY <1>1 DEF GateInv, Entered, Granted
<1> QED
  BY <1>1, <1>2 DEF GateInv

\* Putting a screen up leaves one press at most.
LEMMA ShowOldFirst ==
    ASSUME KeysTyped, NEW name, Show(name), reads' = <<>>
    PROVE  OldFirst(Stream')
<1>1. queue' = <<>> /\ held' \in Seq(Press) /\ Len(held') <= 1
  BY ShowTyped DEF KeysTyped
<1>2. ASSUME NEW h \in Seq(Press) PROVE (<<>> \o <<>>) \o h = h
  OBVIOUS
<1>3. Stream' = held'
  BY <1>1, <1>2 DEF Stream
<1> QED
  BY <1>1, <1>3 DEF OldFirst

LEMMA ButtonsKeepGate ==
    ASSUME Typed, GateInv,
           \/ \E button \in Buttons : PressButton(button)
           \/ RepeatButton
           \/ ReleaseButton
    PROVE  GateInv'
<1>1. reads \in Seq(Press) /\ queue \in Seq(Press) /\ held \in Seq(Press) /\ Len(held) <= 1
  BY DEF Typed, KeysTyped, GateTyped
<1>2. UNCHANGED gate /\ screen' = screen /\ Base' = Base
  BY DEF PressButton, RepeatButton, ReleaseButton, Base
<1>3. ASSUME OldFirst(Stream) PROVE OldFirst(Stream')
  <2>0. Stream \in Seq(Press)
    BY <1>1, StreamReleased DEF Stream
  <2>1. ASSUME NEW button \in Buttons, PressButton(button) PROVE OldFirst(Stream')
    <3> DEFINE e == [button |-> button, old |-> FALSE]
               once == Append(Stream, e)
    <3>1. e \in Press /\ ~e.old
      BY ButtonsAssumption DEF Press
    <3>2. held = <<>> /\ held' = <<e>> /\ queue' = queue \o <<e>> /\ reads' = reads
      BY <2>1 DEF PressButton, gate
    <3> HIDE DEF e
    <3>3. once \in Seq(Press) /\ OldFirst(once)
      BY <1>3, <2>0, <3>1, OldFirstFresh
    <3> HIDE DEF once
    <3>4. OldFirst(Append(once, e))
      BY <3>1, <3>3, OldFirstFresh
    <3>5. Stream' = Append(once, e)
      BY <1>1, <3>1, <3>2, StreamPressed DEF Stream, once
    <3> QED
      BY <3>4, <3>5
  <2>2. CASE RepeatButton
    <3>1. PICK e \in Press : held = <<e>>
      <4>1. held # <<>>
        BY <2>2 DEF RepeatButton
      <4> QED
        BY <1>1, <4>1, SeqOfOne
    <3>2. queue' = queue \o <<e>> /\ held' = <<e>> /\ reads' = reads
      BY <2>2, <3>1 DEF RepeatButton, gate
    <3>3. ASSUME NEW r \in Seq(Press), NEW q \in Seq(Press), NEW x \in Press
          PROVE  Len((r \o q) \o <<x>>) > 0
                 /\ x = ((r \o q) \o <<x>>)[Len((r \o q) \o <<x>>)]
      OBVIOUS
    <3>4. Len(Stream) > 0 /\ e = Stream[Len(Stream)]
      BY <1>1, <3>1, <3>3 DEF Stream
    <3>5. OldFirst(Append(Stream, e))
      BY <1>3, <2>0, <3>4, OldFirstAppend
    <3>6. Stream' = Append(Stream, e)
      BY <1>1, <3>1, <3>2, StreamRepeated DEF Stream
    <3> QED
      BY <3>5, <3>6
  <2>3. CASE ReleaseButton
    <3> DEFINE t == (reads \o queue) \o <<>>
    <3>1. Stream' = t
      BY <2>3 DEF ReleaseButton, gate, Stream
    <3>2. t \in Seq(Press) /\ Len(t) <= Len(Stream) /\ \A i \in 1..Len(t) : t[i] = Stream[i]
      BY <1>1, StreamReleased DEF Stream
    <3>3. ASSUME NEW a \in Seq(Press), NEW b \in Seq(Press), OldFirst(b),
                 Len(a) <= Len(b), \A i \in 1..Len(a) : a[i] = b[i]
          PROVE  OldFirst(a)
      <4>1. Len(a) + 0 <= Len(b) /\ \A i \in 1..Len(a) : a[i] = b[i + 0]
        BY <3>3
      <4> QED
        BY <3>3, <4>1, OldFirstRest
    <3> HIDE DEF t
    <3> QED
      BY <1>3, <2>0, <3>1, <3>2, <3>3
  <2> QED
    BY <2>1, <2>2, <2>3
<1>4. screen' = "sequence" /\ ~detour => OldFirst(Stream')
  BY <1>2, <1>3 DEF GateInv
<1> QED
  BY <1>2, <1>4, GateRests DEF GateInv

LEMMA MenusKeepGate ==
    ASSUME Typed, GateInv, MenuReads \/ PageReads PROVE GateInv'
<1>1. screen \in {"menu", "page"} /\ Base = screen /\ screen # "sequence"
  BY DEF MenuReads, PageReads, Base, Beneath
<1>2. reads = <<>> /\ position = 0 /\ ~detour /\ granted = <<>> /\ UNCHANGED gate
  BY <1>1 DEF GateInv, MenuReads, PageReads
<1>3. CASE Base' \in {"menu", "page"} /\ screen' # "sequence"
  BY <1>2, <1>3 DEF GateInv, gate, Entered
<1>4. CASE Show("sequence")
  <2>1. screen' = "sequence" /\ Base' = "sequence" /\ OldFirst(Stream')
    BY <1>2, <1>4, ShowOldFirst DEF Show, Base, Beneath, gate, Typed
  <2> QED
    BY <1>2, <2>1 DEF GateInv, gate, Entered
<1> QED
  BY <1>1, <1>3, <1>4 DEF MenuReads, PageReads, Show, OpensDisplay, Base, Beneath

LEMMA MessageKeepsGate ==
    ASSUME Typed, GateInv, MessageReads PROVE GateInv'
<1>1. screen = "message" /\ Base = "message"
  BY DEF MessageReads, Base, Beneath
<1>2. CASE Show("menu") /\ NoSequence /\ granted' = <<>>
  <2>1. screen' = "menu" /\ Base' = "menu"
    BY <1>2 DEF Show, Base, Beneath
  <2>2. Entered(<<>>, 0) /\ Len(<<>>) <= 5
    BY DEF Entered
  <2> QED
    BY <1>2, <2>1, <2>2 DEF NoSequence, GateInv
<1>3. CASE UNCHANGED gate /\ (OpensDisplay \/ UNCHANGED <<screen, under>>)
  <2>1. Base' = Base /\ screen' # "sequence"
    BY <1>1, <1>3 DEF OpensDisplay, Show, Base, Beneath
  <2> QED
    BY <1>1, <1>3, <2>1, GateRests
<1> QED
  BY <1>2, <1>3 DEF MessageReads

LEMMA DisplaysKeepGate ==
    ASSUME Typed, GateInv, DisplayReads \/ ResolutionsReads \/ SwitchMode \/ QuestionTurn
    PROVE  GateInv'
<1>1. UNCHANGED gate /\ screen \notin Beneath /\ under' = under /\ under \in Beneath
  BY DEF DisplayReads, ResolutionsReads, SwitchMode, QuestionTurn, Beneath, Typed, ScreenTyped
<1>2. screen' \notin Beneath \/ screen' = under
  BY <1>1 DEF DisplayReads, ResolutionsReads, SwitchMode, QuestionTurn, KeepMode, RevertMode,
              Show, Beneath
<1>3. Base' = Base /\ (Base = "sequence" => detour)
  BY <1>1, <1>2 DEF Base, GateInv, Beneath
<1>4. screen' = "sequence" => detour
  BY <1>1, <1>2, <1>3 DEF Base, Beneath
<1> QED
  BY <1>1, <1>3, <1>4, GateRests

LEMMA SequenceKeepsGate ==
    ASSUME Typed, GateInv, SequenceReads PROVE GateInv'
<1>1. screen = "sequence" /\ Base = "sequence" /\ granted = <<>>
  BY DEF SequenceReads, GateInv, Base, Beneath
<1>2. CASE Show("message") /\ NoSequence /\ UNCHANGED granted
  <2>1. screen' = "message" /\ Base' = "message"
    BY <1>2 DEF Show, Base, Beneath
  <2>2. Entered(<<>>, 0) /\ Len(<<>>) <= 5
    BY DEF Entered
  <2> QED
    BY <1>1, <1>2, <2>1, <2>2 DEF NoSequence, GateInv
<1>3. CASE OpensDisplay /\ detour' = TRUE /\ UNCHANGED <<position, reads, granted>>
  <2>1. screen' = "display" /\ Base' = "sequence"
    BY <1>1, <1>3 DEF OpensDisplay, Show, Base, Beneath
  <2>2. Entered(reads, position)'
    BY <1>3 DEF GateInv, Entered
  <2> QED
    BY <1>1, <1>3, <2>1, <2>2 DEF GateInv
<1>4. CASE queue # <<>> /\ Head(queue).button \notin {"Cancel", "View"}
  <2> DEFINE e == Head(queue)
  <2>1. e \in Press /\ KeysTyped /\ GateTyped /\ Len(reads) <= 5 /\ Entered(reads, position)
    BY <1>4, ConsumeTyped DEF Typed, KeysTyped, GateInv
  <2>2. CASE AfterPress(e.button) = 5
    <3>1. Authorise
      BY <1>4, <2>2, SequenceIs DEF SequenceReads, Reading, OpensDisplay
    <3>2. Granted'
      BY <1>1, <1>4, <2>1, <2>2, <3>1, GrantsSequence DEF Authorise
    <3>3. screen' = "message" /\ Base' = "message"
      BY <3>1 DEF Authorise, Show, Base, Beneath
    <3>4. reads' = <<>> /\ position' = 0 /\ Entered(<<>>, 0) /\ Len(<<>>) <= 5
      BY <3>1 DEF Authorise, Entered
    <3> QED
      BY <3>2, <3>3, <3>4 DEF GateInv
  <2>3. CASE AfterPress(e.button) # 5
    <3>1. /\ position' = AfterPress(e.button) /\ reads' = Remembered(e) /\ Consume
          /\ UNCHANGED <<screen, detour, granted>>
      BY <1>4, <2>3, SequenceIs DEF SequenceReads, Reading, OpensDisplay
    <3>2. Len(reads') <= 5 /\ Entered(reads', position')
      BY <2>1, <3>1, EnteredOn, RememberedIs DEF GateTyped
    <3>3. ~detour => OldFirst(Stream')
      BY <1>1, <1>4, <2>1, <3>1, StreamReadOn DEF GateInv, Stream, Consume
    <3>4. Base' = "sequence" /\ screen' = "sequence" /\ granted' = <<>> /\ detour' = detour
      BY <1>1, <3>1 DEF Base, Beneath
    <3>5. Entered(reads, position)'
      BY <3>2 DEF Entered
    <3> QED
      BY <3>2, <3>3, <3>4, <3>5 DEF GateInv
  <2> QED
    BY <2>2, <2>3
<1> QED
  BY <1>2, <1>3, <1>4 DEF SequenceReads

LEMMA GateHolds == Spec => [](Typed /\ GateInv)
<1>1. Init => GateInv
  <2> SUFFICES ASSUME Init PROVE GateInv
    OBVIOUS
  <2>1. Base = "page" /\ screen # "sequence"
    BY DEF Init, Base, Beneath
  <2>2. Entered(<<>>, 0) /\ Len(<<>>) <= 5
    BY DEF Entered
  <2> QED
    BY <2>1, <2>2 DEF Init, GateInv
<1>2. Typed /\ GateInv /\ [Next]_vars => GateInv'
  <2> SUFFICES ASSUME Typed, GateInv, [Next]_vars PROVE GateInv'
    OBVIOUS
  <2>1. CASE UNCHANGED vars
    <3>1. Base' = Base /\ screen' = screen /\ UNCHANGED gate /\ Stream' = Stream
      BY <2>1 DEF vars, gate, keys, Base, Stream
    <3> QED
      BY <3>1, GateRests DEF GateInv
  <2> QED
    BY <2>1, ButtonsKeepGate, MenusKeepGate, MessageKeepsGate, DisplaysKeepGate,
       SequenceKeepsGate
       DEF Next
<1> QED
  BY <1>1, <1>2, TypedHolds, PTL DEF Spec

\* What authorises a write is exactly the sequence, read in one piece and, unless
\* the display screen was opened meanwhile, pressed while its screen was up but
\* for a first button held down since before (confirm_sequence and the buffer the
\* firmware keeps filling).
THEOREM WritesAreAuthorised == Spec => []WriteIsAuthorised
<1>1. Typed /\ GateInv => WriteIsAuthorised
  <2> SUFFICES ASSUME Typed, GateInv, granted # <<>> 
               PROVE  /\ [i \in DOMAIN granted |-> granted[i].button] = ConfirmSequence
                      /\ ~detour => \A i \in 2..Len(granted) : ~granted[i].old
    BY DEF WriteIsAuthorised
  <2>1. Granted /\ DOMAIN granted = 1..5
    BY DEF GateInv, Granted, Typed, GateTyped
  <2>2. [i \in DOMAIN granted |-> granted[i].button] = ConfirmSequence
    <3>1. ConfirmSequence = [i \in 1..5 |-> ConfirmSequence[i]]
      BY DEF ConfirmSequence
    <3> QED
      BY <2>1, <3>1 DEF Granted
  <2> QED
    BY <2>1, <2>2 DEF Granted
<1> QED
  BY <1>1, GateHolds, PTL

-----------------------------------------------------------------------------
(* A mode that cannot be seen is not kept                                  *)

LEMMA SightKept == Typed /\ SightInv /\ [Next]_vars => SightInv'
<1> SUFFICES ASSUME Typed, SightInv, [Next]_vars, ~stuck', ~carried' PROVE
        /\ screen' # "question" => mode' \in Seen
        /\ screen' = "question" =>
             /\ other' \in Seen
             /\ mode' \notin Seen => \A i \in DOMAIN queue' : queue'[i].old
             /\ mode' \notin Seen => \A i \in DOMAIN held' : held'[i].old
  BY DEF SightInv
<1>0. queue \in Seq(Press) /\ held \in Seq(Press)
  BY DEF Typed, KeysTyped
<1>1. ASSUME NEW button \in Buttons, PressButton(button) PROVE SightInv'
  BY <1>1 DEF PressButton, display, SightInv
<1>2. CASE RepeatButton
  <2>1. ASSUME \A i \in DOMAIN queue : queue[i].old, \A i \in DOMAIN held : held[i].old,
               NEW i \in DOMAIN (queue \o held)
        PROVE  (queue \o held)[i].old
    BY <1>0, <2>1
  <2> QED
    BY <1>2, <2>1 DEF RepeatButton, display, SightInv
<1>3. CASE ReleaseButton
  BY <1>3 DEF ReleaseButton, display, SightInv
<1>4. CASE MenuReads \/ PageReads \/ MessageReads \/ SequenceReads \/ DisplayReads
  <2>1. UNCHANGED display /\ screen # "question"
    BY <1>4 DEF MenuReads, PageReads, MessageReads, SequenceReads, DisplayReads
  <2>2. screen' # "question"
    BY <1>4, <2>1
       DEF MenuReads, PageReads, MessageReads, SequenceReads, DisplayReads, OpensDisplay, Show,
           Consume, Authorise, Typed, ScreenTyped, Beneath
  <2> QED
    BY <2>1, <2>2 DEF SightInv, display
<1>5. CASE ResolutionsReads
  BY <1>5 DEF ResolutionsReads, Show, display, SightInv
<1>6. CASE SwitchMode
  <2>1. \A i \in DOMAIN Aged(queue) : Aged(queue)[i].old
    BY <1>0, AgedTyped DEF Aged
  <2>2. \A i \in DOMAIN Aged(held) : Aged(held)[i].old
    BY <1>0, AgedTyped DEF Aged
  <2> QED
    BY <1>6, <2>1, <2>2 DEF SwitchMode, SetModeFails, Show, SightInv
<1>7. CASE QuestionTurn
  <2>1. CASE queue # <<>> /\ KeepMode
    <3>1. queue # <<>> => 1 \in DOMAIN queue /\ Head(queue) = queue[1]
      BY <1>0
    <3>2. screen = "question"
      BY <1>7 DEF QuestionTurn
    <3> QED
      BY <2>1, <3>1, <3>2 DEF KeepMode, Show, SightInv
  <2>2. CASE RevertMode
    BY <1>7, <2>2 DEF QuestionTurn, RevertMode, Show, SightInv
  <2>3. CASE /\ queue' = IF queue = <<>> THEN <<>> ELSE Tail(queue)
             /\ UNCHANGED <<held, presses, screen, mode, other, carried, stuck>>
    <3>1. \A i \in DOMAIN queue' : i + 1 \in DOMAIN queue /\ queue'[i] = queue[i + 1]
      BY <1>0, <2>3
    <3> QED
      BY <1>7, <2>3, <3>1 DEF QuestionTurn, SightInv
  <2> QED
    BY <1>7, <2>1, <2>2, <2>3 DEF QuestionTurn
<1>8. CASE UNCHANGED vars
  BY <1>8 DEF vars, keys, display, SightInv
<1> QED
  BY <1>1, <1>2, <1>3, <1>4, <1>5, <1>6, <1>7, <1>8 DEF Next, SightInv

\* But for a firmware that will not go back and a button held since before the
\* question, the screen is one somebody can read whenever nothing is being asked
\* (try_mode, confirm_mode and the drain before it).
THEOREM PictureStaysReadable == Spec => []PictureReadable
<1>1. Init => SightInv
  BY DEF Init, SightInv
<1>2. SightInv => PictureReadable
  BY DEF SightInv, PictureReadable
<1> QED
  BY <1>1, <1>2, SightKept, TypedHolds, PTL DEF Spec
=============================================================================
