--------------------------- MODULE BootVarsProofs ---------------------------
(***************************************************************************)
(* Theorems about BootVars, for every number of slots, every set of boot   *)
(* configurations a session may find and every set of names a copy may     *)
(* miss: the first change is saved, registering only adds, and no write,   *)
(* followed by the next or not, leaves a name dangling or the order        *)
(* shorter.                                                                *)
(***************************************************************************)
EXTENDS BootVars, SequenceTheorems, WellFoundedInduction, TLAPS

-----------------------------------------------------------------------------
(* The session's copy                                                      *)

\* What ties the session's flag, the operator's answer and the copies together.
SavedInv ==
    /\ waived \in {"no", "agreed", "yes"}
    /\ waived # "yes" /\ ~taken => nvram = start
    /\ waived # "yes" /\ taken => \E saved \in files : CopyOf(saved, start)
    /\ phase \in {"confirm", "write"} => taken \/ waived \in {"agreed", "yes"}

\* A copy is faithful to the store it is taken from.
LEMMA CaptureIsCopy ==
    ASSUME NEW missed PROVE CopyOf(Capture(missed), nvram)
BY DEF CopyOf, Capture

\* Saving a copy while the flag is down saves the store the session found.
LEMMA SaveKeeps ==
    ASSUME SavedInv, Save, UNCHANGED <<nvram, start, waived>>
    PROVE  waived # "yes" => \E saved \in files' : CopyOf(saved, start)
<1>1. PICK missed \in Misses : files' = files \cup {Capture(missed)}
  BY DEF Save
<1>2. CASE taken
  BY <1>1, <1>2 DEF SavedInv
<1>3. CASE ~taken
  BY <1>1, <1>3, CaptureIsCopy DEF SavedInv
<1>4. QED
  BY <1>2, <1>3

LEMMA SavedStep == SavedInv /\ [Next]_vars => SavedInv'
<1> SUFFICES ASSUME SavedInv, [Next]_vars PROVE SavedInv'
  OBVIOUS
<1>1. ASSUME NEW name, NEW writes, Propose(name, writes) PROVE SavedInv'
  BY <1>1 DEF Propose, SavedInv, CopyOf
<1>2. CASE \/ RunBootRegister \/ RunBootDefault \/ RunBootOnce \/ RunBootRestore
  BY <1>1, <1>2 DEF RunBootRegister, RunBootDefault, RunBootOnce, RunBootRestore
<1>3. CASE RunBootBackup
  <2>1. Save /\ UNCHANGED <<nvram, start, waived>> /\ taken' = TRUE /\ phase' = "menu"
    BY <1>3 DEF RunBootBackup, Save
  <2>2. QED
    BY <2>1, SaveKeeps DEF SavedInv, CopyOf
<1>4. CASE SnapshotReady
  <2>1. UNCHANGED <<nvram, start, waived>> /\ taken' = TRUE
    BY <1>4 DEF SnapshotReady, Save
  <2>2. waived # "yes" => \E saved \in files' : CopyOf(saved, start)
    BY <1>4, <2>1, SaveKeeps DEF SnapshotReady, SavedInv
  <2>3. QED
    BY <2>1, <2>2 DEF SavedInv, CopyOf
<1>5. CASE SnapshotFailed
  BY <1>5 DEF SnapshotFailed, Unsaved, Return, Stop, SavedInv, CopyOf
<1>6. CASE Confirmed
  BY <1>6 DEF Confirmed, SavedInv, CopyOf
<1>7. CASE Cancelled
  BY <1>7 DEF Cancelled, Return, Stop, SavedInv, CopyOf
<1>8. CASE WriteVariable
  <2>1. /\ UNCHANGED <<files, taken, start>>
        /\ waived' = (IF waived = "agreed" THEN "yes" ELSE waived)
        /\ phase = "write" /\ (phase' = phase \/ phase' = "menu")
    BY <1>8 DEF WriteVariable, Stop
  <2>2. QED
    BY <2>1 DEF SavedInv, CopyOf
<1>9. CASE WriteRefused
  BY <1>9 DEF WriteRefused, Return, Stop, SavedInv, CopyOf
<1>10. CASE Reset
  BY <1>10 DEF Reset, Stop, SavedInv
<1>11. CASE UNCHANGED vars
  BY <1>11 DEF vars, SavedInv, CopyOf
<1>12. QED
  BY <1>2, <1>3, <1>4, <1>5, <1>6, <1>7, <1>8, <1>9, <1>10, <1>11 DEF Next

\* Spec => []FirstChangeSaved: no session changes a boot variable before a copy
\* of the store as it found it exists, or the operator has agreed to do without.
THEOREM SessionSavesFirst == Spec => []FirstChangeSaved
<1>1. Init => SavedInv
  BY DEF Init, SavedInv
<1>2. SavedInv => FirstChangeSaved
  BY DEF SavedInv, FirstChangeSaved
<1>3. QED
  BY <1>1, <1>2, SavedStep, PTL DEF Spec

-----------------------------------------------------------------------------
(* Registering a loader                                                    *)

\* The lowest free slot is a free slot.
LEMMA NextFreeSlotFree ==
    ASSUME NEW S, Slots \ S # {}
    PROVE  NextFreeSlot(S) \in Slots \ S
<1> DEFINE R == OpToRel(<, Nat)
           T == Slots \ S
<1>1. T \subseteq Nat /\ T # {}
  BY SlotsAssumption DEF Slots
<1>2. \E x \in T : \A y \in T : ~(<<y, x>> \in R)
  BY <1>1, WFMin, NatLessThanWellFounded
<1>3. \A x \in T, y \in T : ~(<<y, x>> \in R) => x <= y
  BY <1>1 DEF OpToRel
<1>4. \E x \in T : \A y \in T : x <= y
  BY <1>2, <1>3
<1>5. QED
  BY <1>4 DEF NextFreeSlot

\* A registration under way writes the entry of a slot that is free until then,
\* and after it nothing but the order.
RegisterInv ==
    /\ phase \in {"menu", "snapshot", "confirm"} => done = 0
    /\ op = "register" =>
         \E slot \in Slots, loader \in Loaders : \E order :
           /\ plan = << VarWrite(Boot(slot), loader), VarWrite(BootOrder, order) >>
           /\ done \in {0, 1}
           /\ done = 0 => nvram[Boot(slot)] = Absent

LEMMA RegisterProposed ==
    ASSUME RegisterInv, RunBootRegister
    PROVE  RegisterInv'
<1>1. PICK found \in WalksForRegister, order \in OrdersRead,
           loader \in Loaders, first \in BOOLEAN :
        /\ Slots \ found # {}
        /\ Propose("register", PlanRegister(NextFreeSlot(found), loader, order, first))
  BY DEF RunBootRegister
<1> DEFINE slot == NextFreeSlot(found)
           next == IF first THEN Reorder(slot, order)
                   ELSE Append(Without(slot, order), slot)
<1>2. slot \in Slots /\ nvram[Boot(slot)] = Absent
  BY <1>1, NextFreeSlotFree DEF WalksForRegister, Present
<1>3. plan' = << VarWrite(Boot(slot), loader), VarWrite(BootOrder, next) >>
  BY <1>1 DEF Propose, PlanRegister
<1>4. done' = 0 /\ UNCHANGED nvram
  BY <1>1 DEF Propose, RegisterInv
<1> HIDE DEF next, slot
<1>5. QED
  BY <1>2, <1>3, <1>4 DEF RegisterInv

\* What a write of a registration changes.
LEMMA RegisterWrites ==
    ASSUME RegisterInv, op = "register", WriteVariable,
           NEW slot \in Slots, nvram[Boot(slot)] # Absent
    PROVE  nvram'[Boot(slot)] = nvram[Boot(slot)]
<1>1. \E s \in Slots, loader \in Loaders : \E order :
        /\ plan = << VarWrite(Boot(s), loader), VarWrite(BootOrder, order) >>
        /\ done \in {0, 1}
        /\ done = 0 => nvram[Boot(s)] = Absent
  BY DEF RegisterInv
<1>2. PICK s \in Slots :
        /\ Len(plan) = 2
        /\ plan[1].name = Boot(s) /\ plan[2].name = BootOrder
        /\ done \in {0, 1}
        /\ done = 0 => nvram[Boot(s)] = Absent
  BY <1>1 DEF VarWrite
<1>3. nvram' = [nvram EXCEPT ![plan[done + 1].name] = plan[done + 1].data]
  BY DEF WriteVariable
<1>4. BootOrder # Boot(slot)
  BY DEF BootOrder, Boot
<1>5. plan[done + 1].name # Boot(slot)
  <2>1. CASE done = 0
    BY <1>2, <2>1
  <2>2. CASE done = 1
    BY <1>2, <1>4, <2>2
  <2>3. QED
    BY <1>2, <2>1, <2>2
<1>6. QED
  BY <1>3, <1>5

LEMMA RegisterStep == RegisterInv /\ [Next]_vars => RegisterInv'
<1> SUFFICES ASSUME RegisterInv, [Next]_vars PROVE RegisterInv'
  OBVIOUS
<1>1. CASE RunBootRegister
  BY <1>1, RegisterProposed
<1>2. CASE RunBootDefault \/ RunBootOnce \/ RunBootRestore
  <2>1. ASSUME NEW name, NEW writes, Propose(name, writes), name # "register"
        PROVE  RegisterInv'
    BY <2>1 DEF Propose, RegisterInv
  <2>2. QED
    BY <1>2, <2>1 DEF RunBootDefault, RunBootOnce, RunBootRestore
<1>3. CASE RunBootBackup
  BY <1>3 DEF RunBootBackup, RegisterInv
<1>4. CASE SnapshotReady \/ Confirmed
  BY <1>4 DEF SnapshotReady, Confirmed, RegisterInv
<1>5. CASE SnapshotFailed
  BY <1>5 DEF SnapshotFailed, Unsaved, Return, Stop, RegisterInv
<1>6. CASE Cancelled \/ WriteRefused \/ Reset
  BY <1>6 DEF Cancelled, WriteRefused, Reset, Return, Stop, RegisterInv
<1>7. CASE WriteVariable
  <2>1. CASE done + 1 < Len(plan)
    <3>1. phase = "write" /\ UNCHANGED <<phase, op, plan>> /\ done' = done + 1
      BY <1>7, <2>1 DEF WriteVariable
    <3>2. ASSUME op = "register" PROVE done' = 1
      <4>1. done \in {0, 1} /\ Len(plan) = 2
        BY <3>2 DEF RegisterInv
      <4>2. QED
        BY <2>1, <3>1, <4>1
    <3>3. QED
      BY <3>1, <3>2 DEF RegisterInv
  <2>2. CASE ~(done + 1 < Len(plan))
    BY <1>7, <2>2 DEF WriteVariable, Stop, RegisterInv
  <2>3. QED
    BY <2>1, <2>2
<1>8. CASE UNCHANGED vars
  BY <1>8 DEF vars, RegisterInv
<1>9. QED
  BY <1>1, <1>2, <1>3, <1>4, <1>5, <1>6, <1>7, <1>8 DEF Next

\* Spec => RegisterOnlyAdds: registering never replaces an entry of the store.
THEOREM RegisterAdds == Spec => RegisterOnlyAdds
<1>1. Init => RegisterInv
  BY DEF Init, RegisterInv
<1>2. RegisterInv /\ [Next]_vars =>
        [session' = session /\ op = "register" =>
           \A slot \in Present(nvram) : nvram'[Boot(slot)] = nvram[Boot(slot)]]_vars
  <2> SUFFICES ASSUME RegisterInv, Next, session' = session, op = "register",
                      NEW slot \in Slots, nvram[Boot(slot)] # Absent
               PROVE  nvram'[Boot(slot)] = nvram[Boot(slot)]
    BY DEF Present
  <2>1. CASE WriteVariable
    BY <2>1, RegisterWrites
  <2>2. CASE Reset
    <3>1. session' = session + 1
      BY <2>2 DEF Reset
    <3>2. QED
      BY <3>1
  <2>3. CASE ~WriteVariable /\ ~Reset
    BY <2>3 DEF Next, RunBootRegister, RunBootDefault, RunBootOnce, RunBootRestore,
       RunBootBackup, SnapshotReady, SnapshotFailed, Confirmed, Cancelled,
       WriteRefused, Propose
  <2>4. QED
    BY <2>1, <2>2, <2>3
<1>3. QED
  BY <1>1, <1>2, RegisterStep, PTL DEF Spec, RegisterOnlyAdds

-----------------------------------------------------------------------------
(* What KeptIn keeps                                                       *)

LEMMA LeastOf ==
    ASSUME NEW S, S \subseteq Nat, S # {}
    PROVE  \E n \in S : \A m \in S : n <= m
<1> DEFINE R == OpToRel(<, Nat)
<1>1. \E n \in S : \A m \in S : ~(<<m, n>> \in R)
  BY WFMin, NatLessThanWellFounded
<1>2. \A n \in S, m \in S : ~(<<m, n>> \in R) => n <= m
  BY DEF OpToRel
<1> QED
  BY <1>1, <1>2

\* The sequences a filter makes of the first i elements, i up to n.
Filters(S, seq, f, n) ==
    f = [i \in 0 .. n |->
            IF i = 0 THEN <<>>
            ELSE IF seq[i] \in S THEN Append(f[i - 1], seq[i]) ELSE f[i - 1]]

LEMMA FilterExists ==
    ASSUME NEW S, NEW seq, NEW n \in Nat
    PROVE  \E f : Filters(S, seq, f, n)
<1> DEFINE T == {k \in Nat : ~\E f : Filters(S, seq, f, k)}
<1> SUFFICES ASSUME T # {} PROVE FALSE
  OBVIOUS
<1>1. PICK k \in T : \A m \in T : k <= m
  BY LeastOf
<1>2. CASE k = 0
  <2>1. Filters(S, seq, [i \in 0 .. 0 |-> <<>>], 0)
    BY DEF Filters
  <2> QED
    BY <1>2, <2>1
<1>3. CASE k # 0
  <2>1. k - 1 \in Nat /\ k - 1 \notin T
    BY <1>1, <1>3
  <2>2. PICK f : Filters(S, seq, f, k - 1)
    BY <2>1
  <2> DEFINE Step(h, i) == IF i = 0 THEN <<>>
                           ELSE IF seq[i] \in S THEN Append(h[i - 1], seq[i]) ELSE h[i - 1]
             g == [i \in 0 .. k |-> IF i = k THEN Step(f, k) ELSE f[i]]
  <2>3. \A i \in 0 .. (k - 1) : f[i] = Step(f, i)
    BY <2>2 DEF Filters
  <2>4. ASSUME NEW i \in 0 .. k PROVE g[i] = Step(g, i)
    <3>1. i # 0 => g[i - 1] = f[i - 1]
      BY <2>1
    <3>2. Step(g, i) = Step(f, i)
      BY <3>1
    <3>3. g[i] = IF i = k THEN Step(f, k) ELSE f[i]
      OBVIOUS
    <3> HIDE DEF Step, g
    <3> QED
      BY <2>1, <2>3, <3>2, <3>3
  <2>5. g = [i \in 0 .. k |-> Step(g, i)]
    <3>1. g = [i \in 0 .. k |-> g[i]]
      OBVIOUS
    <3> HIDE DEF Step, g
    <3> QED
      BY <2>4, <3>1
  <2>6. Filters(S, seq, g, k)
    BY <2>5 DEF Filters
  <2> QED
    BY <2>6
<1> QED
  BY <1>2, <1>3

LEMMA KeptInFilters ==
    ASSUME NEW S, NEW seq, Len(seq) \in Nat
    PROVE  \E f : /\ KeptIn(S, seq) = f[Len(seq)] /\ f[0] = <<>>
                  /\ \A i \in 1 .. Len(seq) :
                       f[i] = IF seq[i] \in S THEN Append(f[i - 1], seq[i]) ELSE f[i - 1]
<1>0. PICK n \in Nat : n = Len(seq)
  OBVIOUS
<1> DEFINE Step(f, i) == IF i = 0 THEN <<>>
                         ELSE IF seq[i] \in S THEN Append(f[i - 1], seq[i]) ELSE f[i - 1]
           kept == CHOOSE f : f = [i \in 0 .. Len(seq) |-> Step(f, i)]
<1>1. KeptIn(S, seq) = kept[Len(seq)]
  BY Zenon DEF KeptIn
<1>2. \E f : f = [i \in 0 .. n |-> Step(f, i)]
  <2>1. PICK f : Filters(S, seq, f, n)
    BY FilterExists
  <2>2. f = [i \in 0 .. n |-> Step(f, i)]
    BY Zenon, <2>1 DEF Filters
  <2> HIDE DEF Step
  <2> QED
    BY <2>2
<1>3. \E f : f = [i \in 0 .. Len(seq) |-> Step(f, i)]
  BY <1>0, <1>2
<1> HIDE DEF Step
<1>4. kept = [i \in 0 .. Len(seq) |-> Step(kept, i)]
  BY <1>3
<1> HIDE DEF kept
<1>5. \A i \in 0 .. n : kept[i] = Step(kept, i)
  BY <1>0, <1>4
<1>6. kept[0] = <<>>
  BY <1>5 DEF Step
<1>7. \A i \in 1 .. n :
        kept[i] = IF seq[i] \in S THEN Append(kept[i - 1], seq[i]) ELSE kept[i - 1]
  <2> TAKE i \in 1 .. n
  <2>1. kept[i] = Step(kept, i)
    BY <1>5
  <2> QED
    BY <2>1 DEF Step
<1> QED
  BY <1>0, <1>1, <1>6, <1>7

\* The sequence x has of seq's first i elements those in S, in an order that
\* leaves those in E ahead.
KeptTill(T, S, E, seq, x, i) ==
    /\ x \in Seq(T)
    /\ \A m \in 1 .. Len(x) : x[m] \in S /\ \E h \in 1 .. i : x[m] = seq[h]
    /\ \A h \in 1 .. i : seq[h] \in S => \E m \in 1 .. Len(x) : x[m] = seq[h]
    /\ \A k, m \in 1 .. Len(x) : k < m /\ x[m] \in E => x[k] \in E

LEMMA AppendKept ==
    ASSUME NEW T, NEW S, NEW E, NEW seq, NEW x, NEW i \in Nat, i # 0,
           KeptTill(T, S, E, seq, x, i - 1), seq[i] \in S, seq[i] \in T,
           \A h \in 1 .. i : seq[i] \in E => seq[h] \in E
    PROVE  KeptTill(T, S, E, seq, Append(x, seq[i]), i)
<1> DEFINE y == Append(x, seq[i])
<1>1. x \in Seq(T)
  BY DEF KeptTill
<1>2. PICK n \in Nat : n = Len(x)
  BY <1>1
<1>3. y \in Seq(T) /\ Len(y) = n + 1 /\ y[n + 1] = seq[i]
      /\ \A m \in 1 .. n : y[m] = x[m]
  BY <1>1, <1>2
<1> HIDE DEF y
<1>4. ASSUME NEW m \in 1 .. (n + 1)
      PROVE  y[m] \in S /\ \E h \in 1 .. i : y[m] = seq[h]
  <2>1. CASE m \in 1 .. n
    <3>1. y[m] = x[m] /\ x[m] \in S /\ \E h \in 1 .. (i - 1) : x[m] = seq[h]
      BY <1>2, <1>3, <2>1 DEF KeptTill
    <3> QED
      BY <3>1
  <2>2. CASE m = n + 1
    BY <1>3, <2>2
  <2> QED
    BY <1>2, <2>1, <2>2
<1>5. ASSUME NEW h \in 1 .. i, seq[h] \in S
      PROVE  \E m \in 1 .. (n + 1) : y[m] = seq[h]
  <2>1. CASE h = i
    BY <1>3, <2>1
  <2>2. CASE h # i
    <3>1. h \in 1 .. (i - 1)
      BY <2>2
    <3>2. PICK m \in 1 .. n : x[m] = seq[h]
      BY <1>2, <1>5, <3>1 DEF KeptTill
    <3> QED
      BY <1>3, <3>2
  <2> QED
    BY <2>1, <2>2
<1>6. ASSUME NEW k \in 1 .. (n + 1), NEW m \in 1 .. (n + 1), k < m, y[m] \in E
      PROVE  y[k] \in E
  <2>1. k \in 1 .. n /\ y[k] = x[k]
    BY <1>3, <1>6
  <2>2. CASE m \in 1 .. n
    BY <1>2, <1>3, <1>6, <2>1, <2>2 DEF KeptTill
  <2>3. CASE m = n + 1
    <3>1. PICK h \in 1 .. (i - 1) : x[k] = seq[h]
      BY <1>2, <2>1 DEF KeptTill
    <3> QED
      BY <1>3, <1>6, <2>1, <2>3, <3>1
  <2> QED
    BY <2>2, <2>3
<1> QED
  BY <1>3, <1>4, <1>5, <1>6 DEF KeptTill, y

\* What is kept of a sequence are its elements in S, and where those in E come
\* first they still do.
LEMMA KeptInIs ==
    ASSUME NEW T, NEW S, NEW E, NEW seq, seq \in Seq(T),
           \A k, m \in 1 .. Len(seq) : k < m /\ seq[m] \in E => seq[k] \in E
    PROVE  KeptTill(T, S, E, seq, KeptIn(S, seq), Len(seq))
<1>1. PICK n \in Nat : n = Len(seq)
  OBVIOUS
<1>2. PICK f : /\ KeptIn(S, seq) = f[n] /\ f[0] = <<>>
               /\ \A i \in 1 .. n :
                    f[i] = IF seq[i] \in S THEN Append(f[i - 1], seq[i]) ELSE f[i - 1]
  BY <1>1, KeptInFilters
<1> DEFINE Good(i) == KeptTill(T, S, E, seq, f[i], i)
           Bad == {i \in 0 .. n : ~Good(i)}
<1>3. ASSUME Bad # {} PROVE FALSE
  <2>1. PICK i \in Bad : \A m \in Bad : i <= m
    <3>1. Bad \subseteq Nat
      OBVIOUS
    <3> HIDE DEF Bad
    <3> QED
      BY <1>3, <3>1, LeastOf
  <2>2. CASE i = 0
    <3>1. KeptTill(T, S, E, seq, <<>>, 0)
      <4>1. <<>> \in Seq(T) /\ Len(<<>>) = 0
        OBVIOUS
      <4> QED
        BY <4>1 DEF KeptTill
    <3> QED
      BY <1>2, <2>1, <2>2, <3>1
  <2>3. CASE i # 0
    <3>1. i \in 1 .. n /\ i - 1 \in 0 .. n /\ i - 1 \notin Bad
      BY <2>1, <2>3
    <3>2. Good(i - 1) /\ ~Good(i)
      BY <2>1, <3>1
    <3>3. seq[i] \in T /\ \A h \in 1 .. i : seq[i] \in E => seq[h] \in E
      BY <1>1, <3>1
    <3>4. CASE seq[i] \in S
      <4>1. f[i] = Append(f[i - 1], seq[i])
        BY <1>2, <3>1, <3>4
      <4> QED
        BY <3>1, <3>2, <3>3, <3>4, <4>1, AppendKept
    <3>5. CASE seq[i] \notin S
      <4>1. f[i] = f[i - 1]
        BY <1>2, <3>1, <3>5
      <4>2. Good(i)
        BY <3>1, <3>2, <3>5, <4>1 DEF KeptTill
      <4> QED
        BY <3>2, <4>2
    <3> QED
      BY <3>4, <3>5
  <2> QED
    BY <2>2, <2>3
<1>4. Good(n)
  BY <1>3
<1> QED
  BY <1>1, <1>2, <1>4

LEMMA KeptInHas ==
    ASSUME NEW T, NEW S, NEW seq, seq \in Seq(T)
    PROVE  KeptIn(S, seq) \in Seq(T) /\ SlotsOf(KeptIn(S, seq)) = SlotsOf(seq) \cap S
<1>1. \A k, m \in 1 .. Len(seq) : k < m /\ seq[m] \in {} => seq[k] \in {}
  OBVIOUS
<1>2. KeptTill(T, S, {}, seq, KeptIn(S, seq), Len(seq))
  BY <1>1, KeptInIs
<1>3. PICK x : x = KeptIn(S, seq)
  OBVIOUS
<1>4. x \in Seq(T)
  BY <1>2, <1>3 DEF KeptTill
<1>5. DOMAIN x = 1 .. Len(x) /\ DOMAIN seq = 1 .. Len(seq)
  BY <1>4
<1>6. SlotsOf(x) = SlotsOf(seq) \cap S
  <2>1. \A m \in 1 .. Len(x) : x[m] \in S /\ \E h \in 1 .. Len(seq) : x[m] = seq[h]
    BY <1>2, <1>3 DEF KeptTill
  <2>2. \A h \in 1 .. Len(seq) : seq[h] \in S => \E m \in 1 .. Len(x) : x[m] = seq[h]
    BY <1>2, <1>3 DEF KeptTill
  <2>3. SlotsOf(x) = {x[m] : m \in 1 .. Len(x)} /\ SlotsOf(seq) = {seq[h] : h \in 1 .. Len(seq)}
    BY <1>5 DEF SlotsOf
  <2>4. SlotsOf(x) \subseteq SlotsOf(seq) \cap S
    BY <2>1, <2>3
  <2>5. SlotsOf(seq) \cap S \subseteq SlotsOf(x)
    BY <2>2, <2>3
  <2> QED
    BY <2>4, <2>5
<1> QED
  BY <1>3, <1>4, <1>6

-----------------------------------------------------------------------------
(* Plans                                                                   *)

\* The order a plan writes has what was in it, and the slot.
LEMMA OrderPlanned ==
    ASSUME NEW slot \in Slots, NEW order, order \in Seq(Slots)
    PROVE  /\ Reorder(slot, order) \in Seq(Slots)
           /\ SlotsOf(Reorder(slot, order)) = SlotsOf(order) \cup {slot}
           /\ Append(Without(slot, order), slot) \in Seq(Slots)
           /\ SlotsOf(Append(Without(slot, order), slot)) = SlotsOf(order) \cup {slot}
<1>1. PICK x : x = Without(slot, order)
  OBVIOUS
<1>2. x \in Seq(Slots) /\ SlotsOf(x) = SlotsOf(order) \ {slot}
  <2>1. SlotsOf(order) \subseteq Slots
    BY DEF SlotsOf
  <2> QED
    BY <1>1, <2>1, KeptInHas DEF Without
<1>3. PICK n \in Nat : n = Len(x)
  BY <1>2
<1>4. SlotsOf(x) = {x[m] : m \in 1 .. n}
  BY <1>2, <1>3 DEF SlotsOf
<1>5. PICK y : y = <<slot>> \o x
  OBVIOUS
<1>6. y \in Seq(Slots) /\ Len(y) = n + 1 /\ y[1] = slot /\ \A m \in 1 .. n : y[m + 1] = x[m]
  BY <1>2, <1>3, <1>5
<1>7. SlotsOf(y) = {y[m] : m \in 1 .. (n + 1)}
  <2>1. DOMAIN y = 1 .. (n + 1)
    BY <1>6
  <2> QED
    BY <2>1 DEF SlotsOf
<1>8. SlotsOf(y) = SlotsOf(x) \cup {slot}
  <2>1. ASSUME NEW m \in 1 .. (n + 1) PROVE y[m] \in SlotsOf(x) \cup {slot}
    <3>1. CASE m = 1
      BY <1>6, <3>1
    <3>2. CASE m # 1
      <4>1. m - 1 \in 1 .. n /\ y[m] = x[m - 1]
        BY <1>6, <3>2
      <4> QED
        BY <1>4, <4>1
    <3> QED
      BY <3>1, <3>2
  <2>2. ASSUME NEW m \in 1 .. n PROVE x[m] \in SlotsOf(y)
    BY <1>6, <1>7
  <2>3. slot \in SlotsOf(y)
    BY <1>6, <1>7
  <2> QED
    BY <1>4, <1>7, <2>1, <2>2, <2>3
<1>9. PICK z : z = Append(x, slot)
  OBVIOUS
<1>10. z \in Seq(Slots) /\ Len(z) = n + 1 /\ z[n + 1] = slot /\ \A m \in 1 .. n : z[m] = x[m]
  BY <1>2, <1>3, <1>9
<1>11. SlotsOf(z) = {z[m] : m \in 1 .. (n + 1)}
  BY <1>10 DEF SlotsOf
<1>12. SlotsOf(z) = SlotsOf(x) \cup {slot}
  <2>1. \A m \in 1 .. (n + 1) : m = n + 1 \/ m \in 1 .. n
    OBVIOUS
  <2>2. \A m \in 1 .. n : m \in 1 .. (n + 1)
    OBVIOUS
  <2>3. n + 1 \in 1 .. (n + 1)
    OBVIOUS
  <2> QED
    BY <1>4, <1>10, <1>11, <2>1, <2>2, <2>3
<1> QED
  BY <1>1, <1>2, <1>5, <1>6, <1>8, <1>9, <1>10, <1>12 DEF Reorder

LEMMA ElementIn ==
    ASSUME NEW T, NEW x, x \in Seq(T), NEW n \in Nat, n = Len(x)
    PROVE  \A i \in 1 .. n : x[i] \in T
OBVIOUS

LEMMA ConcatIs ==
    ASSUME NEW T, NEW a, a \in Seq(T), NEW b, b \in Seq(T), NEW r, r = a \o b,
           NEW n \in Nat, n = Len(a), NEW m \in Nat, m = Len(b)
    PROVE  /\ r \in Seq(T) /\ Len(r) = n + m
           /\ \A i \in 1 .. n : r[i] = a[i]
           /\ \A i \in 1 .. (n + m) : i > n => r[i] = b[i - n]
OBVIOUS

\* Every name of the store, the entries first.
LEMMA RestoreOrderIs ==
    /\ RestoreOrder \in Seq(Names)
    /\ \A k, m \in 1 .. Len(RestoreOrder) :
         k < m /\ RestoreOrder[m] \in Entries => RestoreOrder[k] \in Entries
    /\ SlotsOf(RestoreOrder) = Names
<1>1. PICK n \in Nat : n = MaxSlot + 1
  BY SlotsAssumption
<1>2. PICK e : e = [i \in 1 .. n |-> Boot(i - 1)]
  OBVIOUS
<1>3. \A i \in 1 .. n : i - 1 \in Slots
  BY <1>1, SlotsAssumption DEF Slots
<1>4. e \in Seq(Entries) /\ Len(e) = n /\ \A i \in 1 .. n : e[i] = Boot(i - 1)
  BY <1>2, <1>3 DEF Entries
<1>5. PICK t : t = <<Timeout, BootOrder, BootNext>>
  OBVIOUS
<1>6. t \in Seq(Settings) /\ Len(t) = 3
  BY <1>5 DEF Settings
<1>7. PICK r : r = e \o t
  OBVIOUS
<1>8. r = RestoreOrder
  BY <1>1, <1>2, <1>5, <1>7 DEF RestoreOrder
<1>13. PICK k \in Nat : k = Len(t)
  BY <1>6
<1>9. /\ e \in Seq(Names) /\ t \in Seq(Names) /\ r \in Seq(Names) /\ Len(r) = n + k
      /\ \A i \in 1 .. n : r[i] \in Entries /\ r[i] = Boot(i - 1)
      /\ \A i \in 1 .. (n + k) : i > n => r[i] \in Settings /\ r[i] = t[i - n]
  <2>1. e \in Seq(Names) /\ t \in Seq(Names)
    BY <1>4, <1>6 DEF Names
  <2>2. /\ r \in Seq(Names) /\ Len(r) = n + k
        /\ \A i \in 1 .. n : r[i] = e[i]
        /\ \A i \in 1 .. (n + k) : i > n => r[i] = t[i - n]
    <3>1. n = Len(e)
      BY <1>4
    <3> QED
      BY <1>7, <1>13, <2>1, <3>1, ConcatIs
  <2>3. \A i \in 1 .. (n + k) : i > n => i - n \in 1 .. k
    OBVIOUS
  <2>4. \A j \in 1 .. k : t[j] \in Settings
    BY <1>6, <1>13, ElementIn
  <2>5. \A i \in 1 .. n : e[i] \in Entries
    BY <1>4
  <2> QED
    BY <1>4, <2>1, <2>2, <2>3, <2>4, <2>5
<1>10. \A s \in Settings : s \notin Entries
  BY DEF Settings, Entries, Boot, Timeout, BootOrder, BootNext
<1>11. ASSUME NEW h \in 1 .. (n + k), NEW m \in 1 .. (n + k), h < m, r[m] \in Entries
       PROVE  r[h] \in Entries
  BY <1>9, <1>10, <1>11
<1>12. ASSUME NEW slot \in Slots PROVE Boot(slot) \in SlotsOf(r)
  <2>1. slot + 1 \in 1 .. n /\ slot + 1 \in 1 .. (n + k) /\ (slot + 1) - 1 = slot
    BY <1>1, SlotsAssumption DEF Slots
  <2>2. r[slot + 1] = Boot(slot) /\ slot + 1 \in DOMAIN r
    BY <1>9, <2>1
  <2> QED
    BY <2>2 DEF SlotsOf
<1>14. ASSUME NEW name \in Settings PROVE name \in SlotsOf(r)
  <2>1. k = 3 /\ t[1] = Timeout /\ t[2] = BootOrder /\ t[3] = BootNext
    BY <1>5, <1>13
  <2>2. \E j \in 1 .. k : t[j] = name
    BY <2>1 DEF Settings
  <2>3. PICK j \in 1 .. k : t[j] = name
    BY <2>2
  <2>4. n + j \in 1 .. (n + k) /\ n + j > n /\ (n + j) - n = j
    OBVIOUS
  <2>5. r[n + j] = name /\ n + j \in DOMAIN r
    BY <1>9, <2>3, <2>4
  <2> QED
    BY <2>5 DEF SlotsOf
<1>15. SlotsOf(r) \subseteq Names
  BY <1>9 DEF SlotsOf
<1>16. SlotsOf(r) = Names
  BY <1>12, <1>14, <1>15 DEF Names, Entries
<1> QED
  BY <1>8, <1>9, <1>11, <1>16

\* A plan as the funnel holds it: a write each of a variable of the store.
IsPlan(p) ==
    /\ Len(p) \in Nat /\ DOMAIN p = 1 .. Len(p)
    /\ \A i \in 1 .. Len(p) : p[i].name \in Names /\ p[i].data \in Value(p[i].name)

\* The entries are written before anything that may name them.
EntriesFirst(p) ==
    \A k, m \in 1 .. Len(p) : k < m /\ p[m].name \in Entries => p[k].name \in Entries

LEMMA BootsAre ==
    /\ \A slot \in Slots : Boot(slot) \in Entries /\ Boot(slot) \in Names
    /\ \A name \in Settings : name \notin Entries /\ name \in Names
    /\ BootOrder \in Settings /\ BootNext \in Settings /\ Timeout \in Settings
    /\ BootOrder # BootNext /\ BootOrder # Timeout /\ BootNext # Timeout
    /\ \A name \in Entries : \E slot \in Slots : name = Boot(slot)
    /\ \A s, t \in Slots : Boot(s) = Boot(t) => s = t
BY DEF Settings, Entries, Names, Boot, Timeout, BootOrder, BootNext

LEMMA ValuesAre ==
    /\ \A slot \in Slots : Value(Boot(slot)) = Loaders \cup {Corrupt}
    /\ Value(BootOrder) = Seq(Slots) \cup {Garbled}
    /\ Value(BootNext) = Slots
<1>1. BootOrder \notin Entries /\ BootNext \notin Entries /\ BootNext # BootOrder
  BY BootsAre
<1> QED
  BY <1>1, BootsAre DEF Value

LEMMA RestoreIsPlan ==
    ASSUME NEW saved, IsCopy(saved), DOMAIN saved.vars # {}
    PROVE  IsPlan(PlanRestore(saved)) /\ EntriesFirst(PlanRestore(saved))
           /\ Len(PlanRestore(saved)) # 0
<1>1. KeptTill(Names, DOMAIN saved.vars, Entries, RestoreOrder,
               KeptIn(DOMAIN saved.vars, RestoreOrder), Len(RestoreOrder))
  BY KeptInIs, RestoreOrderIs
<1>2. PICK x : x = KeptIn(DOMAIN saved.vars, RestoreOrder)
  OBVIOUS
<1>3. /\ x \in Seq(Names)
      /\ \A m \in 1 .. Len(x) : x[m] \in DOMAIN saved.vars
      /\ \A k, m \in 1 .. Len(x) : k < m /\ x[m] \in Entries => x[k] \in Entries
  BY <1>1, <1>2 DEF KeptTill
<1>4. PICK n \in Nat : n = Len(x)
  BY <1>3
<1>5. DOMAIN x = 1 .. n
  BY <1>3, <1>4
<1>6. PICK p : p = [i \in 1 .. n |-> VarWrite(x[i], saved.vars[x[i]])]
  OBVIOUS
<1>7. p = PlanRestore(saved)
  BY Zenon, <1>2, <1>5, <1>6 DEF PlanRestore
<1>8. DOMAIN p = 1 .. n /\ Len(p) = n
  <2>1. p \in [1 .. n -> {p[i] : i \in 1 .. n}]
    BY <1>6
  <2>2. p \in Seq({p[i] : i \in 1 .. n})
    BY <2>1, SeqDef
  <2> QED
    BY <1>6, <2>2, LenProperties
<1>9. \A i \in 1 .. n : p[i].name = x[i] /\ p[i].data = saved.vars[x[i]]
  BY <1>6 DEF VarWrite
<1>10. \A i \in 1 .. n : x[i] \in Names /\ saved.vars[x[i]] \in Value(x[i])
  BY <1>3, <1>4 DEF IsCopy
<1>11. IsPlan(p)
  BY <1>8, <1>9, <1>10 DEF IsPlan
<1>12. EntriesFirst(p)
  BY <1>3, <1>4, <1>8, <1>9 DEF EntriesFirst
<1>13. n # 0
  <2>1. SlotsOf(x) = SlotsOf(RestoreOrder) \cap DOMAIN saved.vars
    BY <1>2, KeptInHas, RestoreOrderIs
  <2>2. SlotsOf(x) # {}
    BY <2>1, RestoreOrderIs DEF IsCopy
  <2> QED
    BY <1>5, <2>2 DEF SlotsOf
<1> QED
  BY <1>7, <1>8, <1>11, <1>12, <1>13

-----------------------------------------------------------------------------
(* Types                                                                   *)

\* What the funnel holds at each of its places.
FunnelInv ==
    /\ IsStore(nvram) /\ IsStore(start)
    /\ \A saved \in files : IsCopy(saved) /\ DOMAIN saved.vars # {}
    /\ taken \in BOOLEAN /\ waived \in {"no", "agreed", "yes"}
    /\ phase \in {"menu", "snapshot", "confirm", "write"}
    /\ op \in {"none", "register", "default", "once", "restore"}
    /\ session \in 0 .. MaxSessions
    /\ IsPlan(plan)
    /\ IF phase = "menu" THEN op = "none" /\ plan = <<>> /\ done = 0
       ELSE op # "none" /\ done \in Nat /\ done < Len(plan)
    /\ phase # "write" => done = 0

LEMMA NoPlan == IsPlan(<<>>)
<1>1. Len(<<>>) = 0 /\ DOMAIN <<>> = 1 .. 0
  OBVIOUS
<1> QED
  BY <1>1 DEF IsPlan

LEMMA OnePlan ==
    ASSUME NEW name \in Names, NEW data \in Value(name)
    PROVE  IsPlan(<<VarWrite(name, data)>>) /\ Len(<<VarWrite(name, data)>>) = 1
<1>1. PICK w : w = VarWrite(name, data)
  OBVIOUS
<1>2. Len(<<w>>) = 1 /\ DOMAIN <<w>> = 1 .. 1 /\ <<w>>[1] = w
  OBVIOUS
<1>3. w.name = name /\ w.data = data
  BY <1>1 DEF VarWrite
<1> QED
  BY <1>1, <1>2, <1>3 DEF IsPlan

LEMMA TwoPlan ==
    ASSUME NEW name \in Names, NEW data \in Value(name),
           NEW name2 \in Names, NEW data2 \in Value(name2)
    PROVE  IsPlan(<<VarWrite(name, data), VarWrite(name2, data2)>>)
           /\ Len(<<VarWrite(name, data), VarWrite(name2, data2)>>) = 2
<1>1. PICK v, w : v = VarWrite(name, data) /\ w = VarWrite(name2, data2)
  OBVIOUS
<1>2. Len(<<v, w>>) = 2 /\ DOMAIN <<v, w>> = 1 .. 2 /\ <<v, w>>[1] = v /\ <<v, w>>[2] = w
  OBVIOUS
<1>3. v.name = name /\ v.data = data /\ w.name = name2 /\ w.data = data2
  BY <1>1 DEF VarWrite
<1>4. \A i \in 1 .. 2 : i = 1 \/ i = 2
  OBVIOUS
<1> QED
  BY <1>1, <1>2, <1>3, <1>4 DEF IsPlan

\* An order that can be read is one of slots.
LEMMA OrdersAre ==
    ASSUME IsStore(nvram), NEW order \in OrdersRead
    PROVE  order \in Seq(Slots) /\ SlotsOf(order) = Ordered(nvram)
<1>1. nvram[BootOrder] \in Seq(Slots) \cup {Garbled, Absent}
  BY BootsAre, ValuesAre DEF IsStore
<1>2. CASE nvram[BootOrder] = Absent
  <2>1. order = <<>>
    BY <1>2 DEF OrdersRead
  <2>2. <<>> \in Seq(Slots) /\ DOMAIN <<>> = {}
    OBVIOUS
  <2>3. SlotsOf(<<>>) = {}
    BY <2>2 DEF SlotsOf
  <2> QED
    BY <1>2, <2>1, <2>2, <2>3 DEF Ordered
<1>3. CASE nvram[BootOrder] # Absent
  BY <1>1, <1>3 DEF OrdersRead, Ordered
<1> QED
  BY <1>2, <1>3

LEMMA CaptureTyped ==
    ASSUME IsStore(nvram), NEW missed
    PROVE  IsCopy(Capture(missed))
<1> DEFINE held == {name \in Names : nvram[name] # Absent} \ missed
<1>1. Capture(missed).vars = [name \in held |-> nvram[name]]
      /\ Capture(missed).partial \in BOOLEAN
  BY DEF Capture
<1>2. \A name \in held : name \in Names /\ nvram[name] \in Value(name)
  BY DEF IsStore
<1> HIDE DEF held
<1> QED
  BY <1>1, <1>2 DEF IsCopy

LEMMA SaveTyped ==
    ASSUME FunnelInv, Save
    PROVE  (\A saved \in files' : IsCopy(saved) /\ DOMAIN saved.vars # {}) /\ taken' \in BOOLEAN
<1>1. PICK missed \in Misses :
        DOMAIN Capture(missed).vars # {} /\ files' = files \cup {Capture(missed)}
  BY DEF Save
<1>2. IsCopy(Capture(missed))
  BY CaptureTyped DEF FunnelInv
<1> QED
  BY <1>1, <1>2 DEF Save, FunnelInv

LEMMA ProposeTyped ==
    ASSUME FunnelInv, NEW name \in {"register", "default", "once", "restore"}, NEW writes,
           Propose(name, writes), IsPlan(writes), Len(writes) # 0
    PROVE  FunnelInv'
<1>1. 0 < Len(writes)
  BY DEF IsPlan
<1> QED
  BY <1>1 DEF FunnelInv, Propose

LEMMA WriteTyped ==
    ASSUME FunnelInv, phase = "write"
    PROVE  /\ plan[done + 1].name \in Names
           /\ plan[done + 1].data \in Value(plan[done + 1].name)
           /\ plan[done + 1].data # Absent
           /\ IsStore([nvram EXCEPT ![plan[done + 1].name] = plan[done + 1].data])
<1>1. PICK w : w = plan[done + 1]
  OBVIOUS
<1>2. w.name \in Names /\ w.data \in Value(w.name)
  <2>1. PICK n \in Nat : n = Len(plan) /\ done < n /\ done \in Nat
    BY DEF FunnelInv, IsPlan
  <2>2. done + 1 \in 1 .. Len(plan)
    BY <2>1
  <2> QED
    BY <1>1, <2>2 DEF FunnelInv, IsPlan
<1>3. w.data # Absent
  BY <1>2, KindsAssumption
<1>4. PICK v, n : v = w.data /\ n = w.name
  OBVIOUS
<1>5. IsStore([nvram EXCEPT ![n] = v])
  BY <1>2, <1>4 DEF FunnelInv, IsStore
<1> QED
  BY <1>1, <1>2, <1>3, <1>4, <1>5

LEMMA FunnelStep == FunnelInv /\ [Next]_vars => FunnelInv'
<1> SUFFICES ASSUME FunnelInv, [Next]_vars PROVE FunnelInv'
  OBVIOUS
<1>1. CASE RunBootRegister
  <2>1. PICK found \in WalksForRegister, order \in OrdersRead,
             loader \in Loaders, first \in BOOLEAN :
          /\ Slots \ found # {}
          /\ Propose("register", PlanRegister(NextFreeSlot(found), loader, order, first))
    BY <1>1 DEF RunBootRegister
  <2>2. PICK slot : slot = NextFreeSlot(found)
    OBVIOUS
  <2>3. slot \in Slots /\ order \in Seq(Slots)
    BY <2>1, <2>2, NextFreeSlotFree, OrdersAre DEF FunnelInv
  <2>4. PICK next : next = IF first THEN Reorder(slot, order)
                           ELSE Append(Without(slot, order), slot)
    OBVIOUS
  <2>5. next \in Value(BootOrder) /\ loader \in Value(Boot(slot))
    BY <2>3, <2>4, OrderPlanned, ValuesAre
  <2>6. PlanRegister(slot, loader, order, first)
          = <<VarWrite(Boot(slot), loader), VarWrite(BootOrder, next)>>
    BY <2>4 DEF PlanRegister
  <2>7. IsPlan(PlanRegister(slot, loader, order, first))
        /\ Len(PlanRegister(slot, loader, order, first)) = 2
    BY <2>3, <2>5, <2>6, BootsAre, TwoPlan
  <2> QED
    BY <2>1, <2>2, <2>7, ProposeTyped
<1>2. CASE RunBootDefault
  <2>1. PICK found \in Walks, order \in OrdersRead : \E slot \in found :
          Propose("default", PlanSetDefault(slot, order))
    BY <1>2 DEF RunBootDefault
  <2>2. PICK slot \in found : Propose("default", PlanSetDefault(slot, order))
    BY <2>1
  <2>3. slot \in Slots /\ order \in Seq(Slots)
    BY OrdersAre DEF FunnelInv, Walks, Present
  <2>4. Reorder(slot, order) \in Value(BootOrder)
    BY <2>3, OrderPlanned, ValuesAre
  <2>5. IsPlan(PlanSetDefault(slot, order)) /\ Len(PlanSetDefault(slot, order)) = 1
    BY <2>4, BootsAre, OnePlan DEF PlanSetDefault
  <2> QED
    BY <2>2, <2>5, ProposeTyped
<1>3. CASE RunBootOnce
  <2>1. PICK found \in Walks : \E slot \in found : Propose("once", PlanBootNext(slot))
    BY <1>3 DEF RunBootOnce
  <2>2. PICK slot \in found : Propose("once", PlanBootNext(slot))
    BY <2>1
  <2>3. slot \in Value(BootNext)
    BY ValuesAre DEF Walks, Present
  <2>4. IsPlan(PlanBootNext(slot)) /\ Len(PlanBootNext(slot)) = 1
    BY <2>3, BootsAre, OnePlan DEF PlanBootNext
  <2> QED
    BY <2>2, <2>4, ProposeTyped
<1>4. CASE RunBootRestore
  <2>1. PICK saved \in files : Propose("restore", PlanRestore(saved))
    BY <1>4 DEF RunBootRestore
  <2>2. IsPlan(PlanRestore(saved)) /\ Len(PlanRestore(saved)) # 0
    BY RestoreIsPlan DEF FunnelInv
  <2> QED
    BY <2>1, <2>2, ProposeTyped
<1>5. CASE RunBootBackup
  BY <1>5, SaveTyped DEF RunBootBackup, FunnelInv, IsCopy
<1>6. CASE SnapshotReady
  BY <1>6, SaveTyped DEF SnapshotReady, FunnelInv
<1>7. CASE SnapshotFailed \/ Cancelled \/ WriteRefused
  BY <1>7, NoPlan DEF SnapshotFailed, Cancelled, WriteRefused, Unsaved, Return, Stop, FunnelInv
<1>8. CASE Confirmed
  BY <1>8 DEF Confirmed, FunnelInv
<1>9. CASE WriteVariable
  <2>1. IsStore(nvram')
    BY <1>9, WriteTyped DEF WriteVariable
  <2>2. CASE done + 1 < Len(plan)
    BY <1>9, <2>1, <2>2 DEF WriteVariable, FunnelInv
  <2>3. CASE ~(done + 1 < Len(plan))
    BY <1>9, <2>1, <2>3, NoPlan DEF WriteVariable, Stop, FunnelInv
  <2> QED
    BY <2>2, <2>3
<1>10. CASE Reset
  <2>1. IsStore([nvram EXCEPT ![BootNext] = Absent])
    BY BootsAre DEF FunnelInv, IsStore
  <2>2. IsStore(nvram') /\ start' = nvram'
    BY <1>10, <2>1, MachinesAssumption DEF Reset
  <2>3. session' \in 0 .. MaxSessions
    BY <1>10, BoundsAssumption DEF Reset, FunnelInv
  <2>4. plan' = <<>> /\ IsPlan(plan')
    BY <1>10, NoPlan DEF Reset, Stop
  <2> QED
    BY <1>10, <2>2, <2>3, <2>4 DEF Reset, Stop, FunnelInv
<1>11. CASE UNCHANGED vars
  BY <1>11 DEF vars, FunnelInv
<1> QED
  BY <1>1, <1>2, <1>3, <1>4, <1>5, <1>6, <1>7, <1>8, <1>9, <1>10, <1>11 DEF Next

LEMMA FunnelStart == Init => FunnelInv
<1> SUFFICES ASSUME Init PROVE FunnelInv
  OBVIOUS
<1>1. session \in 0 .. MaxSessions
  BY BoundsAssumption DEF Init
<1>2. plan = <<>> /\ IsPlan(plan)
  BY NoPlan DEF Init
<1>3. IsStore(nvram) /\ IsStore(start)
  BY MachinesAssumption DEF Init
<1> QED
  BY <1>1, <1>2, <1>3 DEF Init, FunnelInv

\* The variables hold what they should, and every write names a variable of the
\* store and gives it a value such a variable may have.
THEOREM BootVarsTyped == Spec => []TypeOK
<1>1. FunnelInv => TypeOK
  BY DEF FunnelInv, IsPlan, TypeOK
<1> QED
  BY <1>1, FunnelStart, FunnelStep, PTL DEF Spec

-----------------------------------------------------------------------------
(* Nothing is left dangling                                                *)

\* What is still to be written names nothing that is not there: an order holds
\* what the order held and a slot with an entry, or one whose entry is written
\* first, and a restore has put back every entry it holds before it gets to what
\* may name one.
PointInv ==
    /\ op = "register" =>
         \E slot \in Slots, loader \in Loaders : \E order :
           /\ order \in Seq(Slots)
           /\ plan = << VarWrite(Boot(slot), loader), VarWrite(BootOrder, order) >>
           /\ SlotsOf(order) = Ordered(nvram) \cup {slot}
           /\ done = 1 => slot \in Present(nvram)
    /\ op = "default" =>
         \E slot \in Present(nvram) : \E order :
           /\ order \in Seq(Slots)
           /\ plan = << VarWrite(BootOrder, order) >>
           /\ SlotsOf(order) = Ordered(nvram) \cup {slot}
    /\ op = "once" => \E slot \in Present(nvram) : plan = << VarWrite(BootNext, slot) >>
    /\ op = "restore" =>
         /\ EntriesFirst(plan)
         /\ \A i \in 1 .. done : plan[i].name \in Entries => nvram[plan[i].name] # Absent

\* What a write may be.
Entry(name) == name \in Entries

OrderOf(name, data) ==
    /\ op # "restore" /\ name = BootOrder /\ data \in Seq(Slots)
    /\ \E slot \in Present(nvram) : SlotsOf(data) = Ordered(nvram) \cup {slot}

NextOf(name, data) == op # "restore" /\ name = BootNext /\ data \in Present(nvram)

PutBack(name) ==
    /\ op = "restore" /\ name \in Settings
    /\ \A i \in 1 .. Len(plan) : plan[i].name \in Entries => nvram[plan[i].name] # Absent

LEMMA WriteIs ==
    ASSUME FunnelInv, PointInv, phase = "write",
           NEW name, NEW data, name = plan[done + 1].name, data = plan[done + 1].data
    PROVE  Entry(name) \/ OrderOf(name, data) \/ NextOf(name, data) \/ PutBack(name)
<1>1. done \in Nat /\ done < Len(plan) /\ Len(plan) \in Nat /\ op # "none"
  BY DEF FunnelInv, IsPlan
<1>2. CASE op = "register"
  <2>1. PICK slot \in Slots, loader \in Loaders : \E order :
           /\ order \in Seq(Slots)
           /\ plan = << VarWrite(Boot(slot), loader), VarWrite(BootOrder, order) >>
           /\ SlotsOf(order) = Ordered(nvram) \cup {slot}
           /\ done = 1 => slot \in Present(nvram)
    BY <1>2 DEF PointInv
  <2>2. PICK order :
           /\ order \in Seq(Slots)
           /\ plan = << VarWrite(Boot(slot), loader), VarWrite(BootOrder, order) >>
           /\ SlotsOf(order) = Ordered(nvram) \cup {slot}
           /\ done = 1 => slot \in Present(nvram)
    BY <2>1
  <2>3. Len(plan) = 2 /\ plan[1].name = Boot(slot)
        /\ plan[2].name = BootOrder /\ plan[2].data = order
    BY <2>2 DEF VarWrite
  <2>4. done = 0 \/ done = 1
    BY <1>1, <2>3
  <2>5. CASE done = 0
    BY <2>3, <2>5, BootsAre DEF Entry
  <2>6. CASE done = 1
    <3>1. name = BootOrder /\ data = order
      BY <2>3, <2>6
    <3> QED
      BY <1>2, <2>2, <2>6, <3>1 DEF OrderOf
  <2> QED
    BY <2>4, <2>5, <2>6
<1>3. CASE op = "default"
  <2>1. PICK slot \in Present(nvram) : \E order :
           /\ order \in Seq(Slots)
           /\ plan = << VarWrite(BootOrder, order) >>
           /\ SlotsOf(order) = Ordered(nvram) \cup {slot}
    BY <1>3 DEF PointInv
  <2>2. PICK order : /\ order \in Seq(Slots)
                     /\ plan = << VarWrite(BootOrder, order) >>
                     /\ SlotsOf(order) = Ordered(nvram) \cup {slot}
    BY <2>1
  <2>3. Len(plan) = 1 /\ plan[1].name = BootOrder /\ plan[1].data = order
    BY <2>2 DEF VarWrite
  <2>4. done = 0
    BY <1>1, <2>3
  <2>5. name = BootOrder /\ data = order
    BY <2>3, <2>4
  <2> QED
    BY <1>3, <2>2, <2>5 DEF OrderOf
<1>4. CASE op = "once"
  <2>1. PICK slot \in Present(nvram) : plan = << VarWrite(BootNext, slot) >>
    BY <1>4 DEF PointInv
  <2>2. Len(plan) = 1 /\ plan[1].name = BootNext /\ plan[1].data = slot
    BY <2>1 DEF VarWrite
  <2>3. done = 0
    BY <1>1, <2>2
  <2>4. name = BootNext /\ data = slot
    BY <2>2, <2>3
  <2> QED
    BY <1>4, <2>4 DEF NextOf
<1>5. CASE op = "restore"
  <2>1. EntriesFirst(plan)
        /\ \A i \in 1 .. done : plan[i].name \in Entries => nvram[plan[i].name] # Absent
    BY <1>5 DEF PointInv
  <2>2. name \in Names
    BY WriteTyped
  <2>3. ASSUME name \notin Entries PROVE PutBack(name)
    <3>1. name \in Settings
      BY <2>2, <2>3 DEF Names
    <3>2. ASSUME NEW i \in 1 .. Len(plan), plan[i].name \in Entries PROVE i \in 1 .. done
      <4>1. done + 1 \in 1 .. Len(plan)
        BY <1>1
      <4>2. ~(done + 1 < i)
        BY <2>1, <2>3, <3>2, <4>1 DEF EntriesFirst
      <4>3. i # done + 1
        BY <2>3, <3>2
      <4> QED
        BY <1>1, <4>2, <4>3
    <3> QED
      BY <1>5, <2>1, <3>1, <3>2 DEF PutBack
  <2> QED
    BY <2>3 DEF Entry
<1> QED
  BY <1>1, <1>2, <1>3, <1>4, <1>5 DEF FunnelInv

\* What a write of a variable does to what is there and what is named.
LEMMA WriteShows ==
    ASSUME FunnelInv, WriteVariable,
           NEW name, NEW data, name = plan[done + 1].name, data = plan[done + 1].data
    PROVE  /\ name \in Names /\ data \in Value(name) /\ data # Absent
           /\ \A n \in Names : nvram'[n] = IF n = name THEN data ELSE nvram[n]
           /\ Present(nvram) \subseteq Present(nvram')
           /\ name \notin Entries => Present(nvram') = Present(nvram)
           /\ name # BootOrder => Ordered(nvram') = Ordered(nvram)
           /\ name # BootNext => nvram'[BootNext] = nvram[BootNext]
           /\ name = BootOrder /\ data \in Seq(Slots) => Ordered(nvram') = SlotsOf(data)
<1>1. name \in Names /\ data \in Value(name) /\ data # Absent
  BY WriteTyped DEF WriteVariable
<1>2. DOMAIN nvram = Names
  BY DEF FunnelInv, IsStore
<1>3. nvram' = [nvram EXCEPT ![name] = data]
  BY DEF WriteVariable
<1>4. \A n \in Names : nvram'[n] = IF n = name THEN data ELSE nvram[n]
  BY <1>2, <1>3
<1>5. Present(nvram) \subseteq Present(nvram')
  BY <1>1, <1>4, BootsAre DEF Present
<1>6. name \notin Entries => Present(nvram') = Present(nvram)
  BY <1>4, BootsAre DEF Present
<1>7. name # BootOrder => Ordered(nvram') = Ordered(nvram)
  BY <1>4, BootsAre DEF Ordered
<1>8. name # BootNext => nvram'[BootNext] = nvram[BootNext]
  BY <1>4, BootsAre
<1>9. name = BootOrder /\ data \in Seq(Slots) => Ordered(nvram') = SlotsOf(data)
  BY <1>1, <1>4, KindsAssumption DEF Ordered
<1> QED
  BY <1>1, <1>4, <1>5, <1>6, <1>7, <1>8, <1>9

LEMMA PointProposed ==
    ASSUME FunnelInv,
           RunBootRegister \/ RunBootDefault \/ RunBootOnce \/ RunBootRestore
    PROVE  PointInv'
<1>1. CASE RunBootRegister
  <2>1. PICK found \in WalksForRegister, order \in OrdersRead,
             loader \in Loaders, first \in BOOLEAN :
          /\ Slots \ found # {}
          /\ Propose("register", PlanRegister(NextFreeSlot(found), loader, order, first))
    BY <1>1 DEF RunBootRegister
  <2>2. PICK slot : slot = NextFreeSlot(found)
    OBVIOUS
  <2>3. slot \in Slots /\ order \in Seq(Slots) /\ SlotsOf(order) = Ordered(nvram)
    BY <2>1, <2>2, NextFreeSlotFree, OrdersAre DEF FunnelInv
  <2>4. PICK next : next = IF first THEN Reorder(slot, order)
                           ELSE Append(Without(slot, order), slot)
    OBVIOUS
  <2>5. next \in Seq(Slots) /\ SlotsOf(next) = Ordered(nvram) \cup {slot}
    BY <2>3, <2>4, OrderPlanned
  <2>6. plan' = <<VarWrite(Boot(slot), loader), VarWrite(BootOrder, next)>>
    BY <2>1, <2>2, <2>4 DEF Propose, PlanRegister
  <2>7. op' = "register" /\ done' = 0 /\ nvram' = nvram
    BY <2>1 DEF Propose, FunnelInv
  <2> QED
    BY <2>3, <2>5, <2>6, <2>7 DEF PointInv
<1>2. CASE RunBootDefault
  <2>1. PICK found \in Walks, order \in OrdersRead : \E slot \in found :
          Propose("default", PlanSetDefault(slot, order))
    BY <1>2 DEF RunBootDefault
  <2>2. PICK slot \in found : Propose("default", PlanSetDefault(slot, order))
    BY <2>1
  <2>3. slot \in Slots /\ slot \in Present(nvram)
        /\ order \in Seq(Slots) /\ SlotsOf(order) = Ordered(nvram)
    BY OrdersAre DEF FunnelInv, Walks, Present
  <2>4. PICK next : next = Reorder(slot, order)
    OBVIOUS
  <2>5. next \in Seq(Slots) /\ SlotsOf(next) = Ordered(nvram) \cup {slot}
    BY <2>3, <2>4, OrderPlanned
  <2>6. plan' = <<VarWrite(BootOrder, next)>> /\ op' = "default" /\ nvram' = nvram
    BY <2>2, <2>4 DEF Propose, PlanSetDefault
  <2> QED
    BY <2>3, <2>5, <2>6 DEF PointInv
<1>3. CASE RunBootOnce
  <2>1. PICK found \in Walks : \E slot \in found : Propose("once", PlanBootNext(slot))
    BY <1>3 DEF RunBootOnce
  <2>2. PICK slot \in found : Propose("once", PlanBootNext(slot))
    BY <2>1
  <2> QED
    BY <2>2 DEF PointInv, Propose, PlanBootNext, Walks
<1>4. CASE RunBootRestore
  <2>1. PICK saved \in files : Propose("restore", PlanRestore(saved))
    BY <1>4 DEF RunBootRestore
  <2>2. EntriesFirst(PlanRestore(saved))
    BY RestoreIsPlan DEF FunnelInv
  <2>3. plan' = PlanRestore(saved) /\ op' = "restore" /\ done' = 0
    BY <2>1 DEF Propose, FunnelInv
  <2>4. EntriesFirst(plan') /\ \A i : i \notin 1 .. done'
    BY <2>2, <2>3
  <2> QED
    BY <2>3, <2>4 DEF PointInv, EntriesFirst
<1> QED
  BY <1>1, <1>2, <1>3, <1>4

LEMMA PointWritten ==
    ASSUME FunnelInv, PointInv, WriteVariable, done + 1 < Len(plan)
    PROVE  PointInv'
<1>1. PICK name, data : name = plan[done + 1].name /\ data = plan[done + 1].data
  OBVIOUS
<1>2. op' = op /\ plan' = plan /\ done' = done + 1 /\ done \in Nat /\ Len(plan) \in Nat
      /\ phase = "write" /\ op # "none"
  BY DEF WriteVariable, FunnelInv, IsPlan
<1>3. CASE op = "register"
  <2>1. PICK slot \in Slots, loader \in Loaders : \E order :
           /\ order \in Seq(Slots)
           /\ plan = << VarWrite(Boot(slot), loader), VarWrite(BootOrder, order) >>
           /\ SlotsOf(order) = Ordered(nvram) \cup {slot}
    BY <1>3 DEF PointInv
  <2>2. PICK order :
           /\ order \in Seq(Slots)
           /\ plan = << VarWrite(Boot(slot), loader), VarWrite(BootOrder, order) >>
           /\ SlotsOf(order) = Ordered(nvram) \cup {slot}
    BY <2>1
  <2>3. Len(plan) = 2 /\ plan[1].name = Boot(slot)
    BY <2>2 DEF VarWrite
  <2>4. done = 0 /\ name = Boot(slot)
    BY <1>1, <1>2, <2>3
  <2>5. Ordered(nvram') = Ordered(nvram) /\ slot \in Present(nvram')
    BY <1>1, <2>4, WriteShows, BootsAre DEF Present
  <2> QED
    BY <1>2, <1>3, <2>2, <2>5 DEF PointInv
<1>4. CASE op \in {"default", "once"}
  <2>1. Len(plan) = 1
    BY <1>4 DEF PointInv
  <2> QED
    BY <1>2, <2>1
<1>5. CASE op = "restore"
  <2>1. EntriesFirst(plan)
        /\ \A i \in 1 .. done : plan[i].name \in Entries => nvram[plan[i].name] # Absent
    BY <1>5 DEF PointInv
  <2>2. \A n \in Names : nvram[n] # Absent \/ n = name => nvram'[n] # Absent
    BY <1>1, WriteShows
  <2>3. ASSUME NEW i \in 1 .. (done + 1), plan[i].name \in Entries
        PROVE  nvram'[plan[i].name] # Absent
    <3>1. plan[i].name \in Names
      BY <2>3 DEF Names
    <3>2. CASE i = done + 1
      BY <1>1, <2>2, <3>1, <3>2
    <3>3. CASE i # done + 1
      <4>1. i \in 1 .. done
        BY <1>2, <3>3
      <4> QED
        BY <2>1, <2>2, <2>3, <3>1, <4>1
    <3> QED
      BY <3>2, <3>3
  <2>4. EntriesFirst(plan')
        /\ \A i \in 1 .. done' : plan'[i].name \in Entries => nvram'[plan'[i].name] # Absent
    BY <1>2, <2>1, <2>3
  <2> QED
    BY <1>2, <1>5, <2>4 DEF PointInv, EntriesFirst
<1> QED
  BY <1>2, <1>3, <1>4, <1>5 DEF FunnelInv

LEMMA PointStep == FunnelInv /\ PointInv /\ [Next]_vars => PointInv'
<1> SUFFICES ASSUME FunnelInv, PointInv, [Next]_vars PROVE PointInv'
  OBVIOUS
<1>1. CASE RunBootRegister \/ RunBootDefault \/ RunBootOnce \/ RunBootRestore
  BY <1>1, PointProposed
<1>2. ASSUME UNCHANGED <<nvram, op, plan, done>> PROVE PointInv'
  BY <1>2 DEF PointInv, EntriesFirst, Ordered, Present
<1>3. ASSUME op' = "none" PROVE PointInv'
  BY <1>3 DEF PointInv
<1>4. CASE RunBootBackup \/ SnapshotReady \/ Confirmed \/ UNCHANGED vars
  BY <1>2, <1>4 DEF RunBootBackup, SnapshotReady, Confirmed, vars
<1>5. CASE SnapshotFailed
  BY <1>2, <1>3, <1>5 DEF SnapshotFailed, Unsaved, Return, Stop
<1>6. CASE Cancelled \/ WriteRefused \/ Reset
  BY <1>3, <1>6 DEF Cancelled, WriteRefused, Reset, Return, Stop
<1>7. CASE WriteVariable
  BY <1>3, <1>7, PointWritten DEF WriteVariable, Stop
<1> QED
  BY <1>1, <1>4, <1>5, <1>6, <1>7 DEF Next

LEMMA PointAlways == Spec => [](FunnelInv /\ PointInv)
<1>1. Init => PointInv
  BY DEF Init, PointInv
<1> QED
  BY <1>1, FunnelStart, FunnelStep, PointStep, PTL DEF Spec

\* In a session only a write changes the store.
LEMMA OnlyWritesChange ==
    ASSUME Next, session' = session, session \in 0 .. MaxSessions, ~WriteVariable
    PROVE  nvram' = nvram
<1>1. ~Reset
  BY BoundsAssumption DEF Reset
<1> QED
  BY <1>1 DEF Next, RunBootRegister, RunBootDefault, RunBootOnce, RunBootRestore,
     RunBootBackup, SnapshotReady, SnapshotFailed, Confirmed, Cancelled,
     WriteRefused, Propose

\* Spec => NoNewGap: no write, whether or not the next one follows, makes the
\* order or the next boot name a slot without an entry, unless a copy is put back
\* that does not hold the entry.
THEOREM NothingLeftDangling == Spec => NoNewGap
<1>1. FunnelInv /\ PointInv /\ [Next]_vars =>
        [session' = session =>
           \A slot \in Gaps(nvram') \ Gaps(nvram) :
             op = "restore" /\ \A i \in DOMAIN plan : plan[i].name # Boot(slot)]_vars
  <2> SUFFICES ASSUME FunnelInv, PointInv, Next, session' = session,
                      NEW slot \in Gaps(nvram') \ Gaps(nvram)
               PROVE  op = "restore" /\ \A i \in DOMAIN plan : plan[i].name # Boot(slot)
    OBVIOUS
  <2>1. WriteVariable
    BY OnlyWritesChange DEF FunnelInv
  <2>2. PICK name, data : name = plan[done + 1].name /\ data = plan[done + 1].data
    OBVIOUS
  <2>3. Entry(name) \/ OrderOf(name, data) \/ NextOf(name, data) \/ PutBack(name)
    BY <2>1, <2>2, WriteIs DEF WriteVariable
  <2>4. /\ name \in Names /\ data \in Value(name) /\ data # Absent
        /\ \A n \in Names : nvram'[n] = IF n = name THEN data ELSE nvram[n]
        /\ Present(nvram) \subseteq Present(nvram')
        /\ name \notin Entries => Present(nvram') = Present(nvram)
        /\ name # BootOrder => Ordered(nvram') = Ordered(nvram)
        /\ name # BootNext => nvram'[BootNext] = nvram[BootNext]
        /\ name = BootOrder /\ data \in Seq(Slots) => Ordered(nvram') = SlotsOf(data)
    BY <2>1, <2>2, WriteShows
  <2>5. slot \notin Present(nvram') /\ slot \notin Present(nvram)
        /\ slot \in Ordered(nvram') \cup ({nvram'[BootNext]} \ {Absent})
        /\ slot \notin Ordered(nvram) \cup ({nvram[BootNext]} \ {Absent})
    BY <2>4 DEF Gaps
  <2>6. ~Entry(name)
    BY <2>4, <2>5, BootsAre DEF Entry
  <2>7. ~OrderOf(name, data)
    BY <2>4, <2>5, BootsAre DEF OrderOf
  <2>8. ~NextOf(name, data)
    BY <2>4, <2>5, BootsAre DEF NextOf
  <2>9. PutBack(name)
    BY <2>3, <2>6, <2>7, <2>8
  <2>10. ASSUME NEW i \in DOMAIN plan, plan[i].name = Boot(slot) PROVE FALSE
    <3>1. i \in 1 .. Len(plan) /\ plan[i].name \in Names
      BY DEF FunnelInv, IsPlan
    <3>2. Boot(slot) \notin Settings
      BY DEF Boot, Settings, Timeout, BootOrder, BootNext
    <3>3. Boot(slot) \in Entries
      BY <2>10, <3>1, <3>2 DEF Names
    <3>4. slot \in Slots
      BY <3>3 DEF Entries, Boot
    <3>5. nvram[Boot(slot)] # Absent
      BY <2>9, <2>10, <3>1, <3>3 DEF PutBack
    <3> QED
      BY <2>5, <3>4, <3>5 DEF Present
  <2> QED
    BY <2>9, <2>10 DEF PutBack
<1> QED
  BY <1>1, PointAlways, PTL DEF Spec, NoNewGap

\* Spec => OrderKeepsSlots: registering, setting the default and booting once
\* leave in the order whatever was in it.
THEOREM OrderLosesNothing == Spec => OrderKeepsSlots
<1>1. FunnelInv /\ PointInv /\ [Next]_vars =>
        [session' = session /\ op # "restore" => Ordered(nvram) \subseteq Ordered(nvram')]_vars
  <2> SUFFICES ASSUME FunnelInv, PointInv, Next, session' = session, op # "restore"
               PROVE  Ordered(nvram) \subseteq Ordered(nvram')
    OBVIOUS
  <2>1. CASE ~WriteVariable
    BY <2>1, OnlyWritesChange DEF FunnelInv
  <2>2. CASE WriteVariable
    <3>1. PICK name, data : name = plan[done + 1].name /\ data = plan[done + 1].data
      OBVIOUS
    <3>2. Entry(name) \/ OrderOf(name, data) \/ NextOf(name, data)
      BY <2>2, <3>1, WriteIs DEF WriteVariable, PutBack
    <3>3. /\ name # BootOrder => Ordered(nvram') = Ordered(nvram)
          /\ name = BootOrder /\ data \in Seq(Slots) => Ordered(nvram') = SlotsOf(data)
      BY <2>2, <3>1, WriteShows
    <3> QED
      BY <3>2, <3>3, BootsAre DEF Entry, OrderOf, NextOf
  <2> QED
    BY <2>1, <2>2
<1> QED
  BY <1>1, PointAlways, PTL DEF Spec, OrderKeepsSlots
=============================================================================
