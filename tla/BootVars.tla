------------------------------ MODULE BootVars ------------------------------
(***************************************************************************)
(* The firmware's boot configuration and the operations that change it:    *)
(* register, set the default, boot once, back up and restore, each through *)
(* the one funnel that shows the plan, saves a copy, asks and then writes  *)
(* (bootopt.rs, bootcfg.rs, nvram.rs, main.rs).                            *)
(*                                                                         *)
(* NVRAM is a function from variable names to data.  Writes are durable    *)
(* one variable at a time; the firmware may refuse any of them, and the    *)
(* machine may lose power or be reset between any two.                     *)
(***************************************************************************)
EXTENDS Integers, Sequences, FiniteSets

CONSTANTS
    MaxSlot,       \* the last boot slot: 16^4 - 1
    Loaders,       \* the loaders on the ESPs
    Corrupt,       \* a Boot#### that does not decode
    Garbled,       \* a BootOrder of odd length
    Absent,        \* a variable that is not in the store
    Timeouts,      \* values of Timeout
    Machines,      \* the boot configurations a session may find
    Misses,        \* the sets of names a copy of NVRAM may fail to read
    MaxSessions,   \* bounds the resets
    MaxFiles       \* bounds the saved copies

Slots == 0..MaxSlot

ASSUME SlotsAssumption == MaxSlot \in Nat
ASSUME BoundsAssumption == MaxSessions \in Nat /\ MaxFiles \in Nat

-----------------------------------------------------------------------------
(* Variables of the store                                                  *)

Boot(slot) == <<"Boot", slot>>
BootOrder == <<"BootOrder">>
BootNext == <<"BootNext">>
Timeout == <<"Timeout">>

Entries == {Boot(s) : s \in Slots}
Settings == {BootOrder, BootNext, Timeout}
Names == Entries \cup Settings

\* may_write: the names a write may have, the same a copy holds.
Value(name) ==
    IF name \in Entries THEN Loaders \cup {Corrupt}
    ELSE IF name = BootOrder THEN Seq(Slots) \cup {Garbled}
    ELSE IF name = BootNext THEN Slots
    ELSE Timeouts

IsStore(n) == DOMAIN n = Names /\ \A name \in Names : n[name] \in Value(name) \cup {Absent}

\* No variable can hold what marks it absent, no order what marks it garbled.
ASSUME KindsAssumption ==
    /\ \A name \in Names : Absent \notin Value(name)
    /\ Garbled \notin Seq(Slots)
ASSUME MachinesAssumption == \A n \in Machines : IsStore(n)
ASSUME MissesAssumption == Misses \subseteq SUBSET Names

VARIABLES
    nvram,     \* the variable store
    files,     \* the copies saved so far: [vars, partial]
    taken,     \* a copy was saved in this session
    phase,     \* where the funnel is
    op,        \* the operation the funnel is in
    plan,      \* the writes it will make
    done,      \* how many of them have landed
    session,   \* the resets so far
    start,     \* history: the store when the session began
    waived     \* history: whether the operator goes, or went, on without a copy

vars == <<nvram, files, taken, phase, op, plan, done, session, start, waived>>

VarWrite(name, data) == [name |-> name, data |-> data]

\* Slots with an entry, decodable or not: what the walk over the store finds.
Present(n) == {s \in Slots : n[Boot(s)] # Absent}

SlotsOf(order) == {order[i] : i \in DOMAIN order}

Ordered(n) == IF n[BootOrder] \in {Absent, Garbled} THEN {} ELSE SlotsOf(n[BootOrder])

\* Slots that are named, by the order or as the next boot, with no entry there.
Gaps(n) == (Ordered(n) \cup ({n[BootNext]} \ {Absent})) \ Present(n)

-----------------------------------------------------------------------------
(* Plans                                                                   *)

\* What a sequence holds of S, in its order: SelectSeq, as a function whose every
\* step can be reasoned about.
KeptIn(S, seq) ==
    LET kept[i \in 0..Len(seq)] ==
            IF i = 0 THEN <<>>
            ELSE IF seq[i] \in S THEN Append(kept[i - 1], seq[i]) ELSE kept[i - 1]
    IN  kept[Len(seq)]

Without(slot, order) == KeptIn(Slots \ {slot}, order)

NextFreeSlot(taken_slots) ==
    CHOOSE s \in Slots \ taken_slots : \A t \in Slots \ taken_slots : s <= t

Reorder(slot, order) == <<slot>> \o Without(slot, order)

\* Mutant: the order is written before the entry it names.
PlanRegisterOrderFirst(slot, loader, order, first) ==
    << VarWrite(BootOrder, IF first THEN Reorder(slot, order)
                           ELSE Append(Without(slot, order), slot)),
       VarWrite(Boot(slot), loader) >>

PlanRegister(slot, loader, order, first) ==
    << VarWrite(Boot(slot), loader),
       VarWrite(BootOrder, IF first THEN Reorder(slot, order)
                           ELSE Append(Without(slot, order), slot)) >>

PlanSetDefault(slot, order) == << VarWrite(BootOrder, Reorder(slot, order)) >>

PlanBootNext(slot) == << VarWrite(BootNext, slot) >>

\* Entries, then Timeout, then BootOrder, then BootNext; a name the copy does
\* not hold is not written.
RestoreOrder ==
    [i \in 1..(MaxSlot + 1) |-> Boot(i - 1)] \o <<Timeout, BootOrder, BootNext>>

PlanRestore(saved) ==
    LET all == KeptIn(DOMAIN saved.vars, RestoreOrder)
    IN  [i \in DOMAIN all |-> VarWrite(all[i], saved.vars[all[i]])]

-----------------------------------------------------------------------------
(* Reading                                                                 *)

\* Mutant: an order that cannot be read is taken for an empty one.
OrdersReadOrEmpty ==
    IF nvram[BootOrder] \in {Absent, Garbled} THEN {<<>>} ELSE {nvram[BootOrder], <<>>}

\* What reading BootOrder may give an operation that refuses to go on without.
OrdersRead ==
    IF nvram[BootOrder] = Garbled THEN {}
    ELSE {IF nvram[BootOrder] = Absent THEN <<>> ELSE nvram[BootOrder]}

\* The walk over the store may be cut short: any of the entries may be missing.
Walks == SUBSET Present(nvram)

\* Mutant: a walk that was cut short is good enough to choose a slot from.
WalksForRegisterCut == Walks

\* Registering refuses a walk that did not reach the end.
WalksForRegister == {Present(nvram)}

-----------------------------------------------------------------------------
(* Copies of the store                                                     *)

\* nvram::capture and the file it goes to.  A name that cannot be read, or that
\* a walk cut short did not reach, is left out, and the copy says so.
Capture(missed) ==
    LET held == {name \in Names : nvram[name] # Absent} \ missed
    IN  [vars |-> [name \in held |-> nvram[name]], partial |-> missed # {}]

\* take_boot_snapshot, onto a volume that takes it; an empty copy is an error.
Save ==
    /\ Cardinality(files) < MaxFiles
    /\ \E missed \in Misses :
         /\ DOMAIN Capture(missed).vars # {}
         /\ files' = files \cup {Capture(missed)}
    /\ taken' = TRUE

-----------------------------------------------------------------------------
(* The funnel: authorise_and_write                                         *)

Stop == phase' = "menu" /\ op' = "none" /\ plan' = <<>> /\ done' = 0

Return ==
    /\ Stop
    /\ waived' = IF waived = "agreed" THEN "no" ELSE waived

\* The operator chose, and accepted the page that shows the plan.
Propose(name, writes) ==
    /\ phase = "menu"
    /\ phase' = "snapshot"
    /\ op' = name
    /\ plan' = writes
    /\ UNCHANGED <<nvram, files, taken, done, session, start, waived>>

RunBootRegister ==
    \E found \in WalksForRegister, order \in OrdersRead,
       loader \in Loaders, first \in BOOLEAN :
      /\ loader \notin {nvram[Boot(s)] : s \in found}
      /\ Slots \ found # {}
      /\ Propose("register", PlanRegister(NextFreeSlot(found), loader, order, first))

RunBootDefault ==
    \E found \in Walks, order \in OrdersRead : \E slot \in found :
      /\ ~(order # <<>> /\ order[1] = slot)
      /\ Propose("default", PlanSetDefault(slot, order))

RunBootOnce ==
    \E found \in Walks : \E slot \in found : Propose("once", PlanBootNext(slot))

RunBootRestore == \E saved \in files : Propose("restore", PlanRestore(saved))

RunBootBackup ==
    /\ phase = "menu"
    /\ Save
    /\ UNCHANGED <<nvram, phase, op, plan, done, session, start, waived>>

\* ensure_boot_snapshot: the session's copy is there, or is made now.
SnapshotReady ==
    /\ phase = "snapshot"
    /\ IF taken THEN UNCHANGED <<files, taken>> ELSE Save
    /\ phase' = "confirm"
    /\ UNCHANGED <<nvram, op, plan, done, session, start, waived>>

\* The operator goes on without a copy.
Unsaved ==
    /\ phase' = "confirm"
    /\ waived' = IF waived = "no" THEN "agreed" ELSE waived
    /\ UNCHANGED <<op, plan, done>>

\* Mutant: the attempt to save a copy counts, whatever became of it.
SnapshotFailedCounts ==
    /\ phase = "snapshot"
    /\ ~taken
    /\ taken' = TRUE
    /\ \/ Unsaved
       \/ Return
    /\ UNCHANGED <<nvram, files, session, start>>

\* No volume took the copy: the operator goes on without one, or does not.  The
\* next write of the session tries again.
SnapshotFailed ==
    /\ phase = "snapshot"
    /\ ~taken
    /\ UNCHANGED <<nvram, files, taken, session, start>>
    /\ \/ Unsaved
       \/ Return

\* The confirmation sequence.
Confirmed ==
    /\ phase = "confirm"
    /\ phase' = "write"
    /\ UNCHANGED <<nvram, files, taken, op, plan, done, session, start, waived>>

Cancelled ==
    /\ phase \in {"snapshot", "confirm"}
    /\ UNCHANGED <<nvram, files, taken, session, start>>
    /\ Return

-----------------------------------------------------------------------------
(* nvram::apply                                                            *)

WriteVariable ==
    /\ phase = "write"
    /\ LET w == plan[done + 1] IN nvram' = [nvram EXCEPT ![w.name] = w.data]
    /\ IF done + 1 < Len(plan)
       THEN done' = done + 1 /\ UNCHANGED <<phase, op, plan>>
       ELSE Stop
    /\ waived' = IF waived = "agreed" THEN "yes" ELSE waived
    /\ UNCHANGED <<files, taken, session, start>>

\* The firmware refuses a variable: locked, Secure Boot policy or no room.
WriteRefused ==
    /\ phase = "write"
    /\ UNCHANGED <<nvram, files, taken, session, start>>
    /\ Return

\* A reset or a power cut, at any moment, and the next session.  In between the
\* firmware consumes BootNext, and what boots may leave any configuration.
Reset ==
    /\ session < MaxSessions
    /\ session' = session + 1
    /\ nvram' \in {[nvram EXCEPT ![BootNext] = Absent]} \cup Machines
    /\ start' = nvram'
    /\ taken' = FALSE
    /\ Stop
    /\ waived' = "no"
    /\ UNCHANGED files

Init ==
    /\ nvram \in Machines
    /\ start = nvram
    /\ files = {}
    /\ taken = FALSE
    /\ phase = "menu"
    /\ op = "none"
    /\ plan = <<>>
    /\ done = 0
    /\ session = 0
    /\ waived = "no"

Next ==
    \/ RunBootRegister \/ RunBootDefault \/ RunBootOnce
    \/ RunBootRestore \/ RunBootBackup
    \/ SnapshotReady \/ SnapshotFailed \/ Confirmed \/ Cancelled
    \/ WriteVariable \/ WriteRefused \/ Reset

Spec == Init /\ [][Next]_vars

-----------------------------------------------------------------------------
(* Properties                                                              *)

IsCopy(saved) ==
    /\ DOMAIN saved.vars \subseteq Names
    /\ \A name \in DOMAIN saved.vars : saved.vars[name] \in Value(name)
    /\ saved.partial \in BOOLEAN

\* Every variable keeps its type; every write names a variable of the store and
\* gives it a value such a variable may have.
TypeOK ==
    /\ IsStore(nvram) /\ IsStore(start)
    /\ \A saved \in files : IsCopy(saved)
    /\ taken \in BOOLEAN /\ waived \in {"no", "agreed", "yes"}
    /\ phase \in {"menu", "snapshot", "confirm", "write"}
    /\ op \in {"none", "register", "default", "once", "restore"}
    /\ \A i \in DOMAIN plan : plan[i].name \in Names /\ plan[i].data \in Value(plan[i].name)
    /\ done \in 0..Len(plan)
    /\ phase = "write" => done < Len(plan)
    /\ session \in 0..MaxSessions

\* A saved copy of store n, as far as the copy claims to be one.
CopyOf(saved, n) ==
    \A name \in Names :
      IF name \in DOMAIN saved.vars THEN saved.vars[name] = n[name]
      ELSE n[name] = Absent \/ saved.partial

\* As soon as the session has changed anything there is a copy of the store as
\* the session found it, unless the operator chose to go on without.
FirstChangeSaved ==
    nvram # start /\ waived # "yes" => \E saved \in files : CopyOf(saved, start)

\* No write, completed or not followed by the next, makes the order or the next
\* boot name a slot that holds no entry, except where a copy that lacks the
\* entry is put back.
NoNewGap ==
    [][session' = session =>
         \A slot \in Gaps(nvram') \ Gaps(nvram) :
           op = "restore" /\ \A i \in DOMAIN plan : plan[i].name # Boot(slot)]_vars

\* Registering a loader never replaces an entry, readable or not, that the
\* store holds when the write is made.
RegisterOnlyAdds ==
    [][session' = session /\ op = "register" =>
         \A slot \in Present(nvram) : nvram'[Boot(slot)] = nvram[Boot(slot)]]_vars

\* Registering and setting the default keep every slot that is in the order.
OrderKeepsSlots ==
    [][session' = session /\ op # "restore" => Ordered(nvram) \subseteq Ordered(nvram')]_vars

=============================================================================
