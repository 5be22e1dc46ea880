------------------------------- MODULE Repair -------------------------------
(***************************************************************************)
(* The repair operation: analyze the disk, plan, apply, and be interrupted *)
(* anywhere (repair.rs; main.rs runs it once per menu choice, so after an  *)
(* interruption the next attempt starts from a fresh analysis).            *)
(***************************************************************************)
EXTENDS Apply

-----------------------------------------------------------------------------
(* The plan                                                                *)

ProtectiveMbr == [mbr |-> "Protective"]

\* Mutant: the alternate pointer of the source is copied, not chosen.
MainHeaderCopied(src) == [src EXCEPT !.my = 1, !.elba = 2]

MainHeader(src) == [src EXCEPT !.my = 1, !.alt = LastBlock, !.elba = 2]

\* Mutant: the corrected secondary takes the LBA of the main header.
CorrectedSecondaryAsMain(src) == [src EXCEPT !.my = 1, !.alt = 1]

CorrectedSecondary(src) == [src EXCEPT !.my = LastBlock, !.alt = 1]

\* The steps that are in the plan only under a condition.
When(condition, step) == IF condition THEN <<step>> ELSE <<>>

MbrPlan == <<Write(0, <<ProtectiveMbr>>), Flush>>

\* Mutant: no barrier between the array and the header that points at it.
MainPlanOneFlush(d) ==
    LET src == HeaderAt(d, LastBlock)
    IN  << Write(2, Content(d, src.elba, src.n)), Write(1, <<MainHeader(src)>>) >>
        \o When(OnlyWrongAlternate(d, LastBlock),
                Write(LastBlock, <<CorrectedSecondary(src)>>))
        \o << Flush >>

MainPlan(d) ==
    LET src == HeaderAt(d, LastBlock)
    IN  << Write(2, Content(d, src.elba, src.n)), Flush >>
        \o When(NeedsRepair(Inspect(d)), Write(0, <<ProtectiveMbr>>))
        \o << Write(1, <<MainHeader(src)>>) >>
        \o When(OnlyWrongAlternate(d, LastBlock),
                Write(LastBlock, <<CorrectedSecondary(src)>>))
        \o << Flush >>

\* Mutant: the main table is rebuilt for the sake of the MBR alone.
RepairPlanAlwaysMain(d) == MainPlan(d)

RepairPlan(d) == IF Analyze(d) = "MbrOnly" THEN MbrPlan ELSE MainPlan(d)

-----------------------------------------------------------------------------
RunRepair ==
    /\ WillWrite(Analyze(disk))
    /\ Start(RepairPlan(disk))

Next == RunRepair \/ ApplyStep \/ Fault

Spec == Init /\ [][Next]_vars

\* apply runs to its end or to an error on its own; running the repair again
\* after an interruption is the operator's part.
Fairness == WF_vars(RunRepair) /\ WF_vars(ApplyStep)

FairSpec == Spec /\ Fairness

-----------------------------------------------------------------------------
(* Properties                                                              *)

\* The secondary's array is where writing the main array cannot reach it, or
\* exactly where the main array goes.  header.rs assumes it ("the secondary's
\* array sits just below its header") and checks nothing.
SourceApart(d) ==
    LET src == HeaderAt(d, LastBlock)
    IN  src.elba = 2 \/ src.elba >= 2 + src.n

\* Wherever a repair is interrupted, by power or by an error, and however
\* often, a disk that had a readable table still has one, and it is that
\* table, or the one the old main header, if there was one, already described.
RecoverableTableKept ==
    TableOf(disk0) # NoTable /\ SourceApart(disk0)
        => TableOf(medium) \in {TableOf(disk0), HeaderAt(disk0, 1).crc} \ {NoTable}

\* A main header written by the tool is durable only over the whole of the
\* entry array it describes: the array reaches the medium first.
HeaderAfterArray ==
    LET h == HeaderAt(medium, 1)
    IN  medium[1] # disk0[1] => h.sound /\ Content(medium, 2, h.n) = h.crc

\* No block between the first and last usable LBA of the table the repair is
\* built from is ever written, the secondary header's own block apart.
PartitionsUntouched ==
    LET h == HeaderAt(disk0, IF IsValid(disk0, 1) THEN 1 ELSE LastBlock)
    IN  TableOf(disk0) # NoTable
            => \A l \in LBA \ {LastBlock} :
                 h.first <= l /\ l <= h.last
                     => disk[l] = disk0[l] /\ medium[l] = disk0[l]

\* Once a valid main GPT is durable no later step of any attempt, complete or
\* interrupted, takes it away again.
MainNeverLost == [][IsValid(medium, 1) => IsValid(medium', 1)]_vars

\* The two copies a reader of the medium finds.
CopyAt(d, role, usable) == IF usable THEN HeaderAt(d, role).crc ELSE NoTable

Copies == INSTANCE TwoCopies WITH
    Table <- Seq(Data) \ {NoTable},
    None <- NoTable,
    main <- CopyAt(medium, 1, IsValid(medium, 1)),
    second <- CopyAt(medium, LastBlock, UsableSource(medium)),
    broken <- ~IsValid(disk0, 1),
    source <- CopyAt(disk0, LastBlock, UsableSource(disk0)),
    stale <- HeaderAt(disk0, 1).crc,
    exposed <- ~SourceApart(disk0)

\* Plans, caches, attempts and faults amount to what TwoCopies allows: a valid
\* main table is left alone, a broken one turns into the second copy's, and the
\* second copy is never touched unless it lies where the main one goes.
ImplementsTwoCopies == Copies!Spec

\* An operator who keeps running the repair ends with a valid main GPT and
\* nothing left to do, if faults stop.
RepairConverges ==
    WillWrite(Analyze(disk0)) /\ SourceApart(disk0)
        => <>[](IsValid(disk, 1) /\ ~WillWrite(Analyze(disk)))
=============================================================================
