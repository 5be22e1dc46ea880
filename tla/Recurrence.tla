----------------------------- MODULE Recurrence -----------------------------
(***************************************************************************)
(* Why prevention exists: repair and prevention on one disk, against the   *)
(* writer whose arithmetic prevent.rs infers from the damage it found.     *)
(* That writer is no part of the program; prevent.rs describes it as       *)
(* rewriting the main table with the entry array immediately below the     *)
(* first usable block instead of at LBA 2.                                 *)
(***************************************************************************)
EXTENDS Repair, Prevent

\* The writer's table: header and array, the array where it puts it.
Misplaced(d) ==
    LET h == HeaderAt(d, 1)
        lba == h.first - h.n
        array == Write(lba, Content(d, 2, h.n))
    IN  [Put(d, array, LBA) EXCEPT ![1] = [h EXCEPT !.elba = lba]]

\* It runs in an operating system, on a disk the tool is not writing to, and
\* shuts the disk down cleanly.
FaultyWriter ==
    /\ Idle
    /\ IsValid(disk, 1)
    /\ HeaderAt(disk, 1).first - HeaderAt(disk, 1).n >= 1
    /\ disk' = Misplaced(disk)
    /\ medium' = disk'
    /\ UNCHANGED <<plan, pc, faults, disk0>>

RecurrenceNext ==
    \/ RunRepair
    \/ RunPrevent
    \/ FaultyWriter
    \/ ApplyStep
    \/ Fault

\* The operator repairs a table that stays broken, and does not put prevention
\* off for ever; the writer is under no obligation.
RecurrenceSpec ==
    /\ Init /\ [][RecurrenceNext]_vars
    /\ WF_vars(ApplyStep)
    /\ WF_vars(RunRepair)
    /\ SF_vars(RunPrevent)

-----------------------------------------------------------------------------
(* Properties                                                              *)

\* The secondary's array is out of the writer's reach. In the gap it is not.
ArraysApart(d) == \A role \in Both : HeaderAt(d, LastBlock).elba >= First(d, role)

\* Every table in play stays readable: whatever the writer breaks, and wherever
\* a repair or a prevention is cut short, the medium holds the table the disk
\* started with.
TableSurvives ==
    BothValid(disk0) /\ ArraysApart(disk0) /\ TableOf(disk0) = HeaderAt(disk0, LastBlock).crc
        => TableOf(medium) = TableOf(disk0)

\* "This modifies a healthy partition table": no step of either operation, cut short
\* or failing, takes one of two valid copies away, or the table in one of them; a
\* repair in progress may turn the main one into the second's.
PairSurvives ==
    [][~FaultyWriter /\ BothValid(medium) =>
           /\ BothValid(medium')
           /\ HeaderAt(medium', LastBlock).crc = HeaderAt(medium, LastBlock).crc
           /\ HeaderAt(medium', 1).crc \in {HeaderAt(medium, role).crc : role \in Both}]_vars

\* "If power is cut between the two writes, the authoritative copy is the
\* updated one": the secondary header is never durable in its lowered form over
\* a main header that is not, whatever the writer and repairs did in between.
MainLoweredFirst ==
    BothValid(disk0) /\ First(medium, LastBlock) < First(disk0, LastBlock)
        => First(medium, 1) = Proposed(medium)

\* "Re-running it finishes the job", and "lowering FirstUsableLBA should make the
\* faulty arithmetic produce the right answer": with the writer at work all along,
\* a disk both operations can serve ends with the gap closed in both headers and a
\* main table that is never broken again.
RecurrenceEnds ==
    Applicable(disk0) /\ ArraysApart(disk0) /\ Assess(disk0, HeaderAt(disk0, LastBlock))
        => <>[](/\ IsValid(disk, 1)
                /\ \A role \in Both : First(disk, role) = Proposed(disk))
=============================================================================
