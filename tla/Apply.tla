------------------------------- MODULE Apply -------------------------------
(***************************************************************************)
(* The writing half of gptcore: a block device with a volatile write cache *)
(* and repair::apply, which performs a plan's steps in order and stops at  *)
(* the first error (disk.rs, blockdev.rs, repair.rs).                      *)
(*                                                                         *)
(* "disk" is what a read returns, "medium" what survives a power cut.  A   *)
(* write changes disk only; a flush copies disk onto the medium.  Whatever *)
(* the two disagree on is in flight: a power cut keeps an arbitrary subset *)
(* of those blocks, which also covers a cache that writes back early and   *)
(* in any order, and an array of several blocks torn in the middle.  One   *)
(* block is written whole or not at all.                                   *)
(***************************************************************************)
EXTENDS Gpt

CONSTANTS
    Disks,      \* the disks the tool may be started on
    MaxFaults   \* bounds power cuts and failing steps together

ASSUME DisksAssumption == Disks \subseteq Disk
ASSUME FaultsAssumption == MaxFaults \in Nat

VARIABLES
    disk,     \* what the device returns when read
    medium,   \* what is durable
    plan,     \* the steps being applied, <<>> when none is
    pc,       \* the next step of plan, 0 when none is being applied
    faults,   \* power cuts and failing steps so far
    disk0     \* history: the disk as it was before the tool first wrote

vars == <<disk, medium, plan, pc, faults, disk0>>

Write(lba, blocks) == [op |-> "write", lba |-> lba, blocks |-> blocks]
Flush == [op |-> "flush", lba |-> 0, blocks |-> <<>>]
Step == [op : {"write", "flush"}, lba : LBA, blocks : Seq(Block)]

Spanned(step) == step.lba..(step.lba + Len(step.blocks) - 1)

\* The blocks of "which" among those a write step spans take their new content.
Put(d, step, which) ==
    [l \in LBA |-> IF l \in Spanned(step) /\ l \in which
                   THEN step.blocks[l - step.lba + 1] ELSE d[l]]

InFlight == {l \in LBA : disk[l] # medium[l]}

Idle == pc = 0
Stop == pc' = 0 /\ plan' = <<>>
Advance ==
    IF pc = Len(plan) THEN Stop ELSE pc' = pc + 1 /\ UNCHANGED plan

Start(steps) ==
    /\ Idle
    /\ plan' = steps
    /\ pc' = 1
    /\ UNCHANGED <<disk, medium, faults, disk0>>

WriteStep ==
    /\ ~Idle
    /\ plan[pc].op = "write"
    /\ disk' = Put(disk, plan[pc], LBA)
    /\ Advance
    /\ UNCHANGED <<medium, faults, disk0>>

FlushStep ==
    /\ ~Idle
    /\ plan[pc].op = "flush"
    /\ medium' = disk
    /\ Advance
    /\ UNCHANGED <<disk, faults, disk0>>

\* The device reports an error: apply returns, the steps already done stay
\* done, and a failing write may have reached any of its blocks.
FailingWrite ==
    /\ ~Idle
    /\ faults < MaxFaults
    /\ plan[pc].op = "write"
    /\ \E which \in SUBSET Spanned(plan[pc]) : disk' = Put(disk, plan[pc], which)
    /\ Stop
    /\ faults' = faults + 1
    /\ UNCHANGED <<medium, disk0>>

FailingFlush ==
    /\ ~Idle
    /\ faults < MaxFaults
    /\ plan[pc].op = "flush"
    /\ Stop
    /\ faults' = faults + 1
    /\ UNCHANGED <<disk, medium, disk0>>

\* Any part of what is in flight is kept.  A block written again before it was
\* flushed is kept in its last version or not at all.
PowerCut ==
    /\ ~Idle \/ InFlight # {}
    /\ faults < MaxFaults
    /\ \E kept \in SUBSET InFlight :
         medium' = [l \in LBA |-> IF l \in kept THEN disk[l] ELSE medium[l]]
    /\ disk' = medium'
    /\ Stop
    /\ faults' = faults + 1
    /\ UNCHANGED disk0

\* apply's loop: a plan that is started runs on its own to its end.
ApplyStep == WriteStep \/ FlushStep

Fault == FailingWrite \/ FailingFlush \/ PowerCut

Init ==
    /\ disk \in Disks
    /\ medium = disk
    /\ disk0 = disk
    /\ plan = <<>>
    /\ pc = 0
    /\ faults = 0

\* Every variable keeps its type: in particular a plan only ever holds steps
\* that name blocks of the device.
TypeOK ==
    /\ disk \in Disk
    /\ medium \in Disk
    /\ disk0 \in Disk
    /\ plan \in Seq(Step)
    /\ pc \in 0..Len(plan)
    /\ faults \in 0..MaxFaults
=============================================================================
