----------------------------- MODULE Attribution -----------------------------
(***************************************************************************)
(* Whose snapshot is this?  The restore screen (main.rs, attribute and     *)
(* run_restore; backup.rs, compare) says of every snapshot which of the    *)
(* disks here it belongs to, and of the disk the operator picks whether    *)
(* anything identifies it as the snapshot's own.                           *)
(*                                                                         *)
(* Between two uses of the program disks are repartitioned, damaged and    *)
(* taken away.  A table is the disk GUID and the unique GUIDs of its       *)
(* partitions; where it lies is Snapshot's subject.  A GUID made anew is   *)
(* one that was never used.                                                *)
(***************************************************************************)
EXTENDS Naturals, FiniteSets

CONSTANTS
    N,             \* the disks, in the order of the scan
    Guids,         \* disk GUIDs
    Zero,          \* the GUID of zeros
    Parts,         \* unique GUIDs of partitions
    Geometries,    \* block size and block count
    Start,         \* the disks the machine may have at first
    MaxFiles,      \* bound: snapshots on the volumes
    MaxChanges     \* bound: changes others make to disks

ASSUME NAssumption == N \in Nat \ {0}
ASSUME ZeroAssumption == Zero \notin Guids

\* A copy of the table.  Its header is sound, has a bad checksum over fields
\* that still read, or is zeroed; its array is sound, does not hold the table,
\* or cannot be read.
Copy == [guid : Guids \cup {Zero}, parts : SUBSET Parts,
         header : {"sound", "sum", "zeroed"}, array : {"sound", "lost", "unread"}]
Disk == [geometry : Geometries, reads : BOOLEAN, main : Copy, secondary : Copy]
Indices == 1 .. N
Archive == [geometry : Geometries, guid : Guids \cup {Zero}, main : Copy, secondary : Copy,
            origin : Indices]

ASSUME StartAssumption == Start \subseteq [Indices -> Disk]
ASSUME PartsAssumption == IsFiniteSet(Parts)
ASSUME BoundsAssumption == MaxFiles \in Nat /\ MaxChanges \in Nat

VARIABLES
    disks,      \* what the scan finds
    files,      \* the snapshots on the volumes
    at,         \* the screen
    best,       \* Saved.best: the disk each snapshot is said to belong to, or 0
    chosen,     \* the snapshot to restore
    target,     \* the disk to restore it to
    used,       \* history: the GUIDs given out so far
    cloned,     \* history: two disks were alike at first, or a snapshot was
                \* restored to a disk it was not taken of
    changes     \* history: how many changes others made

screen == <<at, best, chosen, target>>
histories == <<used, cloned, changes>>
attributionVars == <<disks, files, screen, histories>>

-----------------------------------------------------------------------------
(* Reading a table *)

IsValid(c) == c.header = "sound" /\ c.array = "sound"

\* header_is_authentic: the header alone.
IsAuthentic(c) == c.header = "sound"

\* The GUID read from a header block, whatever its checksum.
GuidOf(c) == IF c.header = "zeroed" THEN Zero ELSE c.guid

\* parse_array: a zeroed header gives no geometry to read entries with.
PartsOf(header, array) ==
    IF header.header # "zeroed" /\ array.array = "sound" THEN array.parts ELSE {}

\* Analysis::best_view: a valid copy, the main one for choice, or the main one.
BestView(d) == IF ~IsValid(d.main) /\ IsValid(d.secondary) THEN d.secondary ELSE d.main

Seen(d) == PartsOf(BestView(d), BestView(d))

-----------------------------------------------------------------------------
(* A snapshot and a disk *)

\* The GUID is kept from a header that is authentic.
Captured(i) ==
    LET d == disks[i]
    IN  [geometry |-> d.geometry,
         guid |-> IF IsAuthentic(d.main) THEN d.main.guid
                  ELSE IF IsAuthentic(d.secondary) THEN d.secondary.guid ELSE Zero,
         main |-> d.main, secondary |-> d.secondary,
         origin |-> i]

\* Archive::entries: the main header is always in the file and always parses.
\* The array of the secondary stands in for one that is not in the file.
Entries(a) ==
    PartsOf(a.main, IF a.main.array = "unread" THEN a.secondary ELSE a.main)

Shared(a, d) == Entries(a) \cap Seen(d)

\* Mutant: a GUID of zeros is one like any other.
SameGuidOrZero(a, d) == GuidOf(BestView(d)) = a.guid

SameGuid(a, d) == a.guid # Zero /\ GuidOf(BestView(d)) = a.guid

\* Mutant: none of no partitions is half of them.
MostShared(a, d) == 2 * Cardinality(Shared(a, d)) >= Cardinality(Entries(a))

HalfShared(a, d) == Entries(a) # {} /\ 2 * Cardinality(Shared(a, d)) >= Cardinality(Entries(a))

\* Comparison::verdict
Match(a, d) ==
    CASE a.geometry # d.geometry -> "DifferentDisk"
      [] a.geometry = d.geometry /\ (SameGuid(a, d) \/ HalfShared(a, d)) -> "SameDisk"
      [] OTHER -> "SameGeometry"

\* A disk takes the place of the best one before it.
Better(a, i, prev) ==
    \/ prev = 0
    \/ Match(a, disks[i]) = "SameDisk" /\ Match(a, disks[prev]) # "SameDisk"
    \/ Cardinality(Shared(a, disks[i])) > Cardinality(Shared(a, disks[prev]))

\* Mutant: the first disk that fits is kept.
BestFirst(a) ==
    LET fits == {i \in Indices : disks[i].reads /\ Match(a, disks[i]) # "DifferentDisk"}
    IN  IF fits = {} THEN 0 ELSE CHOOSE i \in fits : \A j \in fits : i <= j

Best(a) ==
    LET upTo[i \in 0 .. N] ==
            IF i = 0 THEN 0
            ELSE IF /\ disks[i].reads /\ Match(a, disks[i]) # "DifferentDisk"
                    /\ Better(a, i, upTo[i - 1])
                 THEN i ELSE upTo[i - 1]
    IN  upTo[N]

-----------------------------------------------------------------------------
(* The program *)

Stay == UNCHANGED <<disks, files, histories>>

RunBackup ==
    /\ at = "main" /\ Cardinality(files) < MaxFiles
    /\ \E i \in Indices : disks[i].reads /\ files' = files \cup {Captured(i)}
    /\ UNCHANGED <<disks, screen, histories>>

\* Every snapshot that decodes is attributed to the disks of one scan.
RunRestore ==
    /\ at = "main" /\ files # {}
    /\ at' = "browse"
    /\ best' = [a \in files |-> Best(a)]
    /\ UNCHANGED <<chosen, target>> /\ Stay

Choose(a) ==
    /\ at = "browse"
    /\ at' = "target" /\ chosen' = {a}
    /\ UNCHANGED <<best, target>> /\ Stay

\* What restore_plan refuses, but for the places of the arrays.
Restorable(a, d) ==
    /\ a.geometry = d.geometry
    /\ a.main.array # "unread" /\ a.secondary.array # "unread"

PickDisk(i) ==
    /\ at = "target" /\ disks[i].reads
    /\ \A a \in chosen : Restorable(a, disks[i])
    /\ at' = "review" /\ target' = i
    /\ UNCHANGED <<best, chosen>> /\ Stay

Home == at' = "main" /\ best' = <<>> /\ chosen' = {} /\ target' = 0

\* No disk chosen, a refusal, or no confirmation.
Leave == at # "main" /\ Home /\ Stay

\* What the review page says.
Noted(a) == Match(a, disks[target]) = "SameGeometry"

\* The copy of what is replaced is saved or waived; the write goes through, or
\* stops after either copy or before both.
Authorise(a) ==
    /\ at = "review" /\ a \in chosen
    /\ files' \in {files, files \cup {Captured(target)}} /\ Cardinality(files') <= MaxFiles
    /\ \E done \in SUBSET {"main", "secondary"} :
         /\ disks' = [disks EXCEPT ![target].main = IF "main" \in done THEN a.main ELSE @,
                                   ![target].secondary = IF "secondary" \in done
                                                         THEN a.secondary ELSE @]
         /\ cloned' = (cloned \/ (done # {} /\ target # a.origin))
    /\ Home
    /\ UNCHANGED <<used, changes>>

-----------------------------------------------------------------------------
(* The others *)

Change ==
    /\ at = "main" /\ changes < MaxChanges
    /\ changes' = changes + 1
    /\ UNCHANGED <<screen, cloned>>

\* A partitioner keeps some partitions, makes others, and may give the disk a
\* new GUID.
Repartition(i) ==
    /\ Change /\ disks[i].reads /\ UNCHANGED files
    /\ \E keep \in SUBSET Seen(disks[i]), new \in SUBSET (Parts \ used),
          guid \in {GuidOf(BestView(disks[i]))} \cup (Guids \ used) :
         LET copy == [guid |-> guid, parts |-> keep \cup new,
                      header |-> "sound", array |-> "sound"]
         IN  /\ guid # Zero
             /\ disks' = [disks EXCEPT ![i].main = copy, ![i].secondary = copy]
             /\ used' = used \cup new \cup {guid}

Damage(i) ==
    /\ Change /\ UNCHANGED <<files, used>>
    /\ \E header \in {"sum", "zeroed"}, array \in {"lost", "unread"} :
         \/ disks' = [disks EXCEPT ![i].main.header = header]
         \/ disks' = [disks EXCEPT ![i].main.array = array]
         \/ disks' = [disks EXCEPT ![i].secondary.header = header]
         \/ disks' = [disks EXCEPT ![i].secondary.array = array]

\* A disk is taken away or does not read; it may be back at any time.
Leaves(i) ==
    /\ Change /\ disks[i].reads /\ UNCHANGED <<files, used>>
    /\ disks' = [disks EXCEPT ![i].reads = FALSE]

Returns(i) ==
    /\ at = "main" /\ ~disks[i].reads
    /\ disks' = [disks EXCEPT ![i].reads = TRUE]
    /\ UNCHANGED <<files, screen, histories>>

\* The GUIDs a disk carries, legible or not.
Ids(copy) == ({copy.guid} \ {Zero}) \cup copy.parts
IdsOn(d) == Ids(d.main) \cup Ids(d.secondary)

AttributionInit ==
    /\ disks \in Start
    /\ files = {} /\ at = "main" /\ best = <<>> /\ chosen = {} /\ target = 0
    /\ used = UNION {IdsOn(disks[i]) : i \in Indices}
    /\ cloned = \E i, j \in Indices : i # j /\ IdsOn(disks[i]) \cap IdsOn(disks[j]) # {}
    /\ changes = 0

AttributionNext ==
    \/ RunBackup \/ RunRestore \/ Leave
    \/ \E a \in files : Choose(a)
    \/ \E i \in Indices : PickDisk(i) \/ Repartition(i) \/ Damage(i)
                           \/ Leaves(i) \/ Returns(i)
    \/ \E a \in chosen : Authorise(a)

AttributionSpec == AttributionInit /\ [][AttributionNext]_attributionVars

-----------------------------------------------------------------------------
(* Properties *)

\* Type invariant.
AttributionTypeOK ==
    /\ disks \in [Indices -> Disk]
    /\ files \subseteq Archive /\ Cardinality(files) <= MaxFiles
    /\ at \in {"main", "browse", "target", "review"}
    /\ IF at = "main" THEN best = <<>> ELSE best \in [files -> 0 .. N]
    /\ chosen \subseteq files /\ Cardinality(chosen) = IF at \in {"target", "review"} THEN 1 ELSE 0
    /\ IF at = "review" THEN target \in Indices ELSE target = 0
    /\ used \subseteq Guids \cup Parts
    /\ cloned \in BOOLEAN /\ changes \in 0 .. MaxChanges

\* The snapshots on the screen and what is said of each.
Claimed(a) == IF best[a] = 0 THEN "none" ELSE Match(a, disks[best[a]])

\* "This snapshot is this disk's own" (backup.rs, SameDisk) is true: as long as
\* no disk was made like another by a restore, a snapshot shown as a disk's own
\* was taken of that disk.
OwnIsOwn ==
    at = "browse" /\ ~cloned =>
        \A a \in files : Claimed(a) = "SameDisk" => best[a] = a.origin

\* A disk that has been damaged since, and was not repartitioned, still has its
\* snapshots (backup.rs, compare and best_view): with a valid copy left on it,
\* those taken while one of its headers was sound are shown as its own.
DamageCostsNoClaim ==
    at = "browse" /\ ~cloned =>
        \A a \in files : LET d == disks[a.origin] IN
            /\ d.reads /\ \E c \in {d.main, d.secondary} : IsValid(c)
            /\ a.guid # Zero /\ a.guid = BestView(d).guid
            => Claimed(a) = "SameDisk" /\ best[a] = a.origin

\* Nobody is led to restore to a wrong disk unawares (main.rs, the NOTE of
\* run_restore): without a clone about, a restore to a disk the snapshot was not
\* taken of goes through the review with the note, whatever the list said.
ForeignIsNoted ==
    at = "review" /\ ~cloned => \A a \in chosen : target # a.origin => Noted(a)

=============================================================================
