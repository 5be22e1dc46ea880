------------------------------ MODULE Snapshot ------------------------------
(***************************************************************************)
(* Backup and restore of a disk's partition tables (backup.rs, and the     *)
(* run_backup and run_restore screens of main.rs).  A snapshot holds up to *)
(* five chunks, each the raw blocks of one role and where they came from.  *)
(* A restore saves the table it is about to replace, then commits one      *)
(* whole GPT after the other, the copy that is sound last.                 *)
(***************************************************************************)
EXTENDS Apply, FiniteSets

CONSTANTS
    Files,          \* the snapshots that may be on a volume at the start
    Conventional,   \* the blocks of a 16 KiB entry array
    MaxSaved        \* bounds the snapshots on the volumes

ASSUME ConventionalAssumption == Conventional \in 1..(LastBlock - 1)
ASSUME MaxSavedAssumption == MaxSaved \in Nat

VARIABLES
    saved,      \* the snapshots on the volumes
    restored,   \* history: the snapshots whose restore was started
    heard,      \* history: the headers that spoke when it was, <<snapshot, header>>
    unsettled   \* history: a restore was planned over blocks still in flight

histories == <<saved, restored, heard, unsettled>>
snapshotVars == <<vars, histories>>

HeaderRoles == {"MainHeader", "SecondaryHeader"}
EntryRoles == {"MainEntries", "SecondaryEntries"}
Roles == {"Mbr"} \cup HeaderRoles \cup EntryRoles
Chunk == [lba : Nat, blocks : Seq(Block)]
IsArchive(a) ==
    /\ DOMAIN a = {"last", "chunks"}
    /\ a.last \in Nat
    /\ DOMAIN a.chunks \subseteq Roles
    /\ \A role \in DOMAIN a.chunks : a.chunks[role] \in Chunk

ASSUME FilesAssumption == \A f \in Files : IsArchive(f)

LbaOf(role) == CASE role = "Mbr" -> 0
                 [] role = "MainHeader" -> 1
                 [] role = "SecondaryHeader" -> LastBlock
HeaderOver(role) == IF role = "MainEntries" THEN "MainHeader" ELSE "SecondaryHeader"

-----------------------------------------------------------------------------
(* Where an entry array may lie                                            *)

Meet(lba, n, first, last) == lba <= last /\ lba + n > first

\* vet_entries_region: every header with a sane usable range gets a veto; with
\* no such header nothing is known.
Vet(lba, n, headers) ==
    LET sane == {h \in headers : UsableRangeOk(h)}
    IN  IF lba < 2 \/ n = 0 \/ ~Fits(lba, n)
             \/ \E h \in sane : Meet(lba, n, h.first, h.last) THEN "overlaps"
        ELSE IF sane = {} THEN "silent" ELSE "clear"

FallbackLba(role) == IF role = "MainEntries" THEN 2 ELSE LastBlock - Conventional

-----------------------------------------------------------------------------
(* Capture                                                                 *)

\* The array a header describes if its pointer stays clear of the usable
\* range of every header that parses, else the conventional place.
Region(d, role) ==
    LET h == HeaderAt(d, LbaOf(HeaderOver(role)))
        n == IF h.n > 0 THEN h.n ELSE Conventional
        references == {HeaderAt(d, 1), HeaderAt(d, LastBlock)}
    IN  IF Vet(h.elba, n, references) = "clear"
        THEN [lba |-> h.elba, n |-> n]
        ELSE [lba |-> FallbackLba(role), n |-> Conventional]

\* An unreadable header block fails the capture; an unreadable array is left
\* out of the file.
CanCapture(d) == \A l \in {0, 1, LastBlock} : d[l] # Unreadable

Captured(d, role) ==
    IF role \in EntryRoles
    THEN LET r == Region(d, role)
         IN  [lba |-> r.lba, blocks |-> Content(d, r.lba, r.n)]
    ELSE [lba |-> LbaOf(role), blocks |-> <<d[LbaOf(role)]>>]

Capture(d) ==
    LET present == Roles \ {role \in EntryRoles :
                              ~Readable(d, Region(d, role).lba, Region(d, role).n)}
    IN  [last |-> LastBlock, chunks |-> [role \in present |-> Captured(d, role)]]

-----------------------------------------------------------------------------
(* restore_plan: its refusals, then its steps                              *)

Has(a, role) == role \in DOMAIN a.chunks
Size(c) == Len(c.blocks)

\* Any block parses as a header, if only as an unsound one.
HeaderIn(a, role) ==
    LET b == a.chunks[role].blocks[1] IN IF b \in Header THEN b ELSE NotAHeader

\* Archive::entries: the main header's geometry over the main array.
Listed(a) ==
    LET blocks == a.chunks["MainEntries"].blocks
        n == HeaderIn(a, "MainHeader").n
    IN  UNION {IF blocks[i] \in Data THEN Parts[blocks[i]] ELSE {} :
                 i \in {j \in 1..n : j <= Len(blocks)}}

ClearOfListed(a, c) ==
    \A p \in Listed(a) : /\ p.start <= p.end
                         /\ ~Meet(c.lba, Size(c), p.start, p.end)

ConventionalPlacement(role, c) ==
    /\ Size(c) <= Conventional
    /\ IF role = "MainEntries" THEN c.lba = 2 ELSE c.lba + Size(c) = LastBlock

\* Only an authentic disk header may speak for the disk; any header of the
\* file may speak for the file.
OnDisk(d) == {HeaderAt(d, role) : role \in {r \in {1, LastBlock} : HeaderIsAuthentic(d, r)}}
InFile(a) == {HeaderIn(a, role) : role \in HeaderRoles}

\* Mutant: the file alone decides where its arrays may land.
MayLandByFile(a, d, role) ==
    Vet(a.chunks[role].lba, Size(a.chunks[role]), InFile(a)) # "overlaps"

MayLand(a, d, role) ==
    LET c == a.chunks[role]
        byDisk == Vet(c.lba, Size(c), OnDisk(d))
        byFile == Vet(c.lba, Size(c), InFile(a))
    IN  /\ byDisk # "overlaps"
        /\ byFile # "overlaps"
        /\ \/ byDisk = "clear"
           \/ byFile = "clear" /\ ClearOfListed(a, c)
           \/ byFile = "silent" /\ ConventionalPlacement(role, c)

WholeBlocks(a) ==
    \A role \in DOMAIN a.chunks :
        Size(a.chunks[role]) > 0 /\ Fits(a.chunks[role].lba, Size(a.chunks[role]))

LongEnough(a, role) ==
    Size(a.chunks[role]) >= HeaderIn(a, HeaderOver(role)).n

InPlace(a) ==
    \A role \in DOMAIN a.chunks \ EntryRoles :
        a.chunks[role].lba = LbaOf(role) /\ Size(a.chunks[role]) = 1

Restorable(a, d) ==
    /\ d[0] # Unreadable
    /\ a.last = LastBlock
    /\ Inspect(d) # "Hybrid"
    /\ Has(a, "Mbr") => a.chunks["Mbr"].blocks[1] # [mbr |-> "Hybrid"]
    /\ WholeBlocks(a)
    /\ \A role \in HeaderRoles \cup EntryRoles : Has(a, role)
    /\ \A role \in EntryRoles : LongEnough(a, role)
    /\ InPlace(a)
    /\ \A role \in EntryRoles : MayLand(a, d, role)

\* Mutant: arrays go where this tool would put them.
WriteChunkUsual(a, role) ==
    Write(IF role \in EntryRoles THEN FallbackLba(role) ELSE LbaOf(role),
          a.chunks[role].blocks)

WriteChunk(a, role) == Write(a.chunks[role].lba, a.chunks[role].blocks)

\* Mutant: the array's barrier is forgotten.
CommitOneFlush(a, role) ==
    << WriteChunk(a, HeaderOver(role)), WriteChunk(a, role), Flush >>

\* One whole GPT, array first.
Commit(a, role) ==
    << WriteChunk(a, role), Flush, WriteChunk(a, HeaderOver(role)), Flush >>

CommitMbr(a) == IF Has(a, "Mbr") THEN << WriteChunk(a, "Mbr"), Flush >> ELSE <<>>

MainFirst(a) ==
    Commit(a, "MainEntries") \o Commit(a, "SecondaryEntries") \o CommitMbr(a)
SecondaryFirst(a) ==
    Commit(a, "SecondaryEntries") \o Commit(a, "MainEntries") \o CommitMbr(a)

\* Mutant: the main GPT always goes first.
RestorePlanMainFirst(a, d) == MainFirst(a)

\* The copy that is sound is replaced last.
RestorePlan(a, d) == IF IsValid(d, 1) THEN SecondaryFirst(a) ELSE MainFirst(a)

-----------------------------------------------------------------------------
SnapshotInit ==
    /\ Init
    /\ \E f \in Files : saved = {f}
    /\ restored = {}
    /\ heard = {}
    /\ unsettled = FALSE

Save(a) ==
    /\ saved' = saved \cup {a}
    /\ Cardinality(saved') <= MaxSaved

RunBackup ==
    /\ Idle
    /\ CanCapture(disk)
    /\ Save(Capture(disk))
    /\ UNCHANGED <<vars, restored, heard, unsettled>>

\* A copy that cannot be taken or saved is a question the operator may waive.
RunRestore ==
    /\ \E a \in saved :
         /\ Restorable(a, disk)
         /\ Start(RestorePlan(a, disk))
         /\ restored' = restored \cup {a}
         /\ heard' = heard \cup ({a} \X {h \in OnDisk(disk) \cup InFile(a) : UsableRangeOk(h)})
    /\ unsettled' = (unsettled \/ InFlight # {})
    /\ \/ CanCapture(disk) /\ Save(Capture(disk))
       \/ UNCHANGED saved

SnapshotNext ==
    \/ RunBackup
    \/ RunRestore
    \/ (ApplyStep \/ Fault) /\ UNCHANGED histories

SnapshotSpec == SnapshotInit /\ [][SnapshotNext]_snapshotVars

-----------------------------------------------------------------------------
(* Properties                                                              *)

\* Every variable keeps its type.
SnapshotTypeOK ==
    /\ TypeOK
    /\ \A a \in saved : IsArchive(a)
    /\ restored \subseteq saved
    /\ heard \subseteq restored \X Header
    /\ unsettled \in BOOLEAN

\* A snapshot of two valid tables, each array where its header points.
Whole(a) ==
    \A role \in EntryRoles :
        /\ Has(a, role) /\ Has(a, HeaderOver(role))
        /\ LET h == HeaderIn(a, HeaderOver(role))
               c == a.chunks[role]
           IN  /\ h.sound /\ h.n > 0 /\ UsableRangeOk(h)
               /\ h.my = LbaOf(HeaderOver(role))
               /\ h.alt = AlternateOf(h.my)
               /\ h.my = 1 => h.elba = 2
               /\ c.lba = h.elba
               /\ SubSeq(c.blocks, 1, h.n) = h.crc

TablesIn(a) == {HeaderIn(a, role).crc : role \in HeaderRoles}

\* No array of one copy, on the disk at first or in a snapshot restored, meets
\* a header or an array of the other copy.  Nothing in backup.rs checks it.
ArrayBlocks(d, role) ==
    LET h == HeaderAt(d, role)
    IN  IF HeaderIsAuthentic(d, role) THEN h.elba..(h.elba + h.n - 1) ELSE {}
ChunkBlocks(a, role) ==
    a.chunks[role].lba..(a.chunks[role].lba + Size(a.chunks[role]) - 1)
Arrays(role) ==
    ArrayBlocks(disk0, LbaOf(HeaderOver(role))) \cup UNION {ChunkBlocks(a, role) : a \in restored}
Separated ==
    /\ Arrays("MainEntries") \cap (Arrays("SecondaryEntries") \cup {LastBlock}) = {}
    /\ Arrays("SecondaryEntries") \cap {1, LastBlock} = {}

\* "This keeps a usable GPT available during an interrupted restore of a
\* healthy snapshot when one existed beforehand": wherever restores are cut
\* short, and whichever snapshots they are of, the medium holds a readable table:
\* the one it had, the one its main header, if there was one, already described,
\* or one of theirs.
UsableTableThroughout ==
    /\ TableOf(disk0) # NoTable
    /\ \A a \in restored : Whole(a)
    /\ Separated
    => TableOf(medium) \in ({TableOf(disk0), HeaderAt(disk0, 1).crc}
                            \cup UNION {TablesIn(a) : a \in restored}) \ {NoTable}

\* The same of restores planned from what was durable: a step that failed
\* without a power cut leaves the cache and the medium apart, and a plan made
\* then may take for sound, and rebuild last, a copy that is not on the medium.
SettledTableThroughout == ~unsettled => UsableTableThroughout

\* "Puts each entry array on the medium and flushes it before the header that
\* names it": with one snapshot ever restored, a header of it is durable only
\* over the whole of its chunk of entries.
RestoredHeaderAfterArray ==
    \A a \in restored : restored = {a} /\ Separated =>
        \A role \in EntryRoles :
            LET lba == LbaOf(HeaderOver(role))
                c == a.chunks[role]
            IN  medium[lba] # disk0[lba] => Content(medium, c.lba, Size(c)) = c.blocks

\* A block stays as it was if for every snapshot restored some header able to
\* speak, on the disk as it was then or in the snapshot, hands it to partitions:
\* where such headers disagree, each of them protects its own.
SpokenPartitionsUntouched ==
    \A l \in LBA \ {LastBlock} :
        (\A a \in restored : \E t \in heard : t[1] = a /\ t[2].first <= l /\ l <= t[2].last)
            => disk[l] = disk0[l] /\ medium[l] = disk0[l]

\* A restore of a whole snapshot that runs to its end leaves both tables valid
\* and durable, every chunk of the file where it came from.
Installed(a) ==
    /\ IsValid(medium', 1) /\ IsValid(medium', LastBlock)
    /\ \A role \in DOMAIN a.chunks :
         Content(medium', a.chunks[role].lba, Size(a.chunks[role])) = a.chunks[role].blocks
RestoreInstalls ==
    [][ApplyStep /\ pc = Len(plan) /\ Separated =>
        \A a \in restored : Whole(a) /\ plan \in {MainFirst(a), SecondaryFirst(a)}
                                 => Installed(a)]_snapshotVars
=============================================================================
