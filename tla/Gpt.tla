-------------------------------- MODULE Gpt --------------------------------
(***************************************************************************)
(* The reading half of gptcore: what a disk is, what the tool finds in its *)
(* two partition tables and in its protective MBR, and the verdict it      *)
(* draws from them (header.rs, repair.rs, layout.rs, mbr.rs).              *)
(*                                                                         *)
(* A disk is a function from block addresses to block contents.  A block   *)
(* holds an MBR (LBA 0), a GPT header or one block's worth of partition    *)
(* entries; it may also be unreadable.  A CRC32 is modelled as an          *)
(* injective digest: the checksum of an entry array IS the sequence of its *)
(* blocks, so two arrays with one checksum are equal.  The defects of a    *)
(* header's own bytes (signature, revision, size, reserved field, header   *)
(* CRC) are one flag, "sound": no code tells one of them from another.     *)
(***************************************************************************)
EXTENDS Integers, Sequences

CONSTANTS
    LastBlock,   \* Media->LastBlock: the device has LastBlock + 1 blocks
    MaxArray,    \* the most blocks an entry array may span
    Data,        \* what one block of an entry array may hold
    Parts,       \* Parts[d]: the used entries decoded from array block d
    Unreadable   \* the content of a block whose read fails

LBA == 0..LastBlock

Names == {"esp", "rootfs-A", "other"}
Partition == [start : Nat, end : Nat, name : Names]

ASSUME GeometryAssumption ==
    /\ LastBlock \in Nat
    /\ LastBlock > 1
    /\ MaxArray \in Nat

ASSUME PartsAssumption == Parts \in [Data -> SUBSET Partition]

MbrStatus == {"Protective", "WrongSize", "WrongStart", "Hybrid", "Absent"}
Mbr == [mbr : MbrStatus]

\* n is the number of blocks of the entry array, 0 when NumberOfPartitionEntries
\* and SizeOfPartitionEntry describe no array the tool would read.
Header == [sound : BOOLEAN, my : Nat, alt : Nat, first : Nat, last : Nat,
           elba : Nat, n : 0..MaxArray, crc : Seq(Data)]

Block == Mbr \cup Header \cup Data \cup {Unreadable}
Disk == [LBA -> Block]

ASSUME BlockAssumption ==
    /\ \A d \in Data : d \notin Mbr \cup Header \cup {Unreadable}
    /\ Unreadable \notin Mbr \cup Header

-----------------------------------------------------------------------------
(* Reading                                                                 *)

\* A block that is not a header still parses as one: as an unsound header
\* whose array geometry is not followed.
NotAHeader == [sound |-> FALSE, my |-> 0, alt |-> 0, first |-> 0, last |-> 0,
               elba |-> 0, n |-> 0, crc |-> <<>>]

HeaderAt(d, lba) == IF d[lba] \in Header THEN d[lba] ELSE NotAHeader

\* read_lbas refuses a range that ends past the device before it reads.
Fits(lba, n) == lba + n <= LastBlock + 1

Readable(d, lba, n) ==
    Fits(lba, n) /\ \A l \in lba..(lba + n - 1) : d[l] # Unreadable

Content(d, lba, n) == [i \in 1..n |-> d[lba + i - 1]]

\* mbr::inspect; a block without the boot signature is "Absent".
Inspect(d) == IF d[0] \in Mbr THEN d[0].mbr ELSE "Absent"

-----------------------------------------------------------------------------
(* Validation of one table, as GptHeader::validate reports it              *)

UsableRangeOk(h) == h.first >= 2 /\ h.last <= LastBlock /\ h.first <= h.last

\* The role comes from where the header was read, not from its own MyLBA.
AlternateOf(role) == IF role = 1 THEN LastBlock ELSE 1

\* Every check of validate_fields and of the two CRCs except the alternate
\* pointer's.
SoundButForAlternate(d, role) ==
    LET h == HeaderAt(d, role)
    IN  /\ d[role] # Unreadable
        /\ h.sound
        /\ h.my = role
        /\ h.n > 0
        /\ UsableRangeOk(h)
        /\ role = 1 => h.elba = 2
        /\ h.elba >= 1
        /\ Readable(d, h.elba, h.n)
        /\ Content(d, h.elba, h.n) = h.crc

IsValid(d, role) ==
    /\ SoundButForAlternate(d, role)
    /\ HeaderAt(d, role).alt = AlternateOf(role)

OnlyWrongAlternate(d, role) ==
    /\ SoundButForAlternate(d, role)
    /\ HeaderAt(d, role).alt \in (1..LastBlock) \ {AlternateOf(role)}

HeaderIsAuthentic(d, role) ==
    d[role] # Unreadable /\ HeaderAt(d, role).sound /\ UsableRangeOk(HeaderAt(d, role))

-----------------------------------------------------------------------------
(* Plausibility of a table: layout::check_structure, layout::recognize     *)

\* The used entries of a table, each with the array block it stands in, so
\* that a partition repeated in another block is an overlap like any other.
Used(d, h) ==
    UNION {{<<i, p>> : p \in Parts[Content(d, h.elba, h.n)[i]]} : i \in 1..h.n}

Overlaps(p, q) == p.start <= q.end /\ q.start <= p.end

CheckStructure(used, first, last) ==
    /\ used # {}
    /\ \A u \in used : /\ u[2].start <= u[2].end
                       /\ first <= u[2].start
                       /\ u[2].end <= last
    /\ \A u, v \in used : u # v => ~Overlaps(u[2], v[2])

Recognized(used) ==
    \A critical \in {"esp", "rootfs-A"} : \E u \in used : u[2].name = critical

\* Mutant: assess does not ask whether the main array runs into a partition.
AssessWithoutCollision(d, h) ==
    CheckStructure(Used(d, h), h.first, h.last) /\ Recognized(Used(d, h))

\* repair::assess: the main array lands at LBA 2, so it must end below the
\* first usable block.
Assess(d, h) ==
    /\ CheckStructure(Used(d, h), h.first, h.last)
    /\ 2 + h.n <= h.first
    /\ Recognized(Used(d, h))

-----------------------------------------------------------------------------
(* The verdict                                                             *)

NeedsRepair(status) == status \in {"WrongSize", "WrongStart", "Absent"}

UsableSource(d) == IsValid(d, LastBlock) \/ OnlyWrongAlternate(d, LastBlock)

\* repair::analyze.  "Unscanned" is its error return: LBA 0 cannot be read.
Analyze(d) ==
    IF d[0] = Unreadable THEN "Unscanned"
    ELSE IF Inspect(d) = "Hybrid" THEN "RefusedHybridMbr"
    ELSE IF IsValid(d, 1)
         THEN IF ~IsValid(d, LastBlock) THEN "SecondaryDegraded"
              ELSE IF NeedsRepair(Inspect(d)) THEN "MbrOnly" ELSE "Healthy"
    ELSE IF ~UsableSource(d) THEN "Unrecoverable"
    ELSE IF Assess(d, HeaderAt(d, LastBlock)) THEN "MainRepairable"
    ELSE "RefusedImplausibleSecondary"

WillWrite(verdict) == verdict \in {"MbrOnly", "MainRepairable"}

\* The partition table a reader of the disk ends up with: the main GPT's if
\* it is valid, otherwise the secondary's, otherwise none.
NoTable == <<>>
TableOf(d) ==
    IF IsValid(d, 1) THEN HeaderAt(d, 1).crc
    ELSE IF UsableSource(d) THEN HeaderAt(d, LastBlock).crc
    ELSE NoTable
=============================================================================
