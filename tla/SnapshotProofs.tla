--------------------------- MODULE SnapshotProofs ---------------------------
(***************************************************************************)
(* Theorems about Snapshot, for every disk geometry, every set of          *)
(* snapshots and of disks and every bound on faults: it keeps its types, a *)
(* restore writes nothing that a header speaking for it hands to           *)
(* partitions, one that runs to its end installs both tables, a restored   *)
(* header is durable only over its array, and some table can be read       *)
(* wherever restores planned from durable state are cut short.             *)
(*                                                                         *)
(* Four invariants carry it: SnapshotInv says who wrote each block,        *)
(* LandInv which steps of the plan at hand are on the disk and which on    *)
(* the medium, OrderInv what a changed header implies, SafeInv which copy  *)
(* is safe.                                                                *)
(***************************************************************************)
EXTENDS Snapshot, RepairProofs

-----------------------------------------------------------------------------
(* What capture makes is a snapshot                                        *)

\* The array a capture reads is a range of blocks, on the device or not.
LEMMA RegionType ==
    ASSUME NEW d \in Disk, NEW role \in EntryRoles
    PROVE  Region(d, role).lba \in Nat /\ Region(d, role).n \in Nat
<1> DEFINE h == HeaderAt(d, LbaOf(HeaderOver(role)))
<1>1. LbaOf(HeaderOver(role)) \in {1, LastBlock}
  BY DEF EntryRoles, HeaderOver, LbaOf
<1>2. h \in Header
  BY <1>1, HeaderAtType, GeometryAssumption DEF LBA
<1>3. h.elba \in Nat /\ h.n \in Nat
  BY <1>2, GeometryAssumption DEF Header
<1>4. Conventional \in Nat /\ FallbackLba(role) \in Nat
  BY ConventionalAssumption, GeometryAssumption DEF FallbackLba
<1> HIDE DEF h
<1>5. QED
  BY <1>3, <1>4 DEF Region, h

LEMMA CaptureIsArchive ==
    ASSUME NEW d \in Disk
    PROVE  IsArchive(Capture(d))
<1> DEFINE present == Roles \ {role \in EntryRoles :
                                 ~Readable(d, Region(d, role).lba, Region(d, role).n)}
<1>1. /\ Capture(d).last = LastBlock
      /\ Capture(d).chunks = [role \in present |-> Captured(d, role)]
      /\ DOMAIN Capture(d) = {"last", "chunks"}
  BY DEF Capture
<1>2. ASSUME NEW role \in present PROVE Captured(d, role) \in Chunk
  <2>1. CASE role \in EntryRoles
    <3> DEFINE r == Region(d, role)
    <3>1. r.lba \in Nat /\ r.n \in Nat
      BY <2>1, RegionType
    <3>2. Fits(r.lba, r.n)
      BY <1>2, <2>1 DEF Readable
    <3>3. Content(d, r.lba, r.n) \in Seq(Block)
      BY <3>1, <3>2, ContentType
    <3> QED
      BY <2>1, <3>1, <3>3 DEF Captured, Chunk
  <2>2. CASE role \notin EntryRoles
    <3>1. LbaOf(role) \in LBA
      BY <1>2, <2>2, GeometryAssumption DEF Roles, HeaderRoles, EntryRoles, LbaOf, LBA
    <3>2. <<d[LbaOf(role)]>> \in Seq(Block) /\ LbaOf(role) \in Nat
      BY <3>1 DEF Disk, LBA
    <3> QED
      BY <2>2, <3>2 DEF Captured, Chunk
  <2> QED
    BY <2>1, <2>2
<1>3. present \subseteq Roles /\ LastBlock \in Nat
  BY GeometryAssumption
<1> HIDE DEF present
<1> QED
  BY <1>1, <1>2, <1>3 DEF IsArchive

-----------------------------------------------------------------------------
(* What a restore accepts, and the steps it is made of                     *)

\* Refused is everything but this, whatever the disk.
Accepted(a) ==
    /\ IsArchive(a)
    /\ WholeBlocks(a)
    /\ InPlace(a)
    /\ \A role \in HeaderRoles \cup EntryRoles : Has(a, role)
    /\ \A role \in EntryRoles : LongEnough(a, role) /\ a.chunks[role].lba >= 2

StepsOf(a) == {Flush} \cup {WriteChunk(a, role) : role \in DOMAIN a.chunks}
RestoreSteps(snapshots) == {Flush} \cup UNION {StepsOf(a) : a \in snapshots}

LEMMA RestorableIsAccepted ==
    ASSUME NEW a, IsArchive(a), NEW d, Restorable(a, d)
    PROVE  Accepted(a)
<1>1. ASSUME NEW role \in EntryRoles PROVE a.chunks[role].lba >= 2
  <2>1. a.chunks[role] \in Chunk
    BY DEF Restorable, Has, IsArchive
  <2>2. MayLand(a, d, role)
    BY DEF Restorable
  <2>3. ~(a.chunks[role].lba < 2)
    BY <2>2 DEF MayLand, Vet
  <2> QED
    BY <2>1, <2>3 DEF Chunk
<1> QED
  BY <1>1 DEF Restorable, Accepted

\* The chunks of an accepted snapshot, each where it goes.
LEMMA ChunkFacts ==
    ASSUME NEW a, Accepted(a), NEW role \in DOMAIN a.chunks
    PROVE  LET c == a.chunks[role]
           IN  /\ c.lba \in LBA
               /\ c.blocks \in Seq(Block)
               /\ Size(c) \in Nat /\ Size(c) = Len(c.blocks) /\ Size(c) >= 1
               /\ c.lba + Size(c) <= LastBlock + 1
               /\ role \in Roles
               /\ role \notin EntryRoles => c.lba = LbaOf(role) /\ Size(c) = 1
               /\ role \in EntryRoles => c.lba >= 2
<1> DEFINE c == a.chunks[role]
<1>1. c \in Chunk /\ role \in Roles
  BY DEF Accepted, IsArchive
<1>2. Size(c) > 0 /\ Fits(c.lba, Size(c))
  BY DEF Accepted, WholeBlocks
<1>3. c.lba \in Nat /\ c.blocks \in Seq(Block)
  BY <1>1 DEF Chunk
<1>4. Len(c.blocks) \in Nat
  BY <1>3
<1>5. role \notin EntryRoles => c.lba = LbaOf(role) /\ Size(c) = 1
  BY DEF Accepted, InPlace
<1>6. role \in EntryRoles => c.lba >= 2
  BY DEF Accepted
<1> HIDE DEF c
<1>7. Size(c) = Len(c.blocks)
  BY DEF Size
<1>8. c.lba \in LBA
  BY <1>2, <1>3, <1>4, <1>7, GeometryAssumption DEF Fits, LBA
<1> QED
  BY <1>1, <1>2, <1>3, <1>4, <1>5, <1>6, <1>7, <1>8 DEF Fits, c

LEMMA StepsOfType ==
    ASSUME NEW a, Accepted(a)
    PROVE  StepsOf(a) \subseteq Step
<1>1. Flush \in Step
  BY GeometryAssumption DEF Flush, Step, LBA
<1>2. ASSUME NEW role \in DOMAIN a.chunks PROVE WriteChunk(a, role) \in Step
  BY ChunkFacts DEF WriteChunk, Write, Step
<1> QED
  BY <1>1, <1>2 DEF StepsOf

-----------------------------------------------------------------------------
(* The order of those steps                                                *)

OtherCopy(role) == IF role = "MainEntries" THEN "SecondaryEntries" ELSE "MainEntries"

\* The plan that replaces the copy of array role first.
Committing(a, role) == Commit(a, role) \o Commit(a, OtherCopy(role)) \o CommitMbr(a)

LEMMA RestoreCommits ==
    ASSUME NEW a, NEW d
    PROVE  /\ RestorePlan(a, d) \in {Committing(a, role) : role \in EntryRoles}
           /\ IsValid(d, 1) => RestorePlan(a, d) = Committing(a, "SecondaryEntries")
           /\ ~IsValid(d, 1) => RestorePlan(a, d) = Committing(a, "MainEntries")
           /\ MainFirst(a) = Committing(a, "MainEntries")
           /\ SecondaryFirst(a) = Committing(a, "SecondaryEntries")
BY DEF RestorePlan, MainFirst, SecondaryFirst, Committing, OtherCopy, EntryRoles

\* p is s and then t.
Joins(p, s, t, S) ==
    /\ p \in Seq(S)
    /\ Len(p) = Len(s) + Len(t)
    /\ \A i \in 1..Len(s) : p[i] = s[i]
    /\ \A i \in 1..Len(t) : p[Len(s) + i] = t[i]

LEMMA TwoParts ==
    ASSUME NEW S, NEW s \in Seq(S), NEW t \in Seq(S)
    PROVE  Joins(s \o t, s, t, S)
BY DEF Joins

\* s writes one block range, then another, with a flush after each.
Commits(s, v, w, S) ==
    /\ s \in Seq(S) /\ Len(s) = 4
    /\ s[1] = v /\ s[2] = Flush /\ s[3] = w /\ s[4] = Flush

\* p does so twice, and then what u does.
CommitsTwice(p, v1, w1, v2, w2, u, S) ==
    /\ p \in Seq(S) /\ Len(p) = 8 + Len(u)
    /\ p[1] = v1 /\ p[2] = Flush /\ p[3] = w1 /\ p[4] = Flush
    /\ p[5] = v2 /\ p[6] = Flush /\ p[7] = w2 /\ p[8] = Flush
    /\ \A i \in 1..Len(u) : p[8 + i] = u[i]

LEMMA TwoCommits ==
    ASSUME NEW S, NEW s, NEW t, NEW u \in Seq(S),
           NEW v1, NEW w1, Commits(s, v1, w1, S), NEW v2, NEW w2, Commits(t, v2, w2, S)
    PROVE  CommitsTwice(s \o t \o u, v1, w1, v2, w2, u, S)
<1> DEFINE st == s \o t
           p == st \o u
<1>1. s \in Seq(S) /\ t \in Seq(S) /\ Len(s) = 4 /\ Len(t) = 4
  BY DEF Commits
<1>2. Joins(st, s, t, S)
  BY <1>1, TwoParts
<1>3. st \in Seq(S)
  BY <1>2 DEF Joins
<1> HIDE DEF st
<1>4. Joins(p, st, u, S)
  BY <1>3, TwoParts
<1> HIDE DEF p
<1>5. Len(st) = 8 /\ \A i \in 1..4 : st[i] = s[i] /\ st[4 + i] = t[i]
  BY <1>1, <1>2 DEF Joins
<1>6. p \in Seq(S) /\ Len(p) = 8 + Len(u)
  BY <1>4, <1>5 DEF Joins
<1>7. \A i \in 1..8 : p[i] = st[i]
  BY <1>4, <1>5 DEF Joins
<1>8. \A i \in 1..Len(u) : p[8 + i] = u[i]
  BY <1>4, <1>5 DEF Joins
<1>9. \A i \in 1..4 : p[i] = s[i] /\ p[4 + i] = t[i]
  BY <1>5, <1>7
<1>10. /\ p[1] = s[1] /\ p[2] = s[2] /\ p[3] = s[3] /\ p[4] = s[4]
       /\ p[5] = t[1] /\ p[6] = t[2] /\ p[7] = t[3] /\ p[8] = t[4]
  BY <1>9
<1> QED
  BY <1>6, <1>8, <1>10 DEF p, st, Commits, CommitsTwice

\* Four steps for each copy, two for the MBR if the snapshot holds one.
LEMMA PlanShape ==
    ASSUME NEW a, Accepted(a), NEW role \in EntryRoles
    PROVE  LET p == Committing(a, role)
               next == OtherCopy(role)
           IN  /\ p \in Seq(StepsOf(a))
               /\ Len(p) = IF Has(a, "Mbr") THEN 10 ELSE 8
               /\ p[1] = WriteChunk(a, role) /\ p[3] = WriteChunk(a, HeaderOver(role))
               /\ p[5] = WriteChunk(a, next) /\ p[7] = WriteChunk(a, HeaderOver(next))
               /\ p[2] = Flush /\ p[4] = Flush /\ p[6] = Flush /\ p[8] = Flush
               /\ Has(a, "Mbr") => p[9] = WriteChunk(a, "Mbr") /\ p[10] = Flush
<1> DEFINE next == OtherCopy(role)
<1>1. next \in EntryRoles
  BY DEF OtherCopy, EntryRoles
<1>2. Flush \in StepsOf(a)
  BY DEF StepsOf
<1>3. ASSUME NEW r \in EntryRoles
      PROVE  Commits(Commit(a, r), WriteChunk(a, r), WriteChunk(a, HeaderOver(r)), StepsOf(a))
  <2>1. HeaderOver(r) \in HeaderRoles
    BY DEF EntryRoles, HeaderOver, HeaderRoles
  <2>2. PICK v, w \in StepsOf(a) : v = WriteChunk(a, r) /\ w = WriteChunk(a, HeaderOver(r))
    BY <2>1 DEF Accepted, Has, StepsOf
  <2>3. Commit(a, r) = <<v, Flush, w, Flush>>
    BY <2>2 DEF Commit
  <2>4. Commits(<<v, Flush, w, Flush>>, v, w, StepsOf(a))
    BY <1>2 DEF Commits
  <2> QED
    BY <2>2, <2>3, <2>4
<1>4. /\ CommitMbr(a) \in Seq(StepsOf(a))
      /\ Len(CommitMbr(a)) = IF Has(a, "Mbr") THEN 2 ELSE 0
      /\ Has(a, "Mbr") => CommitMbr(a)[1] = WriteChunk(a, "Mbr") /\ CommitMbr(a)[2] = Flush
  <2>1. CASE Has(a, "Mbr")
    <3>1. PICK w \in StepsOf(a) : w = WriteChunk(a, "Mbr")
      BY <2>1 DEF Has, StepsOf
    <3>2. CommitMbr(a) = <<w, Flush>>
      BY <2>1, <3>1 DEF CommitMbr
    <3>3. <<w, Flush>> \in Seq(StepsOf(a)) /\ Len(<<w, Flush>>) = 2
      BY <1>2
    <3> QED
      BY <2>1, <3>1, <3>2, <3>3
  <2>2. CASE ~Has(a, "Mbr")
    <3>1. CommitMbr(a) = <<>>
      BY <2>2 DEF CommitMbr
    <3> QED
      BY <2>2, <3>1
  <2> QED
    BY <2>1, <2>2
<1> DEFINE p == Commit(a, role) \o Commit(a, next) \o CommitMbr(a)
<1>5. CommitsTwice(p, WriteChunk(a, role), WriteChunk(a, HeaderOver(role)),
                   WriteChunk(a, next), WriteChunk(a, HeaderOver(next)),
                   CommitMbr(a), StepsOf(a))
  <2>1. Commits(Commit(a, role), WriteChunk(a, role), WriteChunk(a, HeaderOver(role)), StepsOf(a))
    BY <1>3
  <2>2. Commits(Commit(a, next), WriteChunk(a, next), WriteChunk(a, HeaderOver(next)), StepsOf(a))
    BY <1>1, <1>3
  <2> HIDE DEF next
  <2> QED
    BY <1>4, <2>1, <2>2, TwoCommits
<1>6. p = Committing(a, role)
  BY DEF Committing
<1> HIDE DEF p
<1>7. Has(a, "Mbr") => p[9] = WriteChunk(a, "Mbr") /\ p[10] = Flush
  BY <1>4, <1>5 DEF CommitsTwice
<1>8. Len(p) = IF Has(a, "Mbr") THEN 10 ELSE 8
  BY <1>4, <1>5 DEF CommitsTwice
<1> QED
  BY <1>5, <1>6, <1>7, <1>8 DEF CommitsTwice

-----------------------------------------------------------------------------
(* What every step keeps                                                   *)

\* The array chunks of a stay out of what header h hands to partitions.
ClearOf(a, h) ==
    \A role \in EntryRoles :
        ~Meet(a.chunks[role].lba, Size(a.chunks[role]), h.first, h.last)

SnapshotInv ==
    /\ SnapshotTypeOK
    /\ \A a \in restored : Accepted(a)
    /\ OnlyWrittenBy(RestoreSteps(restored))
    /\ \A t \in heard : UsableRangeOk(t[2]) /\ ClearOf(t[1], t[2])

LEMMA SnapshotInvInit == SnapshotInit => SnapshotInv
<1> SUFFICES ASSUME SnapshotInit PROVE SnapshotInv
  OBVIOUS
<1>1. TypeOK
  BY DisksAssumption, FaultsAssumption DEF SnapshotInit, Init, TypeOK
<1>2. SnapshotTypeOK
  BY <1>1, FilesAssumption DEF SnapshotInit, SnapshotTypeOK
<1>3. OnlyWrittenBy(RestoreSteps(restored))
  BY DEF SnapshotInit, Init, OnlyWrittenBy, WrittenBy
<1> QED
  BY <1>2, <1>3 DEF SnapshotInit, SnapshotInv

\* No header that speaks when a restore is planned hands out what it writes.
LEMMA SpeakersAreHeeded ==
    ASSUME NEW a, NEW d, Restorable(a, d),
           NEW h \in OnDisk(d) \cup InFile(a), UsableRangeOk(h)
    PROVE  ClearOf(a, h)
<1> SUFFICES ASSUME NEW role \in EntryRoles
             PROVE  ~Meet(a.chunks[role].lba, Size(a.chunks[role]), h.first, h.last)
  BY DEF ClearOf
<1>1. MayLand(a, d, role)
  BY DEF Restorable
<1> QED
  BY <1>1 DEF MayLand, Vet

LEMMA SavedKeepsType ==
    ASSUME disk \in Disk, \A a \in saved : IsArchive(a), Save(Capture(disk)) \/ UNCHANGED saved
    PROVE  saved \subseteq saved' /\ \A a \in saved' : IsArchive(a)
<1>1. IsArchive(Capture(disk))
  BY CaptureIsArchive
<1> QED
  BY <1>1 DEF Save

LEMMA HeardIsHeader ==
    ASSUME NEW d \in Disk, NEW a, Accepted(a), NEW h \in OnDisk(d) \cup InFile(a)
    PROVE  h \in Header
<1>1. NotAHeader \in Header
  BY GeometryAssumption DEF NotAHeader, Header
<1>2. CASE h \in InFile(a)
  BY <1>1, <1>2 DEF InFile, HeaderIn
<1>3. CASE h \in OnDisk(d)
  BY <1>1, <1>3 DEF OnDisk, HeaderAt
<1> QED
  BY <1>2, <1>3

LEMMA RestoreKeepsInv ==
    ASSUME SnapshotInv, RunRestore
    PROVE  SnapshotInv'
<1>1. PICK a \in saved :
        /\ Restorable(a, disk)
        /\ Start(RestorePlan(a, disk))
        /\ restored' = restored \cup {a}
        /\ heard' = heard \cup ({a} \X {h \in OnDisk(disk) \cup InFile(a) : UsableRangeOk(h)})
  BY DEF RunRestore
<1>2. TypeOK /\ disk \in Disk /\ IsArchive(a)
  BY DEF SnapshotInv, SnapshotTypeOK, TypeOK
<1>3. Accepted(a)
  BY <1>1, <1>2, RestorableIsAccepted
<1>4. RestorePlan(a, disk) \in Seq(StepsOf(a)) /\ Len(RestorePlan(a, disk)) >= 1
  <2>1. PICK role \in EntryRoles : RestorePlan(a, disk) = Committing(a, role)
    BY RestoreCommits
  <2> QED
    BY <1>3, <2>1, PlanShape
<1>5. StepsOf(a) \subseteq Step /\ StepsOf(a) \subseteq RestoreSteps(restored')
  BY <1>1, <1>3, StepsOfType DEF RestoreSteps
<1>6. TypeOK'
  <2>1. RestorePlan(a, disk) \in Seq(Step)
    BY <1>4, <1>5
  <2> QED
    BY <1>1, <1>2, <1>4, <2>1, StartKeepsType
<1>7. SnapshotTypeOK'
  <2>1. saved \subseteq saved' /\ \A b \in saved' : IsArchive(b)
    <3>1. Save(Capture(disk)) \/ UNCHANGED saved
      BY DEF RunRestore
    <3>2. \A b \in saved : IsArchive(b)
      BY DEF SnapshotInv, SnapshotTypeOK
    <3> QED
      BY <1>2, <3>1, <3>2, SavedKeepsType
  <2>2. heard' \subseteq restored' \X Header
    BY <1>1, <1>2, <1>3, HeardIsHeader DEF SnapshotInv, SnapshotTypeOK
  <2>3. unsettled' \in BOOLEAN
    BY DEF RunRestore
  <2>4. restored' \subseteq saved'
    BY <1>1, <2>1 DEF SnapshotInv, SnapshotTypeOK
  <2> QED
    BY <1>6, <2>1, <2>2, <2>3, <2>4 DEF SnapshotTypeOK
<1>8. OnlyWrittenBy(RestoreSteps(restored))'
  <2>1. PICK S : S = RestoreSteps(restored')
    OBVIOUS
  <2>2. RestoreSteps(restored) \subseteq S
    BY <1>1, <2>1 DEF RestoreSteps
  <2>3. plan' \in Seq(S)
    <3>1. StepsOf(a) \subseteq S /\ plan' = RestorePlan(a, disk)
      BY <1>1, <1>5, <2>1 DEF Start
    <3> QED
      BY <1>4, <3>1
  <2>4. disk' = disk /\ medium' = medium /\ disk0' = disk0
    BY <1>1 DEF Start
  <2>5. \A l \in LBA : WrittenBy(S, disk, l) /\ WrittenBy(S, medium, l)
    BY <2>2 DEF SnapshotInv, OnlyWrittenBy, WrittenBy
  <2> QED
    BY <2>1, <2>3, <2>4, <2>5 DEF OnlyWrittenBy, WrittenBy
<1>9. \A t \in heard' : UsableRangeOk(t[2]) /\ ClearOf(t[1], t[2])
  BY <1>1, SpeakersAreHeeded DEF SnapshotInv
<1> QED
  BY <1>1, <1>3, <1>7, <1>8, <1>9 DEF SnapshotInv

LEMMA SnapshotInvStep == SnapshotInv /\ [SnapshotNext]_snapshotVars => SnapshotInv'
<1> SUFFICES ASSUME SnapshotInv, [SnapshotNext]_snapshotVars PROVE SnapshotInv'
  OBVIOUS
<1> PICK S : S = RestoreSteps(restored)
  OBVIOUS
<1>1. CASE RunBackup
  <2>1. UNCHANGED <<vars, restored, heard, unsettled>> /\ disk \in Disk
    BY <1>1 DEF RunBackup, SnapshotInv, SnapshotTypeOK, TypeOK
  <2>2. saved \subseteq saved' /\ \A a \in saved' : IsArchive(a)
    BY <1>1, <2>1, SavedKeepsType DEF RunBackup, SnapshotInv, SnapshotTypeOK
  <2> QED
    BY <2>1, <2>2 DEF SnapshotInv, SnapshotTypeOK, TypeOK, vars, OnlyWrittenBy, WrittenBy
<1>2. CASE RunRestore
  BY <1>2, RestoreKeepsInv
<1>3. CASE (ApplyStep \/ Fault) /\ UNCHANGED histories
  <2>1. UNCHANGED <<saved, restored, heard, unsettled>>
    BY <1>3 DEF histories
  <2>2. TypeOK'
    BY <1>3, ApplyKeepsType DEF SnapshotInv, SnapshotTypeOK
  <2>3. OnlyWrittenBy(S)'
    BY <1>3, ApplyKeepsWritten DEF SnapshotInv, SnapshotTypeOK
  <2> QED
    BY <2>1, <2>2, <2>3 DEF SnapshotInv, SnapshotTypeOK
<1>4. CASE UNCHANGED snapshotVars
  BY <1>4 DEF snapshotVars, vars, histories, SnapshotInv, SnapshotTypeOK, TypeOK,
              OnlyWrittenBy, WrittenBy
<1> QED
  BY <1>1, <1>2, <1>3, <1>4 DEF SnapshotNext

\* SnapshotTypeOK: every variable keeps its type; what a capture makes, from
\* whatever is on the disk, is a snapshot like those the volumes held.
THEOREM SnapshotTyped == SnapshotSpec => []SnapshotTypeOK
<1>1. SnapshotInv => SnapshotTypeOK
  BY DEF SnapshotInv
<1> QED
  BY <1>1, SnapshotInvInit, SnapshotInvStep, PTL DEF SnapshotSpec

-----------------------------------------------------------------------------
(* Which blocks a restore writes                                           *)

LEMMA ChunkSpans ==
    ASSUME NEW a, Accepted(a), NEW s \in StepsOf(a), NEW l \in Spanned(s)
    PROVE  \E role \in DOMAIN a.chunks :
             /\ s = WriteChunk(a, role)
             /\ l \in ChunkBlocks(a, role)
             /\ role \in EntryRoles => l >= 2
             /\ role \notin EntryRoles => l = LbaOf(role)
<1>1. s # Flush
  BY DEF Flush, Spanned
<1>2. PICK role \in DOMAIN a.chunks : s = WriteChunk(a, role)
  BY <1>1 DEF StepsOf
<1> DEFINE c == a.chunks[role]
<1>3. s.lba = c.lba /\ s.blocks = c.blocks
  BY <1>2 DEF WriteChunk, Write
<1>4. /\ c.lba \in Nat /\ Size(c) \in Nat /\ Size(c) = Len(c.blocks)
      /\ role \notin EntryRoles => c.lba = LbaOf(role) /\ Size(c) = 1
      /\ role \in EntryRoles => c.lba >= 2
  BY ChunkFacts DEF LBA
<1>5. l \in ChunkBlocks(a, role)
  BY <1>3, <1>4 DEF Spanned, ChunkBlocks
<1>6. l \in Int /\ l >= c.lba /\ l <= c.lba + Size(c) - 1
  BY <1>4, <1>5 DEF ChunkBlocks
<1> HIDE DEF c
<1>7. role \in EntryRoles => l >= 2
  BY <1>4, <1>6
<1>8. role \notin EntryRoles => l = c.lba
  <2>1. PICK first, n \in Nat : first = c.lba /\ n = Size(c)
    BY <1>4
  <2>2. n = 1 => l = first
    BY <1>6, <2>1
  <2> QED
    BY <1>4, <2>1, <2>2
<1> QED
  BY <1>2, <1>4, <1>5, <1>7, <1>8

\* The arrays keep clear of what a speaking header hands out, and the MBR and the
\* headers lie below every usable range or in the last block.
LEMMA SpokenStay == SnapshotInv => SpokenPartitionsUntouched
<1> SUFFICES ASSUME SnapshotInv, NEW l \in LBA \ {LastBlock},
                    \A a \in restored : \E t \in heard :
                        t[1] = a /\ t[2].first <= l /\ l <= t[2].last
             PROVE  disk[l] = disk0[l] /\ medium[l] = disk0[l]
  BY DEF SpokenPartitionsUntouched
<1>1. WrittenBy(RestoreSteps(restored), disk, l) /\ WrittenBy(RestoreSteps(restored), medium, l)
  BY DEF SnapshotInv, OnlyWrittenBy
<1>2. ASSUME NEW s \in RestoreSteps(restored), l \in Spanned(s) PROVE FALSE
  <2>1. s # Flush
    BY <1>2 DEF Flush, Spanned
  <2>2. PICK a \in restored : s \in StepsOf(a)
    BY <2>1 DEF RestoreSteps
  <2>3. Accepted(a)
    BY DEF SnapshotInv
  <2>4. PICK t \in heard : t[1] = a /\ t[2].first <= l /\ l <= t[2].last
    OBVIOUS
  <2>5. PICK h \in Header : h = t[2]
    BY DEF SnapshotInv, SnapshotTypeOK
  <2>6. h.first \in Nat /\ h.last \in Nat /\ ClearOf(a, h) /\ UsableRangeOk(h)
    BY <2>4, <2>5 DEF Header, SnapshotInv
  <2>7. PICK role \in DOMAIN a.chunks :
          /\ l \in ChunkBlocks(a, role)
          /\ role \notin EntryRoles => l = LbaOf(role)
    BY <1>2, <2>2, <2>3, ChunkSpans
  <2>8. CASE role \in EntryRoles
    <3>1. ~Meet(a.chunks[role].lba, Size(a.chunks[role]), h.first, h.last)
      BY <2>6, <2>8 DEF ClearOf
    <3>2. a.chunks[role].lba \in Nat /\ Size(a.chunks[role]) \in Nat
      BY <2>3, ChunkFacts DEF LBA
    <3> QED
      BY <2>4, <2>5, <2>6, <2>7, <3>1, <3>2 DEF Meet, ChunkBlocks
  <2>9. CASE role \notin EntryRoles
    <3>1. role \in Roles /\ l = LbaOf(role)
      BY <2>3, <2>7, <2>9, ChunkFacts
    <3>2. l \in {0, 1}
      BY <2>9, <3>1 DEF Roles, HeaderRoles, EntryRoles, LbaOf
    <3> QED
      BY <2>4, <2>5, <2>6, <3>2 DEF UsableRangeOk
  <2> QED
    BY <2>8, <2>9
<1> QED
  BY <1>1, <1>2 DEF WrittenBy

\* SpokenPartitionsUntouched: no restore writes a block that a header speaking
\* when it was planned, on the disk or in the file, hands to partitions.
THEOREM SpokenPartitionsStay == SnapshotSpec => []SpokenPartitionsUntouched
BY SpokenStay, SnapshotInvInit, SnapshotInvStep, PTL DEF SnapshotSpec

-----------------------------------------------------------------------------
(* Two chunks of a snapshot do not meet                                    *)

HeaderLba(role) == LbaOf(HeaderOver(role))

LEMMA RoleFacts ==
    /\ EntryRoles = {"MainEntries", "SecondaryEntries"}
    /\ HeaderLba("MainEntries") = 1 /\ HeaderLba("SecondaryEntries") = LastBlock
    /\ HeaderOver("MainEntries") = "MainHeader"
    /\ HeaderOver("SecondaryEntries") = "SecondaryHeader"
    /\ OtherCopy("MainEntries") = "SecondaryEntries"
    /\ OtherCopy("SecondaryEntries") = "MainEntries"
    /\ LastBlock \in Nat /\ LastBlock > 1 /\ 1 \in LBA /\ LastBlock \in LBA /\ 0 \in LBA
BY GeometryAssumption
   DEF EntryRoles, HeaderLba, HeaderOver, LbaOf, OtherCopy, LBA

LEMMA StepZones ==
    ASSUME SnapshotInv, Separated, NEW a \in restored,
           NEW s \in StepsOf(a), NEW l \in Spanned(s)
    PROVE  /\ l \in LBA
           /\ \/ l = 0 /\ s = WriteChunk(a, "Mbr")
              \/ \E role \in EntryRoles :
                   \/ s = WriteChunk(a, HeaderOver(role)) /\ l = HeaderLba(role)
                   \/ /\ s = WriteChunk(a, role)
                      /\ l \in Arrays(role) /\ l \notin {0, 1, LastBlock}
<1>1. Accepted(a)
  BY DEF SnapshotInv
<1>2. PICK role \in DOMAIN a.chunks :
        /\ s = WriteChunk(a, role)
        /\ l \in ChunkBlocks(a, role)
        /\ role \in EntryRoles => l >= 2
        /\ role \notin EntryRoles => l = LbaOf(role)
  BY <1>1, ChunkSpans
<1>3. l \in LBA
  <2>1. PICK first, n \in Nat :
          /\ first = a.chunks[role].lba /\ n = Size(a.chunks[role])
          /\ first + n <= LastBlock + 1
    BY <1>1, <1>2, ChunkFacts DEF LBA
  <2> QED
    BY <1>2, <2>1, GeometryAssumption DEF ChunkBlocks, LBA
<1>4. CASE role \in EntryRoles
  <2>1. l \in Arrays(role)
    BY <1>2 DEF Arrays
  <2>2. l # LastBlock
    BY <1>4, <2>1, RoleFacts DEF Separated
  <2>3. l \notin {0, 1, LastBlock}
    BY <1>2, <1>4, <2>2
  <2> QED
    BY <1>2, <1>3, <1>4, <2>1, <2>3
<1>5. CASE role \notin EntryRoles
  <2>1. role \in {"Mbr", "MainHeader", "SecondaryHeader"}
    BY <1>1, <1>2, <1>5, ChunkFacts DEF Roles, HeaderRoles
  <2>2. \/ role = "Mbr" /\ l = 0
        \/ role = HeaderOver("MainEntries") /\ l = HeaderLba("MainEntries")
        \/ role = HeaderOver("SecondaryEntries") /\ l = HeaderLba("SecondaryEntries")
    BY <1>2, <1>5, <2>1, RoleFacts DEF LbaOf
  <2> QED
    BY <1>2, <1>3, <2>2, RoleFacts
<1> QED
  BY <1>4, <1>5

LEMMA StepsApart ==
    ASSUME SnapshotInv, Separated, NEW a \in restored,
           NEW s \in StepsOf(a), NEW t \in StepsOf(a),
           NEW l, l \in Spanned(s), l \in Spanned(t)
    PROVE  s = t
<1> DEFINE At(u) ==
             \/ l = 0 /\ u = WriteChunk(a, "Mbr")
             \/ l = 1 /\ u = WriteChunk(a, "MainHeader")
             \/ l = LastBlock /\ u = WriteChunk(a, "SecondaryHeader")
             \/ /\ l \in Arrays("MainEntries") /\ l \notin {0, 1, LastBlock}
                /\ u = WriteChunk(a, "MainEntries")
             \/ /\ l \in Arrays("SecondaryEntries") /\ l \notin {0, 1, LastBlock}
                /\ u = WriteChunk(a, "SecondaryEntries")
<1>1. ASSUME NEW u \in StepsOf(a), l \in Spanned(u) PROVE At(u)
  BY <1>1, StepZones, RoleFacts
<1>2. At(s) /\ At(t)
  BY <1>1
<1>3. ~(l \in Arrays("MainEntries") /\ l \in Arrays("SecondaryEntries"))
  BY DEF Separated
<1> QED
  BY <1>2, <1>3, RoleFacts

\* A chunk that is in place stays there while the others are written.
LEMMA OnKept ==
    ASSUME SnapshotInv, Separated, NEW a \in restored,
           NEW s \in StepsOf(a), NEW t \in StepsOf(a), NEW x, On(x, s), NEW which
    PROVE  On(Put(x, t, which), s)
<1> SUFFICES ASSUME NEW l \in Spanned(s)
             PROVE  Put(x, t, which)[l] = s.blocks[l - s.lba + 1]
  BY DEF On
<1>1. l \in LBA
  BY StepZones
<1>2. l \in Spanned(t) => s = t
  BY StepsApart
<1> QED
  BY <1>1, <1>2 DEF Put, On

LEMMA OnPut ==
    ASSUME SnapshotInv, Separated, NEW a \in restored, NEW s \in StepsOf(a), NEW x
    PROVE  On(Put(x, s, LBA), s)
<1>1. \A l \in Spanned(s) : l \in LBA
  BY StepZones
<1> QED
  BY <1>1 DEF On, Put

-----------------------------------------------------------------------------
(* What of a plan is on the disk, and what on the medium                   *)

Planned ==
    \/ pc = 0 /\ plan = <<>>
    \/ pc # 0 /\ \E a \in restored, role \in EntryRoles : plan = Committing(a, role)

\* Of the plan being applied the steps already done are on the disk, and those
\* with a flush behind them on the medium.
Landed ==
    Separated =>
        \A i \in 1..(pc - 1) :
            /\ On(disk, plan[i])
            /\ plan[i] = Flush => \A j \in 1..(i - 1) : On(medium, plan[j])

LandInv == SnapshotInv /\ Planned /\ Landed

\* Which steps the plan at hand has.
LEMMA PlannedSteps ==
    ASSUME SnapshotInv, Planned, pc # 0
    PROVE  \E a \in restored :
             /\ plan \in Seq(StepsOf(a))
             /\ pc \in 1..Len(plan)
             /\ \A i \in 1..pc : plan[i] \in StepsOf(a)
<1>1. PICK a \in restored, role \in EntryRoles : plan = Committing(a, role)
  BY DEF Planned
<1>2. plan \in Seq(StepsOf(a))
  BY <1>1, PlanShape DEF SnapshotInv
<1>3. pc \in 1..Len(plan) /\ Len(plan) \in Nat
  BY <1>2 DEF SnapshotInv, SnapshotTypeOK, TypeOK
<1>4. \A i \in 1..pc : plan[i] \in StepsOf(a)
  BY <1>2, <1>3
<1> QED
  BY <1>2, <1>3, <1>4

LEMMA LandInvInit == SnapshotInit => LandInv
<1> SUFFICES ASSUME SnapshotInit PROVE LandInv
  OBVIOUS
<1>1. pc = 0 /\ plan = <<>>
  BY DEF SnapshotInit, Init
<1> QED
  BY <1>1, SnapshotInvInit DEF LandInv, Planned, Landed

\* A step that ends the plan leaves nothing to say.
LEMMA StopLands ==
    ASSUME Stop
    PROVE  Planned' /\ Landed'
BY DEF Stop, Planned, Landed

\* A step done is on the disk, and the flush makes what was done durable.
LEMMA StepLands ==
    ASSUME LandInv, ApplyStep, UNCHANGED histories
    PROVE  Planned' /\ Landed'
<1>1. CASE Stop
  BY <1>1, StopLands
<1>2. CASE ~Stop
  <2>1. pc # 0 /\ pc' = pc + 1 /\ plan' = plan /\ disk0' = disk0 /\ restored' = restored
    BY <1>2 DEF ApplyStep, WriteStep, FlushStep, Advance, Idle, histories
  <2>2. PICK a \in restored :
          /\ plan \in Seq(StepsOf(a)) /\ pc \in 1..Len(plan)
          /\ \A i \in 1..pc : plan[i] \in StepsOf(a)
    BY <2>1, PlannedSteps DEF LandInv
  <2>3. pc \in Nat /\ pc >= 1 /\ Len(plan) \in Nat
    BY <2>2
  <2>4. Planned'
    BY <2>1, <2>3 DEF LandInv, Planned
  <2>5. ASSUME Separated, NEW i \in 1..pc
        PROVE  /\ On(disk', plan[i])
               /\ plan[i] = Flush => \A j \in 1..(i - 1) : On(medium', plan[j])
    <3>1. ASSUME i # pc
          PROVE  /\ i \in 1..(pc - 1) /\ On(disk, plan[i])
                 /\ plan[i] = Flush => \A j \in 1..(i - 1) : On(medium, plan[j])
      BY <2>3, <2>5, <3>1 DEF LandInv, Landed
    <3>2. CASE WriteStep
      <4>1. disk' = Put(disk, plan[pc], LBA) /\ medium' = medium /\ plan[pc].op = "write"
        BY <3>2 DEF WriteStep
      <4>2. plan[pc] # Flush
        BY <4>1 DEF Flush
      <4>3. On(disk', plan[i])
        <5>1. CASE i = pc
          BY <2>2, <2>5, <4>1, <5>1, OnPut DEF LandInv
        <5>2. CASE i # pc
          <6>1. plan[i] \in StepsOf(a) /\ plan[pc] \in StepsOf(a)
            BY <2>2, <2>3, <2>5
          <6> QED
            BY <2>5, <3>1, <4>1, <5>2, <6>1, OnKept DEF LandInv
        <5> QED
          BY <5>1, <5>2
      <4> QED
        BY <3>1, <4>1, <4>2, <4>3
    <3>3. CASE FlushStep
      <4>1. disk' = disk /\ medium' = disk /\ plan[pc].op = "flush"
        BY <3>3 DEF FlushStep
      <4>2. ASSUME NEW j \in 1..(i - 1) PROVE On(disk, plan[j])
        <5>1. j \in 1..(pc - 1)
          BY <2>3
        <5> QED
          BY <2>5, <5>1 DEF LandInv, Landed
      <4>3. On(disk, plan[i])
        <5>1. CASE i = pc
          <6>1. plan[pc] = Flush
            BY <2>2, <2>3, <4>1 DEF StepsOf, WriteChunk, Write
          <6> QED
            BY <5>1, <6>1 DEF On, Flush, Spanned
        <5> QED
          BY <3>1, <5>1
      <4> QED
        BY <4>1, <4>2, <4>3
    <3> QED
      BY <3>2, <3>3 DEF ApplyStep
  <2>6. Separated' => Separated
    BY <2>1 DEF Separated, Arrays
  <2>7. pc' - 1 = pc
    BY <2>1, <2>3
  <2>8. Landed'
    <3> SUFFICES ASSUME Separated', NEW i \in 1..(pc' - 1)
                 PROVE  /\ On(disk', plan'[i])
                        /\ plan'[i] = Flush => \A j \in 1..(i - 1) : On(medium', plan'[j])
      BY DEF Landed, On
    <3> QED
      BY <2>1, <2>5, <2>6, <2>7
  <2> QED
    BY <2>4, <2>8
<1> QED
  BY <1>1, <1>2

LEMMA LandInvStep == LandInv /\ [SnapshotNext]_snapshotVars => LandInv'
<1> SUFFICES ASSUME LandInv, [SnapshotNext]_snapshotVars PROVE LandInv'
  OBVIOUS
<1>1. SnapshotInv'
  BY SnapshotInvStep DEF LandInv
<1>2. CASE RunRestore
  <2>1. PICK a \in saved : Restorable(a, disk) /\ Start(RestorePlan(a, disk))
                           /\ restored' = restored \cup {a}
    BY <1>2 DEF RunRestore
  <2>2. pc' = 1 /\ plan' = RestorePlan(a, disk)
    BY <2>1 DEF Start
  <2>3. Planned'
    BY <2>1, <2>2, RestoreCommits DEF Planned
  <2>4. Landed'
    BY <2>2 DEF Landed
  <2> QED
    BY <1>1, <2>3, <2>4 DEF LandInv
<1>3. CASE ApplyStep /\ UNCHANGED histories
  BY <1>1, <1>3, StepLands DEF LandInv
<1>4. CASE Fault
  <2>1. Stop
    BY <1>4 DEF Fault, FailingWrite, FailingFlush, PowerCut
  <2> QED
    BY <1>1, <2>1, StopLands DEF LandInv
<1>5. CASE RunBackup \/ UNCHANGED snapshotVars
  <2>1. UNCHANGED <<disk, medium, plan, pc, disk0, restored>>
    BY <1>5 DEF RunBackup, snapshotVars, vars, histories
  <2>2. Planned'
    BY <2>1 DEF LandInv, Planned
  <2>3. Landed'
    BY <2>1 DEF LandInv, Landed, Separated, Arrays, On
  <2> QED
    BY <1>1, <2>2, <2>3 DEF LandInv
<1> QED
  BY <1>2, <1>3, <1>4, <1>5 DEF SnapshotNext

-----------------------------------------------------------------------------
(* A whole snapshot that is in place is two valid tables                   *)

\* The blocks read back are those of s.
LEMMA ContentIs ==
    ASSUME NEW S, NEW s \in Seq(S), NEW e, NEW lba \in Nat, NEW n \in Nat, n = Len(s),
           \A i \in 1..n : e[lba + i - 1] = s[i]
    PROVE  Content(e, lba, n) = s
<1>1. s = [i \in 1..n |-> s[i]]
  OBVIOUS
<1> DEFINE f == [i \in 1..n |-> e[lba + i - 1]]
<1>2. f = [i \in 1..n |-> s[i]]
  OBVIOUS
<1> QED
  BY <1>1, <1>2 DEF Content

LEMMA Begins ==
    ASSUME NEW S, NEW T, NEW s \in Seq(S), NEW t \in Seq(T), NEW n \in Nat,
           n <= Len(s), SubSeq(s, 1, n) = t
    PROVE  n = Len(t) /\ \A i \in 1..n : t[i] = s[i]
OBVIOUS

\* Where an array's entries lie, a reader finds that array.
LEMMA EntriesAreRead ==
    ASSUME NEW crc \in Seq(Data), NEW e, NEW lba \in Nat, NEW n \in Nat, n = Len(crc),
           \A i \in 1..n : e[lba + i - 1] = crc[i], Fits(lba, n)
    PROVE  Readable(e, lba, n) /\ Content(e, lba, n) = crc
<1>1. Content(e, lba, n) = crc
  BY ContentIs
<1>2. ASSUME NEW l \in lba..(lba + n - 1) PROVE e[l] # Unreadable
  <2>1. PICK i \in 1..n : i = l - lba + 1
    OBVIOUS
  <2>2. l = lba + i - 1 /\ crc[i] \in Data
    BY <2>1
  <2> QED
    BY <2>2, BlockAssumption
<1> QED
  BY <1>1, <1>2 DEF Readable

LEMMA WholeIsValid ==
    ASSUME NEW a, Accepted(a), Whole(a), NEW role \in EntryRoles, NEW e,
           On(e, WriteChunk(a, role)), On(e, WriteChunk(a, HeaderOver(role)))
    PROVE  /\ IsValid(e, HeaderLba(role))
           /\ HeaderAt(e, HeaderLba(role)) = HeaderIn(a, HeaderOver(role))
<1> DEFINE over == HeaderOver(role)
           lba == HeaderLba(role)
           h == HeaderIn(a, over)
           c == a.chunks[role]
<1>1. /\ role \in DOMAIN a.chunks /\ over \in DOMAIN a.chunks
      /\ h.sound /\ h.n > 0 /\ UsableRangeOk(h)
      /\ h.my = LbaOf(over) /\ h.alt = AlternateOf(h.my) /\ (h.my = 1 => h.elba = 2)
      /\ c.lba = h.elba /\ SubSeq(c.blocks, 1, h.n) = h.crc
  BY DEF Whole, Has
<1>2. over \notin EntryRoles
  BY RoleFacts
<1>3. /\ a.chunks[over].lba = lba /\ Len(a.chunks[over].blocks) = 1 /\ lba \in Nat
  <2>1. /\ a.chunks[over].lba = LbaOf(over)
        /\ Size(a.chunks[over]) = 1 /\ Size(a.chunks[over]) = Len(a.chunks[over].blocks)
    BY <1>1, <1>2, ChunkFacts
  <2>2. lba \in Nat /\ lba = LbaOf(over)
    BY RoleFacts DEF HeaderLba
  <2> QED
    BY <2>1, <2>2
<1>4. e[lba] = a.chunks[over].blocks[1]
  <2>1. /\ WriteChunk(a, over).lba = lba
        /\ WriteChunk(a, over).blocks = a.chunks[over].blocks
    BY <1>3 DEF WriteChunk, Write
  <2> PICK first, m \in Nat : first = lba /\ m = Len(a.chunks[over].blocks)
    BY <1>3
  <2>2. lba \in Spanned(WriteChunk(a, over))
    <3>1. Spanned(WriteChunk(a, over)) = first..(first + m - 1) /\ m = 1
      BY <1>3, <2>1 DEF Spanned
    <3>2. first \in first..(first + m - 1)
      BY <3>1
    <3> QED
      BY <3>1, <3>2
  <2>3. lba - lba + 1 = 1
    BY <1>3
  <2> QED
    BY <2>1, <2>2, <2>3 DEF On
<1>5. h = a.chunks[over].blocks[1] /\ h \in Header
  BY <1>1 DEF HeaderIn, NotAHeader
<1>6. HeaderAt(e, lba) = h /\ e[lba] # Unreadable
  BY <1>4, <1>5, BlockAssumption DEF HeaderAt
<1>7. /\ c.lba \in Nat /\ c.blocks \in Seq(Block) /\ Size(c) = Len(c.blocks)
      /\ Fits(c.lba, Len(c.blocks)) /\ c.lba >= 2
  BY <1>1, ChunkFacts DEF LBA, Fits
<1>8. h.n <= Len(c.blocks)
  <2>1. LongEnough(a, role) /\ h.n \in Nat
    BY <1>5, GeometryAssumption DEF Accepted, Header
  <2> QED
    BY <1>7, <2>1 DEF LongEnough
<1>9. \A i \in 1..Len(c.blocks) : e[h.elba + i - 1] = c.blocks[i]
  <2> SUFFICES ASSUME NEW i \in 1..Len(c.blocks) PROVE e[c.lba + i - 1] = c.blocks[i]
    BY <1>1
  <2>1. WriteChunk(a, role).lba = c.lba /\ WriteChunk(a, role).blocks = c.blocks
    BY DEF WriteChunk, Write
  <2>2. PICK first, m \in Nat : first = c.lba /\ m = Len(c.blocks)
    BY <1>7
  <2>3. c.lba + i - 1 \in Spanned(WriteChunk(a, role)) /\ (c.lba + i - 1) - c.lba + 1 = i
    <3>1. Spanned(WriteChunk(a, role)) = first..(first + m - 1)
      BY <2>1, <2>2 DEF Spanned
    <3>2. i \in 1..m
      BY <2>2
    <3>3. first + i - 1 \in first..(first + m - 1) /\ (first + i - 1) - first + 1 = i
      BY <3>2
    <3> QED
      BY <2>2, <3>1, <3>3
  <2> QED
    BY <2>1, <2>3 DEF On
<1>10. Readable(e, h.elba, h.n) /\ Content(e, h.elba, h.n) = h.crc
  <2> HIDE DEF h, c
  <2>1. h.crc \in Seq(Data) /\ h.n \in Nat
    BY <1>5, GeometryAssumption DEF Header
  <2>2. PICK crc : crc = h.crc
    OBVIOUS
  <2>3. PICK n \in Nat : n = h.n
    BY <2>1
  <2>4. PICK first \in Nat : first = h.elba
    BY <1>1, <1>7
  <2>5. PICK m \in Nat : m = Len(c.blocks)
    BY <1>7
  <2>6. n = Len(crc) /\ \A i \in 1..n : crc[i] = c.blocks[i]
    BY <1>1, <1>7, <1>8, <2>1, <2>2, <2>3, Begins
  <2>7. Fits(first, n) /\ n <= m
    BY <1>1, <1>7, <1>8, <2>3, <2>4, <2>5, GeometryAssumption DEF Fits
  <2>8. \A i \in 1..n : e[first + i - 1] = crc[i]
    BY <1>9, <2>4, <2>5, <2>6, <2>7
  <2>9. crc \in Seq(Data)
    BY <2>1, <2>2
  <2>10. Readable(e, first, n) /\ Content(e, first, n) = crc
    BY <2>6, <2>7, <2>8, <2>9, EntriesAreRead
  <2> QED
    BY <2>2, <2>3, <2>4, <2>10
<1>11. h.my = lba /\ AlternateOf(h.my) = AlternateOf(lba) /\ (lba = 1 => h.elba = 2) /\ h.elba >= 1
  BY <1>1, <1>7 DEF HeaderLba
<1> HIDE DEF h, c, lba, over
<1>12. SoundButForAlternate(e, lba)
  BY <1>1, <1>6, <1>10, <1>11 DEF SoundButForAlternate
<1> QED
  BY <1>1, <1>6, <1>11, <1>12 DEF IsValid, h, lba, over

\* A chunk that is in place is what a reader finds there.
LEMMA OnIsContent ==
    ASSUME NEW a, Accepted(a), NEW role \in DOMAIN a.chunks, NEW e, On(e, WriteChunk(a, role))
    PROVE  LET c == a.chunks[role] IN Content(e, c.lba, Size(c)) = c.blocks
<1> DEFINE c == a.chunks[role]
<1>1. c.lba \in Nat /\ c.blocks \in Seq(Block) /\ Size(c) = Len(c.blocks)
  BY ChunkFacts DEF LBA
<1>2. WriteChunk(a, role).lba = c.lba /\ WriteChunk(a, role).blocks = c.blocks
  BY DEF WriteChunk, Write
<1> HIDE DEF c
<1>3. PICK first, m \in Nat : first = c.lba /\ m = Len(c.blocks)
  BY <1>1
<1>4. ASSUME NEW i \in 1..m PROVE e[first + i - 1] = c.blocks[i]
  <2>1. first + i - 1 \in Spanned(WriteChunk(a, role)) /\ (first + i - 1) - first + 1 = i
    BY <1>2, <1>3 DEF Spanned
  <2> QED
    BY <1>2, <1>3, <2>1 DEF On
<1>5. Content(e, first, m) = c.blocks
  <2>1. PICK s \in Seq(Block) : s = c.blocks
    BY <1>1
  <2>2. m = Len(s) /\ \A i \in 1..m : e[first + i - 1] = s[i]
    BY <1>3, <1>4, <2>1
  <2>3. Content(e, first, m) = s
    BY <2>2, ContentIs
  <2> QED
    BY <2>1, <2>3
<1> QED
  BY <1>1, <1>3, <1>5 DEF c

\* The last flush of a restore of a whole snapshot leaves
\* both of its tables valid and every chunk in place on the medium.
LEMMA LastStepInstalls ==
    ASSUME LandInv, LandInv', ApplyStep, UNCHANGED histories, pc = Len(plan), Separated,
           NEW a \in restored, Whole(a), NEW role \in EntryRoles, plan = Committing(a, role)
    PROVE  Installed(a)
<1>1. Accepted(a) /\ medium' \in Disk
  BY DEF LandInv, SnapshotInv, SnapshotTypeOK, TypeOK
<1> DEFINE n == IF Has(a, "Mbr") THEN 10 ELSE 8
           next == OtherCopy(role)
<1>2. /\ Len(plan) = n /\ plan[n] = Flush
      /\ plan[1] = WriteChunk(a, role) /\ plan[3] = WriteChunk(a, HeaderOver(role))
      /\ plan[5] = WriteChunk(a, next) /\ plan[7] = WriteChunk(a, HeaderOver(next))
      /\ Has(a, "Mbr") => plan[9] = WriteChunk(a, "Mbr")
  BY <1>1, PlanShape
<1>3. medium' = disk
  BY <1>2 DEF ApplyStep, WriteStep, FlushStep, Flush
<1>4. \A i \in 1..(n - 1) : On(medium', plan[i])
  BY <1>2, <1>3 DEF LandInv, Landed
<1>5. /\ On(medium', plan[1]) /\ On(medium', plan[3]) /\ On(medium', plan[5])
      /\ On(medium', plan[7]) /\ (Has(a, "Mbr") => On(medium', plan[9]))
  BY <1>4
<1>6. \A r \in EntryRoles :
        On(medium', WriteChunk(a, r)) /\ On(medium', WriteChunk(a, HeaderOver(r)))
  BY <1>2, <1>5, RoleFacts
<1>7. \A r \in EntryRoles : IsValid(medium', HeaderLba(r))
  BY <1>1, <1>6, WholeIsValid
<1>8. ASSUME NEW r \in DOMAIN a.chunks
      PROVE  Content(medium', a.chunks[r].lba, Size(a.chunks[r])) = a.chunks[r].blocks
  <2>1. r \in Roles
    BY <1>1, ChunkFacts
  <2>2. On(medium', WriteChunk(a, r))
    BY <1>2, <1>5, <1>6, <2>1, RoleFacts DEF Roles, HeaderRoles, Has
  <2> QED
    BY <1>1, <2>2, OnIsContent
<1> QED
  BY <1>7, <1>8, RoleFacts DEF Installed

\* RestoreInstalls: a restore of a whole snapshot that runs to its end leaves both
\* of its tables valid and durable, every chunk of the file where it came from.
THEOREM RestoreInstallsWhole == SnapshotSpec => RestoreInstalls
<1> DEFINE Runs == ApplyStep /\ pc = Len(plan) /\ Separated
           Installs == \A a \in restored : Whole(a) /\ plan \in {MainFirst(a), SecondaryFirst(a)}
                                              => Installed(a)
<1>1. ASSUME LandInv, LandInv', [SnapshotNext]_snapshotVars, Runs PROVE Installs
  <2>1. SnapshotNext => UNCHANGED histories
    <3>1. ~Idle
      BY <1>1 DEF ApplyStep, WriteStep, FlushStep
    <3> QED
      BY <3>1 DEF SnapshotNext, RunBackup, RunRestore, Start
  <2>2. UNCHANGED histories
    BY <1>1, <2>1 DEF snapshotVars
  <2> SUFFICES ASSUME NEW a \in restored, Whole(a), plan \in {MainFirst(a), SecondaryFirst(a)}
               PROVE  Installed(a)
    OBVIOUS
  <2>3. PICK role \in EntryRoles : plan = Committing(a, role)
    BY RestoreCommits, RoleFacts
  <2> QED
    BY <1>1, <2>2, <2>3, LastStepInstalls
<1>2. LandInv /\ LandInv' /\ [SnapshotNext]_snapshotVars => [Runs => Installs]_snapshotVars
  BY <1>1
<1>3. SnapshotSpec => []LandInv
  BY LandInvInit, LandInvStep, PTL DEF SnapshotSpec
<1>4. SnapshotSpec => [][Runs => Installs]_snapshotVars
  BY <1>2, <1>3, PTL DEF SnapshotSpec
<1> QED
  BY <1>4 DEF RestoreInstalls

-----------------------------------------------------------------------------
(* Which step of a plan writes which blocks                                *)

\* An array's chunk keeps clear of the blocks of headers and of the MBR, and a
\* chunk of the other roles writes its own block.
LEMMA RoleSpans ==
    ASSUME SnapshotInv, Separated, NEW a \in restored, NEW role \in EntryRoles
    PROVE  /\ WriteChunk(a, role) \in StepsOf(a)
           /\ WriteChunk(a, HeaderOver(role)) \in StepsOf(a)
           /\ \A l \in Spanned(WriteChunk(a, role)) :
                 l \in LBA /\ l \in Arrays(role) /\ l \notin {0, 1, LastBlock}
           /\ \A l \in Spanned(WriteChunk(a, HeaderOver(role))) : l = HeaderLba(role)
           /\ Has(a, "Mbr") => \A l \in Spanned(WriteChunk(a, "Mbr")) : l = 0
<1>1. Accepted(a)
  BY DEF SnapshotInv
<1>2. role \in DOMAIN a.chunks /\ HeaderOver(role) \in DOMAIN a.chunks
  BY <1>1, RoleFacts DEF Accepted, Has, HeaderRoles
<1>3. ASSUME NEW r \in DOMAIN a.chunks, NEW l \in Spanned(WriteChunk(a, r))
      PROVE  /\ l \in LBA
             /\ l \in ChunkBlocks(a, r)
             /\ r \in EntryRoles => l >= 2
             /\ r \notin EntryRoles => l = LbaOf(r)
  <2> DEFINE c == a.chunks[r]
  <2>1. /\ c.lba \in LBA /\ Size(c) = Len(c.blocks) /\ Size(c) \in Nat /\ Size(c) >= 1
        /\ c.lba + Size(c) <= LastBlock + 1
        /\ r \notin EntryRoles => c.lba = LbaOf(r) /\ Size(c) = 1
        /\ r \in EntryRoles => c.lba >= 2
    BY <1>1, ChunkFacts
  <2>2. WriteChunk(a, r).lba = c.lba /\ WriteChunk(a, r).blocks = c.blocks
    BY DEF WriteChunk, Write
  <2> HIDE DEF c
  <2>3. PICK first, n \in Nat : first = c.lba /\ n = Size(c)
    BY <2>1 DEF LBA
  <2>4. l \in first..(first + n - 1)
    BY <1>3, <2>1, <2>2, <2>3 DEF Spanned
  <2>5. l \in LBA
    BY <2>1, <2>3, <2>4, GeometryAssumption DEF LBA
  <2>6. n = 1 => l = first
    BY <2>4
  <2> QED
    BY <2>1, <2>3, <2>4, <2>5, <2>6 DEF ChunkBlocks, c
<1>4. ASSUME NEW l \in Spanned(WriteChunk(a, role))
      PROVE  l \in LBA /\ l \in Arrays(role) /\ l \notin {0, 1, LastBlock}
  <2>1. l \in LBA /\ l \in ChunkBlocks(a, role) /\ l >= 2
    BY <1>2, <1>3
  <2>2. l \in Arrays(role)
    BY <2>1 DEF Arrays
  <2>3. l # LastBlock
    BY <2>2, RoleFacts DEF Separated
  <2> QED
    BY <2>1, <2>2, <2>3
<1>5. ASSUME NEW l \in Spanned(WriteChunk(a, HeaderOver(role))) PROVE l = HeaderLba(role)
  BY <1>2, <1>3, RoleFacts DEF HeaderLba
<1>6. ASSUME Has(a, "Mbr"), NEW l \in Spanned(WriteChunk(a, "Mbr")) PROVE l = 0
  BY <1>3, <1>6, RoleFacts DEF Has, LbaOf
<1>7. WriteChunk(a, role) \in StepsOf(a) /\ WriteChunk(a, HeaderOver(role)) \in StepsOf(a)
  BY <1>2 DEF StepsOf
<1> QED
  BY <1>4, <1>5, <1>6, <1>7

\* The steps of the plan at hand, by their number.
LEMMA StepNumbers ==
    ASSUME SnapshotInv, pc # 0, NEW a \in restored, NEW role \in EntryRoles,
           plan = Committing(a, role)
    PROVE  /\ pc \in 1..Len(plan)
           /\ Len(plan) = IF Has(a, "Mbr") THEN 10 ELSE 8
           /\ \/ pc = 1 /\ plan[pc] = WriteChunk(a, role)
              \/ pc = 3 /\ plan[pc] = WriteChunk(a, HeaderOver(role))
              \/ pc = 5 /\ plan[pc] = WriteChunk(a, OtherCopy(role))
              \/ pc = 7 /\ plan[pc] = WriteChunk(a, HeaderOver(OtherCopy(role)))
              \/ pc \in {2, 4, 6, 8} /\ plan[pc] = Flush
              \/ pc = 9 /\ Has(a, "Mbr") /\ plan[pc] = WriteChunk(a, "Mbr")
              \/ pc = 10 /\ plan[pc] = Flush
           /\ plan[1] = WriteChunk(a, role) /\ plan[2] = Flush
           /\ plan[3] = WriteChunk(a, HeaderOver(role))
           /\ plan[5] = WriteChunk(a, OtherCopy(role)) /\ plan[6] = Flush
<1> DEFINE next == OtherCopy(role)
<1>1. Accepted(a)
  BY DEF SnapshotInv
<1>2. /\ Len(plan) = IF Has(a, "Mbr") THEN 10 ELSE 8
      /\ plan[1] = WriteChunk(a, role) /\ plan[3] = WriteChunk(a, HeaderOver(role))
      /\ plan[5] = WriteChunk(a, next) /\ plan[7] = WriteChunk(a, HeaderOver(next))
      /\ plan[2] = Flush /\ plan[4] = Flush /\ plan[6] = Flush /\ plan[8] = Flush
      /\ Has(a, "Mbr") => plan[9] = WriteChunk(a, "Mbr") /\ plan[10] = Flush
  BY <1>1, PlanShape
<1>3. pc \in 0..Len(plan)
  BY DEF SnapshotInv, SnapshotTypeOK, TypeOK
<1>4. pc \in 1..8 \/ (Has(a, "Mbr") /\ pc \in {9, 10})
  BY <1>2, <1>3
<1>5. pc \in 1..Len(plan)
  BY <1>2, <1>4
<1> HIDE DEF next
<1>6. pc \in {1, 2, 3, 4, 5, 6, 7, 8} \/ (Has(a, "Mbr") /\ pc \in {9, 10})
  BY <1>4
<1> QED
  BY <1>2, <1>5, <1>6 DEF next

\* A header is written with its array in place, on the disk and on the medium.
LEMMA HeaderStep ==
    ASSUME LandInv, Separated, pc # 0, NEW a \in restored, NEW first \in EntryRoles,
           plan = Committing(a, first), NEW role \in EntryRoles,
           HeaderLba(role) \in Spanned(plan[pc])
    PROVE  On(disk, WriteChunk(a, role)) /\ On(medium, WriteChunk(a, role))
<1> DEFINE next == OtherCopy(first)
<1>1. SnapshotInv /\ next \in EntryRoles /\ first # next
  BY RoleFacts DEF LandInv
<1>2. HeaderLba(role) \in {1, LastBlock} /\ HeaderLba(role) # 0
  BY RoleFacts
<1>3. plan[pc] # Flush
  BY DEF Flush, Spanned
<1>4. \A r \in EntryRoles : plan[pc] # WriteChunk(a, r)
  BY <1>1, <1>2, RoleSpans
<1>5. ~(Has(a, "Mbr") /\ plan[pc] = WriteChunk(a, "Mbr"))
  BY <1>1, <1>2, RoleSpans
<1>6. \A r \in EntryRoles : plan[pc] = WriteChunk(a, HeaderOver(r)) => r = role
  <2>1. \A r \in EntryRoles : plan[pc] = WriteChunk(a, HeaderOver(r)) => HeaderLba(role) = HeaderLba(r)
    BY <1>1, RoleSpans
  <2> QED
    BY <2>1, RoleFacts
<1>7. \/ pc = 3 /\ first = role
      \/ pc = 7 /\ next = role
  BY <1>1, <1>3, <1>4, <1>5, <1>6, StepNumbers
<1>8. /\ plan[1] = WriteChunk(a, first) /\ plan[2] = Flush
      /\ plan[5] = WriteChunk(a, next) /\ plan[6] = Flush
  BY <1>1, StepNumbers
<1>9. \A i \in 1..(pc - 1) : /\ On(disk, plan[i])
                             /\ plan[i] = Flush => \A j \in 1..(i - 1) : On(medium, plan[j])
  BY DEF LandInv, Landed
<1> HIDE DEF next
<1>10. CASE pc = 3 /\ first = role
  <2>1. 1 \in 1..(pc - 1) /\ 2 \in 1..(pc - 1) /\ 1 \in 1..(2 - 1)
    BY <1>10
  <2> QED
    BY <1>8, <1>9, <1>10, <2>1
<1>11. CASE pc = 7 /\ next = role
  <2>1. 5 \in 1..(pc - 1) /\ 6 \in 1..(pc - 1) /\ 5 \in 1..(6 - 1)
    BY <1>11
  <2> QED
    BY <1>8, <1>9, <1>11, <2>1
<1> QED
  BY <1>7, <1>10, <1>11

-----------------------------------------------------------------------------
(* A restored header comes after its array                                 *)

\* With one snapshot ever restored, a header block that is not the first disk's,
\* in the cache or on the medium, has the chunk of its array in place in both.
OrderInv ==
    \A a \in restored, role \in EntryRoles : restored = {a} /\ Separated =>
        \/ disk[HeaderLba(role)] = disk0[HeaderLba(role)]
           /\ medium[HeaderLba(role)] = disk0[HeaderLba(role)]
        \/ On(disk, WriteChunk(a, role)) /\ On(medium, WriteChunk(a, role))

\* Nothing restored, nothing changed.
LEMMA NothingWritten ==
    ASSUME SnapshotInv, restored = {}
    PROVE  \A l \in LBA : disk[l] = disk0[l] /\ medium[l] = disk0[l]
<1>1. RestoreSteps(restored) = {Flush}
  BY DEF RestoreSteps
<1>2. \A l : l \notin Spanned(Flush)
  BY DEF Flush, Spanned
<1> QED
  BY <1>1, <1>2 DEF SnapshotInv, OnlyWrittenBy, WrittenBy

\* A write, whole or torn.
LEMMA WriteKeepsOrder ==
    ASSUME LandInv, OrderInv, pc # 0, NEW which, disk' = Put(disk, plan[pc], which),
           UNCHANGED <<medium, disk0, restored>>
    PROVE  OrderInv'
<1>1. Separated' => Separated
  BY DEF Separated, Arrays
<1> SUFFICES ASSUME NEW a \in restored, NEW role \in EntryRoles, restored = {a}, Separated,
                    \/ disk'[HeaderLba(role)] # disk0[HeaderLba(role)]
                    \/ medium[HeaderLba(role)] # disk0[HeaderLba(role)]
             PROVE  On(disk', WriteChunk(a, role)) /\ On(medium, WriteChunk(a, role))
  BY <1>1 DEF OrderInv, On
<1>2. PICK first \in EntryRoles : plan = Committing(a, first)
  BY DEF LandInv, Planned
<1>3. SnapshotInv /\ WriteChunk(a, role) \in StepsOf(a) /\ plan[pc] \in StepsOf(a)
  <2>1. SnapshotInv /\ WriteChunk(a, role) \in StepsOf(a)
    BY RoleSpans DEF LandInv
  <2>2. plan \in Seq(StepsOf(a)) /\ pc \in 1..Len(plan)
    BY <1>2, <2>1, PlanShape, StepNumbers DEF SnapshotInv
  <2> QED
    BY <2>1, <2>2
<1>4. On(disk, WriteChunk(a, role)) /\ On(medium, WriteChunk(a, role))
  <2>1. CASE HeaderLba(role) \in Spanned(plan[pc])
    BY <1>2, <2>1, HeaderStep
  <2>2. CASE HeaderLba(role) \notin Spanned(plan[pc])
    <3>1. disk'[HeaderLba(role)] = disk[HeaderLba(role)]
      BY <2>2, RoleFacts DEF Put
    <3> QED
      BY <3>1 DEF OrderInv
  <2> QED
    BY <2>1, <2>2
<1> QED
  BY <1>3, <1>4, OnKept

LEMMA RestoreKeepsOrder ==
    ASSUME LandInv, OrderInv, RunRestore
    PROVE  OrderInv'
<1>1. PICK b \in saved : Start(RestorePlan(b, disk)) /\ restored' = restored \cup {b}
  BY DEF RunRestore
<1>2. disk' = disk /\ medium' = medium /\ disk0' = disk0
  BY <1>1 DEF Start
<1> SUFFICES ASSUME NEW a \in restored', NEW role \in EntryRoles, restored' = {a}, Separated'
             PROVE  \/ disk[HeaderLba(role)] = disk0[HeaderLba(role)]
                       /\ medium[HeaderLba(role)] = disk0[HeaderLba(role)]
                    \/ On(disk, WriteChunk(a, role)) /\ On(medium, WriteChunk(a, role))
  BY <1>2 DEF OrderInv, On
<1>3. CASE restored = {}
  BY <1>3, NothingWritten, RoleFacts DEF LandInv
<1>4. CASE restored # {}
  <2>1. restored = {a}
    BY <1>1, <1>4
  <2>2. Separated
    BY <1>2, <2>1 DEF Separated, Arrays
  <2> QED
    BY <2>1, <2>2 DEF OrderInv
<1> QED
  BY <1>3, <1>4

\* A flush, a power cut: each block of the new medium is the old one's or the
\* disk's, and where the disk moves it becomes the medium.
LEMMA MixKeepsOrder ==
    ASSUME LandInv, OrderInv, UNCHANGED <<disk0, restored>>,
           \A l \in LBA : medium'[l] \in {disk[l], medium[l]},
           disk' = disk \/ disk' = medium'
    PROVE  OrderInv'
<1>1. Separated' => Separated
  BY DEF Separated, Arrays
<1> SUFFICES ASSUME NEW a \in restored, NEW role \in EntryRoles, restored = {a}, Separated
             PROVE  \/ disk'[HeaderLba(role)] = disk0[HeaderLba(role)]
                       /\ medium'[HeaderLba(role)] = disk0[HeaderLba(role)]
                    \/ On(disk', WriteChunk(a, role)) /\ On(medium', WriteChunk(a, role))
  BY <1>1 DEF OrderInv, On
<1>2. HeaderLba(role) \in LBA
  BY RoleFacts
<1>3. \A l \in Spanned(WriteChunk(a, role)) : l \in LBA
  BY RoleSpans DEF LandInv
<1>4. CASE /\ disk[HeaderLba(role)] = disk0[HeaderLba(role)]
           /\ medium[HeaderLba(role)] = disk0[HeaderLba(role)]
  BY <1>2, <1>4
<1>5. CASE On(disk, WriteChunk(a, role)) /\ On(medium, WriteChunk(a, role))
  <2>1. On(medium', WriteChunk(a, role))
    BY <1>3, <1>5 DEF On
  <2>2. On(disk', WriteChunk(a, role))
    BY <1>5, <2>1
  <2> QED
    BY <2>1, <2>2
<1> QED
  BY <1>4, <1>5 DEF OrderInv

LEMMA OrderInvStep == LandInv /\ OrderInv /\ [SnapshotNext]_snapshotVars => OrderInv'
<1> SUFFICES ASSUME LandInv, OrderInv, [SnapshotNext]_snapshotVars PROVE OrderInv'
  OBVIOUS
<1>1. CASE RunRestore
  BY <1>1, RestoreKeepsOrder
<1>2. CASE RunBackup \/ UNCHANGED snapshotVars
  <2>1. UNCHANGED <<disk, medium, disk0, restored>>
    BY <1>2 DEF RunBackup, snapshotVars, vars, histories
  <2> QED
    BY <2>1, MixKeepsOrder
<1>3. CASE (ApplyStep \/ Fault) /\ UNCHANGED histories
  <2>1. restored' = restored
    BY <1>3 DEF histories
  <2>2. CASE WriteStep \/ FailingWrite
    <3>1. PICK which : disk' = Put(disk, plan[pc], which)
      BY <2>2 DEF WriteStep, FailingWrite
    <3>2. pc # 0 /\ UNCHANGED <<medium, disk0, restored>>
      BY <2>1, <2>2 DEF WriteStep, FailingWrite, Idle
    <3> QED
      BY <3>1, <3>2, WriteKeepsOrder
  <2>3. CASE FlushStep \/ FailingFlush
    <3>1. disk' = disk /\ (medium' = disk \/ medium' = medium) /\ UNCHANGED <<disk0, restored>>
      BY <2>1, <2>3 DEF FlushStep, FailingFlush
    <3> QED
      BY <3>1, MixKeepsOrder
  <2>4. CASE PowerCut
    <3>1. /\ disk' = medium' /\ UNCHANGED <<disk0, restored>>
          /\ \A l \in LBA : medium'[l] \in {disk[l], medium[l]}
      BY <2>1, <2>4 DEF PowerCut
    <3> QED
      BY <3>1, MixKeepsOrder
  <2> QED
    BY <1>3, <2>2, <2>3, <2>4 DEF ApplyStep, Fault
<1> QED
  BY <1>1, <1>2, <1>3 DEF SnapshotNext

LEMMA OrderInvOrders == LandInv /\ OrderInv => RestoredHeaderAfterArray
<1> SUFFICES ASSUME LandInv, OrderInv, NEW a \in restored, restored = {a}, Separated,
                    NEW role \in EntryRoles,
                    medium[HeaderLba(role)] # disk0[HeaderLba(role)]
             PROVE  Content(medium, a.chunks[role].lba, Size(a.chunks[role]))
                      = a.chunks[role].blocks
  BY DEF RestoredHeaderAfterArray, HeaderLba
<1>1. On(medium, WriteChunk(a, role))
  BY DEF OrderInv
<1>2. Accepted(a) /\ role \in DOMAIN a.chunks
  BY DEF LandInv, SnapshotInv, Accepted, Has
<1> QED
  BY <1>1, <1>2, OnIsContent

\* RestoredHeaderAfterArray: with one snapshot ever restored, a header of it is
\* durable only over the whole of its chunk of entries.
THEOREM RestoreOrdersWrites == SnapshotSpec => []RestoredHeaderAfterArray
<1>1. SnapshotInit => LandInv /\ OrderInv
  BY LandInvInit DEF SnapshotInit, OrderInv
<1>2. (LandInv /\ OrderInv) /\ [SnapshotNext]_snapshotVars => (LandInv /\ OrderInv)'
  BY LandInvStep, OrderInvStep
<1> QED
  BY <1>1, <1>2, OrderInvOrders, PTL DEF SnapshotSpec

-----------------------------------------------------------------------------
(* One copy is always safe                                                 *)

\* What the documentation promises its protection under, and the restores were
\* planned from durable state.
Protected ==
    /\ ~unsettled
    /\ TableOf(disk0) # NoTable
    /\ \A a \in restored : Whole(a)
    /\ Separated

Tables ==
    {TableOf(disk0), HeaderAt(disk0, 1).crc} \cup UNION {TablesIn(a) : a \in restored}

\* x shows a reader the copy of array role, and it is one of the tables meant.
Sound(x, role) ==
    IF role = "MainEntries" THEN IsValid(x, 1)
    ELSE UsableSource(x) /\ HeaderAt(x, LastBlock).crc \in Tables

\* The blocks that copy may lie on.
Zone(role) == ({HeaderLba(role)} \cup Arrays(role)) \ {0}

\* It is on the medium, and the cache holds nothing else for it.
Safe(role) ==
    /\ Sound(medium, role)
    /\ \A l \in Zone(role) \cap LBA : disk[l] = medium[l]

\* The copy a restore leaves alone at this step.
Spared(first) == IF pc <= 4 THEN OtherCopy(first) ELSE first

\* While nothing is being restored some copy is safe; during a restore it is the
\* one not being replaced.
SafeInv ==
    Protected =>
        /\ pc = 0 => \E role \in EntryRoles : Safe(role)
        /\ pc # 0 => \E a \in restored, first \in EntryRoles :
                      /\ plan = Committing(a, first)
                      /\ Safe(Spared(first))

\* The header a copy has is the first disk's or that of a snapshot restored.
LEMMA HeaderOrigin ==
    ASSUME SnapshotInv, Separated, NEW role \in EntryRoles, NEW x,
           WrittenBy(RestoreSteps(restored), x, HeaderLba(role))
    PROVE  \/ x[HeaderLba(role)] = disk0[HeaderLba(role)]
           \/ \E b \in restored :
                x[HeaderLba(role)] = b.chunks[HeaderOver(role)].blocks[1]
<1> SUFFICES ASSUME x[HeaderLba(role)] # disk0[HeaderLba(role)]
             PROVE  \E b \in restored :
                      x[HeaderLba(role)] = b.chunks[HeaderOver(role)].blocks[1]
  OBVIOUS
<1>1. PICK s \in RestoreSteps(restored) :
        /\ HeaderLba(role) \in Spanned(s)
        /\ x[HeaderLba(role)] = s.blocks[HeaderLba(role) - s.lba + 1]
  BY DEF WrittenBy
<1>2. s # Flush
  BY <1>1 DEF Flush, Spanned
<1>3. PICK b \in restored : s \in StepsOf(b)
  BY <1>1, <1>2 DEF RestoreSteps
<1>4. PICK r \in EntryRoles : s = WriteChunk(b, HeaderOver(r)) /\ HeaderLba(role) = HeaderLba(r)
  BY <1>1, <1>3, StepZones, RoleFacts
<1>5. r = role
  BY <1>4, RoleFacts
<1>6. /\ s.lba = b.chunks[HeaderOver(role)].lba
      /\ s.blocks = b.chunks[HeaderOver(role)].blocks
  BY <1>4, <1>5 DEF WriteChunk, Write
<1>7. Accepted(b) /\ HeaderOver(role) \in DOMAIN b.chunks /\ HeaderOver(role) \notin EntryRoles
  BY RoleFacts DEF SnapshotInv, Accepted, Has, HeaderRoles
<1>8. s.lba = HeaderLba(role)
  BY <1>6, <1>7, ChunkFacts DEF HeaderLba
<1>9. HeaderLba(role) - s.lba + 1 = 1
  <2>1. PICK l \in Nat : l = HeaderLba(role)
    BY RoleFacts
  <2> QED
    BY <1>8, <2>1
<1> QED
  BY <1>1, <1>6, <1>9

\* The array of a sound copy lies within its zone.
LEMMA ArrayInZone ==
    ASSUME SnapshotInv, Separated, \A a \in restored : Whole(a), NEW role \in EntryRoles,
           NEW x, x \in Disk, WrittenBy(RestoreSteps(restored), x, HeaderLba(role)),
           SoundButForAlternate(x, HeaderLba(role)),
           NEW l \in HeaderAt(x, HeaderLba(role)).elba
                     ..(HeaderAt(x, HeaderLba(role)).elba + HeaderAt(x, HeaderLba(role)).n - 1)
    PROVE  l \in Zone(role) /\ l \in LBA
<1> DEFINE lba == HeaderLba(role)
           h == HeaderAt(x, lba)
<1>1. lba \in LBA /\ lba \in {1, LastBlock}
  BY RoleFacts
<1>2. h \in Header
  BY <1>1, HeaderAtType
<1>3. /\ h.sound /\ UsableRangeOk(h) /\ h.elba >= 1 /\ x[lba] # Unreadable
      /\ h.elba + h.n <= LastBlock + 1
  BY DEF SoundButForAlternate, Readable, Fits
<1>4. h.elba \in Nat /\ h.n \in Nat
  BY <1>2, GeometryAssumption DEF Header
<1> PICK first, n \in Nat : first = h.elba /\ n = h.n
  BY <1>4
<1>5. l \in LBA /\ l # 0 /\ l >= first /\ l <= first + n - 1 /\ l \in Int
  BY <1>3, GeometryAssumption DEF LBA
<1>6. l \in Arrays(role)
  <2>1. CASE x[lba] = disk0[lba]
    <3>1. HeaderAt(disk0, lba) = h /\ HeaderIsAuthentic(disk0, lba)
      BY <1>3, <2>1 DEF HeaderAt, HeaderIsAuthentic
    <3>2. ArrayBlocks(disk0, lba) = h.elba..(h.elba + h.n - 1)
      BY <3>1 DEF ArrayBlocks
    <3> QED
      BY <3>2 DEF Arrays, HeaderLba
  <2>2. CASE x[lba] # disk0[lba]
    <3>1. PICK b \in restored : x[lba] = b.chunks[HeaderOver(role)].blocks[1]
      BY <2>2, HeaderOrigin
    <3>2. h = HeaderIn(b, HeaderOver(role))
      BY <3>1 DEF HeaderAt, HeaderIn
    <3>3. b.chunks[role].lba = h.elba
      BY <3>2 DEF Whole
    <3>4. Size(b.chunks[role]) >= h.n /\ Size(b.chunks[role]) \in Nat
      <4>1. Accepted(b) /\ role \in DOMAIN b.chunks /\ LongEnough(b, role)
        BY DEF SnapshotInv, Accepted, Has
      <4> QED
        BY <3>2, <4>1, ChunkFacts DEF LongEnough
    <3>5. l \in ChunkBlocks(b, role)
      BY <1>5, <3>3, <3>4 DEF ChunkBlocks
    <3> QED
      BY <3>5 DEF Arrays
  <2> QED
    BY <2>1, <2>2
<1> QED
  BY <1>5, <1>6 DEF Zone

\* A copy is as sound on a disk that agrees on its zone.
LEMMA SoundKept ==
    ASSUME SnapshotInv, Separated, \A a \in restored : Whole(a), NEW role \in EntryRoles,
           NEW x, x \in Disk, WrittenBy(RestoreSteps(restored), x, HeaderLba(role)),
           NEW y, \A l \in Zone(role) \cap LBA : y[l] = x[l],
           Sound(x, role)
    PROVE  Sound(y, role)
<1> DEFINE lba == HeaderLba(role)
           h == HeaderAt(x, lba)
<1>1. SoundButForAlternate(x, lba)
  BY RoleFacts DEF Sound, UsableSource, IsValid, OnlyWrongAlternate
<1>2. y[lba] = x[lba]
  BY RoleFacts DEF Zone
<1>3. HeaderAt(y, lba) = h
  BY <1>2 DEF HeaderAt
<1>4. h.elba \in Nat /\ h.n \in Nat
  <2>1. lba \in LBA
    BY RoleFacts
  <2>2. h \in Header
    BY <2>1, HeaderAtType
  <2> QED
    BY <2>2, GeometryAssumption DEF Header
<1>5. \A l \in h.elba..(h.elba + h.n - 1) : y[l] = x[l]
  BY <1>1, ArrayInZone
<1> PICK first, n \in Nat : first = h.elba /\ n = h.n
  BY <1>4
<1>6. \A l \in first..(first + n - 1) : y[l] = x[l]
  BY <1>5
<1>7. Readable(y, first, n) <=> Readable(x, first, n)
  BY <1>6 DEF Readable
<1>8. Content(y, first, n) = Content(x, first, n)
  <2>1. \A i \in 1..n : y[first + i - 1] = x[first + i - 1]
    <3> TAKE i \in 1..n
    <3>1. first + i - 1 \in first..(first + n - 1)
      OBVIOUS
    <3> QED
      BY <1>6, <3>1
  <2> QED
    BY <2>1 DEF Content
<1>9. SoundButForAlternate(y, lba)
  BY <1>1, <1>2, <1>3, <1>7, <1>8 DEF SoundButForAlternate
<1>10. IsValid(x, lba) => IsValid(y, lba)
  BY <1>3, <1>9 DEF IsValid
<1>11. OnlyWrongAlternate(x, lba) => OnlyWrongAlternate(y, lba)
  BY <1>3, <1>9 DEF OnlyWrongAlternate
<1> QED
  BY <1>3, <1>10, <1>11, RoleFacts DEF Sound, UsableSource

LEMMA RunRestoreSafe ==
    ASSUME LandInv, SafeInv, RunRestore
    PROVE  SafeInv'
<1>1. PICK b \in saved :
        /\ Idle
        /\ Start(RestorePlan(b, disk))
        /\ restored' = restored \cup {b}
  BY DEF RunRestore, Start
<1>2. /\ pc = 0 /\ pc' = 1 /\ plan' = RestorePlan(b, disk)
      /\ disk' = disk /\ medium' = medium /\ disk0' = disk0
  BY <1>1 DEF Start, Idle
<1> SUFFICES ASSUME Protected'
             PROVE  \E a \in restored', first \in EntryRoles :
                      plan' = Committing(a, first) /\ Safe(OtherCopy(first))'
  BY <1>2 DEF SafeInv, Spared
<1>3. ~unsettled /\ \A l \in LBA : disk[l] = medium[l]
  BY DEF Protected, RunRestore, InFlight
<1>4. disk = medium
  BY <1>3 DEF LandInv, SnapshotInv, SnapshotTypeOK, TypeOK, Disk
<1>5. Protected
  BY <1>1, <1>2, <1>3 DEF Protected, Separated, Arrays
<1>6. PICK role \in EntryRoles : Sound(medium, role)
  BY <1>2, <1>5 DEF SafeInv, Safe
<1>7. Tables \subseteq Tables'
  BY <1>1, <1>2 DEF Tables
<1>8. ASSUME NEW r \in EntryRoles, Sound(medium, r) PROVE Safe(r)'
  BY <1>2, <1>3, <1>7, <1>8 DEF Safe, Sound
<1>9. CASE IsValid(disk, 1)
  <2>1. plan' = Committing(b, "SecondaryEntries")
    BY <1>2, <1>9, RestoreCommits
  <2>2. Sound(medium, "MainEntries")
    BY <1>4, <1>9 DEF Sound
  <2> QED
    BY <1>1, <1>8, <2>1, <2>2, RoleFacts
<1>10. CASE ~IsValid(disk, 1)
  <2>1. plan' = Committing(b, "MainEntries")
    BY <1>2, <1>10, RestoreCommits
  <2>2. Sound(medium, "SecondaryEntries")
    BY <1>4, <1>6, <1>10, RoleFacts DEF Sound
  <2> QED
    BY <1>1, <1>8, <2>1, <2>2, RoleFacts
<1> QED
  BY <1>9, <1>10

\* The step at hand writes nowhere in its zone.
LEMMA StepMissesZone ==
    ASSUME LandInv, Separated, pc # 0, NEW a \in restored, NEW first \in EntryRoles,
           plan = Committing(a, first), NEW l \in Zone(Spared(first))
    PROVE  l \notin Spanned(plan[pc])
<1> DEFINE next == OtherCopy(first)
<1>1. SnapshotInv /\ next \in EntryRoles /\ first # next
  BY RoleFacts DEF LandInv
<1>2. ASSUME NEW r \in EntryRoles, NEW s \in EntryRoles, r # s, l \in Zone(s)
      PROVE  /\ l \notin Spanned(WriteChunk(a, r))
             /\ l \notin Spanned(WriteChunk(a, HeaderOver(r)))
  <2>1. l \in Spanned(WriteChunk(a, r)) => l \in Arrays(r) /\ l \notin {0, 1, LastBlock}
    BY <1>1, RoleSpans
  <2>2. l \in Spanned(WriteChunk(a, HeaderOver(r))) => l = HeaderLba(r)
    BY <1>1, RoleSpans
  <2>3. l = HeaderLba(s) \/ l \in Arrays(s)
    BY <1>2 DEF Zone
  <2> QED
    BY <1>2, <2>1, <2>2, <2>3, RoleFacts DEF Separated
<1>3. l # 0
  BY DEF Zone
<1>4. l \notin Spanned(Flush)
  BY DEF Flush, Spanned
<1>5. Has(a, "Mbr") => l \notin Spanned(WriteChunk(a, "Mbr"))
  BY <1>1, <1>3, RoleSpans
<1>6. pc <= 4 => /\ l \notin Spanned(WriteChunk(a, first))
                 /\ l \notin Spanned(WriteChunk(a, HeaderOver(first)))
  BY <1>1, <1>2 DEF Spared
<1>7. ~(pc <= 4) => /\ l \notin Spanned(WriteChunk(a, next))
                    /\ l \notin Spanned(WriteChunk(a, HeaderOver(next)))
  BY <1>1, <1>2 DEF Spared
<1> HIDE DEF next
<1>8. \/ pc = 1 /\ plan[pc] = WriteChunk(a, first)
      \/ pc = 3 /\ plan[pc] = WriteChunk(a, HeaderOver(first))
      \/ pc = 5 /\ plan[pc] = WriteChunk(a, next)
      \/ pc = 7 /\ plan[pc] = WriteChunk(a, HeaderOver(next))
      \/ plan[pc] = Flush
      \/ Has(a, "Mbr") /\ plan[pc] = WriteChunk(a, "Mbr")
  BY <1>1, StepNumbers DEF next
<1> QED
  BY <1>4, <1>5, <1>6, <1>7, <1>8

\* A copy that is safe stays so while no step touches its zone.
LEMMA StillSafe ==
    ASSUME SnapshotInv, Protected, UNCHANGED <<disk0, restored>>,
           NEW role \in EntryRoles, Safe(role),
           \A l \in Zone(role) \cap LBA : medium'[l] = medium[l] /\ disk'[l] = medium[l]
    PROVE  Safe(role)'
<1>1. medium \in Disk /\ WrittenBy(RestoreSteps(restored), medium, HeaderLba(role))
  BY RoleFacts DEF SnapshotInv, SnapshotTypeOK, TypeOK, OnlyWrittenBy
<1>2. Sound(medium', role)
  <2>1. \A l \in Zone(role) \cap LBA : medium'[l] = medium[l]
    OBVIOUS
  <2>2. Separated /\ (\A a \in restored : Whole(a)) /\ Sound(medium, role)
    BY DEF Protected, Safe
  <2> QED
    BY <1>1, <2>1, <2>2, SoundKept
<1>3. Tables' = Tables /\ Zone(role)' = Zone(role)
  BY DEF Tables, Zone, Arrays
<1>4. Sound(medium, role)'
  BY <1>2, <1>3 DEF Sound
<1> QED
  BY <1>3, <1>4 DEF Safe

\* The flush behind the first copy's header makes that copy safe.
LEMMA FlushMakesSafe ==
    ASSUME LandInv, Protected, pc = 4, FlushStep, UNCHANGED <<disk0, restored>>,
           NEW a \in restored, NEW first \in EntryRoles, plan = Committing(a, first)
    PROVE  Safe(first)'
<1>1. medium' = disk /\ disk' = disk
  BY DEF FlushStep
<1>2. plan[1] = WriteChunk(a, first) /\ plan[3] = WriteChunk(a, HeaderOver(first))
  BY StepNumbers DEF LandInv
<1>3. On(disk, plan[1]) /\ On(disk, plan[3])
  <2>1. 1 \in 1..(pc - 1) /\ 3 \in 1..(pc - 1)
    OBVIOUS
  <2> QED
    BY <2>1 DEF LandInv, Landed, Protected
<1>4. Accepted(a) /\ Whole(a)
  BY DEF LandInv, SnapshotInv, Protected
<1>5. /\ IsValid(disk, HeaderLba(first))
      /\ HeaderAt(disk, HeaderLba(first)) = HeaderIn(a, HeaderOver(first))
  BY <1>2, <1>3, <1>4, WholeIsValid
<1>6. HeaderIn(a, HeaderOver(first)).crc \in Tables
  BY RoleFacts DEF Tables, TablesIn, HeaderRoles
<1>7. Sound(disk, first)
  BY <1>5, <1>6, RoleFacts DEF Sound, UsableSource
<1>8. Tables' = Tables
  BY DEF Tables
<1>9. Sound(medium, first)'
  BY <1>1, <1>7, <1>8 DEF Sound
<1> QED
  BY <1>1, <1>9 DEF Safe

LEMMA SafeStep ==
    ASSUME LandInv, SafeInv, ApplyStep \/ Fault, UNCHANGED histories
    PROVE  SafeInv'
<1>1. UNCHANGED <<disk0, restored, unsettled>>
  BY DEF histories, ApplyStep, Fault, WriteStep, FlushStep, FailingWrite, FailingFlush, PowerCut
<1>2. Protected' => Protected
  BY <1>1 DEF Protected, Separated, Arrays
<1> SUFFICES ASSUME Protected PROVE SafeInv'
  BY <1>2 DEF SafeInv
<1>3. SnapshotInv
  BY DEF LandInv
<1>4. CASE pc = 0
  <2>1. PICK role \in EntryRoles : Safe(role)
    BY <1>4 DEF SafeInv
  <2>2. PowerCut
    BY <1>4 DEF ApplyStep, Fault, WriteStep, FlushStep, FailingWrite, FailingFlush, Idle
  <2>3. \A l \in Zone(role) \cap LBA : medium'[l] = medium[l] /\ disk'[l] = medium[l]
    BY <2>1, <2>2 DEF PowerCut, Safe
  <2>4. Safe(role)'
    BY <1>1, <1>3, <2>1, <2>3, StillSafe
  <2>5. pc' = 0
    BY <2>2 DEF PowerCut, Stop
  <2> QED
    BY <2>4, <2>5 DEF SafeInv
<1>5. CASE pc # 0
  <2>1. PICK a \in restored, first \in EntryRoles : plan = Committing(a, first) /\ Safe(Spared(first))
    BY <1>5 DEF SafeInv
  <2>2. Spared(first) \in EntryRoles
    BY RoleFacts DEF Spared
  <2>3. \A l \in Zone(Spared(first)) \cap LBA : disk[l] = medium[l] /\ l \notin Spanned(plan[pc])
    BY <1>5, <2>1, StepMissesZone DEF Safe, Protected
  <2>4. \A l \in Zone(Spared(first)) \cap LBA : medium'[l] = medium[l] /\ disk'[l] = medium[l]
    <3>1. CASE WriteStep \/ FailingWrite
      BY <2>3, <3>1 DEF WriteStep, FailingWrite, Put
    <3>2. CASE FlushStep \/ FailingFlush
      BY <2>3, <3>2 DEF FlushStep, FailingFlush
    <3>3. CASE PowerCut
      BY <2>3, <3>3 DEF PowerCut
    <3> QED
      BY <3>1, <3>2, <3>3 DEF ApplyStep, Fault
  <2> PICK spared \in EntryRoles : spared = Spared(first)
    BY <2>2
  <2>5. Safe(spared)'
    BY <1>1, <1>3, <2>1, <2>4, StillSafe
  <2>6. CASE Stop
    BY <2>5, <2>6 DEF Stop, SafeInv
  <2>7. CASE ~Stop
    <3>1. pc' = pc + 1 /\ plan' = plan /\ (WriteStep \/ FlushStep)
      BY <2>7 DEF ApplyStep, Fault, WriteStep, FlushStep, FailingWrite, FailingFlush,
                  PowerCut, Advance
    <3>2. pc \in Nat /\ pc' # 0
      BY <1>3, <3>1 DEF SnapshotInv, SnapshotTypeOK, TypeOK
    <3>3. CASE pc = 4
      <4>1. plan[pc] = Flush
        BY <1>3, <1>5, <2>1, <3>3, StepNumbers
      <4>2. FlushStep
        BY <3>1, <4>1 DEF WriteStep, Flush
      <4>3. Safe(first)'
        BY <1>1, <2>1, <3>3, <4>2, FlushMakesSafe
      <4>4. ~(pc' <= 4)
        BY <3>1, <3>3
      <4> QED
        BY <1>1, <2>1, <3>1, <3>2, <4>3, <4>4 DEF SafeInv, Spared
    <3>4. CASE pc # 4
      <4>1. pc' <= 4 <=> pc <= 4
        BY <3>1, <3>2, <3>4
      <4> QED
        BY <1>1, <2>1, <2>5, <3>1, <3>2, <4>1 DEF SafeInv, Spared
    <3> QED
      BY <3>3, <3>4
  <2> QED
    BY <2>6, <2>7
<1> QED
  BY <1>4, <1>5

LEMMA SafeInvStep == LandInv /\ SafeInv /\ [SnapshotNext]_snapshotVars => SafeInv'
<1> SUFFICES ASSUME LandInv, SafeInv, [SnapshotNext]_snapshotVars PROVE SafeInv'
  OBVIOUS
<1>1. CASE RunBackup \/ UNCHANGED snapshotVars
  <2>1. UNCHANGED <<disk, medium, disk0, plan, pc, restored, unsettled>>
    BY <1>1 DEF RunBackup, snapshotVars, vars, histories
  <2> QED
    BY <2>1 DEF SafeInv, Protected, Separated, Arrays, Safe, Sound, Zone, Tables, Spared
<1> QED
  BY <1>1, RunRestoreSafe, SafeStep DEF SnapshotNext

LEMMA SafeInvInit == SnapshotInit => SafeInv
<1> SUFFICES ASSUME SnapshotInit, Protected
             PROVE  \E role \in EntryRoles : Safe(role)
  BY DEF SafeInv, SnapshotInit, Init
<1>1. disk = disk0 /\ medium = disk0
  BY DEF SnapshotInit, Init
<1>2. CASE IsValid(disk0, 1)
  BY <1>1, <1>2, RoleFacts DEF Safe, Sound
<1>3. CASE ~IsValid(disk0, 1)
  <2>1. UsableSource(disk0) /\ HeaderAt(disk0, LastBlock).crc = TableOf(disk0)
    BY <1>3 DEF Protected, TableOf
  <2> QED
    BY <1>1, <2>1, RoleFacts DEF Safe, Sound, Tables
<1> QED
  BY <1>2, <1>3

LEMMA SafeInvKeepsTable == LandInv /\ SafeInv => SettledTableThroughout
<1> SUFFICES ASSUME LandInv, SafeInv, Protected
             PROVE  TableOf(medium) \in Tables \ {NoTable}
  BY DEF SettledTableThroughout, UsableTableThroughout, Protected, Tables
<1>1. PICK role \in EntryRoles : Sound(medium, role)
  BY RoleFacts DEF SafeInv, Safe, Spared
<1>2. TableOf(medium) # NoTable
  <2>1. medium \in Disk
    BY DEF LandInv, SnapshotInv, SnapshotTypeOK, TypeOK
  <2> QED
    BY <1>1, <2>1, ReadableTable DEF Sound
<1>3. CASE IsValid(medium, 1)
  <2>1. TableOf(medium) = HeaderAt(medium, 1).crc
    BY <1>3 DEF TableOf
  <2>2. SnapshotInv /\ Separated /\ WrittenBy(RestoreSteps(restored), medium, HeaderLba("MainEntries"))
    BY RoleFacts DEF LandInv, SnapshotInv, OnlyWrittenBy, Protected
  <2>3. \/ medium[1] = disk0[1]
        \/ \E b \in restored : medium[1] = b.chunks["MainHeader"].blocks[1]
    BY <2>2, HeaderOrigin, RoleFacts
  <2>4. CASE medium[1] = disk0[1]
    BY <1>2, <2>1, <2>4 DEF HeaderAt, Tables
  <2>5. ASSUME NEW b \in restored, medium[1] = b.chunks["MainHeader"].blocks[1]
        PROVE  TableOf(medium) \in Tables
    <3>1. HeaderAt(medium, 1) = HeaderIn(b, "MainHeader")
      BY <2>5 DEF HeaderAt, HeaderIn
    <3> QED
      BY <2>1, <3>1 DEF Tables, TablesIn, HeaderRoles
  <2> QED
    BY <1>2, <2>3, <2>4, <2>5
<1>4. CASE ~IsValid(medium, 1)
  <2>1. UsableSource(medium) /\ HeaderAt(medium, LastBlock).crc \in Tables
    BY <1>1, <1>4 DEF Sound
  <2> QED
    BY <1>2, <1>4, <2>1 DEF TableOf
<1> QED
  BY <1>2, <1>3, <1>4

\* SettledTableThroughout: wherever restores planned from durable state are cut
\* short, the medium holds a readable table: the one it had, the one its main
\* header described, or one of theirs.
THEOREM RestoreKeepsUsableTable == SnapshotSpec => []SettledTableThroughout
<1>1. SnapshotInit => LandInv /\ SafeInv
  BY LandInvInit, SafeInvInit
<1>2. (LandInv /\ SafeInv) /\ [SnapshotNext]_snapshotVars => (LandInv /\ SafeInv)'
  BY LandInvStep, SafeInvStep
<1> QED
  BY <1>1, <1>2, SafeInvKeepsTable, PTL DEF SnapshotSpec

=============================================================================
