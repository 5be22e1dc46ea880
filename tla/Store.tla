-------------------------------- MODULE Store --------------------------------
(***************************************************************************)
(* Where the tool keeps its files: one directory per volume, numbered      *)
(* names, and a save that writes one snapshot to every chosen destination  *)
(* (store.rs, names.rs, and write_snapshot and its callers in main.rs).    *)
(* The three naming schemes share the code and nothing else, so a module   *)
(* of one scheme stands for each.                                          *)
(*                                                                         *)
(* A volume is offline when it is unplugged, when its filesystem is gone   *)
(* (the launch volume, once its disk was opened exclusively), or when it   *)
(* just will not answer: the code treats the three alike.                  *)
(***************************************************************************)
EXTENDS Naturals, FiniteSets, Functions

CONSTANTS
    Volumes,        \* the volumes that may be attached
    Launch,         \* the one the program was launched from
    MaxSequence,    \* the last number of the scheme: 999
    MaxRead,        \* MAX_FILES and MAX_TOTAL: how many files of a directory are read
    Junk,           \* a file that does not decode: torn, or not the tool's
    Folder,         \* a directory by that name
    MaxSnapshots,   \* bounds the snapshots taken
    MaxForeign      \* bounds what other machines do to the volumes

ASSUME LaunchAssumption == Launch \in Volumes
ASSUME KindsAssumption == Junk \notin Nat /\ Folder \notin Nat /\ Junk # Folder
ASSUME ScaleAssumption ==
    /\ MaxSequence \in Nat
    /\ MaxRead \in Nat
    /\ MaxSnapshots \in Nat
    /\ MaxForeign \in Nat

Numbers == 1..MaxSequence
Snapshots == 1..MaxSnapshots   \* in the order they were taken
Contents == Snapshots \cup {Junk, Folder}
Directory == UNION {[used -> Contents] : used \in SUBSET Numbers}

VARIABLES
    dirs,       \* dirs[v]: what stands under each number in use on v
    online,     \* the volumes that answer
    snapshots,  \* how many snapshots were taken
    job,        \* the save in progress
    told,       \* history: what the operator was told is saved, <<v, number, snapshot>>
    uncounted,  \* history: the volumes some number was chosen without
    foreign     \* how often another machine changed a volume

vars == <<dirs, online, snapshots, job, told, uncounted, foreign>>

Idle == [phase |-> "idle"]
Numbering(dests) == [phase |-> "numbering", dests |-> dests]
Writing(number, left, wrote) ==
    [phase |-> "writing", number |-> number, left |-> left, wrote |-> wrote]

-----------------------------------------------------------------------------
(* Names                                                                   *)

FilesOf(v) == {n \in DOMAIN dirs[v] : dirs[v][n] # Folder}

\* Mutant: names lists what list_matching lists.
NamesOfFiles(v) == FilesOf(v)

\* Volume::names: whatever holds a name counts, be it unreadable or a directory.
NamesOf(v) == DOMAIN dirs[v]

Highest(used) == IF used = {} THEN 0 ELSE CHOOSE n \in used : \A m \in used : m <= n

\* Mutant: the first number that is free.
NextNameInGap(used) ==
    LET free == Numbers \ used
    IN  IF free = {} THEN 0 ELSE CHOOSE n \in free : \A m \in free : n <= m

\* next_name: one above the highest in use, or no name (0) at the end.
NextName(used) == IF Highest(used) < MaxSequence THEN Highest(used) + 1 ELSE 0

\* Mutant: only the destinations are looked at.
NumberFromDestinations(usable) == NextName(UNION {NamesOf(v) : v \in usable})

\* One name across every volume that answers; the destinations alone when the
\* shared numbering has run out.
NumberFor(usable) ==
    LET shared == NextName(UNION {NamesOf(v) : v \in online})
    IN  IF shared # 0 THEN shared ELSE NextName(UNION {NamesOf(v) : v \in usable})

\* Mutant: a directory takes the place of a file that would be read.
ReadOfNames(v) == {n \in NamesOf(v) : Cardinality({m \in NamesOf(v) : m <= n}) <= MaxRead}

\* list_matching: the first files by name are read, directories are passed over.
\* MaxRead stands for both of its limits, MAX_FILES and MAX_TOTAL: a total of bytes
\* also ends the listing at some file, earlier or later by the files' sizes.
Read(v) == {n \in FilesOf(v) : Cardinality({m \in FilesOf(v) : m <= n}) <= MaxRead}

\* load_saved: of every volume that answers, what decodes.
Offered ==
    {t \in online \X Numbers \X Snapshots : t[2] \in Read(t[1]) /\ dirs[t[1]][t[2]] = t[3]}

-----------------------------------------------------------------------------
(* write_snapshot                                                          *)

\* The launch volume, one removable volume, or both; the automatic copy before
\* a write always goes to the launch volume.
ChooseDestinations ==
    /\ job = Idle
    /\ snapshots < MaxSnapshots
    /\ \E stick \in online \ {Launch} :
         job' \in {Numbering({Launch}), Numbering({Launch, stick}), Numbering({stick})}
    /\ snapshots' = snapshots + 1
    /\ UNCHANGED <<dirs, online, told, uncounted, foreign>>

ChooseLaunch ==
    /\ job = Idle
    /\ snapshots < MaxSnapshots
    /\ job' = Numbering({Launch})
    /\ snapshots' = snapshots + 1
    /\ UNCHANGED <<dirs, online, told, uncounted, foreign>>

\* A destination that cannot be listed is dropped; with none left, or no number,
\* nothing is written.
PickName ==
    /\ job.phase = "numbering"
    /\ LET usable == job.dests \cap online
           number == NumberFor(usable)
           shared == NextName(UNION {NamesOf(v) : v \in online}) # 0
       IN  IF usable = {} \/ number = 0
           THEN job' = Idle /\ UNCHANGED uncounted
           ELSE /\ job' = Writing(number, usable, {})
                /\ uncounted' = uncounted \cup
                                  (Volumes \ (IF shared THEN online ELSE usable))
    /\ UNCHANGED <<dirs, online, snapshots, told, foreign>>

\* The launch volume is written before the removable one.
First(left) == IF Launch \in left THEN Launch ELSE CHOOSE v \in left : TRUE

With(directory, number, content) ==
    [n \in DOMAIN directory \cup {number} |-> IF n = number THEN content ELSE directory[n]]

Put(v, content) == dirs' = [dirs EXCEPT ![v] = With(@, job.number, content)]
AfterOne(wrote) == job' = Writing(job.number, job.left \ {First(job.left)}, wrote)

\* Volume::save refuses a name that is there, creates the file, writes it and
\* flushes it.
SaveOne ==
    /\ job.phase = "writing"
    /\ job.left # {}
    /\ LET v == First(job.left)
       IN  /\ v \in online /\ job.number \notin DOMAIN dirs[v]
           /\ Put(v, snapshots)
           /\ AfterOne(job.wrote \cup {v})
    /\ UNCHANGED <<online, snapshots, told, uncounted, foreign>>

\* It fails at any point: the file may not be there, may be cut short, or, when
\* only the flush failed, may be whole.  The others are still attempted.
SaveOneFails ==
    /\ job.phase = "writing"
    /\ job.left # {}
    /\ LET v == First(job.left)
       IN  /\ \/ v \in online /\ job.number \notin DOMAIN dirs[v]
                   /\ \E content \in {Junk, snapshots} : Put(v, content)
              \/ UNCHANGED dirs
           /\ AfterOne(job.wrote)
    /\ UNCHANGED <<online, snapshots, told, uncounted, foreign>>

\* The screen that reports which destinations took it.
Report ==
    /\ job.phase = "writing"
    /\ job.left = {}
    /\ told' = told \cup {<<v, job.number, snapshots>> : v \in job.wrote}
    /\ job' = Idle
    /\ UNCHANGED <<dirs, online, snapshots, uncounted, foreign>>

-----------------------------------------------------------------------------
(* What surrounds it                                                       *)

\* A power cut may leave the file being written in any of those states too.
PowerCut ==
    /\ job # Idle
    /\ \/ UNCHANGED dirs
       \/ /\ job.phase = "writing"
          /\ job.left # {}
          /\ First(job.left) \in online
          /\ job.number \notin DOMAIN dirs[First(job.left)]
          /\ \E content \in {Junk, snapshots} : Put(First(job.left), content)
    /\ job' = Idle
    /\ UNCHANGED <<online, snapshots, told, uncounted, foreign>>

\* A volume is plugged in or answers again, or no longer does, even in the
\* middle of a save.
Plug == \E v \in Volumes \ online :
    /\ online' = online \cup {v}
    /\ UNCHANGED <<dirs, snapshots, job, told, uncounted, foreign>>

Unplug == \E v \in online :
    /\ online' = online \ {v}
    /\ UNCHANGED <<dirs, snapshots, job, told, uncounted, foreign>>

\* Another machine removes a file or leaves one; not while a save is writing,
\* which leaves nobody the time.
Elsewhere ==
    /\ job.phase # "writing"
    /\ foreign < MaxForeign
    /\ foreign' = foreign + 1
    /\ \E v \in Volumes \ online :
         \/ \E n \in DOMAIN dirs[v] :
              /\ dirs' = [dirs EXCEPT ![v] = Restrict(@, DOMAIN @ \ {n})]
              /\ told' = {t \in told : t[1] # v \/ t[2] # n}
         \/ \E n \in Numbers \ DOMAIN dirs[v], content \in {Junk, Folder} :
              /\ dirs' = [dirs EXCEPT ![v] = With(@, n, content)]
              /\ UNCHANGED told
    /\ UNCHANGED <<online, snapshots, job, uncounted>>

Init ==
    /\ dirs = [v \in Volumes |-> <<>>]
    /\ online \in SUBSET Volumes
    /\ snapshots = 0
    /\ job = Idle
    /\ told = {}
    /\ uncounted = {}
    /\ foreign = 0

Next ==
    \/ ChooseDestinations \/ ChooseLaunch \/ PickName
    \/ SaveOne \/ SaveOneFails \/ Report
    \/ PowerCut \/ Plug \/ Unplug \/ Elsewhere

Spec == Init /\ [][Next]_vars

-----------------------------------------------------------------------------
(* Properties                                                              *)

\* Every variable keeps its type.
TypeOK ==
    /\ dirs \in [Volumes -> Directory]
    /\ online \subseteq Volumes
    /\ snapshots \in 0..MaxSnapshots
    /\ \/ job = Idle
       \/ \E dests \in SUBSET Volumes : job = Numbering(dests)
       \/ \E number \in Numbers, left, wrote \in SUBSET Volumes : job = Writing(number, left, wrote)
    /\ told \subseteq Volumes \X Numbers \X Snapshots
    /\ uncounted \subseteq Volumes
    /\ foreign \in 0..MaxForeign

\* Restore offers what the operator was told is saved, wherever the volume is
\* attached again, as long as the directory holds no more files than are read.
\* With more it offers the lowest numbers: the newest copies are the first to go.
SavedIsOffered ==
    \A t \in told : t[1] \in online /\ Cardinality(FilesOf(t[1])) <= MaxRead => t \in Offered

IsSnapshot(v, n) == dirs[v][n] \in Snapshots

\* "One name across every volume": on volumes that every number was chosen with
\* in view, one name never means two snapshots.
OneNameOneSnapshot ==
    \A v, w \in Volumes \ uncounted : \A n \in DOMAIN dirs[v] \cap DOMAIN dirs[w] :
        IsSnapshot(v, n) /\ IsSnapshot(w, n) => dirs[v][n] = dirs[w][n]

\* "Reusing the number of a file someone deleted would make the ordering lie
\* about which is newest": on one volume a later snapshot has a higher number,
\* whatever is removed in between and wherever the shared numbering ran out.
NumbersInOrder ==
    \A v \in Volumes : \A n, m \in DOMAIN dirs[v] :
        IsSnapshot(v, n) /\ IsSnapshot(v, m) /\ n < m => dirs[v][n] < dirs[v][m]

\* Save never has to refuse a name: the number chosen is free on every
\* destination still to be written, even one that holds directories and files
\* that cannot be read.
NameIsFree ==
    job.phase = "writing" =>
        \A v \in job.left : job.number \notin DOMAIN dirs[v]

=============================================================================
