------------------------------- MODULE EspScan -------------------------------
(***************************************************************************)
(* Finding loaders on the EFI System Partitions (crates/bootfixr/src/      *)
(* espscan.rs) and starting one of them (main.rs, run_boot_now): every     *)
(* volume the firmware offers is looked at in turn, every directory of an  *)
(* ESP on fixed media is read, down to MaxDepth levels under its root.     *)
(*                                                                         *)
(* A directory is a node of a graph.  On a sound filesystem the graph is a *)
(* tree; on a corrupt one a directory may lead back to one above it, which *)
(* is what the depth limit is for.  A loader is named by the path of its   *)
(* directory and its own name.  What a file name means, its size, the      *)
(* order of the list and the Boot#### already pointing at it are left out. *)
(***************************************************************************)
EXTENDS Naturals, Sequences, FiniteSets

CONSTANTS
    Dirs,        \* the directories
    Root,        \* the root directory of every volume
    Loaders,     \* the names of .efi files
    MaxDepth,    \* MAX_DEPTH: how many levels under the root are read
    Machines,    \* the sequences of volumes a machine may offer
    MaxFaults    \* bound: how many directories are not read to their end

ASSUME MaxDepthAssumption == MaxDepth \in Nat
ASSUME RootAssumption == Root \in Dirs
ASSUME MaxFaultsAssumption == MaxFaults \in Nat

Directory == [subs : SUBSET Dirs, loaders : SUBSET Loaders]

\* What the firmware says of a volume: its GPT partition type, its media, and
\* whether its filesystem opens.
Volume == [esp : BOOLEAN, removable : BOOLEAN, opens : BOOLEAN,
           tree : [Dirs -> Directory]]

ASSUME MachinesAssumption == Machines \subseteq Seq(Volume)

VARIABLES
    handles,     \* the volumes not looked at yet
    scan,        \* the Scan built so far
    pending,     \* the directories of the current volume still to be read
    faults,      \* how many directories were not read to their end
    visited,     \* history: the directories read, by volume
    started      \* the loaders given control

vars == <<handles, scan, pending, faults, visited, started>>

-----------------------------------------------------------------------------
(* The scan *)

NoScan == [volumes |-> <<>>, candidates |-> {}, unreadable |-> {}, truncated |-> FALSE]

Current == Len(scan.volumes)

\* The directory a path leads to.
DirAt(path) == IF path = <<>> THEN Root ELSE path[Len(path)]

\* The root is read with MaxDepth levels left, and a subdirectory with one less
\* than the directory it is in.
Start == [path |-> <<>>, depth |-> MaxDepth]

Deeper(p, dir) == [path |-> Append(p.path, dir), depth |-> p.depth - 1]

\* An ESP by its partition type, on media that do not come out.
IsEsp(v) == v.esp /\ ~v.removable

SkipVolume ==
    /\ pending = {} /\ handles # <<>> /\ ~IsEsp(Head(handles))
    /\ handles' = Tail(handles)
    /\ UNCHANGED <<scan, pending, faults, visited, started>>

\* Every ESP takes its place in the list, the unreadable ones too: a loader is
\* found again by the index of its volume.
Listed(s, v) == [s EXCEPT !.volumes = Append(@, v)]

OpenVolume ==
    /\ pending = {} /\ handles # <<>>
    /\ IsEsp(Head(handles)) /\ Head(handles).opens
    /\ handles' = Tail(handles)
    /\ scan' = Listed(scan, Head(handles))
    /\ pending' = {Start}
    /\ UNCHANGED <<faults, visited, started>>

Unopened(s, v) ==
    [Listed(s, v) EXCEPT !.unreadable = @ \cup {Len(s.volumes) + 1}]

FailToOpenVolume ==
    /\ pending = {} /\ handles # <<>>
    /\ IsEsp(Head(handles)) /\ ~Head(handles).opens
    /\ handles' = Tail(handles)
    /\ scan' = Unopened(scan, Head(handles))
    /\ UNCHANGED <<pending, faults, visited, started>>

\* Mutant: the index counts the volumes that opened.
CandidatesOfOpened(p, loaders) ==
    {[esp |-> Current - Cardinality(scan.unreadable), path |-> p.path, file |-> f] : f \in loaders}

\* The loaders among the entries of a directory are candidates.
Candidates(p, loaders) == {[esp |-> Current, path |-> p.path, file |-> f] : f \in loaders}

\* Its subdirectories are read later, or are what the limit left out.
Below(p, subs) == IF p.depth > 0 THEN {Deeper(p, d) : d \in subs} ELSE {}

\* Mutant: the limit is silent.
LeftOutSilently(p, subs) == FALSE

LeftOut(p, subs) == p.depth = 0 /\ subs # {}

Read(p, subs, loaders) ==
    /\ scan' = [scan EXCEPT !.candidates = @ \cup Candidates(p, loaders),
                            !.truncated = @ \/ LeftOut(p, subs)]
    /\ pending' = (pending \ {p}) \cup Below(p, subs)
    /\ UNCHANGED <<handles, started>>

\* A directory of the current volume is read to its end.  The code goes depth
\* first, in the order of the entries; any order is allowed here.
Visit(p) ==
    LET dir == scan.volumes[Current].tree[DirAt(p.path)]
    IN  /\ Read(p, dir.subs, dir.loaders)
        /\ visited' = visited \cup {[esp |-> Current, dir |-> DirAt(p.path)]}
        /\ UNCHANGED faults

\* The directory does not open, or reading it stops with an error: what was not
\* read is as if it were not there.
VisitCutShort(p) ==
    /\ faults < MaxFaults
    /\ LET dir == scan.volumes[Current].tree[DirAt(p.path)]
       IN  \E subs \in SUBSET dir.subs, loaders \in SUBSET dir.loaders :
              Read(p, subs, loaders)
    /\ faults' = faults + 1
    /\ UNCHANGED visited

-----------------------------------------------------------------------------
(* Starting a loader *)

Finished == handles = <<>> /\ pending = {}

\* The file on the partition the firmware's own handle leads to.
BootPath(c) == [volume |-> scan.volumes[c.esp], path |-> c.path, file |-> c.file]

\* The operator picks one of the list.  It may not come back.
BootNow ==
    /\ Finished /\ started = {}
    /\ \E c \in scan.candidates : started' = {BootPath(c)}
    /\ UNCHANGED <<handles, scan, pending, faults, visited>>

\* The loader could not be loaded or gave control back; the next screen scans
\* again, on a machine whose media may have changed.
Return ==
    /\ started # {}
    /\ started' = {}
    /\ handles' \in Machines
    /\ scan' = NoScan /\ pending' = {} /\ faults' = 0 /\ visited' = {}

Init ==
    /\ handles \in Machines
    /\ scan = NoScan /\ pending = {} /\ faults = 0 /\ visited = {}
    /\ started = {}

Next ==
    \/ SkipVolume \/ OpenVolume \/ FailToOpenVolume
    \/ \E p \in pending : Visit(p) \/ VisitCutShort(p)
    \/ BootNow \/ Return

Spec == Init /\ [][Next]_vars

-----------------------------------------------------------------------------
(* Properties *)

\* The reachable directories of a tree: those in every set that holds the root
\* and, with a directory, its subdirectories.
ClosedSet(tree, S) == Root \in S /\ \A d \in S : tree[d].subs \subseteq S
Reachable(tree) == {d \in Dirs : \A S \in SUBSET Dirs : ClosedSet(tree, S) => d \in S}

\* The indices of the volumes the scan has read.
Opened == (1 .. Current) \ scan.unreadable

\* Type invariant.  A directory is at most MaxDepth levels down, whatever the
\* filesystem looks like: the walk of efi_files_recursive is bounded.
TypeOK ==
    /\ handles \in Seq(Volume)
    /\ scan \in [volumes : Seq(Volume),
                 candidates : SUBSET [esp : Nat, path : Seq(Dirs), file : Loaders],
                 unreadable : SUBSET Nat,
                 truncated : BOOLEAN]
    /\ scan.unreadable \subseteq 1 .. Current
    /\ \A c \in scan.candidates : c.esp \in Opened
    /\ pending \subseteq [path : Seq(Dirs), depth : 0 .. MaxDepth]
    /\ \A p \in pending : Len(p.path) = MaxDepth - p.depth
    /\ pending # {} => Current \in Opened
    /\ faults \in 0 .. MaxFaults
    /\ visited \subseteq [esp : 1 .. Current, dir : Dirs]

\* No loader is missed without saying so (espscan.rs, Scan and MAX_DEPTH): once
\* the scan is over, unless a directory sat too deep or could not be read to its
\* end, every loader of every directory of an ESP that opened is in the list.  The
\* record is the scan's: the scan's own screen shows it, the one that starts a
\* loader shows the list alone.
NoneMissed ==
    Finished /\ ~scan.truncated /\ faults = 0 =>
        \A i \in Opened : LET tree == scan.volumes[i].tree IN
            \A d \in Reachable(tree) : \A f \in tree[d].loaders :
                \E c \in scan.candidates : c.esp = i /\ c.file = f /\ DirAt(c.path) = d

\* What is listed, and what is given control, is a file of the volume it is
\* listed under, reached along its path, on an ESP that is not removable and that
\* opened (espscan.rs, scan and boot_path; main.rs, run_boot_now).
LeadsTo(tree, path) ==
    \A n \in 1 .. Len(path) : path[n] \in tree[DirAt(SubSeq(path, 1, n - 1))].subs

Holds(v, path, file) ==
    /\ v.esp /\ ~v.removable /\ v.opens
    /\ LeadsTo(v.tree, path)
    /\ file \in v.tree[DirAt(path)].loaders

ListedIsThere ==
    /\ \A c \in scan.candidates : Holds(scan.volumes[c.esp], c.path, c.file)
    /\ \A b \in started : Holds(b.volume, b.path, b.file)

=============================================================================
