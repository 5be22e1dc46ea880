---------------------------- MODULE EspScanProofs ----------------------------
(***************************************************************************)
(* The scan of EspScan is bounded, and misses no loader without saying so, *)
(* for any directory graph, any depth limit and any number of volumes.     *)
(*                                                                         *)
(* NoneMissed alone is not inductive: it speaks of a finished scan.  What  *)
(* every step keeps is ScanClosed: a directory that was read has all its   *)
(* loaders listed, and each of its subdirectories was read or is waiting.  *)
(* With nothing waiting, the directories read form a closed set that holds *)
(* the root, and so hold every reachable directory.  ThereInv does the     *)
(* same for ListedIsThere: what waits to be read was reached on the volume *)
(* that is being read.                                                     *)
(***************************************************************************)
EXTENDS EspScan, TLAPS

Seen(i, d) == [esp |-> i, dir |-> d] \in visited
Awaits(i, d) == i = Current /\ \E p \in pending : DirAt(p.path) = d
Found(i, d, f) == \E c \in scan.candidates : c.esp = i /\ c.file = f /\ DirAt(c.path) = d

\* Everything known of volume i is listed, read or waiting.
VolumeClosed(i) ==
    /\ Seen(i, Root) \/ Awaits(i, Root)
    /\ \A d \in Dirs : Seen(i, d) =>
         /\ \A f \in scan.volumes[i].tree[d].loaders : Found(i, d, f)
         /\ \A e \in scan.volumes[i].tree[d].subs : Seen(i, e) \/ Awaits(i, e)

ScanClosed == ~scan.truncated /\ faults = 0 => \A i \in Opened : VolumeClosed(i)

\* A path of directories leads to a directory, and a longer path to its last.
LEMMA DirAtIsDir ==
    ASSUME NEW path \in Seq(Dirs)
    PROVE  /\ DirAt(path) \in Dirs
           /\ \A d \in Dirs : DirAt(Append(path, d)) = d
<1>1. DirAt(path) \in Dirs
  <2>1. CASE path = <<>>
    BY <2>1, RootAssumption DEF DirAt
  <2>2. CASE path # <<>>
    <3>1. Len(path) \in DOMAIN path
      BY <2>2
    <3> QED
      BY <2>2, <3>1 DEF DirAt
  <2> QED
    BY <2>1, <2>2
<1>2. ASSUME NEW d \in Dirs PROVE DirAt(Append(path, d)) = d
  <2>1. Append(path, d) # <<>> /\ Append(path, d)[Len(Append(path, d))] = d
    OBVIOUS
  <2> QED
    BY <2>1 DEF DirAt
<1> QED
  BY <1>1, <1>2

\* A directory of the current volume has loaders and subdirectories.
LEMMA EntriesTyped ==
    ASSUME TypeOK, NEW p \in pending
    PROVE  /\ DirAt(p.path) \in Dirs
           /\ Current \in Nat \ {0}
           /\ scan.volumes[Current] \in Volume
           /\ scan.volumes[Current].tree[DirAt(p.path)].subs \subseteq Dirs
           /\ scan.volumes[Current].tree[DirAt(p.path)].loaders \subseteq Loaders
<1>1. p.path \in Seq(Dirs)
  BY DEF TypeOK
<1>2. DirAt(p.path) \in Dirs
  BY <1>1, DirAtIsDir
<1>3. scan.volumes \in Seq(Volume) /\ Current \in 1 .. Len(scan.volumes)
  BY DEF TypeOK, Opened, Current
<1>4. scan.volumes[Current] \in Volume /\ Current \in Nat \ {0}
  BY <1>3
<1>5. scan.volumes[Current].tree \in [Dirs -> Directory]
  BY <1>4 DEF Volume
<1>6. scan.volumes[Current].tree[DirAt(p.path)] \in Directory
  BY <1>2, <1>5
<1> QED
  BY <1>2, <1>4, <1>6 DEF Directory

\* So has every directory of a volume that opened.
LEMMA OpenedTyped ==
    ASSUME TypeOK, NEW i \in Opened, NEW d \in Dirs
    PROVE  scan.volumes[i].tree[d].subs \subseteq Dirs
<1>1. scan.volumes \in Seq(Volume) /\ i \in 1 .. Len(scan.volumes)
  BY DEF TypeOK, Opened, Current
<1>2. scan.volumes[i] \in Volume
  BY <1>1
<1>3. scan.volumes[i].tree \in [Dirs -> Directory]
  BY <1>2 DEF Volume
<1>4. scan.volumes[i].tree[d] \in Directory
  BY <1>3
<1> QED
  BY <1>4 DEF Directory

-----------------------------------------------------------------------------
(* The type invariant *)

LEMMA ReadTyped ==
    ASSUME TypeOK, NEW p \in pending,
           NEW subs \in SUBSET Dirs, NEW loaders \in SUBSET Loaders,
           Read(p, subs, loaders)
    PROVE  /\ handles' \in Seq(Volume)
           /\ scan' \in [volumes : Seq(Volume),
                         candidates : SUBSET [esp : Nat, path : Seq(Dirs), file : Loaders],
                         unreadable : SUBSET Nat,
                         truncated : BOOLEAN]
           /\ scan'.volumes = scan.volumes /\ scan'.unreadable = scan.unreadable
           /\ Current' = Current /\ Opened' = Opened
           /\ scan'.unreadable \subseteq 1 .. Current'
           /\ \A c \in scan'.candidates : c.esp \in Opened'
           /\ pending' \subseteq [path : Seq(Dirs), depth : 0 .. MaxDepth]
           /\ \A q \in pending' : Len(q.path) = MaxDepth - q.depth
           /\ Current' \in Opened'
<1>1. p \in [path : Seq(Dirs), depth : 0 .. MaxDepth] /\ Len(p.path) = MaxDepth - p.depth
  BY DEF TypeOK
<1>2. scan \in [volumes : Seq(Volume),
                candidates : SUBSET [esp : Nat, path : Seq(Dirs), file : Loaders],
                unreadable : SUBSET Nat,
                truncated : BOOLEAN]
  BY DEF TypeOK
<1>3. Current \in Nat /\ Current \in Opened
  BY EntriesTyped DEF TypeOK
<1>4. Candidates(p, loaders) \subseteq [esp : Nat, path : Seq(Dirs), file : Loaders]
  BY <1>1, <1>3 DEF Candidates
<1>5. LeftOut(p, subs) \in BOOLEAN
  BY DEF LeftOut
<1>6. scan' = [scan EXCEPT !.candidates = scan.candidates \cup Candidates(p, loaders),
                           !.truncated = scan.truncated \/ LeftOut(p, subs)]
  BY <1>2 DEF Read
<1>7. /\ scan' \in [volumes : Seq(Volume),
                    candidates : SUBSET [esp : Nat, path : Seq(Dirs), file : Loaders],
                    unreadable : SUBSET Nat,
                    truncated : BOOLEAN]
      /\ scan'.volumes = scan.volumes /\ scan'.unreadable = scan.unreadable
      /\ scan'.candidates = scan.candidates \cup Candidates(p, loaders)
  BY <1>2, <1>4, <1>5, <1>6
<1>8. Current' = Current /\ Opened' = Opened
  BY <1>7 DEF Current, Opened
<1>8a. scan'.unreadable \subseteq 1 .. Current'
  BY <1>7, <1>8 DEF TypeOK
<1>9. \A c \in scan'.candidates : c.esp \in Opened'
  BY <1>3, <1>7, <1>8 DEF TypeOK, Candidates
<1>10. ASSUME NEW d \in Dirs, p.depth > 0
       PROVE  /\ Deeper(p, d) \in [path : Seq(Dirs), depth : 0 .. MaxDepth]
              /\ Len(Deeper(p, d).path) = MaxDepth - Deeper(p, d).depth
  BY <1>1, <1>10, MaxDepthAssumption DEF Deeper
<1>11. pending' = (pending \ {p}) \cup Below(p, subs)
  BY DEF Read
<1>12. /\ pending' \subseteq [path : Seq(Dirs), depth : 0 .. MaxDepth]
       /\ \A q \in pending' : Len(q.path) = MaxDepth - q.depth
  BY <1>10, <1>11 DEF Below, TypeOK
<1>13. handles' \in Seq(Volume)
  BY DEF Read, TypeOK
<1> QED
  BY <1>3, <1>7, <1>8, <1>9, <1>12, <1>13, <1>8a

\* The entries of a directory read whole, or of part of one.
LEMMA VisitReads ==
    ASSUME TypeOK, NEW p \in pending, Visit(p) \/ VisitCutShort(p)
    PROVE  \E subs \in SUBSET Dirs, loaders \in SUBSET Loaders : Read(p, subs, loaders)
<1> DEFINE dir == scan.volumes[Current].tree[DirAt(p.path)]
<1>1. dir.subs \subseteq Dirs /\ dir.loaders \subseteq Loaders
  BY EntriesTyped
<1>2. CASE Visit(p)
  BY <1>1, <1>2 DEF Visit
<1>3. CASE VisitCutShort(p)
  BY <1>1, <1>3 DEF VisitCutShort
<1> QED
  BY <1>2, <1>3

\* A volume that joins the list keeps what is known of the others.
LEMMA ListedTyped ==
    ASSUME TypeOK, handles # <<>>
    PROVE  /\ Head(handles) \in Volume /\ Tail(handles) \in Seq(Volume)
           /\ Current \in Nat
           /\ scan \in [volumes : Seq(Volume),
                        candidates : SUBSET [esp : Nat, path : Seq(Dirs), file : Loaders],
                        unreadable : SUBSET Nat,
                        truncated : BOOLEAN]
           /\ Listed(scan, Head(handles)) \in
                [volumes : Seq(Volume),
                 candidates : SUBSET [esp : Nat, path : Seq(Dirs), file : Loaders],
                 unreadable : SUBSET Nat,
                 truncated : BOOLEAN]
           /\ Len(Append(scan.volumes, Head(handles))) = Current + 1
           /\ Listed(scan, Head(handles)).volumes = Append(scan.volumes, Head(handles))
           /\ Listed(scan, Head(handles)).candidates = scan.candidates
           /\ Listed(scan, Head(handles)).unreadable = scan.unreadable
           /\ Listed(scan, Head(handles)).truncated = scan.truncated
<1>1. Head(handles) \in Volume /\ Tail(handles) \in Seq(Volume) /\ Current \in Nat
  BY DEF TypeOK, Current
<1>2. scan \in [volumes : Seq(Volume),
                candidates : SUBSET [esp : Nat, path : Seq(Dirs), file : Loaders],
                unreadable : SUBSET Nat,
                truncated : BOOLEAN]
  BY DEF TypeOK
<1>3. Append(scan.volumes, Head(handles)) \in Seq(Volume)
  BY <1>1, <1>2
<1>4. Listed(scan, Head(handles)) =
        [scan EXCEPT !.volumes = Append(scan.volumes, Head(handles))]
  BY DEF Listed
<1>5. Len(Append(scan.volumes, Head(handles))) = Current + 1
  BY <1>1, <1>2 DEF Current
<1> QED
  BY <1>1, <1>2, <1>3, <1>4, <1>5

LEMMA UnopenedTyped ==
    ASSUME TypeOK, handles # <<>>
    PROVE  /\ Unopened(scan, Head(handles)) \in
                [volumes : Seq(Volume),
                 candidates : SUBSET [esp : Nat, path : Seq(Dirs), file : Loaders],
                 unreadable : SUBSET Nat,
                 truncated : BOOLEAN]
           /\ Unopened(scan, Head(handles)).volumes = Append(scan.volumes, Head(handles))
           /\ Unopened(scan, Head(handles)).candidates = scan.candidates
           /\ Unopened(scan, Head(handles)).truncated = scan.truncated
           /\ Unopened(scan, Head(handles)).unreadable =
                scan.unreadable \cup {Len(scan.volumes) + 1}
           /\ Len(scan.volumes) + 1 = Current + 1
<1>1. Len(scan.volumes) + 1 \in Nat /\ Len(scan.volumes) + 1 = Current + 1
  BY ListedTyped DEF Current
<1>2. Unopened(scan, Head(handles)) =
        [Listed(scan, Head(handles)) EXCEPT !.unreadable =
           Listed(scan, Head(handles)).unreadable \cup {Len(scan.volumes) + 1}]
  BY DEF Unopened
<1> QED
  BY <1>1, <1>2, ListedTyped

\* Type correctness, and with it the bound on the walk (espscan.rs, MAX_DEPTH).
THEOREM ScanTyped == Spec => []TypeOK
<1>1. Init => TypeOK
  BY MaxFaultsAssumption, MachinesAssumption DEF Init, TypeOK, NoScan, Opened, Current
<1>2. TypeOK /\ [Next]_vars => TypeOK'
  <2> SUFFICES ASSUME TypeOK, [Next]_vars PROVE TypeOK'
    OBVIOUS
  <2>1. CASE SkipVolume
    BY <2>1 DEF SkipVolume, TypeOK, Opened, Current
  <2>2. CASE OpenVolume
    <3>1. /\ handles # <<>> /\ handles' = Tail(handles)
          /\ scan' = Listed(scan, Head(handles))
          /\ pending' = {Start} /\ faults' = faults /\ visited' = visited
      BY <2>2 DEF OpenVolume
    <3>2. Current' = Current + 1 /\ scan'.unreadable = scan.unreadable
      BY <3>1, ListedTyped DEF Current
    <3>3. Current + 1 \notin scan.unreadable /\ Opened \subseteq Opened' /\ Current' \in Opened'
      BY <3>2, ListedTyped, <3>1 DEF Opened, TypeOK
    <3>4. \A c \in scan'.candidates : c.esp \in Opened'
      BY <3>1, <3>3, ListedTyped DEF TypeOK
    <3>5. /\ pending' \subseteq [path : Seq(Dirs), depth : 0 .. MaxDepth]
          /\ \A p \in pending' : Len(p.path) = MaxDepth - p.depth
      BY <3>1, MaxDepthAssumption DEF Start
    <3>6. visited' \subseteq [esp : 1 .. Current', dir : Dirs]
      BY <3>1, <3>2, ListedTyped DEF TypeOK
    <3>7. scan'.unreadable \subseteq 1 .. Current'
      BY <3>2, ListedTyped, <3>1 DEF TypeOK
    <3> QED
      BY <3>1, <3>3, <3>4, <3>5, <3>6, <3>7, ListedTyped DEF TypeOK
  <2>3. CASE FailToOpenVolume
    <3>1. /\ handles # <<>> /\ handles' = Tail(handles)
          /\ scan' = Unopened(scan, Head(handles))
          /\ pending = {} /\ pending' = {} /\ faults' = faults /\ visited' = visited
      BY <2>3 DEF FailToOpenVolume
    <3>2. /\ scan' \in [volumes : Seq(Volume),
                        candidates : SUBSET [esp : Nat, path : Seq(Dirs), file : Loaders],
                        unreadable : SUBSET Nat,
                        truncated : BOOLEAN]
          /\ scan'.volumes = Append(scan.volumes, Head(handles))
          /\ scan'.candidates = scan.candidates
          /\ scan'.unreadable = scan.unreadable \cup {Len(scan.volumes) + 1}
      BY <3>1, UnopenedTyped
    <3>3. Current' = Current + 1 /\ Opened \subseteq Opened'
      BY <3>2, ListedTyped, <3>1 DEF Current, Opened
    <3>4. \A c \in scan'.candidates : c.esp \in Opened'
      BY <3>2, <3>3 DEF TypeOK
    <3>5. visited' \subseteq [esp : 1 .. Current', dir : Dirs]
      BY <3>1, <3>3, ListedTyped DEF TypeOK
    <3>6. scan'.unreadable \subseteq 1 .. Current'
      BY <3>2, <3>3, ListedTyped, <3>1 DEF TypeOK, Current
    <3> QED
      BY <3>1, <3>2, <3>4, <3>5, <3>6, ListedTyped DEF TypeOK
  <2>4. ASSUME NEW p \in pending, Visit(p) PROVE TypeOK'
    <3>1. PICK subs \in SUBSET Dirs, loaders \in SUBSET Loaders : Read(p, subs, loaders)
      BY <2>4, VisitReads
    <3>2. DirAt(p.path) \in Dirs /\ Current \in Nat \ {0}
      BY EntriesTyped
    <3>3. visited' \subseteq [esp : 1 .. Current', dir : Dirs]
      <4>1. visited' = visited \cup {[esp |-> Current, dir |-> DirAt(p.path)]}
        BY <2>4 DEF Visit
      <4>2. Current' = Current
        BY <3>1, ReadTyped
      <4>3. [esp |-> Current, dir |-> DirAt(p.path)] \in [esp : 1 .. Current, dir : Dirs]
        BY <3>2
      <4>4. visited \subseteq [esp : 1 .. Current, dir : Dirs]
        BY DEF TypeOK
      <4> QED
        BY <4>1, <4>2, <4>3, <4>4
    <3>4. faults' = faults
      BY <2>4 DEF Visit
    <3> QED
      BY <3>1, <3>3, <3>4, ReadTyped DEF TypeOK
  <2>5. ASSUME NEW p \in pending, VisitCutShort(p) PROVE TypeOK'
    <3>1. PICK subs \in SUBSET Dirs, loaders \in SUBSET Loaders : Read(p, subs, loaders)
      BY <2>5, VisitReads
    <3>2. visited' = visited /\ faults' \in 0 .. MaxFaults
      BY <2>5, MaxFaultsAssumption DEF VisitCutShort, TypeOK
    <3>3. visited' \subseteq [esp : 1 .. Current', dir : Dirs]
      BY <3>1, <3>2, ReadTyped DEF TypeOK
    <3> QED
      BY <3>1, <3>2, <3>3, ReadTyped DEF TypeOK
  <2>6. CASE BootNow
    BY <2>6 DEF BootNow, TypeOK, Opened, Current
  <2>7. CASE Return
    BY <2>7, MaxFaultsAssumption, MachinesAssumption DEF Return, TypeOK, NoScan, Opened, Current
  <2>8. CASE UNCHANGED vars
    BY <2>8 DEF vars, TypeOK, Opened, Current
  <2> QED
    BY <2>1, <2>2, <2>3, <2>4, <2>5, <2>6, <2>7, <2>8 DEF Next
<1> QED
  BY <1>1, <1>2, PTL DEF Spec

-----------------------------------------------------------------------------
(* Nothing is missed *)

\* Reading one directory to its end keeps every open volume closed.
LEMMA VisitKeepsClosed ==
    ASSUME TypeOK, ScanClosed, NEW p \in pending, Visit(p)
    PROVE  ScanClosed'
<1> DEFINE q == DirAt(p.path)
           dir == scan.volumes[Current].tree[q]
<1>1. /\ q \in Dirs /\ Current \in Nat \ {0}
      /\ dir.subs \subseteq Dirs /\ dir.loaders \subseteq Loaders
  BY EntriesTyped
<1>2. Read(p, dir.subs, dir.loaders)
  BY DEF Visit
<1>3. /\ visited' = visited \cup {[esp |-> Current, dir |-> q]}
      /\ faults' = faults
  BY DEF Visit
<1>4. /\ scan'.volumes = scan.volumes /\ Current' = Current /\ Opened' = Opened
  BY <1>1, <1>2, ReadTyped
<1>5. /\ scan'.candidates = scan.candidates \cup Candidates(p, dir.loaders)
      /\ scan'.truncated = (scan.truncated \/ LeftOut(p, dir.subs))
      /\ pending' = (pending \ {p}) \cup Below(p, dir.subs)
  <2> HIDE DEF dir
  <2>1. scan' = [scan EXCEPT !.candidates = scan.candidates \cup Candidates(p, dir.loaders),
                             !.truncated = scan.truncated \/ LeftOut(p, dir.subs)]
    BY <1>2 DEF Read
  <2>2. scan \in [volumes : Seq(Volume),
                 candidates : SUBSET [esp : Nat, path : Seq(Dirs), file : Loaders],
                 unreadable : SUBSET Nat,
                 truncated : BOOLEAN]
    BY DEF TypeOK
  <2>3. pending' = (pending \ {p}) \cup Below(p, dir.subs)
    BY <1>2 DEF Read
  <2> QED
    BY <2>1, <2>2, <2>3
<1>6. p.path \in Seq(Dirs) /\ p.depth \in 0 .. MaxDepth
  BY DEF TypeOK
<1> HIDE DEF q, dir
<1> SUFFICES ASSUME ~scan'.truncated, faults' = 0, NEW i \in Opened'
             PROVE  VolumeClosed(i)'
  BY DEF ScanClosed
<1>7. ~scan.truncated /\ ~LeftOut(p, dir.subs) /\ VolumeClosed(i)
  BY <1>3, <1>4, <1>5 DEF ScanClosed
<1>8. ASSUME NEW d \in Dirs, Seen(i, d) PROVE Seen(i, d)'
  BY <1>3, <1>8 DEF Seen
<1>9. ASSUME NEW d \in Dirs, Awaits(i, d) PROVE Seen(i, d)' \/ Awaits(i, d)'
  <2>1. PICK w \in pending : DirAt(w.path) = d /\ i = Current
    BY <1>9 DEF Awaits
  <2>2. CASE w = p
    BY <2>1, <2>2, <1>3 DEF Seen, q
  <2>3. CASE w # p
    BY <2>1, <2>3, <1>4, <1>5 DEF Awaits
  <2> QED
    BY <2>2, <2>3
<1>10. ASSUME NEW d \in Dirs, Seen(i, d), NEW f, Found(i, d, f) PROVE Found(i, d, f)'
  BY <1>5, <1>10 DEF Found
<1>11. Seen(i, Root)' \/ Awaits(i, Root)'
  BY <1>7, <1>8, <1>9, RootAssumption DEF VolumeClosed
<1>12. ASSUME NEW d \in Dirs, Seen(i, d)'
       PROVE  /\ \A f \in scan.volumes[i].tree[d].loaders : Found(i, d, f)'
              /\ \A e \in scan.volumes[i].tree[d].subs : Seen(i, e)' \/ Awaits(i, e)'
  <2>1. CASE Seen(i, d)
    <3>1. scan.volumes[i].tree[d].subs \subseteq Dirs
      BY <1>4, OpenedTyped
    <3> QED
      BY <2>1, <3>1, <1>7, <1>8, <1>9, <1>10 DEF VolumeClosed
  <2>2. CASE ~Seen(i, d)
    <3>1. i = Current /\ d = q
      BY <1>3, <1>12, <2>2 DEF Seen
    <3>2. scan.volumes[i].tree[d] = dir
      BY <3>1 DEF dir
    <3>3. ASSUME NEW f \in dir.loaders PROVE Found(i, d, f)'
      <4>1. [esp |-> Current, path |-> p.path, file |-> f] \in scan'.candidates
        BY <1>5 DEF Candidates
      <4> QED
        BY <3>1, <4>1 DEF Found, q
    <3>4. ASSUME NEW e \in dir.subs PROVE Awaits(i, e)'
      <4>1. p.depth > 0
        BY <1>6, <1>7, MaxDepthAssumption DEF LeftOut
      <4>2. Deeper(p, e) \in pending'
        BY <1>5, <4>1 DEF Below
      <4>3. DirAt(Deeper(p, e).path) = e
        BY <1>1, <1>6, DirAtIsDir DEF Deeper
      <4> QED
        BY <1>4, <3>1, <4>2, <4>3 DEF Awaits
    <3> QED
      BY <3>2, <3>3, <3>4
  <2> QED
    BY <2>1, <2>2
<1> QED
  BY <1>4, <1>11, <1>12 DEF VolumeClosed

\* When nothing of a volume is waiting, the directories read are closed.
LEMMA ClosedIsReachable ==
    ASSUME TypeOK, pending = {}, NEW i \in Opened, VolumeClosed(i),
           NEW d \in Reachable(scan.volumes[i].tree)
    PROVE  d \in Dirs /\ Seen(i, d)
<1> DEFINE S == {e \in Dirs : Seen(i, e)}
<1>1. Root \in S
  BY RootAssumption DEF VolumeClosed, Awaits
<1>2. \A e \in S : scan.volumes[i].tree[e].subs \subseteq S
  BY OpenedTyped DEF VolumeClosed, Awaits
<1>3. ClosedSet(scan.volumes[i].tree, S)
  BY <1>1, <1>2 DEF ClosedSet
<1> QED
  BY <1>3 DEF Reachable

\* A scan that reports nothing left out and met no error has listed every loader
\* of every directory of the ESPs it opened (espscan.rs, scan).
THEOREM ScanMissesNothing == Spec => []NoneMissed
<1>1. Init => ScanClosed
  BY DEF Init, ScanClosed, NoScan, Opened, Current
<1>2. TypeOK /\ ScanClosed /\ [Next]_vars => ScanClosed'
  <2> SUFFICES ASSUME TypeOK, ScanClosed, [Next]_vars PROVE ScanClosed'
    OBVIOUS
  <2>1. CASE SkipVolume \/ BootNow \/ UNCHANGED vars
    BY <2>1 DEF SkipVolume, BootNow, vars, ScanClosed, VolumeClosed, Seen, Awaits, Found,
                Opened, Current
  <2>2. CASE OpenVolume \/ FailToOpenVolume
    <3> SUFFICES ASSUME ~scan'.truncated, faults' = 0, NEW i \in Opened'
                 PROVE  VolumeClosed(i)'
      BY DEF ScanClosed
    <3>1. /\ handles # <<>> /\ pending = {} /\ faults' = faults /\ visited' = visited
          /\ scan'.volumes = Append(scan.volumes, Head(handles))
          /\ scan'.candidates = scan.candidates /\ scan'.truncated = scan.truncated
          /\ scan.unreadable \subseteq scan'.unreadable
          /\ scan'.unreadable \subseteq scan.unreadable \cup {Current + 1}
          /\ FailToOpenVolume => Current + 1 \in scan'.unreadable
          /\ OpenVolume => pending' = {Start}
      <4>1. CASE OpenVolume
        <5>1. /\ handles # <<>> /\ pending = {} /\ faults' = faults /\ visited' = visited
              /\ scan' = Listed(scan, Head(handles)) /\ pending' = {Start}
          BY <4>1 DEF OpenVolume
        <5>2. ~FailToOpenVolume
          BY <4>1 DEF OpenVolume, FailToOpenVolume
        <5> QED
          BY <5>1, <5>2, ListedTyped
      <4>2. CASE FailToOpenVolume
        <5>1. /\ handles # <<>> /\ pending = {} /\ faults' = faults /\ visited' = visited
              /\ scan' = Unopened(scan, Head(handles))
          BY <4>2 DEF FailToOpenVolume
        <5>2. ~OpenVolume
          BY <4>2 DEF OpenVolume, FailToOpenVolume
        <5>3. /\ scan'.volumes = Append(scan.volumes, Head(handles))
              /\ scan'.candidates = scan.candidates /\ scan'.truncated = scan.truncated
              /\ scan'.unreadable = scan.unreadable \cup {Current + 1}
          BY <5>1, UnopenedTyped
        <5> QED
          BY <5>1, <5>2, <5>3
      <4> QED
        BY <2>2, <4>1, <4>2
    <3>2. Current' = Current + 1 /\ Current \in Nat
      BY <3>1, ListedTyped DEF Current
    <3>3. CASE i \in Opened
      <4>1. VolumeClosed(i) /\ i \in 1 .. Current /\ scan'.volumes[i] = scan.volumes[i]
        BY <3>1, <3>3, ListedTyped DEF ScanClosed, Opened, Current, TypeOK
      <4> QED
        <5>1. /\ Seen(i, Root)
              /\ \A d \in Dirs : Seen(i, d) =>
                   /\ \A f \in scan.volumes[i].tree[d].loaders : Found(i, d, f)
                   /\ \A e \in scan.volumes[i].tree[d].subs : Seen(i, e)
          BY <3>1, <4>1 DEF VolumeClosed, Awaits
        <5>2. \A d : Seen(i, d)' <=> Seen(i, d)
          BY <3>1 DEF Seen
        <5>3. \A d, f : Found(i, d, f)' <=> Found(i, d, f)
          BY <3>1 DEF Found
        <5> QED
          BY <4>1, <5>1, <5>2, <5>3 DEF VolumeClosed
    <3>4. CASE i \notin Opened
      <4>1. OpenVolume /\ i = Current'
        BY <2>2, <3>1, <3>2, <3>4 DEF Opened
      <4>2. Awaits(i, Root)'
        <5>1. Start \in pending' /\ DirAt(Start.path) = Root
          BY <3>1, <4>1 DEF Start, DirAt
        <5> QED
          BY <4>1, <5>1 DEF Awaits
      <4>3. \A d \in Dirs : ~Seen(i, d)'
        BY <3>1, <3>2, <4>1 DEF Seen, TypeOK
      <4> QED
        BY <4>2, <4>3 DEF VolumeClosed
    <3> QED
      BY <3>3, <3>4
  <2>3. CASE \E p \in pending : Visit(p)
    BY <2>3, VisitKeepsClosed
  <2>4. CASE \E p \in pending : VisitCutShort(p)
    BY <2>4 DEF VisitCutShort, TypeOK, ScanClosed
  <2>5. CASE Return
    BY <2>5 DEF Return, ScanClosed, NoScan, Opened, Current
  <2> QED
    BY <2>1, <2>2, <2>3, <2>4, <2>5 DEF Next
<1>3. TypeOK /\ ScanClosed => NoneMissed
  <2> SUFFICES ASSUME TypeOK, ScanClosed, Finished, ~scan.truncated, faults = 0,
                      NEW i \in Opened, NEW d \in Reachable(scan.volumes[i].tree),
                      NEW f \in scan.volumes[i].tree[d].loaders
               PROVE  Found(i, d, f)
    BY DEF NoneMissed, Found
  <2>1. VolumeClosed(i) /\ pending = {}
    BY DEF ScanClosed, Finished
  <2> QED
    BY <2>1, ClosedIsReachable DEF VolumeClosed
<1> QED
  BY <1>1, <1>2, <1>3, ScanTyped, PTL DEF Spec


-----------------------------------------------------------------------------
(* What is listed is there *)

\* The volume being read is an ESP that opened, and each of its directories that
\* wait was reached along its path: what makes ListedIsThere inductive.
ThereInv ==
    /\ ListedIsThere
    /\ pending # {} => LET v == scan.volumes[Current] IN v.esp /\ ~v.removable /\ v.opens
    /\ \A p \in pending : LeadsTo(scan.volumes[Current].tree, p.path)

\* One more subdirectory is reached along the path of the directory it is in.
LEMMA DeeperLeadsTo ==
    ASSUME NEW tree, NEW path \in Seq(Dirs), LeadsTo(tree, path),
           NEW dir \in Dirs, dir \in tree[DirAt(path)].subs
    PROVE  LeadsTo(tree, Append(path, dir))
<1> DEFINE longer == Append(path, dir)
<1>1. Len(longer) = Len(path) + 1 /\ longer[Len(path) + 1] = dir /\ Len(path) \in Nat
  OBVIOUS
<1>2. SubSeq(longer, 1, Len(path)) = path
  OBVIOUS
<1> SUFFICES ASSUME NEW n \in 1 .. Len(longer)
             PROVE  longer[n] \in tree[DirAt(SubSeq(longer, 1, n - 1))].subs
  BY DEF LeadsTo
<1>3. CASE n = Len(path) + 1
  <2>1. n - 1 = Len(path) /\ longer[n] = dir
    BY <1>1, <1>3
  <2>2. SubSeq(longer, 1, n - 1) = path
    BY <1>2, <2>1
  <2> QED
    BY <2>1, <2>2
<1>4. CASE n # Len(path) + 1
  <2>1. n \in 1 .. Len(path)
    BY <1>1, <1>4
  <2>2. longer[n] = path[n] /\ SubSeq(longer, 1, n - 1) = SubSeq(path, 1, n - 1)
    BY <2>1
  <2> QED
    BY <2>1, <2>2 DEF LeadsTo
<1> QED
  BY <1>3, <1>4

\* A volume that joins the list stays where it is put, and so do the others.
LEMMA ListedKept ==
    ASSUME TypeOK, handles # <<>>,
           scan'.volumes = Append(scan.volumes, Head(handles))
    PROVE  /\ Current' = Current + 1
           /\ scan'.volumes[Current'] = Head(handles)
           /\ \A i \in 1 .. Current : scan'.volumes[i] = scan.volumes[i]
<1>1. scan.volumes \in Seq(Volume) /\ Head(handles) \in Volume
  BY DEF TypeOK
<1> QED
  BY <1>1 DEF Current

\* Reading a directory that waits, whole or in part, lists what is there.
LEMMA VisitFindsThere ==
    ASSUME TypeOK, ThereInv, NEW p \in pending, Visit(p) \/ VisitCutShort(p)
    PROVE  ThereInv'
<1> DEFINE v == scan.volumes[Current]
           dir == v.tree[DirAt(p.path)]
<1>1. dir.subs \subseteq Dirs /\ dir.loaders \subseteq Loaders
  BY EntriesTyped
<1>2. PICK subs \in SUBSET dir.subs, loaders \in SUBSET dir.loaders : Read(p, subs, loaders)
  <2>1. CASE Visit(p)
    BY <2>1 DEF Visit
  <2>2. CASE VisitCutShort(p)
    BY <2>2 DEF VisitCutShort
  <2> QED
    BY <2>1, <2>2
<1>3. /\ scan'.volumes = scan.volumes /\ Current' = Current
      /\ scan'.candidates = scan.candidates \cup Candidates(p, loaders)
      /\ pending' = (pending \ {p}) \cup Below(p, subs)
      /\ started' = started
  <2>1. scan'.volumes = scan.volumes /\ Current' = Current
    BY <1>1, <1>2, ReadTyped
  <2>2. scan \in [volumes : Seq(Volume),
                  candidates : SUBSET [esp : Nat, path : Seq(Dirs), file : Loaders],
                  unreadable : SUBSET Nat,
                  truncated : BOOLEAN]
    BY DEF TypeOK
  <2> QED
    BY <1>2, <2>1, <2>2 DEF Read
<1>4. v.esp /\ ~v.removable /\ v.opens /\ LeadsTo(v.tree, p.path)
  BY DEF ThereInv
<1>5. \A c \in scan'.candidates : Holds(scan'.volumes[c.esp], c.path, c.file)
  <2>1. \A c \in Candidates(p, loaders) : Holds(v, c.path, c.file) /\ c.esp = Current
    BY <1>2, <1>4 DEF Candidates, Holds
  <2> QED
    BY <1>3, <2>1 DEF ThereInv, ListedIsThere
<1>6. \A q \in pending' : LeadsTo(v.tree, q.path)
  <2>1. p.path \in Seq(Dirs)
    BY DEF TypeOK
  <2>2. ASSUME NEW d \in subs PROVE LeadsTo(v.tree, Append(p.path, d))
    <3>1. d \in Dirs /\ d \in v.tree[DirAt(p.path)].subs
      BY <1>1, <1>2
    <3> HIDE DEF v
    <3> QED
      BY <1>4, <2>1, <3>1, DeeperLeadsTo
  <2>3. \A q \in Below(p, subs) : LeadsTo(v.tree, q.path)
    <3>1. \A d \in subs : Deeper(p, d).path = Append(p.path, d)
      BY DEF Deeper
    <3>2. \A q \in Below(p, subs) : \E d \in subs : q = Deeper(p, d)
      BY DEF Below
    <3> HIDE DEF v
    <3> QED
      BY <2>2, <3>1, <3>2
  <2> QED
    BY <1>3, <2>3 DEF ThereInv
<1> QED
  BY <1>3, <1>4, <1>5, <1>6 DEF ThereInv, ListedIsThere

\* Spec => []ListedIsThere: a loader on the list, or given control, is a file of
\* the volume it is listed under, on an ESP that opened and does not come out.
THEOREM ScanListsWhatIsThere == Spec => []ListedIsThere
<1>1. Init => ThereInv
  BY DEF Init, ThereInv, ListedIsThere, NoScan
<1>2. TypeOK /\ ThereInv /\ [Next]_vars => ThereInv'
  <2> SUFFICES ASSUME TypeOK, ThereInv, [Next]_vars PROVE ThereInv'
    OBVIOUS
  <2>1. CASE OpenVolume \/ FailToOpenVolume
    <3>1. /\ scan'.volumes = Append(scan.volumes, Head(handles)) /\ handles # <<>>
          /\ scan'.candidates = scan.candidates /\ started' = started
          /\ pending' \in {{Start}, {}}
          /\ pending' # {} => LET v == Head(handles) IN v.esp /\ ~v.removable /\ v.opens
      BY <2>1, ListedTyped, UnopenedTyped DEF OpenVolume, FailToOpenVolume, IsEsp
    <3>2. /\ Current' = Current + 1 /\ scan'.volumes[Current'] = Head(handles)
          /\ \A i \in 1 .. Current : scan'.volumes[i] = scan.volumes[i]
      BY <3>1, ListedKept
    <3>3. \A c \in scan.candidates : c.esp \in 1 .. Current
      BY DEF TypeOK, Opened
    <3>4. \A tree : LeadsTo(tree, Start.path)
      BY DEF LeadsTo, Start
    <3> QED
      BY <3>1, <3>2, <3>3, <3>4 DEF ThereInv, ListedIsThere
  <2>2. CASE \E p \in pending : Visit(p) \/ VisitCutShort(p)
    BY <2>2, VisitFindsThere
  <2>3. CASE BootNow
    BY <2>3 DEF BootNow, BootPath, ThereInv, ListedIsThere, Current
  <2>4. CASE Return
    BY <2>4 DEF Return, NoScan, ThereInv, ListedIsThere
  <2>5. CASE SkipVolume \/ UNCHANGED vars
    BY <2>5 DEF SkipVolume, vars, ThereInv, ListedIsThere, Current
  <2> QED
    BY <2>1, <2>2, <2>3, <2>4, <2>5 DEF Next
<1>3. ThereInv => ListedIsThere
  BY DEF ThereInv
<1> QED
  BY <1>1, <1>2, <1>3, ScanTyped, PTL DEF Spec
=============================================================================
