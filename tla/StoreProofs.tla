----------------------------- MODULE StoreProofs -----------------------------
(***************************************************************************)
(* What Store promises of the files it keeps, for any volumes, any scheme  *)
(* of numbers and any number of snapshots: a number is never given again   *)
(* out of order, a name means one snapshot, no write finds its name taken, *)
(* and what was reported saved is offered again.                           *)
(*                                                                         *)
(* None of these is inductive: that a later snapshot has a higher number   *)
(* rests on what a save still has to write, which StoreInv states.         *)
(*                                                                         *)
(* Then, of Attribution, that what is said of a stored snapshot is true:   *)
(* without a clone about, none is called another disk's own, none loses    *)
(* its disk by damage alone, and a foreign restore carries the note.  All  *)
(* three rest on OwnerInv: the GUIDs of one disk and of the snapshots      *)
(* taken of it are on no other disk and in no other's snapshots.           *)
(***************************************************************************)
EXTENDS Store, Attribution, FiniteSetTheorems, WellFoundedInduction, TLAPS

\* No file is newer than the last snapshot, and what is reported is there.
KeptInv ==
    /\ \A v \in Volumes : \A n \in DOMAIN dirs[v] : IsSnapshot(v, n) => dirs[v][n] <= snapshots
    /\ \A t \in told : t[2] \in DOMAIN dirs[t[1]] /\ dirs[t[1]][t[2]] = t[3]

\* The snapshot of a save that has no number yet is nowhere.
NumberingInv ==
    job.phase = "numbering" =>
        \A v \in Volumes : \A n \in DOMAIN dirs[v] : IsSnapshot(v, n) => dirs[v][n] < snapshots

\* The number of a save is above every other where the save has still to write
\* and wherever it could be seen; it stands only for the snapshot being saved.
WritingInv ==
    job.phase = "writing" =>
        /\ \A v \in job.left : \A n \in DOMAIN dirs[v] :
             n < job.number /\ (IsSnapshot(v, n) => dirs[v][n] < snapshots)
        /\ \A v \in job.wrote : job.number \in DOMAIN dirs[v] /\ dirs[v][job.number] = snapshots
        /\ \A v \in Volumes \ uncounted : \A n \in DOMAIN dirs[v] :
             n < job.number \/ (n = job.number /\ dirs[v][n] \in {snapshots, Junk})

\* A save is of a snapshot that was taken.
Begun == job.phase # "idle" => snapshots \in Snapshots

StoreInv == KeptInv /\ NumberingInv /\ WritingInv /\ NumbersInOrder /\ OneNameOneSnapshot

-----------------------------------------------------------------------------
(* Numbers                                                                 *)

LEMMA HighestIs ==
    ASSUME NEW numbers, numbers \subseteq Numbers, numbers # {}
    PROVE  Highest(numbers) \in numbers /\ \A m \in numbers : m <= Highest(numbers)
<1> DEFINE R == OpToRel(<, Nat)
           below == {MaxSequence - n : n \in numbers}
<1>1. \A n \in numbers : n \in Nat /\ MaxSequence - n \in Nat
  BY ScaleAssumption DEF Numbers
<1>2. below \subseteq Nat /\ below # {}
  BY <1>1
<1>3. \E x \in below : \A y \in below : ~(<<y, x>> \in R)
  BY <1>2, WFMin, NatLessThanWellFounded
<1>4. \A x \in below, y \in below : ~(<<y, x>> \in R) => x <= y
  BY <1>2 DEF OpToRel
<1>5. PICK x \in below : \A y \in below : x <= y
  BY <1>3, <1>4
<1>6. PICK n \in numbers : x = MaxSequence - n
  BY <1>5
<1>7. \A m \in numbers : m <= n
  <2> TAKE m \in numbers
  <2>1. MaxSequence - n <= MaxSequence - m
    BY <1>5, <1>6
  <2> QED
    BY <1>1, <2>1, ScaleAssumption
<1>8. \E h \in numbers : \A m \in numbers : m <= h
  BY <1>7
<1> HIDE DEF R, below
<1>9. (CHOOSE h \in numbers : \A m \in numbers : m <= h) \in numbers
      /\ \A m \in numbers : m <= (CHOOSE h \in numbers : \A k \in numbers : k <= h)
  BY <1>8
<1> QED
  BY <1>9 DEF Highest

LEMMA NextNameIs ==
    ASSUME NEW numbers, numbers \subseteq Numbers, NextName(numbers) # 0
    PROVE  NextName(numbers) \in Numbers /\ \A n \in numbers : n < NextName(numbers)
<1>1. CASE numbers = {}
  <2>1. Highest(numbers) = 0
    BY <1>1 DEF Highest
  <2>2. NextName(numbers) = 1 /\ 0 < MaxSequence
    BY <2>1 DEF NextName
  <2>3. 1 \in Numbers
    BY <2>2, ScaleAssumption DEF Numbers
  <2> QED
    BY <1>1, <2>2, <2>3
<1>2. CASE numbers # {}
  <2>1. Highest(numbers) \in numbers /\ \A m \in numbers : m <= Highest(numbers)
    BY <1>2, HighestIs
  <2>2. PICK h \in numbers : h = Highest(numbers)
    BY <2>1
  <2>3. NextName(numbers) = h + 1 /\ h < MaxSequence
    BY <2>2 DEF NextName
  <2>4. h \in Nat /\ \A n \in numbers : n \in Nat /\ n <= h
    BY <2>1, <2>2, ScaleAssumption DEF Numbers
  <2>5. h + 1 \in Numbers
    BY <2>3, <2>4, ScaleAssumption DEF Numbers
  <2> QED
    BY <2>3, <2>4, <2>5
<1> QED
  BY <1>1, <1>2

\* The number chosen is above every name on the destinations, and on all the
\* volumes in view when they share the numbering.
LEMMA NumberForIs ==
    ASSUME TypeOK, NEW usable, usable \subseteq online, NumberFor(usable) # 0
    PROVE  /\ NumberFor(usable) \in Numbers
           /\ \A v \in usable : \A n \in DOMAIN dirs[v] : n < NumberFor(usable)
           /\ NextName(UNION {NamesOf(v) : v \in online}) # 0 =>
                \A v \in online : \A n \in DOMAIN dirs[v] : n < NumberFor(usable)
<1> DEFINE all == UNION {NamesOf(v) : v \in online}
           mine == UNION {NamesOf(v) : v \in usable}
<1>1. \A v \in Volumes : NamesOf(v) \subseteq Numbers
  BY DEF TypeOK, Directory, NamesOf
<1>2. all \subseteq Numbers /\ mine \subseteq Numbers
  BY <1>1 DEF TypeOK
<1>3. \A v \in online : DOMAIN dirs[v] \subseteq all
  BY DEF NamesOf
<1>4. \A v \in usable : DOMAIN dirs[v] \subseteq mine
  BY DEF NamesOf
<1>5. NumberFor(usable) = IF NextName(all) # 0 THEN NextName(all) ELSE NextName(mine)
  BY DEF NumberFor
<1> HIDE DEF all, mine
<1>6. CASE NextName(all) # 0
  BY <1>2, <1>3, <1>5, <1>6, NextNameIs
<1>7. CASE NextName(all) = 0
  <2>1. NextName(mine) # 0 /\ NumberFor(usable) = NextName(mine)
    BY <1>5, <1>7
  <2> QED
    BY <1>2, <1>4, <1>7, <2>1, NextNameIs DEF all
<1> QED
  BY <1>6, <1>7 DEF all

-----------------------------------------------------------------------------
(* The type invariant                                                      *)

LEMMA FirstIsLeft ==
    ASSUME NEW left, left # {}
    PROVE  First(left) \in left
BY DEF First

\* What a file put in a directory leaves there.
LEMMA WithIs ==
    ASSUME NEW old \in Directory, NEW number \in Numbers, NEW content \in Contents
    PROVE  /\ With(old, number, content) \in Directory
           /\ DOMAIN With(old, number, content) = DOMAIN old \cup {number}
           /\ With(old, number, content)[number] = content
           /\ \A n \in DOMAIN old : n # number => With(old, number, content)[n] = old[n]
<1>1. PICK numbers \in SUBSET Numbers : old \in [numbers -> Contents]
  BY DEF Directory
<1>2. With(old, number, content) \in [numbers \cup {number} -> Contents]
  BY <1>1 DEF With
<1>3. With(old, number, content) \in Directory
  BY <1>2 DEF Directory
<1> QED
  BY <1>1, <1>2, <1>3 DEF With

\* A write leaves everything but the file it creates as it was.
LEMMA PutIs ==
    ASSUME TypeOK, NEW v \in Volumes, NEW content \in Contents, job.number \in Numbers,
           job.number \notin DOMAIN dirs[v], Put(v, content)
    PROVE  /\ dirs' \in [Volumes -> Directory]
           /\ DOMAIN dirs'[v] = DOMAIN dirs[v] \cup {job.number}
           /\ dirs'[v][job.number] = content
           /\ \A n \in DOMAIN dirs[v] : dirs'[v][n] = dirs[v][n]
           /\ \A w \in Volumes : w # v => dirs'[w] = dirs[w]
<1>1. PICK old \in Directory : old = dirs[v]
  BY DEF TypeOK
<1>2. PICK number \in Numbers : number = job.number
  OBVIOUS
<1> DEFINE new == With(old, number, content)
<1>3. dirs' = [dirs EXCEPT ![v] = new] /\ dirs \in [Volumes -> Directory]
  BY <1>1, <1>2 DEF Put, TypeOK
<1>4. /\ new \in Directory /\ DOMAIN new = DOMAIN old \cup {number} /\ new[number] = content
      /\ \A n \in DOMAIN old : n # number => new[n] = old[n]
  BY WithIs
<1> HIDE DEF new
<1>5. dirs'[v] = new /\ dirs' \in [Volumes -> Directory]
      /\ \A w \in Volumes : w # v => dirs'[w] = dirs[w]
  BY <1>3, <1>4
<1> QED
  BY <1>1, <1>2, <1>4, <1>5

\* The save in progress, by its phase.
LEMMA JobIs ==
    ASSUME TypeOK
    PROVE  /\ job.phase = "writing" =>
                /\ job.number \in Numbers /\ job.left \subseteq Volumes
                /\ job.wrote \subseteq Volumes
                /\ job = Writing(job.number, job.left, job.wrote)
           /\ job.phase = "numbering" => job.dests \subseteq Volumes
           /\ job = Idle => job.phase = "idle"
BY DEF TypeOK, Idle, Numbering, Writing

LEMMA ChooseIs ==
    ASSUME TypeOK, ChooseDestinations \/ ChooseLaunch
    PROVE  \E dests \in SUBSET Volumes : job' = Numbering(dests)
BY LaunchAssumption DEF ChooseDestinations, ChooseLaunch, TypeOK

\* What a save that goes on writing leaves of its job.
LEMMA AfterOneIs ==
    ASSUME TypeOK, job.phase = "writing", job.left # {}, NEW wrote \in SUBSET Volumes, AfterOne(wrote)
    PROVE  /\ First(job.left) \in job.left /\ First(job.left) \in Volumes
           /\ job'.phase = "writing" /\ job'.number = job.number
           /\ job'.left = job.left \ {First(job.left)} /\ job'.wrote = wrote
           /\ \E number \in Numbers, left, w \in SUBSET Volumes : job' = Writing(number, left, w)
<1>1. First(job.left) \in job.left /\ job.left \subseteq Volumes /\ job.number \in Numbers
  BY JobIs, FirstIsLeft
<1>2. job' = Writing(job.number, job.left \ {First(job.left)}, wrote)
  BY DEF AfterOne
<1>3. job.left \ {First(job.left)} \in SUBSET Volumes
  BY <1>1
<1> QED
  BY <1>1, <1>2, <1>3 DEF Writing

\* A write, whole or cut short, of the file the save in progress is at.
Created(v, content) ==
    /\ job.phase = "writing" /\ job.left # {} /\ v = First(job.left)
    /\ content \in {Junk, snapshots}
    /\ job.number \notin DOMAIN dirs[v]
    /\ Put(v, content)

LEMMA CreatedIs ==
    ASSUME TypeOK, Begun, NEW v, NEW content, Created(v, content)
    PROVE  /\ v \in Volumes /\ v \in job.left /\ content \in Contents
           /\ job.number \in Numbers /\ job.number \notin DOMAIN dirs[v]
           /\ Put(v, content) /\ dirs' \in [Volumes -> Directory]
<1>1. v \in job.left /\ job.left \subseteq Volumes /\ job.number \in Numbers
  BY FirstIsLeft, JobIs DEF Created
<1>2. content \in Contents
  BY DEF Created, Begun, Contents
<1> QED
  BY <1>1, <1>2, PutIs DEF Created

LEMMA RestrictTyped ==
    ASSUME NEW old \in Directory, NEW n
    PROVE  Restrict(old, DOMAIN old \ {n}) \in Directory
<1>1. PICK numbers \in SUBSET Numbers : old \in [numbers -> Contents]
  BY DEF Directory
<1>2. Restrict(old, DOMAIN old \ {n}) \in [numbers \ {n} -> Contents]
  BY <1>1 DEF Restrict
<1> QED
  BY <1>2 DEF Directory

\* What another machine may have done to a volume.
LEMMA ElsewhereIs ==
    ASSUME TypeOK, Elsewhere
    PROVE  /\ dirs' \in [Volumes -> Directory]
           /\ \A v \in Volumes : \A n \in DOMAIN dirs'[v] :
                \/ n \in DOMAIN dirs[v] /\ dirs'[v][n] = dirs[v][n]
                \/ dirs'[v][n] \in {Junk, Folder}
           /\ told' \subseteq told
           /\ \A t \in told' :
                t \in Volumes \X Numbers \X Snapshots /\ t[2] \in DOMAIN dirs[t[1]] =>
                    t[2] \in DOMAIN dirs'[t[1]] /\ dirs'[t[1]][t[2]] = dirs[t[1]][t[2]]
<1>0. dirs \in [Volumes -> Directory]
  BY DEF TypeOK
<1>1. PICK v \in Volumes :
         \/ \E n \in DOMAIN dirs[v] :
              /\ dirs' = [dirs EXCEPT ![v] = Restrict(@, DOMAIN @ \ {n})]
              /\ told' = {t \in told : t[1] # v \/ t[2] # n}
         \/ \E n \in Numbers \ DOMAIN dirs[v], content \in {Junk, Folder} :
              /\ dirs' = [dirs EXCEPT ![v] = With(@, n, content)]
              /\ UNCHANGED told
  BY DEF Elsewhere
<1>2. PICK old \in Directory : old = dirs[v]
  BY <1>0
<1>3. ASSUME NEW n \in DOMAIN dirs[v], dirs' = [dirs EXCEPT ![v] = Restrict(@, DOMAIN @ \ {n})],
             told' = {t \in told : t[1] # v \/ t[2] # n}
      PROVE  /\ dirs' \in [Volumes -> Directory]
             /\ DOMAIN dirs'[v] = DOMAIN old \ {n}
             /\ \A m \in DOMAIN old \ {n} : dirs'[v][m] = old[m]
             /\ \A w \in Volumes : w # v => dirs'[w] = dirs[w]
  <2> DEFINE new == Restrict(old, DOMAIN old \ {n})
  <2>1. dirs' = [dirs EXCEPT ![v] = new]
    BY <1>2, <1>3
  <2>2. new \in Directory /\ DOMAIN new = DOMAIN old \ {n} /\ \A m \in DOMAIN old \ {n} : new[m] = old[m]
    BY RestrictTyped DEF Restrict
  <2> HIDE DEF new
  <2> QED
    BY <1>0, <2>1, <2>2
<1>4. ASSUME NEW n \in Numbers \ DOMAIN dirs[v], NEW content \in {Junk, Folder},
             dirs' = [dirs EXCEPT ![v] = With(@, n, content)]
      PROVE  /\ dirs' \in [Volumes -> Directory]
             /\ DOMAIN dirs'[v] = DOMAIN old \cup {n} /\ dirs'[v][n] = content
             /\ \A m \in DOMAIN old : dirs'[v][m] = old[m]
             /\ \A w \in Volumes : w # v => dirs'[w] = dirs[w]
  <2> DEFINE new == With(old, n, content)
  <2>1. dirs' = [dirs EXCEPT ![v] = new]
    BY <1>2, <1>4
  <2>2. n \in Numbers /\ content \in Contents /\ n \notin DOMAIN old
    BY <1>2, <1>4 DEF Contents
  <2>3. new \in Directory /\ DOMAIN new = DOMAIN old \cup {n} /\ new[n] = content
        /\ \A m \in DOMAIN old : m # n => new[m] = old[m]
    BY <2>2, WithIs
  <2> HIDE DEF new
  <2> QED
    BY <1>0, <2>1, <2>2, <2>3
<1>5. CASE \E n \in DOMAIN dirs[v] :
              /\ dirs' = [dirs EXCEPT ![v] = Restrict(@, DOMAIN @ \ {n})]
              /\ told' = {t \in told : t[1] # v \/ t[2] # n}
  <2>1. PICK n \in DOMAIN dirs[v] :
              /\ dirs' = [dirs EXCEPT ![v] = Restrict(@, DOMAIN @ \ {n})]
              /\ told' = {t \in told : t[1] # v \/ t[2] # n}
    BY <1>5
  <2>2. /\ dirs' \in [Volumes -> Directory] /\ DOMAIN dirs'[v] = DOMAIN old \ {n}
        /\ \A m \in DOMAIN old \ {n} : dirs'[v][m] = old[m]
        /\ \A w \in Volumes : w # v => dirs'[w] = dirs[w]
    BY <1>3, <2>1
  <2>3. \A w \in Volumes : \A m \in DOMAIN dirs'[w] : m \in DOMAIN dirs[w] /\ dirs'[w][m] = dirs[w][m]
    BY <1>2, <2>2
  <2>4. told' \subseteq told
    BY <2>1
  <2>5. ASSUME NEW t \in told', t[1] \in Volumes, t[2] \in DOMAIN dirs[t[1]]
        PROVE  t[2] \in DOMAIN dirs'[t[1]] /\ dirs'[t[1]][t[2]] = dirs[t[1]][t[2]]
    BY <1>2, <2>1, <2>2, <2>5
  <2>6. \A t \in Volumes \X Numbers \X Snapshots : t[1] \in Volumes
    OBVIOUS
  <2> QED
    BY <2>2, <2>3, <2>4, <2>5, <2>6
<1>6. CASE \E n \in Numbers \ DOMAIN dirs[v], content \in {Junk, Folder} :
              /\ dirs' = [dirs EXCEPT ![v] = With(@, n, content)]
              /\ UNCHANGED told
  <2>1. PICK n \in Numbers \ DOMAIN dirs[v], content \in {Junk, Folder} :
              /\ dirs' = [dirs EXCEPT ![v] = With(@, n, content)]
              /\ UNCHANGED told
    BY <1>6
  <2>2. /\ dirs' \in [Volumes -> Directory] /\ DOMAIN dirs'[v] = DOMAIN old \cup {n}
        /\ dirs'[v][n] = content
        /\ \A m \in DOMAIN old : dirs'[v][m] = old[m]
        /\ \A w \in Volumes : w # v => dirs'[w] = dirs[w]
    BY <1>4, <2>1
  <2>3. ASSUME NEW w \in Volumes, NEW m \in DOMAIN dirs'[w]
        PROVE  \/ m \in DOMAIN dirs[w] /\ dirs'[w][m] = dirs[w][m]
               \/ dirs'[w][m] \in {Junk, Folder}
    BY <1>2, <2>2
  <2>4. told' = told
    BY <2>1
  <2>5. ASSUME NEW t \in told', t[1] \in Volumes, t[2] \in DOMAIN dirs[t[1]]
        PROVE  t[2] \in DOMAIN dirs'[t[1]] /\ dirs'[t[1]][t[2]] = dirs[t[1]][t[2]]
    BY <1>2, <2>2, <2>5
  <2>6. \A t \in Volumes \X Numbers \X Snapshots : t[1] \in Volumes
    OBVIOUS
  <2> QED
    BY <2>2, <2>3, <2>4, <2>5, <2>6
<1> QED
  BY <1>1, <1>5, <1>6

LEMMA TypedKept == TypeOK /\ Begun /\ [Next]_vars => TypeOK' /\ Begun'
<1> SUFFICES ASSUME TypeOK, Begun, [Next]_vars PROVE TypeOK' /\ Begun'
  OBVIOUS
<1> DEFINE JobTyped ==
             \/ job = Idle
             \/ \E dests \in SUBSET Volumes : job = Numbering(dests)
             \/ \E number \in Numbers, left, wrote \in SUBSET Volumes :
                  job = Writing(number, left, wrote)
           Others == /\ online \subseteq Volumes /\ snapshots \in 0..MaxSnapshots
                     /\ uncounted \subseteq Volumes
                     /\ foreign \in 0..MaxForeign
           Files == dirs \in [Volumes -> Directory]
           Told == told \subseteq Volumes \X Numbers \X Snapshots
<1>0. JobTyped /\ Others /\ Files /\ Told
  BY DEF TypeOK
<1>1. CASE ChooseDestinations \/ ChooseLaunch
  <2>1. PICK dests \in SUBSET Volumes : job' = Numbering(dests)
    BY <1>1, ChooseIs
  <2>2. snapshots' = snapshots + 1 /\ snapshots < MaxSnapshots
        /\ UNCHANGED <<dirs, online, told, uncounted, foreign>>
    BY <1>1 DEF ChooseDestinations, ChooseLaunch
  <2>3. snapshots' \in Snapshots
    BY <1>0, <2>2, ScaleAssumption DEF Snapshots
  <2>4. snapshots' \in 0..MaxSnapshots
    BY <2>3 DEF Snapshots
  <2> QED
    BY <1>0, <2>1, <2>2, <2>3, <2>4 DEF TypeOK, Begun
<1>2. CASE PickName
  <2> DEFINE usable == job.dests \cap online
             number == NumberFor(usable)
  <2>1. UNCHANGED <<dirs, online, snapshots, told, foreign>> /\ job.phase = "numbering"
    BY <1>2 DEF PickName
  <2>2. snapshots \in Snapshots
    BY <2>1 DEF Begun
  <2>3. CASE job' = Idle /\ UNCHANGED uncounted
    BY <1>0, <2>1, <2>2, <2>3 DEF TypeOK, Begun
  <2>4. CASE number # 0 /\ job' = Writing(number, usable, {})
             /\ uncounted' \subseteq uncounted \cup Volumes
    <3>1. usable \in SUBSET Volumes /\ usable \subseteq online
      BY <1>0
    <3>2. number \in Numbers
      BY <2>4, <3>1, NumberForIs
    <3>3. {} \in SUBSET Volumes /\ uncounted' \subseteq Volumes
      BY <1>0, <2>4
    <3> HIDE DEF usable, number
    <3> QED
      BY <1>0, <2>1, <2>2, <2>4, <3>1, <3>2, <3>3 DEF TypeOK, Begun
  <2> QED
    BY <1>2, <2>3, <2>4 DEF PickName
<1>3. ASSUME job.phase = "writing", job.left # {}, NEW wrote \in SUBSET Volumes,
             AfterOne(wrote) \/ job' = Idle,
             UNCHANGED dirs \/ \E v, content : Created(v, content),
             UNCHANGED <<online, snapshots, told, uncounted, foreign>>
      PROVE  TypeOK' /\ Begun'
  <2>1. Files'
    BY <1>0, <1>3, CreatedIs
  <2>2. JobTyped'
    BY <1>3, AfterOneIs
  <2>3. snapshots' \in Snapshots
    BY <1>3 DEF Begun
  <2> QED
    BY <1>0, <1>3, <2>1, <2>2, <2>3 DEF TypeOK, Begun
<1>4. CASE SaveOne
  <2>1. First(job.left) \in Volumes /\ job.wrote \subseteq Volumes
    BY <1>4, JobIs, FirstIsLeft DEF SaveOne
  <2>2. job.wrote \cup {First(job.left)} \in SUBSET Volumes
    BY <2>1
  <2>3. Created(First(job.left), snapshots)
    BY <1>4 DEF SaveOne, Created
  <2>4. AfterOne(job.wrote \cup {First(job.left)})
    BY <1>4 DEF SaveOne
  <2> QED
    BY <1>3, <1>4, <2>2, <2>3, <2>4 DEF SaveOne
<1>5. CASE SaveOneFails
  <2>1. job.wrote \in SUBSET Volumes
    BY <1>5, JobIs DEF SaveOneFails
  <2>2. UNCHANGED dirs \/ \E v, content : Created(v, content)
    BY <1>5 DEF SaveOneFails, Created
  <2> QED
    BY <1>3, <1>5, <2>1, <2>2 DEF SaveOneFails
<1>6. CASE Report
  <2>1. snapshots \in Snapshots /\ job.number \in Numbers /\ job.wrote \subseteq Volumes
    BY <1>6, JobIs DEF Report, Begun
  <2>2. Told'
    BY <1>0, <1>6, <2>1 DEF Report
  <2> QED
    BY <1>0, <1>6, <2>2 DEF Report, TypeOK, Begun, Idle
<1>7. CASE PowerCut
  <2>1. job' = Idle /\ UNCHANGED <<online, snapshots, told, uncounted, foreign>>
    BY <1>7 DEF PowerCut
  <2>2. UNCHANGED dirs \/ \E v, content : Created(v, content)
    BY <1>7 DEF PowerCut, Created
  <2>3. Files'
    BY <1>0, <2>2, CreatedIs
  <2> QED
    BY <1>0, <2>1, <2>3 DEF TypeOK, Begun, Idle
<1>8. CASE Plug \/ Unplug
  BY <1>0, <1>8 DEF Plug, Unplug, TypeOK, Begun
<1>9. CASE Elsewhere
  <2>1. Files' /\ Told'
    BY <1>0, <1>9, ElsewhereIs
  <2>2. foreign' \in 0..MaxForeign /\ UNCHANGED <<online, snapshots, job, uncounted>>
    BY <1>0, <1>9, ScaleAssumption DEF Elsewhere
  <2> QED
    BY <1>0, <2>1, <2>2 DEF TypeOK, Begun
<1>10. CASE UNCHANGED vars
  BY <1>0, <1>10 DEF vars, TypeOK, Begun
<1> QED
  BY <1>1, <1>2, <1>4, <1>5, <1>6, <1>7, <1>8, <1>9, <1>10 DEF Next

LEMMA TypedHolds == Spec => [](TypeOK /\ Begun)
<1>1. Init => TypeOK /\ Begun
  <2> SUFFICES ASSUME Init PROVE TypeOK /\ Begun
    OBVIOUS
  <2>1. <<>> \in [{} -> Contents]
    OBVIOUS
  <2>2. <<>> \in Directory
    BY <2>1 DEF Directory
  <2>3. dirs \in [Volumes -> Directory]
    BY <2>2 DEF Init
  <2> QED
    BY <2>3, ScaleAssumption DEF Init, TypeOK, Begun, Idle
<1> QED
  BY <1>1, TypedKept, PTL DEF Spec

\* Type correctness: names, files and the save in progress stay within the scheme.
THEOREM StoreTyped == Spec => []TypeOK
BY TypedHolds, PTL

-----------------------------------------------------------------------------
(* The inductive invariant                                                 *)

LEMMA KindsApart ==
    /\ Snapshots \subseteq Nat
    /\ \A c \in {Junk, Folder} : c \notin Snapshots
<1>1. Snapshots \subseteq Nat
  BY ScaleAssumption DEF Snapshots
<1> QED
  BY <1>1, KindsAssumption, Zenon

\* Where dirs is left alone, what is told, numbered and shared stands.
LEMMA FilesRest ==
    ASSUME StoreInv, UNCHANGED <<dirs, told, uncounted>>, snapshots' = snapshots
    PROVE  /\ KeptInv' /\ NumbersInOrder' /\ OneNameOneSnapshot'
           /\ job' = job => StoreInv'
BY DEF StoreInv, KeptInv, NumberingInv, WritingInv, NumbersInOrder, OneNameOneSnapshot, IsSnapshot

\* The file a save creates is above all it can be compared with.
LEMMA CreatedKeeps ==
    ASSUME TypeOK, Begun, StoreInv, NEW v, NEW content, Created(v, content),
           UNCHANGED <<snapshots, told, uncounted>>
    PROVE  /\ KeptInv' /\ NumbersInOrder' /\ OneNameOneSnapshot'
           /\ \A w \in job.left \ {v} : \A n \in DOMAIN dirs'[w] :
                n < job.number /\ (IsSnapshot(w, n)' => dirs'[w][n] < snapshots)
           /\ \A w \in job.wrote : job.number \in DOMAIN dirs'[w] /\ dirs'[w][job.number] = snapshots
           /\ \A w \in Volumes \ uncounted : \A n \in DOMAIN dirs'[w] :
                n < job.number \/ (n = job.number /\ dirs'[w][n] \in {snapshots, Junk})
<1>0. PICK number \in Numbers, left \in SUBSET Volumes, wrote \in SUBSET Volumes :
         number = job.number /\ left = job.left /\ wrote = job.wrote
  BY JobIs DEF Created
<1>1. /\ v \in Volumes /\ v \in left /\ number \notin DOMAIN dirs[v]
      /\ dirs' \in [Volumes -> Directory]
      /\ DOMAIN dirs'[v] = DOMAIN dirs[v] \cup {number}
      /\ dirs'[v][number] = content
      /\ \A n \in DOMAIN dirs[v] : dirs'[v][n] = dirs[v][n]
      /\ \A w \in Volumes : w # v => dirs'[w] = dirs[w]
  BY <1>0, CreatedIs, PutIs
<1>2. snapshots \in Snapshots /\ snapshots \in Nat /\ content \in {Junk, snapshots}
      /\ number \in Nat /\ Junk \notin Snapshots
  <2>1. snapshots \in Snapshots /\ content \in {Junk, snapshots}
    BY DEF Created, Begun
  <2>2. Numbers \subseteq Nat
    BY ScaleAssumption DEF Numbers
  <2> QED
    BY <1>0, <2>1, <2>2, KindsApart, Zenon
<1>3. /\ \A w \in left : \A n \in DOMAIN dirs[w] :
             n < number /\ (dirs[w][n] \in Snapshots => dirs[w][n] < snapshots)
      /\ \A w \in wrote : number \in DOMAIN dirs[w] /\ dirs[w][number] = snapshots
      /\ \A w \in Volumes \ uncounted : \A n \in DOMAIN dirs[w] :
             n < number \/ (n = number /\ dirs[w][n] \in {snapshots, Junk})
  BY <1>0 DEF StoreInv, WritingInv, IsSnapshot, Created
<1>4. \A w \in Volumes : DOMAIN dirs[w] \subseteq Nat
  BY ScaleAssumption DEF TypeOK, Directory, Numbers
<1>5. \A w \in left \ {v} : \A n \in DOMAIN dirs'[w] :
         n < number /\ (dirs'[w][n] \in Snapshots => dirs'[w][n] < snapshots)
  BY <1>1, <1>3
<1>6. \A w \in wrote : number \in DOMAIN dirs'[w] /\ dirs'[w][number] = snapshots
  BY <1>1, <1>3
<1>7. \A w \in Volumes \ uncounted : \A n \in DOMAIN dirs'[w] :
         n < number \/ (n = number /\ dirs'[w][n] \in {snapshots, Junk})
  BY <1>1, <1>2, <1>3
<1>8. KeptInv'
  <2>1. \A w \in Volumes : \A n \in DOMAIN dirs'[w] : dirs'[w][n] \in Snapshots => dirs'[w][n] <= snapshots
    BY <1>1, <1>2 DEF StoreInv, KeptInv, IsSnapshot
  <2>2. \A t \in told : t[1] \in Volumes
    BY DEF TypeOK
  <2>3. \A t \in told : t[2] \in DOMAIN dirs'[t[1]] /\ dirs'[t[1]][t[2]] = t[3]
    BY <1>1, <2>2 DEF StoreInv, KeptInv
  <2> QED
    BY <2>1, <2>3 DEF KeptInv, IsSnapshot
<1>9. NumbersInOrder'
  <2> SUFFICES ASSUME NEW w \in Volumes, NEW n \in DOMAIN dirs'[w], NEW m \in DOMAIN dirs'[w],
                      dirs'[w][n] \in Snapshots, dirs'[w][m] \in Snapshots, n < m
               PROVE  dirs'[w][n] < dirs'[w][m]
    BY DEF NumbersInOrder, IsSnapshot
  <2>1. CASE n \in DOMAIN dirs[w] /\ m \in DOMAIN dirs[w]
    BY <1>1, <2>1 DEF StoreInv, NumbersInOrder, IsSnapshot
  <2>2. CASE w = v /\ m = number /\ n \in DOMAIN dirs[w]
    <3>1. dirs'[w][m] = snapshots
      BY <1>1, <1>2, <2>2
    <3>2. dirs'[w][n] = dirs[w][n] /\ dirs[w][n] < snapshots
      BY <1>1, <1>3, <2>2
    <3> QED
      BY <3>1, <3>2
  <2>3. CASE w = v /\ n = number /\ m \in DOMAIN dirs[w]
    <3>1. m < number /\ m \in Nat
      BY <1>1, <1>3, <1>4, <2>3
    <3> QED
      BY <1>2, <2>3, <3>1
  <2>4. CASE n = number /\ m = number
    BY <1>2, <2>4
  <2> QED
    BY <1>1, <2>1, <2>2, <2>3, <2>4
<1>10. OneNameOneSnapshot'
  <2> SUFFICES ASSUME NEW w \in Volumes \ uncounted, NEW x \in Volumes \ uncounted,
                      NEW n \in DOMAIN dirs'[w] \cap DOMAIN dirs'[x],
                      dirs'[w][n] \in Snapshots, dirs'[x][n] \in Snapshots
               PROVE  dirs'[w][n] = dirs'[x][n]
    BY DEF OneNameOneSnapshot, IsSnapshot
  <2>1. CASE n = number
    <3>1. dirs'[w][n] \in {snapshots, Junk} /\ dirs'[x][n] \in {snapshots, Junk}
      BY <1>2, <1>7, <2>1
    <3> QED
      BY <1>2, <3>1
  <2>2. CASE n # number
    <3>1. /\ n \in DOMAIN dirs[w] /\ dirs'[w][n] = dirs[w][n]
          /\ n \in DOMAIN dirs[x] /\ dirs'[x][n] = dirs[x][n]
      BY <1>1, <2>2
    <3> QED
      BY <3>1 DEF StoreInv, OneNameOneSnapshot, IsSnapshot
  <2> QED
    BY <2>1, <2>2
<1> QED
  BY <1>0, <1>5, <1>6, <1>7, <1>8, <1>9, <1>10 DEF IsSnapshot

\* A save that goes on to its next destination.
LEMMA AfterOneKeeps ==
    ASSUME TypeOK, Begun, StoreInv, job.phase = "writing", job.left # {},
           NEW wrote \in SUBSET Volumes, AfterOne(wrote),
           \/ UNCHANGED dirs /\ wrote = job.wrote
           \/ \E content : /\ Created(First(job.left), content)
                            /\ wrote = job.wrote
           \/ /\ Created(First(job.left), snapshots)
              /\ wrote = job.wrote \cup {First(job.left)},
           UNCHANGED <<snapshots, told, uncounted>>
    PROVE  StoreInv'
<1> DEFINE v == First(job.left)
<1>1. /\ job'.phase = "writing" /\ job'.number = job.number /\ job'.left = job.left \ {v}
      /\ job'.wrote = wrote
  BY AfterOneIs
<1>2. CASE UNCHANGED dirs /\ wrote = job.wrote
  <2>1. KeptInv' /\ NumbersInOrder' /\ OneNameOneSnapshot'
    BY <1>2, FilesRest
  <2>2. WritingInv' /\ NumberingInv'
    BY <1>1, <1>2 DEF StoreInv, WritingInv, NumberingInv, IsSnapshot
  <2> QED
    BY <2>1, <2>2 DEF StoreInv
<1>3. ASSUME NEW content, Created(v, content),
             \/ wrote = job.wrote
             \/ content = snapshots /\ wrote = job.wrote \cup {v}
      PROVE  StoreInv'
  <2>1. /\ KeptInv' /\ NumbersInOrder' /\ OneNameOneSnapshot'
        /\ \A w \in job.left \ {v} : \A n \in DOMAIN dirs'[w] :
             n < job.number /\ (IsSnapshot(w, n)' => dirs'[w][n] < snapshots)
        /\ \A w \in job.wrote : job.number \in DOMAIN dirs'[w] /\ dirs'[w][job.number] = snapshots
        /\ \A w \in Volumes \ uncounted : \A n \in DOMAIN dirs'[w] :
             n < job.number \/ (n = job.number /\ dirs'[w][n] \in {snapshots, Junk})
    BY <1>3, CreatedKeeps
  <2>2. job.number \in DOMAIN dirs'[v] /\ dirs'[v][job.number] = content
    BY <1>3, CreatedIs, PutIs
  <2>3. \A w \in wrote : job.number \in DOMAIN dirs'[w] /\ dirs'[w][job.number] = snapshots
    BY <1>3, <2>1, <2>2
  <2> HIDE DEF v
  <2>4. WritingInv'
    BY <1>1, <2>1, <2>3 DEF WritingInv, IsSnapshot
  <2>5. NumberingInv'
    BY <1>1 DEF NumberingInv
  <2> QED
    BY <2>1, <2>4, <2>5 DEF StoreInv
<1> QED
  BY <1>2, <1>3

LEMMA StoreKept == TypeOK /\ Begun /\ StoreInv /\ [Next]_vars => StoreInv'
<1> SUFFICES ASSUME TypeOK, Begun, StoreInv, [Next]_vars PROVE StoreInv'
  OBVIOUS
<1>1. CASE ChooseDestinations \/ ChooseLaunch
  <2>1. job'.phase = "numbering"
    BY <1>1, ChooseIs DEF Numbering
  <2>2. /\ snapshots' = snapshots + 1 /\ snapshots \in Nat
        /\ UNCHANGED <<dirs, told, uncounted>>
    BY <1>1 DEF ChooseDestinations, ChooseLaunch, TypeOK
  <2>3. \A v \in Volumes : \A n \in DOMAIN dirs[v] :
           dirs[v][n] \in Snapshots => dirs[v][n] \in Nat /\ dirs[v][n] <= snapshots
    BY KindsApart DEF StoreInv, KeptInv, IsSnapshot
  <2>4. \A v \in Volumes : \A n \in DOMAIN dirs[v] :
           dirs[v][n] \in Snapshots => dirs[v][n] < snapshots' /\ dirs[v][n] <= snapshots'
    BY <2>2, <2>3
  <2>5. NumberingInv' /\ WritingInv'
    BY <2>1, <2>2, <2>4 DEF NumberingInv, WritingInv, IsSnapshot
  <2>6. KeptInv'
    BY <2>2, <2>4 DEF StoreInv, KeptInv, IsSnapshot
  <2>7. NumbersInOrder' /\ OneNameOneSnapshot'
    BY <2>2 DEF StoreInv, NumbersInOrder, OneNameOneSnapshot, IsSnapshot
  <2> QED
    BY <2>5, <2>6, <2>7 DEF StoreInv
<1>2. CASE PickName
  <2> DEFINE usable == job.dests \cap online
             number == NumberFor(usable)
             shared == NextName(UNION {NamesOf(v) : v \in online}) # 0
  <2>1. UNCHANGED <<dirs, snapshots, told>> /\ job.phase = "numbering"
    BY <1>2 DEF PickName
  <2>2. CASE job' = Idle /\ UNCHANGED uncounted
    <3>1. KeptInv' /\ NumbersInOrder' /\ OneNameOneSnapshot'
      BY <2>1, <2>2, FilesRest
    <3>2. NumberingInv' /\ WritingInv'
      BY <2>2 DEF NumberingInv, WritingInv, Idle
    <3> QED
      BY <3>1, <3>2 DEF StoreInv
  <2>3. CASE /\ number # 0 /\ job' = Writing(number, usable, {})
             /\ uncounted' = uncounted \cup (Volumes \ (IF shared THEN online ELSE usable))
    <3>1. /\ number \in Numbers
          /\ \A v \in usable : \A n \in DOMAIN dirs[v] : n < number
          /\ shared => \A v \in online : \A n \in DOMAIN dirs[v] : n < number
      BY <2>3, NumberForIs
    <3>2. usable \subseteq Volumes
      BY DEF TypeOK
    <3> HIDE DEF usable, number, shared
    <3>3. \A v \in Volumes \ uncounted' : \A n \in DOMAIN dirs[v] : n < number
      BY <2>3, <3>1
    <3>4. \A v \in usable : \A n \in DOMAIN dirs[v] : IsSnapshot(v, n) => dirs[v][n] < snapshots
      BY <2>1, <3>2 DEF StoreInv, NumberingInv
    <3>5. WritingInv' /\ NumberingInv'
      BY <2>1, <2>3, <3>1, <3>3, <3>4 DEF WritingInv, NumberingInv, IsSnapshot, Writing
    <3>6. KeptInv' /\ NumbersInOrder'
      BY <2>1 DEF StoreInv, KeptInv, NumbersInOrder, IsSnapshot
    <3>7. OneNameOneSnapshot'
      BY <2>1, <2>3 DEF StoreInv, OneNameOneSnapshot, IsSnapshot
    <3> QED
      BY <3>5, <3>6, <3>7 DEF StoreInv
  <2> QED
    BY <1>2, <2>2, <2>3 DEF PickName
<1>3. CASE SaveOne
  <2>1. First(job.left) \in Volumes /\ job.wrote \subseteq Volumes
    BY <1>3, JobIs, FirstIsLeft DEF SaveOne
  <2>2. job.wrote \cup {First(job.left)} \in SUBSET Volumes
    BY <2>1
  <2>3. Created(First(job.left), snapshots) /\ AfterOne(job.wrote \cup {First(job.left)})
    BY <1>3 DEF SaveOne, Created
  <2> QED
    BY <1>3, <2>2, <2>3, AfterOneKeeps DEF SaveOne
<1>4. CASE SaveOneFails
  <2>1. job.wrote \in SUBSET Volumes
    BY <1>4, JobIs DEF SaveOneFails
  <2>2. UNCHANGED dirs \/ \E content : Created(First(job.left), content)
    BY <1>4 DEF SaveOneFails, Created
  <2> QED
    BY <1>4, <2>1, <2>2, AfterOneKeeps DEF SaveOneFails
<1>5. CASE Report
  <2>1. job' = Idle /\ UNCHANGED <<dirs, snapshots, uncounted>> /\ job.phase = "writing"
        /\ told' = told \cup {<<v, job.number, snapshots>> : v \in job.wrote}
    BY <1>5 DEF Report
  <2>2. NumberingInv' /\ WritingInv'
    BY <2>1 DEF NumberingInv, WritingInv, Idle
  <2>3. NumbersInOrder' /\ OneNameOneSnapshot'
    BY <2>1 DEF StoreInv, NumbersInOrder, OneNameOneSnapshot, IsSnapshot
  <2>4. \A v \in job.wrote : job.number \in DOMAIN dirs[v] /\ dirs[v][job.number] = snapshots
    BY <2>1 DEF StoreInv, WritingInv
  <2>5. KeptInv'
    BY <2>1, <2>4 DEF StoreInv, KeptInv, IsSnapshot
  <2> QED
    BY <2>2, <2>3, <2>5 DEF StoreInv
<1>6. CASE PowerCut
  <2>1. job' = Idle /\ UNCHANGED <<snapshots, told, uncounted>>
    BY <1>6 DEF PowerCut
  <2>2. UNCHANGED dirs \/ \E v, content : Created(v, content)
    BY <1>6 DEF PowerCut, Created
  <2>3. KeptInv' /\ NumbersInOrder' /\ OneNameOneSnapshot'
    BY <2>1, <2>2, FilesRest, CreatedKeeps
  <2>4. NumberingInv' /\ WritingInv'
    BY <2>1 DEF NumberingInv, WritingInv, Idle
  <2> QED
    BY <2>3, <2>4 DEF StoreInv
<1>7. CASE Plug \/ Unplug
  BY <1>7, FilesRest DEF Plug, Unplug
<1>8. CASE Elsewhere
  <2>1. UNCHANGED <<snapshots, job, uncounted>> /\ job.phase # "writing"
    BY <1>8 DEF Elsewhere
  <2>2. \A v \in Volumes : \A n \in DOMAIN dirs'[v] :
           dirs'[v][n] \in Snapshots => n \in DOMAIN dirs[v] /\ dirs'[v][n] = dirs[v][n]
    BY <1>8, ElsewhereIs, KindsApart
  <2>3. told' \subseteq told /\ \A t \in told' :
           t[2] \in DOMAIN dirs[t[1]] =>
               t[2] \in DOMAIN dirs'[t[1]] /\ dirs'[t[1]][t[2]] = dirs[t[1]][t[2]]
    BY <1>8, ElsewhereIs DEF TypeOK
  <2>4. KeptInv'
    BY <2>1, <2>2, <2>3 DEF StoreInv, KeptInv, IsSnapshot
  <2>5. NumberingInv' /\ WritingInv'
    BY <2>1, <2>2 DEF StoreInv, NumberingInv, WritingInv, IsSnapshot
  <2>6. NumbersInOrder'
    BY <2>2 DEF StoreInv, NumbersInOrder, IsSnapshot
  <2>7. OneNameOneSnapshot'
    BY <2>1, <2>2 DEF StoreInv, OneNameOneSnapshot, IsSnapshot
  <2> QED
    BY <2>4, <2>5, <2>6, <2>7 DEF StoreInv
<1>9. CASE UNCHANGED vars
  BY <1>9, FilesRest DEF vars
<1> QED
  BY <1>1, <1>2, <1>3, <1>4, <1>5, <1>6, <1>7, <1>8, <1>9 DEF Next

LEMMA StoreHolds == Spec => [](TypeOK /\ Begun /\ StoreInv)
<1>1. Init => StoreInv
  BY DEF Init, StoreInv, KeptInv, NumberingInv, WritingInv, NumbersInOrder, OneNameOneSnapshot, Idle
<1> QED
  BY <1>1, StoreKept, TypedHolds, PTL DEF Spec

\* A later snapshot has a higher number on every volume, whatever other machines
\* remove in between (next_name and the fall-back of write_snapshot).
THEOREM LaterIsHigher == Spec => []NumbersInOrder
BY StoreHolds, PTL DEF StoreInv

\* On the volumes every number was chosen with in view, one name never means two
\* snapshots (the numbering write_snapshot shares across everything attached).
THEOREM OneNameEverywhere == Spec => []OneNameOneSnapshot
BY StoreHolds, PTL DEF StoreInv

\* The number of a save is free wherever it has still to be written
\* (Volume::names counts what Volume::save would refuse).
THEOREM NameStaysFree == Spec => []NameIsFree
<1>1. TypeOK /\ StoreInv => NameIsFree
  <2> SUFFICES ASSUME TypeOK, StoreInv, job.phase = "writing", NEW v \in job.left,
                      job.number \in DOMAIN dirs[v]
               PROVE  FALSE
    BY DEF NameIsFree
  <2>1. PICK n \in Nat : n = job.number
    BY JobIs, ScaleAssumption DEF Numbers
  <2>2. n < n
    BY <2>1 DEF StoreInv, WritingInv
  <2> QED
    BY <2>2
<1> QED
  BY <1>1, StoreHolds, PTL

\* What the operator was told is saved is offered wherever its volume is attached,
\* as long as the directory holds no more files than are read (load_saved and
\* list_matching).
THEOREM SavedStaysOffered == Spec => []SavedIsOffered
<1>1. TypeOK /\ StoreInv => SavedIsOffered
  <2> SUFFICES ASSUME TypeOK, StoreInv, NEW t \in told, t[1] \in online,
                      Cardinality(FilesOf(t[1])) <= MaxRead
               PROVE  t \in Offered
    BY DEF SavedIsOffered
  <2>1. PICK v \in Volumes, n \in Numbers, s \in Snapshots : t = <<v, n, s>>
    BY DEF TypeOK
  <2>2. t[1] = v /\ t[2] = n /\ t[3] = s
    BY <2>1
  <2>3. n \in DOMAIN dirs[v] /\ dirs[v][n] = s /\ s # Folder
    BY <2>2, KindsApart DEF StoreInv, KeptInv
  <2>4. n \in FilesOf(v)
    BY <2>3 DEF FilesOf
  <2>5. IsFiniteSet(FilesOf(v))
    <3>1. FilesOf(v) \subseteq 1..MaxSequence
      BY DEF FilesOf, TypeOK, Directory, Numbers
    <3>2. IsFiniteSet(1..MaxSequence)
      BY FS_Interval, ScaleAssumption
    <3> QED
      BY <3>1, <3>2, FS_Subset
  <2>6. Cardinality({m \in FilesOf(v) : m <= n}) <= MaxRead
    <3> DEFINE lower == {m \in FilesOf(v) : m <= n}
    <3>1. lower \subseteq FilesOf(v)
      OBVIOUS
    <3> HIDE DEF lower
    <3>2. /\ Cardinality(lower) <= Cardinality(FilesOf(v)) /\ IsFiniteSet(lower)
          /\ Cardinality(lower) \in Nat /\ Cardinality(FilesOf(v)) \in Nat
      BY <2>5, <3>1, FS_Subset, FS_CardinalityType
    <3>3. Cardinality(lower) <= MaxRead
      BY <2>2, <3>2, ScaleAssumption
    <3> QED
      BY <3>3 DEF lower
  <2>7. n \in Read(v)
    BY <2>4, <2>6 DEF Read
  <2>8. t \in online \X Numbers \X Snapshots
    BY <2>1, <2>2
  <2> QED
    BY <2>2, <2>3, <2>7, <2>8 DEF Offered
<1> QED
  BY <1>1, StoreHolds, PTL

-----------------------------------------------------------------------------
(* The loop of attribute                                                   *)

LEMMA LeastOf ==
    ASSUME NEW S, S \subseteq Nat, S # {}
    PROVE  \E n \in S : \A m \in S : n <= m
<1> DEFINE R == OpToRel(<, Nat)
<1>1. \E n \in S : \A m \in S : ~(<<m, n>> \in R)
  BY WFMin, NatLessThanWellFounded
<1>2. \A n \in S, m \in S : ~(<<m, n>> \in R) => n <= m
  BY DEF OpToRel
<1> QED
  BY <1>1, <1>2

\* Disk i is one the loop looks at.
Fits(a, i) == disks[i].reads /\ Match(a, disks[i]) # "DifferentDisk"

\* f is the best disk after each of the first n.
Runs(a, f, n) ==
    /\ f \in [0 .. n -> 0 .. n]
    /\ f[0] = 0
    /\ \A i \in 1 .. n :
         f[i] = IF Fits(a, i) /\ Better(a, i, f[i - 1]) THEN i ELSE f[i - 1]

LEMMA RunExists ==
    ASSUME NEW a, NEW n \in Nat
    PROVE  \E f : Runs(a, f, n)
<1> DEFINE S == {k \in Nat : ~\E f : Runs(a, f, k)}
<1> SUFFICES ASSUME S # {} PROVE FALSE
  OBVIOUS
<1>1. PICK k \in S : \A m \in S : k <= m
  BY LeastOf
<1>2. CASE k = 0
  <2>1. Runs(a, [i \in 0 .. 0 |-> 0], 0)
    BY DEF Runs
  <2> QED
    BY <1>2, <2>1
<1>3. CASE k # 0
  <2>1. k - 1 \in Nat /\ k - 1 \notin S
    BY <1>1, <1>3
  <2>2. PICK f : Runs(a, f, k - 1)
    BY <2>1
  <2> DEFINE last == IF Fits(a, k) /\ Better(a, k, f[k - 1]) THEN k ELSE f[k - 1]
             g == [i \in 0 .. k |-> IF i = k THEN last ELSE f[i]]
  <2>3. /\ f \in [0 .. (k - 1) -> 0 .. (k - 1)] /\ f[0] = 0
        /\ \A i \in 1 .. (k - 1) :
             f[i] = IF Fits(a, i) /\ Better(a, i, f[i - 1]) THEN i ELSE f[i - 1]
    BY <2>2 DEF Runs
  <2>4. last \in 0 .. k
    BY <2>1, <2>3
  <2> HIDE DEF last
  <2>5. g \in [0 .. k -> 0 .. k]
    BY <2>1, <2>3, <2>4
  <2>6. g[0] = 0
    BY <1>3, <2>3
  <2>7. ASSUME NEW i \in 1 .. k
        PROVE  g[i] = IF Fits(a, i) /\ Better(a, i, g[i - 1]) THEN i ELSE g[i - 1]
    <3>1. g[i - 1] = f[i - 1]
      OBVIOUS
    <3>2. CASE i = k
      BY <3>1, <3>2 DEF last
    <3>3. CASE i # k
      <4>1. i \in 1 .. (k - 1) /\ g[i] = f[i]
        BY <3>3
      <4> QED
        BY <2>3, <3>1, <4>1
    <3> QED
      BY <3>2, <3>3
  <2>8. Runs(a, g, k)
    BY <2>5, <2>6, <2>7 DEF Runs
  <2> QED
    BY <2>8
<1> QED
  BY <1>2, <1>3

LEMMA BestRuns ==
    ASSUME NEW a
    PROVE  \E f : f[0] = 0 /\ Best(a) = f[N]
                  /\ \A i \in 1 .. N :
                       f[i] = IF Fits(a, i) /\ Better(a, i, f[i - 1]) THEN i ELSE f[i - 1]
<1> DEFINE Loop(f) == [i \in 0 .. N |->
             IF i = 0 THEN 0
             ELSE IF /\ disks[i].reads /\ Match(a, disks[i]) # "DifferentDisk"
                     /\ Better(a, i, f[i - 1])
                  THEN i ELSE f[i - 1]]
           best0 == CHOOSE f : f = Loop(f)
<1>1. Best(a) = best0[N]
  BY Zenon DEF Best
<1>2. \E f : f = Loop(f)
  <2>1. PICK f : Runs(a, f, N)
    BY RunExists, NAssumption
  <2>2. f = Loop(f)
    BY <2>1, NAssumption DEF Runs, Fits
  <2> QED
    BY <2>2
<1>3. best0 = Loop(best0)
  BY <1>2
<1> HIDE DEF best0
<1>4. best0[0] = 0
  BY <1>3, NAssumption
<1>5. ASSUME NEW i \in 1 .. N
      PROVE  best0[i] = IF Fits(a, i) /\ Better(a, i, best0[i - 1]) THEN i ELSE best0[i - 1]
  <2>1. Loop(best0)[i] = IF /\ disks[i].reads /\ Match(a, disks[i]) # "DifferentDisk"
                            /\ Better(a, i, best0[i - 1])
                         THEN i ELSE best0[i - 1]
    BY NAssumption
  <2> QED
    BY <1>3, <2>1 DEF Fits
<1> QED
  BY <1>1, <1>4, <1>5

\* What the loop leaves is a disk it looked at, or none.
LEMMA BestFits ==
    ASSUME NEW a
    PROVE  Best(a) \in 0 .. N /\ (Best(a) # 0 => Fits(a, Best(a)))
<1>1. PICK f : /\ f[0] = 0 /\ Best(a) = f[N]
               /\ \A i \in 1 .. N :
                    f[i] = IF Fits(a, i) /\ Better(a, i, f[i - 1]) THEN i ELSE f[i - 1]
  BY BestRuns
<1> DEFINE Good(i) == f[i] = 0 \/ (f[i] \in 1 .. i /\ Fits(a, f[i]))
           S == {i \in 0 .. N : ~Good(i)}
<1>2. ASSUME S # {} PROVE FALSE
  <2>1. PICK k \in S : \A m \in S : k <= m
    <3>1. S \subseteq Nat
      BY NAssumption
    <3> HIDE DEF S
    <3> QED
      BY <1>2, <3>1, LeastOf
  <2>2. k # 0
    BY <1>1, <2>1
  <2>3. k \in 1 .. N /\ k - 1 \in 0 .. N /\ k - 1 \notin S
    BY <2>1, <2>2, NAssumption
  <2>4. Good(k - 1)
    BY <2>3
  <2>5. Good(k)
    BY <1>1, <2>3, <2>4, NAssumption
  <2> QED
    BY <2>1, <2>5
<1>3. Good(N)
  BY <1>2, NAssumption
<1> QED
  BY <1>1, <1>3, NAssumption

\* A disk that alone is the snapshot's own and alone shares a partition with it
\* is the one that is left.
LEMMA BestIsTheOne ==
    ASSUME NEW a, NEW o \in Indices, Fits(a, o), Match(a, disks[o]) = "SameDisk",
           Cardinality(Shared(a, disks[o])) \in Nat,
           \A i \in Indices : i # o =>
               Match(a, disks[i]) # "SameDisk" /\ Cardinality(Shared(a, disks[i])) = 0
    PROVE  Best(a) = o
<1>1. PICK f : /\ f[0] = 0 /\ Best(a) = f[N]
               /\ \A i \in 1 .. N :
                    f[i] = IF Fits(a, i) /\ Better(a, i, f[i - 1]) THEN i ELSE f[i - 1]
  BY BestRuns
<1> DEFINE Before(i) == i < o => f[i] = 0 \/ f[i] \in 1 .. i
           Good(i) == Before(i) /\ (i >= o => f[i] = o)
           S == {i \in 0 .. N : ~Good(i)}
<1>2. ASSUME S # {} PROVE FALSE
  <2>1. PICK k \in S : \A m \in S : k <= m
    <3>1. S \subseteq Nat
      BY NAssumption
    <3> HIDE DEF S
    <3> QED
      BY <1>2, <3>1, LeastOf
  <2>2. k # 0
    BY <1>1, <2>1 DEF Indices
  <2>3. k \in 1 .. N /\ k - 1 \in 0 .. N /\ k - 1 \notin S
    BY <2>1, <2>2, NAssumption
  <2>4. Good(k - 1)
    BY <2>3
  <2>5. f[k] = IF Fits(a, k) /\ Better(a, k, f[k - 1]) THEN k ELSE f[k - 1]
    BY <1>1, <2>3
  <2>6. CASE k < o
    <3>1. f[k - 1] = 0 \/ f[k - 1] \in 1 .. (k - 1)
      BY <2>3, <2>4, <2>6, NAssumption DEF Indices
    <3> QED
      BY <2>1, <2>3, <2>5, <2>6, <3>1, NAssumption DEF Indices
  <2>7. CASE k = o
    <3>1. f[k - 1] = 0 \/ (f[k - 1] \in Indices /\ f[k - 1] # o)
      BY <2>3, <2>4, <2>7, NAssumption DEF Indices
    <3>2. Better(a, k, f[k - 1])
      BY <2>7, <3>1 DEF Better
    <3> QED
      BY <2>1, <2>3, <2>5, <2>7, <3>2, NAssumption DEF Indices
  <2>8. CASE k > o
    <3>1. f[k - 1] = o
      BY <2>3, <2>4, <2>8, NAssumption DEF Indices
    <3>2. k \in Indices /\ k # o /\ o # 0
      BY <2>3, <2>8 DEF Indices
    <3>3. ~Better(a, k, o)
      BY <3>2 DEF Better
    <3> QED
      BY <2>1, <2>3, <2>5, <2>8, <3>1, <3>3, NAssumption DEF Indices
  <2> QED
    BY <2>3, <2>6, <2>7, <2>8, NAssumption DEF Indices
<1>3. Good(N)
  BY <1>2, NAssumption
<1> QED
  BY <1>1, <1>3, NAssumption DEF Indices

-----------------------------------------------------------------------------
(* Types                                                                   *)

TypedInv == AttributionTypeOK /\ IsFiniteSet(files)

LEMMA CapturedIs ==
    ASSUME disks \in [Indices -> Disk], NEW i \in Indices
    PROVE  /\ Captured(i) \in Archive
           /\ Captured(i).origin = i /\ Captured(i).geometry = disks[i].geometry
           /\ IdsOn(Captured(i)) = IdsOn(disks[i])
           /\ Captured(i).guid \in {Zero} \cup IdsOn(Captured(i))
<1>1. disks[i] \in Disk
  OBVIOUS
<1>2. disks[i].main.guid \in {Zero} \cup IdsOn(disks[i])
      /\ disks[i].secondary.guid \in {Zero} \cup IdsOn(disks[i])
  BY DEF IdsOn, Ids
<1> QED
  BY <1>1, <1>2 DEF Captured, Archive, Disk, Copy, IdsOn

LEMMA SeenIs ==
    ASSUME NEW d \in Disk
    PROVE  /\ BestView(d) \in {d.main, d.secondary} /\ BestView(d) \in Copy
           /\ Seen(d) \subseteq IdsOn(d) /\ Seen(d) \subseteq Parts
           /\ GuidOf(BestView(d)) \in {Zero} \cup IdsOn(d)
           /\ GuidOf(BestView(d)) \in Guids \cup {Zero}
<1>1. BestView(d) \in {d.main, d.secondary} /\ d.main \in Copy /\ d.secondary \in Copy
  BY DEF BestView, Disk
<1> HIDE DEF BestView
<1> QED
  BY <1>1 DEF Seen, PartsOf, GuidOf, IdsOn, Ids, Copy

LEMMA EntriesAre ==
    ASSUME NEW a \in Archive
    PROVE  Entries(a) \subseteq IdsOn(a) /\ Entries(a) \subseteq Parts
BY DEF Entries, PartsOf, IdsOn, Ids, Archive, Copy

LEMMA StartTyped ==
    ASSUME AttributionInit
    PROVE  TypedInv
<1>1. disks \in [Indices -> Disk]
  BY StartAssumption DEF AttributionInit
<1>2. used \subseteq Guids \cup Parts
  BY <1>1 DEF AttributionInit, IdsOn, Ids, Disk, Copy
<1>3. IsFiniteSet({}) /\ Cardinality({}) = 0
  BY FS_EmptySet
<1> QED
  BY <1>1, <1>2, <1>3, BoundsAssumption DEF TypedInv, AttributionTypeOK, AttributionInit

LEMMA FilesTyped ==
    ASSUME AttributionTypeOK, IsFiniteSet(files), NEW i \in Indices
    PROVE  /\ files \cup {Captured(i)} \subseteq Archive
           /\ IsFiniteSet(files \cup {Captured(i)})
           /\ Cardinality(files) < MaxFiles => Cardinality(files \cup {Captured(i)}) <= MaxFiles
<1>1. Captured(i) \in Archive
  BY CapturedIs DEF AttributionTypeOK
<1>2. /\ IsFiniteSet(files \cup {Captured(i)})
      /\ \/ Cardinality(files \cup {Captured(i)}) = Cardinality(files)
         \/ Cardinality(files \cup {Captured(i)}) = Cardinality(files) + 1
  BY FS_AddElement
<1>3. Cardinality(files) \in Nat
  BY FS_CardinalityType
<1> QED
  BY <1>1, <1>2, <1>3, BoundsAssumption DEF AttributionTypeOK

LEMMA TypedStep ==
    ASSUME TypedInv, [AttributionNext]_attributionVars
    PROVE  TypedInv'
<1> USE DEF TypedInv
<1>0. IsFiniteSet({}) /\ Cardinality({}) = 0
  BY FS_EmptySet
<1>1. CASE RunBackup
  <2>1. PICK i \in Indices : files' = files \cup {Captured(i)}
    BY <1>1 DEF RunBackup
  <2>2. at = "main" /\ Cardinality(files) < MaxFiles /\ UNCHANGED <<disks, screen, histories>>
    BY <1>1 DEF RunBackup
  <2> QED
    BY <2>1, <2>2, FilesTyped DEF AttributionTypeOK, screen, histories
<1>2. CASE RunRestore
  <2>1. \A a \in files : Best(a) \in 0 .. N
    BY BestFits
  <2> QED
    BY <1>2, <2>1 DEF RunRestore, AttributionTypeOK, Stay, histories
<1>3. CASE Leave
  BY <1>0, <1>3 DEF Leave, Home, AttributionTypeOK, Stay, histories
<1>4. ASSUME NEW a \in files, Choose(a) PROVE TypedInv'
  <2>1. Cardinality({a}) = 1
    BY FS_Singleton
  <2> QED
    BY <1>4, <2>1 DEF Choose, AttributionTypeOK, Stay, histories
<1>5. ASSUME NEW i \in Indices, PickDisk(i) PROVE TypedInv'
  BY <1>5 DEF PickDisk, AttributionTypeOK, Stay, histories
<1>6. ASSUME NEW i \in Indices, Repartition(i) PROVE TypedInv'
  <2>1. PICK keep \in SUBSET Seen(disks[i]), new \in SUBSET (Parts \ used),
             guid \in {GuidOf(BestView(disks[i]))} \cup (Guids \ used) :
          LET copy == [guid |-> guid, parts |-> keep \cup new,
                       header |-> "sound", array |-> "sound"]
          IN  /\ guid # Zero
              /\ disks' = [disks EXCEPT ![i].main = copy, ![i].secondary = copy]
              /\ used' = used \cup new \cup {guid}
    BY <1>6 DEF Repartition
  <2> DEFINE copy == [guid |-> guid, parts |-> keep \cup new,
                      header |-> "sound", array |-> "sound"]
  <2>2. disks[i] \in Disk
    BY DEF AttributionTypeOK
  <2>3. guid \in Guids /\ keep \subseteq Parts
    BY <2>1, <2>2, SeenIs
  <2>4. copy \in Copy
    BY <2>3 DEF Copy
  <2>5. disks' = [disks EXCEPT ![i].main = copy, ![i].secondary = copy]
        /\ used' = used \cup new \cup {guid}
    BY <2>1
  <2> HIDE DEF copy
  <2>6. disks' \in [Indices -> Disk]
    BY <2>4, <2>5 DEF AttributionTypeOK, Disk
  <2> QED
    BY <1>6, <2>3, <2>5, <2>6, BoundsAssumption
       DEF Repartition, Change, AttributionTypeOK, screen
<1>7. ASSUME NEW i \in Indices, Damage(i) PROVE TypedInv'
  <2>1. PICK header \in {"sum", "zeroed"}, array \in {"lost", "unread"} :
           \/ disks' = [disks EXCEPT ![i].main.header = header]
           \/ disks' = [disks EXCEPT ![i].main.array = array]
           \/ disks' = [disks EXCEPT ![i].secondary.header = header]
           \/ disks' = [disks EXCEPT ![i].secondary.array = array]
    BY <1>7 DEF Damage
  <2>2. disks \in [Indices -> Disk]
    BY DEF AttributionTypeOK
  <2>7. disks' \in [Indices -> Disk]
    <3>1. disks[i] \in Disk /\ disks[i].main \in Copy /\ disks[i].secondary \in Copy
      BY <2>2 DEF Disk
    <3>2. \A c \in Copy : [c EXCEPT !.header = header] \in Copy
                          /\ [c EXCEPT !.array = array] \in Copy
      BY DEF Copy
    <3>3. \A d \in Disk, c \in Copy : [d EXCEPT !.main = c] \in Disk
                                       /\ [d EXCEPT !.secondary = c] \in Disk
      BY DEF Disk
    <3>4. \E d \in Disk : disks' = [disks EXCEPT ![i] = d]
      <4>1. CASE disks' = [disks EXCEPT ![i].main.header = header]
        BY <3>1, <3>2, <3>3, <4>1
      <4>2. CASE disks' = [disks EXCEPT ![i].main.array = array]
        BY <3>1, <3>2, <3>3, <4>2
      <4>3. CASE disks' = [disks EXCEPT ![i].secondary.header = header]
        BY <3>1, <3>2, <3>3, <4>3
      <4>4. CASE disks' = [disks EXCEPT ![i].secondary.array = array]
        BY <3>1, <3>2, <3>3, <4>4
      <4> QED
        BY <2>1, <4>1, <4>2, <4>3, <4>4
    <3> QED
      BY <2>2, <3>4
  <2> QED
    BY <1>7, <2>7, BoundsAssumption DEF Damage, Change, AttributionTypeOK, screen
<1>8. ASSUME NEW i \in Indices, Leaves(i) PROVE TypedInv'
  <2>1. disks' \in [Indices -> Disk]
    BY <1>8 DEF Leaves, AttributionTypeOK, Disk
  <2> QED
    BY <1>8, <2>1, BoundsAssumption DEF Leaves, Change, AttributionTypeOK, screen
<1>9. ASSUME NEW i \in Indices, Returns(i) PROVE TypedInv'
  <2>1. disks' \in [Indices -> Disk]
    BY <1>9 DEF Returns, AttributionTypeOK, Disk
  <2> QED
    BY <1>9, <2>1 DEF Returns, AttributionTypeOK, screen, histories
<1>10. ASSUME NEW a \in chosen, Authorise(a) PROVE TypedInv'
  <2>1. target \in Indices /\ a \in Archive
    BY <1>10 DEF Authorise, AttributionTypeOK
  <2>2. files' \subseteq Archive /\ IsFiniteSet(files') /\ Cardinality(files') <= MaxFiles
    BY <1>10, <2>1, FilesTyped DEF Authorise, AttributionTypeOK
  <2>3. PICK done \in SUBSET {"main", "secondary"} :
           disks' = [disks EXCEPT ![target].main = IF "main" \in done THEN a.main ELSE @,
                                  ![target].secondary = IF "secondary" \in done
                                                        THEN a.secondary ELSE @]
    BY <1>10 DEF Authorise
  <2>4. disks' \in [Indices -> Disk]
    <3> DEFINE main == IF "main" \in done THEN a.main ELSE disks[target].main
               secondary == IF "secondary" \in done THEN a.secondary
                            ELSE disks[target].secondary
    <3>1. disks \in [Indices -> Disk] /\ disks[target] \in Disk
      BY <2>1 DEF AttributionTypeOK
    <3>2. main \in Copy /\ secondary \in Copy
      BY <2>1, <3>1 DEF Archive, Disk
    <3>3. disks' = [disks EXCEPT ![target].main = main, ![target].secondary = secondary]
      BY <2>1, <2>3, <3>1
    <3> HIDE DEF main, secondary
    <3> QED
      BY <2>1, <3>1, <3>2, <3>3 DEF Disk
  <2>5. cloned' \in BOOLEAN
    BY <1>10 DEF Authorise, AttributionTypeOK
  <2> QED
    BY <1>0, <1>10, <2>2, <2>4, <2>5 DEF Authorise, Home, AttributionTypeOK
<1>11. CASE UNCHANGED attributionVars
  BY <1>11 DEF attributionVars, screen, histories, AttributionTypeOK
<1> HIDE DEF TypedInv
<1> QED
  BY <1>1, <1>2, <1>3, <1>4, <1>5, <1>6, <1>7, <1>8, <1>9, <1>10, <1>11 DEF AttributionNext

\* The variables hold what they should.
THEOREM AttributionTyped == AttributionSpec => []AttributionTypeOK
<1>1. AttributionInit => TypedInv
  BY StartTyped
<1>2. TypedInv /\ [AttributionNext]_attributionVars => TypedInv'
  BY TypedStep
<1>3. TypedInv => AttributionTypeOK
  BY DEF TypedInv
<1> QED
  BY <1>1, <1>2, <1>3, PTL DEF AttributionSpec

-----------------------------------------------------------------------------
(* Whose GUIDs                                                             *)

\* The GUIDs on a disk and on the snapshots taken of it.
IdsOf(i) == IdsOn(disks[i]) \cup UNION {IdsOn(a) : a \in {f \in files : f.origin = i}}

\* They were given out, and without a clone to one disk each.
OwnerInv ==
    /\ \A i \in Indices : IdsOf(i) \subseteq used
    /\ ~cloned => \A i, j \in Indices : i # j => IdsOf(i) \cap IdsOf(j) = {}

\* A snapshot says the GUID and the size of the disk it was taken of.
TakenInv ==
    \A a \in files : /\ a.guid \in {Zero} \cup IdsOn(a)
                     /\ a.geometry = disks[a.origin].geometry

\* The attribution is of the disks and snapshots there are.
BestInv == at # "main" => best = [a \in files |-> Best(a)]

\* The disk under review has the size of the snapshot's.
ReviewInv == at = "review" => \A a \in chosen : a.geometry = disks[target].geometry

AttributionInv == TypedInv /\ OwnerInv /\ TakenInv /\ BestInv /\ ReviewInv

LEMMA IdsOfIs ==
    ASSUME NEW i, NEW x
    PROVE  /\ x \in IdsOf(i) <=>
                  x \in IdsOn(disks[i]) \/ \E a \in files : a.origin = i /\ x \in IdsOn(a)
           /\ (x \in IdsOf(i))' <=>
                  x \in IdsOn(disks'[i]) \/ \E a \in files' : a.origin = i /\ x \in IdsOn(a)
BY DEF IdsOf

\* One disk may get GUIDs that were never used; the others get none.
LEMMA OwnersStay ==
    ASSUME OwnerInv, NEW k \in Indices, NEW fresh, fresh \cap used = {},
           used' = used \cup fresh, ~cloned' => ~cloned,
           IdsOf(k)' \subseteq IdsOf(k) \cup fresh,
           \A i \in Indices : i # k => IdsOf(i)' \subseteq IdsOf(i)
    PROVE  OwnerInv'
<1>1. \A i \in Indices : IdsOf(i)' \subseteq used'
  BY DEF OwnerInv
<1>2. ASSUME ~cloned', NEW i \in Indices, NEW j \in Indices, i # j
      PROVE  IdsOf(i)' \cap IdsOf(j)' = {}
  BY <1>2 DEF OwnerInv
<1> QED
  BY <1>1, <1>2 DEF OwnerInv

LEMMA OwnersStart ==
    ASSUME AttributionInit
    PROVE  OwnerInv /\ TakenInv /\ BestInv /\ ReviewInv
<1>1. \A i : IdsOf(i) = IdsOn(disks[i])
  BY DEF IdsOf, AttributionInit
<1> QED
  BY <1>1 DEF OwnerInv, TakenInv, BestInv, ReviewInv, AttributionInit

\* A snapshot more of a disk does not change whose GUIDs they are.
LEMMA OneMore ==
    ASSUME TypedInv, NEW k \in Indices, files' = files \cup {Captured(k)},
           NEW i \in Indices, IdsOn(disks'[i]) \subseteq IdsOf(i)
    PROVE  IdsOf(i)' \subseteq IdsOf(i)
<1>1. Captured(k).origin = k /\ IdsOn(Captured(k)) = IdsOn(disks[k])
  BY CapturedIs DEF TypedInv, AttributionTypeOK
<1> SUFFICES ASSUME NEW x, (x \in IdsOf(i))' PROVE x \in IdsOf(i)
  OBVIOUS
<1>2. x \in IdsOn(disks'[i]) \/ \E a \in files' : a.origin = i /\ x \in IdsOn(a)
  BY IdsOfIs
<1> QED
  BY <1>1, <1>2, IdsOfIs

LEMMA SameFiles ==
    ASSUME files' = files, NEW i \in Indices, NEW more, IdsOn(disks'[i]) \subseteq IdsOf(i) \cup more
    PROVE  IdsOf(i)' \subseteq IdsOf(i) \cup more
<1> SUFFICES ASSUME NEW x, (x \in IdsOf(i))' PROVE x \in IdsOf(i) \cup more
  OBVIOUS
<1>1. x \in IdsOn(disks'[i]) \/ \E a \in files' : a.origin = i /\ x \in IdsOn(a)
  BY IdsOfIs
<1> QED
  BY <1>1, IdsOfIs

LEMMA DiskIds ==
    ASSUME NEW i
    PROVE  IdsOn(disks[i]) \subseteq IdsOf(i)
BY DEF IdsOf

\* Steps that leave the disks and the files.
LEMMA StaySteps ==
    ASSUME AttributionInv, Stay,
           at' # "main" => best' = [a \in files |-> Best(a)],
           at' = "review" => \A a \in chosen' : a.geometry = disks[target'].geometry
    PROVE  (OwnerInv /\ TakenInv /\ BestInv /\ ReviewInv)'
<1>1. disks' = disks /\ files' = files /\ used' = used /\ cloned' = cloned
  BY DEF Stay, histories
<1>2. \A i : IdsOf(i)' = IdsOf(i)
  BY <1>1 DEF IdsOf
<1>3. \A a : Best(a)' = Best(a)
  BY <1>1 DEF Best, Better
<1> QED
  BY <1>1, <1>2, <1>3 DEF AttributionInv, OwnerInv, TakenInv, BestInv, ReviewInv

\* Steps of the others: GUIDs stay where they are, and sizes too.
LEMMA ChangeSteps ==
    ASSUME AttributionInv, AttributionTypeOK', NEW k \in Indices, NEW fresh, fresh \cap used = {},
           at' = "main", files' = files, used' = used \cup fresh, ~cloned' => ~cloned,
           IdsOn(disks'[k]) \subseteq IdsOn(disks[k]) \cup fresh,
           \A i \in Indices : disks'[i].geometry = disks[i].geometry,
           \A i \in Indices : i # k => IdsOn(disks'[i]) = IdsOn(disks[i])
    PROVE  (OwnerInv /\ TakenInv /\ BestInv /\ ReviewInv)'
<1>1. IdsOf(k)' \subseteq IdsOf(k) \cup fresh
  BY DiskIds, SameFiles
<1>2. \A i \in Indices : i # k => IdsOf(i)' \subseteq IdsOf(i)
  <2> TAKE i \in Indices
  <2> HAVE i # k
  <2>1. IdsOn(disks'[i]) \subseteq IdsOf(i) \cup {}
    BY DiskIds
  <2> QED
    BY <2>1, SameFiles
<1>3. OwnerInv'
  BY <1>1, <1>2, OwnersStay DEF AttributionInv
<1>4. \A a \in files : a.origin \in Indices
  BY DEF AttributionInv, TypedInv, AttributionTypeOK, Archive
<1>5. TakenInv'
  BY <1>4 DEF AttributionInv, TakenInv
<1> QED
  BY <1>3, <1>5 DEF BestInv, ReviewInv

LEMMA RepartitionOwners ==
    ASSUME AttributionInv, AttributionTypeOK', NEW i \in Indices, Repartition(i)
    PROVE  (OwnerInv /\ TakenInv /\ BestInv /\ ReviewInv)'
<1>1. PICK keep \in SUBSET Seen(disks[i]), new \in SUBSET (Parts \ used),
           guid \in {GuidOf(BestView(disks[i]))} \cup (Guids \ used) :
        LET copy == [guid |-> guid, parts |-> keep \cup new,
                     header |-> "sound", array |-> "sound"]
        IN  /\ guid # Zero
            /\ disks' = [disks EXCEPT ![i].main = copy, ![i].secondary = copy]
            /\ used' = used \cup new \cup {guid}
  BY DEF Repartition
<1> DEFINE copy == [guid |-> guid, parts |-> keep \cup new,
                    header |-> "sound", array |-> "sound"]
           fresh == (new \cup {guid}) \ used
<1>2. disks' = [disks EXCEPT ![i].main = copy, ![i].secondary = copy]
      /\ used' = used \cup new \cup {guid} /\ guid # Zero
  BY <1>1
<1>3. disks \in [Indices -> Disk] /\ disks[i] \in Disk
  BY DEF AttributionInv, TypedInv, AttributionTypeOK
<1>4. keep \subseteq IdsOn(disks[i]) /\ (guid \in IdsOn(disks[i]) \/ guid \notin used)
  BY <1>1, <1>3, SeenIs
<1>5. Ids(copy) \subseteq IdsOn(disks[i]) \cup fresh
  BY <1>1, <1>4 DEF Ids
<1> HIDE DEF copy
<1>6. disks'[i].main = copy /\ disks'[i].secondary = copy
      /\ disks'[i].geometry = disks[i].geometry
      /\ \A j \in Indices : j # i => disks'[j] = disks[j]
  BY <1>2, <1>3 DEF Disk
<1>7. IdsOn(disks'[i]) \subseteq IdsOn(disks[i]) \cup fresh
  BY <1>5, <1>6 DEF IdsOn
<1>8. used' = used \cup fresh /\ fresh \cap used = {}
  BY <1>2
<1>9. at' = "main" /\ files' = files /\ cloned' = cloned
  BY DEF Repartition, Change, screen
<1>10. /\ \A j \in Indices : disks'[j].geometry = disks[j].geometry
       /\ \A j \in Indices : j # i => IdsOn(disks'[j]) = IdsOn(disks[j])
  BY <1>6
<1> HIDE DEF fresh
<1> QED
  BY <1>7, <1>8, <1>9, <1>10, ChangeSteps

LEMMA OthersOwners ==
    ASSUME AttributionInv, AttributionTypeOK', NEW i \in Indices,
           Damage(i) \/ Leaves(i) \/ Returns(i)
    PROVE  (OwnerInv /\ TakenInv /\ BestInv /\ ReviewInv)'
<1>1. at' = "main" /\ files' = files /\ used' = used /\ cloned' = cloned
  BY DEF Damage, Leaves, Returns, Change, screen, histories
<1>2. disks \in [Indices -> Disk]
  BY DEF AttributionInv, TypedInv, AttributionTypeOK
<1>3. \A j \in Indices : /\ disks'[j].geometry = disks[j].geometry
                         /\ disks'[j].main.guid = disks[j].main.guid
                         /\ disks'[j].main.parts = disks[j].main.parts
                         /\ disks'[j].secondary.guid = disks[j].secondary.guid
                         /\ disks'[j].secondary.parts = disks[j].secondary.parts
  <2>1. CASE Damage(i)
    BY <1>2, <2>1 DEF Damage, Disk, Copy
  <2>2. CASE Leaves(i) \/ Returns(i)
    BY <1>2, <2>2 DEF Leaves, Returns, Disk
  <2> QED
    BY <2>1, <2>2
<1>4. \A j \in Indices : IdsOn(disks'[j]) = IdsOn(disks[j])
  BY <1>3 DEF IdsOn, Ids
<1>5. {} \cap used = {} /\ used' = used \cup {} /\ IdsOn(disks'[i]) \subseteq IdsOn(disks[i]) \cup {}
  BY <1>1, <1>4
<1> QED
  BY <1>1, <1>3, <1>4, <1>5, ChangeSteps

LEMMA BackupOwners ==
    ASSUME AttributionInv, AttributionTypeOK', RunBackup
    PROVE  (OwnerInv /\ TakenInv /\ BestInv /\ ReviewInv)'
<1>1. PICK k \in Indices : files' = files \cup {Captured(k)}
  BY DEF RunBackup
<1>2. disks' = disks /\ used' = used /\ cloned' = cloned /\ at' = "main"
  BY DEF RunBackup, screen, histories
<1>3. \A i \in Indices : IdsOf(i)' \subseteq IdsOf(i)
  BY <1>1, <1>2, DiskIds, OneMore DEF AttributionInv
<1>4. OwnerInv'
  BY <1>1, <1>2, <1>3 DEF AttributionInv, OwnerInv
<1>5. TakenInv'
  BY <1>1, <1>2, CapturedIs DEF AttributionInv, TypedInv, AttributionTypeOK, TakenInv
<1> QED
  BY <1>2, <1>4, <1>5 DEF BestInv, ReviewInv

LEMMA AuthoriseOwners ==
    ASSUME AttributionInv, AttributionTypeOK', NEW a \in chosen, Authorise(a)
    PROVE  (OwnerInv /\ TakenInv /\ BestInv /\ ReviewInv)'
<1>0. PICK t : t = target
  OBVIOUS
<1>1. PICK done \in SUBSET {"main", "secondary"} :
        /\ disks' = [disks EXCEPT ![t].main = IF "main" \in done THEN a.main ELSE @,
                                  ![t].secondary = IF "secondary" \in done
                                                        THEN a.secondary ELSE @]
        /\ cloned' = (cloned \/ (done # {} /\ t # a.origin))
  BY <1>0 DEF Authorise
<1>2. at' = "main" /\ used' = used /\ (files' = files \/ files' = files \cup {Captured(t)})
  BY <1>0 DEF Authorise, Home
<1>3. /\ disks \in [Indices -> Disk] /\ t \in Indices /\ a \in files /\ a \in Archive
      /\ \A f \in files : f.origin \in Indices
  BY <1>0 DEF Authorise, AttributionInv, TypedInv, AttributionTypeOK, Archive
<1>4. /\ \A i \in Indices : i # t => disks'[i] = disks[i]
      /\ disks'[t].geometry = disks[t].geometry
      /\ disks'[t].main = IF "main" \in done THEN a.main ELSE disks[t].main
      /\ disks'[t].secondary = IF "secondary" \in done THEN a.secondary
                                    ELSE disks[t].secondary
  BY <1>1, <1>3 DEF Disk
<1>5. /\ IdsOn(disks'[t]) \subseteq IdsOn(disks[t]) \cup IdsOn(a)
      /\ done = {} => IdsOn(disks'[t]) = IdsOn(disks[t])
  BY <1>4 DEF IdsOn
<1>6. IdsOn(a) \subseteq IdsOf(a.origin) /\ a.origin \in Indices
  BY <1>3 DEF IdsOf
<1>7. \A i \in Indices : IdsOn(disks'[i]) \subseteq IdsOf(i) =>  IdsOf(i)' \subseteq IdsOf(i)
  <2> TAKE i \in Indices
  <2> HAVE IdsOn(disks'[i]) \subseteq IdsOf(i)
  <2>1. CASE files' = files
    <3>1. IdsOn(disks'[i]) \subseteq IdsOf(i) \cup {}
      OBVIOUS
    <3> QED
      BY <2>1, <3>1, SameFiles
  <2>2. CASE files' = files \cup {Captured(t)}
    BY <1>3, <2>2, OneMore DEF AttributionInv
  <2> QED
    BY <1>2, <2>1, <2>2
<1>8. \A i \in Indices : i # t => IdsOf(i)' \subseteq IdsOf(i)
  BY <1>4, <1>7, DiskIds
<1>9. IdsOf(t)' \subseteq IdsOf(t) \cup IdsOn(a)
  <2> SUFFICES ASSUME NEW x, (x \in IdsOf(t))'
               PROVE  x \in IdsOf(t) \cup IdsOn(a)
    OBVIOUS
  <2>1. x \in IdsOn(disks'[t]) \/ \E f \in files' : f.origin = t /\ x \in IdsOn(f)
    BY IdsOfIs
  <2>2. IdsOn(Captured(t)) = IdsOn(disks[t])
    BY <1>3, CapturedIs
  <2>3. x \in IdsOn(disks[t]) \cup IdsOn(a) \/ \E f \in files : f.origin = t /\ x \in IdsOn(f)
    BY <1>2, <1>5, <2>1, <2>2
  <2> QED
    BY <2>3, IdsOfIs
<1>10. \A i \in Indices : IdsOf(i)' \subseteq used'
  <2> TAKE i \in Indices
  <2>1. IdsOf(i) \subseteq used /\ IdsOn(a) \subseteq used
    BY <1>6 DEF AttributionInv, OwnerInv
  <2> QED
    BY <1>2, <1>8, <1>9, <2>1
<1>11. ~cloned' => \A i \in Indices : IdsOf(i)' \subseteq IdsOf(i)
  <2> SUFFICES ASSUME ~cloned' PROVE IdsOf(t)' \subseteq IdsOf(t)
    BY <1>8
  <2>1. CASE done = {}
    BY <1>3, <1>5, <1>7, <2>1, DiskIds
  <2>2. CASE t = a.origin
    BY <1>6, <1>9, <2>2
  <2> QED
    BY <1>1, <2>1, <2>2
<1>12. ~cloned' => ~cloned
  BY <1>1
<1>13. OwnerInv'
  <2>1. ASSUME ~cloned', NEW i \in Indices, NEW j \in Indices, i # j
        PROVE  IdsOf(i)' \cap IdsOf(j)' = {}
    BY <1>11, <1>12, <2>1 DEF AttributionInv, OwnerInv
  <2> QED
    BY <1>10, <2>1 DEF OwnerInv
<1>14. \A f \in files' : /\ f.guid \in {Zero} \cup IdsOn(f)
                         /\ f.geometry = disks[f.origin].geometry /\ f.origin \in Indices
  BY <1>2, <1>3, CapturedIs DEF AttributionInv, TakenInv
<1>15. TakenInv'
  BY <1>4, <1>14 DEF TakenInv
<1> QED
  BY <1>2, <1>13, <1>15 DEF BestInv, ReviewInv

LEMMA AttributionStep ==
    ASSUME AttributionInv, [AttributionNext]_attributionVars
    PROVE  AttributionInv'
<1>1. TypedInv'
  BY TypedStep DEF AttributionInv
<1>2. AttributionTypeOK'
  BY <1>1 DEF TypedInv
<1> DEFINE Rest == OwnerInv /\ TakenInv /\ BestInv /\ ReviewInv
<1>3. ASSUME RunBackup PROVE Rest'
  BY <1>2, <1>3, BackupOwners
<1>4. ASSUME RunRestore PROVE Rest'
  BY <1>4, StaySteps DEF RunRestore
<1>12. ASSUME Leave PROVE Rest'
  BY <1>12, StaySteps DEF Leave, Home
<1>5. ASSUME NEW a \in files, Choose(a) PROVE Rest'
  BY <1>5, StaySteps DEF Choose, AttributionInv, BestInv
<1>6. ASSUME NEW i \in Indices, PickDisk(i) PROVE Rest'
  BY <1>6, StaySteps DEF PickDisk, Restorable, AttributionInv, BestInv
<1>7. ASSUME NEW i \in Indices, Repartition(i) PROVE Rest'
  BY <1>2, <1>7, RepartitionOwners
<1>8. ASSUME NEW i \in Indices, Damage(i) \/ Leaves(i) \/ Returns(i) PROVE Rest'
  BY <1>2, <1>8, OthersOwners
<1>9. ASSUME NEW a \in chosen, Authorise(a) PROVE Rest'
  BY <1>2, <1>9, AuthoriseOwners
<1>10. ASSUME UNCHANGED attributionVars PROVE Rest'
  BY <1>10, StaySteps DEF attributionVars, screen, Stay, AttributionInv, BestInv, ReviewInv
<1> HIDE DEF Rest
<1>11. Rest'
  BY <1>3, <1>4, <1>5, <1>6, <1>7, <1>8, <1>9, <1>10, <1>12 DEF AttributionNext
<1> QED
  BY <1>1, <1>11 DEF AttributionInv, Rest

LEMMA AttributionAlways == AttributionSpec => []AttributionInv
<1>1. AttributionInit => AttributionInv
  BY StartTyped, OwnersStart DEF AttributionInv
<1>2. AttributionInv /\ [AttributionNext]_attributionVars => AttributionInv'
  BY AttributionStep
<1> QED
  BY <1>1, <1>2, PTL DEF AttributionSpec

-----------------------------------------------------------------------------
(* What is said of a snapshot                                              *)

\* Without a clone nothing of a snapshot is on another disk than its own.
LEMMA NothingElsewhere ==
    ASSUME AttributionInv, ~cloned, NEW a \in files, NEW i \in Indices, i # a.origin
    PROVE  Match(a, disks[i]) # "SameDisk" /\ Shared(a, disks[i]) = {}
<1>1. a \in Archive /\ a.origin \in Indices /\ disks[i] \in Disk
  BY DEF AttributionInv, TypedInv, AttributionTypeOK, Archive
<1>2. IdsOn(a) \cap IdsOn(disks[i]) = {}
  <2>1. IdsOn(a) \subseteq IdsOf(a.origin) /\ IdsOn(disks[i]) \subseteq IdsOf(i)
    BY DEF IdsOf
  <2> QED
    BY <1>1, <2>1 DEF AttributionInv, OwnerInv
<1>3. Shared(a, disks[i]) = {}
  BY <1>1, <1>2, SeenIs, EntriesAre DEF Shared
<1>4. ~SameGuid(a, disks[i])
  <2>1. a.guid \in {Zero} \cup IdsOn(a)
    BY DEF AttributionInv, TakenInv
  <2> QED
    BY <1>1, <1>2, <2>1, SeenIs DEF SameGuid
<1>5. ~HalfShared(a, disks[i])
  <2>1. Cardinality(Shared(a, disks[i])) = 0
    BY <1>3, FS_EmptySet
  <2>2. IsFiniteSet(Entries(a))
    BY <1>1, EntriesAre, PartsAssumption, FS_Subset
  <2>3. Entries(a) # {} => Cardinality(Entries(a)) \in Nat /\ Cardinality(Entries(a)) # 0
    BY <2>2, FS_EmptySet, FS_CardinalityType
  <2> QED
    BY <2>1, <2>3 DEF HalfShared
<1> QED
  BY <1>3, <1>4, <1>5 DEF Match

\* "This snapshot is this disk's own" is true: as long as no disk was made like
\* another by a restore, a snapshot shown as a disk's own was taken of it.
THEOREM OwnIsTrue == AttributionSpec => []OwnIsOwn
<1>1. AttributionInv => OwnIsOwn
  <2> SUFFICES ASSUME AttributionInv, at = "browse", ~cloned,
                      NEW a \in files, Claimed(a) = "SameDisk"
               PROVE  best[a] = a.origin
    BY DEF OwnIsOwn
  <2>1. best[a] \in 0 .. N
    BY DEF AttributionInv, TypedInv, AttributionTypeOK
  <2>2. best[a] \in Indices /\ Match(a, disks[best[a]]) = "SameDisk"
    BY <2>1, NAssumption DEF Claimed, Indices
  <2> QED
    BY <2>2, NothingElsewhere
<1> QED
  BY <1>1, AttributionAlways, PTL

\* A damaged disk with a valid copy left on it, not repartitioned since, still has
\* its snapshots.
THEOREM DamagedKeepsItsOwn == AttributionSpec => []DamageCostsNoClaim
<1>1. AttributionInv => DamageCostsNoClaim
  <2> SUFFICES ASSUME AttributionInv, at = "browse", ~cloned, NEW a \in files,
                      disks[a.origin].reads,
                      \E c \in {disks[a.origin].main, disks[a.origin].secondary} : IsValid(c),
                      a.guid # Zero, a.guid = BestView(disks[a.origin]).guid
               PROVE  Claimed(a) = "SameDisk" /\ best[a] = a.origin
    BY DEF DamageCostsNoClaim
  <2> DEFINE o == a.origin
  <2>1. a \in Archive /\ o \in Indices /\ disks[o] \in Disk
    BY DEF AttributionInv, TypedInv, AttributionTypeOK, Archive
  <2>2. IsValid(BestView(disks[o]))
    BY DEF BestView
  <2>3. SameGuid(a, disks[o])
    BY <2>2 DEF SameGuid, GuidOf, IsValid
  <2>4. Match(a, disks[o]) = "SameDisk"
    BY <2>3 DEF Match, AttributionInv, TakenInv
  <2>5. Fits(a, o)
    BY <2>4 DEF Fits
  <2>6. Cardinality(Shared(a, disks[o])) \in Nat
    <3>1. Shared(a, disks[o]) \subseteq Parts
      BY <2>1, EntriesAre DEF Shared
    <3> QED
      BY <3>1, PartsAssumption, FS_Subset, FS_CardinalityType
  <2>7. \A i \in Indices : i # o =>
            Match(a, disks[i]) # "SameDisk" /\ Cardinality(Shared(a, disks[i])) = 0
    BY NothingElsewhere, FS_EmptySet
  <2> HIDE DEF o
  <2>8. Best(a) = o
    BY <2>1, <2>4, <2>5, <2>6, <2>7, BestIsTheOne
  <2>9. best[a] = o
    BY <2>8 DEF AttributionInv, BestInv
  <2>10. o # 0
    BY <2>1, NAssumption DEF Indices
  <2> QED
    BY <2>4, <2>9, <2>10 DEF Claimed, o
<1> QED
  BY <1>1, AttributionAlways, PTL

\* Nobody is led to restore to a wrong disk unawares: without a clone about, a
\* restore to a disk the snapshot was not taken of is reviewed with the note.
THEOREM ForeignAlwaysNoted == AttributionSpec => []ForeignIsNoted
<1>1. AttributionInv => ForeignIsNoted
  <2> SUFFICES ASSUME AttributionInv, at = "review", ~cloned,
                      NEW a \in chosen, target # a.origin
               PROVE  Noted(a)
    BY DEF ForeignIsNoted
  <2>1. a \in files /\ target \in Indices
    BY DEF AttributionInv, TypedInv, AttributionTypeOK
  <2>2. Match(a, disks[target]) # "SameDisk"
    BY <2>1, NothingElsewhere
  <2>3. a.geometry = disks[target].geometry
    BY DEF AttributionInv, ReviewInv
  <2> QED
    BY <2>2, <2>3 DEF Noted, Match
<1> QED
  BY <1>1, AttributionAlways, PTL
=============================================================================
