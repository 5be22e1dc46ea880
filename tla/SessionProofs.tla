---------------------------- MODULE SessionProofs ----------------------------
(* Proofs about Session, for any disks, modes and bounds.                  *)
EXTENDS Session, TLAPS

\* The screens between the scan an operation plans from and its write.
Planned == {"target", "review", "saving", "unsaved", "confirm", "execute"}

\* By then the operation has its disk and, to restore, its copy.
Chosen ==
    /\ at \in Planned \ {"target"} => op.disk \in Disks
    /\ at \in Planned /\ op.name = "restore" => op.copy \in Copy

Typed == TypeOK /\ Chosen

\* The scan is of the disk as it is, and a copy is kept from the moment the
\* sequence may be entered, or was waived.
WriteInv ==
    /\ at \in Planned => scan = tables
    /\ at \in {"confirm", "execute"} /\ op.name # "prevent" => op.waived \/ Kept(op.disk)

\* The flag is set wherever the volume was taken away, and warned of where it is set.
LossInv ==
    /\ launch = "displaced" /\ home.known => espLost
    /\ at \in {"list", "destinations"} /\ espLost => op.warned

\* A loader is met with the watchdog armed and left with it off, in its own mode.
LoaderInv == WatchdogSparesMenus /\ DrawsInTheModeLeft

-----------------------------------------------------------------------------
LEMMA NoOpTyped == NoOp \in Operation
  BY DEF NoOp, Operation, Names

LEMMA OpenedTyped ==
  ASSUME NEW name \in Names
  PROVE  /\ [NoOp EXCEPT !.name = name] \in Operation
         /\ \A disk \in Disks : [NoOp EXCEPT !.name = name, !.disk = disk] \in Operation
  BY DEF NoOp, Operation, Names

LEMMA WrittenTyped ==
  ASSUME TypeOK, NEW place \in Places, NEW disk \in Disks, NEW headers \in Tables,
         NEW capture \in Captured(disk, headers)
  PROVE  Written(place, capture) \in Copy
<1>1. tables[disk] \in Tables
  BY DEF TypeOK
<1> QED  BY <1>1 DEF Captured, Written, Copy

LEMMA NotScannedTyped == NotScanned \in [Disks -> Tables]
  BY BoundsAssumption DEF NotScanned, Tables

LEMMA NewTableTyped ==
  ASSUME TypeOK, NEW disk \in Disks, NewTable(disk)
  PROVE  tables' \in [Disks -> Tables] /\ used' \in Tables
  BY BoundsAssumption DEF TypeOK, NewTable, Tables

-----------------------------------------------------------------------------
LEMMA InitTyped == Init => TypeOK
<1> SUFFICES ASSUME Init PROVE TypeOK
  OBVIOUS
<1>1. tables \in [Disks -> Tables]
  BY NotScannedTyped DEF Init, NotScanned
<1>2. used \in Tables /\ loads \in 0..MaxLoads
  BY BoundsAssumption DEF Init, Tables
<1> QED  BY <1>1, <1>2, NoOpTyped, NotScannedTyped DEF Init, TypeOK, Screens

LEMMA NextTyped == Typed /\ [Next]_vars => Typed'
<1> SUFFICES ASSUME Typed, [Next]_vars PROVE Typed'
  OBVIOUS
<1> USE DEF machine, program, Typed, Chosen, Planned, TypeOK, Screens
<1>1. CASE Start
  BY <1>1 DEF Start, DetectDisplay
<1>2. ASSUME NEW name \in {"report", "backup", "restore"}, OpenFiles(name) PROVE Typed'
  <2>1. op' \in Operation
    BY <1>2, OpenedTyped DEF OpenFiles, Names
  <2> QED  BY <1>2, <2>1 DEF OpenFiles, FirstScreen
<1>3. CASE AcceptWarning
  <2>1. op' \in Operation
    BY <1>3 DEF AcceptWarning, Operation
  <2> QED  BY <1>3, <2>1 DEF AcceptWarning, FirstScreen
<1>4. CASE SaveBackup
  <2>1. files' \subseteq Copy
    <3>1. PICK disk \in Disks, places \in SUBSET Places :
            \E capture \in Captured(disk, tables[disk]) :
              files' = files \cup {Written(p, capture) : p \in places}
      BY <1>4 DEF SaveBackup
    <3>2. PICK capture \in Captured(disk, tables[disk]) :
            files' = files \cup {Written(p, capture) : p \in places}
      BY <3>1
    <3>3. \A p \in places : Written(p, capture) \in Copy
      BY WrittenTyped
    <3> QED  BY <3>2, <3>3
  <2> QED  BY <1>4, <2>1, NoOpTyped, NotScannedTyped DEF SaveBackup, Return
<1>5. CASE ChooseCopy
  <2>1. PICK copy \in files : op' = [op EXCEPT !.copy = copy]
    BY <1>5 DEF ChooseCopy
  <2>2. op' \in Operation /\ op'.copy \in Copy
    BY <2>1 DEF Operation
  <2> QED  BY <1>5, <2>2 DEF ChooseCopy, Scan
<1>6. CASE ChooseTarget
  <2>1. PICK disk \in Disks : op' = [op EXCEPT !.disk = disk]
    BY <1>6 DEF ChooseTarget
  <2>2. op' \in Operation /\ op'.disk \in Disks /\ op'.name = op.name /\ op'.copy = op.copy
    BY <2>1 DEF Operation
  <2> QED  BY <1>6, <2>2 DEF ChooseTarget
<1>7. ASSUME NEW name \in {"repair", "prevent"}, OpenDisk(name) PROVE Typed'
  <2>1. PICK disk \in Disks : op' = [NoOp EXCEPT !.name = name, !.disk = disk]
    BY <1>7 DEF OpenDisk
  <2>2. op' \in Operation /\ op'.disk \in Disks /\ op'.name # "restore"
    BY <2>1, OpenedTyped DEF Names, NoOp
  <2> QED  BY <1>7, <2>2 DEF OpenDisk, Scan
<1>8. CASE AcceptPlan
  BY <1>8 DEF AcceptPlan, Goto
<1>9. CASE AutoSnapshot
  <2>1. files' \subseteq Copy
    <3>1. op.disk \in Disks /\ scan[op.disk] \in Tables
      BY <1>9 DEF AutoSnapshot
    <3>2. PICK capture \in Captured(op.disk, scan[op.disk]) :
            files' = files \cup {Written("launch", capture)}
      BY <1>9 DEF AutoSnapshot
    <3>3. Written("launch", capture) \in Copy
      BY <3>1, WrittenTyped DEF Places
    <3> QED  BY <3>2, <3>3
  <2> QED  BY <1>9, <2>1 DEF AutoSnapshot, Goto
<1>10. CASE AutoSnapshotFails
  BY <1>10 DEF AutoSnapshotFails, Goto
<1>11. CASE WaiveCopy
  <2>1. op' \in Operation /\ op'.disk = op.disk /\ op'.name = op.name /\ op'.copy = op.copy
    BY <1>11 DEF WaiveCopy, Operation
  <2> QED  BY <1>11, <2>1 DEF WaiveCopy
<1>12. CASE Authorise
  BY <1>12 DEF Authorise, Goto
<1>13. CASE SaveReport \/ Leave
  BY <1>13, NoOpTyped, NotScannedTyped DEF SaveReport, Leave, Return
<1>14. CASE Execute
  <2>1. tables' \in [Disks -> Tables] /\ used' \in Tables
    <3>1. CASE NewTable(op.disk)
      BY <1>14, <3>1, NewTableTyped DEF Execute
    <3>2. CASE RestoredTable
      BY <1>14, <3>2 DEF Execute, RestoredTable, Copy
    <3> QED  BY <1>14, <3>1, <3>2 DEF Execute
  <2> QED  BY <1>14, <2>1, NoOpTyped, NotScannedTyped
           DEF Execute, OpenExclusive, Covers, Return
<1>15. CASE SetMode
  BY <1>15 DEF SetMode
<1>16. CASE BootNow
  BY <1>16, BoundsAssumption DEF BootNow, Goto
<1>17. CASE LoaderRuns
  BY <1>17, NewTableTyped, ModesAssumption DEF LoaderRuns
<1>18. CASE LoaderReturns
  BY <1>18 DEF LoaderReturns, DetectDisplay
<1>19. CASE Quit
  BY <1>19 DEF Quit, Goto
<1>20. CASE UNCHANGED vars
  BY <1>20 DEF vars
<1> QED  BY <1>1, <1>2, <1>3, <1>4, <1>5, <1>6, <1>7, <1>8, <1>9, <1>10, <1>11, <1>12,
            <1>13, <1>14, <1>15, <1>16, <1>17, <1>18, <1>19, <1>20 DEF Next

-----------------------------------------------------------------------------
\* What the screens before a write established stays true until the write.
LEMMA NextWriteInv == Typed /\ WriteInv /\ [Next]_vars => WriteInv'
<1> SUFFICES ASSUME Typed, WriteInv, [Next]_vars PROVE WriteInv'
  OBVIOUS
<1> USE DEF machine, program, WriteInv, Kept, Planned
<1>1. CASE AutoSnapshot
  <2>1. PICK capture \in Captured(op.disk, scan[op.disk]) :
          Written("launch", capture) \in files'
    BY <1>1 DEF AutoSnapshot
  <2>2. op' = op /\ tables' = tables /\ scan' = scan /\ at = "saving" /\ at' = "confirm"
    BY <1>1 DEF AutoSnapshot, Goto
  <2>3. scan[op.disk] = tables[op.disk]
    BY <2>2
  <2>4. capture.disk = op.disk /\ capture.headers = tables[op.disk]
        /\ capture.arrays \subseteq {tables[op.disk]}
    BY <2>3 DEF Captured
  <2>5. Kept(op.disk)'
    BY <2>1, <2>2, <2>4 DEF Written
  <2> QED  BY <2>2, <2>5
<1>2. CASE WaiveCopy
  BY <1>2 DEF WaiveCopy, Typed, TypeOK, Operation
<1>3. CASE AcceptPlan \/ AutoSnapshotFails \/ Authorise
  BY <1>3 DEF AcceptPlan, AutoSnapshotFails, Authorise, Goto
<1>4. CASE ChooseCopy \/ ChooseTarget \/ \E name \in {"repair", "prevent"} : OpenDisk(name)
  BY <1>4 DEF ChooseCopy, ChooseTarget, OpenDisk, Scan
<1>5. CASE SaveBackup \/ SaveReport \/ Leave \/ Execute
  BY <1>5 DEF SaveBackup, SaveReport, Leave, Execute, Return
<1>6. CASE SetMode
  BY <1>6 DEF SetMode
<1>7. CASE \/ Start \/ AcceptWarning \/ \E name \in {"report", "backup", "restore"} : OpenFiles(name)
  BY <1>7 DEF Start, AcceptWarning, OpenFiles, FirstScreen
<1>8. CASE BootNow \/ LoaderRuns \/ LoaderReturns \/ Quit
  BY <1>8 DEF BootNow, LoaderRuns, LoaderReturns, Quit, Goto
<1>9. CASE UNCHANGED vars
  BY <1>9 DEF vars
<1> QED  BY <1>1, <1>2, <1>3, <1>4, <1>5, <1>6, <1>7, <1>8, <1>9 DEF Next

\* Only a write takes the volume away, and it sets the flag as it does.
LEMMA NextLossInv == Typed /\ LossInv /\ [Next]_vars => LossInv'
<1> SUFFICES ASSUME Typed, LossInv, [Next]_vars PROVE LossInv'
  OBVIOUS
<1> USE DEF machine, program, LossInv
<1>1. CASE Execute
  BY <1>1 DEF Execute, OpenExclusive, Covers, Return
<1>2. CASE \E name \in {"report", "backup", "restore"} : OpenFiles(name)
  BY <1>2 DEF OpenFiles
<1>3. CASE AcceptWarning
  BY <1>3 DEF AcceptWarning, FirstScreen, Typed, TypeOK, Operation
<1>4. CASE SaveBackup \/ SaveReport \/ Leave
  BY <1>4 DEF SaveBackup, SaveReport, Leave, Return
<1>5. CASE AcceptPlan \/ AutoSnapshot \/ AutoSnapshotFails \/ Authorise
  BY <1>5 DEF AcceptPlan, AutoSnapshot, AutoSnapshotFails, Authorise, Goto
<1>6. CASE Start \/ WaiveCopy \/ ChooseCopy \/ ChooseTarget \/ SetMode
  BY <1>6 DEF Start, WaiveCopy, ChooseCopy, ChooseTarget, SetMode
<1>7. CASE \E name \in {"repair", "prevent"} : OpenDisk(name)
  BY <1>7 DEF OpenDisk
<1>8. CASE BootNow \/ LoaderRuns \/ LoaderReturns \/ Quit
  BY <1>8 DEF BootNow, LoaderRuns, LoaderReturns, Quit, Goto
<1>9. CASE UNCHANGED vars
  BY <1>9 DEF vars
<1> QED  BY <1>1, <1>2, <1>3, <1>4, <1>5, <1>6, <1>7, <1>8, <1>9 DEF Next

\* Watchdog, mode and backend change where the program starts, sets a mode, or
\* hands the machine to a loader; every way out of the last ends with all three set.
LEMMA NextLoaderInv == LoaderInv /\ [Next]_vars => LoaderInv'
<1> SUFFICES ASSUME LoaderInv, [Next]_vars PROVE LoaderInv'
  OBVIOUS
<1> USE DEF machine, program, LoaderInv, WatchdogSparesMenus, DrawsInTheModeLeft
<1>1. CASE Start \/ LoaderReturns
  BY <1>1 DEF Start, LoaderReturns, DetectDisplay
<1>2. CASE SetMode
  BY <1>2 DEF SetMode
<1>3. CASE BootNow \/ LoaderRuns \/ Quit
  BY <1>3 DEF BootNow, LoaderRuns, Quit, Goto
<1>4. CASE SaveBackup \/ SaveReport \/ Leave \/ Execute
  BY <1>4 DEF SaveBackup, SaveReport, Leave, Execute, Return
<1>5. CASE AcceptPlan \/ AutoSnapshot \/ AutoSnapshotFails \/ WaiveCopy \/ Authorise
  BY <1>5 DEF AcceptPlan, AutoSnapshot, AutoSnapshotFails, WaiveCopy, Authorise, Goto
<1>6. CASE AcceptWarning \/ ChooseCopy \/ ChooseTarget
  BY <1>6 DEF AcceptWarning, FirstScreen, ChooseCopy, ChooseTarget
<1>7. CASE \E name \in {"report", "backup", "restore"} : OpenFiles(name)
  BY <1>7 DEF OpenFiles, FirstScreen
<1>8. CASE \E name \in {"repair", "prevent"} : OpenDisk(name)
  BY <1>8 DEF OpenDisk
<1>9. CASE UNCHANGED vars
  BY <1>9 DEF vars
<1> QED  BY <1>1, <1>2, <1>3, <1>4, <1>5, <1>6, <1>7, <1>8, <1>9 DEF Next

-----------------------------------------------------------------------------
Inv == Typed /\ WriteInv /\ LossInv

LEMMA InitInv == Init => Inv
  BY InitTyped DEF Inv, Typed, Chosen, WriteInv, LossInv, Planned, Init

LEMMA InvHolds == Spec => []Inv
<1>1. Inv /\ [Next]_vars => Inv'
  BY NextTyped, NextWriteInv, NextLossInv DEF Inv
<1> QED  BY InitInv, <1>1, PTL DEF Spec

\* Every variable keeps its type, and an operation ends with its screens.
THEOREM SessionTyped == Spec => []TypeOK
<1>1. Inv => TypeOK
  BY DEF Inv, Typed
<1> QED  BY InvHolds, <1>1, PTL

\* A plan is applied to the table it was made from, whatever came before.
THEOREM SessionPlansAreCurrent == Spec => []PlanIsCurrent
<1>1. Inv => PlanIsCurrent
  BY DEF Inv, WriteInv, Planned, PlanIsCurrent
<1> QED  BY InvHolds, <1>1, PTL

\* Of what a repair or a restore overwrites there is a copy of that very table, as
\* far as it could be read, or the operator's waiver.
THEOREM SessionCapturesOverwritten == Spec => OverwrittenIsCaptured
<1>1. Inv => [Execute /\ op.name # "prevent" => op.waived \/ Kept(op.disk)]_vars
  BY DEF Inv, WriteInv, Execute
<1> QED  BY InvHolds, <1>1, PTL DEF OverwrittenIsCaptured

\* Files are never looked for, nor saved, on a volume this session took away
\* without a warning first.
THEOREM SessionExplainsLoss == Spec => []LossIsExplained
<1>1. Inv => LossIsExplained
  BY DEF Inv, LossInv, LossIsExplained
<1> QED  BY InvHolds, <1>1, PTL

LEMMA LoaderInvHolds == Spec => []LoaderInv
<1>1. Init => LoaderInv
  BY DEF Init, LoaderInv, WatchdogSparesMenus, DrawsInTheModeLeft
<1> QED  BY <1>1, NextLoaderInv, PTL DEF Spec

\* No menu is ever left waiting under the watchdog armed for a loader.
THEOREM SessionSparesMenus == Spec => []WatchdogSparesMenus
<1>1. LoaderInv => WatchdogSparesMenus
  BY DEF LoaderInv
<1> QED  BY LoaderInvHolds, <1>1, PTL

\* At the start and after a loader the program draws in the mode in force, if it can.
THEOREM SessionDrawsInTheModeLeft == Spec => []DrawsInTheModeLeft
<1>1. LoaderInv => DrawsInTheModeLeft
  BY DEF LoaderInv
<1> QED  BY LoaderInvHolds, <1>1, PTL
=============================================================================
