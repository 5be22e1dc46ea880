------------------------------- MODULE Session -------------------------------
(***************************************************************************)
(* One run of the program (main.rs, selfdev.rs): the menus, the screens    *)
(* each operation goes through before it writes a partition table, what a  *)
(* write does to the volume the program itself lives on, and a loader that *)
(* is started from the menu and may come back.                             *)
(*                                                                         *)
(* A table is a number: every different content a disk's tables ever had   *)
(* has its own.  What a plan writes is Repair's, Prevent's and Snapshot's; *)
(* how a copy gets its file is Store's.                                    *)
(***************************************************************************)
EXTENDS Naturals, FiniteSets

CONSTANTS
    Disks,          \* the fixed, writable, whole disks
    NoDisk,         \* none of them: the program was launched from elsewhere
    Modes,          \* graphics modes the program can draw in
    Undrawable,     \* a mode it cannot draw in, or no graphics at all
    Text,           \* the firmware's console as the backend
    LoaderModes,    \* the modes a loader may leave behind
    MaxTables,      \* bounds the different tables
    MaxCopies,      \* bounds the copies that are saved
    MaxLoads        \* bounds the loaders that are started

ASSUME DisksAssumption == NoDisk \notin Disks
ASSUME ModesAssumption ==
    Undrawable \notin Modes /\ Text \notin Modes /\ LoaderModes \subseteq Modes \cup {Undrawable}
ASSUME BoundsAssumption == MaxTables \in Nat /\ MaxCopies \in Nat /\ MaxLoads \in Nat

Tables == 0..MaxTables
Places == {"launch", "stick"}

\* A copy has both headers of one table, and its arrays, of that table or of one
\* the disk came to hold meanwhile; none where an array could not be read, or was
\* read from where a misplaced header points.
Copy == [place : Places, disk : Disks, headers : Tables, arrays : SUBSET Tables]
NoCopy == [place |-> "none"]

VARIABLES
    tables,     \* tables[d]: what disk d holds
    used,       \* the highest table number so far
    files,      \* the copies written, each of which the operator was told of
    launch,     \* the launch volume's filesystem: "up", "displaced" or "down"
    gop,        \* the graphics mode in force
    watchdog,   \* whether the firmware's watchdog is armed
    loads,      \* how many loaders were started
    home,       \* where the program was launched from, and whether it knows
    at,         \* the screen it is at
    op,         \* the operation it is in
    scan,       \* what the last scan found on each disk
    espLost,    \* esp_lost
    backend     \* BACKEND: the mode it draws in, or Text

machine == <<tables, used, files, launch, gop, watchdog, loads, home>>
program == <<at, op, scan, espLost, backend>>
vars == <<machine, program>>

NoOp == [name |-> "none", disk |-> NoDisk, copy |-> NoCopy, warned |-> FALSE, waived |-> FALSE]
Names == {"none", "report", "backup", "restore", "repair", "prevent"}
Operation == [name : Names, disk : Disks \cup {NoDisk}, copy : Copy \cup {NoCopy},
              warned : BOOLEAN, waived : BOOLEAN]

-----------------------------------------------------------------------------
(* Screens                                                                 *)

\* BootDevice::covers: with the launch device unknown, no disk is the one.
Covers(disk) == home.known /\ disk = home.disk

Goto(screen) == at' = screen /\ UNCHANGED <<op, espLost, backend>>

NotScanned == [d \in Disks |-> 0]

\* An operation ends where it was opened; its scan goes with it.
Return == at' = "menu" /\ op' = NoOp /\ scan' = NotScanned

\* Mutant: the scan is made when the program starts.
ScanOfStart == scan' = [d \in Disks |-> 0]

\* scan: every disk is analysed anew by every operation.
Scan == scan' = tables

\* Mutant: the framebuffer taken at the start is good for the session.
DetectDisplayOnce == backend' = IF gop \in Modes /\ backend = Text THEN gop ELSE backend

\* term::init, at the start and again after a loader (redisplay): a framebuffer
\* that cannot be opened leaves the backend as it was.
DetectDisplay == backend' = IF gop \in Modes THEN gop ELSE backend

\* main: the watchdog is disarmed and the display detected.
Start ==
    /\ at = "start"
    /\ at' = "menu"
    /\ watchdog' = FALSE
    /\ DetectDisplay
    /\ UNCHANGED <<tables, used, files, launch, gop, loads, home, op, scan, espLost>>

\* A screen that uses files, after the warning if the launch volume may be gone.
FirstScreen(name) == IF name = "restore" THEN "list" ELSE "destinations"

OpenFiles(name) ==
    /\ at = "menu"
    /\ op' = [NoOp EXCEPT !.name = name]
    /\ at' = IF espLost THEN "warning" ELSE FirstScreen(name)
    /\ UNCHANGED <<scan, espLost, backend, machine>>

\* warn_esp_may_be_gone, read and accepted.
AcceptWarning ==
    /\ at = "warning"
    /\ op' = [op EXCEPT !.warned = TRUE]
    /\ at' = FirstScreen(op.name)
    /\ UNCHANGED <<scan, espLost, backend, machine>>

\* capture: the headers are those of a scan, the arrays are read anew, and a copy
\* without them is a copy like any other.
Captured(disk, headers) == {[disk |-> disk, headers |-> headers, arrays |-> a] :
                               a \in {{}, {tables[disk]}}}

Written(place, capture) == [place |-> place, disk |-> capture.disk,
                            headers |-> capture.headers, arrays |-> capture.arrays]

\* run_backup: pick_disk scans, and the copy goes to every chosen destination that
\* takes it.
SaveBackup ==
    /\ at = "destinations"
    /\ op.name = "backup"
    /\ \E disk \in Disks, places \in SUBSET {p \in Places : p = "launch" => launch = "up"} :
         \E capture \in Captured(disk, tables[disk]) :
           files' = files \cup {Written(p, capture) : p \in places}
    /\ Cardinality(files') <= MaxCopies
    /\ Return
    /\ UNCHANGED <<tables, used, launch, gop, watchdog, loads, home, espLost, backend>>

\* run_report: a report is no copy of anything.
SaveReport ==
    /\ at = "destinations"
    /\ op.name = "report"
    /\ Return
    /\ UNCHANGED <<espLost, backend, machine>>

\* run_restore: what is offered is on a volume that answers; then the disks are
\* scanned.
ChooseCopy ==
    /\ at = "list"
    /\ \E copy \in files :
         /\ copy.place = "launch" => launch = "up"
         /\ op' = [op EXCEPT !.copy = copy]
    /\ Scan
    /\ at' = "target"
    /\ UNCHANGED <<espLost, backend, machine>>

ChooseTarget ==
    /\ at = "target"
    /\ \E disk \in Disks : op' = [op EXCEPT !.disk = disk]
    /\ at' = "review"
    /\ UNCHANGED <<scan, espLost, backend, machine>>

\* run_repair, run_prevent: pick_disk scans.
OpenDisk(name) ==
    /\ at = "menu"
    /\ \E disk \in Disks : op' = [NoOp EXCEPT !.name = name, !.disk = disk]
    /\ Scan
    /\ at' = "review"
    /\ UNCHANGED <<espLost, backend, machine>>

\* The plan is shown and accepted.  Prevention saves no copy.
AcceptPlan ==
    /\ at = "review"
    /\ Goto(IF op.name = "prevent" THEN "confirm" ELSE "saving")
    /\ UNCHANGED <<scan, machine>>

\* Mutant: one copy of a disk is enough for the session.
AutoSnapshotOnce ==
    /\ at = "saving"
    /\ launch = "up"
    /\ \E capture \in Captured(op.disk, scan[op.disk]) :
         files' = IF \E copy \in files : copy.disk = op.disk THEN files
                  ELSE files \cup {Written("launch", capture)}
    /\ Cardinality(files') <= MaxCopies
    /\ Goto("confirm")
    /\ UNCHANGED <<tables, used, launch, gop, watchdog, loads, home, scan>>

\* auto_snapshot: what can be read of the disk is saved on the launch volume.  A
\* copy that lacks an array is no question.
AutoSnapshot ==
    /\ at = "saving"
    /\ launch = "up"
    /\ \E capture \in Captured(op.disk, scan[op.disk]) :
         files' = files \cup {Written("launch", capture)}
    /\ Cardinality(files') <= MaxCopies
    /\ Goto("confirm")
    /\ UNCHANGED <<tables, used, launch, gop, watchdog, loads, home, scan>>

\* A header block cannot be read, or no file is written: that is a question.
AutoSnapshotFails ==
    /\ at = "saving"
    /\ Goto("unsaved")
    /\ UNCHANGED <<scan, machine>>

WaiveCopy ==
    /\ at = "unsaved"
    /\ op' = [op EXCEPT !.waived = TRUE]
    /\ at' = "confirm"
    /\ UNCHANGED <<scan, espLost, backend, machine>>

\* confirm_sequence.
Authorise ==
    /\ at = "confirm"
    /\ Goto("execute")
    /\ UNCHANGED <<scan, machine>>

\* Every screen can be left, an empty list too; a disk that cannot be analysed,
\* a plan that does not fit it or has nothing to do end the operation as well.
Leave ==
    /\ at \in {"warning", "destinations", "list", "target", "review", "unsaved", "confirm"}
    /\ Return
    /\ UNCHANGED <<espLost, backend, machine>>

-----------------------------------------------------------------------------
(* The write                                                               *)

\* Opening the disk exclusively disconnects the filesystem on it, or does not,
\* whether the open then succeeds or not.
OpenExclusive ==
    launch' \in IF op.disk = home.disk /\ launch = "up" THEN {"up", "displaced"} ELSE {launch}

\* apply succeeds, or leaves some other table, or could not change anything.
NewTable(disk) ==
    \/ UNCHANGED <<tables, used>>
    \/ /\ used < MaxTables
       /\ used' = used + 1
       /\ tables' = [tables EXCEPT ![disk] = used + 1]

\* Only a copy with its arrays brings its table back; one without, where
\* restore_plan takes it at all, makes another.
RestoredTable ==
    /\ op.name = "restore"
    /\ op.copy.arrays = {op.copy.headers}
    /\ tables' = [tables EXCEPT ![op.disk] = op.copy.headers]
    /\ UNCHANGED used

\* Mutant: the flag is set by the caller, once the write has succeeded.
ExecuteFlagOnSuccess ==
    /\ at = "execute"
    /\ OpenExclusive
    /\ NewTable(op.disk) \/ RestoredTable
    /\ espLost' = (espLost \/ (Covers(op.disk) /\ tables' # tables))
    /\ Return
    /\ UNCHANGED <<files, gop, watchdog, loads, home, backend>>

\* execute: the flag is set by the attempt to open; then the plan is applied.
Execute ==
    /\ at = "execute"
    /\ OpenExclusive
    /\ NewTable(op.disk) \/ RestoredTable
    /\ espLost' = (espLost \/ Covers(op.disk))
    /\ Return
    /\ UNCHANGED <<files, gop, watchdog, loads, home, backend>>

-----------------------------------------------------------------------------
(* Leaving, and coming back                                                *)

\* The display screen, reached from any other, sets another mode and draws in it.
SetMode ==
    /\ at \notin {"start", "loader", "gone"}
    /\ backend # Text
    /\ \E mode \in Modes \ {gop} : gop' = mode /\ backend' = mode
    /\ UNCHANGED <<tables, used, files, launch, watchdog, loads, home, at, op, scan, espLost>>

\* run_boot_now: the watchdog is armed before the loader is even loaded.
BootNow ==
    /\ at = "menu"
    /\ loads < MaxLoads
    /\ loads' = loads + 1
    /\ watchdog' = TRUE
    /\ Goto("loader")
    /\ UNCHANGED <<tables, used, files, launch, gop, home, scan>>

\* What a loader may do: anything.
LoaderRuns ==
    /\ at = "loader"
    /\ \E disk \in Disks : NewTable(disk)
    /\ launch' \in {launch, "up", "down"}
    /\ gop' \in {gop} \cup LoaderModes
    /\ watchdog' \in BOOLEAN
    /\ UNCHANGED <<files, loads, home, program>>

\* Mutant: only a loader that could be started has the watchdog taken off it.
LoaderReturnsArmed ==
    /\ at = "loader"
    /\ watchdog' \in {FALSE, watchdog}
    /\ at' = "menu"
    /\ DetectDisplay
    /\ UNCHANGED <<tables, used, files, launch, gop, loads, home, op, scan, espLost>>

\* It could not be loaded, or came back.
LoaderReturns ==
    /\ at = "loader"
    /\ watchdog' = FALSE
    /\ at' = "menu"
    /\ DetectDisplay
    /\ UNCHANGED <<tables, used, files, launch, gop, loads, home, op, scan, espLost>>

\* Reboot, shutdown and exit from the menu; a loader that takes over.
Quit ==
    /\ at \in {"menu", "loader"}
    /\ Goto("gone")
    /\ UNCHANGED <<scan, machine>>

Init ==
    /\ tables = [d \in Disks |-> 0]
    /\ used = 0
    /\ files = {}
    /\ launch = "up"
    /\ gop \in Modes \cup {Undrawable}
    /\ watchdog \in BOOLEAN
    /\ loads = 0
    /\ home \in [disk : Disks \cup {NoDisk}, known : BOOLEAN]
    /\ at = "start"
    /\ op = NoOp
    /\ scan = NotScanned
    /\ espLost = FALSE
    /\ backend = Text

Next ==
    \/ Start
    \/ \E name \in {"report", "backup", "restore"} : OpenFiles(name)
    \/ AcceptWarning \/ SaveBackup \/ SaveReport \/ ChooseCopy \/ ChooseTarget
    \/ \E name \in {"repair", "prevent"} : OpenDisk(name)
    \/ AcceptPlan \/ AutoSnapshot \/ AutoSnapshotFails \/ WaiveCopy \/ Authorise \/ Leave
    \/ Execute
    \/ SetMode \/ BootNow \/ LoaderRuns \/ LoaderReturns \/ Quit

Spec == Init /\ [][Next]_vars

-----------------------------------------------------------------------------
(* Properties                                                              *)

Screens == {"start", "menu", "warning", "destinations", "list", "target", "review",
            "saving", "unsaved", "confirm", "execute", "loader", "gone"}

\* Every variable keeps its type, and an operation ends with its screens.
TypeOK ==
    /\ tables \in [Disks -> Tables]
    /\ used \in Tables
    /\ files \subseteq Copy
    /\ launch \in {"up", "displaced", "down"}
    /\ gop \in Modes \cup {Undrawable}
    /\ watchdog \in BOOLEAN
    /\ loads \in 0..MaxLoads
    /\ home \in [disk : Disks \cup {NoDisk}, known : BOOLEAN]
    /\ at \in Screens
    /\ op \in Operation
    /\ scan \in [Disks -> Tables]
    /\ at \in {"start", "menu", "loader", "gone"} => op = NoOp /\ scan = NotScanned
    /\ espLost \in BOOLEAN
    /\ backend \in Modes \cup {Text}

\* What capture could get of the table on a disk is in a file: its headers, and
\* no array of another table.
Kept(disk) ==
    \E copy \in files : /\ copy.disk = disk
                        /\ copy.headers = tables[disk]
                        /\ copy.arrays \subseteq {tables[disk]}

\* Of the table a repair or a restore overwrites, as it is when the write starts,
\* there is a copy, or the operator said to go on without one: whatever the
\* session, or a loader started from it, did to the disk in the meantime.  It is
\* never a copy of an earlier table, nor one table's headers with another's
\* arrays.  It may be a copy without the arrays, and then nobody was asked.
OverwrittenIsCaptured ==
    [][Execute /\ op.name # "prevent" => op.waived \/ Kept(op.disk)]_vars

\* A plan is applied to the table it was made from: no scan outlives its
\* operation, or a loader that was started in between.
PlanIsCurrent == at = "execute" => scan[op.disk] = tables[op.disk]

\* Where a write of this session has taken the launch volume's filesystem away,
\* no screen that saves or looks for files is shown without saying so first,
\* whatever became of that write.  It takes a session that knows where it was
\* launched from.
LossIsExplained ==
    at \in {"list", "destinations"} /\ launch = "displaced" /\ home.known => op.warned

\* The watchdog resets the machine under a loader that hangs, and never under a
\* menu that waits, whether the loader was started, failed to load or came back.
WatchdogSparesMenus == watchdog => at \in {"start", "loader", "gone"}

\* At the start and after a loader, the program draws in the mode in force, that
\* loader's if it left another, wherever it can draw in it.
DrawsInTheModeLeft ==
    at \notin {"start", "loader", "gone"} /\ gop \in Modes => backend = gop
=============================================================================
