# TLA+ models of EFI Boot Fixer

EFI Boot Fixer is a UEFI application that inspects, repairs, saves and restores
GPT partition tables and the firmware's boot variables on a machine that no
longer boots. `crates/gptcore` holds the decisions (no I/O, no UEFI);
`crates/bootfixr` holds the program: block devices, files, NVRAM, screens. It is
one sequential program, without threads. What makes it hard is what surrounds
it: power goes between any two blocks, a device caches and reorders writes, a
write fails half way, a volume goes away, a button keeps repeating, another
system wrote something odd before. And nearly all of it happens once, on the
last good copy of something.

## 1. The system

| Component | State it keeps | Operations | Hard behaviour | What makes it correct |
|---|---|---|---|---|
| Reading tables (`header.rs`, `entry.rs`, `mbr.rs`, `layout.rs`, `repair.rs`) | none; reads a disk | `read_table`, `assess`, `analyze`, `inspect` | tables that are half right; a header that is authentic but not usable | the verdict never leads to a write that loses the table it was based on |
| Applying a plan (`repair.rs` `apply`, `disk.rs`, `blockdev.rs`) | the device, its write cache | write, flush, stop at the first error | power cuts, failing steps, torn arrays, reordering | barriers where the order matters |
| Repair (`repair.rs` `plan`) | a plan | `run_repair` | interruption and re-run from whatever is left | the readable table survives; re-runs converge |
| Prevention (`prevent.rs`) | a plan | `run_prevent` | two headers changed one after the other, on a healthy disk; the writer that caused the damage | both copies stay valid; the half-done state is recognised |
| GPT snapshots (`backup.rs`) | snapshot files | capture, restore | a snapshot of a damaged disk; a disk that changed since; a cut between two copies | a usable table throughout; the replaced table was saved |
| Files and volumes (`store.rs`, `names.rs`) | directories of numbered files | save to several destinations, list, load | volumes that come and go, full numberings, torn files | what the operator was told is saved is there and is offered |
| Boot variables (`bootopt.rs`, `bootcfg.rs`, `nvram.rs`) | NVRAM; one copy per session | register, default, boot once, back up, restore | refused writes, walks cut short, reset between two writes | nothing overwritten by accident; a copy before the first change |
| Screens (`ui/mod.rs`, `gfx/mod.rs`) | the firmware's key buffer, place in the sequence, display mode | menu, page, sequence, message, display, mode question | auto-repeat into the next screen, a screen nobody can see | a write only after the whole sequence; a picture somebody can read |
| ESP scan, boot now (`espscan.rs`, `main.rs`) | the list of loaders | walk, list, start | deep or corrupt directory trees, unreadable volumes | no loader missed in silence; what is started is what was listed |
| Whose snapshot is it (`backup.rs` `compare`, `main.rs` `attribute`) | the list of snapshots and disks | attribute, choose, warn | disks repartitioned, damaged, swapped or cloned since the snapshot | a snapshot called a disk's own is; a foreign one never goes without a note |
| Session (`main.rs`, `selfdev.rs`) | `esp_lost`, the scan, the watchdog, the cached framebuffer | main menu, every operation's path to its write, loaders, reboot, shutdown | the exclusive open takes the launch volume away; a loader changes anything and comes back | what is overwritten was saved as it was; plans are of the table they are applied to |
| Menus and scrolling (`ui/mod.rs`) | selected row, window | `step`, `run_menu`, `page`, View | rows that do not fit; a grid that changes under a screen | the selected row is shown; no line of a page is passed by |
| Console and framebuffer (`gfx/`, `ui/term.rs`) | the extent in force, grid, cells, what is believed to be shown | draw, flush, turn, resize, set a mode | a mode that fails after it was set, and an old one that does not come back | writes stay inside the mode in force; what is left out of a flush is on the panel |
| Overview, boot view, diagnostics, reports, SMBIOS, glyphs, CRC, host tools | none | reading, formatting, drawing | | not modelled: no state of their own |

How they interact: the menus of `main.rs` call one operation at a time. An
operation reads a disk or NVRAM, decides (gptcore), shows the plan on a page,
may save a copy through the store, asks for the confirmation sequence, and only
then applies the plan. After a failure or a reset the operator starts again, and
the next run knows nothing but what is on the device. The modules share state
along exactly these lines: Repair, Prevent and Snapshot run over one disk
(Apply) and Recurrence composes two of them; Session composes the operations of
one run of the program, with a table for what a plan makes of a disk; Display
composes the menus with the console they are drawn on.

## 2. The modules

```
Gpt --- Apply --- Repair (implements TwoCopies) ----------- RepairProofs
          |         |                                        |     |
          |   Prevent --- Recurrence (both, and the writer) -+     |
          \------ Snapshot ------------------------------ SnapshotProofs
Viewport --- Display (an instance of Console; implements Viewport) --- DisplayProofs
BootVars --- BootVarsProofs      EspScan --- EspScanProofs
Session --- SessionProofs        Screens --- ScreensProofs
Store, Attribution --- StoreProofs
```

* **Gpt** - what a disk is and what the tool reads in it. A disk is a function
  from block addresses to contents. `IsValid`, `HeaderIsAuthentic`,
  `OnlyWrongAlternate`, `CheckStructure`, `Recognized`, `Assess` and `Analyze`
  follow the functions of the same name. A checksum *is* the sequence of blocks
  it covers, so the CRC is injective; the defects of a header's own bytes are
  one flag `sound`. The length of an array is counted in blocks.
* **Apply** - `repair::apply` over a device with a volatile write cache. `disk` is
  what a read returns, `medium` what is durable. A write changes `disk`, a flush
  copies it to `medium`, a failing write leaves any subset of its blocks, and a
  power cut keeps any subset of what is in flight. One block is atomic.
* **Repair** - `RepairPlan` is `repair::plan`; `RunRepair` is one run of the menu
  item. The snapshot that `run_repair` saves first writes nothing to the disk
  under repair and is in Store (`ChooseLaunch`).
* **TwoCopies** - what a repair promises, without blocks, plans or caches: a table
  kept in two copies, of which only a broken main one is ever rebuilt, and only
  into what the second holds. `Copies` in Repair is the refinement mapping; it
  maps the medium, so that it is what a reader finds after a power cut.
* **Prevent** - `Applicable` is `prevent::assess`, `PreventPlan` is
  `prevent::plan`. The module has no next-state relation of its own: prevention
  is checked where it is used, in Recurrence.
* **Recurrence** - Repair and Prevent on one disk, against the writer `prevent.rs`
  infers from the damage. That writer is outside the program: it puts the main
  array immediately below the first usable block.
* **Snapshot** - `Capture`, `Restorable`, `RestorePlan` and the copy saved before a
  restore. A snapshot is a set of chunks by role. A save is atomic here: a torn
  file fails its CRC and is not offered, and torn files are modelled in Store.
  `heard` is a history variable: the headers, on the disk and in the snapshot,
  that had a usable range to speak of when a restore was planned.
* **Store** - one directory per volume; numbers are chosen over every attached
  volume; a save goes to each destination in turn and any of them may fail.
  Volumes come and go at any time, and other machines change their files
  (but not in the middle of a save).
* **BootVars** - NVRAM as a function of names, every operation that writes it and
  the funnel `authorise_and_write` they share. Each variable is written
  atomically, may be refused, and the machine may be reset in between. `KeptIn`
  is the filter of `plan_register`, as a recursive function.
* **Screens** - `held` is the button that is down, `queue` what the firmware has
  buffered. A screen is put up after `drain` (Show), and the press still held
  repeats into it: such a press is marked `old`. Time appears as polls of the
  mode question.
* **EspScan** - `OpenVolume`, `Visit` and the rest are one pass of
  `espscan::scan`; a directory is a node of a graph, which on a corrupt
  filesystem has cycles. `BootNow` is the start of a loader.
* **Attribution** - `Match`, `Better` and `Best` are `Comparison::verdict` and the
  loop of `attribute`; `Entries`, `BestView` and `Seen` are which copy of a table
  each side is read from, legible or not. Between two uses of the program disks
  are repartitioned, damaged and taken away. `cloned` is a history variable: two
  disks were alike at first, or a snapshot went to a disk that is not its own.
* **Session** - one run of the program. A table is a number, so that two contents
  of a disk are never confused; `scan` is what an operation planned from, `launch`
  the volume the program came from, which `OpenExclusive` may take away. `files`
  are the copies that were saved: each has the headers of the scan it was made
  from and the arrays as they were read after it, or lacks them, because
  `capture` leaves out an array it cannot read and reads another than the one at
  hand where a header that is out of place points (`Captured`). The automatic
  copy of a repair or a restore may lack them too, and then asks nothing: only a
  header block that cannot be read, or a file that is not written, is a question
  (`AutoSnapshotFails`). `LoaderRuns` may change tables, mode and
  watchdog, and `LoaderReturns` is the way back to the menu.
* **Viewport** - the window of `run_menu` and of `page`. Each pass of their loops up
  to the wait is one `Draw`; the height is asked for again every time, and may be
  another (`Resize`, `CloserLook`). `seen` is a history variable: how far down a
  page its lines have been on the screen.
* **Console** - the grid laid out in the extent of the mode in force, `cells` (what
  the next flush should show), `shown` (what the panel is believed to show) and
  `glass` (what it does). A mode is `drawable`, and `sound` when its buffer is as
  large as it says once it is set, which only setting it tells.
* **Display** - Console's actions behind the screens of Viewport: View opens the
  display screen or a closer look, what is chosen there changes the grid, and the
  screen below is drawn again for what the grid has come to.

`MC*.tla` give the constants values; `MCGpt` is the twelve-block disk the disk
modules share. Definitions preceded by "Mutant" are forms of the next definition
that carry a plausible bug: no specification uses them, and putting one in place
of the definition it precedes makes the property it is paired with fail.

## 3. The runs

| Run | Bounds | Shows |
|---|---|---|
| `repair` | 12 blocks, arrays of two blocks; 3 MBRs x 5 main headers x 5 arrays x 3 x 6 secondaries and eight moved secondaries; two faults | the table survives, the header follows its array, partitions are untouched, a valid main GPT is never lost, each step is one of TwoCopies, re-running converges |
| `recurrence` | the same geometry, 386 disks with four gaps on either header; three faults, the writer at any moment between operations | a pair of valid copies stays one, the main header is lowered first, the table survives the writer, and the damage ends with the gap closed |
| `snapshot` | 31 disks, nine snapshots, two saved files, two faults | restores, interrupted and repeated, of every snapshot on every disk |
| `boot_vars` | two slots, two loaders, four stores, one reset, two copies | nothing dangling is made, nothing replaced, the first change is saved |
| `store` | two volumes, three numbers, two files read, three snapshots, two outside changes | numbering, partial saves, what is offered |
| `screens` | eight presses, a buffer of one, two polls per question, two modes of which one is visible | the sequence gates writes, the picture comes back, the question ends |
| `esp_scan` | 128 directory graphs of four directories, a limit of two levels, one directory cut short, up to three volumes | nothing is missed in silence, and what is started was listed |
| `session` | two disks, three tables, two copies, one loader, three modes | plans are current, what is overwritten was captured as far as it could be read, a lost launch volume is explained, the watchdog and the display around a loader |
| `display` | five modes, of which two fail once set and one cannot be drawn in; three cell sizes, four turns; six screens; one cell | the selected row, the lines of a page, the diff between cells and panel, and that the screens only meet heights they have room on |
| `attribution` | two disks of one size or two, one snapshot at a time, two outside changes, five partitions | what is said of whose a snapshot is, and what is said before a restore |
| `screens_discrete`, `snapshot_retry` | as their siblings | a sentence of the documentation the code does not keep (section 5) |

Every property of the passing runs has a mutant in `PROJECT.json` that breaks it.
The type invariants hold in the same instances; they are left out of the runs,
because every one of them is proved.

Why the bounds are enough. An array of two blocks is the smallest a write can
tear; the twelve-block disk has room for a gap, for three partition blocks and
for arrays at the usual and at unusual places. Two faults allow an interrupted
run, an interrupted second run and a third one; Recurrence takes three because
the half-done state of a prevention comes in two forms. Two slots suffice for
"free", "taken" and "named by the order but empty". Three numbers make the numbering run out, with
two files read a directory holds more than is offered. Eight presses are one to
reach the sequence, its five, and two to open and leave the display screen. A
limit of two levels has directories at, above and below it; MAX_DEPTH is eight,
and the proof of section 4 is for any limit. Three tables in Session are one for
the disk as it was, one for what a write made of it and one for what a loader did
in between; its two disks and its modes are interchangeable (symmetry). Two copies
are one of an earlier table beside one of the table at hand, or one that is whole
beside one that is not. One cell
suffices in Display, because no action treats two cells differently; its modes
are the panel of a Steam Deck, upright, a 1920x1080 one, another of that very
size whose buffer is too small, a smaller one like it and one without a buffer.
In Attribution three partitions are the fewest of which less and more than half
can be shared, and two changes allow a disk to be damaged and another to be made
like it.

Fairness. A plan that is being applied goes on by itself (weak fairness of
`ApplyStep`): `apply` is a loop without waits. The operator who wants a repair
or a prevention runs it again after an interruption (weak fairness of
`RunRepair`, `RunPrevent`; strong fairness of `RunPrevent` in Recurrence, where
the writer disables it again and again and the operator does not put it off for
ever). Faults are bounded and unfair, the writer is unfair. `try_mode` and
`confirm_mode` run on a timer whatever is pressed. BootVars, Store, Snapshot,
EspScan, Session, Display and Attribution state safety only and need none.

Assumptions that could be argued about:

* A block is written whole or not at all; a CRC tells any two contents apart; one
  NVRAM variable is atomic; no other machine touches a volume during a save. Of a
  block written twice between two flushes a power cut keeps the last version or
  none; no plan of the program does that.
* `MaxRead` of Store stands for both limits of a listing, 64 files and 16 MiB of
  them (`store.rs:338`): both end it at some file, in the order of the names.
* Somebody who sees no picture presses nothing; on the screens of Screens Up and
  Down do the same.
* No array of one copy lies in the way of the other's, nor of a header:
  `SourceApart`, `ArraysApart` and `Separated` except the disks where one does,
  because no line of the code excludes them. `FilesAssumption`: a snapshot on the
  volumes has the chunks and the sizes a decoded file has. `RoomAssumption`: a
  screen's introduction, details, frame and one row fit every height it is drawn
  for. `GridsAssumption`: `Grids` holds the
  heights of the sizes that fit; where a mode turned a quarter fits none, the
  smallest size is taken (section 5), and `Grids` must hold that height too.
* Setting the watchdog succeeds; a loader may do anything but read the program's
  memory; read-only screens change nothing.
* Whether a mode's buffer is large enough does not change; a `SetMode` that the
  firmware refuses leaves the mode in force. What is drawn in an empty extent
  nobody sees, so Display leaves that redraw out.
* A GUID made anew was never used before. Damage to an array loses all of its
  entries.

## 4. What is proved

TLAPS checks the following for every value of the constants, under the named
assumptions of the modules only (`GeometryAssumption`, `PartsAssumption`,
`DisksAssumption`, `SlotsAssumption`, `RootAssumption`, ...), which TLC evaluates
in every run. Every safety property of the passing runs is among them.

| Theorem | Says |
|---|---|
| `RepairProofs!TypeCorrect` | type correctness of Repair |
| `RepairProofs!RepairLeavesPartitions` | `PartitionsUntouched` |
| `RepairProofs!RepairKeepsTable` | `RecoverableTableKept` |
| `RepairProofs!RepairOrdersWrites` | `HeaderAfterArray` |
| `RepairProofs!RepairNeverLosesMain` | `MainNeverLost` |
| `RepairProofs!RepairImplementsTwoCopies` | `ImplementsTwoCopies` |
| `RepairProofs!RepairSparesLastTable` | the last readable table stays, as TwoCopies promises |
| `RepairProofs!RepairEndsTheWork` | a repair that comes to its end has left a durable, valid main GPT and nothing to repair |
| `RepairProofs!PairIsKept` | `PairSurvives` of Recurrence |
| `RepairProofs!TableIsKept` | `TableSurvives` of Recurrence |
| `RepairProofs!MainIsLoweredFirst` | `MainLoweredFirst` of Recurrence |
| `RepairProofs!PreventionEndsTheWork` | a prevention that comes to its end has left two durable, valid copies with the gap closed in both |
| `SnapshotProofs!SnapshotTyped` | type correctness of Snapshot |
| `SnapshotProofs!SpokenPartitionsStay` | `SpokenPartitionsUntouched` |
| `SnapshotProofs!RestoreInstallsWhole` | `RestoreInstalls` |
| `SnapshotProofs!RestoreOrdersWrites` | `RestoredHeaderAfterArray` |
| `SnapshotProofs!RestoreKeepsUsableTable` | `SettledTableThroughout` |
| `BootVarsProofs!BootVarsTyped` | type correctness of BootVars |
| `BootVarsProofs!SessionSavesFirst` | `FirstChangeSaved` |
| `BootVarsProofs!RegisterAdds` | `RegisterOnlyAdds` |
| `BootVarsProofs!NothingLeftDangling` | `NoNewGap` |
| `BootVarsProofs!OrderLosesNothing` | `OrderKeepsSlots` |
| `StoreProofs!StoreTyped` | type correctness of Store |
| `StoreProofs!NameStaysFree` | `NameIsFree` |
| `StoreProofs!LaterIsHigher` | `NumbersInOrder` |
| `StoreProofs!OneNameEverywhere` | `OneNameOneSnapshot` |
| `StoreProofs!SavedStaysOffered` | `SavedIsOffered` |
| `StoreProofs!AttributionTyped` | type correctness of Attribution |
| `StoreProofs!OwnIsTrue` | `OwnIsOwn` |
| `StoreProofs!DamagedKeepsItsOwn` | `DamageCostsNoClaim` |
| `StoreProofs!ForeignAlwaysNoted` | `ForeignIsNoted` |
| `ScreensProofs!ScreensTyped` | type correctness of Screens |
| `ScreensProofs!WritesAreAuthorised` | `WriteIsAuthorised` |
| `ScreensProofs!PictureStaysReadable` | `PictureReadable` |
| `EspScanProofs!ScanTyped` | type correctness of EspScan, and the bound of the walk |
| `EspScanProofs!ScanMissesNothing` | `NoneMissed` |
| `EspScanProofs!ScanListsWhatIsThere` | `ListedIsThere` |
| `SessionProofs!SessionTyped` | type correctness of Session |
| `SessionProofs!SessionPlansAreCurrent` | `PlanIsCurrent` |
| `SessionProofs!SessionCapturesOverwritten` | `OverwrittenIsCaptured` |
| `SessionProofs!SessionExplainsLoss` | `LossIsExplained` |
| `SessionProofs!SessionSparesMenus` | `WatchdogSparesMenus` |
| `SessionProofs!SessionDrawsInTheModeLeft` | `DrawsInTheModeLeft` |
| `DisplayProofs!SelectionIsShown` | type correctness of Viewport and `SelectedShown` |
| `DisplayProofs!FooterStaysClear` | `ClearOfFooter`: nothing is drawn on the key hints |
| `DisplayProofs!PagesAreReadWhole` | `NothingSkipped` |
| `DisplayProofs!DisplayImplementsViewport` | `ImplementsViewport`, so the three above hold on the console |
| `DisplayProofs!ConsoleTyped` | type correctness of Console, in Display |
| `DisplayProofs!DisplayWritesInForce` | `WritesOnlyInForce` |
| `DisplayProofs!DisplayBelievesTrue` | `ShownIsTrue` |

*Repair.* None of the properties is inductive: they speak of the medium and say
nothing of the plan. The invariant `IInv` adds that whatever differs from
`disk0`, on the disk or on the medium, was written by a step of the plan
computed from `disk0` (`OnlyWrittenBy(RepairSteps(disk0))`). The heart is that
re-planning from any such disk gives steps of the same plan: the secondary the
plan reads from is not among the blocks it writes, `SourceApart` excepted, and
its header changes only in the alternate pointer. `RecoverableTableKept` asks for
a *readable* table: a disk whose main header could not be read, or was none, has
only the table it showed to keep. Its proof needs that a readable table is some
array's contents (`ReadableTable`). The order theorems
strengthen `IInv` with what is durable at each step of the plan (`OInv`: once
the header is being written the array is on the medium) and with the validity
of the main table on it (`MInv`). The module begins with the lemmas about
writes, flushes and torn writes that all of it cites, and SnapshotProofs too.
`RepairEndsTheWork` is about the attempt at hand alone, from whatever disk it was
planned: `AttemptInv` says that the steps done are on the disk. It is the half of
`RepairConverges` that needs no fairness: with it the property rests on a plan
going on by itself and on the operator starting it once more after the last fault.

*Refinement.* `MInv` and `IInv` again: a step changes at most one block of the
medium's main copy, or the whole of it from what the plan wrote, and the
secondary keeps table, place and geometry as long as the array being written is
not its own (`exposed` otherwise, where TwoCopies allows it to go).

*Recurrence.* Here the disk a plan was made from is not `disk0`: the writer and
earlier operations have been at it. `PlanInv` says of whatever plan is under way
which of three it is, what it was made from and how much of it is on the disk and
on the medium. For `PairSurvives` the disk must agree with the medium (`Agree`):
two valid copies there, the same arrays, and only headers that differ in the
usable range. `TableInv` lists block by block what a disk that started with one
table may hold (`MayHold`): the writer changes the main array, but the secondary
array is beyond its reach. `LoweredInv` says that a lowered secondary header means
that prevention is over (`Closed`): the main header is lowered on disk and
medium, and no plan is left that writes a header.
`PairSurvives` allows the main copy's table to become the second's, and no other:
a torn write of a repair may complete an array that the main header on the disk,
of the table before, describes; that copy is valid until the next step of the
repair replaces its header. `PreventionEndsTheWork` is the half of
`RecurrenceEnds` that needs no fairness, from `PlanInv`.

*Snapshot.* Restores of different snapshots may follow each other unfinished, so
`SnapshotInv` says of each block, on the disk and on the medium, that it is the
first disk's or was written by a step of some snapshot restored, and that no such
step writes where a header of `heard` speaks for the partitions. The statement is
about the headers that spoke when the restore was planned: where two disagree
each protects its own range, and with several snapshots restored a block is
spared by one header of each. `LandInv` knows the plan at hand step by step: what
has been done is on the disk, what a flush has followed is on the medium; it gives
`RestoreInstalls`. `OrderInv`, with a single snapshot restored, says that a header
that is not the first disk's has its array in place in cache and medium alike, so
a second attempt finds the first one's order kept. `SafeInv` says which copy can
be read: while nothing is being restored one is `Sound` on the medium and the same
in the cache; during a restore it is the copy not being replaced (`Spared`), which
changes from one to the other once the first is durable, and a copy that is
`Sound` has a readable table (`ReadableTable`). This is where plans from
the cache break it (`unsettled`, section 5).

*Store.* `StoreInv` follows a save: while it still has a destination to write,
its number is above every other there and on all that could be counted, and its
snapshot is nowhere but where it was written. Then a later snapshot has a higher
number, and a name stands for one snapshot on the volumes that every number was
chosen with in view.

*Attribution.* `OwnerInv`: the GUIDs on a disk and on the snapshots taken of it
were given out, and as long as nothing was cloned each to one disk. New GUIDs are
fresh, damage and restores to the own disk add none. Then nothing of a snapshot
is found elsewhere, and the loop of `attribute`, unfolded step by step
(`BestRuns`), keeps the one disk it is recognised on (`BestIsTheOne`), wherever it
stands in the scan.

*BootVars.* `SavedInv` says that a session that has not taken its copy has not
changed the store; `RegisterInv` that the slot of a registration in progress is
empty until its first write. `PointInv` says of the writes still to be made that
they name only what is there: an order holds what the order holds, and one slot
more whose entry exists or is written first; a restore has put back all its
entries before it gets to a name that may point at one (`EntriesFirst`, from what
the filter `KeptIn` keeps of the order of names).

*Screens.* `GateInv` follows each press of the sequence from the button through
the firmware's buffer to the grant: the last reads are the part of the sequence
entered so far, old presses come first and are of one button, and a screen opened
over the sequence leaves its place alone. `SightInv`: a mode in question was
entered from one that can be seen, and nothing was pressed since in one that
cannot.

*EspScan.* `NoneMissed` speaks of a finished scan. What every step keeps is
`ScanClosed`: a directory that was read has its loaders listed, and each of its
subdirectories was read or is waiting. With nothing waiting, the directories
read are closed under "subdirectory of" and hold every reachable directory.
`ThereInv` says that every directory waiting is one of the open volume's, so
what is listed is on it.

*Session.* `WriteInv`: between the scan of an operation and its write the scan is
of the disks as they are, and a copy is kept, or waived, from the moment the
sequence may be entered (`Kept`: the headers of that table, and its arrays or
none). It is inductive because a loader runs from the menu only, where no
operation is under way: so the arrays `auto_snapshot` reads are of the table that
was scanned, and every copy of a table stays a copy of that table. That the
arrays are there cannot be shown, because the code does not insist on it
(section 5). `LossInv`: the flag is set wherever the volume is gone. The table
numbers make "the same table" an equality that later writes cannot restore by
accident.

*Display.* Every action of Viewport ends with `Draw`, so the invariant `Drawn` is
what one `Draw` establishes from any earlier window: the arithmetic of the
budget is in `MenuWindow` and `PageWindow`. The console's invariant `Laid` says
that the extent is that of the mode in force, and that where there is one the grid
was laid out in it in a size that fits or in the smallest. With it every grid a
screen meets again is one of `Grids`. `CellsTyped` adds to it the types of the
grid, which an empty extent keeps from before, and of the cells. `ShownIsTrue` is
inductive by itself.

Only model-checked: what needs fairness (`RepairConverges`, `RecurrenceEnds`,
`QuestionEnds`), which is outside the prover; of the first two the safety half is
proved. Those halves, `RepairFinishes` and `PreventionFinishes`, are stated in
RepairProofs and listed in no run. The two properties of the violating runs,
`LastPressIsDiscrete` and `UsableTableThroughout`, are false.

## 5. Where code and documentation part

Two runs refute a sentence of the documentation; `PROJECT.json` quotes it.

* `screens_discrete`: the last press of the confirmation sequence can be the
  auto-repeat of the A that left the display screen.
* `snapshot_retry`: after a failed step, a restore plans from the device's cache
  and may replace first the only copy the medium holds.

Further observations, met while modelling and not stated as runs:

* `repair.rs:437` - both headers share one flush, so a corrected secondary may be
  durable before the main header, or its wrong pointer may survive. The table
  is kept either way.
* `header.rs:318`, `repair.rs:411` - nothing checks that the secondary array sits
  below its header; writing the main array may then overwrite the source.
  `SourceApart` excepts such disks.
* `RecoverableTableKept` needs its second alternative: a torn array write can
  revive the table the old main header described.
* `ui/mod.rs:1002` - `docs/display.md:106` says that a confirmation a held button
  can give is no confirmation; the A that chose a mode in the list, still held,
  repeats into the question and keeps it (nothing is drained after `SetMode`).
* `bootopt.rs:256` - a registration may take a slot a dangling BootOrder names, so
  its first write alone is bootable, against `docs/boot.md:257`.
* `prevent.rs:132` - the proposed block is counted from the main array only, so a
  secondary array in the gap ends inside the usable range.
* `backup.rs:370` - capture lets a header with a bad checksum veto where another
  header's array lies; `backup.rs:915` - restore compares an array chunk with
  its header by length only. Together a snapshot can hold an array from the
  conventional place beside a header that points elsewhere, although
  `docs/backups.md:128` promises that a header is only restored together with
  the array it points at. `RestoreInstalls` is stated for snapshots whose arrays
  are where their headers point (`Whole`).
* `main.rs:702`, `backup.rs:408` - an automatic copy that lacks an array, or holds
  another than the one about to be replaced because a header that is out of place
  points there, is reported as saved, and nobody is asked. `docs/safety.md:38`
  says that no repair or restore starts without the sectors it is about to
  rewrite having been saved, and that a failure to save them is a question.
  `OverwrittenIsCaptured` therefore promises no more than what `capture` can read.
* `bootcfg.rs:275` - restoring a partial copy may leave BootOrder naming an absent
  slot (`NoNewGap` excepts it). A lower-case `Boot000a` is enumerated, and read
  back as `Boot000A`.
* `store.rs:338` - beyond 64 files the newest snapshots are the ones not offered
  (documented in `docs/backups.md:158`). Deleting the file with the highest
  number lets that number be used again.
* `espscan.rs:203-214` - a directory that does not open, or whose reading stops
  with an error, is silently taken for its beginning, although `espscan.rs:195`
  says that `truncated` is set when a directory was left unvisited. `NoneMissed`
  is stated for scans without such an error. It speaks of the scan's own record,
  which the screen of the scan shows; the one that starts a loader
  (`main.rs:2552`) scans again and shows the list alone.
* `term.rs:66` - after a loader, a mode the program cannot draw in leaves the
  console it had cached before in place, where at the start the firmware's text
  console would be used; `ui/mod.rs:198` says the cached framebuffer cannot be
  trusted. `DrawsInTheModeLeft` is stated for drawable modes.
* `ui/mod.rs:640` - a menu's window is only moved to keep the selection inside, so
  on a grid that has grown its first rows may stay above it with no indicator
  drawn; `page` brings its window back.
* `main.rs:1354`, `ui/mod.rs:534` - the message that lists unreadable snapshots can
  be longer than a screen, and a message does not scroll. Messages are left out
  of `ClearOfFooter`.
* `console.rs:214` - a quarter turn of 800x600 leaves 75 columns, although
  `docs/display.md:143` says that no choice can leave the menus too little room.
* `gfx/mod.rs:367` - if neither the new mode nor the old one can be had, the extent
  is empty and nothing is drawn any more; the comment there calls it no worse
  than a refusal, and a turn then lays out a grid of no cells. The invariants of
  Console hold in that state, and Display does not leave it by drawing.
* `main.rs:1270` - a disk that shares one partition more takes the place of one
  the snapshot is recognised on. `backup.rs:1216` says "no partition is
  recognisably the same" of fewer than half. `backup.rs:273` - the secondary
  array stands in only for one that could not be read, so a snapshot of a disk
  with a damaged main table lists no partitions although its secondary is whole.
* `main.rs:574` - the overview ends with "Nothing here looks broken" under
  findings it marks as bad, if none of them has advice; `nvram.rs:48` - a boot
  order that cannot be read makes every entry an orphan there.

## 6. Not modelled

* The overview, the boot view and the reports read and print. A report file is
  numbered and saved as a snapshot is (Store, and `SaveReport` in Session).
* Glyphs, colours, pixels and the text backend; the widths of lines.
* Diagnostics, SMBIOS, Secure Boot state, GUID and CRC arithmetic, metadata; the
  encodings of headers, snapshots, copies and load options. A header's own
  defects, overflow of its array's length among them, are one flag.
* The discovery of volumes (the variable `online` of Store) and the ways a block
  device is matched with the launch volume, but for `Covers`.
* The tools that make test images.

## 7. Plan

1. **Abstract specifications**: a store as a set of copies, implemented by Store;
   a restore as a switch from one table to another, implemented by Snapshot.
2. **Proofs** of those refinements.
3. **Pure algorithms**: array lengths and LBA arithmetic at 64-bit width; the
   encodings of chunks and variables with their truncation checks.
