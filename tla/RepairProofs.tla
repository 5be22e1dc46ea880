---------------------------- MODULE RepairProofs ----------------------------
(***************************************************************************)
(* Theorems about Repair, for every disk geometry, every set of disks and  *)
(* every bound on faults: it keeps its types, writes no partition, loses   *)
(* no readable table, makes the main array durable before the header that  *)
(* describes it, never takes a valid main GPT away, implements TwoCopies,  *)
(* and leaves nothing to repair where it comes to its end.  Then about     *)
(* Recurrence: with repairs, preventions and the faulty writer on one disk *)
(* the table survives, two valid copies stay two valid copies, the main    *)
(* header is lowered first, and a prevention that comes to its end has     *)
(* closed the gap.  The lemmas about Apply at the start are what every     *)
(* operation built on it has in common.                                    *)
(***************************************************************************)
EXTENDS Recurrence, SequenceTheorems, TLAPS

-----------------------------------------------------------------------------
(* Types of what the model is built from                                   *)

\* What is read at a header's address is a header, if only the unsound one.
LEMMA HeaderAtType ==
    ASSUME NEW d \in Disk, NEW role \in LBA
    PROVE  HeaderAt(d, role) \in Header
<1>1. NotAHeader \in Header
  BY GeometryAssumption DEF NotAHeader, Header
<1>2. QED
  BY <1>1 DEF HeaderAt

\* The blocks of a range that ends on the device are as many blocks.
LEMMA ContentType ==
    ASSUME NEW d \in Disk, NEW lba \in Nat, NEW n \in Nat, Fits(lba, n)
    PROVE  /\ Content(d, lba, n) \in Seq(Block)
           /\ Len(Content(d, lba, n)) = n
<1>1. \A i \in 1..n : d[lba + i - 1] \in Block
  BY GeometryAssumption DEF Fits, Disk, LBA
<1>2. QED
  BY <1>1 DEF Content

\* A usable source lies on the device and is the array its header describes.
LEMMA SourceFacts ==
    ASSUME NEW d \in Disk, NEW role \in {1, LastBlock}, SoundButForAlternate(d, role)
    PROVE  LET h == HeaderAt(d, role)
           IN  /\ h \in Header
               /\ h = d[role]
               /\ h.elba \in Nat
               /\ h.elba >= 1
               /\ h.n \in 1..MaxArray
               /\ Fits(h.elba, h.n)
               /\ Content(d, h.elba, h.n) = h.crc
<1> DEFINE h == HeaderAt(d, role)
<1>1. role \in LBA
  BY GeometryAssumption DEF LBA
<1>2. h \in Header
  BY <1>1, HeaderAtType
<1>3. h.sound /\ h.n > 0 /\ h.elba >= 1 /\ Readable(d, h.elba, h.n)
      /\ Content(d, h.elba, h.n) = h.crc
  BY DEF SoundButForAlternate
<1>4. h = d[role]
  BY <1>3 DEF HeaderAt, NotAHeader
<1>5. QED
  BY <1>2, <1>3, <1>4, GeometryAssumption DEF Header, Readable

\* Writing any of the blocks of a well-formed step leaves a disk a disk.
LEMMA PutType ==
    ASSUME NEW d \in Disk, NEW step \in Step, NEW which
    PROVE  Put(d, step, which) \in Disk
<1>1. ASSUME NEW l \in LBA, l \in Spanned(step)
      PROVE  step.blocks[l - step.lba + 1] \in Block
  <2>1. l - step.lba + 1 \in 1..Len(step.blocks)
    BY <1>1 DEF Spanned, Step, LBA
  <2>2. QED
    BY <2>1 DEF Step
<1>2. QED
  BY <1>1 DEF Put, Disk

LEMMA ConcatType ==
    ASSUME NEW S, NEW s \in Seq(S), NEW t \in Seq(S)
    PROVE  s \o t \in Seq(S)
OBVIOUS

-----------------------------------------------------------------------------
(* The steps of a plan keep the types                                      *)

LEMMA AdvanceType ==
    ASSUME plan \in Seq(Step), pc \in 1..Len(plan), Advance
    PROVE  plan' \in Seq(Step) /\ pc' \in 0..Len(plan')
<1>1. CASE pc = Len(plan)
  BY <1>1 DEF Advance, Stop
<1>2. CASE pc # Len(plan)
  <2>1. plan' = plan /\ pc' = pc + 1
    BY <1>2 DEF Advance
  <2>2. QED
    BY <1>2, <2>1
<1>3. QED
  BY <1>1, <1>2

\* Whatever the plan being applied is, its steps and their interruption keep
\* the type invariant.
LEMMA ApplyKeepsType ==
    ASSUME TypeOK, ApplyStep \/ Fault
    PROVE  TypeOK'
<1> USE DEF TypeOK
<1>0. ~Idle => pc \in 1..Len(plan) /\ plan[pc] \in Step
  BY DEF Idle
<1>2. CASE WriteStep
  BY <1>0, <1>2, PutType, AdvanceType DEF WriteStep
<1>3. CASE FlushStep
  BY <1>0, <1>3, AdvanceType DEF FlushStep
<1>4. CASE FailingWrite
  BY <1>0, <1>4, PutType, FaultsAssumption DEF FailingWrite, Stop
<1>5. CASE FailingFlush
  BY <1>0, <1>5, FaultsAssumption DEF FailingFlush, Stop
<1>6. CASE PowerCut
  <2>1. medium' \in Disk
    BY <1>6 DEF PowerCut, Disk
  <2>2. QED
    BY <1>6, <2>1, FaultsAssumption DEF PowerCut, Stop
<1>7. QED
  BY <1>2, <1>3, <1>4, <1>5, <1>6 DEF ApplyStep, Fault

\* Where a plan that is being applied goes: one step on, or out.
LEMMA StepTaken ==
    ASSUME TypeOK, ~Idle, ApplyStep
    PROVE  /\ pc \in 1..Len(plan)
           /\ \/ pc' = 0
              \/ pc # Len(plan) /\ pc' = pc + 1 /\ plan' = plan
           /\ \/ /\ plan[pc].op = "write" /\ medium' = medium
                 /\ disk' = Put(disk, plan[pc], LBA)
              \/ plan[pc].op = "flush" /\ medium' = disk /\ disk' = disk
BY DEF TypeOK, Idle, ApplyStep, WriteStep, FlushStep, Advance, Stop

\* So does the start of a plan of well-formed steps.
LEMMA StartKeepsType ==
    ASSUME TypeOK, NEW steps \in Seq(Step), Len(steps) >= 1, Start(steps)
    PROVE  TypeOK'
BY DEF TypeOK, Start

-----------------------------------------------------------------------------
(* What a set of steps may have written                                    *)

\* Block l as it was before the tool first wrote, or as one of the steps of S
\* writes it.
WrittenBy(S, d, l) ==
    \/ d[l] = disk0[l]
    \/ \E s \in S : l \in Spanned(s) /\ d[l] = s.blocks[l - s.lba + 1]

\* Nothing but steps of S has ever been applied, and nothing else is planned.
OnlyWrittenBy(S) ==
    /\ plan \in Seq(S)
    /\ \A l \in LBA : WrittenBy(S, disk, l) /\ WrittenBy(S, medium, l)

LEMMA PutWritten ==
    ASSUME NEW S, NEW step \in S, NEW which, NEW d,
           \A l \in LBA : WrittenBy(S, d, l)
    PROVE  \A l \in LBA : WrittenBy(S, Put(d, step, which), l)
BY DEF Put, WrittenBy

\* A step of a plan of S, completed, failing or cut short, writes nothing else.
LEMMA ApplyKeepsWritten ==
    ASSUME TypeOK, NEW S, OnlyWrittenBy(S), ApplyStep \/ Fault
    PROVE  OnlyWrittenBy(S)'
<1> USE DEF OnlyWrittenBy
<1>0. ~Idle => plan[pc] \in S
  <2>1. pc \in Nat /\ pc <= Len(plan)
    BY DEF TypeOK
  <2>2. QED
    BY <2>1 DEF Idle
<1>1. disk0' = disk0 /\ plan' \in Seq(S)
  <2>1. disk0' = disk0 /\ (plan' = plan \/ plan' = <<>>)
    BY DEF ApplyStep, Fault, WriteStep, FlushStep, FailingWrite, FailingFlush,
           PowerCut, Advance, Stop
  <2>2. <<>> \in Seq(S)
    OBVIOUS
  <2>3. QED
    BY <2>1, <2>2
<1>2. ASSUME NEW which, disk' = Put(disk, plan[pc], which), medium' = medium, ~Idle
      PROVE  OnlyWrittenBy(S)'
  <2>1. \A l \in LBA : WrittenBy(S, Put(disk, plan[pc], which), l)
    BY <1>0, <1>2, PutWritten
  <2>2. QED
    BY <1>1, <1>2, <2>1 DEF WrittenBy
<1>3. CASE WriteStep
  BY <1>2, <1>3 DEF WriteStep
<1>4. CASE FailingWrite
  BY <1>2, <1>4 DEF FailingWrite
<1>5. CASE FlushStep
  BY <1>1, <1>5 DEF FlushStep, WrittenBy
<1>6. CASE FailingFlush
  BY <1>1, <1>6 DEF FailingFlush, WrittenBy
<1>7. CASE PowerCut
  <2>1. \A l \in LBA : medium'[l] = disk[l] \/ medium'[l] = medium[l]
    BY <1>7 DEF PowerCut
  <2>2. disk' = medium'
    BY <1>7 DEF PowerCut
  <2>3. QED
    BY <1>1, <2>1, <2>2 DEF WrittenBy
<1>8. QED
  BY <1>3, <1>4, <1>5, <1>6, <1>7 DEF ApplyStep, Fault

-----------------------------------------------------------------------------
(* The steps a plan is made of                                             *)

\* Every step MainPlan(d) may hold, whatever is in it under a condition.
MainSteps(d) ==
    LET src == HeaderAt(d, LastBlock)
    IN  {Flush, Write(0, <<ProtectiveMbr>>), Write(2, src.crc),
         Write(1, <<MainHeader(src)>>)}
        \cup {s \in {Write(LastBlock, <<CorrectedSecondary(src)>>)} :
                OnlyWrongAlternate(d, LastBlock)}

\* The verdict that rebuilds the main table has a usable, plausible source.
LEMMA MainRepairableFacts ==
    ASSUME NEW d \in Disk, Analyze(d) = "MainRepairable"
    PROVE  /\ ~IsValid(d, 1)
           /\ UsableSource(d)
           /\ SoundButForAlternate(d, LastBlock)
           /\ Assess(d, HeaderAt(d, LastBlock))
<1>1. ~IsValid(d, 1) /\ UsableSource(d) /\ Assess(d, HeaderAt(d, LastBlock))
  BY DEF Analyze
<1>2. QED
  BY <1>1 DEF UsableSource, IsValid, OnlyWrongAlternate

LEMMA MainPlanSteps ==
    ASSUME NEW d \in Disk, Analyze(d) = "MainRepairable"
    PROVE  /\ MainPlan(d) \in Seq(MainSteps(d))
           /\ Len(MainPlan(d)) >= 1
<1> DEFINE src == HeaderAt(d, LastBlock)
           A == << Write(2, Content(d, src.elba, src.n)), Flush >>
           B == When(NeedsRepair(Inspect(d)), Write(0, <<ProtectiveMbr>>))
           C == << Write(1, <<MainHeader(src)>>) >>
           D == When(OnlyWrongAlternate(d, LastBlock),
                     Write(LastBlock, <<CorrectedSecondary(src)>>))
           E == << Flush >>
           S == MainSteps(d)
<1>1. Content(d, src.elba, src.n) = src.crc
  BY MainRepairableFacts, SourceFacts
<1> DEFINE a == Write(2, src.crc)
           b == Write(0, <<ProtectiveMbr>>)
           c == Write(1, <<MainHeader(src)>>)
           e == Write(LastBlock, <<CorrectedSecondary(src)>>)
<1>2. S = {Flush, b, a, c} \cup {s \in {e} : OnlyWrongAlternate(d, LastBlock)}
  BY DEF MainSteps
<1>3. A = <<a, Flush>> /\ B = When(NeedsRepair(Inspect(d)), b) /\ C = <<c>>
      /\ D = When(OnlyWrongAlternate(d, LastBlock), e)
  BY <1>1
<1>4. MainPlan(d) = A \o B \o C \o D \o E
  BY DEF MainPlan
<1> HIDE DEF A, B, C, D, S, a, b, c, e
<1>10. A \in Seq(S) /\ C \in Seq(S) /\ E \in Seq(S)
  BY <1>2, <1>3
<1>11. B \in Seq(S)
  BY <1>2, <1>3 DEF When
<1>12. D \in Seq(S)
  <2>1. OnlyWrongAlternate(d, LastBlock) => e \in S
    BY <1>2
  <2>2. CASE OnlyWrongAlternate(d, LastBlock)
    BY <1>3, <2>1, <2>2 DEF When
  <2>3. CASE ~OnlyWrongAlternate(d, LastBlock)
    BY <1>3, <2>3 DEF When
  <2>4. QED
    BY <2>2, <2>3
<1>5. A \o B \o C \o D \in Seq(S)
  BY <1>10, <1>11, <1>12
<1>6. (A \o B \o C \o D) \o E \in Seq(S)
  BY <1>10, <1>5, ConcatType
<1>7. Len((A \o B \o C \o D) \o E) = Len(A \o B \o C \o D) + Len(E)
  BY <1>10, <1>5
<1>8. Len(E) = 1 /\ Len(A \o B \o C \o D) \in Nat
  BY <1>5
<1>9. QED
  BY <1>4, <1>6, <1>7, <1>8 DEF S

\* The two headers a repair writes are headers.
LEMMA WrittenHeadersType ==
    ASSUME NEW src \in Header
    PROVE  MainHeader(src) \in Header /\ CorrectedSecondary(src) \in Header
BY GeometryAssumption DEF MainHeader, CorrectedSecondary, Header

\* Each of those steps stays on the device.
LEMMA MainStepsType ==
    ASSUME NEW d \in Disk, Analyze(d) = "MainRepairable"
    PROVE  MainSteps(d) \subseteq Step
<1> DEFINE src == HeaderAt(d, LastBlock)
<1>1. src \in Header /\ src.crc \in Seq(Data)
  BY MainRepairableFacts, SourceFacts DEF Header
<1>2. 1 \in LBA /\ 2 \in LBA /\ 0 \in LBA /\ LastBlock \in LBA
  BY GeometryAssumption DEF LBA
<1>3. src.crc \in Seq(Block)
  BY <1>1 DEF Block
<1>4. MainHeader(src) \in Header /\ CorrectedSecondary(src) \in Header
  BY <1>1, WrittenHeadersType
<1>5. ProtectiveMbr \in Mbr
  BY DEF ProtectiveMbr, Mbr, MbrStatus
<1>6. <<ProtectiveMbr>> \in Seq(Block) /\ <<MainHeader(src)>> \in Seq(Block)
      /\ <<CorrectedSecondary(src)>> \in Seq(Block)
  BY <1>4, <1>5 DEF Block
<1>7. Flush \in Step
  BY <1>2 DEF Flush, Step
<1>8. \A lba \in LBA, blocks \in Seq(Block) : Write(lba, blocks) \in Step
  BY DEF Write, Step
<1> HIDE DEF src
<1>9. {Flush, Write(0, <<ProtectiveMbr>>), Write(2, src.crc),
       Write(1, <<MainHeader(src)>>), Write(LastBlock, <<CorrectedSecondary(src)>>)}
      \subseteq Step
  BY <1>2, <1>3, <1>6, <1>7, <1>8
<1>10. QED
  BY <1>9 DEF MainSteps, src

\* The plan of a verdict that writes is a sequence of well-formed steps.
LEMMA PlanType ==
    ASSUME NEW d \in Disk, WillWrite(Analyze(d))
    PROVE  RepairPlan(d) \in Seq(Step) /\ Len(RepairPlan(d)) >= 1
<1>1. CASE Analyze(d) = "MbrOnly"
  <2>1. Write(0, <<ProtectiveMbr>>) \in Step /\ Flush \in Step
    BY GeometryAssumption
       DEF Write, Flush, Step, LBA, ProtectiveMbr, Mbr, MbrStatus, Block
  <2>2. QED
    BY <1>1, <2>1 DEF RepairPlan, MbrPlan
<1>2. CASE Analyze(d) = "MainRepairable"
  <2>1. RepairPlan(d) = MainPlan(d)
    BY <1>2 DEF RepairPlan
  <2>2. QED
    BY <1>2, <2>1, MainPlanSteps, MainStepsType
<1>3. QED
  BY <1>1, <1>2 DEF WillWrite

-----------------------------------------------------------------------------
(* Type correctness                                                        *)

\* Spec => []TypeOK: the type invariant of the run, for every geometry.
THEOREM TypeCorrect == Spec => []TypeOK
<1>1. Init => TypeOK
  BY DisksAssumption, FaultsAssumption DEF Init, TypeOK
<1>2. TypeOK /\ [Next]_vars => TypeOK'
  <2>1. CASE TypeOK /\ RunRepair
    <3>1. disk \in Disk
      BY <2>1 DEF TypeOK
    <3>2. QED
      BY <2>1, <3>1, PlanType, StartKeepsType DEF RunRepair
  <2>2. CASE TypeOK /\ UNCHANGED vars
    BY <2>2 DEF vars, TypeOK
  <2>3. QED
    BY <2>1, <2>2, ApplyKeepsType DEF Next
<1>3. QED
  BY <1>1, <1>2, PTL DEF Spec

-----------------------------------------------------------------------------
(* Partitions are never written                                            *)

\* Every step that any attempt on a disk that started as d may apply.
RepairSteps(d) ==
    IF Analyze(d) = "MbrOnly" THEN {Flush, Write(0, <<ProtectiveMbr>>)}
    ELSE IF Analyze(d) = "MainRepairable" THEN MainSteps(d) ELSE {}

\* The inductive invariant: an attempt is planned from the disk the earlier
\* ones left behind, yet it is made of the steps the first one could have had.
IInv == TypeOK /\ OnlyWrittenBy(RepairSteps(disk0))

\* The two tables do not depend on LBA 0.
LEMMA TablesIgnoreMbr ==
    ASSUME NEW d \in Disk, NEW e \in Disk, NEW role \in {1, LastBlock},
           \A l \in LBA \ {0} : d[l] = e[l],
           SoundButForAlternate(d, role)
    PROVE  /\ HeaderAt(e, role) = HeaderAt(d, role)
           /\ SoundButForAlternate(e, role)
<1> DEFINE h == HeaderAt(d, role)
<1>1. role \in LBA \ {0}
  BY GeometryAssumption DEF LBA
<1>2. HeaderAt(e, role) = h /\ d[role] = e[role]
  BY <1>1 DEF HeaderAt
<1>3. h.elba \in Nat /\ h.elba >= 1 /\ h.n \in Nat /\ Fits(h.elba, h.n)
  BY SourceFacts, GeometryAssumption
<1>4. \A l \in h.elba..(h.elba + h.n - 1) : l \in LBA \ {0}
  BY <1>3, GeometryAssumption DEF Fits, LBA
<1>5. Readable(e, h.elba, h.n)
  BY <1>3, <1>4 DEF SoundButForAlternate, Readable
<1>6. \A i \in 1..h.n : h.elba + i - 1 \in LBA \ {0}
  BY <1>3, <1>4
<1>7. Content(e, h.elba, h.n) = Content(d, h.elba, h.n)
  BY <1>6 DEF Content
<1>8. QED
  BY <1>2, <1>5, <1>7 DEF SoundButForAlternate

\* With a valid main GPT, as long as only LBA 0 is written, a repair that
\* still has work has it in the MBR.
LEMMA ReplanMbr ==
    ASSUME NEW d \in Disk, NEW e \in Disk, Analyze(d) = "MbrOnly",
           \A l \in LBA \ {0} : d[l] = e[l], WillWrite(Analyze(e))
    PROVE  Analyze(e) = "MbrOnly"
<1>1. IsValid(d, 1)
  BY DEF Analyze
<1>2. IsValid(e, 1)
  BY <1>1, TablesIgnoreMbr DEF IsValid
<1>3. QED
  BY <1>2 DEF Analyze, WillWrite

\* Where the array of a plausible source goes: below the partitions of the
\* source, and so below its header.
LEMMA ArrayBelowPartitions ==
    ASSUME NEW d \in Disk, Analyze(d) = "MainRepairable"
    PROVE  LET src == HeaderAt(d, LastBlock)
           IN  /\ src \in Header
               /\ Len(src.crc) = src.n
               /\ src.n \in Nat
               /\ 2 + src.n <= src.first
               /\ src.first \in Nat
               /\ src.first <= LastBlock
<1> DEFINE src == HeaderAt(d, LastBlock)
<1>1. SoundButForAlternate(d, LastBlock) /\ Assess(d, src)
  BY MainRepairableFacts
<1>2. src \in Header /\ src.elba \in Nat /\ src.n \in Nat
      /\ Fits(src.elba, src.n) /\ Content(d, src.elba, src.n) = src.crc
  BY <1>1, SourceFacts, GeometryAssumption
<1>3. Len(src.crc) = src.n
  BY <1>2, ContentType
<1>4. 2 + src.n <= src.first
  BY <1>1 DEF Assess
<1>5. UsableRangeOk(src)
  BY <1>1 DEF SoundButForAlternate
<1>6. src.first \in Nat /\ src.last \in Nat
  BY <1>2 DEF Header
<1>7. QED
  BY <1>2, <1>3, <1>4, <1>5, <1>6, GeometryAssumption DEF UsableRangeOk

\* A repair of the MBR alone spans no block but its own.
LEMMA MbrSpans ==
    ASSUME NEW s \in {Flush, Write(0, <<ProtectiveMbr>>)}, NEW l \in Spanned(s)
    PROVE  l = 0
<1>1. CASE s = Flush
  BY <1>1 DEF Flush, Spanned
<1>2. CASE s = Write(0, <<ProtectiveMbr>>)
  BY <1>2 DEF Write, Spanned
<1>3. QED
  BY <1>1, <1>2

\* The blocks each step of the main plan spans.
LEMMA MainSpans ==
    ASSUME NEW d \in Disk, Analyze(d) = "MainRepairable",
           NEW s \in MainSteps(d), NEW l \in Spanned(s)
    PROVE  LET src == HeaderAt(d, LastBlock)
           IN  \/ l = 0 /\ s = Write(0, <<ProtectiveMbr>>)
               \/ l = 1 /\ s = Write(1, <<MainHeader(src)>>)
               \/ 2 <= l /\ l < 2 + src.n /\ s = Write(2, src.crc)
               \/ /\ l = LastBlock
                  /\ s = Write(LastBlock, <<CorrectedSecondary(src)>>)
                  /\ OnlyWrongAlternate(d, LastBlock)
<1> DEFINE src == HeaderAt(d, LastBlock)
<1>1. Len(src.crc) = src.n /\ src.n \in Nat
  BY ArrayBelowPartitions
<1>2. CASE s = Flush
  BY <1>2 DEF Flush, Spanned
<1>3. CASE s = Write(0, <<ProtectiveMbr>>)
  BY <1>3 DEF Write, Spanned
<1>4. CASE s = Write(1, <<MainHeader(src)>>)
  BY <1>4 DEF Write, Spanned
<1>5. CASE s = Write(2, src.crc)
  <2>1. Spanned(s) = 2..(2 + src.n - 1)
    BY <1>1, <1>5 DEF Write, Spanned
  <2>2. QED
    BY <1>1, <1>5, <2>1
<1>6. CASE /\ s = Write(LastBlock, <<CorrectedSecondary(src)>>)
           /\ OnlyWrongAlternate(d, LastBlock)
  BY <1>6, GeometryAssumption DEF Write, Spanned
<1>7. QED
  BY <1>2, <1>3, <1>4, <1>5, <1>6 DEF MainSteps

\* The source's own block holds its header, possibly corrected.
LEMMA SourceHeaderKept ==
    ASSUME NEW d \in Disk, Analyze(d) = "MainRepairable", d = disk0,
           NEW e, WrittenBy(MainSteps(d), e, LastBlock)
    PROVE  \/ e[LastBlock] = d[LastBlock]
           \/ /\ e[LastBlock] = CorrectedSecondary(HeaderAt(d, LastBlock))
              /\ OnlyWrongAlternate(d, LastBlock)
<1> DEFINE src == HeaderAt(d, LastBlock)
<1>1. CASE e[LastBlock] = d[LastBlock]
  BY <1>1
<1>2. CASE e[LastBlock] # d[LastBlock]
  <2>1. PICK s \in MainSteps(d) :
           LastBlock \in Spanned(s) /\ e[LastBlock] = s.blocks[LastBlock - s.lba + 1]
    BY <1>2 DEF WrittenBy
  <2>2. ~(LastBlock < 2 + src.n) /\ LastBlock \notin {0, 1}
    BY ArrayBelowPartitions, GeometryAssumption
  <2>3. /\ s = Write(LastBlock, <<CorrectedSecondary(src)>>)
        /\ OnlyWrongAlternate(d, LastBlock)
    BY <2>1, <2>2, MainSpans
  <2>4. QED
    BY <2>1, <2>3, GeometryAssumption DEF Write
<1>3. QED
  BY <1>1, <1>2

\* A second attempt takes its steps from those of the first.
LEMMA ReplanMain ==
    ASSUME NEW d \in Disk, Analyze(d) = "MainRepairable", d = disk0,
           NEW e \in Disk, WrittenBy(MainSteps(d), e, LastBlock),
           Analyze(e) = "MainRepairable"
    PROVE  MainSteps(e) \subseteq MainSteps(d)
<1> DEFINE src == HeaderAt(d, LastBlock)
           now == HeaderAt(e, LastBlock)
<1>1. src \in Header /\ src = d[LastBlock] /\ now = e[LastBlock]
  BY MainRepairableFacts, SourceFacts
<1>2. now = src \/ (now = CorrectedSecondary(src) /\ OnlyWrongAlternate(d, LastBlock))
  BY <1>1, SourceHeaderKept
<1>3. /\ now.crc = src.crc
      /\ MainHeader(now) = MainHeader(src)
      /\ CorrectedSecondary(now) = CorrectedSecondary(src)
  BY <1>1, <1>2 DEF Header, MainHeader, CorrectedSecondary
<1>4. OnlyWrongAlternate(e, LastBlock) => OnlyWrongAlternate(d, LastBlock)
  <2>1. CASE now = src
    BY <2>1, MainRepairableFacts DEF OnlyWrongAlternate
  <2>2. CASE now # src
    BY <1>2, <2>2
  <2>3. QED
    BY <2>1, <2>2
<1>5. QED
  BY <1>3, <1>4 DEF MainSteps

\* No attempt on a disk that an earlier one left behind has a step the first
\* attempt could not have had.
LEMMA ReplanWithin ==
    ASSUME TypeOK, NEW d, d = disk0, WillWrite(Analyze(disk)),
           \A l \in LBA : WrittenBy(RepairSteps(d), disk, l)
    PROVE  RepairPlan(disk) \in Seq(RepairSteps(d))
<1>1. d \in Disk /\ disk \in Disk
  BY DEF TypeOK
<1> DEFINE S == RepairSteps(d)
           mbr == Write(0, <<ProtectiveMbr>>)
<1>2. Analyze(disk) = "MbrOnly" /\ Flush \in S /\ mbr \in S => MbrPlan \in Seq(S)
  BY DEF MbrPlan
<1>3. CASE Analyze(d) = "MbrOnly"
  <2>1. S = {Flush, mbr}
    BY <1>3 DEF RepairSteps
  <2>2. \A l \in LBA \ {0} : d[l] = disk[l]
    <3>1. \A s \in S : \A l \in Spanned(s) : l = 0
      BY <2>1, MbrSpans
    <3>2. QED
      BY <3>1 DEF WrittenBy
  <2>3. Analyze(disk) = "MbrOnly"
    BY <1>1, <1>3, <2>2, ReplanMbr
  <2>4. QED
    BY <1>2, <2>1, <2>3 DEF RepairPlan
<1>4. CASE Analyze(d) = "MainRepairable"
  <2>1. S = MainSteps(d)
    BY <1>4 DEF RepairSteps
  <2>2. CASE Analyze(disk) = "MbrOnly"
    <3>1. Flush \in S /\ mbr \in S
      BY <2>1 DEF MainSteps
    <3>2. QED
      BY <1>2, <2>2, <3>1 DEF RepairPlan
  <2>3. CASE Analyze(disk) = "MainRepairable"
    <3>1. LastBlock \in LBA
      BY GeometryAssumption DEF LBA
    <3>2. MainSteps(disk) \subseteq S
      BY <1>1, <1>4, <2>1, <2>3, <3>1, ReplanMain
    <3>3. MainPlan(disk) \in Seq(MainSteps(disk))
      BY <1>1, <2>3, MainPlanSteps
    <3>4. MainPlan(disk) \in Seq(S)
      BY <3>2, <3>3
    <3>5. QED
      BY <2>3, <3>4 DEF RepairPlan
  <2>4. QED
    BY <2>2, <2>3 DEF WillWrite
<1>5. CASE ~WillWrite(Analyze(d))
  <2>1. S = {}
    BY <1>5 DEF RepairSteps, WillWrite
  <2>2. \A l \in LBA : disk[l] = d[l]
    BY <2>1 DEF WrittenBy
  <2>3. disk = d
    BY <1>1, <2>2 DEF Disk
  <2>4. QED
    BY <1>5, <2>3
<1>6. QED
  BY <1>3, <1>4, <1>5 DEF WillWrite

LEMMA IInvStep == IInv /\ [Next]_vars => IInv'
<1> SUFFICES ASSUME IInv, [Next]_vars PROVE IInv'
  OBVIOUS
<1> PICK d : d = disk0
  OBVIOUS
<1> PICK S : S = RepairSteps(d)
  OBVIOUS
<1>1. disk0' = disk0
  BY DEF Next, ApplyStep, Fault, WriteStep, FlushStep, FailingWrite, FailingFlush,
         PowerCut, RunRepair, Start, vars
<1>2. OnlyWrittenBy(S) /\ TypeOK
  BY DEF IInv
<1>3. OnlyWrittenBy(S)' => OnlyWrittenBy(RepairSteps(disk0))'
  BY <1>1
<1>4. CASE RunRepair
  <2>1. RepairPlan(disk) \in Seq(S)
    BY <1>2, <1>4, ReplanWithin DEF RunRepair, OnlyWrittenBy
  <2>2. plan' = RepairPlan(disk) /\ UNCHANGED <<disk, medium, disk0>>
    BY <1>4 DEF RunRepair, Start
  <2>3. OnlyWrittenBy(S)'
    BY <1>2, <2>1, <2>2 DEF OnlyWrittenBy, WrittenBy
  <2>4. disk \in Disk
    BY <1>2 DEF TypeOK
  <2>5. TypeOK'
    BY <1>2, <1>4, <2>4, PlanType, StartKeepsType DEF RunRepair
  <2>6. QED
    BY <1>3, <2>3, <2>5 DEF IInv
<1>5. CASE ApplyStep \/ Fault
  <2>1. OnlyWrittenBy(S)' /\ TypeOK'
    BY <1>2, <1>5, ApplyKeepsWritten, ApplyKeepsType
  <2>2. QED
    BY <1>3, <2>1 DEF IInv
<1>6. CASE UNCHANGED vars
  BY <1>6, <1>2, <1>3 DEF vars, IInv, TypeOK, OnlyWrittenBy, WrittenBy
<1>7. QED
  BY <1>4, <1>5, <1>6 DEF Next

LEMMA IInvInit == Init => IInv
<1> SUFFICES ASSUME Init PROVE IInv
  OBVIOUS
<1>1. TypeOK
  BY DisksAssumption, FaultsAssumption DEF Init, TypeOK
<1>2. <<>> \in Seq(RepairSteps(disk0))
  OBVIOUS
<1>3. QED
  BY <1>1, <1>2 DEF IInv, Init, OnlyWrittenBy, WrittenBy

\* What only steps of a repair have written is outside the usable range.
LEMMA IInvProtects == IInv => PartitionsUntouched
<1> SUFFICES ASSUME IInv,
                    NEW l \in LBA \ {LastBlock},
                    NEW h, h = HeaderAt(disk0, IF IsValid(disk0, 1) THEN 1 ELSE LastBlock),
                    h.first <= l, l <= h.last, TableOf(disk0) # NoTable
             PROVE  disk[l] = disk0[l] /\ medium[l] = disk0[l]
  BY DEF PartitionsUntouched
<1>1. disk0 \in Disk
  BY DEF IInv, TypeOK
<1>2. WrittenBy(RepairSteps(disk0), disk, l) /\ WrittenBy(RepairSteps(disk0), medium, l)
  BY DEF IInv, OnlyWrittenBy
<1>3. \A s \in RepairSteps(disk0) : l \notin Spanned(s)
  <2>1. CASE Analyze(disk0) = "MbrOnly"
    <3>1. h = HeaderAt(disk0, 1) /\ UsableRangeOk(h)
      BY <2>1 DEF Analyze, IsValid, SoundButForAlternate
    <3>2. h.first \in Nat /\ h.first >= 2
      <4>1. 1 \in LBA
        BY GeometryAssumption DEF LBA
      <4>2. h \in Header
        BY <1>1, <3>1, <4>1, HeaderAtType
      <4>3. QED
        BY <3>1, <4>2 DEF UsableRangeOk, Header
    <3>3. l # 0
      BY <3>2 DEF LBA
    <3>4. QED
      BY <2>1, <3>3, MbrSpans DEF RepairSteps
  <2>2. CASE Analyze(disk0) = "MainRepairable"
    <3>1. h = HeaderAt(disk0, LastBlock)
      BY <1>1, <2>2, MainRepairableFacts
    <3>2. h.n \in Nat /\ 2 + h.n <= h.first /\ h.first \in Nat
      BY <1>1, <2>2, <3>1, ArrayBelowPartitions
    <3>3. l \in Nat /\ l # LastBlock
      BY GeometryAssumption DEF LBA
    <3>4. ~(l \in {0, 1}) /\ ~(2 <= l /\ l < 2 + h.n)
      BY <3>2, <3>3
    <3>5. RepairSteps(disk0) = MainSteps(disk0)
      BY <2>2 DEF RepairSteps
    <3>6. QED
      BY <1>1, <2>2, <3>1, <3>3, <3>4, <3>5, MainSpans
  <2>3. CASE ~WillWrite(Analyze(disk0))
    BY <2>3 DEF RepairSteps, WillWrite
  <2>4. QED
    BY <2>1, <2>2, <2>3 DEF WillWrite
<1>4. QED
  BY <1>2, <1>3 DEF WrittenBy

\* Spec => []PartitionsUntouched: on every disk, with any number of attempts,
\* failing steps and power cuts, a repair writes no block between the first and
\* last usable LBA of the table it starts from, the secondary header apart.
THEOREM RepairLeavesPartitions == Spec => []PartitionsUntouched
BY IInvInit, IInvStep, IInvProtects, PTL DEF Spec

-----------------------------------------------------------------------------
(* A disk with a readable table keeps one                                  *)

\* What each block of the main area may hold while a disk that started as d is
\* being repaired, and that the other blocks hold what they held.
LEMMA BlocksOfRepair ==
    ASSUME NEW d \in Disk, Analyze(d) = "MainRepairable", d = disk0,
           NEW e \in Disk, \A l \in LBA : WrittenBy(MainSteps(d), e, l)
    PROVE  LET src == HeaderAt(d, LastBlock)
           IN  /\ e[1] \in {d[1], MainHeader(src)}
               /\ \A l \in LBA : \/ e[l] = d[l]
                                 \/ l \in {0, 1, LastBlock}
                                 \/ l - 1 \in 1..src.n /\ e[l] = src.crc[l - 1]
<1> DEFINE src == HeaderAt(d, LastBlock)
<1>1. src.n \in Nat /\ 1 \in LBA
  BY ArrayBelowPartitions, GeometryAssumption DEF LBA
<1>2. ASSUME NEW l \in LBA, e[l] # d[l]
      PROVE  \/ l \in {0, LastBlock}
             \/ l = 1 /\ e[l] = MainHeader(src)
             \/ l - 1 \in 1..src.n /\ e[l] = src.crc[l - 1]
  <2>1. PICK s \in MainSteps(d) : l \in Spanned(s) /\ e[l] = s.blocks[l - s.lba + 1]
    BY <1>2 DEF WrittenBy
  <2>2. l \in Nat
    BY GeometryAssumption DEF LBA
  <2>3. CASE l = 1 /\ s = Write(1, <<MainHeader(src)>>)
    BY <2>1, <2>3 DEF Write
  <2>4. CASE 2 <= l /\ l < 2 + src.n /\ s = Write(2, src.crc)
    <3>1. l - s.lba + 1 = l - 1 /\ s.blocks = src.crc
      BY <2>2, <2>4 DEF Write
    <3>2. l - 1 \in 1..src.n
      BY <1>1, <2>2, <2>4
    <3>3. QED
      BY <2>1, <3>1, <3>2
  <2>5. QED
    BY <2>1, <2>3, <2>4, MainSpans
<1>3. LastBlock # 1
  BY GeometryAssumption
<1>4. QED
  BY <1>1, <1>2, <1>3

\* The source of a repair stays a usable source with the same table, provided
\* its array is out of the main array's way.
LEMMA SourceStaysUsable ==
    ASSUME NEW d \in Disk, Analyze(d) = "MainRepairable", d = disk0, SourceApart(d),
           NEW e \in Disk, \A l \in LBA : WrittenBy(MainSteps(d), e, l)
    PROVE  /\ UsableSource(e)
           /\ HeaderAt(e, LastBlock).crc = HeaderAt(d, LastBlock).crc
<1> DEFINE src == HeaderAt(d, LastBlock)
           now == HeaderAt(e, LastBlock)
<1>1. /\ SoundButForAlternate(d, LastBlock)
      /\ UsableSource(d)
      /\ src \in Header
      /\ src = d[LastBlock]
      /\ src.elba \in Nat
      /\ src.elba >= 1
      /\ src.n \in Nat
      /\ Fits(src.elba, src.n)
      /\ Content(d, src.elba, src.n) = src.crc
  BY MainRepairableFacts, SourceFacts, GeometryAssumption
<1>2. LastBlock \in LBA /\ LastBlock \in Nat
  BY GeometryAssumption DEF LBA
<1>3. \/ e[LastBlock] = src
      \/ e[LastBlock] = CorrectedSecondary(src)
  BY <1>1, <1>2, SourceHeaderKept
<1>4. e[LastBlock] \in Header
  BY <1>1, <1>3, WrittenHeadersType
<1>5. now = e[LastBlock]
  BY <1>4 DEF HeaderAt
<1>6. /\ now.sound = src.sound /\ now.n = src.n /\ now.elba = src.elba
      /\ now.crc = src.crc /\ now.first = src.first /\ now.last = src.last
  <2>1. src \in Header
    BY <1>1
  <2>2. now = src \/ now = [src EXCEPT !.my = LastBlock, !.alt = 1]
    BY <1>3, <1>5 DEF CorrectedSecondary
  <2> HIDE DEF now, src
  <2>3. QED
    BY <2>1, <2>2 DEF Header
<1>7. now.my = LastBlock
  <2>1. src.my = LastBlock
    BY <1>1 DEF SoundButForAlternate
  <2>2. QED
    BY <1>1, <1>3, <1>5, <2>1 DEF CorrectedSecondary, Header
<1>8. ASSUME NEW i \in 1..src.n
      PROVE  e[src.elba + i - 1] = d[src.elba + i - 1]
  <2>1. src.elba + i - 1 \in LBA /\ i \in Nat /\ i >= 1
    BY <1>1, GeometryAssumption DEF Fits, LBA
  <2>2. d[src.elba + i - 1] = src.crc[i]
    BY <1>1 DEF Content
  <2>3. src.elba + i - 1 # LastBlock
    <3>1. src.crc \in Seq(Data) /\ Len(src.crc) = src.n
      BY <1>1, ArrayBelowPartitions DEF Header
    <3>2. src.crc[i] \in Data
      BY <3>1
    <3>3. QED
      BY <1>1, <2>2, <3>2, BlockAssumption
  <2>4. CASE src.elba >= 2 + src.n
    <3>1. /\ src.elba + i - 1 \notin {0, 1, LastBlock}
          /\ (src.elba + i - 1) - 1 \notin 1..src.n
      BY <1>1, <2>1, <2>3, <2>4
    <3>2. QED
      BY <2>1, <3>1, BlocksOfRepair
  <2>5. CASE src.elba = 2
    <3>1. src.elba + i - 1 = i + 1 /\ (i + 1) - 1 = i /\ i + 1 \notin {0, 1}
      BY <2>1, <2>5
    <3>2. \/ e[i + 1] = d[i + 1]
          \/ e[i + 1] = src.crc[i]
      BY <2>1, <2>3, <3>1, BlocksOfRepair
    <3>3. QED
      BY <2>2, <3>1, <3>2
  <2>6. QED
    BY <2>4, <2>5, <1>1 DEF SourceApart
<1>9. Content(e, now.elba, now.n) = now.crc
  BY <1>1, <1>6, <1>8 DEF Content
<1>10. Readable(e, now.elba, now.n)
  <2>1. ASSUME NEW l \in src.elba..(src.elba + src.n - 1)
        PROVE  e[l] # Unreadable
    <3>1. PICK i \in 1..src.n : l = src.elba + i - 1
      <4>1. l - src.elba + 1 \in 1..src.n /\ l = src.elba + (l - src.elba + 1) - 1
        BY <1>1, <2>1
      <4>2. QED
        BY <4>1
    <3>2. d[l] # Unreadable
      BY <1>1, <2>1 DEF SoundButForAlternate, Readable
    <3>3. QED
      BY <1>8, <3>1, <3>2
  <2>2. QED
    BY <1>1, <1>6, <2>1 DEF Readable
<1>11. e[LastBlock] # Unreadable
  BY <1>4, BlockAssumption
<1>12. SoundButForAlternate(e, LastBlock)
  <2>1. LastBlock # 1
    BY GeometryAssumption
  <2>2. src.sound /\ src.n > 0 /\ UsableRangeOk(src)
    BY <1>1 DEF SoundButForAlternate
  <2>3. UsableRangeOk(now)
    BY <1>6, <2>2 DEF UsableRangeOk
  <2>4. QED
    BY <1>1, <1>6, <1>7, <1>9, <1>10, <1>11, <2>1, <2>2, <2>3
       DEF SoundButForAlternate
<1>13. UsableSource(e)
  <2>1. CASE e[LastBlock] = src
    <3>1. now = src
      BY <1>5, <2>1
    <3>2. QED
      BY <1>1, <1>12, <3>1 DEF UsableSource, IsValid, OnlyWrongAlternate
  <2>2. CASE e[LastBlock] = CorrectedSecondary(src)
    <3>1. now.alt = 1
      BY <1>1, <1>5, <2>2 DEF CorrectedSecondary, Header
    <3>2. AlternateOf(LastBlock) = 1
      BY GeometryAssumption DEF AlternateOf
    <3>3. QED
      BY <1>12, <3>1, <3>2 DEF UsableSource, IsValid
  <2>3. QED
    BY <1>3, <2>1, <2>2
<1>14. QED
  BY <1>6, <1>13

\* Only LBA 0 apart, two disks show a reader the same table.
LEMMA SameTable ==
    ASSUME NEW d \in Disk, NEW e \in Disk, \A l \in LBA \ {0} : d[l] = e[l]
    PROVE  TableOf(e) = TableOf(d)
<1>1. \A role \in {1, LastBlock} : HeaderAt(e, role) = HeaderAt(d, role)
  BY GeometryAssumption DEF HeaderAt, LBA
<1>2. \A role \in {1, LastBlock} :
        SoundButForAlternate(e, role) <=> SoundButForAlternate(d, role)
  BY TablesIgnoreMbr
<1>3. 1 \in {1, LastBlock} /\ LastBlock \in {1, LastBlock}
  OBVIOUS
<1>4. \A role \in {1, LastBlock} : /\ IsValid(e, role) <=> IsValid(d, role)
                                   /\ OnlyWrongAlternate(e, role)
                                        <=> OnlyWrongAlternate(d, role)
  BY <1>1, <1>2 DEF IsValid, OnlyWrongAlternate
<1>5. QED
  BY <1>1, <1>3, <1>4 DEF TableOf, UsableSource

\* A reader of a valid main GPT, or of a usable secondary, finds a table: the
\* array its checksum covers has a block.
LEMMA ReadableTable ==
    ASSUME NEW d \in Disk, IsValid(d, 1) \/ UsableSource(d)
    PROVE  TableOf(d) # NoTable
<1>1. ASSUME NEW role \in {1, LastBlock}, SoundButForAlternate(d, role)
      PROVE  HeaderAt(d, role).crc # NoTable
  <2> DEFINE h == HeaderAt(d, role)
  <2>1. h \in Header /\ h.n > 0 /\ Content(d, h.elba, h.n) = h.crc
    BY <1>1, GeometryAssumption, HeaderAtType DEF LBA, SoundButForAlternate
  <2>2. h.n \in Nat
    BY <2>1, GeometryAssumption DEF Header
  <2>3. DOMAIN h.crc = 1..h.n
    BY <2>1 DEF Content
  <2>4. 1 \in DOMAIN h.crc
    BY <2>1, <2>2, <2>3
  <2> QED
    BY <2>4 DEF NoTable
<1> QED
  BY <1>1 DEF TableOf, UsableSource, IsValid, OnlyWrongAlternate

LEMMA IInvKeepsTable == IInv => RecoverableTableKept
<1> SUFFICES ASSUME IInv, TableOf(disk0) # NoTable, SourceApart(disk0)
             PROVE  TableOf(medium) \in {TableOf(disk0), HeaderAt(disk0, 1).crc} \ {NoTable}
  BY DEF RecoverableTableKept
<1>1. disk0 \in Disk /\ medium \in Disk
  BY DEF IInv, TypeOK
<1>2. \A l \in LBA : WrittenBy(RepairSteps(disk0), medium, l)
  BY DEF IInv, OnlyWrittenBy
<1>3. CASE Analyze(disk0) = "MainRepairable"
  <2> DEFINE src == HeaderAt(disk0, LastBlock)
  <2>1. \A l \in LBA : WrittenBy(MainSteps(disk0), medium, l)
    BY <1>2, <1>3 DEF RepairSteps
  <2>2. UsableSource(medium) /\ HeaderAt(medium, LastBlock).crc = src.crc
    BY <1>1, <1>3, <2>1, SourceStaysUsable
  <2>3. TableOf(disk0) = src.crc
    BY <1>1, <1>3, MainRepairableFacts DEF TableOf
  <2>4. TableOf(medium) # NoTable
    BY <1>1, <2>2, ReadableTable
  <2>5. CASE IsValid(medium, 1)
    <3>1. TableOf(medium) = HeaderAt(medium, 1).crc
      BY <2>5 DEF TableOf
    <3>2. medium[1] \in {disk0[1], MainHeader(src)}
      BY <1>1, <1>3, <2>1, BlocksOfRepair
    <3>3. CASE medium[1] = disk0[1]
      BY <2>4, <3>1, <3>3 DEF HeaderAt
    <3>4. CASE medium[1] = MainHeader(src)
      <4>1. src \in Header
        BY <1>1, <1>3, ArrayBelowPartitions
      <4>2. MainHeader(src) \in Header /\ MainHeader(src).crc = src.crc
        BY <4>1, WrittenHeadersType DEF MainHeader, Header
      <4>3. QED
        BY <2>3, <2>4, <3>1, <3>4, <4>2 DEF HeaderAt
    <3>5. QED
      BY <3>2, <3>3, <3>4
  <2>6. CASE ~IsValid(medium, 1)
    BY <2>2, <2>3, <2>4, <2>6 DEF TableOf
  <2>7. QED
    BY <2>5, <2>6
<1>4. CASE Analyze(disk0) # "MainRepairable"
  <2>1. \A s \in RepairSteps(disk0) : \A l \in Spanned(s) : l = 0
    BY <1>4, MbrSpans DEF RepairSteps
  <2>2. \A l \in LBA \ {0} : disk0[l] = medium[l]
    BY <1>2, <2>1 DEF WrittenBy
  <2>3. QED
    BY <1>1, <2>2, SameTable
<1>5. QED
  BY <1>3, <1>4

\* Spec => []RecoverableTableKept: wherever and however often a repair is cut
\* short, the disk keeps a readable table, the one it had or the one its old main
\* header described.
THEOREM RepairKeepsTable == Spec => []RecoverableTableKept
BY IInvInit, IInvStep, IInvKeepsTable, PTL DEF Spec

-----------------------------------------------------------------------------
(* The main array is durable before the header that describes it             *)

\* The main array is in place on x: its blocks are those the source describes.
ArrayOn(x, src) == \A i \in 1..src.n : x[i + 1] = src.crc[i]

ArrayStep(src) == Write(2, src.crc)

\* A plan that rebuilds the main table begins with the array and its barrier.
BeginsWithArray(steps, src) ==
    Len(steps) >= 3 /\ steps[1] = ArrayStep(src) /\ steps[2] = Flush

\* How far the plan being applied has got, and what that says of the array.
OrderedFor(d) ==
    LET src == HeaderAt(d, LastBlock)
    IN  /\ ~Idle => plan = MbrPlan \/ BeginsWithArray(plan, src)
        /\ ~Idle /\ BeginsWithArray(plan, src) =>
             /\ pc >= 2 => ArrayOn(disk, src)
             /\ pc >= 3 => ArrayOn(medium, src)
        /\ disk[1] # d[1] \/ medium[1] # d[1] =>
             ArrayOn(disk, src) /\ ArrayOn(medium, src)

\* The inductive invariant of the ordering.
OInv == IInv /\ (Analyze(disk0) = "MainRepairable" => OrderedFor(disk0))

\* Nothing a repair writes damages an array that is in place, and writing the
\* array puts it there.
LEMMA ArrayKept ==
    ASSUME NEW d \in Disk, Analyze(d) = "MainRepairable",
           NEW s \in MainSteps(d), NEW x, NEW which,
           \/ ArrayOn(x, HeaderAt(d, LastBlock))
           \/ s = ArrayStep(HeaderAt(d, LastBlock)) /\ which = LBA
    PROVE  ArrayOn(Put(x, s, which), HeaderAt(d, LastBlock))
<1> DEFINE src == HeaderAt(d, LastBlock)
<1>1. src.n \in Nat /\ 2 + src.n <= LastBlock /\ Len(src.crc) = src.n
  BY ArrayBelowPartitions, GeometryAssumption
<1> SUFFICES ASSUME NEW i \in 1..src.n PROVE Put(x, s, which)[i + 1] = src.crc[i]
  BY DEF ArrayOn
<1>2. i + 1 \in LBA /\ i + 1 \in Nat /\ i + 1 # LastBlock /\ i + 1 \notin {0, 1}
  BY <1>1, GeometryAssumption DEF LBA
<1>3. CASE i + 1 \in Spanned(s) /\ i + 1 \in which
  <2>1. s = Write(2, src.crc)
    BY <1>2, <1>3, MainSpans
  <2>2. s.lba = 2 /\ s.blocks = src.crc /\ (i + 1) - 2 + 1 = i
    BY <1>1, <2>1 DEF Write
  <2>3. QED
    BY <1>2, <1>3, <2>2 DEF Put
<1>4. CASE ~(i + 1 \in Spanned(s) /\ i + 1 \in which)
  <2>1. ~(s = ArrayStep(src) /\ which = LBA)
    <3>1. ASSUME s = ArrayStep(src) PROVE i + 1 \in Spanned(s)
      BY <1>1, <3>1 DEF ArrayStep, Write, Spanned
    <3>2. QED
      BY <1>2, <1>4, <3>1
  <2>2. x[i + 1] = src.crc[i]
    BY <2>1 DEF ArrayOn
  <2>3. QED
    BY <1>2, <1>4, <2>2 DEF Put
<1>5. QED
  BY <1>3, <1>4

LEMMA WhenType ==
    ASSUME NEW condition, NEW S, NEW step \in S
    PROVE  When(condition, step) \in Seq(S)
BY DEF When

LEMMA PrefixKept ==
    ASSUME NEW S, NEW s \in Seq(S), NEW t \in Seq(S), Len(s) >= 2
    PROVE  /\ s \o t \in Seq(S)
           /\ Len(s \o t) = Len(s) + Len(t)
           /\ (s \o t)[1] = s[1]
           /\ (s \o t)[2] = s[2]
OBVIOUS

\* The only step that writes the block of the main header.
LEMMA HeaderSpan ==
    ASSUME NEW d \in Disk, Analyze(d) = "MainRepairable",
           NEW s \in MainSteps(d), 1 \in Spanned(s)
    PROVE  s = Write(1, <<MainHeader(HeaderAt(d, LastBlock))>>)
<1>1. PICK l \in Spanned(s) : l = 1
  OBVIOUS
<1>2. l # LastBlock /\ l # 0 /\ ~(2 <= l)
  BY <1>1, GeometryAssumption
<1>3. QED
  BY <1>2, MainSpans

\* A plan that rebuilds the main table begins as BeginsWithArray says.
LEMMA MainPlanBegins ==
    ASSUME NEW e \in Disk, Analyze(e) = "MainRepairable"
    PROVE  BeginsWithArray(MainPlan(e), HeaderAt(e, LastBlock))
<1> DEFINE src == HeaderAt(e, LastBlock)
<1>1. Content(e, src.elba, src.n) = src.crc
  BY MainRepairableFacts, SourceFacts
<1> DEFINE array == ArrayStep(src)
           mbr == Write(0, <<ProtectiveMbr>>)
           header == Write(1, <<MainHeader(src)>>)
           secondary == Write(LastBlock, <<CorrectedSecondary(src)>>)
           A == <<array, Flush>>
           B == When(NeedsRepair(Inspect(e)), mbr)
           C == << header >>
           D == When(OnlyWrongAlternate(e, LastBlock), secondary)
           E == << Flush >>
           T == {array, Flush, mbr, header, secondary}
<1>4. MainPlan(e) = A \o B \o C \o D \o E
  BY <1>1 DEF MainPlan, ArrayStep
<1>14. A[1] = ArrayStep(src)
  OBVIOUS
<1> HIDE DEF array, mbr, header, secondary
<1>5. A \in Seq(T) /\ C \in Seq(T) /\ E \in Seq(T) /\ B \in Seq(T) /\ D \in Seq(T)
  <2>1. A \in Seq(T)
    OBVIOUS
  <2>2. C \in Seq(T) /\ E \in Seq(T)
    OBVIOUS
  <2>3. mbr \in T /\ secondary \in T
    OBVIOUS
  <2>4. B \in Seq(T) /\ D \in Seq(T)
    BY <2>3, WhenType
  <2>5. QED
    BY <2>1, <2>2, <2>3, <2>4
<1>15. Len(B) \in Nat
  BY <1>5
<1>6. Len(A) = 2 /\ A[2] = Flush /\ Len(E) = 1
  OBVIOUS
<1> HIDE DEF A, B, C, D, E, T
<1>7. A \o B \in Seq(T) /\ Len(A \o B) = Len(A) + Len(B)
      /\ (A \o B)[1] = A[1] /\ (A \o B)[2] = A[2]
  <2>1. Len(A) >= 2
    BY <1>6
  <2>2. QED
    BY <1>5, <2>1, PrefixKept
<1> DEFINE AB == A \o B
<1>8. AB \in Seq(T) /\ Len(AB) >= 2 /\ AB[1] = A[1] /\ AB[2] = A[2]
  BY <1>6, <1>7, <1>15
<1> HIDE DEF AB
<1> DEFINE ABC == AB \o C
<1>9. ABC \in Seq(T) /\ Len(ABC) >= 2 /\ ABC[1] = A[1] /\ ABC[2] = A[2]
  <2>1. Len(C) \in Nat /\ Len(AB) \in Nat
    BY <1>5, <1>8
  <2>2. QED
    BY <1>5, <1>8, <2>1, PrefixKept
<1> HIDE DEF ABC
<1> DEFINE ABCD == ABC \o D
<1>10. ABCD \in Seq(T) /\ Len(ABCD) >= 2 /\ ABCD[1] = A[1] /\ ABCD[2] = A[2]
  <2>1. Len(D) \in Nat /\ Len(ABC) \in Nat
    BY <1>5, <1>9
  <2>2. QED
    BY <1>5, <1>9, <2>1, PrefixKept
<1> HIDE DEF ABCD
<1>12. Len(ABCD \o E) >= 3 /\ (ABCD \o E)[1] = A[1] /\ (ABCD \o E)[2] = A[2]
  <2>1. Len(ABCD) \in Nat
    BY <1>10
  <2>2. Len(ABCD \o E) = Len(ABCD) + 1
        /\ (ABCD \o E)[1] = A[1] /\ (ABCD \o E)[2] = A[2]
    <3>1. Len(ABCD \o E) = Len(ABCD) + Len(E)
          /\ (ABCD \o E)[1] = ABCD[1] /\ (ABCD \o E)[2] = ABCD[2]
      BY <1>5, <1>10, PrefixKept
    <3>2. QED
      BY <1>6, <1>10, <3>1
  <2>3. QED
    BY <1>10, <2>1, <2>2
<1>13. MainPlan(e) = ABCD \o E
  BY <1>4 DEF AB, ABC, ABCD
<1>11. QED
  BY <1>6, <1>12, <1>13, <1>14 DEF BeginsWithArray

\* The plan of a second attempt begins like the first one's.
LEMMA ReplanBegins ==
    ASSUME NEW d \in Disk, Analyze(d) = "MainRepairable", d = disk0,
           NEW e \in Disk, WrittenBy(MainSteps(d), e, LastBlock),
           Analyze(e) = "MainRepairable"
    PROVE  BeginsWithArray(MainPlan(e), HeaderAt(d, LastBlock))
<1> DEFINE src == HeaderAt(d, LastBlock)
           now == HeaderAt(e, LastBlock)
<1>1. src \in Header /\ src = d[LastBlock] /\ now = e[LastBlock]
  BY MainRepairableFacts, SourceFacts
<1>2. now = src \/ now = CorrectedSecondary(src)
  BY <1>1, SourceHeaderKept
<1>3. now.crc = src.crc
  BY <1>1, <1>2 DEF Header, CorrectedSecondary
<1>4. QED
  BY <1>3, MainPlanBegins DEF BeginsWithArray, ArrayStep

LEMMA OInvInit == Init => OInv
<1> SUFFICES ASSUME Init PROVE OInv
  OBVIOUS
<1>1. IInv
  BY IInvInit
<1>2. Idle /\ disk[1] = disk0[1] /\ medium[1] = disk0[1]
  BY DEF Init, Idle
<1>3. QED
  BY <1>1, <1>2 DEF OInv, OrderedFor

\* A step of a repair that started from d keeps the order.
LEMMA OrderKept ==
    ASSUME IInv, [Next]_vars, NEW d \in Disk, d = disk0,
           Analyze(d) = "MainRepairable", OrderedFor(d)
    PROVE  OrderedFor(d)'
<1> DEFINE src == HeaderAt(d, LastBlock)
<1>1. plan \in Seq(MainSteps(d)) /\ pc \in 0..Len(plan) /\ disk \in Disk
      /\ \A l \in LBA : WrittenBy(MainSteps(d), disk, l)
  BY DEF IInv, TypeOK, OnlyWrittenBy, RepairSteps
<1>2. ~Idle => plan[pc] \in MainSteps(d)
  BY <1>1 DEF Idle
<1>3. 1 \in LBA
  BY GeometryAssumption DEF LBA
\* The step at the head of a plan that rebuilds the table is not a header's.
<1>4. ASSUME ~Idle, 1 \in Spanned(plan[pc])
      PROVE  ArrayOn(disk, src) /\ ArrayOn(medium, src)
  <2>0. \A s \in MainSteps(d) : 1 \in Spanned(s) => s = Write(1, <<MainHeader(src)>>)
    BY HeaderSpan
  <2>1. plan[pc] = Write(1, <<MainHeader(src)>>)
    BY <1>2, <1>4, <2>0
  <2>2. plan[pc] # Write(0, <<ProtectiveMbr>>) /\ plan[pc] # Flush
        /\ plan[pc] # ArrayStep(src)
    BY <2>1 DEF Write, Flush, ArrayStep
  <2>3. plan # MbrPlan
    <3>1. ASSUME plan = MbrPlan PROVE FALSE
      <4>1. pc \in 1..2
        BY <1>1, <1>4, <3>1 DEF Idle, MbrPlan
      <4>2. QED
        BY <2>2, <3>1, <4>1 DEF MbrPlan
    <3>2. QED
      BY <3>1
  <2>4. BeginsWithArray(plan, src)
    BY <1>4, <2>3 DEF OrderedFor
  <2>5. pc >= 3
    BY <1>1, <1>4, <2>2, <2>4 DEF BeginsWithArray, Idle
  <2>6. pc >= 2
    BY <1>1, <2>5
  <2>7. QED
    BY <1>4, <2>4, <2>5, <2>6 DEF OrderedFor
<1>5. ASSUME NEW which, NEW x, x = Put(disk, plan[pc], which), ~Idle
      PROVE  /\ x[1] # d[1] => ArrayOn(disk, src) /\ ArrayOn(medium, src)
             /\ ArrayOn(disk, src) => ArrayOn(x, src)
  <2>1. ArrayOn(disk, src) => ArrayOn(x, src)
    BY <1>2, <1>5, ArrayKept
  <2>2. CASE 1 \in Spanned(plan[pc])
    BY <1>4, <1>5, <2>1, <2>2
  <2>3. CASE 1 \notin Spanned(plan[pc])
    <3>1. x[1] = disk[1]
      BY <1>3, <1>5, <2>3 DEF Put
    <3>2. QED
      BY <2>1, <3>1 DEF OrderedFor
  <2>4. QED
    BY <2>2, <2>3
<1>6. CASE RunRepair
  <2>1. UNCHANGED <<disk, medium>> /\ plan' = RepairPlan(disk) /\ pc' = 1
    BY <1>6 DEF RunRepair, Start
  <2>2. plan' = MbrPlan \/ BeginsWithArray(plan', src)
    <3>1. CASE Analyze(disk) = "MbrOnly"
      BY <2>1, <3>1 DEF RepairPlan
    <3>2. CASE Analyze(disk) = "MainRepairable"
      <4>1. LastBlock \in LBA
        BY GeometryAssumption DEF LBA
      <4>2. BeginsWithArray(MainPlan(disk), src)
        BY <1>1, <3>2, <4>1, ReplanBegins
      <4>3. QED
        BY <2>1, <3>2, <4>2 DEF RepairPlan
    <3>3. QED
      BY <1>6, <3>1, <3>2 DEF RunRepair, WillWrite
  <2>3. QED
    BY <2>1, <2>2 DEF OrderedFor, Idle
<1>7. CASE WriteStep
  <2>1. ~Idle /\ disk' = Put(disk, plan[pc], LBA) /\ medium' = medium /\ Advance
    BY <1>7 DEF WriteStep
  <2>2. /\ disk'[1] # d[1] => ArrayOn(disk, src) /\ ArrayOn(medium, src)
        /\ ArrayOn(disk, src) => ArrayOn(disk', src)
    BY <1>5, <2>1
  <2>3. pc = 1 /\ BeginsWithArray(plan, src) => ArrayOn(disk', src)
    BY <1>2, <2>1, ArrayKept DEF BeginsWithArray
  <2>4. /\ disk'[1] # d[1] \/ medium'[1] # d[1]
             => ArrayOn(disk', src) /\ ArrayOn(medium', src)
    BY <2>1, <2>2 DEF OrderedFor
  <2>5. CASE pc = Len(plan)
    <3>1. pc' = 0
      BY <2>1, <2>5 DEF Advance, Stop
    <3>2. QED
      BY <2>4, <3>1 DEF OrderedFor, Idle
  <2>6. CASE pc # Len(plan)
    <3>1. pc' = pc + 1 /\ plan' = plan /\ pc \in Nat /\ pc >= 1
      BY <1>1, <2>1, <2>6 DEF Advance, Idle
    <3>2. BeginsWithArray(plan, src) => ArrayOn(disk', src)
      <4>1. CASE pc = 1
        BY <2>3, <4>1
      <4>2. CASE pc >= 2
        BY <2>1, <2>2, <4>2 DEF OrderedFor
      <4>3. QED
        BY <3>1, <4>1, <4>2
    <3>3. BeginsWithArray(plan, src) /\ pc' >= 3 => ArrayOn(medium', src)
      <4>1. ASSUME BeginsWithArray(plan, src), pc = 2 PROVE FALSE
        BY <1>7, <4>1 DEF WriteStep, BeginsWithArray, Flush
      <4>2. BeginsWithArray(plan, src) /\ pc >= 3 => ArrayOn(medium, src)
        BY <2>1 DEF OrderedFor
      <4>3. QED
        BY <2>1, <3>1, <4>1, <4>2
    <3>4. plan = MbrPlan \/ BeginsWithArray(plan, src)
      BY <2>1 DEF OrderedFor
    <3>5. QED
      BY <2>4, <3>1, <3>2, <3>3, <3>4 DEF OrderedFor
  <2>7. QED
    BY <2>5, <2>6
<1>8. CASE FlushStep
  <2>1. ~Idle /\ disk' = disk /\ medium' = disk /\ Advance
    BY <1>8 DEF FlushStep
  <2>2. disk'[1] # d[1] \/ medium'[1] # d[1]
             => ArrayOn(disk', src) /\ ArrayOn(medium', src)
    BY <2>1 DEF OrderedFor
  <2>3. CASE pc = Len(plan)
    <3>1. pc' = 0
      BY <2>1, <2>3 DEF Advance, Stop
    <3>2. QED
      BY <2>2, <3>1 DEF OrderedFor, Idle
  <2>4. CASE pc # Len(plan)
    <3>1. pc' = pc + 1 /\ plan' = plan /\ pc \in Nat /\ pc >= 1
      BY <1>1, <2>1, <2>4 DEF Advance, Idle
    <3>2. BeginsWithArray(plan, src) => pc >= 2
      BY <1>8, <3>1 DEF FlushStep, BeginsWithArray, ArrayStep, Write
    <3>3. BeginsWithArray(plan, src) => ArrayOn(disk, src)
      BY <2>1, <3>2 DEF OrderedFor
    <3>4. plan = MbrPlan \/ BeginsWithArray(plan, src)
      BY <2>1 DEF OrderedFor
    <3>5. QED
      BY <2>1, <2>2, <3>1, <3>3, <3>4 DEF OrderedFor
  <2>5. QED
    BY <2>3, <2>4
<1>9. CASE FailingWrite
  <2>1. PICK which : disk' = Put(disk, plan[pc], which)
    BY <1>9 DEF FailingWrite
  <2>2. ~Idle /\ medium' = medium /\ pc' = 0
    BY <1>9 DEF FailingWrite, Stop
  <2>3. /\ disk'[1] # d[1] => ArrayOn(disk, src) /\ ArrayOn(medium, src)
        /\ ArrayOn(disk, src) => ArrayOn(disk', src)
    BY <1>5, <2>1, <2>2
  <2>4. QED
    BY <2>2, <2>3 DEF OrderedFor, Idle
<1>10. CASE FailingFlush
  BY <1>10 DEF FailingFlush, Stop, OrderedFor, Idle
<1>11. CASE PowerCut
  <2>1. pc' = 0 /\ disk' = medium'
        /\ \A l \in LBA : medium'[l] = disk[l] \/ medium'[l] = medium[l]
    BY <1>11 DEF PowerCut, Stop
  <2>2. ASSUME ArrayOn(disk, src), ArrayOn(medium, src)
        PROVE  ArrayOn(medium', src)
    <3>1. \A i \in 1..src.n : i + 1 \in LBA
      <4>1. src.n \in Nat /\ 2 + src.n <= LastBlock
        BY <1>1, ArrayBelowPartitions, GeometryAssumption
      <4>2. QED
        BY <4>1, GeometryAssumption DEF LBA
    <3>2. QED
      BY <2>1, <2>2, <3>1 DEF ArrayOn
  <2>3. medium'[1] # d[1] => ArrayOn(disk, src) /\ ArrayOn(medium, src)
    BY <1>3, <2>1 DEF OrderedFor
  <2>4. QED
    BY <2>1, <2>2, <2>3 DEF OrderedFor, Idle
<1>12. CASE UNCHANGED vars
  BY <1>12 DEF vars, OrderedFor, Idle
<1>13. QED
  BY <1>6, <1>7, <1>8, <1>9, <1>10, <1>11, <1>12 DEF Next, ApplyStep, Fault

LEMMA OInvStep == OInv /\ [Next]_vars => OInv'
<1> SUFFICES ASSUME OInv, [Next]_vars PROVE OInv'
  OBVIOUS
<1> PICK d : d = disk0
  OBVIOUS
<1>1. disk0' = disk0 /\ d \in Disk
  BY DEF OInv, IInv, TypeOK, Next, ApplyStep, Fault, WriteStep, FlushStep,
         FailingWrite, FailingFlush, PowerCut, RunRepair, Start, vars
<1>2. IInv'
  BY IInvStep DEF OInv
<1>3. Analyze(d) = "MainRepairable" => OrderedFor(d)'
  BY <1>1, OrderKept DEF OInv
<1>4. QED
  BY <1>1, <1>2, <1>3 DEF OInv

LEMMA OInvOrders == OInv => HeaderAfterArray
<1> SUFFICES ASSUME OInv, medium[1] # disk0[1]
             PROVE  LET h == HeaderAt(medium, 1)
                    IN  h.sound /\ Content(medium, 2, h.n) = h.crc
  BY DEF HeaderAfterArray
<1>1. disk0 \in Disk /\ medium \in Disk
      /\ \A l \in LBA : WrittenBy(RepairSteps(disk0), medium, l)
  BY DEF OInv, IInv, TypeOK, OnlyWrittenBy
<1>2. 1 \in LBA
  BY GeometryAssumption DEF LBA
<1>3. Analyze(disk0) = "MainRepairable"
  <2>1. ASSUME Analyze(disk0) # "MainRepairable"
        PROVE  \A s \in RepairSteps(disk0) : \A l \in Spanned(s) : l = 0
    BY <2>1, MbrSpans DEF RepairSteps
  <2>2. QED
    BY <1>1, <1>2, <2>1 DEF WrittenBy
<1> DEFINE src == HeaderAt(disk0, LastBlock)
<1>4. medium[1] = MainHeader(src)
  <2>1. RepairSteps(disk0) = MainSteps(disk0)
    BY <1>3 DEF RepairSteps
  <2>2. QED
    BY <1>1, <1>3, <2>1, BlocksOfRepair
<1>5. src \in Header /\ src.sound /\ src.n \in Nat /\ Len(src.crc) = src.n
      /\ src.crc \in Seq(Data)
  BY <1>1, <1>3, ArrayBelowPartitions, MainRepairableFacts
     DEF SoundButForAlternate, Header
<1>6. MainHeader(src) \in Header /\ MainHeader(src).sound = src.sound
      /\ MainHeader(src).n = src.n /\ MainHeader(src).crc = src.crc
  BY <1>5, WrittenHeadersType DEF MainHeader, Header
<1>7. HeaderAt(medium, 1) = MainHeader(src)
  BY <1>4, <1>6 DEF HeaderAt
<1>8. \A i \in 1..src.n : medium[i + 1] = src.crc[i]
  BY <1>3 DEF OInv, OrderedFor, ArrayOn
<1>9. Content(medium, 2, src.n) = src.crc
  <2>1. \A i \in 1..src.n : 2 + i - 1 = i + 1
    OBVIOUS
  <2>2. src.crc = [i \in 1..src.n |-> src.crc[i]]
    BY <1>5
  <2>3. QED
    BY <1>8, <2>1, <2>2 DEF Content
<1>10. QED
  BY <1>5, <1>6, <1>7, <1>9

\* Spec => []HeaderAfterArray: a main header the tool wrote is never durable
\* over an array that is not, whatever is cut short and retried.
THEOREM RepairOrdersWrites == Spec => []HeaderAfterArray
BY OInvInit, OInvStep, OInvOrders, PTL DEF Spec

-----------------------------------------------------------------------------
(* A valid main GPT is never lost again                                    *)

\* Nothing but LBA 0 may be in flight.
OnlyMbrInFlight == \A l \in LBA \ {0} : disk[l] = medium[l]

\* What keeps a valid main GPT valid: either its array is in place wherever one
\* looks, or the tables are settled and no plan touches them.
SafeFor(d) ==
    /\ medium[1] # d[1] => disk[1] = medium[1]
    /\ IsValid(medium, 1) =>
         \/ /\ ArrayOn(disk, HeaderAt(d, LastBlock))
            /\ ArrayOn(medium, HeaderAt(d, LastBlock))
         \/ OnlyMbrInFlight /\ plan \in {<<>>, MbrPlan}

MInv == OInv /\ (Analyze(disk0) = "MainRepairable" => SafeFor(disk0))

LEMMA MInvInit == Init => MInv
<1> SUFFICES ASSUME Init PROVE MInv
  OBVIOUS
<1>1. OInv
  BY OInvInit
<1>2. disk = medium /\ plan = <<>> /\ medium[1] = disk0[1]
  BY DEF Init
<1>3. QED
  BY <1>1, <1>2 DEF MInv, SafeFor, OnlyMbrInFlight

\* A step of the MBR's plan writes no other block.
LEMMA MbrPlanSpans ==
    ASSUME TypeOK, plan = MbrPlan, ~Idle, NEW l \in Spanned(plan[pc])
    PROVE  l = 0
<1>1. pc \in 1..2
  BY DEF TypeOK, MbrPlan, Idle
<1>2. plan[pc] \in {Flush, Write(0, <<ProtectiveMbr>>)}
  BY <1>1 DEF MbrPlan
<1>3. QED
  BY <1>2, MbrSpans

\* Any block of the disk is written as the plan says, or kept.
LEMMA SafeAfterWrite ==
    ASSUME OInv, NEW d \in Disk, d = disk0, Analyze(d) = "MainRepairable",
           SafeFor(d), ~Idle, NEW which, disk' = Put(disk, plan[pc], which),
           medium' = medium, plan' \in {plan, <<>>}
    PROVE  SafeFor(d)'
<1> DEFINE src == HeaderAt(d, LastBlock)
<1>1. plan \in Seq(MainSteps(d)) /\ pc \in 0..Len(plan) /\ TypeOK
      /\ \A l \in LBA : WrittenBy(MainSteps(d), medium, l)
  BY DEF OInv, IInv, TypeOK, OnlyWrittenBy, RepairSteps
<1>2. plan[pc] \in MainSteps(d)
  BY <1>1 DEF Idle
<1>3. medium[1] # d[1] => disk'[1] = medium[1]
  <2>1. 1 \in LBA /\ medium \in Disk
    BY <1>1, GeometryAssumption DEF LBA, TypeOK
  <2>2. medium[1] # d[1] => medium[1] = MainHeader(src)
    BY <1>1, <2>1, BlocksOfRepair
  <2>3. CASE 1 \in Spanned(plan[pc])
    <3>1. plan[pc] = Write(1, <<MainHeader(src)>>)
      BY <1>2, <2>3, HeaderSpan
    <3>2. plan[pc].blocks[1 - plan[pc].lba + 1] = MainHeader(src)
      BY <3>1 DEF Write
    <3>3. disk'[1] = MainHeader(src) \/ disk'[1] = disk[1]
      BY <2>1, <3>2 DEF Put
    <3>4. QED
      BY <2>2, <3>3 DEF SafeFor
  <2>4. CASE 1 \notin Spanned(plan[pc])
    BY <2>1, <2>4 DEF Put, SafeFor
  <2>5. QED
    BY <2>3, <2>4
<1>4. CASE ~IsValid(medium, 1)
  BY <1>3, <1>4 DEF SafeFor
<1>5. CASE ArrayOn(disk, src) /\ ArrayOn(medium, src)
  BY <1>2, <1>3, <1>5, ArrayKept DEF SafeFor
<1>6. CASE OnlyMbrInFlight /\ plan \in {<<>>, MbrPlan}
  <2>1. plan = MbrPlan
    BY <1>1, <1>6 DEF Idle
  <2>2. \A l \in LBA \ {0} : disk'[l] = disk[l]
    BY <1>1, <2>1, MbrPlanSpans DEF Put
  <2>3. OnlyMbrInFlight'
    BY <1>6, <2>2 DEF OnlyMbrInFlight
  <2>4. QED
    BY <1>3, <2>1, <2>3 DEF SafeFor
<1>7. QED
  BY <1>4, <1>5, <1>6 DEF SafeFor

LEMMA SafeKept ==
    ASSUME OInv, [Next]_vars, NEW d \in Disk, d = disk0,
           Analyze(d) = "MainRepairable", SafeFor(d)
    PROVE  SafeFor(d)'
<1> DEFINE src == HeaderAt(d, LastBlock)
<1>1. /\ pc \in 0..Len(plan) /\ TypeOK
      /\ OrderedFor(d)
      /\ \A l \in LBA : /\ WrittenBy(MainSteps(d), disk, l)
                        /\ WrittenBy(MainSteps(d), medium, l)
  BY DEF OInv, IInv, TypeOK, OnlyWrittenBy, RepairSteps
<1>2. disk \in Disk /\ medium \in Disk /\ 1 \in LBA
  BY <1>1, GeometryAssumption DEF LBA, TypeOK
<1>3. CASE RunRepair
  <2>1. UNCHANGED <<disk, medium>> /\ plan' = RepairPlan(disk)
        /\ WillWrite(Analyze(disk))
    BY <1>3 DEF RunRepair, Start
  <2>2. ASSUME IsValid(medium, 1), OnlyMbrInFlight PROVE plan' = MbrPlan
    <3>1. IsValid(disk, 1)
      BY <1>2, <2>2, TablesIgnoreMbr DEF IsValid, OnlyMbrInFlight
    <3>2. Analyze(disk) = "MbrOnly"
      BY <2>1, <3>1 DEF WillWrite, Analyze
    <3>3. QED
      BY <2>1, <3>2 DEF RepairPlan
  <2>3. QED
    BY <2>1, <2>2 DEF SafeFor, OnlyMbrInFlight
<1>4. CASE WriteStep
  <2>1. plan' \in {plan, <<>>}
    BY <1>4 DEF WriteStep, Advance, Stop
  <2>2. QED
    BY <1>4, <2>1, SafeAfterWrite DEF WriteStep
<1>5. CASE FailingWrite
  <2>1. PICK which : disk' = Put(disk, plan[pc], which)
    BY <1>5 DEF FailingWrite
  <2>2. ~Idle /\ medium' = medium /\ plan' \in {plan, <<>>}
    BY <1>5 DEF FailingWrite, Stop
  <2>3. QED
    BY <2>1, <2>2, SafeAfterWrite
<1>6. CASE FlushStep
  <2>1. ~Idle /\ disk' = disk /\ medium' = disk /\ plan' \in {plan, <<>>}
    BY <1>6 DEF FlushStep, Advance, Stop
  <2>2. OnlyMbrInFlight'
    BY <2>1 DEF OnlyMbrInFlight
  <2>3. CASE plan = MbrPlan
    BY <2>1, <2>2, <2>3 DEF SafeFor
  <2>4. CASE BeginsWithArray(plan, src)
    <3>1. pc # 1
      BY <1>6, <2>4 DEF FlushStep, BeginsWithArray, ArrayStep, Write
    <3>2. ArrayOn(disk, src)
      BY <1>1, <2>1, <2>4, <3>1 DEF OrderedFor, Idle
    <3>3. QED
      BY <2>1, <3>2 DEF SafeFor
  <2>5. QED
    BY <1>1, <2>1, <2>3, <2>4 DEF OrderedFor
<1>7. CASE FailingFlush
  BY <1>7 DEF FailingFlush, Stop, SafeFor, OnlyMbrInFlight
<1>8. CASE PowerCut
  <2>1. disk' = medium' /\ plan' = <<>>
    BY <1>8 DEF PowerCut, Stop
  <2>2. QED
    BY <2>1 DEF SafeFor, OnlyMbrInFlight
<1>9. CASE UNCHANGED vars
  BY <1>9 DEF vars, SafeFor, OnlyMbrInFlight
<1>10. QED
  BY <1>3, <1>4, <1>5, <1>6, <1>7, <1>8, <1>9 DEF Next, ApplyStep, Fault

LEMMA MInvStep == MInv /\ [Next]_vars => MInv'
<1> SUFFICES ASSUME MInv, [Next]_vars PROVE MInv'
  OBVIOUS
<1> PICK d : d = disk0
  OBVIOUS
<1>1. disk0' = disk0 /\ d \in Disk
  BY DEF MInv, OInv, IInv, TypeOK, Next, ApplyStep, Fault, WriteStep, FlushStep,
         FailingWrite, FailingFlush, PowerCut, RunRepair, Start, vars
<1>2. OInv'
  BY OInvStep DEF MInv
<1>3. Analyze(d) = "MainRepairable" => SafeFor(d)'
  BY <1>1, SafeKept DEF MInv
<1>4. QED
  BY <1>1, <1>2, <1>3 DEF MInv

\* What a header must be for a main table to be rebuilt from it.
Rebuildable(src) ==
    /\ src.sound
    /\ src.my = LastBlock
    /\ src.n > 0
    /\ Len(src.crc) = src.n
    /\ UsableRangeOk(src)
    /\ 2 + src.n <= src.first

LEMMA SourceIsRebuildable ==
    ASSUME NEW d \in Disk, Analyze(d) = "MainRepairable"
    PROVE  Rebuildable(HeaderAt(d, LastBlock))
BY ArrayBelowPartitions, MainRepairableFacts
   DEF SoundButForAlternate, Rebuildable

\* The main header a repair writes, over its array, is a valid main GPT.
LEMMA RebuiltIsValid ==
    ASSUME NEW src \in Header, Rebuildable(src),
           NEW e \in Disk, e[1] = MainHeader(src), ArrayOn(e, src)
    PROVE  IsValid(e, 1)
<1> DEFINE new == HeaderAt(e, 1)
<1>1. src \in Header /\ src.sound /\ src.n \in Nat /\ src.n > 0
      /\ Len(src.crc) = src.n /\ src.crc \in Seq(Data) /\ 2 + src.n <= LastBlock
      /\ UsableRangeOk(src)
  <2>1. src.n \in Nat /\ src.first \in Nat /\ src.last \in Nat /\ src.crc \in Seq(Data)
    BY GeometryAssumption DEF Header
  <2>2. QED
    BY <2>1, GeometryAssumption DEF Rebuildable, UsableRangeOk
<1>2. e[1] \in Header
  BY <1>1, WrittenHeadersType
<1>3. new = MainHeader(src)
  BY <1>2 DEF HeaderAt
<1>4. /\ new.sound /\ new.my = 1 /\ new.alt = LastBlock /\ new.elba = 2
      /\ new.n = src.n /\ new.crc = src.crc
      /\ new.first = src.first /\ new.last = src.last
  <2> HIDE DEF new
  <2>1. new = [src EXCEPT !.my = 1, !.alt = LastBlock, !.elba = 2]
    BY <1>3 DEF MainHeader
  <2>2. QED
    BY <1>1, <2>1 DEF Header
<1>5. e[1] # Unreadable
  BY <1>2, BlockAssumption
<1>6. \A i \in 1..src.n : e[i + 1] = src.crc[i] /\ src.crc[i] \in Data
  BY <1>1 DEF ArrayOn
<1>7. Content(e, 2, src.n) = src.crc
  <2>1. \A i \in 1..src.n : 2 + i - 1 = i + 1
    BY <1>1
  <2>2. src.crc = [i \in 1..src.n |-> src.crc[i]]
    BY <1>1
  <2>3. QED
    BY <1>6, <2>1, <2>2 DEF Content
<1>8. Readable(e, 2, src.n)
  <2>1. ASSUME NEW l \in 2..(2 + src.n - 1) PROVE e[l] # Unreadable
    <3>1. PICK i \in 1..src.n : l = i + 1
      <4>1. l - 1 \in 1..src.n /\ l = (l - 1) + 1
        BY <1>1, <2>1
      <4>2. QED
        BY <4>1
    <3>2. QED
      BY <1>6, <3>1, BlockAssumption
  <2>2. Fits(2, src.n)
    BY <1>1, GeometryAssumption DEF Fits
  <2>3. QED
    BY <2>1, <2>2 DEF Readable
<1>9. UsableRangeOk(new)
  BY <1>1, <1>4 DEF UsableRangeOk
<1>10. QED
  BY <1>1, <1>4, <1>5, <1>7, <1>8, <1>9, GeometryAssumption
     DEF IsValid, SoundButForAlternate, AlternateOf

LEMMA MainHeaderValid ==
    ASSUME NEW d \in Disk, Analyze(d) = "MainRepairable", NEW e \in Disk,
           e[1] = MainHeader(HeaderAt(d, LastBlock)),
           ArrayOn(e, HeaderAt(d, LastBlock))
    PROVE  IsValid(e, 1)
BY ArrayBelowPartitions, SourceIsRebuildable, RebuiltIsValid

\* The main GPT the disk came with stays valid where its array does.
LEMMA OldMainStaysValid ==
    ASSUME NEW d \in Disk, Analyze(d) = "MainRepairable", d = disk0,
           NEW x \in Disk, NEW y \in Disk,
           \A l \in LBA : /\ WrittenBy(MainSteps(d), x, l)
                          /\ WrittenBy(MainSteps(d), y, l),
           ArrayOn(x, HeaderAt(d, LastBlock)), ArrayOn(y, HeaderAt(d, LastBlock)),
           x[1] = y[1], IsValid(x, 1)
    PROVE  IsValid(y, 1)
<1> DEFINE src == HeaderAt(d, LastBlock)
           h == HeaderAt(x, 1)
<1>1. SoundButForAlternate(x, 1) /\ HeaderAt(y, 1) = h
  BY DEF IsValid, HeaderAt
<1>2. h \in Header /\ h.elba = 2 /\ h.n \in Nat /\ Fits(2, h.n)
      /\ Content(x, 2, h.n) = h.crc /\ Readable(x, 2, h.n)
  BY <1>1, SourceFacts, GeometryAssumption DEF SoundButForAlternate
<1>3. src \in Header /\ src = d[LastBlock] /\ src.n \in Nat
  BY MainRepairableFacts, SourceFacts, GeometryAssumption
<1>4. ASSUME NEW i \in 1..h.n PROVE x[i + 1] = y[i + 1]
  <2>1. i + 1 \in LBA /\ i + 1 \notin {0, 1} /\ (i + 1) - 1 = i /\ 2 + i - 1 = i + 1
    BY <1>2, GeometryAssumption DEF Fits, LBA
  <2>2. i + 1 # LastBlock
    <3>1. x[i + 1] = h.crc[i]
      BY <1>2, <2>1 DEF Content
    <3>2. h.crc \in Seq(Data) /\ Len(h.crc) = h.n
      BY <1>2, ContentType DEF Header
    <3>3. x[i + 1] \in Data
      BY <3>1, <3>2
    <3>4. LastBlock \in LBA
      BY GeometryAssumption DEF LBA
    <3>5. x[LastBlock] \in Header
      BY <1>3, <3>4, SourceHeaderKept, WrittenHeadersType
    <3>6. QED
      BY <3>3, <3>5, BlockAssumption
  <2>3. CASE i \in 1..src.n
    BY <2>3 DEF ArrayOn
  <2>4. CASE i \notin 1..src.n
    BY <2>1, <2>2, <2>4, BlocksOfRepair
  <2>5. QED
    BY <2>3, <2>4
<1>5. Content(y, 2, h.n) = h.crc
  <2>1. \A i \in 1..h.n : 2 + i - 1 = i + 1
    BY <1>2
  <2>2. QED
    BY <1>2, <1>4, <2>1 DEF Content
<1>6. Readable(y, 2, h.n)
  <2>1. ASSUME NEW l \in 2..(2 + h.n - 1) PROVE y[l] # Unreadable
    <3>1. PICK i \in 1..h.n : l = i + 1
      <4>1. l - 1 \in 1..h.n /\ l = (l - 1) + 1
        BY <1>2, <2>1
      <4>2. QED
        BY <4>1
    <3>2. x[l] # Unreadable
      BY <1>2, <2>1 DEF Readable
    <3>3. QED
      BY <1>4, <3>1, <3>2
  <2>2. QED
    BY <1>2, <2>1 DEF Readable
<1>7. QED
  BY <1>1, <1>2, <1>5, <1>6 DEF IsValid, SoundButForAlternate

LEMMA MInvKeepsMain ==
    MInv /\ [Next]_vars => (IsValid(medium, 1) => IsValid(medium', 1))
<1> SUFFICES ASSUME MInv, [Next]_vars, IsValid(medium, 1)
             PROVE  IsValid(medium', 1)
  OBVIOUS
<1> PICK d : d = disk0
  OBVIOUS
<1>1. TypeOK /\ d \in Disk /\ disk \in Disk /\ medium \in Disk /\ 1 \in LBA
      /\ \A l \in LBA : /\ WrittenBy(RepairSteps(d), disk, l)
                        /\ WrittenBy(RepairSteps(d), medium, l)
  BY GeometryAssumption DEF MInv, OInv, IInv, TypeOK, OnlyWrittenBy, LBA
<1>2. MInv'
  BY MInvStep
<1>3. disk0' = disk0
  BY DEF Next, ApplyStep, Fault, WriteStep, FlushStep, FailingWrite, FailingFlush,
         PowerCut, RunRepair, Start, vars
<1>4. medium' \in Disk
      /\ \A l \in LBA : WrittenBy(RepairSteps(d), medium', l)
  <2>1. medium' \in Disk /\ \A l \in LBA : WrittenBy(RepairSteps(disk0), medium, l)'
    BY <1>2 DEF MInv, OInv, IInv, TypeOK, OnlyWrittenBy
  <2>2. QED
    BY <1>3, <2>1 DEF WrittenBy
<1>5. \A l \in LBA : medium'[l] = disk[l] \/ medium'[l] = medium[l]
  BY DEF Next, ApplyStep, Fault, WriteStep, FlushStep, FailingWrite, FailingFlush,
         PowerCut, RunRepair, Start, vars
<1>6. CASE Analyze(d) # "MainRepairable"
  <2>1. \A s \in RepairSteps(d) : \A l \in Spanned(s) : l = 0
    BY <1>6, MbrSpans DEF RepairSteps
  <2>2. \A l \in LBA \ {0} : medium[l] = medium'[l]
    BY <1>1, <1>4, <2>1 DEF WrittenBy
  <2>3. QED
    BY <1>1, <1>4, <2>2, TablesIgnoreMbr DEF IsValid
<1>7. CASE Analyze(d) = "MainRepairable"
  <2> DEFINE src == HeaderAt(d, LastBlock)
  <2>1. SafeFor(d) /\ RepairSteps(d) = MainSteps(d)
    BY <1>7 DEF MInv, RepairSteps
  <2>2. CASE OnlyMbrInFlight
    <3>1. \A l \in LBA \ {0} : medium[l] = medium'[l]
      BY <1>5, <2>2 DEF OnlyMbrInFlight
    <3>2. QED
      BY <1>1, <1>4, <3>1, TablesIgnoreMbr DEF IsValid
  <2>3. CASE ArrayOn(disk, src) /\ ArrayOn(medium, src)
    <3>1. ArrayOn(medium', src)
      <4>1. src.n \in Nat /\ 2 + src.n <= LastBlock
        BY <1>1, <1>7, ArrayBelowPartitions, GeometryAssumption
      <4>2. \A i \in 1..src.n : i + 1 \in LBA
        BY <4>1, GeometryAssumption DEF LBA
      <4>3. QED
        BY <1>5, <2>3, <4>2 DEF ArrayOn
    <3>2. medium'[1] \in {d[1], MainHeader(src)}
      BY <1>1, <1>4, <1>7, <2>1, BlocksOfRepair
    <3>3. CASE medium'[1] = MainHeader(src)
      BY <1>1, <1>4, <1>7, <3>1, <3>3, MainHeaderValid
    <3>4. CASE medium'[1] = d[1]
      <4>1. medium[1] = medium'[1]
        BY <1>1, <1>5, <2>1, <3>4 DEF SafeFor
      <4>2. QED
        BY <1>1, <1>4, <1>7, <2>1, <2>3, <3>1, <4>1, OldMainStaysValid
    <3>5. QED
      BY <3>2, <3>3, <3>4
  <2>4. QED
    BY <2>1, <2>2, <2>3 DEF SafeFor
<1>8. QED
  BY <1>6, <1>7

\* Spec => MainNeverLost: from the moment a valid main GPT is durable, no step
\* of any attempt and no interruption makes it invalid again.
THEOREM RepairNeverLosesMain == Spec => MainNeverLost
<1>1. MInv /\ [Next]_vars => [IsValid(medium, 1) => IsValid(medium', 1)]_vars
  BY MInvKeepsMain
<1>2. QED
  BY <1>1, MInvInit, MInvStep, PTL DEF Spec, MainNeverLost

-----------------------------------------------------------------------------
(* Repair implements TwoCopies                                               *)

MainCopy(d) == CopyAt(d, 1, IsValid(d, 1))
SecondCopy(d) == CopyAt(d, LastBlock, UsableSource(d))

\* The table a disk's main copy may hold at all while it is repaired.
LEMMA MainCopyOfRepair ==
    ASSUME NEW d \in Disk, Analyze(d) = "MainRepairable", d = disk0,
           NEW e \in Disk, \A l \in LBA : WrittenBy(MainSteps(d), e, l)
    PROVE  LET src == HeaderAt(d, LastBlock)
           IN  /\ e[1] = d[1] => MainCopy(e) \in {NoTable, HeaderAt(d, 1).crc}
               /\ e[1] # d[1] => MainCopy(e) \in {NoTable, src.crc}
               /\ IsValid(e, 1) => MainCopy(e) # NoTable
<1> DEFINE src == HeaderAt(d, LastBlock)
<1>1. e[1] = d[1] => MainCopy(e) \in {NoTable, HeaderAt(d, 1).crc}
  BY DEF MainCopy, CopyAt, HeaderAt
<1>2. ASSUME e[1] # d[1] PROVE MainCopy(e) \in {NoTable, src.crc}
  <2>1. e[1] = MainHeader(src)
    BY <1>2, BlocksOfRepair
  <2>2. src \in Header
    BY ArrayBelowPartitions
  <2>3. MainHeader(src) \in Header /\ MainHeader(src).crc = src.crc
    BY <2>2, WrittenHeadersType DEF MainHeader, Header
  <2>4. QED
    BY <2>1, <2>3 DEF MainCopy, CopyAt, HeaderAt
<1>3. ASSUME IsValid(e, 1) PROVE MainCopy(e) # NoTable
  <2>1. LET h == HeaderAt(e, 1) IN h.n \in 1..MaxArray /\ Content(e, h.elba, h.n) = h.crc
    BY <1>3, SourceFacts DEF IsValid
  <2>2. HeaderAt(e, 1).crc # <<>>
    BY <2>1, GeometryAssumption DEF Content
  <2>3. QED
    BY <1>3, <2>2 DEF MainCopy, CopyAt, NoTable
<1>4. QED
  BY <1>1, <1>2, <1>3

\* The second copy is the source's table or, where the array it is read from
\* was in the way, none.
LEMMA SecondCopyOfRepair ==
    ASSUME NEW d \in Disk, Analyze(d) = "MainRepairable", d = disk0,
           NEW e \in Disk, \A l \in LBA : WrittenBy(MainSteps(d), e, l)
    PROVE  LET src == HeaderAt(d, LastBlock)
           IN  /\ src.crc # NoTable
               /\ SecondCopy(d) = src.crc
               /\ SecondCopy(e) \in {NoTable, src.crc}
               /\ SourceApart(d) => SecondCopy(e) = src.crc
<1> DEFINE src == HeaderAt(d, LastBlock)
<1>1. UsableSource(d) /\ SoundButForAlternate(d, LastBlock)
  BY MainRepairableFacts
<1>2. src \in Header /\ src = d[LastBlock] /\ src.n \in 1..MaxArray
      /\ Content(d, src.elba, src.n) = src.crc
  BY <1>1, SourceFacts
<1>3. src.crc # NoTable
  BY <1>2, GeometryAssumption DEF Content, NoTable
<1>4. SecondCopy(d) = src.crc
  BY <1>1 DEF SecondCopy, CopyAt
<1>5. HeaderAt(e, LastBlock).crc = src.crc
  <2>1. LastBlock \in LBA
    BY GeometryAssumption DEF LBA
  <2>2. e[LastBlock] = src \/ e[LastBlock] = CorrectedSecondary(src)
    BY <1>2, <2>1, SourceHeaderKept
  <2>3. CorrectedSecondary(src) \in Header /\ CorrectedSecondary(src).crc = src.crc
    BY <1>2, WrittenHeadersType DEF CorrectedSecondary, Header
  <2>4. QED
    BY <1>2, <2>2, <2>3 DEF HeaderAt
<1>6. SecondCopy(e) \in {NoTable, src.crc}
  BY <1>5 DEF SecondCopy, CopyAt
<1>7. SourceApart(d) => SecondCopy(e) = src.crc
  BY SourceStaysUsable DEF SecondCopy, CopyAt
<1>8. QED
  BY <1>3, <1>4, <1>6, <1>7

\* Only LBA 0 apart, two disks have the same two copies.
LEMMA SameCopies ==
    ASSUME NEW d \in Disk, NEW e \in Disk, \A l \in LBA \ {0} : d[l] = e[l]
    PROVE  MainCopy(e) = MainCopy(d) /\ SecondCopy(e) = SecondCopy(d)
<1>1. \A role \in {1, LastBlock} : HeaderAt(e, role) = HeaderAt(d, role)
  BY GeometryAssumption DEF HeaderAt, LBA
<1>2. \A role \in {1, LastBlock} :
        SoundButForAlternate(e, role) <=> SoundButForAlternate(d, role)
  BY TablesIgnoreMbr
<1>3. 1 \in {1, LastBlock} /\ LastBlock \in {1, LastBlock}
  OBVIOUS
<1>4. \A role \in {1, LastBlock} : /\ IsValid(e, role) <=> IsValid(d, role)
                                   /\ OnlyWrongAlternate(e, role)
                                        <=> OnlyWrongAlternate(d, role)
  BY <1>1, <1>2 DEF IsValid, OnlyWrongAlternate
<1>5. (UsableSource(e) <=> UsableSource(d)) /\ (IsValid(e, 1) <=> IsValid(d, 1))
  BY <1>3, <1>4 DEF UsableSource
<1>6. QED
  BY <1>1, <1>3, <1>5 DEF MainCopy, SecondCopy, CopyAt

\* What one step of a repair does to the two copies on the medium.
LEMMA StepOnCopies ==
    ASSUME MInv, [Next]_vars
    PROVE  \/ /\ MainCopy(medium') = MainCopy(medium)
              /\ SecondCopy(medium') = SecondCopy(medium)
           \/ LET stale == HeaderAt(disk0, 1).crc
                  source == SecondCopy(disk0)
              IN  /\ ~IsValid(disk0, 1)
                  /\ source # NoTable
                  /\ \/ MainCopy(medium') = MainCopy(medium)
                     \/ /\ MainCopy(medium) \in {NoTable, stale}
                        /\ MainCopy(medium') \in {stale, source}
                  /\ SecondCopy(medium') \in {NoTable, source}
                  /\ SourceApart(disk0) => SecondCopy(medium') = SecondCopy(medium)
<1> PICK d : d = disk0
  OBVIOUS
<1>1. d \in Disk /\ disk \in Disk /\ medium \in Disk /\ 1 \in LBA
      /\ \A l \in LBA : WrittenBy(RepairSteps(d), medium, l)
  BY GeometryAssumption DEF MInv, OInv, IInv, TypeOK, OnlyWrittenBy, LBA
<1>2. disk0' = disk0
      /\ \A l \in LBA : medium'[l] = disk[l] \/ medium'[l] = medium[l]
  BY DEF Next, ApplyStep, Fault, WriteStep, FlushStep, FailingWrite, FailingFlush,
         PowerCut, RunRepair, Start, vars
<1>3. medium' \in Disk
      /\ \A l \in LBA : WrittenBy(RepairSteps(d), medium', l)
  <2>1. medium' \in Disk /\ \A l \in LBA : WrittenBy(RepairSteps(disk0), medium, l)'
    BY MInvStep DEF MInv, OInv, IInv, TypeOK, OnlyWrittenBy
  <2>2. QED
    BY <1>2, <2>1 DEF WrittenBy
<1>4. CASE Analyze(d) # "MainRepairable"
  <2>1. \A s \in RepairSteps(d) : \A l \in Spanned(s) : l = 0
    BY <1>4, MbrSpans DEF RepairSteps
  <2>2. \A l \in LBA \ {0} : medium[l] = medium'[l]
    BY <1>1, <1>3, <2>1 DEF WrittenBy
  <2>3. QED
    BY <1>1, <1>3, <2>2, SameCopies
<1>5. CASE Analyze(d) = "MainRepairable"
  <2> DEFINE stale == HeaderAt(d, 1).crc
             source == HeaderAt(d, LastBlock).crc
  <2>1. SafeFor(d) /\ RepairSteps(d) = MainSteps(d)
    BY <1>5 DEF MInv, RepairSteps
  <2>2. /\ source # NoTable
        /\ SecondCopy(d) = source
        /\ SecondCopy(medium) \in {NoTable, source}
        /\ SecondCopy(medium') \in {NoTable, source}
        /\ SourceApart(d) => SecondCopy(medium') = SecondCopy(medium)
    BY <1>1, <1>3, <1>5, <2>1, SecondCopyOfRepair
  <2>3. /\ medium[1] = d[1] => MainCopy(medium) \in {NoTable, stale}
        /\ medium[1] # d[1] => MainCopy(medium) \in {NoTable, source}
        /\ IsValid(medium, 1) => MainCopy(medium) # NoTable
    BY <1>1, <1>5, <2>1, MainCopyOfRepair
  <2>4. /\ medium'[1] = d[1] => MainCopy(medium') \in {NoTable, stale}
        /\ medium'[1] # d[1] => MainCopy(medium') \in {NoTable, source}
        /\ IsValid(medium', 1) => MainCopy(medium') # NoTable
    BY <1>1, <1>3, <1>5, <2>1, MainCopyOfRepair
  <2>5. ~IsValid(medium, 1) => MainCopy(medium) = NoTable
    BY DEF MainCopy, CopyAt
  <2>6. IsValid(medium, 1) => IsValid(medium', 1)
    BY MInvKeepsMain
  <2>7. medium[1] # d[1] => medium'[1] = medium[1]
    BY <1>1, <1>2, <2>1 DEF SafeFor
  <2>8. \/ MainCopy(medium') = MainCopy(medium)
        \/ /\ MainCopy(medium) \in {NoTable, stale}
           /\ MainCopy(medium') \in {stale, source}
    BY <2>3, <2>4, <2>5, <2>6, <2>7
  <2>9. ~IsValid(d, 1)
    BY <1>1, <1>5, MainRepairableFacts
  <2>10. QED
    BY <2>2, <2>8, <2>9
<1>6. QED
  BY <1>4, <1>5

LEMMA CopiesInit == Init => Copies!Init
<1> SUFFICES ASSUME Init PROVE Copies!Init
  OBVIOUS
<1>1. disk0 \in Disk /\ medium = disk0
  BY DisksAssumption DEF Init
<1>2. \A role \in {1, LastBlock} : HeaderAt(disk0, role).crc \in Seq(Data)
  <2>1. ASSUME NEW role \in {1, LastBlock} PROVE HeaderAt(disk0, role) \in Header
    BY <1>1, GeometryAssumption, HeaderAtType DEF LBA
  <2>2. QED
    BY <2>1 DEF Header
<1>3. 1 \in {1, LastBlock} /\ LastBlock \in {1, LastBlock}
  OBVIOUS
<1>4. /\ CopyAt(medium, 1, IsValid(medium, 1)) \in (Seq(Data) \ {NoTable}) \cup {NoTable}
      /\ CopyAt(medium, LastBlock, UsableSource(medium))
           \in (Seq(Data) \ {NoTable}) \cup {NoTable}
      /\ HeaderAt(disk0, 1).crc \in (Seq(Data) \ {NoTable}) \cup {NoTable}
  BY <1>1, <1>2, <1>3 DEF CopyAt
<1>5. ~IsValid(disk0, 1) <=> CopyAt(medium, 1, IsValid(medium, 1)) = NoTable
  <2>1. ASSUME IsValid(disk0, 1) PROVE HeaderAt(disk0, 1).crc # NoTable
    <3>1. LET h == HeaderAt(disk0, 1)
          IN  h.n \in 1..MaxArray /\ Content(disk0, h.elba, h.n) = h.crc
      BY <1>1, <2>1, SourceFacts DEF IsValid
    <3>2. QED
      BY <3>1, GeometryAssumption DEF Content, NoTable
  <2>2. QED
    BY <1>1, <2>1 DEF CopyAt
<1>6. (~SourceApart(disk0)) \in BOOLEAN /\ (~IsValid(disk0, 1)) \in BOOLEAN
  OBVIOUS
<1>8. CopyAt(disk0, LastBlock, UsableSource(disk0))
        = CopyAt(medium, LastBlock, UsableSource(medium))
  BY <1>1
<1>7. QED
  BY <1>4, <1>5, <1>6, <1>8 DEF Copies!Init

LEMMA CopiesStep == MInv /\ [Next]_vars => [Copies!Next]_(Copies!copies)
<1> SUFFICES ASSUME MInv, [Next]_vars PROVE [Copies!Next]_(Copies!copies)
  OBVIOUS
<1>1. disk0' = disk0
  BY DEF Next, ApplyStep, Fault, WriteStep, FlushStep, FailingWrite, FailingFlush,
         PowerCut, RunRepair, Start, vars
<1> DEFINE main == CopyAt(medium, 1, IsValid(medium, 1))
           second == CopyAt(medium, LastBlock, UsableSource(medium))
           source == CopyAt(disk0, LastBlock, UsableSource(disk0))
           stale == HeaderAt(disk0, 1).crc
           exposed == ~SourceApart(disk0)
           broken == ~IsValid(disk0, 1)
<1>2. /\ main' = MainCopy(medium') /\ main = MainCopy(medium)
      /\ second' = SecondCopy(medium') /\ second = SecondCopy(medium)
      /\ source' = source /\ source = SecondCopy(disk0)
      /\ stale' = stale /\ exposed' = exposed /\ broken' = broken
  BY <1>1 DEF MainCopy, SecondCopy
<1>3. CASE main' = main /\ second' = second
  BY <1>2, <1>3 DEF Copies!copies
<1>4. CASE ~(main' = main /\ second' = second)
  <2>1. /\ broken /\ source # NoTable
        /\ \/ main' = main
           \/ main \in {NoTable, stale} /\ main' \in {stale, source}
        /\ second' \in {NoTable, source}
        /\ ~exposed => second' = second
    BY <1>2, <1>4, StepOnCopies
  <2>2. Copies!MainRebuilt \/ main' = main
    BY <2>1 DEF Copies!MainRebuilt
  <2>3. UNCHANGED Copies!fixed
    BY <1>2 DEF Copies!fixed
  <2>4. CASE exposed
    BY <2>1, <2>2, <2>3, <2>4 DEF Copies!Next, Copies!Trample
  <2>5. CASE ~exposed
    BY <1>4, <2>1, <2>2, <2>3, <2>5 DEF Copies!Next, Copies!Rebuild
  <2>6. QED
    BY <2>4, <2>5
<1>5. QED
  BY <1>3, <1>4

\* Spec => ImplementsTwoCopies: plans, write caches, attempts, failing steps
\* and power cuts, seen from the medium, only ever rebuild a broken main copy
\* out of the second.
THEOREM RepairImplementsTwoCopies == Spec => ImplementsTwoCopies
<1>1. MInv /\ [Next]_vars => [Copies!Next]_(Copies!copies)
  BY CopiesStep
<1>2. QED
  BY <1>1, CopiesInit, MInvInit, MInvStep, PTL DEF Spec, ImplementsTwoCopies, Copies!Spec

\* Spec => LastTableStays of the copies: while the second copy's array is out
\* of the main one's way no step takes the last table that can be read.
THEOREM RepairSparesLastTable == Spec => Copies!LastTableStays
<1> DEFINE main == CopyAt(medium, 1, IsValid(medium, 1))
           second == CopyAt(medium, LastBlock, UsableSource(medium))
           exposed == ~SourceApart(disk0)
           stays == ~exposed /\ (main # NoTable \/ second # NoTable)
                      => main' # NoTable \/ second' # NoTable
<1>1. ASSUME [Copies!Next]_(Copies!copies) PROVE stays \/ UNCHANGED Copies!copies
  BY <1>1 DEF Copies!Next, Copies!Rebuild, Copies!Trample, Copies!MainRebuilt
<1>2. [Copies!Next]_(Copies!copies) => [stays]_(Copies!copies)
  BY <1>1
<1>3. QED
  BY <1>2, RepairImplementsTwoCopies, PTL
     DEF ImplementsTwoCopies, Copies!Spec, Copies!LastTableStays

-----------------------------------------------------------------------------
(* A repair that comes to its end                                          *)

\* A repair that reports success is done: everything it wrote is durable, the main
\* GPT is valid, and the next analysis finds nothing to write, whatever failures and
\* interruptions of earlier attempts the disk was planned from (apply, analyze).
RepairFinishes ==
    [][~Idle /\ Idle' /\ faults' = faults =>
           medium' = disk' /\ IsValid(disk', 1) /\ ~WillWrite(Analyze(disk'))]_vars

\* What step s writes is on x.
On(x, s) == \A l \in Spanned(s) : x[l] = s.blocks[l - s.lba + 1]

\* The plan at hand is that of some disk, and what is done of it is on this one.
AttemptFrom(d) ==
    /\ WillWrite(Analyze(d))
    /\ plan = RepairPlan(d)
    /\ disk[0] \in {d[0], ProtectiveMbr}
    /\ Analyze(d) = "MbrOnly" => \A l \in LBA \ {0} : disk[l] = d[l]
    /\ \A i \in 1..(pc - 1) : On(disk, plan[i])

AttemptInv == ~Idle => \E d \in Disk : AttemptFrom(d)

LEMMA RepairPlanSteps ==
    ASSUME NEW d \in Disk, WillWrite(Analyze(d))
    PROVE  RepairPlan(d) \in Seq(RepairSteps(d))
<1>1. CASE Analyze(d) = "MbrOnly"
  <2>1. /\ RepairPlan(d) = <<Write(0, <<ProtectiveMbr>>), Flush>>
        /\ RepairSteps(d) = {Flush, Write(0, <<ProtectiveMbr>>)}
    BY <1>1 DEF RepairPlan, MbrPlan, RepairSteps
  <2> QED
    BY <2>1
<1>2. CASE Analyze(d) = "MainRepairable"
  <2>1. RepairPlan(d) = MainPlan(d) /\ RepairSteps(d) = MainSteps(d)
    BY <1>2 DEF RepairPlan, RepairSteps
  <2> QED
    BY <1>2, <2>1, MainPlanSteps
<1> QED
  BY <1>1, <1>2 DEF WillWrite

\* Each block of the device is the business of one step.
LEMMA RepairStepsApart ==
    ASSUME NEW d \in Disk, WillWrite(Analyze(d)),
           NEW s \in RepairSteps(d), NEW l \in Spanned(s)
    PROVE  /\ l \in LBA
           /\ l = 0 => s = Write(0, <<ProtectiveMbr>>)
           /\ Analyze(d) = "MbrOnly" => l = 0
           /\ \A t \in RepairSteps(d) : l \in Spanned(t) => t = s
<1>1. CASE Analyze(d) = "MbrOnly"
  <2>1. RepairSteps(d) = {Flush, Write(0, <<ProtectiveMbr>>)}
    BY <1>1 DEF RepairSteps
  <2>2. Spanned(Flush) = {}
    BY DEF Flush, Spanned
  <2>3. l = 0 /\ 0 \in LBA
    BY <2>1, MbrSpans, GeometryAssumption DEF LBA
  <2> QED
    BY <2>1, <2>2, <2>3
<1>2. CASE Analyze(d) = "MainRepairable"
  <2> DEFINE src == HeaderAt(d, LastBlock)
             At(u) == \/ l = 0 /\ u = Write(0, <<ProtectiveMbr>>)
                      \/ l = 1 /\ u = Write(1, <<MainHeader(src)>>)
                      \/ 2 <= l /\ l < 2 + src.n /\ u = Write(2, src.crc)
                      \/ l = LastBlock /\ u = Write(LastBlock, <<CorrectedSecondary(src)>>)
  <2>1. RepairSteps(d) = MainSteps(d)
    BY <1>2 DEF RepairSteps
  <2>2. ASSUME NEW u \in RepairSteps(d), l \in Spanned(u) PROVE At(u)
    BY <1>2, <2>1, <2>2, MainSpans
  <2>3. src.n \in Nat /\ src.first \in Nat /\ 2 + src.n <= src.first /\ src.first <= LastBlock
    BY <1>2, ArrayBelowPartitions
  <2>4. l \in Int
    BY DEF Spanned
  <2>5. At(s)
    BY <2>2
  <2> HIDE DEF src
  <2>6. l \in LBA
    BY <2>3, <2>4, <2>5, GeometryAssumption DEF LBA
  <2>7. ASSUME NEW t \in RepairSteps(d), l \in Spanned(t) PROVE t = s
    <3>1. At(t)
      BY <2>2, <2>7
    <3> QED
      BY <2>3, <2>4, <2>5, <3>1, GeometryAssumption
  <2> QED
    BY <1>2, <2>3, <2>4, <2>5, <2>6, <2>7, GeometryAssumption
<1> QED
  BY <1>1, <1>2 DEF WillWrite

\* A step writes its blocks, and none of another step.
LEMMA OnAfterPut ==
    ASSUME NEW d \in Disk, WillWrite(Analyze(d)),
           NEW s \in RepairSteps(d), NEW t \in RepairSteps(d), NEW x, On(x, s) \/ s = t
    PROVE  On(Put(x, t, LBA), s)
<1> SUFFICES ASSUME NEW l \in Spanned(s)
             PROVE  Put(x, t, LBA)[l] = s.blocks[l - s.lba + 1]
  BY DEF On
<1>1. l \in LBA /\ (l \in Spanned(t) => t = s)
  BY RepairStepsApart
<1> QED
  BY <1>1 DEF Put, On

\* A plan's last step is a flush; before it come the array, the header, and the MBR
\* where it needs repair.
InPlan(steps, s) == \E i \in 1..Len(steps) : steps[i] = s

LEMMA JoinedInPlan ==
    ASSUME NEW S, NEW u \in Seq(S), NEW v \in Seq(S), NEW s, InPlan(u, s) \/ InPlan(v, s)
    PROVE  InPlan(u \o v, s)
<1>1. ASSUME NEW i \in 1..Len(v), v[i] = s PROVE InPlan(u \o v, s)
  <2>1. Len(u) + i \in 1..Len(u \o v) /\ (u \o v)[Len(u) + i] = v[i]
    OBVIOUS
  <2> QED
    BY <1>1, <2>1 DEF InPlan
<1>2. ASSUME NEW i \in 1..Len(u), u[i] = s PROVE InPlan(u \o v, s)
  <2>1. i \in 1..Len(u \o v) /\ (u \o v)[i] = u[i]
    OBVIOUS
  <2> QED
    BY <1>2, <2>1 DEF InPlan
<1> QED
  BY <1>1, <1>2 DEF InPlan

LEMMA LastJoined ==
    ASSUME NEW S, NEW u \in Seq(S), NEW e \in S
    PROVE  /\ Len(u \o <<e>>) = Len(u) + 1
           /\ (u \o <<e>>)[Len(u) + 1] = e
           /\ \A i \in 1..Len(u) : (u \o <<e>>)[i] = u[i]
OBVIOUS

LEMMA InMainPlan ==
    ASSUME NEW d \in Disk, Analyze(d) = "MainRepairable"
    PROVE  LET src == HeaderAt(d, LastBlock)
           IN  /\ \A i \in {Len(MainPlan(d))} : MainPlan(d)[i] = Flush
               /\ InPlan(MainPlan(d), ArrayStep(src))
               /\ InPlan(MainPlan(d), Write(1, <<MainHeader(src)>>))
               /\ NeedsRepair(Inspect(d)) => InPlan(MainPlan(d), Write(0, <<ProtectiveMbr>>))
<1> DEFINE src == HeaderAt(d, LastBlock)
           array == ArrayStep(src)
           mbr == Write(0, <<ProtectiveMbr>>)
           header == Write(1, <<MainHeader(src)>>)
           secondary == Write(LastBlock, <<CorrectedSecondary(src)>>)
           A == <<array, Flush>>
           B == When(NeedsRepair(Inspect(d)), mbr)
           C == << header >>
           D == When(OnlyWrongAlternate(d, LastBlock), secondary)
           T == {array, Flush, mbr, header, secondary}
<1>1. Content(d, src.elba, src.n) = src.crc
  BY MainRepairableFacts, SourceFacts
<1>2. MainPlan(d) = A \o B \o C \o D \o <<Flush>>
  BY <1>1 DEF MainPlan, ArrayStep
<1>3. /\ A \in Seq(T) /\ B \in Seq(T) /\ C \in Seq(T) /\ D \in Seq(T)
      /\ InPlan(A, array) /\ InPlan(C, header) /\ (NeedsRepair(Inspect(d)) => InPlan(B, mbr))
  <2> HIDE DEF array, mbr, header, secondary
  <2>1. mbr \in T /\ secondary \in T /\ A \in Seq(T) /\ C \in Seq(T)
    OBVIOUS
  <2>2. B \in Seq(T) /\ D \in Seq(T)
    BY <2>1, WhenType
  <2>3. InPlan(A, array)
    <3>1. 1 \in 1..Len(A) /\ A[1] = array
      OBVIOUS
    <3> QED
      BY <3>1 DEF InPlan
  <2>4. InPlan(C, header)
    <3>1. 1 \in 1..Len(C) /\ C[1] = header
      OBVIOUS
    <3> QED
      BY <3>1 DEF InPlan
  <2>5. ASSUME NeedsRepair(Inspect(d)) PROVE InPlan(B, mbr)
    <3>1. B = <<mbr>>
      BY <2>5 DEF When
    <3>2. 1 \in 1..Len(B) /\ B[1] = mbr
      BY <3>1
    <3> QED
      BY <3>2 DEF InPlan
  <2> QED
    BY <2>1, <2>2, <2>3, <2>4, <2>5
<1>4. Flush \in T
  OBVIOUS
<1> HIDE DEF A, B, C, D, T, array, mbr, header, secondary
<1>5. A \o B \in Seq(T) /\ A \o B \o C \in Seq(T) /\ A \o B \o C \o D \in Seq(T)
      /\ <<Flush>> \in Seq(T)
  BY <1>3, <1>4, ConcatType
<1>6. InPlan(A \o B, array) /\ (NeedsRepair(Inspect(d)) => InPlan(A \o B, mbr))
  BY <1>3, JoinedInPlan
<1>7. /\ InPlan(A \o B \o C, array) /\ InPlan(A \o B \o C, header)
      /\ NeedsRepair(Inspect(d)) => InPlan(A \o B \o C, mbr)
  BY <1>3, <1>5, <1>6, JoinedInPlan
<1>8. /\ InPlan(A \o B \o C \o D, array) /\ InPlan(A \o B \o C \o D, header)
      /\ NeedsRepair(Inspect(d)) => InPlan(A \o B \o C \o D, mbr)
  BY <1>3, <1>5, <1>7, JoinedInPlan
<1>9. /\ InPlan(MainPlan(d), array) /\ InPlan(MainPlan(d), header)
      /\ NeedsRepair(Inspect(d)) => InPlan(MainPlan(d), mbr)
  <2>1. PICK most \in Seq(T) : most = A \o B \o C \o D
    BY <1>5
  <2>2. MainPlan(d) = most \o <<Flush>>
    BY <1>2, <2>1
  <2>3. \A s : InPlan(most, s) => InPlan(most \o <<Flush>>, s)
    BY <1>5, JoinedInPlan
  <2> QED
    BY <1>8, <2>1, <2>2, <2>3
<1>10. \A i \in {Len(MainPlan(d))} : MainPlan(d)[i] = Flush
  BY <1>2, <1>4, <1>5, LastJoined
<1> QED
  BY <1>9, <1>10 DEF array, mbr, header

LEMMA AttemptStarts ==
    ASSUME TypeOK, RunRepair
    PROVE  AttemptInv'
<1>1. /\ plan' = RepairPlan(disk) /\ pc' = 1 /\ UNCHANGED <<disk, medium>>
      /\ WillWrite(Analyze(disk)) /\ disk \in Disk
  BY DEF RunRepair, Start, TypeOK
<1>2. PICK d \in Disk : d = disk
  BY <1>1
<1>3. AttemptFrom(d)'
  BY <1>1, <1>2 DEF AttemptFrom
<1> QED
  BY <1>3 DEF AttemptInv

\* A step of an attempt, and what it leaves for the ones after it.
LEMMA AttemptTaken ==
    ASSUME TypeOK, ~Idle, NEW d \in Disk, AttemptFrom(d), ApplyStep
    PROVE  /\ pc \in 1..Len(plan) /\ plan \in Seq(RepairSteps(d))
           /\ disk'[0] \in {d[0], ProtectiveMbr}
           /\ Analyze(d) = "MbrOnly" => \A l \in LBA \ {0} : disk'[l] = d[l]
           /\ \A i \in 1..pc : On(disk', plan[i])
           /\ plan[pc] = Flush => medium' = disk'
<1>1. /\ pc \in 1..Len(plan) /\ plan \in Seq(RepairSteps(d)) /\ Len(plan) \in Nat
      /\ WillWrite(Analyze(d))
  BY StepTaken, RepairPlanSteps DEF AttemptFrom
<1>2. \A i \in 1..pc : plan[i] \in RepairSteps(d)
  BY <1>1
<1>3. /\ disk[0] \in {d[0], ProtectiveMbr}
      /\ Analyze(d) = "MbrOnly" => \A l \in LBA \ {0} : disk[l] = d[l]
      /\ \A i \in 1..(pc - 1) : On(disk, plan[i])
  BY DEF AttemptFrom
<1>4. CASE plan[pc].op = "write" /\ medium' = medium /\ disk' = Put(disk, plan[pc], LBA)
  <2>1. PICK s \in RepairSteps(d) : s = plan[pc]
    BY <1>1, <1>2
  <2>2. disk' = Put(disk, s, LBA) /\ s # Flush
    BY <1>4, <2>1 DEF Flush
  <2>3. ASSUME NEW l \in LBA, l \notin Spanned(s) PROVE disk'[l] = disk[l]
    BY <2>2, <2>3 DEF Put
  <2>4. disk'[0] \in {d[0], ProtectiveMbr}
    <3>1. CASE 0 \in Spanned(s)
      <4>1. s = Write(0, <<ProtectiveMbr>>) /\ 0 \in LBA
        BY <1>1, <3>1, RepairStepsApart
      <4>2. disk'[0] = s.blocks[0 - s.lba + 1]
        BY <2>2, <3>1, <4>1 DEF Put
      <4> QED
        BY <4>1, <4>2 DEF Write
    <3>2. CASE 0 \notin Spanned(s)
      BY <1>3, <2>3, <3>2, GeometryAssumption DEF LBA
    <3> QED
      BY <3>1, <3>2
  <2>5. Analyze(d) = "MbrOnly" => \A l \in LBA \ {0} : disk'[l] = d[l]
    BY <1>1, <1>3, <2>3, RepairStepsApart
  <2>6. ASSUME NEW i \in 1..pc PROVE On(disk', plan[i])
    <3>1. plan[i] \in RepairSteps(d)
      BY <1>2
    <3>2. On(disk, plan[i]) \/ plan[i] = s
      <4>1. i = pc \/ i \in 1..(pc - 1)
        BY <1>1
      <4> QED
        BY <1>3, <2>1, <4>1
    <3> QED
      BY <1>1, <2>2, <3>1, <3>2, OnAfterPut
  <2> QED
    BY <1>1, <2>1, <2>2, <2>4, <2>5, <2>6
<1>5. CASE plan[pc].op = "flush" /\ medium' = disk /\ disk' = disk
  <2>1. plan[pc] = Flush
    <3>1. plan[pc] \in RepairSteps(d)
      BY <1>1, <1>2
    <3>2. \A s \in RepairSteps(d) : s = Flush \/ s.op = "write"
      BY <1>1 DEF RepairSteps, MainSteps, Write, WillWrite
    <3> QED
      BY <1>5, <3>1, <3>2
  <2>2. On(disk, Flush)
    BY DEF On, Flush, Spanned
  <2>3. \A i \in 1..pc : i = pc \/ i \in 1..(pc - 1)
    BY <1>1
  <2> QED
    BY <1>1, <1>3, <1>5, <2>1, <2>2, <2>3
<1> QED
  BY <1>4, <1>5, StepTaken

LEMMA AttemptInvStep ==
    ASSUME TypeOK, AttemptInv, [Next]_vars
    PROVE  AttemptInv'
<1>1. CASE RunRepair
  BY <1>1, AttemptStarts
<1>2. CASE Fault
  BY <1>2 DEF Fault, FailingWrite, FailingFlush, PowerCut, Stop, AttemptInv, Idle
<1>3. CASE ApplyStep
  <2> SUFFICES ASSUME ~Idle' PROVE AttemptInv'
    BY DEF AttemptInv
  <2>1. ~Idle
    BY <1>3 DEF ApplyStep, WriteStep, FlushStep
  <2>2. PICK d \in Disk : AttemptFrom(d)
    BY <2>1 DEF AttemptInv
  <2>3. pc' = pc + 1 /\ plan' = plan
    BY <1>3, <2>1, StepTaken DEF Idle
  <2>4. /\ pc \in 1..Len(plan)
        /\ disk'[0] \in {d[0], ProtectiveMbr}
        /\ Analyze(d) = "MbrOnly" => \A l \in LBA \ {0} : disk'[l] = d[l]
        /\ \A i \in 1..pc : On(disk', plan[i])
    BY <1>3, <2>1, <2>2, AttemptTaken
  <2>5. pc' - 1 = pc
    BY <2>3, <2>4
  <2>6. AttemptFrom(d)'
    <3>1. \A i \in 1..(pc' - 1) : On(disk, plan[i])'
      BY <2>3, <2>4, <2>5 DEF On
    <3> QED
      BY <2>2, <2>3, <2>4, <3>1 DEF AttemptFrom
  <2> QED
    BY <2>6 DEF AttemptInv
<1>4. CASE UNCHANGED vars
  BY <1>4 DEF vars, AttemptInv, AttemptFrom, Idle, On
<1> QED
  BY <1>1, <1>2, <1>3, <1>4 DEF Next

\* With its array and its header in place the main table is valid.
LEMMA AllOnIsValid ==
    ASSUME NEW d \in Disk, WillWrite(Analyze(d)), NEW x \in Disk,
           x[0] \in {d[0], ProtectiveMbr},
           Analyze(d) = "MbrOnly" => \A l \in LBA \ {0} : x[l] = d[l],
           \A i \in 1..Len(RepairPlan(d)) : On(x, RepairPlan(d)[i])
    PROVE  IsValid(x, 1) /\ ~WillWrite(Analyze(x))
<1>1. \A s : InPlan(RepairPlan(d), s) => On(x, s)
  BY DEF InPlan
<1>2. On(x, Write(0, <<ProtectiveMbr>>)) => ~NeedsRepair(Inspect(x))
  <2> SUFFICES ASSUME On(x, Write(0, <<ProtectiveMbr>>)) PROVE ~NeedsRepair(Inspect(x))
    OBVIOUS
  <2>1. x[0] = ProtectiveMbr
    BY DEF On, Write, Spanned
  <2> QED
    BY <2>1 DEF Inspect, ProtectiveMbr, NeedsRepair, Mbr, MbrStatus
<1>3. CASE Analyze(d) = "MbrOnly"
  <2>1. IsValid(d, 1)
    BY <1>3 DEF Analyze
  <2>2. IsValid(x, 1)
    BY <1>3, <2>1, TablesIgnoreMbr DEF IsValid
  <2>3. RepairPlan(d) = <<Write(0, <<ProtectiveMbr>>), Flush>>
    BY <1>3 DEF RepairPlan, MbrPlan
  <2>4. InPlan(RepairPlan(d), Write(0, <<ProtectiveMbr>>))
    <3>1. 1 \in 1..Len(RepairPlan(d)) /\ RepairPlan(d)[1] = Write(0, <<ProtectiveMbr>>)
      BY <2>3
    <3> QED
      BY <3>1 DEF InPlan
  <2> QED
    BY <1>1, <1>2, <2>2, <2>4 DEF Analyze, WillWrite
<1>4. CASE Analyze(d) = "MainRepairable"
  <2> DEFINE src == HeaderAt(d, LastBlock)
  <2>1. /\ InPlan(RepairPlan(d), ArrayStep(src))
        /\ InPlan(RepairPlan(d), Write(1, <<MainHeader(src)>>))
        /\ NeedsRepair(Inspect(d)) => InPlan(RepairPlan(d), Write(0, <<ProtectiveMbr>>))
    BY <1>4, InMainPlan DEF RepairPlan
  <2>2. src \in Header /\ src.n \in Nat /\ Len(src.crc) = src.n
    BY <1>4, ArrayBelowPartitions
  <2>3. ArrayOn(x, src)
    <3>1. On(x, ArrayStep(src))
      BY <1>1, <2>1
    <3> SUFFICES ASSUME NEW i \in 1..src.n PROVE x[i + 1] = src.crc[i]
      BY DEF ArrayOn
    <3> HIDE DEF src
    <3>2. ArrayStep(src).lba = 2 /\ ArrayStep(src).blocks = src.crc
      BY DEF ArrayStep, Write
    <3>3. i + 1 \in Spanned(ArrayStep(src)) /\ (i + 1) - 2 + 1 = i
      BY <2>2, <3>2 DEF Spanned
    <3> QED
      BY <3>1, <3>2, <3>3 DEF On
  <2>4. x[1] = MainHeader(src)
    <3>1. On(x, Write(1, <<MainHeader(src)>>))
      BY <1>1, <2>1
    <3> HIDE DEF src
    <3>2. 1 \in Spanned(Write(1, <<MainHeader(src)>>))
      BY DEF Write, Spanned
    <3> QED
      BY <3>1, <3>2 DEF On, Write
  <2>5. IsValid(x, 1)
    BY <1>4, <2>3, <2>4, MainHeaderValid
  <2>6. ~NeedsRepair(Inspect(x))
    <3>1. CASE NeedsRepair(Inspect(d))
      BY <1>1, <1>2, <2>1, <3>1
    <3>2. CASE ~NeedsRepair(Inspect(d)) /\ x[0] = d[0]
      BY <3>2 DEF Inspect
    <3>3. CASE x[0] = ProtectiveMbr
      BY <3>3 DEF Inspect, ProtectiveMbr, NeedsRepair, Mbr, MbrStatus
    <3> QED
      BY <3>1, <3>2, <3>3
  <2> QED
    BY <2>5, <2>6 DEF Analyze, WillWrite
<1> QED
  BY <1>3, <1>4 DEF WillWrite

\* The safety half of RepairConverges: an attempt that is not interrupted leaves
\* nothing to repair (repair::plan, apply, analyze).
THEOREM RepairEndsTheWork == Spec => RepairFinishes
<1>1. ASSUME TypeOK, TypeOK', AttemptInv, [Next]_vars, ~Idle, Idle', faults' = faults
      PROVE  medium' = disk' /\ IsValid(disk', 1) /\ ~WillWrite(Analyze(disk'))
  <2>1. PICK d \in Disk : AttemptFrom(d)
    BY <1>1 DEF AttemptInv
  <2>2. ApplyStep
    <3>1. faults \in Nat
      BY <1>1, FaultsAssumption DEF TypeOK
    <3>2. ~Fault
      BY <1>1, <3>1 DEF Fault, FailingWrite, FailingFlush, PowerCut
    <3>3. ~RunRepair /\ ~UNCHANGED vars
      BY <1>1 DEF RunRepair, Start, vars, Idle
    <3> QED
      BY <1>1, <3>2, <3>3 DEF Next
  <2>3. pc = Len(plan)
    <3>1. pc \in 1..Len(plan) /\ Len(plan) \in Nat
      BY <1>1, <2>2, StepTaken DEF TypeOK
    <3> QED
      BY <1>1, <2>2, <3>1 DEF ApplyStep, WriteStep, FlushStep, Advance, Idle
  <2>4. plan = RepairPlan(d) /\ WillWrite(Analyze(d))
    BY <2>1 DEF AttemptFrom
  <2>5. plan[pc] = Flush
    <3>1. CASE Analyze(d) = "MbrOnly"
      <4>1. plan = <<Write(0, <<ProtectiveMbr>>), Flush>>
        BY <2>4, <3>1 DEF RepairPlan, MbrPlan
      <4> QED
        BY <2>3, <4>1
    <3>2. CASE Analyze(d) = "MainRepairable"
      BY <2>3, <2>4, <3>2, InMainPlan DEF RepairPlan
    <3> QED
      BY <2>4, <3>1, <3>2 DEF WillWrite
  <2>6. /\ medium' = disk'
        /\ disk'[0] \in {d[0], ProtectiveMbr}
        /\ Analyze(d) = "MbrOnly" => \A l \in LBA \ {0} : disk'[l] = d[l]
        /\ \A i \in 1..Len(plan) : On(disk', plan[i])
    BY <1>1, <2>1, <2>2, <2>3, <2>5, AttemptTaken
  <2>7. disk' \in Disk
    BY <1>1 DEF TypeOK
  <2> QED
    BY <2>4, <2>6, <2>7, AllOnIsValid
<1>2. Init => AttemptInv
  BY DEF Init, AttemptInv, Idle
<1>3. TypeOK /\ AttemptInv /\ [Next]_vars => AttemptInv'
  BY AttemptInvStep
<1>4. TypeOK /\ TypeOK' /\ AttemptInv /\ [Next]_vars
        => [~Idle /\ Idle' /\ faults' = faults =>
              medium' = disk' /\ IsValid(disk', 1) /\ ~WillWrite(Analyze(disk'))]_vars
  BY <1>1
<1> QED
  BY <1>2, <1>3, <1>4, TypeCorrect, PTL DEF Spec, RepairFinishes

-----------------------------------------------------------------------------
(* Headers and arrays of two disks that are nearly the same                *)

\* h is g but for where the usable area starts.
Like(g, h) == h = [g EXCEPT !.first = h.first]

\* The array of header h holds the same blocks on x and on y.
SameArray(h, x, y) == \A i \in 1..h.n : x[h.elba + i - 1] = y[h.elba + i - 1]

\* Header h keeps its array off LBA 0 and off the two headers' blocks.
ArrayClear(h) == \A i \in 1..h.n : h.elba + i - 1 \in LBA \ {0, 1, LastBlock}

LEMMA HeaderFields ==
    ASSUME NEW h \in Header
    PROVE  /\ h.first \in Nat /\ h.last \in Nat /\ h.elba \in Nat /\ h.n \in Nat
           /\ h.crc \in Seq(Data)
BY GeometryAssumption DEF Header

LEMMA MovedHeader ==
    ASSUME NEW h \in Header, NEW f \in Nat,
           NEW new, new = [h EXCEPT !.first = f]
    PROVE  /\ new \in Header /\ Like(h, new) /\ new.first = f
           /\ new.n = h.n /\ new.last = h.last
BY DEF Header, Like

LEMMA LikeFields ==
    ASSUME NEW g \in Header, NEW h \in Header
    PROVE  /\ Like(g, h) =>
                /\ h.sound = g.sound /\ h.my = g.my /\ h.alt = g.alt
                /\ h.last = g.last /\ h.elba = g.elba /\ h.n = g.n
                /\ h.crc = g.crc
           /\ Like(g, g)
           /\ \A k \in Header : Like(g, h) /\ Like(h, k) => Like(g, k)
BY DEF Like, Header

\* The blocks of a sound table's array hold entries, so none of them holds an
\* MBR or a header.
LEMMA ArrayIsData ==
    ASSUME NEW d \in Disk, NEW role \in Both, SoundButForAlternate(d, role)
    PROVE  LET h == HeaderAt(d, role)
           IN  \A i \in 1..h.n : /\ h.elba + i - 1 \in LBA \ {0}
                                 /\ d[h.elba + i - 1] \in Data
<1> DEFINE h == HeaderAt(d, role)
<1>1. role \in {1, LastBlock}
  BY DEF Both
<1>2. /\ h \in Header /\ h.elba \in Nat /\ h.elba >= 1 /\ h.n \in Nat
      /\ Fits(h.elba, h.n) /\ Content(d, h.elba, h.n) = h.crc
  BY <1>1, SourceFacts, GeometryAssumption
<1>3. Len(h.crc) = h.n /\ h.crc \in Seq(Data)
  BY <1>2, ContentType DEF Header
<1> SUFFICES ASSUME NEW i \in 1..h.n
             PROVE  h.elba + i - 1 \in LBA \ {0} /\ d[h.elba + i - 1] \in Data
  OBVIOUS
<1>4. h.elba + i - 1 \in LBA \ {0}
  BY <1>2, GeometryAssumption DEF Fits, LBA
<1>5. d[h.elba + i - 1] = h.crc[i]
  BY <1>2 DEF Content
<1>6. h.crc[i] \in Data
  BY <1>3
<1>7. QED
  BY <1>4, <1>5, <1>6

\* Two valid copies: both header blocks hold the headers, and neither array
\* covers one of them.
LEMMA BothValidFacts ==
    ASSUME NEW d \in Disk, BothValid(d)
    PROVE  /\ 1 \in LBA /\ LastBlock \in LBA /\ 1 # LastBlock
           /\ d[1] \in Header /\ HeaderAt(d, 1) = d[1] /\ ArrayClear(d[1])
           /\ d[LastBlock] \in Header /\ HeaderAt(d, LastBlock) = d[LastBlock]
           /\ ArrayClear(d[LastBlock])
<1>1. 1 \in LBA /\ LastBlock \in LBA /\ 1 # LastBlock /\ 1 \in Both /\ LastBlock \in Both
  BY GeometryAssumption DEF LBA, Both
<1>2. SoundButForAlternate(d, 1) /\ SoundButForAlternate(d, LastBlock)
  BY <1>1 DEF BothValid, IsValid
<1>3. /\ d[1] \in Header /\ HeaderAt(d, 1) = d[1]
      /\ d[LastBlock] \in Header /\ HeaderAt(d, LastBlock) = d[LastBlock]
  BY <1>2, SourceFacts
<1>4. \A l \in LBA : d[l] \in Data => l # 1 /\ l # LastBlock
  BY <1>3, BlockAssumption
<1>5. ArrayClear(d[1])
  BY <1>1, <1>2, <1>3, <1>4, ArrayIsData DEF ArrayClear
<1>6. ArrayClear(d[LastBlock])
  BY <1>1, <1>2, <1>3, <1>4, ArrayIsData DEF ArrayClear
<1>7. QED
  BY <1>1, <1>3, <1>5, <1>6

\* A valid copy stays valid where its header moves the usable area at most and
\* its array stays.
LEMMA ValidKept ==
    ASSUME NEW x \in Disk, NEW y \in Disk, NEW role \in Both, IsValid(x, role),
           y[role] \in Header, Like(x[role], y[role]), UsableRangeOk(y[role]),
           SameArray(x[role], x, y)
    PROVE  IsValid(y, role) /\ HeaderAt(y, role) = y[role]
<1> DEFINE g == x[role]
           h == y[role]
<1>1. role \in {1, LastBlock} /\ SoundButForAlternate(x, role)
  BY DEF Both, IsValid
<1>2. /\ g \in Header /\ HeaderAt(x, role) = g /\ g.elba \in Nat /\ g.n \in Nat
      /\ Fits(g.elba, g.n) /\ Content(x, g.elba, g.n) = g.crc
  BY <1>1, SourceFacts, GeometryAssumption
<1>3. HeaderAt(y, role) = h
  BY DEF HeaderAt
<1>4. /\ h.sound = g.sound /\ h.my = g.my /\ h.alt = g.alt
      /\ h.elba = g.elba /\ h.n = g.n /\ h.crc = g.crc
  BY <1>2, LikeFields
<1>5. /\ g.sound /\ g.my = role /\ g.n > 0 /\ (role = 1 => g.elba = 2) /\ g.elba >= 1
      /\ Readable(x, g.elba, g.n) /\ g.alt = AlternateOf(role)
  BY <1>1, <1>2 DEF SoundButForAlternate, IsValid
<1>6. Content(y, g.elba, g.n) = Content(x, g.elba, g.n)
  BY DEF Content, SameArray
<1>7. Readable(y, g.elba, g.n)
  <2>1. ASSUME NEW l \in g.elba..(g.elba + g.n - 1) PROVE y[l] # Unreadable
    <3>1. PICK i \in 1..g.n : l = g.elba + i - 1
      <4>1. l - g.elba + 1 \in 1..g.n /\ l = g.elba + (l - g.elba + 1) - 1
        BY <1>2, <2>1
      <4>2. QED
        BY <4>1
    <3>2. x[l] # Unreadable
      BY <1>5, <2>1 DEF Readable
    <3>3. QED
      BY <3>1, <3>2 DEF SameArray
  <2>2. QED
    BY <1>2, <2>1 DEF Readable
<1>8. h # Unreadable
  BY BlockAssumption
<1>9. SoundButForAlternate(y, role)
  BY <1>2, <1>3, <1>4, <1>5, <1>6, <1>7, <1>8 DEF SoundButForAlternate
<1>10. QED
  BY <1>3, <1>4, <1>5, <1>9 DEF IsValid

\* Two valid copies stay two where one header moves its usable area and nothing
\* else changes but perhaps LBA 0.
LEMMA HeaderMoved ==
    ASSUME NEW x \in Disk, NEW y \in Disk, BothValid(x),
           \A role \in Both : /\ y[role] \in Header
                              /\ Like(x[role], y[role])
                              /\ UsableRangeOk(y[role]),
           \A l \in LBA \ {0, 1, LastBlock} : y[l] = x[l]
    PROVE  BothValid(y) /\ \A role \in Both : SameArray(x[role], x, y)
<1>1. \A role \in Both : ArrayClear(x[role])
  BY BothValidFacts DEF Both
<1>2. \A role \in Both : SameArray(x[role], x, y)
  BY <1>1 DEF SameArray, ArrayClear
<1>3. \A role \in Both : IsValid(x, role)
  BY DEF BothValid
<1>4. \A role \in Both : IsValid(y, role)
  BY <1>2, <1>3, ValidKept
<1>5. QED
  BY <1>2, <1>4 DEF BothValid

\* A valid header's usable range is in order.
LEMMA ValidRange ==
    ASSUME NEW d \in Disk, NEW role \in Both, IsValid(d, role)
    PROVE  d[role] \in Header /\ HeaderAt(d, role) = d[role] /\ UsableRangeOk(d[role])
<1>1. role \in {1, LastBlock} /\ SoundButForAlternate(d, role)
  BY DEF Both, IsValid
<1>2. d[role] \in Header /\ HeaderAt(d, role) = d[role]
  BY <1>1, SourceFacts
<1>3. QED
  BY <1>1, <1>2 DEF SoundButForAlternate

\* Any content the steps of a plan may write to a block stays within what the
\* block may hold: the shape of the invariants that speak of every block.
LEMMA ApplyKeepsWithin ==
    ASSUME TypeOK, ApplyStep \/ Fault,
           NEW F, \A l \in LBA : disk[l] \in F[l] /\ medium[l] \in F[l],
           ~Idle => \A l \in LBA : l \in Spanned(plan[pc])
                       => plan[pc].blocks[l - plan[pc].lba + 1] \in F[l]
    PROVE  \A l \in LBA : disk'[l] \in F[l] /\ medium'[l] \in F[l]
<1>1. ASSUME NEW which, disk' = Put(disk, plan[pc], which), medium' = medium, ~Idle
      PROVE  \A l \in LBA : disk'[l] \in F[l] /\ medium'[l] \in F[l]
  BY <1>1 DEF Put
<1>2. CASE WriteStep
  BY <1>1, <1>2 DEF WriteStep
<1>3. CASE FailingWrite
  BY <1>1, <1>3 DEF FailingWrite
<1>4. CASE FlushStep \/ FailingFlush
  BY <1>4 DEF FlushStep, FailingFlush
<1>5. CASE PowerCut
  BY <1>5 DEF PowerCut
<1>6. QED
  BY <1>2, <1>3, <1>4, <1>5 DEF ApplyStep, Fault

-----------------------------------------------------------------------------
(* The plans in progress                                                   *)

\* A prevention that lowers the two headers to h1 and h2, and how far it is: the
\* secondary's turn comes when the main one is durable and nothing is in flight.
Preventing(h1, h2) ==
    /\ plan = <<Write(1, <<h1>>), Flush, Write(LastBlock, <<h2>>), Flush>>
    /\ BothValid(disk)
    /\ Like(disk[1], h1) /\ Like(disk[LastBlock], h2)
    /\ UsableRangeOk(h1) /\ UsableRangeOk(h2)
    /\ h1.first = 2 + h1.n /\ h2.first = h1.first
    /\ h1.first <= disk[1].first /\ h2.first <= disk[LastBlock].first
    /\ pc >= 2 => disk[1] = h1
    /\ pc >= 3 => \A l \in LBA \ {LastBlock} : medium[l] = disk[l]
    /\ pc >= 4 => disk[LastBlock] = h2

\* The steps of a plan that rebuilds the main table from src.
StepsFrom(src) ==
    {Flush, Write(0, <<ProtectiveMbr>>), ArrayStep(src), Write(1, <<MainHeader(src)>>)}
    \cup {s \in {Write(LastBlock, <<CorrectedSecondary(src)>>)} : src.alt # 1}

\* A repair that rebuilds the main table from src, and how far it is.
Rebuilding(src) ==
    /\ Rebuildable(src)
    /\ plan \in Seq(StepsFrom(src))
    /\ BeginsWithArray(plan, src)
    /\ disk[LastBlock] \in {src, CorrectedSecondary(src)}
    /\ pc = 1 => ~IsValid(disk, 1)
    /\ pc >= 2 => ArrayOn(disk, src)
    /\ pc >= 3 => ArrayOn(medium, src)

\* Whatever plan is being applied is one of the three.
PlanInv ==
    ~Idle => \/ plan = MbrPlan
             \/ \E h1, h2 \in Header : Preventing(h1, h2)
             \/ \E src \in Header : Rebuilding(src)

\* The number an array's end is compared with.
LEMMA RebuildableFacts ==
    ASSUME NEW src \in Header, Rebuildable(src)
    PROVE  /\ src.n \in Nat /\ src.n > 0 /\ src.first \in Nat
           /\ 2 + src.n <= src.first /\ src.first <= LastBlock
           /\ Len(src.crc) = src.n /\ src.crc \in Seq(Data)
           /\ src.my = LastBlock /\ src.sound
BY GeometryAssumption DEF Rebuildable, UsableRangeOk, Header

\* The blocks each step of a rebuild spans, and what it writes there.
LEMMA StepsFromSpans ==
    ASSUME NEW src \in Header, Rebuildable(src),
           NEW s \in StepsFrom(src), NEW l \in Spanned(s)
    PROVE  LET new == s.blocks[l - s.lba + 1]
           IN  \/ l = 0 /\ new = ProtectiveMbr
               \/ l = 1 /\ new = MainHeader(src)
               \/ l - 1 \in 1..src.n /\ new = src.crc[l - 1] /\ s = ArrayStep(src)
               \/ l = LastBlock /\ new = CorrectedSecondary(src) /\ src.alt # 1
<1>1. src.n \in Nat /\ Len(src.crc) = src.n
  BY RebuildableFacts
<1>2. CASE s = Flush
  BY <1>2 DEF Flush, Spanned
<1>3. CASE s = Write(0, <<ProtectiveMbr>>)
  BY <1>3 DEF Write, Spanned
<1>4. CASE s = Write(1, <<MainHeader(src)>>)
  BY <1>4 DEF Write, Spanned
<1>5. CASE s = ArrayStep(src)
  <2>1. s.lba = 2 /\ s.blocks = src.crc /\ Spanned(s) = 2..(2 + src.n - 1)
    BY <1>1, <1>5 DEF ArrayStep, Write, Spanned
  <2>2. l - s.lba + 1 = l - 1 /\ l - 1 \in 1..src.n
    BY <1>1, <2>1
  <2>3. QED
    BY <1>5, <2>1, <2>2
<1>6. CASE s = Write(LastBlock, <<CorrectedSecondary(src)>>) /\ src.alt # 1
  BY <1>6, GeometryAssumption DEF Write, Spanned
<1>7. QED
  BY <1>2, <1>3, <1>4, <1>5, <1>6 DEF StepsFrom

\* What a rebuild's step, whole or in part, leaves on a disk: every block as it
\* was or as the step writes it.
LEMMA RebuildPut ==
    ASSUME NEW src \in Header, Rebuildable(src), NEW s \in StepsFrom(src),
           NEW x \in Disk, NEW which, NEW y, y = Put(x, s, which)
    PROVE  /\ y[1] \in {x[1], MainHeader(src)}
           /\ \/ y[LastBlock] = x[LastBlock]
              \/ y[LastBlock] = CorrectedSecondary(src) /\ src.alt # 1
           /\ \A l \in LBA \ {0, 1, LastBlock} :
                y[l] = x[l] \/ (l - 1 \in 1..src.n /\ y[l] = src.crc[l - 1])
           /\ ArrayOn(x, src) \/ (s = ArrayStep(src) /\ which = LBA) => ArrayOn(y, src)
<1>1. /\ src.n \in Nat /\ 2 + src.n <= LastBlock /\ Len(src.crc) = src.n
      /\ 1 \in LBA /\ LastBlock \in LBA /\ LastBlock > 1 /\ LastBlock \in Nat
  BY RebuildableFacts, GeometryAssumption DEF LBA
<1>2. ASSUME NEW l \in LBA, y[l] # x[l]
      PROVE  l \in Spanned(s) /\ l \in which /\ y[l] = s.blocks[l - s.lba + 1]
  BY <1>2 DEF Put
<1>3. ASSUME NEW l \in LBA
      PROVE  \/ y[l] = x[l]
             \/ l = 0
             \/ l = 1 /\ y[l] = MainHeader(src)
             \/ l - 1 \in 1..src.n /\ y[l] = src.crc[l - 1]
             \/ l = LastBlock /\ y[l] = CorrectedSecondary(src) /\ src.alt # 1
  BY <1>2, StepsFromSpans
<1>4. y[1] \in {x[1], MainHeader(src)}
  BY <1>1, <1>3
<1>5. \/ y[LastBlock] = x[LastBlock]
      \/ y[LastBlock] = CorrectedSecondary(src) /\ src.alt # 1
  BY <1>1, <1>3
<1>6. \A l \in LBA \ {0, 1, LastBlock} :
        y[l] = x[l] \/ (l - 1 \in 1..src.n /\ y[l] = src.crc[l - 1])
  BY <1>3
<1>7. ASSUME ArrayOn(x, src) \/ (s = ArrayStep(src) /\ which = LBA) PROVE ArrayOn(y, src)
  <2> SUFFICES ASSUME NEW i \in 1..src.n PROVE y[i + 1] = src.crc[i]
    BY DEF ArrayOn
  <2>1. i + 1 \in LBA \ {0, 1, LastBlock} /\ (i + 1) - 1 = i
    BY <1>1 DEF LBA
  <2>2. y[i + 1] = x[i + 1] \/ y[i + 1] = src.crc[i]
    BY <1>6, <2>1
  <2>3. CASE ArrayOn(x, src)
    BY <2>2, <2>3 DEF ArrayOn
  <2>4. CASE s = ArrayStep(src) /\ which = LBA
    <3>1. s.lba = 2 /\ s.blocks = src.crc /\ Spanned(s) = 2..(2 + src.n - 1)
      BY <1>1, <2>4 DEF ArrayStep, Write, Spanned
    <3>2. i + 1 \in Spanned(s) /\ (i + 1) - 2 + 1 = i
      BY <1>1, <3>1
    <3>3. QED
      BY <2>1, <2>4, <3>1, <3>2 DEF Put
  <2>5. QED
    BY <1>7, <2>3, <2>4
<1>8. QED
  BY <1>4, <1>5, <1>6, <1>7

\* What a header's write leaves, whole or not.
LEMMA HeaderPut ==
    ASSUME NEW x \in Disk, NEW role \in LBA, NEW h, NEW which,
           NEW y, y = Put(x, Write(role, <<h>>), which)
    PROVE  /\ y[role] \in {x[role], h}
           /\ which = LBA => y[role] = h
           /\ \A l \in LBA \ {role} : y[l] = x[l]
<1>1. Spanned(Write(role, <<h>>)) = role..role /\ role \in Nat
  BY GeometryAssumption DEF Write, Spanned, LBA
<1>2. \A l \in Spanned(Write(role, <<h>>)) : l = role
  BY <1>1
<1>3. role \in Spanned(Write(role, <<h>>))
      /\ Write(role, <<h>>).blocks[role - Write(role, <<h>>).lba + 1] = h
  BY <1>1 DEF Write
<1>4. QED
  BY <1>2, <1>3 DEF Put

\* A prevention starts on two valid copies, and lowers both headers to one block.
LEMMA PreventionFacts ==
    ASSUME NEW d \in Disk, Applicable(d)
    PROVE  LET h1 == Lowered(d, 1)
               h2 == Lowered(d, LastBlock)
           IN  /\ BothValid(d)
               /\ h1 \in Header /\ h2 \in Header
               /\ Like(d[1], h1) /\ Like(d[LastBlock], h2)
               /\ UsableRangeOk(h1) /\ UsableRangeOk(h2)
               /\ h1.first = 2 + h1.n /\ h2.first = h1.first
               /\ h1.first <= d[1].first /\ h2.first <= d[LastBlock].first
               /\ First(d, 1) # Proposed(d) \/ First(d, LastBlock) # Proposed(d)
<1> DEFINE g1 == d[1]
           g2 == d[LastBlock]
           h1 == Lowered(d, 1)
           h2 == Lowered(d, LastBlock)
<1>1. BothValid(d) /\ GapOpen(d)
  BY DEF Applicable
<1>2. /\ g1 \in Header /\ HeaderAt(d, 1) = g1 /\ UsableRangeOk(g1)
      /\ g2 \in Header /\ HeaderAt(d, LastBlock) = g2 /\ UsableRangeOk(g2)
      /\ 1 # LastBlock
  BY <1>1, BothValidFacts, ValidRange DEF BothValid, Both
<1>3. /\ g1.n \in Nat /\ g1.first \in Nat /\ g2.first \in Nat
      /\ g1.last \in Nat /\ g2.last \in Nat
  BY <1>2, HeaderFields
<1>4. Proposed(d) = 2 + g1.n /\ First(d, 1) = g1.first /\ First(d, LastBlock) = g2.first
  BY <1>2 DEF Proposed, First
<1>5. /\ Proposed(d) <= g1.first /\ Proposed(d) <= g2.first
      /\ First(d, 1) # Proposed(d) \/ First(d, LastBlock) # Proposed(d)
  <2>1. PICK p \in Nat, f1 \in Nat, f2 \in Nat :
           p = Proposed(d) /\ f1 = First(d, 1) /\ f2 = First(d, LastBlock)
    BY <1>3, <1>4
  <2>2. \/ f1 = f2 /\ f1 > p
        \/ f1 = p /\ f2 > p
        \/ f2 = p /\ f1 > p
    BY <1>1, <1>2, <2>1 DEF GapOpen, HalfDone, Both
  <2>3. QED
    BY <1>4, <2>1, <2>2
<1>6. /\ h1 = [g1 EXCEPT !.first = 2 + g1.n]
      /\ h2 = [g2 EXCEPT !.first = 2 + g1.n]
  BY <1>2, <1>4 DEF Lowered
<1> HIDE DEF g1, g2, h1, h2
<1>7. /\ h1 \in Header /\ h1.first = 2 + g1.n /\ h1.n = g1.n /\ h1.last = g1.last
      /\ Like(g1, h1)
  <2>1. PICK f \in Nat : f = 2 + g1.n
    BY <1>3
  <2>2. h1 = [g1 EXCEPT !.first = f]
    BY <1>6, <2>1
  <2>3. QED
    BY <1>2, <2>1, <2>2, MovedHeader
<1>8. h2 \in Header /\ h2.first = 2 + g1.n /\ h2.last = g2.last /\ Like(g2, h2)
  <2>1. PICK f \in Nat : f = 2 + g1.n
    BY <1>3
  <2>2. h2 = [g2 EXCEPT !.first = f]
    BY <1>6, <2>1
  <2>3. QED
    BY <1>2, <2>1, <2>2, MovedHeader
<1>9. UsableRangeOk(h1) /\ UsableRangeOk(h2)
  BY <1>2, <1>3, <1>4, <1>5, <1>7, <1>8, GeometryAssumption DEF UsableRangeOk
<1>10. QED
  BY <1>1, <1>3, <1>4, <1>5, <1>7, <1>8, <1>9 DEF g1, g2, h1, h2

\* The writer moves the array, and nothing at or above the usable area it takes
\* for the main header's; with the gap closed it changes nothing.
LEMMA MisplacedFacts ==
    ASSUME NEW d \in Disk, IsValid(d, 1), d[1].first - d[1].n >= 1
    PROVE  LET h == d[1]
           IN  /\ Misplaced(d) \in Disk
               /\ h \in Header /\ HeaderAt(d, 1) = h /\ h.first \in Nat /\ h.n \in Nat
               /\ h.first <= LastBlock
               /\ Misplaced(d)[1] = [h EXCEPT !.elba = h.first - h.n]
               /\ Misplaced(d)[1] \in Header
               /\ \A l \in LBA \ {1} : l >= h.first => Misplaced(d)[l] = d[l]
               /\ h.first = 2 + h.n => Misplaced(d) = d
<1> DEFINE h == d[1]
           lba == h.first - h.n
           array == Write(lba, Content(d, 2, h.n))
           put == Put(d, array, LBA)
<1>1. 1 \in Both /\ 1 \in LBA
  BY GeometryAssumption DEF Both, LBA
<1>2. /\ h \in Header /\ HeaderAt(d, 1) = h /\ UsableRangeOk(h)
      /\ h.elba = 2 /\ h.n > 0 /\ Fits(2, h.n)
      /\ Content(d, 2, h.n) = h.crc
  <2>1. h \in Header /\ HeaderAt(d, 1) = h /\ UsableRangeOk(h)
    BY <1>1, ValidRange
  <2>2. SoundButForAlternate(d, 1)
    BY DEF IsValid
  <2>3. QED
    BY <2>1, <2>2, SourceFacts DEF SoundButForAlternate
<1>3. /\ h.first \in Nat /\ h.n \in Nat /\ h.last \in Nat /\ h.crc \in Seq(Data)
      /\ h.first <= LastBlock /\ lba \in Nat
  BY <1>2, GeometryAssumption DEF Header, UsableRangeOk
<1>4. Len(h.crc) = h.n
  BY <1>2, <1>3, ContentType
<1>5. /\ Misplaced(d) = [put EXCEPT ![1] = [h EXCEPT !.elba = lba]]
      /\ array.blocks = h.crc /\ array.lba = lba
      /\ Spanned(array) = lba..(lba + h.n - 1)
  BY <1>2, <1>4 DEF Misplaced, Write, Spanned
<1>6. [h EXCEPT !.elba = lba] \in Header
  BY <1>2, <1>3 DEF Header
<1>7. \A l \in LBA \ {1} : Misplaced(d)[l] = put[l]
  BY <1>5 DEF Put
<1>8. Misplaced(d)[1] = [h EXCEPT !.elba = lba]
  BY <1>1, <1>5 DEF Put
<1>9. ASSUME NEW l \in LBA, l \in Spanned(array)
      PROVE  /\ l - lba + 1 \in 1..h.n /\ l < h.first
             /\ put[l] = h.crc[l - lba + 1] /\ put[l] \in Data
  <2>1. l - lba + 1 \in 1..h.n /\ l < h.first
    <3>1. PICK f \in Nat, m \in Nat : f = h.first /\ m = h.n
      BY <1>3
    <3>2. l \in (f - m)..((f - m) + m - 1) /\ f - m \in Nat
      BY <1>3, <1>5, <1>9, <3>1
    <3>3. QED
      BY <3>1, <3>2
  <2>2. put[l] = h.crc[l - lba + 1]
    BY <1>5, <1>9 DEF Put
  <2>3. h.crc[l - lba + 1] \in Data
    BY <1>3, <1>4, <2>1
  <2>4. QED
    BY <2>1, <2>2, <2>3
<1>10. \A l \in LBA : l \notin Spanned(array) => put[l] = d[l]
  BY DEF Put
<1>11. \A l \in LBA : put[l] \in Block
  BY <1>9, <1>10 DEF Disk, Block
<1>12. Misplaced(d) \in Disk
  <2>1. put \in Disk
    BY <1>11 DEF Put, Disk
  <2>2. QED
    BY <1>5, <1>6, <2>1 DEF Disk, Block
<1>13. \A l \in LBA \ {1} : l >= h.first => Misplaced(d)[l] = d[l]
  <2>1. \A l \in LBA : l \in Nat
    BY GeometryAssumption DEF LBA
  <2>2. \A l \in LBA : l >= h.first => l \notin Spanned(array)
    BY <1>3, <1>9, <2>1
  <2>3. QED
    BY <1>7, <1>10, <2>2
<1>14. ASSUME h.first = 2 + h.n PROVE Misplaced(d) = d
  <2>1. lba = 2
    BY <1>3, <1>14
  <2>2. Misplaced(d)[1] = d[1]
    BY <1>2, <1>8, <2>1 DEF Header
  <2>3. ASSUME NEW l \in LBA \ {1}, l \in Spanned(array) PROVE put[l] = d[l]
    <3>1. l - 1 \in 1..h.n /\ l - lba + 1 = l - 1 /\ 2 + (l - 1) - 1 = l
      BY <1>3, <1>9, <2>1, <2>3, GeometryAssumption DEF LBA
    <3>2. h.crc[l - 1] = d[2 + (l - 1) - 1]
      BY <1>2, <3>1 DEF Content
    <3>3. QED
      BY <1>9, <2>3, <3>1, <3>2
  <2>4. \A l \in LBA : Misplaced(d)[l] = d[l]
    BY <1>7, <1>10, <2>2, <2>3
  <2>5. QED
    BY <1>12, <2>4 DEF Disk
<1>15. QED
  BY <1>2, <1>3, <1>6, <1>8, <1>12, <1>13, <1>14

\* What each step of Recurrence is, and that none touches disk0.
LEMMA RecurrenceSteps ==
    ASSUME [RecurrenceNext]_vars
    PROVE  /\ disk0' = disk0
           /\ RunRepair \/ RunPrevent \/ FaultyWriter \/ ApplyStep \/ Fault
              \/ UNCHANGED vars
BY DEF RecurrenceNext, ApplyStep, Fault, WriteStep, FlushStep, FailingWrite,
       FailingFlush, PowerCut, RunRepair, RunPrevent, FaultyWriter, Start, vars

LEMMA RecurrenceKeepsType ==
    ASSUME TypeOK, [RecurrenceNext]_vars
    PROVE  TypeOK'
<1>1. disk \in Disk
  BY DEF TypeOK
<1>2. CASE RunRepair
  BY <1>1, <1>2, PlanType, StartKeepsType DEF RunRepair
<1>3. CASE RunPrevent
  <2>1. Applicable(disk)
    BY <1>3 DEF RunPrevent
  <2>2. /\ <<Lowered(disk, 1)>> \in Seq(Block)
        /\ <<Lowered(disk, LastBlock)>> \in Seq(Block)
    BY <1>1, <2>1, PreventionFacts DEF Block
  <2>3. 0 \in LBA /\ 1 \in LBA /\ LastBlock \in LBA
    BY GeometryAssumption DEF LBA
  <2>4. /\ Write(1, <<Lowered(disk, 1)>>) \in Step
        /\ Write(LastBlock, <<Lowered(disk, LastBlock)>>) \in Step
        /\ Flush \in Step
    BY <2>2, <2>3 DEF Write, Flush, Step
  <2>5. PreventPlan(disk) \in Seq(Step) /\ Len(PreventPlan(disk)) >= 1
    BY <2>4 DEF PreventPlan
  <2>6. QED
    BY <1>3, <2>5, StartKeepsType DEF RunPrevent
<1>4. CASE FaultyWriter
  <2>1. IsValid(disk, 1) /\ disk[1].first - disk[1].n >= 1
    <3>1. 1 \in Both /\ IsValid(disk, 1)
      BY <1>4 DEF Both, FaultyWriter
    <3>2. QED
      BY <1>1, <1>4, <3>1, ValidRange DEF FaultyWriter
  <2>2. disk' = Misplaced(disk) /\ Misplaced(disk) \in Disk
    BY <1>1, <1>4, <2>1, MisplacedFacts DEF FaultyWriter
  <2>3. QED
    BY <1>4, <2>2 DEF FaultyWriter, TypeOK
<1>5. CASE ApplyStep \/ Fault
  BY <1>5, ApplyKeepsType
<1>6. CASE UNCHANGED vars
  BY <1>6 DEF vars, TypeOK
<1>7. QED
  BY <1>2, <1>3, <1>4, <1>5, <1>6, RecurrenceSteps

\* The steps of a prevention's plan, in their order.
LEMMA PreventingSteps ==
    ASSUME TypeOK, ~Idle, NEW h1, NEW h2, Preventing(h1, h2)
    PROVE  /\ Len(plan) = 4
           /\ \/ pc = 1 /\ plan[pc] = Write(1, <<h1>>) /\ plan[pc].op = "write"
              \/ pc = 2 /\ plan[pc] = Flush /\ plan[pc].op = "flush"
              \/ pc = 3 /\ plan[pc] = Write(LastBlock, <<h2>>) /\ plan[pc].op = "write"
              \/ pc = 4 /\ plan[pc] = Flush /\ plan[pc].op = "flush"
<1>1. Len(plan) = 4 /\ plan[1] = Write(1, <<h1>>) /\ plan[2] = Flush
      /\ plan[3] = Write(LastBlock, <<h2>>) /\ plan[4] = Flush
  BY DEF Preventing
<1>2. pc \in 1..4
  BY <1>1 DEF TypeOK, Idle
<1>3. \A lba, blocks : Write(lba, blocks).op = "write"
  BY DEF Write
<1>4. Flush.op = "flush"
  BY DEF Flush
<1>5. CASE pc = 1
  BY <1>1, <1>3, <1>5
<1>6. CASE pc = 2
  BY <1>1, <1>4, <1>6
<1>7. CASE pc = 3
  BY <1>1, <1>3, <1>7
<1>8. CASE pc = 4
  BY <1>1, <1>4, <1>8
<1>9. QED
  BY <1>1, <1>2, <1>5, <1>6, <1>7, <1>8

\* What a header's write of a prevention leaves, whole or not: two valid copies
\* that differ from those it found in where the usable area starts.
LEMMA PreventionPut ==
    ASSUME TypeOK, ~Idle, NEW h1 \in Header, NEW h2 \in Header, Preventing(h1, h2),
           plan[pc].op = "write", NEW which, NEW y, y = Put(disk, plan[pc], which)
    PROVE  /\ y \in Disk /\ BothValid(y)
           /\ Like(disk[1], y[1]) /\ Like(disk[LastBlock], y[LastBlock])
           /\ SameArray(disk[1], disk, y) /\ SameArray(disk[LastBlock], disk, y)
           /\ pc = 1 => /\ y[1] \in {disk[1], h1}
                        /\ which = LBA => y[1] = h1
                        /\ \A l \in LBA \ {1} : y[l] = disk[l]
           /\ pc # 1 => /\ pc = 3
                        /\ y[LastBlock] \in {disk[LastBlock], h2}
                        /\ which = LBA => y[LastBlock] = h2
                        /\ \A l \in LBA \ {LastBlock} : y[l] = disk[l]
<1>1. disk \in Disk /\ plan[pc] \in Step
  BY DEF TypeOK, Idle
<1>2. y \in Disk
  BY <1>1, PutType
<1>3. /\ BothValid(disk) /\ Like(disk[1], h1) /\ Like(disk[LastBlock], h2)
      /\ UsableRangeOk(h1) /\ UsableRangeOk(h2)
  BY DEF Preventing
<1>4. /\ 1 \in LBA /\ LastBlock \in LBA /\ 1 # LastBlock
      /\ disk[1] \in Header /\ disk[LastBlock] \in Header
  BY <1>1, <1>3, BothValidFacts
<1>5. UsableRangeOk(disk[1]) /\ UsableRangeOk(disk[LastBlock])
      /\ Like(disk[1], disk[1]) /\ Like(disk[LastBlock], disk[LastBlock])
  BY <1>1, <1>3, <1>4, ValidRange, LikeFields DEF BothValid, Both
<1>6. Flush.op = "flush"
  BY DEF Flush
<1>7. \/ pc = 1 /\ plan[pc] = Write(1, <<h1>>)
      \/ pc = 3 /\ plan[pc] = Write(LastBlock, <<h2>>)
  BY <1>6, PreventingSteps
<1>8. pc = 1 => /\ y[1] \in {disk[1], h1}
                /\ which = LBA => y[1] = h1
                /\ \A l \in LBA \ {1} : y[l] = disk[l]
  BY <1>1, <1>4, <1>7, HeaderPut
<1>9. pc # 1 => /\ pc = 3
                /\ y[LastBlock] \in {disk[LastBlock], h2}
                /\ which = LBA => y[LastBlock] = h2
                /\ \A l \in LBA \ {LastBlock} : y[l] = disk[l]
  BY <1>1, <1>4, <1>7, HeaderPut
<1>10. y[1] \in {disk[1], h1} /\ y[LastBlock] \in {disk[LastBlock], h2}
       /\ \A l \in LBA \ {0, 1, LastBlock} : y[l] = disk[l]
  BY <1>4, <1>8, <1>9
<1>11. \A role \in Both : /\ y[role] \in Header
                          /\ Like(disk[role], y[role])
                          /\ UsableRangeOk(y[role])
  BY <1>3, <1>4, <1>5, <1>10 DEF Both
<1>12. BothValid(y) /\ \A role \in Both : SameArray(disk[role], disk, y)
  BY <1>1, <1>2, <1>3, <1>10, <1>11, HeaderMoved
<1>13. QED
  BY <1>2, <1>8, <1>9, <1>11, <1>12 DEF Both

LEMMA PreventingKept ==
    ASSUME TypeOK, ~Idle, NEW h1 \in Header, NEW h2 \in Header, Preventing(h1, h2),
           ApplyStep
    PROVE  Idle' \/ Preventing(h1, h2)'
<1> SUFFICES ASSUME ~Idle' PROVE Preventing(h1, h2)'
  OBVIOUS
<1>1. pc \in 1..4 /\ pc' = pc + 1 /\ plan' = plan /\ pc # 4
  BY StepTaken, PreventingSteps DEF Idle
<1>2. /\ disk \in Disk /\ BothValid(disk)
      /\ 1 \in LBA /\ LastBlock \in LBA /\ 1 # LastBlock
      /\ disk[1] \in Header /\ disk[LastBlock] \in Header
  BY BothValidFacts DEF TypeOK, Preventing
<1>3. /\ plan = <<Write(1, <<h1>>), Flush, Write(LastBlock, <<h2>>), Flush>>
      /\ Like(disk[1], h1) /\ Like(disk[LastBlock], h2)
      /\ UsableRangeOk(h1) /\ UsableRangeOk(h2)
      /\ h1.first = 2 + h1.n /\ h2.first = h1.first
      /\ h1.first <= disk[1].first /\ h2.first <= disk[LastBlock].first
      /\ pc >= 2 => disk[1] = h1
      /\ pc >= 3 => \A l \in LBA \ {LastBlock} : medium[l] = disk[l]
  BY DEF Preventing
<1>4. h1.first \in Nat /\ h2.first \in Nat
  BY HeaderFields
<1>5. CASE plan[pc].op = "write"
  <2>1. disk' = Put(disk, plan[pc], LBA) /\ medium' = medium
    BY <1>5, StepTaken
  <2>2. BothValid(disk')
    BY <1>5, <2>1, PreventionPut
  <2>3. CASE pc = 1
    <3>1. disk'[1] = h1 /\ disk'[LastBlock] = disk[LastBlock]
      BY <1>2, <1>5, <2>1, <2>3, PreventionPut
    <3>2. Like(disk'[1], h1) /\ h1.first <= disk'[1].first
      BY <1>4, <3>1, LikeFields
    <3>3. pc' = 2
      BY <1>1, <2>3
    <3>4. QED
      BY <1>1, <1>3, <2>2, <2>3, <3>1, <3>2, <3>3 DEF Preventing
  <2>4. CASE pc # 1
    <3>1. /\ disk'[LastBlock] = h2 /\ pc = 3
          /\ \A l \in LBA \ {LastBlock} : disk'[l] = disk[l]
      BY <1>5, <2>1, <2>4, PreventionPut
    <3>2. Like(disk'[LastBlock], h2) /\ h2.first <= disk'[LastBlock].first
          /\ disk'[1] = disk[1]
      BY <1>2, <1>4, <3>1, LikeFields
    <3>3. \A l \in LBA \ {LastBlock} : medium'[l] = disk'[l]
      BY <1>3, <2>1, <3>1
    <3>4. disk'[1] = h1
      BY <1>3, <3>1, <3>2
    <3>5. QED
      BY <1>1, <1>3, <2>2, <3>1, <3>2, <3>3, <3>4 DEF Preventing
  <2>5. QED
    BY <2>3, <2>4
<1>6. CASE plan[pc].op = "flush"
  <2>1. disk' = disk /\ medium' = disk
    BY <1>6, StepTaken
  <2>2. pc = 2
    BY <1>1, <1>6, PreventingSteps
  <2>3. disk'[1] = h1
    BY <1>3, <2>1, <2>2
  <2>4. QED
    BY <1>1, <1>2, <1>3, <2>1, <2>2, <2>3 DEF Preventing
<1>7. QED
  BY <1>5, <1>6, StepTaken

\* The first step of a rebuild is not the second, and the second is a barrier.
LEMMA RebuildingSteps ==
    ASSUME TypeOK, ~Idle, NEW src, Rebuilding(src)
    PROVE  /\ pc \in Nat /\ pc >= 1 /\ plan[pc] \in StepsFrom(src)
           /\ pc = 1 => plan[pc] = ArrayStep(src) /\ plan[pc].op = "write"
           /\ pc = 2 => plan[pc].op = "flush"
<1>1. pc \in 1..Len(plan) /\ plan \in Seq(StepsFrom(src))
  BY DEF TypeOK, Idle, Rebuilding
<1>2. plan[1] = ArrayStep(src) /\ plan[2] = Flush
  BY DEF Rebuilding, BeginsWithArray
<1>3. ArrayStep(src).op = "write" /\ Flush.op = "flush"
  BY DEF ArrayStep, Write, Flush
<1>4. QED
  BY <1>1, <1>2, <1>3

LEMMA RebuildingKept ==
    ASSUME TypeOK, ~Idle, NEW src \in Header, Rebuilding(src), ApplyStep
    PROVE  Idle' \/ Rebuilding(src)'
<1> SUFFICES ASSUME ~Idle' PROVE Rebuilding(src)'
  OBVIOUS
<1>1. pc' = pc + 1 /\ plan' = plan
  BY StepTaken DEF Idle
<1>2. /\ pc \in Nat /\ pc >= 1 /\ plan[pc] \in StepsFrom(src)
      /\ pc = 1 => plan[pc] = ArrayStep(src) /\ plan[pc].op = "write"
      /\ pc = 2 => plan[pc].op = "flush"
  BY RebuildingSteps
<1>3. /\ Rebuildable(src) /\ plan \in Seq(StepsFrom(src)) /\ BeginsWithArray(plan, src)
      /\ disk[LastBlock] \in {src, CorrectedSecondary(src)}
      /\ pc >= 2 => ArrayOn(disk, src)
      /\ pc >= 3 => ArrayOn(medium, src)
  BY DEF Rebuilding
<1>4. disk \in Disk
  BY DEF TypeOK
<1>5. pc' >= 2 /\ pc' # 1 /\ (pc' >= 3 => pc >= 2) /\ (pc = 1 => ~(pc' >= 3))
      /\ (pc >= 2 /\ pc # 2 => pc >= 3)
  BY <1>1, <1>2
<1>6. CASE plan[pc].op = "write"
  <2>1. disk' = Put(disk, plan[pc], LBA) /\ medium' = medium
    BY <1>6, StepTaken
  <2>2. ArrayOn(disk', src)
    <3>1. ArrayOn(disk, src) \/ plan[pc] = ArrayStep(src)
      BY <1>2, <1>3
    <3>2. QED
      BY <1>2, <1>3, <1>4, <2>1, <3>1, RebuildPut
  <2>3. disk'[LastBlock] \in {src, CorrectedSecondary(src)}
    BY <1>2, <1>3, <1>4, <2>1, RebuildPut
  <2>4. pc # 2
    BY <1>2, <1>6
  <2>5. pc' >= 3 => ArrayOn(medium', src)
    BY <1>3, <1>5, <2>1, <2>4
  <2>6. QED
    BY <1>1, <1>3, <1>5, <2>2, <2>3, <2>5 DEF Rebuilding
<1>7. CASE plan[pc].op = "flush"
  <2>1. disk' = disk /\ medium' = disk
    BY <1>7, StepTaken
  <2>2. pc >= 2
    BY <1>2, <1>7
  <2>3. QED
    BY <1>1, <1>3, <1>5, <2>1, <2>2 DEF Rebuilding
<1>8. QED
  BY <1>6, <1>7, StepTaken

\* A repair that starts rebuilds the main table or writes the MBR alone.
LEMMA RepairStarts ==
    ASSUME TypeOK, RunRepair
    PROVE  /\ UNCHANGED <<disk, medium>>
           /\ \/ plan' = MbrPlan
              \/ /\ ~IsValid(disk, 1)
                 /\ \E src \in Header : Rebuilding(src)'
<1>1. /\ plan' = RepairPlan(disk) /\ pc' = 1 /\ UNCHANGED <<disk, medium>>
      /\ WillWrite(Analyze(disk))
  BY DEF RunRepair, Start
<1>2. disk \in Disk
  BY DEF TypeOK
<1>3. CASE Analyze(disk) = "MbrOnly"
  BY <1>1, <1>3 DEF RepairPlan
<1>4. CASE Analyze(disk) = "MainRepairable"
  <2> DEFINE src == HeaderAt(disk, LastBlock)
  <2>1. plan' = MainPlan(disk)
    BY <1>1, <1>4 DEF RepairPlan
  <2>2. ~IsValid(disk, 1) /\ src \in Header /\ src = disk[LastBlock] /\ Rebuildable(src)
    BY <1>2, <1>4, MainRepairableFacts, SourceFacts, SourceIsRebuildable
  <2>3. BeginsWithArray(MainPlan(disk), src)
    BY <1>2, <1>4, MainPlanBegins
  <2>4. MainSteps(disk) \subseteq StepsFrom(src)
    <3>1. OnlyWrongAlternate(disk, LastBlock) => src.alt # 1
      BY GeometryAssumption DEF OnlyWrongAlternate, AlternateOf
    <3>2. QED
      BY <3>1 DEF MainSteps, StepsFrom, ArrayStep
  <2>5. MainPlan(disk) \in Seq(StepsFrom(src))
    <3>1. MainPlan(disk) \in Seq(MainSteps(disk))
      BY <1>2, <1>4, MainPlanSteps
    <3>2. QED
      BY <2>4, <3>1
  <2>6. PICK s : s = src
    OBVIOUS
  <2>7. Rebuilding(s)'
    BY <1>1, <2>1, <2>2, <2>3, <2>5, <2>6 DEF Rebuilding
  <2>8. QED
    BY <1>1, <2>2, <2>6, <2>7
<1>5. QED
  BY <1>1, <1>3, <1>4 DEF WillWrite

\* So does a prevention that starts find what it relies on.
LEMMA PreventionStarts ==
    ASSUME TypeOK, RunPrevent
    PROVE  /\ UNCHANGED <<disk, medium>>
           /\ \E h1, h2 \in Header : Preventing(h1, h2)'
<1>1. /\ plan' = PreventPlan(disk) /\ pc' = 1 /\ UNCHANGED <<disk, medium>>
      /\ Applicable(disk)
  BY DEF RunPrevent, Start
<1>2. PICK h1, h2 : h1 = Lowered(disk, 1) /\ h2 = Lowered(disk, LastBlock)
  OBVIOUS
<1>3. disk \in Disk
  BY DEF TypeOK
<1>4. /\ BothValid(disk) /\ h1 \in Header /\ h2 \in Header
      /\ Like(disk[1], h1) /\ Like(disk[LastBlock], h2)
      /\ UsableRangeOk(h1) /\ UsableRangeOk(h2)
      /\ h1.first = 2 + h1.n /\ h2.first = h1.first
      /\ h1.first <= disk[1].first /\ h2.first <= disk[LastBlock].first
  BY <1>1, <1>2, <1>3, PreventionFacts
<1>5. plan' = <<Write(1, <<h1>>), Flush, Write(LastBlock, <<h2>>), Flush>>
  BY <1>1, <1>2 DEF PreventPlan
<1>6. Preventing(h1, h2)'
  BY <1>1, <1>4, <1>5 DEF Preventing
<1>7. QED
  BY <1>1, <1>4, <1>6

LEMMA PlanInvStep ==
    ASSUME TypeOK, PlanInv, [RecurrenceNext]_vars
    PROVE  PlanInv'
<1>1. CASE RunRepair
  BY <1>1, RepairStarts DEF PlanInv
<1>2. CASE RunPrevent
  BY <1>2, PreventionStarts DEF PlanInv
<1>3. CASE FaultyWriter \/ Fault
  <2>1. Idle'
    BY <1>3 DEF FaultyWriter, Fault, FailingWrite, FailingFlush, PowerCut, Stop, Idle
  <2>2. QED
    BY <2>1 DEF PlanInv
<1>4. CASE ApplyStep
  <2>1. ~Idle
    BY <1>4 DEF ApplyStep, WriteStep, FlushStep
  <2>2. CASE plan = MbrPlan
    <3>1. Idle' \/ plan' = MbrPlan
      BY <1>4, <2>1, <2>2, StepTaken DEF Idle
    <3>2. QED
      BY <3>1 DEF PlanInv
  <2>3. ASSUME NEW h1 \in Header, NEW h2 \in Header, Preventing(h1, h2)
        PROVE  PlanInv'
    BY <1>4, <2>1, <2>3, PreventingKept DEF PlanInv
  <2>4. ASSUME NEW src \in Header, Rebuilding(src) PROVE PlanInv'
    BY <1>4, <2>1, <2>4, RebuildingKept DEF PlanInv
  <2>5. QED
    BY <2>1, <2>2, <2>3, <2>4 DEF PlanInv
<1>5. CASE UNCHANGED vars
  BY <1>5 DEF vars, PlanInv, Preventing, Rebuilding, Idle
<1>6. QED
  BY <1>1, <1>2, <1>3, <1>4, <1>5, RecurrenceSteps

\* TypeOK holds of every state of Recurrence.
LEMMA RecurrenceTyped == RecurrenceSpec => []TypeOK
<1>1. Init => TypeOK
  BY DisksAssumption, FaultsAssumption DEF Init, TypeOK
<1>2. TypeOK /\ [RecurrenceNext]_vars => TypeOK'
  BY RecurrenceKeepsType
<1>3. QED
  BY <1>1, <1>2, PTL DEF RecurrenceSpec

-----------------------------------------------------------------------------
(* Two valid copies stay two valid copies                                  *)

\* What is in flight over the two valid copies of m leaves every mixture of m
\* and d two valid copies: d has two itself, their headers tell of the same
\* arrays, and no array differs.
Agree(m, d) ==
    /\ BothValid(d)
    /\ Like(m[LastBlock], d[LastBlock])
    /\ SameArray(m[1], m, d) /\ SameArray(d[1], m, d) /\ SameArray(d[LastBlock], m, d)
    /\ d[1].crc \in {m[1].crc, m[LastBlock].crc}

\* PairSurvives speaks of the medium alone; what makes it inductive is that the
\* disk agrees with it.
PairInv == BothValid(medium) => Agree(medium, disk)

LEMMA AgreeReflexive ==
    ASSUME NEW d \in Disk, BothValid(d)
    PROVE  Agree(d, d)
BY BothValidFacts, LikeFields DEF Agree, SameArray

\* Another header for the main copy, or the old ones with their usable areas
\* moved, over arrays that stay.
LEMMA AgreeKept ==
    ASSUME NEW m \in Disk, NEW d \in Disk, NEW y \in Disk,
           BothValid(m), Agree(m, d), BothValid(y),
           \A l \in LBA \ {0, 1, LastBlock} : y[l] = d[l],
           Like(d[LastBlock], y[LastBlock]),
           Like(d[1], y[1]) \/ (SameArray(y[1], m, y) /\ y[1].crc = m[LastBlock].crc)
    PROVE  Agree(m, y)
<1>1. BothValid(d)
  BY DEF Agree
<1>2. /\ m[1] \in Header /\ m[LastBlock] \in Header /\ ArrayClear(m[1])
      /\ d[1] \in Header /\ d[LastBlock] \in Header
      /\ ArrayClear(d[1]) /\ ArrayClear(d[LastBlock])
      /\ y[1] \in Header /\ y[LastBlock] \in Header
  BY <1>1, BothValidFacts
<1>3. Like(m[LastBlock], y[LastBlock])
  BY <1>2, LikeFields DEF Agree
<1>4. \A h : ArrayClear(h) /\ SameArray(h, m, d) => SameArray(h, m, y)
  BY DEF ArrayClear, SameArray
<1>5. /\ SameArray(m[1], m, y)
      /\ SameArray(d[1], m, y)
      /\ SameArray(d[LastBlock], m, y)
  BY <1>2, <1>4 DEF Agree
<1>6. /\ y[LastBlock].n = d[LastBlock].n
      /\ y[LastBlock].elba = d[LastBlock].elba
  BY <1>2, LikeFields
<1>7. SameArray(y[LastBlock], m, y)
  BY <1>5, <1>6 DEF SameArray
<1>8. CASE Like(d[1], y[1])
  <2>1. y[1].n = d[1].n /\ y[1].elba = d[1].elba /\ y[1].crc = d[1].crc
    BY <1>2, <1>8, LikeFields
  <2>2. SameArray(y[1], m, y)
    BY <1>5, <2>1 DEF SameArray
  <2>3. QED
    BY <1>3, <1>5, <1>7, <2>1, <2>2 DEF Agree
<1>9. CASE SameArray(y[1], m, y) /\ y[1].crc = m[LastBlock].crc
  BY <1>3, <1>5, <1>7, <1>9 DEF Agree
<1>10. QED
  BY <1>8, <1>9

\* A write of any plan, whole or in part, keeps the disk in agreement with two
\* valid copies on the medium.
LEMMA PairKeptByPut ==
    ASSUME TypeOK, ~Idle, PlanInv, PairInv, BothValid(medium),
           plan[pc].op = "write", NEW which, NEW y, y = Put(disk, plan[pc], which)
    PROVE  Agree(medium, y)
<1>1. /\ disk \in Disk /\ medium \in Disk /\ plan[pc] \in Step
      /\ Agree(medium, disk) /\ BothValid(disk)
  BY DEF TypeOK, Idle, PairInv, Agree
<1>2. y \in Disk
  BY <1>1, PutType
<1>3. /\ 0 \in LBA /\ 1 \in LBA /\ LastBlock \in LBA /\ 1 # LastBlock /\ LastBlock # 0
      /\ disk[1] \in Header /\ disk[LastBlock] \in Header
      /\ medium[1] \in Header /\ medium[LastBlock] \in Header
  BY <1>1, BothValidFacts, GeometryAssumption DEF LBA
<1>4. UsableRangeOk(disk[1]) /\ UsableRangeOk(disk[LastBlock])
      /\ Like(disk[1], disk[1]) /\ Like(disk[LastBlock], disk[LastBlock])
  BY <1>1, <1>3, ValidRange, LikeFields DEF BothValid, Both
<1>5. ASSUME y[1] = disk[1], y[LastBlock] = disk[LastBlock],
             \A l \in LBA \ {0, 1, LastBlock} : y[l] = disk[l]
      PROVE  Agree(medium, y)
  <2>1. BothValid(y)
    BY <1>1, <1>2, <1>3, <1>4, <1>5, HeaderMoved DEF Both
  <2>2. QED
    BY <1>1, <1>2, <1>3, <1>4, <1>5, <2>1, AgreeKept
<1>6. CASE plan = MbrPlan
  <2>1. plan[pc] = Write(0, <<ProtectiveMbr>>)
    <3>1. pc \in 1..2
      BY <1>6 DEF TypeOK, MbrPlan, Idle
    <3>2. Flush.op = "flush"
      BY DEF Flush
    <3>3. QED
      BY <1>6, <3>1, <3>2 DEF MbrPlan
  <2>2. \A l \in LBA \ {0} : y[l] = disk[l]
    BY <1>1, <1>3, <2>1, HeaderPut
  <2>3. QED
    BY <1>3, <1>5, <2>2
<1>7. ASSUME NEW h1 \in Header, NEW h2 \in Header, Preventing(h1, h2)
      PROVE  Agree(medium, y)
  <2>1. /\ BothValid(y)
        /\ Like(disk[1], y[1]) /\ Like(disk[LastBlock], y[LastBlock])
    BY <1>7, PreventionPut
  <2>2. \A l \in LBA \ {0, 1, LastBlock} : y[l] = disk[l]
    BY <1>3, <1>7, PreventionPut
  <2>3. QED
    BY <1>1, <1>2, <2>1, <2>2, AgreeKept
<1>8. ASSUME NEW src \in Header, Rebuilding(src)
      PROVE  Agree(medium, y)
  <2>1. Rebuildable(src) /\ disk[LastBlock] \in {src, CorrectedSecondary(src)}
    BY <1>8 DEF Rebuilding
  <2>2. pc \in Nat /\ plan[pc] \in StepsFrom(src) /\ pc >= 1
    BY <1>8, RebuildingSteps
  <2>3. pc # 1 /\ pc # 2
    <3>1. IsValid(disk, 1)
      BY <1>1 DEF BothValid, Both
    <3>2. pc # 1
      BY <1>8, <3>1 DEF Rebuilding
    <3>3. pc # 2
      BY <1>8, RebuildingSteps
    <3>4. QED
      BY <3>2, <3>3
  <2>4. ArrayOn(disk, src) /\ ArrayOn(medium, src)
    <3>1. pc >= 2 /\ pc >= 3
      BY <2>2, <2>3
    <3>2. QED
      BY <1>8, <3>1 DEF Rebuilding
  <2>5. /\ y[1] \in {disk[1], MainHeader(src)}
        /\ \/ y[LastBlock] = disk[LastBlock]
           \/ y[LastBlock] = CorrectedSecondary(src) /\ src.alt # 1
        /\ \A l \in LBA \ {0, 1, LastBlock} :
             y[l] = disk[l] \/ (l - 1 \in 1..src.n /\ y[l] = src.crc[l - 1])
        /\ ArrayOn(y, src)
    BY <1>1, <2>1, <2>2, <2>4, RebuildPut
  <2>6. y[LastBlock] = disk[LastBlock]
    <3>1. LastBlock \in Both /\ IsValid(disk, LastBlock)
      BY <1>1 DEF BothValid, Both
    <3>2. disk[LastBlock].alt = 1
      BY <1>1, <1>3, <3>1, ValidRange DEF IsValid, AlternateOf
    <3>3. QED
      BY <2>1, <2>5, <3>2
  <2>7. \A l \in LBA \ {0, 1, LastBlock} : y[l] = disk[l]
    <3>1. ASSUME NEW l \in LBA, l - 1 \in 1..src.n
          PROVE  disk[l] = src.crc[l - 1]
      <4>1. (l - 1) + 1 = l
        BY <3>1, GeometryAssumption DEF LBA
      <4>2. QED
        BY <2>4, <3>1, <4>1 DEF ArrayOn
    <3>2. QED
      BY <2>5, <3>1
  <2>8. CASE y[1] = disk[1]
    BY <1>5, <2>6, <2>7, <2>8
  <2>9. CASE y[1] = MainHeader(src)
    <3>1. /\ y[1] \in Header /\ y[1].n = src.n /\ y[1].elba = 2 /\ y[1].crc = src.crc
      BY <2>9, WrittenHeadersType DEF MainHeader, Header
    <3>2. IsValid(y, 1)
      BY <1>2, <2>1, <2>5, <2>9, RebuiltIsValid
    <3>3. IsValid(y, LastBlock)
      <4>1. SameArray(disk[LastBlock], disk, y)
        BY <1>1, <2>7, BothValidFacts DEF ArrayClear, SameArray
      <4>2. LastBlock \in Both /\ IsValid(disk, LastBlock)
        BY <1>1 DEF BothValid, Both
      <4>3. QED
        BY <1>1, <1>2, <1>3, <1>4, <2>6, <4>1, <4>2, ValidKept
    <3>4. BothValid(y)
      BY <3>2, <3>3 DEF BothValid, Both
    <3>5. SameArray(y[1], medium, y)
      <4>1. \A i \in 1..src.n : 2 + i - 1 = i + 1
        OBVIOUS
      <4>2. QED
        BY <2>4, <2>5, <3>1, <4>1 DEF ArrayOn, SameArray
    <3>6. y[1].crc = medium[LastBlock].crc
      <4>1. Like(medium[LastBlock], disk[LastBlock])
        BY <1>1 DEF Agree
      <4>2. disk[LastBlock].crc = src.crc
        BY <2>1 DEF CorrectedSecondary, Header
      <4>3. QED
        BY <1>3, <3>1, <4>1, <4>2, LikeFields
    <3>7. QED
      BY <1>1, <1>2, <1>4, <2>6, <2>7, <3>4, <3>5, <3>6, AgreeKept
  <2>10. QED
    BY <2>5, <2>8, <2>9
<1>9. QED
  BY <1>6, <1>7, <1>8 DEF PlanInv

LEMMA PairInvStep ==
    ASSUME TypeOK, PlanInv, PairInv, [RecurrenceNext]_vars
    PROVE  PairInv'
<1>1. TypeOK'
  BY RecurrenceKeepsType
<1>2. CASE UNCHANGED <<disk, medium>>
  BY <1>2 DEF PairInv
<1>3. CASE medium' = disk'
  <2>1. medium' \in Disk
    BY <1>1 DEF TypeOK
  <2>2. QED
    BY <1>3, <2>1, AgreeReflexive DEF PairInv
<1>4. ASSUME ~Idle, plan[pc].op = "write", medium' = medium,
             NEW which, disk' = Put(disk, plan[pc], which)
      PROVE  PairInv'
  BY <1>4, PairKeptByPut DEF PairInv
<1>5. CASE WriteStep
  BY <1>4, <1>5 DEF WriteStep
<1>6. CASE FailingWrite
  BY <1>4, <1>6 DEF FailingWrite
<1>7. CASE FlushStep \/ PowerCut \/ FaultyWriter
  BY <1>3, <1>7 DEF FlushStep, PowerCut, FaultyWriter
<1>8. CASE FailingFlush \/ RunRepair \/ RunPrevent \/ UNCHANGED vars
  BY <1>2, <1>8 DEF FailingFlush, RunRepair, RunPrevent, Start, vars
<1>9. QED
  BY <1>5, <1>6, <1>7, <1>8, RecurrenceSteps DEF ApplyStep, Fault

\* Any mixture of two disks that agree has two valid copies.
LEMMA MixtureValid ==
    ASSUME NEW m \in Disk, NEW d \in Disk, NEW y \in Disk, BothValid(m), Agree(m, d),
           \A l \in LBA : y[l] = m[l] \/ y[l] = d[l]
    PROVE  /\ BothValid(y)
           /\ HeaderAt(y, LastBlock).crc = HeaderAt(m, LastBlock).crc
           /\ HeaderAt(y, 1).crc \in {HeaderAt(m, role).crc : role \in Both}
<1>1. BothValid(d) /\ Like(m[LastBlock], d[LastBlock])
  BY DEF Agree
<1>2. /\ 1 \in LBA /\ LastBlock \in LBA /\ 1 \in Both /\ LastBlock \in Both
      /\ m[1] \in Header /\ m[LastBlock] \in Header
      /\ d[1] \in Header /\ d[LastBlock] \in Header
      /\ HeaderAt(m, 1) = m[1] /\ HeaderAt(m, LastBlock) = m[LastBlock]
      /\ ArrayClear(m[1]) /\ ArrayClear(d[1])
      /\ ArrayClear(m[LastBlock]) /\ ArrayClear(d[LastBlock])
  BY <1>1, BothValidFacts DEF Both
<1>3. \A role \in Both : /\ IsValid(m, role) /\ UsableRangeOk(m[role])
                         /\ IsValid(d, role) /\ UsableRangeOk(d[role])
  BY <1>1, ValidRange DEF BothValid
<1>4. \A h : ArrayClear(h) /\ SameArray(h, m, d) => SameArray(h, m, y) /\ SameArray(h, d, y)
  BY DEF ArrayClear, SameArray
<1>5. SameArray(m[LastBlock], m, d)
  <2>1. m[LastBlock].n = d[LastBlock].n /\ m[LastBlock].elba = d[LastBlock].elba
    BY <1>1, <1>2, LikeFields
  <2>2. QED
    BY <2>1 DEF Agree, SameArray
<1>6. /\ SameArray(m[1], m, y) /\ SameArray(d[1], d, y)
      /\ SameArray(m[LastBlock], m, y) /\ SameArray(d[LastBlock], d, y)
  BY <1>2, <1>4, <1>5 DEF Agree
<1>7. \A role \in Both : Like(m[role], m[role]) /\ Like(d[role], d[role])
  BY <1>2, LikeFields DEF Both
<1>8. IsValid(y, 1) /\ HeaderAt(y, 1).crc \in {m[1].crc, d[1].crc}
  <2>1. CASE y[1] = m[1]
    BY <1>2, <1>3, <1>6, <1>7, <2>1, ValidKept
  <2>2. CASE y[1] = d[1]
    BY <1>2, <1>3, <1>6, <1>7, <2>2, ValidKept
  <2>3. QED
    BY <1>2, <2>1, <2>2
<1>9. IsValid(y, LastBlock) /\ HeaderAt(y, LastBlock).crc = m[LastBlock].crc
  <2>1. CASE y[LastBlock] = m[LastBlock]
    BY <1>2, <1>3, <1>6, <1>7, <2>1, ValidKept
  <2>2. CASE y[LastBlock] = d[LastBlock]
    <3>1. d[LastBlock].crc = m[LastBlock].crc
      BY <1>1, <1>2, LikeFields
    <3>2. QED
      BY <1>2, <1>3, <1>6, <1>7, <2>2, <3>1, ValidKept
  <2>3. QED
    BY <1>2, <2>1, <2>2
<1>10. BothValid(y)
  BY <1>8, <1>9 DEF BothValid, Both
<1>11. d[1].crc \in {m[1].crc, m[LastBlock].crc}
  BY DEF Agree
<1>12. QED
  BY <1>2, <1>8, <1>9, <1>10, <1>11

\* What one step leaves on the medium: the block that was there or the disk's,
\* unless the writer was at work.
LEMMA MediumMixture ==
    ASSUME [RecurrenceNext]_vars, ~FaultyWriter
    PROVE  \A l \in LBA : medium'[l] = medium[l] \/ medium'[l] = disk[l]
BY RecurrenceSteps
   DEF ApplyStep, Fault, WriteStep, FlushStep, FailingWrite, FailingFlush, PowerCut,
       RunRepair, RunPrevent, Start, vars

\* Spec => PairSurvives: no step of a repair or a prevention, complete, failing or
\* cut short, takes one of two valid copies away or the table in it.
THEOREM PairIsKept == RecurrenceSpec => PairSurvives
<1>1. Init => PlanInv /\ PairInv
  <2>1. Init => PlanInv
    BY DEF Init, PlanInv, Idle
  <2>2. Init => PairInv
    BY DisksAssumption, AgreeReflexive DEF Init, PairInv
  <2>3. QED
    BY <2>1, <2>2
<1>2. TypeOK /\ PlanInv /\ PairInv /\ [RecurrenceNext]_vars => (PlanInv /\ PairInv)'
  BY PlanInvStep, PairInvStep
<1>3. TypeOK /\ PairInv /\ TypeOK' /\ [RecurrenceNext]_vars
        => [~FaultyWriter /\ BothValid(medium) =>
              /\ BothValid(medium')
              /\ HeaderAt(medium', LastBlock).crc = HeaderAt(medium, LastBlock).crc
              /\ HeaderAt(medium', 1).crc
                   \in {HeaderAt(medium, role).crc : role \in Both}]_vars
  <2> SUFFICES ASSUME TypeOK, PairInv, TypeOK', [RecurrenceNext]_vars,
                      ~FaultyWriter, BothValid(medium)
               PROVE  /\ BothValid(medium')
                      /\ HeaderAt(medium', LastBlock).crc = HeaderAt(medium, LastBlock).crc
                      /\ HeaderAt(medium', 1).crc
                           \in {HeaderAt(medium, role).crc : role \in Both}
    OBVIOUS
  <2>1. medium \in Disk /\ disk \in Disk /\ medium' \in Disk
    BY DEF TypeOK
  <2>2. Agree(medium, disk)
    BY DEF PairInv
  <2>3. QED
    BY <2>1, <2>2, MediumMixture, MixtureValid
<1>4. QED
  BY <1>1, <1>2, <1>3, RecurrenceTyped, PTL DEF RecurrenceSpec, PairSurvives

-----------------------------------------------------------------------------
(* A prevention that comes to its end                                      *)

\* A prevention that reports success is done: what it wrote is durable, both copies
\* are valid, and in both the usable area starts where the array at LBA 2 ends,
\* whatever the writer, repairs and interrupted preventions did before. Of the three
\* plans it is the one that begins at LBA 1.
PreventionFinishes ==
    [][~Idle /\ plan[1].lba = 1 /\ Idle' /\ faults' = faults =>
           /\ medium' = disk'
           /\ BothValid(disk')
           /\ \A role \in Both : First(disk', role) = Proposed(disk')]_vars

LEMMA PreventionIsRecognised ==
    ASSUME PlanInv, ~Idle, plan[1].lba = 1
    PROVE  \E h1, h2 \in Header : Preventing(h1, h2)
<1>1. plan # MbrPlan
  BY DEF MbrPlan, Write
<1>2. \A src \in Header : ~Rebuilding(src)
  BY DEF Rebuilding, BeginsWithArray, ArrayStep, Write
<1> QED
  BY <1>1, <1>2 DEF PlanInv

\* With both headers written the gap is closed in both.
LEMMA PreventionCloses ==
    ASSUME TypeOK, NEW h1 \in Header, NEW h2 \in Header, Preventing(h1, h2), pc = 4
    PROVE  BothValid(disk) /\ \A role \in Both : First(disk, role) = Proposed(disk)
<1>1. /\ BothValid(disk) /\ disk[1] = h1 /\ disk[LastBlock] = h2
      /\ h1.first = 2 + h1.n /\ h2.first = h1.first
  BY DEF Preventing
<1>2. HeaderAt(disk, 1) = h1 /\ HeaderAt(disk, LastBlock) = h2
  BY <1>1 DEF HeaderAt
<1> QED
  BY <1>1, <1>2 DEF First, Proposed, Both

\* The safety half of RecurrenceEnds: a prevention that is not interrupted closes the
\* gap, over two tables that are both valid (prevent::plan, apply).
THEOREM PreventionEndsTheWork == RecurrenceSpec => PreventionFinishes
<1>1. ASSUME TypeOK, PlanInv, [RecurrenceNext]_vars, ~Idle, plan[1].lba = 1, Idle',
             faults' = faults
      PROVE  /\ medium' = disk'
             /\ BothValid(disk')
             /\ \A role \in Both : First(disk', role) = Proposed(disk')
  <2>1. PICK h1 \in Header, h2 \in Header : Preventing(h1, h2)
    BY <1>1, PreventionIsRecognised
  <2>2. ApplyStep
    <3>1. faults \in Nat
      BY <1>1, FaultsAssumption DEF TypeOK
    <3>2. ~Fault
      BY <1>1, <3>1 DEF Fault, FailingWrite, FailingFlush, PowerCut
    <3>3. ~RunRepair /\ ~RunPrevent /\ ~FaultyWriter /\ ~UNCHANGED vars
      BY <1>1 DEF RunRepair, RunPrevent, FaultyWriter, Start, vars, Idle
    <3> QED
      BY <1>1, <3>2, <3>3, RecurrenceSteps
  <2>3. pc = 4 /\ plan[pc].op = "flush"
    <3>1. pc = Len(plan)
      <4>1. pc \in 1..Len(plan) /\ Len(plan) \in Nat
        BY <1>1, <2>2, StepTaken DEF TypeOK
      <4> QED
        BY <1>1, <2>2, <4>1 DEF ApplyStep, WriteStep, FlushStep, Advance, Idle
    <3>2. /\ Len(plan) = 4
          /\ pc = 1 \/ pc = 2 \/ pc = 3 \/ (pc = 4 /\ plan[pc].op = "flush")
      BY <1>1, <2>1, PreventingSteps
    <3> QED
      BY <3>1, <3>2
  <2>4. medium' = disk /\ disk' = disk
    BY <1>1, <2>2, <2>3, StepTaken
  <2>5. BothValid(disk) /\ \A role \in Both : First(disk, role) = Proposed(disk)
    BY <1>1, <2>1, <2>3, PreventionCloses
  <2> QED
    BY <2>4, <2>5
<1>2. Init => PlanInv
  BY DEF Init, PlanInv, Idle
<1>3. TypeOK /\ PlanInv /\ [RecurrenceNext]_vars => PlanInv'
  BY PlanInvStep
<1>4. TypeOK /\ PlanInv /\ [RecurrenceNext]_vars
        => [~Idle /\ plan[1].lba = 1 /\ Idle' /\ faults' = faults =>
              /\ medium' = disk'
              /\ BothValid(disk')
              /\ \A role \in Both : First(disk', role) = Proposed(disk')]_vars
  BY <1>1
<1> QED
  BY <1>2, <1>3, <1>4, RecurrenceTyped, PTL DEF RecurrenceSpec, PreventionFinishes

-----------------------------------------------------------------------------
(* The table survives the writer, the repairs and the preventions          *)

\* The disks TableSurvives is about.
OneTable(d) ==
    BothValid(d) /\ ArraysApart(d) /\ TableOf(d) = HeaderAt(d, LastBlock).crc

\* What each block may hold, whatever happens to a disk that started as d: a main
\* header of its table, the secondary header with its usable area moved at most,
\* and the secondary's array, which both headers keep out of the writer's reach.
MayHold(d) ==
    LET src == d[LastBlock]
    IN  [l \in LBA |->
            IF l = 1 THEN {h \in Header : h.crc = src.crc /\ h.first <= src.elba}
            ELSE IF l = LastBlock
                 THEN {h \in Header : /\ Like(src, h) /\ UsableRangeOk(h)
                                      /\ h.first <= src.elba}
            ELSE IF l \in src.elba..(src.elba + src.n - 1) THEN {d[l]} ELSE Block]

TableInv ==
    OneTable(disk0) => \A l \in LBA : /\ disk[l] \in MayHold(disk0)[l]
                                      /\ medium[l] \in MayHold(disk0)[l]

LEMMA OneTableFacts ==
    ASSUME NEW d \in Disk, OneTable(d)
    PROVE  /\ BothValid(d) /\ 1 \in LBA /\ LastBlock \in LBA /\ 1 # LastBlock
           /\ d[1] \in Header /\ d[LastBlock] \in Header
           /\ d[1].crc = d[LastBlock].crc /\ TableOf(d) = d[LastBlock].crc
           /\ d[1].first <= d[LastBlock].elba
           /\ d[LastBlock].first <= d[LastBlock].elba
           /\ UsableRangeOk(d[LastBlock])
           /\ d[LastBlock].alt = 1
           /\ d[LastBlock].elba \in Nat /\ d[LastBlock].n \in Nat
           /\ d[LastBlock].elba >= 1
           /\ \A l \in (d[LastBlock].elba)..(d[LastBlock].elba + d[LastBlock].n - 1) :
                l \notin {0, 1, LastBlock}
<1> DEFINE src == d[LastBlock]
<1>1. BothValid(d) /\ ArraysApart(d) /\ TableOf(d) = HeaderAt(d, LastBlock).crc
  BY DEF OneTable
<1>2. /\ 1 \in LBA /\ LastBlock \in LBA /\ 1 # LastBlock
      /\ d[1] \in Header /\ HeaderAt(d, 1) = d[1]
      /\ src \in Header /\ HeaderAt(d, LastBlock) = src /\ ArrayClear(src)
  BY <1>1, BothValidFacts
<1>3. IsValid(d, 1) /\ IsValid(d, LastBlock)
  BY <1>1 DEF BothValid, Both
<1>4. d[1].crc = src.crc /\ TableOf(d) = src.crc
  BY <1>1, <1>2, <1>3 DEF TableOf
<1>5. d[1].first <= src.elba /\ src.first <= src.elba
  BY <1>1, <1>2 DEF ArraysApart, First, Both
<1>6. UsableRangeOk(src) /\ src.alt = 1
  BY <1>2, <1>3 DEF IsValid, SoundButForAlternate, AlternateOf
<1>7. src.elba \in Nat /\ src.n \in Nat
  BY <1>2, HeaderFields
<1>9. src.elba >= 1
  BY <1>2, <1>3 DEF IsValid, SoundButForAlternate
<1>8. ASSUME NEW l \in (src.elba)..(src.elba + src.n - 1) PROVE l \notin {0, 1, LastBlock}
  <2>1. PICK e \in Nat, m \in Nat : e = src.elba /\ m = src.n
    BY <1>7
  <2>2. l - e + 1 \in 1..m /\ l = e + (l - e + 1) - 1
    BY <1>8, <2>1
  <2>3. PICK i \in 1..(src.n) : l = src.elba + i - 1
    BY <2>1, <2>2
  <2>4. QED
    BY <1>2, <2>3 DEF ArrayClear
<1>10. QED
  BY <1>1, <1>2, <1>4, <1>5, <1>6, <1>7, <1>8, <1>9

\* MayHold, block by block.
LEMMA MayHoldFacts ==
    ASSUME NEW d \in Disk, OneTable(d)
    PROVE  LET src == d[LastBlock]
               F == MayHold(d)
           IN  /\ F[1] = {h \in Header : h.crc = src.crc /\ h.first <= src.elba}
               /\ F[LastBlock] = {h \in Header : /\ Like(src, h) /\ UsableRangeOk(h)
                                                 /\ h.first <= src.elba}
               /\ \A l \in LBA \ {1, LastBlock} :
                    /\ l \in (src.elba)..(src.elba + src.n - 1) => F[l] = {d[l]}
                    /\ l \notin (src.elba)..(src.elba + src.n - 1) => F[l] = Block
BY OneTableFacts DEF MayHold

LEMMA HeldAtFirst ==
    ASSUME NEW d \in Disk, OneTable(d)
    PROVE  \A l \in LBA : d[l] \in MayHold(d)[l]
<1> DEFINE src == d[LastBlock]
           F == MayHold(d)
<1>1. d[1] \in F[1]
  BY OneTableFacts, MayHoldFacts
<1>2. d[LastBlock] \in F[LastBlock]
  BY OneTableFacts, MayHoldFacts, LikeFields
<1>3. ASSUME NEW l \in LBA \ {1, LastBlock} PROVE d[l] \in F[l]
  BY <1>3, MayHoldFacts DEF Disk
<1>4. QED
  BY <1>1, <1>2, <1>3

\* A reader of any such disk finds the table.
LEMMA HeldTable ==
    ASSUME NEW d \in Disk, OneTable(d), NEW x \in Disk,
           \A l \in LBA : x[l] \in MayHold(d)[l]
    PROVE  TableOf(x) = TableOf(d)
<1> DEFINE src == d[LastBlock]
           F == MayHold(d)
<1>1. /\ BothValid(d) /\ 1 \in LBA /\ LastBlock \in LBA /\ src \in Header
      /\ TableOf(d) = src.crc /\ src.elba \in Nat /\ src.n \in Nat
  BY OneTableFacts
<1>2. x[1] \in Header /\ x[1].crc = src.crc
  <2>1. x[1] \in F[1]
    BY <1>1
  <2>2. QED
    BY <2>1, MayHoldFacts
<1>3. x[LastBlock] \in Header /\ Like(src, x[LastBlock]) /\ UsableRangeOk(x[LastBlock])
  <2>1. x[LastBlock] \in F[LastBlock]
    BY <1>1
  <2>2. QED
    BY <2>1, MayHoldFacts
<1>4. SameArray(src, d, x)
  <2> SUFFICES ASSUME NEW i \in 1..src.n
               PROVE  d[src.elba + i - 1] = x[src.elba + i - 1]
    BY DEF SameArray
  <2>1. PICK l : l = src.elba + i - 1
    OBVIOUS
  <2>2. l \in (src.elba)..(src.elba + src.n - 1)
    BY <1>1, <2>1
  <2>3. l \in LBA \ {1, LastBlock}
    <3>1. ArrayClear(src)
      BY <1>1, BothValidFacts
    <3>2. QED
      BY <2>1, <3>1 DEF ArrayClear
  <2>4. F[l] = {d[l]} /\ x[l] \in F[l]
    BY <2>2, <2>3, MayHoldFacts
  <2>5. QED
    BY <2>1, <2>4
<1>5. IsValid(x, LastBlock) /\ HeaderAt(x, LastBlock) = x[LastBlock]
  <2>1. LastBlock \in Both /\ IsValid(d, LastBlock)
    BY <1>1 DEF BothValid, Both
  <2>2. QED
    BY <1>3, <1>4, <2>1, ValidKept
<1>6. x[LastBlock].crc = src.crc
  BY <1>1, <1>3, LikeFields
<1>7. HeaderAt(x, 1).crc = src.crc
  BY <1>2 DEF HeaderAt
<1>8. QED
  BY <1>1, <1>5, <1>6, <1>7 DEF TableOf, UsableSource

\* No step of a plan writes anything else.
LEMMA PlansHold ==
    ASSUME TypeOK, PlanInv, ~Idle, NEW d \in Disk, OneTable(d),
           \A l \in LBA : disk[l] \in MayHold(d)[l]
    PROVE  \A l \in LBA : l \in Spanned(plan[pc])
             => plan[pc].blocks[l - plan[pc].lba + 1] \in MayHold(d)[l]
<1> DEFINE src == d[LastBlock]
           F == MayHold(d)
           new(l) == plan[pc].blocks[l - plan[pc].lba + 1]
<1>1. /\ 1 \in LBA /\ LastBlock \in LBA /\ 1 # LastBlock /\ 0 \in LBA /\ LastBlock # 0
      /\ src \in Header /\ src.elba \in Nat /\ src.n \in Nat /\ src.alt = 1
  BY OneTableFacts, GeometryAssumption DEF LBA
<1>2. F[0] = Block
  BY <1>1, OneTableFacts, MayHoldFacts
<1>3. disk[1] \in Header /\ disk[1].crc = src.crc /\ disk[1].first <= src.elba
  <2>1. disk[1] \in F[1]
    BY <1>1
  <2>2. QED
    BY <2>1, MayHoldFacts
<1>4. /\ disk[LastBlock] \in Header /\ Like(src, disk[LastBlock])
      /\ disk[LastBlock].first <= src.elba
      /\ disk[LastBlock] \in F[LastBlock]
  <2>1. disk[LastBlock] \in F[LastBlock]
    BY <1>1
  <2>2. QED
    BY <2>1, MayHoldFacts
<1>5. ProtectiveMbr \in Block
  BY DEF ProtectiveMbr, Mbr, MbrStatus, Block
<1>6. \A role \in LBA : \A h : \A l \in Spanned(Write(role, <<h>>)) :
        l = role /\ Write(role, <<h>>).blocks[l - Write(role, <<h>>).lba + 1] = h
  BY GeometryAssumption DEF Write, Spanned, LBA
<1>7. \A l : l \notin Spanned(Flush)
  BY DEF Flush, Spanned
<1>8. CASE plan = MbrPlan
  <2>1. plan[pc] = Write(0, <<ProtectiveMbr>>) \/ plan[pc] = Flush
    <3>1. pc \in 1..2
      BY <1>8 DEF TypeOK, MbrPlan, Idle
    <3>2. QED
      BY <1>8, <3>1 DEF MbrPlan
  <2>2. QED
    BY <1>1, <1>2, <1>5, <1>6, <1>7, <2>1
<1>9. ASSUME NEW h1 \in Header, NEW h2 \in Header, Preventing(h1, h2)
      PROVE  \A l \in LBA : l \in Spanned(plan[pc]) => new(l) \in F[l]
  <2>1. /\ Like(disk[1], h1) /\ Like(disk[LastBlock], h2)
        /\ UsableRangeOk(h2)
        /\ h1.first <= disk[1].first /\ h2.first <= disk[LastBlock].first
    BY <1>9 DEF Preventing
  <2>2. h1.first <= src.elba /\ h2.first <= src.elba
    <3>1. PICK f1 \in Nat, f2 \in Nat, g1 \in Nat, g2 \in Nat, e \in Nat :
             /\ f1 = h1.first /\ f2 = h2.first /\ g1 = disk[1].first
             /\ g2 = disk[LastBlock].first /\ e = src.elba
      BY <1>1, <1>3, <1>4, HeaderFields
    <3>2. f1 <= g1 /\ f2 <= g2 /\ g1 <= e /\ g2 <= e
      BY <1>3, <1>4, <2>1, <3>1
    <3>3. QED
      BY <3>1, <3>2
  <2>3. h1.crc = src.crc /\ Like(src, h2)
    BY <1>1, <1>3, <1>4, <2>1, LikeFields
  <2>4. h1 \in F[1] /\ h2 \in F[LastBlock]
    BY <2>1, <2>2, <2>3, MayHoldFacts
  <2>5. plan[pc] \in {Write(1, <<h1>>), Write(LastBlock, <<h2>>), Flush}
    BY <1>9, PreventingSteps
  <2>6. QED
    BY <1>1, <1>6, <1>7, <2>4, <2>5
<1>10. ASSUME NEW r \in Header, Rebuilding(r)
       PROVE  \A l \in LBA : l \in Spanned(plan[pc]) => new(l) \in F[l]
  <2>1. /\ Rebuildable(r) /\ disk[LastBlock] \in {r, CorrectedSecondary(r)}
        /\ plan[pc] \in StepsFrom(r)
    BY <1>10, RebuildingSteps DEF Rebuilding
  <2>2. /\ r.n \in Nat /\ r.first \in Nat /\ 2 + r.n <= r.first /\ r.first <= LastBlock
        /\ r.crc \in Seq(Data) /\ Len(r.crc) = r.n
    BY <2>1, RebuildableFacts
  <2>3. disk[LastBlock].crc = r.crc /\ disk[LastBlock].first = r.first
    BY <2>1 DEF CorrectedSecondary, Header
  <2>4. r.crc = src.crc /\ r.first <= src.elba
    BY <1>1, <1>4, <2>3, LikeFields
  <2>5. MainHeader(r) \in F[1]
    <3>1. /\ MainHeader(r) \in Header /\ MainHeader(r).crc = r.crc
          /\ MainHeader(r).first = r.first
      BY WrittenHeadersType DEF MainHeader, Header
    <3>2. QED
      BY <2>4, <3>1, MayHoldFacts
  <2>6. r.alt # 1 => CorrectedSecondary(r) = disk[LastBlock]
    <3>1. disk[LastBlock].alt = 1
      BY <1>1, <1>4, LikeFields
    <3>2. QED
      BY <2>1, <3>1
  <2>7. ASSUME NEW l \in LBA, l - 1 \in 1..r.n PROVE r.crc[l - 1] \in F[l]
    <3>1. PICK f \in Nat, m \in Nat, e \in Nat : f = r.first /\ m = r.n /\ e = src.elba
      BY <1>1, <2>2
    <3>2. l \in Nat /\ l - 1 >= 1 /\ l - 1 <= m /\ 2 + m <= f /\ f <= e /\ f <= LastBlock
      BY <2>2, <2>4, <2>7, <3>1, GeometryAssumption DEF LBA
    <3>3. l # 1 /\ l # LastBlock /\ l < e
      BY <3>2, GeometryAssumption
    <3>4. l \notin (src.elba)..(src.elba + src.n - 1)
      BY <1>1, <3>1, <3>2, <3>3
    <3>5. r.crc[l - 1] \in Data
      BY <2>2, <2>7
    <3>6. QED
      BY <3>3, <3>4, <3>5, MayHoldFacts DEF Block
  <2>8. ASSUME NEW l \in LBA, l \in Spanned(plan[pc]) PROVE new(l) \in F[l]
    <3>1. \/ l = 0 /\ new(l) = ProtectiveMbr
          \/ l = 1 /\ new(l) = MainHeader(r)
          \/ l - 1 \in 1..r.n /\ new(l) = r.crc[l - 1]
          \/ l = LastBlock /\ new(l) = CorrectedSecondary(r) /\ r.alt # 1
      BY <2>1, <2>8, StepsFromSpans
    <3>2. QED
      BY <1>2, <1>4, <1>5, <2>5, <2>6, <2>7, <2>8, <3>1
  <2>9. QED
    BY <2>8
<1>11. QED
  BY <1>8, <1>9, <1>10 DEF PlanInv

LEMMA TableInvStep ==
    ASSUME TypeOK, PlanInv, TableInv, [RecurrenceNext]_vars
    PROVE  TableInv'
<1>1. disk0' = disk0 /\ disk0 \in Disk /\ disk \in Disk
  BY RecurrenceSteps DEF TypeOK
<1> PICK d : d = disk0
  OBVIOUS
<1> PICK F : F = MayHold(d)
  OBVIOUS
<1> SUFFICES ASSUME OneTable(d)
             PROVE  \A l \in LBA : disk'[l] \in F[l] /\ medium'[l] \in F[l]
  BY <1>1 DEF TableInv
<1>2. \A l \in LBA : disk[l] \in F[l] /\ medium[l] \in F[l]
  BY DEF TableInv
<1>3. CASE ApplyStep \/ Fault
  <2>1. ~Idle => \A l \in LBA : l \in Spanned(plan[pc])
                   => plan[pc].blocks[l - plan[pc].lba + 1] \in F[l]
    BY <1>1, <1>2, PlansHold
  <2>2. QED
    BY <1>2, <1>3, <2>1, ApplyKeepsWithin
<1>4. CASE RunRepair \/ RunPrevent \/ UNCHANGED vars
  BY <1>2, <1>4 DEF RunRepair, RunPrevent, Start, vars
<1>5. CASE FaultyWriter
  <2> DEFINE src == d[LastBlock]
             h == disk[1]
             after == Misplaced(disk)
  <2>1. /\ 1 \in LBA /\ LastBlock \in LBA /\ 1 # LastBlock /\ 1 \in Both
        /\ src \in Header /\ src.elba \in Nat /\ src.n \in Nat
    BY <1>1, OneTableFacts DEF Both
  <2>2. IsValid(disk, 1) /\ h.first - h.n >= 1
    <3>1. IsValid(disk, 1)
      BY <1>5 DEF FaultyWriter
    <3>2. QED
      BY <1>1, <1>5, <2>1, <3>1, ValidRange DEF FaultyWriter
  <2>3. /\ after \in Disk /\ h \in Header /\ h.first \in Nat /\ h.n \in Nat
        /\ h.first <= LastBlock
        /\ after[1] = [h EXCEPT !.elba = h.first - h.n] /\ after[1] \in Header
        /\ \A l \in LBA \ {1} : l >= h.first => after[l] = disk[l]
    BY <1>1, <2>2, MisplacedFacts
  <2>4. h.crc = src.crc /\ h.first <= src.elba
    <3>1. h \in F[1]
      BY <1>2, <2>1
    <3>2. QED
      BY <1>1, <3>1, MayHoldFacts
  <2>5. after[1] \in F[1]
    <3>1. after[1].crc = h.crc /\ after[1].first = h.first
      BY <2>3 DEF Header
    <3>2. F[1] = {k \in Header : k.crc = src.crc /\ k.first <= src.elba}
      BY <1>1, MayHoldFacts
    <3>3. after[1] \in Header /\ after[1].crc = src.crc /\ after[1].first <= src.elba
      BY <2>3, <2>4, <3>1
    <3> HIDE DEF after, src
    <3>4. QED
      BY <3>2, <3>3
  <2>6. after[LastBlock] \in F[LastBlock]
    <3>1. after[LastBlock] = disk[LastBlock]
      BY <2>1, <2>3, GeometryAssumption
    <3>2. QED
      BY <1>2, <2>1, <3>1
  <2>7. ASSUME NEW l \in LBA \ {1, LastBlock} PROVE after[l] \in F[l]
    <3>1. CASE l \in (src.elba)..(src.elba + src.n - 1)
      <4>1. PICK f \in Nat, e \in Nat : f = h.first /\ e = src.elba
        BY <2>1, <2>3
      <4>2. e <= l /\ f <= e /\ l \in Nat
        BY <2>1, <2>4, <2>7, <3>1, <4>1, GeometryAssumption DEF LBA
      <4>3. l >= h.first
        BY <4>1, <4>2
      <4>4. QED
        BY <1>2, <2>3, <2>7, <4>3
    <3>2. CASE l \notin (src.elba)..(src.elba + src.n - 1)
      <4>1. F[l] = Block
        BY <1>1, <2>7, <3>2, MayHoldFacts
      <4>2. QED
        BY <2>3, <2>7, <4>1 DEF Disk
    <3>3. QED
      BY <3>1, <3>2
  <2>8. \A l \in LBA : after[l] \in F[l]
    BY <2>5, <2>6, <2>7
  <2>9. disk' = after /\ medium' = after
    BY <1>5 DEF FaultyWriter
  <2>10. QED
    BY <2>8, <2>9
<1>6. QED
  BY <1>3, <1>4, <1>5, RecurrenceSteps

\* Spec => []TableSurvives: whatever the writer breaks, and wherever a repair or a
\* prevention is cut short, a disk whose arrays are apart keeps its table.
THEOREM TableIsKept == RecurrenceSpec => []TableSurvives
<1>1. Init => PlanInv /\ TableInv
  <2>1. Init => PlanInv
    BY DEF Init, PlanInv, Idle
  <2>2. Init => TableInv
    BY DisksAssumption, HeldAtFirst DEF Init, TableInv
  <2>3. QED
    BY <2>1, <2>2
<1>2. TypeOK /\ PlanInv /\ TableInv /\ [RecurrenceNext]_vars => (PlanInv /\ TableInv)'
  BY PlanInvStep, TableInvStep
<1>3. TypeOK /\ TableInv => TableSurvives
  BY HeldTable DEF TypeOK, TableInv, TableSurvives, OneTable
<1>4. QED
  BY <1>1, <1>2, <1>3, RecurrenceTyped, PTL DEF RecurrenceSpec

-----------------------------------------------------------------------------
(* The main header is lowered first                                        *)

\* The secondary header of x is below where the disk had it.
Lowered2(x) == x[LastBlock].first < disk0[LastBlock].first

\* The secondary header's block stays one, with the pointer it had.
SecondKept(x) == x[LastBlock] \in Header /\ x[LastBlock].alt = 1

\* Prevention is over: the main header is lowered wherever one looks, with its
\* array, and no plan is left that writes a header.
Closed ==
    /\ IsValid(disk, 1) /\ disk[1].first = 2 + disk[1].n
    /\ disk[LastBlock].first = disk[1].first
    /\ Lowered2(medium) => medium[LastBlock].first = disk[1].first
    /\ medium[1] = disk[1] /\ SameArray(disk[1], disk, medium)
    /\ ~Idle => plan = MbrPlan \/ (Len(plan) = 4 /\ pc = 4 /\ plan[4] = Flush)

\* The medium's secondary is lowered only after the disk's, and the disk's only
\* when prevention is over.
LoweredInv ==
    BothValid(disk0) =>
        /\ SecondKept(disk) /\ SecondKept(medium)
        /\ Lowered2(medium) => Lowered2(disk)
        /\ Lowered2(disk) => Closed

\* LoweredInv after a write of a plan, whole or in part.
LEMMA LoweredAfterPut ==
    ASSUME TypeOK, PlanInv, LoweredInv, BothValid(disk0), disk0' = disk0,
           ~Idle, plan[pc].op = "write",
           NEW which, disk' = Put(disk, plan[pc], which), medium' = medium,
           \/ pc' = 0
           \/ pc # Len(plan) /\ pc' = pc + 1 /\ plan' = plan
    PROVE  LoweredInv'
<1>1. /\ disk \in Disk /\ medium \in Disk /\ plan[pc] \in Step
      /\ pc \in 1..Len(plan)
  BY DEF TypeOK, Idle
<1>2. disk' \in Disk
  BY <1>1, PutType
<1>3. /\ SecondKept(disk) /\ SecondKept(medium)
      /\ Lowered2(medium) => Lowered2(disk)
      /\ Lowered2(disk) => Closed
  BY DEF LoweredInv
<1>4. 0 \in LBA /\ 1 \in LBA /\ LastBlock \in LBA /\ 1 # LastBlock /\ LastBlock # 0
      /\ 1 \in Both /\ LastBlock \in Both
  BY GeometryAssumption DEF LBA, Both
<1>5. Flush.op = "flush"
  BY DEF Flush
\* A write that leaves the secondary header alone and finds it not yet lowered.
<1>6. ASSUME disk'[LastBlock] = disk[LastBlock], ~Lowered2(disk) PROVE LoweredInv'
  <2>1. ~Lowered2(disk)' /\ ~Lowered2(medium)'
    BY <1>3, <1>6 DEF Lowered2
  <2>2. SecondKept(disk)' /\ SecondKept(medium)'
    BY <1>3, <1>6 DEF SecondKept
  <2>3. QED
    BY <2>1, <2>2 DEF LoweredInv
<1>7. ASSUME plan = MbrPlan PROVE \A l \in LBA \ {0} : disk'[l] = disk[l]
  <2>1. plan[pc] = Write(0, <<ProtectiveMbr>>)
    <3>1. pc \in 1..2
      BY <1>7 DEF TypeOK, MbrPlan, Idle
    <3>2. QED
      BY <1>5, <1>7, <3>1 DEF MbrPlan
  <2>2. QED
    BY <1>1, <1>4, <2>1, HeaderPut
<1>8. CASE Lowered2(disk)
  <2>1. Closed
    BY <1>3, <1>8
  <2>2. plan = MbrPlan
    BY <1>5, <2>1 DEF Closed
  <2>3. \A l \in LBA \ {0} : disk'[l] = disk[l]
    BY <1>7, <2>2
  <2>4. disk'[1] = disk[1] /\ disk'[LastBlock] = disk[LastBlock]
    BY <1>4, <2>3
  <2>5. IsValid(disk, 1) /\ disk[1] \in Header /\ SoundButForAlternate(disk, 1)
    BY <1>1, <1>4, <2>1, ValidRange DEF Closed, IsValid
  <2>6. HeaderAt(disk, 1) = disk[1]
    BY <2>5 DEF HeaderAt
  <2>7. \A i \in 1..disk[1].n : disk'[disk[1].elba + i - 1] = disk[disk[1].elba + i - 1]
    BY <1>1, <1>4, <2>3, <2>5, <2>6, ArrayIsData
  <2>8. IsValid(disk', 1)
    BY <1>1, <1>2, <2>3, <2>5, TablesIgnoreMbr DEF IsValid
  <2>9. SameArray(disk'[1], disk', medium)
    BY <2>1, <2>4, <2>7 DEF Closed, SameArray
  <2>10. ~Idle' => plan' = MbrPlan
    BY <2>2 DEF Idle
  <2>11. Closed'
    BY <2>1, <2>4, <2>8, <2>9, <2>10 DEF Closed, Lowered2
  <2>12. SecondKept(disk)' /\ SecondKept(medium)' /\ Lowered2(disk)'
    BY <1>3, <1>8, <2>4 DEF SecondKept, Lowered2
  <2>13. QED
    BY <2>11, <2>12 DEF LoweredInv
<1>9. CASE ~Lowered2(disk) /\ plan = MbrPlan
  BY <1>4, <1>6, <1>7, <1>9
<1>10. ASSUME ~Lowered2(disk), NEW h1 \in Header, NEW h2 \in Header, Preventing(h1, h2)
       PROVE  LoweredInv'
  <2>1. CASE pc = 1
    <3>1. disk'[LastBlock] = disk[LastBlock]
      BY <1>4, <1>10, <2>1, PreventionPut
    <3>2. QED
      BY <1>6, <1>10, <3>1
  <2>2. CASE pc # 1
    <3>1. /\ pc = 3 /\ BothValid(disk')
          /\ disk'[LastBlock] \in {disk[LastBlock], h2}
          /\ Like(disk[LastBlock], disk'[LastBlock])
          /\ \A l \in LBA \ {LastBlock} : disk'[l] = disk[l]
      BY <1>10, <2>2, PreventionPut
    <3>2. CASE disk'[LastBlock] = disk[LastBlock]
      BY <1>6, <1>10, <3>2
    <3>3. CASE disk'[LastBlock] = h2
      <4>1. SecondKept(disk)'
        <5>1. h2.alt = disk[LastBlock].alt
          BY <1>3, <3>1, <3>3, LikeFields DEF SecondKept
        <5>2. QED
          BY <1>3, <3>3, <5>1 DEF SecondKept
      <4>2. SecondKept(medium)' /\ ~Lowered2(medium)'
        BY <1>3, <1>10 DEF SecondKept, Lowered2
      <4>3. /\ disk'[1] = disk[1] /\ disk[1] = h1 /\ h1.first = 2 + h1.n
            /\ h2.first = h1.first
            /\ \A l \in LBA \ {LastBlock} : medium[l] = disk[l]
        BY <1>4, <1>10, <3>1 DEF Preventing
      <4>4. IsValid(disk', 1) /\ ArrayClear(disk'[1])
        BY <1>2, <1>4, <3>1, BothValidFacts DEF BothValid
      <4>5. medium'[1] = disk'[1] /\ SameArray(disk'[1], disk', medium')
        BY <1>4, <3>1, <4>3, <4>4 DEF ArrayClear, SameArray
      <4>6. ~Idle' => Len(plan') = 4 /\ pc' = 4 /\ plan'[4] = Flush
        BY <1>10, <3>1 DEF Idle, Preventing
      <4>7. Closed'
        BY <3>3, <4>2, <4>3, <4>4, <4>5, <4>6 DEF Closed
      <4>8. QED
        BY <4>1, <4>2, <4>7 DEF LoweredInv
    <3>4. QED
      BY <3>1, <3>2, <3>3
  <2>3. QED
    BY <2>1, <2>2
<1>11. ASSUME ~Lowered2(disk), NEW src \in Header, Rebuilding(src)
       PROVE  LoweredInv'
  <2>1. /\ Rebuildable(src) /\ disk[LastBlock] \in {src, CorrectedSecondary(src)}
        /\ plan[pc] \in StepsFrom(src)
    BY <1>11, RebuildingSteps DEF Rebuilding
  <2>2. \/ disk'[LastBlock] = disk[LastBlock]
        \/ disk'[LastBlock] = CorrectedSecondary(src) /\ src.alt # 1
    BY <1>1, <2>1, RebuildPut
  <2>3. disk'[LastBlock] = disk[LastBlock]
    BY <1>3, <2>1, <2>2 DEF SecondKept
  <2>4. QED
    BY <1>6, <1>11, <2>3
<1>12. QED
  BY <1>8, <1>9, <1>10, <1>11 DEF PlanInv

\* LoweredInv where every block of the disk is durable.
LEMMA LoweredSettled ==
    ASSUME BothValid(disk0), disk0' = disk0, disk' = medium', SecondKept(disk'),
           Lowered2(disk)' =>
               /\ IsValid(disk', 1) /\ disk'[1].first = 2 + disk'[1].n
               /\ disk'[LastBlock].first = disk'[1].first
               /\ Idle' \/ plan' = MbrPlan
    PROVE  LoweredInv'
<1>1. SameArray(disk'[1], disk', medium')
  BY DEF SameArray
<1>2. QED
  BY <1>1 DEF LoweredInv, Closed, Lowered2, SecondKept

LEMMA LoweredInvStep ==
    ASSUME TypeOK, PlanInv, LoweredInv, [RecurrenceNext]_vars
    PROVE  LoweredInv'
<1>1. disk0' = disk0 /\ disk \in Disk /\ medium \in Disk /\ TypeOK'
  BY RecurrenceSteps, RecurrenceKeepsType DEF TypeOK
<1> SUFFICES ASSUME BothValid(disk0) PROVE LoweredInv'
  BY <1>1 DEF LoweredInv
<1>2. /\ SecondKept(disk) /\ SecondKept(medium)
      /\ Lowered2(medium) => Lowered2(disk)
      /\ Lowered2(disk) => Closed
  BY DEF LoweredInv
<1>3. 1 \in LBA /\ LastBlock \in LBA /\ 1 # LastBlock /\ 1 \in Both
  BY GeometryAssumption DEF LBA, Both
<1>4. CASE WriteStep
  <2>1. /\ ~Idle /\ plan[pc].op = "write" /\ medium' = medium
        /\ disk' = Put(disk, plan[pc], LBA)
        /\ \/ pc' = 0
           \/ pc # Len(plan) /\ pc' = pc + 1 /\ plan' = plan
    BY <1>4 DEF WriteStep, Advance, Stop
  <2>2. QED
    BY <1>1, <2>1, LoweredAfterPut
<1>5. CASE FailingWrite
  <2>1. /\ ~Idle /\ plan[pc].op = "write" /\ medium' = medium /\ pc' = 0
    BY <1>5 DEF FailingWrite, Stop
  <2>2. PICK which : disk' = Put(disk, plan[pc], which)
    BY <1>5 DEF FailingWrite
  <2>3. QED
    BY <1>1, <2>1, <2>2, LoweredAfterPut
<1>6. CASE FlushStep
  <2>1. /\ ~Idle /\ disk' = disk /\ medium' = disk
        /\ pc' = 0 \/ (pc # Len(plan) /\ plan' = plan)
    BY <1>6 DEF FlushStep, Advance, Stop
  <2>2. ASSUME Lowered2(disk)
        PROVE  /\ IsValid(disk', 1) /\ disk'[1].first = 2 + disk'[1].n
               /\ disk'[LastBlock].first = disk'[1].first
               /\ Idle' \/ plan' = MbrPlan
    <3>1. Closed
      BY <1>2, <2>2
    <3>2. pc # Len(plan) => plan = MbrPlan
      BY <2>1, <3>1 DEF Closed
    <3>3. QED
      BY <2>1, <3>1, <3>2 DEF Closed, Idle
  <2>3. SecondKept(disk') /\ (Lowered2(disk)' => Lowered2(disk))
    BY <1>1, <1>2, <2>1 DEF SecondKept, Lowered2
  <2>4. QED
    BY <1>1, <2>1, <2>2, <2>3, LoweredSettled
<1>7. CASE FailingFlush
  <2>1. disk' = disk /\ medium' = medium /\ Idle'
    BY <1>7 DEF FailingFlush, Stop, Idle
  <2>2. Closed => Closed'
    BY <1>1, <2>1 DEF Closed, Lowered2
  <2>3. QED
    BY <1>1, <1>2, <2>1, <2>2 DEF LoweredInv, Lowered2, SecondKept
<1>8. CASE PowerCut
  <2>1. /\ disk' = medium' /\ Idle'
        /\ \A l \in LBA : disk'[l] = disk[l] \/ disk'[l] = medium[l]
    BY <1>8 DEF PowerCut, Stop, Idle
  <2>2. SecondKept(disk')
    BY <1>2, <1>3, <2>1 DEF SecondKept
  <2>3. ASSUME Lowered2(disk)'
        PROVE  /\ IsValid(disk', 1) /\ disk'[1].first = 2 + disk'[1].n
               /\ disk'[LastBlock].first = disk'[1].first
    <3>1. \/ disk'[LastBlock] = disk[LastBlock] /\ Lowered2(disk)
          \/ disk'[LastBlock] = medium[LastBlock] /\ Lowered2(medium)
      BY <1>1, <1>3, <2>1, <2>3 DEF Lowered2
    <3>2. Closed
      BY <1>2, <3>1
    <3>3. disk'[1] = disk[1] /\ disk'[LastBlock].first = disk[1].first
      BY <1>3, <2>1, <3>1, <3>2 DEF Closed
    <3>4. /\ IsValid(disk, 1) /\ SoundButForAlternate(disk, 1) /\ disk[1] \in Header
          /\ HeaderAt(disk, 1) = disk[1] /\ UsableRangeOk(disk[1])
          /\ Like(disk[1], disk[1])
      BY <1>1, <1>3, <3>2, ValidRange, LikeFields DEF Closed, IsValid
    <3>5. SameArray(disk[1], disk, disk')
      <4>1. \A i \in 1..disk[1].n : disk[1].elba + i - 1 \in LBA
        BY <1>1, <1>3, <3>4, ArrayIsData
      <4>2. QED
        BY <2>1, <3>2, <4>1 DEF Closed, SameArray
    <3>6. disk' \in Disk
      BY <1>1 DEF TypeOK
    <3>7. IsValid(disk', 1)
      BY <1>1, <1>3, <3>3, <3>4, <3>5, <3>6, ValidKept
    <3>8. QED
      BY <3>2, <3>3, <3>7 DEF Closed
  <2>4. QED
    BY <1>1, <2>1, <2>2, <2>3, LoweredSettled
<1>9. CASE RunRepair
  <2>1. UNCHANGED <<disk, medium>>
    BY <1>9, RepairStarts
  <2>2. Closed => plan' = MbrPlan
    BY <1>9, RepairStarts DEF Closed
  <2>3. Closed => Closed'
    BY <1>1, <2>1, <2>2 DEF Closed, Lowered2
  <2>4. QED
    BY <1>1, <1>2, <2>1, <2>3 DEF LoweredInv, Lowered2, SecondKept
<1>10. CASE RunPrevent
  <2>1. UNCHANGED <<disk, medium>>
    BY <1>10, PreventionStarts
  <2>2. ~Closed
    <3>1. Applicable(disk)
      BY <1>10 DEF RunPrevent
    <3>2. /\ BothValid(disk)
          /\ First(disk, 1) # Proposed(disk) \/ First(disk, LastBlock) # Proposed(disk)
      BY <1>1, <3>1, PreventionFacts
    <3>3. /\ First(disk, 1) = disk[1].first /\ First(disk, LastBlock) = disk[LastBlock].first
          /\ Proposed(disk) = 2 + disk[1].n
      BY <1>1, <3>2, BothValidFacts DEF First, Proposed
    <3>4. QED
      BY <3>2, <3>3 DEF Closed
  <2>3. QED
    BY <1>1, <1>2, <2>1, <2>2 DEF LoweredInv, Lowered2, SecondKept
<1>11. CASE FaultyWriter
  <2>1. /\ disk' = Misplaced(disk) /\ medium' = disk' /\ Idle /\ UNCHANGED <<plan, pc>>
        /\ IsValid(disk, 1)
    BY <1>11 DEF FaultyWriter
  <2>2. disk[1].first - disk[1].n >= 1
    BY <1>1, <1>3, <1>11, <2>1, ValidRange DEF FaultyWriter
  <2>3. /\ disk[1].first \in Nat /\ disk[1].first <= LastBlock
        /\ \A l \in LBA \ {1} : l >= disk[1].first => Misplaced(disk)[l] = disk[l]
        /\ disk[1].first = 2 + disk[1].n => Misplaced(disk) = disk
    BY <1>1, <2>1, <2>2, MisplacedFacts
  <2>4. disk'[LastBlock] = disk[LastBlock]
    BY <1>3, <2>1, <2>3, GeometryAssumption
  <2>5. SecondKept(disk')
    BY <1>2, <2>4 DEF SecondKept
  <2>6. ASSUME Lowered2(disk)'
        PROVE  /\ IsValid(disk', 1) /\ disk'[1].first = 2 + disk'[1].n
               /\ disk'[LastBlock].first = disk'[1].first
    <3>1. Lowered2(disk)
      BY <1>1, <2>4, <2>6 DEF Lowered2
    <3>2. Closed
      BY <1>2, <3>1
    <3>3. disk' = disk
      BY <2>1, <2>3, <3>2 DEF Closed
    <3>4. QED
      BY <3>2, <3>3 DEF Closed
  <2>7. Idle'
    BY <2>1 DEF Idle
  <2>8. QED
    BY <1>1, <2>1, <2>5, <2>6, <2>7, LoweredSettled
<1>12. CASE UNCHANGED vars
  BY <1>12, <1>2 DEF vars, LoweredInv, Closed, Lowered2, SecondKept, Idle
<1>13. QED
  BY <1>4, <1>5, <1>6, <1>7, <1>8, <1>9, <1>10, <1>11, <1>12, RecurrenceSteps
     DEF ApplyStep, Fault

\* Spec => []MainLoweredFirst: at any moment at which power may be cut, a
\* secondary header in its lowered form stands beside a main one that is lowered.
THEOREM MainIsLoweredFirst == RecurrenceSpec => []MainLoweredFirst
<1>1. Init => PlanInv /\ LoweredInv
  <2>1. Init => PlanInv
    BY DEF Init, PlanInv, Idle
  <2>2. ASSUME Init PROVE LoweredInv
    <3>1. disk = disk0 /\ medium = disk0 /\ disk0 \in Disk
      BY <2>2, DisksAssumption DEF Init
    <3>2. ASSUME BothValid(disk0) PROVE SecondKept(disk0) /\ ~Lowered2(disk0)
      <4>1. /\ disk0[LastBlock] \in Header /\ HeaderAt(disk0, LastBlock) = disk0[LastBlock]
            /\ 1 # LastBlock /\ IsValid(disk0, LastBlock)
        BY <3>1, <3>2, BothValidFacts DEF BothValid, Both
      <4>2. disk0[LastBlock].alt = 1 /\ disk0[LastBlock].first \in Nat
        BY <4>1, HeaderFields DEF IsValid, AlternateOf
      <4>3. QED
        BY <4>1, <4>2 DEF SecondKept, Lowered2
    <3>3. QED
      BY <3>1, <3>2 DEF LoweredInv
  <2>3. QED
    BY <2>1, <2>2
<1>2. TypeOK /\ PlanInv /\ LoweredInv /\ [RecurrenceNext]_vars
        => (PlanInv /\ LoweredInv)'
  BY PlanInvStep, LoweredInvStep
<1>3. TypeOK /\ LoweredInv => MainLoweredFirst
  <2> SUFFICES ASSUME TypeOK, LoweredInv, BothValid(disk0),
                      First(medium, LastBlock) < First(disk0, LastBlock)
               PROVE  First(medium, 1) = Proposed(medium)
    BY DEF MainLoweredFirst
  <2>1. disk0 \in Disk /\ disk \in Disk /\ 1 \in Both
    BY DEF TypeOK, Both
  <2>2. SecondKept(medium) /\ (Lowered2(medium) => Closed)
    BY DEF LoweredInv
  <2>3. /\ First(medium, LastBlock) = medium[LastBlock].first
        /\ First(disk0, LastBlock) = disk0[LastBlock].first
    BY <2>1, <2>2, BothValidFacts DEF First, HeaderAt, SecondKept
  <2>4. Closed
    BY <2>2, <2>3 DEF Lowered2
  <2>5. disk[1] \in Header /\ medium[1] = disk[1] /\ disk[1].first = 2 + disk[1].n
    BY <2>1, <2>4, ValidRange DEF Closed
  <2>6. QED
    BY <2>5 DEF First, Proposed, HeaderAt
<1>4. QED
  BY <1>1, <1>2, <1>3, RecurrenceTyped, PTL DEF RecurrenceSpec
=============================================================================
