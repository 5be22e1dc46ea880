------------------------------ MODULE Prevent ------------------------------
(***************************************************************************)
(* Prevent recurrence: lower FirstUsableLBA in both headers to the block   *)
(* after the main entry array, main header first, one flush after each     *)
(* (prevent.rs).  Nothing is saved beforehand, and a re-run recognises the *)
(* state an interruption leaves between the two headers. What it promises  *)
(* is stated in Recurrence, beside the repairs and the writer it is for.   *)
(***************************************************************************)
EXTENDS Apply

Both == {1, LastBlock}
BothValid(d) == \A role \in Both : IsValid(d, role)
First(d, role) == HeaderAt(d, role).first

-----------------------------------------------------------------------------
(* The decision and the plan                                               *)

\* The first block above the main array.
Proposed(d) == 2 + HeaderAt(d, 1).n

\* Mutant: the half-done state is one more disagreement of the two headers.
NeverHalfDone(d) == FALSE

\* One header lowered and the other not yet: what a power cut between this
\* operation's two writes leaves.
HalfDone(d) ==
    \E done \in Both : /\ First(d, done) = Proposed(d)
                       /\ \A role \in Both \ {done} : First(d, role) > Proposed(d)

\* The two headers agree on where the usable area starts, and it is above the
\* proposed block; or one of them is already there.
GapOpen(d) ==
    \/ First(d, 1) = First(d, LastBlock) /\ First(d, 1) > Proposed(d)
    \/ HalfDone(d)

\* prevent::assess gives Applicable: every blocker absent, a gap to close.
Applicable(d) ==
    /\ d[0] # Unreadable
    /\ Inspect(d) # "Hybrid"
    /\ BothValid(d)
    /\ HeaderAt(d, 1).elba = 2
    /\ GapOpen(d)
    /\ \A u \in Used(d, HeaderAt(d, 1)) : u[2].start >= Proposed(d)

\* Mutant: both headers are made from the main one.
LoweredFromMain(d, role) == [HeaderAt(d, 1) EXCEPT !.first = Proposed(d)]

Lowered(d, role) == [HeaderAt(d, role) EXCEPT !.first = Proposed(d)]

\* Mutant: the secondary header goes first.
PreventPlanSecondaryFirst(d) ==
    << Write(LastBlock, <<Lowered(d, LastBlock)>>), Flush,
       Write(1, <<Lowered(d, 1)>>), Flush >>

\* Mutant: one header for both places, the secondary's first.
PreventPlanOneHeader(d) ==
    << Write(LastBlock, <<Lowered(d, 1)>>), Flush, Write(1, <<Lowered(d, 1)>>), Flush >>

PreventPlan(d) ==
    << Write(1, <<Lowered(d, 1)>>), Flush,
       Write(LastBlock, <<Lowered(d, LastBlock)>>), Flush >>

-----------------------------------------------------------------------------
RunPrevent ==
    /\ Applicable(disk)
    /\ Start(PreventPlan(disk))
=============================================================================
