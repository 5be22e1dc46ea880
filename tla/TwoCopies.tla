----------------------------- MODULE TwoCopies -----------------------------
(***************************************************************************)
(* What a repair promises, told without blocks, plans or caches: a table   *)
(* kept in two copies, as whoever reads the disk after a power cut finds   *)
(* them.  Repair implements it.                                            *)
(***************************************************************************)
CONSTANTS
    Table,   \* the tables a copy may hold
    None     \* a copy that holds none: it does not validate

VARIABLES
    main,      \* what the main copy holds
    second,    \* what the second copy holds
    broken,    \* the main copy held no table at first
    source,    \* the table the second copy held at first
    stale,     \* the table the main header named at first, readable or not
    exposed    \* the second copy lies where the main one is rebuilt

copies == <<main, second, broken, source, stale, exposed>>
fixed == <<broken, source, stale, exposed>>

Init ==
    /\ main \in Table \cup {None}
    /\ second \in Table \cup {None}
    /\ broken \in BOOLEAN
    /\ broken <=> main = None
    /\ source = second
    /\ stale \in Table \cup {None}
    /\ exposed \in BOOLEAN

\* Only a main copy that was broken is rebuilt, and only into the table of the
\* second; interrupted half-way it may match its old header again.
MainRebuilt ==
    /\ broken
    /\ source # None
    /\ main \in {None, stale}
    /\ main' \in {stale, source}

Rebuild == MainRebuilt /\ UNCHANGED <<second, fixed>>

\* The second copy is at risk in one case only: it is in the way.
Trample ==
    /\ exposed
    /\ source # None
    /\ second' \in {None, source}
    /\ MainRebuilt \/ UNCHANGED main
    /\ UNCHANGED fixed

Next == Rebuild \/ Trample

Spec == Init /\ [][Next]_copies

\* What the promise is worth to the owner of the disk: while the second copy
\* is out of the way a step never takes the last readable table.
LastTableStays ==
    [][~exposed /\ (main # None \/ second # None)
         => main' # None \/ second' # None]_copies
=============================================================================
