---------------------------- MODULE MCRecurrence ----------------------------
(* Disks for Recurrence, on the geometry of MCGpt. *)
EXTENDS Recurrence, MCGpt

\* The gap of MCGpt, a smaller one, none, and a usable range that reaches into
\* the main array.
Firsts == {6, 5, 4, 3}

\* Two valid tables that agree or disagree on the first usable block and on
\* the table itself, the secondary's array at the end or in the gap.
Layout(mbr, f, crc, scrc, elba) ==
    [l \in LBA |->
        IF l = 0 THEN MbrIs(mbr)
        ELSE IF l = 1 THEN [Main(crc) EXCEPT !.first = f[1]]
        ELSE IF l = 11 THEN [Secondary(elba, scrc) EXCEPT !.first = f[2]]
        ELSE IF l \in {2, 3} THEN crc[l - 1]
        ELSE IF l \in {elba, elba + 1} THEN scrc[l - elba + 1]
        ELSE g]

\* A table with a partition that starts inside the main array.
Low == <<a1, l3>>

MCDisks ==
    {Layout(mbr, f, crc, scrc, elba) :
        mbr \in {"Protective", "WrongSize", "Hybrid"}, f \in Firsts \X Firsts,
        crc \in {Good, Low}, scrc \in {Good, Other}, elba \in {4, 9}}
    \cup {[Layout("Protective", <<6, 6>>, Good, Good, 9) EXCEPT ![10] = g],
          \* The main header is of the first block of the array a repair tears.
          [Layout("Protective", <<6, 6>>, Good, Good, 9)
              EXCEPT ![2] = g, ![1].n = 1, ![1].crc = <<a1>>]}
=============================================================================
