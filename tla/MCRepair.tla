------------------------------ MODULE MCRepair ------------------------------
(* Disks for Repair, on the geometry of MCGpt. *)
EXTENDS Repair, MCGpt

\* A healthy main, one describing another table, one with a bad checksum, one
\* that cannot be read, and no header at all.
Mains == {Main(Good), Main(Other), [Main(Good) EXCEPT !.sound = FALSE], NoRead, g}
MainArrays == {Good, <<g, a2>>, Other, <<g, b2>>, <<g, NoRead>>}

\* Secondaries: healthy, pointing at no main header, unsound, or describing a
\* table with overlapping partitions, without a root, or with a usable range
\* that leaves no room for the main array.
Secondaries ==
    {Secondary(9, Good),
     [Secondary(9, Good) EXCEPT !.alt = 2],
     [Secondary(9, Good) EXCEPT !.sound = FALSE],
     Secondary(9, <<a1, o2>>),
     Secondary(9, <<a1, g>>),
     [Secondary(9, Good) EXCEPT !.first = 3]}
SecondaryArrays == {Good, <<a1, g>>, <<a1, o2>>}

\* The main table is gone, and the secondary's array lies at any of several
\* places: where the main array goes, across it, in the gap, as usual.
MovedDisks ==
    {[l \in LBA |->
        IF l = e THEN a1 ELSE IF l = e + 1 THEN a2
        ELSE IF l = 0 THEN MbrIs("Protective")
        ELSE IF l = 11 THEN [Secondary(e, Good) EXCEPT !.alt = alt] ELSE g] :
        e \in {2, 3, 4, 9}, alt \in {1, 2}}

MCDisks ==
    {Lay(MbrIs(x[1]), x[2], x[3], x[4], x[5]) :
        x \in {"Protective", "WrongSize", "Hybrid"} \X Mains \X MainArrays
              \X SecondaryArrays \X Secondaries}
    \cup MovedDisks
=============================================================================
