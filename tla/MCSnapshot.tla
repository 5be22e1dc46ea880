----------------------------- MODULE MCSnapshot -----------------------------
(* Disks and snapshots for Snapshot, on the geometry of MCGpt. *)
EXTENDS Snapshot, MCGpt

Protective == MbrIs("Protective")

\* A table whose array is one block, so that its partitions may start at 3.
SmallMain == [Main(<<s1>>) EXCEPT !.n = 1, !.first = 3]
SmallSecondary == [Secondary(10, <<s1>>) EXCEPT !.n = 1, !.first = 3]
SmallDisk == Lay(Protective, SmallMain, <<s1, g>>, <<g, s1>>, SmallSecondary)

\* A table whose secondary array lies in the gap.
GapDisk == [Lay(Protective, Main(Good), Good, <<g, g>>, Secondary(4, Good))
              EXCEPT ![4] = a1, ![5] = a2]

Healthy(crc) == Lay(Protective, Main(crc), crc, crc, Secondary(9, crc))

\* No header left, and a main header whose bad checksum hides a pointer into
\* the partitions.
Blank == Lay(MbrIs("Absent"), g, <<b2, b2>>, <<b2, b2>>, g)
Wild == [Main(Good) EXCEPT !.sound = FALSE, !.elba = 6]

MCDisks ==
    {Lay(Protective, x[1], x[2], x[3], x[4]) :
        x \in {Main(Good), [Main(Good) EXCEPT !.sound = FALSE]}
              \X {Good, <<g, a2>>} \X {Good, <<g, a2>>}
              \X {Secondary(9, Good), [Secondary(9, Good) EXCEPT !.alt = 2], g}}
    \cup {SmallDisk, GapDisk, Blank, [Healthy(Other) EXCEPT ![0] = MbrIs("Hybrid")],
          [Healthy(Good) EXCEPT ![1] = NoRead], [Healthy(Good) EXCEPT ![1] = Wild],
          [Healthy(Good) EXCEPT ![3] = b2]}

\* What capture makes of healthy disks, of damaged ones and of a blank one, and
\* a snapshot of a longer disk.
MCFiles ==
    {Capture(d) : d \in {Healthy(Good), Healthy(Other), SmallDisk, GapDisk, Blank,
                         [Healthy(Other) EXCEPT ![1] = Wild],
                         [Healthy(Other) EXCEPT ![0] = MbrIs("Hybrid")],
                         [Healthy(Other) EXCEPT ![2] = NoRead]}}
    \cup {[Capture(Healthy(Other)) EXCEPT !.last = 12]}
=============================================================================
