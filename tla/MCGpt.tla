------------------------------- MODULE MCGpt -------------------------------
(***************************************************************************)
(* The twelve-block disk the model-checking modules share: LBA 0 the MBR,  *)
(* 1 the main header, 2..3 the main array, 4..5 the gap some tools leave,  *)
(* 6..8 the partitions, 9..10 the secondary array, 11 its header.  Arrays  *)
(* of two blocks are the smallest that a write can tear.                   *)
(***************************************************************************)
EXTENDS Gpt, TLC

CONSTANTS
    a1, a2,   \* the two array blocks of the good table
    b2,       \* the second block of another plausible table
    g,        \* a block with no used entry
    o2,       \* entries that overlap those of a1
    l3,       \* an entry that starts inside the main array
    s1,       \* the only block of a small table
    NoRead

MCData == {a1, a2, b2, g, o2, l3, s1}
MCParts ==
    a1 :> {[start |-> 6, end |-> 6, name |-> "esp"]}
    @@ a2 :> {[start |-> 7, end |-> 7, name |-> "rootfs-A"]}
    @@ b2 :> {[start |-> 8, end |-> 8, name |-> "rootfs-A"]}
    @@ s1 :> {[start |-> 3, end |-> 4, name |-> "esp"], [start |-> 5, end |-> 8, name |-> "rootfs-A"]}
    @@ g :> {}
    @@ l3 :> {[start |-> 3, end |-> 3, name |-> "rootfs-A"]}
    @@ o2 :> {[start |-> 6, end |-> 8, name |-> "rootfs-A"]}

Good == <<a1, a2>>
Other == <<a1, b2>>

Secondary(elba, crc) ==
    [sound |-> TRUE, my |-> 11, alt |-> 1, first |-> 6, last |-> 8,
     elba |-> elba, n |-> 2, crc |-> crc]
Main(crc) == [Secondary(2, crc) EXCEPT !.my = 1, !.alt = 11]

MbrIs(status) == [mbr |-> status]

\* A disk from its MBR, main header and array, secondary array and header.
Lay(mbr, main, marr, sarr, sec) ==
    0 :> mbr @@ 1 :> main @@ 2 :> marr[1] @@ 3 :> marr[2]
    @@ [l \in 4..8 |-> g]
    @@ 9 :> sarr[1] @@ 10 :> sarr[2] @@ 11 :> sec
=============================================================================
