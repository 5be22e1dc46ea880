---------------------------- MODULE MCAttribution ----------------------------
(* Two disks for Attribution, of one size or of two, with room for new GUIDs. *)
EXTENDS Attribution, TLC

CONSTANTS g1, g2, g3, p1, p2, p3, q1, n1

MCGuids == {g1, g2, g3}
MCParts == {p1, p2, p3, q1, n1}

Sound(guid, parts) == [guid |-> guid, parts |-> parts, header |-> "sound", array |-> "sound"]
DiskOf(geometry, copy) ==
    [geometry |-> geometry, reads |-> TRUE, main |-> copy, secondary |-> copy]

\* A disk of three partitions before one of a single partition of the same size,
\* or after a smaller or a blank one.
Blank == [guid |-> g2, parts |-> {}, header |-> "zeroed", array |-> "sound"]

MCStart ==
    {<<DiskOf("large", Sound(g1, {p1, p2, p3})), DiskOf("large", Sound(g2, {q1}))>>,
     <<DiskOf("small", Sound(g2, {q1})), DiskOf("large", Sound(g1, {p1, p2, p3}))>>,
     <<DiskOf("large", Blank), DiskOf("large", Sound(g1, {p1, p2, p3}))>>}

Alike == Permutations({p1, p2, p3})
=============================================================================
