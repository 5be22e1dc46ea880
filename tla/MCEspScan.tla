------------------------------ MODULE MCEspScan ------------------------------
(* Volumes for EspScan: every graph of a small family, trees and cycles, on   *)
(* one ESP beside a removable, an unreadable or an ordinary volume.           *)
EXTENDS EspScan

CONSTANTS r, a, b, c

MCDirs == {r, a, b, c}

\* Every directory holds one loader, but the empty ones.
Graph(top, x, y, z) ==
    [d \in MCDirs |-> [subs |-> CASE d = r -> top [] d = a -> x [] d = b -> y [] d = c -> z,
                       loaders |-> IF d = b THEN {} ELSE {"boot.efi"}]]

Trees == {Graph(top, x, y, z) :
            top \in SUBSET {a, b}, x \in SUBSET {b, c}, y \in SUBSET {c, r}, z \in {{}, {a}}}

Esp(tree) == [esp |-> TRUE, removable |-> FALSE, opens |-> TRUE, tree |-> tree]

\* Three levels, one below a limit of two.
Deep == Graph({a}, {b}, {c}, {})
Shallow == Graph({a}, {}, {}, {})
Stick == [Esp(Shallow) EXCEPT !.removable = TRUE]
Other == [Esp(Shallow) EXCEPT !.esp = FALSE]
Locked == [Esp(Deep) EXCEPT !.opens = FALSE]

MCMachines ==
    {<<>>} \cup {<<Esp(t)>> : t \in Trees} \cup {<<Locked, Stick, Esp(t)>> : t \in Trees}
    \cup {<<Esp(x), Other, Esp(y)>> : x, y \in {Deep, Shallow}}
=============================================================================
