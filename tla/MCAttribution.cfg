\* Two disks, a snapshot of either, two changes made by others.
SPECIFICATION AttributionSpec
CONSTANTS
    N = 2
    g1 = g1
    g2 = g2
    g3 = g3
    p1 = p1
    p2 = p2
    p3 = p3
    q1 = q1
    n1 = n1
    Zero = Zero
    Guids <- MCGuids
    Parts <- MCParts
    Geometries = {"large", "small"}
    Start <- MCStart
    MaxFiles = 1
    MaxChanges = 2
SYMMETRY Alike
INVARIANTS OwnIsOwn DamageCostsNoClaim ForeignIsNoted
