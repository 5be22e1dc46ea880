----------------------------- MODULE MCBootVars -----------------------------
(***************************************************************************)
(* BootVars on a store of two slots and two loaders.  A session may find a *)
(* full store, one with an entry that will not decode and an order that    *)
(* cannot be read, one whose order names a slot that is free, and one that *)
(* has lost its order while the next boot is set to a free slot.           *)
(***************************************************************************)
EXTENDS BootVars

CONSTANTS LoaderA, LoaderB, Short, Long

Store(entries, order, next, timeout) ==
    [name \in Names |->
        IF name \in Entries THEN entries[name[2] + 1]
        ELSE IF name = BootOrder THEN order
        ELSE IF name = BootNext THEN next ELSE timeout]

MCMachines ==
    { Store(<<LoaderA, LoaderB>>, <<1, 0>>, Absent, Short),
      Store(<<Corrupt, LoaderB>>, Garbled, Absent, Absent),
      Store(<<LoaderA, Absent>>, <<1, 0>>, Absent, Long),
      Store(<<Absent, LoaderB>>, Absent, 0, Short) }

MCMisses == {{}, {Boot(0), BootOrder}}
MCLoaders == {LoaderA, LoaderB}
MCTimeouts == {Short, Long}
=============================================================================
