------------------------------- MODULE MCStore -------------------------------
(* Store on a launch volume and one removable volume.                      *)
EXTENDS Store

CONSTANTS Esp, Stick

MCVolumes == {Esp, Stick}
=============================================================================
