------------------------------ MODULE MCSession ------------------------------
(* Session on two disks, with two drawable modes and one that is not.      *)
EXTENDS Session, TLC

CONSTANTS Inner, Other, Native, Small

MCDisks == {Inner, Other}
MCModes == {Native, Small}
MCSymmetry == Permutations(MCDisks) \cup Permutations(MCModes)
MCLoaderModes == {Native, Small, Undrawable}
=============================================================================
