------------------------------ MODULE MCScreens ------------------------------
(* Screens on a panel that shows one of the two modes on offer.            *)
EXTENDS Screens

CONSTANTS Small, Large

MCModes == {Small, Large}
MCSeen == {Small}

\* No screen here tells Up from Down.
MCButtons == Input \ {"Down"}
=============================================================================
