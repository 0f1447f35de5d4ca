----------------------------- MODULE MCUpgrades -----------------------------
(***************************************************************************)
(* TLC instance of Upgrades: sources of every version, limits from too few *)
(* attempts to as many as an interrupted upgrade needs, and three calls    *)
(* cut off and two power losses in every order.                            *)
(***************************************************************************)
EXTENDS Upgrades

=============================================================================
