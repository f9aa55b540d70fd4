------------------------------ MODULE MCInput ------------------------------
(* Three fingers compete for two slots and the tracking ids wrap after     *)
(* three DOWNs, so exhaustion and wrap-around are both reached.             *)
EXTENDS InputPath, TLC

CONSTANTS f1, f2, f3, none

MCIds      == {f1, f2, f3}
MCNoId     == none
MCSymmetry == Permutations(MCIds)
=============================================================================
