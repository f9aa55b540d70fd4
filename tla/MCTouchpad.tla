---------------------------- MODULE MCTouchpad ----------------------------
(* One finger more than there are buttons; a short step, one in            *)
(* the other direction, and a jump.                                        *)
EXTENDS Touchpad, TLC

CONSTANTS f1, f2, f3, f4

MCPadIds   == {f1, f2, f3, f4}
MCDeltas   == {-1, 1, 4}
MCSymmetry == Permutations(MCPadIds)
=============================================================================
