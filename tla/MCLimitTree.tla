---------------------------- MODULE MCLimitTree ----------------------------
(***************************************************************************)
(* LimitTree for TLC.                                                      *)
(***************************************************************************)
EXTENDS LimitTree, TLC

\* Nothing distinguishes the orders.
TreeSymmetry == Permutations(Orders)
=============================================================================
