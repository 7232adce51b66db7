----------------------------- MODULE MCShimCond -----------------------------
(***************************************************************************)
(* Small instances of ShimCond for TLC.                                    *)
(***************************************************************************)
EXTENDS ShimCond, TLC

CONSTANTS w1, w2, s1

WaiterSymmetry == Permutations(Waiters)
=============================================================================
