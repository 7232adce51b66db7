----------------------------- MODULE MCShimJoin -----------------------------
(***************************************************************************)
(* Small instances of ShimJoin for TLC.                                    *)
(***************************************************************************)
EXTENDS ShimJoin, TLC

CONSTANTS main, c1, c2

ChildSymmetry == Permutations(Children)
=============================================================================
