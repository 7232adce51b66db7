---------------------------- MODULE MCShimMutex ----------------------------
(***************************************************************************)
(* Small instances of ShimMutex for TLC.                                   *)
(***************************************************************************)
EXTENDS ShimMutex, TLC

ThreadSymmetry == Permutations(Threads)
=============================================================================
