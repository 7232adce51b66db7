---------------------------- MODULE MCThreadLife ----------------------------
(***************************************************************************)
(* Small instances of ThreadLife for TLC.                                  *)
(***************************************************************************)
EXTENDS ThreadLife, TLC

OtherSymmetry == Permutations(Threads \ {Main})
=============================================================================
