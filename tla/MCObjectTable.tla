--------------------------- MODULE MCObjectTable ---------------------------
(***************************************************************************)
(* Small instances of ObjectTable for TLC.                                 *)
(***************************************************************************)
EXTENDS ObjectTable, TLC

Symmetry == Permutations(Threads) \cup Permutations(Addrs)
=============================================================================
