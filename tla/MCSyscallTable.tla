--------------------------- MODULE MCSyscallTable ---------------------------
(***************************************************************************)
(* Small instances of SyscallTable for TLC.                                *)
(***************************************************************************)
EXTENDS SyscallTableProps, TLC

CONSTANTS t1, t2, t3

ThreadSymmetry == Permutations(Threads)
=============================================================================
