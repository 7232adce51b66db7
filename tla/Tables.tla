------------------------------- MODULE Tables -------------------------------
(* A table written in parts: functions no two of which have an argument in   *)
(* common.                                                                   *)
Rows(parts) ==
  [n \in UNION {DOMAIN f : f \in parts} |-> (CHOOSE f \in parts : n \in DOMAIN f)[n]]
=============================================================================
