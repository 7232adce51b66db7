------------------------------ MODULE MutexLock ------------------------------
(***************************************************************************)
(* What a mutex promises, with no word of how threads wait for it: it has  *)
(* an owner or none.  ShimMutex implements this specification; ShimCond    *)
(* uses it for the mutex of the condition variable.                        *)
(***************************************************************************)
CONSTANTS Threads, NULL

VARIABLE owner

Init == owner = NULL

Acquire(t) == owner = NULL /\ owner' = t

Release(t) == owner = t /\ owner' = NULL

Next == \E t \in Threads : Acquire(t) \/ Release(t)

Spec == Init /\ [][Next]_owner
=============================================================================
