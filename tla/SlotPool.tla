------------------------------ MODULE SlotPool ------------------------------
(***************************************************************************)
(* What the table of system-call slots promises to its callers, with no    *)
(* word of locks or scans: every call of __syscall_wrap holds at most one  *)
(* slot, no slot is held twice, and a call that claims a slot gets the     *)
(* lowest one that is free.  SyscallTable implements this specification.   *)
(***************************************************************************)
EXTENDS Naturals

CONSTANTS
  Calls,   \* the activations of __syscall_wrap
  NSlots   \* MAX_NO_OF_THREADS, the length of syscall_arg_table

VARIABLE holds   \* the slot each call holds, NSlots when it holds none

Slots == 0 .. NSlots - 1

Free == {s \in Slots : \A c \in Calls : holds[c] # s}

Init == holds = [c \in Calls |-> NSlots]

Claim(c) ==
  /\ holds[c] = NSlots
  /\ \E s \in Free :
       /\ \A r \in Free : s <= r
       /\ holds' = [holds EXCEPT ![c] = s]

Release(c) ==
  /\ holds[c] # NSlots
  /\ holds' = [holds EXCEPT ![c] = NSlots]

Next == \E c \in Calls : Claim(c) \/ Release(c)

Spec == Init /\ [][Next]_holds
=============================================================================
