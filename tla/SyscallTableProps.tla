------------------------- MODULE SyscallTableProps -------------------------
(***************************************************************************)
(* What must be true of the system-call slots.                             *)
(***************************************************************************)
EXTENDS SyscallTable

Labels == {"user", "acquire", "scan", "leave", "send", "malloc", "alloc",
           "ocall", "free", "trim", "recv", "clear", "relunlock", "gone", "overrun"}

\* The types of the state; one index past the table is the value get_free_
\* syscall_arg_index returns when every slot is busy.
TypeOK ==
  /\ lock \in {0, EBUSY}
  /\ busy \in [Slots -> {0, 1}]
  /\ arg0 \in [Slots -> Message]
  /\ mlock \in {0, 1}
  /\ pc   \in [Calls -> Labels]
  /\ idx  \in [Calls -> 0 .. NSlots]
  /\ kind \in [Calls -> Kinds]
  /\ left \in [Threads -> 0 .. BrkCalls]

Holding == {"leave", "send", "malloc", "alloc", "ocall", "free", "trim", "recv",
            "clear", "gone"}

\* Activation c holds slot idx[c], from the moment it sets busy to the moment
\* it clears it; a thread that left through SYS_exit holds its slot forever.
Owns(c) == pc[c] \in Holding /\ idx[c] \in Slots

\* No two activations, of one thread or of two, ever hold the same slot, and
\* a slot is marked busy exactly while somebody holds it: none is lost by a
\* return and none is handed out twice.
SlotExclusive ==
  /\ \A c, d \in Calls : Owns(c) /\ Owns(d) /\ idx[c] = idx[d] => c = d
  /\ \A s \in Slots : busy[s] = 1 <=> \E c \in Calls : Owns(c) /\ idx[c] = s

\* From the moment a call has written its number to arg0 until the host runs
\* it, and from then until the caller has read the result, the slot's buffer
\* holds that call's own request and answer, whatever nested calls malloc_user
\* and free_user and whatever calls other threads made in between.
BufferIntact ==
  \A c \in Calls :
    /\ pc[c] \in {"malloc", "alloc", "ocall"} => arg0[idx[c]] = [by |-> c, n |-> kind[c]]
    /\ pc[c] \in {"free", "trim", "recv"} => arg0[idx[c]] = [by |-> c, n |-> "result"]

\* No call indexes syscall_arg_table past its end: ecall_init_transfer fills
\* MAX_NO_OF_THREADS entries and every index used is one of them.
InRange == \A c \in Calls : pc[c] # "overrun"

\* A search that comes back empty-handed is right: when i reaches
\* MAX_NO_OF_THREADS every slot is held at that moment, not merely was held when
\* the loop passed it.
FullWhenRunOff ==
  \A c \in Calls : pc[c] = "leave" /\ idx[c] = NSlots => \A s \in Slots : busy[s] = 1

-----------------------------------------------------------------------------
(* The inductive invariant: the spin lock excludes, so what a scan has seen  *)
(* busy stays busy until the scan ends.                                      *)

InLock(c) == pc[c] \in {"scan", "leave", "clear", "relunlock"}

LockInv ==
  /\ \A c, d \in Calls : InLock(c) /\ InLock(d) => c = d
  /\ lock = 0 <=> \A c \in Calls : ~InLock(c)

ScanInv == \A c \in Calls : pc[c] = "scan" => \A s \in Slots : s < idx[c] => busy[s] = 1

InTableInv == \A c \in Calls : pc[c] \in Holding \ {"leave"} => idx[c] \in Slots

IInv ==
  /\ TypeOK
  /\ LockInv
  /\ SlotExclusive
  /\ ScanInv
  /\ InTableInv
  /\ FullWhenRunOff
-----------------------------------------------------------------------------
\* The table implements the pool: each call holds at most one slot, always the
\* lowest one that was free when it took it.
Pool == INSTANCE SlotPool
          WITH holds <- [c \in Calls |-> IF Owns(c) THEN idx[c] ELSE NSlots]

PoolSpec == Pool!Spec

\* While somebody waits for a slot somebody gets one: no path through
\* get_free_syscall_arg_index, the nested calls of the allocator, the error
\* returns or SYS_exit leaves syscall_arg_table_lock held.
LockServed ==
  (\E c \in Calls : pc[c] = "acquire") ~> (\E c \in Calls : pc[c] = "leave")
=============================================================================
