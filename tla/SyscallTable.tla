---------------------------- MODULE SyscallTable ----------------------------
(***************************************************************************)
(* The slots through which every system call leaves the enclave:           *)
(* __syscall_wrap takes the first free slot of syscall_arg_table under a   *)
(* spin lock, fills the slot's untrusted buffers, leaves the enclave with  *)
(* ocall_syscall(index), reads the answer from the same buffers and frees  *)
(* the slot under the lock again.                                          *)
(*                                                                         *)
(* A thread may be in two activations of __syscall_wrap at once: a call    *)
(* that needs untrusted memory (futex, set_tid_address, readv, ...) calls  *)
(* malloc_user, and some call free_user, while it holds its slot.  Both    *)
(* make system calls of their own: brk while they hold the allocator's     *)
(* lock, and sched_yield while they spin for that lock.  <<t, 1>> is       *)
(* thread t's outer activation, <<t, 2>> the nested one.                   *)
(***************************************************************************)
EXTENDS Naturals

CONSTANTS
  Threads,    \* enclave threads: each occupies a TCS until the process ends
  NSlots,     \* MAX_NO_OF_THREADS, the length of syscall_arg_table
  BrkCalls    \* bound: brk calls one malloc_user or free_user makes, if any

ASSUME NSlotsAssumption   == NSlots \in Nat \ {0}
ASSUME BrkCallsAssumption == BrkCalls \in Nat

Calls == Threads \X {1, 2}
Slots == 0 .. NSlots - 1

EBUSY == 16   \* what pthread_spin_lock stores

\* "exit" does not return; "outalloc" calls malloc_user,
\* and may call free_user; "undef" is a number
\* the switch has no case for; "plain" is every other system call.
UserKinds   == {"plain", "outalloc", "undef", "exit"}
NestedKinds == {"brk", "yield"}
Kinds       == UserKinds \cup NestedKinds

\* What arg0 of a slot holds: the number of the call that uses the slot, until
\* the result overwrites it.
Message == [by : Calls, n : Kinds \cup {"result"}]

VARIABLES
  lock,   \* syscall_arg_table_lock
  busy,   \* syscall_arg_table[i].busy
  arg0,   \* *syscall_arg_table[i].arg0, in untrusted memory
  mlock,  \* the mutex of the untrusted allocator's state gm
  pc,     \* where each activation is
  idx,    \* its i, then its syscall_table_index
  kind,   \* its system call number n
  left    \* brk calls thread t has still to make under the allocator's lock

vars == <<lock, busy, arg0, mlock, pc, idx, kind, left>>

Goto(c, l) == pc' = [pc EXCEPT ![c] = l]

Init ==
  /\ lock = 0
  /\ busy = [s \in Slots |-> 0]
  /\ arg0 \in {[s \in Slots |-> [by |-> c, n |-> "result"]] : c \in Calls}
  /\ mlock = 0
  /\ pc   = [c \in Calls |-> "user"]
  /\ idx  = [c \in Calls |-> 0]
  /\ kind = [c \in Calls |-> "plain"]
  /\ left = [t \in Threads |-> 0]
-----------------------------------------------------------------------------
(* get_free_syscall_arg_index *)

Call(c, k) ==
  /\ pc[c] = "user"
  /\ kind' = [kind EXCEPT ![c] = k]
  /\ Goto(c, "acquire")

\* The last thread leaves through exit_group, which ends the process: SYS_exit
\* is only reached while another thread has not taken that path.
Enter(t, k) ==
  /\ Call(<<t, 1>>, k)
  /\ k = "exit" => \E u \in Threads \ {t} : kind[<<u, 1>>] # "exit"
  /\ UNCHANGED <<lock, busy, arg0, mlock, idx, left>>

\* pthread_spin_lock
Acquire(c, from, to) ==
  /\ pc[c] = from
  /\ lock = 0
  /\ lock' = EBUSY
  /\ Goto(c, to)

\* Mutant of Unlock: it undoes an increment instead of storing 0.
UnlockByOne == lock' = lock - 1

\* pthread_spin_unlock
Unlock == lock' = 0

\* Mutant of Lock: the search starts at 1.
LockFromOne(c) ==
  /\ Acquire(c, "acquire", "scan")
  /\ idx' = [idx EXCEPT ![c] = 1]
  /\ UNCHANGED <<busy, arg0, mlock, kind, left>>

Lock(c) ==
  /\ Acquire(c, "acquire", "scan")
  /\ idx' = [idx EXCEPT ![c] = 0]
  /\ UNCHANGED <<busy, arg0, mlock, kind, left>>

Skip(c) ==
  /\ pc[c] = "scan"
  /\ idx[c] \in Slots
  /\ busy[idx[c]] = 1
  /\ idx' = [idx EXCEPT ![c] = @ + 1]
  /\ UNCHANGED <<lock, busy, arg0, mlock, pc, kind, left>>

\* Mutant of Take: the slot is not marked.
TakeUnmarked(c) ==
  /\ pc[c] = "scan"
  /\ idx[c] \in Slots
  /\ busy[idx[c]] = 0
  /\ Goto(c, "leave")
  /\ UNCHANGED <<lock, busy, arg0, mlock, idx, kind, left>>

Take(c) ==
  /\ pc[c] = "scan"
  /\ idx[c] \in Slots
  /\ busy[idx[c]] = 0
  /\ busy' = [busy EXCEPT ![idx[c]] = 1]
  /\ Goto(c, "leave")
  /\ UNCHANGED <<lock, arg0, mlock, idx, kind, left>>

\* Mutant of RunOff: the loop ends one slot early.
RunOffEarly(c) ==
  /\ pc[c] = "scan"
  /\ idx[c] = NSlots - 1
  /\ idx' = [idx EXCEPT ![c] = NSlots]
  /\ Goto(c, "leave")
  /\ UNCHANGED <<lock, busy, arg0, mlock, kind, left>>

\* Every slot was busy: the loop ends with i = MAX_NO_OF_THREADS.
RunOff(c) ==
  /\ pc[c] = "scan"
  /\ idx[c] = NSlots
  /\ Goto(c, "leave")
  /\ UNCHANGED <<lock, busy, arg0, mlock, idx, kind, left>>

\* The caller uses the index it gets without looking at it.  With
\* i = MAX_NO_OF_THREADS it reads its buffer pointers past the end of the
\* table: nothing is known of what follows, and the activation goes no further.
Leave(c) ==
  /\ pc[c] = "leave"
  /\ Unlock
  /\ Goto(c, IF idx[c] \in Slots THEN "send" ELSE "overrun")
  /\ UNCHANGED <<busy, arg0, mlock, idx, kind, left>>
-----------------------------------------------------------------------------
(* The body of __syscall_wrap and, while it is outside, ocall_syscall *)

AfterSend(k) == CASE k = "outalloc" -> "malloc"
                  [] k = "undef"    -> "recv"
                  [] OTHER          -> "ocall"

\* send_user(arg0, &n), then the switch; its default writes -1 to arg0 itself.
Send(c) ==
  /\ pc[c] = "send"
  /\ arg0' = [arg0 EXCEPT ![idx[c]] =
                [by |-> c, n |-> IF kind[c] = "undef" THEN "result" ELSE kind[c]]]
  /\ Goto(c, AfterSend(kind[c]))
  /\ UNCHANGED <<lock, busy, mlock, idx, kind, left>>

AfterOcall(k) == IF k = "outalloc" THEN {"free", "recv"} ELSE {"recv"}

\* Mutant of Execute: the slot is given back before the answer is read.
ExecuteAndFree(c) ==
  /\ pc[c] = "ocall"
  /\ arg0[idx[c]].n # "exit"
  /\ arg0' = [arg0 EXCEPT ![idx[c]].n = "result"]
  /\ busy' = [busy EXCEPT ![idx[c]] = 0]
  /\ Goto(c, "recv")
  /\ UNCHANGED <<lock, mlock, idx, kind, left>>

\* The host executes the request it finds in the slot, whoever put it there.
Execute(c) ==
  /\ pc[c] = "ocall"
  /\ arg0[idx[c]].n # "exit"
  /\ arg0' = [arg0 EXCEPT ![idx[c]].n = "result"]
  /\ \E l \in AfterOcall(kind[c]) : Goto(c, l)
  /\ UNCHANGED <<lock, busy, mlock, idx, kind, left>>

\* SYS_exit ends the host thread inside the ocall: nothing after it runs.
Exit(c) ==
  /\ pc[c] = "ocall"
  /\ arg0[idx[c]].n = "exit"
  /\ Goto(c, "gone")
  /\ UNCHANGED <<lock, busy, arg0, mlock, idx, kind, left>>

\* ret_val = *arg0, then the lock again
Relock(c) ==
  /\ Acquire(c, "recv", "clear")
  /\ UNCHANGED <<busy, arg0, mlock, idx, kind, left>>

\* Mutant of Clear: the slot stays marked.
ClearNothing(c) ==
  /\ pc[c] = "clear"
  /\ Goto(c, "relunlock")
  /\ UNCHANGED <<lock, busy, arg0, mlock, idx, kind, left>>

Clear(c) ==
  /\ pc[c] = "clear"
  /\ busy' = [busy EXCEPT ![idx[c]] = 0]
  /\ Goto(c, "relunlock")
  /\ UNCHANGED <<lock, arg0, mlock, idx, kind, left>>

\* Mutant of Return: the lock is kept.
ReturnLocked(c) ==
  /\ pc[c] = "relunlock"
  /\ Goto(c, "user")
  /\ idx'  = [idx EXCEPT ![c] = 0]
  /\ kind' = [kind EXCEPT ![c] = "plain"]
  /\ UNCHANGED <<lock, busy, arg0, mlock, left>>

\* The activation's locals go with it.
Return(c) ==
  /\ pc[c] = "relunlock"
  /\ Unlock
  /\ Goto(c, "user")
  /\ idx'  = [idx EXCEPT ![c] = 0]
  /\ kind' = [kind EXCEPT ![c] = "plain"]
  /\ UNCHANGED <<busy, arg0, mlock, left>>
-----------------------------------------------------------------------------
(* malloc_user and free_user, called with a slot in hand, any number of times *)

NestedIdle(t) == pc[<<t, 2>>] = "user"

\* PREACTION(gm); the request is met without the host, or sys_alloc or sys_trim
\* calls brk.
HeapLock(t) ==
  /\ pc[<<t, 1>>] \in {"malloc", "free"}
  /\ NestedIdle(t)
  /\ mlock = 0
  /\ mlock' = 1
  /\ \E n \in {0, BrkCalls} : left' = [left EXCEPT ![t] = n]
  /\ Goto(<<t, 1>>, IF pc[<<t, 1>>] = "malloc" THEN "alloc" ELSE "trim")
  /\ UNCHANGED <<lock, busy, arg0, idx, kind>>

\* spin_acquire_lock calls sched_yield between its spins.
HeapYield(t) ==
  /\ pc[<<t, 1>>] \in {"malloc", "free"}
  /\ mlock = 1
  /\ Call(<<t, 2>>, "yield")
  /\ UNCHANGED <<lock, busy, arg0, mlock, idx, left>>

\* sbrk_user, under the allocator's lock
Brk(t) ==
  /\ pc[<<t, 1>>] \in {"alloc", "trim"}
  /\ left[t] > 0
  /\ Call(<<t, 2>>, "brk")
  /\ left' = [left EXCEPT ![t] = @ - 1]
  /\ UNCHANGED <<lock, busy, arg0, mlock, idx>>

\* A call allocates, and frees, once for every buffer that needs it.
AfterHeap(l) == IF l = "alloc" THEN {"malloc", "ocall"} ELSE {"free", "recv"}

\* POSTACTION(gm)
HeapUnlock(t) ==
  /\ pc[<<t, 1>>] \in {"alloc", "trim"}
  /\ NestedIdle(t)
  /\ left[t] = 0
  /\ mlock' = 0
  /\ \E l \in AfterHeap(pc[<<t, 1>>]) : Goto(<<t, 1>>, l)
  /\ UNCHANGED <<lock, busy, arg0, idx, kind, left>>
-----------------------------------------------------------------------------
\* The steps taken while holding syscall_arg_table_lock.
Inside(c) == Skip(c) \/ Take(c) \/ RunOff(c) \/ Leave(c) \/ Clear(c) \/ Return(c)

WrapStep(c) == Lock(c) \/ Send(c) \/ Execute(c) \/ Exit(c) \/ Relock(c)

HeapStep(t) == HeapLock(t) \/ HeapYield(t) \/ Brk(t) \/ HeapUnlock(t)

Next ==
  \/ \E c \in Calls : Inside(c) \/ WrapStep(c)
  \/ \E t \in Threads : HeapStep(t) \/ \E k \in UserKinds : Enter(t, k)

Spec == Init /\ [][Next]_vars

\* A thread inside a critical section keeps running, and when the lock is free
\* the hardware lets one of the spinning threads win: not any given one.
Fairness ==
  /\ \A c \in Calls : WF_vars(Inside(c))
  /\ WF_vars(\E c \in Calls : Lock(c) \/ Relock(c))

FairSpec == Spec /\ Fairness
=============================================================================
