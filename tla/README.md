# A verification development of Porpoise's enclave shim

Porpoise runs unmodified C programs in an SGX enclave.  The program is linked
with a musl whose system calls go to a shim (`enclave/shim_layer`), which copies
the arguments to untrusted buffers, leaves the enclave and lets its counterpart
(`app/shim_layer`) make the real call.  This directory models the part of that
machinery that many threads share, and the two hand-written halves that every
system call passes through, checks them with TLC and proves their safety
properties with TLAPS.  Paths below are relative to the repository.

## 1. Inventory

| Component | State | Operations | Interacts with |
|---|---|---|---|
| System-call slots (`syscall_wrap.cpp`, `shim_layer.cpp` of both sides) | `syscall_arg_table[16]`: `busy`, ten untrusted buffers each; `syscall_arg_table_lock` | `get_free_syscall_arg_index`; prologue and epilogue of `__syscall_wrap`; `ocall_syscall` | every system call; nested calls from `malloc_user` |
| Untrusted allocator (`malloc_user.cpp`, dlmalloc) | heap `gm`, its spin lock | `malloc_user`, `free_user`, `sbrk_user` | called by the shim with a slot in hand; itself calls `brk`, `sched_yield` |
| Object table (`syscall_wrap.cpp`) | `object_table[1024]`: enclave address, untrusted word; `object_table_lock` | `get_out_address`, `set_out_address` | futex, set_tid_address |
| Futex shim (`syscall_wrap.cpp`, `syscall_unwrapper.cpp`) | the untrusted copies of futex words; the kernel's queues | `FUTEX_WAIT`, `FUTEX_WAKE`, `FUTEX_REQUEUE` | object table, musl |
| musl mutex (`pthread_mutex_*.c`) | `_m_lock`, `_m_waiters` | lock, trylock, unlock | futex shim |
| Exit and join (`pthread_create.c`, `pthread_join.c`, `pthread_detach.c`) | `detach_state`, the kernel's `clear_child_tid` | `start`, `__pthread_exit`, `pthread_join` and its timed and trying forms, `pthread_detach` | futex shim, object table |
| Threads (`pthread_create.c`, `x86_64/__set_thread_area.c`, `pthread_arch.h`, `out_start_routine`) | `fs_table[20]`, `threads_minus_1`, the TCSs | create, clone, register, look up, exit | slots (an exit keeps its slot), SDK |
| Marshalling (`syscall_wrap.cpp`, `syscall_unwrapper.cpp`) | the buffers of a slot, `errno`, blocks of `malloc_user` | 145 cases of the wrapper and of the unwrapper: send, call, receive | slots |
| musl condition variables (`pthread_cond_*.c`) | `_c_head`, `_c_tail`, nodes on the waiters' stacks, `_m_waiters` | wait, timed wait, signal, broadcast | mutex, futex shim (wait, wake, requeue) |
| Signals | `handler_list`, `signo` | `rt_sigaction`, `inside_sig_handler` | none installed |
| Enclave life cycle (`shim_init`, `main`, `shim_terminate`) | enclave id | create, run `main`, destroy | all threads |
| Copying (`send.cpp`, `recv.cpp`) | none | `memcpy` | marshalling, futex |
| Other musl synchronisation | futex words | sem, rwlock, barrier, once, `__lock` | futex shim |
| Measuring, build scripts, tests, ported applications | - | - | - |

What makes each correct, and what is hard:

* **Slots.** A slot belongs to one activation of `__syscall_wrap` from search to
  release; its buffers carry that call's request and answer and no other's; no
  index leaves the table; the spin lock is always given back.  Hard: calls nest
  (`futex` -> `set_out_address` -> `malloc_user` -> `brk`), the nested ones under
  another lock, and `SYS_exit` never comes back.
* **Object table.** An address keeps its word.  Hard: lookup and insertion are
  two critical sections, and nothing is ever removed.
* **Futex, mutex, join.** Exclusion; no lost wakeup; a join returns, and not
  before the thread is done with its memory.  Hard: the kernel works on a copy
  of the word, made by a load and a store outside any lock.
* **Threads.** Every thread finds its own `struct pthread`; the one that ends
  the process is really the last.  Hard: registration has no lock; tables and
  TCSs are finite and never given back.
* **Condition variables.** A waiter that is woken, or whose wait times out,
  leaves nothing behind that points to its stack; the woken get the mutex in
  order; nobody is left asleep.  Hard: a timeout races a signal for the node, and
  the turn is passed on by a requeue, which the shim must get right.
* **Marshalling.** What the program passed is what the kernel gets, and what the
  kernel fills is what the program gets, whatever earlier calls left in the
  buffers; one ocall is made per call.  Hard: two switches of 145 cases each,
  written by hand, agree by convention only.

`PROJECT.json` lists all hazards at their lines, with the properties that
answer to them.

## 2. Plan

1. `SyscallTable`, its abstract `SlotPool`, properties and proofs. (done)
2. `ObjectTable`, and on top of it `FutexShim`, then the musl code on top of
   that: `ShimMutex`, which implements the abstract `MutexLock`, and `ShimJoin`,
   with proofs. (done for normal mutexes, and for all joins)
3. `ThreadLife`, with proofs. (done for creation, registration, exit)
4. `Marshal`, with the tables `SyscallWrap`, `SyscallUnwrap` and `KernelCalls`,
   with proofs. (done)
5. `ShimCond`, condition variables with timeouts and requeue, with proofs. (done)
6. What could follow: semaphores, read-write locks and barriers on `FutexShim`;
   joining `ThreadLife` and `ShimJoin`.

## 3. Modules

`SlotPool` <- implemented by - `SyscallTable` (`SyscallTableProps`: properties;
`SyscallTableProofs`: theorems; `MCSyscallTable`: instances).
`ObjectTable` <- extended by - `FutexShim` <- extended by - `ShimMutex`,
`ShimJoin`, `ShimCond`.  `MutexLock` <- implemented by - `ShimMutex`, used by -
`ShimCond`.  `SyscallWrap`, `SyscallUnwrap` and `KernelCalls` are tables that
`Marshal` puts together (`Tables` has the one operator they share).  `ThreadLife` stands alone.  A module `XProofs` holds the
theorems about `X`; each `MC` module only adds what TLC needs.

**SyscallTable.** `<<t, 1>>` is the call a thread makes, `<<t, 2>>` the call
the allocator (`malloc_user`, `free_user`) makes inside it. `Lock`, `Skip`,
`Take`, `RunOff`, `Leave` are `get_free_syscall_arg_index`, one step of its
loop each; `Send`, `Execute`, `Exit` the body and the ocall; `Relock`, `Clear`,
`Return` the epilogue. `HeapLock`, `HeapYield`, `Brk`, `HeapUnlock` are
`dlmalloc`, before the ocall (`readv` allocates a block for each `iovec` after
the fifth), and `dlfree`, after it, reduced to their lock and their system
calls. What a call does is reduced to four kinds: a plain one, one that
allocates, one the switch does not know, and `exit`. Of the buffers only `arg0`
is kept, which carries the number out and the answer back; the others are
written and read between the same two steps. An activation that got the index
past the table's end stops (`overrun`): what follows the table in memory is
unknown. The activation's index and kind are reset on return, as the locals
they are.

**SlotPool.** Each call holds at most one slot, no slot is held twice, a call
that claims gets the lowest free one.

**ObjectTable.** A thread resolves an address in two steps, `Get` and, after a
miss, `Set` or `SetFull`, each atomic as the code holds `object_table_lock`
throughout it.  An entry's index stands for the block allocated with it.
`SetFull` ends in the copy to `NULL`; an allocation that fails would end there
as well.

**FutexShim.** `Call` enters a futex call and looks the word up, `Allocate` adds
an entry, `Load` and `Store` are `send_user(out_uaddr, uaddr, ...)`, `Sleep`,
`Again`, `WakeOne`, `WakeNone` the kernel's atomic part, `Finish` the return.
`raced` is a history variable: it becomes true when a thread goes to sleep for a
value the enclave's word no longer has, or sleeps or wakes on a word that the
lookup would not find.  A thread that finds the table full stops: `SetFull` is for
`ObjectTable` alone.  The mutex and condition runs have an entry for every miss
there can be.

**ShimMutex.** `pthread_mutex_lock`, `_timedlock` and `_unlock` of a normal mutex.
Spinning is left out: it only reads.  Several unsuccessful tries in a row are one.
The threads in `Timed` have a deadline, which may pass before the wait (`Late`) or
at any moment of it (`TimeOut`, then `GiveUp`); a thread that leaves without the
mutex has used up one of its rounds.

**MutexLock.** A lock that threads acquire when it is free and release.
`ShimMutex` implements it (`LockSpec`), so `ShimCond` uses it in the mutex's
place; what the mutex does with the kernel is not repeated there.

**ShimCond.** `LockMutex`, `Enlist`, `UnlockMutex`, `Wait`, `Late`, `TimeOut`,
`Waited` are `pthread_cond_timedwait` up to the end of its wait; `Decide` is the
compare-and-swap by which it or a signaller takes the node; `Unlink`, `Notify`,
`WakeNotify`, `Woken` the way out of a wait that timed out; `LockBarrier`,
`Block`, `Blocked`, `Unblock`, `Relock`, `Settle`, `Pass`, `Requeue`, `Requeued`
the way out of one that was signaled.  `Signal`, `TakeNode`, `PassOver`, `Split`,
`Drain`, `Drained`, `Proceed`, `Free`, `WakeFirst`, `WokeFirst` are
`__private_cond_signal`.  The sections that hold `c->_c_lock` for a fixed number
of stores (`Enlist`, `Unlink`) are single steps that need it free; the walk over
the list holds it from `Signal` to `Split`.  `TimeOut` may come at any moment of
a sleep, `Late` when the deadline has passed before it.  The shim loads the word for every futex call, also for a wake, where the
kernel would not look at it, and musl wakes after it has opened a barrier or given
up a ref: that load alone may read from a frame that is gone, and `NoDangling`
leaves it out by name (`op[t] # "wake"`).  It reads the caller's stack, which is
still mapped unless the thread is gone too; what it reads is stored in the copy,
whose staleness the other properties allow for.  The load for a requeue cannot:
the waiter whose barrier was opened needs the mutex, and the one that requeues it
has not returned with it.  `Move` is the kernel's
requeue with the arguments the unwrapper makes of it.  `left` records the
sleepers such a requeue was meant for.

**KernelCalls, SyscallWrap, SyscallUnwrap, Marshal.** The first three are tables
with one row per system call: what the kernel takes (external, from the calls the
unwrapper makes), what a case of `__syscall_wrap` sends and copies back, what a
case of `ocall_syscall` reads and hands on.  A table is written in groups of similar calls,
which `Rows` of `Tables` joins.  `Marshal` runs one call after another through one
slot, `Calls` being those the program makes, `Counts` what a call may return and
`Errnos` the errors it may meet: `Begin`, `PutArguments` (the sends), `Enter` (the reads),
`Kernel`, `GetResults` (the copies back) and `Return`.  A buffer is four parts,
its first four bytes, the next four, the rest of the block and what lies past it,
each the name of what was stored there; between calls all are `Stale`, which stands
for whatever another call left.  Three choices of a call matter for what is copied:
`bare` are the pointer arguments without a block (`ioctl`'s third, which `tcdrain`
gives as the number 1, `futex`'s fourth, which is a count for `FUTEX_REQUEUE`, and
the mask in `pselect6`'s sixth), `room` says
whether the caller's block is as long as a length that is fixed in the code, shorter
or longer (`ioctl`'s 32 bytes, `accept4`'s 16, those of `truncate` and
`sched_getaffinity`; for `recvfrom`, shorter than the result), and `short` whether
the kernel has filled the block or only its beginning.  `KernelCalls` says of each
argument how it is filled: `out` and `both` whole; `front` only at its beginning; `edit`, `upto` and `some`
whole or at the beginning, as `short` says, `some` not at all when the result is 0
(`Reach`).  A copy back takes what `Taken` says: the room asked for, the
result, or a length of its own.  `FallThrough` is `alarm`, which runs on into the
case of `setitimer`: it copies from an argument nobody gave, which ends the enclave or
does not, and then makes a second call with the answer as its number.
That nobody else writes to the buffers during a call is `SlotExclusive` and
`BufferIntact` of `SyscallTable`.  Each property is stated with its exact list of
exceptions, so that a further one shows: the lists are the calls in which the two
halves disagree, or hand out or overwrite what they should not, today.  Lengths are not
compared with `BUF_SIZE`, as the code does not either.

**ShimJoin.** A child sets its tid address (`SetTidAddress` ... `Run`), runs,
exits (`Exiting`, `Unregister`, `Exited`, `Gone`).  One joiner creates them,
detached or not, and joins (`Await` ... `Join`, with or without a deadline:
`TimeOut`, `GiveUp`, `TooLate`) or detaches (`Detach`) them in any order.  `Stamp`
is the store of the address of `detach_state` over the copy that the wrapper has
just made.  `Exited` is the store marked `SGX_HACK`: from then on the joiner may
free the memory, and `Recycle` gives it to a new thread while the old one is still
on its way to `SYS_exit`.  `Clears` is the kernel's `clear_child_tid`, which comes
once for every thread that leaves: `Gone`, or `GoneLate` for one whose memory is
another's by then.  Two things of the code show in the model and do no harm to its
properties: the memory of a detached thread is never freed (`__unmapself` is
commented out, `pthread_create.c:114`), and a thread created detached registers a
`clear_child_tid` all the same, contrary to the comment above that line, because
`start` always does.

**ThreadLife.** `Skip`, `SeeFree`, `SeeNone`, `TakeTcs`, `FillFs` are
`__set_thread_area`, the two stores being two steps; `Find`, `FindNone`, `Self`
are `__pthread_self`; `Count`, `Clone`, `CloneFails`, `CloneUnnoticed`, `Enter`, `EnterFails` are
creation; `Leave`, `Last`, `Restore`, `ExitGroup` the exit.  A thread, its TCS
and its struct go by one name, since a TCS is never used twice.  A clone that fails answers `-errno`, and `pthread_create` on the host need not set
`errno` (`syscall_unwrapper.cpp:560-566`).  With one that is not zero the creator takes
the count back (`CloneFails`); with none the 0 passes for success
(`CloneUnnoticed`): the child is a `phantom`, counted for ever, so that no thread is
the last any more and the process ends only if main returns.  A join of it never
returns either, since nobody sets its `detach_state`; `ShimJoin` has only children
that exist.  `overlapped`
records that a registration stored into an entry another had already taken.

Operators whose comment begins with "Mutant of" are faulty variants of the
operator after them.  No specification uses them; each breaks one property, as
`PROJECT.json` lists, and so shows that the property can fail.

## 4. Runs

| Run | Instance | Question |
|---|---|---|
| `slots_safety` | 2 threads, 4 slots, 2 `brk`s an allocation | exclusion, buffers, index range |
| `slots_progress` | 2 threads, 3 slots, 1 `brk`, fair | implements `SlotPool`; the lock is always given back; is "no slot free" true when it is returned |
| `slots_overrun` | 3 threads, 3 slots | violated: as many slots as threads are too few |
| `objects` | 3 threads, 2 addresses, 5 entries | stable lookups, own words, few duplicates, no holes |
| `mutex` | 3 threads, once each, all of which may give up | exclusion; implements `MutexLock`; wakeups lost only by the two races |
| `mutex_lost` | same without deadlines, fair | violated: a thread sleeps for ever on a free mutex |
| `cond` | 2 waiters, 1 signaller, once each, 6 entries | no pointer into a dead frame; turns; balance of the count; who is left asleep |
| `join` | 2 children, one of them in used memory, 2 entries | memory freed after its last use; no join of a detached thread; stranded only by a race |
| `join_lost` | 1 child, fair | violated: the join of a thread that has left never returns |
| `threads` | 4 threads, 3 TCSs, 2 entries | identity, who is last, what is counted, the table is full only if it must be |
| `threads_lost` | 3 threads, 4 entries | violated: a thread does not find itself |
| `marshal` | every call, with every choice of NULL pointers, blocks too short or too long, and every outcome | arguments and results arrive; nothing stale; blocks freed; one ocall |

Why the bounds suffice.  Two threads with a nested call each are four competitors
for the slots, and two `brk`s let a nested call end and another begin under one
allocation; three slots are one less than they can want, so that a search does
come back with nothing.  The proofs below remove these bounds.  Five entries for two addresses
are one less than three threads could add, so the table just fills.  Three
threads are a holder, a waiter and a waker of a mutex that meet in every order;
with one round each the lost wakeup already happens.  In `cond` two waiters are
what it takes for a list with a newest and an oldest node, for a group whose turn
is passed on, and for a node that leaves between them; the signaller chooses
between a signal and a broadcast, and every wait between a timeout and none.  Six
entries are one for every miss there can be.  For `join` the races are
between one joiner and one child, whose misses the two entries are enough for; the
second child shares the table, and where both addresses would be entered twice, one
thread stops at the full table, which the proofs do without.  In
`threads` one thread too many finds no TCS, and the table is an entry shorter than
the TCSs, as with the 100 TCSs of `config.01.xml`.  `marshal` needs no more than
one call at a time: what calls leave to each other is in `Stale` and in `errno`.  Its counts are
nothing and something, its errors `EPERM`, whose negation is the -1 of a failed
call, and another; a block's length is compared only with the one length that its
case fixes, for which shorter, equal and longer are all there is, and an answer
either fills the block or does not.
`MaxObjects`, `BrkCalls`, `Rounds`, `Signals`, `Reuses`, `Values`, `Counts` and
`Errnos` are bounds of the model;
`NSlots`, `MaxThreads`, `NTcs` are the program's, made small.

Deadlock is checked in the slot runs, except `slots_progress`, where an activation
that got the wrong index stops.  The others turn it off because their programs
end: the mutex, condition and join programs finish, the object table fills up,
the process ends, a call of `marshal` ends the enclave.

Fairness.  `SyscallTable`: a thread inside a critical section goes on, and when
the lock is free one of the threads spinning for it gets it, not any given one;
nothing is assumed about the host's calls.  `ShimMutex`, `ShimJoin`: weak
fairness of every thread, as the host schedules threads that can run.  No run
assumes that a sleeper is woken.

## 5. What the violations show

* `slots_overrun`: `get_free_syscall_arg_index` returns `MAX_NO_OF_THREADS` when
  it finds nothing and `__syscall_wrap` (line 128) uses it.  16 slots for 16 TCSs
  would be enough if a thread held one slot; it may hold two.
* `mutex_lost`, `join_lost`: the copy of the futex word (line 1886) is stale when
  it is stored after a wake that it was loaded before.  The runs `mutex` and
  `join` show that this and the doubled object table entry are the only ways.
* `threads_lost`: two registrations overlap (`__set_thread_area.c:14-19`) and the
  assertion in `__pthread_self` fails.

The lists of exceptions in `Marshal`, and the second half of
`AsleepByRaceOrRequeue`, are disagreements too, found and kept by passing runs:

* A broadcast with two waiters strands the second: `FUTEX_REQUEUE` is passed the
  address of a buffer for the second word and that of another for the number to
  move (`syscall_unwrapper.cpp:1127`), so the waiter is queued where no unlock of
  the mutex looks.
* Arguments that do not arrive (`Lost`): `select` and `pselect6` never send `nfds`;
  `rt_sigaction` passes NULL for the action; `lseek` drops its third argument,
  `openat` takes its fourth from the wrong buffer; the number that `futex` takes as
  its fourth argument becomes the address of a buffer.
* Results that do not come back, or not all (`LostBack`): the addresses of `accept`,
  `getsockname` and `recvfrom`; of `accept4`'s all after 16 bytes.
* Bytes of an earlier call that do (`Brief`): `readv`, `getcwd`, `getgroups` and
  `getdents` copy the room asked for whatever the kernel has written, `fstat` and
  `getrusage` a structure longer than the kernel's.
* Copies past the caller's block (`CopiesBounded`): `ioctl` 32 bytes, also
  to the 8 of `isatty`'s `struct winsize`; `accept4` 16; `fstat` a byte.
* Pointers followed that are not (`FaultsAreKnown`): `ioctl` of `tcdrain`, `pselect6`
  without a sixth argument, `accept`, `times` and others with NULL.
* Blocks kept for ever (`BlocksFreed`): `sendmsg`, `recvmsg`, and the words of `futex`
  and `set_tid_address`.
* `alarm` falls through into `setitimer`, `sync` into `mount` (`OnceEach`).

`CountExact` keeps the phantoms of `CloneUnnoticed` among those counted, which is one
more: `pthread_create.c:314` takes them for threads.

## 6. Proofs

`SyscallTableProofs`, for every set of threads, number of slots and number of
`brk` calls, from `NSlots \in Nat \ {0}` and `BrkCalls \in Nat`:

* `Invariance`, `Typing`: `IInv` and its part `TypeOK`.  `SlotExclusive` is not
  inductive: it needs that the spin lock excludes (`LockInv`), that an activation
  past the search has an index of the table (`InTableInv`), and, for
  `FullWhenRunOff`, that what a scan has passed stays busy until it ends
  (`ScanInv`), which holds because slots are cleared under the same lock.
* `Exclusion`, `TrueExhaustion`: parts of `IInv`.
* `BufferIntegrity`: from `IInv`; a step writes only to the buffers of a slot
  its activation holds, and nobody else holds it.
* `Capacity`: with finitely many threads and two slots for each no call ever runs
  off the table.  By the pigeonhole principle: if all are busy, each has an owner
  and the one who searches owns none.
* `Refinement`: `Spec => PoolSpec`, with the mapping of `SyscallTableProps`.
  Taking a slot is a `Claim`, clearing it a `Release`, every other step a stutter
  (`QuietSteps`).

`ObjectTableProofs`, for every set of threads and addresses and every size of the
table, from `MaxObjects \in Nat \ {0}` and that `NULL` is no address and no
number: `TableTyping`, `NoHoles`, `OwnWord`, `Stability` and, for finitely many
threads, `OneEntryPerThread`: an address has no more entries than it has threads,
because a thread adds one only after a lookup that missed it, and no lookup that
starts once it is in the table misses it.  The invariant
`TableInv` adds to the properties that an address in the table has a first entry
(`HasFirst`) and that who has a word has one of the table (`Chosen`).  `Stability`
follows because a new entry goes after all used ones: it can only be the first of
an address that had none.  `FutexShimProofs` lifts these facts to the steps of a
futex call, for any caller; its lemmas serve the next two.

`ShimMutexProofs`, for every finite set of threads, every number of rounds and
entries, and every set of values that has the lock's two and 0:

* `MutualExclusion`, by `IInv`: the word is 0 exactly when nobody holds the mutex,
  and a thread marks only a word it saw taken (`MarkInv`), so that its
  compare-and-swap never takes a free mutex.  Nothing about the copy of the word
  or the table entry is needed, and that is the point.
* `Refinement`: a successful `TryLock` is `Acquire`, `Swap` is `Release`, every
  other step leaves the owner alone.
* `Typing`: the count of waiters is the number of threads between `Look` and
  `Waited` or giving up (`CountInv`), so it never goes below zero.
* `NoOtherLoss`: in a history without a race, when somebody sleeps, a free mutex
  has a thread that will look at it again or is about to wake somebody (one that
  may find its deadline passed does not count), and a thread about to unlock has
  counted a waiter or will find the word marked (`WakeInv`).  It rests on who is
  in which call (`InCallInv`), on sleepers being queued where they think, on the
  first word of the mutex (`SleepInv`), and on `CountInv`.

`ShimJoinProofs`, for every set of children and however often memory is used again:
`Typing`, `NoUseAfterFree`, `NoTrap`, `NoOtherStranding`, all parts or consequences
of one `IInv`, which says when the child's own word is `DT_EXITED` and that it marks
a thread detached only if the program has given it up (`WordInv`), what joiner and
child are doing in their calls (`JoinerInv`, `ChildInv`), that only the joiner sleeps
(`SleepInv`), and that without a race the child's `clear_child_tid` and the joiner's
word are one (`RaceInv`).  That a clear meant for an old thread cannot be lost on a
new one is `Cleared`: it only ever wakes.

`ThreadLifeProofs`, for every finite set of threads, every number of TCSs and
entries: `Typing`, `CountIsExact` (the count is the number of threads that are there, on their way or
phantoms, less one), `OnlyTheLastEnds` (a thread that brought it below zero is alone), `Identity` (without
an overlap an entry stays with the thread that took it, `OwnInv`) and
`FullMeansFull` (entries are taken by different threads, so a full table has as
many owners, by the pigeonhole principle).

`ShimCondProofs`, for every finite set of waiters, every set of signallers and
every number of rounds, signals and entries: `Typing`, `NoPointerDangles`,
`OneAfterTheOther`, `CountIsBalanced` and `NoOtherSleeper`.  None of the four is
inductive, and together they are not either.  The list of stack nodes changes in
three places (a new waiter at its head, a signaller that cuts off its tail, a
waiter that timed out and takes itself out), and each is right only because of
what the others leave behind.  `IInv` says what that is:

* `LinkInv`, `ListInv`: neighbours point at each other, and the nodes between
  `head` and `tail` are the waiters that are in the list, newest first.
* `GroupInv`: the nodes that a signaller has come by and whose turn is still to
  come are its group, closed under the list's pointers; no two groups meet; the
  ones older than the first it took are all about to leave.  `TurnInv`: who has
  still to open the barrier behind it finds it closed, or a node about to leave.
* `RefInv`: a signaller's `ref` counts the nodes it found leaving until they have
  left, so it stays on its stack as long as they point to it.
* `CountInv`: `mWaiters` is the number of groups whose oldest member has settled
  and whose newest has not.
* `RaceInv`: without a race, a sleeper is queued on the first word of its barrier,
  and the barrier is closed or somebody is on the way to wake it, or it was lost
  to a requeue.

`MarshalProofs`, for any of the calls the program may make, any set of counts and
any set of error numbers (`CallsKnown`, `CountsAssumption`, `ErrnosAssumption`):
`Typing`, `Arriving`, `Returning`, `NothingLeftOver`, `Bounded`, `KnownFaults`,
`NoLeak`, `OwnResult` and `Once`, one for each property of the run.  The run shows
them for two counts and two errors.  The proof has two halves:

* `Agreement` goes through the tables call by call and proves of each of the 146
  that its rows agree (`Agree`): no two arguments share a buffer, an argument is put
  where and as the host reads it, the host's pointer for a result is the buffer
  the wrapper looks at, the copy back is no longer than the block and, where the kernel has
  written less, no longer than that, and NULL is
  looked for (`Sends`, `Fetches`, `Copies`, `Careful`).  Each has the exceptions of
  the property it serves and no others.
* The invariant `IInv` follows one call through the slot and uses nothing of the
  tables but `Agree`.  The properties are not inductive, as each relates what one
  half did to what the other finds several steps later.  `HeldInv` says what the
  buffers hold between the sends and the answer, `PassedInv` that the kernel was
  given what they held, `AnswerInv` and `FilledInv` what the kernel has left in
  `arg0` and in the buffers, `UnaskedInv` that nothing is owed before, `CleanInv`
  that what the program has put in its own buffers is still there or overwritten by
  the kernel, so that a copy longer than the answer hands out nothing of another
  call's, `BlocksInv` whose blocks are live.

Every safety property and both refinements that a passing run checks are stated by
a theorem.  Only model-checked are the liveness properties, which need fairness
and `ENABLED`, for which there is no prover: `LockServed`, which holds, and
`AllFinish` and `JoinsReturn`, which fail.  The tables are proved about as
they stand in the modules; that a row is the case it stands for is by reading.

## 7. Not modelled

The heap of `malloc_user` (vendored) and its failures; system call numbers
outside 0..350, for which `__syscall_wrap` stops the enclave (lines 147-150);
lengths against `BUF_SIZE` and the contents of nested structures in `Marshal`;
signals (nothing is installed); `FUTEX_WAKE` of several threads, semaphores,
read-write locks, barriers, `once` and `__lock`; process-shared condition
variables and cancellation; mutex types other than normal;
several joiners of one thread; the SDK's creation and destruction of the
enclave; measuring code, build scripts, tests and the ported applications.

Nearly all of the repository's lines are programs and libraries brought to the
enclave as they are (python, openssl, h2o, memcached, musl and more).  What is
Porpoise's own, the shim of both sides and the changed files of musl, is a few
thousand lines, and that is what the modules stand for.
