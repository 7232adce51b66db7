----------------------------- MODULE KernelCalls -----------------------------
(* What the kernel takes from a system call, argument by argument, for the   *)
(* calls the shim layer knows.  External: the system-call interface of Linux *)
(* on x86_64 that app/shim_layer/syscall_unwrapper.cpp calls.                *)
EXTENDS Naturals, Sequences, Tables

\* What a call that succeeds may answer: zero, a count, a number, an address.
\* A count fits an int, so it does not matter where the shim reads it as one.
CONSTANT Counts
ASSUME CountsAssumption == Counts \subseteq Nat

I  == [is |-> "int",  null |-> FALSE]    \* four bytes of a register
X  == [is |-> "wide", null |-> FALSE]    \* an int, but the kernel reads eight bytes
L  == [is |-> "long", null |-> FALSE]    \* eight bytes
R  == [is |-> "in",   null |-> FALSE]    \* a block the kernel reads
W  == [is |-> "out",  null |-> FALSE]    \* a block the kernel writes
B  == [is |-> "both", null |-> FALSE]    \* a block it reads and writes
E  == [is |-> "edit", null |-> FALSE]    \* a block it reads, and may write only the front of
P  == [is |-> "front", null |-> FALSE]   \* a block it writes the front of, and no more
V  == [is |-> "upto", null |-> FALSE]    \* a block with room for an answer that may be shorter
C  == [is |-> "some", null |-> FALSE]    \* the same, and no bytes when the result is zero
U  == [is |-> "unused", null |-> FALSE]
Maybe(k) == [k EXCEPT !.null = TRUE]     \* the caller may pass NULL

Plain ==
  [rt_sigreturn |-> << >>, sched_yield |-> << >>, getpid |-> << >>, getuid |-> << >>, getgid |-> << >>,
   geteuid |-> << >>, getegid |-> << >>, getppid |-> << >>, getpgrp |-> << >>, setsid |-> << >>,
   sync |-> << >>, gettid |-> << >>, close |-> <<I>>, dup |-> <<I>>, alarm |-> <<I>>, exit |-> <<I>>,
   fsync |-> <<I>>, fchdir |-> <<I>>, umask |-> <<I>>, setuid |-> <<I>>, setgid |-> <<I>>,
   getpgid |-> <<I>>, getsid |-> <<I>>, exit_group |-> <<I>>, epoll_create1 |-> <<I>>, syncfs |-> <<I>>,
   unsupported |-> <<I>>, brk |-> <<L>>, personality |-> <<L>>, set_tid_address |-> <<L>>]

Numbers ==
  [dup2 |-> <<I, I>>, shutdown |-> <<I, I>>, listen |-> <<I, I>>, kill |-> <<I, I>>,
   fchmod |-> <<I, I>>, setpgid |-> <<I, I>>, setreuid |-> <<I, I>>, setregid |-> <<I, I>>,
   getpriority |-> <<I, I>>, eventfd2 |-> <<I, I>>, socket |-> <<I, I, I>>, fchown |-> <<I, I, I>>,
   setresuid |-> <<I, I, I>>, setresgid |-> <<I, I, I>>, setpriority |-> <<I, I, I>>,
   dup3 |-> <<I, I, I>>, munmap |-> <<L, L>>, mprotect |-> <<L, L, X>>, msync |-> <<L, L, I>>,
   madvise |-> <<L, L, I>>, mremap |-> <<L, L, L, L, L>>, mmap |-> <<L, L, X, X, X, L>>,
   lseek |-> <<I, L, I>>, fcntl |-> <<I, I, L>>, ftruncate |-> <<I, L>>, fallocate |-> <<I, I, L, L>>,
   clone |-> <<U, U, U, U, L>>]

Pathed ==
  [chdir |-> <<R>>, rmdir |-> <<R>>, unlink |-> <<R>>, chroot |-> <<R>>, rename |-> <<R, R>>,
   link |-> <<R, R>>, symlink |-> <<R, R>>, access |-> <<R, I>>, mkdir |-> <<R, I>>, creat |-> <<R, I>>,
   chmod |-> <<R, I>>, umount2 |-> <<R, I>>, chown |-> <<R, I, I>>, lchown |-> <<R, I, I>>,
   open |-> <<R, I, I>>, stat |-> <<R, W>>, lstat |-> <<R, W>>, statfs |-> <<R, W>>,
   utime |-> <<R, Maybe(R)>>, utimes |-> <<R, Maybe(R)>>, unlinkat |-> <<I, R, I>>,
   fchmodat |-> <<I, R, I>>, faccessat |-> <<I, R, I>>, truncate |-> <<R, L>>, readlink |-> <<R, C, I>>,
   openat |-> <<I, R, I, I>>, fchownat |-> <<I, R, I, I, I>>, futimesat |-> <<I, R, Maybe(R)>>,
   newfstatat |-> <<I, R, W, I>>, readlinkat |-> <<I, R, C, I>>,
   utimensat |-> <<I, Maybe(R), Maybe(R), I>>, mount |-> <<Maybe(R), R, Maybe(R), L, Maybe(R)>>,
   getcwd |-> <<C, L>>]

Blocks ==
  [fstat |-> <<I, W>>, fstatfs |-> <<I, W>>, getrlimit |-> <<I, W>>, getrusage |-> <<I, P>>,
   clock_gettime |-> <<I, W>>, getdents |-> <<I, C, I>>, getdents64 |-> <<I, C, I>>,
   getresuid |-> <<W, W, W>>, getresgid |-> <<W, W, W>>, uname |-> <<W>>, sysinfo |-> <<P>>,
   pipe |-> <<W>>, connect |-> <<I, R, I>>, bind |-> <<I, R, I>>, getsockname |-> <<I, V, B>>,
   getpeername |-> <<I, V, B>>, read |-> <<I, C, L>>, write |-> <<I, R, L>>, pread64 |-> <<I, C, L, L>>,
   pwrite64 |-> <<I, R, L, L>>, readv |-> <<I, C, X>>, writev |-> <<I, R, X>>, poll |-> <<B, I, I>>]

Choices ==
  [ioctl |-> <<I, I, Maybe(E)>>, select |-> <<I, Maybe(E), Maybe(E), Maybe(E), Maybe(B)>>,
   pselect6 |-> <<I, Maybe(E), Maybe(E), Maybe(E), Maybe(R), Maybe(R)>>,
   clock_getres |-> <<I, Maybe(W)>>, times |-> <<Maybe(W)>>, gettimeofday |-> <<Maybe(W), Maybe(W)>>,
   nanosleep |-> <<Maybe(R), Maybe(W)>>, setitimer |-> <<I, R, Maybe(W)>>,
   rt_sigaction |-> <<I, Maybe(R), Maybe(W), L>>, rt_sigprocmask |-> <<I, Maybe(R), Maybe(P), L>>,
   rt_sigsuspend |-> <<R, L>>, rt_sigpending |-> <<W, L>>,
   rt_sigtimedwait |-> <<R, Maybe(W), Maybe(R), L>>, rt_sigqueueinfo |-> <<I, I, R>>,
   sigaltstack |-> <<Maybe(R), Maybe(W)>>, getgroups |-> <<I, Maybe(C)>>, setgroups |-> <<I, Maybe(R)>>,
   prlimit64 |-> <<I, I, Maybe(R), Maybe(W)>>, sched_getaffinity |-> <<I, I, C>>, pipe2 |-> <<W, I>>,
   getrandom |-> <<C, L, I>>, futex |-> <<L, I, I, Maybe(R), Maybe(R), I>>,
   epoll_ctl |-> <<I, I, I, Maybe(R)>>, epoll_pwait |-> <<I, C, I, I, Maybe(R), L>>]

Sockets ==
  [accept |-> <<I, Maybe(V), Maybe(B)>>, accept4 |-> <<I, Maybe(V), Maybe(B), I>>,
   sendto |-> <<I, Maybe(R), L, I, Maybe(R), I>>,
   recvfrom |-> <<I, Maybe(C), L, I, Maybe(V), Maybe(B)>>,
   sendmsg |-> <<I, R, I>>, recvmsg |-> <<I, V, I>>, socketpair |-> <<I, I, I, W>>,
   setsockopt |-> <<I, I, I, R, I>>, getsockopt |-> <<I, I, I, V, B>>]

Prototype == Rows({Plain, Numbers, Pathed, Blocks, Choices, Sockets})

Writable == {"out", "both", "edit", "front", "upto", "some"}
Pointers(n) == {i \in DOMAIN Prototype[n] : Prototype[n][i].is \in {"in"} \cup Writable}
Nullable(n) == {i \in DOMAIN Prototype[n] : Prototype[n][i].null}

\* The pointers a caller may leave NULL together: an address and the room for
\* its length are both given or both left out.
NullChoices(n) ==
  {N \in SUBSET Nullable(n) :
     /\ n \in {"accept", "accept4"} => (2 \in N <=> 3 \in N)
     /\ n = "recvfrom" => (5 \in N <=> 6 \in N)}

\* Pointer arguments that may be given without a block: a number in place of
\* the pointer (ioctl's, tcdrain; futex's second count), or, for pselect6, a
\* pair without a mask.
Blockless(n) == CASE n = "ioctl" -> {3} [] n = "futex" -> {4} [] n = "pselect6" -> {6} [] OTHER -> {}

\* A block is its first eight bytes, lo and hi, and the rest; the memory past
\* it belongs to somebody else.  The first eight stand for whatever a shorter
\* length takes: of a copy, of an answer, of a structure.
Front == {"lo", "hi"}
Whole == Front \cup {"rest"}
Parts == Whole \cup {"past"}

\* The results of a call that succeeds.
Successes(n, nulls) ==
  CASE n \in {"getcwd", "clone"} -> {r \in Counts : r > 0}
    [] n = "recvfrom" /\ 2 \in nulls -> {0}
    [] OTHER -> Counts

\* The blocks the kernel has written when it answers r: nanosleep reports the
\* time left when it is interrupted, the others what they were asked for; and
\* how far it wrote into block i if its answer was short.
Filled(n, given, r) ==
  {i \in given :
     /\ Prototype[n][i].is \in Writable
     /\ IF n = "nanosleep" THEN r < 0 ELSE r >= 0
     /\ Prototype[n][i].is = "some" => r > 0}
Reach(n, i, short) ==
  LET is == Prototype[n][i].is
  IN IF is = "front" \/ (short /\ is \in {"edit", "upto", "some"}) THEN Front ELSE Whole
=============================================================================
