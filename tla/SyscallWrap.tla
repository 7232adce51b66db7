----------------------------- MODULE SyscallWrap -----------------------------
(* The cases of __syscall_wrap (enclave/shim_layer/syscall_wrap.cpp): for    *)
(* every system call, how each argument is put into the slot's buffers       *)
(* arg1..arg8 before the ocall, and what is copied back after it.  A case is *)
(* [put |-> one item per argument, get |-> a set of copies back].            *)
EXTENDS Naturals, Sequences, Tables

Item(how, to, of) == [how |-> how, to |-> to, of |-> of]

N == Item("nothing", 0, 0)        \* the buffer keeps what it holds
I == Item("int", 0, 0)            \* four bytes of the argument
L == Item("long", 0, 0)           \* eight bytes of the argument
D == Item("data", 0, 0)           \* the block it points to
O == Item("given", 0, 0)          \* the block, if the pointer is not NULL
H == Item("fixed", 0, 0)          \* a fixed number of bytes of it, if not NULL
\* Mutant of Ref: the address of a buffer that the slot does not have.
RefPastEnd(b) == Item("ref", b + 6, 0)
Ref(b) == Item("ref", b, 0)       \* NULL, or the address of buffer b
\* Mutant of RefIn: the block itself is not copied.
RefOnly(b) == Item("ref", b, 0)
RefIn(b) == Item("refdata", b, 0) \* the same, and the block in buffer b
RefHead(b) == Item("refhead", b, 0)
Pointer(b) == Item("pointer", b, 0)  \* the address of buffer b even for NULL
Copy(j) == Item("int", 0, j)      \* four bytes of another argument, j

\* A copy back: the argument, when it is made, and how long it is.
Get(arg, when, len) == [arg |-> arg, when |-> when, len |-> len]
Always(arg) == Get(arg, "always", "block")
\* Mutants of Given: the size of the pointer, and the check for NULL dropped.
GivenHead(arg) == Get(arg, "given", "head")
GivenAlways(arg) == Get(arg, "always", "block")
Given(arg) == Get(arg, "given", "block")

Case(put, get) == [put |-> put, get |-> get]
Put(put) == Case(put, {})

FileCalls ==
  [read |-> Case(<<L, N, L>>, {Get(2, "positive", "result")}), write |-> Put(<<L, D, L>>),
   open |-> Put(<<D, L, L>>), close |-> Put(<<I>>),
   stat |-> Case(<<D, N>>, {Get(2, "succeeded", "block")}),
   lstat |-> Case(<<D, N>>, {Get(2, "succeeded", "block")}),
   fstat |-> Case(<<L, N>>, {Get(2, "always", "longer")}), poll |-> Case(<<D, L, I>>, {Always(1)}),
   lseek |-> Put(<<L, L, L>>)]

MemoryCalls ==
  [mmap |-> Put(<<L, L, L, L, L, L>>),
   mprotect |-> Put(<<L, L, L>>),
   munmap |-> Put(<<L, L>>),
   brk |-> Put(<<L>>)]

SignalCalls ==
  [rt_sigaction |-> Case(<<L, RefIn(5), Ref(6), L>>, {Get(3, "given", "head")}),
   rt_sigprocmask |-> Case(<<L, RefIn(5), RefIn(6), L>>, {Given(3)}),
   rt_sigreturn |-> Put(<< >>)]

VectorCalls ==
  [ioctl |-> Case(<<I, L, H>>, {Get(3, "given", "fixed")}),
   pread64 |-> Case(<<L, N, L, L>>, {Get(2, "always", "result")}),
   pwrite64 |-> Put(<<L, D, L, L>>),
   readv |-> Case(<<I, N, I>>, {Always(2)}),
   writev |-> Put(<<I, D, I>>)]

PollCalls ==
  [access |-> Put(<<D, L>>),
   pipe |-> Case(<<N>>, {Always(1)}),
   select |-> Case(<<N, O, O, O, O>>, {Given(2), Given(3), Given(4)}),
   sched_yield |-> Put(<< >>),
   mremap |-> Put(<<L, L, L, L, L>>),
   msync |-> Put(<<L, L, L>>),
   madvise |-> Put(<<L, L, L>>)]

TimerCalls ==
  [dup |-> Put(<<L>>),
   dup2 |-> Put(<<L, L>>),
   nanosleep |-> Case(<<RefIn(3), Ref(4)>>, {Given(2)}),
   alarm |-> Put(<<L>>),
   setitimer |-> Case(<<L, D, Ref(4)>>, {Given(3)}),
   getpid |-> Put(<< >>)]

\* Mutant of SocketCalls: recvfrom does not look whether it failed.
SocketCallsUnchecked ==
  [socket |-> Put(<<L, L, L>>),
   connect |-> Put(<<L, D, L>>),
   accept |-> Put(<<L, D, D>>),
   sendto |-> Put(<<I, O, L, I, O, I>>),
   recvfrom |-> Case(<<I, O, L, I, O, O>>, {Get(2, "always", "result")})]
SocketCalls ==
  [socket |-> Put(<<L, L, L>>),
   connect |-> Put(<<L, D, L>>),
   accept |-> Put(<<L, D, D>>),
   sendto |-> Put(<<I, O, L, I, O, I>>),
   recvfrom |-> Case(<<I, O, L, I, O, O>>, {Get(2, "positive", "result")})]

MessageCalls ==
  [sendmsg |-> Put(<<L, D, L>>), recvmsg |-> Case(<<L, N, L>>, {Get(2, "always", "message")}),
   shutdown |-> Put(<<L, L>>), bind |-> Put(<<L, D, L>>), listen |-> Put(<<L, L>>),
   getsockname |-> Put(<<L, D, D>>), getpeername |-> Put(<<L, D, D>>),
   socketpair |-> Case(<<L, L, L, N>>, {Always(4)}), setsockopt |-> Put(<<I, I, I, D, I>>),
   getsockopt |-> Put(<<L, L, L, D, D>>)]

ProcessCalls ==
  [clone |-> Put(<<N, N, N, N, L>>),
   exit |-> Put(<<L>>),
   kill |-> Put(<<I, L>>),
   uname |-> Case(<<N>>, {Always(1)}),
   fcntl |-> Put(<<I, I, I>>),
   fsync |-> Put(<<L>>)]

PathCalls ==
  [truncate |-> Put(<<H, I>>), ftruncate |-> Put(<<L, I>>), getdents |-> Case(<<L, N, L>>, {Always(2)}),
   getcwd |-> Case(<<N, L>>, {Get(1, "nonzero", "block")}), fchdir |-> Put(<<L>>),
   creat |-> Put(<<D, L>>), chdir |-> Put(<<D>>), rmdir |-> Put(<<D>>), rename |-> Put(<<D, D>>),
   mkdir |-> Put(<<D, I>>)]

LinkCalls ==
  [link |-> Put(<<D, D>>), symlink |-> Put(<<D, D>>), unlink |-> Put(<<D>>),
   readlink |-> Case(<<D, N, L>>, {Get(2, "positive", "result")}), chmod |-> Put(<<D, I>>),
   fchmod |-> Put(<<L, I>>), chown |-> Put(<<D, I, I>>), lchown |-> Put(<<D, I, I>>),
   fchown |-> Put(<<L, I, I>>), umask |-> Put(<<I>>)]

ResourceCalls ==
  [gettimeofday |-> Put(<<D, D>>), getrlimit |-> Case(<<L, N>>, {Always(2)}),
   getrusage |-> Case(<<L, N>>, {Always(2)}), sysinfo |-> Case(<<N>>, {Always(1)}),
   times |-> Case(<<N>>, {Always(1)}), getuid |-> Put(<< >>), getgid |-> Put(<< >>),
   geteuid |-> Put(<< >>), getegid |-> Put(<< >>), getppid |-> Put(<< >>), setsid |-> Put(<< >>),
   setuid |-> Put(<<I>>), setgid |-> Put(<<I>>), getpgrp |-> Put(<<I>>), getpgid |-> Put(<<I>>),
   setpgid |-> Put(<<I, I>>)]

IdentityCalls ==
  [setreuid |-> Put(<<I, I>>), setregid |-> Put(<<I, I>>), getgroups |-> Case(<<L, N>>, {Given(2)}),
   setgroups |-> Put(<<L, O>>), setresuid |-> Put(<<I, I, I>>), setresgid |-> Put(<<I, I, I>>),
   getresuid |-> Case(<<N, N, N>>, {Always(1), Always(2), Always(3)}),
   getresgid |-> Case(<<N, N, N>>, {Always(1), Always(2), Always(3)}), getsid |-> Put(<<I>>)]

PendingCalls ==
  [rt_sigsuspend |-> Put(<<D, L>>), rt_sigpending |-> Put(<<D, L>>),
   rt_sigtimedwait |-> Put(<<D, D, D, L>>), rt_sigqueueinfo |-> Put(<<I, I, D>>),
   sigaltstack |-> Case(<<O, N>>, {Given(2)}), utime |-> Put(<<D, RefIn(3)>>),
   personality |-> Put(<<L>>)]

MountCalls ==
  [statfs |-> Case(<<D, N>>, {Always(2)}), fstatfs |-> Case(<<L, N>>, {Always(2)}),
   getpriority |-> Put(<<L, I>>), setpriority |-> Put(<<L, I, L>>), chroot |-> Put(<<D>>),
   mount |-> Put(<<D, D, D, L, RefIn(6)>>), umount2 |-> Put(<<D, L>>), sync |-> Put(<< >>),
   gettid |-> Put(<< >>)]

\* The word itself travels through the object table (FutexShim); here are the
\* six arguments.  The address of arg8 is stored into arg5 even if uaddr2 is
\* NULL, and so is a zero into arg8.
FutexCalls ==
  [futex |-> Put(<<L, L, L, RefIn(7), Pointer(8), I>>),
   sched_getaffinity |-> Case(<<I, L, H>>, {Get(3, "always", "fixed")}),
   getdents64 |-> Case(<<I, N, I>>, {Get(2, "nonzero", "result")}),
   set_tid_address |-> Put(<<L>>),
   clock_gettime |-> Case(<<I, N>>, {Always(2)}),
   clock_getres |-> Case(<<I, N>>, {Given(2)}),
   exit_group |-> Put(<<L>>)]

AtCalls ==
  [epoll_ctl |-> Put(<<I, I, I, RefIn(5)>>),
   utimes |-> Put(<<D, RefIn(3)>>),
   openat |-> Put(<<L, D, L, Copy(3)>>),
   fchownat |-> Put(<<L, D, I, I, L>>),
   futimesat |-> Put(<<L, D, RefIn(4)>>)]

LookupCalls ==
  [newfstatat |-> Case(<<L, D, N, L>>, {Always(3)}),
   unlinkat |-> Put(<<L, D, L>>),
   readlinkat |-> Case(<<L, D, N, L>>, {Get(3, "succeeded", "result")}),
   fchmodat |-> Put(<<L, D, I, L>>),
   faccessat |-> Put(<<L, D, L, L>>)]

\* The heap blocks of pselect6 are buffers 9, 10 and 11, as arg9, arg10 and
\* arg11 in the code; the mask's address is stored into arg5, not arg6.
WaitCalls ==
  [pselect6 |-> Put(<<N, RefIn(7), RefHead(8), RefIn(9), RefIn(10), Item("stray", 11, 0)>>),
   utimensat |-> Put(<<L, RefIn(5), RefIn(6), L>>),
   epoll_pwait |-> Case(<<I, N, I, I, O, L>>, {Get(2, "positive", "result")})]

RecentCalls ==
  [fallocate |-> Put(<<L, L, L, L>>),
   accept4 |-> Case(<<I, N, O, I>>, {Get(2, "given", "fixed"), Given(3)}),
   eventfd2 |-> Put(<<I, I>>),
   epoll_create1 |-> Put(<<I>>),
   dup3 |-> Put(<<L, L, L>>),
   pipe2 |-> Case(<<D, I>>, {Always(1)}),
   prlimit64 |-> Case(<<I, L, RefIn(5), Ref(6)>>, {Given(4)}),
   syncfs |-> Put(<<L>>),
   getrandom |-> Case(<<N, L, I>>, {Get(1, "positive", "result")}),
   unsupported |-> Put(<< >>)]

Wrapped ==
  Rows({FileCalls, MemoryCalls, SignalCalls, VectorCalls, PollCalls, TimerCalls, SocketCalls,
        MessageCalls, ProcessCalls, PathCalls, LinkCalls, ResourceCalls, IdentityCalls, PendingCalls,
        MountCalls, FutexCalls, AtCalls, LookupCalls, WaitCalls, RecentCalls})

\* The cases that return without an ocall: their result is what arg0 holds.
Silent == {"rt_sigreturn", "unsupported"}

\* Blocks a call takes from malloc_user: for the sets and the mask of pselect6;
\* when there are many of them, for the blocks of a vector or a message; for a
\* word the object table does not know yet.  And the arguments whose blocks it
\* gives back.
Worded == {"futex", "set_tid_address"}
Scattering == {"readv", "writev", "sendmsg", "recvmsg"}
Allocates(n, nulls, many) ==
  IF n = "pselect6" THEN {4, 5, 6} \ nulls
  ELSE IF ~many THEN {} ELSE IF n \in Worded THEN {1} ELSE {2}
\* Mutant of Frees: the mask's block (arg11) is forgotten.
FreesNotMask(n) == IF n \in {"sendmsg", "recvmsg"} \cup Worded THEN {} ELSE 1..5
Frees(n) == IF n \in {"sendmsg", "recvmsg"} \cup Worded THEN {} ELSE 1..6
=============================================================================
