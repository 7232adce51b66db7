---------------------------- MODULE SyscallUnwrap ----------------------------
(* The cases of ocall_syscall (app/shim_layer/syscall_unwrapper.cpp): what   *)
(* the host passes to the kernel for each argument, read from the buffers of *)
(* the slot.                                                                 *)
EXTENDS Naturals, Sequences, Tables

Arg(how, from) == [how |-> how, from |-> from]

I == Arg("int", 0)        \* *(int*)arg, of the argument's own buffer
L == Arg("long", 0)       \* *(long*)arg
B == Arg("buffer", 0)     \* arg itself
F == Arg("flagged", 0)    \* arg, or NULL if its byte of null_ptr (arg7) is set
Z == Arg("null", 0)       \* NULL
M == Arg("missing", 0)    \* not passed
From(b) == Arg("long", b) \* *(long*)arg of another argument's buffer

HostFiles ==
  [read |-> <<L, B, L>>, write |-> <<L, B, L>>, open |-> <<B, L, L>>, close |-> <<I>>,
   fstat |-> <<L, B>>, poll |-> <<B, L, I>>, lseek |-> <<L, L, M>>, stat |-> <<B, B>>,
   lstat |-> <<B, B>>]

HostMemory ==
  [mmap |-> <<L, L, I, I, I, L>>, mprotect |-> <<L, L, L>>, munmap |-> <<L, L>>, brk |-> <<L>>]

HostSignals ==
  [rt_sigaction |-> <<L, Z, L, M>>, rt_sigprocmask |-> <<I, L, L, L>>, ioctl |-> <<I, L, B>>,
   pread64 |-> <<L, B, L, L>>, pwrite64 |-> <<L, B, L, L>>, readv |-> <<L, B, L>>,
   writev |-> <<L, B, L>>]

HostPolls ==
  [access |-> <<B, L>>, pipe |-> <<B>>, select |-> <<I, F, F, F, F>>, sched_yield |-> << >>,
   mremap |-> <<L, L, L, L, L>>, msync |-> <<L, L, L>>, madvise |-> <<L, L, I>>]

\* Mutant of HostTimers: setitimer's old value goes to arg3 itself.
HostTimersDirect ==
  [dup |-> <<L>>, dup2 |-> <<L, L>>, nanosleep |-> <<L, L>>, alarm |-> <<L>>,
   setitimer |-> <<L, B, B>>, getpid |-> << >>]
HostTimers ==
  [dup |-> <<L>>, dup2 |-> <<L, L>>, nanosleep |-> <<L, L>>, alarm |-> <<L>>,
   setitimer |-> <<L, B, L>>, getpid |-> << >>]

HostSockets ==
  [socket |-> <<L, L, L>>, connect |-> <<L, B, L>>, accept |-> <<L, B, B>>,
   sendto |-> <<I, F, L, I, F, I>>, recvfrom |-> <<I, F, L, I, F, F>>, sendmsg |-> <<L, B, L>>,
   recvmsg |-> <<L, B, L>>, bind |-> <<L, B, L>>, shutdown |-> <<L, L>>, listen |-> <<L, L>>,
   getsockname |-> <<L, B, B>>, getpeername |-> <<L, B, B>>, socketpair |-> <<L, L, L, B>>,
   setsockopt |-> <<I, I, I, B, I>>, getsockopt |-> <<L, L, L, B, B>>]

HostProcesses ==
  [clone |-> <<M, M, M, M, L>>, exit |-> <<L>>, kill |-> <<I, L>>, uname |-> <<B>>,
   fcntl |-> <<I, I, I>>, fsync |-> <<L>>, truncate |-> <<B, I>>, ftruncate |-> <<L, I>>]

HostPaths ==
  [getdents |-> <<L, B, L>>, getcwd |-> <<B, L>>, fchdir |-> <<L>>, mkdir |-> <<B, I>>,
   creat |-> <<B, L>>, readlink |-> <<B, B, L>>, chdir |-> <<B>>, rmdir |-> <<B>>, unlink |-> <<B>>,
   rename |-> <<B, B>>, link |-> <<B, B>>, symlink |-> <<B, B>>]

HostOwners ==
  [chmod |-> <<B, I>>, fchmod |-> <<L, I>>, fchown |-> <<L, I, I>>, umask |-> <<I>>,
   chown |-> <<B, I, I>>, lchown |-> <<B, I, I>>, gettimeofday |-> <<B, B>>, getrlimit |-> <<L, B>>,
   getrusage |-> <<L, B>>, sysinfo |-> <<B>>, times |-> <<B>>]

HostIdentities ==
  [getuid |-> << >>, getgid |-> << >>, geteuid |-> << >>, getegid |-> << >>, getppid |-> << >>,
   setsid |-> << >>, setuid |-> <<L>>, setgid |-> <<L>>, getpgrp |-> <<I>>, getpgid |-> <<I>>,
   getsid |-> <<I>>, setpgid |-> <<L, L>>, setreuid |-> <<I, I>>, setregid |-> <<I, I>>,
   getgroups |-> <<L, B>>, setgroups |-> <<L, B>>, setresuid |-> <<I, I, I>>, setresgid |-> <<I, I, I>>,
   getresuid |-> <<B, B, B>>, getresgid |-> <<B, B, B>>]

HostPending ==
  [rt_sigsuspend |-> <<B, L>>, rt_sigpending |-> <<B, L>>, rt_sigtimedwait |-> <<B, B, B, L>>,
   rt_sigqueueinfo |-> <<L, L, B>>, sigaltstack |-> <<B, B>>, utime |-> <<B, L>>, personality |-> <<L>>,
   statfs |-> <<B, B>>, fstatfs |-> <<L, B>>, getpriority |-> <<L, I>>, setpriority |-> <<L, I, L>>,
   chroot |-> <<B>>]

HostMounts ==
  [mount |-> <<B, B, B, L, L>>, umount2 |-> <<B, L>>, futex |-> <<L, L, L, L, B, From(5)>>,
   sched_getaffinity |-> <<I, L, B>>, set_tid_address |-> <<L>>, sync |-> << >>, gettid |-> << >>]

HostLookups ==
  [clock_gettime |-> <<I, B>>, clock_getres |-> <<I, B>>, exit_group |-> <<L>>,
   epoll_ctl |-> <<I, I, I, L>>, utimes |-> <<B, L>>, openat |-> <<L, B, L, I>>,
   fchownat |-> <<L, B, I, I, L>>, futimesat |-> <<L, B, L>>, unlinkat |-> <<L, B, L>>,
   newfstatat |-> <<L, B, B, L>>, readlinkat |-> <<L, B, B, L>>]

HostWaits ==
  [fchmodat |-> <<L, B, I, L>>, faccessat |-> <<L, B, L, L>>, pselect6 |-> <<I, L, L, L, L, L>>,
   getdents64 |-> <<I, B, I>>, utimensat |-> <<L, L, L, L>>, epoll_pwait |-> <<I, B, I, I, Z, L>>]

HostRecent ==
  [fallocate |-> <<L, L, L, L>>, accept4 |-> <<I, B, B, I>>, eventfd2 |-> <<I, I>>,
   epoll_create1 |-> <<I>>, dup3 |-> <<L, L, L>>, pipe2 |-> <<B, I>>, prlimit64 |-> <<I, L, L, L>>,
   syncfs |-> <<L>>, getrandom |-> <<B, L, I>>]

Unwrapped ==
  Rows({HostFiles, HostMemory, HostSignals, HostPolls, HostTimers, HostSockets, HostProcesses,
        HostPaths, HostOwners, HostIdentities, HostPending, HostMounts, HostLookups, HostWaits,
        HostRecent})

\* sync has no break: the body of mount runs after it, with n still sync.
\* Mutant of Executions: chroot, the case before sync, has no break either.
ExecutionsChroot(n) == IF n \in {"sync", "chroot"} THEN 2 ELSE 1
Executions(n) == IF n = "sync" THEN 2 ELSE 1

\* clone is pthread_create on the host, which reports its failure in its
\* result and need not set errno; the other calls go through the C library.
SetsErrno(n) == n # "clone"
=============================================================================
