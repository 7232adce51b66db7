----------------------------- MODULE MarshalProofs -----------------------------
(***************************************************************************)
(* Theorems about Marshal, for any set of calls the program makes, any     *)
(* counts they may return and any error numbers.  The first half goes      *)
(* through the tables call by call: the case of __syscall_wrap, the case   *)
(* of ocall_syscall and the kernel's prototype agree in a few ways that    *)
(* hold of every call.  The second half follows one call through the slot  *)
(* and uses only that agreement.                                           *)
(***************************************************************************)
EXTENDS Marshal, TLAPS

\* The rows of a call: what its case of the wrapper puts and gets, what its
\* case of the unwrapper reads.
Puts(c)  == Wr!Wrapped[c].put
Gets(c)  == Wr!Wrapped[c].get
Hosts(c) == Un!Unwrapped[c]
Home(c, i) == IF Puts(c)[i].to = 0 THEN i ELSE Puts(c)[i].to
Written(c, i) == Prototype[c][i].is \in Writable
ByAddress == {"ref", "refdata", "refhead"}
Direct == {"nothing", "int", "long", "data", "given", "fixed"}

\* Every item has a buffer of its own, but for the mask of pselect6, whose
\* address is stored over that of the timeout.
Placed(c) ==
  /\ DOMAIN Prototype[c] \subseteq 1..6 /\ DOMAIN Puts(c) \subseteq 1..6
  /\ c = "pselect6" => 5 \in DOMAIN Puts(c)
  /\ c = "ioctl" => 3 \in DOMAIN Puts(c) /\ Puts(c)[3].how = "fixed"
  /\ \A i \in DOMAIN Puts(c) :
       LET it == Puts(c)[i]
       IN /\ it.of \in 0..6 /\ it.to \in {0} \cup 1..11
          /\ it.to \notin DOMAIN Puts(c)
          /\ it.how \in Direct => it.to = 0
          /\ it.how \in ByAddress \cup {"pointer"} => it.to # 0
          /\ it.how \in Direct \cup ByAddress \cup {"pointer", "stray"}
          /\ it.how = "stray" => c = "pselect6" /\ i = 6 /\ it.to # 0
          /\ it.how = "fixed" => c \notin {"futex", "pselect6"}
          /\ \A j \in DOMAIN Puts(c) : it.to # 0 /\ Puts(c)[j].to = it.to => j = i

\* Argument i is put where, and as, the host reads it, or is lost in a way that
\* is listed.
Sure(c, i) == ~Prototype[c][i].null \/ <<c, i>> \in NeverNull
Carried(c, i) ==
  /\ i \in DOMAIN Puts(c) /\ i \in DOMAIN Hosts(c) /\ Puts(c)[i].of = 0 /\ Hosts(c)[i].from = 0
  /\ LET put  == Puts(c)[i].how
         host == Hosts(c)[i].how
         is   == Prototype[c][i].is
         read == is \in {"in", "both", "edit"}
     IN \/ is = "unused"
        \/ is = "int" /\ put \in {"int", "long"} /\ host \in {"int", "long"}
        \/ is = "wide" /\ <<put, host>> \in {<<"int", "int">>, <<"long", "int">>, <<"long", "long">>}
        \/ is = "long" /\ put = "long" /\ host = "long"
        \/ <<c, i>> \in HalfSent /\ put \in {"int", "long"} /\ host \in {"int", "long"}
        \/ <<c, i>> \in FlagsNotSent /\ host = "flagged"
        \/ read /\ put = "data" /\ host = "buffer"
        \/ read /\ put = "given" /\ host = "buffer" /\ Sure(c, i)
        \/ read /\ put = "fixed" /\ host = "buffer" /\ Sure(c, i) /\ <<c, i>> \in CutShort
        \/ read /\ put = "refdata" /\ host = "long"
        \/ <<c, i>> = <<"pselect6", 3>> /\ put = "refhead" /\ host = "long" /\ read
        \/ ~read /\ is \in Writable /\ host = "buffer" /\ (put = "data" \/ Sure(c, i))
        \/ ~read /\ is \in Writable /\ put \in ByAddress /\ host = "long"

\* The kernel is pointed at the buffer where the result is looked for, or at none.
Aimed(c, i) ==
  /\ i \in DOMAIN Puts(c) /\ i \in DOMAIN Hosts(c) /\ Hosts(c)[i].from = 0
  /\ \/ Puts(c)[i].to = 0 /\ Hosts(c)[i].how \in {"buffer", "flagged"}
     \/ /\ Puts(c)[i].how \in ByAddress /\ Puts(c)[i].of = 0 /\ Hosts(c)[i].how = "long"
        /\ ~ (c = "pselect6" /\ i = 5)
  /\ Hosts(c)[i].how = "flagged" /\ Prototype[c][i].is = "some" => c = "recvfrom" /\ i = 2

\* What the kernel fills in i is copied back, but for what is listed.
Fetched(c, i) ==
  /\ \E g \in Gets(c) :
       /\ g.arg = i
       /\ \/ g.when \in {"always", "given"}
          \/ g.when = "succeeded" /\ c # "nanosleep"
          \/ g.when \in {"positive", "nonzero"} /\ Prototype[c][i].is = "some"
  /\ \A g \in Gets(c) : g.arg = i =>
       \/ g.len \in {"block", "longer"}
       \/ g.len = "result" /\ Prototype[c][i].is = "some"
       \/ g.len = "head" /\ c = "rt_sigaction"
       \/ g.len = "fixed" /\ <<c, i>> \in FetchedCut
       \/ g.len = "message" /\ c = "recvmsg"
  /\ Hosts(c)[i].how = "flagged" => Prototype[c][i].is = "some" \/ <<c, i>> \in {"select"} \X (2..4)

\* A copy back is of what the kernel has filled when it succeeds, or of what the
\* program itself has put.
Timely(c, g) ==
  /\ g.arg \in Pointers(c) /\ Written(c, g.arg) /\ c \notin {"futex", "pselect6"}
  /\ LET put == Puts(c)[g.arg]
         is  == Prototype[c][g.arg].is
     IN \/ c \in Brief
        \/ is \in {"out", "both"} /\ g.len \in {"block", "head"} /\ Hosts(c)[g.arg].how # "flagged"
        \/ is = "some" /\ g.len = "result"
        \/ put.how \in {"data", "given", "refdata"} /\ put.of = 0 /\ g.len = "block"
        \/ put.how = "fixed" /\ put.of = 0 /\ g.len = "fixed"

\* Its length is that of the block, or a result known to be positive, or listed.
Measured(c, g) ==
  \/ c = "fstat" /\ g.len # "result"
  \/ g.len \in {"block", "head", "message"}
  \/ g.len = "fixed" /\ c \in {"ioctl", "accept4", "sched_getaffinity"}
  \/ /\ g.len = "result" /\ c \notin {"ioctl", "truncate", "accept4", "sched_getaffinity"}
     /\ g.when = "positive" \/ c \in {"pread64", "getdents64", "readlinkat"}

\* A pointer that may be NULL is looked at before its block is read or written.
Careful(c) ==
  /\ \A i \in DOMAIN Puts(c) \cap Nullable(c) :
       Puts(c)[i].how = "data" => c \in {"accept", "gettimeofday", "rt_sigtimedwait", "mount"}
  /\ \A g \in Gets(c) :
       g.arg \in Nullable(c) /\ g.when # "given" =>
         c = "times" \/ (c = "recvfrom" /\ g.arg = 2 /\ g.when = "positive")

\* The two halves of a call agree on what is sent and on what comes back.
Sent(c, i) == Carried(c, i) \/ <<c, i>> \in LostAlways \/ c \in Wr!Silent
Sends(c) ==
  /\ Placed(c)
  /\ \A i \in DOMAIN Prototype[c] : Sent(c, i) /\ (Written(c, i) => Aimed(c, i))
Fetches(c) ==
  \A i \in DOMAIN Prototype[c] : Written(c, i) => Fetched(c, i) \/ <<c, i>> \in NotFetched
Copies(c) == \A g \in Gets(c) : Timely(c, g) /\ Measured(c, g)
Agree(c) == Sends(c) /\ Fetches(c) /\ Copies(c) /\ Careful(c)

-----------------------------------------------------------------------------
\* The fields of the tables' letters.
ItemIs(it, how, to, of) == it.how = how /\ it.to = to /\ it.of = of
ReadIs(h, how, from)    == h.how = how /\ h.from = from
ArgIs(a, is, null)      == a.is = is /\ a.null = null
CopyIs(g, arg, when, len) == g.arg = arg /\ g.when = when /\ g.len = len
LEMMA Fields ==
  /\ ItemIs(Wr!N, "nothing", 0, 0) /\ ItemIs(Wr!I, "int", 0, 0) /\ ItemIs(Wr!L, "long", 0, 0)
  /\ ItemIs(Wr!D, "data", 0, 0) /\ ItemIs(Wr!O, "given", 0, 0) /\ ItemIs(Wr!H, "fixed", 0, 0)
  /\ \A b : /\ ItemIs(Wr!Ref(b), "ref", b, 0) /\ ItemIs(Wr!RefIn(b), "refdata", b, 0)
            /\ ItemIs(Wr!RefHead(b), "refhead", b, 0) /\ ItemIs(Wr!Copy(b), "int", 0, b)
            /\ ItemIs(Wr!Pointer(b), "pointer", b, 0)
  /\ \A how, to, of : ItemIs(Wr!Item(how, to, of), how, to, of)
  /\ ReadIs(Un!I, "int", 0) /\ ReadIs(Un!L, "long", 0) /\ ReadIs(Un!B, "buffer", 0)
  /\ ReadIs(Un!F, "flagged", 0) /\ ReadIs(Un!Z, "null", 0) /\ ReadIs(Un!M, "missing", 0)
  /\ \A b : ReadIs(Un!From(b), "long", b)
  /\ ArgIs(I, "int", FALSE) /\ ArgIs(X, "wide", FALSE) /\ ArgIs(L, "long", FALSE)
  /\ ArgIs(U, "unused", FALSE) /\ ArgIs(R, "in", FALSE) /\ ArgIs(W, "out", FALSE)
  /\ ArgIs(B, "both", FALSE) /\ ArgIs(C, "some", FALSE) /\ ArgIs(E, "edit", FALSE)
  /\ ArgIs(P, "front", FALSE) /\ ArgIs(V, "upto", FALSE)
  /\ ArgIs(Maybe(R), "in", TRUE) /\ ArgIs(Maybe(W), "out", TRUE)
  /\ ArgIs(Maybe(B), "both", TRUE) /\ ArgIs(Maybe(C), "some", TRUE)
  /\ ArgIs(Maybe(E), "edit", TRUE) /\ ArgIs(Maybe(P), "front", TRUE) /\ ArgIs(Maybe(V), "upto", TRUE)
  /\ \A arg, when, len : CopyIs(Wr!Get(arg, when, len), arg, when, len)
  /\ \A arg : /\ CopyIs(Wr!Always(arg), arg, "always", "block")
              /\ CopyIs(Wr!Given(arg), arg, "given", "block")
  BY DEF ItemIs, Wr!N, Wr!I, Wr!L, Wr!D, Wr!O, Wr!H, Wr!Item, Wr!Ref, Wr!RefIn, Wr!RefHead, Wr!Copy, Wr!Pointer,
         ReadIs, Un!I, Un!L, Un!B, Un!F, Un!Z, Un!M, Un!From, Un!Arg,
         ArgIs, I, X, L, U, R, W, B, C, E, P, V, Maybe, CopyIs, Wr!Get, Wr!Always, Wr!Given

-----------------------------------------------------------------------------
\* Which calls the groups of the tables have, and that a table has their rows.
LEMMA WrapperNames ==
  /\ DOMAIN Wr!FileCalls = {"read", "write", "open", "close", "stat", "lstat", "fstat", "poll",
        "lseek"}
  /\ DOMAIN Wr!MemoryCalls = {"mmap", "mprotect", "munmap", "brk"}
  /\ DOMAIN Wr!SignalCalls = {"rt_sigaction", "rt_sigprocmask", "rt_sigreturn"}
  /\ DOMAIN Wr!VectorCalls = {"ioctl", "pread64", "pwrite64", "readv", "writev"}
  /\ DOMAIN Wr!PollCalls = {"access", "pipe", "select", "sched_yield", "mremap", "msync",
        "madvise"}
  /\ DOMAIN Wr!TimerCalls = {"dup", "dup2", "nanosleep", "alarm", "setitimer", "getpid"}
  /\ DOMAIN Wr!SocketCalls = {"socket", "connect", "accept", "sendto", "recvfrom"}
  /\ DOMAIN Wr!MessageCalls = {"sendmsg", "recvmsg", "shutdown", "bind", "listen", "getsockname",
        "getpeername", "socketpair", "setsockopt", "getsockopt"}
  /\ DOMAIN Wr!ProcessCalls = {"clone", "exit", "kill", "uname", "fcntl", "fsync"}
  /\ DOMAIN Wr!PathCalls = {"truncate", "ftruncate", "getdents", "getcwd", "fchdir", "creat",
        "chdir", "rmdir", "rename", "mkdir"}
  /\ DOMAIN Wr!LinkCalls = {"link", "symlink", "unlink", "readlink", "chmod", "fchmod", "chown",
        "lchown", "fchown", "umask"}
  /\ DOMAIN Wr!ResourceCalls = {"gettimeofday", "getrlimit", "getrusage", "sysinfo", "times",
        "getuid", "getgid", "geteuid", "getegid", "getppid", "setsid", "setuid", "setgid",
        "getpgrp", "getpgid", "setpgid"}
  /\ DOMAIN Wr!IdentityCalls = {"setreuid", "setregid", "getgroups", "setgroups", "setresuid",
        "setresgid", "getresuid", "getresgid", "getsid"}
  /\ DOMAIN Wr!PendingCalls = {"rt_sigsuspend", "rt_sigpending", "rt_sigtimedwait",
        "rt_sigqueueinfo", "sigaltstack", "utime", "personality"}
  /\ DOMAIN Wr!MountCalls = {"statfs", "fstatfs", "getpriority", "setpriority", "chroot", "mount",
        "umount2", "sync", "gettid"}
  /\ DOMAIN Wr!FutexCalls = {"futex", "sched_getaffinity", "getdents64", "set_tid_address",
        "clock_gettime", "clock_getres", "exit_group"}
  /\ DOMAIN Wr!AtCalls = {"epoll_ctl", "utimes", "openat", "fchownat", "futimesat"}
  /\ DOMAIN Wr!LookupCalls = {"newfstatat", "unlinkat", "readlinkat", "fchmodat", "faccessat"}
  /\ DOMAIN Wr!WaitCalls = {"pselect6", "utimensat", "epoll_pwait"}
  /\ DOMAIN Wr!RecentCalls = {"fallocate", "accept4", "eventfd2", "epoll_create1", "dup3",
        "pipe2", "prlimit64", "syncfs", "getrandom", "unsupported"}
<1>1. DOMAIN Wr!FileCalls = {"read", "write", "open", "close", "stat", "lstat", "fstat", "poll",
      "lseek"}
  BY DEF Wr!FileCalls
<1>2. DOMAIN Wr!MemoryCalls = {"mmap", "mprotect", "munmap", "brk"}
  BY DEF Wr!MemoryCalls
<1>3. DOMAIN Wr!SignalCalls = {"rt_sigaction", "rt_sigprocmask", "rt_sigreturn"}
  BY DEF Wr!SignalCalls
<1>4. DOMAIN Wr!VectorCalls = {"ioctl", "pread64", "pwrite64", "readv", "writev"}
  BY DEF Wr!VectorCalls
<1>5. DOMAIN Wr!PollCalls = {"access", "pipe", "select", "sched_yield", "mremap", "msync",
      "madvise"}
  BY DEF Wr!PollCalls
<1>6. DOMAIN Wr!TimerCalls = {"dup", "dup2", "nanosleep", "alarm", "setitimer", "getpid"}
  BY DEF Wr!TimerCalls
<1>7. DOMAIN Wr!SocketCalls = {"socket", "connect", "accept", "sendto", "recvfrom"}
  BY DEF Wr!SocketCalls
<1>8. DOMAIN Wr!MessageCalls = {"sendmsg", "recvmsg", "shutdown", "bind", "listen",
      "getsockname", "getpeername", "socketpair", "setsockopt", "getsockopt"}
  BY DEF Wr!MessageCalls
<1>9. DOMAIN Wr!ProcessCalls = {"clone", "exit", "kill", "uname", "fcntl", "fsync"}
  BY DEF Wr!ProcessCalls
<1>10. DOMAIN Wr!PathCalls = {"truncate", "ftruncate", "getdents", "getcwd", "fchdir", "creat",
      "chdir", "rmdir", "rename", "mkdir"}
  BY DEF Wr!PathCalls
<1>11. DOMAIN Wr!LinkCalls = {"link", "symlink", "unlink", "readlink", "chmod", "fchmod",
      "chown", "lchown", "fchown", "umask"}
  BY DEF Wr!LinkCalls
<1>12. DOMAIN Wr!ResourceCalls = {"gettimeofday", "getrlimit", "getrusage", "sysinfo", "times",
      "getuid", "getgid", "geteuid", "getegid", "getppid", "setsid", "setuid", "setgid",
      "getpgrp", "getpgid", "setpgid"}
  BY DEF Wr!ResourceCalls
<1>13. DOMAIN Wr!IdentityCalls = {"setreuid", "setregid", "getgroups", "setgroups", "setresuid",
      "setresgid", "getresuid", "getresgid", "getsid"}
  BY DEF Wr!IdentityCalls
<1>14. DOMAIN Wr!PendingCalls = {"rt_sigsuspend", "rt_sigpending", "rt_sigtimedwait",
      "rt_sigqueueinfo", "sigaltstack", "utime", "personality"}
  BY DEF Wr!PendingCalls
<1>15. DOMAIN Wr!MountCalls = {"statfs", "fstatfs", "getpriority", "setpriority", "chroot",
      "mount", "umount2", "sync", "gettid"}
  BY DEF Wr!MountCalls
<1>16. DOMAIN Wr!FutexCalls = {"futex", "sched_getaffinity", "getdents64", "set_tid_address",
      "clock_gettime", "clock_getres", "exit_group"}
  BY DEF Wr!FutexCalls
<1>17. DOMAIN Wr!AtCalls = {"epoll_ctl", "utimes", "openat", "fchownat", "futimesat"}
  BY DEF Wr!AtCalls
<1>18. DOMAIN Wr!LookupCalls = {"newfstatat", "unlinkat", "readlinkat", "fchmodat", "faccessat"}
  BY DEF Wr!LookupCalls
<1>19. DOMAIN Wr!WaitCalls = {"pselect6", "utimensat", "epoll_pwait"}
  BY DEF Wr!WaitCalls
<1>20. DOMAIN Wr!RecentCalls = {"fallocate", "accept4", "eventfd2", "epoll_create1", "dup3",
      "pipe2", "prlimit64", "syncfs", "getrandom", "unsupported"}
  BY DEF Wr!RecentCalls
<1> QED
  BY <1>1, <1>2, <1>3, <1>4, <1>5, <1>6, <1>7, <1>8, <1>9, <1>10, <1>11, <1>12, <1>13, <1>14,
       <1>15, <1>16, <1>17, <1>18, <1>19, <1>20

LEMMA WrapperRows ==
  \A c :
    /\ c \in DOMAIN Wr!FileCalls => Wr!Wrapped[c] = Wr!FileCalls[c]
    /\ c \in DOMAIN Wr!MemoryCalls => Wr!Wrapped[c] = Wr!MemoryCalls[c]
    /\ c \in DOMAIN Wr!SignalCalls => Wr!Wrapped[c] = Wr!SignalCalls[c]
    /\ c \in DOMAIN Wr!VectorCalls => Wr!Wrapped[c] = Wr!VectorCalls[c]
    /\ c \in DOMAIN Wr!PollCalls => Wr!Wrapped[c] = Wr!PollCalls[c]
    /\ c \in DOMAIN Wr!TimerCalls => Wr!Wrapped[c] = Wr!TimerCalls[c]
    /\ c \in DOMAIN Wr!SocketCalls => Wr!Wrapped[c] = Wr!SocketCalls[c]
    /\ c \in DOMAIN Wr!MessageCalls => Wr!Wrapped[c] = Wr!MessageCalls[c]
    /\ c \in DOMAIN Wr!ProcessCalls => Wr!Wrapped[c] = Wr!ProcessCalls[c]
    /\ c \in DOMAIN Wr!PathCalls => Wr!Wrapped[c] = Wr!PathCalls[c]
    /\ c \in DOMAIN Wr!LinkCalls => Wr!Wrapped[c] = Wr!LinkCalls[c]
    /\ c \in DOMAIN Wr!ResourceCalls => Wr!Wrapped[c] = Wr!ResourceCalls[c]
    /\ c \in DOMAIN Wr!IdentityCalls => Wr!Wrapped[c] = Wr!IdentityCalls[c]
    /\ c \in DOMAIN Wr!PendingCalls => Wr!Wrapped[c] = Wr!PendingCalls[c]
    /\ c \in DOMAIN Wr!MountCalls => Wr!Wrapped[c] = Wr!MountCalls[c]
    /\ c \in DOMAIN Wr!FutexCalls => Wr!Wrapped[c] = Wr!FutexCalls[c]
    /\ c \in DOMAIN Wr!AtCalls => Wr!Wrapped[c] = Wr!AtCalls[c]
    /\ c \in DOMAIN Wr!LookupCalls => Wr!Wrapped[c] = Wr!LookupCalls[c]
    /\ c \in DOMAIN Wr!WaitCalls => Wr!Wrapped[c] = Wr!WaitCalls[c]
    /\ c \in DOMAIN Wr!RecentCalls => Wr!Wrapped[c] = Wr!RecentCalls[c]
<1> DEFINE T == {Wr!FileCalls, Wr!MemoryCalls, Wr!SignalCalls, Wr!VectorCalls,
                Wr!PollCalls, Wr!TimerCalls, Wr!SocketCalls, Wr!MessageCalls,
                Wr!ProcessCalls, Wr!PathCalls, Wr!LinkCalls, Wr!ResourceCalls,
                Wr!IdentityCalls, Wr!PendingCalls, Wr!MountCalls, Wr!FutexCalls,
                Wr!AtCalls, Wr!LookupCalls, Wr!WaitCalls, Wr!RecentCalls}
<1> SUFFICES ASSUME NEW f \in T, NEW c \in DOMAIN f PROVE Wr!Wrapped[c] = f[c]
  OBVIOUS
<1>1. Wr!Wrapped = Wr!Rows(T)
  BY DEF Wr!Wrapped
<1>2. \A g \in T : c \in DOMAIN g => g = f
  <2>1. CASE f = Wr!FileCalls
    BY <2>1, WrapperNames, SMTT(40)
  <2>2. CASE f = Wr!MemoryCalls
    BY <2>2, WrapperNames, SMTT(40)
  <2>3. CASE f = Wr!SignalCalls
    BY <2>3, WrapperNames, SMTT(40)
  <2>4. CASE f = Wr!VectorCalls
    BY <2>4, WrapperNames, SMTT(40)
  <2>5. CASE f = Wr!PollCalls
    BY <2>5, WrapperNames, SMTT(40)
  <2>6. CASE f = Wr!TimerCalls
    BY <2>6, WrapperNames, SMTT(40)
  <2>7. CASE f = Wr!SocketCalls
    BY <2>7, WrapperNames, SMTT(40)
  <2>8. CASE f = Wr!MessageCalls
    BY <2>8, WrapperNames, SMTT(40)
  <2>9. CASE f = Wr!ProcessCalls
    BY <2>9, WrapperNames, SMTT(40)
  <2>10. CASE f = Wr!PathCalls
    BY <2>10, WrapperNames, SMTT(40)
  <2>11. CASE f = Wr!LinkCalls
    BY <2>11, WrapperNames, SMTT(40)
  <2>12. CASE f = Wr!ResourceCalls
    BY <2>12, WrapperNames, SMTT(40)
  <2>13. CASE f = Wr!IdentityCalls
    BY <2>13, WrapperNames, SMTT(40)
  <2>14. CASE f = Wr!PendingCalls
    BY <2>14, WrapperNames, SMTT(40)
  <2>15. CASE f = Wr!MountCalls
    BY <2>15, WrapperNames, SMTT(40)
  <2>16. CASE f = Wr!FutexCalls
    BY <2>16, WrapperNames, SMTT(40)
  <2>17. CASE f = Wr!AtCalls
    BY <2>17, WrapperNames, SMTT(40)
  <2>18. CASE f = Wr!LookupCalls
    BY <2>18, WrapperNames, SMTT(40)
  <2>19. CASE f = Wr!WaitCalls
    BY <2>19, WrapperNames, SMTT(40)
  <2>20. CASE f = Wr!RecentCalls
    BY <2>20, WrapperNames, SMTT(40)
  <2> QED
    BY <2>1, <2>2, <2>3, <2>4, <2>5, <2>6, <2>7, <2>8, <2>9, <2>10, <2>11, <2>12, <2>13, <2>14,
           <2>15, <2>16, <2>17, <2>18, <2>19, <2>20
<1> HIDE DEF T
<1> QED
  BY <1>1, <1>2 DEF Wr!Rows

LEMMA HostNames ==
  /\ DOMAIN Un!HostFiles = {"read", "write", "open", "close", "fstat", "poll", "lseek", "stat",
        "lstat"}
  /\ DOMAIN Un!HostMemory = {"mmap", "mprotect", "munmap", "brk"}
  /\ DOMAIN Un!HostSignals = {"rt_sigaction", "rt_sigprocmask", "ioctl", "pread64", "pwrite64",
        "readv", "writev"}
  /\ DOMAIN Un!HostPolls = {"access", "pipe", "select", "sched_yield", "mremap", "msync",
        "madvise"}
  /\ DOMAIN Un!HostTimers = {"dup", "dup2", "nanosleep", "alarm", "setitimer", "getpid"}
  /\ DOMAIN Un!HostSockets = {"socket", "connect", "accept", "sendto", "recvfrom", "sendmsg",
        "recvmsg", "bind", "shutdown", "listen", "getsockname", "getpeername", "socketpair",
        "setsockopt", "getsockopt"}
  /\ DOMAIN Un!HostProcesses = {"clone", "exit", "kill", "uname", "fcntl", "fsync", "truncate",
        "ftruncate"}
  /\ DOMAIN Un!HostPaths = {"getdents", "getcwd", "fchdir", "mkdir", "creat", "readlink", "chdir",
        "rmdir", "unlink", "rename", "link", "symlink"}
  /\ DOMAIN Un!HostOwners = {"chmod", "fchmod", "fchown", "umask", "chown", "lchown",
        "gettimeofday", "getrlimit", "getrusage", "sysinfo", "times"}
  /\ DOMAIN Un!HostIdentities = {"getuid", "getgid", "geteuid", "getegid", "getppid", "setsid",
        "setuid", "setgid", "getpgrp", "getpgid", "getsid", "setpgid", "setreuid", "setregid",
        "getgroups", "setgroups", "setresuid", "setresgid", "getresuid", "getresgid"}
  /\ DOMAIN Un!HostPending = {"rt_sigsuspend", "rt_sigpending", "rt_sigtimedwait",
        "rt_sigqueueinfo", "sigaltstack", "utime", "personality", "statfs", "fstatfs",
        "getpriority", "setpriority", "chroot"}
  /\ DOMAIN Un!HostMounts = {"mount", "umount2", "futex", "sched_getaffinity", "set_tid_address",
        "sync", "gettid"}
  /\ DOMAIN Un!HostLookups = {"clock_gettime", "clock_getres", "exit_group", "epoll_ctl",
        "utimes", "openat", "fchownat", "futimesat", "unlinkat", "newfstatat", "readlinkat"}
  /\ DOMAIN Un!HostWaits = {"fchmodat", "faccessat", "pselect6", "getdents64", "utimensat",
        "epoll_pwait"}
  /\ DOMAIN Un!HostRecent = {"fallocate", "accept4", "eventfd2", "epoll_create1", "dup3", "pipe2",
        "prlimit64", "syncfs", "getrandom"}
<1>1. DOMAIN Un!HostFiles = {"read", "write", "open", "close", "fstat", "poll", "lseek", "stat",
      "lstat"}
  BY DEF Un!HostFiles
<1>2. DOMAIN Un!HostMemory = {"mmap", "mprotect", "munmap", "brk"}
  BY DEF Un!HostMemory
<1>3. DOMAIN Un!HostSignals = {"rt_sigaction", "rt_sigprocmask", "ioctl", "pread64", "pwrite64",
      "readv", "writev"}
  BY DEF Un!HostSignals
<1>4. DOMAIN Un!HostPolls = {"access", "pipe", "select", "sched_yield", "mremap", "msync",
      "madvise"}
  BY DEF Un!HostPolls
<1>5. DOMAIN Un!HostTimers = {"dup", "dup2", "nanosleep", "alarm", "setitimer", "getpid"}
  BY DEF Un!HostTimers
<1>6. DOMAIN Un!HostSockets = {"socket", "connect", "accept", "sendto", "recvfrom", "sendmsg",
      "recvmsg", "bind", "shutdown", "listen", "getsockname", "getpeername", "socketpair",
      "setsockopt", "getsockopt"}
  BY DEF Un!HostSockets
<1>7. DOMAIN Un!HostProcesses = {"clone", "exit", "kill", "uname", "fcntl", "fsync", "truncate",
      "ftruncate"}
  BY DEF Un!HostProcesses
<1>8. DOMAIN Un!HostPaths = {"getdents", "getcwd", "fchdir", "mkdir", "creat", "readlink",
      "chdir", "rmdir", "unlink", "rename", "link", "symlink"}
  BY DEF Un!HostPaths
<1>9. DOMAIN Un!HostOwners = {"chmod", "fchmod", "fchown", "umask", "chown", "lchown",
      "gettimeofday", "getrlimit", "getrusage", "sysinfo", "times"}
  BY DEF Un!HostOwners
<1>10. DOMAIN Un!HostIdentities = {"getuid", "getgid", "geteuid", "getegid", "getppid",
      "setsid", "setuid", "setgid", "getpgrp", "getpgid", "getsid", "setpgid", "setreuid",
      "setregid", "getgroups", "setgroups", "setresuid", "setresgid", "getresuid", "getresgid"}
  BY DEF Un!HostIdentities
<1>11. DOMAIN Un!HostPending = {"rt_sigsuspend", "rt_sigpending", "rt_sigtimedwait",
      "rt_sigqueueinfo", "sigaltstack", "utime", "personality", "statfs", "fstatfs",
      "getpriority", "setpriority", "chroot"}
  BY DEF Un!HostPending
<1>12. DOMAIN Un!HostMounts = {"mount", "umount2", "futex", "sched_getaffinity",
      "set_tid_address", "sync", "gettid"}
  BY DEF Un!HostMounts
<1>13. DOMAIN Un!HostLookups = {"clock_gettime", "clock_getres", "exit_group", "epoll_ctl",
      "utimes", "openat", "fchownat", "futimesat", "unlinkat", "newfstatat", "readlinkat"}
  BY DEF Un!HostLookups
<1>14. DOMAIN Un!HostWaits = {"fchmodat", "faccessat", "pselect6", "getdents64", "utimensat",
      "epoll_pwait"}
  BY DEF Un!HostWaits
<1>15. DOMAIN Un!HostRecent = {"fallocate", "accept4", "eventfd2", "epoll_create1", "dup3",
      "pipe2", "prlimit64", "syncfs", "getrandom"}
  BY DEF Un!HostRecent
<1> QED
  BY <1>1, <1>2, <1>3, <1>4, <1>5, <1>6, <1>7, <1>8, <1>9, <1>10, <1>11, <1>12, <1>13, <1>14,
       <1>15

LEMMA HostRows ==
  \A c :
    /\ c \in DOMAIN Un!HostFiles => Un!Unwrapped[c] = Un!HostFiles[c]
    /\ c \in DOMAIN Un!HostMemory => Un!Unwrapped[c] = Un!HostMemory[c]
    /\ c \in DOMAIN Un!HostSignals => Un!Unwrapped[c] = Un!HostSignals[c]
    /\ c \in DOMAIN Un!HostPolls => Un!Unwrapped[c] = Un!HostPolls[c]
    /\ c \in DOMAIN Un!HostTimers => Un!Unwrapped[c] = Un!HostTimers[c]
    /\ c \in DOMAIN Un!HostSockets => Un!Unwrapped[c] = Un!HostSockets[c]
    /\ c \in DOMAIN Un!HostProcesses => Un!Unwrapped[c] = Un!HostProcesses[c]
    /\ c \in DOMAIN Un!HostPaths => Un!Unwrapped[c] = Un!HostPaths[c]
    /\ c \in DOMAIN Un!HostOwners => Un!Unwrapped[c] = Un!HostOwners[c]
    /\ c \in DOMAIN Un!HostIdentities => Un!Unwrapped[c] = Un!HostIdentities[c]
    /\ c \in DOMAIN Un!HostPending => Un!Unwrapped[c] = Un!HostPending[c]
    /\ c \in DOMAIN Un!HostMounts => Un!Unwrapped[c] = Un!HostMounts[c]
    /\ c \in DOMAIN Un!HostLookups => Un!Unwrapped[c] = Un!HostLookups[c]
    /\ c \in DOMAIN Un!HostWaits => Un!Unwrapped[c] = Un!HostWaits[c]
    /\ c \in DOMAIN Un!HostRecent => Un!Unwrapped[c] = Un!HostRecent[c]
<1> DEFINE T == {Un!HostFiles, Un!HostMemory, Un!HostSignals, Un!HostPolls,
                Un!HostTimers, Un!HostSockets, Un!HostProcesses, Un!HostPaths,
                Un!HostOwners, Un!HostIdentities, Un!HostPending, Un!HostMounts,
                Un!HostLookups, Un!HostWaits, Un!HostRecent}
<1> SUFFICES ASSUME NEW f \in T, NEW c \in DOMAIN f PROVE Un!Unwrapped[c] = f[c]
  OBVIOUS
<1>1. Un!Unwrapped = Un!Rows(T)
  BY DEF Un!Unwrapped
<1>2. \A g \in T : c \in DOMAIN g => g = f
  <2>1. CASE f = Un!HostFiles
    BY <2>1, HostNames, SMTT(40)
  <2>2. CASE f = Un!HostMemory
    BY <2>2, HostNames, SMTT(40)
  <2>3. CASE f = Un!HostSignals
    BY <2>3, HostNames, SMTT(40)
  <2>4. CASE f = Un!HostPolls
    BY <2>4, HostNames, SMTT(40)
  <2>5. CASE f = Un!HostTimers
    BY <2>5, HostNames, SMTT(40)
  <2>6. CASE f = Un!HostSockets
    BY <2>6, HostNames, SMTT(40)
  <2>7. CASE f = Un!HostProcesses
    BY <2>7, HostNames, SMTT(40)
  <2>8. CASE f = Un!HostPaths
    BY <2>8, HostNames, SMTT(40)
  <2>9. CASE f = Un!HostOwners
    BY <2>9, HostNames, SMTT(40)
  <2>10. CASE f = Un!HostIdentities
    BY <2>10, HostNames, SMTT(40)
  <2>11. CASE f = Un!HostPending
    BY <2>11, HostNames, SMTT(40)
  <2>12. CASE f = Un!HostMounts
    BY <2>12, HostNames, SMTT(40)
  <2>13. CASE f = Un!HostLookups
    BY <2>13, HostNames, SMTT(40)
  <2>14. CASE f = Un!HostWaits
    BY <2>14, HostNames, SMTT(40)
  <2>15. CASE f = Un!HostRecent
    BY <2>15, HostNames, SMTT(40)
  <2> QED
    BY <2>1, <2>2, <2>3, <2>4, <2>5, <2>6, <2>7, <2>8, <2>9, <2>10, <2>11, <2>12, <2>13, <2>14,
           <2>15
<1> HIDE DEF T
<1> QED
  BY <1>1, <1>2 DEF Un!Rows

LEMMA KernelNames ==
  /\ DOMAIN Plain = {"rt_sigreturn", "sched_yield", "getpid", "getuid", "getgid", "geteuid",
        "getegid", "getppid", "getpgrp", "setsid", "sync", "gettid", "close", "dup", "alarm",
        "exit", "fsync", "fchdir", "umask", "setuid", "setgid", "getpgid", "getsid", "exit_group",
        "epoll_create1", "syncfs", "unsupported", "brk", "personality", "set_tid_address"}
  /\ DOMAIN Numbers = {"dup2", "shutdown", "listen", "kill", "fchmod", "setpgid", "setreuid",
        "setregid", "getpriority", "eventfd2", "socket", "fchown", "setresuid", "setresgid",
        "setpriority", "dup3", "munmap", "mprotect", "msync", "madvise", "mremap", "mmap",
        "lseek", "fcntl", "ftruncate", "fallocate", "clone"}
  /\ DOMAIN Pathed = {"chdir", "rmdir", "unlink", "chroot", "rename", "link", "symlink", "access",
        "mkdir", "creat", "chmod", "umount2", "chown", "lchown", "open", "stat", "lstat",
        "statfs", "utime", "utimes", "unlinkat", "fchmodat", "faccessat", "truncate", "readlink",
        "openat", "fchownat", "futimesat", "newfstatat", "readlinkat", "utimensat", "mount",
        "getcwd"}
  /\ DOMAIN Blocks = {"fstat", "fstatfs", "getrlimit", "getrusage", "clock_gettime", "getdents",
        "getdents64", "getresuid", "getresgid", "uname", "sysinfo", "pipe", "connect", "bind",
        "getsockname", "getpeername", "read", "write", "pread64", "pwrite64", "readv", "writev",
        "poll"}
  /\ DOMAIN Choices = {"ioctl", "select", "pselect6", "clock_getres", "times", "gettimeofday",
        "nanosleep", "setitimer", "rt_sigaction", "rt_sigprocmask", "rt_sigsuspend",
        "rt_sigpending", "rt_sigtimedwait", "rt_sigqueueinfo", "sigaltstack", "getgroups",
        "setgroups", "prlimit64", "sched_getaffinity", "pipe2", "getrandom", "futex", "epoll_ctl",
        "epoll_pwait"}
  /\ DOMAIN Sockets = {"accept", "accept4", "sendto", "recvfrom", "sendmsg", "recvmsg",
        "socketpair", "setsockopt", "getsockopt"}
<1>1. DOMAIN Plain = {"rt_sigreturn", "sched_yield", "getpid", "getuid", "getgid", "geteuid",
      "getegid", "getppid", "getpgrp", "setsid", "sync", "gettid", "close", "dup", "alarm",
      "exit", "fsync", "fchdir", "umask", "setuid", "setgid", "getpgid", "getsid", "exit_group",
      "epoll_create1", "syncfs", "unsupported", "brk", "personality", "set_tid_address"}
  BY DEF Plain
<1>2. DOMAIN Numbers = {"dup2", "shutdown", "listen", "kill", "fchmod", "setpgid", "setreuid",
      "setregid", "getpriority", "eventfd2", "socket", "fchown", "setresuid", "setresgid",
      "setpriority", "dup3", "munmap", "mprotect", "msync", "madvise", "mremap", "mmap",
      "lseek", "fcntl", "ftruncate", "fallocate", "clone"}
  BY DEF Numbers
<1>3. DOMAIN Pathed = {"chdir", "rmdir", "unlink", "chroot", "rename", "link", "symlink",
      "access", "mkdir", "creat", "chmod", "umount2", "chown", "lchown", "open", "stat",
      "lstat", "statfs", "utime", "utimes", "unlinkat", "fchmodat", "faccessat", "truncate",
      "readlink", "openat", "fchownat", "futimesat", "newfstatat", "readlinkat", "utimensat",
      "mount", "getcwd"}
  BY DEF Pathed
<1>4. DOMAIN Blocks = {"fstat", "fstatfs", "getrlimit", "getrusage", "clock_gettime",
      "getdents", "getdents64", "getresuid", "getresgid", "uname", "sysinfo", "pipe", "connect",
      "bind", "getsockname", "getpeername", "read", "write", "pread64", "pwrite64", "readv",
      "writev", "poll"}
  BY DEF Blocks
<1>5. DOMAIN Choices = {"ioctl", "select", "pselect6", "clock_getres", "times", "gettimeofday",
      "nanosleep", "setitimer", "rt_sigaction", "rt_sigprocmask", "rt_sigsuspend",
      "rt_sigpending", "rt_sigtimedwait", "rt_sigqueueinfo", "sigaltstack", "getgroups",
      "setgroups", "prlimit64", "sched_getaffinity", "pipe2", "getrandom", "futex", "epoll_ctl",
      "epoll_pwait"}
  BY DEF Choices
<1>6. DOMAIN Sockets = {"accept", "accept4", "sendto", "recvfrom", "sendmsg", "recvmsg",
      "socketpair", "setsockopt", "getsockopt"}
  BY DEF Sockets
<1> QED
  BY <1>1, <1>2, <1>3, <1>4, <1>5, <1>6

LEMMA KernelRows ==
  \A c :
    /\ c \in DOMAIN Plain => Prototype[c] = Plain[c]
    /\ c \in DOMAIN Numbers => Prototype[c] = Numbers[c]
    /\ c \in DOMAIN Pathed => Prototype[c] = Pathed[c]
    /\ c \in DOMAIN Blocks => Prototype[c] = Blocks[c]
    /\ c \in DOMAIN Choices => Prototype[c] = Choices[c]
    /\ c \in DOMAIN Sockets => Prototype[c] = Sockets[c]
<1> DEFINE T == {Plain, Numbers, Pathed, Blocks,
                Choices, Sockets}
<1> SUFFICES ASSUME NEW f \in T, NEW c \in DOMAIN f PROVE Prototype[c] = f[c]
  OBVIOUS
<1>1. Prototype = Rows(T)
  BY DEF Prototype
<1>2. \A g \in T : c \in DOMAIN g => g = f
  <2>1. CASE f = Plain
    BY <2>1, KernelNames, SMTT(40)
  <2>2. CASE f = Numbers
    BY <2>2, KernelNames, SMTT(40)
  <2>3. CASE f = Pathed
    BY <2>3, KernelNames, SMTT(40)
  <2>4. CASE f = Blocks
    BY <2>4, KernelNames, SMTT(40)
  <2>5. CASE f = Choices
    BY <2>5, KernelNames, SMTT(40)
  <2>6. CASE f = Sockets
    BY <2>6, KernelNames, SMTT(40)
  <2> QED
    BY <2>1, <2>2, <2>3, <2>4, <2>5, <2>6
<1> HIDE DEF T
<1> QED
  BY <1>1, <1>2 DEF Rows
-----------------------------------------------------------------------------
\* The calls, one by one: their rows, and that these agree.
USE DEF Puts, Gets, Hosts, Wr!Case, Wr!Put, Sends, Fetches, Copies, Placed, Sent, Carried, Sure,
     Aimed, Fetched, Timely, Measured, Careful, Written, Writable, ByAddress, Direct, ItemIs,
     ReadIs, ArgIs, CopyIs, Pointers, Nullable, Wr!Silent, LostAlways, NotSent, NotPassed,
     Confused, FlagsNotSent, HalfSent, CutShort, NeverNull, NotFetched, FetchedCut, Brief

LEMMA FileCallsAgree == \A c \in DOMAIN Wr!FileCalls : Agree(c)
<1>1. Agree("read")
  <2>1. Puts("read") = <<Wr!L, Wr!N, Wr!L>> /\ Gets("read") = {Wr!Get(2, "positive",
          "result")}
        /\ Wr!Get(2, "positive", "result") \in Gets("read")
    BY WrapperRows DEF Wr!FileCalls
  <2>2. Hosts("read") = <<Un!L, Un!B, Un!L>>
    BY HostRows DEF Un!HostFiles
  <2>3. Prototype["read"] = <<I, C, L>>
    BY KernelRows, SMTT(20) DEF Blocks
  <2>4. Sends("read")
    BY <2>1, <2>2, <2>3, Fields
  <2>5. Fetches("read")
    BY <2>1, <2>2, <2>3, Fields
  <2>6. Copies("read")
    BY <2>1, <2>2, <2>3, Fields
  <2>7. Careful("read")
    BY <2>1, <2>2, <2>3, Fields, SMTT(20)
  <2> QED BY <2>4, <2>5, <2>6, <2>7 DEF Agree
<1>2. Agree("write")
  <2>1. Puts("write") = <<Wr!L, Wr!D, Wr!L>> /\ Gets("write") = {}
    BY WrapperRows DEF Wr!FileCalls
  <2>2. Hosts("write") = <<Un!L, Un!B, Un!L>>
    BY HostRows DEF Un!HostFiles
  <2>3. Prototype["write"] = <<I, R, L>>
    BY KernelRows, SMTT(20) DEF Blocks
  <2> QED BY <2>1, <2>2, <2>3, Fields DEF Agree
<1>3. Agree("open")
  <2>1. Puts("open") = <<Wr!D, Wr!L, Wr!L>> /\ Gets("open") = {}
    BY WrapperRows DEF Wr!FileCalls
  <2>2. Hosts("open") = <<Un!B, Un!L, Un!L>>
    BY HostRows DEF Un!HostFiles
  <2>3. Prototype["open"] = <<R, I, I>>
    BY KernelRows, SMTT(20) DEF Pathed
  <2> QED BY <2>1, <2>2, <2>3, Fields DEF Agree
<1>4. Agree("close")
  <2>1. Puts("close") = <<Wr!I>> /\ Gets("close") = {}
    BY WrapperRows DEF Wr!FileCalls
  <2>2. Hosts("close") = <<Un!I>>
    BY HostRows DEF Un!HostFiles
  <2>3. Prototype["close"] = <<I>>
    BY KernelRows, SMTT(20) DEF Plain
  <2> QED BY <2>1, <2>2, <2>3, Fields DEF Agree
<1>5. Agree("stat")
  <2>1. Puts("stat") = <<Wr!D, Wr!N>> /\ Gets("stat") = {Wr!Get(2, "succeeded", "block")}
        /\ Wr!Get(2, "succeeded", "block") \in Gets("stat")
    BY WrapperRows DEF Wr!FileCalls
  <2>2. Hosts("stat") = <<Un!B, Un!B>>
    BY HostRows DEF Un!HostFiles
  <2>3. Prototype["stat"] = <<R, W>>
    BY KernelRows, SMTT(20) DEF Pathed
  <2>4. Sends("stat")
    BY <2>1, <2>2, <2>3, Fields
  <2>5. Fetches("stat")
    BY <2>1, <2>2, <2>3, Fields
  <2>6. Copies("stat")
    BY <2>1, <2>2, <2>3, Fields
  <2>7. Careful("stat")
    BY <2>1, <2>2, <2>3, Fields, SMTT(20)
  <2> QED BY <2>4, <2>5, <2>6, <2>7 DEF Agree
<1>6. Agree("lstat")
  <2>1. Puts("lstat") = <<Wr!D, Wr!N>> /\ Gets("lstat") = {Wr!Get(2, "succeeded", "block")}
        /\ Wr!Get(2, "succeeded", "block") \in Gets("lstat")
    BY WrapperRows DEF Wr!FileCalls
  <2>2. Hosts("lstat") = <<Un!B, Un!B>>
    BY HostRows DEF Un!HostFiles
  <2>3. Prototype["lstat"] = <<R, W>>
    BY KernelRows, SMTT(20) DEF Pathed
  <2>4. Sends("lstat")
    BY <2>1, <2>2, <2>3, Fields
  <2>5. Fetches("lstat")
    BY <2>1, <2>2, <2>3, Fields
  <2>6. Copies("lstat")
    BY <2>1, <2>2, <2>3, Fields
  <2>7. Careful("lstat")
    BY <2>1, <2>2, <2>3, Fields, SMTT(20)
  <2> QED BY <2>4, <2>5, <2>6, <2>7 DEF Agree
<1>7. Agree("fstat")
  <2>1. Puts("fstat") = <<Wr!L, Wr!N>> /\ Gets("fstat") = {Wr!Get(2, "always", "longer")}
        /\ Wr!Get(2, "always", "longer") \in Gets("fstat")
    BY WrapperRows DEF Wr!FileCalls
  <2>2. Hosts("fstat") = <<Un!L, Un!B>>
    BY HostRows DEF Un!HostFiles
  <2>3. Prototype["fstat"] = <<I, W>>
    BY KernelRows, SMTT(20) DEF Blocks
  <2>4. Sends("fstat")
    BY <2>1, <2>2, <2>3, Fields
  <2>5. Fetches("fstat")
    BY <2>1, <2>2, <2>3, Fields
  <2>6. Copies("fstat")
    BY <2>1, <2>2, <2>3, Fields
  <2>7. Careful("fstat")
    BY <2>1, <2>2, <2>3, Fields, SMTT(20)
  <2> QED BY <2>4, <2>5, <2>6, <2>7 DEF Agree
<1>8. Agree("poll")
  <2>1. Puts("poll") = <<Wr!D, Wr!L, Wr!I>> /\ Gets("poll") = {Wr!Always(1)}
        /\ Wr!Always(1) \in Gets("poll")
    BY WrapperRows DEF Wr!FileCalls
  <2>2. Hosts("poll") = <<Un!B, Un!L, Un!I>>
    BY HostRows DEF Un!HostFiles
  <2>3. Prototype["poll"] = <<B, I, I>>
    BY KernelRows, SMTT(20) DEF Blocks
  <2>4. Sends("poll")
    BY <2>1, <2>2, <2>3, Fields
  <2>5. Fetches("poll")
    BY <2>1, <2>2, <2>3, Fields
  <2>6. Copies("poll")
    BY <2>1, <2>2, <2>3, Fields
  <2>7. Careful("poll")
    BY <2>1, <2>2, <2>3, Fields, SMTT(20)
  <2> QED BY <2>4, <2>5, <2>6, <2>7 DEF Agree
<1>9. Agree("lseek")
  <2>1. Puts("lseek") = <<Wr!L, Wr!L, Wr!L>> /\ Gets("lseek") = {}
    BY WrapperRows DEF Wr!FileCalls
  <2>2. Hosts("lseek") = <<Un!L, Un!L, Un!M>>
    BY HostRows DEF Un!HostFiles
  <2>3. Prototype["lseek"] = <<I, L, I>>
    BY KernelRows, SMTT(20) DEF Numbers
  <2> QED BY <2>1, <2>2, <2>3, Fields DEF Agree
<1> QED
  BY WrapperNames, <1>1, <1>2, <1>3, <1>4, <1>5, <1>6, <1>7, <1>8, <1>9

LEMMA MemoryCallsAgree == \A c \in DOMAIN Wr!MemoryCalls : Agree(c)
<1>1. Agree("mmap")
  <2>1. Puts("mmap") = <<Wr!L, Wr!L, Wr!L, Wr!L, Wr!L, Wr!L>> /\ Gets("mmap") = {}
    BY WrapperRows DEF Wr!MemoryCalls
  <2>2. Hosts("mmap") = <<Un!L, Un!L, Un!I, Un!I, Un!I, Un!L>>
    BY HostRows DEF Un!HostMemory
  <2>3. Prototype["mmap"] = <<L, L, X, X, X, L>>
    BY KernelRows, SMTT(20) DEF Numbers
  <2> QED BY <2>1, <2>2, <2>3, Fields DEF Agree
<1>2. Agree("mprotect")
  <2>1. Puts("mprotect") = <<Wr!L, Wr!L, Wr!L>> /\ Gets("mprotect") = {}
    BY WrapperRows DEF Wr!MemoryCalls
  <2>2. Hosts("mprotect") = <<Un!L, Un!L, Un!L>>
    BY HostRows DEF Un!HostMemory
  <2>3. Prototype["mprotect"] = <<L, L, X>>
    BY KernelRows, SMTT(20) DEF Numbers
  <2> QED BY <2>1, <2>2, <2>3, Fields DEF Agree
<1>3. Agree("munmap")
  <2>1. Puts("munmap") = <<Wr!L, Wr!L>> /\ Gets("munmap") = {}
    BY WrapperRows DEF Wr!MemoryCalls
  <2>2. Hosts("munmap") = <<Un!L, Un!L>>
    BY HostRows DEF Un!HostMemory
  <2>3. Prototype["munmap"] = <<L, L>>
    BY KernelRows, SMTT(20) DEF Numbers
  <2> QED BY <2>1, <2>2, <2>3, Fields DEF Agree
<1>4. Agree("brk")
  <2>1. Puts("brk") = <<Wr!L>> /\ Gets("brk") = {}
    BY WrapperRows DEF Wr!MemoryCalls
  <2>2. Hosts("brk") = <<Un!L>>
    BY HostRows DEF Un!HostMemory
  <2>3. Prototype["brk"] = <<L>>
    BY KernelRows, SMTT(20) DEF Plain
  <2> QED BY <2>1, <2>2, <2>3, Fields DEF Agree
<1> QED
  BY WrapperNames, <1>1, <1>2, <1>3, <1>4

LEMMA SignalCallsAgree == \A c \in DOMAIN Wr!SignalCalls : Agree(c)
<1>1. Agree("rt_sigaction")
  <2>1. Puts("rt_sigaction") = <<Wr!L, Wr!RefIn(5), Wr!Ref(6), Wr!L>> /\
          Gets("rt_sigaction") = {Wr!Get(3, "given", "head")}
        /\ Wr!Get(3, "given", "head") \in Gets("rt_sigaction")
    BY WrapperRows DEF Wr!SignalCalls
  <2>2. Hosts("rt_sigaction") = <<Un!L, Un!Z, Un!L, Un!M>>
    BY HostRows DEF Un!HostSignals
  <2>3. Prototype["rt_sigaction"] = <<I, Maybe(R), Maybe(W), L>>
    BY KernelRows, SMTT(20) DEF Choices
  <2>4. Sends("rt_sigaction")
    BY <2>1, <2>2, <2>3, Fields
  <2>5. Fetches("rt_sigaction")
    BY <2>1, <2>2, <2>3, Fields
  <2>6. Copies("rt_sigaction")
    BY <2>1, <2>2, <2>3, Fields
  <2>7. Careful("rt_sigaction")
    BY <2>1, <2>2, <2>3, Fields, SMTT(20)
  <2> QED BY <2>4, <2>5, <2>6, <2>7 DEF Agree
<1>2. Agree("rt_sigprocmask")
  <2>1. Puts("rt_sigprocmask") = <<Wr!L, Wr!RefIn(5), Wr!RefIn(6), Wr!L>> /\
          Gets("rt_sigprocmask") = {Wr!Given(3)}
        /\ Wr!Given(3) \in Gets("rt_sigprocmask")
    BY WrapperRows DEF Wr!SignalCalls
  <2>2. Hosts("rt_sigprocmask") = <<Un!I, Un!L, Un!L, Un!L>>
    BY HostRows DEF Un!HostSignals
  <2>3. Prototype["rt_sigprocmask"] = <<I, Maybe(R), Maybe(P), L>>
    BY KernelRows, SMTT(20) DEF Choices
  <2>4. Sends("rt_sigprocmask")
    BY <2>1, <2>2, <2>3, Fields
  <2>5. Fetches("rt_sigprocmask")
    BY <2>1, <2>2, <2>3, Fields
  <2>6. Copies("rt_sigprocmask")
    BY <2>1, <2>2, <2>3, Fields
  <2>7. Careful("rt_sigprocmask")
    BY <2>1, <2>2, <2>3, Fields, SMTT(20)
  <2> QED BY <2>4, <2>5, <2>6, <2>7 DEF Agree
<1>3. Agree("rt_sigreturn")
  <2>1. Puts("rt_sigreturn") = << >> /\ Gets("rt_sigreturn") = {}
    BY WrapperRows DEF Wr!SignalCalls
  <2>3. Prototype["rt_sigreturn"] = << >>
    BY KernelRows, SMTT(20) DEF Plain
  <2> QED BY <2>1, <2>3, Fields DEF Agree
<1> QED
  BY WrapperNames, <1>1, <1>2, <1>3

LEMMA VectorCallsAgree == \A c \in DOMAIN Wr!VectorCalls : Agree(c)
<1>1. Agree("ioctl")
  <2>1. Puts("ioctl") = <<Wr!I, Wr!L, Wr!H>> /\ Gets("ioctl") = {Wr!Get(3, "given", "fixed")}
        /\ Wr!Get(3, "given", "fixed") \in Gets("ioctl")
    BY WrapperRows DEF Wr!VectorCalls
  <2>2. Hosts("ioctl") = <<Un!I, Un!L, Un!B>>
    BY HostRows DEF Un!HostSignals
  <2>3. Prototype["ioctl"] = <<I, I, Maybe(E)>>
    BY KernelRows, SMTT(20) DEF Choices
  <2>4. Sends("ioctl")
    BY <2>1, <2>2, <2>3, Fields
  <2>5. Fetches("ioctl")
    BY <2>1, <2>2, <2>3, Fields
  <2>6. Copies("ioctl")
    BY <2>1, <2>2, <2>3, Fields
  <2>7. Careful("ioctl")
    BY <2>1, <2>2, <2>3, Fields, SMTT(20)
  <2> QED BY <2>4, <2>5, <2>6, <2>7 DEF Agree
<1>2. Agree("pread64")
  <2>1. Puts("pread64") = <<Wr!L, Wr!N, Wr!L, Wr!L>> /\ Gets("pread64") = {Wr!Get(2,
          "always", "result")}
        /\ Wr!Get(2, "always", "result") \in Gets("pread64")
    BY WrapperRows DEF Wr!VectorCalls
  <2>2. Hosts("pread64") = <<Un!L, Un!B, Un!L, Un!L>>
    BY HostRows DEF Un!HostSignals
  <2>3. Prototype["pread64"] = <<I, C, L, L>>
    BY KernelRows, SMTT(20) DEF Blocks
  <2>4. Sends("pread64")
    BY <2>1, <2>2, <2>3, Fields
  <2>5. Fetches("pread64")
    BY <2>1, <2>2, <2>3, Fields
  <2>6. Copies("pread64")
    BY <2>1, <2>2, <2>3, Fields
  <2>7. Careful("pread64")
    BY <2>1, <2>2, <2>3, Fields, SMTT(20)
  <2> QED BY <2>4, <2>5, <2>6, <2>7 DEF Agree
<1>3. Agree("pwrite64")
  <2>1. Puts("pwrite64") = <<Wr!L, Wr!D, Wr!L, Wr!L>> /\ Gets("pwrite64") = {}
    BY WrapperRows DEF Wr!VectorCalls
  <2>2. Hosts("pwrite64") = <<Un!L, Un!B, Un!L, Un!L>>
    BY HostRows DEF Un!HostSignals
  <2>3. Prototype["pwrite64"] = <<I, R, L, L>>
    BY KernelRows, SMTT(20) DEF Blocks
  <2> QED BY <2>1, <2>2, <2>3, Fields DEF Agree
<1>4. Agree("readv")
  <2>1. Puts("readv") = <<Wr!I, Wr!N, Wr!I>> /\ Gets("readv") = {Wr!Always(2)}
        /\ Wr!Always(2) \in Gets("readv")
    BY WrapperRows DEF Wr!VectorCalls
  <2>2. Hosts("readv") = <<Un!L, Un!B, Un!L>>
    BY HostRows DEF Un!HostSignals
  <2>3. Prototype["readv"] = <<I, C, X>>
    BY KernelRows, SMTT(20) DEF Blocks
  <2>4. Sends("readv")
    BY <2>1, <2>2, <2>3, Fields
  <2>5. Fetches("readv")
    BY <2>1, <2>2, <2>3, Fields
  <2>6. Copies("readv")
    BY <2>1, <2>2, <2>3, Fields
  <2>7. Careful("readv")
    BY <2>1, <2>2, <2>3, Fields, SMTT(20)
  <2> QED BY <2>4, <2>5, <2>6, <2>7 DEF Agree
<1>5. Agree("writev")
  <2>1. Puts("writev") = <<Wr!I, Wr!D, Wr!I>> /\ Gets("writev") = {}
    BY WrapperRows DEF Wr!VectorCalls
  <2>2. Hosts("writev") = <<Un!L, Un!B, Un!L>>
    BY HostRows DEF Un!HostSignals
  <2>3. Prototype["writev"] = <<I, R, X>>
    BY KernelRows, SMTT(20) DEF Blocks
  <2> QED BY <2>1, <2>2, <2>3, Fields DEF Agree
<1> QED
  BY WrapperNames, <1>1, <1>2, <1>3, <1>4, <1>5

LEMMA PollCallsAgree == \A c \in DOMAIN Wr!PollCalls : Agree(c)
<1>1. Agree("access")
  <2>1. Puts("access") = <<Wr!D, Wr!L>> /\ Gets("access") = {}
    BY WrapperRows DEF Wr!PollCalls
  <2>2. Hosts("access") = <<Un!B, Un!L>>
    BY HostRows DEF Un!HostPolls
  <2>3. Prototype["access"] = <<R, I>>
    BY KernelRows, SMTT(20) DEF Pathed
  <2> QED BY <2>1, <2>2, <2>3, Fields DEF Agree
<1>2. Agree("pipe")
  <2>1. Puts("pipe") = <<Wr!N>> /\ Gets("pipe") = {Wr!Always(1)}
        /\ Wr!Always(1) \in Gets("pipe")
    BY WrapperRows DEF Wr!PollCalls
  <2>2. Hosts("pipe") = <<Un!B>>
    BY HostRows DEF Un!HostPolls
  <2>3. Prototype["pipe"] = <<W>>
    BY KernelRows, SMTT(20) DEF Blocks
  <2>4. Sends("pipe")
    BY <2>1, <2>2, <2>3, Fields
  <2>5. Fetches("pipe")
    BY <2>1, <2>2, <2>3, Fields
  <2>6. Copies("pipe")
    BY <2>1, <2>2, <2>3, Fields
  <2>7. Careful("pipe")
    BY <2>1, <2>2, <2>3, Fields, SMTT(20)
  <2> QED BY <2>4, <2>5, <2>6, <2>7 DEF Agree
<1>3. Agree("select")
  <2>1. Puts("select") = <<Wr!N, Wr!O, Wr!O, Wr!O, Wr!O>> /\ Gets("select") = {Wr!Given(2),
          Wr!Given(3), Wr!Given(4)}
        /\ Wr!Given(2) \in Gets("select") /\ Wr!Given(3) \in Gets("select") /\ Wr!Given(4)
        \in Gets("select")
    BY WrapperRows DEF Wr!PollCalls
  <2>2. Hosts("select") = <<Un!I, Un!F, Un!F, Un!F, Un!F>>
    BY HostRows DEF Un!HostPolls
  <2>3. Prototype["select"] = <<I, Maybe(E), Maybe(E), Maybe(E), Maybe(B)>>
    BY KernelRows, SMTT(20) DEF Choices
  <2>4. Sends("select")
    BY <2>1, <2>2, <2>3, Fields
  <2>5. Fetches("select")
    BY <2>1, <2>2, <2>3, Fields
  <2>6. Copies("select")
    BY <2>1, <2>2, <2>3, Fields
  <2>7. Careful("select")
    BY <2>1, <2>2, <2>3, Fields, SMTT(20)
  <2> QED BY <2>4, <2>5, <2>6, <2>7 DEF Agree
<1>4. Agree("sched_yield")
  <2>1. Puts("sched_yield") = << >> /\ Gets("sched_yield") = {}
    BY WrapperRows DEF Wr!PollCalls
  <2>2. Hosts("sched_yield") = << >>
    BY HostRows DEF Un!HostPolls
  <2>3. Prototype["sched_yield"] = << >>
    BY KernelRows, SMTT(20) DEF Plain
  <2> QED BY <2>1, <2>2, <2>3, Fields DEF Agree
<1>5. Agree("mremap")
  <2>1. Puts("mremap") = <<Wr!L, Wr!L, Wr!L, Wr!L, Wr!L>> /\ Gets("mremap") = {}
    BY WrapperRows DEF Wr!PollCalls
  <2>2. Hosts("mremap") = <<Un!L, Un!L, Un!L, Un!L, Un!L>>
    BY HostRows DEF Un!HostPolls
  <2>3. Prototype["mremap"] = <<L, L, L, L, L>>
    BY KernelRows, SMTT(20) DEF Numbers
  <2> QED BY <2>1, <2>2, <2>3, Fields DEF Agree
<1>6. Agree("msync")
  <2>1. Puts("msync") = <<Wr!L, Wr!L, Wr!L>> /\ Gets("msync") = {}
    BY WrapperRows DEF Wr!PollCalls
  <2>2. Hosts("msync") = <<Un!L, Un!L, Un!L>>
    BY HostRows DEF Un!HostPolls
  <2>3. Prototype["msync"] = <<L, L, I>>
    BY KernelRows, SMTT(20) DEF Numbers
  <2> QED BY <2>1, <2>2, <2>3, Fields DEF Agree
<1>7. Agree("madvise")
  <2>1. Puts("madvise") = <<Wr!L, Wr!L, Wr!L>> /\ Gets("madvise") = {}
    BY WrapperRows DEF Wr!PollCalls
  <2>2. Hosts("madvise") = <<Un!L, Un!L, Un!I>>
    BY HostRows DEF Un!HostPolls
  <2>3. Prototype["madvise"] = <<L, L, I>>
    BY KernelRows, SMTT(20) DEF Numbers
  <2> QED BY <2>1, <2>2, <2>3, Fields DEF Agree
<1> QED
  BY WrapperNames, <1>1, <1>2, <1>3, <1>4, <1>5, <1>6, <1>7

LEMMA TimerCallsAgree == \A c \in DOMAIN Wr!TimerCalls : Agree(c)
<1>1. Agree("dup")
  <2>1. Puts("dup") = <<Wr!L>> /\ Gets("dup") = {}
    BY WrapperRows DEF Wr!TimerCalls
  <2>2. Hosts("dup") = <<Un!L>>
    BY HostRows DEF Un!HostTimers
  <2>3. Prototype["dup"] = <<I>>
    BY KernelRows, SMTT(20) DEF Plain
  <2> QED BY <2>1, <2>2, <2>3, Fields DEF Agree
<1>2. Agree("dup2")
  <2>1. Puts("dup2") = <<Wr!L, Wr!L>> /\ Gets("dup2") = {}
    BY WrapperRows DEF Wr!TimerCalls
  <2>2. Hosts("dup2") = <<Un!L, Un!L>>
    BY HostRows DEF Un!HostTimers
  <2>3. Prototype["dup2"] = <<I, I>>
    BY KernelRows, SMTT(20) DEF Numbers
  <2> QED BY <2>1, <2>2, <2>3, Fields DEF Agree
<1>3. Agree("nanosleep")
  <2>1. Puts("nanosleep") = <<Wr!RefIn(3), Wr!Ref(4)>> /\ Gets("nanosleep") = {Wr!Given(2)}
        /\ Wr!Given(2) \in Gets("nanosleep")
    BY WrapperRows DEF Wr!TimerCalls
  <2>2. Hosts("nanosleep") = <<Un!L, Un!L>>
    BY HostRows DEF Un!HostTimers
  <2>3. Prototype["nanosleep"] = <<Maybe(R), Maybe(W)>>
    BY KernelRows, SMTT(20) DEF Choices
  <2>4. Sends("nanosleep")
    BY <2>1, <2>2, <2>3, Fields
  <2>5. Fetches("nanosleep")
    BY <2>1, <2>2, <2>3, Fields
  <2>6. Copies("nanosleep")
    BY <2>1, <2>2, <2>3, Fields
  <2>7. Careful("nanosleep")
    BY <2>1, <2>2, <2>3, Fields, SMTT(20)
  <2> QED BY <2>4, <2>5, <2>6, <2>7 DEF Agree
<1>4. Agree("alarm")
  <2>1. Puts("alarm") = <<Wr!L>> /\ Gets("alarm") = {}
    BY WrapperRows DEF Wr!TimerCalls
  <2>2. Hosts("alarm") = <<Un!L>>
    BY HostRows DEF Un!HostTimers
  <2>3. Prototype["alarm"] = <<I>>
    BY KernelRows, SMTT(20) DEF Plain
  <2> QED BY <2>1, <2>2, <2>3, Fields DEF Agree
<1>5. Agree("setitimer")
  <2>1. Puts("setitimer") = <<Wr!L, Wr!D, Wr!Ref(4)>> /\ Gets("setitimer") = {Wr!Given(3)}
        /\ Wr!Given(3) \in Gets("setitimer")
    BY WrapperRows DEF Wr!TimerCalls
  <2>2. Hosts("setitimer") = <<Un!L, Un!B, Un!L>>
    BY HostRows DEF Un!HostTimers
  <2>3. Prototype["setitimer"] = <<I, R, Maybe(W)>>
    BY KernelRows, SMTT(20) DEF Choices
  <2>4. Sends("setitimer")
    BY <2>1, <2>2, <2>3, Fields
  <2>5. Fetches("setitimer")
    BY <2>1, <2>2, <2>3, Fields
  <2>6. Copies("setitimer")
    BY <2>1, <2>2, <2>3, Fields
  <2>7. Careful("setitimer")
    BY <2>1, <2>2, <2>3, Fields, SMTT(20)
  <2> QED BY <2>4, <2>5, <2>6, <2>7 DEF Agree
<1>6. Agree("getpid")
  <2>1. Puts("getpid") = << >> /\ Gets("getpid") = {}
    BY WrapperRows DEF Wr!TimerCalls
  <2>2. Hosts("getpid") = << >>
    BY HostRows DEF Un!HostTimers
  <2>3. Prototype["getpid"] = << >>
    BY KernelRows, SMTT(20) DEF Plain
  <2> QED BY <2>1, <2>2, <2>3, Fields DEF Agree
<1> QED
  BY WrapperNames, <1>1, <1>2, <1>3, <1>4, <1>5, <1>6

LEMMA SocketCallsAgree == \A c \in DOMAIN Wr!SocketCalls : Agree(c)
<1>1. Agree("socket")
  <2>1. Puts("socket") = <<Wr!L, Wr!L, Wr!L>> /\ Gets("socket") = {}
    BY WrapperRows DEF Wr!SocketCalls
  <2>2. Hosts("socket") = <<Un!L, Un!L, Un!L>>
    BY HostRows DEF Un!HostSockets
  <2>3. Prototype["socket"] = <<I, I, I>>
    BY KernelRows, SMTT(20) DEF Numbers
  <2> QED BY <2>1, <2>2, <2>3, Fields DEF Agree
<1>2. Agree("connect")
  <2>1. Puts("connect") = <<Wr!L, Wr!D, Wr!L>> /\ Gets("connect") = {}
    BY WrapperRows DEF Wr!SocketCalls
  <2>2. Hosts("connect") = <<Un!L, Un!B, Un!L>>
    BY HostRows DEF Un!HostSockets
  <2>3. Prototype["connect"] = <<I, R, I>>
    BY KernelRows, SMTT(20) DEF Blocks
  <2> QED BY <2>1, <2>2, <2>3, Fields DEF Agree
<1>3. Agree("accept")
  <2>1. Puts("accept") = <<Wr!L, Wr!D, Wr!D>> /\ Gets("accept") = {}
    BY WrapperRows DEF Wr!SocketCalls
  <2>2. Hosts("accept") = <<Un!L, Un!B, Un!B>>
    BY HostRows DEF Un!HostSockets
  <2>3. Prototype["accept"] = <<I, Maybe(V), Maybe(B)>>
    BY KernelRows, SMTT(20) DEF Sockets
  <2>4. Sends("accept")
    BY <2>1, <2>2, <2>3, Fields
  <2>5. Fetches("accept")
    BY <2>1, <2>2, <2>3, Fields
  <2>6. Copies("accept")
    BY <2>1, <2>2, <2>3, Fields
  <2>7. Careful("accept")
    BY <2>1, <2>2, <2>3, Fields, SMTT(20)
  <2> QED BY <2>4, <2>5, <2>6, <2>7 DEF Agree
<1>4. Agree("sendto")
  <2>1. Puts("sendto") = <<Wr!I, Wr!O, Wr!L, Wr!I, Wr!O, Wr!I>> /\ Gets("sendto") = {}
    BY WrapperRows DEF Wr!SocketCalls
  <2>2. Hosts("sendto") = <<Un!I, Un!F, Un!L, Un!I, Un!F, Un!I>>
    BY HostRows DEF Un!HostSockets
  <2>3. Prototype["sendto"] = <<I, Maybe(R), L, I, Maybe(R), I>>
    BY KernelRows, SMTT(20) DEF Sockets
  <2> QED BY <2>1, <2>2, <2>3, Fields DEF Agree
<1>5. Agree("recvfrom")
  <2>1. Puts("recvfrom") = <<Wr!I, Wr!O, Wr!L, Wr!I, Wr!O, Wr!O>> /\ Gets("recvfrom") =
          {Wr!Get(2, "positive", "result")}
        /\ Wr!Get(2, "positive", "result") \in Gets("recvfrom")
    BY WrapperRows DEF Wr!SocketCalls
  <2>2. Hosts("recvfrom") = <<Un!I, Un!F, Un!L, Un!I, Un!F, Un!F>>
    BY HostRows DEF Un!HostSockets
  <2>3. Prototype["recvfrom"] = <<I, Maybe(C), L, I, Maybe(V), Maybe(B)>>
    BY KernelRows, SMTT(20) DEF Sockets
  <2>4. Sends("recvfrom")
    BY <2>1, <2>2, <2>3, Fields
  <2>5. Fetches("recvfrom")
    BY <2>1, <2>2, <2>3, Fields
  <2>6. Copies("recvfrom")
    BY <2>1, <2>2, <2>3, Fields
  <2>7. Careful("recvfrom")
    BY <2>1, <2>2, <2>3, Fields, SMTT(20)
  <2> QED BY <2>4, <2>5, <2>6, <2>7 DEF Agree
<1> QED
  BY WrapperNames, <1>1, <1>2, <1>3, <1>4, <1>5

LEMMA MessageCallsAgree == \A c \in DOMAIN Wr!MessageCalls : Agree(c)
<1>1. Agree("sendmsg")
  <2>1. Puts("sendmsg") = <<Wr!L, Wr!D, Wr!L>> /\ Gets("sendmsg") = {}
    BY WrapperRows DEF Wr!MessageCalls
  <2>2. Hosts("sendmsg") = <<Un!L, Un!B, Un!L>>
    BY HostRows DEF Un!HostSockets
  <2>3. Prototype["sendmsg"] = <<I, R, I>>
    BY KernelRows, SMTT(20) DEF Sockets
  <2> QED BY <2>1, <2>2, <2>3, Fields DEF Agree
<1>2. Agree("recvmsg")
  <2>1. Puts("recvmsg") = <<Wr!L, Wr!N, Wr!L>> /\ Gets("recvmsg") = {Wr!Get(2, "always",
          "message")}
        /\ Wr!Get(2, "always", "message") \in Gets("recvmsg")
    BY WrapperRows DEF Wr!MessageCalls
  <2>2. Hosts("recvmsg") = <<Un!L, Un!B, Un!L>>
    BY HostRows DEF Un!HostSockets
  <2>3. Prototype["recvmsg"] = <<I, V, I>>
    BY KernelRows, SMTT(20) DEF Sockets
  <2>4. Sends("recvmsg")
    BY <2>1, <2>2, <2>3, Fields
  <2>5. Fetches("recvmsg")
    BY <2>1, <2>2, <2>3, Fields
  <2>6. Copies("recvmsg")
    BY <2>1, <2>2, <2>3, Fields
  <2>7. Careful("recvmsg")
    BY <2>1, <2>2, <2>3, Fields, SMTT(20)
  <2> QED BY <2>4, <2>5, <2>6, <2>7 DEF Agree
<1>3. Agree("shutdown")
  <2>1. Puts("shutdown") = <<Wr!L, Wr!L>> /\ Gets("shutdown") = {}
    BY WrapperRows DEF Wr!MessageCalls
  <2>2. Hosts("shutdown") = <<Un!L, Un!L>>
    BY HostRows DEF Un!HostSockets
  <2>3. Prototype["shutdown"] = <<I, I>>
    BY KernelRows, SMTT(20) DEF Numbers
  <2> QED BY <2>1, <2>2, <2>3, Fields DEF Agree
<1>4. Agree("bind")
  <2>1. Puts("bind") = <<Wr!L, Wr!D, Wr!L>> /\ Gets("bind") = {}
    BY WrapperRows DEF Wr!MessageCalls
  <2>2. Hosts("bind") = <<Un!L, Un!B, Un!L>>
    BY HostRows DEF Un!HostSockets
  <2>3. Prototype["bind"] = <<I, R, I>>
    BY KernelRows, SMTT(20) DEF Blocks
  <2> QED BY <2>1, <2>2, <2>3, Fields DEF Agree
<1>5. Agree("listen")
  <2>1. Puts("listen") = <<Wr!L, Wr!L>> /\ Gets("listen") = {}
    BY WrapperRows DEF Wr!MessageCalls
  <2>2. Hosts("listen") = <<Un!L, Un!L>>
    BY HostRows DEF Un!HostSockets
  <2>3. Prototype["listen"] = <<I, I>>
    BY KernelRows, SMTT(20) DEF Numbers
  <2> QED BY <2>1, <2>2, <2>3, Fields DEF Agree
<1>6. Agree("getsockname")
  <2>1. Puts("getsockname") = <<Wr!L, Wr!D, Wr!D>> /\ Gets("getsockname") = {}
    BY WrapperRows DEF Wr!MessageCalls
  <2>2. Hosts("getsockname") = <<Un!L, Un!B, Un!B>>
    BY HostRows DEF Un!HostSockets
  <2>3. Prototype["getsockname"] = <<I, V, B>>
    BY KernelRows, SMTT(20) DEF Blocks
  <2>4. Sends("getsockname")
    BY <2>1, <2>2, <2>3, Fields
  <2>5. Fetches("getsockname")
    BY <2>1, <2>2, <2>3, Fields
  <2>6. Copies("getsockname")
    BY <2>1, <2>2, <2>3, Fields
  <2>7. Careful("getsockname")
    BY <2>1, <2>2, <2>3, Fields, SMTT(20)
  <2> QED BY <2>4, <2>5, <2>6, <2>7 DEF Agree
<1>7. Agree("getpeername")
  <2>1. Puts("getpeername") = <<Wr!L, Wr!D, Wr!D>> /\ Gets("getpeername") = {}
    BY WrapperRows DEF Wr!MessageCalls
  <2>2. Hosts("getpeername") = <<Un!L, Un!B, Un!B>>
    BY HostRows DEF Un!HostSockets
  <2>3. Prototype["getpeername"] = <<I, V, B>>
    BY KernelRows, SMTT(20) DEF Blocks
  <2>4. Sends("getpeername")
    BY <2>1, <2>2, <2>3, Fields
  <2>5. Fetches("getpeername")
    BY <2>1, <2>2, <2>3, Fields
  <2>6. Copies("getpeername")
    BY <2>1, <2>2, <2>3, Fields
  <2>7. Careful("getpeername")
    BY <2>1, <2>2, <2>3, Fields, SMTT(20)
  <2> QED BY <2>4, <2>5, <2>6, <2>7 DEF Agree
<1>8. Agree("socketpair")
  <2>1. Puts("socketpair") = <<Wr!L, Wr!L, Wr!L, Wr!N>> /\ Gets("socketpair") =
          {Wr!Always(4)}
        /\ Wr!Always(4) \in Gets("socketpair")
    BY WrapperRows DEF Wr!MessageCalls
  <2>2. Hosts("socketpair") = <<Un!L, Un!L, Un!L, Un!B>>
    BY HostRows DEF Un!HostSockets
  <2>3. Prototype["socketpair"] = <<I, I, I, W>>
    BY KernelRows, SMTT(20) DEF Sockets
  <2>4. Sends("socketpair")
    BY <2>1, <2>2, <2>3, Fields
  <2>5. Fetches("socketpair")
    BY <2>1, <2>2, <2>3, Fields
  <2>6. Copies("socketpair")
    BY <2>1, <2>2, <2>3, Fields
  <2>7. Careful("socketpair")
    BY <2>1, <2>2, <2>3, Fields, SMTT(20)
  <2> QED BY <2>4, <2>5, <2>6, <2>7 DEF Agree
<1>9. Agree("setsockopt")
  <2>1. Puts("setsockopt") = <<Wr!I, Wr!I, Wr!I, Wr!D, Wr!I>> /\ Gets("setsockopt") = {}
    BY WrapperRows DEF Wr!MessageCalls
  <2>2. Hosts("setsockopt") = <<Un!I, Un!I, Un!I, Un!B, Un!I>>
    BY HostRows DEF Un!HostSockets
  <2>3. Prototype["setsockopt"] = <<I, I, I, R, I>>
    BY KernelRows, SMTT(20) DEF Sockets
  <2> QED BY <2>1, <2>2, <2>3, Fields DEF Agree
<1>10. Agree("getsockopt")
  <2>1. Puts("getsockopt") = <<Wr!L, Wr!L, Wr!L, Wr!D, Wr!D>> /\ Gets("getsockopt") = {}
    BY WrapperRows DEF Wr!MessageCalls
  <2>2. Hosts("getsockopt") = <<Un!L, Un!L, Un!L, Un!B, Un!B>>
    BY HostRows DEF Un!HostSockets
  <2>3. Prototype["getsockopt"] = <<I, I, I, V, B>>
    BY KernelRows, SMTT(20) DEF Sockets
  <2>4. Sends("getsockopt")
    BY <2>1, <2>2, <2>3, Fields
  <2>5. Fetches("getsockopt")
    BY <2>1, <2>2, <2>3, Fields
  <2>6. Copies("getsockopt")
    BY <2>1, <2>2, <2>3, Fields
  <2>7. Careful("getsockopt")
    BY <2>1, <2>2, <2>3, Fields, SMTT(20)
  <2> QED BY <2>4, <2>5, <2>6, <2>7 DEF Agree
<1> QED
  BY WrapperNames, <1>1, <1>2, <1>3, <1>4, <1>5, <1>6, <1>7, <1>8, <1>9, <1>10

LEMMA ProcessCallsAgree == \A c \in DOMAIN Wr!ProcessCalls : Agree(c)
<1>1. Agree("clone")
  <2>1. Puts("clone") = <<Wr!N, Wr!N, Wr!N, Wr!N, Wr!L>> /\ Gets("clone") = {}
    BY WrapperRows DEF Wr!ProcessCalls
  <2>2. Hosts("clone") = <<Un!M, Un!M, Un!M, Un!M, Un!L>>
    BY HostRows DEF Un!HostProcesses
  <2>3. Prototype["clone"] = <<U, U, U, U, L>>
    BY KernelRows, SMTT(20) DEF Numbers
  <2> QED BY <2>1, <2>2, <2>3, Fields DEF Agree
<1>2. Agree("exit")
  <2>1. Puts("exit") = <<Wr!L>> /\ Gets("exit") = {}
    BY WrapperRows DEF Wr!ProcessCalls
  <2>2. Hosts("exit") = <<Un!L>>
    BY HostRows DEF Un!HostProcesses
  <2>3. Prototype["exit"] = <<I>>
    BY KernelRows, SMTT(20) DEF Plain
  <2> QED BY <2>1, <2>2, <2>3, Fields DEF Agree
<1>3. Agree("kill")
  <2>1. Puts("kill") = <<Wr!I, Wr!L>> /\ Gets("kill") = {}
    BY WrapperRows DEF Wr!ProcessCalls
  <2>2. Hosts("kill") = <<Un!I, Un!L>>
    BY HostRows DEF Un!HostProcesses
  <2>3. Prototype["kill"] = <<I, I>>
    BY KernelRows, SMTT(20) DEF Numbers
  <2> QED BY <2>1, <2>2, <2>3, Fields DEF Agree
<1>4. Agree("uname")
  <2>1. Puts("uname") = <<Wr!N>> /\ Gets("uname") = {Wr!Always(1)}
        /\ Wr!Always(1) \in Gets("uname")
    BY WrapperRows DEF Wr!ProcessCalls
  <2>2. Hosts("uname") = <<Un!B>>
    BY HostRows DEF Un!HostProcesses
  <2>3. Prototype["uname"] = <<W>>
    BY KernelRows, SMTT(20) DEF Blocks
  <2>4. Sends("uname")
    BY <2>1, <2>2, <2>3, Fields
  <2>5. Fetches("uname")
    BY <2>1, <2>2, <2>3, Fields
  <2>6. Copies("uname")
    BY <2>1, <2>2, <2>3, Fields
  <2>7. Careful("uname")
    BY <2>1, <2>2, <2>3, Fields, SMTT(20)
  <2> QED BY <2>4, <2>5, <2>6, <2>7 DEF Agree
<1>5. Agree("fcntl")
  <2>1. Puts("fcntl") = <<Wr!I, Wr!I, Wr!I>> /\ Gets("fcntl") = {}
    BY WrapperRows DEF Wr!ProcessCalls
  <2>2. Hosts("fcntl") = <<Un!I, Un!I, Un!I>>
    BY HostRows DEF Un!HostProcesses
  <2>3. Prototype["fcntl"] = <<I, I, L>>
    BY KernelRows, SMTT(20) DEF Numbers
  <2> QED BY <2>1, <2>2, <2>3, Fields DEF Agree
<1>6. Agree("fsync")
  <2>1. Puts("fsync") = <<Wr!L>> /\ Gets("fsync") = {}
    BY WrapperRows DEF Wr!ProcessCalls
  <2>2. Hosts("fsync") = <<Un!L>>
    BY HostRows DEF Un!HostProcesses
  <2>3. Prototype["fsync"] = <<I>>
    BY KernelRows, SMTT(20) DEF Plain
  <2> QED BY <2>1, <2>2, <2>3, Fields DEF Agree
<1> QED
  BY WrapperNames, <1>1, <1>2, <1>3, <1>4, <1>5, <1>6

LEMMA PathCallsAgree == \A c \in DOMAIN Wr!PathCalls : Agree(c)
<1>1. Agree("truncate")
  <2>1. Puts("truncate") = <<Wr!H, Wr!I>> /\ Gets("truncate") = {}
    BY WrapperRows DEF Wr!PathCalls
  <2>2. Hosts("truncate") = <<Un!B, Un!I>>
    BY HostRows DEF Un!HostProcesses
  <2>3. Prototype["truncate"] = <<R, L>>
    BY KernelRows, SMTT(20) DEF Pathed
  <2> QED BY <2>1, <2>2, <2>3, Fields DEF Agree
<1>2. Agree("ftruncate")
  <2>1. Puts("ftruncate") = <<Wr!L, Wr!I>> /\ Gets("ftruncate") = {}
    BY WrapperRows DEF Wr!PathCalls
  <2>2. Hosts("ftruncate") = <<Un!L, Un!I>>
    BY HostRows DEF Un!HostProcesses
  <2>3. Prototype["ftruncate"] = <<I, L>>
    BY KernelRows, SMTT(20) DEF Numbers
  <2> QED BY <2>1, <2>2, <2>3, Fields DEF Agree
<1>3. Agree("getdents")
  <2>1. Puts("getdents") = <<Wr!L, Wr!N, Wr!L>> /\ Gets("getdents") = {Wr!Always(2)}
        /\ Wr!Always(2) \in Gets("getdents")
    BY WrapperRows DEF Wr!PathCalls
  <2>2. Hosts("getdents") = <<Un!L, Un!B, Un!L>>
    BY HostRows DEF Un!HostPaths
  <2>3. Prototype["getdents"] = <<I, C, I>>
    BY KernelRows, SMTT(20) DEF Blocks
  <2>4. Sends("getdents")
    BY <2>1, <2>2, <2>3, Fields
  <2>5. Fetches("getdents")
    BY <2>1, <2>2, <2>3, Fields
  <2>6. Copies("getdents")
    BY <2>1, <2>2, <2>3, Fields
  <2>7. Careful("getdents")
    BY <2>1, <2>2, <2>3, Fields, SMTT(20)
  <2> QED BY <2>4, <2>5, <2>6, <2>7 DEF Agree
<1>4. Agree("getcwd")
  <2>1. Puts("getcwd") = <<Wr!N, Wr!L>> /\ Gets("getcwd") = {Wr!Get(1, "nonzero", "block")}
        /\ Wr!Get(1, "nonzero", "block") \in Gets("getcwd")
    BY WrapperRows DEF Wr!PathCalls
  <2>2. Hosts("getcwd") = <<Un!B, Un!L>>
    BY HostRows DEF Un!HostPaths
  <2>3. Prototype["getcwd"] = <<C, L>>
    BY KernelRows, SMTT(20) DEF Pathed
  <2>4. Sends("getcwd")
    BY <2>1, <2>2, <2>3, Fields
  <2>5. Fetches("getcwd")
    BY <2>1, <2>2, <2>3, Fields
  <2>6. Copies("getcwd")
    BY <2>1, <2>2, <2>3, Fields
  <2>7. Careful("getcwd")
    BY <2>1, <2>2, <2>3, Fields, SMTT(20)
  <2> QED BY <2>4, <2>5, <2>6, <2>7 DEF Agree
<1>5. Agree("fchdir")
  <2>1. Puts("fchdir") = <<Wr!L>> /\ Gets("fchdir") = {}
    BY WrapperRows DEF Wr!PathCalls
  <2>2. Hosts("fchdir") = <<Un!L>>
    BY HostRows DEF Un!HostPaths
  <2>3. Prototype["fchdir"] = <<I>>
    BY KernelRows, SMTT(20) DEF Plain
  <2> QED BY <2>1, <2>2, <2>3, Fields DEF Agree
<1>6. Agree("creat")
  <2>1. Puts("creat") = <<Wr!D, Wr!L>> /\ Gets("creat") = {}
    BY WrapperRows DEF Wr!PathCalls
  <2>2. Hosts("creat") = <<Un!B, Un!L>>
    BY HostRows DEF Un!HostPaths
  <2>3. Prototype["creat"] = <<R, I>>
    BY KernelRows, SMTT(20) DEF Pathed
  <2> QED BY <2>1, <2>2, <2>3, Fields DEF Agree
<1>7. Agree("chdir")
  <2>1. Puts("chdir") = <<Wr!D>> /\ Gets("chdir") = {}
    BY WrapperRows DEF Wr!PathCalls
  <2>2. Hosts("chdir") = <<Un!B>>
    BY HostRows DEF Un!HostPaths
  <2>3. Prototype["chdir"] = <<R>>
    BY KernelRows, SMTT(20) DEF Pathed
  <2> QED BY <2>1, <2>2, <2>3, Fields DEF Agree
<1>8. Agree("rmdir")
  <2>1. Puts("rmdir") = <<Wr!D>> /\ Gets("rmdir") = {}
    BY WrapperRows DEF Wr!PathCalls
  <2>2. Hosts("rmdir") = <<Un!B>>
    BY HostRows DEF Un!HostPaths
  <2>3. Prototype["rmdir"] = <<R>>
    BY KernelRows, SMTT(20) DEF Pathed
  <2> QED BY <2>1, <2>2, <2>3, Fields DEF Agree
<1>9. Agree("rename")
  <2>1. Puts("rename") = <<Wr!D, Wr!D>> /\ Gets("rename") = {}
    BY WrapperRows DEF Wr!PathCalls
  <2>2. Hosts("rename") = <<Un!B, Un!B>>
    BY HostRows DEF Un!HostPaths
  <2>3. Prototype["rename"] = <<R, R>>
    BY KernelRows, SMTT(20) DEF Pathed
  <2> QED BY <2>1, <2>2, <2>3, Fields DEF Agree
<1>10. Agree("mkdir")
  <2>1. Puts("mkdir") = <<Wr!D, Wr!I>> /\ Gets("mkdir") = {}
    BY WrapperRows DEF Wr!PathCalls
  <2>2. Hosts("mkdir") = <<Un!B, Un!I>>
    BY HostRows DEF Un!HostPaths
  <2>3. Prototype["mkdir"] = <<R, I>>
    BY KernelRows, SMTT(20) DEF Pathed
  <2> QED BY <2>1, <2>2, <2>3, Fields DEF Agree
<1> QED
  BY WrapperNames, <1>1, <1>2, <1>3, <1>4, <1>5, <1>6, <1>7, <1>8, <1>9, <1>10

LEMMA LinkCallsAgree == \A c \in DOMAIN Wr!LinkCalls : Agree(c)
<1>1. Agree("link")
  <2>1. Puts("link") = <<Wr!D, Wr!D>> /\ Gets("link") = {}
    BY WrapperRows DEF Wr!LinkCalls
  <2>2. Hosts("link") = <<Un!B, Un!B>>
    BY HostRows DEF Un!HostPaths
  <2>3. Prototype["link"] = <<R, R>>
    BY KernelRows, SMTT(20) DEF Pathed
  <2> QED BY <2>1, <2>2, <2>3, Fields DEF Agree
<1>2. Agree("symlink")
  <2>1. Puts("symlink") = <<Wr!D, Wr!D>> /\ Gets("symlink") = {}
    BY WrapperRows DEF Wr!LinkCalls
  <2>2. Hosts("symlink") = <<Un!B, Un!B>>
    BY HostRows DEF Un!HostPaths
  <2>3. Prototype["symlink"] = <<R, R>>
    BY KernelRows, SMTT(20) DEF Pathed
  <2> QED BY <2>1, <2>2, <2>3, Fields DEF Agree
<1>3. Agree("unlink")
  <2>1. Puts("unlink") = <<Wr!D>> /\ Gets("unlink") = {}
    BY WrapperRows DEF Wr!LinkCalls
  <2>2. Hosts("unlink") = <<Un!B>>
    BY HostRows DEF Un!HostPaths
  <2>3. Prototype["unlink"] = <<R>>
    BY KernelRows, SMTT(20) DEF Pathed
  <2> QED BY <2>1, <2>2, <2>3, Fields DEF Agree
<1>4. Agree("readlink")
  <2>1. Puts("readlink") = <<Wr!D, Wr!N, Wr!L>> /\ Gets("readlink") = {Wr!Get(2, "positive",
          "result")}
        /\ Wr!Get(2, "positive", "result") \in Gets("readlink")
    BY WrapperRows DEF Wr!LinkCalls
  <2>2. Hosts("readlink") = <<Un!B, Un!B, Un!L>>
    BY HostRows DEF Un!HostPaths
  <2>3. Prototype["readlink"] = <<R, C, I>>
    BY KernelRows, SMTT(20) DEF Pathed
  <2>4. Sends("readlink")
    BY <2>1, <2>2, <2>3, Fields
  <2>5. Fetches("readlink")
    BY <2>1, <2>2, <2>3, Fields
  <2>6. Copies("readlink")
    BY <2>1, <2>2, <2>3, Fields
  <2>7. Careful("readlink")
    BY <2>1, <2>2, <2>3, Fields, SMTT(20)
  <2> QED BY <2>4, <2>5, <2>6, <2>7 DEF Agree
<1>5. Agree("chmod")
  <2>1. Puts("chmod") = <<Wr!D, Wr!I>> /\ Gets("chmod") = {}
    BY WrapperRows DEF Wr!LinkCalls
  <2>2. Hosts("chmod") = <<Un!B, Un!I>>
    BY HostRows DEF Un!HostOwners
  <2>3. Prototype["chmod"] = <<R, I>>
    BY KernelRows, SMTT(20) DEF Pathed
  <2> QED BY <2>1, <2>2, <2>3, Fields DEF Agree
<1>6. Agree("fchmod")
  <2>1. Puts("fchmod") = <<Wr!L, Wr!I>> /\ Gets("fchmod") = {}
    BY WrapperRows DEF Wr!LinkCalls
  <2>2. Hosts("fchmod") = <<Un!L, Un!I>>
    BY HostRows DEF Un!HostOwners
  <2>3. Prototype["fchmod"] = <<I, I>>
    BY KernelRows, SMTT(20) DEF Numbers
  <2> QED BY <2>1, <2>2, <2>3, Fields DEF Agree
<1>7. Agree("chown")
  <2>1. Puts("chown") = <<Wr!D, Wr!I, Wr!I>> /\ Gets("chown") = {}
    BY WrapperRows DEF Wr!LinkCalls
  <2>2. Hosts("chown") = <<Un!B, Un!I, Un!I>>
    BY HostRows DEF Un!HostOwners
  <2>3. Prototype["chown"] = <<R, I, I>>
    BY KernelRows, SMTT(20) DEF Pathed
  <2> QED BY <2>1, <2>2, <2>3, Fields DEF Agree
<1>8. Agree("lchown")
  <2>1. Puts("lchown") = <<Wr!D, Wr!I, Wr!I>> /\ Gets("lchown") = {}
    BY WrapperRows DEF Wr!LinkCalls
  <2>2. Hosts("lchown") = <<Un!B, Un!I, Un!I>>
    BY HostRows DEF Un!HostOwners
  <2>3. Prototype["lchown"] = <<R, I, I>>
    BY KernelRows, SMTT(20) DEF Pathed
  <2> QED BY <2>1, <2>2, <2>3, Fields DEF Agree
<1>9. Agree("fchown")
  <2>1. Puts("fchown") = <<Wr!L, Wr!I, Wr!I>> /\ Gets("fchown") = {}
    BY WrapperRows DEF Wr!LinkCalls
  <2>2. Hosts("fchown") = <<Un!L, Un!I, Un!I>>
    BY HostRows DEF Un!HostOwners
  <2>3. Prototype["fchown"] = <<I, I, I>>
    BY KernelRows, SMTT(20) DEF Numbers
  <2> QED BY <2>1, <2>2, <2>3, Fields DEF Agree
<1>10. Agree("umask")
  <2>1. Puts("umask") = <<Wr!I>> /\ Gets("umask") = {}
    BY WrapperRows DEF Wr!LinkCalls
  <2>2. Hosts("umask") = <<Un!I>>
    BY HostRows DEF Un!HostOwners
  <2>3. Prototype["umask"] = <<I>>
    BY KernelRows, SMTT(20) DEF Plain
  <2> QED BY <2>1, <2>2, <2>3, Fields DEF Agree
<1> QED
  BY WrapperNames, <1>1, <1>2, <1>3, <1>4, <1>5, <1>6, <1>7, <1>8, <1>9, <1>10

LEMMA ResourceCallsAgree == \A c \in DOMAIN Wr!ResourceCalls : Agree(c)
<1>1. Agree("gettimeofday")
  <2>1. Puts("gettimeofday") = <<Wr!D, Wr!D>> /\ Gets("gettimeofday") = {}
    BY WrapperRows DEF Wr!ResourceCalls
  <2>2. Hosts("gettimeofday") = <<Un!B, Un!B>>
    BY HostRows DEF Un!HostOwners
  <2>3. Prototype["gettimeofday"] = <<Maybe(W), Maybe(W)>>
    BY KernelRows, SMTT(20) DEF Choices
  <2>4. Sends("gettimeofday")
    BY <2>1, <2>2, <2>3, Fields
  <2>5. Fetches("gettimeofday")
    BY <2>1, <2>2, <2>3, Fields
  <2>6. Copies("gettimeofday")
    BY <2>1, <2>2, <2>3, Fields
  <2>7. Careful("gettimeofday")
    BY <2>1, <2>2, <2>3, Fields, SMTT(20)
  <2> QED BY <2>4, <2>5, <2>6, <2>7 DEF Agree
<1>2. Agree("getrlimit")
  <2>1. Puts("getrlimit") = <<Wr!L, Wr!N>> /\ Gets("getrlimit") = {Wr!Always(2)}
        /\ Wr!Always(2) \in Gets("getrlimit")
    BY WrapperRows DEF Wr!ResourceCalls
  <2>2. Hosts("getrlimit") = <<Un!L, Un!B>>
    BY HostRows DEF Un!HostOwners
  <2>3. Prototype["getrlimit"] = <<I, W>>
    BY KernelRows, SMTT(20) DEF Blocks
  <2>4. Sends("getrlimit")
    BY <2>1, <2>2, <2>3, Fields
  <2>5. Fetches("getrlimit")
    BY <2>1, <2>2, <2>3, Fields
  <2>6. Copies("getrlimit")
    BY <2>1, <2>2, <2>3, Fields
  <2>7. Careful("getrlimit")
    BY <2>1, <2>2, <2>3, Fields, SMTT(20)
  <2> QED BY <2>4, <2>5, <2>6, <2>7 DEF Agree
<1>3. Agree("getrusage")
  <2>1. Puts("getrusage") = <<Wr!L, Wr!N>> /\ Gets("getrusage") = {Wr!Always(2)}
        /\ Wr!Always(2) \in Gets("getrusage")
    BY WrapperRows DEF Wr!ResourceCalls
  <2>2. Hosts("getrusage") = <<Un!L, Un!B>>
    BY HostRows DEF Un!HostOwners
  <2>3. Prototype["getrusage"] = <<I, P>>
    BY KernelRows, SMTT(20) DEF Blocks
  <2>4. Sends("getrusage")
    BY <2>1, <2>2, <2>3, Fields
  <2>5. Fetches("getrusage")
    BY <2>1, <2>2, <2>3, Fields
  <2>6. Copies("getrusage")
    BY <2>1, <2>2, <2>3, Fields
  <2>7. Careful("getrusage")
    BY <2>1, <2>2, <2>3, Fields, SMTT(20)
  <2> QED BY <2>4, <2>5, <2>6, <2>7 DEF Agree
<1>4. Agree("sysinfo")
  <2>1. Puts("sysinfo") = <<Wr!N>> /\ Gets("sysinfo") = {Wr!Always(1)}
        /\ Wr!Always(1) \in Gets("sysinfo")
    BY WrapperRows DEF Wr!ResourceCalls
  <2>2. Hosts("sysinfo") = <<Un!B>>
    BY HostRows DEF Un!HostOwners
  <2>3. Prototype["sysinfo"] = <<P>>
    BY KernelRows, SMTT(20) DEF Blocks
  <2>4. Sends("sysinfo")
    BY <2>1, <2>2, <2>3, Fields
  <2>5. Fetches("sysinfo")
    BY <2>1, <2>2, <2>3, Fields
  <2>6. Copies("sysinfo")
    BY <2>1, <2>2, <2>3, Fields
  <2>7. Careful("sysinfo")
    BY <2>1, <2>2, <2>3, Fields, SMTT(20)
  <2> QED BY <2>4, <2>5, <2>6, <2>7 DEF Agree
<1>5. Agree("times")
  <2>1. Puts("times") = <<Wr!N>> /\ Gets("times") = {Wr!Always(1)}
        /\ Wr!Always(1) \in Gets("times")
    BY WrapperRows DEF Wr!ResourceCalls
  <2>2. Hosts("times") = <<Un!B>>
    BY HostRows DEF Un!HostOwners
  <2>3. Prototype["times"] = <<Maybe(W)>>
    BY KernelRows, SMTT(20) DEF Choices
  <2>4. Sends("times")
    BY <2>1, <2>2, <2>3, Fields
  <2>5. Fetches("times")
    BY <2>1, <2>2, <2>3, Fields
  <2>6. Copies("times")
    BY <2>1, <2>2, <2>3, Fields
  <2>7. Careful("times")
    BY <2>1, <2>2, <2>3, Fields, SMTT(20)
  <2> QED BY <2>4, <2>5, <2>6, <2>7 DEF Agree
<1>6. Agree("getuid")
  <2>1. Puts("getuid") = << >> /\ Gets("getuid") = {}
    BY WrapperRows DEF Wr!ResourceCalls
  <2>2. Hosts("getuid") = << >>
    BY HostRows DEF Un!HostIdentities
  <2>3. Prototype["getuid"] = << >>
    BY KernelRows, SMTT(20) DEF Plain
  <2> QED BY <2>1, <2>2, <2>3, Fields DEF Agree
<1>7. Agree("getgid")
  <2>1. Puts("getgid") = << >> /\ Gets("getgid") = {}
    BY WrapperRows DEF Wr!ResourceCalls
  <2>2. Hosts("getgid") = << >>
    BY HostRows DEF Un!HostIdentities
  <2>3. Prototype["getgid"] = << >>
    BY KernelRows, SMTT(20) DEF Plain
  <2> QED BY <2>1, <2>2, <2>3, Fields DEF Agree
<1>8. Agree("geteuid")
  <2>1. Puts("geteuid") = << >> /\ Gets("geteuid") = {}
    BY WrapperRows DEF Wr!ResourceCalls
  <2>2. Hosts("geteuid") = << >>
    BY HostRows DEF Un!HostIdentities
  <2>3. Prototype["geteuid"] = << >>
    BY KernelRows, SMTT(20) DEF Plain
  <2> QED BY <2>1, <2>2, <2>3, Fields DEF Agree
<1>9. Agree("getegid")
  <2>1. Puts("getegid") = << >> /\ Gets("getegid") = {}
    BY WrapperRows DEF Wr!ResourceCalls
  <2>2. Hosts("getegid") = << >>
    BY HostRows DEF Un!HostIdentities
  <2>3. Prototype["getegid"] = << >>
    BY KernelRows, SMTT(20) DEF Plain
  <2> QED BY <2>1, <2>2, <2>3, Fields DEF Agree
<1>10. Agree("getppid")
  <2>1. Puts("getppid") = << >> /\ Gets("getppid") = {}
    BY WrapperRows DEF Wr!ResourceCalls
  <2>2. Hosts("getppid") = << >>
    BY HostRows DEF Un!HostIdentities
  <2>3. Prototype["getppid"] = << >>
    BY KernelRows, SMTT(20) DEF Plain
  <2> QED BY <2>1, <2>2, <2>3, Fields DEF Agree
<1>11. Agree("setsid")
  <2>1. Puts("setsid") = << >> /\ Gets("setsid") = {}
    BY WrapperRows DEF Wr!ResourceCalls
  <2>2. Hosts("setsid") = << >>
    BY HostRows DEF Un!HostIdentities
  <2>3. Prototype["setsid"] = << >>
    BY KernelRows, SMTT(20) DEF Plain
  <2> QED BY <2>1, <2>2, <2>3, Fields DEF Agree
<1>12. Agree("setuid")
  <2>1. Puts("setuid") = <<Wr!I>> /\ Gets("setuid") = {}
    BY WrapperRows DEF Wr!ResourceCalls
  <2>2. Hosts("setuid") = <<Un!L>>
    BY HostRows DEF Un!HostIdentities
  <2>3. Prototype["setuid"] = <<I>>
    BY KernelRows, SMTT(20) DEF Plain
  <2> QED BY <2>1, <2>2, <2>3, Fields DEF Agree
<1>13. Agree("setgid")
  <2>1. Puts("setgid") = <<Wr!I>> /\ Gets("setgid") = {}
    BY WrapperRows DEF Wr!ResourceCalls
  <2>2. Hosts("setgid") = <<Un!L>>
    BY HostRows DEF Un!HostIdentities
  <2>3. Prototype["setgid"] = <<I>>
    BY KernelRows, SMTT(20) DEF Plain
  <2> QED BY <2>1, <2>2, <2>3, Fields DEF Agree
<1>14. Agree("getpgrp")
  <2>1. Puts("getpgrp") = <<Wr!I>> /\ Gets("getpgrp") = {}
    BY WrapperRows DEF Wr!ResourceCalls
  <2>2. Hosts("getpgrp") = <<Un!I>>
    BY HostRows DEF Un!HostIdentities
  <2>3. Prototype["getpgrp"] = << >>
    BY KernelRows, SMTT(20) DEF Plain
  <2> QED BY <2>1, <2>2, <2>3, Fields DEF Agree
<1>15. Agree("getpgid")
  <2>1. Puts("getpgid") = <<Wr!I>> /\ Gets("getpgid") = {}
    BY WrapperRows DEF Wr!ResourceCalls
  <2>2. Hosts("getpgid") = <<Un!I>>
    BY HostRows DEF Un!HostIdentities
  <2>3. Prototype["getpgid"] = <<I>>
    BY KernelRows, SMTT(20) DEF Plain
  <2> QED BY <2>1, <2>2, <2>3, Fields DEF Agree
<1>16. Agree("setpgid")
  <2>1. Puts("setpgid") = <<Wr!I, Wr!I>> /\ Gets("setpgid") = {}
    BY WrapperRows DEF Wr!ResourceCalls
  <2>2. Hosts("setpgid") = <<Un!L, Un!L>>
    BY HostRows DEF Un!HostIdentities
  <2>3. Prototype["setpgid"] = <<I, I>>
    BY KernelRows, SMTT(20) DEF Numbers
  <2> QED BY <2>1, <2>2, <2>3, Fields DEF Agree
<1> QED
  BY WrapperNames, <1>1, <1>2, <1>3, <1>4, <1>5, <1>6, <1>7, <1>8, <1>9, <1>10, <1>11,
     <1>12, <1>13, <1>14, <1>15, <1>16

LEMMA IdentityCallsAgree == \A c \in DOMAIN Wr!IdentityCalls : Agree(c)
<1>1. Agree("setreuid")
  <2>1. Puts("setreuid") = <<Wr!I, Wr!I>> /\ Gets("setreuid") = {}
    BY WrapperRows DEF Wr!IdentityCalls
  <2>2. Hosts("setreuid") = <<Un!I, Un!I>>
    BY HostRows DEF Un!HostIdentities
  <2>3. Prototype["setreuid"] = <<I, I>>
    BY KernelRows, SMTT(20) DEF Numbers
  <2> QED BY <2>1, <2>2, <2>3, Fields DEF Agree
<1>2. Agree("setregid")
  <2>1. Puts("setregid") = <<Wr!I, Wr!I>> /\ Gets("setregid") = {}
    BY WrapperRows DEF Wr!IdentityCalls
  <2>2. Hosts("setregid") = <<Un!I, Un!I>>
    BY HostRows DEF Un!HostIdentities
  <2>3. Prototype["setregid"] = <<I, I>>
    BY KernelRows, SMTT(20) DEF Numbers
  <2> QED BY <2>1, <2>2, <2>3, Fields DEF Agree
<1>3. Agree("getgroups")
  <2>1. Puts("getgroups") = <<Wr!L, Wr!N>> /\ Gets("getgroups") = {Wr!Given(2)}
        /\ Wr!Given(2) \in Gets("getgroups")
    BY WrapperRows DEF Wr!IdentityCalls
  <2>2. Hosts("getgroups") = <<Un!L, Un!B>>
    BY HostRows DEF Un!HostIdentities
  <2>3. Prototype["getgroups"] = <<I, Maybe(C)>>
    BY KernelRows, SMTT(20) DEF Choices
  <2>4. Sends("getgroups")
    BY <2>1, <2>2, <2>3, Fields
  <2>5. Fetches("getgroups")
    BY <2>1, <2>2, <2>3, Fields
  <2>6. Copies("getgroups")
    BY <2>1, <2>2, <2>3, Fields
  <2>7. Careful("getgroups")
    BY <2>1, <2>2, <2>3, Fields, SMTT(20)
  <2> QED BY <2>4, <2>5, <2>6, <2>7 DEF Agree
<1>4. Agree("setgroups")
  <2>1. Puts("setgroups") = <<Wr!L, Wr!O>> /\ Gets("setgroups") = {}
    BY WrapperRows DEF Wr!IdentityCalls
  <2>2. Hosts("setgroups") = <<Un!L, Un!B>>
    BY HostRows DEF Un!HostIdentities
  <2>3. Prototype["setgroups"] = <<I, Maybe(R)>>
    BY KernelRows, SMTT(20) DEF Choices
  <2> QED BY <2>1, <2>2, <2>3, Fields DEF Agree
<1>5. Agree("setresuid")
  <2>1. Puts("setresuid") = <<Wr!I, Wr!I, Wr!I>> /\ Gets("setresuid") = {}
    BY WrapperRows DEF Wr!IdentityCalls
  <2>2. Hosts("setresuid") = <<Un!I, Un!I, Un!I>>
    BY HostRows DEF Un!HostIdentities
  <2>3. Prototype["setresuid"] = <<I, I, I>>
    BY KernelRows, SMTT(20) DEF Numbers
  <2> QED BY <2>1, <2>2, <2>3, Fields DEF Agree
<1>6. Agree("setresgid")
  <2>1. Puts("setresgid") = <<Wr!I, Wr!I, Wr!I>> /\ Gets("setresgid") = {}
    BY WrapperRows DEF Wr!IdentityCalls
  <2>2. Hosts("setresgid") = <<Un!I, Un!I, Un!I>>
    BY HostRows DEF Un!HostIdentities
  <2>3. Prototype["setresgid"] = <<I, I, I>>
    BY KernelRows, SMTT(20) DEF Numbers
  <2> QED BY <2>1, <2>2, <2>3, Fields DEF Agree
<1>7. Agree("getresuid")
  <2>1. Puts("getresuid") = <<Wr!N, Wr!N, Wr!N>> /\ Gets("getresuid") = {Wr!Always(1),
          Wr!Always(2), Wr!Always(3)}
        /\ Wr!Always(1) \in Gets("getresuid") /\ Wr!Always(2) \in Gets("getresuid") /\
        Wr!Always(3) \in Gets("getresuid")
    BY WrapperRows DEF Wr!IdentityCalls
  <2>2. Hosts("getresuid") = <<Un!B, Un!B, Un!B>>
    BY HostRows DEF Un!HostIdentities
  <2>3. Prototype["getresuid"] = <<W, W, W>>
    BY KernelRows, SMTT(20) DEF Blocks
  <2>4. Sends("getresuid")
    BY <2>1, <2>2, <2>3, Fields
  <2>5. Fetches("getresuid")
    BY <2>1, <2>2, <2>3, Fields
  <2>6. Copies("getresuid")
    BY <2>1, <2>2, <2>3, Fields
  <2>7. Careful("getresuid")
    BY <2>1, <2>2, <2>3, Fields, SMTT(20)
  <2> QED BY <2>4, <2>5, <2>6, <2>7 DEF Agree
<1>8. Agree("getresgid")
  <2>1. Puts("getresgid") = <<Wr!N, Wr!N, Wr!N>> /\ Gets("getresgid") = {Wr!Always(1),
          Wr!Always(2), Wr!Always(3)}
        /\ Wr!Always(1) \in Gets("getresgid") /\ Wr!Always(2) \in Gets("getresgid") /\
        Wr!Always(3) \in Gets("getresgid")
    BY WrapperRows DEF Wr!IdentityCalls
  <2>2. Hosts("getresgid") = <<Un!B, Un!B, Un!B>>
    BY HostRows DEF Un!HostIdentities
  <2>3. Prototype["getresgid"] = <<W, W, W>>
    BY KernelRows, SMTT(20) DEF Blocks
  <2>4. Sends("getresgid")
    BY <2>1, <2>2, <2>3, Fields
  <2>5. Fetches("getresgid")
    BY <2>1, <2>2, <2>3, Fields
  <2>6. Copies("getresgid")
    BY <2>1, <2>2, <2>3, Fields
  <2>7. Careful("getresgid")
    BY <2>1, <2>2, <2>3, Fields, SMTT(20)
  <2> QED BY <2>4, <2>5, <2>6, <2>7 DEF Agree
<1>9. Agree("getsid")
  <2>1. Puts("getsid") = <<Wr!I>> /\ Gets("getsid") = {}
    BY WrapperRows DEF Wr!IdentityCalls
  <2>2. Hosts("getsid") = <<Un!I>>
    BY HostRows DEF Un!HostIdentities
  <2>3. Prototype["getsid"] = <<I>>
    BY KernelRows, SMTT(20) DEF Plain
  <2> QED BY <2>1, <2>2, <2>3, Fields DEF Agree
<1> QED
  BY WrapperNames, <1>1, <1>2, <1>3, <1>4, <1>5, <1>6, <1>7, <1>8, <1>9

LEMMA PendingCallsAgree == \A c \in DOMAIN Wr!PendingCalls : Agree(c)
<1>1. Agree("rt_sigsuspend")
  <2>1. Puts("rt_sigsuspend") = <<Wr!D, Wr!L>> /\ Gets("rt_sigsuspend") = {}
    BY WrapperRows DEF Wr!PendingCalls
  <2>2. Hosts("rt_sigsuspend") = <<Un!B, Un!L>>
    BY HostRows DEF Un!HostPending
  <2>3. Prototype["rt_sigsuspend"] = <<R, L>>
    BY KernelRows, SMTT(20) DEF Choices
  <2> QED BY <2>1, <2>2, <2>3, Fields DEF Agree
<1>2. Agree("rt_sigpending")
  <2>1. Puts("rt_sigpending") = <<Wr!D, Wr!L>> /\ Gets("rt_sigpending") = {}
    BY WrapperRows DEF Wr!PendingCalls
  <2>2. Hosts("rt_sigpending") = <<Un!B, Un!L>>
    BY HostRows DEF Un!HostPending
  <2>3. Prototype["rt_sigpending"] = <<W, L>>
    BY KernelRows, SMTT(20) DEF Choices
  <2>4. Sends("rt_sigpending")
    BY <2>1, <2>2, <2>3, Fields
  <2>5. Fetches("rt_sigpending")
    BY <2>1, <2>2, <2>3, Fields
  <2>6. Copies("rt_sigpending")
    BY <2>1, <2>2, <2>3, Fields
  <2>7. Careful("rt_sigpending")
    BY <2>1, <2>2, <2>3, Fields, SMTT(20)
  <2> QED BY <2>4, <2>5, <2>6, <2>7 DEF Agree
<1>3. Agree("rt_sigtimedwait")
  <2>1. Puts("rt_sigtimedwait") = <<Wr!D, Wr!D, Wr!D, Wr!L>> /\ Gets("rt_sigtimedwait") = {}
    BY WrapperRows DEF Wr!PendingCalls
  <2>2. Hosts("rt_sigtimedwait") = <<Un!B, Un!B, Un!B, Un!L>>
    BY HostRows DEF Un!HostPending
  <2>3. Prototype["rt_sigtimedwait"] = <<R, Maybe(W), Maybe(R), L>>
    BY KernelRows, SMTT(20) DEF Choices
  <2>4. Sends("rt_sigtimedwait")
    BY <2>1, <2>2, <2>3, Fields
  <2>5. Fetches("rt_sigtimedwait")
    BY <2>1, <2>2, <2>3, Fields
  <2>6. Copies("rt_sigtimedwait")
    BY <2>1, <2>2, <2>3, Fields
  <2>7. Careful("rt_sigtimedwait")
    BY <2>1, <2>2, <2>3, Fields, SMTT(20)
  <2> QED BY <2>4, <2>5, <2>6, <2>7 DEF Agree
<1>4. Agree("rt_sigqueueinfo")
  <2>1. Puts("rt_sigqueueinfo") = <<Wr!I, Wr!I, Wr!D>> /\ Gets("rt_sigqueueinfo") = {}
    BY WrapperRows DEF Wr!PendingCalls
  <2>2. Hosts("rt_sigqueueinfo") = <<Un!L, Un!L, Un!B>>
    BY HostRows DEF Un!HostPending
  <2>3. Prototype["rt_sigqueueinfo"] = <<I, I, R>>
    BY KernelRows, SMTT(20) DEF Choices
  <2> QED BY <2>1, <2>2, <2>3, Fields DEF Agree
<1>5. Agree("sigaltstack")
  <2>1. Puts("sigaltstack") = <<Wr!O, Wr!N>> /\ Gets("sigaltstack") = {Wr!Given(2)}
        /\ Wr!Given(2) \in Gets("sigaltstack")
    BY WrapperRows DEF Wr!PendingCalls
  <2>2. Hosts("sigaltstack") = <<Un!B, Un!B>>
    BY HostRows DEF Un!HostPending
  <2>3. Prototype["sigaltstack"] = <<Maybe(R), Maybe(W)>>
    BY KernelRows, SMTT(20) DEF Choices
  <2>4. Sends("sigaltstack")
    BY <2>1, <2>2, <2>3, Fields
  <2>5. Fetches("sigaltstack")
    BY <2>1, <2>2, <2>3, Fields
  <2>6. Copies("sigaltstack")
    BY <2>1, <2>2, <2>3, Fields
  <2>7. Careful("sigaltstack")
    BY <2>1, <2>2, <2>3, Fields, SMTT(20)
  <2> QED BY <2>4, <2>5, <2>6, <2>7 DEF Agree
<1>6. Agree("utime")
  <2>1. Puts("utime") = <<Wr!D, Wr!RefIn(3)>> /\ Gets("utime") = {}
    BY WrapperRows DEF Wr!PendingCalls
  <2>2. Hosts("utime") = <<Un!B, Un!L>>
    BY HostRows DEF Un!HostPending
  <2>3. Prototype["utime"] = <<R, Maybe(R)>>
    BY KernelRows, SMTT(20) DEF Pathed
  <2> QED BY <2>1, <2>2, <2>3, Fields DEF Agree
<1>7. Agree("personality")
  <2>1. Puts("personality") = <<Wr!L>> /\ Gets("personality") = {}
    BY WrapperRows DEF Wr!PendingCalls
  <2>2. Hosts("personality") = <<Un!L>>
    BY HostRows DEF Un!HostPending
  <2>3. Prototype["personality"] = <<L>>
    BY KernelRows, SMTT(20) DEF Plain
  <2> QED BY <2>1, <2>2, <2>3, Fields DEF Agree
<1> QED
  BY WrapperNames, <1>1, <1>2, <1>3, <1>4, <1>5, <1>6, <1>7

LEMMA MountCallsAgree == \A c \in DOMAIN Wr!MountCalls : Agree(c)
<1>1. Agree("statfs")
  <2>1. Puts("statfs") = <<Wr!D, Wr!N>> /\ Gets("statfs") = {Wr!Always(2)}
        /\ Wr!Always(2) \in Gets("statfs")
    BY WrapperRows DEF Wr!MountCalls
  <2>2. Hosts("statfs") = <<Un!B, Un!B>>
    BY HostRows DEF Un!HostPending
  <2>3. Prototype["statfs"] = <<R, W>>
    BY KernelRows, SMTT(20) DEF Pathed
  <2>4. Sends("statfs")
    BY <2>1, <2>2, <2>3, Fields
  <2>5. Fetches("statfs")
    BY <2>1, <2>2, <2>3, Fields
  <2>6. Copies("statfs")
    BY <2>1, <2>2, <2>3, Fields
  <2>7. Careful("statfs")
    BY <2>1, <2>2, <2>3, Fields, SMTT(20)
  <2> QED BY <2>4, <2>5, <2>6, <2>7 DEF Agree
<1>2. Agree("fstatfs")
  <2>1. Puts("fstatfs") = <<Wr!L, Wr!N>> /\ Gets("fstatfs") = {Wr!Always(2)}
        /\ Wr!Always(2) \in Gets("fstatfs")
    BY WrapperRows DEF Wr!MountCalls
  <2>2. Hosts("fstatfs") = <<Un!L, Un!B>>
    BY HostRows DEF Un!HostPending
  <2>3. Prototype["fstatfs"] = <<I, W>>
    BY KernelRows, SMTT(20) DEF Blocks
  <2>4. Sends("fstatfs")
    BY <2>1, <2>2, <2>3, Fields
  <2>5. Fetches("fstatfs")
    BY <2>1, <2>2, <2>3, Fields
  <2>6. Copies("fstatfs")
    BY <2>1, <2>2, <2>3, Fields
  <2>7. Careful("fstatfs")
    BY <2>1, <2>2, <2>3, Fields, SMTT(20)
  <2> QED BY <2>4, <2>5, <2>6, <2>7 DEF Agree
<1>3. Agree("getpriority")
  <2>1. Puts("getpriority") = <<Wr!L, Wr!I>> /\ Gets("getpriority") = {}
    BY WrapperRows DEF Wr!MountCalls
  <2>2. Hosts("getpriority") = <<Un!L, Un!I>>
    BY HostRows DEF Un!HostPending
  <2>3. Prototype["getpriority"] = <<I, I>>
    BY KernelRows, SMTT(20) DEF Numbers
  <2> QED BY <2>1, <2>2, <2>3, Fields DEF Agree
<1>4. Agree("setpriority")
  <2>1. Puts("setpriority") = <<Wr!L, Wr!I, Wr!L>> /\ Gets("setpriority") = {}
    BY WrapperRows DEF Wr!MountCalls
  <2>2. Hosts("setpriority") = <<Un!L, Un!I, Un!L>>
    BY HostRows DEF Un!HostPending
  <2>3. Prototype["setpriority"] = <<I, I, I>>
    BY KernelRows, SMTT(20) DEF Numbers
  <2> QED BY <2>1, <2>2, <2>3, Fields DEF Agree
<1>5. Agree("chroot")
  <2>1. Puts("chroot") = <<Wr!D>> /\ Gets("chroot") = {}
    BY WrapperRows DEF Wr!MountCalls
  <2>2. Hosts("chroot") = <<Un!B>>
    BY HostRows DEF Un!HostPending
  <2>3. Prototype["chroot"] = <<R>>
    BY KernelRows, SMTT(20) DEF Pathed
  <2> QED BY <2>1, <2>2, <2>3, Fields DEF Agree
<1>6. Agree("mount")
  <2>1. Puts("mount") = <<Wr!D, Wr!D, Wr!D, Wr!L, Wr!RefIn(6)>> /\ Gets("mount") = {}
    BY WrapperRows DEF Wr!MountCalls
  <2>2. Hosts("mount") = <<Un!B, Un!B, Un!B, Un!L, Un!L>>
    BY HostRows DEF Un!HostMounts
  <2>3. Prototype["mount"] = <<Maybe(R), R, Maybe(R), L, Maybe(R)>>
    BY KernelRows, SMTT(20) DEF Pathed
  <2> QED BY <2>1, <2>2, <2>3, Fields DEF Agree
<1>7. Agree("umount2")
  <2>1. Puts("umount2") = <<Wr!D, Wr!L>> /\ Gets("umount2") = {}
    BY WrapperRows DEF Wr!MountCalls
  <2>2. Hosts("umount2") = <<Un!B, Un!L>>
    BY HostRows DEF Un!HostMounts
  <2>3. Prototype["umount2"] = <<R, I>>
    BY KernelRows, SMTT(20) DEF Pathed
  <2> QED BY <2>1, <2>2, <2>3, Fields DEF Agree
<1>8. Agree("sync")
  <2>1. Puts("sync") = << >> /\ Gets("sync") = {}
    BY WrapperRows DEF Wr!MountCalls
  <2>2. Hosts("sync") = << >>
    BY HostRows DEF Un!HostMounts
  <2>3. Prototype["sync"] = << >>
    BY KernelRows, SMTT(20) DEF Plain
  <2> QED BY <2>1, <2>2, <2>3, Fields DEF Agree
<1>9. Agree("gettid")
  <2>1. Puts("gettid") = << >> /\ Gets("gettid") = {}
    BY WrapperRows DEF Wr!MountCalls
  <2>2. Hosts("gettid") = << >>
    BY HostRows DEF Un!HostMounts
  <2>3. Prototype["gettid"] = << >>
    BY KernelRows, SMTT(20) DEF Plain
  <2> QED BY <2>1, <2>2, <2>3, Fields DEF Agree
<1> QED
  BY WrapperNames, <1>1, <1>2, <1>3, <1>4, <1>5, <1>6, <1>7, <1>8, <1>9

LEMMA FutexCallsAgree == \A c \in DOMAIN Wr!FutexCalls : Agree(c)
<1>1. Agree("futex")
  <2>1. Puts("futex") = <<Wr!L, Wr!L, Wr!L, Wr!RefIn(7), Wr!Pointer(8), Wr!I>> /\
          Gets("futex") = {}
    BY WrapperRows DEF Wr!FutexCalls
  <2>2. Hosts("futex") = <<Un!L, Un!L, Un!L, Un!L, Un!B, Un!From(5)>>
    BY HostRows DEF Un!HostMounts
  <2>3. Prototype["futex"] = <<L, I, I, Maybe(R), Maybe(R), I>>
    BY KernelRows, SMTT(20) DEF Choices
  <2> QED BY <2>1, <2>2, <2>3, Fields DEF Agree
<1>2. Agree("sched_getaffinity")
  <2>1. Puts("sched_getaffinity") = <<Wr!I, Wr!L, Wr!H>> /\ Gets("sched_getaffinity") =
          {Wr!Get(3, "always", "fixed")}
        /\ Wr!Get(3, "always", "fixed") \in Gets("sched_getaffinity")
    BY WrapperRows DEF Wr!FutexCalls
  <2>2. Hosts("sched_getaffinity") = <<Un!I, Un!L, Un!B>>
    BY HostRows DEF Un!HostMounts
  <2>3. Prototype["sched_getaffinity"] = <<I, I, C>>
    BY KernelRows, SMTT(20) DEF Choices
  <2>4. Sends("sched_getaffinity")
    BY <2>1, <2>2, <2>3, Fields
  <2>5. Fetches("sched_getaffinity")
    BY <2>1, <2>2, <2>3, Fields
  <2>6. Copies("sched_getaffinity")
    BY <2>1, <2>2, <2>3, Fields
  <2>7. Careful("sched_getaffinity")
    BY <2>1, <2>2, <2>3, Fields, SMTT(20)
  <2> QED BY <2>4, <2>5, <2>6, <2>7 DEF Agree
<1>3. Agree("getdents64")
  <2>1. Puts("getdents64") = <<Wr!I, Wr!N, Wr!I>> /\ Gets("getdents64") = {Wr!Get(2,
          "nonzero", "result")}
        /\ Wr!Get(2, "nonzero", "result") \in Gets("getdents64")
    BY WrapperRows DEF Wr!FutexCalls
  <2>2. Hosts("getdents64") = <<Un!I, Un!B, Un!I>>
    BY HostRows DEF Un!HostWaits
  <2>3. Prototype["getdents64"] = <<I, C, I>>
    BY KernelRows, SMTT(20) DEF Blocks
  <2>4. Sends("getdents64")
    BY <2>1, <2>2, <2>3, Fields
  <2>5. Fetches("getdents64")
    BY <2>1, <2>2, <2>3, Fields
  <2>6. Copies("getdents64")
    BY <2>1, <2>2, <2>3, Fields
  <2>7. Careful("getdents64")
    BY <2>1, <2>2, <2>3, Fields, SMTT(20)
  <2> QED BY <2>4, <2>5, <2>6, <2>7 DEF Agree
<1>4. Agree("set_tid_address")
  <2>1. Puts("set_tid_address") = <<Wr!L>> /\ Gets("set_tid_address") = {}
    BY WrapperRows DEF Wr!FutexCalls
  <2>2. Hosts("set_tid_address") = <<Un!L>>
    BY HostRows DEF Un!HostMounts
  <2>3. Prototype["set_tid_address"] = <<L>>
    BY KernelRows, SMTT(20) DEF Plain
  <2> QED BY <2>1, <2>2, <2>3, Fields DEF Agree
<1>5. Agree("clock_gettime")
  <2>1. Puts("clock_gettime") = <<Wr!I, Wr!N>> /\ Gets("clock_gettime") = {Wr!Always(2)}
        /\ Wr!Always(2) \in Gets("clock_gettime")
    BY WrapperRows DEF Wr!FutexCalls
  <2>2. Hosts("clock_gettime") = <<Un!I, Un!B>>
    BY HostRows DEF Un!HostLookups
  <2>3. Prototype["clock_gettime"] = <<I, W>>
    BY KernelRows, SMTT(20) DEF Blocks
  <2>4. Sends("clock_gettime")
    BY <2>1, <2>2, <2>3, Fields
  <2>5. Fetches("clock_gettime")
    BY <2>1, <2>2, <2>3, Fields
  <2>6. Copies("clock_gettime")
    BY <2>1, <2>2, <2>3, Fields
  <2>7. Careful("clock_gettime")
    BY <2>1, <2>2, <2>3, Fields, SMTT(20)
  <2> QED BY <2>4, <2>5, <2>6, <2>7 DEF Agree
<1>6. Agree("clock_getres")
  <2>1. Puts("clock_getres") = <<Wr!I, Wr!N>> /\ Gets("clock_getres") = {Wr!Given(2)}
        /\ Wr!Given(2) \in Gets("clock_getres")
    BY WrapperRows DEF Wr!FutexCalls
  <2>2. Hosts("clock_getres") = <<Un!I, Un!B>>
    BY HostRows DEF Un!HostLookups
  <2>3. Prototype["clock_getres"] = <<I, Maybe(W)>>
    BY KernelRows, SMTT(20) DEF Choices
  <2>4. Sends("clock_getres")
    BY <2>1, <2>2, <2>3, Fields
  <2>5. Fetches("clock_getres")
    BY <2>1, <2>2, <2>3, Fields
  <2>6. Copies("clock_getres")
    BY <2>1, <2>2, <2>3, Fields
  <2>7. Careful("clock_getres")
    BY <2>1, <2>2, <2>3, Fields, SMTT(20)
  <2> QED BY <2>4, <2>5, <2>6, <2>7 DEF Agree
<1>7. Agree("exit_group")
  <2>1. Puts("exit_group") = <<Wr!L>> /\ Gets("exit_group") = {}
    BY WrapperRows DEF Wr!FutexCalls
  <2>2. Hosts("exit_group") = <<Un!L>>
    BY HostRows DEF Un!HostLookups
  <2>3. Prototype["exit_group"] = <<I>>
    BY KernelRows, SMTT(20) DEF Plain
  <2> QED BY <2>1, <2>2, <2>3, Fields DEF Agree
<1> QED
  BY WrapperNames, <1>1, <1>2, <1>3, <1>4, <1>5, <1>6, <1>7

LEMMA AtCallsAgree == \A c \in DOMAIN Wr!AtCalls : Agree(c)
<1>1. Agree("epoll_ctl")
  <2>1. Puts("epoll_ctl") = <<Wr!I, Wr!I, Wr!I, Wr!RefIn(5)>> /\ Gets("epoll_ctl") = {}
    BY WrapperRows DEF Wr!AtCalls
  <2>2. Hosts("epoll_ctl") = <<Un!I, Un!I, Un!I, Un!L>>
    BY HostRows DEF Un!HostLookups
  <2>3. Prototype["epoll_ctl"] = <<I, I, I, Maybe(R)>>
    BY KernelRows, SMTT(20) DEF Choices
  <2> QED BY <2>1, <2>2, <2>3, Fields DEF Agree
<1>2. Agree("utimes")
  <2>1. Puts("utimes") = <<Wr!D, Wr!RefIn(3)>> /\ Gets("utimes") = {}
    BY WrapperRows DEF Wr!AtCalls
  <2>2. Hosts("utimes") = <<Un!B, Un!L>>
    BY HostRows DEF Un!HostLookups
  <2>3. Prototype["utimes"] = <<R, Maybe(R)>>
    BY KernelRows, SMTT(20) DEF Pathed
  <2> QED BY <2>1, <2>2, <2>3, Fields DEF Agree
<1>3. Agree("openat")
  <2>1. Puts("openat") = <<Wr!L, Wr!D, Wr!L, Wr!Copy(3)>> /\ Gets("openat") = {}
    BY WrapperRows DEF Wr!AtCalls
  <2>2. Hosts("openat") = <<Un!L, Un!B, Un!L, Un!I>>
    BY HostRows DEF Un!HostLookups
  <2>3. Prototype["openat"] = <<I, R, I, I>>
    BY KernelRows, SMTT(20) DEF Pathed
  <2> QED BY <2>1, <2>2, <2>3, Fields DEF Agree
<1>4. Agree("fchownat")
  <2>1. Puts("fchownat") = <<Wr!L, Wr!D, Wr!I, Wr!I, Wr!L>> /\ Gets("fchownat") = {}
    BY WrapperRows DEF Wr!AtCalls
  <2>2. Hosts("fchownat") = <<Un!L, Un!B, Un!I, Un!I, Un!L>>
    BY HostRows DEF Un!HostLookups
  <2>3. Prototype["fchownat"] = <<I, R, I, I, I>>
    BY KernelRows, SMTT(20) DEF Pathed
  <2> QED BY <2>1, <2>2, <2>3, Fields DEF Agree
<1>5. Agree("futimesat")
  <2>1. Puts("futimesat") = <<Wr!L, Wr!D, Wr!RefIn(4)>> /\ Gets("futimesat") = {}
    BY WrapperRows DEF Wr!AtCalls
  <2>2. Hosts("futimesat") = <<Un!L, Un!B, Un!L>>
    BY HostRows DEF Un!HostLookups
  <2>3. Prototype["futimesat"] = <<I, R, Maybe(R)>>
    BY KernelRows, SMTT(20) DEF Pathed
  <2> QED BY <2>1, <2>2, <2>3, Fields DEF Agree
<1> QED
  BY WrapperNames, <1>1, <1>2, <1>3, <1>4, <1>5

LEMMA LookupCallsAgree == \A c \in DOMAIN Wr!LookupCalls : Agree(c)
<1>1. Agree("newfstatat")
  <2>1. Puts("newfstatat") = <<Wr!L, Wr!D, Wr!N, Wr!L>> /\ Gets("newfstatat") =
          {Wr!Always(3)}
        /\ Wr!Always(3) \in Gets("newfstatat")
    BY WrapperRows DEF Wr!LookupCalls
  <2>2. Hosts("newfstatat") = <<Un!L, Un!B, Un!B, Un!L>>
    BY HostRows DEF Un!HostLookups
  <2>3. Prototype["newfstatat"] = <<I, R, W, I>>
    BY KernelRows, SMTT(20) DEF Pathed
  <2>4. Sends("newfstatat")
    BY <2>1, <2>2, <2>3, Fields
  <2>5. Fetches("newfstatat")
    BY <2>1, <2>2, <2>3, Fields
  <2>6. Copies("newfstatat")
    BY <2>1, <2>2, <2>3, Fields
  <2>7. Careful("newfstatat")
    BY <2>1, <2>2, <2>3, Fields, SMTT(20)
  <2> QED BY <2>4, <2>5, <2>6, <2>7 DEF Agree
<1>2. Agree("unlinkat")
  <2>1. Puts("unlinkat") = <<Wr!L, Wr!D, Wr!L>> /\ Gets("unlinkat") = {}
    BY WrapperRows DEF Wr!LookupCalls
  <2>2. Hosts("unlinkat") = <<Un!L, Un!B, Un!L>>
    BY HostRows DEF Un!HostLookups
  <2>3. Prototype["unlinkat"] = <<I, R, I>>
    BY KernelRows, SMTT(20) DEF Pathed
  <2> QED BY <2>1, <2>2, <2>3, Fields DEF Agree
<1>3. Agree("readlinkat")
  <2>1. Puts("readlinkat") = <<Wr!L, Wr!D, Wr!N, Wr!L>> /\ Gets("readlinkat") = {Wr!Get(3,
          "succeeded", "result")}
        /\ Wr!Get(3, "succeeded", "result") \in Gets("readlinkat")
    BY WrapperRows DEF Wr!LookupCalls
  <2>2. Hosts("readlinkat") = <<Un!L, Un!B, Un!B, Un!L>>
    BY HostRows DEF Un!HostLookups
  <2>3. Prototype["readlinkat"] = <<I, R, C, I>>
    BY KernelRows, SMTT(20) DEF Pathed
  <2>4. Sends("readlinkat")
    BY <2>1, <2>2, <2>3, Fields
  <2>5. Fetches("readlinkat")
    BY <2>1, <2>2, <2>3, Fields
  <2>6. Copies("readlinkat")
    BY <2>1, <2>2, <2>3, Fields
  <2>7. Careful("readlinkat")
    BY <2>1, <2>2, <2>3, Fields, SMTT(20)
  <2> QED BY <2>4, <2>5, <2>6, <2>7 DEF Agree
<1>4. Agree("fchmodat")
  <2>1. Puts("fchmodat") = <<Wr!L, Wr!D, Wr!I, Wr!L>> /\ Gets("fchmodat") = {}
    BY WrapperRows DEF Wr!LookupCalls
  <2>2. Hosts("fchmodat") = <<Un!L, Un!B, Un!I, Un!L>>
    BY HostRows DEF Un!HostWaits
  <2>3. Prototype["fchmodat"] = <<I, R, I>>
    BY KernelRows, SMTT(20) DEF Pathed
  <2> QED BY <2>1, <2>2, <2>3, Fields DEF Agree
<1>5. Agree("faccessat")
  <2>1. Puts("faccessat") = <<Wr!L, Wr!D, Wr!L, Wr!L>> /\ Gets("faccessat") = {}
    BY WrapperRows DEF Wr!LookupCalls
  <2>2. Hosts("faccessat") = <<Un!L, Un!B, Un!L, Un!L>>
    BY HostRows DEF Un!HostWaits
  <2>3. Prototype["faccessat"] = <<I, R, I>>
    BY KernelRows, SMTT(20) DEF Pathed
  <2> QED BY <2>1, <2>2, <2>3, Fields DEF Agree
<1> QED
  BY WrapperNames, <1>1, <1>2, <1>3, <1>4, <1>5

LEMMA WaitCallsAgree == \A c \in DOMAIN Wr!WaitCalls : Agree(c)
<1>1. Agree("pselect6")
  <2>1. Puts("pselect6") = <<Wr!N, Wr!RefIn(7), Wr!RefHead(8), Wr!RefIn(9), Wr!RefIn(10),
          Wr!Item("stray", 11, 0)>> /\ Gets("pselect6") = {}
    BY WrapperRows DEF Wr!WaitCalls
  <2>2. Hosts("pselect6") = <<Un!I, Un!L, Un!L, Un!L, Un!L, Un!L>>
    BY HostRows DEF Un!HostWaits
  <2>3. Prototype["pselect6"] = <<I, Maybe(E), Maybe(E), Maybe(E), Maybe(R), Maybe(R)>>
    BY KernelRows, SMTT(20) DEF Choices
  <2>4. Sends("pselect6")
    BY <2>1, <2>2, <2>3, Fields
  <2>5. Fetches("pselect6")
    BY <2>1, <2>2, <2>3, Fields
  <2>6. Copies("pselect6")
    BY <2>1, <2>2, <2>3, Fields
  <2>7. Careful("pselect6")
    BY <2>1, <2>2, <2>3, Fields, SMTT(20)
  <2> QED BY <2>4, <2>5, <2>6, <2>7 DEF Agree
<1>2. Agree("utimensat")
  <2>1. Puts("utimensat") = <<Wr!L, Wr!RefIn(5), Wr!RefIn(6), Wr!L>> /\ Gets("utimensat") =
          {}
    BY WrapperRows DEF Wr!WaitCalls
  <2>2. Hosts("utimensat") = <<Un!L, Un!L, Un!L, Un!L>>
    BY HostRows DEF Un!HostWaits
  <2>3. Prototype["utimensat"] = <<I, Maybe(R), Maybe(R), I>>
    BY KernelRows, SMTT(20) DEF Pathed
  <2> QED BY <2>1, <2>2, <2>3, Fields DEF Agree
<1>3. Agree("epoll_pwait")
  <2>1. Puts("epoll_pwait") = <<Wr!I, Wr!N, Wr!I, Wr!I, Wr!O, Wr!L>> /\ Gets("epoll_pwait")
          = {Wr!Get(2, "positive", "result")}
        /\ Wr!Get(2, "positive", "result") \in Gets("epoll_pwait")
    BY WrapperRows DEF Wr!WaitCalls
  <2>2. Hosts("epoll_pwait") = <<Un!I, Un!B, Un!I, Un!I, Un!Z, Un!L>>
    BY HostRows DEF Un!HostWaits
  <2>3. Prototype["epoll_pwait"] = <<I, C, I, I, Maybe(R), L>>
    BY KernelRows, SMTT(20) DEF Choices
  <2>4. Sends("epoll_pwait")
    BY <2>1, <2>2, <2>3, Fields
  <2>5. Fetches("epoll_pwait")
    BY <2>1, <2>2, <2>3, Fields
  <2>6. Copies("epoll_pwait")
    BY <2>1, <2>2, <2>3, Fields
  <2>7. Careful("epoll_pwait")
    BY <2>1, <2>2, <2>3, Fields, SMTT(20)
  <2> QED BY <2>4, <2>5, <2>6, <2>7 DEF Agree
<1> QED
  BY WrapperNames, <1>1, <1>2, <1>3

LEMMA RecentCallsAgree == \A c \in DOMAIN Wr!RecentCalls : Agree(c)
<1>1. Agree("fallocate")
  <2>1. Puts("fallocate") = <<Wr!L, Wr!L, Wr!L, Wr!L>> /\ Gets("fallocate") = {}
    BY WrapperRows DEF Wr!RecentCalls
  <2>2. Hosts("fallocate") = <<Un!L, Un!L, Un!L, Un!L>>
    BY HostRows DEF Un!HostRecent
  <2>3. Prototype["fallocate"] = <<I, I, L, L>>
    BY KernelRows, SMTT(20) DEF Numbers
  <2> QED BY <2>1, <2>2, <2>3, Fields DEF Agree
<1>2. Agree("accept4")
  <2>1. Puts("accept4") = <<Wr!I, Wr!N, Wr!O, Wr!I>> /\ Gets("accept4") = {Wr!Get(2, "given", "fixed"),
          Wr!Given(3)}
        /\ Wr!Get(2, "given", "fixed") \in Gets("accept4") /\ Wr!Given(3) \in Gets("accept4")
    BY WrapperRows DEF Wr!RecentCalls
  <2>2. Hosts("accept4") = <<Un!I, Un!B, Un!B, Un!I>>
    BY HostRows DEF Un!HostRecent
  <2>3. Prototype["accept4"] = <<I, Maybe(V), Maybe(B), I>>
    BY KernelRows, SMTT(20) DEF Sockets
  <2>4. Sends("accept4")
    BY <2>1, <2>2, <2>3, Fields
  <2>5. Fetches("accept4")
    BY <2>1, <2>2, <2>3, Fields
  <2>6. Copies("accept4")
    BY <2>1, <2>2, <2>3, Fields
  <2>7. Careful("accept4")
    BY <2>1, <2>2, <2>3, Fields, SMTT(20)
  <2> QED BY <2>4, <2>5, <2>6, <2>7 DEF Agree
<1>3. Agree("eventfd2")
  <2>1. Puts("eventfd2") = <<Wr!I, Wr!I>> /\ Gets("eventfd2") = {}
    BY WrapperRows DEF Wr!RecentCalls
  <2>2. Hosts("eventfd2") = <<Un!I, Un!I>>
    BY HostRows DEF Un!HostRecent
  <2>3. Prototype["eventfd2"] = <<I, I>>
    BY KernelRows, SMTT(20) DEF Numbers
  <2> QED BY <2>1, <2>2, <2>3, Fields DEF Agree
<1>4. Agree("epoll_create1")
  <2>1. Puts("epoll_create1") = <<Wr!I>> /\ Gets("epoll_create1") = {}
    BY WrapperRows DEF Wr!RecentCalls
  <2>2. Hosts("epoll_create1") = <<Un!I>>
    BY HostRows DEF Un!HostRecent
  <2>3. Prototype["epoll_create1"] = <<I>>
    BY KernelRows, SMTT(20) DEF Plain
  <2> QED BY <2>1, <2>2, <2>3, Fields DEF Agree
<1>5. Agree("dup3")
  <2>1. Puts("dup3") = <<Wr!L, Wr!L, Wr!L>> /\ Gets("dup3") = {}
    BY WrapperRows DEF Wr!RecentCalls
  <2>2. Hosts("dup3") = <<Un!L, Un!L, Un!L>>
    BY HostRows DEF Un!HostRecent
  <2>3. Prototype["dup3"] = <<I, I, I>>
    BY KernelRows, SMTT(20) DEF Numbers
  <2> QED BY <2>1, <2>2, <2>3, Fields DEF Agree
<1>6. Agree("pipe2")
  <2>1. Puts("pipe2") = <<Wr!D, Wr!I>> /\ Gets("pipe2") = {Wr!Always(1)}
        /\ Wr!Always(1) \in Gets("pipe2")
    BY WrapperRows DEF Wr!RecentCalls
  <2>2. Hosts("pipe2") = <<Un!B, Un!I>>
    BY HostRows DEF Un!HostRecent
  <2>3. Prototype["pipe2"] = <<W, I>>
    BY KernelRows, SMTT(20) DEF Choices
  <2>4. Sends("pipe2")
    BY <2>1, <2>2, <2>3, Fields
  <2>5. Fetches("pipe2")
    BY <2>1, <2>2, <2>3, Fields
  <2>6. Copies("pipe2")
    BY <2>1, <2>2, <2>3, Fields
  <2>7. Careful("pipe2")
    BY <2>1, <2>2, <2>3, Fields, SMTT(20)
  <2> QED BY <2>4, <2>5, <2>6, <2>7 DEF Agree
<1>7. Agree("prlimit64")
  <2>1. Puts("prlimit64") = <<Wr!I, Wr!L, Wr!RefIn(5), Wr!Ref(6)>> /\ Gets("prlimit64") =
          {Wr!Given(4)}
        /\ Wr!Given(4) \in Gets("prlimit64")
    BY WrapperRows DEF Wr!RecentCalls
  <2>2. Hosts("prlimit64") = <<Un!I, Un!L, Un!L, Un!L>>
    BY HostRows DEF Un!HostRecent
  <2>3. Prototype["prlimit64"] = <<I, I, Maybe(R), Maybe(W)>>
    BY KernelRows, SMTT(20) DEF Choices
  <2>4. Sends("prlimit64")
    BY <2>1, <2>2, <2>3, Fields
  <2>5. Fetches("prlimit64")
    BY <2>1, <2>2, <2>3, Fields
  <2>6. Copies("prlimit64")
    BY <2>1, <2>2, <2>3, Fields
  <2>7. Careful("prlimit64")
    BY <2>1, <2>2, <2>3, Fields, SMTT(20)
  <2> QED BY <2>4, <2>5, <2>6, <2>7 DEF Agree
<1>8. Agree("syncfs")
  <2>1. Puts("syncfs") = <<Wr!L>> /\ Gets("syncfs") = {}
    BY WrapperRows DEF Wr!RecentCalls
  <2>2. Hosts("syncfs") = <<Un!L>>
    BY HostRows DEF Un!HostRecent
  <2>3. Prototype["syncfs"] = <<I>>
    BY KernelRows, SMTT(20) DEF Plain
  <2> QED BY <2>1, <2>2, <2>3, Fields DEF Agree
<1>9. Agree("getrandom")
  <2>1. Puts("getrandom") = <<Wr!N, Wr!L, Wr!I>> /\ Gets("getrandom") = {Wr!Get(1,
          "positive", "result")}
        /\ Wr!Get(1, "positive", "result") \in Gets("getrandom")
    BY WrapperRows DEF Wr!RecentCalls
  <2>2. Hosts("getrandom") = <<Un!B, Un!L, Un!I>>
    BY HostRows DEF Un!HostRecent
  <2>3. Prototype["getrandom"] = <<C, L, I>>
    BY KernelRows, SMTT(20) DEF Choices
  <2>4. Sends("getrandom")
    BY <2>1, <2>2, <2>3, Fields
  <2>5. Fetches("getrandom")
    BY <2>1, <2>2, <2>3, Fields
  <2>6. Copies("getrandom")
    BY <2>1, <2>2, <2>3, Fields
  <2>7. Careful("getrandom")
    BY <2>1, <2>2, <2>3, Fields, SMTT(20)
  <2> QED BY <2>4, <2>5, <2>6, <2>7 DEF Agree
<1>10. Agree("unsupported")
  <2>1. Puts("unsupported") = << >> /\ Gets("unsupported") = {}
    BY WrapperRows DEF Wr!RecentCalls
  <2>3. Prototype["unsupported"] = <<I>>
    BY KernelRows, SMTT(20) DEF Plain
  <2> QED BY <2>1, <2>3, Fields DEF Agree
<1> QED
  BY WrapperNames, <1>1, <1>2, <1>3, <1>4, <1>5, <1>6, <1>7, <1>8, <1>9, <1>10

HIDE DEF Puts, Gets, Hosts, Wr!Case, Wr!Put, Sends, Fetches, Copies, Placed, Sent, Carried, Sure,
     Aimed, Fetched, Timely, Measured, Careful, Written, Writable, ByAddress, Direct, ItemIs,
     ReadIs, ArgIs, CopyIs, Pointers, Nullable, Wr!Silent, LostAlways, NotSent, NotPassed,
     Confused, FlagsNotSent, HalfSent, CutShort, NeverNull, NotFetched, FetchedCut, Brief

LEMMA Agreement == \A c \in DOMAIN Prototype : Agree(c)
<1>1. DOMAIN Prototype = UNION {DOMAIN Plain, DOMAIN Numbers, DOMAIN Pathed,
                                DOMAIN Blocks, DOMAIN Choices, DOMAIN Sockets}
  BY DEF Prototype, Rows
<1>2. \A c \in DOMAIN Plain : Agree(c)
  BY KernelNames, WrapperNames, SignalCallsAgree, PollCallsAgree, TimerCallsAgree,
     ResourceCallsAgree, MountCallsAgree, FileCallsAgree, ProcessCallsAgree, PathCallsAgree,
     LinkCallsAgree, IdentityCallsAgree, FutexCallsAgree, RecentCallsAgree,
     MemoryCallsAgree, PendingCallsAgree
<1>3. \A c \in DOMAIN Numbers : Agree(c)
  BY KernelNames, WrapperNames, TimerCallsAgree, MessageCallsAgree, ProcessCallsAgree,
     LinkCallsAgree, ResourceCallsAgree, IdentityCallsAgree, MountCallsAgree,
     RecentCallsAgree, SocketCallsAgree, MemoryCallsAgree, PollCallsAgree, FileCallsAgree,
     PathCallsAgree
<1>4. \A c \in DOMAIN Pathed : Agree(c)
  BY KernelNames, WrapperNames, PathCallsAgree, LinkCallsAgree, MountCallsAgree,
     PollCallsAgree, FileCallsAgree, PendingCallsAgree, AtCallsAgree, LookupCallsAgree,
     WaitCallsAgree
<1>5. \A c \in DOMAIN Blocks : Agree(c)
  BY KernelNames, WrapperNames, FileCallsAgree, MountCallsAgree, ResourceCallsAgree,
     FutexCallsAgree, PathCallsAgree, IdentityCallsAgree, ProcessCallsAgree, PollCallsAgree,
     SocketCallsAgree, MessageCallsAgree, VectorCallsAgree
<1>6. \A c \in DOMAIN Choices : Agree(c)
  BY KernelNames, WrapperNames, VectorCallsAgree, PollCallsAgree, WaitCallsAgree,
     FutexCallsAgree, ResourceCallsAgree, TimerCallsAgree, SignalCallsAgree,
     PendingCallsAgree, IdentityCallsAgree, RecentCallsAgree, AtCallsAgree
<1>7. \A c \in DOMAIN Sockets : Agree(c)
  BY KernelNames, WrapperNames, SocketCallsAgree, RecentCallsAgree, MessageCallsAgree
<1>8. QED BY <1>1, <1>2, <1>3, <1>4, <1>5, <1>6, <1>7

LEMMA GetpidKnown == "getpid" \in DOMAIN Prototype
  BY KernelNames DEF Prototype, Rows

\* alarm takes no pointer.
LEMMA AlarmKnown == Pointers("alarm") = {}
<1>1. Prototype["alarm"] = <<I>>
  BY KernelRows, SMTT(20) DEF Plain
<1>2. I.is = "int"
  BY DEF I
<1>3. QED BY <1>1, <1>2 DEF Pointers, Writable

-----------------------------------------------------------------------------
\* The state of the slot and of its user, and what the two know of each other.
Words == {Stale} \cup {Arg(i) : i \in 1..6} \cup {Result(i) : i \in 1..6} \cup {At(k) : k \in 0..11}

Typed ==
  /\ pc \in {"idle", "put", "ocall", "kernel", "get", "return", "fault"}
  /\ call \in Calls \cup {"getpid"} /\ nulls \in NullChoices(call)
  /\ bare \in SUBSET (Blockless(call) \ nulls) /\ room \in Rooms(call)
  /\ many \in BOOLEAN /\ (many => call \in Wr!Scattering \cup Wr!Worded)
  /\ buf \in [Buffers -> [Parts -> Words]]
  /\ errno \in Errnos \cup {0} /\ executed \in 0..3
  /\ answer \in Counts \cup {0} \cup {-e : e \in Errnos} /\ short \in BOOLEAN
  /\ arg0 \in Counts \cup {0, -1, Number} \cup {-e : e \in Errnos}
  /\ owed \subseteq Given \X Whole
  /\ pc \in {"ocall", "kernel", "get"} => call \notin Wr!Silent

\* The call has been answered, or has never been made.
Answered == pc = "get" \/ (pc = "return" /\ call \notin Wr!Silent)
Unasked  == pc \in {"idle", "put", "ocall", "kernel"} \/ (pc = "return" /\ call \in Wr!Silent)

UnaskedInv ==
  /\ Unasked => owed = {} /\ answer = 0 /\ executed = 0
  /\ Unasked \/ pc \in {"get", "fault"} => got = [i \in 1..6 |-> Block(Missing)]

\* What item i leaves in the buffers, if it is of the argument itself.
Held(i) ==
  LET it == Items[i]
      address == IF i \in nulls THEN Nil ELSE At(it.to)
  IN /\ it.how \in {"int", "long"} => buf[i]["lo"] = Arg(i)
     /\ it.how = "long" => buf[i]["hi"] = Arg(i)
     /\ it.how \in {"data", "given"} /\ i \notin nulls => \A p \in Whole : buf[i][p] = Arg(i)
     /\ it.how = "fixed" /\ i \notin nulls => \A p \in FixedSpan : buf[i][p] = Arg(i)
     /\ it.how \in ByAddress => buf[i]["lo"] = address /\ buf[i]["hi"] = address
     /\ it.how = "refdata" /\ i \notin nulls \cup bare => \A p \in Whole : buf[it.to][p] = Arg(i)

\* Between the puts and the answer the buffers hold every item, but for the
\* address that pselect6 overwrites.
Own(i) == Items[i].of = 0 /\ ~ (call = "pselect6" /\ i = 5)
HeldInv ==
  pc \in {"ocall", "kernel"} => ~NullRead /\ \A i \in DOMAIN Items : Own(i) => Held(i)

\* The kernel gets what the host has read from them.
PassedInv ==
  pc = "kernel" =>
    \E absent \in SUBSET Flagged : passed = [i \in DOMAIN Hosts(call) |-> Read(i, absent)]

AnswerInv ==
  Answered =>
    /\ owed = Owes(answer, short)
    /\ call = "recvfrom" /\ 2 \in nulls => answer <= 0
    /\ (pc = "return" /\ call = "alarm") \/
         (executed = Un!Executions(call) /\ (arg0 = answer \/ (call = "clone" /\ answer < 0)))

\* What the kernel has filled is where the wrapper looks for it, unless the host
\* has taken the pointer for NULL.
FilledInv ==
  pc = "get" =>
    \A o \in owed : \/ buf[Home(call, o[1])][o[2]] = Result(o[1])
                    \/ /\ Hosts(call)[o[1]].how = "flagged" /\ passed[o[1]] = <<Nil, Nil>>
                       /\ Prototype[call][o[1]].is # "some"

\* And what the program has put there is still this call's.
CleanInv ==
  pc = "get" => ~NullRead /\
    \A i \in DOMAIN Items : Own(i) /\ i \notin nulls \cup bare =>
      /\ Items[i].how \in {"data", "given"} => \A p \in Whole : buf[i][p] # Stale
      /\ Items[i].how = "refdata" => \A p \in Whole : buf[Items[i].to][p] # Stale
      /\ Items[i].how = "fixed" => \A p \in FixedSpan : buf[i][p] # Stale

Kept == {"sendmsg", "recvmsg", "futex", "set_tid_address"}
BlocksInv ==
  \A b \in blocks : \/ b[1] \in Kept
                    \/ pc \in {"ocall", "kernel", "get", "fault"} /\ b[1] = call /\ call # "alarm" /\ b[2] \in 1..6

IInv == /\ Typed /\ UnaskedInv /\ HeldInv /\ PassedInv /\ AnswerInv /\ FilledInv /\ CleanInv
        /\ BlocksInv /\ ResultsReturn /\ NothingStale /\ FaultsAreKnown

\* Pointers are arguments, and NULL only where that is allowed.
LEMMA Args ==
  ASSUME Typed
  PROVE  /\ call \in DOMAIN Prototype /\ Agree(call)
         /\ DOMAIN Prototype[call] \subseteq 1..6 /\ DOMAIN Items \subseteq 1..6
         /\ nulls \subseteq Nullable(call) /\ Nullable(call) \subseteq DOMAIN Prototype[call]
         /\ Given \subseteq DOMAIN Prototype[call] \ (nulls \cup bare)
         /\ Pointers(call) \subseteq DOMAIN Prototype[call]
         /\ bare \subseteq 1..6 /\ \A i \in bare : <<call, i>> \in {<<"ioctl", 3>>, <<"futex", 4>>, <<"pselect6", 6>>}
<1>1. call \in DOMAIN Prototype
  BY CallsKnown, GetpidKnown DEF Typed
<1>2. Agree(call)
  BY <1>1, Agreement
<1>3. DOMAIN Prototype[call] \subseteq 1..6 /\ DOMAIN Items \subseteq 1..6
  BY <1>2 DEF Agree, Sends, Placed, Puts, Items
<1>4. bare \subseteq 1..6 /\ \A i \in bare : <<call, i>> \in {<<"ioctl", 3>>, <<"futex", 4>>, <<"pselect6", 6>>}
  BY DEF Typed, Blockless
<1>5. QED BY <1>1, <1>2, <1>3, <1>4 DEF Typed, NullChoices, Nullable, Given, Pointers

\* The room is one of three, and the same but for five calls.
LEMMA RoomKnown ==
  ASSUME Typed
  PROVE  /\ room \in {"same", "less", "more"}
         /\ room # "same" => call \in {"ioctl", "truncate", "accept4", "sched_getaffinity", "recvfrom"}
         /\ FixedSpan \subseteq Parts /\ Front \subseteq FixedSpan
         /\ room # "more" => Whole \subseteq FixedSpan
         /\ room # "less" => "past" \notin FixedSpan
<1>1. /\ room \in {"same", "less", "more"}
      /\ room # "same" => call \in {"ioctl", "truncate", "accept4", "sched_getaffinity", "recvfrom"}
  BY DEF Typed, Rooms
<1>2. QED BY <1>1 DEF FixedSpan, Front, Whole, Parts

\* A store goes to the buffer of its item, or to the one the item names.
LEMMA Places ==
  ASSUME Typed, NEW i \in DOMAIN Items, NEW s \in Stores(i)
  PROVE  /\ s[1] \in Buffers /\ s[2] \in Parts /\ s[3] \in Words
         /\ \/ s[1] = i
            \/ s[1] = Items[i].to /\ Items[i].to # 0
            \/ call = "pselect6" /\ i = 6 /\ s[1] = 5 /\ 5 \in DOMAIN Items
<1>1. /\ i \in 1..6 /\ Items[i].of \in 0..6 /\ Items[i].to \in {0} \cup 1..11
      /\ Items[i].how \in ByAddress \cup {"pointer"} => Items[i].to # 0
      /\ Items[i].how = "stray" => call = "pselect6" /\ i = 6 /\ Items[i].to # 0
      /\ call = "pselect6" => 5 \in DOMAIN Items
  BY Args DEF Agree, Sends, Placed, Puts, Items
<1> DEFINE t == Arg(IF Items[i].of = 0 THEN i ELSE Items[i].of)
           a == At(Items[i].to)
<1>2. t \in Words /\ a \in Words /\ Nil \in Words
  <2>1. (IF Items[i].of = 0 THEN i ELSE Items[i].of) \in 1..6
    BY <1>1
  <2>2. Items[i].to \in 0..11 /\ 0 \in 0..11
    BY <1>1
  <2>3. QED BY <2>1, <2>2 DEF Words, Nil
<1>3. \E b \in {i, Items[i].to, i - 1}, p \in Parts, v \in {t, a, Nil} :
        /\ s = <<b, p, v>>
        /\ b = i \/ (b = Items[i].to /\ Items[i].how \in ByAddress \cup {"pointer", "stray"})
                 \/ (b = i - 1 /\ Items[i].how = "stray")
  BY RoomKnown DEF Stores, Into, ByAddress, Parts, Whole, Front
<1>4. PICK b \in {i, Items[i].to, i - 1}, p \in Parts, v \in {t, a, Nil} :
        /\ s = <<b, p, v>>
        /\ b = i \/ (b = Items[i].to /\ Items[i].how \in ByAddress \cup {"pointer", "stray"})
                 \/ (b = i - 1 /\ Items[i].how = "stray")
  BY <1>3
<1>5. s[1] = b /\ s[2] = p /\ s[3] = v
  BY <1>4
<1> HIDE DEF t, a
<1>6. QED BY <1>1, <1>2, <1>4, <1>5 DEF Buffers

\* No two items share a buffer, but for that of the fifth argument of pselect6.
LEMMA Apart ==
  ASSUME Typed, NEW i \in DOMAIN Items, NEW j \in DOMAIN Items,
         NEW s \in Stores(i), NEW r \in Stores(j), s[1] = r[1]
  PROVE  i = j \/ (call = "pselect6" /\ s[1] = 5 /\ 5 \in {i, j})
<1>1. \A k \in {i, j} : /\ k \in 1..6 /\ Items[k].to \notin DOMAIN Items
                        /\ \A m \in {i, j} : Items[k].to # 0 /\ Items[m].to = Items[k].to => m = k
  BY Args DEF Agree, Sends, Placed, Puts, Items
<1>2. QED BY <1>1, Places

LEMMA Latest ==
  ASSUME NEW S \in SUBSET (1..6), S # {}
  PROVE  \E m \in S : \A j \in S : j <= m
<1> DEFINE Top(m) == m \in S /\ \A j \in S : j <= m
<1>0. PICK k \in S : k \in 1..6
  OBVIOUS
<1>1. 6 \in S => Top(6)
  OBVIOUS
<1>2. 6 \notin S /\ 5 \in S => Top(5)
  OBVIOUS
<1>3. 6 \notin S /\ 5 \notin S /\ 4 \in S => Top(4)
  OBVIOUS
<1>4. 6 \notin S /\ 5 \notin S /\ 4 \notin S /\ 3 \in S => Top(3)
  OBVIOUS
<1>5. 6 \notin S /\ 5 \notin S /\ 4 \notin S /\ 3 \notin S /\ 2 \in S => Top(2)
  OBVIOUS
<1>6. 6 \notin S /\ 5 \notin S /\ 4 \notin S /\ 3 \notin S /\ 2 \notin S => Top(1)
  BY <1>0
<1>7. QED BY <1>1, <1>2, <1>3, <1>4, <1>5, <1>6

LEMMA FillingType ==
  ASSUME Typed
  PROVE  Filling \in [Buffers -> [Parts -> Words]]
<1> SUFFICES ASSUME NEW b \in Buffers, NEW p \in Parts PROVE Filling[b][p] \in Words
  BY DEF Filling
<1> DEFINE by == {i \in DOMAIN Items : \E s \in Stores(i) : s[1] = b /\ s[2] = p}
           last == CHOOSE i \in by : \A j \in by : j <= i
           stored == CHOOSE s \in Stores(last) : s[1] = b /\ s[2] = p
<1>1. Filling[b][p] = IF by = {} THEN buf[b][p] ELSE stored[3]
  BY DEF Filling
<1>2. CASE by = {}
  BY <1>1, <1>2 DEF Typed
<1>3. CASE by # {}
  <2>1. by \in SUBSET (1..6)
    BY Args
  <2>2. last \in by
    BY <1>3, <2>1, Latest
  <2>3. stored \in Stores(last)
    BY <2>2
  <2>4. stored[3] \in Words
    BY <2>2, <2>3, Places
  <2>5. QED BY <1>1, <1>3, <2>4
<1>4. QED BY <1>2, <1>3

\* What only one item stores in a place stays there.
LEMMA Stored ==
  ASSUME Typed, NEW i \in DOMAIN Items, NEW b \in Buffers, NEW p \in Parts, NEW v,
         <<b, p, v>> \in Stores(i),
         \A j \in DOMAIN Items : \A s \in Stores(j) : s[1] = b /\ s[2] = p => j = i /\ s[3] = v
  PROVE  Filling[b][p] = v
<1> DEFINE by == {j \in DOMAIN Items : \E s \in Stores(j) : s[1] = b /\ s[2] = p}
           last == CHOOSE k \in by : \A j \in by : j <= k
           stored == CHOOSE s \in Stores(last) : s[1] = b /\ s[2] = p
<1>1. Filling[b][p] = IF by = {} THEN buf[b][p] ELSE stored[3]
  BY DEF Filling
<1>2. <<b, p, v>>[1] = b /\ <<b, p, v>>[2] = p
  OBVIOUS
<1>3. by = {i}
  BY <1>2
<1>4. last = i
  <2>1. last \in {i}
    BY <1>3, Args
  <2>2. QED BY <2>1
<1>5. stored \in Stores(i) /\ stored[1] = b /\ stored[2] = p
  BY <1>2, <1>4
<1>6. stored[3] = v
  BY <1>5
<1>7. QED BY <1>1, <1>3, <1>6

\* So after the puts every item is held.
LEMMA PutsHold ==
  ASSUME Typed, ~NullRead, buf' = Filling, UNCHANGED program,
         NEW i \in DOMAIN Items, Own(i)
  PROVE  Held(i)'
<1> DEFINE it == Items[i]
           a == IF i \in nulls THEN Nil ELSE At(it.to)
<1>0. UNCHANGED <<call, nulls, bare, room>> /\ Items[i].of = 0 /\ ~ (call = "pselect6" /\ i = 5)
  BY DEF program, Own
<1>1. /\ i \in 1..6 /\ it.to \in {0} \cup 1..11
      /\ it.how \in ByAddress => it.to # 0
      /\ it.how = "stray" => call = "pselect6"
      /\ it.to \notin DOMAIN Items
  BY Args DEF Agree, Sends, Placed, Puts, Items
<1>2. ASSUME NEW b \in Buffers, NEW p \in Parts, NEW v, <<b, p, v>> \in Stores(i),
             ~ (call = "pselect6" /\ b = 5),
             \A s \in Stores(i) : s[1] = b /\ s[2] = p => s[3] = v
      PROVE  buf'[b][p] = v
  <2>1. ASSUME NEW j \in DOMAIN Items, NEW s \in Stores(j), s[1] = b, s[2] = p
        PROVE  j = i /\ s[3] = v
    <3>1. <<b, p, v>>[1] = b
      OBVIOUS
    <3>2. j = i
      BY <1>0, <1>2, <2>1, <3>1, Apart
    <3>3. QED BY <1>2, <2>1, <3>2
  <2>2. Filling[b][p] = v
    BY <1>2, <2>1, Stored
  <2>3. QED BY <2>2
<1>3. it.how \in {"int", "long"} => buf'[i]["lo"] = Arg(i)
  <2>1. SUFFICES ASSUME it.how \in {"int", "long"} PROVE buf'[i]["lo"] = Arg(i)
    OBVIOUS
  <2>2. /\ <<i, "lo", Arg(i)>> \in Stores(i)
        /\ \A s \in Stores(i) : s[2] = "lo" => s[3] = Arg(i)
    BY <1>0, <2>1 DEF Stores, Into, Front
  <2>3. QED BY <1>0, <1>1, <1>2, <2>2 DEF Buffers, Parts, Whole, Front
<1>4. it.how = "long" => buf'[i]["hi"] = Arg(i)
  <2>1. SUFFICES ASSUME it.how = "long" PROVE buf'[i]["hi"] = Arg(i)
    OBVIOUS
  <2>2. /\ <<i, "hi", Arg(i)>> \in Stores(i)
        /\ \A s \in Stores(i) : s[2] = "hi" => s[3] = Arg(i)
    BY <1>0, <2>1 DEF Stores, Into, Front
  <2>3. QED BY <1>0, <1>1, <1>2, <2>2 DEF Buffers, Parts, Whole, Front
<1>5. it.how \in {"data", "given"} /\ i \notin nulls => \A p \in Whole : buf'[i][p] = Arg(i)
  <2>1. SUFFICES ASSUME it.how \in {"data", "given"}, i \notin nulls, NEW p \in Whole
                 PROVE  buf'[i][p] = Arg(i)
    OBVIOUS
  <2>2. <<i, p, Arg(i)>> \in Stores(i)
    BY <1>0, <2>1 DEF Stores, Into
  <2>3. \A s \in Stores(i) : s[3] = Arg(i)
    BY <1>0, <2>1 DEF Stores, Into
  <2>4. QED BY <1>0, <1>1, <1>2, <2>2, <2>3 DEF Buffers, Parts
<1>6. it.how = "fixed" /\ i \notin nulls => \A p \in FixedSpan : buf'[i][p] = Arg(i)
  <2>1. SUFFICES ASSUME it.how = "fixed", i \notin nulls, NEW p \in FixedSpan
                 PROVE  buf'[i][p] = Arg(i)
    OBVIOUS
  <2>2. <<i, p, Arg(i)>> \in Stores(i)
    BY <1>0, <2>1 DEF Stores, Into
  <2>3. \A s \in Stores(i) : s[3] = Arg(i)
    BY <1>0, <2>1 DEF Stores, Into
  <2>4. p \in Parts
    BY RoomKnown
  <2>5. QED BY <1>0, <1>1, <1>2, <2>2, <2>3, <2>4 DEF Buffers
<1>7. it.how \in ByAddress => buf'[i]["lo"] = a /\ buf'[i]["hi"] = a
  <2>1. SUFFICES ASSUME it.how \in ByAddress, NEW p \in Front PROVE buf'[i][p] = a
    BY DEF Front
  <2>2. <<i, p, a>> \in Stores(i)
    BY <2>1 DEF Stores, Into, ByAddress
  <2>3. \A s \in Stores(i) : s[1] = i => s[3] = a
    BY <1>1, <2>1 DEF Stores, Into, ByAddress
  <2>4. QED BY <1>0, <1>1, <1>2, <2>2, <2>3 DEF Buffers, Parts, Whole
<1>8. it.how = "refdata" /\ i \notin nulls \cup bare => \A p \in Whole : buf'[it.to][p] = Arg(i)
  <2>1. SUFFICES ASSUME it.how = "refdata", i \notin nulls \cup bare, NEW p \in Whole
                 PROVE  buf'[it.to][p] = Arg(i)
    OBVIOUS
  <2>2. <<it.to, p, Arg(i)>> \in Stores(i)
    BY <1>0, <2>1 DEF Stores, Into
  <2>3. \A s \in Stores(i) : s[1] = it.to => s[3] = Arg(i)
    BY <1>0, <1>1, <2>1 DEF Stores, Into
  <2>4. call = "pselect6" => it.to # 5
    BY <2>1, Args DEF Agree, Sends, Placed, Puts, Items
  <2>5. QED BY <1>1, <1>2, <2>1, <2>2, <2>3, <2>4 DEF Buffers, ByAddress, Parts
<1>9. Items' = Items /\ FixedSpan' = FixedSpan
  BY <1>0 DEF Items, FixedSpan
<1>10. QED BY <1>0, <1>3, <1>4, <1>5, <1>6, <1>7, <1>8, <1>9 DEF Held

\* What the host reads for an argument that is put where, and as, it is read.
LEMMA Arrival == Typed /\ HeldInv /\ PassedInv => ArgumentsArrive
<1> SUFFICES ASSUME Typed, HeldInv, PassedInv, pc = "kernel",
                    NEW i \in DOMAIN Prototype[call], ~Lost(i)
             PROVE  Arrives(i)
  BY DEF ArgumentsArrive
<1>1. call \notin Wr!Silent
  BY DEF Typed
<1>2. Carried(call, i)
  <2>1. <<call, i>> \notin LostAlways
    BY DEF Lost
  <2>2. QED BY <1>1, <2>1, Args DEF Agree, Sends, Sent
<1> DEFINE put == Items[i].how
           host == Hosts(call)[i].how
           is == Prototype[call][i].is
           read == is \in {"in", "both", "edit"}
<1>3. /\ i \in DOMAIN Items /\ i \in DOMAIN Hosts(call) /\ Items[i].of = 0 /\ Hosts(call)[i].from = 0
      /\ \/ is = "unused"
         \/ is = "int" /\ put \in {"int", "long"} /\ host \in {"int", "long"}
         \/ is = "wide" /\ <<put, host>> \in {<<"int", "int">>, <<"long", "int">>, <<"long", "long">>}
         \/ is = "long" /\ put = "long" /\ host = "long"
         \/ <<call, i>> \in HalfSent /\ put \in {"int", "long"} /\ host \in {"int", "long"}
         \/ <<call, i>> \in FlagsNotSent /\ host = "flagged"
         \/ read /\ put = "data" /\ host = "buffer"
         \/ read /\ put = "given" /\ host = "buffer" /\ Sure(call, i)
         \/ read /\ put = "fixed" /\ host = "buffer" /\ Sure(call, i) /\ <<call, i>> \in CutShort
         \/ read /\ put = "refdata" /\ host = "long"
         \/ <<call, i>> = <<"pselect6", 3>> /\ put = "refhead" /\ host = "long" /\ read
         \/ ~read /\ is \in Writable /\ host = "buffer" /\ (put = "data" \/ Sure(call, i))
         \/ ~read /\ is \in Writable /\ put \in ByAddress /\ host = "long"
  BY <1>2 DEF Carried, Items, Puts
<1>4. Own(i) /\ Held(i) /\ ~ (put = "data" /\ i \in nulls) /\ i \notin bare
  <2>1. ~ (call = "pselect6" /\ i = 5) /\ ~ (call = "pselect6" /\ i = 6)
    BY DEF Lost, LostAlways, Confused, NotSent
  <2>2. ~ (call = "futex" /\ i = 4 /\ i \in bare)
    BY DEF Lost
  <2>3. ~ (call = "ioctl" /\ i = 3 /\ i \in bare)
    <3>1. call = "ioctl" => Items[3].how = "fixed" /\ 3 \in DOMAIN Items
      BY Args DEF Agree, Sends, Placed, Items, Puts
    <3>2. QED BY <3>1 DEF HeldInv, NullRead
  <2>4. QED BY <1>3, <2>1, <2>2, <2>3, Args DEF HeldInv, NullRead, Own
<1>5. Sure(call, i) => i \notin nulls
  BY Args DEF Nullable, Sure, Lost
<1>6. PICK absent \in SUBSET Flagged : passed = [j \in DOMAIN Hosts(call) |-> Read(j, absent)]
  BY DEF PassedInv
<1>7. i \in DOMAIN Hosts(call) /\ Hosts(call)[i].from = 0
  BY <1>3
<1>8. passed[i] = Read(i, absent)
  BY <1>6, <1>7
<1>9. /\ host = "int" => passed[i] = <<buf[i]["lo"], Extended>>
      /\ host = "long" => passed[i] = <<buf[i]["lo"], buf[i]["hi"]>>
      /\ host = "buffer" => passed[i] = <<At(i), At(i)>>
      /\ host = "flagged" => passed[i] \in {<<Nil, Nil>>, <<At(i), At(i)>>}
  <2>1. Un!Unwrapped[call][i].from = 0
    BY <1>7 DEF Hosts
  <2>2. QED BY <1>8, <2>1 DEF Read, Hosts
<1>10. i \in 1..6 /\ (put \in ByAddress => Items[i].to \in 1..11)
  BY <1>3, Args DEF Agree, Sends, Placed, Puts, Items
<1>11. \A b \in 1..11 : Address(<<At(b), At(b)>>) = b
  BY DEF Address, At
<1>12. Address(<<Nil, Nil>>) = 0
  BY DEF Address, At, Nil
<1>13. put \in ByAddress =>
         /\ buf[i]["lo"] = IF i \in nulls THEN Nil ELSE At(Items[i].to)
         /\ buf[i]["hi"] = IF i \in nulls THEN Nil ELSE At(Items[i].to)
  BY <1>4 DEF Held
<1>14. /\ put \in {"int", "long"} => buf[i]["lo"] = Arg(i)
       /\ put = "long" => buf[i]["hi"] = Arg(i)
  BY <1>4 DEF Held
<1>15. /\ is = "unused" => Arrives(i)
       /\ is = "int" /\ passed[i][1] = Arg(i) => Arrives(i)
       /\ is = "wide" /\ passed[i][1] = Arg(i) /\ passed[i][2] \in {Arg(i), Extended} => Arrives(i)
       /\ is = "long" /\ passed[i][1] = Arg(i) /\ passed[i][2] = Arg(i) => Arrives(i)
       /\ read /\ PointsTo(i, TRUE) => Arrives(i)
       /\ ~read /\ is \in Writable /\ PointsTo(i, FALSE) => Arrives(i)
  <2> HIDE DEF is, read
  <2>1. ASSUME is = "unused" PROVE Arrives(i)
    BY <1>4, <2>1 DEF Arrives, Writable, is
  <2>2. ASSUME is = "int", passed[i][1] = Arg(i) PROVE Arrives(i)
    BY <1>4, <2>2 DEF Arrives, Writable, is
  <2>3. ASSUME is = "wide", passed[i][1] = Arg(i), passed[i][2] \in {Arg(i), Extended} PROVE Arrives(i)
    BY <1>4, <2>3 DEF Arrives, Writable, is
  <2>4. ASSUME is = "long", passed[i][1] = Arg(i), passed[i][2] = Arg(i) PROVE Arrives(i)
    BY <1>4, <2>4 DEF Arrives, Writable, is
  <2>5. ASSUME read, PointsTo(i, TRUE) PROVE Arrives(i)
    <3>1. CASE is = "in"
      BY <1>4, <2>5, <3>1 DEF Arrives, Writable, is
    <3>2. CASE is = "both"
      BY <1>4, <2>5, <3>2 DEF Arrives, Writable, is
    <3>3. CASE is = "edit"
      BY <1>4, <2>5, <3>3 DEF Arrives, Writable, is
    <3>4. QED BY <2>5, <3>1, <3>2, <3>3 DEF read
  <2>6. ASSUME ~read, is \in Writable, PointsTo(i, FALSE) PROVE Arrives(i)
    BY <1>4, <2>6 DEF Arrives, Writable, is, read
  <2>7. QED BY <2>1, <2>2, <2>3, <2>4, <2>5, <2>6
<1> HIDE DEF put, host, is, read
<1>16. CASE is = "unused"
  BY <1>15, <1>16
<1>17. CASE is \in {"int", "wide", "long"} /\ put \in {"int", "long"} /\ host \in {"int", "long"}
  <2>1. passed[i][1] = Arg(i)
    BY <1>9, <1>14, <1>17
  <2>2. <<call, i>> \notin HalfSent
    BY <2>1 DEF Lost
  <2>3. <<call, i>> \notin FlagsNotSent \/ host # "flagged"
    BY <1>17
  <2>4. is = "wide" => passed[i][2] \in {Arg(i), Extended}
    BY <1>3, <1>9, <1>14, <1>17, <2>2 DEF read, Writable
  <2>5. is = "long" => passed[i][2] = Arg(i)
    <3>1. is = "long" => put = "long" /\ host = "long"
      BY <1>3, <1>17, <2>2 DEF read, Writable
    <3>2. put = "long" => buf[i]["hi"] = Arg(i)
      BY <1>14
    <3>3. host = "long" => passed[i][2] = buf[i]["hi"]
      BY <1>9
    <3>4. QED BY <3>1, <3>2, <3>3
  <2>6. QED BY <1>15, <1>17, <2>1, <2>4, <2>5
<1>18. CASE <<call, i>> \in HalfSent /\ put \in {"int", "long"} /\ host \in {"int", "long"}
  <2>1. passed[i][1] = Arg(i)
    BY <1>9, <1>14, <1>18
  <2>2. QED BY <1>18, <2>1 DEF Lost
<1>19. CASE <<call, i>> \in FlagsNotSent /\ host = "flagged"
  BY <1>9, <1>19 DEF Lost
<1>20. CASE read /\ put \in {"data", "given", "fixed"} /\ host = "buffer"
  <2>1. i \notin nulls
    BY <1>3, <1>4, <1>5, <1>20 DEF read, Writable, ByAddress
  <2>2. put = "fixed" => room # "more"
    BY <1>3, <1>20 DEF Lost, ByAddress, read
  <2>3. \A p \in Whole : buf[i][p] = Arg(i)
    BY <1>4, <1>20, <2>1, <2>2, RoomKnown DEF Held, put
  <2>4. PointsTo(i, TRUE)
    <3>1. Address(passed[i]) = i /\ i # 0
      BY <1>9, <1>10, <1>11, <1>20
    <3>2. QED BY <2>1, <2>3, <3>1 DEF PointsTo
  <2>5. QED BY <1>15, <1>20, <2>4
<1>21. CASE read /\ put = "refdata" /\ host = "long"
  <2>1. i \notin nulls => \A p \in Whole : buf[Items[i].to][p] = Arg(i)
    BY <1>4, <1>21 DEF Held, put
  <2>2. passed[i] = IF i \in nulls THEN <<Nil, Nil>> ELSE <<At(Items[i].to), At(Items[i].to)>>
    BY <1>9, <1>13, <1>21 DEF ByAddress
  <2>3. PointsTo(i, TRUE)
    <3>1. CASE i \in nulls
      BY <2>2, <3>1 DEF PointsTo
    <3>2. CASE i \notin nulls
      <4>1. Address(passed[i]) = Items[i].to /\ Items[i].to # 0
        BY <1>10, <1>11, <1>21, <2>2, <3>2 DEF ByAddress
      <4>2. QED BY <2>1, <3>2, <4>1 DEF PointsTo
    <3>3. QED BY <3>1, <3>2
  <2>4. QED BY <1>15, <1>21, <2>3
<1>22. CASE <<call, i>> = <<"pselect6", 3>> /\ put = "refhead" /\ host = "long" /\ read
  <2>1. passed[i] = IF i \in nulls THEN <<Nil, Nil>> ELSE <<At(Items[i].to), At(Items[i].to)>>
    BY <1>9, <1>13, <1>22 DEF ByAddress
  <2>2. Address(passed[i]) = 0
    BY <1>22 DEF Lost
  <2>3. i \in nulls
    BY <1>10, <1>11, <1>22, <2>1, <2>2 DEF ByAddress
  <2>4. QED BY <1>15, <1>22, <2>1, <2>3 DEF PointsTo
<1>23. CASE ~read /\ is \in Writable /\ host = "buffer" /\ i \notin nulls
  <2>1. PointsTo(i, FALSE)
    BY <1>9, <1>10, <1>11, <1>23 DEF PointsTo
  <2>2. QED BY <1>15, <1>23, <2>1
<1>24. CASE ~read /\ is \in Writable /\ put \in ByAddress /\ host = "long"
  <2>1. passed[i] = IF i \in nulls THEN <<Nil, Nil>> ELSE <<At(Items[i].to), At(Items[i].to)>>
    BY <1>9, <1>13, <1>24
  <2>2. PointsTo(i, FALSE)
    BY <1>10, <1>11, <1>24, <2>1 DEF PointsTo
  <2>3. QED BY <1>15, <1>24, <2>2
<1>25. QED
  <2>1. \/ is = "unused"
        \/ is \in {"int", "wide", "long"} /\ put \in {"int", "long"} /\ host \in {"int", "long"}
        \/ <<call, i>> \in HalfSent /\ put \in {"int", "long"} /\ host \in {"int", "long"}
        \/ <<call, i>> \in FlagsNotSent /\ host = "flagged"
        \/ read /\ put \in {"data", "given", "fixed"} /\ host = "buffer"
        \/ read /\ put = "refdata" /\ host = "long"
        \/ <<call, i>> = <<"pselect6", 3>> /\ put = "refhead" /\ host = "long" /\ read
        \/ ~read /\ is \in Writable /\ host = "buffer" /\ i \notin nulls
        \/ ~read /\ is \in Writable /\ put \in ByAddress /\ host = "long"
    BY <1>3, <1>4, <1>5 DEF put
  <2>2. QED BY <2>1, <1>16, <1>17, <1>18, <1>19, <1>20, <1>21, <1>22, <1>23, <1>24

\* What the kernel fills is a buffer the wrapper looks at, unless the host has
\* taken the pointer for NULL.
LEMMA Targets ==
  ASSUME Typed, HeldInv, PassedInv, pc = "kernel", NEW i \in Given, Written(call, i)
  PROVE  /\ i \in DOMAIN Items /\ Home(call, i) \in 1..11
         /\ Address(passed[i]) \in {0, Home(call, i)}
         /\ Address(passed[i]) = 0 => Hosts(call)[i].how = "flagged" /\ passed[i] = <<Nil, Nil>>
<1>1. i \in DOMAIN Prototype[call] /\ i \notin nulls /\ i \in 1..6
  BY Args
<1>2. Aimed(call, i)
  BY <1>1, Args DEF Agree, Sends
<1>3. /\ i \in DOMAIN Items /\ i \in DOMAIN Hosts(call) /\ Hosts(call)[i].from = 0
      /\ \/ Items[i].to = 0 /\ Hosts(call)[i].how \in {"buffer", "flagged"}
         \/ /\ Items[i].how \in ByAddress /\ Hosts(call)[i].how = "long" /\ Items[i].of = 0
            /\ ~ (call = "pselect6" /\ i = 5)
  BY <1>2 DEF Aimed, Items, Puts
<1>4. Items[i].how \in ByAddress => Items[i].to \in 1..11
  BY <1>3, Args DEF Agree, Sends, Placed, Puts, Items
<1>5. PICK absent \in SUBSET Flagged : passed = [j \in DOMAIN Hosts(call) |-> Read(j, absent)]
  BY DEF PassedInv
<1>6. passed[i] = Read(i, absent)
  BY <1>3, <1>5
<1>7. \A b \in 1..11 : Address(<<At(b), At(b)>>) = b
  BY DEF Address, At
<1>8. Address(<<Nil, Nil>>) = 0
  BY DEF Address, At, Nil
<1>9. CASE Items[i].to = 0 /\ Hosts(call)[i].how \in {"buffer", "flagged"}
  <2>1. /\ passed[i] \in {<<At(i), At(i)>>, <<Nil, Nil>>}
        /\ Hosts(call)[i].how = "buffer" => passed[i] = <<At(i), At(i)>>
    BY <1>3, <1>6, <1>9 DEF Read, Hosts
  <2>2. Home(call, i) = i
    BY <1>9 DEF Home, Puts, Items
  <2>3. QED BY <1>1, <1>3, <1>7, <1>8, <1>9, <2>1, <2>2
<1>10. CASE Items[i].how \in ByAddress /\ Hosts(call)[i].how = "long" /\ Items[i].of = 0
                /\ ~ (call = "pselect6" /\ i = 5)
  <2>1. Own(i)
    BY <1>10 DEF Own
  <2>2. Held(i)
    BY <1>3, <2>1 DEF HeldInv
  <2>3. buf[i]["lo"] = At(Items[i].to) /\ buf[i]["hi"] = At(Items[i].to)
    BY <1>1, <1>10, <2>2 DEF Held
  <2>4. passed[i] = <<At(Items[i].to), At(Items[i].to)>>
    BY <1>3, <1>6, <1>10, <2>3 DEF Read, Hosts
  <2>5. Home(call, i) = Items[i].to
    BY <1>4, <1>10 DEF Home, Puts, Items
  <2>6. QED BY <1>3, <1>4, <1>7, <1>10, <2>4, <2>5
<1>11. QED BY <1>3, <1>9, <1>10

-----------------------------------------------------------------------------
LEMMA InitInv == Init => IInv
<1> SUFFICES ASSUME Init PROVE IInv
  OBVIOUS
<1>1. {} \in NullChoices("getpid")
  BY DEF NullChoices
<1>2. Typed
  <2>1. Block(Stale) \in [Parts -> Words]
    BY DEF Block, Words
  <2>2. buf \in [Buffers -> [Parts -> Words]]
    BY <2>1 DEF Init
  <2>3. /\ pc \in {"idle", "put", "ocall", "kernel", "get", "return", "fault"}
        /\ call \in Calls \cup {"getpid"} /\ nulls \in NullChoices(call)
    BY <1>1 DEF Init
  <2>4. /\ many \in BOOLEAN /\ (many => call \in Wr!Scattering \cup Wr!Worded)
        /\ bare \in SUBSET (Blockless(call) \ nulls) /\ room \in Rooms(call)
    BY DEF Init, Rooms
  <2>5. errno \in Errnos \cup {0} /\ executed \in 0..3
    BY DEF Init
  <2>6. answer \in Counts \cup {0} \cup {-e : e \in Errnos} /\ short \in BOOLEAN
    BY DEF Init
  <2>7. arg0 \in Counts \cup {0, -1, Number} \cup {-e : e \in Errnos}
    BY DEF Init
  <2>8. owed \subseteq Given \X Whole
    BY DEF Init
  <2>9. QED BY <2>2, <2>3, <2>4, <2>5, <2>6, <2>7, <2>8 DEF Init, Typed
<1>3. QED
  BY <1>2 DEF Init, IInv, UnaskedInv, Unasked, HeldInv, PassedInv, AnswerInv, Answered, FilledInv,
              CleanInv, BlocksInv, ResultsReturn, NothingStale, FaultsAreKnown

LEMMA BeginStep == ASSUME IInv, NEW m \in Calls, Begin(m) PROVE IInv'
<1> USE DEF Begin
<1>1. Typed'
  <2>1. owed' = {}
    BY DEF IInv, UnaskedInv, Unasked
  <2>2. /\ many' \in BOOLEAN /\ (many' => m \in Wr!Scattering \cup Wr!Worded)
        /\ bare' \in SUBSET (Blockless(m) \ nulls') /\ room' \in Rooms(m)
    OBVIOUS
  <2>3. QED BY <2>1, <2>2 DEF IInv, Typed
<1>2. UnaskedInv' /\ BlocksInv'
  BY DEF IInv, UnaskedInv, Unasked, BlocksInv
<1>3. QED BY <1>1, <1>2 DEF IInv, HeldInv, PassedInv, AnswerInv, Answered, FilledInv,
              CleanInv, ResultsReturn, NothingStale, FaultsAreKnown

\* What a call takes from malloc_user, it takes for its own arguments.
LEMMA Taking ==
  ASSUME Typed, NEW i \in Wr!Allocates(call, nulls \cup bare, many)
  PROVE  i \in 1..6 /\ call \notin Wr!Silent /\ call # "alarm"
<1>1. i \in 1..6 /\ (call = "pselect6" \/ many)
  BY DEF Wr!Allocates
<1>2. QED BY <1>1 DEF Typed, Wr!Silent, Wr!Scattering, Wr!Worded

\* The pointers and numbers whose blocks are read although there is none.
LEMMA ReadsKnown ==
  ASSUME Typed, NullRead
  PROVE  \/ call \in {"accept", "gettimeofday", "rt_sigtimedwait", "mount"} /\ nulls # {}
         \/ call = "pselect6" /\ 6 \in nulls
         \/ call = "ioctl" /\ 3 \in bare
<1>1. PICK i \in DOMAIN Items :
         \/ Items[i].how \in {"data", "stray"} /\ i \in nulls
         \/ Items[i].how = "fixed" /\ i \in bare
  BY DEF NullRead
<1>2. CASE Items[i].how = "data" /\ i \in nulls
  <2>1. i \in Nullable(call)
    BY <1>2, Args
  <2>2. QED BY <1>1, <1>2, <2>1, Args DEF Agree, Careful, Puts, Items
<1>3. CASE Items[i].how = "stray" /\ i \in nulls
  BY <1>1, <1>3, Args DEF Agree, Sends, Placed, Puts, Items
<1>4. CASE Items[i].how = "fixed" /\ i \in bare
  <2>1. call \notin {"futex", "pselect6"}
    BY <1>1, <1>4, Args DEF Agree, Sends, Placed, Puts, Items
  <2>2. <<call, i>> \in {<<"ioctl", 3>>, <<"futex", 4>>, <<"pselect6", 6>>}
    BY <1>4, Args
  <2>3. QED BY <1>4, <2>1, <2>2
<1>5. QED BY <1>1, <1>2, <1>3, <1>4

LEMMA PutStep == ASSUME IInv, PutArguments PROVE IInv'
<1>1. UNCHANGED <<call, nulls, bare, room, many, passed, errno, answer, short, owed, got, executed>> /\ pc = "put"
  BY DEF PutArguments, program
<1>2. Given' = Given /\ Items' = Items
  BY <1>1 DEF Given, Items
<1>3. CASE NullRead
  <2>1. pc' = "fault" /\ UNCHANGED <<buf, arg0, blocks>>
    BY <1>3 DEF PutArguments
  <2>2. Typed'
    BY <1>1, <1>2, <2>1 DEF IInv, Typed
  <2>3. UnaskedInv' /\ BlocksInv'
    BY <1>1, <2>1 DEF IInv, UnaskedInv, Unasked, BlocksInv
  <2>4. FaultsAreKnown'
    BY <1>1, <1>3, ReadsKnown DEF IInv, FaultsAreKnown
  <2>5. QED BY <2>1, <2>2, <2>3, <2>4 DEF IInv, HeldInv, PassedInv, AnswerInv, Answered, FilledInv,
                CleanInv, ResultsReturn, NothingStale
<1>4. CASE ~NullRead
  <2>1. /\ buf' = Filling
        /\ blocks' = blocks \cup {<<call, i>> : i \in Wr!Allocates(call, nulls \cup bare, many)}
        /\ arg0' = IF call = "unsupported" THEN -1 ELSE arg0
        /\ pc' = IF call \in Wr!Silent THEN "return" ELSE "ocall"
    BY <1>4 DEF PutArguments
  <2>2. Typed'
    <3>1. buf' \in [Buffers -> [Parts -> Words]]
      BY <2>1, FillingType DEF IInv
    <3>2. QED BY <1>1, <1>2, <2>1, <3>1 DEF IInv, Typed
  <2>3. UnaskedInv'
    BY <1>1, <2>1 DEF IInv, UnaskedInv, Unasked
  <2>4. HeldInv'
    <3>1. NullRead' = NullRead /\ \A i : Own(i)' = Own(i)
      BY <1>1, <1>2 DEF NullRead, Own
    <3>2. ASSUME NEW i \in DOMAIN Items, Own(i)
          PROVE  Held(i)'
      BY <1>1, <1>4, <2>1, <3>2, PutsHold DEF IInv, program
    <3>3. QED BY <1>1, <1>2, <1>4, <3>1, <3>2 DEF HeldInv
  <2>5. BlocksInv'
    <3>1. ASSUME NEW b \in blocks', b \notin blocks
          PROVE  pc' = "ocall" /\ b[1] = call /\ call # "alarm" /\ b[2] \in 1..6
      <4>1. PICK i \in Wr!Allocates(call, nulls \cup bare, many) : b = <<call, i>>
        BY <2>1, <3>1
      <4>2. i \in 1..6 /\ call \notin Wr!Silent /\ call # "alarm"
        BY Taking DEF IInv
      <4>3. QED BY <2>1, <4>1, <4>2
    <3>2. ASSUME NEW b \in blocks PROVE b[1] \in Kept
      BY <1>1 DEF IInv, BlocksInv
    <3>3. QED BY <1>1, <3>1, <3>2 DEF BlocksInv
  <2>6. ResultsReturn' /\ NothingStale'
    <3>1. SUFFICES ASSUME pc' = "return" PROVE ResultsReturn' /\ NothingStale'
      BY DEF ResultsReturn, NothingStale
    <3>2. owed = {} /\ got = [i \in 1..6 |-> Block(Missing)]
      BY <1>1 DEF IInv, UnaskedInv, Unasked
    <3>3. ResultsReturn'
      BY <1>1, <3>2 DEF ResultsReturn
    <3>4. \A i \in DOMAIN got', p \in Parts : got'[i][p] # Stale
      BY <1>1, <3>2 DEF Block, Missing, Stale
    <3>5. QED BY <3>3, <3>4 DEF NothingStale
  <2>7. QED BY <1>1, <2>1, <2>2, <2>3, <2>4, <2>5, <2>6
            DEF IInv, PassedInv, AnswerInv, Answered, FilledInv, CleanInv, FaultsAreKnown
<1>5. QED BY <1>3, <1>4

LEMMA EnterStep == ASSUME IInv, Enter PROVE IInv'
<1>1. /\ pc = "ocall" /\ pc' = "kernel"
      /\ UNCHANGED <<call, nulls, bare, room, many, buf, arg0, errno, answer, short, owed, got, blocks, executed>>
  BY DEF Enter, program
<1>2. Given' = Given /\ Items' = Items /\ FixedSpan' = FixedSpan
  BY <1>1 DEF Given, Items, FixedSpan
<1>3. Typed' /\ UnaskedInv' /\ BlocksInv'
  BY <1>1, <1>2 DEF IInv, Typed, UnaskedInv, Unasked, BlocksInv
<1>4. HeldInv'
  <2>1. NullRead' = NullRead /\ \A i : Held(i)' = Held(i) /\ Own(i)' = Own(i)
    BY <1>1, <1>2 DEF NullRead, Held, Own
  <2>2. QED BY <1>1, <1>2, <2>1 DEF IInv, HeldInv
<1>5. PassedInv'
  <2>1. PICK absent \in SUBSET Flagged :
               passed' = [i \in DOMAIN Un!Unwrapped[call] |-> Read(i, absent)]
    BY DEF Enter
  <2>2. Flagged' = Flagged /\ \A i : Read(i, absent)' = Read(i, absent)
    BY <1>1 DEF Flagged, Read
  <2>3. passed' = [i \in DOMAIN Hosts(call)' |-> Read(i, absent)']
    BY <1>1, <2>1, <2>2 DEF Hosts
  <2>4. QED BY <2>2, <2>3 DEF PassedInv
<1>6. QED BY <1>1, <1>3, <1>4, <1>5
          DEF IInv, AnswerInv, Answered, FilledInv, CleanInv, ResultsReturn, NothingStale, FaultsAreKnown

\* The slot is as good as new.
LEMMA ReturnStep == ASSUME IInv, Return PROVE IInv'
<1> USE DEF Return
<1>1. {} \in NullChoices("getpid")
  BY DEF NullChoices
<1>2. Typed'
  <2>1. Block(Stale) \in [Parts -> Words]
    BY DEF Block, Words
  <2>2. buf' \in [Buffers -> [Parts -> Words]]
    BY <2>1
  <2>3. /\ pc' = "idle" /\ call' \in Calls \cup {"getpid"} /\ nulls' \in NullChoices(call')
        /\ many' \in BOOLEAN /\ (many' => call' \in Wr!Scattering \cup Wr!Worded)
        /\ bare' \in SUBSET (Blockless(call') \ nulls') /\ room' \in Rooms(call')
    BY <1>1 DEF Rooms
  <2>4. answer' \in Counts \cup {0} \cup {-e : e \in Errnos} /\ short' \in BOOLEAN
    OBVIOUS
  <2>5. arg0' \in Counts \cup {0, -1, Number} \cup {-e : e \in Errnos}
    OBVIOUS
  <2>6. errno' \in Errnos \cup {0} /\ executed' \in 0..3 /\ owed' \subseteq Given' \X Whole
    BY DEF IInv, Typed
  <2>7. QED BY <2>2, <2>3, <2>4, <2>5, <2>6 DEF Typed
<1>3. UnaskedInv' /\ BlocksInv'
  BY DEF IInv, UnaskedInv, Unasked, BlocksInv
<1>4. QED BY <1>2, <1>3 DEF IInv, HeldInv, PassedInv, AnswerInv, Answered, FilledInv,
              CleanInv, ResultsReturn, NothingStale, FaultsAreKnown

\* The results of a call that has been answered.
LEMMA Answers ==
  ASSUME Typed, NEW r \in Successes(call, nulls \cup Absent)
  PROVE  /\ (r \in Counts /\ r \in Nat) \/ r = 0
         /\ call = "clone" => r > 0
         /\ call = "recvfrom" /\ 2 \in nulls \cup Absent => r = 0
  BY CountsAssumption DEF Successes

\* An answer, whichever it is and however short, leaves what the kernel writes
\* where it belongs.
LEMMA WriteStep ==
  ASSUME Typed, HeldInv, PassedInv, pc = "kernel", NEW r \in Int, NEW brief \in BOOLEAN,
         r >= 0 => r \in Successes(call, nulls \cup Absent), buf' = Write(r, brief),
         NEW i \in Filled(call, Given, r), NEW p \in Reach(call, i, brief),
         ~ (Hosts(call)[i].how = "flagged" /\ passed[i] = <<Nil, Nil>> /\ Prototype[call][i].is # "some")
  PROVE  buf'[Home(call, i)][p] = Result(i)
<1>1. /\ i \in Given /\ Written(call, i) /\ p \in Parts
      /\ Prototype[call][i].is = "some" => r > 0
  BY DEF Filled, Written, Reach, Front, Whole, Parts
<1>2. \A j \in FilledBy(r) : /\ j \in Given /\ Written(call, j) /\ Address(passed[j]) # 0
  BY DEF Filled, FilledBy, Written
<1>3. Address(passed[i]) = Home(call, i) /\ Home(call, i) \in Buffers
  <2>1. CASE Address(passed[i]) = 0
    <3>1. Hosts(call)[i].how = "flagged" /\ passed[i] = <<Nil, Nil>>
      BY <1>1, <2>1, Targets
    <3>2. r > 0 /\ Prototype[call][i].is = "some"
      BY <1>1, <3>1
    <3>3. Aimed(call, i)
      BY <1>1, Args DEF Agree, Sends
    <3>4. call = "recvfrom" /\ i = 2
      BY <3>1, <3>2, <3>3 DEF Aimed
    <3>5. 2 \in Absent
      BY <1>1, <3>1, <3>4 DEF Absent, Given
    <3>6. r = 0
      BY <3>2, <3>4, <3>5, Answers
    <3>7. QED BY <3>2, <3>6
  <2>2. QED BY <1>1, <2>1, Targets DEF Buffers
<1> DEFINE by == {j \in FilledBy(r) : Address(passed[j]) = Home(call, i) /\ p \in Reach(call, j, brief)}
<1>4. i \in by
  BY <1>1, <1>3, Targets DEF FilledBy, Buffers
<1>5. ASSUME NEW j \in FilledBy(r), Address(passed[j]) = Home(call, i) PROVE j = i
  <2>1. j \in DOMAIN Items /\ i \in DOMAIN Items /\ Home(call, j) = Home(call, i)
    BY <1>1, <1>2, <1>3, <1>5, Targets
  <2>2. QED BY <2>1, Args DEF Agree, Sends, Placed, Home, Puts, Items
<1>6. Write(r, brief)[Home(call, i)][p] = IF by = {} THEN buf[Home(call, i)][p] ELSE Result(CHOOSE j \in by : TRUE)
  BY <1>1, <1>3 DEF Write
<1>7. by = {i}
  BY <1>4, <1>5
<1>8. (CHOOSE j \in by : TRUE) = i
  BY <1>7
<1>9. QED BY <1>6, <1>7, <1>8

\* It writes nothing but its own results.
LEMMA Writing ==
  ASSUME Typed, NEW r, NEW brief, NEW b \in Buffers, NEW p \in Parts
  PROVE  Write(r, brief)[b][p] \in {buf[b][p]} \cup {Result(i) : i \in 1..6}
<1> DEFINE by == {i \in FilledBy(r) : Address(passed[i]) = b /\ p \in Reach(call, i, brief)}
<1>1. Write(r, brief)[b][p] = IF by = {} THEN buf[b][p] ELSE Result(CHOOSE i \in by : TRUE)
  BY DEF Write
<1>2. by \subseteq 1..6
  BY Args DEF FilledBy, Filled
<1>3. by # {} => (CHOOSE i \in by : TRUE) \in 1..6
  BY <1>2
<1> HIDE DEF by
<1>4. QED BY <1>1, <1>3

LEMMA WriteType ==
  ASSUME Typed, NEW r, NEW brief
  PROVE  Write(r, brief) \in [Buffers -> [Parts -> Words]]
<1>1. ASSUME NEW b \in Buffers, NEW p \in Parts PROVE Write(r, brief)[b][p] \in Words
  <2>1. buf[b][p] \in Words
    BY DEF Typed
  <2>2. QED BY <2>1, Writing DEF Words
<1>2. QED BY <1>1 DEF Write

LEMMA KernelStep == ASSUME IInv, Kernel PROVE IInv'
<1>1. /\ pc = "kernel" /\ pc' = "get" /\ executed' = executed + Un!Executions(call)
      /\ UNCHANGED <<call, nulls, bare, room, many, passed, got, blocks>>
  BY DEF Kernel, program
<1>2. Given' = Given /\ Items' = Items /\ FixedSpan' = FixedSpan /\ call \notin Wr!Silent
  BY <1>1 DEF Given, Items, FixedSpan, IInv, Typed
<1>3. \E r \in Int, brief \in BOOLEAN :
        /\ r >= 0 => r \in Successes(call, nulls \cup Absent)
        /\ answer' = r /\ short' = brief /\ buf' = Write(r, brief) /\ owed' = Owes(r, brief)
        /\ r \in Counts \cup {0} \cup {-e : e \in Errnos}
        /\ \/ r >= 0 /\ arg0' = r /\ errno' = errno
           \/ r < 0 /\ errno' \in Errnos \cup {0} /\ arg0' = -errno'
              /\ (call # "clone" => arg0' = r)
  <2>1. ASSUME NEW r \in Successes(call, nulls \cup Absent), Succeed(r)
        PROVE  r \in Int /\ r >= 0 /\ r \in Counts \cup {0}
    BY <2>1, Answers DEF IInv
  <2>2. ASSUME NEW e \in Errnos, Fail(e)
        PROVE  /\ -e \in Int /\ -e < 0 /\ errno' \in Errnos \cup {0}
               /\ (call # "clone" => errno' = e)
    BY <2>2, ErrnosAssumption DEF Fail, IInv, Typed, Un!SetsErrno
  <2>3. CASE \E r \in Successes(call, nulls \cup Absent) : Succeed(r)
    BY <2>1, <2>3 DEF Succeed, Reply
  <2>4. CASE \E e \in Errnos : Fail(e)
    <3>1. PICK e \in Errnos : Fail(e)
      BY <2>4
    <3>2. /\ -e \in {-x : x \in Errnos} /\ answer' = -e /\ short' \in BOOLEAN
          /\ buf' = Write(-e, short') /\ owed' = Owes(-e, short') /\ arg0' = -errno'
      BY <3>1 DEF Fail, Reply
    <3>3. /\ -e \in Int /\ -e < 0 /\ errno' \in Errnos \cup {0}
          /\ (call # "clone" => arg0' = -e)
      BY <2>2, <3>1, <3>2
    <3>4. QED BY <3>2, <3>3
  <2>5. QED BY <2>3, <2>4 DEF Kernel
<1>4. PICK r \in Int, brief \in BOOLEAN :
        /\ r >= 0 => r \in Successes(call, nulls \cup Absent)
        /\ answer' = r /\ short' = brief /\ buf' = Write(r, brief) /\ owed' = Owes(r, brief)
        /\ r \in Counts \cup {0} \cup {-e : e \in Errnos}
        /\ \/ r >= 0 /\ arg0' = r /\ errno' = errno
           \/ r < 0 /\ errno' \in Errnos \cup {0} /\ arg0' = -errno'
              /\ (call # "clone" => arg0' = r)
  BY <1>3
<1>5. Typed'
  <2>1. buf' \in [Buffers -> [Parts -> Words]]
    BY <1>4, WriteType DEF IInv
  <2>2. errno' \in Errnos \cup {0}
    BY <1>4 DEF IInv, Typed
  <2>3. arg0' \in Counts \cup {0, -1, Number} \cup {-e : e \in Errnos}
    <3>1. CASE r >= 0 /\ arg0' = r
      BY <1>4, <3>1
    <3>2. CASE errno' \in Errnos \cup {0} /\ arg0' = -errno'
      BY <3>2
    <3>3. QED BY <1>4, <3>1, <3>2
  <2>4. executed' \in 0..3
    BY <1>1 DEF IInv, UnaskedInv, Unasked, Un!Executions
  <2>5. owed' \subseteq Given \X Whole
    BY <1>4 DEF Owes, Filled, Reach, Front, Whole
  <2>6. QED BY <1>1, <1>2, <1>4, <2>1, <2>2, <2>3, <2>4, <2>5 DEF IInv, Typed
<1>6. UnaskedInv' /\ BlocksInv'
  BY <1>1 DEF IInv, UnaskedInv, Unasked, BlocksInv
<1>7. AnswerInv'
  <2>1. owed' = Owes(answer, short)'
    BY <1>1, <1>2, <1>4 DEF Owes
  <2>2. arg0' = answer' \/ (call' = "clone" /\ answer' < 0)
    BY <1>1, <1>4
  <2>3. call' = "recvfrom" /\ 2 \in nulls' => answer' <= 0
    <3>1. CASE r >= 0
      <4>1. call = "recvfrom" /\ 2 \in nulls \cup Absent => r = 0
        BY <1>4, <3>1, Answers DEF IInv
      <4>2. QED BY <1>1, <1>4, <4>1
    <3>2. CASE r < 0
      BY <1>1, <1>4, <3>2
    <3>3. QED BY <3>1, <3>2
  <2>4. executed' = Un!Executions(call')
    BY <1>1 DEF IInv, UnaskedInv, Unasked, Un!Executions
  <2>5. QED BY <2>1, <2>2, <2>3, <2>4 DEF AnswerInv
<1>8. FilledInv'
  <2>1. SUFFICES ASSUME NEW o \in Owes(r, brief),
                        ~ (Hosts(call)[o[1]].how = "flagged" /\ passed[o[1]] = <<Nil, Nil>>
                           /\ Prototype[call][o[1]].is # "some")
                 PROVE  buf'[Home(call, o[1])][o[2]] = Result(o[1])
    BY <1>1, <1>4 DEF FilledInv, Hosts, Home, Puts
  <2>2. o[1] \in Filled(call, Given, r) /\ o[2] \in Reach(call, o[1], brief)
    BY DEF Owes
  <2>3. QED BY <1>1, <1>4, <2>1, <2>2, WriteStep DEF IInv
<1>9. CleanInv'
  <2>1. /\ ~NullRead /\ NullRead' = NullRead
        /\ \A i \in DOMAIN Items : Own(i) => Held(i)
        /\ \A i : Own(i)' = Own(i)
    BY <1>1, <1>2 DEF IInv, HeldInv, NullRead, Own
  <2>2. ASSUME NEW b \in Buffers, NEW p \in Parts, NEW i \in 1..6, buf[b][p] = Arg(i)
        PROVE  buf'[b][p] # Stale
    <3>1. buf'[b][p] \in {Arg(i)} \cup {Result(k) : k \in 1..6}
      BY <1>4, <2>2, Writing DEF IInv
    <3>2. QED BY <3>1 DEF Arg, Result, Stale
  <2>3. ASSUME NEW i \in DOMAIN Items, Own(i), i \notin nulls \cup bare
        PROVE  /\ Items[i].how \in {"data", "given"} => \A p \in Whole : buf'[i][p] # Stale
               /\ Items[i].how = "refdata" => \A p \in Whole : buf'[Items[i].to][p] # Stale
               /\ Items[i].how = "fixed" => \A p \in FixedSpan : buf'[i][p] # Stale
    <3>1. /\ i \in 1..6 /\ i \in Buffers /\ Held(i)
          /\ Items[i].how = "refdata" => Items[i].to \in Buffers
          /\ Whole \subseteq Parts /\ FixedSpan \subseteq Parts
      BY <2>1, <2>3, Args, RoomKnown DEF IInv, Agree, Sends, Placed, Puts, Items, Buffers, ByAddress, Parts
    <3>2. Items[i].how \in {"data", "given"} => \A p \in Whole : buf'[i][p] # Stale
      <4>1. Items[i].how \in {"data", "given"} => \A p \in Whole : buf[i][p] = Arg(i)
        BY <2>3, <3>1 DEF Held
      <4>2. QED BY <2>2, <3>1, <4>1
    <3>3. Items[i].how = "refdata" => \A p \in Whole : buf'[Items[i].to][p] # Stale
      <4>1. Items[i].how = "refdata" => \A p \in Whole : buf[Items[i].to][p] = Arg(i)
        BY <2>3, <3>1 DEF Held
      <4>2. QED BY <2>2, <3>1, <4>1
    <3>4. Items[i].how = "fixed" => \A p \in FixedSpan : buf'[i][p] # Stale
      <4>1. Items[i].how = "fixed" => \A p \in FixedSpan : buf[i][p] = Arg(i)
        BY <2>3, <3>1 DEF Held
      <4>2. QED BY <2>2, <3>1, <4>1
    <3>5. QED BY <3>2, <3>3, <3>4
  <2>4. QED BY <1>1, <1>2, <2>1, <2>3 DEF CleanInv
<1>10. QED BY <1>1, <1>5, <1>6, <1>7, <1>8, <1>9
           DEF IInv, HeldInv, PassedInv, ResultsReturn, NothingStale, FaultsAreKnown

LEMMA WhenMade ==
  ASSUME NEW g
  PROVE  /\ g.when = "always" => Made(g)
         /\ g.when = "given" => (Made(g) <=> g.arg \notin nulls)
         /\ g.when = "positive" => (Made(g) <=> arg0 > 0)
         /\ g.when = "succeeded" => (Made(g) <=> arg0 # -1)
         /\ g.when = "nonzero" => (Made(g) <=> arg0 # 0)
  BY DEF Made

\* What is copied back, as the rows say.
LEMMA CopyRows ==
  ASSUME Typed, NEW g \in CopiesBack
  PROVE  /\ g \in Gets(call) /\ Made(g) /\ (g.len = "result" => arg0 # 0)
         /\ Timely(call, g) /\ Measured(call, g)
         /\ g.arg \in DOMAIN Prototype[call] /\ g.arg \in Pointers(call) /\ Written(call, g.arg)
<1>1. g \in Gets(call) /\ Made(g) /\ (g.len = "result" => arg0 # 0)
  BY DEF CopiesBack, Gets
<1>2. QED BY <1>1, Args DEF Agree, Copies, Timely

LEMMA Integral ==
  ASSUME Typed
  PROVE  answer \in Int /\ arg0 \in Int
<1>1. Counts \subseteq Int /\ {-e : e \in Errnos} \subseteq Int
  BY CountsAssumption, ErrnosAssumption
<1>2. answer \in Counts \cup {0} \cup {-e : e \in Errnos}
  BY DEF Typed
<1>3. arg0 \in Counts \cup {0, -1, 100} \cup {-e : e \in Errnos}
  BY DEF Typed, Number
<1>4. QED BY <1>1, <1>2, <1>3

\* The copies that could end the enclave.
LEMMA EndsKnown ==
  ASSUME Typed, AnswerInv, pc = "get", Ends
  PROVE  \/ call = "times" /\ nulls # {}
         \/ call \in {"pread64", "getdents64", "readlinkat"} /\ answer < 0
<1> USE Integral
<1>1. /\ arg0 = answer \/ (call = "clone" /\ answer < 0)
      /\ call = "recvfrom" /\ 2 \in nulls => answer <= 0
  BY DEF AnswerInv, Answered
<1>2. ASSUME NEW g \in CopiesBack, Overlong(g)
      PROVE  call \in {"pread64", "getdents64", "readlinkat"} /\ answer < 0
  <2>1. g.len = "result" /\ arg0 < 0
    BY <1>2 DEF Overlong
  <2>2. g.when # "positive"
    BY <2>1, CopyRows, WhenMade
  <2>3. call \in {"pread64", "getdents64", "readlinkat"}
    BY <2>1, <2>2, CopyRows DEF Measured
  <2>4. QED BY <1>1, <2>1, <2>3
<1>3. ASSUME NEW g \in CopiesBack, g.arg \in nulls
      PROVE  call = "times" /\ nulls # {}
  <2>1. g.when # "given"
    BY <1>3, CopyRows, WhenMade
  <2>2. g.arg \in Nullable(call)
    BY <1>3, Args
  <2>3. call = "times" \/ (call = "recvfrom" /\ g.arg = 2 /\ g.when = "positive")
    BY <2>1, <2>2, CopyRows, Args DEF Agree, Careful
  <2>4. ~ (call = "recvfrom" /\ g.arg = 2 /\ g.when = "positive")
    <3>1. SUFFICES ASSUME call = "recvfrom", g.arg = 2, g.when = "positive" PROVE FALSE
      OBVIOUS
    <3>2. arg0 > 0
      BY <3>1, CopyRows, WhenMade
    <3>3. QED BY <1>1, <1>3, <3>1, <3>2
  <2>5. QED BY <1>3, <2>3, <2>4
<1>4. QED BY <1>2, <1>3 DEF Ends

\* What the kernel has written comes back, if the copy is made of that part ...
LEMMA Comeback ==
  ASSUME Typed, AnswerInv, FilledInv, pc = "get", ~Ends, GetResults,
         NEW o \in owed, ~LostBack(o[1], o[2])
  PROVE  got'[o[1]][o[2]] = Result(o[1])
<1> USE Integral
<1> DEFINE i == o[1]
           p == o[2]
<1>1. i \in Filled(call, Given, answer) /\ p \in Reach(call, i, short)
  BY DEF AnswerInv, Answered, Owes
<1>2. /\ i \in Given /\ Written(call, i)
      /\ IF call = "nanosleep" THEN answer < 0 ELSE answer >= 0
      /\ Prototype[call][i].is = "some" => answer > 0
      /\ p \in Whole /\ (short /\ Prototype[call][i].is = "some" => p \in Front)
  BY <1>1 DEF Filled, Written, Reach, Front, Whole
<1>3. /\ <<call, i>> \notin NotFetched
      /\ ~ (<<call, i>> \in {"select"} \X (2..4) /\ passed[i] = <<Nil, Nil>>)
      /\ ~ (<<call, i>> \in FetchedCut /\ room = "more" /\ p = "rest")
      /\ ~ (call = "recvmsg" /\ p = "lo") /\ ~ (call = "rt_sigaction" /\ p = "rest")
  BY DEF LostBack
<1> HIDE DEF i, p
<1>4. i \in DOMAIN Prototype[call] /\ i \notin nulls /\ i \in 1..6
  BY <1>2, Args
<1>5. /\ call # "nanosleep" => arg0 = answer
      /\ arg0 = answer \/ call = "clone"
  BY <1>2 DEF AnswerInv, Answered
<1>6. Fetched(call, i)
  BY <1>2, <1>3, <1>4, Args DEF Agree, Fetches
<1>7. buf[Home(call, i)][p] = Result(i)
  BY <1>3, <1>6 DEF Fetched, FilledInv, i, p
<1>8. PICK g \in Gets(call) :
        /\ g.arg = i
        /\ \/ g.when \in {"always", "given"}
           \/ g.when = "succeeded" /\ call # "nanosleep"
           \/ g.when \in {"positive", "nonzero"} /\ Prototype[call][i].is = "some"
  BY <1>6 DEF Fetched
<1>9. Prototype[call][i].is = "some" => arg0 > 0
  BY <1>2, <1>5
<1>10. Made(g)
  <2>1. CASE g.when = "always"
    BY <2>1, WhenMade
  <2>2. CASE g.when = "given"
    BY <1>4, <1>8, <2>2, WhenMade
  <2>3. CASE g.when = "succeeded" /\ call # "nanosleep"
    BY <1>2, <1>5, <2>3, WhenMade
  <2>4. CASE g.when \in {"positive", "nonzero"} /\ Prototype[call][i].is = "some"
    BY <1>9, <2>4, WhenMade
  <2>5. QED BY <1>8, <2>1, <2>2, <2>3, <2>4
<1>11. ASSUME NEW h \in Gets(call), h.arg = i
       PROVE  /\ p \in Taken(h)
              /\ h.len = "result" => Prototype[call][i].is = "some"
  <2>1. \/ h.len \in {"block", "longer"}
        \/ h.len = "result" /\ Prototype[call][i].is = "some"
        \/ h.len = "head" /\ call = "rt_sigaction"
        \/ h.len = "fixed" /\ <<call, i>> \in FetchedCut
        \/ h.len = "message" /\ call = "recvmsg"
    BY <1>6, <1>11 DEF Fetched
  <2>2. CASE h.len \in {"block", "longer"}
    BY <1>2, <2>2 DEF Taken, Parts
  <2>3. CASE h.len = "result" /\ Prototype[call][i].is = "some"
    BY <1>2, <2>3 DEF Taken, Parts
  <2>4. CASE h.len = "head" /\ call = "rt_sigaction"
    BY <1>2, <1>3, <2>4 DEF Taken, Whole
  <2>5. CASE h.len = "fixed" /\ <<call, i>> \in FetchedCut
    <3>1. p \in FixedSpan
      BY <1>2, <1>3, <2>5, RoomKnown DEF Whole
    <3>2. QED BY <2>5, <3>1 DEF Taken
  <2>6. CASE h.len = "message" /\ call = "recvmsg"
    BY <1>2, <1>3, <2>6 DEF Taken
  <2>7. QED BY <2>1, <2>2, <2>3, <2>4, <2>5, <2>6
<1>12. g \in CopiesBack
  BY <1>8, <1>9, <1>10, <1>11 DEF CopiesBack, Gets
<1>13. ASSUME NEW h \in CopiesBack, h.arg = i
       PROVE  Received(h)[p] = Result(i)
  <2>1. p \in Taken(h) /\ p \in Parts
    BY <1>2, <1>11, <1>13, CopyRows DEF Parts
  <2>2. BufferOf(i) = Home(call, i)
    BY DEF BufferOf, Home, Puts, Items
  <2>3. QED BY <1>7, <1>13, <2>1, <2>2 DEF Received
<1>14. got'[i] = Received(CHOOSE c \in CopiesBack : c.arg = i)
  <2>1. got' = [k \in 1..6 |-> IF \E c \in CopiesBack : c.arg = k
                               THEN Received(CHOOSE c \in CopiesBack : c.arg = k) ELSE got[k]]
    BY DEF GetResults
  <2>2. QED BY <1>4, <1>8, <1>12, <2>1
<1>15. got'[i][p] = Result(i)
  BY <1>8, <1>12, <1>13, <1>14
<1>16. QED BY <1>15 DEF i, p

\* ... and nothing of what a buffer held before.
LEMMA Untainted ==
  ASSUME Typed, AnswerInv, FilledInv, CleanInv, pc = "get", ~Ends, GetResults,
         answer >= 0, call \notin Brief, ~ (call = "recvfrom" /\ room = "less"),
         NEW g \in CopiesBack, NEW p \in Parts
  PROVE  Received(g)[p] # Stale
<1> USE Integral
<1> DEFINE i == g.arg
           put == Items[i]
           is == Prototype[call][i].is
<1>1. /\ i \in DOMAIN Prototype[call] /\ i \in Pointers(call) /\ Written(call, i)
      /\ i \notin nulls /\ ~Overlong(g) /\ call \notin {"futex", "pselect6"}
      /\ \/ is \in {"out", "both"} /\ g.len \in {"block", "head"} /\ Hosts(call)[i].how # "flagged"
         \/ is = "some" /\ g.len = "result"
         \/ put.how \in {"data", "given", "refdata"} /\ put.of = 0 /\ g.len = "block"
         \/ put.how = "fixed" /\ put.of = 0 /\ g.len = "fixed"
  <2>1. Timely(call, g)
    BY CopyRows
  <2>2. i \notin nulls /\ ~Overlong(g)
    BY DEF Ends
  <2>3. QED BY <2>1, <2>2, CopyRows DEF Timely, Items, Puts
<1>2. arg0 = answer
  BY DEF AnswerInv, Answered
<1>3. Aimed(call, i)
  BY <1>1, Args DEF Agree, Sends
<1>4. i \in DOMAIN Items /\ i \in 1..6
  BY <1>1, <1>3, Args DEF Aimed, Items, Puts
<1>5. i \notin bare
  <2>1. call = "ioctl" => Items[3].how = "fixed" /\ 3 \in DOMAIN Items
    BY Args DEF Agree, Sends, Placed, Items, Puts
  <2>2. 3 \in bare => call # "ioctl"
    BY <2>1 DEF CleanInv, NullRead
  <2>3. QED BY <1>1, <2>2, Args
<1>6. /\ put.to \in {0} \cup 1..11
      /\ put.how \in {"data", "given", "fixed"} => put.to = 0
      /\ put.how = "refdata" => put.to # 0
  BY <1>4, Args DEF Agree, Sends, Placed, Puts, Items, Direct, ByAddress
<1>7. BufferOf(i) = Home(call, i)
  BY DEF BufferOf, Home, Puts, Items
<1>8. Received(g)[p] = IF p \in Taken(g) THEN buf[BufferOf(i)][p] ELSE Missing
  BY DEF Received
<1>9. Missing # Stale
  BY DEF Missing, Stale
<1>10. ASSUME i \in Filled(call, Given, answer), p \in Reach(call, i, short),
              Hosts(call)[i].how # "flagged" \/ is = "some"
       PROVE  buf[BufferOf(i)][p] # Stale
  <2>1. <<i, p>> \in owed
    BY <1>10 DEF AnswerInv, Answered, Owes
  <2>2. buf[Home(call, i)][p] = Result(i)
    BY <1>10, <2>1 DEF FilledInv
  <2>3. QED BY <1>7, <2>2 DEF Result, Stale
<1>11. /\ is # "some" => i \in Filled(call, Given, answer)
       /\ answer > 0 => i \in Filled(call, Given, answer)
  <2>1. i \in Given /\ call # "nanosleep"
    BY <1>1, <1>5 DEF Given, Brief
  <2>2. QED BY <1>1, <2>1 DEF Filled, Written
<1>12. CASE is \in {"out", "both"} /\ g.len \in {"block", "head"} /\ Hosts(call)[i].how # "flagged"
  <2>1. p \in Taken(g) => p \in Reach(call, i, short)
    BY <1>12 DEF Taken, Reach, Whole
  <2>2. QED BY <1>8, <1>9, <1>10, <1>11, <1>12, <2>1
<1>13. CASE is = "some" /\ g.len = "result"
  <2>1. answer > 0
    BY <1>1, <1>2, <1>13, CopyRows DEF Overlong
  <2>2. room # "less"
    BY <1>1, <1>13, CopyRows, RoomKnown DEF Measured, Overlong
  <2>3. p \in Taken(g) => p \in Reach(call, i, short)
    BY <1>13, <2>2 DEF Taken, Reach
  <2>4. QED BY <1>8, <1>9, <1>10, <1>11, <1>13, <2>1, <2>3
<1>14. CASE put.how \in {"data", "given", "refdata"} /\ put.of = 0 /\ g.len = "block"
  <2>1. Own(i)
    BY <1>1, <1>14 DEF Own
  <2>2. p \in Taken(g) => p \in Whole
    BY <1>14 DEF Taken
  <2>3. BufferOf(i) = IF put.how = "refdata" THEN put.to ELSE i
    BY <1>6, <1>14 DEF BufferOf
  <2>4. QED BY <1>1, <1>4, <1>5, <1>8, <1>9, <1>14, <2>1, <2>2, <2>3 DEF CleanInv
<1>15. CASE put.how = "fixed" /\ put.of = 0 /\ g.len = "fixed"
  <2>1. Own(i)
    BY <1>1, <1>15 DEF Own
  <2>2. p \in Taken(g) => p \in FixedSpan
    BY <1>15 DEF Taken
  <2>3. BufferOf(i) = i
    BY <1>6, <1>15 DEF BufferOf
  <2>4. QED BY <1>1, <1>4, <1>5, <1>8, <1>9, <1>15, <2>1, <2>2, <2>3 DEF CleanInv
<1>16. QED BY <1>1, <1>12, <1>13, <1>14, <1>15

LEMMA GetStep == ASSUME IInv, GetResults PROVE IInv'
<1>1. /\ pc = "get" /\ call \notin Wr!Silent
      /\ UNCHANGED <<call, nulls, bare, room, many, buf, arg0, passed, errno, answer, short, owed, executed>>
  BY DEF GetResults, program, IInv, Typed
<1>2. Given' = Given
  BY <1>1 DEF Given
<1>3. CASE Ends
  <2>1. pc' = "fault" /\ UNCHANGED <<got, blocks>>
    BY <1>3 DEF GetResults
  <2>2. Typed' /\ UnaskedInv' /\ BlocksInv'
    BY <1>1, <1>2, <2>1 DEF IInv, Typed, UnaskedInv, Unasked, BlocksInv
  <2>3. FaultsAreKnown'
    BY <1>1, <1>3, <2>1, EndsKnown DEF IInv, FaultsAreKnown
  <2>4. QED BY <2>1, <2>2, <2>3 DEF IInv, HeldInv, PassedInv, AnswerInv, Answered, FilledInv,
                CleanInv, ResultsReturn, NothingStale
<1>4. CASE ~Ends
  <2>1. /\ pc' = "return"
        /\ got' = [i \in 1..6 |-> IF \E c \in CopiesBack : c.arg = i
                                  THEN Received(CHOOSE c \in CopiesBack : c.arg = i) ELSE got[i]]
        /\ blocks' = {b \in blocks : b[1] # call \/ b[2] \notin Wr!Frees(call)}
    BY <1>4 DEF GetResults
  <2>2. Typed' /\ UnaskedInv'
    BY <1>1, <1>2, <2>1 DEF IInv, Typed, UnaskedInv, Unasked
  <2>3. BlocksInv'
    BY <1>1, <2>1 DEF IInv, BlocksInv, Wr!Frees, Wr!Worded, Kept
  <2>4. AnswerInv'
    <3>1. Owes(answer, short)' = Owes(answer, short)
      BY <1>1, <1>2 DEF Owes
    <3>2. QED BY <1>1, <1>2, <2>1, <3>1 DEF IInv, AnswerInv, Answered
  <2>5. ResultsReturn'
    <3>1. ASSUME NEW o \in owed, ~LostBack(o[1], o[2]) PROVE got'[o[1]][o[2]] = Result(o[1])
      BY <1>1, <1>4, <3>1, Comeback DEF IInv
    <3>2. \A i, p : LostBack(i, p)' = LostBack(i, p)
      BY <1>1 DEF LostBack
    <3>3. QED BY <1>1, <3>1, <3>2 DEF ResultsReturn, Comes
  <2>6. NothingStale'
    <3>1. SUFFICES ASSUME answer >= 0, call \notin Brief, ~ (call = "recvfrom" /\ room = "less"),
                          NEW i \in 1..6, NEW p \in Parts
                   PROVE  got'[i][p] # Stale
      BY <1>1, <2>1 DEF NothingStale
    <3>2. CASE \E c \in CopiesBack : c.arg = i
      <4>1. got'[i] = Received(CHOOSE c \in CopiesBack : c.arg = i)
        BY <2>1, <3>2
      <4>2. (CHOOSE c \in CopiesBack : c.arg = i) \in CopiesBack
        BY <3>2
      <4>3. QED BY <1>1, <1>4, <3>1, <4>1, <4>2, Untainted DEF IInv
    <3>3. CASE ~ \E c \in CopiesBack : c.arg = i
      <4>1. got'[i] = Block(Missing)
        BY <1>1, <2>1, <3>3 DEF IInv, UnaskedInv
      <4>2. QED BY <4>1 DEF Block, Missing, Stale
    <3>4. QED BY <3>2, <3>3
  <2>7. QED BY <2>1, <2>2, <2>3, <2>4, <2>5, <2>6
            DEF IInv, HeldInv, PassedInv, FilledInv, CleanInv, FaultsAreKnown
<1>5. QED BY <1>3, <1>4

\* alarm has no block that could be overwritten or kept.
LEMMA FallStep == ASSUME IInv, FallThrough PROVE IInv'
<1>1. /\ pc = "get" /\ call = "alarm" /\ call \notin Wr!Silent
      /\ UNCHANGED <<call, nulls, bare, room, many, buf, passed, answer, short, owed, got, blocks>>
  BY DEF FallThrough, program, IInv, Typed
<1>2. Given' = Given /\ Owes(answer, short)' = Owes(answer, short)
  BY <1>1 DEF Given, Owes
<1>3. owed = {}
  <2>1. Given = {}
    BY <1>1, AlarmKnown DEF Given
  <2>2. QED BY <2>1 DEF IInv, Typed
<1>4. executed = 1
  BY <1>1 DEF IInv, AnswerInv, Answered, Un!Executions
<1>5. /\ pc' \in {"fault", "return"} /\ errno' \in Errnos \cup {errno}
      /\ executed' \in 0..3 /\ arg0' \in Counts \cup {arg0, -errno'}
  BY <1>4 DEF FallThrough
<1>6. Typed'
  <2>1. errno' \in Errnos \cup {0}
    BY <1>5 DEF IInv, Typed
  <2>2. -errno' \in {0} \cup {-e : e \in Errnos}
    BY <2>1
  <2>3. arg0' \in Counts \cup {0, -1, Number} \cup {-e : e \in Errnos}
    BY <1>5, <2>2 DEF IInv, Typed
  <2>4. QED BY <1>1, <1>2, <1>5, <2>1, <2>3 DEF IInv, Typed
<1>7. UnaskedInv' /\ BlocksInv'
  BY <1>1, <1>5 DEF IInv, UnaskedInv, Unasked, BlocksInv
<1>8. AnswerInv'
  BY <1>1, <1>2, <1>5 DEF IInv, AnswerInv, Answered
<1>9. ResultsReturn' /\ NothingStale'
  <2>1. got' = [i \in 1..6 |-> Block(Missing)]
    BY <1>1 DEF IInv, UnaskedInv
  <2>2. QED BY <1>1, <1>3, <2>1 DEF ResultsReturn, NothingStale, Block, Missing, Stale
<1>10. FaultsAreKnown'
  BY <1>1 DEF FaultsAreKnown
<1>11. QED BY <1>5, <1>6, <1>7, <1>8, <1>9, <1>10 DEF IInv, HeldInv, PassedInv, FilledInv, CleanInv

LEMMA Inductive == IInv /\ [Next]_vars => IInv'
<1> SUFFICES ASSUME IInv, [Next]_vars PROVE IInv'
  OBVIOUS
<1>1. CASE \E m \in Calls : Begin(m)
  BY <1>1, BeginStep
<1>2. CASE PutArguments
  BY <1>2, PutStep
<1>3. CASE Enter
  BY <1>3, EnterStep
<1>4. CASE Kernel
  BY <1>4, KernelStep
<1>5. CASE GetResults
  BY <1>5, GetStep
<1>6. CASE FallThrough
  BY <1>6, FallStep
<1>7. CASE Return
  BY <1>7, ReturnStep
<1>8. CASE UNCHANGED vars
  <2> USE <1>8 DEF vars, program
  <2>1. /\ Given' = Given /\ Items' = Items /\ Flagged' = Flagged /\ FixedSpan' = FixedSpan
        /\ Owes(answer, short)' = Owes(answer, short)
    BY DEF Given, Items, Flagged, FixedSpan, Owes
  <2>2. Typed' /\ UnaskedInv' /\ BlocksInv'
    BY <2>1 DEF IInv, Typed, UnaskedInv, Unasked, BlocksInv
  <2>3. /\ NullRead' = NullRead
        /\ \A i : Held(i)' = Held(i) /\ Own(i)' = Own(i)
    BY <2>1 DEF NullRead, Held, Own
  <2>4. HeldInv' /\ CleanInv'
    BY <2>1, <2>3 DEF IInv, HeldInv, CleanInv
  <2>5. PassedInv'
    <3>1. \A i, absent : Read(i, absent)' = Read(i, absent)
      BY DEF Read
    <3>2. QED BY <2>1, <3>1 DEF IInv, PassedInv, Hosts
  <2>6. AnswerInv' /\ FilledInv'
    BY <2>1 DEF IInv, AnswerInv, Answered, FilledInv, Hosts, Home, Puts
  <2>7. ResultsReturn' /\ NothingStale' /\ FaultsAreKnown'
    <3>1. \A i, p : LostBack(i, p)' = LostBack(i, p)
      BY DEF LostBack
    <3>2. QED BY <3>1 DEF IInv, ResultsReturn, Comes, NothingStale, FaultsAreKnown
  <2>8. QED BY <2>2, <2>4, <2>5, <2>6, <2>7 DEF IInv
<1>9. QED BY <1>1, <1>2, <1>3, <1>4, <1>5, <1>6, <1>7, <1>8 DEF Next

\* The inductive invariant of a slot in use: what the two sides know of each
\* other between the puts, the system call and the copies back, however short
\* the answer and whatever the room the caller has for it.
THEOREM Invariance == Spec => []IInv
  BY InitInv, Inductive, PTL DEF Spec

\* The slot, the program's pointers, errno and the results keep their types, for
\* any calls, counts and error numbers; a block owed is one the program gave.
THEOREM Typing == Spec => []TypeOK
<1>1. IInv => TypeOK
  <2> SUFFICES ASSUME IInv PROVE TypeOK
    OBVIOUS
  <2>1. Typed
    BY DEF IInv
  <2>2. nulls \in SUBSET (1..6) /\ bare \in SUBSET (1..6) /\ owed \subseteq ((1..6) \ nulls) \X Whole
    BY <2>1, Args DEF Typed
  <2>3. \A b \in Buffers, p \in Parts : buf[b][p] \in Words
    BY <2>1 DEF Typed
  <2>4. QED BY <2>1, <2>2, <2>3 DEF Typed, TypeOK, Words
<1>2. QED BY <1>1, Invariance, PTL

\* Whatever earlier calls left in the slot, the kernel gets this call's arguments,
\* but for those listed.  (__syscall_wrap before the ocall, ocall_syscall)
THEOREM Arriving == Spec => []ArgumentsArrive
<1>1. IInv => ArgumentsArrive
  BY Arrival DEF IInv
<1>2. QED BY <1>1, Invariance, PTL

\* What the kernel has written comes back, all of it, but for the results
\* listed.  (__syscall_wrap after the ocall)
THEOREM Returning == Spec => []ResultsReturn
<1>1. IInv => ResultsReturn
  BY DEF IInv
<1>2. QED BY <1>1, Invariance, PTL

\* A call that succeeds hands out nothing an earlier one left in a buffer, but for
\* the calls named, which copy more than the kernel has written.
\* (__syscall_wrap after the ocall)
THEOREM NothingLeftOver == Spec => []NothingStale
<1>1. IInv => NothingStale
  BY DEF IInv
<1>2. QED BY <1>1, Invariance, PTL

\* A copy back is no longer than the caller's block, but in the calls named and
\* there only if the block is shorter than the code takes it to be, or the
\* result an error.  (the lengths given to recv_user)
THEOREM Bounded == Spec => []CopiesBounded
<1>1. IInv => CopiesBounded
  <2> SUFFICES ASSUME IInv, pc = "get", NEW g \in CopiesBack
               PROVE  \/ ~Overlong(g) /\ "past" \notin Taken(g)
                      \/ call = "fstat"
                      \/ call \in {"ioctl", "accept4", "sched_getaffinity", "recvfrom"} /\ room = "less"
                      \/ call \in {"pread64", "getdents64", "readlinkat"} /\ arg0 < 0
    BY DEF CopiesBounded
  <2>1. Measured(call, g) /\ Made(g) /\ arg0 \in Int
    BY CopyRows, Integral DEF IInv
  <2>2. g.when = "positive" => ~Overlong(g)
    BY <2>1, WhenMade DEF Overlong
  <2>3. /\ room \in {"same", "less", "more"}
        /\ room # "same" => call \in {"ioctl", "truncate", "accept4", "sched_getaffinity", "recvfrom"}
        /\ room # "less" => "past" \notin FixedSpan
    BY RoomKnown DEF IInv
  <2>4. CASE g.len \in {"block", "head", "message"}
    BY <2>4 DEF Overlong, Taken, Whole, Front
  <2>5. CASE g.len = "fixed" /\ call \in {"ioctl", "accept4", "sched_getaffinity"}
    BY <2>3, <2>5 DEF Overlong, Taken
  <2>6. CASE g.len = "result"
    <3>1. "past" \in Taken(g) => room = "less"
      BY <2>6 DEF Taken, Whole, Front
    <3>2. QED BY <2>1, <2>2, <2>3, <2>6, <3>1 DEF Measured, Overlong
  <2>7. QED BY <2>1, <2>4, <2>5, <2>6 DEF Measured
<1>2. QED BY <1>1, Invariance, PTL

\* A legal call ends the enclave only in the ways listed.  (send_user and
\* recv_user on NULL, on a number or with a negative length, the case of alarm)
THEOREM KnownFaults == Spec => []FaultsAreKnown
<1>1. IInv => FaultsAreKnown
  BY DEF IInv
<1>2. QED BY <1>1, Invariance, PTL

\* No call but sendmsg, recvmsg, futex and set_tid_address leaves a block of
\* malloc_user behind.  (the calls of free_user at the end of __syscall_wrap's
\* cases, set_out_address)
THEOREM NoLeak == Spec => []BlocksFreed
<1>1. IInv => BlocksFreed
  BY DEF IInv, BlocksInv, BlocksFreed, Kept
<1>2. QED BY <1>1, Invariance, PTL

\* The program sees the answer to its own call, but for a clone that fails and
\* for alarm.  (arg0 between ocall_syscall and the end of __syscall_wrap)
THEOREM OwnResult == Spec => []ResultIsOwn
<1>1. IInv => ResultIsOwn
  BY DEF IInv, AnswerInv, Answered, ResultIsOwn
<1>2. QED BY <1>1, Invariance, PTL

\* Each call reaches the kernel once, but for sync, alarm and the two that never
\* do.  (the ocall of __syscall_wrap, the cases of ocall_syscall)
THEOREM Once == Spec => []OnceEach
<1>1. IInv => OnceEach
  BY DEF IInv, AnswerInv, Answered, UnaskedInv, Unasked, OnceEach, Un!Executions
<1>2. QED BY <1>1, Invariance, PTL
=============================================================================
