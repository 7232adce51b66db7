------------------------------- MODULE Marshal -------------------------------
(* One system call after another through one slot: __syscall_wrap puts the   *)
(* arguments into the slot's buffers, the ocall makes ocall_syscall read     *)
(* them back and call the kernel, and __syscall_wrap takes the results back. *)
(* A slot belongs to one call at a time (SlotExclusive, BufferIntact of      *)
(* SyscallTable), so nothing else touches the buffers during a call; between *)
(* calls they keep whatever the last user of the slot left, here Stale.      *)
(* A buffer is its first four bytes, the next four, the rest of a block and   *)
(* what lies past it; each holds the name of what was stored there, not the  *)
(* bytes.                                                                    *)
EXTENDS Integers, KernelCalls

CONSTANTS
  Calls,        \* the calls the program makes
  Errnos        \* the error numbers; EPERM is 1, whose negation is -1
ASSUME CallsKnown == Calls \subseteq DOMAIN Prototype
ASSUME ErrnosAssumption == Errnos \subseteq Nat \ {0}

VARIABLES pc,         \* idle, put, ocall, kernel, get, return or fault
          call, nulls, bare,   \* the call, its NULL pointers, those without a block
          room,       \* the caller's block beside the length fixed in the code
          many,       \* whether it needs blocks of malloc_user
          buf, arg0,  \* the slot: buffers and the number or result
          passed,     \* what the host hands to the kernel
          errno,      \* errno of the host thread
          answer, short, \* what the kernel said, a result or minus its errno; in how many bytes
          owed, got,  \* parts of blocks the kernel has filled, and what came back
          blocks,     \* live blocks of malloc_user
          executed    \* how often the kernel was called
program == <<call, nulls, bare, room, many>>
vars == <<pc, program, buf, arg0, passed, errno, answer, short, owed, got, blocks, executed>>

Wr == INSTANCE SyscallWrap
Un == INSTANCE SyscallUnwrap

Buffers == 1..11
Stale == <<"stale", 0>>
Arg(i) == <<"arg", i>>        \* the value of argument i, or the block it points to
Result(i) == <<"result", i>>
At(b) == <<"at", b>>          \* the address of a buffer
Nil == At(0)
Missing == <<"missing", 0>>
Extended == <<"extended", 0>> \* the sign of a four-byte value
Block(t) == [p \in Parts |-> t]

Number == 100                 \* a system-call number left in arg0
Given == Pointers(call) \ (nulls \cup bare)
Items == Wr!Wrapped[call].put
BufferOf(i) == IF Items[i].to = 0 THEN i ELSE Items[i].to

\* The caller's block may be shorter or longer than the code takes it to be;
\* recvfrom's is shorter than the result that MSG_TRUNC asks for.
Rooms(n) ==
  CASE n \in {"ioctl", "truncate", "accept4", "sched_getaffinity"} -> {"same", "less", "more"}
    [] n = "recvfrom" -> {"same", "less"}
    [] OTHER -> {"same"}
\* The parts of the caller's block that a length fixed in the code takes.
FixedSpan == CASE room = "less" -> Parts [] room = "same" -> Whole [] room = "more" -> Front

Init ==
  /\ pc = "idle" /\ call = "getpid" /\ nulls = {} /\ bare = {} /\ room = "same" /\ many = FALSE
  /\ buf = [b \in Buffers |-> Block(Stale)] /\ arg0 = 0
  /\ passed = << >> /\ errno = 0 /\ answer = 0 /\ short = FALSE /\ owed = {}
  /\ got = [i \in 1..6 |-> Block(Missing)] /\ blocks = {} /\ executed = 0

\* The program makes a call; the prologue has stored its number in arg0.
Begin(n) ==
  /\ pc = "idle" /\ pc' = "put" /\ call' = n /\ arg0' = Number
  /\ nulls' \in NullChoices(n) /\ bare' \in SUBSET (Blockless(n) \ nulls') /\ room' \in Rooms(n)
  /\ many' \in (IF n \in Wr!Scattering \cup Wr!Worded THEN BOOLEAN ELSE {FALSE})
  /\ UNCHANGED <<buf, passed, errno, answer, short, owed, got, blocks, executed>>

\* The stores of one item: <<buffer, part, what>>.
Into(b, parts, t) == {<<b, p, t>> : p \in parts}
Stores(i) ==
  LET it == Items[i]
      t == Arg(IF it.of = 0 THEN i ELSE it.of)
      address(b) == Into(b, Front, IF i \in nulls THEN Nil ELSE At(it.to))
      block(parts) == IF i \in nulls THEN {} ELSE Into(it.to, IF i \in bare THEN Front ELSE parts, t)
  IN CASE it.how = "int" -> Into(i, {"lo"}, t)
       [] it.how = "long" -> Into(i, Front, t)
       [] it.how \in {"data", "given"} /\ i \notin nulls -> Into(i, Whole, t)
       [] it.how = "fixed" /\ i \notin nulls -> Into(i, FixedSpan, t)
       [] it.how = "ref" -> address(i)
       [] it.how = "refdata" -> address(i) \cup block(Whole)
       [] it.how = "refhead" -> address(i) \cup block(Front)
       [] it.how = "pointer" -> Into(i, Front, At(it.to)) \cup
                                Into(it.to, Front, IF i \in nulls THEN Nil ELSE t)
       [] it.how = "stray" -> IF i \in bare THEN Into(i, Front, Nil)
                              ELSE Into(i - 1, Front, At(it.to)) \cup block(Whole)
       [] OTHER -> {}

\* The buffers after all items, in the order of the arguments.
Filling ==
  [b \in Buffers |-> [p \in Parts |->
     LET by == {i \in DOMAIN Items : \E s \in Stores(i) : s[1] = b /\ s[2] = p}
     IN IF by = {} THEN buf[b][p]
        ELSE LET last == CHOOSE i \in by : \A j \in by : j <= i
             IN (CHOOSE s \in Stores(last) : s[1] = b /\ s[2] = p)[3]]]

\* A block copied from NULL, or from a number, ends the enclave.
NullRead ==
  \E i \in DOMAIN Items :
     \/ Items[i].how \in {"data", "stray"} /\ i \in nulls
     \/ Items[i].how = "fixed" /\ i \in bare

PutArguments ==
  /\ pc = "put"
  /\ IF NullRead THEN pc' = "fault" /\ UNCHANGED <<buf, arg0, blocks>>
     ELSE /\ buf' = Filling
          /\ blocks' = blocks \cup {<<call, i>> : i \in Wr!Allocates(call, nulls \cup bare, many)}
          /\ arg0' = IF call = "unsupported" THEN -1 ELSE arg0
          /\ pc' = IF call \in Wr!Silent THEN "return" ELSE "ocall"
  /\ UNCHANGED <<program, passed, errno, answer, short, owed, got, executed>>

\* What the host reads for argument i.  The bytes of null_ptr that say which
\* pointers are NULL are not sent (only its first byte is), so any may be set.
Read(i, absent) ==
  LET h == Un!Unwrapped[call][i]
      b == IF h.from = 0 THEN i ELSE h.from
  IN CASE h.how = "int" -> <<buf[b]["lo"], Extended>>
       [] h.how = "long" -> <<buf[b]["lo"], buf[b]["hi"]>>
       [] h.how = "buffer" -> <<At(b), At(b)>>
       [] h.how = "flagged" -> IF i \in absent THEN <<Nil, Nil>> ELSE <<At(b), At(b)>>
       [] h.how = "null" -> <<Nil, Nil>>
       [] h.how = "missing" -> <<Missing, Missing>>

Flagged == {i \in DOMAIN Un!Unwrapped[call] : Un!Unwrapped[call][i].how = "flagged"}

Enter ==
  /\ pc = "ocall" /\ pc' = "kernel"
  /\ \E absent \in SUBSET Flagged :
       passed' = [i \in DOMAIN Un!Unwrapped[call] |-> Read(i, absent)]
  /\ UNCHANGED <<program, buf, arg0, errno, answer, short, owed, got, blocks, executed>>

\* The blocks the kernel can reach and writes when it answers r.
Address(v) == IF v[1] = v[2] /\ v[1][1] = "at" THEN v[1][2] ELSE 0
FilledBy(r) == {i \in Filled(call, Given, r) : Address(passed[i]) # 0}
Owes(r, brief) == UNION {{i} \X Reach(call, i, brief) : i \in Filled(call, Given, r)}

\* The pointers it takes for NULL.
Absent == {i \in Pointers(call) : passed[i] = <<Nil, Nil>>}

Write(r, brief) ==
  [b \in Buffers |-> [p \in Parts |->
     LET by == {i \in FilledBy(r) : Address(passed[i]) = b /\ p \in Reach(call, i, brief)}
     IN IF by = {} THEN buf[b][p] ELSE Result(CHOOSE i \in by : TRUE)]]

Reply(r) ==
  /\ answer' = r /\ short' \in BOOLEAN /\ buf' = Write(r, short') /\ owed' = Owes(r, short')
Succeed(r) == Reply(r) /\ arg0' = r /\ UNCHANGED errno

\* Mutant of Fail: the errno of the first failure is kept.
FailOnce(e) ==
  /\ Reply(-e)
  /\ errno' \in IF Un!SetsErrno(call) /\ errno = 0 THEN {e} ELSE {errno}
  /\ arg0' = -errno'
\* The C library returns -1 and sets errno, ocall_syscall answers -errno.
Fail(e) ==
  /\ Reply(-e)
  /\ errno' \in IF Un!SetsErrno(call) THEN {e} ELSE {e, errno}
  /\ arg0' = -errno'

Kernel ==
  /\ pc = "kernel" /\ pc' = "get"
  /\ executed' = executed + Un!Executions(call)
  /\ \/ \E r \in Successes(call, nulls \cup Absent) : Succeed(r)
     \/ \E e \in Errnos : Fail(e)
  /\ UNCHANGED <<program, passed, got, blocks>>

Made(c) ==
  CASE c.when = "always" -> TRUE
    [] c.when = "given" -> c.arg \notin nulls
    [] c.when = "positive" -> arg0 > 0
    [] c.when = "succeeded" -> arg0 # -1
    [] c.when = "nonzero" -> arg0 # 0
CopiesBack == {c \in Wr!Wrapped[call].get : Made(c) /\ ~(c.len = "result" /\ arg0 = 0)}

\* A length that is a negative result, and a copy to a pointer that is NULL,
\* end the enclave.
Overlong(c) == c.len = "result" /\ arg0 < 0
Ends == \E c \in CopiesBack : Overlong(c) \/ c.arg \in nulls

\* The parts a copy back takes; of a message the lengths are not taken.
Taken(c) ==
  CASE c.len = "block" -> Whole
    [] c.len = "head" -> Front
    [] c.len = "fixed" -> FixedSpan
    [] c.len = "longer" -> Parts
    [] c.len = "message" -> Whole \ {"lo"}
    [] c.len = "result" -> IF short THEN Front ELSE IF room = "less" THEN Parts ELSE Whole
Received(c) == [p \in Parts |-> IF p \in Taken(c) THEN buf[BufferOf(c.arg)][p] ELSE Missing]

GetResults ==
  /\ pc = "get" /\ call # "alarm"
  /\ IF Ends THEN pc' = "fault" /\ UNCHANGED <<got, blocks>>
     ELSE /\ pc' = "return"
          /\ got' = [i \in 1..6 |-> IF \E c \in CopiesBack : c.arg = i
                                    THEN Received(CHOOSE c \in CopiesBack : c.arg = i) ELSE got[i]]
          /\ blocks' = {b \in blocks : b[1] # call \/ b[2] \notin Wr!Frees(call)}
  /\ UNCHANGED <<program, buf, arg0, passed, errno, answer, short, owed, executed>>

\* alarm has no break.  The case of setitimer copies from its second argument,
\* which the program has not given, and then calls the host again, with the
\* number of seconds that alarm answered as the number of the call: one that
\* there is, one that there is not, or sync.
FallThrough ==
  /\ pc = "get" /\ call = "alarm"
  /\ \/ pc' = "fault" /\ UNCHANGED <<arg0, errno, executed>>
     \/ /\ pc' = "return" /\ executed' \in executed..(executed + 2)
        /\ errno' \in Errnos \cup {errno} /\ arg0' \in Counts \cup {arg0, -errno'}
  /\ UNCHANGED <<program, buf, passed, answer, short, owed, got, blocks>>

\* The slot is given up; its buffers are then anyone's.
Return ==
  /\ pc = "return" /\ pc' = "idle"
  /\ buf' = [b \in Buffers |-> Block(Stale)] /\ passed' = << >> /\ owed' = {} /\ answer' = 0
  /\ arg0' = 0 /\ got' = [i \in 1..6 |-> Block(Missing)] /\ executed' = 0
  /\ call' = "getpid" /\ nulls' = {} /\ bare' = {} /\ room' = "same" /\ many' = FALSE /\ short' = FALSE
  /\ UNCHANGED <<errno, blocks>>

Next == (\E n \in Calls : Begin(n)) \/ PutArguments \/ Enter \/ Kernel \/ GetResults \/ FallThrough \/ Return
Spec == Init /\ [][Next]_vars

-------------------------------------------------------------------------------
\* What argument i should have become on the way to the kernel.
PointsTo(i, whole) ==
  IF i \in nulls THEN passed[i] = <<Nil, Nil>>
  ELSE LET b == Address(passed[i]) IN b # 0 /\ (whole => \A p \in Whole : buf[b][p] = Arg(i))
Arrives(i) ==
  LET is == Prototype[call][i].is
      lo == passed[i][1]
      hi == passed[i][2]
  IN CASE is = "int" -> lo = Arg(i)
       [] is = "wide" -> lo = Arg(i) /\ hi \in {Arg(i), Extended}
       [] is = "long" \/ i \in bare -> lo = Arg(i) /\ hi = Arg(i)
       [] is \in {"in", "both", "edit"} /\ i \notin bare -> PointsTo(i, TRUE)
       [] is \in {"out", "front", "upto", "some"} -> PointsTo(i, FALSE)
       [] OTHER -> TRUE
Comes(i, p) == got[i][p] = Result(i)

\* The arguments that the code loses on the way, whatever they are.
NotSent == {<<"select", 1>>, <<"pselect6", 1>>, <<"pselect6", 6>>}
NotPassed == {<<"lseek", 3>>, <<"rt_sigaction", 2>>, <<"rt_sigaction", 4>>, <<"epoll_pwait", 5>>}
Confused == {<<"openat", 4>>, <<"pselect6", 5>>, <<"futex", 5>>, <<"futex", 6>>}
LostAlways == NotSent \cup NotPassed \cup Confused
\* Those whose flag is not sent: the host passes NULL or the buffer, whichever.
FlagsNotSent == ({"select"} \X (2..5)) \cup {<<"sendto", 2>>, <<"sendto", 5>>} \cup ({"recvfrom"} \X {2, 5, 6})
\* Eight bytes of which four arrive.
HalfSent == {<<"readv", 3>>, <<"writev", 3>>, <<"fcntl", 3>>, <<"truncate", 2>>, <<"ftruncate", 2>>}
\* Blocks of which a number of bytes fixed in the code arrives.
CutShort == {<<"truncate", 1>>, <<"ioctl", 3>>}
\* Pointers that arrive as the buffer's address even if they are NULL.
NeverNull == {<<"clock_getres", 2>>, <<"times", 1>>, <<"getgroups", 2>>, <<"setgroups", 2>>, <<"sigaltstack", 1>>,
              <<"sigaltstack", 2>>, <<"accept4", 2>>, <<"accept4", 3>>, <<"ioctl", 3>>}
Lost(i) ==
  \/ <<call, i>> \in LostAlways
  \/ <<call, i>> \in FlagsNotSent /\ passed[i] \in {<<Nil, Nil>>, <<At(i), At(i)>>}
  \/ <<call, i>> \in HalfSent /\ passed[i][1] = Arg(i)
  \/ <<call, i>> \in CutShort /\ room = "more"
  \/ <<call, i>> \in NeverNull /\ i \in nulls
  \/ <<call, i>> = <<"pselect6", 3>> /\ Address(passed[i]) # 0
  \/ <<call, i>> = <<"futex", 4>> /\ i \in bare

\* The results that the code does not take back, or not all of them.
NotFetched == ({"accept", "getsockname", "getpeername"} \X {2, 3}) \cup ({"getsockopt"} \X {4, 5})
  \cup ({"recvfrom"} \X {5, 6}) \cup ({"gettimeofday"} \X {1, 2}) \cup ({"pselect6"} \X (2..4))
  \cup {<<"rt_sigpending", 1>>, <<"rt_sigtimedwait", 2>>, <<"select", 5>>}
FetchedCut == {<<"ioctl", 3>>, <<"accept4", 2>>, <<"sched_getaffinity", 3>>}
LostBack(i, p) ==
  \/ <<call, i>> \in NotFetched
  \/ <<call, i>> \in {"select"} \X (2..4) /\ passed[i] = <<Nil, Nil>>
  \/ <<call, i>> \in FetchedCut /\ room = "more" /\ p = "rest"
  \/ call = "recvmsg" /\ p = "lo"
  \/ call = "rt_sigaction" /\ p = "rest"

TypeOK ==
  /\ pc \in {"idle", "put", "ocall", "kernel", "get", "return", "fault"}
  /\ call \in Calls \cup {"getpid"} /\ nulls \in SUBSET (1..6) /\ bare \in SUBSET (1..6)
  /\ room \in Rooms(call) /\ many \in BOOLEAN /\ short \in BOOLEAN
  /\ \A b \in Buffers, p \in Parts : buf[b][p] \in {Stale} \cup
       {Arg(i) : i \in 1..6} \cup {Result(i) : i \in 1..6} \cup {At(k) : k \in 0..11}
  /\ errno \in Errnos \cup {0} /\ executed \in 0..3
  /\ answer \in Counts \cup {0} \cup {-e : e \in Errnos}
  /\ arg0 \in Counts \cup {0, -1, Number} \cup {-e : e \in Errnos}
  /\ owed \subseteq ((1..6) \ nulls) \X Whole

\* Between two independently written halves: whatever an earlier call left in
\* the slot, the kernel gets this call's arguments, the whole of a block that
\* it reads, and NULL exactly where the program passed NULL, but for what is
\* listed above.  (__syscall_wrap's sends against ocall_syscall's reads)
ArgumentsArrive ==
  pc = "kernel" => \A i \in DOMAIN Prototype[call] : Arrives(i) \/ Lost(i)

\* Everything the kernel has written for this call comes back, and from this
\* call, but for what is listed above.  (the recv_user calls after the ocall)
ResultsReturn ==
  pc = "return" => \A o \in owed : Comes(o[1], o[2]) \/ LostBack(o[1], o[2])

\* A call that succeeds never hands the program what an earlier call left in a
\* buffer, but where the code copies a length of its own and the kernel wrote
\* less: the room asked for and not the result (readv, getdents, getcwd,
\* getgroups, recvmsg), a structure longer than the kernel's (fstat, getrusage,
\* sysinfo), an address shorter than sizeof(struct sockaddr) (accept4), a
\* datagram longer than its block (recvfrom), and nanosleep's remainder, which
\* is written only when it is interrupted.  (the recv_user calls after the ocall)
Brief == {"readv", "getdents", "getcwd", "getgroups", "recvmsg", "fstat", "getrusage", "sysinfo",
          "accept4", "nanosleep"}
NothingStale ==
  pc = "return" /\ answer >= 0 /\ call \notin Brief /\ ~(call = "recvfrom" /\ room = "less") =>
    \A i \in DOMAIN got, p \in Parts : got[i][p] # Stale

\* A copy back is never longer than the caller's block nor of a negative
\* length, but for fstat, which asks for a byte too many, for calls with a
\* length fixed in the code and a shorter block (ioctl, accept4,
\* sched_getaffinity), for a datagram longer than its block (recvfrom), and
\* where a result is the length and nobody looks whether it is an error.
CopiesBounded ==
  pc = "get" => \A c \in CopiesBack :
     \/ ~Overlong(c) /\ "past" \notin Taken(c)
     \/ call = "fstat"
     \/ call \in {"ioctl", "accept4", "sched_getaffinity", "recvfrom"} /\ room = "less"
     \/ call \in {"pread64", "getdents64", "readlinkat"} /\ arg0 < 0

\* A legal call ends the enclave only where NULL is allowed and not looked for,
\* where a number is allowed and followed as a pointer (ioctl), where an error
\* is taken for a length, and in alarm, which falls through.
FaultsAreKnown ==
  pc = "fault" =>
    \/ call \in {"accept", "gettimeofday", "rt_sigtimedwait", "mount", "times"} /\ nulls # {}
    \/ call = "pselect6" /\ 6 \in nulls
    \/ call = "ioctl" /\ 3 \in bare
    \/ call \in {"pread64", "getdents64", "readlinkat"} /\ answer < 0
    \/ call = "alarm"

\* The blocks a call takes from malloc_user are given back before it returns,
\* but for those of sendmsg and recvmsg, which nobody frees, and the words of
\* futex and set_tid_address, which stay in the object table for ever.
BlocksFreed ==
  pc \in {"idle", "return"} =>
    \A b \in blocks : b[1] \in {"sendmsg", "recvmsg", "futex", "set_tid_address"}

\* The program sees this call's result or this call's error, but for clone,
\* whose failure is reported with the errno of an earlier call (or as success,
\* if there was none), alarm, which makes a second call, and the calls that
\* never reach the kernel.
ResultIsOwn ==
  pc = "return" /\ call \notin Wr!Silent \cup {"alarm"} =>
    arg0 = answer \/ (call = "clone" /\ answer < 0)

\* Every call reaches the kernel once, but for sync, which falls through to a
\* second one, alarm, whose second one is anything, and the two that return
\* without an ocall.
OnceEach ==
  pc = "return" /\ call # "alarm" =>
    executed = (IF call \in Wr!Silent THEN 0 ELSE IF call = "sync" THEN 2 ELSE 1)

=============================================================================
