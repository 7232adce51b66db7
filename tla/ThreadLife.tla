----------------------------- MODULE ThreadLife -----------------------------
(***************************************************************************)
(* The life of an enclave thread: pthread_create counts it and asks the    *)
(* host for a thread, which enters the enclave on a TCS of its own; it     *)
(* registers itself in fs_table, without any lock; from then on            *)
(* __pthread_self finds its struct pthread there; __pthread_exit takes it  *)
(* off the count, and the one that was last ends the process.              *)
(*                                                                         *)
(* A thread, its TCS and its struct pthread go by one name.  A TCS is      *)
(* never free again: SYS_exit ends the host thread inside an ocall.        *)
(***************************************************************************)
EXTENDS Integers, FiniteSets

CONSTANTS
  Threads,
  Main,         \* the thread of ecall_shim_main
  MaxThreads,   \* MAX_THREADS, the length of fs_table
  NTcs,         \* TCSNum of enclave.config.xml
  NULL

ASSUME MainAssumption == Main \in Threads /\ NULL \notin Threads
ASSUME ThreadsAssumption == IsFiniteSet(Threads)
ASSUME TcsAssumption  == MaxThreads \in Nat /\ NTcs \in Nat \ {0}

Entries == 0 .. MaxThreads - 1

VARIABLES
  tcs,         \* fs_table[i].tcs
  fs,          \* fs_table[i].fs
  minusOne,    \* libc.threads_minus_1
  pc,          \* where a thread is
  idx,         \* the index i of its loop over fs_table
  self,        \* the struct its last __pthread_self returned
  child,       \* the thread it is creating
  ended,       \* the process is over
  overlapped   \* history variable: a registration hit an entry just taken

vars == <<tcs, fs, minusOne, pc, idx, self, child, ended, overlapped>>

Init ==
  /\ tcs = [e \in Entries |-> NULL]
  /\ fs  = [e \in Entries |-> NULL]
  /\ minusOne = 0
  /\ pc    = [t \in Threads |-> IF t = Main THEN "scan" ELSE "absent"]
  /\ idx   = [t \in Threads |-> 0]
  /\ self  = [t \in Threads |-> NULL]
  /\ child = [t \in Threads |-> NULL]
  /\ ended = FALSE
  /\ overlapped = FALSE

At(t, l)   == ~ended /\ pc[t] = l
Goto(t, l) == pc' = [pc EXCEPT ![t] = l]
-----------------------------------------------------------------------------
(* __set_thread_area *)

Skip(t) ==
  /\ At(t, "scan")
  /\ idx[t] \in Entries
  /\ tcs[idx[t]] # NULL
  /\ idx' = [idx EXCEPT ![t] = @ + 1]
  /\ UNCHANGED <<tcs, fs, minusOne, pc, self, child, ended, overlapped>>

SeeFree(t) ==
  /\ At(t, "scan")
  /\ idx[t] \in Entries
  /\ tcs[idx[t]] = NULL
  /\ Goto(t, "take")
  /\ UNCHANGED <<tcs, fs, minusOne, idx, self, child, ended, overlapped>>

\* Mutant of SeeNone: the loop ends one entry early.
SeeNoneEarly(t) ==
  /\ At(t, "scan")
  /\ idx[t] = MaxThreads - 1
  /\ Goto(t, "full")
  /\ ended' = TRUE
  /\ UNCHANGED <<tcs, fs, minusOne, idx, self, child, overlapped>>

\* assert(i < MAX_THREADS) fails
SeeNone(t) ==
  /\ At(t, "scan")
  /\ idx[t] \notin Entries
  /\ Goto(t, "full")
  /\ ended' = TRUE
  /\ UNCHANGED <<tcs, fs, minusOne, idx, self, child, overlapped>>

TakeTcs(t) ==
  /\ At(t, "take")
  /\ tcs' = [tcs EXCEPT ![idx[t]] = t]
  /\ overlapped' = (overlapped \/ tcs[idx[t]] # NULL)
  /\ Goto(t, "fill")
  /\ UNCHANGED <<fs, minusOne, idx, self, child, ended>>

FillFs(t) ==
  /\ At(t, "fill")
  /\ fs' = [fs EXCEPT ![idx[t]] = t]
  /\ Goto(t, "run")
  /\ UNCHANGED <<tcs, minusOne, idx, self, child, ended, overlapped>>
-----------------------------------------------------------------------------
(* __pthread_self, the first thing pthread_create and __pthread_exit do.  The *)
(* search is one step: once registered, a thread's entry can only be lost.    *)

First(t, e) == tcs[e] = t /\ \A f \in Entries : tcs[f] = t => e <= f

Find(t, next) ==
  /\ At(t, "run")
  /\ \E e \in Entries : First(t, e) /\ idx' = [idx EXCEPT ![t] = e]
  /\ Goto(t, next)
  /\ UNCHANGED <<tcs, fs, minusOne, self, child, ended, overlapped>>

\* assert(i < MAX_THREADS) fails
FindNone(t) ==
  /\ At(t, "run")
  /\ \A e \in Entries : tcs[e] # t
  /\ Goto(t, "lost")
  /\ ended' = TRUE
  /\ UNCHANGED <<tcs, fs, minusOne, idx, self, child, overlapped>>

\* Mutant of Self: i has moved past the entry found.
SelfAfter(t, from, to) ==
  /\ At(t, from)
  /\ self' = [self EXCEPT ![t] = fs[(idx[t] + 1) % MaxThreads]]
  /\ Goto(t, to)
  /\ UNCHANGED <<tcs, fs, minusOne, idx, child, ended, overlapped>>

Self(t, from, to) ==
  /\ At(t, from)
  /\ self' = [self EXCEPT ![t] = fs[idx[t]]]
  /\ Goto(t, to)
  /\ UNCHANGED <<tcs, fs, minusOne, idx, child, ended, overlapped>>
-----------------------------------------------------------------------------
(* __pthread_create *)

\* Mutant of Count: the thread is not counted before it is cloned.
CountNot(t, c) ==
  /\ At(t, "create")
  /\ pc[c] = "absent"
  /\ child' = [child EXCEPT ![t] = c]
  /\ pc' = [pc EXCEPT ![t] = "clone", ![c] = "new"]
  /\ UNCHANGED <<tcs, fs, minusOne, idx, self, ended, overlapped>>

\* a_inc(&libc.threads_minus_1)
Count(t, c) ==
  /\ At(t, "create")
  /\ pc[c] = "absent"
  /\ minusOne' = minusOne + 1
  /\ child' = [child EXCEPT ![t] = c]
  /\ pc' = [pc EXCEPT ![t] = "clone", ![c] = "new"]
  /\ UNCHANGED <<tcs, fs, idx, self, ended, overlapped>>

\* Mutant of Clone: the thread is counted once more when it has been cloned.
CloneCounted(t) ==
  /\ At(t, "clone")
  /\ minusOne' = minusOne + 1
  /\ pc' = [pc EXCEPT ![t] = "run", ![child[t]] = "host"]
  /\ child' = [child EXCEPT ![t] = NULL]
  /\ UNCHANGED <<tcs, fs, idx, self, ended, overlapped>>

\* SYS_clone: the host's pthread_create
Clone(t) ==
  /\ At(t, "clone")
  /\ pc' = [pc EXCEPT ![t] = "run", ![child[t]] = "host"]
  /\ child' = [child EXCEPT ![t] = NULL]
  /\ UNCHANGED <<tcs, fs, minusOne, idx, self, ended, overlapped>>

\* ... which may fail.  ocall_syscall then answers -errno, and pthread_create
\* need not set errno: with one that is not zero, a stale one even,
\* a_dec(&libc.threads_minus_1), EAGAIN ...
CloneFails(t) ==
  /\ At(t, "clone")
  /\ minusOne' = minusOne - 1
  /\ pc' = [pc EXCEPT ![t] = "run", ![child[t]] = "absent"]
  /\ child' = [child EXCEPT ![t] = NULL]
  /\ UNCHANGED <<tcs, fs, idx, self, ended, overlapped>>

\* ... and with none the 0 is taken for success: the creator goes on, and a
\* thread that will never be stays counted.
CloneUnnoticed(t) ==
  /\ At(t, "clone")
  /\ pc' = [pc EXCEPT ![t] = "run", ![child[t]] = "phantom"]
  /\ child' = [child EXCEPT ![t] = NULL]
  /\ UNCHANGED <<tcs, fs, minusOne, idx, self, ended, overlapped>>

Inside == {t \in Threads : pc[t] \notin {"absent", "new", "host", "phantom"}}

\* out_start_routine: ecall_start_routine takes a free TCS; without one it
\* fails, and exit(EXIT_FAILURE) ends the process.
Enter(c) ==
  /\ At(c, "host")
  /\ Cardinality(Inside) < NTcs
  /\ Goto(c, "scan")
  /\ UNCHANGED <<tcs, fs, minusOne, idx, self, child, ended, overlapped>>

EnterFails(c) ==
  /\ At(c, "host")
  /\ Cardinality(Inside) >= NTcs
  /\ ended' = TRUE
  /\ UNCHANGED <<tcs, fs, minusOne, pc, idx, self, child, overlapped>>
-----------------------------------------------------------------------------
(* __pthread_exit *)

\* a_fetch_add(&libc.threads_minus_1, -1), with others left ...
Leave(t) ==
  /\ At(t, "exit")
  /\ minusOne # 0
  /\ minusOne' = minusOne - 1
  /\ Goto(t, "left")
  /\ UNCHANGED <<tcs, fs, idx, self, child, ended, overlapped>>

\* ... or as the last one, which puts the count back ...
Last(t) ==
  /\ At(t, "exit")
  /\ minusOne = 0
  /\ minusOne' = -1
  /\ Goto(t, "last")
  /\ UNCHANGED <<tcs, fs, idx, self, child, ended, overlapped>>

\* Mutant of Restore: the count is not put back.
RestoreNot(t) ==
  /\ At(t, "last")
  /\ Goto(t, "ending")
  /\ UNCHANGED <<tcs, fs, minusOne, idx, self, child, ended, overlapped>>

Restore(t) ==
  /\ At(t, "last")
  /\ minusOne' = 0
  /\ Goto(t, "ending")
  /\ UNCHANGED <<tcs, fs, idx, self, child, ended, overlapped>>

\* ... and calls exit(0).
ExitGroup(t) ==
  /\ At(t, "ending")
  /\ ended' = TRUE
  /\ UNCHANGED <<tcs, fs, minusOne, pc, idx, self, child, overlapped>>

\* main returns: the enclave is destroyed and the process ends, whoever runs.
MainReturns ==
  /\ At(Main, "run")
  /\ ended' = TRUE
  /\ UNCHANGED <<tcs, fs, minusOne, pc, idx, self, child, overlapped>>

Register(t) == Skip(t) \/ SeeFree(t) \/ SeeNone(t) \/ TakeTcs(t) \/ FillFs(t)

Lookup(t) ==
  \/ Find(t, "creating") \/ Find(t, "exiting") \/ FindNone(t)
  \/ Self(t, "creating", "create") \/ Self(t, "exiting", "exit")

Creation(t) ==
  \/ Clone(t) \/ CloneFails(t) \/ CloneUnnoticed(t) \/ Enter(t) \/ EnterFails(t)
  \/ \E c \in Threads : Count(t, c)

Exit(t) == Leave(t) \/ Last(t) \/ Restore(t) \/ ExitGroup(t)

Next ==
  \/ MainReturns
  \/ \E t \in Threads : Register(t) \/ Lookup(t) \/ Creation(t) \/ Exit(t)

Spec == Init /\ [][Next]_vars
-----------------------------------------------------------------------------
\* The types of the state.
TypeOK ==
  /\ tcs \in [Entries -> Threads \cup {NULL}]
  /\ fs  \in [Entries -> Threads \cup {NULL}]
  /\ minusOne \in -1 .. Cardinality(Threads)
  /\ pc \in [Threads -> {"absent", "new", "host", "phantom", "scan", "take", "fill", "full", "run",
                         "creating", "create", "clone", "exiting", "exit", "left",
                         "last", "ending", "lost"}]
  /\ idx   \in [Threads -> 0 .. MaxThreads]
  /\ self  \in [Threads -> Threads \cup {NULL}]
  /\ child \in [Threads -> Threads \cup {NULL}]
  /\ ended \in BOOLEAN
  /\ overlapped \in BOOLEAN

Registered(t) ==
  pc[t] \in {"run", "creating", "create", "clone", "exiting", "exit", "left", "last", "ending"}

\* Every thread keeps finding its own struct pthread, unless two registrations
\* overlapped: loops of lookups and registrations of others that do not hit an
\* entry just taken disturb nobody.
IdentityUnlessOverlap ==
  ~overlapped => \A t \in Threads :
    /\ Registered(t) => \E e \in Entries : First(t, e) /\ fs[e] = t
    /\ pc[t] \in {"create", "exit"} => self[t] = t
    /\ pc[t] # "lost"

\* __set_thread_area finds fs_table full only when as many other threads as it
\* has entries are in the enclave: no entry is lost to a registration.  With no
\* more TCSs than MAX_THREADS the loop therefore always finds an entry.
FullNeedsThreads ==
  \A t \in Threads : pc[t] = "full" => Cardinality(Inside \ {t}) >= MaxThreads

\* libc.threads_minus_1 counts the threads that are there or on their way, one of
\* them less, over every order of creations, failed ones among them, and exits;
\* and, for ever, those that failed unnoticed: nothing else stays counted.
CountExact ==
  (\A t \in Threads : pc[t] # "last") =>
    minusOne = Cardinality({t \in Threads : pc[t] \notin {"absent", "left"}}) - 1

\* A thread that finds itself the last, and so runs the atexit handlers and ends
\* the process, is alone: no other thread is left, is being created by one that
\* is, or was left counted by a clone that failed.
LastIsAlone ==
  \A t \in Threads : pc[t] \in {"last", "ending"} =>
    \A u \in Threads \ {t} : pc[u] \in {"absent", "left"}

\* __pthread_self finds its caller in fs_table: assert(i < MAX_THREADS).
SelfFound == \A t \in Threads : pc[t] # "lost"
=============================================================================
