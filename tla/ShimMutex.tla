----------------------------- MODULE ShimMutex -----------------------------
(***************************************************************************)
(* musl's normal mutex on the enclave's futex.  The lock word is changed   *)
(* by compare-and-swap inside the enclave; FutexShim is called to sleep    *)
(* and to wake.  Every thread comes for the mutex Rounds times, as the     *)
(* threads of print_kripa come for job_lock once; the Timed ones call      *)
(* pthread_mutex_timedlock and may leave without it.                       *)
(***************************************************************************)
EXTENDS FutexShim, FiniteSets

CONSTANTS
  Mutex,    \* the address of m->_m_lock
  Timed,    \* the threads whose waits have a deadline
  Rounds    \* bound: how often each thread comes for the mutex

ASSUME MutexAssumption == Mutex \in Addrs
ASSUME TimedAssumption == Timed \subseteq Threads
ASSUME RoundsAssumption == Rounds \in Nat \ {0}
ASSUME ThreadsAssumption == IsFiniteSet(Threads) /\ NULL \notin Threads

EBUSY     == 16      \* locked
Contended == 1016    \* EBUSY | 0x80000000: locked, and somebody may sleep

ASSUME LockValuesAssumption == {EBUSY, Contended} \subseteq Values

VARIABLES
  waiters,   \* m->_m_waiters
  pc,        \* where a thread is in pthread_mutex_lock or _unlock
  reg,       \* its r, the lock word it read; or its waiters, when it unlocks
  rounds     \* how often it has still to come for the mutex

mutexVars == <<waiters, pc, reg, rounds>>
vars == <<futexVars, mutexVars>>

Init ==
  /\ FutexInit
  /\ waiters = 0
  /\ pc     = [t \in Threads |-> "idle"]
  /\ reg    = [t \in Threads |-> 0]
  /\ rounds = [t \in Threads |-> Rounds]

Goto(t, l) == pc' = [pc EXCEPT ![t] = l]
Lock(v)    == word' = [word EXCEPT ![Mutex] = v]

\* Mutant of TryLock: only the sign of the lock word is looked at.
TryLockBySign(t) ==
  /\ pc[t] \in {"idle", "try"}
  /\ rounds[t] > 0
  /\ IF word[Mutex] # Contended THEN Lock(EBUSY) /\ Goto(t, "locked")
                                ELSE UNCHANGED word /\ Goto(t, "look")
  /\ UNCHANGED <<tableVars, callVars, waiters, reg, rounds>>

\* a_cas(&m->_m_lock, 0, EBUSY): the fast paths and pthread_mutex_trylock.
\* The spinning between them reads and changes nothing.
TryLock(t) ==
  /\ pc[t] \in {"idle", "try"}
  /\ rounds[t] > 0
  /\ IF word[Mutex] = 0 THEN Lock(EBUSY) /\ Goto(t, "locked")
                        ELSE UNCHANGED word /\ Goto(t, "look")
  /\ UNCHANGED <<tableVars, callVars, waiters, reg, rounds>>

\* Mutant of Look: the waiter is not counted.
LookUncounted(t) ==
  /\ pc[t] = "look"
  /\ reg' = [reg EXCEPT ![t] = word[Mutex]]
  /\ Goto(t, IF word[Mutex] = 0 THEN "try" ELSE "mark")
  /\ UNCHANGED <<futexVars, waiters, rounds>>

\* r = m->_m_lock, again from the top if it is 0; else a_inc(&m->_m_waiters)
Look(t) ==
  /\ pc[t] = "look"
  /\ IF word[Mutex] = 0
     THEN Goto(t, "try") /\ UNCHANGED <<waiters, reg>>
     ELSE /\ waiters' = waiters + 1
          /\ reg' = [reg EXCEPT ![t] = word[Mutex]]
          /\ Goto(t, "mark")
  /\ UNCHANGED <<futexVars, rounds>>

\* Mutant of Mark: a store instead of a compare-and-swap.
MarkAlways(t) ==
  /\ pc[t] = "mark"
  /\ Lock(Contended)
  /\ Goto(t, "wait")
  /\ UNCHANGED <<tableVars, callVars, waiters, reg, rounds>>

\* a_cas(&m->_m_lock, r, t) with t = r | 0x80000000, whether it succeeds or not
Mark(t) ==
  /\ pc[t] = "mark"
  /\ IF word[Mutex] = reg[t] THEN Lock(Contended) ELSE UNCHANGED word
  /\ Goto(t, "wait")
  /\ UNCHANGED <<tableVars, callVars, waiters, reg, rounds>>

\* __timedwait(&m->_m_lock, t, ...)
Wait(t) ==
  /\ pc[t] = "wait"
  /\ Call(t, "wait", Mutex, Contended)
  /\ Goto(t, "waiting")
  /\ UNCHANGED <<word, waiters, reg, rounds>>

\* a_dec(&m->_m_waiters), and the loop tries again
Waited(t) ==
  /\ pc[t] = "waiting"
  /\ Finish(t)
  /\ waiters' = waiters - 1
  /\ Goto(t, "try")
  /\ UNCHANGED <<word, reg, rounds>>

\* The deadline passes in the wait ...
TimeOut(t) ==
  /\ t \in Timed /\ pc[t] = "waiting"
  /\ Expire(t)
  /\ Goto(t, "expired")
  /\ UNCHANGED <<waiters, reg, rounds>>

LeaveWithout(t) ==
  /\ waiters' = waiters - 1
  /\ rounds' = [rounds EXCEPT ![t] = @ - 1]
  /\ Goto(t, "idle")
  /\ UNCHANGED <<word, reg>>

\* ... and the thread leaves with ETIMEDOUT ...
GiveUp(t) ==
  /\ pc[t] = "expired"
  /\ Finish(t)
  /\ LeaveWithout(t)

\* ... or it has passed before the wait, and no call is made.
Late(t) ==
  /\ t \in Timed /\ pc[t] = "wait"
  /\ LeaveWithout(t)
  /\ UNCHANGED <<tableVars, callVars>>

\* pthread_mutex_unlock reads m->_m_waiters first ...
ReadWaiters(t) ==
  /\ pc[t] = "locked"
  /\ reg' = [reg EXCEPT ![t] = waiters]
  /\ Goto(t, "swap")
  /\ UNCHANGED <<futexVars, waiters, rounds>>

\* Mutant of Swap: only the waiters read before decide, not the old lock word.
SwapByCount(t) ==
  /\ pc[t] = "swap"
  /\ Lock(0)
  /\ rounds' = [rounds EXCEPT ![t] = @ - 1]
  /\ Goto(t, IF reg[t] > 0 THEN "wake" ELSE "idle")
  /\ UNCHANGED <<tableVars, callVars, waiters, reg>>

\* ... then swaps 0 into the lock, and wakes one thread if waiters or cont < 0.
Swap(t) ==
  /\ pc[t] = "swap"
  /\ Lock(0)
  /\ rounds' = [rounds EXCEPT ![t] = @ - 1]
  /\ Goto(t, IF reg[t] > 0 \/ word[Mutex] = Contended THEN "wake" ELSE "idle")
  /\ UNCHANGED <<tableVars, callVars, waiters, reg>>

Wake(t) ==
  /\ pc[t] = "wake"
  /\ Call(t, "wake", Mutex, 0)
  /\ Goto(t, "waking")
  /\ UNCHANGED <<word, waiters, reg, rounds>>

Woke(t) ==
  /\ pc[t] = "waking"
  /\ Finish(t)
  /\ Goto(t, "idle")
  /\ UNCHANGED <<word, waiters, reg, rounds>>

ThreadStep(t) ==
  \/ TryLock(t) \/ Look(t) \/ Mark(t) \/ Wait(t) \/ Waited(t)
  \/ TimeOut(t) \/ GiveUp(t) \/ Late(t)
  \/ ReadWaiters(t) \/ Swap(t) \/ Wake(t) \/ Woke(t)
  \/ FutexStep(t) /\ UNCHANGED mutexVars

Next == \E t \in Threads : ThreadStep(t)

Spec == Init /\ [][Next]_vars

\* A thread that can run is run: the host schedules its threads.
FairSpec == Spec /\ \A t \in Threads : WF_vars(ThreadStep(t))
-----------------------------------------------------------------------------
\* The types of the state; the count of waiters never goes below zero.
TypeOK ==
  /\ FutexTypeOK
  /\ waiters \in Nat
  /\ pc \in [Threads -> {"idle", "try", "look", "mark", "wait", "waiting",
                         "expired", "locked", "swap", "wake", "waking"}]
  /\ reg \in [Threads -> Nat]
  /\ rounds \in [Threads -> 0 .. Rounds]

Holds(t) == pc[t] \in {"locked", "swap"}

\* The mutex excludes, although what the kernel compares may be stale: a thread
\* owns the mutex only by a compare-and-swap on the enclave's own word.
Exclusive ==
  /\ \A t, u \in Threads : Holds(t) /\ Holds(u) => t = u
  /\ word[Mutex] = 0 <=> \A t \in Threads : ~Holds(t)

\* The mutex implements the abstract lock: whatever happens between lock and
\* unlock, its owner is the one thread that may think so, and it passes from
\* owner to owner only through being free.
Owner == IF \E t \in Threads : Holds(t) THEN CHOOSE t \in Threads : Holds(t) ELSE NULL

Abstract == INSTANCE MutexLock WITH owner <- Owner

LockSpec == Abstract!Spec

Done(t)     == pc[t] = "idle" /\ rounds[t] = 0
Stranded(t) == fpc[t] = "asleep" /\ word[Mutex] = 0

\* Nobody sleeps on a free mutex with nobody left who would wake it, unless a
\* call met one of the two races of the copied word: nothing else in lock,
\* unlock or the shim loses a wakeup.
LostOnlyByRace ==
  (\E t \in Threads : Stranded(t))
    /\ (\A t \in Threads : Stranded(t) \/ pc[t] = "idle") => raced

\* Every thread gets the mutex and gives it back, and the joins that wait for
\* the threads can return: main1 joins seven threads that lock job_lock.
AllFinish == <>(\A t \in Threads : Done(t))
=============================================================================
