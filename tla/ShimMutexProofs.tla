--------------------------- MODULE ShimMutexProofs ---------------------------
(***************************************************************************)
(* Theorems about ShimMutex, for any threads, rounds, addresses and table. *)
(***************************************************************************)
EXTENDS ShimMutex, FutexShimProofs, FiniteSetTheorems

USE MutexAssumption, TimedAssumption, RoundsAssumption, ThreadsAssumption, LockValuesAssumption,
    ValuesAssumption DEF EBUSY, Contended

Labels == {"idle", "try", "look", "mark", "wait", "waiting", "expired",
           "locked", "swap", "wake", "waking"}

\* The part of the typing that every set of threads keeps.
Typed ==
  /\ FutexInv
  /\ waiters \in Int
  /\ pc \in [Threads -> Labels]
  /\ reg \in [Threads -> Int]
  /\ rounds \in [Threads -> Int]

\* A thread marks a lock word that it has seen taken: its compare-and-swap never
\* makes a free mutex look taken.
MarkInv == \A t \in Threads : pc[t] = "mark" => reg[t] # 0

IInv == Typed /\ Exclusive /\ MarkInv

LEMMA InitInv == Init => IInv
<1> SUFFICES ASSUME Init PROVE IInv
  OBVIOUS
<1>1. FutexInv
  BY FutexInitInv DEF Init
<1>2. Typed
  BY <1>1 DEF Init, Typed, Labels
<1>3. word[Mutex] = 0
  BY DEF Init, FutexInit
<1>4. \A t \in Threads : ~Holds(t)
  BY DEF Init, Holds
<1>5. Exclusive
  BY <1>3, <1>4 DEF Exclusive
<1>6. MarkInv
  BY DEF Init, MarkInv
<1>7. QED BY <1>2, <1>5, <1>6 DEF IInv

LEMMA WordOfMutex == ASSUME Typed PROVE word \in [Addrs -> Values] /\ word[Mutex] \in Nat
<1>1. word \in [Addrs -> Values]
  BY DEF Typed, FutexInv, FutexTypeOK
<1>2. word[Mutex] \in Values
  BY <1>1
<1>3. QED BY <1>1, <1>2

\* Every step keeps the typing.
LEMMA TypeStep == ASSUME IInv, [Next]_vars PROVE Typed'
<1> USE DEF Labels
<1>0. /\ Typed
      /\ word \in [Addrs -> Values]
      /\ word[Mutex] \in Nat
  BY WordOfMutex DEF IInv
<1>1. CASE UNCHANGED vars
  <2>1. FutexInv'
    BY <1>0, <1>1, OutsideInv DEF vars, futexVars, Typed
  <2>2. QED BY <1>0, <1>1, <2>1 DEF Typed, vars, mutexVars
<1>2. ASSUME NEW t \in Threads, UNCHANGED <<tableVars, callVars>>,
             word' \in [Addrs -> Values]
      PROVE  FutexInv'
  BY <1>0, <1>2, OutsideInv DEF Typed
<1>3. ASSUME NEW v \in Values, Lock(v) PROVE word' \in [Addrs -> Values]
  BY <1>0, <1>3 DEF Lock
<1>4. ASSUME NEW t \in Threads, TryLock(t) PROVE Typed'
  <2>1. word' \in [Addrs -> Values]
    BY <1>0, <1>3, <1>4 DEF TryLock
  <2>2. QED BY <1>0, <1>2, <1>4, <2>1 DEF TryLock, Goto, Typed
<1>5. ASSUME NEW t \in Threads, Look(t) PROVE Typed'
  BY <1>0, <1>2, <1>5 DEF Look, Goto, Typed, futexVars
<1>6. ASSUME NEW t \in Threads, Mark(t) PROVE Typed'
  <2>1. word' \in [Addrs -> Values]
    BY <1>0, <1>3, <1>6 DEF Mark
  <2>2. QED BY <1>0, <1>2, <1>6, <2>1 DEF Mark, Goto, Typed
<1>7. ASSUME NEW t \in Threads, Wait(t) PROVE Typed'
  <2>1. FutexInv'
    BY <1>0, <1>7, CallInv DEF Wait, Typed
  <2>2. QED BY <1>0, <1>7, <2>1 DEF Wait, Goto, Typed
<1>8. ASSUME NEW t \in Threads, Waited(t) PROVE Typed'
  <2>1. FutexInv'
    BY <1>0, <1>8, FinishInv DEF Waited, Typed
  <2>2. QED BY <1>0, <1>8, <2>1 DEF Waited, Goto, Typed
<1>9. ASSUME NEW t \in Threads, ReadWaiters(t) PROVE Typed'
  BY <1>0, <1>2, <1>9 DEF ReadWaiters, Goto, Typed, futexVars
<1>10. ASSUME NEW t \in Threads, Swap(t) PROVE Typed'
  <2>1. word' \in [Addrs -> Values]
    BY <1>0, <1>3, <1>10 DEF Swap
  <2>2. FutexInv'
    BY <1>2, <1>10, <2>1 DEF Swap
  <2>3. pc' \in [Threads -> Labels]
    BY <1>0, <1>10 DEF Swap, Goto, Typed
  <2>4. rounds' \in [Threads -> Int]
    BY <1>0, <1>10 DEF Swap, Typed
  <2>5. QED BY <1>0, <1>10, <2>2, <2>3, <2>4 DEF Swap, Typed
<1>11. ASSUME NEW t \in Threads, Wake(t) PROVE Typed'
  <2>1. FutexInv'
    BY <1>0, <1>11, CallInv DEF Wake, Typed
  <2>2. QED BY <1>0, <1>11, <2>1 DEF Wake, Goto, Typed
<1>12. ASSUME NEW t \in Threads, Woke(t) PROVE Typed'
  <2>1. FutexInv'
    BY <1>0, <1>12, FinishInv DEF Woke, Typed
  <2>2. QED BY <1>0, <1>12, <2>1 DEF Woke, Goto, Typed
<1>13. ASSUME NEW t \in Threads, FutexStep(t), UNCHANGED mutexVars PROVE Typed'
  BY <1>0, <1>13, FutexStepInv DEF Typed, mutexVars
<1>14. ASSUME NEW t \in Threads, TimeOut(t) PROVE Typed'
  <2>1. FutexInv'
    BY <1>0, <1>14, ExpireInv DEF TimeOut, Typed
  <2>2. QED BY <1>0, <1>14, <2>1 DEF TimeOut, Goto, Typed
<1>15. ASSUME NEW t \in Threads, LeaveWithout(t), FutexInv' PROVE Typed'
  <2>1. pc' \in [Threads -> Labels] /\ waiters' \in Int /\ reg' = reg
    BY <1>0, <1>15 DEF LeaveWithout, Goto, Typed
  <2>2. rounds' \in [Threads -> Int]
    BY <1>0, <1>15 DEF LeaveWithout, Typed
  <2>3. QED BY <1>0, <1>15, <2>1, <2>2 DEF Typed
<1>16. ASSUME NEW t \in Threads, GiveUp(t) PROVE Typed'
  <2>1. word' = word /\ Finish(t) /\ LeaveWithout(t)
    BY <1>16 DEF GiveUp, LeaveWithout
  <2>2. FutexInv'
    BY <1>0, <2>1, FinishInv DEF Typed
  <2>3. QED BY <1>15, <2>1, <2>2
<1>17. ASSUME NEW t \in Threads, Late(t) PROVE Typed'
  <2>1. word' = word /\ UNCHANGED <<tableVars, callVars>> /\ LeaveWithout(t)
    BY <1>17 DEF Late, LeaveWithout
  <2>2. FutexInv'
    BY <1>0, <1>2, <2>1
  <2>3. QED BY <1>15, <2>1, <2>2
<1>18. QED
  BY <1>1, <1>4, <1>5, <1>6, <1>7, <1>8, <1>9, <1>10, <1>11, <1>12, <1>13, <1>14, <1>16, <1>17
     DEF Next, ThreadStep

\* A step that neither writes the lock word nor moves a thread into or out of
\* the section changes nothing about who holds the mutex.
LEMMA QuietStep ==
  ASSUME Exclusive, word' = word, \A t \in Threads : Holds(t)' = Holds(t)
  PROVE  Exclusive'
  BY DEF Exclusive

\* Every step keeps exclusion: the lock word is 0 exactly when nobody holds the
\* mutex, so that only a free mutex is taken.
LEMMA ExclusiveStep == ASSUME IInv, [Next]_vars PROVE Exclusive'
<1>0. Typed /\ Exclusive /\ MarkInv /\ pc \in [Threads -> Labels] /\ word \in [Addrs -> Values]
  BY WordOfMutex DEF IInv, Typed
<1>1. CASE UNCHANGED vars
  BY <1>0, <1>1, QuietStep DEF vars, futexVars, mutexVars, Holds
<1>2. ASSUME NEW t \in Threads, TryLock(t) PROVE Exclusive'
  <2>1. CASE word[Mutex] = 0
    <3>1. word'[Mutex] = EBUSY /\ pc' = [pc EXCEPT ![t] = "locked"]
      BY <1>0, <1>2, <2>1 DEF TryLock, Lock, Goto
    <3>2. \A u \in Threads : ~Holds(u)
      BY <1>0, <2>1 DEF Exclusive
    <3>3. QED BY <1>0, <3>1, <3>2 DEF Exclusive, Holds
  <2>2. CASE word[Mutex] # 0
    <3>1. word' = word /\ pc' = [pc EXCEPT ![t] = "look"] /\ pc[t] \in {"idle", "try"}
      BY <1>2, <2>2 DEF TryLock, Goto
    <3>2. QED BY <1>0, <3>1, QuietStep DEF Holds
  <2>3. QED BY <2>1, <2>2
<1>3. ASSUME NEW t \in Threads, Look(t) PROVE Exclusive'
  BY <1>0, <1>3, QuietStep DEF Look, Goto, Holds, futexVars
<1>4. ASSUME NEW t \in Threads, Mark(t) PROVE Exclusive'
  <2>1. word[Mutex] = reg[t] => word[Mutex] # 0
    BY <1>0, <1>4 DEF Mark, MarkInv
  <2>2. word'[Mutex] = 0 <=> word[Mutex] = 0
    BY <1>0, <1>4, <2>1 DEF Mark, Lock
  <2>3. \A u \in Threads : Holds(u)' = Holds(u)
    BY <1>0, <1>4 DEF Mark, Goto, Holds
  <2>4. QED BY <1>0, <2>2, <2>3 DEF Exclusive
<1>5. ASSUME NEW t \in Threads, Wait(t) \/ Wake(t) PROVE Exclusive'
  <2>1. word' = word
    BY <1>5 DEF Wait, Wake
  <2>2. \A u \in Threads : Holds(u)' = Holds(u)
    BY <1>0, <1>5 DEF Wait, Wake, Goto, Holds
  <2>3. QED BY <1>0, <2>1, <2>2, QuietStep
<1>6. ASSUME NEW t \in Threads, Waited(t) \/ Woke(t) PROVE Exclusive'
  <2>1. word' = word
    BY <1>6 DEF Waited, Woke
  <2>2. \A u \in Threads : Holds(u)' = Holds(u)
    BY <1>0, <1>6 DEF Waited, Woke, Goto, Holds
  <2>3. QED BY <1>0, <2>1, <2>2, QuietStep
<1>7. ASSUME NEW t \in Threads, ReadWaiters(t) PROVE Exclusive'
  BY <1>0, <1>7, QuietStep DEF ReadWaiters, Goto, Holds, futexVars
<1>8. ASSUME NEW t \in Threads, Swap(t) PROVE Exclusive'
  <2>1. Holds(t) /\ \A u \in Threads : Holds(u) => u = t
    BY <1>0, <1>8 DEF Swap, Holds, Exclusive
  <2>2. word'[Mutex] = 0
    BY <1>0, <1>8 DEF Swap, Lock
  <2>3. /\ pc'[t] \in {"wake", "idle"}
        /\ \A u \in Threads : u # t => pc'[u] = pc[u]
    BY <1>0, <1>8 DEF Swap, Goto
  <2>4. \A u \in Threads : ~Holds(u)'
    BY <1>0, <2>1, <2>3 DEF Holds
  <2>5. QED BY <2>2, <2>4 DEF Exclusive
<1>9. ASSUME NEW t \in Threads, FutexStep(t), UNCHANGED mutexVars PROVE Exclusive'
  <2>1. word' = word
    BY <1>0, <1>9, FutexStepInv DEF Typed
  <2>2. QED BY <1>0, <1>9, <2>1, QuietStep DEF mutexVars, Holds
<1>10. ASSUME NEW t \in Threads, TimeOut(t) \/ GiveUp(t) \/ Late(t) PROVE Exclusive'
  <2>1. word' = word
    BY <1>10 DEF TimeOut, Expire, GiveUp, Late, LeaveWithout
  <2>2. \A u \in Threads : Holds(u)' = Holds(u)
    BY <1>0, <1>10 DEF TimeOut, GiveUp, Late, LeaveWithout, Goto, Holds
  <2>3. QED BY <1>0, <2>1, <2>2, QuietStep
<1>11. QED
  BY <1>1, <1>2, <1>3, <1>4, <1>5, <1>6, <1>7, <1>8, <1>9, <1>10 DEF Next, ThreadStep

LEMMA MarkStep == ASSUME IInv, [Next]_vars PROVE MarkInv'
<1>0. Typed /\ MarkInv /\ pc \in [Threads -> Labels] /\ reg \in [Threads -> Int]
  BY DEF IInv, Typed
<1>1. CASE UNCHANGED vars
  BY <1>0, <1>1 DEF vars, mutexVars, MarkInv
<1>2. ASSUME NEW t \in Threads, Look(t) PROVE MarkInv'
  BY <1>0, <1>2 DEF Look, Goto, MarkInv
<1>3. ASSUME NEW t \in Threads, TryLock(t) PROVE MarkInv'
  BY <1>0, <1>3 DEF TryLock, Goto, MarkInv
<1>4. ASSUME NEW t \in Threads,
             \/ Mark(t) \/ Wait(t) \/ Waited(t) \/ Wake(t) \/ Woke(t)
             \/ TimeOut(t) \/ GiveUp(t) \/ Late(t)
      PROVE  MarkInv'
  BY <1>0, <1>4 DEF Mark, Wait, Waited, Wake, Woke, TimeOut, GiveUp, Late, LeaveWithout,
                    Goto, MarkInv
<1>5. ASSUME NEW t \in Threads, ReadWaiters(t) PROVE MarkInv'
  BY <1>0, <1>5 DEF ReadWaiters, Goto, MarkInv
<1>6. ASSUME NEW t \in Threads, Swap(t) PROVE MarkInv'
  BY <1>0, <1>6 DEF Swap, Goto, MarkInv
<1>7. ASSUME NEW t \in Threads, FutexStep(t), UNCHANGED mutexVars PROVE MarkInv'
  BY <1>0, <1>7 DEF mutexVars, MarkInv
<1>8. QED BY <1>1, <1>2, <1>3, <1>4, <1>5, <1>6, <1>7 DEF Next, ThreadStep

\* The inductive invariant of the mutex.
THEOREM Invariance == Spec => []IInv
<1>1. IInv /\ [Next]_vars => IInv'
  BY TypeStep, ExclusiveStep, MarkStep DEF IInv
<1>2. QED BY <1>1, InitInv, PTL DEF Spec

\* The mutex excludes for any number of threads, although the kernel compares a
\* copy of the lock word that may be stale, or the copy of another table entry
\* (pthread_mutex_timedlock, pthread_mutex_unlock on the futex of the shim).
THEOREM MutualExclusion == Spec => []Exclusive
  BY Invariance, PTL DEF IInv
-----------------------------------------------------------------------------
\* The threads that the count of waiters stands for.
Waits   == {"mark", "wait", "waiting", "expired"}
Counted == {t \in Threads : pc[t] \in Waits}

\* The count is exact, which is why it never goes below zero and why what
\* pthread_mutex_unlock reads of it is a number of threads.
CountInv == waiters = Cardinality(Counted) /\ \A t \in Threads : reg[t] >= 0

\* A thread that may unlock or give up has a round left.
Engaged(t) == Holds(t) \/ pc[t] = "try" \/ pc[t] = "look" \/ pc[t] \in Waits

RoundsInv ==
  /\ \A t \in Threads : rounds[t] \in 0 .. Rounds
  /\ \A t \in Threads : Engaged(t) => rounds[t] > 0

LEMMA CountIsNat == IsFiniteSet(Counted) /\ Cardinality(Counted) \in Nat
<1>1. IsFiniteSet(Counted)
  BY FS_Subset DEF Counted
<1>2. QED BY <1>1, FS_CardinalityType

LEMMA LessOne ==
  ASSUME NEW t \in Counted
  PROVE  Cardinality(Counted \ {t}) = Cardinality(Counted) - 1
<1> DEFINE S == Counted
<1>1. IsFiniteSet(S)
  BY CountIsNat
<1>2. t \in S
  OBVIOUS
<1> HIDE DEF S
<1>3. Cardinality(S \ {t}) = Cardinality(S) - 1
  BY <1>1, <1>2, FS_RemoveElement, ZenonT(60)
<1>4. QED BY <1>3 DEF S

\* What a step does to the set, by where it takes its thread.
LEMMA Stays ==
  ASSUME NEW t \in Threads, \A u \in Threads : u # t => pc'[u] = pc[u],
         pc[t] \in Waits <=> pc'[t] \in Waits
  PROVE  Counted' = Counted
  BY DEF Counted

LEMMA Enters ==
  ASSUME Typed, NEW t \in Threads, pc' = [pc EXCEPT ![t] = "mark"]
  PROVE  Counted' = Counted \cup {t}
  BY DEF Counted, Typed, Waits

LEMMA Leaves ==
  ASSUME NEW t \in Threads, pc'[t] \in {"try", "idle"},
         \A u \in Threads : u # t => pc'[u] = pc[u]
  PROVE  Counted' = Counted \ {t}
  BY DEF Counted, Waits

LEMMA CountKept ==
  ASSUME CountInv, waiters' = waiters, reg' = reg, Counted' = Counted
  PROVE  CountInv'
  BY DEF CountInv

LEMMA CountStep == ASSUME IInv, CountInv, [Next]_vars PROVE CountInv'
<1> USE DEF Labels
<1>0. /\ Typed /\ pc \in [Threads -> Labels] /\ reg \in [Threads -> Int]
      /\ word[Mutex] \in Nat
      /\ waiters \in Nat
      /\ waiters = Cardinality(Counted) /\ IsFiniteSet(Counted)
      /\ \A t \in Threads : reg[t] >= 0
  BY WordOfMutex, CountIsNat DEF IInv, Typed, CountInv
<1>1. ASSUME UNCHANGED mutexVars PROVE CountInv'
  BY <1>1 DEF mutexVars, CountInv, Counted
<1>2. ASSUME NEW t \in Threads, TryLock(t) PROVE CountInv'
  <2>1. pc'[t] \in {"locked", "look"} /\ \A u \in Threads : u # t => pc'[u] = pc[u]
    BY <1>0, <1>2 DEF TryLock, Goto
  <2>2. pc[t] \notin Waits /\ pc'[t] \notin Waits
    BY <2>1, <1>2 DEF TryLock, Waits
  <2>3. Counted' = Counted
    BY <2>1, <2>2, Stays
  <2>4. QED BY <1>2, <2>3, CountKept DEF TryLock
<1>3. ASSUME NEW t \in Threads, Look(t) PROVE CountInv'
  <2>0. pc[t] \notin Waits /\ t \notin Counted
    BY <1>3 DEF Look, Counted, Waits
  <2>1. CASE word[Mutex] = 0
    <3>1. /\ pc'[t] \notin Waits
          /\ \A u \in Threads : u # t => pc'[u] = pc[u]
      BY <1>0, <1>3, <2>1 DEF Look, Goto, Waits
    <3>2. Counted' = Counted
      BY <2>0, <3>1, Stays
    <3>3. QED BY <1>3, <2>1, <3>2, CountKept DEF Look
  <2>2. CASE word[Mutex] # 0
    <3>1. Counted' = Counted \cup {t}
      BY <1>0, <1>3, <2>2, Enters DEF Look, Goto
    <3>2. Cardinality(Counted') = Cardinality(Counted) + 1
      BY <1>0, <2>0, <3>1, FS_AddElement
    <3>3. \A u \in Threads : reg'[u] >= 0
      BY <1>0, <1>3, <2>2 DEF Look
    <3>4. waiters' = waiters + 1
      BY <1>3, <2>2 DEF Look
    <3>5. QED BY <1>0, <3>2, <3>3, <3>4 DEF CountInv
  <2>3. QED BY <2>1, <2>2
<1>4. ASSUME NEW t \in Threads, Mark(t) \/ Wait(t) \/ TimeOut(t) PROVE CountInv'
  <2>1. /\ pc'[t] \in {"wait", "waiting", "expired"}
        /\ \A u \in Threads : u # t => pc'[u] = pc[u]
    BY <1>0, <1>4 DEF Mark, Wait, TimeOut, Goto
  <2>2. pc[t] \in {"mark", "wait", "waiting"}
    BY <1>4 DEF Mark, Wait, TimeOut
  <2>3. pc[t] \in Waits /\ pc'[t] \in Waits
    BY <2>1, <2>2 DEF Waits
  <2>4. Counted' = Counted
    BY <2>1, <2>3 DEF Counted
  <2>5. QED BY <1>4, <2>4, CountKept DEF Mark, Wait, TimeOut
<1>5. ASSUME NEW t \in Threads, Waited(t) \/ GiveUp(t) \/ Late(t) PROVE CountInv'
  <2>1. t \in Counted
    BY <1>5 DEF Waited, GiveUp, Late, Counted, Waits
  <2>2. Counted' = Counted \ {t}
    <3>1. pc'[t] \in {"try", "idle"} /\ \A u \in Threads : u # t => pc'[u] = pc[u]
      BY <1>0, <1>5 DEF Waited, GiveUp, Late, LeaveWithout, Goto
    <3>2. QED BY <1>0, <3>1, Leaves
  <2>3. Cardinality(Counted \ {t}) = Cardinality(Counted) - 1
    BY <2>1, LessOne
  <2>4. waiters' = waiters - 1 /\ reg' = reg
    BY <1>5 DEF Waited, GiveUp, Late, LeaveWithout
  <2>5. QED BY <1>0, <2>2, <2>3, <2>4 DEF CountInv
<1>6. ASSUME NEW t \in Threads, ReadWaiters(t) PROVE CountInv'
  <2>1. pc'[t] = "swap" /\ \A u \in Threads : u # t => pc'[u] = pc[u]
    BY <1>0, <1>6 DEF ReadWaiters, Goto
  <2>2. pc[t] \notin Waits /\ pc'[t] \notin Waits
    BY <2>1, <1>6 DEF ReadWaiters, Waits
  <2>3. Counted' = Counted
    BY <2>1, <2>2, Stays
  <2>4. \A u \in Threads : reg'[u] >= 0
    BY <1>0, <1>6 DEF ReadWaiters
  <2>5. waiters' = waiters
    BY <1>6 DEF ReadWaiters
  <2>6. QED BY <1>0, <2>3, <2>4, <2>5 DEF CountInv
<1>7. ASSUME NEW t \in Threads, Swap(t) \/ Wake(t) \/ Woke(t) PROVE CountInv'
  <2>1. pc'[t] \in {"wake", "waking", "idle"} /\ \A u \in Threads : u # t => pc'[u] = pc[u]
    BY <1>0, <1>7 DEF Swap, Wake, Woke, Goto
  <2>2. pc[t] \notin Waits /\ pc'[t] \notin Waits
    BY <2>1, <1>7 DEF Swap, Wake, Woke, Waits
  <2>3. Counted' = Counted
    BY <2>1, <2>2, Stays
  <2>4. QED BY <1>7, <2>3, CountKept DEF Swap, Wake, Woke
<1>8. QED
  BY <1>1, <1>2, <1>3, <1>4, <1>5, <1>6, <1>7 DEF Next, ThreadStep, vars, mutexVars

LEMMA RoundsStep == ASSUME IInv, RoundsInv, [Next]_vars PROVE RoundsInv'
<1> USE DEF Waits
<1>0. /\ pc \in [Threads -> Labels] /\ rounds \in [Threads -> Int]
      /\ \A t \in Threads : rounds[t] \in 0 .. Rounds
      /\ \A t \in Threads : Engaged(t) => rounds[t] > 0
  BY DEF IInv, Typed, RoundsInv
<1>1. ASSUME UNCHANGED mutexVars PROVE RoundsInv'
  BY <1>1 DEF mutexVars, RoundsInv, Engaged, Holds
<1>2. ASSUME NEW t \in Threads, TryLock(t) PROVE RoundsInv'
  <2>1. rounds' = rounds /\ rounds[t] > 0
    BY <1>2 DEF TryLock
  <2>2. \A u \in Threads : u # t => pc'[u] = pc[u]
    BY <1>0, <1>2 DEF TryLock, Goto
  <2>3. QED BY <1>0, <2>1, <2>2 DEF RoundsInv, Engaged, Holds
<1>3. ASSUME NEW t \in Threads,
             \/ Look(t) \/ Mark(t) \/ Wait(t) \/ Waited(t) \/ TimeOut(t)
             \/ ReadWaiters(t) \/ Wake(t) \/ Woke(t)
      PROVE  RoundsInv'
  <2>1. rounds' = rounds
    BY <1>3 DEF Look, Mark, Wait, Waited, TimeOut, ReadWaiters, Wake, Woke
  <2>2. \A u \in Threads : u # t => pc'[u] = pc[u]
    BY <1>0, <1>3 DEF Look, Mark, Wait, Waited, TimeOut, ReadWaiters, Wake, Woke, Goto
  <2>3. Engaged(t)' => Engaged(t)
    BY <1>0, <1>3 DEF Look, Mark, Wait, Waited, TimeOut, ReadWaiters, Wake, Woke, Goto,
                      Engaged, Holds
  <2>4. QED BY <1>0, <2>1, <2>2, <2>3 DEF RoundsInv, Engaged, Holds
<1>5. ASSUME NEW t \in Threads, Swap(t) \/ GiveUp(t) \/ Late(t) PROVE RoundsInv'
  <2>0. Engaged(t) /\ rounds' = [rounds EXCEPT ![t] = @ - 1]
    BY <1>5 DEF Swap, GiveUp, Late, LeaveWithout, Engaged, Holds
  <2>1. rounds[t] \in 0 .. Rounds /\ rounds[t] > 0
    BY <1>0, <2>0
  <2>2. pc'[t] \in {"wake", "idle"} /\ \A u \in Threads : u # t => pc'[u] = pc[u]
    BY <1>0, <1>5 DEF Swap, GiveUp, Late, LeaveWithout, Goto
  <2>3. QED BY <1>0, <2>0, <2>1, <2>2 DEF RoundsInv, Engaged, Holds
<1>6. QED
  BY <1>1, <1>2, <1>3, <1>5 DEF Next, ThreadStep, vars, mutexVars

\* The types of the state; the count of waiters never goes below zero.
THEOREM Typing == Spec => []TypeOK
<1>1. Init => CountInv /\ RoundsInv
  <2> SUFFICES ASSUME Init PROVE CountInv /\ RoundsInv
    OBVIOUS
  <2>1. Counted = {}
    BY DEF Init, Counted, Waits
  <2>2. CountInv
    BY <2>1, FS_EmptySet DEF Init, CountInv
  <2>3. RoundsInv
    BY DEF Init, RoundsInv, Engaged, Holds, Waits
  <2>4. QED BY <2>2, <2>3
<1>2. IInv /\ CountInv /\ RoundsInv /\ [Next]_vars => CountInv' /\ RoundsInv'
  BY CountStep, RoundsStep
<1>3. IInv /\ CountInv /\ RoundsInv => TypeOK
  <2> SUFFICES ASSUME IInv, CountInv, RoundsInv PROVE TypeOK
    OBVIOUS
  <2>1. waiters \in Nat
    BY CountIsNat DEF CountInv
  <2>2. reg \in [Threads -> Nat]
    BY DEF IInv, Typed, CountInv
  <2>3. rounds \in [Threads -> 0 .. Rounds]
    <3>1. rounds \in [Threads -> Int] /\ \A t \in Threads : rounds[t] \in 0 .. Rounds
      BY DEF IInv, Typed, RoundsInv
    <3>2. QED BY <3>1
  <2>4. QED BY <2>1, <2>2, <2>3 DEF TypeOK, IInv, Typed, FutexInv, Labels
<1>4. QED BY <1>1, <1>2, <1>3, Invariance, PTL DEF Spec
-----------------------------------------------------------------------------
\* The owner is the holder, there being at most one.
LEMMA OwnerIs ==
  /\ Exclusive => \A t \in Threads : Holds(t) => Owner = t
  /\ (\A t \in Threads : ~Holds(t)) => Owner = NULL
<1>1. ASSUME Exclusive, NEW t \in Threads, Holds(t) PROVE Owner = t
  <2>1. \A u \in Threads : Holds(u) => u = t
    BY <1>1 DEF Exclusive
  <2>2. QED BY <1>1, <2>1 DEF Owner
<1>2. ASSUME \A t \in Threads : ~Holds(t) PROVE Owner = NULL
  BY <1>2 DEF Owner
<1>3. QED BY <1>1, <1>2

LEMMA OwnerIsNext ==
  /\ Exclusive' => \A t \in Threads : Holds(t)' => Owner' = t
  /\ (\A t \in Threads : ~Holds(t)') => Owner' = NULL
  BY DEF Exclusive, Owner

LEMMA OwnerKept ==
  ASSUME Exclusive, Exclusive', \A t \in Threads : Holds(t)' = Holds(t)
  PROVE  Owner' = Owner
<1>1. CASE \E t \in Threads : Holds(t)
  <2>1. PICK t \in Threads : Holds(t)
    BY <1>1
  <2>2. Owner = t
    BY <2>1, OwnerIs
  <2>3. Holds(t)'
    BY <2>1
  <2>4. Owner' = t
    BY <2>3, OwnerIsNext
  <2>5. QED BY <2>2, <2>4
<1>2. CASE \A t \in Threads : ~Holds(t)
  <2>1. \A t \in Threads : ~Holds(t)'
    BY <1>2
  <2>2. QED BY <1>2, <2>1, OwnerIs, OwnerIsNext
<1>3. QED BY <1>1, <1>2

\* Every step is one of the abstract lock, or leaves the owner alone.
LEMMA LockStep == ASSUME IInv, IInv', [Next]_vars PROVE [Abstract!Next]_Owner
<1>0. /\ Exclusive /\ Exclusive' /\ pc \in [Threads -> Labels]
      /\ Typed
  BY DEF IInv, Typed
<1>1. CASE UNCHANGED vars
  <2>1. \A u \in Threads : Holds(u)' = Holds(u)
    BY <1>1 DEF vars, mutexVars, Holds
  <2>2. QED BY <1>0, <2>1, OwnerKept
<1>2. ASSUME NEW t \in Threads, TryLock(t) PROVE [Abstract!Next]_Owner
  <2>1. CASE word[Mutex] = 0
    <3>1. Owner = NULL
      BY <1>0, <2>1, OwnerIs DEF Exclusive
    <3>2. pc'[t] = "locked"
      BY <1>0, <1>2, <2>1 DEF TryLock, Goto
    <3>3. Owner' = t
      BY <1>0, <3>2, OwnerIsNext DEF Holds
    <3>4. QED BY <3>1, <3>3 DEF Abstract!Next, Abstract!Acquire
  <2>2. CASE word[Mutex] # 0
    <3>1. pc' = [pc EXCEPT ![t] = "look"] /\ pc[t] \in {"idle", "try"}
      BY <1>2, <2>2 DEF TryLock, Goto
    <3>2. \A u \in Threads : Holds(u)' = Holds(u)
      BY <1>0, <3>1 DEF Holds
    <3>3. QED BY <1>0, <3>2, OwnerKept
  <2>3. QED BY <2>1, <2>2
<1>3. ASSUME NEW t \in Threads, Swap(t) PROVE [Abstract!Next]_Owner
  <2>1. Holds(t)
    BY <1>3 DEF Swap, Holds
  <2>2. Owner = t
    BY <1>0, <2>1, OwnerIs
  <2>3. word'[Mutex] = 0
    BY <1>0, <1>3, WordOfMutex DEF Swap, Lock
  <2>4. Owner' = NULL
    BY <1>0, <2>3, OwnerIsNext DEF Exclusive
  <2>5. QED BY <2>2, <2>4 DEF Abstract!Next, Abstract!Release
<1>4. ASSUME NEW t \in Threads,
             \/ Look(t) \/ Mark(t) \/ Wait(t) \/ Waited(t) \/ Wake(t) \/ Woke(t)
             \/ TimeOut(t) \/ GiveUp(t) \/ Late(t)
      PROVE  [Abstract!Next]_Owner
  <2>1. \A u \in Threads : Holds(u)' = Holds(u)
    BY <1>0, <1>4 DEF Look, Mark, Wait, Waited, Wake, Woke, TimeOut, GiveUp, Late,
                      LeaveWithout, Goto, Holds
  <2>2. QED BY <1>0, <2>1, OwnerKept
<1>5. ASSUME NEW t \in Threads, ReadWaiters(t) PROVE [Abstract!Next]_Owner
  <2>1. \A u \in Threads : Holds(u)' = Holds(u)
    BY <1>0, <1>5 DEF ReadWaiters, Goto, Holds
  <2>2. QED BY <1>0, <2>1, OwnerKept
<1>6. ASSUME NEW t \in Threads, UNCHANGED mutexVars PROVE [Abstract!Next]_Owner
  <2>1. \A u \in Threads : Holds(u)' = Holds(u)
    BY <1>6 DEF mutexVars, Holds
  <2>2. QED BY <1>0, <2>1, OwnerKept
<1>7. QED
  BY <1>1, <1>2, <1>3, <1>4, <1>5, <1>6 DEF Next, ThreadStep

\* The mutex implements the abstract lock, for any number of threads.
THEOREM Refinement == Spec => LockSpec
<1>1. Init => Abstract!Init
  BY OwnerIs DEF Init, Holds, Abstract!Init
<1>2. IInv /\ IInv' /\ [Next]_vars => [Abstract!Next]_Owner
  BY LockStep
<1>3. QED BY <1>1, <1>2, Invariance, PTL DEF Spec, LockSpec, Abstract!Spec
-----------------------------------------------------------------------------
\* A thread is in a futex call exactly when it waits or wakes, and then with the
\* arguments that pthread_mutex_timedlock and _unlock pass.
InCallInv ==
  \A t \in Threads :
    /\ fpc[t] # "none" <=> pc[t] \in {"waiting", "expired", "waking"}
    /\ pc[t] = "waiting" => op[t] = "wait" /\ val[t] = Contended
    /\ pc[t] = "expired" => fpc[t] = "return"
    /\ pc[t] = "waking" => op[t] = "wake"
    /\ fpc[t] # "none" => key[t] = Mutex

\* Where no call met a race, all who sleep do so on the first word of the mutex.
SleepInv ==
  /\ \A e \in Entries : \A u \in asleep[e] : fpc[u] = "asleep" /\ out[u] = e
  /\ \A u \in Threads : fpc[u] = "asleep" =>
       /\ u \in asleep[out[u]] /\ stage[u] = "have" /\ pc[u] = "waiting"
       /\ ~raced => IsFirst(out[u], Matching(Mutex))

Sleepers == \E u \in Threads : fpc[u] = "asleep"

\* A thread about to wake one that sleeps, ...
Waker(t) == pc[t] = "wake" \/ (pc[t] = "waking" /\ fpc[t] \in {"load", "store", "kernel"})
\* ... and one that will look at the lock word before it can leave: not one that
\* is about to wait, which may find its deadline passed.
Runner(t) == pc[t] \in {"try", "look"} \/ (pc[t] = "waiting" /\ fpc[t] # "asleep")

\* Sleepers on a free mutex have somebody who comes for it or wakes one of them;
\* and who gives it up with sleepers about will know of them.
WakeInv ==
  ~raced /\ Sleepers =>
    /\ word[Mutex] = 0 => \E t \in Threads : Waker(t) \/ Runner(t)
    /\ \A t \in Threads : pc[t] = "swap" => reg[t] > 0 \/ word[Mutex] = Contended

LInv == IInv /\ CountInv /\ InCallInv /\ SleepInv /\ WakeInv

\* What the typing says of the functions that the steps update.
LEMMA Functions ==
  ASSUME Typed
  PROVE  /\ asleep \in [Entries -> SUBSET Threads]
         /\ fpc \in [Threads -> {"none", "load", "store", "kernel", "asleep", "return"}]
         /\ op \in [Threads -> {"wait", "wake", "requeue", "settid"}]
         /\ val \in [Threads -> Values]
         /\ key \in [Threads -> Addrs]
         /\ out \in [Threads -> Entries \cup {NULL}]
         /\ stage \in [Threads -> {"idle", "miss", "have", "crashed"}]
         /\ raced \in BOOLEAN
         /\ pc \in [Threads -> Labels] /\ reg \in [Threads -> Int]
  BY DEF Typed, FutexInv, FutexTypeOK, TableTypeOK

\* The steps outside a call move one thread, and neither enter nor leave a call.
Outside(t) == TryLock(t) \/ Look(t) \/ Mark(t) \/ Late(t) \/ ReadWaiters(t) \/ Swap(t)

LEMMA OutsideKeeps ==
  ASSUME Typed, NEW t \in Threads, Outside(t)
  PROVE  /\ UNCHANGED <<tableVars, callVars>>
         /\ \A u \in Threads : u # t => pc'[u] = pc[u]
         /\ pc[t] \notin {"waiting", "expired", "waking"}
         /\ pc'[t] \notin {"waiting", "expired", "waking"}
<1>1. UNCHANGED <<tableVars, callVars>>
  BY DEF Outside, TryLock, Look, Mark, Late, ReadWaiters, Swap, futexVars
<1>2. \E l \in {"locked", "look", "try", "mark", "wait", "swap", "wake", "idle"} :
        pc' = [pc EXCEPT ![t] = l]
  BY DEF Outside, TryLock, Look, Mark, Late, LeaveWithout, ReadWaiters, Swap, Goto
<1>3. pc[t] \notin {"waiting", "expired", "waking"}
  BY DEF Outside, TryLock, Look, Mark, Late, ReadWaiters, Swap
<1>4. QED BY <1>1, <1>2, <1>3 DEF Typed

LEMMA InCallStep == ASSUME IInv, InCallInv, SleepInv, [Next]_vars PROVE InCallInv'
<1> DEFINE Fine(u) ==
      /\ fpc[u] # "none" <=> pc[u] \in {"waiting", "expired", "waking"}
      /\ pc[u] = "waiting" => op[u] = "wait" /\ val[u] = Contended
      /\ pc[u] = "expired" => fpc[u] = "return"
      /\ pc[u] = "waking" => op[u] = "wake"
      /\ fpc[u] # "none" => key[u] = Mutex
<1>0. Typed /\ InCallInv /\ \A u \in Threads : Fine(u)
  BY DEF IInv, InCallInv
<1>1. ASSUME NEW u \in Threads, pc'[u] = pc[u], op'[u] = op[u], val'[u] = val[u],
             key'[u] = key[u], fpc'[u] # "none" <=> fpc[u] # "none",
             fpc[u] = "return" => fpc'[u] = "return"
      PROVE  Fine(u)'
  BY <1>0, <1>1
<1>2. ASSUME NEW t \in Threads, Outside(t), NEW u \in Threads PROVE Fine(u)'
  <2>1. UNCHANGED <<op, val, key, fpc>>
    BY <1>0, <1>2, OutsideKeeps DEF tableVars, callVars
  <2>2. CASE u = t
    BY <1>0, <1>2, <2>1, <2>2, OutsideKeeps
  <2>3. CASE u # t
    BY <1>0, <1>1, <1>2, <2>1, <2>3, OutsideKeeps
  <2>4. QED BY <2>2, <2>3
<1>3. ASSUME NEW t \in Threads, Wait(t) \/ Wake(t), NEW u \in Threads PROVE Fine(u)'
  <2>1. CASE u = t
    <3>1. CASE Wait(t)
      BY <1>0, <2>1, <3>1, Functions DEF Wait, Call, Get, To, Goto
    <3>2. CASE Wake(t)
      BY <1>0, <2>1, <3>2, Functions DEF Wake, Call, Get, To, Goto
    <3>3. QED BY <1>3, <3>1, <3>2
  <2>2. CASE u # t
    BY <1>0, <1>1, <1>3, <2>2, Functions DEF Wait, Wake, Call, Get, To, Goto
  <2>3. QED BY <2>1, <2>2
<1>4. ASSUME NEW t \in Threads, Waited(t) \/ Woke(t) \/ GiveUp(t), NEW u \in Threads
      PROVE  Fine(u)'
  <2>1. CASE u = t
    BY <1>0, <1>4, <2>1, Functions DEF Waited, Woke, GiveUp, LeaveWithout, Finish, To, Goto
  <2>2. CASE u # t
    BY <1>0, <1>1, <1>4, <2>2, Functions
       DEF Waited, Woke, GiveUp, LeaveWithout, Finish, Drop, To, Goto
  <2>3. QED BY <2>1, <2>2
<1>5. ASSUME NEW t \in Threads, FutexStep(t), UNCHANGED mutexVars, NEW u \in Threads
      PROVE  Fine(u)'
  <2>1. UNCHANGED <<op, val, key, pc>>
    BY <1>5 DEF FutexStep, Allocate, Set, Load, Store, Sleep, Again, WakeOne, WakeNone,
                tableVars, callVars, mutexVars
  <2>2. (fpc'[u] # "none" <=> fpc[u] # "none") /\ (fpc[u] = "return" => fpc'[u] = "return")
    <3>1. CASE WakeOne(t)
      <4>1. out[t] \in Entries /\ fpc[t] # "none"
        BY <1>0, <3>1 DEF WakeOne, At, Typed, FutexInv, TableInv, Chosen
      <4>2. PICK v \in asleep[out[t]] : fpc' = [fpc EXCEPT ![t] = "return", ![v] = "return"]
        BY <3>1 DEF WakeOne
      <4>3. v \in Threads /\ fpc[v] = "asleep"
        BY <1>0, <4>1, <4>2, Functions DEF SleepInv
      <4>4. QED BY <1>0, <4>1, <4>2, <4>3, Functions
    <3>2. CASE Allocate(t)
      BY <3>2 DEF Allocate, callVars
    <3>3. CASE Load(t) \/ Store(t)
      BY <1>0, <3>3, Functions DEF Load, Store, At, To
    <3>4. CASE Sleep(t) \/ Again(t) \/ WakeNone(t)
      <4>1. fpc[t] = "kernel" /\ \E l \in {"asleep", "return"} : fpc' = [fpc EXCEPT ![t] = l]
        BY <3>4 DEF Sleep, Again, WakeNone, At, To
      <4>2. QED BY <1>0, <4>1, Functions
    <3>5. QED BY <1>5, <3>1, <3>2, <3>3, <3>4 DEF FutexStep
  <2>3. QED BY <1>1, <2>1, <2>2
<1>6. ASSUME UNCHANGED vars, NEW u \in Threads PROVE Fine(u)'
  BY <1>1, <1>6 DEF vars, futexVars, tableVars, callVars, mutexVars
<1>7. ASSUME NEW t \in Threads, TimeOut(t), NEW u \in Threads PROVE Fine(u)'
  <2>1. CASE u = t
    BY <1>0, <1>7, <2>1, Functions DEF TimeOut, Expire, To, Goto, tableVars
  <2>2. CASE u # t
    BY <1>0, <1>1, <1>7, <2>2, Functions DEF TimeOut, Expire, To, Goto, tableVars
  <2>3. QED BY <2>1, <2>2
<1>8. \A u \in Threads : Fine(u)'
  BY <1>2, <1>3, <1>4, <1>5, <1>6, <1>7 DEF Next, ThreadStep, Outside
<1>9. QED BY <1>8 DEF InCallInv

\* What a call that met no race has met.
LEMMA NotMet ==
  ASSUME NEW t \in Threads, NEW sleeps, Meets(t, sleeps), ~raced'
  PROVE  ~raced /\ IsFirst(out[t], Matching(key[t]))
  BY Zenon DEF Meets

\* A first word stays first while the table is left alone.
LEMMA FirstKept ==
  ASSUME table' = table, NEW e, IsFirst(e, Matching(Mutex))
  PROVE  IsFirst(e, Matching(Mutex))'
  BY DEF IsFirst, Matching

\* Races are never forgotten, and a first word stays first.
LEMMA RacedStays ==
  ASSUME IInv, [Next]_vars, ~raced'
  PROVE  /\ ~raced
         /\ \A a \in Addrs, e \in Entries :
              IsFirst(e, Matching(a)) => IsFirst(e, Matching(a))'
<1> DEFINE Kept == \A a \in Addrs, e \in Entries :
                     IsFirst(e, Matching(a)) => IsFirst(e, Matching(a))'
<1>1. ASSUME table' = table, raced' = raced PROVE ~raced /\ Kept
  BY <1>1 DEF IsFirst, Matching
<1>2. ASSUME NEW t \in Threads, Outside(t) PROVE ~raced /\ Kept
  BY <1>1, <1>2, OutsideKeeps DEF tableVars, callVars, IInv
<1>3. ASSUME NEW t \in Threads,
             Wait(t) \/ Waited(t) \/ TimeOut(t) \/ GiveUp(t) \/ Wake(t) \/ Woke(t)
      PROVE  ~raced /\ Kept
  BY <1>1, <1>3 DEF Wait, Waited, TimeOut, GiveUp, Wake, Woke, Call, Get, Expire, Finish, Drop,
                    tableVars
<1>4. ASSUME NEW t \in Threads, FutexStep(t) PROVE ~raced /\ Kept
  <2>1. ~raced
    <3>1. CASE Sleep(t) \/ WakeOne(t) \/ WakeNone(t)
      <4>1. \E sleeps \in BOOLEAN : Meets(t, sleeps)
        BY <3>1 DEF Sleep, WakeOne, WakeNone
      <4>2. QED BY <4>1, NotMet
    <3>2. CASE Allocate(t) \/ Load(t) \/ Store(t) \/ Again(t)
      <4>1. raced' = raced
        BY <3>2 DEF Allocate, Load, Store, Again, callVars
      <4>2. QED BY <4>1
    <3>3. QED BY <1>4, <3>1, <3>2 DEF FutexStep
  <2>2. Kept
    BY <1>4, FutexStepFirst DEF IInv, Typed
  <2>3. QED BY <2>1, <2>2
<1>5. CASE UNCHANGED vars
  BY <1>1, <1>5 DEF vars, futexVars, tableVars, callVars
<1>6. QED BY <1>2, <1>3, <1>4, <1>5 DEF Next, ThreadStep, Outside

LEMMA SleepStep == ASSUME IInv, InCallInv, SleepInv, [Next]_vars PROVE SleepInv'
<1>0. /\ Typed /\ InCallInv /\ SleepInv /\ Mutex \in Addrs
      /\ \A u \in Threads : stage[u] = "have" => out[u] \in Entries
  BY DEF IInv, Typed, FutexInv, TableInv, Chosen
<1>1. ASSUME asleep' = asleep,
             \A u \in Threads : fpc'[u] = "asleep" <=> fpc[u] = "asleep",
             \A u \in Threads : fpc[u] = "asleep" =>
               out'[u] = out[u] /\ stage'[u] = "have" /\ pc'[u] = pc[u]
      PROVE  SleepInv'
  <2>1. ASSUME NEW e \in Entries, NEW u \in asleep'[e] PROVE fpc'[u] = "asleep" /\ out'[u] = e
    <3>1. u \in Threads /\ fpc[u] = "asleep" /\ out[u] = e
      BY <1>0, <1>1, <2>1, Functions DEF SleepInv
    <3>2. QED BY <1>1, <3>1
  <2>2. ASSUME NEW u \in Threads, fpc'[u] = "asleep"
        PROVE  /\ u \in asleep'[out'[u]] /\ stage'[u] = "have" /\ pc'[u] = "waiting"
               /\ ~raced' => IsFirst(out[u], Matching(Mutex))'
    <3>1. fpc[u] = "asleep" /\ out'[u] = out[u] /\ out[u] \in Entries
      BY <1>0, <1>1, <2>2 DEF SleepInv
    <3>2. QED BY <1>0, <1>1, <3>1, RacedStays DEF SleepInv
  <2>3. QED BY <2>1, <2>2 DEF SleepInv
<1>2. ASSUME NEW t \in Threads, Outside(t) PROVE SleepInv'
  <2>1. UNCHANGED <<asleep, fpc, out, stage>>
    BY <1>0, <1>2, OutsideKeeps DEF tableVars, callVars
  <2>2. \A u \in Threads : fpc[u] = "asleep" => pc'[u] = pc[u] /\ stage[u] = "have"
    BY <1>0, <1>2, OutsideKeeps DEF SleepInv
  <2>3. QED BY <1>1, <2>1, <2>2
<1>3. ASSUME NEW t \in Threads, Wait(t) \/ Waited(t) \/ GiveUp(t) \/ Wake(t) \/ Woke(t)
      PROVE  SleepInv'
  <2>1. asleep' = asleep
    BY <1>3 DEF Wait, Waited, GiveUp, Wake, Woke, Call, Finish
  <2>2. fpc[t] # "asleep" /\ fpc'[t] # "asleep"
    BY <1>0, <1>3, Functions DEF Wait, Waited, GiveUp, Wake, Woke, Call, Finish, To
  <2>3. \A u \in Threads : u # t =>
          /\ fpc'[u] = fpc[u] /\ out'[u] = out[u] /\ stage'[u] = stage[u] /\ pc'[u] = pc[u]
    BY <1>0, <1>3, Functions DEF Wait, Waited, GiveUp, LeaveWithout, Wake, Woke, Call, Finish,
                                 Get, Resolved, Drop, To, Goto
  <2>4. QED BY <1>0, <1>1, <2>1, <2>2, <2>3 DEF SleepInv
<1>4. ASSUME NEW t \in Threads, FutexStep(t), UNCHANGED mutexVars PROVE SleepInv'
  <2>1. CASE Allocate(t)
    <3>1. asleep' = asleep /\ fpc' = fpc /\ stage[t] = "miss" /\ pc' = pc
      BY <1>4, <2>1 DEF Allocate, Set, callVars, mutexVars
    <3>2. \A u \in Threads : fpc[u] = "asleep" => out'[u] = out[u] /\ stage'[u] = "have"
      BY <1>0, <2>1, <3>1, Functions DEF Allocate, Set, Resolved, SleepInv
    <3>3. QED BY <1>1, <3>1, <3>2
  <2>2. CASE Load(t) \/ Store(t) \/ Again(t) \/ WakeNone(t)
    <3>1. /\ asleep' = asleep /\ UNCHANGED tableVars /\ pc' = pc
          /\ fpc[t] # "asleep"
      BY <1>4, <2>2 DEF Load, Store, Again, WakeNone, At, mutexVars
    <3>2. \A u \in Threads : fpc'[u] = "asleep" <=> fpc[u] = "asleep"
      <4>1. \E l \in {"store", "kernel", "return"} : fpc' = [fpc EXCEPT ![t] = l]
        BY <2>2 DEF Load, Store, Again, WakeNone, To
      <4>2. QED BY <1>0, <3>1, <4>1, Functions
    <3>3. QED BY <1>0, <1>1, <3>1, <3>2 DEF tableVars, SleepInv
  <2>3. CASE Sleep(t)
    <3>1. /\ stage[t] = "have" /\ fpc[t] = "kernel" /\ op[t] = "wait"
          /\ UNCHANGED <<table, stage, key, out, pc>>
          /\ asleep' = [asleep EXCEPT ![out[t]] = @ \cup {t}]
          /\ Meets(t, TRUE)
      BY <1>4, <2>3 DEF Sleep, At, tableVars, mutexVars
    <3>0. ~raced' => IsFirst(out[t], Matching(key[t]))
      BY <3>1, NotMet
    <3>2. out[t] \in Entries /\ pc[t] = "waiting" /\ key[t] = Mutex
      BY <1>0, <3>1, Functions DEF InCallInv
    <3>3. \A e \in Entries, u \in Threads : u \in asleep'[e] <=> (u \in asleep[e] \/ (e = out[t] /\ u = t))
      BY <1>0, <3>1, Functions
    <3>4. \A u \in Threads : fpc'[u] = IF u = t THEN "asleep" ELSE fpc[u]
      BY <1>0, <2>3, Functions DEF Sleep, To
    <3>5. ASSUME NEW e \in Entries, NEW u \in Threads, u \in asleep'[e]
          PROVE  fpc'[u] = "asleep" /\ out'[u] = e
      <4>1. CASE u \in asleep[e]
        <5>1. u \in Threads /\ fpc[u] = "asleep" /\ out[u] = e
          BY <1>0, <4>1, Functions DEF SleepInv
        <5>2. QED BY <3>1, <3>4, <5>1
      <4>2. CASE u \notin asleep[e]
        <5>1. e = out[t] /\ u = t
          BY <3>3, <3>5, <4>2
        <5>2. QED BY <3>1, <3>4, <5>1
      <4>3. QED BY <4>1, <4>2
    <3>6. ASSUME NEW u \in Threads, fpc'[u] = "asleep"
          PROVE  /\ u \in asleep'[out'[u]] /\ stage'[u] = "have" /\ pc'[u] = "waiting"
                 /\ ~raced' => IsFirst(out[u], Matching(Mutex))'
      <4>1. CASE u = t
        <5>1. u \in asleep'[out[u]] /\ table' = table
          BY <3>1, <3>2, <3>3, <4>1
        <5>2. \A e \in Entries : IsFirst(e, Matching(Mutex)) => IsFirst(e, Matching(Mutex))'
          BY <5>1, FirstKept
        <5>3. ~raced' => IsFirst(out[t], Matching(Mutex))
          BY <3>0, <3>2
        <5>4. out' = out /\ stage'[u] = "have" /\ pc'[u] = "waiting"
          BY <3>1, <3>2, <4>1
        <5>5. QED BY <3>2, <4>1, <5>1, <5>2, <5>3, <5>4
      <4>2. CASE u # t
        <5>1. fpc[u] = "asleep"
          BY <3>4, <3>6, <4>2
        <5>2. out[u] \in Entries /\ u \in asleep[out[u]] /\ stage[u] = "have" /\ pc[u] = "waiting"
          BY <1>0, <5>1 DEF SleepInv
        <5>3. ~raced' => IsFirst(out[u], Matching(Mutex))
          BY <1>0, <5>1, RacedStays DEF SleepInv
        <5>4. out'[u] = out[u] /\ stage'[u] = "have" /\ pc'[u] = "waiting" /\ table' = table
          BY <3>1, <5>2
        <5>5. u \in asleep'[out[u]]
          BY <3>3, <5>2
        <5>6. QED BY <5>3, <5>4, <5>5, FirstKept
      <4>3. QED BY <4>1, <4>2
    <3>7. \A e \in Entries : asleep'[e] \subseteq Threads
      BY <1>0, <3>1, Functions
    <3>8. QED BY <3>5, <3>6, <3>7 DEF SleepInv
  <2>4. CASE WakeOne(t)
    <3>1. out[t] \in Entries /\ UNCHANGED <<table, stage, key, out, pc>>
      BY <1>0, <1>4, <2>4 DEF WakeOne, At, tableVars, mutexVars
    <3>2. PICK v \in asleep[out[t]] :
            /\ asleep' = [asleep EXCEPT ![out[t]] = @ \ {v}]
            /\ fpc' = [fpc EXCEPT ![t] = "return", ![v] = "return"]
      BY <2>4 DEF WakeOne
    <3>3. v \in Threads /\ fpc[v] = "asleep" /\ out[v] = out[t] /\ fpc[t] # "asleep"
      BY <1>0, <2>4, <3>1, <3>2, Functions DEF SleepInv, WakeOne, At
    <3>4. \A u \in Threads : fpc'[u] = IF u \in {t, v} THEN "return" ELSE fpc[u]
      BY <1>0, <3>2, <3>3, Functions
    <3>5. \A e \in Entries, u \in Threads : u \in asleep'[e] <=> u \in asleep[e] /\ ~(e = out[t] /\ u = v)
      BY <1>0, <3>2, Functions
    <3>6. ASSUME NEW e \in Entries, NEW u \in Threads, u \in asleep'[e]
          PROVE  fpc'[u] = "asleep" /\ out'[u] = e
      <4>1. u \in asleep[e] /\ (e = out[t] => u # v)
        BY <3>5, <3>6
      <4>2. u \in Threads /\ fpc[u] = "asleep" /\ out[u] = e
        BY <1>0, <4>1, Functions DEF SleepInv
      <4>3. u # v /\ u # t
        BY <3>3, <4>1, <4>2
      <4>4. QED BY <3>1, <3>4, <4>2, <4>3
    <3>7. ASSUME NEW u \in Threads, fpc'[u] = "asleep"
          PROVE  /\ u \in asleep'[out'[u]] /\ stage'[u] = "have" /\ pc'[u] = "waiting"
                 /\ ~raced' => IsFirst(out[u], Matching(Mutex))'
      <4>1. fpc[u] = "asleep" /\ u # v
        BY <3>4, <3>7
      <4>2. out[u] \in Entries /\ u \in asleep[out[u]] /\ stage[u] = "have" /\ pc[u] = "waiting"
        BY <1>0, <4>1 DEF SleepInv
      <4>3. ~raced' => IsFirst(out[u], Matching(Mutex))
        BY <1>0, <4>1, RacedStays DEF SleepInv
      <4>4. out'[u] = out[u] /\ stage'[u] = "have" /\ pc'[u] = "waiting" /\ table' = table
        BY <3>1, <4>2
      <4>5. u \in asleep'[out[u]]
        BY <3>5, <4>1, <4>2
      <4>6. QED BY <4>3, <4>4, <4>5, FirstKept
    <3>8. \A e \in Entries : asleep'[e] \subseteq Threads
      BY <1>0, <3>2, Functions
    <3>9. QED BY <3>6, <3>7, <3>8 DEF SleepInv
  <2>5. QED BY <1>4, <2>1, <2>2, <2>3, <2>4 DEF FutexStep
<1>5. CASE UNCHANGED vars
  BY <1>0, <1>1, <1>5 DEF vars, futexVars, tableVars, callVars, mutexVars, SleepInv
<1>6. ASSUME NEW t \in Threads, TimeOut(t) PROVE SleepInv'
  <2>1. /\ UNCHANGED <<table, stage, key, out, raced>> /\ pc' = [pc EXCEPT ![t] = "expired"]
        /\ asleep' = [e \in Entries |-> asleep[e] \ {t}]
        /\ fpc' = [fpc EXCEPT ![t] = "return"]
    BY <1>6 DEF TimeOut, Expire, To, Goto, tableVars
  <2>2. \A u \in Threads : u # t => pc'[u] = pc[u] /\ fpc'[u] = fpc[u]
    BY <1>0, <2>1, Functions
  <2>3. fpc'[t] = "return"
    BY <1>0, <2>1, Functions
  <2>4. \A e \in Entries : asleep'[e] = asleep[e] \ {t} /\ asleep[e] \subseteq Threads
    BY <1>0, <2>1, Functions
  <2>5. ASSUME NEW e \in Entries, NEW u \in asleep'[e] PROVE fpc'[u] = "asleep" /\ out'[u] = e
    <3>1. u \in asleep[e] /\ u \in Threads /\ u # t
      BY <2>4, <2>5
    <3>2. QED BY <1>0, <2>1, <2>2, <3>1 DEF SleepInv
  <2>6. ASSUME NEW u \in Threads, fpc'[u] = "asleep"
        PROVE  /\ u \in asleep'[out'[u]] /\ stage'[u] = "have" /\ pc'[u] = "waiting"
               /\ ~raced' => IsFirst(out[u], Matching(Mutex))'
    <3>1. u # t /\ fpc[u] = "asleep"
      BY <2>2, <2>3, <2>6
    <3>2. /\ out[u] \in Entries /\ u \in asleep[out[u]] /\ stage[u] = "have" /\ pc[u] = "waiting"
          /\ ~raced => IsFirst(out[u], Matching(Mutex))
      BY <1>0, <3>1 DEF SleepInv
    <3>3. QED BY <2>1, <2>2, <2>4, <3>1, <3>2, FirstKept
  <2>7. QED BY <2>5, <2>6 DEF SleepInv
<1>7. QED BY <1>2, <1>3, <1>4, <1>5, <1>6 DEF Next, ThreadStep, Outside

\* One of them is what WakeInv asks for.
Comes(t) == Waker(t) \/ Runner(t)

\* A step after which somebody comes, or that leaves the mutex taken, and that
\* neither takes knowledge of the waiters from an unlocking thread nor puts one
\* to sleep behind its back.
LEMMA WakeByParts ==
  ASSUME WakeInv, ~raced' => ~raced, Sleepers' => Sleepers,
         word'[Mutex] = 0 => \E t \in Threads : Comes(t)',
         word[Mutex] = Contended => word'[Mutex] = Contended,
         \A u \in Threads : pc'[u] = "swap" => pc[u] = "swap" /\ reg'[u] = reg[u]
  PROVE  WakeInv'
<1>1. \/ raced' \/ ~Sleepers'
      \/ \A u \in Threads : pc'[u] = "swap" => reg'[u] > 0 \/ word'[Mutex] = Contended
  BY DEF WakeInv
<1>2. QED BY <1>1 DEF WakeInv, Comes, Sleepers

\* A step that leaves a taken mutex taken and stops nobody who comes.
LEMMA OthersCome ==
  ASSUME WakeInv, ~raced' => ~raced, Sleepers' => Sleepers,
         word'[Mutex] = 0 => word[Mutex] = 0,
         \A u \in Threads : Comes(u) => Comes(u)',
         word[Mutex] = Contended => word'[Mutex] = Contended,
         \A u \in Threads : pc'[u] = "swap" => pc[u] = "swap" /\ reg'[u] = reg[u]
  PROVE  WakeInv'
<1>1. CASE raced' \/ ~Sleepers'
  BY <1>1 DEF WakeInv
<1>2. CASE ~raced' /\ Sleepers'
  <2>1. word'[Mutex] = 0 => \E u \in Threads : Comes(u)'
    BY <1>2 DEF WakeInv, Comes
  <2>2. QED BY <2>1, WakeByParts
<1>3. QED BY <1>1, <1>2

LEMMA WakeOutside ==
  ASSUME IInv, CountInv, SleepInv, WakeInv, NEW t \in Threads, Outside(t), ~raced' => ~raced
  PROVE  WakeInv'
<1>0. /\ Typed /\ Exclusive /\ MarkInv
      /\ pc \in [Threads -> Labels] /\ reg \in [Threads -> Int]
      /\ word \in [Addrs -> Values]
  BY WordOfMutex, Functions DEF IInv
<1>1. UNCHANGED <<tableVars, callVars>> /\ \A u \in Threads : u # t => pc'[u] = pc[u]
  BY <1>0, OutsideKeeps
<1>2. fpc' = fpc /\ (Sleepers' <=> Sleepers)
  BY <1>1 DEF callVars, Sleepers
<1>3. CASE TryLock(t)
  <2>1. word'[Mutex] # 0
    BY <1>0, <1>3 DEF TryLock, Lock
  <2>2. word[Mutex] = Contended => word'[Mutex] = Contended
    BY <1>3 DEF TryLock
  <2>3. \A u \in Threads : pc'[u] = "swap" => pc[u] = "swap" /\ reg'[u] = reg[u]
    BY <1>0, <1>3 DEF TryLock, Goto
  <2>4. QED BY <1>2, <2>1, <2>2, <2>3, WakeByParts
<1>4. CASE Look(t)
  <2>1. word' = word /\ (word[Mutex] = 0 => pc'[t] = "try")
    BY <1>0, <1>4 DEF Look, Goto, futexVars
  <2>2. \A u \in Threads : pc'[u] = "swap" => pc[u] = "swap" /\ reg'[u] = reg[u]
    BY <1>0, <1>4 DEF Look, Goto
  <2>3. word'[Mutex] = 0 => Comes(t)'
    BY <2>1 DEF Comes, Runner
  <2>4. QED BY <1>2, <2>1, <2>2, <2>3, WakeByParts
<1>5. CASE Mark(t)
  <2>1. ~Comes(t) /\ (word'[Mutex] = 0 => word[Mutex] = 0)
    BY <1>0, <1>5 DEF Mark, Lock, Comes, Waker, Runner
  <2>2. word[Mutex] = Contended => word'[Mutex] = Contended
    BY <1>0, <1>5 DEF Mark, Lock
  <2>3. \A u \in Threads : pc'[u] = "swap" => pc[u] = "swap" /\ reg'[u] = reg[u]
    BY <1>0, <1>5 DEF Mark, Goto
  <2>4. \A u \in Threads : Comes(u) => Comes(u)'
    BY <1>1, <1>2, <2>1 DEF Comes, Waker, Runner
  <2>5. QED BY <1>2, <2>1, <2>2, <2>3, <2>4, OthersCome
<1>6. CASE ReadWaiters(t)
  <2>1. word' = word /\ word[Mutex] # 0
    BY <1>6 DEF ReadWaiters, Exclusive, Holds, futexVars, IInv
  <2>2. Sleepers => waiters > 0
    <3>1. ASSUME Sleepers PROVE Counted # {}
      BY <3>1 DEF Sleepers, SleepInv, Counted, Waits
    <3>2. ASSUME Cardinality(Counted) = 0 PROVE Counted = {}
      BY <3>2, CountIsNat, FS_EmptySet
    <3>3. QED BY <3>1, <3>2, CountIsNat DEF CountInv
  <2>3. ASSUME NEW u \in Threads, pc'[u] = "swap", ~raced', Sleepers'
        PROVE  reg'[u] > 0 \/ word'[Mutex] = Contended
    <3>1. CASE u = t
      BY <1>0, <1>2, <1>6, <2>2, <2>3, <3>1 DEF ReadWaiters
    <3>2. CASE u # t
      <4>1. pc[u] = "swap" /\ reg'[u] = reg[u]
        BY <1>0, <1>1, <1>6, <2>3, <3>2 DEF ReadWaiters
      <4>2. QED BY <1>2, <2>1, <2>3, <4>1 DEF WakeInv
    <3>3. QED BY <3>1, <3>2
  <2>4. QED BY <2>1, <2>3 DEF WakeInv
<1>7. CASE Swap(t)
  <2>1. \A u \in Threads : pc'[u] # "swap"
    <3>1. \A u \in Threads : Holds(u) => u = t
      BY <1>0, <1>7 DEF Swap, Holds, Exclusive
    <3>2. pc'[t] # "swap"
      BY <1>0, <1>7 DEF Swap, Goto
    <3>3. QED BY <1>1, <3>1, <3>2 DEF Holds
  <2>2. ASSUME ~raced', Sleepers' PROVE Comes(t)'
    <3>1. reg[t] > 0 \/ word[Mutex] = Contended
      BY <1>2, <1>7, <2>2 DEF WakeInv, Swap
    <3>2. pc'[t] = "wake"
      BY <1>0, <1>7, <3>1 DEF Swap, Goto
    <3>3. QED BY <3>2 DEF Comes, Waker
  <2>3. QED BY <2>1, <2>2 DEF WakeInv, Comes
<1>8. CASE Late(t)
  <2>1. ~Comes(t) /\ word' = word
    BY <1>8 DEF Late, LeaveWithout, Comes, Waker, Runner
  <2>2. \A u \in Threads : pc'[u] = "swap" => pc[u] = "swap" /\ reg'[u] = reg[u]
    BY <1>0, <1>8 DEF Late, LeaveWithout, Goto
  <2>3. \A u \in Threads : Comes(u) => Comes(u)'
    BY <1>1, <1>2, <2>1 DEF Comes, Waker, Runner
  <2>4. QED BY <1>2, <2>1, <2>2, <2>3, OthersCome
<1>9. QED BY <1>3, <1>4, <1>5, <1>6, <1>7, <1>8 DEF Outside

\* Calls are entered and left.
LEMMA WakeBorder ==
  ASSUME IInv, InCallInv, SleepInv, WakeInv, NEW t \in Threads,
         Wait(t) \/ Waited(t) \/ GiveUp(t) \/ Wake(t) \/ Woke(t), ~raced' => ~raced
  PROVE  WakeInv'
<1>0. /\ pc \in [Threads -> Labels] /\ fpc[t] # "asleep"
      /\ fpc \in [Threads -> {"none", "load", "store", "kernel", "asleep", "return"}]
  <2>1. fpc[t] # "asleep"
    BY DEF Wait, Waited, GiveUp, LeaveWithout, Wake, Woke, Call, Finish
  <2>2. QED BY <2>1, Functions DEF IInv
<1>1. word' = word /\ reg' = reg
  BY DEF Wait, Waited, GiveUp, LeaveWithout, Wake, Woke
<1>2. \A u \in Threads : u # t => pc'[u] = pc[u] /\ fpc'[u] = fpc[u]
  BY <1>0 DEF Wait, Waited, GiveUp, LeaveWithout, Wake, Woke, Call, Finish, To, Goto
<1>3. Sleepers' => Sleepers
  <2>1. fpc'[t] # "asleep"
    BY <1>0 DEF Wait, Waited, GiveUp, LeaveWithout, Wake, Woke, Call, Finish, To
  <2>2. QED BY <1>2, <2>1 DEF Sleepers
<1>4. \A u \in Threads : pc'[u] = "swap" => pc[u] = "swap" /\ reg'[u] = reg[u]
  BY <1>0, <1>1 DEF Wait, Waited, GiveUp, LeaveWithout, Wake, Woke, Goto
<1>5. CASE Wait(t) \/ Waited(t) \/ Wake(t)
  <2>1. Comes(t)'
    <3>1. CASE Wait(t)
      BY <1>0, <3>1 DEF Wait, Call, To, Goto, Comes, Runner
    <3>2. CASE Waited(t)
      BY <1>0, <3>2 DEF Waited, Goto, Comes, Runner
    <3>3. CASE Wake(t)
      BY <1>0, <3>3 DEF Wake, Call, To, Goto, Comes, Waker
    <3>4. QED BY <1>5, <3>1, <3>2, <3>3
  <2>2. QED BY <1>1, <1>3, <1>4, <2>1, WakeByParts
<1>6. CASE Woke(t) \/ GiveUp(t)
  <2>1. ~Comes(t)
    BY <1>6 DEF Woke, GiveUp, Finish, Comes, Waker, Runner
  <2>2. \A u \in Threads : Comes(u) => Comes(u)'
    BY <1>2, <2>1 DEF Comes, Waker, Runner
  <2>3. QED BY <1>1, <1>3, <1>4, <2>2, OthersCome
<1>7. QED BY <1>5, <1>6

\* In a call: whoever goes to sleep without a race does so on a mutex taken and
\* marked, and whoever wakes without one finds those who sleep.
LEMMA WakeInside ==
  ASSUME IInv, InCallInv, SleepInv, WakeInv, NEW t \in Threads,
         FutexStep(t), UNCHANGED mutexVars, ~raced' => ~raced
  PROVE  WakeInv'
<1>0. /\ pc \in [Threads -> Labels]
      /\ fpc \in [Threads -> {"none", "load", "store", "kernel", "asleep", "return"}]
      /\ asleep \in [Entries -> SUBSET Threads]
      /\ \A u \in Threads : stage[u] = "have" => out[u] \in Entries
      /\ Typed
  BY Functions DEF IInv, Typed, FutexInv, TableInv, Chosen
<1>1. word' = word /\ reg' = reg /\ pc' = pc
  BY <1>0, FutexStepInv DEF Typed, mutexVars
<1>2. \A u \in Threads : pc'[u] = "swap" => pc[u] = "swap" /\ reg'[u] = reg[u]
  BY <1>1
<1>3. CASE Allocate(t)
  <2>1. fpc' = fpc /\ raced' = raced
    BY <1>3 DEF Allocate, callVars
  <2>2. QED BY <1>1, <2>1 DEF WakeInv, Sleepers, Waker, Runner
<1>4. CASE Load(t) \/ Store(t) \/ Again(t)
  <2>1. /\ fpc[t] \in {"load", "store", "kernel"}
        /\ \E l \in {"store", "kernel", "return"} : fpc' = [fpc EXCEPT ![t] = l]
        /\ fpc'[t] = "return" => op[t] = "wait"
    BY <1>0, <1>4 DEF Load, Store, Again, At, To
  <2>2. Sleepers' => Sleepers
    BY <1>0, <2>1 DEF Sleepers
  <2>3. pc[t] \in {"waiting", "waking"} /\ (fpc'[t] = "return" => pc[t] = "waiting")
    BY <1>0, <2>1 DEF InCallInv
  <2>4. Comes(t)'
    BY <1>0, <1>1, <2>1, <2>3 DEF Comes, Waker, Runner
  <2>5. QED BY <1>1, <1>2, <2>2, <2>4, WakeByParts
<1>5. CASE Sleep(t)
  <2>1. pc[t] = "waiting" /\ val[t] = Contended /\ key[t] = Mutex
    BY <1>5 DEF Sleep, At, InCallInv
  <2>2. ~raced' => word[Mutex] = Contended
    <3>1. Meets(t, TRUE)
      BY <1>5 DEF Sleep
    <3>2. ~raced' => word[key[t]] = val[t]
      BY <3>1, Zenon DEF Meets
    <3>3. QED BY <2>1, <3>2
  <2>3. QED BY <1>1, <2>2 DEF WakeInv
<1>6. CASE WakeOne(t)
  <2>1. out[t] \in Entries /\ fpc[t] # "asleep"
    BY <1>0, <1>6 DEF WakeOne, At
  <2>2. PICK v \in asleep[out[t]] : fpc' = [fpc EXCEPT ![t] = "return", ![v] = "return"]
    BY <1>6 DEF WakeOne
  <2>3. v \in Threads /\ fpc[v] = "asleep" /\ pc[v] = "waiting"
    BY <1>0, <2>1, <2>2 DEF SleepInv
  <2>4. Comes(v)'
    BY <1>0, <1>1, <2>2, <2>3 DEF Comes, Runner
  <2>5. Sleepers' => Sleepers
    BY <1>0, <2>2, <2>3 DEF Sleepers
  <2>6. QED BY <1>1, <1>2, <2>3, <2>4, <2>5, WakeByParts
<1>7. CASE WakeNone(t)
  <2>1. /\ out[t] \in Entries /\ key[t] = Mutex /\ asleep[out[t]] = {}
        /\ ~raced' => ~raced /\ IsFirst(out[t], Matching(Mutex))
    <3>1. /\ stage[t] = "have" /\ fpc[t] # "none" /\ asleep[out[t]] = {}
          /\ Meets(t, FALSE)
      BY <1>7 DEF WakeNone, At
    <3>2. key[t] = Mutex
      BY <3>1 DEF InCallInv
    <3>3. ~raced' => ~raced /\ IsFirst(out[t], Matching(key[t]))
      BY <3>1, Zenon DEF Meets
    <3>4. QED BY <1>0, <3>1, <3>2, <3>3
  <2>2. ASSUME ~raced', NEW u \in Threads, fpc[u] = "asleep" PROVE FALSE
    <3>1. u \in asleep[out[u]] /\ out[u] \in Entries /\ IsFirst(out[u], Matching(Mutex))
      BY <1>0, <2>1, <2>2 DEF SleepInv
    <3>2. out[u] = out[t]
      BY <2>1, <2>2, <3>1, OneFirst
    <3>3. QED BY <2>1, <3>1, <3>2
  <2>3. fpc' = [fpc EXCEPT ![t] = "return"]
    BY <1>7 DEF WakeNone, To
  <2>4. ~raced' => ~Sleepers'
    BY <1>0, <2>2, <2>3 DEF Sleepers
  <2>5. QED BY <2>4 DEF WakeInv
<1>8. QED BY <1>3, <1>4, <1>5, <1>6, <1>7 DEF FutexStep

LEMMA WakeStep == ASSUME LInv, [Next]_vars PROVE WakeInv'
<1>0. IInv /\ CountInv /\ InCallInv /\ SleepInv /\ WakeInv /\ (~raced' => ~raced)
  BY RacedStays DEF LInv
<1>1. ASSUME NEW t \in Threads, Outside(t) PROVE WakeInv'
  BY <1>0, <1>1, WakeOutside
<1>2. ASSUME NEW t \in Threads, Wait(t) \/ Waited(t) \/ GiveUp(t) \/ Wake(t) \/ Woke(t)
      PROVE  WakeInv'
  BY <1>0, <1>2, WakeBorder
<1>3. ASSUME NEW t \in Threads, FutexStep(t), UNCHANGED mutexVars PROVE WakeInv'
  BY <1>0, <1>3, WakeInside
<1>4. CASE UNCHANGED vars
  BY <1>0, <1>4 DEF vars, futexVars, callVars, mutexVars, WakeInv, Sleepers, Waker, Runner
<1>5. ASSUME NEW t \in Threads, TimeOut(t) PROVE WakeInv'
  <2>1. /\ fpc[t] = "asleep" /\ fpc' = [fpc EXCEPT ![t] = "return"]
        /\ pc' = [pc EXCEPT ![t] = "expired"] /\ word' = word /\ reg' = reg
    BY <1>5 DEF TimeOut, Expire, To, Goto
  <2>2. fpc \in [Threads -> {"none", "load", "store", "kernel", "asleep", "return"}]
        /\ pc \in [Threads -> Labels]
    BY <1>0, Functions DEF IInv
  <2>3. Sleepers' => Sleepers
    BY <2>1 DEF Sleepers
  <2>4. ~Comes(t)
    BY <1>0, <2>1 DEF Comes, Waker, Runner, SleepInv
  <2>5. \A u \in Threads : Comes(u) => Comes(u)'
    BY <2>1, <2>2, <2>4 DEF Comes, Waker, Runner
  <2>6. \A u \in Threads : pc'[u] = "swap" => pc[u] = "swap" /\ reg'[u] = reg[u]
    BY <2>1, <2>2
  <2>7. QED BY <1>0, <2>1, <2>3, <2>5, <2>6, OthersCome
<1>6. QED BY <1>1, <1>2, <1>3, <1>4, <1>5 DEF Next, ThreadStep, Outside

\* Nobody sleeps on a free mutex with nobody left to wake it, unless a call met
\* one of the two races of the copied word: lock, unlock and the shim lose no
\* wakeup in any other way, for any number of threads, rounds and table entries.
THEOREM NoOtherLoss == Spec => []LostOnlyByRace
<1>1. Init => InCallInv /\ SleepInv /\ WakeInv /\ CountInv
  <2> SUFFICES ASSUME Init PROVE InCallInv /\ SleepInv /\ WakeInv /\ CountInv
    OBVIOUS
  <2>1. /\ asleep = [e \in Entries |-> {}]
        /\ \A t \in Threads : fpc[t] = "none" /\ pc[t] = "idle"
    BY DEF Init, FutexInit
  <2>2. InCallInv /\ SleepInv /\ WakeInv
    BY <2>1 DEF InCallInv, SleepInv, WakeInv, Sleepers
  <2>3. Counted = {}
    BY <2>1 DEF Counted, Waits
  <2>4. CountInv
    BY <2>3, FS_EmptySet DEF Init, CountInv
  <2>5. QED BY <2>2, <2>4
<1>2. IInv /\ IInv' /\ CountInv /\ InCallInv /\ SleepInv /\ WakeInv /\ [Next]_vars
        => CountInv' /\ InCallInv' /\ SleepInv' /\ WakeInv'
  BY CountStep, InCallStep, SleepStep, WakeStep DEF LInv
<1>3. IInv /\ SleepInv /\ WakeInv => LostOnlyByRace
  <2> SUFFICES ASSUME SleepInv, WakeInv, IInv, ~raced, NEW s \in Threads, Stranded(s),
                      \A t \in Threads : Stranded(t) \/ pc[t] = "idle"
               PROVE  FALSE
    BY DEF LostOnlyByRace
  <2>1. Sleepers /\ word[Mutex] = 0
    BY DEF Stranded, Sleepers
  <2>2. PICK t \in Threads : Waker(t) \/ Runner(t)
    BY <2>1 DEF WakeInv
  <2>3. Stranded(t)
    BY <2>2 DEF Waker, Runner
  <2>4. fpc[t] = "asleep" /\ pc[t] = "waiting"
    BY <2>3 DEF Stranded, SleepInv
  <2>5. QED BY <2>2, <2>4 DEF Waker, Runner
<1>4. QED BY <1>1, <1>2, <1>3, Invariance, PTL DEF Spec
=============================================================================
