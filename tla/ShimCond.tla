------------------------------ MODULE ShimCond ------------------------------
(***************************************************************************)
(* musl's private condition variable on the enclave's futex.  A waiter     *)
(* puts a node that lives on its stack into the list of the condition      *)
(* variable and sleeps on the node's barrier.  A signal or a broadcast     *)
(* takes nodes off the list, oldest first, and opens the barrier of the    *)
(* first; every woken waiter, once it has the mutex again, opens the       *)
(* barrier of the one behind it and has the kernel requeue that one.       *)
(*                                                                         *)
(* The mutex is the lock of MutexLock.  c->_c_lock is held while `held' is *)
(* not NULL; what it guards in one piece is one step.  A waiter's name is  *)
(* its node and the address of its barrier, a signaller's the address of   *)
(* its ref.                                                                *)
(***************************************************************************)
EXTENDS FutexShim, Integers

CONSTANTS
  Waiters,      \* threads that wait
  Signallers,   \* threads that signal or broadcast
  Rounds,       \* bound: how often each waiter waits
  Signals       \* bound: how often each signaller signals

ASSUME CondAssumption ==
  /\ Threads = Waiters \cup Signallers
  /\ Waiters \cap Signallers = {}
  /\ Addrs = Threads
\* A word can hold the states of a barrier and the number of all waiters.
ASSUME WordsAssumption ==
  /\ IsFiniteSet(Waiters)
  /\ {1, 2} \cup 0 .. Cardinality(Waiters) \subseteq Values
ASSUME BoundAssumption == Rounds \in Nat /\ Signals \in Nat

VARIABLES
  owner,          \* the owner of the mutex
  mWaiters,       \* what the condition variable adds to m->_m_waiters
  held,           \* the holder of c->_c_lock
  head, tail,     \* c->_c_head, the newest node, and c->_c_tail, the oldest
  prev, next,     \* the newer and the older neighbour of a node
  state, notify,  \* a node's state and the signaller waiting for it to leave
  pc,             \* where a thread is
  at, n, first,   \* a signaller's p, n and first
  todo,           \* the waits or signals a thread has left
  left            \* history variable: sleepers that a requeue was meant for

listVars == <<held, head, tail, prev, next, notify>>
walkVars == <<at, n, first>>
condVars == <<owner, mWaiters, listVars, state, pc, walkVars, todo, left>>
vars == <<futexVars, condVars>>

Mutex == INSTANCE MutexLock

Closed == 2     \* a barrier, while somebody may sleep on it

Init ==
  /\ FutexInit /\ key = [t \in Threads |-> t]
  /\ Mutex!Init
  /\ mWaiters = 0
  /\ held = NULL /\ head = NULL /\ tail = NULL
  /\ prev   = [t \in Waiters |-> NULL]
  /\ next   = [t \in Waiters |-> NULL]
  /\ state  = [t \in Waiters |-> "waiting"]
  /\ notify = [t \in Waiters |-> NULL]
  /\ pc     = [t \in Threads |-> "idle"]
  /\ at     = [s \in Signallers |-> NULL]
  /\ n      = [s \in Signallers |-> 0]
  /\ first  = [s \in Signallers |-> NULL]
  /\ todo   = [t \in Threads |-> IF t \in Waiters THEN Rounds ELSE Signals]
  /\ left   = {}

Goto(t, l) == pc' = [pc EXCEPT ![t] = l]
Put(a, v)  == word' = [word EXCEPT ![a] = v]
-----------------------------------------------------------------------------
(* pthread_cond_timedwait, up to the wait *)

LockMutex(t) ==
  /\ pc[t] = "idle" /\ todo[t] > 0
  /\ Mutex!Acquire(t)
  /\ todo' = [todo EXCEPT ![t] = @ - 1]
  /\ Goto(t, "locked")
  /\ UNCHANGED <<futexVars, mWaiters, listVars, state, walkVars, left>>

\* The node goes to the head of the list, its barrier closed.
Enlist(t) ==
  /\ pc[t] = "locked" /\ held = NULL
  /\ Put(t, Closed)
  /\ state'  = [state EXCEPT ![t] = "waiting"]
  /\ notify' = [notify EXCEPT ![t] = NULL]
  /\ next'   = [next EXCEPT ![t] = head]
  /\ prev'   = [u \in Waiters |-> IF u = t THEN NULL
                                  ELSE IF tail # NULL /\ u = head THEN t ELSE prev[u]]
  /\ head' = t
  /\ tail' = IF tail = NULL THEN t ELSE tail
  /\ Goto(t, "enlisted")
  /\ UNCHANGED <<tableVars, callVars, owner, mWaiters, held, walkVars, todo, left>>

\* __pthread_mutex_unlock(m)
UnlockMutex(t) ==
  /\ pc[t] = "enlisted"
  /\ Mutex!Release(t)
  /\ Goto(t, "wait")
  /\ UNCHANGED <<futexVars, mWaiters, listVars, state, walkVars, todo, left>>

\* __timedwait_cp(&node.barrier, 2, ...), which makes no call when its deadline
\* has passed ...
Wait(t) ==
  /\ pc[t] = "wait"
  /\ Call(t, "wait", t, Closed)
  /\ Goto(t, "waiting")
  /\ UNCHANGED <<word, owner, mWaiters, listVars, state, walkVars, todo, left>>

Late(t) ==
  /\ pc[t] = "wait"
  /\ Goto(t, "decide")
  /\ UNCHANGED <<futexVars, owner, mWaiters, listVars, state, walkVars, todo, left>>

\* ... and which the kernel can end with ETIMEDOUT.
TimeOut(t) ==
  /\ pc[t] = "waiting"
  /\ Expire(t)
  /\ Goto(t, "expired")
  /\ UNCHANGED <<owner, mWaiters, listVars, state, walkVars, todo, left>>

\* while (*fut == seq && !e)
Waited(t) ==
  /\ pc[t] \in {"waiting", "expired"}
  /\ Finish(t)
  /\ Goto(t, IF pc[t] = "waiting" /\ word[t] = Closed THEN "wait" ELSE "decide")
  /\ left' = left \ {t}
  /\ UNCHANGED <<word, owner, mWaiters, listVars, state, walkVars, todo>>

-----------------------------------------------------------------------------
(* ... and after it *)

\* a_cas(&node.state, WAITING, LEAVING)
Decide(t) ==
  /\ pc[t] = "decide"
  /\ \/ /\ state[t] = "waiting"
        /\ state' = [state EXCEPT ![t] = "leaving"]
        /\ Goto(t, "leave")
     \/ /\ state[t] = "signaled"
        /\ Goto(t, "lock")
        /\ UNCHANGED state
  /\ UNCHANGED <<futexVars, owner, mWaiters, listVars, walkVars, todo, left>>

\* The node leaves the list.
Unlink(t) ==
  /\ pc[t] = "leave" /\ held = NULL
  /\ head' = IF head = t THEN next[t] ELSE head
  /\ next' = IF head # t /\ prev[t] # NULL THEN [next EXCEPT ![prev[t]] = next[t]] ELSE next
  /\ tail' = IF tail = t THEN prev[t] ELSE tail
  /\ prev' = IF tail # t /\ next[t] # NULL THEN [prev EXCEPT ![next[t]] = prev[t]] ELSE prev
  /\ Goto(t, "notify")
  /\ UNCHANGED <<futexVars, owner, mWaiters, held, notify, state, walkVars, todo, left>>

\* a_fetch_add(node.notify, -1), and a wake if that was the last
Notify(t) ==
  /\ pc[t] = "notify"
  /\ IF notify[t] = NULL
     THEN Goto(t, "relock") /\ UNCHANGED word
     ELSE /\ Put(notify[t], word[notify[t]] - 1)
          /\ Goto(t, IF word[notify[t]] = 1 THEN "wakenotify" ELSE "relock")
  /\ UNCHANGED <<tableVars, callVars, owner, mWaiters, listVars, state, walkVars, todo, left>>

WakeNotify(t) ==
  /\ pc[t] = "wakenotify"
  /\ Call(t, "wake", notify[t], 0)
  /\ Goto(t, "wakingnotify")
  /\ UNCHANGED <<word, owner, mWaiters, listVars, state, walkVars, todo, left>>

\* Mutant of LockBarrier: the waiter does not wait for its turn.
LockBarrierNot(t) ==
  /\ pc[t] = "lock"
  /\ Goto(t, "relock")
  /\ UNCHANGED <<futexVars, owner, mWaiters, listVars, state, walkVars, todo, left>>
\* lock(&node.barrier): a_cas(l, 0, 1), else a_cas(l, 1, 2) ...
LockBarrier(t) ==
  /\ pc[t] = "lock"
  /\ IF word[t] = 0 THEN Put(t, 1) /\ Goto(t, "relock")
                    ELSE Put(t, Closed) /\ Goto(t, "block")
  /\ UNCHANGED <<tableVars, callVars, owner, mWaiters, listVars, state, walkVars, todo, left>>

\* ... then __wait(l, 0, 2, 1) while it is 2 ...
Block(t) ==
  /\ pc[t] = "block" /\ word[t] = Closed
  /\ Call(t, "wait", t, Closed)
  /\ Goto(t, "blocked")
  /\ UNCHANGED <<word, owner, mWaiters, listVars, state, walkVars, todo, left>>

Blocked(t) ==
  /\ pc[t] = "blocked"
  /\ Finish(t)
  /\ Goto(t, "block")
  /\ left' = left \ {t}
  /\ UNCHANGED <<word, owner, mWaiters, listVars, state, walkVars, todo>>

\* ... and a_cas(l, 0, 2); a failure goes back to the wait.
Unblock(t) ==
  /\ pc[t] = "block" /\ word[t] = 0
  /\ Put(t, Closed)
  /\ Goto(t, "relock")
  /\ UNCHANGED <<tableVars, callVars, owner, mWaiters, listVars, state, walkVars, todo, left>>

\* pthread_mutex_lock(m), from a wake of notify too
Woken(t) ==
  /\ pc[t] = "wakingnotify"
  /\ Finish(t)
  /\ Goto(t, "relock")
  /\ UNCHANGED <<word, owner, mWaiters, listVars, state, walkVars, todo, left>>

Relock(t) ==
  /\ pc[t] = "relock"
  /\ Mutex!Acquire(t)
  /\ Goto(t, IF state[t] = "leaving" THEN "done" ELSE "settle")
  /\ UNCHANGED <<futexVars, mWaiters, listVars, state, walkVars, todo, left>>

\* Mutant of Settle: the last of a group leaves its waiter counted.
SettleUp(t) ==
  /\ pc[t] = "settle"
  /\ mWaiters' = mWaiters + (IF next[t] = NULL THEN 1 ELSE 0)
  /\ Goto(t, IF prev[t] = NULL THEN "done" ELSE "pass")
  /\ UNCHANGED <<futexVars, owner, listVars, state, walkVars, todo, left>>
\* a_inc(&m->_m_waiters) for the oldest of a group, a_dec for its newest
Settle(t) ==
  /\ pc[t] = "settle"
  /\ mWaiters' = mWaiters + (IF next[t] = NULL THEN 1 ELSE 0) - (IF prev[t] = NULL THEN 1 ELSE 0)
  /\ Goto(t, IF prev[t] = NULL THEN "done" ELSE "pass")
  /\ UNCHANGED <<futexVars, owner, listVars, state, walkVars, todo, left>>

\* unlock_requeue(&node.prev->barrier, &m->_m_lock, 0)
Pass(t) ==
  /\ pc[t] = "pass"
  /\ Put(prev[t], 0)
  /\ Goto(t, "requeue")
  /\ UNCHANGED <<tableVars, callVars, owner, mWaiters, listVars, state, walkVars, todo, left>>

Requeue(t) ==
  /\ pc[t] = "requeue"
  /\ Call(t, "requeue", prev[t], 0)
  /\ Goto(t, "requeueing")
  /\ UNCHANGED <<word, owner, mWaiters, listVars, state, walkVars, todo, left>>

\* ocall_syscall gives the kernel the address of the buffer arg5 for the second
\* word, and the address of arg7 for the number to move: sleepers go to a queue
\* that nobody wakes, or, should that number be negative, stay where they are.
Move(t) ==
  /\ At(t, "kernel") /\ op[t] = "requeue"
  /\ asleep' \in {asleep, [asleep EXCEPT ![out[t]] = {}]}
  /\ left' = left \cup asleep[out[t]]
  /\ To(t, "return")
  /\ Meets(t, FALSE)
  /\ UNCHANGED <<tableVars, word, outWord, op, val, tmp,
                 owner, mWaiters, listVars, state, pc, walkVars, todo>>

Requeued(t) ==
  /\ pc[t] = "requeueing"
  /\ Finish(t)
  /\ Goto(t, "done")
  /\ UNCHANGED <<word, owner, mWaiters, listVars, state, walkVars, todo, left>>

\* The caller gives the mutex back.
Done(t) ==
  /\ pc[t] = "done"
  /\ Mutex!Release(t)
  /\ Goto(t, "idle")
  /\ UNCHANGED <<futexVars, mWaiters, listVars, state, walkVars, todo, left>>
-----------------------------------------------------------------------------
(* __private_cond_signal *)

\* k is 1 for pthread_cond_signal and -1 for pthread_cond_broadcast
Signal(s, k) ==
  /\ pc[s] = "idle" /\ todo[s] > 0 /\ held = NULL
  /\ todo' = [todo EXCEPT ![s] = @ - 1]
  /\ held' = s
  /\ at' = [at EXCEPT ![s] = tail]
  /\ n'  = [n EXCEPT ![s] = k]
  /\ first' = [first EXCEPT ![s] = NULL]
  /\ Put(s, 0)
  /\ Goto(s, "walk")
  /\ UNCHANGED <<tableVars, callVars, owner, mWaiters, head, tail, prev, next, notify, state, left>>

Walking(s) == pc[s] = "walk" /\ n[s] # 0 /\ at[s] # NULL

\* a_cas(&p->state, WAITING, SIGNALED), which takes the node ...
TakeNode(s) ==
  /\ Walking(s) /\ state[at[s]] = "waiting"
  /\ state' = [state EXCEPT ![at[s]] = "signaled"]
  /\ n'     = [n EXCEPT ![s] = IF @ = 1 THEN 0 ELSE @]
  /\ first' = [first EXCEPT ![s] = IF @ = NULL THEN at[s] ELSE @]
  /\ at'    = [at EXCEPT ![s] = prev[@]]
  /\ UNCHANGED <<futexVars, owner, mWaiters, listVars, pc, todo, left>>

\* Mutant of PassOver: the leaving node is not counted.
PassOverUncounted(s) ==
  /\ Walking(s) /\ state[at[s]] # "waiting"
  /\ notify' = [notify EXCEPT ![at[s]] = s]
  /\ at'     = [at EXCEPT ![s] = prev[@]]
  /\ UNCHANGED <<futexVars, owner, mWaiters, held, head, tail, prev, next, state, pc,
                 n, first, todo, left>>
\* ... or finds it leaving.
PassOver(s) ==
  /\ Walking(s) /\ state[at[s]] # "waiting"
  /\ Put(s, word[s] + 1)
  /\ notify' = [notify EXCEPT ![at[s]] = s]
  /\ at'     = [at EXCEPT ![s] = prev[@]]
  /\ UNCHANGED <<tableVars, callVars, owner, mWaiters, held, head, tail, prev, next, state, pc,
                 n, first, todo, left>>

\* Mutant of Split: the rest of the list keeps its tie to the nodes taken.
SplitNot(s) ==
  /\ pc[s] = "walk" /\ (n[s] = 0 \/ at[s] = NULL)
  /\ tail' = at[s]
  /\ head' = IF at[s] = NULL THEN NULL ELSE head
  /\ held' = NULL
  /\ Goto(s, "drain")
  /\ UNCHANGED <<futexVars, owner, mWaiters, prev, next, notify, state, walkVars, todo, left>>
\* The rest stays on the condition variable, the nodes taken are cut off.
Split(s) ==
  /\ pc[s] = "walk" /\ (n[s] = 0 \/ at[s] = NULL)
  /\ tail' = at[s]
  /\ IF at[s] = NULL
     THEN head' = NULL /\ UNCHANGED <<prev, next>>
     ELSE /\ prev' = IF next[at[s]] = NULL THEN prev ELSE [prev EXCEPT ![next[at[s]]] = NULL]
          /\ next' = [next EXCEPT ![at[s]] = NULL]
          /\ UNCHANGED head
  /\ held' = NULL
  /\ Goto(s, "drain")
  /\ UNCHANGED <<futexVars, owner, mWaiters, notify, state, walkVars, todo, left>>

\* while ((cur = ref)) __wait(&ref, 0, cur, 1)
Drain(s) ==
  /\ pc[s] = "drain" /\ word[s] # 0
  /\ Call(s, "wait", s, word[s])
  /\ Goto(s, "draining")
  /\ UNCHANGED <<word, owner, mWaiters, listVars, state, walkVars, todo, left>>

Drained(s) ==
  /\ pc[s] = "draining"
  /\ Finish(s)
  /\ Goto(s, "drain")
  /\ UNCHANGED <<word, owner, mWaiters, listVars, state, walkVars, todo, left>>

\* Mutant of Proceed: the nodes that are leaving are not waited for.
ProceedAtOnce(s) ==
  /\ pc[s] = "drain"
  /\ Goto(s, IF first[s] = NULL THEN "idle" ELSE "free")
  /\ UNCHANGED <<futexVars, owner, mWaiters, listVars, state, walkVars, todo, left>>
Proceed(s) ==
  /\ pc[s] = "drain" /\ word[s] = 0
  /\ Goto(s, IF first[s] = NULL THEN "idle" ELSE "free")
  /\ UNCHANGED <<futexVars, owner, mWaiters, listVars, state, walkVars, todo, left>>

\* Mutant of Free: the barrier is opened and nobody woken.
FreeOnly(s) ==
  /\ pc[s] = "free"
  /\ Put(first[s], 0)
  /\ Goto(s, "idle")
  /\ UNCHANGED <<tableVars, callVars, owner, mWaiters, listVars, state, walkVars, todo, left>>
\* unlock(&first->barrier): a_swap, and a wake if it was 2
Free(s) ==
  /\ pc[s] = "free"
  /\ Put(first[s], 0)
  /\ Goto(s, IF word[first[s]] = Closed THEN "wakefirst" ELSE "idle")
  /\ UNCHANGED <<tableVars, callVars, owner, mWaiters, listVars, state, walkVars, todo, left>>

WakeFirst(s) ==
  /\ pc[s] = "wakefirst"
  /\ Call(s, "wake", first[s], 0)
  /\ Goto(s, "wakingfirst")
  /\ UNCHANGED <<word, owner, mWaiters, listVars, state, walkVars, todo, left>>

WokeFirst(s) ==
  /\ pc[s] = "wakingfirst"
  /\ Finish(s)
  /\ Goto(s, "idle")
  /\ UNCHANGED <<word, owner, mWaiters, listVars, state, walkVars, todo, left>>

WaiterStep(t) ==
  \/ LockMutex(t) \/ Enlist(t) \/ UnlockMutex(t)
  \/ Wait(t) \/ Late(t) \/ TimeOut(t) \/ Waited(t)
  \/ Decide(t) \/ Unlink(t) \/ Notify(t) \/ WakeNotify(t) \/ Woken(t)
  \/ LockBarrier(t) \/ Block(t) \/ Blocked(t) \/ Unblock(t)
  \/ Relock(t) \/ Settle(t) \/ Pass(t) \/ Requeue(t) \/ Move(t) \/ Requeued(t) \/ Done(t)

SignallerStep(s) ==
  \/ \E k \in {1, -1} : Signal(s, k)
  \/ TakeNode(s) \/ PassOver(s) \/ Split(s)
  \/ Drain(s) \/ Drained(s) \/ Proceed(s)
  \/ Free(s) \/ WakeFirst(s) \/ WokeFirst(s)

Next ==
  \/ \E t \in Waiters : WaiterStep(t)
  \/ \E s \in Signallers : SignallerStep(s)
  \/ \E t \in Threads : FutexStep(t) /\ UNCHANGED condVars

Spec == Init /\ [][Next]_vars
-----------------------------------------------------------------------------
\* The types of the state.
TypeOK ==
  /\ FutexTypeOK
  /\ owner \in Waiters \cup {NULL}
  /\ mWaiters \in Int
  /\ held \in Signallers \cup {NULL}
  /\ {head, tail} \subseteq Waiters \cup {NULL}
  /\ {prev, next} \subseteq [Waiters -> Waiters \cup {NULL}]
  /\ state \in [Waiters -> {"waiting", "leaving", "signaled"}]
  /\ notify \in [Waiters -> Signallers \cup {NULL}]
  /\ {at, first} \subseteq [Signallers -> Waiters \cup {NULL}]
  /\ n \in [Signallers -> {-1, 0, 1}]
  /\ todo \in [Threads -> Nat]
  /\ left \subseteq Waiters

InWait(t)  == pc[t] \in {"enlisted", "wait", "waiting", "expired", "decide"}
Blocking(t) == InWait(t) \/ pc[t] \in {"lock", "block", "blocked"}

\* A node is on the condition variable's list from Enlist to Unlink, or until a
\* signal takes it.
Listed(t) == \/ state[t] = "waiting" /\ InWait(t)
             \/ state[t] = "leaving" /\ pc[t] = "leave"

\* A waiter that a signal has taken and whose turn has not come.
Queued(t) == state[t] = "signaled" /\ Blocking(t)

\* One that has still to open the barrier behind it.
Before(t) == state[t] = "signaled" /\ (Blocking(t) \/ pc[t] \in {"relock", "settle", "pass"})

\* The frame of a waiter's node, and of a signaller's ref; at `done' a waiter is
\* through with its node.
OnFrame(t) == pc[t] \notin {"idle", "locked", "done"}

\* Nodes are on the stacks of their threads, and so is a signaller's ref.  No
\* pointer that musl is still to follow leads into a frame that is gone, however
\* timeouts, signals and broadcasts interleave; nor does the word that the shim
\* loads for a wait or a requeue: a waiter whose barrier was opened for it cannot
\* leave before the requeue is over, as the other still owns the mutex.  Only the
\* load for a wake may lead into one that is gone: musl wakes after it has opened
\* a barrier or given up a ref, where the kernel would not look at the word.
NoDangling ==
  /\ \A t \in {head, tail} \ {NULL} : Listed(t) \/ held # NULL
  /\ \A t \in Waiters : pc[t] = "leave" => \A u \in {prev[t], next[t]} \ {NULL} : Listed(u) \/ Before(u)
  /\ \A t \in Waiters : notify[t] # NULL /\ pc[t] \in {"leave", "notify"} /\ state[t] = "leaving" =>
       pc[notify[t]] \in {"walk", "drain", "draining"}
  /\ \A s \in Signallers : pc[s] = "free" /\ first[s] # NULL => Queued(first[s])
  /\ \A t \in Waiters : pc[t] \in {"pass", "requeue"} => OnFrame(prev[t])
  /\ \A t \in Threads : fpc[t] = "load" /\ op[t] # "wake" => OnFrame(key[t])

\* The waiters that one broadcast takes get the mutex one after the other, the
\* oldest first: as long as one has not passed the turn on, the next is behind
\* its closed barrier.  And while a leaving node could still be between them,
\* nobody's turn has come.
InTurn ==
  \A t \in Waiters : Before(t) /\ prev[t] # NULL =>
    \/ Queued(prev[t]) /\ word[prev[t]] = Closed
    \/ Listed(prev[t]) /\ Blocking(t) /\ word[t] = Closed

\* The waiter that a group adds to the mutex is taken off again with its last
\* member: nothing is left counted when nobody is inside.
CountBalanced ==
  /\ mWaiters >= 0
  /\ (\A t \in Waiters : ~Before(t)) => mWaiters = 0

\* Someone on the way to wake t.
Waking(t) == \E u \in Threads \ {t} : fpc[u] # "none" /\ op[u] \in {"wake", "requeue"} /\ key[u] = t
Opening(t) ==
  \/ \E s \in Signallers : pc[s] = "wakefirst" /\ first[s] = t
  \/ \E u \in Waiters : pc[u] = "requeue" /\ prev[u] = t

\* A waiter whose turn has come does not sleep on, unless a call met one of the
\* races of the copied word, or it slept when the waiter before it had it
\* requeued: the shim loses every thread that is requeued, and no other.
AsleepByRaceOrRequeue ==
  \A t \in Waiters :
    fpc[t] = "asleep" /\ word[t] = 0 /\ ~Waking(t) /\ ~Opening(t) => raced \/ t \in left

=============================================================================
