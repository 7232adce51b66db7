--------------------------- MODULE ShimCondProofs ---------------------------
(***************************************************************************)
(* Theorems about ShimCond, for any number of waiters and signallers, of   *)
(* waits and of signals.                                                   *)
(***************************************************************************)
EXTENDS ShimCond, FutexShimProofs, FiniteSetTheorems

USE CondAssumption, WordsAssumption, BoundAssumption, ValuesAssumption, NULLAssumption

WaiterLabels == {"idle", "locked", "enlisted", "wait", "waiting", "expired", "decide",
                 "leave", "notify", "wakenotify", "wakingnotify", "lock", "block", "blocked",
                 "relock", "settle", "pass", "requeue", "requeueing", "done"}
SignallerLabels == {"idle", "walk", "drain", "draining", "free", "wakefirst", "wakingfirst"}

\* The types, and who is where.
Typed ==
  /\ FutexInv
  /\ owner \in Waiters \cup {NULL}
  /\ mWaiters \in Int
  /\ held \in Signallers \cup {NULL}
  /\ head \in Waiters \cup {NULL} /\ tail \in Waiters \cup {NULL}
  /\ prev \in [Waiters -> Waiters \cup {NULL}] /\ next \in [Waiters -> Waiters \cup {NULL}]
  /\ state \in [Waiters -> {"waiting", "leaving", "signaled"}]
  /\ notify \in [Waiters -> Signallers \cup {NULL}]
  /\ at \in [Signallers -> Waiters \cup {NULL}] /\ first \in [Signallers -> Waiters \cup {NULL}]
  /\ n \in [Signallers -> {-1, 0, 1}]
  /\ todo \in [Threads -> Nat]
  /\ left \subseteq Waiters
  /\ pc \in [Threads -> WaiterLabels \cup SignallerLabels]
  /\ \A t \in Waiters : pc[t] \in WaiterLabels
  /\ \A s \in Signallers : pc[s] \in SignallerLabels

\* What the place of a thread says of its node, or of its walk.
StateInv ==
  /\ \A t \in Waiters :
       /\ InWait(t) => state[t] # "leaving"
       /\ pc[t] \in {"leave", "notify", "wakenotify", "wakingnotify"} => state[t] = "leaving"
       /\ pc[t] \in {"lock", "block", "blocked", "settle", "pass", "requeue", "requeueing"} =>
            state[t] = "signaled"
       /\ pc[t] = "relock" => state[t] # "waiting"
       /\ pc[t] = "wakenotify" => notify[t] # NULL
  /\ \A s \in Signallers :
       /\ pc[s] = "walk" <=> held = s
       /\ pc[s] \in {"free", "wakefirst", "wakingfirst"} => first[s] # NULL

\* The barrier of a waiter that no signal has taken is closed, and the waiter
\* owes nobody a decrement.
BarrierInv ==
  \A t \in Waiters : state[t] = "waiting" /\ InWait(t) => notify[t] = NULL /\ word[t] = Closed

\* A node that another may still follow a pointer to.
In(t) == Listed(t) \/ Before(t)

\* Neighbours agree.  A pointer to the older neighbour counts only while the node
\* is on a list: that neighbour goes first and leaves a stale pointer behind.
LinkInv ==
  \A t, u \in Waiters :
    /\ In(t) /\ prev[t] = u => In(u) /\ next[u] = t
    /\ Listed(t) /\ next[t] = u => In(u) /\ prev[u] = t

\* The nodes no signaller has come by, and the oldest of them.
Main(t) == Listed(t) /\ notify[t] = NULL
Oldest  == IF held = NULL THEN tail ELSE at[held]

\* They are the list from head to Oldest.
ListInv ==
  /\ held = NULL => (head = NULL <=> tail = NULL)
  /\ Oldest # NULL => head # NULL
  /\ \A t \in Waiters :
       /\ t = Oldest => Main(t) /\ (held = NULL => next[t] = NULL)
       /\ t = head => (Main(t) <=> Oldest # NULL)
       /\ Main(t) => /\ prev[t] = NULL <=> t = head
                     /\ t # Oldest => next[t] # NULL
                     /\ \A u \in Waiters : u = prev[t] \/ (t # Oldest /\ u = next[t]) => Main(u)

\* A signaller that has come by nodes and not yet opened a barrier.
Taker(s) == pc[s] \in {"walk", "drain", "draining", "free"}

\* Taken, and behind a closed barrier.
Shut(t) == Queued(t) /\ word[t] = Closed

\* G[s] are the nodes that s has come by and whose turn is still to come, O[s]
\* the ones among them older than the first it took: those are all leaving.
Grouped(G, O, s) ==
  /\ ~Taker(s) => G[s] = {}
  /\ \A r \in Signallers : r # s => G[s] \cap G[r] = {}
  /\ O[s] \subseteq G[s] /\ \A t \in O[s] : Listed(t)
  /\ \A t \in Waiters :
       /\ t \in G[s] => Shut(t) \/ (Listed(t) /\ notify[t] = s)
       /\ Listed(t) /\ notify[t] = s => t \in G[s]
       /\ t \in G[s] /\ prev[t] # NULL => prev[t] \in G[s] \/ (held = s /\ prev[t] = at[s])
       /\ In(t) /\ prev[t] \in G[s] => t \in G[s]
       /\ held = s /\ t = at[s] /\ next[t] # NULL => next[t] \in G[s]
       /\ Taker(s) /\ first[s] = t => t \in G[s] /\ Shut(t)
       /\ Taker(s) /\ first[s] # NULL /\ In(t) /\ prev[t] \in O[s] \cup {first[s]} => t \in O[s]
       /\ ~ (Taker(s) /\ first[s] # NULL) /\ t \in G[s] => t \in O[s]

GroupInv ==
  \E G \in [Signallers -> SUBSET Waiters], O \in [Signallers -> SUBSET Waiters] :
    \A s \in Signallers : Grouped(G, O, s)

\* Whoever is before another one of a group finds it behind its closed barrier.
TurnInv ==
  \A t, u \in Waiters : Before(t) /\ prev[t] = u => Shut(u) \/ Listed(u)

\* A waiter that passes the turn on has somebody to pass it to.
PassInv == \A t \in Waiters : pc[t] \in {"pass", "requeue", "requeueing"} => prev[t] # NULL

\* A signaller's ref counts the nodes it found leaving, until they have left.
Leavers(s) == {t \in Waiters : pc[t] \in {"leave", "notify"} /\ notify[t] = s}
RefInv ==
  \A s \in Signallers : /\ word[s] = Cardinality(Leavers(s))
                        /\ pc[s] \notin {"walk", "drain", "draining"} => Leavers(s) = {}

\* The groups whose oldest member has settled and whose newest has not, each by
\* the member whose turn it is.
Counted ==
  {t \in Waiters : /\ Before(t)
                   /\ \/ pc[t] = "pass"
                      \/ next[t] # NULL /\ ~ \E u \in Waiters : In(u) /\ prev[u] = t}
CountInv == mWaiters = Cardinality(Counted)

\* Who calls the kernel, from where and what for.
CallsInv ==
  /\ \A t \in Waiters : fpc[t] # "none" =>
       \/ /\ pc[t] \in {"waiting", "expired", "blocked"}
          /\ op[t] = "wait" /\ key[t] = t /\ val[t] = Closed
       \/ pc[t] = "wakingnotify" /\ op[t] = "wake" /\ key[t] \in Signallers
       \/ pc[t] = "requeueing" /\ op[t] = "requeue" /\ key[t] \in Waiters
  /\ \A s \in Signallers : fpc[s] # "none" =>
       \/ pc[s] = "draining" /\ op[s] = "wait" /\ key[s] = s
       \/ pc[s] = "wakingfirst" /\ op[s] = "wake" /\ key[s] \in Waiters
  /\ \A t \in Waiters : pc[t] = "expired" => fpc[t] = "return"

\* A thread the kernel has queued sleeps on the word its lookup gave it.
SleepInv ==
  /\ \A e \in Entries : \A t \in asleep[e] : fpc[t] = "asleep" /\ out[t] = e
  /\ \A t \in Threads : fpc[t] = "asleep" => op[t] = "wait" /\ stage[t] = "have"

\* Someone whose call is still to reach the kernel and wake or requeue t.
Coming(t) ==
  \E u \in Threads : /\ fpc[u] \in {"load", "store", "kernel"}
                     /\ op[u] \in {"wake", "requeue"} /\ key[u] = t

\* Where no call met a race, a waiter that sleeps is queued on the first word of
\* its barrier, and the barrier is closed or somebody is on the way; or it was
\* lost to a requeue.
RaceInv ==
  ~raced =>
    \A t \in Waiters : fpc[t] = "asleep" =>
      /\ IsFirst(out[t], Matching(t))
      /\ t \in left \/ (t \in asleep[out[t]] /\ (word[t] = Closed \/ Opening(t) \/ Coming(t)))

ShapeInv == LinkInv /\ ListInv /\ GroupInv /\ TurnInv

IInv == /\ Typed /\ StateInv /\ BarrierInv /\ ShapeInv /\ PassInv /\ RefInv /\ CountInv
        /\ CallsInv /\ SleepInv /\ RaceInv

LEMMA Names ==
  /\ Waiters \subseteq Threads /\ Signallers \subseteq Threads /\ Addrs = Threads
  /\ \A t \in Waiters : t \notin Signallers /\ t # NULL
  /\ \A s \in Signallers : s \notin Waiters /\ s # NULL
  /\ \A t \in Threads : t \in Waiters \/ t \in Signallers
  /\ 0 \in Values /\ 1 \in Values /\ 2 \in Values
  OBVIOUS

\* The typing as a list of function spaces.
LEMMA Functions ==
  ASSUME Typed
  PROVE  /\ word \in [Addrs -> Values]
         /\ asleep \in [Entries -> SUBSET Threads]
         /\ op \in [Threads -> {"wait", "wake", "requeue", "settid"}]
         /\ fpc \in [Threads -> {"none", "load", "store", "kernel", "asleep", "return"}]
         /\ val \in [Threads -> Values]
         /\ stage \in [Threads -> {"idle", "miss", "have", "crashed"}]
         /\ key \in [Threads -> Addrs]
         /\ out \in [Threads -> Entries \cup {NULL}]
         /\ pc \in [Threads -> WaiterLabels \cup SignallerLabels]
  BY DEF Typed, FutexInv, FutexTypeOK, TableInv, TableTypeOK

LEMMA InitInv == Init => IInv
<1> SUFFICES ASSUME Init PROVE IInv
  OBVIOUS
<1>0. /\ FutexInv
      /\ \A t \in Threads : pc[t] = "idle" /\ fpc[t] = "none" /\ word[t] = 0
      /\ \A e \in Entries : asleep[e] = {}
  BY FutexInitInv DEF Init, FutexInit
<1>1. Typed
  BY <1>0 DEF Init, Typed, WaiterLabels, SignallerLabels, Mutex!Init
<1>2. StateInv
  BY <1>0, Names DEF Init, StateInv, InWait
<1>3. \A t \in Waiters : ~InWait(t) /\ ~Blocking(t) /\ ~Listed(t) /\ ~Before(t) /\ ~In(t) /\ ~Main(t)
  BY <1>0, Names DEF InWait, Blocking, Listed, Before, In, Main
<1>4. BarrierInv /\ LinkInv /\ TurnInv
  BY <1>3 DEF BarrierInv, LinkInv, TurnInv
<1>5. ListInv
  BY <1>3, Names DEF Init, ListInv, Oldest
<1>6. GroupInv
  <2> DEFINE G == [s \in Signallers |-> {}]
  <2>1. G \in [Signallers -> SUBSET Waiters]
    OBVIOUS
  <2>2. \A s \in Signallers : ~Taker(s)
    BY <1>0, Names DEF Taker
  <2>3. \A s \in Signallers : Grouped(G, G, s)
    BY <1>3, <2>2, Names DEF Init, Grouped
  <2>4. QED BY <2>1, <2>3 DEF GroupInv
<1>7. PassInv /\ CallsInv /\ SleepInv /\ RaceInv
  BY <1>0, Names DEF PassInv, CallsInv, SleepInv, RaceInv
<1>8. RefInv
  <2>1. \A s \in Signallers : Leavers(s) = {}
    BY <1>0, Names DEF Leavers
  <2>2. QED BY <1>0, <2>1, Names, FS_EmptySet DEF RefInv
<1>9. CountInv
  <2>1. Counted = {}
    BY <1>3 DEF Counted
  <2>2. QED BY <2>1, FS_EmptySet DEF CountInv, Init
<1>10. QED BY <1>1, <1>2, <1>4, <1>5, <1>6, <1>7, <1>8, <1>9 DEF IInv, ShapeInv

-----------------------------------------------------------------------------
\* What the shape of the lists depends on, beside the pointers.
SameNodes ==
  \A t \in Waiters : /\ Listed(t)' <=> Listed(t)
                     /\ Before(t)' <=> Before(t)
                     /\ Shut(t) => Shut(t)'

\* A step that moves no node and no pointer leaves the shape of the lists.
LEMMA ShapeSame ==
  ASSUME ShapeInv, UNCHANGED <<listVars, at, first>>, SameNodes
  PROVE  /\ LinkInv' /\ ListInv' /\ TurnInv'
         /\ (\A s \in Signallers : Taker(s)' <=> Taker(s)) => ShapeInv'
<1> USE DEF SameNodes, listVars
<1>0. \A t \in Waiters : (In(t)' <=> In(t)) /\ (Main(t)' <=> Main(t))
  BY DEF In, Main
<1>1. LinkInv'
  BY <1>0 DEF ShapeInv, LinkInv
<1>2. ListInv'
  BY <1>0 DEF ShapeInv, ListInv, Oldest
<1>3. ASSUME \A s \in Signallers : Taker(s)' <=> Taker(s) PROVE GroupInv'
  <2>1. PICK G \in [Signallers -> SUBSET Waiters], O \in [Signallers -> SUBSET Waiters] :
               \A s \in Signallers : Grouped(G, O, s)
    BY DEF ShapeInv, GroupInv
  <2>2. ASSUME NEW s \in Signallers PROVE Grouped(G, O, s)'
    BY <1>0, <1>3, <2>1 DEF Grouped
  <2>3. QED BY <2>2 DEF GroupInv
<1>4. TurnInv'
  BY DEF ShapeInv, TurnInv
<1>5. QED BY <1>1, <1>2, <1>3, <1>4 DEF ShapeInv

\* The steps of a waiter that move no node, outside its calls ...
WaiterOutside(t) ==
  \/ LockMutex(t) \/ UnlockMutex(t) \/ Late(t) \/ Decide(t)
  \/ LockBarrier(t) \/ Unblock(t) \/ Relock(t) \/ Done(t)
\* ... and at their ends, ...
WaiterCalls(t)   == Wait(t) \/ WakeNotify(t) \/ Block(t) \/ Requeue(t)
WaiterReturns(t) == Waited(t) \/ Woken(t) \/ Blocked(t) \/ Requeued(t)
SignallerCalls(s)   == Drain(s) \/ WakeFirst(s)
SignallerReturns(s) == Drained(s) \/ WokeFirst(s)
\* ... and the ones that do.
WaiterMoves(t) == Enlist(t) \/ Unlink(t) \/ Notify(t) \/ Settle(t) \/ Pass(t)
SignallerMoves(s) ==
  \/ \E k \in {1, -1} : Signal(s, k)
  \/ TakeNode(s) \/ PassOver(s) \/ Split(s) \/ Proceed(s) \/ Free(s)

LEMMA Steps ==
  ASSUME [Next]_vars
  PROVE  \/ \E t \in Waiters : WaiterOutside(t)
         \/ \E t \in Waiters : WaiterCalls(t)
         \/ \E t \in Waiters : WaiterReturns(t)
         \/ \E t \in Waiters : TimeOut(t)
         \/ \E t \in Waiters : Move(t)
         \/ \E t \in Waiters : WaiterMoves(t)
         \/ \E s \in Signallers : SignallerCalls(s)
         \/ \E s \in Signallers : SignallerReturns(s)
         \/ \E s \in Signallers : SignallerMoves(s)
         \/ \E t \in Threads : FutexStep(t) /\ UNCHANGED condVars
         \/ UNCHANGED vars
  BY DEF Next, WaiterStep, SignallerStep, WaiterOutside, WaiterCalls, WaiterReturns,
         SignallerCalls, SignallerReturns, WaiterMoves, SignallerMoves

\* The words a step writes.
LEMMA LeaversFinite ==
  ASSUME NEW s
  PROVE  /\ IsFiniteSet(Leavers(s)) /\ Cardinality(Leavers(s)) \in Nat
         /\ Cardinality(Leavers(s)) <= Cardinality(Waiters)
         /\ Cardinality(Waiters) \in Nat
<1>1. Leavers(s) \in SUBSET Waiters
  BY DEF Leavers
<1>2. QED BY <1>1, FS_Subset, FS_CardinalityType

\* A signaller's walk stands at a node it has not come by.
LEMMA Walk ==
  ASSUME Typed, StateInv, ListInv, NEW s \in Signallers, Walking(s)
  PROVE  /\ held = s /\ at[s] \in Waiters /\ at[s] = Oldest
         /\ \A p \in Waiters : p = at[s] => /\ Main(p) /\ Listed(p)
                                            /\ notify[p] = NULL
                                            /\ state[p] # "waiting" => pc[p] = "leave"
                                            /\ state[p] = "waiting" => InWait(p)
<1>1. held = s /\ at[s] \in Waiters
  BY DEF Walking, StateInv, Typed
<1>2. at[s] = Oldest
  BY <1>1, Names DEF Oldest
<1>3. QED BY <1>1, <1>2 DEF ListInv, Main, Listed

LEMMA NotifyCount ==
  ASSUME Typed, RefInv, NEW t \in Waiters, pc[t] = "notify", notify[t] # NULL
  PROVE  /\ notify[t] \in Signallers
         /\ word[notify[t]] \in 1 .. Cardinality(Waiters)
         /\ \A s \in Signallers : s = notify[t] =>
              /\ Cardinality(Leavers(s) \ {t}) = word[s] - 1
              /\ word[s] = 1 => Leavers(s) \ {t} = {}
<1>1. notify[t] \in Signallers
  BY DEF Typed
<1>2. ASSUME NEW s \in Signallers, s = notify[t]
      PROVE  /\ word[s] \in 1 .. Cardinality(Waiters)
             /\ Cardinality(Leavers(s) \ {t}) = word[s] - 1
             /\ word[s] = 1 => Leavers(s) \ {t} = {}
  <2>1. t \in Leavers(s) /\ word[s] = Cardinality(Leavers(s))
    BY <1>2 DEF Leavers, RefInv
  <2>2. IsFiniteSet(Leavers(s) \ {t}) /\ Cardinality(Leavers(s) \ {t}) = word[s] - 1
    BY <2>1, LeaversFinite, FS_RemoveElement
  <2>3. Cardinality(Leavers(s) \ {t}) \in Nat
    BY <2>2, FS_CardinalityType
  <2>4. word[s] \in 1 .. Cardinality(Waiters)
    BY <2>1, <2>2, <2>3, LeaversFinite
  <2>5. word[s] = 1 => Leavers(s) \ {t} = {}
    BY <2>2, FS_EmptySet
  <2>6. QED BY <2>2, <2>4, <2>5
<1>3. QED BY <1>1, <1>2

LEMMA PassOverCount ==
  ASSUME Typed, StateInv, ListInv, RefInv, NEW s \in Signallers, PassOver(s)
  PROVE  /\ word[s] + 1 \in 0 .. Cardinality(Waiters)
         /\ \A p \in Waiters : p = at[s] => /\ p \notin Leavers(s)
                                            /\ Cardinality(Leavers(s) \cup {p}) = word[s] + 1
<1>1. Walking(s)
  BY DEF PassOver
<1>2. ASSUME NEW p \in Waiters, p = at[s]
      PROVE  /\ p \notin Leavers(s)
             /\ Cardinality(Leavers(s) \cup {p}) = word[s] + 1
             /\ word[s] + 1 \in 0 .. Cardinality(Waiters)
  <2>1. p \notin Leavers(s)
    BY <1>1, <1>2, Walk, Names DEF Leavers
  <2>2. Cardinality(Leavers(s) \cup {p}) = word[s] + 1
    BY <2>1, LeaversFinite, FS_AddElement DEF RefInv
  <2>3. Leavers(s) \cup {p} \in SUBSET Waiters
    BY DEF Leavers
  <2>4. Cardinality(Leavers(s) \cup {p}) <= Cardinality(Waiters)
    BY <2>3, FS_Subset
  <2>5. word[s] \in Nat
    BY LeaversFinite DEF RefInv
  <2>6. QED BY <2>1, <2>2, <2>4, <2>5, LeaversFinite
<1>3. QED BY <1>1, <1>2, Walk

\* Every value written to a word is one a word can have.
LEMMA WordStep == ASSUME IInv, [Next]_vars PROVE word' \in [Addrs -> Values]
<1>0. Typed /\ StateInv /\ ListInv /\ RefInv /\ word \in [Addrs -> Values]
  BY Functions DEF IInv, ShapeInv
<1>1. ASSUME word' = word PROVE word' \in [Addrs -> Values]
  BY <1>0, <1>1
<1>2. ASSUME NEW a \in Addrs, NEW v \in Values, Put(a, v) PROVE word' \in [Addrs -> Values]
  BY <1>0, <1>2 DEF Put
<1>3. ASSUME NEW t \in Waiters, WaiterOutside(t) PROVE word' \in [Addrs -> Values]
  BY <1>1, <1>2, <1>3, Names
     DEF WaiterOutside, LockMutex, UnlockMutex, Late, Decide, LockBarrier, Unblock, Relock, Done,
         futexVars, Closed
<1>4. ASSUME NEW t \in Waiters,
             WaiterCalls(t) \/ WaiterReturns(t) \/ TimeOut(t) \/ Move(t)
      PROVE  word' \in [Addrs -> Values]
  BY <1>1, <1>4
     DEF WaiterCalls, WaiterReturns, Wait, WakeNotify, Block, Requeue, Waited, Woken, Blocked,
         Requeued, TimeOut, Expire, Move
<1>5. ASSUME NEW t \in Waiters, WaiterMoves(t) PROVE word' \in [Addrs -> Values]
  <2>1. CASE Enlist(t)
    BY <1>2, <2>1, Names DEF Enlist, Closed
  <2>2. CASE Unlink(t) \/ Settle(t)
    BY <1>1, <2>2 DEF Unlink, Settle, futexVars
  <2>3. CASE Pass(t)
    <3>1. prev[t] \in Addrs
      BY <1>0, <2>3, Names DEF Pass, IInv, PassInv, Typed
    <3>2. QED BY <1>2, <2>3, <3>1, Names DEF Pass
  <2>4. CASE Notify(t)
    <3>1. CASE notify[t] = NULL
      BY <1>1, <2>4, <3>1 DEF Notify
    <3>2. CASE notify[t] # NULL
      <4>1. notify[t] \in Addrs /\ word[notify[t]] - 1 \in 0 .. Cardinality(Waiters)
        BY <1>0, <2>4, <3>2, NotifyCount, Names, LeaversFinite DEF Notify
      <4>2. Put(notify[t], word[notify[t]] - 1)
        BY <2>4, <3>2 DEF Notify
      <4>3. QED BY <1>2, <4>1, <4>2
    <3>3. QED BY <3>1, <3>2
  <2>5. QED BY <1>5, <2>1, <2>2, <2>3, <2>4 DEF WaiterMoves
<1>6. ASSUME NEW s \in Signallers, SignallerCalls(s) \/ SignallerReturns(s)
      PROVE  word' \in [Addrs -> Values]
  BY <1>1, <1>6 DEF SignallerCalls, SignallerReturns, Drain, WakeFirst, Drained, WokeFirst
<1>7. ASSUME NEW s \in Signallers, SignallerMoves(s) PROVE word' \in [Addrs -> Values]
  <2>1. CASE \E k \in {1, -1} : Signal(s, k)
    BY <1>2, <2>1, Names DEF Signal
  <2>2. CASE TakeNode(s) \/ Split(s) \/ Proceed(s)
    BY <1>1, <2>2 DEF TakeNode, Split, Proceed, futexVars
  <2>3. CASE PassOver(s)
    <3>1. word[s] + 1 \in Values
      BY <1>0, <2>3, PassOverCount
    <3>2. QED BY <1>2, <2>3, <3>1, Names DEF PassOver
  <2>4. CASE Free(s)
    <3>1. first[s] \in Addrs
      BY <1>0, <2>4, Names DEF Free, StateInv, Typed
    <3>2. QED BY <1>2, <2>4, <3>1, Names DEF Free
  <2>5. QED BY <1>7, <2>1, <2>2, <2>3, <2>4 DEF SignallerMoves
<1>8. ASSUME NEW t \in Threads, FutexStep(t) PROVE word' \in [Addrs -> Values]
  BY <1>0, <1>1, <1>8, FutexStepInv DEF Typed
<1>9. CASE UNCHANGED vars
  BY <1>1, <1>9 DEF vars, futexVars
<1>10. QED
  BY <1>3, <1>4, <1>5, <1>6, <1>7, <1>8, <1>9, Steps

\* A call, its return, and what the kernel does in between keep the futex in order.
LEMMA FutexInvStep == ASSUME IInv, [Next]_vars PROVE FutexInv'
<1>0. Typed /\ FutexInv /\ word' \in [Addrs -> Values]
  BY WordStep DEF IInv, Typed
<1>1. ASSUME UNCHANGED <<tableVars, callVars>> PROVE FutexInv'
  BY <1>0, <1>1, OutsideInv
<1>2. ASSUME NEW t \in Waiters, WaiterOutside(t) \/ WaiterMoves(t) PROVE FutexInv'
  BY <1>1, <1>2
     DEF WaiterOutside, LockMutex, UnlockMutex, Late, Decide, LockBarrier, Unblock, Relock, Done,
         WaiterMoves, Enlist, Unlink, Notify, Settle, Pass, futexVars
<1>3. ASSUME NEW s \in Signallers, SignallerMoves(s) PROVE FutexInv'
  BY <1>1, <1>3
     DEF SignallerMoves, Signal, TakeNode, PassOver, Split, Proceed, Free, futexVars
<1>4. ASSUME NEW t \in Waiters, WaiterCalls(t) PROVE FutexInv'
  <2>1. CASE Wait(t) \/ Block(t)
    BY <1>0, <2>1, CallInv, Names DEF Wait, Block, Closed
  <2>2. CASE WakeNotify(t)
    <3>1. notify[t] \in Addrs
      BY <1>0, <2>2, Names DEF WakeNotify, IInv, StateInv, Typed
    <3>2. QED BY <1>0, <2>2, <3>1, CallInv, Names DEF WakeNotify
  <2>3. CASE Requeue(t)
    <3>1. prev[t] \in Addrs
      BY <1>0, <2>3, Names DEF Requeue, IInv, PassInv, Typed
    <3>2. QED BY <1>0, <2>3, <3>1, CallInv, Names DEF Requeue
  <2>4. QED BY <1>4, <2>1, <2>2, <2>3 DEF WaiterCalls
<1>5. ASSUME NEW s \in Signallers, SignallerCalls(s) PROVE FutexInv'
  <2>1. CASE Drain(s)
    <3>1. word[s] \in Values
      BY <1>0, Functions, Names
    <3>2. QED BY <1>0, <2>1, <3>1, CallInv, Names DEF Drain
  <2>2. CASE WakeFirst(s)
    <3>1. first[s] \in Addrs
      BY <1>0, <2>2, Names DEF WakeFirst, IInv, StateInv, Typed
    <3>2. QED BY <1>0, <2>2, <3>1, CallInv, Names DEF WakeFirst
  <2>3. QED BY <1>5, <2>1, <2>2 DEF SignallerCalls
<1>6. ASSUME NEW t \in Threads, Finish(t) PROVE FutexInv'
  BY <1>0, <1>6, FinishInv
<1>7. ASSUME NEW t \in Waiters, Move(t) PROVE FutexInv'
  <2>1. TableInv'
    BY <1>0, <1>7, TableStutter DEF Move, FutexInv
  <2>3. raced' \in BOOLEAN
    BY <1>0, <1>7, MeetsType DEF Move, FutexInv, FutexTypeOK
  <2>4. asleep' \in [Entries -> SUBSET Threads]
    BY <1>0, <1>7, Functions DEF Move
  <2>5. FutexTypeOK'
    BY <1>0, <1>7, <2>1, <2>3, <2>4 DEF Move, To, FutexInv, FutexTypeOK, TableInv
  <2>6. QED BY <2>1, <2>5 DEF FutexInv
<1>8. ASSUME NEW t \in Threads, FutexStep(t) PROVE FutexInv'
  BY <1>0, <1>8, FutexStepInv
<1>9. CASE UNCHANGED vars
  BY <1>1, <1>9 DEF vars, futexVars
<1>10. ASSUME NEW t \in Waiters, TimeOut(t) PROVE FutexInv'
  BY <1>0, <1>10, ExpireInv, Names DEF TimeOut
<1>11. ASSUME NEW t \in Waiters, WaiterReturns(t) PROVE FutexInv'
  BY <1>6, <1>11, Names DEF WaiterReturns, Waited, Woken, Blocked, Requeued
<1>12. ASSUME NEW s \in Signallers, SignallerReturns(s) PROVE FutexInv'
  BY <1>6, <1>12, Names DEF SignallerReturns, Drained, WokeFirst
<1>13. QED
  BY <1>2, <1>3, <1>4, <1>5, <1>7, <1>8, <1>9, <1>10, <1>11, <1>12, Steps

\* Where a step sends its thread.
LEMMA GotoType ==
  ASSUME Typed, NEW t \in Threads, NEW l, Goto(t, l),
         \/ t \in Waiters /\ l \in WaiterLabels
         \/ t \in Signallers /\ l \in SignallerLabels
  PROVE  /\ pc' \in [Threads -> WaiterLabels \cup SignallerLabels]
         /\ \A u \in Waiters : pc'[u] \in WaiterLabels
         /\ \A s \in Signallers : pc'[s] \in SignallerLabels
         /\ pc'[t] = l /\ \A u \in Threads : u # t => pc'[u] = pc[u]
<1>1. pc' = [pc EXCEPT ![t] = l] /\ pc \in [Threads -> WaiterLabels \cup SignallerLabels]
  BY DEF Goto, Typed
<1>2. l \in WaiterLabels \cup SignallerLabels
  OBVIOUS
<1>3. pc' \in [Threads -> WaiterLabels \cup SignallerLabels]
  BY <1>1, <1>2
<1>4. pc'[t] = l /\ \A u \in Threads : u # t => pc'[u] = pc[u]
  BY <1>1
<1>5. (\A u \in Waiters : pc'[u] \in WaiterLabels) /\ (\A s \in Signallers : pc'[s] \in SignallerLabels)
  BY <1>4, Names DEF Typed
<1>6. QED BY <1>3, <1>4, <1>5

PcTyped ==
  /\ pc \in [Threads -> WaiterLabels \cup SignallerLabels]
  /\ \A t \in Waiters : pc[t] \in WaiterLabels
  /\ \A s \in Signallers : pc[s] \in SignallerLabels

\* Only its own steps move a thread.
LEMMA PcStep == ASSUME IInv, [Next]_vars PROVE PcTyped'
<1>0. Typed
  BY DEF IInv
<1>1. ASSUME pc' = pc PROVE PcTyped'
  BY <1>0, <1>1 DEF Typed, PcTyped
<1>2. ASSUME NEW t \in Waiters, NEW l \in WaiterLabels, Goto(t, l) PROVE PcTyped'
  BY <1>0, <1>2, GotoType, Names DEF PcTyped
<1>3. ASSUME NEW s \in Signallers, NEW l \in SignallerLabels, Goto(s, l) PROVE PcTyped'
  BY <1>0, <1>3, GotoType, Names DEF PcTyped
<1>4. ASSUME NEW t \in Waiters, WaiterOutside(t) PROVE PcTyped'
  <2>1. \E l \in WaiterLabels : Goto(t, l)
    BY <1>4
       DEF WaiterOutside, LockMutex, UnlockMutex, Late, Decide, LockBarrier, Unblock, Relock, Done,
           WaiterLabels
  <2>2. QED BY <1>2, <2>1
<1>5. ASSUME NEW t \in Waiters, WaiterCalls(t) \/ WaiterReturns(t) \/ TimeOut(t) PROVE PcTyped'
  <2>1. \E l \in WaiterLabels : Goto(t, l)
    BY <1>5
       DEF WaiterCalls, WaiterReturns, Wait, WakeNotify, Block, Requeue, Waited, Woken, Blocked,
           Requeued, TimeOut, WaiterLabels
  <2>2. QED BY <1>2, <2>1
<1>6. ASSUME NEW t \in Waiters, WaiterMoves(t) PROVE PcTyped'
  <2>1. \E l \in WaiterLabels : Goto(t, l)
    BY <1>6 DEF WaiterMoves, Enlist, Unlink, Notify, Settle, Pass, WaiterLabels
  <2>2. QED BY <1>2, <2>1
<1>7. ASSUME NEW s \in Signallers, SignallerCalls(s) \/ SignallerReturns(s) PROVE PcTyped'
  <2>1. \E l \in SignallerLabels : Goto(s, l)
    BY <1>7 DEF SignallerCalls, SignallerReturns, Drain, WakeFirst, Drained, WokeFirst,
                SignallerLabels
  <2>2. QED BY <1>3, <2>1
<1>8. ASSUME NEW s \in Signallers, SignallerMoves(s) PROVE PcTyped'
  <2>1. pc' = pc \/ \E l \in SignallerLabels : Goto(s, l)
    BY <1>8 DEF SignallerMoves, Signal, TakeNode, PassOver, Split, Proceed, Free, SignallerLabels
  <2>2. QED BY <1>1, <1>3, <2>1
<1>9. ASSUME (\E t \in Waiters : Move(t)) \/ UNCHANGED condVars \/ UNCHANGED vars PROVE PcTyped'
  BY <1>1, <1>9 DEF Move, condVars, vars
<1>10. QED
  BY <1>4, <1>5, <1>6, <1>7, <1>8, <1>9, Steps

\* The rest of the state.
RestTyped ==
  /\ owner \in Waiters \cup {NULL}
  /\ mWaiters \in Int
  /\ held \in Signallers \cup {NULL}
  /\ head \in Waiters \cup {NULL} /\ tail \in Waiters \cup {NULL}
  /\ prev \in [Waiters -> Waiters \cup {NULL}] /\ next \in [Waiters -> Waiters \cup {NULL}]
  /\ state \in [Waiters -> {"waiting", "leaving", "signaled"}]
  /\ notify \in [Waiters -> Signallers \cup {NULL}]
  /\ at \in [Signallers -> Waiters \cup {NULL}] /\ first \in [Signallers -> Waiters \cup {NULL}]
  /\ n \in [Signallers -> {-1, 0, 1}]
  /\ todo \in [Threads -> Nat]

LEMMA RestStep == ASSUME IInv, [Next]_vars PROVE RestTyped'
<1>0. RestTyped
  BY DEF IInv, Typed, RestTyped
<1>1. ASSUME UNCHANGED <<owner, mWaiters, listVars, state, walkVars, todo>> PROVE RestTyped'
  BY <1>0, <1>1 DEF RestTyped, listVars, walkVars
<1>2. ASSUME NEW t \in Waiters, WaiterOutside(t) PROVE RestTyped'
  <2> USE Names DEF RestTyped, listVars, walkVars
  <2>1. CASE LockMutex(t)
    <3>1. todo' \in [Threads -> Nat]
      BY <1>0, <2>1 DEF LockMutex
    <3>2. QED BY <1>0, <2>1, <3>1 DEF LockMutex, Mutex!Acquire
  <2>2. CASE UnlockMutex(t) \/ Relock(t) \/ Done(t)
    BY <1>0, <2>2 DEF UnlockMutex, Relock, Done, Mutex!Acquire, Mutex!Release
  <2>3. CASE Late(t) \/ LockBarrier(t) \/ Unblock(t)
    BY <1>1, <2>3 DEF Late, LockBarrier, Unblock
  <2>4. CASE Decide(t)
    BY <1>0, <2>4 DEF Decide
  <2>5. QED BY <1>2, <2>1, <2>2, <2>3, <2>4 DEF WaiterOutside
<1>3. ASSUME NEW t \in Waiters, WaiterCalls(t) \/ WaiterReturns(t) \/ TimeOut(t) \/ Move(t)
      PROVE  RestTyped'
  BY <1>1, <1>3
     DEF WaiterCalls, WaiterReturns, Wait, WakeNotify, Block, Requeue, Waited, Woken, Blocked,
         Requeued, TimeOut, Move
<1>4. ASSUME NEW t \in Waiters, WaiterMoves(t) PROVE RestTyped'
  <2> USE DEF RestTyped, listVars, walkVars
  <2>1. CASE Enlist(t)
    BY <1>0, <2>1 DEF Enlist
  <2>2. CASE Unlink(t)
    <3>1. /\ head' \in Waiters \cup {NULL} /\ tail' \in Waiters \cup {NULL}
          /\ next' \in [Waiters -> Waiters \cup {NULL}]
          /\ prev' \in [Waiters -> Waiters \cup {NULL}]
      BY <1>0, <2>2 DEF Unlink
    <3>2. QED BY <1>0, <2>2, <3>1 DEF Unlink
  <2>3. CASE Notify(t) \/ Pass(t)
    BY <1>1, <2>3 DEF Notify, Pass
  <2>4. CASE Settle(t)
    BY <1>0, <2>4 DEF Settle
  <2>5. QED BY <1>4, <2>1, <2>2, <2>3, <2>4 DEF WaiterMoves
<1>5. ASSUME NEW s \in Signallers, SignallerCalls(s) \/ SignallerReturns(s) PROVE RestTyped'
  BY <1>1, <1>5 DEF SignallerCalls, SignallerReturns, Drain, WakeFirst, Drained, WokeFirst
<1>6. ASSUME NEW s \in Signallers, SignallerMoves(s) PROVE RestTyped'
  <2> USE DEF RestTyped, listVars, walkVars
  <2>1. CASE \E k \in {1, -1} : Signal(s, k)
    <3>1. todo' \in [Threads -> Nat]
      BY <1>0, <2>1, Names DEF Signal
    <3>2. QED BY <1>0, <2>1, <3>1 DEF Signal
  <2>2. CASE TakeNode(s)
    <3>1. at[s] \in Waiters
      BY <1>0, <2>2 DEF TakeNode, Walking
    <3>2. QED BY <1>0, <2>2, <3>1 DEF TakeNode
  <2>3. CASE PassOver(s)
    <3>1. at[s] \in Waiters
      BY <1>0, <2>3 DEF PassOver, Walking
    <3>2. QED BY <1>0, <2>3, <3>1 DEF PassOver
  <2>4. CASE Split(s)
    BY <1>0, <2>4 DEF Split
  <2>5. CASE Proceed(s) \/ Free(s)
    BY <1>1, <2>5 DEF Proceed, Free
  <2>6. QED BY <1>6, <2>1, <2>2, <2>3, <2>4, <2>5 DEF SignallerMoves
<1>7. ASSUME UNCHANGED condVars PROVE RestTyped'
  BY <1>1, <1>7 DEF condVars
<1>8. QED
  BY <1>2, <1>3, <1>4, <1>5, <1>6, <1>7, Steps DEF vars

\* A thread that the kernel has queued on the word of a call is the one whose
\* barrier, or ref, the call is about.
LEMMA SleepersOwn ==
  ASSUME Typed, CallsInv, SleepInv, NEW t \in Threads, stage[t] = "have",
         NEW u \in asleep[out[t]]
  PROVE  u = key[t] /\ u \in Threads /\ fpc[u] = "asleep" /\ out[u] = out[t] /\ out[t] \in Entries
<1>1. out[t] \in Entries
  BY DEF Typed, FutexInv, TableInv, Chosen
<1>2. u \in Threads /\ fpc[u] = "asleep" /\ out[u] = out[t]
  BY <1>1, Functions DEF SleepInv
<1>3. op[u] = "wait" /\ stage[u] = "have"
  BY <1>2 DEF SleepInv
<1>4. table[out[t]] = key[t] /\ table[out[t]] = key[u]
  BY <1>2, <1>3 DEF Typed, FutexInv, TableInv, WordIsOwn
<1>5. key[u] = u
  BY <1>2, <1>3, Names DEF CallsInv
<1>6. QED BY <1>1, <1>2, <1>4, <1>5

LEMMA LeftStep == ASSUME IInv, [Next]_vars PROVE left' \subseteq Waiters
<1>0. left \subseteq Waiters
  BY DEF IInv, Typed
<1>1. ASSUME NEW t \in Waiters, Move(t) PROVE left' \subseteq Waiters
  <2>1. stage[t] = "have" /\ key[t] \in Waiters
    BY <1>1, Names DEF Move, At, IInv, CallsInv
  <2>2. \A u \in asleep[out[t]] : u \in Waiters
    BY <2>1, SleepersOwn, Names DEF IInv
  <2>3. QED BY <1>0, <1>1, <2>2 DEF Move
<1>2. ASSUME NEW t \in Waiters,
             WaiterOutside(t) \/ WaiterCalls(t) \/ WaiterReturns(t) \/ TimeOut(t) \/ WaiterMoves(t)
      PROVE  left' \subseteq left
  BY <1>2
     DEF WaiterOutside, LockMutex, UnlockMutex, Late, Decide, LockBarrier, Unblock, Relock, Done,
         WaiterCalls, WaiterReturns, Wait, WakeNotify, Block, Requeue, Waited, Woken, Blocked,
         Requeued, TimeOut, WaiterMoves, Enlist, Unlink, Notify, Settle, Pass
<1>3. ASSUME NEW s \in Signallers, SignallerCalls(s) \/ SignallerReturns(s) \/ SignallerMoves(s)
      PROVE  left' \subseteq left
  BY <1>3
     DEF SignallerCalls, SignallerReturns, Drain, WakeFirst, Drained, WokeFirst,
         SignallerMoves, Signal, TakeNode, PassOver, Split, Proceed, Free
<1>4. QED
  BY <1>0, <1>1, <1>2, <1>3, Steps DEF vars, condVars

LEMMA TypeStep == ASSUME IInv, [Next]_vars PROVE Typed'
  BY FutexInvStep, PcStep, RestStep, LeftStep DEF Typed, PcTyped, RestTyped

\* Whose place and node a step leaves alone.
LEMMA OthersStay ==
  ASSUME IInv, NEW t \in Waiters,
         WaiterOutside(t) \/ WaiterCalls(t) \/ WaiterReturns(t) \/ TimeOut(t) \/ WaiterMoves(t)
  PROVE  /\ \A u \in Threads : u # t => pc'[u] = pc[u]
         /\ \A u \in Waiters : u # t => state'[u] = state[u] /\ notify'[u] = notify[u]
         /\ held' = held /\ first' = first
<1>1. \E l : Goto(t, l)
  BY DEF WaiterOutside, LockMutex, UnlockMutex, Late, Decide, LockBarrier, Unblock, Relock, Done,
         WaiterCalls, WaiterReturns, Wait, WakeNotify, Block, Requeue, Waited, Woken, Blocked,
         Requeued, TimeOut, WaiterMoves, Enlist, Unlink, Notify, Settle, Pass
<1>2. /\ held' = held /\ first' = first
      /\ state' = state \/ \E l : state' = [state EXCEPT ![t] = l]
      /\ notify' = notify \/ notify' = [notify EXCEPT ![t] = NULL]
  BY DEF WaiterOutside, LockMutex, UnlockMutex, Late, Decide, LockBarrier, Unblock, Relock, Done,
         WaiterCalls, WaiterReturns, Wait, WakeNotify, Block, Requeue, Waited, Woken, Blocked,
         Requeued, TimeOut, WaiterMoves, Enlist, Unlink, Notify, Settle, Pass,
         listVars, walkVars
<1>3. QED BY <1>1, <1>2 DEF Goto, IInv, Typed

LEMMA StateStep == ASSUME IInv, [Next]_vars PROVE StateInv'
<1> USE DEF StateInv, InWait
<1>0. Typed /\ StateInv /\ Typed'
  BY TypeStep DEF IInv
<1>1. ASSUME UNCHANGED <<pc, state, notify, held, first>> PROVE StateInv'
  BY <1>0, <1>1
\* A step of a waiter.
<1>2. ASSUME NEW t \in Waiters,
             \A u \in Threads : u # t => pc'[u] = pc[u],
             \A u \in Waiters : u # t => state'[u] = state[u] /\ notify'[u] = notify[u],
             held' = held /\ first' = first,
             /\ InWait(t)' => state'[t] # "leaving"
             /\ pc'[t] \in {"leave", "notify", "wakenotify", "wakingnotify"} => state'[t] = "leaving"
             /\ pc'[t] \in {"lock", "block", "blocked", "settle", "pass", "requeue", "requeueing"} =>
                  state'[t] = "signaled"
             /\ pc'[t] = "relock" => state'[t] # "waiting"
             /\ pc'[t] = "wakenotify" => notify'[t] # NULL
      PROVE  StateInv'
  BY <1>0, <1>2, Names
<1>3. ASSUME NEW t \in Waiters, WaiterOutside(t) PROVE StateInv'
  <2>1. /\ InWait(t)' => state'[t] # "leaving"
        /\ pc'[t] \in {"leave", "notify", "wakenotify", "wakingnotify"} => state'[t] = "leaving"
        /\ pc'[t] \in {"lock", "block", "blocked", "settle", "pass", "requeue", "requeueing"} =>
             state'[t] = "signaled"
        /\ pc'[t] = "relock" => state'[t] # "waiting"
        /\ pc'[t] = "wakenotify" => notify'[t] # NULL
    BY <1>0, <1>3, Names
       DEF WaiterOutside, LockMutex, UnlockMutex, Late, Decide, LockBarrier, Unblock, Relock, Done,
           Goto, Typed, WaiterLabels
  <2>2. QED BY <1>2, <1>3, <2>1, OthersStay
<1>4. ASSUME NEW t \in Waiters, WaiterCalls(t) \/ WaiterReturns(t) \/ TimeOut(t) PROVE StateInv'
  <2>1. /\ InWait(t)' => state'[t] # "leaving"
        /\ pc'[t] \in {"leave", "notify", "wakenotify", "wakingnotify"} => state'[t] = "leaving"
        /\ pc'[t] \in {"lock", "block", "blocked", "settle", "pass", "requeue", "requeueing"} =>
             state'[t] = "signaled"
        /\ pc'[t] = "relock" => state'[t] # "waiting"
        /\ pc'[t] = "wakenotify" => notify'[t] # NULL
    BY <1>0, <1>4, Names
       DEF WaiterCalls, WaiterReturns, Wait, WakeNotify, Block, Requeue, Waited, Woken, Blocked,
           Requeued, TimeOut, Goto, Typed, WaiterLabels
  <2>2. QED BY <1>2, <1>4, <2>1, OthersStay
<1>5. ASSUME NEW t \in Waiters, WaiterMoves(t) PROVE StateInv'
  <2>1. /\ InWait(t)' => state'[t] # "leaving"
        /\ pc'[t] \in {"leave", "notify", "wakenotify", "wakingnotify"} => state'[t] = "leaving"
        /\ pc'[t] \in {"lock", "block", "blocked", "settle", "pass", "requeue", "requeueing"} =>
             state'[t] = "signaled"
        /\ pc'[t] = "relock" => state'[t] # "waiting"
        /\ pc'[t] = "wakenotify" => notify'[t] # NULL
    BY <1>0, <1>5, Names
       DEF WaiterMoves, Enlist, Unlink, Notify, Settle, Pass, listVars, Goto, Typed, WaiterLabels
  <2>2. QED BY <1>2, <1>5, <2>1, OthersStay
\* A step of a signaller.
<1>6. ASSUME NEW s \in Signallers, SignallerCalls(s) \/ SignallerReturns(s) PROVE StateInv'
  BY <1>0, <1>6, Names
     DEF SignallerCalls, SignallerReturns, Drain, WakeFirst, Drained, WokeFirst,
         Goto, Typed, listVars, walkVars
<1>7. ASSUME NEW s \in Signallers, SignallerMoves(s) PROVE StateInv'
  <2>1. CASE \E k \in {1, -1} : Signal(s, k)
    BY <1>0, <2>1, Names DEF Signal, Goto, Typed
  <2>2. CASE TakeNode(s) \/ PassOver(s)
    <3>1. ListInv /\ Walking(s)
      BY <2>2 DEF IInv, ShapeInv, TakeNode, PassOver
    <3>2. PICK p \in Waiters : p = at[s]
      BY <1>0, <3>1, Walk
    <3>3. InWait(p) \/ pc[p] = "leave"
      BY <1>0, <3>1, <3>2, Walk
    <3>4. /\ pc' = pc /\ held' = held /\ s \in Signallers /\ pc[s] = "walk"
          /\ \A u \in Signallers : u # s => first'[u] = first[u]
          /\ \A u \in Waiters : u # p => state'[u] = state[u] /\ notify'[u] = notify[u]
          /\ InWait(p) => state'[p] # "leaving"
          /\ state'[p] = state[p] \/ (state[p] = "waiting" /\ state'[p] = "signaled")
      BY <1>0, <2>2, <3>1, <3>2 DEF TakeNode, PassOver, Walking, listVars, Typed
    <3>5. pc[p] = "leave" => state'[p] = "leaving"
      BY <1>0, <3>2, <3>4
    <3>6. QED BY <1>0, <3>2, <3>3, <3>4, <3>5, Names
  <2>3. CASE Split(s) \/ Proceed(s) \/ Free(s)
    BY <1>0, <2>3, Names DEF Split, Proceed, Free, Goto, Typed, listVars, walkVars
  <2>4. QED BY <1>7, <2>1, <2>2, <2>3 DEF SignallerMoves
<1>8. QED
  BY <1>1, <1>3, <1>4, <1>5, <1>6, <1>7, Steps DEF vars, condVars, listVars, walkVars, Move

\* The nodes of the threads that do not move.
LEMMA SameNode ==
  ASSUME NEW u \in Waiters, pc'[u] = pc[u], state'[u] = state[u]
  PROVE  /\ InWait(u)' <=> InWait(u)
         /\ Blocking(u)' <=> Blocking(u)
         /\ Listed(u)' <=> Listed(u)
         /\ Before(u)' <=> Before(u)
         /\ Queued(u)' <=> Queued(u)
         /\ In(u)' <=> In(u)
  BY DEF InWait, Blocking, Listed, Before, Queued, In

\* A step that moves no node, no pointer and no count.
Quiet ==
  /\ UNCHANGED <<listVars, at, first, mWaiters>>
  /\ SameNodes
  /\ \A t \in Waiters :
       /\ pc'[t] = "pass" <=> pc[t] = "pass"
       /\ (pc'[t] \in {"leave", "notify"} /\ notify[t] # NULL) <=>
          (pc[t] \in {"leave", "notify"} /\ notify[t] # NULL)
  /\ \A s \in Signallers :
       /\ Taker(s)' <=> Taker(s)
       /\ pc'[s] \in {"walk", "drain", "draining"} <=> pc[s] \in {"walk", "drain", "draining"}
       /\ word'[s] = word[s]

LEMMA QuietWaiter ==
  ASSUME IInv, NEW t \in Waiters,
         WaiterOutside(t) \/ WaiterCalls(t) \/ WaiterReturns(t) \/ TimeOut(t)
  PROVE  Quiet
<1>0. /\ Typed /\ StateInv /\ BarrierInv
      /\ word \in [Addrs -> Values] /\ pc \in [Threads -> WaiterLabels \cup SignallerLabels]
      /\ state \in [Waiters -> {"waiting", "leaving", "signaled"}]
  BY Functions DEF IInv, Typed
<1>1. /\ \A u \in Threads : u # t => pc'[u] = pc[u]
      /\ \A u \in Waiters : u # t => state'[u] = state[u] /\ notify'[u] = notify[u]
  BY OthersStay
<1>2. /\ UNCHANGED <<listVars, at, first, mWaiters>>
      /\ \A a \in Addrs : a # t => word'[a] = word[a]
  BY <1>0
     DEF WaiterOutside, LockMutex, UnlockMutex, Late, Decide, LockBarrier, Unblock, Relock, Done,
         WaiterCalls, WaiterReturns, Wait, WakeNotify, Block, Requeue, Waited, Woken, Blocked,
         Requeued, TimeOut, Expire, walkVars, futexVars, Put
<1>3. /\ Listed(t)' <=> Listed(t)
      /\ Before(t)' <=> Before(t)
      /\ pc'[t] = "pass" <=> pc[t] = "pass"
      /\ (pc'[t] \in {"leave", "notify"} /\ notify[t] # NULL) <=>
         (pc[t] \in {"leave", "notify"} /\ notify[t] # NULL)
  <2>1. CASE WaiterOutside(t)
    BY <1>0, <2>1
       DEF WaiterOutside, LockMutex, UnlockMutex, Late, Decide, LockBarrier, Unblock, Relock, Done,
           Goto, StateInv, BarrierInv, InWait, Blocking, Listed, Before
  <2>2. CASE WaiterCalls(t) \/ WaiterReturns(t) \/ TimeOut(t)
    BY <1>0, <2>2
       DEF WaiterCalls, WaiterReturns, Wait, WakeNotify, Block, Requeue, Waited, Woken, Blocked,
           Requeued, TimeOut, Goto, StateInv, InWait, Blocking, Listed, Before
  <2>3. QED BY <2>1, <2>2
<1>4. Shut(t) => Shut(t)'
  <2>1. CASE WaiterOutside(t)
    BY <1>0, <2>1, Names
       DEF WaiterOutside, LockMutex, UnlockMutex, Late, Decide, LockBarrier, Unblock, Relock, Done,
           Goto, Put, StateInv, InWait, Blocking, Queued, Shut, Closed, futexVars
  <2>2. CASE WaiterCalls(t) \/ WaiterReturns(t) \/ TimeOut(t)
    BY <1>0, <2>2
       DEF WaiterCalls, WaiterReturns, Wait, WakeNotify, Block, Requeue, Waited, Woken, Blocked,
           Requeued, TimeOut, Expire, Goto, InWait, Blocking, Queued, Shut
  <2>3. QED BY <2>1, <2>2
<1>5. ASSUME NEW u \in Waiters, u # t
      PROVE  /\ Listed(u)' <=> Listed(u)
             /\ Before(u)' <=> Before(u)
             /\ Shut(u) => Shut(u)'
             /\ pc'[u] = pc[u]
  BY <1>1, <1>2, <1>5, SameNode, Names DEF Shut
<1>6. SameNodes
  BY <1>3, <1>4, <1>5 DEF SameNodes
<1>7. \A s \in Signallers : pc'[s] = pc[s] /\ word'[s] = word[s]
  BY <1>1, <1>2, Names
<1>8. QED BY <1>2, <1>3, <1>5, <1>6, <1>7 DEF Quiet, Taker

LEMMA QuietRest ==
  ASSUME IInv,
         \/ \E t \in Waiters : Move(t)
         \/ \E s \in Signallers : SignallerCalls(s) \/ SignallerReturns(s)
         \/ \E t \in Threads : FutexStep(t) /\ UNCHANGED condVars
         \/ UNCHANGED vars
  PROVE  Quiet
<1>0. Typed
  BY DEF IInv
<1>1. UNCHANGED <<listVars, at, first, mWaiters, state>>
  BY DEF Move, SignallerCalls, SignallerReturns, Drain, WakeFirst, Drained, WokeFirst, walkVars,
         condVars, vars
<1>2. word' = word
  <2>1. ASSUME NEW t \in Threads, FutexStep(t) PROVE word' = word
    BY <1>0, <2>1, FutexStepInv DEF Typed
  <2>2. QED
    BY <2>1 DEF Move, SignallerCalls, SignallerReturns, Drain, WakeFirst, Drained, WokeFirst,
                vars, futexVars
<1>3. /\ \A t \in Waiters : pc'[t] = pc[t]
      /\ \A s \in Signallers :
           /\ Taker(s)' <=> Taker(s)
           /\ pc'[s] \in {"walk", "drain", "draining"} <=> pc[s] \in {"walk", "drain", "draining"}
  <2>1. ASSUME NEW s \in Signallers, SignallerCalls(s) \/ SignallerReturns(s)
        PROVE  /\ \A t \in Threads : t # s => pc'[t] = pc[t]
               /\ Taker(s)' <=> Taker(s)
               /\ pc'[s] \in {"walk", "drain", "draining"} <=> pc[s] \in {"walk", "drain", "draining"}
    BY <1>0, <2>1
       DEF SignallerCalls, SignallerReturns, Drain, WakeFirst, Drained, WokeFirst, Goto, Typed, Taker
  <2>2. CASE pc' = pc
    BY <2>2 DEF Taker
  <2>3. QED BY <2>1, <2>2, Names DEF Move, condVars, vars, Taker
<1>4. SameNodes
  BY <1>1, <1>2, <1>3, SameNode DEF SameNodes, Shut
<1>5. QED BY <1>1, <1>2, <1>3, <1>4, Names DEF Quiet

\* What is left when the quiet steps are set aside.
LEMMA QuietOrMove ==
  ASSUME IInv, [Next]_vars
  PROVE  \/ Quiet
         \/ \E t \in Waiters : WaiterMoves(t)
         \/ \E s \in Signallers : SignallerMoves(s)
  BY QuietWaiter, QuietRest, Steps

LEMMA CountedSame ==
  ASSUME UNCHANGED <<listVars, mWaiters>>, SameNodes,
         \A t \in Waiters : pc'[t] = "pass" <=> pc[t] = "pass",
         CountInv
  PROVE  CountInv'
<1>1. \A t \in Waiters : In(t)' <=> In(t)
  BY DEF SameNodes, In
<1>2. Counted' = Counted
  BY <1>1 DEF Counted, SameNodes, listVars
<1>3. QED BY <1>2 DEF CountInv

LEMMA QuietInv ==
  ASSUME IInv, Quiet PROVE ShapeInv' /\ RefInv' /\ CountInv'
<1>1. ShapeInv'
  BY ShapeSame DEF IInv, Quiet
<1>2. CountInv'
  BY CountedSame DEF IInv, Quiet
<1>3. RefInv'
  <2>1. ASSUME NEW s \in Signallers PROVE Leavers(s)' = Leavers(s)
    BY Names DEF Quiet, listVars, Leavers
  <2>2. QED BY <2>1 DEF Quiet, RefInv, IInv
<1>4. QED BY <1>1, <1>2, <1>3

-----------------------------------------------------------------------------
\* A node is on a list, or taken, or neither.
LEMMA Apart ==
  ASSUME NEW t \in Waiters
  PROVE  /\ Listed(t) => ~Before(t) /\ ~Shut(t)
         /\ Shut(t) => Before(t) /\ Queued(t)
         /\ Main(t) => Listed(t) /\ In(t)
         /\ In(t) <=> Listed(t) \/ Before(t)
  BY DEF Listed, Before, Shut, Queued, In, Main

\* A node with a node behind it is behind its closed barrier, or still listed.
LEMMA Behind ==
  ASSUME Typed, ShapeInv, NEW t \in Waiters, NEW u \in Waiters, In(u), prev[u] = t
  PROVE  Shut(t) \/ Listed(t)
<1>1. CASE Before(u)
  BY <1>1 DEF ShapeInv, TurnInv
<1>2. CASE Main(u)
  BY <1>2, Apart, Names DEF ShapeInv, ListInv
<1>3. CASE Listed(u) /\ ~Main(u)
  <2>1. PICK G \in [Signallers -> SUBSET Waiters], O \in [Signallers -> SUBSET Waiters] :
               \A s \in Signallers : Grouped(G, O, s)
    BY DEF ShapeInv, GroupInv
  <2>2. PICK s \in Signallers : notify[u] = s
    BY <1>3 DEF Main, Typed
  <2>3. u \in G[s] /\ prev[u] # NULL
    BY <1>3, <2>1, <2>2, Names DEF Grouped
  <2>4. t \in G[s] \/ (held = s /\ t = at[s])
    BY <2>1, <2>3 DEF Grouped
  <2>5. CASE t \in G[s]
    BY <2>1, <2>5 DEF Grouped
  <2>6. CASE held = s /\ t = at[s]
    <3>1. t = Oldest
      BY <2>6, Names DEF Oldest
    <3>2. QED BY <3>1, Apart DEF ShapeInv, ListInv
  <2>7. QED BY <2>4, <2>5, <2>6
<1>4. QED BY <1>1, <1>2, <1>3, Apart

\* Of two neighbours the older of which is taken and the newer listed, the older
\* is behind its closed barrier: nobody's turn comes before the leaving have left.
LEMMA BehindLeaver ==
  ASSUME Typed, ShapeInv, NEW t \in Waiters, NEW u \in Waiters,
         Before(t), prev[t] = u, Listed(u)
  PROVE  Shut(t)
<1>1. PICK G \in [Signallers -> SUBSET Waiters], O \in [Signallers -> SUBSET Waiters] :
             \A s \in Signallers : Grouped(G, O, s)
  BY DEF ShapeInv, GroupInv
<1>2. next[u] = t /\ In(t) /\ ~Listed(t) /\ t # NULL /\ u # NULL
  BY Apart, Names DEF ShapeInv, LinkInv
<1>3. \E s \in Signallers : t \in G[s]
  <2>1. CASE notify[u] # NULL
    <3>1. PICK s \in Signallers : notify[u] = s
      BY <2>1 DEF Typed
    <3>2. u \in G[s]
      BY <1>1, <3>1 DEF Grouped
    <3>3. QED BY <1>1, <1>2, <3>2 DEF Grouped
  <2>2. CASE notify[u] = NULL
    <3>1. Main(u) /\ ~Main(t)
      BY <1>2, <2>2, Apart DEF Main
    <3>2. u = Oldest
      BY <1>2, <3>1 DEF ShapeInv, ListInv
    <3>3. held # NULL
      BY <1>2, <3>2 DEF ShapeInv, ListInv
    <3>4. held \in Signallers /\ u = at[held]
      BY <3>2, <3>3 DEF Oldest, Typed
    <3>5. t \in G[held]
      BY <1>1, <1>2, <3>4 DEF Grouped
    <3>6. QED BY <3>4, <3>5
  <2>3. QED BY <2>1, <2>2
<1>4. QED BY <1>1, <1>2, <1>3 DEF Grouped

\* A taken node that opens the barrier behind it, or has none behind it, leaves.
LEMMA Retire ==
  ASSUME Typed, ShapeInv, NEW t \in Waiters, Before(t), ~Shut(t),
         UNCHANGED <<listVars, at, first>>,
         ~Listed(t)', ~Before(t)',
         \A u \in Waiters : u # t => /\ Listed(u)' <=> Listed(u)
                                     /\ Before(u)' <=> Before(u)
                                     /\ u # prev[t] /\ Shut(u) => Shut(u)',
         \A s \in Signallers : Taker(s)' <=> Taker(s)
  PROVE  ShapeInv'
<1> USE DEF listVars
<1>0. /\ ~Listed(t) /\ In(t) /\ ~In(t)' /\ ~Main(t) /\ ~Main(t)'
      /\ \A u \in Waiters : u # t => (In(u)' <=> In(u)) /\ (Main(u)' <=> Main(u))
  BY Apart DEF In, Main
<1>1. ASSUME NEW u \in Waiters, In(u) PROVE prev[u] # t
  BY <1>0, <1>1, Behind
<1>2. ASSUME NEW u \in Waiters, Listed(u) PROVE next[u] # t
  <2>1. next[u] = t => prev[t] = u
    BY <1>2 DEF ShapeInv, LinkInv
  <2>2. QED BY <1>2, <2>1, BehindLeaver
<1>3. LinkInv'
  BY <1>0, <1>1, <1>2 DEF ShapeInv, LinkInv
<1>4. ListInv'
  BY <1>0 DEF ShapeInv, ListInv, Oldest
<1>5. GroupInv'
  <2>1. PICK G \in [Signallers -> SUBSET Waiters], O \in [Signallers -> SUBSET Waiters] :
               \A s \in Signallers : Grouped(G, O, s)
    BY DEF ShapeInv, GroupInv
  <2>2. ASSUME NEW s \in Signallers PROVE t \notin G[s] /\ prev[t] \notin G[s]
    BY <1>0, <2>1 DEF Grouped
  <2>3. ASSUME NEW s \in Signallers PROVE Grouped(G, O, s)'
    BY <1>0, <2>1, <2>2 DEF Grouped
  <2>4. QED BY <2>3 DEF GroupInv
<1>6. TurnInv'
  <2>1. ASSUME NEW u \in Waiters, NEW w \in Waiters, Before(u)', prev[u] = w
        PROVE  Shut(w)' \/ Listed(w)'
    <3>1. u # t /\ Before(u) /\ In(u)
      BY <2>1, Apart
    <3>2. w # t /\ next[w] = u
      BY <1>1, <2>1, <3>1 DEF ShapeInv, LinkInv
    <3>3. w # prev[t]
      BY <1>0, <3>1, <3>2 DEF ShapeInv, LinkInv
    <3>4. QED BY <2>1, <3>1, <3>2, <3>3 DEF ShapeInv, TurnInv
  <2>2. QED BY <2>1 DEF TurnInv
<1>7. QED BY <1>3, <1>4, <1>5, <1>6 DEF ShapeInv

\* What a waiter that settles, or passes the turn on, does to the nodes.
LEMMA SettleNodes ==
  ASSUME IInv, NEW t \in Waiters, Settle(t)
  PROVE  /\ Before(t) /\ ~Shut(t) /\ In(t) /\ pc[t] # "pass"
         /\ UNCHANGED <<listVars, at, first, word>>
         /\ ~Listed(t)' /\ (Before(t)' <=> prev[t] # NULL)
         /\ pc'[t] = "pass" <=> prev[t] # NULL
         /\ pc'[t] \in {"pass", "done"}
         /\ \A u \in Threads : u # t => pc'[u] = pc[u]
         /\ \A u \in Waiters : u # t => /\ Listed(u)' <=> Listed(u)
                                        /\ Before(u)' <=> Before(u)
                                        /\ Shut(u) => Shut(u)'
                                        /\ In(u)' <=> In(u)
<1>0. Typed /\ StateInv
  BY DEF IInv
<1>1. /\ UNCHANGED <<listVars, at, first, word, state>>
      /\ \A u \in Threads : u # t => pc'[u] = pc[u]
      /\ pc'[t] = IF prev[t] = NULL THEN "done" ELSE "pass"
      /\ pc[t] = "settle" /\ state[t] = "signaled"
  BY <1>0, Names DEF Settle, Goto, Typed, StateInv, futexVars, walkVars
<1>2. /\ Before(t) /\ ~Shut(t) /\ In(t)
      /\ ~Listed(t)' /\ (Before(t)' <=> prev[t] # NULL)
  BY <1>1 DEF Before, Shut, Queued, Blocking, InWait, In, Listed
<1>3. QED BY <1>1, <1>2, SameNode, Names DEF Shut

LEMMA PassNodes ==
  ASSUME IInv, NEW t \in Waiters, Pass(t)
  PROVE  /\ Before(t) /\ ~Shut(t) /\ In(t) /\ pc[t] = "pass" /\ prev[t] \in Waiters
         /\ UNCHANGED <<listVars, at, first, mWaiters>>
         /\ word' = [word EXCEPT ![prev[t]] = 0]
         /\ ~Listed(t)' /\ ~Before(t)' /\ ~In(t)'
         /\ pc'[t] = "requeue"
         /\ \A u \in Threads : u # t => pc'[u] = pc[u]
         /\ \A u \in Waiters : u # t => /\ Listed(u)' <=> Listed(u)
                                        /\ Before(u)' <=> Before(u)
                                        /\ u # prev[t] /\ Shut(u) => Shut(u)'
                                        /\ In(u)' <=> In(u)
<1>0. Typed /\ StateInv /\ word \in [Addrs -> Values]
  BY Functions DEF IInv
<1>1. /\ UNCHANGED <<listVars, at, first, mWaiters, state>>
      /\ \A u \in Threads : u # t => pc'[u] = pc[u]
      /\ pc'[t] = "requeue" /\ pc[t] = "pass" /\ state[t] = "signaled"
      /\ word' = [word EXCEPT ![prev[t]] = 0]
      /\ \A u \in Waiters : u # prev[t] => word'[u] = word[u]
  BY <1>0, Names DEF Pass, Put, Goto, Typed, StateInv, walkVars
<1>2. /\ Before(t) /\ ~Shut(t) /\ In(t)
      /\ ~Listed(t)' /\ ~Before(t)' /\ ~In(t)'
  BY <1>1 DEF Before, Shut, Queued, Blocking, InWait, In, Listed
<1>3. prev[t] \in Waiters
  BY <1>0, <1>1 DEF IInv, PassInv, Typed
<1>4. QED BY <1>1, <1>2, <1>3, SameNode, Names DEF Shut

LEMMA SettleShape ==
  ASSUME IInv, NEW t \in Waiters, Settle(t) \/ Pass(t) PROVE ShapeInv'
<1>1. ASSUME NEW s \in Signallers PROVE Taker(s)' <=> Taker(s)
  BY SettleNodes, PassNodes, Names DEF Taker
<1>2. CASE Settle(t) /\ prev[t] = NULL
  BY <1>1, <1>2, SettleNodes, Retire DEF IInv
<1>3. CASE Settle(t) /\ prev[t] # NULL
  <2>1. SameNodes
    BY <1>3, SettleNodes, Apart DEF SameNodes
  <2>2. QED BY <1>1, <1>3, <2>1, SettleNodes, ShapeSame DEF IInv
<1>4. CASE Pass(t)
  BY <1>1, <1>4, PassNodes, Retire DEF IInv
<1>5. QED BY <1>2, <1>3, <1>4

LEMMA CountedFinite ==
  /\ IsFiniteSet(Counted) /\ Cardinality(Counted) \in Nat
  /\ IsFiniteSet(Counted') /\ Cardinality(Counted') \in Nat
<1>1. Counted \in SUBSET Waiters /\ Counted' \in SUBSET Waiters
  BY DEF Counted
<1>2. QED BY <1>1, FS_Subset, FS_CardinalityType

\* The count rises when the oldest of a group settles and another is behind it,
\* and falls when the newest settles that had another before it.
LEMMA SettleCount ==
  ASSUME IInv, NEW t \in Waiters, Settle(t) PROVE CountInv'
<1>0. Typed /\ ShapeInv /\ CountInv /\ mWaiters \in Int
  BY DEF IInv, Typed
<1>1. ~ \E u \in Waiters : In(u) /\ prev[u] = t
  BY <1>0, SettleNodes, Behind, Apart
<1>2. t \in Counted <=> next[t] # NULL
  BY <1>1, SettleNodes DEF Counted
<1>3. t \in Counted' <=> prev[t] # NULL
  BY SettleNodes, Names DEF Counted
<1>4. ASSUME NEW u \in Waiters, u # t PROVE u \in Counted' <=> u \in Counted
  <2>1. ASSUME NEW w \in Waiters PROVE (In(w)' /\ prev'[w] = u) <=> (In(w) /\ prev[w] = u)
    BY SettleNodes, Apart, Names DEF listVars, In
  <2>2. /\ Before(u)' <=> Before(u)
        /\ next' = next /\ pc'[u] = pc[u]
    BY <1>4, SettleNodes, Names DEF listVars
  <2>3. QED BY <2>1, <2>2 DEF Counted
<1>5. Counted \subseteq Waiters /\ Counted' \subseteq Waiters
  BY DEF Counted
<1>6. mWaiters' = mWaiters + (IF next[t] = NULL THEN 1 ELSE 0) - (IF prev[t] = NULL THEN 1 ELSE 0)
  BY DEF Settle
<1>7. CASE t \in Counted <=> t \in Counted'
  <2>1. Counted' = Counted
    BY <1>4, <1>5, <1>7
  <2>2. mWaiters' = mWaiters
    BY <1>0, <1>2, <1>3, <1>6, <1>7
  <2>3. QED BY <1>0, <2>1, <2>2 DEF CountInv
<1>8. CASE t \in Counted /\ t \notin Counted'
  <2>1. Counted' = Counted \ {t}
    BY <1>4, <1>5, <1>8
  <2>2. Cardinality(Counted') = Cardinality(Counted) - 1
    BY <1>8, <2>1, CountedFinite, FS_RemoveElement
  <2>3. mWaiters' = mWaiters - 1
    BY <1>0, <1>2, <1>3, <1>6, <1>8
  <2>4. QED BY <1>0, <2>2, <2>3 DEF CountInv
<1>9. CASE t \notin Counted /\ t \in Counted'
  <2>1. Counted' = Counted \cup {t}
    BY <1>4, <1>5, <1>9
  <2>2. Cardinality(Counted') = Cardinality(Counted) + 1
    BY <1>9, <2>1, CountedFinite, FS_AddElement
  <2>3. mWaiters' = mWaiters + 1
    BY <1>0, <1>2, <1>3, <1>6, <1>9
  <2>4. QED BY <1>0, <2>2, <2>3 DEF CountInv
<1>10. QED BY <1>7, <1>8, <1>9

\* The turn goes from one member of a group to the next, and the count stays.
LEMMA PassCount ==
  ASSUME IInv, NEW t \in Waiters, Pass(t) PROVE CountInv'
<1>0. Typed /\ ShapeInv /\ CountInv
  BY DEF IInv
<1>1. PICK v \in Waiters : prev[t] = v
  BY PassNodes
<1>2. t \in Counted /\ t \notin Counted'
  BY PassNodes DEF Counted
<1>3. Shut(v) /\ next[v] = t /\ v # t
  <2>1. Shut(v) \/ Listed(v)
    BY <1>0, <1>1, PassNodes, Behind
  <2>2. QED
    BY <1>0, <1>1, <2>1, PassNodes, BehindLeaver DEF ShapeInv, LinkInv
<1>4. Before(v) /\ pc[v] # "pass"
  BY <1>3 DEF Shut, Queued, Before, Blocking, InWait
<1>5. v \notin Counted
  BY <1>1, <1>4, PassNodes DEF Counted
<1>6. v \in Counted'
  <2>1. ~ \E u \in Waiters : In(u)' /\ prev'[u] = v
    BY <1>0, <1>3, PassNodes DEF ShapeInv, LinkInv, listVars
  <2>2. Before(v)' /\ next'[v] # NULL
    BY <1>3, <1>4, PassNodes, Names DEF listVars
  <2>3. QED BY <2>1, <2>2 DEF Counted
<1>7. ASSUME NEW u \in Waiters, u # t, u # v PROVE u \in Counted' <=> u \in Counted
  <2>1. ASSUME NEW w \in Waiters PROVE (In(w)' /\ prev'[w] = u) <=> (In(w) /\ prev[w] = u)
    BY <1>1, <1>7, PassNodes DEF listVars
  <2>2. /\ Before(u)' <=> Before(u)
        /\ next' = next /\ pc'[u] = pc[u]
    BY <1>7, PassNodes, Names DEF listVars
  <2>3. QED BY <2>1, <2>2 DEF Counted
<1>8. Counted \subseteq Waiters /\ Counted' \subseteq Waiters
  BY DEF Counted
<1>9. Counted' = (Counted \ {t}) \cup {v} /\ v \notin Counted \ {t}
  BY <1>2, <1>3, <1>5, <1>6, <1>7, <1>8
<1>10. IsFiniteSet(Counted \ {t}) /\ Cardinality(Counted \ {t}) = Cardinality(Counted) - 1
  BY <1>2, CountedFinite, FS_RemoveElement
<1>11. Cardinality(Counted') = (Cardinality(Counted) - 1) + 1
  BY <1>9, <1>10, FS_AddElement
<1>12. mWaiters' = mWaiters
  BY PassNodes
<1>13. QED BY <1>0, <1>11, <1>12, CountedFinite DEF CountInv

LEMMA SettleRef ==
  ASSUME IInv, NEW t \in Waiters, Settle(t) \/ Pass(t) PROVE RefInv'
<1>1. ASSUME NEW s \in Signallers
      PROVE  Leavers(s)' = Leavers(s) /\ pc'[s] = pc[s] /\ word'[s] = word[s]
  <2>1. /\ pc[t] \notin {"leave", "notify"} /\ pc'[t] \notin {"leave", "notify"}
        /\ notify' = notify /\ \A u \in Threads : u # t => pc'[u] = pc[u]
    BY SettleNodes, PassNodes DEF listVars, Settle, Pass
  <2>2. Leavers(s)' = Leavers(s)
    BY <2>1, Names DEF Leavers
  <2>3. word'[s] = word[s]
    BY SettleNodes, PassNodes, Functions, Names DEF IInv
  <2>4. QED BY <2>1, <2>2, <2>3, Names
<1>2. QED BY <1>1 DEF RefInv, IInv

\* A waiter that has left the list tells the signaller that came by its node.
LEMMA NotifyStep ==
  ASSUME IInv, NEW t \in Waiters, Notify(t) PROVE ShapeInv' /\ RefInv' /\ CountInv'
<1>0. /\ Typed /\ StateInv /\ RefInv /\ CountInv /\ ShapeInv
      /\ word \in [Addrs -> Values]
  BY Functions DEF IInv
<1>1. /\ UNCHANGED <<listVars, at, first, mWaiters, state>>
      /\ \A u \in Threads : u # t => pc'[u] = pc[u]
      /\ pc[t] = "notify" /\ pc'[t] \in {"wakenotify", "relock"} /\ state[t] = "leaving"
      /\ \A u \in Waiters : word'[u] = word[u]
  BY <1>0, Names DEF Notify, Put, Goto, Typed, StateInv, walkVars
<1>2. ASSUME NEW u \in Waiters
      PROVE  /\ Listed(u)' <=> Listed(u)
             /\ Before(u)' <=> Before(u)
             /\ Shut(u) => Shut(u)'
             /\ pc'[u] = "pass" <=> pc[u] = "pass"
  <2>1. CASE u = t
    BY <1>1, <2>1 DEF Listed, Before, Shut, Queued, Blocking, InWait
  <2>2. CASE u # t
    BY <1>1, <2>2, SameNode, Names DEF Shut
  <2>3. QED BY <2>1, <2>2
<1>3. SameNodes
  BY <1>2 DEF SameNodes
<1>4. \A s \in Signallers : pc'[s] = pc[s]
  BY <1>1, Names
<1>5. ShapeInv'
  BY <1>0, <1>1, <1>3, <1>4, ShapeSame DEF Taker
<1>6. CountInv'
  BY <1>0, <1>1, <1>2, <1>3, CountedSame
<1>7. RefInv'
  <2> SUFFICES ASSUME NEW s \in Signallers
               PROVE  /\ word'[s] = Cardinality(Leavers(s)')
                      /\ pc'[s] \notin {"walk", "drain", "draining"} => Leavers(s)' = {}
    BY DEF RefInv
  <2>1. CASE notify[t] = s
    <3>1. Leavers(s)' = Leavers(s) \ {t}
      BY <1>1, Names DEF Leavers, listVars
    <3>2. notify[t] # NULL /\ Put(s, word[s] - 1)
      BY <2>1, Names DEF Notify
    <3>3. word'[s] = word[s] - 1
      BY <1>0, <3>2, Names DEF Put
    <3>4. Cardinality(Leavers(s)') = word[s] - 1
      BY <1>0, <1>1, <2>1, <3>1, <3>2, NotifyCount
    <3>5. Leavers(s) = {} => Leavers(s)' = {}
      BY <3>1
    <3>6. QED BY <1>0, <1>4, <3>3, <3>4, <3>5 DEF RefInv
  <2>2. CASE notify[t] # s
    <3>1. Leavers(s)' = Leavers(s)
      BY <1>1, <2>2, Names DEF Leavers, listVars
    <3>2. word'[s] = word[s]
      BY <1>0, <2>2, Names DEF Notify, Put, Typed
    <3>3. QED BY <1>0, <1>4, <3>1, <3>2 DEF RefInv
  <2>3. QED BY <2>1, <2>2
<1>8. QED BY <1>5, <1>6, <1>7

\* Once nobody is left to leave, every node of a group is behind its barrier.
LEMMA NoneLeaving ==
  ASSUME IInv, NEW s \in Signallers, Leavers(s) = {}, NEW G, NEW O, Grouped(G, O, s),
         NEW t \in Waiters
  PROVE  /\ t \in G[s] => Shut(t)
         /\ t \notin O[s]
         /\ ~ (Listed(t) /\ notify[t] = s)
<1>1. ~ (Listed(t) /\ notify[t] = s)
  <2>1. Listed(t) => (state[t] = "waiting" /\ InWait(t)) \/ pc[t] = "leave"
    BY DEF Listed
  <2>2. pc[t] = "leave" => notify[t] # s
    BY DEF Leavers
  <2>3. QED BY <2>1, <2>2, Names DEF IInv, BarrierInv
<1>2. t \in G[s] => Shut(t)
  BY <1>1 DEF Grouped
<1>3. t \in O[s] => t \in G[s] /\ Listed(t)
  BY DEF Grouped
<1>4. QED BY <1>1, <1>2, <1>3, Apart

LEMMA ProceedStep ==
  ASSUME IInv, NEW s \in Signallers, Proceed(s) PROVE ShapeInv' /\ RefInv' /\ CountInv'
<1>0. /\ Typed /\ StateInv /\ RefInv /\ CountInv /\ ShapeInv
  BY DEF IInv
<1>1. /\ UNCHANGED <<listVars, at, first, mWaiters, state, word>>
      /\ \A u \in Threads : u # s => pc'[u] = pc[u]
      /\ pc[s] = "drain" /\ word[s] = 0
      /\ pc'[s] = IF first[s] = NULL THEN "idle" ELSE "free"
  BY <1>0, Names DEF Proceed, Goto, Typed, walkVars, futexVars
<1>2. Leavers(s) = {}
  BY <1>0, <1>1, LeaversFinite, FS_EmptySet DEF RefInv
<1>3. SameNodes /\ \A u \in Waiters : pc'[u] = pc[u]
  BY <1>1, SameNode, Names DEF SameNodes, Shut
<1>4. LinkInv' /\ ListInv' /\ TurnInv'
  BY <1>0, <1>1, <1>3, ShapeSame
<1>5. GroupInv'
  <2>1. PICK G \in [Signallers -> SUBSET Waiters], O \in [Signallers -> SUBSET Waiters] :
               \A r \in Signallers : Grouped(G, O, r)
    BY <1>0 DEF ShapeInv, GroupInv
  <2>2. ASSUME first[s] = NULL PROVE G[s] = {} /\ O[s] = {}
    <3>1. \A t \in Waiters : t \in G[s] => t \in O[s]
      BY <2>1, <2>2 DEF Grouped
    <3>2. \A t \in Waiters : t \notin O[s]
      BY <1>2, <2>1, NoneLeaving
    <3>3. QED BY <3>1, <3>2, <2>1
  <2>3. \A t \in Waiters : (In(t)' <=> In(t))
    BY <1>3 DEF In, SameNodes
  <2>4. ASSUME NEW r \in Signallers, r # s PROVE Grouped(G, O, r)'
    <3>1. Taker(r)' <=> Taker(r)
      BY <1>1, <2>4, Names DEF Taker
    <3>2. QED BY <1>1, <1>3, <2>1, <2>3, <2>4, <3>1 DEF Grouped, SameNodes, listVars
  <2>5. Grouped(G, O, s)'
    <3>1. CASE first[s] = NULL
      <4>1. ~Taker(s)' /\ held # s
        BY <1>0, <1>1, <3>1 DEF Taker, StateInv
      <4>2. \A t \in Waiters : ~ (Listed(t) /\ notify[t] = s)
        BY <1>2, <2>1, NoneLeaving
      <4>3. QED BY <1>1, <1>3, <2>1, <2>2, <2>3, <3>1, <4>1, <4>2 DEF Grouped, SameNodes, listVars
    <3>2. CASE first[s] # NULL
      <4>1. Taker(s)' /\ Taker(s)
        BY <1>1, <3>2 DEF Taker
      <4>2. QED BY <1>1, <1>3, <2>1, <2>3, <4>1 DEF Grouped, SameNodes, listVars
    <3>3. QED BY <3>1, <3>2
  <2>6. QED BY <2>4, <2>5 DEF GroupInv
<1>6. CountInv'
  BY <1>0, <1>1, <1>3, CountedSame
<1>7. RefInv'
  <2>1. ASSUME NEW r \in Signallers PROVE Leavers(r)' = Leavers(r)
    BY <1>1, <1>3 DEF Leavers, listVars
  <2>2. QED BY <1>0, <1>1, <1>2, <2>1, Names DEF RefInv
<1>8. QED BY <1>4, <1>5, <1>6, <1>7 DEF ShapeInv

\* The barrier of the first of a group is opened when nobody is left to leave:
\* so there is no node behind it.
LEMMA FreeStep ==
  ASSUME IInv, NEW s \in Signallers, Free(s) PROVE ShapeInv' /\ RefInv' /\ CountInv'
<1>0. /\ Typed /\ StateInv /\ RefInv /\ CountInv /\ ShapeInv
      /\ word \in [Addrs -> Values]
  BY Functions DEF IInv
<1>1. PICK f \in Waiters : first[s] = f
  BY <1>0, Names DEF Free, StateInv, Typed
<1>2. /\ UNCHANGED <<listVars, at, first, mWaiters, state>>
      /\ \A u \in Threads : u # s => pc'[u] = pc[u]
      /\ pc[s] = "free" /\ pc'[s] \in {"wakefirst", "idle"}
      /\ \A u \in Threads : u # f => word'[u] = word[u]
  BY <1>0, <1>1, Names DEF Free, Put, Goto, Typed, walkVars
<1>3. Leavers(s) = {} /\ held # s /\ Taker(s) /\ ~Taker(s)' /\ first[s] # NULL
  BY <1>0, <1>1, <1>2, Names DEF RefInv, StateInv, Taker
<1>4. \A u \in Waiters : /\ Listed(u)' <=> Listed(u)
                         /\ Before(u)' <=> Before(u)
                         /\ In(u)' <=> In(u)
                         /\ Main(u)' <=> Main(u)
                         /\ pc'[u] = pc[u]
                         /\ u # f /\ Shut(u) => Shut(u)'
  BY <1>2, SameNode, Names DEF Shut, Main, listVars
<1>5. PICK G \in [Signallers -> SUBSET Waiters], O \in [Signallers -> SUBSET Waiters] :
             \A r \in Signallers : Grouped(G, O, r)
  BY <1>0 DEF ShapeInv, GroupInv
<1>6. f \in G[s] /\ \A u \in Waiters : In(u) => prev[u] # f
  <2>1. f \in G[s]
    BY <1>1, <1>3, <1>5 DEF Grouped
  <2>2. ASSUME NEW u \in Waiters, In(u), prev[u] = f PROVE FALSE
    <3>1. u \in O[s]
      BY <1>1, <1>3, <1>5, <2>2 DEF Grouped
    <3>2. QED BY <1>3, <1>5, <3>1, NoneLeaving
  <2>3. QED BY <2>1, <2>2
<1>7. LinkInv'
  BY <1>0, <1>2, <1>4 DEF ShapeInv, LinkInv, listVars
<1>8. ListInv'
  BY <1>0, <1>2, <1>4 DEF ShapeInv, ListInv, Oldest, listVars
<1>9. TurnInv'
  BY <1>0, <1>2, <1>4, <1>6, Apart DEF ShapeInv, TurnInv, listVars
<1>10. GroupInv'
  <2> DEFINE G2 == [G EXCEPT ![s] = {}]
             O2 == [O EXCEPT ![s] = {}]
  <2>1. /\ G2 \in [Signallers -> SUBSET Waiters] /\ O2 \in [Signallers -> SUBSET Waiters]
        /\ G2[s] = {} /\ O2[s] = {}
        /\ \A r \in Signallers : r # s => G2[r] = G[r] /\ O2[r] = O[r] /\ f \notin G[r]
    BY <1>5, <1>6 DEF Grouped
  <2> HIDE DEF G2, O2
  <2>2. ASSUME NEW r \in Signallers, r # s PROVE Grouped(G2, O2, r)'
    <3>1. Taker(r)' <=> Taker(r)
      BY <1>2, <2>2, Names DEF Taker
    <3>2. \A q \in Signallers : q # r => G2[r] \cap G2[q] = {}
      BY <1>5, <2>1, <2>2 DEF Grouped
    <3>3. QED BY <1>2, <1>4, <1>5, <2>1, <2>2, <3>1, <3>2 DEF Grouped, listVars
  <2>3. Grouped(G2, O2, s)'
    <3>1. \A t \in Waiters : ~ (Listed(t) /\ notify[t] = s)
      BY <1>3, <1>5, NoneLeaving
    <3>2. QED BY <1>2, <1>3, <1>4, <2>1, <3>1 DEF Grouped, listVars
  <2>4. QED BY <2>1, <2>2, <2>3 DEF GroupInv
<1>11. CountInv'
  <2>1. Counted' = Counted
    BY <1>2, <1>4 DEF Counted, listVars
  <2>2. QED BY <1>0, <1>2, <2>1 DEF CountInv
<1>12. RefInv'
  <2>1. ASSUME NEW r \in Signallers PROVE Leavers(r)' = Leavers(r)
    BY <1>2, <1>4 DEF Leavers, listVars
  <2>2. QED BY <1>0, <1>2, <1>3, <2>1, Names DEF RefInv
<1>13. QED BY <1>7, <1>8, <1>9, <1>10, <1>11, <1>12 DEF ShapeInv

\* A walk begins at the oldest node.
LEMMA SignalStep ==
  ASSUME IInv, NEW s \in Signallers, NEW k \in {1, -1}, Signal(s, k)
  PROVE  ShapeInv' /\ RefInv' /\ CountInv'
<1>0. /\ Typed /\ StateInv /\ RefInv /\ CountInv /\ ShapeInv
      /\ word \in [Addrs -> Values]
  BY Functions DEF IInv
<1>1. /\ UNCHANGED <<head, tail, prev, next, notify, mWaiters, state>>
      /\ held = NULL /\ held' = s
      /\ at'[s] = tail /\ first'[s] = NULL /\ word'[s] = 0
      /\ \A r \in Signallers : r # s => at'[r] = at[r] /\ first'[r] = first[r]
      /\ \A u \in Threads : u # s => pc'[u] = pc[u] /\ word'[u] = word[u]
      /\ pc[s] = "idle" /\ pc'[s] = "walk"
  BY <1>0, Names DEF Signal, Put, Goto, Typed
<1>2. /\ ~Taker(s) /\ Taker(s)' /\ Oldest' = Oldest /\ Oldest = tail /\ held' # NULL
  BY <1>1, Names DEF Taker, Oldest
<1>3. \A u \in Waiters : /\ Listed(u)' <=> Listed(u)
                         /\ Before(u)' <=> Before(u)
                         /\ In(u)' <=> In(u)
                         /\ Main(u)' <=> Main(u)
                         /\ pc'[u] = pc[u]
                         /\ Shut(u) => Shut(u)'
  BY <1>1, SameNode, Names DEF Shut, Main
<1>4. LinkInv'
  BY <1>0, <1>1, <1>3 DEF ShapeInv, LinkInv
<1>5. ListInv'
  BY <1>0, <1>1, <1>2, <1>3 DEF ShapeInv, ListInv
<1>6. TurnInv'
  BY <1>0, <1>1, <1>3 DEF ShapeInv, TurnInv
<1>7. GroupInv'
  <2>1. PICK G \in [Signallers -> SUBSET Waiters], O \in [Signallers -> SUBSET Waiters] :
               \A r \in Signallers : Grouped(G, O, r)
    BY <1>0 DEF ShapeInv, GroupInv
  <2>2. ASSUME NEW r \in Signallers, r # s PROVE Grouped(G, O, r)'
    <3>1. Taker(r)' <=> Taker(r)
      BY <1>1, <2>2, Names DEF Taker
    <3>2. held' # r /\ held # r
      BY <1>1, <2>2, Names
    <3>3. QED BY <1>1, <1>3, <2>1, <2>2, <3>1, <3>2 DEF Grouped
  <2>3. Grouped(G, O, s)'
    <3>1. G[s] = {}
      BY <1>2, <2>1 DEF Grouped
    <3>2. \A t \in Waiters : t = tail => next[t] = NULL
      BY <1>0, <1>1, <1>2 DEF ShapeInv, ListInv
    <3>3. QED BY <1>1, <1>2, <1>3, <2>1, <3>1, <3>2 DEF Grouped
  <2>4. QED BY <2>2, <2>3 DEF GroupInv
<1>8. CountInv'
  <2>1. Counted' = Counted
    BY <1>1, <1>3 DEF Counted
  <2>2. QED BY <1>0, <1>1, <2>1 DEF CountInv
<1>9. RefInv'
  <2>1. ASSUME NEW r \in Signallers PROVE Leavers(r)' = Leavers(r)
    BY <1>1, <1>3 DEF Leavers
  <2>2. Leavers(s) = {}
    BY <1>0, <1>1 DEF RefInv
  <2>3. QED BY <1>0, <1>1, <2>1, <2>2, Names, FS_EmptySet DEF RefInv
<1>10. QED BY <1>4, <1>5, <1>6, <1>7, <1>8, <1>9 DEF ShapeInv

\* A signaller comes by the node p, the oldest it has not come by, and takes it
\* or finds it leaving.
LEMMA ComeBy ==
  ASSUME IInv, NEW s \in Signallers, TakeNode(s) \/ PassOver(s), NEW p \in Waiters, p = at[s]
  PROVE  /\ UNCHANGED <<head, tail, prev, next, held, pc, mWaiters>>
         /\ held = s /\ Taker(s) /\ Oldest = p /\ Main(p) /\ Oldest' = prev[p]
         /\ at'[s] = prev[p]
         /\ \A r \in Signallers : r # s => at'[r] = at[r] /\ first'[r] = first[r]
         /\ \A u \in Waiters : word'[u] = word[u] /\ (In(u)' <=> In(u))
         /\ \A u \in Waiters : u # p => /\ Listed(u)' <=> Listed(u)
                                        /\ Before(u)' <=> Before(u)
                                        /\ Main(u)' <=> Main(u)
                                        /\ Shut(u) => Shut(u)'
                                        /\ notify'[u] = notify[u]
         /\ ~Main(p)' /\ ((Listed(p)' /\ notify'[p] = s) \/ (Shut(p)' /\ ~Listed(p)'))
         /\ TakeNode(s) => /\ Before(p)' /\ Shut(p)' /\ ~Listed(p)'
                           /\ first'[s] = IF first[s] = NULL THEN p ELSE first[s]
         /\ PassOver(s) => Listed(p)' /\ notify'[p] = s /\ ~Before(p)' /\ first' = first
<1>0. /\ Typed /\ StateInv /\ BarrierInv /\ ListInv /\ word \in [Addrs -> Values]
  BY Functions DEF IInv, ShapeInv
<1>1. /\ Walking(s) /\ pc[s] = "walk"
      /\ held = s /\ Taker(s) /\ Oldest = p /\ Main(p) /\ Listed(p) /\ notify[p] = NULL
      /\ state[p] # "waiting" => pc[p] = "leave"
      /\ state[p] = "waiting" => InWait(p)
  BY <1>0, Walk DEF TakeNode, PassOver, Walking, Taker
<1>2. /\ UNCHANGED <<head, tail, prev, next, held, pc, mWaiters>>
      /\ at'[s] = prev[p]
      /\ \A r \in Signallers : r # s => at'[r] = at[r] /\ first'[r] = first[r]
      /\ \A u \in Waiters : word'[u] = word[u]
      /\ \A u \in Waiters : u # p => state'[u] = state[u] /\ notify'[u] = notify[u]
  BY <1>0, Names DEF TakeNode, PassOver, Put, Typed, listVars, futexVars
<1>3. Oldest' = prev[p]
  BY <1>1, <1>2, Names DEF Oldest
<1>4. \A u \in Waiters : u # p => /\ Listed(u)' <=> Listed(u)
                                  /\ Before(u)' <=> Before(u)
                                  /\ Main(u)' <=> Main(u)
                                  /\ Shut(u) => Shut(u)'
                                  /\ In(u)' <=> In(u)
  BY <1>2, SameNode DEF Shut, Main
<1>5. CASE TakeNode(s)
  <2>1. /\ state[p] = "waiting" /\ state'[p] = "signaled" /\ InWait(p) /\ word[p] = Closed
        /\ first'[s] = IF first[s] = NULL THEN p ELSE first[s]
    BY <1>0, <1>1, <1>5 DEF TakeNode, Typed, BarrierInv
  <2>2. Before(p)' /\ Shut(p)' /\ ~Listed(p)' /\ In(p) /\ In(p)' /\ ~Main(p)'
    BY <1>1, <1>2, <2>1 DEF Before, Shut, Queued, Blocking, InWait, Listed, In, Main
  <2>3. ~PassOver(s)
    BY <2>1 DEF PassOver
  <2>4. QED BY <1>1, <1>2, <1>3, <1>4, <2>1, <2>2, <2>3
<1>6. CASE PassOver(s)
  <2>1. /\ state[p] # "waiting" /\ pc[p] = "leave" /\ UNCHANGED <<state, first>> /\ notify'[p] = s
    BY <1>0, <1>1, <1>6 DEF PassOver, Typed
  <2>2. Listed(p)' /\ ~Before(p)' /\ In(p) /\ In(p)' /\ ~Main(p)'
    BY <1>0, <1>1, <1>2, <2>1, Names DEF StateInv, Before, Blocking, InWait, Listed, In, Main
  <2>3. ~TakeNode(s)
    BY <1>1, <2>1 DEF TakeNode
  <2>4. QED BY <1>1, <1>2, <1>3, <1>4, <2>1, <2>2, <2>3
<1>7. QED BY <1>5, <1>6

LEMMA ComeByStep ==
  ASSUME IInv, NEW s \in Signallers, TakeNode(s) \/ PassOver(s)
  PROVE  ShapeInv' /\ CountInv'
<1>0. /\ Typed /\ ShapeInv /\ LinkInv /\ ListInv /\ TurnInv /\ CountInv
  BY DEF IInv, ShapeInv
<1>1. PICK p \in Waiters : p = at[s]
  BY <1>0 DEF TakeNode, PassOver, Walking, Typed
<1> DEFINE q == prev[p]
<1>2. LinkInv'
  <2>1. ASSUME NEW u \in Waiters, Listed(u)' PROVE Listed(u)
    BY <1>0, <1>1, <2>1, ComeBy, Apart
  <2>2. QED BY <1>0, <1>1, <2>1, ComeBy DEF LinkInv
<1>3. ListInv'
  <2>1. ASSUME NEW t \in Waiters, Main(t), t # p
        PROVE  /\ prev[t] # NULL => prev[t] # p
               /\ next[t] = p => t = q
    <3>1. In(t) /\ Listed(t) /\ p # NULL
      BY <2>1, Apart, Names
    <3>2. next[t] = p => prev[p] = t
      BY <1>0, <3>1 DEF LinkInv
    <3>3. prev[t] = p => next[p] = t /\ t \notin Waiters
      <4> SUFFICES ASSUME prev[t] = p PROVE FALSE
        BY <1>0, <3>1 DEF LinkInv
      <4>1. next[p] = t
        BY <1>0, <3>1 DEF LinkInv
      <4>2. PICK G \in [Signallers -> SUBSET Waiters], O \in [Signallers -> SUBSET Waiters] :
                   \A r \in Signallers : Grouped(G, O, r)
        BY <1>0 DEF ShapeInv, GroupInv
      <4>3. t \in G[s]
        BY <1>1, <4>1, <4>2, ComeBy, Names DEF Grouped
      <4>4. Shut(t) \/ notify[t] = s
        BY <4>2, <4>3 DEF Grouped
      <4>5. QED BY <2>1, <4>4, Apart, Names DEF Main
    <3>4. QED BY <3>2, <3>3
  <2>2. ASSUME NEW t \in Waiters, t = q PROVE Main(t) /\ t # p
    <3>1. Main(t)
      BY <1>0, <1>1, <2>2, ComeBy DEF ListInv
    <3>2. t = p => next[p] = p
      BY <1>0, <2>2, <3>1, Apart DEF LinkInv
    <3>3. PICK G \in [Signallers -> SUBSET Waiters], O \in [Signallers -> SUBSET Waiters] :
                 \A r \in Signallers : Grouped(G, O, r)
      BY <1>0 DEF ShapeInv, GroupInv
    <3>4. t = p => p \in G[s]
      BY <1>1, <3>2, <3>3, ComeBy, Names DEF Grouped
    <3>5. p \notin G[s]
      BY <1>1, <3>3, ComeBy, Apart, Names DEF Grouped, Main
    <3>6. QED BY <3>1, <3>4, <3>5
  <2>3. held' # NULL /\ Oldest' = q /\ Oldest = p
    BY <1>1, ComeBy, Names
  <2>4. q = NULL <=> head = p
    BY <1>0, <1>1, ComeBy DEF ListInv
  <2>5. \A t \in Waiters : t # p => (Main(t)' <=> Main(t))
    BY <1>1, ComeBy
  <2>6. /\ ~Main(p)' /\ UNCHANGED <<head, tail, prev, next, held>>
        /\ Main(p) /\ held = s /\ s # NULL
    BY <1>1, ComeBy, Names
  <2>7. ASSUME NEW t \in Waiters, Main(t)'
        PROVE  /\ prev[t] = NULL <=> t = head
               /\ t # q => next[t] # NULL
               /\ \A u \in Waiters : u = prev[t] \/ (t # q /\ u = next[t]) => Main(u)'
    <3>1. t # p /\ Main(t)
      BY <2>5, <2>6, <2>7
    <3>2. QED BY <1>0, <2>1, <2>3, <2>5, <3>1, Names DEF ListInv
  <2>8. QED
    BY <1>0, <2>2, <2>3, <2>4, <2>5, <2>6, <2>7, Names DEF ListInv
<1>4. TurnInv'
  <2>1. ASSUME NEW t \in Waiters, NEW u \in Waiters, Before(t)', prev[t] = u
        PROVE  Shut(u)' \/ Listed(u)'
    <3>1. CASE u = p
      BY <1>1, <3>1, ComeBy
    <3>2. CASE u # p /\ t # p
      BY <1>0, <1>1, <2>1, <3>2, ComeBy DEF TurnInv
    <3>3. CASE u # p /\ t = p
      <4>1. Main(u)
        BY <1>0, <1>1, <2>1, <3>3, ComeBy DEF ListInv
      <4>2. QED BY <1>1, <3>3, <4>1, ComeBy, Apart
    <3>4. QED BY <3>1, <3>2, <3>3
  <2>2. QED BY <1>1, <2>1, ComeBy DEF TurnInv
<1>5. GroupInv'
  <2>1. PICK G \in [Signallers -> SUBSET Waiters], O \in [Signallers -> SUBSET Waiters] :
               \A r \in Signallers : Grouped(G, O, r)
    BY <1>0 DEF ShapeInv, GroupInv
  <2>2. PICK G2 \in [Signallers -> SUBSET Waiters], O2 \in [Signallers -> SUBSET Waiters] :
               /\ G2[s] = G[s] \cup {p}
               /\ O2[s] = IF PassOver(s) /\ first[s] = NULL THEN O[s] \cup {p} ELSE O[s]
               /\ \A r \in Signallers : r # s => G2[r] = G[r] /\ O2[r] = O[r]
    <3> DEFINE G3 == [G EXCEPT ![s] = @ \cup {p}]
               O3 == [O EXCEPT ![s] = IF PassOver(s) /\ first[s] = NULL THEN @ \cup {p} ELSE @]
    <3>1. /\ G3 \in [Signallers -> SUBSET Waiters] /\ O3 \in [Signallers -> SUBSET Waiters]
          /\ G3[s] = G[s] \cup {p}
          /\ O3[s] = IF PassOver(s) /\ first[s] = NULL THEN O[s] \cup {p} ELSE O[s]
          /\ \A r \in Signallers : r # s => G3[r] = G[r] /\ O3[r] = O[r]
      BY <2>1
    <3> HIDE DEF G3, O3
    <3> USE <3>1
    <3> WITNESS G3 \in [Signallers -> SUBSET Waiters], O3 \in [Signallers -> SUBSET Waiters]
    <3> QED OBVIOUS
  <2>3. \A r \in Signallers : p \notin G[r]
    BY <1>1, <2>1, ComeBy, Apart, Names DEF Grouped, Main
  <2>4. \A r \in Signallers : Taker(r)' <=> Taker(r)
    BY <1>1, ComeBy DEF Taker
  <2>5. ASSUME NEW r \in Signallers, r # s PROVE Grouped(G2, O2, r)'
    <3>1. \A z \in Signallers : z # r => G2[r] \cap G2[z] = {}
      BY <2>1, <2>2, <2>3, <2>5 DEF Grouped
    <3>2. held # r /\ held' # r
      BY <1>1, <2>5, ComeBy
    <3>3. \A t \in Waiters : Listed(t)' /\ notify'[t] = r => t # p
      BY <1>1, <2>5, ComeBy, Apart, Names
    <3>4. /\ G2[r] = G[r] /\ O2[r] = O[r] /\ p \notin G[r]
          /\ at'[r] = at[r] /\ first'[r] = first[r] /\ prev' = prev /\ next' = next
          /\ \A t \in Waiters : In(t)' <=> In(t)
          /\ \A t \in Waiters : t # p => /\ Listed(t)' <=> Listed(t)
                                         /\ Shut(t) => Shut(t)'
                                         /\ notify'[t] = notify[t]
      BY <1>1, <2>2, <2>3, <2>5, ComeBy
    <3>5. QED BY <2>1, <2>4, <3>1, <3>2, <3>3, <3>4 DEF Grouped
  <2>6. Grouped(G2, O2, s)'
    <3>1. \A z \in Signallers : z # s => G2[s] \cap G2[z] = {}
      BY <2>1, <2>2, <2>3 DEF Grouped
    <3>2. ASSUME NEW t \in Waiters, In(t), prev[t] = p PROVE t \in G[s]
      <4>1. next[p] = t /\ t # NULL
        BY <1>0, <3>2, Names DEF LinkInv
      <4>2. QED BY <1>1, <2>1, <4>1, ComeBy DEF Grouped
    <3>3. /\ Taker(s)' /\ Taker(s) /\ held = s /\ held' = s /\ at[s] = p /\ at'[s] = prev[p]
          /\ prev' = prev /\ next' = next
          /\ \A t \in Waiters : In(t)' <=> In(t)
          /\ \A t \in Waiters : t # p => /\ Listed(t)' <=> Listed(t)
                                         /\ Shut(t) => Shut(t)'
                                         /\ notify'[t] = notify[t]
          /\ Shut(p)' \/ (Listed(p)' /\ notify'[p] = s)
      BY <1>1, <2>4, ComeBy
    <3>4. \A t \in Waiters : t = at'[s] /\ next'[t] # NULL => next'[t] \in G2[s]
      <4> SUFFICES ASSUME NEW t \in Waiters, t = prev[p] PROVE next[t] = p
        BY <2>2, <3>3
      <4>1. QED BY <1>0, <1>1, ComeBy, Apart DEF LinkInv
    <3>5. CASE TakeNode(s)
      <4>1. /\ O2[s] = O[s] /\ Shut(p)' /\ first'[s] = IF first[s] = NULL THEN p ELSE first[s]
        <5>1. ~PassOver(s)
          BY <3>5 DEF TakeNode, PassOver
        <5>2. QED BY <1>1, <2>2, <3>5, <5>1, ComeBy
      <4>2. first'[s] # NULL
        BY <4>1, Names
      <4>3. CASE first[s] = NULL
        <5>1. \A t \in Waiters : t \in G[s] <=> t \in O[s]
          BY <2>1, <4>3 DEF Grouped
        <5>2. QED
          BY <2>1, <2>2, <2>3, <3>1, <3>2, <3>3, <3>4, <4>1, <4>2, <4>3, <5>1 DEF Grouped
      <4>4. CASE first[s] # NULL
        BY <2>1, <2>2, <2>3, <3>1, <3>2, <3>3, <3>4, <4>1, <4>2, <4>4 DEF Grouped
      <4>5. QED BY <4>3, <4>4
    <3>6. CASE PassOver(s)
      <4>1. /\ Listed(p)' /\ notify'[p] = s /\ first' = first
        BY <1>1, <3>6, ComeBy
      <4>2. CASE first[s] = NULL
        <5>1. O2[s] = O[s] \cup {p} /\ \A t \in Waiters : t \in G[s] <=> t \in O[s]
          BY <2>1, <2>2, <3>6, <4>2 DEF Grouped
        <5>2. QED
          BY <2>1, <2>2, <2>3, <3>1, <3>2, <3>3, <3>4, <4>1, <4>2, <5>1 DEF Grouped
      <4>3. CASE first[s] # NULL
        <5>1. O2[s] = O[s] /\ first[s] # p
          BY <2>1, <2>2, <2>3, <3>3, <4>3 DEF Grouped
        <5>2. QED
          BY <2>1, <2>2, <2>3, <3>1, <3>2, <3>3, <3>4, <4>1, <4>3, <5>1 DEF Grouped
      <4>4. QED BY <4>2, <4>3
    <3>7. QED BY <3>5, <3>6
  <2>7. QED BY <2>2, <2>5, <2>6 DEF GroupInv
<1>6. CountInv'
  <2>1. /\ UNCHANGED <<prev, next, pc, mWaiters>>
        /\ \A t \in Waiters : In(t)' <=> In(t)
        /\ \A t \in Waiters : t # p => (Before(t)' <=> Before(t))
        /\ ~Before(p) /\ In(p) /\ Listed(p) /\ pc[p] # "pass"
    <3>1. Main(p)
      BY <1>1, ComeBy
    <3>2. pc[p] # "pass"
      BY <3>1 DEF Main, Listed, InWait
    <3>3. QED BY <1>1, <3>1, <3>2, ComeBy, Apart
  <2>2. next[p] # NULL => \E u \in Waiters : In(u) /\ prev[u] = p
    BY <1>0, <2>1 DEF LinkInv, Typed
  <2>3. Counted' = Counted
    BY <2>1, <2>2 DEF Counted
  <2>4. QED BY <1>0, <2>1, <2>3 DEF CountInv
<1>7. QED BY <1>2, <1>3, <1>4, <1>5, <1>6 DEF ShapeInv

\* The signaller counts the nodes it finds leaving, and only those.
LEMMA ComeByRef ==
  ASSUME IInv, NEW s \in Signallers, TakeNode(s) \/ PassOver(s) PROVE RefInv'
<1>0. /\ Typed /\ StateInv /\ ShapeInv /\ ListInv /\ RefInv /\ word \in [Addrs -> Values]
  BY Functions DEF IInv, ShapeInv
<1>1. PICK p \in Waiters : p = at[s]
  BY <1>0 DEF TakeNode, PassOver, Walking, Typed
<1>2. /\ pc' = pc /\ pc[s] = "walk"
      /\ \A u \in Waiters : u # p => notify'[u] = notify[u]
  BY <1>1, ComeBy DEF TakeNode, PassOver, Walking
<1>3. CASE TakeNode(s)
  <2>1. word' = word /\ notify' = notify
    BY <1>3 DEF TakeNode, futexVars, listVars
  <2>2. ASSUME NEW r \in Signallers PROVE Leavers(r)' = Leavers(r)
    BY <1>2, <2>1 DEF Leavers
  <2>3. QED BY <1>0, <1>2, <2>1, <2>2 DEF RefInv
<1>4. CASE PassOver(s)
  <2>1. word'[s] = word[s] + 1 /\ \A r \in Signallers : r # s => word'[r] = word[r]
    BY <1>0, <1>4, Names DEF PassOver, Put
  <2>2. notify'[p] = s /\ notify[p] = NULL /\ pc[p] = "leave"
    <3>1. Listed(p)' /\ notify'[p] = s /\ Main(p)
      BY <1>1, <1>4, ComeBy
    <3>2. state'[p] # "waiting"
      BY <1>1, <1>4 DEF PassOver
    <3>3. QED BY <1>2, <3>1, <3>2 DEF Listed, Main
  <2>3. ASSUME NEW r \in Signallers
        PROVE  /\ r # s => Leavers(r)' = Leavers(r)
               /\ r = s => Leavers(r)' = Leavers(r) \cup {p}
    <3>1. \A u \in Waiters : u \in Leavers(r)' <=> u \in Leavers(r) \/ (r = s /\ u = p)
      BY <1>2, <2>2, Names DEF Leavers
    <3>2. QED BY <3>1 DEF Leavers
  <2>4. Cardinality(Leavers(s)') = word[s] + 1
    BY <1>0, <1>1, <1>4, <2>3, PassOverCount
  <2>5. QED BY <1>0, <1>2, <2>1, <2>3, <2>4 DEF RefInv
<1>5. QED BY <1>3, <1>4

\* The list is cut between the oldest node the signaller has not come by and the
\* newest it has.
LEMMA SplitStep ==
  ASSUME IInv, NEW s \in Signallers, Split(s) PROVE ShapeInv' /\ RefInv' /\ CountInv'
<1>0. /\ Typed /\ StateInv /\ RefInv /\ CountInv /\ ShapeInv
      /\ LinkInv /\ ListInv /\ TurnInv
  BY DEF IInv, ShapeInv
<1>1. /\ UNCHANGED <<at, first, n, notify, mWaiters, state, word>>
      /\ \A u \in Threads : u # s => pc'[u] = pc[u]
      /\ pc[s] = "walk" /\ pc'[s] = "drain"
      /\ held = s /\ held' = NULL /\ tail' = at[s]
      /\ Taker(s) /\ Taker(s)'
      /\ Oldest = at[s] /\ Oldest' = at[s] /\ s # NULL
  BY <1>0, Names DEF Split, Goto, Typed, StateInv, walkVars, futexVars, Taker, Oldest
<1>2. \A u \in Waiters : /\ Listed(u)' <=> Listed(u)
                         /\ Before(u)' <=> Before(u)
                         /\ In(u)' <=> In(u)
                         /\ Main(u)' <=> Main(u)
                         /\ pc'[u] = pc[u]
                         /\ Shut(u)' <=> Shut(u)
  BY <1>1, SameNode, Names DEF Shut, Main
<1>3. PICK G \in [Signallers -> SUBSET Waiters], O \in [Signallers -> SUBSET Waiters] :
             \A r \in Signallers : Grouped(G, O, r)
  BY <1>0 DEF ShapeInv, GroupInv
\* The pointers that are cleared are one from the group to the rest and its like.
<1>4. /\ \A u \in Waiters : \/ prev'[u] = prev[u]
                            \/ prev'[u] = NULL /\ u \in G[s] /\ In(u) /\ prev[u] = at[s] /\ at[s] # NULL
      /\ \A u \in Waiters : next'[u] = IF u = at[s] THEN NULL ELSE next[u]
      /\ \A u \in Waiters : at[s] # NULL /\ In(u) /\ prev[u] = at[s] => prev'[u] = NULL
      /\ head' = IF at[s] = NULL THEN NULL ELSE head
  <2>1. CASE at[s] = NULL
    BY <2>1, Names DEF Split
  <2>2. ASSUME NEW p \in Waiters, p = at[s]
        PROVE  /\ next[p] # NULL => next[p] \in G[s] /\ In(next[p]) /\ prev[next[p]] = p
               /\ \A u \in Waiters : In(u) /\ prev[u] = p => next[p] = u
    <3>1. Main(p) /\ Listed(p)
      BY <1>0, <1>1, <2>2, Apart DEF ListInv
    <3>2. next[p] # NULL => next[p] \in G[s]
      BY <1>1, <1>3, <2>2 DEF Grouped
    <3>3. next[p] # NULL => In(next[p]) /\ prev[next[p]] = p
      BY <1>0, <3>1 DEF LinkInv, Typed
    <3>4. QED BY <1>0, <3>2, <3>3 DEF LinkInv
  <2>3. CASE at[s] # NULL
    <3>1. PICK p \in Waiters : p = at[s]
      BY <1>0, <2>3 DEF Typed
    <3>2. /\ prev' = IF next[p] = NULL THEN prev ELSE [prev EXCEPT ![next[p]] = NULL]
          /\ next' = [next EXCEPT ![p] = NULL]
          /\ head' = head
      BY <2>3, <3>1 DEF Split
    <3>3. /\ next[p] # NULL => next[p] \in G[s] /\ In(next[p]) /\ prev[next[p]] = p
          /\ \A u \in Waiters : In(u) /\ prev[u] = p => next[p] = u
      BY <2>2, <3>1
    <3>4. \A u \in Waiters : next'[u] = IF u = at[s] THEN NULL ELSE next[u]
      BY <1>0, <3>1, <3>2 DEF Typed
    <3>5. \A u \in Waiters : prev'[u] = IF u = next[p] THEN NULL ELSE prev[u]
      BY <1>0, <3>2, Names DEF Typed
    <3>6. \A u \in Waiters : u = next[p] => u \in G[s] /\ In(u) /\ prev[u] = p
      BY <3>3, Names
    <3>7. QED BY <2>3, <3>1, <3>2, <3>3, <3>4, <3>5, <3>6
  <2>4. QED BY <2>1, <2>3
<1>5. \A u \in Waiters : u \in G[s] => ~Main(u) /\ u # at[s]
  <2>1. \A u \in Waiters : u \in G[s] => ~Main(u)
    BY <1>3, Apart, Names DEF Grouped, Main
  <2>2. QED BY <1>0, <1>1, <2>1 DEF ListInv
<1>6. LinkInv'
  <2>1. ASSUME NEW t \in Waiters, NEW u \in Waiters, In(t)', prev'[t] = u
        PROVE  In(u)' /\ next'[u] = t
    <3>1. prev[t] = u /\ In(t)
      BY <1>2, <1>4, <2>1, Names
    <3>2. In(u) /\ next[u] = t
      BY <1>0, <3>1 DEF LinkInv
    <3>3. u # at[s]
      BY <1>4, <2>1, <3>1, Names
    <3>4. QED BY <1>2, <1>4, <3>2, <3>3
  <2>2. ASSUME NEW t \in Waiters, NEW u \in Waiters, Listed(t)', next'[t] = u
        PROVE  In(u)' /\ prev'[u] = t
    <3>1. next[t] = u /\ t # at[s] /\ Listed(t)
      BY <1>2, <1>4, <2>2, Names
    <3>2. In(u) /\ prev[u] = t
      BY <1>0, <3>1 DEF LinkInv
    <3>3. QED BY <1>2, <1>4, <3>1, <3>2
  <2>3. QED BY <2>1, <2>2 DEF LinkInv
<1>7. ListInv'
  <2>1. head' = NULL <=> tail' = NULL
    BY <1>0, <1>1, <1>4 DEF ListInv
  <2>2. ASSUME NEW t \in Waiters, t = Oldest' PROVE Main(t)' /\ next'[t] = NULL
    BY <1>0, <1>1, <1>2, <1>4, <2>2 DEF ListInv
  <2>3. ASSUME NEW t \in Waiters, t = head' PROVE Main(t)' <=> Oldest' # NULL
    BY <1>0, <1>1, <1>2, <1>4, <2>3, Names DEF ListInv
  <2>4. ASSUME NEW t \in Waiters, Main(t)'
        PROVE  /\ prev'[t] = NULL <=> t = head'
               /\ t # Oldest' => next'[t] # NULL
               /\ \A u \in Waiters : u = prev'[t] \/ (t # Oldest' /\ u = next'[t]) => Main(u)'
    <3>1. Main(t) /\ t \notin G[s]
      BY <1>2, <1>5, <2>4
    <3>2. prev'[t] = prev[t] /\ (t # at[s] => next'[t] = next[t])
      BY <1>4, <3>1
    <3>3. at[s] = NULL => head # t
      BY <1>0, <1>1, <3>1 DEF ListInv
    <3>4. QED BY <1>0, <1>1, <1>2, <1>4, <3>1, <3>2, <3>3 DEF ListInv
  <2>5. QED BY <1>1, <1>4, <2>1, <2>2, <2>3, <2>4 DEF ListInv
<1>8. TurnInv'
  <2>1. \A t, u \in Waiters : prev'[t] = u => prev[t] = u
    BY <1>4, Names
  <2>2. QED BY <1>0, <1>2, <2>1 DEF TurnInv
<1>9. GroupInv'
  <2>1. ASSUME NEW r \in Signallers, NEW t \in Waiters, t \in G[r], prev'[t] # NULL
        PROVE  prev'[t] \in G[r]
    <3>1. prev'[t] = prev[t] /\ In(t)
      BY <1>3, <1>4, <2>1, Apart DEF Grouped
    <3>2. prev[t] \in G[r] \/ (held = r /\ prev[t] = at[r])
      BY <1>3, <2>1, <3>1 DEF Grouped
    <3>3. held = r => r = s
      BY <1>1
    <3>4. QED BY <1>0, <1>4, <2>1, <3>1, <3>2, <3>3 DEF Typed
  <2>2. ASSUME NEW r \in Signallers, NEW t \in Waiters, prev'[t] # NULL
        PROVE  prev'[t] = prev[t]
    BY <1>4, <2>2
  <2>3. \A r \in Signallers : Taker(r)' <=> Taker(r)
    <3>1. ASSUME NEW r \in Signallers, r # s PROVE Taker(r)' <=> Taker(r)
      BY <1>1, <3>1, Names DEF Taker
    <3>2. QED BY <1>1, <3>1
  <2>4. ASSUME NEW r \in Signallers PROVE Grouped(G, O, r)'
    <3>1. ASSUME NEW t \in Waiters
          PROVE  /\ In(t)' /\ prev'[t] \in G[r] => t \in G[r]
                 /\ Taker(r) /\ first[r] # NULL /\ In(t)' /\ prev'[t] \in O[r] \cup {first[r]} =>
                      t \in O[r]
      <4>1. prev'[t] \in G[r] \/ (first[r] # NULL /\ prev'[t] \in O[r] \cup {first[r]}) =>
              prev'[t] = prev[t]
        BY <1>4, Names
      <4>2. QED BY <1>2, <1>3, <4>1 DEF Grouped
    <3>2. held' # r /\ held' = NULL
      BY <1>1, Names
    <3>3. /\ ~Taker(r)' => G[r] = {}
          /\ \A z \in Signallers : z # r => G[r] \cap G[z] = {}
          /\ O[r] \subseteq G[r] /\ \A t \in O[r] : Listed(t)'
      BY <1>2, <1>3, <2>3 DEF Grouped
    <3>4. ASSUME NEW t \in Waiters
          PROVE  /\ t \in G[r] => Shut(t)' \/ (Listed(t)' /\ notify'[t] = r)
                 /\ Listed(t)' /\ notify'[t] = r => t \in G[r]
                 /\ Taker(r)' /\ first'[r] = t => t \in G[r] /\ Shut(t)'
                 /\ ~ (Taker(r)' /\ first'[r] # NULL) /\ t \in G[r] => t \in O[r]
      BY <1>1, <1>2, <1>3, <2>3 DEF Grouped
    <3>5. first'[r] = first[r] /\ (Taker(r)' <=> Taker(r))
      BY <1>1, <2>3
    <3>6. QED BY <2>1, <3>1, <3>2, <3>3, <3>4, <3>5 DEF Grouped
  <2>5. QED BY <2>4 DEF GroupInv
<1>10. CountInv'
  <2>1. \A t \in Waiters : Before(t) => t # at[s]
    BY <1>0, <1>1, Apart DEF ListInv
  <2>2. ASSUME NEW t \in Waiters, Before(t), NEW u \in Waiters
        PROVE  (In(u)' /\ prev'[u] = t) <=> (In(u) /\ prev[u] = t)
    BY <1>2, <1>4, <2>1, <2>2, Names
  <2>3. Counted' = Counted
    BY <1>2, <1>4, <2>1, <2>2 DEF Counted
  <2>4. QED BY <1>0, <1>1, <2>3 DEF CountInv
<1>11. RefInv'
  <2>1. ASSUME NEW r \in Signallers PROVE Leavers(r)' = Leavers(r)
    BY <1>1, <1>2 DEF Leavers
  <2>2. QED BY <1>0, <1>1, <2>1, Names DEF RefInv
<1>12. QED BY <1>6, <1>7, <1>8, <1>9, <1>10, <1>11 DEF ShapeInv

\* A node enters the list at its head.
LEMMA EnlistStep ==
  ASSUME IInv, NEW t \in Waiters, Enlist(t) PROVE ShapeInv' /\ RefInv' /\ CountInv'
<1>0. /\ Typed /\ StateInv /\ RefInv /\ CountInv /\ ShapeInv
      /\ LinkInv /\ ListInv /\ TurnInv /\ word \in [Addrs -> Values]
  BY Functions DEF IInv, ShapeInv
<1>1. /\ UNCHANGED <<at, first, held, mWaiters>>
      /\ held = NULL /\ head' = t /\ tail' = IF tail = NULL THEN t ELSE tail
      /\ \A u \in Threads : u # t => pc'[u] = pc[u] /\ word'[u] = word[u]
      /\ \A u \in Waiters : u # t => /\ state'[u] = state[u] /\ notify'[u] = notify[u]
                                     /\ next'[u] = next[u]
      /\ pc[t] = "locked" /\ pc'[t] = "enlisted" /\ state'[t] = "waiting" /\ notify'[t] = NULL
      /\ next'[t] = head /\ prev'[t] = NULL
      /\ \A u \in Waiters : u # t => prev'[u] = IF tail # NULL /\ u = head THEN t ELSE prev[u]
  BY <1>0, Names DEF Enlist, Put, Goto, Typed, walkVars
<1>2. /\ ~Listed(t) /\ ~Before(t) /\ ~In(t) /\ ~Main(t) /\ ~Shut(t)
      /\ Listed(t)' /\ ~Before(t)' /\ In(t)' /\ Main(t)'
  BY <1>1 DEF Listed, Before, In, Main, Shut, Queued, Blocking, InWait
<1>3. \A u \in Waiters : u # t => /\ Listed(u)' <=> Listed(u)
                                  /\ Before(u)' <=> Before(u)
                                  /\ In(u)' <=> In(u)
                                  /\ Main(u)' <=> Main(u)
                                  /\ pc'[u] = pc[u]
                                  /\ Shut(u) => Shut(u)'
  BY <1>1, SameNode, Names DEF Shut, Main
<1>4. Oldest = tail /\ Oldest' = tail' /\ (head = NULL <=> tail = NULL)
  BY <1>0, <1>1 DEF Oldest, ListInv
<1>5. \A u \in Waiters : u = head => Main(u) /\ Listed(u) /\ In(u) /\ u # t /\ prev[u] = NULL /\ ~Before(u)
  BY <1>0, <1>2, <1>4, Apart, Names DEF ListInv
<1>6. \A u \in Waiters : u # t => prev'[u] = IF u = head THEN t ELSE prev[u]
  BY <1>1, <1>4, Names
<1>7. LinkInv'
  <2>1. ASSUME NEW x \in Waiters, NEW u \in Waiters, In(x)', prev'[x] = u
        PROVE  In(u)' /\ next'[u] = x
    <3>1. x # t
      BY <1>1, <2>1, Names
    <3>2. CASE x = head
      BY <1>1, <1>2, <1>6, <2>1, <3>1, <3>2
    <3>3. CASE x # head
      <4>1. In(u) /\ next[u] = x
        BY <1>0, <1>3, <1>6, <2>1, <3>1, <3>3 DEF LinkInv
      <4>2. QED BY <1>1, <1>2, <1>3, <4>1
    <3>4. QED BY <3>2, <3>3
  <2>2. ASSUME NEW x \in Waiters, NEW u \in Waiters, Listed(x)', next'[x] = u
        PROVE  In(u)' /\ prev'[u] = x
    <3>1. CASE x = t
      BY <1>1, <1>3, <1>5, <1>6, <2>2, <3>1
    <3>2. CASE x # t
      <4>1. In(u) /\ prev[u] = x
        BY <1>0, <1>1, <1>3, <2>2, <3>2 DEF LinkInv
      <4>2. u # t /\ u # head
        BY <1>2, <1>5, <4>1, Names
      <4>3. QED BY <1>3, <1>6, <4>1, <4>2
    <3>3. QED BY <3>1, <3>2
  <2>3. QED BY <2>1, <2>2 DEF LinkInv
<1>8. ListInv'
  <2>1. head' # NULL /\ tail' # NULL
    BY <1>1, Names
  <2>2. ASSUME NEW x \in Waiters, x = tail' PROVE Main(x)' /\ next'[x] = NULL
    BY <1>0, <1>1, <1>2, <1>3, <1>4, <2>2 DEF ListInv
  <2>3. ASSUME NEW x \in Waiters, Main(x)'
        PROVE  /\ prev'[x] = NULL <=> x = head'
               /\ x # Oldest' => next'[x] # NULL
               /\ \A u \in Waiters : u = prev'[x] \/ (x # Oldest' /\ u = next'[x]) => Main(u)'
    <3>1. CASE x = t
      BY <1>1, <1>2, <1>3, <1>4, <1>5, <3>1, Names
    <3>2. CASE x # t
      <4>1. Main(x)
        BY <1>3, <2>3, <3>2
      <4>2. x # Oldest' => x # Oldest
        BY <1>1, <1>4, Names
      <4>3. prev'[x] = NULL <=> x = head'
        BY <1>0, <1>1, <1>6, <3>2, <4>1, Names DEF ListInv
      <4>4. x # Oldest' => next'[x] # NULL
        BY <1>0, <1>1, <3>2, <4>1, <4>2 DEF ListInv
      <4>5. ASSUME NEW u \in Waiters, u = prev'[x] \/ (x # Oldest' /\ u = next'[x])
            PROVE  Main(u)'
        <5>1. u = t \/ u = prev[x] \/ (x # Oldest /\ u = next[x])
          BY <1>1, <1>6, <3>2, <4>2, <4>5
        <5>2. u # t => Main(u)
          BY <1>0, <4>1, <5>1 DEF ListInv
        <5>3. QED BY <1>2, <1>3, <5>2
      <4>6. QED BY <4>3, <4>4, <4>5
    <3>3. QED BY <3>1, <3>2
  <2>4. QED BY <1>1, <1>2, <1>4, <2>1, <2>2, <2>3 DEF ListInv
<1>9. TurnInv'
  <2>1. ASSUME NEW x \in Waiters, NEW u \in Waiters, Before(x)', prev'[x] = u
        PROVE  Shut(u)' \/ Listed(u)'
    <3>1. x # t /\ x # head /\ Before(x)
      BY <1>2, <1>3, <1>5, <2>1
    <3>2. prev[x] = u /\ u # t
      BY <1>0, <1>2, <1>6, <2>1, <3>1 DEF TurnInv
    <3>3. QED BY <1>0, <1>3, <3>1, <3>2 DEF TurnInv
  <2>2. QED BY <2>1 DEF TurnInv
<1>10. GroupInv'
  <2>1. PICK G \in [Signallers -> SUBSET Waiters], O \in [Signallers -> SUBSET Waiters] :
               \A r \in Signallers : Grouped(G, O, r)
    BY <1>0 DEF ShapeInv, GroupInv
  <2>2. ASSUME NEW r \in Signallers
        PROVE  /\ t \notin G[r] /\ t \notin O[r] /\ head \notin G[r]
               /\ Taker(r) => first[r] # t
               /\ Taker(r)' <=> Taker(r)
               /\ held # r /\ held' # r
    <3>1. t \notin G[r] /\ (Taker(r) => first[r] # t)
      BY <1>2, <2>1 DEF Grouped
    <3>2. t \notin O[r]
      BY <2>1, <3>1 DEF Grouped
    <3>3. head \notin G[r]
      BY <1>5, <2>1, Apart, Names DEF Grouped, Main
    <3>4. QED BY <1>1, <3>1, <3>2, <3>3, Names DEF Taker
  <2>3. ASSUME NEW r \in Signallers PROVE Grouped(G, O, r)'
    <3>1. ASSUME NEW x \in Waiters, x = t
          PROVE  /\ x \notin G[r] /\ notify'[x] # r /\ prev'[x] = NULL /\ first'[r] = first[r]
      BY <1>1, <2>2, <3>1, Names
    <3>2. ASSUME NEW x \in Waiters, x # t
          PROVE  /\ x \in G[r] => Shut(x)' \/ (Listed(x)' /\ notify'[x] = r)
                 /\ Listed(x)' /\ notify'[x] = r => x \in G[r]
                 /\ x \in G[r] /\ prev'[x] # NULL => prev'[x] \in G[r]
                 /\ In(x)' /\ prev'[x] \in G[r] => x \in G[r]
                 /\ Taker(r)' /\ first'[r] = x => x \in G[r] /\ Shut(x)'
                 /\ Taker(r)' /\ first'[r] # NULL /\ In(x)' /\ prev'[x] \in O[r] \cup {first'[r]} =>
                      x \in O[r]
                 /\ ~ (Taker(r)' /\ first'[r] # NULL) /\ x \in G[r] => x \in O[r]
      <4>1. Grouped(G, O, r)
        BY <2>1
      <4>2. CASE x = head
        <5>1. prev'[x] = t /\ x \notin G[r] /\ Main(x)
          BY <1>5, <1>6, <2>2, <3>2, <4>2
        <5>2. ~(Listed(x)' /\ notify'[x] = r)
          BY <1>1, <3>2, <5>1, Names DEF Main
        <5>3. Taker(r)' => first'[r] # x
          BY <1>1, <2>2, <4>1, <5>1 DEF Grouped
        <5>4. Taker(r)' => t # first'[r]
          BY <1>1, <2>2
        <5>5. QED BY <2>2, <5>1, <5>2, <5>3, <5>4
      <4>3. CASE x # head
        <5>1. prev'[x] = prev[x]
          BY <1>6, <3>2, <4>3
        <5>2. QED BY <1>1, <1>3, <2>2, <3>2, <4>1, <5>1 DEF Grouped
      <4>4. QED BY <4>2, <4>3
    <3>3. /\ ~Taker(r)' => G[r] = {}
          /\ \A z \in Signallers : z # r => G[r] \cap G[z] = {}
          /\ O[r] \subseteq G[r] /\ \A x \in O[r] : Listed(x)'
      BY <1>2, <1>3, <2>1, <2>2 DEF Grouped
    <3>4. ~ (Taker(r)' /\ first'[r] = t)
      BY <1>1, <2>2
    <3>5. NULL \notin G[r] /\ NULL \notin O[r]
      BY <2>1, Names
    <3>6. held' # r
      BY <2>2
    <3>7. QED BY <3>1, <3>2, <3>3, <3>4, <3>5, <3>6 DEF Grouped
  <2>4. QED BY <2>3 DEF GroupInv
<1>11. CountInv'
  <2>1. ASSUME NEW x \in Waiters, Before(x), NEW u \in Waiters
        PROVE  (In(u)' /\ prev'[u] = x) <=> (In(u) /\ prev[u] = x)
    BY <1>1, <1>2, <1>3, <1>5, <1>6, <2>1, Names
  <2>2. \A x \in Waiters : Before(x)' <=> Before(x)
    BY <1>2, <1>3
  <2>3. \A x \in Waiters : Before(x) => x # t
    BY <1>2
  <2>4. Counted' = Counted
    BY <1>1, <1>3, <2>1, <2>2, <2>3 DEF Counted
  <2>5. QED BY <1>0, <1>1, <2>4 DEF CountInv
<1>12. RefInv'
  <2>1. ASSUME NEW r \in Signallers PROVE Leavers(r)' = Leavers(r)
    BY <1>1, <1>3 DEF Leavers
  <2>2. QED BY <1>0, <1>1, <2>1, Names DEF RefInv
<1>13. QED BY <1>7, <1>8, <1>9, <1>10, <1>11, <1>12 DEF ShapeInv

\* A waiter that gave up takes its node off the list, or from among the nodes of
\* a group, and ties its neighbours together.
LEMMA UnlinkStep ==
  ASSUME IInv, NEW t \in Waiters, Unlink(t) PROVE ShapeInv' /\ RefInv' /\ CountInv'
<1> DEFINE p == prev[t]
           q == next[t]
<1>0. /\ Typed /\ StateInv /\ RefInv /\ CountInv /\ ShapeInv
      /\ LinkInv /\ ListInv /\ TurnInv
  BY DEF IInv, ShapeInv
<1>1. /\ UNCHANGED <<at, first, held, mWaiters, notify, state, word>>
      /\ held = NULL
      /\ head' = IF head = t THEN q ELSE head
      /\ next' = IF head # t /\ p # NULL THEN [next EXCEPT ![p] = q] ELSE next
      /\ tail' = IF tail = t THEN p ELSE tail
      /\ prev' = IF tail # t /\ q # NULL THEN [prev EXCEPT ![q] = p] ELSE prev
      /\ \A u \in Threads : u # t => pc'[u] = pc[u]
      /\ pc[t] = "leave" /\ pc'[t] = "notify" /\ state[t] = "leaving"
  BY <1>0, Names DEF Unlink, Goto, Typed, StateInv, walkVars, futexVars
<1>2. /\ Listed(t) /\ ~Before(t) /\ In(t) /\ ~Shut(t) /\ p \in Waiters \cup {NULL} /\ q \in Waiters \cup {NULL}
      /\ ~Listed(t)' /\ ~Before(t)' /\ ~In(t)' /\ ~Main(t)'
  BY <1>0, <1>1 DEF Listed, Before, In, Main, Shut, Queued, Blocking, InWait, Typed
<1>3. \A u \in Waiters : u # t => /\ Listed(u)' <=> Listed(u)
                                  /\ Before(u)' <=> Before(u)
                                  /\ In(u)' <=> In(u)
                                  /\ Main(u)' <=> Main(u)
                                  /\ pc'[u] = pc[u]
                                  /\ Shut(u) => Shut(u)'
  BY <1>1, SameNode, Names DEF Shut, Main
<1>4. Oldest = tail /\ Oldest' = tail' /\ (head = NULL <=> tail = NULL)
  BY <1>0, <1>1 DEF Oldest, ListInv
<1>5. /\ head = t => Main(t) /\ p = NULL
      /\ tail = t => Main(t) /\ q = NULL
      /\ Main(t) => /\ p = NULL <=> t = head
                    /\ t # tail => q # NULL
                    /\ \A u \in Waiters : u = p \/ (t # tail /\ u = q) => Main(u)
  BY <1>0, <1>1, <1>4, Names DEF ListInv
<1>6. \A u \in Waiters : /\ next'[u] = IF u = p THEN q ELSE next[u]
                         /\ prev'[u] = IF u = q THEN p ELSE prev[u]
  BY <1>0, <1>1, <1>2, <1>5, Names DEF Typed
<1>7. /\ \A u \in Waiters : u = p => In(u) /\ next[u] = t
      /\ \A u \in Waiters : u = q => In(u) /\ prev[u] = t
      /\ \A u \in Waiters : In(u) /\ prev[u] = t => u = q
      /\ \A u \in Waiters : Listed(u) /\ next[u] = t => u = p
      /\ p = t <=> q = t
  BY <1>0, <1>2 DEF LinkInv
<1> HIDE DEF p, q
<1>8. LinkInv'
  <2>1. ASSUME NEW x \in Waiters, NEW u \in Waiters, In(x)', prev'[x] = u
        PROVE  In(u)' /\ next'[u] = x
    <3>1. x # t /\ In(x)
      BY <1>2, <1>3, <2>1
    <3>2. CASE x = q
      <4>1. u = p /\ p # t
        BY <1>6, <1>7, <2>1, <3>1, <3>2
      <4>2. In(u) /\ next'[u] = q
        BY <1>6, <1>7, <4>1
      <4>3. QED BY <1>3, <3>2, <4>1, <4>2
    <3>3. CASE x # q
      <4>1. prev[x] = u /\ u # t
        BY <1>6, <1>7, <2>1, <3>1, <3>3
      <4>2. In(u) /\ next[u] = x
        BY <1>0, <3>1, <4>1 DEF LinkInv
      <4>3. u # p
        BY <1>7, <3>1, <4>2
      <4>4. QED BY <1>3, <1>6, <4>1, <4>2, <4>3
    <3>4. QED BY <3>2, <3>3
  <2>2. ASSUME NEW x \in Waiters, NEW u \in Waiters, Listed(x)', next'[x] = u
        PROVE  In(u)' /\ prev'[u] = x
    <3>1. x # t /\ Listed(x)
      BY <1>2, <1>3, <2>2
    <3>2. CASE x = p
      <4>1. u = q /\ q # t
        BY <1>6, <1>7, <2>2, <3>1, <3>2
      <4>2. In(u) /\ prev'[u] = p
        BY <1>6, <1>7, <4>1
      <4>3. QED BY <1>3, <3>2, <4>1, <4>2
    <3>3. CASE x # p
      <4>1. next[x] = u /\ u # t
        BY <1>6, <1>7, <2>2, <3>1, <3>3
      <4>2. In(u) /\ prev[u] = x
        BY <1>0, <3>1, <4>1 DEF LinkInv
      <4>3. u # q
        BY <1>7, <3>1, <4>2
      <4>4. QED BY <1>3, <1>6, <4>1, <4>2, <4>3
    <3>4. QED BY <3>2, <3>3
  <2>3. QED BY <2>1, <2>2 DEF LinkInv
<1>9. ListInv'
  <2>1. head' = NULL <=> tail' = NULL
    BY <1>1, <1>4, <1>5, Names
  <2>2. ASSUME NEW x \in Waiters, x = tail' PROVE Main(x)' /\ next'[x] = NULL
    <3>1. CASE tail = t
      <4>1. x = p /\ q = NULL /\ Main(x) /\ x # t
        BY <1>1, <1>5, <1>7, <2>2, <3>1, Names
      <4>2. QED BY <1>3, <1>6, <4>1
    <3>2. CASE tail # t
      <4>1. x = Oldest /\ x # t
        BY <1>1, <1>4, <2>2, <3>2
      <4>2. Main(x) /\ next[x] = NULL
        BY <1>0, <1>1, <4>1 DEF ListInv
      <4>3. x # p
        BY <1>7, <4>2, Names
      <4>4. QED BY <1>3, <1>6, <4>1, <4>2, <4>3
    <3>3. QED BY <3>1, <3>2
  <2>3. ASSUME NEW x \in Waiters, x = head' PROVE Main(x)'
    <3>1. CASE head = t
      <4>1. x = q /\ Main(t) /\ t # tail /\ x # t
        BY <1>1, <1>5, <1>7, <2>3, <3>1, Names
      <4>2. QED BY <1>3, <1>5, <4>1
    <3>2. CASE head # t
      <4>1. x = head /\ Oldest # NULL /\ x # t
        BY <1>1, <1>4, <2>3, <3>2, Names
      <4>2. QED BY <1>0, <1>3, <4>1 DEF ListInv
    <3>3. QED BY <3>1, <3>2
  <2>4. ASSUME NEW x \in Waiters, Main(x)'
        PROVE  /\ prev'[x] = NULL <=> x = head'
               /\ x # Oldest' => next'[x] # NULL
               /\ \A u \in Waiters : u = prev'[x] \/ (x # Oldest' /\ u = next'[x]) => Main(u)'
    <3>1. /\ x # t /\ Main(x) /\ Listed(x) /\ In(x)
          /\ prev[x] = NULL <=> x = head
          /\ x # tail => next[x] # NULL
          /\ x = tail => next[x] = NULL
          /\ \A u \in Waiters : u = prev[x] \/ (x # tail /\ u = next[x]) => Main(u)
      <4>1. x # t /\ Main(x)
        BY <1>2, <1>3, <2>4
      <4>2. QED BY <1>0, <1>1, <1>4, <4>1, Apart DEF ListInv
    <3>2. /\ x = q => Main(t) /\ prev[x] = t
          /\ x = p => Main(t) /\ next[x] = t /\ x # tail
      BY <1>7, <3>1, Names
    <3>3. x # tail' /\ x # p => x # tail
      BY <1>1, <3>1
    <3>4. x = p /\ q = NULL => x = tail'
      BY <1>1, <1>5, <3>2
    <3>5. prev'[x] = NULL <=> x = head'
      <4>1. CASE x = q
        BY <1>1, <1>5, <1>6, <3>1, <3>2, <4>1, Names
      <4>2. CASE x # q
        BY <1>1, <1>6, <3>1, <4>2
      <4>3. QED BY <4>1, <4>2
    <3>6. x # Oldest' => next'[x] # NULL
      BY <1>4, <1>6, <3>1, <3>3, <3>4
    <3>7. ASSUME NEW u \in Waiters, u = prev'[x] \/ (x # Oldest' /\ u = next'[x])
          PROVE  Main(u)'
      <4>1. CASE u = prev'[x]
        <5>1. CASE x = q
          BY <1>3, <1>5, <1>6, <1>7, <3>1, <3>2, <4>1, <5>1
        <5>2. CASE x # q
          BY <1>3, <1>6, <1>7, <3>1, <4>1, <5>2
        <5>3. QED BY <5>1, <5>2
      <4>2. CASE x # Oldest' /\ u = next'[x]
        <5>1. CASE x = p
          <6>1. t # tail /\ u = q /\ q # t
            BY <1>1, <1>4, <1>6, <1>7, <3>1, <4>2, <5>1
          <6>2. QED BY <1>3, <1>5, <3>2, <5>1, <6>1
        <5>2. CASE x # p
          BY <1>3, <1>4, <1>6, <1>7, <3>1, <3>3, <4>2, <5>2
        <5>3. QED BY <5>1, <5>2
      <4>3. QED BY <3>7, <4>1, <4>2
    <3>8. QED BY <3>5, <3>6, <3>7
  <2>5. tail' # NULL => head' # NULL
    BY <2>1
  <2>6. QED BY <1>1, <1>4, <2>1, <2>2, <2>3, <2>4, <2>5, Names DEF ListInv
<1>10. TurnInv'
  <2>1. ASSUME NEW x \in Waiters, NEW u \in Waiters, Before(x)', prev'[x] = u
        PROVE  Shut(u)' \/ Listed(u)'
    <3>1. x # t /\ Before(x) /\ In(x)
      BY <1>2, <1>3, <2>1, Apart
    <3>2. CASE x = q
      <4>1. u = p /\ u # t
        BY <1>6, <1>7, <2>1, <3>1, <3>2
      <4>2. prev[t] = u
        BY <4>1 DEF p
      <4>3. Shut(u) \/ Listed(u)
        BY <1>0, <1>2, <4>2, Behind
      <4>4. QED BY <1>3, <4>1, <4>3
    <3>3. CASE x # q
      <4>1. prev[x] = u /\ u # t
        BY <1>6, <1>7, <2>1, <3>1, <3>3
      <4>2. QED BY <1>0, <1>3, <3>1, <4>1 DEF TurnInv
    <3>4. QED BY <3>2, <3>3
  <2>2. QED BY <2>1 DEF TurnInv
<1>11. GroupInv'
  <2>1. PICK G \in [Signallers -> SUBSET Waiters], O \in [Signallers -> SUBSET Waiters] :
               \A r \in Signallers : Grouped(G, O, r)
    BY <1>0 DEF ShapeInv, GroupInv
  <2> DEFINE G2 == [r \in Signallers |-> G[r] \ {t}]
             O2 == [r \in Signallers |-> O[r] \ {t}]
  <2>2. /\ G2 \in [Signallers -> SUBSET Waiters] /\ O2 \in [Signallers -> SUBSET Waiters]
        /\ \A r \in Signallers : G2[r] = G[r] \ {t} /\ O2[r] = O[r] \ {t}
    BY <2>1
  <2> HIDE DEF G2, O2
  <2>3. ASSUME NEW r \in Signallers PROVE Grouped(G2, O2, r)'
    <3>1. /\ held # r /\ held' # r /\ (Taker(r)' <=> Taker(r)) /\ first'[r] = first[r]
          /\ notify' = notify /\ r # NULL
      BY <1>1, Names DEF Taker
    <3>2. /\ ~Taker(r)' => G2[r] = {}
          /\ \A z \in Signallers : z # r => G2[r] \cap G2[z] = {}
          /\ O2[r] \subseteq G2[r] /\ \A x \in O2[r] : Listed(x)'
      BY <1>3, <2>1, <2>2, <3>1 DEF Grouped
    \* What the group says of the node that leaves.
    <3>3. /\ t \in G[r] /\ p # NULL => p \in G[r]
          /\ p \in G[r] => t \in G[r]
          /\ Taker(r) /\ first[r] # NULL /\ p \in O[r] \cup {first[r]} => t \in O[r]
          /\ ~ (Taker(r) /\ first[r] = t)
      BY <1>2, <2>1, <3>1 DEF Grouped, p
    <3>4. ASSUME NEW x \in Waiters, x # t
          PROVE  /\ x \in G[r] => Shut(x)' \/ (Listed(x)' /\ notify'[x] = r)
                 /\ Listed(x)' /\ notify'[x] = r => x \in G[r]
                 /\ x \in G[r] /\ prev'[x] # NULL => prev'[x] \in G[r] /\ prev'[x] # t
                 /\ In(x)' /\ prev'[x] \in G[r] => x \in G[r]
                 /\ Taker(r) /\ first[r] = x => x \in G[r] /\ Shut(x)'
                 /\ Taker(r) /\ first[r] # NULL /\ In(x)' /\ prev'[x] \in O[r] \cup {first[r]} =>
                      x \in O[r]
                 /\ ~ (Taker(r) /\ first[r] # NULL) /\ x \in G[r] => x \in O[r]
      <4>1. Grouped(G, O, r) /\ (In(x)' <=> In(x)) /\ (x \in G[r] => In(x))
        BY <1>3, <2>1, <3>4, Apart DEF Grouped
      <4>2. /\ x \in G[r] => Shut(x)' \/ (Listed(x)' /\ notify'[x] = r)
            /\ Listed(x)' /\ notify'[x] = r => x \in G[r]
            /\ Taker(r) /\ first[r] = x => x \in G[r] /\ Shut(x)'
            /\ ~ (Taker(r) /\ first[r] # NULL) /\ x \in G[r] => x \in O[r]
        BY <1>3, <3>1, <3>4, <4>1 DEF Grouped
      <4>3. CASE x = q
        <5>1. prev'[x] = p /\ prev[x] = t /\ In(x) /\ p # t
          BY <1>6, <1>7, <3>4, <4>3
        <5>2. /\ x \in G[r] => t \in G[r]
              /\ t \in G[r] => x \in G[r]
              /\ Taker(r) /\ first[r] # NULL /\ t \in O[r] => x \in O[r]
          BY <3>1, <4>1, <5>1, Names DEF Grouped
        <5>3. QED BY <3>3, <4>2, <5>1, <5>2
      <4>4. CASE x # q
        <5>1. prev'[x] = prev[x] /\ (In(x) => prev[x] # t)
          BY <1>6, <1>7, <4>4
        <5>2. /\ x \in G[r] /\ prev[x] # NULL => prev[x] \in G[r]
              /\ In(x) /\ prev[x] \in G[r] => x \in G[r]
              /\ Taker(r) /\ first[r] # NULL /\ In(x) /\ prev[x] \in O[r] \cup {first[r]} => x \in O[r]
          BY <3>1, <4>1 DEF Grouped
        <5>3. QED BY <4>1, <4>2, <5>1, <5>2
      <4>5. QED BY <4>3, <4>4
    <3>5. ASSUME NEW x \in Waiters
          PROVE  /\ x \in G2[r] => Shut(x)' \/ (Listed(x)' /\ notify'[x] = r)
                 /\ Listed(x)' /\ notify'[x] = r => x \in G2[r]
                 /\ x \in G2[r] /\ prev'[x] # NULL => prev'[x] \in G2[r]
                 /\ In(x)' /\ prev'[x] \in G2[r] => x \in G2[r]
                 /\ Taker(r)' /\ first'[r] = x => x \in G2[r] /\ Shut(x)'
                 /\ Taker(r)' /\ first'[r] # NULL /\ In(x)' /\ prev'[x] \in O2[r] \cup {first'[r]} =>
                      x \in O2[r]
                 /\ ~ (Taker(r)' /\ first'[r] # NULL) /\ x \in G2[r] => x \in O2[r]
      <4>1. CASE x = t
        BY <1>2, <2>2, <3>1, <3>3, <4>1
      <4>2. CASE x # t
        BY <2>2, <3>1, <3>4, <4>2
      <4>3. QED BY <4>1, <4>2
    <3>6. QED BY <3>1, <3>2, <3>5 DEF Grouped
  <2>4. QED BY <2>2, <2>3 DEF GroupInv
<1>12. CountInv'
  <2>1. ASSUME NEW x \in Waiters, Before(x)
        PROVE  (next'[x] # NULL /\ ~ \E u \in Waiters : In(u)' /\ prev'[u] = x) <=>
               (next[x] # NULL /\ ~ \E u \in Waiters : In(u) /\ prev[u] = x)
    <3>1. x # t
      BY <1>2, <2>1
    <3>2. CASE x = p
      <4>1. In(t) /\ prev[t] = x
        BY <1>2, <3>2 DEF p
      <4>2. next'[x] # NULL => \E u \in Waiters : In(u)' /\ prev'[u] = x
        <5> SUFFICES ASSUME next'[x] # NULL PROVE \E u \in Waiters : In(u)' /\ prev'[u] = x
          OBVIOUS
        <5>1. PICK u \in Waiters : u = q
          BY <1>2, <1>6, <3>2
        <5>2. u # t /\ In(u) /\ prev'[u] = x
          BY <1>6, <1>7, <3>1, <3>2, <5>1
        <5>3. QED BY <1>3, <5>2
      <4>3. QED BY <4>1, <4>2
    <3>3. CASE x # p
      <4>1. next'[x] = next[x]
        BY <1>6, <3>3
      <4>2. ASSUME NEW u \in Waiters
            PROVE  (In(u)' /\ prev'[u] = x) <=> (In(u) /\ prev[u] = x)
        <5>1. CASE u = t
          BY <1>2, <3>3, <5>1 DEF p
        <5>2. CASE u # t
          BY <1>3, <1>6, <1>7, <3>1, <3>3, <5>2
        <5>3. QED BY <5>1, <5>2
      <4>3. QED BY <4>1, <4>2
    <3>4. QED BY <3>2, <3>3
  <2>2. \A x \in Waiters : Before(x)' <=> Before(x)
    BY <1>2, <1>3
  <2>3. \A x \in Waiters : Before(x) => pc'[x] = pc[x]
    BY <1>2, <1>3
  <2>4. Counted' = Counted
    BY <2>1, <2>2, <2>3 DEF Counted
  <2>5. QED BY <1>0, <1>1, <2>4 DEF CountInv
<1>13. RefInv'
  <2>1. ASSUME NEW r \in Signallers PROVE Leavers(r)' = Leavers(r)
    BY <1>1, <1>3 DEF Leavers
  <2>2. QED BY <1>0, <1>1, <2>1, Names DEF RefInv
<1>14. QED BY <1>8, <1>9, <1>10, <1>11, <1>12, <1>13 DEF ShapeInv

LEMMA ShapeStep == ASSUME IInv, [Next]_vars PROVE ShapeInv' /\ RefInv' /\ CountInv'
<1>1. ASSUME NEW t \in Waiters, WaiterMoves(t) PROVE ShapeInv' /\ RefInv' /\ CountInv'
  BY <1>1, EnlistStep, UnlinkStep, NotifyStep, SettleShape, SettleRef, SettleCount, PassCount
     DEF WaiterMoves
<1>2. ASSUME NEW s \in Signallers, SignallerMoves(s) PROVE ShapeInv' /\ RefInv' /\ CountInv'
  BY <1>2, SignalStep, ComeByStep, ComeByRef, SplitStep, ProceedStep, FreeStep DEF SignallerMoves
<1>3. QED BY <1>1, <1>2, QuietOrMove, QuietInv

-----------------------------------------------------------------------------
\* The barriers that Free and Pass open are those of nodes taken and waiting for
\* their turn.
LEMMA FirstShut ==
  ASSUME IInv, NEW s \in Signallers, Free(s) PROVE first[s] \in Waiters /\ Shut(first[s])
<1>1. PICK f \in Waiters : first[s] = f
  BY Names DEF IInv, Free, StateInv, Typed
<1>2. PICK G \in [Signallers -> SUBSET Waiters], O \in [Signallers -> SUBSET Waiters] :
             \A r \in Signallers : Grouped(G, O, r)
  BY DEF IInv, ShapeInv, GroupInv
<1>3. Shut(f)
  BY <1>1, <1>2 DEF Grouped, Free, Taker
<1>4. QED BY <1>1, <1>3

LEMMA NextShut ==
  ASSUME IInv, NEW t \in Waiters, Pass(t) PROVE prev[t] \in Waiters /\ Shut(prev[t])
<1>1. Typed /\ ShapeInv
  BY DEF IInv
<1>2. PICK v \in Waiters : prev[t] = v
  BY PassNodes
<1>3. Shut(v)
  BY <1>1, <1>2, PassNodes, Behind, BehindLeaver
<1>4. QED BY <1>2, <1>3

\* Who writes the barrier of a waiter.
Opened(u) == \/ \E t \in Waiters : Pass(t) /\ prev[t] = u
             \/ \E s \in Signallers : Free(s) /\ first[s] = u

LEMMA WordOf ==
  ASSUME IInv, [Next]_vars, NEW u \in Waiters
  PROVE  word'[u] = word[u] \/ Enlist(u) \/ LockBarrier(u) \/ Unblock(u) \/ (Shut(u) /\ Opened(u))
<1>0. Typed /\ word \in [Addrs -> Values] /\ u \in Threads
  BY Functions, Names DEF IInv
<1>1. ASSUME NEW t \in Waiters, WaiterOutside(t), ~LockBarrier(u), ~Unblock(u)
      PROVE  word'[u] = word[u]
  BY <1>0, <1>1
     DEF WaiterOutside, LockMutex, UnlockMutex, Late, Decide, LockBarrier, Unblock, Relock, Done,
         Put, futexVars
<1>2. ASSUME NEW t \in Waiters,
             WaiterCalls(t) \/ WaiterReturns(t) \/ TimeOut(t) \/ Move(t)
      PROVE  word'[u] = word[u]
  BY <1>2
     DEF WaiterCalls, WaiterReturns, Wait, WakeNotify, Block, Requeue, Waited, Woken, Blocked,
         Requeued, TimeOut, Expire, Move
<1>3. ASSUME NEW t \in Waiters, WaiterMoves(t), ~Enlist(u)
      PROVE  word'[u] = word[u] \/ (Shut(u) /\ Opened(u))
  <2>1. CASE Enlist(t) \/ Unlink(t) \/ Settle(t)
    BY <1>0, <1>3, <2>1 DEF Enlist, Unlink, Settle, Put, futexVars
  <2>2. CASE Notify(t)
    BY <1>0, <2>2, Names DEF Notify, Put, Typed
  <2>3. CASE Pass(t) /\ prev[t] = u
    BY <2>3, NextShut DEF Opened
  <2>4. CASE Pass(t) /\ prev[t] # u
    BY <1>0, <2>4 DEF Pass, Put
  <2>5. QED BY <1>3, <2>1, <2>2, <2>3, <2>4 DEF WaiterMoves
<1>4. ASSUME NEW s \in Signallers, SignallerCalls(s) \/ SignallerReturns(s)
      PROVE  word'[u] = word[u]
  BY <1>4 DEF SignallerCalls, SignallerReturns, Drain, WakeFirst, Drained, WokeFirst
<1>5. ASSUME NEW s \in Signallers, SignallerMoves(s)
      PROVE  word'[u] = word[u] \/ (Shut(u) /\ Opened(u))
  <2>1. CASE (\E k \in {1, -1} : Signal(s, k)) \/ PassOver(s)
    BY <1>0, <2>1, Names DEF Signal, PassOver, Put
  <2>2. CASE TakeNode(s) \/ Split(s) \/ Proceed(s)
    BY <2>2 DEF TakeNode, Split, Proceed, futexVars
  <2>3. CASE Free(s) /\ first[s] = u
    BY <2>3, FirstShut DEF Opened
  <2>4. CASE Free(s) /\ first[s] # u
    BY <1>0, <2>4 DEF Free, Put
  <2>5. QED BY <1>5, <2>1, <2>2, <2>3, <2>4 DEF SignallerMoves
<1>6. ASSUME NEW t \in Threads, FutexStep(t) PROVE word'[u] = word[u]
  BY <1>0, <1>6, FutexStepInv DEF Typed
<1>7. CASE UNCHANGED vars
  BY <1>7 DEF vars, futexVars
<1>8. QED
  BY <1>1, <1>2, <1>3, <1>4, <1>5, <1>6, <1>7, Steps

\* How a step leaves a waiter that waits, that no signal has taken.
LEMMA BarrierStep == ASSUME IInv, [Next]_vars PROVE BarrierInv'
<1> SUFFICES ASSUME NEW u \in Waiters, state'[u] = "waiting", InWait(u)'
             PROVE  notify'[u] = NULL /\ word'[u] = Closed
  BY DEF BarrierInv
<1>0. /\ Typed /\ StateInv /\ BarrierInv /\ ListInv /\ word \in [Addrs -> Values] /\ u \in Threads
      /\ pc \in [Threads -> WaiterLabels \cup SignallerLabels]
      /\ state \in [Waiters -> {"waiting", "leaving", "signaled"}]
  BY Functions, Names DEF IInv, ShapeInv, Typed
<1>1. CASE Enlist(u)
  BY <1>0, <1>1, Names DEF Enlist, Put, Typed
<1>2. ASSUME state[u] = "waiting", InWait(u), notify'[u] = notify[u], word'[u] = word[u]
      PROVE  notify'[u] = NULL /\ word'[u] = Closed
  BY <1>0, <1>2 DEF BarrierInv
<1>3. ASSUME ~Enlist(u)
      PROVE  state[u] = "waiting" /\ InWait(u) /\ notify'[u] = notify[u]
  <2>1. ASSUME NEW t \in Waiters,
               WaiterOutside(t) \/ WaiterCalls(t) \/ WaiterReturns(t) \/ TimeOut(t) \/ WaiterMoves(t)
        PROVE  state[u] = "waiting" /\ InWait(u) /\ notify'[u] = notify[u]
    <3>1. CASE t = u
      <4>1. CASE WaiterOutside(u)
        BY <1>0, <4>1
           DEF WaiterOutside, LockMutex, UnlockMutex, Late, Decide, LockBarrier, Unblock, Relock,
               Done, Goto, InWait, StateInv, listVars
      <4>2. CASE WaiterCalls(u) \/ WaiterReturns(u) \/ TimeOut(u)
        BY <1>0, <4>2
           DEF WaiterCalls, WaiterReturns, Wait, WakeNotify, Block, Requeue, Waited, Woken,
               Blocked, Requeued, TimeOut, Goto, InWait, StateInv, listVars
      <4>3. CASE WaiterMoves(u)
        BY <1>0, <1>3, <4>3
           DEF WaiterMoves, Unlink, Notify, Settle, Pass, Goto, InWait, StateInv, listVars
      <4>4. QED BY <2>1, <3>1, <4>1, <4>2, <4>3
    <3>2. CASE t # u
      BY <1>0, <2>1, <3>2, OthersStay, SameNode
    <3>3. QED BY <3>1, <3>2
  <2>2. ASSUME NEW s \in Signallers, SignallerMoves(s)
        PROVE  state[u] = "waiting" /\ InWait(u) /\ notify'[u] = notify[u]
    <3>1. CASE TakeNode(s) \/ PassOver(s)
      <4>1. PICK p \in Waiters : p = at[s]
        BY <1>0, <3>1 DEF TakeNode, PassOver, Walking, Typed
      <4>2. pc' = pc
        BY <3>1 DEF TakeNode, PassOver
      <4>3. u # p
        BY <1>0, <3>1, <4>1 DEF TakeNode, PassOver, Typed
      <4>4. state'[u] = state[u] /\ notify'[u] = notify[u]
        BY <1>0, <3>1, <4>1, <4>3 DEF TakeNode, PassOver, Typed, listVars
      <4>5. QED BY <4>2, <4>4 DEF InWait
    <3>2. CASE (\E k \in {1, -1} : Signal(s, k)) \/ Split(s) \/ Proceed(s) \/ Free(s)
      BY <1>0, <3>2, Names DEF Signal, Split, Proceed, Free, Goto, InWait, listVars
    <3>3. QED BY <2>2, <3>1, <3>2 DEF SignallerMoves
  <2>3. ASSUME NEW s \in Signallers, SignallerCalls(s) \/ SignallerReturns(s)
        PROVE  state[u] = "waiting" /\ InWait(u) /\ notify'[u] = notify[u]
    BY <1>0, <2>3, Names
       DEF SignallerCalls, SignallerReturns, Drain, WakeFirst, Drained, WokeFirst, Goto, InWait,
           listVars
  <2>4. CASE (\E t \in Waiters : Move(t)) \/ UNCHANGED condVars \/ UNCHANGED vars
    BY <2>4 DEF Move, condVars, vars, listVars, InWait
  <2>5. QED BY <2>1, <2>2, <2>3, <2>4, Steps
<1>4. ASSUME ~Enlist(u) PROVE word'[u] = word[u]
  <2>1. state[u] = "waiting" /\ InWait(u)
    BY <1>3, <1>4
  <2>2. ~Shut(u) /\ ~LockBarrier(u) /\ ~Unblock(u)
    BY <2>1 DEF Shut, Queued, LockBarrier, Unblock, InWait
  <2>3. QED BY <1>4, <2>2, WordOf
<1>5. QED BY <1>1, <1>2, <1>3, <1>4

\* Nobody writes the pointer along which a waiter passes the turn on.
LEMMA PrevStays ==
  ASSUME IInv, [Next]_vars, NEW t \in Waiters, pc[t] \in {"pass", "requeue", "requeueing"}
  PROVE  prev'[t] = prev[t]
<1>0. /\ Typed /\ StateInv /\ LinkInv /\ ListInv /\ ShapeInv /\ state[t] = "signaled"
      /\ ~Listed(t) /\ ~Shut(t) /\ (Before(t) \/ ~In(t))
      /\ prev \in [Waiters -> Waiters \cup {NULL}]
  BY DEF IInv, ShapeInv, StateInv, Typed, Listed, Before, In, Shut, Queued, Blocking, InWait
<1>1. ASSUME NEW u \in Waiters, Enlist(u) PROVE prev'[t] = prev[t]
  <2>1. tail # NULL => head # t
    BY <1>0, <1>1, Apart DEF Enlist, ListInv, Oldest
  <2>2. t # u
    BY <1>1 DEF Enlist
  <2>3. QED BY <1>1, <2>1, <2>2 DEF Enlist
<1>2. ASSUME NEW u \in Waiters, Unlink(u) PROVE prev'[t] = prev[t]
  <2>1. next[u] # t
    <3> SUFFICES ASSUME next[u] = t PROVE FALSE
      OBVIOUS
    <3>1. Listed(u)
      BY <1>0, <1>2 DEF Unlink, StateInv, Listed
    <3>2. In(t) /\ prev[t] = u
      BY <1>0, <3>1 DEF LinkInv
    <3>3. QED BY <1>0, <3>1, <3>2, BehindLeaver
  <2>2. QED BY <1>0, <1>2, <2>1 DEF Unlink
<1>3. ASSUME NEW s \in Signallers, Split(s) PROVE prev'[t] = prev[t]
  <2>1. CASE at[s] = NULL
    BY <1>3, <2>1 DEF Split
  <2>2. CASE at[s] # NULL
    <3>1. PICK p \in Waiters : p = at[s]
      BY <1>0, <2>2 DEF Typed
    <3>2. next[p] # t
      <4>1. PICK G \in [Signallers -> SUBSET Waiters], O \in [Signallers -> SUBSET Waiters] :
                   \A r \in Signallers : Grouped(G, O, r)
        BY <1>0 DEF ShapeInv, GroupInv
      <4>2. held = s
        BY <1>0, <1>3 DEF Split, StateInv
      <4>3. next[p] = t => t \in G[s]
        BY <3>1, <4>1, <4>2, Names DEF Grouped
      <4>4. QED BY <1>0, <4>1, <4>3 DEF Grouped
    <3>3. QED BY <1>0, <1>3, <2>2, <3>1, <3>2 DEF Split
  <2>3. QED BY <2>1, <2>2
<1>4. ASSUME NEW u \in Waiters,
             \/ WaiterOutside(u) \/ WaiterCalls(u) \/ WaiterReturns(u) \/ TimeOut(u) \/ Move(u)
             \/ Notify(u) \/ Settle(u) \/ Pass(u)
      PROVE  prev' = prev
  BY <1>4
     DEF WaiterOutside, LockMutex, UnlockMutex, Late, Decide, LockBarrier, Unblock, Relock, Done,
         WaiterCalls, WaiterReturns, Wait, WakeNotify, Block, Requeue, Waited, Woken, Blocked,
         Requeued, TimeOut, Move, Notify, Settle, Pass, listVars
<1>5. ASSUME NEW s \in Signallers,
             \/ SignallerCalls(s) \/ SignallerReturns(s)
             \/ (\E k \in {1, -1} : Signal(s, k))
             \/ TakeNode(s) \/ PassOver(s) \/ Proceed(s) \/ Free(s)
      PROVE  prev' = prev
  BY <1>5 DEF SignallerCalls, SignallerReturns, Drain, WakeFirst, Drained, WokeFirst, Signal,
              TakeNode, PassOver, Proceed, Free, listVars
<1>6. CASE UNCHANGED condVars \/ UNCHANGED vars
  BY <1>6 DEF condVars, vars, listVars
<1>7. QED
  BY <1>1, <1>2, <1>3, <1>4, <1>5, <1>6, Steps DEF WaiterMoves, SignallerMoves

\* Whose place a step leaves alone.
LEMMA PlaceOf ==
  ASSUME IInv, [Next]_vars, NEW u \in Threads
  PROVE  \/ pc'[u] = pc[u]
         \/ /\ u \in Waiters
            /\ \/ WaiterOutside(u) \/ WaiterCalls(u) \/ WaiterReturns(u) \/ TimeOut(u)
               \/ WaiterMoves(u)
         \/ /\ u \in Signallers
            /\ SignallerCalls(u) \/ SignallerReturns(u) \/ SignallerMoves(u)
<1>0. Typed
  BY DEF IInv
<1>1. ASSUME NEW t \in Waiters, t # u,
             WaiterOutside(t) \/ WaiterCalls(t) \/ WaiterReturns(t) \/ TimeOut(t) \/ WaiterMoves(t)
      PROVE  pc'[u] = pc[u]
  BY <1>1, OthersStay
<1>2. ASSUME NEW s \in Signallers, s # u,
             SignallerCalls(s) \/ SignallerReturns(s) \/ SignallerMoves(s)
      PROVE  pc'[u] = pc[u]
  BY <1>0, <1>2
     DEF SignallerCalls, SignallerReturns, Drain, WakeFirst, Drained, WokeFirst, SignallerMoves,
         Signal, TakeNode, PassOver, Split, Proceed, Free, Goto, Typed
<1>3. CASE (\E t \in Waiters : Move(t)) \/ UNCHANGED condVars \/ UNCHANGED vars
  BY <1>3 DEF Move, condVars, vars
<1>4. QED BY <1>1, <1>2, <1>3, Steps

LEMMA PassStep == ASSUME IInv, [Next]_vars PROVE PassInv'
<1> SUFFICES ASSUME NEW t \in Waiters, pc'[t] \in {"pass", "requeue", "requeueing"} PROVE prev'[t] # NULL
  BY DEF PassInv
<1>0. /\ Typed /\ t \in Threads /\ t \notin Signallers
      /\ pc \in [Threads -> WaiterLabels \cup SignallerLabels]
  BY Names DEF IInv, Typed
<1>1. CASE pc[t] \in {"pass", "requeue", "requeueing"}
  BY <1>1, PrevStays DEF IInv, PassInv
<1>2. CASE pc[t] \notin {"pass", "requeue", "requeueing"}
  <2>1. \/ WaiterOutside(t) \/ WaiterCalls(t) \/ WaiterReturns(t) \/ TimeOut(t)
        \/ WaiterMoves(t)
    BY <1>0, <1>2, PlaceOf
  <2>2. Settle(t)
    BY <1>0, <1>2, <2>1
       DEF WaiterOutside, LockMutex, UnlockMutex, Late, Decide, LockBarrier, Unblock, Relock, Done,
           WaiterCalls, WaiterReturns, Wait, WakeNotify, Block, Requeue, Waited, Woken, Blocked,
           Requeued, TimeOut, WaiterMoves, Enlist, Unlink, Notify, Settle, Pass, Goto
  <2>3. QED BY <1>0, <2>2 DEF Settle, Goto, listVars
<1>3. QED BY <1>1, <1>2

-----------------------------------------------------------------------------
\* What a step does to the calls in progress.
LEMMA CallSteps ==
  ASSUME IInv, [Next]_vars
  PROVE  \/ UNCHANGED <<tableVars, callVars>>
         \/ \E t \in Waiters : WaiterCalls(t)
         \/ \E s \in Signallers : SignallerCalls(s)
         \/ \E t \in Threads : Finish(t)
         \/ \E t \in Waiters : TimeOut(t)
         \/ \E t \in Waiters : Move(t)
         \/ \E t \in Threads : FutexStep(t) /\ UNCHANGED condVars
<1>1. ASSUME NEW t \in Waiters, WaiterOutside(t) \/ WaiterMoves(t)
      PROVE  UNCHANGED <<tableVars, callVars>>
  BY <1>1
     DEF WaiterOutside, LockMutex, UnlockMutex, Late, Decide, LockBarrier, Unblock, Relock, Done,
         WaiterMoves, Enlist, Unlink, Notify, Settle, Pass, futexVars
<1>2. ASSUME NEW s \in Signallers, SignallerMoves(s)
      PROVE  UNCHANGED <<tableVars, callVars>>
  BY <1>2 DEF SignallerMoves, Signal, TakeNode, PassOver, Split, Proceed, Free, futexVars
<1>3. ASSUME NEW t \in Waiters, WaiterReturns(t) PROVE t \in Threads /\ Finish(t)
  BY <1>3, Names DEF WaiterReturns, Waited, Woken, Blocked, Requeued
<1>4. ASSUME NEW s \in Signallers, SignallerReturns(s) PROVE s \in Threads /\ Finish(s)
  BY <1>4, Names DEF SignallerReturns, Drained, WokeFirst
<1>5. CASE UNCHANGED vars
  BY <1>5 DEF vars, futexVars
<1>6. QED BY <1>1, <1>2, <1>3, <1>4, <1>5, Steps

\* Between its entry and its end a call stays what it is.
LEMMA CallStays ==
  ASSUME IInv, NEW t \in Threads, FutexStep(t), NEW u \in Threads
  PROVE  /\ op' = op /\ key' = key /\ val' = val
         /\ fpc'[u] = "none" <=> fpc[u] = "none"
         /\ fpc[u] = "return" => fpc'[u] = "return"
         /\ fpc[u] = "asleep" => fpc'[u] \in {"asleep", "return"} /\ out'[u] = out[u]
         /\ stage[u] = "have" => stage'[u] = "have" /\ out'[u] = out[u]
<1>0. /\ Typed /\ SleepInv /\ fpc \in [Threads -> {"none", "load", "store", "kernel", "asleep", "return"}]
      /\ out \in [Threads -> Entries \cup {NULL}]
      /\ stage \in [Threads -> {"idle", "miss", "have", "crashed"}]
  BY Functions DEF IInv
<1>1. op' = op /\ key' = key /\ val' = val
  BY DEF FutexStep, Allocate, Set, Load, Store, Sleep, Again, WakeOne, WakeNone, callVars, tableVars
<1>2. stage[u] = "have" => stage'[u] = "have" /\ out'[u] = out[u]
  BY <1>0 DEF FutexStep, Allocate, Set, Resolved, Load, Store, Sleep, Again, WakeOne, WakeNone,
              callVars, tableVars
<1>3. /\ fpc'[u] = "none" <=> fpc[u] = "none"
      /\ fpc[u] = "return" => fpc'[u] = "return"
      /\ fpc[u] = "asleep" => fpc'[u] \in {"asleep", "return"}
  <2>1. CASE ~WakeOne(t)
    BY <1>0, <2>1 DEF FutexStep, Allocate, Load, Store, Sleep, Again, WakeNone, At, To, callVars
  <2>2. CASE WakeOne(t)
    <3>1. PICK v \in asleep[out[t]] : fpc' = [fpc EXCEPT ![t] = "return", ![v] = "return"]
      BY <2>2 DEF WakeOne
    <3>2. fpc[v] = "asleep" /\ v \in Threads /\ fpc[t] = "kernel"
      BY <2>2, SleepersOwn DEF IInv, WakeOne, At
    <3>3. QED BY <1>0, <3>1, <3>2
  <2>3. QED BY <2>1, <2>2
<1>4. QED BY <1>0, <1>1, <1>2, <1>3 DEF SleepInv

\* What CallsInv says of one thread.
CallOf(u) ==
  /\ u \in Waiters /\ fpc[u] # "none" =>
       \/ /\ pc[u] \in {"waiting", "expired", "blocked"}
          /\ op[u] = "wait" /\ key[u] = u /\ val[u] = Closed
       \/ pc[u] = "wakingnotify" /\ op[u] = "wake" /\ key[u] \in Signallers
       \/ pc[u] = "requeueing" /\ op[u] = "requeue" /\ key[u] \in Waiters
  /\ u \in Signallers /\ fpc[u] # "none" =>
       \/ pc[u] = "draining" /\ op[u] = "wait" /\ key[u] = u
       \/ pc[u] = "wakingfirst" /\ op[u] = "wake" /\ key[u] \in Waiters
  /\ u \in Waiters /\ pc[u] = "expired" => fpc[u] = "return"

LEMMA CallsStep == ASSUME IInv, [Next]_vars PROVE CallsInv'
<1>0. /\ Typed /\ StateInv /\ CallsInv
      /\ pc \in [Threads -> WaiterLabels \cup SignallerLabels]
      /\ fpc \in [Threads -> {"none", "load", "store", "kernel", "asleep", "return"}]
      /\ op \in [Threads -> {"wait", "wake", "requeue", "settid"}]
      /\ val \in [Threads -> Values] /\ key \in [Threads -> Addrs]
  BY Functions DEF IInv
<1> SUFFICES ASSUME NEW u \in Threads PROVE CallOf(u)'
  BY Names DEF CallsInv, CallOf
<1>1. CallOf(u)
  BY <1>0, Names DEF CallsInv, CallOf
\* A thread the step does not move, and whose call stays what it is.
<1>2. ASSUME pc'[u] = pc[u], op'[u] = op[u], key'[u] = key[u], val'[u] = val[u],
             fpc'[u] # "none" => fpc[u] # "none", fpc[u] = "return" => fpc'[u] = "return"
      PROVE  CallOf(u)'
  BY <1>1, <1>2 DEF CallOf
<1>3. ASSUME NEW t \in Waiters, WaiterOutside(t) \/ WaiterMoves(t) PROVE CallOf(u)'
  <2>1. UNCHANGED <<fpc, op, key, val>>
    BY <1>3
       DEF WaiterOutside, LockMutex, UnlockMutex, Late, Decide, LockBarrier, Unblock, Relock, Done,
           WaiterMoves, Enlist, Unlink, Notify, Settle, Pass, futexVars, callVars, tableVars
  <2>2. CASE t = u
    <3>1. /\ pc[u] \notin {"waiting", "expired", "blocked", "wakingnotify", "requeueing"}
          /\ pc'[u] # "expired"
      BY <1>0, <1>3, <2>2
         DEF WaiterOutside, LockMutex, UnlockMutex, Late, Decide, LockBarrier, Unblock, Relock, Done,
             WaiterMoves, Enlist, Unlink, Notify, Settle, Pass, Goto
    <3>2. QED BY <1>1, <1>3, <2>1, <2>2, <3>1, Names DEF CallOf
  <2>3. CASE t # u
    BY <1>2, <1>3, <2>1, <2>3, OthersStay
  <2>4. QED BY <2>2, <2>3
<1>4. ASSUME NEW t \in Waiters, WaiterCalls(t) PROVE CallOf(u)'
  <2>1. CASE t = u
    <3>1. u \in Waiters /\ u \notin Signallers
      BY <2>1, Names
    <3>2. CASE Wait(u) \/ Block(u)
      BY <1>0, <3>1, <3>2 DEF Wait, Block, Call, Get, Goto, CallOf
    <3>3. CASE WakeNotify(u)
      <4>1. notify[u] \in Signallers
        BY <1>0, <3>1, <3>3 DEF WakeNotify, StateInv, Typed
      <4>2. QED BY <1>0, <3>1, <3>3, <4>1 DEF WakeNotify, Call, Get, Goto, CallOf
    <3>4. CASE Requeue(u)
      <4>1. prev[u] \in Waiters
        BY <1>0, <3>1, <3>4 DEF Requeue, IInv, PassInv, Typed
      <4>2. QED BY <1>0, <3>1, <3>4, <4>1 DEF Requeue, Call, Get, Goto, CallOf
    <3>5. QED BY <1>4, <2>1, <3>2, <3>3, <3>4 DEF WaiterCalls
  <2>2. CASE t # u
    <3>1. fpc'[u] = fpc[u] /\ op'[u] = op[u] /\ key'[u] = key[u] /\ val'[u] = val[u]
      BY <1>0, <1>4, <2>2 DEF WaiterCalls, Wait, WakeNotify, Block, Requeue, Call, Get, To
    <3>2. QED BY <1>2, <1>4, <2>2, <3>1, OthersStay
  <2>3. QED BY <2>1, <2>2
<1>5. ASSUME NEW s \in Signallers, SignallerCalls(s) PROVE CallOf(u)'
  <2>1. CASE s = u
    <3>1. u \in Signallers /\ u \notin Waiters
      BY <2>1, Names
    <3>2. CASE Drain(u)
      BY <1>0, <3>1, <3>2 DEF Drain, Call, Get, Goto, CallOf
    <3>3. CASE WakeFirst(u)
      <4>1. first[u] \in Waiters
        BY <1>0, <3>1, <3>3 DEF WakeFirst, StateInv, Typed
      <4>2. QED BY <1>0, <3>1, <3>3, <4>1 DEF WakeFirst, Call, Get, Goto, CallOf
    <3>4. QED BY <1>5, <2>1, <3>2, <3>3 DEF SignallerCalls
  <2>2. CASE s # u
    BY <1>0, <1>2, <1>5, <2>2 DEF SignallerCalls, Drain, WakeFirst, Call, Get, Goto, To
  <2>3. QED BY <2>1, <2>2
<1>6. ASSUME NEW t \in Threads, Finish(t),
             \A v \in Threads : v # t => pc'[v] = pc[v],
             pc'[t] # "expired"
      PROVE  CallOf(u)'
  <2>1. op' = op /\ key' = key /\ val' = val /\ fpc' = [fpc EXCEPT ![t] = "none"]
    BY <1>6 DEF Finish, Drop, To
  <2>2. CASE t = u
    BY <1>0, <1>6, <2>1, <2>2 DEF CallOf
  <2>3. CASE t # u
    BY <1>0, <1>2, <1>6, <2>1, <2>3
  <2>4. QED BY <2>2, <2>3
<1>7. ASSUME NEW t \in Waiters, WaiterReturns(t) PROVE CallOf(u)'
  <2>1. Finish(t) /\ pc'[t] # "expired"
    BY <1>0, <1>7, Names DEF WaiterReturns, Waited, Woken, Blocked, Requeued, Goto
  <2>2. QED BY <1>6, <1>7, <2>1, OthersStay, Names
<1>8. ASSUME NEW s \in Signallers, SignallerReturns(s) PROVE CallOf(u)'
  <2>1. /\ Finish(s) /\ pc'[s] # "expired"
        /\ \A v \in Threads : v # s => pc'[v] = pc[v]
    BY <1>0, <1>8, Names DEF SignallerReturns, Drained, WokeFirst, Goto
  <2>2. QED BY <1>6, <2>1, Names
<1>9. ASSUME NEW t \in Waiters, TimeOut(t) PROVE CallOf(u)'
  <2>1. /\ op' = op /\ key' = key /\ val' = val /\ fpc' = [fpc EXCEPT ![t] = "return"]
        /\ pc[t] = "waiting" /\ pc' = [pc EXCEPT ![t] = "expired"] /\ fpc[t] = "asleep"
    BY <1>9 DEF TimeOut, Expire, tableVars, Goto, To
  <2>2. CASE t = u
    BY <1>0, <1>1, <1>9, <2>1, <2>2, Names DEF CallOf
  <2>3. CASE t # u
    BY <1>0, <1>2, <2>1, <2>3
  <2>4. QED BY <2>2, <2>3
<1>10. ASSUME NEW t \in Waiters, Move(t) PROVE CallOf(u)'
  BY <1>0, <1>2, <1>10 DEF Move, At, To, tableVars
<1>11. ASSUME NEW t \in Threads, FutexStep(t), UNCHANGED condVars PROVE CallOf(u)'
  BY <1>2, <1>11, CallStays DEF condVars
<1>12. ASSUME NEW s \in Signallers, SignallerMoves(s) PROVE CallOf(u)'
  <2>1. UNCHANGED <<fpc, op, key, val>>
    BY <1>12 DEF SignallerMoves, Signal, TakeNode, PassOver, Split, Proceed, Free, futexVars,
                 callVars, tableVars
  <2>2. CASE s = u
    <3>1. u \in Signallers /\ u \notin Waiters /\ pc[u] \notin {"draining", "wakingfirst"}
      BY <1>12, <2>2, Names
         DEF SignallerMoves, Signal, TakeNode, PassOver, Walking, Split, Proceed, Free
    <3>2. QED BY <1>1, <2>1, <3>1 DEF CallOf
  <2>3. CASE s # u
    <3>1. pc'[u] = pc[u]
      BY <1>0, <1>12, <2>3 DEF SignallerMoves, Signal, TakeNode, PassOver, Split, Proceed, Free, Goto
    <3>2. QED BY <1>2, <2>1, <3>1
  <2>4. QED BY <2>2, <2>3
<1>13. CASE UNCHANGED vars
  BY <1>2, <1>13 DEF vars, futexVars, callVars, tableVars, condVars
<1>14. QED
  BY <1>3, <1>4, <1>5, <1>7, <1>8, <1>9, <1>10, <1>11, <1>12, <1>13, Steps

\* The kernel's queues.
LEMMA SleepStep == ASSUME IInv, [Next]_vars PROVE SleepInv'
<1>0. /\ Typed /\ CallsInv /\ SleepInv
      /\ asleep \in [Entries -> SUBSET Threads]
      /\ fpc \in [Threads -> {"none", "load", "store", "kernel", "asleep", "return"}]
      /\ stage \in [Threads -> {"idle", "miss", "have", "crashed"}]
      /\ out \in [Threads -> Entries \cup {NULL}]
      /\ op \in [Threads -> {"wait", "wake", "requeue", "settid"}]
  BY Functions DEF IInv
<1>1. ASSUME \A e \in Entries : asleep'[e] \subseteq asleep[e],
             \A u \in Threads : \/ fpc'[u] = fpc[u] /\ out'[u] = out[u] /\ op'[u] = op[u] /\ stage'[u] = stage[u]
                                \/ fpc'[u] # "asleep" /\ \A e \in Entries : u \notin asleep'[e]
      PROVE  SleepInv'
  BY <1>0, <1>1 DEF SleepInv
<1>2. CASE UNCHANGED <<tableVars, callVars>>
  BY <1>1, <1>2 DEF tableVars, callVars
<1>3. ASSUME NEW t \in Threads, NEW o, NEW a, NEW v, Call(t, o, a, v) PROVE SleepInv'
  <2>1. /\ asleep' = asleep /\ fpc' = [fpc EXCEPT ![t] = "load"] /\ fpc[t] = "none"
        /\ \A u \in Threads : u # t => out'[u] = out[u] /\ op'[u] = op[u] /\ stage'[u] = stage[u]
    BY <1>0, <1>3 DEF Call, Get, Resolved, To
  <2>2. \A e \in Entries : t \notin asleep'[e]
    BY <1>0, <2>1 DEF SleepInv
  <2>3. QED BY <1>0, <1>1, <2>1, <2>2
<1>4. ASSUME NEW t \in Waiters, WaiterCalls(t) PROVE SleepInv'
  BY <1>3, <1>4, Names DEF WaiterCalls, Wait, WakeNotify, Block, Requeue
<1>5. ASSUME NEW s \in Signallers, SignallerCalls(s) PROVE SleepInv'
  BY <1>3, <1>5, Names DEF SignallerCalls, Drain, WakeFirst
<1>6. ASSUME NEW t \in Threads, Finish(t) PROVE SleepInv'
  <2>1. /\ asleep' = asleep /\ fpc' = [fpc EXCEPT ![t] = "none"] /\ fpc[t] = "return" /\ op' = op
        /\ \A u \in Threads : u # t => out'[u] = out[u] /\ stage'[u] = stage[u]
    BY <1>0, <1>6 DEF Finish, Drop, To
  <2>2. \A e \in Entries : t \notin asleep'[e]
    BY <1>0, <2>1 DEF SleepInv
  <2>3. QED BY <1>0, <1>1, <2>1, <2>2
<1>7. ASSUME NEW t \in Waiters, TimeOut(t) PROVE SleepInv'
  <2>1. /\ asleep' = [e \in Entries |-> asleep[e] \ {t}] /\ fpc' = [fpc EXCEPT ![t] = "return"]
        /\ out' = out /\ op' = op /\ stage' = stage
    BY <1>7 DEF TimeOut, Expire, To, tableVars
  <2>2. \A e \in Entries : t \notin asleep'[e]
    BY <2>1
  <2>3. QED BY <1>0, <1>1, <2>1, <2>2
<1>8. ASSUME NEW t \in Waiters, Move(t) PROVE SleepInv'
  <2>1. /\ fpc' = [fpc EXCEPT ![t] = "return"] /\ fpc[t] = "kernel"
        /\ out' = out /\ op' = op /\ stage' = stage
        /\ \A e \in Entries : asleep'[e] \subseteq asleep[e]
    BY <1>0, <1>8 DEF Move, At, To, tableVars
  <2>2. \A e \in Entries : t \notin asleep'[e]
    BY <1>0, <2>1 DEF SleepInv
  <2>3. QED BY <1>0, <1>1, <2>1, <2>2
<1>9. ASSUME NEW t \in Threads, FutexStep(t) PROVE SleepInv'
  <2>1. CASE Allocate(t)
    <3>1. /\ UNCHANGED <<asleep, fpc, op>> /\ stage[t] = "miss"
          /\ \A u \in Threads : u # t => out'[u] = out[u] /\ stage'[u] = stage[u]
      BY <1>0, <2>1 DEF Allocate, Set, Resolved, callVars
    <3>2. fpc[t] # "asleep"
      BY <1>0, <3>1 DEF SleepInv
    <3>3. \A e \in Entries : t \notin asleep[e]
      BY <1>0, <3>2 DEF SleepInv
    <3>4. QED BY <1>1, <3>1, <3>2, <3>3
  <2>2. CASE Load(t) \/ Store(t) \/ Again(t) \/ WakeNone(t)
    <3>1. /\ UNCHANGED <<asleep, op, out, stage>> /\ fpc[t] # "asleep" /\ fpc'[t] # "asleep"
          /\ \A u \in Threads : u # t => fpc'[u] = fpc[u]
      BY <1>0, <2>2 DEF Load, Store, Again, WakeNone, At, To, tableVars
    <3>2. \A e \in Entries : t \notin asleep[e]
      BY <1>0, <3>1 DEF SleepInv
    <3>3. QED BY <1>1, <3>1, <3>2
  <2>3. CASE Sleep(t)
    <3>1. /\ UNCHANGED <<op, out, stage>> /\ stage[t] = "have" /\ op[t] = "wait"
          /\ asleep' = [asleep EXCEPT ![out[t]] = @ \cup {t}]
          /\ fpc' = [fpc EXCEPT ![t] = "asleep"] /\ fpc[t] = "kernel"
      BY <2>3 DEF Sleep, At, To, tableVars
    <3>2. out[t] \in Entries
      BY <1>0, <3>1 DEF Typed, FutexInv, TableInv, Chosen
    <3>3. \A e \in Entries : t \notin asleep[e]
      BY <1>0, <3>1 DEF SleepInv
    <3>4. ASSUME NEW e \in Entries, NEW u \in asleep'[e] PROVE fpc'[u] = "asleep" /\ out'[u] = e
      <4>1. CASE u = t
        BY <1>0, <3>1, <3>2, <3>3, <3>4, <4>1
      <4>2. CASE u # t
        <5>1. u \in asleep[e]
          BY <1>0, <3>1, <3>2, <3>4, <4>2
        <5>2. QED BY <1>0, <3>1, <4>2, <5>1 DEF SleepInv
      <4>3. QED BY <4>1, <4>2
    <3>5. ASSUME NEW u \in Threads, fpc'[u] = "asleep" PROVE op'[u] = "wait" /\ stage'[u] = "have"
      BY <1>0, <3>1, <3>5 DEF SleepInv
    <3>6. QED BY <3>4, <3>5 DEF SleepInv
  <2>4. CASE WakeOne(t)
    <3>1. PICK v \in asleep[out[t]] : /\ asleep' = [asleep EXCEPT ![out[t]] = @ \ {v}]
                                      /\ fpc' = [fpc EXCEPT ![t] = "return", ![v] = "return"]
      BY <2>4 DEF WakeOne
    <3>2. UNCHANGED <<op, out, stage>> /\ stage[t] = "have" /\ fpc[t] = "kernel"
      BY <2>4 DEF WakeOne, At, tableVars
    <3>3. fpc[v] = "asleep" /\ v \in Threads /\ out[v] = out[t] /\ out[t] \in Entries
      BY <1>0, <3>2, SleepersOwn
    <3>4. \A e \in Entries : asleep'[e] \subseteq asleep[e]
      BY <1>0, <3>1, <3>3
    <3>5. \A e \in Entries : t \notin asleep'[e] /\ v \notin asleep'[e]
      BY <1>0, <3>1, <3>2, <3>3 DEF SleepInv
    <3>6. QED BY <1>0, <1>1, <3>1, <3>2, <3>3, <3>4, <3>5
  <2>5. QED BY <1>9, <2>1, <2>2, <2>3, <2>4 DEF FutexStep
<1>10. QED BY <1>2, <1>4, <1>5, <1>6, <1>7, <1>8, <1>9, CallSteps

-----------------------------------------------------------------------------
\* A step that adds an entry keeps the first of every address, and no step ever
\* forgets a race.
LEMMA FirstKept ==
  ASSUME IInv, [Next]_vars, NEW a \in Addrs, NEW e \in Entries, IsFirst(e, Matching(a))
  PROVE  IsFirst(e, Matching(a))'
<1>1. ASSUME table' = table PROVE IsFirst(e, Matching(a))'
  BY <1>1 DEF IsFirst, Matching
<1>2. ASSUME NEW t \in Threads, FutexStep(t) PROVE IsFirst(e, Matching(a))'
  BY <1>2, FutexStepFirst DEF IInv, Typed
<1>3. ASSUME NEW t \in Waiters, WaiterCalls(t) \/ TimeOut(t) \/ Move(t) PROVE table' = table
  BY <1>3 DEF WaiterCalls, Wait, WakeNotify, Block, Requeue, Call, Get, TimeOut, Expire, Move, tableVars
<1>4. ASSUME NEW s \in Signallers, SignallerCalls(s) PROVE table' = table
  BY <1>4 DEF SignallerCalls, Drain, WakeFirst, Call, Get
<1>5. ASSUME NEW t \in Threads, Finish(t) PROVE table' = table
  BY <1>5 DEF Finish, Drop
<1>6. QED BY <1>1, <1>2, <1>3, <1>4, <1>5, CallSteps DEF tableVars

LEMMA RacedStays == ASSUME IInv, [Next]_vars, raced PROVE raced'
<1>1. ASSUME NEW t \in Threads, FutexStep(t) PROVE raced'
  BY <1>1 DEF FutexStep, Allocate, Load, Store, Sleep, Again, WakeOne, WakeNone, Meets, callVars
<1>2. ASSUME NEW t \in Waiters, WaiterCalls(t) \/ TimeOut(t) \/ Move(t) PROVE raced'
  BY <1>2 DEF WaiterCalls, Wait, WakeNotify, Block, Requeue, Call, TimeOut, Expire, Move, Meets
<1>3. ASSUME NEW s \in Signallers, SignallerCalls(s) PROVE raced'
  BY <1>3 DEF SignallerCalls, Drain, WakeFirst, Call
<1>4. ASSUME NEW t \in Threads, Finish(t) PROVE raced'
  BY <1>4 DEF Finish
<1>5. QED BY <1>1, <1>2, <1>3, <1>4, CallSteps DEF callVars

\* A waiter that has been lost to a requeue stays lost while it sleeps.
LEMMA LeftStays ==
  ASSUME IInv, [Next]_vars, NEW t \in Waiters, t \in left, fpc[t] = "asleep" PROVE t \in left'
<1>1. ASSUME NEW u \in Waiters,
             WaiterOutside(u) \/ WaiterCalls(u) \/ WaiterReturns(u) \/ TimeOut(u) \/ WaiterMoves(u)
      PROVE  t \in left'
  <2>1. left' = left \/ (fpc[u] = "return" /\ left' = left \ {u})
    BY <1>1
       DEF WaiterOutside, LockMutex, UnlockMutex, Late, Decide, LockBarrier, Unblock, Relock, Done,
           WaiterCalls, WaiterReturns, Wait, WakeNotify, Block, Requeue, Waited, Woken, Blocked,
           Requeued, TimeOut, WaiterMoves, Enlist, Unlink, Notify, Settle, Pass, Finish
  <2>2. QED BY <2>1
<1>2. ASSUME NEW s \in Signallers, SignallerCalls(s) \/ SignallerReturns(s) \/ SignallerMoves(s)
      PROVE  t \in left'
  BY <1>2
     DEF SignallerCalls, SignallerReturns, Drain, WakeFirst, Drained, WokeFirst,
         SignallerMoves, Signal, TakeNode, PassOver, Split, Proceed, Free
<1>3. ASSUME NEW u \in Waiters, Move(u) PROVE t \in left'
  BY <1>3 DEF Move
<1>4. CASE UNCHANGED condVars \/ UNCHANGED vars
  BY <1>4 DEF condVars, vars
<1>5. QED BY <1>1, <1>2, <1>3, <1>4, Steps

\* A waiter that stays asleep was asleep already, or now goes to sleep.
LEMMA AsleepBefore ==
  ASSUME IInv, [Next]_vars, NEW t \in Threads, fpc'[t] = "asleep"
  PROVE  \/ Sleep(t) /\ UNCHANGED condVars
         \/ fpc[t] = "asleep" /\ out'[t] = out[t]
<1>0. /\ Typed /\ SleepInv
      /\ fpc \in [Threads -> {"none", "load", "store", "kernel", "asleep", "return"}]
      /\ out \in [Threads -> Entries \cup {NULL}]
  BY Functions DEF IInv
<1>1. ASSUME NEW u \in Threads, NEW o, NEW a, NEW v, Call(u, o, a, v)
      PROVE  fpc[t] = "asleep" /\ out'[t] = out[t]
  <2>1. fpc'[u] = "load" /\ (u # t => fpc'[t] = fpc[t] /\ out'[t] = out[t])
    BY <1>0, <1>1 DEF Call, Get, Resolved, To
  <2>2. QED BY <2>1
<1>2. ASSUME NEW u \in Threads, Finish(u) PROVE fpc[t] = "asleep" /\ out'[t] = out[t]
  BY <1>0, <1>2 DEF Finish, Drop, To
<1>3. ASSUME NEW u \in Waiters, TimeOut(u) \/ Move(u)
      PROVE  fpc[t] = "asleep" /\ out'[t] = out[t]
  BY <1>0, <1>3, Names DEF TimeOut, Expire, Move, To, tableVars
<1>4. ASSUME NEW u \in Threads, FutexStep(u), ~ (u = t /\ Sleep(t))
      PROVE  fpc[t] = "asleep" /\ out'[t] = out[t]
  <2>1. fpc[t] = "asleep"
    BY <1>0, <1>4 DEF FutexStep, Allocate, Load, Store, Sleep, Again, WakeOne, WakeNone, To, callVars
  <2>2. QED BY <1>4, <2>1, CallStays
<1>5. CASE UNCHANGED <<tableVars, callVars>>
  BY <1>5 DEF tableVars, callVars
<1>6. ASSUME NEW u \in Waiters, WaiterCalls(u) PROVE fpc[t] = "asleep" /\ out'[t] = out[t]
  BY <1>1, <1>6, Names DEF WaiterCalls, Wait, WakeNotify, Block, Requeue
<1>7. ASSUME NEW s \in Signallers, SignallerCalls(s) PROVE fpc[t] = "asleep" /\ out'[t] = out[t]
  BY <1>1, <1>7, Names DEF SignallerCalls, Drain, WakeFirst
<1>8. QED BY <1>2, <1>3, <1>4, <1>5, <1>6, <1>7, CallSteps

\* It leaves the kernel's queue only for the one a requeue puts it in.
LEMMA QueueStays ==
  ASSUME IInv, [Next]_vars, NEW t \in Waiters, fpc[t] = "asleep", fpc'[t] = "asleep",
         t \in asleep[out[t]], out[t] \in Entries
  PROVE  t \in asleep'[out[t]] \/ t \in left'
<1>0. /\ Typed /\ t \in Threads
      /\ fpc \in [Threads -> {"none", "load", "store", "kernel", "asleep", "return"}]
      /\ asleep \in [Entries -> SUBSET Threads]
  BY Functions, Names DEF IInv
<1>1. ASSUME NEW u \in Waiters, TimeOut(u) PROVE t \in asleep'[out[t]]
  BY <1>0, <1>1, Names DEF TimeOut, Expire, To
<1>2. ASSUME NEW u \in Waiters, Move(u) PROVE t \in asleep'[out[t]] \/ t \in left'
  BY <1>0, <1>2 DEF Move
<1>3. ASSUME NEW u \in Threads, FutexStep(u) PROVE t \in asleep'[out[t]]
  <2>1. CASE Allocate(u) \/ Load(u) \/ Store(u) \/ Again(u) \/ WakeNone(u)
    BY <2>1 DEF Allocate, Load, Store, Again, WakeNone, callVars
  <2>2. CASE Sleep(u)
    BY <1>0, <2>2 DEF Sleep
  <2>3. CASE WakeOne(u)
    <3>1. PICK v \in asleep[out[u]] : /\ asleep' = [asleep EXCEPT ![out[u]] = @ \ {v}]
                                      /\ fpc' = [fpc EXCEPT ![u] = "return", ![v] = "return"]
      BY <2>3 DEF WakeOne
    <3>2. v \in Threads
      BY <2>3, SleepersOwn DEF IInv, WakeOne, At
    <3>3. v # t
      BY <1>0, <3>1, <3>2
    <3>4. QED BY <1>0, <3>1, <3>3
  <2>4. QED BY <1>3, <2>1, <2>2, <2>3 DEF FutexStep
<1>4. ASSUME asleep' = asleep PROVE t \in asleep'[out[t]]
  BY <1>4
<1>5. QED
  BY <1>1, <1>2, <1>3, <1>4, CallSteps
     DEF callVars, WaiterCalls, Wait, WakeNotify, Block, Requeue, SignallerCalls, Drain, WakeFirst,
         Call, Finish

\* Whoever is to open a barrier, or is on the way into the kernel to do so, gets
\* there.
LEMMA OpeningStays ==
  ASSUME IInv, [Next]_vars, NEW t \in Waiters, Opening(t) PROVE Opening(t)' \/ Coming(t)'
<1>0. /\ Typed /\ pc \in [Threads -> WaiterLabels \cup SignallerLabels]
      /\ fpc \in [Threads -> {"none", "load", "store", "kernel", "asleep", "return"}]
      /\ op \in [Threads -> {"wait", "wake", "requeue", "settid"}]
      /\ key \in [Threads -> Addrs]
      /\ first \in [Signallers -> Waiters \cup {NULL}]
  BY Functions DEF IInv, Typed
<1>1. ASSUME NEW u \in Threads, NEW o \in {"wake", "requeue"}, NEW v, Call(u, o, t, v)
      PROVE  Coming(t)'
  BY <1>0, <1>1 DEF Call, Get, To, Coming
<1>2. ASSUME NEW s \in Signallers, pc[s] = "wakefirst", first[s] = t
      PROVE  Opening(t)' \/ Coming(t)'
  <2>1. CASE WakeFirst(s)
    BY <1>1, <1>2, <2>1, Names DEF WakeFirst
  <2>2. CASE ~WakeFirst(s)
    <3>1. pc'[s] = pc[s]
      BY <1>2, <2>2, PlaceOf, Names
         DEF SignallerCalls, SignallerReturns, Drain, Drained, WokeFirst, SignallerMoves,
             Signal, TakeNode, PassOver, Walking, Split, Proceed, Free
    <3>2. first'[s] = first[s]
      <4>1. ASSUME NEW r \in Signallers, SignallerMoves(r) PROVE first'[s] = first[s]
        BY <1>0, <1>2, <4>1 DEF SignallerMoves, Signal, TakeNode, PassOver, Walking, Split, Proceed,
                                Free, walkVars
      <4>2. ASSUME NEW r \in Signallers, SignallerCalls(r) \/ SignallerReturns(r)
            PROVE  first' = first
        BY <4>2 DEF SignallerCalls, SignallerReturns, Drain, WakeFirst, Drained, WokeFirst, walkVars
      <4>3. CASE (\E u \in Waiters : Move(u)) \/ UNCHANGED condVars \/ UNCHANGED vars
        BY <4>3 DEF Move, condVars, vars, walkVars
      <4>4. QED BY <4>1, <4>2, <4>3, Steps, OthersStay
    <3>3. QED BY <1>2, <3>1, <3>2 DEF Opening
  <2>3. QED BY <2>1, <2>2
<1>3. ASSUME NEW u \in Waiters, pc[u] = "requeue", prev[u] = t
      PROVE  Opening(t)' \/ Coming(t)'
  <2>1. CASE Requeue(u)
    BY <1>1, <1>3, <2>1, Names DEF Requeue
  <2>2. CASE ~Requeue(u)
    <3>1. pc'[u] = pc[u]
      BY <1>3, <2>2, PlaceOf, Names
         DEF WaiterOutside, LockMutex, UnlockMutex, Late, Decide, LockBarrier, Unblock, Relock, Done,
             WaiterCalls, WaiterReturns, Wait, WakeNotify, Block, Waited, Woken, Blocked,
             Requeued, TimeOut, WaiterMoves, Enlist, Unlink, Notify, Settle, Pass
    <3>2. prev'[u] = prev[u]
      BY <1>3, PrevStays
    <3>3. QED BY <1>3, <3>1, <3>2 DEF Opening
  <2>3. QED BY <2>1, <2>2
<1>4. QED BY <1>2, <1>3 DEF Opening

LEMMA ComingStays ==
  ASSUME IInv, [Next]_vars, ~raced', NEW t \in Waiters, Coming(t), fpc[t] = "asleep",
         fpc'[t] = "asleep", IsFirst(out[t], Matching(t)), out[t] \in Entries,
         t \in asleep[out[t]]
  PROVE  Coming(t)' \/ t \in left'
<1>0. /\ Typed /\ SleepInv /\ t \in Threads
      /\ fpc \in [Threads -> {"none", "load", "store", "kernel", "asleep", "return"}]
      /\ op \in [Threads -> {"wait", "wake", "requeue", "settid"}]
      /\ key \in [Threads -> Addrs]
      /\ out \in [Threads -> Entries \cup {NULL}]
  BY Functions, Names DEF IInv
<1>1. PICK u \in Threads : /\ fpc[u] \in {"load", "store", "kernel"}
                           /\ op[u] \in {"wake", "requeue"} /\ key[u] = t
  BY DEF Coming
<1>2. ASSUME fpc'[u] \in {"load", "store", "kernel"}, op'[u] = op[u], key'[u] = key[u]
      PROVE  Coming(t)'
  BY <1>1, <1>2 DEF Coming
<1>3. ASSUME NEW v \in Threads, NEW o, NEW a, NEW w, Call(v, o, a, w) PROVE Coming(t)'
  BY <1>0, <1>1, <1>2, <1>3 DEF Call, Get, To
<1>4. ASSUME NEW v \in Threads, Finish(v) PROVE Coming(t)'
  BY <1>0, <1>1, <1>2, <1>4 DEF Finish, Drop, To
<1>5. ASSUME NEW v \in Waiters, TimeOut(v) PROVE Coming(t)'
  BY <1>0, <1>1, <1>2, <1>5 DEF TimeOut, Expire, To, tableVars
\* The call that wakes, or requeues, finds the word that t sleeps on.
<1>6. ASSUME Meets(u, FALSE), stage[u] = "have", UNCHANGED tableVars PROVE out[u] = out[t]
  <2>1. IsFirst(out[u], Matching(t))
    BY <1>1, <1>6 DEF Meets
  <2>2. out[u] \in Entries
    BY <1>0, <1>6 DEF Typed, FutexInv, TableInv, Chosen
  <2>3. QED BY <2>1, <2>2, OneFirst
<1>7. ASSUME NEW v \in Waiters, Move(v) PROVE Coming(t)' \/ t \in left'
  <2>1. CASE v = u
    <3>1. out[u] = out[t]
      BY <1>6, <1>7, <2>1 DEF Move, At
    <3>2. QED BY <1>7, <2>1, <3>1 DEF Move
  <2>2. CASE v # u
    BY <1>0, <1>1, <1>2, <1>7, <2>2 DEF Move, To, tableVars
  <2>3. QED BY <2>1, <2>2
<1>8. ASSUME NEW v \in Threads, FutexStep(v) PROVE Coming(t)'
  <2>0. op' = op /\ key' = key
    BY <1>8, <1>1, CallStays
  <2>1. CASE Allocate(v)
    BY <1>1, <1>2, <2>0, <2>1 DEF Allocate, callVars
  <2>2. CASE Load(v) \/ Store(v)
    BY <1>0, <1>1, <1>2, <2>0, <2>2 DEF Load, Store, At, To
  <2>3. CASE Sleep(v) \/ Again(v)
    BY <1>0, <1>1, <1>2, <2>0, <2>3 DEF Sleep, Again, At, To
  <2>4. CASE WakeOne(v)
    <3>1. PICK w \in asleep[out[v]] : fpc' = [fpc EXCEPT ![v] = "return", ![w] = "return"]
      BY <2>4 DEF WakeOne
    <3>2. w = key[v] /\ w \in Threads /\ fpc[w] = "asleep"
      BY <2>4, SleepersOwn DEF IInv, WakeOne, At
    <3>3. v # u
      <4>1. v = u => fpc'[t] = "return"
        BY <1>0, <1>1, <3>1, <3>2
      <4>2. QED BY <4>1
    <3>4. fpc'[u] = fpc[u]
      BY <1>0, <1>1, <3>1, <3>2, <3>3
    <3>5. QED BY <1>1, <1>2, <2>0, <3>4
  <2>5. CASE WakeNone(v)
    <3>1. v # u
      <4>1. v = u => out[u] = out[t]
        BY <1>6, <2>5 DEF WakeNone, At
      <4>2. QED BY <2>5, <4>1 DEF WakeNone
    <3>2. QED BY <1>0, <1>1, <1>2, <2>0, <2>5, <3>1 DEF WakeNone, To
  <2>6. QED BY <1>8, <2>1, <2>2, <2>3, <2>4, <2>5 DEF FutexStep
<1>9. CASE UNCHANGED <<tableVars, callVars>>
  BY <1>1, <1>2, <1>9 DEF tableVars, callVars
<1>10. ASSUME NEW v \in Waiters, WaiterCalls(v) PROVE Coming(t)'
  BY <1>3, <1>10, Names DEF WaiterCalls, Wait, WakeNotify, Block, Requeue
<1>11. ASSUME NEW s \in Signallers, SignallerCalls(s) PROVE Coming(t)'
  BY <1>3, <1>11, Names DEF SignallerCalls, Drain, WakeFirst
<1>12. QED BY <1>4, <1>5, <1>7, <1>8, <1>9, <1>10, <1>11, CallSteps

LEMMA RaceStep == ASSUME IInv, [Next]_vars PROVE RaceInv'
<1> SUFFICES ASSUME ~raced', NEW t \in Waiters, fpc'[t] = "asleep"
             PROVE  /\ IsFirst(out[t], Matching(t))'
                    /\ \/ t \in left'
                       \/ /\ t \in asleep'[out'[t]]
                          /\ word'[t] = Closed \/ Opening(t)' \/ Coming(t)'
  BY DEF RaceInv
<1>0. /\ Typed /\ SleepInv /\ CallsInv /\ RaceInv /\ ~raced /\ t \in Threads /\ t \in Addrs
      /\ word \in [Addrs -> Values]
      /\ asleep \in [Entries -> SUBSET Threads]
  BY RacedStays, Functions, Names DEF IInv
<1>1. CASE Sleep(t) /\ UNCHANGED condVars
  <2>1. /\ op[t] = "wait" /\ fpc[t] = "kernel" /\ stage[t] = "have"
        /\ word[key[t]] = val[t] /\ IsFirst(out[t], Matching(key[t]))
        /\ asleep' = [asleep EXCEPT ![out[t]] = @ \cup {t}]
        /\ UNCHANGED <<tableVars, word>>
    BY <1>0, <1>1 DEF Sleep, At, Meets
  <2>2. key[t] = t /\ val[t] = Closed
    BY <1>0, <2>1 DEF CallsInv
  <2>3. out[t] \in Entries
    BY <1>0, <2>1 DEF Typed, FutexInv, TableInv, Chosen
  <2>4. t \in asleep'[out'[t]] /\ word'[t] = Closed
    BY <1>0, <2>1, <2>2, <2>3 DEF tableVars
  <2>5. IsFirst(out[t], Matching(t))'
    BY <2>1, <2>2 DEF tableVars, IsFirst, Matching
  <2>6. QED BY <2>4, <2>5
<1>2. CASE fpc[t] = "asleep" /\ out'[t] = out[t]
  <2>1. /\ IsFirst(out[t], Matching(t))
        /\ \/ t \in left
           \/ t \in asleep[out[t]] /\ (word[t] = Closed \/ Opening(t) \/ Coming(t))
    BY <1>0, <1>2 DEF RaceInv
  <2>2. out[t] \in Entries
    BY <1>0, <1>2 DEF SleepInv, Typed, FutexInv, TableInv, Chosen
  <2>3. IsFirst(out[t], Matching(t))'
    BY <1>0, <1>2, <2>1, <2>2, FirstKept
  <2>4. CASE t \in left
    BY <1>2, <2>3, <2>4, LeftStays
  <2>5. CASE t \in asleep[out[t]] /\ t \notin left'
    <3>1. t \in asleep'[out'[t]]
      BY <1>2, <2>2, <2>5, QueueStays
    <3>2. CASE Opening(t)
      BY <2>3, <3>1, <3>2, OpeningStays
    <3>3. CASE Coming(t)
      BY <1>2, <2>1, <2>2, <2>3, <2>5, <3>1, <3>3, ComingStays
    <3>4. CASE word[t] = Closed
      <4>1. ~Enlist(t) /\ ~LockBarrier(t) /\ ~Unblock(t)
        BY <1>0, <1>2 DEF CallsInv, Enlist, LockBarrier, Unblock
      <4>2. CASE word'[t] = word[t]
        BY <2>3, <3>1, <3>4, <4>2
      <4>3. ASSUME NEW u \in Waiters, Pass(u), prev[u] = t PROVE Opening(t)'
        BY <4>3, PassNodes DEF Opening, listVars
      <4>4. ASSUME NEW s \in Signallers, Free(s), first[s] = t PROVE Opening(t)'
        <5>1. pc'[s] = "wakefirst" /\ first' = first
          BY <1>0, <3>4, <4>4, Names DEF Free, Goto, Typed, walkVars
        <5>2. QED BY <4>4, <5>1 DEF Opening
      <4>5. QED BY <2>3, <3>1, <4>1, <4>2, <4>3, <4>4, WordOf DEF Opened
    <3>5. QED BY <2>1, <2>5, <3>2, <3>3, <3>4, <2>4
  <2>6. QED BY <2>1, <2>3, <2>4, <2>5
<1>3. QED BY <1>0, <1>1, <1>2, AsleepBefore

-----------------------------------------------------------------------------
\* The inductive invariant of the condition variable.
THEOREM Invariance == Spec => []IInv
<1>1. IInv /\ [Next]_vars => IInv'
  BY TypeStep, StateStep, BarrierStep, ShapeStep, PassStep, CallsStep, SleepStep, RaceStep DEF IInv
<1>2. QED BY <1>1, InitInv, PTL DEF Spec

\* The types of the state.
THEOREM Typing == Spec => []TypeOK
<1>1. IInv => TypeOK
  BY DEF IInv, Typed, TypeOK, FutexInv
<1>2. QED BY <1>1, Invariance, PTL

\* Where a waiter owns the mutex.  The one behind it, whose barrier it has opened,
\* has not come past the mutex.
Holding == {"locked", "enlisted", "settle", "pass", "requeue", "requeueing", "done"}
Waits(u) == state[u] = "signaled" /\ (Blocking(u) \/ pc[u] = "relock")
KeptInv ==
  \A t \in Waiters :
    /\ pc[t] \in Holding => owner = t
    /\ pc[t] \in {"requeue", "requeueing"} => \A u \in Waiters : prev[t] = u => Waits(u)
    /\ pc[t] = "requeueing" => key[t] = prev[t]

LEMMA OwnerStep ==
  ASSUME IInv, KeptInv, [Next]_vars, NEW t \in Waiters, pc'[t] \in Holding
  PROVE  owner' = t
<1> USE DEF Holding
<1>0. /\ Typed /\ t \in Threads /\ t \notin Signallers /\ t # NULL
      /\ pc \in [Threads -> WaiterLabels \cup SignallerLabels]
      /\ pc[t] \in Holding => owner = t
  BY Names DEF IInv, Typed, KeptInv
<1>1. ASSUME WaiterOutside(t) \/ WaiterCalls(t) \/ WaiterReturns(t) \/ TimeOut(t) \/ WaiterMoves(t)
      PROVE  owner' = t
  BY <1>0, <1>1
     DEF WaiterOutside, LockMutex, UnlockMutex, Late, Decide, LockBarrier, Unblock, Relock, Done,
         WaiterCalls, WaiterReturns, Wait, WakeNotify, Block, Requeue, Waited, Woken, Blocked,
         Requeued, TimeOut, WaiterMoves, Enlist, Unlink, Notify, Settle, Pass, Goto,
         Mutex!Acquire, Mutex!Release
<1>2. CASE pc'[t] = pc[t] /\ ~(WaiterOutside(t) \/ WaiterMoves(t))
  <2>1. owner = t
    BY <1>0, <1>2
  <2>2. ASSUME NEW v \in Waiters, WaiterOutside(v) PROVE owner' = owner
    BY <1>2, <2>1, <2>2, <1>0, Names
       DEF WaiterOutside, LockMutex, UnlockMutex, Late, Decide, LockBarrier, Unblock, Relock, Done,
           Mutex!Acquire, Mutex!Release
  <2>3. ASSUME NEW v \in Waiters,
               WaiterCalls(v) \/ WaiterReturns(v) \/ TimeOut(v) \/ Move(v) \/ WaiterMoves(v)
        PROVE  owner' = owner
    BY <2>3
       DEF WaiterCalls, WaiterReturns, Wait, WakeNotify, Block, Requeue, Waited, Woken, Blocked,
           Requeued, TimeOut, Move, WaiterMoves, Enlist, Unlink, Notify, Settle, Pass
  <2>4. ASSUME NEW s \in Signallers, SignallerCalls(s) \/ SignallerReturns(s) \/ SignallerMoves(s)
        PROVE  owner' = owner
    <3>1. CASE SignallerCalls(s) \/ SignallerReturns(s)
      BY <3>1 DEF SignallerCalls, SignallerReturns, Drain, WakeFirst, Drained, WokeFirst
    <3>2. CASE SignallerMoves(s)
      BY <3>2 DEF SignallerMoves, Signal, TakeNode, PassOver, Split, Proceed, Free
    <3>3. QED BY <2>4, <3>1, <3>2
  <2>5. UNCHANGED condVars \/ UNCHANGED vars => UNCHANGED condVars
    BY DEF vars
  <2>6. UNCHANGED condVars => owner' = owner
    BY DEF condVars
  <2>7. QED BY <2>1, <2>2, <2>3, <2>4, <2>5, <2>6, Steps
<1>3. QED BY <1>0, <1>1, <1>2, PlaceOf

\* Until the turn has been passed on, the one behind waits: for its barrier, or for
\* the mutex.
LEMMA WaitsStep ==
  ASSUME IInv, KeptInv, [Next]_vars, NEW t \in Waiters, pc[t] \in {"requeue", "requeueing"},
         NEW u \in Waiters, prev[t] = u
  PROVE  Waits(u)'
<1>0. /\ Typed /\ StateInv /\ u \in Threads /\ u \notin Signallers
      /\ pc \in [Threads -> WaiterLabels \cup SignallerLabels]
      /\ state \in [Waiters -> {"waiting", "leaving", "signaled"}]
      /\ Waits(u) /\ owner = t /\ t # NULL
  BY Names DEF IInv, Typed, KeptInv, Holding
<1> USE DEF Waits, Blocking, InWait
<1>1. ASSUME WaiterOutside(u) \/ WaiterCalls(u) \/ WaiterReturns(u) \/ TimeOut(u) \/ WaiterMoves(u)
      PROVE  Waits(u)'
  <2>1. CASE WaiterOutside(u)
    BY <1>0, <2>1
       DEF WaiterOutside, LockMutex, UnlockMutex, Late, Decide, LockBarrier, Unblock, Relock, Done,
           Goto, Mutex!Acquire
  <2>2. CASE WaiterCalls(u) \/ WaiterReturns(u) \/ TimeOut(u)
    BY <1>0, <2>2
       DEF WaiterCalls, WaiterReturns, Wait, WakeNotify, Block, Requeue, Waited, Woken, Blocked,
           Requeued, TimeOut, Goto
  <2>3. CASE WaiterMoves(u)
    BY <1>0, <2>3 DEF WaiterMoves, Enlist, Unlink, Notify, Settle, Pass
  <2>4. QED BY <1>1, <2>1, <2>2, <2>3
<1>2. ASSUME pc'[u] = pc[u], state'[u] = state[u] PROVE Waits(u)'
  BY <1>0, <1>2
<1>3. ASSUME NEW v \in Waiters, v # u,
             WaiterOutside(v) \/ WaiterCalls(v) \/ WaiterReturns(v) \/ TimeOut(v) \/ WaiterMoves(v)
      PROVE  Waits(u)'
  BY <1>0, <1>2, <1>3, OthersStay
<1>4. ASSUME NEW s \in Signallers, SignallerCalls(s) \/ SignallerReturns(s) \/ SignallerMoves(s)
      PROVE  Waits(u)'
  <2>1. state'[u] = state[u]
    <3>1. CASE TakeNode(s)
      BY <1>0, <3>1 DEF TakeNode
    <3>2. CASE ~TakeNode(s)
      BY <1>4, <3>2 DEF SignallerCalls, SignallerReturns, Drain, WakeFirst, Drained, WokeFirst,
                        SignallerMoves, Signal, PassOver, Split, Proceed, Free
    <3>3. QED BY <3>1, <3>2
  <2>2. pc'[u] = pc[u]
    BY <1>0, <1>4
       DEF SignallerCalls, SignallerReturns, Drain, WakeFirst, Drained, WokeFirst, SignallerMoves,
           Signal, TakeNode, PassOver, Split, Proceed, Free, Goto
  <2>3. QED BY <1>2, <2>1, <2>2
<1>5. CASE (\E v \in Waiters : Move(v)) \/ UNCHANGED condVars \/ UNCHANGED vars
  BY <1>2, <1>5 DEF Move, condVars, vars
<1>6. QED BY <1>1, <1>3, <1>4, <1>5, Steps

\* The key of a call stays until the thread makes another.
LEMMA KeyStays ==
  ASSUME IInv, [Next]_vars, NEW t \in Waiters, pc[t] = "requeueing"
  PROVE  key'[t] = key[t]
<1>0. /\ t \in Threads /\ t \notin Signallers /\ key \in [Threads -> Addrs]
  BY Functions, Names DEF IInv
<1>1. ASSUME NEW v \in Waiters, WaiterCalls(v) PROVE key'[t] = key[t]
  <2>1. v # t
    BY <1>1 DEF WaiterCalls, Wait, WakeNotify, Block, Requeue
  <2>2. QED BY <1>0, <1>1, <2>1, Names DEF WaiterCalls, Wait, WakeNotify, Block, Requeue, Call, Get
<1>2. ASSUME NEW s \in Signallers, SignallerCalls(s) PROVE key'[t] = key[t]
  BY <1>0, <1>2, Names DEF SignallerCalls, Drain, WakeFirst, Call, Get
<1>3. ASSUME NEW v \in Threads, Finish(v) PROVE key' = key
  BY <1>3 DEF Finish, Drop
<1>4. ASSUME NEW v \in Waiters, TimeOut(v) \/ Move(v) PROVE key' = key
  BY <1>4 DEF TimeOut, Expire, Move, tableVars
<1>5. ASSUME NEW v \in Threads, FutexStep(v) PROVE key' = key
  BY <1>0, <1>5, CallStays DEF tableVars
<1>6. CASE UNCHANGED <<tableVars, callVars>>
  BY <1>6 DEF tableVars
<1>7. QED BY <1>1, <1>2, <1>3, <1>4, <1>5, <1>6, CallSteps

LEMMA KeptStep == ASSUME IInv, KeptInv, [Next]_vars PROVE KeptInv'
<1> SUFFICES ASSUME NEW t \in Waiters
             PROVE  /\ pc'[t] \in Holding => owner' = t
                    /\ pc'[t] \in {"requeue", "requeueing"} =>
                         \A u \in Waiters : prev'[t] = u => Waits(u)'
                    /\ pc'[t] = "requeueing" => key'[t] = prev'[t]
  BY DEF KeptInv
<1>0. /\ Typed /\ t \in Threads /\ t \notin Signallers
      /\ pc \in [Threads -> WaiterLabels \cup SignallerLabels]
      /\ key \in [Threads -> Addrs]
  BY Functions, Names DEF IInv, Typed
<1>1. pc'[t] \in {"requeue", "requeueing"} => Pass(t) \/ pc[t] \in {"requeue", "requeueing"}
  BY <1>0, PlaceOf
     DEF WaiterOutside, LockMutex, UnlockMutex, Late, Decide, LockBarrier, Unblock, Relock, Done,
         WaiterCalls, WaiterReturns, Wait, WakeNotify, Block, Requeue, Waited, Woken, Blocked,
         Requeued, TimeOut, WaiterMoves, Enlist, Unlink, Notify, Settle, Pass, Goto
<1>2. pc'[t] = "requeueing" => Requeue(t) \/ pc[t] = "requeueing"
  BY <1>0, PlaceOf
     DEF WaiterOutside, LockMutex, UnlockMutex, Late, Decide, LockBarrier, Unblock, Relock, Done,
         WaiterCalls, WaiterReturns, Wait, WakeNotify, Block, Requeue, Waited, Woken, Blocked,
         Requeued, TimeOut, WaiterMoves, Enlist, Unlink, Notify, Settle, Pass, Goto
<1>3. ASSUME pc[t] \in {"requeue", "requeueing"}, NEW u \in Waiters, prev'[t] = u PROVE Waits(u)'
  BY <1>3, PrevStays, WaitsStep
<1>4. ASSUME Pass(t), NEW u \in Waiters, prev'[t] = u PROVE Waits(u)'
  <2>1. /\ Before(t) /\ ~Shut(t) /\ prev' = prev /\ state' = state /\ pc[t] = "pass"
        /\ \A v \in Threads : v # t => pc'[v] = pc[v]
    BY <1>4, PassNodes DEF listVars, Pass
  <2>2. Shut(u) \/ Listed(u)
    BY <1>4, <2>1 DEF IInv, ShapeInv, TurnInv
  <2>3. Shut(u)
    BY <1>0, <1>4, <2>1, <2>2, BehindLeaver DEF IInv
  <2>4. u # t /\ state[u] = "signaled" /\ Blocking(u) /\ u \in Threads
    BY <2>1, <2>3, Names DEF Shut, Queued
  <2>5. QED BY <2>1, <2>4 DEF Waits, Blocking, InWait
<1>5. ASSUME Requeue(t) PROVE key'[t] = prev'[t]
  BY <1>0, <1>5 DEF Requeue, Call, Get, listVars
<1>6. ASSUME pc[t] = "requeueing" PROVE key'[t] = prev'[t]
  BY <1>6, KeyStays, PrevStays DEF KeptInv
<1>7. QED BY <1>1, <1>2, <1>3, <1>4, <1>5, <1>6, OwnerStep

\* No pointer that pthread_cond_timedwait or a signal still follows leads into a
\* frame that is gone, nor does a load that the shim makes for a wait or a requeue,
\* for any number of waiters and signallers and however their timeouts, signals and
\* broadcasts interleave.  (A load for a wake may, and is excepted.)
THEOREM NoPointerDangles == Spec => []NoDangling
<1>1. IInv /\ KeptInv => NoDangling
  <2> SUFFICES ASSUME IInv, KeptInv PROVE NoDangling
    OBVIOUS
  <2>0. Typed /\ StateInv /\ RefInv /\ LinkInv /\ ListInv
    BY DEF IInv, ShapeInv
  <2>1. ASSUME NEW t \in {head, tail} \ {NULL}, held = NULL PROVE Listed(t)
    <3>1. t \in Waiters /\ Oldest = tail /\ tail # NULL
      BY <2>0, <2>1 DEF Typed, Oldest, ListInv
    <3>2. QED BY <2>0, <2>1, <3>1, Apart DEF ListInv
  <2>2. ASSUME NEW t \in Waiters, pc[t] = "leave", NEW u \in {prev[t], next[t]} \ {NULL}
        PROVE  Listed(u) \/ Before(u)
    <3>1. u \in Waiters /\ Listed(t) /\ In(t)
      BY <2>0, <2>2 DEF Typed, StateInv, Listed, In
    <3>2. In(u)
      BY <2>0, <2>2, <3>1 DEF LinkInv
    <3>3. QED BY <3>2 DEF In
  <2>3. ASSUME NEW t \in Waiters, notify[t] # NULL, pc[t] \in {"leave", "notify"}
        PROVE  pc[notify[t]] \in {"walk", "drain", "draining"}
    <3>1. notify[t] \in Signallers /\ t \in Leavers(notify[t])
      BY <2>0, <2>3 DEF Typed, Leavers
    <3>2. QED BY <2>0, <3>1 DEF RefInv
  <2>4. ASSUME NEW s \in Signallers, pc[s] = "free", first[s] # NULL PROVE Queued(first[s])
    <3>1. PICK f \in Waiters : first[s] = f
      BY <2>0, <2>4 DEF Typed
    <3>2. PICK G \in [Signallers -> SUBSET Waiters], O \in [Signallers -> SUBSET Waiters] :
                 \A r \in Signallers : Grouped(G, O, r)
      BY DEF IInv, ShapeInv, GroupInv
    <3>3. Shut(f)
      BY <2>4, <3>1, <3>2 DEF Grouped, Taker
    <3>4. QED BY <3>1, <3>3 DEF Shut
  <2>5. ASSUME NEW t \in Waiters, pc[t] \in {"pass", "requeue", "requeueing"}
        PROVE  prev[t] \in Waiters /\ OnFrame(prev[t])
    <3>1. PICK u \in Waiters : prev[t] = u
      BY <2>0, <2>5 DEF IInv, PassInv, Typed
    <3>2. CASE pc[t] = "pass"
      <4>1. Before(t)
        BY <2>0, <3>2 DEF Before, StateInv
      <4>2. Shut(u) \/ Listed(u)
        BY <3>1, <4>1 DEF IInv, ShapeInv, TurnInv
      <4>3. QED BY <3>1, <4>2 DEF Shut, Queued, Listed, Blocking, InWait, OnFrame
    <3>3. CASE pc[t] # "pass"
      BY <2>5, <3>1, <3>3 DEF KeptInv, Waits, Blocking, InWait, OnFrame
    <3>4. QED BY <3>2, <3>3
  <2>6. ASSUME NEW t \in Threads, fpc[t] = "load", op[t] # "wake" PROVE OnFrame(key[t])
    <3>1. CASE t \in Waiters
      <4>1. (pc[t] \in {"waiting", "expired", "blocked"} /\ key[t] = t) \/ pc[t] = "requeueing"
        BY <2>6, <3>1 DEF IInv, CallsInv
      <4>2. QED BY <2>5, <3>1, <4>1 DEF KeptInv, OnFrame
    <3>2. CASE t \in Signallers
      BY <2>6, <3>2 DEF IInv, CallsInv, OnFrame
    <3>3. QED BY <3>1, <3>2, CondAssumption
  <2>7. QED BY <2>1, <2>2, <2>3, <2>4, <2>5, <2>6 DEF NoDangling
<1>2. Init => KeptInv
  BY Names DEF Init, KeptInv, Holding
<1>3. IInv /\ KeptInv /\ [Next]_vars => KeptInv'
  BY KeptStep
<1>4. Spec => []KeptInv
  BY <1>2, <1>3, Invariance, PTL DEF Spec
<1>5. QED BY <1>1, <1>4, Invariance, PTL

\* The waiters that one broadcast takes get the mutex one after the other, and
\* nobody's turn comes while a leaving node could still be among them.
THEOREM OneAfterTheOther == Spec => []InTurn
<1>1. IInv => InTurn
  <2> SUFFICES ASSUME IInv, NEW t \in Waiters, Before(t), prev[t] # NULL
               PROVE  \/ Queued(prev[t]) /\ word[prev[t]] = Closed
                      \/ Listed(prev[t]) /\ Blocking(t) /\ word[t] = Closed
    BY DEF InTurn
  <2>0. Typed /\ ShapeInv
    BY DEF IInv
  <2>1. PICK u \in Waiters : prev[t] = u
    BY <2>0 DEF Typed
  <2>2. Shut(u) \/ Listed(u)
    BY <2>0, <2>1 DEF ShapeInv, TurnInv
  <2>3. Listed(u) => Shut(t)
    BY <2>0, <2>1, BehindLeaver
  <2>4. QED BY <2>1, <2>2, <2>3 DEF Shut, Queued
<1>2. QED BY <1>1, Invariance, PTL

\* What a group adds to the mutex's waiters is taken off again: nothing is left
\* counted when nobody is inside.
THEOREM CountIsBalanced == Spec => []CountBalanced
<1>1. IInv => CountBalanced
  <2> SUFFICES ASSUME IInv PROVE CountBalanced
    OBVIOUS
  <2>1. mWaiters = Cardinality(Counted) /\ mWaiters >= 0
    BY CountedFinite DEF IInv, CountInv
  <2>2. ASSUME \A t \in Waiters : ~Before(t) PROVE mWaiters = 0
    <3>1. Counted = {}
      BY <2>2 DEF Counted
    <3>2. QED BY <2>1, <3>1, FS_EmptySet
  <2>3. QED BY <2>1, <2>2 DEF CountBalanced
<1>2. QED BY <1>1, Invariance, PTL

\* A waiter whose turn has come sleeps on only where a call met one of the races
\* of the copied word, or where the waiter before it had it requeued.
THEOREM NoOtherSleeper == Spec => []AsleepByRaceOrRequeue
<1>1. IInv => AsleepByRaceOrRequeue
  <2> SUFFICES ASSUME IInv, NEW t \in Waiters, fpc[t] = "asleep", word[t] = 0, ~Waking(t),
                      ~Opening(t), ~raced
               PROVE  t \in left
    BY DEF AsleepByRaceOrRequeue
  <2>1. t \in left \/ Coming(t)
    BY DEF IInv, RaceInv, Closed
  <2>2. ASSUME Coming(t) PROVE Waking(t)
    <3>1. PICK u \in Threads : /\ fpc[u] \in {"load", "store", "kernel"}
                               /\ op[u] \in {"wake", "requeue"} /\ key[u] = t
      BY <2>2 DEF Coming
    <3>2. QED BY <3>1 DEF Waking
  <2>3. QED BY <2>1, <2>2
<1>2. QED BY <1>1, Invariance, PTL

=============================================================================
