--------------------------- MODULE ShimJoinProofs ---------------------------
(***************************************************************************)
(* Theorems about ShimJoin, for any number of children and table entries.  *)
(***************************************************************************)
EXTENDS ShimJoin, FutexShimProofs

USE JoinAssumption, TidPtrAssumption, ValuesAssumption, NULLAssumption, ReusesAssumption
    DEF EXITED, EXITING, JOINABLE, DETACHED, DYNAMIC

JoinerLabels == {"next", "look", "wait", "waiting", "expired"}
ChildLabels  == {"absent", "start", "register", "stamped", "registered", "run",
                 "unregister", "exiting", "exited", "gone"}
\* Where a child is still to announce its exit, ...
Alive        == {"start", "register", "stamped", "registered", "run", "unregister", "exiting"}
\* ... and where the kernel has its clear_child_tid, or the child withdrew it.
Known        == {"registered", "run", "unregister", "exiting", "exited", "gone"}
\* Where a child is in set_tid_address.
InCall       == {"register", "stamped", "registered"}

\* The types, and who is where.
Typed ==
  /\ FutexInv
  /\ pc \in [Threads -> JoinerLabels \cup ChildLabels]
  /\ pc[Joiner] \in JoinerLabels
  /\ \A c \in Children : pc[c] \in ChildLabels
  /\ clear \in [Children -> Entries \cup {NULL}]
  /\ awaited \in Children \cup {NULL}
  /\ deadline \in BOOLEAN
  /\ state \in EXITED .. DYNAMIC
  /\ joined \subseteq Children
  /\ detached \subseteq Children
  /\ late \in [Entries -> Nat]
  /\ reuses \in 0 .. Reuses

\* detach_state says DT_EXITED when its thread has said so itself, and not before;
\* it tells of every thread that is not to be joined.
WordInv ==
  \A c \in Children : /\ word[c] \in EXITED .. DYNAMIC
                      /\ word[c] \in {DETACHED, DYNAMIC} => c \in detached
                      /\ pc[c] \in Alive => word[c] # EXITED
                      /\ pc[c] \in {"exited", "gone"} => word[c] = EXITED

\* What the joiner is joining exists and was not detached, and what it sleeps for
\* is not an exit.
JoinerInv ==
  /\ joined \cap detached = {}
  /\ pc[Joiner] # "next" => awaited \in Children \ detached /\ pc[awaited] # "absent"
  /\ pc[Joiner] = "wait" => state # EXITED
  /\ pc[Joiner] = "waiting" => key[Joiner] = awaited /\ val[Joiner] # EXITED
  /\ pc[Joiner] = "expired" => fpc[Joiner] = "return"
  /\ fpc[Joiner] # "none" => pc[Joiner] \in {"waiting", "expired"}
  /\ op[Joiner] = "wait"

\* A child calls set_tid_address with the address of its own word, and only one
\* that was detached withdraws it.
ChildInv ==
  \A c \in Children :
    /\ fpc[c] # "none" => pc[c] \in InCall
    /\ pc[c] \in InCall => op[c] = "settid" /\ key[c] = c
    /\ pc[c] = "stamped" => stage[c] = "have"
    /\ pc[c] = "unregister" => c \in detached
    /\ pc[c] \in Known => clear[c] \in Entries \/ (clear[c] = NULL /\ c \in detached)

\* Only the joiner sleeps, on the word its lookup gave it.
SleepInv ==
  /\ \A e \in Entries : \A u \in asleep[e] :
       u = Joiner /\ fpc[Joiner] = "asleep" /\ out[Joiner] = e
  /\ fpc[Joiner] = "asleep" => stage[Joiner] = "have" /\ Joiner \in asleep[out[Joiner]]

\* Where no call met a race, the child's clear_child_tid and the word the joiner
\* sleeps on are both the first word of the child's address: the same one.
RaceInv ==
  ~raced =>
    /\ \A c \in Children :
         pc[c] \in Known => clear[c] = NULL \/ IsFirst(clear[c], Matching(c))
    /\ fpc[Joiner] = "asleep" =>
         IsFirst(out[Joiner], Matching(awaited)) /\ pc[awaited] # "gone"

IInv == Typed /\ WordInv /\ JoinerInv /\ ChildInv /\ SleepInv /\ FreedAfterLastUse /\ RaceInv

\* The steps of a child outside its call, but the one in which it leaves.
ChildMove(c) ==
  \/ SetTidAddress(c) \/ Stamp(c) \/ Register(c) \/ Run(c)
  \/ Exiting(c) \/ Unregister(c) \/ Exited(c)

\* The steps of the joiner outside its calls, between two joins ...
NextMove(c) == Create(c) \/ Await(c) \/ Detach(c)
\* ... and in one.
JoinMove == Look \/ Join \/ Wait \/ Waited \/ TimeOut \/ GiveUp \/ TooLate

LEMMA Labelled == /\ JoinerLabels \cap ChildLabels = {}
                  /\ Joiner \notin Children
  BY DEF JoinerLabels, ChildLabels, Children

LEMMA InitInv == Init => IInv
<1> SUFFICES ASSUME Init PROVE IInv
  OBVIOUS
<1>0. /\ \A t \in Threads : fpc[t] = "none"
      /\ \A c \in Children : pc[c] = "absent"
      /\ pc[Joiner] = "next"
      /\ \A e \in Entries : asleep[e] = {}
  BY DEF Init, FutexInit, Children
<1>1. Typed
  <2>1. FutexInv
    BY FutexInitInv DEF Init
  <2>2. pc \in [Threads -> JoinerLabels \cup ChildLabels]
    BY DEF Init, JoinerLabels, ChildLabels
  <2>3. pc[Joiner] \in JoinerLabels /\ \A c \in Children : pc[c] \in ChildLabels
    BY <1>0 DEF JoinerLabels, ChildLabels
  <2>4. /\ clear \in [Children -> Entries \cup {NULL}]
        /\ late \in [Entries -> Nat]
    BY DEF Init
  <2>5. /\ awaited \in Children \cup {NULL}
        /\ state \in EXITED .. DYNAMIC /\ reuses \in 0 .. Reuses
        /\ joined \subseteq Children /\ detached \subseteq Children
    BY DEF Init
  <2>6. deadline \in BOOLEAN
    BY Zenon DEF Init
  <2>7. QED BY <2>1, <2>2, <2>3, <2>4, <2>5, <2>6, Zenon DEF Typed
<1>2. WordInv
  <2>1. \A c \in Children : word[c] = 0
    BY DEF Init, FutexInit
  <2>2. QED BY <1>0, <2>1 DEF WordInv, Alive
<1>3. JoinerInv
  BY <1>0 DEF Init, FutexInit, JoinerInv
<1>4. ChildInv
  BY <1>0 DEF ChildInv, InCall, Known, Children
<1>5. SleepInv
  BY <1>0 DEF SleepInv
<1>6. FreedAfterLastUse
  BY DEF Init, FreedAfterLastUse
<1>7. RaceInv
  BY <1>0 DEF RaceInv, Known
<1>8. QED BY <1>1, <1>2, <1>3, <1>4, <1>5, <1>6, <1>7 DEF IInv

\* What the typing says of the functions that the steps update.
LEMMA Functions ==
  ASSUME Typed
  PROVE  /\ word \in [Addrs -> Values] /\ outWord \in [Entries -> Values]
         /\ asleep \in [Entries -> SUBSET Threads]
         /\ fpc \in [Threads -> {"none", "load", "store", "kernel", "asleep", "return"}]
         /\ op \in [Threads -> {"wait", "wake", "requeue", "settid"}]
         /\ val \in [Threads -> Values]
         /\ tmp \in [Threads -> Values]
         /\ key \in [Threads -> Addrs]
         /\ out \in [Threads -> Entries \cup {NULL}]
         /\ stage \in [Threads -> {"idle", "miss", "have", "crashed"}]
         /\ raced \in BOOLEAN
  BY DEF Typed, FutexInv, FutexTypeOK, TableTypeOK

\* The steps of the shim inside a call, with the operations that are called.
LEMMA InsideCall ==
  ASSUME IInv, NEW t \in Threads, FutexStep(t)
  PROVE  \/ Allocate(t) \/ Load(t) \/ Store(t)
         \/ t = Joiner /\ (Sleep(t) \/ Again(t))
<1>1. CASE t = Joiner
  BY <1>1 DEF FutexStep, WakeOne, WakeNone, IInv, JoinerInv
<1>2. CASE t \in Children
  <2>1. ASSUME fpc[t] # "none" PROVE op[t] = "settid"
    BY <1>2, <2>1 DEF IInv, ChildInv
  <2>2. QED BY <2>1 DEF FutexStep, Sleep, Again, WakeOne, WakeNone, At
<1>3. QED BY <1>1, <1>2 DEF Children

\* A step that changes only one thread's label.
LEMMA Labelling ==
  ASSUME Typed, NEW t \in Threads, NEW l, Goto(t, l),
         l \in IF t = Joiner THEN JoinerLabels ELSE ChildLabels
  PROVE  /\ pc' \in [Threads -> JoinerLabels \cup ChildLabels]
         /\ pc'[Joiner] \in JoinerLabels
         /\ \A c \in Children : pc'[c] \in ChildLabels
         /\ pc'[t] = l
         /\ \A u \in Threads : u # t => pc'[u] = pc[u]
<1>1. \A u \in Threads : pc'[u] = IF u = t THEN l ELSE pc[u]
  BY DEF Goto, Typed
<1>2. \A u \in Threads : pc'[u] \in IF u = Joiner THEN JoinerLabels ELSE ChildLabels
  BY <1>1 DEF Typed, Children
<1>3. pc' \in [Threads -> JoinerLabels \cup ChildLabels]
  <2>1. l \in JoinerLabels \cup ChildLabels
    OBVIOUS
  <2>2. QED BY <2>1 DEF Goto, Typed
<1>4. QED BY <1>1, <1>2, <1>3 DEF Children

LEMMA StoreState ==
  ASSUME Typed, NEW c \in Children, NEW v \in EXITED .. DYNAMIC, SetState(c, v)
  PROVE  /\ word' \in [Addrs -> Values]
         /\ word'[c] = v
         /\ \A d \in Children : d # c => word'[d] = word[d]
  BY Functions DEF SetState

\* The steps, grouped by who takes them.
LEMMA Steps ==
  ASSUME [Next]_vars
  PROVE  \/ \E c \in Children : ChildMove(c) \/ NextMove(c) \/ Gone(c)
         \/ \E e \in Entries : GoneLate(e)
         \/ JoinMove
         \/ \E t \in Threads : FutexStep(t) /\ UNCHANGED joinVars
         \/ UNCHANGED vars
<1>1. ASSUME JoinerStep
      PROVE  \/ \E c \in Children : NextMove(c)
             \/ JoinMove
             \/ FutexStep(Joiner) /\ UNCHANGED joinVars
  BY <1>1 DEF JoinerStep, NextMove, JoinMove
<1>2. ASSUME NEW c \in Children, ChildStep(c)
      PROVE  ChildMove(c) \/ Gone(c) \/ (FutexStep(c) /\ UNCHANGED joinVars)
  BY <1>2 DEF ChildStep, ChildMove
<1>3. QED
  BY <1>1, <1>2 DEF Next, Children

\* The kernel's clear of an entry wakes the joiner if it sleeps on that entry, and
\* does nothing to any other sleep or call.
LEMMA Cleared ==
  ASSUME Typed, SleepInv, NEW e \in Entries, Clears(e)
  PROVE  /\ UNCHANGED <<tableVars, word, op, val, tmp, raced>>
         /\ FutexInv'
         /\ \A t \in Threads : t # Joiner => fpc'[t] = fpc[t]
         /\ \/ /\ fpc' = fpc /\ asleep' = asleep
               /\ fpc[Joiner] = "asleep" => out[Joiner] # e
            \/ /\ fpc[Joiner] = "asleep" /\ out[Joiner] = e
               /\ fpc'[Joiner] = "return"
               /\ \A f \in Entries : asleep'[f] = {}
<1>1. UNCHANGED <<tableVars, word, op, val, tmp, raced>>
  BY DEF Clears
<1>2. outWord' \in [Entries -> Values]
  BY Functions DEF Clears
<1>3. TableInv'
  BY <1>1, TableStutter DEF Typed, FutexInv
<1>4. FutexInv
  BY DEF Typed
<1>5. CASE asleep[e] = {}
  <2>1. fpc' = fpc /\ asleep' = asleep
    BY <1>5 DEF Clears
  <2>2. fpc[Joiner] = "asleep" => out[Joiner] # e
    BY <1>5 DEF SleepInv
  <2>3. FutexInv'
    BY <1>1, <1>2, <1>3, <1>4, <2>1 DEF FutexInv, FutexTypeOK, TableInv
  <2>4. QED BY <1>1, <2>1, <2>2, <2>3
<1>6. CASE asleep[e] # {}
  <2>1. PICK u \in asleep[e] :
          asleep' = [asleep EXCEPT ![e] = @ \ {u}] /\ To(u, "return")
    BY <1>6 DEF Clears
  <2>2. /\ u = Joiner /\ fpc[Joiner] = "asleep" /\ out[Joiner] = e
        /\ \A v \in asleep[e] : v = Joiner
    BY <2>1 DEF SleepInv
  <2>3. fpc' = [fpc EXCEPT ![Joiner] = "return"]
    BY <2>1, <2>2 DEF To
  <2>4. /\ fpc'[Joiner] = "return"
        /\ \A t \in Threads : t # Joiner => fpc'[t] = fpc[t]
        /\ fpc' \in [Threads -> {"none", "load", "store", "kernel", "asleep", "return"}]
    BY <2>3, Functions
  <2>5. \A f \in Entries : asleep'[f] = {}
    BY <2>1, <2>2, Functions DEF SleepInv
  <2>6. asleep' \in [Entries -> SUBSET Threads]
    BY <2>1, Functions
  <2>7. FutexInv'
    BY <1>1, <1>2, <1>3, <1>4, <2>4, <2>6 DEF FutexInv, FutexTypeOK, TableInv
  <2>8. QED BY <1>1, <2>2, <2>4, <2>5, <2>7
<1>7. QED BY <1>5, <1>6

\* A thread leaves without a clear only if it was detached.
LEMMA Leaves ==
  ASSUME IInv, NEW c \in Children, Gone(c)
  PROVE  \/ clear[c] = NULL /\ c \in detached /\ UNCHANGED futexVars
         \/ clear[c] \in Entries /\ Clears(clear[c])
<1>1. clear[c] \in Entries \/ (clear[c] = NULL /\ c \in detached)
  BY DEF Gone, IInv, ChildInv, Known
<1>2. NULL \notin Entries
  BY DEF Entries
<1>3. QED BY <1>1, <1>2 DEF Gone

\* What the kernel does for a thread that has left, in either case.
LEMMA Kernel ==
  ASSUME IInv, (\E c \in Children : Gone(c)) \/ (\E e \in Entries : GoneLate(e))
  PROVE  /\ UNCHANGED <<tableVars, word, op, val, tmp, raced, clear, joinerVars,
                        joined, detached, reuses>>
         /\ FutexInv' /\ SleepInv'
         /\ \A t \in Threads : t # Joiner => fpc'[t] = fpc[t]
         /\ fpc'[Joiner] = fpc[Joiner] \/ (fpc[Joiner] = "asleep" /\ fpc'[Joiner] = "return")
<1>0. Typed /\ SleepInv /\ FutexInv
  BY DEF IInv, Typed
<1>1. UNCHANGED <<clear, joinerVars, joined, detached, reuses>>
  BY DEF Gone, GoneLate, fateVars
<1>2. CASE UNCHANGED futexVars
  <2>1. UNCHANGED <<tableVars, word, callVars>>
    BY <1>2 DEF futexVars
  <2>2. FutexInv'
    BY <1>0, <2>1, Functions, OutsideInv
  <2>3. SleepInv'
    BY <1>0, <2>1 DEF SleepInv, tableVars, callVars
  <2>4. QED BY <1>1, <2>1, <2>2, <2>3 DEF callVars
<1>3. ASSUME NEW e \in Entries, Clears(e)
      PROVE  /\ UNCHANGED <<tableVars, word, op, val, tmp, raced>>
             /\ FutexInv' /\ SleepInv'
             /\ \A t \in Threads : t # Joiner => fpc'[t] = fpc[t]
             /\ \/ fpc'[Joiner] = fpc[Joiner]
                \/ fpc[Joiner] = "asleep" /\ fpc'[Joiner] = "return"
  <2>1. UNCHANGED <<tableVars, word, op, val, tmp, raced>> /\ FutexInv'
    BY <1>0, <1>3, Cleared
  <2>2. CASE fpc' = fpc /\ asleep' = asleep
    BY <1>0, <2>1, <2>2 DEF SleepInv, tableVars
  <2>3. CASE /\ fpc[Joiner] = "asleep" /\ fpc'[Joiner] = "return"
             /\ \A f \in Entries : asleep'[f] = {}
    <3>1. SleepInv'
      BY <2>3 DEF SleepInv
    <3>2. QED BY <1>0, <1>3, <2>1, <2>3, <3>1, Cleared
  <2>4. QED BY <1>0, <1>3, <2>2, <2>3, Cleared
<1>4. CASE \E c \in Children : Gone(c)
  BY <1>1, <1>2, <1>3, <1>4, Leaves
<1>5. CASE \E e \in Entries : GoneLate(e)
  BY <1>1, <1>3, <1>5 DEF GoneLate
<1>6. QED BY <1>4, <1>5

\* A step that changes one label and keeps the types of the rest.
LEMMA Retyped ==
  ASSUME Typed, FutexInv', NEW t \in Threads, NEW l, Goto(t, l),
         l \in IF t = Joiner THEN JoinerLabels ELSE ChildLabels,
         clear' \in [Children -> Entries \cup {NULL}],
         awaited' \in Children \cup {NULL}, deadline' \in BOOLEAN,
         state' \in EXITED .. DYNAMIC, joined' \subseteq Children,
         detached' \subseteq Children, late' \in [Entries -> Nat], reuses' \in 0 .. Reuses
  PROVE  Typed'
<1>1. /\ pc' \in [Threads -> JoinerLabels \cup ChildLabels]
      /\ pc'[Joiner] \in JoinerLabels
      /\ \A c \in Children : pc'[c] \in ChildLabels
  BY Labelling
<1>2. QED BY <1>1, Zenon DEF Typed

LEMMA TypeStep == ASSUME IInv, [Next]_vars PROVE Typed'
<1>0. /\ Typed /\ FutexInv /\ WordInv
      /\ word \in [Addrs -> Values]
      /\ Joiner \in Threads /\ Joiner \notin Children /\ Children \subseteq Threads
      /\ clear \in [Children -> Entries \cup {NULL}]
      /\ awaited \in Children \cup {NULL}
      /\ state \in EXITED .. DYNAMIC
      /\ joined \subseteq Children
      /\ detached \subseteq Children
      /\ late \in [Entries -> Nat]
      /\ reuses \in 0 .. Reuses
      /\ out \in [Threads -> Entries \cup {NULL}]
  BY Functions, Labelled DEF IInv, Typed, Children
<1>1. deadline \in BOOLEAN
  BY Zenon DEF IInv, Typed
<1>2. ASSUME FutexInv', UNCHANGED joinVars PROVE Typed'
  <2>1. UNCHANGED <<pc, clear, awaited, deadline, state, joined, detached, late, reuses>>
    BY <1>2 DEF joinVars
  <2>2. QED BY <1>0, <1>2, <2>1, Zenon DEF Typed
<1>3. ASSUME UNCHANGED <<tableVars, callVars>>, word' \in [Addrs -> Values] PROVE FutexInv'
  BY <1>0, <1>3, OutsideInv
<1>4. ASSUME UNCHANGED futexVars PROVE FutexInv'
  BY <1>0, <1>3, <1>4 DEF futexVars
<1>5. ASSUME NEW c \in Children, ChildMove(c) PROVE Typed'
  <2>1. UNCHANGED <<awaited, deadline, state, joined, detached, late, reuses>>
    BY <1>5 DEF ChildMove, SetTidAddress, Stamp, Register, Run, Exiting, Unregister, Exited,
                joinerVars, fateVars
  <2>2. PICK l \in ChildLabels : Goto(c, l)
    <3>1. \E l \in {"register", "stamped", "registered", "run", "unregister", "exiting", "exited"} :
            Goto(c, l)
      BY <1>5 DEF ChildMove, SetTidAddress, Stamp, Register, Run, Exiting, Unregister, Exited
    <3>2. QED BY <3>1 DEF ChildLabels
  <2>3. clear' \in [Children -> Entries \cup {NULL}]
    BY <1>0, <1>5
       DEF ChildMove, SetTidAddress, Stamp, Register, Run, Exiting, Unregister, Exited
  <2>4. FutexInv'
    <3>1. CASE SetTidAddress(c)
      BY <1>0, <3>1, CallInv DEF SetTidAddress
    <3>2. CASE Stamp(c)
      <4>1. TableInv'
        BY <1>0, <3>2, TableStutter DEF Stamp, FutexInv
      <4>2. outWord' \in [Entries -> Values]
        BY <3>2, Functions, <1>0 DEF Stamp
      <4>3. QED BY <1>0, <3>2, <4>1, <4>2 DEF Stamp, FutexInv, FutexTypeOK, TableInv
    <3>3. CASE Register(c)
      <4>1. TableInv'
        BY <1>0, <3>3, TableStutter DEF Register, FutexInv
      <4>2. raced' \in BOOLEAN
        BY <1>0, <3>3, MeetsType, Functions DEF Register
      <4>3. QED BY <1>0, <3>3, <4>1, <4>2 DEF Register, To, FutexInv, FutexTypeOK, TableInv
    <3>4. CASE Run(c)
      BY <1>0, <3>4, FinishInv DEF Run
    <3>5. CASE Exiting(c) \/ Exited(c)
      <4>1. UNCHANGED <<tableVars, callVars>>
        BY <3>5 DEF Exiting, Exited
      <4>2. word' \in [Addrs -> Values]
        BY <1>0, <3>5, StoreState DEF Exiting, Exited
      <4>3. QED BY <1>3, <4>1, <4>2
    <3>6. CASE Unregister(c)
      BY <1>4, <3>6 DEF Unregister
    <3>7. QED BY <1>5, <3>1, <3>2, <3>3, <3>4, <3>5, <3>6 DEF ChildMove
  <2>5. QED BY <1>0, <1>1, <2>1, <2>2, <2>3, <2>4, Retyped
<1>6. ASSUME NEW c \in Children, Create(c) PROVE Typed'
  <2>1. /\ joined' \subseteq Children /\ detached' \subseteq Children
        /\ reuses' \in 0 .. Reuses
    BY <1>0, <1>6 DEF Create, Recycle
  <2>2. late' \in [Entries -> Nat]
    BY <1>0, <1>6 DEF Create, Recycle
  <2>3. FutexInv'
    BY <1>0, <1>3, <1>6, StoreState DEF Create
  <2>4. Goto(c, "start") /\ UNCHANGED <<awaited, deadline, state>>
    BY <1>6 DEF Create, joinerVars
  <2>5. clear' \in [Children -> Entries \cup {NULL}]
    BY <1>0, <1>6 DEF Create
  <2>6. "start" \in ChildLabels
    BY DEF ChildLabels
  <2>7. QED BY <1>0, <1>1, <2>1, <2>2, <2>3, <2>4, <2>5, <2>6, Retyped
<1>7. ASSUME NEW c \in Children, NEW d \in BOOLEAN, BeginJoin(c, d), FutexInv',
             UNCHANGED <<clear, state, fateVars>>
      PROVE  Typed'
  <2>1. "look" \in JoinerLabels /\ awaited' = c /\ deadline' = d /\ Goto(Joiner, "look")
    BY <1>7 DEF JoinerLabels, BeginJoin
  <2>2. UNCHANGED <<clear, state, joined, detached, late, reuses>>
    BY <1>7 DEF fateVars
  <2>3. QED BY <1>0, <1>7, <2>1, <2>2, Retyped
<1>8. ASSUME NEW c \in Children, Await(c) PROVE Typed'
  BY <1>4, <1>7, <1>8 DEF Await
<1>9. ASSUME NEW c \in Children, Detach(c) PROVE Typed'
  <2>1. CASE word[c] = JOINABLE
    <3>1. FutexInv'
      BY <1>0, <1>3, <1>9, <2>1, StoreState DEF Detach
    <3>2. UNCHANGED <<pc, clear, awaited, deadline, state, joined, late, reuses>>
          /\ detached' \subseteq Children
      BY <1>0, <1>9, <2>1 DEF Detach
    <3>3. QED BY <1>0, <3>1, <3>2, Zenon DEF Typed
  <2>2. CASE word[c] # JOINABLE
    <3>1. FutexInv'
      BY <1>0, <1>3, <1>9, <2>2 DEF Detach
    <3>2. BeginJoin(c, FALSE) /\ UNCHANGED <<clear, state, fateVars>>
      BY <1>9, <2>2 DEF Detach, fateVars
    <3>3. QED BY <1>7, <3>1, <3>2
  <2>3. QED BY <2>1, <2>2
<1>10. ASSUME JoinMove PROVE Typed'
  <2>1. UNCHANGED <<clear, detached, late, reuses>>
    BY <1>10 DEF JoinMove, Look, Join, Wait, Waited, TimeOut, GiveUp, TooLate, EndJoin,
                 joinerVars, fateVars
  <2>2. PICK l \in JoinerLabels : Goto(Joiner, l)
    <3>1. \E l \in {"next", "look", "wait", "waiting", "expired"} : Goto(Joiner, l)
      BY <1>10 DEF JoinMove, Look, Join, Wait, Waited, TimeOut, GiveUp, TooLate, EndJoin
    <3>2. QED BY <3>1 DEF JoinerLabels
  <2>3. awaited' \in Children \cup {NULL}
    BY <1>0, <1>10 DEF JoinMove, Look, Join, Wait, Waited, TimeOut, GiveUp, TooLate, EndJoin,
                       joinerVars
  <2>4. deadline' \in BOOLEAN
    <3>1. deadline' = deadline \/ deadline' = FALSE
      BY <1>10, Zenon DEF JoinMove, Look, Join, Wait, Waited, TimeOut, GiveUp, TooLate,
                          EndJoin, joinerVars
    <3>2. QED BY <1>1, <3>1, Zenon
  <2>5. state' \in EXITED .. DYNAMIC /\ joined' \subseteq Children
    <3>1. pc[Joiner] = "look" => awaited \in Children
      BY DEF IInv, JoinerInv
    <3>2. QED BY <1>0, <1>10, <3>1
                 DEF JoinMove, Look, Join, Wait, Waited, TimeOut, GiveUp, TooLate, EndJoin,
                     joinerVars, fateVars, WordInv
  <2>6. FutexInv'
    <3>1. CASE Wait
      <4>1. awaited \in Children
        BY <3>1 DEF Wait, IInv, JoinerInv
      <4>2. state \in Values
        BY <1>0
      <4>3. QED BY <1>0, <3>1, <4>1, <4>2, CallInv DEF Wait
    <3>2. CASE Waited \/ GiveUp
      BY <1>0, <3>2, FinishInv DEF Waited, GiveUp
    <3>3. CASE TimeOut
      BY <1>0, <3>3, ExpireInv DEF TimeOut
    <3>4. CASE Look \/ Join \/ TooLate
      BY <1>4, <3>4 DEF Look, Join, TooLate
    <3>5. QED BY <1>10, <3>1, <3>2, <3>3, <3>4 DEF JoinMove
  <2>7. QED BY <1>0, <2>1, <2>2, <2>3, <2>4, <2>5, <2>6, Retyped
<1>11. ASSUME NEW c \in Children, Gone(c) PROVE Typed'
  <2>1. FutexInv' /\ UNCHANGED <<clear, awaited, deadline, state, joined, detached, reuses>>
    BY <1>11, Kernel DEF joinerVars
  <2>2. late' = late /\ Goto(c, "gone") /\ "gone" \in ChildLabels
    BY <1>11 DEF Gone, fateVars, ChildLabels
  <2>3. QED BY <1>0, <1>1, <2>1, <2>2, Retyped
<1>12. ASSUME NEW e \in Entries, GoneLate(e) PROVE Typed'
  <2>1. FutexInv' /\ UNCHANGED <<clear, awaited, deadline, state, joined, detached, reuses>>
    BY <1>12, Kernel DEF joinerVars
  <2>2. pc' = pc /\ late' \in [Entries -> Nat]
    BY <1>0, <1>12 DEF GoneLate
  <2>3. QED BY <1>0, <2>1, <2>2, Zenon DEF Typed
<1>13. ASSUME NEW t \in Threads, FutexStep(t), UNCHANGED joinVars PROVE Typed'
  BY <1>0, <1>2, <1>13, FutexStepInv
<1>14. CASE UNCHANGED vars
  BY <1>2, <1>4, <1>14 DEF vars
<1>15. QED
  BY <1>5, <1>6, <1>8, <1>9, <1>10, <1>11, <1>12, <1>13, <1>14, Steps DEF NextMove

\* The word of a child is written by its creation, by its exit and by the
\* pthread_detach of one that has not begun to exit.
LEMMA WordStep == ASSUME IInv, [Next]_vars PROVE WordInv'
<1>0. /\ Typed /\ WordInv /\ FutexInv
      /\ Joiner \in Threads /\ Joiner \notin Children /\ Children \subseteq Threads
  BY Labelled DEF IInv, Typed, Children
<1>1. ASSUME word' = word, detached' = detached, \A d \in Children :
             /\ pc'[d] \in Alive => pc[d] \in Alive
             /\ pc'[d] \in {"exited", "gone"} => pc[d] \in {"exited", "gone"}
      PROVE  WordInv'
  BY <1>0, <1>1 DEF WordInv
<1>2. ASSUME word' = word, detached' = detached, \A d \in Children : pc'[d] = pc[d]
      PROVE  WordInv'
  BY <1>1, <1>2
<1>3. ASSUME NEW c \in Children, Create(c) PROVE WordInv'
  <2>1. \/ SetState(c, JOINABLE) /\ detached' = detached
        \/ SetState(c, DETACHED) /\ detached' = detached \cup {c}
    BY <1>3 DEF Create
  <2>2. /\ \/ word'[c] = JOINABLE /\ detached' = detached
           \/ word'[c] = DETACHED /\ detached' = detached \cup {c}
        /\ \A d \in Children : d # c => word'[d] = word[d]
    BY <1>0, <2>1, StoreState
  <2>3. pc'[c] = "start" /\ \A d \in Children : d # c => pc'[d] = pc[d]
    BY <1>0, <1>3 DEF Create, Goto, Typed
  <2>4. QED BY <1>0, <2>2, <2>3 DEF WordInv
<1>4. ASSUME NEW c \in Children, Exiting(c) PROVE WordInv'
  <2>1. \A d \in Children : d # c => word'[d] = word[d] /\ pc'[d] = pc[d]
    BY <1>0, <1>4, Functions DEF Exiting, SetState, Goto, Typed
  <2>2. pc[c] = "run" /\ pc'[c] \in {"unregister", "exiting"} /\ detached' = detached
    BY <1>0, <1>4 DEF Exiting, Goto, Typed, fateVars
  <2>3. word'[c] = EXITING \/ word'[c] = word[c]
    BY <1>0, <1>4, StoreState DEF Exiting
  <2>4. QED BY <1>0, <2>1, <2>2, <2>3 DEF WordInv, Alive
<1>5. ASSUME NEW c \in Children, Exited(c) PROVE WordInv'
  <2>1. word'[c] = EXITED /\ \A d \in Children : d # c => word'[d] = word[d]
    BY <1>0, <1>5, StoreState DEF Exited
  <2>2. pc'[c] = "exited" /\ \A d \in Children : d # c => pc'[d] = pc[d]
    BY <1>0, <1>5 DEF Exited, Goto, Typed
  <2>3. detached' = detached
    BY <1>5 DEF Exited, fateVars
  <2>4. QED BY <1>0, <2>1, <2>2, <2>3 DEF WordInv, Alive
<1>6. ASSUME NEW c \in Children,
             SetTidAddress(c) \/ Stamp(c) \/ Register(c) \/ Run(c) \/ Unregister(c)
      PROVE  WordInv'
  <2>1. word' = word /\ detached' = detached
    BY <1>6 DEF SetTidAddress, Stamp, Register, Run, Unregister, futexVars, fateVars
  <2>2. \A d \in Children : d # c => pc'[d] = pc[d]
    BY <1>0, <1>6 DEF SetTidAddress, Stamp, Register, Run, Unregister, Goto, Typed
  <2>3. pc[c] \in Alive /\ pc'[c] \in Alive
    BY <1>0, <1>6 DEF SetTidAddress, Stamp, Register, Run, Unregister, Alive, Goto, Typed
  <2>4. QED BY <1>1, <2>1, <2>2, <2>3 DEF Alive
<1>7. ASSUME NEW c \in Children, Gone(c) PROVE WordInv'
  <2>1. word' = word /\ detached' = detached
    BY <1>7, Kernel
  <2>2. /\ pc[c] = "exited" /\ pc'[c] = "gone"
        /\ \A d \in Children : d # c => pc'[d] = pc[d]
    BY <1>0, <1>7 DEF Gone, Goto, Typed
  <2>3. QED BY <1>1, <2>1, <2>2 DEF Alive
<1>8. ASSUME NEW e \in Entries, GoneLate(e) PROVE WordInv'
  <2>1. word' = word /\ detached' = detached
    BY <1>8, Kernel
  <2>2. pc' = pc
    BY <1>8 DEF GoneLate
  <2>3. QED BY <1>2, <2>1, <2>2
<1>9. ASSUME NEW c \in Children, Detach(c) PROVE WordInv'
  <2>1. \A d \in Children : pc'[d] = pc[d]
    BY <1>0, <1>9 DEF Detach, BeginJoin, Goto, Typed
  <2>2. CASE word[c] = JOINABLE
    <3>1. SetState(c, DYNAMIC) /\ detached' = detached \cup {c}
      BY <1>9, <2>2 DEF Detach
    <3>2. word'[c] = DYNAMIC /\ \A d \in Children : d # c => word'[d] = word[d]
      BY <1>0, <3>1, StoreState
    <3>3. pc[c] \notin {"exited", "gone"}
      BY <1>0, <2>2 DEF WordInv
    <3>4. QED BY <1>0, <2>1, <3>1, <3>2, <3>3 DEF WordInv
  <2>3. CASE word[c] # JOINABLE
    <3>1. word' = word /\ detached' = detached
      BY <1>9, <2>3 DEF Detach
    <3>2. QED BY <1>2, <2>1, <3>1
  <2>4. QED BY <2>2, <2>3
<1>10. ASSUME JoinMove \/ \E c \in Children : Await(c) PROVE WordInv'
  <2>1. \A d \in Children : pc'[d] = pc[d]
    BY <1>0, <1>10 DEF JoinMove, Look, Join, Wait, Waited, TimeOut, GiveUp, TooLate, EndJoin,
                       Await, BeginJoin, Goto, Typed
  <2>2. word' = word /\ detached' = detached
    BY <1>10 DEF JoinMove, Look, Join, Wait, Waited, TimeOut, GiveUp, TooLate, Await, Expire,
                 futexVars, fateVars
  <2>3. QED BY <1>2, <2>1, <2>2
<1>11. ASSUME NEW t \in Threads, FutexStep(t), UNCHANGED joinVars PROVE WordInv'
  BY <1>0, <1>2, <1>11, FutexStepInv DEF joinVars
<1>12. CASE UNCHANGED vars
  BY <1>2, <1>12 DEF vars, futexVars, joinVars
<1>13. QED
  BY <1>3, <1>4, <1>5, <1>6, <1>7, <1>8, <1>9, <1>10, <1>11, <1>12, Steps
     DEF NextMove, ChildMove

\* What Await checked stays true, and what Look read is what the call expects.
LEMMA JoinerStepInv == ASSUME IInv, [Next]_vars PROVE JoinerInv'
<1>0. /\ Typed /\ JoinerInv
      /\ Joiner \in Threads /\ Joiner \notin Children /\ Children \subseteq Threads
  BY Labelled DEF IInv, Children
<1>1. ASSUME UNCHANGED <<awaited, state, detached, joined>>, pc'[Joiner] = pc[Joiner],
             pc[Joiner] # "next" => pc'[awaited] # "absent",
             key'[Joiner] = key[Joiner], val'[Joiner] = val[Joiner],
             op'[Joiner] = op[Joiner],
             \/ fpc'[Joiner] = fpc[Joiner]
             \/ fpc[Joiner] \notin {"none", "return"}
      PROVE  JoinerInv'
  BY <1>0, <1>1 DEF JoinerInv
<1>2. ASSUME NEW c \in Children, ChildMove(c) PROVE JoinerInv'
  <2>1. PICK l \in ChildLabels \ {"absent"} : Goto(c, l)
    <3>1. \E l \in {"register", "stamped", "registered", "run", "unregister", "exiting", "exited"} :
            Goto(c, l)
      BY <1>2 DEF ChildMove, SetTidAddress, Stamp, Register, Run, Exiting, Unregister, Exited
    <3>2. QED BY <3>1 DEF ChildLabels
  <2>2. \A u \in Threads : pc'[u] = IF u = c THEN l ELSE pc[u]
    BY <1>0, <2>1 DEF Goto, Typed
  <2>3. UNCHANGED <<awaited, state, detached, joined>>
    BY <1>2 DEF ChildMove, SetTidAddress, Stamp, Register, Run, Exiting, Unregister, Exited,
                joinerVars, fateVars
  <2>4. key'[Joiner] = key[Joiner] /\ val'[Joiner] = val[Joiner] /\ op'[Joiner] = op[Joiner]
    BY <1>0, <1>2, Functions
       DEF ChildMove, SetTidAddress, Stamp, Register, Run, Exiting, Unregister, Exited,
           Call, Get, Finish, Drop, futexVars, tableVars, callVars
  <2>5. fpc'[Joiner] = fpc[Joiner]
    BY <1>0, <1>2, Functions
       DEF ChildMove, SetTidAddress, Stamp, Register, Run, Exiting, Unregister, Exited,
           Call, Finish, To, futexVars, callVars
  <2>6. pc[Joiner] # "next" => pc'[awaited] # "absent"
    BY <1>0, <2>1, <2>2 DEF JoinerInv
  <2>7. QED BY <1>0, <1>1, <2>2, <2>3, <2>4, <2>5, <2>6
<1>3. ASSUME NEW c \in Children, Gone(c) PROVE JoinerInv'
  <2>1. UNCHANGED <<awaited, state, detached, joined, key, val, op>>
    BY <1>3, Kernel DEF tableVars, joinerVars
  <2>2. pc'[Joiner] = pc[Joiner] /\ \A d \in Children : pc'[d] = pc[d] \/ pc'[d] = "gone"
    BY <1>0, <1>3 DEF Gone, Goto, Typed
  <2>3. fpc'[Joiner] = fpc[Joiner] \/ fpc[Joiner] = "asleep"
    BY <1>3, Kernel
  <2>4. pc[Joiner] # "next" => pc'[awaited] # "absent"
    BY <1>0, <2>2 DEF JoinerInv
  <2>5. QED BY <1>1, <2>1, <2>2, <2>3, <2>4
<1>4. ASSUME NEW e \in Entries, GoneLate(e) PROVE JoinerInv'
  <2>1. UNCHANGED <<awaited, state, detached, joined, key, val, op>>
    BY <1>4, Kernel DEF tableVars, joinerVars
  <2>2. pc' = pc
    BY <1>4 DEF GoneLate
  <2>3. fpc'[Joiner] = fpc[Joiner] \/ fpc[Joiner] = "asleep"
    BY <1>4, Kernel
  <2>4. QED BY <1>0, <1>1, <2>1, <2>2, <2>3 DEF JoinerInv
<1>5. ASSUME NEW c \in Children, Create(c) PROVE JoinerInv'
  <2>1. pc[Joiner] = "next" /\ pc'[Joiner] = pc[Joiner]
    BY <1>0, <1>5 DEF Create, Goto, Typed
  <2>2. UNCHANGED <<tableVars, callVars>>
    BY <1>5 DEF Create
  <2>3. joined' \cap detached' = {}
    <3>1. \/ joined' = joined \ {c}
          \/ pc[c] = "absent" /\ joined' = joined
      BY <1>5 DEF Create, Recycle
    <3>2. c \notin joined'
      BY <1>0, <3>1 DEF IInv, FreedAfterLastUse
    <3>3. detached' = detached \/ detached' = detached \cup {c}
      BY <1>5 DEF Create
    <3>4. QED BY <1>0, <3>1, <3>2, <3>3 DEF JoinerInv
  <2>4. QED BY <1>0, <2>1, <2>2, <2>3 DEF JoinerInv, tableVars, callVars
<1>6. ASSUME NEW c \in Children, pc[c] # "absent", c \notin detached, pc[Joiner] = "next",
             awaited' = c, Goto(Joiner, "look"),
             UNCHANGED <<tableVars, callVars, joined, detached>>
      PROVE  JoinerInv'
  <2>1. pc'[Joiner] = "look" /\ pc'[c] = pc[c]
    BY <1>0, <1>6 DEF Goto, Typed
  <2>2. fpc[Joiner] = "none"
    BY <1>0, <1>6 DEF JoinerInv
  <2>3. QED BY <1>0, <1>6, <2>1, <2>2 DEF JoinerInv, tableVars, callVars
<1>7. ASSUME NEW c \in Children, Await(c) PROVE JoinerInv'
  BY <1>6, <1>7 DEF Await, Joinable, BeginJoin, futexVars, fateVars
<1>8. ASSUME NEW c \in Children, Detach(c) PROVE JoinerInv'
  <2>1. CASE word[c] = JOINABLE
    <3>1. /\ detached' = detached \cup {c} /\ c \notin joined /\ joined' = joined
          /\ pc[Joiner] = "next" /\ pc' = pc /\ UNCHANGED <<tableVars, callVars>>
      BY <1>8, <2>1 DEF Detach, Joinable
    <3>2. QED BY <1>0, <3>1 DEF JoinerInv, tableVars, callVars
  <2>2. CASE word[c] # JOINABLE
    BY <1>6, <1>8, <2>2 DEF Detach, Joinable, BeginJoin
  <2>3. QED BY <2>1, <2>2
<1>9. CASE Look
  <2>1. pc[Joiner] = "look" /\ state' = word[awaited] /\ word[awaited] # EXITED
        /\ UNCHANGED <<awaited, joined, detached>>
    BY <1>9 DEF Look, fateVars
  <2>2. pc'[Joiner] = "wait" /\ \A c \in Children : pc'[c] = pc[c]
    BY <1>0, <1>9 DEF Look, Goto, Typed
  <2>3. UNCHANGED futexVars
    BY <1>9 DEF Look
  <2>4. QED BY <1>0, <2>1, <2>2, <2>3 DEF JoinerInv, futexVars, tableVars, callVars
<1>10. CASE Join \/ TooLate
  <2>1. pc'[Joiner] = "next" /\ pc[Joiner] \in {"look", "wait"}
    BY <1>0, <1>10 DEF Join, TooLate, EndJoin, Goto, Typed
  <2>2. joined' \cap detached' = {}
    BY <1>0, <1>10 DEF Join, TooLate, JoinerInv, fateVars
  <2>3. UNCHANGED futexVars
    BY <1>10 DEF Join, TooLate
  <2>4. QED BY <1>0, <2>1, <2>2, <2>3 DEF JoinerInv, futexVars, tableVars, callVars
<1>11. CASE Wait
  <2>1. pc'[Joiner] = "waiting" /\ pc[Joiner] = "wait"
        /\ UNCHANGED <<awaited, joined, detached>>
    BY <1>0, <1>11 DEF Wait, Goto, Typed, fateVars
  <2>2. awaited \in Children \ detached /\ pc'[awaited] # "absent" /\ state # EXITED
    BY <1>0, <1>11, <2>1 DEF Wait, Goto, Typed, JoinerInv
  <2>3. key'[Joiner] = awaited /\ val'[Joiner] = state /\ op'[Joiner] = "wait"
    BY <1>0, <1>11, Functions DEF Wait, Call, Get
  <2>4. QED BY <1>0, <2>1, <2>2, <2>3 DEF JoinerInv
<1>12. CASE Waited \/ GiveUp
  <2>1. /\ \/ pc'[Joiner] = "look" /\ awaited' = awaited /\ pc[Joiner] = "waiting"
           \/ pc'[Joiner] = "next"
        /\ \A c \in Children : pc'[c] = pc[c]
        /\ UNCHANGED <<joined, detached>>
    BY <1>0, <1>12 DEF Waited, GiveUp, EndJoin, Goto, Typed, joinerVars, fateVars
  <2>2. fpc'[Joiner] = "none" /\ op' = op
    BY <1>0, <1>12, Functions DEF Waited, GiveUp, Finish, To
  <2>3. QED BY <1>0, <2>1, <2>2 DEF JoinerInv
<1>13. CASE TimeOut
  <2>1. /\ pc'[Joiner] = "expired" /\ pc[Joiner] = "waiting"
        /\ \A c \in Children : pc'[c] = pc[c]
        /\ UNCHANGED <<awaited, joined, detached>>
    BY <1>0, <1>13 DEF TimeOut, Goto, Typed, joinerVars, fateVars
  <2>2. fpc'[Joiner] = "return" /\ op' = op
    BY <1>0, <1>13, Functions DEF TimeOut, Expire, To
  <2>3. QED BY <1>0, <2>1, <2>2 DEF JoinerInv
<1>14. ASSUME NEW t \in Threads, FutexStep(t), UNCHANGED joinVars PROVE JoinerInv'
  <2>1. key' = key /\ val' = val /\ op' = op
    BY <1>14, InsideCall
       DEF Allocate, Set, Load, Store, Sleep, Again, tableVars, callVars
  <2>2. fpc'[Joiner] = fpc[Joiner] \/ fpc[Joiner] \notin {"none", "return"}
    BY <1>0, <1>14, InsideCall, Functions
       DEF Allocate, Load, Store, Sleep, Again, At, To, callVars
  <2>3. UNCHANGED <<pc, awaited, state, joined, detached>>
    BY <1>14 DEF joinVars
  <2>4. QED BY <1>0, <1>1, <2>1, <2>2, <2>3 DEF JoinerInv
<1>15. CASE UNCHANGED vars
  <2>1. UNCHANGED <<pc, awaited, state, joined, detached, key, val, op, fpc>>
    BY <1>15 DEF vars, futexVars, tableVars, callVars, joinVars
  <2>2. QED BY <1>0, <1>1, <2>1 DEF JoinerInv
<1>16. QED
  BY <1>2, <1>3, <1>4, <1>5, <1>7, <1>8, <1>9, <1>10, <1>11, <1>12, <1>13, <1>14, <1>15, Steps
     DEF NextMove, JoinMove

\* What a child's own step says of the child, and what every step leaves of the
\* others.
LEMMA ChildStepInv == ASSUME IInv, [Next]_vars PROVE ChildInv'
<1>0. /\ Typed /\ ChildInv /\ WordInv
      /\ Joiner \in Threads /\ Joiner \notin Children /\ Children \subseteq Threads
  BY Labelled DEF IInv, Children
<1> DEFINE Fine(d) ==
      /\ fpc[d] # "none" => pc[d] \in InCall
      /\ pc[d] \in InCall => op[d] = "settid" /\ key[d] = d
      /\ pc[d] = "stamped" => stage[d] = "have"
      /\ pc[d] = "unregister" => d \in detached
      /\ pc[d] \in Known => clear[d] \in Entries \/ (clear[d] = NULL /\ d \in detached)
<1>1. ASSUME NEW d \in Children, pc'[d] = pc[d], fpc'[d] # "none" => fpc[d] # "none",
             op'[d] = op[d], key'[d] = key[d], clear'[d] = clear[d],
             d \in detached => d \in detached',
             stage[d] = "have" => stage'[d] = "have"
      PROVE  Fine(d)'
  BY <1>0, <1>1 DEF ChildInv
<1>2. ASSUME NEW c \in Children, ChildMove(c), NEW d \in Children, d # c PROVE Fine(d)'
  <2>1. pc'[d] = pc[d] /\ detached' = detached
    BY <1>0, <1>2
       DEF ChildMove, SetTidAddress, Stamp, Register, Run, Exiting, Unregister, Exited,
           fateVars, Goto, Typed
  <2>2. /\ op'[d] = op[d] /\ key'[d] = key[d] /\ fpc'[d] = fpc[d]
        /\ stage[d] = "have" => stage'[d] = "have"
    BY <1>0, <1>2, Functions
       DEF ChildMove, SetTidAddress, Stamp, Register, Run, Exiting, Unregister, Exited,
           Call, Get, Resolved, Finish, Drop, To, futexVars, tableVars, callVars
  <2>3. clear'[d] = clear[d]
    BY <1>0, <1>2
       DEF ChildMove, SetTidAddress, Stamp, Register, Run, Exiting, Unregister, Exited, Typed
  <2>4. QED BY <1>1, <2>1, <2>2, <2>3
<1>3. ASSUME NEW c \in Children, ChildMove(c) PROVE Fine(c)'
  <2> USE DEF InCall, Known
  <2>1. CASE SetTidAddress(c)
    <3>1. pc'[c] = "register" /\ op'[c] = "settid" /\ key'[c] = c
      BY <1>0, <2>1, Functions DEF SetTidAddress, Call, Get, Goto, Typed
    <3>2. QED BY <3>1
  <2>2. CASE Stamp(c)
    <3>1. pc'[c] = "stamped" /\ stage'[c] = "have" /\ op'[c] = op[c] /\ key'[c] = key[c]
      BY <1>0, <2>2 DEF Stamp, At, Goto, Typed, tableVars
    <3>2. pc[c] = "register"
      BY <2>2 DEF Stamp
    <3>3. QED BY <1>0, <3>1, <3>2 DEF ChildInv
  <2>3. CASE Register(c)
    <3>1. /\ pc'[c] = "registered" /\ op'[c] = op[c] /\ key'[c] = key[c]
          /\ clear'[c] = out[c]
      BY <1>0, <2>3 DEF Register, Goto, Typed, tableVars
    <3>2. pc[c] = "stamped" /\ stage[c] = "have"
      BY <1>0, <2>3 DEF Register, ChildInv
    <3>3. out[c] \in Entries
      BY <1>0, <3>2 DEF Typed, FutexInv, TableInv, Chosen
    <3>4. QED BY <1>0, <3>1, <3>2, <3>3 DEF ChildInv
  <2>4. CASE Run(c)
    <3>1. /\ pc'[c] = "run" /\ pc[c] = "registered" /\ fpc'[c] = "none" /\ clear' = clear
          /\ detached' = detached
      BY <1>0, <2>4, Functions DEF Run, Finish, To, Goto, Typed, fateVars
    <3>2. QED BY <1>0, <3>1 DEF ChildInv
  <2>5. CASE Exiting(c)
    <3>1. /\ pc'[c] = IF word[c] = DYNAMIC THEN "unregister" ELSE "exiting"
          /\ pc[c] = "run" /\ clear' = clear /\ fpc' = fpc /\ detached' = detached
      BY <1>0, <2>5 DEF Exiting, Goto, Typed, callVars, fateVars
    <3>2. word[c] = DYNAMIC => c \in detached
      BY <1>0 DEF WordInv
    <3>3. QED BY <1>0, <3>1, <3>2 DEF ChildInv
  <2>6. CASE Unregister(c)
    <3>1. /\ pc'[c] = "exiting" /\ pc[c] = "unregister" /\ clear'[c] = NULL /\ fpc' = fpc
          /\ detached' = detached
      BY <1>0, <2>6 DEF Unregister, Goto, Typed, futexVars, callVars, fateVars
    <3>2. QED BY <1>0, <3>1 DEF ChildInv
  <2>7. CASE Exited(c)
    <3>1. /\ pc'[c] = "exited" /\ pc[c] = "exiting"
          /\ clear' = clear /\ fpc' = fpc /\ detached' = detached
      BY <1>0, <2>7 DEF Exited, Goto, Typed, callVars, fateVars
    <3>2. QED BY <1>0, <3>1 DEF ChildInv
  <2>8. QED BY <1>3, <2>1, <2>2, <2>3, <2>4, <2>5, <2>6, <2>7 DEF ChildMove
<1>4. ASSUME NEW c \in Children, Gone(c), NEW d \in Children PROVE Fine(d)'
  <2>1. /\ UNCHANGED <<stage, key, op, clear, detached>>
        /\ fpc'[d] = fpc[d]
    BY <1>0, <1>4, Kernel DEF tableVars
  <2>2. CASE d = c
    <3>1. pc'[c] = "gone" /\ pc[c] = "exited"
      BY <1>0, <1>4 DEF Gone, Goto, Typed
    <3>2. QED BY <1>0, <2>1, <2>2, <3>1 DEF ChildInv, InCall, Known
  <2>3. CASE d # c
    <3>1. pc'[d] = pc[d]
      BY <1>0, <1>4, <2>3 DEF Gone, Goto, Typed
    <3>2. QED BY <1>1, <2>1, <3>1
  <2>4. QED BY <2>2, <2>3
<1>5. ASSUME NEW e \in Entries, GoneLate(e), NEW d \in Children PROVE Fine(d)'
  <2>1. /\ UNCHANGED <<stage, key, op, clear, detached>>
        /\ fpc'[d] = fpc[d]
    BY <1>0, <1>5, Kernel DEF tableVars
  <2>2. pc' = pc
    BY <1>5 DEF GoneLate
  <2>3. QED BY <1>1, <2>1, <2>2
<1>6. ASSUME NEW c \in Children, Create(c), NEW d \in Children PROVE Fine(d)'
  <2>1. /\ pc'[c] = "start"
        /\ d # c => pc'[d] = pc[d] /\ clear'[d] = clear[d]
        /\ UNCHANGED <<tableVars, callVars>>
        /\ detached \subseteq detached'
    BY <1>0, <1>6 DEF Create, Goto, Typed
  <2>2. CASE d = c
    <3>1. pc[c] \notin InCall
      BY <1>0, <1>6 DEF Create, Recycle, IInv, FreedAfterLastUse, InCall
    <3>2. fpc'[c] = "none"
      BY <1>0, <2>1, <3>1 DEF ChildInv, callVars
    <3>3. QED BY <2>1, <2>2, <3>2 DEF InCall, Known
  <2>3. CASE d # c
    BY <1>1, <2>1, <2>3 DEF tableVars, callVars
  <2>4. QED BY <2>2, <2>3
<1>7. ASSUME JoinMove \/ \E c \in Children : Await(c) \/ Detach(c), NEW d \in Children
      PROVE  Fine(d)'
  <2>1. pc'[d] = pc[d] /\ clear' = clear
    BY <1>0, <1>7 DEF JoinMove, Look, Join, Wait, Waited, TimeOut, GiveUp, TooLate, EndJoin,
                      Await, Detach, BeginJoin, Goto, Typed
  <2>2. /\ op'[d] = op[d] /\ key'[d] = key[d] /\ fpc'[d] = fpc[d]
        /\ stage'[d] = stage[d]
    BY <1>0, <1>7, Functions
       DEF JoinMove, Look, Join, Wait, Waited, TimeOut, GiveUp, TooLate, Await, Detach,
           Call, Get, Resolved, Finish, Expire, Drop, To, futexVars, tableVars, callVars
  <2>3. detached \subseteq detached'
    BY <1>7 DEF JoinMove, Look, Join, Wait, Waited, TimeOut, GiveUp, TooLate, Await, Detach,
                fateVars
  <2>4. QED BY <1>1, <2>1, <2>2, <2>3
<1>8. ASSUME NEW t \in Threads, FutexStep(t), UNCHANGED joinVars, NEW d \in Children
      PROVE  Fine(d)'
  <2>1. key' = key /\ op' = op /\ (stage[d] = "have" => stage'[d] = "have")
    BY <1>0, <1>8, InsideCall, Functions
       DEF Allocate, Set, Resolved, Load, Store, Sleep, Again, tableVars, callVars
  <2>2. fpc'[d] # "none" => fpc[d] # "none"
    BY <1>0, <1>8, InsideCall, Functions
       DEF Allocate, Load, Store, Sleep, Again, At, To, callVars
  <2>3. QED BY <1>1, <1>8, <2>1, <2>2 DEF joinVars
<1>9. ASSUME UNCHANGED vars, NEW d \in Children PROVE Fine(d)'
  BY <1>1, <1>9 DEF vars, futexVars, tableVars, callVars, joinVars
<1>10. \A d \in Children : Fine(d)'
  BY <1>2, <1>3, <1>4, <1>5, <1>6, <1>7, <1>8, <1>9, Steps DEF NextMove
<1>11. QED BY <1>10 DEF ChildInv

LEMMA FreedStep == ASSUME IInv, [Next]_vars PROVE FreedAfterLastUse'
<1>0. /\ Typed /\ FreedAfterLastUse /\ joined \subseteq Children
      /\ Joiner \in Threads /\ Joiner \notin Children /\ Children \subseteq Threads
  BY Labelled DEF IInv, Typed, Children
<1>1. ASSUME joined' \subseteq joined, \A c \in joined' : pc'[c] = pc[c]
      PROVE  FreedAfterLastUse'
  BY <1>1, <1>0 DEF FreedAfterLastUse
<1>2. ASSUME NEW c \in Children, ChildMove(c) PROVE FreedAfterLastUse'
  <2>1. joined' = joined /\ \A d \in Children : d # c => pc'[d] = pc[d]
    BY <1>0, <1>2
       DEF ChildMove, SetTidAddress, Stamp, Register, Run, Exiting, Unregister, Exited,
           fateVars, Goto, Typed
  <2>2. c \notin joined
    BY <1>0, <1>2
       DEF ChildMove, SetTidAddress, Stamp, Register, Run, Exiting, Unregister, Exited,
           FreedAfterLastUse
  <2>3. QED BY <1>0, <1>1, <2>1, <2>2
<1>3. ASSUME NEW c \in Children, Gone(c) PROVE FreedAfterLastUse'
  <2>1. joined' = joined
    BY <1>3, Kernel
  <2>2. pc'[c] = "gone" /\ \A d \in Children : d # c => pc'[d] = pc[d]
    BY <1>0, <1>3 DEF Gone, Goto, Typed
  <2>3. QED BY <1>0, <2>1, <2>2 DEF FreedAfterLastUse
<1>4. ASSUME NEW c \in Children, Create(c) PROVE FreedAfterLastUse'
  <2>1. \A d \in Children : d # c => pc'[d] = pc[d]
    BY <1>0, <1>4 DEF Create, Goto, Typed
  <2>2. joined' \subseteq joined /\ c \notin joined'
    BY <1>0, <1>4 DEF Create, Recycle, FreedAfterLastUse
  <2>3. QED BY <1>0, <1>1, <2>1, <2>2
<1>5. CASE Join
  <2>1. awaited \in Children /\ pc[awaited] # "absent" /\ word[awaited] = EXITED
    BY <1>5 DEF Join, IInv, JoinerInv
  <2>2. pc[awaited] \in {"exited", "gone"}
    BY <1>0, <2>1 DEF IInv, WordInv, Alive, Typed, ChildLabels
  <2>3. joined' = joined \cup {awaited} /\ \A c \in Children : pc'[c] = pc[c]
    BY <1>0, <1>5 DEF Join, EndJoin, Goto, Typed
  <2>4. QED BY <1>0, <2>1, <2>2, <2>3 DEF FreedAfterLastUse
<1>6. ASSUME \/ Look \/ Wait \/ Waited \/ TimeOut \/ GiveUp \/ TooLate
             \/ \E c \in Children : Await(c) \/ Detach(c)
      PROVE  FreedAfterLastUse'
  <2>1. joined' = joined /\ \A c \in Children : pc'[c] = pc[c]
    BY <1>0, <1>6 DEF Look, Wait, Waited, TimeOut, GiveUp, TooLate, EndJoin, Await, Detach,
                      BeginJoin, fateVars, Goto, Typed
  <2>2. QED BY <1>0, <1>1, <2>1
<1>7. ASSUME pc' = pc, joined' = joined PROVE FreedAfterLastUse'
  BY <1>1, <1>7
<1>8. ASSUME NEW e \in Entries, GoneLate(e) PROVE FreedAfterLastUse'
  BY <1>7, <1>8 DEF GoneLate
<1>9. CASE UNCHANGED joinVars
  BY <1>7, <1>9 DEF joinVars
<1>10. QED
  BY <1>2, <1>3, <1>4, <1>5, <1>6, <1>8, <1>9, Steps DEF NextMove, JoinMove, vars

LEMMA NobodySleeps ==
  ASSUME SleepInv, fpc[Joiner] # "asleep" PROVE \A e \in Entries : asleep[e] = {}
  BY DEF SleepInv

LEMMA SleepStep == ASSUME IInv, [Next]_vars PROVE SleepInv'
<1>0. Typed /\ SleepInv /\ Joiner \notin Children /\ Joiner \in Threads /\ Children \subseteq Threads
  BY Labelled DEF IInv, Children
<1>1. ASSUME asleep' = asleep, fpc'[Joiner] = fpc[Joiner], out'[Joiner] = out[Joiner],
             stage'[Joiner] = stage[Joiner]
      PROVE  SleepInv'
  BY <1>1, <1>0 DEF SleepInv
<1>2. ASSUME asleep' = asleep, fpc[Joiner] # "asleep", fpc'[Joiner] # "asleep"
      PROVE  SleepInv'
  BY <1>0, <1>2, NobodySleeps DEF SleepInv
<1>3. ASSUME NEW c \in Children, ChildMove(c) PROVE SleepInv'
  <2>1. asleep' = asleep
    BY <1>3 DEF ChildMove, SetTidAddress, Stamp, Register, Run, Exiting, Unregister, Exited,
                Call, Finish, futexVars, callVars
  <2>2. /\ fpc'[Joiner] = fpc[Joiner] /\ out'[Joiner] = out[Joiner]
        /\ stage'[Joiner] = stage[Joiner]
    BY <1>0, <1>3, Functions
       DEF ChildMove, SetTidAddress, Stamp, Register, Run, Exiting, Unregister, Exited,
           Call, Get, Resolved, Finish, Drop, To, futexVars, tableVars, callVars
  <2>3. QED BY <1>1, <2>1, <2>2
<1>4. ASSUME NEW c \in Children, NextMove(c) PROVE SleepInv'
  BY <1>1, <1>4 DEF NextMove, Create, Await, Detach, futexVars, tableVars, callVars
<1>5. CASE Wait \/ Waited \/ GiveUp
  <2>1. asleep' = asleep
    BY <1>5 DEF Wait, Waited, GiveUp, Call, Finish
  <2>2. fpc[Joiner] # "asleep" /\ fpc'[Joiner] # "asleep"
    BY <1>0, <1>5, Functions DEF Wait, Waited, GiveUp, Call, Finish, To
  <2>3. QED BY <1>2, <2>1, <2>2
<1>6. CASE TimeOut
  <2>1. fpc'[Joiner] = "return"
    BY <1>0, <1>6, Functions DEF TimeOut, Expire, To
  <2>2. \A e \in Entries : asleep'[e] = asleep[e] \ {Joiner}
    BY <1>6 DEF TimeOut, Expire
  <2>3. \A e \in Entries : asleep'[e] = {}
    BY <1>0, <2>2 DEF SleepInv
  <2>4. QED BY <2>1, <2>3 DEF SleepInv
<1>7. CASE Look \/ Join \/ TooLate
  BY <1>1, <1>7 DEF Look, Join, TooLate, futexVars, tableVars, callVars
<1>8. CASE (\E c \in Children : Gone(c)) \/ (\E e \in Entries : GoneLate(e))
  BY <1>8, Kernel
<1>9. ASSUME NEW t \in Threads, FutexStep(t) PROVE SleepInv'
  <2>1. CASE Allocate(t) \/ Load(t) \/ Store(t)
    <3>1. asleep' = asleep
      BY <2>1 DEF Allocate, Load, Store, callVars
    <3>2. CASE t = Joiner
      <4>1. fpc[Joiner] # "asleep" \/ Allocate(t)
        BY <2>1, <3>2 DEF Load, Store, At
      <4>2. CASE Allocate(t)
        <5>1. stage[Joiner] = "miss" /\ fpc' = fpc
          BY <3>2, <4>2 DEF Allocate, Set, callVars
        <5>2. fpc[Joiner] # "asleep"
          BY <1>0, <5>1 DEF SleepInv
        <5>3. QED BY <1>2, <3>1, <5>1, <5>2
      <4>3. CASE Load(t) \/ Store(t)
        <5>1. fpc[Joiner] # "asleep" /\ fpc'[Joiner] # "asleep"
          BY <1>0, <3>2, <4>3, Functions DEF Load, Store, At, To
        <5>2. QED BY <1>2, <3>1, <5>1
      <4>4. QED BY <2>1, <4>2, <4>3
    <3>3. CASE t # Joiner
      <4>1. /\ fpc'[Joiner] = fpc[Joiner] /\ out'[Joiner] = out[Joiner]
            /\ stage'[Joiner] = stage[Joiner]
        BY <1>0, <2>1, <3>3, Functions
           DEF Allocate, Set, Resolved, Load, Store, To, tableVars, callVars
      <4>2. QED BY <1>1, <3>1, <4>1
    <3>4. QED BY <3>2, <3>3
  <2>2. CASE Sleep(Joiner)
    <3>1. /\ stage[Joiner] = "have" /\ fpc[Joiner] = "kernel" /\ UNCHANGED tableVars
          /\ asleep' = [asleep EXCEPT ![out[Joiner]] = @ \cup {Joiner}]
          /\ To(Joiner, "asleep")
      BY <2>2 DEF Sleep, At
    <3>2. out[Joiner] \in Entries
      BY <1>0, <3>1 DEF Typed, FutexInv, TableInv, Chosen
    <3>3. \A e \in Entries : asleep'[e] = IF e = out[Joiner] THEN {Joiner} ELSE {}
      BY <1>0, <3>1, <3>2, NobodySleeps, Functions
    <3>4. fpc'[Joiner] = "asleep"
      BY <1>0, <3>1, Functions DEF To
    <3>5. QED BY <3>1, <3>2, <3>3, <3>4 DEF SleepInv, tableVars
  <2>3. CASE Again(Joiner)
    <3>1. fpc[Joiner] # "asleep" /\ fpc'[Joiner] # "asleep" /\ asleep' = asleep
      BY <1>0, <2>3, Functions DEF Again, At, To
    <3>2. QED BY <1>2, <3>1
  <2>4. QED BY <1>9, <2>1, <2>2, <2>3, InsideCall
<1>10. CASE UNCHANGED vars
  BY <1>1, <1>10 DEF vars, futexVars, tableVars, callVars
<1>11. QED
  BY <1>3, <1>4, <1>5, <1>6, <1>7, <1>8, <1>9, <1>10, Steps DEF JoinMove

\* A step that adds an entry keeps the first of every address, and no step ever
\* forgets a race.
LEMMA FirstKept ==
  ASSUME IInv, [Next]_vars, NEW a \in Addrs, NEW e \in Entries, IsFirst(e, Matching(a))
  PROVE  IsFirst(e, Matching(a))'
<1>1. ASSUME table' = table PROVE IsFirst(e, Matching(a))'
  BY <1>1 DEF IsFirst, Matching
<1>2. ASSUME NEW t \in Threads, FutexStep(t) PROVE IsFirst(e, Matching(a))'
  BY <1>2, FutexStepFirst DEF IInv, Typed
<1>3. ASSUME NEW c \in Children, ChildMove(c) \/ NextMove(c) PROVE table' = table
  BY <1>3 DEF ChildMove, SetTidAddress, Stamp, Register, Run, Exiting, Unregister, Exited,
              NextMove, Create, Await, Detach, Call, Get, Finish, Drop, futexVars, tableVars
<1>4. CASE (\E c \in Children : Gone(c)) \/ (\E f \in Entries : GoneLate(f))
  <2>1. table' = table
    BY <1>4, Kernel DEF tableVars
  <2>2. QED BY <1>1, <2>1
<1>5. ASSUME JoinMove PROVE table' = table
  BY <1>5 DEF JoinMove, Look, Join, Wait, Waited, TimeOut, GiveUp, TooLate,
              Call, Get, Finish, Expire, Drop, futexVars, tableVars
<1>6. CASE UNCHANGED vars
  BY <1>1, <1>6 DEF vars, futexVars, tableVars
<1>7. QED
  BY <1>1, <1>2, <1>3, <1>4, <1>5, <1>6, Steps

LEMMA RacedStays == ASSUME IInv, [Next]_vars, raced PROVE raced'
<1>1. ASSUME NEW t \in Threads, FutexStep(t) PROVE raced'
  BY <1>1, InsideCall DEF Allocate, Load, Store, Sleep, Again, Meets, callVars
<1>2. ASSUME NEW c \in Children, ChildMove(c) \/ NextMove(c) PROVE raced'
  BY <1>2 DEF ChildMove, SetTidAddress, Stamp, Register, Run, Exiting, Unregister, Exited,
              NextMove, Create, Await, Detach, Call, Finish, Meets, futexVars, callVars
<1>3. CASE (\E c \in Children : Gone(c)) \/ (\E e \in Entries : GoneLate(e))
  BY <1>3, Kernel
<1>4. ASSUME JoinMove PROVE raced'
  BY <1>4 DEF JoinMove, Look, Join, Wait, Waited, TimeOut, GiveUp, TooLate,
              Call, Finish, Expire, futexVars, callVars
<1>5. CASE UNCHANGED vars
  BY <1>5 DEF vars, futexVars, callVars
<1>6. QED
  BY <1>1, <1>2, <1>3, <1>4, <1>5, Steps

LEMMA RaceStep == ASSUME IInv, [Next]_vars PROVE RaceInv'
<1> SUFFICES ASSUME ~raced' PROVE
       /\ \A c \in Children :
            pc'[c] \in Known => clear'[c] = NULL \/ IsFirst(clear[c], Matching(c))'
       /\ fpc'[Joiner] = "asleep" =>
            IsFirst(out[Joiner], Matching(awaited))' /\ pc'[awaited'] # "gone"
  BY DEF RaceInv
<1>0. /\ Typed /\ SleepInv
      /\ Joiner \notin Children /\ Joiner \in Threads /\ Children \subseteq Threads
      /\ Children \subseteq Addrs
      /\ ~raced
      /\ \A c \in Children : pc[c] \in Known /\ clear[c] # NULL =>
           clear[c] \in Entries /\ IsFirst(clear[c], Matching(c))
      /\ fpc[Joiner] = "asleep" =>
           /\ awaited \in Children \ detached /\ out[Joiner] \in Entries
           /\ IsFirst(out[Joiner], Matching(awaited)) /\ pc[awaited] # "gone"
           /\ pc[Joiner] = "waiting"
  <2>1. fpc[Joiner] = "asleep" => awaited \in Children \ detached /\ pc[Joiner] = "waiting"
    BY DEF IInv, JoinerInv
  <2>2. fpc[Joiner] = "asleep" => out[Joiner] \in Entries
    BY Labelled DEF IInv, SleepInv, Typed, FutexInv, TableInv, Chosen
  <2>3. ~raced
    BY RacedStays
  <2>4. QED BY <2>1, <2>2, <2>3, Labelled DEF IInv, RaceInv, ChildInv, Children
\* The kernel's clear_child_tid.
<1>1. ASSUME NEW d \in Children, pc'[d] \in Known, clear'[d] # NULL
      PROVE  IsFirst(clear[d], Matching(d))'
  <2>1. ASSUME pc[d] \in Known, clear'[d] = clear[d] PROVE IsFirst(clear[d], Matching(d))'
    BY <1>0, <1>1, <2>1, FirstKept
  <2>2. CASE Register(d)
    <3>1. /\ IsFirst(out[d], Matching(key[d])) /\ clear'[d] = out[d]
          /\ pc[d] = "stamped"
      BY <1>0, <2>2 DEF Register, Meets, Typed
    <3>2. key[d] = d /\ out[d] \in Entries
      BY <1>0, <3>1 DEF IInv, ChildInv, InCall, Typed, FutexInv, TableInv, Chosen
    <3>3. QED BY <1>0, <3>1, <3>2, FirstKept
  <2>3. ASSUME NEW c \in Children, ChildMove(c), ~Register(d)
        PROVE  pc[d] \in Known /\ clear'[d] = clear[d]
    <3>1. CASE c = d
      BY <1>0, <1>1, <2>3, <3>1
         DEF ChildMove, SetTidAddress, Stamp, Register, Run, Exiting, Unregister, Exited,
             Goto, Typed, Known
    <3>2. CASE c # d
      BY <1>0, <1>1, <2>3, <3>2
         DEF ChildMove, SetTidAddress, Stamp, Register, Run, Exiting, Unregister, Exited,
             Goto, Typed
    <3>3. QED BY <3>1, <3>2
  <2>4. ASSUME NEW c \in Children, Create(c) PROVE pc[d] \in Known /\ clear'[d] = clear[d]
    BY <1>0, <1>1, <2>4 DEF Create, Goto, Typed, Known
  <2>5. ASSUME NEW c \in Children, Gone(c) PROVE pc[d] \in Known /\ clear'[d] = clear[d]
    <3>1. clear' = clear
      BY <2>5, Kernel
    <3>2. pc[c] = "exited" /\ (d # c => pc'[d] = pc[d])
      BY <1>0, <2>5 DEF Gone, Goto, Typed
    <3>3. QED BY <1>1, <3>1, <3>2 DEF Known
  <2>6. ASSUME NEW e \in Entries, GoneLate(e) PROVE pc[d] \in Known /\ clear'[d] = clear[d]
    BY <1>1, <2>6 DEF GoneLate
  <2>7. ASSUME JoinMove \/ \E c \in Children : Await(c) \/ Detach(c)
        PROVE  pc[d] \in Known /\ clear'[d] = clear[d]
    BY <1>0, <1>1, <2>7
       DEF JoinMove, Look, Join, Wait, Waited, TimeOut, GiveUp, TooLate, EndJoin, Await, Detach,
           BeginJoin, Goto, Typed
  <2>8. ASSUME UNCHANGED joinVars PROVE pc[d] \in Known /\ clear'[d] = clear[d]
    BY <1>1, <2>8 DEF joinVars
  <2>9. QED
    BY <2>1, <2>2, <2>3, <2>4, <2>5, <2>6, <2>7, <2>8, Steps DEF NextMove, vars
\* The word the joiner sleeps on.
<1>2. ASSUME fpc'[Joiner] = "asleep"
      PROVE  IsFirst(out[Joiner], Matching(awaited))' /\ pc'[awaited'] # "gone"
  <2>1. ASSUME fpc[Joiner] = "asleep", out'[Joiner] = out[Joiner], awaited' = awaited,
               pc'[awaited] # "gone"
        PROVE  IsFirst(out[Joiner], Matching(awaited))' /\ pc'[awaited'] # "gone"
    BY <1>0, <2>1, FirstKept
  <2>2. ASSUME NEW c \in Children, Gone(c)
        PROVE  /\ fpc[Joiner] = "asleep" /\ out'[Joiner] = out[Joiner] /\ awaited' = awaited
               /\ pc'[awaited] # "gone"
    <3>1. UNCHANGED <<tableVars, awaited>> /\ fpc[Joiner] = "asleep"
      BY <1>2, <2>2, Kernel DEF joinerVars
    <3>2. c # awaited
      <4> SUFFICES ASSUME c = awaited PROVE FALSE
        OBVIOUS
      <4>1. clear[c] \in Entries /\ Clears(clear[c])
        BY <1>0, <2>2, <3>1, Leaves
      <4>2. out[Joiner] # clear[c]
        BY <1>0, <1>2, <4>1, Cleared
      <4>3. IsFirst(clear[c], Matching(c))
        BY <1>0, <2>2, <4>1 DEF Gone, Known, Entries
      <4>4. QED BY <1>0, <3>1, <4>1, <4>2, <4>3, OneFirst
    <3>3. pc'[awaited] = pc[awaited]
      BY <1>0, <2>2, <3>1, <3>2 DEF Gone, Goto, Typed
    <3>4. QED BY <1>0, <3>1, <3>3 DEF tableVars
  <2>3. ASSUME NEW e \in Entries, GoneLate(e)
        PROVE  /\ fpc[Joiner] = "asleep" /\ out'[Joiner] = out[Joiner] /\ awaited' = awaited
               /\ pc'[awaited] # "gone"
    <3>1. UNCHANGED <<tableVars, awaited>> /\ fpc[Joiner] = "asleep"
      BY <1>2, <2>3, Kernel DEF joinerVars
    <3>2. pc' = pc
      BY <2>3 DEF GoneLate
    <3>3. QED BY <1>0, <3>1, <3>2 DEF tableVars
  <2>4. ASSUME NEW c \in Children, ChildMove(c)
        PROVE  /\ fpc[Joiner] = "asleep" /\ out'[Joiner] = out[Joiner] /\ awaited' = awaited
               /\ pc'[awaited] # "gone"
    <3>1. fpc'[Joiner] = fpc[Joiner] /\ out'[Joiner] = out[Joiner]
      BY <1>0, <2>4, Functions
         DEF ChildMove, SetTidAddress, Stamp, Register, Run, Exiting, Unregister, Exited,
             Call, Get, Resolved, Finish, Drop, To, futexVars, tableVars, callVars
    <3>2. awaited' = awaited
      BY <2>4 DEF ChildMove, SetTidAddress, Stamp, Register, Run, Exiting, Unregister, Exited,
                  joinerVars
    <3>3. pc'[awaited] # "gone"
      BY <1>0, <1>2, <2>4, <3>1
         DEF ChildMove, SetTidAddress, Stamp, Register, Run, Exiting, Unregister, Exited,
             Goto, Typed
    <3>4. QED BY <1>2, <3>1, <3>2, <3>3
  <2>5. ASSUME JoinMove \/ \E c \in Children : NextMove(c) PROVE FALSE
    <3>1. CASE Wait \/ Waited \/ GiveUp \/ TimeOut
      BY <1>0, <1>2, <3>1, Functions DEF Wait, Waited, GiveUp, TimeOut, Call, Finish, Expire, To
    <3>2. CASE Look \/ Join \/ TooLate \/ \E c \in Children : NextMove(c)
      <4>1. fpc'[Joiner] = fpc[Joiner] /\ pc[Joiner] # "waiting"
        BY <3>2 DEF Look, Join, TooLate, NextMove, Create, Await, Detach, futexVars, callVars
      <4>2. QED BY <1>0, <1>2, <4>1
    <3>3. QED BY <2>5, <3>1, <3>2 DEF JoinMove
  <2>6. ASSUME NEW t \in Threads, FutexStep(t), UNCHANGED joinVars
        PROVE  IsFirst(out[Joiner], Matching(awaited))' /\ pc'[awaited'] # "gone"
    <3>1. CASE Sleep(Joiner)
      <4>1. /\ word[key[Joiner]] = val[Joiner]
            /\ IsFirst(out[Joiner], Matching(key[Joiner]))
            /\ UNCHANGED tableVars
            /\ fpc[Joiner] = "kernel" /\ stage[Joiner] = "have"
        BY <1>0, <3>1 DEF Sleep, Meets, At
      <4>2. key[Joiner] = awaited /\ val[Joiner] # EXITED /\ awaited \in Children
            /\ pc[awaited] # "absent"
        BY <4>1 DEF IInv, JoinerInv
      <4>3. pc[awaited] # "gone"
        BY <4>1, <4>2 DEF IInv, WordInv
      <4>4. QED BY <4>1, <4>2, <4>3, <2>6 DEF tableVars, joinVars, IsFirst, Matching
    <3>2. CASE ~Sleep(Joiner)
      <4>1. fpc[Joiner] = "asleep"
        BY <1>0, <1>2, <2>6, <3>2, InsideCall, Functions
           DEF Allocate, Load, Store, Again, To, callVars
      <4>2. out'[Joiner] = out[Joiner]
        <5>1. stage[Joiner] = "have"
          BY <4>1 DEF IInv, SleepInv
        <5>2. QED
          BY <1>0, <2>6, <3>2, <5>1, InsideCall, Functions
             DEF Allocate, Set, Resolved, Load, Store, Again, tableVars
      <4>3. QED BY <1>0, <2>1, <2>6, <4>1, <4>2 DEF joinVars
    <3>3. QED BY <3>1, <3>2
  <2>7. CASE UNCHANGED vars
    BY <1>0, <1>2, <2>1, <2>7 DEF vars, futexVars, tableVars, callVars, joinVars
  <2>8. QED
    BY <2>1, <2>2, <2>3, <2>4, <2>5, <2>6, <2>7, Steps
<1>3. QED BY <1>1, <1>2

\* The inductive invariant of thread exit and join.
THEOREM Invariance == Spec => []IInv
<1>1. IInv /\ [Next]_vars => IInv'
  BY TypeStep, WordStep, JoinerStepInv, ChildStepInv, SleepStep, FreedStep, RaceStep DEF IInv
<1>2. QED BY <1>1, InitInv, PTL DEF Spec

\* The types of the state.
THEOREM Typing == Spec => []TypeOK
<1>1. IInv => TypeOK
  BY DEF IInv, Typed, TypeOK, FutexInv, JoinerLabels, ChildLabels
<1>2. QED BY <1>1, Invariance, PTL

\* pthread_join frees a thread's memory only after the thread's last use of it,
\* for any number of children and any interleaving of their exits with the joins.
THEOREM NoUseAfterFree == Spec => []FreedAfterLastUse
  BY Invariance, PTL DEF IInv

\* pthread_join never traps on a thread that was detached: only a thread that
\* pthread_detach found already exiting is joined after all.
THEOREM NoTrap == Spec => []NeverTraps
<1>1. IInv => NeverTraps
  BY DEF IInv, WordInv, JoinerInv, NeverTraps
<1>2. QED BY <1>1, Invariance, PTL

\* pthread_join sleeps for a thread that has left only where a call met one of
\* the races of the copied word: the word that set_tid_address registered and
\* the word that FUTEX_WAIT sleeps on are otherwise the same.
THEOREM NoOtherStranding == Spec => []StrandedOnlyByRace
<1>1. IInv => StrandedOnlyByRace
  BY DEF IInv, RaceInv, StrandedOnlyByRace
<1>2. QED BY <1>1, Invariance, PTL
=============================================================================
