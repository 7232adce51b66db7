--------------------------- MODULE FutexShimProofs ---------------------------
(***************************************************************************)
(* Lemmas about the futex call, for the modules that make it: what each of *)
(* its steps keeps, whatever the caller does between them.                 *)
(***************************************************************************)
EXTENDS FutexShim, ObjectTableProofs

\* The state of the calls in progress and of the table under them is in order.
FutexInv == FutexTypeOK /\ TableInv

LEMMA FutexInitInv == FutexInit => FutexInv
<1> SUFFICES ASSUME FutexInit PROVE FutexInv
  OBVIOUS
<1>1. TableInv
  BY TableInitInv DEF FutexInit
<1>2. FutexTypeOK
  BY <1>1, ValuesAssumption DEF FutexInit, FutexTypeOK, TableInv
<1>3. QED BY <1>1, <1>2 DEF FutexInv

\* Entering a call: the caller says which operation on which word.
LEMMA CallInv ==
  ASSUME FutexInv, NEW t \in Threads, NEW a \in Addrs, NEW v \in Values,
         NEW o \in {"wait", "wake", "requeue", "settid"}, Call(t, o, a, v),
         word' \in [Addrs -> Values]
  PROVE  FutexInv'
<1>1. TableInv'
  BY GetInv DEF Call, FutexInv
<1>2. FutexTypeOK'
  BY <1>1 DEF Call, To, FutexInv, FutexTypeOK, TableInv
<1>3. QED BY <1>1, <1>2 DEF FutexInv

\* Leaving it.
LEMMA FinishInv ==
  ASSUME FutexInv, NEW t \in Threads, Finish(t), word' \in [Addrs -> Values]
  PROVE  FutexInv'
<1>1. TableInv'
  BY DropInv DEF Finish, FutexInv
<1>2. FutexTypeOK'
  BY <1>1 DEF Finish, To, FutexInv, FutexTypeOK, TableInv
<1>3. QED BY <1>1, <1>2 DEF FutexInv

\* The kernel ends a sleep at its deadline.
LEMMA ExpireInv ==
  ASSUME FutexInv, NEW t \in Threads, Expire(t)
  PROVE  FutexInv' /\ word' = word
<1>1. TableInv'
  BY TableStutter DEF Expire, FutexInv
<1>2. asleep' \in [Entries -> SUBSET Threads]
  <2>1. \A e \in Entries : asleep[e] \ {t} \subseteq Threads
    BY DEF FutexInv, FutexTypeOK
  <2>2. QED BY <2>1 DEF Expire
<1>3. FutexTypeOK'
  BY <1>1, <1>2 DEF Expire, To, FutexInv, FutexTypeOK, TableInv
<1>4. QED BY <1>1, <1>3 DEF FutexInv, Expire

\* A step of the caller's own that stays out of the call.
LEMMA OutsideInv ==
  ASSUME FutexInv, UNCHANGED <<tableVars, callVars>>, word' \in [Addrs -> Values]
  PROVE  FutexInv'
<1>1. TableInv'
  BY TableStutter DEF FutexInv
<1>2. FutexTypeOK'
  BY <1>1 DEF callVars, FutexInv, FutexTypeOK, TableInv
<1>3. QED BY <1>1, <1>2 DEF FutexInv

LEMMA MeetsType ==
  ASSUME raced \in BOOLEAN, NEW t \in Threads, NEW s \in BOOLEAN, Meets(t, s)
  PROVE  raced' \in BOOLEAN
  BY DEF Meets

\* The steps of the shim and of the kernel in between: they never write the
\* enclave's words.
LEMMA FutexStepInv ==
  ASSUME FutexInv, NEW t \in Threads, FutexStep(t)
  PROVE  FutexInv' /\ word' = word
<1> USE DEF FutexInv, FutexTypeOK, TableInv
<1>1. CASE Allocate(t)
  <2>1. TableInv'
    BY <1>1, SetInv DEF Allocate
  <2>2. QED BY <1>1, <2>1 DEF Allocate, callVars
<1>2. ASSUME UNCHANGED tableVars PROVE TableInv'
  BY <1>2, TableStutter
<1>3. CASE Load(t)
  <2>1. word[key[t]] \in Values
    BY DEF TableTypeOK
  <2>2. QED BY <1>2, <1>3, <2>1 DEF Load, To
<1>4. CASE Store(t)
  BY <1>2, <1>4 DEF Store, To
<1>5. CASE Sleep(t)
  <2>1. raced' \in BOOLEAN
    BY <1>5, MeetsType DEF Sleep
  <2>2. asleep' \in [Entries -> SUBSET Threads]
    BY <1>5 DEF Sleep
  <2>3. QED BY <1>2, <1>5, <2>1, <2>2 DEF Sleep, To
<1>6. CASE Again(t)
  BY <1>2, <1>6 DEF Again, To
<1>7. CASE WakeOne(t)
  <2>1. raced' \in BOOLEAN
    BY <1>7, MeetsType DEF WakeOne
  <2>0. PICK u \in asleep[out[t]] :
               /\ asleep' = [asleep EXCEPT ![out[t]] = @ \ {u}]
               /\ fpc' = [fpc EXCEPT ![t] = "return", ![u] = "return"]
    BY <1>7 DEF WakeOne
  <2>2. asleep' \in [Entries -> SUBSET Threads]
    <3> ASSUME NEW e \in Entries PROVE asleep[e] \ {u} \subseteq Threads
      OBVIOUS
    <3> QED BY <2>0
  <2>3. fpc' \in [Threads -> {"none", "load", "store", "kernel", "asleep", "return"}]
    BY <2>0
  <2>4. QED BY <1>2, <1>7, <2>1, <2>2, <2>3 DEF WakeOne
<1>8. CASE WakeNone(t)
  <2>1. raced' \in BOOLEAN
    BY <1>8, MeetsType DEF WakeNone
  <2>2. QED BY <1>2, <1>8, <2>1 DEF WakeNone, To
<1>9. QED BY <1>1, <1>3, <1>4, <1>5, <1>6, <1>7, <1>8 DEF FutexStep

\* A call may add an entry, but the first of every address stays.
LEMMA FutexStepFirst ==
  ASSUME FutexInv, NEW t \in Threads, FutexStep(t), NEW a \in Addrs, NEW e \in Entries,
         IsFirst(e, Matching(a))
  PROVE  IsFirst(e, Matching(a))'
<1>1. CASE Allocate(t)
  BY <1>1, SetKeepsFirst DEF Allocate, FutexInv
<1>2. CASE ~Allocate(t)
  <2>1. table' = table
    BY <1>2 DEF FutexStep, Load, Store, Sleep, Again, WakeOne, WakeNone, tableVars
  <2>2. QED BY <2>1 DEF IsFirst, Matching
<1>3. QED BY <1>1, <1>2

\* An address has one first entry.
LEMMA OneFirst ==
  ASSUME NEW a, NEW e \in Entries, NEW f \in Entries,
         IsFirst(e, Matching(a)), IsFirst(f, Matching(a))
  PROVE  e = f
<1>1. e <= f /\ f <= e
  BY DEF IsFirst
<1>2. QED BY <1>1 DEF Entries
=============================================================================
