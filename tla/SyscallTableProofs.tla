------------------------- MODULE SyscallTableProofs -------------------------
(***************************************************************************)
(* Theorems about SyscallTable, for any number of threads and slots.       *)
(***************************************************************************)
EXTENDS SyscallTableProps, FiniteSetTheorems, TLAPS

USE NSlotsAssumption, BrkCallsAssumption

\* The table starts with every slot free and the lock open.
LEMMA InitInv == Init => IInv
  BY DEF Init, IInv, TypeOK, LockInv, InLock, SlotExclusive, Owns, Holding, ScanInv,
         InTableInv, FullWhenRunOff, Labels, Slots, Kinds, UserKinds, Message, EBUSY

\* Every step keeps the types.
LEMMA TypeStep == ASSUME IInv, [Next]_vars PROVE TypeOK'
<1> USE DEF IInv, TypeOK, InTableInv
<1>1. CASE UNCHANGED vars
  BY <1>1 DEF vars
<1>2. ASSUME NEW t \in Threads, NEW k \in UserKinds, Enter(t, k) PROVE TypeOK'
  BY <1>2 DEF Enter, Call, Goto, Calls, Kinds, Labels
<1>3. ASSUME NEW c \in Calls, Lock(c) PROVE TypeOK'
  BY <1>3 DEF Lock, Acquire, Goto, Labels, EBUSY
<1>4. ASSUME NEW c \in Calls, Skip(c) PROVE TypeOK'
  BY <1>4 DEF Skip, Slots
<1>5. ASSUME NEW c \in Calls, Take(c) PROVE TypeOK'
  BY <1>5 DEF Take, Goto, Labels
<1>6. ASSUME NEW c \in Calls, RunOff(c) PROVE TypeOK'
  BY <1>6 DEF RunOff, Goto, Labels
<1>7. ASSUME NEW c \in Calls, Leave(c) PROVE TypeOK'
  BY <1>7 DEF Leave, Unlock, Goto, Labels
<1>8. ASSUME NEW c \in Calls, Send(c) PROVE TypeOK'
  <2>1. idx[c] \in Slots
    BY <1>8 DEF Send, Holding
  <2>2. AfterSend(kind[c]) \in Labels
    BY DEF AfterSend, Labels
  <2>3. [by |-> c, n |-> IF kind[c] = "undef" THEN "result" ELSE kind[c]] \in Message
    BY DEF Message
  <2>4. QED BY <1>8, <2>1, <2>2, <2>3 DEF Send, Goto
<1>9. ASSUME NEW c \in Calls, Execute(c) PROVE TypeOK'
  <2>1. idx[c] \in Slots
    BY <1>9 DEF Execute, Holding
  <2>2. arg0[idx[c]] \in Message
    BY <2>1
  <2>3. [arg0[idx[c]] EXCEPT !.n = "result"] \in Message
    BY <2>2 DEF Message
  <2>4. arg0' \in [Slots -> Message]
    BY <1>9, <2>1, <2>3 DEF Execute
  <2>5. AfterOcall(kind[c]) \subseteq Labels
    BY DEF AfterOcall, Labels
  <2>6. QED BY <1>9, <2>4, <2>5 DEF Execute, Goto
<1>10. ASSUME NEW c \in Calls, Exit(c) PROVE TypeOK'
  BY <1>10 DEF Exit, Goto, Labels
<1>11. ASSUME NEW c \in Calls, Relock(c) PROVE TypeOK'
  BY <1>11 DEF Relock, Acquire, Goto, Labels, EBUSY
<1>12. ASSUME NEW c \in Calls, Clear(c) PROVE TypeOK'
  BY <1>12 DEF Clear, Goto, Labels
<1>13. ASSUME NEW c \in Calls, Return(c) PROVE TypeOK'
  BY <1>13 DEF Return, Unlock, Goto, Labels, Kinds, UserKinds
<1>14. ASSUME NEW t \in Threads, HeapLock(t) PROVE TypeOK'
  BY <1>14 DEF HeapLock, Goto, Labels, Calls
<1>15. ASSUME NEW t \in Threads, HeapYield(t) PROVE TypeOK'
  BY <1>15 DEF HeapYield, Call, Goto, Labels, Calls, Kinds, NestedKinds
<1>16. ASSUME NEW t \in Threads, Brk(t) PROVE TypeOK'
  BY <1>16 DEF Brk, Call, Goto, Labels, Calls, Kinds, NestedKinds
<1>17. ASSUME NEW t \in Threads, HeapUnlock(t) PROVE TypeOK'
  BY <1>17 DEF HeapUnlock, AfterHeap, Goto, Labels, Calls
<1>18. QED
  BY <1>1, <1>2, <1>3, <1>4, <1>5, <1>6, <1>7, <1>8, <1>9, <1>10, <1>11, <1>12,
     <1>13, <1>14, <1>15, <1>16, <1>17
     DEF Next, Inside, WrapStep, HeapStep

-----------------------------------------------------------------------------
(* Most steps touch neither the spin lock, nor busy, nor any index, and move *)
(* their activation between labels that are alike for the lock and for the   *)
(* ownership of the slot.                                                    *)

Quiet ==
  /\ UNCHANGED <<lock, busy, idx>>
  /\ \A c \in Calls : /\ InLock(c)' = InLock(c)
                      /\ Owns(c)' = Owns(c)
                      /\ pc'[c] = "scan" => pc[c] = "scan"
                      /\ pc'[c] = "leave" => pc[c] = "leave"
                      /\ pc'[c] \in Holding \ {"leave"} => pc[c] \in Holding \ {"leave"}

\* The steps outside the critical sections are quiet: the body of
\* __syscall_wrap and the allocator change no slot, and hold what they held.
LEMMA QuietSteps ==
  ASSUME IInv,
         \/ UNCHANGED vars
         \/ \E t \in Threads : HeapStep(t) \/ \E k \in UserKinds : Enter(t, k)
         \/ \E c \in Calls : Send(c) \/ Execute(c) \/ Exit(c)
  PROVE  Quiet
<1> USE DEF IInv, TypeOK, Quiet, InLock, Owns, Holding, Goto
<1>1. CASE UNCHANGED vars
  BY <1>1 DEF vars
<1>2. ASSUME NEW t \in Threads, NEW k \in UserKinds, Enter(t, k) PROVE Quiet
  BY <1>2 DEF Enter, Call, Calls
<1>3. ASSUME NEW t \in Threads, HeapLock(t) PROVE Quiet
  <2>1. <<t, 1>> \in Calls /\ pc[<<t, 1>>] \in {"malloc", "free"}
    BY <1>3 DEF HeapLock, Calls
  <2>2. UNCHANGED <<lock, busy, idx>>
    BY <1>3 DEF HeapLock
  <2>3. \E l \in {"alloc", "trim"} : pc' = [pc EXCEPT ![<<t, 1>>] = l]
    BY <1>3 DEF HeapLock
  <2>4. QED BY <2>1, <2>2, <2>3
<1>4. ASSUME NEW t \in Threads, HeapYield(t) PROVE Quiet
  <2>1. <<t, 2>> \in Calls /\ pc[<<t, 2>>] = "user"
    BY <1>4 DEF HeapYield, Call, Calls
  <2>2. pc' = [pc EXCEPT ![<<t, 2>>] = "acquire"] /\ UNCHANGED <<lock, busy, idx>>
    BY <1>4 DEF HeapYield, Call
  <2>3. QED BY <2>1, <2>2
<1>5. ASSUME NEW t \in Threads, Brk(t) PROVE Quiet
  <2>1. <<t, 2>> \in Calls /\ pc[<<t, 2>>] = "user"
    BY <1>5 DEF Brk, Call, Calls
  <2>2. pc' = [pc EXCEPT ![<<t, 2>>] = "acquire"] /\ UNCHANGED <<lock, busy, idx>>
    BY <1>5 DEF Brk, Call
  <2>3. QED BY <2>1, <2>2
<1>6. ASSUME NEW t \in Threads, HeapUnlock(t) PROVE Quiet
  <2>1. <<t, 1>> \in Calls /\ pc[<<t, 1>>] \in {"alloc", "trim"}
    BY <1>6 DEF HeapUnlock, Calls
  <2>2. UNCHANGED <<lock, busy, idx>>
    BY <1>6 DEF HeapUnlock
  <2>3. \E l \in {"malloc", "ocall", "free", "recv"} : pc' = [pc EXCEPT ![<<t, 1>>] = l]
    BY <1>6 DEF HeapUnlock, AfterHeap
  <2>4. QED BY <2>1, <2>2, <2>3
<1>7. ASSUME NEW c \in Calls, Send(c) PROVE Quiet
  <2>1. AfterSend(kind[c]) \in {"malloc", "recv", "ocall"}
    BY DEF AfterSend
  <2>2. QED BY <1>7, <2>1 DEF Send
<1>8. ASSUME NEW c \in Calls, Execute(c) PROVE Quiet
  <2>1. AfterOcall(kind[c]) \subseteq {"free", "recv"}
    BY DEF AfterOcall
  <2>2. QED BY <1>8, <2>1 DEF Execute
<1>9. ASSUME NEW c \in Calls, Exit(c) PROVE Quiet
  BY <1>9 DEF Exit
<1>10. QED
  BY <1>1, <1>2, <1>3, <1>4, <1>5, <1>6, <1>7, <1>8, <1>9 DEF HeapStep

\* A quiet step keeps the inductive invariant.
LEMMA QuietKeeps ==
  ASSUME IInv, Quiet
  PROVE  LockInv' /\ SlotExclusive' /\ ScanInv' /\ InTableInv' /\ FullWhenRunOff'
<1> USE DEF IInv, Quiet
<1>1. LockInv'
  BY DEF LockInv
<1>2. SlotExclusive'
  BY DEF SlotExclusive
<1>3. ScanInv' /\ FullWhenRunOff'
  BY DEF ScanInv, FullWhenRunOff
<1>4. InTableInv'
  BY DEF InTableInv
<1>5. QED BY <1>1, <1>2, <1>3, <1>4

\* Slots stay exclusive when no flag, no index and no ownership changes.
LEMMA SameOwners ==
  ASSUME SlotExclusive, UNCHANGED <<busy, idx>>, \A d \in Calls : Owns(d)' <=> Owns(d)
  PROVE  SlotExclusive'
  BY DEF SlotExclusive

\* The steps that take or drop the spin lock, or run under it.
LEMMA LockedSteps ==
  ASSUME IInv, NEW c \in Calls,
         Inside(c) \/ Lock(c) \/ Relock(c)
  PROVE  LockInv' /\ SlotExclusive' /\ ScanInv' /\ InTableInv' /\ FullWhenRunOff'
<1> USE DEF IInv, TypeOK, Goto, LockInv, SlotExclusive, ScanInv, InTableInv,
            FullWhenRunOff, InLock, Owns, Holding, EBUSY
<1>1. CASE Lock(c)
  <2>1. LockInv'
    BY <1>1 DEF Lock, Acquire
  <2>2. SlotExclusive'
    BY <1>1 DEF Lock, Acquire
  <2>3. ScanInv' /\ InTableInv' /\ FullWhenRunOff'
    BY <1>1 DEF Lock, Acquire, Slots
  <2>4. QED BY <2>1, <2>2, <2>3
<1>2. CASE Relock(c)
  <2>1. LockInv'
    BY <1>2 DEF Relock, Acquire
  <2>2. SlotExclusive'
    BY <1>2 DEF Relock, Acquire
  <2>3. ScanInv' /\ InTableInv' /\ FullWhenRunOff'
    BY <1>2 DEF Relock, Acquire
  <2>4. QED BY <2>1, <2>2, <2>3
<1>3. CASE Skip(c)
  <2>1. LockInv'
    BY <1>3 DEF Skip
  <2>2. SlotExclusive'
    BY <1>3 DEF Skip
  <2>3. ScanInv'
    BY <1>3 DEF Skip, Slots
  <2>4. InTableInv' /\ FullWhenRunOff'
    BY <1>3 DEF Skip
  <2>5. QED BY <2>1, <2>2, <2>3, <2>4
<1>4. CASE Take(c)
  <2>1. LockInv'
    BY <1>4 DEF Take
  <2>2. SlotExclusive'
    BY <1>4 DEF Take
  <2>3. ScanInv' /\ InTableInv' /\ FullWhenRunOff'
    BY <1>4 DEF Take, Slots
  <2>4. QED BY <2>1, <2>2, <2>3
<1>5. CASE RunOff(c)
  <2>1. LockInv'
    BY <1>5 DEF RunOff
  <2>2. SlotExclusive'
    <3>1. \A d \in Calls : Owns(d)' <=> Owns(d)
      BY <1>5 DEF RunOff, Slots
    <3>2. UNCHANGED <<busy, idx>>
      BY <1>5 DEF RunOff
    <3>3. QED BY <3>1, <3>2, SameOwners
  <2>3. ScanInv' /\ InTableInv' /\ FullWhenRunOff'
    BY <1>5 DEF RunOff, Slots
  <2>4. QED BY <2>1, <2>2, <2>3
<1>6. CASE Leave(c)
  <2>1. LockInv'
    BY <1>6 DEF Leave, Unlock
  <2>2. SlotExclusive'
    BY <1>6 DEF Leave
  <2>3. ScanInv' /\ InTableInv' /\ FullWhenRunOff'
    BY <1>6 DEF Leave
  <2>4. QED BY <2>1, <2>2, <2>3
<1>7. CASE Clear(c)
  <2>1. LockInv'
    BY <1>7 DEF Clear
  <2>2. SlotExclusive'
    BY <1>7 DEF Clear
  <2>3. ScanInv' /\ InTableInv' /\ FullWhenRunOff'
    BY <1>7 DEF Clear, Slots
  <2>4. QED BY <2>1, <2>2, <2>3
<1>8. CASE Return(c)
  BY <1>8 DEF Return, Unlock
<1>9. QED
  BY <1>1, <1>2, <1>3, <1>4, <1>5, <1>6, <1>7, <1>8 DEF Inside

\* Every step keeps the inductive invariant.
LEMMA InvStep == IInv /\ [Next]_vars => IInv'
<1> SUFFICES ASSUME IInv, [Next]_vars PROVE IInv'
  OBVIOUS
<1>1. TypeOK'
  BY TypeStep
<1>2. ASSUME NEW c \in Calls, Inside(c) \/ Lock(c) \/ Relock(c) PROVE IInv'
  BY <1>1, <1>2, LockedSteps DEF IInv
<1>3. CASE \/ UNCHANGED vars
           \/ \E t \in Threads : HeapStep(t) \/ \E k \in UserKinds : Enter(t, k)
           \/ \E c \in Calls : Send(c) \/ Execute(c) \/ Exit(c)
  BY <1>1, <1>3, QuietSteps, QuietKeeps DEF IInv
<1>4. QED
  BY <1>2, <1>3 DEF Next, WrapStep

\* The spin lock excludes, slots are held exclusively, and what a scan of
\* get_free_syscall_arg_index has seen busy stays busy until the scan ends.
THEOREM Invariance == Spec => []IInv
  BY InitInv, InvStep, PTL DEF Spec

\* The state has its types.
THEOREM Typing == Spec => []TypeOK
  BY Invariance, PTL DEF IInv

\* No slot is ever held by two activations, and busy says exactly who holds one.
THEOREM Exclusion == Spec => []SlotExclusive
  BY Invariance, PTL DEF IInv

\* get_free_syscall_arg_index returns MAX_NO_OF_THREADS only when all are taken.
THEOREM TrueExhaustion == Spec => []FullWhenRunOff
  BY Invariance, PTL DEF IInv
-----------------------------------------------------------------------------
(* The untrusted buffers *)

Using(c) == pc[c] \in {"malloc", "alloc", "ocall"}
Answered(c) == pc[c] \in {"free", "trim", "recv"}
Intact(c) ==
  /\ Using(c) => arg0[idx[c]] = [by |-> c, n |-> kind[c]]
  /\ Answered(c) => arg0[idx[c]] = [by |-> c, n |-> "result"]

\* No step writes to the buffers of a slot but those of the call that holds it.
LEMMA BufferStep == IInv /\ BufferIntact /\ [Next]_vars => BufferIntact'
<1> SUFFICES ASSUME IInv, BufferIntact, [Next]_vars, NEW d \in Calls PROVE Intact(d)'
  BY DEF BufferIntact, Intact, Using, Answered
<1> USE DEF IInv, TypeOK, Goto, Intact, Using, Answered
<1>1. Intact(d)
  BY DEF BufferIntact
<1>2. \A c \in Calls : Owns(c) /\ Owns(d) /\ idx[c] = idx[d] => c = d
  BY DEF SlotExclusive
<1>3. Using(d) \/ Answered(d) => Owns(d)
  BY DEF InTableInv, Owns, Holding
<1>4. CASE UNCHANGED vars
  BY <1>1, <1>4 DEF vars
<1>5. ASSUME NEW t \in Threads, NEW k \in UserKinds, Enter(t, k) PROVE Intact(d)'
  <2>1. <<t, 1>> \in Calls /\ pc[<<t, 1>>] = "user"
    BY <1>5 DEF Enter, Call, Calls
  <2>2. QED BY <1>1, <1>5, <2>1 DEF Enter, Call
<1>6. ASSUME NEW c \in Calls, Inside(c) \/ Lock(c) \/ Relock(c) PROVE Intact(d)'
  <2>1. UNCHANGED arg0
    BY <1>6 DEF Inside, Skip, Take, RunOff, Leave, Clear, Return, Lock, Relock
  <2>2. CASE d = c
    BY <1>6, <2>2 DEF Inside, Skip, Take, RunOff, Leave, Clear, Return, Lock, Relock, Acquire
  <2>3. CASE d # c
    <3>1. pc'[d] = pc[d] /\ idx'[d] = idx[d] /\ kind'[d] = kind[d]
      BY <1>6, <2>3 DEF Inside, Skip, Take, RunOff, Leave, Clear, Return, Lock, Relock, Acquire
    <3>2. QED BY <1>1, <2>1, <3>1
  <2>4. QED BY <2>2, <2>3
<1>7. ASSUME NEW c \in Calls, Send(c) PROVE Intact(d)'
  <2>1. Owns(c) /\ idx[c] \in Slots
    BY <1>7 DEF Send, InTableInv, Owns, Holding
  <2>2. CASE d = c
    <3>1. AfterSend(kind[c]) = "recv" <=> kind[c] = "undef"
      BY DEF AfterSend
    <3>2. pc'[c] = AfterSend(kind[c])
      BY <1>7 DEF Send
    <3>3. AfterSend(kind[c]) \in {"malloc", "recv", "ocall"}
      BY DEF AfterSend
    <3>4. arg0'[idx[c]] = [by |-> c, n |-> IF kind[c] = "undef" THEN "result" ELSE kind[c]]
      BY <1>7, <2>1 DEF Send
    <3>5. UNCHANGED <<idx, kind>>
      BY <1>7 DEF Send
    <3>6. QED BY <2>2, <3>1, <3>2, <3>3, <3>4, <3>5
  <2>3. CASE d # c
    <3>1. pc'[d] = pc[d] /\ UNCHANGED <<idx, kind>>
      BY <1>7, <2>3 DEF Send
    <3>2. Owns(d) => arg0'[idx[d]] = arg0[idx[d]]
      BY <1>2, <1>7, <2>1, <2>3 DEF Send, Owns
    <3>3. QED BY <1>1, <1>3, <3>1, <3>2
  <2>4. QED BY <2>2, <2>3
<1>8. ASSUME NEW c \in Calls, Execute(c) PROVE Intact(d)'
  <2>1. Owns(c) /\ idx[c] \in Slots
    BY <1>8 DEF Execute, InTableInv, Owns, Holding
  <2>2. CASE d = c
    <3>1. arg0[idx[c]] = [by |-> c, n |-> kind[c]]
      BY <1>1, <1>8, <2>2 DEF Execute
    <3>2. [arg0[idx[c]] EXCEPT !.n = "result"] = [by |-> c, n |-> "result"]
      BY <3>1
    <3>3. arg0'[idx[c]] = [by |-> c, n |-> "result"] /\ idx' = idx
      BY <1>8, <2>1, <3>2 DEF Execute
    <3>4. AfterOcall(kind[c]) \subseteq {"free", "recv"}
      BY DEF AfterOcall
    <3>5. pc'[c] \in {"free", "recv"}
      BY <1>8, <3>4 DEF Execute
    <3>6. QED BY <2>2, <3>3, <3>5
  <2>3. CASE d # c
    <3>1. pc'[d] = pc[d] /\ UNCHANGED <<idx, kind>>
      BY <1>8, <2>3 DEF Execute
    <3>2. Owns(d) => arg0'[idx[d]] = arg0[idx[d]]
      BY <1>2, <1>8, <2>1, <2>3 DEF Execute, Owns
    <3>3. QED BY <1>1, <1>3, <3>1, <3>2
  <2>4. QED BY <2>2, <2>3
<1>9. ASSUME NEW c \in Calls, Exit(c) PROVE Intact(d)'
  BY <1>1, <1>9 DEF Exit
<1>10. ASSUME NEW t \in Threads, HeapStep(t) PROVE Intact(d)'
  <2>1. <<t, 1>> \in Calls /\ <<t, 2>> \in Calls
    BY DEF Calls
  <2>2. CASE HeapLock(t)
    BY <1>1, <2>1, <2>2 DEF HeapLock
  <2>3. CASE HeapYield(t)
    BY <1>1, <2>1, <2>3 DEF HeapYield, Call
  <2>4. CASE Brk(t)
    BY <1>1, <2>1, <2>4 DEF Brk, Call
  <2>5. CASE HeapUnlock(t)
    BY <1>1, <2>1, <2>5 DEF HeapUnlock, AfterHeap
  <2>6. QED BY <1>10, <2>2, <2>3, <2>4, <2>5 DEF HeapStep
<1>11. QED
  BY <1>4, <1>5, <1>6, <1>7, <1>8, <1>9, <1>10 DEF Next, WrapStep

\* A call's request reaches the host and its answer comes back, untouched by any
\* other call, nested or concurrent.
THEOREM BufferIntegrity == Spec => []BufferIntact
<1>1. Init => BufferIntact
  BY DEF Init, BufferIntact
<1>2. QED
  BY <1>1, BufferStep, Invariance, PTL DEF Spec
-----------------------------------------------------------------------------
(* How many slots are enough *)

\* If activation c found every slot busy, each slot has an owner other than c.
LEMMA Pigeons ==
  ASSUME IInv, IsFiniteSet(Threads), NEW c \in Calls, pc[c] = "leave", idx[c] = NSlots
  PROVE  NSlots < 2 * Cardinality(Threads)
<1> DEFINE Others == Calls \ {c}
           owner == [s \in Slots |-> CHOOSE d \in Calls : Owns(d) /\ idx[d] = s]
<1>1. \A s \in Slots : \E d \in Calls : Owns(d) /\ idx[d] = s
  BY DEF IInv, FullWhenRunOff, SlotExclusive
<1>2. \A s \in Slots : owner[s] \in Calls /\ Owns(owner[s]) /\ idx[owner[s]] = s
  BY <1>1
<1>3. ~Owns(c)
  BY DEF Owns, Slots
<1>4. owner \in Injection(Slots, Others)
  <2>1. owner \in [Slots -> Others]
    BY <1>2, <1>3
  <2>2. ASSUME NEW r \in Slots, NEW s \in Slots, owner[r] = owner[s] PROVE r = s
    BY <1>2, <2>2
  <2>3. QED BY <2>1, <2>2 DEF Injection, IsInjective
<1>5. IsFiniteSet({1, 2}) /\ Cardinality({1, 2}) = 2
  <2>1. IsFiniteSet({1}) /\ Cardinality({1}) = 1
    BY FS_Singleton
  <2>2. /\ IsFiniteSet({1} \cup {2})
        /\ Cardinality({1} \cup {2}) = IF 2 \in {1} THEN Cardinality({1}) ELSE Cardinality({1}) + 1
    BY <2>1, FS_AddElement
  <2>3. {1} \cup {2} = {1, 2} /\ 2 \notin {1}
    OBVIOUS
  <2>4. QED BY <2>1, <2>2, <2>3
<1>6. IsFiniteSet(Calls) /\ Cardinality(Calls) = Cardinality(Threads) * 2
  BY <1>5, FS_Product DEF Calls
<1>7. IsFiniteSet(Others) /\ Cardinality(Others) = Cardinality(Calls) - 1
  BY <1>6, FS_RemoveElement
<1>8. Cardinality(Slots) = NSlots
  BY FS_Interval DEF Slots
<1>9. Cardinality(Slots) <= Cardinality(Others)
  BY <1>4, <1>7, FS_Injection
<1>10. Cardinality(Threads) \in Nat
  BY FS_CardinalityType
<1>11. QED BY <1>6, <1>7, <1>8, <1>9, <1>10

\* With two slots for every thread no call is ever handed the index past the
\* table's end, whatever the threads do and however many of them have exited.
THEOREM Capacity ==
  ASSUME IsFiniteSet(Threads), 2 * Cardinality(Threads) <= NSlots
  PROVE  Spec => []InRange
<1>1. Init => InRange
  BY DEF Init, InRange
<1>2. IInv /\ InRange /\ [Next]_vars => InRange'
  <2> SUFFICES ASSUME IInv, InRange, [Next]_vars, NEW d \in Calls, pc'[d] = "overrun"
               PROVE FALSE
    BY DEF InRange
  <2> USE DEF Goto
  <2>1. pc[d] # "overrun" /\ pc \in [Calls -> Labels]
    BY DEF InRange, IInv, TypeOK
  <2>2. ASSUME NEW c \in Calls, Leave(c) PROVE FALSE
    <3>1. pc[c] = "leave" /\ idx[c] \notin Slots
      BY <2>1, <2>2 DEF Leave
    <3>2. idx[c] = NSlots
      BY <3>1 DEF IInv, TypeOK, Slots
    <3>3. NSlots < 2 * Cardinality(Threads)
      BY <3>1, <3>2, Pigeons
    <3>4. Cardinality(Threads) \in Nat
      BY FS_CardinalityType
    <3>5. QED BY <3>3, <3>4
  <2>3. ASSUME NEW c \in Calls, Send(c) PROVE FALSE
    <3>1. AfterSend(kind[c]) # "overrun"
      BY DEF AfterSend
    <3>2. QED BY <2>1, <2>3, <3>1 DEF Send
  <2>4. ASSUME NEW c \in Calls,
               \/ Skip(c) \/ Take(c) \/ RunOff(c) \/ Clear(c) \/ Return(c)
               \/ Lock(c) \/ Execute(c) \/ Exit(c) \/ Relock(c)
        PROVE FALSE
    BY <2>1, <2>4 DEF Skip, Take, RunOff, Clear, Return, Lock, Execute, AfterOcall, Exit,
                      Relock, Acquire
  <2>5. ASSUME NEW t \in Threads, HeapStep(t) PROVE FALSE
    <3>1. <<t, 1>> \in Calls /\ <<t, 2>> \in Calls
      BY DEF Calls
    <3>2. QED
      BY <2>1, <2>5, <3>1
         DEF HeapStep, HeapLock, HeapYield, Brk, HeapUnlock, AfterHeap, Call
  <2>6. ASSUME NEW t \in Threads, NEW k \in UserKinds, Enter(t, k) PROVE FALSE
    BY <2>1, <2>6 DEF Enter, Call
  <2>7. CASE UNCHANGED vars
    BY <2>1, <2>7 DEF vars
  <2>8. QED
    BY <2>2, <2>3, <2>4, <2>5, <2>6, <2>7 DEF Next, Inside, WrapStep
<1>3. QED
  BY <1>1, <1>2, Invariance, PTL DEF Spec
-----------------------------------------------------------------------------
(* The table implements the pool *)

Holds == [c \in Calls |-> IF Owns(c) THEN idx[c] ELSE NSlots]

\* A quiet step is a stutter of the pool.
LEMMA QuietStutters == ASSUME IInv, Quiet PROVE UNCHANGED Holds
  BY DEF Quiet, Holds

\* A slot is free in the pool when its busy flag is 0.
LEMMA FreeSlots == ASSUME IInv PROVE Pool!Free = {s \in Slots : busy[s] = 0}
<1>1. \A s \in Slots : (\A c \in Calls : Holds[c] # s) <=> ~ \E c \in Calls : Owns(c) /\ idx[c] = s
  BY DEF Holds, Owns, Slots
<1>2. \A s \in Slots : busy[s] = 0 <=> busy[s] # 1
  BY DEF IInv, TypeOK
<1>3. QED BY <1>1, <1>2 DEF Pool!Free, Pool!Slots, Slots, Holds, IInv, SlotExclusive

\* Taking a slot is a Claim, giving it back a Release, all else a stutter.
LEMMA PoolStep == IInv /\ [Next]_vars => [Pool!Next]_Holds
<1> SUFFICES ASSUME IInv, [Next]_vars PROVE [Pool!Next]_Holds
  OBVIOUS
<1> USE DEF IInv, TypeOK, Goto
<1>1. ASSUME NEW c \in Calls, Take(c) PROVE Pool!Claim(c)
  <2> DEFINE s == idx[c]
  <2>1. ~Owns(c) /\ Owns(c)' /\ s \in Slots /\ busy[s] = 0 /\ idx' = idx
    BY <1>1 DEF Take, Owns, Holding
  <2>2. \A d \in Calls \ {c} : Owns(d)' = Owns(d)
    BY <1>1 DEF Take, Owns
  <2>3. Holds' = [Holds EXCEPT ![c] = s]
    BY <2>1, <2>2 DEF Holds
  <2>4. \A r \in Slots : busy[r] = 0 => s <= r
    <3>1. \A r \in Slots : r < s => busy[r] = 1
      BY <1>1 DEF Take, ScanInv
    <3>2. s \in Nat /\ \A r \in Slots : r \in Nat
      BY <2>1 DEF Slots
    <3>3. QED BY <3>1, <3>2
  <2>5. s \in Pool!Free /\ \A r \in Pool!Free : s <= r
    BY <2>1, <2>4, FreeSlots
  <2>6. Holds[c] = NSlots
    BY <2>1 DEF Holds
  <2>7. QED BY <2>3, <2>5, <2>6 DEF Pool!Claim, Holds
<1>2. ASSUME NEW c \in Calls, Clear(c) PROVE Pool!Release(c)
  <2>1. Owns(c) /\ ~Owns(c)' /\ idx[c] \in Slots /\ idx' = idx
    BY <1>2 DEF Clear, Owns, Holding, InTableInv
  <2>2. \A d \in Calls \ {c} : Owns(d)' = Owns(d)
    BY <1>2 DEF Clear, Owns
  <2>3. Holds' = [Holds EXCEPT ![c] = NSlots]
    BY <2>1, <2>2 DEF Holds
  <2>4. Holds[c] # NSlots
    BY <2>1 DEF Holds, Slots
  <2>5. QED BY <2>3, <2>4 DEF Pool!Release, Holds
<1>3. ASSUME NEW c \in Calls,
             Skip(c) \/ RunOff(c) \/ Leave(c) \/ Return(c) \/ Lock(c) \/ Relock(c)
      PROVE UNCHANGED Holds
  <2>1. Owns(c)' = Owns(c) /\ (Owns(c) => idx'[c] = idx[c])
    BY <1>3 DEF Skip, RunOff, Leave, Return, Lock, Relock, Acquire, Owns, Holding, Slots
  <2>2. \A d \in Calls \ {c} : Owns(d)' = Owns(d) /\ idx'[d] = idx[d]
    BY <1>3 DEF Skip, RunOff, Leave, Return, Lock, Relock, Acquire, Owns
  <2>3. QED BY <2>1, <2>2 DEF Holds
<1>4. CASE \/ UNCHANGED vars
           \/ \E t \in Threads : HeapStep(t) \/ \E k \in UserKinds : Enter(t, k)
           \/ \E c \in Calls : Send(c) \/ Execute(c) \/ Exit(c)
  BY <1>4, QuietSteps, QuietStutters
<1>5. QED
  BY <1>1, <1>2, <1>3, <1>4 DEF Next, Inside, WrapStep, Pool!Next

\* The table of slots implements the pool: each call holds at most one slot, no
\* two the same, and each gets the lowest one free.
THEOREM Refinement == Spec => PoolSpec
<1>1. Init => Pool!Init
  BY DEF Init, Pool!Init, Owns, Holding
<1>2. IInv /\ [Next]_vars => [Pool!Next]_Holds
  BY PoolStep
<1>3. QED
  BY <1>1, <1>2, Invariance, PTL DEF Spec, PoolSpec, Pool!Spec, Holds
=============================================================================
