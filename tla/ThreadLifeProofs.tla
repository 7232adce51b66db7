-------------------------- MODULE ThreadLifeProofs --------------------------
(***************************************************************************)
(* Theorems about ThreadLife, for any number of threads, TCSs and entries  *)
(* of fs_table.                                                            *)
(***************************************************************************)
EXTENDS ThreadLife, FiniteSetTheorems, TLAPS

USE MainAssumption, TcsAssumption, ThreadsAssumption

Labels == {"absent", "new", "host", "phantom", "scan", "take", "fill", "full", "run", "creating",
           "create", "clone", "exiting", "exit", "left", "last", "ending", "lost"}

\* Where a thread has been through TakeTcs.
Settled == {"fill", "run", "creating", "create", "clone", "exiting", "exit", "left",
            "last", "ending", "lost"}

Typed ==
  /\ tcs \in [Entries -> Threads \cup {NULL}]
  /\ fs  \in [Entries -> Threads \cup {NULL}]
  /\ minusOne \in Int
  /\ pc \in [Threads -> Labels]
  /\ idx   \in [Threads -> 0 .. MaxThreads]
  /\ self  \in [Threads -> Threads \cup {NULL}]
  /\ child \in [Threads -> Threads \cup {NULL}]
  /\ ended \in BOOLEAN
  /\ overlapped \in BOOLEAN

\* A scan has seen every entry before its index taken, no entry is ever free
\* again, and no thread takes two.
TableInv ==
  /\ \A t \in Threads : pc[t] \in {"absent", "new", "host", "phantom"} => idx[t] = 0
  /\ \A t \in Threads : pc[t] \in {"take", "fill", "creating", "exiting"} => idx[t] \in Entries
  /\ \A t \in Threads : pc[t] = "scan" => \A e \in Entries : e < idx[t] => tcs[e] # NULL
  /\ \A t \in Threads : pc[t] = "full" => \A e \in Entries : tcs[e] # NULL
  /\ \A e \in Entries, t \in Threads : tcs[e] = t => pc[t] \in Settled
  /\ \A e, f \in Entries : tcs[e] # NULL /\ tcs[e] = tcs[f] => e = f

\* Without an overlap the entry a thread took stays its own.
OwnInv ==
  ~overlapped => \A t \in Threads :
    /\ pc[t] \in {"fill", "creating", "exiting"} => tcs[idx[t]] = t
    /\ Registered(t) => \E e \in Entries : tcs[e] = t /\ fs[e] = t
    /\ pc[t] \in {"create", "exit"} => self[t] = t
    /\ pc[t] # "lost"

\* A thread being created has one creator.
ChildInv ==
  /\ \A t \in Threads : pc[t] = "clone" => child[t] \in Threads /\ pc[child[t]] = "new"
  /\ \A t, u \in Threads :
       pc[t] = "clone" /\ pc[u] = "clone" /\ child[t] = child[u] => t = u

\* The threads that libc.threads_minus_1 counts, ...
Live == {t \in Threads : pc[t] \notin {"absent", "left"}}
\* ... but for a last one between its two changes of it.
Lasts == IF \E t \in Threads : pc[t] = "last" THEN 1 ELSE 0

CountInv == minusOne = Cardinality(Live) - 1 - Lasts

IInv == Typed /\ TableInv /\ OwnInv /\ ChildInv /\ CountInv /\ LastIsAlone

LEMMA InitInv == Init => IInv
<1> SUFFICES ASSUME Init PROVE IInv
  OBVIOUS
<1>0. \A t \in Threads : pc[t] = IF t = Main THEN "scan" ELSE "absent"
  BY DEF Init
<1>1. Typed
  <2>1. pc \in [Threads -> Labels]
    BY DEF Init, Labels
  <2>2. idx \in [Threads -> 0 .. MaxThreads]
    BY DEF Init
  <2>3. tcs \in [Entries -> Threads \cup {NULL}] /\ fs \in [Entries -> Threads \cup {NULL}]
    BY DEF Init
  <2>4. self \in [Threads -> Threads \cup {NULL}] /\ child \in [Threads -> Threads \cup {NULL}]
    BY DEF Init
  <2>5. minusOne \in Int
    BY DEF Init
  <2>6. ended \in BOOLEAN /\ overlapped \in BOOLEAN
    BY Zenon DEF Init
  <2>7. QED BY <2>1, <2>2, <2>3, <2>4, <2>5, <2>6 DEF Typed
<1>2. TableInv
  <2>1. \A t \in Threads : pc[t] \notin {"take", "fill", "creating", "exiting", "full"}
    BY <1>0
  <2>2. \A t \in Threads, e \in Entries : ~(e < idx[t])
    BY DEF Init, Entries
  <2>3. \A e \in Entries : tcs[e] = NULL
    BY DEF Init
  <2>4. \A t \in Threads : idx[t] = 0
    BY DEF Init
  <2>5. QED BY <2>1, <2>2, <2>3, <2>4 DEF TableInv
<1>3. OwnInv
  BY <1>0 DEF OwnInv, Registered
<1>4. ChildInv
  BY <1>0 DEF ChildInv
<1>5. LastIsAlone
  BY <1>0 DEF LastIsAlone
<1>6. CountInv
  <2>1. Live = {Main}
    BY <1>0 DEF Live
  <2>2. Cardinality(Live) = 1
    BY <2>1, FS_Singleton
  <2>3. Lasts = 0
    BY <1>0 DEF Lasts
  <2>4. QED BY <2>2, <2>3 DEF Init, CountInv
<1>7. QED BY <1>1, <1>2, <1>3, <1>4, <1>5, <1>6 DEF IInv

LEMMA TypeStep == ASSUME IInv, [Next]_vars PROVE Typed'
<1> USE DEF Typed, Labels, Goto
<1>0. Typed
  BY DEF IInv
<1>1. ASSUME NEW t \in Threads, Register(t) PROVE Typed'
  <2>1. CASE Skip(t)
    <3>1. idx[t] + 1 \in 0 .. MaxThreads
      BY <1>0, <2>1 DEF Skip, Entries
    <3>2. QED BY <1>0, <2>1, <3>1 DEF Skip
  <2>2. CASE SeeFree(t) \/ SeeNone(t)
    BY <1>0, <2>2 DEF SeeFree, SeeNone
  <2>3. CASE TakeTcs(t)
    BY <1>0, <2>3 DEF TakeTcs
  <2>4. CASE FillFs(t)
    BY <1>0, <2>4 DEF FillFs
  <2>5. QED BY <1>1, <2>1, <2>2, <2>3, <2>4 DEF Register
<1>2. ASSUME NEW t \in Threads, Lookup(t) PROVE Typed'
  <2>1. ASSUME NEW l \in {"creating", "exiting"}, Find(t, l) PROVE Typed'
    BY <1>0, <2>1 DEF Find, Entries
  <2>2. CASE FindNone(t)
    BY <1>0, <2>2 DEF FindNone
  <2>3. ASSUME NEW l \in {"creating", "exiting"}, NEW m \in {"create", "exit"}, Self(t, l, m)
        PROVE  Typed'
    <3>1. idx[t] \in Entries
      BY <2>3 DEF Self, At, IInv, TableInv
    <3>2. QED BY <1>0, <2>3, <3>1 DEF Self
  <2>4. QED BY <1>2, <2>1, <2>2, <2>3 DEF Lookup
<1>3. ASSUME NEW t \in Threads, Creation(t) PROVE Typed'
  <2>1. ASSUME NEW c \in Threads, Count(t, c) PROVE Typed'
    BY <1>0, <2>1 DEF Count
  <2>2. CASE Clone(t) \/ CloneUnnoticed(t)
    BY <1>0, <2>2 DEF Clone, CloneUnnoticed
  <2>3. CASE CloneFails(t)
    <3>1. child[t] \in Threads /\ pc' = [pc EXCEPT ![t] = "run", ![child[t]] = "absent"]
      BY <2>3 DEF CloneFails, At, IInv, ChildInv
    <3>2. pc' \in [Threads -> Labels]
      BY <1>0, <3>1
    <3>3. QED BY <1>0, <2>3, <3>2 DEF CloneFails
  <2>4. CASE Enter(t) \/ EnterFails(t)
    BY <1>0, <2>4 DEF Enter, EnterFails
  <2>5. QED BY <1>3, <2>1, <2>2, <2>3, <2>4 DEF Creation
<1>4. ASSUME NEW t \in Threads, Exit(t) PROVE Typed'
  <2>1. CASE Leave(t)
    BY <1>0, <2>1 DEF Leave
  <2>2. CASE Last(t) \/ Restore(t)
    BY <1>0, <2>2 DEF Last, Restore
  <2>3. CASE ExitGroup(t)
    BY <1>0, <2>3 DEF ExitGroup
  <2>4. QED BY <1>4, <2>1, <2>2, <2>3 DEF Exit
<1>5. CASE MainReturns
  BY <1>0, <1>5 DEF MainReturns
<1>6. CASE UNCHANGED vars
  BY <1>0, <1>6 DEF vars
<1>7. QED BY <1>1, <1>2, <1>3, <1>4, <1>5, <1>6 DEF Next

\* A move of threads that stays out of the table, or stays where it is.
LEMMA TableKept ==
  ASSUME TableInv, tcs' = tcs, idx' = idx,
         \A t \in Threads :
           /\ pc'[t] \in {"absent", "new", "host", "phantom"} =>
                pc[t] \in {"absent", "new", "host", "phantom"}
           /\ pc'[t] \in {"take", "fill", "creating", "exiting"} => idx[t] \in Entries
           /\ pc'[t] = "scan" => pc[t] = "scan" \/ idx[t] = 0
           /\ pc'[t] = "full" => pc[t] = "full"
           /\ pc[t] \in Settled => pc'[t] \in Settled
  PROVE  TableInv'
<1>1. ASSUME NEW t \in Threads, pc'[t] = "scan", NEW e \in Entries, e < idx'[t]
      PROVE  tcs'[e] # NULL
  BY <1>1 DEF TableInv, Entries
<1>2. QED BY <1>1 DEF TableInv

LEMMA TableStep == ASSUME IInv, [Next]_vars PROVE TableInv'
<1> USE DEF Goto, Settled
<1>0. Typed /\ TableInv /\ Entries \subseteq Nat
  BY DEF IInv, Entries
<1>1. ASSUME NEW t \in Threads, Skip(t) PROVE TableInv'
  <2>1. /\ tcs' = tcs /\ pc' = pc /\ idx[t] \in Entries /\ tcs[idx[t]] # NULL /\ pc[t] = "scan"
        /\ \A u \in Threads : idx'[u] = IF u = t THEN idx[t] + 1 ELSE idx[u]
    BY <1>0, <1>1 DEF Skip, At, Typed
  <2>2. ASSUME NEW u \in Threads, pc[u] = "scan", NEW e \in Entries, e < idx'[u]
        PROVE  tcs[e] # NULL
    <3>1. CASE u = t
      <4>1. e < idx[t] \/ e = idx[t]
        BY <2>1, <2>2, <3>1 DEF Entries
      <4>2. QED BY <1>0, <2>1, <4>1 DEF TableInv
    <3>2. CASE u # t
      BY <1>0, <2>1, <2>2, <3>2 DEF TableInv
    <3>3. QED BY <3>1, <3>2
  <2>3. ASSUME NEW u \in Threads, pc[u] \in {"take", "fill", "creating", "exiting"}
        PROVE  idx'[u] \in Entries
    BY <1>0, <2>1, <2>3 DEF TableInv
  <2>4. QED BY <1>0, <2>1, <2>2, <2>3 DEF TableInv
<1>2. ASSUME NEW t \in Threads, SeeNone(t) PROVE TableInv'
  <2>1. /\ tcs' = tcs /\ idx' = idx /\ idx[t] = MaxThreads /\ pc[t] = "scan"
        /\ \A u \in Threads : pc'[u] = IF u = t THEN "full" ELSE pc[u]
    BY <1>0, <1>2 DEF SeeNone, At, Typed, Entries
  <2>2. \A e \in Entries : tcs[e] # NULL
    BY <1>0, <2>1 DEF TableInv, Entries
  <2>3. QED BY <1>0, <2>1, <2>2 DEF TableInv
<1>3. ASSUME NEW t \in Threads, TakeTcs(t) PROVE TableInv'
  <2>1. /\ idx' = idx /\ idx[t] \in Entries /\ pc[t] = "take"
        /\ \A u \in Threads : pc'[u] = IF u = t THEN "fill" ELSE pc[u]
        /\ \A e \in Entries : tcs'[e] = IF e = idx[t] THEN t ELSE tcs[e]
    BY <1>0, <1>3 DEF TakeTcs, At, Typed, TableInv
  <2>2. \A e \in Entries : tcs[e] # t
    BY <1>0, <2>1 DEF TableInv
  <2>3. \A e, f \in Entries : tcs'[e] # NULL /\ tcs'[e] = tcs'[f] => e = f
    BY <1>0, <2>1, <2>2 DEF TableInv
  <2>4. \A e \in Entries, u \in Threads : tcs'[e] = u => pc'[u] \in Settled
    BY <1>0, <2>1 DEF TableInv
  <2>5. \A e \in Entries : tcs[e] # NULL => tcs'[e] # NULL
    BY <2>1
  <2>6. QED BY <1>0, <2>1, <2>3, <2>4, <2>5 DEF TableInv
<1>4. ASSUME NEW t \in Threads, NEW l \in {"creating", "exiting"}, Find(t, l) PROVE TableInv'
  <2>1. /\ tcs' = tcs /\ idx'[t] \in Entries /\ pc[t] = "run"
        /\ \A u \in Threads : u # t => idx'[u] = idx[u]
        /\ \A u \in Threads : pc'[u] = IF u = t THEN l ELSE pc[u]
    BY <1>0, <1>4 DEF Find, At, Typed
  <2>2. QED BY <1>0, <2>1 DEF TableInv
<1>5. ASSUME NEW t \in Threads, NEW l \in {"take", "run", "lost", "create", "exit", "left",
                                           "last", "ending"},
             tcs' = tcs, idx' = idx, Goto(t, l), l = "take" => idx[t] \in Entries,
             l # "take" => pc[t] \in Settled, l = "take" => pc[t] = "scan"
      PROVE  TableInv'
  <2>1. \A u \in Threads : pc'[u] = IF u = t THEN l ELSE pc[u]
    BY <1>0, <1>5 DEF Typed
  <2>2. QED BY <1>0, <1>5, <2>1, TableKept DEF TableInv
<1>6. ASSUME NEW t \in Threads, SeeFree(t) PROVE TableInv'
  BY <1>5, <1>6 DEF SeeFree, At
<1>7. ASSUME NEW t \in Threads, FillFs(t) \/ FindNone(t) PROVE TableInv'
  BY <1>5, <1>7 DEF FillFs, FindNone, At
<1>8. ASSUME NEW t \in Threads, Self(t, "creating", "create") \/ Self(t, "exiting", "exit")
      PROVE  TableInv'
  BY <1>5, <1>8 DEF Self, At
<1>9. ASSUME NEW t \in Threads, Leave(t) \/ Last(t) \/ Restore(t) PROVE TableInv'
  BY <1>5, <1>9 DEF Leave, Last, Restore, At
<1>10. ASSUME NEW t \in Threads, NEW c \in Threads, Count(t, c) PROVE TableInv'
  <2>1. /\ tcs' = tcs /\ idx' = idx /\ pc[t] = "create" /\ pc[c] = "absent"
        /\ \A u \in Threads : pc'[u] = IF u = c THEN "new" ELSE IF u = t THEN "clone" ELSE pc[u]
    BY <1>0, <1>10 DEF Count, At, Typed
  <2>2. QED BY <1>0, <2>1, TableKept DEF TableInv
<1>11. ASSUME NEW t \in Threads, Clone(t) \/ CloneFails(t) \/ CloneUnnoticed(t) PROVE TableInv'
  <2>0. child[t] \in Threads /\ pc[child[t]] = "new" /\ pc[t] = "clone"
    BY <1>11 DEF Clone, CloneFails, CloneUnnoticed, At, IInv, ChildInv
  <2>1. /\ tcs' = tcs /\ idx' = idx
        /\ pc'[child[t]] \in {"host", "absent", "phantom"} /\ pc'[t] = "run"
        /\ \A u \in Threads : u \notin {t, child[t]} => pc'[u] = pc[u]
    BY <1>0, <1>11, <2>0 DEF Clone, CloneFails, CloneUnnoticed, Typed
  <2>2. QED BY <1>0, <2>0, <2>1, TableKept DEF TableInv
<1>12. ASSUME NEW t \in Threads, Enter(t) PROVE TableInv'
  <2>1. /\ tcs' = tcs /\ idx' = idx /\ pc[t] = "host"
        /\ \A u \in Threads : pc'[u] = IF u = t THEN "scan" ELSE pc[u]
    BY <1>0, <1>12 DEF Enter, At, Typed
  <2>2. QED BY <1>0, <2>1, TableKept DEF TableInv
<1>13. ASSUME NEW t \in Threads, EnterFails(t) \/ ExitGroup(t) \/ MainReturns \/ UNCHANGED vars
       PROVE  TableInv'
  BY <1>0, <1>13 DEF EnterFails, ExitGroup, MainReturns, vars, TableInv
<1>14. QED
  BY <1>1, <1>2, <1>3, <1>4, <1>6, <1>7, <1>8, <1>9, <1>10, <1>11, <1>12, <1>13
     DEF Next, Register, Lookup, Creation, Exit

\* A step that moves threads and keeps what they took and found.
LEMMA OwnKept ==
  ASSUME Typed, OwnInv, UNCHANGED <<tcs, fs, idx, overlapped>>,
         \A t \in Threads :
           /\ pc'[t] \in {"fill", "creating", "exiting"} => pc'[t] = pc[t]
           /\ Registered(t)' => Registered(t)
           /\ pc'[t] \in {"create", "exit"} => pc'[t] = pc[t] /\ self'[t] = self[t]
           /\ pc'[t] = "lost" => pc'[t] = pc[t]
  PROVE  OwnInv'
  BY DEF OwnInv

LEMMA OwnStep == ASSUME IInv, [Next]_vars PROVE OwnInv'
<1> USE DEF Goto
<1> DEFINE Fine(t) ==
      /\ pc[t] \in {"fill", "creating", "exiting"} => tcs[idx[t]] = t
      /\ Registered(t) => \E e \in Entries : tcs[e] = t /\ fs[e] = t
      /\ pc[t] \in {"create", "exit"} => self[t] = t
      /\ pc[t] # "lost"
<1>0. /\ Typed /\ TableInv /\ ChildInv /\ OwnInv
      /\ overlapped \in BOOLEAN
      /\ ~overlapped => \A t \in Threads : Fine(t)
  BY DEF IInv, Typed, OwnInv
<1>1. ASSUME NEW t \in Threads, Skip(t) PROVE OwnInv'
  <2>1. /\ UNCHANGED <<tcs, fs, pc, self, overlapped>> /\ pc[t] = "scan"
        /\ \A u \in Threads : u # t => idx'[u] = idx[u]
    BY <1>0, <1>1 DEF Skip, At, Typed
  <2>2. QED BY <1>0, <2>1 DEF OwnInv, Registered
<1>2. ASSUME NEW t \in Threads, TakeTcs(t) PROVE OwnInv'
  <2> SUFFICES ASSUME ~overlapped', NEW u \in Threads PROVE Fine(u)'
    BY DEF OwnInv
  <2>1. /\ UNCHANGED <<fs, idx, self>> /\ idx[t] \in Entries /\ pc[t] = "take"
        /\ pc' = [pc EXCEPT ![t] = "fill"]
        /\ tcs' = [tcs EXCEPT ![idx[t]] = t]
        /\ ~overlapped /\ tcs[idx[t]] = NULL
    BY <1>0, <1>2 DEF TakeTcs, At, TableInv
  <2>2. CASE u = t
    BY <1>0, <2>1, <2>2 DEF Typed, Registered
  <2>3. CASE u # t
    <3>1. pc'[u] = pc[u] /\ \A e \in Entries : tcs[e] = u => tcs'[e] = u
      BY <1>0, <2>1, <2>3 DEF Typed
    <3>2. pc[u] \in {"fill", "creating", "exiting"} => idx[u] \in Entries
      BY <1>0 DEF TableInv
    <3>3. QED BY <1>0, <2>1, <3>1, <3>2 DEF Registered
  <2>4. QED BY <2>2, <2>3
<1>3. ASSUME NEW t \in Threads, FillFs(t) PROVE OwnInv'
  <2> SUFFICES ASSUME ~overlapped', NEW u \in Threads PROVE Fine(u)'
    BY DEF OwnInv
  <2>1. /\ UNCHANGED <<tcs, idx, self>> /\ idx[t] \in Entries /\ pc[t] = "fill"
        /\ pc' = [pc EXCEPT ![t] = "run"]
        /\ fs' = [fs EXCEPT ![idx[t]] = t]
        /\ ~overlapped /\ tcs[idx[t]] = t
    BY <1>0, <1>3 DEF FillFs, At, TableInv
  <2>2. CASE u = t
    <3>1. pc'[u] = "run" /\ fs'[idx[t]] = t
      BY <1>0, <2>1, <2>2 DEF Typed
    <3>2. QED BY <2>1, <2>2, <3>1
  <2>3. CASE u # t
    <3>1. pc'[u] = pc[u] /\ \A e \in Entries : tcs[e] = u => fs'[e] = fs[e]
      BY <1>0, <2>1, <2>3 DEF Typed
    <3>2. QED BY <1>0, <2>1, <3>1 DEF Registered
  <2>4. QED BY <2>2, <2>3
<1>4. ASSUME NEW t \in Threads, NEW l \in {"creating", "exiting"}, Find(t, l) PROVE OwnInv'
  <2> SUFFICES ASSUME ~overlapped', NEW u \in Threads PROVE Fine(u)'
    BY DEF OwnInv
  <2>1. /\ UNCHANGED <<tcs, fs, self>> /\ pc[t] = "run" /\ ~overlapped
        /\ tcs[idx'[t]] = t
        /\ \A v \in Threads : v # t => idx'[v] = idx[v]
        /\ \A v \in Threads : pc'[v] = IF v = t THEN l ELSE pc[v]
    BY <1>0, <1>4 DEF Find, First, At, Typed
  <2>2. CASE u = t
    BY <1>0, <2>1, <2>2 DEF Registered
  <2>3. CASE u # t
    BY <1>0, <2>1, <2>3 DEF Registered
  <2>4. QED BY <2>2, <2>3
<1>5. ASSUME NEW t \in Threads, FindNone(t) PROVE OwnInv'
  <2> SUFFICES ASSUME ~overlapped' PROVE FALSE
    BY DEF OwnInv
  <2>1. pc[t] = "run" /\ ~overlapped /\ \A e \in Entries : tcs[e] # t
    BY <1>5 DEF FindNone, At
  <2>2. QED BY <1>0, <2>1 DEF Registered
<1>6. ASSUME NEW t \in Threads, NEW l \in {"creating", "exiting"}, NEW m \in {"create", "exit"},
             Self(t, l, m)
      PROVE  OwnInv'
  <2> SUFFICES ASSUME ~overlapped', NEW u \in Threads PROVE Fine(u)'
    BY DEF OwnInv
  <2>1. /\ UNCHANGED <<tcs, fs, idx>> /\ pc[t] \in {"creating", "exiting"} /\ ~overlapped
        /\ \A v \in Threads : self'[v] = IF v = t THEN fs[idx[t]] ELSE self[v]
        /\ \A v \in Threads : pc'[v] = IF v = t THEN m ELSE pc[v]
    BY <1>0, <1>6 DEF Self, At, Typed
  <2>2. CASE u = t
    <3>1. tcs[idx[t]] = t /\ idx[t] \in Entries
      BY <1>0, <2>1 DEF TableInv
    <3>2. PICK e \in Entries : tcs[e] = t /\ fs[e] = t
      BY <1>0, <2>1 DEF Registered
    <3>3. e = idx[t]
      BY <1>0, <3>1, <3>2 DEF TableInv
    <3>4. self'[u] = u
      BY <2>1, <2>2, <3>2, <3>3
    <3>5. pc'[u] \in {"create", "exit"}
      BY <2>1, <2>2
    <3>6. QED BY <2>1, <3>2, <3>4, <3>5, <2>2
  <2>3. CASE u # t
    BY <1>0, <2>1, <2>3 DEF Registered
  <2>4. QED BY <2>2, <2>3
<1>7. ASSUME NEW t \in Threads,
             \/ SeeFree(t) \/ SeeNone(t) \/ Enter(t) \/ Leave(t) \/ Last(t) \/ Restore(t)
      PROVE  OwnInv'
  <2>1. UNCHANGED <<tcs, fs, idx, self, overlapped>>
    BY <1>7 DEF SeeFree, SeeNone, Enter, Leave, Last, Restore
  <2>2. PICK l \in {"take", "full", "scan", "left", "last", "ending"} : pc' = [pc EXCEPT ![t] = l]
    BY <1>7 DEF SeeFree, SeeNone, Enter, Leave, Last, Restore
  <2>3. l \in {"left", "last", "ending"} => pc[t] \in {"exit", "last"}
    BY <1>0, <1>7, <2>2 DEF SeeFree, SeeNone, Enter, Leave, Last, Restore, At, Typed
  <2>4. QED BY <1>0, <2>1, <2>2, <2>3, OwnKept DEF Registered, Typed
<1>8. ASSUME NEW t \in Threads, NEW c \in Threads, Count(t, c) PROVE OwnInv'
  <2>1. /\ UNCHANGED <<tcs, fs, idx, self, overlapped>> /\ pc[t] = "create" /\ pc[c] = "absent"
        /\ \A u \in Threads : pc'[u] = IF u = c THEN "new" ELSE IF u = t THEN "clone" ELSE pc[u]
    BY <1>0, <1>8 DEF Count, At, Typed
  <2>2. QED BY <1>0, <2>1, OwnKept DEF Registered
<1>9. ASSUME NEW t \in Threads, Clone(t) \/ CloneFails(t) \/ CloneUnnoticed(t) PROVE OwnInv'
  <2>0. child[t] \in Threads /\ pc[child[t]] = "new" /\ pc[t] = "clone"
    BY <1>9, <1>0 DEF Clone, CloneFails, CloneUnnoticed, At, ChildInv
  <2>1. /\ UNCHANGED <<tcs, fs, idx, self, overlapped>>
        /\ pc'[child[t]] \in {"host", "absent", "phantom"} /\ pc'[t] = "run"
        /\ \A u \in Threads : u \notin {t, child[t]} => pc'[u] = pc[u]
    BY <1>0, <1>9, <2>0 DEF Clone, CloneFails, CloneUnnoticed, Typed
  <2>2. QED BY <1>0, <2>0, <2>1, OwnKept DEF Registered
<1>10. ASSUME NEW t \in Threads, EnterFails(t) \/ ExitGroup(t) \/ MainReturns \/ UNCHANGED vars
       PROVE  OwnInv'
  <2>1. UNCHANGED <<tcs, fs, idx, self, overlapped, pc>>
    BY <1>10 DEF EnterFails, ExitGroup, MainReturns, vars
  <2>2. QED BY <1>0, <2>1 DEF OwnInv, Registered
<1>11. QED
  BY <1>1, <1>2, <1>3, <1>4, <1>5, <1>6, <1>7, <1>8, <1>9, <1>10
     DEF Next, Register, Lookup, Creation, Exit

LEMMA ChildStep == ASSUME IInv, [Next]_vars PROVE ChildInv'
<1> USE DEF Goto
<1>0. Typed /\ ChildInv
  BY DEF IInv
\* Steps that leave creators and the threads they create alone.
<1>1. ASSUME \A u \in Threads : /\ pc'[u] = "clone" => pc[u] = "clone" /\ child'[u] = child[u]
                                /\ pc[u] = "new" => pc'[u] = "new"
      PROVE  ChildInv'
  BY <1>0, <1>1 DEF ChildInv
<1>2. ASSUME NEW t \in Threads,
             \/ Register(t) \/ Lookup(t) \/ Exit(t) \/ Enter(t)
      PROVE  ChildInv'
  <2>1. CASE Skip(t) \/ ExitGroup(t)
    BY <1>1, <2>1 DEF Skip, ExitGroup
  <2>2. CASE ~Skip(t) /\ ~ExitGroup(t)
    <3>1. \E l \in Labels \ {"clone"} : pc' = [pc EXCEPT ![t] = l]
      BY <1>2, <2>2
         DEF Register, SeeFree, SeeNone, TakeTcs, FillFs, Lookup, Find, FindNone, Self, Exit,
             Leave, Last, Restore, Enter, Labels
    <3>2. child' = child /\ pc[t] # "new"
      BY <1>2, <2>2
         DEF Register, SeeFree, SeeNone, TakeTcs, FillFs, Lookup, Find, FindNone, Self, Exit,
             Leave, Last, Restore, Enter, At
    <3>3. QED BY <1>0, <1>1, <3>1, <3>2 DEF Typed
  <2>3. QED BY <2>1, <2>2
<1>3. ASSUME NEW t \in Threads, NEW c \in Threads, Count(t, c) PROVE ChildInv'
  <2>1. /\ pc[t] = "create" /\ pc[c] = "absent"
        /\ \A u \in Threads : pc'[u] = IF u = c THEN "new" ELSE IF u = t THEN "clone" ELSE pc[u]
        /\ \A u \in Threads : child'[u] = IF u = t THEN c ELSE child[u]
    BY <1>0, <1>3 DEF Count, At, Typed
  <2>2. ASSUME NEW u \in Threads, pc'[u] = "clone"
        PROVE  /\ child'[u] \in Threads /\ pc'[child'[u]] = "new"
               /\ u # t => child'[u] # c
    BY <1>0, <2>1, <2>2 DEF ChildInv
  <2>3. ASSUME NEW u \in Threads, NEW v \in Threads, pc'[u] = "clone", pc'[v] = "clone",
               child'[u] = child'[v]
        PROVE  u = v
    BY <1>0, <2>1, <2>2, <2>3 DEF ChildInv
  <2>4. QED BY <2>2, <2>3 DEF ChildInv
<1>4. ASSUME NEW t \in Threads, Clone(t) \/ CloneFails(t) \/ CloneUnnoticed(t) PROVE ChildInv'
  <2>1. child[t] \in Threads /\ pc[child[t]] = "new" /\ pc[t] = "clone"
    BY <1>4, <1>0 DEF Clone, CloneFails, CloneUnnoticed, At, ChildInv
  <2>2. /\ pc'[child[t]] \in {"host", "absent", "phantom"} /\ pc'[t] = "run"
        /\ \A u \in Threads : u \notin {t, child[t]} => pc'[u] = pc[u]
        /\ \A u \in Threads : u # t => child'[u] = child[u]
    BY <1>0, <1>4, <2>1 DEF Clone, CloneFails, CloneUnnoticed, Typed
  <2>3. ASSUME NEW u \in Threads, pc'[u] = "clone"
        PROVE  u # t /\ pc[u] = "clone" /\ child'[u] = child[u] /\ pc'[child[u]] = "new"
               /\ child[u] \in Threads
    BY <1>0, <2>1, <2>2, <2>3 DEF ChildInv
  <2>4. QED BY <1>0, <2>3 DEF ChildInv
<1>5. ASSUME NEW t \in Threads, EnterFails(t) \/ MainReturns \/ UNCHANGED vars PROVE ChildInv'
  BY <1>1, <1>5 DEF EnterFails, MainReturns, vars
<1>6. QED BY <1>2, <1>3, <1>4, <1>5 DEF Next, Creation

\* A thread that is the last has nobody left to race with.
LEMMA Alone ==
  ASSUME LastIsAlone, NEW t \in Threads, NEW u \in Threads,
         pc[u] \in {"last", "ending"}, pc[t] \notin {"absent", "left"}
  PROVE  t = u
  BY DEF LastIsAlone

LEMMA LiveIsFinite == IsFiniteSet(Live) /\ Cardinality(Live) \in Nat
<1>1. IsFiniteSet(Live)
  BY FS_Subset DEF Live
<1>2. QED BY <1>1, FS_CardinalityType

\* The thread that finds the count at zero is the only one counted.
LEMMA LastOne ==
  ASSUME IInv, NEW t \in Threads, pc[t] = "exit", minusOne = 0
  PROVE  /\ \A u \in Threads \ {t} : pc[u] \in {"absent", "left"}
         /\ Lasts = 0
<1>1. \A u \in Threads : pc[u] \notin {"last", "ending"}
  BY Alone DEF IInv
<1>2. Lasts = 0
  BY <1>1 DEF Lasts
<1>3. Cardinality(Live) = 1
  BY <1>2, LiveIsFinite DEF IInv, CountInv
<1>4. PICK x : Live = {x}
  BY <1>3, LiveIsFinite, FS_Singleton
<1>5. t \in Live
  BY DEF Live
<1>6. QED BY <1>2, <1>4, <1>5 DEF Live

\* Steps that change neither who is counted nor who is last.
LEMMA CountKept ==
  ASSUME CountInv, LastIsAlone, minusOne' = minusOne,
         \A t \in Threads :
           /\ pc'[t] \in {"absent", "left"} <=> pc[t] \in {"absent", "left"}
           /\ pc'[t] = "last" <=> pc[t] = "last"
           /\ pc'[t] = "ending" <=> pc[t] = "ending"
  PROVE  CountInv' /\ LastIsAlone'
<1>1. Live' = Live /\ Lasts' = Lasts
  BY DEF Live, Lasts
<1>2. QED BY <1>1 DEF CountInv, LastIsAlone

LEMMA CountStep == ASSUME IInv, [Next]_vars PROVE CountInv' /\ LastIsAlone'
<1> USE DEF Goto
<1>0. /\ Typed /\ ChildInv /\ CountInv /\ LastIsAlone
      /\ minusOne = Cardinality(Live) - 1 - Lasts
      /\ IsFiniteSet(Live) /\ Cardinality(Live) \in Nat
      /\ Lasts \in {0, 1}
  BY LiveIsFinite DEF IInv, CountInv, Lasts
<1>1. ASSUME NEW t \in Threads, Register(t) \/ Lookup(t) \/ Enter(t)
      PROVE  CountInv' /\ LastIsAlone'
  <2>1. minusOne' = minusOne
    BY <1>1 DEF Register, Skip, SeeFree, SeeNone, TakeTcs, FillFs, Lookup, Find, FindNone, Self,
                Enter
  <2>2. CASE Skip(t)
    BY <1>0, <2>1, <2>2, CountKept DEF Skip
  <2>3. CASE ~Skip(t)
    <3>1. /\ pc[t] \notin {"absent", "left", "last", "ending"}
          /\ \E l \in Labels \ {"absent", "left", "last", "ending"} : pc' = [pc EXCEPT ![t] = l]
      BY <1>1, <2>3
         DEF Register, SeeFree, SeeNone, TakeTcs, FillFs, Lookup, Find, FindNone, Self, Enter,
             At, Labels
    <3>2. QED BY <1>0, <2>1, <3>1, CountKept DEF Typed
  <2>4. QED BY <2>2, <2>3
<1>2. ASSUME NEW t \in Threads, NEW c \in Threads, Count(t, c) PROVE CountInv' /\ LastIsAlone'
  <2>1. /\ pc[t] = "create" /\ pc[c] = "absent" /\ minusOne' = minusOne + 1
        /\ \A u \in Threads : pc'[u] = IF u = c THEN "new" ELSE IF u = t THEN "clone" ELSE pc[u]
    BY <1>0, <1>2 DEF Count, At, Typed
  <2>2. \A u \in Threads : pc[u] \notin {"last", "ending"}
    BY <1>0, <2>1, Alone
  <2>3. \A u \in Threads : pc'[u] \notin {"last", "ending"}
    BY <2>1, <2>2
  <2>4. Live' = Live \cup {c} /\ c \notin Live
    BY <2>1 DEF Live
  <2>5. Cardinality(Live \cup {c}) = Cardinality(Live) + 1
    <3>1. IsFiniteSet(Live)
      BY <1>0
    <3>2. QED BY <2>4, <3>1, FS_AddElement
  <2>6. Lasts = 0 /\ Lasts' = 0
    BY <2>2, <2>3 DEF Lasts
  <2>7. CountInv'
    BY <1>0, <2>1, <2>4, <2>5, <2>6 DEF CountInv
  <2>8. QED BY <2>3, <2>7 DEF LastIsAlone
<1>3. ASSUME NEW t \in Threads, Clone(t) \/ CloneUnnoticed(t) PROVE CountInv' /\ LastIsAlone'
  <2>1. /\ child[t] \in Threads /\ pc[child[t]] = "new" /\ pc[t] = "clone"
        /\ minusOne' = minusOne
    BY <1>3, <1>0 DEF Clone, CloneUnnoticed, At, ChildInv
  <2>2. /\ pc'[child[t]] \in {"host", "phantom"} /\ pc'[t] = "run"
        /\ \A u \in Threads : u \notin {t, child[t]} => pc'[u] = pc[u]
    BY <1>0, <1>3, <2>1 DEF Clone, CloneUnnoticed, Typed
  <2>3. QED BY <1>0, <2>1, <2>2, CountKept
<1>4. ASSUME NEW t \in Threads, CloneFails(t) PROVE CountInv' /\ LastIsAlone'
  <2>1. /\ child[t] \in Threads /\ pc[child[t]] = "new" /\ pc[t] = "clone"
        /\ minusOne' = minusOne - 1
    BY <1>4, <1>0 DEF CloneFails, At, ChildInv
  <2>2. /\ pc'[child[t]] = "absent" /\ pc'[t] = "run"
        /\ \A u \in Threads : u \notin {t, child[t]} => pc'[u] = pc[u]
    BY <1>0, <1>4, <2>1 DEF CloneFails, Typed
  <2>3. \A u \in Threads : pc[u] \notin {"last", "ending"}
    BY <1>0, <2>1, Alone
  <2>4. \A u \in Threads : pc'[u] \notin {"last", "ending"}
    BY <2>2, <2>3
  <2>5. Live' = Live \ {child[t]} /\ child[t] \in Live
    BY <2>1, <2>2 DEF Live
  <2>6. Cardinality(Live \ {child[t]}) = Cardinality(Live) - 1
    <3>1. IsFiniteSet(Live)
      BY <1>0
    <3>2. QED BY <2>5, <3>1, FS_RemoveElement
  <2>7. Lasts = 0 /\ Lasts' = 0
    BY <2>3, <2>4 DEF Lasts
  <2>8. CountInv'
    BY <1>0, <2>1, <2>5, <2>6, <2>7 DEF CountInv
  <2>9. QED BY <2>4, <2>8 DEF LastIsAlone
<1>5. ASSUME NEW t \in Threads, Leave(t) PROVE CountInv' /\ LastIsAlone'
  <2>1. /\ pc[t] = "exit" /\ minusOne' = minusOne - 1
        /\ \A u \in Threads : pc'[u] = IF u = t THEN "left" ELSE pc[u]
    BY <1>0, <1>5 DEF Leave, At, Typed
  <2>2. \A u \in Threads : pc[u] \notin {"last", "ending"}
    BY <1>0, <2>1, Alone
  <2>3. \A u \in Threads : pc'[u] \notin {"last", "ending"}
    BY <2>1, <2>2
  <2>4. Live' = Live \ {t} /\ t \in Live
    BY <2>1 DEF Live
  <2>5. Cardinality(Live \ {t}) = Cardinality(Live) - 1
    <3>1. IsFiniteSet(Live)
      BY <1>0
    <3>2. QED BY <2>4, <3>1, FS_RemoveElement
  <2>6. Lasts = 0 /\ Lasts' = 0
    BY <2>2, <2>3 DEF Lasts
  <2>7. CountInv'
    BY <1>0, <2>1, <2>4, <2>5, <2>6 DEF CountInv
  <2>8. QED BY <2>3, <2>7 DEF LastIsAlone
<1>6. ASSUME NEW t \in Threads, Last(t) PROVE CountInv' /\ LastIsAlone'
  <2>1. /\ pc[t] = "exit" /\ minusOne = 0 /\ minusOne' = -1
        /\ \A u \in Threads : pc'[u] = IF u = t THEN "last" ELSE pc[u]
    BY <1>0, <1>6 DEF Last, At, Typed
  <2>2. Lasts = 0 /\ \A u \in Threads \ {t} : pc[u] \in {"absent", "left"}
    BY <2>1, LastOne
  <2>3. Live' = Live
    BY <2>1 DEF Live
  <2>4. Lasts' = 1
    BY <2>1 DEF Lasts
  <2>5. CountInv'
    BY <1>0, <2>1, <2>2, <2>3, <2>4 DEF CountInv
  <2>6. LastIsAlone'
    BY <2>1, <2>2 DEF LastIsAlone
  <2>7. QED BY <2>5, <2>6
<1>7. ASSUME NEW t \in Threads, Restore(t) PROVE CountInv' /\ LastIsAlone'
  <2>1. /\ pc[t] = "last" /\ minusOne' = 0
        /\ \A u \in Threads : pc'[u] = IF u = t THEN "ending" ELSE pc[u]
    BY <1>0, <1>7 DEF Restore, At, Typed
  <2>2. \A u \in Threads \ {t} : pc[u] \in {"absent", "left"}
    BY <1>0, <2>1 DEF LastIsAlone
  <2>3. Live = {t} /\ Live' = {t}
    BY <2>1, <2>2 DEF Live
  <2>4. Cardinality({t}) = 1
    BY FS_Singleton
  <2>5. Lasts' = 0
    BY <2>1, <2>2 DEF Lasts
  <2>6. CountInv'
    BY <2>1, <2>3, <2>4, <2>5 DEF CountInv
  <2>7. LastIsAlone'
    BY <2>1, <2>2 DEF LastIsAlone
  <2>8. QED BY <2>6, <2>7
<1>8. ASSUME NEW t \in Threads, EnterFails(t) \/ ExitGroup(t) \/ MainReturns \/ UNCHANGED vars
      PROVE  CountInv' /\ LastIsAlone'
  BY <1>0, <1>8, CountKept DEF EnterFails, ExitGroup, MainReturns, vars
<1>9. QED
  BY <1>1, <1>2, <1>3, <1>4, <1>5, <1>6, <1>7, <1>8 DEF Next, Creation, Exit

\* The inductive invariant.
THEOREM Invariance == Spec => []IInv
<1>1. IInv /\ [Next]_vars => IInv'
  BY TypeStep, TableStep, OwnStep, ChildStep, CountStep DEF IInv
<1>2. QED BY <1>1, InitInv, PTL DEF Spec

\* The types of the state: the count stays within -1 and the number of threads.
THEOREM Typing == Spec => []TypeOK
<1>1. IInv => TypeOK
  <2> SUFFICES ASSUME IInv PROVE TypeOK
    OBVIOUS
  <2>1. Cardinality(Threads) \in Nat /\ Cardinality(Live) <= Cardinality(Threads)
    BY FS_CardinalityType, FS_Subset DEF Live
  <2>2. minusOne \in -1 .. Cardinality(Threads)
    <3>1. CASE \E t \in Threads : pc[t] = "last"
      <4>1. PICK t \in Threads : pc[t] = "last"
        BY <3>1
      <4>2. t \in Live
        BY <4>1 DEF Live
      <4>3. Cardinality(Live) # 0
        BY <4>2, LiveIsFinite, FS_EmptySet
      <4>4. Lasts = 1
        BY <3>1 DEF Lasts
      <4>5. QED BY <2>1, <4>3, <4>4, LiveIsFinite DEF IInv, CountInv
    <3>2. CASE ~ \E t \in Threads : pc[t] = "last"
      <4>1. Lasts = 0
        BY <3>2 DEF Lasts
      <4>2. QED BY <2>1, <4>1, LiveIsFinite DEF IInv, CountInv
    <3>3. QED BY <3>1, <3>2
  <2>3. QED BY <2>2 DEF IInv, Typed, TypeOK, Labels
<1>2. QED BY <1>1, Invariance, PTL

\* libc.threads_minus_1 is one less than the threads that are there, are on their
\* way or failed unnoticed, for any number of creations, failures and exits.
THEOREM CountIsExact == Spec => []CountExact
<1>1. IInv => CountExact
  <2> SUFFICES ASSUME IInv, \A t \in Threads : pc[t] # "last"
               PROVE  minusOne = Cardinality(Live) - 1
    BY DEF CountExact, Live
  <2>1. Lasts = 0
    BY DEF Lasts
  <2>2. QED BY <2>1, LiveIsFinite DEF IInv, CountInv
<1>2. QED BY <1>1, Invariance, PTL

\* The thread that takes libc.threads_minus_1 below zero, and so ends the process
\* with exit(0), is the only thread there is or will be.
THEOREM OnlyTheLastEnds == Spec => []LastIsAlone
  BY Invariance, PTL DEF IInv

\* __pthread_self finds the caller's own struct pthread, for any number of
\* threads, unless two registrations in __set_thread_area overlapped.
THEOREM Identity == Spec => []IdentityUnlessOverlap
<1>1. IInv => IdentityUnlessOverlap
  <2> SUFFICES ASSUME IInv, ~overlapped, NEW t \in Threads
               PROVE  /\ Registered(t) => \E e \in Entries : First(t, e) /\ fs[e] = t
                      /\ pc[t] \in {"create", "exit"} => self[t] = t
                      /\ pc[t] # "lost"
    BY DEF IdentityUnlessOverlap
  <2>1. ASSUME Registered(t) PROVE \E e \in Entries : First(t, e) /\ fs[e] = t
    <3>1. PICK e \in Entries : tcs[e] = t /\ fs[e] = t
      BY <2>1 DEF IInv, OwnInv
    <3>2. \A f \in Entries : tcs[f] = t => e = f
      BY <3>1 DEF IInv, TableInv
    <3>3. QED BY <3>1, <3>2 DEF First, Entries
  <2>2. QED BY <2>1 DEF IInv, OwnInv
<1>2. QED BY <1>1, Invariance, PTL

\* Who finds fs_table full has as many threads besides it in the enclave as the
\* table has entries.
LEMMA Pigeons ==
  ASSUME IInv, NEW t \in Threads, pc[t] = "full"
  PROVE  Cardinality(Inside \ {t}) >= MaxThreads
<1> DEFINE Others == Inside \ {t}
<1>1. ASSUME NEW e \in Entries PROVE tcs[e] \in Others
  <2>1. tcs[e] \in Threads
    BY DEF IInv, Typed, TableInv
  <2>2. pc[tcs[e]] \in Settled
    BY <2>1 DEF IInv, TableInv
  <2>3. QED BY <2>1, <2>2 DEF Inside, Settled
<1>2. tcs \in Injection(Entries, Others)
  <2>1. tcs \in [Entries -> Others]
    BY <1>1 DEF IInv, Typed
  <2>2. ASSUME NEW e \in Entries, NEW f \in Entries, tcs[e] = tcs[f] PROVE e = f
    BY <1>1, <2>2 DEF IInv, TableInv, Inside
  <2>3. QED BY <2>1, <2>2 DEF Injection, IsInjective
<1>3. IsFiniteSet(Others)
  BY FS_Subset DEF Inside
<1>4. Cardinality(Entries) = MaxThreads
  BY FS_Interval DEF Entries
<1>5. Cardinality(Entries) <= Cardinality(Others)
  BY <1>2, <1>3, FS_Injection
<1>6. Cardinality(Others) \in Nat
  BY <1>3, FS_CardinalityType
<1>7. QED BY <1>4, <1>5, <1>6

\* __set_thread_area asserts only where the threads in the enclave do outnumber
\* fs_table: no registration loses an entry for another.
THEOREM FullMeansFull == Spec => []FullNeedsThreads
<1>1. IInv => FullNeedsThreads
  BY Pigeons DEF FullNeedsThreads
<1>2. QED BY <1>1, Invariance, PTL
=============================================================================
