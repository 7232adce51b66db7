-------------------------- MODULE ObjectTableProofs --------------------------
(***************************************************************************)
(* Theorems about ObjectTable, for any threads, addresses and table size.  *)
(***************************************************************************)
EXTENDS ObjectTable, FiniteSetTheorems, TLAPS

USE MaxObjectsAssumption, NULLAssumption

\* An address that has entries has a first one.
HasFirst ==
  \A a \in Addrs : Matching(a) # {} => \E e \in Entries : IsFirst(e, Matching(a))

\* A thread that has a word has an entry.
Chosen == \A t \in Threads : stage[t] = "have" => out[t] \in Entries

\* The inductive invariant: Packed is what makes a new entry the last one, and
\* so keeps the first entry of every address first.
TableInv == TableTypeOK /\ Packed /\ HasFirst /\ WordIsOwn /\ Chosen

LEMMA TableInitInv == TableInit => TableInv
<1> SUFFICES ASSUME TableInit PROVE TableInv
  OBVIOUS
<1> USE DEF TableInit
<1>1. TableTypeOK
  BY DEF TableTypeOK
<1>2. Packed
  BY DEF Packed
<1>3. HasFirst
  BY DEF HasFirst, Matching
<1>4. WordIsOwn
  BY DEF WordIsOwn
<1>5. Chosen
  BY DEF Chosen
<1>6. QED BY <1>1, <1>2, <1>3, <1>4, <1>5 DEF TableInv

\* What a new entry does: it comes after all that are in use.
LEMMA NewEntry ==
  ASSUME TableInv, NEW t \in Threads, Set(t)
  PROVE  \E e \in Entries :
           /\ table[e] = NULL
           /\ \A f \in Entries : table[f] # NULL <=> f < e
           /\ table' = [table EXCEPT ![e] = key[t]]
           /\ out' = [out EXCEPT ![t] = e]
           /\ stage' = [stage EXCEPT ![t] = "have"]
           /\ key' = key
<1>1. PICK e \in Entries : /\ IsFirst(e, Matching(NULL))
                           /\ table' = [table EXCEPT ![e] = key[t]]
                           /\ Resolved(t, e)
  BY DEF Set
<1>2. table[e] = NULL
  BY <1>1 DEF IsFirst, Matching
<1>3. ASSUME NEW f \in Entries PROVE table[f] # NULL <=> f < e
  <2>1. CASE f < e
    BY <1>1, <2>1 DEF IsFirst, Matching, Entries
  <2>2. CASE f = e
    BY <1>2, <2>2 DEF Entries
  <2>3. CASE e < f
    BY <1>2, <2>3 DEF TableInv, Packed, Entries
  <2>4. QED BY <2>1, <2>2, <2>3 DEF Entries
<1>4. QED BY <1>1, <1>2, <1>3 DEF Set, Resolved

\* A step that leaves the table alone keeps every first entry first.
LEMMA SameFirst ==
  ASSUME table' = table
  PROVE  /\ \A a : Matching(a)' = Matching(a)
         /\ HasFirst => HasFirst'
         /\ Packed => Packed'
  BY DEF Matching, HasFirst, IsFirst, Packed

\* Set keeps the first entry of every address.
LEMMA SetKeepsFirst ==
  ASSUME TableInv, NEW t \in Threads, Set(t), NEW a \in Addrs, NEW e \in Entries,
         IsFirst(e, Matching(a))
  PROVE  IsFirst(e, Matching(a))'
<1>1. PICK g \in Entries : /\ table[g] = NULL
                           /\ \A f \in Entries : table[f] # NULL <=> f < g
                           /\ table' = [table EXCEPT ![g] = key[t]]
  BY NewEntry
<1>2. table[e] = a /\ a # NULL
  BY DEF IsFirst, Matching
<1>3. e < g
  BY <1>1, <1>2
<1>4. table'[e] = a
  BY <1>1, <1>2, <1>3 DEF TableInv, TableTypeOK, Entries
<1>5. ASSUME NEW f \in Entries, table'[f] = a PROVE e <= f
  <2>1. CASE f = g
    BY <2>1, <1>3 DEF Entries
  <2>2. CASE f # g
    <3>1. table[f] = a
      BY <1>1, <1>5, <2>2 DEF TableInv, TableTypeOK
    <3>2. QED BY <3>1 DEF IsFirst, Matching
  <2>3. QED BY <2>1, <2>2
<1>6. QED BY <1>4, <1>5 DEF IsFirst, Matching

LEMMA SetInv ==
  ASSUME TableInv, NEW t \in Threads, Set(t) PROVE TableInv'
<1>1. PICK g \in Entries : /\ table[g] = NULL
                           /\ \A f \in Entries : table[f] # NULL <=> f < g
                           /\ table' = [table EXCEPT ![g] = key[t]]
                           /\ out' = [out EXCEPT ![t] = g]
                           /\ stage' = [stage EXCEPT ![t] = "have"]
                           /\ key' = key
  BY NewEntry
<1>2. key[t] \in Addrs /\ key[t] # NULL
  BY DEF TableInv, TableTypeOK
<1>3. TableTypeOK'
  BY <1>1, <1>2 DEF TableInv, TableTypeOK
<1>4. \A f \in Entries : table'[f] = IF f = g THEN key[t] ELSE table[f]
  BY <1>1 DEF TableInv, TableTypeOK
<1>5. Packed'
  <2> SUFFICES ASSUME NEW e \in Entries, NEW f \in Entries, e < f, table'[e] = NULL
               PROVE  table'[f] = NULL
    BY DEF Packed
  <2>1. e # g /\ ~(e < g)
    BY <1>1, <1>2, <1>4
  <2>2. f # g /\ ~(f < g)
    BY <2>1 DEF Entries
  <2>3. QED BY <1>1, <1>4, <2>2
<1>6. HasFirst'
  <2> SUFFICES ASSUME NEW a \in Addrs, Matching(a)' # {}
               PROVE  \E e \in Entries : IsFirst(e, Matching(a))'
    BY DEF HasFirst
  <2>1. CASE Matching(a) # {}
    BY <2>1, SetKeepsFirst DEF TableInv, HasFirst
  <2>2. CASE Matching(a) = {}
    <3>1. \A f \in Entries : table'[f] = a => f = g
      BY <1>4, <2>2 DEF Matching
    <3>2. QED BY <3>1 DEF IsFirst, Matching, Entries
  <2>3. QED BY <2>1, <2>2
<1>7. WordIsOwn'
  <2> SUFFICES ASSUME NEW u \in Threads, stage'[u] = "have"
               PROVE  /\ table'[out'[u]] = key'[u]
                      /\ \E e \in Entries : IsFirst(e, Matching(key[u]))' /\ e <= out'[u]
    BY DEF WordIsOwn
  <2>0. key'[u] \in Addrs
    BY <1>3 DEF TableTypeOK
  <2>1. CASE u = t
    <3>1. out'[u] = g /\ table'[g] = key[t]
      BY <1>1, <1>4, <2>1 DEF TableInv, TableTypeOK
    <3>2. PICK e \in Entries : IsFirst(e, Matching(key[u]))'
      BY <1>1, <1>6, <2>0, <2>1, <3>1 DEF HasFirst, Matching
    <3>3. e <= g
      BY <1>1, <2>1, <3>1, <3>2 DEF IsFirst, Matching
    <3>4. QED BY <1>1, <2>1, <3>1, <3>2, <3>3
  <2>2. CASE u # t
    <3>1. stage[u] = "have" /\ out'[u] = out[u] /\ key'[u] = key[u] /\ key[u] \in Addrs
      BY <1>1, <2>0, <2>2 DEF TableInv, TableTypeOK
    <3>2. table[out[u]] = key[u]
      BY <3>1 DEF TableInv, WordIsOwn
    <3>3. PICK e \in Entries : IsFirst(e, Matching(key[u])) /\ e <= out[u]
      BY <3>1 DEF TableInv, WordIsOwn
    <3>4. IsFirst(e, Matching(key[u]))'
      BY <1>1, <3>1, <3>3, SetKeepsFirst
    <3>5. out[u] # g
      BY <1>1, <3>1, <3>2
    <3>6. table'[out[u]] = key[u]
      BY <1>1, <3>2, <3>5
    <3>7. QED BY <3>1, <3>3, <3>4, <3>6
  <2>3. QED BY <2>1, <2>2
<1>8. Chosen'
  BY <1>1 DEF Chosen, TableInv, TableTypeOK
<1>9. QED BY <1>3, <1>5, <1>6, <1>7, <1>8 DEF TableInv

LEMMA GetInv ==
  ASSUME TableInv, NEW t \in Threads, NEW a \in Addrs, Get(t, a) PROVE TableInv'
<1>1. table' = table
  BY DEF Get
<1>2. TableTypeOK'
  BY DEF TableInv, TableTypeOK, Get, Resolved
<1>3. Packed' /\ HasFirst' /\ \A b : Matching(b)' = Matching(b)
  BY <1>1, SameFirst DEF TableInv
<1>4. WordIsOwn'
  <2> SUFFICES ASSUME NEW u \in Threads, stage'[u] = "have"
               PROVE  /\ table[out'[u]] = key'[u]
                      /\ \E e \in Entries : IsFirst(e, Matching(key'[u])) /\ e <= out'[u]
    BY <1>1 DEF WordIsOwn, Matching, IsFirst
  <2>1. CASE u = t
    <3>1. PICK e \in Entries : IsFirst(e, Matching(a)) /\ Resolved(t, e)
      BY <2>1 DEF Get, TableInv, TableTypeOK
    <3>2. out'[u] = e /\ key'[u] = a
      BY <2>1, <3>1 DEF Get, Resolved, TableInv, TableTypeOK
    <3>3. table[e] = a
      BY <3>1 DEF IsFirst, Matching
    <3>4. QED BY <3>1, <3>2, <3>3 DEF Entries
  <2>2. CASE u # t
    <3>1. stage[u] = "have" /\ out'[u] = out[u] /\ key'[u] = key[u]
      BY <2>2 DEF Get, Resolved, TableInv, TableTypeOK
    <3>2. QED BY <3>1 DEF TableInv, WordIsOwn
  <2>3. QED BY <2>1, <2>2
<1>5. Chosen'
  BY DEF Chosen, Get, Resolved, TableInv, TableTypeOK
<1>6. QED BY <1>2, <1>3, <1>4, <1>5 DEF TableInv

LEMMA DropInv ==
  ASSUME TableInv, NEW t \in Threads, Drop(t) PROVE TableInv'
<1>1. table' = table
  BY DEF Drop
<1>2. TableTypeOK'
  BY DEF TableInv, TableTypeOK, Drop
<1>3. Packed' /\ HasFirst' /\ \A b : Matching(b)' = Matching(b)
  BY <1>1, SameFirst DEF TableInv
<1>4. ASSUME NEW u \in Threads, stage'[u] = "have"
      PROVE  stage[u] = "have" /\ out'[u] = out[u] /\ key'[u] = key[u]
  BY <1>4 DEF Drop, TableInv, TableTypeOK
<1>5. WordIsOwn'
  BY <1>1, <1>3, <1>4 DEF WordIsOwn, TableInv, IsFirst
<1>6. Chosen'
  BY <1>4 DEF Chosen, TableInv
<1>7. QED BY <1>2, <1>3, <1>5, <1>6 DEF TableInv

LEMMA SetFullInv ==
  ASSUME TableInv, NEW t \in Threads, SetFull(t) PROVE TableInv'
<1>1. table' = table /\ out' = out /\ key' = key
  BY DEF SetFull
<1>2. TableTypeOK'
  BY DEF TableInv, TableTypeOK, SetFull
<1>3. Packed' /\ HasFirst' /\ \A b : Matching(b)' = Matching(b)
  BY <1>1, SameFirst DEF TableInv
<1>4. ASSUME NEW u \in Threads, stage'[u] = "have" PROVE stage[u] = "have"
  BY <1>4 DEF SetFull, TableInv, TableTypeOK
<1>5. WordIsOwn'
  BY <1>1, <1>3, <1>4 DEF WordIsOwn, TableInv, IsFirst
<1>6. Chosen'
  BY <1>1, <1>4 DEF Chosen, TableInv
<1>7. QED BY <1>2, <1>3, <1>5, <1>6 DEF TableInv

LEMMA TableStutter ==
  ASSUME TableInv, UNCHANGED tableVars PROVE TableInv'
  BY DEF TableInv, tableVars, TableTypeOK, Packed, HasFirst, WordIsOwn, Chosen, IsFirst, Matching

\* The invariant of the object table: every word in use is a word of the address
\* it was asked for, and the table has no holes (get_out_address,
\* set_out_address).
THEOREM TableInvariance == TableSpec => []TableInv
<1>1. ASSUME TableInv, [TableNext]_tableVars PROVE TableInv'
  <2>1. CASE UNCHANGED tableVars
    BY <1>1, <2>1, TableStutter
  <2>2. ASSUME NEW t \in Threads, Resolve(t) PROVE TableInv'
    BY <1>1, <2>2, SetInv, SetFullInv, GetInv DEF Resolve
  <2>3. ASSUME NEW t \in Threads, Drop(t) PROVE TableInv'
    BY <1>1, <2>3, DropInv
  <2>4. QED BY <1>1, <2>1, <2>2, <2>3 DEF TableNext
<1>2. QED BY <1>1, TableInitInv, PTL DEF TableSpec

\* The types of the table's state.
THEOREM TableTyping == TableSpec => []TableTypeOK
  BY TableInvariance, PTL DEF TableInv

\* The table has no holes: set_out_address fills the first free entry and nothing
\* is ever removed.
THEOREM NoHoles == TableSpec => []Packed
  BY TableInvariance, PTL DEF TableInv

\* Every word in use is a word of the address it was asked for.
THEOREM OwnWord == TableSpec => []WordIsOwn
  BY TableInvariance, PTL DEF TableInv

\* The first word of an address stays its first: lookups are stable.
THEOREM Stability == TableSpec => StableLookup
<1> DEFINE Stable == \A a \in Addrs, e \in Entries :
                       IsFirst(e, Matching(a)) => IsFirst(e, Matching(a))'
<1>1. ASSUME TableInv, [TableNext]_tableVars PROVE [Stable]_tableVars
  <2>1. CASE UNCHANGED tableVars
    BY <2>1
  <2>2. ASSUME table' = table PROVE Stable
    BY <2>2, SameFirst DEF IsFirst
  <2>3. ASSUME NEW t \in Threads, Set(t) PROVE Stable
    BY <1>1, <2>3, SetKeepsFirst
  <2>4. ASSUME NEW t \in Threads, Drop(t) \/ SetFull(t) \/ \E a \in Addrs : Get(t, a)
        PROVE  table' = table
    BY <2>4 DEF Drop, SetFull, Get
  <2>5. QED BY <1>1, <2>1, <2>2, <2>3, <2>4 DEF TableNext, Resolve
<1>2. QED BY <1>1, TableInvariance, PTL DEF TableSpec, StableLookup

\* The threads whose lookup of an address missed and that are still to add it.
Missing(a) == {t \in Threads : stage[t] = "miss" /\ key[t] = a}

\* Each entry of an address was added by a thread that missed while there was
\* none: what strengthens FewDuplicates to an inductive invariant.
EntriesAndMissing ==
  \A a \in Addrs : Cardinality(Matching(a)) + Cardinality(Missing(a)) <= Cardinality(Threads)

LEMMA FiniteSides ==
  ASSUME IsFiniteSet(Threads), NEW a
  PROVE  /\ IsFiniteSet(Matching(a)) /\ Cardinality(Matching(a)) \in Nat
         /\ IsFiniteSet(Missing(a)) /\ Cardinality(Missing(a)) \in Nat
         /\ Cardinality(Missing(a)) <= Cardinality(Threads)
         /\ Cardinality(Threads) \in Nat
<1>1. IsFiniteSet(Entries)
  BY FS_Interval DEF Entries
<1>2. Matching(a) \in SUBSET Entries /\ Missing(a) \in SUBSET Threads
  BY DEF Matching, Missing
<1>3. QED BY <1>1, <1>2, FS_Subset, FS_CardinalityType

LEMMA DuplicatesStep ==
  ASSUME IsFiniteSet(Threads), TableInv, EntriesAndMissing, [TableNext]_tableVars
  PROVE  EntriesAndMissing'
<1> SUFFICES ASSUME NEW a \in Addrs
             PROVE  Cardinality(Matching(a)') + Cardinality(Missing(a)') <= Cardinality(Threads)
  BY DEF EntriesAndMissing
<1>0. /\ table \in [Entries -> Addrs \cup {NULL}] /\ key \in [Threads -> Addrs]
      /\ stage \in [Threads -> {"idle", "miss", "have", "crashed"}]
      /\ Cardinality(Matching(a)) + Cardinality(Missing(a)) <= Cardinality(Threads)
  BY DEF TableInv, TableTypeOK, EntriesAndMissing
<1>1. ASSUME Matching(a)' = Matching(a), Missing(a)' = Missing(a)
      PROVE  Cardinality(Matching(a)') + Cardinality(Missing(a)') <= Cardinality(Threads)
  BY <1>0, <1>1
<1>2. ASSUME NEW t \in Threads, Set(t)
      PROVE  Cardinality(Matching(a)') + Cardinality(Missing(a)') <= Cardinality(Threads)
  <2>1. PICK e \in Entries : /\ table[e] = NULL
                             /\ table' = [table EXCEPT ![e] = key[t]]
                             /\ stage' = [stage EXCEPT ![t] = "have"]
                             /\ key' = key
    BY <1>2, NewEntry
  <2>2. stage[t] = "miss"
    BY <1>2 DEF Set
  <2>3. CASE key[t] = a
    <3>1. Matching(a)' = Matching(a) \cup {e} /\ e \notin Matching(a)
      BY <1>0, <2>1, <2>3 DEF Matching
    <3>2. Missing(a)' = Missing(a) \ {t} /\ t \in Missing(a)
      BY <1>0, <2>1, <2>2, <2>3 DEF Missing
    <3>3. Cardinality(Matching(a)') = Cardinality(Matching(a)) + 1
      BY <3>1, FiniteSides, FS_AddElement
    <3>4. Cardinality(Missing(a)') = Cardinality(Missing(a)) - 1
      BY <3>2, FiniteSides, FS_RemoveElement
    <3>5. QED BY <1>0, <3>3, <3>4, FiniteSides
  <2>4. CASE key[t] # a
    <3>1. Matching(a)' = Matching(a)
      BY <1>0, <2>1, <2>4 DEF Matching
    <3>2. Missing(a)' = Missing(a)
      BY <1>0, <2>1, <2>4 DEF Missing
    <3>3. QED BY <1>1, <3>1, <3>2
  <2>5. QED BY <2>3, <2>4
<1>3. ASSUME NEW t \in Threads, SetFull(t)
      PROVE  Cardinality(Matching(a)') + Cardinality(Missing(a)') <= Cardinality(Threads)
  <2>1. Matching(a)' = Matching(a) /\ Missing(a)' = Missing(a) \ {t}
    BY <1>0, <1>3 DEF SetFull, Matching, Missing
  <2>2. Cardinality(Missing(a)') <= Cardinality(Missing(a)) /\ Cardinality(Missing(a)') \in Nat
    <3>1. IsFiniteSet(Missing(a)) /\ Missing(a)' \in SUBSET Missing(a)
      BY <2>1, FiniteSides
    <3>2. IsFiniteSet(Missing(a)') /\ Cardinality(Missing(a)') <= Cardinality(Missing(a))
      BY <3>1, FS_Subset
    <3>3. QED BY <3>2, FS_CardinalityType
  <2>3. QED BY <1>0, <2>1, <2>2, FiniteSides
<1>4. ASSUME NEW t \in Threads, NEW b \in Addrs, Get(t, b)
      PROVE  Cardinality(Matching(a)') + Cardinality(Missing(a)') <= Cardinality(Threads)
  <2>1. Matching(a)' = Matching(a) /\ t \notin Missing(a)
    BY <1>4 DEF Get, Matching, Missing
  <2>2. CASE stage'[t] = "miss" /\ a = b
    <3>1. Matching(a) = {}
      BY <1>0, <1>4, <2>2 DEF Get, Resolved
    <3>2. Missing(a)' \in SUBSET Threads
      BY DEF Missing
    <3>3. QED BY <2>1, <3>1, <3>2, FS_Subset, FS_EmptySet, FS_CardinalityType
  <2>3. CASE ~ (stage'[t] = "miss" /\ a = b)
    <3>1. \A u \in Threads \ {t} : stage'[u] = stage[u] /\ key'[u] = key[u]
      BY <1>0, <1>4 DEF Get, Resolved
    <3>2. key'[t] = b
      BY <1>0, <1>4 DEF Get
    <3>3. t \notin Missing(a)'
      BY <2>3, <3>2 DEF Missing
    <3>4. Missing(a)' = Missing(a)
      BY <2>1, <3>1, <3>3 DEF Missing
    <3>5. QED BY <1>1, <2>1, <3>4
  <2>4. QED BY <2>2, <2>3
<1>5. ASSUME NEW t \in Threads, Drop(t)
      PROVE  Cardinality(Matching(a)') + Cardinality(Missing(a)') <= Cardinality(Threads)
  <2>1. Matching(a)' = Matching(a) /\ Missing(a)' = Missing(a)
    BY <1>0, <1>5 DEF Drop, Matching, Missing
  <2>2. QED BY <1>1, <2>1
<1>6. CASE UNCHANGED tableVars
  BY <1>1, <1>6 DEF tableVars, Matching, Missing
<1>7. QED
  BY <1>2, <1>3, <1>4, <1>5, <1>6 DEF TableNext, Resolve

\* An address has at most one entry per thread, however often and by whomever it
\* is looked up (get_out_address, set_out_address): the object table fills up by
\* addresses, not by calls.
THEOREM OneEntryPerThread == IsFiniteSet(Threads) => (TableSpec => []FewDuplicates)
<1> SUFFICES ASSUME IsFiniteSet(Threads) PROVE TableSpec => []FewDuplicates
  OBVIOUS
<1>1. TableInit => EntriesAndMissing
  <2> SUFFICES ASSUME TableInit, NEW a \in Addrs
               PROVE  Cardinality(Matching(a)) + Cardinality(Missing(a)) <= Cardinality(Threads)
    BY DEF EntriesAndMissing
  <2>1. Matching(a) = {} /\ Missing(a) = {}
    BY DEF TableInit, Matching, Missing
  <2>2. QED BY <2>1, FS_EmptySet, FS_CardinalityType
<1>2. TableInv /\ EntriesAndMissing /\ [TableNext]_tableVars => EntriesAndMissing'
  BY DuplicatesStep
<1>3. EntriesAndMissing => FewDuplicates
  BY FiniteSides DEF EntriesAndMissing, FewDuplicates
<1>4. QED BY <1>1, <1>2, <1>3, TableInvariance, PTL DEF TableSpec
=============================================================================
