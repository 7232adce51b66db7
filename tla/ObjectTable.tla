---------------------------- MODULE ObjectTable ----------------------------
(***************************************************************************)
(* The table that gives an enclave address its word in untrusted memory.   *)
(* futex and set_tid_address first look the address up (get_out_address)   *)
(* and, when it is not there, allocate a word and append an entry          *)
(* (set_out_address).  Each of the two holds object_table_lock; nothing    *)
(* holds it from the one to the other.  Entries are never removed.         *)
(*                                                                         *)
(* Every entry comes with a fresh block of malloc_user, so the entry's     *)
(* index stands for its out address.                                       *)
(***************************************************************************)
EXTENDS Naturals, FiniteSets

CONSTANTS
  Threads,
  Addrs,        \* enclave addresses handed to futex and set_tid_address
  MaxObjects,   \* MAX_NO_OBJECTS
  NULL

ASSUME MaxObjectsAssumption == MaxObjects \in Nat \ {0}
ASSUME NULLAssumption == NULL \notin Addrs /\ NULL \notin Nat

Entries == 0 .. MaxObjects - 1

VARIABLES
  table,   \* object_table[i].in, NULL in an entry not yet used
  stage,   \* how far a thread is in resolving an address
  key,     \* the address it resolves
  out      \* the word it got for it

tableVars == <<table, stage, key, out>>

TableInit ==
  /\ table = [e \in Entries |-> NULL]
  /\ stage = [t \in Threads |-> "idle"]
  /\ key   \in [Threads -> Addrs]
  /\ out   = [t \in Threads |-> NULL]

Matching(a) == {e \in Entries : table[e] = a}

\* The first entry in table order that satisfies the loop's test.
IsFirst(e, S) == e \in S /\ \A f \in S : e <= f

Resolved(t, e) ==
  /\ out' = [out EXCEPT ![t] = e]
  /\ stage' = [stage EXCEPT ![t] = "have"]

\* Mutant of Get: the lookup never finds an entry.
GetAfresh(t, a) ==
  /\ stage[t] = "idle"
  /\ key' = [key EXCEPT ![t] = a]
  /\ stage' = [stage EXCEPT ![t] = "miss"]
  /\ UNCHANGED <<table, out>>

\* get_out_address
Get(t, a) ==
  /\ stage[t] = "idle"
  /\ key' = [key EXCEPT ![t] = a]
  /\ \/ \E e \in Entries : IsFirst(e, Matching(a)) /\ Resolved(t, e)
     \/ /\ Matching(a) = {}
        /\ stage' = [stage EXCEPT ![t] = "miss"]
        /\ UNCHANGED out
  /\ UNCHANGED table

\* Mutant of Set: the search for a free entry runs from the end of the table.
SetLast(t) ==
  /\ stage[t] = "miss"
  /\ \E e \in Matching(NULL) :
       /\ \A f \in Matching(NULL) : f <= e
       /\ table' = [table EXCEPT ![e] = key[t]]
       /\ Resolved(t, e)
  /\ UNCHANGED key

\* set_out_address, when an entry is free
Set(t) ==
  /\ stage[t] = "miss"
  /\ \E e \in Entries :
       /\ IsFirst(e, Matching(NULL))
       /\ table' = [table EXCEPT ![e] = key[t]]
       /\ Resolved(t, e)
  /\ UNCHANGED key

\* Mutant of SetFull: the index the loop ended with is used.
SetPastEnd(t) ==
  /\ stage[t] = "miss"
  /\ Matching(NULL) = {}
  /\ Resolved(t, MaxObjects)
  /\ UNCHANGED <<table, key>>

\* set_out_address, when the table is full: the block is freed again and the
\* caller copies to the NULL it gets back, which ends the enclave.
SetFull(t) ==
  /\ stage[t] = "miss"
  /\ Matching(NULL) = {}
  /\ stage' = [stage EXCEPT ![t] = "crashed"]
  /\ UNCHANGED <<table, key, out>>

\* Mutant of Drop: the entry is removed with the call.
DropEntry(t) ==
  /\ stage[t] = "have"
  /\ stage' = [stage EXCEPT ![t] = "idle"]
  /\ table' = [table EXCEPT ![out[t]] = NULL]
  /\ out' = [out EXCEPT ![t] = NULL]
  /\ UNCHANGED key

\* The system call is over; the address is resolved anew by the next one.
Drop(t) ==
  /\ stage[t] = "have"
  /\ stage' = [stage EXCEPT ![t] = "idle"]
  /\ out' = [out EXCEPT ![t] = NULL]
  /\ UNCHANGED <<table, key>>

Resolve(t) == Set(t) \/ SetFull(t) \/ \E a \in Addrs : Get(t, a)

TableNext == \E t \in Threads : Resolve(t) \/ Drop(t)

TableSpec == TableInit /\ [][TableNext]_tableVars
-----------------------------------------------------------------------------
\* The types of the state.
TableTypeOK ==
  /\ table \in [Entries -> Addrs \cup {NULL}]
  /\ stage \in [Threads -> {"idle", "miss", "have", "crashed"}]
  /\ key \in [Threads -> Addrs]
  /\ out \in [Threads -> Entries \cup {NULL}]

\* An address keeps the word its first entry gave it: whatever any thread adds
\* later, a lookup that once found a word for an address finds the same word
\* ever after, so two system calls that both look an address up use one word.
StableLookup ==
  [][\A a \in Addrs, e \in Entries :
       IsFirst(e, Matching(a)) => IsFirst(e, Matching(a))']_tableVars

\* The table has no holes: its used entries come before its free ones, so the
\* first free entry is the one after the last.
Packed ==
  \A e, f \in Entries : e < f /\ table[e] = NULL => table[f] = NULL

\* The word a thread uses is one of the address it was asked for, and as long as
\* it uses it a lookup of that address does not miss.  It need not be the word
\* that lookup finds: threads that missed together each add an entry of their
\* own, and all but the first use a word no later call will find.
WordIsOwn ==
  \A t \in Threads :
    stage[t] = "have" => /\ table[out[t]] = key[t]
                         /\ \E e \in Entries : IsFirst(e, Matching(key[t])) /\ e <= out[t]

\* A thread adds an entry for an address only after a lookup that missed it, so
\* an address has at most one entry per thread: the table of MAX_NO_OBJECTS
\* entries cannot be used up by a few addresses looked up again and again.
FewDuplicates ==
  \A a \in Addrs : Cardinality(Matching(a)) <= Cardinality(Threads)
=============================================================================
