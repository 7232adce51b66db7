----------------------------- MODULE FutexShim -----------------------------
(***************************************************************************)
(* The futex system call as the enclave makes it.  The futex word may be   *)
(* enclave memory, which the kernel cannot see: __syscall_wrap resolves    *)
(* the address of any futex word to an untrusted word and copies the value *)
(* there, and the kernel compares, sleeps and wakes on the copy.  The copy *)
(* is a load and a store with nothing to hold the two together, and        *)
(* nothing copies the word back.                                           *)
(*                                                                         *)
(* This module is the call; modules that EXTEND it are the musl code that  *)
(* makes it.                                                               *)
(***************************************************************************)
EXTENDS ObjectTable

CONSTANT Values   \* what a futex word, or a value waited for, may be

ASSUME ValuesAssumption == 0 \in Values /\ Values \subseteq Nat

VARIABLES
  word,     \* the futex words of the program
  outWord,  \* their untrusted copies, by table entry
  asleep,   \* the threads the kernel has queued on each untrusted word
  op,       \* the futex operation a thread is in
  fpc,      \* where in it the thread is
  val,      \* the value FUTEX_WAIT expects
  tmp,      \* the value between the load and the store of send_user
  raced     \* history variable: a call met one of the races, see Meets

callVars  == <<outWord, asleep, op, fpc, val, tmp, raced>>
futexVars == <<tableVars, word, callVars>>

FutexInit ==
  /\ TableInit
  /\ word    = [a \in Addrs |-> 0]
  /\ outWord = [e \in Entries |-> 0]
  /\ asleep  = [e \in Entries |-> {}]
  /\ op      = [t \in Threads |-> "wait"]
  /\ fpc     = [t \in Threads |-> "none"]
  /\ val     = [t \in Threads |-> 0]
  /\ tmp     = [t \in Threads |-> 0]
  /\ raced   = FALSE

At(t, l)  == fpc[t] = l /\ stage[t] = "have"
To(t, l)  == fpc' = [fpc EXCEPT ![t] = l]

\* The call is entered and looks its word up.
Call(t, o, a, v) ==
  /\ fpc[t] = "none"
  /\ Get(t, a)
  /\ op'  = [op EXCEPT ![t] = o]
  /\ val' = [val EXCEPT ![t] = v]
  /\ To(t, "load")
  /\ UNCHANGED <<outWord, asleep, tmp, raced>>

\* The lookup missed.
Allocate(t) == Set(t) /\ UNCHANGED <<word, callVars>>

\* send_user(out_uaddr, uaddr): the copy's load ...
Load(t) ==
  /\ At(t, "load")
  /\ tmp' = [tmp EXCEPT ![t] = word[key[t]]]
  /\ To(t, "store")
  /\ UNCHANGED <<tableVars, word, outWord, asleep, op, val, raced>>

\* ... and its store.
Store(t) ==
  /\ At(t, "store")
  /\ outWord' = [outWord EXCEPT ![out[t]] = tmp[t]]
  /\ To(t, "kernel")
  /\ UNCHANGED <<tableVars, word, asleep, op, val, tmp, raced>>

\* The two races: a thread goes to sleep for a value the enclave's word no
\* longer has, or it sleeps or wakes on a word that a lookup does not find.
Meets(t, sleeps) ==
  raced' = ( \/ raced
             \/ sleeps /\ word[key[t]] # val[t]
             \/ ~ IsFirst(out[t], Matching(key[t])) )

\* The kernel's side of FUTEX_WAIT: compare and sleep are one step there.
Sleep(t) ==
  /\ At(t, "kernel") /\ op[t] = "wait"
  /\ outWord[out[t]] = val[t]
  /\ asleep' = [asleep EXCEPT ![out[t]] = @ \cup {t}]
  /\ To(t, "asleep")
  /\ Meets(t, TRUE)
  /\ UNCHANGED <<tableVars, word, outWord, op, val, tmp>>

Again(t) ==
  /\ At(t, "kernel") /\ op[t] = "wait"
  /\ outWord[out[t]] # val[t]
  /\ To(t, "return")
  /\ UNCHANGED <<tableVars, word, outWord, asleep, op, val, tmp, raced>>

\* FUTEX_WAKE with a count of one
WakeOne(t) ==
  /\ At(t, "kernel") /\ op[t] = "wake"
  /\ \E u \in asleep[out[t]] :
       /\ asleep' = [asleep EXCEPT ![out[t]] = @ \ {u}]
       /\ fpc' = [fpc EXCEPT ![t] = "return", ![u] = "return"]
  /\ Meets(t, FALSE)
  /\ UNCHANGED <<tableVars, word, outWord, op, val, tmp>>

WakeNone(t) ==
  /\ At(t, "kernel") /\ op[t] = "wake"
  /\ asleep[out[t]] = {}
  /\ To(t, "return")
  /\ Meets(t, FALSE)
  /\ UNCHANGED <<tableVars, word, outWord, asleep, op, val, tmp>>

\* The kernel ends a wait with ETIMEDOUT, on whichever word the thread is
\* queued; which waits have a deadline is for the module that makes the call.
Expire(t) ==
  /\ fpc[t] = "asleep"
  /\ asleep' = [e \in Entries |-> asleep[e] \ {t}]
  /\ To(t, "return")
  /\ UNCHANGED <<tableVars, word, outWord, op, val, tmp, raced>>

\* The end of the call; the caller's next step is conjoined by its module.
Finish(t) ==
  /\ fpc[t] = "return"
  /\ Drop(t)
  /\ To(t, "none")
  /\ UNCHANGED <<outWord, asleep, op, val, tmp, raced>>

FutexStep(t) ==
  \/ Allocate(t) \/ Load(t) \/ Store(t)
  \/ Sleep(t) \/ Again(t) \/ WakeOne(t) \/ WakeNone(t)

\* The types of the state.
FutexTypeOK ==
  /\ TableTypeOK
  /\ word \in [Addrs -> Values]
  /\ outWord \in [Entries -> Values]
  /\ asleep \in [Entries -> SUBSET Threads]
  /\ op \in [Threads -> {"wait", "wake", "requeue", "settid"}]
  /\ fpc \in [Threads -> {"none", "load", "store", "kernel", "asleep", "return"}]
  /\ val \in [Threads -> Values]
  /\ tmp \in [Threads -> Values]
  /\ raced \in BOOLEAN
=============================================================================
