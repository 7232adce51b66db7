------------------------------ MODULE ShimJoin ------------------------------
(***************************************************************************)
(* pthread_join and pthread_detach on the futex of the shim.  A new thread *)
(* registers its detach_state with set_tid_address, so that the kernel,    *)
(* when the thread has left, writes 0 to the word and wakes whoever sleeps *)
(* on it.  That word is the untrusted copy: the thread itself stores       *)
(* DT_EXITED in detach_state before it leaves.  The joiner sleeps until it *)
(* reads DT_EXITED and then frees the thread's memory, which may be given  *)
(* to a new thread before the old one has left.                            *)
(***************************************************************************)
EXTENDS FutexShim

CONSTANTS
  Joiner,     \* the thread that creates, joins and detaches all the others
  TidPtr,     \* the low half of the address of a detach_state
  Reuses      \* bound: how often a thread gets the memory of a joined one

Children == Threads \ {Joiner}

\* The address of a child's detach_state is named by the child.
ASSUME JoinAssumption == Joiner \in Threads /\ Addrs = Children

EXITED   == 0
EXITING  == 1
JOINABLE == 2
DETACHED == 3
DYNAMIC  == 4

ASSUME TidPtrAssumption ==
  TidPtr > DYNAMIC /\ {TidPtr, EXITING, JOINABLE, DETACHED, DYNAMIC} \subseteq Values
ASSUME ReusesAssumption == Reuses \in Nat

VARIABLES
  pc,         \* where a thread is
  clear,      \* the kernel's clear_child_tid of a child, a table entry or NULL
  awaited,    \* the child the joiner is joining
  deadline,   \* whether that join has a deadline
  state,      \* the detach_state it read, until it is handed to the futex call
  joined,     \* the children whose join has returned: their memory is free
  detached,   \* the children that the program is not to join any more
  late,       \* how many threads with freed memory the kernel has yet to clear
              \* an entry for
  reuses      \* how often freed memory has been used again

joinVars == <<pc, clear, awaited, deadline, state, joined, detached, late, reuses>>
vars == <<futexVars, joinVars>>

Init ==
  /\ FutexInit
  /\ pc       = [t \in Threads |-> IF t = Joiner THEN "next" ELSE "absent"]
  /\ clear    = [c \in Children |-> NULL]
  /\ awaited  = NULL
  /\ deadline = FALSE
  /\ state    = EXITED
  /\ joined   = {}
  /\ detached = {}
  /\ late     = [e \in Entries |-> 0]
  /\ reuses   = 0

\* The variables that belong to the joiner and those that tell the fate of
\* threads: a child's own steps leave both alone.
joinerVars == <<awaited, deadline, state>>
fateVars   == <<joined, detached, late, reuses>>

Goto(t, l) == pc' = [pc EXCEPT ![t] = l]

SetState(c, v) == word' = [word EXCEPT ![c] = v]

\* The memory of a joined thread is given to a new one.  The old one may still
\* be on its way to SYS_exit.
Recycle(c) ==
  /\ c \in joined
  /\ reuses < Reuses
  /\ reuses' = reuses + 1
  /\ joined' = joined \ {c}
  /\ late' = IF pc[c] = "exited" THEN [late EXCEPT ![clear[c]] = @ + 1] ELSE late

\* __pthread_create, between two joins: the parent stores DT_JOINABLE or
\* DT_DETACHED before it clones.
Create(c) ==
  /\ pc[Joiner] = "next"
  /\ Recycle(c) \/ (pc[c] = "absent" /\ UNCHANGED <<joined, late, reuses>>)
  /\ \/ SetState(c, JOINABLE) /\ UNCHANGED detached
     \/ SetState(c, DETACHED) /\ detached' = detached \cup {c}
  /\ clear' = [clear EXCEPT ![c] = NULL]
  /\ Goto(c, "start")
  /\ UNCHANGED <<tableVars, callVars, joinerVars>>

\* start: set_tid_address(&self->detach_state).  The copy is made as for a
\* futex, by Load and Store ...
SetTidAddress(c) ==
  /\ pc[c] = "start"
  /\ Call(c, "settid", c, 0)
  /\ Goto(c, "register")
  /\ UNCHANGED <<word, clear, joinerVars, fateVars>>

\* ... and overwritten with the address of detach_state itself ...
Stamp(c) ==
  /\ pc[c] = "register"
  /\ At(c, "kernel")
  /\ outWord' = [outWord EXCEPT ![out[c]] = TidPtr]
  /\ Goto(c, "stamped")
  /\ UNCHANGED <<tableVars, word, asleep, op, fpc, val, tmp, raced>>
  /\ UNCHANGED <<clear, joinerVars, fateVars>>

\* Mutant of Register: the kernel is given the address of detach_state.
RegisterInside(c) ==
  /\ pc[c] = "stamped"
  /\ clear' = [clear EXCEPT ![c] = c]
  /\ To(c, "return")
  /\ Meets(c, FALSE)
  /\ Goto(c, "registered")
  /\ UNCHANGED <<tableVars, word, outWord, asleep, op, val, tmp, joinerVars, fateVars>>

\* ... before the kernel is given the copy's address.
Register(c) ==
  /\ pc[c] = "stamped"
  /\ clear' = [clear EXCEPT ![c] = out[c]]
  /\ To(c, "return")
  /\ Meets(c, FALSE)
  /\ Goto(c, "registered")
  /\ UNCHANGED <<tableVars, word, outWord, asleep, op, val, tmp, joinerVars, fateVars>>

Run(c) ==
  /\ pc[c] = "registered"
  /\ Finish(c)
  /\ Goto(c, "run")
  /\ UNCHANGED <<word, clear, joinerVars, fateVars>>

\* Mutant of Exiting: the exit is announced before the struct is used again.
ExitingAtOnce(c) ==
  /\ pc[c] = "run"
  /\ SetState(c, EXITED)
  /\ Goto(c, "exiting")
  /\ UNCHANGED <<tableVars, callVars, clear, joinerVars, fateVars>>

\* __pthread_exit, after the thread's function: a_cas(&self->detach_state,
\* DT_JOINABLE, DT_EXITING), against which pthread_detach competes.
Exiting(c) ==
  /\ pc[c] = "run"
  /\ IF word[c] = JOINABLE THEN SetState(c, EXITING) ELSE UNCHANGED word
  /\ Goto(c, IF word[c] = DYNAMIC THEN "unregister" ELSE "exiting")
  /\ UNCHANGED <<tableVars, callVars, clear, joinerVars, fateVars>>

\* set_tid_address(0), for a thread that was detached after it had registered
Unregister(c) ==
  /\ pc[c] = "unregister"
  /\ clear' = [clear EXCEPT ![c] = NULL]
  /\ Goto(c, "exiting")
  /\ UNCHANGED <<futexVars, joinerVars, fateVars>>

\* The thread's tid and killlock are cleared; then, SGX_HACK,
\* self->detach_state = DT_EXITED.
Exited(c) ==
  /\ pc[c] = "exiting"
  /\ SetState(c, EXITED)
  /\ Goto(c, "exited")
  /\ UNCHANGED <<tableVars, callVars, clear, joinerVars, fateVars>>

\* Mutant of Clears: the word is cleared and nobody woken.
ClearsSilently(e) ==
  /\ outWord' = [outWord EXCEPT ![e] = 0]
  /\ UNCHANGED <<tableVars, word, asleep, op, fpc, val, tmp, raced>>

\* The kernel clears a word and wakes one sleeper.
Clears(e) ==
  /\ outWord' = [outWord EXCEPT ![e] = 0]
  /\ \/ \E u \in asleep[e] :
          /\ asleep' = [asleep EXCEPT ![e] = @ \ {u}]
          /\ To(u, "return")
     \/ asleep[e] = {} /\ UNCHANGED <<asleep, fpc>>
  /\ UNCHANGED <<tableVars, word, op, val, tmp, raced>>

\* SYS_exit: what the kernel does for a thread that has left ...
Gone(c) ==
  /\ pc[c] = "exited"
  /\ \/ clear[c] = NULL /\ UNCHANGED futexVars
     \/ clear[c] # NULL /\ Clears(clear[c])
  /\ Goto(c, "gone")
  /\ UNCHANGED <<clear, joinerVars, fateVars>>

\* ... also when its memory already is another's.
GoneLate(e) ==
  /\ late[e] > 0
  /\ late' = [late EXCEPT ![e] = @ - 1]
  /\ Clears(e)
  /\ UNCHANGED <<pc, clear, joinerVars, joined, detached, reuses>>

\* A program joins or detaches a thread once.
Joinable(c) == pc[c] # "absent" /\ c \notin joined \cup detached

BeginJoin(c, d) ==
  /\ awaited' = c
  /\ deadline' = d
  /\ Goto(Joiner, "look")

\* pthread_join(c) or pthread_timedjoin_np(c): the children are joined in any
\* order.  pthread_tryjoin_np is a look at the state and then this.
Await(c) ==
  /\ pc[Joiner] = "next"
  /\ Joinable(c)
  /\ \E d \in BOOLEAN : BeginJoin(c, d)
  /\ UNCHANGED <<futexVars, clear, state, fateVars>>

\* Mutant of Detach: the result of the compare-and-swap is read the wrong way.
DetachThenJoin(c) ==
  /\ pc[Joiner] = "next"
  /\ Joinable(c)
  /\ IF word[c] = JOINABLE
     THEN SetState(c, DYNAMIC) /\ BeginJoin(c, FALSE) /\ UNCHANGED detached
     ELSE detached' = detached \cup {c} /\ UNCHANGED <<pc, word, awaited, deadline>>
  /\ UNCHANGED <<tableVars, callVars, clear, state, joined, late, reuses>>

\* pthread_detach(c): a_cas(&t->detach_state, DT_JOINABLE, DT_DYNAMIC), and a
\* join if that fails.
Detach(c) ==
  /\ pc[Joiner] = "next"
  /\ Joinable(c)
  /\ IF word[c] = JOINABLE
     THEN /\ SetState(c, DYNAMIC)
          /\ detached' = detached \cup {c}
          /\ UNCHANGED <<pc, awaited, deadline>>
     ELSE BeginJoin(c, FALSE) /\ UNCHANGED <<word, detached>>
  /\ UNCHANGED <<tableVars, callVars, clear, state, joined, late, reuses>>

\* while (state = t->detach_state): another round ...
Look ==
  /\ pc[Joiner] = "look"
  /\ word[awaited] # EXITED
  /\ state' = word[awaited]
  /\ Goto(Joiner, "wait")
  /\ UNCHANGED <<futexVars, clear, awaited, deadline, fateVars>>

EndJoin ==
  /\ awaited' = NULL
  /\ deadline' = FALSE
  /\ Goto(Joiner, "next")

\* ... or, at DT_EXITED, the end: the thread's memory is freed.
Join ==
  /\ pc[Joiner] = "look"
  /\ word[awaited] = EXITED
  /\ joined' = joined \cup {awaited}
  /\ EndJoin
  /\ UNCHANGED <<futexVars, clear, state, detached, late, reuses>>

\* __timedwait_cp(&t->detach_state, state, ...)
Wait ==
  /\ pc[Joiner] = "wait"
  /\ Call(Joiner, "wait", awaited, state)
  /\ state' = EXITED
  /\ Goto(Joiner, "waiting")
  /\ UNCHANGED <<word, clear, awaited, deadline, fateVars>>

Waited ==
  /\ pc[Joiner] = "waiting"
  /\ Finish(Joiner)
  /\ Goto(Joiner, "look")
  /\ UNCHANGED <<word, clear, joinerVars, fateVars>>

\* The deadline passes in the wait ...
TimeOut ==
  /\ pc[Joiner] = "waiting" /\ deadline
  /\ Expire(Joiner)
  /\ Goto(Joiner, "expired")
  /\ UNCHANGED <<clear, joinerVars, fateVars>>

\* ... and the join returns ETIMEDOUT, whatever the state is by then ...
GiveUp ==
  /\ pc[Joiner] = "expired"
  /\ Finish(Joiner)
  /\ EndJoin
  /\ UNCHANGED <<word, clear, state, fateVars>>

\* ... or it has passed before the wait, and no call is made.
TooLate ==
  /\ pc[Joiner] = "wait" /\ deadline
  /\ state' = EXITED
  /\ EndJoin
  /\ UNCHANGED <<futexVars, clear, fateVars>>

ChildStep(c) ==
  \/ SetTidAddress(c) \/ Stamp(c) \/ Register(c) \/ Run(c)
  \/ Exiting(c) \/ Unregister(c) \/ Exited(c) \/ Gone(c)
  \/ FutexStep(c) /\ UNCHANGED joinVars

JoinerStep ==
  \/ Look \/ Join \/ Wait \/ Waited \/ TimeOut \/ GiveUp \/ TooLate
  \/ \E c \in Children : Create(c) \/ Await(c) \/ Detach(c)
  \/ FutexStep(Joiner) /\ UNCHANGED joinVars

Next ==
  \/ JoinerStep
  \/ \E c \in Children : ChildStep(c)
  \/ \E e \in Entries : GoneLate(e)

Spec == Init /\ [][Next]_vars

\* A thread that can run is run, and the children's functions return.
FairSpec ==
  /\ Spec
  /\ WF_vars(JoinerStep)
  /\ \A c \in Children : WF_vars(ChildStep(c))
  /\ \A e \in Entries : WF_vars(GoneLate(e))
-----------------------------------------------------------------------------
\* The types of the state.
TypeOK ==
  /\ FutexTypeOK
  /\ pc \in [Threads -> {"next", "look", "wait", "waiting", "expired", "absent", "start",
                         "register", "stamped", "registered", "run", "unregister",
                         "exiting", "exited", "gone"}]
  /\ clear \in [Children -> Entries \cup {NULL}]
  /\ awaited \in Children \cup {NULL}
  /\ deadline \in BOOLEAN
  /\ state \in EXITED .. DYNAMIC
  /\ joined \subseteq Children
  /\ detached \subseteq Children
  /\ late \in [Entries -> Nat]
  /\ reuses \in 0 .. Reuses

\* When pthread_join returns and frees the thread's memory the thread has read
\* and written it for the last time: with the exit announced by the thread
\* itself and not by the kernel, only SYS_exit is still to come.
FreedAfterLastUse == \A c \in joined : pc[c] \in {"exited", "gone"}

\* pthread_join never traps (a_crash) on a thread that was detached: where
\* pthread_detach falls back on it, the thread has begun to exit for good.
NeverTraps == pc[Joiner] \in {"look", "wait"} => word[awaited] \notin {DETACHED, DYNAMIC}

\* The joiner never sleeps for a child that has left, unless a call met one of
\* the two races of the copied word: the kernel's clear and wake, on the word
\* set_tid_address registered, reach the word the joiner sleeps on.  That holds
\* also when the child lives in the memory of one that is still to be cleared.
StrandedOnlyByRace ==
  fpc[Joiner] = "asleep" /\ pc[awaited] = "gone" => raced

\* Every join returns: the comment at the hack says that with it the exit of a
\* thread is seen although the kernel's write does not reach detach_state.
JoinsReturn == \A c \in Children : awaited = c ~> awaited # c
=============================================================================
