----------------------------- MODULE SimpleMtx -----------------------------
(***************************************************************************)
(* The futex mutex of src/util/simple_mtx.h.  Each atomic instruction, each *)
(* plain access to the word and each system call is a step of its own.      *)
(***************************************************************************)
EXTENDS Futex

VARIABLES
  mtx_val,   \* mtx->val: 0 free, 1 locked, 2 locked and somebody may be waiting
  mtx_pc     \* where each thread is

mtx_vars == <<mtx_val, mtx_pc>>

MtxPCs == {"out",     \* not using the mutex
           "lock",    \* simple_mtx_lock: at the compare-and-swap
           "xchg",    \* at one of the two exchanges
           "wait",    \* at futex_wait
           "asleep",  \* in the kernel's queue of the word
           "in",      \* in the critical section
           "store",   \* simple_mtx_unlock: at `mtx->val = 0'
           "wake"}    \* at futex_wake

MtxInit == mtx_val = 0 /\ mtx_pc = [t \in Threads |-> "out"]

Goto(t, to) == mtx_pc' = [mtx_pc EXCEPT ![t] = to]

Lock(t) == mtx_pc[t] = "out" /\ Goto(t, "lock") /\ UNCHANGED mtx_val

\* The word of a mutex locked without contention.
LockedWord == 1

\* __sync_val_compare_and_swap(&mtx->val, 0, 1), and where its result leads.
CompareAndSwap(t) ==
  /\ mtx_pc[t] = "lock"
  /\ mtx_val' = IF mtx_val = 0 THEN LockedWord ELSE mtx_val
  /\ Goto(t, IF mtx_val = 0 THEN "in" ELSE IF mtx_val = 2 THEN "wait" ELSE "xchg")

\* The loop ends when the exchange found this value.
ExchangeGetsStale(c) == c # 2
ExchangeGets(c) == c = 0

\* c = __sync_lock_test_and_set(&mtx->val, 2), and the loop's test of c.
Exchange(t) ==
  /\ mtx_pc[t] = "xchg"
  /\ mtx_val' = 2
  /\ Goto(t, IF ExchangeGets(mtx_val) THEN "in" ELSE "wait")

\* futex_wait(&mtx->val, 2).
LockWait(t) ==
  /\ mtx_pc[t] = "wait"
  /\ Goto(t, IF FutexSleeps(mtx_val) THEN "asleep" ELSE "xchg")
  /\ UNCHANGED mtx_val

\* futex_wait may return early, when a signal arrives.
LockInterrupted(t) == mtx_pc[t] = "asleep" /\ Goto(t, "xchg") /\ UNCHANGED mtx_val

\* c = __sync_fetch_and_sub(&mtx->val, 1): if it was 1 nobody waits.
NobodyWaitsAlways == TRUE
NobodyWaits == mtx_val = 1

Unlock(t) ==
  /\ mtx_pc[t] = "in"
  /\ mtx_val' = mtx_val - 1
  /\ Goto(t, IF NobodyWaits THEN "out" ELSE "store")

Store(t) == mtx_pc[t] = "store" /\ mtx_val' = 0 /\ Goto(t, "wake")

\* futex_wake(&mtx->val, 1): one sleeper goes on, if there is one.
FutexWake(t) ==
  /\ mtx_pc[t] = "wake"
  /\ \/ \E s \in Threads :
          /\ mtx_pc[s] = "asleep"
          /\ mtx_pc' = [mtx_pc EXCEPT ![t] = "out", ![s] = "xchg"]
     \/ (\A s \in Threads : mtx_pc[s] # "asleep") /\ Goto(t, "out")
  /\ UNCHANGED mtx_val

Step(t) ==
  \/ CompareAndSwap(t) \/ Exchange(t) \/ LockWait(t) \/ Unlock(t) \/ Store(t)
  \/ FutexWake(t)

MtxNext == \E t \in Threads : Lock(t) \/ Step(t) \/ LockInterrupted(t)

\* A thread that can go on does, critical sections end; nothing has to interrupt
\* a sleeper.
MtxFairness == \A t \in Threads : WF_mtx_vars(Step(t))

MtxSpec == MtxInit /\ [][MtxNext]_mtx_vars
MtxFairSpec == MtxSpec /\ MtxFairness

-----------------------------------------------------------------------------
\* The word has one of its three values, each thread is somewhere.
MtxTypeOK == mtx_val \in 0 .. 2 /\ mtx_pc \in [Threads -> MtxPCs]

\* A thread that is in the critical section, or has left it and not yet written
\* the word.
Holds(t) == mtx_pc[t] \in {"in", "store"}

\* One holder at most.
MutualExclusion == \A t, u \in Threads : Holds(t) /\ Holds(u) => t = u

\* The word tells whether there is a holder (simple_mtx_assert_locked).
WordTellsHolder == mtx_val = 0 <=> \A t \in Threads : ~Holds(t)

\* No lost wakeup: while a thread sleeps the word says so, or a thread is on its
\* way that will write 2 or wake a sleeper.
SleepersRemembered ==
  (\E s \in Threads : mtx_pc[s] = "asleep") =>
     \/ mtx_val = 2
     \/ \E t \in Threads : mtx_pc[t] \in {"xchg", "store", "wake"}

\* The mutex does not get stuck: if somebody wants it, somebody gets it.  (It is
\* not fair: a given thread may wait forever.)
SomebodyGetsIn ==
  (\E t \in Threads : mtx_pc[t] \in {"lock", "xchg", "wait", "asleep"})
     ~> (\E t \in Threads : mtx_pc[t] = "in")

\* The mutex that its users see: one holder, and the release before the next one.
AbstractMutex == INSTANCE AbstractLock WITH
  holders <- {t \in Threads : mtx_pc[t] = "in"}
ImplementsLock == AbstractMutex!Spec
=============================================================================
