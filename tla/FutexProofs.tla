---------------------------- MODULE FutexProofs ----------------------------
(***************************************************************************)
(* Proofs about the two things util builds from a futex: the fence of a job *)
(* and the mutex, for any sets of threads and workers.                      *)
(***************************************************************************)
EXTENDS QueueFence, SimpleMtx, TLAPS

-----------------------------------------------------------------------------
(***************************************************************************)
(* The fence                                                                *)
(***************************************************************************)
\* The word is 0 unless some worker is going to signal the fence.
FenceInv == TypeOK /\ SignalFindsUnsignalled /\ SleepersWillWake

\* It holds for a fresh fence,
LEMMA InitFence == Init => FenceInv
BY DEF Init, FenceInv, TypeOK, PCs, SignalFindsUnsignalled, SleepersWillWake

\* Every step of a worker or a waiting thread preserves the invariant.
LEMMA StepFence == FenceInv /\ [Next]_vars => FenceInv'
<1> SUFFICES ASSUME FenceInv, [Next]_vars PROVE FenceInv'
  OBVIOUS
<1> USE DEF FenceInv, TypeOK, PCs, SignalFindsUnsignalled, SleepersWillWake
<1>1. ASSUME NEW w \in Workers, Reset(w) PROVE FenceInv'
  BY <1>1 DEF Reset, MayReset
<1>2. ASSUME NEW w \in Workers, Signal(w) PROVE FenceInv'
  <2>1. CASE val = 2
    BY <1>2, <2>1 DEF Signal, MustWake
  <2>2. CASE val = 1
    BY <1>2, <2>2 DEF Signal, MustWake
  <2> QED BY <1>2, <2>1, <2>2 DEF Signal
<1>3. ASSUME NEW w \in Workers, Wake(w) PROVE FenceInv'
  BY <1>3 DEF Wake, Woken
<1>4. ASSUME NEW t \in Threads, Wait(t) PROVE FenceInv'
  BY <1>4 DEF Wait
<1>5. ASSUME NEW t \in Threads, Read(t) PROVE FenceInv'
  BY <1>5 DEF Read
<1>6. ASSUME NEW t \in Threads, Cmpxchg(t) PROVE FenceInv'
  <2>1. CASE val = 1
    BY <1>6, <2>1 DEF Cmpxchg, Announced, AfterCmpxchg
  <2>2. CASE val # 1
    BY <1>6, <2>2 DEF Cmpxchg, Announced, AfterCmpxchg
  <2> QED BY <2>1, <2>2
<1>7. ASSUME NEW t \in Threads, FutexWait(t) PROVE FenceInv'
  <2>1. CASE val = 2
    BY <1>7, <2>1 DEF FutexWait, FutexSleeps
  <2>2. CASE val # 2
    BY <1>7, <2>2 DEF FutexWait, FutexSleeps
  <2> QED BY <2>1, <2>2
<1>8. ASSUME NEW t \in Threads, Interrupted(t) PROVE FenceInv'
  BY <1>8 DEF Interrupted
<1>9. ASSUME NEW t \in Threads, TimedOut(t) PROVE FenceInv'
  BY <1>9 DEF TimedOut
<1>10. CASE UNCHANGED vars
  BY <1>10 DEF vars
<1> QED
  BY <1>1, <1>2, <1>3, <1>4, <1>5, <1>6, <1>7, <1>8, <1>9, <1>10
  DEF Next, WorkerStep, WaiterStep

\* and therefore always.
LEMMA FenceInvariant == Spec => []FenceInv
BY InitFence, StepFence, PTL DEF Spec

\* The assertion of util_queue_fence_signal never fails.
THEOREM FenceAssertion == Spec => []SignalFindsUnsignalled
<1>1. FenceInv => SignalFindsUnsignalled
  BY DEF FenceInv
<1> QED
  BY <1>1, FenceInvariant, PTL

\* No thread that sleeps in futex_wait is forgotten, however often the fence is
\* used again.
THEOREM FenceWakes == Spec => []SleepersWillWake
<1>1. FenceInv => SleepersWillWake
  BY DEF FenceInv
<1> QED
  BY <1>1, FenceInvariant, PTL

\* The futex fence implements the fence that module UtilQueue assumes.
THEOREM FenceIsFence == Spec => ImplementsFence
<1> DEFINE Unsig == IF val = 0 THEN {} ELSE {"fence"}
           View == [t \in Threads |-> IF pc[t] \in {"true", "false"} THEN pc[t]
                                      ELSE IF t \in timed THEN "timed" ELSE "waiting"]
           Same == Unsig' = Unsig /\ View' = View
<1>1. Init => Abstract!Init
  BY DEF Init, Abstract!Init
<1>2. FenceInv /\ [Next]_vars => [Abstract!Next]_(Abstract!vars)
  <2> SUFFICES ASSUME FenceInv, [Next]_vars PROVE Abstract!Next \/ Same
    BY DEF Abstract!vars
  <2> USE DEF FenceInv, TypeOK, PCs
  <2>1. ASSUME NEW w \in Workers, Reset(w) PROVE Abstract!Next
    <3>1. Abstract!Reset
      BY <2>1 DEF Reset, MayReset, Abstract!Reset, Abstract!Waiting
    <3> QED BY <3>1 DEF Abstract!Next
  <2>2. ASSUME NEW w \in Workers, Signal(w) PROVE Abstract!Next
    <3>1. Abstract!Signal
      BY <2>2 DEF Signal, SignalFindsUnsignalled, Abstract!Signal
    <3> QED BY <3>1 DEF Abstract!Next
  <2>3. ASSUME NEW w \in Workers, Wake(w) PROVE Same
    BY <2>3 DEF Wake, Woken
  <2>4. ASSUME NEW t \in Threads, Wait(t) PROVE Abstract!Next
    <3>1. View[t] \notin {"waiting", "timed"} /\ Unsig' = Unsig
      BY <2>4 DEF Wait
    <3>2. \E how \in {"waiting", "timed"} : View' = [View EXCEPT ![t] = how]
      <4>1. CASE timed' = timed \cup {t}
        <5>1. View' = [View EXCEPT ![t] = "timed"]
          BY <2>4, <4>1 DEF Wait
        <5> QED BY <5>1
      <4>2. CASE timed' = timed \ {t}
        <5>1. View' = [View EXCEPT ![t] = "waiting"]
          BY <2>4, <4>2 DEF Wait
        <5> QED BY <5>1
      <4> QED BY <2>4, <4>1, <4>2 DEF Wait
    <3>3. Abstract!Begin(t)
      BY <3>1, <3>2 DEF Abstract!Begin, Abstract!Waiting
    <3> QED BY <3>3 DEF Abstract!Next
  <2>5. ASSUME NEW t \in Threads, pc[t] \notin {"true", "false"}, val = 0,
               pc' = [pc EXCEPT ![t] = "true"], UNCHANGED <<val, timed>>
        PROVE  Abstract!Next
    <3>1. View[t] \in {"waiting", "timed"} /\ Unsig = {} /\ Unsig' = Unsig
      BY <2>5
    <3>2. View' = [View EXCEPT ![t] = "true"]
      BY <2>5
    <3>3. Abstract!ReturnTrue(t)
      BY <3>1, <3>2 DEF Abstract!ReturnTrue, Abstract!Waiting
    <3> QED BY <3>3 DEF Abstract!Next
  <2>6. ASSUME NEW t \in Threads, Read(t) PROVE Abstract!Next \/ Same
    <3>1. CASE val = 0
      BY <2>5, <2>6, <3>1 DEF Read
    <3>2. CASE val # 0
      BY <2>6, <3>2 DEF Read
    <3> QED BY <3>1, <3>2
  <2>7. ASSUME NEW t \in Threads, Cmpxchg(t) PROVE Abstract!Next \/ Same
    <3>1. CASE val = 0
      BY <2>5, <2>7, <3>1 DEF Cmpxchg, Announced, AfterCmpxchg
    <3>2. CASE val # 0
      BY <2>7, <3>2 DEF Cmpxchg, Announced, AfterCmpxchg
    <3> QED BY <3>1, <3>2
  <2>8. ASSUME NEW t \in Threads, FutexWait(t) PROVE Same
    BY <2>8 DEF FutexWait
  <2>9. ASSUME NEW t \in Threads, Interrupted(t) PROVE Same
    BY <2>9 DEF Interrupted
  <2>10. ASSUME NEW t \in Threads, TimedOut(t) PROVE Abstract!Next
    <3>1. View[t] = "timed" /\ Unsig' = Unsig
      BY <2>10 DEF TimedOut
    <3>2. View' = [View EXCEPT ![t] = "false"]
      BY <2>10 DEF TimedOut
    <3>3. Abstract!ReturnFalse(t)
      BY <3>1, <3>2 DEF Abstract!ReturnFalse
    <3> QED BY <3>3 DEF Abstract!Next
  <2>11. CASE UNCHANGED vars
    BY <2>11 DEF vars
  <2> QED
    BY <2>1, <2>2, <2>3, <2>4, <2>6, <2>7, <2>8, <2>9, <2>10, <2>11
    DEF Next, WorkerStep, WaiterStep
<1> QED
  BY <1>1, <1>2, FenceInvariant, PTL DEF Spec, ImplementsFence, Abstract!Spec

-----------------------------------------------------------------------------
(***************************************************************************)
(* The mutex                                                                *)
(***************************************************************************)
\* Mutual exclusion is not inductive without the meaning of the word: a thread
\* enters on finding 0, so 0 must mean that there is no holder.
LockInv == MtxTypeOK /\ MutualExclusion /\ WordTellsHolder

\* The word of the mutex always tells whether there is a holder, of which there
\* is one at most.
THEOREM LockInvariant == MtxSpec => []LockInv
<1>1. MtxInit => LockInv
  BY DEF MtxInit, LockInv, MtxTypeOK, MtxPCs, MutualExclusion, WordTellsHolder, Holds
<1>2. LockInv /\ [MtxNext]_mtx_vars => LockInv'
  <2> SUFFICES ASSUME LockInv, [MtxNext]_mtx_vars PROVE LockInv'
    OBVIOUS
  <2> USE DEF LockInv, MtxTypeOK, MtxPCs, MutualExclusion, WordTellsHolder, Holds, Goto
  <2>1. ASSUME NEW t \in Threads, Lock(t) PROVE LockInv'
    BY <2>1 DEF Lock
  <2>2. ASSUME NEW t \in Threads, CompareAndSwap(t) PROVE LockInv'
    <3>1. CASE mtx_val = 0
      BY <2>2, <3>1 DEF CompareAndSwap, LockedWord
    <3>2. CASE mtx_val # 0
      BY <2>2, <3>2 DEF CompareAndSwap
    <3> QED BY <3>1, <3>2
  <2>3. ASSUME NEW t \in Threads, Exchange(t) PROVE LockInv'
    <3>1. CASE mtx_val = 0
      BY <2>3, <3>1 DEF Exchange, ExchangeGets
    <3>2. CASE mtx_val # 0
      BY <2>3, <3>2 DEF Exchange, ExchangeGets
    <3> QED BY <3>1, <3>2
  <2>4. ASSUME NEW t \in Threads, LockWait(t) PROVE LockInv'
    BY <2>4 DEF LockWait, FutexSleeps
  <2>5. ASSUME NEW t \in Threads, Unlock(t) PROVE LockInv'
    <3>1. CASE mtx_val = 1
      BY <2>5, <3>1 DEF Unlock, NobodyWaits
    <3>2. CASE mtx_val # 1
      BY <2>5, <3>2 DEF Unlock, NobodyWaits
    <3> QED BY <3>1, <3>2
  <2>6. ASSUME NEW t \in Threads, Store(t) PROVE LockInv'
    BY <2>6 DEF Store
  <2>7. ASSUME NEW t \in Threads, FutexWake(t) PROVE LockInv'
    <3>1. CASE \E s \in Threads : /\ mtx_pc[s] = "asleep"
                                  /\ mtx_pc' = [mtx_pc EXCEPT ![t] = "out", ![s] = "xchg"]
      <4> PICK s \in Threads : /\ mtx_pc[s] = "asleep"
                               /\ mtx_pc' = [mtx_pc EXCEPT ![t] = "out", ![s] = "xchg"]
        BY <3>1
      <4> QED BY <2>7 DEF FutexWake
    <3>2. CASE Goto(t, "out")
      BY <2>7, <3>2 DEF FutexWake
    <3> QED BY <2>7, <3>1, <3>2 DEF FutexWake
  <2>8. ASSUME NEW t \in Threads, LockInterrupted(t) PROVE LockInv'
    BY <2>8 DEF LockInterrupted
  <2>9. CASE UNCHANGED mtx_vars
    BY <2>9 DEF mtx_vars
  <2> QED
    BY <2>1, <2>2, <2>3, <2>4, <2>5, <2>6, <2>7, <2>8, <2>9 DEF MtxNext, Step
<1> QED
  BY <1>1, <1>2, PTL DEF MtxSpec

\* At most one thread is between simple_mtx_lock and the write of 0 in
\* simple_mtx_unlock.
THEOREM MutexExcludes == MtxSpec => []MutualExclusion
<1>1. LockInv => MutualExclusion
  BY DEF LockInv
<1> QED
  BY <1>1, LockInvariant, PTL

\* A thread asleep in futex_wait is never forgotten: the word is 2, or a thread
\* is about to write 2 or to wake one.
THEOREM MutexRemembers == MtxSpec => []SleepersRemembered
<1>1. MtxInit => SleepersRemembered
  BY DEF MtxInit, SleepersRemembered
<1>2. LockInv /\ SleepersRemembered /\ [MtxNext]_mtx_vars => SleepersRemembered'
  <2> SUFFICES ASSUME LockInv, SleepersRemembered, [MtxNext]_mtx_vars
               PROVE SleepersRemembered'
    OBVIOUS
  <2> USE DEF LockInv, MtxTypeOK, MtxPCs, SleepersRemembered, Goto
  <2>1. ASSUME NEW t \in Threads, Lock(t) PROVE SleepersRemembered'
    BY <2>1 DEF Lock
  <2>2. ASSUME NEW t \in Threads, CompareAndSwap(t) PROVE SleepersRemembered'
    <3>1. CASE mtx_val = 0
      BY <2>2, <3>1 DEF CompareAndSwap, LockedWord
    <3>2. CASE mtx_val # 0
      BY <2>2, <3>2 DEF CompareAndSwap
    <3> QED BY <3>1, <3>2
  <2>3. ASSUME NEW t \in Threads, Exchange(t) PROVE SleepersRemembered'
    BY <2>3 DEF Exchange
  <2>4. ASSUME NEW t \in Threads, LockWait(t) PROVE SleepersRemembered'
    <3>1. CASE mtx_val = 2
      BY <2>4, <3>1 DEF LockWait, FutexSleeps
    <3>2. CASE mtx_val # 2
      BY <2>4, <3>2 DEF LockWait, FutexSleeps
    <3> QED BY <3>1, <3>2
  <2>5. ASSUME NEW t \in Threads, Unlock(t) PROVE SleepersRemembered'
    <3>1. CASE mtx_val = 1
      <4>1. \A u \in Threads : mtx_pc[u] # "store"
        BY <2>5 DEF Unlock, MutualExclusion, Holds
      <4> QED BY <2>5, <3>1, <4>1 DEF Unlock, NobodyWaits
    <3>2. CASE mtx_val # 1
      BY <2>5, <3>2 DEF Unlock, NobodyWaits
    <3> QED BY <3>1, <3>2
  <2>6. ASSUME NEW t \in Threads, Store(t) PROVE SleepersRemembered'
    BY <2>6 DEF Store
  <2>7. ASSUME NEW t \in Threads, FutexWake(t) PROVE SleepersRemembered'
    <3>1. CASE \E s \in Threads : /\ mtx_pc[s] = "asleep"
                                  /\ mtx_pc' = [mtx_pc EXCEPT ![t] = "out", ![s] = "xchg"]
      <4> PICK s \in Threads : /\ mtx_pc[s] = "asleep"
                               /\ mtx_pc' = [mtx_pc EXCEPT ![t] = "out", ![s] = "xchg"]
        BY <3>1
      <4> QED BY <2>7 DEF FutexWake
    <3>2. CASE (\A s \in Threads : mtx_pc[s] # "asleep") /\ Goto(t, "out")
      BY <2>7, <3>2 DEF FutexWake
    <3> QED BY <2>7, <3>1, <3>2 DEF FutexWake
  <2>8. ASSUME NEW t \in Threads, LockInterrupted(t) PROVE SleepersRemembered'
    BY <2>8 DEF LockInterrupted
  <2>9. CASE UNCHANGED mtx_vars
    BY <2>9 DEF mtx_vars
  <2> QED
    BY <2>1, <2>2, <2>3, <2>4, <2>5, <2>6, <2>7, <2>8, <2>9 DEF MtxNext, Step
<1> QED
  BY <1>1, <1>2, LockInvariant, PTL DEF MtxSpec

\* What the users of the mutex see is a lock: a step of the implementation lets
\* one thread in while nobody is, takes the one out, or changes nothing.
THEOREM MutexIsLock == MtxSpec => ImplementsLock
<1> DEFINE holders == {t \in Threads : mtx_pc[t] = "in"}
<1>1. MtxInit => AbstractMutex!Init
  BY DEF MtxInit, AbstractMutex!Init
<1>2. LockInv /\ [MtxNext]_mtx_vars => [AbstractMutex!Next]_(holders)
  <2> SUFFICES ASSUME LockInv, [MtxNext]_mtx_vars
               PROVE  AbstractMutex!Next \/ holders' = holders
    OBVIOUS
  <2> USE DEF LockInv, MtxTypeOK, MtxPCs, Goto
  <2>1. ASSUME NEW t \in Threads, mtx_val = 0, mtx_pc' = [mtx_pc EXCEPT ![t] = "in"]
        PROVE  AbstractMutex!Next
    <3>1. holders = {}
      BY <2>1 DEF WordTellsHolder, Holds
    <3>2. holders' = {t}
      BY <2>1, <3>1
    <3> QED BY <3>1, <3>2 DEF AbstractMutex!Next, AbstractMutex!Acquire
  <2>2. ASSUME NEW t \in Threads, Unlock(t) PROVE AbstractMutex!Next
    <3>1. holders = {t}
      BY <2>2 DEF Unlock, MutualExclusion, Holds
    <3>2. holders' = {}
      BY <2>2, <3>1 DEF Unlock, NobodyWaits
    <3> QED BY <3>1, <3>2 DEF AbstractMutex!Next, AbstractMutex!Release
  <2>3. ASSUME NEW t \in Threads, CompareAndSwap(t)
        PROVE  AbstractMutex!Next \/ holders' = holders
    <3>1. CASE mtx_val = 0
      BY <2>1, <2>3, <3>1 DEF CompareAndSwap
    <3>2. CASE mtx_val # 0
      BY <2>3, <3>2 DEF CompareAndSwap
    <3> QED BY <3>1, <3>2
  <2>4. ASSUME NEW t \in Threads, Exchange(t)
        PROVE  AbstractMutex!Next \/ holders' = holders
    <3>1. CASE mtx_val = 0
      BY <2>1, <2>4, <3>1 DEF Exchange, ExchangeGets
    <3>2. CASE mtx_val # 0
      BY <2>4, <3>2 DEF Exchange, ExchangeGets
    <3> QED BY <3>1, <3>2
  <2>5. ASSUME NEW t \in Threads, FutexWake(t) PROVE holders' = holders
    <3>1. CASE \E s \in Threads : /\ mtx_pc[s] = "asleep"
                                  /\ mtx_pc' = [mtx_pc EXCEPT ![t] = "out", ![s] = "xchg"]
      <4> PICK s \in Threads : /\ mtx_pc[s] = "asleep"
                               /\ mtx_pc' = [mtx_pc EXCEPT ![t] = "out", ![s] = "xchg"]
        BY <3>1
      <4> QED BY <2>5 DEF FutexWake
    <3>2. CASE Goto(t, "out")
      BY <2>5, <3>2 DEF FutexWake
    <3> QED BY <2>5, <3>1, <3>2 DEF FutexWake
  <2>6. ASSUME NEW t \in Threads, Lock(t) \/ LockWait(t) \/ Store(t) \/ LockInterrupted(t)
        PROVE  holders' = holders
    BY <2>6 DEF Lock, LockWait, Store, LockInterrupted
  <2>7. CASE UNCHANGED mtx_vars
    BY <2>7 DEF mtx_vars
  <2> QED
    BY <2>2, <2>3, <2>4, <2>5, <2>6, <2>7 DEF MtxNext, Step
<1> QED
  BY <1>1, <1>2, LockInvariant, PTL DEF MtxSpec, ImplementsLock, AbstractMutex!Spec
=============================================================================
