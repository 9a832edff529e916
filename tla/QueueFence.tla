----------------------------- MODULE QueueFence -----------------------------
(***************************************************************************)
(* struct util_queue_fence of src/util/u_queue.h as it is built where there *)
(* are futexes: one word, reset by the thread that adds a job, signalled by *)
(* the worker that has executed it, waited for by any number of threads,    *)
(* and used again for the next job.  Each atomic instruction, each read of  *)
(* the word and each system call is a step.                                 *)
(***************************************************************************)
EXTENDS Futex    \* Threads: those that wait for the fence

CONSTANT Workers \* threads that signal it

VARIABLES
  val,    \* fence->val: 0 signalled, 1 unsignalled, 2 the same with waiters
  wpc,    \* the workers: "idle", "run" a job with this fence, or "wake"
  pc,     \* the waiting threads
  timed   \* the threads that wait with a timeout

vars == <<val, wpc, pc, timed>>

PCs == {"true", "false",  \* not waiting; how the last wait ended
        "read",           \* at `v = fence->val'
        "cmpxchg", "futex_wait", "asleep"}

Init ==
  /\ val = 0 /\ wpc = [w \in Workers |-> "idle"]
  /\ pc = [t \in Threads |-> "true"] /\ timed = {}

\* `assert(v == 0)' of util_queue_fence_reset.
MayResetAlways == TRUE
MayReset == val = 0

\* util_queue_fence_reset, for a job that worker w will execute.  The caller
\* ensures that the fence is signalled and nobody waits or is about to; the
\* worker that signalled it last may not have come to its futex_wake yet.
Reset(w) ==
  /\ MayReset /\ wpc[w] = "idle" /\ \A t \in Threads : pc[t] \in {"true", "false"}
  /\ val' = 1
  /\ wpc' = [wpc EXCEPT ![w] = "run"]
  /\ UNCHANGED <<pc, timed>>

\* The value that makes the signaller call futex_wake.
MustWakeOnOne(v) == v = 1
MustWake(v) == v = 2

\* util_queue_fence_signal: p_atomic_xchg(&fence->val, 0) ...
Signal(w) ==
  /\ wpc[w] = "run"
  /\ val' = 0
  /\ wpc' = [wpc EXCEPT ![w] = IF MustWake(val) THEN "wake" ELSE "idle"]
  /\ UNCHANGED <<pc, timed>>

\* ... and futex_wake(&fence->val, INT_MAX).
Woken == {t \in Threads : pc[t] = "asleep"}

Wake(w) ==
  /\ wpc[w] = "wake"
  /\ wpc' = [wpc EXCEPT ![w] = "idle"]
  /\ pc' = [t \in Threads |-> IF t \in Woken THEN "read" ELSE pc[t]]
  /\ UNCHANGED <<val, timed>>

\* util_queue_fence_wait, util_queue_fence_wait_timeout.
Wait(t) ==
  /\ pc[t] \in {"true", "false"}
  /\ pc' = [pc EXCEPT ![t] = "read"]
  /\ timed' \in {timed \cup {t}, timed \ {t}}
  /\ UNCHANGED <<val, wpc>>

\* The word is read: before the loop and at its end.
Read(t) ==
  /\ pc[t] = "read"
  /\ pc' = [pc EXCEPT ![t] = IF val = 0 THEN "true"
                             ELSE IF val = 2 THEN "futex_wait" ELSE "cmpxchg"]
  /\ UNCHANGED <<val, wpc, timed>>

\* The word after p_atomic_cmpxchg(&fence->val, 1, 2).
Announced == IF val = 1 THEN 2 ELSE val

\* v = p_atomic_cmpxchg(&fence->val, 1, 2): the fence may be signalled by now.
AfterCmpxchgTrue(v) == "true"
AfterCmpxchg(v) == IF v = 0 THEN "true" ELSE "futex_wait"

Cmpxchg(t) ==
  /\ pc[t] = "cmpxchg"
  /\ val' = Announced
  /\ pc' = [pc EXCEPT ![t] = AfterCmpxchg(val)]
  /\ UNCHANGED <<wpc, timed>>

\* futex_wait(&fence->val, 2, ...): sleep if the word still is 2.
FutexWait(t) ==
  /\ pc[t] = "futex_wait"
  /\ pc' = [pc EXCEPT ![t] = IF FutexSleeps(val) THEN "asleep" ELSE "read"]
  /\ UNCHANGED <<val, wpc, timed>>

\* A signal interrupts the sleep.
Interrupted(t) ==
  /\ pc[t] = "asleep"
  /\ pc' = [pc EXCEPT ![t] = "read"]
  /\ UNCHANGED <<val, wpc, timed>>

\* The kernel returns ETIMEDOUT.
TimedOut(t) ==
  /\ pc[t] = "asleep" /\ t \in timed
  /\ pc' = [pc EXCEPT ![t] = "false"]
  /\ UNCHANGED <<val, wpc, timed>>

WorkerStep(w) == Signal(w) \/ Wake(w)
WaiterStep(t) == Read(t) \/ Cmpxchg(t) \/ FutexWait(t)

Next ==
  \/ \E w \in Workers : Reset(w) \/ WorkerStep(w)
  \/ \E t \in Threads : Wait(t) \/ WaiterStep(t) \/ Interrupted(t) \/ TimedOut(t)

\* Threads that can go on do; jobs end.  No interruption and no timeout need come.
Fairness ==
  /\ \A w \in Workers : WF_vars(WorkerStep(w))
  /\ \A t \in Threads : WF_vars(WaiterStep(t))

Spec == Init /\ [][Next]_vars
FairSpec == Spec /\ Fairness

-----------------------------------------------------------------------------
\* The word has one of the three values its comment lists.
TypeOK ==
  /\ val \in 0 .. 2
  /\ wpc \in [Workers -> {"idle", "run", "wake"}]
  /\ pc \in [Threads -> PCs]
  /\ timed \in SUBSET Threads

\* `assert(val != 0)' in util_queue_fence_signal: the fence a worker is going to
\* signal is unsignalled, and it is the only worker to do so.
SignalFindsUnsignalled ==
  \A w \in Workers :
    wpc[w] = "run" => val # 0 /\ \A v \in Workers : wpc[v] = "run" => v = w

\* No lost wakeup: a thread that sleeps has the word at 2, or a worker is about
\* to wake it; also after the fence was reset for another job.
SleepersWillWake ==
  (\E t \in Threads : pc[t] = "asleep") => val = 2 \/ \E w \in Workers : wpc[w] = "wake"

\* A wait comes to an end.
WaitReturns ==
  \A t \in Threads : (pc[t] \notin {"true", "false"}) ~> (pc[t] \in {"true", "false"})

\* The fence is the abstract fence that UtilQueue uses.
Abstract == INSTANCE AbstractFence WITH
  unsignalled <- IF val = 0 THEN {} ELSE {"fence"},
  wait <- [t \in Threads |-> IF pc[t] \in {"true", "false"} THEN pc[t]
                             ELSE IF t \in timed THEN "timed" ELSE "waiting"]
ImplementsFence == Abstract!Spec
=============================================================================
