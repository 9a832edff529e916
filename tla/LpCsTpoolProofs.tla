-------------------------- MODULE LpCsTpoolProofs --------------------------
(***************************************************************************)
(* Proofs about the compute thread pool, for any number of contexts and     *)
(* threads and grids of any size.                                           *)
(***************************************************************************)
EXTENDS LpCsTpool, FiniteSetTheorems, TLAPS

\* The workers between taking an iteration and counting it as finished.
Busy == {w \in Workers : wpc[w] \in {"work", "worked"}}

\* A context between mtx_lock(&screen->cs_mutex) and mtx_unlock is the holder.
MutexInv ==
  \A c \in Contexts :
    cpc[c] \in {"queue", "check", "asleep", "unlock"} <=> cs_mutex = c

\* The task of a context is allocated while the context waits for it.
TasksInv == \A c \in Contexts : c \in tasks <=> cpc[c] \in {"check", "asleep"}

\* A grid not yet queued has not been begun.
FreshInv ==
  \A c \in Contexts : cpc[c] \in {"lock", "queue"} =>
    iter_start[c] = 0 /\ iter_finished[c] = 0 /\ iter_total[c] > 0 /\ executed[c] = {}

\* The one task that can be in the queue is there while iterations are left.
QueueInv ==
  /\ workqueue # <<>> => \E c \in tasks : workqueue = <<c>>
  /\ \A c \in tasks : IF workqueue = <<>> THEN iter_start[c] = iter_total[c]
                      ELSE iter_start[c] < iter_total[c]

\* The iterations that the workers have in their hands.
WorkersInv ==
  \A w \in Busy :
    /\ wtask[w] \in tasks
    /\ witer[w] < iter_start[wtask[w]]
    /\ wpc[w] = "work" => witer[w] \notin executed[wtask[w]]
    /\ \A v \in Busy \ {w} : witer[v] # witer[w]

\* Every iteration handed out has been run or is at a worker.
ExecutedInv ==
  \A c \in tasks : \A i \in 0 .. MaxIters :
    i < iter_start[c] => \/ i \in executed[c]
                         \/ \E w \in Workers : wpc[w] = "work" /\ witer[w] = i

\* Only iterations of the grid that were handed out have been run.
ExecutedBound ==
  \A c \in tasks : \A i \in executed[c] : i < iter_start[c]

\* Every iteration handed out is finished or is at a worker.
CountInv == \A c \in tasks : iter_finished[c] + Cardinality(Busy) = iter_start[c]

IInv ==
  /\ TypeOK /\ MutexInv /\ TasksInv /\ FreshInv /\ QueueInv /\ WorkersInv
  /\ ExecutedInv /\ ExecutedBound /\ CountInv /\ GridComplete

-----------------------------------------------------------------------------
\* Finitely many workers are busy.
LEMMA BusyFinite == IsFiniteSet(Busy) /\ Cardinality(Busy) \in Nat
<1>1. IsFiniteSet(Workers)
  BY PoolAssumption, FS_Interval DEF Workers
<1>2. Busy \in SUBSET Workers
  BY DEF Busy
<1> QED
  BY <1>1, <1>2, FS_Subset, FS_CardinalityType

\* cs_mutex admits one task at a time.
LEMMA OneTask ==
  ASSUME IInv, NEW c \in tasks, NEW d \in tasks
  PROVE  c = d /\ c \in Contexts
BY DEF IInv, TypeOK, MutexInv, TasksInv

\* A context that holds cs_mutex without waiting for its task has no task, nor
\* has any other context; the queue is empty and all workers are idle.
LEMMA NoTaskPending ==
  ASSUME IInv, NEW c \in Contexts, cpc[c] \in {"queue", "unlock"}
  PROVE  tasks = {} /\ workqueue = <<>> /\ Busy = {}
<1>1. tasks = {}
  BY DEF IInv, TypeOK, MutexInv, TasksInv
<1>2. workqueue = <<>> /\ Busy = {}
  BY <1>1 DEF IInv, QueueInv, WorkersInv
<1> QED
  BY <1>1, <1>2

\* The pool begins without tasks.
LEMMA InitIInv == ASSUME Init PROVE IInv
<1>1. MaxIters \in Nat /\ MaxThreads \in Nat /\ NoContext \notin Contexts
  BY PoolAssumption
<1>2. wpc \in [Workers -> {"loop", "none"}]
  BY DEF Init
<1>3. TypeOK
  <2>1. workqueue \in Seq(Contexts) /\ executed \in [Contexts -> SUBSET (0 .. MaxIters - 1)]
    BY DEF Init
  <2>2. wpc \in [Workers -> WorkerPCs] /\ witer \in [Workers -> 0 .. MaxIters]
    BY <1>1, <1>2 DEF Init, WorkerPCs
  <2>3. /\ iter_total \in [Contexts -> 0 .. MaxIters]
        /\ iter_start \in [Contexts -> 0 .. MaxIters]
        /\ iter_finished \in [Contexts -> 0 .. MaxIters]
    BY <1>1 DEF Init
  <2> QED
    BY <2>1, <2>2, <2>3 DEF Init, TypeOK, ContextPCs
<1>4. Busy = {}
  BY <1>2 DEF Busy
<1>5. MutexInv /\ TasksInv /\ FreshInv /\ GridComplete
  BY <1>1 DEF Init, MutexInv, TasksInv, FreshInv, GridComplete
<1> QED
  BY <1>3, <1>4, <1>5 DEF Init, IInv, QueueInv, WorkersInv, ExecutedInv, ExecutedBound,
     CountInv

\* A step that leaves the tasks, what has been run and the workers' iterations
\* alone keeps the parts of the invariant about them.
LEMMA QuietStep ==
  ASSUME IInv, UNCHANGED <<iters, workqueue, executed, wtask, witer>>,
         wpc' \in [Workers -> WorkerPCs],
         \A w \in Workers : wpc[w] \in {"work", "worked"} => wpc'[w] = wpc[w],
         \A w \in Workers : wpc'[w] \in {"work", "worked"} => wpc'[w] = wpc[w]
  PROVE  QueueInv' /\ WorkersInv' /\ ExecutedInv' /\ ExecutedBound' /\ CountInv'
<1>1. Busy' = Busy
  BY DEF Busy
<1>2. \A w \in Workers : wpc'[w] = "work" <=> wpc[w] = "work"
  OBVIOUS
<1>3. UNCHANGED <<iter_total, iter_start, iter_finished, tasks>>
  BY DEF iters
<1>4. QueueInv' /\ CountInv'
  BY <1>1, <1>3 DEF IInv, QueueInv, CountInv
<1>5. WorkersInv'
  BY <1>1, <1>2, <1>3 DEF IInv, WorkersInv, Busy
<1>6. ExecutedInv' /\ ExecutedBound'
  BY <1>2, <1>3 DEF IInv, ExecutedInv, ExecutedBound
<1> QED
  BY <1>4, <1>5, <1>6

\* A worker goes to sleep, wakes up or ends.
LEMMA IdleStepKept ==
  ASSUME IInv, NEW w \in Workers, WorkerSleep(w) \/ WorkerExit(w) \/ WorkerSpurious(w)
  PROVE  IInv'
<1>1. /\ UNCHANGED <<iters, workqueue, executed, wtask, witer>>
      /\ wpc' \in [Workers -> WorkerPCs]
      /\ \A v \in Workers : wpc[v] \in {"work", "worked"} => wpc'[v] = wpc[v]
      /\ \A v \in Workers : wpc'[v] \in {"work", "worked"} => wpc'[v] = wpc[v]
  BY DEF IInv, TypeOK, WorkerPCs, WorkerSleep, WorkerExit, WorkerSpurious, hist, pool
<1>2. UNCHANGED <<iters, pool, hist, wtask, witer, cs_mutex, cpc>>
  BY DEF WorkerSleep, WorkerExit, WorkerSpurious
<1>3. TypeOK'
  BY <1>1, <1>2 DEF IInv, TypeOK, iters, pool, hist
<1>4. MutexInv' /\ TasksInv' /\ FreshInv' /\ GridComplete'
  BY <1>2 DEF IInv, MutexInv, TasksInv, FreshInv, GridComplete, iters, hist
<1> QED
  BY <1>1, <1>3, <1>4, QuietStep DEF IInv

\* Steps of a context between its calls, on cs_mutex, or without memory.
LEMMA CallStepKept ==
  ASSUME IInv, NEW c \in Contexts,
         \/ LockCs(c) \/ QueueFails(c) \/ UnlockCs(c) \/ WaitSpurious(c)
         \/ DestroyContext(c)
  PROVE  IInv'
<1>1. /\ UNCHANGED <<iters, pool, worker, executed>>
      /\ UNCHANGED <<wpc, wtask, witer, workqueue>>
  BY DEF LockCs, QueueFails, UnlockCs, WaitSpurious, DestroyContext, hist, worker, pool
<1>2. QueueInv' /\ WorkersInv' /\ ExecutedInv' /\ ExecutedBound' /\ CountInv'
  BY <1>1, QuietStep DEF IInv, TypeOK, WorkerPCs
<1>3. NoContext \notin Contexts
  BY PoolAssumption
<1>4. UNCHANGED <<num_threads, shutdown, screen, iter_total, iter_start, iter_finished, tasks>>
  BY <1>1 DEF iters, pool
<1> USE DEF IInv, TypeOK, MutexInv, TasksInv, FreshInv, GridComplete, ContextPCs
<1>5. CASE LockCs(c)
  BY <1>1, <1>2, <1>3, <1>4, <1>5 DEF LockCs, hist
<1>6. CASE QueueFails(c)
  BY <1>1, <1>2, <1>3, <1>4, <1>6 DEF QueueFails
<1>7. CASE UnlockCs(c)
  BY <1>1, <1>2, <1>3, <1>4, <1>7 DEF UnlockCs, hist
<1>8. CASE WaitSpurious(c)
  BY <1>1, <1>2, <1>3, <1>4, <1>8 DEF WaitSpurious, hist
<1>9. CASE DestroyContext(c)
  BY <1>1, <1>2, <1>3, <1>4, <1>9 DEF DestroyContext, hist
<1> QED
  BY <1>5, <1>6, <1>7, <1>8, <1>9

\* lp_cs_tpool_destroy and steps that change nothing.
LEMMA PoolStepKept ==
  ASSUME IInv, DestroyPool \/ FreePool \/ UNCHANGED vars
  PROVE  IInv'
<1>1. /\ UNCHANGED <<iters, workqueue, executed, wtask, witer>>
      /\ UNCHANGED <<num_threads, cs_mutex, cpc, lost>>
  BY DEF DestroyPool, FreePool, vars, hist, worker, pool
<1>2. /\ wpc' \in [Workers -> WorkerPCs]
      /\ \A v \in Workers : wpc[v] \in {"work", "worked"} => wpc'[v] = wpc[v]
      /\ \A v \in Workers : wpc'[v] \in {"work", "worked"} => wpc'[v] = wpc[v]
  BY DEF IInv, TypeOK, WorkerPCs, DestroyPool, BroadcastNewWork, FreePool, vars, worker
<1>3. shutdown' \in BOOLEAN /\ screen' \in {"open", "join", "freed"}
  BY DEF IInv, TypeOK, DestroyPool, FreePool, vars, pool
<1>4. TypeOK'
  BY <1>1, <1>2, <1>3 DEF IInv, TypeOK, iters
<1>5. MutexInv' /\ TasksInv' /\ FreshInv' /\ GridComplete'
  BY <1>1 DEF IInv, MutexInv, TasksInv, FreshInv, GridComplete, iters
<1> QED
  BY <1>1, <1>2, <1>4, <1>5, QuietStep DEF IInv

\* A worker takes the next iteration of the task in the queue.
LEMMA TakeKept ==
  ASSUME IInv, NEW w \in Workers, WorkerTake(w)
  PROVE  IInv'
<1>1. PICK c \in tasks : workqueue = <<c>>
  BY DEF IInv, QueueInv, WorkerTake
<1>2. /\ c \in Contexts /\ tasks = {c} /\ w \notin Busy
      /\ iter_start[c] \in Nat /\ iter_total[c] \in 0 .. MaxIters
      /\ iter_start[c] < iter_total[c]
  BY <1>1, OneTask DEF IInv, TypeOK, QueueInv, WorkerTake, Busy
<1>3. /\ wpc' = [wpc EXCEPT ![w] = "work"]
      /\ wtask' = [wtask EXCEPT ![w] = c]
      /\ witer' = [witer EXCEPT ![w] = iter_start[c]]
      /\ iter_start' = [iter_start EXCEPT ![c] = iter_start[c] + 1]
      /\ workqueue' = IF iter_start[c] + 1 = iter_total[c] THEN <<>> ELSE <<c>>
      /\ UNCHANGED <<iter_total, iter_finished, tasks, num_threads, shutdown, screen,
                     executed, lost, cs_mutex, cpc>>
  BY <1>1 DEF WorkerTake, NextIteration, LastIteration, hist
<1>4. TypeOK'
  <2>1. iter_start' \in [Contexts -> 0 .. MaxIters]
    BY <1>2, <1>3, PoolAssumption DEF IInv, TypeOK
  <2>2. witer' \in [Workers -> 0 .. MaxIters] /\ wtask' \in [Workers -> Contexts \cup {NoContext}]
    BY <1>2, <1>3 DEF IInv, TypeOK
  <2>3. workqueue' \in Seq(Contexts)
    BY <1>2, <1>3
  <2> QED
    BY <1>3, <2>1, <2>2, <2>3 DEF IInv, TypeOK, WorkerPCs
<1>5. MutexInv' /\ TasksInv' /\ GridComplete'
  BY <1>3 DEF IInv, MutexInv, TasksInv, GridComplete
<1>6. FreshInv'
  BY <1>1, <1>2, <1>3 DEF IInv, TypeOK, FreshInv, TasksInv
<1>7. QueueInv'
  BY <1>2, <1>3 DEF IInv, TypeOK, QueueInv
<1>8. Busy' = Busy \cup {w}
  BY <1>3 DEF IInv, TypeOK, Busy
<1>9. CountInv'
  <2>1. Cardinality(Busy') = Cardinality(Busy) + 1
    BY <1>2, <1>8, BusyFinite, FS_AddElement
  <2>2. iter_finished[c] \in Nat /\ iter_finished[c] + Cardinality(Busy) = iter_start[c]
    BY <1>2 DEF IInv, TypeOK, CountInv
  <2>3. iter_start'[c] = iter_start[c] + 1
    BY <1>2, <1>3 DEF IInv, TypeOK
  <2> QED
    BY <1>2, <1>3, <2>1, <2>2, <2>3, BusyFinite DEF CountInv
<1>10. WorkersInv'
  BY <1>2, <1>3, <1>8 DEF IInv, TypeOK, WorkersInv, ExecutedBound, Busy
<1>11. ExecutedInv'
  <2> SUFFICES ASSUME NEW i \in 0 .. MaxIters, i < iter_start'[c], i \notin executed[c]
               PROVE  \E v \in Workers : wpc'[v] = "work" /\ witer'[v] = i
    BY <1>2, <1>3 DEF ExecutedInv
  <2>1. CASE i = iter_start[c]
    BY <1>3, <2>1 DEF IInv, TypeOK
  <2>2. CASE i < iter_start[c]
    <3>1. PICK v \in Workers : wpc[v] = "work" /\ witer[v] = i
      BY <1>2, <2>2 DEF IInv, ExecutedInv
    <3>2. v # w
      BY <1>2, <3>1 DEF Busy
    <3> QED
      BY <1>3, <3>1, <3>2 DEF IInv, TypeOK
  <2>3. i = iter_start[c] \/ i < iter_start[c]
    BY <1>2, <1>3 DEF IInv, TypeOK
  <2> QED
    BY <2>1, <2>2, <2>3
<1>12. ExecutedBound'
  BY <1>2, <1>3 DEF IInv, TypeOK, ExecutedBound
<1> QED
  BY <1>4, <1>5, <1>6, <1>7, <1>9, <1>10, <1>11, <1>12 DEF IInv

\* A worker runs its iteration.
LEMMA RunKept ==
  ASSUME IInv, NEW w \in Workers, WorkerRun(w)
  PROVE  IInv'
<1> DEFINE c == wtask[w]
<1>1. /\ w \in Busy /\ c \in tasks /\ c \in Contexts /\ tasks = {c}
      /\ witer[w] \in 0 .. MaxIters - 1 /\ witer[w] < iter_start[c]
  <2>1. w \in Busy
    BY DEF Busy, WorkerRun
  <2>2. c \in tasks /\ witer[w] < iter_start[c]
    BY <2>1 DEF IInv, WorkersInv
  <2>3. c \in Contexts /\ tasks = {c}
    BY <2>2, OneTask
  <2>4. witer[w] \in 0 .. MaxIters /\ iter_start[c] \in 0 .. MaxIters
    BY <2>3 DEF IInv, TypeOK
  <2> QED
    BY <2>1, <2>2, <2>3, <2>4, PoolAssumption
<1>2. /\ executed' = [executed EXCEPT ![c] = @ \cup {witer[w]}]
      /\ wpc' = [wpc EXCEPT ![w] = "worked"]
      /\ UNCHANGED <<iter_total, iter_start, iter_finished, tasks, num_threads, shutdown,
                     workqueue, screen, wtask, witer, lost, cs_mutex, cpc>>
  BY DEF WorkerRun, iters, pool
<1>3. TypeOK'
  <2>1. executed' \in [Contexts -> SUBSET (0 .. MaxIters - 1)]
    BY <1>1, <1>2 DEF IInv, TypeOK
  <2> QED
    BY <1>2, <2>1 DEF IInv, TypeOK, WorkerPCs
<1>4. MutexInv' /\ TasksInv' /\ QueueInv'
  BY <1>2 DEF IInv, MutexInv, TasksInv, QueueInv
<1>5. FreshInv' /\ GridComplete'
  BY <1>1, <1>2 DEF IInv, TypeOK, FreshInv, GridComplete, TasksInv
<1>6. Busy' = Busy
  BY <1>2 DEF IInv, TypeOK, Busy, WorkerRun
<1>7. CountInv'
  BY <1>2, <1>6 DEF IInv, CountInv
<1>8. WorkersInv'
  BY <1>1, <1>2, <1>6 DEF IInv, TypeOK, WorkersInv, Busy
<1>9. ExecutedInv'
  <2> SUFFICES ASSUME NEW i \in 0 .. MaxIters, i < iter_start[c], i \notin executed'[c]
               PROVE  \E v \in Workers : wpc'[v] = "work" /\ witer[v] = i
    BY <1>1, <1>2 DEF ExecutedInv
  <2>1. i \notin executed[c] /\ i # witer[w]
    BY <1>1, <1>2 DEF IInv, TypeOK
  <2>2. PICK v \in Workers : wpc[v] = "work" /\ witer[v] = i
    BY <1>1, <2>1 DEF IInv, ExecutedInv
  <2> QED
    BY <1>2, <2>1, <2>2 DEF IInv, TypeOK
<1>10. ExecutedBound'
  BY <1>1, <1>2 DEF IInv, TypeOK, ExecutedBound
<1> QED
  BY <1>3, <1>4, <1>5, <1>7, <1>8, <1>9, <1>10 DEF IInv

\* A worker counts its iteration, and after the last one wakes the context.
LEMMA FinishKept ==
  ASSUME IInv, NEW w \in Workers, WorkerFinish(w)
  PROVE  IInv'
<1> DEFINE c == wtask[w]
<1>1. w \in Busy /\ c \in tasks /\ c \in Contexts /\ tasks = {c}
  <2>1. w \in Busy
    BY DEF Busy, WorkerFinish
  <2>2. c \in tasks
    BY <2>1 DEF IInv, WorkersInv
  <2> QED
    BY <2>1, <2>2, OneTask
<1>2. /\ iter_finished' = [iter_finished EXCEPT ![c] = @ + 1]
      /\ wtask' = [wtask EXCEPT ![w] = NoContext]
      /\ witer' = [witer EXCEPT ![w] = 0]
      /\ wpc' = [wpc EXCEPT ![w] = "loop"]
      /\ UNCHANGED <<iter_total, iter_start, tasks, num_threads, shutdown, workqueue,
                     screen, executed, lost, cs_mutex>>
      /\ \/ cpc' = cpc
         \/ cpc[c] = "asleep" /\ cpc' = [cpc EXCEPT ![c] = "check"]
  BY DEF WorkerFinish, AllFinished, pool, hist
<1>3. /\ cpc' \in [Contexts -> ContextPCs]
      /\ \A d \in Contexts : \/ cpc'[d] = cpc[d]
                             \/ cpc[d] = "asleep" /\ cpc'[d] = "check"
  BY <1>1, <1>2 DEF IInv, TypeOK, ContextPCs
<1>4. Busy' = Busy \ {w}
  BY <1>2 DEF IInv, TypeOK, Busy
<1>5. /\ Cardinality(Busy') = Cardinality(Busy) - 1
      /\ Cardinality(Busy') \in Nat /\ Cardinality(Busy) \in Nat
  <2>1. IsFiniteSet(Busy \ {w}) /\ Cardinality(Busy \ {w}) = Cardinality(Busy) - 1
    BY <1>1, BusyFinite, FS_RemoveElement
  <2>2. Cardinality(Busy \ {w}) \in Nat
    BY <2>1, FS_CardinalityType
  <2> QED
    BY <1>4, <2>1, <2>2, BusyFinite
<1>6. /\ iter_finished[c] + Cardinality(Busy) = iter_start[c]
      /\ iter_finished[c] \in 0 .. MaxIters /\ iter_start[c] \in 0 .. MaxIters
  BY <1>1 DEF IInv, TypeOK, CountInv
<1>7. TypeOK'
  <2>1. iter_finished' \in [Contexts -> 0 .. MaxIters]
    BY <1>1, <1>2, <1>5, <1>6, PoolAssumption DEF IInv, TypeOK
  <2>2. witer' \in [Workers -> 0 .. MaxIters] /\ wtask' \in [Workers -> Contexts \cup {NoContext}]
    BY <1>2, PoolAssumption DEF IInv, TypeOK
  <2> QED
    BY <1>2, <1>3, <2>1, <2>2 DEF IInv, TypeOK, WorkerPCs
<1>8. MutexInv' /\ TasksInv'
  BY <1>2, <1>3 DEF IInv, MutexInv, TasksInv
<1>9. FreshInv' /\ GridComplete'
  BY <1>1, <1>2, <1>3 DEF IInv, TypeOK, FreshInv, GridComplete, TasksInv
<1>10. QueueInv'
  BY <1>2 DEF IInv, QueueInv
<1>11. CountInv'
  <2>1. iter_finished'[c] = iter_finished[c] + 1
    BY <1>1, <1>2 DEF IInv, TypeOK
  <2> QED
    BY <1>1, <1>2, <1>5, <1>6, <2>1 DEF CountInv
<1>12. WorkersInv'
  BY <1>2, <1>4 DEF IInv, TypeOK, WorkersInv, Busy
<1>13. ExecutedInv'
  <2>1. \A v \in Workers : wpc[v] = "work" => wpc'[v] = "work" /\ witer'[v] = witer[v]
    BY <1>2 DEF IInv, TypeOK, WorkerFinish
  <2> QED
    BY <1>2, <2>1 DEF IInv, ExecutedInv
<1>14. ExecutedBound'
  BY <1>2 DEF IInv, ExecutedBound
<1> QED
  BY <1>7, <1>8, <1>9, <1>10, <1>11, <1>12, <1>13, <1>14 DEF IInv

\* A context begins llvmpipe_launch_grid.
LEMMA LaunchKept ==
  ASSUME IInv, NEW c \in Contexts, LaunchGrid(c)
  PROVE  IInv'
<1>1. PICK n \in 1 .. MaxIters : iter_total' = [iter_total EXCEPT ![c] = n]
  BY DEF LaunchGrid
<1>2. /\ iter_start' = [iter_start EXCEPT ![c] = 0]
      /\ iter_finished' = [iter_finished EXCEPT ![c] = 0]
      /\ executed' = [executed EXCEPT ![c] = {}] /\ lost' = lost \ {c}
      /\ cpc' = [cpc EXCEPT ![c] = "lock"] /\ cpc[c] = "idle"
      /\ UNCHANGED <<tasks, num_threads, shutdown, workqueue, screen, wpc, wtask, witer,
                     cs_mutex>>
  BY DEF LaunchGrid, pool, worker
<1>3. c \notin tasks
  BY <1>2 DEF IInv, TasksInv
<1>4. TypeOK'
  BY <1>1, <1>2, PoolAssumption DEF IInv, TypeOK, ContextPCs
<1>5. MutexInv' /\ TasksInv' /\ FreshInv' /\ GridComplete'
  BY <1>1, <1>2 DEF IInv, TypeOK, MutexInv, TasksInv, FreshInv, GridComplete
<1>6. /\ Busy' = Busy
      /\ \A d \in tasks : /\ d # c /\ d \in Contexts
                          /\ iter_start'[d] = iter_start[d]
                          /\ iter_total'[d] = iter_total[d]
                          /\ iter_finished'[d] = iter_finished[d]
                          /\ executed'[d] = executed[d]
  BY <1>1, <1>2, <1>3 DEF IInv, TypeOK, Busy
<1>7. QueueInv' /\ CountInv'
  BY <1>2, <1>6 DEF IInv, QueueInv, CountInv
<1>8. WorkersInv'
  BY <1>2, <1>6 DEF IInv, WorkersInv
<1>9. ExecutedInv' /\ ExecutedBound'
  BY <1>2, <1>6 DEF IInv, ExecutedInv, ExecutedBound
<1> QED
  BY <1>4, <1>5, <1>7, <1>8, <1>9 DEF IInv

\* Without threads the context runs the grid itself.
LEMMA InlineKept ==
  ASSUME IInv, NEW c \in Contexts, RunInline(c)
  PROVE  IInv'
<1>1. /\ executed' = [executed EXCEPT ![c] = 0 .. iter_total[c] - 1]
      /\ cpc' = [cpc EXCEPT ![c] = "unlock"] /\ cpc[c] = "queue"
      /\ UNCHANGED <<iter_total, iter_start, iter_finished, tasks, num_threads, shutdown,
                     workqueue, screen, wpc, wtask, witer, lost, cs_mutex>>
  BY DEF RunInline, iters, pool, worker
<1>2. tasks = {} /\ workqueue = <<>> /\ Busy = {} /\ Busy' = Busy
  BY <1>1, NoTaskPending DEF Busy
<1>3. TypeOK'
  <2>1. 0 .. iter_total[c] - 1 \in SUBSET (0 .. MaxIters - 1)
    BY PoolAssumption DEF IInv, TypeOK
  <2>2. executed' \in [Contexts -> SUBSET (0 .. MaxIters - 1)]
    BY <1>1, <2>1 DEF IInv, TypeOK
  <2> QED
    BY <1>1, <2>2 DEF IInv, TypeOK, ContextPCs
<1>4. MutexInv' /\ TasksInv' /\ FreshInv' /\ GridComplete'
  BY <1>1 DEF IInv, TypeOK, MutexInv, TasksInv, FreshInv, GridComplete
<1> QED
  BY <1>1, <1>2, <1>3, <1>4 DEF IInv, QueueInv, WorkersInv, ExecutedInv, ExecutedBound,
     CountInv

\* The context gives the pool its task.
LEMMA QueueKept ==
  ASSUME IInv, NEW c \in Contexts, QueueTask(c)
  PROVE  IInv'
<1>1. tasks = {} /\ workqueue = <<>> /\ Busy = {}
  BY NoTaskPending DEF QueueTask
<1>2. /\ tasks' = {c} /\ workqueue' = <<c>>
      /\ cpc' = [cpc EXCEPT ![c] = "check"] /\ cpc[c] = "queue"
      /\ UNCHANGED <<iter_total, iter_start, iter_finished, num_threads, shutdown, screen,
                     wtask, witer, executed, lost, cs_mutex>>
  BY <1>1 DEF QueueTask, hist
<1>3. wpc' = [w \in Workers |-> IF wpc[w] = "wait" THEN "loop" ELSE wpc[w]]
  BY DEF QueueTask, BroadcastNewWork
<1>4. Busy' = {}
  BY <1>1, <1>3 DEF Busy
<1>5. TypeOK'
  <2>1. wpc' \in [Workers -> WorkerPCs]
    BY <1>3 DEF IInv, TypeOK, WorkerPCs
  <2>2. workqueue' \in Seq(Contexts)
    BY <1>2
  <2> QED
    BY <1>2, <2>1, <2>2 DEF IInv, TypeOK, ContextPCs
<1>6. MutexInv' /\ TasksInv' /\ FreshInv' /\ GridComplete'
  BY <1>1, <1>2 DEF IInv, TypeOK, MutexInv, TasksInv, FreshInv, GridComplete
<1>7. iter_start[c] = 0 /\ iter_finished[c] = 0 /\ iter_total[c] > 0 /\ executed[c] = {}
  BY <1>2 DEF IInv, FreshInv
<1>8. QueueInv' /\ WorkersInv' /\ ExecutedInv' /\ ExecutedBound'
  BY <1>2, <1>4, <1>7 DEF QueueInv, WorkersInv, ExecutedInv, ExecutedBound
<1>9. CountInv'
  BY <1>2, <1>4, <1>7, FS_EmptySet DEF CountInv
<1> QED
  BY <1>5, <1>6, <1>8, <1>9 DEF IInv

\* When the count of finished iterations has reached the total, all were run and
\* no worker is left that uses the task.
LEMMA FinishedMeansRun ==
  ASSUME IInv, NEW c \in tasks, Finished(c)
  PROVE  Busy = {} /\ executed[c] = 0 .. iter_total[c] - 1
<1>1. /\ c \in Contexts /\ iter_finished[c] \in Nat
      /\ iter_start[c] \in 0 .. MaxIters /\ iter_total[c] \in 0 .. MaxIters
      /\ executed[c] \subseteq 0 .. MaxIters - 1
  BY DEF IInv, TypeOK
<1>2. iter_start[c] <= iter_total[c]
  BY <1>1 DEF IInv, QueueInv
<1>3. iter_finished[c] + Cardinality(Busy) = iter_start[c] /\ Cardinality(Busy) \in Nat
  BY BusyFinite DEF IInv, CountInv
<1>4. Cardinality(Busy) = 0 /\ iter_start[c] = iter_total[c]
  BY <1>1, <1>2, <1>3 DEF Finished
<1>5. Busy = {}
  BY <1>4, BusyFinite, FS_EmptySet
<1>6. \A w \in Workers : wpc[w] # "work"
  BY <1>5 DEF Busy
<1>7. \A i \in 0 .. MaxIters : i < iter_total[c] => i \in executed[c]
  BY <1>4, <1>6 DEF IInv, ExecutedInv
<1>8. \A i \in executed[c] : i < iter_total[c]
  BY <1>4 DEF IInv, ExecutedBound
<1>9. ASSUME NEW i PROVE i \in executed[c] <=> i \in 0 .. iter_total[c] - 1
  BY <1>1, <1>7, <1>8, PoolAssumption
<1> QED
  BY <1>5, <1>9

\* The context waits on, or takes its finished task back.
LEMMA WaitKept ==
  ASSUME IInv, NEW c \in Contexts, WaitForTask(c)
  PROVE  IInv'
<1>1. /\ cpc[c] = "check" /\ c \in tasks /\ tasks = {c}
      /\ UNCHANGED <<iter_total, iter_start, iter_finished, num_threads, shutdown, screen,
                     workqueue, wpc, wtask, witer, executed, lost, cs_mutex>>
  <2>1. cpc[c] = "check" /\ c \in tasks
    BY DEF WaitForTask, IInv, TasksInv
  <2> QED
    BY <2>1, OneTask DEF WaitForTask, pool, worker, hist
<1>2. CASE Finished(c)
  <2>1. tasks' = {} /\ cpc' = [cpc EXCEPT ![c] = "unlock"]
    BY <1>1, <1>2 DEF WaitForTask
  <2>2. Busy = {} /\ Busy' = Busy /\ executed[c] = 0 .. iter_total[c] - 1
    BY <1>1, <1>2, FinishedMeansRun DEF Busy
  <2>3. workqueue = <<>>
    BY <1>1, <1>2, BusyFinite DEF IInv, TypeOK, QueueInv, CountInv, Finished
  <2>4. TypeOK'
    BY <1>1, <2>1 DEF IInv, TypeOK, ContextPCs
  <2>5. MutexInv' /\ TasksInv' /\ FreshInv' /\ GridComplete'
    BY <1>1, <2>1, <2>2 DEF IInv, TypeOK, MutexInv, TasksInv, FreshInv, GridComplete
  <2> QED
    BY <1>1, <2>1, <2>2, <2>3, <2>4, <2>5 DEF IInv, QueueInv, WorkersInv, ExecutedInv,
       ExecutedBound, CountInv
<1>3. CASE ~Finished(c)
  <2>1. UNCHANGED tasks /\ cpc' = [cpc EXCEPT ![c] = "asleep"]
    BY <1>3 DEF WaitForTask
  <2>2. TypeOK'
    BY <1>1, <2>1 DEF IInv, TypeOK, ContextPCs
  <2>3. MutexInv' /\ TasksInv' /\ FreshInv' /\ GridComplete'
    BY <1>1, <2>1 DEF IInv, TypeOK, MutexInv, TasksInv, FreshInv, GridComplete
  <2>4. QueueInv' /\ WorkersInv' /\ ExecutedInv' /\ ExecutedBound' /\ CountInv'
    BY <1>1, <2>1, QuietStep DEF IInv, TypeOK, iters
  <2> QED
    BY <2>2, <2>3, <2>4 DEF IInv
<1> QED
  BY <1>2, <1>3

-----------------------------------------------------------------------------
\* The invariant of the pool holds for any number of contexts and threads, whether
\* all of the threads could be created or not.
THEOREM PoolInvariant == Spec => []IInv
<1>1. Init => IInv
  BY InitIInv
<1>2. IInv /\ [Next]_vars => IInv'
  BY IdleStepKept, CallStepKept, PoolStepKept, TakeKept, RunKept, FinishKept, LaunchKept,
     InlineKept, QueueKept, WaitKept DEF Next, WorkerStep, ContextStep
<1> QED
  BY <1>1, <1>2, PTL DEF Spec

\* Every variable keeps its type; in particular lp_cs_tpool_worker hands out no
\* iteration past the last and counts none twice.
THEOREM PoolTypes == Spec => []TypeOK
<1>1. IInv => TypeOK
  BY DEF IInv
<1> QED
  BY <1>1, PoolInvariant, PTL

\* Each iteration of a grid is run by one worker, once.
THEOREM PoolRunsOnce == Spec => []IterationOnce
<1>1. IInv => IterationOnce
  BY DEF IInv, WorkersInv, Busy, IterationOnce
<1> QED
  BY <1>1, PoolInvariant, PTL

\* lp_cs_tpool_wait_for_task frees a task that neither the queue nor a worker uses.
THEOREM PoolTasksAlive == Spec => []TasksAlive
<1>1. IInv => TasksAlive
  <2> SUFFICES ASSUME IInv PROVE TasksAlive
    OBVIOUS
  <2>1. \A i \in 1 .. Len(workqueue) : workqueue[i] \in tasks
    <3>1. CASE workqueue = <<>>
      BY <3>1
    <3>2. CASE workqueue # <<>>
      <4>1. PICK c \in tasks : workqueue = <<c>>
        BY <3>2 DEF IInv, QueueInv
      <4> QED
        BY <4>1
    <3> QED
      BY <3>1, <3>2
  <2> QED
    BY <2>1 DEF IInv, WorkersInv, Busy, TasksAlive
<1> QED
  BY <1>1, PoolInvariant, PTL

\* llvmpipe_launch_grid returns with all workgroups run, unless there was no memory
\* for the task.
THEOREM PoolGridComplete == Spec => []GridComplete
<1>1. IInv => GridComplete
  BY DEF IInv
<1> QED
  BY <1>1, PoolInvariant, PTL
=============================================================================
