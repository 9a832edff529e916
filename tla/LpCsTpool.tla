----------------------------- MODULE LpCsTpool -----------------------------
(***************************************************************************)
(* The thread pool that runs compute shaders in llvmpipe (lp_cs_tpool.c),   *)
(* and llvmpipe_launch_grid (lp_state_cs.c), which gives it a grid as one   *)
(* task of so many iterations and waits, with screen->cs_mutex held.        *)
(* A context has one task at most, so a task is named after its context.    *)
(***************************************************************************)
EXTENDS Integers, Sequences

CONSTANTS
  Contexts,       \* contexts of the screen, each used by a thread of its own
  NoContext,      \* nobody holds cs_mutex; a worker without a task
  MaxThreads,     \* most threads lp_cs_tpool_create is asked for
  MaxIters,       \* bound of the model on the size of a grid
  CreateMayFail,  \* may u_thread_create fail?  pool->num_threads stays
  AllocMayFail    \* may CALLOC_STRUCT(lp_cs_tpool_task) fail?

ASSUME PoolAssumption ==
  /\ MaxThreads \in Nat /\ MaxIters \in Nat /\ NoContext \notin Contexts
  /\ CreateMayFail \in BOOLEAN /\ AllocMayFail \in BOOLEAN

Workers == 0 .. MaxThreads - 1

VARIABLES
  num_threads, shutdown, workqueue,     \* the pool
  iter_total, iter_start, iter_finished, \* the tasks
  tasks,                                \* the tasks that are allocated
  wpc, wtask, witer,                    \* the workers; this_iter
  cs_mutex, cpc,                        \* the contexts
  screen,                               \* "open", "join", "freed"
  executed,                             \* history: iterations run for the grid
  lost                                  \* history: grids whose task was not allocated

iters  == <<iter_total, iter_start, iter_finished, tasks>>
pool   == <<num_threads, shutdown, workqueue, screen>>
worker == <<wpc, wtask, witer>>
hist   == <<executed, lost>>
vars   == <<iters, pool, worker, hist, cs_mutex, cpc>>

WorkerPCs == {"none", "loop", "wait", "work", "worked", "exited"}
ContextPCs == {"idle", "lock", "queue", "check", "asleep", "unlock", "gone"}

\* lp_cs_tpool_create: those of the num_threads threads that could be created
\* are there.
Init ==
  /\ num_threads \in 0 .. MaxThreads
  /\ shutdown = FALSE /\ workqueue = <<>> /\ screen = "open"
  /\ iter_total = [c \in Contexts |-> 0] /\ iter_start = iter_total
  /\ iter_finished = iter_total /\ tasks = {}
  /\ \E created \in IF CreateMayFail THEN SUBSET (0 .. num_threads - 1)
                    ELSE {0 .. num_threads - 1} :
       wpc = [w \in Workers |-> IF w \in created THEN "loop" ELSE "none"]
  /\ wtask = [w \in Workers |-> NoContext] /\ witer = [w \in Workers |-> 0]
  /\ cs_mutex = NoContext /\ cpc = [c \in Contexts |-> "idle"]
  /\ executed = [c \in Contexts |-> {}] /\ lost = {}

\* cnd_broadcast(&pool->new_work): the workers that wait for work go on.
BroadcastNewWorkLost == UNCHANGED wpc
BroadcastNewWork == wpc' = [w \in Workers |-> IF wpc[w] = "wait" THEN "loop" ELSE wpc[w]]

-----------------------------------------------------------------------------
(***************************************************************************)
(* lp_cs_tpool_worker                                                       *)
(***************************************************************************)

WorkerSleep(w) ==
  /\ wpc[w] = "loop" /\ ~shutdown /\ workqueue = <<>>
  /\ wpc' = [wpc EXCEPT ![w] = "wait"]
  /\ UNCHANGED <<iters, pool, wtask, witer, hist, cs_mutex, cpc>>

WorkerExit(w) ==
  /\ wpc[w] = "loop" /\ shutdown
  /\ wpc' = [wpc EXCEPT ![w] = "exited"]
  /\ UNCHANGED <<iters, pool, wtask, witer, hist, cs_mutex, cpc>>

\* iter_start == iter_total after the increment: the task leaves the queue.
LastIteration(c) == iter_start[c] + 1 = iter_total[c]

\* The step of iter_start.
NextIterationSame(c) == iter_start[c]
NextIteration(c) == iter_start[c] + 1

\* Take the next iteration of the first task.
WorkerTake(w) ==
  LET c == Head(workqueue) IN
  /\ wpc[w] = "loop" /\ ~shutdown /\ workqueue # <<>>
  /\ wtask' = [wtask EXCEPT ![w] = c]
  /\ witer' = [witer EXCEPT ![w] = iter_start[c]]
  /\ iter_start' = [iter_start EXCEPT ![c] = NextIteration(c)]
  /\ workqueue' = IF LastIteration(c) THEN Tail(workqueue) ELSE workqueue
  /\ wpc' = [wpc EXCEPT ![w] = "work"]
  /\ UNCHANGED <<iter_total, iter_finished, tasks, num_threads, shutdown, screen, hist,
                 cs_mutex, cpc>>

\* task->work, without the pool's mutex.
WorkerRun(w) ==
  /\ wpc[w] = "work"
  /\ executed' = [executed EXCEPT ![wtask[w]] = @ \cup {witer[w]}]
  /\ wpc' = [wpc EXCEPT ![w] = "worked"]
  /\ UNCHANGED <<iters, pool, wtask, witer, lost, cs_mutex, cpc>>

\* With the mutex again: count the iteration, wake the context after the last.
AllFinished(c) == iter_finished[c] + 1 = iter_total[c]

WorkerFinish(w) ==
  LET c == wtask[w] IN
  /\ wpc[w] = "worked"
  /\ iter_finished' = [iter_finished EXCEPT ![c] = @ + 1]
  /\ cpc' = IF AllFinished(c) /\ cpc[c] = "asleep" THEN [cpc EXCEPT ![c] = "check"]
            ELSE cpc
  /\ wtask' = [wtask EXCEPT ![w] = NoContext]
  /\ witer' = [witer EXCEPT ![w] = 0]
  /\ wpc' = [wpc EXCEPT ![w] = "loop"]
  /\ UNCHANGED <<iter_total, iter_start, tasks, pool, hist, cs_mutex>>

WorkerSpurious(w) ==
  /\ wpc[w] = "wait"
  /\ wpc' = [wpc EXCEPT ![w] = "loop"]
  /\ UNCHANGED <<iters, pool, wtask, witer, hist, cs_mutex, cpc>>

-----------------------------------------------------------------------------
(***************************************************************************)
(* llvmpipe_launch_grid, lp_cs_tpool_queue_task, lp_cs_tpool_wait_for_task  *)
(***************************************************************************)

\* A grid of n > 0 workgroups; for an empty one nothing is done.
LaunchGrid(c) ==
  /\ cpc[c] = "idle" /\ screen = "open"
  /\ \E n \in 1 .. MaxIters : iter_total' = [iter_total EXCEPT ![c] = n]
  /\ iter_start' = [iter_start EXCEPT ![c] = 0]
  /\ iter_finished' = [iter_finished EXCEPT ![c] = 0]
  /\ executed' = [executed EXCEPT ![c] = {}] /\ lost' = lost \ {c}
  /\ cpc' = [cpc EXCEPT ![c] = "lock"]
  /\ UNCHANGED <<tasks, pool, worker, cs_mutex>>

LockCs(c) ==
  /\ cpc[c] = "lock" /\ cs_mutex = NoContext
  /\ cs_mutex' = c
  /\ cpc' = [cpc EXCEPT ![c] = "queue"]
  /\ UNCHANGED <<iters, pool, worker, hist>>

\* Without threads the caller runs all iterations.
RunInline(c) ==
  /\ cpc[c] = "queue" /\ num_threads = 0
  /\ executed' = [executed EXCEPT ![c] = 0 .. iter_total[c] - 1]
  /\ cpc' = [cpc EXCEPT ![c] = "unlock"]
  /\ UNCHANGED <<iters, pool, worker, lost, cs_mutex>>

\* Without memory the call returns NULL, and the wait for NULL returns at once:
\* nothing is run.
QueueFails(c) ==
  /\ cpc[c] = "queue" /\ num_threads # 0 /\ AllocMayFail
  /\ lost' = lost \cup {c}
  /\ cpc' = [cpc EXCEPT ![c] = "unlock"]
  /\ UNCHANGED <<iters, pool, worker, executed, cs_mutex>>

QueueTask(c) ==
  /\ cpc[c] = "queue" /\ num_threads # 0
  /\ tasks' = tasks \cup {c}
  /\ workqueue' = Append(workqueue, c)
  /\ BroadcastNewWork
  /\ cpc' = [cpc EXCEPT ![c] = "check"]
  /\ UNCHANGED <<iter_total, iter_start, iter_finished, num_threads, shutdown, screen,
                 wtask, witer, hist, cs_mutex>>

\* The loop of lp_cs_tpool_wait_for_task: sleep on task->finish, or free the task.
FinishedAlready(c) == iter_start[c] >= iter_total[c]
Finished(c) == iter_finished[c] >= iter_total[c]

WaitForTask(c) ==
  /\ cpc[c] = "check"
  /\ IF Finished(c)
     THEN tasks' = tasks \ {c} /\ cpc' = [cpc EXCEPT ![c] = "unlock"]
     ELSE cpc' = [cpc EXCEPT ![c] = "asleep"] /\ UNCHANGED tasks
  /\ UNCHANGED <<iter_total, iter_start, iter_finished, pool, worker, hist, cs_mutex>>

WaitSpurious(c) ==
  /\ cpc[c] = "asleep"
  /\ cpc' = [cpc EXCEPT ![c] = "check"]
  /\ UNCHANGED <<iters, pool, worker, hist, cs_mutex>>

UnlockCs(c) ==
  /\ cpc[c] = "unlock"
  /\ cs_mutex' = NoContext
  /\ cpc' = [cpc EXCEPT ![c] = "idle"]
  /\ UNCHANGED <<iters, pool, worker, hist>>

-----------------------------------------------------------------------------
\* lp_cs_tpool_destroy, with the screen, after its contexts.
DestroyContext(c) ==
  /\ cpc[c] = "idle"
  /\ cpc' = [cpc EXCEPT ![c] = "gone"]
  /\ UNCHANGED <<iters, pool, worker, hist, cs_mutex>>

DestroyPool ==
  /\ screen = "open" /\ \A c \in Contexts : cpc[c] = "gone"
  /\ shutdown' = TRUE
  /\ BroadcastNewWork
  /\ screen' = "join"
  /\ UNCHANGED <<iters, num_threads, workqueue, wtask, witer, hist, cs_mutex, cpc>>

\* thrd_join of the threads.  (One that could not be created is 0; joining it is
\* undefined and taken to return.)
FreePool ==
  /\ screen = "join" /\ \A w \in Workers : wpc[w] \in {"exited", "none"}
  /\ screen' = "freed"
  /\ UNCHANGED <<iters, num_threads, shutdown, workqueue, worker, hist, cs_mutex, cpc>>

-----------------------------------------------------------------------------
WorkerStep(w) ==
  \/ WorkerSleep(w) \/ WorkerExit(w) \/ WorkerTake(w) \/ WorkerRun(w) \/ WorkerFinish(w)

ContextStep(c) ==
  \/ LockCs(c) \/ RunInline(c) \/ QueueFails(c) \/ QueueTask(c) \/ WaitForTask(c)
  \/ UnlockCs(c)

Next ==
  \/ \E w \in Workers : WorkerStep(w) \/ WorkerSpurious(w)
  \/ \E c \in Contexts :
       ContextStep(c) \/ LaunchGrid(c) \/ WaitSpurious(c) \/ DestroyContext(c)
  \/ DestroyPool \/ FreePool

\* Threads that can go on do; shaders end.
Fairness ==
  /\ \A w \in Workers : WF_vars(WorkerStep(w))
  /\ \A c \in Contexts : WF_vars(ContextStep(c))
  /\ WF_vars(FreePool)

Spec == Init /\ [][Next]_vars
FairSpec == Spec /\ Fairness

-----------------------------------------------------------------------------
\* Every variable has its type; no iteration past the last one is handed out.
TypeOK ==
  /\ num_threads \in 0 .. MaxThreads
  /\ shutdown \in BOOLEAN /\ workqueue \in Seq(Contexts)
  /\ iter_total \in [Contexts -> 0 .. MaxIters]
  /\ iter_start \in [Contexts -> 0 .. MaxIters]
  /\ iter_finished \in [Contexts -> 0 .. MaxIters]
  /\ tasks \in SUBSET Contexts
  /\ wpc \in [Workers -> WorkerPCs] /\ wtask \in [Workers -> Contexts \cup {NoContext}]
  /\ witer \in [Workers -> 0 .. MaxIters]
  /\ cs_mutex \in Contexts \cup {NoContext} /\ cpc \in [Contexts -> ContextPCs]
  /\ screen \in {"open", "join", "freed"}
  /\ executed \in [Contexts -> SUBSET (0 .. MaxIters - 1)] /\ lost \in SUBSET Contexts

\* Each iteration is run by one worker, once.
IterationOnce ==
  \A w \in Workers :
    wpc[w] = "work" =>
      /\ witer[w] \notin executed[wtask[w]]
      /\ \A v \in Workers : wpc[v] = "work" /\ wtask[v] = wtask[w] /\ v # w
                              => witer[v] # witer[w]

\* The queue and the workers only have tasks that are allocated: the context
\* that frees a task is woken after the last worker is through with it.
TasksAlive ==
  /\ \A i \in 1 .. Len(workqueue) : workqueue[i] \in tasks
  /\ \A w \in Workers : wpc[w] \in {"work", "worked"} => wtask[w] \in tasks

\* When llvmpipe_launch_grid returns all workgroups have been run; the one
\* exception is the silent loss of a grid without memory for its task.
GridComplete ==
  \A c \in Contexts :
    (cpc[c] = "unlock" /\ c \notin lost) => executed[c] = 0 .. iter_total[c] - 1

\* llvmpipe_launch_grid returns, if the pool has no threads by design or at least
\* one of its threads could be created (if none could, pool->num_threads is not 0
\* all the same and lp_cs_tpool_wait_for_task waits forever), and
\* lp_cs_tpool_destroy returns.
CallsReturn ==
  /\ (num_threads = 0 \/ \E w \in Workers : wpc[w] # "none") =>
        \A c \in Contexts : (cpc[c] = "queue") ~> (cpc[c] = "idle")
  /\ (screen = "join") ~> (screen = "freed")
=============================================================================
