----------------------------- MODULE UtilQueue -----------------------------
(***************************************************************************)
(* The job queue of src/util/u_queue.c: a ring of jobs, worker threads that *)
(* take jobs from it, one completion fence per job, a mutex (queue->lock)   *)
(* with the two condition variables has_queued_cond and has_space_cond, and *)
(* a second mutex (finish_lock) that serialises util_queue_finish,          *)
(* util_queue_adjust_num_threads and util_queue_kill_threads.               *)
(*                                                                          *)
(* A section of the code under queue->lock without a cnd_wait is one        *)
(* action; cnd_wait splits it.  Everything done outside of the lock         *)
(* (executing a job, signalling its fence, cleaning it up, joining or       *)
(* creating threads, waiting for a fence) is an action of its own.          *)
(* A job is identified with its fence: a caller adds a job again only after *)
(* the fence is signalled (the assertion of util_queue_fence_reset).        *)
(***************************************************************************)
EXTENDS Integers, FiniteSets

CONSTANTS
  Clients,        \* application threads that call the queue's functions
  NoClient,       \* "nobody holds this mutex"
  Jobs,           \* jobs the clients may add, each with its own fence
  NoJob,          \* a cleared slot (job == NULL)
  MaxThreads,     \* the num_threads argument of util_queue_init
  InitMaxJobs,    \* its max_jobs argument
  ResizeIfFull,   \* is UTIL_QUEUE_INIT_RESIZE_IF_FULL among its flags?
  ResizeStep,     \* slots added by a resize (8 in the code)
  JobSize,        \* the job_size of each job
  SizeLimit,      \* S_256MB
  TotalCap,       \* bound of the model on total_jobs_size
  CreateMayFail,  \* may u_thread_create fail?
  Shutdown        \* may the queue be destroyed or the process exit?

ASSUME MaxThreadsAssumption == MaxThreads \in Nat \ {0}
ASSUME MaxJobsAssumption == InitMaxJobs \in Nat \ {0} /\ ResizeStep \in Nat \ {0}
ASSUME JobsAssumption == NoJob \notin Jobs \cup Int /\ Jobs \cap Int = {}
ASSUME SizeAssumption ==
  JobSize \in [Jobs -> Nat] /\ SizeLimit \in Nat /\ TotalCap \in Nat
ASSUME ClientsAssumption == NoClient \notin Clients
ASSUME FlagsAssumption ==
  ResizeIfFull \in BOOLEAN /\ CreateMayFail \in BOOLEAN /\ Shutdown \in BOOLEAN

Workers == 0 .. MaxThreads - 1

\* The barrier jobs of a running util_queue_finish, one for each fences[i].
Barriers == 0 .. MaxThreads - 1

Tokens == Jobs \cup Barriers

VARIABLES
  jobs,            \* queue->jobs: slot -> token or NoJob
  max_jobs, read_idx, write_idx, num_queued, total_jobs_size,
  num_threads,
  finish_lock,     \* holder of queue->finish_lock
  exit_mutex,      \* holder of the file's exit_mutex
  listed,          \* is the queue in queue_list?
  closing,         \* util_queue_destroy was called
  destroyed,       \* ... and has freed the queue
  wpc, wjob,       \* the worker threads: where they are, what they hold
  pc, arg,         \* the clients: where they are, the fence they work on
  lo, hi,          \* loop bounds of whoever holds finish_lock
  bar_count,       \* the count given to util_barrier_init
  signalled,       \* the fences that are signalled
  before,          \* history: jobs queued before the running finish began
  killed           \* history: util_queue_kill_threads(queue, 0) has happened

ring == <<jobs, max_jobs, read_idx, write_idx, num_queued, total_jobs_size>>
life == <<exit_mutex, listed, closing, destroyed>>
fin  == <<finish_lock, lo, hi, bar_count, before>>
vars == <<ring, num_threads, killed, fin, life, wpc, wjob, pc, arg, signalled>>

Slots == 0 .. max_jobs - 1

WorkerPCs == {"none", "loop", "wait", "exec", "barrier", "signal", "cleanup",
              "exit", "done"}
ClientPCs == {"idle", "space_wait", "space_woken", "drop_search", "drop_signal",
              "drop_wait", "fin_add", "fin_wait", "join", "create",
              "destroy_kill", "destroy_unlist", "exit_kill", "exit_unlock",
              "gone"}

-----------------------------------------------------------------------------
\* cnd_signal: one of the threads of f at `from' goes on, if there is any.
Notify(f, from, to) ==
  LET waiting == {t \in DOMAIN f : f[t] = from}
  IN  IF waiting = {} THEN {f} ELSE {[f EXCEPT ![t] = to] : t \in waiting}

\* cnd_broadcast: all of them go on.
NotifyAll(f, from, to) ==
  [t \in DOMAIN f |-> IF f[t] = from THEN to ELSE f[t]]

\* Wake one worker; wake all of them.
SignalHasQueuedLost == UNCHANGED wpc
SignalHasQueued == wpc' \in Notify(wpc, "wait", "loop")
BroadcastHasQueuedLost == UNCHANGED wpc
BroadcastHasQueued == wpc' = NotifyAll(wpc, "wait", "loop")

Full == num_queued = max_jobs

\* The ring index after i in a ring of m slots.
NextSlot(i, m) == (i + 1) % m

\* The slots a loop `for (i = read_idx; i != write_idx; i = (i+1) % max_jobs)'
\* visits.  It visits none when read_idx = write_idx, in a full ring too.
RingScan ==
  {i \in Slots : IF read_idx <= write_idx
                 THEN read_idx <= i /\ i < write_idx
                 ELSE read_idx <= i \/ i < write_idx}

SizeOf(f) == IF f \in Jobs THEN JobSize[f] ELSE 0

\* The state util_queue_init leaves: an empty ring and the threads it could
\* create, at least one.
Init ==
  /\ max_jobs = InitMaxJobs
  /\ jobs = [i \in 0 .. InitMaxJobs - 1 |-> NoJob]
  /\ read_idx = 0 /\ write_idx = 0 /\ num_queued = 0 /\ total_jobs_size = 0
  /\ num_threads \in IF CreateMayFail THEN 1 .. MaxThreads ELSE {MaxThreads}
  /\ wpc = [w \in Workers |-> IF w < num_threads THEN "loop" ELSE "none"]
  /\ wjob = [w \in Workers |-> NoJob]
  /\ pc = [c \in Clients |-> "idle"]
  /\ arg = [c \in Clients |-> NoJob]
  /\ signalled = Tokens
  /\ finish_lock = NoClient /\ lo = 0 /\ hi = 0 /\ bar_count = 0 /\ before = {}
  /\ exit_mutex = NoClient /\ listed = TRUE
  /\ closing = FALSE /\ destroyed = FALSE /\ killed = FALSE

-----------------------------------------------------------------------------
(***************************************************************************)
(* util_queue_thread_func                                                   *)
(***************************************************************************)

\* Nothing to do: wait on has_queued_cond.
WorkerSleep(w) ==
  /\ wpc[w] = "loop" /\ w < num_threads /\ num_queued = 0
  /\ wpc' = [wpc EXCEPT ![w] = "wait"]
  /\ UNCHANGED <<ring, num_threads, killed, fin, life, wjob, pc, arg, signalled>>

\* Take the slot at read_idx and tell one blocked producer that there is space.
\* A slot cleared by util_queue_drop_job is a no-op.
WorkerTake(w) ==
  LET f == jobs[read_idx] IN
  /\ wpc[w] = "loop" /\ w < num_threads /\ num_queued # 0
  /\ jobs' = [jobs EXCEPT ![read_idx] = NoJob]
  /\ read_idx' = NextSlot(read_idx, max_jobs)
  /\ num_queued' = num_queued - 1
  /\ total_jobs_size' = total_jobs_size - SizeOf(f)
  /\ pc' \in Notify(pc, "space_wait", "space_woken")
  /\ wpc' = [wpc EXCEPT ![w] = IF f = NoJob THEN "loop" ELSE "exec"]
  /\ wjob' = [wjob EXCEPT ![w] = f]
  /\ UNCHANGED <<max_jobs, write_idx, num_threads, killed, fin, life, arg, signalled>>

\* job.execute returns.
WorkerExecute(w) ==
  /\ wpc[w] = "exec" /\ wjob[w] \in Jobs
  /\ wpc' = [wpc EXCEPT ![w] = "signal"]
  /\ UNCHANGED <<ring, num_threads, killed, fin, life, wjob, pc, arg, signalled>>

\* pthread_barrier_wait lets the threads go when this many have arrived.
BarrierAlwaysOpens(arrived) == TRUE
BarrierOpens(arrived) == Cardinality(arrived) >= bar_count

\* util_queue_finish_execute: the last of bar_count workers to arrive at the
\* barrier lets all of them go.
WorkerBarrier(w) ==
  LET arrived == {v \in Workers : wpc[v] = "barrier"} \cup {w} IN
  /\ wpc[w] = "exec" /\ wjob[w] \in Barriers
  /\ wpc' = IF BarrierOpens(arrived)
            THEN [v \in Workers |-> IF v \in arrived THEN "signal" ELSE wpc[v]]
            ELSE [wpc EXCEPT ![w] = "barrier"]
  /\ UNCHANGED <<ring, num_threads, killed, fin, life, wjob, pc, arg, signalled>>

\* Signal the fence, then call the job's cleanup function (barrier jobs have
\* none).
WorkerSignal(w) ==
  /\ wpc[w] = "signal"
  /\ signalled' = signalled \cup {wjob[w]}
  /\ before' = before \ {wjob[w]}
  /\ IF wjob[w] \in Jobs
     THEN wpc' = [wpc EXCEPT ![w] = "cleanup"] /\ UNCHANGED wjob
     ELSE wpc' = [wpc EXCEPT ![w] = "loop"] /\ wjob' = [wjob EXCEPT ![w] = NoJob]
  /\ UNCHANGED <<ring, num_threads, killed, finish_lock, lo, hi, bar_count, life,
                 pc, arg>>

WorkerCleanup(w) ==
  /\ wpc[w] = "cleanup"
  /\ wpc' = [wpc EXCEPT ![w] = "loop"]
  /\ wjob' = [wjob EXCEPT ![w] = NoJob]
  /\ UNCHANGED <<ring, num_threads, killed, fin, life, pc, arg, signalled>>

\* The thread is above num_threads: leave the loop.
WorkerLeave(w) ==
  /\ wpc[w] = "loop" /\ w >= num_threads
  /\ wpc' = [wpc EXCEPT ![w] = "exit"]
  /\ UNCHANGED <<ring, num_threads, killed, fin, life, wjob, pc, arg, signalled>>

\* The end of the thread function.  If all threads are being terminated, signal
\* the fences of the jobs the scan from read_idx to write_idx finds and empty
\* the ring.
WorkerDrain(w) ==
  /\ wpc[w] = "exit"
  /\ wpc' = [wpc EXCEPT ![w] = "done"]
  /\ IF num_threads = 0
     THEN /\ signalled' = signalled \cup ({jobs[i] : i \in RingScan} \ {NoJob})
          /\ jobs' = [i \in Slots |-> IF i \in RingScan THEN NoJob ELSE jobs[i]]
          /\ read_idx' = write_idx
          /\ num_queued' = 0
     ELSE UNCHANGED <<signalled, jobs, read_idx, num_queued>>
  /\ UNCHANGED <<max_jobs, write_idx, total_jobs_size, num_threads, killed, fin,
                 life, wjob, pc, arg>>

\* A condition variable may wake a thread for no reason.
WorkerSpurious(w) ==
  /\ wpc[w] = "wait"
  /\ wpc' = [wpc EXCEPT ![w] = "loop"]
  /\ UNCHANGED <<ring, num_threads, killed, fin, life, wjob, pc, arg, signalled>>

-----------------------------------------------------------------------------
(***************************************************************************)
(* util_queue_add_job                                                       *)
(***************************************************************************)

\* Where a call of add_job by client c returns to, and the loop counter of
\* util_queue_finish if that is the caller.
AddReturns(c, f) ==
  /\ pc' = [pc EXCEPT ![c] = IF f \in Barriers THEN "fin_add" ELSE "idle"]
  /\ arg' = [arg EXCEPT ![c] = NoJob]
  /\ lo' = IF f \in Barriers THEN lo + 1 ELSE lo

\* Store the job in slot w of a ring js of m slots and wake one worker.
AddStore(f, js, w, m) ==
  /\ jobs' = [js EXCEPT ![w] = f]
  /\ write_idx' = NextSlot(w, m)
  /\ max_jobs' = m
  /\ total_jobs_size' = total_jobs_size + SizeOf(f)
  /\ num_queued' = num_queued + 1
  /\ SignalHasQueued

\* There is a free slot.
AddToSlot(c, f) ==
  /\ ~Full
  /\ AddStore(f, jobs, write_idx, max_jobs)
  /\ AddReturns(c, f)
  /\ UNCHANGED read_idx

\* Where the copied jobs begin.
ReadAfterResizeOld == read_idx
ReadAfterResize == 0

\* The ring is full and may grow: the queued jobs are copied to the start of a
\* larger array.
AddResized(c, f) ==
  LET grown == [i \in 0 .. max_jobs + ResizeStep - 1 |->
                  IF i < max_jobs THEN jobs[(read_idx + i) % max_jobs] ELSE NoJob]
  IN /\ Full /\ ResizeIfFull /\ total_jobs_size + SizeOf(f) < SizeLimit
     /\ AddStore(f, grown, max_jobs, max_jobs + ResizeStep)
     /\ read_idx' = ReadAfterResize
     /\ AddReturns(c, f)

\* The ring is full and may not grow: wait on has_space_cond.
AddBlocks(c, f) ==
  /\ Full /\ ~(ResizeIfFull /\ total_jobs_size + SizeOf(f) < SizeLimit)
  /\ pc' = [pc EXCEPT ![c] = "space_wait"]
  /\ arg' = [arg EXCEPT ![c] = f]
  /\ UNCHANGED <<ring, lo, wpc>>

AddJob(c, f) ==
  \/ num_threads = 0 /\ UNCHANGED vars
  \/ /\ num_threads # 0
     /\ signalled' = signalled \ {f}
     /\ AddToSlot(c, f) \/ AddResized(c, f) \/ AddBlocks(c, f)
     /\ UNCHANGED <<num_threads, killed, finish_lock, hi, bar_count, before, life,
                    wjob>>

\* A producer woken from has_space_cond: it looks at num_queued again, not at
\* num_threads.
AddWoken(c) ==
  /\ pc[c] = "space_woken"
  /\ IF Full
     THEN pc' = [pc EXCEPT ![c] = "space_wait"] /\ UNCHANGED <<ring, arg, lo, wpc>>
     ELSE AddToSlot(c, arg[c])
  /\ UNCHANGED <<num_threads, killed, finish_lock, hi, bar_count, before, life,
                 wjob, signalled>>

AddSpurious(c) ==
  /\ pc[c] = "space_wait"
  /\ pc' = [pc EXCEPT ![c] = "space_woken"]
  /\ UNCHANGED <<ring, num_threads, killed, fin, life, wpc, wjob, arg, signalled>>

\* A client adds a job nobody is using: its fence is signalled, no worker is
\* still cleaning it up, no other client is adding or dropping it.
ClientAdd(c) ==
  /\ pc[c] = "idle" /\ ~closing
  /\ \E j \in Jobs :
       /\ total_jobs_size + JobSize[j] <= TotalCap
       /\ j \in signalled
       /\ \A w \in Workers : wjob[w] # j
       /\ \A d \in Clients : arg[d] # j
       /\ AddJob(c, j)

-----------------------------------------------------------------------------
(***************************************************************************)
(* util_queue_drop_job                                                      *)
(***************************************************************************)

\* The fence is not signalled yet: go on to take the lock.
DropBegin(c) ==
  /\ pc[c] = "idle" /\ ~closing
  /\ \E j \in Jobs :
       /\ j \notin signalled
       /\ arg' = [arg EXCEPT ![c] = j]
  /\ pc' = [pc EXCEPT ![c] = "drop_search"]
  /\ UNCHANGED <<ring, num_threads, killed, fin, life, wpc, wjob, signalled>>

\* The memset of the dropped job's slot, and what follows: signal its fence.
ClearSlotMissing(i) == jobs
ClearSlot(i) == [jobs EXCEPT ![i] = NoJob]
AfterRemovalWaits == "drop_wait"
AfterRemoval == "drop_signal"

\* Clear the slot that holds the job, if the scan finds one.
DropSearch(c) ==
  /\ pc[c] = "drop_search"
  /\ \/ \E i \in RingScan :
          /\ jobs[i] = arg[c]
          /\ jobs' = ClearSlot(i)
          /\ before' = before \ {arg[c]}
          /\ pc' = [pc EXCEPT ![c] = AfterRemoval]
     \/ /\ \A i \in RingScan : jobs[i] # arg[c]
        /\ pc' = [pc EXCEPT ![c] = "drop_wait"]
        /\ UNCHANGED <<jobs, before>>
  /\ UNCHANGED <<max_jobs, read_idx, write_idx, num_queued, total_jobs_size,
                 num_threads, killed, finish_lock, lo, hi, bar_count, life, wpc,
                 wjob, arg, signalled>>

DropSignal(c) ==
  /\ pc[c] = "drop_signal"
  /\ signalled' = signalled \cup {arg[c]}
  /\ pc' = [pc EXCEPT ![c] = "idle"]
  /\ arg' = [arg EXCEPT ![c] = NoJob]
  /\ UNCHANGED <<ring, num_threads, killed, fin, life, wpc, wjob>>

DropWait(c) ==
  /\ pc[c] = "drop_wait" /\ arg[c] \in signalled
  /\ pc' = [pc EXCEPT ![c] = "idle"]
  /\ arg' = [arg EXCEPT ![c] = NoJob]
  /\ UNCHANGED <<ring, num_threads, killed, fin, life, wpc, wjob, signalled>>

-----------------------------------------------------------------------------
(***************************************************************************)
(* util_queue_finish                                                        *)
(***************************************************************************)

\* Jobs that sit in the ring or are being executed.
Pending ==
  {j \in Jobs : \/ \E i \in Slots : jobs[i] = j
                \/ \E w \in Workers : wjob[w] = j /\ wpc[w] \in {"exec", "signal"}}

\* The barrier waits for the workers there are now.
BarrierSizeMax == MaxThreads
BarrierSize == num_threads

\* Take finish_lock and set up a barrier for num_threads workers.
FinishBegin(c) ==
  /\ pc[c] = "idle" /\ ~closing
  /\ finish_lock = NoClient
  /\ \/ num_threads = 0 /\ UNCHANGED vars
     \/ /\ num_threads # 0
        /\ finish_lock' = c
        /\ lo' = 0
        /\ bar_count' = BarrierSize
        /\ before' = Pending
        /\ pc' = [pc EXCEPT ![c] = "fin_add"]
        /\ UNCHANGED <<ring, num_threads, killed, hi, life, wpc, wjob, arg,
                       signalled>>

\* Queue the barrier job with fence fences[lo].
FinishAdd(c) ==
  /\ pc[c] = "fin_add" /\ lo < num_threads
  /\ AddJob(c, lo)

FinishAdded(c) ==
  /\ pc[c] = "fin_add" /\ lo >= num_threads
  /\ pc' = [pc EXCEPT ![c] = "fin_wait"]
  /\ UNCHANGED <<ring, num_threads, killed, fin, life, wpc, wjob, arg, signalled>>

\* All fences have been waited for.
FinishWaited(c) ==
  pc[c] = "fin_wait" /\ \A i \in 0 .. num_threads - 1 : i \in signalled

FinishReturn(c) ==
  /\ FinishWaited(c)
  /\ finish_lock' = NoClient
  /\ pc' = [pc EXCEPT ![c] = "idle"]
  /\ before' = {}
  /\ UNCHANGED <<ring, num_threads, killed, lo, hi, bar_count, life, wpc, wjob,
                 arg, signalled>>

-----------------------------------------------------------------------------
(***************************************************************************)
(* util_queue_kill_threads and its callers: util_queue_adjust_num_threads,  *)
(* util_queue_destroy and the atexit handler                                *)
(***************************************************************************)

\* The part of kill_threads from taking finish_lock to the joins.
KillSignal(c, keep) ==
  /\ finish_lock' = c
  /\ num_threads' = keep
  /\ lo' = keep /\ hi' = num_threads
  /\ BroadcastHasQueued
  /\ UNCHANGED <<ring, bar_count, before, life, wjob, arg, signalled>>

\* util_queue_adjust_num_threads.  num_threads is raised before the threads are
\* created, without queue->lock.
Adjust(c) ==
  /\ pc[c] = "idle" /\ ~closing
  /\ finish_lock = NoClient
  /\ \E n \in 1 .. MaxThreads :
       \/ n = num_threads /\ UNCHANGED vars
       \/ /\ n < num_threads
          /\ KillSignal(c, n)
          /\ pc' = [pc EXCEPT ![c] = "join"]
          /\ UNCHANGED killed
       \/ /\ n > num_threads
          /\ finish_lock' = c
          /\ num_threads' = n
          /\ lo' = num_threads
          /\ pc' = [pc EXCEPT ![c] = "create"]
          /\ UNCHANGED <<ring, killed, hi, bar_count, before, life, wpc, wjob, arg,
                         signalled>>

\* One round of the creation loop; a failure ends it and num_threads stays.
CreateThread(c) ==
  /\ pc[c] = "create"
  /\ \/ /\ lo < num_threads
        /\ wpc' = [wpc EXCEPT ![lo] = "loop"]
        /\ lo' = lo + 1
        /\ UNCHANGED <<finish_lock, pc>>
     \/ /\ lo = num_threads \/ CreateMayFail
        /\ finish_lock' = NoClient
        /\ pc' = [pc EXCEPT ![c] = "idle"]
        /\ UNCHANGED <<lo, wpc>>
  /\ UNCHANGED <<ring, num_threads, killed, hi, bar_count, before, life, wjob, arg,
                 signalled>>

\* thrd_join returns for all of the threads lo..hi-1.
JoinedAtOnce == TRUE
Joined == \A w \in lo .. hi - 1 : wpc[w] \in {"done", "none"}

\* thrd_join of threads lo..hi-1, in a kill that came from adjust (the caller
\* goes on at `idle'), destroy or the exit handler.  (A slot of queue->threads
\* whose creation failed holds 0: joining it is undefined and taken to return.)
JoinThreads(c) ==
  /\ pc[c] = "join"
  /\ Joined
  /\ wpc' = [w \in Workers |-> IF w \in lo .. hi - 1 /\ wpc[w] = "done" THEN "none"
                               ELSE wpc[w]]
  /\ finish_lock' = NoClient
  /\ pc' = [pc EXCEPT ![c] = IF exit_mutex = c THEN "exit_unlock"
                             ELSE IF lo = 0 THEN "destroy_unlist"
                             ELSE "idle"]
  /\ UNCHANGED <<ring, num_threads, killed, lo, hi, bar_count, before, life, wjob,
                 arg, signalled>>

\* util_queue_kill_threads(queue, 0, false), called at `from'; it has nothing to
\* do if the threads are gone already.
KillAll(c, from, after) ==
  /\ pc[c] = from
  /\ finish_lock = NoClient
  /\ \/ /\ num_threads = 0
        /\ pc' = [pc EXCEPT ![c] = after]
        /\ UNCHANGED <<ring, num_threads, killed, fin, life, wpc, wjob, arg,
                       signalled>>
     \/ /\ num_threads # 0
        /\ KillSignal(c, 0)
        /\ killed' = TRUE
        /\ pc' = [pc EXCEPT ![c] = "join"]

\* mtx_lock(&exit_mutex) can go on.
ExitMutexIgnored == TRUE
ExitMutexFree == exit_mutex = NoClient

\* util_queue_destroy: the caller guarantees that nobody else is using the
\* queue and nobody will; only the exit handler may still come across it.
DestroyBegin(c) ==
  /\ Shutdown
  /\ pc[c] = "idle" /\ ~closing
  /\ \A d \in Clients : pc[d] \in {"idle", "exit_kill", "exit_unlock", "gone"}
                        \/ (pc[d] = "join" /\ exit_mutex = d)
  /\ closing' = TRUE
  /\ pc' = [pc EXCEPT ![c] = "destroy_kill"]
  /\ UNCHANGED <<ring, num_threads, killed, fin, exit_mutex, listed, destroyed, wpc,
                 wjob, arg, signalled>>

DestroyKill(c) == KillAll(c, "destroy_kill", "destroy_unlist")

\* remove_from_atexit_list, under exit_mutex; then the queue is freed.
DestroyUnlist(c) ==
  /\ pc[c] = "destroy_unlist"
  /\ ExitMutexFree
  /\ listed' = FALSE /\ destroyed' = TRUE
  /\ pc' = [pc EXCEPT ![c] = "idle"]
  /\ UNCHANGED <<ring, num_threads, killed, fin, exit_mutex, closing, wpc, wjob, arg,
                 signalled>>

\* atexit_handler, run by the client that calls exit(): with exit_mutex held,
\* kill the threads of every listed queue.
ExitBegin(c) ==
  /\ Shutdown
  /\ pc[c] = "idle"
  /\ ExitMutexFree
  /\ \A d \in Clients : pc[d] # "gone"
  /\ exit_mutex' = c
  /\ pc' = [pc EXCEPT ![c] = IF listed THEN "exit_kill" ELSE "exit_unlock"]
  /\ UNCHANGED <<ring, num_threads, killed, fin, listed, closing, destroyed, wpc,
                 wjob, arg, signalled>>

ExitKill(c) == KillAll(c, "exit_kill", "exit_unlock")

ExitEnd(c) ==
  /\ pc[c] = "exit_unlock"
  /\ exit_mutex' = NoClient
  /\ pc' = [pc EXCEPT ![c] = "gone"]
  /\ UNCHANGED <<ring, num_threads, killed, fin, listed, closing, destroyed, wpc,
                 wjob, arg, signalled>>

-----------------------------------------------------------------------------
\* What a worker does by itself.
WorkerStep(w) ==
  \/ WorkerSleep(w) \/ WorkerTake(w) \/ WorkerExecute(w) \/ WorkerBarrier(w)
  \/ WorkerSignal(w) \/ WorkerCleanup(w) \/ WorkerLeave(w) \/ WorkerDrain(w)

\* What a client does inside of a call it has begun.
ClientStep(c) ==
  \/ AddWoken(c)
  \/ DropSearch(c) \/ DropSignal(c) \/ DropWait(c)
  \/ FinishAdd(c) \/ FinishAdded(c) \/ FinishReturn(c)
  \/ CreateThread(c) \/ JoinThreads(c)
  \/ DestroyKill(c) \/ DestroyUnlist(c) \/ ExitKill(c) \/ ExitEnd(c)

\* The calls.
ClientCall(c) ==
  \/ ClientAdd(c) \/ DropBegin(c) \/ FinishBegin(c) \/ Adjust(c)
  \/ DestroyBegin(c) \/ ExitBegin(c)

Next ==
  \/ \E w \in Workers : WorkerStep(w) \/ WorkerSpurious(w)
  \/ \E c \in Clients : ClientStep(c) \/ ClientCall(c) \/ AddSpurious(c)

\* The scheduler runs every thread that can go on; jobs' execute functions
\* return.  Nothing makes a client call, and nothing wakes a waiting thread
\* but a signal.
Fairness ==
  /\ \A w \in Workers : WF_vars(WorkerStep(w))
  /\ \A c \in Clients : WF_vars(ClientStep(c))

Spec == Init /\ [][Next]_vars
FairSpec == Spec /\ Fairness

-----------------------------------------------------------------------------
(***************************************************************************)
(* Properties                                                               *)
(***************************************************************************)

\* Every variable has its type; the indices stay inside of the ring.
RingType ==
  /\ max_jobs \in Nat \ {0}
  /\ jobs \in [Slots -> Tokens \cup {NoJob}]
  /\ read_idx \in Slots /\ write_idx \in Slots
  /\ num_queued \in Int /\ total_jobs_size \in Int

ThreadsType ==
  /\ num_threads \in 0 .. MaxThreads
  /\ wpc \in [Workers -> WorkerPCs]
  /\ wjob \in [Workers -> Tokens \cup {NoJob}]

ClientsType ==
  /\ finish_lock \in Clients \cup {NoClient}
  /\ exit_mutex \in Clients \cup {NoClient}
  /\ pc \in [Clients -> ClientPCs]
  /\ arg \in [Clients -> Tokens \cup {NoJob}]
  /\ lo \in 0 .. MaxThreads /\ hi \in 0 .. MaxThreads
  /\ bar_count \in 0 .. MaxThreads
  /\ signalled \in SUBSET Tokens
  /\ before \in SUBSET Jobs

FlagsType ==
  /\ listed \in BOOLEAN /\ closing \in BOOLEAN /\ destroyed \in BOOLEAN
  /\ killed \in BOOLEAN

TypeOK == RingType /\ ThreadsType /\ ClientsType /\ FlagsType

\* Slot i is one of the num_queued slots from read_idx on.
InWindow(i) ==
  IF read_idx + num_queued <= max_jobs
  THEN read_idx <= i /\ i < read_idx + num_queued
  ELSE read_idx <= i \/ i < read_idx + num_queued - max_jobs

\* The ring, until the queue is shut down: num_queued agrees with the two
\* indices and never leaves 0..max_jobs (the assertion at the top of the worker
\* loop and in util_queue_add_job), and a slot outside of the window is cleared
\* (the assertion `ptr->job == NULL' in util_queue_add_job), through wrap-around,
\* resizing, dropped jobs and changes of the number of threads.
RingConsistent ==
  ~killed =>
    /\ num_queued \in 0 .. max_jobs
    /\ write_idx = IF read_idx + num_queued < max_jobs
                   THEN read_idx + num_queued
                   ELSE read_idx + num_queued - max_jobs
    /\ \A i \in Slots : jobs[i] # NoJob => InWindow(i)

\* The slots, workers and clients that will signal fence f, sooner or later.
SlotsOf(f) == {i \in Slots : jobs[i] = f}
WorkersOf(f) ==
  {w \in Workers : wjob[w] = f /\ wpc[w] \in {"exec", "barrier", "signal"}}
ClientsOf(f) ==
  {c \in Clients : arg[c] = f /\ pc[c] \in {"space_wait", "space_woken",
                                          "drop_signal"}}

\* A signalled fence has nobody left that would signal it or run its job again
\* (the assertion `val != 0' in util_queue_fence_signal; its owner may free it),
\* and nobody shares a job: a slot, a worker, a blocked producer or a dropping
\* client has it alone.
FenceSignalledOnce ==
  \A f \in Tokens :
    LET holders == (SlotsOf(f) \X {"slot"}) \cup (WorkersOf(f) \X {"worker"})
                   \cup (ClientsOf(f) \X {"client"})
    IN  /\ f \in signalled => holders = {}
        /\ \A x, y \in holders : x = y

\* Until shutdown no fence is orphaned: an unsignalled fence has somebody who
\* will signal it.
NoOrphanFence ==
  ~killed =>
    \A f \in Tokens :
      f \notin signalled => SlotsOf(f) # {} \/ WorkersOf(f) # {} \/ ClientsOf(f) # {}

\* "Wait until all previously added jobs have completed": when util_queue_finish
\* can return, each job that was in the ring or executing when it began has been
\* executed and signalled, or dropped (until shutdown).
FinishWaitsForAll ==
  ~killed => \A c \in Clients : FinishWaited(c) => before = {}

\* A worker above num_threads lives only while its killer holds finish_lock and
\* joins it; so num_threads cannot be raised between the two tests of it in the
\* worker's loop (util_queue_adjust_num_threads raises it without queue->lock).
DoomedAreJoined ==
  \A w \in Workers :
    (wpc[w] # "none" /\ w >= num_threads) =>
      \E c \in Clients : finish_lock = c /\ pc[c] = "join" /\ w \in lo .. hi - 1

\* The barrier of a finish has been set up for exactly the workers that are
\* there: num_threads does not change while a finish is under way.
FinishPinsThreads ==
  \A c \in Clients :
    pc[c] \in {"fin_add", "fin_wait"} => finish_lock = c /\ bar_count = num_threads

\* No lost wakeup: jobs are never left in the ring with every worker asleep,
\* also when a signal went to a worker that util_queue_kill_threads terminates.
SomeoneAwake ==
  (num_queued # 0 /\ num_threads # 0) =>
    \E w \in 0 .. num_threads - 1 : wpc[w] # "wait"

\* After util_queue_destroy has freed the queue no worker is running and no exit
\* handler is using it.
NoUseAfterDestroy ==
  destroyed =>
    /\ \A w \in Workers : wpc[w] = "none"
    /\ \A c \in Clients : pc[c] \notin {"exit_kill", "join"}

\* "signal remaining jobs if all threads are being terminated" (the comment in
\* util_queue_thread_func): once the last worker has been joined, no job is left
\* in the ring with its fence unsignalled.  The scan of a full ring visits no
\* slot, so this does not hold.
RemainingJobsSignalled ==
  (killed /\ \A w \in Workers : wpc[w] = "none") =>
    \A i \in Slots : jobs[i] # NoJob => jobs[i] \in signalled

\* A queued job is taken out of the ring: executed or dropped.
QueuedJobsLeave ==
  \A j \in Jobs : (\E i \in Slots : jobs[i] = j) ~> (\A i \in Slots : jobs[i] # j)

\* The calls that wait come back: util_queue_finish once its barrier jobs are
\* queued, util_queue_drop_job from the fence of a job that was taken already, and
\* util_queue_kill_threads from joining the threads it terminates.
CallsReturn ==
  \A c \in Clients : \A wait \in {"fin_wait", "drop_wait", "join"} :
    (pc[c] = wait) ~> (pc[c] # wait)
=============================================================================
