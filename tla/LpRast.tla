------------------------------- MODULE LpRast -------------------------------
(***************************************************************************)
(* The rasterizer of llvmpipe: the worker threads of lp_rast.c, the barrier *)
(* and the semaphores that bring them together, the bin iterator of a scene *)
(* (lp_scene.c), the reference-counted fences of lp_fence.c, and what a     *)
(* context does to have a scene rasterized (lp_setup_rasterize_scene).      *)
(*                                                                          *)
(* Several contexts share the rasterizer of their screen.  A context has    *)
(* one scene in flight, so a scene is named after its context.  A section   *)
(* under a mutex without a wait is one action.  The barrier is the one the  *)
(* repository brings along (u_thread.h, where pthread_barrier_t is missing) *)
(* and the ring of full scenes (lp_scene_queue.c) is a bounded sequence.    *)
(***************************************************************************)
EXTENDS Integers, Sequences, FiniteSets

CONSTANTS
  Contexts,       \* contexts of the screen, each with a thread and a scene
  NoContext,      \* no scene (NULL); nobody holds rast_mutex
  Fences,         \* memory for struct lp_fence: bound of the model
  NoFence,        \* NULL
  ScreenThreads,  \* screen->num_threads, 0: rasterize in the caller
  FbTiles,        \* framebuffer sizes, <<tiles_x, tiles_y>>
  CreateMayFail,  \* may u_thread_create fail?
  SeqWrap         \* sequence numbers of the barrier wrap here, 2^64

ASSUME ThreadsAssumption == ScreenThreads \in Nat
ASSUME ContextsAssumption == IsFiniteSet(Contexts)
ASSUME NamesAssumption == NoContext \notin Contexts /\ NoFence \notin Fences
ASSUME FbAssumption == FbTiles \subseteq Nat \X Nat
ASSUME WrapAssumption == SeqWrap \in Nat /\ SeqWrap > 1
ASSUME CreateAssumption == CreateMayFail \in BOOLEAN

\* SCENE_QUEUE_SIZE.
SceneQueueSize == 4

\* rast->tasks: one for each thread, and one in the unthreaded case.
Tasks == 0 .. (IF ScreenThreads = 0 THEN 0 ELSE ScreenThreads - 1)

TilesOf(fb) == (0 .. fb[1] - 1) \X (0 .. fb[2] - 1)
AllTiles == UNION {TilesOf(fb) : fb \in FbTiles}
NoTile == <<-1, -1>>

VARIABLES
  num_threads,    \* rast->num_threads
  exit_flag, full_scenes, curr_scene, work_ready, work_done,
  waiters, sequence,   \* rast->barrier
  tpc, tscene, tbin,   \* the tasks: where they are, task->scene, the bin drawn
  tseq,                \* the local variable of util_barrier_wait
  rast_mutex,
  cpc, next,           \* the contexts: where they are, loop variable i
  tiles, bins,         \* the scenes: tiles_x and tiles_y, bins with commands
  curr,                \* the scenes' curr_x and curr_y
  scene_fence, last_fence,
  handle,              \* a fence the application holds
  refs, rank, count, issued,   \* the fences
  screen,              \* "open", then the steps of lp_rast_destroy
  binned, drawn        \* history: bins with commands at submission, bins drawn

pool   == <<work_ready, work_done, waiters, sequence, tpc, tscene, tbin, tseq>>
rast   == <<num_threads, exit_flag, full_scenes, curr_scene>>
scenes == <<tiles, bins, curr, binned, drawn>>
fences == <<scene_fence, last_fence, handle, refs, rank, count, issued>>
ctx    == <<rast_mutex, cpc, next>>
vars   == <<pool, rast, scenes, fences, ctx, screen>>

TaskPCs == {"none", "ready", "begin", "enter1", "wait1", "scene", "bins", "draw",
            "fence", "enter2", "wait2", "end", "done", "exited"}
ContextPCs == {"flushed", "binning", "lock", "queue", "signal", "inline",
               "finish", "end", "fence_wait", "fence_timedwait", "gone"}

-----------------------------------------------------------------------------
(***************************************************************************)
(* Fences                                                                   *)
(***************************************************************************)

\* lp_fence_reference(&old, new) as far as the counts go.
ReferenceNoInc(old, new) ==
  [f \in Fences |-> refs[f] - (IF f = old /\ old # new THEN 1 ELSE 0)]
Reference(old, new) ==
  [f \in Fences |-> refs[f] + (IF f = new /\ old # new THEN 1 ELSE 0)
                            - (IF f = old /\ old # new THEN 1 ELSE 0)]

\* lp_fence_create puts a fresh fence in the place of a NULL pointer.
FenceCreate(f, r) ==
  /\ refs[f] = 0
  /\ refs' = [refs EXCEPT ![f] = 1]
  /\ rank' = [rank EXCEPT ![f] = r]
  /\ count' = [count EXCEPT ![f] = 0]
  /\ issued' = issued \ {f}

Signalled(f) == count[f] = rank[f]

\* MAX2(1, setup->num_threads): one count for each task that will signal.
SceneRankExtra(c) == ScreenThreads + 1
SceneRank(c) == IF ScreenThreads = 0 THEN 1 ELSE ScreenThreads

-----------------------------------------------------------------------------
\* lp_rast_create: the threads that could be created wait for work.
Init ==
  /\ num_threads \in IF CreateMayFail THEN 0 .. ScreenThreads ELSE {ScreenThreads}
  /\ exit_flag = FALSE /\ full_scenes = <<>> /\ curr_scene = NoContext
  /\ work_ready = [t \in Tasks |-> 0] /\ work_done = [t \in Tasks |-> 0]
  /\ waiters = 0 /\ sequence = 0
  /\ tpc = [t \in Tasks |-> IF t < num_threads THEN "ready" ELSE "none"]
  /\ tscene = [t \in Tasks |-> NoContext]
  /\ tbin = [t \in Tasks |-> NoTile]
  /\ tseq = [t \in Tasks |-> 0]
  /\ rast_mutex = NoContext
  /\ cpc = [c \in Contexts |-> "flushed"] /\ next = [c \in Contexts |-> 0]
  /\ tiles = [c \in Contexts |-> <<0, 0>>] /\ bins = [c \in Contexts |-> {}]
  /\ curr = [c \in Contexts |-> NoTile]
  /\ scene_fence = [c \in Contexts |-> NoFence]
  /\ last_fence = [c \in Contexts |-> NoFence]
  /\ handle = NoFence
  /\ refs = [f \in Fences |-> 0] /\ rank = [f \in Fences |-> 0]
  /\ count = [f \in Fences |-> 0] /\ issued = {}
  /\ screen = "open"
  /\ binned = [c \in Contexts |-> {}] /\ drawn = [c \in Contexts |-> {}]

-----------------------------------------------------------------------------
(***************************************************************************)
(* Scenes                                                                   *)
(***************************************************************************)

\* lp_rast_begin: the scene becomes the current one, its iterator is reset.
RastBegin(c) ==
  /\ curr_scene' = c
  /\ curr' = [curr EXCEPT ![c] = NoTile]
  /\ UNCHANGED <<tiles, bins, binned, drawn>>

\* lp_scene_end_rasterization: empty the bins, drop the scene's fence.
EndRasterization(c) ==
  /\ bins' = [bins EXCEPT ![c] = {}]
  /\ scene_fence' = [scene_fence EXCEPT ![c] = NoFence]
  /\ refs' = Reference(scene_fence[c], NoFence)
  /\ UNCHANGED <<tiles, curr, binned, drawn, last_fence, handle, rank, count, issued>>

\* curr_x and curr_y after lp_scene_bin_iter_next: the first bin, or next_bin.
AdvanceRestarts(c) ==
  LET x == curr[c][1] y == curr[c][2] IN
  IF x <= 0 THEN <<0, 0>>
  ELSE IF x + 1 >= tiles[c][1] THEN <<0, y + 1>> ELSE <<x + 1, y>>
Advance(c) ==
  LET x == curr[c][1] y == curr[c][2] IN
  IF x < 0 THEN <<0, 0>>
  ELSE IF x + 1 >= tiles[c][1] THEN <<0, y + 1>> ELSE <<x + 1, y>>

\* The call returns NULL.  (The first one never does, whatever the size.)
Exhausted(c) == curr[c][1] >= 0 /\ Advance(c)[2] >= tiles[c][2]

-----------------------------------------------------------------------------
(***************************************************************************)
(* rasterize_scene, run by each thread, or by the caller as task 0          *)
(***************************************************************************)

\* task->scene = scene.
TaskScene(t) ==
  /\ tpc[t] = "scene"
  /\ tscene' = [tscene EXCEPT ![t] = curr_scene]
  /\ tpc' = [tpc EXCEPT ![t] = "bins"]
  /\ UNCHANGED <<work_ready, work_done, waiters, sequence, tbin, tseq, rast, scenes,
                 fences, ctx, screen>>

\* lp_scene_bin_iter_next, under scene->mutex; an empty bin is skipped.
TaskNextBin(t) ==
  LET c == tscene[t] IN
  /\ tpc[t] = "bins"
  /\ c # NoContext
  /\ curr' = [curr EXCEPT ![c] = Advance(c)]
  /\ IF Exhausted(c)
     THEN tpc' = [tpc EXCEPT ![t] = "fence"] /\ UNCHANGED tbin
     ELSE IF Advance(c) \in bins[c]
     THEN tpc' = [tpc EXCEPT ![t] = "draw"] /\ tbin' = [tbin EXCEPT ![t] = Advance(c)]
     ELSE UNCHANGED <<tpc, tbin>>
  /\ UNCHANGED <<work_ready, work_done, waiters, sequence, tscene, tseq, rast, tiles,
                 bins, binned, drawn, fences, ctx, screen>>

\* rasterize_bin: execute the bin's commands.
TaskDraw(t) ==
  /\ tpc[t] = "draw"
  /\ drawn' = [drawn EXCEPT ![tscene[t]] = @ \cup {tbin[t]}]
  /\ tbin' = [tbin EXCEPT ![t] = NoTile]
  /\ tpc' = [tpc EXCEPT ![t] = "bins"]
  /\ UNCHANGED <<work_ready, work_done, waiters, sequence, tscene, tseq, rast, tiles,
                 bins, curr, binned, fences, ctx, screen>>

\* lp_fence_signal, and the return of rasterize_scene.
TaskFence(t) ==
  LET f == scene_fence[tscene[t]] IN
  /\ tpc[t] = "fence"
  /\ count' = IF f = NoFence THEN count ELSE [count EXCEPT ![f] = @ + 1]
  /\ tscene' = [tscene EXCEPT ![t] = NoContext]
  /\ tpc' = [tpc EXCEPT ![t] = IF num_threads = 0 THEN "none" ELSE "enter2"]
  /\ UNCHANGED <<work_ready, work_done, waiters, sequence, tbin, tseq, rast, scenes,
                 scene_fence, last_fence, handle, refs, rank, issued, ctx, screen>>

-----------------------------------------------------------------------------
(***************************************************************************)
(* thread_function                                                          *)
(***************************************************************************)

\* pipe_semaphore_wait(&task->work_ready), then the test of exit_flag.
ThreadWork(t) ==
  /\ tpc[t] = "ready" /\ work_ready[t] > 0
  /\ work_ready' = [work_ready EXCEPT ![t] = @ - 1]
  /\ tpc' = [tpc EXCEPT ![t] = IF exit_flag THEN "exited"
                               ELSE IF t = 0 THEN "begin" ELSE "enter1"]
  /\ UNCHANGED <<work_done, waiters, sequence, tscene, tbin, tseq, rast, scenes,
                 fences, ctx, screen>>

\* Thread 0: lp_scene_dequeue waits for a scene; lp_rast_begin.
ThreadBegin(t) ==
  /\ tpc[t] = "begin" /\ full_scenes # <<>>
  /\ full_scenes' = Tail(full_scenes)
  /\ RastBegin(Head(full_scenes))
  /\ tpc' = [tpc EXCEPT ![t] = "enter1"]
  /\ UNCHANGED <<work_ready, work_done, waiters, sequence, tscene, tbin, tseq,
                 num_threads, exit_flag, fences, ctx, screen>>

\* The barrier was initialized for num_threads threads.
LastToArriveEarly == TRUE
LastToArrive == waiters + 1 >= num_threads

\* util_barrier_wait up to cnd_wait, at either of the two calls.
BarrierWait(t, from, wait, to) ==
  /\ tpc[t] = from
  /\ IF LastToArrive
     THEN /\ waiters' = 0
          /\ sequence' = (sequence + 1) % SeqWrap
          /\ tpc' = [tpc EXCEPT ![t] = to]
          /\ UNCHANGED tseq
     ELSE /\ waiters' = waiters + 1
          /\ tseq' = [tseq EXCEPT ![t] = sequence]
          /\ tpc' = [tpc EXCEPT ![t] = wait]
          /\ UNCHANGED sequence
  /\ UNCHANGED <<work_ready, work_done, tscene, tbin, rast, scenes, fences, ctx,
                 screen>>

\* cnd_wait returned and the sequence number has moved.
BarrierLeave(t, wait, to) ==
  /\ tpc[t] = wait /\ tseq[t] # sequence
  /\ tpc' = [tpc EXCEPT ![t] = to]
  /\ UNCHANGED <<work_ready, work_done, waiters, sequence, tscene, tbin, tseq, rast,
                 scenes, fences, ctx, screen>>

\* Past the second barrier thread 0 ends the scene; the others are done.
AfterBarrier2(t) == IF t = 0 THEN "end" ELSE "done"

ThreadBarriers(t) ==
  \/ BarrierWait(t, "enter1", "wait1", "scene")
  \/ BarrierLeave(t, "wait1", "scene")
  \/ BarrierWait(t, "enter2", "wait2", AfterBarrier2(t))
  \/ BarrierLeave(t, "wait2", AfterBarrier2(t))

\* Thread 0: lp_rast_end.
ThreadEnd(t) ==
  /\ tpc[t] = "end"
  /\ EndRasterization(curr_scene)
  /\ curr_scene' = NoContext
  /\ tpc' = [tpc EXCEPT ![t] = "done"]
  /\ UNCHANGED <<work_ready, work_done, waiters, sequence, tscene, tbin, tseq,
                 num_threads, exit_flag, full_scenes, ctx, screen>>

ThreadDone(t) ==
  /\ tpc[t] = "done"
  /\ work_done' = [work_done EXCEPT ![t] = @ + 1]
  /\ tpc' = [tpc EXCEPT ![t] = "ready"]
  /\ UNCHANGED <<work_ready, waiters, sequence, tscene, tbin, tseq, rast, scenes,
                 fences, ctx, screen>>

-----------------------------------------------------------------------------
(***************************************************************************)
(* The contexts                                                             *)
(***************************************************************************)

\* lp_setup_get_empty_scene and begin_binning, then the binning of any
\* commands: a framebuffer size, a fence, a set of bins with commands.  A fence
\* left on the scene would have to be waited for; there is none.
BeginScene(c) ==
  /\ cpc[c] = "flushed" /\ screen = "open"
  /\ scene_fence[c] = NoFence
  /\ \E fb \in FbTiles, f \in Fences :
       /\ tiles' = [tiles EXCEPT ![c] = fb]
       /\ \E b \in SUBSET TilesOf(fb) :
            bins' = [bins EXCEPT ![c] = b] /\ binned' = [binned EXCEPT ![c] = b]
       /\ FenceCreate(f, SceneRank(c))
       /\ scene_fence' = [scene_fence EXCEPT ![c] = f]
  /\ drawn' = [drawn EXCEPT ![c] = {}]
  /\ cpc' = [cpc EXCEPT ![c] = "binning"]
  /\ UNCHANGED <<pool, rast, curr, last_fence, handle, rast_mutex, next, screen>>

\* The fence of a scene on its way to the rasterizer is marked as issued.
Issue(f) == issued \cup ({f} \ {NoFence})

\* lp_setup_rasterize_scene up to mtx_lock(&screen->rast_mutex).
RasterizeScene(c) ==
  /\ cpc[c] = "binning"
  /\ last_fence' = [last_fence EXCEPT ![c] = scene_fence[c]]
  /\ refs' = Reference(last_fence[c], scene_fence[c])
  /\ issued' = Issue(scene_fence[c])
  /\ cpc' = [cpc EXCEPT ![c] = "lock"]
  /\ UNCHANGED <<pool, rast, scenes, scene_fence, handle, rank, count, rast_mutex, next,
                 screen>>

RastMutexIgnored == TRUE
RastMutexFree == rast_mutex = NoContext

LockRast(c) ==
  /\ cpc[c] = "lock" /\ RastMutexFree
  /\ rast_mutex' = c
  /\ cpc' = [cpc EXCEPT ![c] = "queue"]
  /\ UNCHANGED <<pool, rast, scenes, fences, next, screen>>

\* lp_rast_queue_scene without threads: lp_rast_begin, and task 0 is run here.
QueueInline(c) ==
  /\ cpc[c] = "queue" /\ num_threads = 0
  /\ RastBegin(c)
  /\ tpc' = [tpc EXCEPT ![0] = "scene"]
  /\ cpc' = [cpc EXCEPT ![c] = "inline"]
  /\ UNCHANGED <<work_ready, work_done, waiters, sequence, tscene, tbin, tseq,
                 num_threads, exit_flag, full_scenes, fences, rast_mutex, next, screen>>

\* ... and lp_rast_end when rasterize_scene has returned.
InlineEnd(c) ==
  /\ cpc[c] = "inline" /\ tpc[0] = "none"
  /\ EndRasterization(c)
  /\ curr_scene' = NoContext
  /\ rast_mutex' = NoContext
  /\ cpc' = [cpc EXCEPT ![c] = "end"]
  /\ UNCHANGED <<pool, num_threads, exit_flag, full_scenes, next, screen>>

\* lp_rast_queue_scene with threads: enqueue the scene, if there is space ...
QueueScene(c) ==
  /\ cpc[c] = "queue" /\ num_threads > 0
  /\ Len(full_scenes) < SceneQueueSize
  /\ full_scenes' = Append(full_scenes, c)
  /\ next' = [next EXCEPT ![c] = 0]
  /\ cpc' = [cpc EXCEPT ![c] = "signal"]
  /\ UNCHANGED <<pool, num_threads, exit_flag, curr_scene, scenes, fences, rast_mutex,
                 screen>>

\* The bound of the loop in lp_rast_finish.
LoopLimitShort == num_threads - 1
LoopLimit == num_threads

\* ... and wake the threads one by one.
SignalReady(c) ==
  /\ cpc[c] = "signal"
  /\ work_ready' = [work_ready EXCEPT ![next[c]] = @ + 1]
  /\ IF next[c] + 1 < num_threads
     THEN next' = [next EXCEPT ![c] = @ + 1] /\ UNCHANGED cpc
     ELSE next' = [next EXCEPT ![c] = 0] /\ cpc' = [cpc EXCEPT ![c] = "finish"]
  /\ UNCHANGED <<work_done, waiters, sequence, tpc, tscene, tbin, tseq, rast, scenes,
                 fences, rast_mutex, screen>>

\* lp_rast_finish: wait for the threads one by one; unlock rast_mutex.
WaitDone(c) ==
  /\ cpc[c] = "finish" /\ next[c] < LoopLimit /\ work_done[next[c]] > 0
  /\ work_done' = [work_done EXCEPT ![next[c]] = @ - 1]
  /\ next' = [next EXCEPT ![c] = @ + 1]
  /\ UNCHANGED <<work_ready, waiters, sequence, tpc, tscene, tbin, tseq, rast, scenes,
                 fences, rast_mutex, cpc, screen>>

FinishReturns(c) ==
  /\ cpc[c] = "finish" /\ next[c] >= LoopLimit
  /\ rast_mutex' = NoContext
  /\ cpc' = [cpc EXCEPT ![c] = "end"]
  /\ UNCHANGED <<pool, rast, scenes, fences, next, screen>>

\* The end of lp_setup_rasterize_scene: lp_scene_end_rasterization once more,
\* lp_setup_reset.
EndScene(c) ==
  /\ cpc[c] = "end"
  /\ EndRasterization(c)
  /\ next' = [next EXCEPT ![c] = 0]
  /\ cpc' = [cpc EXCEPT ![c] = "flushed"]
  /\ UNCHANGED <<pool, rast, rast_mutex, screen>>

\* lp_setup_flush of a context with nothing to flush: the application gets the
\* last fence, or a new one of rank 0.
FlushHandle(c) ==
  /\ cpc[c] = "flushed" /\ screen = "open" /\ handle = NoFence
  /\ \/ /\ last_fence[c] # NoFence
        /\ handle' = last_fence[c]
        /\ refs' = Reference(NoFence, last_fence[c])
        /\ UNCHANGED <<rank, count, issued>>
     \/ /\ last_fence[c] = NoFence
        /\ \E f \in Fences : FenceCreate(f, 0) /\ handle' = f
  /\ UNCHANGED <<pool, rast, scenes, scene_fence, last_fence, ctx, screen>>

\* llvmpipe_fence_finish of the application's fence, in any context.
FenceFinish(c) ==
  /\ cpc[c] = "flushed" /\ handle # NoFence
  /\ ~Signalled(handle)
  /\ \E wait \in {"fence_wait", "fence_timedwait"} : cpc' = [cpc EXCEPT ![c] = wait]
  /\ UNCHANGED <<pool, rast, scenes, fences, rast_mutex, next, screen>>

\* lp_fence_wait and lp_fence_timedwait: the count has been reached, or it has
\* not and the time is over.
FenceWaited(c) ==
  /\ \/ cpc[c] \in {"fence_wait", "fence_timedwait"} /\ count[handle] >= rank[handle]
     \/ cpc[c] = "fence_timedwait" /\ count[handle] < rank[handle]
  /\ cpc' = [cpc EXCEPT ![c] = "flushed"]
  /\ UNCHANGED <<pool, rast, scenes, fences, rast_mutex, next, screen>>

\* The application gives its fence back once nobody waits for it.
ReleaseHandle ==
  /\ handle # NoFence
  /\ \A c \in Contexts : cpc[c] \notin {"fence_wait", "fence_timedwait"}
  /\ handle' = NoFence
  /\ refs' = Reference(handle, NoFence)
  /\ UNCHANGED <<pool, rast, scenes, scene_fence, last_fence, rank, count, issued, ctx,
                 screen>>

\* lp_setup_destroy of a flushed context.
DestroyContext(c) ==
  /\ cpc[c] = "flushed"
  /\ refs' = Reference(last_fence[c], NoFence)
  /\ last_fence' = [last_fence EXCEPT ![c] = NoFence]
  /\ cpc' = [cpc EXCEPT ![c] = "gone"]
  /\ UNCHANGED <<pool, rast, scenes, scene_fence, handle, rank, count, issued,
                 rast_mutex, next, screen>>

-----------------------------------------------------------------------------
(***************************************************************************)
(* lp_rast_destroy, when the screen goes, after its contexts                *)
(***************************************************************************)

\* The threads whose semaphore is signalled for the exit.
WokenToExitShort(t) == t + 1 < num_threads
WokenToExit(t) == t < num_threads

DestroyRast ==
  /\ screen = "open" /\ \A c \in Contexts : cpc[c] = "gone"
  /\ exit_flag' = TRUE
  /\ work_ready' = [t \in Tasks |-> work_ready[t] + (IF WokenToExit(t) THEN 1 ELSE 0)]
  /\ screen' = "join"
  /\ UNCHANGED <<work_done, waiters, sequence, tpc, tscene, tbin, tseq, num_threads,
                 full_scenes, curr_scene, scenes, fences, ctx>>

\* thrd_join of all threads; the semaphores, the barrier and the rest are freed.
ThreadsJoined == \A t \in Tasks : tpc[t] \in {"exited", "none"}

FreeRast ==
  /\ screen = "join" /\ ThreadsJoined
  /\ screen' = "freed"
  /\ UNCHANGED <<pool, rast, scenes, fences, ctx>>

-----------------------------------------------------------------------------
TaskStep(t) ==
  \/ TaskScene(t) \/ TaskNextBin(t) \/ TaskDraw(t) \/ TaskFence(t)
  \/ ThreadWork(t) \/ ThreadBegin(t) \/ ThreadBarriers(t) \/ ThreadEnd(t)
  \/ ThreadDone(t)

\* What a context does inside of a call that it has begun.
ContextStep(c) ==
  \/ LockRast(c) \/ QueueInline(c) \/ InlineEnd(c) \/ QueueScene(c) \/ SignalReady(c)
  \/ WaitDone(c) \/ FinishReturns(c) \/ EndScene(c) \/ FenceWaited(c)

ContextCall(c) ==
  \/ BeginScene(c) \/ RasterizeScene(c) \/ FlushHandle(c) \/ FenceFinish(c)
  \/ DestroyContext(c)

Next ==
  \/ \E t \in Tasks : TaskStep(t)
  \/ \E c \in Contexts : ContextStep(c) \/ ContextCall(c)
  \/ ReleaseHandle \/ DestroyRast \/ FreeRast

\* The scheduler runs every thread that can go on.  Nothing makes the
\* application call.
Fairness ==
  /\ \A t \in Tasks : WF_vars(TaskStep(t))
  /\ \A c \in Contexts : WF_vars(ContextStep(c))
  /\ WF_vars(FreeRast)

Spec == Init /\ [][Next]_vars
FairSpec == Spec /\ Fairness
-----------------------------------------------------------------------------
(***************************************************************************)
(* Properties                                                               *)
(***************************************************************************)

\* Every variable has its type; the semaphores stay at 0 or 1.
TypeOK ==
  /\ num_threads \in 0 .. ScreenThreads /\ exit_flag \in BOOLEAN
  /\ full_scenes \in Seq(Contexts) /\ curr_scene \in Contexts \cup {NoContext}
  /\ work_ready \in [Tasks -> 0 .. 1] /\ work_done \in [Tasks -> 0 .. 1]
  /\ waiters \in 0 .. ScreenThreads /\ sequence \in 0 .. SeqWrap - 1
  /\ tpc \in [Tasks -> TaskPCs] /\ tscene \in [Tasks -> Contexts \cup {NoContext}]
  /\ tbin \in [Tasks -> AllTiles \cup {NoTile}]
  /\ tseq \in [Tasks -> 0 .. SeqWrap - 1]
  /\ rast_mutex \in Contexts \cup {NoContext}
  /\ cpc \in [Contexts -> ContextPCs] /\ next \in [Contexts -> 0 .. ScreenThreads]
  /\ tiles \in [Contexts -> FbTiles \cup {<<0, 0>>}]
  /\ bins \in [Contexts -> SUBSET AllTiles] /\ curr \in [Contexts -> Int \X Int]
  /\ scene_fence \in [Contexts -> Fences \cup {NoFence}]
  /\ last_fence \in [Contexts -> Fences \cup {NoFence}]
  /\ handle \in Fences \cup {NoFence}
  /\ refs \in [Fences -> Nat] /\ rank \in [Fences -> Nat] /\ count \in [Fences -> Nat]
  /\ issued \in SUBSET Fences
  /\ screen \in {"open", "join", "freed"}
  /\ binned \in [Contexts -> SUBSET AllTiles] /\ drawn \in [Contexts -> SUBSET AllTiles]

\* A thread past the first barrier finds a scene in rast->curr_scene ("so that
\* threads[1+] don't get a null rast->curr_scene pointer"); it is the same scene
\* for all, its bins are not emptied before the last thread has left
\* rasterize_scene, and its context is the one that holds rast_mutex.
SceneStable ==
  \A t \in Tasks :
    /\ tpc[t] \in {"scene", "bins", "draw", "fence"} =>
         /\ curr_scene # NoContext
         /\ curr_scene = rast_mutex
         /\ bins[curr_scene] = binned[curr_scene]
    /\ tpc[t] \in {"bins", "draw", "fence"} => tscene[t] = curr_scene

\* The iterator gives each bin of a scene to one thread only, once.
BinDrawnOnce ==
  \A t \in Tasks :
    tpc[t] = "draw" =>
      /\ tbin[t] \notin drawn[tscene[t]]
      /\ \A u \in Tasks : (tpc[u] = "draw" /\ u # t) => tbin[u] # tbin[t]

\* The two counters of a fence: references are the pointers to it, so that it is freed
\* with the last of them, not earlier and not never; and no fence is signalled too
\* often, or after it was freed (`assert(fence->count <= fence->rank)' in
\* lp_fence_signal).
FencesExact ==
  \A f \in Fences :
    /\ refs[f] = Cardinality({c \in Contexts : scene_fence[c] = f})
                 + Cardinality({c \in Contexts : last_fence[c] = f})
                 + (IF handle = f THEN 1 ELSE 0)
    /\ count[f] > 0 => count[f] <= rank[f]

\* While nobody holds rast_mutex the rasterizer is as it was at the start: each
\* thread waits for work, each semaphore is at 0, no thread is in the barrier and
\* no scene is queued or current.
QuietWhenUnlocked ==
  (rast_mutex = NoContext /\ ~exit_flag) =>
    /\ full_scenes = <<>> /\ curr_scene = NoContext /\ waiters = 0
    /\ \A t \in Tasks : /\ work_ready[t] = 0 /\ work_done[t] = 0
                        /\ tpc[t] \in {"ready", "none"}

\* A fence the application can see has been issued (`assert(f->issued)' in
\* lp_fence_wait) and, with all threads created, is signalled: what the FIXME in
\* lp_setup_rasterize_scene says of the old scenes, and the reason why
\* lp_fence_wait never blocks.
VisibleFencesSignalled ==
  handle # NoFence =>
    /\ rank[handle] > 0 => handle \in issued
    /\ num_threads = ScreenThreads => Signalled(handle)

\* The state of the abstract service: a scene is rendered while its context holds
\* rast_mutex.
Service == INSTANCE SceneService WITH
  Bins <- AllTiles,
  phase <- [c \in Contexts |->
              IF rast_mutex = c THEN "rendering"
              ELSE IF cpc[c] \in {"binning", "lock"} THEN "submitted" ELSE "idle"],
  todo <- [c \in Contexts |-> binned[c] \ drawn[c]]

\* The rasterizer keeps the promise of SceneService: scenes are rendered one at a
\* time and completely, and a rendering that has begun comes to its end.
ImplementsServiceFairly == Service!FairSpec

\* lp_rast_destroy joins its threads.
DestroyReturns == (screen = "join") ~> (screen = "freed")
=============================================================================
