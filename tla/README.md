# A verification of the threads, scenes, files and buffers of OSMesa

This repository is a Rust crate around Mesa 20.3 (`src/mesa-src`), built with
`-Dosmesa=gallium -Dgallium-drivers=swrast -Dllvm=enabled` and a few local patches:
the OSMesa frontend, the Mesa state tracker and the llvmpipe software rasterizer.
The TLA+ modules here model its concurrent core (the job queue, its fences, the
mutex below both, the rasterizer's and the compute threads), the deferred rendering
of llvmpipe, the files of the shader cache and the buffer management of the frontend. Paths below
are relative to `src/mesa-src/src`.

## Inventory

| Component | State | Operations | Hard behaviour | What makes it correct |
| --- | --- | --- | --- | --- |
| Job queue, `util/u_queue.c` | ring of jobs, two indices, count, `num_threads`, `finish_lock`, `exit_mutex`, list of queues | init, add (blocks, or resizes the ring), drop, finish, adjust the number of threads, kill, destroy, exit handler; the worker loop | two condition variables, threads that come and go while jobs are queued, barrier jobs, shutdown from two sides | each fence signalled once; no job lost; finish waits for what came before; no lost wakeup; nothing used after destroy |
| Queue fence, `util/u_queue.h` | one word 0, 1, 2 | init, reset, signal, wait (with timeout) | announcing a waiter races with the signal; the wake comes after the fence may be in use again | wait returns iff signalled; the assertions hold |
| Simple mutex, `util/simple_mtx.h` | one word 0, 1, 2 | lock, unlock | every atomic operation can be interleaved; futex semantics | mutual exclusion; no lost wakeup |
| Rasterizer, `gallium/drivers/llvmpipe/lp_rast.c` with `lp_scene.c`, `lp_scene_queue.c`, `lp_fence.c` | threads, two semaphores each, a barrier, current scene, bin iterator, counted fences | create, queue a scene, rasterize, finish, flush, fence wait, destroy | many threads on one scene, several contexts on one rasterizer, thread creation that fails | one scene at a time and completely; each bin once; fences complete once, and are freed with the last reference |
| Compute pool, `gallium/drivers/llvmpipe/lp_cs_tpool.c` | work list, tasks with three counters | create, queue a task, wait for a task, destroy | tasks freed by the waiter, failing threads and allocations | each workgroup once; launch returns when all are done |
| OSMesa frontend, `gallium/frontends/osmesa/osmesa.c`, `mesa/state_tracker/st_manager.c` | global list of buffers, contexts, framebuffers per context, dirty flags, user memory | create, destroy, make current, draw, flush | state shared by contexts through the list; weak pointers | the memory given to a context shows what it drew |
| Setup and binning, `gallium/drivers/llvmpipe/lp_setup.c`, `lp_setup_tri.c`, `lp_scene.c`, `lp_query.c`, `lp_flush.c` | setup state, pending clears, bins and memory of a scene, references to textures, active queries | clear, draw, flush, bind a framebuffer, begin, end, read and destroy a query, map a resource | running out of scene memory in the middle of a command, which is then repeated; the CPU touching what a scene still needs | deferral cannot be seen: pictures, mapped memory and query results are as if each command had been carried out at once |
| Disk cache, `util/disk_cache.c` | files `<key>` and `<key>.tmp`, flocks, the size in the shared index | put (evict, write, rename, count), remove, get | processes that share nothing else, failing calls, crashes, names that move from file to file | no reader sees half an entry; nothing a crash leaves does harm; the size is right |
| GL core with glthread, state tracker, GLSL and NIR compilers, gallivm, draw, softpipe | - | - | mostly sequential, compilers, or data far too large | not modelled, except what the above uses |
| Slab allocator, hash tables, formats | - | - | slabs that move between pools | planned, or sequential data structures |
| Other drivers, window systems, frontends, the build script | - | - | not built, or pure I/O | not modelled |

Interaction. The application calls GL and OSMesa; `OSMesaMakeCurrent` and `glFlush`
go through the state tracker back into the frontend's `validate` and `flush_front`.
Drawing reaches llvmpipe, whose contexts bin a scene each and give it to the
rasterizer their screen shares, under `rast_mutex`; the rasterizer's threads count up
the fence of the scene. Compute shaders go to the pool under `cs_mutex`. The job
queue serves the disk cache and glthread; its fences and its users' locks are the
queue fence and the simple mutex.

`PROJECT.json` lists the hazards of this code line by line and the property that
is about each of them.

## Modules

**`UtilQueue`** models the whole of `u_queue.c`. A section under `queue->lock` without
a `cnd_wait` is one action; what happens outside of the lock (executing a job,
signalling its fence, cleaning up, creating and joining threads) is an action of
its own. `util_queue_add_job` is `AddJob` (stored, resized or blocked) and `AddWoken`
after a wait; `util_queue_drop_job` is `DropBegin`, `DropSearch`, `DropSignal` and
`DropWait`; `util_queue_finish` adds one barrier job per worker under `finish_lock`;
`util_queue_adjust_num_threads` and `util_queue_kill_threads` lower `num_threads`,
broadcast and join, or create threads one by one. Condition variables may wake up
spuriously. A job is identified with its fence. `before` and `killed` are history.

**`QueueFence`** and **`SimpleMtx`** have one action per atomic operation and per
futex call of the Linux variants; what the kernel does for `futex_wait` is in **`Futex`**. They implement **`AbstractFence`** (which is what
`UtilQueue` takes a fence to be) and **`AbstractLock`** (which is what all the other
modules take a mutex to be).

**`LpRast`** models the thread function of `lp_rast.c`, the barrier (the one
`u_thread.h` brings along, in place of the `pthread_barrier_wait` that Linux builds use and
`UtilQueue` takes as given), the semaphores, the bin iterator, the scene queue as it is used,
`lp_setup_rasterize_scene` and the flush and fence functions of a context, with
creation failures and `num_threads = 0`, where the caller rasterizes. A context has
one scene in flight. It implements **`SceneService`**, the promise to the contexts.

**`LpSetup`** models the layer above it: how a context gathers commands in the bins of
a scene. The record `lp` is the `lp_setup_context` with its scene; each function of
`lp_setup.c`, `lp_setup_tri.c` and `lp_scene.h` that may fail for want of memory is an
operator from record to record that leaves its result in `ok`, and each call of the
driver's interface is one action. Memory is counted in allocations (`Room`), bins
consist of command blocks as in the code (`CmdBlockMax`), so that a command can fail
after it went into some bins; `set_scene_state`, `lp_setup_update_state` and
`lp_setup_flush_and_restart` then do what they do. Rasterizing executes the bins, so
that the contents of framebuffers and the counts of queries follow from the commands.
A pixel value is the sequence of commands that contributed to it; an opaque triangle
leaves only itself. `pic` and `expect` are the reference: what carrying out each call
at once, in order, would have given. **`Iteration`** is a loop `for (i = 1; i <= N; i++)` of
the code, parameterised by its body; `LpSetup` has an instance for each of its four loops
(`lp_scene_bin_everywhere`, `lp_setup_bin_triangle`, `do_rasterize_bin`,
`rasterize_scene`). Layers, shader buffers and images are left out, and with them
`fb_max_layer` in the test for a bin reset and their part of `lp_setup_is_resource_referenced`;
what `try_update_scene_state` allocates for viewports, blend color and constants is one
allocation; a triangle whose only bin is full is disabled although the code just fails
(lp_setup_tri.c:811), which makes no difference, as it is in no bin.

**`DiskCache`** models `cache_put`, `disk_cache_remove` and what `disk_cache_get` makes of
a file, with one action per system call or atomic operation, for threads (each process
has four for its cache, with descriptors of their own) whose process may die between any
two, and whose `open`, `flock`, `write`, `rename` and `stat` may fail for reasons of their
own; `unlink` is taken to succeed. Files are inodes with a length, names point to them, flocks belong
to them, and an inode without a name lives as long as it is open. This is where the
difficulties are: `rename` and `unlink` act on names, `write` and `flock` on files.

**`LpCsTpool`** models `lp_cs_tpool.c` and the part of `llvmpipe_launch_grid` that uses it.
An empty grid is not launched (`if (num_tasks)`), and the `int` product of the three sizes
of a grid is taken as exact.

**`OSMesa`** models contexts, the `BufferList`, validation, flush and make current.
Each call is a step: the list has no lock, so an application must not make two of
these calls at once, and a context is current in one thread at a time, as the API
asks. A context may be destroyed while it is current, with drawings that are not
flushed, and its state tracker's context goes on drawing and flushing; a flush that
looks into the freed `OSMesaContext` is recorded (`freed_use`) and may write any picture.
A picture stands for the content of the front color buffer. Pixel layout,
postprocessing, a `resource_create` that returns NULL and a framebuffer that cannot be
created are left out.

The `MC*` modules give the constants their values. Definitions that stand directly
before a mapped definition, with its name and a suffix (`NextSlotUnwrapped` before
`NextSlot`), are plausible wrong versions of it: each property is shown to fail
when one of them takes the definition's place.

## Runs

| Run | Configuration | Result |
| --- | --- | --- |
| `utilqueue_safety` | 2 clients, 2 workers, 2 jobs, ring of 1 that grows by 1, failing threads, shutdown; 920 000 states | all safety invariants of the queue hold |
| `utilqueue_live` | ring of 2 that does not grow, jobs without a size, no failing thread, no shutdown, fair threads | jobs leave the ring; finish, drop and joins return |
| `utilqueue_kill` | fixed ring of 2 | **violated**: the jobs of a full ring are not signalled at shutdown |
| `lprast_safety` | 2 contexts, 2 threads of which some may fail, 4 fences, framebuffers of two sizes; 1.5 million states | scenes stay put while threads use them, bins drawn once, fences counted and freed exactly, nothing left over between scenes |
| `lprast_live` | as above with 2 fences, fair threads | `LpRast` implements `SceneService` with its fairness; destruction returns |
| `simplemtx` | 4 threads | exclusion, wakeups, progress, implements `AbstractLock` |
| `queuefence` | 3 waiting threads, 2 workers | assertions, wakeups, progress, implements `AbstractFence` |
| `cstpool` | 2 contexts, up to 2 threads, 1 to 3 workgroups, failing threads and allocations | workgroups run once, tasks are not used after they are freed, launches and destruction return |
| `osmesa` | 2 threads, 2 contexts, 2 blocks of memory, 2 sizes, 1 picture; 309 000 states | textures stay alive, drawings are flushed, a context with a buffer of its own gets its pictures, a destroyed context is looked into only if something drawn was not flushed before |
| `osmesa_shared` | 1 thread, 2 contexts of the same formats and size, 2 pictures | **violated**: a flush delivers another context's texture or into another memory |
| `lpsetup` | 2 tiles, 2 framebuffers of which one has depth and stencil, 2 textures, 3 triangles (blended, opaque over one tile, opaque over both), 1 query, a scene of 7 allocations and 2 textures, 4 numbered calls; 234 000 states | pictures, mapped memory and query results are those of immediate execution; freed queries are in no bin |
| `diskcache` | 2 putting threads, 1 removing thread, 1 key, files of 2 writes, 3 inodes, up to 2 evictions per put, a size that wraps at 6; 2.9 million states | entries are complete, stale temporary files do no harm and none is left but by a crash or a failing `flock`, the size is exact when nobody is at work |

### Where code and comments disagree

Two runs show a violation:

* The loops `for (i = read_idx; i != write_idx; ...)` in `util_queue_thread_func` and
  `util_queue_drop_job` see a full ring as an empty one. The comments promise
  that remaining jobs are signalled (`utilqueue_kill`) and that a job that has not
  started is removed (line 606; it is awaited instead).
* Two OSMesa contexts with the same formats and size share one `osmesa_buffer`, whose
  `textures` and `map` belong to the context that was made current last. The flush
  that `_mesa_make_current` does for the previous context comes too late for it
  (`osmesa_shared`).

Others are in the models, and the properties say where they stop:

* `lp_fence_create` gets the number of threads the screen asked for, "the expected
  finished value of the fence counter", but if `u_thread_create` fails the rasterizer
  goes on with fewer threads and the counter stays below: `VisibleFencesSignalled`
  speaks of a rasterizer that has all its threads.
* `pq->fence` "should be the fence of the *last* scene which contributed to the query
  result" (lp_setup.c:1561), but it is taken before a full scene is flushed and the
  command repeated in the next one. `QueriesAlive` excludes these queries (`late`):
  they could be freed with their end still in a bin.
* A query whose begin meets a full scene, or whose end went into some bins of a full
  scene, has the command again in the next scene. `QueryExact` excludes them (`torn`).
* `cache_put` takes the flock of the file it opened, and then uses its name (line
  946 and on). If the file has been unlinked meanwhile, by a writer that failed or by
  one that found the entry in place, two processes write with a lock each, and one
  renames the half-written file of the other, in spite of "to prevent any readers from
  seeing a partially written file". `crossed` is set by the step that does this, and
  `EntriesComplete`, `SizeExact` and `StaleTmpHarmless` exclude it. The reader notices by
  the CRC, but the entry stays until it is evicted, since every later put finds it.
* Two removals of the same entry, a removal between another process's rename and stat,
  and a crash between the directory and the counter get the size off (`skewed`). A
  size below 0 wraps, and each later put evicts as much as it may. So does an entry
  that is there but cannot be opened (line 965, without a free descriptor): it is written
  and counted again.
* "If the flock fails, then another process still has the file open with the flock held"
  (disk_cache.c:941), but any other error, as on a file system without locks, takes the
  same exit, which does not unlink the file: `<key>.tmp` stays. `TmpCleaned` speaks of
  files that were not left so (`left`).
* After a draw, `OSMesaDestroyContext` of the current context and then `glFlush`,
  `OSMesaMakeCurrent` of another context or of NULL let `flush_front` read `osmesa->pp` of
  the freed context (osmesa.c:328). `FreedContextUnused` says that this takes a drawing
  that was not flushed at the destruction, or one after it (`risky`).

### Bounds

`InitMaxJobs`, `ResizeStep` (8 in the code) and two workers make the ring wrap, fill
up, grow and grow again; `SizeLimit` and `TotalCap` bound `total_jobs_size` on both
sides of the limit (a client adds only up to `TotalCap`). `Fences` is the memory for
fences, reused when freed: the two scenes, the two contexts' last fences and the
application's handle are five pointers, of which at most four differ in the model
(a context does not begin a scene while no fence is free). `SeqWrap` makes the
barrier's sequence wrap, at 2 instead of 2^64: a thread can be at most one sequence
behind, so two values distinguish what the code distinguishes. `MaxIters` is more than
the threads, so that a thread comes back for another iteration.
In `OSMesa` `MaxTextures` is the number of resources its screen may create: one per context
and size minus one. In `LpSetup`, `MaxOps` is the
number of calls that leave something in a scene or in memory; flushes, reads and
changes of the framebuffer are free. `Room` is the least that `RoomAssumption` allows, which says what is
true of the code's sizes: an empty scene has room for the pending clears and one more
command (otherwise the retry would fail too, where the code asserts). A scene of seven
allocations is used up by two or three calls, and four are enough for it to be used up
inside of a clear, a draw, a begin and an end (five calls, 2.6 million states, show
nothing else). In `DiskCache`, `MaxFiles`
is not a limit in effect: with four inodes the states are the same, for two threads
can keep only one nameless file each open. `Pieces` of two makes a half-written file,
`SizeWrap` lets the size go below 0, `MaxEvictions` (8 in the code) lets a second
eviction meet an empty directory. Three threads have been explored for ten million
states. Two threads that wait and one that acts cover the pairwise races;
the proofs below have no such bounds. `CHECK_DEADLOCK FALSE` stands where the system
may stop: after destruction, or when a bound of the model is reached; the mutex, the
fence and the disk cache are checked for deadlock. The type invariants (`TypeOK`) hold
in the same configurations and are proved for the modules that have proofs; the runs list
what is deeper.

### Fairness

Weak fairness of each thread's own steps: the operating system runs every
runnable thread, mutexes are released, jobs and shaders end. Nothing obliges an
application to make a call, a condition variable to wake up spuriously, a thread's
creation to fail, a timeout to come or a signal to interrupt a sleep. For the simple
mutex no fairness among the threads that compete for it is assumed, and only "somebody
gets in" is claimed.

## Proofs

TLAPS checks these for every value of the constants that satisfies the modules'
`ASSUME`s (positive numbers of threads and slots, jobs distinct from `NoJob` and from
numbers, sizes natural, names of nobody that are not names of somebody).

* `UtilQueueProofs`: `TypeCorrect`, `DoomedJoined`, `FinishPinned` and `RingCorrect`.
  None of these is inductive alone. `BaseInv` joins the types with `HoldInv` (who has a
  job in hand), `LockInv` (which client holds `finish_lock`, and that `num_threads` is
  what its barrier was set up for), `CreateInv` (threads are created where there are
  none) and `DoomedAreJoined`: the range of the joins bounds the doomed workers only
  because one client at a time holds `finish_lock`. `RingConsistent` is then inductive
  relative to `BaseInv` and the fact that a queue without threads has been killed.
  `NobodySleepsOnJobs` (no lost wakeup) needs `AwakeInv`: a worker above `num_threads`
  does not sleep any more, because the broadcast of `util_queue_kill_threads` woke it
  and it leaves at its next look, so that a signal never goes to one of those.
  `DestroyedUnused` needs `LifeInv`: the exit handler holds `exit_mutex` and finds the
  queue listed, there is one destroyer, and it takes the queue off the list only when
  its last worker has been joined.
* `UtilQueueProofs`, second part, the fences: `FencesOnce` and `FencesHeld`. `AloneInv` says pair by pair that
  slots, workers and clients share no job, `FreeInv` that nobody has the job of a
  signalled fence, `BarrierInv` which barrier fences may be unsignalled. A barrier job
  may be added again only because the previous finish has waited for all of them,
  and a stored job overwrites no other only because of `RingConsistent`.
  `FinishComplete` rests on `OrderInv`: a job that a finish waits for is ahead of the
  finish's barriers in the ring, or with a worker that is not at the barrier. The
  barrier opens only when as many workers as there are have come to it, at which point
  no worker is left to have such a job and, the barriers having been read from the ring,
  nothing ahead of them is in the ring either.
* `FutexProofs`, for what is built from a futex word. The fence: the assertion of the
  signal, the wakeups, and `FenceIsFence`, the refinement. The mutex: mutual
  exclusion, with the meaning of the word 0 as the strengthening; the lost wakeup invariant; `MutexIsLock`, the refinement.
* `DiskCacheProofs`: `CacheComplete`. That an entry is complete is not inductive: it is
  complete because the rename found a complete file under the name `<key>.tmp`, that is
  because the writer's file still has this name (`KeepsName`), has as much as the writer
  believes (`Written`), and is locked by nobody else (`HasLock`) and no entry
  (`TmpNotFinal`), so that nobody else writes to it or makes it an entry early. That the
  name is still there is what `crossed` excludes. `Inv` is
  the conjunction for all processes. There is one lemma per action; `OtherPut` carries
  the part of a process over the steps of the others, `UnlinkEntryInv` serves the three
  actions that unlink an entry and `ProcessGone` both the end of a put and a crash.

  `CacheTmpCleaned` uses `FilesInv`: a put that has the lock has the name `<key>.tmp` on
  its file until it renames or unlinks it, one name per file, and a name that was not
  left by a crash or a failing `flock` always has its owner. `CacheStaleHarmless` uses `AloneInv`: a put that nobody else
  crosses and whose calls succeed is the only one at work, and has its entry in place from
  the rename on. That the entry is complete is `CacheComplete`.

  `CacheSizeExact` is the accounting. While processes are at work the size is not that of
  the entries: `Balanced` says that it is, modulo the wrap, the pieces of the entries
  less those of the puts that have renamed and not yet added or taken back, plus those of the
  evictions and removals that have unlinked and not yet subtracted. Each step moves a
  file from one of these sets to another; `SizeInv` adds that what a put is going to add
  and an eviction to subtract is the length of a complete file. It assumes that there are
  finitely many processes and keys.
* `LpCsTpoolProofs`: `PoolRunsOnce`, `PoolTasksAlive` and `PoolGridComplete`, from one
  inductive invariant that says which iterations of a task have been given out, which are
  run and which are counted, and that a task is in the queue exactly while iterations
  are left. A task is alive for a worker because the worker's iteration is not
  counted yet, and its client frees it only when all are.
* `OSMesaProofs`: `FrontendTexturesAlive`, `FrontendDrawnIsFlushed`,
  `FrontendFreedUnused`, and the action property `FrontendDelivers`. The list of
  buffers holds textures without a reference of its own. The invariant names, for each
  texture so held, the framebuffer that keeps it. `DefinedPending` says that a
  framebuffer the state tracker would copy has a drawing pending, so that a context
  destroyed with none has nothing to copy, and `FreedFlushed` that this stays so while the
  freed context is current and draws no more: a flush of it stops before it follows the
  pointer.
* `LpRastProofs`, in three layers. The first, `RastControl`, is the threads and their
  barrier: whoever holds `rast_mutex`, and where that holder is, tells where each
  thread is (idle, gathering at the first barrier, drawing, ending, or exiting; or there
  are no threads and the holder draws). `RastQuiet` and `RastSceneStable` follow. The
  second is the bins: every bin the iterator has passed has been given to one
  thread, every other to none (`RastBinOnce`). The third is the fences: reference
  counts are the numbers of pointers (`RefsExact`, which assumes finitely many contexts,
  as each is a thread of the process), a scene has the fence its commands were binned
  with, and a fence that has been left behind is signalled (`RastFences`,
  `RastFencesSignalled`). `RastIsService` maps the steps to those of `SceneService`:
  `BeginScene` submits, `LockRast` starts, `TaskDraw` draws and `FinishReturns`, or
  `InlineEnd` without threads, finishes; all other steps stutter. That finishing
  finds all bins drawn is the second layer.

* `Iteration`: `Unfold`, that a loop of `N + 1` rounds is one of `N` rounds and one more.
  The recursive function that defines the loop is shown to exist and to be unique by
  induction, and the induction (`Induction`) is about a set of numbers, not about a
  formula, which is what the provers can instantiate: it comes from the least member of
  the set of counterexamples. The theorem of an instance is about the body of that
  instance (`Everywhere!Unfold`), and what holds after each round of a loop of `LpSetup`
  follows by `Induction` again.
* `LpSetupProofs`: `PictureIsExact`, `ReadersSeeAll` and `QueriesStayAlive`, for any number
  of tiles and any memory of a scene that `RoomAssumption` allows. The picture is not a
  field of the context but what executing the bins would give: `Run(s, t)` is the tile
  after all commands of its bin, `Shown` adds the clears that are pending. The invariant
  says that `Shown` is the application's picture for the bound framebuffer, and memory is
  for the others (`Pictured`), with what keeps this true: `Good` (what the bins
  use is referenced by the scene; the state that setup believes a bin to be in is the one
  its execution ends in; nothing in the scene is of a later call; only an `ACTIVE`
  scene has something in its bins), `Plain` (a framebuffer without depth and stencil has
  nothing there, which is why an opaque triangle may throw a bin away) and `Lived` (which
  queries the bins may have commands of, by phase and fence). Every function of setup has
  a lemma that says what it does to `Shown`: it keeps it (`Keeps`: a flush, a change of
  state, the commands of queries), or does to it what the call asks for. The loops are
  where it is hard. `Spread` is the invariant of `lp_scene_bin_everywhere`: the
  command is in the first bins and not in the others; a clear that did not fit has been
  painted in some tiles, and is painted in all when it is repeated. `Binned` is the one of
  `lp_setup_bin_triangle`: with the triangle disabled (`Without`) each tile is what it was
  without it, but for tiles whose bin was thrown away since the triangle hides all of it,
  and these are the same again once it is repeated. An empty scene has room for one
  command (`Fresh`), so that the repetition does not fail.

Only model-checked: all liveness, including the fair part of `SceneService` (the prover
has no fairness), and `QueryExact` of `LpSetup`. The latter is about sums: what a query
has counted is added up over the tiles, over the draws of a bin and over the scenes, and
each lemma about the bins would have to say, next to what is painted, by how much the
count of each tile grows; the three properties proved say nothing about counts.

## Not modelled

The repository holds all of Mesa: some 2.4 million lines, of which the modules here
stand for fewer than five thousand. Most of the rest is not part of the library this crate
builds (the hardware drivers, Vulkan, the other window systems and frontends), or
generated, or headers of APIs. Of what is built, the GLSL compiler, NIR and gallivm are
compilers: functions on large data structures, without state that outlives a call.
The GL core, the draw module and softpipe are sequential and consist of arithmetic
and of tables. What is left, and is state shared between threads, processes or
deferred commands, is modelled, with these exceptions: the slab allocator, glthread,
the scene queue with several producers (which `rast_mutex` excludes), shader variants
and their eviction, and in the modelled components what `PROJECT.json` names with each.

## Plan

Done: the modules above, in the order `UtilQueue`, `QueueFence` and `SimpleMtx`,
`LpRast` with `SceneService`, `LpCsTpool`, `OSMesa`, `LpSetup`, `DiskCache`.

Next, in this order:

1. Shader variants of `lp_state_fs.c`: the list of variants, its limit, and their
   references from scenes.
2. `Slab` (`util/slab.c`): elements freed by another child pool than their own.
3. `Glthread` (`mesa/main/glthread.c`), a user of the job queue and of its fences.
4. `OSMesa`: `OSMesaPixelStore` and the layout of rows, and postprocessing.
5. Proofs: `QueryExact`, the only safety property without a theorem. The lemmas of
   `LpSetupProofs` about `Run` would be stated for its count as well as for its tile.
