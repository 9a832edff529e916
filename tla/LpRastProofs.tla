---------------------------- MODULE LpRastProofs ----------------------------
(***************************************************************************)
(* Proofs about the rasterizer, for any number of contexts, threads, fences *)
(* and tiles.  There are three layers, each resting on the one before: the  *)
(* threads and the barrier, the bins of the scene, the fences.              *)
(***************************************************************************)
EXTENDS LpRast, FiniteSetTheorems, TLAPS

-----------------------------------------------------------------------------
(***************************************************************************)
(* First layer: where the threads can be while a context has its scene      *)
(* rasterized                                                               *)
(***************************************************************************)

ControlTypes ==
  /\ num_threads \in 0 .. ScreenThreads /\ exit_flag \in BOOLEAN
  /\ curr_scene \in Contexts \cup {NoContext}
  /\ work_ready \in [Tasks -> Nat] /\ work_done \in [Tasks -> Nat]
  /\ waiters \in Nat /\ sequence \in 0 .. SeqWrap - 1
  /\ tpc \in [Tasks -> TaskPCs] /\ tscene \in [Tasks -> Contexts \cup {NoContext}]
  /\ tseq \in [Tasks -> 0 .. SeqWrap - 1]
  /\ rast_mutex \in Contexts \cup {NoContext}
  /\ cpc \in [Contexts -> ContextPCs] /\ next \in [Contexts -> 0 .. ScreenThreads]
  /\ screen \in {"open", "join", "freed"}

\* The threads that could be created.
Live == {t \in Tasks : t < num_threads}

\* The threads at pc.
At(pc) == {t \in Tasks : tpc[t] = pc}

Zero(t) == work_ready[t] = 0 /\ work_done[t] = 0

\* Thread t waits for work.
Resting(t) == tpc[t] = "ready" /\ Zero(t)

\* ... has got work, and the first barrier has not opened.
Before(t) ==
  /\ work_done[t] = 0
  /\ \/ tpc[t] = "ready" /\ work_ready[t] = 1
     \/ tpc[t] = "begin" /\ work_ready[t] = 0 /\ t = 0
     \/ tpc[t] = "enter1" /\ work_ready[t] = 0
     \/ tpc[t] = "wait1" /\ work_ready[t] = 0 /\ tseq[t] = sequence

\* ... is between the two barriers.
Inside(t) ==
  /\ Zero(t)
  /\ \/ tpc[t] = "wait1" /\ tseq[t] # sequence
     \/ tpc[t] \in {"scene", "enter2"}
     \/ tpc[t] \in {"bins", "draw", "fence"} /\ tscene[t] = curr_scene
     \/ tpc[t] = "wait2" /\ tseq[t] = sequence

\* ... has passed the second barrier and has not been waited for.
After(t) ==
  /\ work_ready[t] = 0
  /\ \/ tpc[t] = "wait2" /\ tseq[t] # sequence /\ work_done[t] = 0
     \/ tpc[t] = "end" /\ work_done[t] = 0 /\ t = 0
     \/ tpc[t] = "done" /\ work_done[t] = 0
     \/ tpc[t] = "ready" /\ work_done[t] = 1

\* Nothing is under way.
Idle ==
  /\ full_scenes = <<>> /\ curr_scene = NoContext /\ waiters = 0
  /\ \A t \in Live : Resting(t)
  /\ \A t \in Tasks \ Live : tpc[t] = "none" /\ Zero(t)

\* The first n threads have been woken for the scene of c, which thread 0 takes
\* from the queue before it goes to the first barrier.
Gathering(c, n) ==
  /\ IF tpc[0] \in {"ready", "begin"} THEN full_scenes = <<c>> /\ curr_scene = NoContext
     ELSE full_scenes = <<>> /\ curr_scene = c
  /\ waiters = Cardinality(At("wait1"))
  /\ \A t \in Live : IF t < n THEN Before(t) ELSE Resting(t)
  /\ \A t \in Tasks \ Live : tpc[t] = "none" /\ Zero(t)

\* The threads draw the scene of c.
Drawing(c) ==
  /\ full_scenes = <<>> /\ curr_scene = c
  /\ waiters = Cardinality(At("wait2"))
  /\ \A t \in Live : Inside(t)
  /\ \A t \in Tasks \ Live : tpc[t] = "none" /\ Zero(t)

\* The scene of c has been drawn, c has waited for the first n threads.
Ending(c, n) ==
  /\ full_scenes = <<>> /\ waiters = 0
  /\ curr_scene = IF tpc[0] \in {"wait2", "end"} THEN c ELSE NoContext
  /\ \A t \in Live : IF t < n THEN Resting(t) ELSE After(t)
  /\ \A t \in Tasks \ Live : tpc[t] = "none" /\ Zero(t)

\* Without threads c draws the scene itself, as task 0.
Inline(c) ==
  /\ full_scenes = <<>> /\ curr_scene = c /\ waiters = 0
  /\ \/ tpc[0] \in {"none", "scene"}
     \/ tpc[0] \in {"bins", "draw", "fence"} /\ tscene[0] = c
  /\ \A t \in Tasks : Zero(t)
  /\ \A t \in Tasks \ {0} : tpc[t] = "none"

\* The threads have been told to end.
Exiting ==
  /\ full_scenes = <<>> /\ curr_scene = NoContext /\ waiters = 0
  /\ \A c \in Contexts : cpc[c] = "gone"
  /\ \A t \in Live : /\ work_done[t] = 0
                     /\ \/ tpc[t] = "ready" /\ work_ready[t] = 1
                        \/ tpc[t] = "exited" /\ work_ready[t] = 0
  /\ \A t \in Tasks \ Live : tpc[t] = "none" /\ Zero(t)

\* A context in its critical section is the holder of rast_mutex.
MutexInv ==
  /\ \A c \in Contexts :
       cpc[c] \in {"queue", "signal", "inline", "finish"} <=> rast_mutex = c
  /\ exit_flag <=> screen # "open"

\* Where the holder is tells where the threads are.
HolderInv(c) ==
  /\ cpc[c] = "queue" => Idle
  /\ cpc[c] = "inline" => num_threads = 0 /\ Inline(c)
  /\ cpc[c] = "signal" => next[c] < num_threads /\ Gathering(c, next[c])
  /\ cpc[c] = "finish" =>
       /\ num_threads > 0 /\ next[c] <= num_threads
       /\ \/ next[c] = 0 /\ Gathering(c, num_threads)
          \/ next[c] = 0 /\ Drawing(c)
          \/ Ending(c, next[c])

RastInv ==
  /\ exit_flag => Exiting
  /\ (rast_mutex = NoContext /\ ~exit_flag) => Idle
  /\ \A c \in Contexts : rast_mutex = c => ~exit_flag /\ HolderInv(c)

Control == ControlTypes /\ MutexInv /\ RastInv

-----------------------------------------------------------------------------
(***************************************************************************)
(* Second layer: the bins                                                   *)
(***************************************************************************)

\* Bin b comes no later than p, in the order of lp_scene_bin_iter_next.
Upto(b, p) == b[2] < p[2] \/ (b[2] = p[2] /\ b[1] <= p[1])

\* The tasks that have left rasterize_scene for the current scene.
Passed ==
  IF num_threads = 0 THEN {t \in {0} : tpc[t] = "none"}
  ELSE {t \in Live : \/ tpc[t] \in {"enter2", "wait2", "end", "done"}
                     \/ tpc[t] = "ready" /\ work_done[t] = 1}

SceneTypes ==
  /\ tbin \in [Tasks -> AllTiles \cup {NoTile}]
  /\ tiles \in [Contexts -> FbTiles \cup {<<0, 0>>}]
  /\ bins \in [Contexts -> SUBSET AllTiles] /\ curr \in [Contexts -> Int \X Int]
  /\ binned \in [Contexts -> SUBSET AllTiles] /\ drawn \in [Contexts -> SUBSET AllTiles]
  /\ \A c \in Contexts : binned[c] \subseteq TilesOf(tiles[c])

\* Has the scene of c not been begun?
Waiting(c) == cpc[c] \in {"binning", "lock", "queue"} \/ full_scenes = <<c>>

\* Has c the mutex, and its scene been ended?
Ended(c) ==
  rast_mutex = c /\ cpc[c] # "queue" /\ full_scenes # <<c>> /\ curr_scene # c

\* Where lp_scene_bin_iter_next can be.
Position(c) ==
  \/ curr[c] = NoTile
  \/ /\ curr[c][1] >= 0 /\ curr[c][2] >= 0
     /\ tiles[c][1] > 0 => curr[c][1] < tiles[c][1]

\* The iterator of the current scene: what lies behind it has been drawn or is being
\* drawn, by one task; what lies before it has not.
Iterator(c) ==
  /\ Position(c)
  /\ \A b \in drawn[c] : b \in binned[c] /\ Upto(b, curr[c])
  /\ \A t \in At("draw") :
       /\ tbin[t] \in binned[c] \ drawn[c] /\ Upto(tbin[t], curr[c])
       /\ \A u \in At("draw") \ {t} : tbin[u] # tbin[t]
  /\ \A b \in binned[c] :
       Upto(b, curr[c]) => b \in drawn[c] \/ \E t \in At("draw") : tbin[t] = b
  /\ \A t \in Passed \cup At("fence") : curr[c][2] >= tiles[c][2]

SceneInv(c) ==
  /\ Waiting(c) => bins[c] = binned[c] /\ drawn[c] = {}
  /\ curr_scene = c => bins[c] = binned[c] /\ Iterator(c)
  /\ Ended(c) => drawn[c] = binned[c]

Scenes == SceneTypes /\ \A c \in Contexts : SceneInv(c)

-----------------------------------------------------------------------------
(***************************************************************************)
(* Third layer: the fences                                                  *)
(***************************************************************************)

FenceTypes ==
  /\ scene_fence \in [Contexts -> Fences \cup {NoFence}]
  /\ last_fence \in [Contexts -> Fences \cup {NoFence}]
  /\ handle \in Fences \cup {NoFence}
  /\ refs \in [Fences -> Int] /\ rank \in [Fences -> Nat] /\ count \in [Fences -> Nat]
  /\ issued \in SUBSET Fences

Holders(g, f) == {c \in Contexts : g[c] = f}

RefsExact ==
  \A f \in Fences :
    refs[f] = Cardinality(Holders(scene_fence, f)) + Cardinality(Holders(last_fence, f))
              + (IF handle = f THEN 1 ELSE 0)

\* Is the scene of c begun and not ended?
InHand(c) == Waiting(c) \/ curr_scene = c

\* The signals the fence of the scene of c has had.
Signals(c) == IF curr_scene = c THEN Cardinality(Passed) ELSE 0

\* A scene has a fence of its own, which only its context may know, from the time
\* it is begun until it is ended.
SceneFence(c) ==
  /\ scene_fence[c] # NoFence <=> InHand(c)
  /\ scene_fence[c] # NoFence =>
       /\ handle # scene_fence[c]
       /\ rank[scene_fence[c]] = SceneRank(c)
       /\ count[scene_fence[c]] = Signals(c)
       /\ \A d \in Contexts \ {c} : /\ scene_fence[d] # scene_fence[c]
                                    /\ last_fence[d] # scene_fence[c]
       /\ cpc[c] = "binning" => last_fence[c] # scene_fence[c]
       /\ cpc[c] # "binning" => /\ last_fence[c] = scene_fence[c]
                                /\ scene_fence[c] \in issued

Past(f) ==
  /\ rank[f] > 0 => f \in issued
  /\ num_threads = ScreenThreads => Signalled(f)

\* The fences that have no scene any more.
PastFence(c) == last_fence[c] \notin {NoFence, scene_fence[c]} => Past(last_fence[c])
PastHandle == handle # NoFence => Past(handle)
NoneTooOften == \A f \in Fences : count[f] <= rank[f]

FencesInv ==
  /\ FenceTypes /\ RefsExact /\ PastHandle /\ NoneTooOften
  /\ \A c \in Contexts : SceneFence(c) /\ PastFence(c)

-----------------------------------------------------------------------------
(***************************************************************************)
(* Lemmas about threads and the barrier                                     *)
(***************************************************************************)

\* There is a task 0, and there are finitely many tasks.
LEMMA TasksFacts ==
  /\ 0 \in Tasks /\ Tasks \subseteq Nat /\ IsFiniteSet(Tasks)
  /\ ScreenThreads > 0 => Tasks = 0 .. ScreenThreads - 1
  /\ ScreenThreads = 0 => Tasks = {0}
BY ThreadsAssumption, FS_Interval DEF Tasks

\* The threads that could be created are the first ones.
LEMMA LiveFacts ==
  ASSUME ControlTypes
  PROVE  /\ Live = 0 .. num_threads - 1 /\ Live \subseteq Tasks
         /\ IsFiniteSet(Live) /\ Cardinality(Live) = num_threads
         /\ num_threads > 0 => 0 \in Live
<1>1. num_threads \in 0 .. ScreenThreads /\ ScreenThreads \in Nat
  BY ThreadsAssumption DEF ControlTypes
<1>2. Live = 0 .. num_threads - 1
  BY <1>1, TasksFacts DEF Live
<1>3. IsFiniteSet(Live) /\ Cardinality(Live) = num_threads
  BY <1>1, <1>2, FS_Interval
<1> QED
  BY <1>1, <1>2, <1>3 DEF Live

\* The barrier opens for thread t when all other threads wait in it.
LEMMA BarrierOpens ==
  ASSUME ControlTypes, NEW t \in Live, NEW W, W \subseteq Live \ {t},
         waiters = Cardinality(W)
  PROVE  /\ LastToArrive <=> W = Live \ {t}
         /\ Cardinality(W \cup {t}) = waiters + 1
<1>1. IsFiniteSet(Live) /\ Cardinality(Live) = num_threads /\ num_threads \in Nat
  BY LiveFacts DEF ControlTypes
<1>2. IsFiniteSet(Live \ {t}) /\ Cardinality(Live \ {t}) = num_threads - 1
  BY <1>1, FS_RemoveElement
<1>3. /\ IsFiniteSet(W) /\ Cardinality(W) <= num_threads - 1
      /\ Cardinality(W) = num_threads - 1 => W = Live \ {t}
  BY <1>2, FS_Subset
<1>4. Cardinality(W) \in Nat
  BY <1>3, FS_CardinalityType
<1>5. Cardinality(W \cup {t}) = waiters + 1
  BY <1>3, FS_AddElement
<1> QED
  BY <1>1, <1>2, <1>3, <1>4, <1>5 DEF LastToArrive

\* The sequence number of the barrier moves.
LEMMA SequenceMoves ==
  ASSUME ControlTypes
  PROVE  (sequence + 1) % SeqWrap \in 0 .. SeqWrap - 1 /\ (sequence + 1) % SeqWrap # sequence
BY WrapAssumption DEF ControlTypes

\* A thread at work, or about to be, works for the holder of rast_mutex.
LEMMA BusyForHolder ==
  ASSUME Control, NEW t \in Tasks,
         \/ tpc[t] \notin {"none", "ready", "exited"}
         \/ ~exit_flag /\ (work_ready[t] # 0 \/ work_done[t] # 0)
  PROVE  /\ rast_mutex \in Contexts /\ ~exit_flag
         /\ cpc[rast_mutex] \in {"inline", "signal", "finish"}
         /\ HolderInv(rast_mutex)
<1>1. ~exit_flag
  <2> SUFFICES ASSUME exit_flag PROVE FALSE
    OBVIOUS
  <2>1. tpc[t] \in {"none", "ready", "exited"}
    BY DEF Control, RastInv, Exiting, Live
  <2> QED
    BY <2>1
<1>2. ~Idle
  BY <1>1 DEF Idle, Resting, Zero, Live
<1>3. rast_mutex \in Contexts /\ HolderInv(rast_mutex)
  BY <1>1, <1>2 DEF Control, RastInv, ControlTypes
<1> QED
  BY <1>1, <1>2, <1>3 DEF Control, MutexInv, HolderInv

\* What a thread does while a context has the mutex is right if it takes the threads
\* to a state the holder allows.
LEMMA ThreadStepFrame ==
  ASSUME Control, rast_mutex \in Contexts,
         UNCHANGED <<ctx, num_threads, exit_flag, screen>>,
         ControlTypes', HolderInv(rast_mutex)'
  PROVE  Control'
BY NamesAssumption DEF Control, ControlTypes, MutexInv, RastInv, ctx

\* A task in rasterize_scene is one of the threads, between the barriers, or is task 0
\* of a rasterizer without threads.
LEMMA DrawerWhere ==
  ASSUME Control, NEW t \in Tasks, tpc[t] \in {"scene", "bins", "draw", "fence"}
  PROVE  \E c \in Contexts :
           /\ rast_mutex = c /\ curr_scene = c /\ ~exit_flag
           /\ tpc[t] \in {"bins", "draw", "fence"} => tscene[t] = c
           /\ \/ t = 0 /\ cpc[c] = "inline" /\ num_threads = 0 /\ Inline(c)
              \/ /\ t \in Live /\ cpc[c] = "finish" /\ num_threads > 0 /\ next[c] = 0
                 /\ Drawing(c)
<1> DEFINE c == rast_mutex
<1>1. /\ c \in Contexts /\ ~exit_flag /\ cpc[c] \in {"inline", "signal", "finish"}
      /\ HolderInv(c)
  BY BusyForHolder
<1>2. \A n : ~Gathering(c, n)
  BY DEF Gathering, Before, Resting, Live
<1>3. \A n : ~Ending(c, n)
  BY DEF Ending, After, Resting, Live
<1>4. CASE cpc[c] = "inline"
  BY <1>1, <1>4 DEF HolderInv, Inline
<1>5. CASE cpc[c] # "inline"
  <2>1. cpc[c] = "finish" /\ num_threads > 0 /\ next[c] = 0 /\ Drawing(c)
    BY <1>1, <1>2, <1>3, <1>5 DEF HolderInv
  <2>2. t \in Live /\ Inside(t)
    BY <2>1 DEF Drawing
  <2> QED
    BY <1>1, <2>1, <2>2 DEF Drawing, Inside
<1> QED
  BY <1>4, <1>5

\* A step of one thread between the barriers.
LEMMA DrawingKept ==
  ASSUME Control, NEW c \in Contexts, rast_mutex = c, cpc[c] = "finish", next[c] = 0,
         num_threads > 0, Drawing(c),
         NEW t \in Live, NEW p, p # "wait2", tpc[t] # "wait2",
         tpc' = [tpc EXCEPT ![t] = p], Inside(t)',
         \A u \in Tasks \ {t} : tscene'[u] = tscene[u],
         UNCHANGED <<work_ready, work_done, waiters, sequence, tseq, full_scenes,
                     curr_scene, ctx, num_threads>>
  PROVE  HolderInv(c)'
<1>1. Live' = Live /\ t \in Tasks
  BY DEF Live
<1>2. \A u \in Tasks \ {t} : tpc'[u] = tpc[u]
  BY DEF Control, ControlTypes
<1>3. tpc'[t] = p
  BY <1>1 DEF Control, ControlTypes
<1>4. At("wait2")' = At("wait2")
  BY <1>1, <1>2, <1>3 DEF At
<1>5. \A u \in Live \ {t} : Inside(u)'
  BY <1>1, <1>2 DEF Drawing, Inside, Zero, Live
<1>6. \A u \in Tasks \ Live : tpc'[u] = "none" /\ Zero(u)'
  BY <1>1, <1>2 DEF Drawing, Zero, Live
<1>7. Drawing(c)'
  BY <1>1, <1>4, <1>5, <1>6 DEF Drawing
<1>8. num_threads \in Nat /\ UNCHANGED <<rast_mutex, cpc, next>>
  BY ThreadsAssumption DEF Control, ControlTypes, ctx
<1> QED
  BY <1>7, <1>8 DEF HolderInv

\* A step of task 0 that draws for its context.
LEMMA InlineKept ==
  ASSUME Control, NEW c \in Contexts, rast_mutex = c, cpc[c] = "inline", num_threads = 0,
         Inline(c), NEW p, tpc' = [tpc EXCEPT ![0] = p],
         p \in {"none", "scene"} \/ (p \in {"bins", "draw", "fence"} /\ tscene'[0] = c),
         UNCHANGED <<work_ready, work_done, waiters, full_scenes, curr_scene, ctx,
                     num_threads>>
  PROVE  HolderInv(c)'
<1>1. 0 \in Tasks /\ tpc'[0] = p /\ \A u \in Tasks \ {0} : tpc'[u] = tpc[u]
  BY TasksFacts DEF Control, ControlTypes
<1>2. Inline(c)'
  BY <1>1 DEF Inline, Zero
<1> QED
  BY <1>2 DEF HolderInv, ctx

\* rasterize_scene keeps the invariant of the threads.
LEMMA RasterizeKept ==
  ASSUME Control, NEW t \in Tasks,
         TaskScene(t) \/ TaskNextBin(t) \/ TaskDraw(t) \/ TaskFence(t)
  PROVE  Control'
<1>1. tpc[t] \in {"scene", "bins", "draw", "fence"}
  BY DEF TaskScene, TaskNextBin, TaskDraw, TaskFence
<1>2. PICK c \in Contexts :
        /\ rast_mutex = c /\ curr_scene = c /\ ~exit_flag
        /\ tpc[t] \in {"bins", "draw", "fence"} => tscene[t] = c
        /\ \/ t = 0 /\ cpc[c] = "inline" /\ num_threads = 0 /\ Inline(c)
           \/ /\ t \in Live /\ cpc[c] = "finish" /\ num_threads > 0 /\ next[c] = 0
              /\ Drawing(c)
  BY <1>1, DrawerWhere
<1>3. /\ UNCHANGED <<work_ready, work_done, waiters, sequence, tseq, num_threads, exit_flag,
                     full_scenes, curr_scene, ctx, screen>>
      /\ UNCHANGED <<rast_mutex, cpc, next>>
  BY DEF TaskScene, TaskNextBin, TaskDraw, TaskFence, rast, ctx
<1>4. PICK p \in {"bins", "draw", "fence", "none", "enter2"} :
        /\ tpc' = [tpc EXCEPT ![t] = p]
        /\ p = "none" => num_threads = 0
        /\ p = "enter2" => num_threads > 0
        /\ p \in {"bins", "draw", "fence"} => tscene'[t] = c
  <2>1. CASE TaskScene(t)
    BY <1>2, <2>1 DEF TaskScene, Control, ControlTypes
  <2>2. CASE TaskNextBin(t)
    <3>1. tpc' \in {[tpc EXCEPT ![t] = "bins"], [tpc EXCEPT ![t] = "draw"],
                    [tpc EXCEPT ![t] = "fence"]}
      BY <2>2 DEF TaskNextBin, Control, ControlTypes
    <3> QED
      BY <1>2, <2>2, <3>1 DEF TaskNextBin
  <2>3. CASE TaskDraw(t)
    BY <1>2, <2>3 DEF TaskDraw
  <2>4. CASE TaskFence(t)
    <3>1. num_threads = 0 \/ num_threads > 0
      BY ThreadsAssumption DEF Control, ControlTypes
    <3>2. tpc' = [tpc EXCEPT ![t] = IF num_threads = 0 THEN "none" ELSE "enter2"]
      BY <2>4 DEF TaskFence
    <3>3. CASE num_threads = 0
      BY <3>2, <3>3
    <3>4. CASE num_threads > 0
      BY <3>2, <3>4
    <3> QED
      BY <3>1, <3>3, <3>4
  <2> QED
    BY <2>1, <2>2, <2>3, <2>4
<1>5. /\ \A u \in Tasks \ {t} : tscene'[u] = tscene[u]
      /\ tscene' \in [Tasks -> Contexts \cup {NoContext}]
  BY DEF TaskScene, TaskNextBin, TaskDraw, TaskFence, Control, ControlTypes
<1>6. ControlTypes'
  BY <1>3, <1>4, <1>5 DEF Control, ControlTypes, TaskPCs
<1>7. HolderInv(c)'
  <2>1. CASE t = 0 /\ cpc[c] = "inline" /\ num_threads = 0 /\ Inline(c)
    <3>1. /\ tpc' = [tpc EXCEPT ![0] = p] /\ rast_mutex = c
          /\ p \in {"none", "scene"} \/ (p \in {"bins", "draw", "fence"} /\ tscene'[0] = c)
      BY <1>2, <1>4, <2>1
    <3> QED
      BY <1>3, <2>1, <3>1, InlineKept
  <2>2. CASE /\ t \in Live /\ cpc[c] = "finish" /\ num_threads > 0 /\ next[c] = 0
             /\ Drawing(c)
    <3>1. Zero(t)
      BY <2>2 DEF Drawing, Inside
    <3>2. tpc'[t] = p /\ p # "none"
      BY <1>4, <2>2 DEF Control, ControlTypes, Live
    <3>3. Inside(t)'
      BY <1>2, <1>3, <1>4, <3>1, <3>2 DEF Inside, Zero
    <3> QED
      BY <1>1, <1>2, <1>3, <1>4, <1>5, <2>2, <3>2, <3>3, DrawingKept
  <2> QED
    BY <1>2, <2>1, <2>2
<1> QED
  BY <1>2, <1>3, <1>6, <1>7, ThreadStepFrame

\* How far c has come with waking the threads: the first n of them are woken.
Woken(c, n) ==
  /\ rast_mutex = c /\ num_threads > 0 /\ n \in 0 .. num_threads
  /\ \/ cpc[c] = "signal" /\ n = next[c] /\ n < num_threads
     \/ cpc[c] = "finish" /\ n = num_threads /\ next[c] = 0

\* A thread on its way to the first barrier has been woken for the scene of a context.
LEMMA GathererWhere ==
  ASSUME Control, NEW t \in Tasks,
         tpc[t] \in {"begin", "enter1"} \/ (~exit_flag /\ work_ready[t] # 0)
  PROVE  \E c \in Contexts, n \in Nat :
           /\ Woken(c, n) /\ Gathering(c, n) /\ ~exit_flag
           /\ t \in Live /\ t < n /\ Before(t)
<1> DEFINE c == rast_mutex
<1>1. /\ c \in Contexts /\ ~exit_flag /\ cpc[c] \in {"inline", "signal", "finish"}
      /\ HolderInv(c)
  BY BusyForHolder
<1>2. /\ num_threads \in Nat /\ next[c] \in Nat /\ t \in Nat /\ work_ready[t] \in Nat
  BY <1>1, ThreadsAssumption, TasksFacts DEF Control, ControlTypes
<1>3. ~Inline(c) /\ ~Drawing(c) /\ \A n : ~Ending(c, n)
  BY TasksFacts DEF Inline, Drawing, Inside, Ending, After, Resting, Zero, Live
<1>4. \E n \in Nat : Woken(c, n) /\ Gathering(c, n)
  <2>1. CASE cpc[c] = "signal"
    BY <1>1, <1>2, <2>1 DEF HolderInv, Woken
  <2>2. CASE cpc[c] = "finish"
    BY <1>1, <1>2, <1>3, <2>2 DEF HolderInv, Woken
  <2> QED
    BY <1>1, <1>3, <2>1, <2>2 DEF HolderInv
<1>5. PICK n \in Nat : Woken(c, n) /\ Gathering(c, n)
  BY <1>4
<1>6. t \in Live /\ t < n /\ Before(t)
  BY <1>2, <1>5 DEF Gathering, Resting, Zero, Live
<1> QED
  BY <1>1, <1>5, <1>6

\* A step of one thread before the first barrier.
LEMMA GatheringKept ==
  ASSUME Control, NEW c \in Contexts, NEW n \in Nat, Woken(c, n), Gathering(c, n),
         NEW t \in Live, t < n, NEW p, tpc' = [tpc EXCEPT ![t] = p], Before(t)',
         \A u \in Tasks \ {t} : /\ work_ready'[u] = work_ready[u]
                                /\ work_done'[u] = work_done[u] /\ tseq'[u] = tseq[u],
         UNCHANGED <<sequence, num_threads, ctx>>,
         waiters' = Cardinality(At("wait1")'),
         IF tpc'[0] \in {"ready", "begin"} THEN full_scenes' = <<c>> /\ curr_scene' = NoContext
         ELSE full_scenes' = <<>> /\ curr_scene' = c
  PROVE  HolderInv(c)'
<1>1. Live' = Live /\ Live \subseteq Tasks
  BY DEF Live
<1>2. \A u \in Tasks \ {t} : tpc'[u] = tpc[u]
  BY DEF Control, ControlTypes
<1>3. \A u \in Live \ {t} : IF u < n THEN Before(u)' ELSE Resting(u)'
  BY <1>1, <1>2 DEF Gathering, Before, Resting, Zero
<1>4. \A u \in Tasks \ Live : tpc'[u] = "none" /\ Zero(u)'
  BY <1>2 DEF Gathering, Zero
<1>5. Gathering(c, n)'
  BY <1>1, <1>3, <1>4 DEF Gathering
<1>6. UNCHANGED <<rast_mutex, cpc, next, num_threads>>
  BY DEF ctx
<1> QED
  BY <1>5, <1>6 DEF HolderInv, Woken

\* A thread is woken, for a scene or for the end.
LEMMA ThreadWorkKept ==
  ASSUME Control, NEW t \in Tasks, ThreadWork(t)
  PROVE  Control'
<1>1. /\ tpc[t] = "ready" /\ work_ready[t] > 0
      /\ work_ready' = [work_ready EXCEPT ![t] = @ - 1]
      /\ tpc' = [tpc EXCEPT ![t] = IF exit_flag THEN "exited"
                                   ELSE IF t = 0 THEN "begin" ELSE "enter1"]
      /\ UNCHANGED <<work_done, waiters, sequence, tscene, tseq, num_threads, exit_flag,
                     full_scenes, curr_scene, ctx, screen>>
      /\ UNCHANGED <<rast_mutex, cpc, next>>
  BY DEF ThreadWork, rast, ctx
<1>2. ControlTypes'
  BY <1>1 DEF Control, ControlTypes, TaskPCs
<1>3. \A u \in Tasks \ {t} : tpc'[u] = tpc[u] /\ work_ready'[u] = work_ready[u]
  BY <1>1 DEF Control, ControlTypes
<1>4. work_ready'[t] = work_ready[t] - 1
  BY <1>1 DEF Control, ControlTypes
<1>5. CASE exit_flag
  <2>1. tpc'[t] = "exited"
    BY <1>1, <1>5 DEF Control, ControlTypes
  <2>2. Exiting /\ t \in Live /\ work_ready[t] = 1
    BY <1>1, <1>5 DEF Control, RastInv, Exiting, Zero
  <2>3. Exiting'
    BY <1>1, <1>3, <1>4, <2>1, <2>2 DEF Exiting, Live, Zero
  <2> QED
    BY <1>1, <1>2, <1>5, <2>3 DEF Control, MutexInv, RastInv
<1>6. CASE ~exit_flag
  <2>1. PICK c \in Contexts, n \in Nat :
          Woken(c, n) /\ Gathering(c, n) /\ t \in Live /\ t < n /\ Before(t)
    BY <1>1, <1>6, GathererWhere DEF Control, ControlTypes
  <2> DEFINE p == IF t = 0 THEN "begin" ELSE "enter1"
  <2>2. tpc' = [tpc EXCEPT ![t] = p] /\ tpc'[t] = p
    BY <1>1, <1>6 DEF Control, ControlTypes
  <2>3. Before(t)'
    BY <1>1, <1>4, <2>1, <2>2 DEF Before
  <2>4. At("wait1")' = At("wait1")
    BY <1>1, <1>3, <2>2 DEF At
  <2>5. waiters' = Cardinality(At("wait1")')
    BY <1>1, <2>1, <2>4 DEF Gathering
  <2>6. IF tpc'[0] \in {"ready", "begin"} THEN full_scenes' = <<c>> /\ curr_scene' = NoContext
        ELSE full_scenes' = <<>> /\ curr_scene' = c
    BY <1>1, <1>3, <2>1, <2>2, TasksFacts DEF Gathering
  <2>7. HolderInv(c)'
    BY <1>1, <1>3, <2>1, <2>2, <2>3, <2>5, <2>6, GatheringKept
  <2> QED
    BY <1>1, <1>2, <2>1, <2>7, ThreadStepFrame DEF Woken
<1> QED
  BY <1>5, <1>6

\* Thread 0 takes the scene from the queue.
LEMMA ThreadBeginKept ==
  ASSUME Control, NEW t \in Tasks, ThreadBegin(t)
  PROVE  Control'
<1>1. PICK c \in Contexts, n \in Nat :
        Woken(c, n) /\ Gathering(c, n) /\ t \in Live /\ t < n /\ Before(t)
  BY GathererWhere DEF ThreadBegin
<1>2. t = 0 /\ full_scenes = <<c>> /\ tpc[t] = "begin"
  BY <1>1 DEF ThreadBegin, Before, Gathering
<1>3. /\ tpc' = [tpc EXCEPT ![t] = "enter1"]
      /\ full_scenes' = <<>> /\ curr_scene' = c
      /\ UNCHANGED <<work_ready, work_done, waiters, sequence, tscene, tseq, num_threads,
                     exit_flag, ctx, screen>>
      /\ UNCHANGED <<rast_mutex, cpc, next>>
  BY <1>2 DEF ThreadBegin, RastBegin, ctx
<1>4. tpc'[t] = "enter1" /\ \A u \in Tasks \ {t} : tpc'[u] = tpc[u]
  BY <1>3 DEF Control, ControlTypes
<1>5. ControlTypes'
  BY <1>3 DEF Control, ControlTypes, TaskPCs
<1>6. Before(t)'
  BY <1>1, <1>2, <1>3, <1>4 DEF Before
<1>7. At("wait1")' = At("wait1")
  BY <1>2, <1>4 DEF At
<1>8. waiters' = Cardinality(At("wait1")')
  BY <1>1, <1>3, <1>7 DEF Gathering
<1>9. HolderInv(c)'
  BY <1>1, <1>2, <1>3, <1>4, <1>6, <1>8, GatheringKept
<1> QED
  BY <1>1, <1>3, <1>5, <1>9, ThreadStepFrame DEF Woken

\* A thread comes to the first barrier; the last one opens it.
LEMMA Barrier1Kept ==
  ASSUME Control, NEW t \in Tasks, BarrierWait(t, "enter1", "wait1", "scene")
  PROVE  Control'
<1>1. PICK c \in Contexts, n \in Nat :
        Woken(c, n) /\ Gathering(c, n) /\ t \in Live /\ t < n /\ Before(t)
  BY GathererWhere DEF BarrierWait
<1>2. /\ tpc[t] = "enter1" /\ work_ready[t] = 0 /\ work_done[t] = 0
      /\ UNCHANGED <<work_ready, work_done, tscene, num_threads, exit_flag, full_scenes,
                     curr_scene, ctx, screen>>
      /\ UNCHANGED <<rast_mutex, cpc, next>>
  BY <1>1 DEF BarrierWait, Before, rast, ctx
<1>3. At("wait1") \subseteq Live \ {t} /\ waiters = Cardinality(At("wait1"))
  BY <1>1, <1>2 DEF Gathering, At
<1>4. ControlTypes
  BY DEF Control
<1>5. /\ LastToArrive <=> At("wait1") = Live \ {t}
      /\ Cardinality(At("wait1") \cup {t}) = waiters + 1
  BY <1>1, <1>3, <1>4, BarrierOpens
<1>6. CASE ~LastToArrive
  <2>1. /\ waiters' = waiters + 1 /\ tseq' = [tseq EXCEPT ![t] = sequence]
        /\ tpc' = [tpc EXCEPT ![t] = "wait1"] /\ sequence' = sequence
    BY <1>6 DEF BarrierWait
  <2>2. ControlTypes'
    BY <1>2, <1>4, <2>1 DEF ControlTypes, TaskPCs
  <2>3. /\ tpc'[t] = "wait1" /\ \A u \in Tasks \ {t} : tpc'[u] = tpc[u]
        /\ tseq'[t] = sequence /\ \A u \in Tasks \ {t} : tseq'[u] = tseq[u]
    BY <1>4, <2>1 DEF ControlTypes
  <2>4. Before(t)'
    BY <1>2, <2>1, <2>3 DEF Before
  <2>5. At("wait1")' = At("wait1") \cup {t}
    BY <2>3 DEF At
  <2>6. IF tpc'[0] \in {"ready", "begin"} THEN full_scenes' = <<c>> /\ curr_scene' = NoContext
        ELSE full_scenes' = <<>> /\ curr_scene' = c
    BY <1>1, <1>2, <2>3, TasksFacts DEF Gathering
  <2>7. HolderInv(c)'
    BY <1>1, <1>2, <1>5, <2>1, <2>3, <2>4, <2>5, <2>6, GatheringKept
  <2> QED
    BY <1>1, <1>2, <2>2, <2>7, ThreadStepFrame DEF Woken
<1>7. CASE LastToArrive
  <2>1. /\ waiters' = 0 /\ sequence' = (sequence + 1) % SeqWrap
        /\ tpc' = [tpc EXCEPT ![t] = "scene"] /\ tseq' = tseq
    BY <1>7 DEF BarrierWait
  <2>2. sequence' \in 0 .. SeqWrap - 1 /\ sequence' # sequence
    BY <1>4, <2>1, SequenceMoves
  <2>3. ControlTypes'
    BY <1>2, <1>4, <2>1, <2>2 DEF ControlTypes, TaskPCs
  <2>4. tpc'[t] = "scene" /\ \A u \in Tasks \ {t} : tpc'[u] = tpc[u]
    BY <1>4, <2>1 DEF ControlTypes
  <2>5. /\ \A u \in Live \ {t} : tpc[u] = "wait1" /\ u \in Tasks
        /\ Live' = Live
    BY <1>2, <1>5, <1>7 DEF At, Live
  \* All threads are woken: one that is not would not be in the barrier.
  <2>6. n = num_threads /\ cpc[c] = "finish" /\ next[c] = 0 /\ num_threads > 0
    <3> SUFFICES ASSUME n < num_threads PROVE FALSE
      BY <1>1, <1>4 DEF Woken, ControlTypes
    <3>1. n \in Live /\ n # t
      BY <1>1, <1>4, LiveFacts DEF ControlTypes
    <3>2. Resting(n)
      BY <1>1, <3>1 DEF Gathering
    <3> QED
      BY <2>5, <3>1, <3>2 DEF Resting
  <2>7. \A u \in Live \ {t} : Before(u)
    BY <1>1, <2>5, <2>6 DEF Gathering, Live
  <2>8. \A u \in Live : Inside(u)'
    BY <1>2, <2>1, <2>2, <2>4, <2>5, <2>7 DEF Inside, Before, Zero
  <2>9. \A u \in Tasks \ Live : tpc'[u] = "none" /\ Zero(u)'
    BY <1>1, <1>2, <2>4 DEF Gathering, Zero
  <2>10. At("wait2")' = {}
    BY <2>4, <2>5, <2>9 DEF At
  <2>11. full_scenes' = <<>> /\ curr_scene' = c
    <3>1. 0 \in Live
      BY <1>4, <2>6, LiveFacts
    <3>2. tpc[0] \in {"wait1", "enter1"}
      BY <1>2, <2>5, <3>1
    <3> QED
      BY <1>1, <1>2, <3>2 DEF Gathering
  <2>12. Drawing(c)'
    BY <2>1, <2>5, <2>8, <2>9, <2>10, <2>11, FS_EmptySet DEF Drawing
  <2>13. HolderInv(c)'
    BY <1>2, <2>6, <2>12 DEF HolderInv
  <2> QED
    BY <1>1, <1>2, <2>3, <2>13, ThreadStepFrame DEF Woken
<1> QED
  BY <1>6, <1>7

\* A thread about to come to the second barrier, or in one that has not opened or has.
LEMMA BarrierWhere ==
  ASSUME Control, NEW t \in Tasks,
         \/ tpc[t] = "wait1" /\ tseq[t] # sequence
         \/ tpc[t] = "enter2"
  PROVE  \E c \in Contexts :
           /\ rast_mutex = c /\ cpc[c] = "finish" /\ next[c] = 0 /\ num_threads > 0
           /\ Drawing(c) /\ t \in Live /\ Inside(t)
<1> DEFINE c == rast_mutex
<1>1. /\ c \in Contexts /\ ~exit_flag /\ cpc[c] \in {"inline", "signal", "finish"}
      /\ HolderInv(c)
  BY BusyForHolder
<1>2. ~Inline(c) /\ (\A n : ~Gathering(c, n)) /\ (\A n : ~Ending(c, n))
  BY TasksFacts DEF Inline, Gathering, Before, Ending, After, Resting, Live
<1>3. cpc[c] = "finish" /\ num_threads > 0 /\ next[c] = 0 /\ Drawing(c)
  BY <1>1, <1>2 DEF HolderInv
<1> QED
  BY <1>1, <1>3 DEF Drawing

\* A thread finds the first barrier open.
LEMMA Leave1Kept ==
  ASSUME Control, NEW t \in Tasks, BarrierLeave(t, "wait1", "scene")
  PROVE  Control'
<1>1. PICK c \in Contexts :
        /\ rast_mutex = c /\ cpc[c] = "finish" /\ next[c] = 0 /\ num_threads > 0
        /\ Drawing(c) /\ t \in Live /\ Inside(t)
  BY BarrierWhere DEF BarrierLeave
<1>2. /\ tpc[t] = "wait1" /\ tpc' = [tpc EXCEPT ![t] = "scene"]
      /\ UNCHANGED <<work_ready, work_done, waiters, sequence, tscene, tseq, num_threads,
                     exit_flag, full_scenes, curr_scene, ctx, screen>>
  BY DEF BarrierLeave, rast
<1>3. ControlTypes' /\ tpc'[t] = "scene"
  BY <1>2 DEF Control, ControlTypes, TaskPCs, ctx
<1>4. Inside(t)'
  BY <1>1, <1>2, <1>3 DEF Inside, Zero
<1>5. HolderInv(c)'
  BY <1>1, <1>2, <1>4, DrawingKept
<1> QED
  BY <1>1, <1>2, <1>3, <1>5, ThreadStepFrame DEF ctx

\* A thread comes to the second barrier; the last one opens it.
LEMMA Barrier2Kept ==
  ASSUME Control, NEW t \in Tasks, BarrierWait(t, "enter2", "wait2", AfterBarrier2(t))
  PROVE  Control'
<1>1. PICK c \in Contexts :
        /\ rast_mutex = c /\ cpc[c] = "finish" /\ next[c] = 0 /\ num_threads > 0
        /\ Drawing(c) /\ t \in Live /\ Inside(t)
  BY BarrierWhere DEF BarrierWait
<1>2. /\ tpc[t] = "enter2" /\ work_ready[t] = 0 /\ work_done[t] = 0
      /\ UNCHANGED <<work_ready, work_done, tscene, num_threads, exit_flag, full_scenes,
                     curr_scene, ctx, screen>>
      /\ UNCHANGED <<rast_mutex, cpc, next>>
  BY <1>1 DEF BarrierWait, Inside, Zero, rast, ctx
<1>3. At("wait2") \subseteq Live \ {t} /\ waiters = Cardinality(At("wait2"))
  BY <1>1, <1>2 DEF Drawing, At
<1>4. ControlTypes
  BY DEF Control
<1>5. /\ LastToArrive <=> At("wait2") = Live \ {t}
      /\ Cardinality(At("wait2") \cup {t}) = waiters + 1
  BY <1>1, <1>3, <1>4, BarrierOpens
<1>6. CASE ~LastToArrive
  <2>1. /\ waiters' = waiters + 1 /\ tseq' = [tseq EXCEPT ![t] = sequence]
        /\ tpc' = [tpc EXCEPT ![t] = "wait2"] /\ sequence' = sequence
    BY <1>6 DEF BarrierWait
  <2>2. ControlTypes'
    BY <1>2, <1>4, <2>1 DEF ControlTypes, TaskPCs
  <2>3. /\ tpc'[t] = "wait2" /\ \A u \in Tasks \ {t} : tpc'[u] = tpc[u]
        /\ tseq'[t] = sequence /\ \A u \in Tasks \ {t} : tseq'[u] = tseq[u]
    BY <1>4, <2>1 DEF ControlTypes
  <2>4. At("wait2")' = At("wait2") \cup {t} /\ Live' = Live
    BY <1>2, <2>3 DEF At, Live
  <2>5. \A u \in Live : Inside(u)'
    BY <1>1, <1>2, <2>1, <2>3 DEF Drawing, Inside, Zero, Live
  <2>6. \A u \in Tasks \ Live : tpc'[u] = "none" /\ Zero(u)'
    BY <1>1, <1>2, <2>3 DEF Drawing, Zero
  <2>7. Drawing(c)'
    BY <1>1, <1>2, <1>5, <2>1, <2>4, <2>5, <2>6 DEF Drawing
  <2>8. HolderInv(c)'
    BY <1>1, <1>2, <1>4, <2>7, ThreadsAssumption DEF HolderInv, ControlTypes
  <2> QED
    BY <1>1, <1>2, <2>2, <2>8, ThreadStepFrame
<1>7. CASE LastToArrive
  <2> DEFINE p == AfterBarrier2(t)
  <2>1. /\ waiters' = 0 /\ sequence' = (sequence + 1) % SeqWrap
        /\ tpc' = [tpc EXCEPT ![t] = p] /\ tseq' = tseq
    BY <1>7 DEF BarrierWait
  <2>2. sequence' \in 0 .. SeqWrap - 1 /\ sequence' # sequence
    BY <1>4, <2>1, SequenceMoves
  <2>3. p \in {"end", "done"} /\ (p = "end" <=> t = 0)
    BY DEF AfterBarrier2
  <2>4. ControlTypes'
    BY <1>2, <1>4, <2>1, <2>2, <2>3 DEF ControlTypes, TaskPCs
  <2>5. tpc'[t] = p /\ \A u \in Tasks \ {t} : tpc'[u] = tpc[u]
    BY <1>4, <2>1 DEF ControlTypes
  <2>6. /\ \A u \in Live \ {t} : tpc[u] = "wait2" /\ u \in Tasks
        /\ Live' = Live
    BY <1>2, <1>5, <1>7 DEF At, Live
  <2>7. \A u \in Live : After(u)'
    BY <1>1, <1>2, <2>1, <2>2, <2>3, <2>5, <2>6 DEF Drawing, Inside, After, Zero
  <2>8. \A u \in Tasks \ Live : tpc'[u] = "none" /\ Zero(u)'
    BY <1>1, <1>2, <2>5 DEF Drawing, Zero
  <2>9. 0 \in Live /\ tpc'[0] \in {"wait2", "end"}
    BY <1>1, <1>4, <2>3, <2>5, <2>6, LiveFacts
  <2>10. \A u \in Live : ~(u < 0)
    BY TasksFacts DEF Live
  <2>11. Ending(c, 0)'
    BY <1>1, <1>2, <2>1, <2>6, <2>7, <2>8, <2>9, <2>10 DEF Ending, Drawing
  <2>12. HolderInv(c)'
    BY <1>1, <1>2, <1>4, <2>11, ThreadsAssumption DEF HolderInv, ControlTypes
  <2> QED
    BY <1>1, <1>2, <2>4, <2>12, ThreadStepFrame
<1> QED
  BY <1>6, <1>7

\* A thread past the second barrier ends the scene of a context.
LEMMA EnderWhere ==
  ASSUME Control, NEW t \in Tasks,
         \/ tpc[t] = "wait2" /\ tseq[t] # sequence
         \/ tpc[t] \in {"end", "done"}
         \/ ~exit_flag /\ work_done[t] # 0
  PROVE  \E c \in Contexts :
           /\ rast_mutex = c /\ cpc[c] = "finish" /\ num_threads > 0 /\ ~exit_flag
           /\ next[c] \in 0 .. num_threads /\ Ending(c, next[c])
           /\ t \in Live /\ ~(t < next[c]) /\ After(t)
<1> DEFINE c == rast_mutex
<1>1. /\ c \in Contexts /\ ~exit_flag /\ cpc[c] \in {"inline", "signal", "finish"}
      /\ HolderInv(c)
  BY BusyForHolder
<1>2. ~Inline(c) /\ (\A n : ~Gathering(c, n)) /\ ~Drawing(c)
  BY TasksFacts DEF Inline, Gathering, Before, Drawing, Inside, Resting, Zero, Live
<1>3. cpc[c] = "finish" /\ num_threads > 0 /\ next[c] <= num_threads /\ Ending(c, next[c])
  BY <1>1, <1>2 DEF HolderInv
<1>4. next[c] \in 0 .. num_threads
  BY <1>1, <1>3, ThreadsAssumption DEF Control, ControlTypes
<1>5. t \in Live
  BY <1>3 DEF Ending, Zero
<1>6. ~Resting(t)
  BY DEF Resting, Zero
<1> QED
  BY <1>1, <1>3, <1>4, <1>5, <1>6 DEF Ending

\* A step of one thread that ends a scene, or the wait for thread t.
LEMMA EndingKept ==
  ASSUME Control, NEW c \in Contexts, rast_mutex = c, cpc[c] = "finish", num_threads > 0,
         next[c] \in 0 .. num_threads, Ending(c, next[c]),
         NEW t \in Live, ~(t < next[c]), NEW p, tpc' = [tpc EXCEPT ![t] = p],
         next'[c] \in 0 .. num_threads, cpc'[c] = cpc[c],
         \A u \in Live \ {t} : u < next'[c] <=> u < next[c],
         IF t < next'[c] THEN Resting(t)' ELSE After(t)',
         \A u \in Tasks \ {t} : /\ work_ready'[u] = work_ready[u]
                                /\ work_done'[u] = work_done[u],
         UNCHANGED <<sequence, tseq, num_threads, waiters, full_scenes>>,
         curr_scene' = IF tpc'[0] \in {"wait2", "end"} THEN c ELSE NoContext
  PROVE  HolderInv(c)'
<1>1. Live' = Live /\ Live \subseteq Tasks
  BY DEF Live
<1>2. \A u \in Tasks \ {t} : tpc'[u] = tpc[u]
  BY DEF Control, ControlTypes
<1>3. \A u \in Live \ {t} : IF u < next'[c] THEN Resting(u)' ELSE After(u)'
  <2> SUFFICES ASSUME NEW u \in Live \ {t}
               PROVE  IF u < next'[c] THEN Resting(u)' ELSE After(u)'
    OBVIOUS
  <2>1. IF u < next[c] THEN Resting(u) ELSE After(u)
    BY DEF Ending
  <2>2. Resting(u) => Resting(u)'
    BY <1>1, <1>2 DEF Resting, Zero
  <2>3. After(u) => After(u)'
    BY <1>1, <1>2 DEF After
  <2> QED
    BY <2>1, <2>2, <2>3
<1>4. \A u \in Tasks \ Live : tpc'[u] = "none" /\ Zero(u)'
  BY <1>2 DEF Ending, Zero
<1>5. full_scenes' = <<>> /\ waiters' = 0
  BY DEF Ending
<1>6. Ending(c, next[c])'
  BY <1>1, <1>3, <1>4, <1>5 DEF Ending
<1> QED
  BY <1>6, ThreadsAssumption DEF HolderInv, Control, ControlTypes

\* A thread finds the second barrier open.
LEMMA Leave2Kept ==
  ASSUME Control, NEW t \in Tasks, BarrierLeave(t, "wait2", AfterBarrier2(t))
  PROVE  Control'
<1>1. PICK c \in Contexts :
        /\ rast_mutex = c /\ cpc[c] = "finish" /\ num_threads > 0
        /\ next[c] \in 0 .. num_threads /\ Ending(c, next[c])
        /\ t \in Live /\ ~(t < next[c]) /\ After(t)
  BY EnderWhere DEF BarrierLeave
<1> DEFINE p == AfterBarrier2(t)
<1>2. /\ tpc[t] = "wait2" /\ tpc' = [tpc EXCEPT ![t] = p]
      /\ UNCHANGED <<work_ready, work_done, waiters, sequence, tscene, tseq, num_threads,
                     exit_flag, full_scenes, curr_scene, ctx, screen>>
      /\ UNCHANGED <<rast_mutex, cpc, next>>
  BY DEF BarrierLeave, rast, ctx
<1>3. p \in {"end", "done"} /\ (p = "end" <=> t = 0)
  BY DEF AfterBarrier2
<1>4. tpc'[t] = p /\ \A u \in Tasks \ {t} : tpc'[u] = tpc[u]
  BY <1>2 DEF Control, ControlTypes
<1>5. ControlTypes'
  BY <1>2, <1>3 DEF Control, ControlTypes, TaskPCs
<1>6. After(t)'
  BY <1>1, <1>2, <1>3, <1>4 DEF After
<1>7. curr_scene' = IF tpc'[0] \in {"wait2", "end"} THEN c ELSE NoContext
  BY <1>1, <1>2, <1>3, <1>4, TasksFacts DEF Ending
<1>8. HolderInv(c)'
  BY <1>1, <1>2, <1>6, <1>7, EndingKept
<1> QED
  BY <1>1, <1>2, <1>5, <1>8, ThreadStepFrame

\* Thread 0 ends the scene.
LEMMA ThreadEndKept ==
  ASSUME Control, NEW t \in Tasks, ThreadEnd(t)
  PROVE  Control'
<1>1. PICK c \in Contexts :
        /\ rast_mutex = c /\ cpc[c] = "finish" /\ num_threads > 0
        /\ next[c] \in 0 .. num_threads /\ Ending(c, next[c])
        /\ t \in Live /\ ~(t < next[c]) /\ After(t)
  BY EnderWhere DEF ThreadEnd
<1>2. /\ tpc[t] = "end" /\ tpc' = [tpc EXCEPT ![t] = "done"]
      /\ curr_scene' = NoContext
      /\ UNCHANGED <<work_ready, work_done, waiters, sequence, tscene, tseq, num_threads,
                     exit_flag, full_scenes, ctx, screen>>
      /\ UNCHANGED <<rast_mutex, cpc, next>>
  BY DEF ThreadEnd, ctx
<1>3. tpc'[t] = "done" /\ t = 0
  BY <1>1, <1>2 DEF Control, ControlTypes, After
<1>4. ControlTypes'
  BY <1>2 DEF Control, ControlTypes, TaskPCs
<1>5. After(t)'
  BY <1>1, <1>2, <1>3 DEF After
<1>6. HolderInv(c)'
  BY <1>1, <1>2, <1>3, <1>5, EndingKept
<1> QED
  BY <1>1, <1>2, <1>4, <1>6, ThreadStepFrame

\* A thread says that it is done.
LEMMA ThreadDoneKept ==
  ASSUME Control, NEW t \in Tasks, ThreadDone(t)
  PROVE  Control'
<1>1. PICK c \in Contexts :
        /\ rast_mutex = c /\ cpc[c] = "finish" /\ num_threads > 0
        /\ next[c] \in 0 .. num_threads /\ Ending(c, next[c])
        /\ t \in Live /\ ~(t < next[c]) /\ After(t)
  BY EnderWhere DEF ThreadDone
<1>2. /\ tpc[t] = "done" /\ tpc' = [tpc EXCEPT ![t] = "ready"]
      /\ work_done' = [work_done EXCEPT ![t] = @ + 1]
      /\ UNCHANGED <<work_ready, waiters, sequence, tscene, tseq, num_threads,
                     exit_flag, full_scenes, curr_scene, ctx, screen>>
      /\ UNCHANGED <<rast_mutex, cpc, next>>
  BY DEF ThreadDone, rast, ctx
<1>3. /\ tpc'[t] = "ready" /\ \A u \in Tasks \ {t} : tpc'[u] = tpc[u]
      /\ work_done'[t] = 1 /\ \A u \in Tasks \ {t} : work_done'[u] = work_done[u]
  BY <1>1, <1>2 DEF Control, ControlTypes, After
<1>4. ControlTypes'
  BY <1>2 DEF Control, ControlTypes, TaskPCs
<1>5. After(t)'
  BY <1>1, <1>2, <1>3 DEF After
<1>6. curr_scene' = IF tpc'[0] \in {"wait2", "end"} THEN c ELSE NoContext
  BY <1>1, <1>2, <1>3, TasksFacts DEF Ending
<1>7. HolderInv(c)'
  BY <1>1, <1>2, <1>3, <1>5, <1>6, EndingKept
<1> QED
  BY <1>1, <1>2, <1>4, <1>7, ThreadStepFrame

-----------------------------------------------------------------------------
(***************************************************************************)
(* What the contexts do                                                     *)
(***************************************************************************)

Critical == {"queue", "signal", "inline", "finish"}

\* The threads notice nothing of a call outside of the critical section.
LEMMA CallKept ==
  ASSUME Control, NEW c \in Contexts, NEW q \in ContextPCs \ Critical,
         cpc[c] \notin Critical \cup {"gone"}, cpc' = [cpc EXCEPT ![c] = q],
         next' \in [Contexts -> 0 .. ScreenThreads],
         \A d \in Contexts \ {c} : next'[d] = next[d],
         UNCHANGED <<pool, rast, rast_mutex, screen>>
  PROVE  Control'
<1>1. UNCHANGED <<work_ready, work_done, waiters, sequence, tpc, tscene, tseq, num_threads,
                  exit_flag, full_scenes, curr_scene, rast_mutex, screen>>
  BY DEF pool, rast
<1>2. ControlTypes'
  BY <1>1 DEF Control, ControlTypes
<1>3. cpc'[c] = q /\ \A d \in Contexts \ {c} : cpc'[d] = cpc[d]
  BY DEF Control, ControlTypes
<1>4. rast_mutex # c /\ ~exit_flag
  BY DEF Control, MutexInv, RastInv, Exiting, Critical
<1>5. MutexInv'
  BY <1>1, <1>3, <1>4 DEF Control, MutexInv, Critical
<1>6. Idle' <=> Idle
  BY <1>1 DEF Idle, Live, Resting, Zero
<1>7. ASSUME NEW d \in Contexts, rast_mutex = d
      PROVE  HolderInv(d)'
  <2>1. cpc'[d] = cpc[d] /\ next'[d] = next[d] /\ HolderInv(d)
    BY <1>3, <1>4, <1>7 DEF Control, RastInv
  <2>2. \A n : (Gathering(d, n)' <=> Gathering(d, n)) /\ (Ending(d, n)' <=> Ending(d, n))
    BY <1>1 DEF Gathering, Ending, Live, At, Before, After, Resting, Zero
  <2>3. (Drawing(d)' <=> Drawing(d)) /\ (Inline(d)' <=> Inline(d))
    BY <1>1 DEF Drawing, Inline, Live, At, Inside, Zero
  <2> QED
    BY <1>1, <1>6, <2>1, <2>2, <2>3 DEF HolderInv
<1> QED
  BY <1>1, <1>2, <1>4, <1>5, <1>6, <1>7 DEF Control, RastInv

\* ... nor of one that changes nothing they look at.
LEMMA UnseenKept ==
  ASSUME Control,
         UNCHANGED <<work_ready, work_done, waiters, sequence, tpc, tscene, tseq, rast, ctx>>,
         screen' = screen \/ (screen = "join" /\ screen' = "freed")
  PROVE  Control'
<1>1. UNCHANGED <<num_threads, exit_flag, full_scenes, curr_scene, rast_mutex, cpc, next>>
  BY DEF rast, ctx
<1>2. ControlTypes' /\ MutexInv'
  BY <1>1 DEF Control, ControlTypes, MutexInv
<1>3. (Idle' <=> Idle) /\ (Exiting' <=> Exiting)
  BY <1>1 DEF Idle, Exiting, Live, Resting, Zero
<1>4. ASSUME NEW d \in Contexts
      PROVE  HolderInv(d)' <=> HolderInv(d)
  <2>2. \A n : (Gathering(d, n)' <=> Gathering(d, n)) /\ (Ending(d, n)' <=> Ending(d, n))
    BY <1>1 DEF Gathering, Ending, Live, At, Before, After, Resting, Zero
  <2>3. (Drawing(d)' <=> Drawing(d)) /\ (Inline(d)' <=> Inline(d))
    BY <1>1 DEF Drawing, Inline, Live, At, Inside, Zero
  <2> QED
    BY <1>1, <1>3, <2>2, <2>3 DEF HolderInv
<1> QED
  BY <1>1, <1>2, <1>3, <1>4 DEF Control, RastInv

\* What the holder of the mutex does is right if it takes the threads to a state that
\* goes with its place.
LEMMA HolderStepFrame ==
  ASSUME Control, NEW c \in Contexts, rast_mutex = c, rast_mutex' = c,
         NEW q \in Critical, cpc' = [cpc EXCEPT ![c] = q],
         UNCHANGED <<exit_flag, screen>>, ControlTypes', HolderInv(c)'
  PROVE  Control'
<1>1. cpc'[c] = q /\ (\A d \in Contexts \ {c} : cpc'[d] = cpc[d]) /\ ~exit_flag
  BY DEF Control, ControlTypes, RastInv
<1>2. MutexInv'
  BY <1>1 DEF Control, MutexInv, Critical
<1> QED
  BY <1>1, <1>2, NamesAssumption DEF Control, RastInv

\* A context takes the mutex.
LEMMA LockRastKept ==
  ASSUME Control, NEW c \in Contexts, LockRast(c)
  PROVE  Control'
<1>1. /\ cpc[c] = "lock" /\ rast_mutex = NoContext /\ rast_mutex' = c
      /\ cpc' = [cpc EXCEPT ![c] = "queue"]
      /\ UNCHANGED <<work_ready, work_done, waiters, sequence, tpc, tscene, tseq, num_threads,
                     exit_flag, full_scenes, curr_scene, next, screen>>
  BY DEF LockRast, RastMutexFree, pool, rast
<1>2. ControlTypes'
  BY <1>1 DEF Control, ControlTypes, ContextPCs
<1>3. cpc'[c] = "queue" /\ \A d \in Contexts \ {c} : cpc'[d] = cpc[d]
  BY <1>1 DEF Control, ControlTypes
<1>4. MutexInv'
  BY <1>1, <1>3, NamesAssumption DEF Control, MutexInv
<1>5. ~exit_flag /\ Idle
  BY <1>1 DEF Control, RastInv, Exiting
<1>6. Idle'
  BY <1>1, <1>5 DEF Idle, Live, Resting, Zero
<1> QED
  BY <1>1, <1>2, <1>3, <1>4, <1>5, <1>6, NamesAssumption DEF Control, RastInv, HolderInv

\* Without threads the context begins to draw.
LEMMA QueueInlineKept ==
  ASSUME Control, NEW c \in Contexts, QueueInline(c)
  PROVE  Control'
<1>1. /\ cpc[c] = "queue" /\ num_threads = 0 /\ curr_scene' = c
      /\ tpc' = [tpc EXCEPT ![0] = "scene"] /\ cpc' = [cpc EXCEPT ![c] = "inline"]
      /\ UNCHANGED <<work_ready, work_done, waiters, sequence, tscene, tseq, num_threads,
                     exit_flag, full_scenes, rast_mutex, next, screen>>
  BY DEF QueueInline, RastBegin
<1>2. ControlTypes'
  BY <1>1 DEF Control, ControlTypes, ContextPCs, TaskPCs
<1>3. cpc'[c] = "inline" /\ tpc'[0] = "scene" /\ \A t \in Tasks \ {0} : tpc'[t] = tpc[t]
  BY <1>1, TasksFacts DEF Control, ControlTypes
<1>4. rast_mutex = c /\ Idle
  BY <1>1 DEF Control, MutexInv, RastInv, HolderInv
<1>5. Live = {}
  <2>1. \A t \in Tasks : ~(t < 0)
    BY TasksFacts
  <2> QED
    BY <1>1, <2>1 DEF Live
<1>6. Inline(c)'
  BY <1>1, <1>3, <1>4, <1>5 DEF Inline, Idle, Zero
<1>7. HolderInv(c)'
  BY <1>1, <1>3, <1>6 DEF HolderInv
<1> QED
  BY <1>1, <1>2, <1>4, <1>7, HolderStepFrame DEF Critical

\* A context gives the mutex back when the threads rest.
LEMMA UnlockKept ==
  ASSUME Control, NEW c \in Contexts, rast_mutex = c, rast_mutex' = NoContext,
         cpc' = [cpc EXCEPT ![c] = "end"], Idle',
         UNCHANGED <<pool, num_threads, exit_flag, next, screen>>,
         curr_scene' = NoContext
  PROVE  Control'
<1>1. UNCHANGED <<work_ready, work_done, waiters, sequence, tpc, tscene, tseq>>
  BY DEF pool
<1>2. ControlTypes'
  BY <1>1 DEF Control, ControlTypes, ContextPCs
<1>3. /\ cpc'[c] = "end" /\ \A d \in Contexts \ {c} : cpc'[d] = cpc[d]
      /\ ~exit_flag
  BY DEF Control, ControlTypes, RastInv
<1>4. MutexInv'
  BY <1>3, NamesAssumption DEF Control, MutexInv
<1> QED
  BY <1>2, <1>3, <1>4, NamesAssumption DEF Control, RastInv

\* The context has drawn its scene.
LEMMA InlineEndKept ==
  ASSUME Control, NEW c \in Contexts, InlineEnd(c)
  PROVE  Control'
<1>1. /\ cpc[c] = "inline" /\ tpc[0] = "none" /\ curr_scene' = NoContext
      /\ rast_mutex' = NoContext /\ cpc' = [cpc EXCEPT ![c] = "end"]
      /\ UNCHANGED <<pool, num_threads, exit_flag, full_scenes, next, screen>>
      /\ UNCHANGED <<work_ready, work_done, waiters, tpc>>
  BY DEF InlineEnd, pool
<1>2. rast_mutex = c /\ num_threads = 0 /\ Inline(c)
  BY <1>1 DEF Control, MutexInv, RastInv, HolderInv
<1>3. Live' = {}
  <2>1. \A t \in Tasks : ~(t < 0)
    BY TasksFacts
  <2> QED
    BY <1>1, <1>2, <2>1 DEF Live
<1>4. Idle'
  BY <1>1, <1>2, <1>3 DEF Inline, Idle, Zero
<1> QED
  BY <1>1, <1>2, <1>4, UnlockKept

\* The context puts its scene into the queue.
LEMMA QueueSceneKept ==
  ASSUME Control, NEW c \in Contexts, QueueScene(c)
  PROVE  Control'
<1>1. /\ cpc[c] = "queue" /\ num_threads > 0
      /\ full_scenes' = Append(full_scenes, c) /\ next' = [next EXCEPT ![c] = 0]
      /\ cpc' = [cpc EXCEPT ![c] = "signal"]
      /\ UNCHANGED <<work_ready, work_done, waiters, sequence, tpc, tscene, tseq, num_threads,
                     exit_flag, curr_scene, rast_mutex, screen>>
  BY DEF QueueScene, pool
<1>2. ControlTypes'
  BY <1>1, ThreadsAssumption DEF Control, ControlTypes, ContextPCs
<1>3. cpc'[c] = "signal" /\ next'[c] = 0
  BY <1>1 DEF Control, ControlTypes
<1>4. rast_mutex = c /\ Idle
  BY <1>1 DEF Control, MutexInv, RastInv, HolderInv
<1>5. full_scenes' = <<c>>
  BY <1>1, <1>4 DEF Idle
<1>6. 0 \in Live /\ Live' = Live
  BY <1>1, LiveFacts DEF Control, Live
<1>7. At("wait1")' = {}
  BY <1>1, <1>4 DEF At, Idle, Resting
<1>8. \A t \in Live : ~(t < 0) /\ t \in Tasks
  BY TasksFacts DEF Live
<1>9. Gathering(c, 0)'
  BY <1>1, <1>4, <1>5, <1>6, <1>7, <1>8, FS_EmptySet DEF Gathering, Idle, Resting, Zero
<1>10. HolderInv(c)'
  BY <1>1, <1>3, <1>9 DEF HolderInv
<1> QED
  BY <1>1, <1>2, <1>4, <1>10, HolderStepFrame DEF Critical

\* The context wakes the next thread.
LEMMA SignalReadyKept ==
  ASSUME Control, NEW c \in Contexts, SignalReady(c)
  PROVE  Control'
<1>0. PICK n \in Nat : n = next[c]
  BY ThreadsAssumption DEF Control, ControlTypes
<1>1. /\ cpc[c] = "signal" /\ work_ready' = [work_ready EXCEPT ![n] = @ + 1]
      /\ IF n + 1 < num_threads
         THEN next' = [next EXCEPT ![c] = @ + 1] /\ UNCHANGED cpc
         ELSE next' = [next EXCEPT ![c] = 0] /\ cpc' = [cpc EXCEPT ![c] = "finish"]
      /\ UNCHANGED <<work_done, waiters, sequence, tpc, tscene, tseq, num_threads,
                     exit_flag, full_scenes, curr_scene, rast_mutex, screen>>
  BY <1>0 DEF SignalReady, rast
<1>2. /\ rast_mutex = c /\ n < num_threads /\ Gathering(c, n)
      /\ n \in Nat /\ num_threads \in 0 .. ScreenThreads /\ ScreenThreads \in Nat
  BY <1>0, <1>1, ThreadsAssumption DEF Control, ControlTypes, MutexInv, RastInv, HolderInv
<1>3. n \in Live /\ n \in Tasks /\ Live' = Live
  BY <1>1, <1>2, LiveFacts DEF Control, Live
<1>4. Resting(n)
  BY <1>2, <1>3 DEF Gathering
<1>5. work_ready'[n] = 1 /\ \A t \in Tasks \ {n} : work_ready'[t] = work_ready[t]
  BY <1>1, <1>3, <1>4 DEF Control, ControlTypes, Resting, Zero
<1>6. ControlTypes'
  <2>1. next' \in [Contexts -> 0 .. ScreenThreads]
    BY <1>0, <1>1, <1>2 DEF Control, ControlTypes
  <2>2. work_ready' \in [Tasks -> Nat]
    BY <1>1, <1>3, <1>5 DEF Control, ControlTypes
  <2>3. cpc' \in [Contexts -> ContextPCs]
    BY <1>1 DEF Control, ControlTypes, ContextPCs
  <2> QED
    BY <1>1, <2>1, <2>2, <2>3 DEF Control, ControlTypes
<1>7. Before(n)'
  BY <1>1, <1>4, <1>5 DEF Before, Resting, Zero
<1>8. \A t \in Live \ {n} : IF t < n + 1 THEN Before(t)' ELSE Resting(t)'
  <2> SUFFICES ASSUME NEW t \in Live \ {n}
               PROVE  IF t < n + 1 THEN Before(t)' ELSE Resting(t)'
    OBVIOUS
  <2>1. IF t < n THEN Before(t) ELSE Resting(t)
    BY <1>2 DEF Gathering
  <2>2. t \in Nat /\ t \in Tasks
    BY TasksFacts DEF Live
  <2>3. (Before(t) => Before(t)') /\ (Resting(t) => Resting(t)')
    BY <1>1, <1>5, <2>2 DEF Before, Resting, Zero
  <2> QED
    BY <1>2, <2>1, <2>2, <2>3
<1>9. \A t \in Tasks \ Live : tpc'[t] = "none" /\ Zero(t)'
  BY <1>1, <1>2, <1>3, <1>5 DEF Gathering, Zero
<1>10. At("wait1")' = At("wait1")
  BY <1>1 DEF At
<1>11. \A t \in Live : IF t < n + 1 THEN Before(t)' ELSE Resting(t)'
  BY <1>2, <1>7, <1>8
<1>12. /\ waiters' = Cardinality(At("wait1")')
       /\ IF tpc'[0] \in {"ready", "begin"} THEN full_scenes' = <<c>> /\ curr_scene' = NoContext
          ELSE full_scenes' = <<>> /\ curr_scene' = c
  BY <1>1, <1>2, <1>10 DEF Gathering
<1>13. Gathering(c, n + 1)'
  BY <1>3, <1>9, <1>11, <1>12 DEF Gathering
<1>14. CASE n + 1 < num_threads
  <2>1. next'[c] = n + 1 /\ cpc'[c] = "signal" /\ cpc' = [cpc EXCEPT ![c] = "signal"]
    BY <1>0, <1>1, <1>14 DEF Control, ControlTypes
  <2>2. HolderInv(c)'
    BY <1>1, <1>13, <1>14, <2>1 DEF HolderInv
  <2> QED
    BY <1>1, <1>2, <1>6, <2>1, <2>2, HolderStepFrame DEF Critical
<1>15. CASE ~(n + 1 < num_threads)
  <2>1. /\ next'[c] = 0 /\ cpc'[c] = "finish" /\ cpc' = [cpc EXCEPT ![c] = "finish"]
        /\ n + 1 = num_threads'
    BY <1>0, <1>1, <1>2, <1>15 DEF Control, ControlTypes
  <2>2. HolderInv(c)'
    BY <1>1, <1>2, <1>13, <2>1 DEF HolderInv
  <2> QED
    BY <1>1, <1>2, <1>6, <2>1, <2>2, HolderStepFrame DEF Critical
<1> QED
  BY <1>14, <1>15

\* The context has waited for one more thread.
LEMMA WaitDoneKept ==
  ASSUME Control, NEW c \in Contexts, WaitDone(c)
  PROVE  Control'
<1>0. PICK t \in Nat : t = next[c]
  BY ThreadsAssumption DEF Control, ControlTypes
<1>1. /\ cpc[c] = "finish" /\ t < num_threads /\ work_done[t] > 0
      /\ work_done' = [work_done EXCEPT ![t] = @ - 1] /\ next' = [next EXCEPT ![c] = @ + 1]
      /\ UNCHANGED <<work_ready, waiters, sequence, tpc, tscene, tseq, num_threads, exit_flag,
                     full_scenes, curr_scene, rast_mutex, cpc, screen>>
  BY <1>0 DEF WaitDone, LoopLimit, rast
<1>2. /\ rast_mutex = c /\ t \in Nat /\ num_threads \in 0 .. ScreenThreads
      /\ ScreenThreads \in Nat /\ ~exit_flag
  BY <1>0, <1>1, ThreadsAssumption DEF Control, ControlTypes, MutexInv, RastInv
<1>3. t \in Live /\ t \in Tasks
  BY <1>1, <1>2, LiveFacts DEF Control
<1>4. work_done[t] # 0 /\ work_done[t] \in Nat
  BY <1>1, <1>3 DEF Control, ControlTypes
<1>5. Ending(c, t) /\ After(t) /\ ~(t < t) /\ t \in 0 .. num_threads
  BY <1>0, <1>2, <1>3, <1>4, EnderWhere
<1>6. tpc[t] = "ready" /\ work_done[t] = 1 /\ work_ready[t] = 0
  BY <1>4, <1>5 DEF After
<1>7. /\ work_done'[t] = 0 /\ \A u \in Tasks \ {t} : work_done'[u] = work_done[u]
      /\ next'[c] = t + 1
  BY <1>0, <1>1, <1>3, <1>6 DEF Control, ControlTypes
<1>8. ControlTypes'
  <2>1. next' \in [Contexts -> 0 .. ScreenThreads]
    BY <1>0, <1>1, <1>2 DEF Control, ControlTypes
  <2>2. work_done' \in [Tasks -> Nat]
    BY <1>1, <1>3, <1>6 DEF Control, ControlTypes
  <2> QED
    BY <1>1, <2>1, <2>2 DEF Control, ControlTypes
<1>9. Resting(t)' /\ t < next'[c]
  BY <1>1, <1>2, <1>6, <1>7 DEF Resting, Zero
<1>10. \A u \in Live \ {t} : u < next'[c] <=> u < t
  BY <1>2, <1>7, TasksFacts DEF Live
<1>11. tpc' = [tpc EXCEPT ![t] = "ready"]
  BY <1>1, <1>6 DEF Control, ControlTypes
<1>12. curr_scene' = IF tpc'[0] \in {"wait2", "end"} THEN c ELSE NoContext
  BY <1>1, <1>5 DEF Ending
<1>13. next'[c] \in 0 .. num_threads /\ num_threads > 0
  BY <1>1, <1>2, <1>7
<1>14. HolderInv(c)'
  BY <1>0, <1>1, <1>2, <1>3, <1>5, <1>7, <1>9, <1>10, <1>11, <1>12, <1>13, EndingKept
<1>15. cpc' = [cpc EXCEPT ![c] = "finish"]
  BY <1>1 DEF Control, ControlTypes
<1> QED
  BY <1>1, <1>2, <1>8, <1>14, <1>15, HolderStepFrame DEF Critical

\* The context has waited for all threads.
LEMMA FinishReturnsKept ==
  ASSUME Control, NEW c \in Contexts, FinishReturns(c)
  PROVE  Control'
<1>1. /\ cpc[c] = "finish" /\ next[c] >= num_threads /\ rast_mutex' = NoContext
      /\ cpc' = [cpc EXCEPT ![c] = "end"]
      /\ UNCHANGED <<pool, num_threads, exit_flag, full_scenes, curr_scene, next, screen>>
      /\ UNCHANGED <<work_ready, work_done, waiters, tpc>>
  BY DEF FinishReturns, LoopLimit, pool, rast
<1>2. rast_mutex = c /\ next[c] = num_threads /\ num_threads > 0 /\ Ending(c, num_threads)
  BY <1>1, ThreadsAssumption DEF Control, ControlTypes, MutexInv, RastInv, HolderInv
<1>3. \A t \in Live : t < num_threads /\ t \in Tasks
  BY DEF Live
<1>4. 0 \in Live /\ Live' = Live
  BY <1>1, <1>2, LiveFacts DEF Control, Live
<1>5. curr_scene' = NoContext
  BY <1>1, <1>2, <1>3, <1>4 DEF Ending, Resting
<1>6. Idle'
  BY <1>1, <1>2, <1>3, <1>4, <1>5 DEF Idle, Ending, Resting, Zero
<1> QED
  BY <1>1, <1>2, <1>5, <1>6, UnlockKept

\* The threads are told to end.
LEMMA DestroyRastKept ==
  ASSUME Control, DestroyRast
  PROVE  Control'
<1>1. /\ screen = "open" /\ screen' = "join" /\ exit_flag' = TRUE
      /\ \A c \in Contexts : cpc[c] = "gone"
      /\ work_ready' = [t \in Tasks |-> work_ready[t] + (IF t < num_threads THEN 1 ELSE 0)]
      /\ UNCHANGED <<work_done, waiters, sequence, tpc, tscene, tseq, num_threads,
                     full_scenes, curr_scene, rast_mutex, cpc, next>>
  BY DEF DestroyRast, WokenToExit, ctx
<1>2. rast_mutex = NoContext /\ Idle
  BY <1>1 DEF Control, ControlTypes, MutexInv, RastInv
<1>3. ControlTypes'
  <2>1. work_ready' \in [Tasks -> Nat]
    BY <1>1 DEF Control, ControlTypes
  <2> QED
    BY <1>1, <2>1 DEF Control, ControlTypes
<1>4. /\ \A t \in Live : work_ready'[t] = 1 /\ t \in Tasks
      /\ \A t \in Tasks \ Live : work_ready'[t] = 0
  BY <1>1, <1>2 DEF Idle, Live, Resting, Zero
<1>5. Exiting'
  BY <1>1, <1>2, <1>4 DEF Exiting, Idle, Live, Resting, Zero
<1>6. MutexInv'
  BY <1>1 DEF Control, MutexInv
<1> QED
  BY <1>1, <1>2, <1>3, <1>5, <1>6, NamesAssumption DEF Control, RastInv

-----------------------------------------------------------------------------
\* Every step keeps the invariant of the threads.
LEMMA ControlNext ==
  ASSUME Control, [Next]_vars
  PROVE  Control'
<1>1. ASSUME NEW t \in Tasks, TaskStep(t)
      PROVE  Control'
  BY <1>1, RasterizeKept, ThreadWorkKept, ThreadBeginKept, Barrier1Kept, Leave1Kept,
     Barrier2Kept, Leave2Kept, ThreadEndKept, ThreadDoneKept DEF TaskStep, ThreadBarriers
<1>2. ASSUME NEW c \in Contexts,
             \/ LockRast(c) \/ QueueInline(c) \/ InlineEnd(c) \/ QueueScene(c)
             \/ SignalReady(c) \/ WaitDone(c) \/ FinishReturns(c)
      PROVE  Control'
  BY <1>2, LockRastKept, QueueInlineKept, InlineEndKept, QueueSceneKept, SignalReadyKept,
     WaitDoneKept, FinishReturnsKept
<1>3. ASSUME NEW c \in Contexts,
             \/ EndScene(c) \/ FenceWaited(c) \/ BeginScene(c) \/ RasterizeScene(c)
             \/ FenceFinish(c) \/ DestroyContext(c)
      PROVE  Control'
  <2>1. /\ cpc[c] \notin Critical \cup {"gone"}
        /\ UNCHANGED <<pool, rast, rast_mutex, screen>>
    BY <1>3 DEF EndScene, FenceWaited, BeginScene, RasterizeScene, FenceFinish,
                DestroyContext, Critical
  <2>2. next' \in [Contexts -> 0 .. ScreenThreads] /\ \A d \in Contexts \ {c} : next'[d] = next[d]
    BY <1>3, ThreadsAssumption DEF EndScene, FenceWaited, BeginScene, RasterizeScene,
       FenceFinish, DestroyContext, Control, ControlTypes
  <2>3. \E q \in {"flushed", "binning", "lock", "fence_wait", "fence_timedwait", "gone"} :
          cpc' = [cpc EXCEPT ![c] = q]
    BY <1>3 DEF EndScene, FenceWaited, BeginScene, RasterizeScene, FenceFinish, DestroyContext
  <2>4. \E q \in ContextPCs \ Critical : cpc' = [cpc EXCEPT ![c] = q]
    BY <2>3 DEF ContextPCs, Critical
  <2> QED
    BY <2>1, <2>2, <2>4, CallKept
<1>4. ASSUME NEW c \in Contexts, FlushHandle(c)
      PROVE  Control'
  BY <1>4, UnseenKept DEF FlushHandle, pool
<1>5. ASSUME ReleaseHandle \/ FreeRast \/ UNCHANGED vars
      PROVE  Control'
  <2>1. CASE ReleaseHandle
    BY <2>1, UnseenKept DEF ReleaseHandle, pool
  <2>2. CASE FreeRast
    BY <2>2, UnseenKept DEF FreeRast, pool
  <2>3. CASE UNCHANGED vars
    BY <2>3, UnseenKept DEF vars, pool
  <2> QED
    BY <1>5, <2>1, <2>2, <2>3
<1> QED
  BY <1>1, <1>2, <1>3, <1>4, <1>5, DestroyRastKept DEF Next, ContextStep, ContextCall

\* Before the first scene every thread is idle.
LEMMA ControlInit ==
  ASSUME Init
  PROVE  Control
<1>1. num_threads \in 0 .. ScreenThreads /\ ScreenThreads \in Nat
  BY ThreadsAssumption DEF Init
<1>2. ControlTypes
  <2>1. tpc \in [Tasks -> TaskPCs] /\ cpc \in [Contexts -> ContextPCs]
    BY DEF Init, TaskPCs, ContextPCs
  <2>2. /\ next \in [Contexts -> 0 .. ScreenThreads] /\ tseq \in [Tasks -> 0 .. SeqWrap - 1]
        /\ sequence \in 0 .. SeqWrap - 1
    BY <1>1, WrapAssumption DEF Init
  <2>3. /\ work_ready \in [Tasks -> Nat] /\ work_done \in [Tasks -> Nat]
        /\ tscene \in [Tasks -> Contexts \cup {NoContext}]
    BY DEF Init
  <2> QED
    BY <1>1, <2>1, <2>2, <2>3 DEF Init, ControlTypes
<1>3. Idle
  BY DEF Init, Idle, Live, Resting, Zero
<1>4. MutexInv
  BY NamesAssumption DEF Init, MutexInv
<1> QED
  BY <1>2, <1>3, <1>4, NamesAssumption DEF Init, Control, RastInv

\* The threads are where the holder of rast_mutex may expect them.
THEOREM RastControl == Spec => []Control
BY ControlInit, ControlNext, PTL DEF Spec

\* A context that takes rast_mutex finds the threads, the semaphores, the barrier and
\* the queue of scenes as lp_rast_create left them.
THEOREM RastQuiet == Spec => []QuietWhenUnlocked
<1>1. Control => QuietWhenUnlocked
  BY DEF Control, RastInv, Idle, Resting, Zero, Live, QuietWhenUnlocked
<1> QED
  BY <1>1, RastControl, PTL

-----------------------------------------------------------------------------
(***************************************************************************)
(* The bins                                                                 *)
(***************************************************************************)

\* The scene in the queue, and the current one, are of the holder of rast_mutex.
LEMMA SceneOfHolder ==
  ASSUME Control, NEW c \in Contexts, full_scenes = <<c>> \/ curr_scene = c
  PROVE  rast_mutex = c /\ cpc[c] \in {"inline", "signal", "finish"}
<1>1. ~Idle /\ ~Exiting
  BY NamesAssumption DEF Idle, Exiting
<1>2. rast_mutex \in Contexts /\ HolderInv(rast_mutex)
  BY <1>1 DEF Control, ControlTypes, RastInv
<1>3. cpc[rast_mutex] \in {"inline", "signal", "finish"}
  BY <1>1, <1>2 DEF Control, MutexInv, HolderInv
<1>4. \A d \in Contexts : \A n :
        Gathering(d, n) \/ Drawing(d) \/ Ending(d, n) \/ Inline(d) => d = c
  BY NamesAssumption DEF Gathering, Drawing, Ending, Inline
<1> QED
  BY <1>2, <1>3, <1>4 DEF HolderInv

\* A bin with commands is a tile of its scene.
LEMMA TileFacts ==
  ASSUME SceneTypes, NEW c \in Contexts
  PROVE  /\ tiles[c] \in Nat \X Nat
         /\ \A b \in binned[c] : /\ b \in Nat \X Nat
                                 /\ b[1] < tiles[c][1] /\ b[2] < tiles[c][2]
<1>1. tiles[c] \in Nat \X Nat
  BY FbAssumption DEF SceneTypes
<1>2. binned[c] \subseteq (0 .. tiles[c][1] - 1) \X (0 .. tiles[c][2] - 1)
  BY DEF SceneTypes, TilesOf
<1> QED
  BY <1>1, <1>2

\* lp_scene_bin_iter_next goes to the next bin in the order of the rows, and says so when
\* there is none.
LEMMA AdvanceNext ==
  ASSUME SceneTypes, NEW c \in Contexts, Position(c)
  PROVE  /\ Advance(c) \in Nat \X Nat
         /\ tiles[c][1] > 0 => Advance(c)[1] < tiles[c][1]
         /\ \A b \in binned[c] : Upto(b, Advance(c)) <=> Upto(b, curr[c]) \/ b = Advance(c)
         /\ ~Upto(Advance(c), curr[c])
         /\ Advance(c)[2] >= curr[c][2]
         /\ Exhausted(c) => Advance(c)[2] >= tiles[c][2] /\ Advance(c) \notin binned[c]
<1>1. /\ tiles[c] \in Nat \X Nat
      /\ \A b \in binned[c] : b \in Nat \X Nat /\ b[1] < tiles[c][1] /\ b[2] < tiles[c][2]
  BY TileFacts
<1>2. PICK X \in Nat, Y \in Nat : tiles[c] = <<X, Y>>
  BY <1>1
<1>3. PICK x \in Int, y \in Int : curr[c] = <<x, y>>
  BY DEF SceneTypes
<1>4. (x = -1 /\ y = -1) \/ (x >= 0 /\ y >= 0 /\ (X > 0 => x < X))
  BY <1>2, <1>3 DEF Position, NoTile
<1>5. Advance(c) = IF x < 0 THEN <<0, 0>> ELSE IF x + 1 >= X THEN <<0, y + 1>> ELSE <<x + 1, y>>
  BY <1>2, <1>3 DEF Advance
<1>6. PICK u \in Nat, v \in Nat :
        /\ Advance(c) = <<u, v>>
        /\ \/ x < 0 /\ u = 0 /\ v = 0
           \/ x >= 0 /\ x + 1 >= X /\ u = 0 /\ v = y + 1
           \/ x >= 0 /\ x + 1 < X /\ u = x + 1 /\ v = y
  <2>1. CASE x < 0
    BY <1>5, <2>1
  <2>2. CASE x >= 0 /\ x + 1 >= X
    BY <1>4, <1>5, <2>2
  <2>3. CASE x >= 0 /\ ~(x + 1 >= X)
    BY <1>4, <1>5, <2>3
  <2> QED
    BY <2>1, <2>2, <2>3
<1>7. ASSUME NEW b \in binned[c]
      PROVE  Upto(b, Advance(c)) <=> Upto(b, curr[c]) \/ b = Advance(c)
  <2>1. PICK i \in Nat, j \in Nat : b = <<i, j>> /\ i < X /\ j < Y
    BY <1>1, <1>2, <1>7
  <2>2. (j < v \/ (j = v /\ i <= u)) <=> (j < y \/ (j = y /\ i <= x)) \/ (i = u /\ j = v)
    BY <1>4, <1>6, <2>1
  <2> QED
    BY <1>3, <1>6, <2>1, <2>2 DEF Upto
<1>8. ~Upto(Advance(c), curr[c])
  BY <1>3, <1>4, <1>6 DEF Upto
<1>9. Exhausted(c) => v >= Y
  BY <1>2, <1>3, <1>6 DEF Exhausted
<1>10. v >= Y => Advance(c) \notin binned[c]
  BY <1>1, <1>2, <1>6
<1> QED
  BY <1>2, <1>3, <1>4, <1>6, <1>7, <1>8, <1>9, <1>10

\* A scene that a step does not touch.
LEMMA SceneFrame ==
  ASSUME NEW c \in Contexts, SceneInv(c),
         Waiting(c)' => Waiting(c), Ended(c)' => Ended(c),
         tiles'[c] = tiles[c], bins'[c] = bins[c], curr'[c] = curr[c],
         binned'[c] = binned[c], drawn'[c] = drawn[c],
         curr_scene' = c =>
           /\ curr_scene = c /\ At("draw")' = At("draw") /\ tbin' = tbin
           /\ Passed' \cup At("fence")' \subseteq Passed \cup At("fence")
  PROVE  SceneInv(c)'
<1>1. Waiting(c)' => bins'[c] = binned'[c] /\ drawn'[c] = {}
  BY DEF SceneInv
<1>2. Ended(c)' => drawn'[c] = binned'[c]
  BY DEF SceneInv
<1>3. curr_scene' = c => bins'[c] = binned'[c] /\ Iterator(c)'
  BY DEF SceneInv, Iterator, Position, Upto
<1> QED
  BY <1>1, <1>2, <1>3 DEF SceneInv

\* A step of a task that draws nothing and has no business with the bins.
LEMMA TaskFrame ==
  ASSUME Control, Scenes, NEW t \in Tasks, NEW p, tpc' = [tpc EXCEPT ![t] = p],
         tpc[t] # "draw", p # "draw",
         t \in Passed' \cup At("fence")' => t \in Passed \cup At("fence"),
         \A u \in Tasks \ {t} : work_done'[u] = work_done[u],
         UNCHANGED <<num_threads, full_scenes, curr_scene, rast_mutex, cpc, tbin, tiles, bins,
                     curr, binned, drawn>>
  PROVE  Scenes'
<1>1. tpc'[t] = p /\ \A u \in Tasks \ {t} : tpc'[u] = tpc[u]
  BY DEF Control, ControlTypes
<1>2. At("draw")' = At("draw")
  BY <1>1 DEF At
<1>3. Passed' \cup At("fence")' \subseteq Passed \cup At("fence")
  <2> SUFFICES ASSUME NEW u \in Passed' \cup At("fence")', u # t
               PROVE  u \in Passed \cup At("fence")
    OBVIOUS
  <2>1. u \in Tasks
    BY TasksFacts DEF Passed, Live, At
  <2> QED
    BY <1>1, <2>1 DEF Passed, Live, At
<1>4. SceneTypes'
  BY DEF Scenes, SceneTypes
<1>5. ASSUME NEW c \in Contexts
      PROVE  SceneInv(c)'
  <2>1. (Waiting(c)' <=> Waiting(c)) /\ (Ended(c)' <=> Ended(c))
    BY DEF Waiting, Ended
  <2> QED
    BY <1>2, <1>3, <2>1, SceneFrame DEF Scenes
<1> QED
  BY <1>4, <1>5 DEF Scenes

\* A step of a context that leaves the tasks and the scenes alone.
LEMMA ContextFrame ==
  ASSUME Control, Scenes,
         UNCHANGED <<num_threads, curr_scene, tpc, tbin, tiles, bins, curr, binned, drawn>>,
         \A t \in Tasks : work_done'[t] # 0 => work_done'[t] = work_done[t],
         \A c \in Contexts : (Waiting(c)' => Waiting(c)) /\ (Ended(c)' => Ended(c))
  PROVE  Scenes'
<1>1. At("draw")' = At("draw") /\ At("fence")' = At("fence")
  BY DEF At
<1>2. Passed' \subseteq Passed
  BY DEF Passed, Live
<1>3. SceneTypes'
  BY DEF Scenes, SceneTypes
<1> QED
  BY <1>1, <1>2, <1>3, SceneFrame DEF Scenes

\* A scene is begun: its bins are as they were submitted, nothing has been drawn.
LEMMA BeginKept ==
  ASSUME Scenes, NEW c \in Contexts, Waiting(c), RastBegin(c), rast_mutex' = c,
         At("draw")' = {}, Passed' \cup At("fence")' = {}, full_scenes' # <<c>>,
         cpc'[c] \notin {"binning", "lock", "queue"}, tbin' = tbin,
         \A d \in Contexts \ {c} : cpc'[d] = cpc[d] /\ full_scenes' # <<d>>
  PROVE  Scenes'
<1>1. /\ curr_scene' = c /\ curr' = [curr EXCEPT ![c] = NoTile]
      /\ UNCHANGED <<tiles, bins, binned, drawn>>
  BY DEF RastBegin
<1>2. SceneTypes'
  <2>1. NoTile \in Int \X Int
    BY DEF NoTile
  <2> QED
    BY <1>1, <2>1 DEF Scenes, SceneTypes
<1>3. curr'[c] = NoTile /\ \A d \in Contexts \ {c} : curr'[d] = curr[d]
  BY <1>1 DEF Scenes, SceneTypes
<1>4. ~Waiting(c)' /\ ~Ended(c)'
  BY <1>1 DEF Waiting, Ended
<1>5. bins[c] = binned[c] /\ drawn[c] = {}
  BY DEF Scenes, SceneInv
<1>6. \A b \in binned[c] : ~Upto(b, NoTile)
  BY TileFacts DEF Scenes, Upto, NoTile
<1>7. Iterator(c)'
  <2>1. Position(c)'
    BY <1>3 DEF Position
  <2>2. \A b \in binned'[c] : ~Upto(b, curr'[c])
    BY <1>1, <1>3, <1>6
  <2>3. drawn'[c] = {}
    BY <1>1, <1>5
  <2> QED
    BY <2>1, <2>2, <2>3 DEF Iterator, Upto
<1>8. SceneInv(c)'
  BY <1>1, <1>4, <1>5, <1>7 DEF SceneInv
<1>9. ASSUME NEW d \in Contexts \ {c}
      PROVE  SceneInv(d)'
  <2>1. Waiting(d)' => Waiting(d)
    BY <1>9 DEF Waiting
  <2> QED
    BY <1>1, <1>3, <2>1, SceneFrame DEF Scenes, Ended
<1> QED
  BY <1>2, <1>8, <1>9 DEF Scenes

\* When a task has left rasterize_scene and none draws, all bins of the scene are drawn.
LEMMA AllDrawn ==
  ASSUME Scenes, NEW c \in Contexts, curr_scene = c, At("draw") = {}, Passed # {}
  PROVE  drawn[c] = binned[c]
<1>1. Iterator(c)
  BY DEF Scenes, SceneInv
<1>2. curr[c][2] >= tiles[c][2] /\ curr[c][2] \in Int /\ tiles[c][2] \in Nat
  BY <1>1, TileFacts DEF Iterator, Scenes, SceneTypes
<1>3. \A b \in binned[c] : Upto(b, curr[c])
  BY <1>2, TileFacts DEF Upto, Scenes
<1> QED
  BY <1>1, <1>3 DEF Iterator

\* A task draws the bin it has been given.
LEMMA TaskDrawScenes ==
  ASSUME Control, Scenes, NEW t \in Tasks, TaskDraw(t)
  PROVE  Scenes'
<1>1. PICK c \in Contexts : curr_scene = c /\ tscene[t] = c /\ rast_mutex = c
  BY DrawerWhere DEF TaskDraw
<1>2. /\ tpc[t] = "draw" /\ drawn' = [drawn EXCEPT ![c] = @ \cup {tbin[t]}]
      /\ tbin' = [tbin EXCEPT ![t] = NoTile] /\ tpc' = [tpc EXCEPT ![t] = "bins"]
      /\ UNCHANGED <<work_done, num_threads, full_scenes, curr_scene, rast_mutex, cpc, tiles,
                     bins, curr, binned>>
  BY <1>1 DEF TaskDraw, rast, ctx
<1>3. bins[c] = binned[c] /\ Iterator(c) /\ t \in At("draw")
  BY <1>1, <1>2 DEF Scenes, SceneInv, At
<1>4. tbin[t] \in binned[c] \ drawn[c] /\ Upto(tbin[t], curr[c])
  BY <1>3 DEF Iterator
<1>5. SceneTypes'
  BY <1>2, <1>4 DEF Scenes, SceneTypes
<1>6. /\ drawn'[c] = drawn[c] \cup {tbin[t]}
      /\ \A d \in Contexts \ {c} : drawn'[d] = drawn[d]
      /\ \A u \in Tasks \ {t} : tbin'[u] = tbin[u] /\ tpc'[u] = tpc[u]
      /\ tpc'[t] = "bins"
  BY <1>2 DEF Scenes, SceneTypes, Control, ControlTypes
<1>7. At("draw")' = At("draw") \ {t}
  BY <1>2, <1>6 DEF At
<1>8. Passed' \cup At("fence")' \subseteq Passed \cup At("fence")
  BY <1>2, <1>6, TasksFacts DEF Passed, Live, At
<1>9. Iterator(c)'
  <2>1. Position(c)'
    BY <1>2, <1>3 DEF Position, Iterator
  <2>2. \A b \in drawn'[c] : b \in binned'[c] /\ Upto(b, curr'[c])
    BY <1>2, <1>3, <1>4, <1>6 DEF Iterator
  <2>3. ASSUME NEW u \in At("draw") \ {t}
        PROVE  /\ tbin'[u] \in binned'[c] \ drawn'[c] /\ Upto(tbin'[u], curr'[c])
               /\ \A w \in At("draw") \ {t, u} : tbin'[w] # tbin'[u]
    <3>1. /\ tbin[u] \in binned[c] \ drawn[c] /\ Upto(tbin[u], curr[c])
          /\ \A w \in At("draw") \ {u} : tbin[w] # tbin[u]
      BY <1>3, <2>3 DEF Iterator
    <3>2. tbin[u] # tbin[t]
      BY <1>3, <2>3, <3>1
    <3> QED
      BY <1>2, <1>6, <2>3, <3>1, <3>2 DEF At
  <2>4. ASSUME NEW b \in binned'[c], Upto(b, curr'[c])
        PROVE  b \in drawn'[c] \/ \E u \in At("draw") \ {t} : tbin'[u] = b
    <3>1. b \in drawn[c] \/ \E u \in At("draw") : tbin[u] = b
      BY <1>2, <1>3, <2>4 DEF Iterator
    <3> QED
      BY <1>6, <3>1 DEF At
  <2>5. \A u \in Passed' \cup At("fence")' : curr'[c][2] >= tiles'[c][2]
    BY <1>2, <1>3, <1>8 DEF Iterator
  <2> QED
    BY <1>7, <2>1, <2>2, <2>3, <2>4, <2>5 DEF Iterator, Upto
<1>10. SceneInv(c)'
  <2>1. ~Waiting(c)' /\ ~Ended(c)'
    <3>1. full_scenes # <<c>> /\ cpc[c] \notin {"binning", "lock", "queue"}
      BY <1>1, <1>2, DrawerWhere DEF Inline, Drawing
    <3> QED
      BY <1>1, <1>2, <3>1 DEF Waiting, Ended
  <2> QED
    BY <1>2, <1>3, <1>9, <2>1 DEF SceneInv
<1>11. ASSUME NEW d \in Contexts \ {c}
       PROVE  SceneInv(d)'
  <2>1. (Waiting(d)' <=> Waiting(d)) /\ (Ended(d)' <=> Ended(d))
    BY <1>2 DEF Waiting, Ended
  <2> QED
    BY <1>1, <1>2, <1>6, <2>1, SceneFrame DEF Scenes
<1> QED
  BY <1>5, <1>10, <1>11 DEF Scenes

\* A task takes the next bin of the scene.
LEMMA TaskNextBinScenes ==
  ASSUME Control, Scenes, NEW t \in Tasks, TaskNextBin(t)
  PROVE  Scenes'
<1>1. PICK c \in Contexts : /\ curr_scene = c /\ tscene[t] = c /\ rast_mutex = c
                            /\ full_scenes # <<c>> /\ cpc[c] \notin {"binning", "lock", "queue"}
  BY DrawerWhere DEF TaskNextBin, Inline, Drawing
<1>2. PICK q : q = Advance(c)
  OBVIOUS
<1>3. /\ tpc[t] = "bins" /\ curr' = [curr EXCEPT ![c] = q]
      /\ IF Exhausted(c)
         THEN tpc' = [tpc EXCEPT ![t] = "fence"] /\ tbin' = tbin
         ELSE IF q \in bins[c]
         THEN tpc' = [tpc EXCEPT ![t] = "draw"] /\ tbin' = [tbin EXCEPT ![t] = q]
         ELSE tpc' = tpc /\ tbin' = tbin
      /\ UNCHANGED <<work_done, num_threads, full_scenes, curr_scene, rast_mutex, cpc, tiles,
                     bins, binned, drawn>>
  BY <1>1, <1>2 DEF TaskNextBin, rast, ctx
<1>4. bins[c] = binned[c] /\ Iterator(c) /\ Position(c) /\ SceneTypes
  BY <1>1 DEF Scenes, SceneInv, Iterator
<1>5. /\ q \in Nat \X Nat /\ (tiles[c][1] > 0 => q[1] < tiles[c][1])
      /\ \A b \in binned[c] : Upto(b, q) <=> Upto(b, curr[c]) \/ b = q
      /\ ~Upto(q, curr[c]) /\ q[2] >= curr[c][2]
      /\ Exhausted(c) => q[2] >= tiles[c][2] /\ q \notin binned[c]
  BY <1>2, <1>4, AdvanceNext
<1>6. curr'[c] = q /\ \A d \in Contexts \ {c} : curr'[d] = curr[d]
  BY <1>3, <1>4 DEF SceneTypes
<1>7. SceneTypes'
  <2>1. tbin' \in [Tasks -> AllTiles \cup {NoTile}]
    BY <1>3, <1>4 DEF SceneTypes
  <2>2. curr' \in [Contexts -> Int \X Int]
    BY <1>3, <1>4, <1>5 DEF SceneTypes
  <2> QED
    BY <1>3, <1>4, <2>1, <2>2 DEF SceneTypes
<1>8. Position(c)'
  BY <1>3, <1>5, <1>6 DEF Position
<1>9. \A u \in Tasks \ {t} : tpc'[u] = tpc[u] /\ tbin'[u] = tbin[u]
  BY <1>3, <1>4 DEF SceneTypes, Control, ControlTypes
<1>10. \A b \in drawn'[c] : b \in binned'[c] /\ Upto(b, curr'[c])
  BY <1>3, <1>4, <1>5, <1>6 DEF Iterator
<1>11. \A u \in (Passed' \cup At("fence")') \ {t} : curr'[c][2] >= tiles'[c][2]
  <2> SUFFICES ASSUME NEW u \in (Passed' \cup At("fence")') \ {t}
               PROVE  q[2] >= tiles[c][2]
    BY <1>3, <1>6
  <2>1. u \in Passed \cup At("fence")
    BY <1>3, <1>9, TasksFacts DEF Passed, Live, At
  <2>2. curr[c][2] >= tiles[c][2] /\ curr[c][2] \in Int /\ tiles[c][2] \in Nat /\ q[2] \in Nat
    BY <1>4, <1>5, <2>1, TileFacts DEF Iterator, SceneTypes
  <2> QED
    BY <1>5, <2>2
<1>12. Iterator(c)'
  <2>1. CASE Exhausted(c)
    <3>1. tpc'[t] = "fence" /\ tbin' = tbin
      BY <1>3, <2>1 DEF Control, ControlTypes
    <3>2. At("draw")' = At("draw")
      BY <1>3, <1>9, <3>1 DEF At
    <3>3. \A u \in Passed' \cup At("fence")' : curr'[c][2] >= tiles'[c][2]
      BY <1>3, <1>5, <1>6, <1>11, <2>1
    <3>4. \A b \in binned[c] : Upto(b, q) <=> Upto(b, curr[c])
      BY <1>5, <2>1
    <3>5. \A u \in At("draw") : tbin[u] \in binned[c]
      BY <1>4 DEF Iterator
    <3> QED
      BY <1>3, <1>4, <1>6, <1>8, <1>10, <3>1, <3>2, <3>3, <3>4, <3>5 DEF Iterator, Upto
  <2>2. CASE ~Exhausted(c) /\ q \notin bins[c]
    <3>1. tpc' = tpc /\ tbin' = tbin
      BY <1>3, <2>2
    <3>2. At("draw")' = At("draw")
      BY <3>1 DEF At
    <3>3. \A u \in Passed' \cup At("fence")' : curr'[c][2] >= tiles'[c][2]
      BY <1>3, <1>11, <3>1 DEF Passed, At
    <3>4. \A b \in binned[c] : Upto(b, q) <=> Upto(b, curr[c])
      BY <1>4, <1>5, <2>2
    <3>5. \A u \in At("draw") : tbin[u] \in binned[c]
      BY <1>4 DEF Iterator
    <3> QED
      BY <1>3, <1>4, <1>6, <1>8, <1>10, <3>1, <3>2, <3>3, <3>4, <3>5 DEF Iterator, Upto
  <2>3. CASE ~Exhausted(c) /\ q \in bins[c]
    <3>1. tpc'[t] = "draw" /\ tbin'[t] = q
      BY <1>3, <1>4, <2>3 DEF Control, ControlTypes, SceneTypes
    <3>2. At("draw")' = At("draw") \cup {t} /\ t \notin At("draw")
      BY <1>3, <1>9, <3>1 DEF At
    <3>3. \A u \in Passed' \cup At("fence")' : curr'[c][2] >= tiles'[c][2]
      BY <1>3, <1>11, <3>1 DEF Passed, At
    <3>4. /\ q \in binned'[c] \ drawn'[c]
          /\ Upto(q, curr'[c])
      BY <1>3, <1>4, <1>5, <1>6, <2>3 DEF Iterator
    <3>5. ASSUME NEW u \in At("draw")
          PROVE  /\ tbin'[u] = tbin[u] /\ tbin[u] # q
                 /\ tbin[u] \in binned'[c] \ drawn'[c] /\ Upto(tbin[u], curr'[c])
                 /\ \A w \in At("draw") \ {u} : tbin[w] # tbin[u]
      <4>1. /\ tbin[u] \in binned[c] \ drawn[c] /\ Upto(tbin[u], curr[c])
            /\ \A w \in At("draw") \ {u} : tbin[w] # tbin[u]
        BY <1>4, <3>5 DEF Iterator
      <4> QED
        BY <1>3, <1>5, <1>6, <1>9, <3>2, <4>1 DEF At
    <3>6. \A u \in At("draw") \cup {t} :
            /\ tbin'[u] \in binned'[c] \ drawn'[c] /\ Upto(tbin'[u], curr'[c])
            /\ \A w \in (At("draw") \cup {t}) \ {u} : tbin'[w] # tbin'[u]
      BY <3>1, <3>4, <3>5
    <3>7. ASSUME NEW b \in binned'[c], Upto(b, curr'[c])
          PROVE  b \in drawn'[c] \/ \E u \in At("draw") \cup {t} : tbin'[u] = b
      <4>1. Upto(b, curr[c]) \/ b = q
        BY <1>3, <1>5, <1>6, <3>7
      <4>2. Upto(b, curr[c]) => b \in drawn[c] \/ \E u \in At("draw") : tbin[u] = b
        BY <1>3, <1>4, <3>7 DEF Iterator
      <4> QED
        BY <1>3, <3>1, <3>5, <4>1, <4>2
    <3> QED
      BY <1>8, <1>10, <3>2, <3>3, <3>6, <3>7 DEF Iterator, Upto
  <2> QED
    BY <2>1, <2>2, <2>3
<1>13. SceneInv(c)'
  BY <1>1, <1>3, <1>4, <1>12 DEF SceneInv, Waiting, Ended
<1>14. ASSUME NEW d \in Contexts \ {c}
       PROVE  SceneInv(d)'
  <2>1. (Waiting(d)' <=> Waiting(d)) /\ (Ended(d)' <=> Ended(d))
    BY <1>3 DEF Waiting, Ended
  <2> QED
    BY <1>1, <1>3, <1>6, <2>1, SceneFrame DEF Scenes
<1> QED
  BY <1>7, <1>13, <1>14 DEF Scenes

\* Thread 0 begins the scene.
LEMMA ThreadBeginScenes ==
  ASSUME Control, Scenes, NEW t \in Tasks, ThreadBegin(t)
  PROVE  Scenes'
<1>1. PICK c \in Contexts, n \in Nat :
        Woken(c, n) /\ Gathering(c, n) /\ t \in Live /\ t < n /\ Before(t)
  BY GathererWhere DEF ThreadBegin
<1>2. t = 0 /\ full_scenes = <<c>> /\ tpc[t] = "begin"
  BY <1>1 DEF ThreadBegin, Before, Gathering
<1>3. /\ tpc' = [tpc EXCEPT ![t] = "enter1"] /\ full_scenes' = <<>> /\ RastBegin(c)
      /\ UNCHANGED <<work_done, tbin, num_threads, rast_mutex, cpc>>
  BY <1>2 DEF ThreadBegin, ctx
<1>4. \A u \in Tasks : /\ tpc'[u] \notin {"draw", "fence", "enter2", "wait2", "end", "done"}
                       /\ tpc'[u] = "ready" => work_done'[u] = 0
  BY <1>1, <1>3 DEF Gathering, Before, Resting, Zero, Live, Control, ControlTypes
<1>5. num_threads # 0
  BY <1>1 DEF Woken
<1>6. At("draw")' = {} /\ Passed' \cup At("fence")' = {}
  BY <1>3, <1>4, <1>5 DEF At, Passed, Live
<1>7. Waiting(c) /\ cpc'[c] \notin {"binning", "lock", "queue"} /\ rast_mutex' = c
  BY <1>1, <1>2, <1>3 DEF Waiting, Woken
<1> QED
  BY <1>3, <1>6, <1>7, BeginKept

\* A context without threads begins its scene.
LEMMA QueueInlineScenes ==
  ASSUME Control, Scenes, NEW c \in Contexts, QueueInline(c)
  PROVE  Scenes'
<1>1. /\ cpc[c] = "queue" /\ num_threads = 0 /\ RastBegin(c)
      /\ tpc' = [tpc EXCEPT ![0] = "scene"] /\ cpc' = [cpc EXCEPT ![c] = "inline"]
      /\ UNCHANGED <<work_done, tbin, num_threads, full_scenes, rast_mutex>>
  BY DEF QueueInline
<1>2. rast_mutex = c /\ Idle
  BY <1>1 DEF Control, MutexInv, RastInv, HolderInv
<1>3. /\ tpc'[0] = "scene" /\ \A u \in Tasks \ {0} : tpc'[u] = tpc[u]
      /\ cpc'[c] = "inline" /\ \A d \in Contexts \ {c} : cpc'[d] = cpc[d]
  BY <1>1, TasksFacts DEF Control, ControlTypes
<1>4. At("draw")' = {} /\ Passed' \cup At("fence")' = {}
  BY <1>1, <1>2, <1>3 DEF At, Passed, Idle, Resting, Live
<1>5. Waiting(c) /\ full_scenes' = <<>>
  BY <1>1, <1>2 DEF Waiting, Idle
<1> QED
  BY <1>1, <1>2, <1>3, <1>4, <1>5, BeginKept

\* lp_scene_end_rasterization of a scene that has been drawn, or been ended already.
LEMMA EndKept ==
  ASSUME Scenes, NEW c \in Contexts, EndRasterization(c), curr_scene' # c,
         ~Waiting(c)', Ended(c)' => drawn[c] = binned[c],
         curr_scene' = NoContext \/ UNCHANGED <<curr_scene, tpc, work_done, num_threads>>,
         \A d \in Contexts \ {c} : (Waiting(d)' => Waiting(d)) /\ (Ended(d)' => Ended(d)),
         tbin' = tbin
  PROVE  Scenes'
<1>1. bins' = [bins EXCEPT ![c] = {}] /\ UNCHANGED <<tiles, curr, binned, drawn>>
  BY DEF EndRasterization
<1>2. SceneTypes' /\ \A d \in Contexts \ {c} : bins'[d] = bins[d]
  BY <1>1 DEF Scenes, SceneTypes
<1>3. SceneInv(c)'
  BY <1>1 DEF SceneInv
<1>4. ASSUME NEW d \in Contexts \ {c}
      PROVE  SceneInv(d)'
  <2>1. curr_scene' = d =>
          /\ curr_scene = d /\ At("draw")' = At("draw")
          /\ Passed' = Passed /\ At("fence")' = At("fence")
    BY NamesAssumption DEF Passed, Live, At
  <2> QED
    BY <1>1, <1>2, <1>4, <2>1, SceneFrame DEF Scenes
<1> QED
  BY <1>2, <1>3, <1>4 DEF Scenes

\* Thread 0 ends the scene, when all of it has been drawn.
LEMMA ThreadEndScenes ==
  ASSUME Control, Scenes, NEW t \in Tasks, ThreadEnd(t)
  PROVE  Scenes'
<1>1. PICK c \in Contexts :
        /\ rast_mutex = c /\ cpc[c] = "finish" /\ num_threads > 0 /\ Ending(c, next[c])
        /\ t \in Live /\ After(t)
  BY EnderWhere DEF ThreadEnd
<1>2. t = 0 /\ curr_scene = c /\ full_scenes = <<>> /\ tpc[t] = "end"
  BY <1>1 DEF ThreadEnd, After, Ending
<1>3. /\ EndRasterization(c) /\ curr_scene' = NoContext
      /\ UNCHANGED <<tbin, num_threads, full_scenes, rast_mutex, cpc>>
  BY <1>2 DEF ThreadEnd, ctx
<1>4. At("draw") = {}
  BY <1>1 DEF At, Ending, After, Resting, Live
<1>5. t \in Passed
  BY <1>1, <1>2, TasksFacts DEF Passed, Live
<1>6. drawn[c] = binned[c]
  BY <1>2, <1>4, <1>5, AllDrawn
<1>7. ~Waiting(c)' /\ \A d \in Contexts \ {c} : (Waiting(d)' => Waiting(d)) /\ ~Ended(d)'
  BY <1>1, <1>2, <1>3 DEF Waiting, Ended
<1> QED
  BY <1>3, <1>6, <1>7, EndKept, NamesAssumption

\* The context ends the scene it has drawn.
LEMMA InlineEndScenes ==
  ASSUME Control, Scenes, NEW c \in Contexts, InlineEnd(c)
  PROVE  Scenes' /\ drawn[c] = binned[c]
<1>1. /\ cpc[c] = "inline" /\ tpc[0] = "none" /\ EndRasterization(c) /\ curr_scene' = NoContext
      /\ rast_mutex' = NoContext /\ cpc' = [cpc EXCEPT ![c] = "end"]
      /\ UNCHANGED <<tbin, num_threads, full_scenes>>
  BY DEF InlineEnd, pool
<1>2. rast_mutex = c /\ num_threads = 0 /\ Inline(c)
  BY <1>1 DEF Control, MutexInv, RastInv, HolderInv
<1>3. At("draw") = {} /\ Passed # {} /\ curr_scene = c
  BY <1>1, <1>2 DEF At, Passed, Inline
<1>4. drawn[c] = binned[c]
  BY <1>3, AllDrawn
<1>5. cpc'[c] = "end" /\ \A d \in Contexts \ {c} : cpc'[d] = cpc[d]
  BY <1>1 DEF Control, ControlTypes
<1>6. ~Waiting(c)' /\ \A d \in Contexts : ((Waiting(d)' => Waiting(d)) /\ ~Ended(d)')
  BY <1>1, <1>2, <1>5, NamesAssumption DEF Waiting, Ended, Inline
<1> QED
  BY <1>1, <1>4, <1>6, EndKept, NamesAssumption

\* The context ends its scene once more.
LEMMA EndSceneScenes ==
  ASSUME Control, Scenes, NEW c \in Contexts, EndScene(c)
  PROVE  Scenes'
<1>1. /\ cpc[c] = "end" /\ EndRasterization(c) /\ cpc' = [cpc EXCEPT ![c] = "flushed"]
      /\ UNCHANGED <<tpc, tbin, work_done, num_threads, full_scenes, curr_scene, rast_mutex>>
  BY DEF EndScene, pool, rast
<1>2. rast_mutex # c /\ full_scenes # <<c>> /\ curr_scene # c
  BY <1>1, SceneOfHolder DEF Control, MutexInv
<1>3. cpc'[c] = "flushed" /\ \A d \in Contexts \ {c} : cpc'[d] = cpc[d]
  BY <1>1 DEF Control, ControlTypes
<1>4. /\ ~Waiting(c)' /\ ~Ended(c)'
      /\ \A d \in Contexts \ {c} : (Waiting(d)' => Waiting(d)) /\ (Ended(d)' => Ended(d))
  BY <1>1, <1>2, <1>3 DEF Waiting, Ended
<1> QED
  BY <1>1, <1>2, <1>4, EndKept

\* A context bins a new scene.
LEMMA BeginSceneScenes ==
  ASSUME Control, Scenes, NEW c \in Contexts, BeginScene(c)
  PROVE  Scenes'
<1>0. PICK fb \in FbTiles :
        /\ tiles' = [tiles EXCEPT ![c] = fb]
        /\ \E b \in SUBSET TilesOf(fb) :
             bins' = [bins EXCEPT ![c] = b] /\ binned' = [binned EXCEPT ![c] = b]
  BY DEF BeginScene
<1>1. PICK b \in SUBSET TilesOf(fb) :
        /\ tiles' = [tiles EXCEPT ![c] = fb] /\ bins' = [bins EXCEPT ![c] = b]
        /\ binned' = [binned EXCEPT ![c] = b]
  BY <1>0
<1>2. /\ cpc[c] = "flushed" /\ drawn' = [drawn EXCEPT ![c] = {}]
      /\ cpc' = [cpc EXCEPT ![c] = "binning"]
      /\ UNCHANGED <<tpc, tbin, work_done, num_threads, full_scenes, curr_scene, rast_mutex, curr>>
  BY DEF BeginScene, pool, rast
<1>3. rast_mutex # c /\ full_scenes # <<c>> /\ curr_scene # c
  BY <1>2, SceneOfHolder DEF Control, MutexInv
<1>4. /\ cpc'[c] = "binning" /\ \A d \in Contexts \ {c} : cpc'[d] = cpc[d]
      /\ bins'[c] = b /\ binned'[c] = b /\ drawn'[c] = {} /\ tiles'[c] = fb
      /\ \A d \in Contexts \ {c} : /\ bins'[d] = bins[d] /\ binned'[d] = binned[d]
                                   /\ drawn'[d] = drawn[d] /\ tiles'[d] = tiles[d]
  BY <1>1, <1>2 DEF Control, ControlTypes, Scenes, SceneTypes
<1>5. SceneTypes'
  <2>1. b \subseteq AllTiles
    BY DEF AllTiles
  <2>2. \A d \in Contexts : binned'[d] \subseteq TilesOf(tiles'[d])
    BY <1>4 DEF Scenes, SceneTypes
  <2> QED
    BY <1>1, <1>2, <2>1, <2>2 DEF Scenes, SceneTypes
<1>6. SceneInv(c)'
  BY <1>2, <1>3, <1>4 DEF SceneInv, Ended
<1>7. ASSUME NEW d \in Contexts \ {c}
      PROVE  SceneInv(d)'
  <2>1. (Waiting(d)' <=> Waiting(d)) /\ (Ended(d)' <=> Ended(d))
    BY <1>2, <1>4 DEF Waiting, Ended
  <2>2. At("draw")' = At("draw") /\ Passed' = Passed /\ At("fence")' = At("fence")
    BY <1>2 DEF Passed, Live, At
  <2> QED
    BY <1>2, <1>4, <1>7, <2>1, <2>2, SceneFrame DEF Scenes
<1> QED
  BY <1>5, <1>6, <1>7 DEF Scenes

\* The other steps of the tasks.
LEMMA TaskScenes ==
  ASSUME Control, Scenes, NEW t \in Tasks, TaskStep(t)
  PROVE  Scenes'
<1> DEFINE Frame == UNCHANGED <<num_threads, full_scenes, curr_scene, rast_mutex, cpc, tbin,
                                tiles, bins, curr, binned, drawn>>
           Others == \A u \in Tasks \ {t} : work_done'[u] = work_done[u]
<1>1. CASE TaskScene(t)
  <2>1. Frame /\ Others /\ tpc[t] = "scene" /\ tpc' = [tpc EXCEPT ![t] = "bins"]
    BY <1>1 DEF TaskScene, rast, scenes, ctx
  <2>2. t \notin Passed' \cup At("fence")'
    BY <2>1 DEF Control, ControlTypes, Passed, Live, At
  <2> QED
    BY <2>1, <2>2, TaskFrame
<1>2. CASE TaskFence(t)
  <2>1. /\ Frame /\ Others /\ tpc[t] = "fence"
        /\ tpc' = [tpc EXCEPT ![t] = IF num_threads = 0 THEN "none" ELSE "enter2"]
    BY <1>2 DEF TaskFence, rast, scenes, ctx
  <2>2. t \in At("fence")
    BY <2>1 DEF At
  <2> QED
    BY <2>1, <2>2, TaskFrame
<1>3. CASE ThreadWork(t)
  <2>1. PICK p \in {"exited", "begin", "enter1"} : tpc' = [tpc EXCEPT ![t] = p]
    BY <1>3 DEF ThreadWork
  <2>2. Frame /\ Others /\ tpc[t] = "ready"
    BY <1>3 DEF ThreadWork, rast, scenes, ctx
  <2>3. t \notin Passed' \cup At("fence")'
    BY <2>1 DEF Control, ControlTypes, Passed, Live, At
  <2> QED
    BY <2>1, <2>2, <2>3, TaskFrame
<1>4. CASE ThreadBarriers(t)
  <2>1. Frame /\ Others
    BY <1>4 DEF ThreadBarriers, BarrierWait, BarrierLeave, rast, scenes, ctx
  <2>2. CASE BarrierWait(t, "enter1", "wait1", "scene") \/ BarrierLeave(t, "wait1", "scene")
    <3>1. PICK p \in {"wait1", "scene"} : tpc' = [tpc EXCEPT ![t] = p]
      BY <2>2 DEF BarrierWait, BarrierLeave
    <3>2. t \notin Passed' \cup At("fence")'
      BY <3>1 DEF Control, ControlTypes, Passed, Live, At
    <3>3. tpc[t] # "draw"
      BY <2>2 DEF BarrierWait, BarrierLeave
    <3> QED
      BY <2>1, <3>1, <3>2, <3>3, TaskFrame
  <2>3. CASE \/ BarrierWait(t, "enter2", "wait2", AfterBarrier2(t))
             \/ BarrierLeave(t, "wait2", AfterBarrier2(t))
    <3>1. PICK p \in {"wait2", "end", "done"} : tpc' = [tpc EXCEPT ![t] = p]
      BY <2>3 DEF BarrierWait, BarrierLeave, AfterBarrier2
    <3>2. tpc[t] \in {"enter2", "wait2"} /\ tpc'[t] = p
      BY <2>3, <3>1 DEF BarrierWait, BarrierLeave, Control, ControlTypes
    <3>3. t \in Passed' \cup At("fence")' => t \in Passed
      BY <2>1, <3>2 DEF Passed, Live, At
    <3> QED
      BY <2>1, <3>1, <3>2, <3>3, TaskFrame
  <2> QED
    BY <1>4, <2>2, <2>3 DEF ThreadBarriers
<1>5. CASE ThreadDone(t)
  <2>1. Frame /\ Others /\ tpc[t] = "done" /\ tpc' = [tpc EXCEPT ![t] = "ready"]
    BY <1>5 DEF ThreadDone, rast, scenes, ctx, Control, ControlTypes
  <2>2. t \in Passed
    <3>1. t \in Live /\ num_threads > 0
      BY <2>1, EnderWhere
    <3> QED
      BY <2>1, <3>1 DEF Passed
  <2> QED
    BY <2>1, <2>2, TaskFrame
<1> QED
  BY <1>1, <1>2, <1>3, <1>4, <1>5, TaskDrawScenes, TaskNextBinScenes, ThreadBeginScenes,
     ThreadEndScenes DEF TaskStep

\* The other steps of the contexts.
LEMMA ContextScenes ==
  ASSUME Control, Scenes, NEW c \in Contexts, ContextStep(c) \/ ContextCall(c)
  PROVE  Scenes'
<1> DEFINE Frame == UNCHANGED <<num_threads, curr_scene, tpc, tbin, tiles, bins, curr, binned,
                                drawn>>
           Elsewhere == \A d \in Contexts \ {c} : cpc'[d] = cpc[d]
<1>1. CASE LockRast(c)
  <2>1. /\ Frame /\ UNCHANGED <<work_done, full_scenes>> /\ rast_mutex' = c
        /\ cpc[c] = "lock" /\ cpc' = [cpc EXCEPT ![c] = "queue"]
    BY <1>1 DEF LockRast, pool, rast, scenes
  <2>2. Elsewhere /\ cpc'[c] = "queue"
    BY <2>1 DEF Control, ControlTypes
  <2>3. \A d \in Contexts : (Waiting(d)' => Waiting(d)) /\ ~Ended(d)'
    BY <2>1, <2>2 DEF Waiting, Ended
  <2> QED
    BY <2>1, <2>3, ContextFrame
<1>2. CASE QueueScene(c)
  <2>1. /\ Frame /\ UNCHANGED <<work_done, rast_mutex>> /\ cpc[c] = "queue"
        /\ full_scenes' = Append(full_scenes, c) /\ cpc' = [cpc EXCEPT ![c] = "signal"]
    BY <1>2 DEF QueueScene, pool, scenes
  <2>2. rast_mutex = c /\ full_scenes = <<>>
    BY <2>1 DEF Control, MutexInv, RastInv, HolderInv, Idle
  <2>3. Elsewhere /\ cpc'[c] = "signal" /\ full_scenes' = <<c>>
    BY <2>1, <2>2 DEF Control, ControlTypes
  <2>4. \A d \in Contexts : (Waiting(d)' => Waiting(d)) /\ ~Ended(d)'
    BY <2>1, <2>2, <2>3 DEF Waiting, Ended
  <2> QED
    BY <2>1, <2>4, ContextFrame
<1>3. CASE SignalReady(c)
  <2>1. Frame /\ UNCHANGED <<work_done, rast_mutex, full_scenes>> /\ cpc[c] = "signal"
    BY <1>3 DEF SignalReady, rast, scenes
  <2>2. Elsewhere /\ cpc'[c] \in {"signal", "finish"}
    BY <1>3, <2>1 DEF SignalReady, Control, ControlTypes
  <2>3. \A d \in Contexts : (Waiting(d)' => Waiting(d)) /\ (Ended(d)' => Ended(d))
    BY <2>1, <2>2 DEF Waiting, Ended
  <2> QED
    BY <2>1, <2>3, ContextFrame
<1>4. CASE WaitDone(c)
  <2>1. /\ Frame /\ UNCHANGED <<rast_mutex, full_scenes, cpc>>
        /\ work_done' = [work_done EXCEPT ![next[c]] = @ - 1]
        /\ cpc[c] = "finish" /\ work_done[next[c]] > 0 /\ next[c] < num_threads
    BY <1>4 DEF WaitDone, LoopLimit, rast, scenes
  <2>2. next[c] \in Live /\ rast_mutex = c /\ ~exit_flag
    BY <2>1, LiveFacts, ThreadsAssumption DEF Control, ControlTypes, MutexInv, RastInv
  <2>3. work_done[next[c]] = 1
    <3>1. next[c] \in Tasks /\ work_done[next[c]] # 0
      BY <2>1, <2>2 DEF Control, ControlTypes, Live
    <3>2. After(next[c])
      BY <2>2, <3>1, EnderWhere
    <3> QED
      BY <3>1, <3>2 DEF After
  <2>4. \A t \in Tasks : work_done'[t] # 0 => work_done'[t] = work_done[t]
    BY <2>1, <2>3 DEF Control, ControlTypes
  <2>5. \A d \in Contexts : (Waiting(d)' => Waiting(d)) /\ (Ended(d)' => Ended(d))
    BY <2>1 DEF Waiting, Ended
  <2> QED
    BY <2>1, <2>4, <2>5, ContextFrame
<1>5. CASE FinishReturns(c)
  <2>1. /\ Frame /\ UNCHANGED <<work_done, full_scenes>> /\ rast_mutex' = NoContext
        /\ cpc[c] = "finish" /\ cpc' = [cpc EXCEPT ![c] = "end"]
    BY <1>5 DEF FinishReturns, pool, rast, scenes
  <2>2. Elsewhere /\ cpc'[c] = "end"
    BY <2>1 DEF Control, ControlTypes
  <2>3. \A d \in Contexts : (Waiting(d)' => Waiting(d)) /\ ~Ended(d)'
    BY <2>1, <2>2, NamesAssumption DEF Waiting, Ended
  <2> QED
    BY <2>1, <2>3, ContextFrame
<1>6. CASE RasterizeScene(c) \/ FenceWaited(c) \/ FlushHandle(c) \/ FenceFinish(c)
           \/ DestroyContext(c)
  <2>1. /\ Frame /\ UNCHANGED <<work_done, rast_mutex, full_scenes>>
    BY <1>6 DEF RasterizeScene, FenceWaited, FlushHandle, FenceFinish, DestroyContext, pool,
                rast, scenes, ctx
  <2>2. \A d \in Contexts :
          /\ cpc'[d] \in {"binning", "lock", "queue"} <=> cpc[d] \in {"binning", "lock", "queue"}
          /\ cpc'[d] = "queue" <=> cpc[d] = "queue"
    BY <1>6 DEF RasterizeScene, FenceWaited, FlushHandle, FenceFinish, DestroyContext, ctx,
                Control, ControlTypes
  <2>3. \A d \in Contexts : (Waiting(d)' => Waiting(d)) /\ (Ended(d)' => Ended(d))
    BY <2>1, <2>2 DEF Waiting, Ended
  <2> QED
    BY <2>1, <2>3, ContextFrame
<1> QED
  BY <1>1, <1>2, <1>3, <1>4, <1>5, <1>6, QueueInlineScenes, InlineEndScenes, EndSceneScenes,
     BeginSceneScenes DEF ContextStep, ContextCall

\* Every step keeps the invariant of the scenes.
LEMMA ScenesNext ==
  ASSUME Control, Scenes, [Next]_vars
  PROVE  Scenes'
<1>1. CASE ReleaseHandle \/ DestroyRast \/ FreeRast \/ UNCHANGED vars
  <2>1. UNCHANGED <<num_threads, curr_scene, tpc, tbin, tiles, bins, curr, binned, drawn,
                    work_done, full_scenes, rast_mutex, cpc>>
    BY <1>1 DEF ReleaseHandle, DestroyRast, FreeRast, vars, pool, rast, scenes, ctx
  <2>2. \A d \in Contexts : (Waiting(d)' => Waiting(d)) /\ (Ended(d)' => Ended(d))
    BY <2>1 DEF Waiting, Ended
  <2> QED
    BY <2>1, <2>2, ContextFrame
<1> QED
  BY <1>1, TaskScenes, ContextScenes DEF Next

\* There are no scenes, and no bins of them, to begin with.
LEMMA ScenesInit ==
  ASSUME Init
  PROVE  Scenes
<1>1. SceneTypes
  <2>1. NoTile \in Int \X Int
    BY DEF NoTile
  <2> QED
    BY <2>1 DEF Init, SceneTypes
<1>2. \A c \in Contexts : SceneInv(c)
  BY NamesAssumption DEF Init, SceneInv, Waiting, Ended
<1> QED
  BY <1>1, <1>2 DEF Scenes

\* The bins are as the iterator of the current scene says.
THEOREM RastScenes == Spec => [](Control /\ Scenes)
<1>1. Init => Control /\ Scenes
  BY ControlInit, ScenesInit
<1>2. Control /\ Scenes /\ [Next]_vars => Control' /\ Scenes'
  BY ControlNext, ScenesNext
<1> QED
  BY <1>1, <1>2, PTL DEF Spec

\* A thread past the first barrier finds a scene, the same one as all others, of the
\* context that holds rast_mutex, and with all its bins.
THEOREM RastSceneStable == Spec => []SceneStable
<1>1. ASSUME Control, Scenes
      PROVE  SceneStable
  <2> SUFFICES ASSUME NEW t \in Tasks, tpc[t] \in {"scene", "bins", "draw", "fence"}
               PROVE  /\ curr_scene # NoContext /\ curr_scene = rast_mutex
                      /\ bins[curr_scene] = binned[curr_scene]
                      /\ tpc[t] \in {"bins", "draw", "fence"} => tscene[t] = curr_scene
    BY DEF SceneStable
  <2>1. PICK c \in Contexts :
          /\ rast_mutex = c /\ curr_scene = c
          /\ tpc[t] \in {"bins", "draw", "fence"} => tscene[t] = c
    BY <1>1, DrawerWhere
  <2> QED
    BY <1>1, <2>1, NamesAssumption DEF Scenes, SceneInv
<1> QED
  BY <1>1, RastScenes, PTL

\* No bin is drawn twice, and none by two threads.
THEOREM RastBinOnce == Spec => []BinDrawnOnce
<1>1. ASSUME Control, Scenes
      PROVE  BinDrawnOnce
  <2> SUFFICES ASSUME NEW t \in Tasks, tpc[t] = "draw"
               PROVE  /\ tbin[t] \notin drawn[tscene[t]]
                      /\ \A u \in Tasks : (tpc[u] = "draw" /\ u # t) => tbin[u] # tbin[t]
    BY DEF BinDrawnOnce
  <2>1. PICK c \in Contexts : curr_scene = c /\ tscene[t] = c
    BY <1>1, DrawerWhere
  <2>2. Iterator(c)
    BY <1>1, <2>1 DEF Scenes, SceneInv
  <2> QED
    BY <2>1, <2>2 DEF Iterator, At
<1> QED
  BY <1>1, RastScenes, PTL

-----------------------------------------------------------------------------
(***************************************************************************)
(* The service                                                              *)
(***************************************************************************)

\* The refinement mapping of Service.
Phase == [c \in Contexts |->
            IF rast_mutex = c THEN "rendering"
            ELSE IF cpc[c] \in {"binning", "lock"} THEN "submitted" ELSE "idle"]
Todo == [c \in Contexts |-> binned[c] \ drawn[c]]

\* The rasterizer renders the scenes of its contexts one at a time, draws only bins of the
\* scene that is rendered, and gives rast_mutex back when all of them have been drawn.
THEOREM RastIsService == Spec => Service!Spec
<1>1. ASSUME Init
      PROVE  Service!Init
  BY <1>1, NamesAssumption DEF Init, Service!Init
<1>2. ASSUME Control, Scenes, [Next]_vars
      PROVE  Service!Next \/ UNCHANGED <<Phase, Todo>>
  <2> USE <1>2
  <2>1. ASSUME NEW c \in Contexts, BeginScene(c)
        PROVE  Service!Submit(c)
    <3>1. PICK b \in SUBSET AllTiles : binned' = [binned EXCEPT ![c] = b]
      BY <2>1 DEF BeginScene, AllTiles
    <3>2. /\ cpc[c] = "flushed" /\ drawn' = [drawn EXCEPT ![c] = {}]
          /\ cpc' = [cpc EXCEPT ![c] = "binning"] /\ rast_mutex' = rast_mutex
      BY <2>1 DEF BeginScene
    <3>3. rast_mutex # c
      BY <3>2 DEF Control, MutexInv
    <3>4. Phase[c] = "idle" /\ Phase' = [Phase EXCEPT ![c] = "submitted"]
      BY <3>2, <3>3 DEF Phase, Control, ControlTypes
    <3>5. Todo' = [Todo EXCEPT ![c] = b]
      BY <3>1, <3>2 DEF Todo, Scenes, SceneTypes
    <3> QED
      BY <3>4, <3>5 DEF Service!Submit, Phase, Todo
  <2>2. ASSUME NEW c \in Contexts, LockRast(c)
        PROVE  Service!Start(c)
    <3>1. /\ cpc[c] = "lock" /\ rast_mutex = NoContext /\ rast_mutex' = c
          /\ cpc' = [cpc EXCEPT ![c] = "queue"] /\ UNCHANGED <<binned, drawn>>
      BY <2>2 DEF LockRast, RastMutexFree, scenes
    <3>2. /\ Phase[c] = "submitted" /\ \A d \in Contexts : Phase[d] # "rendering"
          /\ Phase' = [Phase EXCEPT ![c] = "rendering"] /\ Todo' = Todo
      BY <3>1, NamesAssumption DEF Phase, Todo, Control, ControlTypes
    <3> QED
      BY <3>2 DEF Service!Start, Phase, Todo
  <2>3. ASSUME NEW t \in Tasks, TaskDraw(t)
        PROVE  Service!Next
    <3>1. PICK c \in Contexts : rast_mutex = c /\ curr_scene = c /\ tscene[t] = c
      BY <2>3, DrawerWhere DEF TaskDraw
    <3>2. /\ tpc[t] = "draw" /\ drawn' = [drawn EXCEPT ![c] = @ \cup {tbin[t]}]
          /\ UNCHANGED <<binned, cpc, rast_mutex>>
      BY <2>3, <3>1 DEF TaskDraw, ctx
    <3>3. tbin[t] \in Todo[c]
      BY <3>1, <3>2 DEF Scenes, SceneInv, Iterator, At, Todo
    <3>4. /\ Phase[c] = "rendering" /\ Phase' = Phase
          /\ Todo' = [Todo EXCEPT ![c] = @ \ {tbin[t]}]
      BY <3>1, <3>2 DEF Phase, Todo, Scenes, SceneTypes
    <3> QED
      BY <3>3, <3>4 DEF Service!Next, Service!Draw, Phase, Todo
  <2>4. ASSUME NEW c \in Contexts, FinishReturns(c) \/ InlineEnd(c)
        PROVE  Service!Finish(c)
    <3>1. /\ cpc[c] \in {"finish", "inline"} /\ cpc' = [cpc EXCEPT ![c] = "end"]
          /\ rast_mutex' = NoContext /\ UNCHANGED <<binned, drawn>>
      BY <2>4 DEF FinishReturns, InlineEnd, EndRasterization, scenes
    <3>2. rast_mutex = c
      BY <3>1 DEF Control, MutexInv
    <3>3. drawn[c] = binned[c]
      <4>1. CASE InlineEnd(c)
        BY <4>1, InlineEndScenes
      <4>2. CASE FinishReturns(c)
        <5>1. cpc[c] = "finish" /\ next[c] >= num_threads
          BY <4>2 DEF FinishReturns, LoopLimit
        <5>2. num_threads > 0 /\ Ending(c, num_threads)
          BY <3>2, <5>1, ThreadsAssumption DEF Control, ControlTypes, RastInv, HolderInv
        <5>3. full_scenes = <<>> /\ curr_scene = NoContext
          BY <5>2, LiveFacts DEF Control, Ending, Resting, Live
        <5> QED
          BY <3>2, <5>1, <5>3, NamesAssumption DEF Scenes, SceneInv, Ended
      <4> QED
        BY <2>4, <4>1, <4>2
    <3>4. /\ Phase[c] = "rendering" /\ Todo[c] = {}
          /\ Phase' = [Phase EXCEPT ![c] = "idle"] /\ Todo' = Todo
      BY <3>1, <3>2, <3>3, NamesAssumption DEF Phase, Todo, Control, ControlTypes
    <3> QED
      BY <3>4 DEF Service!Finish, Phase, Todo
  <2>5. ASSUME UNCHANGED <<binned, drawn, rast_mutex>>,
               \A c \in Contexts :
                 cpc'[c] \in {"binning", "lock"} <=> cpc[c] \in {"binning", "lock"}
        PROVE  UNCHANGED <<Phase, Todo>>
    BY <2>5 DEF Phase, Todo
  <2>6. ASSUME NEW t \in Tasks,
               \/ TaskScene(t) \/ TaskNextBin(t) \/ TaskFence(t) \/ ThreadWork(t)
               \/ ThreadBegin(t) \/ ThreadBarriers(t) \/ ThreadEnd(t) \/ ThreadDone(t)
        PROVE  UNCHANGED <<Phase, Todo>>
    <3>1. UNCHANGED <<binned, drawn, rast_mutex, cpc>>
      BY <2>6 DEF TaskScene, TaskNextBin, TaskFence, ThreadWork, ThreadBegin, RastBegin,
         ThreadBarriers, BarrierWait, BarrierLeave, ThreadEnd, EndRasterization, ThreadDone,
         scenes, ctx
    <3> QED
      BY <2>5, <3>1
  <2>7. ASSUME NEW c \in Contexts,
               \/ QueueInline(c) \/ QueueScene(c) \/ SignalReady(c) \/ WaitDone(c)
               \/ EndScene(c) \/ FenceWaited(c) \/ RasterizeScene(c) \/ FlushHandle(c)
               \/ FenceFinish(c) \/ DestroyContext(c)
        PROVE  UNCHANGED <<Phase, Todo>>
    <3>1. UNCHANGED <<binned, drawn, rast_mutex>>
      BY <2>7 DEF QueueInline, RastBegin, QueueScene, SignalReady, WaitDone, EndScene,
         EndRasterization, FenceWaited, RasterizeScene, FlushHandle, FenceFinish,
         DestroyContext, scenes, ctx
    <3>2. \A d \in Contexts :
            cpc'[d] \in {"binning", "lock"} <=> cpc[d] \in {"binning", "lock"}
      BY <2>7 DEF QueueInline, QueueScene, SignalReady, WaitDone, EndScene, FenceWaited,
         RasterizeScene, FlushHandle, FenceFinish, DestroyContext, ctx, Control, ControlTypes
    <3> QED
      BY <2>5, <3>1, <3>2
  <2>8. ASSUME ReleaseHandle \/ DestroyRast \/ FreeRast \/ UNCHANGED vars
        PROVE  UNCHANGED <<Phase, Todo>>
    <3>1. UNCHANGED <<binned, drawn, rast_mutex, cpc>>
      BY <2>8 DEF ReleaseHandle, DestroyRast, FreeRast, vars, scenes, ctx
    <3> QED
      BY <2>5, <3>1
  <2> QED
    BY <2>1, <2>2, <2>3, <2>4, <2>6, <2>7, <2>8
    DEF Next, TaskStep, ContextStep, ContextCall, Service!Next
<1> QED
  BY <1>1, <1>2, RastScenes, PTL DEF Spec, Service!Spec, Phase, Todo

-----------------------------------------------------------------------------
(***************************************************************************)
(* The fences                                                               *)
(***************************************************************************)

\* The pointers to a fence can be counted.
LEMMA HoldersFacts ==
  ASSUME NEW g, NEW f
  PROVE  /\ IsFiniteSet(Holders(g, f)) /\ Cardinality(Holders(g, f)) \in Nat
         /\ Cardinality(Holders(g, f)) = 0 => \A c \in Contexts : g[c] # f
<1>1. IsFiniteSet(Holders(g, f))
  BY ContextsAssumption, FS_Subset DEF Holders
<1>2. Cardinality(Holders(g, f)) \in Nat
  BY <1>1, FS_CardinalityType
<1>3. Cardinality(Holders(g, f)) = 0 => Holders(g, f) = {}
  BY <1>1, FS_EmptySet
<1> QED
  BY <1>1, <1>2, <1>3 DEF Holders

\* A pointer to fences is set, and counted.
LEMMA SceneFenceSet ==
  ASSUME FenceTypes, RefsExact, NEW c \in Contexts, NEW v,
         scene_fence'[c] = v, \A d \in Contexts \ {c} : scene_fence'[d] = scene_fence[d],
         \A f \in Fences : refs'[f] = refs[f] + (IF f = v /\ scene_fence[c] # v THEN 1 ELSE 0)
                                              - (IF f = scene_fence[c] /\ scene_fence[c] # v THEN 1 ELSE 0),
         UNCHANGED <<last_fence, handle>>
  PROVE  RefsExact'
<1> SUFFICES ASSUME NEW f \in Fences
             PROVE  refs'[f] = Cardinality(Holders(scene_fence', f)) + Cardinality(Holders(last_fence, f))
                               + (IF handle = f THEN 1 ELSE 0)
  BY DEF RefsExact
<1>1. /\ IsFiniteSet(Holders(scene_fence, f)) /\ Cardinality(Holders(scene_fence, f)) \in Nat
      /\ Cardinality(Holders(last_fence, f)) \in Nat
  BY HoldersFacts
<1>2. Cardinality(Holders(scene_fence', f)) =
        Cardinality(Holders(scene_fence, f)) + (IF f = v /\ scene_fence[c] # v THEN 1 ELSE 0)
                                    - (IF f = scene_fence[c] /\ scene_fence[c] # v THEN 1 ELSE 0)
  <2>1. c \in Holders(scene_fence, f) <=> scene_fence[c] = f
    BY DEF Holders
  <2>2. CASE v = f
    <3>1. Holders(scene_fence', f) = Holders(scene_fence, f) \cup {c}
      BY <2>2 DEF Holders
    <3>2. Cardinality(Holders(scene_fence', f)) =
             IF c \in Holders(scene_fence, f) THEN Cardinality(Holders(scene_fence, f))
             ELSE Cardinality(Holders(scene_fence, f)) + 1
      BY <1>1, <3>1, FS_AddElement
    <3> QED
      BY <1>1, <2>1, <2>2, <3>2
  <2>3. CASE v # f
    <3>1. Holders(scene_fence', f) = Holders(scene_fence, f) \ {c}
      BY <2>3 DEF Holders
    <3>2. Cardinality(Holders(scene_fence', f)) =
             IF c \in Holders(scene_fence, f) THEN Cardinality(Holders(scene_fence, f)) - 1
             ELSE Cardinality(Holders(scene_fence, f))
      BY <1>1, <3>1, FS_RemoveElement
    <3> QED
      BY <1>1, <2>1, <2>3, <3>2
  <2> QED
    BY <2>2, <2>3
<1>3. /\ refs'[f] = refs[f] + (IF f = v /\ scene_fence[c] # v THEN 1 ELSE 0)
                            - (IF f = scene_fence[c] /\ scene_fence[c] # v THEN 1 ELSE 0)
      /\ refs[f] = Cardinality(Holders(scene_fence, f)) + Cardinality(Holders(last_fence, f))
                   + (IF handle = f THEN 1 ELSE 0)
  BY DEF RefsExact
<1> QED
  BY <1>1, <1>2, <1>3

\* lp_fence_reference on a context's last fence keeps the counts exact.
LEMMA LastFenceSet ==
  ASSUME FenceTypes, RefsExact, NEW c \in Contexts, NEW v,
         last_fence'[c] = v, \A d \in Contexts \ {c} : last_fence'[d] = last_fence[d],
         \A f \in Fences : refs'[f] = refs[f] + (IF f = v /\ last_fence[c] # v THEN 1 ELSE 0)
                                              - (IF f = last_fence[c] /\ last_fence[c] # v THEN 1 ELSE 0),
         UNCHANGED <<scene_fence, handle>>
  PROVE  RefsExact'
<1> SUFFICES ASSUME NEW f \in Fences
             PROVE  refs'[f] = Cardinality(Holders(scene_fence, f)) + Cardinality(Holders(last_fence', f))
                               + (IF handle = f THEN 1 ELSE 0)
  BY DEF RefsExact
<1>1. /\ IsFiniteSet(Holders(last_fence, f)) /\ Cardinality(Holders(scene_fence, f)) \in Nat
      /\ Cardinality(Holders(last_fence, f)) \in Nat
  BY HoldersFacts
<1>2. Cardinality(Holders(last_fence', f)) =
        Cardinality(Holders(last_fence, f)) + (IF f = v /\ last_fence[c] # v THEN 1 ELSE 0)
                                    - (IF f = last_fence[c] /\ last_fence[c] # v THEN 1 ELSE 0)
  <2>1. c \in Holders(last_fence, f) <=> last_fence[c] = f
    BY DEF Holders
  <2>2. CASE v = f
    <3>1. Holders(last_fence', f) = Holders(last_fence, f) \cup {c}
      BY <2>2 DEF Holders
    <3>2. Cardinality(Holders(last_fence', f)) =
             IF c \in Holders(last_fence, f) THEN Cardinality(Holders(last_fence, f))
             ELSE Cardinality(Holders(last_fence, f)) + 1
      BY <1>1, <3>1, FS_AddElement
    <3> QED
      BY <1>1, <2>1, <2>2, <3>2
  <2>3. CASE v # f
    <3>1. Holders(last_fence', f) = Holders(last_fence, f) \ {c}
      BY <2>3 DEF Holders
    <3>2. Cardinality(Holders(last_fence', f)) =
             IF c \in Holders(last_fence, f) THEN Cardinality(Holders(last_fence, f)) - 1
             ELSE Cardinality(Holders(last_fence, f))
      BY <1>1, <3>1, FS_RemoveElement
    <3> QED
      BY <1>1, <2>1, <2>3, <3>2
  <2> QED
    BY <2>2, <2>3
<1>3. /\ refs'[f] = refs[f] + (IF f = v /\ last_fence[c] # v THEN 1 ELSE 0)
                            - (IF f = last_fence[c] /\ last_fence[c] # v THEN 1 ELSE 0)
      /\ refs[f] = Cardinality(Holders(scene_fence, f)) + Cardinality(Holders(last_fence, f))
                   + (IF handle = f THEN 1 ELSE 0)
  BY DEF RefsExact
<1> QED
  BY <1>1, <1>2, <1>3

\* lp_fence_reference on the application's handle keeps the counts exact.
LEMMA HandleSet ==
  ASSUME FenceTypes, RefsExact, NEW v \in Fences \cup {NoFence}, handle' = v,
         \A f \in Fences : refs'[f] = refs[f] + (IF f = v /\ handle # v THEN 1 ELSE 0)
                                              - (IF f = handle /\ handle # v THEN 1 ELSE 0),
         UNCHANGED <<scene_fence, last_fence>>
  PROVE  RefsExact'
<1> SUFFICES ASSUME NEW f \in Fences
             PROVE  refs'[f] = Cardinality(Holders(scene_fence, f))
                               + Cardinality(Holders(last_fence, f))
                               + (IF handle' = f THEN 1 ELSE 0)
  BY DEF RefsExact
<1>2. Cardinality(Holders(scene_fence, f)) \in Nat /\ Cardinality(Holders(last_fence, f)) \in Nat
  BY HoldersFacts
<1> QED
  BY <1>2 DEF RefsExact

\* Nobody knows a fence without references.
LEMMA FreeFence ==
  ASSUME FenceTypes, RefsExact, NEW f \in Fences, refs[f] = 0
  PROVE  handle # f /\ \A c \in Contexts : scene_fence[c] # f /\ last_fence[c] # f
BY HoldersFacts DEF RefsExact

\* A step that touches no fence, and by which no scene is begun or ended.
LEMMA FenceFrame ==
  ASSUME FencesInv, UNCHANGED <<fences, num_threads>>,
         \A c \in Contexts :
           /\ InHand(c)' <=> InHand(c)
           /\ InHand(c) => Signals(c)' = Signals(c) /\ (cpc'[c] = "binning" <=> cpc[c] = "binning")
  PROVE  FencesInv'
<1>1. UNCHANGED <<scene_fence, last_fence, handle, refs, rank, count, issued>>
  BY DEF fences
<1>2. FenceTypes' /\ RefsExact' /\ PastHandle' /\ NoneTooOften'
  BY <1>1 DEF FencesInv, FenceTypes, RefsExact, PastHandle, NoneTooOften, Past, Signalled, Holders
<1>3. ASSUME NEW c \in Contexts
      PROVE  SceneFence(c)'
  <2>1. SceneFence(c)
    BY DEF FencesInv
  <2> QED
    BY <1>1, <2>1 DEF SceneFence, SceneRank
<1>4. ASSUME NEW c \in Contexts
      PROVE  PastFence(c)'
  BY <1>1 DEF FencesInv, PastFence, Past, Signalled
<1> QED
  BY <1>2, <1>3, <1>4 DEF FencesInv

\* A step of a task that leaves rasterize_scene alone, or does not leave it.
LEMMA PassedFrame ==
  ASSUME Control, NEW t \in Tasks, NEW p, tpc' = [tpc EXCEPT ![t] = p],
         \A u \in Tasks \ {t} : work_done'[u] = work_done[u], num_threads' = num_threads,
         t \in Passed' <=> t \in Passed
  PROVE  Passed' = Passed
<1>1. \A u \in Tasks \ {t} : tpc'[u] = tpc[u]
  BY DEF Control, ControlTypes
<1>2. Passed \subseteq Tasks /\ Passed' \subseteq Tasks
  BY TasksFacts DEF Passed, Live
<1>3. \A u \in Tasks \ {t} : u \in Passed' <=> u \in Passed
  BY <1>1 DEF Passed, Live
<1> QED
  BY <1>2, <1>3

\* ... as far as the fences see it.
LEMMA TaskFenceFrame ==
  ASSUME Control, FencesInv, NEW t \in Tasks, NEW p, tpc' = [tpc EXCEPT ![t] = p],
         \A u \in Tasks \ {t} : work_done'[u] = work_done[u],
         t \in Passed' <=> t \in Passed,
         UNCHANGED <<fences, num_threads, full_scenes, curr_scene, cpc>>
  PROVE  FencesInv'
<1>1. Passed' = Passed
  BY PassedFrame
<1>2. \A c \in Contexts : (InHand(c)' <=> InHand(c)) /\ Signals(c)' = Signals(c)
  BY <1>1 DEF InHand, Waiting, Signals
<1> QED
  BY <1>2, FenceFrame

\* A task signals the fence of the scene when it leaves rasterize_scene.
LEMMA TaskFenceFences ==
  ASSUME Control, FencesInv, NEW t \in Tasks, TaskFence(t)
  PROVE  FencesInv'
<1>1. PICK c \in Contexts :
        /\ curr_scene = c /\ tscene[t] = c
        /\ \/ t = 0 /\ cpc[c] = "inline" /\ num_threads = 0
           \/ t \in Live /\ cpc[c] = "finish" /\ num_threads > 0
  BY DrawerWhere DEF TaskFence
<1>2. InHand(c) /\ scene_fence[c] # NoFence /\ SceneFence(c)
  BY <1>1 DEF InHand, FencesInv, SceneFence
<1>3. PICK f \in Fences : f = scene_fence[c]
  BY <1>2 DEF FencesInv, FenceTypes
<1>4. /\ tpc[t] = "fence" /\ count' = [count EXCEPT ![f] = @ + 1]
      /\ tpc' = [tpc EXCEPT ![t] = IF num_threads = 0 THEN "none" ELSE "enter2"]
      /\ UNCHANGED <<work_done, num_threads, full_scenes, curr_scene, cpc, scene_fence,
                     last_fence, handle, refs, rank, issued>>
  BY <1>1, <1>2, <1>3 DEF TaskFence, rast, ctx
<1>5. /\ tpc'[t] = (IF num_threads = 0 THEN "none" ELSE "enter2")
      /\ \A u \in Tasks \ {t} : tpc'[u] = tpc[u]
      /\ count'[f] = count[f] + 1 /\ \A g \in Fences \ {f} : count'[g] = count[g]
      /\ count[f] \in Nat
  BY <1>4 DEF Control, ControlTypes, FencesInv, FenceTypes
<1> DEFINE W == IF num_threads = 0 THEN {0} ELSE Live
<1>6. /\ IsFiniteSet(W) /\ Cardinality(W) <= SceneRank(c) /\ Cardinality(W) \in Nat
      /\ SceneRank(c) \in Nat
  <2>1. CASE num_threads = 0
    <3>1. IsFiniteSet({0}) /\ Cardinality({0}) = 1
      BY FS_Singleton
    <3> QED
      BY <2>1, <3>1, ThreadsAssumption DEF SceneRank
  <2>2. CASE num_threads # 0
    BY <2>2, LiveFacts, ThreadsAssumption DEF SceneRank, Control, ControlTypes
  <2> QED
    BY <2>1, <2>2
<1>7. t \in W /\ t \notin Passed /\ Passed \subseteq W
  BY <1>1, <1>4, TasksFacts DEF Passed, Live
<1>8. Passed' = Passed \cup {t}
  <2>1. Passed' \subseteq Tasks /\ Passed \subseteq Tasks
    BY TasksFacts DEF Passed, Live
  <2>2. t \in Passed'
    BY <1>1, <1>4, <1>5, TasksFacts DEF Passed, Live
  <2>3. \A u \in Tasks \ {t} : u \in Passed' <=> u \in Passed
    BY <1>4, <1>5 DEF Passed, Live
  <2> QED
    BY <2>1, <2>2, <2>3
<1>9. /\ Cardinality(Passed') = Cardinality(Passed) + 1 /\ Cardinality(Passed') <= SceneRank(c)
      /\ Cardinality(Passed) \in Nat
  <2>1. IsFiniteSet(Passed) /\ Cardinality(Passed) \in Nat
    BY <1>6, <1>7, FS_Subset, FS_CardinalityType
  <2>2. Cardinality(Passed') = Cardinality(Passed) + 1
    BY <1>7, <1>8, <2>1, FS_AddElement
  <2>3. Cardinality(Passed') <= Cardinality(W)
    BY <1>6, <1>7, <1>8, FS_Subset
  <2> QED
    BY <1>6, <2>1, <2>2, <2>3
<1>10. count[f] = Cardinality(Passed) /\ rank[f] = SceneRank(c)
  BY <1>1, <1>2, <1>3 DEF SceneFence, Signals
<1>11. FenceTypes' /\ RefsExact'
  BY <1>4 DEF FencesInv, FenceTypes, RefsExact, Holders
<1>12. NoneTooOften'
  BY <1>4, <1>5, <1>9, <1>10 DEF FencesInv, NoneTooOften
<1>13. ASSUME NEW g \in Fences, g # f, Past(g)
       PROVE  Past(g)'
  BY <1>4, <1>5, <1>13 DEF Past, Signalled
<1>14. PastHandle'
  BY <1>2, <1>3, <1>4, <1>13 DEF PastHandle, SceneFence, FencesInv, FenceTypes
<1>15. ASSUME NEW d \in Contexts
       PROVE  PastFence(d)'
  <2>1. PastFence(d) /\ last_fence[d] \in Fences \cup {NoFence}
    BY DEF FencesInv, FenceTypes
  <2>2. d # c => last_fence[d] # f
    BY <1>2, <1>3 DEF SceneFence
  <2> QED
    BY <1>3, <1>4, <1>13, <2>1, <2>2 DEF PastFence
<1>16. SceneFence(c)'
  BY <1>1, <1>2, <1>3, <1>4, <1>5, <1>9, <1>10 DEF SceneFence, InHand, Waiting, Signals, SceneRank
<1>17. ASSUME NEW d \in Contexts \ {c}
       PROVE  SceneFence(d)'
  <2>1. SceneFence(d) /\ scene_fence[d] # f /\ scene_fence[d] \in Fences \cup {NoFence}
    BY <1>2, <1>3 DEF FencesInv, FenceTypes, SceneFence
  <2>2. (InHand(d)' <=> InHand(d)) /\ Signals(d)' = Signals(d)
    BY <1>1, <1>4 DEF InHand, Waiting, Signals
  <2> QED
    BY <1>4, <1>5, <2>1, <2>2 DEF SceneFence, SceneRank
<1> QED
  BY <1>11, <1>12, <1>14, <1>15, <1>16, <1>17 DEF FencesInv

\* A scene is begun when none of the tasks has left rasterize_scene.
LEMMA BeginFences ==
  ASSUME Control, FencesInv, NEW c \in Contexts, Waiting(c), cpc[c] # "binning",
         cpc'[c] # "binning", curr_scene = NoContext, curr_scene' = c, Passed' = {},
         \A d \in Contexts \ {c} : cpc'[d] = cpc[d] /\ full_scenes # <<d>> /\ full_scenes' # <<d>>,
         UNCHANGED <<fences, num_threads>>
  PROVE  FencesInv'
<1>1. InHand(c) /\ InHand(c)' /\ Signals(c) = 0 /\ Signals(c)' = 0
  BY NamesAssumption, FS_EmptySet DEF InHand, Signals
<1>2. \A d \in Contexts \ {c} : (InHand(d)' <=> InHand(d)) /\ Signals(d)' = Signals(d)
  BY NamesAssumption DEF InHand, Waiting, Signals
<1> QED
  BY <1>1, <1>2, FenceFrame

\* A thread that begins a scene does nothing to fences.
LEMMA ThreadBeginFences ==
  ASSUME Control, FencesInv, NEW t \in Tasks, ThreadBegin(t)
  PROVE  FencesInv'
<1>1. PICK c \in Contexts, n \in Nat :
        Woken(c, n) /\ Gathering(c, n) /\ t \in Live /\ t < n /\ Before(t)
  BY GathererWhere DEF ThreadBegin
<1>2. t = 0 /\ full_scenes = <<c>> /\ curr_scene = NoContext /\ tpc[t] = "begin"
  BY <1>1 DEF ThreadBegin, Before, Gathering
<1>3. /\ tpc' = [tpc EXCEPT ![t] = "enter1"] /\ full_scenes' = <<>> /\ curr_scene' = c
      /\ UNCHANGED <<work_done, num_threads, cpc, fences>>
  BY <1>2 DEF ThreadBegin, RastBegin, ctx
<1>4. \A u \in Tasks : /\ tpc'[u] \notin {"enter2", "wait2", "end", "done"}
                       /\ tpc'[u] = "ready" => work_done'[u] = 0
  BY <1>1, <1>3 DEF Gathering, Before, Resting, Zero, Live, Control, ControlTypes
<1>5. num_threads # 0 /\ cpc[c] # "binning" /\ Waiting(c)
  BY <1>1, <1>2 DEF Woken, Waiting
<1>6. Passed' = {}
  BY <1>3, <1>4, <1>5 DEF Passed, Live
<1>7. \A d \in Contexts \ {c} : full_scenes # <<d>> /\ full_scenes' # <<d>>
  BY <1>2, <1>3
<1> QED
  BY <1>2, <1>3, <1>5, <1>6, <1>7, BeginFences

\* Neither does a caller that rasterizes by itself.
LEMMA QueueInlineFences ==
  ASSUME Control, FencesInv, NEW c \in Contexts, QueueInline(c)
  PROVE  FencesInv'
<1>1. /\ cpc[c] = "queue" /\ num_threads = 0 /\ curr_scene' = c
      /\ tpc' = [tpc EXCEPT ![0] = "scene"] /\ cpc' = [cpc EXCEPT ![c] = "inline"]
      /\ UNCHANGED <<num_threads, full_scenes, fences>>
  BY DEF QueueInline, RastBegin
<1>2. full_scenes = <<>> /\ curr_scene = NoContext
  BY <1>1 DEF Control, MutexInv, RastInv, HolderInv, Idle
<1>3. /\ tpc'[0] = "scene" /\ cpc'[c] = "inline"
      /\ \A d \in Contexts \ {c} : cpc'[d] = cpc[d]
  BY <1>1, TasksFacts DEF Control, ControlTypes
<1>4. Passed' = {} /\ Waiting(c)
  BY <1>1, <1>3 DEF Passed, Waiting
<1> QED
  BY <1>1, <1>2, <1>3, <1>4, BeginFences

\* A scene is ended: its fence has been signalled by all tasks.
LEMMA EndFences ==
  ASSUME Control, FencesInv, NEW c \in Contexts, curr_scene = c, curr_scene' = NoContext,
         cpc[c] # "binning", EndRasterization(c), ~Waiting(c)',
         num_threads = ScreenThreads => Cardinality(Passed) = SceneRank(c),
         \A d \in Contexts \ {c} : cpc'[d] = cpc[d] /\ full_scenes # <<d>> /\ full_scenes' # <<d>>,
         num_threads' = num_threads
  PROVE  FencesInv'
<1>1. /\ scene_fence' = [scene_fence EXCEPT ![c] = NoFence]
      /\ refs' = Reference(scene_fence[c], NoFence)
      /\ UNCHANGED <<last_fence, handle, rank, count, issued>>
  BY DEF EndRasterization
<1>2. scene_fence'[c] = NoFence /\ \A d \in Contexts \ {c} : scene_fence'[d] = scene_fence[d]
  BY <1>1 DEF FencesInv, FenceTypes
<1>3. SceneFence(c) /\ scene_fence[c] # NoFence /\ scene_fence[c] \in Fences
  BY DEF FencesInv, FenceTypes, SceneFence, InHand
<1>4. FenceTypes'
  <2>1. refs' \in [Fences -> Int]
    BY <1>1 DEF FencesInv, FenceTypes, Reference
  <2> QED
    BY <1>1, <2>1 DEF FencesInv, FenceTypes
<1>5. RefsExact'
  <2>1. \A f \in Fences :
          refs'[f] = refs[f] + (IF f = NoFence /\ scene_fence[c] # NoFence THEN 1 ELSE 0)
                             - (IF f = scene_fence[c] /\ scene_fence[c] # NoFence THEN 1 ELSE 0)
    BY <1>1 DEF Reference
  <2> QED
    BY <1>1, <1>2, <2>1, SceneFenceSet DEF FencesInv
<1>6. \A f : Past(f) => Past(f)'
  BY <1>1 DEF Past, Signalled
<1>7. PastHandle' /\ NoneTooOften'
  BY <1>1, <1>6 DEF FencesInv, PastHandle, NoneTooOften
<1>8. Past(scene_fence[c]) /\ last_fence[c] = scene_fence[c]
  BY <1>3 DEF SceneFence, Signals, Past, Signalled
<1>9. PastFence(c)'
  BY <1>1, <1>6, <1>8 DEF PastFence
<1>10. SceneFence(c)'
  BY <1>2, NamesAssumption DEF SceneFence, InHand
<1>11. ASSUME NEW d \in Contexts \ {c}
       PROVE  SceneFence(d)' /\ PastFence(d)'
  <2>1. SceneFence(d) /\ PastFence(d)
    BY DEF FencesInv
  <2>2. (InHand(d)' <=> InHand(d)) /\ Signals(d)' = Signals(d)
    BY NamesAssumption DEF InHand, Waiting, Signals
  <2>3. SceneFence(d)'
    BY <1>1, <1>2, <2>1, <2>2 DEF SceneFence, SceneRank
  <2> QED
    BY <1>1, <1>2, <1>6, <2>1, <2>3 DEF PastFence
<1> QED
  BY <1>4, <1>5, <1>7, <1>9, <1>10, <1>11 DEF FencesInv

\* lp_scene_end_rasterization by a thread gives up the scene's reference to its fence.
LEMMA ThreadEndFences ==
  ASSUME Control, FencesInv, NEW t \in Tasks, ThreadEnd(t)
  PROVE  FencesInv'
<1>1. PICK c \in Contexts :
        /\ rast_mutex = c /\ cpc[c] = "finish" /\ num_threads > 0 /\ Ending(c, next[c])
        /\ t \in Live /\ ~(t < next[c]) /\ next[c] \in 0 .. num_threads /\ After(t)
  BY EnderWhere DEF ThreadEnd
<1>2. t = 0 /\ curr_scene = c /\ full_scenes = <<>>
  BY <1>1 DEF ThreadEnd, After, Ending
<1>3. /\ EndRasterization(c) /\ curr_scene' = NoContext
      /\ UNCHANGED <<num_threads, full_scenes, cpc>>
  BY <1>2 DEF ThreadEnd, ctx
<1>4. \A u \in Live : ~(u < next[c])
  BY <1>1, <1>2, TasksFacts DEF Live
<1>5. Passed = Live
  BY <1>1, <1>4 DEF Passed, Ending, After
<1>6. num_threads = ScreenThreads => Cardinality(Passed) = SceneRank(c)
  BY <1>1, <1>5, LiveFacts DEF Control, SceneRank
<1>7. ~Waiting(c)' /\ \A d \in Contexts \ {c} : full_scenes # <<d>> /\ full_scenes' # <<d>>
  BY <1>1, <1>2, <1>3 DEF Waiting
<1> QED
  BY <1>1, <1>2, <1>3, <1>6, <1>7, EndFences

\* So does the one by a caller that rasterizes by itself.
LEMMA InlineEndFences ==
  ASSUME Control, FencesInv, NEW c \in Contexts, InlineEnd(c)
  PROVE  FencesInv'
<1>1. /\ cpc[c] = "inline" /\ tpc[0] = "none" /\ EndRasterization(c) /\ curr_scene' = NoContext
      /\ cpc' = [cpc EXCEPT ![c] = "end"] /\ UNCHANGED <<num_threads, full_scenes>>
  BY DEF InlineEnd
<1>2. num_threads = 0 /\ curr_scene = c /\ full_scenes = <<>>
  BY <1>1 DEF Control, MutexInv, RastInv, HolderInv, Inline
<1>3. Passed = {0}
  BY <1>1, <1>2 DEF Passed
<1>4. num_threads = ScreenThreads => Cardinality(Passed) = SceneRank(c)
  BY <1>2, <1>3, FS_Singleton DEF SceneRank
<1>5. cpc'[c] = "end" /\ \A d \in Contexts \ {c} : cpc'[d] = cpc[d]
  BY <1>1 DEF Control, ControlTypes
<1>6. ~Waiting(c)' /\ \A d \in Contexts \ {c} : full_scenes # <<d>> /\ full_scenes' # <<d>>
  BY <1>1, <1>2, <1>5 DEF Waiting
<1> QED
  BY <1>1, <1>2, <1>4, <1>5, <1>6, EndFences

\* The second lp_scene_end_rasterization finds no fence.
LEMMA EndSceneFences ==
  ASSUME Control, FencesInv, NEW c \in Contexts, EndScene(c)
  PROVE  FencesInv'
<1>1. /\ cpc[c] = "end" /\ EndRasterization(c) /\ cpc' = [cpc EXCEPT ![c] = "flushed"]
      /\ UNCHANGED <<tpc, work_done, num_threads, full_scenes, curr_scene>>
  BY DEF EndScene, pool, rast
<1>2. rast_mutex # c /\ full_scenes # <<c>> /\ curr_scene # c
  BY <1>1, SceneOfHolder DEF Control, MutexInv
<1>3. cpc'[c] = "flushed" /\ \A d \in Contexts \ {c} : cpc'[d] = cpc[d]
  BY <1>1 DEF Control, ControlTypes
<1>4. ~InHand(c) /\ ~InHand(c)'
  BY <1>1, <1>2, <1>3 DEF InHand, Waiting
<1>5. scene_fence[c] = NoFence
  BY <1>4 DEF FencesInv, SceneFence
<1>6. UNCHANGED fences
  <2>1. scene_fence' = scene_fence
    BY <1>1, <1>5 DEF EndRasterization, FencesInv, FenceTypes
  <2>2. refs' = refs
    <3>1. refs' = [f \in Fences |-> refs[f] + 0 - 0]
      BY <1>1, <1>5 DEF EndRasterization, Reference
    <3> QED
      BY <3>1 DEF FencesInv, FenceTypes
  <2> QED
    BY <1>1, <2>1, <2>2 DEF EndRasterization, fences
<1>7. Passed' = Passed
  BY <1>1 DEF Passed, Live
<1>8. \A d \in Contexts \ {c} : (InHand(d)' <=> InHand(d)) /\ Signals(d)' = Signals(d)
  BY <1>1, <1>3, <1>7 DEF InHand, Waiting, Signals
<1> QED
  BY <1>1, <1>3, <1>4, <1>6, <1>8, FenceFrame

\* A new scene gets a fence that nobody knows.
LEMMA BeginSceneFences ==
  ASSUME Control, FencesInv, NEW c \in Contexts, BeginScene(c)
  PROVE  FencesInv'
<1>1. PICK f \in Fences : FenceCreate(f, SceneRank(c)) /\ scene_fence' = [scene_fence EXCEPT ![c] = f]
  BY DEF BeginScene
<1>2. /\ cpc[c] = "flushed" /\ scene_fence[c] = NoFence /\ cpc' = [cpc EXCEPT ![c] = "binning"]
      /\ UNCHANGED <<tpc, work_done, num_threads, full_scenes, curr_scene, last_fence, handle>>
  BY DEF BeginScene, pool, rast
<1>3. /\ refs[f] = 0 /\ refs' = [refs EXCEPT ![f] = 1]
      /\ rank' = [rank EXCEPT ![f] = SceneRank(c)] /\ count' = [count EXCEPT ![f] = 0]
      /\ issued' = issued \ {f}
  BY <1>1 DEF FenceCreate
<1>4. /\ rank'[f] = SceneRank(c) /\ count'[f] = 0
      /\ \A g \in Fences \ {f} : rank'[g] = rank[g] /\ count'[g] = count[g]
      /\ scene_fence'[c] = f /\ \A d \in Contexts \ {c} : scene_fence'[d] = scene_fence[d]
      /\ cpc'[c] = "binning" /\ \A d \in Contexts \ {c} : cpc'[d] = cpc[d]
      /\ SceneRank(c) \in Nat /\ f # NoFence
  BY <1>1, <1>2, <1>3, ThreadsAssumption, NamesAssumption
  DEF FencesInv, FenceTypes, Control, ControlTypes, SceneRank
<1>5. handle # f /\ \A d \in Contexts : scene_fence[d] # f /\ last_fence[d] # f
  BY <1>3, FreeFence DEF FencesInv
<1>6. FenceTypes'
  BY <1>1, <1>2, <1>3, <1>4 DEF FencesInv, FenceTypes
<1>7. RefsExact'
  <2>1. \A g \in Fences : refs'[g] = refs[g] + (IF g = f /\ scene_fence[c] # f THEN 1 ELSE 0)
                                 - (IF g = scene_fence[c] /\ scene_fence[c] # f THEN 1 ELSE 0)
    BY <1>2, <1>3, NamesAssumption DEF FencesInv, FenceTypes
  <2> QED
    BY <1>2, <1>4, <2>1, SceneFenceSet DEF FencesInv
<1>8. \A g \in Fences \ {f} : Past(g) => Past(g)'
  BY <1>2, <1>3, <1>4 DEF Past, Signalled
<1>9. PastHandle' /\ NoneTooOften'
  BY <1>2, <1>4, <1>5, <1>8 DEF FencesInv, PastHandle, NoneTooOften, FenceTypes
<1>10. rast_mutex # c /\ full_scenes # <<c>> /\ curr_scene # c
  BY <1>2, SceneOfHolder DEF Control, MutexInv
<1>11. SceneFence(c)'
  <2>1. InHand(c)' /\ Signals(c)' = 0
    BY <1>2, <1>4, <1>10 DEF InHand, Waiting, Signals
  <2> QED
    BY <1>2, <1>4, <1>5, <2>1 DEF SceneFence, SceneRank
<1>12. PastFence(c)'
  BY <1>2, <1>5, <1>8 DEF FencesInv, FenceTypes, PastFence
<1>13. Passed' = Passed
  BY <1>2 DEF Passed, Live
<1>14. ASSUME NEW d \in Contexts \ {c}
       PROVE  SceneFence(d)' /\ PastFence(d)'
  <2>1. SceneFence(d) /\ PastFence(d)
    BY DEF FencesInv
  <2>2. (InHand(d)' <=> InHand(d)) /\ Signals(d)' = Signals(d)
    BY <1>2, <1>4, <1>13 DEF InHand, Waiting, Signals
  <2>3. scene_fence[d] \in (Fences \ {f}) \cup {NoFence} /\ last_fence[d] \in (Fences \ {f}) \cup {NoFence}
    BY <1>5 DEF FencesInv, FenceTypes
  <2>4. SceneFence(d)'
    BY <1>2, <1>3, <1>4, <1>5, <2>1, <2>2, <2>3 DEF SceneFence, SceneRank
  <2> QED
    BY <1>2, <1>4, <1>8, <2>1, <2>3, <2>4 DEF PastFence
<1> QED
  BY <1>6, <1>7, <1>9, <1>11, <1>12, <1>14 DEF FencesInv

\* The fence of a scene on its way to the rasterizer is the last one of its context.
LEMMA RasterizeSceneFences ==
  ASSUME Control, FencesInv, NEW c \in Contexts, RasterizeScene(c)
  PROVE  FencesInv'
<1>1. /\ cpc[c] = "binning" /\ last_fence' = [last_fence EXCEPT ![c] = scene_fence[c]]
      /\ refs' = Reference(last_fence[c], scene_fence[c])
      /\ issued' = issued \cup ({scene_fence[c]} \ {NoFence})
      /\ cpc' = [cpc EXCEPT ![c] = "lock"]
      /\ UNCHANGED <<tpc, work_done, num_threads, full_scenes, curr_scene, scene_fence, handle,
                     rank, count>>
  BY DEF RasterizeScene, Issue, pool, rast
<1>2. InHand(c) /\ SceneFence(c) /\ scene_fence[c] # NoFence /\ scene_fence[c] \in Fences
  BY <1>1 DEF InHand, Waiting, FencesInv, FenceTypes, SceneFence
<1>3. /\ last_fence'[c] = scene_fence[c]
      /\ \A d \in Contexts \ {c} : last_fence'[d] = last_fence[d]
      /\ cpc'[c] = "lock" /\ \A d \in Contexts \ {c} : cpc'[d] = cpc[d]
  BY <1>1 DEF FencesInv, FenceTypes, Control, ControlTypes
<1>4. FenceTypes'
  <2>1. refs' \in [Fences -> Int]
    BY <1>1 DEF FencesInv, FenceTypes, Reference
  <2> QED
    BY <1>1, <1>2, <2>1 DEF FencesInv, FenceTypes
<1>5. RefsExact'
  <2>1. \A f \in Fences :
          refs'[f] = refs[f] + (IF f = scene_fence[c] /\ last_fence[c] # scene_fence[c] THEN 1 ELSE 0)
                             - (IF f = last_fence[c] /\ last_fence[c] # scene_fence[c] THEN 1 ELSE 0)
    BY <1>1 DEF Reference
  <2> QED
    BY <1>1, <1>3, <2>1, LastFenceSet DEF FencesInv
<1>6. \A f \in Fences : Past(f) => Past(f)'
  BY <1>1 DEF Past, Signalled
<1>7. PastHandle' /\ NoneTooOften'
  BY <1>1, <1>6 DEF FencesInv, FenceTypes, PastHandle, NoneTooOften
<1>8. Passed' = Passed
  BY <1>1 DEF Passed, Live
<1>9. \A d \in Contexts : (InHand(d)' <=> InHand(d)) /\ Signals(d)' = Signals(d)
  BY <1>1, <1>3, <1>8 DEF InHand, Waiting, Signals
<1>10. SceneFence(c)' /\ PastFence(c)'
  BY <1>1, <1>2, <1>3, <1>9 DEF SceneFence, SceneRank, PastFence
<1>11. ASSUME NEW d \in Contexts \ {c}
       PROVE  SceneFence(d)' /\ PastFence(d)'
  <2>1. SceneFence(d) /\ PastFence(d) /\ scene_fence[d] # scene_fence[c]
    BY <1>2 DEF FencesInv, SceneFence
  <2>2. SceneFence(d)'
    BY <1>1, <1>2, <1>3, <1>9, <2>1 DEF SceneFence, SceneRank
  <2> QED
    BY <1>1, <1>3, <1>6, <2>1, <2>2 DEF PastFence, FencesInv, FenceTypes
<1> QED
  BY <1>4, <1>5, <1>7, <1>10, <1>11 DEF FencesInv

\* The application gets a fence, and gives it back.
LEMMA HandleFences ==
  ASSUME Control, FencesInv, ReleaseHandle \/ \E c \in Contexts : FlushHandle(c)
  PROVE  FencesInv'
<1>1. /\ UNCHANGED <<tpc, work_done, num_threads, full_scenes, curr_scene, cpc, scene_fence,
                     last_fence>>
  BY DEF FlushHandle, ReleaseHandle, pool, rast, ctx
<1>2. Passed' = Passed
  BY <1>1 DEF Passed, Live
<1>3. \A d \in Contexts : (InHand(d)' <=> InHand(d)) /\ Signals(d)' = Signals(d)
  BY <1>1, <1>2 DEF InHand, Waiting, Signals
<1>4. ASSUME NEW h \in Fences \cup {NoFence}, handle' = h, refs' = Reference(handle, h),
             UNCHANGED <<rank, count, issued>>, h # NoFence => Past(h),
             \A d \in Contexts : scene_fence[d] # NoFence => scene_fence[d] # h
      PROVE  FencesInv'
  <2>1. FenceTypes'
    <3>1. refs' \in [Fences -> Int]
      BY <1>4 DEF FencesInv, FenceTypes, Reference
    <3> QED
      BY <1>1, <1>4, <3>1 DEF FencesInv, FenceTypes
  <2>2. RefsExact'
    <3>1. \A f \in Fences : refs'[f] = refs[f] + (IF f = h /\ handle # h THEN 1 ELSE 0)
                                               - (IF f = handle /\ handle # h THEN 1 ELSE 0)
      BY <1>4 DEF Reference
    <3> QED
      BY <1>1, <1>4, <3>1, HandleSet DEF FencesInv
  <2>3. \A f : Past(f) => Past(f)'
    BY <1>1, <1>4 DEF Past, Signalled
  <2>4. PastHandle' /\ NoneTooOften'
    BY <1>4, <2>3 DEF FencesInv, PastHandle, NoneTooOften
  <2>5. ASSUME NEW d \in Contexts
        PROVE  SceneFence(d)' /\ PastFence(d)'
    <3>1. SceneFence(d) /\ PastFence(d)
      BY DEF FencesInv
    <3>2. SceneFence(d)'
      BY <1>1, <1>3, <1>4, <3>1 DEF SceneFence, SceneRank
    <3> QED
      BY <1>1, <2>3, <3>1, <3>2 DEF PastFence
  <2> QED
    BY <2>1, <2>2, <2>4, <2>5 DEF FencesInv
<1>5. CASE ReleaseHandle
  BY <1>4, <1>5 DEF ReleaseHandle
<1>6. ASSUME NEW c \in Contexts, FlushHandle(c)
      PROVE  FencesInv'
  <2>1. cpc[c] = "flushed" /\ handle = NoFence
    BY <1>6 DEF FlushHandle
  <2>2. ~InHand(c)
    BY <2>1, SceneOfHolder DEF InHand, Waiting, Control, MutexInv
  <2>3. scene_fence[c] = NoFence
    BY <2>2 DEF FencesInv, SceneFence
  <2>4. CASE /\ last_fence[c] # NoFence /\ handle' = last_fence[c]
             /\ refs' = Reference(NoFence, last_fence[c]) /\ UNCHANGED <<rank, count, issued>>
    <3>1. Past(last_fence[c]) /\ last_fence[c] \in Fences
      BY <2>3, <2>4 DEF FencesInv, FenceTypes, PastFence
    <3>2. \A d \in Contexts : scene_fence[d] # NoFence => scene_fence[d] # last_fence[c]
      BY <2>3 DEF FencesInv, SceneFence
    <3> QED
      BY <1>4, <2>1, <2>4, <3>1, <3>2
  <2>5. ASSUME NEW f \in Fences, FenceCreate(f, 0), handle' = f
        PROVE  FencesInv'
    <3>1. /\ refs[f] = 0 /\ refs' = [refs EXCEPT ![f] = 1]
          /\ rank' = [rank EXCEPT ![f] = 0] /\ count' = [count EXCEPT ![f] = 0]
          /\ issued' = issued \ {f}
      BY <2>5 DEF FenceCreate
    <3>2. handle # f /\ \A d \in Contexts : scene_fence[d] # f /\ last_fence[d] # f
      BY <3>1, FreeFence DEF FencesInv
    <3>3. /\ rank'[f] = 0 /\ count'[f] = 0
          /\ \A g \in Fences \ {f} : rank'[g] = rank[g] /\ count'[g] = count[g]
      BY <3>1 DEF FencesInv, FenceTypes
    <3>4. FenceTypes'
      BY <1>1, <2>5, <3>1 DEF FencesInv, FenceTypes
    <3>5. RefsExact'
      <4>1. \A g \in Fences : refs'[g] = refs[g] + (IF g = f /\ handle # f THEN 1 ELSE 0)
                                                 - (IF g = handle /\ handle # f THEN 1 ELSE 0)
        BY <2>1, <3>1, NamesAssumption DEF FencesInv, FenceTypes
      <4> QED
        BY <1>1, <2>5, <4>1, HandleSet DEF FencesInv
    <3>6. \A g \in Fences \ {f} : Past(g) => Past(g)'
      BY <1>1, <3>1, <3>3 DEF Past, Signalled
    <3>7. PastHandle' /\ NoneTooOften'
      BY <2>5, <3>3 DEF FencesInv, PastHandle, NoneTooOften, Past, Signalled
    <3>8. ASSUME NEW d \in Contexts
          PROVE  SceneFence(d)' /\ PastFence(d)'
      <4>1. /\ SceneFence(d) /\ PastFence(d) /\ scene_fence[d] \in (Fences \ {f}) \cup {NoFence}
            /\ last_fence[d] \in (Fences \ {f}) \cup {NoFence}
        BY <3>2 DEF FencesInv, FenceTypes
      <4>2. SceneFence(d)'
        BY <1>1, <1>3, <2>5, <3>1, <3>3, <4>1 DEF SceneFence, SceneRank
      <4> QED
        BY <1>1, <3>6, <4>1, <4>2 DEF PastFence
    <3> QED
      BY <3>4, <3>5, <3>7, <3>8 DEF FencesInv
  <2> QED
    BY <1>6, <2>4, <2>5 DEF FlushHandle
<1> QED
  BY <1>5, <1>6

\* A context goes, and with it its pointer to its last fence.
LEMMA DestroyContextFences ==
  ASSUME Control, FencesInv, NEW c \in Contexts, DestroyContext(c)
  PROVE  FencesInv'
<1>1. /\ cpc[c] = "flushed" /\ last_fence' = [last_fence EXCEPT ![c] = NoFence]
      /\ refs' = Reference(last_fence[c], NoFence) /\ cpc' = [cpc EXCEPT ![c] = "gone"]
      /\ UNCHANGED <<tpc, work_done, num_threads, full_scenes, curr_scene, scene_fence, handle,
                     rank, count, issued>>
  BY DEF DestroyContext, pool, rast
<1>2. ~InHand(c)
  BY <1>1, SceneOfHolder DEF InHand, Waiting, Control, MutexInv
<1>3. scene_fence[c] = NoFence
  BY <1>2 DEF FencesInv, SceneFence
<1>4. /\ last_fence'[c] = NoFence
      /\ \A d \in Contexts \ {c} : last_fence'[d] = last_fence[d]
      /\ cpc'[c] = "gone" /\ \A d \in Contexts \ {c} : cpc'[d] = cpc[d]
  BY <1>1 DEF FencesInv, FenceTypes, Control, ControlTypes
<1>5. FenceTypes'
  <2>1. refs' \in [Fences -> Int]
    BY <1>1 DEF FencesInv, FenceTypes, Reference
  <2> QED
    BY <1>1, <2>1 DEF FencesInv, FenceTypes
<1>6. RefsExact'
  <2>1. \A f \in Fences :
          refs'[f] = refs[f] + (IF f = NoFence /\ last_fence[c] # NoFence THEN 1 ELSE 0)
                             - (IF f = last_fence[c] /\ last_fence[c] # NoFence THEN 1 ELSE 0)
    BY <1>1 DEF Reference
  <2> QED
    BY <1>1, <1>4, <2>1, LastFenceSet DEF FencesInv
<1>7. \A f : Past(f) => Past(f)'
  BY <1>1 DEF Past, Signalled
<1>8. PastHandle' /\ NoneTooOften'
  BY <1>1, <1>7 DEF FencesInv, PastHandle, NoneTooOften
<1>9. Passed' = Passed
  BY <1>1 DEF Passed, Live
<1>10. \A d \in Contexts : (InHand(d)' <=> InHand(d)) /\ Signals(d)' = Signals(d)
  BY <1>1, <1>4, <1>9 DEF InHand, Waiting, Signals
<1>11. ASSUME NEW d \in Contexts
       PROVE  SceneFence(d)' /\ PastFence(d)'
  <2>1. SceneFence(d) /\ PastFence(d)
    BY DEF FencesInv
  <2>2. SceneFence(d)'
    BY <1>1, <1>3, <1>4, <1>10, <2>1 DEF SceneFence, SceneRank
  <2> QED
    BY <1>1, <1>4, <1>7, <2>1, <2>2 DEF PastFence
<1> QED
  BY <1>5, <1>6, <1>8, <1>11 DEF FencesInv

\* The other steps of the tasks.
LEMMA TaskFences ==
  ASSUME Control, FencesInv, NEW t \in Tasks, TaskStep(t)
  PROVE  FencesInv'
<1> DEFINE Frame == UNCHANGED <<fences, num_threads, full_scenes, curr_scene, cpc>>
           Others == \A u \in Tasks \ {t} : work_done'[u] = work_done[u]
<1>1. CASE TaskScene(t) \/ TaskNextBin(t) \/ TaskDraw(t)
  <2>1. tpc[t] \in {"scene", "bins", "draw"}
    BY <1>1 DEF TaskScene, TaskNextBin, TaskDraw
  <2>2. Frame /\ Others
    BY <1>1 DEF TaskScene, TaskNextBin, TaskDraw, rast, ctx
  <2>3. PICK p \in {"bins", "draw", "fence"} : tpc' = [tpc EXCEPT ![t] = p]
    <3>1. CASE TaskScene(t) \/ TaskDraw(t)
      BY <3>1 DEF TaskScene, TaskDraw
    <3>2. CASE TaskNextBin(t)
      <4>1. tpc' \in {[tpc EXCEPT ![t] = "bins"], [tpc EXCEPT ![t] = "draw"],
                      [tpc EXCEPT ![t] = "fence"]}
        BY <3>2 DEF TaskNextBin, Control, ControlTypes
      <4> QED
        BY <4>1
    <3> QED
      BY <1>1, <3>1, <3>2
  <2>4. t \notin Passed /\ t \notin Passed'
    BY <2>1, <2>2, <2>3 DEF Passed, Live, Control, ControlTypes
  <2> QED
    BY <2>2, <2>3, <2>4, TaskFenceFrame
<1>2. CASE ThreadWork(t)
  <2>1. PICK p \in {"exited", "begin", "enter1"} : tpc' = [tpc EXCEPT ![t] = p]
    BY <1>2 DEF ThreadWork
  <2>2. Frame /\ Others /\ tpc[t] = "ready" /\ work_ready[t] > 0
    BY <1>2 DEF ThreadWork, rast, ctx
  <2>3. work_done[t] = 0
    <3>1. CASE exit_flag
      BY <2>2, <3>1 DEF Control, RastInv, Exiting, Live
    <3>2. CASE ~exit_flag
      <4>1. work_ready[t] # 0
        BY <2>2 DEF Control, ControlTypes
      <4> QED
        BY <3>2, <4>1, GathererWhere DEF Before
    <3> QED
      BY <3>1, <3>2
  <2>4. t \notin Passed /\ t \notin Passed'
    BY <2>1, <2>2, <2>3 DEF Passed, Live, Control, ControlTypes
  <2> QED
    BY <2>1, <2>2, <2>4, TaskFenceFrame
<1>3. CASE ThreadBarriers(t)
  <2>1. Frame /\ Others
    BY <1>3 DEF ThreadBarriers, BarrierWait, BarrierLeave, rast, ctx
  <2>2. CASE BarrierWait(t, "enter1", "wait1", "scene") \/ BarrierLeave(t, "wait1", "scene")
    <3>1. PICK p \in {"wait1", "scene"} : tpc' = [tpc EXCEPT ![t] = p]
      BY <2>2 DEF BarrierWait, BarrierLeave
    <3>2. tpc[t] \in {"enter1", "wait1"}
      BY <2>2 DEF BarrierWait, BarrierLeave
    <3>3. t \notin Passed /\ t \notin Passed'
      BY <2>1, <3>1, <3>2 DEF Passed, Live, Control, ControlTypes
    <3> QED
      BY <2>1, <3>1, <3>3, TaskFenceFrame
  <2>3. CASE \/ BarrierWait(t, "enter2", "wait2", AfterBarrier2(t))
             \/ BarrierLeave(t, "wait2", AfterBarrier2(t))
    <3>1. PICK p \in {"wait2", "end", "done"} : tpc' = [tpc EXCEPT ![t] = p]
      BY <2>3 DEF BarrierWait, BarrierLeave, AfterBarrier2
    <3>2. tpc[t] \in {"enter2", "wait2"} /\ tpc'[t] = p
      BY <2>3, <3>1 DEF BarrierWait, BarrierLeave, Control, ControlTypes
    <3>3. t \in Passed' <=> t \in Passed
      BY <2>1, <3>2 DEF Passed, Live
    <3> QED
      BY <2>1, <3>1, <3>3, TaskFenceFrame
  <2> QED
    BY <1>3, <2>2, <2>3 DEF ThreadBarriers
<1>4. CASE ThreadDone(t)
  <2>1. /\ Frame /\ Others /\ tpc[t] = "done" /\ tpc' = [tpc EXCEPT ![t] = "ready"]
        /\ work_done' = [work_done EXCEPT ![t] = @ + 1]
    BY <1>4 DEF ThreadDone, rast, ctx, Control, ControlTypes
  <2>2. t \in Live /\ num_threads > 0 /\ After(t)
    BY <2>1, EnderWhere
  <2>3. tpc'[t] = "ready" /\ work_done'[t] = 1
    BY <2>1, <2>2 DEF After, Control, ControlTypes
  <2>4. t \in Passed /\ t \in Passed'
    BY <2>1, <2>2, <2>3 DEF Passed, Live
  <2> QED
    BY <2>1, <2>4, TaskFenceFrame
<1> QED
  BY <1>1, <1>2, <1>3, <1>4, TaskFenceFences, ThreadBeginFences, ThreadEndFences DEF TaskStep

\* The other steps of the contexts.
LEMMA ContextFences ==
  ASSUME Control, FencesInv, NEW c \in Contexts, ContextStep(c) \/ ContextCall(c)
  PROVE  FencesInv'
<1> DEFINE Elsewhere == \A d \in Contexts \ {c} : cpc'[d] = cpc[d]
<1>1. ASSUME UNCHANGED <<fences, num_threads, curr_scene, tpc, work_done>>,
             \A d \in Contexts : /\ Waiting(d)' <=> Waiting(d)
                                 /\ cpc'[d] = "binning" <=> cpc[d] = "binning"
      PROVE  FencesInv'
  <2>1. Passed' = Passed
    BY <1>1 DEF Passed, Live
  <2>2. \A d \in Contexts : (InHand(d)' <=> InHand(d)) /\ Signals(d)' = Signals(d)
    BY <1>1, <2>1 DEF InHand, Signals
  <2> QED
    BY <1>1, <2>2, FenceFrame
<1>2. CASE LockRast(c)
  <2>1. /\ UNCHANGED <<fences, num_threads, curr_scene, tpc, work_done, full_scenes>>
        /\ cpc[c] = "lock" /\ cpc' = [cpc EXCEPT ![c] = "queue"]
    BY <1>2 DEF LockRast, pool, rast
  <2>2. Elsewhere /\ cpc'[c] = "queue"
    BY <2>1 DEF Control, ControlTypes
  <2> QED
    BY <1>1, <2>1, <2>2 DEF Waiting
<1>3. CASE QueueScene(c)
  <2>1. /\ UNCHANGED <<fences, num_threads, curr_scene, tpc, work_done>> /\ cpc[c] = "queue"
        /\ full_scenes' = Append(full_scenes, c) /\ cpc' = [cpc EXCEPT ![c] = "signal"]
    BY <1>3 DEF QueueScene, pool
  <2>2. full_scenes = <<>>
    BY <2>1 DEF Control, MutexInv, RastInv, HolderInv, Idle
  <2>3. Elsewhere /\ cpc'[c] = "signal" /\ full_scenes' = <<c>>
    BY <2>1, <2>2 DEF Control, ControlTypes
  <2>4. \A d \in Contexts : (Waiting(d)' <=> Waiting(d)) /\ (cpc'[d] = "binning" <=> cpc[d] = "binning")
    BY <2>1, <2>2, <2>3 DEF Waiting
  <2> QED
    BY <1>1, <2>1, <2>4
<1>4. CASE SignalReady(c)
  <2>1. /\ UNCHANGED <<fences, num_threads, curr_scene, tpc, work_done, full_scenes>>
        /\ cpc[c] = "signal"
    BY <1>4 DEF SignalReady, rast
  <2>2. Elsewhere /\ cpc'[c] \in {"signal", "finish"}
    BY <1>4, <2>1 DEF SignalReady, Control, ControlTypes
  <2>3. \A d \in Contexts : (Waiting(d)' <=> Waiting(d)) /\ (cpc'[d] = "binning" <=> cpc[d] = "binning")
    BY <2>1, <2>2 DEF Waiting
  <2> QED
    BY <1>1, <2>1, <2>3
\* Nobody has been waited for while the scene is not ended: thread 0 is the first.
<1>5. CASE WaitDone(c)
  <2>1. /\ UNCHANGED <<fences, num_threads, curr_scene, full_scenes, cpc>>
        /\ cpc[c] = "finish" /\ work_done[next[c]] > 0 /\ next[c] < num_threads
    BY <1>5 DEF WaitDone, LoopLimit, rast
  <2>2. next[c] \in Live /\ rast_mutex = c /\ ~exit_flag
    BY <2>1, LiveFacts, ThreadsAssumption DEF Control, ControlTypes, MutexInv, RastInv
  <2>3. next[c] \in Tasks /\ work_done[next[c]] # 0
    BY <2>1, <2>2 DEF Control, ControlTypes, Live
  <2>4. Ending(c, next[c]) /\ After(next[c]) /\ num_threads > 0
    BY <2>2, <2>3, EnderWhere
  <2>5. tpc[next[c]] = "ready"
    BY <2>3, <2>4 DEF After
  <2>6. tpc[0] = "ready"
    <3>1. CASE next[c] = 0
      BY <2>5, <3>1
    <3>2. CASE next[c] # 0
      <4>1. 0 \in Live /\ next[c] \in Nat
        BY <2>3, <2>4, LiveFacts, TasksFacts DEF Control
      <4> QED
        BY <2>4, <3>2, <4>1 DEF Ending, Resting
    <3> QED
      BY <3>1, <3>2
  <2>7. curr_scene = NoContext
    BY <2>4, <2>6 DEF Ending
  <2>8. \A d \in Contexts : (InHand(d)' <=> InHand(d)) /\ Signals(d)' = Signals(d)
    BY <2>1, <2>7, NamesAssumption DEF InHand, Waiting, Signals
  <2> QED
    BY <2>1, <2>8, FenceFrame
<1>6. CASE FinishReturns(c)
  <2>1. /\ UNCHANGED <<fences, num_threads, curr_scene, tpc, work_done, full_scenes>>
        /\ cpc[c] = "finish" /\ cpc' = [cpc EXCEPT ![c] = "end"]
    BY <1>6 DEF FinishReturns, pool, rast
  <2>2. Elsewhere /\ cpc'[c] = "end"
    BY <2>1 DEF Control, ControlTypes
  <2>3. \A d \in Contexts : (Waiting(d)' <=> Waiting(d)) /\ (cpc'[d] = "binning" <=> cpc[d] = "binning")
    BY <2>1, <2>2 DEF Waiting
  <2> QED
    BY <1>1, <2>1, <2>3
<1>7. CASE FenceWaited(c) \/ FenceFinish(c)
  <2>1. UNCHANGED <<fences, num_threads, curr_scene, tpc, work_done, full_scenes>>
    BY <1>7 DEF FenceWaited, FenceFinish, pool, rast
  <2>2. Elsewhere /\ cpc[c] \in {"flushed", "fence_wait", "fence_timedwait"}
        /\ cpc'[c] \in {"flushed", "fence_wait", "fence_timedwait"}
    BY <1>7 DEF FenceWaited, FenceFinish, Control, ControlTypes
  <2>3. \A d \in Contexts : (Waiting(d)' <=> Waiting(d)) /\ (cpc'[d] = "binning" <=> cpc[d] = "binning")
    BY <2>1, <2>2 DEF Waiting
  <2> QED
    BY <1>1, <2>1, <2>3
<1> QED
  BY <1>2, <1>3, <1>4, <1>5, <1>6, <1>7, QueueInlineFences, InlineEndFences, EndSceneFences,
     BeginSceneFences, RasterizeSceneFences, HandleFences, DestroyContextFences
  DEF ContextStep, ContextCall

\* Every step keeps the invariant of the fences.
LEMMA FencesNext ==
  ASSUME Control, FencesInv, [Next]_vars
  PROVE  FencesInv'
<1>1. CASE DestroyRast \/ FreeRast \/ UNCHANGED vars
  <2>1. UNCHANGED <<fences, num_threads, curr_scene, tpc, work_done, full_scenes, cpc>>
    BY <1>1 DEF DestroyRast, FreeRast, vars, pool, rast, ctx
  <2>2. Passed' = Passed
    BY <2>1 DEF Passed, Live
  <2>3. \A d \in Contexts : (InHand(d)' <=> InHand(d)) /\ Signals(d)' = Signals(d)
    BY <2>1, <2>2 DEF InHand, Waiting, Signals
  <2> QED
    BY <2>1, <2>3, FenceFrame
<1> QED
  BY <1>1, TaskFences, ContextFences, HandleFences DEF Next

\* No fence is allocated to begin with.
LEMMA FencesInit ==
  ASSUME Init
  PROVE  FencesInv
<1>1. FenceTypes /\ PastHandle /\ NoneTooOften
  BY DEF Init, FenceTypes, PastHandle, NoneTooOften
<1>2. RefsExact
  <2> SUFFICES ASSUME NEW f \in Fences
               PROVE  /\ Cardinality(Holders(scene_fence, f)) = 0
                      /\ Cardinality(Holders(last_fence, f)) = 0 /\ handle # f /\ refs[f] = 0
    BY DEF RefsExact
  <2>1. Holders(scene_fence, f) = {} /\ Holders(last_fence, f) = {} /\ handle # f /\ refs[f] = 0
    BY NamesAssumption DEF Init, Holders
  <2> QED
    BY <2>1, FS_EmptySet
<1>3. \A c \in Contexts : SceneFence(c) /\ PastFence(c)
  BY NamesAssumption DEF Init, SceneFence, PastFence, InHand, Waiting
<1> QED
  BY <1>1, <1>2, <1>3 DEF FencesInv

\* The three layers together are inductive.
THEOREM RastInvariant == Spec => [](Control /\ Scenes /\ FencesInv)
<1>1. Init => FencesInv
  BY FencesInit
<1>2. Control /\ FencesInv /\ [Next]_vars => FencesInv'
  BY FencesNext
<1> QED
  BY <1>1, <1>2, RastScenes, PTL DEF Spec

\* A fence is freed with the last pointer to it, and never signalled more often than
\* lp_fence_create was told.
THEOREM RastFences == Spec => []FencesExact
<1>1. FencesInv => FencesExact
  BY DEF FencesInv, RefsExact, NoneTooOften, FencesExact, Holders
<1> QED
  BY <1>1, RastInvariant, PTL

\* A fence that the application holds has been issued and, with all threads created,
\* signalled: lp_fence_wait never blocks.
THEOREM RastFencesSignalled == Spec => []VisibleFencesSignalled
<1>1. FencesInv => VisibleFencesSignalled
  BY DEF FencesInv, PastHandle, Past, VisibleFencesSignalled
<1> QED
  BY <1>1, RastInvariant, PTL

\* Every variable has its type, and the semaphores of the threads count to 1.
THEOREM RastTypes == Spec => []TypeOK
<1>1. ASSUME Control, Scenes, FencesInv
      PROVE  TypeOK
  <2> USE <1>1
  <2>1. work_ready \in [Tasks -> 0 .. 1] /\ work_done \in [Tasks -> 0 .. 1]
    <3> SUFFICES ASSUME NEW t \in Tasks
                 PROVE  work_ready[t] \in 0 .. 1 /\ work_done[t] \in 0 .. 1
      BY DEF Control, ControlTypes
    <3>1. CASE exit_flag
      BY <3>1 DEF Control, RastInv, Exiting, Zero
    <3>2. CASE ~exit_flag /\ work_ready[t] # 0
      BY <3>2, GathererWhere DEF Before
    <3>3. CASE ~exit_flag /\ work_done[t] # 0
      BY <3>3, EnderWhere DEF After
    <3> QED
      BY <3>1, <3>2, <3>3
  <2>2. full_scenes \in Seq(Contexts)
    <3>1. full_scenes = <<>> \/ \E c \in Contexts : full_scenes = <<c>>
      <4>1. CASE exit_flag
        BY <4>1 DEF Control, RastInv, Exiting
      <4>2. CASE ~exit_flag /\ rast_mutex = NoContext
        BY <4>2 DEF Control, RastInv, Idle
      <4>3. CASE ~exit_flag /\ rast_mutex \in Contexts
        BY <4>3 DEF Control, MutexInv, RastInv, HolderInv, Idle, Inline, Gathering, Drawing, Ending
      <4> QED
        BY <4>1, <4>2, <4>3 DEF Control, ControlTypes
    <3>2. CASE full_scenes = <<>>
      BY <3>2
    <3>3. ASSUME NEW c \in Contexts, full_scenes = <<c>>
          PROVE  full_scenes \in Seq(Contexts)
      BY <3>3
    <3> QED
      BY <3>1, <3>2, <3>3
  <2>3. waiters \in 0 .. ScreenThreads
    <3>1. num_threads \in 0 .. ScreenThreads /\ ScreenThreads \in Nat
      BY ThreadsAssumption DEF Control, ControlTypes
    <3>2. \A pc : At(pc) \subseteq Live => Cardinality(At(pc)) \in 0 .. num_threads
      <4> SUFFICES ASSUME NEW pc, At(pc) \subseteq Live
                   PROVE  Cardinality(At(pc)) \in 0 .. num_threads
        OBVIOUS
      <4>1. IsFiniteSet(Live) /\ Cardinality(Live) = num_threads
        BY LiveFacts DEF Control
      <4>2. IsFiniteSet(At(pc)) /\ Cardinality(At(pc)) <= num_threads
        BY <4>1, FS_Subset
      <4> QED
        BY <3>1, <4>2, FS_CardinalityType
    <3>3. waiters = 0 \/ \E pc \in {"wait1", "wait2"} : waiters = Cardinality(At(pc)) /\ At(pc) \subseteq Live
      <4>1. CASE exit_flag
        BY <4>1 DEF Control, RastInv, Exiting
      <4>2. CASE ~exit_flag /\ rast_mutex = NoContext
        BY <4>2 DEF Control, RastInv, Idle
      <4>3. CASE ~exit_flag /\ rast_mutex \in Contexts
        <5>1. \A c, n : Gathering(c, n) => waiters = Cardinality(At("wait1")) /\ At("wait1") \subseteq Live
          BY DEF Gathering, At
        <5>2. \A c : Drawing(c) => waiters = Cardinality(At("wait2")) /\ At("wait2") \subseteq Live
          BY DEF Drawing, At
        <5>3. \A c, n : Idle \/ Inline(c) \/ Ending(c, n) => waiters = 0
          BY DEF Idle, Inline, Ending
        <5> QED
          BY <4>3, <5>1, <5>2, <5>3 DEF Control, MutexInv, RastInv, HolderInv
      <4> QED
        BY <4>1, <4>2, <4>3 DEF Control, ControlTypes
    <3> QED
      BY <3>1, <3>2, <3>3
  <2>4. refs \in [Fences -> Nat]
    <3> SUFFICES ASSUME NEW f \in Fences
                 PROVE  refs[f] \in Nat
      BY DEF FencesInv, FenceTypes
    <3>1. /\ Cardinality(Holders(scene_fence, f)) \in Nat
          /\ Cardinality(Holders(last_fence, f)) \in Nat
      BY HoldersFacts
    <3> QED
      BY <3>1 DEF FencesInv, RefsExact
  <2> QED
    BY <2>1, <2>2, <2>3, <2>4
    DEF Control, ControlTypes, Scenes, SceneTypes, FencesInv, FenceTypes, TypeOK
<1> QED
  BY <1>1, RastInvariant, PTL
=============================================================================
