-------------------------- MODULE UtilQueueProofs --------------------------
(***************************************************************************)
(* Proofs about the job queue, for every number of clients, jobs, threads   *)
(* and slots.                                                               *)
(***************************************************************************)
EXTENDS UtilQueue, FiniteSetTheorems, TLAPS

\* A client blocked in util_queue_add_job, and one inside of util_queue_finish.
Blocked(c) == pc[c] \in {"space_wait", "space_woken"}
Dropping(c) == pc[c] \in {"drop_search", "drop_signal", "drop_wait"}
InFinish(c) ==
  pc[c] \in {"fin_add", "fin_wait"} \/ (Blocked(c) /\ arg[c] \in Barriers)

\* A worker that has taken a job and not finished with it.
Busy(w) == wpc[w] \in {"exec", "barrier", "signal", "cleanup"}

\* Who works on which job: busy workers, blocked and dropping clients have one,
\* the others have none.
HoldInv ==
  /\ \A w \in Workers :
       /\ Busy(w) => wjob[w] \in Tokens
       /\ ~Busy(w) => wjob[w] = NoJob
       /\ wpc[w] = "barrier" => wjob[w] \in Barriers
       /\ wpc[w] = "cleanup" => wjob[w] \in Jobs
  /\ \A c \in Clients :
       /\ Blocked(c) => arg[c] \in Tokens
       /\ Dropping(c) => arg[c] \in Jobs
       /\ ~Blocked(c) /\ ~Dropping(c) => arg[c] = NoJob

\* Who holds finish_lock, and what the holder's loop counter means: a finish
\* that is blocked in add_job is adding fences[lo].
LockInv ==
  \A c \in Clients :
    /\ (InFinish(c) \/ pc[c] \in {"join", "create"}) => finish_lock = c
    /\ InFinish(c) => bar_count = num_threads
    /\ (Blocked(c) /\ arg[c] \in Barriers) => arg[c] = lo /\ lo < num_threads

\* Threads are created where there are none.
CreateInv ==
  \A c \in Clients : pc[c] = "create" => \A w \in Workers : w >= lo => wpc[w] = "none"

\* The invariant every later proof starts from.
BaseInv == TypeOK /\ HoldInv /\ LockInv /\ CreateInv /\ DoomedAreJoined

-----------------------------------------------------------------------------
\* cnd_signal on has_queued_cond and on has_space_cond moves at most one thread.
LEMMA WakeWorker ==
  ASSUME ThreadsType, NEW g \in Notify(wpc, "wait", "loop")
  PROVE  /\ g \in [Workers -> WorkerPCs]
         /\ \A w \in Workers : g[w] = wpc[w] \/ (wpc[w] = "wait" /\ g[w] = "loop")
<1>1. wpc \in [Workers -> WorkerPCs] /\ "loop" \in WorkerPCs
  BY DEF ThreadsType, WorkerPCs
<1>q. QED
  BY <1>1 DEF Notify

\* The same for a producer that waits for space.
LEMMA WakeClient ==
  ASSUME ClientsType, NEW g \in Notify(pc, "space_wait", "space_woken")
  PROVE  /\ g \in [Clients -> ClientPCs]
         /\ \A c \in Clients :
              g[c] = pc[c] \/ (pc[c] = "space_wait" /\ g[c] = "space_woken")
<1>1. pc \in [Clients -> ClientPCs] /\ "space_woken" \in ClientPCs
  BY DEF ClientsType, ClientPCs
<1>q. QED
  BY <1>1 DEF Notify

\* cnd_broadcast on has_queued_cond moves every waiting worker.
LEMMA WakeAllWorkers ==
  ASSUME ThreadsType
  PROVE  /\ NotifyAll(wpc, "wait", "loop") \in [Workers -> WorkerPCs]
         /\ \A w \in Workers : NotifyAll(wpc, "wait", "loop")[w]
                              = IF wpc[w] = "wait" THEN "loop" ELSE wpc[w]
  BY DEF ThreadsType, NotifyAll, WorkerPCs

\* The step to the next ring index stays inside of the ring,
LEMMA NextIndex ==
  ASSUME NEW m \in Nat \ {0}, NEW x \in 0 .. m - 1
  PROVE  /\ (x + 1) % m \in 0 .. m - 1
         /\ (x + 1) % m = IF x + 1 < m THEN x + 1 ELSE 0
  OBVIOUS

\* and so does any number of steps smaller than the ring.
LEMMA RingIndex ==
  ASSUME NEW m \in Nat \ {0}, NEW r \in 0 .. m - 1, NEW i \in 0 .. m - 1
  PROVE  /\ (r + i) % m \in 0 .. m - 1
         /\ (r + i) % m = IF r + i < m THEN r + i ELSE r + i - m
  OBVIOUS

\* A job's size is a natural number.
LEMMA SizeNat == \A f : SizeOf(f) \in Nat
  BY SizeAssumption DEF SizeOf

\* Barrier jobs are told from client jobs and from a cleared slot.
LEMMA TokensDistinct ==
  /\ Jobs \cap Barriers = {}
  /\ NoJob \notin Tokens
  /\ Barriers \subseteq Tokens /\ Jobs \subseteq Tokens
  BY JobsAssumption, MaxThreadsAssumption DEF Tokens, Barriers

-----------------------------------------------------------------------------
(***************************************************************************)
(* What a call of util_queue_add_job does, whoever makes it                 *)
(***************************************************************************)

\* The job is stored: the caller goes on and the ring has one more job.
AddDone(c, f) == AddToSlot(c, f) \/ AddResized(c, f)

\* The new array and the new indices.
LEMMA AddDoneRing ==
  ASSUME RingType, NEW c, NEW f \in Tokens, AddDone(c, f)
  PROVE  RingType'
<1> USE MaxJobsAssumption, SizeNat DEF RingType, Slots
<1>1. CASE AddToSlot(c, f)
  <2>1. (write_idx + 1) % max_jobs \in 0 .. max_jobs - 1
    BY NextIndex
  <2>q. QED
    BY <1>1, <2>1 DEF AddToSlot, AddStore, SignalHasQueued, NextSlot
<1>2. CASE AddResized(c, f)
  <2> DEFINE m == max_jobs + ResizeStep
             grown == [i \in 0 .. m - 1 |->
                         IF i < max_jobs THEN jobs[(read_idx + i) % max_jobs]
                         ELSE NoJob]
  <2>1. \A i \in 0 .. max_jobs - 1 : (read_idx + i) % max_jobs \in 0 .. max_jobs - 1
    BY RingIndex
  <2>2. grown \in [0 .. m - 1 -> Tokens \cup {NoJob}]
    BY <2>1
  <2>3. m \in Nat \ {0} /\ max_jobs \in 0 .. m - 1
    OBVIOUS
  <2>4. (max_jobs + 1) % m \in 0 .. m - 1
    BY <2>3, NextIndex
  <2>5. AddStore(f, grown, max_jobs, m) /\ read_idx' = 0
    BY <1>2 DEF AddResized, ReadAfterResize
  <2>6. jobs' \in [0 .. m - 1 -> Tokens \cup {NoJob}]
    <3> HIDE DEF grown
    <3>q. QED
      BY <2>2, <2>5 DEF AddStore, SignalHasQueued, NextSlot
  <2>q. QED
    BY <2>3, <2>4, <2>5, <2>6 DEF AddStore, SignalHasQueued, NextSlot
<1>q. QED
  BY <1>1, <1>2 DEF AddDone

\* The rest of the state.
LEMMA AddDoneRest ==
  ASSUME ThreadsType, NEW c, NEW f, AddDone(c, f)
  PROVE  /\ wpc' \in [Workers -> WorkerPCs]
         /\ \A w \in Workers : wpc'[w] = wpc[w] \/ (wpc[w] = "wait" /\ wpc'[w] = "loop")
         /\ AddReturns(c, f)
<1>1. wpc' \in Notify(wpc, "wait", "loop") /\ AddReturns(c, f)
  BY DEF AddDone, AddToSlot, AddResized, ReadAfterResize, AddStore, SignalHasQueued, NextSlot
<1>q. QED
  BY <1>1, WakeWorker

\* The three ways a call of util_queue_add_job can go.
LEMMA AddJobCases ==
  ASSUME NEW c, NEW f, AddJob(c, f)
  PROVE  \/ UNCHANGED vars
         \/ /\ num_threads # 0
            /\ signalled' = signalled \ {f}
            /\ UNCHANGED <<num_threads, killed, finish_lock, hi, bar_count, before,
                           life, wjob>>
            /\ \/ AddDone(c, f)
               \/ AddBlocks(c, f)
  BY DEF AddJob, AddDone

\* The two ways it can go on after a wait.
LEMMA AddWokenCases ==
  ASSUME NEW c, AddWoken(c)
  PROVE  /\ pc[c] = "space_woken"
         /\ UNCHANGED <<num_threads, killed, finish_lock, hi, bar_count, before, life,
                        wjob, signalled>>
         /\ \/ AddDone(c, arg[c])
            \/ pc' = [pc EXCEPT ![c] = "space_wait"] /\ UNCHANGED <<ring, arg, lo, wpc>>
  BY DEF AddWoken, AddDone, Full

\* A job given to util_queue_add_job by a client or by util_queue_finish.
LEMMA ClientAddJob ==
  ASSUME NEW c \in Clients, ClientAdd(c)
  PROVE  /\ pc[c] = "idle" /\ ~closing
         /\ \E j \in Jobs : /\ AddJob(c, j)
                            /\ j \in signalled
                            /\ \A w \in Workers : wjob[w] # j
                            /\ \A d \in Clients : arg[d] # j
  BY DEF ClientAdd

\* And a barrier job given by util_queue_finish.
LEMMA FinishAddJob ==
  ASSUME ThreadsType, ClientsType, NEW c \in Clients, FinishAdd(c)
  PROVE  pc[c] = "fin_add" /\ lo < num_threads /\ lo \in Barriers /\ AddJob(c, lo)
  BY MaxThreadsAssumption DEF FinishAdd, ThreadsType, ClientsType, Barriers

-----------------------------------------------------------------------------
(***************************************************************************)
(* Type correctness                                                         *)
(***************************************************************************)


\* Flags stay Booleans.
LEMMA FlagsTypeStep == FlagsType /\ [Next]_vars => FlagsType'
<1> SUFFICES ASSUME FlagsType, [Next]_vars PROVE FlagsType'
  OBVIOUS
<1> USE DEF FlagsType, vars, ring, life, fin
<1>1. ASSUME NEW w \in Workers, WorkerSleep(w) PROVE FlagsType'
  BY <1>1 DEF WorkerSleep
<1>2. ASSUME NEW w \in Workers, WorkerTake(w) PROVE FlagsType'
  BY <1>2 DEF WorkerTake
<1>3. ASSUME NEW w \in Workers, WorkerExecute(w) PROVE FlagsType'
  BY <1>3 DEF WorkerExecute
<1>4. ASSUME NEW w \in Workers, WorkerBarrier(w) PROVE FlagsType'
  BY <1>4 DEF WorkerBarrier, BarrierOpens
<1>5. ASSUME NEW w \in Workers, WorkerSignal(w) PROVE FlagsType'
  BY <1>5 DEF WorkerSignal
<1>6. ASSUME NEW w \in Workers, WorkerCleanup(w) PROVE FlagsType'
  BY <1>6 DEF WorkerCleanup
<1>7. ASSUME NEW w \in Workers, WorkerLeave(w) PROVE FlagsType'
  BY <1>7 DEF WorkerLeave
<1>8. ASSUME NEW w \in Workers, WorkerDrain(w) PROVE FlagsType'
  BY <1>8 DEF WorkerDrain
<1>9. ASSUME NEW w \in Workers, WorkerSpurious(w) PROVE FlagsType'
  BY <1>9 DEF WorkerSpurious
<1>10. ASSUME NEW c \in Clients, AddWoken(c) PROVE FlagsType'
  BY <1>10, AddWokenCases
<1>11. ASSUME NEW c \in Clients, DropSearch(c) PROVE FlagsType'
  BY <1>11 DEF DropSearch, ClearSlot, AfterRemoval
<1>12. ASSUME NEW c \in Clients, DropSignal(c) PROVE FlagsType'
  BY <1>12 DEF DropSignal
<1>13. ASSUME NEW c \in Clients, DropWait(c) PROVE FlagsType'
  BY <1>13 DEF DropWait
<1>14. ASSUME NEW c \in Clients, FinishAdd(c) PROVE FlagsType'
  BY <1>14, AddJobCases DEF FinishAdd
<1>15. ASSUME NEW c \in Clients, FinishAdded(c) PROVE FlagsType'
  BY <1>15 DEF FinishAdded
<1>16. ASSUME NEW c \in Clients, FinishReturn(c) PROVE FlagsType'
  BY <1>16 DEF FinishReturn, FinishWaited
<1>17. ASSUME NEW c \in Clients, CreateThread(c) PROVE FlagsType'
  BY <1>17 DEF CreateThread
<1>18. ASSUME NEW c \in Clients, JoinThreads(c) PROVE FlagsType'
  BY <1>18 DEF JoinThreads, Joined
<1>19. ASSUME NEW c \in Clients, DestroyKill(c) PROVE FlagsType'
  BY <1>19 DEF DestroyKill, KillAll, KillSignal, BroadcastHasQueued
<1>20. ASSUME NEW c \in Clients, DestroyUnlist(c) PROVE FlagsType'
  BY <1>20 DEF DestroyUnlist
<1>21. ASSUME NEW c \in Clients, ExitKill(c) PROVE FlagsType'
  BY <1>21 DEF ExitKill, KillAll, KillSignal, BroadcastHasQueued
<1>22. ASSUME NEW c \in Clients, ExitEnd(c) PROVE FlagsType'
  BY <1>22 DEF ExitEnd
<1>23. ASSUME NEW c \in Clients, ClientAdd(c) PROVE FlagsType'
  BY <1>23, ClientAddJob, AddJobCases
<1>24. ASSUME NEW c \in Clients, DropBegin(c) PROVE FlagsType'
  BY <1>24 DEF DropBegin
<1>25. ASSUME NEW c \in Clients, FinishBegin(c) PROVE FlagsType'
  BY <1>25 DEF FinishBegin, Pending, BarrierSize
<1>26. ASSUME NEW c \in Clients, Adjust(c) PROVE FlagsType'
  BY <1>26 DEF Adjust, KillSignal, BroadcastHasQueued
<1>27. ASSUME NEW c \in Clients, DestroyBegin(c) PROVE FlagsType'
  BY <1>27 DEF DestroyBegin
<1>28. ASSUME NEW c \in Clients, ExitBegin(c) PROVE FlagsType'
  BY <1>28 DEF ExitBegin
<1>29. ASSUME NEW c \in Clients, AddSpurious(c) PROVE FlagsType'
  BY <1>29 DEF AddSpurious
<1>30. CASE UNCHANGED vars
  BY <1>30
<1>q. QED
  BY <1>1, <1>2, <1>3, <1>4, <1>5, <1>6, <1>7, <1>8, <1>9, <1>10, <1>11, <1>12,
     <1>13, <1>14, <1>15, <1>16, <1>17, <1>18, <1>19, <1>20, <1>21, <1>22, <1>23, <1>24,
     <1>25, <1>26, <1>27, <1>28, <1>29, <1>30
  DEF Next, WorkerStep, ClientStep, ClientCall


\* The ring keeps its shape: also after a resize the indices are inside of it.
LEMMA RingTypeStep == BaseInv /\ [Next]_vars => RingType'
<1> SUFFICES ASSUME RingType, ClientsType, ThreadsType, HoldInv, [Next]_vars
             PROVE  RingType'
  BY DEF BaseInv, TypeOK
<1>1. ASSUME NEW w \in Workers, WorkerSleep(w) PROVE RingType'
  BY <1>1 DEF WorkerSleep, RingType, Slots, vars, ring
<1>2. ASSUME NEW w \in Workers, WorkerTake(w) PROVE RingType'
  <2>1. (read_idx + 1) % max_jobs \in 0 .. max_jobs - 1
    BY NextIndex DEF RingType, Slots
  <2>2. SizeOf(jobs[read_idx]) \in Nat
    BY SizeNat
  <2>q. QED
    BY <1>2, <2>1, <2>2 DEF WorkerTake, NextSlot, RingType, Slots
<1>3. ASSUME NEW w \in Workers, WorkerExecute(w) PROVE RingType'
  BY <1>3 DEF WorkerExecute, RingType, Slots, vars, ring
<1>4. ASSUME NEW w \in Workers, WorkerBarrier(w) PROVE RingType'
  BY <1>4 DEF WorkerBarrier, BarrierOpens, RingType, Slots, vars, ring
<1>5. ASSUME NEW w \in Workers, WorkerSignal(w) PROVE RingType'
  BY <1>5 DEF WorkerSignal, RingType, Slots, vars, ring
<1>6. ASSUME NEW w \in Workers, WorkerCleanup(w) PROVE RingType'
  BY <1>6 DEF WorkerCleanup, RingType, Slots, vars, ring
<1>7. ASSUME NEW w \in Workers, WorkerLeave(w) PROVE RingType'
  BY <1>7 DEF WorkerLeave, RingType, Slots, vars, ring
<1>8. ASSUME NEW w \in Workers, WorkerDrain(w) PROVE RingType'
  <2>1. CASE num_threads = 0
    BY <1>8, <2>1 DEF WorkerDrain, RingType, Slots
  <2>2. CASE num_threads # 0
    BY <1>8, <2>2 DEF WorkerDrain, RingType, Slots
  <2>q. QED
    BY <2>1, <2>2
<1>9. ASSUME NEW w \in Workers, WorkerSpurious(w) PROVE RingType'
  BY <1>9 DEF WorkerSpurious, RingType, Slots, vars, ring
<1>10. ASSUME NEW c \in Clients, AddWoken(c) PROVE RingType'
  <2>1. arg[c] \in Tokens
    BY <1>10, AddWokenCases DEF HoldInv, Blocked
  <2>q. QED
    BY <1>10, <2>1, AddWokenCases, AddDoneRing DEF RingType, Slots, ring
<1>11. ASSUME NEW c \in Clients, DropSearch(c) PROVE RingType'
  BY <1>11 DEF DropSearch, ClearSlot, AfterRemoval, RingType, Slots, vars, ring
<1>12. ASSUME NEW c \in Clients, DropSignal(c) PROVE RingType'
  BY <1>12 DEF DropSignal, RingType, Slots, vars, ring
<1>13. ASSUME NEW c \in Clients, DropWait(c) PROVE RingType'
  BY <1>13 DEF DropWait, RingType, Slots, vars, ring
<1>14. ASSUME NEW c \in Clients, FinishAdd(c) PROVE RingType'
  <2>1. lo \in Tokens /\ AddJob(c, lo)
    BY <1>14, FinishAddJob, TokensDistinct
  <2>q. QED
    BY <2>1, AddJobCases, AddDoneRing DEF RingType, Slots, vars, ring, AddBlocks
<1>15. ASSUME NEW c \in Clients, FinishAdded(c) PROVE RingType'
  BY <1>15 DEF FinishAdded, RingType, Slots, vars, ring
<1>16. ASSUME NEW c \in Clients, FinishReturn(c) PROVE RingType'
  BY <1>16 DEF FinishReturn, FinishWaited, RingType, Slots, vars, ring
<1>17. ASSUME NEW c \in Clients, CreateThread(c) PROVE RingType'
  BY <1>17 DEF CreateThread, RingType, Slots, vars, ring
<1>18. ASSUME NEW c \in Clients, JoinThreads(c) PROVE RingType'
  BY <1>18 DEF JoinThreads, Joined, RingType, Slots, vars, ring
<1>19. ASSUME NEW c \in Clients, DestroyKill(c) PROVE RingType'
  BY <1>19 DEF DestroyKill, KillAll, KillSignal, BroadcastHasQueued, RingType, Slots, vars, ring
<1>20. ASSUME NEW c \in Clients, DestroyUnlist(c) PROVE RingType'
  BY <1>20 DEF DestroyUnlist, RingType, Slots, vars, ring
<1>21. ASSUME NEW c \in Clients, ExitKill(c) PROVE RingType'
  BY <1>21 DEF ExitKill, KillAll, KillSignal, BroadcastHasQueued, RingType, Slots, vars, ring
<1>22. ASSUME NEW c \in Clients, ExitEnd(c) PROVE RingType'
  BY <1>22 DEF ExitEnd, RingType, Slots, vars, ring
<1>23. ASSUME NEW c \in Clients, ClientAdd(c) PROVE RingType'
  <2>1. PICK j \in Jobs : AddJob(c, j)
    BY <1>23, ClientAddJob
  <2>2. j \in Tokens
    BY TokensDistinct
  <2>q. QED
    BY <2>1, <2>2, AddJobCases, AddDoneRing DEF RingType, Slots, vars, ring, AddBlocks
<1>24. ASSUME NEW c \in Clients, DropBegin(c) PROVE RingType'
  BY <1>24 DEF DropBegin, RingType, Slots, vars, ring
<1>25. ASSUME NEW c \in Clients, FinishBegin(c) PROVE RingType'
  BY <1>25 DEF FinishBegin, Pending, BarrierSize, RingType, Slots, vars, ring
<1>26. ASSUME NEW c \in Clients, Adjust(c) PROVE RingType'
  BY <1>26 DEF Adjust, KillSignal, BroadcastHasQueued, RingType, Slots, vars, ring
<1>27. ASSUME NEW c \in Clients, DestroyBegin(c) PROVE RingType'
  BY <1>27 DEF DestroyBegin, RingType, Slots, vars, ring
<1>28. ASSUME NEW c \in Clients, ExitBegin(c) PROVE RingType'
  BY <1>28 DEF ExitBegin, RingType, Slots, vars, ring
<1>29. ASSUME NEW c \in Clients, AddSpurious(c) PROVE RingType'
  BY <1>29 DEF AddSpurious, RingType, Slots, vars, ring
<1>30. CASE UNCHANGED vars
  BY <1>30 DEF RingType, Slots, vars, ring
<1>q. QED
  BY <1>1, <1>2, <1>3, <1>4, <1>5, <1>6, <1>7, <1>8, <1>9, <1>10, <1>11, <1>12,
     <1>13, <1>14, <1>15, <1>16, <1>17, <1>18, <1>19, <1>20, <1>21, <1>22, <1>23, <1>24,
     <1>25, <1>26, <1>27, <1>28, <1>29, <1>30
  DEF Next, WorkerStep, ClientStep, ClientCall


\* The workers keep their types.
LEMMA ThreadsTypeStep == BaseInv /\ [Next]_vars => ThreadsType'
<1> SUFFICES ASSUME RingType, ClientsType, ThreadsType, HoldInv, [Next]_vars
             PROVE  ThreadsType'
  BY DEF BaseInv, TypeOK
<1> USE MaxThreadsAssumption DEF ThreadsType, WorkerPCs
<1>1. ASSUME NEW w \in Workers, WorkerSleep(w) PROVE ThreadsType'
  BY <1>1 DEF WorkerSleep, vars
<1>2. ASSUME NEW w \in Workers, WorkerTake(w) PROVE ThreadsType'
  <2>1. jobs[read_idx] \in Tokens \cup {NoJob}
    BY DEF RingType
  <2>q. QED
    BY <1>2, <2>1 DEF WorkerTake, NextSlot
<1>3. ASSUME NEW w \in Workers, WorkerExecute(w) PROVE ThreadsType'
  BY <1>3 DEF WorkerExecute, vars
<1>4. ASSUME NEW w \in Workers, WorkerBarrier(w) PROVE ThreadsType'
  BY <1>4 DEF WorkerBarrier, BarrierOpens, vars
<1>5. ASSUME NEW w \in Workers, WorkerSignal(w) PROVE ThreadsType'
  BY <1>5 DEF WorkerSignal, vars
<1>6. ASSUME NEW w \in Workers, WorkerCleanup(w) PROVE ThreadsType'
  BY <1>6 DEF WorkerCleanup, vars
<1>7. ASSUME NEW w \in Workers, WorkerLeave(w) PROVE ThreadsType'
  BY <1>7 DEF WorkerLeave, vars
<1>8. ASSUME NEW w \in Workers, WorkerDrain(w) PROVE ThreadsType'
  BY <1>8 DEF WorkerDrain, vars
<1>9. ASSUME NEW w \in Workers, WorkerSpurious(w) PROVE ThreadsType'
  BY <1>9 DEF WorkerSpurious, vars
<1>10. ASSUME NEW c \in Clients, AddWoken(c) PROVE ThreadsType'
  BY <1>10, AddWokenCases, AddDoneRest
<1>11. ASSUME NEW c \in Clients, DropSearch(c) PROVE ThreadsType'
  BY <1>11 DEF DropSearch, ClearSlot, AfterRemoval, vars
<1>12. ASSUME NEW c \in Clients, DropSignal(c) PROVE ThreadsType'
  BY <1>12 DEF DropSignal, vars
<1>13. ASSUME NEW c \in Clients, DropWait(c) PROVE ThreadsType'
  BY <1>13 DEF DropWait, vars
<1>14. ASSUME NEW c \in Clients, FinishAdd(c) PROVE ThreadsType'
  BY <1>14, FinishAddJob, AddJobCases, AddDoneRest DEF AddBlocks, vars
<1>15. ASSUME NEW c \in Clients, FinishAdded(c) PROVE ThreadsType'
  BY <1>15 DEF FinishAdded, vars
<1>16. ASSUME NEW c \in Clients, FinishReturn(c) PROVE ThreadsType'
  BY <1>16 DEF FinishReturn, FinishWaited, vars
<1>17. ASSUME NEW c \in Clients, CreateThread(c) PROVE ThreadsType'
  BY <1>17 DEF CreateThread, vars
<1>18. ASSUME NEW c \in Clients, JoinThreads(c) PROVE ThreadsType'
  BY <1>18 DEF JoinThreads, Joined, vars
<1>19. ASSUME NEW c \in Clients, DestroyKill(c) PROVE ThreadsType'
  <2>1. NotifyAll(wpc, "wait", "loop") \in [Workers -> WorkerPCs]
    BY WakeAllWorkers
  <2>q. QED
    BY <1>19, <2>1 DEF DestroyKill, KillAll, KillSignal, BroadcastHasQueued, vars
<1>20. ASSUME NEW c \in Clients, DestroyUnlist(c) PROVE ThreadsType'
  BY <1>20 DEF DestroyUnlist, vars
<1>21. ASSUME NEW c \in Clients, ExitKill(c) PROVE ThreadsType'
  <2>1. NotifyAll(wpc, "wait", "loop") \in [Workers -> WorkerPCs]
    BY WakeAllWorkers
  <2>q. QED
    BY <1>21, <2>1 DEF ExitKill, KillAll, KillSignal, BroadcastHasQueued, vars
<1>22. ASSUME NEW c \in Clients, ExitEnd(c) PROVE ThreadsType'
  BY <1>22 DEF ExitEnd, vars
<1>23. ASSUME NEW c \in Clients, ClientAdd(c) PROVE ThreadsType'
  BY <1>23, ClientAddJob, AddJobCases, AddDoneRest DEF AddBlocks, vars
<1>24. ASSUME NEW c \in Clients, DropBegin(c) PROVE ThreadsType'
  BY <1>24 DEF DropBegin, vars
<1>25. ASSUME NEW c \in Clients, FinishBegin(c) PROVE ThreadsType'
  BY <1>25 DEF FinishBegin, Pending, BarrierSize, vars
<1>26. ASSUME NEW c \in Clients, Adjust(c) PROVE ThreadsType'
  <2>1. NotifyAll(wpc, "wait", "loop") \in [Workers -> WorkerPCs]
    BY WakeAllWorkers
  <2>q. QED
    BY <1>26, <2>1 DEF Adjust, KillSignal, BroadcastHasQueued, vars
<1>27. ASSUME NEW c \in Clients, DestroyBegin(c) PROVE ThreadsType'
  BY <1>27 DEF DestroyBegin, vars
<1>28. ASSUME NEW c \in Clients, ExitBegin(c) PROVE ThreadsType'
  BY <1>28 DEF ExitBegin, vars
<1>29. ASSUME NEW c \in Clients, AddSpurious(c) PROVE ThreadsType'
  BY <1>29 DEF AddSpurious, vars
<1>30. CASE UNCHANGED vars
  BY <1>30 DEF vars
<1>q. QED
  BY <1>1, <1>2, <1>3, <1>4, <1>5, <1>6, <1>7, <1>8, <1>9, <1>10, <1>11, <1>12,
     <1>13, <1>14, <1>15, <1>16, <1>17, <1>18, <1>19, <1>20, <1>21, <1>22, <1>23, <1>24,
     <1>25, <1>26, <1>27, <1>28, <1>29, <1>30
  DEF Next, WorkerStep, ClientStep, ClientCall


\* The clients and the fences keep their types.
LEMMA ClientsTypeStep == BaseInv /\ [Next]_vars => ClientsType'
<1> SUFFICES ASSUME RingType, ClientsType, ThreadsType, HoldInv, LockInv, [Next]_vars
             PROVE  ClientsType'
  BY DEF BaseInv, TypeOK
<1> USE MaxThreadsAssumption DEF ClientsType, ClientPCs
<1>1. ASSUME NEW w \in Workers, WorkerSleep(w) PROVE ClientsType'
  BY <1>1 DEF WorkerSleep, vars, life, fin
<1>2. ASSUME NEW w \in Workers, WorkerTake(w) PROVE ClientsType'
  <2>1. pc' \in [Clients -> ClientPCs]
    BY <1>2, WakeClient DEF WorkerTake, NextSlot
  <2>q. QED
    BY <1>2, <2>1 DEF WorkerTake, NextSlot, life, fin
<1>3. ASSUME NEW w \in Workers, WorkerExecute(w) PROVE ClientsType'
  BY <1>3 DEF WorkerExecute, vars, life, fin
<1>4. ASSUME NEW w \in Workers, WorkerBarrier(w) PROVE ClientsType'
  BY <1>4 DEF WorkerBarrier, BarrierOpens, vars, life, fin
<1>5. ASSUME NEW w \in Workers, WorkerSignal(w) PROVE ClientsType'
  <2>1. wjob[w] \in Tokens
    BY <1>5 DEF WorkerSignal, HoldInv, Busy
  <2>q. QED
    BY <1>5, <2>1 DEF WorkerSignal, life
<1>6. ASSUME NEW w \in Workers, WorkerCleanup(w) PROVE ClientsType'
  BY <1>6 DEF WorkerCleanup, vars, life, fin
<1>7. ASSUME NEW w \in Workers, WorkerLeave(w) PROVE ClientsType'
  BY <1>7 DEF WorkerLeave, vars, life, fin
<1>8. ASSUME NEW w \in Workers, WorkerDrain(w) PROVE ClientsType'
  <2>1. {jobs[i] : i \in RingScan} \ {NoJob} \subseteq Tokens
    BY DEF RingType, RingScan
  <2>q. QED
    BY <1>8, <2>1 DEF WorkerDrain, life, fin
<1>9. ASSUME NEW w \in Workers, WorkerSpurious(w) PROVE ClientsType'
  BY <1>9 DEF WorkerSpurious, vars, life, fin
<1>10. ASSUME NEW c \in Clients, AddWoken(c) PROVE ClientsType'
  <2>1. arg[c] \in Barriers => lo < MaxThreads
    BY <1>10, AddWokenCases DEF LockInv, Blocked, ThreadsType
  <2>2. CASE AddDone(c, arg[c])
    <3>1. AddReturns(c, arg[c])
      BY <2>2, AddDoneRest
    <3>2. UNCHANGED <<finish_lock, exit_mutex, hi, bar_count, before, signalled>>
      BY <1>10, AddWokenCases DEF life
    <3>q. QED
      BY <2>1, <3>1, <3>2 DEF AddReturns
  <2>q. QED
    BY <1>10, <2>2, AddWokenCases DEF life
<1>11. ASSUME NEW c \in Clients, DropSearch(c) PROVE ClientsType'
  BY <1>11 DEF DropSearch, ClearSlot, AfterRemoval, vars, life, fin
<1>12. ASSUME NEW c \in Clients, DropSignal(c) PROVE ClientsType'
  <2>1. arg[c] \in Tokens
    BY <1>12, TokensDistinct DEF DropSignal, HoldInv, Dropping
  <2>q. QED
    BY <1>12, <2>1 DEF DropSignal, life, fin
<1>13. ASSUME NEW c \in Clients, DropWait(c) PROVE ClientsType'
  BY <1>13 DEF DropWait, vars, life, fin
<1>14. ASSUME NEW c \in Clients, FinishAdd(c) PROVE ClientsType'
  <2>1. lo < MaxThreads /\ lo \in Tokens /\ AddJob(c, lo)
    BY <1>14, FinishAddJob, TokensDistinct DEF ThreadsType
  <2>2. CASE UNCHANGED vars
    BY <2>2 DEF vars, life, fin
  <2>3. CASE AddDone(c, lo) /\ ~UNCHANGED vars
    <3>1. AddReturns(c, lo)
      BY <2>3, AddDoneRest
    <3>2. /\ UNCHANGED <<finish_lock, exit_mutex, hi, bar_count, before>>
          /\ signalled' = signalled \ {lo}
      BY <2>1, <2>3, AddJobCases DEF life
    <3>q. QED
      BY <2>1, <3>1, <3>2 DEF AddReturns
  <2>4. CASE AddBlocks(c, lo) /\ ~UNCHANGED vars
    BY <2>1, <2>4, AddJobCases DEF AddBlocks, life
  <2>q. QED
    BY <2>1, <2>2, <2>3, <2>4, AddJobCases
<1>15. ASSUME NEW c \in Clients, FinishAdded(c) PROVE ClientsType'
  BY <1>15 DEF FinishAdded, vars, life, fin
<1>16. ASSUME NEW c \in Clients, FinishReturn(c) PROVE ClientsType'
  BY <1>16 DEF FinishReturn, FinishWaited, vars, life, fin
<1>17. ASSUME NEW c \in Clients, CreateThread(c) PROVE ClientsType'
  BY <1>17 DEF CreateThread, ThreadsType, vars, life, fin
<1>18. ASSUME NEW c \in Clients, JoinThreads(c) PROVE ClientsType'
  BY <1>18 DEF JoinThreads, Joined, vars, life, fin
<1>19. ASSUME NEW c \in Clients, DestroyKill(c) PROVE ClientsType'
  BY <1>19 DEF DestroyKill, KillAll, KillSignal, BroadcastHasQueued, ThreadsType, vars, life, fin
<1>20. ASSUME NEW c \in Clients, DestroyUnlist(c) PROVE ClientsType'
  BY <1>20 DEF DestroyUnlist, vars, life, fin
<1>21. ASSUME NEW c \in Clients, ExitKill(c) PROVE ClientsType'
  BY <1>21 DEF ExitKill, KillAll, KillSignal, BroadcastHasQueued, ThreadsType, vars, life, fin
<1>22. ASSUME NEW c \in Clients, ExitEnd(c) PROVE ClientsType'
  BY <1>22 DEF ExitEnd, vars, life, fin
<1>23. ASSUME NEW c \in Clients, ClientAdd(c) PROVE ClientsType'
  <2>1. PICK j \in Jobs : AddJob(c, j)
    BY <1>23, ClientAddJob
  <2>2. j \in Tokens /\ j \notin Barriers
    BY TokensDistinct
  <2>3. CASE UNCHANGED vars
    BY <2>3 DEF vars, life, fin
  <2>4. CASE AddDone(c, j) /\ ~UNCHANGED vars
    <3>1. AddReturns(c, j)
      BY <2>4, AddDoneRest
    <3>q. QED
      BY <2>1, <2>2, <2>4, <3>1, AddJobCases DEF AddReturns, life
  <2>5. CASE AddBlocks(c, j) /\ ~UNCHANGED vars
    BY <2>1, <2>2, <2>5, AddJobCases DEF AddBlocks, life
  <2>q. QED
    BY <2>1, <2>3, <2>4, <2>5, AddJobCases
<1>24. ASSUME NEW c \in Clients, DropBegin(c) PROVE ClientsType'
  BY <1>24, TokensDistinct DEF DropBegin, life, fin
<1>25. ASSUME NEW c \in Clients, FinishBegin(c) PROVE ClientsType'
  BY <1>25 DEF FinishBegin, Pending, BarrierSize, ThreadsType, vars, life, fin
<1>26. ASSUME NEW c \in Clients, Adjust(c) PROVE ClientsType'
  BY <1>26 DEF Adjust, KillSignal, BroadcastHasQueued, ThreadsType, vars, life, fin
<1>27. ASSUME NEW c \in Clients, DestroyBegin(c) PROVE ClientsType'
  BY <1>27 DEF DestroyBegin, vars, life, fin
<1>28. ASSUME NEW c \in Clients, ExitBegin(c) PROVE ClientsType'
  BY <1>28 DEF ExitBegin, vars, life, fin
<1>29. ASSUME NEW c \in Clients, AddSpurious(c) PROVE ClientsType'
  BY <1>29 DEF AddSpurious, vars, life, fin
<1>30. CASE UNCHANGED vars
  BY <1>30 DEF vars, life, fin
<1>q. QED
  BY <1>1, <1>2, <1>3, <1>4, <1>5, <1>6, <1>7, <1>8, <1>9, <1>10, <1>11, <1>12,
     <1>13, <1>14, <1>15, <1>16, <1>17, <1>18, <1>19, <1>20, <1>21, <1>22, <1>23, <1>24,
     <1>25, <1>26, <1>27, <1>28, <1>29, <1>30
  DEF Next, WorkerStep, ClientStep, ClientCall


-----------------------------------------------------------------------------
(***************************************************************************)
(* Who holds what                                                           *)
(***************************************************************************)

\* Workers and clients pick up and put down jobs as HoldInv says.
LEMMA HoldStep == BaseInv /\ [Next]_vars => HoldInv'
<1> SUFFICES ASSUME RingType, ClientsType, ThreadsType, HoldInv, LockInv, CreateInv,
                    [Next]_vars
             PROVE  HoldInv'
  BY DEF BaseInv, TypeOK
<1> USE DEF HoldInv, Busy, Blocked, Dropping, ClientsType, ThreadsType
<1>1. ASSUME NEW w \in Workers, WorkerSleep(w) PROVE HoldInv'
  BY <1>1 DEF WorkerSleep, vars
<1>2. ASSUME NEW w \in Workers, WorkerTake(w) PROVE HoldInv'
  <2>1. jobs[read_idx] \in Tokens \cup {NoJob}
    BY DEF RingType
  <2>2. \A c \in Clients :
          pc'[c] = pc[c] \/ (pc[c] = "space_wait" /\ pc'[c] = "space_woken")
    BY <1>2, WakeClient DEF WorkerTake, NextSlot
  <2>q. QED
    BY <1>2, <2>1, <2>2, TokensDistinct DEF WorkerTake, NextSlot
<1>3. ASSUME NEW w \in Workers, WorkerExecute(w) PROVE HoldInv'
  BY <1>3, TokensDistinct DEF WorkerExecute
<1>4. ASSUME NEW w \in Workers, WorkerBarrier(w) PROVE HoldInv'
  BY <1>4, TokensDistinct DEF WorkerBarrier, BarrierOpens
<1>5. ASSUME NEW w \in Workers, WorkerSignal(w) PROVE HoldInv'
  BY <1>5 DEF WorkerSignal, vars
<1>6. ASSUME NEW w \in Workers, WorkerCleanup(w) PROVE HoldInv'
  BY <1>6 DEF WorkerCleanup, vars
<1>7. ASSUME NEW w \in Workers, WorkerLeave(w) PROVE HoldInv'
  BY <1>7 DEF WorkerLeave, vars
<1>8. ASSUME NEW w \in Workers, WorkerDrain(w) PROVE HoldInv'
  BY <1>8 DEF WorkerDrain, vars
<1>9. ASSUME NEW w \in Workers, WorkerSpurious(w) PROVE HoldInv'
  BY <1>9 DEF WorkerSpurious, vars
<1>10. ASSUME NEW c \in Clients, AddWoken(c) PROVE HoldInv'
  <2>1. pc[c] = "space_woken" /\ arg[c] \in Tokens
        /\ UNCHANGED <<wjob, num_threads, finish_lock, hi, bar_count>>
    BY <1>10, AddWokenCases DEF HoldInv, Blocked
  <2>2. CASE AddDone(c, arg[c])
    <3>1. /\ wpc' \in [Workers -> WorkerPCs] /\ AddReturns(c, arg[c])
          /\ \A w \in Workers : wpc'[w] = wpc[w] \/ (wpc[w] = "wait" /\ wpc'[w] = "loop")
      BY <2>2, AddDoneRest
    <3>q. QED
      BY <2>1, <3>1, TokensDistinct DEF AddReturns
  <2>3. CASE pc' = [pc EXCEPT ![c] = "space_wait"] /\ UNCHANGED <<ring, arg, lo, wpc>>
    BY <2>1, <2>3
  <2>q. QED
    BY <1>10, <2>2, <2>3, AddWokenCases
<1>11. ASSUME NEW c \in Clients, DropSearch(c) PROVE HoldInv'
  BY <1>11 DEF DropSearch, ClearSlot, AfterRemoval, vars
<1>12. ASSUME NEW c \in Clients, DropSignal(c) PROVE HoldInv'
  BY <1>12 DEF DropSignal, vars
<1>13. ASSUME NEW c \in Clients, DropWait(c) PROVE HoldInv'
  BY <1>13 DEF DropWait, vars
<1>14. ASSUME NEW c \in Clients, FinishAdd(c) PROVE HoldInv'
  <2>1. lo \in Barriers /\ lo \in Tokens /\ AddJob(c, lo) /\ pc[c] = "fin_add"
        /\ lo < num_threads
    BY <1>14, FinishAddJob, TokensDistinct
  <2>s. CASE UNCHANGED vars
    BY <2>s DEF vars
  <2>d. CASE AddDone(c, lo) /\ ~UNCHANGED vars
    <3>1. /\ wpc' \in [Workers -> WorkerPCs] /\ AddReturns(c, lo)
          /\ \A w \in Workers : wpc'[w] = wpc[w] \/ (wpc[w] = "wait" /\ wpc'[w] = "loop")
      BY <2>d, AddDoneRest
    <3>2. UNCHANGED <<wjob, num_threads, finish_lock, hi, bar_count>>
      BY <2>1, <2>d, AddJobCases
    <3>q. QED
      BY <2>1, <3>1, <3>2, TokensDistinct DEF AddReturns
  <2>b. CASE AddBlocks(c, lo) /\ ~UNCHANGED vars
    <3>1. UNCHANGED <<wjob, num_threads, finish_lock, hi, bar_count>>
      BY <2>1, <2>b, AddJobCases
    <3>q. QED
      BY <2>1, <2>b, <3>1, TokensDistinct DEF AddBlocks
  <2>q. QED
    BY <2>1, <2>s, <2>d, <2>b, AddJobCases
<1>15. ASSUME NEW c \in Clients, FinishAdded(c) PROVE HoldInv'
  BY <1>15 DEF FinishAdded, vars
<1>16. ASSUME NEW c \in Clients, FinishReturn(c) PROVE HoldInv'
  BY <1>16 DEF FinishReturn, FinishWaited, vars
<1>17. ASSUME NEW c \in Clients, CreateThread(c) PROVE HoldInv'
  BY <1>17 DEF CreateThread, CreateInv
<1>18. ASSUME NEW c \in Clients, JoinThreads(c) PROVE HoldInv'
  BY <1>18 DEF JoinThreads, Joined, vars
<1>19. ASSUME NEW c \in Clients, DestroyKill(c) PROVE HoldInv'
  <2>1. \A w \in Workers : NotifyAll(wpc, "wait", "loop")[w]
                             = IF wpc[w] = "wait" THEN "loop" ELSE wpc[w]
    BY WakeAllWorkers
  <2>q. QED
    BY <1>19, <2>1 DEF DestroyKill, KillAll, KillSignal, BroadcastHasQueued, vars
<1>20. ASSUME NEW c \in Clients, DestroyUnlist(c) PROVE HoldInv'
  BY <1>20 DEF DestroyUnlist, vars
<1>21. ASSUME NEW c \in Clients, ExitKill(c) PROVE HoldInv'
  <2>1. \A w \in Workers : NotifyAll(wpc, "wait", "loop")[w]
                             = IF wpc[w] = "wait" THEN "loop" ELSE wpc[w]
    BY WakeAllWorkers
  <2>q. QED
    BY <1>21, <2>1 DEF ExitKill, KillAll, KillSignal, BroadcastHasQueued, vars
<1>22. ASSUME NEW c \in Clients, ExitEnd(c) PROVE HoldInv'
  BY <1>22 DEF ExitEnd, vars
<1>23. ASSUME NEW c \in Clients, ClientAdd(c) PROVE HoldInv'
  <2>0. PICK j \in Jobs : AddJob(c, j)
    BY <1>23, ClientAddJob
  <2>1. j \in Tokens /\ j \notin Barriers /\ AddJob(c, j) /\ pc[c] = "idle"
    BY <1>23, <2>0, ClientAddJob, TokensDistinct
  <2>s. CASE UNCHANGED vars
    BY <2>s DEF vars
  <2>d. CASE AddDone(c, j) /\ ~UNCHANGED vars
    <3>1. /\ wpc' \in [Workers -> WorkerPCs] /\ AddReturns(c, j)
          /\ \A w \in Workers : wpc'[w] = wpc[w] \/ (wpc[w] = "wait" /\ wpc'[w] = "loop")
      BY <2>d, AddDoneRest
    <3>2. UNCHANGED <<wjob, num_threads, finish_lock, hi, bar_count>>
      BY <2>1, <2>d, AddJobCases
    <3>q. QED
      BY <2>1, <3>1, <3>2, TokensDistinct DEF AddReturns
  <2>b. CASE AddBlocks(c, j) /\ ~UNCHANGED vars
    <3>1. UNCHANGED <<wjob, num_threads, finish_lock, hi, bar_count>>
      BY <2>1, <2>b, AddJobCases
    <3>q. QED
      BY <2>1, <2>b, <3>1, TokensDistinct DEF AddBlocks
  <2>q. QED
    BY <2>1, <2>s, <2>d, <2>b, AddJobCases
<1>24. ASSUME NEW c \in Clients, DropBegin(c) PROVE HoldInv'
  BY <1>24 DEF DropBegin, vars
<1>25. ASSUME NEW c \in Clients, FinishBegin(c) PROVE HoldInv'
  BY <1>25 DEF FinishBegin, BarrierSize, vars
<1>26. ASSUME NEW c \in Clients, Adjust(c) PROVE HoldInv'
  <2>1. \A w \in Workers : NotifyAll(wpc, "wait", "loop")[w]
                             = IF wpc[w] = "wait" THEN "loop" ELSE wpc[w]
    BY WakeAllWorkers
  <2>q. QED
    BY <1>26, <2>1 DEF Adjust, KillSignal, BroadcastHasQueued, vars
<1>27. ASSUME NEW c \in Clients, DestroyBegin(c) PROVE HoldInv'
  BY <1>27 DEF DestroyBegin, vars
<1>28. ASSUME NEW c \in Clients, ExitBegin(c) PROVE HoldInv'
  BY <1>28 DEF ExitBegin, vars
<1>29. ASSUME NEW c \in Clients, AddSpurious(c) PROVE HoldInv'
  BY <1>29 DEF AddSpurious, vars
<1>30. CASE UNCHANGED vars
  BY <1>30 DEF vars
<1>q. QED
  BY <1>1, <1>2, <1>3, <1>4, <1>5, <1>6, <1>7, <1>8, <1>9, <1>10, <1>11, <1>12,
     <1>13, <1>14, <1>15, <1>16, <1>17, <1>18, <1>19, <1>20, <1>21, <1>22, <1>23, <1>24,
     <1>25, <1>26, <1>27, <1>28, <1>29, <1>30
  DEF Next, WorkerStep, ClientStep, ClientCall


\* finish_lock is held by the one client that is finishing, joining or creating
\* threads, and num_threads stays as it is while a finish is under way.
LEMMA LockStep == BaseInv /\ [Next]_vars => LockInv'
<1> SUFFICES ASSUME RingType, ClientsType, ThreadsType, HoldInv, LockInv, [Next]_vars
             PROVE  LockInv'
  BY DEF BaseInv, TypeOK
<1> USE DEF LockInv, InFinish, Blocked, ClientsType, ThreadsType
<1>1. ASSUME NEW w \in Workers, WorkerSleep(w) PROVE LockInv'
  BY <1>1, ClientsAssumption DEF WorkerSleep, vars, fin, HoldInv, Dropping
<1>2. ASSUME NEW w \in Workers, WorkerTake(w) PROVE LockInv'
  <2>1. \A c \in Clients :
          pc'[c] = pc[c] \/ (pc[c] = "space_wait" /\ pc'[c] = "space_woken")
    BY <1>2, WakeClient DEF WorkerTake, NextSlot
  <2>q. QED
    BY <1>2, <2>1 DEF WorkerTake, NextSlot, fin
<1>3. ASSUME NEW w \in Workers, WorkerExecute(w) PROVE LockInv'
  BY <1>3, ClientsAssumption DEF WorkerExecute, vars, fin, HoldInv, Dropping
<1>4. ASSUME NEW w \in Workers, WorkerBarrier(w) PROVE LockInv'
  BY <1>4, ClientsAssumption DEF WorkerBarrier, BarrierOpens, vars, fin, HoldInv, Dropping
<1>5. ASSUME NEW w \in Workers, WorkerSignal(w) PROVE LockInv'
  BY <1>5, ClientsAssumption DEF WorkerSignal, vars, fin, HoldInv, Dropping
<1>6. ASSUME NEW w \in Workers, WorkerCleanup(w) PROVE LockInv'
  BY <1>6, ClientsAssumption DEF WorkerCleanup, vars, fin, HoldInv, Dropping
<1>7. ASSUME NEW w \in Workers, WorkerLeave(w) PROVE LockInv'
  BY <1>7, ClientsAssumption DEF WorkerLeave, vars, fin, HoldInv, Dropping
<1>8. ASSUME NEW w \in Workers, WorkerDrain(w) PROVE LockInv'
  BY <1>8, ClientsAssumption DEF WorkerDrain, vars, fin, HoldInv, Dropping
<1>9. ASSUME NEW w \in Workers, WorkerSpurious(w) PROVE LockInv'
  BY <1>9, ClientsAssumption DEF WorkerSpurious, vars, fin, HoldInv, Dropping
<1>10. ASSUME NEW c \in Clients, AddWoken(c) PROVE LockInv'
  <2>1. pc[c] = "space_woken" /\ arg[c] \in Tokens
        /\ UNCHANGED <<wjob, num_threads, finish_lock, hi, bar_count>>
    BY <1>10, AddWokenCases DEF HoldInv, Blocked
  <2>2. CASE AddDone(c, arg[c])
    <3>1. /\ wpc' \in [Workers -> WorkerPCs] /\ AddReturns(c, arg[c])
          /\ \A w \in Workers : wpc'[w] = wpc[w] \/ (wpc[w] = "wait" /\ wpc'[w] = "loop")
      BY <2>2, AddDoneRest
    <3>q. QED
      BY <2>1, <3>1, TokensDistinct DEF AddReturns
  <2>3. CASE pc' = [pc EXCEPT ![c] = "space_wait"] /\ UNCHANGED <<ring, arg, lo, wpc>>
    BY <2>1, <2>3
  <2>q. QED
    BY <1>10, <2>2, <2>3, AddWokenCases
<1>11. ASSUME NEW c \in Clients, DropSearch(c) PROVE LockInv'
  BY <1>11, ClientsAssumption DEF DropSearch, ClearSlot, AfterRemoval, vars, fin, HoldInv, Dropping
<1>12. ASSUME NEW c \in Clients, DropSignal(c) PROVE LockInv'
  BY <1>12, ClientsAssumption DEF DropSignal, vars, fin, HoldInv, Dropping
<1>13. ASSUME NEW c \in Clients, DropWait(c) PROVE LockInv'
  BY <1>13, ClientsAssumption DEF DropWait, vars, fin, HoldInv, Dropping
<1>14. ASSUME NEW c \in Clients, FinishAdd(c) PROVE LockInv'
  <2>1. lo \in Barriers /\ lo \in Tokens /\ AddJob(c, lo) /\ pc[c] = "fin_add"
        /\ lo < num_threads
    BY <1>14, FinishAddJob, TokensDistinct
  <2>s. CASE UNCHANGED vars
    BY <2>s DEF vars, fin
  <2>d. CASE AddDone(c, lo) /\ ~UNCHANGED vars
    <3>1. /\ wpc' \in [Workers -> WorkerPCs] /\ AddReturns(c, lo)
          /\ \A w \in Workers : wpc'[w] = wpc[w] \/ (wpc[w] = "wait" /\ wpc'[w] = "loop")
      BY <2>d, AddDoneRest
    <3>2. UNCHANGED <<wjob, num_threads, finish_lock, hi, bar_count>>
      BY <2>1, <2>d, AddJobCases
    <3>q. QED
      BY <2>1, <3>1, <3>2, TokensDistinct DEF AddReturns
  <2>b. CASE AddBlocks(c, lo) /\ ~UNCHANGED vars
    <3>1. UNCHANGED <<wjob, num_threads, finish_lock, hi, bar_count>>
      BY <2>1, <2>b, AddJobCases
    <3>q. QED
      BY <2>1, <2>b, <3>1, TokensDistinct DEF AddBlocks
  <2>q. QED
    BY <2>1, <2>s, <2>d, <2>b, AddJobCases
<1>15. ASSUME NEW c \in Clients, FinishAdded(c) PROVE LockInv'
  BY <1>15, ClientsAssumption DEF FinishAdded, vars, fin, HoldInv, Dropping
<1>16. ASSUME NEW c \in Clients, FinishReturn(c) PROVE LockInv'
  BY <1>16, ClientsAssumption DEF FinishReturn, FinishWaited, vars, fin, HoldInv, Dropping
<1>17. ASSUME NEW c \in Clients, CreateThread(c) PROVE LockInv'
  BY <1>17, ClientsAssumption DEF CreateThread, vars, fin, HoldInv, Dropping
<1>18. ASSUME NEW c \in Clients, JoinThreads(c) PROVE LockInv'
  BY <1>18, ClientsAssumption DEF JoinThreads, Joined, vars, fin, HoldInv, Dropping
<1>19. ASSUME NEW c \in Clients, DestroyKill(c) PROVE LockInv'
  BY <1>19, ClientsAssumption DEF DestroyKill, KillAll, KillSignal, BroadcastHasQueued, vars, fin, HoldInv, Dropping
<1>20. ASSUME NEW c \in Clients, DestroyUnlist(c) PROVE LockInv'
  BY <1>20, ClientsAssumption DEF DestroyUnlist, vars, fin, HoldInv, Dropping
<1>21. ASSUME NEW c \in Clients, ExitKill(c) PROVE LockInv'
  BY <1>21, ClientsAssumption DEF ExitKill, KillAll, KillSignal, BroadcastHasQueued, vars, fin, HoldInv, Dropping
<1>22. ASSUME NEW c \in Clients, ExitEnd(c) PROVE LockInv'
  BY <1>22, ClientsAssumption DEF ExitEnd, vars, fin, HoldInv, Dropping
<1>23. ASSUME NEW c \in Clients, ClientAdd(c) PROVE LockInv'
  <2>0. PICK j \in Jobs : AddJob(c, j)
    BY <1>23, ClientAddJob
  <2>1. j \in Tokens /\ j \notin Barriers /\ AddJob(c, j) /\ pc[c] = "idle"
    BY <1>23, <2>0, ClientAddJob, TokensDistinct
  <2>s. CASE UNCHANGED vars
    BY <2>s DEF vars, fin
  <2>d. CASE AddDone(c, j) /\ ~UNCHANGED vars
    <3>1. /\ wpc' \in [Workers -> WorkerPCs] /\ AddReturns(c, j)
          /\ \A w \in Workers : wpc'[w] = wpc[w] \/ (wpc[w] = "wait" /\ wpc'[w] = "loop")
      BY <2>d, AddDoneRest
    <3>2. UNCHANGED <<wjob, num_threads, finish_lock, hi, bar_count>>
      BY <2>1, <2>d, AddJobCases
    <3>q. QED
      BY <2>1, <3>1, <3>2, TokensDistinct DEF AddReturns
  <2>b. CASE AddBlocks(c, j) /\ ~UNCHANGED vars
    <3>1. UNCHANGED <<wjob, num_threads, finish_lock, hi, bar_count>>
      BY <2>1, <2>b, AddJobCases
    <3>q. QED
      BY <2>1, <2>b, <3>1, TokensDistinct DEF AddBlocks
  <2>q. QED
    BY <2>1, <2>s, <2>d, <2>b, AddJobCases
<1>24. ASSUME NEW c \in Clients, DropBegin(c) PROVE LockInv'
  BY <1>24, TokensDistinct DEF DropBegin, fin
<1>25. ASSUME NEW c \in Clients, FinishBegin(c) PROVE LockInv'
  BY <1>25, ClientsAssumption DEF FinishBegin, BarrierSize, vars, fin, HoldInv, Dropping
<1>26. ASSUME NEW c \in Clients, Adjust(c) PROVE LockInv'
  BY <1>26, ClientsAssumption DEF Adjust, KillSignal, BroadcastHasQueued, vars, fin, HoldInv, Dropping
<1>27. ASSUME NEW c \in Clients, DestroyBegin(c) PROVE LockInv'
  BY <1>27, ClientsAssumption DEF DestroyBegin, vars, fin, HoldInv, Dropping
<1>28. ASSUME NEW c \in Clients, ExitBegin(c) PROVE LockInv'
  BY <1>28, ClientsAssumption DEF ExitBegin, vars, fin, HoldInv, Dropping
<1>29. ASSUME NEW c \in Clients, AddSpurious(c) PROVE LockInv'
  BY <1>29, ClientsAssumption DEF AddSpurious, vars, fin, HoldInv, Dropping
<1>30. CASE UNCHANGED vars
  BY <1>30 DEF vars, fin
<1>q. QED
  BY <1>1, <1>2, <1>3, <1>4, <1>5, <1>6, <1>7, <1>8, <1>9, <1>10, <1>11, <1>12,
     <1>13, <1>14, <1>15, <1>16, <1>17, <1>18, <1>19, <1>20, <1>21, <1>22, <1>23, <1>24,
     <1>25, <1>26, <1>27, <1>28, <1>29, <1>30
  DEF Next, WorkerStep, ClientStep, ClientCall


\* The threads above num_threads are those their killer is joining; a new thread
\* does not meet an old one.
LEMMA DoomedStep == BaseInv /\ [Next]_vars => CreateInv' /\ DoomedAreJoined'
<1> SUFFICES ASSUME RingType, ClientsType, ThreadsType, HoldInv, LockInv, CreateInv,
                    DoomedAreJoined, [Next]_vars
             PROVE  CreateInv' /\ DoomedAreJoined'
  BY DEF BaseInv, TypeOK
<1> USE MaxThreadsAssumption
    DEF CreateInv, DoomedAreJoined, LockInv, InFinish, Blocked, ClientsType, ThreadsType,
        Workers
<1>1. ASSUME NEW w \in Workers, WorkerSleep(w) PROVE CreateInv' /\ DoomedAreJoined'
  BY <1>1, ClientsAssumption DEF WorkerSleep, vars, fin
<1>2. ASSUME NEW w \in Workers, WorkerTake(w) PROVE CreateInv' /\ DoomedAreJoined'
  <2>1. \A c \in Clients :
          pc'[c] = pc[c] \/ (pc[c] = "space_wait" /\ pc'[c] = "space_woken")
    BY <1>2, WakeClient DEF WorkerTake, NextSlot
  <2>q. QED
    BY <1>2, <2>1 DEF WorkerTake, NextSlot, fin
<1>3. ASSUME NEW w \in Workers, WorkerExecute(w) PROVE CreateInv' /\ DoomedAreJoined'
  BY <1>3, ClientsAssumption DEF WorkerExecute, vars, fin
<1>4. ASSUME NEW w \in Workers, WorkerBarrier(w) PROVE CreateInv' /\ DoomedAreJoined'
  BY <1>4, ClientsAssumption DEF WorkerBarrier, BarrierOpens, vars, fin
<1>5. ASSUME NEW w \in Workers, WorkerSignal(w) PROVE CreateInv' /\ DoomedAreJoined'
  BY <1>5, ClientsAssumption DEF WorkerSignal, vars, fin
<1>6. ASSUME NEW w \in Workers, WorkerCleanup(w) PROVE CreateInv' /\ DoomedAreJoined'
  BY <1>6, ClientsAssumption DEF WorkerCleanup, vars, fin
<1>7. ASSUME NEW w \in Workers, WorkerLeave(w) PROVE CreateInv' /\ DoomedAreJoined'
  BY <1>7, ClientsAssumption DEF WorkerLeave, vars, fin
<1>8. ASSUME NEW w \in Workers, WorkerDrain(w) PROVE CreateInv' /\ DoomedAreJoined'
  BY <1>8, ClientsAssumption DEF WorkerDrain, vars, fin
<1>9. ASSUME NEW w \in Workers, WorkerSpurious(w) PROVE CreateInv' /\ DoomedAreJoined'
  BY <1>9, ClientsAssumption DEF WorkerSpurious, vars, fin
<1>10. ASSUME NEW c \in Clients, AddWoken(c) PROVE CreateInv' /\ DoomedAreJoined'
  <2>1. pc[c] = "space_woken" /\ arg[c] \in Tokens
        /\ UNCHANGED <<wjob, num_threads, finish_lock, hi, bar_count>>
    BY <1>10, AddWokenCases DEF HoldInv, Blocked
  <2>2. CASE AddDone(c, arg[c])
    <3>1. /\ wpc' \in [Workers -> WorkerPCs] /\ AddReturns(c, arg[c])
          /\ \A w \in Workers : wpc'[w] = wpc[w] \/ (wpc[w] = "wait" /\ wpc'[w] = "loop")
      BY <2>2, AddDoneRest
    <3>q. QED
      BY <2>1, <3>1, TokensDistinct DEF AddReturns
  <2>3. CASE pc' = [pc EXCEPT ![c] = "space_wait"] /\ UNCHANGED <<ring, arg, lo, wpc>>
    BY <2>1, <2>3
  <2>q. QED
    BY <1>10, <2>2, <2>3, AddWokenCases
<1>11. ASSUME NEW c \in Clients, DropSearch(c) PROVE CreateInv' /\ DoomedAreJoined'
  BY <1>11, ClientsAssumption DEF DropSearch, ClearSlot, AfterRemoval, vars, fin
<1>12. ASSUME NEW c \in Clients, DropSignal(c) PROVE CreateInv' /\ DoomedAreJoined'
  BY <1>12, ClientsAssumption DEF DropSignal, vars, fin
<1>13. ASSUME NEW c \in Clients, DropWait(c) PROVE CreateInv' /\ DoomedAreJoined'
  BY <1>13, ClientsAssumption DEF DropWait, vars, fin
<1>14. ASSUME NEW c \in Clients, FinishAdd(c) PROVE CreateInv' /\ DoomedAreJoined'
  <2>1. lo \in Barriers /\ lo \in Tokens /\ AddJob(c, lo) /\ pc[c] = "fin_add"
        /\ lo < num_threads
    BY <1>14, FinishAddJob, TokensDistinct
  <2>s. CASE UNCHANGED vars
    BY <2>s DEF vars, fin
  <2>d. CASE AddDone(c, lo) /\ ~UNCHANGED vars
    <3>1. /\ wpc' \in [Workers -> WorkerPCs] /\ AddReturns(c, lo)
          /\ \A w \in Workers : wpc'[w] = wpc[w] \/ (wpc[w] = "wait" /\ wpc'[w] = "loop")
      BY <2>d, AddDoneRest
    <3>2. UNCHANGED <<wjob, num_threads, finish_lock, hi, bar_count>>
      BY <2>1, <2>d, AddJobCases
    <3>q. QED
      BY <2>1, <3>1, <3>2, TokensDistinct DEF AddReturns
  <2>b. CASE AddBlocks(c, lo) /\ ~UNCHANGED vars
    <3>1. UNCHANGED <<wjob, num_threads, finish_lock, hi, bar_count>>
      BY <2>1, <2>b, AddJobCases
    <3>q. QED
      BY <2>1, <2>b, <3>1, TokensDistinct DEF AddBlocks
  <2>q. QED
    BY <2>1, <2>s, <2>d, <2>b, AddJobCases
<1>15. ASSUME NEW c \in Clients, FinishAdded(c) PROVE CreateInv' /\ DoomedAreJoined'
  BY <1>15, ClientsAssumption DEF FinishAdded, vars, fin
<1>16. ASSUME NEW c \in Clients, FinishReturn(c) PROVE CreateInv' /\ DoomedAreJoined'
  BY <1>16, ClientsAssumption DEF FinishReturn, FinishWaited, vars, fin
<1>17. ASSUME NEW c \in Clients, CreateThread(c) PROVE CreateInv' /\ DoomedAreJoined'
  BY <1>17, ClientsAssumption DEF CreateThread, vars, fin
<1>18. ASSUME NEW c \in Clients, JoinThreads(c) PROVE CreateInv' /\ DoomedAreJoined'
  BY <1>18, ClientsAssumption DEF JoinThreads, Joined, vars, fin
<1>19. ASSUME NEW c \in Clients, DestroyKill(c) PROVE CreateInv' /\ DoomedAreJoined'
  <2>1. \A w \in Workers : NotifyAll(wpc, "wait", "loop")[w]
                             = IF wpc[w] = "wait" THEN "loop" ELSE wpc[w]
    BY WakeAllWorkers
  <2>q. QED
    BY <1>19, <2>1, ClientsAssumption DEF DestroyKill, KillAll, fin, KillSignal, BroadcastHasQueued, vars
<1>20. ASSUME NEW c \in Clients, DestroyUnlist(c) PROVE CreateInv' /\ DoomedAreJoined'
  BY <1>20, ClientsAssumption DEF DestroyUnlist, vars, fin
<1>21. ASSUME NEW c \in Clients, ExitKill(c) PROVE CreateInv' /\ DoomedAreJoined'
  <2>1. \A w \in Workers : NotifyAll(wpc, "wait", "loop")[w]
                             = IF wpc[w] = "wait" THEN "loop" ELSE wpc[w]
    BY WakeAllWorkers
  <2>q. QED
    BY <1>21, <2>1, ClientsAssumption DEF ExitKill, KillAll, fin, KillSignal, BroadcastHasQueued, vars
<1>22. ASSUME NEW c \in Clients, ExitEnd(c) PROVE CreateInv' /\ DoomedAreJoined'
  BY <1>22, ClientsAssumption DEF ExitEnd, vars, fin
<1>23. ASSUME NEW c \in Clients, ClientAdd(c) PROVE CreateInv' /\ DoomedAreJoined'
  <2>0. PICK j \in Jobs : AddJob(c, j)
    BY <1>23, ClientAddJob
  <2>1. j \in Tokens /\ j \notin Barriers /\ AddJob(c, j) /\ pc[c] = "idle"
    BY <1>23, <2>0, ClientAddJob, TokensDistinct
  <2>s. CASE UNCHANGED vars
    BY <2>s DEF vars, fin
  <2>d. CASE AddDone(c, j) /\ ~UNCHANGED vars
    <3>1. /\ wpc' \in [Workers -> WorkerPCs] /\ AddReturns(c, j)
          /\ \A w \in Workers : wpc'[w] = wpc[w] \/ (wpc[w] = "wait" /\ wpc'[w] = "loop")
      BY <2>d, AddDoneRest
    <3>2. UNCHANGED <<wjob, num_threads, finish_lock, hi, bar_count>>
      BY <2>1, <2>d, AddJobCases
    <3>q. QED
      BY <2>1, <3>1, <3>2, TokensDistinct DEF AddReturns
  <2>b. CASE AddBlocks(c, j) /\ ~UNCHANGED vars
    <3>1. UNCHANGED <<wjob, num_threads, finish_lock, hi, bar_count>>
      BY <2>1, <2>b, AddJobCases
    <3>q. QED
      BY <2>1, <2>b, <3>1, TokensDistinct DEF AddBlocks
  <2>q. QED
    BY <2>1, <2>s, <2>d, <2>b, AddJobCases
<1>24. ASSUME NEW c \in Clients, DropBegin(c) PROVE CreateInv' /\ DoomedAreJoined'
  BY <1>24, ClientsAssumption DEF DropBegin, vars, fin
<1>25. ASSUME NEW c \in Clients, FinishBegin(c) PROVE CreateInv' /\ DoomedAreJoined'
  BY <1>25, ClientsAssumption DEF FinishBegin, BarrierSize, vars, fin
<1>26. ASSUME NEW c \in Clients, Adjust(c) PROVE CreateInv' /\ DoomedAreJoined'
  <2>1. \A w \in Workers : NotifyAll(wpc, "wait", "loop")[w]
                             = IF wpc[w] = "wait" THEN "loop" ELSE wpc[w]
    BY WakeAllWorkers
  <2>q. QED
    BY <1>26, <2>1, ClientsAssumption DEF Adjust, fin, KillSignal, BroadcastHasQueued, vars
<1>27. ASSUME NEW c \in Clients, DestroyBegin(c) PROVE CreateInv' /\ DoomedAreJoined'
  BY <1>27, ClientsAssumption DEF DestroyBegin, vars, fin
<1>28. ASSUME NEW c \in Clients, ExitBegin(c) PROVE CreateInv' /\ DoomedAreJoined'
  BY <1>28, ClientsAssumption DEF ExitBegin, vars, fin
<1>29. ASSUME NEW c \in Clients, AddSpurious(c) PROVE CreateInv' /\ DoomedAreJoined'
  BY <1>29, ClientsAssumption DEF AddSpurious, vars, fin
<1>30. CASE UNCHANGED vars
  BY <1>30 DEF vars, fin
<1>q. QED
  BY <1>1, <1>2, <1>3, <1>4, <1>5, <1>6, <1>7, <1>8, <1>9, <1>10, <1>11, <1>12,
     <1>13, <1>14, <1>15, <1>16, <1>17, <1>18, <1>19, <1>20, <1>21, <1>22, <1>23, <1>24,
     <1>25, <1>26, <1>27, <1>28, <1>29, <1>30
  DEF Next, WorkerStep, ClientStep, ClientCall

-----------------------------------------------------------------------------
\* The initial state.
LEMMA BaseInit == Init => BaseInv
<1> SUFFICES ASSUME Init PROVE BaseInv
  OBVIOUS
<1> USE MaxThreadsAssumption, MaxJobsAssumption DEF Init
<1>1. num_threads \in 1 .. MaxThreads
  OBVIOUS
<1>2. RingType
  BY DEF RingType, Slots
<1>3. ThreadsType
  BY <1>1 DEF ThreadsType, WorkerPCs, Workers
<1>4. ClientsType
  BY DEF ClientsType, ClientPCs
<1>5. FlagsType
  BY DEF FlagsType
<1>6. HoldInv
  BY DEF HoldInv, Busy, Blocked, Dropping
<1>7. LockInv /\ CreateInv
  BY DEF LockInv, InFinish, Blocked, CreateInv
<1>8. DoomedAreJoined
  BY <1>1 DEF DoomedAreJoined, Workers
<1>q. QED
  BY <1>2, <1>3, <1>4, <1>5, <1>6, <1>7, <1>8 DEF BaseInv, TypeOK

\* All of it, step by step.
LEMMA BaseStep == BaseInv /\ [Next]_vars => BaseInv'
  BY RingTypeStep, ThreadsTypeStep, ClientsTypeStep, FlagsTypeStep, HoldStep, LockStep,
     DoomedStep
  DEF BaseInv, TypeOK

\* The base of all other results: types, who holds what, who owns finish_lock and
\* which threads are being joined, in every reachable state.
THEOREM BaseInvariant == Spec => []BaseInv
  BY BaseInit, BaseStep, PTL DEF Spec

\* Type correctness of the queue: the ring indices stay inside of the ring however
\* it is resized, and workers and clients are always at a known place.
THEOREM TypeCorrect == Spec => []TypeOK
<1>1. BaseInv => TypeOK
  BY DEF BaseInv
<1>q. QED
  BY BaseInvariant, <1>1, PTL

\* A worker above num_threads is alive only while its killer joins it.
THEOREM DoomedJoined == Spec => []DoomedAreJoined
<1>1. BaseInv => DoomedAreJoined
  BY DEF BaseInv
<1>q. QED
  BY BaseInvariant, <1>1, PTL

\* The barrier of util_queue_finish counts the workers there are.
THEOREM FinishPinned == Spec => []FinishPinsThreads
<1>1. BaseInv => FinishPinsThreads
  BY DEF BaseInv, LockInv, InFinish, FinishPinsThreads
<1>q. QED
  BY BaseInvariant, <1>1, PTL


-----------------------------------------------------------------------------
(***************************************************************************)
(* The ring                                                                 *)
(***************************************************************************)

\* Until shutdown there is a worker.
KilledInv == num_threads = 0 => killed

\* Only a shutdown brings num_threads to 0.
LEMMA KilledStep == BaseInv /\ KilledInv /\ [Next]_vars => KilledInv'
<1> SUFFICES ASSUME BaseInv, KilledInv, [Next]_vars PROVE KilledInv'
  OBVIOUS
<1> USE DEF KilledInv, vars
<1>1. ASSUME NEW w \in Workers, WorkerSleep(w) PROVE KilledInv'
  BY <1>1 DEF WorkerSleep
<1>2. ASSUME NEW w \in Workers, WorkerTake(w) PROVE KilledInv'
  BY <1>2 DEF WorkerTake
<1>3. ASSUME NEW w \in Workers, WorkerExecute(w) PROVE KilledInv'
  BY <1>3 DEF WorkerExecute
<1>4. ASSUME NEW w \in Workers, WorkerBarrier(w) PROVE KilledInv'
  BY <1>4 DEF WorkerBarrier, BarrierOpens
<1>5. ASSUME NEW w \in Workers, WorkerSignal(w) PROVE KilledInv'
  BY <1>5 DEF WorkerSignal
<1>6. ASSUME NEW w \in Workers, WorkerCleanup(w) PROVE KilledInv'
  BY <1>6 DEF WorkerCleanup
<1>7. ASSUME NEW w \in Workers, WorkerLeave(w) PROVE KilledInv'
  BY <1>7 DEF WorkerLeave
<1>8. ASSUME NEW w \in Workers, WorkerDrain(w) PROVE KilledInv'
  BY <1>8 DEF WorkerDrain
<1>9. ASSUME NEW w \in Workers, WorkerSpurious(w) PROVE KilledInv'
  BY <1>9 DEF WorkerSpurious
<1>10. ASSUME NEW c \in Clients, AddWoken(c) PROVE KilledInv'
  BY <1>10, AddWokenCases
<1>11. ASSUME NEW c \in Clients, DropSearch(c) PROVE KilledInv'
  BY <1>11 DEF DropSearch, ClearSlot, AfterRemoval
<1>12. ASSUME NEW c \in Clients, DropSignal(c) PROVE KilledInv'
  BY <1>12 DEF DropSignal
<1>13. ASSUME NEW c \in Clients, DropWait(c) PROVE KilledInv'
  BY <1>13 DEF DropWait
<1>14. ASSUME NEW c \in Clients, FinishAdd(c) PROVE KilledInv'
  BY <1>14, AddJobCases DEF FinishAdd
<1>15. ASSUME NEW c \in Clients, FinishAdded(c) PROVE KilledInv'
  BY <1>15 DEF FinishAdded
<1>16. ASSUME NEW c \in Clients, FinishReturn(c) PROVE KilledInv'
  BY <1>16 DEF FinishReturn, FinishWaited
<1>17. ASSUME NEW c \in Clients, CreateThread(c) PROVE KilledInv'
  BY <1>17 DEF CreateThread
<1>18. ASSUME NEW c \in Clients, JoinThreads(c) PROVE KilledInv'
  BY <1>18 DEF JoinThreads, Joined
<1>19. ASSUME NEW c \in Clients, DestroyKill(c) PROVE KilledInv'
  BY <1>19 DEF DestroyKill, KillAll, KillSignal, BroadcastHasQueued
<1>20. ASSUME NEW c \in Clients, DestroyUnlist(c) PROVE KilledInv'
  BY <1>20 DEF DestroyUnlist
<1>21. ASSUME NEW c \in Clients, ExitKill(c) PROVE KilledInv'
  BY <1>21 DEF ExitKill, KillAll, KillSignal, BroadcastHasQueued
<1>22. ASSUME NEW c \in Clients, ExitEnd(c) PROVE KilledInv'
  BY <1>22 DEF ExitEnd
<1>23. ASSUME NEW c \in Clients, ClientAdd(c) PROVE KilledInv'
  BY <1>23, ClientAddJob, AddJobCases
<1>24. ASSUME NEW c \in Clients, DropBegin(c) PROVE KilledInv'
  BY <1>24 DEF DropBegin
<1>25. ASSUME NEW c \in Clients, FinishBegin(c) PROVE KilledInv'
  BY <1>25 DEF FinishBegin, Pending, BarrierSize
<1>26. ASSUME NEW c \in Clients, Adjust(c) PROVE KilledInv'
  BY <1>26 DEF Adjust, KillSignal, BroadcastHasQueued
<1>27. ASSUME NEW c \in Clients, DestroyBegin(c) PROVE KilledInv'
  BY <1>27 DEF DestroyBegin
<1>28. ASSUME NEW c \in Clients, ExitBegin(c) PROVE KilledInv'
  BY <1>28 DEF ExitBegin
<1>29. ASSUME NEW c \in Clients, AddSpurious(c) PROVE KilledInv'
  BY <1>29 DEF AddSpurious
<1>30. CASE UNCHANGED vars
  BY <1>30
<1>q. QED
  BY <1>1, <1>2, <1>3, <1>4, <1>5, <1>6, <1>7, <1>8, <1>9, <1>10, <1>11, <1>12,
     <1>13, <1>14, <1>15, <1>16, <1>17, <1>18, <1>19, <1>20, <1>21, <1>22, <1>23, <1>24,
     <1>25, <1>26, <1>27, <1>28, <1>29, <1>30
  DEF Next, WorkerStep, ClientStep, ClientCall

\* Storing a job extends the window by one slot, in a resized ring too.
LEMMA AddDoneConsistent ==
  ASSUME RingType, RingConsistent, ~killed, NEW c, NEW f \in Tokens, AddDone(c, f)
  PROVE  /\ num_queued' \in 0 .. max_jobs'
         /\ write_idx' = IF read_idx' + num_queued' < max_jobs'
                         THEN read_idx' + num_queued'
                         ELSE read_idx' + num_queued' - max_jobs'
         /\ \A i \in Slots' : jobs'[i] # NoJob => InWindow(i)'
<1> USE MaxJobsAssumption DEF RingType, RingConsistent, Slots, InWindow
<1>1. CASE AddToSlot(c, f)
  <2>1. write_idx' = IF write_idx + 1 < max_jobs THEN write_idx + 1 ELSE 0
    BY <1>1, NextIndex DEF AddToSlot, AddStore, SignalHasQueued, NextSlot
  <2>2. /\ read_idx' = read_idx /\ max_jobs' = max_jobs
        /\ num_queued' = num_queued + 1 /\ num_queued < max_jobs
        /\ jobs' = [jobs EXCEPT ![write_idx] = f]
    BY <1>1 DEF AddToSlot, AddStore, SignalHasQueued, NextSlot, Full
  <2>3. \A i \in Slots' : jobs'[i] # NoJob => InWindow(i)'
    BY <2>2
  <2>q. QED
    BY <2>1, <2>2, <2>3
<1>2. CASE AddResized(c, f)
  <2> DEFINE m == max_jobs + ResizeStep
  <2>1. /\ read_idx' = 0 /\ max_jobs' = m
        /\ num_queued' = num_queued + 1 /\ num_queued = max_jobs
        /\ write_idx' = (max_jobs + 1) % m
    BY <1>2 DEF AddResized, ReadAfterResize, AddStore, SignalHasQueued, NextSlot, Full
  <2>2. m \in Nat \ {0} /\ max_jobs \in 0 .. m - 1
    OBVIOUS
  <2>3. (max_jobs + 1) % m = IF max_jobs + 1 < m THEN max_jobs + 1 ELSE 0
    BY <2>2, NextIndex
  <2>4. \A i \in 0 .. m - 1 : i > max_jobs => jobs'[i] = NoJob
    BY <1>2, <2>2 DEF AddResized, ReadAfterResize, AddStore, SignalHasQueued, NextSlot
  <2>q. QED
    BY <2>1, <2>2, <2>3, <2>4
<1>q. QED
  BY <1>1, <1>2 DEF AddDone

\* Every step keeps indices, count and cleared slots in agreement until shutdown.
LEMMA RingStep ==
  BaseInv /\ KilledInv /\ RingConsistent /\ [Next]_vars => RingConsistent'
<1> SUFFICES ASSUME RingType, ClientsType, ThreadsType, HoldInv, KilledInv,
                    RingConsistent, [Next]_vars
             PROVE  RingConsistent'
  BY DEF BaseInv, TypeOK
<1> USE DEF RingConsistent, Slots, InWindow
<1>1. ASSUME NEW w \in Workers, WorkerSleep(w) PROVE RingConsistent'
  BY <1>1 DEF WorkerSleep, vars, ring
<1>2. ASSUME NEW w \in Workers, WorkerTake(w) PROVE RingConsistent'
  <2> SUFFICES ASSUME ~killed PROVE RingConsistent'
    BY <1>2 DEF WorkerTake, NextSlot
  <2>1. (read_idx + 1) % max_jobs = IF read_idx + 1 < max_jobs THEN read_idx + 1 ELSE 0
    BY NextIndex DEF RingType
  <2>2. /\ read_idx' = (read_idx + 1) % max_jobs
        /\ num_queued' = num_queued - 1 /\ num_queued # 0
        /\ jobs' = [jobs EXCEPT ![read_idx] = NoJob]
        /\ UNCHANGED <<max_jobs, write_idx>>
    BY <1>2 DEF WorkerTake, NextSlot
  <2>3. /\ read_idx \in 0 .. max_jobs - 1 /\ max_jobs \in Nat
        /\ num_queued \in 1 .. max_jobs
    BY <2>2 DEF RingType
  <2>4. ASSUME NEW i \in Slots', jobs'[i] # NoJob PROVE InWindow(i)'
    <3>1. i \in Slots /\ i \in Int /\ i # read_idx /\ jobs[i] # NoJob
      BY <2>2, <2>4 DEF RingType
    <3>2. InWindow(i)
      BY <3>1
    <3>3. CASE read_idx + 1 < max_jobs
      BY <2>1, <2>2, <2>3, <3>1, <3>2, <3>3
    <3>4. CASE ~(read_idx + 1 < max_jobs)
      BY <2>1, <2>2, <2>3, <3>1, <3>2, <3>4
    <3>q. QED
      BY <3>3, <3>4
  <2>q. QED
    BY <2>1, <2>2, <2>3, <2>4 DEF RingType
<1>3. ASSUME NEW w \in Workers, WorkerExecute(w) PROVE RingConsistent'
  BY <1>3 DEF WorkerExecute, vars, ring
<1>4. ASSUME NEW w \in Workers, WorkerBarrier(w) PROVE RingConsistent'
  BY <1>4 DEF WorkerBarrier, BarrierOpens, vars, ring
<1>5. ASSUME NEW w \in Workers, WorkerSignal(w) PROVE RingConsistent'
  BY <1>5 DEF WorkerSignal, vars, ring
<1>6. ASSUME NEW w \in Workers, WorkerCleanup(w) PROVE RingConsistent'
  BY <1>6 DEF WorkerCleanup, vars, ring
<1>7. ASSUME NEW w \in Workers, WorkerLeave(w) PROVE RingConsistent'
  BY <1>7 DEF WorkerLeave, vars, ring
<1>8. ASSUME NEW w \in Workers, WorkerDrain(w) PROVE RingConsistent'
  <2>1. CASE num_threads = 0
    BY <1>8, <2>1 DEF WorkerDrain, KilledInv
  <2>2. CASE num_threads # 0
    BY <1>8, <2>2 DEF WorkerDrain
  <2>q. QED
    BY <2>1, <2>2
<1>9. ASSUME NEW w \in Workers, WorkerSpurious(w) PROVE RingConsistent'
  BY <1>9 DEF WorkerSpurious, vars, ring
<1>10. ASSUME NEW c \in Clients, AddWoken(c) PROVE RingConsistent'
  <2>1. arg[c] \in Tokens /\ killed' = killed
    BY <1>10, AddWokenCases DEF HoldInv, Blocked
  <2>2. CASE AddDone(c, arg[c])
    BY <2>1, <2>2, AddDoneConsistent
  <2>q. QED
    BY <1>10, <2>1, <2>2, AddWokenCases DEF ring
<1>11. ASSUME NEW c \in Clients, DropSearch(c) PROVE RingConsistent'
  BY <1>11 DEF DropSearch, ClearSlot, AfterRemoval, RingType
<1>12. ASSUME NEW c \in Clients, DropSignal(c) PROVE RingConsistent'
  BY <1>12 DEF DropSignal, vars, ring
<1>13. ASSUME NEW c \in Clients, DropWait(c) PROVE RingConsistent'
  BY <1>13 DEF DropWait, vars, ring
<1>14. ASSUME NEW c \in Clients, FinishAdd(c) PROVE RingConsistent'
  <2>1. lo \in Tokens /\ AddJob(c, lo)
    BY <1>14, FinishAddJob, TokensDistinct
  <2>2. CASE AddDone(c, lo) /\ killed' = killed
    BY <2>1, <2>2, AddDoneConsistent
  <2>q. QED
    BY <2>1, <2>2, AddJobCases DEF vars, ring, AddBlocks
<1>15. ASSUME NEW c \in Clients, FinishAdded(c) PROVE RingConsistent'
  BY <1>15 DEF FinishAdded, vars, ring
<1>16. ASSUME NEW c \in Clients, FinishReturn(c) PROVE RingConsistent'
  BY <1>16 DEF FinishReturn, FinishWaited, vars, ring
<1>17. ASSUME NEW c \in Clients, CreateThread(c) PROVE RingConsistent'
  BY <1>17 DEF CreateThread, vars, ring
<1>18. ASSUME NEW c \in Clients, JoinThreads(c) PROVE RingConsistent'
  BY <1>18 DEF JoinThreads, Joined, vars, ring
<1>19. ASSUME NEW c \in Clients, DestroyKill(c) PROVE RingConsistent'
  BY <1>19 DEF DestroyKill, KillAll, KillSignal, BroadcastHasQueued, vars, ring
<1>20. ASSUME NEW c \in Clients, DestroyUnlist(c) PROVE RingConsistent'
  BY <1>20 DEF DestroyUnlist, vars, ring
<1>21. ASSUME NEW c \in Clients, ExitKill(c) PROVE RingConsistent'
  BY <1>21 DEF ExitKill, KillAll, KillSignal, BroadcastHasQueued, vars, ring
<1>22. ASSUME NEW c \in Clients, ExitEnd(c) PROVE RingConsistent'
  BY <1>22 DEF ExitEnd, vars, ring
<1>23. ASSUME NEW c \in Clients, ClientAdd(c) PROVE RingConsistent'
  <2>1. PICK j \in Jobs : AddJob(c, j)
    BY <1>23, ClientAddJob
  <2>2. j \in Tokens
    BY TokensDistinct
  <2>3. CASE AddDone(c, j) /\ killed' = killed
    BY <2>2, <2>3, AddDoneConsistent
  <2>q. QED
    BY <2>1, <2>3, AddJobCases DEF vars, ring, AddBlocks
<1>24. ASSUME NEW c \in Clients, DropBegin(c) PROVE RingConsistent'
  BY <1>24 DEF DropBegin, vars, ring
<1>25. ASSUME NEW c \in Clients, FinishBegin(c) PROVE RingConsistent'
  BY <1>25 DEF FinishBegin, BarrierSize, vars, ring
<1>26. ASSUME NEW c \in Clients, Adjust(c) PROVE RingConsistent'
  BY <1>26 DEF Adjust, KillSignal, BroadcastHasQueued, vars, ring
<1>27. ASSUME NEW c \in Clients, DestroyBegin(c) PROVE RingConsistent'
  BY <1>27 DEF DestroyBegin, vars, ring
<1>28. ASSUME NEW c \in Clients, ExitBegin(c) PROVE RingConsistent'
  BY <1>28 DEF ExitBegin, vars, ring
<1>29. ASSUME NEW c \in Clients, AddSpurious(c) PROVE RingConsistent'
  BY <1>29 DEF AddSpurious, vars, ring
<1>30. CASE UNCHANGED vars
  BY <1>30 DEF vars, ring
<1>q. QED
  BY <1>1, <1>2, <1>3, <1>4, <1>5, <1>6, <1>7, <1>8, <1>9, <1>10, <1>11, <1>12,
     <1>13, <1>14, <1>15, <1>16, <1>17, <1>18, <1>19, <1>20, <1>21, <1>22, <1>23, <1>24,
     <1>25, <1>26, <1>27, <1>28, <1>29, <1>30
  DEF Next, WorkerStep, ClientStep, ClientCall

\* num_queued, the two indices and the slots agree until shutdown, for every
\* ring size: the assertions of util_queue_add_job and of the worker's loop hold.
THEOREM RingCorrect == Spec => []RingConsistent
<1>1. Init => KilledInv /\ RingConsistent
  BY MaxThreadsAssumption, MaxJobsAssumption DEF Init, KilledInv, RingConsistent, Slots
<1>q. QED
  BY <1>1, BaseInvariant, KilledStep, RingStep, PTL DEF Spec

-----------------------------------------------------------------------------
(***************************************************************************)
(* No wakeup is lost                                                        *)
(***************************************************************************)

\* SomeoneAwake, and why a signal is not lost on a terminated worker: no worker above
\* num_threads waits.
AwakeInv ==
  SomeoneAwake /\ \A w \in Workers : w >= num_threads => wpc[w] # "wait"


\* A stored job wakes a worker that will take it, unless one is awake.
LEMMA AddDoneAwake ==
  ASSUME ThreadsType, AwakeInv, NEW c, NEW f, AddDone(c, f), num_threads' = num_threads
  PROVE  AwakeInv'
<1> USE MaxThreadsAssumption DEF ThreadsType, Workers
<1>1. wpc' \in Notify(wpc, "wait", "loop")
  BY DEF AddDone, AddToSlot, AddResized, AddStore, SignalHasQueued
<1>2. \A w \in Workers : wpc'[w] = wpc[w] \/ (wpc[w] = "wait" /\ wpc'[w] = "loop")
  BY <1>1, WakeWorker
<1>3. CASE \A w \in Workers : wpc[w] # "wait"
  BY <1>2, <1>3 DEF AwakeInv, SomeoneAwake
<1>4. CASE \E w \in Workers : wpc[w] = "wait"
  <2>1. PICK w \in Workers : wpc[w] = "wait" /\ wpc' = [wpc EXCEPT ![w] = "loop"]
    BY <1>1, <1>4 DEF Notify
  <2>2. w < num_threads /\ wpc'[w] # "wait"
    BY <2>1 DEF AwakeInv
  <2>q. QED
    BY <1>2, <2>2 DEF AwakeInv, SomeoneAwake
<1>q. QED
  BY <1>3, <1>4

\* A worker falls asleep when there is nothing to do, and is woken when there is.
LEMMA AwakeStep == BaseInv /\ AwakeInv /\ [Next]_vars => AwakeInv'
<1> SUFFICES ASSUME RingType, ThreadsType, ClientsType, AwakeInv, [Next]_vars
             PROVE  AwakeInv'
  BY DEF BaseInv, TypeOK
<1> USE MaxThreadsAssumption DEF AwakeInv, SomeoneAwake, ThreadsType, Workers
<1>1. ASSUME NEW w \in Workers, WorkerSleep(w) PROVE AwakeInv'
  BY <1>1 DEF WorkerSleep, vars, ring
<1>2. ASSUME NEW w \in Workers, WorkerTake(w) PROVE AwakeInv'
  <2>1. \A c \in Clients :
          pc'[c] = pc[c] \/ (pc[c] = "space_wait" /\ pc'[c] = "space_woken")
    BY <1>2, WakeClient DEF WorkerTake
  <2>q. QED
    BY <1>2, <2>1 DEF WorkerTake, NextSlot, vars, ring
<1>3. ASSUME NEW w \in Workers, WorkerExecute(w) PROVE AwakeInv'
  BY <1>3 DEF WorkerExecute, vars, ring
<1>4. ASSUME NEW w \in Workers, WorkerBarrier(w) PROVE AwakeInv'
  BY <1>4 DEF WorkerBarrier, BarrierOpens, vars, ring
<1>5. ASSUME NEW w \in Workers, WorkerSignal(w) PROVE AwakeInv'
  BY <1>5 DEF WorkerSignal, vars, ring
<1>6. ASSUME NEW w \in Workers, WorkerCleanup(w) PROVE AwakeInv'
  BY <1>6 DEF WorkerCleanup, vars, ring
<1>7. ASSUME NEW w \in Workers, WorkerLeave(w) PROVE AwakeInv'
  BY <1>7 DEF WorkerLeave, vars, ring
<1>8. ASSUME NEW w \in Workers, WorkerDrain(w) PROVE AwakeInv'
  <2>1. CASE num_threads = 0
    BY <1>8, <2>1 DEF WorkerDrain
  <2>2. CASE num_threads # 0
    BY <1>8, <2>2 DEF WorkerDrain
  <2>q. QED
    BY <2>1, <2>2
<1>9. ASSUME NEW w \in Workers, WorkerSpurious(w) PROVE AwakeInv'
  BY <1>9 DEF WorkerSpurious, vars, ring
<1>10. ASSUME NEW c \in Clients, AddWoken(c) PROVE AwakeInv'
  <2>1. UNCHANGED num_threads
    BY <1>10, AddWokenCases
  <2>2. CASE AddDone(c, arg[c])
    BY <2>1, <2>2, AddDoneAwake
  <2>q. QED
    BY <1>10, <2>1, <2>2, AddWokenCases DEF ring
<1>11. ASSUME NEW c \in Clients, DropSearch(c) PROVE AwakeInv'
  BY <1>11 DEF DropSearch, ClearSlot, AfterRemoval, vars, ring
<1>12. ASSUME NEW c \in Clients, DropSignal(c) PROVE AwakeInv'
  BY <1>12 DEF DropSignal, vars, ring
<1>13. ASSUME NEW c \in Clients, DropWait(c) PROVE AwakeInv'
  BY <1>13 DEF DropWait, vars, ring
<1>14. ASSUME NEW c \in Clients, FinishAdd(c) PROVE AwakeInv'
  <2>1. AddJob(c, lo)
    BY <1>14 DEF FinishAdd
  <2>d. CASE AddDone(c, lo) /\ UNCHANGED num_threads
    BY <2>d, AddDoneAwake
  <2>q. QED
    BY <2>1, <2>d, AddJobCases DEF vars, ring, AddBlocks
<1>15. ASSUME NEW c \in Clients, FinishAdded(c) PROVE AwakeInv'
  BY <1>15 DEF FinishAdded, vars, ring
<1>16. ASSUME NEW c \in Clients, FinishReturn(c) PROVE AwakeInv'
  BY <1>16 DEF FinishReturn, FinishWaited, vars, ring
<1>17. ASSUME NEW c \in Clients, CreateThread(c) PROVE AwakeInv'
  BY <1>17 DEF CreateThread, vars, ring
<1>18. ASSUME NEW c \in Clients, JoinThreads(c) PROVE AwakeInv'
  BY <1>18 DEF JoinThreads, Joined, vars, ring
<1>19. ASSUME NEW c \in Clients, DestroyKill(c) PROVE AwakeInv'
  <2>1. \A v \in Workers : NotifyAll(wpc, "wait", "loop")[v]
                             = IF wpc[v] = "wait" THEN "loop" ELSE wpc[v]
    BY WakeAllWorkers
  <2>q. QED
    BY <1>19, <2>1 DEF DestroyKill, KillAll, KillSignal, BroadcastHasQueued, vars, ring
<1>20. ASSUME NEW c \in Clients, DestroyUnlist(c) PROVE AwakeInv'
  BY <1>20 DEF DestroyUnlist, ExitMutexFree, vars, ring
<1>21. ASSUME NEW c \in Clients, ExitKill(c) PROVE AwakeInv'
  <2>1. \A v \in Workers : NotifyAll(wpc, "wait", "loop")[v]
                             = IF wpc[v] = "wait" THEN "loop" ELSE wpc[v]
    BY WakeAllWorkers
  <2>q. QED
    BY <1>21, <2>1 DEF ExitKill, KillAll, KillSignal, BroadcastHasQueued, vars, ring
<1>22. ASSUME NEW c \in Clients, ExitEnd(c) PROVE AwakeInv'
  BY <1>22 DEF ExitEnd, vars, ring
<1>23. ASSUME NEW c \in Clients, ClientAdd(c) PROVE AwakeInv'
  <2>1. PICK j \in Jobs : AddJob(c, j)
    BY <1>23, ClientAddJob
  <2>d. CASE AddDone(c, j) /\ UNCHANGED num_threads
    BY <2>d, AddDoneAwake
  <2>q. QED
    BY <2>1, <2>d, AddJobCases DEF vars, ring, AddBlocks
<1>24. ASSUME NEW c \in Clients, DropBegin(c) PROVE AwakeInv'
  BY <1>24 DEF DropBegin, vars, ring
<1>25. ASSUME NEW c \in Clients, FinishBegin(c) PROVE AwakeInv'
  BY <1>25 DEF FinishBegin, BarrierSize, vars, ring
<1>26. ASSUME NEW c \in Clients, Adjust(c) PROVE AwakeInv'
  <2>1. \A v \in Workers : NotifyAll(wpc, "wait", "loop")[v]
                             = IF wpc[v] = "wait" THEN "loop" ELSE wpc[v]
    BY WakeAllWorkers
  <2>q. QED
    BY <1>26, <2>1 DEF Adjust, KillSignal, BroadcastHasQueued, vars, ring
<1>27. ASSUME NEW c \in Clients, DestroyBegin(c) PROVE AwakeInv'
  BY <1>27 DEF DestroyBegin, vars, ring
<1>28. ASSUME NEW c \in Clients, ExitBegin(c) PROVE AwakeInv'
  BY <1>28 DEF ExitBegin, ExitMutexFree, vars, ring
<1>29. ASSUME NEW c \in Clients, AddSpurious(c) PROVE AwakeInv'
  BY <1>29 DEF AddSpurious, vars, ring
<1>30. CASE UNCHANGED vars
  BY <1>30 DEF vars, ring
<1>q. QED
  BY <1>1, <1>2, <1>3, <1>4, <1>5, <1>6, <1>7, <1>8, <1>9, <1>10, <1>11, <1>12,
     <1>13, <1>14, <1>15, <1>16, <1>17, <1>18, <1>19, <1>20, <1>21, <1>22, <1>23, <1>24,
     <1>25, <1>26, <1>27, <1>28, <1>29, <1>30
  DEF Next, WorkerStep, ClientStep, ClientCall

\* Jobs are never left in the ring with every worker asleep, for any number of
\* workers, also when threads are terminated or could not be created.
THEOREM NobodySleepsOnJobs == Spec => []SomeoneAwake
<1>1. Init => AwakeInv
  BY MaxThreadsAssumption DEF Init, AwakeInv, SomeoneAwake, Workers
<1>2. AwakeInv => SomeoneAwake
  BY DEF AwakeInv
<1>q. QED
  BY <1>1, <1>2, BaseInvariant, AwakeStep, PTL DEF Spec

-----------------------------------------------------------------------------
(***************************************************************************)
(* The end of the queue                                                     *)
(***************************************************************************)

\* The one client that is destroying the queue.
Destroyer(c) ==
  \/ pc[c] \in {"destroy_kill", "destroy_unlist"}
  \/ closing /\ pc[c] = "join" /\ exit_mutex # c

\* No threads, and nobody who could make some.
Empty == num_threads = 0 /\ \A w \in Workers : wpc[w] = "none"

\* Where the clients may be once util_queue_destroy has been called.
ClosingPCs == {"idle", "join", "destroy_kill", "destroy_unlist", "exit_kill",
               "exit_unlock", "gone"}

\* What keeps the end of the queue in order: the exit handler holds exit_mutex while it
\* uses the queue, which is then in the list, and only one client destroys it.
ExitInv ==
  \A c \in Clients :
    /\ pc[c] \in {"exit_kill", "exit_unlock"} => exit_mutex = c
    /\ exit_mutex = c => pc[c] \in {"exit_kill", "exit_unlock", "join"}
    /\ exit_mutex = c /\ pc[c] \in {"exit_kill", "join"} => listed

DestroyInv ==
  /\ listed = ~destroyed
  /\ destroyed => closing /\ Empty
  /\ \A c \in Clients :
       /\ pc[c] = "join" => lo = num_threads
       /\ pc[c] = "join" /\ exit_mutex # c /\ lo = 0 => closing
       /\ Destroyer(c) => closing /\ ~destroyed
       /\ closing => pc[c] \in ClosingPCs
       /\ pc[c] = "destroy_unlist" => Empty
  /\ \A c, d \in Clients : Destroyer(c) /\ Destroyer(d) => c = d

LifeInv == ExitInv /\ DestroyInv


\* The queue is freed when its threads are joined, by one client, while no exit
\* handler uses it.
LEMMA LifeStep == BaseInv /\ LifeInv /\ [Next]_vars => LifeInv'
<1> SUFFICES ASSUME RingType, ThreadsType, ClientsType, FlagsType, LockInv, CreateInv,
                    DoomedAreJoined, LifeInv, [Next]_vars
             PROVE  LifeInv'
  BY DEF BaseInv, TypeOK
<1> USE MaxThreadsAssumption
    DEF LifeInv, ExitInv, DestroyInv, Destroyer, Empty, ClosingPCs, ThreadsType,
        ClientsType, FlagsType, Workers, life
<1>1. ASSUME NEW w \in Workers, WorkerSleep(w) PROVE LifeInv'
  BY <1>1, ClientsAssumption DEF WorkerSleep, vars, fin
<1>2. ASSUME NEW w \in Workers, WorkerTake(w) PROVE LifeInv'
  <2>1. \A c \in Clients :
          pc'[c] = pc[c] \/ (pc[c] = "space_wait" /\ pc'[c] = "space_woken")
    BY <1>2, WakeClient DEF WorkerTake
  <2>q. QED
    BY <1>2, <2>1, ClientsAssumption DEF WorkerTake, NextSlot, vars, fin
<1>3. ASSUME NEW w \in Workers, WorkerExecute(w) PROVE LifeInv'
  BY <1>3, ClientsAssumption DEF WorkerExecute, vars, fin
<1>4. ASSUME NEW w \in Workers, WorkerBarrier(w) PROVE LifeInv'
  BY <1>4, ClientsAssumption DEF WorkerBarrier, BarrierOpens, vars, fin
<1>5. ASSUME NEW w \in Workers, WorkerSignal(w) PROVE LifeInv'
  BY <1>5, ClientsAssumption DEF WorkerSignal, vars, fin
<1>6. ASSUME NEW w \in Workers, WorkerCleanup(w) PROVE LifeInv'
  BY <1>6, ClientsAssumption DEF WorkerCleanup, vars, fin
<1>7. ASSUME NEW w \in Workers, WorkerLeave(w) PROVE LifeInv'
  BY <1>7, ClientsAssumption DEF WorkerLeave, vars, fin
<1>8. ASSUME NEW w \in Workers, WorkerDrain(w) PROVE LifeInv'
  BY <1>8, ClientsAssumption DEF WorkerDrain, vars, fin
<1>9. ASSUME NEW w \in Workers, WorkerSpurious(w) PROVE LifeInv'
  BY <1>9, ClientsAssumption DEF WorkerSpurious, vars, fin
<1>10. ASSUME NEW c \in Clients, AddWoken(c) PROVE LifeInv'
  <2>1. UNCHANGED <<num_threads, life>> /\ pc[c] = "space_woken"
    BY <1>10, AddWokenCases
  <2>2. CASE AddDone(c, arg[c])
    <3>1. AddReturns(c, arg[c]) /\ (Empty => \A w \in Workers : wpc'[w] = wpc[w])
      BY <2>2, AddDoneRest DEF Empty
    <3>q. QED
      BY <2>1, <3>1 DEF AddReturns, LockInv, InFinish, Blocked
  <2>3. CASE pc' = [pc EXCEPT ![c] = "space_wait"] /\ UNCHANGED <<ring, arg, lo, wpc>>
    BY <2>1, <2>3
  <2>q. QED
    BY <1>10, <2>2, <2>3, AddWokenCases
<1>11. ASSUME NEW c \in Clients, DropSearch(c) PROVE LifeInv'
  BY <1>11, ClientsAssumption DEF DropSearch, ClearSlot, AfterRemoval, vars, fin
<1>12. ASSUME NEW c \in Clients, DropSignal(c) PROVE LifeInv'
  BY <1>12, ClientsAssumption DEF DropSignal, vars, fin
<1>13. ASSUME NEW c \in Clients, DropWait(c) PROVE LifeInv'
  BY <1>13, ClientsAssumption DEF DropWait, vars, fin
<1>14. ASSUME NEW c \in Clients, FinishAdd(c) PROVE LifeInv'
  <2>1. pc[c] = "fin_add" /\ AddJob(c, lo)
    BY <1>14 DEF FinishAdd
  <2>s. CASE UNCHANGED vars
    BY <2>s DEF vars, fin
  <2>d. CASE AddDone(c, lo) /\ UNCHANGED <<num_threads, life>> /\ num_threads # 0
    <3>1. AddReturns(c, lo)
      BY <2>d, AddDoneRest
    <3>q. QED
      BY <2>1, <2>d, <3>1, TokensDistinct DEF AddReturns, LockInv, InFinish
  <2>b. CASE AddBlocks(c, lo) /\ UNCHANGED <<num_threads, life>> /\ num_threads # 0
    BY <2>1, <2>b DEF AddBlocks
  <2>q. QED
    BY <2>1, <2>s, <2>d, <2>b, AddJobCases
<1>15. ASSUME NEW c \in Clients, FinishAdded(c) PROVE LifeInv'
  BY <1>15, ClientsAssumption DEF FinishAdded, vars, fin
<1>16. ASSUME NEW c \in Clients, FinishReturn(c) PROVE LifeInv'
  BY <1>16, ClientsAssumption DEF FinishReturn, FinishWaited, vars, fin
<1>17. ASSUME NEW c \in Clients, CreateThread(c) PROVE LifeInv'
  BY <1>17, ClientsAssumption DEF CreateThread, vars, fin
<1>18. ASSUME NEW c \in Clients, JoinThreads(c) PROVE LifeInv'
  <2>1. finish_lock = c /\ lo = num_threads
    BY <1>18 DEF JoinThreads, LockInv
  <2>2. \A d \in Clients \ {c} : pc[d] # "join"
    BY <2>1 DEF LockInv
  <2>3. lo = 0 => Empty'
    BY <1>18, <2>1, <2>2, ClientsAssumption DEF JoinThreads, Joined, DoomedAreJoined
  <2>q. QED
    BY <1>18, <2>1, <2>2, <2>3 DEF JoinThreads
<1>19. ASSUME NEW c \in Clients, DestroyKill(c) PROVE LifeInv'
  <2>1. \A v \in Workers : NotifyAll(wpc, "wait", "loop")[v]
                             = IF wpc[v] = "wait" THEN "loop" ELSE wpc[v]
    BY WakeAllWorkers
  <2>2. \A d \in Clients : pc[d] # "join"
    BY <1>19, ClientsAssumption DEF DestroyKill, KillAll, LockInv
  <2>3. num_threads = 0 => Empty
    BY <1>19, <2>2 DEF DoomedAreJoined
  <2>q. QED
    BY <1>19, <2>1, <2>2, <2>3 DEF DestroyKill, KillAll, KillSignal, BroadcastHasQueued, vars, fin
<1>20. ASSUME NEW c \in Clients, DestroyUnlist(c) PROVE LifeInv'
  BY <1>20, ClientsAssumption DEF DestroyUnlist, ExitMutexFree, vars, fin
<1>21. ASSUME NEW c \in Clients, ExitKill(c) PROVE LifeInv'
  <2>1. \A v \in Workers : NotifyAll(wpc, "wait", "loop")[v]
                             = IF wpc[v] = "wait" THEN "loop" ELSE wpc[v]
    BY WakeAllWorkers
  <2>2. \A d \in Clients : pc[d] # "join"
    BY <1>21, ClientsAssumption DEF ExitKill, KillAll, LockInv
  <2>3. num_threads = 0 => Empty
    BY <1>21, <2>2 DEF DoomedAreJoined
  <2>q. QED
    BY <1>21, <2>1, <2>2, <2>3 DEF ExitKill, KillAll, KillSignal, BroadcastHasQueued, vars, fin
<1>22. ASSUME NEW c \in Clients, ExitEnd(c) PROVE LifeInv'
  BY <1>22, ClientsAssumption DEF ExitEnd, vars, fin
<1>23. ASSUME NEW c \in Clients, ClientAdd(c) PROVE LifeInv'
  <2>0. PICK j \in Jobs : AddJob(c, j)
    BY <1>23, ClientAddJob
  <2>1. pc[c] = "idle" /\ ~closing /\ AddJob(c, j) /\ j \in Jobs
    BY <1>23, <2>0, ClientAddJob
  <2>s. CASE UNCHANGED vars
    BY <2>s DEF vars, fin
  <2>d. CASE AddDone(c, j) /\ UNCHANGED <<num_threads, life>> /\ num_threads # 0
    <3>1. AddReturns(c, j)
      BY <2>d, AddDoneRest
    <3>q. QED
      BY <2>1, <2>d, <3>1, TokensDistinct DEF AddReturns, LockInv, InFinish
  <2>b. CASE AddBlocks(c, j) /\ UNCHANGED <<num_threads, life>> /\ num_threads # 0
    BY <2>1, <2>b DEF AddBlocks
  <2>q. QED
    BY <2>1, <2>s, <2>d, <2>b, AddJobCases
<1>24. ASSUME NEW c \in Clients, DropBegin(c) PROVE LifeInv'
  BY <1>24, ClientsAssumption DEF DropBegin, vars, fin
<1>25. ASSUME NEW c \in Clients, FinishBegin(c) PROVE LifeInv'
  <2>1. \A d \in Clients : pc[d] # "join"
    BY <1>25, ClientsAssumption DEF FinishBegin, LockInv
  <2>q. QED
    BY <1>25, <2>1 DEF FinishBegin, BarrierSize, vars, fin
<1>26. ASSUME NEW c \in Clients, Adjust(c) PROVE LifeInv'
  <2>1. \A v \in Workers : NotifyAll(wpc, "wait", "loop")[v]
                             = IF wpc[v] = "wait" THEN "loop" ELSE wpc[v]
    BY WakeAllWorkers
  <2>2. \A d \in Clients : pc[d] # "join"
    BY <1>26, ClientsAssumption DEF Adjust, LockInv
  <2>3. num_threads = 0 => Empty
    BY <1>26, <2>2 DEF DoomedAreJoined
  <2>q. QED
    BY <1>26, <2>1, <2>2, <2>3 DEF Adjust, KillSignal, BroadcastHasQueued, vars, fin
<1>27. ASSUME NEW c \in Clients, DestroyBegin(c) PROVE LifeInv'
  BY <1>27, ClientsAssumption DEF DestroyBegin, vars, fin
<1>28. ASSUME NEW c \in Clients, ExitBegin(c) PROVE LifeInv'
  BY <1>28, ClientsAssumption DEF ExitBegin, ExitMutexFree, vars, fin
<1>29. ASSUME NEW c \in Clients, AddSpurious(c) PROVE LifeInv'
  BY <1>29, ClientsAssumption DEF AddSpurious, vars, fin
<1>30. CASE UNCHANGED vars
  BY <1>30 DEF vars, fin
<1>q. QED
  BY <1>1, <1>2, <1>3, <1>4, <1>5, <1>6, <1>7, <1>8, <1>9, <1>10, <1>11, <1>12,
     <1>13, <1>14, <1>15, <1>16, <1>17, <1>18, <1>19, <1>20, <1>21, <1>22, <1>23, <1>24,
     <1>25, <1>26, <1>27, <1>28, <1>29, <1>30
  DEF Next, WorkerStep, ClientStep, ClientCall

\* After util_queue_destroy no worker is running and no exit handler uses the queue,
\* for any number of clients and workers.
THEOREM DestroyedUnused == Spec => []NoUseAfterDestroy
<1>1. Init => LifeInv
  BY ClientsAssumption DEF Init, LifeInv, ExitInv, DestroyInv, Destroyer
<1>2. BaseInv /\ LifeInv => NoUseAfterDestroy
  BY DEF BaseInv, TypeOK, FlagsType, LifeInv, ExitInv, DestroyInv, Destroyer, Empty,
     NoUseAfterDestroy
<1>q. QED
  BY <1>1, <1>2, BaseInvariant, LifeStep, PTL DEF Spec

-----------------------------------------------------------------------------
(***************************************************************************)
(* The fences of the queue: who will signal a fence.                        *)
(***************************************************************************)
WorkerHas(w, f) == wjob[w] = f /\ wpc[w] \in {"exec", "barrier", "signal"}
ClientHas(c, f) == arg[c] = f /\ pc[c] \in {"space_wait", "space_woken", "drop_signal"}

\* FenceSignalledOnce, spelt out pair by pair.
AloneInv ==
  \A f \in Tokens :
    /\ \A i, k \in Slots : jobs[i] = f /\ jobs[k] = f => i = k
    /\ \A w, v \in Workers : WorkerHas(w, f) /\ WorkerHas(v, f) => w = v
    /\ \A c, d \in Clients : ClientHas(c, f) /\ ClientHas(d, f) => c = d
    /\ \A i \in Slots, w \in Workers : ~(jobs[i] = f /\ WorkerHas(w, f))
    /\ \A i \in Slots, c \in Clients : ~(jobs[i] = f /\ ClientHas(c, f))
    /\ \A w \in Workers, c \in Clients : ~(WorkerHas(w, f) /\ ClientHas(c, f))

\* Nobody has the job of a signalled fence.
FreeInv ==
  \A f \in signalled :
    /\ \A i \in Slots : jobs[i] # f
    /\ \A w \in Workers : ~WorkerHas(w, f)
    /\ \A c \in Clients : ~ClientHas(c, f)

\* A barrier fence is unsignalled only while a finish is under way that has added
\* it, or is blocked adding it.
BarrierInv ==
  /\ \A c \in Clients : InFinish(c) => lo <= num_threads
  /\ \A b \in Barriers :
       b \notin signalled =>
         \E c \in Clients : /\ InFinish(c)
                            /\ b < num_threads
                            /\ b < lo \/ (b = lo /\ Blocked(c))

-----------------------------------------------------------------------------

\* The barrier jobs belong to the running finish.
LEMMA BarrierStep == BaseInv /\ BarrierInv /\ [Next]_vars => BarrierInv'
<1> SUFFICES ASSUME TypeOK, RingType, ClientsType, ThreadsType, HoldInv, LockInv,
                    BarrierInv, [Next]_vars
             PROVE  BarrierInv'
  BY DEF BaseInv, TypeOK
<1> USE DEF BarrierInv, InFinish, Blocked, LockInv, ClientsType, ThreadsType
<1>1. ASSUME NEW w \in Workers, WorkerSleep(w) PROVE BarrierInv'
  BY <1>1, ClientsAssumption DEF WorkerSleep, vars, fin
<1>2. ASSUME NEW w \in Workers, WorkerTake(w) PROVE BarrierInv'
  <2>1. \A c \in Clients :
          pc'[c] = pc[c] \/ (pc[c] = "space_wait" /\ pc'[c] = "space_woken")
    BY <1>2, WakeClient DEF WorkerTake, NextSlot, TypeOK
  <2>q. QED
    BY <1>2, <2>1 DEF WorkerTake, NextSlot, fin
<1>3. ASSUME NEW w \in Workers, WorkerExecute(w) PROVE BarrierInv'
  BY <1>3, ClientsAssumption DEF WorkerExecute, vars, fin
<1>4. ASSUME NEW w \in Workers, WorkerBarrier(w) PROVE BarrierInv'
  BY <1>4, ClientsAssumption DEF WorkerBarrier, BarrierOpens, vars, fin
<1>5. ASSUME NEW w \in Workers, WorkerSignal(w) PROVE BarrierInv'
  BY <1>5, ClientsAssumption DEF WorkerSignal, vars, fin
<1>6. ASSUME NEW w \in Workers, WorkerCleanup(w) PROVE BarrierInv'
  BY <1>6, ClientsAssumption DEF WorkerCleanup, vars, fin
<1>7. ASSUME NEW w \in Workers, WorkerLeave(w) PROVE BarrierInv'
  BY <1>7, ClientsAssumption DEF WorkerLeave, vars, fin
<1>8. ASSUME NEW w \in Workers, WorkerDrain(w) PROVE BarrierInv'
  BY <1>8, ClientsAssumption DEF WorkerDrain, vars, fin
<1>9. ASSUME NEW w \in Workers, WorkerSpurious(w) PROVE BarrierInv'
  BY <1>9, ClientsAssumption DEF WorkerSpurious, vars, fin
<1>10. ASSUME NEW c \in Clients, AddWoken(c) PROVE BarrierInv'
  <2>1. /\ pc[c] = "space_woken" /\ arg[c] \in Tokens
        /\ UNCHANGED <<num_threads, finish_lock, signalled>>
    BY <1>10, AddWokenCases DEF HoldInv
  <2>2. CASE AddDone(c, arg[c])
    <3>1. AddReturns(c, arg[c])
      BY <2>2, AddDoneRest
    <3>2. NoJob \notin Barriers
      BY TokensDistinct
    <3>3. CASE arg[c] \in Barriers
      <4>1. finish_lock = c /\ arg[c] = lo /\ lo < num_threads
        BY <2>1, <3>3
      <4>2. pc'[c] = "fin_add" /\ lo' = lo + 1
        BY <3>1, <3>3 DEF AddReturns
      <4>3. \A d \in Clients : InFinish(d)' => d = c
        BY <2>1, <3>1, <3>2, <4>1 DEF AddReturns
      <4>q. QED
        BY <2>1, <4>1, <4>2, <4>3 DEF Barriers
    <3>4. CASE arg[c] \notin Barriers
      BY <2>1, <3>1, <3>2, <3>4 DEF AddReturns
    <3>q. QED
      BY <3>3, <3>4
  <2>3. CASE pc' = [pc EXCEPT ![c] = "space_wait"] /\ UNCHANGED <<ring, arg, lo, wpc>>
    BY <2>1, <2>3
  <2>q. QED
    BY <1>10, <2>2, <2>3, AddWokenCases
<1>11. ASSUME NEW c \in Clients, DropSearch(c) PROVE BarrierInv'
  <2>1. arg[c] \in Jobs
    BY <1>11 DEF DropSearch, ClearSlot, AfterRemoval, HoldInv, Dropping
  <2>q. QED
    BY <1>11, <2>1, TokensDistinct DEF DropSearch, ClearSlot, AfterRemoval, fin
<1>12. ASSUME NEW c \in Clients, DropSignal(c) PROVE BarrierInv'
  <2>1. arg[c] \in Jobs
    BY <1>12 DEF DropSignal, HoldInv, Dropping
  <2>q. QED
    BY <1>12, <2>1, TokensDistinct DEF DropSignal, fin
<1>13. ASSUME NEW c \in Clients, DropWait(c) PROVE BarrierInv'
  <2>1. arg[c] \in Jobs
    BY <1>13 DEF DropWait, HoldInv, Dropping
  <2>q. QED
    BY <1>13, <2>1, TokensDistinct DEF DropWait, fin
<1>14. ASSUME NEW c \in Clients, FinishAdd(c) PROVE BarrierInv'
  <2>1. lo \in Barriers /\ AddJob(c, lo) /\ pc[c] = "fin_add" /\ lo < num_threads
    BY <1>14, FinishAddJob
  <2>2. NoJob \notin Barriers
    BY TokensDistinct
  <2>3. CASE UNCHANGED vars
    BY <2>3 DEF vars, fin
  <2>4. CASE /\ signalled' = signalled \ {lo} /\ UNCHANGED <<num_threads, finish_lock>>
             /\ AddDone(c, lo)
    <3>1. AddReturns(c, lo)
      BY <2>4, AddDoneRest
    <3>q. QED
      BY <2>1, <2>2, <2>4, <3>1 DEF AddReturns
  <2>5. CASE /\ signalled' = signalled \ {lo} /\ UNCHANGED <<num_threads, finish_lock>>
             /\ AddBlocks(c, lo)
    BY <2>1, <2>2, <2>5 DEF AddBlocks
  <2>q. QED
    BY <2>1, <2>3, <2>4, <2>5, AddJobCases
<1>15. ASSUME NEW c \in Clients, FinishAdded(c) PROVE BarrierInv'
  BY <1>15, ClientsAssumption DEF FinishAdded, vars, fin
<1>16. ASSUME NEW c \in Clients, FinishReturn(c) PROVE BarrierInv'
  <2>1. \A b \in Barriers : b \in signalled
    BY <1>16 DEF FinishReturn, FinishWaited, Barriers
  <2>q. QED
    BY <1>16, <2>1, ClientsAssumption DEF FinishReturn, FinishWaited, Dropping, HoldInv
<1>17. ASSUME NEW c \in Clients, CreateThread(c) PROVE BarrierInv'
  BY <1>17, ClientsAssumption DEF CreateThread, vars, fin
<1>18. ASSUME NEW c \in Clients, JoinThreads(c) PROVE BarrierInv'
  BY <1>18, ClientsAssumption DEF JoinThreads, Joined, vars, fin
<1>19. ASSUME NEW c \in Clients, DestroyKill(c) PROVE BarrierInv'
  BY <1>19, ClientsAssumption DEF DestroyKill, KillAll, KillSignal, BroadcastHasQueued, vars, fin
<1>20. ASSUME NEW c \in Clients, DestroyUnlist(c) PROVE BarrierInv'
  BY <1>20, ClientsAssumption DEF DestroyUnlist, vars, fin
<1>21. ASSUME NEW c \in Clients, ExitKill(c) PROVE BarrierInv'
  BY <1>21, ClientsAssumption DEF ExitKill, KillAll, KillSignal, BroadcastHasQueued, vars, fin
<1>22. ASSUME NEW c \in Clients, ExitEnd(c) PROVE BarrierInv'
  BY <1>22, ClientsAssumption DEF ExitEnd, vars, fin
<1>23. ASSUME NEW c \in Clients, ClientAdd(c) PROVE BarrierInv'
  <2>1. PICK j \in Jobs : AddJob(c, j) /\ pc[c] = "idle"
    BY <1>23, ClientAddJob
  <2>2. NoJob \notin Barriers /\ j \notin Barriers
    BY TokensDistinct
  <2>3. CASE UNCHANGED vars
    BY <2>3 DEF vars, fin
  <2>4. CASE /\ signalled' = signalled \ {j} /\ UNCHANGED <<num_threads, finish_lock>>
             /\ AddDone(c, j)
    <3>1. AddReturns(c, j)
      BY <2>4, AddDoneRest
    <3>q. QED
      BY <2>1, <2>2, <2>4, <3>1 DEF AddReturns
  <2>5. CASE /\ signalled' = signalled \ {j} /\ UNCHANGED <<num_threads, finish_lock>>
             /\ AddBlocks(c, j)
    BY <2>1, <2>2, <2>5 DEF AddBlocks
  <2>q. QED
    BY <2>1, <2>3, <2>4, <2>5, AddJobCases
<1>24. ASSUME NEW c \in Clients, DropBegin(c) PROVE BarrierInv'
  BY <1>24, TokensDistinct DEF DropBegin, fin
<1>25. ASSUME NEW c \in Clients, FinishBegin(c) PROVE BarrierInv'
  BY <1>25, ClientsAssumption DEF FinishBegin, BarrierSize, vars, fin, HoldInv, Dropping
<1>26. ASSUME NEW c \in Clients, Adjust(c) PROVE BarrierInv'
  BY <1>26, ClientsAssumption DEF Adjust, KillSignal, BroadcastHasQueued, vars, fin
<1>27. ASSUME NEW c \in Clients, DestroyBegin(c) PROVE BarrierInv'
  BY <1>27, ClientsAssumption DEF DestroyBegin, vars, fin
<1>28. ASSUME NEW c \in Clients, ExitBegin(c) PROVE BarrierInv'
  BY <1>28, ClientsAssumption DEF ExitBegin, vars, fin
<1>29. ASSUME NEW c \in Clients, AddSpurious(c) PROVE BarrierInv'
  BY <1>29, ClientsAssumption DEF AddSpurious, vars, fin
<1>30. CASE UNCHANGED vars
  BY <1>30 DEF vars, fin
<1>q. QED
  BY <1>1, <1>2, <1>3, <1>4, <1>5, <1>6, <1>7, <1>8, <1>9, <1>10, <1>11, <1>12,
     <1>13, <1>14, <1>15, <1>16, <1>17, <1>18, <1>19, <1>20, <1>21, <1>22, <1>23, <1>24,
     <1>25, <1>26, <1>27, <1>28, <1>29, <1>30
  DEF Next, WorkerStep, ClientStep, ClientCall


-----------------------------------------------------------------------------
\* Storing a job nobody has in the ring: it is in one slot afterwards, the other
\* slots hold jobs that were in the ring before, each still in one slot only.
LEMMA AddDoneSlots ==
  ASSUME RingType, NEW c, NEW f \in Tokens, AddDone(c, f),
         \A i \in Slots : jobs[i] # f,
         \A g \in Tokens : \A i, k \in Slots : jobs[i] = g /\ jobs[k] = g => i = k
  PROVE  /\ \A g \in Tokens : \A i, k \in Slots' : jobs'[i] = g /\ jobs'[k] = g => i = k
         /\ \A k \in Slots' : \/ jobs'[k] \in {f, NoJob}
                              \/ \E i \in Slots : jobs[i] = jobs'[k]
<1> USE MaxJobsAssumption, TokensDistinct DEF RingType, Slots
<1>1. CASE AddToSlot(c, f)
  BY <1>1 DEF AddToSlot, AddStore, SignalHasQueued, NextSlot
<1>2. CASE AddResized(c, f)
  <2> DEFINE m == max_jobs + ResizeStep
             at(i) == (read_idx + i) % max_jobs
  <2>1. \A i \in 0 .. max_jobs - 1 :
          at(i) \in Slots /\ at(i) = IF read_idx + i < max_jobs THEN read_idx + i
                                     ELSE read_idx + i - max_jobs
    BY RingIndex
  <2>2. \A i, k \in 0 .. max_jobs - 1 : at(i) = at(k) => i = k
    BY <2>1
  <2>3. /\ max_jobs' = m
        /\ \A i \in 0 .. m - 1 : jobs'[i] = IF i = max_jobs THEN f
                                            ELSE IF i < max_jobs THEN jobs[at(i)]
                                            ELSE NoJob
    BY <1>2 DEF AddResized, ReadAfterResize, AddStore, SignalHasQueued, NextSlot
  <2> HIDE DEF at
  <2>4. \A k \in Slots' : \/ jobs'[k] \in {f, NoJob}
                          \/ \E i \in Slots : jobs[i] = jobs'[k]
    <3> SUFFICES ASSUME NEW k \in 0 .. m - 1
                 PROVE  \/ jobs'[k] \in {f, NoJob}
                        \/ \E i \in Slots : jobs[i] = jobs'[k]
      BY <2>3
    <3>1. CASE k < max_jobs
      <4>1. at(k) \in Slots /\ jobs'[k] = jobs[at(k)]
        BY <2>1, <2>3, <3>1
      <4>q. QED
        BY <4>1
    <3>q. QED
      BY <2>3, <3>1
  <2>5. ASSUME NEW g \in Tokens, NEW i \in 0 .. m - 1, NEW k \in 0 .. m - 1,
               jobs'[i] = g, jobs'[k] = g
        PROVE  i = k
    <3>1. CASE i < max_jobs /\ k < max_jobs
      <4>1. at(i) \in Slots /\ at(k) \in Slots /\ jobs[at(i)] = g /\ jobs[at(k)] = g
        BY <2>1, <2>3, <2>5, <3>1
      <4>2. at(i) = at(k)
        BY <4>1
      <4>q. QED
        BY <2>2, <3>1, <4>2
    <3>2. CASE i = max_jobs \/ k = max_jobs
      <4>1. \A n \in 0 .. m - 1 : n < max_jobs => jobs'[n] # f
        BY <2>1, <2>3
      <4>q. QED
        BY <2>3, <2>5, <3>2, <4>1
    <3>3. CASE i > max_jobs \/ k > max_jobs
      BY <2>3, <2>5, <3>3
    <3>q. QED
      BY <3>1, <3>2, <3>3
  <2>q. QED
    BY <2>3, <2>4, <2>5
<1>q. QED
  BY <1>1, <1>2 DEF AddDone


-----------------------------------------------------------------------------
\* Nobody has a job whose fence is signalled, and nobody shares one.
LEMMA FenceStep ==
  BaseInv /\ BarrierInv /\ AloneInv /\ FreeInv /\ [Next]_vars => AloneInv' /\ FreeInv'
<1> SUFFICES ASSUME RingType, ClientsType, ThreadsType, HoldInv, LockInv, CreateInv,
                    BarrierInv, AloneInv, FreeInv, [Next]_vars
             PROVE  AloneInv' /\ FreeInv'
  BY DEF BaseInv, TypeOK
<1> USE DEF AloneInv, FreeInv, WorkerHas, ClientHas, Slots, ClientsType, ThreadsType
<1>1. ASSUME NEW w \in Workers, WorkerSleep(w) PROVE AloneInv' /\ FreeInv'
  BY <1>1 DEF WorkerSleep, vars, ring
<1>2. ASSUME NEW w \in Workers, WorkerTake(w) PROVE AloneInv' /\ FreeInv'
  <2>1. \A c \in Clients :
          pc'[c] = pc[c] \/ (pc[c] = "space_wait" /\ pc'[c] = "space_woken")
    BY <1>2, WakeClient DEF WorkerTake, NextSlot
  <2>q. QED
    BY <1>2, <2>1, TokensDistinct DEF WorkerTake, NextSlot, RingType
<1>3. ASSUME NEW w \in Workers, WorkerExecute(w) PROVE AloneInv' /\ FreeInv'
  BY <1>3 DEF WorkerExecute, vars, ring
<1>4. ASSUME NEW w \in Workers, WorkerBarrier(w) PROVE AloneInv' /\ FreeInv'
  BY <1>4 DEF WorkerBarrier, BarrierOpens, vars, ring
<1>5. ASSUME NEW w \in Workers, WorkerSignal(w) PROVE AloneInv' /\ FreeInv'
  <2>1. wjob[w] \in Tokens
    BY <1>5 DEF WorkerSignal, HoldInv, Busy
  <2>q. QED
    BY <1>5, <2>1, TokensDistinct DEF WorkerSignal, ring
<1>6. ASSUME NEW w \in Workers, WorkerCleanup(w) PROVE AloneInv' /\ FreeInv'
  BY <1>6 DEF WorkerCleanup, vars, ring
<1>7. ASSUME NEW w \in Workers, WorkerLeave(w) PROVE AloneInv' /\ FreeInv'
  BY <1>7 DEF WorkerLeave, vars, ring
<1>8. ASSUME NEW w \in Workers, WorkerDrain(w) PROVE AloneInv' /\ FreeInv'
  <2>1. CASE num_threads = 0
    <3>1. /\ signalled' = signalled \cup ({jobs[i] : i \in RingScan} \ {NoJob})
          /\ jobs' = [i \in Slots |-> IF i \in RingScan THEN NoJob ELSE jobs[i]]
          /\ UNCHANGED <<max_jobs, wjob, pc, arg>>
          /\ wpc' = [wpc EXCEPT ![w] = "done"]
      BY <1>8, <2>1 DEF WorkerDrain
    <3>2. RingScan \subseteq Slots
      BY DEF RingScan
    <3>3. \A f \in Tokens : \A i \in Slots :
            jobs'[i] = f => jobs[i] = f /\ i \notin RingScan
      BY <3>1, TokensDistinct
    <3>4. ASSUME NEW f \in signalled', f \notin signalled
          PROVE  \E i \in RingScan : jobs[i] = f /\ f \in Tokens
      BY <3>1, <3>2, <3>4 DEF RingType
    <3>5. AloneInv'
      BY <3>1, <3>3
    <3>6. ASSUME NEW f \in signalled', f \in Tokens
          PROVE  /\ \A i \in Slots : jobs'[i] # f
                 /\ \A v \in Workers : ~WorkerHas(v, f)
                 /\ \A c \in Clients : ~ClientHas(c, f)
      <4>1. CASE f \in signalled
        BY <3>3, <3>6, <4>1
      <4>2. CASE f \notin signalled
        <5>1. PICK i \in RingScan : jobs[i] = f
          BY <3>4, <4>2
        <5>q. QED
          BY <3>2, <3>3, <3>6, <5>1
      <4>q. QED
        BY <4>1, <4>2
    <3>7. signalled' \subseteq Tokens
      BY <3>4
    <3>q. QED
      BY <3>1, <3>5, <3>6, <3>7
  <2>2. CASE num_threads # 0
    BY <1>8, <2>2 DEF WorkerDrain
  <2>q. QED
    BY <2>1, <2>2
<1>9. ASSUME NEW w \in Workers, WorkerSpurious(w) PROVE AloneInv' /\ FreeInv'
  BY <1>9 DEF WorkerSpurious, vars, ring
<1>10. ASSUME NEW c \in Clients, AddWoken(c) PROVE AloneInv' /\ FreeInv'
  <2>1. arg[c] \in Tokens /\ ClientHas(c, arg[c])
        /\ (\A i \in Slots : jobs[i] # arg[c])
        /\ UNCHANGED <<wjob, signalled>> /\ arg[c] \notin signalled
    <3>1. pc[c] = "space_woken" /\ UNCHANGED <<wjob, signalled>>
      BY <1>10, AddWokenCases
    <3>2. arg[c] \in Tokens
      BY <3>1 DEF HoldInv, Blocked
    <3>q. QED
      BY <3>1, <3>2
  <2>d. CASE AddDone(c, arg[c]) /\ wjob' = wjob
    <3>1. /\ AddReturns(c, arg[c])
          /\ \A w \in Workers : wpc'[w] = wpc[w] \/ (wpc[w] = "wait" /\ wpc'[w] = "loop")
      BY <2>d, AddDoneRest
    <3>2. /\ \A g \in Tokens : \A i, k \in Slots' : jobs'[i] = g /\ jobs'[k] = g => i = k
          /\ \A k \in Slots' : \/ jobs'[k] \in {arg[c], NoJob}
                               \/ \E i \in Slots : jobs[i] = jobs'[k]
      BY <2>1, <2>d, AddDoneSlots
    <3> HIDE DEF Slots
    <3>3. \A d \in Clients : \A g \in Tokens : ClientHas(d, g)' => ClientHas(d, g) /\ d # c
      BY <2>1, <3>1 DEF AddReturns
    <3>4. \A w \in Workers : \A g \in Tokens : WorkerHas(w, g)' => WorkerHas(w, g)
      BY <2>d, <3>1
    <3> HIDE DEF WorkerHas, ClientHas
    <3>5. /\ \A w \in Workers : ~WorkerHas(w, arg[c])
          /\ \A d \in Clients : ClientHas(d, arg[c]) => d = c
      BY <2>1
    <3>6. \A g \in Tokens : \A k \in Slots' : jobs'[k] = g =>
             g = arg[c] \/ \E i \in Slots : jobs[i] = g
      BY <3>2, TokensDistinct
    <3>7. \A g \in signalled' : g \in Tokens /\ g \in signalled /\ g # arg[c]
      BY <2>1, <2>d
    <3>q. QED
      BY <2>1, <3>2, <3>3, <3>4, <3>5, <3>6, <3>7
  <2>3. CASE pc' = [pc EXCEPT ![c] = "space_wait"] /\ UNCHANGED <<ring, arg, lo, wpc>>
    BY <1>10, <2>1, <2>3, AddWokenCases DEF ring
  <2>q. QED
    BY <1>10, <2>1, <2>d, <2>3, AddWokenCases
<1>11. ASSUME NEW c \in Clients, DropSearch(c) PROVE AloneInv' /\ FreeInv'
  <2>1. arg[c] \in Tokens
    BY <1>11, TokensDistinct DEF DropSearch, ClearSlot, AfterRemoval, HoldInv, Dropping
  <2>2. CASE \E i \in RingScan :
               /\ jobs[i] = arg[c]
               /\ jobs' = [jobs EXCEPT ![i] = NoJob]
               /\ pc' = [pc EXCEPT ![c] = "drop_signal"]
    <3>1. PICK i \in Slots : /\ jobs[i] = arg[c]
                            /\ jobs' = [jobs EXCEPT ![i] = NoJob]
                            /\ pc' = [pc EXCEPT ![c] = "drop_signal"]
      BY <2>2 DEF RingScan
    <3>2. UNCHANGED <<max_jobs, wpc, wjob, arg, signalled>>
      BY <1>11 DEF DropSearch, ClearSlot, AfterRemoval
    <3>3. arg[c] \notin signalled
      BY <3>1
    <3>q. QED
      BY <2>1, <3>1, <3>2, <3>3, TokensDistinct DEF RingType
  <2>3. CASE pc' = [pc EXCEPT ![c] = "drop_wait"] /\ UNCHANGED jobs
    BY <1>11, <2>3 DEF DropSearch, ClearSlot, AfterRemoval
  <2>q. QED
    BY <1>11, <2>2, <2>3 DEF DropSearch, ClearSlot, AfterRemoval
<1>12. ASSUME NEW c \in Clients, DropSignal(c) PROVE AloneInv' /\ FreeInv'
  <2>1. arg[c] \in Tokens
    BY <1>12, TokensDistinct DEF DropSignal, HoldInv, Dropping
  <2>q. QED
    BY <1>12, <2>1, TokensDistinct DEF DropSignal, ring
<1>13. ASSUME NEW c \in Clients, DropWait(c) PROVE AloneInv' /\ FreeInv'
  BY <1>13 DEF DropWait, vars, ring
<1>14. ASSUME NEW c \in Clients, FinishAdd(c) PROVE AloneInv' /\ FreeInv'
  <2>0. PICK b \in Barriers : AddJob(c, b) /\ b \in signalled
    <3>1. lo \in Barriers /\ pc[c] = "fin_add" /\ AddJob(c, lo)
      BY <1>14, FinishAddJob
    <3>2. \A d \in Clients : InFinish(d) => d = c
      BY <3>1 DEF LockInv, InFinish
    <3>q. QED
      BY <3>1, <3>2 DEF BarrierInv, InFinish, Blocked
  <2>1. b \in Tokens
        /\ (\A i \in Slots : jobs[i] # b)
        /\ (\A w \in Workers : ~WorkerHas(w, b))
        /\ (\A d \in Clients : ~ClientHas(d, b))
    BY <2>0, TokensDistinct
  <2>s. CASE UNCHANGED vars
    BY <2>s DEF vars, ring
  <2>d. CASE AddDone(c, b) /\ signalled' = signalled \ {b} /\ wjob' = wjob
    <3>1. /\ AddReturns(c, b)
          /\ \A w \in Workers : wpc'[w] = wpc[w] \/ (wpc[w] = "wait" /\ wpc'[w] = "loop")
      BY <2>d, AddDoneRest
    <3>2. /\ \A g \in Tokens : \A i, k \in Slots' : jobs'[i] = g /\ jobs'[k] = g => i = k
          /\ \A k \in Slots' : \/ jobs'[k] \in {b, NoJob}
                               \/ \E i \in Slots : jobs[i] = jobs'[k]
      BY <2>1, <2>d, AddDoneSlots
    <3> HIDE DEF Slots
    <3>3. \A d \in Clients : \A g \in Tokens : ClientHas(d, g)' => ClientHas(d, g) /\ d # c
      BY <2>1, <3>1 DEF AddReturns
    <3>4. \A w \in Workers : \A g \in Tokens : WorkerHas(w, g)' => WorkerHas(w, g)
      BY <2>d, <3>1
    <3> HIDE DEF WorkerHas, ClientHas
    <3>5. /\ \A w \in Workers : ~WorkerHas(w, b)
          /\ \A d \in Clients : ClientHas(d, b) => d = c
      BY <2>1
    <3>6. \A g \in Tokens : \A k \in Slots' : jobs'[k] = g =>
             g = b \/ \E i \in Slots : jobs[i] = g
      BY <3>2, TokensDistinct
    <3>7. \A g \in signalled' : g \in Tokens /\ g \in signalled /\ g # b
      BY <2>1, <2>d
    <3>q. QED
      BY <2>1, <3>2, <3>3, <3>4, <3>5, <3>6, <3>7
  <2>b. CASE AddBlocks(c, b) /\ signalled' = signalled \ {b} /\ wjob' = wjob
    BY <2>1, <2>b, TokensDistinct DEF AddBlocks, ring
  <2>q. QED
    BY <2>0, <2>s, <2>d, <2>b, AddJobCases
<1>15. ASSUME NEW c \in Clients, FinishAdded(c) PROVE AloneInv' /\ FreeInv'
  BY <1>15 DEF FinishAdded, vars, ring
<1>16. ASSUME NEW c \in Clients, FinishReturn(c) PROVE AloneInv' /\ FreeInv'
  BY <1>16 DEF FinishReturn, FinishWaited, vars, ring
<1>17. ASSUME NEW c \in Clients, CreateThread(c) PROVE AloneInv' /\ FreeInv'
  BY <1>17 DEF CreateThread, vars, ring
<1>18. ASSUME NEW c \in Clients, JoinThreads(c) PROVE AloneInv' /\ FreeInv'
  BY <1>18 DEF JoinThreads, Joined, vars, ring
<1>19. ASSUME NEW c \in Clients, DestroyKill(c) PROVE AloneInv' /\ FreeInv'
  <2>1. \A w \in Workers : NotifyAll(wpc, "wait", "loop")[w]
                             = IF wpc[w] = "wait" THEN "loop" ELSE wpc[w]
    BY WakeAllWorkers
  <2>q. QED
    BY <1>19, <2>1 DEF DestroyKill, KillAll, KillSignal, BroadcastHasQueued, vars, ring
<1>20. ASSUME NEW c \in Clients, DestroyUnlist(c) PROVE AloneInv' /\ FreeInv'
  BY <1>20 DEF DestroyUnlist, vars, ring
<1>21. ASSUME NEW c \in Clients, ExitKill(c) PROVE AloneInv' /\ FreeInv'
  <2>1. \A w \in Workers : NotifyAll(wpc, "wait", "loop")[w]
                             = IF wpc[w] = "wait" THEN "loop" ELSE wpc[w]
    BY WakeAllWorkers
  <2>q. QED
    BY <1>21, <2>1 DEF ExitKill, KillAll, KillSignal, BroadcastHasQueued, vars, ring
<1>22. ASSUME NEW c \in Clients, ExitEnd(c) PROVE AloneInv' /\ FreeInv'
  BY <1>22 DEF ExitEnd, vars, ring
<1>23. ASSUME NEW c \in Clients, ClientAdd(c) PROVE AloneInv' /\ FreeInv'
  <2>0. PICK j \in Jobs : /\ AddJob(c, j) /\ j \in signalled
                          /\ \A w \in Workers : wjob[w] # j
                          /\ \A d \in Clients : arg[d] # j
    BY <1>23, ClientAddJob
  <2>1. j \in Tokens
        /\ (\A i \in Slots : jobs[i] # j)
        /\ (\A w \in Workers : ~WorkerHas(w, j))
        /\ (\A d \in Clients : ~ClientHas(d, j))
    BY <2>0, TokensDistinct
  <2>s. CASE UNCHANGED vars
    BY <2>s DEF vars, ring
  <2>d. CASE AddDone(c, j) /\ signalled' = signalled \ {j} /\ wjob' = wjob
    <3>1. /\ AddReturns(c, j)
          /\ \A w \in Workers : wpc'[w] = wpc[w] \/ (wpc[w] = "wait" /\ wpc'[w] = "loop")
      BY <2>d, AddDoneRest
    <3>2. /\ \A g \in Tokens : \A i, k \in Slots' : jobs'[i] = g /\ jobs'[k] = g => i = k
          /\ \A k \in Slots' : \/ jobs'[k] \in {j, NoJob}
                               \/ \E i \in Slots : jobs[i] = jobs'[k]
      BY <2>1, <2>d, AddDoneSlots
    <3> HIDE DEF Slots
    <3>3. \A d \in Clients : \A g \in Tokens : ClientHas(d, g)' => ClientHas(d, g) /\ d # c
      BY <2>1, <3>1 DEF AddReturns
    <3>4. \A w \in Workers : \A g \in Tokens : WorkerHas(w, g)' => WorkerHas(w, g)
      BY <2>d, <3>1
    <3> HIDE DEF WorkerHas, ClientHas
    <3>5. /\ \A w \in Workers : ~WorkerHas(w, j)
          /\ \A d \in Clients : ClientHas(d, j) => d = c
      BY <2>1
    <3>6. \A g \in Tokens : \A k \in Slots' : jobs'[k] = g =>
             g = j \/ \E i \in Slots : jobs[i] = g
      BY <3>2, TokensDistinct
    <3>7. \A g \in signalled' : g \in Tokens /\ g \in signalled /\ g # j
      BY <2>1, <2>d
    <3>q. QED
      BY <2>1, <3>2, <3>3, <3>4, <3>5, <3>6, <3>7
  <2>b. CASE AddBlocks(c, j) /\ signalled' = signalled \ {j} /\ wjob' = wjob
    BY <2>1, <2>b, TokensDistinct DEF AddBlocks, ring
  <2>q. QED
    BY <2>0, <2>s, <2>d, <2>b, AddJobCases
<1>24. ASSUME NEW c \in Clients, DropBegin(c) PROVE AloneInv' /\ FreeInv'
  BY <1>24 DEF DropBegin, vars, ring
<1>25. ASSUME NEW c \in Clients, FinishBegin(c) PROVE AloneInv' /\ FreeInv'
  BY <1>25 DEF FinishBegin, BarrierSize, vars, ring
<1>26. ASSUME NEW c \in Clients, Adjust(c) PROVE AloneInv' /\ FreeInv'
  <2>1. \A w \in Workers : NotifyAll(wpc, "wait", "loop")[w]
                             = IF wpc[w] = "wait" THEN "loop" ELSE wpc[w]
    BY WakeAllWorkers
  <2>q. QED
    BY <1>26, <2>1 DEF Adjust, KillSignal, BroadcastHasQueued, vars, ring
<1>27. ASSUME NEW c \in Clients, DestroyBegin(c) PROVE AloneInv' /\ FreeInv'
  BY <1>27 DEF DestroyBegin, vars, ring
<1>28. ASSUME NEW c \in Clients, ExitBegin(c) PROVE AloneInv' /\ FreeInv'
  BY <1>28 DEF ExitBegin, vars, ring
<1>29. ASSUME NEW c \in Clients, AddSpurious(c) PROVE AloneInv' /\ FreeInv'
  BY <1>29 DEF AddSpurious, vars, ring
<1>30. CASE UNCHANGED vars
  BY <1>30 DEF vars, ring
<1>q. QED
  BY <1>1, <1>2, <1>3, <1>4, <1>5, <1>6, <1>7, <1>8, <1>9, <1>10, <1>11, <1>12,
     <1>13, <1>14, <1>15, <1>16, <1>17, <1>18, <1>19, <1>20, <1>21, <1>22, <1>23, <1>24,
     <1>25, <1>26, <1>27, <1>28, <1>29, <1>30
  DEF Next, WorkerStep, ClientStep, ClientCall

\* The initial state: an empty ring and signalled fences.
LEMMA FencesInitially == Init => AloneInv /\ FreeInv /\ BarrierInv
  BY TokensDistinct, MaxJobsAssumption, MaxThreadsAssumption
  DEF Init, AloneInv, FreeInv, BarrierInv, InFinish, Blocked, WorkerHas, ClientHas, Slots

\* The strengthened invariants give the property of the runs.
LEMMA AloneIsOnce == ClientsType /\ AloneInv /\ FreeInv => FenceSignalledOnce
<1> SUFFICES ASSUME ClientsType, AloneInv, FreeInv, NEW f \in Tokens
             PROVE  LET holders == (SlotsOf(f) \X {"slot"}) \cup (WorkersOf(f) \X {"worker"})
                                   \cup (ClientsOf(f) \X {"client"})
                    IN  /\ f \in signalled => holders = {}
                        /\ \A x, y \in holders : x = y
  BY DEF FenceSignalledOnce
<1> DEFINE holders == (SlotsOf(f) \X {"slot"}) \cup (WorkersOf(f) \X {"worker"})
                      \cup (ClientsOf(f) \X {"client"})
<1>1. /\ \A i \in SlotsOf(f) : i \in Slots /\ jobs[i] = f
      /\ \A w \in WorkersOf(f) : w \in Workers /\ WorkerHas(w, f)
      /\ \A c \in ClientsOf(f) : c \in Clients /\ ClientHas(c, f)
  BY DEF SlotsOf, WorkersOf, ClientsOf, WorkerHas, ClientHas
<1>2. f \in signalled => SlotsOf(f) = {} /\ WorkersOf(f) = {} /\ ClientsOf(f) = {}
  BY <1>1 DEF FreeInv
<1>3. /\ \A i, k \in SlotsOf(f) : i = k
      /\ \A w, v \in WorkersOf(f) : w = v
      /\ \A c, d \in ClientsOf(f) : c = d
      /\ SlotsOf(f) = {} \/ WorkersOf(f) = {}
      /\ SlotsOf(f) = {} \/ ClientsOf(f) = {}
      /\ WorkersOf(f) = {} \/ ClientsOf(f) = {}
  BY <1>1 DEF AloneInv
<1>4. f \in signalled => holders = {}
  BY <1>2
<1>5. \A x, y \in holders : x = y
  BY <1>3
<1>q. QED
  BY <1>4, <1>5

\* Every fence is signalled by exactly one worker, drain or drop, and no job is in
\* two places: the assertion of util_queue_fence_signal holds, and a client that
\* sees its fence signalled may reuse or free the job.
THEOREM FencesOnce == Spec => []FenceSignalledOnce
<1>1. BaseInv /\ AloneInv /\ FreeInv => FenceSignalledOnce
  BY AloneIsOnce DEF BaseInv, TypeOK
<1>q. QED
  BY <1>1, BaseInvariant, FencesInitially, BarrierStep, FenceStep, PTL DEF Spec


-----------------------------------------------------------------------------
(***************************************************************************)
(* No fence is forgotten                                                    *)
(***************************************************************************)

\* NoOrphanFence, spelt out.
HeldInv ==
  ~killed =>
    \A f \in Tokens \ signalled :
      \/ \E i \in Slots : jobs[i] = f
      \/ \E w \in Workers : WorkerHas(w, f)
      \/ \E c \in Clients : ClientHas(c, f)

\* Storing a job overwrites no other: the slot at write_idx is free.
LEMMA AddDoneKeeps ==
  ASSUME RingType, RingConsistent, ~killed, NEW c, NEW f \in Tokens, AddDone(c, f)
  PROVE  /\ \E k \in Slots' : jobs'[k] = f
         /\ \A g \in Tokens :
              (\E i \in Slots : jobs[i] = g) => \E k \in Slots' : jobs'[k] = g
<1> USE MaxJobsAssumption, TokensDistinct DEF RingType, Slots
<1>1. CASE AddToSlot(c, f)
  <2>1. jobs[write_idx] = NoJob
    BY <1>1 DEF AddToSlot, Full, RingConsistent, InWindow
  <2>2. jobs' = [jobs EXCEPT ![write_idx] = f] /\ max_jobs' = max_jobs
    BY <1>1 DEF AddToSlot, AddStore, SignalHasQueued, NextSlot
  <2>q. QED
    BY <2>1, <2>2
<1>2. CASE AddResized(c, f)
  <2> DEFINE m == max_jobs + ResizeStep
             at(i) == (read_idx + i) % max_jobs
  <2>1. \A i \in 0 .. max_jobs - 1 :
          at(i) = IF read_idx + i < max_jobs THEN read_idx + i
                  ELSE read_idx + i - max_jobs
    BY RingIndex
  <2>2. /\ max_jobs' = m
        /\ \A i \in 0 .. m - 1 : jobs'[i] = IF i = max_jobs THEN f
                                            ELSE IF i < max_jobs THEN jobs[at(i)]
                                            ELSE NoJob
    BY <1>2 DEF AddResized, ReadAfterResize, AddStore, SignalHasQueued, NextSlot
  <2> HIDE DEF at
  <2>3. ASSUME NEW i \in Slots
        PROVE  \E k \in 0 .. m - 1 : jobs'[k] = jobs[i]
    <3> DEFINE k == IF i >= read_idx THEN i - read_idx ELSE i - read_idx + max_jobs
    <3>1. k \in 0 .. max_jobs - 1 /\ at(k) = i
      BY <2>1
    <3>2. k \in 0 .. m - 1 /\ jobs'[k] = jobs[at(k)]
      BY <2>2, <3>1
    <3>q. QED
      BY <3>1, <3>2
  <2>4. jobs'[max_jobs] = f /\ max_jobs \in 0 .. m - 1
    BY <2>2
  <2>q. QED
    BY <2>2, <2>3, <2>4
<1>q. QED
  BY <1>1, <1>2 DEF AddDone

\* Whoever lets go of an unsignalled job hands it on or signals it.
LEMMA HeldStep ==
  BaseInv /\ KilledInv /\ RingConsistent /\ HeldInv /\ [Next]_vars => HeldInv'
<1> SUFFICES ASSUME RingType, ClientsType, ThreadsType, HoldInv, LockInv, CreateInv,
                    KilledInv, RingConsistent, HeldInv, [Next]_vars
             PROVE  HeldInv'
  BY DEF BaseInv, TypeOK
<1> USE DEF HeldInv, WorkerHas, ClientHas, Slots, ClientsType, ThreadsType
<1>1. ASSUME NEW w \in Workers, WorkerSleep(w) PROVE HeldInv'
  BY <1>1 DEF WorkerSleep, vars, ring
<1>2. ASSUME NEW w \in Workers, WorkerTake(w) PROVE HeldInv'
  <2>1. \A c \in Clients :
          pc'[c] = pc[c] \/ (pc[c] = "space_wait" /\ pc'[c] = "space_woken")
    BY <1>2, WakeClient DEF WorkerTake, NextSlot
  <2>2. \A g \in Tokens : \A c \in Clients : ClientHas(c, g) => ClientHas(c, g)'
    BY <1>2, <2>1 DEF WorkerTake, NextSlot
  <2>3. \A g \in Tokens : \A v \in Workers : WorkerHas(v, g) => WorkerHas(v, g)'
    BY <1>2 DEF WorkerTake, NextSlot
  <2>4. \A g \in Tokens : \A i \in Slots :
          jobs[i] = g => (jobs'[i] = g \/ WorkerHas(w, g)')
    BY <1>2, TokensDistinct DEF WorkerTake, NextSlot, RingType
  <2>5. UNCHANGED <<max_jobs, signalled, killed>>
    BY <1>2 DEF WorkerTake, NextSlot
  <2> HIDE DEF WorkerHas, ClientHas
  <2>q. QED
    BY <2>2, <2>3, <2>4, <2>5
<1>3. ASSUME NEW w \in Workers, WorkerExecute(w) PROVE HeldInv'
  BY <1>3 DEF WorkerExecute, vars, ring
<1>4. ASSUME NEW w \in Workers, WorkerBarrier(w) PROVE HeldInv'
  BY <1>4 DEF WorkerBarrier, BarrierOpens, vars, ring
<1>5. ASSUME NEW w \in Workers, WorkerSignal(w) PROVE HeldInv'
  BY <1>5 DEF WorkerSignal, vars, ring
<1>6. ASSUME NEW w \in Workers, WorkerCleanup(w) PROVE HeldInv'
  BY <1>6 DEF WorkerCleanup, ring
<1>7. ASSUME NEW w \in Workers, WorkerLeave(w) PROVE HeldInv'
  BY <1>7 DEF WorkerLeave, vars, ring
<1>8. ASSUME NEW w \in Workers, WorkerDrain(w) PROVE HeldInv'
  <2>1. CASE num_threads = 0
    BY <1>8, <2>1 DEF WorkerDrain, KilledInv
  <2>2. CASE num_threads # 0
    BY <1>8, <2>2 DEF WorkerDrain
  <2>q. QED
    BY <2>1, <2>2
<1>9. ASSUME NEW w \in Workers, WorkerSpurious(w) PROVE HeldInv'
  BY <1>9 DEF WorkerSpurious, vars, ring
<1>10. ASSUME NEW c \in Clients, AddWoken(c) PROVE HeldInv'
  <2> SUFFICES ASSUME ~killed PROVE HeldInv'
    BY <1>10, AddWokenCases
  <2>1. arg[c] \in Tokens /\ ClientHas(c, arg[c]) /\ UNCHANGED <<wjob, signalled, killed>>
    BY <1>10, AddWokenCases DEF HoldInv, Blocked
  <2>d. CASE AddDone(c, arg[c]) /\ UNCHANGED <<wjob, signalled, killed>>
    <3>1. /\ AddReturns(c, arg[c])
          /\ \A w \in Workers : wpc'[w] = wpc[w] \/ (wpc[w] = "wait" /\ wpc'[w] = "loop")
      BY <2>d, AddDoneRest
    <3>2. \A w \in Workers : \A g \in Tokens : WorkerHas(w, g) => WorkerHas(w, g)'
      BY <2>d, <3>1
    <3>3. \A d \in Clients : \A g \in Tokens : ClientHas(d, g) => ClientHas(d, g)' \/ g = arg[c]
      BY <2>1, <3>1, TokensDistinct DEF AddReturns
    <3>4. /\ \E k \in Slots' : jobs'[k] = arg[c]
          /\ \A g \in Tokens : (\E i \in Slots : jobs[i] = g) => \E k \in Slots' : jobs'[k] = g
      BY <2>1, <2>d, AddDoneKeeps
    <3> HIDE DEF WorkerHas, ClientHas, Slots
    <3>q. QED
      BY <2>1, <2>d, <3>2, <3>3, <3>4
  <2>3. CASE pc' = [pc EXCEPT ![c] = "space_wait"] /\ UNCHANGED <<ring, arg, lo, wpc>>
    BY <1>10, <2>1, <2>3, AddWokenCases DEF ring
  <2>q. QED
    BY <1>10, <2>1, <2>d, <2>3, AddWokenCases
<1>11. ASSUME NEW c \in Clients, DropSearch(c) PROVE HeldInv'
  <2>1. arg[c] \in Tokens
    BY <1>11, TokensDistinct DEF DropSearch, ClearSlot, AfterRemoval, HoldInv, Dropping
  <2>2. CASE \E i \in RingScan :
               /\ jobs[i] = arg[c]
               /\ jobs' = [jobs EXCEPT ![i] = NoJob]
               /\ pc' = [pc EXCEPT ![c] = "drop_signal"]
    <3>1. PICK i \in Slots : /\ jobs[i] = arg[c]
                            /\ jobs' = [jobs EXCEPT ![i] = NoJob]
                            /\ pc' = [pc EXCEPT ![c] = "drop_signal"]
      BY <2>2 DEF RingScan
    <3>2. UNCHANGED <<max_jobs, wpc, wjob, arg, signalled, killed>>
      BY <1>11 DEF DropSearch, ClearSlot, AfterRemoval
    <3>3. pc[c] = "drop_search"
      BY <1>11 DEF DropSearch, ClearSlot, AfterRemoval
    <3>q. QED
      BY <2>1, <3>1, <3>2, <3>3 DEF RingType
  <2>3. CASE pc' = [pc EXCEPT ![c] = "drop_wait"] /\ UNCHANGED jobs
    BY <1>11, <2>3 DEF DropSearch, ClearSlot, AfterRemoval
  <2>q. QED
    BY <1>11, <2>2, <2>3 DEF DropSearch, ClearSlot, AfterRemoval
<1>12. ASSUME NEW c \in Clients, DropSignal(c) PROVE HeldInv'
  BY <1>12 DEF DropSignal, vars, ring
<1>13. ASSUME NEW c \in Clients, DropWait(c) PROVE HeldInv'
  BY <1>13 DEF DropWait, vars, ring
<1>14. ASSUME NEW c \in Clients, FinishAdd(c) PROVE HeldInv'
  <2>0. PICK b \in Barriers : AddJob(c, b) /\ pc[c] = "fin_add"
    BY <1>14, FinishAddJob
  <2> SUFFICES ASSUME ~killed PROVE HeldInv'
    BY <2>0, AddJobCases DEF vars
  <2>1. b \in Tokens /\ ~killed /\ pc[c] = "fin_add"
    BY <2>0, TokensDistinct
  <2>s. CASE UNCHANGED vars
    BY <2>s DEF vars, ring
  <2>d. CASE AddDone(c, b) /\ signalled' = signalled \ {b} /\ wjob' = wjob /\ killed' = killed
    <3>1. /\ AddReturns(c, b)
          /\ \A w \in Workers : wpc'[w] = wpc[w] \/ (wpc[w] = "wait" /\ wpc'[w] = "loop")
      BY <2>d, AddDoneRest
    <3>2. \A w \in Workers : \A g \in Tokens : WorkerHas(w, g) => WorkerHas(w, g)'
      BY <2>d, <3>1
    <3>3. \A d \in Clients : \A g \in Tokens : ClientHas(d, g) => ClientHas(d, g)' \/ FALSE
      BY <2>1, <3>1, TokensDistinct DEF AddReturns
    <3>4. /\ \E k \in Slots' : jobs'[k] = b
          /\ \A g \in Tokens : (\E i \in Slots : jobs[i] = g) => \E k \in Slots' : jobs'[k] = g
      BY <2>1, <2>d, AddDoneKeeps
    <3> HIDE DEF WorkerHas, ClientHas, Slots
    <3>q. QED
      BY <2>1, <2>d, <3>2, <3>3, <3>4
  <2>b. CASE AddBlocks(c, b) /\ signalled' = signalled \ {b} /\ wjob' = wjob /\ killed' = killed
    <3>1. \A d \in Clients : \A g \in Tokens : ClientHas(d, g) => ClientHas(d, g)'
      BY <2>1, <2>b, TokensDistinct DEF AddBlocks
    <3>2. ClientHas(c, b)'
      BY <2>b DEF AddBlocks
    <3>3. UNCHANGED <<jobs, max_jobs, wpc>>
      BY <2>b DEF AddBlocks, ring
    <3>q. QED
      BY <2>1, <2>b, <3>1, <3>2, <3>3
  <2>q. QED
    BY <2>0, <2>s, <2>d, <2>b, AddJobCases
<1>15. ASSUME NEW c \in Clients, FinishAdded(c) PROVE HeldInv'
  BY <1>15 DEF FinishAdded, vars, ring
<1>16. ASSUME NEW c \in Clients, FinishReturn(c) PROVE HeldInv'
  BY <1>16 DEF FinishReturn, FinishWaited, vars, ring
<1>17. ASSUME NEW c \in Clients, CreateThread(c) PROVE HeldInv'
  <2>1. \A g \in Tokens : \A v \in Workers : WorkerHas(v, g) => WorkerHas(v, g)'
    BY <1>17 DEF CreateThread, CreateInv
  <2>q. QED
    BY <1>17, <2>1 DEF CreateThread, ring
<1>18. ASSUME NEW c \in Clients, JoinThreads(c) PROVE HeldInv'
  BY <1>18 DEF JoinThreads, Joined, ring
<1>19. ASSUME NEW c \in Clients, DestroyKill(c) PROVE HeldInv'
  <2>1. \A w \in Workers : NotifyAll(wpc, "wait", "loop")[w]
                             = IF wpc[w] = "wait" THEN "loop" ELSE wpc[w]
    BY WakeAllWorkers
  <2>q. QED
    BY <1>19, <2>1 DEF DestroyKill, KillAll, KillSignal, BroadcastHasQueued, vars, ring
<1>20. ASSUME NEW c \in Clients, DestroyUnlist(c) PROVE HeldInv'
  BY <1>20 DEF DestroyUnlist, vars, ring
<1>21. ASSUME NEW c \in Clients, ExitKill(c) PROVE HeldInv'
  <2>1. \A w \in Workers : NotifyAll(wpc, "wait", "loop")[w]
                             = IF wpc[w] = "wait" THEN "loop" ELSE wpc[w]
    BY WakeAllWorkers
  <2>q. QED
    BY <1>21, <2>1 DEF ExitKill, KillAll, KillSignal, BroadcastHasQueued, vars, ring
<1>22. ASSUME NEW c \in Clients, ExitEnd(c) PROVE HeldInv'
  BY <1>22 DEF ExitEnd, vars, ring
<1>23. ASSUME NEW c \in Clients, ClientAdd(c) PROVE HeldInv'
  <2>0. PICK j \in Jobs : AddJob(c, j) /\ pc[c] = "idle"
    BY <1>23, ClientAddJob
  <2> SUFFICES ASSUME ~killed PROVE HeldInv'
    BY <2>0, AddJobCases DEF vars
  <2>1. j \in Tokens /\ ~killed /\ pc[c] = "idle"
    BY <2>0, TokensDistinct
  <2>s. CASE UNCHANGED vars
    BY <2>s DEF vars, ring
  <2>d. CASE AddDone(c, j) /\ signalled' = signalled \ {j} /\ wjob' = wjob /\ killed' = killed
    <3>1. /\ AddReturns(c, j)
          /\ \A w \in Workers : wpc'[w] = wpc[w] \/ (wpc[w] = "wait" /\ wpc'[w] = "loop")
      BY <2>d, AddDoneRest
    <3>2. \A w \in Workers : \A g \in Tokens : WorkerHas(w, g) => WorkerHas(w, g)'
      BY <2>d, <3>1
    <3>3. \A d \in Clients : \A g \in Tokens : ClientHas(d, g) => ClientHas(d, g)' \/ FALSE
      BY <2>1, <3>1, TokensDistinct DEF AddReturns
    <3>4. /\ \E k \in Slots' : jobs'[k] = j
          /\ \A g \in Tokens : (\E i \in Slots : jobs[i] = g) => \E k \in Slots' : jobs'[k] = g
      BY <2>1, <2>d, AddDoneKeeps
    <3> HIDE DEF WorkerHas, ClientHas, Slots
    <3>q. QED
      BY <2>1, <2>d, <3>2, <3>3, <3>4
  <2>b. CASE AddBlocks(c, j) /\ signalled' = signalled \ {j} /\ wjob' = wjob /\ killed' = killed
    <3>1. \A d \in Clients : \A g \in Tokens : ClientHas(d, g) => ClientHas(d, g)'
      BY <2>1, <2>b, TokensDistinct DEF AddBlocks
    <3>2. ClientHas(c, j)'
      BY <2>b DEF AddBlocks
    <3>3. UNCHANGED <<jobs, max_jobs, wpc>>
      BY <2>b DEF AddBlocks, ring
    <3>q. QED
      BY <2>1, <2>b, <3>1, <3>2, <3>3
  <2>q. QED
    BY <2>0, <2>s, <2>d, <2>b, AddJobCases
<1>24. ASSUME NEW c \in Clients, DropBegin(c) PROVE HeldInv'
  BY <1>24 DEF DropBegin, vars, ring
<1>25. ASSUME NEW c \in Clients, FinishBegin(c) PROVE HeldInv'
  BY <1>25 DEF FinishBegin, BarrierSize, vars, ring
<1>26. ASSUME NEW c \in Clients, Adjust(c) PROVE HeldInv'
  <2>1. \A w \in Workers : NotifyAll(wpc, "wait", "loop")[w]
                             = IF wpc[w] = "wait" THEN "loop" ELSE wpc[w]
    BY WakeAllWorkers
  <2>q. QED
    BY <1>26, <2>1 DEF Adjust, KillSignal, BroadcastHasQueued, vars, ring
<1>27. ASSUME NEW c \in Clients, DestroyBegin(c) PROVE HeldInv'
  BY <1>27 DEF DestroyBegin, vars, ring
<1>28. ASSUME NEW c \in Clients, ExitBegin(c) PROVE HeldInv'
  BY <1>28 DEF ExitBegin, vars, ring
<1>29. ASSUME NEW c \in Clients, AddSpurious(c) PROVE HeldInv'
  BY <1>29 DEF AddSpurious, vars, ring
<1>30. CASE UNCHANGED vars
  BY <1>30 DEF vars, ring
<1>q. QED
  BY <1>1, <1>2, <1>3, <1>4, <1>5, <1>6, <1>7, <1>8, <1>9, <1>10, <1>11, <1>12,
     <1>13, <1>14, <1>15, <1>16, <1>17, <1>18, <1>19, <1>20, <1>21, <1>22, <1>23, <1>24,
     <1>25, <1>26, <1>27, <1>28, <1>29, <1>30
  DEF Next, WorkerStep, ClientStep, ClientCall

\* Until shutdown every unsignalled fence has a slot, a worker, a blocked producer
\* or a dropping client that will signal it.
THEOREM FencesHeld == Spec => []NoOrphanFence
<1>1. Init => KilledInv /\ RingConsistent /\ HeldInv
  BY MaxThreadsAssumption, MaxJobsAssumption
  DEF Init, KilledInv, RingConsistent, Slots, HeldInv
<1>2. HeldInv => NoOrphanFence
  BY DEF HeldInv, NoOrphanFence, SlotsOf, WorkersOf, ClientsOf, WorkerHas, ClientHas
<1>q. QED
  BY <1>1, <1>2, BaseInvariant, KilledStep, RingStep, HeldStep, PTL DEF Spec

-----------------------------------------------------------------------------
(***************************************************************************)
(* What a finish waits for                                                  *)
(***************************************************************************)

\* The place of slot i in the queue.
Place(i) == IF i >= read_idx THEN i - read_idx ELSE i - read_idx + max_jobs

\* The jobs that a running finish waits for: they are in the ring, before its barrier
\* jobs, or with workers, and gone before a barrier lets a worker go.
OrderInv ==
  /\ \A c \in Clients : pc[c] = "fin_wait" => lo >= num_threads
  /\ ~killed =>
       /\ before # {} => \E c \in Clients : InFinish(c)
       /\ before \subseteq Pending
       /\ \A i, k \in Slots : jobs[i] \in before /\ jobs[k] \in Barriers => Place(i) < Place(k)
       /\ \A w \in Workers : wjob[w] \in Barriers => \A i \in Slots : jobs[i] \notin before
       /\ \A w \in Workers : wjob[w] \in Barriers /\ wpc[w] = "signal" => before = {}
       /\ \A b \in Barriers : b < lo /\ b \in signalled => before = {}

\* A job is stored behind all others, which keep their places, in a resized ring too.
LEMMA AddDonePlace ==
  ASSUME RingType, RingConsistent, ~killed, NEW c, NEW f \in Tokens, AddDone(c, f)
  PROVE  \E n \in Slots' :
           /\ jobs'[n] = f
           /\ \A k \in Slots' \ {n} : jobs'[k] # NoJob =>
                /\ Place(k)' < Place(n)'
                /\ \E i \in Slots : jobs[i] = jobs'[k] /\ Place(i) = Place(k)'
<1> USE MaxJobsAssumption, TokensDistinct DEF RingType, Slots, Place
<1>1. CASE AddToSlot(c, f)
  <2>1. /\ jobs' = [jobs EXCEPT ![write_idx] = f]
        /\ UNCHANGED <<max_jobs, read_idx>> /\ num_queued < max_jobs
    BY <1>1 DEF AddToSlot, AddStore, Full, RingConsistent
  <2>2. Place(write_idx) = num_queued
    BY <2>1 DEF RingConsistent
  <2>3. ASSUME NEW k \in Slots \ {write_idx}, jobs'[k] # NoJob
        PROVE  Place(k) < num_queued /\ jobs'[k] = jobs[k]
    BY <2>1, <2>3 DEF RingConsistent, InWindow
  <2>q. QED
    BY <2>1, <2>2, <2>3
<1>2. CASE AddResized(c, f)
  <2> DEFINE m == max_jobs + ResizeStep
             at(i) == (read_idx + i) % max_jobs
  <2>1. \A i \in 0 .. max_jobs - 1 :
          at(i) = IF read_idx + i < max_jobs THEN read_idx + i
                  ELSE read_idx + i - max_jobs
    BY RingIndex
  <2>2. /\ max_jobs' = m /\ read_idx' = 0
        /\ \A i \in 0 .. m - 1 : jobs'[i] = IF i = max_jobs THEN f
                                            ELSE IF i < max_jobs THEN jobs[at(i)]
                                            ELSE NoJob
    BY <1>2 DEF AddResized, ReadAfterResize, AddStore, SignalHasQueued, NextSlot
  <2> HIDE DEF at
  <2>3. \A k \in 0 .. m - 1 : Place(k)' = k
    BY <2>2
  <2>4. ASSUME NEW k \in Slots' \ {max_jobs}, jobs'[k] # NoJob
        PROVE  /\ k < max_jobs
               /\ \E i \in Slots : jobs[i] = jobs'[k] /\ Place(i) = k
    <3>1. k \in 0 .. m - 1 /\ k < max_jobs /\ jobs'[k] = jobs[at(k)]
      BY <2>2, <2>4
    <3>2. at(k) \in Slots /\ Place(at(k)) = k
      BY <2>1, <3>1
    <3>q. QED
      BY <3>1, <3>2
  <2>5. max_jobs \in Slots' /\ jobs'[max_jobs] = f
    BY <2>2
  <2> HIDE DEF Place
  <2>q. QED
    BY <2>2, <2>3, <2>4, <2>5
<1>q. QED
  BY <1>1, <1>2 DEF AddDone

\* Storing a job that the running finish does not wait for.
LEMMA AddDoneOrder ==
  ASSUME RingType, ThreadsType, ClientsType, RingConsistent, OrderInv,
         NEW c \in Clients, NEW f \in Tokens, AddDone(c, f),
         ~killed => f \notin before,
         f \in Barriers => InFinish(c) /\ f = lo, InFinish(c) => f \in Barriers,
         signalled' = signalled \ {f},
         UNCHANGED <<before, wjob, killed, num_threads>>
  PROVE  OrderInv'
<1>1. /\ AddReturns(c, f)
      /\ \A w \in Workers : wpc'[w] = wpc[w] \/ (wpc[w] = "wait" /\ wpc'[w] = "loop")
  BY AddDoneRest
<1>2. \A d \in Clients : InFinish(d) => InFinish(d)'
  BY <1>1 DEF AddReturns, InFinish, Blocked, ClientsType
<1>3. \A d \in Clients : pc'[d] = "fin_wait" => pc[d] = "fin_wait" /\ lo' >= lo
  BY <1>1 DEF AddReturns, ClientsType
<1>4. \A d \in Clients : pc'[d] = "fin_wait" => lo' >= num_threads'
  BY <1>1, <1>3 DEF OrderInv, AddReturns, ClientsType, ThreadsType
<1> SUFFICES ASSUME ~killed PROVE OrderInv'
  BY <1>4 DEF OrderInv
<1>5. PICK n \in Slots' :
        /\ jobs'[n] = f
        /\ \A k \in Slots' \ {n} : jobs'[k] # NoJob =>
             /\ Place(k)' < Place(n)'
             /\ \E i \in Slots : jobs[i] = jobs'[k] /\ Place(i) = Place(k)'
  BY AddDonePlace
<1>6. NoJob \notin before /\ NoJob \notin Barriers
  BY TokensDistinct DEF ClientsType
<1>7. \A k \in Slots' : jobs'[k] \in before =>
        k # n /\ \E i \in Slots : jobs[i] = jobs'[k] /\ Place(i) = Place(k)'
  BY <1>5, <1>6
<1>8. ASSUME NEW i \in Slots', NEW k \in Slots', jobs'[i] \in before, jobs'[k] \in Barriers
      PROVE  Place(i)' < Place(k)'
  <2>1. PICK i0 \in Slots : jobs[i0] = jobs'[i] /\ Place(i0) = Place(i)'
    BY <1>7, <1>8
  <2>2. CASE k = n
    BY <1>5, <1>6, <1>7, <1>8, <2>2
  <2>3. CASE k # n
    <3>1. PICK k0 \in Slots : jobs[k0] = jobs'[k] /\ Place(k0) = Place(k)'
      BY <1>5, <1>6, <1>8, <2>3
    <3>q. QED
      BY <1>8, <2>1, <3>1 DEF OrderInv
  <2>q. QED
    BY <2>2, <2>3
<1>9. before' \subseteq Pending'
  <2> SUFFICES ASSUME NEW j \in before PROVE j \in Pending'
    OBVIOUS
  <2>1. j \in Pending /\ j \in Tokens
    BY TokensDistinct DEF OrderInv, Pending
  <2>2. CASE \E i \in Slots : jobs[i] = j
    BY <2>1, <2>2, AddDoneKeeps DEF Pending
  <2>3. CASE \E w \in Workers : wjob[w] = j /\ wpc[w] \in {"exec", "signal"}
    BY <1>1, <2>1, <2>3 DEF Pending
  <2>q. QED
    BY <2>1, <2>2, <2>3 DEF Pending
<1>10. \A w \in Workers : wjob'[w] \in Barriers => \A i \in Slots' : jobs'[i] \notin before'
  <2> SUFFICES ASSUME NEW w \in Workers, wjob[w] \in Barriers, NEW i \in Slots',
                      jobs'[i] \in before
               PROVE  FALSE
    OBVIOUS
  <2>q. QED
    BY <1>7 DEF OrderInv
<1>11. \A w \in Workers : wjob'[w] \in Barriers /\ wpc'[w] = "signal" => before' = {}
  BY <1>1 DEF OrderInv
<1>12. \A b \in Barriers : b < lo' /\ b \in signalled' => before' = {}
  <2> SUFFICES ASSUME NEW b \in Barriers, b < lo', b \in signalled, b # f PROVE before = {}
    OBVIOUS
  <2>1. b < lo
    BY <1>1 DEF AddReturns, Barriers, ClientsType
  <2>q. QED
    BY <2>1 DEF OrderInv
<1>q. QED
  BY <1>2, <1>4, <1>8, <1>9, <1>10, <1>11, <1>12 DEF OrderInv

\* No worker gets past a barrier while a job from before it is under way.
LEMMA OrderStep ==
  /\ BaseInv /\ KilledInv /\ RingConsistent /\ BarrierInv /\ AloneInv /\ FreeInv
  /\ OrderInv /\ [Next]_vars
  => OrderInv'
<1> SUFFICES ASSUME RingType, ThreadsType, ClientsType, FlagsType, HoldInv, LockInv,
                    DoomedAreJoined, KilledInv, RingConsistent, BarrierInv, AloneInv,
                    FreeInv, OrderInv, [Next]_vars
             PROVE  OrderInv'
  BY DEF BaseInv, TypeOK
<1> USE MaxThreadsAssumption
    DEF OrderInv, Pending, Place, InFinish, Blocked, Slots, ThreadsType, ClientsType
<1>1. ASSUME NEW w \in Workers, WorkerSleep(w) PROVE OrderInv'
  BY <1>1 DEF WorkerSleep, vars, ring, fin
<1>2. ASSUME NEW w \in Workers, WorkerTake(w) PROVE OrderInv'
  <2>1. \A c \in Clients :
          pc'[c] = pc[c] \/ (pc[c] = "space_wait" /\ pc'[c] = "space_woken")
    BY <1>2, WakeClient DEF WorkerTake
  <2>2. \A c \in Clients : InFinish(c) => InFinish(c)'
    BY <1>2, <2>1 DEF WorkerTake
  <2>3. \A c \in Clients : pc'[c] = "fin_wait" => lo' >= num_threads'
    BY <1>2, <2>1 DEF WorkerTake, fin
  <2> SUFFICES ASSUME ~killed PROVE OrderInv'
    BY <1>2, <2>3 DEF WorkerTake
  <2>4. /\ jobs' = [jobs EXCEPT ![read_idx] = NoJob] /\ max_jobs' = max_jobs
        /\ read_idx' = IF read_idx + 1 < max_jobs THEN read_idx + 1 ELSE 0
        /\ read_idx \in Slots /\ wpc[w] = "loop"
    BY <1>2, NextIndex DEF WorkerTake, NextSlot, RingType
  <2>5. \A i \in Slots : jobs'[i] # NoJob =>
          i # read_idx /\ jobs'[i] = jobs[i] /\ Place(i)' = Place(i) - 1
    <3> SUFFICES ASSUME NEW i \in Slots, jobs'[i] # NoJob
                 PROVE  i # read_idx /\ jobs'[i] = jobs[i] /\ Place(i)' = Place(i) - 1
      OBVIOUS
    <3>1. i # read_idx /\ jobs'[i] = jobs[i]
      BY <2>4 DEF RingType
    <3>2. CASE read_idx + 1 < max_jobs
      BY <2>4, <3>1, <3>2 DEF RingType
    <3>3. CASE read_idx = max_jobs - 1
      BY <2>4, <3>1, <3>3 DEF RingType
    <3>q. QED
      BY <2>4, <3>1, <3>2, <3>3 DEF RingType
  <2>6. /\ wjob' = [wjob EXCEPT ![w] = jobs[read_idx]]
        /\ wpc' = [wpc EXCEPT ![w] = IF jobs[read_idx] = NoJob THEN "loop" ELSE "exec"]
        /\ UNCHANGED <<before, signalled, lo, killed, num_threads>>
    BY <1>2 DEF WorkerTake, fin
  <2>7. NoJob \notin before /\ before \subseteq Jobs /\ wjob[w] = NoJob
    BY <2>4, TokensDistinct DEF HoldInv, Busy
  <2>8. before' \subseteq Pending'
    <3> SUFFICES ASSUME NEW j \in before PROVE j \in Pending'
      BY <2>6
    <3>0. j \in Pending /\ j # NoJob
      BY <2>7
    <3>1. CASE \E i \in Slots : jobs[i] = j
      <4>1. PICK i \in Slots : jobs[i] = j
        BY <3>1
      <4>2. CASE i = read_idx
        BY <2>6, <2>7, <3>0, <4>1, <4>2
      <4>3. CASE i # read_idx
        BY <2>4, <2>7, <3>0, <4>1, <4>3 DEF RingType
      <4>q. QED
        BY <4>2, <4>3
    <3>2. CASE \E v \in Workers : wjob[v] = j /\ wpc[v] \in {"exec", "signal"}
      <4>1. PICK v \in Workers : wjob[v] = j /\ wpc[v] \in {"exec", "signal"}
        BY <3>2
      <4>2. v # w
        BY <2>4, <4>1
      <4>q. QED
        BY <2>6, <2>7, <4>1, <4>2
    <3>q. QED
      BY <3>0, <3>1, <3>2
  <2>9. \A i, k \in Slots :
          jobs'[i] \in before /\ jobs'[k] \in Barriers => Place(i)' < Place(k)'
    <3> SUFFICES ASSUME NEW i \in Slots, NEW k \in Slots,
                        jobs'[i] \in before, jobs'[k] \in Barriers
                 PROVE  Place(i)' < Place(k)'
      OBVIOUS
    <3>1. jobs[i] \in before /\ jobs[k] \in Barriers
          /\ Place(i)' = Place(i) - 1 /\ Place(k)' = Place(k) - 1
      BY <2>5, <2>7, TokensDistinct
    <3>2. Place(i) < Place(k)
      BY <3>1
    <3>q. QED
      BY <3>1, <3>2, <2>4 DEF RingType
  <2>10. jobs[read_idx] \in Barriers => \A i \in Slots : jobs[i] \notin before
    <3> SUFFICES ASSUME jobs[read_idx] \in Barriers, NEW i \in Slots, jobs[i] \in before
                 PROVE  FALSE
      OBVIOUS
    <3>1. Place(i) < Place(read_idx)
      BY <2>4
    <3>q. QED
      BY <2>4, <3>1 DEF RingType
  <2>11. \A v \in Workers : wjob'[v] \in Barriers => \A i \in Slots : jobs'[i] \notin before
    BY <2>5, <2>6, <2>7, <2>10
  <2>q. QED
    BY <2>2, <2>3, <2>4, <2>6, <2>8, <2>9, <2>11 DEF WorkerTake
<1>3. ASSUME NEW w \in Workers, WorkerExecute(w) PROVE OrderInv'
  BY <1>3, TokensDistinct DEF WorkerExecute, vars, ring, fin
<1>4. ASSUME NEW w \in Workers, WorkerBarrier(w) PROVE OrderInv'
  <2> DEFINE arrived == {v \in Workers : wpc[v] = "barrier"} \cup {w}
  <2>1. /\ wpc' = IF Cardinality(arrived) >= bar_count
                  THEN [v \in Workers |-> IF v \in arrived THEN "signal" ELSE wpc[v]]
                  ELSE [wpc EXCEPT ![w] = "barrier"]
        /\ UNCHANGED <<jobs, max_jobs, read_idx, before, signalled, lo, killed,
                       num_threads, wjob, pc, arg>>
        /\ wpc[w] = "exec" /\ wjob[w] \in Barriers
    BY <1>4 DEF WorkerBarrier, BarrierOpens, ring, fin
  <2>2. CASE Cardinality(arrived) >= bar_count /\ ~killed
    <3>1. \A v \in arrived : wjob[v] \in Barriers /\ wpc[v] \in {"exec", "barrier"}
      BY <2>1 DEF HoldInv
    <3>2. PICK c \in Clients : InFinish(c)
      BY <2>1, TokensDistinct DEF BarrierInv, FreeInv, WorkerHas
    <3>3. finish_lock = c /\ bar_count = num_threads /\ pc[c] # "join"
      BY <3>2 DEF LockInv
    <3>4. arrived \subseteq 0 .. num_threads - 1
      BY <3>1, <3>3 DEF DoomedAreJoined, Workers
    <3>5. arrived = 0 .. num_threads - 1
      <4>1. IsFiniteSet(0 .. num_threads - 1) /\ Cardinality(0 .. num_threads - 1) = num_threads
        BY FS_Interval
      <4>2. Cardinality(arrived) \in Nat /\ Cardinality(arrived) <= num_threads
        BY <3>4, <4>1, FS_Subset, FS_CardinalityType
      <4>3. Cardinality(arrived) = Cardinality(0 .. num_threads - 1)
        BY <2>2, <3>3, <4>1, <4>2
      <4> HIDE DEF arrived
      <4>q. QED
        BY <3>4, <4>1, <4>3, FS_Subset
    <3>6. \A v \in Workers : wpc[v] \in {"exec", "signal"} => wjob[v] \in Barriers
      BY <3>1, <3>3, <3>5 DEF DoomedAreJoined, Workers
    <3>7. \A i \in Slots : jobs[i] \notin before
      BY <2>1, <2>2
    <3>8. before = {}
      BY <2>2, <3>6, <3>7, TokensDistinct
    <3>q. QED
      BY <2>1, <3>8
  <2>3. CASE ~(Cardinality(arrived) >= bar_count)
    <3>1. wpc' = [wpc EXCEPT ![w] = "barrier"]
      BY <2>1, <2>3
    <3>q. QED
      BY <2>1, <3>1, TokensDistinct
  <2>4. CASE killed
    BY <2>1, <2>4
  <2>q. QED
    BY <2>2, <2>3, <2>4
<1>5. ASSUME NEW w \in Workers, WorkerSignal(w) PROVE OrderInv'
  BY <1>5, TokensDistinct DEF WorkerSignal, vars, ring, fin, HoldInv, Busy
<1>6. ASSUME NEW w \in Workers, WorkerCleanup(w) PROVE OrderInv'
  BY <1>6, TokensDistinct DEF WorkerCleanup, vars, ring, fin
<1>7. ASSUME NEW w \in Workers, WorkerLeave(w) PROVE OrderInv'
  BY <1>7 DEF WorkerLeave, vars, ring, fin
<1>8. ASSUME NEW w \in Workers, WorkerDrain(w) PROVE OrderInv'
  <2>1. CASE num_threads = 0
    BY <1>8, <2>1 DEF WorkerDrain, KilledInv, fin
  <2>2. CASE num_threads # 0
    BY <1>8, <2>2 DEF WorkerDrain, fin
  <2>q. QED
    BY <2>1, <2>2
<1>9. ASSUME NEW w \in Workers, WorkerSpurious(w) PROVE OrderInv'
  BY <1>9 DEF WorkerSpurious, vars, ring, fin
<1>10. ASSUME NEW c \in Clients, AddWoken(c) PROVE OrderInv'
  <2>1. /\ pc[c] = "space_woken" /\ arg[c] \in Tokens
        /\ UNCHANGED <<before, wjob, killed, num_threads, signalled>>
    BY <1>10, AddWokenCases DEF HoldInv, Blocked
  <2>2. arg[c] \notin signalled /\ (~killed => arg[c] \notin before)
    BY <2>1 DEF AloneInv, FreeInv, WorkerHas, ClientHas
  <2>3. arg[c] \in Barriers => InFinish(c) /\ arg[c] = lo
    BY <2>1 DEF LockInv
  <2>4. InFinish(c) => arg[c] \in Barriers
    BY <2>1
  <2>d. CASE AddDone(c, arg[c])
    <3>1. signalled' = signalled \ {arg[c]}
      BY <2>1, <2>2
    <3>q. QED
      BY <2>1, <2>2, <2>3, <2>4, <2>d, <3>1, AddDoneOrder
  <2>e. CASE pc' = [pc EXCEPT ![c] = "space_wait"] /\ UNCHANGED <<ring, arg, lo, wpc>>
    BY <2>1, <2>e DEF ring
  <2>q. QED
    BY <1>10, <2>d, <2>e, AddWokenCases
<1>11. ASSUME NEW c \in Clients, DropSearch(c) PROVE OrderInv'
  <2>1. UNCHANGED <<max_jobs, read_idx, lo, killed, num_threads, wpc, wjob, arg, signalled>>
        /\ pc[c] = "drop_search" /\ arg[c] \in Jobs
    BY <1>11 DEF DropSearch, HoldInv, Dropping
  <2>2. CASE \E i \in RingScan :
               /\ jobs[i] = arg[c]
               /\ jobs' = [jobs EXCEPT ![i] = NoJob]
               /\ before' = before \ {arg[c]}
               /\ pc' = [pc EXCEPT ![c] = "drop_signal"]
    <3>1. PICK i \in Slots : /\ jobs[i] = arg[c]
                            /\ jobs' = [jobs EXCEPT ![i] = NoJob]
                            /\ before' = before \ {arg[c]}
                            /\ pc' = [pc EXCEPT ![c] = "drop_signal"]
      BY <2>2 DEF RingScan
    <3>2. \A k \in Slots : jobs'[k] # NoJob => jobs'[k] = jobs[k]
      BY <3>1 DEF RingType
    <3>3. NoJob \notin before /\ NoJob \notin Barriers
      BY TokensDistinct
    <3>4. ~killed => before' \subseteq Pending'
      <4> SUFFICES ASSUME ~killed, NEW j \in before, j # arg[c] PROVE j \in Pending'
        BY <3>1
      <4>1. j \in Pending
        OBVIOUS
      <4>2. CASE \E k \in Slots : jobs[k] = j
        BY <2>1, <3>1, <4>1, <4>2 DEF RingType
      <4>3. CASE \E v \in Workers : wjob[v] = j /\ wpc[v] \in {"exec", "signal"}
        BY <2>1, <4>1, <4>3
      <4>q. QED
        BY <4>1, <4>2, <4>3
    <3>5. \A d \in Clients : InFinish(d) => InFinish(d)'
      BY <2>1, <3>1
    <3>6. \A k \in Slots : Place(k)' = Place(k)
      BY <2>1
    <3>q. QED
      BY <2>1, <3>1, <3>2, <3>3, <3>4, <3>5, <3>6
  <2>3. CASE pc' = [pc EXCEPT ![c] = "drop_wait"] /\ UNCHANGED <<jobs, before>>
    BY <2>1, <2>3
  <2>q. QED
    BY <1>11, <2>2, <2>3 DEF DropSearch, ClearSlot, AfterRemoval
<1>12. ASSUME NEW c \in Clients, DropSignal(c) PROVE OrderInv'
  BY <1>12, TokensDistinct DEF DropSignal, vars, ring, fin, HoldInv, Dropping
<1>13. ASSUME NEW c \in Clients, DropWait(c) PROVE OrderInv'
  BY <1>13 DEF DropWait, vars, ring, fin
<1>14. ASSUME NEW c \in Clients, FinishAdd(c) PROVE OrderInv'
  <2>1. /\ pc[c] = "fin_add" /\ lo \in Barriers /\ lo \in Tokens /\ AddJob(c, lo)
        /\ lo \notin before /\ InFinish(c)
    BY <1>14, FinishAddJob, TokensDistinct
  <2>s. CASE UNCHANGED vars
    BY <2>s DEF vars, ring, fin
  <2>d. CASE /\ AddDone(c, lo) /\ signalled' = signalled \ {lo}
             /\ UNCHANGED <<before, wjob, killed, num_threads>>
    BY <2>1, <2>d, AddDoneOrder
  <2>b. CASE /\ AddBlocks(c, lo) /\ signalled' = signalled \ {lo}
             /\ UNCHANGED <<before, wjob, killed, num_threads>>
    BY <2>1, <2>b DEF AddBlocks, ring
  <2>q. QED
    BY <2>1, <2>s, <2>d, <2>b, AddJobCases
<1>15. ASSUME NEW c \in Clients, FinishAdded(c) PROVE OrderInv'
  BY <1>15 DEF FinishAdded, vars, ring, fin
<1>16. ASSUME NEW c \in Clients, FinishReturn(c) PROVE OrderInv'
  BY <1>16 DEF FinishReturn, FinishWaited, vars, ring, fin
<1>17. ASSUME NEW c \in Clients, CreateThread(c) PROVE OrderInv'
  <2>1. \A d \in Clients : ~InFinish(d)
    BY <1>17 DEF CreateThread, LockInv
  <2>2. ~killed => before = {}
    BY <2>1
  <2>3. \A d \in Clients : pc'[d] # "fin_wait"
    BY <1>17, <2>1 DEF CreateThread
  <2>q. QED
    BY <1>17, <2>2, <2>3 DEF CreateThread, ring, fin
<1>18. ASSUME NEW c \in Clients, JoinThreads(c) PROVE OrderInv'
  BY <1>18 DEF JoinThreads, Joined, vars, ring, fin
<1>19. ASSUME NEW c \in Clients, DestroyKill(c) PROVE OrderInv'
  <2>1. \A v \in Workers : NotifyAll(wpc, "wait", "loop")[v]
                             = IF wpc[v] = "wait" THEN "loop" ELSE wpc[v]
    BY WakeAllWorkers
  <2>2. finish_lock = NoClient /\ \A d \in Clients : ~InFinish(d)
    BY <1>19, ClientsAssumption DEF DestroyKill, KillAll, LockInv
  <2>q. QED
    BY <1>19, <2>1, <2>2 DEF DestroyKill, KillAll, KillSignal, BroadcastHasQueued, vars, ring, fin
<1>20. ASSUME NEW c \in Clients, DestroyUnlist(c) PROVE OrderInv'
  BY <1>20 DEF DestroyUnlist, ExitMutexFree, vars, ring, fin
<1>21. ASSUME NEW c \in Clients, ExitKill(c) PROVE OrderInv'
  <2>1. \A v \in Workers : NotifyAll(wpc, "wait", "loop")[v]
                             = IF wpc[v] = "wait" THEN "loop" ELSE wpc[v]
    BY WakeAllWorkers
  <2>2. finish_lock = NoClient /\ \A d \in Clients : ~InFinish(d)
    BY <1>21, ClientsAssumption DEF ExitKill, KillAll, LockInv
  <2>q. QED
    BY <1>21, <2>1, <2>2 DEF ExitKill, KillAll, KillSignal, BroadcastHasQueued, vars, ring, fin
<1>22. ASSUME NEW c \in Clients, ExitEnd(c) PROVE OrderInv'
  BY <1>22 DEF ExitEnd, vars, ring, fin
<1>23. ASSUME NEW c \in Clients, ClientAdd(c) PROVE OrderInv'
  <2>0. PICK j \in Jobs : AddJob(c, j) /\ j \in signalled
    BY <1>23, ClientAddJob
  <2>1. /\ pc[c] = "idle" /\ AddJob(c, j) /\ j \in Tokens /\ j \notin Barriers
        /\ (~killed => j \notin before) /\ ~InFinish(c)
    BY <1>23, <2>0, ClientAddJob, TokensDistinct DEF FreeInv, WorkerHas
  <2>s. CASE UNCHANGED vars
    BY <2>s DEF vars, ring, fin
  <2>d. CASE /\ AddDone(c, j) /\ signalled' = signalled \ {j}
             /\ UNCHANGED <<before, wjob, killed, num_threads>>
    BY <2>1, <2>d, AddDoneOrder
  <2>b. CASE /\ AddBlocks(c, j) /\ signalled' = signalled \ {j}
             /\ UNCHANGED <<before, wjob, killed, num_threads>>
    BY <2>1, <2>b DEF AddBlocks, ring
  <2>q. QED
    BY <2>1, <2>s, <2>d, <2>b, AddJobCases
<1>24. ASSUME NEW c \in Clients, DropBegin(c) PROVE OrderInv'
  BY <1>24 DEF DropBegin, vars, ring, fin
<1>25. ASSUME NEW c \in Clients, FinishBegin(c) PROVE OrderInv'
  <2>1. CASE UNCHANGED vars
    BY <2>1 DEF vars, ring, fin
  <2>2. CASE ~UNCHANGED vars
    <3>1. /\ lo' = 0 /\ before' = Pending /\ pc' = [pc EXCEPT ![c] = "fin_add"]
          /\ UNCHANGED <<jobs, max_jobs, read_idx, num_threads, killed, wpc, wjob, arg,
                         signalled>>
          /\ finish_lock = NoClient /\ pc[c] = "idle"
      BY <1>25, <2>2 DEF FinishBegin, ring
    <3>2. \A d \in Clients : ~InFinish(d)
      BY <3>1, ClientsAssumption DEF LockInv
    <3>3. Barriers \subseteq signalled
      BY <3>2 DEF BarrierInv
    <3>4. /\ \A i \in Slots : jobs[i] \notin Barriers
          /\ \A v \in Workers : wjob[v] \notin Barriers
      BY <3>3, TokensDistinct DEF FreeInv, WorkerHas, HoldInv, Busy
    <3>5. Pending' = Pending
      BY <3>1
    <3>6. InFinish(c)' /\ \A d \in Clients : pc'[d] # "fin_wait"
      BY <3>1, <3>2
    <3>q. QED
      BY <3>1, <3>4, <3>5, <3>6 DEF Barriers
  <2>q. QED
    BY <2>1, <2>2
<1>26. ASSUME NEW c \in Clients, Adjust(c) PROVE OrderInv'
  <2>1. \A v \in Workers : NotifyAll(wpc, "wait", "loop")[v]
                             = IF wpc[v] = "wait" THEN "loop" ELSE wpc[v]
    BY WakeAllWorkers
  <2>2. finish_lock = NoClient /\ \A d \in Clients : ~InFinish(d)
    BY <1>26, ClientsAssumption DEF Adjust, LockInv
  <2>q. QED
    BY <1>26, <2>1, <2>2 DEF Adjust, KillSignal, BroadcastHasQueued, vars, ring, fin
<1>27. ASSUME NEW c \in Clients, DestroyBegin(c) PROVE OrderInv'
  BY <1>27 DEF DestroyBegin, vars, ring, fin
<1>28. ASSUME NEW c \in Clients, ExitBegin(c) PROVE OrderInv'
  BY <1>28 DEF ExitBegin, ExitMutexFree, vars, ring, fin
<1>29. ASSUME NEW c \in Clients, AddSpurious(c) PROVE OrderInv'
  BY <1>29 DEF AddSpurious, vars, ring, fin
<1>30. CASE UNCHANGED vars
  BY <1>30 DEF vars, ring, fin
<1>q. QED
  BY <1>1, <1>2, <1>3, <1>4, <1>5, <1>6, <1>7, <1>8, <1>9, <1>10, <1>11, <1>12,
     <1>13, <1>14, <1>15, <1>16, <1>17, <1>18, <1>19, <1>20, <1>21, <1>22, <1>23, <1>24,
     <1>25, <1>26, <1>27, <1>28, <1>29, <1>30
  DEF Next, WorkerStep, ClientStep, ClientCall

\* When util_queue_finish can return, each job that was in the ring or executing when
\* it began has been executed and signalled, or dropped (until shutdown), for any
\* number of threads, jobs and slots.
THEOREM FinishComplete == Spec => []FinishWaitsForAll
<1>1. Init => KilledInv /\ RingConsistent /\ OrderInv
  BY MaxThreadsAssumption, MaxJobsAssumption
  DEF Init, KilledInv, RingConsistent, Slots, OrderInv, Barriers, InWindow
<1>2. BaseInv /\ KilledInv /\ OrderInv => FinishWaitsForAll
  <2> SUFFICES ASSUME BaseInv, KilledInv, OrderInv, ~killed, NEW c \in Clients,
                      FinishWaited(c)
               PROVE  before = {}
    BY DEF FinishWaitsForAll
  <2>1. num_threads \in 1 .. MaxThreads /\ lo >= num_threads /\ lo \in Nat
    BY DEF BaseInv, TypeOK, ThreadsType, ClientsType, KilledInv, OrderInv, FinishWaited
  <2>2. 0 \in Barriers /\ 0 < lo /\ 0 \in signalled
    BY <2>1, MaxThreadsAssumption DEF Barriers, FinishWaited
  <2>q. QED
    BY <2>2 DEF OrderInv
<1>q. QED
  BY <1>1, <1>2, BaseInvariant, KilledStep, RingStep, FencesInitially, BarrierStep,
     FenceStep, OrderStep, PTL DEF Spec

=============================================================================
