----------------------------- MODULE DiskCache -----------------------------
(***************************************************************************)
(* The on-disk shader cache (util/disk_cache.c), shared by processes that   *)
(* have nothing in common but the directory and the counter of its size in  *)
(* the mapped index.  cache_put runs in the threads of the processes' cache *)
(* queues, four to a process, each with file descriptors of its own, and    *)
(* disk_cache_remove in threads of an application.                          *)
(*                                                                          *)
(* Every system call that reads or changes the directory, and every atomic  *)
(* operation on the size, is one action.  A file is an inode: it lives as   *)
(* long as it has a name or is open, and flock belongs to the inode, not to *)
(* its name.  A key always names the same data, so the contents of a file   *)
(* are the number of its pieces that have been written.  Open, flock,       *)
(* write, rename and the writer's stat may fail for reasons the model does  *)
(* not show; unlink is taken to succeed.  A process may die at any point,   *)
(* which closes its files and gives back its locks: its threads stop.       *)
(***************************************************************************)
EXTENDS Integers, FiniteSets

CONSTANTS
  Procs,          \* threads, of any processes, that put entries into the cache
  Apps,           \* threads that remove entries
  Keys,           \* each in a directory of its own
  MaxFiles,       \* bound of the model: files that live at the same time
  None,           \* no process, no inode, no key
  Pieces,         \* writes that make a complete file
  MaxSize,        \* cache->max_size, in pieces
  SizeWrap,       \* the size wraps here, 2^64
  MaxEvictions    \* evictions tried for one put, 8

ASSUME SizesAssumption ==
  /\ {Pieces, MaxEvictions, MaxFiles} \subseteq Nat \ {0}
  /\ MaxSize \in Nat /\ SizeWrap \in Nat /\ SizeWrap > MaxSize + Pieces
ASSUME NamesAssumption == None \notin Procs \cup Keys \cup Nat
ASSUME FiniteAssumption == IsFiniteSet(Procs) /\ IsFiniteSet(Apps) /\ IsFiniteSet(Keys)

VARIABLES
  final, tmp,     \* the directory: the inodes of <key> and <key>.tmp
  len,            \* pieces in a file
  lock,           \* who holds the flock of a file
  size,           \* *cache->size
  put,            \* the call of cache_put of a thread
  rem,            \* the call of disk_cache_remove of a thread
  alone,          \* history: puts nobody else has had a part in since their open
  crossed,        \* history: a process went on with a lock on a file that is not <key>.tmp
  skewed,         \* history: something was counted twice or not at all
  left            \* history: keys with a temporary file somebody left who died, or
                  \* whose flock failed though nobody had the lock

names == <<final, tmp>>
hist == <<alone, crossed, skewed, left>>
vars == <<names, len, lock, size, put, rem, hist>>

Inodes == 1 .. MaxFiles
NoVictim == [key |-> None, size |-> 0]

\* A process without a job, and a thread outside of disk_cache_remove.
IdlePut == [pc |-> "idle", key |-> None, tries |-> 0, fd |-> None, off |-> 0,
            victim |-> NoVictim]
IdleRem == [pc |-> "idle", victim |-> NoVictim]

Init ==
  /\ final = [k \in Keys |-> None] /\ tmp = [k \in Keys |-> None]
  /\ len = [i \in Inodes |-> 0] /\ lock = [i \in Inodes |-> None]
  /\ size = 0
  /\ put = [p \in Procs |-> IdlePut] /\ rem = [a \in Apps |-> IdleRem]
  /\ alone = {} /\ crossed = FALSE /\ skewed = FALSE /\ left = {}
-----------------------------------------------------------------------------
(***************************************************************************)
(* Files                                                                    *)
(***************************************************************************)
InUse(i) ==
  (\E k \in Keys : i \in {final[k], tmp[k]}) \/ (\E p \in Procs : put[p].fd = i)

\* The contents of a file that is neither named nor open any more are gone.
FreeFiles == len' = [i \in Inodes |-> IF InUse(i)' THEN len[i] ELSE 0]

At(p, pc) == put[p].pc = pc
Go(p, pc) == put' = [put EXCEPT ![p].pc = pc]

\* p_atomic_add of a uint64_t.
AddSize(n) == size' = (size + n) % SizeWrap
SubtractSize(n) == AddSize(SizeWrap - n)

\* What stat finds under the name of an entry.
StatOf(k) == [key |-> k, size |-> len[final[k]]]

\* unlink(filename): the name goes, whatever file it is the name of by now.
\* The size gets off when it was gone, or when a writer among `others' counts on it.
UnlinkEntry(k, others) ==
  /\ final' = [final EXCEPT ![k] = None]
  /\ skewed' = (skewed \/ final[k] = None
                       \/ \E p \in others : /\ put[p].key = k
                                            /\ put[p].pc \in {"stat", "unlink_final"})

\* The key whose temporary file p would leave if it stopped now.
LeftBy(p) == {k \in Keys : k = put[p].key /\ tmp[k] # None /\ tmp[k] = put[p].fd}
-----------------------------------------------------------------------------
(***************************************************************************)
(* cache_put                                                                *)
(***************************************************************************)

\* disk_cache_put queues the job and the thread of the queue takes it.
StartPut(p, k) ==
  /\ At(p, "idle")
  /\ put' = [put EXCEPT ![p].pc = "evict", ![p].key = k]
  /\ alone' = {}
  /\ UNCHANGED <<names, len, lock, size, rem, crossed, skewed, left>>

\* The condition of the loop that evicts: too large, and not tried too often.
StillTooLarge(p) ==
  (size + Pieces) % SizeWrap > MaxSize /\ put[p].tries < MaxEvictions

EvictDone(p) ==
  /\ At(p, "evict") /\ ~StillTooLarge(p)
  /\ put' = [put EXCEPT ![p].pc = "open", ![p].tries = 0]
  /\ UNCHANGED <<names, len, lock, size, rem, hist>>

\* evict_lru_item chooses a directory and in it a file that is not temporary, and
\* looks at its size; the directory may have nothing but a temporary file ...
EvictChoose(p) ==
  /\ At(p, "evict") /\ StillTooLarge(p)
  /\ \/ \E k \in Keys :
          /\ final[k] # None
          /\ put' = [put EXCEPT ![p].pc = "unlink_lru", ![p].victim = StatOf(k),
                                ![p].tries = @ + 1]
     \/ /\ \/ \A k \in Keys : final[k] = None
           \/ \E k \in Keys : final[k] = None /\ tmp[k] # None
        /\ put' = [put EXCEPT ![p].tries = @ + 1]
  /\ UNCHANGED <<names, len, lock, size, rem, hist>>

\* ... unlinks its name ...
EvictUnlink(p) ==
  /\ At(p, "unlink_lru")
  /\ UnlinkEntry(put[p].victim.key, Procs)
  /\ Go(p, "subtract")
  /\ UNCHANGED <<tmp, lock, size, rem, alone, crossed, left>> /\ FreeFiles

\* ... and subtracts the size seen before.
EvictSubtract(p) ==
  /\ At(p, "subtract")
  /\ SubtractSize(put[p].victim.size)
  /\ put' = [put EXCEPT ![p].pc = "evict", ![p].victim = NoVictim]
  /\ UNCHANGED <<names, len, lock, rem, hist>>

\* open(filename_tmp, O_WRONLY | O_CREAT): a file that is there is opened as it is.
ReopenFails(p, k) == tmp[k] # None /\ Go(p, "close") /\ UNCHANGED tmp
Reopen(p, k) ==
  /\ tmp[k] # None
  /\ put' = [put EXCEPT ![p].pc = "flock", ![p].fd = tmp[k]]
  /\ UNCHANGED tmp

Create(p, k) ==
  /\ tmp[k] = None /\ \E i \in Inodes : ~InUse(i)
  /\ LET new == CHOOSE i \in Inodes : ~InUse(i)
     IN /\ put' = [put EXCEPT ![p].pc = "flock", ![p].fd = new]
        /\ tmp' = [tmp EXCEPT ![k] = new]

OpenTmp(p) ==
  /\ At(p, "open")
  /\ Reopen(p, put[p].key) \/ Create(p, put[p].key)
  /\ alone' = IF \A q \in Procs \ {p} : At(q, "idle") THEN {p} ELSE {}
  /\ UNCHANGED <<final, len, lock, size, rem, crossed, skewed, left>>

\* open fails for another reason, as without the rights for it.
OpenFails(p) ==
  /\ At(p, "open")
  /\ Go(p, "close")
  /\ UNCHANGED <<names, len, lock, size, rem, hist>>

\* flock(fd, LOCK_EX | LOCK_NB): whoever comes second lets the first one write.
MayLockShared(p) == TRUE
MayLock(p) == lock[put[p].fd] = None

Flock(p) ==
  /\ At(p, "flock")
  /\ \/ MayLock(p) /\ lock' = [lock EXCEPT ![put[p].fd] = p] /\ Go(p, "open_final")
     \/ ~MayLock(p) /\ Go(p, "close") /\ UNCHANGED lock
  /\ UNCHANGED <<names, len, size, rem, hist>>

\* flock fails for another reason, as on a file system without locks: nobody unlinks
\* the file.
FlockFails(p) ==
  /\ At(p, "flock")
  /\ Go(p, "close") /\ alone' = alone \ {p}
  /\ left' = left \cup LeftBy(p)
  /\ UNCHANGED <<names, len, lock, size, rem, crossed, skewed>>

\* open(filename): is the entry in the cache by now?
FoundNever(p) == FALSE
Found(p) == final[put[p].key] # None

\* The name of the file that p has locked may be gone, or another file's.
LostName(p) == tmp[put[p].key] # put[p].fd

OpenFinal(p) ==
  /\ At(p, "open_final")
  /\ Go(p, IF Found(p) THEN "unlink_tmp" ELSE "write")
  /\ crossed' = (crossed \/ (~Found(p) /\ LostName(p)))
  /\ UNCHANGED <<names, len, lock, size, rem, alone, skewed, left>>

\* The entry is there and open fails for another reason, as without a descriptor: the
\* entry is written, and counted, again.
OpenFinalFails(p) ==
  /\ At(p, "open_final") /\ Found(p)
  /\ Go(p, "write")
  /\ crossed' = (crossed \/ LostName(p)) /\ skewed' = TRUE
  /\ UNCHANGED <<names, len, lock, size, rem, alone, left>>

\* write_all and deflate_and_write_to_disk, from the start of the file and over what
\* an earlier writer may have left.
WritePiece(p) ==
  LET n == put[p].off + 1
      i == put[p].fd
  IN /\ At(p, "write")
     /\ len' = [len EXCEPT ![i] = IF @ < n THEN n ELSE @]
     /\ put' = [put EXCEPT ![p].off = n,
                           ![p].pc = IF n = Pieces THEN "rename" ELSE @]
     /\ UNCHANGED <<names, lock, size, rem, hist>>

\* A write fails.
WriteFailsKeepsTmp(p) ==
  /\ At(p, "write")
  /\ Go(p, "close") /\ alone' = alone \ {p}
  /\ UNCHANGED <<names, len, lock, size, rem, crossed, skewed, left>>
WriteFails(p) ==
  /\ At(p, "write")
  /\ Go(p, "unlink_tmp") /\ alone' = alone \ {p}
  /\ UNCHANGED <<names, len, lock, size, rem, crossed, skewed, left>>

\* unlink(filename_tmp): by name, too.
UnlinkTmp(p) ==
  /\ At(p, "unlink_tmp")
  /\ tmp' = [tmp EXCEPT ![put[p].key] = None] /\ left' = left \ {put[p].key}
  /\ crossed' = (crossed \/ tmp[put[p].key] \notin {put[p].fd, None})
  /\ Go(p, "close")
  /\ UNCHANGED <<final, lock, size, rem, alone, skewed>> /\ FreeFiles

\* rename(filename_tmp, filename): whatever the temporary file is by now.
Rename(p) ==
  LET k == put[p].key
  IN /\ At(p, "rename")
     /\ \/ /\ tmp[k] # None
           /\ final' = [final EXCEPT ![k] = tmp[k]] /\ tmp' = [tmp EXCEPT ![k] = None]
           /\ left' = left \ {k}
           /\ Go(p, "stat")
        \/ tmp[k] = None /\ Go(p, "unlink_tmp") /\ UNCHANGED <<names, left>>
     /\ UNCHANGED <<lock, size, rem, alone, crossed, skewed>> /\ FreeFiles

\* rename fails for another reason.
RenameFails(p) ==
  /\ At(p, "rename")
  /\ Go(p, "unlink_tmp") /\ alone' = alone \ {p}
  /\ UNCHANGED <<names, len, lock, size, rem, crossed, skewed, left>>

\* stat(filename).
Stat(p) ==
  LET k == put[p].key
  IN /\ At(p, "stat")
     /\ \/ /\ final[k] # None
           /\ put' = [put EXCEPT ![p].pc = "add", ![p].victim = StatOf(k)]
        \/ final[k] = None /\ Go(p, "unlink_final")
     /\ UNCHANGED <<names, len, lock, size, rem, hist>>

\* stat fails though the entry is there.
StatFails(p) ==
  /\ At(p, "stat")
  /\ Go(p, "unlink_final") /\ alone' = alone \ {p}
  /\ UNCHANGED <<names, len, lock, size, rem, crossed, skewed, left>>

\* "Something went wrong remove the file".
UnlinkFinal(p) ==
  /\ At(p, "unlink_final")
  /\ UnlinkEntry(put[p].key, Procs \ {p})
  /\ Go(p, "close")
  /\ UNCHANGED <<tmp, lock, size, rem, alone, crossed, left>> /\ FreeFiles

\* p_atomic_add(cache->size, sb.st_blocks * 512).
AddToSize(p) ==
  /\ At(p, "add")
  /\ AddSize(put[p].victim.size)
  /\ Go(p, "close")
  /\ UNCHANGED <<names, len, lock, rem, hist>>

\* The locks after p has closed its file.
Unlocked(p) == [i \in Inodes |-> IF lock[i] = p THEN None ELSE lock[i]]

\* The label done, and the job is gone.
Close(p) ==
  /\ At(p, "close")
  /\ lock' = Unlocked(p)
  /\ put' = [put EXCEPT ![p] = IdlePut]
  /\ alone' = alone \ {p}
  /\ UNCHANGED <<names, size, rem, crossed, skewed, left>> /\ FreeFiles

\* The process dies in the middle of a put, and another one takes its place.
Crash(p) ==
  /\ ~At(p, "idle")
  /\ lock' = Unlocked(p)
  /\ put' = [put EXCEPT ![p] = IdlePut]
  /\ alone' = alone \ {p}
  /\ skewed' = (skewed \/ put[p].pc \in {"subtract", "stat", "unlink_final", "add"})
  /\ left' = left \cup LeftBy(p)
  /\ UNCHANGED <<names, size, rem, crossed>> /\ FreeFiles
-----------------------------------------------------------------------------
(***************************************************************************)
(* disk_cache_remove and disk_cache_get                                     *)
(***************************************************************************)

\* disk_cache_remove: stat ...
RemoveStat(a, k) ==
  /\ rem[a].pc = "idle" /\ final[k] # None
  /\ rem' = [rem EXCEPT ![a] = [pc |-> "unlink", victim |-> StatOf(k)]]
  /\ UNCHANGED <<names, len, lock, size, put, hist>>

\* ... unlink ...
RemoveUnlink(a) ==
  /\ rem[a].pc = "unlink"
  /\ UnlinkEntry(rem[a].victim.key, Procs)
  /\ rem' = [rem EXCEPT ![a].pc = "subtract"]
  /\ alone' = {}
  /\ UNCHANGED <<tmp, lock, size, put, crossed, left>> /\ FreeFiles

\* ... and subtract.
RemoveSubtract(a) ==
  /\ rem[a].pc = "subtract"
  /\ SubtractSize(rem[a].victim.size)
  /\ rem' = [rem EXCEPT ![a] = IdleRem]
  /\ UNCHANGED <<names, len, lock, put, hist>>

\* What disk_cache_get makes of an entry: the sizes in its header, the decompression
\* and the CRC refuse a file that is not complete.
Get(k) ==
  IF final[k] = None THEN "miss"
  ELSE IF len[final[k]] = Pieces THEN "hit" ELSE "corrupt"
-----------------------------------------------------------------------------
PutStep(p) ==
  \/ EvictDone(p) \/ EvictChoose(p) \/ EvictUnlink(p) \/ EvictSubtract(p)
  \/ OpenTmp(p) \/ OpenFails(p) \/ Flock(p) \/ FlockFails(p) \/ OpenFinal(p)
  \/ OpenFinalFails(p) \/ WritePiece(p) \/ WriteFails(p) \/ UnlinkTmp(p) \/ Rename(p)
  \/ RenameFails(p) \/ Stat(p) \/ StatFails(p) \/ UnlinkFinal(p) \/ AddToSize(p)
  \/ Close(p)

RemoveStep(a) == RemoveUnlink(a) \/ RemoveSubtract(a)

Next ==
  \/ \E p \in Procs : PutStep(p) \/ Crash(p) \/ \E k \in Keys : StartPut(p, k)
  \/ \E a \in Apps : RemoveStep(a) \/ \E k \in Keys : RemoveStat(a, k)

Spec == Init /\ [][Next]_vars
-----------------------------------------------------------------------------
(***************************************************************************)
(* Properties                                                               *)
(***************************************************************************)

PutPCs == {"idle", "evict", "unlink_lru", "subtract", "open", "flock", "open_final",
           "write", "rename", "unlink_tmp", "stat", "unlink_final", "add", "close"}
Victims == [key : Keys \cup {None}, size : 0 .. Pieces]
Puts == [pc : PutPCs, key : Keys \cup {None}, tries : 0 .. MaxEvictions,
         fd : Inodes \cup {None}, off : 0 .. Pieces, victim : Victims]
Removals == [pc : {"idle", "unlink", "subtract"}, victim : Victims]

\* Types of the variables.
TypeOK ==
  /\ final \in [Keys -> Inodes \cup {None}] /\ tmp \in [Keys -> Inodes \cup {None}]
  /\ len \in [Inodes -> 0 .. Pieces] /\ lock \in [Inodes -> Procs \cup {None}]
  /\ size \in 0 .. SizeWrap - 1
  /\ put \in [Procs -> Puts] /\ rem \in [Apps -> Removals]
  /\ alone \subseteq Procs
  /\ crossed \in BOOLEAN /\ skewed \in BOOLEAN /\ left \subseteq Keys

\* No reader sees a partially written file, the purpose of the temporary file and of
\* its rename in cache_put: an entry is complete and nobody writes to it any more,
\* however processes race, fail or die, unless a process went on with a lock on a file
\* that is no longer the temporary one (disk_cache.c:946 does not look again).
EntriesComplete ==
  ~crossed => /\ \A k \in Keys : Get(k) # "corrupt"
              /\ \A p \in Procs : At(p, "write") => final[put[p].key] # put[p].fd

Quiet == (\A p \in Procs : At(p, "idle")) /\ (\A a \in Apps : rem[a].pc = "idle")

\* The pieces of the entries: a piece of a file counts 1 in its size.
Stored == {x \in Keys \X (1 .. Pieces) : final[x[1]] # None /\ x[2] <= len[final[x[1]]]}

\* The size in the index, which wraps, is that of the entries when nobody is at work.
\* Losers of a race leave without adding ("to ensure the size accounting of the cache
\* doesn't get off"), a writer whose stat fails takes its entry back, and removals
\* subtract what stat has seen before.  Exceptions: a name that was gone when it was
\* unlinked, a removal between a writer's rename and its stat, an entry written again
\* because it could not be opened, and a process that died between a change of the
\* directory and of the size.
SizeExact ==
  (Quiet /\ ~skewed /\ ~crossed) =>
    size = Cardinality(Stored) % SizeWrap

\* What a process that died has left does no harm: a put that nobody else interferes
\* with and whose calls succeed ends with the complete entry in the cache, whatever
\* temporary file, in whatever length, it finds.
StaleTmpHarmless ==
  ~crossed => \A p \in alone : At(p, "close") => Get(put[p].key) = "hit"

\* Every temporary file is open in a put that is still at work: the one that holds the
\* lock renames or unlinks it on each path of cache_put, whether open, write, rename or
\* stat fails, and the ones that come second may leave it to the first.  A file is left
\* behind only by a put that died, or whose flock failed for another reason than a
\* second holder (disk_cache.c:956 then leaves without unlink); a later put that renames
\* or unlinks the file ends that.
TmpCleaned ==
  \A k \in Keys : tmp[k] # None =>
    k \in left \/ \E p \in Procs : put[p].key = k /\ put[p].fd = tmp[k]
=============================================================================
