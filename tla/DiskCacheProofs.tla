-------------------------- MODULE DiskCacheProofs --------------------------
(***************************************************************************)
(* Proof that no reader of the disk cache sees a partially written entry    *)
(* (DiskCache!EntriesComplete), for any number of processes, threads and    *)
(* keys, any size of a file and any limits.                                 *)
(***************************************************************************)
EXTENDS DiskCache, FiniteSetTheorems, TLAPS

\* The parts of cache_put: before the first write, with an open temporary file, with
\* the lock, and between the decision to write and the rename.
EarlyPCs == {"idle", "evict", "unlink_lru", "subtract", "open", "flock", "open_final"}
LockedPCs == {"open_final", "write", "rename", "unlink_tmp", "stat", "unlink_final", "add"}
OpenPCs == LockedPCs \cup {"flock"}
WritingPCs == {"write", "rename"}

\* What holds of the call of process p: its key and file are there, the lock of the
\* file is its own, the file has what was written so far, and as long as nobody was
\* crossed the name of the temporary file is that of the file it writes.
HasKey(p) == put[p].pc # "idle" => put[p].key \in Keys
HasFile(p) == put[p].pc \in OpenPCs => put[p].fd \in Inodes
HasLock(p) == put[p].pc \in LockedPCs => lock[put[p].fd] = p
StartsAtZero(p) == put[p].pc \in EarlyPCs => put[p].off = 0
Writes(p) == put[p].pc = "write" => put[p].off < Pieces
Written(p) == put[p].pc = "rename" => len[put[p].fd] = Pieces
KeepsName(p) == (~crossed /\ put[p].pc \in WritingPCs) => tmp[put[p].key] = put[p].fd

PutOK(p) ==
  /\ HasKey(p) /\ HasFile(p) /\ HasLock(p)
  /\ StartsAtZero(p) /\ Writes(p) /\ Written(p) /\ KeepsName(p)

\* A temporary file is never the entry.
TmpNotFinal == \A k \in Keys : tmp[k] # None => tmp[k] # final[k]

\* An entry is complete.
FinalComplete == ~crossed => \A k \in Keys : final[k] # None => len[final[k]] = Pieces

Inv == TypeOK /\ (\A p \in Procs : PutOK(p)) /\ TmpNotFinal /\ FinalComplete

-----------------------------------------------------------------------------
\* The constants, as the provers use them.
LEMMA Constants ==
  /\ Pieces \in Nat /\ Pieces > 0 /\ MaxEvictions \in Nat /\ MaxEvictions > 0
  /\ SizeWrap \in Nat /\ SizeWrap > 0
  /\ None \notin Procs /\ None \notin Keys /\ None \notin Inodes
  /\ Inodes \subseteq Nat
  BY SizesAssumption, NamesAssumption DEF Inodes

\* The cache of an empty directory satisfies the invariant.
LEMMA InitInv == Init => Inv
  <1> SUFFICES ASSUME Init PROVE Inv
    OBVIOUS
  <1>1. NoVictim \in Victims
    BY Constants DEF NoVictim, Victims
  <1>2. TypeOK
    <2>1. size \in 0 .. SizeWrap - 1
      BY Constants DEF Init
    <2>2. put \in [Procs -> Puts]
      BY <1>1, Constants DEF Init, IdlePut, Puts, PutPCs
    <2>3. rem \in [Apps -> Removals]
      BY <1>1 DEF Init, IdleRem, Removals
    <2>4. len \in [Inodes -> 0 .. Pieces]
      BY Constants DEF Init
    <2>5. /\ final \in [Keys -> Inodes \cup {None}] /\ tmp \in [Keys -> Inodes \cup {None}]
          /\ lock \in [Inodes -> Procs \cup {None}]
          /\ alone \subseteq Procs
          /\ crossed \in BOOLEAN /\ skewed \in BOOLEAN /\ left \subseteq Keys
      BY DEF Init
    <2> QED BY <2>1, <2>2, <2>3, <2>4, <2>5 DEF TypeOK
  <1>3. ASSUME NEW p \in Procs PROVE PutOK(p)
    <2>1. put[p].pc = "idle" /\ put[p].off = 0
      BY DEF Init, IdlePut
    <2> QED BY <2>1 DEF PutOK, HasKey, HasFile, HasLock, StartsAtZero, Writes, Written,
                        KeepsName, LockedPCs, OpenPCs, WritingPCs
  <1>4. TmpNotFinal /\ FinalComplete
    BY DEF Init, TmpNotFinal, FinalComplete
  <1> QED BY <1>2, <1>3, <1>4 DEF Inv

\* The invariant gives the property.
LEMMA InvComplete == Inv => EntriesComplete
  BY Constants DEF Inv, TypeOK, PutOK, HasKey, HasFile, KeepsName, TmpNotFinal,
     FinalComplete, EntriesComplete, Get, At, OpenPCs, LockedPCs, WritingPCs
-----------------------------------------------------------------------------
\* A file in use keeps its contents when others are freed.
LEMMA UsedFilesKept ==
  ASSUME FreeFiles, NEW i \in Inodes, InUse(i)'
  PROVE  len'[i] = len[i]
  BY DEF FreeFiles

\* The call of a process that does nothing stays as it was, if its file, its lock and,
\* while nobody is crossed, the name of its file are left alone.
LEMMA OtherPut ==
  ASSUME NEW q \in Procs, PutOK(q), put'[q] = put[q],
         put[q].pc \in LockedPCs => lock'[put[q].fd] = lock[put[q].fd],
         put[q].pc = "rename" => len'[put[q].fd] = len[put[q].fd],
         (~crossed' /\ put[q].pc \in WritingPCs) =>
            ~crossed /\ tmp'[put[q].key] = tmp[put[q].key]
  PROVE  PutOK(q)'
  BY DEF PutOK, HasKey, HasFile, HasLock, StartsAtZero, Writes, Written, KeepsName

\* Steps that leave files, names and locks alone: all but the types follows.
LEMMA QuietStep ==
  ASSUME Inv, TypeOK', UNCHANGED <<names, len, lock, crossed>>,
         NEW p \in Procs, PutOK(p)', \A q \in Procs \ {p} : put'[q] = put[q]
  PROVE  Inv'
  <1>1. ASSUME NEW q \in Procs \ {p} PROVE PutOK(q)'
    BY OtherPut DEF Inv, names
  <1>2. TmpNotFinal' /\ FinalComplete'
    BY DEF Inv, TmpNotFinal, FinalComplete, names
  <1> QED BY <1>1, <1>2 DEF Inv

\* Setting a field of a call to a value of its type.
LEMMA PutTyped ==
  ASSUME TypeOK, NEW p \in Procs, NEW r \in Puts, put' = [put EXCEPT ![p] = r]
  PROVE  /\ put' \in [Procs -> Puts] /\ put'[p] = r
         /\ \A q \in Procs \ {p} : put'[q] = put[q]
  BY DEF TypeOK

\* The size stays in its range.
LEMMA SizeTyped ==
  ASSUME TypeOK, NEW n \in 0 .. Pieces, AddSize(n) \/ SubtractSize(n)
  PROVE  size' \in 0 .. SizeWrap - 1
  BY Constants DEF TypeOK, AddSize, SubtractSize

\* What stat finds is typed.
LEMMA StatTyped ==
  ASSUME TypeOK, NEW k \in Keys, final[k] # None
  PROVE  StatOf(k) \in Victims
  BY DEF TypeOK, StatOf, Victims

\* A put that begins opens, locks and writes nothing yet.
LEMMA StartPutInv ==
  ASSUME Inv, NEW p \in Procs, NEW k \in Keys, StartPut(p, k)
  PROVE  Inv'
  <1> DEFINE r == [put[p] EXCEPT !.pc = "evict", !.key = k]
  <1>1. put[p] \in Puts /\ put[p].off = 0
    BY DEF Inv, TypeOK, StartPut, At, PutOK, StartsAtZero, EarlyPCs
  <1>2. r \in Puts /\ r.pc = "evict" /\ r.key = k /\ r.off = 0
    BY <1>1 DEF Puts, PutPCs
  <1>3. put' = [put EXCEPT ![p] = r]
    BY DEF StartPut
  <1>4. put' \in [Procs -> Puts] /\ put'[p] = r /\ \A q \in Procs \ {p} : put'[q] = put[q]
    BY <1>2, <1>3, PutTyped DEF Inv
  <1>5. TypeOK'
    BY <1>4 DEF Inv, TypeOK, StartPut, names
  <1>6. PutOK(p)'
    BY <1>2, <1>4 DEF PutOK, HasKey, HasFile, HasLock, StartsAtZero, Writes, Written,
       KeepsName, EarlyPCs, LockedPCs, OpenPCs, WritingPCs
  <1> QED BY <1>4, <1>5, <1>6, QuietStep DEF StartPut

\* The loop that evicts, and the steps without a change of the directory.
LEMMA EvictDoneInv ==
  ASSUME Inv, NEW p \in Procs, EvictDone(p)
  PROVE  Inv'
  <1> DEFINE r == [put[p] EXCEPT !.pc = "open", !.tries = 0]
  <1>1. put[p] \in Puts /\ put[p].off = 0 /\ put[p].key \in Keys
    BY DEF Inv, TypeOK, EvictDone, At, PutOK, HasKey, StartsAtZero, EarlyPCs
  <1>2. r \in Puts /\ r.pc = "open" /\ r.key \in Keys /\ r.off = 0
    <2>1. 0 \in 0 .. MaxEvictions
      BY Constants
    <2> QED BY <1>1, <2>1 DEF Puts, PutPCs
  <1>3. put' = [put EXCEPT ![p] = r]
    BY DEF EvictDone
  <1>4. put' \in [Procs -> Puts] /\ put'[p] = r /\ \A q \in Procs \ {p} : put'[q] = put[q]
    BY <1>2, <1>3, PutTyped DEF Inv
  <1>5. TypeOK'
    BY <1>4 DEF Inv, TypeOK, EvictDone, names, hist
  <1>6. PutOK(p)'
    BY <1>2, <1>4 DEF PutOK, HasKey, HasFile, HasLock, StartsAtZero, Writes, Written,
       KeepsName, EarlyPCs, LockedPCs, OpenPCs, WritingPCs
  <1> QED BY <1>4, <1>5, <1>6, QuietStep DEF EvictDone, hist

\* Choosing a victim changes the call only, and what stat finds is typed.
LEMMA EvictChooseInv ==
  ASSUME Inv, NEW p \in Procs, EvictChoose(p)
  PROVE  Inv'
  <1>1. put[p] \in Puts /\ put[p].off = 0 /\ put[p].key \in Keys
    BY DEF Inv, TypeOK, EvictChoose, At, PutOK, HasKey, StartsAtZero, EarlyPCs
  <1>2. put[p].tries + 1 \in 0 .. MaxEvictions
    <2>1. put[p].tries \in 0 .. MaxEvictions
      BY <1>1 DEF Puts
    <2>2. put[p].tries < MaxEvictions
      BY DEF EvictChoose, StillTooLarge
    <2> QED BY <2>1, <2>2, Constants
  <1>3. PICK r \in Puts : /\ put' = [put EXCEPT ![p] = r]
                          /\ r.pc \in {"evict", "unlink_lru"} /\ r.key \in Keys /\ r.off = 0
    <2>1. CASE \E k \in Keys :
                 /\ final[k] # None
                 /\ put' = [put EXCEPT ![p].pc = "unlink_lru", ![p].victim = StatOf(k),
                                       ![p].tries = @ + 1]
      <3>1. PICK k \in Keys :
                 /\ final[k] # None
                 /\ put' = [put EXCEPT ![p].pc = "unlink_lru", ![p].victim = StatOf(k),
                                       ![p].tries = @ + 1]
        BY <2>1
      <3> DEFINE r == [put[p] EXCEPT !.pc = "unlink_lru", !.victim = StatOf(k), !.tries = @ + 1]
      <3>2. StatOf(k) \in Victims
        BY <3>1, StatTyped DEF Inv
      <3>3. r \in Puts /\ r.pc = "unlink_lru" /\ r.key \in Keys /\ r.off = 0
        BY <1>1, <1>2, <3>2 DEF Puts, PutPCs
      <3>4. put' = [put EXCEPT ![p] = r]
        BY <3>1
      <3> QED BY <3>3, <3>4
    <2>2. CASE put' = [put EXCEPT ![p].tries = @ + 1]
      <3> DEFINE r == [put[p] EXCEPT !.tries = @ + 1]
      <3>1. r \in Puts /\ r.pc = "evict" /\ r.key \in Keys /\ r.off = 0
        BY <1>1, <1>2 DEF Puts, PutPCs, EvictChoose, At
      <3>2. put' = [put EXCEPT ![p] = r]
        BY <2>2
      <3> QED BY <3>1, <3>2
    <2> QED BY <2>1, <2>2 DEF EvictChoose
  <1>4. put' \in [Procs -> Puts] /\ put'[p] = r /\ \A q \in Procs \ {p} : put'[q] = put[q]
    BY <1>3, PutTyped DEF Inv
  <1>5. TypeOK'
    BY <1>4 DEF Inv, TypeOK, EvictChoose, names, hist
  <1>6. PutOK(p)'
    BY <1>3, <1>4 DEF PutOK, HasKey, HasFile, HasLock, StartsAtZero, Writes, Written,
       KeepsName, EarlyPCs, LockedPCs, OpenPCs, WritingPCs
  <1> QED BY <1>4, <1>5, <1>6, QuietStep DEF EvictChoose, hist

\* Subtracting changes the size only.
LEMMA EvictSubtractInv ==
  ASSUME Inv, NEW p \in Procs, EvictSubtract(p)
  PROVE  Inv'
  <1> DEFINE r == [put[p] EXCEPT !.pc = "evict", !.victim = NoVictim]
  <1>1. put[p] \in Puts /\ put[p].off = 0 /\ put[p].key \in Keys
    BY DEF Inv, TypeOK, EvictSubtract, At, PutOK, HasKey, StartsAtZero, EarlyPCs
  <1>2. r \in Puts /\ r.pc = "evict" /\ r.key \in Keys /\ r.off = 0
    BY <1>1, Constants DEF Puts, PutPCs, NoVictim, Victims
  <1>3. put' = [put EXCEPT ![p] = r]
    BY DEF EvictSubtract
  <1>4. put' \in [Procs -> Puts] /\ put'[p] = r /\ \A q \in Procs \ {p} : put'[q] = put[q]
    BY <1>2, <1>3, PutTyped DEF Inv
  <1>5. size' \in 0 .. SizeWrap - 1
    BY <1>1, SizeTyped DEF EvictSubtract, Inv, Puts, Victims
  <1>6. TypeOK'
    BY <1>4, <1>5 DEF Inv, TypeOK, EvictSubtract, names, hist
  <1>7. PutOK(p)'
    BY <1>2, <1>4 DEF PutOK, HasKey, HasFile, HasLock, StartsAtZero, Writes, Written,
       KeepsName, EarlyPCs, LockedPCs, OpenPCs, WritingPCs
  <1> QED BY <1>4, <1>6, <1>7, QuietStep DEF EvictSubtract, hist

\* A put whose open fails holds nothing and leaves.
LEMMA OpenFailsInv ==
  ASSUME Inv, NEW p \in Procs, OpenFails(p)
  PROVE  Inv'
  <1> DEFINE r == [put[p] EXCEPT !.pc = "close"]
  <1>1. put[p] \in Puts /\ put[p].key \in Keys
    BY DEF Inv, TypeOK, OpenFails, At, PutOK, HasKey
  <1>2. r \in Puts /\ r.pc = "close" /\ r.key \in Keys
    BY <1>1 DEF Puts, PutPCs
  <1>3. put' = [put EXCEPT ![p] = r]
    BY DEF OpenFails, Go
  <1>4. put' \in [Procs -> Puts] /\ put'[p] = r /\ \A q \in Procs \ {p} : put'[q] = put[q]
    BY <1>2, <1>3, PutTyped DEF Inv
  <1>5. TypeOK'
    BY <1>4 DEF Inv, TypeOK, OpenFails, names, hist
  <1>6. PutOK(p)'
    BY <1>2, <1>4 DEF PutOK, HasKey, HasFile, HasLock, StartsAtZero, Writes, Written,
       KeepsName, EarlyPCs, LockedPCs, OpenPCs, WritingPCs
  <1> QED BY <1>4, <1>5, <1>6, QuietStep DEF OpenFails, hist

\* The stat after the rename changes the call only.
LEMMA StatInv ==
  ASSUME Inv, NEW p \in Procs, Stat(p) \/ StatFails(p)
  PROVE  Inv'
  <1>1. /\ put[p] \in Puts /\ put[p].key \in Keys
        /\ put[p].fd \in Inodes /\ lock[put[p].fd] = p
    BY DEF Inv, TypeOK, Stat, StatFails, At, PutOK, HasKey, HasFile, HasLock, OpenPCs,
           LockedPCs
  <1>2. PICK r \in Puts : /\ put' = [put EXCEPT ![p] = r]
                          /\ r.pc \in {"add", "unlink_final"}
                          /\ r.key = put[p].key /\ r.fd = put[p].fd
    <2> DEFINE k == put[p].key
               r1 == [put[p] EXCEPT !.pc = "add", !.victim = StatOf(k)]
               r2 == [put[p] EXCEPT !.pc = "unlink_final"]
    <2>1. CASE final[k] # None /\ put' = [put EXCEPT ![p].pc = "add", ![p].victim = StatOf(k)]
      <3>1. StatOf(k) \in Victims
        BY <1>1, <2>1, StatTyped DEF Inv
      <3>2. r1 \in Puts /\ r1.pc = "add" /\ r1.key = k /\ r1.fd = put[p].fd
        BY <1>1, <3>1 DEF Puts, PutPCs
      <3> QED BY <2>1, <3>2
    <2>2. CASE Go(p, "unlink_final")
      <3>1. r2 \in Puts /\ r2.pc = "unlink_final" /\ r2.key = k /\ r2.fd = put[p].fd
        BY <1>1 DEF Puts, PutPCs
      <3>2. put' = [put EXCEPT ![p] = r2]
        BY <2>2 DEF Go
      <3> QED BY <3>1, <3>2
    <2> QED BY <2>1, <2>2 DEF Stat, StatFails
  <1>3. put' \in [Procs -> Puts] /\ put'[p] = r /\ \A q \in Procs \ {p} : put'[q] = put[q]
    BY <1>2, PutTyped DEF Inv
  <1>4. TypeOK'
    BY <1>3 DEF Inv, TypeOK, Stat, StatFails, names, hist
  <1>5. PutOK(p)'
    BY <1>1, <1>2, <1>3 DEF PutOK, HasKey, HasFile, HasLock, StartsAtZero, Writes, Written,
       KeepsName, EarlyPCs, LockedPCs, OpenPCs, WritingPCs, Stat, StatFails
  <1> QED BY <1>3, <1>4, <1>5, QuietStep DEF Stat, StatFails, hist

\* Adding changes the size only.
LEMMA AddToSizeInv ==
  ASSUME Inv, NEW p \in Procs, AddToSize(p)
  PROVE  Inv'
  <1> DEFINE r == [put[p] EXCEPT !.pc = "close"]
  <1>1. put[p] \in Puts /\ put[p].key \in Keys
    BY DEF Inv, TypeOK, AddToSize, At, PutOK, HasKey
  <1>2. r \in Puts /\ r.pc = "close" /\ r.key \in Keys
    BY <1>1 DEF Puts, PutPCs
  <1>3. put' = [put EXCEPT ![p] = r]
    BY DEF AddToSize, Go
  <1>4. put' \in [Procs -> Puts] /\ put'[p] = r /\ \A q \in Procs \ {p} : put'[q] = put[q]
    BY <1>2, <1>3, PutTyped DEF Inv
  <1>5. size' \in 0 .. SizeWrap - 1
    BY <1>1, SizeTyped DEF AddToSize, Inv, Puts, Victims
  <1>6. TypeOK'
    BY <1>4, <1>5 DEF Inv, TypeOK, AddToSize, names, hist
  <1>7. PutOK(p)'
    BY <1>2, <1>4 DEF PutOK, HasKey, HasFile, HasLock, StartsAtZero, Writes, Written,
       KeepsName, EarlyPCs, LockedPCs, OpenPCs, WritingPCs
  <1> QED BY <1>4, <1>6, <1>7, QuietStep DEF AddToSize, hist
-----------------------------------------------------------------------------
\* An entry that is unlinked, whoever does it: what is left stays complete, and the
\* files that are open stay as they are.
LEMMA UnlinkEntryInv ==
  ASSUME Inv, TypeOK', NEW k \in Keys \cup {None}, NEW others, UnlinkEntry(k, others),
         FreeFiles,
         UNCHANGED <<tmp, lock, crossed>>,
         \A q \in Procs : put'[q] = put[q] \/ PutOK(q)'
  PROVE  Inv'
  <1>1. final' = [final EXCEPT ![k] = None]
    BY DEF UnlinkEntry
  <1>2. \A l \in Keys : final'[l] \in {final[l], None}
    BY <1>1 DEF Inv, TypeOK
  <1>3. ASSUME NEW q \in Procs, put'[q] = put[q] PROVE PutOK(q)'
    <2>1. ASSUME put[q].pc = "rename" PROVE len'[put[q].fd] = len[put[q].fd]
      <3>1. PICK i \in Inodes : i = put[q].fd
        BY <2>1 DEF Inv, PutOK, HasFile, OpenPCs, LockedPCs
      <3>2. InUse(i)'
        BY <1>3, <3>1 DEF InUse
      <3> QED BY <3>1, <3>2, UsedFilesKept
    <2> QED BY <1>3, <2>1, OtherPut DEF Inv
  <1>4. TmpNotFinal'
    BY <1>2 DEF Inv, TmpNotFinal
  <1>5. FinalComplete'
    <2> SUFFICES ASSUME ~crossed', NEW l \in Keys, final'[l] # None
                 PROVE  len'[final'[l]] = Pieces
      BY DEF FinalComplete
    <2>1. PICK i \in Inodes : i = final[l] /\ final'[l] = i
      BY <1>2 DEF Inv, TypeOK
    <2>2. InUse(i)'
      BY <2>1 DEF InUse
    <2> QED BY <2>1, <2>2, UsedFilesKept DEF Inv, FinalComplete
  <1> QED BY <1>3, <1>4, <1>5 DEF Inv

\* The types after it.
LEMMA UnlinkEntryTyped ==
  ASSUME TypeOK, NEW k \in Keys \cup {None}, NEW others, UnlinkEntry(k, others), FreeFiles
  PROVE  /\ final' \in [Keys -> Inodes \cup {None}]
         /\ skewed' \in BOOLEAN
         /\ len' \in [Inodes -> 0 .. Pieces]
  <1>1. final' \in [Keys -> Inodes \cup {None}]
    BY DEF TypeOK, UnlinkEntry
  <1>2. skewed' \in BOOLEAN
    BY DEF UnlinkEntry
  <1>3. len' \in [Inodes -> 0 .. Pieces]
    BY Constants DEF TypeOK, FreeFiles
  <1> QED BY <1>1, <1>2, <1>3

\* evict_lru_item unlinks the entry it has chosen.
LEMMA EvictUnlinkInv ==
  ASSUME Inv, NEW p \in Procs, EvictUnlink(p)
  PROVE  Inv'
  <1> DEFINE r == [put[p] EXCEPT !.pc = "subtract"]
  <1>1. put[p] \in Puts /\ put[p].off = 0 /\ put[p].key \in Keys
    BY DEF Inv, TypeOK, EvictUnlink, At, PutOK, HasKey, StartsAtZero, EarlyPCs
  <1>2. r \in Puts /\ r.pc = "subtract" /\ r.key \in Keys /\ r.off = 0
    BY <1>1 DEF Puts, PutPCs
  <1>3. put' = [put EXCEPT ![p] = r]
    BY DEF EvictUnlink, Go
  <1>4. put' \in [Procs -> Puts] /\ put'[p] = r /\ \A q \in Procs \ {p} : put'[q] = put[q]
    BY <1>2, <1>3, PutTyped DEF Inv
  <1>5. put[p].victim.key \in Keys \cup {None}
    BY <1>1 DEF Puts, Victims
  <1>6. UnlinkEntry(put[p].victim.key, Procs) /\ FreeFiles
    BY DEF EvictUnlink
  <1>7. TypeOK'
    BY <1>4, <1>5, <1>6, UnlinkEntryTyped DEF Inv, TypeOK, EvictUnlink
  <1>8. PutOK(p)'
    BY <1>2, <1>4 DEF PutOK, HasKey, HasFile, HasLock, StartsAtZero, Writes, Written,
       KeepsName, EarlyPCs, LockedPCs, OpenPCs, WritingPCs
  <1> QED BY <1>4, <1>5, <1>6, <1>7, <1>8, UnlinkEntryInv DEF EvictUnlink

\* cache_put unlinks the entry it could not stat.
LEMMA UnlinkFinalInv ==
  ASSUME Inv, NEW p \in Procs, UnlinkFinal(p)
  PROVE  Inv'
  <1> DEFINE r == [put[p] EXCEPT !.pc = "close"]
  <1>1. put[p] \in Puts /\ put[p].key \in Keys
    BY DEF Inv, TypeOK, UnlinkFinal, At, PutOK, HasKey
  <1>2. r \in Puts /\ r.pc = "close" /\ r.key \in Keys
    BY <1>1 DEF Puts, PutPCs
  <1>3. put' = [put EXCEPT ![p] = r]
    BY DEF UnlinkFinal, Go
  <1>4. put' \in [Procs -> Puts] /\ put'[p] = r /\ \A q \in Procs \ {p} : put'[q] = put[q]
    BY <1>2, <1>3, PutTyped DEF Inv
  <1>5. UnlinkEntry(put[p].key, Procs \ {p}) /\ FreeFiles
    BY DEF UnlinkFinal
  <1>6. TypeOK'
    BY <1>1, <1>4, <1>5, UnlinkEntryTyped DEF Inv, TypeOK, UnlinkFinal
  <1>7. PutOK(p)'
    BY <1>2, <1>4 DEF PutOK, HasKey, HasFile, HasLock, StartsAtZero, Writes, Written,
       KeepsName, EarlyPCs, LockedPCs, OpenPCs, WritingPCs
  <1> QED BY <1>1, <1>4, <1>5, <1>6, <1>7, UnlinkEntryInv DEF UnlinkFinal

\* disk_cache_remove.
LEMMA RemoveStatInv ==
  ASSUME Inv, NEW a \in Apps, NEW k \in Keys, RemoveStat(a, k)
  PROVE  Inv'
  <1>1. StatOf(k) \in Victims
    BY StatTyped DEF RemoveStat, Inv
  <1>2. rem' \in [Apps -> Removals]
    BY <1>1 DEF Inv, TypeOK, RemoveStat, Removals
  <1>3. TypeOK'
    BY <1>2 DEF Inv, TypeOK, RemoveStat, names, hist
  <1>4. ASSUME NEW q \in Procs PROVE PutOK(q)'
    BY OtherPut DEF Inv, RemoveStat, names, hist
  <1>5. TmpNotFinal' /\ FinalComplete'
    BY DEF Inv, TmpNotFinal, FinalComplete, RemoveStat, names, hist
  <1> QED BY <1>3, <1>4, <1>5 DEF Inv

\* disk_cache_remove unlinks the entry.
LEMMA RemoveUnlinkInv ==
  ASSUME Inv, NEW a \in Apps, RemoveUnlink(a)
  PROVE  Inv'
  <1>1. rem[a] \in Removals /\ rem[a].victim.key \in Keys \cup {None}
    BY DEF Inv, TypeOK, Removals, Victims
  <1>2. rem' \in [Apps -> Removals]
    BY <1>1 DEF Inv, TypeOK, RemoveUnlink, Removals
  <1>3. UnlinkEntry(rem[a].victim.key, Procs) /\ FreeFiles
    BY DEF RemoveUnlink
  <1>4. TypeOK'
    BY <1>1, <1>2, <1>3, UnlinkEntryTyped DEF Inv, TypeOK, RemoveUnlink
  <1> QED BY <1>1, <1>3, <1>4, UnlinkEntryInv DEF RemoveUnlink

\* ... and subtracts its size.
LEMMA RemoveSubtractInv ==
  ASSUME Inv, NEW a \in Apps, RemoveSubtract(a)
  PROVE  Inv'
  <1>1. rem[a].victim.size \in 0 .. Pieces
    BY DEF Inv, TypeOK, Removals, Victims
  <1>2. size' \in 0 .. SizeWrap - 1
    BY <1>1, SizeTyped DEF RemoveSubtract, Inv
  <1>3. rem' \in [Apps -> Removals]
    <2>1. IdleRem \in Removals
      BY Constants DEF IdleRem, NoVictim, Removals, Victims
    <2> QED BY <2>1 DEF Inv, TypeOK, RemoveSubtract
  <1>4. TypeOK'
    BY <1>2, <1>3 DEF Inv, TypeOK, RemoveSubtract, names, hist
  <1>5. ASSUME NEW q \in Procs PROVE PutOK(q)'
    BY OtherPut DEF Inv, RemoveSubtract, names, hist
  <1>6. TmpNotFinal' /\ FinalComplete'
    BY DEF Inv, TmpNotFinal, FinalComplete, RemoveSubtract, names, hist
  <1> QED BY <1>4, <1>5, <1>6 DEF Inv
-----------------------------------------------------------------------------
\* The file of a call in progress keeps its contents when others are freed.
LEMMA OpenFileKept ==
  ASSUME Inv, FreeFiles, NEW q \in Procs, put'[q].fd = put[q].fd, put[q].pc \in OpenPCs
  PROVE  len'[put[q].fd] = len[put[q].fd]
  <1>1. PICK i \in Inodes : i = put[q].fd
    BY DEF Inv, PutOK, HasFile
  <1>2. InUse(i)'
    BY <1>1 DEF InUse
  <1> QED BY <1>1, <1>2, UsedFilesKept

\* So does an entry.
LEMMA EntryKept ==
  ASSUME TypeOK, FreeFiles, NEW l \in Keys, final[l] # None, final'[l] = final[l]
  PROVE  len'[final[l]] = len[final[l]]
  <1>1. PICK i \in Inodes : i = final[l] /\ final'[l] = i
    BY DEF TypeOK
  <1>2. InUse(i)'
    BY <1>1 DEF InUse
  <1> QED BY <1>1, <1>2, UsedFilesKept

\* Freed files have the length 0.
LEMMA FilesTyped == ASSUME TypeOK, FreeFiles PROVE len' \in [Inodes -> 0 .. Pieces]
  BY Constants DEF TypeOK, FreeFiles

\* Two processes with a lock have it on different files.
LEMMA LocksDiffer ==
  ASSUME Inv, NEW p \in Procs, NEW q \in Procs, p # q,
         put[p].pc \in LockedPCs, put[q].pc \in LockedPCs
  PROVE  put[p].fd # put[q].fd
  BY DEF Inv, PutOK, HasLock

\* Opening <key>.tmp: a new file has a number that no name and no process uses, so it
\* is no entry.
LEMMA OpenTmpInv ==
  ASSUME Inv, NEW p \in Procs, OpenTmp(p)
  PROVE  Inv'
  <1> DEFINE k == put[p].key
  <1>1. put[p] \in Puts /\ put[p].off = 0 /\ k \in Keys
    BY DEF Inv, TypeOK, OpenTmp, At, PutOK, HasKey, StartsAtZero, EarlyPCs
  <1>2. PICK i \in Inodes :
          /\ put' = [put EXCEPT ![p].pc = "flock", ![p].fd = i]
          /\ \/ tmp' = tmp
             \/ tmp[k] = None /\ ~InUse(i) /\ tmp' = [tmp EXCEPT ![k] = i]
    <2>1. CASE Reopen(p, k)
      BY <1>1, <2>1 DEF Reopen, Inv, TypeOK
    <2>2. CASE Create(p, k)
      BY <2>2 DEF Create
    <2> QED BY <2>1, <2>2 DEF OpenTmp
  <1> DEFINE r == [put[p] EXCEPT !.pc = "flock", !.fd = i]
  <1>3. r \in Puts /\ r.pc = "flock" /\ r.key \in Keys /\ r.off = 0 /\ r.fd \in Inodes
    BY <1>1 DEF Puts, PutPCs
  <1>4. put' = [put EXCEPT ![p] = r]
    BY <1>2
  <1>5. put' \in [Procs -> Puts] /\ put'[p] = r /\ \A q \in Procs \ {p} : put'[q] = put[q]
    BY <1>3, <1>4, PutTyped DEF Inv
  <1>6. TypeOK'
    BY <1>2, <1>5 DEF Inv, TypeOK, OpenTmp
  <1>7. PutOK(p)'
    BY <1>3, <1>5 DEF PutOK, HasKey, HasFile, HasLock, StartsAtZero, Writes, Written,
       KeepsName, EarlyPCs, LockedPCs, OpenPCs, WritingPCs
  <1>8. ASSUME NEW q \in Procs \ {p} PROVE PutOK(q)'
    <2>1. (~crossed /\ put[q].pc \in WritingPCs) => tmp'[put[q].key] = tmp[put[q].key]
      <3> SUFFICES ASSUME ~crossed, put[q].pc \in WritingPCs
                   PROVE  tmp'[put[q].key] = tmp[put[q].key]
        OBVIOUS
      <3>1. tmp[put[q].key] = put[q].fd /\ put[q].fd \in Inodes /\ put[q].key \in Keys
        BY DEF Inv, PutOK, KeepsName, HasFile, HasKey, WritingPCs, OpenPCs, LockedPCs
      <3>2. tmp[put[q].key] # None
        BY <3>1, Constants
      <3> QED BY <1>2, <3>1, <3>2 DEF Inv, TypeOK
    <2> QED BY <1>5, <2>1, OtherPut DEF Inv, OpenTmp
  <1>9. TmpNotFinal'
    BY <1>1, <1>2 DEF Inv, TypeOK, TmpNotFinal, OpenTmp, InUse
  <1>10. FinalComplete'
    BY DEF Inv, FinalComplete, OpenTmp
  <1> QED BY <1>6, <1>7, <1>8, <1>9, <1>10 DEF Inv

\* Taking the lock of a file nobody else has locked.
LEMMA FlockInv ==
  ASSUME Inv, NEW p \in Procs, Flock(p)
  PROVE  Inv'
  <1>1. /\ put[p] \in Puts /\ put[p].key \in Keys /\ put[p].off = 0 /\ put[p].fd \in Inodes
    BY DEF Inv, TypeOK, Flock, At, PutOK, HasKey, HasFile, StartsAtZero, EarlyPCs, OpenPCs
  <1>2. CASE MayLock(p) /\ lock' = [lock EXCEPT ![put[p].fd] = p] /\ Go(p, "open_final")
    <2> DEFINE r == [put[p] EXCEPT !.pc = "open_final"]
    <2>1. /\ r \in Puts /\ r.pc = "open_final" /\ r.key \in Keys /\ r.off = 0
          /\ r.fd = put[p].fd
      BY <1>1 DEF Puts, PutPCs
    <2>2. put' = [put EXCEPT ![p] = r]
      BY <1>2 DEF Go
    <2>3. put' \in [Procs -> Puts] /\ put'[p] = r /\ \A q \in Procs \ {p} : put'[q] = put[q]
      BY <2>1, <2>2, PutTyped DEF Inv
    <2>4. lock' \in [Inodes -> Procs \cup {None}] /\ lock'[put[p].fd] = p
      BY <1>1, <1>2 DEF Inv, TypeOK
    <2>5. TypeOK'
      BY <2>3, <2>4 DEF Inv, TypeOK, Flock, names, hist
    <2>6. PutOK(p)'
      BY <1>1, <2>1, <2>3, <2>4 DEF PutOK, HasKey, HasFile, HasLock, StartsAtZero, Writes,
         Written, KeepsName, EarlyPCs, LockedPCs, OpenPCs, WritingPCs
    <2>7. ASSUME NEW q \in Procs \ {p} PROVE PutOK(q)'
      <3>1. put[q].pc \in LockedPCs => lock'[put[q].fd] = lock[put[q].fd]
        BY <1>1, <1>2, Constants
           DEF MayLock, Inv, TypeOK, PutOK, HasLock, HasFile, OpenPCs
      <3> QED BY <2>3, <3>1, OtherPut DEF Inv, Flock, names, hist
    <2>8. TmpNotFinal' /\ FinalComplete'
      BY DEF Inv, TmpNotFinal, FinalComplete, Flock, names, hist
    <2> QED BY <2>5, <2>6, <2>7, <2>8 DEF Inv
  <1>3. CASE Go(p, "close") /\ UNCHANGED lock
    <2> DEFINE r == [put[p] EXCEPT !.pc = "close"]
    <2>1. r \in Puts /\ r.pc = "close" /\ r.key \in Keys
      BY <1>1 DEF Puts, PutPCs
    <2>2. put' = [put EXCEPT ![p] = r]
      BY <1>3 DEF Go
    <2>3. put' \in [Procs -> Puts] /\ put'[p] = r /\ \A q \in Procs \ {p} : put'[q] = put[q]
      BY <2>1, <2>2, PutTyped DEF Inv
    <2>4. TypeOK'
      BY <1>3, <2>3 DEF Inv, TypeOK, Flock, names, hist
    <2>5. PutOK(p)'
      BY <2>1, <2>3 DEF PutOK, HasKey, HasFile, HasLock, StartsAtZero, Writes, Written,
         KeepsName, EarlyPCs, LockedPCs, OpenPCs, WritingPCs
    <2> QED BY <1>3, <2>3, <2>4, <2>5, QuietStep DEF Flock, hist
  <1> QED BY <1>2, <1>3 DEF Flock

\* flock fails: the put leaves.
LEMMA FlockFailsInv ==
  ASSUME Inv, NEW p \in Procs, FlockFails(p)
  PROVE  Inv'
  <1> DEFINE r == [put[p] EXCEPT !.pc = "close"]
  <1>1. put[p] \in Puts /\ put[p].key \in Keys
    BY DEF Inv, TypeOK, FlockFails, At, PutOK, HasKey
  <1>2. r \in Puts /\ r.pc = "close" /\ r.key \in Keys
    BY <1>1 DEF Puts, PutPCs
  <1>3. put' = [put EXCEPT ![p] = r]
    BY DEF FlockFails, Go
  <1>4. put' \in [Procs -> Puts] /\ put'[p] = r /\ \A q \in Procs \ {p} : put'[q] = put[q]
    BY <1>2, <1>3, PutTyped DEF Inv
  <1>5. TypeOK'
    BY <1>4 DEF Inv, TypeOK, FlockFails, LeftBy, names
  <1>6. PutOK(p)'
    BY <1>2, <1>4 DEF PutOK, HasKey, HasFile, HasLock, StartsAtZero, Writes, Written,
       KeepsName, EarlyPCs, LockedPCs, OpenPCs, WritingPCs
  <1> QED BY <1>4, <1>5, <1>6, QuietStep DEF FlockFails

\* The entry is not there or not seen: the process starts to write, to <key>.tmp unless
\* crossed.
LEMMA OpenFinalInv ==
  ASSUME Inv, NEW p \in Procs, OpenFinal(p) \/ OpenFinalFails(p)
  PROVE  Inv'
  <1>1. /\ put[p] \in Puts /\ put[p].key \in Keys /\ put[p].off = 0
        /\ put[p].fd \in Inodes /\ lock[put[p].fd] = p
    BY DEF Inv, TypeOK, OpenFinal, OpenFinalFails, At, PutOK, HasKey, HasFile, HasLock,
           StartsAtZero, EarlyPCs, OpenPCs, LockedPCs
  <1>2. PICK to \in {"unlink_tmp", "write"} :
          Go(p, to) /\ (~crossed' /\ to = "write" => tmp[put[p].key] = put[p].fd)
    <2>1. CASE OpenFinal(p) /\ Found(p)
      BY <2>1 DEF OpenFinal
    <2>2. CASE OpenFinal(p) /\ ~Found(p)
      <3>1. ~crossed' => ~LostName(p)
        BY <2>2, Zenon DEF OpenFinal
      <3> QED BY <2>2, <3>1 DEF OpenFinal, LostName
    <2>3. CASE OpenFinalFails(p)
      <3>1. ~crossed' => ~LostName(p)
        BY <2>3, Zenon DEF OpenFinalFails
      <3> QED BY <2>3, <3>1 DEF OpenFinalFails, LostName
    <2> QED BY <2>1, <2>2, <2>3
  <1> DEFINE r == [put[p] EXCEPT !.pc = to]
  <1>3. /\ r \in Puts /\ r.pc = to /\ r.key = put[p].key /\ r.off = 0 /\ r.fd = put[p].fd
    BY <1>1 DEF Puts, PutPCs
  <1>4. put' = [put EXCEPT ![p] = r]
    BY <1>2 DEF Go
  <1>5. put' \in [Procs -> Puts] /\ put'[p] = r /\ \A q \in Procs \ {p} : put'[q] = put[q]
    BY <1>3, <1>4, PutTyped DEF Inv
  <1>6. /\ crossed' \in BOOLEAN /\ (~crossed' => ~crossed) /\ skewed' \in BOOLEAN
        /\ UNCHANGED <<final, tmp, len, lock, size, rem, alone, left>>
    BY DEF OpenFinal, OpenFinalFails, names, Inv, TypeOK
  <1>7. TypeOK'
    BY <1>5, <1>6 DEF Inv, TypeOK
  <1>8. PutOK(p)'
    BY <1>1, <1>2, <1>3, <1>5, <1>6, Constants
       DEF PutOK, HasKey, HasFile, HasLock, StartsAtZero, Writes, Written, KeepsName,
           EarlyPCs, LockedPCs, OpenPCs, WritingPCs
  <1>9. ASSUME NEW q \in Procs \ {p} PROVE PutOK(q)'
    BY <1>5, <1>6, OtherPut DEF Inv
  <1>10. TmpNotFinal' /\ FinalComplete'
    BY <1>6 DEF Inv, TmpNotFinal, FinalComplete
  <1> QED BY <1>7, <1>8, <1>9, <1>10 DEF Inv

\* A write goes to the locked file, which is no entry; it is complete with the last
\* piece.
LEMMA WritePieceInv ==
  ASSUME Inv, NEW p \in Procs, WritePiece(p)
  PROVE  Inv'
  <1> DEFINE n == put[p].off + 1
             i == put[p].fd
             to == IF n = Pieces THEN "rename" ELSE "write"
             r == [put[p] EXCEPT !.off = n, !.pc = to]
  <1>1. /\ put[p] \in Puts /\ put[p].key \in Keys /\ i \in Inodes /\ lock[i] = p
        /\ put[p].pc = "write" /\ put[p].off \in 0 .. Pieces /\ put[p].off < Pieces
        /\ ~crossed => tmp[put[p].key] = i
    BY DEF Inv, TypeOK, WritePiece, At, PutOK, HasKey, HasFile, HasLock, Writes, KeepsName,
           OpenPCs, LockedPCs, WritingPCs, Puts
  <1>2. n \in 0 .. Pieces
    BY <1>1, Constants
  <1>3. /\ r \in Puts /\ r.pc = to /\ r.key = put[p].key /\ r.off = n /\ r.fd = i
    BY <1>1, <1>2 DEF Puts, PutPCs
  <1>4. put' = [put EXCEPT ![p] = r]
    BY <1>1 DEF WritePiece
  <1>5. put' \in [Procs -> Puts] /\ put'[p] = r /\ \A q \in Procs \ {p} : put'[q] = put[q]
    BY <1>3, <1>4, PutTyped DEF Inv
  <1>6. /\ len' \in [Inodes -> 0 .. Pieces]
        /\ \A j \in Inodes : len[j] = Pieces => len'[j] = Pieces
        /\ n = Pieces => len'[i] = Pieces
    <2> DEFINE m == IF len[i] < n THEN n ELSE len[i]
    <2>1. len' = [len EXCEPT ![i] = m]
      BY DEF WritePiece
    <2>2. len \in [Inodes -> 0 .. Pieces]
      BY DEF Inv, TypeOK
    <2>3. len[i] \in 0 .. Pieces
      BY <1>1, <2>2
    <2>4. m \in 0 .. Pieces
      BY <1>2, <2>3
    <2>5. (n = Pieces \/ len[i] = Pieces) => m = Pieces
      BY <1>2, <2>3, Constants
    <2> HIDE DEF m, n
    <2> QED BY <1>1, <2>1, <2>2, <2>4, <2>5
  <1>7. TypeOK'
    BY <1>5, <1>6 DEF Inv, TypeOK, WritePiece, names, hist
  <1>8. PutOK(p)'
    <2>1. n # Pieces => n < Pieces
      BY <1>2, Constants
    <2> QED BY <1>1, <1>3, <1>5, <1>6, <2>1
            DEF PutOK, HasKey, HasFile, HasLock, StartsAtZero, Writes, Written, KeepsName,
                EarlyPCs, LockedPCs, OpenPCs, WritingPCs, WritePiece, names, hist
  <1>9. ASSUME NEW q \in Procs \ {p} PROVE PutOK(q)'
    <2>1. put[q].pc = "rename" => len'[put[q].fd] = len[put[q].fd]
      BY <1>6 DEF Inv, PutOK, Written, HasFile, OpenPCs, LockedPCs
    <2> QED BY <1>5, <2>1, OtherPut DEF Inv, WritePiece, names, hist
  <1>10. TmpNotFinal'
    BY DEF Inv, TmpNotFinal, WritePiece, names
  <1>11. FinalComplete'
    BY <1>6 DEF Inv, TypeOK, FinalComplete, WritePiece, names, hist
  <1> QED BY <1>7, <1>8, <1>9, <1>10, <1>11 DEF Inv

\* A failed write or rename leaves the file to be unlinked.
LEMMA WriteFailsInv ==
  ASSUME Inv, NEW p \in Procs, WriteFails(p) \/ RenameFails(p)
  PROVE  Inv'
  <1> DEFINE r == [put[p] EXCEPT !.pc = "unlink_tmp"]
  <1>1. /\ put[p] \in Puts /\ put[p].key \in Keys
        /\ put[p].fd \in Inodes /\ lock[put[p].fd] = p
    BY DEF Inv, TypeOK, WriteFails, RenameFails, At, PutOK, HasKey, HasFile, HasLock,
           OpenPCs, LockedPCs
  <1>2. r \in Puts /\ r.pc = "unlink_tmp" /\ r.key = put[p].key /\ r.fd = put[p].fd
    BY <1>1 DEF Puts, PutPCs
  <1>3. put' = [put EXCEPT ![p] = r]
    BY DEF WriteFails, RenameFails, Go
  <1>4. put' \in [Procs -> Puts] /\ put'[p] = r /\ \A q \in Procs \ {p} : put'[q] = put[q]
    BY <1>2, <1>3, PutTyped DEF Inv
  <1>5. TypeOK'
    BY <1>4 DEF Inv, TypeOK, WriteFails, RenameFails, names
  <1>6. PutOK(p)'
    BY <1>1, <1>2, <1>4 DEF PutOK, HasKey, HasFile, HasLock, StartsAtZero, Writes, Written,
       KeepsName, EarlyPCs, LockedPCs, OpenPCs, WritingPCs, WriteFails, RenameFails
  <1> QED BY <1>4, <1>5, <1>6, QuietStep DEF WriteFails, RenameFails

\* Unlinking <key>.tmp takes the name from nobody who writes, or the step is crossed.
LEMMA UnlinkTmpInv ==
  ASSUME Inv, NEW p \in Procs, UnlinkTmp(p)
  PROVE  Inv'
  <1> DEFINE r == [put[p] EXCEPT !.pc = "close"]
  <1>1. put[p] \in Puts /\ put[p].key \in Keys /\ put[p].pc = "unlink_tmp"
    BY DEF Inv, TypeOK, UnlinkTmp, At, PutOK, HasKey
  <1>2. r \in Puts /\ r.pc = "close" /\ r.key \in Keys
    BY <1>1 DEF Puts, PutPCs
  <1>3. put' = [put EXCEPT ![p] = r]
    BY DEF UnlinkTmp, Go
  <1>4. put' \in [Procs -> Puts] /\ put'[p] = r /\ \A q \in Procs \ {p} : put'[q] = put[q]
    BY <1>2, <1>3, PutTyped DEF Inv
  <1>5. tmp' = [tmp EXCEPT ![put[p].key] = None] /\ final' = final /\ FreeFiles
    BY DEF UnlinkTmp
  <1>6. crossed' \in BOOLEAN /\ (~crossed' => ~crossed)
    BY DEF UnlinkTmp
  <1>7. ~crossed' => tmp[put[p].key] \in {put[p].fd, None}
    BY DEF UnlinkTmp
  <1>8. TypeOK'
    BY <1>4, <1>5, <1>6, FilesTyped DEF Inv, TypeOK, UnlinkTmp
  <1>9. PutOK(p)'
    BY <1>2, <1>4 DEF PutOK, HasKey, HasFile, HasLock, StartsAtZero, Writes, Written,
       KeepsName, EarlyPCs, LockedPCs, OpenPCs, WritingPCs
  <1>10. ASSUME NEW q \in Procs \ {p} PROVE PutOK(q)'
    <2>1. put[q].pc = "rename" => len'[put[q].fd] = len[put[q].fd]
      BY <1>4, <1>5, OpenFileKept DEF OpenPCs, LockedPCs
    <2>2. ASSUME ~crossed', put[q].pc \in WritingPCs
          PROVE  ~crossed /\ tmp'[put[q].key] = tmp[put[q].key]
      <3>1. ~crossed
        BY <1>6, <2>2
      <3>2. tmp[put[q].key] = put[q].fd /\ put[q].fd \in Inodes
        BY <2>2, <3>1 DEF Inv, PutOK, KeepsName, HasFile, WritingPCs, OpenPCs, LockedPCs
      <3>3. put[p].fd # put[q].fd
        BY <1>1, <2>2, LocksDiffer DEF LockedPCs, WritingPCs
      <3>4. put[q].key # put[p].key
        BY <1>7, <2>2, <3>2, <3>3, Constants
      <3> QED BY <1>5, <3>1, <3>4 DEF Inv, TypeOK
    <2> QED BY <1>4, <2>1, <2>2, OtherPut DEF Inv, UnlinkTmp
  <1>11. TmpNotFinal'
    BY <1>1, <1>5 DEF Inv, TypeOK, TmpNotFinal
  <1>12. FinalComplete'
    BY <1>5, <1>6, EntryKept DEF Inv, FinalComplete
  <1> QED BY <1>8, <1>9, <1>10, <1>11, <1>12 DEF Inv

\* The rename makes the file of the process, which is complete, the entry; no other
\* process has written to it because the lock is exclusive.
LEMMA RenameInv ==
  ASSUME Inv, NEW p \in Procs, Rename(p)
  PROVE  Inv'
  <1> DEFINE k == put[p].key
  <1>1. /\ put[p] \in Puts /\ k \in Keys /\ put[p].pc = "rename" /\ put[p].fd \in Inodes
        /\ lock[put[p].fd] = p /\ len[put[p].fd] = Pieces
        /\ ~crossed => tmp[k] = put[p].fd
    BY DEF Inv, TypeOK, Rename, At, PutOK, HasKey, HasFile, HasLock, Written, KeepsName,
           OpenPCs, LockedPCs, WritingPCs
  <1>2. ASSUME NEW to \in {"stat", "unlink_tmp"}, Go(p, to)
        PROVE  /\ put' \in [Procs -> Puts] /\ \A q \in Procs \ {p} : put'[q] = put[q]
               /\ put'[p].fd = put[p].fd /\ PutOK(p)'
    <2> DEFINE r == [put[p] EXCEPT !.pc = to]
    <2>1. r \in Puts /\ r.pc = to /\ r.key = k /\ r.fd = put[p].fd
      BY <1>1 DEF Puts, PutPCs
    <2>2. put' = [put EXCEPT ![p] = r]
      BY <1>2 DEF Go
    <2>3. put' \in [Procs -> Puts] /\ put'[p] = r /\ \A q \in Procs \ {p} : put'[q] = put[q]
      BY <2>1, <2>2, PutTyped DEF Inv
    <2>4. PutOK(p)'
      BY <1>1, <2>1, <2>3 DEF PutOK, HasKey, HasFile, HasLock, StartsAtZero, Writes,
         Written, KeepsName, EarlyPCs, LockedPCs, OpenPCs, WritingPCs, Rename
    <2> QED BY <2>1, <2>3, <2>4
  <1>3. /\ FreeFiles /\ UNCHANGED <<lock, size, rem, alone, crossed, skewed>>
        /\ left' \subseteq Keys
    BY DEF Rename, Inv, TypeOK
  <1>4. CASE /\ tmp[k] # None
             /\ final' = [final EXCEPT ![k] = tmp[k]] /\ tmp' = [tmp EXCEPT ![k] = None]
             /\ Go(p, "stat")
    <2>1. /\ put' \in [Procs -> Puts] /\ \A q \in Procs \ {p} : put'[q] = put[q]
          /\ put'[p].fd = put[p].fd /\ PutOK(p)'
      BY <1>2, <1>4
    <2>2. TypeOK'
      BY <1>1, <1>3, <1>4, <2>1, FilesTyped DEF Inv, TypeOK, hist
    <2>3. ASSUME NEW q \in Procs \ {p} PROVE PutOK(q)'
      <3>1. put[q].pc = "rename" => len'[put[q].fd] = len[put[q].fd]
        BY <1>3, <2>1, OpenFileKept DEF OpenPCs, LockedPCs
      <3>2. ASSUME ~crossed, put[q].pc \in WritingPCs
            PROVE  tmp'[put[q].key] = tmp[put[q].key]
        <4>1. tmp[put[q].key] = put[q].fd
          BY <3>2 DEF Inv, PutOK, KeepsName
        <4>2. put[p].fd # put[q].fd
          BY <1>1, <3>2, LocksDiffer DEF LockedPCs, WritingPCs
        <4>3. put[q].key # k
          BY <1>1, <3>2, <4>1, <4>2
        <4> QED BY <1>4, <4>3 DEF Inv, TypeOK
      <3> QED BY <1>3, <2>1, <3>1, <3>2, OtherPut DEF Inv, hist
    <2>4. TmpNotFinal'
      BY <1>1, <1>4 DEF Inv, TypeOK, TmpNotFinal
    <2>5. FinalComplete'
      <3> SUFFICES ASSUME ~crossed, NEW l \in Keys, final'[l] # None
                   PROVE  len'[final'[l]] = Pieces
        BY <1>3 DEF FinalComplete, hist
      <3>1. CASE l = k
        <4>1. final'[l] = put[p].fd
          BY <1>1, <1>4, <3>1 DEF Inv, TypeOK
        <4>2. len'[put[p].fd] = len[put[p].fd]
          BY <1>1, <1>3, <2>1, OpenFileKept DEF OpenPCs, LockedPCs
        <4> QED BY <1>1, <4>1, <4>2
      <3>2. CASE l # k
        <4>1. final'[l] = final[l]
          BY <1>4, <3>2 DEF Inv, TypeOK
        <4> QED BY <1>3, <4>1, EntryKept DEF Inv, FinalComplete
      <3> QED BY <3>1, <3>2
    <2> QED BY <2>1, <2>2, <2>3, <2>4, <2>5 DEF Inv
  <1>5. CASE tmp[k] = None /\ Go(p, "unlink_tmp") /\ UNCHANGED <<names, left>>
    <2>1. /\ put' \in [Procs -> Puts] /\ \A q \in Procs \ {p} : put'[q] = put[q]
          /\ PutOK(p)'
      BY <1>2, <1>5
    <2>2. TypeOK'
      BY <1>3, <1>5, <2>1, FilesTyped DEF Inv, TypeOK, hist, names
    <2>3. ASSUME NEW q \in Procs \ {p} PROVE PutOK(q)'
      <3>1. put[q].pc = "rename" => len'[put[q].fd] = len[put[q].fd]
        BY <1>3, <2>1, OpenFileKept DEF OpenPCs, LockedPCs
      <3> QED BY <1>3, <1>5, <2>1, <3>1, OtherPut DEF Inv, hist, names
    <2>4. TmpNotFinal'
      BY <1>5 DEF Inv, TmpNotFinal, names
    <2>5. FinalComplete'
      BY <1>3, <1>5, EntryKept DEF Inv, FinalComplete, names, hist
    <2> QED BY <2>1, <2>2, <2>3, <2>4, <2>5 DEF Inv
  <1> QED BY <1>4, <1>5 DEF Rename

\* A process that closes its file, at the end of the call or because it dies.
LEMMA ProcessGone ==
  ASSUME Inv, NEW p \in Procs, lock' = Unlocked(p), put' = [put EXCEPT ![p] = IdlePut],
         FreeFiles, UNCHANGED <<names, size, rem, crossed>>,
         alone' \subseteq Procs, skewed' \in BOOLEAN, left' \subseteq Keys
  PROVE  Inv'
  <1>1. IdlePut \in Puts
    <2>1. 0 \in 0 .. MaxEvictions /\ 0 \in 0 .. Pieces
      BY Constants
    <2>2. NoVictim \in Victims
      BY <2>1 DEF NoVictim, Victims
    <2> QED BY <2>1, <2>2 DEF IdlePut, Puts, PutPCs
  <1>2. put' \in [Procs -> Puts] /\ put'[p] = IdlePut /\ \A q \in Procs \ {p} : put'[q] = put[q]
    BY <1>1, PutTyped DEF Inv
  <1>3. lock' \in [Inodes -> Procs \cup {None}]
    BY DEF Inv, TypeOK, Unlocked
  <1>4. TypeOK'
    BY <1>2, <1>3, FilesTyped DEF Inv, TypeOK, names
  <1>5. PutOK(p)'
    BY <1>2 DEF IdlePut, PutOK, HasKey, HasFile, HasLock, StartsAtZero, Writes, Written,
       KeepsName, EarlyPCs, LockedPCs, OpenPCs, WritingPCs
  <1>6. ASSUME NEW q \in Procs \ {p} PROVE PutOK(q)'
    <2>1. put[q].pc = "rename" => len'[put[q].fd] = len[put[q].fd]
      BY <1>2, OpenFileKept DEF OpenPCs, LockedPCs
    <2>2. put[q].pc \in LockedPCs => lock'[put[q].fd] = lock[put[q].fd]
      BY DEF Unlocked, Inv, PutOK, HasFile, HasLock, OpenPCs
    <2> QED BY <1>2, <2>1, <2>2, OtherPut DEF Inv, names
  <1>7. TmpNotFinal'
    BY DEF Inv, TmpNotFinal, names
  <1>8. FinalComplete'
    BY EntryKept DEF Inv, FinalComplete, names
  <1> QED BY <1>4, <1>5, <1>6, <1>7, <1>8 DEF Inv

\* Every step keeps the invariant.
LEMMA NextInv == Inv /\ [Next]_vars => Inv'
  <1> SUFFICES ASSUME Inv, [Next]_vars PROVE Inv'
    OBVIOUS
  <1>1. ASSUME NEW p \in Procs, PutStep(p) PROVE Inv'
    <2>1. CASE Close(p)
      BY <2>1, ProcessGone DEF Close, Inv, TypeOK
    <2> QED BY <1>1, <2>1, EvictDoneInv, EvictChooseInv, EvictUnlinkInv, EvictSubtractInv,
               OpenTmpInv, OpenFailsInv, FlockInv, FlockFailsInv, OpenFinalInv,
               WritePieceInv, WriteFailsInv, UnlinkTmpInv, RenameInv, StatInv, UnlinkFinalInv,
               AddToSizeInv DEF PutStep
  <1>2. ASSUME NEW p \in Procs, Crash(p) PROVE Inv'
    BY <1>2, ProcessGone DEF Crash, Inv, TypeOK, LeftBy
  <1>3. ASSUME NEW p \in Procs, NEW k \in Keys, StartPut(p, k) PROVE Inv'
    BY <1>3, StartPutInv
  <1>4. ASSUME NEW a \in Apps, RemoveStep(a) PROVE Inv'
    BY <1>4, RemoveUnlinkInv, RemoveSubtractInv DEF RemoveStep
  <1>5. ASSUME NEW a \in Apps, NEW k \in Keys, RemoveStat(a, k) PROVE Inv'
    BY <1>5, RemoveStatInv
  <1>6. CASE UNCHANGED vars
    <2>1. TypeOK'
      BY <1>6 DEF Inv, TypeOK, vars, names, hist
    <2>2. ASSUME NEW q \in Procs PROVE PutOK(q)'
      BY <1>6, OtherPut DEF Inv, vars, names, hist
    <2>3. TmpNotFinal' /\ FinalComplete'
      BY <1>6 DEF Inv, TmpNotFinal, FinalComplete, vars, names, hist
    <2> QED BY <2>1, <2>2, <2>3 DEF Inv
  <1> QED BY <1>1, <1>2, <1>3, <1>4, <1>5, <1>6 DEF Next

\* The inductive invariant of cache_put: types, locks, and what a lock guarantees.
THEOREM CacheInvariant == Spec => []Inv
  BY InitInv, NextInv, PTL DEF Spec

\* The variables of the disk cache keep their types.
THEOREM CacheTyped == Spec => []TypeOK
  <1>1. Inv => TypeOK
    BY DEF Inv
  <1> QED BY <1>1, CacheInvariant, PTL

\* No reader of the cache sees a partially written entry, however many processes put,
\* evict, fail and die, as long as none goes on with the lock of a file that is no longer
\* the temporary one.
THEOREM CacheComplete == Spec => []EntriesComplete
  BY InvComplete, CacheInvariant, PTL
-----------------------------------------------------------------------------
(***************************************************************************)
(* Who cleans up, and what a put that is left alone achieves                *)
(***************************************************************************)

\* Where a process has no file, where it has the lock of one, where it has still to
\* rename or unlink the temporary file, and where it has done so.
NoFilePCs == {"idle", "evict", "unlink_lru", "subtract", "open"}
MayHoldPCs == LockedPCs \cup {"close"}
CleaningPCs == {"flock", "open_final", "write", "rename", "unlink_tmp"}
CleanedPCs == {"stat", "unlink_final", "add", "close"}

NoFileYet == \A q \in Procs : put[q].pc \in NoFilePCs => put[q].fd = None

\* A lock is held by the process that has the file open.
LocksOwn ==
  \A i \in Inodes : \A q \in Procs :
    lock[i] = q => put[q].fd = i /\ put[q].pc \in MayHoldPCs

\* A temporary file has one name, and is open only for its key.
OneName ==
  /\ \A k, l \in Keys : tmp[k] # None /\ tmp[k] = tmp[l] => k = l
  /\ \A q \in Procs : \A k \in Keys :
       tmp[k] # None /\ put[q].fd = tmp[k] => put[q].key = k

\* A process that has the lock and is through with the temporary file has left no name.
Cleaned ==
  \A q \in Procs : \A k \in Keys :
    (put[q].pc \in CleanedPCs /\ put[q].fd \in Inodes /\ lock[put[q].fd] = q) =>
      tmp[k] # put[q].fd

\* Somebody will rename or unlink each temporary file, unless it was left.
TmpOwned ==
  \A k \in Keys : tmp[k] # None =>
    k \in left \/ \E p \in Procs : /\ put[p].key = k /\ put[p].fd = tmp[k]
                                  /\ put[p].pc \in CleaningPCs

FilesInv == NoFileYet /\ LocksOwn /\ OneName /\ Cleaned /\ TmpOwned

\* A put that nobody interferes with is the only one, and once it has seen or made the
\* entry, the entry is there.
AlonePCs == {"flock", "open_final", "write", "rename", "unlink_tmp", "stat",
             "unlink_final", "add", "close"}
AloneInv ==
  \A p \in alone :
    /\ put[p].pc \in AlonePCs
    /\ \A q \in Procs \ {p} : put[q].pc = "idle"
    /\ ~crossed => put[p].pc # "unlink_final"
    /\ (~crossed /\ put[p].pc \in {"unlink_tmp", "stat", "add", "close"}) =>
         final[put[p].key] # None

\* A step of p that changes neither the names of temporary files nor the locks, and
\* takes p not past the cleaning up of its file.
LEMMA MoveFiles ==
  ASSUME TypeOK, FilesInv, NEW p \in Procs,
         \A q \in Procs \ {p} : put'[q] = put[q],
         put'[p].fd = put[p].fd, put'[p].key = put[p].key,
         UNCHANGED <<tmp, lock, left>>,
         put'[p].pc \in NoFilePCs => put[p].pc \in NoFilePCs,
         put[p].pc \in MayHoldPCs => put'[p].pc \in MayHoldPCs,
         put'[p].pc \in CleanedPCs => put[p].pc \in CleanedPCs \/ put[p].fd \notin Inodes
                                      \/ lock[put[p].fd] # p,
         put[p].pc \in CleaningPCs => put'[p].pc \in CleaningPCs
  PROVE  FilesInv'
  <1> USE DEF FilesInv
  <1>1. NoFileYet' /\ OneName' /\ LocksOwn'
    BY DEF NoFileYet, OneName, LocksOwn
  <1>2. Cleaned'
    BY DEF Cleaned
  <1>3. TmpOwned'
    <2> SUFFICES ASSUME NEW k \in Keys, tmp[k] # None, k \notin left
                 PROVE  \E q \in Procs : /\ put'[q].key = k /\ put'[q].fd = tmp[k]
                                         /\ put'[q].pc \in CleaningPCs
      BY DEF TmpOwned
    <2>1. PICK q \in Procs : /\ put[q].key = k /\ put[q].fd = tmp[k]
                             /\ put[q].pc \in CleaningPCs
      BY DEF TmpOwned
    <2> QED BY <2>1
  <1> QED BY <1>1, <1>2, <1>3

\* The fields of a call after a step that sets its pc.
LEMMA GoFields ==
  ASSUME TypeOK, NEW p \in Procs, NEW pc, Go(p, pc)
  PROVE  /\ \A q \in Procs \ {p} : put'[q] = put[q]
         /\ put'[p].fd = put[p].fd /\ put'[p].key = put[p].key /\ put'[p].pc = pc
  BY DEF TypeOK, Puts, Go

\* The steps of a put that are such moves.
LEMMA MovesFiles ==
  ASSUME Inv, FilesInv, NEW p \in Procs,
         \/ EvictDone(p) \/ EvictChoose(p) \/ EvictUnlink(p) \/ EvictSubtract(p)
         \/ OpenFails(p) \/ OpenFinal(p) \/ OpenFinalFails(p) \/ WritePiece(p)
         \/ WriteFails(p) \/ RenameFails(p) \/ Stat(p) \/ StatFails(p) \/ UnlinkFinal(p)
         \/ AddToSize(p)
  PROVE  FilesInv'
  <1>0. TypeOK /\ (put[p].pc = "open" => put[p].fd \notin Inodes)
    BY Constants DEF Inv, FilesInv, NoFileYet, NoFilePCs
  <1> DEFINE Kept == /\ \A q \in Procs \ {p} : put'[q] = put[q]
                     /\ put'[p].fd = put[p].fd /\ put'[p].key = put[p].key
                     /\ UNCHANGED <<tmp, lock, left>>
             From(a, b) == put[p].pc \in a /\ put'[p].pc \in b
  <1>1. /\ Kept
        /\ \/ From(NoFilePCs \ {"open", "idle"}, NoFilePCs \ {"idle"})
           \/ From({"open"}, {"close"})
           \/ From({"open_final"}, {"unlink_tmp", "write"})
           \/ From({"write", "rename"}, {"write", "rename", "unlink_tmp"})
           \/ From({"stat", "unlink_final", "add"}, {"unlink_final", "add", "close"})
    <2> USE <1>0 DEF At, NoFilePCs, names, hist
    <2>1. CASE EvictDone(p)
      BY <2>1 DEF EvictDone, TypeOK, Puts
    <2>2. CASE EvictChoose(p)
      <3>1. put[p].pc = "evict" /\ UNCHANGED <<tmp, lock, left>>
        BY <2>2 DEF EvictChoose
      <3>2. CASE \E k \in Keys :
                   put' = [put EXCEPT ![p].pc = "unlink_lru", ![p].victim = StatOf(k),
                                      ![p].tries = @ + 1]
        BY <3>1, <3>2 DEF TypeOK, Puts
      <3>3. CASE put' = [put EXCEPT ![p].tries = @ + 1]
        BY <3>1, <3>3 DEF TypeOK, Puts
      <3> QED BY <2>2, <3>2, <3>3 DEF EvictChoose
    <2>3. CASE EvictUnlink(p)
      BY <2>3, GoFields DEF EvictUnlink
    <2>4. CASE EvictSubtract(p)
      BY <2>4 DEF EvictSubtract, TypeOK, Puts
    <2>5. CASE OpenFails(p)
      BY <2>5, GoFields DEF OpenFails
    <2>6. CASE OpenFinal(p)
      BY <2>6, GoFields DEF OpenFinal
    <2>7. CASE WritePiece(p)
      BY <2>7 DEF WritePiece, TypeOK, Puts
    <2>8. CASE WriteFails(p)
      BY <2>8, GoFields DEF WriteFails
    <2>9. CASE Stat(p)
      BY <2>9, GoFields DEF Stat, TypeOK, Puts
    <2>10. CASE UnlinkFinal(p)
      BY <2>10, GoFields DEF UnlinkFinal
    <2>11. CASE AddToSize(p)
      BY <2>11, GoFields DEF AddToSize
    <2>12. CASE OpenFinalFails(p)
      BY <2>12, GoFields DEF OpenFinalFails
    <2>13. CASE RenameFails(p)
      BY <2>13, GoFields DEF RenameFails
    <2>14. CASE StatFails(p)
      BY <2>14, GoFields DEF StatFails
    <2> QED BY <2>1, <2>2, <2>3, <2>4, <2>5, <2>6, <2>7, <2>8, <2>9, <2>10, <2>11, <2>12,
               <2>13, <2>14
  <1>3. /\ put'[p].pc \in NoFilePCs => put[p].pc \in NoFilePCs
        /\ put[p].pc \in MayHoldPCs => put'[p].pc \in MayHoldPCs
        /\ put'[p].pc \in CleanedPCs => put[p].pc \in CleanedPCs \/ put[p].fd \notin Inodes
        /\ put[p].pc \in CleaningPCs => put'[p].pc \in CleaningPCs
    BY <1>0, <1>1 DEF NoFilePCs, MayHoldPCs, LockedPCs, CleaningPCs, CleanedPCs
  <1> QED BY <1>0, <1>1, <1>3, MoveFiles

\* A put begins without a file.
LEMMA StartFiles ==
  ASSUME Inv, FilesInv, NEW p \in Procs, NEW k \in Keys, StartPut(p, k)
  PROVE  FilesInv'
  <1>1. /\ put[p].pc = "idle" /\ put[p].fd = None
        /\ \A q \in Procs \ {p} : put'[q] = put[q]
        /\ put'[p].fd = None /\ put'[p].pc = "evict"
        /\ UNCHANGED <<tmp, lock, left>>
    BY DEF StartPut, At, Inv, TypeOK, Puts, FilesInv, NoFileYet, NoFilePCs, names
  <1>2. NoFileYet' /\ LocksOwn' /\ OneName' /\ Cleaned'
    BY <1>1 DEF FilesInv, NoFileYet, LocksOwn, OneName, Cleaned, NoFilePCs, MayHoldPCs,
       LockedPCs, CleanedPCs
  <1>3. TmpOwned'
    <2> SUFFICES ASSUME NEW l \in Keys, tmp[l] # None, l \notin left
                 PROVE  \E q \in Procs : /\ put'[q].key = l /\ put'[q].fd = tmp[l]
                                         /\ put'[q].pc \in CleaningPCs
      BY <1>1 DEF TmpOwned
    <2>1. PICK q \in Procs : /\ put[q].key = l /\ put[q].fd = tmp[l]
                             /\ put[q].pc \in CleaningPCs
      BY DEF FilesInv, TmpOwned
    <2>2. q # p
      BY <1>1, <2>1
    <2> QED BY <1>1, <2>1, <2>2
  <1> QED BY <1>2, <1>3 DEF FilesInv

\* A temporary file is opened or created: a new one is nobody else's.
LEMMA OpenFiles ==
  ASSUME Inv, FilesInv, NEW p \in Procs, OpenTmp(p)
  PROVE  FilesInv'
  <1> DEFINE k == put[p].key
  <1>0. TypeOK /\ put[p].pc = "open" /\ k \in Keys /\ UNCHANGED <<lock, left>>
    BY DEF Inv, PutOK, HasKey, OpenTmp, At
  <1>1. PICK i \in Inodes :
          /\ put' = [put EXCEPT ![p].pc = "flock", ![p].fd = i]
          /\ tmp' = [tmp EXCEPT ![k] = i]
          /\ tmp[k] = i \/ (tmp[k] = None /\ ~InUse(i))
    <2>1. CASE Reopen(p, k)
      <3>1. tmp[k] \in Inodes
        BY <1>0, <2>1 DEF Reopen, TypeOK
      <3>2. tmp' = [tmp EXCEPT ![k] = tmp[k]]
        BY <1>0, <2>1 DEF Reopen, TypeOK
      <3> QED BY <2>1, <3>1, <3>2 DEF Reopen
    <2>2. CASE Create(p, k)
      <3> DEFINE new == CHOOSE j \in Inodes : ~InUse(j)
      <3>1. new \in Inodes /\ ~InUse(new)
        BY <2>2 DEF Create
      <3> QED BY <2>2, <3>1 DEF Create
    <2> QED BY <2>1, <2>2 DEF OpenTmp
  <1>2. /\ \A q \in Procs \ {p} : put'[q] = put[q]
        /\ put'[p].fd = i /\ put'[p].key = k /\ put'[p].pc = "flock"
        /\ tmp'[k] = i /\ \A l \in Keys \ {k} : tmp'[l] = tmp[l]
    BY <1>0, <1>1 DEF TypeOK, Puts
  <1>3. i # None /\ \A l \in Keys \ {k} : tmp[l] # i
    BY <1>0, <1>1, Constants DEF FilesInv, OneName, InUse
  <1>4. \A q \in Procs : put[q].fd = i => put[q].key = k
    BY <1>0, <1>1, <1>3 DEF FilesInv, OneName, InUse
  <1>5. \A q \in Procs : lock[i] = q => put[q].pc \notin CleanedPCs /\ put[q].fd = i
    BY <1>0, <1>1, <1>3 DEF FilesInv, LocksOwn, Cleaned, InUse
  <1>6. \A j \in Inodes : lock[j] # p
    BY <1>0 DEF FilesInv, LocksOwn, MayHoldPCs, LockedPCs
  <1>7. NoFileYet' /\ LocksOwn' /\ OneName'
    BY <1>0, <1>2, <1>3, <1>4, <1>6
    DEF FilesInv, NoFileYet, LocksOwn, OneName, NoFilePCs, MayHoldPCs, LockedPCs
  <1>8. Cleaned'
    <2> SUFFICES ASSUME NEW q \in Procs, NEW l \in Keys, put'[q].pc \in CleanedPCs,
                        put'[q].fd \in Inodes, lock[put'[q].fd] = q, tmp'[l] = put'[q].fd
                 PROVE  FALSE
      BY <1>0 DEF Cleaned
    <2>1. q # p
      BY <1>2 DEF CleanedPCs
    <2>2. l = k
      BY <1>2, <2>1 DEF FilesInv, Cleaned
    <2> QED BY <1>2, <1>5, <2>1, <2>2
  <1>9. TmpOwned'
    <2> SUFFICES ASSUME NEW l \in Keys, tmp'[l] # None, l \notin left
                 PROVE  \E q \in Procs : /\ put'[q].key = l /\ put'[q].fd = tmp'[l]
                                         /\ put'[q].pc \in CleaningPCs
      BY <1>0 DEF TmpOwned
    <2>1. CASE l = k
      BY <1>2, <2>1 DEF CleaningPCs
    <2>2. CASE l # k
      <3>1. PICK q \in Procs : /\ put[q].key = l /\ put[q].fd = tmp[l]
                               /\ put[q].pc \in CleaningPCs
        BY <1>2, <2>2 DEF FilesInv, TmpOwned
      <3>2. q # p
        BY <2>2, <3>1
      <3> QED BY <1>2, <2>2, <3>1, <3>2
    <2> QED BY <2>1, <2>2
  <1> QED BY <1>7, <1>8, <1>9 DEF FilesInv

\* The lock is taken, or whoever has it will clean up.
LEMMA FlockFiles ==
  ASSUME Inv, FilesInv, NEW p \in Procs, Flock(p)
  PROVE  FilesInv'
  <1> DEFINE i == put[p].fd
  <1>0. TypeOK /\ put[p].pc = "flock" /\ i \in Inodes /\ UNCHANGED <<tmp, left>>
    BY DEF Inv, PutOK, HasFile, OpenPCs, Flock, At, names, hist
  <1>1. \A j \in Inodes : lock[j] # p
    BY <1>0 DEF FilesInv, LocksOwn, MayHoldPCs, LockedPCs
  <1>2. CASE MayLock(p) /\ lock' = [lock EXCEPT ![i] = p] /\ Go(p, "open_final")
    <2>1. /\ \A q \in Procs \ {p} : put'[q] = put[q]
          /\ put'[p].fd = i /\ put'[p].key = put[p].key /\ put'[p].pc = "open_final"
          /\ lock[i] = None /\ lock'[i] = p /\ \A j \in Inodes \ {i} : lock'[j] = lock[j]
      BY <1>0, <1>2, GoFields DEF MayLock, TypeOK
    <2>2. NoFileYet' /\ LocksOwn' /\ OneName'
      BY <1>0, <1>1, <2>1
      DEF FilesInv, NoFileYet, LocksOwn, OneName, NoFilePCs, MayHoldPCs, LockedPCs
    <2>3. Cleaned'
      BY <1>0, <2>1 DEF FilesInv, Cleaned, CleanedPCs
    <2>4. TmpOwned'
      BY <1>0, <2>1 DEF FilesInv, TmpOwned, CleaningPCs
    <2> QED BY <2>2, <2>3, <2>4 DEF FilesInv
  <1>3. CASE ~MayLock(p) /\ Go(p, "close") /\ UNCHANGED lock
    <2>1. /\ \A q \in Procs \ {p} : put'[q] = put[q]
          /\ put'[p].fd = i /\ put'[p].key = put[p].key /\ put'[p].pc = "close"
      BY <1>0, <1>3, GoFields
    <2>2. PICK h \in Procs : lock[i] = h
      BY <1>0, <1>3 DEF MayLock, TypeOK
    <2>3. h # p /\ put[h].fd = i /\ put[h].pc \in MayHoldPCs
      BY <1>0, <1>1, <2>2 DEF FilesInv, LocksOwn
    <2>4. NoFileYet' /\ LocksOwn' /\ OneName' /\ Cleaned'
      BY <1>0, <1>1, <1>3, <2>1
      DEF FilesInv, NoFileYet, LocksOwn, OneName, Cleaned, NoFilePCs, MayHoldPCs, CleanedPCs
    <2>5. TmpOwned'
      <3> SUFFICES ASSUME NEW l \in Keys, tmp[l] # None, l \notin left
                   PROVE  \E q \in Procs : /\ put'[q].key = l /\ put'[q].fd = tmp[l]
                                           /\ put'[q].pc \in CleaningPCs
        BY <1>0 DEF TmpOwned
      <3>1. PICK q \in Procs : /\ put[q].key = l /\ put[q].fd = tmp[l]
                               /\ put[q].pc \in CleaningPCs
        BY DEF FilesInv, TmpOwned
      <3>2. CASE q # p
        BY <2>1, <3>1, <3>2
      <3>3. CASE q = p
        <4>1. tmp[l] = i
          BY <3>1, <3>3
        <4>2. put[h].key = l
          BY <2>3, <4>1 DEF FilesInv, OneName
        <4>3. put[h].pc \notin CleanedPCs
          BY <1>0, <2>2, <2>3, <4>1 DEF FilesInv, Cleaned
        <4>4. put[h].pc \in CleaningPCs
          BY <2>3, <4>3 DEF MayHoldPCs, LockedPCs, CleanedPCs, CleaningPCs
        <4> QED BY <2>1, <2>3, <4>1, <4>2, <4>4
      <3> QED BY <3>2, <3>3
    <2> QED BY <2>4, <2>5 DEF FilesInv
  <1> QED BY <1>2, <1>3 DEF Flock

\* The temporary file loses its name: renamed or unlinked, by the process that has the
\* lock.
LEMMA NameGoneFiles ==
  ASSUME Inv, FilesInv, NEW p \in Procs, put[p].pc \in {"rename", "unlink_tmp"},
         \A q \in Procs \ {p} : put'[q] = put[q],
         put'[p].fd = put[p].fd, put'[p].key = put[p].key,
         put'[p].pc \in {"stat", "close"},
         tmp' = [tmp EXCEPT ![put[p].key] = None], UNCHANGED lock,
         left' = left \ {put[p].key}
  PROVE  FilesInv'
  <1> DEFINE k == put[p].key
  <1>0. TypeOK /\ k \in Keys
    BY DEF Inv, PutOK, HasKey
  <1>1. tmp'[k] = None /\ \A l \in Keys \ {k} : tmp'[l] = tmp[l]
    BY <1>0 DEF TypeOK
  <1>2. NoFileYet' /\ LocksOwn' /\ OneName'
    BY <1>0, <1>1
    DEF FilesInv, NoFileYet, LocksOwn, OneName, NoFilePCs, MayHoldPCs, LockedPCs
  <1>3. Cleaned'
    <2> SUFFICES ASSUME NEW q \in Procs, NEW l \in Keys, put'[q].pc \in CleanedPCs,
                        put'[q].fd \in Inodes, lock[put'[q].fd] = q, tmp'[l] = put'[q].fd
                 PROVE  FALSE
      BY DEF Cleaned
    <2>1. l # k /\ tmp[l] = put'[q].fd /\ tmp[l] # None
      BY <1>1, Constants
    <2>2. q = p
      BY <2>1 DEF FilesInv, Cleaned
    <2> QED BY <2>1, <2>2 DEF FilesInv, OneName
  <1>4. TmpOwned'
    <2> SUFFICES ASSUME NEW l \in Keys, tmp'[l] # None, l \notin left'
                 PROVE  \E q \in Procs : /\ put'[q].key = l /\ put'[q].fd = tmp'[l]
                                         /\ put'[q].pc \in CleaningPCs
      BY DEF TmpOwned
    <2>1. l # k /\ tmp'[l] = tmp[l]
      BY <1>1
    <2>2. PICK q \in Procs : /\ put[q].key = l /\ put[q].fd = tmp[l]
                             /\ put[q].pc \in CleaningPCs
      BY <2>1 DEF FilesInv, TmpOwned
    <2> QED BY <2>1, <2>2
  <1> QED BY <1>2, <1>3, <1>4 DEF FilesInv

\* A process closes its file, at the end of a put or because it dies.
LEMMA GoneFiles ==
  ASSUME Inv, FilesInv, NEW p \in Procs, put[p].pc = "close" \/ LeftBy(p) \subseteq left',
         left \subseteq left', lock' = Unlocked(p), put' = [put EXCEPT ![p] = IdlePut],
         UNCHANGED tmp
  PROVE  FilesInv'
  <1>1. /\ \A q \in Procs \ {p} : put'[q] = put[q]
        /\ put'[p].fd = None /\ put'[p].pc = "idle"
    BY DEF Inv, TypeOK, IdlePut
  <1>2. \A i \in Inodes : lock'[i] = IF lock[i] = p THEN None ELSE lock[i]
    BY DEF Unlocked
  <1>3. NoFileYet' /\ OneName'
    BY <1>1 DEF FilesInv, NoFileYet, OneName, NoFilePCs
  <1>4. LocksOwn'
    BY <1>1, <1>2, Constants DEF FilesInv, LocksOwn
  <1>5. Cleaned'
    <2> SUFFICES ASSUME NEW q \in Procs, NEW k \in Keys, put'[q].pc \in CleanedPCs,
                        put'[q].fd \in Inodes, lock'[put'[q].fd] = q
                 PROVE  tmp[k] # put'[q].fd
      BY DEF Cleaned
    <2>1. q # p
      BY <1>1 DEF CleanedPCs
    <2>2. lock[put[q].fd] = q
      <3>1. put'[q] = put[q]
        BY <1>1, <2>1
      <3>2. PICK i \in Inodes : i = put[q].fd /\ lock'[i] = q
        BY <3>1
      <3>3. lock'[i] = IF lock[i] = p THEN None ELSE lock[i]
        BY <1>2
      <3> QED BY <3>2, <3>3, Constants
    <2> QED BY <1>1, <2>1, <2>2 DEF FilesInv, Cleaned
  <1>6. TmpOwned'
    <2> SUFFICES ASSUME NEW k \in Keys, tmp[k] # None, k \notin left'
                 PROVE  \E q \in Procs : /\ put'[q].key = k /\ put'[q].fd = tmp[k]
                                         /\ put'[q].pc \in CleaningPCs
      BY DEF TmpOwned
    <2>1. PICK q \in Procs : /\ put[q].key = k /\ put[q].fd = tmp[k]
                             /\ put[q].pc \in CleaningPCs
      BY DEF FilesInv, TmpOwned
    <2>2. q # p
      BY <2>1 DEF CleaningPCs, LeftBy
    <2> QED BY <1>1, <2>1, <2>2
  <1> QED BY <1>3, <1>4, <1>5, <1>6 DEF FilesInv

\* A put whose flock fails leaves its file.
LEMMA FlockFailsFiles ==
  ASSUME Inv, FilesInv, NEW p \in Procs, FlockFails(p)
  PROVE  FilesInv'
  <1>0. /\ TypeOK /\ put[p].pc = "flock" /\ UNCHANGED <<tmp, lock>>
        /\ left' = left \cup LeftBy(p) /\ Go(p, "close")
    BY DEF Inv, FlockFails, At, names
  <1>1. /\ \A q \in Procs \ {p} : put'[q] = put[q]
        /\ put'[p].fd = put[p].fd /\ put'[p].key = put[p].key /\ put'[p].pc = "close"
    BY <1>0, GoFields
  <1>2. \A j \in Inodes : lock[j] # p
    BY <1>0 DEF FilesInv, LocksOwn, MayHoldPCs, LockedPCs
  <1>3. NoFileYet' /\ LocksOwn' /\ OneName' /\ Cleaned'
    BY <1>0, <1>1, <1>2
    DEF FilesInv, NoFileYet, LocksOwn, OneName, Cleaned, NoFilePCs, MayHoldPCs, CleanedPCs
  <1>4. TmpOwned'
    <2> SUFFICES ASSUME NEW k \in Keys, tmp[k] # None, k \notin left'
                 PROVE  \E q \in Procs : /\ put'[q].key = k /\ put'[q].fd = tmp[k]
                                         /\ put'[q].pc \in CleaningPCs
      BY <1>0 DEF TmpOwned
    <2>1. PICK q \in Procs : /\ put[q].key = k /\ put[q].fd = tmp[k]
                             /\ put[q].pc \in CleaningPCs
      BY <1>0 DEF FilesInv, TmpOwned
    <2>2. q # p
      BY <1>0, <2>1 DEF LeftBy
    <2> QED BY <1>1, <2>1, <2>2
  <1> QED BY <1>3, <1>4 DEF FilesInv

\* Every step leaves each temporary file to somebody who will clean it up.
LEMMA FilesStep == Inv /\ FilesInv /\ [Next]_vars => FilesInv'
  <1> SUFFICES ASSUME Inv, FilesInv, [Next]_vars PROVE FilesInv'
    OBVIOUS
  <1>t. TypeOK
    BY DEF Inv
  <1>1. ASSUME NEW p \in Procs, PutStep(p) PROVE FilesInv'
    <2>1. CASE Close(p)
      BY <2>1, GoneFiles DEF Close, At, names
    <2>2. CASE UnlinkTmp(p)
      BY <1>t, <2>2, GoFields, NameGoneFiles DEF UnlinkTmp, At
    <2>3. CASE Rename(p) /\ tmp[put[p].key] # None
      <3>1. /\ put[p].pc = "rename" /\ Go(p, "stat") /\ UNCHANGED lock
            /\ tmp' = [tmp EXCEPT ![put[p].key] = None] /\ left' = left \ {put[p].key}
        BY <2>3 DEF Rename, At
      <3> QED BY <1>t, <3>1, GoFields, NameGoneFiles
    <2>4. CASE Rename(p) /\ tmp[put[p].key] = None
      <3>1. /\ put[p].pc = "rename" /\ Go(p, "unlink_tmp")
            /\ UNCHANGED <<tmp, lock, left>>
        BY <2>4 DEF Rename, At, hist, names
      <3>2. /\ \A q \in Procs \ {p} : put'[q] = put[q]
            /\ put'[p].fd = put[p].fd /\ put'[p].key = put[p].key
            /\ put'[p].pc = "unlink_tmp"
        BY <1>t, <3>1, GoFields
      <3> QED BY <1>t, <3>1, <3>2, MoveFiles
              DEF NoFilePCs, MayHoldPCs, LockedPCs, CleaningPCs, CleanedPCs
    <2> QED BY <1>1, <2>1, <2>2, <2>3, <2>4, MovesFiles, OpenFiles, FlockFiles,
               FlockFailsFiles DEF PutStep
  <1>2. ASSUME NEW p \in Procs, Crash(p) PROVE FilesInv'
    BY <1>2, GoneFiles DEF Crash, names
  <1>3. ASSUME NEW p \in Procs, NEW k \in Keys, StartPut(p, k) PROVE FilesInv'
    BY <1>3, StartFiles
  <1>4. CASE UNCHANGED <<tmp, lock, put, left>>
    BY <1>4 DEF FilesInv, NoFileYet, LocksOwn, OneName, Cleaned, TmpOwned
  <1>5. ASSUME NEW a \in Apps, RemoveStep(a) \/ \E k \in Keys : RemoveStat(a, k)
        PROVE  FilesInv'
    BY <1>4, <1>5 DEF RemoveStep, RemoveUnlink, RemoveSubtract, RemoveStat, names, hist
  <1> QED BY <1>1, <1>2, <1>3, <1>4, <1>5 DEF Next, vars, names, hist

\* Every temporary file is open in a put that is still at work, or was left by one that
\* died or whose flock failed: no other path of cache_put leaves one behind, for any
\* number of threads and keys.
THEOREM CacheTmpCleaned == Spec => []TmpCleaned
  <1>1. Init => FilesInv
    BY Constants DEF Init, FilesInv, NoFileYet, LocksOwn, OneName, Cleaned, TmpOwned,
       IdlePut, CleanedPCs
  <1>2. FilesInv => TmpCleaned
    BY DEF FilesInv, TmpOwned, TmpCleaned
  <1> QED BY <1>1, <1>2, CacheInvariant, FilesStep, PTL DEF Spec
-----------------------------------------------------------------------------
\* A put that goes on keeps what was found out about it, if nobody takes the entry away.
LEMMA AloneMoves ==
  ASSUME AloneInv, NEW p \in Procs, put[p].pc # "idle", alone' \subseteq alone,
         \A q \in Procs \ {p} : put'[q] = put[q],
         p \in alone' =>
           /\ put'[p].pc \in AlonePCs
           /\ ~crossed' => put'[p].pc # "unlink_final"
           /\ (~crossed' /\ put'[p].pc \in {"unlink_tmp", "stat", "add", "close"}) =>
                final'[put'[p].key] # None
  PROVE  AloneInv'
  <1>1. alone \subseteq {p}
    BY DEF AloneInv, TypeOK
  <1> QED BY <1>1 DEF AloneInv

\* The steps that end a put or begin one.
LEMMA AloneEnds ==
  ASSUME AloneInv, alone' = {} PROVE AloneInv'
  BY DEF AloneInv

\* Every step of a put that is left alone brings it nearer to its entry.
LEMMA AlonePut ==
  ASSUME Inv, FilesInv, AloneInv, NEW p \in Procs, PutStep(p)
  PROVE  AloneInv'
  <1>0. TypeOK /\ put[p].pc # "idle"
    BY DEF Inv, PutStep, EvictDone, EvictChoose, EvictUnlink, EvictSubtract, OpenTmp,
       OpenFails, Flock, FlockFails, OpenFinal, OpenFinalFails, WritePiece, WriteFails,
       UnlinkTmp, Rename, RenameFails, Stat, StatFails, UnlinkFinal, AddToSize, Close, At
  <1>a. p \in alone => put[p].pc \in AlonePCs /\ \A q \in Procs \ {p} : put[q].pc = "idle"
    BY DEF AloneInv
  <1>b. p \in alone /\ ~crossed /\ put[p].pc \in {"unlink_tmp", "stat", "add", "close"} =>
          final[put[p].key] # None
    BY DEF AloneInv
  <1>1. CASE EvictDone(p) \/ EvictChoose(p) \/ EvictUnlink(p) \/ EvictSubtract(p)
             \/ OpenFails(p)
    <2>1. p \notin alone /\ alone' = alone
      BY <1>1, <1>a DEF EvictDone, EvictChoose, EvictUnlink, EvictSubtract, OpenFails, At,
         AlonePCs, hist
    <2>2. \A q \in Procs \ {p} : put'[q] = put[q]
      BY <1>0, <1>1, GoFields DEF EvictDone, EvictChoose, EvictUnlink, EvictSubtract,
         OpenFails, TypeOK
    <2> QED BY <1>0, <2>1, <2>2, AloneMoves
  <1>2. CASE OpenTmp(p)
    <2>1. /\ \A q \in Procs \ {p} : put'[q] = put[q]
          /\ put'[p].pc = "flock"
          /\ alone' = IF \A q \in Procs \ {p} : At(q, "idle") THEN {p} ELSE {}
      BY <1>0, <1>2 DEF OpenTmp, Reopen, Create, TypeOK, Puts
    <2> QED BY <2>1 DEF AloneInv, AlonePCs, At
  <1>3. CASE Flock(p)
    <2>1. /\ put[p].pc = "flock" /\ put[p].fd \in Inodes /\ alone' = alone
          /\ \/ MayLock(p) /\ Go(p, "open_final")
             \/ ~MayLock(p) /\ Go(p, "close")
      BY <1>3 DEF Flock, At, hist, Inv, PutOK, HasFile, OpenPCs
    <2>2. p \in alone => MayLock(p)
      <3> SUFFICES ASSUME p \in alone, lock[put[p].fd] # None PROVE FALSE
        BY DEF MayLock
      <3>1. PICK h \in Procs : lock[put[p].fd] = h
        BY <1>0, <2>1 DEF TypeOK
      <3>2. put[h].pc \in MayHoldPCs
        BY <2>1, <3>1 DEF FilesInv, LocksOwn
      <3> QED BY <1>a, <2>1, <3>2 DEF MayHoldPCs, LockedPCs
    <2>3. \A q \in Procs \ {p} : put'[q] = put[q]
      BY <1>0, <2>1, GoFields
    <2>4. p \in alone => put'[p].pc = "open_final"
      BY <1>0, <2>1, <2>2, GoFields
    <2> QED BY <1>0, <2>1, <2>3, <2>4, AloneMoves DEF AlonePCs
  <1>4. CASE OpenFinal(p)
    <2>1. /\ alone' = alone /\ final' = final
          /\ Go(p, IF Found(p) THEN "unlink_tmp" ELSE "write")
      BY <1>4 DEF OpenFinal, names
    <2>2. /\ \A q \in Procs \ {p} : put'[q] = put[q]
          /\ put'[p].key = put[p].key
          /\ put'[p].pc = IF final[put[p].key] # None THEN "unlink_tmp" ELSE "write"
      BY <1>0, <2>1, GoFields DEF Found
    <2> QED BY <1>0, <2>1, <2>2, AloneMoves DEF AlonePCs
  <1>5. CASE WritePiece(p)
    <2>1. /\ alone' = alone /\ put'[p].pc \in {"write", "rename"}
          /\ \A q \in Procs \ {p} : put'[q] = put[q]
      BY <1>0, <1>5 DEF WritePiece, At, hist, TypeOK, Puts
    <2> QED BY <1>0, <2>1, AloneMoves DEF AlonePCs
  <1>6. CASE FlockFails(p) \/ WriteFails(p) \/ RenameFails(p) \/ StatFails(p) \/ Close(p)
    <2>1. alone' = alone \ {p} /\ \A q \in Procs \ {p} : put'[q] = put[q]
      BY <1>0, <1>6, GoFields DEF FlockFails, WriteFails, RenameFails, StatFails, Close,
         TypeOK
    <2> QED BY <1>0, <2>1, AloneMoves
  <1>7. CASE UnlinkTmp(p)
    <2>1. /\ put[p].pc = "unlink_tmp" /\ Go(p, "close")
          /\ alone' = alone /\ final' = final /\ (~crossed' => ~crossed)
      BY <1>7 DEF UnlinkTmp, At
    <2>2. /\ \A q \in Procs \ {p} : put'[q] = put[q]
          /\ put'[p].key = put[p].key /\ put'[p].pc = "close"
      BY <1>0, <2>1, GoFields
    <2> QED BY <1>0, <1>b, <2>1, <2>2, AloneMoves DEF AlonePCs
  <1>8. CASE Rename(p)
    <2>1. put[p].pc = "rename" /\ put[p].key \in Keys /\ put[p].fd \in Inodes
          /\ alone' = alone /\ crossed' = crossed
      BY <1>8 DEF Rename, At, hist, Inv, PutOK, HasKey, HasFile, OpenPCs, LockedPCs
    <2>2. ~crossed => tmp[put[p].key] # None
      BY <2>1, Constants DEF Inv, PutOK, KeepsName, WritingPCs
    <2>3. CASE tmp[put[p].key] # None
      <3>1. Go(p, "stat") /\ final' = [final EXCEPT ![put[p].key] = tmp[put[p].key]]
        BY <1>8, <2>3 DEF Rename
      <3>2. /\ \A q \in Procs \ {p} : put'[q] = put[q]
            /\ put'[p].key = put[p].key /\ put'[p].pc = "stat"
        BY <1>0, <3>1, GoFields
      <3>3. final'[put[p].key] # None
        BY <1>0, <2>1, <2>3, <3>1 DEF TypeOK
      <3> QED BY <1>0, <2>1, <3>2, <3>3, AloneMoves DEF AlonePCs
    <2>4. CASE tmp[put[p].key] = None
      <3>1. Go(p, "unlink_tmp") /\ crossed
        BY <1>8, <2>2, <2>4 DEF Rename
      <3>2. /\ \A q \in Procs \ {p} : put'[q] = put[q]
            /\ put'[p].pc = "unlink_tmp"
        BY <1>0, <3>1, GoFields
      <3> QED BY <1>0, <2>1, <3>1, <3>2, AloneMoves DEF AlonePCs
    <2> QED BY <2>3, <2>4
  <1>9. CASE Stat(p)
    <2>1. /\ put[p].pc = "stat" /\ UNCHANGED <<alone, crossed, final>>
          /\ \A q \in Procs \ {p} : put'[q] = put[q]
          /\ put'[p].key = put[p].key
          /\ put'[p].pc = IF final[put[p].key] # None THEN "add" ELSE "unlink_final"
      BY <1>0, <1>9, GoFields DEF Stat, At, hist, names, TypeOK, Puts
    <2> QED BY <1>0, <1>b, <2>1, AloneMoves DEF AlonePCs
  <1>10. CASE UnlinkFinal(p)
    <2>1. /\ UNCHANGED <<alone, crossed>> /\ put'[p].pc = "close"
          /\ \A q \in Procs \ {p} : put'[q] = put[q]
      BY <1>0, <1>10, GoFields DEF UnlinkFinal
    <2>2. p \in alone => crossed
      BY <1>10 DEF AloneInv, UnlinkFinal, At
    <2> QED BY <1>0, <2>1, <2>2, AloneMoves DEF AlonePCs
  <1>11. CASE AddToSize(p)
    <2>1. /\ put[p].pc = "add" /\ UNCHANGED <<alone, crossed, final>> /\ Go(p, "close")
      BY <1>11 DEF AddToSize, At, hist, names
    <2>2. /\ \A q \in Procs \ {p} : put'[q] = put[q]
          /\ put'[p].key = put[p].key /\ put'[p].pc = "close"
      BY <1>0, <2>1, GoFields
    <2> QED BY <1>0, <1>b, <2>1, <2>2, AloneMoves DEF AlonePCs
  <1>12. CASE OpenFinalFails(p)
    <2>1. alone' = alone /\ Go(p, "write")
      BY <1>12 DEF OpenFinalFails
    <2>2. (\A q \in Procs \ {p} : put'[q] = put[q]) /\ put'[p].pc = "write"
      BY <1>0, <2>1, GoFields
    <2> QED BY <1>0, <2>1, <2>2, AloneMoves DEF AlonePCs
  <1> QED BY <1>1, <1>2, <1>3, <1>4, <1>5, <1>6, <1>7, <1>8, <1>9, <1>10, <1>11, <1>12
          DEF PutStep

\* Every step, of anybody.
LEMMA AloneStep == Inv /\ FilesInv /\ AloneInv /\ [Next]_vars => AloneInv'
  <1> SUFFICES ASSUME Inv, FilesInv, AloneInv, [Next]_vars PROVE AloneInv'
    OBVIOUS
  <1>1. ASSUME NEW p \in Procs, Crash(p) PROVE AloneInv'
    <2>1. /\ alone' = alone \ {p} /\ put[p].pc # "idle"
          /\ \A q \in Procs \ {p} : put'[q] = put[q]
      BY <1>1 DEF Crash, At, Inv, TypeOK
    <2> QED BY <2>1, AloneMoves
  <1>2. ASSUME NEW p \in Procs, NEW k \in Keys, StartPut(p, k) PROVE AloneInv'
    BY <1>2, AloneEnds DEF StartPut
  <1>3. ASSUME NEW a \in Apps, RemoveStep(a) \/ \E k \in Keys : RemoveStat(a, k)
        PROVE  AloneInv'
    <2>1. CASE RemoveUnlink(a)
      BY <2>1, AloneEnds DEF RemoveUnlink
    <2>2. CASE RemoveSubtract(a) \/ \E k \in Keys : RemoveStat(a, k)
      BY <2>2 DEF RemoveSubtract, RemoveStat, AloneInv, names, hist
    <2> QED BY <1>3, <2>1, <2>2 DEF RemoveStep
  <1>4. CASE UNCHANGED vars
    BY <1>4 DEF AloneInv, vars, names, hist
  <1> QED BY <1>1, <1>2, <1>3, <1>4, AlonePut DEF Next

\* What a process that died has left does no harm: a put that nobody interferes with and
\* whose calls succeed ends with the complete entry in the cache, whatever temporary
\* file it finds.
THEOREM CacheStaleHarmless == Spec => []StaleTmpHarmless
  <1>1. Init => FilesInv /\ AloneInv
    BY Constants DEF Init, FilesInv, NoFileYet, LocksOwn, OneName, Cleaned, TmpOwned,
       IdlePut, CleanedPCs, AloneInv
  <1>2. Inv /\ AloneInv => StaleTmpHarmless
    <2> SUFFICES ASSUME Inv, AloneInv, ~crossed, NEW p \in alone, At(p, "close")
                 PROVE  Get(put[p].key) = "hit"
      BY DEF StaleTmpHarmless
    <2>1. p \in Procs /\ put[p].key \in Keys /\ final[put[p].key] # None
      BY DEF Inv, TypeOK, PutOK, HasKey, AloneInv, At
    <2> QED BY <2>1 DEF Inv, FinalComplete, Get
  <1> QED BY <1>1, <1>2, CacheInvariant, FilesStep, AloneStep, PTL DEF Spec
-----------------------------------------------------------------------------
(***************************************************************************)
(* The size in the index                                                    *)
(***************************************************************************)

\* What the size does not count yet, and what it still counts: the entries of writers
\* between rename and p_atomic_add, or unlink, and those unlinked by who has still to
\* subtract.
Entries == {k \in Keys : final[k] # None}
AddingPCs == {"stat", "unlink_final", "add"}
Adding == {p \in Procs : put[p].pc \in AddingPCs}
Subtracting == {p \in Procs : put[p].pc = "subtract"}
Removing == {a \in Apps : rem[a].pc = "subtract"}
Balance == Cardinality(Entries) + Cardinality(Subtracting) + Cardinality(Removing)
           - Cardinality(Adding)

\* Sizes that were looked at are those of complete entries; the entry is not there
\* before the rename and is there until the writer has looked at it or taken it back.
CountOK(p) ==
  /\ put[p].pc \in WritingPCs => final[put[p].key] = None
  /\ put[p].pc \in {"stat", "unlink_final"} => final[put[p].key] # None
  /\ put[p].pc \in {"unlink_lru", "subtract", "add"} => put[p].victim.size = Pieces
  /\ put[p].pc = "unlink_lru" => put[p].victim.key \in Keys
RemovalOK(a) ==
  rem[a].pc # "idle" => rem[a].victim.size = Pieces /\ rem[a].victim.key \in Keys

Exact == ~skewed /\ ~crossed
Balanced == \E j \in Int : size = Pieces * Balance + SizeWrap * j
SizeInv ==
  Exact => /\ Balanced
           /\ \A p \in Procs : CountOK(p)
           /\ \A a \in Apps : RemovalOK(a)

\* Remainders of a number and its multiples, and of sums of two remainders.
LEMMA Remainder ==
  ASSUME NEW W \in Nat, W > 0, NEW r \in 0 .. W - 1, NEW j \in Int
  PROVE  (W * j + r) % W = r
  BY SMT

\* The remainder of a sum that wraps once at most.
LEMMA WrapOnce ==
  ASSUME NEW W \in Nat, W > 0, NEW n \in 0 .. 2 * W - 1
  PROVE  n % W = IF n < W THEN n ELSE n - W
  <1>1. CASE n < W
    <2>1. W * 0 + n = n
      OBVIOUS
    <2>2. (W * 0 + n) % W = n
      BY <1>1, Remainder
    <2> QED BY <2>1, <2>2, <1>1
  <1>2. CASE ~(n < W)
    <2>1. W * 1 + (n - W) = n /\ n - W \in 0 .. W - 1
      BY <1>2
    <2>2. (W * 1 + (n - W)) % W = n - W
      BY <2>1, Remainder
    <2> QED BY <2>1, <2>2, <1>2
  <1> QED BY <1>1, <1>2

\* One more and one less.
LEMMA CountAdd ==
  ASSUME NEW S, IsFiniteSet(S), NEW x, x \notin S
  PROVE  Cardinality(S \cup {x}) = Cardinality(S) + 1
  BY FS_AddElement

\* A set without one of its members has one member less.
LEMMA CountRemove ==
  ASSUME NEW S, IsFiniteSet(S), NEW x \in S
  PROVE  Cardinality(S \ {x}) = Cardinality(S) - 1
  BY FS_RemoveElement

\* The sets that the balance counts are finite.
LEMMA CountsFinite ==
  /\ IsFiniteSet(Entries) /\ IsFiniteSet(Adding)
  /\ IsFiniteSet(Subtracting) /\ IsFiniteSet(Removing)
  /\ Cardinality(Entries) \in Nat /\ Cardinality(Adding) \in Nat
  /\ Cardinality(Subtracting) \in Nat /\ Cardinality(Removing) \in Nat
  /\ Balance \in Int
  <1>1. /\ IsFiniteSet(Entries) /\ IsFiniteSet(Adding)
        /\ IsFiniteSet(Subtracting) /\ IsFiniteSet(Removing)
    BY FiniteAssumption, FS_Subset DEF Entries, Adding, Subtracting, Removing
  <1>2. /\ Cardinality(Entries) \in Nat /\ Cardinality(Adding) \in Nat
        /\ Cardinality(Subtracting) \in Nat /\ Cardinality(Removing) \in Nat
    BY <1>1, FS_CardinalityType
  <1> QED BY <1>1, <1>2 DEF Balance

\* The size and the balance change together.
LEMMA BalanceKept ==
  ASSUME Balanced, Balance' = Balance, size' = size
  PROVE  Balanced'
  BY DEF Balanced

\* p_atomic_add of a new entry keeps the balance, through the wrap of the size.
LEMMA BalanceAdd ==
  ASSUME TypeOK, Balanced, Balance' = Balance + 1, AddSize(Pieces)
  PROVE  Balanced'
  <1>1. size' = size + Pieces \/ size' = size + Pieces - SizeWrap
    <2>1. size + Pieces \in 0 .. 2 * SizeWrap - 1
      BY Constants, SizesAssumption DEF TypeOK
    <2>2. size' = (size + Pieces) % SizeWrap /\ size \in Int
      BY Constants DEF AddSize, TypeOK
    <2> QED BY <2>1, <2>2, Constants, WrapOnce
  <1>2. PICK j \in Int : size = Pieces * Balance + SizeWrap * j
    BY DEF Balanced
  <1>3. Pieces * (Balance + 1) = Pieces * Balance + Pieces
    BY Constants, CountsFinite
  <1>4. SizeWrap * (j - 1) = SizeWrap * j - SizeWrap
    BY Constants
  <1>5. Pieces * Balance \in Int /\ SizeWrap * j \in Int
    BY Constants, CountsFinite
  <1>6. \/ size' = Pieces * (Balance + 1) + SizeWrap * j
        \/ size' = Pieces * (Balance + 1) + SizeWrap * (j - 1)
    BY <1>1, <1>2, <1>3, <1>4, <1>5, Constants
  <1> QED BY <1>6 DEF Balanced

\* So does the subtraction for an entry that was unlinked.
LEMMA BalanceSubtract ==
  ASSUME TypeOK, Balanced, Balance' = Balance - 1, SubtractSize(Pieces)
  PROVE  Balanced'
  <1>1. size' = size - Pieces \/ size' = size - Pieces + SizeWrap
    <2>1. /\ size + (SizeWrap - Pieces) \in 0 .. 2 * SizeWrap - 1
      BY Constants, SizesAssumption DEF TypeOK
    <2>2. size' = (size + (SizeWrap - Pieces)) % SizeWrap
      BY DEF AddSize, SubtractSize
    <2>3. size \in Int
      BY Constants DEF TypeOK
    <2> QED BY <2>1, <2>2, <2>3, Constants, WrapOnce
  <1>2. PICK j \in Int : size = Pieces * Balance + SizeWrap * j
    BY DEF Balanced
  <1>3. Pieces * (Balance - 1) = Pieces * Balance - Pieces
    BY Constants, CountsFinite
  <1>4. SizeWrap * (j + 1) = SizeWrap * j + SizeWrap
    BY Constants
  <1>5. Pieces * Balance \in Int /\ SizeWrap * j \in Int
    BY Constants, CountsFinite
  <1>6. \/ size' = Pieces * (Balance - 1) + SizeWrap * j
        \/ size' = Pieces * (Balance - 1) + SizeWrap * (j + 1)
    BY <1>1, <1>2, <1>3, <1>4, <1>5, Constants
  <1> QED BY <1>6 DEF Balanced

\* A step of p that leaves the entries and the size alone and does not move p into or
\* out of the pieces of code that owe something.
LEMMA SizeKept ==
  ASSUME Inv, SizeInv, NEW p \in Procs, \A q \in Procs \ {p} : put'[q] = put[q],
         UNCHANGED <<final, size, rem>>, Exact' => Exact,
         Exact' => /\ CountOK(p)'
                   /\ put'[p].pc \in AddingPCs <=> put[p].pc \in AddingPCs
                   /\ put'[p].pc = "subtract" <=> put[p].pc = "subtract"
  PROVE  SizeInv'
  <1> SUFFICES ASSUME Exact' PROVE SizeInv'
    BY DEF SizeInv
  <1>1. Exact /\ Balanced /\ (\A q \in Procs : CountOK(q)) /\ \A a \in Apps : RemovalOK(a)
    BY DEF SizeInv
  <1>2. Entries' = Entries /\ Adding' = Adding /\ Subtracting' = Subtracting
        /\ Removing' = Removing
    BY DEF Entries, Adding, Subtracting, Removing
  <1>3. Balance' = Balance
    BY <1>2 DEF Balance
  <1>4. \A q \in Procs \ {p} : CountOK(q)'
    BY <1>1 DEF CountOK
  <1>5. \A a \in Apps : RemovalOK(a)'
    BY <1>1 DEF RemovalOK
  <1> QED BY <1>1, <1>3, <1>4, <1>5, BalanceKept DEF SizeInv

\* The steps that owe nothing before and after, or owe the same.
LEMMA SizeMoves ==
  ASSUME Inv, SizeInv, NEW p \in Procs,
         \/ EvictDone(p) \/ EvictChoose(p) \/ OpenTmp(p) \/ OpenFails(p) \/ Flock(p)
         \/ FlockFails(p) \/ OpenFinal(p) \/ OpenFinalFails(p) \/ WritePiece(p)
         \/ WriteFails(p) \/ UnlinkTmp(p) \/ RenameFails(p) \/ Stat(p) \/ StatFails(p)
         \/ Close(p) \/ Crash(p) \/ \E k \in Keys : StartPut(p, k)
  PROVE  SizeInv'
  <1>0. /\ TypeOK /\ put \in [Procs -> Puts] /\ put[p] \in Puts
        /\ Exact => CountOK(p) /\ \A k \in Keys : final[k] # None => len[final[k]] = Pieces
    BY DEF Inv, TypeOK, SizeInv, FinalComplete, Exact
  <1>1. CASE \/ EvictDone(p) \/ OpenFails(p) \/ FlockFails(p) \/ WriteFails(p)
             \/ RenameFails(p) \/ \E k \in Keys : StartPut(p, k)
    <2>1. /\ \A q \in Procs \ {p} : put'[q] = put[q]
          /\ UNCHANGED <<final, size, rem, crossed, skewed>>
          /\ put[p].pc \in {"evict", "open", "flock", "write", "rename", "idle"}
          /\ put'[p].pc \in {"open", "close", "unlink_tmp", "evict"}
      BY <1>0, <1>1 DEF EvictDone, OpenFails, FlockFails, WriteFails, RenameFails, StartPut,
         Go, At, names, hist, Puts
    <2>2. CountOK(p)'
      BY <2>1 DEF CountOK, WritingPCs
    <2> QED BY <2>1, <2>2, SizeKept DEF Exact, AddingPCs
  <1>2. CASE EvictChoose(p)
    <2>1. /\ \A q \in Procs \ {p} : put'[q] = put[q]
          /\ UNCHANGED <<final, size, rem, crossed, skewed>>
          /\ put[p].pc = "evict"
          /\ put'[p].pc \in {"evict", "unlink_lru"}
          /\ put'[p].pc = "unlink_lru" =>
               \E k \in Keys : final[k] # None /\ put'[p].victim = StatOf(k)
      <3> DEFINE Chosen(k) == put' = [put EXCEPT ![p].pc = "unlink_lru",
                                                 ![p].victim = StatOf(k), ![p].tries = @ + 1]
                 Nothing == put' = [put EXCEPT ![p].tries = @ + 1]
      <3>1. UNCHANGED <<names, size, rem, hist>> /\ At(p, "evict")
        BY <1>2, Zenon DEF EvictChoose
      <3>2. Nothing \/ \E k \in Keys : final[k] # None /\ Chosen(k)
        BY <1>2, Zenon DEF EvictChoose
      <3>3. UNCHANGED <<final, size, rem, crossed, skewed>> /\ put[p].pc = "evict"
        <4> HIDE DEF Chosen, Nothing
        <4> QED BY <3>1 DEF names, hist, At
      <3>4. ASSUME Nothing
            PROVE  put'[p].pc = put[p].pc /\ \A q \in Procs \ {p} : put'[q] = put[q]
        BY <1>0, <3>4 DEF Puts
      <3>5. ASSUME NEW k \in Keys, Chosen(k)
            PROVE  /\ put'[p].pc = "unlink_lru" /\ put'[p].victim = StatOf(k)
                   /\ \A q \in Procs \ {p} : put'[q] = put[q]
        BY <1>0, <3>5 DEF Puts
      <3> HIDE DEF Chosen, Nothing
      <3> QED BY <3>2, <3>3, <3>4, <3>5
    <2>2. Exact' => CountOK(p)'
      <3>1. Exact' /\ put'[p].pc = "unlink_lru" =>
              put'[p].victim.size = Pieces /\ put'[p].victim.key \in Keys
        <4> SUFFICES ASSUME Exact', put'[p].pc = "unlink_lru"
                     PROVE  put'[p].victim.size = Pieces /\ put'[p].victim.key \in Keys
          OBVIOUS
        <4>1. PICK k \in Keys : final[k] # None /\ put'[p].victim = StatOf(k)
          BY <2>1
        <4>2. len[final[k]] = Pieces
          BY <1>0, <2>1, <4>1 DEF Exact
        <4> QED BY <4>1, <4>2 DEF StatOf
      <3> QED BY <2>1, <3>1 DEF CountOK, WritingPCs
    <2> QED BY <2>1, <2>2, SizeKept DEF Exact, AddingPCs
  <1>3. CASE OpenTmp(p) \/ Flock(p) \/ UnlinkTmp(p)
    <2>1. /\ \A q \in Procs \ {p} : put'[q] = put[q]
          /\ UNCHANGED <<final, size, rem, skewed>> /\ (crossed => crossed')
          /\ put[p].pc \in {"open", "flock", "unlink_tmp"}
          /\ put'[p].pc \in {"flock", "open_final", "close"}
      <3>1. CASE OpenTmp(p)
        <4>1. \E i : put' = [put EXCEPT ![p].pc = "flock", ![p].fd = i]
          BY <3>1 DEF OpenTmp, Reopen, Create
        <4> QED BY <1>0, <3>1, <4>1 DEF OpenTmp, At, Puts
      <3>2. CASE Flock(p)
        BY <1>0, <3>2 DEF Flock, Go, At, names, hist, Puts
      <3>3. CASE UnlinkTmp(p)
        BY <1>0, <3>3 DEF UnlinkTmp, Go, At, Puts
      <3> QED BY <1>3, <3>1, <3>2, <3>3
    <2>2. CountOK(p)'
      BY <2>1 DEF CountOK, WritingPCs
    <2> QED BY <2>1, <2>2, SizeKept DEF Exact, AddingPCs
  <1>4. CASE OpenFinal(p)
    <2>1. /\ \A q \in Procs \ {p} : put'[q] = put[q]
          /\ UNCHANGED <<final, size, rem, skewed>> /\ (crossed => crossed')
          /\ put[p].pc = "open_final" /\ put'[p].key = put[p].key
          /\ put'[p].pc = IF final[put[p].key] # None THEN "unlink_tmp" ELSE "write"
      BY <1>0, <1>4 DEF OpenFinal, Found, Go, At, names, hist, Puts
    <2>2. CountOK(p)'
      BY <2>1 DEF CountOK, WritingPCs
    <2> QED BY <2>1, <2>2, SizeKept DEF Exact, AddingPCs
  <1>5. CASE WritePiece(p)
    <2>1. /\ \A q \in Procs \ {p} : put'[q] = put[q]
          /\ UNCHANGED <<final, size, rem, crossed, skewed>>
          /\ put[p].pc = "write" /\ put'[p].key = put[p].key
          /\ put'[p].pc \in {"write", "rename"}
      BY <1>0, <1>5 DEF WritePiece, At, names, hist, Puts
    <2>2. Exact => CountOK(p)'
      BY <1>0, <2>1 DEF CountOK, WritingPCs
    <2> QED BY <2>1, <2>2, SizeKept DEF Exact, AddingPCs
  <1>6. CASE Stat(p)
    <2>1. /\ \A q \in Procs \ {p} : put'[q] = put[q]
          /\ UNCHANGED <<final, size, rem, crossed, skewed>>
          /\ put[p].pc = "stat" /\ put[p].key \in Keys
          /\ final[put[p].key] # None => /\ put'[p].pc = "add"
                                         /\ put'[p].victim = StatOf(put[p].key)
      <3>1. /\ UNCHANGED <<final, size, rem, crossed, skewed>>
            /\ put[p].pc = "stat" /\ put[p].key \in Keys
        BY <1>6 DEF Stat, At, names, hist, Inv, PutOK, HasKey
      <3>2. CASE final[put[p].key] # None
        <4>1. put' = [put EXCEPT ![p].pc = "add", ![p].victim = StatOf(put[p].key)]
          BY <1>6, <3>2 DEF Stat
        <4> QED BY <1>0, <3>1, <4>1 DEF Puts
      <3>3. CASE final[put[p].key] = None
        BY <1>0, <1>6, <3>1, <3>3 DEF Stat, Go, Puts
      <3> QED BY <3>2, <3>3
    <2>2. Exact => put'[p].pc = "add" /\ put'[p].victim.size = Pieces
      BY <1>0, <2>1 DEF CountOK, StatOf
    <2>3. Exact => CountOK(p)'
      BY <2>2 DEF CountOK, WritingPCs
    <2> QED BY <2>1, <2>2, <2>3, SizeKept DEF Exact, AddingPCs
  <1>7. CASE Close(p) \/ Crash(p)
    <2>1. /\ \A q \in Procs \ {p} : put'[q] = put[q]
          /\ UNCHANGED <<final, size, rem, crossed>> /\ (skewed => skewed')
          /\ ~skewed' => put[p].pc \notin AddingPCs \cup {"subtract"}
          /\ put'[p].pc = "idle"
      <3>1. CASE Close(p)
        BY <1>0, <3>1 DEF Close, At, names, IdlePut, AddingPCs
      <3>2. CASE Crash(p)
        BY <1>0, <3>2 DEF Crash, names, IdlePut, AddingPCs
      <3> QED BY <1>7, <3>1, <3>2
    <2>2. CountOK(p)'
      BY <2>1 DEF CountOK, WritingPCs
    <2> QED BY <2>1, <2>2, SizeKept DEF Exact, AddingPCs
  <1>8. CASE OpenFinalFails(p)
    <2>1. ~Exact'
      BY <1>8 DEF OpenFinalFails, Exact
    <2> QED BY <2>1 DEF SizeInv
  <1>9. CASE StatFails(p)
    <2>1. /\ \A q \in Procs \ {p} : put'[q] = put[q]
          /\ UNCHANGED <<final, size, rem, crossed, skewed>>
          /\ put[p].pc = "stat" /\ put'[p].pc = "unlink_final" /\ put'[p].key = put[p].key
      BY <1>0, <1>9 DEF StatFails, Go, At, names, Puts
    <2>2. Exact => CountOK(p)'
      BY <1>0, <2>1 DEF CountOK, WritingPCs
    <2> QED BY <2>1, <2>2, SizeKept DEF Exact, AddingPCs
  <1> QED BY <1>1, <1>2, <1>3, <1>4, <1>5, <1>6, <1>7, <1>8, <1>9

\* Adding and subtracting.
LEMMA SizeChanges ==
  ASSUME Inv, SizeInv, NEW p \in Procs, AddToSize(p) \/ EvictSubtract(p)
  PROVE  SizeInv'
  <1> SUFFICES ASSUME Exact' PROVE SizeInv'
    BY DEF SizeInv
  <1>0. /\ TypeOK /\ put \in [Procs -> Puts] /\ put[p] \in Puts
        /\ UNCHANGED <<final, rem, crossed, skewed>> /\ \A q \in Procs \ {p} : put'[q] = put[q]
    BY DEF Inv, TypeOK, AddToSize, EvictSubtract, Go, names, hist
  <1>1. Exact /\ Balanced /\ (\A q \in Procs : CountOK(q)) /\ \A a \in Apps : RemovalOK(a)
    BY <1>0 DEF SizeInv, Exact
  <1>2. Entries' = Entries /\ Removing' = Removing
    BY <1>0 DEF Entries, Removing
  <1>3. \A q \in Procs \ {p} : CountOK(q)'
    BY <1>0, <1>1 DEF CountOK
  <1>4. \A a \in Apps : RemovalOK(a)'
    BY <1>0, <1>1 DEF RemovalOK
  <1>5. CASE AddToSize(p)
    <2>1. put[p].pc = "add" /\ put'[p].pc = "close" /\ put[p].victim.size = Pieces
      BY <1>0, <1>1, <1>5 DEF AddToSize, At, Go, Puts, CountOK
    <2>2. Adding' = Adding \ {p} /\ p \in Adding /\ Subtracting' = Subtracting
      BY <1>0, <2>1 DEF Adding, AddingPCs, Subtracting
    <2>3. Balance' = Balance + 1
      BY <1>2, <2>2, CountRemove, CountsFinite DEF Balance
    <2>4. Balanced'
      BY <1>0, <1>1, <1>5, <2>1, <2>3, BalanceAdd DEF AddToSize
    <2>5. CountOK(p)'
      BY <2>1 DEF CountOK, WritingPCs
    <2> QED BY <1>3, <1>4, <2>4, <2>5 DEF SizeInv
  <1>6. CASE EvictSubtract(p)
    <2>1. put[p].pc = "subtract" /\ put'[p].pc = "evict" /\ put[p].victim.size = Pieces
      BY <1>0, <1>1, <1>6 DEF EvictSubtract, At, Puts, CountOK
    <2>2. Subtracting' = Subtracting \ {p} /\ p \in Subtracting /\ Adding' = Adding
      BY <1>0, <2>1 DEF Adding, AddingPCs, Subtracting
    <2>3. Balance' = Balance - 1
      BY <1>2, <2>2, CountRemove, CountsFinite DEF Balance
    <2>4. Balanced'
      BY <1>0, <1>1, <1>6, <2>1, <2>3, BalanceSubtract DEF EvictSubtract
    <2>5. CountOK(p)'
      BY <2>1 DEF CountOK, WritingPCs
    <2> QED BY <1>3, <1>4, <2>4, <2>5 DEF SizeInv
  <1> QED BY <1>5, <1>6

\* The rename makes an entry where there was none.
LEMMA SizeRename ==
  ASSUME Inv, SizeInv, NEW p \in Procs, Rename(p)
  PROVE  SizeInv'
  <1> SUFFICES ASSUME Exact' PROVE SizeInv'
    BY DEF SizeInv
  <1> DEFINE k == put[p].key
  <1>0. /\ TypeOK /\ put \in [Procs -> Puts] /\ put[p] \in Puts /\ k \in Keys
        /\ put[p].pc = "rename" /\ put[p].fd \in Inodes
        /\ UNCHANGED <<size, rem, crossed, skewed>> /\ \A q \in Procs \ {p} : put'[q] = put[q]
    BY DEF Inv, TypeOK, Rename, Go, At, PutOK, HasKey, HasFile, OpenPCs, LockedPCs
  <1>1. Exact /\ Balanced /\ (\A q \in Procs : CountOK(q)) /\ \A a \in Apps : RemovalOK(a)
    BY <1>0 DEF SizeInv, Exact
  <1>2. tmp[k] = put[p].fd /\ tmp[k] # None
    BY <1>0, <1>1, Constants DEF Inv, PutOK, KeepsName, Exact, WritingPCs
  <1>3. /\ final' = [final EXCEPT ![k] = tmp[k]] /\ put'[p].pc = "stat" /\ put'[p].key = k
    BY <1>0, <1>2 DEF Rename, Go, Puts
  <1>4. final \in [Keys -> Inodes \cup {None}] /\ k \notin Entries
    BY <1>0, <1>1 DEF TypeOK, Entries, CountOK, WritingPCs
  <1>5. /\ Entries' = Entries \cup {k} /\ Adding' = Adding \cup {p} /\ p \notin Adding
        /\ Subtracting' = Subtracting /\ Removing' = Removing
    BY <1>0, <1>2, <1>3, <1>4 DEF Entries, Adding, AddingPCs, Subtracting, Removing
  <1>6. Balance' = Balance
    BY <1>4, <1>5, CountAdd, CountsFinite DEF Balance
  <1>7. ASSUME NEW q \in Procs \ {p} PROVE CountOK(q)'
    <2>1. put[q].pc \in WritingPCs => put[q].key # k
      <3> SUFFICES ASSUME put[q].pc \in WritingPCs, put[q].key = k PROVE FALSE
        OBVIOUS
      <3>1. put[q].fd = put[p].fd
        BY <1>1, <1>2 DEF Inv, PutOK, KeepsName, Exact
      <3> QED BY <3>1, <1>0 DEF Inv, PutOK, HasLock, LockedPCs, WritingPCs
    <2>2. put[q].pc # "idle" => put[q].key \in Keys
      BY DEF Inv, PutOK, HasKey
    <2> QED BY <1>0, <1>1, <1>2, <1>3, <1>4, <2>1, <2>2 DEF CountOK, WritingPCs
  <1>8. CountOK(p)'
    BY <1>0, <1>2, <1>3, <1>4 DEF CountOK, WritingPCs
  <1>9. \A a \in Apps : RemovalOK(a)'
    BY <1>0, <1>1 DEF RemovalOK
  <1> QED BY <1>0, <1>1, <1>6, <1>7, <1>8, <1>9, BalanceKept DEF SizeInv

\* Unlinking an entry that is there and that none of the others has still to look at
\* or to take back.
LEMMA EntryGone ==
  ASSUME Inv, NEW k \in Keys, NEW others, UnlinkEntry(k, others), Exact', crossed' = crossed
  PROVE  /\ Exact /\ k \in Entries /\ Entries' = Entries \ {k}
         /\ \A q \in others \cap Procs : CountOK(q) /\ put'[q] = put[q] => CountOK(q)'
  <1>1. /\ Exact /\ final[k] # None
        /\ \A q \in others : put[q].key = k => put[q].pc \notin {"stat", "unlink_final"}
    BY DEF UnlinkEntry, Exact
  <1>2. final \in [Keys -> Inodes \cup {None}] /\ final' = [final EXCEPT ![k] = None]
    BY DEF UnlinkEntry, Inv, TypeOK
  <1>3. k \in Entries /\ Entries' = Entries \ {k}
    BY <1>1, <1>2 DEF Entries
  <1>4. ASSUME NEW q \in others \cap Procs, CountOK(q), put'[q] = put[q] PROVE CountOK(q)'
    <2>1. put[q].pc # "idle" => put[q].key \in Keys
      BY DEF Inv, PutOK, HasKey
    <2> QED BY <1>1, <1>2, <1>4, <2>1 DEF CountOK, WritingPCs
  <1> QED BY <1>1, <1>3, <1>4

\* An unlink by an eviction, or by a writer that takes its entry back, leaves the
\* accounting right or is recorded as skewed.
LEMMA SizeUnlinks ==
  ASSUME Inv, SizeInv, NEW p \in Procs, EvictUnlink(p) \/ UnlinkFinal(p)
  PROVE  SizeInv'
  <1> SUFFICES ASSUME Exact' PROVE SizeInv'
    BY DEF SizeInv
  <1>0. /\ TypeOK /\ put \in [Procs -> Puts] /\ put[p] \in Puts
        /\ UNCHANGED <<size, rem, crossed>> /\ \A q \in Procs \ {p} : put'[q] = put[q]
    BY DEF Inv, TypeOK, EvictUnlink, UnlinkFinal, Go
  <1>1. Exact /\ Balanced /\ (\A q \in Procs : CountOK(q)) /\ \A a \in Apps : RemovalOK(a)
    BY <1>0 DEF SizeInv, Exact, EvictUnlink, UnlinkFinal, UnlinkEntry
  <1>2. \A a \in Apps : RemovalOK(a)'
    BY <1>0, <1>1 DEF RemovalOK
  <1>3. CASE EvictUnlink(p)
    <2> DEFINE k == put[p].victim.key
    <2>1. /\ put[p].pc = "unlink_lru" /\ put'[p].pc = "subtract"
          /\ put'[p].victim = put[p].victim
      BY <1>0, <1>3 DEF EvictUnlink, At, Go, Puts
    <2>2. k \in Keys /\ UnlinkEntry(k, Procs) /\ put[p].victim.size = Pieces
      BY <1>1, <1>3, <2>1 DEF EvictUnlink, CountOK
    <2>3. /\ k \in Entries /\ Entries' = Entries \ {k}
          /\ \A q \in Procs \ {p} : CountOK(q)'
      BY <1>0, <1>1, <2>2, EntryGone
    <2>4. /\ Subtracting' = Subtracting \cup {p} /\ p \notin Subtracting
          /\ Adding' = Adding /\ Removing' = Removing
      BY <1>0, <2>1 DEF Adding, AddingPCs, Subtracting, Removing
    <2>5. Balance' = Balance
      <3>1. Cardinality(Entries') = Cardinality(Entries) - 1
        BY <2>3, CountRemove, CountsFinite
      <3>2. Cardinality(Subtracting') = Cardinality(Subtracting) + 1
        BY <2>4, CountAdd, CountsFinite
      <3> QED BY <2>4, <3>1, <3>2, CountsFinite DEF Balance
    <2>6. CountOK(p)'
      BY <2>1, <2>2 DEF CountOK, WritingPCs
    <2> QED BY <1>0, <1>1, <1>2, <2>3, <2>5, <2>6, BalanceKept DEF SizeInv
  <1>4. CASE UnlinkFinal(p)
    <2> DEFINE k == put[p].key
    <2>1. put[p].pc = "unlink_final" /\ put'[p].pc = "close"
      BY <1>0, <1>4 DEF UnlinkFinal, At, Go, Puts
    <2>2. k \in Keys /\ UnlinkEntry(k, Procs \ {p})
      BY <1>4, <2>1 DEF UnlinkFinal, Inv, PutOK, HasKey
    <2>3. /\ k \in Entries /\ Entries' = Entries \ {k}
          /\ \A q \in Procs \ {p} : CountOK(q)'
      BY <1>0, <1>1, <2>2, EntryGone
    <2>4. /\ Adding' = Adding \ {p} /\ p \in Adding
          /\ Subtracting' = Subtracting /\ Removing' = Removing
      BY <1>0, <2>1 DEF Adding, AddingPCs, Subtracting, Removing
    <2>5. Balance' = Balance
      <3>1. Cardinality(Entries') = Cardinality(Entries) - 1
        BY <2>3, CountRemove, CountsFinite
      <3>2. Cardinality(Adding') = Cardinality(Adding) - 1
        BY <2>4, CountRemove, CountsFinite
      <3> QED BY <2>4, <3>1, <3>2, CountsFinite DEF Balance
    <2>6. CountOK(p)'
      BY <2>1 DEF CountOK, WritingPCs
    <2> QED BY <1>0, <1>1, <1>2, <2>3, <2>5, <2>6, BalanceKept DEF SizeInv
  <1> QED BY <1>3, <1>4

\* disk_cache_remove.
LEMMA SizeRemoves ==
  ASSUME Inv, SizeInv, NEW a \in Apps, RemoveStep(a) \/ \E k \in Keys : RemoveStat(a, k)
  PROVE  SizeInv'
  <1> SUFFICES ASSUME Exact' PROVE SizeInv'
    BY DEF SizeInv
  <1>0. /\ TypeOK /\ rem \in [Apps -> Removals] /\ rem[a] \in Removals
        /\ UNCHANGED <<put, crossed>> /\ \A b \in Apps \ {a} : rem'[b] = rem[b]
    BY DEF Inv, TypeOK, RemoveStep, RemoveUnlink, RemoveSubtract, RemoveStat, hist
  <1>1. Exact /\ Balanced /\ (\A q \in Procs : CountOK(q)) /\ \A b \in Apps : RemovalOK(b)
    <2>1. skewed => skewed'
      BY DEF RemoveStep, RemoveUnlink, RemoveSubtract, RemoveStat, UnlinkEntry, hist
    <2> QED BY <1>0, <2>1 DEF SizeInv, Exact
  <1>2. Adding' = Adding /\ Subtracting' = Subtracting
    BY <1>0 DEF Adding, Subtracting
  <1>3. \A b \in Apps \ {a} : RemovalOK(b)'
    BY <1>0, <1>1 DEF RemovalOK
  <1>4. CASE RemoveUnlink(a)
    <2> DEFINE k == rem[a].victim.key
    <2>1. /\ rem[a].pc = "unlink" /\ rem'[a].pc = "subtract" /\ rem'[a].victim = rem[a].victim
          /\ UNCHANGED size
      BY <1>0, <1>4 DEF RemoveUnlink, Removals
    <2>2. k \in Keys /\ UnlinkEntry(k, Procs)
      BY <1>1, <1>4, <2>1 DEF RemoveUnlink, RemovalOK
    <2>3. /\ k \in Entries /\ Entries' = Entries \ {k}
          /\ \A q \in Procs : CountOK(q)'
      BY <1>0, <1>1, <2>2, EntryGone
    <2>4. Removing' = Removing \cup {a} /\ a \notin Removing
      BY <1>0, <2>1 DEF Removing
    <2>5. Balance' = Balance
      <3>1. Cardinality(Entries') = Cardinality(Entries) - 1
        BY <2>3, CountRemove, CountsFinite
      <3>2. Cardinality(Removing') = Cardinality(Removing) + 1
        BY <2>4, CountAdd, CountsFinite
      <3> QED BY <1>2, <3>1, <3>2, CountsFinite DEF Balance
    <2>6. RemovalOK(a)'
      BY <1>1, <2>1 DEF RemovalOK
    <2> QED BY <1>1, <1>3, <2>1, <2>3, <2>5, <2>6, BalanceKept DEF SizeInv
  <1>5. CASE RemoveSubtract(a)
    <2>1. /\ rem[a].pc = "subtract" /\ rem'[a].pc = "idle" /\ rem[a].victim.size = Pieces
          /\ UNCHANGED final
      BY <1>0, <1>1, <1>5 DEF RemoveSubtract, Removals, RemovalOK, IdleRem, names
    <2>2. Removing' = Removing \ {a} /\ a \in Removing /\ Entries' = Entries
      BY <1>0, <2>1 DEF Removing, Entries
    <2>3. Balance' = Balance - 1
      BY <1>2, <2>2, CountRemove, CountsFinite DEF Balance
    <2>4. Balanced'
      BY <1>0, <1>1, <1>5, <2>1, <2>3, BalanceSubtract DEF RemoveSubtract
    <2>5. RemovalOK(a)' /\ \A q \in Procs : CountOK(q)'
      BY <1>0, <1>1, <2>1 DEF RemovalOK, CountOK
    <2> QED BY <1>3, <2>4, <2>5 DEF SizeInv
  <1>6. CASE \E k \in Keys : RemoveStat(a, k)
    <2>1. PICK k \in Keys : RemoveStat(a, k)
      BY <1>6
    <2>2. /\ rem[a].pc = "idle" /\ rem'[a] = [pc |-> "unlink", victim |-> StatOf(k)]
          /\ final[k] # None /\ UNCHANGED <<final, size>>
      BY <1>0, <2>1 DEF RemoveStat, names
    <2>3. Removing' = Removing /\ Entries' = Entries
      BY <1>0, <2>2 DEF Removing, Entries
    <2>4. Balance' = Balance
      BY <1>2, <2>3 DEF Balance
    <2>5. RemovalOK(a)' /\ \A q \in Procs : CountOK(q)'
      <3>1. len[final[k]] = Pieces
        BY <1>1, <2>2 DEF Inv, FinalComplete, Exact
      <3> QED BY <1>0, <1>1, <2>2, <3>1 DEF RemovalOK, CountOK, StatOf
    <2> QED BY <1>1, <1>3, <2>2, <2>4, <2>5, BalanceKept DEF SizeInv
  <1> QED BY <1>4, <1>5, <1>6 DEF RemoveStep

\* Every step, of anybody.
LEMMA SizeStep == Inv /\ SizeInv /\ [Next]_vars => SizeInv'
  <1> SUFFICES ASSUME Inv, SizeInv, [Next]_vars PROVE SizeInv'
    OBVIOUS
  <1>1. CASE UNCHANGED vars
    <2>1. UNCHANGED <<Exact, Balanced, Balance>>
      BY <1>1 DEF vars, names, hist, Exact, Balanced, Balance, Entries, Adding, Subtracting,
         Removing
    <2>2. /\ \A p \in Procs : CountOK(p) => CountOK(p)'
          /\ \A a \in Apps : RemovalOK(a) => RemovalOK(a)'
      BY <1>1 DEF vars, names, hist, CountOK, RemovalOK
    <2> QED BY <2>1, <2>2 DEF SizeInv
  <1>2. ASSUME NEW p \in Procs, PutStep(p) PROVE SizeInv'
    BY <1>2, SizeMoves, SizeChanges, SizeRename, SizeUnlinks DEF PutStep
  <1>3. ASSUME NEW p \in Procs, Crash(p) \/ \E k \in Keys : StartPut(p, k) PROVE SizeInv'
    BY <1>3, SizeMoves
  <1> QED BY <1>1, <1>2, <1>3, SizeRemoves DEF Next

\* When nobody is at work nothing is owed, and the entries are complete.
LEMMA QuietExact == Inv /\ SizeInv => SizeExact
  <1> SUFFICES ASSUME Inv, SizeInv, Quiet, ~skewed, ~crossed
               PROVE  size = Cardinality(Stored) % SizeWrap
    BY DEF SizeExact
  <1>1. Adding = {} /\ Subtracting = {} /\ Removing = {}
    BY DEF Adding, AddingPCs, Subtracting, Removing, Quiet, At
  <1>2. Balance = Cardinality(Entries)
    BY <1>1, FS_EmptySet, CountsFinite DEF Balance
  <1>3. Stored = Entries \X (1 .. Pieces)
    BY Constants DEF Stored, Entries, Inv, FinalComplete
  <1>4. IsFiniteSet(1 .. Pieces) /\ Cardinality(1 .. Pieces) = Pieces
    BY Constants, FS_Interval
  <1>5. Cardinality(Stored) = Cardinality(Entries) * Pieces
    BY <1>3, <1>4, CountsFinite, FS_Product
  <1>6. PICK j \in Int : size = Pieces * Balance + SizeWrap * j
    BY DEF SizeInv, Exact, Balanced
  <1> DEFINE x == Cardinality(Stored)
  <1>7. x \in Int /\ size = x + SizeWrap * j
    BY <1>2, <1>5, <1>6, Constants, CountsFinite
  <1>8. size \in 0 .. SizeWrap - 1
    BY DEF Inv, TypeOK
  <1> HIDE DEF x
  <1>9. -j \in Int /\ SizeWrap * (-j) + size = x
    BY <1>7, <1>8, Constants
  <1>10. (SizeWrap * (-j) + size) % SizeWrap = size
    BY <1>8, <1>9, Constants, Remainder
  <1> QED BY <1>9, <1>10 DEF x

\* The size in the index, modulo its width, is that of the entries whenever nobody is at
\* work, for any number of processes, threads and keys, with failures and crashes that
\* do not fall between a change of the directory and of the size.
THEOREM CacheSizeExact == Spec => []SizeExact
  <1>1. Init => SizeInv
    <2> SUFFICES ASSUME Init PROVE SizeInv
      OBVIOUS
    <2>1. Adding = {} /\ Subtracting = {} /\ Removing = {} /\ Entries = {}
      BY DEF Init, Adding, AddingPCs, Subtracting, Removing, Entries, IdlePut, IdleRem
    <2>2. Balance = 0
      BY <2>1, FS_EmptySet DEF Balance
    <2>3. size = Pieces * Balance + SizeWrap * 0
      BY <2>2, Constants DEF Init
    <2>4. (\A p \in Procs : CountOK(p)) /\ \A a \in Apps : RemovalOK(a)
      BY DEF Init, IdlePut, IdleRem, CountOK, RemovalOK, WritingPCs
    <2> QED BY <2>3, <2>4 DEF SizeInv, Balanced
  <1> QED BY <1>1, CacheInvariant, SizeStep, QuietExact, PTL DEF Spec
=============================================================================
