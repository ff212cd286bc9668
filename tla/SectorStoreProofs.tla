------------------------- MODULE SectorStoreProofs -------------------------
(***************************************************************************)
(* Proofs about SectorStore for every card, cache and queue size: no write *)
(* is lost between write_sector() and the card, and the store implements   *)
(* the abstract disk.                                                      *)
(***************************************************************************)
EXTENDS SectorStore, FiniteSetTheorems, TLAPS

\* The running call is a write_sector() that has queued its data and not yet
\* put it into the cache.
StorePending == pc = "store" \/ (pc = "flush" /\ after = "drop_write")

\* The running call is a read_sector() on its way through a fetched batch.
Filling == pc \in {"fill", "drop_read"} \/ (pc = "flush" /\ after = "drop_read")

\* What the variables of a call hold at each of its steps.
CallSound ==
    /\ pc # "flush" => executed = 0
    /\ (pc \in {"queue", "store"} \/ (pc = "flush" /\ after = "queue")) => buffer \in Data
    /\ pc \in {"drop_write", "drop_read"} => queue = <<>>
    /\ Filling => arg + Len(readData) - 1 \in Sectors
    /\ (Filling /\ pc # "fill") => filled < Len(readData)
    /\ ~Filling => readData = <<>> /\ filled = 0

\* A queued write is in the cache unless its own call is about to put it there.
QueuedIsCached ==
    \A i \in DOMAIN queue :
        queue[i].sector \in Cached \/ (StorePending /\ queue[i].sector = arg)

\* The first sector of the batch is up to date as long as the call runs.
BatchHeadIsLatest == Filling => Len(readData) > 0 /\ readData[1] = latest[arg]

\* The partition table's sector, read past the cache, never has a write pending.
TableUnqueued ==
    /\ (pc = "queue" \/ (pc = "flush" /\ after = "queue")) => arg # 0
    /\ \A i \in DOMAIN queue : queue[i].sector # 0

\* The inductive invariant.
IInv ==
    /\ TypeOK
    /\ CallSound
    /\ QueueSound
    /\ NoLostWrite
    /\ QueuedIsCached
    /\ TableUnqueued
    /\ BatchHeadIsLatest

-----------------------------------------------------------------------------
\* Replacing the data of one job keeps the queue a queue with the same sectors.
LEMMA ReplaceJobData ==
    ASSUME NEW q \in Seq(Job), NEW k \in DOMAIN q, NEW d \in Data,
           NEW r, r = [q EXCEPT ![k].data = d]
    PROVE  /\ r \in Seq(Job)
           /\ Len(r) = Len(q)
           /\ DOMAIN r = DOMAIN q
           /\ \A i \in DOMAIN q : r[i].sector = q[i].sector
           /\ \A i \in DOMAIN q : r[i].data = IF i = k THEN d ELSE q[i].data
<1>1. /\ DOMAIN q = 1 .. Len(q)
      /\ Len(q) \in Nat
      /\ \A i \in 1 .. Len(q) : q[i] \in Job
  OBVIOUS
<1>2. [q[k] EXCEPT !.data = d] \in Job
  BY <1>1 DEF Job
<1>3. r = [i \in 1 .. Len(q) |-> IF i = k THEN [q[k] EXCEPT !.data = d] ELSE q[i]]
  BY <1>1
<1>4. r \in Seq(Job) /\ Len(r) = Len(q)
  <2>1. r \in [1 .. Len(q) -> Job]
    BY <1>1, <1>2, <1>3
  <2> QED
    BY <1>1, <2>1
<1> QED
  BY <1>1, <1>3, <1>4 DEF Job

\* What a function on 1 .. n is as a sequence.
LEMMA FunctionIsSeq ==
    ASSUME NEW S, NEW n \in Nat, NEW f \in [1 .. n -> S]
    PROVE  f \in Seq(S) /\ Len(f) = n
OBVIOUS

\* Appending a job for a sector that has none.
LEMMA AppendOneJob ==
    ASSUME NEW q \in Seq(Job), NEW j \in Job
    PROVE  /\ Append(q, j) \in Seq(Job)
           /\ Len(Append(q, j)) = Len(q) + 1
           /\ DOMAIN Append(q, j) = 1 .. Len(q) + 1
           /\ DOMAIN q = 1 .. Len(q)
           /\ \A i \in 1 .. Len(q) : Append(q, j)[i] = q[i]
           /\ Append(q, j)[Len(q) + 1] = j
OBVIOUS

LEMMA InitIInv == Init => IInv
BY SectorStoreAssumption
DEF Init, HostInit, IInv, TypeOK, CallSound, QueueSound, NoLostWrite, QueuedIsCached,
    TableUnqueued, BatchHeadIsLatest, Filling, StorePending, Pending, Cached, Sectors

-----------------------------------------------------------------------------
(***************************************************************************)
(* Every step keeps the invariant.                                         *)
(***************************************************************************)
LEMMA ExecuteJobIInv == IInv /\ ExecuteJob => IInv'
<1> SUFFICES ASSUME IInv, ExecuteJob PROVE IInv'
  OBVIOUS
<1> USE DEF IInv, ExecuteJob
<1>1. /\ queue[executed + 1] \in Job
      /\ queue[executed + 1].sector \in Sectors
      /\ queue[executed + 1].data = latest[queue[executed + 1].sector]
  <2>1. executed + 1 \in DOMAIN queue
    BY DEF TypeOK
  <2>2. queue[executed + 1] \in Job
    BY <2>1 DEF TypeOK
  <2> QED
    BY <2>1, <2>2 DEF NoLostWrite, Job
<1>2. TypeOK'
  BY <1>1 DEF TypeOK, Job
<1>3. CallSound'
  BY DEF CallSound, Filling, TypeOK
<1>4. QueueSound'
  BY DEF QueueSound
<1>5. NoLostWrite'
  <2>1. \A i \in DOMAIN queue' : queue'[i].data = latest'[queue'[i].sector]
    BY DEF NoLostWrite
  <2>2. ASSUME NEW s \in Sectors \ Pending' PROVE device'[s] = latest'[s]
    <3>1. CASE s = queue[executed + 1].sector
      BY <1>1, <3>1 DEF TypeOK
    <3>2. CASE s # queue[executed + 1].sector
      <4>1. s \notin Pending
        BY <2>2, <3>2 DEF Pending, TypeOK
      <4> QED
        BY <2>2, <3>2, <4>1, <1>1 DEF NoLostWrite, TypeOK
    <3> QED
      BY <3>1, <3>2
  <2> QED
    BY <2>1, <2>2 DEF NoLostWrite
<1>6. QueuedIsCached' /\ TableUnqueued' /\ BatchHeadIsLatest'
  BY DEF QueuedIsCached, TableUnqueued, BatchHeadIsLatest, StorePending, Filling, Cached
<1> QED
  BY <1>2, <1>3, <1>4, <1>5, <1>6

LEMMA FlushDoneIInv == IInv /\ FlushDone => IInv'
<1> SUFFICES ASSUME IInv, FlushDone PROVE IInv'
  OBVIOUS
<1> USE DEF IInv, FlushDone
<1>1. Pending = {}
  BY DEF Pending, TypeOK
<1>2. TypeOK' /\ CallSound'
  BY DEF TypeOK, CallSound, Filling
<1>3. QueueSound' /\ QueuedIsCached' /\ TableUnqueued'
  BY SectorStoreAssumption DEF QueueSound, QueuedIsCached, TableUnqueued
<1>4. NoLostWrite'
  BY <1>1 DEF NoLostWrite, Pending
<1>5. BatchHeadIsLatest'
  BY DEF BatchHeadIsLatest, Filling, TypeOK
<1> QED
  BY <1>2, <1>3, <1>4, <1>5

LEMMA DropCacheIInv == IInv /\ DropCache => IInv'
<1> SUFFICES ASSUME IInv, DropCache PROVE IInv'
  OBVIOUS
<1> USE DEF IInv, DropCache
<1>1. queue = <<>> /\ executed = 0
  BY DEF CallSound
<1>2. TypeOK' /\ CallSound'
  BY DEF TypeOK, CallSound, Filling
<1>3. QueueSound' /\ QueuedIsCached' /\ TableUnqueued'
  BY <1>1 DEF QueueSound, QueuedIsCached, TableUnqueued
<1>4. NoLostWrite' /\ BatchHeadIsLatest'
  BY DEF NoLostWrite, Pending, BatchHeadIsLatest, Filling
<1> QED
  BY <1>2, <1>3, <1>4

LEMMA SyncIInv == IInv /\ Sync => IInv'
BY DEF IInv, Sync, FlushThen, TypeOK, CallSound, QueueSound, NoLostWrite, Pending, Cached,
       QueuedIsCached, TableUnqueued, BatchHeadIsLatest, StorePending, Filling

LEMMA WriteSectorIInv ==
    ASSUME NEW s \in Sectors \ {0}, NEW d \in Data
    PROVE  IInv /\ WriteSector(s, d) => IInv'
BY DEF IInv, WriteSector, TypeOK, CallSound, QueueSound, NoLostWrite, Pending, Cached,
       QueuedIsCached, TableUnqueued, BatchHeadIsLatest, StorePending, Filling

\* A sector whose job the card has not carried out, or has none at all.
LEMMA PendingOutsideFlush ==
    ASSUME IInv, pc # "flush"
    PROVE  executed = 0 /\ Pending = {queue[i].sector : i \in DOMAIN queue}
BY DEF IInv, CallSound, TypeOK, Pending

LEMMA MergeJobIInv == IInv /\ MergeJob => IInv'
<1> SUFFICES ASSUME IInv, MergeJob PROVE IInv'
  OBVIOUS
<1>1. PICK k \in DOMAIN queue :
          queue[k].sector = arg /\ queue' = [queue EXCEPT ![k].data = buffer]
  BY DEF MergeJob
<1>2. buffer \in Data /\ queue \in Seq(Job) /\ executed = 0 /\ executed' = 0
  BY DEF IInv, MergeJob, CallSound, TypeOK
<1>3. /\ queue' \in Seq(Job)
      /\ Len(queue') = Len(queue)
      /\ DOMAIN queue' = DOMAIN queue
      /\ \A i \in DOMAIN queue : queue'[i].sector = queue[i].sector
      /\ \A i \in DOMAIN queue : queue'[i].data = IF i = k THEN buffer ELSE queue[i].data
  BY <1>1, <1>2, ReplaceJobData, SMTT(30)
<1> USE DEF IInv, MergeJob, Accept
<1>4. TypeOK'
  <2>1. latest' \in [Sectors -> Data]
    BY <1>2 DEF TypeOK
  <2>2. executed' \in 0 .. Len(queue')
    BY <1>2, <1>3
  <2>3. UNCHANGED <<device, cache, after, arg, buffer, readData, filled>> /\ pc' = "store"
    OBVIOUS
  <2> QED
    BY <1>3, <2>1, <2>2, <2>3 DEF TypeOK
<1>5. CallSound'
  BY <1>2 DEF CallSound, Filling
<1>6. QueueSound' /\ TableUnqueued'
  BY <1>3 DEF QueueSound, TableUnqueued
<1>7. NoLostWrite'
  <2>1. ASSUME NEW i \in DOMAIN queue'
        PROVE  queue'[i].data = latest'[queue'[i].sector]
    <3>1. CASE i = k
      BY <1>1, <1>3, <3>1 DEF TypeOK
    <3>2. CASE i # k
      <4>1. queue[i].sector # arg
        BY <1>1, <1>3, <3>2 DEF QueueSound
      <4> QED
        BY <1>3, <3>2, <4>1 DEF NoLostWrite, TypeOK
    <3> QED
      BY <3>1, <3>2
  <2>2. Pending' = Pending
    BY <1>2, <1>3 DEF Pending, TypeOK
  <2>3. arg \in Pending
    BY <1>1, <1>2, SMTT(30) DEF Pending, TypeOK
  <2>4. \A s \in Sectors \ Pending' : device'[s] = latest'[s]
    BY <2>2, <2>3 DEF NoLostWrite, TypeOK
  <2> QED
    BY <2>1, <2>4 DEF NoLostWrite
<1>8. QueuedIsCached'
  BY <1>3 DEF QueuedIsCached, StorePending, Cached
<1>9. BatchHeadIsLatest'
  BY DEF BatchHeadIsLatest, Filling
<1> QED
  BY <1>4, <1>5, <1>6, <1>7, <1>8, <1>9

LEMMA PurgeQueueIInv == IInv /\ PurgeQueue => IInv'
BY DEF IInv, PurgeQueue, FlushThen, TypeOK, CallSound, QueueSound, NoLostWrite, Pending, Cached,
       QueuedIsCached, TableUnqueued, BatchHeadIsLatest, StorePending, Filling

LEMMA AppendJobIInv == IInv /\ AppendJob => IInv'
<1> SUFFICES ASSUME IInv, AppendJob PROVE IInv'
  OBVIOUS
<1> USE DEF IInv, AppendJob, Accept
<1> DEFINE job == [sector |-> arg, data |-> buffer]
<1>1. job \in Job /\ queue \in Seq(Job) /\ executed = 0 /\ executed' = 0
  BY DEF CallSound, TypeOK, Job
<1>2. /\ queue' \in Seq(Job)
      /\ Len(queue') = Len(queue) + 1
      /\ DOMAIN queue' = 1 .. Len(queue) + 1
      /\ DOMAIN queue = 1 .. Len(queue)
      /\ \A i \in 1 .. Len(queue) : queue'[i] = queue[i]
      /\ queue'[Len(queue) + 1] = job
      /\ Len(queue) \in Nat
  BY <1>1, AppendOneJob
<1>3. TypeOK'
  <2>1. latest' \in [Sectors -> Data]
    BY <1>1 DEF TypeOK, Job
  <2>2. executed' \in 0 .. Len(queue')
    BY <1>1, <1>2
  <2>3. UNCHANGED <<device, cache, after, arg, buffer, readData, filled>> /\ pc' = "store"
    OBVIOUS
  <2> QED
    BY <1>2, <2>1, <2>2, <2>3 DEF TypeOK
<1>4. CallSound'
  BY <1>1 DEF CallSound, Filling
<1>5. QueueSound' /\ TableUnqueued'
  BY <1>2, SectorStoreAssumption DEF QueueSound, TableUnqueued
<1>6. NoLostWrite'
  <2>1. ASSUME NEW i \in DOMAIN queue'
        PROVE  queue'[i].data = latest'[queue'[i].sector]
    <3>1. CASE i = Len(queue) + 1
      BY <1>2, <3>1 DEF TypeOK
    <3>2. CASE i \in 1 .. Len(queue)
      <4>1. queue[i].sector # arg /\ queue[i].data = latest[queue[i].sector]
        BY <1>2, <3>2 DEF NoLostWrite
      <4> QED
        BY <1>2, <3>2, <4>1 DEF TypeOK
    <3> QED
      BY <1>2, <3>1, <3>2
  <2>2. Pending' = Pending \cup {arg}
    <3>1. Pending' = {queue'[i].sector : i \in 1 .. Len(queue) + 1}
      BY <1>1, <1>2 DEF Pending
    <3>2. Pending = {queue[i].sector : i \in 1 .. Len(queue)}
      BY <1>1 DEF Pending
    <3> QED
      BY <1>2, <3>1, <3>2
  <2>3. \A s \in Sectors \ Pending' : device'[s] = latest'[s]
    BY <2>2 DEF NoLostWrite, TypeOK
  <2> QED
    BY <2>1, <2>3 DEF NoLostWrite
<1>7. QueuedIsCached'
  BY <1>2 DEF QueuedIsCached, StorePending, Cached
<1>8. BatchHeadIsLatest'
  BY DEF BatchHeadIsLatest, Filling
<1> QED
  BY <1>3, <1>4, <1>5, <1>6, <1>7, <1>8

LEMMA StoreWrittenIInv == IInv /\ StoreWritten => IInv'
<1> SUFFICES ASSUME IInv, StoreWritten PROVE IInv'
  OBVIOUS
<1> USE DEF IInv, StoreWritten, FlushThen
<1>1. TypeOK' /\ CallSound'
  BY DEF TypeOK, CallSound, Filling
<1>2. QueueSound' /\ NoLostWrite' /\ TableUnqueued'
  BY DEF QueueSound, NoLostWrite, Pending, TableUnqueued
<1>3. QueuedIsCached'
  <2>1. Cached \subseteq Cached'
    BY SectorStoreAssumption DEF Cached, CallSound, TypeOK
  <2>2. cache' # cache => arg \in Cached'
    BY SectorStoreAssumption DEF Cached, CallSound, TypeOK
  <2>3. CASE pc' = "idle"
    <3>1. arg \in Cached'
      BY <2>3, SectorStoreAssumption DEF Cached, CallSound, TypeOK
    <3> QED
      BY <2>1, <2>3, <3>1 DEF QueuedIsCached, StorePending
  <2>4. CASE pc' = "flush" /\ after' = "drop_write"
    BY <2>1, <2>4 DEF QueuedIsCached, StorePending
  <2> QED
    BY <2>3, <2>4
<1>4. BatchHeadIsLatest'
  BY DEF BatchHeadIsLatest, Filling
<1> QED
  BY <1>1, <1>2, <1>3, <1>4

LEMMA ReadMissIInv ==
    ASSUME NEW s \in Sectors, NEW useCache \in BOOLEAN, NEW batch \in BatchSizes,
           IInv, ReadMiss(s, useCache, batch), s \notin Pending
    PROVE  IInv'
<1> USE DEF IInv, ReadMiss
<1>1. /\ batch \in Nat \ {0}
      /\ s \in Nat
      /\ \A n \in 1 .. batch : s + n - 1 \in Sectors
  BY SectorStoreAssumption DEF Sectors
<1>2. readData' \in Seq(Data) /\ Len(readData') = batch /\ readData'[1] = device[s]
  <2>1. readData' \in [1 .. batch -> Data]
    BY <1>1 DEF TypeOK
  <2>2. readData'[1] = device[s + 1 - 1]
    BY <1>1
  <2>3. s + 1 - 1 = s
    BY <1>1
  <2>4. readData' \in Seq(Data) /\ Len(readData') = batch
    <3> HIDE DEF ReadMiss
    <3> QED
      BY <1>1, <2>1, FunctionIsSeq
  <2> QED
    BY <2>2, <2>3, <2>4
<1>3. TypeOK'
  <2>1. filled' \in 0 .. Len(readData')
    BY <1>1, <1>2
  <2>2. arg' \in Sectors /\ pc' = "fill"
    OBVIOUS
  <2>3. UNCHANGED <<device, cache, queue, executed, after, buffer, latest>>
    OBVIOUS
  <2> QED
    BY <1>2, <2>1, <2>2, <2>3 DEF TypeOK
<1>4. CallSound'
  <2>1. arg' + Len(readData') - 1 \in Sectors
    BY <1>2
  <2>2. pc' = "fill" /\ executed' = executed /\ executed = 0
    BY DEF CallSound
  <2> QED
    BY <2>1, <2>2 DEF CallSound, Filling
<1>5. QueueSound' /\ NoLostWrite' /\ QueuedIsCached' /\ TableUnqueued'
  BY DEF QueueSound, NoLostWrite, Pending, QueuedIsCached, StorePending, Cached, TableUnqueued
<1>6. BatchHeadIsLatest'
  BY <1>1, <1>2 DEF BatchHeadIsLatest, NoLostWrite
<1> QED
  BY <1>3, <1>4, <1>5, <1>6

LEMMA FillCacheIInv == IInv /\ FillCache => IInv'
<1> SUFFICES ASSUME IInv, FillCache PROVE IInv'
  OBVIOUS
<1> USE DEF IInv, FillCache, FlushThen
<1>1. arg + filled \in Sectors /\ readData[filled + 1] \in Data
  BY SectorStoreAssumption DEF TypeOK, CallSound, Filling, Sectors
<1>2. TypeOK' /\ CallSound'
  BY <1>1 DEF TypeOK, CallSound, Filling
<1>3. QueueSound' /\ NoLostWrite' /\ TableUnqueued'
  BY DEF QueueSound, NoLostWrite, Pending, TableUnqueued
<1>4. QueuedIsCached'
  <2>1. Cached \subseteq Cached'
    BY <1>1, SectorStoreAssumption DEF Cached, TypeOK
  <2> QED
    BY <2>1 DEF QueuedIsCached, StorePending
<1>5. BatchHeadIsLatest'
  BY DEF BatchHeadIsLatest, Filling
<1> QED
  BY <1>2, <1>3, <1>4, <1>5

LEMMA ReadReturnIInv == IInv /\ ReadReturn => IInv'
BY DEF IInv, ReadReturn, TypeOK, CallSound, QueueSound, NoLostWrite, Pending, Cached,
       QueuedIsCached, TableUnqueued, BatchHeadIsLatest, StorePending, Filling

LEMMA CrashIInv == IInv /\ Crash => IInv'
BY SectorStoreAssumption
DEF IInv, Crash, TypeOK, CallSound, QueueSound, NoLostWrite, Pending, Cached, Sectors,
    QueuedIsCached, TableUnqueued, BatchHeadIsLatest, StorePending, Filling

LEMMA NextIInv == IInv /\ [Next]_vars => IInv'
<1> SUFFICES ASSUME IInv, [Next]_vars PROVE IInv'
  OBVIOUS
<1>1. CASE HostStep
  BY <1>1, ExecuteJobIInv, FlushDoneIInv, DropCacheIInv, MergeJobIInv, PurgeQueueIInv,
     AppendJobIInv, StoreWrittenIInv, FillCacheIInv, ReadReturnIInv
  DEF HostStep
<1>2. CASE Sync
  BY <1>2, SyncIInv
<1>3. CASE \E s \in Sectors \ {0}, d \in Data : WriteSector(s, d)
  BY <1>3, WriteSectorIInv
<1>4. CASE \E s \in Sectors, batch \in BatchSizes : ReadMiss(s, TRUE, batch)
  <2>1. PICK s \in Sectors, batch \in BatchSizes : ReadMiss(s, TRUE, batch)
    BY <1>4
  <2>2. pc = "idle" /\ s \notin Cached
    BY <2>1 DEF ReadMiss
  <2>3. s \notin Pending
    BY <2>2, PendingOutsideFlush DEF IInv, QueuedIsCached, StorePending
  <2> QED
    BY <2>1, <2>3, ReadMissIInv
<1>5. CASE \E batch \in BatchSizes : ReadMiss(0, FALSE, batch)
  <2>1. PICK batch \in BatchSizes : ReadMiss(0, FALSE, batch)
    BY <1>5
  <2>2. 0 \in Sectors
    BY SectorStoreAssumption DEF Sectors
  <2>3. 0 \notin Pending
    BY <2>1, PendingOutsideFlush DEF IInv, TableUnqueued, ReadMiss
  <2> QED
    BY <2>1, <2>2, <2>3, ReadMissIInv
<1>6. CASE Crash
  BY <1>6, CrashIInv
<1>7. CASE UNCHANGED vars
  BY <1>7 DEF IInv, vars, hostVars, TypeOK, CallSound, QueueSound, NoLostWrite, Pending,
              Cached, QueuedIsCached, TableUnqueued, BatchHeadIsLatest, StorePending, Filling
<1> QED
  BY <1>1, <1>2, <1>3, <1>4, <1>5, <1>6, <1>7 DEF Next

LEMMA Invariance == Spec => []IInv
BY InitIInv, NextIInv, PTL DEF Spec

-----------------------------------------------------------------------------
\* The variables keep their types (read_sector(), write_sector(),
\* execute_write_queue()).
THEOREM TypeCorrect == Spec => []TypeOK
<1>1. IInv => TypeOK
  BY DEF IInv
<1> QED
  BY <1>1, Invariance, PTL

\* No write_sector() is lost on its way to the card: merging, purging a full
\* queue and emptying a full cache lose nothing.
THEOREM WritesReachTheCard == Spec => []NoLostWrite
<1>1. IInv => NoLostWrite
  BY DEF IInv
<1> QED
  BY <1>1, Invariance, PTL

\* queue_write_sector() never overruns its buffers and queues no sector twice, so
\* the order of the jobs cannot matter.
THEOREM QueueFits == Spec => []QueueSound
<1>1. IInv => QueueSound
  BY DEF IInv
<1> QED
  BY <1>1, Invariance, PTL

\* What m65ftp_sync() and m65ftp_fsync() rely on: an empty queue means that
\* the card holds every write.
THEOREM SyncDurable == Spec => []SyncedIsDurable
<1>1. IInv => SyncedIsDurable
  <2> SUFFICES ASSUME IInv, pc = "idle", queue = <<>> PROVE device = latest
    BY DEF SyncedIsDurable
  <2>1. Pending = {}
    BY DEF Pending, IInv, TypeOK
  <2>2. \A s \in Sectors : device[s] = latest[s]
    BY <2>1 DEF IInv, NoLostWrite
  <2> QED
    BY <2>2 DEF IInv, TypeOK
<1> QED
  BY <1>1, Invariance, PTL

\* Between two calls every sector with a write in the queue is in the cache, however
\* often a full cache was emptied: read_sector() never overtakes a write.
THEOREM PendingStaysCached == Spec => []PendingIsCached
<1>1. IInv => PendingIsCached
  BY PendingOutsideFlush DEF IInv, QueuedIsCached, StorePending, PendingIsCached
<1> QED
  BY <1>1, Invariance, PTL

\* What read_sector() returns after going to the card is the newest data.
THEOREM CardReadsAreFresh == Spec => []MissReturnsLatest
<1>1. IInv => MissReturnsLatest
  BY DEF IInv, BatchHeadIsLatest, Filling, MissReturnsLatest
<1> QED
  BY <1>1, Invariance, PTL

-----------------------------------------------------------------------------
\* The cache is a finite map of at most SectorCacheSize sectors.
CacheFits == IsFiniteSet(Cached) /\ Cardinality(Cached) <= SectorCacheSize

\* One more entry fits if CanCache() says so.
LEMMA CacheOneMore ==
    ASSUME CacheFits, NEW s \in Sectors, CanCache(s), Cached' \subseteq Cached \cup {s}
    PROVE  CacheFits'
<1>1. /\ IsFiniteSet(Cached \cup {s})
      /\ Cardinality(Cached \cup {s}) =
            IF s \in Cached THEN Cardinality(Cached) ELSE Cardinality(Cached) + 1
  BY FS_AddElement DEF CacheFits
<1>2. Cardinality(Cached) \in Nat
  BY FS_CardinalityType DEF CacheFits
<1>3. Cardinality(Cached \cup {s}) <= SectorCacheSize
  BY <1>1, <1>2, SectorStoreAssumption DEF CacheFits, CanCache
<1>4. /\ IsFiniteSet(Cached')
      /\ Cardinality(Cached') <= Cardinality(Cached \cup {s})
  BY <1>1, FS_Subset
<1>5. Cardinality(Cached') \in Nat /\ Cardinality(Cached \cup {s}) \in Nat
  BY <1>1, <1>4, FS_CardinalityType
<1> QED
  BY <1>3, <1>4, <1>5, SectorStoreAssumption DEF CacheFits

\* An empty cache fits.
LEMMA CacheEmptied ==
    ASSUME Cached' = {}
    PROVE  CacheFits'
BY FS_EmptySet, SectorStoreAssumption DEF CacheFits

\* Every step of the store keeps the cache within its bound.
LEMMA NextCacheFits == IInv /\ CacheFits /\ [Next]_vars => CacheFits'
<1> SUFFICES ASSUME IInv, CacheFits, [Next]_vars PROVE CacheFits'
  OBVIOUS
<1>1. CASE StoreWritten
  <2>1. CASE CanCache(arg) /\ cache' = [cache EXCEPT ![arg] = buffer]
    <3>1. arg \in Sectors /\ Cached' \subseteq Cached \cup {arg}
      BY <2>1 DEF IInv, TypeOK, Cached
    <3> QED
      BY <2>1, <3>1, CacheOneMore
  <2>2. CASE UNCHANGED cache
    BY <2>2 DEF CacheFits, Cached
  <2> QED
    BY <1>1, <2>1, <2>2 DEF StoreWritten
<1>2. CASE FillCache
  <2> DEFINE s == arg + filled
  <2>1. CASE CanCache(s) /\ cache' = [cache EXCEPT ![s] = readData[filled + 1]]
    <3>1. s \in Sectors
      BY <1>2, SectorStoreAssumption
      DEF IInv, TypeOK, CallSound, Filling, FillCache, Sectors
    <3>2. Cached' \subseteq Cached \cup {s}
      BY <2>1 DEF IInv, TypeOK, Cached
    <3> QED
      BY <2>1, <3>1, <3>2, CacheOneMore
  <2>2. CASE UNCHANGED cache
    BY <2>2 DEF CacheFits, Cached
  <2> QED
    BY <1>2, <2>1, <2>2 DEF FillCache
<1>3. CASE DropCache \/ Crash
  <2>1. Cached' = {}
    BY <1>3 DEF DropCache, Crash, Cached
  <2> QED
    BY <2>1, CacheEmptied
<1>4. CASE UNCHANGED cache
  BY <1>4 DEF CacheFits, Cached
<1>5. \/ StoreWritten \/ FillCache \/ DropCache \/ Crash \/ UNCHANGED cache
  BY DEF Next, HostStep, Sync, WriteSector, ReadMiss, ExecuteJob, FlushDone, MergeJob,
         PurgeQueue, AppendJob, ReadReturn, vars, hostVars
<1> QED
  BY <1>1, <1>2, <1>3, <1>4, <1>5

\* sector_cache[] is never indexed past its end, in write_sector() or in the fill
\* loop of read_sector().
THEOREM CacheIndexInBounds == Spec => []CacheBounded
<1>1. Init => CacheFits
  <2>1. Init => Cached = {}
    BY DEF Init, HostInit, Cached
  <2> QED
    BY <2>1, FS_EmptySet, SectorStoreAssumption DEF CacheFits
<1>2. CacheFits => CacheBounded
  BY DEF CacheFits, CacheBounded
<1> QED
  BY <1>1, <1>2, Invariance, NextCacheFits, PTL DEF Spec

-----------------------------------------------------------------------------
\* Every step of the store is a step of the abstract disk or leaves it alone.
LEMMA StepRefines == IInv /\ [Next]_vars => [AbstractDisk!Next]_AbstractDisk!vars
<1> SUFFICES ASSUME IInv, [Next]_vars PROVE [AbstractDisk!Next]_AbstractDisk!vars
  OBVIOUS
<1> USE DEF AbstractDisk!Next, AbstractDisk!vars
<1>1. CASE ExecuteJob
  <2>1. executed + 1 \in DOMAIN queue
    BY <1>1 DEF ExecuteJob, IInv, TypeOK
  <2>2. queue[executed + 1].sector \in Sectors
    <3>1. queue[executed + 1] \in Job
      BY <2>1 DEF IInv, TypeOK
    <3> QED
      BY <3>1 DEF Job
  <2>3. queue[executed + 1].data = latest[queue[executed + 1].sector]
    BY <2>1 DEF IInv, NoLostWrite
  <2>4. AbstractDisk!Persist(queue[executed + 1].sector)
    BY <1>1, <2>3 DEF ExecuteJob, AbstractDisk!Persist
  <2> QED
    BY <2>2, <2>4
<1>2. CASE MergeJob \/ AppendJob
  <2>1. arg \in Sectors /\ buffer \in Data
    BY <1>2 DEF MergeJob, AppendJob, IInv, TypeOK, CallSound
  <2>2. AbstractDisk!Write(arg, buffer)
    BY <1>2 DEF MergeJob, AppendJob, Accept, AbstractDisk!Write
  <2> QED
    BY <2>1, <2>2
<1>3. CASE Crash
  BY <1>3 DEF Crash, AbstractDisk!Crash
<1>4. CASE FlushDone \/ DropCache \/ PurgeQueue \/ StoreWritten \/ FillCache \/ ReadReturn \/ Sync
  BY <1>4 DEF FlushDone, DropCache, PurgeQueue, StoreWritten, FillCache, ReadReturn, Sync
<1>5. CASE \E s \in Sectors \ {0}, d \in Data : WriteSector(s, d)
  BY <1>5 DEF WriteSector
<1>6. ASSUME NEW s \in Sectors, NEW useCache \in BOOLEAN, NEW batch \in BatchSizes,
             ReadMiss(s, useCache, batch)
      PROVE  UNCHANGED <<latest, device>>
  BY <1>6 DEF ReadMiss
<1>7. 0 \in Sectors
  BY SectorStoreAssumption DEF Sectors
<1>8. CASE UNCHANGED vars
  BY <1>8 DEF vars
<1> QED
  BY <1>1, <1>2, <1>3, <1>4, <1>5, <1>6, <1>7, <1>8 DEF Next, HostStep

\* The sector layer keeps the promise of the abstract disk, crashes included:
\* only accepted data ever reaches the card.
THEOREM Refinement == Spec => ImplementsDisk
<1>1. Init => AbstractDisk!Init
  BY DEF Init, AbstractDisk!Init
<1> QED
  BY <1>1, StepRefines, Invariance, PTL DEF Spec, ImplementsDisk, AbstractDisk!Spec
=============================================================================
