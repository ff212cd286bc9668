---------------------------- MODULE SectorStore ----------------------------
(***************************************************************************)
(* The host side sector store of mega65_ftp.c: read_sector() and           *)
(* write_sector() over a sector cache, a queue of pending sector writes    *)
(* and the SD card at the other end of the link.                           *)
(*                                                                         *)
(* One call runs at a time (m65ftp_lib.c holds s_mutex around every call), *)
(* so the state of the running call is a handful of variables.  A call is  *)
(* cut into steps where the code loops or calls execute_write_queue(): the *)
(* host process can die between any two of them (Crash).  Every job sent   *)
(* to the card is carried out; a link that loses jobs is not modelled      *)
(* here.                                                                   *)
(***************************************************************************)
EXTENDS Naturals, Sequences, FiniteSets

CONSTANTS
    LastSector,       \* sectors are numbered 0 .. LastSector
    Data,             \* sector contents
    NotCached,        \* marks a sector without a cache entry
    SectorCacheSize,  \* SECTOR_CACHE_SIZE
    QueueMax,         \* sectors that fill write_data_buffer to 32768 bytes
    BatchSizes        \* batch_read_size: 16, or the caller's readAhead

Sectors == 0 .. LastSector

ASSUME SectorStoreAssumption ==
    /\ LastSector \in Nat
    /\ NotCached \notin Data
    /\ SectorCacheSize \in Nat \ {0}
    /\ QueueMax \in Nat \ {0}
    /\ BatchSizes \subseteq Nat \ {0}

VARIABLES
    device,    \* the SD card
    cache,     \* sector_cache and sector_cache_sectors, as one map
    queue,     \* write_sector_numbers and write_data_buffer: pending writes
    executed,  \* how many jobs of queue the card has carried out
    pc,        \* where the running call is; "idle" when none runs
    after,     \* where the call goes on once execute_write_queue() returns
    arg,       \* sector_number of the running call
    buffer,    \* the data a running write_sector() was given
    readData,  \* queue_read_data: the batch a running read_sector() fetched
    filled,    \* n: how many sectors of readData went through the cache
    latest     \* history: what write_sector() last put in for each sector

hostVars == <<cache, queue, executed, pc, after, arg, buffer, readData, filled>>
vars == <<device, latest, hostVars>>

Job == [sector : Sectors, data : Data]

Cached == {s \in Sectors : cache[s] # NotCached}

\* Sectors with a write the card has not carried out yet.
Pending == {queue[i].sector : i \in executed + 1 .. Len(queue)}

-----------------------------------------------------------------------------
HostInit ==
    /\ cache = [s \in Sectors |-> NotCached]
    /\ queue = <<>>
    /\ executed = 0
    /\ pc = "idle"
    /\ after = "idle"
    /\ arg = 0
    /\ buffer = NotCached
    /\ readData = <<>>
    /\ filled = 0

Init ==
    /\ device \in [Sectors -> Data]
    /\ latest = device
    /\ HostInit

\* execute_write_queue() is called and comes back to where.
FlushThen(where) ==
    /\ pc' = "flush"
    /\ after' = where

\* The loop over write_sector_numbers in queue_execute(): one job reaches the
\* card.
ExecuteJob ==
    /\ pc = "flush"
    /\ executed < Len(queue)
    /\ device' = [device EXCEPT ![queue[executed + 1].sector] = queue[executed + 1].data]
    /\ executed' = executed + 1
    /\ UNCHANGED <<cache, queue, pc, after, arg, buffer, readData, filled, latest>>

\* Faulty: the queue is emptied, the job counter is not.
FlushDoneKeepsCount ==
    /\ pc = "flush"
    /\ executed = Len(queue)
    /\ queue' = <<>>
    /\ pc' = after
    /\ after' = "idle"
    /\ UNCHANGED <<device, cache, executed, arg, buffer, readData, filled, latest>>

\* Faulty: the last job of the queue is left out.
FlushDoneEarly ==
    /\ pc = "flush"
    /\ executed + 1 >= Len(queue)
    /\ queue' = <<>>
    /\ executed' = 0
    /\ pc' = after
    /\ after' = "idle"
    /\ UNCHANGED <<device, cache, arg, buffer, readData, filled, latest>>

\* Faulty: write_sector_count is not reset.
FlushDoneKeepsQueue ==
    /\ pc = "flush"
    /\ executed = Len(queue)
    /\ executed' = 0
    /\ pc' = after
    /\ after' = "idle"
    /\ UNCHANGED <<device, cache, queue, arg, buffer, readData, filled, latest>>

\* All jobs are done: write_buffer_offset = write_sector_count = 0, and the
\* caller goes on.
FlushDone ==
    /\ pc = "flush"
    /\ executed = Len(queue)
    /\ queue' = <<>>
    /\ executed' = 0
    /\ pc' = after
    /\ after' = "idle"
    /\ UNCHANGED <<device, cache, arg, buffer, readData, filled, latest>>

\* sector_cache_count = 0, in a caller that found the cache full and has
\* executed the queue.  The sector at hand is not cached either.
DropCache ==
    /\ cache' = [s \in Sectors |-> NotCached]
    /\ \/ /\ pc = "drop_write"
          /\ pc' = "idle"
          /\ UNCHANGED filled
       \/ /\ pc = "drop_read"
          /\ pc' = "fill"
          /\ filled' = filled + 1
    /\ UNCHANGED <<device, queue, executed, after, arg, buffer, readData, latest>>

\* execute_write_queue(), called by the FAT layer and by m65ftp_sync().
Sync ==
    /\ pc = "idle"
    /\ queue # <<>>
    /\ FlushThen("idle")
    /\ UNCHANGED <<device, cache, queue, executed, arg, buffer, readData, filled, latest>>

-----------------------------------------------------------------------------
\* write_sector(): the call begins.
WriteSector(s, d) ==
    /\ pc = "idle"
    /\ pc' = "queue"
    /\ arg' = s
    /\ buffer' = d
    /\ UNCHANGED <<device, cache, queue, executed, after, readData, filled, latest>>

Accept == latest' = [latest EXCEPT ![arg] = buffer]

\* Faulty: a sector that is already queued keeps its first data.
MergeJobKeepsOld ==
    /\ pc = "queue"
    /\ \E i \in DOMAIN queue : queue[i].sector = arg
    /\ Accept
    /\ pc' = "store"
    /\ UNCHANGED <<device, cache, queue, executed, after, arg, buffer, readData, filled>>

\* queue_write_sector(): the sector is in the queue, its data is replaced.
MergeJob ==
    /\ pc = "queue"
    /\ \E i \in DOMAIN queue :
          /\ queue[i].sector = arg
          /\ queue' = [queue EXCEPT ![i].data = buffer]
    /\ Accept
    /\ pc' = "store"
    /\ UNCHANGED <<device, cache, executed, after, arg, buffer, readData, filled>>

\* Faulty: a full queue is reset without being executed.
PurgeQueueUnexecuted ==
    /\ pc = "queue"
    /\ \A i \in DOMAIN queue : queue[i].sector # arg
    /\ Len(queue) >= QueueMax
    /\ queue' = <<>>
    /\ UNCHANGED <<device, cache, executed, pc, after, arg, buffer, readData, filled, latest>>

\* queue_write_sector(): 32 KiB are banked up, they go out first.
PurgeQueue ==
    /\ pc = "queue"
    /\ \A i \in DOMAIN queue : queue[i].sector # arg
    /\ Len(queue) >= QueueMax
    /\ FlushThen("queue")
    /\ UNCHANGED <<device, cache, queue, executed, arg, buffer, readData, filled, latest>>

\* Faulty: the queue is not searched for the sector first.
AppendJobAlways ==
    /\ pc = "queue"
    /\ Len(queue) < QueueMax
    /\ queue' = Append(queue, [sector |-> arg, data |-> buffer])
    /\ Accept
    /\ pc' = "store"
    /\ UNCHANGED <<device, cache, executed, after, arg, buffer, readData, filled>>

AppendJob ==
    /\ pc = "queue"
    /\ \A i \in DOMAIN queue : queue[i].sector # arg
    /\ Len(queue) < QueueMax
    /\ queue' = Append(queue, [sector |-> arg, data |-> buffer])
    /\ Accept
    /\ pc' = "store"
    /\ UNCHANGED <<device, cache, executed, after, arg, buffer, readData, filled>>

\* Faulty: one entry too many.
CanCacheOneMore(s) == s \in Cached \/ Cardinality(Cached) <= SectorCacheSize

\* There is an entry for s to update, or room for a new one.
CanCache(s) == s \in Cached \/ Cardinality(Cached) < SectorCacheSize

\* Faulty: a full cache is emptied while writes are still queued.
StoreWrittenUnflushed ==
    /\ pc = "store"
    /\ \/ /\ CanCache(arg)
          /\ cache' = [cache EXCEPT ![arg] = buffer]
          /\ pc' = "idle"
       \/ /\ ~CanCache(arg)
          /\ pc' = "drop_write"
          /\ UNCHANGED cache
    /\ UNCHANGED <<device, queue, executed, after, arg, buffer, readData, filled, latest>>

\* The end of write_sector(): the cache takes the data, or, when it is full,
\* the queue is executed and the cache emptied.
StoreWritten ==
    /\ pc = "store"
    /\ \/ /\ CanCache(arg)
          /\ cache' = [cache EXCEPT ![arg] = buffer]
          /\ pc' = "idle"
          /\ UNCHANGED after
       \/ /\ ~CanCache(arg)
          /\ FlushThen("drop_write")
          /\ UNCHANGED cache
    /\ UNCHANGED <<device, queue, executed, arg, buffer, readData, filled, latest>>

-----------------------------------------------------------------------------
\* read_sector() that does not find s in the cache, or is told not to look
\* (CACHE_NO), fetches s and the sectors that follow it straight from the
\* card.
ReadMiss(s, useCache, batch) ==
    /\ pc = "idle"
    /\ useCache => s \notin Cached
    /\ s + batch - 1 \in Sectors
    /\ pc' = "fill"
    /\ arg' = s
    /\ readData' = [n \in 1 .. batch |-> device[s + n - 1]]
    /\ filled' = 0
    /\ UNCHANGED <<device, cache, queue, executed, after, buffer, latest>>

\* Faulty: a full cache is emptied while writes are still queued.
FillCacheUnflushed ==
    /\ pc = "fill"
    /\ filled < Len(readData)
    /\ LET s == arg + filled IN
          \/ /\ CanCache(s)
             /\ cache' = [cache EXCEPT ![s] = readData[filled + 1]]
             /\ filled' = filled + 1
             /\ UNCHANGED pc
          \/ /\ ~CanCache(s)
             /\ pc' = "drop_read"
             /\ UNCHANGED <<cache, filled>>
    /\ UNCHANGED <<device, queue, executed, after, arg, buffer, readData, latest>>

\* One pass of read_sector()'s loop: every fetched sector goes into the cache,
\* over the entry the sector may already have there.
FillCache ==
    /\ pc = "fill"
    /\ filled < Len(readData)
    /\ LET s == arg + filled IN
          \/ /\ CanCache(s)
             /\ cache' = [cache EXCEPT ![s] = readData[filled + 1]]
             /\ filled' = filled + 1
             /\ UNCHANGED <<pc, after>>
          \/ /\ ~CanCache(s)
             /\ FlushThen("drop_read")
             /\ UNCHANGED <<cache, filled>>
    /\ UNCHANGED <<device, queue, executed, arg, buffer, readData, latest>>

\* read_sector() returns the first sector of the batch.
ReadReturn ==
    /\ pc = "fill"
    /\ filled = Len(readData)
    /\ pc' = "idle"
    /\ readData' = <<>>
    /\ filled' = 0
    /\ UNCHANGED <<device, cache, queue, executed, after, arg, buffer, latest>>

\* The host process ends at any moment: ethernet_timeout_handler() exits, the
\* signal handler calls _exit(1).  What was queued is gone, the card stays.
Crash ==
    /\ cache' = [s \in Sectors |-> NotCached]
    /\ queue' = <<>>
    /\ executed' = 0
    /\ pc' = "idle"
    /\ after' = "idle"
    /\ arg' = 0
    /\ buffer' = NotCached
    /\ readData' = <<>>
    /\ filled' = 0
    /\ latest' = device
    /\ UNCHANGED device

HostStep ==
    \/ ExecuteJob \/ FlushDone \/ DropCache
    \/ MergeJob \/ PurgeQueue \/ AppendJob \/ StoreWritten
    \/ FillCache \/ ReadReturn

\* m65ftp_init() reads the partition table (sector 0) past the cache; nothing
\* writes it.
Next ==
    \/ HostStep
    \/ Sync
    \/ \E s \in Sectors \ {0}, d \in Data : WriteSector(s, d)
    \/ \E s \in Sectors, batch \in BatchSizes : ReadMiss(s, TRUE, batch)
    \/ \E batch \in BatchSizes : ReadMiss(0, FALSE, batch)
    \/ Crash

Spec == Init /\ [][Next]_vars

\* The code runs on as long as the process lives.
FairSpec == Spec /\ WF_vars(HostStep)

-----------------------------------------------------------------------------
(***************************************************************************)
(* Properties                                                              *)
(***************************************************************************)

TypeOK ==
    /\ device \in [Sectors -> Data]
    /\ latest \in [Sectors -> Data]
    /\ cache \in [Sectors -> Data \cup {NotCached}]
    /\ queue \in Seq(Job)
    /\ executed \in 0 .. Len(queue)
    /\ pc \in {"idle", "queue", "store", "fill", "flush", "drop_write", "drop_read"}
    /\ after \in {"idle", "queue", "drop_write", "drop_read"}
    /\ arg \in Sectors
    /\ buffer \in Data \cup {NotCached}
    /\ readData \in Seq(Data)
    /\ filled \in 0 .. Len(readData)

\* The queue fits write_data_buffer and holds a sector once, so the order in
\* which the card carries the jobs out cannot matter (queue_write_sector()).
QueueSound ==
    /\ Len(queue) <= QueueMax
    /\ \A i, j \in DOMAIN queue : queue[i].sector = queue[j].sector => i = j

\* sector_cache[] is never indexed past its end.
CacheBounded == Cardinality(Cached) <= SectorCacheSize

\* No write is lost on the way to the card, whatever merges, purges and cache
\* drops happen: a pending job carries the newest data of its sector, and a
\* sector without a pending job is on the card as last written.
NoLostWrite ==
    /\ \A i \in DOMAIN queue : queue[i].data = latest[queue[i].sector]
    /\ \A s \in Sectors \ Pending : device[s] = latest[s]

\* m65ftp_sync() "Flush all pending sector writes to the SD card": once the
\* queue has been executed the card holds every write.
SyncedIsDurable == (pc = "idle" /\ queue = <<>>) => device = latest

\* Between calls a pending write is always in the cache too, so a cached read
\* that has to go to the card never overtakes a write of the sector it wants.
PendingIsCached == pc = "idle" => Pending \subseteq Cached

\* What a read that went to the card returns is what was last written, though
\* other sectors of the same batch may be out of date.
MissReturnsLatest == pc = "fill" => readData[1] = latest[arg]

\* Expected by the comment "Store in cache / update cache" at the fill loop of
\* read_sector(): the cache is never older than the last write.
CacheCoherent ==
    pc = "idle" => \A s \in Cached : cache[s] = latest[s]

\* Every call comes back, even when it has to execute the queue half way.
CallsReturn == (pc # "idle") ~> (pc = "idle")

\* The store implements the abstract disk, with the newest data as the accepted
\* and the card as the durable value.
AbstractDisk == INSTANCE Disk WITH accepted <- latest, durable <- device

ImplementsDisk == AbstractDisk!Spec
=============================================================================
