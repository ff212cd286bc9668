# Verification of mega65fs

mega65fs mounts the SD card of a MEGA65 computer as a FUSE file system: the host runs the
whole FAT32 code and reads and writes single sectors of the card over Ethernet. The TLA+
modules in this directory model the parts of that program in which order, failure and
concurrency decide whether files survive. TLC checks them on small instances; for all six of
them TLAPS proves invariants for every value of the constants, for some under hypotheses that
are named here.

Paths are relative to the repository root (`src/` in `PROJECT.json`).

## The system

```
 FUSE worker threads   src/mega65fs.c          directory cache, s_cache_mutex
        |
 m65ftp_* calls        src/m65ftp_lib.c        s_mutex, descriptors, write buffers, chain loops
        |
 FAT32                 lib/libm65ftp/mega65_ftp.c   directories, allocator, FAT accessors
        |
 sector store          lib/libm65ftp/mega65_ftp.c   sector cache, write queue, read-ahead
        |
 jobs over Ethernet    mega65_ftp.c, etherload/etherload_common.c
        |
 SD card of the MEGA65
```

| Component | State it keeps | Operations | How it is used | What makes it correct |
|---|---|---|---|---|
| FUSE driver, directory cache | `s_cache_slots` (path, listing, time), `s_cache_mutex` | getattr, readdir, statfs, access, the calls that change a directory and invalidate its listing | several libfuse threads; holds `s_cache_mutex` while it calls `m65ftp_readdir` | lifetimes, no lost invalidation, one consistent listing per readdir, no deadlock |
| `m65ftp_lib` wrapper | `s_files` (first cluster, buffer, positions, copy of the directory sector), free descriptors | open, create, pread, pwrite, ftruncate, fsync, close, stat, readdir, unlink, rename, mkdir, rmdir | every call under `s_mutex` | the data of a handle reaches the file it belongs to, descriptors are unique, entries are not overwritten |
| FAT32 directory layer | `dir_sector*`, `dir_cluster`, `current_dir` (globals) | scan, create, wipe, rename, mkdir, extend | called with `s_mutex` held | an entry is found under its name or not at all; a failed rename loses nothing |
| FAT32 allocator, chains | the two FATs on the card | find a free cluster, find a run, allocate, chain, free | called from create, close, pwrite, ftruncate, unlink | chains disjoint and whole, nothing leaks, searches end |
| Sector store | `sector_cache`, write queue, `queue_read_data` | read_sector, write_sector, execute_write_queue | below every FAT access | no write lost or reordered, reads see the last write, bounds |
| Job protocol | `queue_cmds`, `write_batch_counter` | batches of write jobs, read jobs, matching of responses | `queue_execute()` | each job is carried out once, answers belong to their request |
| Etherload ARQ | window of unacknowledged frames | send, acknowledge, resend, time out | below the job protocol | every frame is delivered or the failure is reported |
| Life cycle | `s_initialized`, mount point | init, finish, signals | FUSE init/destroy | nothing runs before init or after finish |

The hard behaviours are: a process that may die at any moment (a network timeout calls
`exit()`, a signal `_exit()`), queues and caches that overflow in the middle of a call,
several FUSE threads on a cache that was written for one, searches that wrap around, long
sequences of legal calls that rebuild cluster chains or move the positions of an open file,
entries spread over several sectors that are written one after the other, and packets that are
lost, repeated and answered late. `PROJECT.json` lists each of them at its
line ("hazards") with the properties that watch over it.

## Modules

| Module | Models |
|---|---|
| `Disk` | the promise of the sector store: an accepted and a durable value for every sector |
| `SectorStore` | sector cache, write queue and read-ahead of `mega65_ftp.c` |
| `SectorStoreProofs` | the inductive invariant of `SectorStore` and the refinement of `Disk` |
| `FatVolume` | cluster allocator, chain loops, the first cluster of directory entries |
| `FatVolumeProofs` | the inductive invariant of `FatVolume` |
| `DirCache` | directory cache of `mega65fs.c` with its threads and locks |
| `DirCacheProofs` | the inductive invariant of `DirCache` |
| `FileHandles` | the open files of `m65ftp_lib.c`: descriptors, write buffers, positions |
| `FileLayoutProofs` | the pool of descriptors of `FileHandles`, and the chains of its files, whatever calls are made in plain use |
| `FileDataProofs` | the data of files in `FileHandles`: in place, read back, and entries right |
| `NameSpace` | the promise of the directories: every name stands for one thing |
| `DirEntries` | entries, long names and sectors of directories in `mega65_ftp.c` |
| `DirEntriesProofs` | the inductive invariant of `DirEntries` |
| `DirNamesProofs` | that `DirEntries` implements `NameSpace` |
| `Etherload` | retransmission layer, job protocol and the connection built with them |
| `EtherloadProofs` | types of `Etherload`, that the helper starts with every frame of it loaded, and what the job protocol delivers: writes that land, reads that are fresh |
| `MCSectorStore`, `MCFatVolume`, `MCDirCache`, `MCFileHandles`, `MCDirEntries`, `MCEtherload` | instances for TLC |

How they divide the system: `SectorStore` is the layer that `FatVolume`, `DirEntries` and
`FileHandles` call, and what these may rely on is `Disk`. `FatVolume` takes the FAT apart link
by link and knows of a file only its first cluster; `FileHandles` uses the search and the
chains as wholes and follows the data; `DirEntries` has directories in chains of clusters and
knows of a file only what its entry holds. `Etherload` is below `SectorStore`, which takes
every job as carried out; `WritesLand` and `ReadsFresh` say when it is.

Operators whose comment begins with *Faulty* are altered forms of the definition below them;
they are in no specification, and `PROJECT.json` ("mutants") names the property each breaks.

### SectorStore

One call runs at a time, because `m65ftp_lib.c` holds `s_mutex`, so the running call is kept
in `pc`, `after`, `arg`, `buffer`, `readData` and `filled`. A call is cut into steps at each
loop iteration and each call of `execute_write_queue()`, and `Crash` may come between any two
steps.

* `write_sector()` is `WriteSector`, then `MergeJob`, `PurgeQueue` or `AppendJob`
  (`queue_write_sector()`), then `StoreWritten` (the cache).
* `read_sector()` that misses is `ReadMiss`, one `FillCache` for each sector of the batch and
  `ReadReturn`. A hit changes nothing and is no action. A batch is modelled where it lies on the card as a whole.
* `execute_write_queue()` is `FlushThen`, an `ExecuteJob` for each job and `FlushDone`; when
  the cache was full `DropCache` follows. With an empty queue the code returns at once; the
  model takes the step `FlushDone`, which then changes `pc` only.
* `Sync` is `m65ftp_sync()` and every other call of `execute_write_queue()` between calls.
* Cache and its index are one map, the queue a sequence of sector and data; `latest` is a
  history variable, the data last accepted for each sector.

The link is taken to carry out every job it is given. In the Ethernet build `read_sector()`
and `write_sector()` never return a failure: a link that stays silent long enough ends the
process, and a wait that runs out before that goes unnoticed (`Etherload`).

### FatVolume

`fat` and `entry` (the first cluster in a file's directory entry) are what the program reads
back, in the order it writes them; which part of it is on the card at a crash is
`SectorStore`'s matter, and since the queue merges writes, no claim is made here about the
card after a crash. `op` is the operation in progress; a step is one iteration of one of its
loops.

* `Create` (with the deletion of a file of that name), `Unlink`, `Close` (the flush of a write
  buffer, on close, on fsync or when the buffer overflows), `Extend` (`m65ftp_pwrite()` behind
  the last cluster) and `Truncate` (`m65ftp_ftruncate()` to nothing, to fewer or to more
  clusters) begin an operation.
* `FindFree`, `CountRun`, `VolumeFull` are the loop of `find_contiguous_clusters()` over
  `find_free_cluster()`; a probe behind the last FAT sector reads the second FAT (`IsFree`).
* `AllocateOne` is one iteration of the loops that mark and chain a run, `FreeOne` one of
  those that free a chain, `Finish` the write of the directory entry or of the new end of a
  file that shrinks.
* The root directory has cluster 2 and does not grow; subdirectories have no clusters here.
  All entries of the FAT belong to clusters of the volume. A file open for writing has one
  handle. The smaller batches and the single cluster that `m65ftp_pwrite()` tries after a
  failed search cannot succeed, for the search fails only when no cluster is free. The
  rollback of a partly allocated block in `m65ftp_ftruncate()` is needed only when a cluster
  is too large for the FAT, which `RunIsFree` excludes.
* `DeletesEmptyFiles` says whether files without clusters get deleted or replaced. The code
  then clears the FAT entry of cluster 0 (run `fat_delete_empty`); the other runs and the
  proofs leave that case out.

### DirCache

A directory is a version number that every change increments, a cached listing the version it
was fetched at; names within a listing are not modelled, so a lookup may miss although the
listing is there. A step is what a thread does between two points where another thread
can come in: the acquisition of `s_cache_mutex` or of `s_mutex`, and the unlocked loop of
`fs_readdir()`, cut into two pieces. `m65ftp_readdir()` holds both locks and is two steps;
`m65ftp_stat()` and the calls that change a directory wait for nothing while they hold
`s_mutex` and are one.

* `Getattr`, `Lookup`, `Stat`; `Readdir`, `UseFresh`, `BeginRefresh`, `BeginList`, `EndList`,
  `EndRefresh`, `Emit`; `Change`, `MakeChange`, `Invalidate`; `Access` (with `fs_fsyncdir()`);
  `Statfs`, `ReadPartition`, `CountSlot`; `Return`.
* `fs_statfs()` reads the slots one by one without the lock. Its sum is an estimate: a
  directory that two slots hold counts twice.
* A change makes no invalidation (write, truncate, utimens, release), one (create, mkdir,
  rmdir, unlink) or two (rename, whose two parents are the same directory).
* `fetched`, `settled`, `shadowed` and `seen` record history for the properties.

### FileHandles

`s_files`, `s_file_count` and `s_free_fds` are the code's. All files have their entries in one
sector of one directory, `dir`, and every writing descriptor keeps its copy of it in
`dir_sector_buf`. Sizes count chunks, `SectorChunks` of them to a sector. The contents of
files are followed for one chunk of one file, chosen in `Init`: `disk` is the set of places
of the card that hold what was last written to it. Because file and offset are arbitrary,
what holds for it holds for all.

* `Open`, `OpenWritable`, `Create` (with the deletion of a file of that name), `Unlink`,
  `Fsync`, `Close`, `Pread`, `TruncateBuffered` and `TruncateDirect` are one step each, for
  `s_mutex` is held. `PwriteBuffered` writes to the buffer.
* `PwriteDirect` and `PwriteOverflow` (the buffer outgrows its limit and is flushed) begin the
  loop of `m65ftp_pwrite()`: `PwriteSector`, `PwriteNextCluster`, `PwriteExtend` are its
  iterations, `PwriteFull` and `PwriteEnd` its ends.
* `Position`, `Resumes` and `ReadFrom` are the conditions under which the two calls go on
  where the last one ended.
* Some uses of a file the code does not serve. `Usage` names those a run allows, and guards
  keep the others out: *shared directory sector* (another entry of the sector changes while
  a descriptor holds a copy of it), *mixed positions* (a read goes on where a write ended or
  the other way round), *partial sectors* (a write goes on behind a partial sector), *gaps* (a
  write behind the end), *empty files* (writing in place to a file without clusters, or
  deleting one). **The passing run allows none of them**: what it shows holds for callers that
  keep to plain use, and does not hold in general. `handles_pwrite` allows four and is
  violated; each kind by itself violates `DataInPlace`, or, for the first, `ReadReturnsWritten`
  (partial sectors need two chunks to a sector, gaps a size of four).
* `close()` with a volume too full for the buffer drops the data and writes the size all the
  same; such files are kept in `wanted.dropped` and `EntryIsRight` says nothing of them.

### DirEntries and NameSpace

A directory is a chain of clusters full of slots: chunks of a long name, an entry, `.` and
`..`, deleted (`E5`) or free (`00`). A name is an element of `Names`; what the code computes
from its text is in constants: the number of chunks, the base of its short name, and whether
this needs a number behind a tilde. Names that differ in case only are one name.

* `Find` is how calls look a name up (also in the run of chunks before a deleted slot), `Stat`
  how listings show it.
* `Create`, `Unlink`, `Rmdir`, `Rename`, `Mkdir` begin a call; `Wipe` (one sector at a time),
  `Release`, `Search`, `Extend`, `PlaceChunk`, `PlaceShort`, `FillRenamed`, `FillMade` are the
  writes it makes, in the code's order. `Update` is what `close()` and `m65ftp_utimens()` write
  to an entry.
* create and mkdir make the short name up in `Search`, from the directory as it is then; rename
  does before it wipes the old entry (`Named` in `Rename`), and the kernel has looked the old
  name up before it asks for one.
* The process may die between two of them (`Crash`), and the next calls find what it left.
* `NameSpace` has one binding for each name. `ImplementsNameSpace` maps the entries that
  listings show to bindings and says that every write to the card changes at most one of
  them, and as a call of that kind may.

Left out, each by a named guard or constant: a crash in mkdir, in rmdir or while a directory
is renamed; a crash that leaves a chunk in the very last slot of a directory, behind which
`fat_readdir()` returns what its buffer holds; a second crash while the run an interrupted
create left is being wiped; a call that begins without a free cluster (`VolumeFills`);
clusters below 4096 bytes. Names that begin with a dot, which listings hide, names with
spaces, whose short names collide, and long names that spell another file's short one are not
among `Names`. That a create finds the orphan run of an interrupted one and deletes it, cluster 0
with it, is left to `FatVolume` (`DeletesEmptyFiles`).

### Etherload

The functions of the job protocol and of `m65ftp_init()` are straight lines of calls into the
retransmission layer, so a function is a sequence of steps (`Connect`, `WriteJobs`, `ReadJob`,
`RequestQuit`) and `todo` what is left of it. The layer's table is `unacked`, with `sent` for
the order of sending times; `queue_length` is how much of it is looked at.

* `Wait`, `SendOrSchedule`, `SendUnscheduled`, `SetQueueLength`, `SetCallbacks`, `Assign`,
  `PeekFails` carry out the next step; while it waits, `Receive` is `check_if_ack()` with the
  installed callbacks, `Resend` is `maybe_send_ack()`, `GiveUp` the end of the waiting time,
  `Exit` the timeout handler.
* `ExecuteWriteQueue`, `ReadSector` and `Finish` are the calls of the layers above. A list of
  writes is one `WriteJobs` step in `todo`; `NextJobs` takes the next run of consecutive sectors
  from it, as the loop of `process_jobs_ethernet()` does. What lists there are is
  `WriteLists`: each sector once, for `queue_write_sector()` merges writes to one sector, and
  at most as many as the queue holds, which is executed when full (`WriteListsAssumption`).
* `DeviceReceives` is the MEGA65, first its loader, then the helper program: the repository
  holds it as bytes only, so it is external, modelled by what the host expects of it. `Lose`
  loses a packet; the host itself repeats them. Nothing reorders, for it is one cable.
* Time: a wait ends after `ETHERNET_TIMEOUT` (3 s), before `ack_timeout` (4 s), so a frame must
  outlive a whole wait before the handler exits (`stale`).
* Job functions ignore the result of their waits. What was sent when one ran out is
  `doubtful`, and the properties say nothing about these sectors.
* `SlotBase` stands for the factor 256 between the batch index and the sector in the
  bytes that are compared; it is large enough in the run that a read answer does not spell a
  write (hazard at `mega65_ftp.c:1436`).

## Runs

| Run | Instance | Result |
|---|---|---|
| `sector_store` | 4 sectors, 2 values, cache and queue of 2, batches of 1 and 2 | all properties hold, 50,000 states |
| `sector_cache` | the same | `CacheCoherent` violated |
| `fat_volume` | 8 FAT entries (5 for files), 3 files, requests up to 3 clusters | all properties hold, 222,000 states |
| `fat_search` | the same, requests up to 2 | `SearchEnds` violated |
| `fat_delete_empty` | the same, empty files get deleted | `ReservedIntact` violated |
| `dir_cache` | 2 threads, `/` and one directory, 2 slots, lifetime 1, clock to 1, one change of each directory, 3 calls; empty or warm cache | all properties hold, 270,000 states |
| `dir_cache_refetch` | 1 thread, 2 slots, lifetime 2, 5 calls | `InvalidateRefetches` violated |
| `dir_cache_readdir` | 2 threads, 2 slots, 2 calls | `ReaddirListsOneDirectory` violated |
| `file_handles` | 2 files, 2 descriptors, 3 clusters of 2 sectors, a buffer of 2, files up to 3; no special use | all properties hold, 1.2 million states |
| `handles_pwrite` | the same with four kinds of special use | `DataInPlace` violated |
| `dir_entries` | 3 names of 1, 2 and 3 slots, two with the same short base, clusters of 4 slots in 2 sectors, 4 clusters, 4 calls, crashes | all properties hold, 121,000 states |
| `etherload` | 2 blocks, 3 sectors, 2 values, windows of 2, 1 and 2, 3 packets in each direction, 2 calls, 1 wait that runs out | all properties hold, 629,000 states |

Why the bounds are enough. *SectorStore*: two sectors fill queue and cache, so every merge,
purge and drop happens, also within one batch; sector 0 is never written, three others leave
one outside a full cache. *FatVolume*: five clusters hold three files with gaps between them,
runs of three that fit and that do not, runs that reach the end of the FAT, and a wrap of the
search; the numbers of clusters and files have no other role. *DirCache*: two slots are the
fewest in which an invalid slot can come before a matching one; two threads are the fewest
that interleave, and three calls let a refresh, a change and a lookup overlap. Warm starts are states that
two readdir calls lead to and save those calls. The clock stops at 1, which is one lifetime:
listings are fresh at 0 and expired at 1. *FileHandles*: three clusters of
two sectors hold two files, one of which has two clusters, and fill up; a size of three is a
cluster and a half, so writes end within a cluster, at its end and behind it, and a buffer of
two overflows. Neither calls nor their sequence are bounded. *DirEntries*: the longest entry
takes three of a cluster's four slots, so entries cross sectors and clusters and a second one
extends the directory; four calls make a directory, something in it, change it and remove it,
or leave an orphan run and use the place behind it; for more calls there are the theorems.
*Etherload*: windows
of one and two make calls wait for slots and leave frames behind the end of a window that
shrinks; batch numbers of one bit wrap around between two calls; the runs of a write queue are
one, two, or out of order. With any number of waits that run out, or with three calls, the
safety properties hold too; those runs take too long to be kept.

What the passing runs show:

* `QueueSound`, `NoLostWrite`, `SyncedIsDurable`, `PendingIsCached`, `MissReturnsLatest`,
  `CacheBounded`, `CallsReturn`: overflows in the middle of a call neither lose a write nor
  let a read overtake it; `ImplementsDisk`: all of the store is an abstract disk with crashes.
* `ReservedIntact`, `RunIsFree`, `OneOwner`, `ChainsAllocated`, `NoLostCluster`: chains stay
  disjoint, whole and complete over every sequence of calls; `OneBlockUnlessExtended`: only an
  extension in place fragments a file; `RoomIsFound`: a run that exists is found.
* `StatWithinTTL`, `NoLostInvalidation`, `CallsReturn`: no timing of threads makes a stat get
  a listing past its lifetime, or lets a refresh swallow an invalidation of a directory that
  is in one slot, or makes the two locks wait for each other.
* `FdSound`, `DataInPlace`, `ReadReturnsWritten`, `EntryIsRight`, `ChainsDisjoint`: in plain use
  a descriptor has one owner, what was written to it lies where entry, chain and offset say
  and is read again from wherever the last call left off, and after `close()` the entry gives
  a whole file.
* `LookupsAgree`, `NamesUnique`, `ChunksBelong`, `TailIsFree`, `TreeSound`: a lookup finds what a
  listing shows, names and short names are unique, an interrupted create lends its long name to
  nobody and hides nothing, directories form a tree; `ImplementsNameSpace`: no call loses or
  changes another name, `CallsEnd`: a full directory grows and the call returns.
* `HelperComplete`, `WritesLand`, `ReadsFresh`: no frame is taken as acknowledged by the answer
  to another, an old frame that is repeated does no harm, a batch that was read is the one
  that was asked for; `CallsEnd`: retransmission alone ends every call.

What the violated ones show (`PROJECT.json`, "findings", has the details):

* `CacheCoherent`: read-ahead overwrites newer cached data that is still queued.
* `SearchEnds`: free but scattered clusters make `find_contiguous_clusters()` loop for ever.
* `ReservedIntact`: deleting an empty file clears the FAT entry of cluster 0.
* `DataInPlace`: `m65ftp_pwrite()` to a file that was synced while empty writes in front of the
  data area.
* `InvalidateRefetches`: a second slot of the same directory survives an invalidation.
* `ReaddirListsOneDirectory`: the driver is not single-threaded, and readdir reads a slot
  without the lock.

### Fairness

`SectorStore` and `FatVolume` assume weak fairness of the step of the call that is running:
the code is sequential and waits for nobody, so it goes on as long as the process lives. New
calls and crashes are never assumed to happen. `DirCache` assumes weak fairness of each
thread's steps. A step that needs a lock is enabled while the lock is free; because the number of
calls is bounded, nobody can be overtaken for ever, so fairness of the mutexes is not needed.
`DirEntries` assumes weak fairness of the step of the running call, for the same reason as
`SectorStore`. `Etherload` assumes that the host's loops run on and repeat a frame as its clock
tells them to (weak fairness of `HostStep`, `Receive`, `Resend`), and that what is sent again
and again gets through again and again (strong fairness of `DeviceReceives` and of the receipt
of an answer somebody waits for). Nothing is assumed of `GiveUp` and `Exit`: a call must not
need them. `FileHandles` has no liveness property and no fairness.

The runs check deadlock, except `dir_entries` and `etherload`, which stop when the bound on
calls is used up, the latter also when the process has ended. `DirCache` ends in `Finished`.

## Proofs

`SectorStoreProofs`, from `SectorStoreAssumption` alone:

| Theorem | States |
|---|---|
| `TypeCorrect` | `Spec => []TypeOK` |
| `WritesReachTheCard` | `Spec => []NoLostWrite` |
| `QueueFits` | `Spec => []QueueSound` |
| `SyncDurable` | `Spec => []SyncedIsDurable` |
| `PendingStaysCached` | `Spec => []PendingIsCached` |
| `CardReadsAreFresh` | `Spec => []MissReturnsLatest` |
| `CacheIndexInBounds` | `Spec => []CacheBounded` |
| `Refinement` | `Spec => ImplementsDisk` |

`NoLostWrite` alone is not inductive. What a call is in the middle of has to be known
(`CallSound`); a pending sector has to be in the cache except for the one being stored
(`QueuedIsCached`), because a read that misses trusts that nothing is pending for its sector;
a table that is about to be emptied has to have nothing pending (`TableUnqueued`); and the
first sector of a batch has to be the latest one all through the fill loop
(`BatchHeadIsLatest`). The refinement then takes one step for each action: `AppendJob` and
`MergeJob` are `Write`, `ExecuteJob` is `Persist` (this needs `NoLostWrite`), all others
stutter. `CacheIndexInBounds` stands apart: a sector is added only when it is cached already
or the cache has room, which is an induction of its own on the cardinality of the cache.

`FatVolumeProofs`, from `FatAssumption` and `~DeletesEmptyFiles`:

| Theorem | States |
|---|---|
| `TypeCorrect` | `Spec => []TypeOK` |
| `RunsAreFree` | `Spec => []RunIsFree` |
| `ReservedUntouched` | `Spec => []ReservedIntact` |
| `NoCrossLink` | `Spec => []OneOwner` |
| `NoDanglingChain` | `Spec => []ChainsAllocated` |

The invariant adds to these that links stay inside the volume, that links and entries lead to
allocated clusters except for the one link or entry the running operation is about to replace,
that the search position lies in the volume when a run is probed, and what a run in the middle
of its allocation and a chain in the middle of its release look like. A probe that runs
past the FAT is caught by the first entry of the second FAT, which is reserved: this is where
`RunsAreFree` needs `ReservedIntact`, and why the deletion of empty files must be excluded.

The second part of the module is about whole chains, from the same assumptions and with this
invariant under it:

| Theorem | States |
|---|---|
| `NothingLost` | `Spec => []NoLostCluster` |
| `FilesAreBlocks` | `Spec => []OneBlockUnlessExtended` |
| `FilesApart` | no cluster is reached from the entries of two files |
| `SearchPassesNoRun` | every run of the length asked for lies before the search (`NoRunPassed`) |

These speak of reachability. A chain is the least set that holds its head and is closed under
links, so that what is reached is shown by giving a closed set, and no step has to be
counted. `CInv` says that every allocated cluster is reached from an entry, from the run that
is being allocated or from the chain that is being released (`AllReached`), what an operation
has cut loose and not released yet (`CutSound`, `EntryEmpty`), and that files which were never
extended in place are a block of consecutive clusters that ends where the chain ends
(`Blocks`, `ExtendsOwn`). `SearchPassesNoRun` is inductive on top of the first invariant: the
cluster that ends a run that is too short belongs to none that is long enough.

`EtherloadProofs`, first part, from `EtherloadAssumption` and `WriteListsAssumption`:

| Theorem | States |
|---|---|
| `TypeCorrect` | `Spec => []TypeOK` |
| `HelperStartsComplete` | `Spec => []HelperComplete` |

While the program is sent (`Loading`), a block is on the MEGA65, still unacknowledged, or not
yet sent, and the frame that starts it is sent when none is unacknowledged.

`EtherloadProofs`, second part, from the same and `KeysApart`:

| Theorem | States |
|---|---|
| `WritesLandWithoutGivingUp` | while no wait has run out, `WritesLand` |
| `ReadsFreshWithoutGivingUp` | while no wait has run out, `ReadsFresh` |

A batch has a number that wraps around, so an old answer could be taken for a new one. What
excludes it is that a cable does not reorder: when a frame of a batch is answered, every packet
sent before it has left the wires, so that when the batch ends nothing of an earlier one is
on its way (`Settled`), and the next batch has another number. `DataInv` has a
case for each phase of the connection (`Connecting`, `Peeking`, `Idle`, `Writing`,
`BetweenBatches`, `Reading`, `Quitting`, `Finished`), and in each what may be on either wire and
what the sectors hold. `KeysApart` has two parts: there is more than one batch number, and the
sectors read by a batch do not spell, in the bytes that are compared, the key of a write
that waits. The code does not check the second (hazard at `mega65_ftp.c:1436`); it holds as
long as sectors that are read have numbers below 256 times those that are written. It is
needed: with `SlotBase` at 4 TLC finds `WritesLand` violated. Once a wait has run out, a frame of an
old batch can outlive the number it carries; what the properties say then of the sectors that are
not `doubtful` is model-checked.

`FileLayoutProofs`, first part, from `FileHandlesAssumption`, for every `Usage`:

| Theorem | States |
|---|---|
| `DescriptorsSound` | `Spec => []FdSound` |

The invariant adds to `FdSound` the types of the pool and that what lies on the stack has been
handed out before. Most actions change only the contents of a
descriptor's record and keep `in_use`; what is left are the calls that take and return one.

Its second part, from the same, for every `Usage` without shared directory
sectors and empty files (`Plain`):

| Theorem | States |
|---|---|
| `TypeCorrect` | `Plain => (Spec => []TypeOK)` |
| `ClustersBelong` | `Plain => (Spec => []ChainsDisjoint)` |

`ChainsDisjoint` speaks of walks along the FAT. The invariant `Sound` says that there is a layout
the state agrees with: for every file a sequence of clusters, linked by the FAT from the first
cluster of the file's entry to an end marker, and no cluster in two places (`Laid`). A set of
lemmas says what each operation on the FAT makes of a layout: a run of free clusters is given
to a file (`TakeLaid`), a chain is extended (`ExtendLaid`), cut (`CutLaid`) or freed
(`FreeLaid`). That a call applies them to the right file needs more: an open descriptor has
the first cluster and the size of its file's entry (`HandleSound`), the one that writes is alone
with its file and its copy of the directory sector is the card's (`WriterAlone`), and a write
in progress is at a cluster of its file (`OpSound`). `AlongChain` relates the walks of the
code to the sequence, by the least number of links for which they would differ. With shared
directory sectors `ChainsDisjoint` is violated (a second writer puts back an entry whose chain
is gone); empty files are left out because a write in place to one links the run it takes to
the FAT entry of cluster 0, which no layout has. On the instance of the run with them TLC finds
no violation.

`FileDataProofs`, from `FileHandlesAssumption`, for an empty `Usage` (`Strict`), which is what
the run `file_handles` checks:

| Theorem | States |
|---|---|
| `EntriesRight` | `Strict => (Spec => []EntryIsRight)` |
| `WrittenInPlace` | `Strict => (Spec => []DataInPlace)` |
| `ReadsReturnWritten` | `Strict => (Spec => []ReadReturnsWritten)` |

The tracked chunk is any chunk of any file, so that the theorems speak of all data. To the layout
and the pool of `FileLayoutProofs` (a descriptor that is handed out is
nobody else's) the invariant adds four things (`DInv`). Positions: where the last `pwrite()` ended
is the sector that its offset falls into, and the cluster a `pread()` goes on from is the one its
index counts to, not behind its offset (`PositionsSound`). Entries: a file in no
buffer has the size that the calls made it and clusters enough (`EntrySound`). The chunk lies
in its file's clusters unless a buffer has it (`TrackedSound`, `BufferSound`). And a write in
progress is at the sector where its next chunk belongs, and what it has passed is in place
(`WriteSound`). A position at the end of a cluster counts as the sector behind it (`At`), so that
the code's late step to the next cluster needs no case of its own. All of this is said of the
sequence of clusters; a step is then followed in the one file it concerns (`FileStep`), and for
the others it is enough that no cluster is in two files (`Apart`).

The hypothesis cannot be dropped. Where `pread()` goes on from a position that a `pwrite()` has
left or the other way round, where a write continues in the middle of a sector, or begins
beyond the end of the file, the positions are wrong for what the code does with them, and data
or the chain is lost (hazards at the lines in question, `HandlesPwrite.cfg`).

`DirCacheProofs`, from `DirCacheAssumption` alone:

| Theorem | States |
|---|---|
| `TypeCorrect` | `Spec => []TypeOK` |
| `StatsWithinTTL` | `Spec => []StatWithinTTL` |
| `NoInvalidationLost` | `Spec => []NoLostInvalidation` |

The invariant `IInv` ties the locks to the places of the threads (`LocksHeld`), so that while
one thread refreshes a slot nobody else touches the slots and no invalidation completes. The
slot in the middle of a refresh is not valid, belongs to the directory asked for, and what has
been listed into it is not older than the last complete invalidation (`RefreshSound`): the
listing is the card's version, which is at least every version a call has made (`PastSound`).
A slot is stamped with a time before it was fetched (`StampSound`), because the clock is read
before `m65ftp_readdir()` is called; therefore the comparison with the stamp bounds the true
age. An invalidation that finds the directory in at most one slot leaves no valid slot of it.
Steps at which a thread holds no lock before and after are treated together (`Moves`).

`DirEntriesProofs`, from `DirEntriesAssumption` and `Roomy`:

| Theorem | States |
|---|---|
| `TypeCorrect` | `Spec => []TypeOK` |
| `ListedIsFound` | `Spec => []LookupsAgree` |
| `NamesStayUnique` | `Spec => []NamesUnique` |
| `ChunksStayTogether` | `Spec => []ChunksBelong` |
| `FreeTail` | `Spec => []TailIsFree` |
| `TreeHolds` | `Spec => []TreeSound` |

`Roomy` has three parts. A call begins with a cluster to spare (`~VolumeFills`): on a full
volume a directory is chained to cluster 0 (hazard at `mega65_ftp.c:4601`). The first cluster of
a directory is written whole (`MkdirSlots = ClusterSlots`): `create_dir()` writes 4096 bytes, "XXX
assumes 4KB clusters" (line 5005); in larger ones it leaves stale slots behind the free ones. And a
long name with its entry fits into a cluster (`Chunks[n] < ClusterSlots`): 20 chunks at the most,
of 128 slots. The instance of the run `dir_entries` satisfies it.

None of the six is inductive, for an entry is many writes. `IInv` has these parts. *The card*:
there is a layout (`Laid`), a sequence of clusters for each directory, linked by the FAT, no
cluster twice; from it follows what the slots of a directory are and where each lies (`View`,
`Places`), so that the scans, which walk cluster by cluster, need not be followed. *Each
directory* is `Sound`: every chunk leads to the next of its name, to its entry or to a free
slot (`WellChunked`); keys are unique (`WellNamed`); at most one group matches a name
(`OneMatch`, which counts runs before deleted slots, as the code does); the free slots are at
the end (`TailFree`). While a group is being wiped one slot of that directory is exempt from
the last; while an entry is being placed its chunks so far are the only ones that may end the
directory. *The call* (`OpSound`): its place and entry are slots of its directory; what it is
about to place matches nothing yet and has a key nobody has (`Placing`, `RenameSound`); enough
clusters are free for what it still needs (`HasRoom`). *The tree* (`Tree`): each directory
has one entry, but for the one that a rename carries or that rmdir is about to release
(`Adrift`). What a write does is a lemma about sequences of slots (`WipedSound`, `ChunkPut`,
`EntryPut`, `ThingSound`, `GrownSound`) and one about the card (`WipeStep`, `WriteStep`,
`ExtendStep`, `MadeStep`, `ReleaseStep`); the lemma of an action (`CreateKept` and so on) joins
the two. A crash keeps `Sound` because `Crash` leaves out the states named above.

`DirNamesProofs`, from the same and `ThingsAssumption`:

| Theorem | States |
|---|---|
| `ThingsStayNamed` | `Spec => ImplementsNameSpace` |

Every step of `DirEntries` is a step of `NameSpace` or changes nothing there. It rests on the
invariant above and on what a directory shows before and after a write: wiping any part of a
group takes away the name of its entry and no other (`WipedShows`), so the first write of a
deletion unbinds the name and the rest of them change nothing; chunks at the end of a
directory and a new cluster show nothing (`PutShows`, `GrownShows`); the slot of the entry
itself binds its name (`EntryShows`), which nothing showed before; a first cluster or the time
of a file changes what one name stands for (`ThingStep`). `NInv` adds what the steps of one
call have to know of each other: the entry that a rename begins with is listed, one that is
being wiped shows nothing any more, one that was placed shows the name of the call, and files
stand for no directory, so that only rmdir and rename take a directory out, rmdir one whose
listing is empty. `ThingsAssumption` says that what a file holds is not taken for a cluster, nor
the value `None` for content.

The inductive invariants of `SectorStore` and `FatVolume` are also checked by TLC on the
instances of the runs.

Only model-checked: `WritesLand` and `ReadsFresh` once a wait has run out, and the liveness
properties, `RoomIsFound` among them, which are out of the reach of the prover
(`SearchPassesNoRun` is the part of it that needs no fairness).

## Plan

All planned modules exist; what is left, in order:

1. `FileHandles`: directory sectors that two files share, with the entries of `DirEntries` in
   place of `dir`.
2. `Etherload`: a device that is restarted in the middle.
3. `FatVolume` composed with `SectorStore`: what is on the card when the process dies between
   the release of an old chain and the write of the entry that leads to it. The same for a
   crash in mkdir and rmdir of `DirEntries`.
4. FAT entries behind the data area; names that collide in their short form by spaces.
5. `DirCache`: directories that are removed and made again under the same path.

## Not modelled

Serial and USB access (`m65common.c`), logging, the interactive shell and its disk image,
flash and slot commands, the helper programs that run on the MEGA65, and the layout of names
and dates: they are not part of the file system driver, or hold no state that a sequence of
calls could break. The branch of `read_sector()` and `write_sector()` for a card reader on the
host bypasses the sector store. Of the job protocol, `mount_file` and flash jobs and lists that
mix reads and writes are made by the shell only. Of the connection, the probing of the network
before the loader answers, the opening of the volume, and FUSE's mount and unmount are
sequential set-up without state that later calls could find broken. Of a listing, the
truncation at `MAX_ENTRIES` and the checks of name lengths; of the wrapper, times, error codes and
memory that runs out.
