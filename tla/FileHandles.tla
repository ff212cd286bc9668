---------------------------- MODULE FileHandles -----------------------------
(***************************************************************************)
(* The open files of m65ftp_lib.c: the pool of descriptors, files that are *)
(* created in a buffer and files that are written in place, the positions  *)
(* that pread and pwrite remember, and the copy of the directory sector    *)
(* that every writing descriptor keeps.                                    *)
(*                                                                         *)
(* All files have their entries in one sector of one directory.  Calls run *)
(* under s_mutex, so one is in progress at a time; the loops of pread and  *)
(* pwrite take a step for each sector, every other call is one step.  Data *)
(* is counted in chunks, SectorChunks of them to a sector, and followed    *)
(* for one chunk of one file, tracked, which stands for every other.  The  *)
(* search for clusters finds the first run that is long enough             *)
(* (FatVolume).                                                            *)
(***************************************************************************)
EXTENDS Integers, Sequences, FiniteSets, FiniteSetsExt

CONSTANTS
    Files,              \* names of files
    Absent,             \* the entry of a file that does not exist
    MaxFiles,           \* M65FTP_MAX_FILES, the descriptors
    NumClusters,        \* clusters of the data area
    ClusterSectors,     \* sectors_per_cluster
    SectorChunks,       \* chunks of a sector
    BufferLimit,        \* M65FTP_BUFFER_LIMIT, in chunks
    MaxSize,            \* bound on the size of a file, in chunks
    Usage               \* what callers do beyond the plain use of a file

\* What the code does not serve well; see the guards of the calls.
Usages == {"shared directory sector", "mixed positions", "partial sectors", "gaps",
           "empty files"}

ASSUME FileHandlesAssumption ==
    /\ MaxFiles \in Nat \ {0} /\ NumClusters \in Nat \ {0}
    /\ ClusterSectors \in Nat \ {0} /\ SectorChunks \in Nat \ {0}
    /\ BufferLimit \in Nat /\ MaxSize \in Nat \ {0}
    /\ Files # {} /\ IsFiniteSet(Files) /\ Usage \subseteq Usages
    /\ Absent \notin [first : Nat, size : Nat]

VARIABLES
    fat,            \* fat[c]: FAT entry of cluster c
    disk,           \* the chunks of the card that hold the tracked data
    dir,            \* dir[f]: the directory entry of f
    s_files,        \* the descriptors
    s_file_count,   \* descriptors handed out so far
    s_free_fds,     \* the stack of descriptors that have been closed
    op,             \* the pread or pwrite in progress
    wanted          \* history: the tracked file and offset and whether data is written
                    \* there, the sizes of files, the files whose data close() lost

vars == <<fat, disk, dir, s_files, s_file_count, s_free_fds, op, wanted>>
volume == <<fat, disk, dir>>
pool == <<s_file_count, s_free_fds>>

Fds == 0 .. MaxFiles - 1
\* Cluster 0 is none; its sectors would lie in front of the data area.
Clusters == 1 .. NumClusters
AnyCluster == 0 .. NumClusters
Free == 0
Eoc == NumClusters + 1
ClusterChunks == ClusterSectors * SectorChunks
Offsets == 0 .. MaxSize - 1
Sizes == 0 .. MaxSize

Smaller(m, n) == IF m < n THEN m ELSE n
Larger(m, n) == IF m < n THEN n ELSE m

\* Chunk k of the clusters that follow each other from c.
Place(c, k) == <<c + k \div ClusterChunks, k % ClusterChunks>>
Places(c, ks) == {Place(c, k) : k \in ks}

\* chained_cluster() and get_next_cluster(): an end marker where the FAT ends.
Chained(c) == IF c \in AnyCluster THEN fat[c] ELSE Eoc
IsLink(c) == 0 < c /\ c < Eoc

\* The n-th cluster of the chain from c, walked by get_next_cluster().
Walk(c, n) ==
    LET nth[i \in 0 .. n] == IF i = 0 THEN c ELSE Chained(nth[i - 1])
    IN  nth[n]

\* The clusters of the chain from c.
ChainOf(c) == {d \in Clusters : IsLink(c) /\ \E n \in 0 .. NumClusters - 1 : Walk(c, n) = d}

\* Where chain_len ends up when pwrite() walks at most n links from c.
LinksFrom(c, n) ==
    Max({k \in 0 .. n : \A i \in 1 .. k : IsLink(Walk(c, i))})

ClustersFor(size) == (size + ClusterChunks - 1) \div ClusterChunks

\* find_contiguous_clusters(n) returns c.  A failure of the search stands also for
\* the search that does not end (FatVolume).
Runs(n) == {c \in Clusters : \A k \in 0 .. n - 1 : c + k \in Clusters /\ fat[c + k] = Free}

\* Faulty: the last cluster of a run is not marked as the end of its chain.
TakeOpenRun(table, c, n) ==
    [d \in AnyCluster |-> IF d \in c .. c + n - 2 THEN d + 1 ELSE table[d]]

\* allocate_cluster() and chain_cluster() for a run of n clusters from c.
TakeRun(table, c, n) ==
    [d \in AnyCluster |->
        CASE d \in c .. c + n - 2 -> d + 1
          [] d = c + n - 1 -> Eoc
          [] OTHER -> table[d]]

\* The loop of deallocate_cluster() over the chain from c.
FreeChain(table, c) == [d \in AnyCluster |-> IF d \in ChainOf(c) THEN Free ELSE table[d]]

NoEntry == [first |-> 0, size |-> 0]
NoCopy == [f \in Files |-> Absent]

Closed == [in_use |-> FALSE, file |-> Absent, first_cluster |-> 0,
           file_size |-> 0, current_cluster |-> 0, current_cluster_idx |-> 0,
           last_offset |-> 0, is_writable |-> FALSE, buffered |-> FALSE,
           write_buf |-> FALSE, dir_sector_buf |-> NoCopy,
           write_cluster |-> 0, sector_in_cluster |-> 0, moved_by |-> "none"]

Idle == op.at = "idle"
NoOp == [at |-> "idle", fd |-> 0, offset |-> 0, count |-> 0, done |-> 0, cluster |-> 0,
         index |-> 0]

Init ==
    /\ fat = [c \in AnyCluster |-> IF c = 0 THEN Eoc ELSE Free]
    /\ disk = {}
    /\ dir = [f \in Files |-> Absent]
    /\ s_files = [fd \in Fds |-> Closed]
    /\ s_file_count = 0
    /\ s_free_fds = <<>>
    /\ op = NoOp
    /\ \E f \in Files, k \in Offsets :
          wanted = [file |-> f, offset |-> k, written |-> FALSE,
                    size |-> [g \in Files |-> 0], dropped |-> {}]

-----------------------------------------------------------------------------
(***************************************************************************)
(* Descriptors                                                             *)
(***************************************************************************)

\* alloc_fd() returns fd; its effect on the pool.
AllocFd(fd) ==
    \/ /\ s_free_fds # <<>>
       /\ fd = s_free_fds[Len(s_free_fds)]
       /\ s_free_fds' = SubSeq(s_free_fds, 1, Len(s_free_fds) - 1)
       /\ UNCHANGED s_file_count
    \/ /\ s_free_fds = <<>>
       /\ s_file_count < MaxFiles
       /\ fd = s_file_count
       /\ s_file_count' = s_file_count + 1
       /\ UNCHANGED s_free_fds

\* The history of file f cut or extended to size; what an extension holds is not
\* specified.
Forgotten(f, size) ==
    [wanted EXCEPT !.size[f] = size,
                   !.written = @ /\ ~(f = wanted.file /\ wanted.offset >= size)]

\* The tracked data is nowhere once nobody wants it.
Held(places) == IF wanted'.written THEN places ELSE {}

PoolEmpty == s_free_fds = <<>> /\ s_file_count >= MaxFiles

\* Faulty: a descriptor that has been closed is accepted again.
HandedOut(fd) == fd < s_file_count

\* What every call asks of the descriptor it is given.
InUse(fd) == fd < s_file_count /\ s_files[fd].in_use
Readers(f) == {fd \in Fds : InUse(fd) /\ s_files[fd].file = f}
Writers == {fd \in Fds : InUse(fd) /\ s_files[fd].is_writable}

\* Nobody holds a copy of the directory sector that a change of f would make
\* stale, or the first cluster of f.
SectorIsFree(f) ==
    \/ "shared directory sector" \in Usage
    \/ Writers = {} /\ Readers(f) = {}

Opened(f, entry) ==
    [Closed EXCEPT !.in_use = TRUE, !.file = f, !.first_cluster = entry.first,
                   !.file_size = entry.size, !.current_cluster = entry.first]

\* m65ftp_open()
Open(f) ==
    /\ Idle
    /\ dir[f] # Absent
    /\ "shared directory sector" \in Usage \/ Readers(f) \cap Writers = {}
    /\ \E fd \in Fds :
          /\ AllocFd(fd)
          /\ s_files' = [s_files EXCEPT ![fd] = Opened(f, dir[f])]
    /\ UNCHANGED <<fat, disk, dir, op, wanted>>

\* m65ftp_open_writable()
OpenWritable(f) ==
    /\ Idle
    /\ dir[f] # Absent
    /\ SectorIsFree(f)
    /\ \E fd \in Fds :
          /\ AllocFd(fd)
          /\ s_files' = [s_files EXCEPT ![fd] =
                [Opened(f, dir[f]) EXCEPT !.is_writable = TRUE, !.dir_sector_buf = dir,
                                          !.write_cluster = dir[f].first]]
    /\ UNCHANGED <<fat, disk, dir, op, wanted>>

\* delete_file_or_dir() of f, if it exists.
MayDelete(f) ==
    /\ SectorIsFree(f)
    /\ dir[f] # Absent => dir[f].first # 0 \/ "empty files" \in Usage
\* The loop that frees the chain frees its first cluster before it looks.
Deleted(f) ==
    IF dir[f] = Absent THEN fat ELSE [FreeChain(fat, dir[f].first) EXCEPT ![dir[f].first] = Free]

\* m65ftp_create(): a file of that name is deleted first; the entry stays when
\* there is no descriptor left.
Create(f) ==
    /\ Idle
    /\ MayDelete(f)
    /\ fat' = Deleted(f)
    /\ dir' = [dir EXCEPT ![f] = NoEntry]
    /\ \/ /\ PoolEmpty
          /\ UNCHANGED <<pool, s_files>>
       \/ \E fd \in Fds :
             /\ AllocFd(fd)
             /\ s_files' = [s_files EXCEPT ![fd] =
                   [Opened(f, NoEntry) EXCEPT !.is_writable = TRUE, !.buffered = TRUE,
                                              !.dir_sector_buf = dir']]
    /\ wanted' = [Forgotten(f, 0) EXCEPT !.dropped = @ \ {f}]
    /\ disk' = Held(disk)
    /\ UNCHANGED op

\* m65ftp_unlink()
Unlink(f) ==
    /\ Idle
    /\ dir[f] # Absent
    /\ MayDelete(f)
    /\ fat' = Deleted(f)
    /\ dir' = [dir EXCEPT ![f] = Absent]
    /\ wanted' = [Forgotten(f, 0) EXCEPT !.dropped = @ \ {f}]
    /\ disk' = Held(disk)
    /\ UNCHANGED <<s_files, pool, op>>

-----------------------------------------------------------------------------
(***************************************************************************)
(* Buffers and entries.  fi is a descriptor's record.                      *)
(***************************************************************************)

\* set_entry_first_cluster(), set_entry_file_size()
SetEntry(fi, first, size) ==
    [fi EXCEPT !.dir_sector_buf[fi.file] = [first |-> first, size |-> size]]
SetSize(fi, size) == [fi EXCEPT !.dir_sector_buf[fi.file].size = size]

Unbuffered(fi) == [fi EXCEPT !.buffered = FALSE, !.write_buf = FALSE]

\* Faulty: the position stays where the last write left it.
PositionKept(fi, first) ==
    [fi EXCEPT !.first_cluster = first, !.current_cluster = first,
               !.current_cluster_idx = 0]

\* Faulty: the cluster that reads go on from is not reset.
CurrentKept(fi, first) ==
    [fi EXCEPT !.first_cluster = first, !.write_cluster = first, !.sector_in_cluster = 0,
               !.last_offset = 0, !.moved_by = "none"]

\* Where reads and writes go on: at the start.
Rewound(fi, first) ==
    [fi EXCEPT !.first_cluster = first, !.write_cluster = first, !.sector_in_cluster = 0,
               !.last_offset = 0, !.moved_by = "none",
               !.current_cluster = first, !.current_cluster_idx = 0]

\* flush_write_buffer(): the outcome for the volume and the descriptor.
CanFlush(fi) == fi.file_size = 0 \/ Runs(ClustersFor(fi.file_size)) # {}
FlushStart(fi) == IF fi.file_size = 0 THEN 0 ELSE Min(Runs(ClustersFor(fi.file_size)))
Flushed(fi) ==
    LET start == FlushStart(fi)
        written == SetEntry(Unbuffered(fi), start, fi.file_size)
    IN  IF start = 0 THEN [written EXCEPT !.first_cluster = 0] ELSE Rewound(written, start)
FlushedFat(fi) ==
    IF fi.file_size = 0 THEN fat ELSE TakeRun(fat, FlushStart(fi), ClustersFor(fi.file_size))
\* Whole sectors are written, the last of them padded.
FlushedDisk(fi) ==
    LET start == FlushStart(fi)
        sectors == (fi.file_size + SectorChunks - 1) \div SectorChunks
    IN  (disk \ Places(start, 0 .. sectors * SectorChunks - 1))
            \cup (IF fi.write_buf THEN {Place(start, wanted.offset)} ELSE {})

\* m65ftp_fsync(); without a buffer nothing changes here.
Fsync(fd) ==
    /\ Idle
    /\ InUse(fd)
    /\ s_files[fd].buffered
    /\ CanFlush(s_files[fd])
    /\ s_files' = [s_files EXCEPT ![fd] = Flushed(s_files[fd])]
    /\ fat' = FlushedFat(s_files[fd])
    /\ disk' = FlushedDisk(s_files[fd])
    /\ dir' = Flushed(s_files[fd]).dir_sector_buf
    /\ UNCHANGED <<pool, op, wanted>>

Release(fd) ==
    /\ s_free_fds' = Append(s_free_fds, fd)
    /\ s_files' = [s_files EXCEPT ![fd] = Closed]
    /\ UNCHANGED s_file_count

\* m65ftp_close(): the entry is written once more.  When the buffer cannot be
\* flushed its data is dropped, but the entry gets its size.
Close(fd) ==
    LET fi == s_files[fd] IN
    /\ Idle
    /\ InUse(fd)
    /\ Release(fd)
    /\ \/ /\ ~fi.is_writable
          /\ UNCHANGED <<volume, wanted>>
       \/ /\ fi.is_writable /\ fi.buffered /\ CanFlush(fi)
          /\ fat' = FlushedFat(fi)
          /\ disk' = FlushedDisk(fi)
          /\ dir' = Flushed(fi).dir_sector_buf
          /\ UNCHANGED wanted
       \/ /\ fi.is_writable /\ fi.buffered /\ ~CanFlush(fi)
          /\ dir' = SetSize(fi, fi.file_size).dir_sector_buf
          /\ wanted' = [Forgotten(fi.file, 0) EXCEPT !.dropped = @ \cup {fi.file}]
          /\ disk' = Held(disk)
          /\ UNCHANGED fat
       \/ /\ fi.is_writable /\ ~fi.buffered
          /\ dir' = SetSize(fi, fi.file_size).dir_sector_buf
          /\ UNCHANGED <<fat, disk, wanted>>
    /\ UNCHANGED op

-----------------------------------------------------------------------------
(***************************************************************************)
(* m65ftp_pread()                                                          *)
(***************************************************************************)

\* The remembered cluster is used whenever the offset is last_offset, whoever moved
\* last_offset there.
ReadFrom(fi, offset) ==
    IF offset = fi.last_offset
    THEN [cluster |-> fi.current_cluster, index |-> fi.current_cluster_idx]
    ELSE [cluster |-> fi.first_cluster, index |-> 0]

\* The loop goes on from there to the cluster of each chunk, but never back.
ReadCluster(fi, offset, k) ==
    LET from == ReadFrom(fi, offset)
    IN  Walk(from.cluster, Larger(from.index, k \div ClusterChunks) - from.index)

\* How many of count chunks are read: up to the end of the file or of the chain, and
\* none of a file without clusters.
ReadCount(fi, offset, count) ==
    LET end == Smaller(offset + count, fi.file_size)
    IN  CASE fi.buffered -> Larger(end - offset, 0)
          [] ~fi.buffered /\ fi.first_cluster = 0 -> 0
          [] OTHER -> Cardinality({k \in offset .. end - 1 : ReadCluster(fi, offset, k) < Eoc})

\* Whether what is returned for the tracked offset is the data written there.
ReadsWritten(fi, offset) ==
    LET k == wanted.offset
    IN  IF fi.buffered THEN fi.write_buf
        ELSE <<ReadCluster(fi, offset, k), k % ClusterChunks>> \in disk

MayRead(fi, offset) ==
    ~fi.buffered /\ offset = fi.last_offset /\ fi.moved_by = "pwrite" => "mixed positions" \in Usage

\* pread() with something to read: the position it leaves.
Pread(fd, offset, count) ==
    LET fi == s_files[fd]
        end == offset + ReadCount(fi, offset, count)
        last == (Smaller(offset + count, fi.file_size) - 1) \div ClusterChunks
    IN  /\ Idle
        /\ InUse(fd) /\ ~fi.buffered
        /\ fi.first_cluster # 0 /\ offset < fi.file_size
        /\ MayRead(fi, offset)
        /\ s_files' = [s_files EXCEPT
               ![fd].current_cluster = ReadCluster(fi, offset, last * ClusterChunks),
               ![fd].current_cluster_idx = Larger(ReadFrom(fi, offset).index, last),
               ![fd].last_offset = end, ![fd].moved_by = "pread"]
        /\ UNCHANGED <<volume, pool, op, wanted>>

-----------------------------------------------------------------------------
(***************************************************************************)
(* m65ftp_pwrite()                                                         *)
(***************************************************************************)

\* The tracked chunk is among those of file f that are written; what was written to
\* it before is then old, wherever it lies.
Outdated(f, new) == f = wanted.file /\ wanted.offset \in new

\* The history after done chunks have been written at offset.
Wrote(f, offset, done) ==
    [wanted EXCEPT !.size[f] = Larger(@, offset + done),
                   !.written = @ \/ Outdated(f, offset .. offset + done - 1)]

PwriteBuffered(fd, offset, count) ==
    LET fi == s_files[fd]
        new == offset .. offset + count - 1
    IN  /\ Idle
        /\ InUse(fd) /\ fi.buffered
        /\ offset + count <= BufferLimit
        /\ s_files' = [s_files EXCEPT
               ![fd].write_buf = @ \/ Outdated(fi.file, new),
               ![fd].file_size = Larger(@, offset + count)]
        /\ disk' = IF Outdated(fi.file, new) THEN {} ELSE disk
        /\ wanted' = Wrote(fi.file, offset, count)
        /\ UNCHANGED <<fat, dir, pool, op>>

\* The remembered position is used whenever the offset is last_offset, whoever
\* moved last_offset there.
Resumes(fi, offset) == offset = fi.last_offset /\ offset > 0 /\ fi.write_cluster # 0

\* Where the loop begins: at the remembered position, or at the end of a walk
\* from the first cluster, which may be too short.
Position(fi, offset) ==
    LET target == offset \div ClusterChunks
        links == LinksFrom(fi.first_cluster, target)
    IN  IF Resumes(fi, offset)
        THEN [cluster |-> fi.write_cluster, sector |-> fi.sector_in_cluster]
        ELSE [cluster |-> Walk(fi.first_cluster, links),
              sector |-> IF links < target THEN ClusterSectors
                         ELSE (offset % ClusterChunks) \div SectorChunks]

\* What callers keep away from unless Usage says so.
Served(fi, offset) ==
    /\ fi.first_cluster = 0 => "empty files" \in Usage
    /\ offset > fi.file_size => "gaps" \in Usage
    /\ Resumes(fi, offset) => /\ fi.moved_by = "pread" => "mixed positions" \in Usage
                              /\ offset % SectorChunks # 0 => "partial sectors" \in Usage

StartWriting(fi, fd, offset, count) ==
    op' = [NoOp EXCEPT !.at = "write", !.fd = fd, !.offset = offset, !.count = count,
                       !.cluster = Position(fi, offset).cluster,
                       !.index = Position(fi, offset).sector]

PwriteDirect(fd, offset, count) ==
    LET fi == s_files[fd] IN
    /\ Idle
    /\ InUse(fd) /\ fi.is_writable /\ ~fi.buffered
    /\ Served(fi, offset)
    /\ StartWriting(fi, fd, offset, count)
    /\ UNCHANGED <<volume, s_files, pool, wanted>>

\* The buffer would grow beyond its limit: it is flushed and the data written
\* behind it.  If it cannot be flushed the call fails.
PwriteOverflow(fd, offset, count) ==
    LET fi == s_files[fd] IN
    /\ Idle
    /\ InUse(fd) /\ fi.buffered
    /\ offset + count > BufferLimit
    /\ CanFlush(fi)
    /\ Served(Flushed(fi), offset)
    /\ s_files' = [s_files EXCEPT ![fd] = Flushed(fi)]
    /\ fat' = FlushedFat(fi)
    /\ disk' = FlushedDisk(fi)
    /\ dir' = Flushed(fi).dir_sector_buf
    /\ op' = [NoOp EXCEPT !.at = "overflow", !.fd = fd, !.offset = offset, !.count = count]
    /\ UNCHANGED <<pool, wanted>>

PwriteOverflowDirect ==
    /\ op.at = "overflow"
    /\ StartWriting(s_files[op.fd], op.fd, op.offset, op.count)
    /\ UNCHANGED <<volume, s_files, pool, wanted>>

\* The length of the run that a write behind the last cluster takes: the largest
\* power of two up to one more than it needs, but at least two and at most 64, and
\* less if there is no such run; in the end one cluster.
Batch(left) ==
    LET most == ClustersFor(left) + 1
        tried == {n \in {2, 4, 8, 16, 32, 64} : n <= Larger(most, 2) /\ Runs(n) # {}}
    IN  IF tried # {} THEN Max(tried) ELSE 1

\* Where it begins: a single cluster is searched for from cluster c on.
BatchStart(c, n) ==
    LET behind == {d \in Runs(n) : d >= c}
    IN  IF n = 1 /\ behind # {} THEN Min(behind) ELSE Min(Runs(n))

\* One iteration with the sector at hand: s of cluster c.
WriteChunks(c, s) ==
    LET at == op.offset + op.done
        within == at % SectorChunks
        n == Smaller(SectorChunks - within, op.count - op.done)
        f == s_files[op.fd].file
        slot == s * SectorChunks + within
    IN  /\ disk' = IF Outdated(f, at .. at + n - 1)
                   THEN {Place(c, slot + wanted.offset - at)}
                   ELSE disk \ Places(c, slot .. slot + n - 1)
        /\ op' = [op EXCEPT !.cluster = c, !.index = s + 1, !.done = @ + n]

\* Faulty: the end of a cluster is not noticed.
PwriteOn ==
    /\ op.at = "write"
    /\ op.done < op.count
    /\ WriteChunks(op.cluster, op.index)
    /\ UNCHANGED <<fat, dir, s_files, pool, wanted>>

\* The sector is in the cluster at hand.
PwriteSector ==
    /\ op.at = "write"
    /\ op.done < op.count
    /\ op.index < ClusterSectors
    /\ WriteChunks(op.cluster, op.index)
    /\ UNCHANGED <<fat, dir, s_files, pool, wanted>>

\* Behind the last sector of a cluster: the next one of the chain.
PwriteNextCluster ==
    /\ op.at = "write"
    /\ op.done < op.count
    /\ op.index >= ClusterSectors
    /\ IsLink(Chained(op.cluster))
    /\ WriteChunks(Chained(op.cluster), 0)
    /\ UNCHANGED <<fat, dir, s_files, pool, wanted>>

PwriteExtend ==
    /\ op.at = "write"
    /\ op.done < op.count
    /\ op.index >= ClusterSectors
    /\ ~IsLink(Chained(op.cluster))
    /\ LET n == Batch(op.count - op.done)
           start == BatchStart(op.cluster, n)
       IN  /\ Runs(n) # {}
           /\ fat' = [TakeRun(fat, start, n) EXCEPT ![op.cluster] = start]
           /\ WriteChunks(start, 0)
    /\ UNCHANGED <<dir, s_files, pool, wanted>>

\* No cluster is free: the call fails, or returns what it has written.
PwriteFull ==
    /\ op.at = "write"
    /\ op.done < op.count
    /\ op.index >= ClusterSectors
    /\ ~IsLink(Chained(op.cluster)) /\ Runs(1) = {}
    /\ op' = IF op.done = 0 THEN NoOp ELSE [op EXCEPT !.count = op.done]
    /\ UNCHANGED <<volume, s_files, pool, wanted>>

\* Faulty: the copy of the directory sector is not written.
PwriteEndUnsaved ==
    LET fi == s_files[op.fd]
        size == Larger(fi.file_size, op.offset + op.done)
    IN  /\ op.at = "write"
        /\ op.done = op.count
        /\ s_files' = [s_files EXCEPT ![op.fd] =
               [SetSize(fi, size) EXCEPT !.write_cluster = op.cluster,
                    !.sector_in_cluster = op.index, !.file_size = size,
                    !.last_offset = op.offset + op.done, !.moved_by = "pwrite"]]
        /\ wanted' = Wrote(fi.file, op.offset, op.done)
        /\ op' = NoOp
        /\ UNCHANGED <<volume, pool>>

\* The position and the entry; the copy of the directory sector is written.
PwriteEnd ==
    LET fi == s_files[op.fd]
        size == Larger(fi.file_size, op.offset + op.done)
    IN  /\ op.at = "write"
        /\ op.done = op.count
        /\ s_files' = [s_files EXCEPT ![op.fd] =
               [SetSize(fi, size) EXCEPT !.write_cluster = op.cluster,
                    !.sector_in_cluster = op.index, !.file_size = size,
                    !.last_offset = op.offset + op.done, !.moved_by = "pwrite"]]
        /\ dir' = SetSize(fi, size).dir_sector_buf
        /\ wanted' = Wrote(fi.file, op.offset, op.done)
        /\ op' = NoOp
        /\ UNCHANGED <<fat, disk, pool>>

-----------------------------------------------------------------------------
(***************************************************************************)
(* m65ftp_ftruncate()                                                      *)
(***************************************************************************)

\* Only the size changes: the buffer keeps what was cut off.
TruncateBuffered(fd, size) ==
    LET fi == s_files[fd]
        emptied == SetEntry(Rewound([fi EXCEPT !.write_buf = FALSE, !.file_size = 0], 0), 0, 0)
    IN  /\ Idle
        /\ InUse(fd) /\ fi.buffered
        /\ wanted' = Forgotten(fi.file, size)
        /\ \/ /\ size = 0
              /\ s_files' = [s_files EXCEPT ![fd] = emptied]
              /\ dir' = emptied.dir_sector_buf
           \/ /\ size > 0
              /\ s_files' = [s_files EXCEPT ![fd].file_size = size,
                                            ![fd].write_buf = @ /\ wanted'.written]
              /\ UNCHANGED dir
        /\ disk' = Held(disk)
        /\ UNCHANGED <<fat, pool, op>>

\* The descriptor after a truncation in place, with a new first cluster.
Cut(fi, first, size) ==
    Rewound([SetEntry(fi, first, size) EXCEPT !.file_size = size], first)

\* The copy of the old chain's data in the run from start: whole sectors, as far
\* as the file or its chain goes.
Copied(fi, start, size) ==
    LET sectors == (Smaller(fi.file_size, size) + SectorChunks - 1) \div SectorChunks
        copied == 0 .. Smaller(sectors * SectorChunks,
                               ClusterChunks * Cardinality(ChainOf(fi.first_cluster))) - 1
        source(k) == <<Walk(fi.first_cluster, k \div ClusterChunks), k % ClusterChunks>>
    IN  (disk \ Places(start, copied))
            \cup {Place(start, k) : k \in {j \in copied : source(j) \in disk}}

TruncateDirect(fd, size) ==
    LET fi == s_files[fd]
        first == fi.first_cluster
        need == ClustersFor(size)
        length == Cardinality(ChainOf(first))
    IN  /\ Idle
        /\ InUse(fd) /\ fi.is_writable /\ ~fi.buffered
        /\ wanted' = Forgotten(fi.file, size)
        /\ \/ /\ size = 0
              /\ fat' = FreeChain(fat, first)
              /\ s_files' = [s_files EXCEPT ![fd] = Cut(fi, 0, 0)]
              /\ disk' = Held(disk)
           \/ /\ size > 0 /\ first # 0 /\ need > length
              /\ Runs(need) # {}
              /\ LET start == Min(Runs(need)) IN
                    /\ fat' = TakeRun(FreeChain(fat, first), start, need)
                    /\ disk' = Held(Copied(fi, start, size))
                    /\ s_files' = [s_files EXCEPT ![fd] = Cut(fi, start, size)]
           \/ /\ size > 0 /\ first # 0 /\ need < length
              /\ LET last == Walk(first, need - 1) IN
                    fat' = [FreeChain(fat, Chained(last)) EXCEPT ![last] = Eoc]
              /\ s_files' = [s_files EXCEPT ![fd] = Cut(fi, first, size)]
              /\ disk' = Held(disk)
           \/ /\ size > 0 /\ first # 0 /\ need = length
              /\ s_files' = [s_files EXCEPT ![fd] = Cut(fi, first, size)]
              /\ disk' = Held(disk)
              /\ UNCHANGED fat
        /\ dir' = s_files'[fd].dir_sector_buf
        /\ UNCHANGED <<pool, op>>

-----------------------------------------------------------------------------
Call ==
    \/ \E f \in Files : Open(f) \/ OpenWritable(f) \/ Create(f) \/ Unlink(f)
    \/ \E fd \in Fds :
          \/ Fsync(fd) \/ Close(fd)
          \/ \E offset \in Offsets, count \in 1 .. MaxSize :
                /\ offset + count <= MaxSize
                /\ \/ Pread(fd, offset, count)
                   \/ PwriteBuffered(fd, offset, count) \/ PwriteDirect(fd, offset, count)
                   \/ PwriteOverflow(fd, offset, count)
          \/ \E size \in Sizes : TruncateBuffered(fd, size) \/ TruncateDirect(fd, size)

Step ==
    \/ PwriteOverflowDirect \/ PwriteSector \/ PwriteNextCluster \/ PwriteExtend
    \/ PwriteFull \/ PwriteEnd

Next == Call \/ Step

Spec == Init /\ [][Next]_vars

-----------------------------------------------------------------------------
(***************************************************************************)
(* Properties                                                              *)
(***************************************************************************)

Entries == [first : AnyCluster, size : Sizes] \cup {Absent}

Handles ==
    [in_use : BOOLEAN, file : Files \cup {Absent}, first_cluster : AnyCluster,
     file_size : Sizes, current_cluster : 0 .. Eoc, current_cluster_idx : Sizes,
     last_offset : Sizes, is_writable : BOOLEAN, buffered : BOOLEAN, write_buf : BOOLEAN,
     dir_sector_buf : [Files -> Entries], write_cluster : AnyCluster,
     sector_in_cluster : 0 .. ClusterSectors, moved_by : {"none", "pread", "pwrite"}]

TypeOK ==
    /\ fat \in [AnyCluster -> 0 .. Eoc]
    /\ disk \subseteq AnyCluster \X (0 .. ClusterChunks - 1)
    /\ dir \in [Files -> Entries]
    /\ s_files \in [Fds -> Handles]
    /\ s_file_count \in 0 .. MaxFiles
    /\ s_free_fds \in Seq(Fds)
    /\ op \in [at : {"idle", "overflow", "write"}, fd : Fds, offset : Offsets, count : Sizes,
               done : Sizes, cluster : AnyCluster, index : 0 .. ClusterSectors]
    /\ wanted \in [file : Files, offset : Offsets, size : [Files -> Sizes],
                   written : BOOLEAN, dropped : SUBSET Files]

\* Every descriptor that was ever handed out is either open or on the stack, and
\* there once: none is given to two callers and none is lost, however often files
\* are opened and closed and whatever call fails.
FdSound ==
    /\ \A i, j \in 1 .. Len(s_free_fds) : s_free_fds[i] = s_free_fds[j] => i = j
    /\ \A fd \in Fds : fd < s_file_count =>
          (s_files[fd].in_use <=> \A i \in 1 .. Len(s_free_fds) : s_free_fds[i] # fd)

Buffering(f) == {fd \in Readers(f) : s_files[fd].buffered}

\* "Write count bytes at offset": between two calls what has been written to a file
\* lies where its directory entry, the chain and the offset say, or in the buffer of
\* the descriptor that created it.
DataInPlace ==
    Idle /\ wanted.written =>
        LET f == wanted.file
            k == wanted.offset
            c == Walk(dir[f].first, k \div ClusterChunks)
        IN  IF Buffering(f) # {} THEN \E fd \in Buffering(f) : s_files[fd].write_buf
            ELSE c \in Clusters /\ <<c, k % ClusterChunks>> \in disk

\* pread() returns what was written, all of it up to the end of the file, whether
\* it comes from the buffer or from the card, after a walk or from the position
\* the last call left.
ReadReturnsWritten ==
    Idle /\ wanted.written =>
        \A fd \in Readers(wanted.file), offset \in Offsets, count \in 1 .. MaxSize :
            LET fi == s_files[fd]
                k == wanted.offset
            IN  MayRead(fi, offset) /\ k \in offset .. offset + count - 1 =>
                    /\ k - offset < ReadCount(fi, offset, count)
                    /\ ReadsWritten(fi, offset)

\* The entry on the card gives the size of every file that is not in a buffer, and
\* enough clusters for it: a file that is read after a remount is whole.
EntryIsRight ==
    Idle => \A f \in Files \ wanted.dropped : dir[f] # Absent /\ Buffering(f) = {} =>
        /\ dir[f].size = wanted.size[f]
        /\ Cardinality(ChainOf(dir[f].first)) >= ClustersFor(dir[f].size)

\* A cluster belongs to one file at most, and none of a file's is free.
ChainsDisjoint ==
    Idle => \A f, g \in Files : dir[f] # Absent /\ dir[g] # Absent =>
        /\ \A c \in ChainOf(dir[f].first) : fat[c] # Free
        /\ f # g => ChainOf(dir[f].first) \cap ChainOf(dir[g].first) = {}
=============================================================================
