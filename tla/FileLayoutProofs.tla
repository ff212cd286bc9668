-------------------------- MODULE FileLayoutProofs --------------------------
(***************************************************************************)
(* The pool of descriptors of FileHandles is sound however many there are  *)
(* and however callers use them.  And whose clusters are whose, for any    *)
(* number of files, descriptors and clusters, as long as callers share no  *)
(* directory sector and leave files without a cluster alone: every         *)
(* variable keeps its type, no two files share a cluster and none of a     *)
(* file's clusters is free.                                                *)
(*                                                                         *)
(* FdSound alone is not inductive: a descriptor that has never been handed *)
(* out must not be on the stack, and every call must leave the flag in_use *)
(* of a descriptor as it was while it changes the rest of the record.      *)
(*                                                                         *)
(* ChainsDisjoint speaks of walks along the FAT, which no step of a call   *)
(* can be followed through.  So the invariant says that some layout exists *)
(* (Sound): a sequence of clusters for every file, without repetitions,    *)
(* that the FAT links from the first to an end marker.  Each call takes    *)
(* one file's sequence to another: a flush to a run of free clusters, a    *)
(* write to a longer one, a truncation to a prefix or to a run, a deletion *)
(* to none.  Such a step is only possible because descriptors agree with   *)
(* the entries of their files (HandleSound) and because the one that       *)
(* writes is alone (WriterAlone): its copy of the directory sector, which  *)
(* it writes back, is what is on the card.                                 *)
(***************************************************************************)
EXTENDS FileHandles, SequenceTheorems, FiniteSetTheorems, WellFoundedInduction, TLAPS

-----------------------------------------------------------------------------
(***************************************************************************)
(* The pool of descriptors                                                 *)
(***************************************************************************)

\* Descriptors are records of which in_use is a field.
FilesTyped ==
    /\ s_files = [fd \in Fds |-> s_files[fd]]
    /\ \A fd \in Fds : "in_use" \in DOMAIN s_files[fd] /\ s_files[fd].in_use \in BOOLEAN

\* The stack holds descriptors that have been handed out.
PoolTyped ==
    /\ s_file_count \in 0 .. MaxFiles
    /\ s_free_fds \in Seq(Fds)
    /\ \A i \in 1 .. Len(s_free_fds) : s_free_fds[i] < s_file_count

IInv == FilesTyped /\ PoolTyped /\ FdSound

\* r can take the place of descriptor fd: it is open if and only if fd was.
SameUse(r, fd) == "in_use" \in DOMAIN r /\ r.in_use = s_files[fd].in_use

-----------------------------------------------------------------------------
\* A descriptor from alloc_fd() is not on the stack any more.
LEMMA AllocKeepsIInv ==
    ASSUME IInv, NEW fd \in Fds, AllocFd(fd),
           NEW r, "in_use" \in DOMAIN r, r.in_use = TRUE,
           s_files' = [s_files EXCEPT ![fd] = r]
    PROVE  IInv'
<1> USE FileHandlesAssumption DEF Fds
<1>1. FilesTyped'
  BY DEF IInv, FilesTyped
<1>2. CASE s_free_fds # <<>>
  <2> DEFINE n == Len(s_free_fds)
  <2>1. /\ n \in Nat \ {0}
        /\ fd = s_free_fds[n]
        /\ s_free_fds' = SubSeq(s_free_fds, 1, n - 1)
        /\ s_file_count' = s_file_count
    BY <1>2, EmptySeq DEF IInv, PoolTyped, AllocFd
  <2>2. /\ Len(s_free_fds') = n - 1
        /\ s_free_fds' \in Seq(Fds)
        /\ \A i \in 1 .. n - 1 : s_free_fds'[i] = s_free_fds[i]
    <3>1. s_free_fds \in Seq(Fds) /\ \A i \in 1 .. n - 1 : s_free_fds[i] \in Fds
      BY <2>1, ElementOfSeq DEF IInv, PoolTyped
    <3> HIDE DEF Fds, n
    <3> QED
      BY <2>1, <3>1, SubSeqProperties
  <2>3. PoolTyped'
    BY <2>1, <2>2 DEF IInv, PoolTyped
  <2>4. FdSound'
    <3>1. \A i, j \in 1 .. Len(s_free_fds') : s_free_fds'[i] = s_free_fds'[j] => i = j
      BY <2>1, <2>2 DEF IInv, FdSound
    <3>2. ASSUME NEW d \in Fds, d < s_file_count'
          PROVE  s_files'[d].in_use <=> \A i \in 1 .. Len(s_free_fds') : s_free_fds'[i] # d
      <4>1. CASE d = fd
        <5>1. \A i \in 1 .. n - 1 : s_free_fds[i] # fd
          BY <2>1 DEF IInv, FdSound
        <5> QED
          BY <4>1, <5>1, <2>2 DEF IInv, FilesTyped
      <4>2. CASE d # fd
        <5>1. s_files'[d].in_use = s_files[d].in_use
          BY <4>2 DEF IInv, FilesTyped
        <5>2. s_files[d].in_use <=> \A i \in 1 .. n : s_free_fds[i] # d
          BY <3>2, <2>1 DEF IInv, FdSound
        <5>3. (\A i \in 1 .. n : s_free_fds[i] # d) <=> (\A i \in 1 .. n - 1 : s_free_fds[i] # d)
          BY <4>2, <2>1
        <5> QED
          BY <5>1, <5>2, <5>3, <2>2
      <4> QED
        BY <4>1, <4>2
    <3> QED
      BY <3>1, <3>2 DEF FdSound
  <2> QED
    BY <1>1, <2>3, <2>4 DEF IInv
<1>3. CASE s_free_fds = <<>>
  <2>1. /\ s_file_count < MaxFiles /\ fd = s_file_count
        /\ s_file_count' = s_file_count + 1 /\ s_free_fds' = <<>>
    BY <1>3 DEF AllocFd
  <2>2. PoolTyped'
    BY <2>1, <1>3 DEF IInv, PoolTyped
  <2>3. FdSound'
    <3>1. ASSUME NEW d \in Fds, d < s_file_count'  PROVE s_files'[d].in_use
      <4>1. CASE d = fd
        BY <4>1 DEF IInv, FilesTyped
      <4>2. CASE d # fd
        BY <4>2, <3>1, <2>1, <1>3 DEF IInv, FilesTyped, PoolTyped, FdSound
      <4> QED
        BY <4>1, <4>2
    <3> QED
      BY <3>1, <2>1 DEF FdSound
  <2> QED
    BY <1>1, <2>2, <2>3 DEF IInv
<1> QED
  BY <1>2, <1>3

\* A call that changes the record of a descriptor and neither opens nor closes it.
LEMMA UpdateKeepsIInv ==
    ASSUME IInv, NEW fd \in Fds, NEW r, SameUse(r, fd), UNCHANGED pool,
           s_files' = [s_files EXCEPT ![fd] = r]
    PROVE  IInv'
<1>1. FilesTyped'
  BY DEF IInv, FilesTyped, SameUse
<1>2. \A d \in Fds : s_files'[d].in_use = s_files[d].in_use
  BY DEF IInv, FilesTyped, SameUse
<1> QED
  BY <1>1, <1>2 DEF IInv, PoolTyped, FdSound, pool

\* A call that leaves descriptors alone.
LEMMA UnchangedKeepsIInv ==
    ASSUME IInv, UNCHANGED <<pool, s_files>>
    PROVE  IInv'
BY DEF IInv, FilesTyped, PoolTyped, FdSound, pool

\* Only a descriptor in use is closed, so it is not on the stack yet.
LEMMA ReleaseKeepsIInv ==
    ASSUME IInv, NEW fd \in Fds, InUse(fd), Release(fd)
    PROVE  IInv'
<1> USE FileHandlesAssumption DEF Fds
<1> DEFINE n == Len(s_free_fds)
<1>1. /\ n \in Nat
      /\ s_free_fds' \in Seq(Fds)
      /\ Len(s_free_fds') = n + 1
      /\ s_free_fds'[n + 1] = fd
      /\ \A i \in 1 .. n : s_free_fds'[i] = s_free_fds[i]
  BY DEF IInv, PoolTyped, Release
<1>2. \A i \in 1 .. n : s_free_fds[i] # fd
  BY DEF IInv, FdSound, InUse
<1>3. s_file_count' = s_file_count /\ fd < s_file_count
  BY DEF Release, InUse
<1>4. FilesTyped'
  BY DEF IInv, FilesTyped, Release, Closed
<1>5. PoolTyped'
  <2>1. ASSUME NEW i \in 1 .. n + 1  PROVE s_free_fds'[i] < s_file_count
    <3>1. CASE i \in 1 .. n
      BY <3>1, <1>1 DEF IInv, PoolTyped
    <3>2. CASE i = n + 1
      BY <3>2, <1>1, <1>3
    <3> QED
      BY <1>1, <2>1, <3>1, <3>2
  <2> QED
    BY <1>1, <1>3, <2>1 DEF IInv, PoolTyped
<1>6. FdSound'
  <2>1. \A i, j \in 1 .. n + 1 : s_free_fds'[i] = s_free_fds'[j] => i = j
    <3>1. \A i, j \in 1 .. n : s_free_fds[i] = s_free_fds[j] => i = j
      BY DEF IInv, FdSound
    <3> HIDE DEF n
    <3>2. \A i \in 1 .. n + 1 : i \in 1 .. n \/ i = n + 1
      BY <1>1
    <3> QED
      BY <1>1, <1>2, <3>1, <3>2
  <2>2. ASSUME NEW d \in Fds, d < s_file_count'
        PROVE  s_files'[d].in_use <=> \A i \in 1 .. Len(s_free_fds') : s_free_fds'[i] # d
    <3>1. CASE d = fd
      <4>1. ~s_files'[fd].in_use
        BY DEF IInv, FilesTyped, Release, Closed
      <4> QED
        BY <3>1, <4>1, <1>1
    <3>2. CASE d # fd
      <4>1. s_files'[d].in_use = s_files[d].in_use
        BY <3>2 DEF IInv, FilesTyped, Release
      <4>2. s_files[d].in_use <=> \A i \in 1 .. n : s_free_fds[i] # d
        BY <2>2, <1>3 DEF IInv, FdSound
      <4> QED
        BY <4>1, <4>2, <3>2, <1>1, SMTT(30)
    <3> QED
      BY <3>1, <3>2
  <2> QED
    BY <1>1, <2>1, <2>2 DEF FdSound
<1> QED
  BY <1>4, <1>5, <1>6 DEF IInv

-----------------------------------------------------------------------------
\* What is done to a descriptor's record leaves in_use alone.
LEMMA SetEntrySameUse ==
    ASSUME NEW fi, "in_use" \in DOMAIN fi, NEW first, NEW size
    PROVE  /\ "in_use" \in DOMAIN SetEntry(fi, first, size)
           /\ SetEntry(fi, first, size).in_use = fi.in_use
           /\ "in_use" \in DOMAIN SetSize(fi, size)
           /\ SetSize(fi, size).in_use = fi.in_use
BY DEF SetEntry, SetSize

LEMMA RewoundSameUse ==
    ASSUME NEW fi, "in_use" \in DOMAIN fi, NEW first
    PROVE  /\ "in_use" \in DOMAIN Rewound(fi, first)
           /\ Rewound(fi, first).in_use = fi.in_use
BY DEF Rewound

LEMMA FlushedSameUse ==
    ASSUME NEW fi, "in_use" \in DOMAIN fi
    PROVE  "in_use" \in DOMAIN Flushed(fi) /\ Flushed(fi).in_use = fi.in_use
<1> DEFINE start == FlushStart(fi)
           bare == Unbuffered(fi)
           written == SetEntry(bare, start, fi.file_size)
<1>1. "in_use" \in DOMAIN bare /\ bare.in_use = fi.in_use
  BY DEF Unbuffered
<1> HIDE DEF bare
<1>2. "in_use" \in DOMAIN written /\ written.in_use = fi.in_use
  BY <1>1, SetEntrySameUse
<1>3. Flushed(fi) = IF start = 0 THEN [written EXCEPT !.first_cluster = 0] ELSE Rewound(written, start)
  BY DEF Flushed, bare
<1> HIDE DEF written, start
<1> QED
  BY <1>2, <1>3, RewoundSameUse

LEMMA CutSameUse ==
    ASSUME NEW fi, "in_use" \in DOMAIN fi, NEW first, NEW size
    PROVE  "in_use" \in DOMAIN Cut(fi, first, size) /\ Cut(fi, first, size).in_use = fi.in_use
<1> DEFINE entered == SetEntry(fi, first, size)
           cut == [entered EXCEPT !.file_size = size]
<1>1. "in_use" \in DOMAIN entered /\ entered.in_use = fi.in_use
  BY SetEntrySameUse
<1> HIDE DEF entered
<1>2. "in_use" \in DOMAIN cut /\ cut.in_use = fi.in_use
  BY <1>1
<1>3. Cut(fi, first, size) = Rewound(cut, first)
  BY DEF Cut, entered
<1> HIDE DEF cut
<1> QED
  BY <1>2, <1>3, RewoundSameUse

-----------------------------------------------------------------------------
LEMMA InitIInv == Init => IInv
<1> SUFFICES ASSUME Init PROVE IInv
  OBVIOUS
<1>1. FilesTyped
  BY DEF Init, FilesTyped, Closed
<1>2. s_free_fds \in Seq(Fds) /\ Len(s_free_fds) = 0
  BY EmptySeq DEF Init
<1> QED
  BY <1>1, <1>2, FileHandlesAssumption DEF Init, IInv, PoolTyped, FdSound, Fds

\* open() and open_writable() use a free descriptor.
LEMMA OpenKeepsIInv ==
    ASSUME IInv, NEW f \in Files, Open(f) \/ OpenWritable(f)
    PROVE  IInv'
<1>1. \A e : "in_use" \in DOMAIN Opened(f, e) /\ Opened(f, e).in_use = TRUE
  BY DEF Opened, Closed
<1>2. \E fd \in Fds : \E r : /\ AllocFd(fd)
                             /\ "in_use" \in DOMAIN r /\ r.in_use = TRUE
                             /\ s_files' = [s_files EXCEPT ![fd] = r]
  <2>1. CASE Open(f)
    BY <2>1, <1>1 DEF Open
  <2>2. CASE OpenWritable(f)
    <3> DEFINE opened == Opened(f, dir[f])
    <3> HIDE DEF opened
    <3>1. PICK fd \in Fds :
             /\ AllocFd(fd)
             /\ s_files' = [s_files EXCEPT ![fd] =
                   [opened EXCEPT !.is_writable = TRUE, !.dir_sector_buf = dir,
                                  !.write_cluster = dir[f].first]]
      BY <2>2 DEF OpenWritable, opened
    <3>2. "in_use" \in DOMAIN opened /\ opened.in_use = TRUE
      BY <1>1 DEF opened
    <3> QED
      BY <3>1, <3>2
  <2> QED
    BY <2>1, <2>2
<1> QED
  BY <1>2, AllocKeepsIInv

\* create() uses a free descriptor, or fails and leaves all of them alone.
LEMMA CreateKeepsIInv ==
    ASSUME IInv, NEW f \in Files, Create(f)
    PROVE  IInv'
<1>1. CASE UNCHANGED <<pool, s_files>>
  BY <1>1, UnchangedKeepsIInv
<1>2. ASSUME NEW fd \in Fds, AllocFd(fd),
             s_files' = [s_files EXCEPT ![fd] =
                 [Opened(f, NoEntry) EXCEPT !.is_writable = TRUE, !.buffered = TRUE,
                                            !.dir_sector_buf = dir']]
      PROVE  IInv'
  <2> DEFINE opened == Opened(f, NoEntry)
             r == [opened EXCEPT !.is_writable = TRUE, !.buffered = TRUE, !.dir_sector_buf = dir']
  <2>1. "in_use" \in DOMAIN opened /\ opened.in_use = TRUE
    BY DEF Opened, Closed
  <2> HIDE DEF opened
  <2>2. "in_use" \in DOMAIN r /\ r.in_use = TRUE
    BY <2>1
  <2>3. s_files' = [s_files EXCEPT ![fd] = r]
    BY <1>2 DEF opened
  <2> HIDE DEF r
  <2> QED
    BY <1>2, <2>2, <2>3, AllocKeepsIInv
<1> QED
  BY <1>1, <1>2 DEF Create

\* The calls on an open descriptor that change its record only.
LEMMA UpdatesKeepIInv ==
    ASSUME IInv, NEW fd \in Fds, NEW offset \in Offsets, NEW count \in Nat, NEW size \in Sizes,
           \/ Fsync(fd) \/ Pread(fd, offset, count) \/ PwriteBuffered(fd, offset, count)
           \/ PwriteOverflow(fd, offset, count)
           \/ TruncateBuffered(fd, size) \/ TruncateDirect(fd, size)
    PROVE  IInv'
<1> DEFINE fi == s_files[fd]
<1>1. "in_use" \in DOMAIN fi
  BY DEF IInv, FilesTyped
<1> SUFFICES UNCHANGED pool /\ \E r : SameUse(r, fd) /\ s_files' = [s_files EXCEPT ![fd] = r]
  BY UpdateKeepsIInv
<1>2. CASE Fsync(fd) \/ PwriteOverflow(fd, offset, count)
  <2>1. SameUse(Flushed(fi), fd)
    BY <1>1, FlushedSameUse DEF SameUse
  <2> QED
    BY <1>2, <2>1 DEF Fsync, PwriteOverflow
<1>3. CASE Pread(fd, offset, count)
  <2> DEFINE c == ReadCluster(fi, offset, ((Smaller(offset + count, fi.file_size) - 1) \div ClusterChunks) * ClusterChunks)
             i == Larger(ReadFrom(fi, offset).index, (Smaller(offset + count, fi.file_size) - 1) \div ClusterChunks)
             o == offset + ReadCount(fi, offset, count)
             r == [fi EXCEPT !.current_cluster = c, !.current_cluster_idx = i,
                             !.last_offset = o, !.moved_by = "pread"]
  <2>1. /\ UNCHANGED pool
        /\ s_files' = [s_files EXCEPT ![fd].current_cluster = c, ![fd].current_cluster_idx = i,
                                      ![fd].last_offset = o, ![fd].moved_by = "pread"]
    BY <1>3 DEF Pread
  <2> HIDE DEF c, i, o
  <2>2. SameUse(r, fd)
    BY <1>1 DEF SameUse
  <2>3. s_files' = [s_files EXCEPT ![fd] = r]
    BY <2>1 DEF IInv, FilesTyped
  <2> QED
    BY <2>1, <2>2, <2>3
<1>4. CASE PwriteBuffered(fd, offset, count)
  <2> DEFINE w == fi.write_buf \/ Outdated(fi.file, offset .. offset + count - 1)
             z == Larger(fi.file_size, offset + count)
             r == [fi EXCEPT !.write_buf = w, !.file_size = z]
  <2>1. UNCHANGED pool /\ s_files' = [s_files EXCEPT ![fd].write_buf = w, ![fd].file_size = z]
    BY <1>4, <1>1 DEF PwriteBuffered
  <2> HIDE DEF w, z
  <2>2. SameUse(r, fd)
    BY <1>1 DEF SameUse
  <2>3. s_files' = [s_files EXCEPT ![fd] = r]
    BY <2>1 DEF IInv, FilesTyped
  <2> QED
    BY <2>1, <2>2, <2>3
<1>5. CASE TruncateBuffered(fd, size)
  <2> DEFINE bare == [fi EXCEPT !.write_buf = FALSE, !.file_size = 0]
             emptied == SetEntry(Rewound(bare, 0), 0, 0)
             w == fi.write_buf /\ wanted'.written
             r == [fi EXCEPT !.file_size = size, !.write_buf = w]
  <2>1. "in_use" \in DOMAIN bare /\ bare.in_use = fi.in_use
    BY <1>1
  <2>2. UNCHANGED pool
    BY <1>5 DEF TruncateBuffered, pool
  <2>3. CASE s_files' = [s_files EXCEPT ![fd] = emptied]
    <3> HIDE DEF bare
    <3>1. SameUse(emptied, fd)
      BY <2>1, RewoundSameUse, SetEntrySameUse DEF SameUse
    <3> QED
      BY <2>2, <2>3, <3>1
  <2>4. CASE s_files' = [s_files EXCEPT ![fd].file_size = size, ![fd].write_buf = w]
    <3> HIDE DEF w
    <3>1. SameUse(r, fd) /\ s_files' = [s_files EXCEPT ![fd] = r]
      BY <1>1, <2>4 DEF SameUse, IInv, FilesTyped
    <3> QED
      BY <2>2, <3>1
  <2> QED
    BY <1>5, <2>3, <2>4 DEF TruncateBuffered
<1>6. CASE TruncateDirect(fd, size)
  <2>1. \A first, n : SameUse(Cut(fi, first, n), fd)
    BY <1>1, CutSameUse DEF SameUse
  <2> QED
    BY <1>6, <2>1 DEF TruncateDirect
<1> QED
  BY <1>2, <1>3, <1>4, <1>5, <1>6

\* close() gives the descriptor back whatever becomes of its data.
LEMMA CloseKeepsIInv ==
    ASSUME IInv, NEW fd \in Fds, Close(fd)
    PROVE  IInv'
BY ReleaseKeepsIInv DEF Close

\* The end of a write changes the record of the descriptor it was called with.
LEMMA PwriteEndKeepsIInv ==
    ASSUME IInv, PwriteEnd
    PROVE  IInv'
<1> DEFINE fi == s_files[op.fd]
           size == Larger(fi.file_size, op.offset + op.done)
           sized == SetSize(fi, size)
           r == [sized EXCEPT !.write_cluster = op.cluster, !.sector_in_cluster = op.index,
                              !.file_size = size, !.last_offset = op.offset + op.done,
                              !.moved_by = "pwrite"]
<1>1. UNCHANGED pool /\ s_files' = [s_files EXCEPT ![op.fd] = r]
  BY DEF PwriteEnd
<1>2. CASE op.fd \in Fds
  <2>1. "in_use" \in DOMAIN fi
    BY <1>2 DEF IInv, FilesTyped
  <2>2. "in_use" \in DOMAIN sized /\ sized.in_use = fi.in_use
    BY <2>1, SetEntrySameUse
  <2> HIDE DEF sized, size
  <2>3. SameUse(r, op.fd)
    BY <2>2 DEF SameUse
  <2> HIDE DEF r
  <2> QED
    BY <1>1, <1>2, <2>3, UpdateKeepsIInv
<1>3. CASE op.fd \notin Fds
  <2> HIDE DEF r
  <2>1. s_files' = s_files
    BY <1>1, <1>3 DEF IInv, FilesTyped
  <2> QED
    BY <1>1, <2>1, UnchangedKeepsIInv
<1> QED
  BY <1>2, <1>3

LEMMA NextIInv == IInv /\ [Next]_vars => IInv'
<1> SUFFICES ASSUME IInv, [Next]_vars PROVE IInv'
  OBVIOUS
<1>1. ASSUME NEW f \in Files, Open(f) \/ OpenWritable(f)  PROVE IInv'
  BY <1>1, OpenKeepsIInv
<1>2. ASSUME NEW f \in Files, Create(f)  PROVE IInv'
  BY <1>2, CreateKeepsIInv
<1>3. ASSUME NEW f \in Files, Unlink(f)  PROVE IInv'
  BY <1>3, UnchangedKeepsIInv DEF Unlink
<1>4. ASSUME NEW fd \in Fds, Close(fd)  PROVE IInv'
  BY <1>4, CloseKeepsIInv
<1>5. ASSUME NEW fd \in Fds, NEW offset \in Offsets, NEW count \in 1 .. MaxSize,
             \/ Pread(fd, offset, count) \/ PwriteBuffered(fd, offset, count)
             \/ PwriteOverflow(fd, offset, count)
      PROVE  IInv'
  BY <1>5, UpdatesKeepIInv, FileHandlesAssumption DEF Sizes
<1>6. ASSUME NEW fd \in Fds, NEW size \in Sizes,
             \/ Fsync(fd) \/ TruncateBuffered(fd, size) \/ TruncateDirect(fd, size)
      PROVE  IInv'
  <2>1. 0 \in Offsets /\ 1 \in Nat
    BY FileHandlesAssumption DEF Offsets
  <2> QED
    BY <1>6, <2>1, UpdatesKeepIInv
<1>7. ASSUME NEW fd \in Fds, NEW offset, NEW count, PwriteDirect(fd, offset, count)  PROVE IInv'
  BY <1>7, UnchangedKeepsIInv DEF PwriteDirect
<1>8. CASE \/ PwriteOverflowDirect \/ PwriteSector \/ PwriteNextCluster \/ PwriteExtend
           \/ PwriteFull
  BY <1>8, UnchangedKeepsIInv
     DEF PwriteOverflowDirect, PwriteSector, PwriteNextCluster, PwriteExtend, PwriteFull
<1>9. CASE PwriteEnd
  BY <1>9, PwriteEndKeepsIInv
<1>10. CASE UNCHANGED vars
  BY <1>10, UnchangedKeepsIInv DEF vars, pool
<1>11. CASE Call
  <2>1. 0 \in Sizes
    BY FileHandlesAssumption DEF Sizes
  <2> QED
    BY <1>11, <2>1, <1>1, <1>2, <1>3, <1>4, <1>5, <1>6, <1>7 DEF Call
<1> QED
  BY <1>8, <1>9, <1>10, <1>11 DEF Next, Step

\* alloc_fd(), m65ftp_close(): no descriptor of m65ftp_lib.c is given to two
\* callers, and every one that was ever handed out is open or waits on the stack,
\* for any number of descriptors, files and clusters.
THEOREM DescriptorsSound == Spec => []FdSound
<1>1. IInv => FdSound
  BY DEF IInv
<1> QED
  BY <1>1, InitIInv, NextIInv, PTL DEF Spec

-----------------------------------------------------------------------------
(***************************************************************************)
(* The clusters of files                                                   *)
(***************************************************************************)

\* The first cluster of file f, none if there is no such file.
First(f) == IF dir[f] = Absent THEN 0 ELSE dir[f].first

\* In table t the clusters of file f are chain[f], from first[f] to an end marker,
\* and no cluster is in two places.
Laid(t, first, chain) ==
    /\ chain \in [Files -> Seq(Clusters)]
    /\ \A f \in Files : first[f] = IF Len(chain[f]) = 0 THEN 0 ELSE chain[f][1]
    /\ \A f \in Files : \A i \in 1 .. Len(chain[f]) :
          t[chain[f][i]] = IF i = Len(chain[f]) THEN Eoc ELSE chain[f][i + 1]
    /\ \A f, g \in Files : \A i \in 1 .. Len(chain[f]), j \in 1 .. Len(chain[g]) :
          chain[f][i] = chain[g][j] => f = g /\ i = j

\* Between and during calls the entries lead to the chains.
Layout(chain) == Laid(fat, [f \in Files |-> First(f)], chain)

InChain(chain, f, c) == \E i \in 1 .. Len(chain[f]) : chain[f][i] = c

\* A descriptor in use agrees with the entry of its file, and its position is in
\* the chain.
HandleSound(chain, fi) ==
    /\ fi.file \in Files /\ dir[fi.file] # Absent
    /\ fi.buffered =>
          /\ fi.is_writable /\ dir[fi.file] = NoEntry
          /\ fi.first_cluster = 0 /\ fi.write_cluster = 0 /\ fi.sector_in_cluster = 0
          /\ fi.current_cluster = 0 /\ fi.current_cluster_idx = 0 /\ fi.last_offset = 0
          /\ fi.moved_by = "none"
    /\ ~fi.buffered => [first |-> fi.first_cluster, size |-> fi.file_size] = dir[fi.file]
    /\ fi.is_writable => fi.dir_sector_buf = dir
    /\ fi.is_writable => fi.write_cluster = 0 \/ InChain(chain, fi.file, fi.write_cluster)
    /\ fi.write_buf => /\ fi.buffered
                       /\ fi.file = wanted.file /\ wanted.offset < fi.file_size

HandlesSound(chain) == \A fd \in Fds : InUse(fd) => HandleSound(chain, s_files[fd])

\* A file that is open for writing has one descriptor, and it is the only one that
\* writes.
WriterAlone ==
    \A d, e \in Fds : InUse(d) /\ InUse(e) /\ d # e /\ s_files[d].is_writable =>
        ~s_files[e].is_writable /\ s_files[e].file # s_files[d].file

\* A write in place goes on in the chain of the file that it writes.
OpSound(chain) ==
    op.at # "idle" =>
        /\ InUse(op.fd)
        /\ s_files[op.fd].is_writable /\ ~s_files[op.fd].buffered
        /\ s_files[op.fd].first_cluster # 0
        /\ op.done <= op.count /\ op.offset + op.count <= MaxSize
        /\ op.at = "write" => InChain(chain, s_files[op.fd].file, op.cluster)

CInv(chain) == Layout(chain) /\ HandlesSound(chain) /\ WriterAlone /\ OpSound(chain)

-----------------------------------------------------------------------------
\* Arithmetic of chunks, sectors and clusters.
LEMMA Division ==
    ASSUME NEW d \in Nat \ {0}, NEW n \in Nat
    PROVE  /\ n \div d \in Nat /\ n % d \in 0 .. d - 1
           /\ n = d * (n \div d) + (n % d)
BY Z3

LEMMA DivisionUnique ==
    ASSUME NEW d \in Nat \ {0}, NEW n \in Nat, NEW r \in 0 .. d - 1
    PROVE  (d * n + r) \div d = n /\ (d * n + r) % d = r
BY Z3

LEMMA Times ==
    ASSUME NEW a \in Nat, NEW b \in Nat, NEW d \in Nat
    PROVE  /\ d * a \in Nat
           /\ a <= b => d * a <= d * b
           /\ a < b => d * a + d <= d * b
<1>1. d * a \in Nat /\ d * b \in Nat
  OBVIOUS
<1>2. ASSUME a <= b PROVE d * a <= d * b
  <2>1. d * b = d * a + d * (b - a) /\ d * (b - a) \in Nat
    BY <1>2
  <2> QED
    BY <1>1, <2>1
<1>3. ASSUME a < b PROVE d * a + d <= d * b
  <2>1. d * b = d * a + d + d * (b - a - 1) /\ d * (b - a - 1) \in Nat
    BY <1>3
  <2> QED
    BY <1>1, <2>1
<1> QED
  BY <1>1, <1>2, <1>3

\* How many times d chunks hold size chunks.
LEMMA RoundedUp ==
    ASSUME NEW d \in Nat \ {0}, NEW size \in Nat
    PROVE  LET n == (size + d - 1) \div d
           IN  /\ n \in Nat
               /\ size <= d * n /\ d * n < size + d
               /\ (n = 0) = (size = 0)
<1> DEFINE n == (size + d - 1) \div d
           r == (size + d - 1) % d
<1>1. n \in Nat /\ r \in 0 .. d - 1 /\ size + d - 1 = d * n + r
  <2>1. size + d - 1 \in Nat
    OBVIOUS
  <2> QED
    BY <2>1, Division
<1> HIDE DEF n, r
<1>2. d * n \in Nat
  BY <1>1
<1>3. size <= d * n /\ d * n < size + d
  BY <1>1, <1>2
<1>4. n = 0 => size = 0
  BY <1>1
<1>5. size = 0 => n = 0
  <2> SUFFICES ASSUME size = 0, n > 0 PROVE FALSE
    BY <1>1
  <2>1. d * 0 + d <= d * n
    BY <1>1, Times
  <2>2. d * 0 = 0
    OBVIOUS
  <2> QED
    BY <1>2, <1>3, <2>1, <2>2
<1> QED
  BY <1>1, <1>3, <1>4, <1>5 DEF n

LEMMA Constants ==
    /\ ClusterSectors \in Nat \ {0} /\ SectorChunks \in Nat \ {0}
    /\ ClusterChunks \in Nat \ {0} /\ ClusterChunks = SectorChunks * ClusterSectors
    /\ NumClusters \in Nat \ {0} /\ MaxSize \in Nat \ {0} /\ MaxFiles \in Nat \ {0}
<1>1. ClusterSectors \in Nat \ {0} /\ SectorChunks \in Nat \ {0}
  BY FileHandlesAssumption
<1>2. ClusterSectors * SectorChunks \in Nat \ {0}
      /\ ClusterSectors * SectorChunks = SectorChunks * ClusterSectors
  BY <1>1
<1> QED
  BY <1>1, <1>2, FileHandlesAssumption DEF ClusterChunks

-----------------------------------------------------------------------------
\* A set of naturals has a least element, and a bounded one a greatest.
LEMMA LeastElement ==
    ASSUME NEW S, S \subseteq Nat, S # {}
    PROVE  Min(S) \in S /\ \A n \in S : Min(S) <= n
<1> DEFINE less == {p \in Nat \X Nat : p[1] < p[2]}
<1>1. IsWellFoundedOn(less, Nat)
  BY NatLessThanWellFounded DEF OpToRel
<1>2. PICK m \in S : \A n \in S : <<n, m>> \notin less
  BY <1>1, WFMin
<1>3. ASSUME NEW n \in S PROVE m <= n
  <2>1. m \in Nat /\ n \in Nat /\ <<n, m>> \notin less
    BY <1>2
  <2>2. ~(n < m)
    BY <2>1
  <2> QED
    BY <2>1, <2>2
<1> QED
  BY <1>3 DEF Min

LEMMA GreatestElement ==
    ASSUME NEW b \in Nat, NEW S, S \subseteq 0 .. b, S # {}
    PROVE  Max(S) \in S /\ \A n \in S : n <= Max(S)
<1> DEFINE T == {b - n : n \in S}
<1>1. T \subseteq Nat /\ T # {}
  <2>1. \A n \in S : b - n \in Nat
    OBVIOUS
  <2> QED
    BY <2>1
<1>2. Min(T) \in T /\ \A n \in T : Min(T) <= n
  BY <1>1, LeastElement
<1>3. PICK m \in S : Min(T) = b - m
  BY <1>2
<1>4. \A n \in S : m >= n
  <2> SUFFICES ASSUME NEW n \in S PROVE m >= n
    OBVIOUS
  <2>1. b - m <= b - n
    BY <1>2, <1>3
  <2> QED
    BY <2>1
<1>5. \E x \in S : \A y \in S : x >= y
  BY <1>4
<1>6. Max(S) \in S /\ \A y \in S : Max(S) >= y
  BY <1>5 DEF Max
<1> QED
  BY <1>6

-----------------------------------------------------------------------------
\* Walks.  The function that Walk() defines exists and is the only one: the least
\* length at which this fails is not 0 and not a successor.
WalkFrom(h, c, n) == h = [i \in 0 .. n |-> IF i = 0 THEN c ELSE Chained(h[i - 1])]

LEMMA WalkExists == \A c : \A n \in Nat : \E h : WalkFrom(h, c, n)
<1> SUFFICES ASSUME NEW c PROVE \A n \in Nat : \E h : WalkFrom(h, c, n)
  OBVIOUS
<1> DEFINE S == {n \in Nat : ~ \E h : WalkFrom(h, c, n)}
<1> SUFFICES ASSUME S # {} PROVE FALSE
  OBVIOUS
<1>1. Min(S) \in S /\ \A n \in S : Min(S) <= n
  BY LeastElement
<1> DEFINE m == Min(S)
<1> HIDE DEF S, m
<1>2. m \in Nat /\ m \in S /\ \A n \in S : m <= n
  BY <1>1 DEF S, m
<1>3. ~ \E h : WalkFrom(h, c, m)
  BY <1>2 DEF S
<1>4. CASE m = 0
  <2> DEFINE h == [i \in 0 .. 0 |-> c]
  <2>1. WalkFrom(h, c, 0)
    BY DEF WalkFrom
  <2> QED
    BY <1>3, <1>4, <2>1
<1>5. CASE m # 0
  <2>1. m - 1 \in Nat /\ ~(m <= m - 1)
    BY <1>2, <1>5
  <2>2. m - 1 \notin S
    BY <1>2, <2>1
  <2>3. PICK g : WalkFrom(g, c, m - 1)
    BY <2>1, <2>2 DEF S
  <2> DEFINE h == [i \in 0 .. m |-> IF i = m THEN Chained(g[m - 1]) ELSE g[i]]
  <2>4. \A i \in 0 .. m - 1 : g[i] = IF i = 0 THEN c ELSE Chained(g[i - 1])
    BY <2>3, <2>1 DEF WalkFrom
  <2>5. ASSUME NEW i \in 0 .. m
        PROVE  h[i] = IF i = 0 THEN c ELSE Chained(h[i - 1])
    <3>1. CASE i = 0
      BY <3>1, <2>1, <2>4, <1>5
    <3>2. CASE i # 0 /\ i = m
      <4>1. h[m - 1] = g[m - 1]
        BY <1>2, <2>1
      <4> QED
        BY <3>2, <4>1, <1>2
    <3>3. CASE i # 0 /\ i # m
      <4>1. i \in 0 .. m - 1 /\ i - 1 \in 0 .. m /\ i - 1 # m
        BY <3>3, <1>2
      <4> QED
        BY <3>3, <4>1, <2>4
    <3> QED
      BY <3>1, <3>2, <3>3
  <2>6. WalkFrom(h, c, m)
    <3>1. h = [i \in 0 .. m |-> h[i]]
      OBVIOUS
    <3> HIDE DEF h
    <3> QED
      BY <3>1, <2>5 DEF WalkFrom
  <2> QED
    BY <1>3, <2>6
<1> QED
  BY <1>4, <1>5

LEMMA WalkUnique ==
    ASSUME NEW c, NEW m \in Nat, NEW n \in Nat, NEW g, NEW h,
           WalkFrom(g, c, m), WalkFrom(h, c, n)
    PROVE  \A i \in 0 .. m : i <= n => g[i] = h[i]
<1> DEFINE S == {i \in 0 .. m : i <= n /\ g[i] # h[i]}
<1> SUFFICES ASSUME S # {} PROVE FALSE
  OBVIOUS
<1> DEFINE k == Min(S)
<1>1. k \in S /\ \A i \in S : k <= i
  <2>1. S \subseteq Nat
    OBVIOUS
  <2> QED
    BY <2>1, LeastElement
<1> HIDE DEF S, k
<1>2. k \in 0 .. m /\ k <= n /\ g[k] # h[k]
  BY <1>1 DEF S
<1>3. /\ g[k] = IF k = 0 THEN c ELSE Chained(g[k - 1])
      /\ h[k] = IF k = 0 THEN c ELSE Chained(h[k - 1])
  BY <1>2 DEF WalkFrom
<1>4. k # 0
  BY <1>2, <1>3
<1>5. k - 1 \in 0 .. m /\ k - 1 <= n /\ ~(k <= k - 1)
  BY <1>2, <1>4
<1>6. g[k - 1] = h[k - 1]
  BY <1>1, <1>5 DEF S
<1> QED
  BY <1>2, <1>3, <1>6

LEMMA WalkStep ==
    ASSUME NEW c, NEW n \in Nat
    PROVE  Walk(c, 0) = c /\ Walk(c, n + 1) = Chained(Walk(c, n))
<1> DEFINE nth(m) == CHOOSE h : WalkFrom(h, c, m)
<1>1. ASSUME NEW m \in Nat PROVE WalkFrom(nth(m), c, m) /\ Walk(c, m) = nth(m)[m]
  <2>1. \E h : WalkFrom(h, c, m)
    BY WalkExists
  <2>2. Walk(c, m) = (CHOOSE h : WalkFrom(h, c, m))[m]
    BY DEF Walk, WalkFrom
  <2> QED
    BY <2>1, <2>2
<1> HIDE DEF nth
<1>2. Walk(c, 0) = c
  BY <1>1 DEF WalkFrom
<1>3. nth(n + 1)[n + 1] = Chained(nth(n + 1)[n])
  <2>1. WalkFrom(nth(n + 1), c, n + 1)
    BY <1>1
  <2>2. n + 1 \in 0 .. n + 1 /\ n + 1 # 0 /\ (n + 1) - 1 = n
    OBVIOUS
  <2> QED
    BY <2>1, <2>2 DEF WalkFrom
<1>4. nth(n + 1)[n] = nth(n)[n]
  BY <1>1, WalkUnique
<1> QED
  BY <1>1, <1>2, <1>3, <1>4

LEMMA WalkTyped ==
    ASSUME fat \in [AnyCluster -> 0 .. Eoc], NEW c \in 0 .. Eoc
    PROVE  \A n \in Nat : Walk(c, n) \in 0 .. Eoc
<1> DEFINE S == {n \in Nat : Walk(c, n) \notin 0 .. Eoc}
<1> SUFFICES ASSUME S # {} PROVE FALSE
  OBVIOUS
<1> DEFINE k == Min(S)
<1>1. k \in S /\ \A i \in S : k <= i
  BY LeastElement
<1> HIDE DEF S, k
<1>2. k \in Nat /\ Walk(c, k) \notin 0 .. Eoc
  BY <1>1 DEF S
<1>3. k # 0
  BY <1>2, WalkStep
<1>4. k - 1 \in Nat /\ ~(k <= k - 1) /\ (k - 1) + 1 = k
  BY <1>2, <1>3
<1>5. Walk(c, k - 1) \in 0 .. Eoc
  BY <1>1, <1>4 DEF S
<1>6. Walk(c, k) = Chained(Walk(c, k - 1))
  BY <1>4, WalkStep
<1>7. Eoc \in 0 .. Eoc
  BY Constants DEF Eoc
<1> QED
  BY <1>2, <1>5, <1>6, <1>7 DEF Chained

-----------------------------------------------------------------------------
\* Chains as sequences.
LEMMA ClusterFacts ==
    /\ Clusters \subseteq AnyCluster /\ Clusters \subseteq 0 .. Eoc
    /\ 0 \in AnyCluster /\ 0 \notin Clusters /\ Eoc \notin AnyCluster /\ Eoc \in Nat /\ 0 # Eoc
    /\ \A c \in Clusters : IsLink(c) /\ c # Free /\ c # Eoc /\ c \in Nat
    /\ ~IsLink(0) /\ ~IsLink(Eoc)
    /\ \A c \in 0 .. Eoc : IsLink(c) => c \in Clusters
BY Constants DEF Clusters, AnyCluster, Eoc, IsLink, Free

LEMMA ChainFacts ==
    ASSUME NEW t, NEW first, NEW chain, Laid(t, first, chain), NEW f \in Files
    PROVE  /\ chain[f] \in Seq(Clusters) /\ Len(chain[f]) \in Nat
           /\ \A i \in 1 .. Len(chain[f]) : chain[f][i] \in Clusters
           /\ Len(chain[f]) <= NumClusters
<1>1. chain[f] \in Seq(Clusters)
  BY DEF Laid
<1>2. chain[f] \in [1 .. Len(chain[f]) -> Clusters] /\ Len(chain[f]) \in Nat
  BY <1>1, LenProperties
<1>3. chain[f] \in Injection(1 .. Len(chain[f]), Clusters)
  BY <1>2 DEF Laid, Injection, IsInjective
<1>4. IsFiniteSet(Clusters) /\ Cardinality(Clusters) = NumClusters
  BY FS_Interval, Constants DEF Clusters
<1>5. Cardinality(1 .. Len(chain[f])) = Len(chain[f])
  BY <1>2, FS_Interval
<1>6. Cardinality(1 .. Len(chain[f])) <= Cardinality(Clusters)
  BY <1>3, <1>4, FS_Injection
<1> QED
  BY <1>1, <1>2, <1>4, <1>5, <1>6

LEMMA AlongChain ==
    ASSUME NEW chain, Layout(chain), NEW f \in Files, NEW i \in 1 .. Len(chain[f])
    PROVE  \A n \in Nat : Walk(chain[f][i], n) =
               IF i + n <= Len(chain[f]) THEN chain[f][i + n] ELSE Eoc
<1> DEFINE s == chain[f]
           S == {n \in Nat : Walk(s[i], n) # IF i + n <= Len(s) THEN s[i + n] ELSE Eoc}
<1> SUFFICES ASSUME S # {} PROVE FALSE
  OBVIOUS
<1> DEFINE k == Min(S)
<1>1. k \in S /\ \A n \in S : k <= n
  BY LeastElement
<1>2. Len(s) \in Nat /\ \A j \in 1 .. Len(s) : s[j] \in Clusters
  BY ChainFacts DEF Layout
<1>3. \A j \in 1 .. Len(s) : fat[s[j]] = IF j = Len(s) THEN Eoc ELSE s[j + 1]
  BY DEF Layout, Laid
<1> HIDE DEF S, k, s
<1>4. k \in Nat /\ Walk(s[i], k) # IF i + k <= Len(s) THEN s[i + k] ELSE Eoc
  BY <1>1 DEF S
<1>5. k # 0
  <2>1. Walk(s[i], 0) = s[i] /\ i + 0 = i /\ i <= Len(s)
    BY WalkStep DEF s
  <2> QED
    BY <1>4, <2>1
<1>6. k - 1 \in Nat /\ ~(k <= k - 1) /\ (k - 1) + 1 = k
  BY <1>4, <1>5
<1>7. Walk(s[i], k - 1) = IF i + (k - 1) <= Len(s) THEN s[i + (k - 1)] ELSE Eoc
  BY <1>1, <1>6 DEF S
<1>8. Walk(s[i], k) = Chained(Walk(s[i], k - 1))
  BY <1>6, WalkStep
<1>9. CASE i + (k - 1) <= Len(s)
  <2> DEFINE j == i + (k - 1)
  <2>1. j \in 1 .. Len(s) /\ j + 1 = i + k
    <3>1. i \in Nat /\ 1 <= i /\ Len(s) \in Nat
      BY <1>2 DEF s
    <3> QED
      BY <3>1, <1>6, <1>9
  <2>2. Chained(s[j]) = IF j = Len(s) THEN Eoc ELSE s[j + 1]
    BY <2>1, <1>2, <1>3, ClusterFacts DEF Chained
  <2>3. (j = Len(s)) = ~(i + k <= Len(s))
    BY <2>1, <1>2, <1>4
  <2> QED
    BY <1>4, <1>7, <1>8, <1>9, <2>1, <2>2, <2>3
<1>10. CASE ~(i + (k - 1) <= Len(s))
  <2>1. ~(i + k <= Len(s))
    BY <1>2, <1>4, <1>10
  <2>2. Chained(Eoc) = Eoc
    BY ClusterFacts DEF Chained
  <2> QED
    BY <1>4, <1>7, <1>8, <1>10, <2>1, <2>2
<1> QED
  BY <1>9, <1>10

LEMMA ChainOfIs ==
    ASSUME NEW chain, Layout(chain), NEW f \in Files, NEW i \in 1 .. Len(chain[f])
    PROVE  ChainOf(chain[f][i]) = {chain[f][j] : j \in i .. Len(chain[f])}
<1> DEFINE s == chain[f]
<1>1. /\ Len(s) \in Nat /\ Len(s) <= NumClusters
      /\ \A j \in 1 .. Len(s) : s[j] \in Clusters
  BY ChainFacts DEF Layout
<1>2. \A n \in Nat : Walk(s[i], n) = IF i + n <= Len(s) THEN s[i + n] ELSE Eoc
  BY AlongChain
<1>3. i \in Nat /\ 1 <= i /\ i <= Len(s) /\ s[i] \in Clusters
  BY <1>1
<1> HIDE DEF s
<1>4. ASSUME NEW d \in ChainOf(s[i]) PROVE d \in {s[j] : j \in i .. Len(s)}
  <2>1. PICK n \in 0 .. NumClusters - 1 : Walk(s[i], n) = d /\ d \in Clusters
    BY <1>4 DEF ChainOf
  <2>2. n \in Nat /\ d # Eoc
    BY <2>1, Constants, ClusterFacts
  <2>3. i + n <= Len(s) /\ d = s[i + n]
    BY <1>2, <2>1, <2>2
  <2>4. i + n \in i .. Len(s)
    BY <1>1, <1>3, <2>2, <2>3
  <2> QED
    BY <2>3, <2>4
<1>5. ASSUME NEW j \in i .. Len(s) PROVE s[j] \in ChainOf(s[i])
  <2>1. j - i \in 0 .. NumClusters - 1 /\ j - i \in Nat /\ i + (j - i) = j /\ j \in 1 .. Len(s)
    BY <1>1, <1>3, Constants
  <2>2. i + (j - i) <= Len(s)
    BY <1>1, <1>3, <2>1
  <2>3. Walk(s[i], j - i) = s[j]
    BY <1>2, <2>1, <2>2
  <2>4. IsLink(s[i])
    BY <1>1, <1>3, ClusterFacts
  <2> QED
    BY <1>1, <2>1, <2>3, <2>4 DEF ChainOf
<1> QED
  BY <1>4, <1>5 DEF s

LEMMA NoChain == ChainOf(0) = {} /\ ChainOf(Eoc) = {}
BY ClusterFacts DEF ChainOf

LEMMA ChainLength ==
    ASSUME NEW chain, Layout(chain), NEW f \in Files, NEW i \in 1 .. Len(chain[f])
    PROVE  /\ IsFiniteSet(ChainOf(chain[f][i]))
           /\ Cardinality(ChainOf(chain[f][i])) = Len(chain[f]) - i + 1
<1> DEFINE s == chain[f]
           T == {s[j] : j \in i .. Len(s)}
           g == [j \in i .. Len(s) |-> s[j]]
<1>1. Len(s) \in Nat
  BY ChainFacts DEF Layout
<1>2. IsFiniteSet(i .. Len(s)) /\ Cardinality(i .. Len(s)) = Len(s) - i + 1
  <2>1. i \in Int /\ Len(s) \in Int /\ ~(i > Len(s))
    BY <1>1
  <2> HIDE DEF s
  <2> QED
    BY <2>1, FS_Interval
<1>3. g \in Surjection(i .. Len(s), T)
  BY DEF Surjection
<1>4. g \in Injection(i .. Len(s), T)
  <2>1. \A j, k \in i .. Len(s) : s[j] = s[k] => j = k
    <3>1. \A j \in i .. Len(s) : j \in 1 .. Len(s)
      BY <1>1
    <3> QED
      BY <3>1 DEF Layout, Laid
  <2> QED
    BY <2>1 DEF Injection, IsInjective
<1>5. T = ChainOf(s[i])
  BY ChainOfIs
<1> HIDE DEF g, T, s
<1>6. IsFiniteSet(T) /\ Cardinality(T) = Cardinality(i .. Len(s))
  BY <1>2, <1>3, <1>4, FS_Surjection
<1> QED
  BY <1>2, <1>5, <1>6 DEF s

-----------------------------------------------------------------------------
\* What the operations on the FAT do to the layout.  One file's chain is replaced
\* by s, and the others are left alone.
Replaced(t, u, first, f2, chain, c2, f, s) ==
    /\ s \in Seq(Clusters)
    /\ \A i \in 1 .. Len(s) : u[s[i]] = IF i = Len(s) THEN Eoc ELSE s[i + 1]
    /\ \A i, j \in 1 .. Len(s) : s[i] = s[j] => i = j
    /\ \A g \in Files \ {f} : \A i \in 1 .. Len(chain[g]) :
          /\ u[chain[g][i]] = t[chain[g][i]]
          /\ \A j \in 1 .. Len(s) : s[j] # chain[g][i]
    /\ f2[f] = IF Len(s) = 0 THEN 0 ELSE s[1]
    /\ \A g \in Files \ {f} : f2[g] = first[g]
    /\ c2 = [chain EXCEPT ![f] = s]

LEMMA ReplaceLaid ==
    ASSUME NEW t, NEW u, NEW first, NEW f2, NEW chain, NEW c2, NEW f \in Files, NEW s,
           Laid(t, first, chain), Replaced(t, u, first, f2, chain, c2, f, s)
    PROVE  Laid(u, f2, c2)
<1> USE DEF Replaced
<1>1. chain \in [Files -> Seq(Clusters)]
  BY DEF Laid
<1>2. /\ c2 \in [Files -> Seq(Clusters)] /\ c2[f] = s
      /\ \A g \in Files \ {f} : c2[g] = chain[g]
  BY <1>1
<1>3. /\ f2[f] = IF Len(s) = 0 THEN 0 ELSE s[1]
      /\ \A g \in Files \ {f} : f2[g] = first[g]
  OBVIOUS
<1>4. \A g \in Files : f2[g] = IF Len(c2[g]) = 0 THEN 0 ELSE c2[g][1]
  <2> SUFFICES ASSUME NEW g \in Files
               PROVE  f2[g] = IF Len(c2[g]) = 0 THEN 0 ELSE c2[g][1]
    OBVIOUS
  <2>1. CASE g = f
    BY <2>1, <1>2, <1>3
  <2>2. CASE g # f
    <3>1. first[g] = IF Len(chain[g]) = 0 THEN 0 ELSE chain[g][1]
      BY DEF Laid
    <3> QED
      BY <2>2, <1>2, <1>3, <3>1
  <2> QED
    BY <2>1, <2>2
<1>5. \A g \in Files : \A i \in 1 .. Len(c2[g]) :
          u[c2[g][i]] = IF i = Len(c2[g]) THEN Eoc ELSE c2[g][i + 1]
  <2> SUFFICES ASSUME NEW g \in Files, NEW i \in 1 .. Len(c2[g])
               PROVE  u[c2[g][i]] = IF i = Len(c2[g]) THEN Eoc ELSE c2[g][i + 1]
    OBVIOUS
  <2>1. CASE g = f
    BY <2>1, <1>2
  <2>2. CASE g # f
    <3>1. c2[g] = chain[g] /\ u[chain[g][i]] = t[chain[g][i]]
      BY <2>2, <1>2
    <3>2. t[chain[g][i]] = IF i = Len(chain[g]) THEN Eoc ELSE chain[g][i + 1]
      BY <3>1 DEF Laid
    <3> QED
      BY <3>1, <3>2
  <2> QED
    BY <2>1, <2>2
<1>6. \A g, h \in Files : \A i \in 1 .. Len(c2[g]), j \in 1 .. Len(c2[h]) :
          c2[g][i] = c2[h][j] => g = h /\ i = j
  <2> SUFFICES ASSUME NEW g \in Files, NEW h \in Files,
                      NEW i \in 1 .. Len(c2[g]), NEW j \in 1 .. Len(c2[h]), c2[g][i] = c2[h][j]
               PROVE  g = h /\ i = j
    OBVIOUS
  <2>1. CASE g = f /\ h = f
    BY <2>1, <1>2
  <2>2. CASE g = f /\ h # f
    BY <2>2, <1>2
  <2>3. CASE g # f /\ h = f
    BY <2>3, <1>2
  <2>4. CASE g # f /\ h # f
    BY <2>4, <1>2 DEF Laid
  <2> QED
    BY <2>1, <2>2, <2>3, <2>4
<1> QED
  BY <1>2, <1>4, <1>5, <1>6 DEF Laid

\* Clusters of a chain are not free.
LEMMA ChainNotFree ==
    ASSUME NEW t, NEW first, NEW chain, Laid(t, first, chain), NEW f \in Files,
           NEW i \in 1 .. Len(chain[f])
    PROVE  t[chain[f][i]] # Free
<1>1. Len(chain[f]) \in Nat /\ \A j \in 1 .. Len(chain[f]) : chain[f][j] \in Clusters
  BY ChainFacts
<1>2. t[chain[f][i]] = IF i = Len(chain[f]) THEN Eoc ELSE chain[f][i + 1]
  BY DEF Laid
<1>3. CASE i = Len(chain[f])
  BY <1>2, <1>3, ClusterFacts DEF Free
<1>4. CASE i # Len(chain[f])
  <2>1. i + 1 \in 1 .. Len(chain[f])
    BY <1>1, <1>4
  <2> QED
    BY <1>1, <1>2, <1>4, <2>1, ClusterFacts
<1> QED
  BY <1>3, <1>4

\* n free clusters from c on in table t.
FreeRun(t, c, n) == \A k \in 0 .. n - 1 : c + k \in Clusters /\ t[c + k] = Free
RunOf(c, n) == [i \in 1 .. n |-> c + i - 1]

LEMMA TakeRunIs ==
    ASSUME NEW t, NEW c \in Nat, NEW n \in Nat \ {0}, NEW d \in AnyCluster
    PROVE  TakeRun(t, c, n)[d] = IF c <= d /\ d < c + n - 1 THEN d + 1
                                 ELSE IF d = c + n - 1 THEN Eoc ELSE t[d]
<1>1. d \in Nat /\ (d \in c .. c + n - 2 <=> c <= d /\ d < c + n - 1)
  BY Constants DEF AnyCluster
<1> QED
  BY <1>1 DEF TakeRun

LEMMA RunOfIs ==
    ASSUME NEW c, NEW n, NEW i \in 1 .. n
    PROVE  RunOf(c, n)[i] = c + i - 1
BY DEF RunOf

LEMMA RunFacts ==
    ASSUME NEW t, NEW c \in Nat, NEW n \in Nat \ {0}, FreeRun(t, c, n)
    PROVE  /\ c \in Clusters
           /\ RunOf(c, n) \in Seq(Clusters) /\ Len(RunOf(c, n)) = n
           /\ \A i \in 1 .. n : RunOf(c, n)[i] \in Clusters /\ t[RunOf(c, n)[i]] = Free
<1>1. \A i \in 1 .. n : i - 1 \in 0 .. n - 1 /\ c + (i - 1) = c + i - 1
  OBVIOUS
<1>2. \A i \in 1 .. n : c + i - 1 \in Clusters /\ t[c + i - 1] = Free
  BY <1>1 DEF FreeRun
<1>3. RunOf(c, n) \in [1 .. n -> Clusters]
  BY <1>2 DEF RunOf
<1>4. RunOf(c, n) \in Seq(Clusters) /\ Len(RunOf(c, n)) = n
  BY <1>3, LenProperties, SeqDef
<1>5. c \in Clusters
  <2>1. 1 \in 1 .. n /\ c + 1 - 1 = c
    OBVIOUS
  <2> QED
    BY <1>2, <2>1
<1> QED
  BY <1>2, <1>4, <1>5 DEF RunOf

\* No file has a free cluster.
LEMMA RunIsApart ==
    ASSUME NEW t, NEW first, NEW chain, Laid(t, first, chain),
           NEW c \in Nat, NEW n \in Nat \ {0}, FreeRun(t, c, n),
           NEW g \in Files, NEW i \in 1 .. Len(chain[g])
    PROVE  /\ \A j \in 1 .. n : RunOf(c, n)[j] # chain[g][i]
           /\ TakeRun(t, c, n)[chain[g][i]] = t[chain[g][i]]
<1>1. t[chain[g][i]] # Free /\ chain[g][i] \in Clusters
  BY ChainNotFree, ChainFacts
<1>2. \A j \in 1 .. n : RunOf(c, n)[j] # chain[g][i]
  BY <1>1, RunFacts
<1>3. chain[g][i] \in AnyCluster /\ chain[g][i] \in Nat
  BY <1>1, ClusterFacts
<1>4. ~(c <= chain[g][i] /\ chain[g][i] <= c + n - 1)
  <2> SUFFICES ASSUME c <= chain[g][i] /\ chain[g][i] <= c + n - 1 PROVE FALSE
    OBVIOUS
  <2>1. chain[g][i] - c \in 0 .. n - 1 /\ c + (chain[g][i] - c) = chain[g][i]
    BY <1>3
  <2>2. t[chain[g][i]] = Free
    BY <2>1 DEF FreeRun
  <2> QED
    BY <1>1, <2>2
<1>5. PICK d \in AnyCluster : d = chain[g][i]
  BY <1>3
<1>6. TakeRun(t, c, n)[d] = IF c <= d /\ d < c + n - 1 THEN d + 1
                            ELSE IF d = c + n - 1 THEN Eoc ELSE t[d]
  BY TakeRunIs
<1>7. ~(c <= d /\ d < c + n - 1) /\ d # c + n - 1
  BY <1>3, <1>4, <1>5
<1>8. TakeRun(t, c, n)[d] = t[d]
  BY <1>6, <1>7
<1> QED
  BY <1>2, <1>5, <1>8

\* A run is linked up.
LEMMA RunLinked ==
    ASSUME NEW t, NEW c \in Nat, NEW n \in Nat \ {0}, FreeRun(t, c, n), NEW i \in 1 .. n
    PROVE  TakeRun(t, c, n)[RunOf(c, n)[i]] = IF i = n THEN Eoc ELSE RunOf(c, n)[i + 1]
<1>0. PICK d : d = c + i - 1
  OBVIOUS
<1>1. RunOf(c, n)[i] = d /\ d \in AnyCluster /\ d \in Nat
  <2>1. RunOf(c, n)[i] \in Clusters
    BY RunFacts
  <2> QED
    BY <1>0, <2>1, RunOfIs, ClusterFacts
<1>2. TakeRun(t, c, n)[d] = IF c <= d /\ d < c + n - 1 THEN d + 1
                            ELSE IF d = c + n - 1 THEN Eoc ELSE t[d]
  <2>1. d \in AnyCluster
    BY <1>1
  <2> QED
    BY <2>1, TakeRunIs
<1>3. CASE i = n
  <2>1. ~(d < c + n - 1) /\ d = c + n - 1
    BY <1>0, <1>3
  <2> QED
    BY <1>1, <1>2, <1>3, <2>1
<1>4. CASE i # n
  <2>1. i + 1 \in 1 .. n /\ c + (i + 1) - 1 = d + 1 /\ c <= d /\ d < c + n - 1
    BY <1>0, <1>4
  <2>2. RunOf(c, n)[i + 1] = d + 1
    BY <2>1 DEF RunOf
  <2> QED
    BY <1>1, <1>2, <1>4, <2>1, <2>2
<1> QED
  BY <1>3, <1>4

\* A file without clusters, or one whose clusters do not matter any more, gets a run.
Taken(t, u, first, f2, chain, c2, f, c, n) ==
    /\ u = TakeRun(t, c, n)
    /\ f2[f] = c
    /\ \A g \in Files \ {f} : f2[g] = first[g]
    /\ c2 = [chain EXCEPT ![f] = RunOf(c, n)]

LEMMA TakeLaid ==
    ASSUME NEW t, NEW u, NEW first, NEW f2, NEW chain, NEW c2, NEW f \in Files,
           NEW c \in Nat, NEW n \in Nat \ {0},
           Laid(t, first, chain), FreeRun(t, c, n), Taken(t, u, first, f2, chain, c2, f, c, n)
    PROVE  Laid(u, f2, c2)
<1> USE DEF Taken
<1> DEFINE s == RunOf(c, n)
<1>1. s \in Seq(Clusters) /\ Len(s) = n /\ n # 0
  BY RunFacts
<1>2. \A i \in 1 .. n : u[s[i]] = IF i = n THEN Eoc ELSE s[i + 1]
  BY RunLinked
<1>3. \A i, j \in 1 .. n : s[i] = s[j] => i = j
  BY DEF RunOf
<1>4. \A g \in Files \ {f} : \A i \in 1 .. Len(chain[g]) :
          /\ u[chain[g][i]] = t[chain[g][i]]
          /\ \A j \in 1 .. n : s[j] # chain[g][i]
  BY RunIsApart
<1>5. s[1] = c
  BY DEF RunOf
<1>6. Laid(u, f2, c2)
  <2>1. /\ \A i \in 1 .. Len(s) : u[s[i]] = IF i = Len(s) THEN Eoc ELSE s[i + 1]
        /\ \A i, j \in 1 .. Len(s) : s[i] = s[j] => i = j
    BY <1>1, <1>2, <1>3
  <2>2. \A g \in Files \ {f} : \A i \in 1 .. Len(chain[g]) :
          /\ u[chain[g][i]] = t[chain[g][i]]
          /\ \A j \in 1 .. Len(s) : s[j] # chain[g][i]
    BY <1>1, <1>4
  <2>3. s \in Seq(Clusters)
    BY <1>1
  <2>4. f2[f] = IF Len(s) = 0 THEN 0 ELSE s[1]
    BY <1>1, <1>5
  <2>5. \A g \in Files \ {f} : f2[g] = first[g]
    OBVIOUS
  <2>6. c2 = [chain EXCEPT ![f] = s]
    OBVIOUS
  <2> HIDE DEF s
  <2>7. Replaced(t, u, first, f2, chain, c2, f, s)
    BY <2>1, <2>2, <2>3, <2>4, <2>5, <2>6 DEF Replaced
  <2> QED
    BY <2>7, ReplaceLaid
<1> QED
  BY <1>6

\* The chain of a file grows by a run.
Extended(t, u, chain, c2, f, c, n) ==
    /\ Len(chain[f]) # 0
    /\ u = [TakeRun(t, c, n) EXCEPT ![chain[f][Len(chain[f])]] = c]
    /\ c2 = [chain EXCEPT ![f] = chain[f] \o RunOf(c, n)]

LEMMA ExtendLaid ==
    ASSUME NEW t, NEW u, NEW first, NEW chain, NEW c2, NEW f \in Files,
           NEW c \in Nat, NEW n \in Nat \ {0},
           Laid(t, first, chain), FreeRun(t, c, n), Extended(t, u, chain, c2, f, c, n)
    PROVE  Laid(u, first, c2)
<1> USE DEF Extended
<1>0. PICK last : last = chain[f][Len(chain[f])]
  OBVIOUS
<1> DEFINE r == RunOf(c, n)
           s == chain[f] \o r
           m == Len(chain[f])
<1>1. r \in Seq(Clusters) /\ Len(r) = n
  BY RunFacts
<1>2. /\ chain[f] \in Seq(Clusters) /\ m \in Nat \ {0}
      /\ \A i \in 1 .. m : chain[f][i] \in Clusters
  BY ChainFacts
<1>3. /\ s \in Seq(Clusters) /\ Len(s) = m + n
      /\ \A i \in 1 .. m + n : s[i] = IF i <= m THEN chain[f][i] ELSE r[i - m]
  BY <1>1, <1>2, ConcatProperties
<1>4. m \in 1 .. m /\ last \in AnyCluster
  <2>1. m \in 1 .. m
    BY <1>2
  <2>2. chain[f][m] \in Clusters
    BY <1>2, <2>1
  <2> QED
    BY <2>1, <2>2, <1>0, ClusterFacts
<1>5. DOMAIN TakeRun(t, c, n) = AnyCluster
  BY DEF TakeRun
<1>6. u[last] = c /\ \A d \in AnyCluster \ {last} : u[d] = TakeRun(t, c, n)[d]
  BY <1>0, <1>4, <1>5
<1>7. \A g \in Files : \A i \in 1 .. Len(chain[g]) :
          /\ \A j \in 1 .. n : r[j] # chain[g][i]
          /\ TakeRun(t, c, n)[chain[g][i]] = t[chain[g][i]]
  BY RunIsApart
<1>8. \A i \in 1 .. n : TakeRun(t, c, n)[r[i]] = IF i = n THEN Eoc ELSE r[i + 1]
  BY RunLinked
<1>9. r[1] = c
  BY DEF RunOf
<1>10. \A i, j \in 1 .. n : r[i] = r[j] => i = j
  BY DEF RunOf
<1>11. \A i, j \in 1 .. m : chain[f][i] = chain[f][j] => i = j
  BY DEF Laid
<1>12. \A i \in 1 .. m : t[chain[f][i]] = IF i = m THEN Eoc ELSE chain[f][i + 1]
  BY DEF Laid
<1>13. \A i \in 1 .. n : r[i] \in AnyCluster
  BY <1>1, ClusterFacts, ElementOfSeq
<1>14. last = chain[f][m]
  BY <1>0
<1>0a. c2 = [chain EXCEPT ![f] = s]
  OBVIOUS
<1> HIDE DEF r, s, m, Extended
<1>15. ASSUME NEW i \in 1 .. Len(s)
       PROVE  u[s[i]] = IF i = Len(s) THEN Eoc ELSE s[i + 1]
  <2>1. CASE i < m
    <3>1. i \in 1 .. m /\ i + 1 \in 1 .. m /\ i \in 1 .. m + n /\ i + 1 \in 1 .. m + n
          /\ i <= m /\ i + 1 <= m /\ i # m /\ i # m + n
      BY <2>1, <1>2, <1>3
    <3>2. s[i] = chain[f][i] /\ s[i + 1] = chain[f][i + 1]
      BY <1>3, <3>1
    <3>3. chain[f][i] # last /\ chain[f][i] \in AnyCluster
      BY <3>1, <1>2, <1>4, <1>11, <1>14, ClusterFacts
    <3>4. u[chain[f][i]] = t[chain[f][i]]
      BY <3>1, <3>3, <1>6, <1>7 DEF m
    <3> QED
      BY <1>3, <1>12, <3>1, <3>2, <3>4
  <2>2. CASE i = m
    <3>1. i \in 1 .. m + n /\ m + 1 \in 1 .. m + n /\ ~(m + 1 <= m) /\ (m + 1) - m = 1 /\ m # m + n /\ m <= m
      BY <2>2, <1>2
    <3>2. s[m] = last /\ s[m + 1] = r[1]
      BY <3>1, <2>2, <1>3, <1>14
    <3> QED
      BY <3>1, <3>2, <2>2, <1>3, <1>6, <1>9
  <2>3. CASE i > m
    <3>1. i - m \in 1 .. n /\ i \in 1 .. m + n /\ ~(i <= m)
      BY <2>3, <1>2, <1>3
    <3>2. s[i] = r[i - m]
      BY <1>3, <3>1
    <3>3. r[i - m] # last
      BY <3>1, <1>4, <1>7, <1>14 DEF m
    <3>4. u[s[i]] = IF i - m = n THEN Eoc ELSE r[(i - m) + 1]
      BY <3>1, <3>2, <3>3, <1>6, <1>8, <1>13
    <3>5. CASE i = m + n
      <4>1. i - m = n
        BY <3>5, <1>2
      <4> QED
        BY <3>4, <3>5, <4>1, <1>3
    <3>6. CASE i # m + n
      <4>1. i - m # n /\ i + 1 \in 1 .. m + n /\ ~(i + 1 <= m) /\ (i + 1) - m = (i - m) + 1
        BY <3>1, <3>6, <1>2
      <4>2. s[i + 1] = r[(i - m) + 1]
        BY <4>1, <1>3
      <4> QED
        BY <3>4, <3>6, <4>1, <4>2, <1>3
    <3> QED
      BY <3>5, <3>6
  <2> QED
    BY <2>1, <2>2, <2>3, <1>2, <1>3
<1>16. ASSUME NEW i \in 1 .. Len(s), NEW j \in 1 .. Len(s), s[i] = s[j]
       PROVE  i = j
  <2>0. i \in 1 .. m + n /\ j \in 1 .. m + n
    BY <1>3
  <2>1. CASE i <= m /\ j <= m
    <3>1. i \in 1 .. m /\ j \in 1 .. m
      BY <2>0, <2>1, <1>2
    <3> QED
      BY <2>0, <2>1, <3>1, <1>3, <1>11, <1>16
  <2>2. CASE i <= m /\ ~(j <= m)
    <3>1. i \in 1 .. m /\ j - m \in 1 .. n
      BY <2>0, <2>2, <1>2
    <3>2. s[i] = chain[f][i] /\ s[j] = r[j - m]
      BY <2>0, <2>2, <1>3
    <3>3. r[j - m] # chain[f][i]
      BY <3>1, <1>7 DEF m
    <3> QED
      BY <3>2, <3>3, <1>16
  <2>3. CASE ~(i <= m) /\ j <= m
    <3>1. j \in 1 .. m /\ i - m \in 1 .. n
      BY <2>0, <2>3, <1>2
    <3>2. s[i] = r[i - m] /\ s[j] = chain[f][j]
      BY <2>0, <2>3, <1>3
    <3>3. r[i - m] # chain[f][j]
      BY <3>1, <1>7 DEF m
    <3> QED
      BY <3>2, <3>3, <1>16
  <2>4. CASE ~(i <= m) /\ ~(j <= m)
    <3>1. i - m \in 1 .. n /\ j - m \in 1 .. n
      <4>1. m \in Nat
        BY <1>2
      <4> QED
        BY <2>0, <2>4, <4>1
    <3>2. i - m = j - m
      BY <2>0, <2>4, <3>1, <1>3, <1>10, <1>16
    <3> QED
      BY <2>0, <3>2, <1>2
  <2> QED
    BY <2>1, <2>2, <2>3, <2>4
<1>17. ASSUME NEW g \in Files \ {f}, NEW i \in 1 .. Len(chain[g])
       PROVE  /\ u[chain[g][i]] = t[chain[g][i]]
              /\ \A j \in 1 .. Len(s) : s[j] # chain[g][i]
  <2>1. \A j \in 1 .. m : chain[f][j] # chain[g][i]
    BY DEF Laid, m
  <2>2. chain[g][i] \in AnyCluster \ {last}
    BY <2>1, <1>4, <1>14, ChainFacts, ClusterFacts
  <2>3. u[chain[g][i]] = t[chain[g][i]]
    BY <2>2, <1>6, <1>7
  <2>4. ASSUME NEW j \in 1 .. Len(s) PROVE s[j] # chain[g][i]
    <3>1. CASE j <= m
      <4>1. j \in 1 .. m /\ j \in 1 .. m + n
        BY <3>1, <1>2, <1>3
      <4> QED
        BY <3>1, <4>1, <2>1, <1>3
    <3>2. CASE ~(j <= m)
      <4>1. j - m \in 1 .. n /\ j \in 1 .. m + n
        BY <3>2, <1>2, <1>3
      <4> QED
        BY <3>2, <4>1, <1>3, <1>7
    <3> QED
      BY <3>1, <3>2
  <2> QED
    BY <2>3, <2>4
<1>18. first[f] = IF Len(s) = 0 THEN 0 ELSE s[1]
  <2>1. first[f] = IF m = 0 THEN 0 ELSE chain[f][1]
    BY DEF Laid, m
  <2>2. Len(s) # 0 /\ 1 \in 1 .. m + n /\ 1 <= m /\ m # 0
    BY <1>2, <1>3
  <2> QED
    BY <2>1, <2>2, <1>3
<1>19. Laid(u, first, c2)
  <2>1. /\ \A i \in 1 .. Len(s) : u[s[i]] = IF i = Len(s) THEN Eoc ELSE s[i + 1]
        /\ \A i, j \in 1 .. Len(s) : s[i] = s[j] => i = j
    BY <1>15, <1>16
  <2>2. \A g \in Files \ {f} : \A i \in 1 .. Len(chain[g]) :
          /\ u[chain[g][i]] = t[chain[g][i]]
          /\ \A j \in 1 .. Len(s) : s[j] # chain[g][i]
    BY <1>17
  <2>3. s \in Seq(Clusters)
    BY <1>3
  <2>4. c2 = [chain EXCEPT ![f] = s]
    BY <1>0a
  <2>5. Replaced(t, u, first, first, chain, c2, f, s)
    BY <1>18, <2>1, <2>2, <2>3, <2>4 DEF Replaced
  <2> QED
    BY <2>5, ReplaceLaid
<1> QED
  BY <1>19

\* The chain of a file is freed.
Freed(t, u, first, f2, chain, c2, f) ==
    /\ \A c \in Clusters : ~InChain(chain, f, c) => u[c] = t[c]
    /\ f2[f] = 0
    /\ \A g \in Files \ {f} : f2[g] = first[g]
    /\ c2 = [chain EXCEPT ![f] = <<>>]

LEMMA FreeLaid ==
    ASSUME NEW t, NEW u, NEW first, NEW f2, NEW chain, NEW c2, NEW f \in Files,
           Laid(t, first, chain), Freed(t, u, first, f2, chain, c2, f)
    PROVE  Laid(u, f2, c2)
<1> USE DEF Freed
<1>1. ASSUME NEW g \in Files \ {f}, NEW i \in 1 .. Len(chain[g])
      PROVE  u[chain[g][i]] = t[chain[g][i]]
  <2>1. chain[g][i] \in Clusters
    BY ChainFacts
  <2>2. ~InChain(chain, f, chain[g][i])
    BY DEF InChain, Laid
  <2> QED
    BY <2>1, <2>2
<1>2. PICK s : s = <<>>
  OBVIOUS
<1>3. s \in Seq(Clusters) /\ Len(s) = 0 /\ 1 .. Len(s) = {}
  BY <1>2
<1>4. Replaced(t, u, first, f2, chain, c2, f, s)
  BY <1>1, <1>2, <1>3 DEF Replaced
<1> QED
  BY <1>4, ReplaceLaid

\* The chain of a file is cut behind its n-th cluster.
CutAt(t, u, chain, c2, f, n) ==
    /\ u[chain[f][n]] = Eoc
    /\ \A c \in Clusters \ {chain[f][n]} :
          (\A i \in n + 1 .. Len(chain[f]) : chain[f][i] # c) => u[c] = t[c]
    /\ c2 = [chain EXCEPT ![f] = SubSeq(chain[f], 1, n)]

LEMMA CutLaid ==
    ASSUME NEW t, NEW u, NEW first, NEW chain, NEW c2, NEW f \in Files,
           NEW n \in 1 .. Len(chain[f]),
           Laid(t, first, chain), CutAt(t, u, chain, c2, f, n)
    PROVE  Laid(u, first, c2)
<1> USE DEF CutAt
<1>0. PICK m : m = Len(chain[f])
  OBVIOUS
<1>1. /\ chain[f] \in Seq(Clusters) /\ m \in Nat /\ n \in Nat /\ 1 <= n /\ n <= m
      /\ \A i \in 1 .. m : chain[f][i] \in Clusters
  BY <1>0, ChainFacts
<1>2. PICK s : s = SubSeq(chain[f], 1, n)
  OBVIOUS
<1>3. s \in Seq(Clusters) /\ Len(s) = n /\ \A i \in 1 .. n : s[i] = chain[f][i]
  BY <1>0, <1>1, <1>2, SubSeqProperties
<1>4. \A i, j \in 1 .. m : chain[f][i] = chain[f][j] => i = j
  BY <1>0 DEF Laid
<1>5. \A i \in 1 .. m : t[chain[f][i]] = IF i = m THEN Eoc ELSE chain[f][i + 1]
  BY <1>0 DEF Laid
<1>6. ASSUME NEW i \in 1 .. n
      PROVE  u[s[i]] = IF i = n THEN Eoc ELSE s[i + 1]
  <2>1. CASE i = n
    BY <2>1, <1>3
  <2>2. CASE i # n
    <3>1. i \in 1 .. m /\ n \in 1 .. m /\ i + 1 \in 1 .. n /\ i # m
      BY <2>2, <1>1
    <3>2. \A j \in n + 1 .. m : j \in 1 .. m /\ j # i
      BY <3>1, <1>1
    <3>3. u[chain[f][i]] = t[chain[f][i]]
      BY <2>2, <3>1, <3>2, <1>0, <1>1, <1>4
    <3> QED
      BY <2>2, <3>1, <3>3, <1>3, <1>5
  <2> QED
    BY <2>1, <2>2
<1>7. ASSUME NEW g \in Files \ {f}, NEW i \in 1 .. Len(chain[g])
      PROVE  /\ u[chain[g][i]] = t[chain[g][i]]
             /\ \A j \in 1 .. n : s[j] # chain[g][i]
  <2>1. \A j \in 1 .. m : chain[f][j] # chain[g][i]
    BY <1>0 DEF Laid
  <2>2. chain[g][i] \in Clusters
    BY ChainFacts
  <2>3. n \in 1 .. m /\ \A j \in n + 1 .. m : j \in 1 .. m
    BY <1>1
  <2>4. \A j \in 1 .. n : j \in 1 .. m
    BY <1>1
  <2>5. u[chain[g][i]] = t[chain[g][i]]
    BY <2>1, <2>2, <2>3, <1>0
  <2> QED
    BY <2>1, <2>4, <2>5, <1>3
<1>8. \A i, j \in 1 .. n : s[i] = s[j] => i = j
  <2>1. \A i \in 1 .. n : i \in 1 .. m
    BY <1>1
  <2> QED
    BY <2>1, <1>3, <1>4
<1>9. first[f] = IF Len(s) = 0 THEN 0 ELSE s[1]
  <2>1. first[f] = IF m = 0 THEN 0 ELSE chain[f][1]
    BY <1>0 DEF Laid
  <2>2. 1 \in 1 .. n /\ n # 0 /\ m # 0
    BY <1>1
  <2> QED
    BY <2>1, <2>2, <1>3
<1>10. Replaced(t, u, first, first, chain, c2, f, s)
  <2>1. s \in Seq(Clusters) /\ c2 = [chain EXCEPT ![f] = s]
    BY <1>2, <1>3
  <2>2. /\ \A i \in 1 .. Len(s) : u[s[i]] = IF i = Len(s) THEN Eoc ELSE s[i + 1]
        /\ \A i, j \in 1 .. Len(s) : s[i] = s[j] => i = j
    BY <1>3, <1>6, <1>8
  <2>3. \A g \in Files \ {f} : \A i \in 1 .. Len(chain[g]) :
          /\ u[chain[g][i]] = t[chain[g][i]]
          /\ \A j \in 1 .. Len(s) : s[j] # chain[g][i]
    BY <1>3, <1>7
  <2> QED
    BY <2>1, <2>2, <2>3, <1>9 DEF Replaced
<1> QED
  BY <1>10, ReplaceLaid

-----------------------------------------------------------------------------
\* Free runs.
LEMMA RunsFree ==
    ASSUME NEW n \in Nat \ {0}, NEW c \in Runs(n)
    PROVE  c \in Clusters /\ c \in Nat /\ FreeRun(fat, c, n)
BY ClusterFacts DEF Runs, FreeRun

LEMMA FirstRun ==
    ASSUME NEW n \in Nat \ {0}, Runs(n) # {}
    PROVE  Min(Runs(n)) \in Runs(n)
<1>1. Runs(n) \subseteq Nat
  BY ClusterFacts DEF Runs
<1> QED
  BY <1>1, LeastElement

LEMMA BatchTyped ==
    ASSUME NEW left \in Nat
    PROVE  Batch(left) \in Nat \ {0} /\ (Runs(1) # {} => Runs(Batch(left)) # {})
<1> DEFINE tried == {n \in {2, 4, 8, 16, 32, 64} :
                        n <= Larger(ClustersFor(left) + 1, 2) /\ Runs(n) # {}}
<1>1. CASE tried # {}
  <2>1. tried \subseteq 0 .. 64
    OBVIOUS
  <2>2. Max(tried) \in tried
    <3> HIDE DEF tried
    <3> QED
      BY <1>1, <2>1, GreatestElement
  <2>3. Batch(left) = Max(tried)
    BY <1>1 DEF Batch
  <2>4. Batch(left) \in {2, 4, 8, 16, 32, 64} /\ Runs(Batch(left)) # {}
    BY <2>2, <2>3
  <2> QED
    BY <2>4
<1>2. CASE tried = {}
  BY <1>2 DEF Batch
<1> QED
  BY <1>1, <1>2

LEMMA BatchStartIs ==
    ASSUME NEW c, NEW n \in Nat \ {0}, Runs(n) # {}
    PROVE  BatchStart(c, n) \in Runs(n)
<1> DEFINE behind == {d \in Runs(n) : d >= c}
<1>1. behind # {} => Min(behind) \in behind
  <2>1. behind \subseteq Nat
    BY ClusterFacts DEF Runs
  <2> QED
    BY <2>1, LeastElement
<1> QED
  BY <1>1, FirstRun DEF BatchStart

-----------------------------------------------------------------------------
\* Sizes and places.
LEMMA ClustersForIs ==
    ASSUME NEW size \in Nat
    PROVE  /\ ClustersFor(size) \in Nat
           /\ size <= ClusterChunks * ClustersFor(size)
           /\ ClusterChunks * ClustersFor(size) < size + ClusterChunks
           /\ (ClustersFor(size) = 0) = (size = 0)
BY RoundedUp, Constants DEF ClustersFor

\* The chunk k of n clusters lies in one of them.
LEMMA Quotient ==
    ASSUME NEW d \in Nat \ {0}, NEW n \in Nat, NEW k \in Nat, k < d * n
    PROVE  k \div d \in Nat /\ k \div d < n /\ k % d \in 0 .. d - 1
<1>1. /\ k \div d \in Nat /\ k % d \in 0 .. d - 1
      /\ k = d * (k \div d) + (k % d)
  BY Division
<1>2. PICK q, m : q = k \div d /\ m = k % d
  OBVIOUS
<1>3. q \in Nat /\ m \in Nat /\ k = d * q + m
  BY <1>1, <1>2
<1>4. ~(n <= q)
  <2> SUFFICES ASSUME n <= q PROVE FALSE
    OBVIOUS
  <2>1. d * n <= d * q /\ d * n \in Nat /\ d * q \in Nat
    BY <1>3, Times
  <2> QED
    BY <1>3, <2>1
<1> QED
  BY <1>1, <1>2, <1>3, <1>4

Chunks == Clusters \X (0 .. ClusterChunks - 1)

LEMMA PlaceInRun ==
    ASSUME NEW t, NEW c \in Nat, NEW n \in Nat, FreeRun(t, c, n),
           NEW k \in Nat, k < ClusterChunks * n
    PROVE  Place(c, k) \in Chunks
<1>1. k \div ClusterChunks \in Nat /\ k \div ClusterChunks < n
      /\ k % ClusterChunks \in 0 .. ClusterChunks - 1
  BY Constants, Quotient
<1>2. c + k \div ClusterChunks \in Clusters
  <2>1. k \div ClusterChunks \in 0 .. n - 1
    BY <1>1
  <2> QED
    BY <2>1 DEF FreeRun
<1> QED
  BY <1>1, <1>2 DEF Place, Chunks

LEMMA PlaceInCluster ==
    ASSUME NEW c \in Nat, NEW k \in 0 .. ClusterChunks - 1
    PROVE  Place(c, k) = <<c, k>>
<1>1. k \div ClusterChunks = 0 /\ k % ClusterChunks = k
  <2>1. ClusterChunks * 0 + k = k
    BY Constants
  <2> QED
    BY <2>1, Constants, DivisionUnique
<1> QED
  BY <1>1 DEF Place

LEMMA LargerIs ==
    ASSUME NEW m \in Int, NEW n \in Int
    PROVE  /\ Larger(m, n) \in {m, n} /\ m <= Larger(m, n) /\ n <= Larger(m, n)
           /\ Smaller(m, n) \in {m, n} /\ Smaller(m, n) <= m /\ Smaller(m, n) <= n
BY DEF Larger, Smaller

-----------------------------------------------------------------------------
\* Descriptors.
LEMMA EntryFacts ==
    /\ \A c \in AnyCluster, size \in Sizes :
          [first |-> c, size |-> size] \in Entries \ {Absent}
    /\ \A e \in Entries \ {Absent} : /\ e.first \in AnyCluster /\ e.size \in Sizes
                                     /\ e = [first |-> e.first, size |-> e.size]
    /\ NoEntry \in Entries \ {Absent}
<1>1. AnyCluster \subseteq Nat /\ Sizes \subseteq Nat /\ 0 \in AnyCluster /\ 0 \in Sizes
  BY Constants DEF AnyCluster, Sizes
<1>2. ASSUME NEW c \in AnyCluster, NEW size \in Sizes
      PROVE  [first |-> c, size |-> size] \in Entries \ {Absent}
  <2>1. [first |-> c, size |-> size] \in [first : Nat, size : Nat]
    BY <1>1
  <2> QED
    BY <2>1, FileHandlesAssumption DEF Entries
<1> QED
  BY <1>1, <1>2 DEF Entries, NoEntry

LEMMA EmptyHandle ==
    Closed \in Handles /\ NoOp \in [at : {"idle", "overflow", "write"}, fd : Fds, offset : Offsets,
        count : Sizes, done : Sizes, cluster : AnyCluster, index : 0 .. ClusterSectors]
<1>1. 0 \in AnyCluster /\ 0 \in Sizes /\ 0 \in Offsets /\ 0 \in 0 .. Eoc /\ 0 \in Fds
      /\ 0 \in 0 .. ClusterSectors /\ Absent \in Entries
  BY Constants DEF AnyCluster, Sizes, Offsets, Eoc, Fds, Entries
<1> QED
  BY <1>1 DEF Closed, NoCopy, Handles, NoOp

LEMMA OpenedIs ==
    ASSUME NEW f \in Files, NEW entry \in Entries \ {Absent}
    PROVE  /\ Opened(f, entry) \in Handles
           /\ Opened(f, entry) =
                [Closed EXCEPT !.in_use = TRUE, !.file = f, !.first_cluster = entry.first,
                               !.file_size = entry.size, !.current_cluster = entry.first]
<1>1. entry.first \in AnyCluster /\ entry.size \in Sizes /\ entry.first \in 0 .. Eoc
  BY EntryFacts, Constants DEF AnyCluster, Eoc
<1> QED
  BY <1>1, EmptyHandle DEF Opened, Handles

\* r is descriptor fi without its buffer, with its position at the start.
FlushedTo(fi, r, start) ==
    /\ r \in Handles
    /\ r.in_use = fi.in_use /\ r.file = fi.file /\ r.is_writable = fi.is_writable
    /\ r.first_cluster = start /\ r.file_size = fi.file_size
    /\ ~r.buffered /\ ~r.write_buf
    /\ r.dir_sector_buf =
          [fi.dir_sector_buf EXCEPT ![fi.file] = [first |-> start, size |-> fi.file_size]]
    /\ r.write_cluster = start /\ r.sector_in_cluster = 0
    /\ r.current_cluster = start /\ r.current_cluster_idx = 0
    /\ r.last_offset = 0 /\ r.moved_by = "none"

\* A descriptor with a buffer is at the start.
AtStart(fi) ==
    /\ fi.first_cluster = 0 /\ fi.write_cluster = 0 /\ fi.sector_in_cluster = 0
    /\ fi.current_cluster = 0 /\ fi.current_cluster_idx = 0 /\ fi.last_offset = 0
    /\ fi.moved_by = "none"

LEMMA FlushStartIs ==
    ASSUME NEW fi, fi.file_size \in Nat, CanFlush(fi)
    PROVE  IF fi.file_size = 0 THEN FlushStart(fi) = 0
           ELSE /\ FlushStart(fi) \in Runs(ClustersFor(fi.file_size))
                /\ FlushStart(fi) \in Clusters /\ FlushStart(fi) # 0
                /\ ClustersFor(fi.file_size) \in Nat \ {0}
                /\ FreeRun(fat, FlushStart(fi), ClustersFor(fi.file_size))
<1>1. CASE fi.file_size = 0
  BY <1>1 DEF FlushStart
<1>2. CASE fi.file_size # 0
  <2>1. ClustersFor(fi.file_size) \in Nat \ {0}
    BY <1>2, ClustersForIs
  <2>2. FlushStart(fi) \in Runs(ClustersFor(fi.file_size))
    BY <1>2, <2>1, FirstRun DEF FlushStart, CanFlush
  <2> QED
    BY <1>2, <2>1, <2>2, RunsFree, ClusterFacts
<1> QED
  BY <1>1, <1>2

LEMMA FlushedIs ==
    ASSUME NEW fi \in Handles, fi.file \in Files, AtStart(fi), CanFlush(fi)
    PROVE  FlushedTo(fi, Flushed(fi), FlushStart(fi)) /\ FlushStart(fi) \in AnyCluster
<1>1. fi.file_size \in Nat
  BY Constants DEF Handles, Sizes
<1>2. PICK start : start = FlushStart(fi)
  OBVIOUS
<1>3. start \in AnyCluster /\ start \in 0 .. Eoc
  <2>1. FlushStart(fi) = 0 \/ FlushStart(fi) \in Clusters
    BY <1>1, FlushStartIs
  <2>2. 0 \in AnyCluster /\ 0 \in 0 .. Eoc
    BY Constants DEF AnyCluster, Eoc
  <2>3. Clusters \subseteq AnyCluster /\ Clusters \subseteq 0 .. Eoc
    BY ClusterFacts
  <2> QED
    BY <1>2, <2>1, <2>2, <2>3
<1>4. [first |-> start, size |-> fi.file_size] \in Entries
  BY <1>3, EntryFacts DEF Handles
<1>5. 0 \in Sizes /\ 0 \in 0 .. ClusterSectors
  BY Constants DEF Sizes
<1>6. Flushed(fi) = IF start = 0 THEN [SetEntry(Unbuffered(fi), 0, fi.file_size) EXCEPT !.first_cluster = 0]
                    ELSE Rewound(SetEntry(Unbuffered(fi), start, fi.file_size), start)
  BY <1>2 DEF Flushed
<1>7. PICK w : w = SetEntry(Unbuffered(fi), start, fi.file_size)
  OBVIOUS
<1>8. w = [fi EXCEPT !.buffered = FALSE, !.write_buf = FALSE,
                     !.dir_sector_buf = [fi.dir_sector_buf EXCEPT ![fi.file] = [first |-> start, size |-> fi.file_size]]]
  <2>1. PICK e : e = [first |-> start, size |-> fi.file_size]
    OBVIOUS
  <2>2. w = [Unbuffered(fi) EXCEPT !.dir_sector_buf[fi.file] = e]
    BY <1>7, <2>1 DEF SetEntry, Unbuffered, Handles
  <2>3. w = [fi EXCEPT !.buffered = FALSE, !.write_buf = FALSE,
                       !.dir_sector_buf = [fi.dir_sector_buf EXCEPT ![fi.file] = e]]
    BY <2>2 DEF Unbuffered, Handles
  <2> QED
    BY <2>1, <2>3
<1>9. w \in Handles
  BY <1>4, <1>8 DEF Handles
<1>10. PICK r : r = Flushed(fi)
  OBVIOUS
<1>11. FlushedTo(fi, r, start)
  <2>1. CASE start = 0
    <3>1. r = [w EXCEPT !.first_cluster = 0]
      BY <2>1, <1>6, <1>7, <1>10
    <3> QED
      BY <3>1, <2>1, <1>3, <1>8, <1>9 DEF FlushedTo, AtStart, Handles
  <2>2. CASE start # 0
    <3>1. r = Rewound(w, start)
      BY <2>2, <1>6, <1>7, <1>10
    <3>2. r = [w EXCEPT !.first_cluster = start, !.write_cluster = start,
                        !.sector_in_cluster = 0, !.last_offset = 0, !.moved_by = "none",
                        !.current_cluster = start, !.current_cluster_idx = 0]
      BY <3>1 DEF Rewound
    <3>3. r \in Handles
      BY <3>2, <1>3, <1>5, <1>9 DEF Handles
    <3>4. /\ r.in_use = w.in_use /\ r.file = w.file /\ r.is_writable = w.is_writable
          /\ r.first_cluster = start /\ r.file_size = w.file_size
          /\ r.buffered = w.buffered /\ r.write_buf = w.write_buf
          /\ r.dir_sector_buf = w.dir_sector_buf
          /\ r.write_cluster = start /\ r.sector_in_cluster = 0
          /\ r.current_cluster = start /\ r.current_cluster_idx = 0
          /\ r.last_offset = 0 /\ r.moved_by = "none"
      BY <3>2, <1>9 DEF Handles
    <3>5. /\ w.in_use = fi.in_use /\ w.file = fi.file /\ w.is_writable = fi.is_writable
          /\ w.file_size = fi.file_size /\ ~w.buffered /\ ~w.write_buf
          /\ w.dir_sector_buf =
                [fi.dir_sector_buf EXCEPT ![fi.file] = [first |-> start, size |-> fi.file_size]]
      BY <1>8 DEF Handles
    <3> QED
      BY <3>3, <3>4, <3>5 DEF FlushedTo
  <2> QED
    BY <2>1, <2>2
<1> QED
  BY <1>2, <1>3, <1>10, <1>11

\* What a layout makes of a state.
Inv(chain) == TypeOK /\ CInv(chain)

\* Callers share no directory sector and leave empty files alone.
Plain == "shared directory sector" \notin Usage /\ "empty files" \notin Usage

-----------------------------------------------------------------------------
\* What a step has to do for the layout, the descriptors and the write in progress.
LEMMA LayoutStep ==
    ASSUME NEW f2, NEW c2, NEW u, u = fat', Laid(u, f2, c2),
           \A f \in Files : f2[f] = IF dir'[f] = Absent THEN 0 ELSE dir'[f].first
    PROVE  Layout(c2)'
<1>1. ASSUME NEW f \in Files PROVE [g \in Files |-> First(g)]'[f] = f2[f]
  BY DEF First
<1> QED
  BY <1>1 DEF Layout, Laid

LEMMA LayoutSame ==
    ASSUME NEW chain, Layout(chain), UNCHANGED <<fat, dir>>
    PROVE  Layout(chain)'
BY DEF Layout, Laid, First

\* A descriptor that a step leaves alone.
LEMMA HandleKept ==
    ASSUME NEW chain, NEW c2, NEW h, HandleSound(chain, h),
           wanted'.file = wanted.file, wanted'.offset = wanted.offset,
           \/ dir' = dir /\ c2 = chain
           \/ ~h.is_writable /\ dir'[h.file] = dir[h.file]
    PROVE  HandleSound(c2, h)'
<1>1. CASE dir' = dir /\ c2 = chain
  BY <1>1 DEF HandleSound
<1>2. CASE ~h.is_writable /\ dir'[h.file] = dir[h.file]
  BY <1>2 DEF HandleSound
<1> QED
  BY <1>1, <1>2

\* Descriptor fd becomes r and the others stay.
LEMMA HandlesStep ==
    ASSUME NEW chain, NEW c2, HandlesSound(chain), WriterAlone, s_files \in [Fds -> Handles],
           NEW fd \in Fds, NEW r, s_files' = [s_files EXCEPT ![fd] = r],
           wanted'.file = wanted.file, wanted'.offset = wanted.offset,
           \A d \in Fds \ {fd} : d < s_file_count' => d < s_file_count,
           \A d \in Fds \ {fd} : InUse(d) =>
               \/ dir' = dir /\ c2 = chain
               \/ ~s_files[d].is_writable /\ dir'[s_files[d].file] = dir[s_files[d].file],
           r.in_use => HandleSound(c2, r)',
           r.in_use => \A d \in Fds \ {fd} :
               InUse(d) /\ (r.is_writable \/ s_files[d].is_writable) =>
                   ~(r.is_writable /\ s_files[d].is_writable) /\ r.file # s_files[d].file
    PROVE  HandlesSound(c2)' /\ WriterAlone'
<1>1. s_files'[fd] = r /\ \A d \in Fds \ {fd} : s_files'[d] = s_files[d]
  OBVIOUS
<1>2. ASSUME NEW d \in Fds \ {fd}, InUse(d)'
      PROVE  InUse(d) /\ s_files'[d] = s_files[d]
  BY <1>1, <1>2 DEF InUse
<1>3. ASSUME NEW d \in Fds, InUse(d)'
      PROVE  HandleSound(c2, s_files[d])'
  <2>1. CASE d = fd
    <3>1. HandleSound(c2, r)' /\ s_files'[d] = r
      BY <1>1, <1>3, <2>1 DEF InUse
    <3> QED
      BY <3>1 DEF HandleSound
  <2>2. CASE d # fd
    <3>1. PICK h : h = s_files[d]
      OBVIOUS
    <3>2. InUse(d) /\ s_files'[d] = h
      BY <1>2, <1>3, <2>2, <3>1
    <3>3. HandleSound(chain, h)
      BY <3>1, <3>2 DEF HandlesSound
    <3>4. \/ dir' = dir /\ c2 = chain
          \/ ~h.is_writable /\ dir'[h.file] = dir[h.file]
      BY <2>2, <3>1, <3>2
    <3>5. HandleSound(c2, h)'
      BY <3>3, <3>4, HandleKept
    <3> QED
      BY <3>2, <3>5 DEF HandleSound
  <2> QED
    BY <2>1, <2>2
<1>4. ASSUME NEW d \in Fds, NEW e \in Fds, InUse(d)', InUse(e)', d # e, s_files'[d].is_writable
      PROVE  ~s_files'[e].is_writable /\ s_files'[e].file # s_files'[d].file
  <2>1. CASE d = fd
    <3>1. r.in_use /\ InUse(e) /\ s_files'[e] = s_files[e]
      BY <1>1, <1>2, <1>4, <2>1 DEF InUse
    <3> QED
      BY <1>1, <1>4, <2>1, <3>1
  <2>2. CASE e = fd
    <3>1. r.in_use /\ InUse(d) /\ s_files'[d] = s_files[d]
      BY <1>1, <1>2, <1>4, <2>2 DEF InUse
    <3> QED
      BY <1>1, <1>4, <2>2, <3>1
  <2>3. CASE d # fd /\ e # fd
    <3>1. InUse(d) /\ InUse(e) /\ s_files'[d] = s_files[d] /\ s_files'[e] = s_files[e]
      BY <1>2, <1>4, <2>3
    <3> QED
      BY <1>4, <3>1 DEF WriterAlone
  <2> QED
    BY <2>1, <2>2, <2>3
<1> QED
  BY <1>3, <1>4 DEF HandlesSound, WriterAlone

\* The step of a writer: the file it writes has no other descriptor.
WriterBecomes(c2, fd, r) ==
    /\ InUse(fd) /\ s_files[fd].is_writable
    /\ s_files' = [s_files EXCEPT ![fd] = r]
    /\ r.file = s_files[fd].file \/ ~r.in_use
    /\ wanted'.file = wanted.file /\ wanted'.offset = wanted.offset
    /\ s_file_count' = s_file_count
    /\ \A g \in Files \ {s_files[fd].file} : dir'[g] = dir[g]
    /\ r.in_use => HandleSound(c2, r)'

LEMMA WriterStep ==
    ASSUME NEW chain, NEW c2, HandlesSound(chain), WriterAlone, s_files \in [Fds -> Handles],
           NEW fd \in Fds, NEW r, WriterBecomes(c2, fd, r)
    PROVE  HandlesSound(c2)' /\ WriterAlone'
<1> USE DEF WriterBecomes
<1>1. \A d \in Fds \ {fd} : InUse(d) =>
          /\ ~s_files[d].is_writable /\ s_files[d].file \in Files
          /\ s_files[d].file # s_files[fd].file
  BY DEF WriterAlone, HandlesSound, HandleSound
<1>2. \A d \in Fds \ {fd} : InUse(d) =>
          ~s_files[d].is_writable /\ dir'[s_files[d].file] = dir[s_files[d].file]
  BY <1>1
<1>3. r.in_use => \A d \in Fds \ {fd} :
          InUse(d) /\ (r.is_writable \/ s_files[d].is_writable) =>
              ~(r.is_writable /\ s_files[d].is_writable) /\ r.file # s_files[d].file
  BY <1>1
<1> QED
  BY <1>2, <1>3, HandlesStep

\* Descriptors stay as they are while no one writes.
LEMMA NoWriterStep ==
    ASSUME NEW chain, NEW c2, HandlesSound(chain), WriterAlone,
           UNCHANGED <<s_files, s_file_count>>,
           wanted'.file = wanted.file, wanted'.offset = wanted.offset,
           \A d \in Fds : InUse(d) =>
               ~s_files[d].is_writable /\ dir'[s_files[d].file] = dir[s_files[d].file]
    PROVE  HandlesSound(c2)' /\ WriterAlone'
<1>1. ASSUME NEW d \in Fds, InUse(d)'
      PROVE  HandleSound(c2, s_files[d])'
  <2>1. PICK h : h = s_files[d]
    OBVIOUS
  <2>2. InUse(d) /\ s_files'[d] = h
    BY <1>1, <2>1 DEF InUse
  <2>3. HandleSound(chain, h)
    BY <2>1, <2>2 DEF HandlesSound
  <2>4. HandleSound(c2, h)'
    BY <2>1, <2>2, <2>3, HandleKept
  <2> QED
    BY <2>2, <2>4 DEF HandleSound
<1>2. WriterAlone'
  BY DEF WriterAlone, InUse
<1> QED
  BY <1>1, <1>2 DEF HandlesSound

LEMMA AllocStep ==
    ASSUME TypeOK, NEW fd \in Fds, AllocFd(fd)
    PROVE  /\ s_file_count' \in 0 .. MaxFiles /\ s_free_fds' \in Seq(Fds)
           /\ \A d \in Fds \ {fd} : d < s_file_count' => d < s_file_count
<1>1. CASE s_free_fds # <<>>
  <2>1. /\ s_free_fds' = SubSeq(s_free_fds, 1, Len(s_free_fds) - 1)
        /\ s_file_count' = s_file_count /\ Len(s_free_fds) \in Nat \ {0}
    BY <1>1, EmptySeq DEF AllocFd, TypeOK
  <2>2. s_free_fds' \in Seq(Fds)
    <3>1. s_free_fds \in Seq(Fds)
      BY DEF TypeOK
    <3>2. \A i \in 1 .. Len(s_free_fds) - 1 : s_free_fds[i] \in Fds
      BY <2>1, <3>1, ElementOfSeq
    <3> QED
      BY <2>1, <3>1, <3>2, SubSeqProperties
  <2> QED
    BY <2>1, <2>2 DEF TypeOK
<1>2. CASE s_free_fds = <<>>
  <2>1. /\ s_file_count < MaxFiles /\ fd = s_file_count /\ s_file_count' = s_file_count + 1
        /\ s_free_fds' = s_free_fds
    BY <1>2 DEF AllocFd
  <2> QED
    BY <2>1, Constants DEF TypeOK, Fds
<1> QED
  BY <1>1, <1>2

-----------------------------------------------------------------------------
\* Opening and closing.
LEMMA IdleOp ==
    ASSUME NEW c2, UNCHANGED op, Idle
    PROVE  OpSound(c2)'
BY DEF OpSound, Idle

LEMMA EntryTyped ==
    ASSUME TypeOK, NEW f \in Files, dir[f] # Absent
    PROVE  /\ dir[f] \in Entries \ {Absent} /\ dir[f].first \in AnyCluster /\ dir[f].size \in Sizes
           /\ dir[f] = [first |-> dir[f].first, size |-> dir[f].size]
<1>1. dir[f] \in Entries \ {Absent}
  BY DEF TypeOK
<1> QED
  BY <1>1, EntryFacts

\* The first cluster in the entry of a file.
LEMMA FirstIs ==
    ASSUME NEW chain, Layout(chain), NEW f \in Files
    PROVE  First(f) = IF Len(chain[f]) = 0 THEN 0 ELSE chain[f][1]
<1>1. PICK first : first = [g \in Files |-> First(g)]
  OBVIOUS
<1>2. Laid(fat, first, chain)
  BY <1>1 DEF Layout
<1>3. first[f] = First(f)
  BY <1>1
<1> QED
  BY <1>2, <1>3 DEF Laid

LEMMA OpenKeepsInv ==
    ASSUME Plain, NEW chain, Inv(chain), NEW f \in Files, Open(f)
    PROVE  Inv(chain)'
<1>1. PICK fd \in Fds :
          AllocFd(fd) /\ s_files' = [s_files EXCEPT ![fd] = Opened(f, dir[f])]
  BY DEF Open
<1>2. PICK r : r = Opened(f, dir[f])
  OBVIOUS
<1>3. /\ r \in Handles /\ r.file = f /\ ~r.is_writable /\ ~r.buffered /\ ~r.write_buf
      /\ r.first_cluster = dir[f].first /\ r.file_size = dir[f].size
  <2>1. dir[f] \in Entries \ {Absent}
    BY EntryTyped DEF Inv, Open
  <2>2. /\ r \in Handles
        /\ r = [Closed EXCEPT !.in_use = TRUE, !.file = f, !.first_cluster = dir[f].first,
                              !.file_size = dir[f].size, !.current_cluster = dir[f].first]
    BY <1>2, <2>1, OpenedIs
  <2> QED
    BY <2>2 DEF Closed
<1>4. TypeOK'
  BY <1>1, <1>2, <1>3, AllocStep DEF Inv, TypeOK, Open
<1>5. HandleSound(chain, r)'
  <2>1. dir[f] # Absent /\ dir[f] = [first |-> dir[f].first, size |-> dir[f].size]
    BY EntryTyped DEF Inv, Open
  <2> QED
    BY <1>3, <2>1 DEF HandleSound, Open
<1>6. \A d \in Fds \ {fd} : InUse(d) /\ s_files[d].is_writable => s_files[d].file # f
  BY DEF Plain, Open, Readers, Writers
<1>7. HandlesSound(chain)' /\ WriterAlone'
  <2>1. s_files \in [Fds -> Handles] /\ HandlesSound(chain) /\ WriterAlone
    BY DEF Inv, CInv, TypeOK
  <2>2. dir' = dir /\ wanted' = wanted
    BY DEF Open
  <2>3. \A d \in Fds \ {fd} : d < s_file_count' => d < s_file_count
    BY <1>1, AllocStep DEF Inv
  <2> QED
    BY <1>1, <1>2, <1>3, <1>5, <1>6, <2>1, <2>2, <2>3, HandlesStep
<1>8. Layout(chain)' /\ OpSound(chain)'
  BY LayoutSame, IdleOp DEF Inv, CInv, Open
<1> QED
  BY <1>4, <1>7, <1>8 DEF Inv, CInv

LEMMA OpenWritableKeepsInv ==
    ASSUME Plain, NEW chain, Inv(chain), NEW f \in Files, OpenWritable(f)
    PROVE  Inv(chain)'
<1>1. PICK fd \in Fds :
          /\ AllocFd(fd)
          /\ s_files' = [s_files EXCEPT ![fd] =
                [Opened(f, dir[f]) EXCEPT !.is_writable = TRUE, !.dir_sector_buf = dir,
                                          !.write_cluster = dir[f].first]]
  BY DEF OpenWritable
<1>2. PICK r : r = [Opened(f, dir[f]) EXCEPT !.is_writable = TRUE, !.dir_sector_buf = dir,
                                             !.write_cluster = dir[f].first]
  OBVIOUS
<1>3. /\ r \in Handles /\ r.file = f /\ r.is_writable /\ ~r.buffered /\ ~r.write_buf
      /\ r.first_cluster = dir[f].first /\ r.file_size = dir[f].size
      /\ r.dir_sector_buf = dir /\ r.write_cluster = dir[f].first
  <2>1. dir[f] \in Entries \ {Absent} /\ dir[f].first \in AnyCluster /\ dir \in [Files -> Entries]
    BY EntryTyped DEF Inv, OpenWritable, TypeOK
  <2>2. PICK o : o = Opened(f, dir[f])
    OBVIOUS
  <2>3. /\ o \in Handles
        /\ o = [Closed EXCEPT !.in_use = TRUE, !.file = f, !.first_cluster = dir[f].first,
                              !.file_size = dir[f].size, !.current_cluster = dir[f].first]
    BY <2>1, <2>2, OpenedIs
  <2>4. r = [o EXCEPT !.is_writable = TRUE, !.dir_sector_buf = dir, !.write_cluster = dir[f].first]
    BY <1>2, <2>2
  <2>5. ~o.buffered /\ ~o.write_buf /\ o.file = f /\ o.first_cluster = dir[f].first
        /\ o.file_size = dir[f].size
    BY <2>3 DEF Closed
  <2> QED
    BY <2>1, <2>3, <2>4, <2>5 DEF Handles
<1>4. TypeOK'
  BY <1>1, <1>2, <1>3, AllocStep DEF Inv, TypeOK, OpenWritable
<1>5. HandleSound(chain, r)'
  <2>1. dir[f] # Absent /\ dir[f] = [first |-> dir[f].first, size |-> dir[f].size]
    BY EntryTyped DEF Inv, OpenWritable
  <2>2. dir[f].first = 0 \/ InChain(chain, f, dir[f].first)
    <3>1. dir[f].first = IF Len(chain[f]) = 0 THEN 0 ELSE chain[f][1]
      BY <2>1, FirstIs DEF Inv, CInv, First
    <3>2. Len(chain[f]) \in Nat
      BY ChainFacts DEF Inv, CInv, Layout
    <3>3. Len(chain[f]) # 0 => 1 \in 1 .. Len(chain[f])
      BY <3>2
    <3> QED
      BY <3>1, <3>3 DEF InChain
  <2> QED
    BY <1>3, <2>1, <2>2 DEF HandleSound, OpenWritable, InChain
<1>6. \A d \in Fds \ {fd} : InUse(d) => ~s_files[d].is_writable /\ s_files[d].file # f
  BY DEF Plain, OpenWritable, SectorIsFree, Readers, Writers
<1>7. HandlesSound(chain)' /\ WriterAlone'
  <2>1. s_files \in [Fds -> Handles] /\ HandlesSound(chain) /\ WriterAlone
    BY DEF Inv, CInv, TypeOK
  <2>2. dir' = dir /\ wanted' = wanted
    BY DEF OpenWritable
  <2>3. \A d \in Fds \ {fd} : d < s_file_count' => d < s_file_count
    BY <1>1, AllocStep DEF Inv
  <2> QED
    BY <1>1, <1>2, <1>3, <1>5, <1>6, <2>1, <2>2, <2>3, HandlesStep
<1>8. Layout(chain)' /\ OpSound(chain)'
  BY LayoutSame, IdleOp DEF Inv, CInv, OpenWritable
<1> QED
  BY <1>4, <1>7, <1>8 DEF Inv, CInv

-----------------------------------------------------------------------------
\* Deleting a file.
LEMMA FreeChainIs ==
    ASSUME NEW chain, Layout(chain), NEW f \in Files, NEW i \in 1 .. Len(chain[f]),
           NEW t, NEW c \in AnyCluster
    PROVE  /\ (\E j \in i .. Len(chain[f]) : chain[f][j] = c) =>
                  FreeChain(t, chain[f][i])[c] = Free
           /\ (\A j \in i .. Len(chain[f]) : chain[f][j] # c) =>
                  FreeChain(t, chain[f][i])[c] = t[c]
<1>1. PICK C : C = ChainOf(chain[f][i])
  OBVIOUS
<1>2. C = {chain[f][j] : j \in i .. Len(chain[f])}
  BY <1>1, ChainOfIs, ZenonT(60)
<1>3. FreeChain(t, chain[f][i])[c] = IF c \in C THEN Free ELSE t[c]
  BY <1>1 DEF FreeChain
<1>4. ASSUME NEW j \in i .. Len(chain[f]), chain[f][j] = c
      PROVE  FreeChain(t, chain[f][i])[c] = Free
  BY <1>2, <1>3, <1>4
<1>5. ASSUME \A j \in i .. Len(chain[f]) : chain[f][j] # c
      PROVE  FreeChain(t, chain[f][i])[c] = t[c]
  BY <1>2, <1>3, <1>5
<1> QED
  BY <1>4, <1>5

LEMMA FreeChainTyped ==
    ASSUME NEW t \in [AnyCluster -> 0 .. Eoc], NEW c
    PROVE  FreeChain(t, c) \in [AnyCluster -> 0 .. Eoc]
BY ClusterFacts DEF FreeChain, Free

Histories ==
    [file : Files, offset : Offsets, size : [Files -> Sizes], written : BOOLEAN,
     dropped : SUBSET Files]

LEMMA ForgottenIs ==
    ASSUME TypeOK, NEW f \in Files, NEW size \in Sizes
    PROVE  /\ Forgotten(f, size) \in Histories
           /\ Forgotten(f, size).file = wanted.file
           /\ Forgotten(f, size).offset = wanted.offset
           /\ Forgotten(f, size).dropped = wanted.dropped
           /\ Forgotten(f, size).size = [wanted.size EXCEPT ![f] = size]
           /\ Forgotten(f, size).written =
                 (wanted.written /\ ~(f = wanted.file /\ wanted.offset >= size))
BY DEF Forgotten, TypeOK, Histories

\* What is forgotten when f is deleted.
LEMMA GoneIs ==
    ASSUME TypeOK, NEW f \in Files
    PROVE  LET w == [Forgotten(f, 0) EXCEPT !.dropped = @ \ {f}]
           IN  /\ w \in Histories /\ w.file = wanted.file /\ w.offset = wanted.offset
               /\ w.dropped = wanted.dropped \ {f}
               /\ w.size = [wanted.size EXCEPT ![f] = 0]
               /\ w.written = (wanted.written /\ f # wanted.file)
<1>1. 0 \in Sizes /\ wanted.offset >= 0
  BY Constants DEF Sizes, Offsets, TypeOK
<1>2. PICK w : w = Forgotten(f, 0)
  OBVIOUS
<1>3. /\ w \in Histories /\ w.file = wanted.file /\ w.offset = wanted.offset
      /\ w.dropped = wanted.dropped /\ w.size = [wanted.size EXCEPT ![f] = 0]
      /\ w.written = (wanted.written /\ ~(f = wanted.file /\ wanted.offset >= 0))
  BY <1>1, <1>2, ForgottenIs
<1>4. [w EXCEPT !.dropped = @ \ {f}] \in Histories
  BY <1>3 DEF Histories
<1> QED
  BY <1>1, <1>2, <1>3, <1>4 DEF Histories

LEMMA HeldTyped ==
    ASSUME TypeOK, disk' = Held(disk)
    PROVE  disk' \subseteq AnyCluster \X (0 .. ClusterChunks - 1)
BY DEF TypeOK, Held

LEMMA DeletedLaid ==
    ASSUME Plain, NEW chain, Inv(chain), NEW f \in Files, MayDelete(f),
           NEW e, e = NoEntry \/ e = Absent, dir' = [dir EXCEPT ![f] = e], fat' = Deleted(f),
           NEW c2, c2 = [chain EXCEPT ![f] = <<>>]
    PROVE  Layout(c2)' /\ fat' \in [AnyCluster -> 0 .. Eoc] /\ dir' \in [Files -> Entries]
<1>1. PICK u : u = fat'
  OBVIOUS
<1>2. /\ fat \in [AnyCluster -> 0 .. Eoc] /\ dir \in [Files -> Entries]
      /\ Layout(chain) /\ Len(chain[f]) \in Nat
  BY ChainFacts DEF Inv, CInv, TypeOK, Layout
<1>3. dir' \in [Files -> Entries]
  BY <1>2, EntryFacts DEF Entries
<1>4. /\ u \in [AnyCluster -> 0 .. Eoc]
      /\ \A c \in Clusters : ~InChain(chain, f, c) => u[c] = fat[c]
  <2>1. CASE dir[f] = Absent
    BY <1>1, <1>2, <2>1, ClusterFacts DEF Deleted
  <2>2. CASE dir[f] # Absent
    <3>1. dir[f].first # 0
      BY <2>2 DEF MayDelete, Plain
    <3>2. Len(chain[f]) # 0 /\ dir[f].first = chain[f][1]
      BY <3>1, <2>2, <1>2, FirstIs DEF First
    <3>3. 1 \in 1 .. Len(chain[f])
      BY <3>2, <1>2
    <3>4. PICK v : v = FreeChain(fat, dir[f].first)
      OBVIOUS
    <3>5. v \in [AnyCluster -> 0 .. Eoc]
      BY <3>4, <1>2, FreeChainTyped
    <3>6. ASSUME NEW c \in AnyCluster, \A j \in 1 .. Len(chain[f]) : chain[f][j] # c
          PROVE  v[c] = fat[c]
      <4>1. FreeChain(fat, chain[f][1])[c] = fat[c]
        BY <3>3, <3>6, <1>2, FreeChainIs
      <4> QED
        BY <4>1, <3>2, <3>4
    <3>7. u = [v EXCEPT ![chain[f][1]] = Free]
      BY <3>2, <3>4, <1>1, <2>2 DEF Deleted
    <3>8. Free \in 0 .. Eoc
      BY ClusterFacts DEF Free
    <3>9. ASSUME NEW c \in Clusters, ~InChain(chain, f, c) PROVE u[c] = fat[c]
      <4>1. c # chain[f][1] /\ c \in AnyCluster
        BY <3>3, <3>9, ClusterFacts DEF InChain
      <4> QED
        BY <3>5, <3>6, <3>7, <3>9, <4>1 DEF InChain
    <3> QED
      BY <3>5, <3>7, <3>8, <3>9
  <2> QED
    BY <2>1, <2>2
<1>5. PICK first : first = [g \in Files |-> First(g)]
  OBVIOUS
<1>6. Laid(fat, first, chain)
  BY <1>2, <1>5 DEF Layout
<1>7. PICK f2 : f2 = [g \in Files |-> IF g = f THEN 0 ELSE First(g)]
  OBVIOUS
<1>8. f2[f] = 0 /\ \A g \in Files \ {f} : f2[g] = first[g]
  BY <1>5, <1>7
<1>9. Laid(u, f2, c2)
  <2>1. Freed(fat, u, first, f2, chain, c2, f)
    BY <1>4, <1>8 DEF Freed
  <2> QED
    BY <2>1, <1>6, FreeLaid
<1>10. \A g \in Files : f2[g] = IF dir'[g] = Absent THEN 0 ELSE dir'[g].first
  BY <1>2, <1>7 DEF First, NoEntry
<1>11. Layout(c2)'
  BY <1>1, <1>9, <1>10, LayoutStep
<1> QED
  BY <1>1, <1>3, <1>4, <1>11

LEMMA CreateKeepsInv ==
    ASSUME Plain, NEW chain, Inv(chain), NEW f \in Files, Create(f),
           NEW c2, c2 = [chain EXCEPT ![f] = <<>>]
    PROVE  Inv(c2)'
<1>1. PICK e : e = NoEntry
  OBVIOUS
<1>2. dir' = [dir EXCEPT ![f] = e] /\ fat' = Deleted(f) /\ MayDelete(f)
  BY <1>1 DEF Create
<1>3. Layout(c2)' /\ fat' \in [AnyCluster -> 0 .. Eoc] /\ dir' \in [Files -> Entries]
  BY <1>1, <1>2, DeletedLaid
<1>4. /\ wanted' \in Histories /\ wanted'.file = wanted.file /\ wanted'.offset = wanted.offset
  BY GoneIs DEF Create, Inv
<1>5. disk' \subseteq AnyCluster \X (0 .. ClusterChunks - 1)
  BY HeldTyped DEF Create, Inv
<1>6. OpSound(c2)' /\ op' = op
  BY IdleOp DEF Create
<1>7. \A d \in Fds : InUse(d) => ~s_files[d].is_writable /\ s_files[d].file # f
  BY DEF Plain, Create, MayDelete, SectorIsFree, Readers, Writers
<1>8. \A d \in Fds : InUse(d) =>
          ~s_files[d].is_writable /\ dir'[s_files[d].file] = dir[s_files[d].file]
  <2>1. \A d \in Fds : InUse(d) => s_files[d].file \in Files
    BY DEF Inv, CInv, HandlesSound, HandleSound
  <2>2. \A g \in Files \ {f} : dir'[g] = dir[g]
    BY <1>2 DEF Inv, TypeOK
  <2> QED
    BY <1>7, <2>1, <2>2
<1>9. s_files \in [Fds -> Handles] /\ HandlesSound(chain) /\ WriterAlone
  BY DEF Inv, CInv, TypeOK
<1>10. CASE UNCHANGED <<pool, s_files>>
  <2>1. HandlesSound(c2)' /\ WriterAlone'
    BY <1>4, <1>8, <1>9, <1>10, NoWriterStep DEF pool
  <2>2. TypeOK'
    BY <1>3, <1>4, <1>5, <1>6, <1>10 DEF Inv, TypeOK, Histories, pool
  <2> QED
    BY <1>3, <1>6, <2>1, <2>2 DEF Inv, CInv
<1>11. ASSUME NEW fd \in Fds, AllocFd(fd),
              s_files' = [s_files EXCEPT ![fd] =
                   [Opened(f, NoEntry) EXCEPT !.is_writable = TRUE, !.buffered = TRUE,
                                              !.dir_sector_buf = dir']]
       PROVE  Inv(c2)'
  <2>1. PICK r : r = [Opened(f, NoEntry) EXCEPT !.is_writable = TRUE, !.buffered = TRUE,
                                                !.dir_sector_buf = dir']
    OBVIOUS
  <2>2. /\ r \in Handles /\ r.file = f /\ r.is_writable /\ r.buffered /\ ~r.write_buf
        /\ AtStart(r) /\ r.dir_sector_buf = dir'
    <3>1. PICK o : o = Opened(f, NoEntry)
      OBVIOUS
    <3>2. /\ o \in Handles
          /\ o = [Closed EXCEPT !.in_use = TRUE, !.file = f, !.first_cluster = NoEntry.first,
                                !.file_size = NoEntry.size, !.current_cluster = NoEntry.first]
      BY <3>1, OpenedIs, EntryFacts
    <3>3. r = [o EXCEPT !.is_writable = TRUE, !.buffered = TRUE, !.dir_sector_buf = dir']
      BY <2>1, <3>1
    <3>4. o.file = f /\ ~o.write_buf /\ AtStart(o)
      BY <3>2 DEF Closed, NoEntry, AtStart
    <3> QED
      BY <1>3, <3>2, <3>3, <3>4 DEF Handles, AtStart
  <2>3. HandleSound(c2, r)'
    <3>1. dir'[f] = NoEntry /\ dir'[f] # Absent
      BY <1>1, <1>2, EntryFacts DEF Inv, TypeOK
    <3> QED
      BY <2>2, <3>1 DEF HandleSound, AtStart
  <2>4. HandlesSound(c2)' /\ WriterAlone'
    <3>1. \A d \in Fds \ {fd} : d < s_file_count' => d < s_file_count
      BY <1>11, AllocStep DEF Inv
    <3> QED
      BY <1>4, <1>7, <1>8, <1>9, <1>11, <2>1, <2>2, <2>3, <3>1, HandlesStep
  <2>5. TypeOK'
    <3>1. s_file_count' \in 0 .. MaxFiles /\ s_free_fds' \in Seq(Fds)
      BY <1>11, AllocStep DEF Inv
    <3>2. s_files' \in [Fds -> Handles]
      BY <1>9, <1>11, <2>1, <2>2
    <3> QED
      BY <1>3, <1>4, <1>5, <1>6, <3>1, <3>2 DEF Inv, TypeOK, Histories
  <2> QED
    BY <1>3, <1>6, <2>4, <2>5 DEF Inv, CInv
<1> QED
  BY <1>10, <1>11 DEF Create

LEMMA UnlinkKeepsInv ==
    ASSUME Plain, NEW chain, Inv(chain), NEW f \in Files, Unlink(f),
           NEW c2, c2 = [chain EXCEPT ![f] = <<>>]
    PROVE  Inv(c2)'
<1>1. PICK e : e = Absent
  OBVIOUS
<1>2. dir' = [dir EXCEPT ![f] = e] /\ fat' = Deleted(f) /\ MayDelete(f)
  BY <1>1 DEF Unlink
<1>3. Layout(c2)' /\ fat' \in [AnyCluster -> 0 .. Eoc] /\ dir' \in [Files -> Entries]
  BY <1>1, <1>2, DeletedLaid
<1>4. /\ wanted' \in Histories /\ wanted'.file = wanted.file /\ wanted'.offset = wanted.offset
  BY GoneIs DEF Unlink, Inv
<1>5. disk' \subseteq AnyCluster \X (0 .. ClusterChunks - 1)
  BY HeldTyped DEF Unlink, Inv
<1>6. OpSound(c2)' /\ op' = op
  BY IdleOp DEF Unlink
<1>7. \A d \in Fds : InUse(d) => ~s_files[d].is_writable /\ s_files[d].file # f
  BY DEF Plain, Unlink, MayDelete, SectorIsFree, Readers, Writers
<1>8. \A d \in Fds : InUse(d) =>
          ~s_files[d].is_writable /\ dir'[s_files[d].file] = dir[s_files[d].file]
  <2>1. \A d \in Fds : InUse(d) => s_files[d].file \in Files
    BY DEF Inv, CInv, HandlesSound, HandleSound
  <2>2. \A g \in Files \ {f} : dir'[g] = dir[g]
    BY <1>2 DEF Inv, TypeOK
  <2> QED
    BY <1>7, <2>1, <2>2
<1>9. HandlesSound(c2)' /\ WriterAlone'
  BY <1>4, <1>8, NoWriterStep DEF Inv, CInv, Unlink, pool
<1>10. TypeOK'
  BY <1>3, <1>4, <1>5, <1>6 DEF Inv, TypeOK, Histories, Unlink, pool
<1> QED
  BY <1>3, <1>6, <1>9, <1>10 DEF Inv, CInv

-----------------------------------------------------------------------------
\* Writing a buffer out.
LEMMA TakeRunTyped ==
    ASSUME NEW t \in [AnyCluster -> 0 .. Eoc], NEW c \in Nat, NEW n \in Nat \ {0},
           FreeRun(t, c, n)
    PROVE  TakeRun(t, c, n) \in [AnyCluster -> 0 .. Eoc]
<1>1. ASSUME NEW d \in AnyCluster PROVE TakeRun(t, c, n)[d] \in 0 .. Eoc
  <2>1. TakeRun(t, c, n)[d] = IF c <= d /\ d < c + n - 1 THEN d + 1
                              ELSE IF d = c + n - 1 THEN Eoc ELSE t[d]
    BY TakeRunIs
  <2>2. d + 1 \in 0 .. Eoc /\ Eoc \in 0 .. Eoc
    BY Constants DEF AnyCluster, Eoc
  <2> QED
    BY <2>1, <2>2
<1> QED
  BY <1>1 DEF TakeRun

LEMMA ChunksTyped == Chunks \subseteq AnyCluster \X (0 .. ClusterChunks - 1)
BY ClusterFacts DEF Chunks

\* The layout once the buffer of descriptor fi is written out and r is left of it.
FlushChain(chain, fi) ==
    IF fi.file_size = 0 THEN chain
    ELSE [chain EXCEPT ![fi.file] = RunOf(FlushStart(fi), ClustersFor(fi.file_size))]

LEMMA FlushLaid ==
    ASSUME NEW chain, Inv(chain), NEW fi \in Handles, HandleSound(chain, fi),
           fi.buffered, CanFlush(fi), fat' = FlushedFat(fi),
           NEW start, start = FlushStart(fi),
           dir' = [dir EXCEPT ![fi.file] = [first |-> start, size |-> fi.file_size]],
           NEW c2, c2 = FlushChain(chain, fi)
    PROVE  /\ Layout(c2)' /\ fat' \in [AnyCluster -> 0 .. Eoc] /\ dir' \in [Files -> Entries]
           /\ start = 0 \/ InChain(c2, fi.file, start)
<1>1. /\ fat \in [AnyCluster -> 0 .. Eoc] /\ dir \in [Files -> Entries] /\ Layout(chain)
      /\ fi.file \in Files /\ fi.file_size \in Sizes /\ fi.file_size \in Nat
  BY Constants, SMTT(60) DEF Inv, CInv, TypeOK, HandleSound, Handles, Sizes
<1>2. PICK f, n, u : f = fi.file /\ n = ClustersFor(fi.file_size) /\ u = fat'
  OBVIOUS
<1>3. start \in AnyCluster
  <2>1. FlushStart(fi) = 0 \/ FlushStart(fi) \in Clusters
    BY <1>1, FlushStartIs
  <2> QED
    BY <2>1, ClusterFacts
<1>4. dir' \in [Files -> Entries]
  <2>1. [first |-> start, size |-> fi.file_size] \in Entries
    BY <1>1, <1>3, EntryFacts
  <2> QED
    BY <1>1, <2>1
<1>5. PICK first : first = [g \in Files |-> First(g)]
  OBVIOUS
<1>6. Laid(fat, first, chain)
  BY <1>1, <1>5 DEF Layout
<1>7. PICK f2 : f2 = [g \in Files |-> IF g = f THEN start ELSE First(g)]
  OBVIOUS
<1>8. f2[f] = start /\ \A g \in Files \ {f} : f2[g] = first[g]
  BY <1>1, <1>2, <1>5, <1>7
<1>9. \A g \in Files : f2[g] = IF dir'[g] = Absent THEN 0 ELSE dir'[g].first
  <2>1. [first |-> start, size |-> fi.file_size] # Absent
    BY <1>1, <1>3, EntryFacts
  <2> QED
    BY <1>1, <1>2, <1>7, <2>1 DEF First
<1>10. CASE fi.file_size = 0
  <2>1. start = 0 /\ fat' = fat /\ c2 = chain
    BY <1>10 DEF FlushStart, FlushedFat, FlushChain
  <2>2. First(f) = 0
    BY <1>1, <1>2 DEF HandleSound, First, NoEntry
  <2>3. \A g \in Files : f2[g] = first[g]
    BY <1>5, <1>7, <2>1, <2>2
  <2>4. Laid(u, f2, c2)
    BY <1>2, <1>6, <2>1, <2>3 DEF Laid
  <2>5. Layout(c2)'
    BY <1>2, <1>9, <2>4, LayoutStep
  <2> QED
    BY <1>1, <1>4, <2>1, <2>5
<1>11. CASE fi.file_size # 0
  <2>1. start \in Nat /\ n \in Nat \ {0} /\ FreeRun(fat, start, n)
    <3>1. /\ FlushStart(fi) \in Clusters /\ ClustersFor(fi.file_size) \in Nat \ {0}
          /\ FreeRun(fat, FlushStart(fi), ClustersFor(fi.file_size))
      BY <1>1, <1>11, FlushStartIs
    <3> QED
      BY <3>1, <1>2, ClusterFacts
  <2>2. u = TakeRun(fat, start, n) /\ c2 = [chain EXCEPT ![f] = RunOf(start, n)]
    BY <1>2, <1>11 DEF FlushedFat, FlushChain
  <2>3. Taken(fat, u, first, f2, chain, c2, f, start, n)
    BY <1>8, <2>2 DEF Taken
  <2>4. Laid(u, f2, c2)
    BY <1>1, <1>2, <1>6, <2>1, <2>3, TakeLaid
  <2>5. Layout(c2)'
    BY <1>2, <1>9, <2>4, LayoutStep
  <2>6. u \in [AnyCluster -> 0 .. Eoc]
    BY <1>1, <2>1, <2>2, TakeRunTyped
  <2>7. InChain(c2, f, start)
    <3>1. c2[f] = RunOf(start, n) /\ Len(RunOf(start, n)) = n
      BY <1>1, <1>2, <2>1, <2>2, RunFacts DEF Layout, Laid
    <3>2. 1 \in 1 .. n /\ RunOf(start, n)[1] = start
      BY <2>1 DEF RunOf
    <3> QED
      BY <3>1, <3>2 DEF InChain
  <2> QED
    BY <1>2, <1>4, <2>5, <2>6, <2>7
<1> QED
  BY <1>10, <1>11

LEMMA FlushDiskTyped ==
    ASSUME NEW chain, Inv(chain), NEW fi \in Handles, HandleSound(chain, fi),
           CanFlush(fi), disk' = FlushedDisk(fi)
    PROVE  disk' \subseteq AnyCluster \X (0 .. ClusterChunks - 1)
<1>1. disk \subseteq AnyCluster \X (0 .. ClusterChunks - 1)
  BY DEF Inv, TypeOK
<1>2. disk' \subseteq disk \cup (IF fi.write_buf THEN {Place(FlushStart(fi), wanted.offset)} ELSE {})
  BY DEF FlushedDisk
<1>3. ASSUME fi.write_buf
      PROVE  Place(FlushStart(fi), wanted.offset) \in Chunks
  <2>1. wanted.offset < fi.file_size /\ fi.file_size \in Nat /\ wanted.offset \in Nat
    BY <1>3, Constants DEF HandleSound, Handles, Sizes, Inv, TypeOK, Offsets
  <2>2. fi.file_size # 0
    BY <2>1
  <2>3. /\ FlushStart(fi) \in Clusters /\ ClustersFor(fi.file_size) \in Nat \ {0}
        /\ FreeRun(fat, FlushStart(fi), ClustersFor(fi.file_size))
    BY <2>1, <2>2, FlushStartIs
  <2>4. wanted.offset < ClusterChunks * ClustersFor(fi.file_size)
    <3>1. fi.file_size <= ClusterChunks * ClustersFor(fi.file_size)
      BY <2>1, ClustersForIs
    <3>2. ClusterChunks * ClustersFor(fi.file_size) \in Nat
      BY <2>3, Constants
    <3> QED
      BY <2>1, <3>1, <3>2
  <2>5. FlushStart(fi) \in Nat
    BY <2>3, ClusterFacts
  <2> QED
    BY <2>1, <2>3, <2>4, <2>5, PlaceInRun
<1> QED
  BY <1>1, <1>2, <1>3, ChunksTyped

\* The descriptor that is left of it.
LEMMA FlushHandle ==
    ASSUME NEW chain, Inv(chain), NEW fd \in Fds, InUse(fd), s_files[fd].buffered,
           CanFlush(s_files[fd]), NEW r, r = Flushed(s_files[fd]),
           NEW start, start = FlushStart(s_files[fd])
    PROVE  /\ FlushedTo(s_files[fd], r, start)
           /\ s_files[fd].is_writable /\ s_files[fd].file \in Files
           /\ dir[s_files[fd].file] = NoEntry /\ s_files[fd].dir_sector_buf = dir
           /\ s_files[fd] \in Handles /\ HandleSound(chain, s_files[fd])
           /\ r.dir_sector_buf = [dir EXCEPT ![s_files[fd].file] =
                                     [first |-> start, size |-> s_files[fd].file_size]]
<1>1. PICK fi : fi = s_files[fd]
  OBVIOUS
<1>2. fi \in Handles /\ HandleSound(chain, fi)
  BY <1>1 DEF Inv, CInv, TypeOK, HandlesSound
<1>3. AtStart(fi) /\ fi.is_writable /\ fi.file \in Files /\ dir[fi.file] = NoEntry
      /\ fi.dir_sector_buf = dir
  BY <1>1, <1>2 DEF HandleSound, AtStart
<1>4. FlushedTo(fi, r, start)
  BY <1>1, <1>2, <1>3, FlushedIs
<1> QED
  BY <1>1, <1>2, <1>3, <1>4 DEF FlushedTo

LEMMA FlushKeepsHandles ==
    ASSUME NEW chain, Inv(chain), NEW fd \in Fds, InUse(fd), s_files[fd].buffered,
           CanFlush(s_files[fd]),
           s_files' = [s_files EXCEPT ![fd] = Flushed(s_files[fd])],
           fat' = FlushedFat(s_files[fd]), dir' = Flushed(s_files[fd]).dir_sector_buf,
           UNCHANGED <<pool, wanted>>,
           NEW c2, c2 = FlushChain(chain, s_files[fd])
    PROVE  /\ Layout(c2)' /\ HandlesSound(c2)' /\ WriterAlone'
           /\ fat' \in [AnyCluster -> 0 .. Eoc] /\ dir' \in [Files -> Entries]
           /\ s_files' \in [Fds -> Handles]
<1>1. PICK fi, r, start : fi = s_files[fd] /\ r = Flushed(fi) /\ start = FlushStart(fi)
  OBVIOUS
<1>2. /\ FlushedTo(fi, r, start)
      /\ fi.is_writable /\ fi.file \in Files
      /\ fi.dir_sector_buf = dir
      /\ fi \in Handles /\ HandleSound(chain, fi)
      /\ r.dir_sector_buf = [dir EXCEPT ![fi.file] = [first |-> start, size |-> fi.file_size]]
  BY <1>1, FlushHandle
<1>3. dir' = [dir EXCEPT ![fi.file] = [first |-> start, size |-> fi.file_size]]
  BY <1>1, <1>2
<1>4. /\ Layout(c2)' /\ fat' \in [AnyCluster -> 0 .. Eoc] /\ dir' \in [Files -> Entries]
      /\ start = 0 \/ InChain(c2, fi.file, start)
  BY <1>1, <1>2, <1>3, FlushLaid
<1>5. s_files \in [Fds -> Handles] /\ HandlesSound(chain) /\ WriterAlone
      /\ dir \in [Files -> Entries] /\ s_files' = [s_files EXCEPT ![fd] = r]
  BY <1>1 DEF Inv, CInv, TypeOK
<1>6. HandleSound(c2, r)'
  <2>1. r.file = fi.file /\ ~r.buffered /\ ~r.write_buf /\ r.first_cluster = start
        /\ r.file_size = fi.file_size /\ r.write_cluster = start
    BY <1>2 DEF FlushedTo
  <2>2. dir'[fi.file] = [first |-> start, size |-> fi.file_size] /\ dir'[fi.file] # Absent
    <3>1. start \in AnyCluster /\ fi.file_size \in Sizes
      BY <1>2 DEF FlushedTo, Handles
    <3> QED
      BY <3>1, <1>2, <1>3, <1>5, EntryFacts
  <2>3. r.dir_sector_buf = dir'
    BY <1>2, <1>3
  <2> QED
    BY <1>2, <1>4, <2>1, <2>2, <2>3 DEF HandleSound, InChain
<1>7. HandlesSound(c2)' /\ WriterAlone'
  <2>1. /\ s_files[fd].is_writable /\ r.file = s_files[fd].file
        /\ \A g \in Files \ {s_files[fd].file} : dir'[g] = dir[g]
    BY <1>1, <1>2, <1>3, <1>5 DEF FlushedTo
  <2>2. /\ s_file_count' = s_file_count
        /\ wanted'.file = wanted.file /\ wanted'.offset = wanted.offset
    BY DEF pool
  <2>3. WriterBecomes(c2, fd, r)
    BY <1>5, <1>6, <2>1, <2>2 DEF WriterBecomes
  <2> QED
    BY <1>5, <2>3, WriterStep
<1>8. s_files' \in [Fds -> Handles]
  BY <1>2, <1>5 DEF FlushedTo
<1> QED
  BY <1>4, <1>7, <1>8

LEMMA FsyncKeepsInv ==
    ASSUME NEW chain, Inv(chain), NEW fd \in Fds, Fsync(fd),
           NEW c2, c2 = FlushChain(chain, s_files[fd])
    PROVE  Inv(c2)'
<1>1. /\ Layout(c2)' /\ HandlesSound(c2)' /\ WriterAlone'
      /\ fat' \in [AnyCluster -> 0 .. Eoc] /\ dir' \in [Files -> Entries]
      /\ s_files' \in [Fds -> Handles]
  BY FlushKeepsHandles DEF Fsync
<1>2. disk' \subseteq AnyCluster \X (0 .. ClusterChunks - 1)
  BY FlushHandle, FlushDiskTyped DEF Fsync
<1>3. OpSound(c2)'
  BY IdleOp DEF Fsync
<1>4. TypeOK'
  BY <1>1, <1>2 DEF Inv, TypeOK, Fsync, pool
<1> QED
  BY <1>1, <1>3, <1>4 DEF Inv, CInv

\* The copy of the directory sector with another size for the file.
Resized(fi, size) ==
    [fi.dir_sector_buf EXCEPT ![fi.file] =
        [first |-> fi.dir_sector_buf[fi.file].first, size |-> size]]

LEMMA SetSizeIs ==
    ASSUME NEW fi \in Handles, fi.file \in Files, fi.dir_sector_buf[fi.file] # Absent,
           NEW size \in Sizes
    PROVE  /\ SetSize(fi, size) \in Handles
           /\ SetSize(fi, size) = [fi EXCEPT !.dir_sector_buf = Resized(fi, size)]
           /\ Resized(fi, size) \in [Files -> Entries]
<1>1. PICK b, e : b = fi.dir_sector_buf /\ e = b[fi.file]
  OBVIOUS
<1>2. b \in [Files -> Entries] /\ e \in Entries \ {Absent}
  BY <1>1 DEF Handles
<1>3. e.first \in AnyCluster /\ e = [first |-> e.first, size |-> e.size]
  BY <1>2, EntryFacts
<1>4. [e EXCEPT !.size = size] = [first |-> e.first, size |-> size]
  <2>1. PICK a, z : e = [first |-> a, size |-> z] /\ a = e.first
    BY <1>3
  <2> QED
    BY <2>1
<1>5. [first |-> e.first, size |-> size] \in Entries
  BY <1>3, EntryFacts
<1>6. SetSize(fi, size) = [fi EXCEPT !.dir_sector_buf = [b EXCEPT ![fi.file] = [e EXCEPT !.size = size]]]
  BY <1>1, <1>2 DEF SetSize, Handles
<1>7. Resized(fi, size) = [b EXCEPT ![fi.file] = [first |-> e.first, size |-> size]]
  BY <1>1 DEF Resized
<1>8. Resized(fi, size) \in [Files -> Entries]
  BY <1>2, <1>5, <1>7
<1>9. SetSize(fi, size) = [fi EXCEPT !.dir_sector_buf = Resized(fi, size)]
  BY <1>4, <1>6, <1>7
<1>10. SetSize(fi, size) \in Handles
  <2>1. PICK s : s = Resized(fi, size)
    OBVIOUS
  <2> QED
    BY <1>8, <1>9, <2>1 DEF Handles
<1> QED
  BY <1>8, <1>9, <1>10

LEMMA ReleaseTyped ==
    ASSUME TypeOK, NEW fd \in Fds, Release(fd)
    PROVE  /\ s_files' \in [Fds -> Handles] /\ s_free_fds' \in Seq(Fds)
           /\ s_file_count' = s_file_count /\ s_file_count' \in 0 .. MaxFiles
           /\ s_files' = [s_files EXCEPT ![fd] = Closed]
BY EmptyHandle DEF TypeOK, Release

\* The descriptor of a writer goes; only the entry of its file changes.
LEMMA WriterLeaves ==
    ASSUME NEW chain, NEW c2, Inv(chain), NEW fd \in Fds, InUse(fd), s_files[fd].is_writable,
           Release(fd), wanted'.file = wanted.file, wanted'.offset = wanted.offset,
           \A g \in Files \ {s_files[fd].file} : dir'[g] = dir[g]
    PROVE  HandlesSound(c2)' /\ WriterAlone'
<1>1. PICK r : r = Closed
  OBVIOUS
<1>2. ~r.in_use
  BY <1>1 DEF Closed
<1>3. WriterBecomes(c2, fd, r)
  BY <1>1, <1>2 DEF WriterBecomes, Release
<1> QED
  BY <1>3, WriterStep DEF Inv, CInv, TypeOK

CloseChain(chain, fi) == IF fi.buffered /\ CanFlush(fi) THEN FlushChain(chain, fi) ELSE chain

LEMMA CloseKeepsInv ==
    ASSUME NEW chain, Inv(chain), NEW fd \in Fds, Close(fd),
           NEW c2, c2 = CloseChain(chain, s_files[fd])
    PROVE  Inv(c2)'
<1>1. PICK fi : fi = s_files[fd]
  OBVIOUS
<1>2. /\ InUse(fd) /\ Release(fd) /\ Idle /\ op' = op
      /\ fi \in Handles /\ HandleSound(chain, fi) /\ fi.file \in Files
      /\ fi.file_size \in Sizes
  <2>1. InUse(fd) /\ Release(fd) /\ Idle /\ op' = op
    BY DEF Close
  <2>2. fi \in Handles /\ HandleSound(chain, fi)
    BY <1>1, <2>1 DEF Inv, CInv, TypeOK, HandlesSound
  <2> QED
    BY <2>1, <2>2 DEF HandleSound, Handles
<1>3. /\ s_files' \in [Fds -> Handles] /\ s_free_fds' \in Seq(Fds)
      /\ s_file_count' = s_file_count /\ s_file_count' \in 0 .. MaxFiles
      /\ s_files' = [s_files EXCEPT ![fd] = Closed]
  BY <1>2, ReleaseTyped DEF Inv
<1>4. OpSound(c2)'
  BY <1>2, IdleOp
<1>5. /\ s_files \in [Fds -> Handles] /\ HandlesSound(chain) /\ WriterAlone /\ Layout(chain)
      /\ dir \in [Files -> Entries] /\ wanted \in Histories
  BY DEF Inv, CInv, TypeOK, Histories
<1>6. CASE ~fi.is_writable /\ UNCHANGED <<volume, wanted>>
  <2>0. c2 = chain
    BY <1>1, <1>2, <1>6 DEF CloseChain, HandleSound
  <2>1. HandlesSound(chain)' /\ WriterAlone'
    <3>1. PICK r : r = Closed
      OBVIOUS
    <3>2. ~r.in_use /\ s_files' = [s_files EXCEPT ![fd] = r]
      BY <3>1, <1>3 DEF Closed
    <3>3. dir' = dir /\ wanted' = wanted
      BY <1>6 DEF volume
    <3> QED
      BY <1>3, <1>5, <3>2, <3>3, HandlesStep
  <2>2. Layout(chain)'
    BY <1>5, <1>6, LayoutSame DEF volume
  <2>3. TypeOK'
    BY <1>2, <1>3, <1>6 DEF Inv, TypeOK, volume
  <2> QED
    BY <1>4, <2>0, <2>1, <2>2, <2>3 DEF Inv, CInv
<1>7. CASE /\ fi.is_writable /\ fi.buffered /\ CanFlush(fi)
           /\ fat' = FlushedFat(fi)
           /\ disk' = FlushedDisk(fi)
           /\ dir' = Flushed(fi).dir_sector_buf
           /\ UNCHANGED wanted
  <2>1. PICK start : start = FlushStart(fi) /\ c2 = FlushChain(chain, fi)
    BY <1>1, <1>7 DEF CloseChain
  <2>2. dir' = [dir EXCEPT ![fi.file] = [first |-> start, size |-> fi.file_size]]
    BY <1>1, <1>2, <1>7, <2>1, FlushHandle
  <2>3. Layout(c2)' /\ fat' \in [AnyCluster -> 0 .. Eoc] /\ dir' \in [Files -> Entries]
    BY <1>2, <1>7, <2>1, <2>2, FlushLaid
  <2>4. disk' \subseteq AnyCluster \X (0 .. ClusterChunks - 1)
    BY <1>2, <1>7, FlushDiskTyped
  <2>5. HandlesSound(c2)' /\ WriterAlone'
    <3>1. s_files[fd].is_writable /\ \A g \in Files \ {s_files[fd].file} : dir'[g] = dir[g]
      BY <1>1, <1>5, <1>7, <2>2
    <3> QED
      BY <1>2, <1>7, <3>1, WriterLeaves
  <2>6. TypeOK'
    BY <1>2, <1>3, <1>7, <2>3, <2>4 DEF Inv, TypeOK
  <2> QED
    BY <1>4, <2>3, <2>5, <2>6 DEF Inv, CInv
<1>8. CASE /\ fi.is_writable /\ ~(fi.buffered /\ CanFlush(fi))
           /\ dir' = SetSize(fi, fi.file_size).dir_sector_buf
           /\ UNCHANGED fat
           /\ disk' \subseteq disk
           /\ wanted' \in Histories /\ wanted'.file = wanted.file /\ wanted'.offset = wanted.offset
  <2>0. c2 = chain
    BY <1>1, <1>8 DEF CloseChain
  <2>1. fi.dir_sector_buf = dir /\ dir[fi.file] # Absent
    BY <1>2, <1>8 DEF HandleSound
  <2>2. dir' = [dir EXCEPT ![fi.file] = [first |-> dir[fi.file].first, size |-> fi.file_size]]
        /\ dir' \in [Files -> Entries]
    <3>1. PICK b : b = Resized(fi, fi.file_size)
      OBVIOUS
    <3>2. SetSize(fi, fi.file_size) = [fi EXCEPT !.dir_sector_buf = b] /\ b \in [Files -> Entries]
      BY <1>2, <2>1, <3>1, SetSizeIs
    <3>3. dir' = b
      BY <1>2, <1>8, <3>2 DEF Handles
    <3> QED
      BY <2>1, <3>1, <3>2, <3>3 DEF Resized
  <2>3. Layout(chain)'
    <3>1. PICK u, f2 : u = fat' /\ f2 = [g \in Files |-> First(g)]
      OBVIOUS
    <3>2. Laid(u, f2, chain)
      BY <1>5, <1>8, <3>1 DEF Layout
    <3>3. dir[fi.file].first \in AnyCluster
      BY <1>2, <2>1, EntryTyped DEF Inv
    <3>4. [first |-> dir[fi.file].first, size |-> fi.file_size] # Absent
      BY <1>2, <3>3, EntryFacts
    <3>5. \A g \in Files : f2[g] = IF dir'[g] = Absent THEN 0 ELSE dir'[g].first
      BY <1>2, <1>5, <2>1, <2>2, <3>1, <3>4 DEF First
    <3> QED
      BY <3>1, <3>2, <3>5, LayoutStep
  <2>4. HandlesSound(chain)' /\ WriterAlone'
    <3>1. s_files[fd].is_writable /\ \A g \in Files \ {s_files[fd].file} : dir'[g] = dir[g]
      BY <1>1, <1>5, <1>8, <2>2
    <3> QED
      BY <1>2, <1>8, <3>1, WriterLeaves
  <2>5. TypeOK'
    BY <1>2, <1>3, <1>8, <2>2 DEF Inv, TypeOK, Histories
  <2> QED
    BY <1>4, <2>0, <2>3, <2>4, <2>5 DEF Inv, CInv
<1>9. ASSUME wanted' = [Forgotten(fi.file, 0) EXCEPT !.dropped = @ \cup {fi.file}]
      PROVE  wanted' \in Histories /\ wanted'.file = wanted.file /\ wanted'.offset = wanted.offset
  <2>1. PICK w : w = Forgotten(fi.file, 0)
    OBVIOUS
  <2>2. w \in Histories /\ w.file = wanted.file /\ w.offset = wanted.offset
    <3>1. 0 \in Sizes
      BY Constants DEF Sizes
    <3> QED
      BY <1>2, <2>1, <3>1, ForgottenIs DEF Inv
  <2>3. wanted' = [w EXCEPT !.dropped = @ \cup {fi.file}]
    BY <1>9, <2>1
  <2> QED
    BY <1>2, <2>2, <2>3 DEF Histories
<1> QED
  BY <1>1, <1>5, <1>6, <1>7, <1>8, <1>9 DEF Close, Held, volume

-----------------------------------------------------------------------------
\* Calls that change no entry.
StaysInPlace(chain, fd, r) ==
    /\ InUse(fd)
    /\ s_files' = [s_files EXCEPT ![fd] = r]
    /\ r.in_use /\ r.file = s_files[fd].file /\ r.is_writable = s_files[fd].is_writable
    /\ wanted'.file = wanted.file /\ wanted'.offset = wanted.offset
    /\ s_file_count' = s_file_count /\ dir' = dir
    /\ HandleSound(chain, r)'

LEMMA QuietStep ==
    ASSUME NEW chain, HandlesSound(chain), WriterAlone, s_files \in [Fds -> Handles],
           NEW fd \in Fds, NEW r, StaysInPlace(chain, fd, r)
    PROVE  HandlesSound(chain)' /\ WriterAlone'
<1>1. \A d \in Fds \ {fd} : InUse(d) /\ (r.is_writable \/ s_files[d].is_writable) =>
          ~(r.is_writable /\ s_files[d].is_writable) /\ r.file # s_files[d].file
  BY DEF WriterAlone, StaysInPlace
<1>2. PICK c2 : c2 = chain
  OBVIOUS
<1>3. HandlesSound(c2)' /\ WriterAlone'
  BY <1>1, <1>2, HandlesStep DEF StaysInPlace
<1> QED
  BY <1>2, <1>3

LEMMA SizeFacts ==
    /\ Sizes \subseteq Nat /\ Offsets \subseteq Nat /\ Offsets \subseteq Sizes
    /\ \A n \in Nat : n <= MaxSize => n \in Sizes
    /\ 0 \in Sizes /\ 0 \in Offsets
BY Constants DEF Sizes, Offsets

LEMMA ReadFromTyped ==
    ASSUME NEW fi \in Handles, NEW offset \in Offsets
    PROVE  ReadFrom(fi, offset).cluster \in 0 .. Eoc /\ ReadFrom(fi, offset).index \in Sizes
<1>1. AnyCluster \subseteq 0 .. Eoc
  BY Constants DEF AnyCluster, Eoc
<1> QED
  BY <1>1, SizeFacts DEF ReadFrom, Handles

LEMMA ReadClusterTyped ==
    ASSUME TypeOK, NEW fi \in Handles, NEW offset \in Offsets, NEW k \in Nat
    PROVE  ReadCluster(fi, offset, k) \in 0 .. Eoc
<1>1. PICK from : from = ReadFrom(fi, offset)
  OBVIOUS
<1>2. from.cluster \in 0 .. Eoc /\ from.index \in Nat
  BY <1>1, ReadFromTyped, SizeFacts
<1>3. PICK q : q = k \div ClusterChunks
  OBVIOUS
<1>4. q \in Nat
  BY <1>3, Constants, Division
<1>5. Larger(from.index, q) - from.index \in Nat
  BY <1>2, <1>4 DEF Larger
<1>6. Walk(from.cluster, Larger(from.index, q) - from.index) \in 0 .. Eoc
  BY <1>2, <1>5, WalkTyped DEF TypeOK
<1> QED
  BY <1>1, <1>3, <1>6 DEF ReadCluster

LEMMA ReadCountTyped ==
    ASSUME NEW fi \in Handles, ~fi.buffered, NEW offset \in Offsets, NEW count \in 1 .. MaxSize,
           offset < fi.file_size
    PROVE  /\ ReadCount(fi, offset, count) \in Nat
           /\ offset + ReadCount(fi, offset, count) <= fi.file_size
<1>1. offset \in Nat /\ count \in Nat /\ fi.file_size \in Nat
  BY Constants DEF Handles, Sizes, Offsets
<1>2. PICK end : end = Smaller(offset + count, fi.file_size)
  OBVIOUS
<1>3. end \in Nat /\ offset <= end /\ end <= fi.file_size
  BY <1>1, <1>2 DEF Smaller
<1>4. CASE fi.first_cluster = 0
  BY <1>1, <1>4 DEF ReadCount
<1>5. CASE fi.first_cluster # 0
  <2>1. PICK K : K = {k \in offset .. end - 1 : ReadCluster(fi, offset, k) < Eoc}
    OBVIOUS
  <2>2. IsFiniteSet(offset .. end - 1) /\ Cardinality(offset .. end - 1) = end - offset
    <3>1. PICK b : b = end - 1
      OBVIOUS
    <3>2. offset \in Int /\ b \in Int
      BY <1>1, <1>3, <3>1
    <3>3. IsFiniteSet(offset .. b) /\
          Cardinality(offset .. b) = IF offset > b THEN 0 ELSE b - offset + 1
      BY <3>2, FS_Interval
    <3> QED
      BY <1>1, <1>3, <3>1, <3>3
  <2>3. K \subseteq offset .. end - 1
    BY <2>1
  <2>4. Cardinality(K) \in Nat /\ Cardinality(K) <= end - offset
    BY <2>2, <2>3, FS_Subset, FS_CardinalityType
  <2>5. ReadCount(fi, offset, count) = Cardinality(K)
    BY <1>2, <1>5, <2>1 DEF ReadCount
  <2> QED
    BY <1>1, <1>3, <2>4, <2>5
<1> QED
  BY <1>4, <1>5

LEMMA PreadKeepsInv ==
    ASSUME NEW chain, Inv(chain), NEW fd \in Fds, NEW offset \in Offsets,
           NEW count \in 1 .. MaxSize, Pread(fd, offset, count)
    PROVE  Inv(chain)'
<1>1. PICK fi : fi = s_files[fd]
  OBVIOUS
<1>2. PICK last, cluster, index, end :
          /\ last = (Smaller(offset + count, fi.file_size) - 1) \div ClusterChunks
          /\ cluster = ReadCluster(fi, offset, last * ClusterChunks)
          /\ index = Larger(ReadFrom(fi, offset).index, last)
          /\ end = offset + ReadCount(fi, offset, count)
  OBVIOUS
<1>3. /\ InUse(fd) /\ Idle /\ ~fi.buffered /\ fi.first_cluster # 0 /\ offset < fi.file_size
      /\ UNCHANGED <<volume, pool, op, wanted>>
      /\ s_files' = [s_files EXCEPT
               ![fd].current_cluster = cluster, ![fd].current_cluster_idx = index,
               ![fd].last_offset = end, ![fd].moved_by = "pread"]
  BY <1>1, <1>2 DEF Pread
<1>4. fi \in Handles /\ HandleSound(chain, fi) /\ s_files \in [Fds -> Handles]
  BY <1>1, <1>3 DEF Inv, CInv, TypeOK, HandlesSound
<1>5. last \in Nat /\ last <= MaxSize
  <2>1. PICK e : e = Smaller(offset + count, fi.file_size) - 1
    OBVIOUS
  <2>2. e \in Nat /\ e <= MaxSize
    <3>1. offset \in Nat /\ count \in Nat \ {0} /\ fi.file_size \in Nat /\ fi.file_size <= MaxSize
      BY <1>4, Constants DEF Handles, Sizes, Offsets
    <3>2. PICK s : s = Smaller(offset + count, fi.file_size)
      OBVIOUS
    <3>3. s \in Nat \ {0} /\ s <= fi.file_size
      BY <1>3, <3>1, <3>2 DEF Smaller
    <3> QED
      BY <2>1, <3>1, <3>2, <3>3, Constants
  <2>3. last \in Nat /\ e = ClusterChunks * last + (e % ClusterChunks)
        /\ e % ClusterChunks \in Nat
    <3>1. e \div ClusterChunks \in Nat /\ e = ClusterChunks * (e \div ClusterChunks) + (e % ClusterChunks)
          /\ e % ClusterChunks \in 0 .. ClusterChunks - 1
      BY <2>2, Constants, Division
    <3>2. last = e \div ClusterChunks
      BY <1>2, <2>1
    <3> QED
      BY <3>1, <3>2, Constants
  <2>4. last <= ClusterChunks * last
    <3>1. ClusterChunks * last = last + (ClusterChunks - 1) * last /\ (ClusterChunks - 1) * last \in Nat
      BY <2>3, Constants
    <3> QED
      BY <2>3, <3>1
  <2>5. ClusterChunks * last \in Nat
    BY <2>3, Constants
  <2> QED
    BY <2>2, <2>3, <2>4, <2>5, Constants
<1>6. cluster \in 0 .. Eoc /\ index \in Sizes /\ end \in Sizes
  <2>1. cluster \in 0 .. Eoc
    <3>1. last * ClusterChunks \in Nat
      BY <1>5, Constants
    <3> QED
      BY <1>2, <1>4, <3>1, ReadClusterTyped DEF Inv
  <2>2. index \in Sizes
    <3>1. ReadFrom(fi, offset).index \in Sizes /\ last \in Sizes
      BY <1>4, <1>5, ReadFromTyped, SizeFacts
    <3> QED
      BY <1>2, <3>1 DEF Larger
  <2>3. end \in Sizes
    <3>1. /\ ReadCount(fi, offset, count) \in Nat
          /\ offset + ReadCount(fi, offset, count) <= fi.file_size
      BY <1>3, <1>4, ReadCountTyped
    <3>2. end \in Nat /\ end <= MaxSize
      BY <1>2, <1>4, <3>1, Constants DEF Handles, Sizes, Offsets
    <3> QED
      BY <3>2, SizeFacts
  <2> QED
    BY <2>1, <2>2, <2>3
<1>7. PICK r : r = [fi EXCEPT !.current_cluster = cluster, !.current_cluster_idx = index,
                              !.last_offset = end, !.moved_by = "pread"]
  OBVIOUS
<1>8. s_files' = [s_files EXCEPT ![fd] = r]
  BY <1>1, <1>3, <1>4, <1>7
<1>9. r \in Handles
  BY <1>4, <1>6, <1>7 DEF Handles
<1>10. /\ r.in_use = fi.in_use /\ r.file = fi.file /\ r.is_writable = fi.is_writable
       /\ r.buffered = fi.buffered /\ r.write_buf = fi.write_buf
       /\ r.first_cluster = fi.first_cluster /\ r.file_size = fi.file_size
       /\ r.dir_sector_buf = fi.dir_sector_buf /\ r.write_cluster = fi.write_cluster
  BY <1>4, <1>7 DEF Handles
<1>11. HandleSound(chain, r)'
  BY <1>3, <1>4, <1>10 DEF HandleSound, volume
<1>12. HandlesSound(chain)' /\ WriterAlone'
  <2>1. StaysInPlace(chain, fd, r)
    BY <1>1, <1>3, <1>8, <1>10, <1>11 DEF StaysInPlace, volume, pool, InUse
  <2> QED
    BY <2>1, <1>4, QuietStep DEF Inv, CInv
<1>13. TypeOK'
  <2>1. s_files' \in [Fds -> Handles]
    BY <1>4, <1>8, <1>9
  <2>2. UNCHANGED <<fat, disk, dir, s_file_count, s_free_fds, op, wanted>>
    BY <1>3 DEF volume, pool
  <2> QED
    BY <2>1, <2>2 DEF Inv, TypeOK
<1>14. Layout(chain)' /\ OpSound(chain)'
  BY <1>3, LayoutSame, IdleOp DEF Inv, CInv, volume
<1> QED
  BY <1>12, <1>13, <1>14 DEF Inv, CInv

LEMMA WroteIs ==
    ASSUME TypeOK, NEW f \in Files, NEW offset \in Nat, NEW done \in Nat,
           offset + done <= MaxSize
    PROVE  /\ Wrote(f, offset, done) \in Histories
           /\ Wrote(f, offset, done).file = wanted.file
           /\ Wrote(f, offset, done).offset = wanted.offset
           /\ Wrote(f, offset, done).dropped = wanted.dropped
           /\ Wrote(f, offset, done).size =
                 [wanted.size EXCEPT ![f] = Larger(wanted.size[f], offset + done)]
           /\ Wrote(f, offset, done).written =
                 (wanted.written \/ Outdated(f, offset .. offset + done - 1))
<1>1. Larger(wanted.size[f], offset + done) \in Sizes
  BY SizeFacts DEF TypeOK, Larger
<1>2. Outdated(f, offset .. offset + done - 1) \in BOOLEAN
  BY DEF Outdated
<1> QED
  BY <1>1, <1>2 DEF Wrote, TypeOK, Histories

LEMMA PwriteBufferedKeepsInv ==
    ASSUME NEW chain, Inv(chain), NEW fd \in Fds, NEW offset \in Offsets,
           NEW count \in 1 .. MaxSize, offset + count <= MaxSize,
           PwriteBuffered(fd, offset, count)
    PROVE  Inv(chain)'
<1>1. PICK fi, size, new, buf :
          /\ fi = s_files[fd] /\ size = Larger(fi.file_size, offset + count)
          /\ new = offset .. offset + count - 1
          /\ buf = (fi.write_buf \/ Outdated(fi.file, new))
  OBVIOUS
<1>2. /\ InUse(fd) /\ Idle /\ fi.buffered
      /\ s_files' = [s_files EXCEPT ![fd].write_buf = buf, ![fd].file_size = size]
      /\ disk' \subseteq disk
      /\ wanted' = Wrote(fi.file, offset, count)
      /\ UNCHANGED <<fat, dir, pool, op>>
  BY <1>1 DEF PwriteBuffered
<1>3. /\ fi \in Handles /\ HandleSound(chain, fi) /\ s_files \in [Fds -> Handles]
      /\ wanted.offset \in Nat
  BY <1>1, <1>2, SizeFacts DEF Inv, CInv, TypeOK, HandlesSound
<1>4. /\ offset \in Nat /\ count \in Nat /\ fi.file_size \in Nat /\ fi.file_size <= MaxSize
      /\ fi.file \in Files
  BY <1>3, Constants DEF Offsets, Handles, Sizes, HandleSound
<1>5. size \in Sizes /\ fi.file_size <= size /\ offset + count <= size
  BY <1>1, <1>4, SizeFacts DEF Larger
<1>6. /\ wanted' \in Histories /\ wanted'.file = wanted.file /\ wanted'.offset = wanted.offset
  BY <1>2, <1>4, WroteIs DEF Inv
<1>7. PICK r : r = [fi EXCEPT !.write_buf = buf, !.file_size = size]
  OBVIOUS
<1>8. s_files' = [s_files EXCEPT ![fd] = r]
  BY <1>1, <1>2, <1>3, <1>7
<1>9. r \in Handles
  <2>1. buf \in BOOLEAN
    BY <1>1, <1>3 DEF Outdated, Handles
  <2> QED
    BY <1>3, <1>5, <1>7, <2>1 DEF Handles
<1>10. HandleSound(chain, r)'
  <2>1. buf => fi.file = wanted.file /\ wanted.offset < size
    <3>1. fi.write_buf => fi.file = wanted.file /\ wanted.offset < fi.file_size
      BY <1>3 DEF HandleSound
    <3>2. Outdated(fi.file, new) => fi.file = wanted.file /\ wanted.offset < offset + count
      BY <1>1, <1>3, <1>4 DEF Outdated
    <3>3. size \in Nat
      BY <1>5, SizeFacts
    <3>4. fi.write_buf => wanted.offset < size
      BY <1>3, <1>4, <1>5, <3>1, <3>3
    <3>5. Outdated(fi.file, new) => wanted.offset < size
      BY <1>3, <1>4, <1>5, <3>2, <3>3
    <3> QED
      BY <1>1, <3>1, <3>2, <3>4, <3>5
  <2>2. /\ r.file = fi.file /\ r.is_writable = fi.is_writable /\ r.buffered = fi.buffered
        /\ r.first_cluster = fi.first_cluster /\ r.write_cluster = fi.write_cluster
        /\ r.sector_in_cluster = fi.sector_in_cluster
        /\ r.current_cluster = fi.current_cluster
        /\ r.current_cluster_idx = fi.current_cluster_idx
        /\ r.last_offset = fi.last_offset /\ r.moved_by = fi.moved_by
        /\ r.dir_sector_buf = fi.dir_sector_buf /\ r.write_buf = buf /\ r.file_size = size
    BY <1>3, <1>7 DEF Handles
  <2> QED
    BY <1>2, <1>3, <1>6, <2>1, <2>2 DEF HandleSound
<1>11. HandlesSound(chain)' /\ WriterAlone'
  <2>1. r.in_use = fi.in_use /\ r.file = fi.file /\ r.is_writable = fi.is_writable
    BY <1>3, <1>7 DEF Handles
  <2>2. StaysInPlace(chain, fd, r)
    BY <1>1, <1>2, <1>6, <1>8, <1>10, <2>1 DEF StaysInPlace, pool, InUse
  <2> QED
    BY <2>2, <1>3, QuietStep DEF Inv, CInv
<1>12. TypeOK'
  <2>1. s_files' \in [Fds -> Handles]
    BY <1>3, <1>8, <1>9
  <2> QED
    BY <1>2, <1>6, <2>1 DEF Inv, TypeOK, Histories, pool
<1>13. Layout(chain)' /\ OpSound(chain)'
  BY <1>2, LayoutSame, IdleOp DEF Inv, CInv
<1> QED
  BY <1>11, <1>12, <1>13 DEF Inv, CInv

-----------------------------------------------------------------------------
\* Where a write begins.
Begins(chain, f, target, links) == Len(chain[f]) # 0 /\ links = LinksFrom(chain[f][1], target)

LEMMA LinksIs ==
    ASSUME NEW chain, Layout(chain), NEW f \in Files, NEW target \in Nat, NEW links,
           Begins(chain, f, target, links)
    PROVE  /\ links \in Nat /\ links <= target /\ links + 1 <= Len(chain[f])
           /\ links = target \/ links + 1 = Len(chain[f])
           /\ Walk(chain[f][1], links) = chain[f][links + 1]
<1> USE DEF Begins
<1> DEFINE s == chain[f]
           K == {k \in 0 .. target : \A i \in 1 .. k : IsLink(Walk(s[1], i))}
<1>1. Len(s) \in Nat \ {0} /\ \A i \in 1 .. Len(s) : s[i] \in Clusters
  BY ChainFacts DEF Layout
<1>2. 1 \in 1 .. Len(s)
  BY <1>1
<1>3. \A n \in Nat : Walk(s[1], n) = IF 1 + n <= Len(s) THEN s[1 + n] ELSE Eoc
  BY <1>2, AlongChain
<1>4. links = Max(K)
  BY DEF LinksFrom
<1> HIDE DEF s
<1>5. 0 \in K /\ K \subseteq 0 .. target
  OBVIOUS
<1>6. Max(K) \in K /\ \A k \in K : k <= Max(K)
  <2> HIDE DEF K
  <2> QED
    BY <1>5, GreatestElement
<1>7. links \in Nat /\ links <= target /\ \A i \in 1 .. links : IsLink(Walk(s[1], i))
  BY <1>4, <1>6
<1>8. links + 1 <= Len(s)
  <2> SUFFICES ASSUME ~(links + 1 <= Len(s)) PROVE FALSE
    OBVIOUS
  <2>1. links # 0
    BY <1>1
  <2>2. links \in 1 .. links
    BY <1>7, <2>1
  <2>3. ~(1 + links <= Len(s))
    BY <1>1, <1>7
  <2>4. Walk(s[1], links) = Eoc
    BY <1>3, <1>7, <2>3
  <2> QED
    BY <1>7, <2>2, <2>4, ClusterFacts
<1>9. links = target \/ links + 1 = Len(s)
  <2> SUFFICES ASSUME links # target, links + 1 # Len(s) PROVE FALSE
    OBVIOUS
  <2>1. links + 1 \in 0 .. target /\ links + 1 \in Nat /\ 1 + (links + 1) <= Len(s)
        /\ 1 + (links + 1) \in 1 .. Len(s)
    BY <1>1, <1>7, <1>8
  <2>2. Walk(s[1], links + 1) = s[1 + (links + 1)]
    BY <1>3, <2>1
  <2>3. IsLink(Walk(s[1], links + 1))
    BY <1>1, <2>1, <2>2, ClusterFacts
  <2>4. \A i \in 1 .. links + 1 : i \in 1 .. links \/ i = links + 1
    BY <1>7
  <2>5. links + 1 \in K
    BY <1>7, <2>1, <2>3, <2>4
  <2>6. links + 1 <= links
    BY <1>4, <1>6, <2>5
  <2> QED
    BY <1>7, <2>6
<1>10. Walk(s[1], links) = s[links + 1]
  <2>1. 1 + links <= Len(s) /\ 1 + links = links + 1
    BY <1>1, <1>7, <1>8
  <2> QED
    BY <1>3, <1>7, <2>1
<1> QED
  BY <1>7, <1>8, <1>9, <1>10 DEF s

\* The chain of a file in place, from its descriptor.
LEMMA FileChain ==
    ASSUME NEW chain, Layout(chain), NEW fi, HandleSound(chain, fi), ~fi.buffered
    PROVE  /\ fi.file \in Files /\ Len(chain[fi.file]) \in Nat
           /\ fi.first_cluster = IF Len(chain[fi.file]) = 0 THEN 0 ELSE chain[fi.file][1]
           /\ (fi.first_cluster = 0) = (Len(chain[fi.file]) = 0)
<1>1. /\ fi.file \in Files /\ dir[fi.file] # Absent
      /\ [first |-> fi.first_cluster, size |-> fi.file_size] = dir[fi.file]
  BY DEF HandleSound
<1>2. dir[fi.file].first = fi.first_cluster
  <2>1. PICK a, z : a = fi.first_cluster /\ z = fi.file_size
    OBVIOUS
  <2>2. [first |-> a, size |-> z].first = a
    OBVIOUS
  <2> QED
    BY <1>1, <2>1, <2>2
<1>3. First(fi.file) = fi.first_cluster
  BY <1>1, <1>2 DEF First
<1>4. PICK f : f = fi.file
  OBVIOUS
<1>5. First(f) = IF Len(chain[f]) = 0 THEN 0 ELSE chain[f][1]
  BY <1>1, <1>4, FirstIs
<1>6. Len(chain[f]) \in Nat /\ \A i \in 1 .. Len(chain[f]) : chain[f][i] \in Clusters
  BY <1>1, <1>4, ChainFacts DEF Layout
<1>7. Len(chain[f]) # 0 => chain[f][1] # 0
  <2>1. Len(chain[f]) # 0 => 1 \in 1 .. Len(chain[f])
    BY <1>6
  <2> QED
    BY <1>6, <2>1, ClusterFacts
<1> QED
  BY <1>1, <1>3, <1>4, <1>5, <1>6, <1>7

LEMMA PositionTyped ==
    ASSUME NEW chain, Layout(chain), NEW fi \in Handles, HandleSound(chain, fi),
           fi.is_writable, ~fi.buffered, fi.first_cluster # 0, NEW offset \in Offsets
    PROVE  /\ InChain(chain, fi.file, Position(fi, offset).cluster)
           /\ Position(fi, offset).cluster \in AnyCluster
           /\ Position(fi, offset).sector \in 0 .. ClusterSectors
<1>1. PICK f, first : f = fi.file /\ first = fi.first_cluster
  OBVIOUS
<1>2. f \in Files /\ Len(chain[f]) \in Nat \ {0} /\ first = chain[f][1]
  BY <1>1, FileChain
<1>3. PICK target, links : target = offset \div ClusterChunks /\ links = LinksFrom(first, target)
  OBVIOUS
<1>4. target \in Nat
  BY <1>3, Constants, SizeFacts, Division
<1>5. /\ links \in Nat /\ links + 1 <= Len(chain[f])
      /\ Walk(first, links) = chain[f][links + 1]
  <2>1. Begins(chain, f, target, links)
    BY <1>2, <1>3 DEF Begins
  <2>2. /\ links \in Nat /\ links + 1 <= Len(chain[f])
        /\ Walk(chain[f][1], links) = chain[f][links + 1]
    BY <1>2, <1>4, <2>1, LinksIs
  <2> QED
    BY <1>2, <2>2
<1>6. InChain(chain, f, Position(fi, offset).cluster)
  <2>1. CASE Resumes(fi, offset)
    BY <1>1, <2>1 DEF Position, Resumes, HandleSound
  <2>2. CASE ~Resumes(fi, offset)
    <3>1. Position(fi, offset).cluster = chain[f][links + 1]
      BY <1>1, <1>3, <1>5, <2>2 DEF Position
    <3>2. links + 1 \in 1 .. Len(chain[f])
      BY <1>2, <1>5
    <3> QED
      BY <3>1, <3>2 DEF InChain
  <2> QED
    BY <2>1, <2>2
<1>7. Position(fi, offset).cluster \in AnyCluster
  <2>1. \A i \in 1 .. Len(chain[f]) : chain[f][i] \in Clusters
    BY <1>2, ChainFacts DEF Layout
  <2> QED
    BY <1>6, <2>1, ClusterFacts DEF InChain
<1>8. Position(fi, offset).sector \in 0 .. ClusterSectors
  <2>1. CASE Resumes(fi, offset)
    BY <2>1 DEF Position, Handles
  <2>2. CASE ~Resumes(fi, offset)
    <3>1. PICK k : k = offset % ClusterChunks
      OBVIOUS
    <3>2. k \in Nat /\ k < SectorChunks * ClusterSectors
      <4>1. offset \in Nat
        BY SizeFacts
      <4>2. offset % ClusterChunks \in 0 .. ClusterChunks - 1
        BY <4>1, Constants, Division
      <4> QED
        BY <3>1, <4>2, Constants
    <3>3. k \div SectorChunks \in 0 .. ClusterSectors /\ ClusterSectors \in 0 .. ClusterSectors
      BY <3>2, Constants, Quotient
    <3> QED
      BY <2>2, <3>1, <3>3 DEF Position
  <2> QED
    BY <2>1, <2>2
<1> QED
  BY <1>1, <1>6, <1>7, <1>8

-----------------------------------------------------------------------------
\* Writing in place.
Ops == [at : {"idle", "overflow", "write"}, fd : Fds, offset : Offsets, count : Sizes,
        done : Sizes, cluster : AnyCluster, index : 0 .. ClusterSectors]

\* A step that changes only the write in progress.
LEMMA OnlyOp ==
    ASSUME NEW chain, Inv(chain), UNCHANGED <<volume, s_files, pool, wanted>>,
           op' \in Ops, OpSound(chain)'
    PROVE  Inv(chain)'
<1>1. UNCHANGED <<fat, disk, dir, s_files, s_file_count, s_free_fds, wanted>>
  BY DEF volume, pool
<1>2. TypeOK'
  BY <1>1 DEF Inv, TypeOK, Ops
<1>3. HandlesSound(chain)' /\ WriterAlone'
  BY <1>1 DEF Inv, CInv, HandlesSound, HandleSound, WriterAlone, InUse
<1>4. Layout(chain)'
  BY <1>1, LayoutSame DEF Inv, CInv
<1> QED
  BY <1>2, <1>3, <1>4 DEF Inv, CInv

LEMMA StartWritingIs ==
    ASSUME NEW chain, Inv(chain), NEW fd \in Fds, InUse(fd), NEW fi, fi = s_files[fd],
           fi.is_writable, ~fi.buffered, fi.first_cluster # 0,
           NEW offset \in Offsets, NEW count \in Sizes, offset + count <= MaxSize,
           StartWriting(fi, fd, offset, count)
    PROVE  /\ op' \in Ops
           /\ op'.at = "write" /\ op'.fd = fd /\ op'.offset = offset /\ op'.count = count
           /\ op'.done = 0
           /\ op'.cluster = Position(fi, offset).cluster
           /\ op'.index = Position(fi, offset).sector
           /\ InChain(chain, fi.file, op'.cluster)
<1>1. fi \in Handles /\ HandleSound(chain, fi) /\ Layout(chain)
  BY DEF Inv, CInv, TypeOK, HandlesSound
<1>2. PICK cluster, sector :
          cluster = Position(fi, offset).cluster /\ sector = Position(fi, offset).sector
  OBVIOUS
<1>3. InChain(chain, fi.file, cluster) /\ cluster \in AnyCluster /\ sector \in 0 .. ClusterSectors
  BY <1>1, <1>2, PositionTyped
<1>4. op' = [NoOp EXCEPT !.at = "write", !.fd = fd, !.offset = offset, !.count = count,
                         !.cluster = cluster, !.index = sector]
  BY <1>2 DEF StartWriting
<1> QED
  BY <1>2, <1>3, <1>4, SizeFacts DEF NoOp, Ops

LEMMA PwriteDirectKeepsInv ==
    ASSUME Plain, NEW chain, Inv(chain), NEW fd \in Fds, NEW offset \in Offsets,
           NEW count \in 1 .. MaxSize, offset + count <= MaxSize,
           PwriteDirect(fd, offset, count)
    PROVE  Inv(chain)'
<1>1. PICK fi : fi = s_files[fd]
  OBVIOUS
<1>2. /\ InUse(fd) /\ fi.is_writable /\ ~fi.buffered /\ fi.first_cluster # 0
      /\ StartWriting(fi, fd, offset, count)
      /\ UNCHANGED <<volume, s_files, pool, wanted>>
  BY <1>1 DEF PwriteDirect, Served, Plain
<1>3. count \in Sizes /\ count \in Nat
  BY Constants, SizeFacts
<1>4. /\ op' \in Ops
      /\ op'.at = "write" /\ op'.fd = fd /\ op'.offset = offset /\ op'.count = count
      /\ op'.done = 0 /\ InChain(chain, fi.file, op'.cluster)
  BY <1>1, <1>2, <1>3, StartWritingIs
<1>5. OpSound(chain)'
  <2>1. s_files' = s_files /\ s_file_count' = s_file_count
    BY <1>2 DEF pool
  <2> QED
    BY <1>1, <1>2, <1>3, <1>4, <2>1 DEF OpSound, InUse, InChain
<1> QED
  BY <1>2, <1>4, <1>5, OnlyOp

LEMMA PwriteOverflowDirectKeepsInv ==
    ASSUME NEW chain, Inv(chain), PwriteOverflowDirect
    PROVE  Inv(chain)'
<1>1. PICK fd, fi, offset, count :
          fd = op.fd /\ fi = s_files[fd] /\ offset = op.offset /\ count = op.count
  OBVIOUS
<1>2. /\ StartWriting(fi, fd, offset, count)
      /\ UNCHANGED <<volume, s_files, pool, wanted>>
  BY <1>1 DEF PwriteOverflowDirect
<1>3. /\ fd \in Fds /\ offset \in Offsets /\ count \in Sizes /\ count \in Nat
      /\ InUse(fd) /\ fi.is_writable /\ ~fi.buffered /\ fi.first_cluster # 0
      /\ offset + count <= MaxSize
  BY <1>1, SizeFacts DEF PwriteOverflowDirect, Inv, CInv, TypeOK, OpSound
<1>4. /\ op' \in Ops
      /\ op'.at = "write" /\ op'.fd = fd /\ op'.offset = offset /\ op'.count = count
      /\ op'.done = 0 /\ InChain(chain, fi.file, op'.cluster)
  BY <1>1, <1>2, <1>3, StartWritingIs
<1>5. OpSound(chain)'
  <2>1. s_files' = s_files /\ s_file_count' = s_file_count
    BY <1>2 DEF pool
  <2> QED
    BY <1>1, <1>3, <1>4, <2>1 DEF OpSound, InUse, InChain
<1> QED
  BY <1>2, <1>4, <1>5, OnlyOp

LEMMA PwriteOverflowKeepsInv ==
    ASSUME Plain, NEW chain, Inv(chain), NEW fd \in Fds, NEW offset \in Offsets,
           NEW count \in 1 .. MaxSize, offset + count <= MaxSize,
           PwriteOverflow(fd, offset, count),
           NEW c2, c2 = FlushChain(chain, s_files[fd])
    PROVE  Inv(c2)'
<1>1. PICK fi, r : fi = s_files[fd] /\ r = Flushed(fi)
  OBVIOUS
<1>2. /\ InUse(fd) /\ fi.buffered /\ CanFlush(fi) /\ Served(r, offset)
      /\ s_files' = [s_files EXCEPT ![fd] = r]
      /\ fat' = FlushedFat(fi) /\ disk' = FlushedDisk(fi) /\ dir' = r.dir_sector_buf
      /\ op' = [NoOp EXCEPT !.at = "overflow", !.fd = fd, !.offset = offset, !.count = count]
      /\ UNCHANGED <<pool, wanted>>
  BY <1>1 DEF PwriteOverflow
<1>3. /\ Layout(c2)' /\ HandlesSound(c2)' /\ WriterAlone'
      /\ fat' \in [AnyCluster -> 0 .. Eoc] /\ dir' \in [Files -> Entries]
      /\ s_files' \in [Fds -> Handles]
  BY <1>1, <1>2, FlushKeepsHandles
<1>4. FlushedTo(fi, r, FlushStart(fi)) /\ fi.is_writable /\ HandleSound(chain, fi) /\ fi \in Handles
  BY <1>1, <1>2, FlushHandle
<1>5. disk' \subseteq AnyCluster \X (0 .. ClusterChunks - 1)
  BY <1>2, <1>4, FlushDiskTyped
<1>6. count \in Nat /\ count \in Sizes
  BY Constants, SizeFacts
<1>7. /\ op' \in Ops
      /\ op'.at = "overflow" /\ op'.fd = fd /\ op'.offset = offset /\ op'.count = count
      /\ op'.done = 0
  BY <1>2, <1>6, EmptyHandle DEF NoOp, Ops
<1>8. OpSound(c2)'
  <2>1. s_files'[fd] = r /\ s_file_count' = s_file_count
    BY <1>2 DEF Inv, TypeOK, pool
  <2>2. InUse(fd)' /\ r.is_writable /\ ~r.buffered
    BY <1>1, <1>2, <1>4, <2>1 DEF FlushedTo, InUse
  <2>3. r.first_cluster # 0
    BY <1>2 DEF Served, Plain
  <2> QED
    BY <1>6, <1>7, <2>1, <2>2, <2>3 DEF OpSound, InUse
<1>9. TypeOK'
  BY <1>2, <1>3, <1>5, <1>7 DEF Inv, TypeOK, Ops, pool
<1> QED
  BY <1>3, <1>8, <1>9 DEF Inv, CInv

\* One iteration.
LEMMA WriteChunksIs ==
    ASSUME TypeOK, op.at = "write", op.done < op.count, op.offset + op.count <= MaxSize,
           NEW c \in Clusters, NEW s \in 0 .. ClusterSectors - 1, WriteChunks(c, s),
           NEW at, at = op.offset + op.done,
           NEW n, n = Smaller(SectorChunks - (at % SectorChunks), op.count - op.done)
    PROVE  /\ disk' \subseteq AnyCluster \X (0 .. ClusterChunks - 1)
           /\ op' \in Ops
           /\ op'.at = "write" /\ op'.fd = op.fd /\ op'.offset = op.offset
           /\ op'.count = op.count /\ op'.cluster = c /\ op'.index = s + 1
           /\ op'.done = op.done + n /\ n \in Nat \ {0} /\ op.done + n <= op.count
           /\ at \in Nat
<1>1. /\ op.offset \in Nat /\ op.done \in Nat /\ op.count \in Nat /\ op.count <= MaxSize
      /\ at \in Nat
  <2>1. op.offset \in Offsets /\ op.done \in Sizes /\ op.count \in Sizes
    BY DEF TypeOK
  <2>2. MaxSize \in Nat
    BY Constants
  <2>3. op.offset \in Nat /\ op.done \in Nat /\ op.count \in Nat /\ op.count <= MaxSize
    BY <2>1, <2>2 DEF Offsets, Sizes
  <2> QED
    BY <2>3
<1>2. PICK within : within = at % SectorChunks
  OBVIOUS
<1>3. within \in 0 .. SectorChunks - 1
  BY <1>1, <1>2, Constants, Division
<1>4. n \in Nat \ {0} /\ n <= SectorChunks - within /\ n <= op.count - op.done
  <2>1. SectorChunks - within \in Nat \ {0} /\ op.count - op.done \in Nat \ {0}
    BY <1>1, <1>3, Constants
  <2> QED
    BY <1>2, <2>1 DEF Smaller
<1>5. op' = [op EXCEPT !.cluster = c, !.index = s + 1, !.done = op.done + n]
  BY <1>2 DEF WriteChunks
<1>6. op.done + n \in Sizes /\ s + 1 \in 0 .. ClusterSectors /\ c \in AnyCluster
  BY <1>1, <1>4, Constants, SizeFacts, ClusterFacts
<1>11. /\ op' \in Ops
       /\ op'.at = "write" /\ op'.fd = op.fd /\ op'.offset = op.offset
       /\ op'.count = op.count /\ op'.cluster = c /\ op'.index = s + 1
       /\ op'.done = op.done + n
  <2>1. op \in Ops
    BY DEF TypeOK, Ops
  <2> QED
    BY <1>5, <1>6, <2>1 DEF Ops
<1>12. op.done + n <= op.count
  BY <1>1, <1>4
<1>7. PICK slot : slot = s * SectorChunks + within
  OBVIOUS
<1>8. slot \in Nat /\ slot + n <= ClusterChunks
  <2>1. SectorChunks * s + SectorChunks <= SectorChunks * ClusterSectors
        /\ SectorChunks * s \in Nat
    BY Constants, Times
  <2>2. s * SectorChunks = SectorChunks * s /\ ClusterChunks = SectorChunks * ClusterSectors
    BY Constants
  <2>3. ClusterChunks \in Nat /\ SectorChunks \in Nat
    BY Constants
  <2> QED
    BY <1>3, <1>4, <1>7, <2>1, <2>2, <2>3
<1>9. CASE Outdated(s_files[op.fd].file, at .. at + n - 1)
  <2>1. wanted.offset \in at .. at + n - 1
    BY <1>9 DEF Outdated
  <2>2. disk' = {Place(c, slot + wanted.offset - at)}
    BY <1>2, <1>7, <1>9 DEF WriteChunks
  <2>3. slot + wanted.offset - at \in 0 .. ClusterChunks - 1
    BY <1>1, <1>4, <1>8, <2>1, Constants
  <2>4. Place(c, slot + wanted.offset - at) \in Chunks
    <3>1. c \in Nat
      BY ClusterFacts
    <3> QED
      BY <2>3, <3>1, PlaceInCluster DEF Chunks
  <2> QED
    BY <2>2, <2>4, <1>1, <1>4, <1>11, <1>12, ChunksTyped
<1>10. CASE ~Outdated(s_files[op.fd].file, at .. at + n - 1)
  <2>1. disk' \subseteq disk
    BY <1>2, <1>10 DEF WriteChunks
  <2>2. disk' \subseteq AnyCluster \X (0 .. ClusterChunks - 1)
    BY <2>1 DEF TypeOK
  <2> QED
    BY <2>2, <1>1, <1>4, <1>11, <1>12
<1> QED
  BY <1>9, <1>10

\* What OpSound says of the write in progress.
LEMMA Writing ==
    ASSUME NEW chain, Inv(chain), op.at = "write", NEW fi, fi = s_files[op.fd]
    PROVE  /\ op.fd \in Fds /\ InUse(op.fd) /\ fi.is_writable /\ ~fi.buffered
           /\ fi.first_cluster # 0 /\ op.done <= op.count /\ op.offset + op.count <= MaxSize
           /\ op.offset \in Nat /\ op.done \in Nat /\ op.count \in Nat
           /\ fi \in Handles /\ HandleSound(chain, fi) /\ fi.file \in Files
           /\ InChain(chain, fi.file, op.cluster)
<1>1. op.fd \in Fds /\ InUse(op.fd)
  BY DEF Inv, CInv, TypeOK, OpSound
<1>2. HandleSound(chain, fi) /\ fi \in Handles
  BY <1>1 DEF Inv, CInv, TypeOK, HandlesSound
<1> QED
  BY <1>1, <1>2, SizeFacts DEF Inv, CInv, TypeOK, OpSound, HandleSound

\* A cluster of a chain has a number, and its FAT entry leads on.
LEMMA InChainIs ==
    ASSUME NEW chain, Layout(chain), NEW f \in Files, NEW c, InChain(chain, f, c)
    PROVE  /\ c \in Clusters
           /\ \E i \in 1 .. Len(chain[f]) :
                 /\ c = chain[f][i] /\ Len(chain[f]) \in Nat
                 /\ Chained(c) = IF i = Len(chain[f]) THEN Eoc ELSE chain[f][i + 1]
<1>1. PICK i \in 1 .. Len(chain[f]) : chain[f][i] = c
  BY DEF InChain
<1>2. c \in Clusters /\ Len(chain[f]) \in Nat
  BY <1>1, ChainFacts DEF Layout
<1>3. fat[c] = IF i = Len(chain[f]) THEN Eoc ELSE chain[f][i + 1]
  BY <1>1 DEF Layout, Laid
<1>4. Chained(c) = fat[c]
  BY <1>2, ClusterFacts DEF Chained
<1> QED
  BY <1>1, <1>2, <1>3, <1>4

LEMMA WriteOnKeepsInv ==
    ASSUME NEW chain, Inv(chain), op.at = "write", op.done < op.count,
           UNCHANGED <<fat, dir, s_files, pool, wanted>>,
           NEW c, InChain(chain, s_files[op.fd].file, c), NEW s \in 0 .. ClusterSectors - 1,
           WriteChunks(c, s)
    PROVE  Inv(chain)'
<1>1. PICK fi, at : fi = s_files[op.fd] /\ at = op.offset + op.done
  OBVIOUS
<1>2. /\ op.fd \in Fds /\ InUse(op.fd) /\ fi.is_writable /\ ~fi.buffered
      /\ fi.first_cluster # 0 /\ op.offset + op.count <= MaxSize /\ fi.file \in Files
  BY <1>1, Writing
<1>3. c \in Clusters
  BY <1>1, <1>2, InChainIs DEF Inv, CInv
<1>4. PICK n : n = Smaller(SectorChunks - (at % SectorChunks), op.count - op.done)
  OBVIOUS
<1>5. /\ disk' \subseteq AnyCluster \X (0 .. ClusterChunks - 1)
      /\ op' \in Ops
      /\ op'.at = "write" /\ op'.fd = op.fd /\ op'.offset = op.offset
      /\ op'.count = op.count /\ op'.cluster = c
      /\ op'.done = op.done + n /\ op.done + n <= op.count
  BY <1>1, <1>2, <1>3, <1>4, WriteChunksIs DEF Inv
<1>6. UNCHANGED <<fat, dir, s_files, s_file_count, s_free_fds, wanted>>
  BY DEF pool
<1>7. TypeOK'
  BY <1>5, <1>6 DEF Inv, TypeOK, Ops
<1>8. HandlesSound(chain)' /\ WriterAlone'
  BY <1>6 DEF Inv, CInv, HandlesSound, HandleSound, WriterAlone, InUse
<1>9. Layout(chain)'
  BY <1>6, LayoutSame DEF Inv, CInv
<1>10. OpSound(chain)'
  BY <1>1, <1>2, <1>5, <1>6 DEF OpSound, InUse, InChain
<1> QED
  BY <1>7, <1>8, <1>9, <1>10 DEF Inv, CInv

LEMMA PwriteSectorKeepsInv ==
    ASSUME NEW chain, Inv(chain), PwriteSector
    PROVE  Inv(chain)'
<1>1. PICK c, s : c = op.cluster /\ s = op.index
  OBVIOUS
<1>2. /\ op.at = "write" /\ op.done < op.count /\ s < ClusterSectors
      /\ UNCHANGED <<fat, dir, s_files, pool, wanted>> /\ WriteChunks(c, s)
  BY <1>1 DEF PwriteSector
<1>3. InChain(chain, s_files[op.fd].file, c)
  BY <1>1, <1>2, Writing
<1>4. s \in 0 .. ClusterSectors - 1
  BY <1>1, <1>2, Constants DEF Inv, TypeOK
<1> QED
  BY <1>2, <1>3, <1>4, WriteOnKeepsInv

LEMMA PwriteNextClusterKeepsInv ==
    ASSUME NEW chain, Inv(chain), PwriteNextCluster
    PROVE  Inv(chain)'
<1>1. PICK c, f : c = Chained(op.cluster) /\ f = s_files[op.fd].file
  OBVIOUS
<1>2. PICK s : s = 0
  OBVIOUS
<1>3. /\ op.at = "write" /\ op.done < op.count /\ IsLink(c)
      /\ UNCHANGED <<fat, dir, s_files, pool, wanted>> /\ WriteChunks(c, s)
  BY <1>1, <1>2 DEF PwriteNextCluster
<1>4. InChain(chain, f, c)
  <2>1. InChain(chain, f, op.cluster) /\ f \in Files /\ Layout(chain)
    BY <1>1, <1>3, Writing DEF Inv, CInv
  <2>2. PICK i \in 1 .. Len(chain[f]) :
            /\ Len(chain[f]) \in Nat
            /\ c = IF i = Len(chain[f]) THEN Eoc ELSE chain[f][i + 1]
    BY <1>1, <2>1, InChainIs
  <2>3. i # Len(chain[f]) /\ c = chain[f][i + 1]
    BY <1>3, <2>2, ClusterFacts
  <2>4. i + 1 \in 1 .. Len(chain[f])
    BY <2>2, <2>3
  <2> QED
    BY <2>3, <2>4 DEF InChain
<1>5. s \in 0 .. ClusterSectors - 1
  BY <1>2, Constants
<1> QED
  BY <1>1, <1>3, <1>4, <1>5, WriteOnKeepsInv

\* The layout after a write behind the last cluster took a run.
ExtendChain(chain, f, start, n) == [chain EXCEPT ![f] = chain[f] \o RunOf(start, n)]

LEMMA InExtended ==
    ASSUME NEW t, NEW first, NEW chain, Laid(t, first, chain), NEW f \in Files,
           NEW start \in Nat, NEW n \in Nat \ {0}, FreeRun(t, start, n),
           NEW c2, c2 = ExtendChain(chain, f, start, n)
    PROVE  /\ \A g \in Files : \A c : InChain(chain, g, c) => InChain(c2, g, c)
           /\ InChain(c2, f, start)
           /\ Len(c2[f]) = Len(chain[f]) + n
           /\ \A i \in 1 .. Len(chain[f]) : c2[f][i] = chain[f][i]
           /\ c2[f][Len(chain[f]) + 1] = start
           /\ \A g \in Files \ {f} : c2[g] = chain[g]
<1>1. PICK r, m : r = RunOf(start, n) /\ m = Len(chain[f])
  OBVIOUS
<1>2. chain[f] \in Seq(Clusters) /\ m \in Nat /\ r \in Seq(Clusters) /\ Len(r) = n
  BY <1>1, ChainFacts, RunFacts
<1>3. c2[f] = chain[f] \o r /\ \A g \in Files \ {f} : c2[g] = chain[g]
  BY <1>1 DEF ExtendChain, Laid
<1>4. Len(c2[f]) = m + n
      /\ \A i \in 1 .. m + n : c2[f][i] = IF i <= m THEN chain[f][i] ELSE r[i - m]
  <2>1. PICK s : s = chain[f]
    OBVIOUS
  <2>2. s \in Seq(Clusters) /\ r \in Seq(Clusters) /\ Len(s) = m /\ Len(r) = n
    BY <1>1, <1>2, <2>1
  <2>3. /\ Len(s \o r) = Len(s) + Len(r)
        /\ \A i \in 1 .. Len(s) + Len(r) :
              (s \o r)[i] = IF i <= Len(s) THEN s[i] ELSE r[i - Len(s)]
    BY <2>2, ConcatProperties
  <2> QED
    BY <1>3, <2>1, <2>2, <2>3
<1>5. \A i \in 1 .. m : i \in 1 .. m + n /\ c2[f][i] = chain[f][i]
  BY <1>2, <1>4
<1>6. m + 1 \in 1 .. m + n /\ c2[f][m + 1] = start
  <2>1. m + 1 \in 1 .. m + n /\ ~(m + 1 <= m) /\ (m + 1) - m = 1 /\ 1 \in 1 .. n
    BY <1>2
  <2>2. r[1] = start
    BY <1>1, <2>1 DEF RunOf
  <2> QED
    BY <1>4, <2>1, <2>2
<1>7. InChain(c2, f, start)
  BY <1>4, <1>6 DEF InChain
<1>8. ASSUME NEW g \in Files, NEW c, InChain(chain, g, c) PROVE InChain(c2, g, c)
  <2>1. CASE g = f
    BY <1>1, <1>4, <1>5, <1>8, <2>1 DEF InChain
  <2>2. CASE g # f
    BY <1>3, <1>8, <2>2 DEF InChain
  <2> QED
    BY <2>1, <2>2
<1> QED
  BY <1>1, <1>3, <1>4, <1>5, <1>6, <1>7, <1>8

LEMMA PwriteExtendKeepsInv ==
    ASSUME NEW chain, Inv(chain), PwriteExtend,
           NEW n, n = Batch(op.count - op.done), NEW start, start = BatchStart(op.cluster, n),
           NEW c2, c2 = ExtendChain(chain, s_files[op.fd].file, start, n)
    PROVE  /\ Inv(c2)'
           /\ n \in Nat \ {0} /\ start \in Nat /\ FreeRun(fat, start, n)
           /\ op.cluster = chain[s_files[op.fd].file][Len(chain[s_files[op.fd].file])]
<1>1. PICK fi, f, at : fi = s_files[op.fd] /\ f = fi.file /\ at = op.offset + op.done
  OBVIOUS
<1>2. /\ op.at = "write" /\ op.done < op.count /\ ~IsLink(Chained(op.cluster))
      /\ Runs(n) # {} /\ WriteChunks(start, 0)
      /\ fat' = [TakeRun(fat, start, n) EXCEPT ![op.cluster] = start]
      /\ UNCHANGED <<dir, s_files, pool, wanted>>
  BY DEF PwriteExtend
<1>3. /\ op.fd \in Fds /\ InUse(op.fd) /\ fi.is_writable /\ ~fi.buffered
      /\ fi.first_cluster # 0 /\ op.offset + op.count <= MaxSize /\ f \in Files
      /\ op.done \in Nat /\ op.count \in Nat /\ HandleSound(chain, fi)
      /\ InChain(chain, f, op.cluster)
  BY <1>1, <1>2, Writing
<1>4. /\ Layout(chain) /\ fat \in [AnyCluster -> 0 .. Eoc] /\ s_files \in [Fds -> Handles]
      /\ HandlesSound(chain) /\ WriterAlone
  BY DEF Inv, CInv, TypeOK
<1>5. n \in Nat \ {0}
  <2>1. op.count - op.done \in Nat
    BY <1>2, <1>3
  <2> QED
    BY <2>1, BatchTyped
<1>6. start \in Nat /\ start \in Clusters /\ FreeRun(fat, start, n)
  <2>1. start \in Runs(n)
    BY <1>2, <1>5, BatchStartIs
  <2> QED
    BY <1>5, <2>1, RunsFree
<1>7. Len(chain[f]) # 0 /\ op.cluster = chain[f][Len(chain[f])] /\ op.cluster \in Clusters
  <2>1. op.cluster \in Clusters
    BY <1>3, <1>4, InChainIs
  <2>2. PICK i \in 1 .. Len(chain[f]) :
            /\ op.cluster = chain[f][i] /\ Len(chain[f]) \in Nat
            /\ Chained(op.cluster) = IF i = Len(chain[f]) THEN Eoc ELSE chain[f][i + 1]
    BY <1>3, <1>4, InChainIs
  <2>3. i = Len(chain[f])
    <3> SUFFICES ASSUME i # Len(chain[f]) PROVE FALSE
      OBVIOUS
    <3>1. i + 1 \in 1 .. Len(chain[f])
      BY <2>2
    <3>2. chain[f][i + 1] \in Clusters
      BY <1>3, <1>4, <3>1, ChainFacts DEF Layout
    <3> QED
      BY <1>2, <2>2, <3>2, ClusterFacts
  <2> QED
    BY <2>1, <2>2, <2>3
<1>8. PICK u, first : u = fat' /\ first = [g \in Files |-> First(g)]
  OBVIOUS
<1>9. Laid(fat, first, chain)
  BY <1>4, <1>8 DEF Layout
<1>10. Layout(c2)'
  <2>1. Extended(fat, u, chain, c2, f, start, n)
    BY <1>1, <1>2, <1>7, <1>8 DEF Extended, ExtendChain
  <2>2. Laid(u, first, c2)
    BY <1>3, <1>5, <1>6, <1>9, <2>1, ExtendLaid
  <2>3. \A g \in Files : first[g] = IF dir'[g] = Absent THEN 0 ELSE dir'[g].first
    BY <1>2, <1>8 DEF First
  <2> QED
    BY <1>8, <2>2, <2>3, LayoutStep
<1>11. fat' \in [AnyCluster -> 0 .. Eoc]
  <2>1. TakeRun(fat, start, n) \in [AnyCluster -> 0 .. Eoc]
    BY <1>4, <1>5, <1>6, TakeRunTyped
  <2>2. start \in 0 .. Eoc
    BY <1>6, ClusterFacts
  <2> QED
    BY <1>2, <2>1, <2>2
<1>12. /\ \A g \in Files : \A c : InChain(chain, g, c) => InChain(c2, g, c)
       /\ InChain(c2, f, start)
  BY <1>1, <1>3, <1>5, <1>6, <1>9, InExtended
<1>13. PICK m : m = Smaller(SectorChunks - (at % SectorChunks), op.count - op.done)
  OBVIOUS
<1>14. /\ disk' \subseteq AnyCluster \X (0 .. ClusterChunks - 1)
       /\ op' \in Ops
       /\ op'.at = "write" /\ op'.fd = op.fd /\ op'.offset = op.offset
       /\ op'.count = op.count /\ op'.cluster = start
       /\ op'.done = op.done + m /\ op.done + m <= op.count
  <2>1. PICK s : s = 0
    OBVIOUS
  <2>2. s \in 0 .. ClusterSectors - 1 /\ WriteChunks(start, s)
    BY <1>2, <2>1, Constants
  <2> QED
    BY <1>1, <1>2, <1>3, <1>6, <1>13, <2>2, WriteChunksIs DEF Inv
<1>15. HandlesSound(c2)' /\ WriterAlone'
  <2>1. HandleSound(c2, fi)'
    BY <1>2, <1>3, <1>12, <1>1 DEF HandleSound
  <2>2. WriterBecomes(c2, op.fd, fi)
    <3>1. s_files' = [s_files EXCEPT ![op.fd] = fi]
      BY <1>1, <1>2, <1>4
    <3> QED
      BY <1>1, <1>2, <1>3, <2>1, <3>1 DEF WriterBecomes, pool
  <2>3. PICK fd \in Fds : fd = op.fd
    BY <1>3
  <2>4. WriterBecomes(c2, fd, fi)
    BY <2>2, <2>3 DEF WriterBecomes
  <2> QED
    BY <1>4, <2>4, WriterStep
<1>16. OpSound(c2)'
  <2>1. s_files'[op'.fd] = fi /\ op'.fd < s_file_count' /\ fi.in_use
    BY <1>1, <1>2, <1>3, <1>14 DEF InUse, pool
  <2>2. op'.done <= op'.count /\ op'.offset + op'.count <= MaxSize
    BY <1>3, <1>14
  <2>3. InChain(c2, fi.file, op'.cluster)
    BY <1>1, <1>12, <1>14
  <2> QED
    BY <1>3, <2>1, <2>2, <2>3 DEF OpSound, InUse, InChain
<1>17. TypeOK'
  <2>1. UNCHANGED <<dir, s_files, s_file_count, s_free_fds, wanted>>
    BY <1>2 DEF pool
  <2> QED
    BY <1>11, <1>14, <2>1 DEF Inv, TypeOK, Ops
<1> QED
  BY <1>1, <1>5, <1>6, <1>7, <1>10, <1>15, <1>16, <1>17 DEF Inv, CInv

LEMMA PwriteFullKeepsInv ==
    ASSUME NEW chain, Inv(chain), PwriteFull
    PROVE  Inv(chain)'
<1>1. /\ op.at = "write" /\ UNCHANGED <<volume, s_files, pool, wanted>>
      /\ op' = IF op.done = 0 THEN NoOp ELSE [op EXCEPT !.count = op.done]
  BY DEF PwriteFull
<1>2. UNCHANGED <<s_files, s_file_count>>
  BY <1>1 DEF pool
<1>3. op \in Ops /\ OpSound(chain)
  BY DEF Inv, CInv, TypeOK, Ops
<1>4. CASE op.done = 0
  <2>1. op' = NoOp
    BY <1>1, <1>4
  <2>2. op' \in Ops /\ OpSound(chain)'
    BY <2>1, EmptyHandle DEF NoOp, OpSound, Ops
  <2> QED
    BY <1>1, <2>2, OnlyOp
<1>5. CASE op.done # 0
  <2>1. op' = [op EXCEPT !.count = op.done]
    BY <1>1, <1>5
  <2>2. op' \in Ops /\ op'.at = op.at /\ op'.fd = op.fd /\ op'.offset = op.offset
        /\ op'.count = op.done /\ op'.done = op.done /\ op'.cluster = op.cluster
    BY <1>3, <2>1 DEF Ops
  <2>3. op.done \in Nat /\ op.offset + op.done <= MaxSize
    <3>1. op.done \in Nat /\ op.count \in Nat /\ op.offset \in Nat /\ op.done <= op.count
          /\ op.offset + op.count <= MaxSize
      BY <1>1, Writing
    <3> QED
      BY <3>1, Constants
  <2>4. OpSound(chain)'
    BY <1>1, <1>2, <1>3, <2>2, <2>3 DEF OpSound, InUse, InChain
  <2> QED
    BY <1>1, <2>2, <2>4, OnlyOp
<1> QED
  BY <1>4, <1>5

LEMMA PwriteEndKeepsInv ==
    ASSUME NEW chain, Inv(chain), PwriteEnd
    PROVE  Inv(chain)'
<1>1. PICK fd, fi, size, end, cluster, index :
          /\ fd = op.fd /\ fi = s_files[fd] /\ end = op.offset + op.done
          /\ size = Larger(fi.file_size, end) /\ cluster = op.cluster /\ index = op.index
  OBVIOUS
<1>2. PICK w : w = SetSize(fi, size)
  OBVIOUS
<1>3. PICK r : r = [w EXCEPT !.write_cluster = cluster, !.sector_in_cluster = index,
                             !.file_size = size, !.last_offset = end, !.moved_by = "pwrite"]
  OBVIOUS
<1>4. /\ op.at = "write" /\ op.done = op.count
      /\ s_files' = [s_files EXCEPT ![fd] = r]
      /\ dir' = w.dir_sector_buf
      /\ wanted' = Wrote(fi.file, op.offset, op.done)
      /\ op' = NoOp
      /\ UNCHANGED <<fat, disk, pool>>
  BY <1>1, <1>2, <1>3 DEF PwriteEnd
<1>5. /\ fd \in Fds /\ InUse(fd) /\ fi.is_writable /\ ~fi.buffered
      /\ op.offset + op.count <= MaxSize
      /\ op.offset \in Nat /\ op.done \in Nat /\ op.count \in Nat
      /\ fi \in Handles /\ HandleSound(chain, fi) /\ fi.file \in Files
      /\ InChain(chain, fi.file, op.cluster)
  BY <1>1, <1>4, Writing
<1>6. /\ end \in Sizes /\ size \in Sizes /\ cluster \in AnyCluster
      /\ index \in 0 .. ClusterSectors
  <2>1. end \in Sizes
    BY <1>1, <1>4, <1>5, SizeFacts
  <2>2. size \in Sizes
    BY <1>1, <1>5, <2>1 DEF Handles, Larger
  <2> QED
    BY <2>1, <2>2, <1>1 DEF Inv, TypeOK
<1>7. /\ dir \in [Files -> Entries] /\ s_files \in [Fds -> Handles] /\ Layout(chain)
      /\ HandlesSound(chain) /\ WriterAlone
  BY DEF Inv, CInv, TypeOK
<1>8. /\ fi.dir_sector_buf = dir /\ dir[fi.file] # Absent
      /\ [first |-> fi.first_cluster, size |-> fi.file_size] = dir[fi.file]
  BY <1>5 DEF HandleSound
<1>9. PICK a : a = fi.first_cluster
  OBVIOUS
<1>10. dir[fi.file].first = a /\ a \in AnyCluster
  <2>1. PICK z : z = fi.file_size
    OBVIOUS
  <2>2. dir[fi.file] = [first |-> a, size |-> z]
    BY <1>8, <1>9, <2>1
  <2> QED
    BY <1>5, <1>9, <2>2 DEF Handles
<1>11. PICK b : b = Resized(fi, size)
  OBVIOUS
<1>12. w \in Handles /\ w = [fi EXCEPT !.dir_sector_buf = b] /\ b \in [Files -> Entries]
  BY <1>2, <1>5, <1>6, <1>8, <1>11, SetSizeIs
<1>13. /\ r \in Handles /\ r.in_use = fi.in_use /\ r.file = fi.file
       /\ r.is_writable = fi.is_writable /\ r.buffered = fi.buffered
       /\ r.write_buf = fi.write_buf /\ r.first_cluster = a /\ r.file_size = size
       /\ r.dir_sector_buf = b /\ r.write_cluster = cluster /\ r.sector_in_cluster = index
       /\ r.last_offset = end /\ r.moved_by = "pwrite"
  <2>1. /\ w.in_use = fi.in_use /\ w.file = fi.file
        /\ w.is_writable = fi.is_writable /\ w.buffered = fi.buffered
        /\ w.write_buf = fi.write_buf /\ w.first_cluster = a /\ w.dir_sector_buf = b
    BY <1>5, <1>9, <1>12 DEF Handles
  <2> QED
    BY <1>3, <1>6, <1>12, <2>1 DEF Handles
<1>14. dir' = b /\ b = [dir EXCEPT ![fi.file] = [first |-> a, size |-> size]]
  BY <1>4, <1>8, <1>10, <1>11, <1>12, <1>5 DEF Resized, Handles
<1>15. [first |-> a, size |-> size] # Absent
  BY <1>6, <1>10, EntryFacts
<1>16. Layout(chain)'
  <2>1. PICK u, f2 : u = fat' /\ f2 = [g \in Files |-> First(g)]
    OBVIOUS
  <2>2. Laid(u, f2, chain)
    BY <1>4, <1>7, <2>1 DEF Layout
  <2>3. \A g \in Files : f2[g] = IF dir'[g] = Absent THEN 0 ELSE dir'[g].first
    BY <1>5, <1>7, <1>8, <1>10, <1>14, <1>15, <2>1 DEF First
  <2> QED
    BY <2>1, <2>2, <2>3, LayoutStep
<1>17. wanted' \in Histories /\ wanted'.file = wanted.file /\ wanted'.offset = wanted.offset
  BY <1>4, <1>5, WroteIs DEF Inv
<1>18. HandleSound(chain, r)'
  <2>1. dir'[fi.file] = [first |-> a, size |-> size]
    BY <1>5, <1>7, <1>14
  <2>2. InChain(chain, r.file, r.write_cluster)
    BY <1>1, <1>5, <1>13
  <2>3. ~r.write_buf
    BY <1>5, <1>13 DEF HandleSound
  <2> QED
    BY <1>5, <1>13, <1>14, <1>15, <2>1, <2>2, <2>3 DEF HandleSound, InChain
<1>19. HandlesSound(chain)' /\ WriterAlone'
  <2>1. \A g \in Files \ {fi.file} : dir'[g] = dir[g]
    BY <1>7, <1>14
  <2>2. WriterBecomes(chain, fd, r)
    BY <1>1, <1>4, <1>5, <1>13, <1>17, <1>18, <2>1 DEF WriterBecomes, pool
  <2> QED
    BY <1>5, <1>7, <2>2, WriterStep
<1>20. op' \in Ops /\ OpSound(chain)'
  BY <1>4, EmptyHandle DEF NoOp, OpSound, Ops
<1>21. TypeOK'
  <2>1. s_files' \in [Fds -> Handles]
    BY <1>4, <1>7, <1>13
  <2> QED
    BY <1>4, <1>12, <1>14, <1>17, <1>20, <2>1 DEF Inv, TypeOK, Ops, Histories, pool
<1> QED
  BY <1>16, <1>19, <1>20, <1>21 DEF Inv, CInv

-----------------------------------------------------------------------------
\* Truncation.
CutTo(fi, r, first, size) ==
    /\ r \in Handles
    /\ r.in_use = fi.in_use /\ r.file = fi.file /\ r.is_writable = fi.is_writable
    /\ r.buffered = fi.buffered /\ r.write_buf = fi.write_buf
    /\ r.first_cluster = first /\ r.file_size = size
    /\ r.dir_sector_buf =
          [fi.dir_sector_buf EXCEPT ![fi.file] = [first |-> first, size |-> size]]
    /\ r.write_cluster = first /\ r.sector_in_cluster = 0
    /\ r.current_cluster = first /\ r.current_cluster_idx = 0
    /\ r.last_offset = 0 /\ r.moved_by = "none"

LEMMA EntrySet ==
    ASSUME NEW fi \in Handles, fi.file \in Files, NEW first \in AnyCluster, NEW size \in Sizes,
           NEW w, w = SetEntry(fi, first, size)
    PROVE  /\ w \in Handles
           /\ w = [fi EXCEPT !.dir_sector_buf =
                 [fi.dir_sector_buf EXCEPT ![fi.file] = [first |-> first, size |-> size]]]
<1>1. PICK e : e = [first |-> first, size |-> size]
  OBVIOUS
<1>2. e \in Entries
  BY <1>1, EntryFacts
<1>3. w = [fi EXCEPT !.dir_sector_buf[fi.file] = e]
  BY <1>1 DEF SetEntry
<1>4. w = [fi EXCEPT !.dir_sector_buf = [fi.dir_sector_buf EXCEPT ![fi.file] = e]]
  BY <1>3 DEF Handles
<1>5. w \in Handles
  BY <1>2, <1>4 DEF Handles
<1> QED
  BY <1>1, <1>4, <1>5

LEMMA CutIs ==
    ASSUME NEW fi \in Handles, fi.file \in Files, NEW first \in AnyCluster, NEW size \in Sizes
    PROVE  CutTo(fi, Cut(fi, first, size), first, size)
<1>1. PICK w, b, r : /\ w = SetEntry(fi, first, size)
                     /\ b = [fi.dir_sector_buf EXCEPT ![fi.file] = [first |-> first, size |-> size]]
                     /\ r = Cut(fi, first, size)
  OBVIOUS
<1>2. w \in Handles /\ w = [fi EXCEPT !.dir_sector_buf = b]
  BY <1>1, EntrySet
<1>3. r = [[w EXCEPT !.file_size = size] EXCEPT
             !.first_cluster = first, !.write_cluster = first, !.sector_in_cluster = 0,
             !.last_offset = 0, !.moved_by = "none",
             !.current_cluster = first, !.current_cluster_idx = 0]
  BY <1>1 DEF Cut, Rewound
<1>4. 0 \in Sizes /\ 0 \in 0 .. ClusterSectors /\ first \in 0 .. Eoc
  BY Constants, SizeFacts DEF AnyCluster, Eoc
<1>5. /\ w.in_use = fi.in_use /\ w.file = fi.file /\ w.is_writable = fi.is_writable
      /\ w.buffered = fi.buffered /\ w.write_buf = fi.write_buf /\ w.dir_sector_buf = b
  BY <1>2 DEF Handles
<1>6. r \in Handles
  BY <1>2, <1>3, <1>4 DEF Handles
<1>7. /\ r.in_use = w.in_use /\ r.file = w.file /\ r.is_writable = w.is_writable
      /\ r.buffered = w.buffered /\ r.write_buf = w.write_buf /\ r.dir_sector_buf = w.dir_sector_buf
      /\ r.first_cluster = first /\ r.file_size = size
      /\ r.write_cluster = first /\ r.sector_in_cluster = 0
      /\ r.current_cluster = first /\ r.current_cluster_idx = 0
      /\ r.last_offset = 0 /\ r.moved_by = "none"
  BY <1>2, <1>3 DEF Handles
<1> QED
  BY <1>1, <1>5, <1>6, <1>7 DEF CutTo

\* A buffer that is truncated to nothing.
LEMMA EmptiedIs ==
    ASSUME NEW fi \in Handles, fi.file \in Files, fi.buffered, fi.is_writable,
           dir \in [Files -> Entries], fi.dir_sector_buf = dir, dir[fi.file] = NoEntry,
           NEW r,
           r = SetEntry(Rewound([fi EXCEPT !.write_buf = FALSE, !.file_size = 0], 0), 0, 0)
    PROVE  /\ r \in Handles /\ r.in_use = fi.in_use /\ r.file = fi.file /\ r.is_writable
           /\ r.buffered /\ ~r.write_buf /\ r.file_size = 0 /\ AtStart(r)
           /\ r.dir_sector_buf = dir
<1>1. PICK e, w : /\ e = [fi EXCEPT !.write_buf = FALSE, !.file_size = 0]
                  /\ w = Rewound(e, 0) /\ r = SetEntry(w, 0, 0)
  OBVIOUS
<1>2. 0 \in Sizes /\ 0 \in 0 .. ClusterSectors /\ 0 \in AnyCluster /\ 0 \in 0 .. Eoc
  BY Constants, SizeFacts DEF AnyCluster, Eoc
<1>3. /\ e \in Handles /\ e.in_use = fi.in_use /\ e.file = fi.file /\ e.is_writable
      /\ e.buffered /\ ~e.write_buf /\ e.file_size = 0 /\ e.dir_sector_buf = dir
  BY <1>1, <1>2 DEF Handles
<1>4. w = [e EXCEPT !.first_cluster = 0, !.write_cluster = 0, !.sector_in_cluster = 0,
                    !.last_offset = 0, !.moved_by = "none",
                    !.current_cluster = 0, !.current_cluster_idx = 0]
  BY <1>1 DEF Rewound
<1>5. /\ w \in Handles /\ w.in_use = fi.in_use /\ w.file = fi.file /\ w.is_writable
      /\ w.buffered /\ ~w.write_buf /\ w.file_size = 0 /\ AtStart(w)
      /\ w.dir_sector_buf = dir
  BY <1>2, <1>3, <1>4 DEF Handles, AtStart
<1>6. PICK b : b = [w.dir_sector_buf EXCEPT ![w.file] = [first |-> 0, size |-> 0]]
  OBVIOUS
<1>7. r \in Handles /\ r = [w EXCEPT !.dir_sector_buf = b]
  BY <1>1, <1>2, <1>5, <1>6, EntrySet
<1>8. b = dir
  BY <1>5, <1>6 DEF NoEntry
<1> QED
  BY <1>5, <1>7, <1>8 DEF Handles, AtStart

LEMMA TruncateBufferedKeepsInv ==
    ASSUME NEW chain, Inv(chain), NEW fd \in Fds, NEW size \in Sizes,
           TruncateBuffered(fd, size)
    PROVE  Inv(chain)'
<1>1. PICK fi : fi = s_files[fd]
  OBVIOUS
<1>2. /\ Idle /\ InUse(fd) /\ fi.buffered /\ wanted' = Forgotten(fi.file, size)
      /\ disk' = Held(disk) /\ UNCHANGED <<fat, pool, op>>
  BY <1>1 DEF TruncateBuffered
<1>3. /\ fi \in Handles /\ HandleSound(chain, fi) /\ s_files \in [Fds -> Handles]
      /\ dir \in [Files -> Entries] /\ HandlesSound(chain) /\ WriterAlone /\ Layout(chain)
  BY <1>1, <1>2 DEF Inv, CInv, TypeOK, HandlesSound
<1>4. /\ fi.file \in Files /\ fi.is_writable /\ dir[fi.file] = NoEntry /\ fi.dir_sector_buf = dir
      /\ AtStart(fi)
  BY <1>2, <1>3 DEF HandleSound, AtStart
<1>5. /\ wanted' \in Histories /\ wanted'.file = wanted.file /\ wanted'.offset = wanted.offset
      /\ wanted'.written = (wanted.written /\ ~(fi.file = wanted.file /\ wanted.offset >= size))
  BY <1>2, <1>4, ForgottenIs DEF Inv
<1>6. disk' \subseteq AnyCluster \X (0 .. ClusterChunks - 1)
  BY <1>2, HeldTyped DEF Inv
<1>7. ASSUME NEW r, r \in Handles, s_files' = [s_files EXCEPT ![fd] = r], dir' = dir,
             r.in_use = fi.in_use, r.file = fi.file, r.is_writable, HandleSound(chain, r)'
      PROVE  Inv(chain)'
  <2>1. HandlesSound(chain)' /\ WriterAlone'
    <3>1. WriterBecomes(chain, fd, r)
      BY <1>1, <1>2, <1>4, <1>5, <1>7 DEF WriterBecomes, pool
    <3> QED
      BY <1>3, <3>1, WriterStep
  <2>2. Layout(chain)' /\ OpSound(chain)'
    BY <1>2, <1>3, <1>7, LayoutSame, IdleOp
  <2>3. s_files' \in [Fds -> Handles]
    BY <1>3, <1>7
  <2>4. TypeOK'
    BY <1>2, <1>5, <1>6, <1>7, <2>3 DEF Inv, TypeOK, Histories, pool
  <2> QED
    BY <2>1, <2>2, <2>4 DEF Inv, CInv
<1>8. CASE size = 0
  <2>1. PICK r : r = SetEntry(Rewound([fi EXCEPT !.write_buf = FALSE, !.file_size = 0], 0), 0, 0)
    OBVIOUS
  <2>2. s_files' = [s_files EXCEPT ![fd] = r] /\ dir' = r.dir_sector_buf
    BY <1>1, <1>8, <2>1 DEF TruncateBuffered
  <2>3. /\ r \in Handles /\ r.in_use = fi.in_use /\ r.file = fi.file /\ r.is_writable
        /\ r.buffered /\ ~r.write_buf /\ AtStart(r) /\ r.dir_sector_buf = dir
    BY <1>2, <1>3, <1>4, <2>1, EmptiedIs
  <2>4. dir' = dir
    BY <2>2, <2>3
  <2>5. HandleSound(chain, r)'
    BY <1>3, <1>4, <2>3, <2>4, EntryFacts DEF HandleSound, AtStart
  <2> QED
    BY <1>7, <2>2, <2>3, <2>4, <2>5
<1>9. CASE size > 0
  <2>1. PICK buf : buf = (fi.write_buf /\ wanted'.written)
    OBVIOUS
  <2>2. /\ s_files' = [s_files EXCEPT ![fd].file_size = size, ![fd].write_buf = buf]
        /\ dir' = dir
    BY <1>1, <1>9, <2>1, SizeFacts DEF TruncateBuffered
  <2>3. PICK r : r = [fi EXCEPT !.file_size = size, !.write_buf = buf]
    OBVIOUS
  <2>4. s_files' = [s_files EXCEPT ![fd] = r]
    BY <1>1, <1>3, <2>2, <2>3
  <2>5. buf \in BOOLEAN /\ (buf => fi.file = wanted.file /\ wanted.offset < size)
    <3>1. fi.write_buf \in BOOLEAN /\ (fi.write_buf => fi.file = wanted.file)
      BY <1>3 DEF HandleSound, Handles
    <3>2. wanted'.written \in BOOLEAN
      BY <1>5 DEF Histories
    <3>3. wanted.offset \in Nat /\ size \in Nat
      BY SizeFacts DEF Inv, TypeOK
    <3>4. wanted'.written => ~(fi.file = wanted.file /\ wanted.offset >= size)
      <4>1. PICK cutOff : cutOff = (fi.file = wanted.file /\ wanted.offset >= size)
        OBVIOUS
      <4>2. wanted'.written = (wanted.written /\ ~cutOff)
        BY <1>5, <4>1
      <4>3. wanted'.written => ~cutOff
        BY <4>2, Zenon
      <4> QED
        BY <4>1, <4>3
    <3>5. ~(wanted.offset >= size) => wanted.offset < size
      BY <3>3
    <3> QED
      BY <2>1, <3>1, <3>2, <3>4, <3>5
  <2>6. /\ r \in Handles /\ r.in_use = fi.in_use /\ r.file = fi.file /\ r.is_writable
        /\ r.buffered /\ r.write_buf = buf /\ r.file_size = size /\ AtStart(r)
        /\ r.dir_sector_buf = dir
    BY <1>2, <1>3, <1>4, <2>3, <2>5 DEF Handles, AtStart
  <2>7. HandleSound(chain, r)'
    BY <1>3, <1>4, <1>5, <2>2, <2>5, <2>6, EntryFacts DEF HandleSound, AtStart
  <2> QED
    BY <1>7, <2>2, <2>4, <2>6, <2>7
<1> QED
  BY <1>8, <1>9, SizeFacts

\* A truncation in place: descriptor fi of fd is cut to size, and first is where the
\* clusters of its file begin in c2.
CutStep(chain, c2, fd, fi, first, size, u, f2) ==
    /\ Idle /\ InUse(fd) /\ fi = s_files[fd] /\ fi.is_writable /\ ~fi.buffered
    /\ wanted' = Forgotten(fi.file, size)
    /\ s_files' = [s_files EXCEPT ![fd] = Cut(fi, first, size)]
    /\ dir' = s_files'[fd].dir_sector_buf
    /\ UNCHANGED <<pool, op>>
    /\ u = fat' /\ u \in [AnyCluster -> 0 .. Eoc]
    /\ disk' \subseteq AnyCluster \X (0 .. ClusterChunks - 1)
    /\ f2 = [[g \in Files |-> First(g)] EXCEPT ![fi.file] = first]
    /\ Laid(u, f2, c2)

LEMMA CutKeepsInv ==
    ASSUME NEW chain, Inv(chain), NEW fd \in Fds, NEW size \in Sizes, NEW first \in AnyCluster,
           NEW fi, NEW c2, NEW u, NEW f2, CutStep(chain, c2, fd, fi, first, size, u, f2)
    PROVE  Inv(c2)'
<1>1. /\ Idle /\ InUse(fd) /\ fi = s_files[fd] /\ fi.is_writable /\ ~fi.buffered
      /\ wanted' = Forgotten(fi.file, size) /\ UNCHANGED <<pool, op>>
  BY DEF CutStep
<1>2. /\ fi \in Handles /\ HandleSound(chain, fi) /\ s_files \in [Fds -> Handles]
      /\ dir \in [Files -> Entries] /\ HandlesSound(chain) /\ WriterAlone /\ Layout(chain)
  BY <1>1 DEF Inv, CInv, TypeOK, HandlesSound
<1>3. fi.file \in Files /\ fi.dir_sector_buf = dir /\ ~fi.write_buf
  BY <1>1, <1>2 DEF HandleSound, Handles
<1>4. PICK r : r = Cut(fi, first, size)
  OBVIOUS
<1>5. PICK e : e = [first |-> first, size |-> size]
  OBVIOUS
<1>6. e \in Entries /\ e # Absent /\ e.first = first /\ e.size = size
  BY <1>5, EntryFacts
<1>7. CutTo(fi, r, first, size)
  BY <1>2, <1>3, <1>4, CutIs
<1>8. /\ r \in Handles /\ r.in_use /\ r.file = fi.file /\ r.is_writable
      /\ ~r.buffered /\ ~r.write_buf /\ r.first_cluster = first /\ r.file_size = size
      /\ r.dir_sector_buf = [dir EXCEPT ![fi.file] = e] /\ r.write_cluster = first
  BY <1>1, <1>3, <1>5, <1>7 DEF CutTo, InUse
<1>9. s_files' = [s_files EXCEPT ![fd] = r] /\ s_files' \in [Fds -> Handles]
      /\ s_files'[fd] = r
  BY <1>2, <1>4, <1>8 DEF CutStep
<1>10. dir' = [dir EXCEPT ![fi.file] = e] /\ dir' \in [Files -> Entries] /\ dir'[fi.file] = e
       /\ dir' = r.dir_sector_buf
  BY <1>2, <1>3, <1>6, <1>8, <1>9 DEF CutStep
<1>11. /\ wanted' \in Histories /\ wanted'.file = wanted.file /\ wanted'.offset = wanted.offset
  BY <1>1, <1>3, ForgottenIs DEF Inv
<1>12. /\ u = fat' /\ u \in [AnyCluster -> 0 .. Eoc] /\ Laid(u, f2, c2)
       /\ f2 = [[g \in Files |-> First(g)] EXCEPT ![fi.file] = first]
  BY DEF CutStep
<1>13. Layout(c2)'
  <2>1. ASSUME NEW f \in Files
        PROVE  f2[f] = IF dir'[f] = Absent THEN 0 ELSE dir'[f].first
    <3>1. CASE f = fi.file
      BY <1>6, <1>10, <1>12, <3>1
    <3>2. CASE f # fi.file
      BY <1>2, <1>10, <1>12, <3>2 DEF First
    <3> QED
      BY <3>1, <3>2
  <2> QED
    BY <1>12, <2>1, LayoutStep
<1>14. first = 0 \/ InChain(c2, fi.file, first)
  <2>1. f2[fi.file] = first
    BY <1>3, <1>12
  <2>2. first = IF Len(c2[fi.file]) = 0 THEN 0 ELSE c2[fi.file][1]
    BY <1>3, <1>12, <2>1 DEF Laid
  <2>3. Len(c2[fi.file]) \in Nat
    BY <1>3, <1>12, ChainFacts
  <2>4. Len(c2[fi.file]) # 0 => 1 \in 1 .. Len(c2[fi.file])
    BY <2>3
  <2> QED
    BY <2>2, <2>4 DEF InChain
<1>15. HandleSound(c2, r)'
  <2>1. [first |-> r.first_cluster, size |-> r.file_size] = dir'[r.file]
    BY <1>5, <1>8, <1>10
  <2> QED
    BY <1>3, <1>6, <1>8, <1>10, <1>14, <2>1 DEF HandleSound
<1>16. HandlesSound(c2)' /\ WriterAlone'
  <2>1. WriterBecomes(c2, fd, r)
    BY <1>1, <1>2, <1>3, <1>8, <1>9, <1>10, <1>11, <1>15 DEF WriterBecomes, pool
  <2> QED
    BY <1>2, <2>1, WriterStep
<1>17. OpSound(c2)'
  BY <1>1, IdleOp
<1>18. TypeOK'
  BY <1>1, <1>9, <1>10, <1>11, <1>12 DEF CutStep, Inv, TypeOK, Histories, pool
<1> QED
  BY <1>13, <1>16, <1>17, <1>18 DEF Inv, CInv

\* What FreeChain leaves alone when a file's chain is freed.
LEMMA ChainGone ==
    ASSUME NEW chain, Layout(chain), NEW f \in Files,
           NEW first, first = IF Len(chain[f]) = 0 THEN 0 ELSE chain[f][1],
           NEW t, t = FreeChain(fat, first), NEW c \in Clusters
    PROVE  /\ ~InChain(chain, f, c) => t[c] = fat[c]
           /\ fat[c] = Free => t[c] = Free
<1>1. Len(chain[f]) \in Nat /\ c \in AnyCluster
  BY ChainFacts, ClusterFacts DEF Layout
<1>2. CASE Len(chain[f]) = 0
  <2>1. ChainOf(first) = {}
    BY <1>2, NoChain
  <2>2. t[c] = fat[c]
    BY <1>1, <2>1 DEF FreeChain
  <2> QED
    BY <2>2
<1>3. CASE Len(chain[f]) # 0
  <2>1. 1 \in 1 .. Len(chain[f]) /\ first = chain[f][1]
    BY <1>1, <1>3
  <2>2. t = FreeChain(fat, chain[f][1])
    BY <2>1
  <2>3. /\ (\E j \in 1 .. Len(chain[f]) : chain[f][j] = c) => t[c] = Free
        /\ (\A j \in 1 .. Len(chain[f]) : chain[f][j] # c) => t[c] = fat[c]
    BY <1>1, <2>1, <2>2, FreeChainIs
  <2> QED
    BY <2>3 DEF InChain
<1> QED
  BY <1>2, <1>3

\* The chain of f is freed for a truncation.
LEMMA CutFreed ==
    ASSUME NEW chain, Layout(chain), NEW f \in Files, NEW t, t = FreeChain(fat, First(f)),
           NEW f2, f2 = [[g \in Files |-> First(g)] EXCEPT ![f] = 0],
           NEW c2, c2 = [chain EXCEPT ![f] = <<>>]
    PROVE  Laid(t, f2, c2)
<1>1. PICK f1 : f1 = [g \in Files |-> First(g)]
  OBVIOUS
<1>2. Laid(fat, f1, chain)
  BY <1>1 DEF Layout
<1>3. First(f) = IF Len(chain[f]) = 0 THEN 0 ELSE chain[f][1]
  BY FirstIs
<1>4. \A c \in Clusters : ~InChain(chain, f, c) => t[c] = fat[c]
  BY <1>3, ChainGone
<1>5. f2[f] = 0 /\ \A g \in Files \ {f} : f2[g] = f1[g]
  BY <1>1
<1>6. Freed(fat, t, f1, f2, chain, c2, f)
  BY <1>4, <1>5 DEF Freed
<1> QED
  BY <1>2, <1>6, FreeLaid

\* A run of free clusters is still free in the table where the old chain is freed.
LEMMA CutTaken ==
    ASSUME NEW chain, Layout(chain), NEW f \in Files, NEW t, t = FreeChain(fat, First(f)),
           NEW n \in Nat \ {0}, NEW c \in Runs(n), NEW u, u = TakeRun(t, c, n),
           NEW f2, f2 = [[g \in Files |-> First(g)] EXCEPT ![f] = c]
    PROVE  /\ Laid(u, f2, [chain EXCEPT ![f] = RunOf(c, n)])
           /\ fat \in [AnyCluster -> 0 .. Eoc] => u \in [AnyCluster -> 0 .. Eoc]
<1>1. c \in Nat /\ FreeRun(fat, c, n)
  BY RunsFree
<1>2. First(f) = IF Len(chain[f]) = 0 THEN 0 ELSE chain[f][1]
  BY FirstIs
<1>3. FreeRun(t, c, n)
  <2>1. \A d \in Clusters : fat[d] = Free => t[d] = Free
    BY <1>2, ChainGone
  <2> QED
    BY <1>1, <2>1 DEF FreeRun
<1>4. PICK f1, c1 : /\ f1 = [[g \in Files |-> First(g)] EXCEPT ![f] = 0]
                    /\ c1 = [chain EXCEPT ![f] = <<>>]
  OBVIOUS
<1>5. Laid(t, f1, c1)
  BY <1>4, CutFreed
<1>6. PICK c2 : c2 = [c1 EXCEPT ![f] = RunOf(c, n)]
  OBVIOUS
<1>7. f2[f] = c /\ \A g \in Files \ {f} : f2[g] = f1[g]
  BY <1>4
<1>8. Taken(t, u, f1, f2, c1, c2, f, c, n)
  BY <1>6, <1>7 DEF Taken
<1>9. Laid(u, f2, c2)
  BY <1>1, <1>3, <1>5, <1>8, TakeLaid
<1>10. fat \in [AnyCluster -> 0 .. Eoc] => u \in [AnyCluster -> 0 .. Eoc]
  BY <1>1, <1>3, FreeChainTyped, TakeRunTyped
<1>11. c2 = [chain EXCEPT ![f] = RunOf(c, n)]
  <2>1. chain \in [Files -> Seq(Clusters)]
    BY DEF Layout, Laid
  <2> QED
    BY <1>4, <1>6, <2>1
<1> QED
  BY <1>9, <1>10, <1>11

\* The chain of f is cut behind its n-th cluster, and the rest is freed.
LEMMA CutShort ==
    ASSUME NEW chain, Layout(chain), fat \in [AnyCluster -> 0 .. Eoc], NEW f \in Files,
           NEW n \in Nat \ {0}, n < Len(chain[f]),
           NEW last, last = Walk(First(f), n - 1),
           NEW u, u = [FreeChain(fat, Chained(last)) EXCEPT ![last] = Eoc],
           NEW f2, f2 = [g \in Files |-> First(g)]
    PROVE  /\ Laid(u, f2, [chain EXCEPT ![f] = SubSeq(chain[f], 1, n)])
           /\ u \in [AnyCluster -> 0 .. Eoc]
<1>1. PICK m : m = Len(chain[f])
  OBVIOUS
<1>2. m \in Nat /\ n < m /\ \A i \in 1 .. m : chain[f][i] \in Clusters
  BY <1>1, ChainFacts DEF Layout
<1>3. 1 \in 1 .. m /\ n \in 1 .. m /\ n + 1 \in 1 .. m /\ n - 1 \in Nat /\ 1 + (n - 1) = n
      /\ m # 0 /\ 1 + (n - 1) <= m /\ n # m
  BY <1>2
<1>4. First(f) = chain[f][1]
  BY <1>1, <1>3, FirstIs
<1>5. last = chain[f][n]
  BY <1>1, <1>3, <1>4, AlongChain
<1>6. Chained(last) = chain[f][n + 1]
  <2>1. fat[chain[f][n]] = chain[f][n + 1]
    BY <1>1, <1>3 DEF Layout, Laid
  <2> QED
    BY <1>2, <1>3, <1>5, <2>1, ClusterFacts DEF Chained
<1>7. PICK t : t = FreeChain(fat, chain[f][n + 1])
  OBVIOUS
<1>8. t \in [AnyCluster -> 0 .. Eoc] /\ u = [t EXCEPT ![last] = Eoc]
  BY <1>6, <1>7, FreeChainTyped
<1>9. last \in AnyCluster /\ Eoc \in 0 .. Eoc /\ Clusters \subseteq AnyCluster
  <2>1. last \in Clusters
    BY <1>2, <1>3, <1>5
  <2>2. Clusters \subseteq AnyCluster /\ Eoc \in Nat
    BY ClusterFacts
  <2> QED
    BY <2>1, <2>2
<1>10. u \in [AnyCluster -> 0 .. Eoc] /\ u[last] = Eoc
       /\ \A c \in Clusters \ {last} : u[c] = t[c]
  BY <1>8, <1>9
<1>11. \A c \in Clusters : (\A i \in n + 1 .. m : chain[f][i] # c) => t[c] = fat[c]
  BY <1>1, <1>3, <1>7, FreeChainIs, ClusterFacts
<1>12. PICK c2 : c2 = [chain EXCEPT ![f] = SubSeq(chain[f], 1, n)]
  OBVIOUS
<1>13. CutAt(fat, u, chain, c2, f, n)
  BY <1>1, <1>5, <1>10, <1>11, <1>12 DEF CutAt
<1>14. Laid(u, f2, c2)
  <2>1. Laid(fat, f2, chain)
    BY DEF Layout
  <2> QED
    BY <1>1, <1>3, <1>13, <2>1, CutLaid
<1> QED
  BY <1>10, <1>12, <1>14

\* The chunks copied to a new run lie in it.
LEMMA CopiedTyped ==
    ASSUME TypeOK, NEW fi \in Handles, NEW size \in Sizes, NEW n \in Nat, NEW start \in Nat,
           FreeRun(fat, start, n),
           NEW l \in Nat, l = Cardinality(ChainOf(fi.first_cluster)), l < n
    PROVE  Copied(fi, start, size) \subseteq AnyCluster \X (0 .. ClusterChunks - 1)
<1>1. PICK s : s = (Smaller(fi.file_size, size) + SectorChunks - 1) \div SectorChunks
  OBVIOUS
<1>2. s \in Nat
  <2>1. fi.file_size \in Nat /\ size \in Nat
    BY SizeFacts DEF Handles
  <2>2. Smaller(fi.file_size, size) \in Nat
    BY <2>1 DEF Smaller
  <2> QED
    BY <1>1, <2>2, Constants, RoundedUp
<1>3. s * SectorChunks \in Nat /\ ClusterChunks * l \in Nat /\ ClusterChunks * n \in Nat
      /\ ClusterChunks * l <= ClusterChunks * n
  <2>1. s * SectorChunks \in Nat
    BY <1>2, Constants
  <2> QED
    BY <2>1, Times, Constants
<1>4. PICK copied : copied = 0 .. Smaller(s * SectorChunks, ClusterChunks * l) - 1
  OBVIOUS
<1>5. \A k \in copied : k \in Nat /\ k < ClusterChunks * n
  <2>1. PICK x, y, z : x = s * SectorChunks /\ y = ClusterChunks * l /\ z = ClusterChunks * n
    OBVIOUS
  <2>2. x \in Nat /\ y \in Nat /\ z \in Nat /\ y <= z /\ copied = 0 .. Smaller(x, y) - 1
    BY <1>3, <1>4, <2>1
  <2>3. \A k \in copied : k \in Nat /\ k < z
    BY <2>2 DEF Smaller
  <2> QED
    BY <2>1, <2>3
<1>6. \A k \in copied : Place(start, k) \in Chunks
  BY <1>5, PlaceInRun
<1>7. disk \subseteq AnyCluster \X (0 .. ClusterChunks - 1)
  BY DEF TypeOK
<1>8. Copied(fi, start, size) \subseteq disk \cup {Place(start, k) : k \in copied}
  BY <1>1, <1>4 DEF Copied
<1> QED
  BY <1>6, <1>7, <1>8, ChunksTyped

\* The layout after a truncation in place.
CutChain(chain, fi, size) ==
    LET f == fi.file
        need == ClustersFor(size)
    IN  IF size = 0 THEN [chain EXCEPT ![f] = <<>>]
        ELSE IF need > Len(chain[f]) THEN [chain EXCEPT ![f] = RunOf(Min(Runs(need)), need)]
        ELSE IF need < Len(chain[f]) THEN [chain EXCEPT ![f] = SubSeq(chain[f], 1, need)]
        ELSE chain

LEMMA TruncateDirectKeepsInv ==
    ASSUME NEW chain, Inv(chain), NEW fd \in Fds, NEW size \in Sizes,
           TruncateDirect(fd, size), NEW c2, c2 = CutChain(chain, s_files[fd], size)
    PROVE  Inv(c2)'
<1>1. PICK fi, f, first, need, m :
          /\ fi = s_files[fd] /\ f = fi.file /\ first = fi.first_cluster
          /\ need = ClustersFor(size) /\ m = Len(chain[f])
  OBVIOUS
<1>2. /\ Idle /\ InUse(fd) /\ fi.is_writable /\ ~fi.buffered
      /\ wanted' = Forgotten(f, size)
      /\ dir' = s_files'[fd].dir_sector_buf
      /\ UNCHANGED <<pool, op>>
  BY <1>1 DEF TruncateDirect
<1>3. /\ TypeOK /\ fi \in Handles /\ HandleSound(chain, fi) /\ s_files \in [Fds -> Handles]
      /\ Layout(chain) /\ fat \in [AnyCluster -> 0 .. Eoc]
  BY <1>1, <1>2 DEF Inv, CInv, TypeOK, HandlesSound
<1>4. /\ f \in Files /\ m \in Nat /\ (first = 0) = (m = 0)
      /\ first = IF m = 0 THEN 0 ELSE chain[f][1]
  BY <1>1, <1>2, <1>3, FileChain
<1>5. First(f) = first
  BY <1>1, <1>3, <1>4, FirstIs
<1>6. first \in AnyCluster /\ 0 \in AnyCluster
  BY <1>1, <1>3, ClusterFacts DEF Handles
<1>7. first # 0 => Cardinality(ChainOf(first)) = m
  <2>1. first # 0 => 1 \in 1 .. m /\ first = chain[f][1] /\ m - 1 + 1 = m
    BY <1>4
  <2>2. first # 0 => Cardinality(ChainOf(first)) = m - 1 + 1
    BY <1>1, <1>3, <1>4, <2>1, ChainLength
  <2> QED
    BY <2>1, <2>2
<1>8. size \in Nat /\ need \in Nat /\ (size > 0 => need # 0)
  BY <1>1, SizeFacts, ClustersForIs
<1>9. PICK f1 : f1 = [g \in Files |-> First(g)]
  OBVIOUS
<1>10. Laid(fat, f1, chain) /\ f1 = [f1 EXCEPT ![f] = first]
  <2>1. f1[f] = first
    BY <1>4, <1>5, <1>9
  <2> QED
    BY <1>3, <1>9, <2>1 DEF Layout
<1>11. disk' = Held(disk) => disk' \subseteq AnyCluster \X (0 .. ClusterChunks - 1)
  BY <1>3, HeldTyped
<1>12. ASSUME NEW c, c \in AnyCluster, NEW u, NEW f2,
              s_files' = [s_files EXCEPT ![fd] = Cut(fi, c, size)],
              disk' \subseteq AnyCluster \X (0 .. ClusterChunks - 1),
              u = fat', u \in [AnyCluster -> 0 .. Eoc],
              f2 = [f1 EXCEPT ![f] = c], Laid(u, f2, c2)
       PROVE  Inv(c2)'
  <2>1. CutStep(chain, c2, fd, fi, c, size, u, f2)
    BY <1>1, <1>2, <1>9, <1>12 DEF CutStep
  <2> QED
    BY <1>12, <2>1, CutKeepsInv
<1>13. CASE size = 0
  <2>1. /\ fat' = FreeChain(fat, first) /\ s_files' = [s_files EXCEPT ![fd] = Cut(fi, 0, 0)]
        /\ disk' = Held(disk)
    BY <1>1, <1>13, <1>8 DEF TruncateDirect
  <2>2. PICK u, f2 : u = fat' /\ f2 = [f1 EXCEPT ![f] = 0]
    OBVIOUS
  <2>3. Laid(u, f2, c2)
    <3>1. c2 = [chain EXCEPT ![f] = <<>>]
      BY <1>1, <1>13 DEF CutChain
    <3> QED
      BY <1>3, <1>4, <1>5, <1>9, <2>1, <2>2, <3>1, CutFreed
  <2>4. u \in [AnyCluster -> 0 .. Eoc]
    BY <1>3, <2>1, <2>2, FreeChainTyped
  <2>5. s_files' = [s_files EXCEPT ![fd] = Cut(fi, 0, size)]
    BY <1>13, <2>1
  <2> QED
    BY <1>6, <1>11, <1>12, <2>1, <2>2, <2>3, <2>4, <2>5
<1>14. CASE size > 0 /\ first # 0 /\ need > m
  <2>1. PICK start : start = Min(Runs(need))
    OBVIOUS
  <2>2. /\ Runs(need) # {}
        /\ fat' = TakeRun(FreeChain(fat, first), start, need)
        /\ disk' = Held(Copied(fi, start, size))
        /\ s_files' = [s_files EXCEPT ![fd] = Cut(fi, start, size)]
    BY <1>1, <1>4, <1>7, <1>8, <1>14, <2>1 DEF TruncateDirect
  <2>3. need \in Nat \ {0}
    BY <1>8, <1>14
  <2>4. start \in Runs(need)
    BY <2>1, <2>2, <2>3, FirstRun
  <2>5. start \in Nat /\ start \in AnyCluster /\ FreeRun(fat, start, need)
    BY <2>3, <2>4, RunsFree, ClusterFacts
  <2>6. PICK t, u, f2 : /\ t = FreeChain(fat, First(f)) /\ u = TakeRun(t, start, need)
                        /\ f2 = [f1 EXCEPT ![f] = start]
    OBVIOUS
  <2>7. u = fat'
    BY <1>5, <2>2, <2>6
  <2>8. Laid(u, f2, c2) /\ u \in [AnyCluster -> 0 .. Eoc]
    <3>1. c2 = [chain EXCEPT ![f] = RunOf(start, need)]
      BY <1>1, <1>8, <1>14, <2>1 DEF CutChain
    <3>2. /\ Laid(u, f2, [chain EXCEPT ![f] = RunOf(start, need)])
          /\ u \in [AnyCluster -> 0 .. Eoc]
      BY <1>3, <1>4, <1>9, <2>3, <2>4, <2>6, CutTaken
    <3> QED
      BY <3>1, <3>2
  <2>9. Copied(fi, start, size) \subseteq AnyCluster \X (0 .. ClusterChunks - 1)
    <3>1. m = Cardinality(ChainOf(fi.first_cluster)) /\ m < need
      BY <1>1, <1>4, <1>7, <1>8, <1>14
    <3> QED
      BY <1>3, <1>4, <1>8, <2>5, <3>1, CopiedTyped
  <2>10. disk' \subseteq AnyCluster \X (0 .. ClusterChunks - 1)
    BY <2>2, <2>9 DEF Held
  <2> QED
    BY <1>12, <2>2, <2>5, <2>6, <2>7, <2>8, <2>10
<1>15. CASE size > 0 /\ first # 0 /\ need < m
  <2>1. PICK last : last = Walk(first, need - 1)
    OBVIOUS
  <2>2. /\ fat' = [FreeChain(fat, Chained(last)) EXCEPT ![last] = Eoc]
        /\ s_files' = [s_files EXCEPT ![fd] = Cut(fi, first, size)]
        /\ disk' = Held(disk)
    BY SMTT(60), <1>1, <1>4, <1>7, <1>8, <1>15, <2>1 DEF TruncateDirect
  <2>3. PICK u : u = [FreeChain(fat, Chained(last)) EXCEPT ![last] = Eoc]
    OBVIOUS
  <2>4. need \in Nat \ {0} /\ need < Len(chain[f]) /\ last = Walk(First(f), need - 1)
    BY <1>1, <1>5, <1>8, <1>15, <2>1
  <2>5. Laid(u, f1, c2) /\ u \in [AnyCluster -> 0 .. Eoc]
    <3>1. c2 = [chain EXCEPT ![f] = SubSeq(chain[f], 1, need)]
      BY <1>1, <1>4, <1>8, <1>15 DEF CutChain
    <3>2. /\ Laid(u, f1, [chain EXCEPT ![f] = SubSeq(chain[f], 1, need)])
          /\ u \in [AnyCluster -> 0 .. Eoc]
      BY <1>3, <1>4, <1>9, <2>3, <2>4, CutShort
    <3> QED
      BY <3>1, <3>2
  <2>6. u = fat'
    BY <2>2, <2>3
  <2> QED
    BY <1>6, <1>10, <1>11, <1>12, <2>2, <2>5, <2>6
<1>16. CASE size > 0 /\ first # 0 /\ need = m
  <2>1. /\ s_files' = [s_files EXCEPT ![fd] = Cut(fi, first, size)]
        /\ disk' = Held(disk) /\ fat' = fat
    BY <1>1, <1>4, <1>7, <1>8, <1>16 DEF TruncateDirect
  <2>2. c2 = chain
    BY <1>1, <1>4, <1>8, <1>16 DEF CutChain
  <2> QED
    BY <1>3, <1>6, <1>10, <1>11, <1>12, <2>1, <2>2
<1>17. size = 0 \/ first # 0
  BY <1>1 DEF TruncateDirect
<1> QED
  BY <1>4, <1>8, <1>13, <1>14, <1>15, <1>16, <1>17

-----------------------------------------------------------------------------
\* Some layout makes the state sound.
Sound == \E chain : Inv(chain)

LEMMA InitInv ==
    ASSUME Init, NEW chain, chain = [f \in Files |-> <<>>]
    PROVE  Inv(chain)
<1>1. /\ chain \in [Files -> Seq(Clusters)]
      /\ \A f \in Files : Len(chain[f]) = 0 /\ 1 .. Len(chain[f]) = {}
  OBVIOUS
<1>2. Layout(chain)
  BY <1>1 DEF Init, Layout, Laid, First
<1>3. 0 \in Sizes /\ 0 \in Fds /\ 0 \in Offsets /\ 0 \in AnyCluster /\ 0 \in 0 .. ClusterSectors
      /\ Eoc \in 0 .. Eoc /\ 0 \in 0 .. Eoc /\ 0 \in 0 .. MaxFiles
  BY Constants DEF Sizes, Fds, Offsets, AnyCluster, Eoc
<1>4. Closed \in Handles
  BY <1>3, EntryFacts DEF Closed, Handles, NoCopy, Entries
<1>5. TypeOK
  <2>1. /\ fat \in [AnyCluster -> 0 .. Eoc] /\ disk = {}
        /\ dir \in [Files -> Entries]
        /\ s_files \in [Fds -> Handles] /\ s_file_count \in 0 .. MaxFiles
        /\ s_free_fds \in Seq(Fds)
    BY <1>3, <1>4 DEF Init, Free, Entries
  <2>2. op \in [at : {"idle", "overflow", "write"}, fd : Fds, offset : Offsets, count : Sizes,
                done : Sizes, cluster : AnyCluster, index : 0 .. ClusterSectors]
    BY <1>3 DEF Init, NoOp
  <2>3. wanted \in [file : Files, offset : Offsets, size : [Files -> Sizes],
                    written : BOOLEAN, dropped : SUBSET Files]
    BY <1>3 DEF Init
  <2> QED
    BY <2>1, <2>2, <2>3 DEF TypeOK
<1>6. \A fd \in Fds : ~InUse(fd)
  BY DEF Init, InUse, Closed
<1>7. HandlesSound(chain) /\ WriterAlone
  BY <1>6 DEF HandlesSound, WriterAlone
<1>8. OpSound(chain)
  BY DEF Init, OpSound, NoOp
<1> QED
  BY <1>2, <1>5, <1>7, <1>8 DEF Inv, CInv

LEMMA InitSound == ASSUME Init PROVE Sound
<1>1. PICK chain : chain = [f \in Files |-> <<>>]
  OBVIOUS
<1> QED
  BY <1>1, InitInv DEF Sound

LEMMA UnchangedKeepsInv ==
    ASSUME NEW chain, Inv(chain), UNCHANGED vars
    PROVE  Inv(chain)'
<1>1. TypeOK' /\ Layout(chain)'
  BY LayoutSame DEF vars, Inv, CInv, TypeOK
<1>2. HandlesSound(chain)'
  <2>1. ASSUME NEW fd \in Fds, InUse(fd)' PROVE HandleSound(chain, s_files[fd])'
    BY <2>1 DEF Inv, CInv, HandlesSound, HandleSound, InUse, vars
  <2> QED
    BY <2>1 DEF HandlesSound
<1>3. WriterAlone'
  BY DEF Inv, CInv, WriterAlone, InUse, vars
<1>4. OpSound(chain)'
  BY DEF Inv, CInv, OpSound, InUse, vars, InChain
<1> QED
  BY <1>1, <1>2, <1>3, <1>4 DEF Inv, CInv

LEMMA CallKeepsSound ==
    ASSUME Plain, NEW chain, Inv(chain), Call
    PROVE  Sound'
<1>1. ASSUME NEW f \in Files, Open(f) \/ OpenWritable(f) \/ Create(f) \/ Unlink(f)
      PROVE  Sound'
  <2>1. CASE Open(f)
    BY <2>1, OpenKeepsInv DEF Sound
  <2>2. CASE OpenWritable(f)
    BY <2>2, OpenWritableKeepsInv DEF Sound
  <2>3. PICK c2 : c2 = [chain EXCEPT ![f] = <<>>]
    OBVIOUS
  <2>4. CASE Create(f)
    BY <2>3, <2>4, CreateKeepsInv DEF Sound
  <2>5. CASE Unlink(f)
    BY <2>3, <2>5, UnlinkKeepsInv DEF Sound
  <2> QED
    BY <1>1, <2>1, <2>2, <2>4, <2>5
<1>2. ASSUME NEW fd \in Fds, Fsync(fd) \/ Close(fd) PROVE Sound'
  <2>1. PICK c2, c3 : c2 = FlushChain(chain, s_files[fd]) /\ c3 = CloseChain(chain, s_files[fd])
    OBVIOUS
  <2>2. CASE Fsync(fd)
    BY <2>1, <2>2, FsyncKeepsInv DEF Sound
  <2>3. CASE Close(fd)
    BY <2>1, <2>3, CloseKeepsInv DEF Sound
  <2> QED
    BY <1>2, <2>2, <2>3
<1>3. ASSUME NEW fd \in Fds, NEW offset \in Offsets, NEW count \in 1 .. MaxSize,
             offset + count <= MaxSize,
             \/ Pread(fd, offset, count) \/ PwriteBuffered(fd, offset, count)
             \/ PwriteDirect(fd, offset, count) \/ PwriteOverflow(fd, offset, count)
      PROVE  Sound'
  <2>1. CASE Pread(fd, offset, count)
    BY <2>1, PreadKeepsInv DEF Sound
  <2>2. CASE PwriteBuffered(fd, offset, count)
    BY <1>3, <2>2, PwriteBufferedKeepsInv DEF Sound
  <2>3. CASE PwriteDirect(fd, offset, count)
    BY <1>3, <2>3, PwriteDirectKeepsInv DEF Sound
  <2>4. PICK c2 : c2 = FlushChain(chain, s_files[fd])
    OBVIOUS
  <2>5. CASE PwriteOverflow(fd, offset, count)
    BY <1>3, <2>4, <2>5, PwriteOverflowKeepsInv DEF Sound
  <2> QED
    BY <1>3, <2>1, <2>2, <2>3, <2>5
<1>4. ASSUME NEW fd \in Fds, NEW size \in Sizes,
             TruncateBuffered(fd, size) \/ TruncateDirect(fd, size)
      PROVE  Sound'
  <2>1. CASE TruncateBuffered(fd, size)
    BY <2>1, TruncateBufferedKeepsInv DEF Sound
  <2>2. PICK c2 : c2 = CutChain(chain, s_files[fd], size)
    OBVIOUS
  <2>3. CASE TruncateDirect(fd, size)
    BY <2>2, <2>3, TruncateDirectKeepsInv DEF Sound
  <2> QED
    BY <1>4, <2>1, <2>3
<1> QED
  BY <1>1, <1>2, <1>3, <1>4 DEF Call

LEMMA NextSound == ASSUME Plain, Sound, [Next]_vars PROVE Sound'
<1>1. PICK chain : Inv(chain)
  BY DEF Sound
<1>2. CASE Call
  BY <1>1, <1>2, CallKeepsSound
<1>3. CASE UNCHANGED vars
  BY <1>1, <1>3, UnchangedKeepsInv DEF Sound
<1>4. CASE PwriteOverflowDirect
  BY <1>1, <1>4, PwriteOverflowDirectKeepsInv DEF Sound
<1>5. CASE PwriteSector
  BY <1>1, <1>5, PwriteSectorKeepsInv DEF Sound
<1>6. CASE PwriteNextCluster
  BY <1>1, <1>6, PwriteNextClusterKeepsInv DEF Sound
<1>7. CASE PwriteExtend
  <2>1. PICK n, start : n = Batch(op.count - op.done) /\ start = BatchStart(op.cluster, n)
    OBVIOUS
  <2>2. PICK c2 : c2 = ExtendChain(chain, s_files[op.fd].file, start, n)
    OBVIOUS
  <2> QED
    BY <1>1, <1>7, <2>1, <2>2, PwriteExtendKeepsInv DEF Sound
<1>8. CASE PwriteFull
  BY <1>1, <1>8, PwriteFullKeepsInv DEF Sound
<1>9. CASE PwriteEnd
  BY <1>1, <1>9, PwriteEndKeepsInv DEF Sound
<1> QED
  BY <1>2, <1>3, <1>4, <1>5, <1>6, <1>7, <1>8, <1>9 DEF Next, Step

LEMMA SoundIsDisjoint == ASSUME Sound PROVE ChainsDisjoint
<1>1. PICK chain : Layout(chain)
  BY DEF Sound, Inv, CInv
<1>2. ASSUME NEW f \in Files, dir[f] # Absent
      PROVE  \A c \in ChainOf(dir[f].first) : fat[c] # Free /\ InChain(chain, f, c)
  <2>1. Len(chain[f]) \in Nat /\ dir[f].first = IF Len(chain[f]) = 0 THEN 0 ELSE chain[f][1]
    BY <1>1, <1>2, FirstIs, ChainFacts DEF Layout, First
  <2>2. CASE Len(chain[f]) = 0
    BY <2>1, <2>2, NoChain
  <2>3. CASE Len(chain[f]) # 0
    <3>1. 1 \in 1 .. Len(chain[f])
      BY <2>1, <2>3
    <3>2. ChainOf(dir[f].first) = {chain[f][j] : j \in 1 .. Len(chain[f])}
      <4>1. dir[f].first = chain[f][1]
        BY <2>1, <2>3
      <4>2. ChainOf(chain[f][1]) = {chain[f][j] : j \in 1 .. Len(chain[f])}
        BY <1>1, <3>1, ChainOfIs
      <4> QED
        BY <4>1, <4>2
    <3>3. \A j \in 1 .. Len(chain[f]) : fat[chain[f][j]] # Free
      BY <1>1, ChainNotFree DEF Layout
    <3> QED
      BY <3>2, <3>3 DEF InChain
  <2> QED
    BY <2>2, <2>3
<1>3. \A f, g \in Files : f # g => \A c : ~(InChain(chain, f, c) /\ InChain(chain, g, c))
  BY <1>1 DEF Layout, Laid, InChain
<1> QED
  BY <1>2, <1>3 DEF ChainsDisjoint

\* The calls of m65ftp_lib.c keep every variable in its type: positions stay in the
\* volume, sizes within the files, and the entries and the FAT are well-formed.
THEOREM TypeCorrect == Plain => (Spec => []TypeOK)
<1> SUFFICES ASSUME Plain PROVE Spec => []TypeOK
  OBVIOUS
<1>1. Init => Sound
  BY InitSound
<1>2. Sound /\ [Next]_vars => Sound'
  BY NextSound
<1>3. Sound => TypeOK
  BY DEF Sound, Inv
<1> QED
  BY <1>1, <1>2, <1>3, PTL DEF Spec

\* allocate_cluster(), chain_cluster(), deallocate_cluster(), m65ftp_ftruncate(): a
\* cluster belongs to one file at most, and none of a file's is free, whatever calls
\* are made on however many files and descriptors.
THEOREM ClustersBelong == Plain => (Spec => []ChainsDisjoint)
<1> SUFFICES ASSUME Plain PROVE Spec => []ChainsDisjoint
  OBVIOUS
<1>1. Init => Sound
  BY InitSound
<1>2. Sound /\ [Next]_vars => Sound'
  BY NextSound
<1>3. Sound => ChainsDisjoint
  BY SoundIsDisjoint
<1> QED
  BY <1>1, <1>2, <1>3, PTL DEF Spec

=============================================================================
