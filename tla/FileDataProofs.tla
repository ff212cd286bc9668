--------------------------- MODULE FileDataProofs ---------------------------
(***************************************************************************)
(* Where the data of files is in FileHandles, in plain use: what has been  *)
(* written lies where the entry and the chain say, pread() returns it, and *)
(* entries on the card are right.                                          *)
(*                                                                         *)
(* DInv adds to the layout of FileLayoutProofs what a state between two    *)
(* steps must know about data: where the positions are that descriptors    *)
(* and the write in progress remember, counted in sectors of the file;     *)
(* that entries and buffers have the size that the calls have made; and    *)
(* that the tracked chunk lies in its file's clusters.  At and Lies say    *)
(* this of the sequence of clusters, never of the FAT, so that a step has  *)
(* only to be followed in the file it concerns (OnlyFile).                 *)
(***************************************************************************)
EXTENDS FileLayoutProofs

SectorsFor(size) == (size + SectorChunks - 1) \div SectorChunks

\* Sector s of cluster c is the n-th sector of a file with clusters q.  A position at
\* the end of a cluster counts as one behind its last sector.
At(q, c, s, n) == \E p \in 1 .. Len(q) : q[p] = c /\ (p - 1) * ClusterSectors + s = n

\* Chunk k of a file with clusters q is among the places d.
Lies(q, k, d) ==
    k \div ClusterChunks < Len(q) /\ <<q[k \div ClusterChunks + 1], k % ClusterChunks>> \in d

\* The clusters q are enough for size chunks.
Holds(q, size) == size <= Len(q) * ClusterChunks

\* The positions of descriptor fi, whose file has clusters q: where a write left it,
\* and the cluster that a read goes on from.
PositionsSound(q, fi) ==
    ~fi.buffered /\ fi.first_cluster # 0 =>
        /\ fi.moved_by = "none" => fi.last_offset = 0
        /\ fi.moved_by = "pwrite" =>
              At(q, fi.write_cluster, fi.sector_in_cluster, SectorsFor(fi.last_offset))
        /\ fi.moved_by # "pwrite" =>
              /\ fi.current_cluster_idx < Len(q)
              /\ fi.current_cluster = q[fi.current_cluster_idx + 1]
              /\ fi.current_cluster_idx * ClusterChunks <= fi.last_offset

\* A buffer holds what has been written.
BufferSound(fi) ==
    fi.buffered =>
        /\ fi.file \notin wanted.dropped /\ fi.file_size = wanted.size[fi.file]
        /\ wanted.written /\ fi.file = wanted.file => fi.write_buf

Positions(chain) ==
    \A fd \in Fds : InUse(fd) =>
        PositionsSound(chain[s_files[fd].file], s_files[fd]) /\ BufferSound(s_files[fd])

\* The entry of a file that is in no buffer.
EntrySound(q, f) ==
    dir[f] # Absent /\ Buffering(f) = {} =>
        IF f \in wanted.dropped THEN dir[f].first = 0
        ELSE dir[f].size = wanted.size[f] /\ Holds(q, dir[f].size)

EntriesSound(chain) == \A f \in Files : EntrySound(chain[f], f)

\* The tracked chunk, once written.
TrackedSound(chain) ==
    wanted.written =>
        /\ wanted.offset < wanted.size[wanted.file] /\ wanted.file \notin wanted.dropped
        /\ dir[wanted.file] # Absent
        /\ Buffering(wanted.file) = {} => Lies(chain[wanted.file], wanted.offset, disk)

\* Where the write o is.
WriteAt(q, o) ==
    LET at == o.offset + o.done
    IN  /\ o.done < o.count => At(q, o.cluster, o.index, at \div SectorChunks)
        /\ o.done = o.count => At(q, o.cluster, o.index, SectorsFor(at))
        /\ 0 < o.done /\ o.done < o.count => at % SectorChunks = 0

WriteSound(chain) ==
    LET fi == s_files[op.fd] IN
    op.at # "idle" =>
        /\ op.offset <= fi.file_size
        /\ op.at = "overflow" => op.done = 0 /\ op.count > 0 /\ fi.moved_by = "none"
        /\ op.at = "write" =>
              /\ WriteAt(chain[fi.file], op)
              /\ fi.file = wanted.file /\ op.offset <= wanted.offset
                    /\ wanted.offset < op.offset + op.done
                    => Lies(chain[fi.file], wanted.offset, disk)

DataSound(chain) == Positions(chain) /\ EntriesSound(chain) /\ TrackedSound(chain)

DInv(chain) == DataSound(chain) /\ WriteSound(chain)

-----------------------------------------------------------------------------
\* Sectors, clusters and chunks.  Sector s of the cluster behind p others begins at
\* chunk (p * ClusterSectors + s) * SectorChunks of the file.
LEMMA ChunkOf ==
    ASSUME NEW p \in Nat, NEW s \in 0 .. ClusterSectors - 1, NEW w \in 0 .. SectorChunks - 1,
           NEW n, n = p * ClusterSectors + s, NEW k, k = SectorChunks * n + w
    PROVE  /\ k \in Nat /\ k \div ClusterChunks = p
           /\ k % ClusterChunks = s * SectorChunks + w
           /\ s * SectorChunks + w \in 0 .. ClusterChunks - 1
<1>1. /\ ClusterSectors \in Nat \ {0} /\ SectorChunks \in Nat \ {0}
      /\ ClusterChunks \in Nat \ {0} /\ ClusterChunks = SectorChunks * ClusterSectors
  BY Constants
<1>2. PICK r : r = s * SectorChunks + w
  OBVIOUS
<1>3. r \in 0 .. ClusterChunks - 1
  <2>1. SectorChunks * s + SectorChunks <= SectorChunks * ClusterSectors
    BY <1>1, Times
  <2>2. SectorChunks * s \in Nat /\ s * SectorChunks = SectorChunks * s
    BY <1>1
  <2> QED
    BY <1>1, <1>2, <2>1, <2>2
<1>4. k = ClusterChunks * p + r
  <2>1. SectorChunks * (p * ClusterSectors + s)
            = (SectorChunks * ClusterSectors) * p + s * SectorChunks
    BY <1>1
  <2> QED
    BY <1>1, <1>2, <2>1
<1>5. ClusterChunks * p \in Nat
  BY <1>1
<1> QED
  BY <1>1, <1>2, <1>3, <1>4, <1>5, DivisionUnique

\* What a position says of the chunk at offset k: it is in cluster c.
LEMMA Located ==
    ASSUME NEW q, Len(q) \in Nat, NEW c, NEW s \in 0 .. ClusterSectors - 1,
           NEW k \in Nat, At(q, c, s, k \div SectorChunks)
    PROVE  /\ k \div ClusterChunks \in 0 .. Len(q) - 1
           /\ q[k \div ClusterChunks + 1] = c
           /\ k % ClusterChunks = s * SectorChunks + (k % SectorChunks)
<1>1. PICK p \in 1 .. Len(q) : q[p] = c /\ (p - 1) * ClusterSectors + s = k \div SectorChunks
  BY DEF At
<1>2. PICK n, w : n = k \div SectorChunks /\ w = k % SectorChunks
  OBVIOUS
<1>3. n \in Nat /\ w \in 0 .. SectorChunks - 1 /\ k = SectorChunks * n + w
  BY <1>2, Constants, Division
<1>4. PICK o \in Nat : o = p - 1
  BY <1>1
<1>5. n = o * ClusterSectors + s
  BY <1>1, <1>2, <1>4
<1>6. k \div ClusterChunks = o /\ k % ClusterChunks = s * SectorChunks + w
  BY <1>3, <1>5, ChunkOf
<1>7. o \in 0 .. Len(q) - 1 /\ o + 1 = p
  BY <1>1, <1>4
<1> QED
  BY <1>1, <1>2, <1>6, <1>7

\* A chunk is determined by its cluster and its place in it.
LEMMA SameChunk ==
    ASSUME NEW k \in Nat, NEW j \in Nat, k \div ClusterChunks = j \div ClusterChunks,
           NEW i \in Int, k % ClusterChunks = (j % ClusterChunks) + i
    PROVE  k = j + i
<1>1. /\ k = ClusterChunks * (k \div ClusterChunks) + (k % ClusterChunks)
      /\ j = ClusterChunks * (j \div ClusterChunks) + (j % ClusterChunks)
  BY Constants, Division
<1>2. PICK a, x, y : /\ a = ClusterChunks * (k \div ClusterChunks)
                     /\ x = k % ClusterChunks /\ y = j % ClusterChunks
  OBVIOUS
<1>3. x \in Nat /\ y \in Nat /\ a \in Nat
  <2>1. /\ x \in 0 .. ClusterChunks - 1 /\ y \in 0 .. ClusterChunks - 1
        /\ k \div ClusterChunks \in Nat
    BY <1>2, Constants, Division
  <2> QED
    BY <1>2, <2>1, Constants
<1>4. k = a + x /\ j = a + y /\ x = y + i
  BY <1>1, <1>2
<1> QED
  BY <1>3, <1>4

\* The end of a write within or at the end of the sector where it began.
LEMMA SectorDone ==
    ASSUME NEW k \in Nat, NEW n \in Nat \ {0}, n <= SectorChunks - (k % SectorChunks)
    PROVE  /\ SectorsFor(k + n) = k \div SectorChunks + 1
           /\ n = SectorChunks - (k % SectorChunks) =>
                 /\ (k + n) % SectorChunks = 0
                 /\ (k + n) \div SectorChunks = k \div SectorChunks + 1
<1>1. PICK m, w : m = k \div SectorChunks /\ w = k % SectorChunks
  OBVIOUS
<1>2. /\ SectorChunks \in Nat \ {0} /\ m \in Nat /\ w \in 0 .. SectorChunks - 1
      /\ k = SectorChunks * m + w /\ SectorChunks * m \in Nat
  <2>1. SectorChunks \in Nat \ {0} /\ m \in Nat /\ w \in 0 .. SectorChunks - 1
        /\ k = SectorChunks * m + w
    BY <1>1, Constants, Division
  <2> QED
    BY <2>1
<1>3. SectorChunks * (m + 1) = SectorChunks * m + SectorChunks /\ m + 1 \in Nat
  BY <1>2
<1>4. SectorsFor(k + n) = m + 1
  <2>1. PICK r : r = w + n - 1
    OBVIOUS
  <2>2. r \in 0 .. SectorChunks - 1 /\ k + n + SectorChunks - 1 = SectorChunks * (m + 1) + r
    BY <1>1, <1>2, <1>3, <2>1
  <2>3. (SectorChunks * (m + 1) + r) \div SectorChunks = m + 1
    BY <1>2, <1>3, <2>2, DivisionUnique
  <2> QED
    BY <2>2, <2>3 DEF SectorsFor
<1>5. ASSUME n = SectorChunks - w
      PROVE  (k + n) % SectorChunks = 0 /\ (k + n) \div SectorChunks = m + 1
  <2>1. k + n = SectorChunks * (m + 1) + 0 /\ 0 \in 0 .. SectorChunks - 1
    BY <1>2, <1>3, <1>5
  <2> QED
    BY <1>2, <1>3, <2>1, DivisionUnique
<1> QED
  BY <1>1, <1>4, <1>5

\* Whole sectors.
LEMMA WholeSectors ==
    ASSUME NEW k \in Nat, k % SectorChunks = 0
    PROVE  SectorsFor(k) = k \div SectorChunks
<1>1. PICK m : m = k \div SectorChunks
  OBVIOUS
<1>2. SectorChunks \in Nat \ {0} /\ m \in Nat /\ k = SectorChunks * m /\ SectorChunks * m \in Nat
  BY <1>1, Constants, Division
<1>3. k + SectorChunks - 1 = SectorChunks * m + (SectorChunks - 1)
      /\ SectorChunks - 1 \in 0 .. SectorChunks - 1
  BY <1>2
<1>4. (SectorChunks * m + (SectorChunks - 1)) \div SectorChunks = m
  BY <1>2, <1>3, DivisionUnique
<1> QED
  BY <1>1, <1>3, <1>4 DEF SectorsFor

-----------------------------------------------------------------------------
\* No cluster is in two places.
Apart(chain) ==
    /\ chain \in [Files -> Seq(Clusters)]
    /\ \A f, g \in Files : \A i \in 1 .. Len(chain[f]), j \in 1 .. Len(chain[g]) :
          chain[f][i] = chain[g][j] => f = g /\ i = j

\* What WriteChunks does with sector s of cluster c, where the next chunk of the file
\* is due: later places of the write are right, too, and the tracked chunk is where it
\* was before or, when it is written, where it belongs.
LEMMA ChunksWritten ==
    ASSUME TypeOK, op.at = "write", op.done < op.count, op.offset + op.count <= MaxSize,
           NEW c \in Clusters, NEW s \in 0 .. ClusterSectors - 1, WriteChunks(c, s),
           NEW at, at = op.offset + op.done,
           NEW c2, Apart(c2), NEW f \in Files, f = s_files[op.fd].file,
           At(c2[f], c, s, at \div SectorChunks)
    PROVE  /\ WriteAt(c2[f], op')
           /\ Lies(c2[wanted.file], wanted.offset, disk) =>
                 Lies(c2[wanted.file], wanted.offset, disk')
           /\ f = wanted.file /\ at <= wanted.offset
                 /\ wanted.offset < op'.offset + op'.done =>
                 Lies(c2[f], wanted.offset, disk')
<1>1. PICK n : n = Smaller(SectorChunks - (at % SectorChunks), op.count - op.done)
  OBVIOUS
<1>2. /\ op'.offset = op.offset /\ op'.count = op.count /\ op'.cluster = c /\ op'.index = s + 1
      /\ op'.done = op.done + n /\ n \in Nat \ {0} /\ op.done + n <= op.count /\ at \in Nat
  BY <1>1, WriteChunksIs
<1>3. op.offset \in Nat /\ op.done \in Nat /\ op.count \in Nat
  <2>1. op.offset \in Offsets /\ op.done \in Sizes /\ op.count \in Sizes
    BY DEF TypeOK
  <2> QED
    BY <2>1, Constants DEF Offsets, Sizes
<1>4. PICK w : w = at % SectorChunks
  OBVIOUS
<1>5. w \in 0 .. SectorChunks - 1 /\ SectorChunks \in Nat \ {0}
  BY <1>2, <1>4, Constants, Division
<1>6. n <= SectorChunks - w /\ (op.done + n < op.count => n = SectorChunks - w)
  BY <1>1, <1>3, <1>4, <1>5 DEF Smaller
<1>7. PICK q : q = c2[f]
  OBVIOUS
<1>8. q \in Seq(Clusters) /\ Len(q) \in Nat /\ \A i \in 1 .. Len(q) : q[i] \in Clusters
  BY <1>7, LenProperties, ElementOfSeq DEF Apart
<1>9. WriteAt(c2[f], op')
  <2>1. op'.offset + op'.done = at + n
    BY <1>2, <1>3
  <2>2. /\ SectorsFor(at + n) = at \div SectorChunks + 1
        /\ n = SectorChunks - w => /\ (at + n) % SectorChunks = 0
                                   /\ (at + n) \div SectorChunks = at \div SectorChunks + 1
    BY <1>2, <1>4, <1>6, SectorDone
  <2>3. At(q, c, s + 1, at \div SectorChunks + 1)
    <3>1. PICK p \in 1 .. Len(q) :
              q[p] = c /\ (p - 1) * ClusterSectors + s = at \div SectorChunks
      BY <1>7 DEF At
    <3>2. (p - 1) * ClusterSectors \in Int
      BY <3>1, Constants
    <3>3. (p - 1) * ClusterSectors + (s + 1) = at \div SectorChunks + 1
      BY <3>1, <3>2
    <3> QED
      BY <3>1, <3>3 DEF At
  <2>4. op'.done < op'.count => n = SectorChunks - w
    BY <1>2, <1>6
  <2> QED
    BY <1>2, <1>7, <2>1, <2>2, <2>3, <2>4 DEF WriteAt
<1>10. /\ at \div ClusterChunks \in 0 .. Len(q) - 1 /\ q[at \div ClusterChunks + 1] = c
       /\ at % ClusterChunks = s * SectorChunks + w
  BY <1>2, <1>4, <1>7, <1>8, Located
<1>11. PICK slot, k : slot = s * SectorChunks + w /\ k = wanted.offset
  OBVIOUS
<1>12. k \in Nat /\ slot \in Nat /\ slot + n <= ClusterChunks /\ c \in Nat
  <2>1. k \in Offsets
    BY <1>11 DEF TypeOK
  <2>2. SectorChunks * s + SectorChunks <= SectorChunks * ClusterSectors
        /\ SectorChunks * s \in Nat /\ s * SectorChunks = SectorChunks * s
    BY Constants, Times
  <2>3. ClusterChunks = SectorChunks * ClusterSectors /\ ClusterChunks \in Nat
    BY Constants
  <2>4. MaxSize \in Nat /\ Clusters \subseteq Nat
    BY Constants, ClusterFacts
  <2> QED
    BY <1>2, <1>5, <1>6, <1>11, <2>1, <2>2, <2>3, <2>4 DEF Offsets
<1>13. \A i \in 0 .. n - 1 : Place(c, slot + i) = <<c, slot + i>>
  <2>1. \A i \in 0 .. n - 1 : slot + i \in 0 .. ClusterChunks - 1
    BY <1>2, <1>12, Constants
  <2> QED
    BY <1>12, <2>1, PlaceInCluster
\* The place of a chunk that this step writes.
<1>14. ASSUME k \in at .. at + n - 1
       PROVE  k \div ClusterChunks < Len(q)
              /\ <<q[k \div ClusterChunks + 1], k % ClusterChunks>> = Place(c, slot + k - at)
  <2>1. PICK i \in 0 .. n - 1 : k = at + i
    <3>1. k - at \in 0 .. n - 1 /\ k = at + (k - at)
      BY <1>2, <1>12, <1>14
    <3> QED
      BY <3>1
  <2>2. PICK a : a = at \div ClusterChunks
    OBVIOUS
  <2>3. at = ClusterChunks * a + slot /\ a \in Nat /\ slot + i \in 0 .. ClusterChunks - 1
    <3>1. at = ClusterChunks * (at \div ClusterChunks) + (at % ClusterChunks)
          /\ at \div ClusterChunks \in Nat
      BY <1>2, Constants, Division
    <3>2. at % ClusterChunks = slot
      BY <1>10, <1>11
    <3>3. slot + i \in 0 .. ClusterChunks - 1
      BY <1>2, <1>12, Constants
    <3> QED
      BY <2>2, <3>1, <3>2, <3>3
  <2>4. ClusterChunks * a \in Nat
    BY <2>3, Constants
  <2>5. k = ClusterChunks * a + (slot + i)
    BY <1>12, <2>1, <2>3, <2>4
  <2>6. k \div ClusterChunks = a /\ k % ClusterChunks = slot + i
    BY <2>3, <2>5, Constants, DivisionUnique
  <2>7. slot + k - at = slot + i
    BY <1>2, <1>12, <2>1
  <2>8. a < Len(q)
    BY <1>8, <1>10, <2>2
  <2> QED
    BY <1>10, <1>13, <2>2, <2>6, <2>7, <2>8
<1>15. CASE Outdated(f, at .. at + n - 1)
  <2>1. f = wanted.file /\ k \in at .. at + n - 1
    BY <1>11, <1>15 DEF Outdated
  <2>2. disk' = {Place(c, slot + k - at)}
    BY <1>1, <1>4, <1>11, <1>15 DEF WriteChunks
  <2>3. Lies(q, k, disk')
    BY <1>14, <2>1, <2>2 DEF Lies
  <2> QED
    BY <1>7, <1>9, <1>11, <2>1, <2>3
<1>16. CASE ~Outdated(f, at .. at + n - 1)
  <2>1. disk' = disk \ Places(c, slot .. slot + n - 1)
    BY <1>1, <1>4, <1>11, <1>16 DEF WriteChunks
  <2>2. ~(f = wanted.file /\ at <= k /\ k < op'.offset + op'.done)
    <3>1. ~(f = wanted.file /\ k \in at .. at + n - 1)
      BY <1>11, <1>16 DEF Outdated
    <3>2. at <= k /\ k < op'.offset + op'.done => k \in at .. at + n - 1
      BY <1>2, <1>3, <1>12
    <3> QED
      BY <3>1, <3>2
  <2>3. ASSUME Lies(c2[wanted.file], k, disk)
        PROVE  Lies(c2[wanted.file], k, disk')
    <3>1. PICK g, r, a, x : /\ g = wanted.file /\ r = c2[g]
                            /\ a = k \div ClusterChunks /\ x = k % ClusterChunks
      OBVIOUS
    <3>2. g \in Files /\ Len(r) \in Nat /\ a \in Nat /\ x \in 0 .. ClusterChunks - 1
      <4>1. g \in Files
        BY <3>1 DEF TypeOK
      <4>2. r \in Seq(Clusters)
        BY <3>1, <4>1 DEF Apart
      <4> QED
        BY <1>12, <3>1, <4>1, <4>2, LenProperties, Constants, Division
    <3>3. a < Len(r) /\ <<r[a + 1], x>> \in disk
      BY <2>3, <3>1 DEF Lies
    <3>4. <<r[a + 1], x>> \notin Places(c, slot .. slot + n - 1)
      <4> SUFFICES ASSUME <<r[a + 1], x>> \in Places(c, slot .. slot + n - 1) PROVE FALSE
        OBVIOUS
      <4>1. PICK j \in slot .. slot + n - 1 : <<r[a + 1], x>> = Place(c, j)
        BY DEF Places
      <4>2. PICK i \in 0 .. n - 1 : j = slot + i
        <5>1. j - slot \in 0 .. n - 1 /\ j = slot + (j - slot)
          BY <1>2, <1>12
        <5> QED
          BY <5>1
      <4>3. r[a + 1] = c /\ x = slot + i
        BY <1>13, <4>1, <4>2
      <4>4. PICK b \in 0 .. Len(q) - 1 : b = at \div ClusterChunks /\ q[b + 1] = c
        BY <1>10
      <4>5. a + 1 \in 1 .. Len(r) /\ b + 1 \in 1 .. Len(q)
        BY <1>8, <3>2, <3>3
      <4>6. g = f /\ a + 1 = b + 1
        <5>1. \A i2 \in 1 .. Len(r), j2 \in 1 .. Len(q) : r[i2] = q[j2] => g = f /\ i2 = j2
          <6>1. \A i2 \in 1 .. Len(c2[g]), j2 \in 1 .. Len(c2[f]) :
                    c2[g][i2] = c2[f][j2] => g = f /\ i2 = j2
            BY <3>2 DEF Apart
          <6> QED
            BY <1>7, <3>1, <6>1
        <5>2. r[a + 1] = q[b + 1]
          BY <4>3, <4>4
        <5> QED
          BY <4>5, <5>1, <5>2
      <4>7. k \div ClusterChunks = at \div ClusterChunks
        BY <3>1, <3>2, <4>4, <4>6
      <4>8. k % ClusterChunks = (at % ClusterChunks) + i /\ i \in Int
        BY <1>10, <1>11, <3>1, <4>3
      <4>9. k = at + i
        BY <1>2, <1>12, <4>7, <4>8, SameChunk
      <4>10. k \in at .. at + n - 1
        BY <1>2, <1>12, <4>9
      <4> QED
        BY <1>11, <1>16, <3>1, <4>6, <4>10 DEF Outdated
    <3> QED
      BY <2>1, <3>1, <3>3, <3>4 DEF Lies
  <2> QED
    BY <1>7, <1>9, <1>11, <2>2, <2>3
<1> QED
  BY <1>15, <1>16

-----------------------------------------------------------------------------
\* A step that concerns file f, whose clusters become c2[f]: the clusters, the entries
\* and the data of all others stay.
OnlyFile(chain, c2, f) ==
    /\ f \in Files /\ wanted'.file = wanted.file /\ wanted'.offset = wanted.offset
    /\ \A g \in Files \ {f} :
          /\ c2[g] = chain[g] /\ dir'[g] = dir[g] /\ wanted'.size[g] = wanted.size[g]
          /\ g \in wanted'.dropped <=> g \in wanted.dropped
    /\ wanted.file # f /\ wanted'.written =>
          /\ wanted.written
          /\ Lies(chain[wanted.file], wanted.offset, disk) =>
                Lies(chain[wanted.file], wanted.offset, disk')

OthersStay(f) ==
    \A d \in Fds :
        /\ InUse(d)' /\ s_files'[d].file # f => InUse(d) /\ s_files'[d] = s_files[d]
        /\ InUse(d) /\ s_files[d].file # f => InUse(d)' /\ s_files'[d] = s_files[d]

\* What the step has to do for f itself.
FileSettled(c2, f) ==
    /\ \A d \in Fds : InUse(d)' /\ s_files'[d].file = f =>
          PositionsSound(c2[f], s_files'[d]) /\ BufferSound(s_files[d])'
    /\ EntrySound(c2[f], f)'
    /\ wanted.file = f /\ wanted'.written =>
          /\ wanted.offset < wanted'.size[f] /\ f \notin wanted'.dropped /\ dir'[f] # Absent
          /\ Buffering(f)' = {} => Lies(c2[f], wanted.offset, disk')

LEMMA FileStep ==
    ASSUME NEW chain, NEW c2, NEW f, Inv(chain), DataSound(chain),
           OnlyFile(chain, c2, f), OthersStay(f), FileSettled(c2, f)
    PROVE  DataSound(c2)'
<1>1. \A g \in Files \ {f} : Buffering(g)' = Buffering(g)
  <2> SUFFICES ASSUME NEW g \in Files \ {f} PROVE Buffering(g)' = Buffering(g)
    OBVIOUS
  <2>1. \A d \in Fds : InUse(d)' /\ s_files'[d].file = g => InUse(d) /\ s_files'[d] = s_files[d]
    BY DEF OthersStay
  <2>2. \A d \in Fds : InUse(d) /\ s_files[d].file = g => InUse(d)' /\ s_files'[d] = s_files[d]
    BY DEF OthersStay
  <2> QED
    BY <2>1, <2>2 DEF Buffering, Readers
<1>2. ASSUME NEW d \in Fds, InUse(d)', s_files'[d].file # f
      PROVE  PositionsSound(c2[s_files'[d].file], s_files'[d]) /\ BufferSound(s_files[d])'
  <2>1. InUse(d) /\ s_files'[d] = s_files[d]
    BY <1>2 DEF OthersStay
  <2>2. PICK h, g : h = s_files[d] /\ g = h.file
    OBVIOUS
  <2>3. PositionsSound(chain[g], h) /\ BufferSound(h)
    BY <2>1, <2>2 DEF DataSound, Positions
  <2>4. g \in Files \ {f}
    BY <1>2, <2>1, <2>2 DEF Inv, CInv, HandlesSound, HandleSound
  <2>5. c2[g] = chain[g]
    BY <2>4 DEF OnlyFile
  <2>6. BufferSound(h)'
    <3>1. wanted'.size[g] = wanted.size[g] /\ (g \in wanted'.dropped <=> g \in wanted.dropped)
          /\ wanted'.file = wanted.file
      BY <2>4 DEF OnlyFile
    <3>2. wanted.file = g /\ wanted'.written => wanted.written
      BY <2>4 DEF OnlyFile
    <3> QED
      BY <2>2, <2>3, <3>1, <3>2 DEF BufferSound
  <2>7. BufferSound(s_files[d])'
    BY <2>1, <2>2, <2>6 DEF BufferSound
  <2> QED
    BY <2>1, <2>2, <2>3, <2>5, <2>7
<1>3. Positions(c2)'
  <2>1. ASSUME NEW d \in Fds, InUse(d)'
        PROVE  PositionsSound(c2[s_files'[d].file], s_files'[d]) /\ BufferSound(s_files[d])'
    <3>1. CASE s_files'[d].file = f
      BY <2>1, <3>1 DEF FileSettled
    <3>2. CASE s_files'[d].file # f
      BY <2>1, <3>2, <1>2
    <3> QED
      BY <3>1, <3>2
  <2> QED
    BY <2>1 DEF Positions, PositionsSound
<1>4. ASSUME NEW g \in Files \ {f}
      PROVE  EntrySound(c2[g], g)'
  <2>1. EntrySound(chain[g], g) /\ Buffering(g)' = Buffering(g)
    BY <1>1, <1>4 DEF DataSound, EntriesSound
  <2>2. /\ c2[g] = chain[g] /\ dir'[g] = dir[g] /\ wanted'.size[g] = wanted.size[g]
        /\ g \in wanted'.dropped <=> g \in wanted.dropped
    BY <1>4 DEF OnlyFile
  <2> QED
    BY <2>1, <2>2 DEF EntrySound, Holds
<1>5. EntriesSound(c2)'
  <2>1. EntrySound(c2[f], f)'
    BY DEF FileSettled
  <2> QED
    BY <1>4, <2>1 DEF EntriesSound, EntrySound, Holds
<1>6. TrackedSound(c2)'
  <2> SUFFICES ASSUME wanted'.written PROVE TrackedSound(c2)'
    BY DEF TrackedSound
  <2>1. PICK g, k : g = wanted.file /\ k = wanted.offset
    OBVIOUS
  <2>2. g \in Files /\ wanted'.file = g /\ wanted'.offset = k
    BY <2>1 DEF OnlyFile, Inv, TypeOK
  <2>3. CASE g = f
    BY <2>1, <2>2, <2>3 DEF FileSettled, TrackedSound, Lies
  <2>4. CASE g # f
    <3>1. /\ k < wanted.size[g] /\ g \notin wanted.dropped /\ dir[g] # Absent
          /\ Buffering(g) = {} => Lies(chain[g], k, disk')
      BY <2>1, <2>4 DEF OnlyFile, DataSound, TrackedSound
    <3>2. /\ c2[g] = chain[g] /\ dir'[g] = dir[g] /\ wanted'.size[g] = wanted.size[g]
          /\ g \in wanted'.dropped <=> g \in wanted.dropped
      BY <2>2, <2>4 DEF OnlyFile
    <3>3. Buffering(g)' = Buffering(g)
      BY <1>1, <2>2, <2>4
    <3> QED
      BY <2>2, <3>1, <3>2, <3>3 DEF TrackedSound, Lies
  <2> QED
    BY <2>3, <2>4
<1> QED
  BY <1>3, <1>5, <1>6 DEF DataSound

-----------------------------------------------------------------------------
\* The step of the writer fd, which is alone with its file; r is left of it.
WriterMoves(chain, c2, fd, f, r) ==
    /\ InUse(fd) /\ s_files[fd].is_writable /\ f = s_files[fd].file
    /\ s_files' = [s_files EXCEPT ![fd] = r] /\ s_file_count' = s_file_count
    /\ OnlyFile(chain, c2, f)
    /\ r.in_use => r.file = f /\ PositionsSound(c2[f], r) /\ BufferSound(r)'
    /\ \/ r.in_use /\ r.buffered
       \/ f \in wanted'.dropped /\ dir'[f].first = 0
       \/ f \notin wanted'.dropped /\ dir'[f].size = wanted'.size[f] /\ Holds(c2[f], dir'[f].size)
    /\ wanted.file = f /\ wanted'.written =>
          /\ wanted.offset < wanted'.size[f] /\ f \notin wanted'.dropped /\ dir'[f] # Absent
          /\ (r.in_use /\ r.buffered) \/ Lies(c2[f], wanted.offset, disk')

LEMMA WriterStepData ==
    ASSUME NEW chain, NEW c2, Inv(chain), DataSound(chain), NEW fd \in Fds, NEW f, NEW r,
           WriterMoves(chain, c2, fd, f, r)
    PROVE  DataSound(c2)'
<1>1. s_files'[fd] = r /\ \A d \in Fds \ {fd} : s_files'[d] = s_files[d] /\ InUse(d)' = InUse(d)
  BY DEF WriterMoves, InUse, Inv, TypeOK
<1>2. \A d \in Fds \ {fd} : InUse(d) => s_files[d].file # f
  BY DEF WriterMoves, Inv, CInv, WriterAlone
<1>3. InUse(fd)' <=> r.in_use
  BY <1>1 DEF WriterMoves, InUse
<1>4. OthersStay(f)
  <2> SUFFICES ASSUME NEW d \in Fds
               PROVE  /\ InUse(d)' /\ s_files'[d].file # f => InUse(d) /\ s_files'[d] = s_files[d]
                      /\ InUse(d) /\ s_files[d].file # f => InUse(d)' /\ s_files'[d] = s_files[d]
    BY DEF OthersStay
  <2>1. CASE d = fd
    BY <1>1, <1>3, <2>1 DEF WriterMoves
  <2>2. CASE d # fd
    BY <1>1, <2>2
  <2> QED
    BY <2>1, <2>2
<1>5. ASSUME NEW d \in Fds, InUse(d)', s_files'[d].file = f
      PROVE  d = fd /\ r.in_use
  BY <1>1, <1>2, <1>3, <1>5
<1>6. r.in_use /\ r.buffered => Buffering(f)' # {}
  <2> SUFFICES ASSUME r.in_use, r.buffered PROVE fd \in Buffering(f)'
    OBVIOUS
  <2>1. InUse(fd)' /\ s_files'[fd].file = f /\ s_files'[fd].buffered
    BY <1>1, <1>3 DEF WriterMoves
  <2> QED
    BY <2>1 DEF Buffering, Readers
<1>7. ASSUME NEW d \in Fds, InUse(d)', s_files'[d].file = f
      PROVE  PositionsSound(c2[f], s_files'[d]) /\ BufferSound(s_files[d])'
  <2>1. s_files'[d] = r /\ PositionsSound(c2[f], r) /\ BufferSound(r)'
    BY <1>1, <1>5, <1>7 DEF WriterMoves
  <2> QED
    BY <2>1 DEF BufferSound
<1>8. EntrySound(c2[f], f)'
  BY <1>6 DEF WriterMoves, EntrySound, Holds
<1>9. FileSettled(c2, f)
  <2>1. wanted.file = f /\ wanted'.written =>
          /\ wanted.offset < wanted'.size[f] /\ f \notin wanted'.dropped /\ dir'[f] # Absent
          /\ Buffering(f)' = {} => Lies(c2[f], wanted.offset, disk')
    BY <1>6 DEF WriterMoves
  <2> QED
    BY <1>7, <1>8, <2>1 DEF FileSettled
<1>10. OnlyFile(chain, c2, f)
  BY DEF WriterMoves
<1> QED
  BY <1>4, <1>9, <1>10, FileStep

\* A step that changes one descriptor, which has no buffer, and nothing else.
QuietMove(chain, fd, r) ==
    /\ s_files' = [s_files EXCEPT ![fd] = r]
    /\ UNCHANGED <<dir, disk, wanted>>
    /\ InUse(fd) => ~s_files[fd].buffered
    /\ \A d \in Fds \ {fd} : d < s_file_count' <=> d < s_file_count
    /\ r.in_use => ~r.buffered /\ PositionsSound(chain[r.file], r)

LEMMA QuietStepData ==
    ASSUME NEW chain, Inv(chain), DataSound(chain), NEW fd \in Fds, NEW r,
           QuietMove(chain, fd, r)
    PROVE  DataSound(chain)'
<1>1. s_files'[fd] = r /\ \A d \in Fds \ {fd} : s_files'[d] = s_files[d] /\ (InUse(d)' <=> InUse(d))
  BY DEF QuietMove, InUse, Inv, TypeOK
<1>2. InUse(fd)' => r.in_use
  BY <1>1 DEF InUse
<1>3. \A g \in Files : Buffering(g)' = Buffering(g)
  <2> SUFFICES ASSUME NEW g \in Files, NEW d \in Fds
               PROVE  d \in Buffering(g)' <=> d \in Buffering(g)
    BY DEF Buffering, Readers
  <2>1. CASE d = fd
    BY <1>1, <1>2, <2>1 DEF Buffering, Readers, QuietMove
  <2>2. CASE d # fd
    BY <1>1, <2>2 DEF Buffering, Readers
  <2> QED
    BY <2>1, <2>2
<1>4. ASSUME NEW d \in Fds, InUse(d)'
      PROVE  PositionsSound(chain[s_files'[d].file], s_files'[d]) /\ BufferSound(s_files[d])'
  <2>1. CASE d = fd
    BY <1>1, <1>2, <1>4, <2>1 DEF QuietMove, BufferSound
  <2>2. CASE d # fd
    <3>1. InUse(d) /\ s_files'[d] = s_files[d]
      BY <1>1, <1>4, <2>2
    <3>2. PositionsSound(chain[s_files[d].file], s_files[d]) /\ BufferSound(s_files[d])
      BY <3>1 DEF DataSound, Positions
    <3> QED
      BY <3>1, <3>2 DEF QuietMove, BufferSound
  <2> QED
    BY <2>1, <2>2
<1>5. Positions(chain)'
  BY <1>4 DEF Positions, PositionsSound
<1>6. EntriesSound(chain)'
  BY <1>3 DEF DataSound, EntriesSound, EntrySound, QuietMove
<1>7. TrackedSound(chain)'
  <2>1. wanted.file \in Files
    BY DEF Inv, TypeOK
  <2> QED
    BY <1>3, <2>1 DEF DataSound, TrackedSound, QuietMove
<1> QED
  BY <1>5, <1>6, <1>7 DEF DataSound

\* A descriptor that is handed out was not in use.
LEMMA NewFd ==
    ASSUME TypeOK, FdSound, NEW fd \in Fds, AllocFd(fd)
    PROVE  /\ ~InUse(fd)
           /\ \A d \in Fds \ {fd} : d < s_file_count' <=> d < s_file_count
<1>1. Fds \subseteq Nat /\ s_file_count \in Nat
  BY Constants DEF TypeOK, Fds
<1>2. CASE s_free_fds # <<>>
  <2>1. fd = s_free_fds[Len(s_free_fds)] /\ s_file_count' = s_file_count
    BY <1>2 DEF AllocFd
  <2>2. Len(s_free_fds) \in 1 .. Len(s_free_fds)
    BY <1>2, LenProperties, EmptySeq DEF TypeOK
  <2> QED
    BY <2>1, <2>2 DEF FdSound, InUse
<1>3. CASE s_free_fds = <<>>
  <2>1. fd = s_file_count /\ s_file_count' = s_file_count + 1
    BY <1>3 DEF AllocFd
  <2> QED
    BY <1>1, <2>1 DEF InUse
<1> QED
  BY <1>2, <1>3

-----------------------------------------------------------------------------
LEMMA IdleWrite ==
    ASSUME NEW c2, op'.at = "idle"
    PROVE  WriteSound(c2)'
BY DEF WriteSound

\* A descriptor at the start of its file.
LEMMA StartSound ==
    ASSUME NEW q, NEW r, Len(q) \in Nat, r.first_cluster = IF Len(q) = 0 THEN 0 ELSE q[1],
           r.current_cluster = r.first_cluster, r.current_cluster_idx = 0,
           r.last_offset = 0, r.moved_by = "none"
    PROVE  PositionsSound(q, r)
BY Constants DEF PositionsSound

LEMMA OpenKeepsData ==
    ASSUME NEW chain, Inv(chain), FdSound, DInv(chain), NEW f \in Files, Open(f)
    PROVE  DInv(chain)'
<1>1. PICK fd \in Fds :
          AllocFd(fd) /\ s_files' = [s_files EXCEPT ![fd] = Opened(f, dir[f])]
  BY DEF Open
<1>2. PICK r : r = Opened(f, dir[f])
  OBVIOUS
<1>3. dir[f] \in Entries \ {Absent} /\ dir[f] # Absent
  BY EntryTyped DEF Inv, Open
<1>4. /\ r.file = f /\ ~r.buffered /\ r.first_cluster = dir[f].first
      /\ r.current_cluster = dir[f].first /\ r.current_cluster_idx = 0 /\ r.last_offset = 0
      /\ r.moved_by = "none"
  <2>1. r = [Closed EXCEPT !.in_use = TRUE, !.file = f, !.first_cluster = dir[f].first,
                           !.file_size = dir[f].size, !.current_cluster = dir[f].first]
    BY <1>2, <1>3, OpenedIs
  <2> QED
    BY <2>1 DEF Closed
<1>5. PositionsSound(chain[f], r)
  <2>1. dir[f].first = IF Len(chain[f]) = 0 THEN 0 ELSE chain[f][1]
    BY <1>3, FirstIs DEF Inv, CInv, First
  <2>2. Len(chain[f]) \in Nat
    BY ChainFacts DEF Inv, CInv, Layout
  <2> QED
    BY <1>4, <2>1, <2>2, StartSound
<1>6. QuietMove(chain, fd, r)
  BY <1>1, <1>2, <1>4, <1>5, NewFd DEF Open, QuietMove, Inv
<1>7. op' = op /\ op.at = "idle"
  BY DEF Open, Idle
<1> QED
  BY <1>6, <1>7, QuietStepData, IdleWrite DEF DInv

LEMMA OpenWritableKeepsData ==
    ASSUME NEW chain, Inv(chain), FdSound, DInv(chain), NEW f \in Files, OpenWritable(f)
    PROVE  DInv(chain)'
<1>1. PICK fd \in Fds :
          /\ AllocFd(fd)
          /\ s_files' = [s_files EXCEPT ![fd] =
                [Opened(f, dir[f]) EXCEPT !.is_writable = TRUE, !.dir_sector_buf = dir,
                                          !.write_cluster = dir[f].first]]
  BY DEF OpenWritable
<1>2. PICK o, r : /\ o = Opened(f, dir[f])
                  /\ r = [o EXCEPT !.is_writable = TRUE, !.dir_sector_buf = dir,
                                   !.write_cluster = dir[f].first]
  OBVIOUS
<1>3. dir[f] \in Entries \ {Absent} /\ dir[f] # Absent
  BY EntryTyped DEF Inv, OpenWritable
<1>4. /\ r.file = f /\ ~r.buffered /\ r.first_cluster = dir[f].first
      /\ r.current_cluster = dir[f].first /\ r.current_cluster_idx = 0 /\ r.last_offset = 0
      /\ r.moved_by = "none"
  <2>1. o = [Closed EXCEPT !.in_use = TRUE, !.file = f, !.first_cluster = dir[f].first,
                           !.file_size = dir[f].size, !.current_cluster = dir[f].first]
    BY <1>2, <1>3, OpenedIs
  <2>2. /\ o.file = f /\ ~o.buffered /\ o.first_cluster = dir[f].first
        /\ o.current_cluster = dir[f].first /\ o.current_cluster_idx = 0 /\ o.last_offset = 0
        /\ o.moved_by = "none"
    BY <2>1 DEF Closed
  <2> QED
    BY <1>2, <2>2
<1>5. PositionsSound(chain[f], r)
  <2>1. dir[f].first = IF Len(chain[f]) = 0 THEN 0 ELSE chain[f][1]
    BY <1>3, FirstIs DEF Inv, CInv, First
  <2>2. Len(chain[f]) \in Nat
    BY ChainFacts DEF Inv, CInv, Layout
  <2> QED
    BY <1>4, <2>1, <2>2, StartSound
<1>6. QuietMove(chain, fd, r)
  BY <1>1, <1>2, <1>4, <1>5, NewFd DEF OpenWritable, QuietMove, Inv
<1>7. op' = op /\ op.at = "idle"
  BY DEF OpenWritable, Idle
<1> QED
  BY <1>6, <1>7, QuietStepData, IdleWrite DEF DInv

-----------------------------------------------------------------------------
\* What a descriptor without a buffer says of its file f, which has clusters q.
OnCard(q, fi, f) ==
    /\ f \in Files /\ Buffering(f) = {} /\ dir[f] # Absent
    /\ dir[f] = [first |-> fi.first_cluster, size |-> fi.file_size]
    /\ Len(q) \in Nat /\ fi.first_cluster = IF Len(q) = 0 THEN 0 ELSE q[1]
    /\ f \in wanted.dropped => fi.first_cluster = 0
    /\ f \notin wanted.dropped =>
          fi.file_size = wanted.size[f] /\ Holds(q, fi.file_size)
    /\ PositionsSound(q, fi)
    /\ wanted.written /\ f = wanted.file => Lies(q, wanted.offset, disk)

LEMMA FileOnCard ==
    ASSUME NEW chain, Inv(chain), DataSound(chain), NEW fd \in Fds, InUse(fd),
           NEW fi, fi = s_files[fd], ~fi.buffered, NEW f, f = fi.file
    PROVE  OnCard(chain[f], fi, f)
<1>1. HandleSound(chain, fi)
  BY DEF Inv, CInv, HandlesSound
<1>2. f \in Files /\ dir[f] # Absent /\ dir[f] = [first |-> fi.first_cluster, size |-> fi.file_size]
  BY <1>1 DEF HandleSound
<1>3. Buffering(f) = {}
  <2> SUFFICES ASSUME NEW d \in Fds, InUse(d), s_files[d].file = f, s_files[d].buffered
               PROVE FALSE
    BY DEF Buffering, Readers
  <2>1. HandleSound(chain, s_files[d])
    BY DEF Inv, CInv, HandlesSound
  <2>2. d # fd /\ s_files[d].is_writable
    BY <2>1 DEF HandleSound
  <2> QED
    BY <2>2 DEF Inv, CInv, WriterAlone
<1>4. dir[f].first = fi.first_cluster /\ dir[f].size = fi.file_size
  BY <1>2
<1>5. EntrySound(chain[f], f)
  BY <1>2 DEF DataSound, EntriesSound
<1>6. PositionsSound(chain[f], fi)
  BY DEF DataSound, Positions
<1>7. wanted.written /\ f = wanted.file => Lies(chain[f], wanted.offset, disk)
  BY <1>3 DEF DataSound, TrackedSound
<1>8. /\ fi.first_cluster = (IF Len(chain[f]) = 0 THEN 0 ELSE chain[f][1])
      /\ Len(chain[f]) \in Nat
  BY <1>1, FileChain DEF Inv, CInv
<1>9. /\ f \in wanted.dropped => fi.first_cluster = 0
      /\ f \notin wanted.dropped =>
            fi.file_size = wanted.size[f] /\ Holds(chain[f], fi.file_size)
  BY <1>2, <1>3, <1>4, <1>5 DEF EntrySound
<1> QED
  BY <1>2, <1>3, <1>6, <1>7, <1>8, <1>9 DEF OnCard

-----------------------------------------------------------------------------
\* Callers do what the code serves well.
Strict == Usage = {}

LEMMA StrictIs ==
    ASSUME Strict, NEW fi, NEW offset
    PROVE  /\ MayRead(fi, offset) /\ ~fi.buffered /\ offset = fi.last_offset =>
                 fi.moved_by # "pwrite"
           /\ Served(fi, offset) =>
                 /\ fi.first_cluster # 0 /\ ~(offset > fi.file_size)
                 /\ Resumes(fi, offset) => fi.moved_by # "pread" /\ offset % SectorChunks = 0
<1>1. \A x : x \notin Usage
  BY DEF Strict
<1> QED
  BY <1>1, Zenon DEF MayRead, Served

\* Where a read goes on from, and which clusters it finds from there.
ReadsFrom(fi, offset, q, i) ==
    /\ i \in 0 .. Len(q) - 1 /\ ReadFrom(fi, offset).index = i
    /\ i * ClusterChunks <= offset
    /\ \A k \in Nat : i <= k \div ClusterChunks /\ k \div ClusterChunks < Len(q) =>
          ReadCluster(fi, offset, k) = q[k \div ClusterChunks + 1]

LEMMA ReadsAlong ==
    ASSUME Strict, NEW chain, Inv(chain), DataSound(chain),
           NEW fd \in Fds, InUse(fd), NEW fi, fi = s_files[fd], ~fi.buffered,
           fi.first_cluster # 0, NEW offset \in Offsets, MayRead(fi, offset),
           NEW q, q = chain[fi.file]
    PROVE  \E i : ReadsFrom(fi, offset, q, i)
<1>1. PICK f : f = fi.file
  OBVIOUS
<1>2. /\ f \in Files /\ Len(q) \in Nat /\ PositionsSound(q, fi)
      /\ fi.first_cluster = IF Len(q) = 0 THEN 0 ELSE q[1]
  <2>1. OnCard(q, fi, f)
    BY <1>1, FileOnCard
  <2> QED
    BY <2>1 DEF OnCard
<1>3. PICK c, i : c = ReadFrom(fi, offset).cluster /\ i = ReadFrom(fi, offset).index
  OBVIOUS
<1>4. i \in 0 .. Len(q) - 1 /\ c = q[i + 1] /\ i * ClusterChunks <= offset
  <2>1. fi.current_cluster_idx \in Nat /\ offset \in Nat
    <3>1. fi \in Handles
      BY DEF Inv, TypeOK
    <3> QED
      BY <3>1, SizeFacts DEF Handles
  <2>2. CASE offset = fi.last_offset
    <3>1. fi.moved_by # "pwrite"
      BY <2>2, StrictIs
    <3>2. c = fi.current_cluster /\ i = fi.current_cluster_idx
      BY <1>3, <2>2 DEF ReadFrom
    <3> QED
      BY <1>2, <2>1, <2>2, <3>1, <3>2 DEF PositionsSound
  <2>3. CASE offset # fi.last_offset
    <3>1. c = fi.first_cluster /\ i = 0
      BY <1>3, <2>3 DEF ReadFrom
    <3> QED
      BY <1>2, <2>1, <3>1, Constants
  <2> QED
    BY <2>2, <2>3
<1>5. ASSUME NEW k \in Nat, i <= k \div ClusterChunks, k \div ClusterChunks < Len(q)
      PROVE  ReadCluster(fi, offset, k) = q[k \div ClusterChunks + 1]
  <2>1. PICK a : a = k \div ClusterChunks
    OBVIOUS
  <2>2. a \in Nat
    BY <2>1, Constants, Division
  <2>3. Larger(i, a) = a
    BY <1>4, <1>5, <2>1, <2>2 DEF Larger
  <2>4. ReadCluster(fi, offset, k) = Walk(c, a - i)
    BY <1>3, <2>1, <2>3 DEF ReadCluster
  <2>5. i + 1 \in 1 .. Len(q) /\ a - i \in Nat /\ i + 1 + (a - i) = a + 1
    BY <1>2, <1>4, <1>5, <2>1, <2>2
  <2>6. Walk(q[i + 1], a - i) = IF i + 1 + (a - i) <= Len(q) THEN q[i + 1 + (a - i)] ELSE Eoc
    <3>1. i + 1 \in 1 .. Len(chain[f])
      BY <1>1, <2>5
    <3>2. Layout(chain)
      BY DEF Inv, CInv
    <3>3. \A n \in Nat : Walk(chain[f][i + 1], n) =
              IF i + 1 + n <= Len(chain[f]) THEN chain[f][i + 1 + n] ELSE Eoc
      BY <1>2, <3>1, <3>2, AlongChain
    <3> QED
      BY <1>1, <2>5, <3>3
  <2>7. a + 1 <= Len(q)
    BY <1>2, <1>5, <2>1, <2>2
  <2> QED
    BY <1>4, <2>1, <2>4, <2>5, <2>6, <2>7
<1> QED
  BY <1>3, <1>4, <1>5 DEF ReadsFrom

\* The cluster of a chunk begins at or before it, and the next one behind it.
LEMMA ClusterOf ==
    ASSUME NEW k \in Nat
    PROVE  /\ k \div ClusterChunks \in Nat /\ (k \div ClusterChunks) * ClusterChunks <= k
           /\ \A i \in Nat : i * ClusterChunks <= k => i <= k \div ClusterChunks
           /\ \A n \in Nat : k < n * ClusterChunks => k \div ClusterChunks < n
           /\ ((k \div ClusterChunks) * ClusterChunks) \div ClusterChunks = k \div ClusterChunks
<1>1. PICK a : a = k \div ClusterChunks
  OBVIOUS
<1>2. /\ a \in Nat /\ k % ClusterChunks \in 0 .. ClusterChunks - 1
      /\ k = ClusterChunks * a + (k % ClusterChunks) /\ ClusterChunks \in Nat \ {0}
  BY <1>1, Constants, Division
<1>3. ClusterChunks * a \in Nat /\ ClusterChunks * a = a * ClusterChunks
  BY <1>2
<1>4. a * ClusterChunks <= k
  BY <1>2, <1>3
<1>5. ASSUME NEW i \in Nat, i * ClusterChunks <= k
      PROVE  i <= a
  <2>1. a < i => ClusterChunks * a + ClusterChunks <= ClusterChunks * i
    BY <1>2, Times
  <2>2. ClusterChunks * i = i * ClusterChunks /\ ClusterChunks * i \in Nat
    BY <1>2
  <2> QED
    BY <1>2, <1>3, <1>5, <2>1, <2>2
<1>6. ASSUME NEW n \in Nat, k < n * ClusterChunks
      PROVE  a < n
  <2>1. ClusterChunks * n = n * ClusterChunks
    BY <1>2
  <2> QED
    BY <1>1, <1>2, <1>6, <2>1, Quotient
<1>7. (a * ClusterChunks) \div ClusterChunks = a
  <2>1. a * ClusterChunks = ClusterChunks * a + 0 /\ 0 \in 0 .. ClusterChunks - 1
    BY <1>2
  <2> QED
    BY <1>2, <2>1, DivisionUnique
<1> QED
  BY <1>1, <1>2, <1>4, <1>5, <1>6, <1>7

\* Everything up to the end of the file is read.
LEMMA ReadAll ==
    ASSUME Strict, NEW chain, Inv(chain), DataSound(chain),
           NEW fd \in Fds, InUse(fd), NEW fi, fi = s_files[fd], ~fi.buffered,
           fi.first_cluster # 0, NEW offset \in Offsets, MayRead(fi, offset),
           NEW count \in 1 .. MaxSize, offset < fi.file_size,
           NEW end, end = Smaller(offset + count, fi.file_size)
    PROVE  /\ end \in Nat /\ offset < end /\ ReadCount(fi, offset, count) = end - offset
           /\ end <= fi.file_size
<1>1. PICK f, q : f = fi.file /\ q = chain[f]
  OBVIOUS
<1>2. /\ f \in Files /\ Len(q) \in Nat /\ Holds(q, fi.file_size)
  <2>1. OnCard(q, fi, f)
    BY <1>1, FileOnCard
  <2> QED
    BY <2>1 DEF OnCard
<1>3. PICK i : ReadsFrom(fi, offset, q, i)
  BY <1>1, ReadsAlong
<1>4. offset \in Nat /\ count \in Nat \ {0} /\ fi.file_size \in Nat
  <2>1. fi \in Handles
    BY DEF Inv, TypeOK
  <2>2. fi.file_size \in Sizes
    BY <2>1 DEF Handles
  <2>3. offset \in Nat /\ fi.file_size \in Nat
    BY <2>2, SizeFacts
  <2>4. count \in Nat \ {0}
    BY Constants
  <2> QED
    BY <2>3, <2>4
<1>5. end \in Nat /\ offset < end /\ end <= fi.file_size
  BY <1>4 DEF Smaller
<1>6. ASSUME NEW k \in offset .. end - 1
      PROVE  ReadCluster(fi, offset, k) < Eoc
  <2>1. k \in Nat /\ offset <= k /\ k < fi.file_size
    BY <1>4, <1>5, <1>6
  <2>2. PICK a : a = k \div ClusterChunks
    OBVIOUS
  <2>3. a \in Nat /\ a < Len(q)
    <3>1. k < Len(q) * ClusterChunks
      BY <1>2, <1>4, <2>1, Constants DEF Holds
    <3> QED
      BY <1>2, <2>1, <2>2, <3>1, ClusterOf
  <2>4. i <= a
    <3>1. i \in Nat /\ i * ClusterChunks <= k
      BY <1>2, <1>3, <1>4, <2>1, Constants DEF ReadsFrom
    <3> QED
      BY <2>1, <2>2, <3>1, ClusterOf
  <2>5. ReadCluster(fi, offset, k) = q[a + 1]
    BY <1>3, <2>1, <2>2, <2>3, <2>4 DEF ReadsFrom
  <2>6. q[a + 1] \in Clusters
    <3>1. a + 1 \in 1 .. Len(q)
      BY <1>2, <2>3
    <3> QED
      BY <1>1, <1>2, <3>1, ChainFacts DEF Inv, CInv, Layout
  <2>7. \A c \in Clusters : c < Eoc
    BY Constants DEF Clusters, Eoc
  <2> QED
    BY <2>5, <2>6, <2>7
<1>7. ReadCount(fi, offset, count) = Cardinality(offset .. end - 1)
  <2>1. ReadCount(fi, offset, count) =
            Cardinality({k \in offset .. end - 1 : ReadCluster(fi, offset, k) < Eoc})
    BY DEF ReadCount
  <2>2. {k \in offset .. end - 1 : ReadCluster(fi, offset, k) < Eoc} = offset .. end - 1
    BY <1>6
  <2> QED
    BY <2>1, <2>2
<1>8. Cardinality(offset .. end - 1) = end - offset
  <2>1. offset \in Int /\ end - 1 \in Int /\ offset <= end - 1
    BY <1>4, <1>5
  <2>2. Cardinality(offset .. end - 1) = (end - 1) - offset + 1
    BY <2>1, FS_Interval
  <2> QED
    BY <1>4, <1>5, <2>2
<1> QED
  BY <1>5, <1>7, <1>8

LEMMA PreadKeepsData ==
    ASSUME Strict, NEW chain, Inv(chain), DInv(chain), NEW fd \in Fds, NEW offset \in Offsets,
           NEW count \in 1 .. MaxSize, Pread(fd, offset, count)
    PROVE  DInv(chain)'
<1>1. PICK fi, q : fi = s_files[fd] /\ q = chain[fi.file]
  OBVIOUS
<1>2. PICK e : e = Smaller(offset + count, fi.file_size)
  OBVIOUS
<1>3. PICK last, cluster, index, end :
          /\ last = (e - 1) \div ClusterChunks
          /\ cluster = ReadCluster(fi, offset, last * ClusterChunks)
          /\ index = Larger(ReadFrom(fi, offset).index, last)
          /\ end = offset + ReadCount(fi, offset, count)
  OBVIOUS
<1>4. /\ InUse(fd) /\ Idle /\ ~fi.buffered /\ fi.first_cluster # 0 /\ offset < fi.file_size
      /\ MayRead(fi, offset)
      /\ UNCHANGED <<volume, pool, op, wanted>>
      /\ s_files' = [s_files EXCEPT
               ![fd].current_cluster = cluster, ![fd].current_cluster_idx = index,
               ![fd].last_offset = end, ![fd].moved_by = "pread"]
  BY <1>1, <1>2, <1>3 DEF Pread
<1>5. PICK r : r = [fi EXCEPT !.current_cluster = cluster, !.current_cluster_idx = index,
                              !.last_offset = end, !.moved_by = "pread"]
  OBVIOUS
<1>6. s_files' = [s_files EXCEPT ![fd] = r]
  BY <1>1, <1>4, <1>5 DEF Inv, TypeOK
<1>7. /\ r.file = fi.file /\ r.buffered = fi.buffered /\ r.first_cluster = fi.first_cluster
      /\ r.current_cluster = cluster /\ r.current_cluster_idx = index /\ r.last_offset = end
      /\ r.moved_by = "pread"
  <2>1. fi \in Handles
    BY <1>1 DEF Inv, TypeOK
  <2> QED
    BY <1>5, <2>1 DEF Handles
<1>8. offset \in Nat /\ e \in Nat /\ offset < e /\ end = e /\ e <= fi.file_size /\ fi.file_size \in Nat
  <2>1. e \in Nat /\ offset < e /\ ReadCount(fi, offset, count) = e - offset /\ e <= fi.file_size
    BY <1>1, <1>2, <1>4, ReadAll DEF DInv
  <2>2. offset \in Nat
    BY SizeFacts
  <2>3. fi \in Handles
    BY <1>1 DEF Inv, TypeOK
  <2>4. fi.file_size \in Sizes
    BY <2>3 DEF Handles
  <2>5. fi.file_size \in Nat
    BY <2>4, SizeFacts
  <2>6. end = e
    <3>1. end = offset + (e - offset)
      BY <1>3, <2>1
    <3> QED
      BY <2>1, <2>2, <3>1
  <2> QED
    BY <2>1, <2>2, <2>5, <2>6
<1>9. PICK i : ReadsFrom(fi, offset, q, i)
  BY <1>1, <1>4, ReadsAlong DEF DInv
<1>10. OnCard(q, fi, fi.file)
  BY <1>1, <1>4, FileOnCard DEF DInv
<1>11. Len(q) \in Nat /\ Holds(q, fi.file_size)
  BY <1>4, <1>10 DEF OnCard
<1>12. /\ last \in Nat /\ last < Len(q) /\ i \in Nat /\ i <= last
       /\ last * ClusterChunks <= e - 1 /\ (last * ClusterChunks) \div ClusterChunks = last
       /\ last * ClusterChunks \in Nat
  <2>1. i \in Nat /\ i * ClusterChunks <= offset
    BY <1>9, <1>11 DEF ReadsFrom
  <2>2. e - 1 \in Nat
    BY <1>8
  <2>3. i * ClusterChunks <= e - 1
    BY <1>8, <2>1, Constants
  <2>4. e - 1 < Len(q) * ClusterChunks
    BY <1>8, <1>11, Constants DEF Holds
  <2>5. /\ last \in Nat /\ last * ClusterChunks <= e - 1
        /\ (last * ClusterChunks) \div ClusterChunks = last
    BY <1>3, <2>2, ClusterOf
  <2>6. i <= last
    BY <1>3, <2>1, <2>2, <2>3, ClusterOf
  <2>7. last < Len(q)
    BY <1>3, <1>11, <2>2, <2>4, ClusterOf
  <2> QED
    BY <2>1, <2>5, <2>6, <2>7, Constants
<1>13. index = last
  BY <1>3, <1>9, <1>12 DEF ReadsFrom, Larger
<1>14. cluster = q[last + 1]
  <2>1. PICK k \in Nat : k = last * ClusterChunks
    BY <1>12
  <2>2. k \div ClusterChunks = last
    BY <1>12, <2>1
  <2> QED
    BY <1>3, <1>9, <1>12, <2>1, <2>2 DEF ReadsFrom
<1>15. PositionsSound(q, r)
  <2>1. last * ClusterChunks <= e
    BY <1>8, <1>12
  <2> QED
    BY <1>7, <1>8, <1>12, <1>13, <1>14, <2>1 DEF PositionsSound
<1>16. QuietMove(chain, fd, r)
  BY <1>1, <1>4, <1>6, <1>7, <1>15 DEF QuietMove, volume, pool
<1>17. op'.at = "idle"
  BY <1>4 DEF Idle
<1> QED
  BY <1>16, <1>17, QuietStepData, IdleWrite DEF DInv

\* What is read where the tracked chunk has been written.
LEMMA ReadsAreRight ==
    ASSUME Strict, NEW chain, Inv(chain), DInv(chain)
    PROVE  ReadReturnsWritten
<1> SUFFICES ASSUME Idle, wanted.written,
                    NEW fd \in Readers(wanted.file), NEW offset \in Offsets,
                    NEW count \in 1 .. MaxSize, MayRead(s_files[fd], offset),
                    wanted.offset \in offset .. offset + count - 1
             PROVE  /\ wanted.offset - offset < ReadCount(s_files[fd], offset, count)
                    /\ ReadsWritten(s_files[fd], offset)
  BY DEF ReadReturnsWritten
<1>1. PICK fi, f, k, q : fi = s_files[fd] /\ f = fi.file /\ k = wanted.offset /\ q = chain[f]
  OBVIOUS
<1>2. fd \in Fds /\ InUse(fd) /\ f = wanted.file
  BY <1>1 DEF Readers
<1>3. /\ offset \in Nat /\ count \in Nat \ {0} /\ fi.file_size \in Nat /\ k \in Nat
      /\ offset <= k /\ k < offset + count
  <2>1. fi \in Handles /\ k \in Offsets
    BY <1>1, <1>2 DEF Inv, TypeOK
  <2>2. fi.file_size \in Sizes
    BY <2>1 DEF Handles
  <2>3. offset \in Nat /\ fi.file_size \in Nat /\ k \in Nat
    BY <2>1, <2>2, SizeFacts
  <2>4. count \in Nat \ {0}
    BY Constants
  <2> QED
    BY <1>1, <2>3, <2>4
<1>4. k < wanted.size[f] /\ f \notin wanted.dropped
  BY <1>1, <1>2 DEF DInv, DataSound, TrackedSound
<1>5. CASE fi.buffered
  <2>1. BufferSound(fi)
    BY <1>1, <1>2 DEF DInv, DataSound, Positions
  <2>2. fi.write_buf /\ fi.file_size = wanted.size[f]
    BY <1>1, <1>2, <1>5, <2>1 DEF BufferSound
  <2>3. ReadCount(fi, offset, count) = Larger(Smaller(offset + count, fi.file_size) - offset, 0)
    BY <1>5 DEF ReadCount
  <2>4. k - offset < Smaller(offset + count, fi.file_size) - offset
    BY <1>3, <1>4, <2>2 DEF Smaller
  <2>5. k - offset < ReadCount(fi, offset, count)
    BY <1>3, <2>3, <2>4 DEF Larger, Smaller
  <2> QED
    BY <1>1, <1>5, <2>2, <2>5 DEF ReadsWritten
<1>6. CASE ~fi.buffered
  <2>1. OnCard(q, fi, f)
    BY <1>1, <1>2, <1>6, FileOnCard DEF DInv
  <2>2. fi.file_size = wanted.size[f] /\ Lies(q, k, disk) /\ Len(q) \in Nat
    BY <1>1, <1>2, <1>4, <2>1 DEF OnCard
  <2>3. k \div ClusterChunks < Len(q) /\ <<q[k \div ClusterChunks + 1], k % ClusterChunks>> \in disk
    BY <2>2 DEF Lies
  <2>4. fi.first_cluster # 0
    <3>1. Len(q) # 0
      <4>1. PICK a \in Nat : a = k \div ClusterChunks
        BY <1>3, Constants, Division
      <4> QED
        BY <2>2, <2>3, <4>1
    <3>2. 1 \in 1 .. Len(chain[f]) /\ f \in Files
      BY <1>1, <2>1, <2>2, <3>1 DEF OnCard
    <3>3. q[1] \in Clusters
      BY <1>1, <3>2, ChainFacts DEF Inv, CInv, Layout
    <3> QED
      BY <2>1, <3>1, <3>3, ClusterFacts DEF OnCard
  <2>5. offset < fi.file_size
    BY <1>3, <1>4, <2>2
  <2>6. PICK i : ReadsFrom(fi, offset, q, i)
    BY <1>1, <1>2, <1>6, <2>4, ReadsAlong DEF DInv
  <2>7. ReadCluster(fi, offset, k) = q[k \div ClusterChunks + 1]
    <3>1. i \in Nat /\ i * ClusterChunks <= offset
      BY <2>2, <2>6 DEF ReadsFrom
    <3>2. i * ClusterChunks <= k
      BY <1>3, <3>1, Constants
    <3>3. i <= k \div ClusterChunks
      BY <1>3, <3>1, <3>2, ClusterOf
    <3> QED
      BY <1>3, <2>3, <2>6, <3>3 DEF ReadsFrom
  <2>8. ReadsWritten(fi, offset)
    BY <1>1, <1>6, <2>3, <2>7 DEF ReadsWritten
  <2>9. PICK e : e = Smaller(offset + count, fi.file_size)
    OBVIOUS
  <2>10. ReadCount(fi, offset, count) = e - offset
    BY <1>1, <1>2, <1>6, <2>4, <2>5, <2>9, ReadAll DEF DInv
  <2>11. k < e
    BY <1>3, <1>4, <2>2, <2>9 DEF Smaller
  <2>12. k - offset < e - offset
    BY <1>3, <2>9, <2>11 DEF Smaller
  <2> QED
    BY <1>1, <2>8, <2>10, <2>12
<1> QED
  BY <1>5, <1>6

LEMMA EntriesAreRight ==
    ASSUME NEW chain, Inv(chain), DInv(chain)
    PROVE  EntryIsRight
<1> SUFFICES ASSUME NEW f \in Files, f \notin wanted.dropped, dir[f] # Absent, Buffering(f) = {}
             PROVE  /\ dir[f].size = wanted.size[f]
                    /\ Cardinality(ChainOf(dir[f].first)) >= ClustersFor(dir[f].size)
  BY DEF EntryIsRight
<1>1. PICK size, n : size = dir[f].size /\ n = Len(chain[f])
  OBVIOUS
<1>2. size = wanted.size[f] /\ size <= n * ClusterChunks
  BY <1>1 DEF DInv, DataSound, EntriesSound, EntrySound, Holds
<1>3. size \in Nat /\ n \in Nat
  <2>1. size \in Sizes
    BY <1>1, EntryTyped DEF Inv
  <2>2. n \in Nat
    BY <1>1, ChainFacts DEF Inv, CInv, Layout
  <2> QED
    BY <2>1, <2>2, SizeFacts
<1>4. ClustersFor(size) <= n
  <2>1. PICK m : m = ClustersFor(size)
    OBVIOUS
  <2>2. m \in Nat /\ ClusterChunks * m < size + ClusterChunks
    BY <1>3, <2>1, ClustersForIs
  <2>3. n < m => ClusterChunks * n + ClusterChunks <= ClusterChunks * m
    BY <1>3, <2>2, Constants, Times
  <2>4. ClusterChunks * n = n * ClusterChunks /\ ClusterChunks * n \in Nat
        /\ ClusterChunks * m \in Nat
    BY <1>3, <2>2, Constants
  <2> QED
    BY <1>2, <1>3, <2>1, <2>2, <2>3, <2>4, Constants
<1>5. Cardinality(ChainOf(dir[f].first)) = n
  <2>1. dir[f].first = IF n = 0 THEN 0 ELSE chain[f][1]
    BY <1>1, FirstIs DEF Inv, CInv, First
  <2>2. CASE n = 0
    BY <2>1, <2>2, NoChain, FS_EmptySet
  <2>3. CASE n # 0
    <3>1. 1 \in 1 .. Len(chain[f])
      BY <1>1, <1>3, <2>3
    <3>2. Cardinality(ChainOf(chain[f][1])) = Len(chain[f]) - 1 + 1
      BY <3>1, ChainLength DEF Inv, CInv
    <3> QED
      BY <1>1, <1>3, <2>1, <2>3, <3>2
  <2> QED
    BY <2>2, <2>3
<1> QED
  BY <1>1, <1>2, <1>3, <1>4, <1>5

LEMMA DataIsInPlace ==
    ASSUME NEW chain, Inv(chain), DInv(chain)
    PROVE  DataInPlace
<1> SUFFICES ASSUME wanted.written PROVE DataInPlace
  BY DEF DataInPlace
<1>1. PICK f, k, q : f = wanted.file /\ k = wanted.offset /\ q = chain[f]
  OBVIOUS
<1>2. f \in Files /\ k \in Nat
  BY <1>1, SizeFacts DEF Inv, TypeOK
<1>3. /\ dir[f] # Absent
      /\ Buffering(f) = {} => Lies(q, k, disk)
  BY <1>1 DEF DInv, DataSound, TrackedSound
<1>4. CASE Buffering(f) # {}
  <2>1. PICK fd : fd \in Buffering(f)
    BY <1>4
  <2>2. fd \in Fds /\ InUse(fd) /\ s_files[fd].file = f /\ s_files[fd].buffered
    BY <2>1 DEF Buffering, Readers
  <2>3. s_files[fd].write_buf
    BY <1>1, <2>2 DEF DInv, DataSound, Positions, BufferSound
  <2> QED
    BY <1>1, <1>4, <2>1, <2>3 DEF DataInPlace
<1>5. CASE Buffering(f) = {}
  <2>1. PICK a : a = k \div ClusterChunks
    OBVIOUS
  <2>2. a \in Nat /\ a < Len(q) /\ <<q[a + 1], k % ClusterChunks>> \in disk
    <3>1. a \in Nat
      BY <1>2, <2>1, Constants, Division
    <3> QED
      BY <1>3, <1>5, <2>1, <3>1 DEF Lies
  <2>3. Len(q) \in Nat /\ Layout(chain)
    BY <1>1, <1>2, ChainFacts DEF Inv, CInv, Layout
  <2>4. dir[f].first = q[1]
    <3>1. dir[f].first = IF Len(chain[f]) = 0 THEN 0 ELSE chain[f][1]
      BY <1>2, <1>3, FirstIs DEF Inv, CInv, First
    <3> QED
      BY <1>1, <2>2, <2>3, <3>1
  <2>5. Walk(q[1], a) = q[a + 1]
    <3>1. 1 \in 1 .. Len(chain[f])
      BY <1>1, <2>2, <2>3
    <3>2. \A n \in Nat : Walk(chain[f][1], n) =
              IF 1 + n <= Len(chain[f]) THEN chain[f][1 + n] ELSE Eoc
      BY <1>2, <2>3, <3>1, AlongChain
    <3>3. Walk(q[1], a) = IF 1 + a <= Len(q) THEN q[1 + a] ELSE Eoc
      BY <1>1, <2>2, <3>2
    <3>4. 1 + a <= Len(q) /\ 1 + a = a + 1
      BY <2>2, <2>3
    <3> QED
      BY <3>3, <3>4
  <2>6. q[a + 1] \in Clusters
    <3>1. a + 1 \in 1 .. Len(chain[f])
      BY <1>1, <2>2, <2>3
    <3> QED
      BY <1>1, <1>2, <3>1, ChainFacts DEF Inv, CInv, Layout
  <2>7. /\ Walk(dir[f].first, k \div ClusterChunks) \in Clusters
        /\ <<Walk(dir[f].first, k \div ClusterChunks), k % ClusterChunks>> \in disk
    BY <2>1, <2>2, <2>4, <2>5, <2>6
  <2> QED
    BY <1>1, <1>5, <2>7 DEF DataInPlace
<1> QED
  BY <1>4, <1>5

-----------------------------------------------------------------------------
\* Nothing is left of file f: it is empty, and forgotten.
LEMMA GoneData ==
    ASSUME NEW chain, Inv(chain), DInv(chain), NEW f \in Files,
           NEW w, w = [Forgotten(f, 0) EXCEPT !.dropped = @ \ {f}], wanted' = w,
           disk' = Held(disk), \A g \in Files \ {f} : dir'[g] = dir[g],
           NEW c2, c2 = [chain EXCEPT ![f] = <<>>]
    PROVE  /\ OnlyFile(chain, c2, f) /\ Len(c2[f]) = 0 /\ Holds(c2[f], 0)
           /\ wanted'.written => wanted.file # f
           /\ wanted'.size[f] = 0 /\ f \notin wanted'.dropped /\ wanted'.file = wanted.file
<1>1. /\ w.file = wanted.file /\ w.offset = wanted.offset /\ w.dropped = wanted.dropped \ {f}
      /\ w.size = [wanted.size EXCEPT ![f] = 0]
      /\ w.written = (wanted.written /\ f # wanted.file)
  BY GoneIs DEF Inv
<1>2. wanted.size \in [Files -> Sizes] /\ chain \in [Files -> Seq(Clusters)]
  BY DEF Inv, TypeOK, CInv, Layout, Laid
<1>3. \A g \in Files \ {f} : /\ c2[g] = chain[g] /\ w.size[g] = wanted.size[g]
                             /\ g \in w.dropped <=> g \in wanted.dropped
  BY <1>1, <1>2
<1>4. w.written => disk' = disk
  BY DEF Held
<1>5. c2[f] = <<>> /\ w.size[f] = 0 /\ f \notin w.dropped
  BY <1>1, <1>2
<1>6. OnlyFile(chain, c2, f)
  BY <1>1, <1>3, <1>4 DEF OnlyFile
<1>7. Len(c2[f]) = 0 /\ Holds(c2[f], 0)
  BY <1>5, EmptySeq, Constants DEF Holds
<1> QED
  BY <1>1, <1>5, <1>6, <1>7

LEMMA UnlinkKeepsData ==
    ASSUME Plain, NEW chain, Inv(chain), DInv(chain), NEW f \in Files, Unlink(f),
           NEW c2, c2 = [chain EXCEPT ![f] = <<>>]
    PROVE  DInv(c2)'
<1>1. PICK w : w = [Forgotten(f, 0) EXCEPT !.dropped = @ \ {f}]
  OBVIOUS
<1>2. /\ wanted' = w /\ disk' = Held(disk) /\ UNCHANGED <<s_files, pool, op>> /\ op.at = "idle"
      /\ dir' = [dir EXCEPT ![f] = Absent]
  BY <1>1 DEF Unlink, Idle
<1>3. dir'[f] = Absent /\ \A g \in Files \ {f} : dir'[g] = dir[g]
  BY <1>2 DEF Inv, TypeOK
<1>4. /\ OnlyFile(chain, c2, f)
      /\ wanted'.written => wanted.file # f
  BY <1>1, <1>2, <1>3, GoneData
<1>5. OthersStay(f)
  BY <1>2 DEF OthersStay, InUse, pool
<1>6. \A d \in Fds : InUse(d) => s_files[d].file # f
  BY DEF Unlink, MayDelete, SectorIsFree, Plain, Readers
<1>7. FileSettled(c2, f)
  <2>1. \A d \in Fds : InUse(d)' => s_files'[d].file # f
    BY <1>2, <1>6 DEF InUse, pool
  <2>2. EntrySound(c2[f], f)'
    BY <1>3 DEF EntrySound
  <2> QED
    BY <1>4, <2>1, <2>2 DEF FileSettled
<1>8. DataSound(c2)'
  BY <1>4, <1>5, <1>7, FileStep DEF DInv
<1> QED
  BY <1>2, <1>8, IdleWrite DEF DInv

LEMMA CreateKeepsData ==
    ASSUME Plain, NEW chain, Inv(chain), FdSound, DInv(chain), NEW f \in Files, Create(f),
           NEW c2, c2 = [chain EXCEPT ![f] = <<>>]
    PROVE  DInv(c2)'
<1>1. PICK w : w = [Forgotten(f, 0) EXCEPT !.dropped = @ \ {f}]
  OBVIOUS
<1>2. /\ wanted' = w /\ disk' = Held(disk) /\ op' = op /\ op.at = "idle"
      /\ dir' = [dir EXCEPT ![f] = NoEntry]
  BY <1>1 DEF Create, Idle
<1>3. dir'[f] = NoEntry /\ \A g \in Files \ {f} : dir'[g] = dir[g]
  BY <1>2 DEF Inv, TypeOK
<1>4. /\ OnlyFile(chain, c2, f)
      /\ wanted'.written => wanted.file # f
      /\ wanted'.size[f] = 0 /\ f \notin wanted'.dropped /\ wanted'.file = wanted.file
      /\ Holds(c2[f], 0)
  BY <1>1, <1>2, <1>3, GoneData
<1>5. \A d \in Fds : InUse(d) => s_files[d].file # f
  BY DEF Create, MayDelete, SectorIsFree, Plain, Readers
<1>6. EntrySound(c2[f], f)'
  BY <1>3, <1>4 DEF EntrySound, NoEntry, Holds
<1>7. CASE UNCHANGED <<pool, s_files>>
  <2>1. OthersStay(f)
    BY <1>7 DEF OthersStay, InUse, pool
  <2>2. \A d \in Fds : InUse(d)' => s_files'[d].file # f
    BY <1>5, <1>7 DEF InUse, pool
  <2>3. FileSettled(c2, f)
    BY <1>4, <1>6, <2>2 DEF FileSettled
  <2>4. DataSound(c2)'
    BY <1>4, <2>1, <2>3, FileStep DEF DInv
  <2> QED
    BY <1>2, <2>4, IdleWrite DEF DInv
<1>8. CASE \E fd \in Fds :
             /\ AllocFd(fd)
             /\ s_files' = [s_files EXCEPT ![fd] =
                   [Opened(f, NoEntry) EXCEPT !.is_writable = TRUE, !.buffered = TRUE,
                                              !.dir_sector_buf = dir']]
  <2>1. PICK fd \in Fds :
             /\ AllocFd(fd)
             /\ s_files' = [s_files EXCEPT ![fd] =
                   [Opened(f, NoEntry) EXCEPT !.is_writable = TRUE, !.buffered = TRUE,
                                              !.dir_sector_buf = dir']]
    BY <1>8
  <2>2. PICK o, r : /\ o = Opened(f, NoEntry)
                    /\ r = [o EXCEPT !.is_writable = TRUE, !.buffered = TRUE,
                                     !.dir_sector_buf = dir']
    OBVIOUS
  <2>3. r.file = f /\ r.buffered /\ r.file_size = 0
    <3>1. o = [Closed EXCEPT !.in_use = TRUE, !.file = f, !.first_cluster = NoEntry.first,
                             !.file_size = NoEntry.size, !.current_cluster = NoEntry.first]
      BY <2>2, EntryFacts, OpenedIs
    <3>2. o.file = f /\ o.file_size = 0
      BY <3>1 DEF Closed, NoEntry
    <3>3. o \in Handles
      BY <2>2, EntryFacts, OpenedIs
    <3> QED
      BY <2>2, <3>2, <3>3 DEF Handles
  <2>4. ~InUse(fd) /\ \A d \in Fds \ {fd} : d < s_file_count' <=> d < s_file_count
    BY <2>1, NewFd DEF Inv
  <2>5. s_files'[fd] = r /\ \A d \in Fds \ {fd} : s_files'[d] = s_files[d] /\ (InUse(d)' <=> InUse(d))
    BY <2>1, <2>2, <2>4 DEF InUse, Inv, TypeOK
  <2>6. OthersStay(f)
    BY <1>5, <2>3, <2>4, <2>5 DEF OthersStay
  <2>7. ASSUME NEW d \in Fds, InUse(d)', s_files'[d].file = f
        PROVE  PositionsSound(c2[f], s_files'[d]) /\ BufferSound(s_files[d])'
    <3>1. d = fd /\ s_files'[d] = r
      BY <1>5, <2>5, <2>7
    <3> QED
      BY <1>4, <2>3, <3>1 DEF PositionsSound, BufferSound
  <2>8. FileSettled(c2, f)
    BY <1>4, <1>6, <2>7 DEF FileSettled
  <2>9. DataSound(c2)'
    BY <1>4, <2>6, <2>8, FileStep DEF DInv
  <2> QED
    BY <1>2, <2>9, IdleWrite DEF DInv
<1> QED
  BY <1>7, <1>8 DEF Create

-----------------------------------------------------------------------------
\* Data in runs of clusters.
LEMMA PlaceOf ==
    ASSUME NEW c \in Nat, NEW n \in Nat \ {0}, NEW k \in Nat, k < n * ClusterChunks
    PROVE  /\ k \div ClusterChunks \in Nat /\ k \div ClusterChunks < n
           /\ k \div ClusterChunks + 1 \in 1 .. n
           /\ Place(c, k) = <<RunOf(c, n)[k \div ClusterChunks + 1], k % ClusterChunks>>
<1>1. PICK a : a = k \div ClusterChunks
  OBVIOUS
<1>2. a \in Nat /\ a < n
  BY <1>1, ClusterOf
<1>3. a + 1 \in 1 .. n
  BY <1>2
<1>4. RunOf(c, n)[a + 1] = c + (a + 1) - 1
  BY <1>3, RunOfIs
<1>5. c + (a + 1) - 1 = c + a
  BY <1>2
<1>6. Place(c, k) = <<c + a, k % ClusterChunks>>
  BY <1>1 DEF Place
<1> QED
  BY <1>1, <1>2, <1>3, <1>4, <1>5, <1>6

LEMMA LiesInRun ==
    ASSUME NEW t, NEW c \in Nat, NEW n \in Nat \ {0}, FreeRun(t, c, n),
           NEW k \in Nat, k < n * ClusterChunks, NEW d, Place(c, k) \in d
    PROVE  Lies(RunOf(c, n), k, d)
BY PlaceOf, RunFacts DEF Lies

\* What is written to a run of free clusters is not where a file has its data.
LEMMA KeptByRun ==
    ASSUME NEW chain, Layout(chain), NEW c \in Nat, NEW n \in Nat \ {0}, FreeRun(fat, c, n),
           NEW g \in Files, NEW k \in Nat, NEW d, Lies(chain[g], k, d),
           NEW ks, ks \subseteq Nat, \A j \in ks : j < n * ClusterChunks
    PROVE  Lies(chain[g], k, d \ Places(c, ks))
<1>1. PICK a : a = k \div ClusterChunks
  OBVIOUS
<1>2. a \in Nat /\ a < Len(chain[g]) /\ <<chain[g][a + 1], k % ClusterChunks>> \in d
  BY <1>1, ClusterOf DEF Lies
<1>3. a + 1 \in 1 .. Len(chain[g])
  <2>1. Len(chain[g]) \in Nat
    BY ChainFacts DEF Layout
  <2> QED
    BY <1>2, <2>1
<1>4. \A j \in 1 .. n : RunOf(c, n)[j] # chain[g][a + 1]
  BY <1>3, RunIsApart DEF Layout
<1>5. <<chain[g][a + 1], k % ClusterChunks>> \notin Places(c, ks)
  <2> SUFFICES ASSUME NEW j \in ks, <<chain[g][a + 1], k % ClusterChunks>> = Place(c, j)
               PROVE FALSE
    BY DEF Places
  <2>1. /\ j \div ClusterChunks + 1 \in 1 .. n
        /\ Place(c, j) = <<RunOf(c, n)[j \div ClusterChunks + 1], j % ClusterChunks>>
    BY PlaceOf
  <2> QED
    BY <1>4, <2>1
<1> QED
  BY <1>1, <1>2, <1>5 DEF Lies

\* Whole sectors of size chunks do not go beyond their clusters.
LEMMA Padded ==
    ASSUME NEW size \in Nat
    PROVE  /\ SectorsFor(size) \in Nat /\ size <= SectorsFor(size) * SectorChunks
           /\ SectorsFor(size) * SectorChunks <= ClustersFor(size) * ClusterChunks
           /\ size <= ClustersFor(size) * ClusterChunks
<1>1. /\ ClusterSectors \in Nat \ {0} /\ SectorChunks \in Nat \ {0}
      /\ ClusterChunks \in Nat \ {0} /\ ClusterChunks = SectorChunks * ClusterSectors
  BY Constants
<1>2. PICK s, n : s = SectorsFor(size) /\ n = ClustersFor(size)
  OBVIOUS
<1>3. s \in Nat /\ size <= SectorChunks * s /\ SectorChunks * s < size + SectorChunks
  BY <1>1, <1>2, RoundedUp DEF SectorsFor
<1>4. n \in Nat /\ size <= ClusterChunks * n
  BY <1>2, ClustersForIs
<1>5. PICK m : m = ClusterSectors * n
  OBVIOUS
<1>6. m \in Nat /\ ClusterChunks * n = SectorChunks * m
  BY <1>1, <1>4, <1>5
<1>7. SectorChunks * s <= SectorChunks * m
  <2>1. m < s => SectorChunks * m + SectorChunks <= SectorChunks * s
    BY <1>1, <1>3, <1>6, Times
  <2>2. s <= m => SectorChunks * s <= SectorChunks * m
    BY <1>1, <1>3, <1>6, Times
  <2>3. SectorChunks * s \in Nat /\ SectorChunks * m \in Nat
    BY <1>1, <1>3, <1>6
  <2> QED
    BY <1>1, <1>3, <1>4, <1>6, <2>1, <2>2, <2>3
<1>8. SectorChunks * s = s * SectorChunks /\ ClusterChunks * n = n * ClusterChunks
  BY <1>1, <1>3, <1>4
<1> QED
  BY <1>2, <1>3, <1>4, <1>6, <1>7, <1>8

\* What a flush of descriptor fi makes of the data.
FlushData(chain, c2, fi, f, start) ==
    /\ OnlyFile(chain, c2, f)
    /\ dir'[f] = [first |-> start, size |-> fi.file_size]
    /\ f \notin wanted.dropped /\ fi.file_size = wanted.size[f] /\ Holds(c2[f], fi.file_size)
    /\ Len(c2[f]) \in Nat /\ start = IF Len(c2[f]) = 0 THEN 0 ELSE c2[f][1]
    /\ wanted.written /\ f = wanted.file =>
          Lies(c2[f], wanted.offset, disk') /\ wanted.offset < fi.file_size

LEMMA FlushMoves ==
    ASSUME NEW chain, Inv(chain), DataSound(chain), NEW fd \in Fds, InUse(fd),
           NEW fi, fi = s_files[fd], fi.buffered, CanFlush(fi),
           disk' = FlushedDisk(fi), wanted' = wanted, dir' = Flushed(fi).dir_sector_buf,
           NEW start, start = FlushStart(fi), NEW c2, c2 = FlushChain(chain, fi),
           NEW f, f = fi.file
    PROVE  FlushData(chain, c2, fi, f, start)
<1>1. /\ f \in Files /\ fi \in Handles /\ HandleSound(chain, fi)
      /\ dir' = [dir EXCEPT ![f] = [first |-> start, size |-> fi.file_size]]
      /\ dir[f] = NoEntry
  BY FlushHandle
<1>2. dir \in [Files -> Entries] /\ chain \in [Files -> Seq(Clusters)] /\ Layout(chain)
  BY DEF Inv, CInv, TypeOK, Layout, Laid
<1>3. /\ dir'[f] = [first |-> start, size |-> fi.file_size]
      /\ \A g \in Files \ {f} : dir'[g] = dir[g]
  BY <1>1, <1>2
<1>4. BufferSound(fi)
  BY DEF DataSound, Positions
<1>5. f \notin wanted.dropped /\ fi.file_size = wanted.size[f]
      /\ (wanted.written /\ f = wanted.file => fi.write_buf)
  BY <1>4 DEF BufferSound
<1>6. fi.write_buf => fi.file = wanted.file /\ wanted.offset < fi.file_size
  BY <1>1 DEF HandleSound
<1>7. fi.file_size \in Nat /\ wanted.offset \in Nat
  <2>1. fi.file_size \in Sizes
    BY <1>1 DEF Handles
  <2>2. wanted.offset \in Offsets
    BY DEF Inv, TypeOK
  <2> QED
    BY <2>1, <2>2, SizeFacts
<1>8. PICK size, k, g : size = fi.file_size /\ k = wanted.offset /\ g = wanted.file
  OBVIOUS
<1>9. g \in Files
  BY <1>8 DEF Inv, TypeOK
<1>10. CASE size = 0
  <2>1. c2 = chain /\ start = 0
    BY <1>8, <1>10 DEF FlushChain, FlushStart
  <2>2. Len(chain[f]) = 0
    <3>1. First(f) = 0
      BY <1>1 DEF First, NoEntry
    <3>2. Len(chain[f]) # 0 => 1 \in 1 .. Len(chain[f]) /\ First(f) = chain[f][1]
      <4>1. Len(chain[f]) \in Nat
        BY <1>1, <1>2, LenProperties
      <4> QED
        BY <1>1, <1>2, <4>1, FirstIs
    <3> QED
      BY <1>1, <1>2, <3>1, <3>2, ChainFacts, ClusterFacts DEF Layout
  <2>3. ~fi.write_buf
    BY <1>6, <1>7, <1>8, <1>10
  <2>4. disk' = disk
    <3>1. SectorsFor(0) = 0
      BY Constants, RoundedUp DEF SectorsFor
    <3>2. SectorsFor(0) * SectorChunks - 1 = -1
      BY <3>1, Constants
    <3>3. disk' = disk \ Places(start, 0 .. SectorsFor(0) * SectorChunks - 1)
      BY <1>8, <1>10, <2>3 DEF FlushedDisk, SectorsFor
    <3>4. 0 .. -1 = {}
      OBVIOUS
    <3> QED
      BY <3>2, <3>3, <3>4 DEF Places
  <2>5. OnlyFile(chain, c2, f)
    BY <1>1, <1>3, <2>1, <2>4 DEF OnlyFile
  <2>6. Holds(c2[f], size)
    BY <1>10, <2>1, <2>2, Constants DEF Holds
  <2> QED
    BY <1>3, <1>5, <1>8, <2>1, <2>2, <2>3, <2>5, <2>6 DEF FlushData
<1>11. CASE size # 0
  <2>1. PICK n : n = ClustersFor(size)
    OBVIOUS
  <2>2. start \in Nat /\ n \in Nat \ {0} /\ FreeRun(fat, start, n)
    <3>1. /\ FlushStart(fi) \in Clusters /\ ClustersFor(fi.file_size) \in Nat \ {0}
          /\ FreeRun(fat, FlushStart(fi), ClustersFor(fi.file_size))
      BY <1>7, <1>8, <1>11, FlushStartIs
    <3> QED
      BY <1>8, <2>1, <3>1, ClusterFacts
  <2>3. c2 = [chain EXCEPT ![f] = RunOf(start, n)]
    BY <1>8, <1>11, <2>1 DEF FlushChain
  <2>4. c2[f] = RunOf(start, n) /\ \A h \in Files \ {f} : c2[h] = chain[h]
    BY <1>1, <1>2, <2>3
  <2>5. PICK ks : ks = 0 .. SectorsFor(size) * SectorChunks - 1
    OBVIOUS
  <2>6. ks \subseteq Nat /\ \A j \in ks : j < n * ClusterChunks
    <3>1. PICK s, m \in Nat : s = SectorsFor(size) * SectorChunks /\ m = n * ClusterChunks
                              /\ s <= m /\ s \in Nat
      BY <1>7, <1>8, <2>1, <2>2, Padded, Constants
    <3> QED
      BY <2>5, <3>1
  <2>7. disk' = (disk \ Places(start, ks)) \cup (IF fi.write_buf THEN {Place(start, k)} ELSE {})
    BY <1>8, <2>5 DEF FlushedDisk, SectorsFor
  <2>8. size <= n * ClusterChunks
    BY <1>7, <1>8, <2>1, Padded
  <2>9. ASSUME g # f, Lies(chain[g], k, disk)
        PROVE  Lies(chain[g], k, disk')
    <3>1. Lies(chain[g], k, disk \ Places(start, ks))
      BY <1>2, <1>7, <1>8, <1>9, <2>2, <2>6, <2>9, KeptByRun
    <3> QED
      BY <2>7, <3>1 DEF Lies
  <2>10. OnlyFile(chain, c2, f)
    BY <1>1, <1>3, <1>8, <2>4, <2>9 DEF OnlyFile
  <2>11. ASSUME wanted.written, f = g
         PROVE  Lies(c2[f], k, disk') /\ k < size
    <3>1. fi.write_buf /\ k < size
      BY <1>5, <1>6, <1>8, <2>11
    <3>2. Place(start, k) \in disk'
      BY <2>7, <3>1
    <3>3. k < n * ClusterChunks /\ k \in Nat
      BY <1>7, <1>8, <2>2, <2>8, <3>1, Constants
    <3> QED
      BY <2>2, <2>4, <3>1, <3>2, <3>3, LiesInRun
  <2>12. Len(RunOf(start, n)) = n /\ RunOf(start, n)[1] = start
    <3>1. 1 \in 1 .. n
      BY <2>2
    <3>2. RunOf(start, n)[1] = start + 1 - 1
      BY <3>1, RunOfIs
    <3>3. start + 1 - 1 = start
      BY <2>2
    <3>4. Len(RunOf(start, n)) = n
      BY <2>2, RunFacts
    <3> QED
      BY <3>2, <3>3, <3>4
  <2>13. Holds(c2[f], size)
    BY <2>4, <2>8, <2>12 DEF Holds
  <2>14. Len(c2[f]) \in Nat /\ start = IF Len(c2[f]) = 0 THEN 0 ELSE c2[f][1]
    BY <2>2, <2>4, <2>12
  <2> QED
    BY <1>3, <1>5, <1>8, <2>10, <2>11, <2>13, <2>14 DEF FlushData
<1> QED
  BY <1>10, <1>11

LEMMA FlushKeepsData ==
    ASSUME NEW chain, Inv(chain), DataSound(chain), NEW fd \in Fds, InUse(fd),
           NEW fi, fi = s_files[fd], fi.buffered, CanFlush(fi),
           disk' = FlushedDisk(fi), wanted' = wanted, dir' = Flushed(fi).dir_sector_buf,
           NEW r, \/ r = Flushed(fi)
                  \/ ~r.in_use,
           s_files' = [s_files EXCEPT ![fd] = r], s_file_count' = s_file_count,
           NEW c2, c2 = FlushChain(chain, fi)
    PROVE  DataSound(c2)'
<1>1. PICK start, f, o : start = FlushStart(fi) /\ f = fi.file /\ o = Flushed(fi)
  OBVIOUS
<1>2. FlushData(chain, c2, fi, f, start)
  BY <1>1, FlushMoves
<1>3. FlushedTo(fi, o, start) /\ fi.is_writable
  BY <1>1, FlushHandle
<1>4. r.in_use => r.file = f /\ PositionsSound(c2[f], r) /\ BufferSound(r)'
  <2> SUFFICES ASSUME r = o
               PROVE  r.file = f /\ PositionsSound(c2[f], r) /\ BufferSound(r)'
    BY <1>1
  <2>1. /\ r.file = f /\ ~r.buffered /\ r.first_cluster = start
        /\ r.current_cluster = start /\ r.current_cluster_idx = 0
        /\ r.last_offset = 0 /\ r.moved_by = "none"
    BY <1>1, <1>3 DEF FlushedTo
  <2>2. Len(c2[f]) \in Nat /\ r.first_cluster = IF Len(c2[f]) = 0 THEN 0 ELSE c2[f][1]
    BY <1>2, <2>1 DEF FlushData
  <2>3. PositionsSound(c2[f], r)
    BY <2>1, <2>2, StartSound
  <2> QED
    BY <2>1, <2>3 DEF BufferSound
<1>5. dir'[f].size = fi.file_size /\ dir'[f] # Absent
  <2>1. start \in AnyCluster /\ fi.file_size \in Sizes
    <3>1. fi \in Handles
      BY DEF Inv, TypeOK
    <3> QED
      BY <1>3, <3>1 DEF FlushedTo, Handles
  <2> QED
    BY <1>2, <2>1, EntryFacts DEF FlushData
<1>6. WriterMoves(chain, c2, fd, f, r)
  <2>1. /\ OnlyFile(chain, c2, f) /\ f \notin wanted.dropped /\ fi.file_size = wanted.size[f]
        /\ Holds(c2[f], fi.file_size)
    BY <1>2 DEF FlushData
  <2>2. wanted.written /\ f = wanted.file =>
            Lies(c2[f], wanted.offset, disk') /\ wanted.offset < fi.file_size
    BY <1>2 DEF FlushData
  <2> QED
    BY <1>1, <1>3, <1>4, <1>5, <2>1, <2>2 DEF WriterMoves
<1> QED
  BY <1>6, WriterStepData

LEMMA FsyncKeepsData ==
    ASSUME NEW chain, Inv(chain), DInv(chain), NEW fd \in Fds, Fsync(fd),
           NEW c2, c2 = FlushChain(chain, s_files[fd])
    PROVE  DInv(c2)'
<1>1. PICK fi, r : fi = s_files[fd] /\ r = Flushed(fi)
  OBVIOUS
<1>2. /\ InUse(fd) /\ fi.buffered /\ CanFlush(fi) /\ disk' = FlushedDisk(fi) /\ wanted' = wanted
      /\ dir' = Flushed(fi).dir_sector_buf /\ s_files' = [s_files EXCEPT ![fd] = r]
      /\ s_file_count' = s_file_count /\ op'.at = "idle"
  BY <1>1 DEF Fsync, pool, Idle
<1>3. DataSound(c2)'
  BY <1>1, <1>2, FlushKeepsData DEF DInv
<1> QED
  BY <1>2, <1>3, IdleWrite DEF DInv

LEMMA PwriteOverflowKeepsData ==
    ASSUME Strict, NEW chain, Inv(chain), DInv(chain), NEW fd \in Fds, NEW offset \in Offsets,
           NEW count \in 1 .. MaxSize, PwriteOverflow(fd, offset, count),
           NEW c2, c2 = FlushChain(chain, s_files[fd])
    PROVE  DInv(c2)'
<1>1. PICK fi, r : fi = s_files[fd] /\ r = Flushed(fi)
  OBVIOUS
<1>2. /\ InUse(fd) /\ fi.buffered /\ CanFlush(fi) /\ disk' = FlushedDisk(fi) /\ wanted' = wanted
      /\ dir' = Flushed(fi).dir_sector_buf /\ s_files' = [s_files EXCEPT ![fd] = r]
      /\ s_file_count' = s_file_count /\ Served(r, offset)
      /\ op' = [NoOp EXCEPT !.at = "overflow", !.fd = fd, !.offset = offset, !.count = count]
  BY <1>1 DEF PwriteOverflow, pool
<1>3. DataSound(c2)'
  BY <1>1, <1>2, FlushKeepsData DEF DInv
<1>4. op'.at = "overflow" /\ op'.fd = fd /\ op'.offset = offset /\ op'.count = count
      /\ op'.done = 0
  BY <1>2 DEF NoOp
<1>5. s_files'[fd] = r
  BY <1>2 DEF Inv, TypeOK
<1>6. r.moved_by = "none" /\ r.file_size = fi.file_size
  <2>1. FlushedTo(fi, r, FlushStart(fi))
    BY <1>1, <1>2, FlushHandle
  <2> QED
    BY <2>1 DEF FlushedTo
<1>7. offset <= r.file_size /\ count > 0
  <2>1. ~(offset > r.file_size)
    BY <1>2, StrictIs
  <2>2. fi \in Handles
    BY <1>1 DEF Inv, TypeOK
  <2>3. fi.file_size \in Sizes
    BY <2>2 DEF Handles
  <2>4. offset \in Nat /\ r.file_size \in Nat
    BY <1>6, <2>3, SizeFacts
  <2>5. count > 0
    BY Constants
  <2> QED
    BY <2>1, <2>4, <2>5
<1>8. WriteSound(c2)'
  BY <1>4, <1>5, <1>6, <1>7 DEF WriteSound
<1> QED
  BY <1>3, <1>8 DEF DInv

-----------------------------------------------------------------------------
\* The writer's copy of the directory sector with another size.
LEMMA SizeWritten ==
    ASSUME NEW chain, Inv(chain), NEW fi \in Handles, HandleSound(chain, fi), fi.is_writable,
           NEW size \in Sizes, dir' = SetSize(fi, size).dir_sector_buf, NEW f, f = fi.file
    PROVE  /\ f \in Files /\ dir'[f] = [first |-> dir[f].first, size |-> size]
           /\ dir'[f] # Absent /\ \A g \in Files \ {f} : dir'[g] = dir[g]
<1>1. fi.dir_sector_buf = dir /\ dir[f] # Absent /\ f \in Files /\ dir \in [Files -> Entries]
  BY DEF HandleSound, Inv, TypeOK
<1>2. PICK b : b = Resized(fi, size)
  OBVIOUS
<1>3. SetSize(fi, size) = [fi EXCEPT !.dir_sector_buf = b] /\ b \in [Files -> Entries]
  BY <1>1, <1>2, SetSizeIs
<1>4. dir' = b
  BY <1>3 DEF Handles
<1>5. dir' = [dir EXCEPT ![f] = [first |-> dir[f].first, size |-> size]]
  BY <1>1, <1>2, <1>4 DEF Resized
<1>6. dir[f].first \in AnyCluster
  BY <1>1, EntryTyped DEF Inv
<1> QED
  BY <1>1, <1>5, <1>6, EntryFacts

LEMMA CloseKeepsData ==
    ASSUME NEW chain, Inv(chain), DInv(chain), NEW fd \in Fds, Close(fd),
           NEW c2, c2 = CloseChain(chain, s_files[fd])
    PROVE  DInv(c2)'
<1>1. PICK fi, f, r : fi = s_files[fd] /\ f = fi.file /\ r = Closed
  OBVIOUS
<1>2. /\ InUse(fd) /\ op' = op /\ op.at = "idle" /\ s_file_count' = s_file_count
      /\ s_files' = [s_files EXCEPT ![fd] = r] /\ ~r.in_use
  BY <1>1 DEF Close, Idle, Release, Closed
<1>3. fi \in Handles /\ HandleSound(chain, fi) /\ fi.file_size \in Sizes /\ DataSound(chain)
  <2>1. fi \in Handles /\ HandleSound(chain, fi) /\ DataSound(chain)
    BY <1>1, <1>2 DEF Inv, CInv, TypeOK, HandlesSound, DInv
  <2> QED
    BY <2>1 DEF Handles
<1>4. DataSound(c2)' => DInv(c2)'
  BY <1>2, IdleWrite DEF DInv
<1>5. CASE ~fi.is_writable /\ UNCHANGED <<volume, wanted>>
  <2>1. c2 = chain /\ ~fi.buffered
    BY <1>1, <1>3, <1>5 DEF CloseChain, HandleSound
  <2>2. QuietMove(chain, fd, r)
    BY <1>1, <1>2, <1>5, <2>1 DEF QuietMove, volume
  <2> QED
    BY <1>3, <1>4, <2>1, <2>2, QuietStepData
<1>6. CASE /\ fi.is_writable /\ fi.buffered /\ CanFlush(fi)
           /\ fat' = FlushedFat(fi)
           /\ disk' = FlushedDisk(fi)
           /\ dir' = Flushed(fi).dir_sector_buf
           /\ UNCHANGED wanted
  <2>1. c2 = FlushChain(chain, fi)
    BY <1>1, <1>6 DEF CloseChain
  <2>2. DataSound(c2)'
    BY <1>1, <1>2, <1>3, <1>6, <2>1, FlushKeepsData
  <2> QED
    BY <1>4, <2>2
<1>7. CASE /\ fi.is_writable /\ fi.buffered /\ ~CanFlush(fi)
           /\ dir' = SetSize(fi, fi.file_size).dir_sector_buf
           /\ wanted' = [Forgotten(fi.file, 0) EXCEPT !.dropped = @ \cup {fi.file}]
           /\ disk' = Held(disk)
           /\ UNCHANGED fat
  <2>1. c2 = chain
    BY <1>1, <1>7 DEF CloseChain
  <2>2. /\ f \in Files /\ dir'[f] = [first |-> dir[f].first, size |-> fi.file_size]
        /\ \A g \in Files \ {f} : dir'[g] = dir[g]
    BY <1>1, <1>3, <1>7, SizeWritten
  <2>3. dir[f] = NoEntry
    BY <1>1, <1>3, <1>7 DEF HandleSound
  <2>4. PICK w : w = Forgotten(f, 0)
    OBVIOUS
  <2>5. /\ w \in Histories /\ w.file = wanted.file /\ w.offset = wanted.offset
        /\ w.dropped = wanted.dropped /\ w.size = [wanted.size EXCEPT ![f] = 0]
        /\ w.written = (wanted.written /\ ~(f = wanted.file /\ wanted.offset >= 0))
    BY <2>2, <2>4, SizeFacts, ForgottenIs DEF Inv
  <2>6. wanted' = [w EXCEPT !.dropped = @ \cup {f}]
    BY <1>1, <1>7, <2>4
  <2>7. /\ wanted'.file = wanted.file /\ wanted'.offset = wanted.offset
        /\ wanted'.dropped = wanted.dropped \cup {f} /\ wanted'.size = w.size
        /\ wanted'.written = w.written
    BY <2>5, <2>6 DEF Histories
  <2>8. wanted.size \in [Files -> Sizes] /\ wanted.offset \in Nat
    BY SizeFacts DEF Inv, TypeOK
  <2>9. wanted'.written => wanted.written /\ wanted.file # f
    <3>1. wanted.offset >= 0
      BY <2>8
    <3>2. wanted'.written = (wanted.written /\ ~(f = wanted.file /\ wanted.offset >= 0))
      BY <2>5, <2>7, Zenon
    <3> QED
      BY <3>1, <3>2, Zenon
  <2>10. wanted'.written => disk' = disk
    BY <1>7 DEF Held
  <2>11. \A g \in Files \ {f} : /\ wanted'.size[g] = wanted.size[g]
                                /\ g \in wanted'.dropped <=> g \in wanted.dropped
    BY <2>5, <2>7, <2>8
  <2>12. OnlyFile(chain, chain, f)
    BY <2>2, <2>7, <2>9, <2>10, <2>11 DEF OnlyFile
  <2>13. dir'[f].first = 0 /\ f \in wanted'.dropped
    BY <2>2, <2>3, <2>7 DEF NoEntry
  <2>14. WriterMoves(chain, chain, fd, f, r)
    BY <1>1, <1>2, <1>7, <2>9, <2>12, <2>13 DEF WriterMoves
  <2> QED
    BY <1>3, <1>4, <2>1, <2>14, WriterStepData
<1>8. CASE /\ fi.is_writable /\ ~fi.buffered
           /\ dir' = SetSize(fi, fi.file_size).dir_sector_buf
           /\ UNCHANGED <<fat, disk, wanted>>
  <2>1. c2 = chain
    BY <1>1, <1>8 DEF CloseChain
  <2>2. /\ f \in Files /\ dir'[f] = [first |-> dir[f].first, size |-> fi.file_size]
        /\ dir'[f] # Absent /\ \A g \in Files \ {f} : dir'[g] = dir[g]
    BY <1>1, <1>3, <1>8, SizeWritten
  <2>3. OnCard(chain[f], fi, f)
    BY <1>1, <1>2, <1>3, <1>8, FileOnCard
  <2>4. OnlyFile(chain, chain, f)
    BY <1>8, <2>2 DEF OnlyFile
  <2>5. dir[f].first = fi.first_cluster
    BY <2>3 DEF OnCard
  <2>6. \/ f \in wanted'.dropped /\ dir'[f].first = 0
        \/ f \notin wanted'.dropped /\ dir'[f].size = wanted'.size[f]
              /\ Holds(chain[f], dir'[f].size)
    BY <1>8, <2>2, <2>3, <2>5 DEF OnCard
  <2>7. wanted.file = f /\ wanted'.written =>
          /\ wanted.offset < wanted'.size[f] /\ f \notin wanted'.dropped
          /\ Lies(chain[f], wanted.offset, disk')
    BY <1>3, <1>8, <2>3 DEF OnCard, DataSound, TrackedSound
  <2>8. WriterMoves(chain, chain, fd, f, r)
    BY <1>1, <1>2, <1>8, <2>2, <2>4, <2>6, <2>7 DEF WriterMoves
  <2> QED
    BY <1>3, <1>4, <2>1, <2>8, WriterStepData
<1> QED
  BY <1>1, <1>5, <1>6, <1>7, <1>8 DEF Close

-----------------------------------------------------------------------------
\* What a write of done chunks at offset makes of the history.
LEMMA WroteData ==
    ASSUME TypeOK, NEW f \in Files, NEW offset \in Nat, NEW done \in Nat,
           offset + done <= MaxSize, wanted' = Wrote(f, offset, done)
    PROVE  /\ wanted'.file = wanted.file /\ wanted'.offset = wanted.offset
           /\ wanted'.dropped = wanted.dropped
           /\ wanted'.size[f] = Larger(wanted.size[f], offset + done)
           /\ \A g \in Files \ {f} : wanted'.size[g] = wanted.size[g]
           /\ wanted'.written /\ ~wanted.written =>
                 /\ wanted.file = f
                 /\ offset <= wanted.offset /\ wanted.offset < offset + done
           /\ wanted.written => wanted'.written
<1>1. PICK w : w = Wrote(f, offset, done)
  OBVIOUS
<1>2. /\ w.file = wanted.file /\ w.offset = wanted.offset /\ w.dropped = wanted.dropped
      /\ w.size = [wanted.size EXCEPT ![f] = Larger(wanted.size[f], offset + done)]
      /\ w.written = (wanted.written \/ Outdated(f, offset .. offset + done - 1))
  BY <1>1, WroteIs
<1>3. wanted.size \in [Files -> Sizes] /\ wanted.offset \in Nat
  BY SizeFacts DEF TypeOK
<1>4. /\ w.size[f] = Larger(wanted.size[f], offset + done)
      /\ \A g \in Files \ {f} : w.size[g] = wanted.size[g]
  BY <1>2, <1>3
<1>5. Outdated(f, offset .. offset + done - 1) =>
          f = wanted.file /\ offset <= wanted.offset /\ wanted.offset < offset + done
  BY <1>3 DEF Outdated
<1>6. wanted' = w
  BY <1>1
<1>7. /\ w.written /\ ~wanted.written => Outdated(f, offset .. offset + done - 1)
      /\ wanted.written => w.written
  BY <1>2, Zenon
<1> QED
  BY <1>2, <1>4, <1>5, <1>6, <1>7

LEMMA PwriteBufferedKeepsData ==
    ASSUME NEW chain, Inv(chain), DInv(chain), NEW fd \in Fds, NEW offset \in Offsets,
           NEW count \in 1 .. MaxSize, offset + count <= MaxSize,
           PwriteBuffered(fd, offset, count)
    PROVE  DInv(chain)'
<1>1. PICK fi, f, size, new, buf :
          /\ fi = s_files[fd] /\ f = fi.file /\ size = Larger(fi.file_size, offset + count)
          /\ new = offset .. offset + count - 1
          /\ buf = (fi.write_buf \/ Outdated(f, new))
  OBVIOUS
<1>2. /\ InUse(fd) /\ op.at = "idle" /\ fi.buffered
      /\ s_files' = [s_files EXCEPT ![fd].write_buf = buf, ![fd].file_size = size]
      /\ disk' = IF Outdated(f, new) THEN {} ELSE disk
      /\ wanted' = Wrote(f, offset, count)
      /\ UNCHANGED <<fat, dir, pool, op>>
  BY <1>1 DEF PwriteBuffered, Idle
<1>3. /\ fi \in Handles /\ HandleSound(chain, fi) /\ s_files \in [Fds -> Handles]
      /\ wanted.offset \in Nat /\ wanted.size \in [Files -> Sizes]
  BY <1>1, <1>2, SizeFacts DEF Inv, CInv, TypeOK, HandlesSound
<1>4. /\ offset \in Nat /\ count \in Nat /\ fi.file_size \in Nat
      /\ f \in Files /\ fi.is_writable /\ dir[f] # Absent
  <2>1. fi.file_size \in Sizes /\ f \in Files /\ fi.is_writable /\ dir[f] # Absent
    BY <1>1, <1>2, <1>3 DEF Handles, HandleSound
  <2>2. count \in Nat
    BY Constants
  <2> QED
    BY <2>1, <2>2, SizeFacts
<1>5. PICK r : r = [fi EXCEPT !.write_buf = buf, !.file_size = size]
  OBVIOUS
<1>6. s_files' = [s_files EXCEPT ![fd] = r]
  BY <1>1, <1>2, <1>3, <1>5
<1>7. r.file = f /\ r.buffered /\ r.in_use /\ r.write_buf = buf /\ r.file_size = size
  BY <1>1, <1>2, <1>3, <1>5 DEF Handles, InUse
<1>8. BufferSound(fi) /\ DataSound(chain)
  BY <1>1, <1>2 DEF DInv, DataSound, Positions
<1>9. f \notin wanted.dropped /\ fi.file_size = wanted.size[f]
      /\ (wanted.written /\ f = wanted.file => fi.write_buf)
  BY <1>1, <1>2, <1>8 DEF BufferSound
<1>10. /\ wanted'.file = wanted.file /\ wanted'.offset = wanted.offset
       /\ wanted'.dropped = wanted.dropped
       /\ wanted'.size[f] = size
       /\ \A g \in Files \ {f} : wanted'.size[g] = wanted.size[g]
       /\ wanted'.written /\ ~wanted.written =>
             /\ wanted.file = f
             /\ offset <= wanted.offset /\ wanted.offset < offset + count
  BY <1>1, <1>2, <1>4, <1>9, WroteData DEF Inv
<1>11. Outdated(f, new) => f = wanted.file
  BY DEF Outdated
<1>12. wanted'.written /\ f = wanted.file => buf
  <2>1. wanted'.written /\ ~wanted.written => Outdated(f, new)
    <3>1. wanted.offset \in Nat
      BY <1>3
    <3> QED
      BY <1>1, <1>4, <1>10, <3>1 DEF Outdated
  <2> QED
    BY <1>1, <1>9, <2>1
<1>13. BufferSound(r)'
  BY <1>7, <1>9, <1>10, <1>12 DEF BufferSound
<1>14. OnlyFile(chain, chain, f)
  BY <1>2, <1>4, <1>10, <1>11 DEF OnlyFile
<1>15. wanted.file = f /\ wanted'.written =>
          /\ wanted.offset < wanted'.size[f] /\ f \notin wanted'.dropped /\ dir'[f] # Absent
  <2>1. size \in Nat /\ offset + count <= size /\ fi.file_size <= size
    BY <1>1, <1>4 DEF Larger
  <2>2. wanted.written /\ wanted.file = f => wanted.offset < fi.file_size
    BY <1>8, <1>9 DEF DataSound, TrackedSound
  <2>3. wanted.file = f /\ wanted'.written => wanted.offset < size
    BY <1>3, <1>4, <1>10, <2>1, <2>2
  <2> QED
    BY <1>2, <1>4, <1>9, <1>10, <2>3
<1>16. PositionsSound(chain[f], r)
  BY <1>7 DEF PositionsSound
<1>17. WriterMoves(chain, chain, fd, f, r)
  BY <1>1, <1>2, <1>4, <1>6, <1>7, <1>13, <1>14, <1>15, <1>16 DEF WriterMoves, pool
<1> QED
  BY <1>2, <1>8, <1>17, WriterStepData, IdleWrite DEF DInv

-----------------------------------------------------------------------------
\* A write begins at the sector of its offset.
LEMMA SectorOf ==
    ASSUME NEW k \in Nat
    PROVE  /\ (k % ClusterChunks) \div SectorChunks \in Nat
           /\ (k \div ClusterChunks) * ClusterSectors + (k % ClusterChunks) \div SectorChunks
                  = k \div SectorChunks
<1>1. /\ ClusterSectors \in Nat \ {0} /\ SectorChunks \in Nat \ {0}
      /\ ClusterChunks \in Nat \ {0} /\ ClusterChunks = SectorChunks * ClusterSectors
  BY Constants
<1>2. PICK a, w : a = k \div ClusterChunks /\ w = k % ClusterChunks
  OBVIOUS
<1>3. a \in Nat /\ w \in Nat /\ k = ClusterChunks * a + w
  <2>1. a \in Nat /\ w \in 0 .. ClusterChunks - 1 /\ k = ClusterChunks * a + w
    BY <1>1, <1>2, Division
  <2> QED
    BY <1>1, <2>1
<1>4. PICK s, v : s = w \div SectorChunks /\ v = w % SectorChunks
  OBVIOUS
<1>5. s \in Nat /\ v \in 0 .. SectorChunks - 1 /\ w = SectorChunks * s + v
  BY <1>1, <1>3, <1>4, Division
<1>6. PICK n : n = a * ClusterSectors + s
  OBVIOUS
<1>7. n \in Nat /\ SectorChunks * n = (SectorChunks * ClusterSectors) * a + SectorChunks * s
  BY <1>1, <1>3, <1>5, <1>6
<1>8. k = SectorChunks * n + v
  BY <1>1, <1>3, <1>5, <1>7
<1>9. (SectorChunks * n + v) \div SectorChunks = n
  BY <1>1, <1>5, <1>7, DivisionUnique
<1> QED
  BY <1>2, <1>4, <1>5, <1>6, <1>8, <1>9

LEMMA PositionAt ==
    ASSUME NEW chain, Inv(chain), NEW fi, fi \in Handles, ~fi.buffered, NEW q,
           q = chain[fi.file], OnCard(q, fi, fi.file), fi.first_cluster # 0,
           NEW offset \in Offsets, offset <= fi.file_size,
           Resumes(fi, offset) => fi.moved_by # "pread" /\ offset % SectorChunks = 0
    PROVE  At(q, Position(fi, offset).cluster, Position(fi, offset).sector,
              offset \div SectorChunks)
<1>1. PICK f, first : f = fi.file /\ first = fi.first_cluster
  OBVIOUS
<1>2. /\ f \in Files /\ Len(q) \in Nat \ {0} /\ first = q[1] /\ PositionsSound(q, fi)
      /\ Holds(q, fi.file_size) /\ Layout(chain) /\ q = chain[f]
  BY <1>1 DEF OnCard, Inv, CInv
<1>3. offset \in Nat /\ fi.file_size \in Nat /\ fi.moved_by \in {"none", "pread", "pwrite"}
  <2>1. fi.file_size \in Sizes /\ fi.moved_by \in {"none", "pread", "pwrite"}
    BY DEF Handles
  <2> QED
    BY <2>1, SizeFacts
<1>4. CASE Resumes(fi, offset)
  <2>1. /\ offset = fi.last_offset /\ offset > 0 /\ fi.moved_by # "pread"
        /\ offset % SectorChunks = 0
    BY <1>4 DEF Resumes
  <2>2. fi.moved_by = "pwrite"
    <3>1. fi.moved_by = "none" => fi.last_offset = 0
      BY <1>2 DEF PositionsSound
    <3> QED
      BY <1>3, <2>1, <3>1
  <2>3. At(q, fi.write_cluster, fi.sector_in_cluster, SectorsFor(offset))
    BY <1>2, <2>1, <2>2 DEF PositionsSound
  <2>4. SectorsFor(offset) = offset \div SectorChunks
    BY <1>3, <2>1, WholeSectors
  <2>5. Position(fi, offset).cluster = fi.write_cluster
        /\ Position(fi, offset).sector = fi.sector_in_cluster
    BY <1>4 DEF Position
  <2> QED
    BY <2>3, <2>4, <2>5
<1>5. CASE ~Resumes(fi, offset)
  <2>1. PICK target, links, within :
            /\ target = offset \div ClusterChunks /\ links = LinksFrom(first, target)
            /\ within = (offset % ClusterChunks) \div SectorChunks
    OBVIOUS
  <2>2. target \in Nat /\ within \in Nat
        /\ target * ClusterSectors + within = offset \div SectorChunks
    BY <1>3, <2>1, SectorOf, Constants, Division
  <2>3. /\ links \in Nat /\ links <= target /\ links + 1 <= Len(q)
        /\ links = target \/ links + 1 = Len(q)
        /\ Walk(first, links) = q[links + 1]
    <3>1. Begins(chain, f, target, links)
      BY <1>2, <2>1 DEF Begins
    <3> QED
      BY <1>2, <2>2, <3>1, LinksIs
  <2>4. /\ Position(fi, offset).cluster = q[links + 1]
        /\ Position(fi, offset).sector = IF links < target THEN ClusterSectors ELSE within
    BY <1>1, <1>5, <2>1, <2>3 DEF Position
  <2>5. CASE links = target
    <3>1. target + 1 \in 1 .. Len(q) /\ (target + 1) - 1 = target
      BY <1>2, <2>2, <2>3, <2>5
    <3>2. Position(fi, offset).sector = within
      BY <2>2, <2>4, <2>5
    <3>3. ((target + 1) - 1) * ClusterSectors + within = offset \div SectorChunks
      BY <2>2, <3>1
    <3> QED
      BY <2>4, <2>5, <3>1, <3>2, <3>3 DEF At
  <2>6. CASE links # target
    <3>1. PICK m : m = Len(q)
      OBVIOUS
    <3>2. m \in Nat \ {0} /\ links + 1 = m /\ m <= target /\ offset <= m * ClusterChunks
      <4>1. m \in Nat \ {0} /\ links + 1 = m /\ m <= target
        BY <1>2, <2>2, <2>3, <2>6, <3>1
      <4>2. fi.file_size <= m * ClusterChunks
        BY <1>2, <3>1 DEF Holds
      <4>3. PICK z : z = m * ClusterChunks
        OBVIOUS
      <4>4. z \in Nat
        BY <4>1, <4>3, Constants
      <4>5. offset <= z
        BY <1>3, <4>2, <4>3, <4>4
      <4> QED
        BY <4>1, <4>3, <4>5
    <3>3. offset = ClusterChunks * target + (offset % ClusterChunks)
          /\ offset % ClusterChunks \in Nat
      <4>1. /\ offset = ClusterChunks * target + (offset % ClusterChunks)
            /\ offset % ClusterChunks \in 0 .. ClusterChunks - 1
        BY <1>3, <2>1, Constants, Division
      <4> QED
        BY <4>1, Constants
    <3>4. ClusterChunks * m <= ClusterChunks * target /\ ClusterChunks * m \in Nat
          /\ ClusterChunks * target \in Nat /\ ClusterChunks * m = m * ClusterChunks
      BY <2>2, <3>2, Constants, Times
    <3>5. offset = ClusterChunks * m
      BY <1>3, <3>2, <3>3, <3>4
    <3>6. PICK n : n = m * ClusterSectors
      OBVIOUS
    <3>7. n \in Nat /\ SectorChunks * n = ClusterChunks * m
          /\ (m - 1) * ClusterSectors + ClusterSectors = n
      BY <3>2, <3>6, Constants
    <3>8. offset \div SectorChunks = n
      <4>1. offset = SectorChunks * n + 0 /\ 0 \in 0 .. SectorChunks - 1
        BY <1>3, <3>5, <3>7, Constants
      <4> QED
        BY <3>7, <4>1, Constants, DivisionUnique
    <3>9. links < target /\ m \in 1 .. m
      BY <2>2, <2>3, <2>6, <3>2
    <3>10. Position(fi, offset).cluster = q[m] /\ Position(fi, offset).sector = ClusterSectors
      BY <2>4, <3>2, <3>9
    <3> QED
      BY <3>1, <3>7, <3>8, <3>9, <3>10 DEF At
  <2> QED
    BY <2>5, <2>6
<1> QED
  BY <1>4, <1>5

\* A step that leaves files, entries, data and history alone.
LEMMA DataSame ==
    ASSUME NEW chain, TypeOK, DataSound(chain),
           UNCHANGED <<disk, dir, s_files, s_file_count, wanted>>
    PROVE  DataSound(chain)'
<1>1. Positions(chain)'
  BY DEF DataSound, Positions, PositionsSound, BufferSound, InUse
<1>2. \A g \in Files : Buffering(g)' = Buffering(g)
  BY DEF Buffering, Readers, InUse
<1>3. wanted.file \in Files
  BY DEF TypeOK
<1>4. EntriesSound(chain)' /\ TrackedSound(chain)'
  BY <1>2, <1>3 DEF DataSound, EntriesSound, EntrySound, TrackedSound
<1> QED
  BY <1>1, <1>4 DEF DataSound

\* A write in place begins.
LEMMA StartData ==
    ASSUME NEW chain, Inv(chain), DInv(chain), NEW fd \in Fds, InUse(fd), NEW fi,
           fi = s_files[fd], fi.is_writable, ~fi.buffered, fi.first_cluster # 0,
           NEW offset \in Offsets, NEW count \in Sizes, offset + count <= MaxSize, count > 0,
           offset <= fi.file_size,
           Resumes(fi, offset) => fi.moved_by # "pread" /\ offset % SectorChunks = 0,
           StartWriting(fi, fd, offset, count), UNCHANGED <<volume, s_files, pool, wanted>>
    PROVE  DInv(chain)'
<1>1. /\ op'.at = "write" /\ op'.fd = fd /\ op'.offset = offset /\ op'.count = count
      /\ op'.done = 0
      /\ op'.cluster = Position(fi, offset).cluster
      /\ op'.index = Position(fi, offset).sector
  BY StartWritingIs
<1>2. PICK q : q = chain[fi.file]
  OBVIOUS
<1>3. fi \in Handles /\ OnCard(q, fi, fi.file)
  BY <1>2, FileOnCard DEF Inv, TypeOK, DInv
<1>4. At(q, op'.cluster, op'.index, offset \div SectorChunks)
  BY <1>1, <1>2, <1>3, PositionAt
<1>5. offset \in Nat /\ count \in Nat /\ wanted.offset \in Nat /\ offset + 0 = offset
  <2>1. wanted.offset \in Offsets
    BY DEF Inv, TypeOK
  <2>2. offset \in Nat /\ count \in Nat /\ wanted.offset \in Nat
    BY <2>1, SizeFacts
  <2> QED
    BY <2>2
<1>6. WriteAt(q, op')
  BY <1>1, <1>4, <1>5 DEF WriteAt
<1>7. UNCHANGED <<fat, disk, dir, s_files, s_file_count, wanted>>
  BY DEF volume, pool
<1>8. WriteSound(chain)'
  <2>1. chain[s_files'[fd].file] = q /\ s_files'[fd] = fi
    BY <1>2, <1>7
  <2>2. ~(op'.offset <= wanted'.offset /\ wanted'.offset < op'.offset + op'.done)
    BY <1>1, <1>5, <1>7
  <2>3. WriteAt(chain[s_files[fd].file], op)'
    BY <1>6, <2>1 DEF WriteAt
  <2>4. WriteAt(chain[s_files[op.fd].file], op)'
    BY <1>1, <2>3 DEF WriteAt
  <2> QED
    BY <1>1, <2>1, <2>2, <2>4 DEF WriteSound
<1>9. DataSound(chain)'
  BY <1>7, DataSame DEF DInv, Inv
<1> QED
  BY <1>8, <1>9 DEF DInv

LEMMA PwriteDirectKeepsData ==
    ASSUME Strict, NEW chain, Inv(chain), DInv(chain), NEW fd \in Fds, NEW offset \in Offsets,
           NEW count \in 1 .. MaxSize, offset + count <= MaxSize,
           PwriteDirect(fd, offset, count)
    PROVE  DInv(chain)'
<1>1. PICK fi : fi = s_files[fd]
  OBVIOUS
<1>2. /\ InUse(fd) /\ fi.is_writable /\ ~fi.buffered /\ Served(fi, offset)
      /\ StartWriting(fi, fd, offset, count)
      /\ UNCHANGED <<volume, s_files, pool, wanted>>
  BY <1>1 DEF PwriteDirect
<1>3. /\ fi.first_cluster # 0 /\ ~(offset > fi.file_size)
      /\ Resumes(fi, offset) => fi.moved_by # "pread" /\ offset % SectorChunks = 0
  BY <1>2, StrictIs
<1>4. count \in Sizes /\ count > 0
  BY Constants, SizeFacts
<1>5. offset <= fi.file_size
  <2>1. fi \in Handles
    BY <1>1 DEF Inv, TypeOK
  <2>2. fi.file_size \in Sizes
    BY <2>1 DEF Handles
  <2>3. offset \in Nat /\ fi.file_size \in Nat
    BY <2>2, SizeFacts
  <2> QED
    BY <1>3, <2>3
<1> QED
  BY <1>1, <1>2, <1>3, <1>4, <1>5, StartData

LEMMA PwriteOverflowDirectKeepsData ==
    ASSUME NEW chain, Inv(chain), DInv(chain), PwriteOverflowDirect
    PROVE  DInv(chain)'
<1>1. PICK fd, fi, offset, count :
          fd = op.fd /\ fi = s_files[fd] /\ offset = op.offset /\ count = op.count
  OBVIOUS
<1>2. /\ op.at = "overflow" /\ StartWriting(fi, fd, offset, count)
      /\ UNCHANGED <<volume, s_files, pool, wanted>>
  BY <1>1 DEF PwriteOverflowDirect
<1>3. /\ fd \in Fds /\ offset \in Offsets /\ count \in Sizes
      /\ InUse(fd) /\ fi.is_writable /\ ~fi.buffered /\ fi.first_cluster # 0
      /\ offset + count <= MaxSize
  BY <1>1, <1>2 DEF Inv, CInv, TypeOK, OpSound
<1>4. offset <= fi.file_size /\ count > 0 /\ fi.moved_by = "none"
  BY <1>1, <1>2 DEF DInv, WriteSound
<1>5. ~Resumes(fi, offset)
  <2>1. PositionsSound(chain[fi.file], fi)
    BY <1>1, <1>3 DEF DInv, DataSound, Positions
  <2>2. fi.last_offset = 0
    BY <1>3, <1>4, <2>1 DEF PositionsSound
  <2> QED
    BY <2>2 DEF Resumes
<1> QED
  BY <1>1, <1>2, <1>3, <1>4, <1>5, StartData

-----------------------------------------------------------------------------
\* The clusters of file f go on in c2 behind those of chain; the other files' stay.
Grows(chain, c2, f) ==
    /\ \A g \in Files \ {f} : c2[g] = chain[g]
    /\ Len(chain[f]) \in Nat /\ Len(c2[f]) \in Nat /\ Len(chain[f]) <= Len(c2[f])
    /\ \A i \in 1 .. Len(chain[f]) : c2[f][i] = chain[f][i]

LEMMA GrownData ==
    ASSUME NEW chain, NEW c2, NEW f, Grows(chain, c2, f)
    PROVE  /\ \A k \in Nat : \A d : Lies(chain[f], k, d) => Lies(c2[f], k, d)
           /\ \A c, s, n : At(chain[f], c, s, n) => At(c2[f], c, s, n)
           /\ \A size \in Nat : Holds(chain[f], size) => Holds(c2[f], size)
           /\ \A r \in Handles : PositionsSound(chain[f], r) => PositionsSound(c2[f], r)
<1>1. PICK m, n : m = Len(chain[f]) /\ n = Len(c2[f])
  OBVIOUS
<1>2. m \in Nat /\ n \in Nat /\ m <= n /\ \A i \in 1 .. m : i \in 1 .. n /\ c2[f][i] = chain[f][i]
  BY <1>1 DEF Grows
<1>3. ASSUME NEW k \in Nat, NEW d, Lies(chain[f], k, d) PROVE Lies(c2[f], k, d)
  <2>1. PICK a : a = k \div ClusterChunks
    OBVIOUS
  <2>2. a \in Nat
    BY <2>1, Constants, Division
  <2>3. a < m /\ <<chain[f][a + 1], k % ClusterChunks>> \in d
    BY <1>1, <1>3, <2>1 DEF Lies
  <2>4. a < n /\ a + 1 \in 1 .. m
    BY <1>2, <2>2, <2>3
  <2> QED
    BY <1>1, <1>2, <2>1, <2>3, <2>4 DEF Lies
<1>4. \A c, s, e : At(chain[f], c, s, e) => At(c2[f], c, s, e)
  BY <1>1, <1>2 DEF At
<1>5. ASSUME NEW size \in Nat, Holds(chain[f], size) PROVE Holds(c2[f], size)
  <2>1. ClusterChunks * m <= ClusterChunks * n
    BY <1>2, Constants, Times
  <2>2. /\ ClusterChunks * m = m * ClusterChunks /\ ClusterChunks * n = n * ClusterChunks
        /\ ClusterChunks * m \in Nat /\ ClusterChunks * n \in Nat
    BY <1>2, Constants
  <2>3. size <= m * ClusterChunks
    BY <1>1, <1>5 DEF Holds
  <2>4. size <= n * ClusterChunks
    BY <2>1, <2>2, <2>3
  <2> QED
    BY <1>1, <2>4 DEF Holds
<1>6. ASSUME NEW r \in Handles, PositionsSound(chain[f], r) PROVE PositionsSound(c2[f], r)
  <2> SUFFICES ASSUME ~r.buffered, r.first_cluster # 0 PROVE PositionsSound(c2[f], r)
    BY DEF PositionsSound
  <2>1. PICK j : j = r.current_cluster_idx
    OBVIOUS
  <2>2. j \in Nat
    <3>1. j \in Sizes
      BY <2>1 DEF Handles
    <3> QED
      BY <3>1, SizeFacts
  <2>3. ASSUME r.moved_by # "pwrite"
        PROVE  j < n /\ r.current_cluster = c2[f][j + 1] /\ j * ClusterChunks <= r.last_offset
    <3>1. j < m /\ r.current_cluster = chain[f][j + 1] /\ j * ClusterChunks <= r.last_offset
      BY <1>1, <1>6, <2>1, <2>3 DEF PositionsSound
    <3>2. j + 1 \in 1 .. m /\ j < n
      BY <1>2, <2>2, <3>1
    <3> QED
      BY <1>2, <3>1, <3>2
  <2>4. r.moved_by = "none" => r.last_offset = 0
    BY <1>6 DEF PositionsSound
  <2>5. r.moved_by = "pwrite" =>
            At(c2[f], r.write_cluster, r.sector_in_cluster, SectorsFor(r.last_offset))
    BY <1>4, <1>6 DEF PositionsSound
  <2> QED
    BY <1>1, <2>1, <2>3, <2>4, <2>5 DEF PositionsSound
<1> QED
  BY <1>3, <1>4, <1>5, <1>6

\* One iteration of a write in place.
LEMMA WriteOnKeepsData ==
    ASSUME NEW chain, Inv(chain), DInv(chain), op.at = "write", op.done < op.count,
           NEW c \in Clusters, NEW s \in 0 .. ClusterSectors - 1, WriteChunks(c, s),
           UNCHANGED <<dir, s_files, pool, wanted>>,
           NEW f, f = s_files[op.fd].file, NEW c2, Apart(c2), Grows(chain, c2, f),
           At(c2[f], c, s, (op.offset + op.done) \div SectorChunks)
    PROVE  DInv(c2)'
<1>1. PICK fd, fi, at : fd = op.fd /\ fi = s_files[fd] /\ at = op.offset + op.done
  OBVIOUS
<1>2. /\ fd \in Fds /\ InUse(fd) /\ fi.is_writable /\ ~fi.buffered /\ fi.first_cluster # 0
      /\ op.offset + op.count <= MaxSize /\ f \in Files /\ fi \in Handles /\ f = fi.file
      /\ op.offset \in Nat /\ op.done \in Nat /\ at \in Nat
  <2>1. op.offset \in Nat /\ op.done \in Nat
    BY Writing
  <2> QED
    BY <1>1, <2>1, Writing
<1>3. /\ op'.at = "write" /\ op'.fd = fd /\ op'.offset = op.offset
  BY <1>1, <1>2, WriteChunksIs DEF Inv
<1>4. /\ WriteAt(c2[f], op')
      /\ Lies(c2[wanted.file], wanted.offset, disk) =>
            Lies(c2[wanted.file], wanted.offset, disk')
      /\ f = wanted.file /\ at <= wanted.offset
            /\ wanted.offset < op'.offset + op'.done => Lies(c2[f], wanted.offset, disk')
  BY <1>1, <1>2, ChunksWritten DEF Inv
<1>5. UNCHANGED <<dir, s_files, s_file_count, wanted>>
  BY DEF pool
<1>6. OnCard(chain[f], fi, f) /\ DataSound(chain) /\ s_files \in [Fds -> Handles]
  BY <1>1, <1>2, FileOnCard DEF DInv, Inv, TypeOK
<1>7. wanted.offset \in Nat /\ wanted.file \in Files /\ fi.file_size \in Nat
  <2>1. wanted.offset \in Offsets /\ wanted.file \in Files
    BY DEF Inv, TypeOK
  <2>2. fi.file_size \in Sizes
    BY <1>2 DEF Handles
  <2> QED
    BY <2>1, <2>2, SizeFacts
<1>8. \A g \in Files \ {f} : c2[g] = chain[g]
  BY DEF Grows
<1>9. /\ Lies(chain[f], wanted.offset, disk) => Lies(c2[f], wanted.offset, disk)
      /\ Holds(chain[f], fi.file_size) => Holds(c2[f], fi.file_size)
      /\ PositionsSound(chain[f], fi) => PositionsSound(c2[f], fi)
  BY <1>2, <1>7, GrownData
<1>10. DataSound(c2)'
  <2>1. OnlyFile(chain, c2, f)
    BY <1>2, <1>4, <1>5, <1>7, <1>8 DEF OnlyFile
  <2>2. f \notin wanted.dropped /\ dir[f].size = wanted.size[f] /\ Holds(c2[f], dir[f].size)
        /\ dir[f] # Absent /\ PositionsSound(c2[f], fi)
    BY <1>2, <1>6, <1>9 DEF OnCard
  <2>3. wanted.file = f /\ wanted.written =>
          wanted.offset < wanted.size[f] /\ Lies(c2[f], wanted.offset, disk')
    BY <1>4, <1>6, <1>9 DEF OnCard, DataSound, TrackedSound
  <2>4. BufferSound(fi)'
    BY <1>2 DEF BufferSound
  <2>5. s_files' = [s_files EXCEPT ![fd] = fi]
    BY <1>1, <1>2, <1>5, <1>6
  <2>6. WriterMoves(chain, c2, fd, f, fi)
    BY <1>1, <1>2, <1>5, <2>1, <2>2, <2>3, <2>4, <2>5 DEF WriterMoves
  <2> QED
    BY <1>2, <1>6, <2>6, WriterStepData
<1>11. f = wanted.file /\ op.offset <= wanted.offset /\ wanted.offset < op'.offset + op'.done
           => Lies(c2[f], wanted.offset, disk')
  <2> SUFFICES ASSUME f = wanted.file, op.offset <= wanted.offset,
                      wanted.offset < op'.offset + op'.done
               PROVE  Lies(c2[f], wanted.offset, disk')
    OBVIOUS
  <2>1. CASE at <= wanted.offset
    BY <1>4, <2>1
  <2>2. CASE ~(at <= wanted.offset)
    <3>1. wanted.offset < op.offset + op.done
      BY <1>1, <1>2, <1>7, <2>2
    <3>2. Lies(chain[f], wanted.offset, disk)
      BY <1>1, <1>2, <3>1 DEF DInv, WriteSound
    <3> QED
      BY <1>4, <1>9, <3>2
  <2> QED
    BY <2>1, <2>2
<1>12. WriteSound(c2)'
  <2>1. op.offset <= fi.file_size
    BY <1>1 DEF DInv, WriteSound
  <2>2. s_files'[op'.fd] = fi
    BY <1>1, <1>3, <1>5
  <2>3. WriteAt(c2[s_files[op.fd].file], op)'
    BY <1>2, <1>4, <2>2 DEF WriteAt
  <2> QED
    BY <1>2, <1>3, <1>5, <1>11, <2>1, <2>2, <2>3 DEF WriteSound
<1> QED
  BY <1>10, <1>12 DEF DInv

LEMMA LaidApart == ASSUME NEW chain, Layout(chain) PROVE Apart(chain)
BY DEF Layout, Laid, Apart

LEMMA SameGrows ==
    ASSUME NEW chain, Layout(chain), NEW f \in Files
    PROVE  Grows(chain, chain, f)
BY ChainFacts DEF Layout, Grows

LEMMA PwriteSectorKeepsData ==
    ASSUME NEW chain, Inv(chain), DInv(chain), PwriteSector
    PROVE  DInv(chain)'
<1>1. PICK c, s, f : c = op.cluster /\ s = op.index /\ f = s_files[op.fd].file
  OBVIOUS
<1>2. /\ op.at = "write" /\ op.done < op.count /\ s < ClusterSectors
      /\ UNCHANGED <<dir, s_files, pool, wanted>> /\ WriteChunks(c, s)
  BY <1>1 DEF PwriteSector
<1>3. f \in Files /\ c \in Clusters
  BY <1>1, <1>2, Writing, InChainIs DEF Inv, CInv
<1>4. s \in 0 .. ClusterSectors - 1
  BY <1>1, <1>2, Constants DEF Inv, TypeOK
<1>5. WriteAt(chain[f], op)
  BY <1>1, <1>2 DEF DInv, WriteSound
<1>6. At(chain[f], c, s, (op.offset + op.done) \div SectorChunks)
  BY <1>1, <1>2, <1>5 DEF WriteAt
<1>7. Apart(chain) /\ Grows(chain, chain, f)
  BY <1>3, LaidApart, SameGrows DEF Inv, CInv
<1> QED
  BY <1>1, <1>2, <1>3, <1>4, <1>6, <1>7, WriteOnKeepsData

LEMMA PwriteNextClusterKeepsData ==
    ASSUME NEW chain, Inv(chain), DInv(chain), PwriteNextCluster
    PROVE  DInv(chain)'
<1>1. PICK c, s, f, q, n :
          /\ c = Chained(op.cluster) /\ s = 0 /\ f = s_files[op.fd].file /\ q = chain[f]
          /\ n = (op.offset + op.done) \div SectorChunks
  OBVIOUS
<1>2. /\ op.at = "write" /\ op.done < op.count /\ op.index >= ClusterSectors /\ IsLink(c)
      /\ UNCHANGED <<dir, s_files, pool, wanted>> /\ WriteChunks(c, s)
  BY <1>1 DEF PwriteNextCluster
<1>3. f \in Files /\ Layout(chain) /\ InChain(chain, f, op.cluster)
  BY <1>1, <1>2, Writing DEF Inv, CInv
<1>4. op.index = ClusterSectors
  BY <1>2, Constants DEF Inv, TypeOK
<1>5. PICK p \in 1 .. Len(q) : q[p] = op.cluster /\ (p - 1) * ClusterSectors + ClusterSectors = n
  <2>1. WriteAt(q, op)
    BY <1>1, <1>2 DEF DInv, WriteSound
  <2> QED
    BY <1>1, <1>2, <1>4, <2>1 DEF WriteAt, At
<1>6. PICK i \in 1 .. Len(q) :
          /\ op.cluster = q[i] /\ Len(q) \in Nat
          /\ c = IF i = Len(q) THEN Eoc ELSE q[i + 1]
  BY <1>1, <1>3, InChainIs
<1>7. i = p
  <2>1. Apart(chain)
    BY <1>3, LaidApart
  <2>2. \A j, k \in 1 .. Len(q) : q[j] = q[k] => j = k
    BY <1>1, <1>3, <2>1 DEF Apart
  <2> QED
    BY <1>5, <1>6, <2>2
<1>8. p # Len(q) /\ c = q[p + 1] /\ p + 1 \in 1 .. Len(q)
  <2>1. i # Len(q) /\ c = q[i + 1]
    BY <1>2, <1>6, ClusterFacts
  <2> QED
    BY <1>6, <1>7, <2>1
<1>9. c \in Clusters
  BY <1>1, <1>3, <1>8, ChainFacts DEF Layout
<1>10. At(q, c, s, n)
  <2>1. (p + 1) - 1 = p /\ p \in Nat
    BY <1>5, <1>6
  <2>2. (p - 1) * ClusterSectors + ClusterSectors = p * ClusterSectors + s
    BY <1>1, <2>1, Constants
  <2> QED
    BY <1>5, <1>8, <2>1, <2>2 DEF At
<1>11. s \in 0 .. ClusterSectors - 1
  BY <1>1, Constants
<1>12. Apart(chain) /\ Grows(chain, chain, f)
  BY <1>3, LaidApart, SameGrows
<1> QED
  BY <1>1, <1>2, <1>9, <1>10, <1>11, <1>12, WriteOnKeepsData

LEMMA PwriteExtendKeepsData ==
    ASSUME NEW chain, Inv(chain), DInv(chain), PwriteExtend,
           NEW n, n = Batch(op.count - op.done), NEW start, start = BatchStart(op.cluster, n),
           NEW c2, c2 = ExtendChain(chain, s_files[op.fd].file, start, n)
    PROVE  DInv(c2)'
<1>1. PICK s, f, q, e :
          /\ s = 0 /\ f = s_files[op.fd].file /\ q = chain[f]
          /\ e = (op.offset + op.done) \div SectorChunks
  OBVIOUS
<1>2. /\ op.at = "write" /\ op.done < op.count /\ op.index >= ClusterSectors
      /\ UNCHANGED <<dir, s_files, pool, wanted>> /\ WriteChunks(start, s)
  BY <1>1 DEF PwriteExtend
<1>3. /\ Inv(c2)' /\ n \in Nat \ {0} /\ start \in Nat /\ FreeRun(fat, start, n)
      /\ op.cluster = q[Len(q)]
  BY <1>1, PwriteExtendKeepsInv
<1>4. f \in Files /\ Layout(chain) /\ Len(q) \in Nat
  BY <1>1, <1>2, Writing, ChainFacts DEF Inv, CInv, Layout
<1>5. op.index = ClusterSectors
  BY <1>2, Constants DEF Inv, TypeOK
<1>6. PICK p \in 1 .. Len(q) : q[p] = op.cluster /\ (p - 1) * ClusterSectors + ClusterSectors = e
  <2>1. WriteAt(q, op)
    BY <1>1, <1>2 DEF DInv, WriteSound
  <2> QED
    BY <1>1, <1>2, <1>5, <2>1 DEF WriteAt, At
<1>7. p = Len(q)
  <2>1. PICK m : m = Len(q)
    OBVIOUS
  <2>2. m \in 1 .. Len(q) /\ q[p] = q[m]
    BY <1>3, <1>4, <1>6, <2>1
  <2>3. \A i, j \in 1 .. Len(q) : q[i] = q[j] => i = j
    BY <1>1, <1>4 DEF Layout, Laid
  <2> QED
    BY <1>6, <2>1, <2>2, <2>3
<1>8. /\ Len(c2[f]) = Len(q) + n /\ \A i \in 1 .. Len(q) : c2[f][i] = q[i]
      /\ c2[f][Len(q) + 1] = start /\ \A g \in Files \ {f} : c2[g] = chain[g]
  <2>1. PICK first : first = [g \in Files |-> First(g)]
    OBVIOUS
  <2>2. Laid(fat, first, chain)
    BY <1>4, <2>1 DEF Layout
  <2>3. c2 = ExtendChain(chain, f, start, n)
    BY <1>1
  <2>4. /\ Len(c2[f]) = Len(chain[f]) + n
        /\ \A i \in 1 .. Len(chain[f]) : c2[f][i] = chain[f][i]
        /\ c2[f][Len(chain[f]) + 1] = start
        /\ \A g \in Files \ {f} : c2[g] = chain[g]
    <3>1. f \in Files /\ n \in Nat \ {0} /\ start \in Nat /\ FreeRun(fat, start, n)
      BY <1>3, <1>4
    <3> QED
      BY <2>2, <2>3, <3>1, InExtended
  <2> QED
    BY <1>1, <2>4
<1>9. Grows(chain, c2, f)
  <2>1. PICK m : m = Len(q)
    OBVIOUS
  <2>2. m \in Nat /\ Len(c2[f]) = m + n /\ m + n \in Nat /\ m <= m + n
    BY <1>3, <1>4, <1>8, <2>1
  <2> QED
    BY <1>1, <1>8, <2>1, <2>2 DEF Grows
<1>10. Apart(c2)
  BY <1>3 DEF Inv, CInv, Layout, Laid, Apart
<1>11. At(c2[f], start, s, e)
  <2>1. p + 1 \in 1 .. Len(c2[f]) /\ (p + 1) - 1 = p /\ p \in Nat
    BY <1>3, <1>4, <1>7, <1>8
  <2>2. (p - 1) * ClusterSectors + ClusterSectors = p * ClusterSectors + s
    BY <1>1, <2>1, Constants
  <2> QED
    BY <1>6, <1>7, <1>8, <2>1, <2>2 DEF At
<1>12. start \in Clusters
  BY <1>3, RunFacts
<1>13. s \in 0 .. ClusterSectors - 1
  BY <1>1, Constants
<1> QED
  BY <1>1, <1>2, <1>9, <1>10, <1>11, <1>12, <1>13, WriteOnKeepsData

LEMMA PwriteFullKeepsData ==
    ASSUME NEW chain, Inv(chain), DInv(chain), PwriteFull
    PROVE  DInv(chain)'
<1>1. /\ op.at = "write" /\ op.done < op.count /\ UNCHANGED <<volume, s_files, pool, wanted>>
      /\ op' = IF op.done = 0 THEN NoOp ELSE [op EXCEPT !.count = op.done]
  BY DEF PwriteFull
<1>2. UNCHANGED <<disk, dir, s_files, s_file_count, wanted>>
  BY <1>1 DEF pool, volume
<1>3. DataSound(chain)'
  BY <1>2, DataSame DEF DInv, Inv
<1>4. CASE op.done = 0
  <2>1. op'.at = "idle"
    BY <1>1, <1>4 DEF NoOp
  <2> QED
    BY <1>3, <2>1, IdleWrite DEF DInv
<1>5. CASE op.done # 0
  <2>1. op' = [op EXCEPT !.count = op.done] /\ op \in Ops
    BY <1>1, <1>5 DEF Inv, TypeOK, Ops
  <2>2. /\ op'.at = op.at /\ op'.fd = op.fd /\ op'.offset = op.offset
        /\ op'.count = op.done /\ op'.done = op.done /\ op'.cluster = op.cluster
        /\ op'.index = op.index
    BY <2>1 DEF Ops
  <2>3. PICK q, at : q = chain[s_files[op.fd].file] /\ at = op.offset + op.done
    OBVIOUS
  <2>4. op.done \in Nat /\ op.offset \in Nat /\ at \in Nat /\ 0 < op.done
    <3>1. op.done \in Nat /\ op.offset \in Nat
      BY <1>1, Writing
    <3> QED
      BY <1>5, <2>3, <3>1
  <2>5. WriteSound(chain) /\ WriteAt(q, op)
    BY <1>1, <2>3 DEF DInv, WriteSound
  <2>6. At(q, op.cluster, op.index, SectorsFor(at))
    <3>1. at % SectorChunks = 0 /\ At(q, op.cluster, op.index, at \div SectorChunks)
      BY <1>1, <2>3, <2>4, <2>5 DEF WriteAt
    <3> QED
      BY <2>4, <3>1, WholeSectors
  <2>7. WriteAt(q, op')
    BY <2>2, <2>3, <2>4, <2>6 DEF WriteAt
  <2>8. WriteAt(chain[s_files[op.fd].file], op)'
    BY <1>2, <2>2, <2>3, <2>7 DEF WriteAt
  <2>9. WriteSound(chain)'
    BY <1>1, <1>2, <2>2, <2>5, <2>8 DEF WriteSound
  <2> QED
    BY <1>3, <2>9 DEF DInv
<1> QED
  BY <1>4, <1>5

\* The clusters up to a position hold what has been written up to there.
LEMMA HeldUpTo ==
    ASSUME NEW q, Len(q) \in Nat, NEW c, NEW s \in 0 .. ClusterSectors, NEW end \in Nat,
           At(q, c, s, SectorsFor(end))
    PROVE  Holds(q, end)
<1>1. PICK p \in 1 .. Len(q) : (p - 1) * ClusterSectors + s = SectorsFor(end)
  BY DEF At
<1>2. PICK m, n : m = Len(q) /\ n = SectorsFor(end)
  OBVIOUS
<1>3. /\ m \in Nat /\ n \in Nat /\ end <= n * SectorChunks
      /\ ClusterSectors \in Nat \ {0} /\ SectorChunks \in Nat \ {0}
      /\ ClusterChunks = SectorChunks * ClusterSectors
  BY <1>2, Constants, Padded
<1>4. n <= ClusterSectors * m
  <2>1. p \in Nat /\ p <= m /\ p - 1 \in Nat
    BY <1>1, <1>2
  <2>2. (p - 1) * ClusterSectors = ClusterSectors * p - ClusterSectors
        /\ ClusterSectors * p \in Nat /\ ClusterSectors * m \in Nat
    BY <1>3, <2>1
  <2>3. ClusterSectors * p <= ClusterSectors * m
    BY <1>3, <2>1, Times
  <2> QED
    BY <1>1, <1>2, <1>3, <2>2, <2>3
<1>5. SectorChunks * n <= SectorChunks * (ClusterSectors * m)
  <2>1. PICK b : b = ClusterSectors * m
    OBVIOUS
  <2>2. b \in Nat /\ n <= b
    BY <1>3, <1>4, <2>1
  <2>3. SectorChunks * n <= SectorChunks * b
    BY <1>3, <2>2, Times
  <2> QED
    BY <2>1, <2>3
<1>6. /\ SectorChunks * (ClusterSectors * m) = m * ClusterChunks
      /\ SectorChunks * n = n * SectorChunks /\ SectorChunks * n \in Nat
      /\ m * ClusterChunks \in Nat
  BY <1>3
<1>7. end <= m * ClusterChunks
  BY <1>3, <1>5, <1>6
<1> QED
  BY <1>2, <1>7 DEF Holds

LEMMA PwriteEndKeepsData ==
    ASSUME NEW chain, Inv(chain), DInv(chain), PwriteEnd
    PROVE  DInv(chain)'
<1>1. PICK fd, fi, f, q, size, end :
          /\ fd = op.fd /\ fi = s_files[fd] /\ f = fi.file /\ q = chain[f]
          /\ end = op.offset + op.done /\ size = Larger(fi.file_size, end)
  OBVIOUS
<1>2. PICK w, r :
          /\ w = SetSize(fi, size)
          /\ r = [w EXCEPT !.write_cluster = op.cluster, !.sector_in_cluster = op.index,
                           !.file_size = size, !.last_offset = end, !.moved_by = "pwrite"]
  OBVIOUS
<1>3. /\ op.at = "write" /\ op.done = op.count
      /\ s_files' = [s_files EXCEPT ![fd] = r] /\ dir' = w.dir_sector_buf
      /\ wanted' = Wrote(f, op.offset, op.done) /\ op' = NoOp
      /\ disk' = disk /\ s_file_count' = s_file_count
  BY <1>1, <1>2 DEF PwriteEnd, pool
<1>4. /\ fd \in Fds /\ InUse(fd) /\ fi.is_writable /\ ~fi.buffered /\ fi.first_cluster # 0
      /\ op.offset + op.done <= MaxSize /\ f \in Files
      /\ op.offset \in Nat /\ op.done \in Nat /\ end \in Nat
      /\ fi \in Handles /\ HandleSound(chain, fi)
  <2>1. op.offset \in Nat /\ op.done \in Nat
    BY <1>3, Writing
  <2> QED
    BY <1>1, <1>3, <2>1, Writing
<1>5. OnCard(q, fi, f) /\ DataSound(chain) /\ WriteSound(chain)
  BY <1>1, <1>4, FileOnCard DEF DInv
<1>6. At(q, op.cluster, op.index, SectorsFor(end))
  BY <1>1, <1>3, <1>5 DEF WriteSound, WriteAt
<1>7. /\ fi.file_size \in Nat /\ end \in Sizes /\ size \in Sizes /\ size \in Nat
      /\ fi.file_size <= size /\ end <= size /\ (size = end \/ size = fi.file_size)
  <2>1. fi.file_size \in Sizes
    BY <1>4 DEF Handles
  <2>2. end \in Sizes
    BY <1>1, <1>4, SizeFacts
  <2>3. fi.file_size \in Nat
    BY <2>1, SizeFacts
  <2> QED
    BY <1>1, <1>4, <2>1, <2>2, <2>3 DEF Larger
<1>8. /\ dir'[f] = [first |-> dir[f].first, size |-> size]
      /\ dir'[f] # Absent /\ \A g \in Files \ {f} : dir'[g] = dir[g]
  <2>1. dir' = SetSize(fi, size).dir_sector_buf
    BY <1>2, <1>3
  <2>2. f = fi.file
    BY <1>1
  <2> QED
    BY <1>4, <1>7, <2>1, <2>2, SizeWritten
<1>9. /\ r.in_use /\ r.file = f /\ ~r.buffered /\ r.moved_by = "pwrite" /\ r.last_offset = end
      /\ r.write_cluster = op.cluster /\ r.sector_in_cluster = op.index
  <2>1. PICK b : b = Resized(fi, size)
    OBVIOUS
  <2>2. fi.dir_sector_buf = dir /\ dir[f] # Absent
    BY <1>1, <1>4 DEF HandleSound
  <2>3. w \in Handles /\ w = [fi EXCEPT !.dir_sector_buf = b]
    <3>1. fi.file \in Files /\ fi.dir_sector_buf[fi.file] # Absent
      BY <1>1, <1>4, <2>2
    <3>2. SetSize(fi, size) \in Handles
          /\ SetSize(fi, size) = [fi EXCEPT !.dir_sector_buf = Resized(fi, size)]
      BY <1>4, <1>7, <3>1, SetSizeIs
    <3> QED
      BY <1>2, <2>1, <3>2
  <2>4. w.in_use = fi.in_use /\ w.file = f /\ w.buffered = fi.buffered
    BY <1>1, <1>4, <2>3 DEF Handles
  <2>5. fi.in_use
    BY <1>1, <1>4 DEF InUse
  <2> QED
    BY <1>2, <1>4, <2>3, <2>4, <2>5 DEF Handles
<1>10. PositionsSound(q, r) /\ BufferSound(r)'
  BY <1>6, <1>9 DEF PositionsSound, BufferSound
<1>11. f \notin wanted.dropped /\ fi.file_size = wanted.size[f] /\ Holds(q, fi.file_size)
  BY <1>4, <1>5 DEF OnCard
<1>12. Holds(q, size)
  <2>1. op.index \in 0 .. ClusterSectors
    BY DEF Inv, TypeOK
  <2>2. Len(q) \in Nat
    BY <1>5 DEF OnCard
  <2>3. Holds(q, end)
    BY <1>4, <1>6, <2>1, <2>2, HeldUpTo
  <2> QED
    BY <1>7, <1>11, <2>3
<1>13. /\ wanted'.file = wanted.file /\ wanted'.offset = wanted.offset
       /\ wanted'.dropped = wanted.dropped /\ wanted'.size[f] = size
       /\ \A g \in Files \ {f} : wanted'.size[g] = wanted.size[g]
       /\ wanted'.written /\ ~wanted.written =>
             /\ wanted.file = f
             /\ op.offset <= wanted.offset /\ wanted.offset < end
  <2>1. /\ wanted'.file = wanted.file /\ wanted'.offset = wanted.offset
        /\ wanted'.dropped = wanted.dropped
        /\ wanted'.size[f] = Larger(wanted.size[f], op.offset + op.done)
        /\ \A g \in Files \ {f} : wanted'.size[g] = wanted.size[g]
        /\ wanted'.written /\ ~wanted.written =>
              /\ wanted.file = f
              /\ op.offset <= wanted.offset /\ wanted.offset < op.offset + op.done
    <3>1. TypeOK /\ wanted' = Wrote(f, op.offset, op.done)
      BY <1>1, <1>3 DEF Inv
    <3> QED
      BY <1>4, <3>1, WroteData
  <2>2. end = op.offset + op.done /\ size = Larger(wanted.size[f], end)
    BY <1>1, <1>11
  <2> QED
    BY <2>1, <2>2
<1>14. wanted.file = f /\ wanted'.written =>
           wanted.offset < size /\ Lies(q, wanted.offset, disk)
  <2>1. wanted.offset \in Nat
    <3>1. wanted.offset \in Offsets
      BY DEF Inv, TypeOK
    <3> QED
      BY <3>1, SizeFacts
  <2>2. CASE wanted.written
    <3>1. wanted.file = f => wanted.offset < fi.file_size /\ Lies(q, wanted.offset, disk)
      BY <1>5, <1>11, <2>2 DEF OnCard, DataSound, TrackedSound
    <3> QED
      BY <1>7, <2>1, <3>1
  <2>3. CASE ~wanted.written
    <3> SUFFICES ASSUME wanted'.written
                 PROVE  wanted.offset < size /\ Lies(q, wanted.offset, disk)
      OBVIOUS
    <3>1. wanted.file = f /\ op.offset <= wanted.offset /\ wanted.offset < end
      BY <1>13, <2>3
    <3>2. Lies(q, wanted.offset, disk)
      BY <1>1, <1>3, <1>5, <3>1 DEF WriteSound
    <3> QED
      BY <1>7, <2>1, <3>1, <3>2
  <2> QED
    BY <2>2, <2>3
<1>15. OnlyFile(chain, chain, f)
  BY <1>3, <1>4, <1>8, <1>13 DEF OnlyFile
<1>16. WriterMoves(chain, chain, fd, f, r)
  <2>1. /\ InUse(fd) /\ s_files[fd].is_writable /\ f = s_files[fd].file
        /\ s_files' = [s_files EXCEPT ![fd] = r] /\ s_file_count' = s_file_count
    BY <1>1, <1>3, <1>4
  <2>2. PositionsSound(chain[f], r) /\ BufferSound(r)' /\ r.file = f
    BY <1>1, <1>9, <1>10
  <2>3. /\ f \notin wanted'.dropped /\ dir'[f].size = wanted'.size[f]
        /\ Holds(chain[f], dir'[f].size) /\ dir'[f] # Absent
    <3>1. dir'[f] # Absent /\ dir'[f].size = size
      BY <1>8
    <3>2. f \notin wanted'.dropped /\ wanted'.size[f] = size
      BY <1>11, <1>13
    <3>3. Holds(chain[f], size)
      BY <1>1, <1>12
    <3> QED
      BY <3>1, <3>2, <3>3
  <2>4. wanted.file = f /\ wanted'.written =>
            wanted.offset < wanted'.size[f] /\ Lies(chain[f], wanted.offset, disk')
    BY <1>1, <1>3, <1>13, <1>14
  <2> QED
    BY <1>15, <2>1, <2>2, <2>3, <2>4 DEF WriterMoves
<1>17. op'.at = "idle"
  BY <1>3 DEF NoOp
<1> QED
  BY <1>4, <1>5, <1>16, <1>17, WriterStepData, IdleWrite DEF DInv

-----------------------------------------------------------------------------
\* Truncation.  The data behind the new end is forgotten.
LEMMA ForgottenData ==
    ASSUME TypeOK, NEW f \in Files, NEW size \in Sizes, wanted' = Forgotten(f, size)
    PROVE  /\ wanted'.file = wanted.file /\ wanted'.offset = wanted.offset
           /\ wanted'.dropped = wanted.dropped /\ wanted'.size[f] = size
           /\ \A g \in Files \ {f} : wanted'.size[g] = wanted.size[g]
           /\ wanted'.written => wanted.written
           /\ wanted'.written /\ wanted.file = f => wanted.offset < size
<1>1. PICK w, cutOff : w = Forgotten(f, size) /\ cutOff = (f = wanted.file /\ wanted.offset >= size)
  OBVIOUS
<1>2. /\ w.file = wanted.file /\ w.offset = wanted.offset /\ w.dropped = wanted.dropped
      /\ w.size = [wanted.size EXCEPT ![f] = size]
      /\ w.written = (wanted.written /\ ~cutOff)
  BY <1>1, ForgottenIs
<1>3. wanted.size \in [Files -> Sizes] /\ wanted.offset \in Nat /\ size \in Nat
  <2>1. wanted.size \in [Files -> Sizes] /\ wanted.offset \in Offsets
    BY DEF TypeOK
  <2> QED
    BY <2>1, SizeFacts
<1>4. w.written => wanted.written /\ ~cutOff
  BY <1>2, Zenon
<1>5. ~cutOff /\ wanted.file = f => wanted.offset < size
  <2>1. ~cutOff /\ wanted.file = f => ~(wanted.offset >= size)
    BY <1>1, Zenon
  <2>2. ~(wanted.offset >= size) => wanted.offset < size
    BY <1>3
  <2> QED
    BY <2>1, <2>2
<1>6. w.size[f] = size /\ \A g \in Files \ {f} : w.size[g] = wanted.size[g]
  BY <1>2, <1>3
<1>7. wanted' = w
  BY <1>1
<1> QED
  BY <1>2, <1>4, <1>5, <1>6, <1>7

LEMMA TruncateBufferedKeepsData ==
    ASSUME NEW chain, Inv(chain), DInv(chain), NEW fd \in Fds, NEW size \in Sizes,
           TruncateBuffered(fd, size)
    PROVE  DInv(chain)'
<1>1. PICK fi, f : fi = s_files[fd] /\ f = fi.file
  OBVIOUS
<1>2. /\ op.at = "idle" /\ InUse(fd) /\ fi.buffered /\ wanted' = Forgotten(f, size)
      /\ disk' = Held(disk) /\ UNCHANGED <<fat, pool, op>>
  BY <1>1 DEF TruncateBuffered, Idle
<1>3. /\ fi \in Handles /\ HandleSound(chain, fi) /\ s_files \in [Fds -> Handles]
      /\ dir \in [Files -> Entries] /\ DataSound(chain)
  BY <1>1, <1>2 DEF Inv, CInv, TypeOK, HandlesSound, DInv
<1>4. /\ f \in Files /\ fi.is_writable /\ dir[f] = NoEntry /\ fi.dir_sector_buf = dir
      /\ dir[f] # Absent /\ fi.in_use
  BY <1>1, <1>2, <1>3 DEF HandleSound, InUse
<1>5. /\ wanted'.file = wanted.file /\ wanted'.offset = wanted.offset
      /\ wanted'.dropped = wanted.dropped /\ wanted'.size[f] = size
      /\ \A g \in Files \ {f} : wanted'.size[g] = wanted.size[g]
      /\ wanted'.written => wanted.written
      /\ wanted'.written /\ wanted.file = f => wanted.offset < size
  BY <1>2, <1>4, ForgottenData DEF Inv
<1>6. f \notin wanted.dropped /\ (wanted.written /\ f = wanted.file => fi.write_buf)
  <2>1. BufferSound(fi)
    BY <1>1, <1>2, <1>3 DEF DataSound, Positions
  <2> QED
    BY <1>1, <1>2, <2>1 DEF BufferSound
<1>7. ASSUME NEW r, s_files' = [s_files EXCEPT ![fd] = r], dir' = dir,
             r.in_use, r.file = f, r.buffered, r.file_size = size,
             wanted'.written /\ f = wanted.file => r.write_buf
      PROVE  DInv(chain)'
  <2>1. PositionsSound(chain[f], r) /\ BufferSound(r)'
    BY <1>5, <1>6, <1>7 DEF PositionsSound, BufferSound
  <2>2. OnlyFile(chain, chain, f)
    <3>1. wanted'.written => disk' = disk
      BY <1>2 DEF Held
    <3> QED
      BY <1>4, <1>5, <1>7, <3>1 DEF OnlyFile
  <2>3. WriterMoves(chain, chain, fd, f, r)
    BY <1>1, <1>2, <1>4, <1>5, <1>6, <1>7, <2>1, <2>2 DEF WriterMoves, pool
  <2> QED
    BY <1>2, <1>3, <2>3, WriterStepData, IdleWrite DEF DInv
<1>8. CASE size = 0
  <2>1. PICK r : r = SetEntry(Rewound([fi EXCEPT !.write_buf = FALSE, !.file_size = 0], 0), 0, 0)
    OBVIOUS
  <2>2. s_files' = [s_files EXCEPT ![fd] = r] /\ dir' = r.dir_sector_buf
    BY <1>1, <1>8, <2>1 DEF TruncateBuffered
  <2>3. /\ r.in_use = fi.in_use /\ r.file = f /\ r.buffered /\ r.file_size = size
        /\ r.dir_sector_buf = dir
    BY <1>1, <1>2, <1>3, <1>4, <1>8, <2>1, EmptiedIs
  <2>4. ~(wanted'.written /\ f = wanted.file)
    <3>1. wanted.offset \in Nat
      <4>1. wanted.offset \in Offsets
        BY DEF Inv, TypeOK
      <4> QED
        BY <4>1, SizeFacts
    <3> QED
      BY <1>5, <1>8, <3>1
  <2> QED
    BY <1>4, <1>7, <2>2, <2>3, <2>4
<1>9. CASE size > 0
  <2>1. PICK buf : buf = (fi.write_buf /\ wanted'.written)
    OBVIOUS
  <2>2. /\ s_files' = [s_files EXCEPT ![fd].file_size = size, ![fd].write_buf = buf]
        /\ dir' = dir
    BY <1>1, <1>9, <2>1, SizeFacts DEF TruncateBuffered
  <2>3. PICK r : r = [fi EXCEPT !.file_size = size, !.write_buf = buf]
    OBVIOUS
  <2>4. s_files' = [s_files EXCEPT ![fd] = r]
    BY <1>1, <1>3, <2>2, <2>3
  <2>5. /\ r.in_use = fi.in_use /\ r.file = f /\ r.buffered = fi.buffered
        /\ r.file_size = size /\ r.write_buf = buf
    BY <1>1, <1>3, <2>3 DEF Handles
  <2>6. wanted'.written /\ f = wanted.file => r.write_buf
    <3>1. wanted'.written /\ f = wanted.file => fi.write_buf
      BY <1>5, <1>6
    <3>2. wanted'.written /\ f = wanted.file => buf
      BY <2>1, <3>1, Zenon
    <3> QED
      BY <2>5, <3>2
  <2> QED
    BY <1>2, <1>4, <1>7, <2>2, <2>4, <2>5, <2>6
<1> QED
  BY <1>8, <1>9, SizeFacts

\* A truncation in place: what it has to do for the data.
CutData(chain, c2, fi, f, first, size) ==
    /\ \A g \in Files \ {f} : c2[g] = chain[g]
    /\ Len(c2[f]) \in Nat /\ first = IF Len(c2[f]) = 0 THEN 0 ELSE c2[f][1]
    /\ f \in wanted.dropped => first = 0
    /\ Holds(c2[f], size)
    /\ wanted'.written =>
          IF wanted.file = f THEN Lies(c2[f], wanted.offset, disk')
          ELSE Lies(chain[wanted.file], wanted.offset, disk) =>
                  Lies(chain[wanted.file], wanted.offset, disk')

LEMMA CutKeepsData ==
    ASSUME NEW chain, Inv(chain), DInv(chain), NEW fd \in Fds, NEW size \in Sizes,
           NEW first \in AnyCluster, NEW fi, fi = s_files[fd], NEW f, f = fi.file,
           op.at = "idle", InUse(fd), fi.is_writable, ~fi.buffered,
           wanted' = Forgotten(f, size), UNCHANGED <<pool, op>>,
           NEW r, r = Cut(fi, first, size), s_files' = [s_files EXCEPT ![fd] = r],
           dir' = r.dir_sector_buf, NEW c2, CutData(chain, c2, fi, f, first, size)
    PROVE  DInv(c2)'
<1>1. fi \in Handles /\ HandleSound(chain, fi) /\ DataSound(chain) /\ dir \in [Files -> Entries]
  BY DEF Inv, CInv, TypeOK, HandlesSound, DInv
<1>2. f \in Files /\ fi.dir_sector_buf = dir
  BY <1>1 DEF HandleSound
<1>3. PICK e : e = [first |-> first, size |-> size]
  OBVIOUS
<1>4. CutTo(fi, r, first, size)
  BY <1>1, <1>2, CutIs
<1>5. /\ r.in_use = fi.in_use /\ r.file = f /\ r.first_cluster = first
      /\ r.dir_sector_buf = [dir EXCEPT ![f] = e] /\ ~r.buffered
      /\ r.current_cluster = first /\ r.current_cluster_idx = 0
      /\ r.last_offset = 0 /\ r.moved_by = "none"
  BY <1>2, <1>3, <1>4 DEF CutTo
<1>6. /\ dir'[f] = e /\ \A g \in Files \ {f} : dir'[g] = dir[g]
      /\ e # Absent /\ e.first = first /\ e.size = size
  BY <1>1, <1>2, <1>3, <1>5, EntryFacts
<1>7. /\ wanted'.file = wanted.file /\ wanted'.offset = wanted.offset
      /\ wanted'.dropped = wanted.dropped /\ wanted'.size[f] = size
      /\ \A g \in Files \ {f} : wanted'.size[g] = wanted.size[g]
      /\ wanted'.written => wanted.written
      /\ wanted'.written /\ wanted.file = f => wanted.offset < size
  BY <1>2, ForgottenData DEF Inv
<1>8. OnlyFile(chain, c2, f)
  <2>1. /\ \A g \in Files \ {f} : c2[g] = chain[g]
        /\ wanted'.written /\ wanted.file # f =>
              (Lies(chain[wanted.file], wanted.offset, disk) =>
                  Lies(chain[wanted.file], wanted.offset, disk'))
    BY DEF CutData
  <2> QED
    BY <1>2, <1>6, <1>7, <2>1 DEF OnlyFile
<1>9. PositionsSound(c2[f], r) /\ BufferSound(r)'
  <2>1. Len(c2[f]) \in Nat /\ r.first_cluster = IF Len(c2[f]) = 0 THEN 0 ELSE c2[f][1]
    BY <1>5 DEF CutData
  <2> QED
    BY <1>5, <2>1, StartSound DEF BufferSound
<1>10. wanted.file = f /\ wanted'.written =>
           f \notin wanted.dropped /\ Lies(c2[f], wanted.offset, disk')
  BY <1>1, <1>7 DEF CutData, DataSound, TrackedSound
<1>11. \/ f \in wanted'.dropped /\ dir'[f].first = 0
       \/ f \notin wanted'.dropped /\ dir'[f].size = wanted'.size[f] /\ Holds(c2[f], dir'[f].size)
  BY <1>6, <1>7 DEF CutData
<1>12. WriterMoves(chain, c2, fd, f, r)
  BY <1>5, <1>6, <1>7, <1>8, <1>9, <1>10, <1>11 DEF WriterMoves, pool
<1> QED
  BY <1>1, <1>12, WriterStepData, IdleWrite DEF DInv

\* The chunks that are copied to a new run.
LEMMA CopiedData ==
    ASSUME NEW chain, Layout(chain), NEW fi, NEW f \in Files, NEW first,
           first = fi.first_cluster, first # 0,
           Len(chain[f]) # 0, first = chain[f][1],
           NEW m \in Nat, m = Len(chain[f]), m = Cardinality(ChainOf(first)),
           NEW start \in Nat, NEW n \in Nat \ {0}, m < n, FreeRun(fat, start, n),
           NEW size \in Nat, fi.file_size \in Nat, size <= n * ClusterChunks,
           NEW d, d = Copied(fi, start, size)
    PROVE  /\ \A g \in Files : \A k \in Nat : Lies(chain[g], k, disk) => Lies(chain[g], k, d)
           /\ \A k \in Nat : Lies(chain[f], k, disk) /\ k < fi.file_size /\ k < size =>
                 Lies(RunOf(start, n), k, d)
<1>1. PICK x, s, y, copied, source :
          /\ x = Smaller(fi.file_size, size) /\ s = SectorsFor(x) * SectorChunks
          /\ y = ClusterChunks * m /\ copied = 0 .. Smaller(s, y) - 1
          /\ source = [k \in copied |->
                <<Walk(first, k \div ClusterChunks), k % ClusterChunks>>]
  OBVIOUS
<1>2. x \in Nat /\ x <= fi.file_size /\ x <= size
      /\ \A k \in Nat : k < fi.file_size /\ k < size => k < x
  BY <1>1 DEF Smaller
<1>3. s \in Nat /\ y \in Nat /\ x <= s
  <2>1. SectorsFor(x) \in Nat /\ x <= SectorsFor(x) * SectorChunks
    BY <1>2, Padded
  <2> QED
    BY <1>1, <2>1, Constants
<1>4. d = (disk \ Places(start, copied))
              \cup {Place(start, k) : k \in {j \in copied : source[j] \in disk}}
  BY <1>1 DEF Copied, SectorsFor
<1>5. copied \subseteq Nat /\ \A j \in copied : j < y
  BY <1>1, <1>3 DEF Smaller
<1>6. y < n * ClusterChunks
  <2>1. ClusterChunks * m + ClusterChunks <= ClusterChunks * n
    BY Constants, Times
  <2>2. ClusterChunks * n = n * ClusterChunks /\ ClusterChunks * n \in Nat
        /\ ClusterChunks \in Nat \ {0}
    BY Constants
  <2> QED
    BY <1>1, <1>3, <2>1, <2>2
<1>7. \A j \in copied : j < n * ClusterChunks
  <2>1. n * ClusterChunks \in Nat
    BY Constants
  <2> QED
    BY <1>3, <1>5, <1>6, <2>1
<1>8. ASSUME NEW g \in Files, NEW k \in Nat, Lies(chain[g], k, disk)
      PROVE  Lies(chain[g], k, d)
  <2>1. Lies(chain[g], k, disk \ Places(start, copied))
    BY <1>5, <1>7, <1>8, KeptByRun
  <2> QED
    BY <1>4, <2>1 DEF Lies
<1>9. ASSUME NEW k \in Nat, Lies(chain[f], k, disk), k < fi.file_size, k < size
      PROVE  Lies(RunOf(start, n), k, d)
  <2>1. PICK a : a = k \div ClusterChunks
    OBVIOUS
  <2>2. a \in Nat /\ a < m /\ <<chain[f][a + 1], k % ClusterChunks>> \in disk
    BY <1>9, <2>1, ClusterOf DEF Lies
  <2>3. k < y
    <3>1. k = ClusterChunks * a + (k % ClusterChunks)
          /\ k % ClusterChunks \in 0 .. ClusterChunks - 1
      BY <2>1, Constants, Division
    <3>2. ClusterChunks * a + ClusterChunks <= ClusterChunks * m /\ ClusterChunks * a \in Nat
      BY <2>2, Constants, Times
    <3>3. PICK b, v : b = ClusterChunks * a /\ v = k % ClusterChunks
      OBVIOUS
    <3>4. /\ k = b + v /\ v \in 0 .. ClusterChunks - 1 /\ b \in Nat
          /\ b + ClusterChunks <= y /\ ClusterChunks \in Nat
      BY <1>1, <3>1, <3>2, <3>3, Constants
    <3> QED
      BY <1>3, <3>4
  <2>4. k \in copied
    <3>1. k < s
      BY <1>2, <1>3, <1>9
    <3> QED
      BY <1>1, <1>3, <2>3, <3>1 DEF Smaller
  <2>5. Walk(first, a) = chain[f][a + 1]
    <3>1. 1 \in 1 .. Len(chain[f])
      OBVIOUS
    <3>2. Walk(chain[f][1], a) = IF 1 + a <= Len(chain[f]) THEN chain[f][1 + a] ELSE Eoc
      BY <2>2, <3>1, AlongChain
    <3>3. 1 + a <= m /\ 1 + a = a + 1
      BY <2>2
    <3> QED
      BY <3>2, <3>3
  <2>6. source[k] \in disk
    BY <1>1, <2>1, <2>2, <2>4, <2>5
  <2>7. Place(start, k) \in d
    BY <1>4, <2>4, <2>6
  <2>8. k < n * ClusterChunks
    BY <1>7, <2>4
  <2> QED
    BY <2>7, <2>8, LiesInRun
<1> QED
  BY <1>8, <1>9

\* The clusters that are left when a chain is cut still hold what they held.
LEMMA ShortData ==
    ASSUME NEW q, NEW q2, NEW n \in Nat \ {0}, n <= Len(q), Len(q) \in Nat, Len(q2) = n,
           \A i \in 1 .. n : q2[i] = q[i],
           NEW k \in Nat, k < n * ClusterChunks, NEW d, Lies(q, k, d)
    PROVE  Lies(q2, k, d)
<1>1. PICK a : a = k \div ClusterChunks
  OBVIOUS
<1>2. a \in Nat /\ a < n /\ <<q[a + 1], k % ClusterChunks>> \in d
  BY <1>1, ClusterOf DEF Lies
<1>3. a + 1 \in 1 .. n
  BY <1>2
<1> QED
  BY <1>1, <1>2, <1>3 DEF Lies

LEMMA TruncateDirectKeepsData ==
    ASSUME NEW chain, Inv(chain), DInv(chain), NEW fd \in Fds, NEW size \in Sizes,
           TruncateDirect(fd, size), NEW c2, c2 = CutChain(chain, s_files[fd], size)
    PROVE  DInv(c2)'
<1>1. PICK fi, f, first, need, m, q, k :
          /\ fi = s_files[fd] /\ f = fi.file /\ first = fi.first_cluster
          /\ need = ClustersFor(size) /\ q = chain[f] /\ m = Len(q) /\ k = wanted.offset
  OBVIOUS
<1>2. /\ op.at = "idle" /\ InUse(fd) /\ fi.is_writable /\ ~fi.buffered
      /\ wanted' = Forgotten(f, size)
      /\ dir' = s_files'[fd].dir_sector_buf
      /\ UNCHANGED <<pool, op>>
  BY <1>1 DEF TruncateDirect, Idle
<1>3. /\ fi \in Handles /\ HandleSound(chain, fi) /\ s_files \in [Fds -> Handles]
      /\ Layout(chain) /\ DataSound(chain) /\ chain \in [Files -> Seq(Clusters)]
      /\ f \in Files
  BY <1>1, <1>2 DEF Inv, CInv, TypeOK, HandlesSound, DInv, HandleSound, Layout, Laid
<1>4. OnCard(q, fi, f)
  BY <1>1, <1>2, <1>3, FileOnCard
<1>5. /\ m \in Nat /\ first = (IF m = 0 THEN 0 ELSE q[1])
      /\ f \in wanted.dropped => first = 0
      /\ f \notin wanted.dropped => fi.file_size = wanted.size[f]
  BY <1>1, <1>4 DEF OnCard
<1>6. /\ q \in Seq(Clusters) /\ \A i \in 1 .. m : q[i] \in Clusters
      /\ m = 0 <=> first = 0
  <2>1. q \in Seq(Clusters) /\ \A i \in 1 .. m : q[i] \in Clusters
    BY <1>1, <1>3, ChainFacts DEF Layout
  <2>2. m # 0 => 1 \in 1 .. m
    BY <1>5
  <2> QED
    BY <1>5, <2>1, <2>2, ClusterFacts
<1>7. first # 0 => Cardinality(ChainOf(first)) = m
  <2> SUFFICES ASSUME first # 0 PROVE Cardinality(ChainOf(first)) = m
    OBVIOUS
  <2>1. m # 0 /\ first = chain[f][1] /\ m = Len(chain[f])
    BY <1>1, <1>5, <1>6
  <2>2. 1 \in 1 .. Len(chain[f])
    BY <1>5, <2>1
  <2>3. Cardinality(ChainOf(chain[f][1])) = Len(chain[f]) - 1 + 1
    BY <1>3, <2>2, ChainLength
  <2> QED
    BY <1>5, <2>1, <2>3
<1>8. /\ size \in Nat /\ need \in Nat /\ (size > 0 => need # 0) /\ size <= need * ClusterChunks
      /\ fi.file_size \in Nat /\ k \in Nat /\ first \in AnyCluster
  <2>1. fi.file_size \in Sizes /\ k \in Offsets /\ first \in AnyCluster
    BY <1>1, <1>3 DEF Handles, Inv, TypeOK
  <2>2. size \in Nat /\ fi.file_size \in Nat /\ k \in Nat
    BY <2>1, SizeFacts
  <2>3. need \in Nat /\ (size > 0 => need # 0) /\ size <= need * ClusterChunks
    BY <1>1, <2>2, ClustersForIs, Padded
  <2> QED
    BY <2>1, <2>2, <2>3
<1>9. /\ wanted'.written => wanted.written
      /\ wanted'.written /\ wanted.file = f => k < size
      /\ wanted.file \in Files
  BY <1>1, <1>2, <1>3, ForgottenData DEF Inv, TypeOK
<1>10. wanted'.written /\ wanted.file = f => Lies(q, k, disk) /\ k < fi.file_size
  <2> SUFFICES ASSUME wanted'.written, wanted.file = f
               PROVE  Lies(q, k, disk) /\ k < fi.file_size
    OBVIOUS
  <2>1. wanted.written
    BY <1>9
  <2>2. wanted.offset < wanted.size[wanted.file] /\ wanted.file \notin wanted.dropped
    BY <1>3, <2>1 DEF DataSound, TrackedSound
  <2> QED
    BY <1>1, <1>4, <2>1, <2>2 DEF OnCard
<1>11. ASSUME NEW c \in AnyCluster, NEW r, r = Cut(fi, c, size),
              s_files' = [s_files EXCEPT ![fd] = r], CutData(chain, c2, fi, f, c, size)
       PROVE  DInv(c2)'
  <2>1. dir' = r.dir_sector_buf
    BY <1>2, <1>3, <1>11
  <2> QED
    BY <1>1, <1>2, <1>11, <2>1, CutKeepsData
<1>12. disk' = Held(disk) => (wanted'.written => disk' = disk)
  BY DEF Held
<1>13. CASE size = 0
  <2>1. PICK c, r : c = 0 /\ r = Cut(fi, c, size)
    OBVIOUS
  <2>2. disk' = Held(disk) /\ s_files' = [s_files EXCEPT ![fd] = r]
    BY <1>1, <1>8, <1>13, <2>1 DEF TruncateDirect
  <2>3. PICK c3, q2 : c3 = [chain EXCEPT ![f] = q2] /\ q2 = <<>>
    OBVIOUS
  <2>4. (\A g \in Files \ {f} : c2[g] = chain[g]) /\ c2[f] = q2
    <3>1. c2 = c3
      BY <1>1, <1>13, <2>3 DEF CutChain
    <3>2. (\A g \in Files \ {f} : c3[g] = chain[g]) /\ c3[f] = q2
      BY <1>3, <2>3
    <3> QED
      BY <3>1, <3>2, Zenon
  <2>5. Len(c2[f]) = 0 /\ Holds(c2[f], size)
    <3>1. Len(q2) = 0
      BY <2>3, EmptySeq
    <3>2. Holds(q2, size)
      BY <1>13, <3>1, Constants DEF Holds
    <3> QED
      BY <2>4, <3>1, <3>2
  <2>6. ~(wanted'.written /\ wanted.file = f)
    BY <1>8, <1>9, <1>13
  <2>7. CutData(chain, c2, fi, f, c, size)
    BY <1>12, <2>1, <2>2, <2>4, <2>5, <2>6 DEF CutData
  <2>8. c \in AnyCluster
    BY <2>1, ClusterFacts
  <2> QED
    BY <1>11, <2>1, <2>2, <2>7, <2>8
<1>14. CASE size > 0 /\ first # 0 /\ need > m
  <2>1. PICK start, r, q2 :
            start = Min(Runs(need)) /\ r = Cut(fi, start, size) /\ q2 = RunOf(start, need)
    OBVIOUS
  <2>2. /\ Runs(need) # {} /\ disk' = Held(Copied(fi, start, size))
        /\ s_files' = [s_files EXCEPT ![fd] = r]
    BY <1>1, <1>5, <1>7, <1>8, <1>14, <2>1 DEF TruncateDirect
  <2>3. need \in Nat \ {0}
    BY <1>8, <1>14
  <2>4. start \in Nat /\ start \in AnyCluster /\ FreeRun(fat, start, need)
    BY <2>1, <2>2, <2>3, FirstRun, RunsFree, ClusterFacts
  <2>5. Len(q2) = need /\ q2[1] = start
    <3>1. 1 \in 1 .. need /\ start + 1 - 1 = start
      BY <2>3, <2>4
    <3> QED
      BY <2>1, <2>3, <2>4, <3>1, RunFacts, RunOfIs
  <2>6. PICK c3 : c3 = [chain EXCEPT ![f] = q2]
    OBVIOUS
  <2>7. (\A g \in Files \ {f} : c2[g] = chain[g]) /\ c2[f] = q2
    <3>1. c2 = c3
      BY <1>1, <1>8, <1>14, <2>1, <2>6 DEF CutChain
    <3>2. (\A g \in Files \ {f} : c3[g] = chain[g]) /\ c3[f] = q2
      BY <1>3, <2>6
    <3> QED
      BY <3>1, <3>2, Zenon
  <2>8. PICK d : d = Copied(fi, start, size)
    OBVIOUS
  <2>9. /\ \A g \in Files : \A j \in Nat : Lies(chain[g], j, disk) => Lies(chain[g], j, d)
        /\ \A j \in Nat : Lies(chain[f], j, disk) /\ j < fi.file_size /\ j < size =>
              Lies(RunOf(start, need), j, d)
    <3>1. /\ first = fi.first_cluster /\ Len(chain[f]) # 0 /\ first = chain[f][1]
          /\ m = Len(chain[f]) /\ m = Cardinality(ChainOf(first)) /\ m < need
      BY <1>1, <1>5, <1>6, <1>7, <1>8, <1>14
    <3> QED
      BY <1>3, <1>5, <1>8, <1>14, <2>3, <2>4, <2>8, <3>1, CopiedData
  <2>10. wanted'.written => disk' = d
    BY <2>2, <2>8 DEF Held
  <2>11. wanted'.written /\ wanted.file = f => Lies(q2, wanted.offset, disk')
    <3> SUFFICES ASSUME wanted'.written, wanted.file = f
                 PROVE  Lies(q2, wanted.offset, disk')
      OBVIOUS
    <3>1. Lies(chain[f], k, disk) /\ k < fi.file_size /\ k < size /\ k \in Nat
      BY <1>1, <1>8, <1>9, <1>10
    <3>2. Lies(RunOf(start, need), k, d)
      BY <2>9, <3>1
    <3> QED
      BY <1>1, <2>1, <2>10, <3>2
  <2>12. wanted'.written /\ wanted.file # f =>
             (Lies(chain[wanted.file], wanted.offset, disk) =>
                 Lies(chain[wanted.file], wanted.offset, disk'))
    BY <1>1, <1>8, <1>9, <2>9, <2>10
  <2>13. Holds(q2, size)
    BY <1>8, <2>5 DEF Holds
  <2>14. CutData(chain, c2, fi, f, start, size)
    BY <1>5, <1>14, <2>3, <2>5, <2>7, <2>11, <2>12, <2>13 DEF CutData
  <2> QED
    BY <1>11, <2>1, <2>2, <2>4, <2>14
<1>15. CASE size > 0 /\ first # 0 /\ need < m
  <2>1. PICK r, q2 : r = Cut(fi, first, size) /\ q2 = SubSeq(q, 1, need)
    OBVIOUS
  <2>2. disk' = Held(disk) /\ s_files' = [s_files EXCEPT ![fd] = r]
    BY SMTT(30), <1>1, <1>5, <1>7, <1>8, <1>15, <2>1 DEF TruncateDirect
  <2>3. need \in Nat \ {0} /\ need <= Len(q) /\ Len(q) \in Nat
    BY <1>1, <1>5, <1>8, <1>15
  <2>4. Len(q2) = need /\ \A i \in 1 .. need : q2[i] = q[i]
    <3>1. need \in Int /\ 1 \in Int /\ q \in Seq(Clusters)
          /\ \A i \in 1 .. need : i \in 1 .. Len(q)
      BY <1>6, <2>3
    <3> QED
      BY <2>1, <2>3, <3>1
  <2>5. PICK c3 : c3 = [chain EXCEPT ![f] = q2]
    OBVIOUS
  <2>6. (\A g \in Files \ {f} : c2[g] = chain[g]) /\ c2[f] = q2
    <3>1. c2 = c3
      BY <1>1, <1>5, <1>8, <1>15, <2>1, <2>5 DEF CutChain
    <3>2. (\A g \in Files \ {f} : c3[g] = chain[g]) /\ c3[f] = q2
      BY <1>3, <2>5
    <3> QED
      BY <3>1, <3>2, Zenon
  <2>7. q2[1] = first
    <3>1. 1 \in 1 .. need
      BY <2>3
    <3>2. first = q[1]
      BY <1>5, <1>15
    <3> QED
      BY <2>4, <3>1, <3>2
  <2>8. wanted'.written /\ wanted.file = f => Lies(q2, wanted.offset, disk')
    <3> SUFFICES ASSUME wanted'.written, wanted.file = f
                 PROVE  Lies(q2, wanted.offset, disk')
      OBVIOUS
    <3>1. Lies(q, k, disk) /\ k < size /\ k \in Nat /\ disk' = disk
      BY <1>8, <1>9, <1>10, <1>12, <2>2
    <3>2. k < need * ClusterChunks
      <4>1. need * ClusterChunks \in Nat
        BY <2>3, Constants
      <4> QED
        BY <1>8, <3>1, <4>1
    <3>3. Lies(q2, k, disk)
      BY <2>3, <2>4, <3>1, <3>2, ShortData
    <3> QED
      BY <1>1, <3>1, <3>3
  <2>9. Holds(q2, size)
    BY <1>8, <2>4 DEF Holds
  <2>10. CutData(chain, c2, fi, f, first, size)
    BY <1>5, <1>12, <1>15, <2>2, <2>3, <2>4, <2>6, <2>7, <2>8, <2>9 DEF CutData
  <2> QED
    BY <1>8, <1>11, <2>1, <2>2, <2>10
<1>16. CASE size > 0 /\ first # 0 /\ need = m
  <2>1. PICK r : r = Cut(fi, first, size)
    OBVIOUS
  <2>2. disk' = Held(disk) /\ s_files' = [s_files EXCEPT ![fd] = r]
    BY SMTT(30), <1>1, <1>5, <1>7, <1>8, <1>16, <2>1 DEF TruncateDirect
  <2>3. c2 = chain
    BY <1>1, <1>5, <1>8, <1>16 DEF CutChain
  <2>4. (\A g \in Files \ {f} : c2[g] = chain[g]) /\ c2[f] = q
    BY <1>1, <2>3
  <2>5. wanted'.written /\ wanted.file = f => Lies(q, wanted.offset, disk')
    BY <1>1, <1>10, <1>12, <2>2
  <2>6. Holds(q, size)
    BY <1>1, <1>8, <1>16 DEF Holds
  <2>7. CutData(chain, c2, fi, f, first, size)
    BY <1>1, <1>5, <1>12, <1>16, <2>2, <2>4, <2>5, <2>6 DEF CutData
  <2> QED
    BY <1>8, <1>11, <2>1, <2>2, <2>7
<1>17. size = 0 \/ first # 0
  BY <1>1 DEF TruncateDirect
<1> QED
  BY <1>5, <1>8, <1>13, <1>14, <1>15, <1>16, <1>17

-----------------------------------------------------------------------------
\* Some layout makes the state and its data sound.
SoundData == \E chain : Inv(chain) /\ DInv(chain)

LEMMA InitSoundData == ASSUME Init PROVE SoundData
<1>1. PICK chain : chain = [f \in Files |-> <<>>]
  OBVIOUS
<1>2. Inv(chain)
  BY <1>1, InitInv
<1>3. \A fd \in Fds : ~InUse(fd)
  BY DEF Init, InUse, Closed
<1>4. Positions(chain)
  BY <1>3 DEF Positions
<1>5. EntriesSound(chain)
  BY DEF EntriesSound, EntrySound, Init
<1>6. TrackedSound(chain) /\ WriteSound(chain)
  BY DEF TrackedSound, WriteSound, Init, NoOp
<1> QED
  BY <1>2, <1>4, <1>5, <1>6 DEF SoundData, DInv, DataSound

LEMMA CallKeepsSoundData ==
    ASSUME Strict, Plain, FdSound, NEW chain, Inv(chain), DInv(chain), Call
    PROVE  SoundData'
<1>1. ASSUME NEW f \in Files, Open(f) \/ OpenWritable(f) \/ Create(f) \/ Unlink(f)
      PROVE  SoundData'
  <2>1. CASE Open(f)
    BY <2>1, OpenKeepsInv, OpenKeepsData DEF SoundData
  <2>2. CASE OpenWritable(f)
    BY <2>2, OpenWritableKeepsInv, OpenWritableKeepsData DEF SoundData
  <2>3. PICK c2 : c2 = [chain EXCEPT ![f] = <<>>]
    OBVIOUS
  <2>4. CASE Create(f)
    BY <2>3, <2>4, CreateKeepsInv, CreateKeepsData DEF SoundData
  <2>5. CASE Unlink(f)
    BY <2>3, <2>5, UnlinkKeepsInv, UnlinkKeepsData DEF SoundData
  <2> QED
    BY <1>1, <2>1, <2>2, <2>4, <2>5
<1>2. ASSUME NEW fd \in Fds, Fsync(fd) \/ Close(fd) PROVE SoundData'
  <2>1. PICK c2, c3 : c2 = FlushChain(chain, s_files[fd]) /\ c3 = CloseChain(chain, s_files[fd])
    OBVIOUS
  <2>2. CASE Fsync(fd)
    BY <2>1, <2>2, FsyncKeepsInv, FsyncKeepsData DEF SoundData
  <2>3. CASE Close(fd)
    BY <2>1, <2>3, CloseKeepsInv, CloseKeepsData DEF SoundData
  <2> QED
    BY <1>2, <2>2, <2>3
<1>3. ASSUME NEW fd \in Fds, NEW offset \in Offsets, NEW count \in 1 .. MaxSize,
             offset + count <= MaxSize,
             \/ Pread(fd, offset, count) \/ PwriteBuffered(fd, offset, count)
             \/ PwriteDirect(fd, offset, count) \/ PwriteOverflow(fd, offset, count)
      PROVE  SoundData'
  <2>1. CASE Pread(fd, offset, count)
    BY <2>1, PreadKeepsInv, PreadKeepsData DEF SoundData
  <2>2. CASE PwriteBuffered(fd, offset, count)
    BY <1>3, <2>2, PwriteBufferedKeepsInv, PwriteBufferedKeepsData DEF SoundData
  <2>3. CASE PwriteDirect(fd, offset, count)
    BY <1>3, <2>3, PwriteDirectKeepsInv, PwriteDirectKeepsData DEF SoundData
  <2>4. PICK c2 : c2 = FlushChain(chain, s_files[fd])
    OBVIOUS
  <2>5. CASE PwriteOverflow(fd, offset, count)
    BY <1>3, <2>4, <2>5, PwriteOverflowKeepsInv, PwriteOverflowKeepsData DEF SoundData
  <2> QED
    BY <1>3, <2>1, <2>2, <2>3, <2>5
<1>4. ASSUME NEW fd \in Fds, NEW size \in Sizes,
             TruncateBuffered(fd, size) \/ TruncateDirect(fd, size)
      PROVE  SoundData'
  <2>1. CASE TruncateBuffered(fd, size)
    BY <2>1, TruncateBufferedKeepsInv, TruncateBufferedKeepsData DEF SoundData
  <2>2. PICK c2 : c2 = CutChain(chain, s_files[fd], size)
    OBVIOUS
  <2>3. CASE TruncateDirect(fd, size)
    BY <2>2, <2>3, TruncateDirectKeepsInv, TruncateDirectKeepsData DEF SoundData
  <2> QED
    BY <1>4, <2>1, <2>3
<1> QED
  BY <1>1, <1>2, <1>3, <1>4 DEF Call

LEMMA UnchangedKeepsData ==
    ASSUME NEW chain, Inv(chain), DInv(chain), UNCHANGED vars
    PROVE  DInv(chain)'
<1>1. DataSound(chain)'
  BY DataSame DEF Inv, DInv, vars, pool
<1>2. WriteSound(chain)'
  BY DEF DInv, WriteSound, WriteAt, vars
<1> QED
  BY <1>1, <1>2 DEF DInv

LEMMA NextSoundData ==
    ASSUME Strict, Plain, FdSound, SoundData, [Next]_vars
    PROVE  SoundData'
<1>1. PICK chain : Inv(chain) /\ DInv(chain)
  BY DEF SoundData
<1>2. CASE Call
  BY <1>1, <1>2, CallKeepsSoundData
<1>3. CASE UNCHANGED vars
  BY <1>1, <1>3, UnchangedKeepsInv, UnchangedKeepsData DEF SoundData
<1>4. CASE PwriteOverflowDirect
  BY <1>1, <1>4, PwriteOverflowDirectKeepsInv, PwriteOverflowDirectKeepsData DEF SoundData
<1>5. CASE PwriteSector
  BY <1>1, <1>5, PwriteSectorKeepsInv, PwriteSectorKeepsData DEF SoundData
<1>6. CASE PwriteNextCluster
  BY <1>1, <1>6, PwriteNextClusterKeepsInv, PwriteNextClusterKeepsData DEF SoundData
<1>7. CASE PwriteExtend
  <2>1. PICK n, start : n = Batch(op.count - op.done) /\ start = BatchStart(op.cluster, n)
    OBVIOUS
  <2>2. PICK c2 : c2 = ExtendChain(chain, s_files[op.fd].file, start, n)
    OBVIOUS
  <2> QED
    BY <1>1, <1>7, <2>1, <2>2, PwriteExtendKeepsInv, PwriteExtendKeepsData DEF SoundData
<1>8. CASE PwriteFull
  BY <1>1, <1>8, PwriteFullKeepsInv, PwriteFullKeepsData DEF SoundData
<1>9. CASE PwriteEnd
  BY <1>1, <1>9, PwriteEndKeepsInv, PwriteEndKeepsData DEF SoundData
<1> QED
  BY <1>2, <1>3, <1>4, <1>5, <1>6, <1>7, <1>8, <1>9 DEF Next, Step

LEMMA StrictIsPlain == Strict => Plain
BY DEF Strict, Plain

\* The invariant of the theorems below: the descriptors are sound, too.
DataInv == IInv /\ SoundData

LEMMA InitDataInv == Init => DataInv
BY InitIInv, InitSoundData DEF DataInv

LEMMA NextDataInv == Strict => (DataInv /\ [Next]_vars => DataInv')
<1> SUFFICES ASSUME Strict, DataInv, [Next]_vars PROVE DataInv'
  OBVIOUS
<1>1. IInv /\ SoundData /\ Plain
  BY StrictIsPlain DEF DataInv
<1>2. IInv'
  BY <1>1, NextIInv
<1>3. FdSound
  BY <1>1 DEF IInv
<1>4. SoundData'
  BY <1>1, <1>3, NextSoundData
<1> QED
  BY <1>2, <1>4 DEF DataInv

\* set_entry_first_cluster(), set_entry_file_size() and the write of the directory
\* sector: between two calls the entry of every file that is in no buffer gives its
\* size, and leads to enough clusters for it, however many files and descriptors.
THEOREM EntriesRight == Strict => (Spec => []EntryIsRight)
<1> SUFFICES ASSUME Strict PROVE Spec => []EntryIsRight
  OBVIOUS
<1>1. Init => DataInv
  BY InitDataInv
<1>2. DataInv /\ [Next]_vars => DataInv'
  BY NextDataInv
<1>3. DataInv => EntryIsRight
  BY EntriesAreRight DEF DataInv, SoundData
<1> QED
  BY <1>1, <1>2, <1>3, PTL DEF Spec

\* m65ftp_pwrite(), flush_write_buffer(), m65ftp_ftruncate(): what has been written to
\* a file and not cut off lies in its buffer, or on the card where its entry, its chain
\* and the offset say.
THEOREM WrittenInPlace == Strict => (Spec => []DataInPlace)
<1> SUFFICES ASSUME Strict PROVE Spec => []DataInPlace
  OBVIOUS
<1>1. Init => DataInv
  BY InitDataInv
<1>2. DataInv /\ [Next]_vars => DataInv'
  BY NextDataInv
<1>3. DataInv => DataInPlace
  BY DataIsInPlace DEF DataInv, SoundData
<1> QED
  BY <1>1, <1>2, <1>3, PTL DEF Spec

\* m65ftp_pread() returns what m65ftp_pwrite() has written, all of it, through every
\* descriptor of the file, whether it walks the chain or goes on from where the last
\* read ended.
THEOREM ReadsReturnWritten == Strict => (Spec => []ReadReturnsWritten)
<1> SUFFICES ASSUME Strict PROVE Spec => []ReadReturnsWritten
  OBVIOUS
<1>1. Init => DataInv
  BY InitDataInv
<1>2. DataInv /\ [Next]_vars => DataInv'
  BY NextDataInv
<1>3. DataInv => ReadReturnsWritten
  BY ReadsAreRight DEF DataInv, SoundData
<1> QED
  BY <1>1, <1>2, <1>3, PTL DEF Spec

=============================================================================
