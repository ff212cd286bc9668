----------------------------- MODULE FatVolume ------------------------------
(***************************************************************************)
(* The file allocation table of the card and the directory entries that    *)
(* lead into it: the cluster allocator of mega65_ftp.c and the loops of    *)
(* m65ftp_lib.c that build, extend, cut and free the chains of files.      *)
(*                                                                         *)
(* fat and entry are what the program reads back, in the order it writes   *)
(* them (SectorStore says what of this is on the card).  All calls run     *)
(* under s_mutex, so one operation is in progress at a time; a step is one *)
(* iteration of one of its loops.  A file that is open for writing is      *)
(* taken to have one handle, whose first_cluster is that of its entry.     *)
(***************************************************************************)
EXTENDS Integers, FiniteSets

CONSTANTS
    FatEntries,         \* entries of the FAT, 128 for each of its sectors
    Files,              \* names of files
    Absent,             \* the entry of a file that does not exist
    MaxNeed,            \* bound on the clusters asked for at once
    DeletesEmptyFiles   \* whether files without a cluster get deleted

ASSUME FatAssumption ==
    /\ FatEntries \in Nat /\ FatEntries > 3
    /\ MaxNeed \in Nat /\ MaxNeed < FatEntries
    /\ Files # {} /\ Absent \notin Int
    /\ DeletesEmptyFiles \in BOOLEAN

VARIABLES
    fat,        \* fat[c]: FAT entry of cluster c
    entry,      \* entry[f]: first cluster in f's directory entry, 0 if it has none
    op,         \* the operation in progress
    extended    \* history: files that pwrite() has extended in place

vars == <<fat, entry, op, extended>>

Clusters == 0 .. FatEntries - 1
RootDir == 2             \* first_cluster of the volume, the root directory's
Data == 3 .. FatEntries - 1
Free == 0
Eoc == 2 * FatEntries     \* FAT32_MIN_END_OF_CLUSTER_MARKER
Values == 0 .. Eoc

\* is_free_cluster(): behind the last sector of the FAT lies its copy.
IsFree(c) == fat[IF c < FatEntries THEN c ELSE c - FatEntries] = Free

\* chained_cluster(): -1, an end marker, for a cluster that is too large.
Chained(c) == IF c \in Clusters THEN fat[c] ELSE Eoc

\* Faulty: takes the end marker for a cluster.
IsLinkOrEnd(v) == v > 0 /\ v <= Eoc

IsLink(v) == v > 0 /\ v < Eoc

\* set_fat_cluster_ptr() and chain_cluster() on table t: refuse a cluster that
\* is too large.
SetFat(t, c, v) == IF c \in Clusters THEN [t EXCEPT ![c] = v] ELSE t

\* The clusters of the chain that begins with c: all that links lead to.
ChainOf(c) ==
    {d \in Data : c \in Data /\ \A reached \in SUBSET Data :
        (c \in reached /\ \A e \in reached : fat[e] \in Data => fat[e] \in reached)
            => d \in reached}
Length(c) == Cardinality(ChainOf(c))

NoOp == [at |-> "idle", kind |-> "none", file |-> CHOOSE f \in Files : TRUE,
         start |-> 0, need |-> 0, done |-> 0, cluster |-> 0]

-----------------------------------------------------------------------------
\* An empty volume: the entries of clusters 0 and 1 are reserved, the root
\* directory has one cluster.
Init ==
    /\ fat = [c \in Clusters |-> IF c \in Data THEN Free ELSE Eoc]
    /\ entry = [f \in Files |-> Absent]
    /\ op = NoOp
    /\ extended = {}

Idle == op.at = "idle"

\* An operation starts to look for n clusters in a row, or to free a chain.
Seek(kind, f, n, cluster) ==
    op' = [NoOp EXCEPT !.at = "search", !.kind = kind, !.file = f, !.need = n,
                       !.cluster = cluster]
Release(kind, f, cluster, keep) ==
    op' = [NoOp EXCEPT !.at = "free", !.kind = kind, !.file = f, !.start = keep,
                       !.cluster = cluster]

\* m65ftp_create(): a file of that name is deleted first.  The new entry has no
\* cluster: they are allocated on close.
Create(f) ==
    /\ Idle
    /\ \/ /\ entry[f] = Absent
          /\ entry' = [entry EXCEPT ![f] = 0]
          /\ UNCHANGED op
       \/ /\ entry[f] # Absent
          /\ entry[f] # 0 \/ DeletesEmptyFiles
          /\ entry' = [entry EXCEPT ![f] = Absent]
          /\ Release("replace", f, entry[f], 0)
    /\ extended' = extended \ {f}
    /\ UNCHANGED fat

\* m65ftp_unlink() and delete_single_file(): the entry is wiped, then the
\* chain freed.
Unlink(f) ==
    /\ Idle
    /\ entry[f] # Absent
    /\ entry[f] # 0 \/ DeletesEmptyFiles
    /\ entry' = [entry EXCEPT ![f] = Absent]
    /\ Release("delete", f, entry[f], 0)
    /\ extended' = extended \ {f}
    /\ UNCHANGED fat

\* m65ftp_close() of a new file with data for n clusters: flush_write_buffer().
Close(f, n) ==
    /\ Idle
    /\ entry[f] = 0
    /\ Seek("flush", f, n, 0)
    /\ UNCHANGED <<fat, entry, extended>>

\* m65ftp_pwrite() behind the last cluster, with a batch of n clusters: a power
\* of two, at least 2.
Extend(f, n) ==
    /\ Idle
    /\ entry[f] \in Data
    /\ \E k \in 1 .. MaxNeed : n = 2 ^ k
    /\ \E last \in ChainOf(entry[f]) :
          /\ ~IsLink(Chained(last))
          /\ Seek("extend", f, n, last)
    /\ UNCHANGED <<fat, entry, extended>>

\* Faulty: a loop that frees before it looks, on a file without clusters.
TruncateEmpty(f, n) ==
    /\ Idle
    /\ entry[f] = 0 /\ n = 0
    /\ Release("truncate", f, 0, 0)
    /\ UNCHANGED <<fat, entry, extended>>

\* m65ftp_ftruncate() to n clusters of a file that is written directly.  To cut
\* it, the chain is walked to its new last cluster.
Truncate(f, n) ==
    /\ Idle
    /\ entry[f] \in Data
    /\ \/ n = 0 /\ Release("truncate", f, entry[f], 0)
       \/ n > Length(entry[f]) /\ Seek("grow", f, n, 0)
       \/ /\ 0 < n /\ n < Length(entry[f])
          /\ \E cut \in ChainOf(entry[f]) :
                /\ IsLink(Chained(cut))
                /\ Length(Chained(cut)) = Length(entry[f]) - n
                /\ Release("shrink", f, Chained(cut), cut)
    /\ UNCHANGED <<fat, entry, extended>>

-----------------------------------------------------------------------------
(***************************************************************************)
(* find_contiguous_clusters()                                              *)
(***************************************************************************)

\* find_free_cluster(first) returns c: the first free cluster from first to the
\* end of the FAT or, if there is none, from 2 to first - 1.
FirstFree(first, c) ==
    LET from == IF first < 2 THEN 2 ELSE first
        upper == from .. FatEntries - 1
        lower == 2 .. from - 1
    IN  \/ c \in upper /\ IsFree(c) /\ \A d \in upper : d < c => ~IsFree(d)
        \/ /\ \A d \in upper : ~IsFree(d)
           /\ c \in lower /\ IsFree(c) /\ \A d \in lower : d < c => ~IsFree(d)

\* Faulty: the last cluster is not looked at.
FreeRunOneShort(c, need, count) ==
    /\ \A k \in 1 .. count - 1 : k < need - 1 => IsFree(c + k)
    /\ count = need \/ ~IsFree(c + count)

\* Of the need clusters from c on, c among them, only the first count are free.
FreeRun(c, need, count) ==
    /\ \A k \in 1 .. count - 1 : IsFree(c + k)
    /\ count = need \/ ~IsFree(c + count)

FindFree ==
    /\ op.at = "search"
    /\ \E c \in 2 .. 2 * FatEntries :
          /\ FirstFree(op.start, c)
          /\ op' = [op EXCEPT !.at = "probe", !.start = c]
    /\ UNCHANGED <<fat, entry, extended>>

\* Faulty: goes on behind the whole window.
CountRunWindow ==
    /\ op.at = "probe"
    /\ \E count \in 1 .. op.need :
          /\ FreeRun(op.start, op.need, count)
          /\ op' = IF count = op.need THEN [op EXCEPT !.at = "allocate"]
                   ELSE [op EXCEPT !.at = "search", !.start = @ + op.need]
    /\ UNCHANGED <<fat, entry, extended>>

\* The loop is left with a run, or goes on behind the clusters that were too
\* few.
CountRun ==
    /\ op.at = "probe"
    /\ \E count \in 1 .. op.need :
          /\ FreeRun(op.start, op.need, count)
          /\ op' = IF count = op.need THEN [op EXCEPT !.at = "allocate"]
                   ELSE [op EXCEPT !.at = "search", !.start = @ + count]
    /\ UNCHANGED <<fat, entry, extended>>

\* There is no free cluster at all and the operation fails.  (A smaller batch,
\* or the single cluster, that pwrite() looks for then is not there either.)
VolumeFull ==
    /\ op.at = "search"
    /\ \A c \in 2 .. 2 * FatEntries : ~FirstFree(op.start, c)
    /\ op' = NoOp
    /\ UNCHANGED <<fat, entry, extended>>

-----------------------------------------------------------------------------
\* Faulty: every cluster is chained to the first one.
AllocatedToStart(c) ==
    LET marked == SetFat(fat, c, Eoc)
        before == IF op.done > 0 THEN op.start ELSE op.cluster
    IN  IF before = 0 THEN marked ELSE SetFat(marked, before, c)

\* allocate_cluster() and chain_cluster() for the next cluster of the run.  The
\* first one is chained to the last cluster of a file that pwrite() extends.
Allocated(c) ==
    LET marked == SetFat(fat, c, Eoc)
        before == IF op.done > 0 THEN c - 1 ELSE op.cluster
    IN  IF before = 0 THEN marked ELSE SetFat(marked, before, c)

\* The run is complete: the entry is written (flush), the old chain freed (grow),
\* or nothing is left to do (extend).
AfterRun ==
    CASE op.kind = "flush" -> [op EXCEPT !.at = "finish"]
      [] op.kind = "grow" -> [op EXCEPT !.at = "free", !.cluster = entry[op.file]]
      [] op.kind = "extend" -> NoOp

\* Both fail for a cluster that is too large only.  Nobody looks but
\* m65ftp_ftruncate(), whose rollback RunIsFree shows is never needed.
AllocateOne ==
    /\ op.at = "allocate"
    /\ fat' = Allocated(op.start + op.done)
    /\ op' = IF op.done + 1 = op.need THEN AfterRun ELSE [op EXCEPT !.done = @ + 1]
    /\ extended' = IF op.kind = "extend" THEN extended \cup {op.file} ELSE extended
    /\ UNCHANGED entry

\* Faulty: the link is read after its entry has been cleared.
FreeOneThenRead ==
    /\ op.at = "free"
    /\ fat' = SetFat(fat, op.cluster, Free)
    /\ op' = [op EXCEPT !.at = "finish", !.cluster = 0]
    /\ UNCHANGED <<entry, extended>>

\* One iteration of the loops that free a chain: the link is read before the
\* entry that holds it is cleared.
FreeOne ==
    /\ op.at = "free"
    /\ fat' = SetFat(fat, op.cluster, Free)
    /\ op' = IF IsLink(Chained(op.cluster)) THEN [op EXCEPT !.cluster = Chained(op.cluster)]
             ELSE [op EXCEPT !.at = "finish", !.cluster = 0]
    /\ UNCHANGED <<entry, extended>>

\* Faulty: the entry of a file that has grown keeps its old first cluster.
FinishOldEntry ==
    /\ op.at = "finish"
    /\ entry' = CASE op.kind = "flush" -> [entry EXCEPT ![op.file] = op.start]
                  [] op.kind \in {"replace", "truncate"} -> [entry EXCEPT ![op.file] = 0]
                  [] OTHER -> entry
    /\ fat' = IF op.kind = "shrink" THEN SetFat(fat, op.start, Eoc) ELSE fat
    /\ UNCHANGED extended
    /\ op' = NoOp

\* Faulty: the last cluster of a file that has shrunk keeps its link.
FinishUnmarked ==
    /\ op.at = "finish"
    /\ entry' = CASE op.kind \in {"flush", "grow"} -> [entry EXCEPT ![op.file] = op.start]
                  [] op.kind \in {"replace", "truncate"} -> [entry EXCEPT ![op.file] = 0]
                  [] OTHER -> entry
    /\ UNCHANGED <<fat, extended>>
    /\ op' = NoOp

\* The directory entry or, when the file shrinks, its new last cluster.
Finish ==
    /\ op.at = "finish"
    /\ entry' = CASE op.kind \in {"flush", "grow"} -> [entry EXCEPT ![op.file] = op.start]
                  [] op.kind \in {"replace", "truncate"} -> [entry EXCEPT ![op.file] = 0]
                  [] OTHER -> entry
    /\ fat' = IF op.kind = "shrink" THEN SetFat(fat, op.start, Eoc) ELSE fat
    /\ extended' = IF op.kind \in {"grow", "truncate"} THEN extended \ {op.file} ELSE extended
    /\ op' = NoOp

Start == \E f \in Files :
    \/ Create(f)
    \/ Unlink(f)
    \/ \E n \in 1 .. MaxNeed : Close(f, n)
    \/ \E n \in 1 .. MaxNeed : Extend(f, n)
    \/ \E n \in 0 .. MaxNeed : Truncate(f, n)

Step == FindFree \/ VolumeFull \/ CountRun \/ AllocateOne \/ FreeOne \/ Finish

Next == Start \/ Step

Spec == Init /\ [][Next]_vars

\* A call that has begun keeps running.
FairSpec == Spec /\ WF_vars(Step)

-----------------------------------------------------------------------------
(***************************************************************************)
(* Properties                                                              *)
(***************************************************************************)

Kinds == {"none", "flush", "grow", "extend", "replace", "delete", "truncate", "shrink"}

TypeOK ==
    /\ fat \in [Clusters -> Values]
    /\ entry \in [Files -> {Absent} \cup 0 .. Eoc - 1]
    /\ op \in [at : {"idle", "search", "probe", "allocate", "free", "finish"}, kind : Kinds,
               file : Files, start : Values, need : 0 .. MaxNeed,
               done : 0 .. MaxNeed, cluster : 0 .. Eoc - 1]
    /\ extended \subseteq Files

\* "remove cluster-chain from cluster-map in FAT tables #1 and #2": no call
\* touches the reserved entries of clusters 0 and 1, which belong to no file, or
\* gives the root directory away.
ReservedIntact == \A c \in 0 .. RootDir : fat[c] # Free

\* What is left to allocate of a run lies in the volume and is nobody's.
RunIsFree ==
    op.at = "allocate" =>
        \A k \in op.done .. op.need - 1 :
            op.start + k \in Data /\ fat[op.start + k] = Free

\* No cluster is in two files, or twice in one: at most one directory entry or
\* FAT entry names it.
OneOwner ==
    /\ \A c, d \in Data : c # d /\ fat[c] = fat[d] => fat[c] \notin Data
    /\ \A f, g \in Files : f # g /\ entry[f] = entry[g] => entry[f] \notin Data
    /\ \A c \in Data, f \in Files : fat[c] = entry[f] => fat[c] \notin Data

\* Between two calls no file leads into free clusters, so nothing is written
\* over its end by the next file.
ChainsAllocated ==
    Idle => /\ \A c \in Data : fat[c] \in Data => fat[fat[c]] # Free
            /\ \A f \in Files : entry[f] \in Data => fat[entry[f]] # Free

\* Between two calls every cluster in use belongs to a file: whatever a call
\* frees or gives back, it loses none.
NoLostCluster ==
    Idle => \A c \in Data : fat[c] # Free => \E f \in Files : c \in ChainOf(entry[f])

\* Between two calls a file that pwrite() has not extended is one block.
OneBlockUnlessExtended ==
    Idle => \A f \in Files \ extended :
        \A c \in ChainOf(entry[f]) : fat[c] \in Data => fat[c] = c + 1

Room(n) == \E c \in Data : \A k \in 0 .. n - 1 : c + k \in Data /\ fat[c + k] = Free

\* A run that is there is found, whatever holes the search meets first.
RoomIsFound ==
    \A n \in 1 .. MaxNeed :
        (op.at = "search" /\ op.need = n /\ Room(n)) ~> op.at = "allocate"

\* A call for clusters returns, be it with an error.
SearchEnds == op.at = "search" ~> op.at \in {"allocate", "idle"}
=============================================================================
