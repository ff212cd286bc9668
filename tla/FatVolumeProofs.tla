-------------------------- MODULE FatVolumeProofs ---------------------------
(***************************************************************************)
(* What the allocator of FatVolume guarantees on a volume of any size, for *)
(* any number of files, as long as no file without a cluster is deleted    *)
(* (which clears the reserved entry of cluster 0).                         *)
(*                                                                         *)
(* OneOwner and ChainsAllocated are not inductive: while a call is in      *)
(* progress some clusters belong to no file yet, or not any more.  IInv    *)
(* says which, as a function of where the call is.                         *)
(***************************************************************************)
EXTENDS FatVolume, FiniteSetTheorems, TLAPS

\* Nobody leads to cluster c.
Unowned(c) ==
    /\ \A d \in Data : fat[d] # c
    /\ \A f \in Files : entry[f] # c

\* A link or a first cluster is a cluster of the volume.
LinksInVolume ==
    /\ \A c \in Data : fat[c] \in {Free, Eoc} \cup Data
    /\ \A f \in Files : entry[f] \in {Absent, 0} \cup Data

\* The clusters that the call in progress may leave dangling: the new end of a
\* file that shrinks, the entry of one whose old chain is being freed.
Releasing == op.at \in {"free", "finish"}
CutEnd(c) == Releasing /\ op.kind = "shrink" /\ c = op.start
OldEntry(f) == Releasing /\ op.kind \in {"grow", "truncate"} /\ f = op.file

LinksAllocated ==
    /\ \A c \in Data : fat[c] \in Data => fat[fat[c]] # Free \/ CutEnd(c)
    /\ \A f \in Files : entry[f] \in Data => fat[entry[f]] # Free \/ OldEntry(f)

\* Looking for a run.
SearchSound ==
    /\ op.at = "search" => op.start <= FatEntries
    /\ op.at = "probe" => op.start \in Data /\ fat[op.start] = Free
    /\ op.at \in {"search", "probe"} => op.done = 0
    /\ op.at \in {"search", "probe", "allocate"} =>
          /\ op.kind \in {"flush", "grow", "extend"}
          /\ op.need \in 1 .. MaxNeed
          /\ op.kind = "grow" => entry[op.file] \in Data
          /\ op.kind # "extend" => op.cluster = 0
          /\ (op.kind = "extend" /\ op.done = 0) =>
                op.cluster \in Data /\ fat[op.cluster] = Eoc

\* Building it: the clusters that are allocated form a chain nobody else uses.
RunSound ==
    op.at = "allocate" =>
        /\ op.done < op.need
        /\ op.start \in Data
        /\ op.done > 0 => /\ op.start + op.done - 1 \in Data
                          /\ fat[op.start + op.done - 1] = Eoc
        /\ (op.done > 0 /\ op.kind # "extend") => fat[op.start] # Free /\ Unowned(op.start)

\* Freeing a chain: nobody else leads to what is left of it; the new run of the
\* file is safe.
ReleaseSound ==
    /\ op.at = "free" =>
          /\ op.kind \in {"grow", "replace", "delete", "truncate", "shrink"}
          /\ op.cluster \in Data
          /\ \A d \in Data : fat[d] = op.cluster => CutEnd(d)
          /\ \A f \in Files : entry[f] = op.cluster => OldEntry(f)
          /\ op.kind = "grow" => op.cluster # op.start
    /\ (Releasing /\ op.kind \in {"flush", "grow"}) =>
          op.start \in Data /\ fat[op.start] # Free /\ Unowned(op.start)
    /\ (Releasing /\ op.kind = "shrink") => op.start \in Data

IInv ==
    /\ TypeOK
    /\ ReservedIntact
    /\ LinksInVolume
    /\ OneOwner
    /\ LinksAllocated
    /\ SearchSound
    /\ RunIsFree
    /\ RunSound
    /\ ReleaseSound

USE DEF RootDir

-----------------------------------------------------------------------------
\* A file name to fill an operation that is not in progress with.
LEMMA NoOpTyped ==
    NoOp \in [at : {"idle"}, kind : {"none"}, file : Files, start : {0}, need : {0},
              done : {0}, cluster : {0}]
BY FatAssumption DEF NoOp

\* The operations that calls begin with, field by field.
LEMMA ReleaseOp ==
    ASSUME NEW kind, NEW f, NEW c, NEW keep, Release(kind, f, c, keep)
    PROVE  op' = [at |-> "free", kind |-> kind, file |-> f, start |-> keep, need |-> 0,
                  done |-> 0, cluster |-> c]
BY DEF Release, NoOp

LEMMA SeekOp ==
    ASSUME NEW kind, NEW f, NEW n, NEW c, Seek(kind, f, n, c)
    PROVE  op' = [at |-> "search", kind |-> kind, file |-> f, start |-> 0, need |-> n,
                  done |-> 0, cluster |-> c]
BY DEF Seek, NoOp

\* Every cluster of a file's chain is allocated while no call is in progress.
LEMMA ChainIsAllocated ==
    ASSUME IInv, Idle, NEW f \in Files, NEW c \in ChainOf(entry[f])
    PROVE  c \in Data /\ fat[c] # Free
<1> DEFINE used == {d \in Data : fat[d] # Free}
<1>1. used \in SUBSET Data
  OBVIOUS
<1>2. c \in Data /\ entry[f] \in Data
  BY DEF ChainOf
<1>3. entry[f] \in used
  BY <1>2 DEF IInv, LinksAllocated, OldEntry, Releasing, Idle
<1>4. \A e \in used : fat[e] \in Data => fat[e] \in used
  BY DEF IInv, LinksAllocated, CutEnd, Releasing, Idle
<1>5. c \in used
  BY <1>1, <1>3, <1>4 DEF ChainOf
<1> QED
  BY <1>5

LEMMA InitIInv == Init => IInv
<1> SUFFICES ASSUME Init PROVE IInv
  OBVIOUS
<1> USE FatAssumption, NoOpTyped DEF Init, Clusters, Data, Values, Free, Eoc
<1>1. TypeOK
  BY DEF TypeOK, Kinds
<1>2. ReservedIntact /\ LinksInVolume /\ OneOwner /\ LinksAllocated
  BY DEF ReservedIntact, LinksInVolume, OneOwner, LinksAllocated
<1>3. SearchSound /\ RunIsFree /\ RunSound /\ ReleaseSound
  BY DEF SearchSound, RunIsFree, RunSound, ReleaseSound, Releasing
<1> QED
  BY <1>1, <1>2, <1>3 DEF IInv

LEMMA StutterKeepsIInv ==
    ASSUME IInv, UNCHANGED vars
    PROVE  IInv'
BY DEF vars, IInv, TypeOK, ReservedIntact, LinksInVolume, OneOwner, LinksAllocated, SearchSound,
       RunIsFree, RunSound, ReleaseSound, Releasing, CutEnd, OldEntry, Unowned

-----------------------------------------------------------------------------
(***************************************************************************)
(* The calls                                                               *)
(***************************************************************************)

\* Freeing the chain of a file begins with a cluster that is allocated and
\* that only its entry leads to.
LEMMA FirstClusterIsOwn ==
    ASSUME IInv, Idle, NEW f \in Files, entry[f] # Absent, entry[f] # 0
    PROVE  /\ entry[f] \in Data /\ fat[entry[f]] # Free
           /\ \A d \in Data : fat[d] # entry[f]
           /\ \A g \in Files : g # f => entry[g] # entry[f]
BY DEF IInv, LinksInVolume, LinksAllocated, OneOwner, Idle, OldEntry, Releasing

LEMMA WipeKeepsIInv ==
    ASSUME IInv, Idle, NEW f \in Files, entry[f] # Absent, entry[f] # 0,
           NEW kind \in {"replace", "delete"},
           entry' = [entry EXCEPT ![f] = Absent], Release(kind, f, entry[f], 0),
           extended' = extended \ {f}, UNCHANGED fat
    PROVE  IInv'
<1>0. op' = [at |-> "free", kind |-> kind, file |-> f, start |-> 0, need |-> 0, done |-> 0,
            cluster |-> entry[f]]
  BY ReleaseOp
<1> USE FatAssumption, FirstClusterIsOwn, <1>0
<1>1. TypeOK'
  <2>1. entry[f] \in 0 .. Eoc - 1
    BY DEF IInv, TypeOK
  <2> QED
    BY <2>1 DEF IInv, TypeOK, Kinds, Eoc, Values
<1>2. ReservedIntact'
  BY DEF IInv, ReservedIntact
<1>3. LinksInVolume'
  BY DEF IInv, TypeOK, LinksInVolume
<1>4. OneOwner'
  BY DEF IInv, TypeOK, OneOwner, LinksInVolume, Data
<1>5. LinksAllocated'
  BY DEF IInv, TypeOK, LinksAllocated, LinksInVolume, CutEnd, OldEntry, Releasing, Idle, Data
<1>6. SearchSound' /\ RunIsFree' /\ RunSound'
  BY DEF IInv, TypeOK, SearchSound, RunIsFree, RunSound
<1>7. ReleaseSound'
  BY DEF IInv, TypeOK, ReleaseSound, Releasing, CutEnd, OldEntry, Data
<1> QED
  BY <1>1, <1>2, <1>3, <1>4, <1>5, <1>6, <1>7 DEF IInv

LEMMA CreateKeepsIInv ==
    ASSUME ~DeletesEmptyFiles, IInv, NEW f \in Files, Create(f)
    PROVE  IInv'
<1>1. CASE entry[f] # Absent
  BY <1>1, WipeKeepsIInv DEF Create
<1>2. CASE entry[f] = Absent
  <2> USE <1>2, FatAssumption DEF Create
  <2>1. entry' = [entry EXCEPT ![f] = 0] /\ UNCHANGED <<fat, op>> /\ Idle
    OBVIOUS
  <2>2. TypeOK'
    BY <2>1 DEF IInv, TypeOK, Eoc
  <2>3. ReservedIntact' /\ LinksInVolume'
    BY <2>1 DEF IInv, TypeOK, ReservedIntact, LinksInVolume
  <2>4. OneOwner'
    BY <2>1 DEF IInv, TypeOK, OneOwner, Data
  <2>5. LinksAllocated'
    BY <2>1 DEF IInv, TypeOK, LinksAllocated, CutEnd, OldEntry, Releasing, Idle, Data
  <2>6. SearchSound' /\ RunIsFree' /\ RunSound' /\ ReleaseSound'
    BY <2>1 DEF Idle, SearchSound, RunIsFree, RunSound, ReleaseSound, Releasing
  <2> QED
    BY <2>2, <2>3, <2>4, <2>5, <2>6 DEF IInv
<1> QED
  BY <1>1, <1>2

LEMMA UnlinkKeepsIInv ==
    ASSUME ~DeletesEmptyFiles, IInv, NEW f \in Files, Unlink(f)
    PROVE  IInv'
BY WipeKeepsIInv DEF Unlink

LEMMA SeekKeepsIInv ==
    ASSUME IInv, Idle, NEW f \in Files, NEW n \in 1 .. MaxNeed,
           NEW kind \in {"flush", "grow", "extend"}, NEW cluster,
           Seek(kind, f, n, cluster), UNCHANGED <<fat, entry, extended>>,
           kind = "grow" => entry[f] \in Data,
           kind # "extend" => cluster = 0,
           kind = "extend" => cluster \in Data /\ fat[cluster] = Eoc
    PROVE  IInv'
<1>0. op' = [at |-> "search", kind |-> kind, file |-> f, start |-> 0, need |-> n, done |-> 0,
            cluster |-> cluster]
  BY SeekOp
<1> USE FatAssumption, <1>0
<1>1. TypeOK'
  <2>1. cluster \in 0 .. Eoc - 1
    BY DEF Data, Eoc
  <2> QED
    BY <2>1 DEF IInv, TypeOK, Kinds, Eoc, Values
<1>2. ReservedIntact' /\ LinksInVolume' /\ OneOwner'
  BY DEF IInv, ReservedIntact, LinksInVolume, OneOwner
<1>3. LinksAllocated'
  BY DEF IInv, LinksAllocated, CutEnd, OldEntry, Releasing, Idle
<1>4. SearchSound' /\ RunIsFree' /\ RunSound' /\ ReleaseSound'
  BY DEF SearchSound, RunIsFree, RunSound, ReleaseSound, Releasing, Data
<1> QED
  BY <1>1, <1>2, <1>3, <1>4 DEF IInv

LEMMA CloseKeepsIInv ==
    ASSUME IInv, NEW f \in Files, NEW n \in 1 .. MaxNeed, Close(f, n)
    PROVE  IInv'
BY SeekKeepsIInv DEF Close

LEMMA ExtendKeepsIInv ==
    ASSUME IInv, NEW f \in Files, NEW n \in 1 .. MaxNeed, Extend(f, n)
    PROVE  IInv'
<1>1. PICK last \in ChainOf(entry[f]) : ~IsLink(Chained(last)) /\ Seek("extend", f, n, last)
  BY DEF Extend
<1>2. last \in Data /\ fat[last] # Free
  BY ChainIsAllocated DEF Extend
<1>3. fat[last] = Eoc
  BY <1>1, <1>2, FatAssumption DEF IInv, LinksInVolume, IsLink, Chained, Data, Clusters, Eoc, Free
<1> QED
  BY <1>1, <1>2, <1>3, SeekKeepsIInv DEF Extend

LEMMA TruncateKeepsIInv ==
    ASSUME IInv, NEW f \in Files, NEW n \in 0 .. MaxNeed, Truncate(f, n)
    PROVE  IInv'
<1>0. Idle /\ entry[f] \in Data /\ UNCHANGED <<fat, entry, extended>>
  BY DEF Truncate
<1>1. CASE n = 0 /\ Release("truncate", f, entry[f], 0)
  <2>0. op' = [at |-> "free", kind |-> "truncate", file |-> f, start |-> 0, need |-> 0,
              done |-> 0, cluster |-> entry[f]]
    BY <1>1, ReleaseOp
  <2> USE <1>0, <2>0, FatAssumption
  <2>1. fat[entry[f]] # Free
    BY DEF IInv, LinksAllocated, OldEntry, Releasing, Idle
  <2>2. TypeOK'
    <3>1. entry[f] \in 0 .. Eoc - 1
      BY DEF Data, Eoc
    <3> QED
      BY <3>1 DEF IInv, TypeOK, Kinds, Eoc, Values
  <2>3. ReservedIntact' /\ LinksInVolume' /\ OneOwner'
    BY DEF IInv, ReservedIntact, LinksInVolume, OneOwner
  <2>4. LinksAllocated'
    BY DEF IInv, LinksAllocated, CutEnd, OldEntry, Releasing, Idle
  <2>5. SearchSound' /\ RunIsFree' /\ RunSound'
    BY DEF SearchSound, RunIsFree, RunSound
  <2>6. ReleaseSound'
    BY <2>1 DEF IInv, OneOwner, ReleaseSound, Releasing, CutEnd, OldEntry
  <2> QED
    BY <2>2, <2>3, <2>4, <2>5, <2>6 DEF IInv
<1>2. CASE n > Length(entry[f]) /\ Seek("grow", f, n, 0)
  <2>1. CASE n = 0
    <3>1. IsFiniteSet(Data) /\ ChainOf(entry[f]) \subseteq Data
      BY FS_Interval, FatAssumption DEF Data, ChainOf
    <3>2. Length(entry[f]) \in Nat
      BY <3>1, FS_Subset, FS_CardinalityType DEF Length
    <3> QED
      BY <1>2, <2>1, <3>2
  <2>2. CASE n # 0
    BY <1>0, <1>2, <2>2, SeekKeepsIInv, FatAssumption
  <2> QED
    BY <2>1, <2>2
<1>3. ASSUME NEW cut \in ChainOf(entry[f]), IsLink(Chained(cut)),
             Release("shrink", f, Chained(cut), cut)
      PROVE  IInv'
  <2>0. op' = [at |-> "free", kind |-> "shrink", file |-> f, start |-> cut, need |-> 0,
              done |-> 0, cluster |-> Chained(cut)]
    BY <1>3, ReleaseOp
  <2> USE <1>0, <2>0, FatAssumption
  <2>1. cut \in Data /\ fat[cut] # Free
    BY <1>3, ChainIsAllocated
  <2>2. Chained(cut) = fat[cut] /\ fat[cut] \in Data
    BY <1>3, <2>1 DEF IInv, LinksInVolume, IsLink, Chained, Data, Clusters, Eoc, Free
  <2>3. fat[fat[cut]] # Free
    BY <2>1, <2>2 DEF IInv, LinksAllocated, CutEnd, Releasing, Idle
  <2>4. TypeOK'
    <3>1. cut \in Values /\ Chained(cut) \in 0 .. Eoc - 1
      BY <2>1, <2>2 DEF Data, Eoc, Values
    <3> QED
      BY <3>1 DEF IInv, TypeOK, Kinds, Eoc, Values
  <2>5. ReservedIntact' /\ LinksInVolume' /\ OneOwner'
    BY DEF IInv, ReservedIntact, LinksInVolume, OneOwner
  <2>6. LinksAllocated'
    BY DEF IInv, LinksAllocated, CutEnd, OldEntry, Releasing, Idle
  <2>7. SearchSound' /\ RunIsFree' /\ RunSound'
    BY DEF SearchSound, RunIsFree, RunSound
  <2>8. ReleaseSound'
    BY <2>1, <2>2, <2>3 DEF IInv, OneOwner, ReleaseSound, Releasing, CutEnd, OldEntry
  <2> QED
    BY <2>4, <2>5, <2>6, <2>7, <2>8 DEF IInv
<1> QED
  BY <1>1, <1>2, <1>3 DEF Truncate

-----------------------------------------------------------------------------
(***************************************************************************)
(* The search for a run                                                    *)
(***************************************************************************)

LEMMA FindFreeKeepsIInv ==
    ASSUME IInv, FindFree
    PROVE  IInv'
<1>1. PICK c \in 2 .. 2 * FatEntries :
        FirstFree(op.start, c) /\ op' = [op EXCEPT !.at = "probe", !.start = c]
  BY DEF FindFree
<1>2. op.at = "search" /\ UNCHANGED <<fat, entry, extended>>
  BY DEF FindFree
<1>3. op.start \in 0 .. FatEntries
  BY <1>2, FatAssumption DEF IInv, TypeOK, SearchSound, Values, Eoc
<1>4. c \in Data /\ fat[c] = Free
  BY <1>1, <1>3, FatAssumption DEF FirstFree, IsFree, Data, IInv, ReservedIntact
<1> USE <1>1, <1>2, <1>4
<1>5. TypeOK'
  <2>1. c \in Values
    BY FatAssumption DEF Data, Values, Eoc
  <2> QED
    BY <2>1 DEF IInv, TypeOK
<1>6. ReservedIntact' /\ LinksInVolume' /\ OneOwner'
  BY DEF IInv, ReservedIntact, LinksInVolume, OneOwner
<1>7. LinksAllocated'
  BY DEF IInv, TypeOK, LinksAllocated, CutEnd, OldEntry, Releasing
<1>8. SearchSound' /\ RunIsFree' /\ RunSound' /\ ReleaseSound'
  BY DEF IInv, TypeOK, SearchSound, RunIsFree, RunSound, ReleaseSound, Releasing
<1> QED
  BY <1>5, <1>6, <1>7, <1>8 DEF IInv

\* A run never reaches over the end of the FAT: the copy behind it begins with
\* an entry that is in use.
LEMMA RunInVolume ==
    ASSUME IInv, op.at = "probe", NEW count \in 1 .. op.need,
           FreeRun(op.start, op.need, count)
    PROVE  \A k \in 0 .. count - 1 : op.start + k \in Data /\ fat[op.start + k] = Free
<1>1. op.start \in Data /\ fat[op.start] = Free /\ op.need \in 1 .. MaxNeed
  BY DEF IInv, SearchSound
<1>2. \A k \in 1 .. count - 1 : op.start + k # FatEntries
  <2> SUFFICES ASSUME NEW k \in 1 .. count - 1, op.start + k = FatEntries PROVE FALSE
    OBVIOUS
  <2>1. IsFree(FatEntries)
    BY DEF FreeRun
  <2> QED
    BY <2>1, FatAssumption DEF IsFree, IInv, ReservedIntact
<1>3. \A k \in 1 .. count - 1 : op.start + k < FatEntries
  <2> SUFFICES ASSUME NEW k \in 1 .. count - 1, op.start + k >= FatEntries PROVE FALSE
    BY <1>1, FatAssumption DEF Data
  <2>1. FatEntries - op.start \in 1 .. count - 1 /\ op.start + (FatEntries - op.start) = FatEntries
    BY <1>1, FatAssumption DEF Data
  <2> QED
    BY <1>2, <2>1
<1> QED
  BY <1>1, <1>3, FatAssumption DEF FreeRun, IsFree, Data

LEMMA CountRunKeepsIInv ==
    ASSUME IInv, CountRun
    PROVE  IInv'
<1>1. PICK count \in 1 .. op.need :
        /\ FreeRun(op.start, op.need, count)
        /\ op' = IF count = op.need THEN [op EXCEPT !.at = "allocate"]
                 ELSE [op EXCEPT !.at = "search", !.start = @ + count]
  BY DEF CountRun
<1>2. op.at = "probe" /\ UNCHANGED <<fat, entry, extended>>
  BY DEF CountRun
<1>3. op.start \in Data /\ op.need \in 1 .. MaxNeed /\ op.done = 0
  BY <1>2 DEF IInv, SearchSound
<1>4. \A k \in 0 .. count - 1 : op.start + k \in Data /\ fat[op.start + k] = Free
  BY <1>1, <1>2, RunInVolume
<1>5. op.start + count \in 0 .. FatEntries
  <2>1. count - 1 \in 0 .. count - 1 /\ op.start + (count - 1) \in Data
    BY <1>3, <1>4
  <2> QED
    BY <1>3, <2>1, FatAssumption DEF Data
<1>6. ReservedIntact' /\ LinksInVolume' /\ OneOwner'
  BY <1>2 DEF IInv, ReservedIntact, LinksInVolume, OneOwner
<1>7. /\ op'.at \in {"search", "allocate"} /\ op'.kind = op.kind /\ op'.file = op.file
      /\ op'.start \in 0 .. FatEntries /\ op'.need = op.need /\ op'.done = 0
      /\ op'.cluster = op.cluster
  <2>1. op.start \in 0 .. FatEntries
    BY <1>3, FatAssumption DEF Data
  <2> QED
    BY <1>1, <1>3, <1>5, <2>1 DEF IInv, TypeOK
<1>8. TypeOK'
  <2>1. op.start + count \in Values
    BY <1>5, FatAssumption DEF Values, Eoc
  <2> QED
    BY <1>1, <1>2, <2>1 DEF IInv, TypeOK
<1>9. LinksAllocated'
  BY <1>2, <1>7 DEF IInv, LinksAllocated, CutEnd, OldEntry, Releasing
<1>10. SearchSound' /\ ReleaseSound'
  BY <1>2, <1>7 DEF IInv, SearchSound, ReleaseSound, Releasing
<1>11. RunIsFree' /\ RunSound'
  <2>1. CASE op'.at = "allocate"
    <3>1. count = op.need /\ op' = [op EXCEPT !.at = "allocate"]
      BY <1>1, <2>1 DEF IInv, TypeOK
    <3>2. op'.start = op.start /\ op'.done = 0 /\ op'.need = count
      BY <1>3, <3>1 DEF IInv, TypeOK
    <3> QED
      BY <1>2, <1>3, <1>4, <3>2 DEF RunIsFree, RunSound
  <2>2. CASE op'.at # "allocate"
    BY <2>2 DEF RunIsFree, RunSound
  <2> QED
    BY <2>1, <2>2
<1> QED
  BY <1>6, <1>8, <1>9, <1>10, <1>11 DEF IInv

\* A call that is over leaves nothing in progress behind.
LEMMA OverKeepsIInv ==
    ASSUME IInv, op' = NoOp, UNCHANGED <<fat, entry>>, extended' \subseteq Files, ~Releasing
    PROVE  IInv'
<1> USE FatAssumption, NoOpTyped
<1>1. TypeOK'
  BY DEF IInv, TypeOK, Kinds, Values, Eoc
<1>2. ReservedIntact' /\ LinksInVolume' /\ OneOwner'
  BY DEF IInv, ReservedIntact, LinksInVolume, OneOwner
<1>3. LinksAllocated'
  BY DEF IInv, LinksAllocated, CutEnd, OldEntry
<1>4. SearchSound' /\ RunIsFree' /\ RunSound' /\ ReleaseSound'
  BY DEF SearchSound, RunIsFree, RunSound, ReleaseSound, Releasing
<1> QED
  BY <1>1, <1>2, <1>3, <1>4 DEF IInv

LEMMA VolumeFullKeepsIInv ==
    ASSUME IInv, VolumeFull
    PROVE  IInv'
BY OverKeepsIInv DEF VolumeFull, IInv, TypeOK, Releasing

-----------------------------------------------------------------------------
(***************************************************************************)
(* Building the run                                                        *)
(***************************************************************************)

\* The cluster that is allocated next, and the one it is chained to (0: none).
NewCluster == op.start + op.done
Before == IF op.done > 0 THEN NewCluster - 1 ELSE op.cluster

\* What allocating a cluster of the run does to the volume.
LEMMA AllocateOneEffect ==
    ASSUME IInv, AllocateOne
    PROVE  /\ op.kind \in {"flush", "grow", "extend"} /\ op.need \in 1 .. MaxNeed
           /\ op.done \in Nat /\ op.done < op.need /\ op.start \in Data
           /\ NewCluster \in Data /\ fat[NewCluster] = Free /\ Unowned(NewCluster)
           /\ IF op.done = 0 /\ op.kind # "extend" THEN Before = 0
              ELSE Before \in Data /\ fat[Before] = Eoc /\ Before # NewCluster
           /\ fat' \in [Clusters -> Values]
           /\ fat'[0] = fat[0] /\ fat'[1] = fat[1] /\ fat'[2] = fat[2]
           /\ \A d \in Data : fat'[d] = IF d = NewCluster THEN Eoc
                                      ELSE IF d = Before THEN NewCluster ELSE fat[d]
<1> DEFINE c == NewCluster
           b == Before
<1>1. /\ op.at = "allocate" /\ ~Releasing
      /\ fat' = Allocated(c)
      /\ op' = IF op.done + 1 = op.need THEN AfterRun ELSE [op EXCEPT !.done = @ + 1]
      /\ UNCHANGED entry /\ extended' \subseteq Files
  BY DEF AllocateOne, Releasing, IInv, TypeOK, NewCluster
<1>2. /\ op.kind \in {"flush", "grow", "extend"} /\ op.need \in 1 .. MaxNeed
      /\ op.done \in Nat /\ op.done < op.need /\ op.start \in Data
  BY <1>1, FatAssumption DEF IInv, TypeOK, SearchSound, RunSound
<1>3. c \in Data /\ fat[c] = Free
  BY <1>1, <1>2, FatAssumption DEF IInv, RunIsFree, NewCluster
<1>4. Unowned(c)
  BY <1>1, <1>3 DEF IInv, LinksAllocated, CutEnd, OldEntry, Unowned
<1>5. IF op.done = 0 /\ op.kind # "extend" THEN b = 0 ELSE b \in Data /\ fat[b] = Eoc /\ b # c
  <2>1. CASE op.done = 0 /\ op.kind # "extend"
    BY <1>1, <2>1, FatAssumption DEF IInv, SearchSound, Before
  <2>2. CASE op.done = 0 /\ op.kind = "extend"
    BY <1>1, <1>3, <2>2, FatAssumption DEF IInv, SearchSound, Eoc, Free, Before
  <2>3. CASE op.done > 0
    BY <1>1, <1>2, <1>3, <2>3, FatAssumption DEF IInv, RunSound, Data, Before, NewCluster
  <2> QED
    BY <1>2, <2>1, <2>2, <2>3
<1> HIDE DEF c, b
<1>6. /\ fat' \in [Clusters -> Values]
      /\ fat'[0] = fat[0] /\ fat'[1] = fat[1] /\ fat'[2] = fat[2]
      /\ \A d \in Data : fat'[d] = IF d = c THEN Eoc ELSE IF d = b THEN c ELSE fat[d]
  <2>1. fat' = IF b = 0 THEN [fat EXCEPT ![c] = Eoc] ELSE [[fat EXCEPT ![c] = Eoc] EXCEPT ![b] = c]
    <3>1. c \in Clusters /\ (b # 0 => b \in Clusters)
      BY <1>3, <1>5, FatAssumption DEF Data, Clusters
    <3> QED
      BY <1>1, <3>1 DEF Allocated, SetFat, b, c, Before
  <2>2. c \in Values /\ Eoc \in Values /\ Data \subseteq Clusters
        /\ \A d \in 0 .. 2 : d \in Clusters \ Data
    BY <1>3, FatAssumption DEF Data, Clusters, Values, Eoc
  <2>3. fat \in [Clusters -> Values]
    BY DEF IInv, TypeOK
  <2> QED
    BY <1>3, <1>5, <2>1, <2>2, <2>3
<1> QED
  BY <1>2, <1>3, <1>4, <1>5, <1>6 DEF c, b

LEMMA AllocateOneKeepsIInv ==
    ASSUME IInv, AllocateOne
    PROVE  IInv'
<1> DEFINE c == op.start + op.done
           b == IF op.done > 0 THEN c - 1 ELSE op.cluster
<1>1. /\ op.at = "allocate" /\ ~Releasing
      /\ op' = IF op.done + 1 = op.need THEN AfterRun ELSE [op EXCEPT !.done = @ + 1]
      /\ UNCHANGED entry /\ extended' \subseteq Files
  BY DEF AllocateOne, Releasing, IInv, TypeOK
<1>0. c = NewCluster /\ b = Before
  BY DEF NewCluster, Before
<1>2. /\ op.kind \in {"flush", "grow", "extend"} /\ op.need \in 1 .. MaxNeed
      /\ op.done \in Nat /\ op.done < op.need /\ op.start \in Data
  BY AllocateOneEffect
<1> HIDE DEF c, b
<1>3. c \in Data /\ fat[c] = Free
  BY <1>0, AllocateOneEffect
<1>4. Unowned(c)
  BY <1>0, AllocateOneEffect
<1>5. IF op.done = 0 /\ op.kind # "extend" THEN b = 0 ELSE b \in Data /\ fat[b] = Eoc /\ b # c
  BY <1>0, AllocateOneEffect
<1>6. /\ fat' \in [Clusters -> Values]
      /\ fat'[0] = fat[0] /\ fat'[1] = fat[1] /\ fat'[2] = fat[2]
      /\ \A d \in Data : fat'[d] = IF d = c THEN Eoc ELSE IF d = b THEN c ELSE fat[d]
  BY <1>0, AllocateOneEffect
<1>7. Eoc \notin Data /\ Eoc # Free /\ Free \notin Data
  BY FatAssumption DEF Eoc, Data, Free
<1>8. ReservedIntact'
  BY <1>6 DEF IInv, ReservedIntact
<1>9. LinksInVolume'
  BY <1>1, <1>3, <1>6 DEF IInv, LinksInVolume
<1>10. OneOwner'
  BY <1>1, <1>3, <1>4, <1>6, <1>7 DEF IInv, OneOwner, Unowned
<1>11. /\ \A d \in Data : fat'[d] \in Data => fat'[fat'[d]] # Free
       /\ \A f \in Files : entry[f] \in Data => fat'[entry[f]] # Free
  BY <1>1, <1>3, <1>4, <1>6, <1>7 DEF IInv, LinksAllocated, CutEnd, OldEntry, Unowned
<1>12. LinksAllocated'
  BY <1>1, <1>11 DEF LinksAllocated
<1>13. op.kind # "extend" => fat'[op.start] # Free /\ \A d \in Data : fat'[d] # op.start
  <2> SUFFICES ASSUME op.kind # "extend"
               PROVE  fat'[op.start] # Free /\ \A d \in Data : fat'[d] # op.start
    OBVIOUS
  <2>1. CASE op.done = 0
    <3>1. op.start = c /\ b = 0
      BY <1>2, <1>5, <2>1, FatAssumption DEF c, Data
    <3> QED
      BY <1>3, <1>4, <1>6, <1>7, <3>1, FatAssumption DEF Unowned, Data
  <2>2. CASE op.done > 0
    <3>1. fat[op.start] # Free /\ Unowned(op.start)
      BY <1>1, <2>2 DEF IInv, RunSound
    <3>2. c # op.start
      BY <1>2, <2>2, FatAssumption DEF c, Data
    <3> QED
      BY <1>2, <1>3, <1>6, <1>7, <3>1, <3>2 DEF Unowned
  <2> QED
    BY <1>2, <2>1, <2>2
<1>14. op.kind # "extend" => \A f \in Files : entry[f] # op.start
  <2>1. CASE op.done = 0
    BY <1>2, <1>4, <2>1, FatAssumption DEF c, Data, Unowned
  <2>2. CASE op.done > 0
    BY <1>1, <2>2 DEF IInv, RunSound, Unowned
  <2> QED
    BY <1>2, <2>1, <2>2
<1>15. op.kind # "extend" => Unowned(op.start)'
  <2>1. op.kind = "flush" => AfterRun = [op EXCEPT !.at = "finish"]
    BY DEF AfterRun
  <2>2. op.kind = "grow" => AfterRun = [op EXCEPT !.at = "free", !.cluster = entry[op.file]]
    BY DEF AfterRun
  <2>3. op.kind # "extend" => op'.start = op.start
    BY <1>1, <1>2, <2>1, <2>2 DEF IInv, TypeOK
  <2> QED
    BY <1>1, <1>13, <1>14, <2>3 DEF Unowned
<1>20. CASE op.done + 1 # op.need
  <2>1. op' = [op EXCEPT !.done = @ + 1]
    BY <1>1, <1>20
  <2>2. /\ op'.at = "allocate" /\ op'.kind = op.kind /\ op'.file = op.file
        /\ op'.start = op.start /\ op'.need = op.need /\ op'.done = op.done + 1
        /\ op'.cluster = op.cluster
    BY <1>1, <2>1 DEF IInv, TypeOK
  <2>3. TypeOK'
    <3>1. op.done + 1 \in 0 .. MaxNeed
      BY <1>2, FatAssumption
    <3> QED
      BY <1>1, <1>6, <2>1, <3>1 DEF IInv, TypeOK
  <2>4. SearchSound'
    BY <1>1, <1>2, <2>2 DEF IInv, SearchSound
  <2>5. RunIsFree'
    <3> SUFFICES ASSUME NEW k \in op.done + 1 .. op.need - 1
                 PROVE  op.start + k \in Data /\ fat'[op.start + k] = Free
      BY <2>2 DEF RunIsFree
    <3>1. op.start + k \in Data /\ fat[op.start + k] = Free
      BY <1>1, <1>2, FatAssumption DEF IInv, RunIsFree
    <3>2. op.start + k # c
      BY <1>2, FatAssumption DEF c, Data
    <3> QED
      BY <1>5, <1>6, <1>7, <3>1, <3>2, FatAssumption DEF Data
  <2>6. RunSound'
    <3>1. op.start + (op.done + 1) - 1 = c
      BY <1>2, FatAssumption DEF c, Data
    <3>2. op.done + 1 < op.need
      BY <1>2, <1>20, FatAssumption
    <3> QED
      BY <1>2, <1>3, <1>6, <1>13, <1>15, <2>2, <3>1, <3>2 DEF RunSound
  <2>7. ReleaseSound'
    BY <2>2 DEF ReleaseSound, Releasing
  <2> QED
    BY <1>8, <1>9, <1>10, <1>12, <2>3, <2>4, <2>5, <2>6, <2>7 DEF IInv
<1>21. CASE op.done + 1 = op.need /\ op.kind = "extend"
  <2>1. op' = NoOp
    BY <1>1, <1>21 DEF AfterRun
  <2> USE <2>1, NoOpTyped
  <2>2. TypeOK'
    BY <1>1, <1>6, FatAssumption DEF IInv, TypeOK, Kinds, Values, Eoc
  <2>3. SearchSound' /\ RunIsFree' /\ RunSound' /\ ReleaseSound'
    BY DEF SearchSound, RunIsFree, RunSound, ReleaseSound, Releasing
  <2> QED
    BY <1>8, <1>9, <1>10, <1>12, <2>2, <2>3 DEF IInv
<1>22. CASE op.done + 1 = op.need /\ op.kind = "flush"
  <2>1. op' = [op EXCEPT !.at = "finish"]
    BY <1>1, <1>22 DEF AfterRun
  <2>2. op'.at = "finish" /\ op'.kind = "flush" /\ op'.start = op.start
    BY <1>22, <2>1 DEF IInv, TypeOK
  <2>3. TypeOK'
    BY <1>1, <1>6, <2>1 DEF IInv, TypeOK
  <2>4. SearchSound' /\ RunIsFree' /\ RunSound'
    BY <2>2 DEF SearchSound, RunIsFree, RunSound
  <2>5. ReleaseSound'
    BY <1>2, <1>13, <1>15, <1>22, <2>2 DEF ReleaseSound, Releasing
  <2> QED
    BY <1>8, <1>9, <1>10, <1>12, <2>3, <2>4, <2>5 DEF IInv
<1>23. CASE op.done + 1 = op.need /\ op.kind = "grow"
  <2>1. op' = [op EXCEPT !.at = "free", !.cluster = entry[op.file]]
    BY <1>1, <1>23 DEF AfterRun
  <2>2. /\ op'.at = "free" /\ op'.kind = "grow" /\ op'.start = op.start /\ op'.file = op.file
        /\ op'.cluster = entry[op.file] /\ op.file \in Files
    BY <1>23, <2>1 DEF IInv, TypeOK
  <2>3. entry[op.file] \in Data
    BY <1>1, <1>23 DEF IInv, SearchSound
  <2>4. TypeOK'
    <3>1. entry[op.file] \in 0 .. Eoc - 1
      BY <2>3, FatAssumption DEF Data, Eoc
    <3> QED
      BY <1>1, <1>6, <2>1, <3>1 DEF IInv, TypeOK
  <2>5. SearchSound' /\ RunIsFree' /\ RunSound'
    BY <2>2 DEF SearchSound, RunIsFree, RunSound
  <2>6. \A d \in Data : fat'[d] # entry[op.file]
    BY <1>3, <1>4, <1>6, <1>7, <2>2, <2>3 DEF IInv, OneOwner, Unowned
  <2>7. \A f \in Files : entry[f] = entry[op.file] => f = op.file
    BY <2>2, <2>3 DEF IInv, OneOwner
  <2>8. ReleaseSound'
    BY <1>1, <1>2, <1>11, <1>13, <1>14, <1>15, <1>23, <2>2, <2>3, <2>6, <2>7
    DEF ReleaseSound, Releasing, OldEntry
  <2> QED
    BY <1>8, <1>9, <1>10, <1>12, <2>4, <2>5, <2>8 DEF IInv
<1> QED
  BY <1>2, <1>20, <1>21, <1>22, <1>23

-----------------------------------------------------------------------------
(***************************************************************************)
(* Freeing a chain                                                         *)
(***************************************************************************)

\* What clearing one cluster of a chain does to the volume and to the loop.
LEMMA FreeOneEffect ==
    ASSUME IInv, FreeOne
    PROVE  /\ op.at = "free" /\ Releasing /\ UNCHANGED <<entry, extended>>
           /\ op.kind \in {"grow", "replace", "delete", "truncate", "shrink"}
           /\ op.cluster \in Data
           /\ \A d \in Data : fat[d] = op.cluster => CutEnd(d)
           /\ \A f \in Files : entry[f] = op.cluster => OldEntry(f)
           /\ op' = IF IsLink(fat[op.cluster]) THEN [op EXCEPT !.cluster = fat[op.cluster]]
                    ELSE [op EXCEPT !.at = "finish", !.cluster = 0]
           /\ fat' \in [Clusters -> Values]
           /\ fat'[0] = fat[0] /\ fat'[1] = fat[1] /\ fat'[2] = fat[2]
           /\ \A d \in Data : fat'[d] = IF d = op.cluster THEN Free ELSE fat[d]
           /\ Free \notin Data /\ (IsLink(fat[op.cluster]) <=> fat[op.cluster] \in Data)
           /\ op'.at \in {"free", "finish"} /\ op'.kind = op.kind /\ op'.file = op.file
           /\ op'.start = op.start /\ op'.need = op.need /\ op'.done = op.done
           /\ IF IsLink(fat[op.cluster]) THEN op'.at = "free" /\ op'.cluster = fat[op.cluster]
              ELSE op'.at = "finish" /\ op'.cluster = 0
<1> DEFINE c == op.cluster
           next == fat[op.cluster]
<1>1. op.at = "free" /\ Releasing /\ UNCHANGED <<entry, extended>>
  BY DEF FreeOne, Releasing
<1>2. /\ op.kind \in {"grow", "replace", "delete", "truncate", "shrink"}
      /\ c \in Data
      /\ \A d \in Data : fat[d] = c => CutEnd(d)
      /\ \A f \in Files : entry[f] = c => OldEntry(f)
  BY <1>1 DEF IInv, ReleaseSound
<1>3. /\ fat \in [Clusters -> Values] /\ fat' = [fat EXCEPT ![c] = Free]
      /\ Chained(c) = next
      /\ op' = IF IsLink(next) THEN [op EXCEPT !.cluster = next]
               ELSE [op EXCEPT !.at = "finish", !.cluster = 0]
  BY <1>2, FatAssumption DEF FreeOne, SetFat, Chained, IInv, TypeOK, Data, Clusters
<1>4. /\ fat' \in [Clusters -> Values]
      /\ fat'[0] = fat[0] /\ fat'[1] = fat[1] /\ fat'[2] = fat[2]
      /\ \A d \in Data : fat'[d] = IF d = c THEN Free ELSE fat[d]
  BY <1>2, <1>3, FatAssumption DEF Data, Clusters, Values, Free, Eoc
<1>5. Free \notin Data /\ (IsLink(next) <=> next \in Data)
  BY <1>2, FatAssumption DEF IInv, LinksInVolume, IsLink, Data, Free, Eoc
<1> HIDE DEF c, next
<1>6. /\ op'.at \in {"free", "finish"} /\ op'.kind = op.kind /\ op'.file = op.file
      /\ op'.start = op.start /\ op'.need = op.need /\ op'.done = op.done
      /\ IF IsLink(next) THEN op'.at = "free" /\ op'.cluster = next
         ELSE op'.at = "finish" /\ op'.cluster = 0
  BY <1>1, <1>3 DEF IInv, TypeOK
<1> QED
  BY <1>1, <1>2, <1>3, <1>4, <1>5, <1>6 DEF c, next

LEMMA FreeOneKeepsIInv ==
    ASSUME IInv, FreeOne
    PROVE  IInv'
<1> DEFINE c == op.cluster
           next == fat[op.cluster]
<1>1. op.at = "free" /\ Releasing /\ UNCHANGED <<entry, extended>>
  BY FreeOneEffect
<1>2. /\ op.kind \in {"grow", "replace", "delete", "truncate", "shrink"}
      /\ c \in Data
      /\ \A d \in Data : fat[d] = c => CutEnd(d)
      /\ \A f \in Files : entry[f] = c => OldEntry(f)
  BY FreeOneEffect
<1>3. op' = IF IsLink(next) THEN [op EXCEPT !.cluster = next]
            ELSE [op EXCEPT !.at = "finish", !.cluster = 0]
  BY FreeOneEffect
<1>4. /\ fat' \in [Clusters -> Values]
      /\ fat'[0] = fat[0] /\ fat'[1] = fat[1] /\ fat'[2] = fat[2]
      /\ \A d \in Data : fat'[d] = IF d = c THEN Free ELSE fat[d]
  BY FreeOneEffect
<1>5. Free \notin Data /\ (IsLink(next) => next \in Data)
  BY FreeOneEffect
<1>6. /\ op'.at \in {"free", "finish"} /\ op'.kind = op.kind /\ op'.file = op.file
      /\ op'.start = op.start /\ op'.need = op.need /\ op'.done = op.done
      /\ IF IsLink(next) THEN op'.at = "free" /\ op'.cluster = next
         ELSE op'.at = "finish" /\ op'.cluster = 0
  BY FreeOneEffect
<1> HIDE DEF c, next
<1>7. TypeOK'
  <2>1. next \in Data => next \in 0 .. Eoc - 1
    BY FatAssumption DEF Data, Eoc
  <2>2. 0 \in 0 .. Eoc - 1
    BY FatAssumption DEF Eoc
  <2> QED
    BY <1>1, <1>3, <1>4, <1>5, <2>1, <2>2 DEF IInv, TypeOK
<1>8. ReservedIntact'
  BY <1>4 DEF IInv, ReservedIntact
<1>9. LinksInVolume'
  BY <1>1, <1>4 DEF IInv, LinksInVolume
<1>10. OneOwner'
  BY <1>1, <1>4, <1>5 DEF IInv, OneOwner
<1>11. Releasing' /\ (\A d : CutEnd(d) <=> CutEnd(d)') /\ (\A f : OldEntry(f) <=> OldEntry(f)')
  BY <1>1, <1>6 DEF Releasing, CutEnd, OldEntry
<1>12. LinksAllocated'
  <2>1. ASSUME NEW d \in Data, fat'[d] \in Data PROVE fat'[fat'[d]] # Free \/ CutEnd(d)
    BY <1>2, <1>4, <1>5, <2>1 DEF IInv, LinksAllocated
  <2>2. ASSUME NEW f \in Files, entry[f] \in Data PROVE fat'[entry[f]] # Free \/ OldEntry(f)
    BY <1>2, <1>4, <2>2 DEF IInv, LinksAllocated
  <2> QED
    BY <1>1, <1>11, <2>1, <2>2 DEF LinksAllocated
<1>13. SearchSound' /\ RunIsFree' /\ RunSound'
  BY <1>6 DEF SearchSound, RunIsFree, RunSound
<1>14. op.kind = "grow" =>
          op.start \in Data /\ fat'[op.start] # Free /\ Unowned(op.start)' /\ next # op.start
  <2> SUFFICES ASSUME op.kind = "grow"
               PROVE  op.start \in Data /\ fat'[op.start] # Free /\ Unowned(op.start)'
                      /\ next # op.start
    OBVIOUS
  <2>1. op.start \in Data /\ fat[op.start] # Free /\ Unowned(op.start) /\ c # op.start
    BY <1>1 DEF IInv, ReleaseSound, c
  <2> QED
    BY <1>1, <1>2, <1>4, <1>5, <1>6, <2>1 DEF Unowned, next, c
<1>15. op.kind = "shrink" => op.start \in Data
  BY <1>1 DEF IInv, ReleaseSound
<1>16. IsLink(next) => (\A d \in Data : fat'[d] # next) /\ \A f \in Files : entry[f] # next
  <2> SUFFICES ASSUME IsLink(next)
               PROVE  (\A d \in Data : fat'[d] # next) /\ \A f \in Files : entry[f] # next
    OBVIOUS
  <2>1. next \in Data /\ next = fat[c]
    BY <1>5 DEF next, c
  <2>2. \A d \in Data : d # c => fat[d] # next
    BY <1>2, <2>1 DEF IInv, OneOwner
  <2>3. \A f \in Files : entry[f] # next
    BY <1>2, <2>1 DEF IInv, OneOwner
  <2> QED
    BY <1>4, <1>5, <2>1, <2>2, <2>3
<1>17. ReleaseSound'
  <2>1. op'.at = "free" => op'.cluster = next /\ IsLink(next)
    BY <1>6
  <2> QED
    BY <1>1, <1>2, <1>5, <1>6, <1>14, <1>15, <1>16, <2>1 DEF ReleaseSound, Releasing
<1> QED
  BY <1>7, <1>8, <1>9, <1>10, <1>12, <1>13, <1>17 DEF IInv

LEMMA FinishKeepsIInv ==
    ASSUME IInv, Finish
    PROVE  IInv'
<1>1. op.at = "finish" /\ Releasing /\ op' = NoOp /\ op.file \in Files
  BY DEF Finish, Releasing, IInv, TypeOK
<1>2. SearchSound' /\ RunIsFree' /\ RunSound' /\ ReleaseSound' /\ ~Releasing'
  BY <1>1, NoOpTyped DEF SearchSound, RunIsFree, RunSound, ReleaseSound, Releasing
<1>3. /\ NoOp \in [at : {"idle", "search", "probe", "allocate", "free", "finish"}, kind : Kinds,
                   file : Files, start : Values, need : 0 .. MaxNeed,
                   done : 0 .. MaxNeed, cluster : 0 .. Eoc - 1]
      /\ extended' \subseteq Files
  <2>1. 0 \in Values /\ 0 \in 0 .. MaxNeed /\ 0 \in 0 .. Eoc - 1
    BY FatAssumption DEF Values, Eoc
  <2>2. extended' \subseteq Files
    BY DEF Finish, IInv, TypeOK
  <2> QED
    BY <2>1, <2>2, NoOpTyped DEF Kinds
<1>4. fat \in [Clusters -> Values] /\ entry \in [Files -> {Absent} \cup 0 .. Eoc - 1]
  BY DEF IInv, TypeOK
<1>5. CASE op.kind \in {"flush", "grow"}
  <2>1. UNCHANGED fat /\ entry' = [entry EXCEPT ![op.file] = op.start]
    BY <1>5 DEF Finish
  <2>2. op.start \in Data /\ fat[op.start] # Free /\ Unowned(op.start)
    BY <1>1, <1>5 DEF IInv, ReleaseSound
  <2>3. \A f \in Files : entry'[f] = IF f = op.file THEN op.start ELSE entry[f]
    BY <1>1, <1>4, <2>1
  <2>4. TypeOK'
    <3>1. op.start \in 0 .. Eoc - 1
      BY <2>2, FatAssumption DEF Data, Eoc
    <3> QED
      BY <1>1, <1>3, <1>4, <2>1, <3>1 DEF TypeOK
  <2>5. ReservedIntact' /\ LinksInVolume'
    BY <2>1, <2>2, <2>3 DEF IInv, ReservedIntact, LinksInVolume
  <2>6. OneOwner'
    BY <2>1, <2>2, <2>3 DEF IInv, OneOwner, Unowned
  <2>7. LinksAllocated'
    BY <1>5, <2>1, <2>2, <2>3 DEF IInv, LinksAllocated, CutEnd, OldEntry
  <2> QED
    BY <1>2, <2>4, <2>5, <2>6, <2>7 DEF IInv
<1>6. CASE op.kind \in {"replace", "truncate"}
  <2>1. UNCHANGED fat /\ entry' = [entry EXCEPT ![op.file] = 0]
    BY <1>6 DEF Finish
  <2>2. \A f \in Files : entry'[f] = IF f = op.file THEN 0 ELSE entry[f]
    BY <1>1, <1>4, <2>1
  <2>3. 0 \notin Data
    BY DEF Data
  <2>4. TypeOK'
    <3>1. 0 \in 0 .. Eoc - 1
      BY FatAssumption DEF Eoc
    <3> QED
      BY <1>1, <1>3, <1>4, <2>1, <3>1 DEF TypeOK
  <2>5. ReservedIntact' /\ LinksInVolume'
    BY <2>1, <2>2 DEF IInv, ReservedIntact, LinksInVolume
  <2>6. OneOwner'
    BY <2>1, <2>2, <2>3 DEF IInv, OneOwner
  <2>7. LinksAllocated'
    BY <1>6, <2>1, <2>2, <2>3 DEF IInv, LinksAllocated, CutEnd, OldEntry
  <2> QED
    BY <1>2, <2>4, <2>5, <2>6, <2>7 DEF IInv
<1>7. CASE op.kind = "shrink"
  <2>1. op.start \in Data /\ UNCHANGED entry /\ fat' = [fat EXCEPT ![op.start] = Eoc]
    BY <1>1, <1>7, FatAssumption DEF Finish, SetFat, IInv, ReleaseSound, Data, Clusters
  <2>2. /\ fat' \in [Clusters -> Values]
        /\ fat'[0] = fat[0] /\ fat'[1] = fat[1] /\ fat'[2] = fat[2]
        /\ \A d \in Data : fat'[d] = IF d = op.start THEN Eoc ELSE fat[d]
    BY <1>4, <2>1, FatAssumption DEF Data, Clusters, Values, Eoc
  <2>3. Eoc \notin Data /\ Eoc # Free
    BY FatAssumption DEF Eoc, Data, Free
  <2>4. TypeOK'
    BY <1>1, <1>3, <1>4, <2>1, <2>2 DEF TypeOK
  <2>5. ReservedIntact' /\ LinksInVolume'
    BY <2>1, <2>2 DEF IInv, ReservedIntact, LinksInVolume
  <2>6. OneOwner'
    BY <2>1, <2>2, <2>3 DEF IInv, OneOwner
  <2>7. LinksAllocated'
    BY <1>7, <2>1, <2>2, <2>3 DEF IInv, LinksAllocated, CutEnd, OldEntry
  <2> QED
    BY <1>2, <2>4, <2>5, <2>6, <2>7 DEF IInv
<1>8. CASE op.kind \notin {"flush", "grow", "replace", "truncate", "shrink"}
  <2>1. UNCHANGED <<fat, entry>>
    BY <1>8 DEF Finish
  <2>2. TypeOK'
    BY <1>1, <1>3, <1>4, <2>1 DEF TypeOK
  <2>3. ReservedIntact' /\ LinksInVolume' /\ OneOwner'
    BY <2>1 DEF IInv, ReservedIntact, LinksInVolume, OneOwner
  <2>4. LinksAllocated'
    BY <1>8, <2>1 DEF IInv, LinksAllocated, CutEnd, OldEntry
  <2> QED
    BY <1>2, <2>2, <2>3, <2>4 DEF IInv
<1> QED
  BY <1>5, <1>6, <1>7, <1>8

-----------------------------------------------------------------------------
LEMMA NextKeepsIInv ==
    ASSUME ~DeletesEmptyFiles, IInv, [Next]_vars
    PROVE  IInv'
<1>1. ASSUME NEW f \in Files, Create(f) PROVE IInv'
  BY <1>1, CreateKeepsIInv
<1>2. ASSUME NEW f \in Files, Unlink(f) PROVE IInv'
  BY <1>2, UnlinkKeepsIInv
<1>3. ASSUME NEW f \in Files, NEW n \in 1 .. MaxNeed, Close(f, n) PROVE IInv'
  BY <1>3, CloseKeepsIInv
<1>4. ASSUME NEW f \in Files, NEW n \in 1 .. MaxNeed, Extend(f, n) PROVE IInv'
  BY <1>4, ExtendKeepsIInv
<1>5. ASSUME NEW f \in Files, NEW n \in 0 .. MaxNeed, Truncate(f, n) PROVE IInv'
  BY <1>5, TruncateKeepsIInv
<1>6. CASE FindFree
  BY <1>6, FindFreeKeepsIInv
<1>7. CASE VolumeFull
  BY <1>7, VolumeFullKeepsIInv
<1>8. CASE CountRun
  BY <1>8, CountRunKeepsIInv
<1>9. CASE AllocateOne
  BY <1>9, AllocateOneKeepsIInv
<1>10. CASE FreeOne
  BY <1>10, FreeOneKeepsIInv
<1>11. CASE Finish
  BY <1>11, FinishKeepsIInv
<1>12. CASE UNCHANGED vars
  BY <1>12, StutterKeepsIInv
<1> QED
  BY <1>1, <1>2, <1>3, <1>4, <1>5, <1>6, <1>7, <1>8, <1>9, <1>10, <1>11, <1>12
  DEF Next, Start, Step

THEOREM Invariance ==
    ASSUME ~DeletesEmptyFiles
    PROVE  Spec => []IInv
<1>1. IInv /\ [Next]_vars => IInv'
  BY NextKeepsIInv
<1> QED
  BY InitIInv, <1>1, PTL DEF Spec

\* Type correctness of the allocator.
THEOREM TypeCorrect ==
    ASSUME ~DeletesEmptyFiles
    PROVE  Spec => []TypeOK
<1>1. IInv => TypeOK
  BY DEF IInv
<1> QED
  BY <1>1, Invariance, PTL

\* find_contiguous_clusters() only ever hands out clusters of the volume that
\* are free, and they stay free until they are allocated.
THEOREM RunsAreFree ==
    ASSUME ~DeletesEmptyFiles
    PROVE  Spec => []RunIsFree
<1>1. IInv => RunIsFree
  BY DEF IInv
<1> QED
  BY <1>1, Invariance, PTL

\* No loop over a chain and no allocation touches the reserved entries of the FAT,
\* as long as no file without clusters is deleted.
THEOREM ReservedUntouched ==
    ASSUME ~DeletesEmptyFiles
    PROVE  Spec => []ReservedIntact
<1>1. IInv => ReservedIntact
  BY DEF IInv
<1> QED
  BY <1>1, Invariance, PTL

\* No cluster is ever in two files, or twice in one.
THEOREM NoCrossLink ==
    ASSUME ~DeletesEmptyFiles
    PROVE  Spec => []OneOwner
<1>1. IInv => OneOwner
  BY DEF IInv
<1> QED
  BY <1>1, Invariance, PTL

\* Between two calls no file leads into clusters that are free.
THEOREM NoDanglingChain ==
    ASSUME ~DeletesEmptyFiles
    PROVE  Spec => []ChainsAllocated
<1>1. IInv => ChainsAllocated
  BY DEF IInv, LinksAllocated, ChainsAllocated, Idle, CutEnd, OldEntry, Releasing
<1> QED
  BY <1>1, Invariance, PTL

-----------------------------------------------------------------------------
(***************************************************************************)
(* Whole chains: no cluster is lost, no two files share one, and a file    *)
(* that pwrite() has not extended is one block.                            *)
(*                                                                         *)
(* ChainOf(h) is the least set of clusters that holds h and is closed      *)
(* under links.  So nothing here counts steps along a chain: to keep a     *)
(* cluster out of a chain a proof names a closed set without it, and to    *)
(* show that all clusters in use are reached it takes any closed set with  *)
(* the heads of all chains and extends it to one of the state before.      *)
(***************************************************************************)

\* Closed under the links of table t; the chain in it that begins with h.
Closed(t, R) == \A e \in R : t[e] \in Data => t[e] \in R
Chain(t, h) ==
    {d \in Data : h \in Data /\ \A R \in SUBSET Data : Closed(t, R) /\ h \in R => d \in R}
InSequence(t, h) == \A c \in Chain(t, h) : t[c] \in Data => t[c] = c + 1

\* The run being built, or built but not yet in the entry of its file.
NewRun ==
    \/ op.at = "allocate" /\ op.done > 0 /\ op.kind # "extend"
    \/ Releasing /\ op.kind \in {"flush", "grow"}

\* Where the chains of clusters in use begin: in the entries, at what is left of
\* the chain that is being freed, at the new run.
IsHead(c) ==
    \/ \E f \in Files : entry[f] = c /\ ~OldEntry(f)
    \/ op.at = "free" /\ op.cluster = c
    \/ NewRun /\ op.start = c

\* At every moment, the heads lead to all clusters in use.
AllReached ==
    \A R \in SUBSET Data :
        Closed(fat, R) /\ (\A c \in Data : IsHead(c) => c \in R)
            => \A c \in Data : fat[c] # Free => c \in R

\* The entry that a call is going to fill leads nowhere.
EntryEmpty ==
    ~Idle => /\ op.kind = "flush" => entry[op.file] = 0
             /\ op.kind = "replace" => entry[op.file] = Absent

\* A file that shrinks: the cluster behind its new end is being freed, and the
\* loop that frees does not come round to the new end.
CutSound ==
    (Releasing /\ op.kind = "shrink") =>
        /\ fat[op.start] \in Data
        /\ (op.at = "free" /\ op.cluster = fat[op.start]) \/ fat[fat[op.start]] = Free
        /\ op.at = "free" =>
              \E R \in SUBSET Data : Closed(fat, R) /\ op.cluster \in R /\ op.start \notin R

Blocks ==
    /\ \A f \in Files \ extended : InSequence(fat, entry[f])
    /\ NewRun => InSequence(fat, op.start)

\* pwrite() extends the chain of its own file.
ExtendsOwn ==
    (op.at \in {"search", "probe", "allocate"} /\ op.kind = "extend" /\ op.done = 0) =>
        op.cluster \in Chain(fat, entry[op.file])

CInv ==
    /\ AllReached
    /\ EntryEmpty
    /\ CutSound
    /\ Blocks
    /\ ExtendsOwn

-----------------------------------------------------------------------------
(***************************************************************************)
(* Chains                                                                  *)
(***************************************************************************)

\* A chain is a closed set of clusters, and lies in any that has its head.
LEMMA ChainClosed ==
    ASSUME NEW t, NEW h
    PROVE  /\ Chain(t, h) \in SUBSET Data /\ Closed(t, Chain(t, h))
           /\ h \in Data => h \in Chain(t, h)
           /\ \A R \in SUBSET Data : Closed(t, R) /\ h \in R => Chain(t, h) \subseteq R
BY DEF Chain, Closed

\* Something in the chain leads to each of its clusters but the head.
LEMMA ChainStep ==
    ASSUME NEW t, NEW h, NEW x \in Chain(t, h), x # h
    PROVE  \E e \in Chain(t, h) : t[e] = x
<1> SUFFICES ASSUME \A e \in Chain(t, h) : t[e] # x PROVE FALSE
  OBVIOUS
<1>1. h \in Data
  BY DEF Chain
<1>2. Closed(t, Chain(t, h) \ {x}) /\ Chain(t, h) \ {x} \in SUBSET Data /\ h \in Chain(t, h) \ {x}
  BY <1>1, ChainClosed DEF Closed
<1> QED
  BY <1>2, ChainClosed

\* The chains of two files have no cluster in common.
LEMMA ChainsApart ==
    ASSUME OneOwner, NEW f \in Files, NEW g \in Files, f # g
    PROVE  Chain(fat, entry[f]) \cap Chain(fat, entry[g]) = {}
<1> DEFINE R == Chain(fat, entry[g]) \ Chain(fat, entry[f])
<1> SUFFICES ASSUME NEW x \in Chain(fat, entry[f]), x \in Chain(fat, entry[g]) PROVE FALSE
  OBVIOUS
<1>1. entry[f] \in Data /\ entry[g] \in Data
  BY DEF Chain
<1>2. entry[g] \notin Chain(fat, entry[f])
  BY <1>1, ChainStep, ChainClosed DEF OneOwner
<1>3. Closed(fat, R)
  <2> SUFFICES ASSUME NEW e \in R, fat[e] \in Data PROVE fat[e] \in R
    BY DEF Closed
  <2>1. fat[e] \in Chain(fat, entry[g]) /\ e \in Data
    BY ChainClosed DEF Closed
  <2>2. CASE fat[e] = entry[f]
    BY <1>1, <2>1, <2>2 DEF OneOwner
  <2>3. CASE fat[e] # entry[f]
    <3>1. ASSUME fat[e] \in Chain(fat, entry[f]) PROVE FALSE
      <4>1. PICK d \in Chain(fat, entry[f]) : fat[d] = fat[e]
        BY <2>3, <3>1, ChainStep
      <4>2. d \in Data /\ d # e
        BY ChainClosed
      <4> QED
        BY <2>1, <4>1, <4>2 DEF OneOwner
    <3> QED
      BY <2>1, <3>1
  <2> QED
    BY <2>2, <2>3
<1>4. R \in SUBSET Data /\ entry[g] \in R
  BY <1>1, <1>2, ChainClosed
<1> QED
  BY <1>3, <1>4, ChainClosed

\* The chain of a file does not come back to a cluster it has passed.
LEMMA NoCycle ==
    ASSUME OneOwner, NEW f \in Files, NEW c \in Chain(fat, entry[f]), fat[c] \in Data
    PROVE  c \notin Chain(fat, fat[c])
<1> DEFINE S == Chain(fat, fat[c])
           R == Data \ S
<1> SUFFICES ASSUME c \in S PROVE FALSE
  OBVIOUS
<1>1. \A x \in S : \E e \in S : fat[e] = x
  BY ChainStep
<1>2. S \subseteq Data /\ entry[f] \in Data
  BY ChainClosed DEF Chain
<1>3. entry[f] \notin S
  BY <1>1, <1>2 DEF OneOwner
<1>4. Closed(fat, R)
  <2> SUFFICES ASSUME NEW e \in Data, e \notin S, fat[e] \in Data, fat[e] \in S PROVE FALSE
    BY DEF Closed
  <2>1. PICK d \in S : fat[d] = fat[e]
    BY <1>1
  <2> QED
    BY <1>2, <2>1 DEF OneOwner
<1>5. Chain(fat, entry[f]) \subseteq R
  BY <1>2, <1>3, <1>4, ChainClosed
<1> QED
  BY <1>5

\* To show that a chain is one block, name a closed set that holds it.
LEMMA StaysInSequence ==
    ASSUME NEW t, NEW h, NEW R \in SUBSET Data, Closed(t, R), h \in Data => h \in R,
           \A c \in R : t[c] \in Data => t[c] = c + 1
    PROVE  InSequence(t, h)
<1>1. h \in Data => Chain(t, h) \subseteq R
  BY ChainClosed
<1>2. h \notin Data => Chain(t, h) = {}
  BY DEF Chain
<1> QED
  BY <1>1, <1>2 DEF InSequence

-----------------------------------------------------------------------------
(***************************************************************************)
(* Steps that change no link                                               *)
(***************************************************************************)

LEMMA InitCInv == Init => CInv
<1> SUFFICES ASSUME Init PROVE CInv
  OBVIOUS
<1> USE FatAssumption, NoOpTyped DEF Init, Releasing, Idle
<1>1. AllReached /\ EntryEmpty /\ CutSound /\ ExtendsOwn
  BY DEF AllReached, EntryEmpty, CutSound, ExtendsOwn, Data, Clusters
<1>2. Blocks
  <2>1. \A f \in Files : entry[f] \notin Data
    BY DEF Data
  <2> QED
    BY <2>1 DEF Blocks, NewRun, InSequence, Chain
<1> QED
  BY <1>1, <1>2 DEF CInv

\* A step that drops no head keeps all clusters reached.
LEMMA HeadsKept ==
    ASSUME AllReached, UNCHANGED fat, \A c \in Data : IsHead(c) => IsHead(c)'
    PROVE  AllReached'
BY DEF AllReached

LEMMA StutterKeepsCInv ==
    ASSUME CInv, UNCHANGED vars
    PROVE  CInv'
BY DEF vars, CInv, AllReached, EntryEmpty, CutSound, Blocks, ExtendsOwn, IsHead, NewRun, Releasing,
       OldEntry, Idle

\* The first step of a call that wipes an entry: what it led to is freed.
LEMMA WipeKeepsCInv ==
    ASSUME CInv, IInv, Idle, NEW f \in Files, NEW kind \in {"replace", "delete"},
           entry' = [entry EXCEPT ![f] = Absent], Release(kind, f, entry[f], 0),
           extended' = extended \ {f}, UNCHANGED fat
    PROVE  CInv'
<1>1. op' = [at |-> "free", kind |-> kind, file |-> f, start |-> 0, need |-> 0, done |-> 0,
            cluster |-> entry[f]]
  BY ReleaseOp
<1>2. entry \in [Files -> {Absent} \cup 0 .. Eoc - 1]
  BY DEF IInv, TypeOK
<1>3. AllReached'
  <2>1. \A c \in Data : IsHead(c) => IsHead(c)'
    BY <1>1, <1>2 DEF IsHead, Idle, OldEntry, NewRun, Releasing
  <2> QED
    BY <2>1, HeadsKept DEF CInv
<1>4. EntryEmpty' /\ CutSound' /\ ExtendsOwn' /\ ~NewRun'
  BY <1>1, <1>2 DEF EntryEmpty, CutSound, ExtendsOwn, NewRun
<1>5. Blocks'
  <2>1. Absent \notin Data
    BY FatAssumption DEF Data
  <2>2. InSequence(fat, Absent)
    BY <2>1 DEF InSequence, Chain
  <2> QED
    BY <1>2, <1>4, <2>2 DEF CInv, Blocks
<1> QED
  BY <1>3, <1>4, <1>5 DEF CInv

LEMMA CreateKeepsCInv ==
    ASSUME CInv, IInv, NEW f \in Files, Create(f)
    PROVE  CInv'
<1>1. CASE entry[f] # Absent
  BY <1>1, WipeKeepsCInv DEF Create
<1>2. CASE entry[f] = Absent
  <2>1. /\ entry' = [entry EXCEPT ![f] = 0] /\ UNCHANGED <<fat, op>> /\ Idle
        /\ extended' = extended \ {f} /\ entry \in [Files -> {Absent} \cup 0 .. Eoc - 1]
    BY <1>2 DEF Create, IInv, TypeOK
  <2>2. AllReached'
    <3>1. \A c \in Data : IsHead(c) => IsHead(c)'
      BY <1>2, <2>1, FatAssumption DEF IsHead, Idle, OldEntry, NewRun, Releasing, Data
    <3> QED
      BY <2>1, <3>1, HeadsKept DEF CInv
  <2>3. CutSound' /\ ExtendsOwn' /\ ~NewRun'
    BY <2>1 DEF CutSound, ExtendsOwn, NewRun, Releasing, Idle
  <2>4. EntryEmpty'
    BY <2>1 DEF EntryEmpty, Idle
  <2>5. Blocks'
    <3>1. InSequence(fat, 0)
      BY DEF InSequence, Chain, Data
    <3> QED
      BY <2>1, <2>3, <3>1 DEF CInv, Blocks
  <2> QED
    BY <2>2, <2>3, <2>4, <2>5 DEF CInv
<1> QED
  BY <1>1, <1>2

LEMMA UnlinkKeepsCInv ==
    ASSUME CInv, IInv, NEW f \in Files, Unlink(f)
    PROVE  CInv'
BY WipeKeepsCInv DEF Unlink

\* The first step of a call that looks for clusters.
LEMMA SeekKeepsCInv ==
    ASSUME CInv, IInv, Idle, NEW f \in Files, NEW n,
           NEW kind \in {"flush", "grow", "extend"}, NEW cluster,
           Seek(kind, f, n, cluster), UNCHANGED <<fat, entry, extended>>,
           kind = "flush" => entry[f] = 0,
           kind = "extend" => cluster \in Chain(fat, entry[f])
    PROVE  CInv'
<1>1. op' = [at |-> "search", kind |-> kind, file |-> f, start |-> 0, need |-> n, done |-> 0,
            cluster |-> cluster]
  BY SeekOp
<1>2. AllReached'
  <2>1. \A c \in Data : IsHead(c) => IsHead(c)'
    BY <1>1 DEF IsHead, Idle, OldEntry, NewRun, Releasing
  <2> QED
    BY <2>1, HeadsKept DEF CInv
<1>3. EntryEmpty' /\ CutSound' /\ ExtendsOwn' /\ ~NewRun'
  BY <1>1 DEF EntryEmpty, CutSound, ExtendsOwn, NewRun, Releasing
<1>4. Blocks'
  BY <1>3 DEF CInv, Blocks
<1> QED
  BY <1>2, <1>3, <1>4 DEF CInv

LEMMA CloseKeepsCInv ==
    ASSUME CInv, IInv, NEW f \in Files, NEW n, Close(f, n)
    PROVE  CInv'
BY SeekKeepsCInv DEF Close

LEMMA ExtendKeepsCInv ==
    ASSUME CInv, IInv, NEW f \in Files, NEW n, Extend(f, n)
    PROVE  CInv'
<1>1. PICK last \in ChainOf(entry[f]) : Seek("extend", f, n, last)
  BY DEF Extend
<1>2. last \in Chain(fat, entry[f])
  BY <1>1 DEF ChainOf, Chain, Closed
<1> QED
  BY <1>1, <1>2, SeekKeepsCInv DEF Extend

\* The first step of a call that frees a chain or the end of one.
LEMMA TruncateKeepsCInv ==
    ASSUME CInv, IInv, NEW f \in Files, NEW n, Truncate(f, n)
    PROVE  CInv'
<1>0. Idle /\ entry[f] \in Data /\ UNCHANGED <<fat, entry, extended>>
  BY DEF Truncate
<1>1. CASE Release("truncate", f, entry[f], 0)
  <2>1. op' = [at |-> "free", kind |-> "truncate", file |-> f, start |-> 0, need |-> 0,
              done |-> 0, cluster |-> entry[f]]
    BY <1>1, ReleaseOp
  <2>2. AllReached'
    <3>1. \A c \in Data : IsHead(c) => IsHead(c)'
      BY <1>0, <2>1 DEF IsHead, Idle, OldEntry, NewRun, Releasing
    <3> QED
      BY <1>0, <3>1, HeadsKept DEF CInv
  <2>3. EntryEmpty' /\ CutSound' /\ ExtendsOwn' /\ ~NewRun'
    BY <2>1 DEF EntryEmpty, CutSound, ExtendsOwn, NewRun
  <2>4. Blocks'
    BY <1>0, <2>3 DEF CInv, Blocks
  <2> QED
    BY <2>2, <2>3, <2>4 DEF CInv
<1>2. CASE Seek("grow", f, n, 0)
  BY <1>0, <1>2, SeekKeepsCInv
<1>3. ASSUME NEW cut \in ChainOf(entry[f]), IsLink(Chained(cut)),
             Release("shrink", f, Chained(cut), cut)
      PROVE  CInv'
  <2>1. op' = [at |-> "free", kind |-> "shrink", file |-> f, start |-> cut, need |-> 0,
              done |-> 0, cluster |-> Chained(cut)]
    BY <1>3, ReleaseOp
  <2>2. cut \in Data /\ cut \in Chain(fat, entry[f])
    BY <1>3 DEF ChainOf, Chain, Closed
  <2>3. Chained(cut) = fat[cut] /\ fat[cut] \in Data
    BY <1>3, <2>2, FatAssumption
    DEF IInv, LinksInVolume, IsLink, Chained, Data, Clusters, Eoc, Free
  <2>4. AllReached'
    <3>1. \A c \in Data : IsHead(c) => IsHead(c)'
      BY <1>0, <2>1 DEF IsHead, Idle, OldEntry, NewRun, Releasing
    <3> QED
      BY <1>0, <3>1, HeadsKept DEF CInv
  <2>5. EntryEmpty' /\ ExtendsOwn' /\ ~NewRun'
    BY <2>1 DEF EntryEmpty, ExtendsOwn, NewRun
  <2>6. CutSound'
    <3>1. fat[cut] \in Chain(fat, fat[cut]) /\ cut \notin Chain(fat, fat[cut])
      BY <2>2, <2>3, ChainClosed, NoCycle DEF IInv
    <3> QED
      BY <1>0, <2>1, <2>3, <3>1, ChainClosed DEF CutSound
  <2>7. Blocks'
    BY <1>0, <2>5 DEF CInv, Blocks
  <2> QED
    BY <2>4, <2>5, <2>6, <2>7 DEF CInv
<1> QED
  BY <1>0, <1>1, <1>2, <1>3 DEF Truncate

LEMMA FindFreeKeepsCInv ==
    ASSUME CInv, IInv, FindFree
    PROVE  CInv'
<1>1. PICK first \in 2 .. 2 * FatEntries : op' = [op EXCEPT !.at = "probe", !.start = first]
  BY DEF FindFree
<1>2. op.at = "search" /\ UNCHANGED <<fat, entry, extended>>
  BY DEF FindFree
<1>3. /\ op'.at = "probe" /\ op'.kind = op.kind /\ op'.file = op.file /\ op'.done = op.done
      /\ op'.cluster = op.cluster
  BY <1>1 DEF IInv, TypeOK
<1>4. AllReached'
  <2>1. \A c \in Data : IsHead(c) => IsHead(c)'
    BY <1>2, <1>3 DEF IsHead, OldEntry, NewRun, Releasing
  <2> QED
    BY <1>2, <2>1, HeadsKept DEF CInv
<1>5. EntryEmpty' /\ CutSound' /\ ExtendsOwn' /\ Blocks'
  BY <1>2, <1>3 DEF CInv, EntryEmpty, CutSound, ExtendsOwn, Blocks, NewRun, Releasing, Idle
<1> QED
  BY <1>4, <1>5 DEF CInv

LEMMA CountRunKeepsCInv ==
    ASSUME CInv, IInv, CountRun
    PROVE  CInv'
<1>1. PICK count \in 1 .. op.need :
        op' = IF count = op.need THEN [op EXCEPT !.at = "allocate"]
              ELSE [op EXCEPT !.at = "search", !.start = @ + count]
  BY DEF CountRun
<1>2. op.at = "probe" /\ op.done = 0 /\ UNCHANGED <<fat, entry, extended>>
  BY DEF CountRun, IInv, SearchSound
<1>3. /\ op'.at \in {"search", "allocate"} /\ op'.kind = op.kind /\ op'.file = op.file
      /\ op'.done = 0 /\ op'.cluster = op.cluster
  BY <1>1, <1>2 DEF IInv, TypeOK
<1>4. AllReached'
  <2>1. \A c \in Data : IsHead(c) => IsHead(c)'
    BY <1>2, <1>3 DEF IsHead, OldEntry, NewRun, Releasing
  <2> QED
    BY <1>2, <2>1, HeadsKept DEF CInv
<1>5. EntryEmpty' /\ CutSound' /\ ExtendsOwn' /\ Blocks'
  BY <1>2, <1>3 DEF CInv, EntryEmpty, CutSound, ExtendsOwn, Blocks, NewRun, Releasing, Idle
<1> QED
  BY <1>4, <1>5 DEF CInv

LEMMA VolumeFullKeepsCInv ==
    ASSUME CInv, IInv, VolumeFull
    PROVE  CInv'
<1>1. op.at = "search" /\ op' = NoOp /\ op'.at = "idle" /\ UNCHANGED <<fat, entry, extended>>
  BY NoOpTyped DEF VolumeFull
<1>2. AllReached'
  <2>1. \A c \in Data : IsHead(c) => IsHead(c)'
    BY <1>1 DEF IsHead, OldEntry, NewRun, Releasing
  <2> QED
    BY <1>1, <2>1, HeadsKept DEF CInv
<1>3. EntryEmpty' /\ CutSound' /\ ExtendsOwn' /\ Blocks'
  BY <1>1 DEF CInv, EntryEmpty, CutSound, ExtendsOwn, Blocks, NewRun, Releasing, Idle
<1> QED
  BY <1>2, <1>3 DEF CInv

-----------------------------------------------------------------------------
(***************************************************************************)
(* Steps that change links                                                 *)
(***************************************************************************)

\* Where the call stands after a cluster of its run has been allocated.
LEMMA AfterAllocateOne ==
    ASSUME IInv, AllocateOne
    PROVE  /\ UNCHANGED entry
           /\ op.at = "allocate"
           /\ extended' = IF op.kind = "extend" THEN extended \cup {op.file} ELSE extended
           /\ \/ /\ op'.at = "allocate" /\ op'.kind = op.kind /\ op'.file = op.file
                 /\ op'.start = op.start /\ op'.done = op.done + 1
              \/ op.kind = "extend" /\ op'.at = "idle"
              \/ /\ op.kind = "flush" /\ op'.at = "finish" /\ op'.kind = "flush"
                 /\ op'.file = op.file /\ op'.start = op.start
              \/ /\ op.kind = "grow" /\ op'.at = "free" /\ op'.kind = "grow"
                 /\ op'.file = op.file /\ op'.start = op.start
                 /\ op'.cluster = entry[op.file]
<1>1. /\ op.at = "allocate" /\ UNCHANGED entry
      /\ op' = IF op.done + 1 = op.need THEN AfterRun ELSE [op EXCEPT !.done = @ + 1]
      /\ extended' = IF op.kind = "extend" THEN extended \cup {op.file} ELSE extended
  BY DEF AllocateOne
<1>2. op.kind \in {"flush", "grow", "extend"}
  BY AllocateOneEffect
<1>3. /\ op.kind = "extend" => AfterRun = NoOp
      /\ op.kind = "flush" => AfterRun = [op EXCEPT !.at = "finish"]
      /\ op.kind = "grow" => AfterRun = [op EXCEPT !.at = "free", !.cluster = entry[op.file]]
  BY DEF AfterRun
<1> QED
  BY <1>1, <1>2, <1>3, NoOpTyped DEF IInv, TypeOK

LEMMA AllocateOneKeepsCInv ==
    ASSUME CInv, IInv, AllocateOne
    PROVE  CInv'
<1> DEFINE c == NewCluster
           b == Before
<1>1. /\ op.done \in Nat /\ op.start \in Data /\ c \in Data /\ fat[c] = Free
      /\ IF op.done = 0 /\ op.kind # "extend" THEN b = 0
         ELSE b \in Data /\ fat[b] = Eoc /\ b # c
      /\ \A d \in Data : fat'[d] = IF d = c THEN Eoc ELSE IF d = b THEN c ELSE fat[d]
  BY AllocateOneEffect
<1>2. Eoc \notin Data /\ Free \notin Data /\ Eoc # Free /\ 0 \notin Data
  BY FatAssumption DEF Eoc, Data, Free
<1>3. op.done = 0 => c = op.start
  BY <1>1, FatAssumption DEF NewCluster, Data
<1>4. op.done > 0 => c = b + 1 /\ b = c - 1
  BY <1>1, FatAssumption DEF NewCluster, Before, Data
<1>5. op.at = "allocate" /\ ~Releasing /\ op.done + 1 > 0
  BY <1>1, AfterAllocateOne DEF Releasing
<1>6. \A R \in SUBSET Data : Closed(fat, R) => Closed(fat', R \cup {c})
  BY <1>1, <1>2 DEF Closed
<1>7. \A R \in SUBSET Data : Closed(fat', R) => Closed(fat, R)
  BY <1>1, <1>2 DEF Closed
<1>8. op.done = 0 /\ op.kind = "extend" => b = op.cluster
  BY DEF Before
<1> HIDE DEF c, b
<1>9. AllReached'
  <2> SUFFICES ASSUME NEW R \in SUBSET Data, Closed(fat', R),
                      \A d \in Data : IsHead(d)' => d \in R,
                      NEW x \in Data, fat'[x] # Free
               PROVE  x \in R
    BY DEF AllReached
  <2>1. \A d \in Data : IsHead(d) => IsHead(d)'
    BY <1>1, <1>5, AfterAllocateOne DEF IsHead, OldEntry, NewRun, Releasing
  <2>2. \A d \in Data : fat[d] # Free => d \in R
    BY <1>7, <2>1 DEF CInv, AllReached
  <2>3. c \in R
    <3>1. CASE b \in Data
      BY <1>1, <1>2, <2>2, <3>1 DEF Closed
    <3>2. CASE b \notin Data
      <4>1. op.done = 0 /\ op.kind # "extend" /\ c = op.start
        BY <1>1, <1>3, <3>2
      <4>2. \A d \in Data : d = op.start => IsHead(d)'
        BY <1>5, <4>1, AfterAllocateOne DEF IsHead, NewRun, Releasing
      <4> QED
        BY <1>1, <4>1, <4>2
    <3> QED
      BY <3>1, <3>2
  <2> QED
    BY <1>1, <1>2, <2>2, <2>3
<1>10. EntryEmpty' /\ CutSound'
  BY <1>5, AfterAllocateOne DEF CInv, EntryEmpty, CutSound, Releasing, Idle
<1>11. ExtendsOwn'
  BY <1>1, AfterAllocateOne DEF ExtendsOwn
<1>12. ASSUME NEW h, InSequence(fat, h), op.done = 0 /\ op.kind = "extend" => b \notin Chain(fat, h)
       PROVE  InSequence(fat', h)
  <2> DEFINE R == Chain(fat, h) \cup {c}
  <2>1. R \in SUBSET Data /\ Closed(fat', R) /\ (h \in Data => h \in R)
    BY <1>1, <1>6, ChainClosed
  <2>2. ASSUME NEW d \in R, fat'[d] \in Data PROVE fat'[d] = d + 1
    <3>1. d \in Data /\ d # c /\ d \in Chain(fat, h)
      BY <1>1, <1>2, <2>1, <2>2
    <3>2. CASE d = b
      <4>1. op.done > 0
        BY <1>1, <1>2, <1>12, <3>1, <3>2
      <4> QED
        BY <1>1, <1>4, <3>1, <3>2, <4>1
    <3>3. CASE d # b
      BY <1>1, <1>12, <2>2, <3>1, <3>3 DEF InSequence
    <3> QED
      BY <3>2, <3>3
  <2> QED
    BY <2>1, <2>2, StaysInSequence
<1>13. Blocks'
  <2>1. ASSUME NEW f \in Files, f \notin extended' PROVE InSequence(fat', entry[f])
    <3>1. InSequence(fat, entry[f])
      BY <2>1, AfterAllocateOne DEF CInv, Blocks
    <3>2. ASSUME op.done = 0, op.kind = "extend" PROVE b \notin Chain(fat, entry[f])
      <4>1. f # op.file /\ op.file \in Files
        BY <2>1, <3>2, AfterAllocateOne DEF IInv, TypeOK
      <4>2. b \in Chain(fat, entry[op.file])
        BY <1>5, <1>8, <3>2 DEF CInv, ExtendsOwn
      <4> QED
        BY <4>1, <4>2, ChainsApart DEF IInv
    <3> QED
      BY <1>12, <3>1, <3>2
  <2>2. ASSUME NewRun' PROVE InSequence(fat', op.start)
    <3>0. op.kind # "extend"
      BY <1>5, <2>2, AfterAllocateOne DEF NewRun, Releasing
    <3>1. CASE op.done > 0
      <4>1. InSequence(fat, op.start)
        BY <1>5, <3>0, <3>1 DEF CInv, Blocks, NewRun
      <4> QED
        BY <1>12, <3>0, <4>1
    <3>2. CASE op.done = 0
      <4>1. op.start = c /\ {c} \in SUBSET Data /\ Closed(fat', {c}) /\ fat'[c] \notin Data
        BY <1>1, <1>2, <1>3, <3>2 DEF Closed
      <4> QED
        BY <4>1, StaysInSequence
    <3> QED
      BY <1>1, <3>1, <3>2
  <2>3. NewRun' => op'.start = op.start
    BY <1>5, AfterAllocateOne DEF NewRun, Releasing
  <2> QED
    BY <2>1, <2>2, <2>3, AfterAllocateOne DEF Blocks
<1> QED
  BY <1>9, <1>10, <1>11, <1>13 DEF CInv

\* One iteration of the loop that frees a chain: whatever closed set the new
\* heads lie in, with the cluster just freed it was one before.
LEMMA FreeOneKeepsCInv ==
    ASSUME CInv, IInv, FreeOne
    PROVE  CInv'
<1> DEFINE c == op.cluster
           next == fat[op.cluster]
<1>1. /\ op.at = "free" /\ Releasing /\ UNCHANGED <<entry, extended>> /\ c \in Data
      /\ \A d \in Data : fat'[d] = IF d = c THEN Free ELSE fat[d]
      /\ Free \notin Data
      /\ op'.at \in {"free", "finish"} /\ op'.kind = op.kind /\ op'.file = op.file
      /\ op'.start = op.start /\ op'.done = op.done
      /\ IF next \in Data THEN op'.at = "free" /\ op'.cluster = next ELSE op'.at = "finish"
  BY FreeOneEffect
<1>2. Releasing' /\ (NewRun <=> NewRun') /\ (\A f : OldEntry(f) <=> OldEntry(f)')
  BY <1>1 DEF Releasing, NewRun, OldEntry
<1> HIDE DEF c, next
<1>3. \A R \in SUBSET Data : Closed(fat, R) => Closed(fat', R)
  BY <1>1 DEF Closed
<1>4. AllReached'
  <2> SUFFICES ASSUME NEW R \in SUBSET Data, Closed(fat', R),
                      \A d \in Data : IsHead(d)' => d \in R,
                      NEW x \in Data, fat'[x] # Free
               PROVE  x \in R
    BY DEF AllReached
  <2>1. next \in Data => next \in R
    <3>1. \A d \in Data : (next \in Data /\ d = next) => IsHead(d)'
      BY <1>1 DEF IsHead
    <3> QED
      BY <3>1
  <2>2. Closed(fat, R \cup {c}) /\ R \cup {c} \in SUBSET Data
    BY <1>1, <2>1 DEF Closed, next, c
  <2>3. \A d \in Data : IsHead(d) => d \in R \cup {c}
    <3>1. \A d \in Data : IsHead(d) => IsHead(d)' \/ d = c
      BY <1>1, <1>2 DEF IsHead, c
    <3> QED
      BY <3>1
  <2>4. x \in R \cup {c}
    BY <1>1, <2>2, <2>3 DEF CInv, AllReached
  <2> QED
    BY <1>1, <2>4
<1>5. EntryEmpty' /\ ExtendsOwn'
  BY <1>1 DEF CInv, EntryEmpty, ExtendsOwn, Idle
<1>6. CutSound'
  <2> SUFFICES ASSUME op.kind = "shrink"
               PROVE  /\ fat'[op.start] \in Data
                      /\ \/ op'.at = "free" /\ op'.cluster = fat'[op.start]
                         \/ fat'[fat'[op.start]] = Free
                      /\ op'.at = "free" =>
                            \E R \in SUBSET Data :
                                Closed(fat', R) /\ op'.cluster \in R /\ op.start \notin R
    BY <1>1 DEF CutSound
  <2>1. /\ fat[op.start] \in Data
        /\ c = fat[op.start] \/ fat[fat[op.start]] = Free
        /\ op.start \in Data
    BY <1>1 DEF CInv, CutSound, IInv, ReleaseSound, c
  <2>2. PICK R \in SUBSET Data : Closed(fat, R) /\ c \in R /\ op.start \notin R
    BY <1>1 DEF CInv, CutSound, c
  <2>3. fat'[op.start] = fat[op.start] /\ fat'[fat[op.start]] = Free
    BY <1>1, <2>1, <2>2
  <2>4. next \in Data => next \in R
    BY <2>2 DEF Closed, next, c
  <2> QED
    BY <1>1, <1>3, <2>1, <2>2, <2>3, <2>4
<1>7. ASSUME NEW h, InSequence(fat, h) PROVE InSequence(fat', h)
  <2> DEFINE R == Chain(fat, h)
  <2>1. R \in SUBSET Data /\ Closed(fat', R) /\ (h \in Data => h \in R)
    BY <1>3, ChainClosed
  <2>2. \A d \in R : fat'[d] \in Data => fat'[d] = d + 1
    BY <1>1, <1>7, <2>1 DEF InSequence
  <2> QED
    BY <2>1, <2>2, StaysInSequence
<1>8. Blocks'
  BY <1>1, <1>2, <1>7 DEF CInv, Blocks
<1> QED
  BY <1>4, <1>5, <1>6, <1>8 DEF CInv

\* The last step of a call: the entry takes over the new run, or the cluster
\* before those that were freed becomes the end of its chain.
LEMMA FinishKeepsCInv ==
    ASSUME CInv, IInv, Finish
    PROVE  CInv'
<1>1. /\ op.at = "finish" /\ Releasing /\ op.file \in Files
      /\ op' = NoOp /\ op'.at = "idle" /\ ~NewRun' /\ ~Releasing'
      /\ entry \in [Files -> {Absent} \cup 0 .. Eoc - 1]
      /\ extended' = IF op.kind \in {"grow", "truncate"} THEN extended \ {op.file}
                     ELSE extended
  BY NoOpTyped DEF Finish, Releasing, NewRun, IInv, TypeOK
<1>2. EntryEmpty' /\ CutSound' /\ ExtendsOwn'
  BY <1>1 DEF EntryEmpty, CutSound, ExtendsOwn, Idle
<1>3. Absent \notin Data /\ 0 \notin Data
  BY FatAssumption DEF Data
<1>4. CASE op.kind = "shrink"
  <2>1. UNCHANGED entry /\ extended' = extended
    BY <1>1, <1>4 DEF Finish
  <2>2. /\ op.start \in Data /\ fat[op.start] \in Data /\ fat[fat[op.start]] = Free
        /\ fat[op.start] # Free
    BY <1>1, <1>4, FatAssumption DEF CInv, CutSound, IInv, ReleaseSound, Data, Free
  <2>3. \A d \in Data : fat'[d] = IF d = op.start THEN Eoc ELSE fat[d]
    BY <1>1, <1>4, <2>2, FatAssumption DEF Finish, SetFat, Data, Clusters, IInv, TypeOK
  <2>4. Eoc \notin Data /\ Free \notin Data
    BY FatAssumption DEF Eoc, Data, Free
  <2>5. AllReached'
    <3> SUFFICES ASSUME NEW R \in SUBSET Data, Closed(fat', R),
                        \A d \in Data : IsHead(d)' => d \in R,
                        NEW x \in Data, fat'[x] # Free
                 PROVE  x \in R
      BY DEF AllReached
    <3> DEFINE S == R \cup {fat[op.start]}
    <3>1. Closed(fat, S) /\ S \in SUBSET Data
      BY <2>2, <2>3, <2>4 DEF Closed
    <3>2. \A d \in Data : IsHead(d) => IsHead(d)'
      BY <1>1, <1>4, <2>1 DEF IsHead, OldEntry, NewRun
    <3>3. x \in S
      BY <2>2, <2>3, <3>1, <3>2 DEF CInv, AllReached
    <3> QED
      BY <2>2, <2>3, <3>3
  <2>6. ASSUME NEW h, InSequence(fat, h) PROVE InSequence(fat', h)
    <3> DEFINE R == Chain(fat, h)
    <3>1. R \in SUBSET Data /\ Closed(fat', R) /\ (h \in Data => h \in R)
      BY <2>3, <2>4, ChainClosed DEF Closed
    <3>2. \A d \in R : fat'[d] \in Data => fat'[d] = d + 1
      BY <2>3, <2>4, <2>6, <3>1 DEF InSequence
    <3> QED
      BY <3>1, <3>2, StaysInSequence
  <2>7. Blocks'
    BY <1>1, <2>1, <2>6 DEF CInv, Blocks
  <2> QED
    BY <1>2, <2>5, <2>7 DEF CInv
<1>5. CASE op.kind # "shrink"
  <2>1. /\ UNCHANGED fat
        /\ \A f \in Files : entry'[f] =
              IF f = op.file /\ op.kind \in {"flush", "grow"} THEN op.start
              ELSE IF f = op.file /\ op.kind \in {"replace", "truncate"} THEN 0
              ELSE entry[f]
    BY <1>1, <1>5 DEF Finish
  <2>2. AllReached'
    <3>1. \A d \in Data : IsHead(d) => IsHead(d)'
      <4> SUFFICES ASSUME NEW d \in Data, IsHead(d) PROVE \E f \in Files : entry'[f] = d
        BY <1>1 DEF IsHead, OldEntry
      <4>1. CASE NewRun /\ op.start = d
        BY <1>1, <2>1, <4>1 DEF NewRun
      <4>2. CASE \E f \in Files : entry[f] = d /\ ~OldEntry(f)
        <5>1. PICK f \in Files : entry[f] = d /\ ~OldEntry(f)
          BY <4>2
        <5>2. CASE f = op.file
          BY <1>1, <1>3, <2>1, <5>1, <5>2 DEF CInv, EntryEmpty, OldEntry, Idle
        <5>3. CASE f # op.file
          BY <2>1, <5>1, <5>3
        <5> QED
          BY <5>2, <5>3
      <4> QED
        BY <1>1, <4>1, <4>2 DEF IsHead
    <3> QED
      BY <2>1, <3>1, HeadsKept DEF CInv
  <2>3. InSequence(fat, 0)
    BY <1>3 DEF InSequence, Chain
  <2>4. ASSUME NEW f \in Files, f \notin extended' PROVE InSequence(fat, entry'[f])
    BY <1>1, <2>1, <2>3, <2>4 DEF CInv, Blocks, NewRun
  <2>5. Blocks'
    BY <1>1, <2>1, <2>4 DEF Blocks
  <2> QED
    BY <1>2, <2>2, <2>5 DEF CInv
<1> QED
  BY <1>4, <1>5

-----------------------------------------------------------------------------
LEMMA NextKeepsCInv ==
    ASSUME CInv, IInv, [Next]_vars
    PROVE  CInv'
<1>1. ASSUME NEW f \in Files, Create(f) PROVE CInv'
  BY <1>1, CreateKeepsCInv
<1>2. ASSUME NEW f \in Files, Unlink(f) PROVE CInv'
  BY <1>2, UnlinkKeepsCInv
<1>3. ASSUME NEW f \in Files, NEW n \in 1 .. MaxNeed, Close(f, n) PROVE CInv'
  BY <1>3, CloseKeepsCInv
<1>4. ASSUME NEW f \in Files, NEW n \in 1 .. MaxNeed, Extend(f, n) PROVE CInv'
  BY <1>4, ExtendKeepsCInv
<1>5. ASSUME NEW f \in Files, NEW n \in 0 .. MaxNeed, Truncate(f, n) PROVE CInv'
  BY <1>5, TruncateKeepsCInv
<1>6. CASE FindFree
  BY <1>6, FindFreeKeepsCInv
<1>7. CASE VolumeFull
  BY <1>7, VolumeFullKeepsCInv
<1>8. CASE CountRun
  BY <1>8, CountRunKeepsCInv
<1>9. CASE AllocateOne
  BY <1>9, AllocateOneKeepsCInv
<1>10. CASE FreeOne
  BY <1>10, FreeOneKeepsCInv
<1>11. CASE Finish
  BY <1>11, FinishKeepsCInv
<1>12. CASE UNCHANGED vars
  BY <1>12, StutterKeepsCInv
<1> QED
  BY <1>1, <1>2, <1>3, <1>4, <1>5, <1>6, <1>7, <1>8, <1>9, <1>10, <1>11, <1>12
  DEF Next, Start, Step

LEMMA ChainsInvariance ==
    ASSUME ~DeletesEmptyFiles
    PROVE  Spec => [](IInv /\ CInv)
<1>1. IInv /\ CInv /\ [Next]_vars => IInv' /\ CInv'
  BY NextKeepsIInv, NextKeepsCInv
<1> QED
  BY InitIInv, InitCInv, <1>1, PTL DEF Spec

\* Between two calls every cluster in use belongs to a file, on a volume of any
\* size: whatever a call allocates, gives back, cuts or frees, it loses none.
THEOREM NothingLost ==
    ASSUME ~DeletesEmptyFiles
    PROVE  Spec => []NoLostCluster
<1>1. IInv /\ CInv => NoLostCluster
  <2> SUFFICES ASSUME IInv, CInv, Idle, NEW c \in Data, fat[c] # Free
               PROVE  \E f \in Files : c \in ChainOf(entry[f])
    BY DEF NoLostCluster
  <2> DEFINE R == UNION {Chain(fat, entry[f]) : f \in Files}
  <2>1. R \in SUBSET Data /\ Closed(fat, R)
    <3>1. \A f \in Files : Chain(fat, entry[f]) \in SUBSET Data
                           /\ Closed(fat, Chain(fat, entry[f]))
      BY ChainClosed
    <3> QED
      BY <3>1 DEF Closed
  <2>2. \A d \in Data : IsHead(d) => d \in R
    BY ChainClosed DEF IsHead, Idle, NewRun, Releasing
  <2>3. c \in R
    BY <2>1, <2>2 DEF CInv, AllReached
  <2> QED
    BY <2>3 DEF ChainOf, Chain, Closed
<1> QED
  BY <1>1, ChainsInvariance, PTL

\* Between two calls a file that pwrite() has not extended lies in one block.
THEOREM FilesAreBlocks ==
    ASSUME ~DeletesEmptyFiles
    PROVE  Spec => []OneBlockUnlessExtended
<1>1. \A h : ChainOf(h) = Chain(fat, h)
  BY DEF ChainOf, Chain, Closed
<1>2. CInv => OneBlockUnlessExtended
  BY <1>1 DEF CInv, Blocks, InSequence, OneBlockUnlessExtended
<1> QED
  BY <1>2, ChainsInvariance, PTL

\* At every moment, not only between calls, the chains of two files have no
\* cluster in common: OneOwner, which speaks of single links, for whole chains.
THEOREM FilesApart ==
    ASSUME ~DeletesEmptyFiles
    PROVE  Spec => [](\A f, g \in Files : f # g => ChainOf(entry[f]) \cap ChainOf(entry[g]) = {})
<1>1. ASSUME IInv, NEW f \in Files, NEW g \in Files, f # g
      PROVE  ChainOf(entry[f]) \cap ChainOf(entry[g]) = {}
  <2>1. ChainOf(entry[f]) = Chain(fat, entry[f]) /\ ChainOf(entry[g]) = Chain(fat, entry[g])
    BY DEF ChainOf, Chain, Closed
  <2> QED
    BY <1>1, <2>1, ChainsApart DEF IInv
<1>2. IInv => (\A f, g \in Files : f # g => ChainOf(entry[f]) \cap ChainOf(entry[g]) = {})
  BY <1>1
<1> QED
  BY <1>2, Invariance, PTL
-----------------------------------------------------------------------------
(***************************************************************************)
(* The search passes no run                                                *)
(***************************************************************************)

\* Whatever holes the search has skipped and wherever it has wrapped around, every
\* run of the length asked for still lies before it.
NoRunPassed ==
    op.at \in {"search", "probe"} =>
        \A c \in Data :
            (\A k \in 0 .. op.need - 1 : c + k \in Data /\ fat[c + k] = Free) => op.start <= c

\* The first free cluster from op.start on lies before every run that lies
\* behind op.start: wrapping around is for a volume that has none there.
LEMMA FindFreePassesNoRun ==
    ASSUME IInv, NoRunPassed, FindFree
    PROVE  NoRunPassed'
<1>1. PICK first \in 2 .. 2 * FatEntries :
        FirstFree(op.start, first) /\ op' = [op EXCEPT !.at = "probe", !.start = first]
  BY DEF FindFree
<1>2. op.at = "search" /\ UNCHANGED fat
  BY DEF FindFree
<1>3. op'.start = first /\ op'.need = op.need /\ op.start \in Int /\ op.need \in 1 .. MaxNeed
  BY <1>1, <1>2, FatAssumption DEF IInv, TypeOK, Values, Eoc, SearchSound
<1>4. ASSUME NEW c \in Data,
             \A k \in 0 .. op.need - 1 : c + k \in Data /\ fat[c + k] = Free
      PROVE  first <= c
  <2>1. op.start <= c
    BY <1>2, <1>4 DEF NoRunPassed
  <2>2. fat[c] = Free
    <3>1. 0 \in 0 .. op.need - 1 /\ c + 0 = c
      BY <1>3, FatAssumption DEF Data
    <3> QED
      BY <1>4, <3>1
  <2> DEFINE from == IF op.start < 2 THEN 2 ELSE op.start
  <2>3. c \in from .. FatEntries - 1 /\ IsFree(c)
    BY <1>3, <2>1, <2>2, FatAssumption DEF Data, IsFree
  <2>4. first \in from .. FatEntries - 1
        /\ \A d \in from .. FatEntries - 1 : d < first => ~IsFree(d)
    BY <1>1, <2>3 DEF FirstFree
  <2> QED
    BY <1>3, <2>3, <2>4, FatAssumption
<1> QED
  BY <1>2, <1>3, <1>4 DEF NoRunPassed

\* The cluster that ends a run that is too short belongs to no run, nor does one
\* before it begin a run: the search goes on behind them.
LEMMA CountRunPassesNoRun ==
    ASSUME IInv, NoRunPassed, CountRun
    PROVE  NoRunPassed'
<1>1. PICK count \in 1 .. op.need :
        /\ FreeRun(op.start, op.need, count)
        /\ op' = IF count = op.need THEN [op EXCEPT !.at = "allocate"]
                 ELSE [op EXCEPT !.at = "search", !.start = @ + count]
  BY DEF CountRun
<1>2. op.at = "probe" /\ UNCHANGED fat
  BY DEF CountRun
<1>3. op.start \in Data /\ op.need \in 1 .. MaxNeed /\ count \in Nat
  BY <1>1, <1>2, FatAssumption DEF IInv, SearchSound
<1>4. CASE count = op.need
  BY <1>1, <1>4 DEF IInv, TypeOK, NoRunPassed
<1>5. CASE count # op.need
  <2>1. op'.at = "search" /\ op'.start = op.start + count /\ op'.need = op.need
    BY <1>1, <1>5 DEF IInv, TypeOK
  <2>2. ~IsFree(op.start + count)
    BY <1>1, <1>5 DEF FreeRun
  <2>3. ASSUME NEW c \in Data,
               \A k \in 0 .. op.need - 1 : c + k \in Data /\ fat[c + k] = Free,
               c < op.start + count
        PROVE  FALSE
    <3>1. op.start <= c
      BY <1>2, <2>3 DEF NoRunPassed
    <3> DEFINE k == op.start + count - c
    <3>2. k \in 0 .. op.need - 1 /\ c + k = op.start + count
      BY <1>1, <1>3, <1>5, <2>3, <3>1, FatAssumption DEF Data
    <3>3. op.start + count \in Data /\ fat[op.start + count] = Free
      BY <2>3, <3>2
    <3> QED
      BY <2>2, <3>3, FatAssumption DEF IsFree, Data
  <2>4. op.start + count \in Int /\ Data \subseteq Int
    BY <1>3, FatAssumption DEF Data
  <2> QED
    BY <1>2, <2>1, <2>3, <2>4 DEF NoRunPassed
<1> QED
  BY <1>4, <1>5

\* A search begins at the start of the volume.
LEMMA SeekPassesNoRun ==
    ASSUME NEW kind, NEW f, NEW n, NEW c, Seek(kind, f, n, c)
    PROVE  NoRunPassed'
<1>1. op'.start = 0
  BY SeekOp
<1> QED
  BY <1>1, FatAssumption DEF NoRunPassed, Data

LEMMA NextPassesNoRun ==
    ASSUME ~DeletesEmptyFiles, IInv, NoRunPassed, [Next]_vars
    PROVE  NoRunPassed'
<1>1. ASSUME NEW f \in Files, Create(f) \/ Unlink(f) PROVE NoRunPassed'
  BY <1>1, ReleaseOp DEF Create, Unlink, Idle, NoRunPassed
<1>2. ASSUME NEW f \in Files, NEW n, Close(f, n) PROVE NoRunPassed'
  BY <1>2, SeekPassesNoRun DEF Close
<1>3. ASSUME NEW f \in Files, NEW n, Extend(f, n) PROVE NoRunPassed'
  BY <1>3, SeekPassesNoRun DEF Extend
<1>4. ASSUME NEW f \in Files, NEW n, Truncate(f, n) PROVE NoRunPassed'
  <2>1. CASE Seek("grow", f, n, 0)
    BY <2>1, SeekPassesNoRun
  <2>2. CASE \E c, keep : Release("truncate", f, c, keep) \/ Release("shrink", f, c, keep)
    BY <2>2, ReleaseOp DEF NoRunPassed
  <2> QED
    BY <1>4, <2>1, <2>2 DEF Truncate
<1>5. CASE FindFree
  BY <1>5, FindFreePassesNoRun
<1>6. CASE CountRun
  BY <1>6, CountRunPassesNoRun
<1>7. CASE VolumeFull \/ Finish
  BY <1>7, NoOpTyped DEF VolumeFull, Finish, NoRunPassed
<1>8. CASE AllocateOne
  <2>1. op.kind \in {"flush", "grow", "extend"}
    BY <1>8, AllocateOneEffect
  <2>2. op.at = "allocate" /\ op' \in {AfterRun, [op EXCEPT !.done = @ + 1]}
    BY <1>8 DEF AllocateOne
  <2>3. op'.at \in {"finish", "free", "idle", "allocate"}
    BY <2>1, <2>2, NoOpTyped DEF AfterRun, IInv, TypeOK
  <2> QED
    BY <2>3 DEF NoRunPassed
<1>9. CASE FreeOne
  BY <1>9 DEF FreeOne, IInv, TypeOK, NoRunPassed
<1>10. CASE UNCHANGED vars
  BY <1>10 DEF vars, NoRunPassed
<1> QED
  BY <1>1, <1>2, <1>3, <1>4, <1>5, <1>6, <1>7, <1>8, <1>9, <1>10 DEF Next, Start, Step

\* find_contiguous_clusters() passes no run of the length asked for, on a volume of
\* any size: what RoomIsFound adds, that it gets there, takes fairness.
THEOREM SearchPassesNoRun ==
    ASSUME ~DeletesEmptyFiles
    PROVE  Spec => []NoRunPassed
<1>1. Init => NoRunPassed
  BY NoOpTyped DEF Init, NoRunPassed
<1>2. IInv /\ NoRunPassed /\ [Next]_vars => IInv' /\ NoRunPassed'
  BY NextKeepsIInv, NextPassesNoRun
<1> QED
  BY InitIInv, <1>1, <1>2, PTL DEF Spec
=============================================================================
