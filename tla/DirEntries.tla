----------------------------- MODULE DirEntries -----------------------------
(***************************************************************************)
(* The directories of the card as mega65_ftp.c keeps them: chains of       *)
(* clusters full of slots, where an entry is one slot with the short name  *)
(* after a run of slots with the chunks of its long name.  The calls       *)
(* create, unlink, rename, mkdir and rmdir of m65ftp_lib.c take a step for *)
(* every time they execute the write queue, and for each sector of a queue *)
(* that has several; the process may die between two steps.                *)
(*                                                                         *)
(* A name is one element of Names.  What the code computes from its text   *)
(* is given by constants: how many chunks its long name has (0 when the    *)
(* short name says it all), the base of its short name, and whether this   *)
(* needs a number behind a tilde to be unique.  No name is the short name  *)
(* of another one.  The clusters of files are modelled in FatVolume; here  *)
(* a file holds an element of Data.                                        *)
(***************************************************************************)
EXTENDS Integers, Sequences, FiniteSets, FiniteSetsExt

CONSTANTS
    Names,
    Chunks,         \* Chunks[n]: calculate_needed_direntries_for_vfat(), or 0
    Base,           \* Base[n]: the short name of n without a number
    Tilde,          \* is_tilde_needed()
    Data,           \* the contents of files
    None,           \* no content: of a name that stands for nothing
    NumClusters,    \* clusters of the volume, the first is the root directory
    ClusterSlots,   \* slots of a cluster
    SectorSlots,    \* slots of a sector
    MkdirSlots,     \* the slots of the 4096 bytes that create_dir() writes
    VolumeFills,    \* whether a call may begin without a cluster to spare
    CrashIn,        \* the calls in which the process may die
    MaxCalls        \* bound on the number of calls

ASSUME DirEntriesAssumption ==
    /\ Names # {} /\ Data # {}
    /\ Chunks \in [Names -> Nat]
    /\ Tilde \subseteq Names /\ \A n \in Tilde : Chunks[n] > 0
    /\ \A n \in Names \ Tilde : Chunks[n] <= 1
    /\ \A m, n \in Names \ Tilde : Base[m] = Base[n] => m = n
    /\ NumClusters \in Nat \ {0} /\ SectorSlots \in Nat \ {0, 1}
    /\ ClusterSlots \in Nat \ {0} /\ ClusterSlots % SectorSlots = 0
    /\ MkdirSlots \in 2 .. ClusterSlots
    /\ MaxCalls \in Nat
    /\ CrashIn \subseteq {"create", "unlink", "rename"}

VARIABLES
    fat,        \* the FAT
    content,    \* content[c]: the slots of cluster c
    op,         \* the call in progress
    calls       \* calls so far

vars == <<fat, content, op, calls>>

-----------------------------------------------------------------------------
(***************************************************************************)
(* Clusters and slots                                                      *)
(***************************************************************************)

Root == 1
Clusters == 1 .. NumClusters
Free == 0
Eoc == NumClusters + 1
\* 0 stands for no cluster; its slots lie in front of the data area.  Eoc closes the
\* tables: nothing comes behind it and it has no slots.
AnyCluster == 0 .. Eoc
IsLink(c) == c \in Clusters

NoKey == <<>>
Slot(type) == [type |-> type, name |-> "", number |-> 0, key |-> NoKey, thing |-> 0]
FreeSlot == Slot("free")        \* first byte 00

\* Faulty: a wiped slot is zeroed, its first byte with it.
ZeroedSlot == Slot("free")

\* A wiped slot: first byte E5.
DeletedSlot == Slot("deleted")

EmptyCluster == [k \in 1 .. ClusterSlots |-> FreeSlot]
EntryTypes == {"file", "directory"}

\* find_free_cluster(from): from there to the end, then from the start.
FreeClusters == {c \in Clusters : fat[c] = Free}
FindFree(from) ==
    LET behind == {c \in FreeClusters : c >= from}
    IN  CASE behind # {} -> Min(behind)
          [] behind = {} /\ FreeClusters # {} -> Min(FreeClusters)
          [] FreeClusters = {} -> 0

\* The k-th cluster of the directory that begins at d, in the order of
\* get_next_cluster(), or Eoc.
ClusterOf(d, k) == LET at[i \in Nat \ {0}] == IF i = 1 THEN d ELSE fat[at[i - 1]] IN at[k]
Chain(d) == {ClusterOf(d, k) : k \in Clusters} \cap Clusters
LastCluster(d) == CHOOSE c \in Chain(d) : fat[c] = Eoc

\* The slots of a directory as advance_to_next_entry() goes through them.
Place(d, i) == <<ClusterOf(d, (i - 1) \div ClusterSlots + 1), ((i - 1) % ClusterSlots) + 1>>
Slots(d) ==
    LET from[k \in Clusters] ==
            IF k = NumClusters THEN content[ClusterOf(d, k)]
            ELSE content[ClusterOf(d, k)] \o from[k + 1]
    IN  from[1]

NoPlace == <<0, 0>>

\* Faulty: the end of a cluster is seen one slot too late.
FollowingTooFar(p) ==
    IF p[2] <= ClusterSlots THEN <<p[1], p[2] + 1>> ELSE NoPlace

\* advance_to_next_entry()
Following(p) ==
    CASE p[2] < ClusterSlots -> <<p[1], p[2] + 1>>
      [] p[2] = ClusterSlots /\ IsLink(fat[p[1]]) -> <<fat[p[1]], 1>>
      [] OTHER -> NoPlace

\* What is cached of a slot goes to the card with its sector.
Written(p, slot) == [content EXCEPT ![p[1]][p[2]] = slot]
SlotAt(p) == content[p[1]][p[2]]
SameSector(p, q) == p[1] = q[1] /\ (p[2] - 1) \div SectorSlots = (q[2] - 1) \div SectorSlots

-----------------------------------------------------------------------------
(***************************************************************************)
(* Reading a directory: s is its sequence of slots                         *)
(***************************************************************************)

\* fat_readdir() returns a group of slots: a run of chunks and the slot behind
\* them, or one slot that is no chunk.
IsChunk(s, i) == s[i].type = "chunk"
Ends(s) == {e \in 1 .. Len(s) : ~IsChunk(s, e)}
Alone(s, i) == i = 1 \/ ~IsChunk(s, i - 1)
Begin(s, e) == Min({i \in 1 .. e : \A j \in i .. e - 1 : IsChunk(s, j)})

\* The run before e spells the name n; the code looks neither at the checksum nor
\* at what follows.
Spells(s, e, n) ==
    LET b == e - Chunks[n]
    IN  /\ 1 <= b /\ b < e
        /\ \A i \in b .. e - 1 : IsChunk(s, i) /\ s[i].name = n /\ s[i].number = e - i
        /\ Alone(s, b)

IsEntry(s, e) == s[e].type \in EntryTypes
\* The short name at e reads like n.
ShortReads(s, e, n) == IsEntry(s, e) /\ n \notin Tilde /\ s[e].key = <<Base[n], 0>>

\* name_match() with the names of the group that ends at e.  The long name stays
\* when the slot behind it is deleted or free.
Matches(s, e, n) == ShortReads(s, e, n) \/ Spells(s, e, n)

\* find_file_in_curdir(), contains_file_or_dir(): the first group that matches, or 0.
Find(s, n) ==
    LET found == {e \in Ends(s) : Matches(s, e, n)}
    IN  IF found = {} THEN 0 ELSE Min(found)

\* The name that m65ftp_readdir() and m65ftp_stat() give the entry at e: the long one
\* if there is any, or else the short one.
Shows(s, e, n) ==
    /\ IsEntry(s, e)
    /\ Spells(s, e, n) \/ (Chunks[n] = 0 /\ Alone(s, e) /\ ShortReads(s, e, n))

\* m65ftp_stat()
Stat(s, n) ==
    LET shown == {e \in Ends(s) : Shows(s, e, n)}
    IN  IF shown = {} THEN 0 ELSE Min(shown)

\* The numbers behind the tilde of short names with the base of n.
UsedNumbers(s, n) == {s[e].key[2] : e \in {e \in Ends(s) : IsEntry(s, e) /\ s[e].key[1] = Base[n]}}

\* Faulty: the number is not compared with those in use.
FirstShortName(s, n) == <<Base[n], IF n \in Tilde THEN 1 ELSE 0>>

\* normalise_long_name() for n in a directory with slots s: the first number that
\* no short name has.
ShortName(s, n) ==
    IF n \in Tilde
    THEN <<Base[n], Min(1 .. Cardinality(UsedNumbers(s, n)) + 1 \ UsedNumbers(s, n))>>
    ELSE <<Base[n], 0>>

\* The directories there are: a first cluster holds the entry "." with its own number.
IsDirectory(c) ==
    \/ c = Root
    \/ IsLink(c) /\ fat[c] # Free /\ content[c][1] = [Slot("dot") EXCEPT !.thing = c]
Dirs == {c \in Clusters : IsDirectory(c)}

\* What m65ftp_rmdir() takes for an empty directory.
ListsNothing(d) == \A e \in Ends(Slots(d)) : ~IsEntry(Slots(d), e)

-----------------------------------------------------------------------------
(***************************************************************************)
(* Calls.  d is the directory that fat_opendir() finds for the path, n the *)
(* name in it.                                                             *)
(***************************************************************************)

Idle == op.at = "idle"
NoOp == [at |-> "idle", kind |-> "none", dir |-> 0, name |-> "", key |-> NoKey, type |-> "file",
         thing |-> 0, place |-> NoPlace, cluster |-> 0, entry |-> NoPlace, left |-> 0]

Call(kind, d, n) == [NoOp EXCEPT !.kind = kind, !.dir = d, !.name = n]

\* What a call is going to write: the short name is made up from the directory as
\* it is then.
Named(call, s) ==
    [call EXCEPT !.key = ShortName(s, call.name), !.left = Chunks[call.name]]

\* wipe_direntries_of_current_file_or_dir() goes from the first chunk to the entry.
Wiping(call, s, e) ==
    [call EXCEPT !.at = "wipe", !.place = Place(call.dir, Begin(s, e)),
                 !.entry = Place(call.dir, e)]

\* Then the short name is made up, if that was not done before, and place for the
\* entry searched.
Searching(call) == [call EXCEPT !.at = "search"]

Spare(n) == VolumeFills \/ Cardinality(FreeClusters) >= n

\* Faulty: only a file that is listed is deleted first.
CreateUnlisted(d, n) ==
    LET s == Slots(d)
        e == Stat(s, n)
        call == Call("create", d, n)
    IN  /\ Idle /\ Spare(1)
        /\ e # 0 => s[e].type # "directory"
        /\ op' = IF e # 0 THEN Wiping(call, s, e) ELSE Searching(call)
        /\ UNCHANGED <<fat, content>>

\* m65ftp_create(); the kernel does not create what is a directory.
Create(d, n) ==
    LET s == Slots(d)
        e == Find(s, n)
        call == Call("create", d, n)
    IN  /\ Idle /\ Spare(1)
        /\ e # 0 => s[e].type # "directory"
        /\ op' = IF e # 0 THEN Wiping(call, s, e) ELSE Searching(call)
        /\ UNCHANGED <<fat, content>>

\* m65ftp_unlink(): refuses directories.
Unlink(d, n) ==
    LET s == Slots(d)
        e == Find(s, n)
    IN  /\ Idle
        /\ e # 0 /\ s[e].type # "directory"
        /\ op' = Wiping(Call("unlink", d, n), s, e)
        /\ UNCHANGED <<fat, content>>

\* Faulty: a directory is removed whatever is in it.
RmdirFull(d, n) ==
    LET s == Slots(d)
        e == Find(s, n)
    IN  /\ Idle
        /\ e # 0 /\ s[e].type = "directory"
        /\ IsDirectory(s[e].thing)
        /\ op' = [Wiping(Call("rmdir", d, n), s, e) EXCEPT !.thing = s[e].thing]
        /\ UNCHANGED <<fat, content>>

\* m65ftp_rmdir(): refuses what lists an entry; delete_single_file() finds the
\* directory once more and nothing to purge in it.
Rmdir(d, n) ==
    LET s == Slots(d)
        e == Find(s, n)
    IN  /\ Idle
        /\ e # 0 /\ s[e].type = "directory"
        /\ IsDirectory(s[e].thing) /\ ListsNothing(s[e].thing)
        /\ op' = [Wiping(Call("rmdir", d, n), s, e) EXCEPT !.thing = s[e].thing]
        /\ UNCHANGED <<fat, content>>

\* m65ftp_rename() of n to m: refuses what matches m.  Type, first cluster and size
\* are kept in variables, and the short name of m is made up before n is deleted.
\* The kernel asks for it only when it has looked n up.
Rename(d, n, m) ==
    LET s == Slots(d)
        e == Find(s, n)
        call == [Call("rename", d, m) EXCEPT !.type = s[e].type, !.thing = s[e].thing]
    IN  /\ Idle /\ Spare(1)
        /\ Stat(s, n) # 0
        /\ e # 0 /\ IsEntry(s, e)
        /\ Find(s, m) = 0
        /\ op' = Wiping(Named(call, s), s, e)
        /\ UNCHANGED <<fat, content>>

\* m65ftp_mkdir(), create_dir(): refuses what matches n.
Mkdir(d, n) ==
    LET s == Slots(d)
        call == [Call("mkdir", d, n) EXCEPT !.type = "directory"]
    IN  /\ Idle /\ Spare(2)
        /\ Find(s, n) = 0
        /\ op' = Searching(call)
        /\ UNCHANGED <<fat, content>>

\* What is written to the entry of a file that is there: its data by close(), its
\* times by m65ftp_utimens().
Update(d, n, o) ==
    LET s == Slots(d)
        e == Find(s, n)
    IN  /\ Idle
        /\ e # 0 /\ s[e].type = "file"
        /\ content' = Written(Place(d, e), [s[e] EXCEPT !.thing = o])
        /\ UNCHANGED <<fat, op>>

-----------------------------------------------------------------------------
(***************************************************************************)
(* Steps of a call                                                         *)
(***************************************************************************)

AfterWipe ==
    CASE op.kind \in {"create", "rename"} -> Searching(op)
      [] op.kind = "rmdir" -> [op EXCEPT !.at = "release"]
      [] op.kind = "unlink" -> NoOp

\* The slots of the entry that lie in the sector at hand become deleted ones.
Wipe ==
    LET here == {k \in op.place[2] .. ClusterSlots :
                    /\ SameSector(op.place, <<op.place[1], k>>)
                    /\ op.place[1] = op.entry[1] => k <= op.entry[2]}
        last == <<op.place[1], Max(here)>>
    IN  /\ op.at \in {"wipe", "wiping"}
        /\ content' = [content EXCEPT ![op.place[1]] =
               [k \in 1 .. ClusterSlots |-> IF k \in here THEN DeletedSlot ELSE @[k]]]
        /\ op' = IF last = op.entry THEN AfterWipe
                 ELSE [op EXCEPT !.at = "wiping", !.place = Following(last)]
        /\ UNCHANGED fat

\* delete_single_file() of a directory frees its chain.
Release ==
    /\ op.at = "release"
    /\ fat' = [c \in AnyCluster |->
                  IF c \in Chain(op.thing) THEN Free ELSE fat[c]]
    /\ op' = NoOp
    /\ UNCHANGED content

\* Faulty: the slot that fat_readdir() reads after a run of chunks counts too.
StartsAnywhere(s) == {i \in Ends(s) : s[i].type = "free"}

\* Where find_contiguous_free_direntries() may stop: at a free slot that is a group
\* of its own.  It takes it that all behind the first one are free; deleted slots
\* are not used again.
Starts(s) == {i \in Ends(s) : s[i].type = "free" /\ Alone(s, i)}

Search ==
    LET s == Slots(op.dir)
        found == Starts(s) # {}
        p == Place(op.dir, Min(Starts(s)))
        named == IF op.kind = "rename" THEN op ELSE Named(op, s)
    IN  /\ op.at = "search"
        /\ op' = [named EXCEPT !.at = "place", !.cluster = IF found THEN p[1] ELSE LastCluster(op.dir),
                               !.place = IF found THEN p ELSE NoPlace]
        /\ UNCHANGED <<fat, content>>

\* Faulty: the position is not moved to the new cluster.
ExtendInPlace ==
    LET c == FindFree(op.cluster) IN
    /\ op.at = "place" /\ op.place = NoPlace
    /\ fat' = [fat EXCEPT ![c] = Eoc, ![op.cluster] = c]
    /\ content' = [content EXCEPT ![c] = EmptyCluster]
    /\ op' = [op EXCEPT !.cluster = c]

\* read_next_direntry_and_assure_is_free() behind the last slot: extend_dir_cluster_chain().
\* It does not look whether a cluster was found.
Extend ==
    LET c == FindFree(op.cluster) IN
    /\ op.at = "place" /\ op.place = NoPlace
    /\ fat' = [fat EXCEPT ![c] = Eoc, ![op.cluster] = c]
    /\ content' = [content EXCEPT ![c] = EmptyCluster]
    /\ op' = [op EXCEPT !.place = <<c, 1>>, !.cluster = c]

\* The next slot is free.  If it were not, the call would fail.
AtFreeSlot == op.at = "place" /\ op.place # NoPlace /\ SlotAt(op.place) = FreeSlot

\* write_vfat_direntry_chunk(), the last chunk first.
PlaceChunk ==
    /\ AtFreeSlot
    /\ op.left > 0
    /\ content' = Written(op.place, [Slot("chunk") EXCEPT !.name = op.name, !.number = op.left,
                                                          !.key = op.key])
    /\ op' = [op EXCEPT !.left = @ - 1, !.cluster = op.place[1], !.place = Following(op.place)]
    /\ UNCHANGED fat

\* create_directory_entry_for_shortname(): without a cluster yet.
PlaceShort ==
    /\ AtFreeSlot
    /\ op.left = 0
    /\ content' = Written(op.place, [Slot(op.type) EXCEPT !.key = op.key])
    /\ op' = IF op.kind = "create" THEN NoOp
             ELSE [op EXCEPT !.at = "fill", !.entry = op.place]
    /\ UNCHANGED fat

\* The end of rename_file_or_dir().
FillRenamed ==
    /\ op.at = "fill" /\ op.kind = "rename"
    /\ content' = Written(op.entry, [SlotAt(op.entry) EXCEPT !.thing = op.thing])
    /\ op' = NoOp
    /\ UNCHANGED fat

\* The slots "." (number 0) and ".." (number 1) lead to cluster c.
Dot(number, c) == [Slot("dot") EXCEPT !.number = number, !.thing = c]

\* Faulty: parent_cluster keeps the 2 it begins with.
NewDirectoryOfRoot(c, parent) ==
    [k \in 1 .. ClusterSlots |->
        CASE k = 1 -> Dot(0, c)
          [] k = 2 -> Dot(1, Root)
          [] OTHER -> FreeSlot]

\* The sectors create_dir() writes to the first cluster.
NewDirectory(c, parent) ==
    [k \in 1 .. ClusterSlots |->
        CASE k = 1 -> Dot(0, c)
          [] k = 2 -> Dot(1, parent)
          [] k \in 3 .. MkdirSlots -> FreeSlot
          [] OTHER -> content[c][k]]

\* The rest of create_dir(): a cluster with "." and "..", in the FAT and in the
\* entry.  Without a free cluster the entry stays as it is.
FillMade ==
    LET c == FindFree(0) IN
    /\ op.at = "fill" /\ op.kind = "mkdir"
    /\ op' = NoOp
    /\ IF c = 0 THEN UNCHANGED <<fat, content>>
       ELSE /\ fat' = [fat EXCEPT ![c] = Eoc]
            /\ content' = [Written(op.entry, [SlotAt(op.entry) EXCEPT !.thing = c])
                              EXCEPT ![c] = NewDirectory(c, op.dir)]

-----------------------------------------------------------------------------
\* A chunk in the very last slot of a directory, which an interrupted call must
\* not leave: fat_readdir() runs off the end behind it and returns what its buffer
\* holds.
TornEnd(d) == LET s == Slots(d) IN IsChunk(s, Len(s))

\* The process dies.  A directory that is being renamed or made would be left
\* without its cluster, and a free slot between entries when what an interrupted
\* call has left is not wiped to its end.
Crash ==
    /\ op.kind \in CrashIn
    /\ op.type = "file" /\ ~TornEnd(op.dir)
    /\ op.at = "wiping" => SlotAt(op.entry) # FreeSlot
    /\ op' = NoOp
    /\ UNCHANGED <<fat, content, calls>>

\* Clusters that have never been used hold anything, even what looks like entries.
Init ==
    /\ fat = [c \in AnyCluster |-> IF c \in {0, Root, Eoc} THEN Eoc ELSE Free]
    /\ \E n \in Names \ Tilde, o \in Data :
          content = [c \in AnyCluster |->
              CASE c \in {0, Root} -> EmptyCluster
                [] c = Eoc -> <<>>
                [] OTHER -> [k \in 1 .. ClusterSlots |->
                                [Slot("file") EXCEPT !.key = <<Base[n], 0>>, !.thing = o]]]
    /\ op = NoOp
    /\ calls = 0

Begins ==
    /\ calls < MaxCalls
    /\ calls' = calls + 1
    /\ \E d \in Dirs, n \in Names :
        \/ Create(d, n) \/ Unlink(d, n) \/ Mkdir(d, n) \/ Rmdir(d, n)
        \/ \E m \in Names \ {n} : Rename(d, n, m)
        \/ \E o \in Data : Update(d, n, o)

Step ==
    /\ \/ Wipe \/ Release \/ Search \/ Extend \/ PlaceChunk \/ PlaceShort
       \/ FillRenamed \/ FillMade
    /\ UNCHANGED calls

Next == Begins \/ Step \/ Crash

\* A call runs to its end unless the process dies.
Fairness == WF_vars(Step)

Spec == Init /\ [][Next]_vars /\ Fairness

-----------------------------------------------------------------------------
(***************************************************************************)
(* Properties                                                              *)
(***************************************************************************)

Keys == {NoKey} \cup ({Base[n] : n \in Names} \X (0 .. NumClusters * ClusterSlots + 1))
Things == AnyCluster \cup Data
\* What a file holds is no directory, and no content at all is none of either.
ASSUME ThingsAssumption == Data \cap Clusters = {} /\ None \notin Things
SlotType == [type : {"free", "deleted", "chunk", "dot"} \cup EntryTypes, name : Names \cup {""},
             number : 0 .. ClusterSlots * NumClusters, key : Keys, thing : Things]
AllPlaces == {NoPlace} \cup (AnyCluster \X (1 .. ClusterSlots))

TypeOK ==
    /\ fat \in [AnyCluster -> 0 .. Eoc]
    /\ content[Eoc] = <<>>
    /\ \A c \in AnyCluster \ {Eoc} : content[c] \in [1 .. ClusterSlots -> SlotType]
    /\ op.at \in {"idle", "wipe", "wiping", "release", "search", "place", "fill"}
    /\ op.dir \in AnyCluster /\ op.name \in Names \cup {""} /\ op.key \in Keys
    /\ calls \in 0 .. MaxCalls
    /\ op.thing \in Things /\ op.place \in AllPlaces /\ op.entry \in AllPlaces

\* The names of the card are those of NameSpace: no call loses, moves or changes
\* what another name stands for, whatever slots it wipes and fills and wherever
\* the process dies.
ThingAt(s, e) == IF e = 0 THEN None ELSE s[e].thing
Listing(s) == [n \in Names |-> ThingAt(s, Stat(s, n))]
\* (TLC evaluates Slots(d) once in this form.)
Bound(d) ==
    IF IsDirectory(d)
    THEN CHOOSE f \in {Listing(s) : s \in {Slots(d)}} : TRUE
    ELSE [n \in Names |-> None]
Moving == IF op.kind = "rename" /\ op.at # "wipe" THEN op.thing ELSE None

NS == INSTANCE NameSpace WITH
          Directories <- Clusters, Blank <- 0,
          bound <- [d \in Clusters |-> Bound(d)], moving <- Moving
ImplementsNameSpace == NS!Spec

\* Calls look names up by long or short name and in deleted slots too, listings show
\* one name of each entry: what a listing shows is what a call finds.
LookupsAgree ==
    \A d \in Dirs, n \in Names :
        LET s == Slots(d) IN Stat(s, n) # 0 => Find(s, n) = Stat(s, n)

\* Neither two short names of a directory are the same, nor two names that are
\* listed.
NamesUnique ==
    \A d \in Dirs :
        LET s == Slots(d)
            entries == {e \in Ends(s) : IsEntry(s, e)}
        IN  \A e, f \in entries : e # f =>
                /\ s[e].key # s[f].key
                /\ ~\E n \in Names : Shows(s, e, n) /\ Shows(s, f, n)

\* The chunks before an entry carry the checksum of its short name: the run that an
\* interrupted call leaves is not taken for the long name of another entry.
ChunksBelong ==
    \A d \in Dirs :
        LET s == Slots(d) IN
        \A e \in Ends(s) : IsEntry(s, e) => \A i \in Begin(s, e) .. e - 1 : s[i].key = s[e].key

\* "If first byte of direntry is 00, it implies that no genuine direntries exist
\* beyond this": the free slots are at the end, but for one behind each run of chunks
\* that an interrupted call has left.
TailIsFree ==
    Idle =>
        \A d \in Dirs :
            LET s == Slots(d) IN \A i \in Starts(s) : \A j \in i .. Len(s) : s[j] = FreeSlot

\* Every directory but the root is the thing of one entry, ".." leads back to where
\* that entry is, and no cluster is in two directories or free.
Holds(d, c) == \E e \in Ends(Slots(d)) : Slots(d)[e].type = "directory" /\ Slots(d)[e].thing = c
TreeSound ==
    Idle =>
        /\ \A c \in Dirs \ {Root} : \E d \in Dirs :
              /\ Holds(d, c) /\ content[c][2] = Dot(1, d)
              /\ \A f \in Dirs \ {d} : ~Holds(f, c)
        /\ \A d \in Dirs :
              /\ \A c \in Chain(d) : fat[c] # Free
              /\ \A f \in Dirs \ {d} : Chain(d) \cap Chain(f) = {}

\* Every call returns: the search for a place ends, by extending the directory if
\* need be.
CallsEnd == ~Idle ~> Idle
=============================================================================
