-------------------------- MODULE DirEntriesProofs --------------------------
(***************************************************************************)
(* What the directories of DirEntries keep, for any number of names,       *)
(* clusters and calls and wherever the process dies: names are unique and  *)
(* found, chunks belong to their entry, the free slots are at the end and  *)
(* directories form a tree.                                                *)
(*                                                                         *)
(* The module is in six parts.  Slots of one directory: what wiping,       *)
(* placing and filling do to a sequence of slots that is Sound.  Places:   *)
(* a directory with a layout, a sequence of clusters that the FAT links,   *)
(* has the slots of these clusters in their order.  Writes: which          *)
(* directory a write changes and how.  Then the invariant, IInv, with one  *)
(* lemma for each action; the initial state; and the theorems.             *)
(***************************************************************************)
EXTENDS DirEntries, FiniteSetTheorems, SequenceTheorems, WellFoundedInduction, TLAPS

-----------------------------------------------------------------------------
\* A call begins with clusters to spare, the new cluster of a directory is written
\* whole (a cluster has 4096 bytes), and every long name fits into a cluster.
Roomy ==
    /\ ~VolumeFills
    /\ MkdirSlots = ClusterSlots
    /\ \A n \in Names : Chunks[n] < ClusterSlots

\* A key that the short name of n may have.
Numbers == 0 .. NumClusters * ClusterSlots + 1
KeyOf(n, key) == \E k \in Numbers : key = <<Base[n], k>> /\ (k = 0) = (n \notin Tilde)

Typed(s) == s \in Seq(SlotType) /\ \A i \in 1 .. Len(s) : s[i].type = "free" => s[i] = FreeSlot

\* What may follow a chunk: the next of its name, its entry, or what an interrupted
\* call has not filled.
Leads(s, i) ==
    \/ IsChunk(s, i + 1) /\ s[i + 1].name = s[i].name /\ s[i + 1].key = s[i].key
                         /\ s[i + 1].number = s[i].number - 1
    \/ IsEntry(s, i + 1) /\ s[i + 1].key = s[i].key /\ s[i].number = 1
    \/ s[i + 1].type = "free"
WellChunked(s) ==
    \A i \in 1 .. Len(s) : IsChunk(s, i) =>
        /\ s[i].name \in Names /\ s[i].number \in 1 .. Chunks[s[i].name]
        /\ KeyOf(s[i].name, s[i].key)
        /\ i < Len(s) => Leads(s, i)
WellNamed(s) ==
    /\ \A e \in 1 .. Len(s) : IsEntry(s, e) => \E n \in Names : KeyOf(n, s[e].key)
    /\ \A e, f \in 1 .. Len(s) : IsEntry(s, e) /\ IsEntry(s, f) /\ s[e].key = s[f].key => e = f
OneMatch(s) ==
    \A n \in Names : \A e, f \in Ends(s) : Matches(s, e, n) /\ Matches(s, f, n) => e = f
TailFree(s, x) == \A i \in Starts(s) : i # x => \A j \in i .. Len(s) : s[j] = FreeSlot
Sound(s, x) == Typed(s) /\ WellChunked(s) /\ WellNamed(s) /\ OneMatch(s) /\ TailFree(s, x)

\* A group, or what is left of it, from p to e.
Group(s, p, e) ==
    /\ 1 <= p /\ p <= e /\ e <= Len(s)
    /\ \A i \in p .. e - 1 : IsChunk(s, i)
    /\ ~IsChunk(s, e) /\ Alone(s, p)
    /\ IsEntry(s, e) \/ (s[e].type = "free" /\ e > 1 /\ s[e - 1].type \in {"chunk", "deleted"})

\* The slots from p on are free and left chunks and the entry of n are to be put there.
Unmatched(s, n) == \A x \in Ends(s) : ~Matches(s, x, n)
Unused(s, key) == \A e \in 1 .. Len(s) : IsEntry(s, e) => s[e].key # key
Placing(s, p, n, left, key) ==
    /\ p \in 1 .. Len(s) + 1 /\ left \in 0 .. Chunks[n]
    /\ \A j \in p .. Len(s) : s[j] = FreeSlot
    /\ p > Chunks[n] - left
    /\ \A j \in p - (Chunks[n] - left) .. p - 1 :
          IsChunk(s, j) /\ s[j].name = n /\ s[j].key = key /\ s[j].number = left + p - j
    /\ Alone(s, p - (Chunks[n] - left))
    /\ \A i \in Starts(s) : p <= i
    /\ KeyOf(n, key) /\ Unused(s, key)
    /\ \A x \in Ends(s) : Matches(s, x, n) => x = p /\ left = 0

LaidOut(f, lay) ==
    /\ \A d \in DOMAIN lay :
          /\ lay[d] \in Seq(Clusters) /\ lay[d] # <<>> /\ lay[d][1] = d
          /\ \A k \in 1 .. Len(lay[d]) : f[lay[d][k]] = IF k = Len(lay[d]) THEN Eoc ELSE lay[d][k + 1]
    /\ \A d, e \in DOMAIN lay : \A j \in 1 .. Len(lay[d]), k \in 1 .. Len(lay[e]) :
          lay[d][j] = lay[e][k] => d = e /\ j = k
Layout(lay) ==
    /\ fat \in [AnyCluster -> 0 .. Eoc] /\ fat[0] = Eoc /\ fat[Eoc] = Eoc
    /\ DOMAIN content = AnyCluster /\ content[Eoc] = <<>>
    /\ \A c \in AnyCluster \ {Eoc} : content[c] \in [1 .. ClusterSlots -> SlotType]
    /\ DOMAIN lay = Dirs /\ LaidOut(fat, lay)

Making == op.kind \in {"create", "rename", "mkdir"}
IsWiping == op.at \in {"wipe", "wiping"}
WipeSound ==
    LET s == Slots(op.dir) IN
    \E p, e \in 1 .. Len(s) :
        /\ op.place = Place(op.dir, p) /\ op.entry = Place(op.dir, e)
        /\ Sound(s, e) /\ Group(s, p, e)
        /\ op.kind = "create" => \A x \in Ends(s) : Matches(s, x, op.name) => x = e
        /\ op.kind \in {"create", "unlink"} => s[e].type # "directory"
        /\ op.kind = "rename" => IsEntry(s, e) /\ s[e].thing = op.thing /\ s[e].type = op.type
        /\ op.kind = "rmdir" => s[e].type = "directory" /\ s[e].thing = op.thing
RenameSound ==
    LET s == Slots(op.dir) IN
    /\ op.left = Chunks[op.name] /\ KeyOf(op.name, op.key)
    /\ Unmatched(s, op.name) /\ Unused(s, op.key)
HasRoom(n) == Cardinality(FreeClusters) >= n
Needed == (IF op.kind = "mkdir" THEN 1 ELSE 0)
PlaceSound ==
    LET s == Slots(op.dir) IN
    \E p \in 1 .. Len(s) + 1 :
        /\ op.place = IF p <= Len(s) THEN Place(op.dir, p) ELSE NoPlace
        /\ p = Len(s) + 1 => op.cluster = LastCluster(op.dir)
        /\ Placing(s, p, op.name, op.left, op.key)
        /\ HasRoom(IF p + op.left > Len(s) THEN Needed + 1 ELSE Needed)
FillSound ==
    LET s == Slots(op.dir) IN
    \E e \in 1 .. Len(s) :
        /\ op.entry = Place(op.dir, e)
        /\ s[e].type = op.type /\ s[e].thing = 0 /\ IsEntry(s, e)
        /\ HasRoom(Needed)
OpSound ==
    /\ op.at # "idle" => op.dir \in Dirs /\ op.name \in Names /\ op.type \in EntryTypes
           /\ op.kind \in {"create", "unlink", "rename", "mkdir", "rmdir"}
           /\ (op.kind \in {"create", "unlink", "rmdir"} => op.type = "file")
           /\ (op.kind = "mkdir" => op.type = "directory")
    /\ op.at = "idle" => op.kind = "none"
    /\ IsWiping => WipeSound /\ op.kind # "mkdir"
    /\ IsWiping \/ op.at = "search" => (op.kind = "rename" => RenameSound)
    /\ IsWiping \/ op.at = "search" => (Making => HasRoom(Needed + 1))
    /\ op.at = "search" => Making /\ Unmatched(Slots(op.dir), op.name)
    /\ op.at = "place" => Making /\ PlaceSound
    /\ op.at = "fill" => op.kind \in {"rename", "mkdir"} /\ FillSound
    /\ op.at = "release" => op.kind = "rmdir"
    /\ op.kind = "rmdir" => op.thing \in Dirs \ {Root} /\ op.thing # op.dir /\ ListsNothing(op.thing)

DirsSound ==
    \A d \in Dirs :
        /\ ~(op.at = "wiping" /\ d = op.dir) => Sound(Slots(d), 0)
        /\ ~(op.at = "place" /\ d = op.dir) => ~TornEnd(d)

\* The tree
HeldAt(d, e, c) == Slots(d)[e].type = "directory" /\ Slots(d)[e].thing = c
Adrift(c) ==
    \/ op.at = "release" /\ op.thing = c
    \/ op.at \in {"search", "place", "fill"} /\ op.kind = "rename" /\ op.type = "directory" /\ op.thing = c
Filling(d, e) == op.at = "fill" /\ d = op.dir /\ op.entry = Place(d, e)
Tree ==
    /\ \A d \in Dirs : \A i \in 1 .. Len(Slots(d)) :
          /\ Slots(d)[i].type = "dot" => d # Root /\ i \in {1, 2}
          /\ Slots(d)[i].type = "directory" /\ ~Filling(d, i) => Slots(d)[i].thing \in Dirs \ {Root}
    /\ \A c \in Dirs \ {Root} : \E p \in Dirs :
          /\ content[c][2] = Dot(1, p)
          /\ IF Adrift(c) THEN p = op.dir
             ELSE \E i \in 1 .. Len(Slots(p)) : HeldAt(p, i, c)
    /\ \A c \in Dirs \ {Root} : \A d, e \in Dirs : \A i \in 1 .. Len(Slots(d)), j \in 1 .. Len(Slots(e)) :
          HeldAt(d, i, c) /\ HeldAt(e, j, c) => d = e /\ i = j /\ content[c][2].thing = d /\ ~Adrift(c)
    /\ op.kind = "rename" /\ op.type = "directory" => op.thing \in Dirs \ {Root}

LEMMA LeastElement ==
    ASSUME NEW S, S \subseteq Nat, S # {}
    PROVE  Min(S) \in S /\ \A n \in S : Min(S) <= n
<1> DEFINE less == {p \in Nat \X Nat : p[1] < p[2]}
<1>1. IsWellFoundedOn(less, Nat)
  BY NatLessThanWellFounded DEF OpToRel
<1>2. PICK m \in S : \A n \in S : <<n, m>> \notin less
  BY <1>1, WFMin
<1>3. ASSUME NEW n \in S PROVE m <= n
  <2>1. m \in Nat /\ n \in Nat /\ <<n, m>> \notin less
    BY <1>2
  <2>2. ~(n < m)
    BY <2>1
  <2> QED
    BY <2>1, <2>2
<1> QED
  BY <1>3 DEF Min

LEMMA GreatestElement ==
    ASSUME NEW b \in Nat, NEW S, S \subseteq 0 .. b, S # {}
    PROVE  Max(S) \in S /\ \A n \in S : n <= Max(S)
<1> DEFINE T == {b - n : n \in S}
<1>1. T \subseteq Nat /\ T # {}
  <2>1. \A n \in S : b - n \in Nat
    OBVIOUS
  <2> QED
    BY <2>1
<1>2. Min(T) \in T /\ \A n \in T : Min(T) <= n
  BY <1>1, LeastElement
<1>3. PICK m \in S : Min(T) = b - m
  BY <1>2
<1>4. \A n \in S : m >= n
  <2> SUFFICES ASSUME NEW n \in S PROVE m >= n
    OBVIOUS
  <2>1. b - m <= b - n
    BY <1>2, <1>3
  <2> QED
    BY <2>1
<1>5. \E x \in S : \A y \in S : x >= y
  BY <1>4
<1>6. Max(S) \in S /\ \A y \in S : Max(S) >= y
  BY <1>5 DEF Max
<1> QED
  BY <1>6

-----------------------------------------------------------------------------

-----------------------------------------------------------------------------
\* Constants and slots.
LEMMA Constants ==
    /\ Chunks \in [Names -> Nat] /\ Tilde \subseteq Names
    /\ \A n \in Tilde : Chunks[n] > 0
    /\ \A n \in Names \ Tilde : Chunks[n] <= 1
    /\ \A m, n \in Names \ Tilde : Base[m] = Base[n] => m = n
    /\ NumClusters \in Nat \ {0} /\ ClusterSlots \in Nat \ {0, 1} /\ MaxCalls \in Nat
    /\ SectorSlots \in Nat \ {0, 1}
    /\ CrashIn \subseteq {"create", "unlink", "rename"}
<1>1. MkdirSlots \in 2 .. ClusterSlots /\ ClusterSlots \in Nat
  BY DirEntriesAssumption
<1>2. ClusterSlots # 0 /\ ClusterSlots # 1
  BY <1>1
<1> QED
  BY <1>1, <1>2, DirEntriesAssumption

LEMMA NumbersFacts == Numbers \subseteq Nat /\ 0 \in Numbers
<1>1. NumClusters * ClusterSlots + 1 \in Nat
  BY Constants
<1> QED
  BY <1>1 DEF Numbers

LEMMA SlotFacts ==
    /\ FreeSlot.type = "free" /\ DeletedSlot.type = "deleted" /\ FreeSlot.thing = 0
    /\ FreeSlot \in SlotType /\ DeletedSlot \in SlotType
    /\ FreeSlot # DeletedSlot
<1>1. NoKey \in Keys /\ 0 \in Things /\ 0 \in 0 .. ClusterSlots * NumClusters
  <2>1. ClusterSlots * NumClusters \in Nat /\ NumClusters + 1 \in Nat
    BY Constants
  <2> QED
    BY <2>1 DEF Keys, Things, AnyCluster, Eoc
<1> QED
  BY <1>1 DEF FreeSlot, DeletedSlot, Slot, SlotType

LEMMA KeyFacts ==
    ASSUME NEW n \in Names, NEW key, KeyOf(n, key)
    PROVE  /\ key \in Keys /\ key[1] = Base[n] /\ key[2] \in Numbers
           /\ key = <<Base[n], key[2]>> /\ (key[2] = 0) = (n \notin Tilde)
<1>1. PICK k \in Numbers : key = <<Base[n], k>> /\ (k = 0) = (n \notin Tilde)
  BY DEF KeyOf
<1>2. key \in {Base[m] : m \in Names} \X Numbers
  BY <1>1
<1> QED
  BY <1>1, <1>2 DEF Keys, Numbers

\* Two names with the same key have the same base; without a tilde they are one.
LEMMA SameKey ==
    ASSUME NEW m \in Names, NEW n \in Names, NEW key, KeyOf(m, key), KeyOf(n, key), m \notin Tilde
    PROVE  m = n
<1>1. key[1] = Base[m] /\ key[1] = Base[n] /\ key[2] = 0
  BY KeyFacts
<1>2. n \notin Tilde
  BY <1>1, KeyFacts
<1> QED
  BY <1>1, <1>2, Constants

-----------------------------------------------------------------------------
\* Sequences of slots.
LEMMA TypedFacts ==
    ASSUME NEW s, Typed(s)
    PROVE  /\ Len(s) \in Nat
           /\ \A i \in 1 .. Len(s) : s[i] \in SlotType /\ (s[i].type = "free" => s[i] = FreeSlot)
BY LenProperties DEF Typed

\* The slots in front of position i decide whether it begins a group.
LEMMA AloneSame ==
    ASSUME NEW s, NEW t, NEW i, t[i - 1] = s[i - 1]
    PROVE  Alone(t, i) = Alone(s, i)
BY DEF Alone, IsChunk

\* A run of chunks spells the same name in two directories that agree on it.
LEMMA SpellsSame ==
    ASSUME NEW s, NEW t, NEW n \in Names, NEW e \in Nat,
           \A i \in 1 .. e - 1 : e - Chunks[n] - 1 <= i => t[i] = s[i],
           Spells(t, e, n)
    PROVE  Spells(s, e, n)
<1> DEFINE b == e - Chunks[n]
<1>1. Chunks[n] \in Nat
  BY Constants
<1>2. 1 <= b /\ b < e /\ b \in Int
  BY <1>1 DEF Spells
<1>3. \A i \in b .. e - 1 : IsChunk(t, i) /\ t[i].name = n /\ t[i].number = e - i
  BY DEF Spells
<1>4. Alone(t, b)
  BY DEF Spells
<1>5. \A i \in b .. e - 1 : t[i] = s[i]
  BY <1>1, <1>2
<1>6. Alone(s, b)
  <2>1. CASE b = 1
    BY <2>1 DEF Alone
  <2>2. CASE b # 1
    <3>1. t[b - 1] = s[b - 1]
      BY <1>1, <1>2, <2>2
    <3> QED
      BY <3>1, <1>4 DEF Alone, IsChunk
  <2> QED
    BY <2>1, <2>2
<1>7. \A i \in b .. e - 1 : IsChunk(s, i) /\ s[i].name = n /\ s[i].number = e - i
  BY <1>3, <1>5 DEF IsChunk
<1> HIDE DEF b
<1>8. b = e - Chunks[n]
  BY DEF b
<1> QED
  BY <1>2, <1>6, <1>7, <1>8 DEF Spells

LEMMA ShortReadsSame ==
    ASSUME NEW s, NEW t, NEW e, NEW n, t[e] = s[e], ShortReads(t, e, n)
    PROVE  ShortReads(s, e, n)
BY DEF ShortReads, IsEntry

\* What spells a name ends behind a chunk with number 1 of that name.
LEMMA SpellsEnd ==
    ASSUME NEW s, NEW n \in Names, NEW e \in Nat, Spells(s, e, n)
    PROVE  /\ e > 1 /\ IsChunk(s, e - 1) /\ s[e - 1].name = n /\ s[e - 1].number = 1
           /\ Chunks[n] > 0
<1>1. Chunks[n] \in Nat /\ 1 <= e - Chunks[n] /\ e - Chunks[n] < e
  BY Constants DEF Spells
<1>2. e - 1 \in e - Chunks[n] .. e - 1 /\ e - (e - 1) = 1
  BY <1>1
<1> QED
  BY <1>1, <1>2 DEF Spells

-----------------------------------------------------------------------------
\* Wiping what is left of a group, or a part of it.
Wiped(s, t, p, l) ==
    /\ Len(t) = Len(s)
    /\ \A i \in 1 .. Len(s) : t[i] = IF i \in p .. l THEN DeletedSlot ELSE s[i]

LEMMA WipedFacts ==
    ASSUME NEW s, NEW t, Typed(s), NEW p \in Nat, NEW e \in Nat, NEW l \in p .. e,
           Group(s, p, e), Wiped(s, t, p, l)
    PROVE  /\ Len(t) = Len(s) /\ Len(s) \in Nat /\ 1 <= p /\ p <= l /\ l <= e /\ e <= Len(s)
           /\ \A i \in 1 .. Len(s) : i \in p .. l => t[i].type = "deleted"
           /\ \A i \in 1 .. Len(s) : i \notin p .. l => t[i] = s[i]
           /\ \A i \in 1 .. Len(s) : t[i].type # "deleted" => t[i] = s[i] /\ i \notin p .. l
<1>1. Len(s) \in Nat
  BY TypedFacts
<1>2. DeletedSlot.type = "deleted"
  BY SlotFacts
<1> QED
  BY <1>1, <1>2 DEF Wiped, Group

\* What is left of a long name spells no other one.
LEMMA WipedSpells ==
    ASSUME NEW s, NEW t, Typed(s), WellChunked(s), NEW p \in Nat, NEW e \in Nat, NEW l \in p .. e,
           Group(s, p, e), Wiped(s, t, p, l),
           NEW n \in Names, NEW x \in Ends(t), Spells(t, x, n)
    PROVE  x \in Ends(s) /\ x \notin p .. l /\ Spells(s, x, n)
<1>1. /\ Len(t) = Len(s) /\ Len(s) \in Nat /\ 1 <= p /\ p <= l /\ l <= e /\ e <= Len(s)
      /\ \A i \in 1 .. Len(s) : i \in p .. l => t[i].type = "deleted"
      /\ \A i \in 1 .. Len(s) : i \notin p .. l => t[i] = s[i]
  BY WipedFacts
<1>2. x \in 1 .. Len(s) /\ ~IsChunk(t, x)
  BY <1>1 DEF Ends
<1>3. \A i \in p .. e - 1 : IsChunk(s, i)
  BY DEF Group
<1>4. Chunks[n] \in Nat
  BY Constants
<1>5. x \in Ends(s) /\ x \notin p .. l /\ Spells(s, x, n)
  <2> DEFINE b == x - Chunks[n]
  <2>1. 1 <= b /\ b < x /\ b \in Int
    BY <1>2, <1>4 DEF Spells
  <2>2. \A i \in b .. x - 1 : IsChunk(t, i) /\ t[i].name = n /\ t[i].number = x - i
    BY DEF Spells
  <2>3. \A i \in b .. x - 1 : i \in 1 .. Len(s) /\ i \notin p .. l /\ t[i] = s[i]
    <3> TAKE i \in b .. x - 1
    <3>1. i \in 1 .. Len(s)
      BY <1>1, <1>2, <2>1
    <3>2. t[i].type # "deleted"
      BY <2>2 DEF IsChunk
    <3> QED
      BY <1>1, <3>1, <3>2
  <2>4. Alone(t, b)
    BY DEF Spells
  <2>5. \A i \in b .. x - 1 : IsChunk(s, i) /\ s[i].name = n /\ s[i].number = x - i
    BY <2>2, <2>3 DEF IsChunk
  <2>6. b = l + 1 => l = e
    <3> SUFFICES ASSUME b = l + 1, l # e PROVE FALSE
      OBVIOUS
    <3>1. b \in b .. x - 1
      BY <2>1, <1>2
    <3>2. IsChunk(s, b) /\ s[b].name = n /\ s[b].number = Chunks[n]
      <4>1. x - b = Chunks[n]
        BY <1>2, <1>4
      <4> QED
        BY <2>5, <3>1, <4>1
    <3>4. l \in p .. e - 1 /\ l \in 1 .. Len(s) /\ l < Len(s)
      BY <1>1
    <3>5. IsChunk(s, l)
      BY <1>3, <3>4
    <3>6. Leads(s, l)
      BY <3>4, <3>5 DEF WellChunked
    <3>7. l + 1 = b
      OBVIOUS
    <3>8. s[l + 1].type = "chunk"
      BY <3>2, <3>7 DEF IsChunk
    <3>9. s[l].name = n /\ s[l].number - 1 = Chunks[n]
      BY <3>2, <3>6, <3>7, <3>8 DEF Leads, IsEntry, EntryTypes
    <3>10. s[l].number \in 1 .. Chunks[n]
      BY <3>4, <3>5, <3>9 DEF WellChunked
    <3> QED
      BY <1>4, <3>9, <3>10
  <2>7. Alone(s, b)
    <3>1. CASE b = 1
      BY <3>1 DEF Alone
    <3>3. CASE b = l + 1
      <4>1. b - 1 = e /\ ~IsChunk(s, e)
        BY <2>6, <3>3 DEF Group
      <4> QED
        BY <4>1 DEF Alone
    <3>2. CASE b # 1 /\ b # l + 1
      <4>1. b - 1 \in 1 .. Len(s) /\ b \in 1 .. Len(s)
        BY <1>1, <1>2, <2>1, <3>2
      <4>2. b \notin p .. l
        <5>1. b \in b .. x - 1
          BY <2>1, <1>2
        <5> QED
          BY <2>3, <5>1
      <4>3. b - 1 \notin p .. l
        BY <1>1, <2>1, <3>2, <4>2
      <4>4. t[b - 1] = s[b - 1]
        BY <1>1, <4>1, <4>3
      <4> QED
        BY <2>4, <3>2, <4>4 DEF Alone, IsChunk
    <3> QED
      BY <3>1, <3>2, <3>3
  <2>8. Spells(s, x, n)
    <3> HIDE DEF b
    <3>1. b = x - Chunks[n]
      BY DEF b
    <3> QED
      BY <2>1, <2>5, <2>7, <3>1 DEF Spells
  <2>9. x \notin p .. l
    <3> SUFFICES ASSUME x \in p .. l PROVE FALSE
      OBVIOUS
    <3>1. x - 1 \in b .. x - 1 /\ x - 1 \in 1 .. Len(s)
      BY <1>2, <2>1
    <3>2. x - 1 \notin p .. l /\ IsChunk(s, x - 1)
      BY <2>3, <2>5, <3>1
    <3>3. x = p
      BY <1>1, <1>2, <3>2
    <3> QED
      BY <3>2, <3>3, <2>1 DEF Group, Alone
  <2>10. t[x] = s[x]
    BY <1>1, <1>2, <2>9
  <2> QED
    BY <1>2, <2>8, <2>9, <2>10 DEF Ends, IsChunk
<1> QED
  BY <1>5

\* Only what a name has matched before can it match afterwards, and not what is gone.
LEMMA WipedMatches ==
    ASSUME NEW s, NEW t, Typed(s), WellChunked(s), NEW p \in Nat, NEW e \in Nat, NEW l \in p .. e,
           Group(s, p, e), Wiped(s, t, p, l),
           NEW n \in Names, NEW x \in Ends(t), Matches(t, x, n)
    PROVE  x \in Ends(s) /\ x \notin p .. l /\ Matches(s, x, n)
<1>1. /\ Len(t) = Len(s) /\ Len(s) \in Nat /\ 1 <= p /\ p <= l /\ l <= e /\ e <= Len(s)
      /\ \A i \in 1 .. Len(s) : i \in p .. l => t[i].type = "deleted"
      /\ \A i \in 1 .. Len(s) : i \notin p .. l => t[i] = s[i]
  BY WipedFacts
<1>2. x \in 1 .. Len(s) /\ ~IsChunk(t, x)
  BY <1>1 DEF Ends
<1>3. CASE ShortReads(t, x, n)
  <2>1. t[x].type # "deleted"
    BY <1>3 DEF ShortReads, IsEntry, EntryTypes
  <2>2. x \notin p .. l /\ t[x] = s[x]
    BY <1>1, <1>2, <2>1
  <2>3. ShortReads(s, x, n) /\ ~IsChunk(s, x)
    BY <1>2, <1>3, <2>2 DEF ShortReads, IsEntry, IsChunk
  <2> QED
    BY <1>2, <2>2, <2>3 DEF Matches, Ends
<1>4. CASE Spells(t, x, n)
  BY <1>4, WipedSpells DEF Matches
<1> QED
  BY <1>3, <1>4 DEF Matches

LEMMA WipedSound ==
    ASSUME NEW s, NEW t, NEW p \in Nat, NEW e \in Nat, NEW l \in p .. e,
           Sound(s, e), Typed(t), Group(s, p, e), Wiped(s, t, p, l)
    PROVE  /\ l < e => Sound(t, e) /\ Group(t, l + 1, e)
           /\ l = e => Sound(t, 0)
<1> USE DEF Sound
<1>1. /\ Len(t) = Len(s) /\ Len(s) \in Nat /\ 1 <= p /\ p <= l /\ l <= e /\ e <= Len(s)
      /\ \A i \in 1 .. Len(s) : i \in p .. l => t[i].type = "deleted"
      /\ \A i \in 1 .. Len(s) : i \notin p .. l => t[i] = s[i]
      /\ \A i \in 1 .. Len(s) : t[i].type # "deleted" => t[i] = s[i] /\ i \notin p .. l
  BY WipedFacts
<1>2. \A i \in p .. e - 1 : IsChunk(s, i)
  BY DEF Group
<1>3. ~IsChunk(s, e) /\ Alone(s, p)
  BY DEF Group
<1>4. WellChunked(t)
  <2> SUFFICES ASSUME NEW i \in 1 .. Len(s), IsChunk(t, i)
               PROVE  /\ t[i].name \in Names /\ t[i].number \in 1 .. Chunks[t[i].name]
                      /\ KeyOf(t[i].name, t[i].key)
                      /\ i < Len(s) => Leads(t, i)
    BY <1>1 DEF WellChunked
  <2>1. t[i] = s[i] /\ i \notin p .. l /\ IsChunk(s, i)
    BY <1>1 DEF IsChunk
  <2>2. /\ s[i].name \in Names /\ s[i].number \in 1 .. Chunks[s[i].name]
        /\ KeyOf(s[i].name, s[i].key)
        /\ i < Len(s) => Leads(s, i)
    BY <2>1 DEF WellChunked
  <2>3. ASSUME i < Len(s) PROVE Leads(t, i)
    <3>1. i + 1 \in 1 .. Len(s)
      BY <1>1, <2>3
    <3>2. i + 1 \notin p .. l
      <4> SUFFICES ASSUME i + 1 \in p .. l PROVE FALSE
        OBVIOUS
      <4>1. i + 1 = p
        BY <2>1, <1>1
      <4>2. p - 1 = i
        BY <4>1
      <4> QED
        BY <1>1, <1>3, <2>1, <4>1, <4>2 DEF Alone
    <3>3. t[i + 1] = s[i + 1]
      BY <1>1, <3>1, <3>2
    <3> QED
      BY <2>1, <2>2, <2>3, <3>3 DEF Leads, IsChunk, IsEntry
  <2> QED
    BY <2>1, <2>2, <2>3
<1>5. WellNamed(t)
  <2>1. \A i \in 1 .. Len(s) : IsEntry(t, i) => t[i] = s[i] /\ IsEntry(s, i)
    BY <1>1 DEF IsEntry, EntryTypes
  <2>2. ASSUME NEW i \in 1 .. Len(s), IsEntry(t, i) PROVE \E n \in Names : KeyOf(n, t[i].key)
    BY <2>1, <2>2 DEF WellNamed
  <2>3. ASSUME NEW i \in 1 .. Len(s), NEW j \in 1 .. Len(s), IsEntry(t, i), IsEntry(t, j), t[i].key = t[j].key
        PROVE  i = j
    BY <2>1, <2>3 DEF WellNamed
  <2> QED
    BY <1>1, <2>2, <2>3 DEF WellNamed
<1>6. OneMatch(t)
  <2> SUFFICES ASSUME NEW n \in Names, NEW x \in Ends(t), NEW y \in Ends(t),
                      Matches(t, x, n), Matches(t, y, n)
               PROVE  x = y
    BY DEF OneMatch
  <2>1. x \in Ends(s) /\ Matches(s, x, n)
    BY WipedMatches
  <2>2. y \in Ends(s) /\ Matches(s, y, n)
    BY WipedMatches
  <2> QED
    BY <2>1, <2>2 DEF OneMatch
<1>7. ASSUME NEW i \in Starts(t), i # e \/ l = e PROVE \A j \in i .. Len(s) : t[j] = FreeSlot
  <2>1. i \in 1 .. Len(s) /\ t[i].type = "free" /\ Alone(t, i)
    BY <1>1 DEF Starts, Ends
  <2>2. t[i] = s[i] /\ i \notin p .. l
    BY <1>1, <2>1
  <2>3. i # e
    BY <1>7, <1>1, <2>2
  <2>4. Alone(s, i)
    <3> SUFFICES ASSUME i # 1, IsChunk(s, i - 1) PROVE FALSE
      BY DEF Alone
    <3>1. i - 1 \in 1 .. Len(s)
      BY <2>1
    <3>2. i - 1 \in p .. l
      BY <1>1, <2>1, <3>1 DEF Alone, IsChunk
    <3>3. i - 1 # e
      BY <1>3
    <3>4. i \in p .. e - 1
      BY <1>1, <2>1, <2>3, <3>2, <3>3
    <3>5. IsChunk(s, i)
      BY <1>2, <3>4
    <3> QED
      BY <2>1, <2>2, <3>5 DEF IsChunk
  <2>5. i \in Starts(s)
    BY <2>1, <2>2, <2>4 DEF Starts, Ends, IsChunk
  <2>6. \A j \in i .. Len(s) : s[j] = FreeSlot
    BY <2>3, <2>5 DEF TailFree
  <2>7. i > e
    <3> SUFFICES ASSUME i < e PROVE FALSE
      BY <1>1, <2>1, <2>3
    <3>1. e \in i .. Len(s) /\ e - 1 \in i .. Len(s)
      BY <1>1, <2>1
    <3>2. s[e].type = "free" /\ s[e - 1].type = "free"
      BY <2>6, <3>1, SlotFacts
    <3> QED
      BY <3>2 DEF Group, IsEntry, EntryTypes
  <2>8. \A j \in i .. Len(s) : t[j] = s[j]
    BY <1>1, <2>1, <2>7
  <2> QED
    BY <2>6, <2>8
<1>8. l = e => TailFree(t, 0)
  BY <1>1, <1>7 DEF TailFree
<1>9. l < e => TailFree(t, e)
  BY <1>1, <1>7 DEF TailFree
<1>10. ASSUME l < e PROVE Group(t, l + 1, e)
  <2>1. \A i \in l + 1 .. e : i \in 1 .. Len(s) /\ i \notin p .. l /\ t[i] = s[i]
    BY <1>1
  <2>2. \A i \in l + 1 .. e - 1 : IsChunk(t, i)
    BY <1>1, <1>2, <2>1 DEF IsChunk
  <2>3. t[e] = s[e]
    BY <1>1, <1>10, <2>1
  <2>4. ~IsChunk(t, e)
    BY <1>3, <2>3 DEF IsChunk
  <2>5. t[l].type = "deleted"
    BY <1>1
  <2>6. Alone(t, l + 1)
    <3>1. (l + 1) - 1 = l
      OBVIOUS
    <3> QED
      BY <2>5, <3>1 DEF Alone, IsChunk
  <2>7. IsEntry(t, e) \/ (t[e].type = "free" /\ e > 1 /\ t[e - 1].type \in {"chunk", "deleted"})
    <3>1. CASE IsEntry(s, e)
      BY <3>1, <2>3 DEF IsEntry
    <3>2. CASE s[e].type = "free" /\ e > 1
      <4>1. e - 1 \in p .. l \/ e - 1 \in l + 1 .. e - 1
        BY <1>1, <1>10
      <4>2. e - 1 \in 1 .. Len(s)
        BY <1>1, <3>2
      <4>3. t[e - 1].type \in {"chunk", "deleted"}
        BY <1>1, <2>2, <4>1, <4>2 DEF IsChunk
      <4> QED
        BY <3>2, <2>3, <4>3
    <3> QED
      BY <3>1, <3>2 DEF Group
  <2> QED
    BY <1>1, <1>10, <2>2, <2>4, <2>6, <2>7 DEF Group
<1> QED
  BY <1>4, <1>5, <1>6, <1>8, <1>9, <1>10

-----------------------------------------------------------------------------
\* Filling one slot.
Put(s, t, p, slot) ==
    /\ Len(t) = Len(s)
    /\ \A i \in 1 .. Len(s) : t[i] = IF i = p THEN slot ELSE s[i]

\* Other data for an entry changes neither names nor free slots.
LEMMA ThingMatches ==
    ASSUME NEW s, NEW t, Typed(s), NEW e \in 1 .. Len(s), NEW o, IsEntry(s, e),
           Put(s, t, e, [s[e] EXCEPT !.thing = o])
    PROVE  /\ Len(t) = Len(s) /\ Ends(t) = Ends(s)
           /\ \A i \in 1 .. Len(s) : /\ t[i].type = s[i].type /\ t[i].name = s[i].name
                                     /\ t[i].number = s[i].number /\ t[i].key = s[i].key
                                     /\ i # e => t[i] = s[i]
           /\ t[e].thing = o
           /\ \A x \in 1 .. Len(s), n \in Names : Matches(t, x, n) = Matches(s, x, n)
<1>1. Len(s) \in Nat /\ \A i \in 1 .. Len(s) : s[i] \in SlotType
  BY TypedFacts
<1>2. \A i \in 1 .. Len(s) : /\ t[i].type = s[i].type /\ t[i].name = s[i].name
                             /\ t[i].number = s[i].number /\ t[i].key = s[i].key
                             /\ i # e => t[i] = s[i]
  BY <1>1 DEF Put, SlotType
<1>3. Len(t) = Len(s) /\ t[e].thing = o
  BY <1>1 DEF Put, SlotType
<1>4. Ends(t) = Ends(s)
  BY <1>2, <1>3 DEF Ends, IsChunk
<1>5. ASSUME NEW x \in 1 .. Len(s), NEW n \in Names PROVE Matches(t, x, n) = Matches(s, x, n)
  <2>1. ShortReads(t, x, n) = ShortReads(s, x, n)
    BY <1>2 DEF ShortReads, IsEntry
  <2> DEFINE b == x - Chunks[n]
  <2>2. ASSUME 1 <= b, b < x PROVE \A i \in b .. x - 1 : i \in 1 .. Len(s)
    BY <1>1, <2>2, Constants
  <2>3. ASSUME 1 <= b, b < x PROVE Alone(t, b) = Alone(s, b)
    <3>1. CASE b = 1
      BY <3>1 DEF Alone
    <3>2. CASE b # 1
      <4>1. b - 1 \in 1 .. Len(s)
        BY <1>1, <2>3, <3>2, Constants
      <4> QED
        BY <4>1, <1>2, <3>2 DEF Alone, IsChunk
    <3> QED
      BY <3>1, <3>2
  <2>4. Spells(t, x, n) = Spells(s, x, n)
    <3>1. CASE 1 <= b /\ b < x
      <4>1. \A i \in b .. x - 1 : t[i].type = s[i].type /\ t[i].name = s[i].name /\ t[i].number = s[i].number
        BY <1>2, <2>2, <3>1
      <4>2. Alone(t, b) = Alone(s, b)
        BY <2>3, <3>1
      <4> QED
        BY <3>1, <4>1, <4>2 DEF Spells, IsChunk
    <3>2. CASE ~(1 <= b /\ b < x)
      BY <3>2 DEF Spells
    <3> QED
      BY <3>1, <3>2
  <2> QED
    BY <2>1, <2>4 DEF Matches
<1> QED
  BY <1>2, <1>3, <1>4, <1>5

LEMMA ThingSound ==
    ASSUME NEW s, NEW t, NEW e \in 1 .. Len(s), NEW o, IsEntry(s, e), NEW x,
           Sound(s, x), Typed(t), Put(s, t, e, [s[e] EXCEPT !.thing = o])
    PROVE  Sound(t, x)
<1> USE DEF Sound
<1>1. Len(s) \in Nat
  BY TypedFacts
<1>2. /\ Len(t) = Len(s) /\ Ends(t) = Ends(s)
      /\ \A i \in 1 .. Len(s) : /\ t[i].type = s[i].type /\ t[i].name = s[i].name
                                /\ t[i].number = s[i].number /\ t[i].key = s[i].key
                                /\ i # e => t[i] = s[i]
      /\ \A y \in 1 .. Len(s), n \in Names : Matches(t, y, n) = Matches(s, y, n)
  BY ThingMatches, ZenonT(60)
<1>3. WellChunked(t)
  <2> SUFFICES ASSUME NEW i \in 1 .. Len(s), IsChunk(t, i)
               PROVE  /\ t[i].name \in Names /\ t[i].number \in 1 .. Chunks[t[i].name]
                      /\ KeyOf(t[i].name, t[i].key)
                      /\ i < Len(s) => Leads(t, i)
    BY <1>2 DEF WellChunked
  <2>1. /\ s[i].name \in Names /\ s[i].number \in 1 .. Chunks[s[i].name]
        /\ KeyOf(s[i].name, s[i].key)
        /\ i < Len(s) => Leads(s, i)
    BY <1>2 DEF WellChunked, IsChunk
  <2>2. ASSUME i < Len(s) PROVE Leads(t, i)
    <3>1. i + 1 \in 1 .. Len(s)
      BY <1>1, <2>2
    <3> QED
      BY <1>2, <2>1, <2>2, <3>1 DEF Leads, IsChunk, IsEntry
  <2>3. t[i].name = s[i].name /\ t[i].number = s[i].number /\ t[i].key = s[i].key
    BY <1>2
  <2> QED
    BY <2>1, <2>2, <2>3
<1>4. WellNamed(t)
  <2>1. \A i \in 1 .. Len(s) : IsEntry(t, i) = IsEntry(s, i) /\ t[i].key = s[i].key
    BY <1>2 DEF IsEntry
  <2> QED
    BY <1>2, <2>1 DEF WellNamed
<1>5. OneMatch(t)
  BY <1>2 DEF OneMatch, Ends
<1>6. TailFree(t, x)
  <2> SUFFICES ASSUME NEW i \in Starts(t), i # x PROVE \A j \in i .. Len(s) : t[j] = FreeSlot
    BY <1>2 DEF TailFree
  <2>1. i \in 1 .. Len(s) /\ s[i].type = "free" /\ Alone(t, i)
    BY <1>2 DEF Starts, Ends
  <2>2. Alone(s, i)
    BY <1>2, <1>1, <2>1 DEF Alone, IsChunk
  <2>3. i \in Starts(s)
    BY <2>1, <2>2 DEF Starts, Ends, IsChunk
  <2>4. \A j \in i .. Len(s) : s[j] = FreeSlot
    BY <2>3 DEF TailFree
  <2>5. \A j \in i .. Len(s) : j \in 1 .. Len(s) /\ j # e
    BY <1>1, <2>1, <2>4, SlotFacts DEF IsEntry, EntryTypes
  <2> QED
    BY <1>2, <2>4, <2>5
<1> QED
  BY <1>3, <1>4, <1>5, <1>6

-----------------------------------------------------------------------------
\* Placing a name: the chunks one by one, then the entry.
LEMMA PlacingFacts ==
    ASSUME NEW s, NEW p, NEW n \in Names, NEW left, NEW key, Typed(s), Placing(s, p, n, left, key)
    PROVE  /\ Len(s) \in Nat /\ p \in Nat /\ 1 <= p /\ p <= Len(s) + 1
           /\ left \in Nat /\ Chunks[n] \in Nat /\ left <= Chunks[n] /\ p > Chunks[n] - left
           /\ \A j \in 1 .. Len(s) : j >= p => s[j] = FreeSlot
           /\ \A j \in Nat : p - (Chunks[n] - left) <= j /\ j < p =>
                 IsChunk(s, j) /\ s[j].name = n /\ s[j].key = key /\ s[j].number = left + p - j
           /\ Alone(s, p - (Chunks[n] - left))
           /\ KeyOf(n, key) /\ Unused(s, key)
           /\ \A i \in Starts(s) : p <= i
           /\ \A x \in Ends(s) : Matches(s, x, n) => x = p /\ left = 0
<1>1. Len(s) \in Nat /\ Chunks[n] \in Nat
  BY TypedFacts, Constants
<1>2. p \in Nat /\ 1 <= p /\ p <= Len(s) + 1 /\ left \in Nat /\ left <= Chunks[n]
  BY <1>1 DEF Placing
<1>3. \A j \in 1 .. Len(s) : j >= p => s[j] = FreeSlot
  BY <1>1, <1>2 DEF Placing
<1>4. \A j \in Nat : p - (Chunks[n] - left) <= j /\ j < p => j \in p - (Chunks[n] - left) .. p - 1
  BY <1>1, <1>2
<1> QED
  BY <1>1, <1>2, <1>3, <1>4 DEF Placing

LEMMA PlacingIs ==
    ASSUME NEW s, NEW p, NEW n \in Names, NEW left, NEW key, NEW r, r = Chunks[n] - left,
           p \in 1 .. Len(s) + 1, left \in 0 .. Chunks[n], p > r,
           \A j \in p .. Len(s) : s[j] = FreeSlot,
           \A j \in p - r .. p - 1 :
              IsChunk(s, j) /\ s[j].name = n /\ s[j].key = key /\ s[j].number = left + p - j,
           Alone(s, p - r),
           \A i \in Starts(s) : p <= i,
           KeyOf(n, key), Unused(s, key),
           \A x \in Ends(s) : Matches(s, x, n) => x = p /\ left = 0
    PROVE  Placing(s, p, n, left, key)
BY DEF Placing

\* Nothing but the name that is being placed can match behind its chunks.
LEMMA ChunkPut ==
    ASSUME NEW s, NEW t, NEW p, NEW n \in Names, NEW left, NEW key,
           Sound(s, 0), Typed(t), Placing(s, p, n, left, key), left > 0, p <= Len(s),
           Put(s, t, p, [Slot("chunk") EXCEPT !.name = n, !.number = left, !.key = key])
    PROVE  Sound(t, 0) /\ Placing(t, p + 1, n, left - 1, key)
<1> USE DEF Sound
<1> DEFINE r == Chunks[n] - left
<1>1. /\ Len(s) \in Nat /\ p \in Nat /\ 1 <= p /\ p <= Len(s)
      /\ left \in Nat /\ Chunks[n] \in Nat /\ left <= Chunks[n] /\ p > r
      /\ \A j \in 1 .. Len(s) : j >= p => s[j] = FreeSlot
      /\ \A j \in Nat : p - r <= j /\ j < p =>
            IsChunk(s, j) /\ s[j].name = n /\ s[j].key = key /\ s[j].number = left + p - j
      /\ Alone(s, p - r)
      /\ KeyOf(n, key) /\ Unused(s, key)
      /\ \A i \in Starts(s) : p <= i
      /\ \A x \in Ends(s) : Matches(s, x, n) => x = p /\ left = 0
  BY PlacingFacts
<1>2. /\ Len(t) = Len(s) /\ \A i \in 1 .. Len(s) : i # p => t[i] = s[i]
      /\ t[p].type = "chunk" /\ t[p].name = n /\ t[p].number = left /\ t[p].key = key
  <2>1. p \in 1 .. Len(s)
    BY <1>1
  <2>2. /\ Len(t) = Len(s) /\ \A i \in 1 .. Len(s) : i # p => t[i] = s[i]
        /\ t[p] = [Slot("chunk") EXCEPT !.name = n, !.number = left, !.key = key]
    BY <2>1 DEF Put
  <2> QED
    BY <2>2 DEF Slot
<1>3. \A i \in 1 .. Len(s) : i > p => t[i] = FreeSlot
  BY <1>1, <1>2
<1>4. FreeSlot.type = "free"
  BY SlotFacts
<1> HIDE DEF r
<1>5. r = Chunks[n] - left /\ r \in Nat
  BY <1>1 DEF r
<1>6. WellChunked(t)
  <2> SUFFICES ASSUME NEW i \in 1 .. Len(s), IsChunk(t, i)
               PROVE  /\ t[i].name \in Names /\ t[i].number \in 1 .. Chunks[t[i].name]
                      /\ KeyOf(t[i].name, t[i].key)
                      /\ i < Len(s) => Leads(t, i)
    BY <1>2 DEF WellChunked
  <2>1. CASE i = p
    <3>1. left \in 1 .. Chunks[n]
      BY <1>1
    <3>2. i < Len(s) => t[i + 1] = FreeSlot
      BY <1>1, <1>3, <2>1
    <3> QED
      BY <1>1, <1>2, <1>4, <2>1, <3>1, <3>2 DEF Leads
  <2>2. CASE i # p
    <3>1. t[i] = s[i] /\ IsChunk(s, i)
      BY <1>2, <2>2 DEF IsChunk
    <3>2. /\ s[i].name \in Names /\ s[i].number \in 1 .. Chunks[s[i].name]
          /\ KeyOf(s[i].name, s[i].key)
          /\ i < Len(s) => Leads(s, i)
      BY <3>1 DEF WellChunked
    <3>3. CASE i = p - 1
      <4>1. r # 0
        <5> SUFFICES ASSUME r = 0 PROVE FALSE
          OBVIOUS
        <5>1. Alone(s, p) /\ p # 1
          BY <1>1, <3>3
        <5> QED
          BY <3>1, <3>3, <5>1 DEF Alone
      <4>2. IsChunk(s, i) /\ s[i].name = n /\ s[i].key = key /\ s[i].number = left + p - i
        <5>1. p - r <= i /\ i < p /\ i \in Nat
          BY <1>1, <1>5, <3>3, <4>1
        <5> QED
          BY <1>1, <5>1
      <4>3. i + 1 = p /\ s[i].number = left + 1
        BY <1>1, <3>3, <4>2
      <4>4. Leads(t, i)
        <5>1. left = (left + 1) - 1
          BY <1>1
        <5> QED
          BY <1>2, <3>1, <4>2, <4>3, <5>1 DEF Leads, IsChunk
      <4> QED
        BY <3>1, <3>2, <4>4
    <3>4. CASE i # p - 1
      <4>1. i < Len(s) => i + 1 \in 1 .. Len(s) /\ i + 1 # p
        BY <1>1, <3>4
      <4>2. i < Len(s) => t[i + 1] = s[i + 1]
        BY <4>1, <1>2
      <4>3. i < Len(s) => Leads(t, i)
        BY <3>1, <3>2, <4>2 DEF Leads, IsChunk, IsEntry
      <4> QED
        BY <3>1, <3>2, <4>3
    <3> QED
      BY <3>3, <3>4
  <2> QED
    BY <2>1, <2>2
<1>7. \A i \in 1 .. Len(s) : IsEntry(t, i) => i # p /\ t[i] = s[i] /\ IsEntry(s, i)
  BY <1>2 DEF IsEntry, EntryTypes
<1>8. WellNamed(t) /\ Unused(t, key)
  <2>1. ASSUME NEW i \in 1 .. Len(s), IsEntry(t, i)
        PROVE (\E m \in Names : KeyOf(m, t[i].key)) /\ t[i].key # key
    BY <1>1, <1>7, <2>1 DEF WellNamed, Unused
  <2>2. ASSUME NEW i \in 1 .. Len(s), NEW j \in 1 .. Len(s), IsEntry(t, i), IsEntry(t, j), t[i].key = t[j].key
        PROVE  i = j
    BY <1>7, <2>2 DEF WellNamed
  <2> QED
    BY <1>2, <2>1, <2>2 DEF WellNamed, Unused
<1>9. ASSUME NEW m \in Names, NEW x \in Ends(t), Matches(t, x, m)
      PROVE  \/ x \in Ends(s) /\ Matches(s, x, m) /\ m # n
             \/ m = n /\ x = p + 1 /\ left = 1
  <2>1. x \in 1 .. Len(s) /\ x # p /\ t[x] = s[x]
    BY <1>2 DEF Ends, IsChunk
  <2>2. x \in Ends(s)
    BY <2>1 DEF Ends, IsChunk
  <2>3. CASE Matches(s, x, m)
    BY <1>1, <2>2, <2>3
  <2>4. CASE ~Matches(s, x, m)
    <3>1. Spells(t, x, m) /\ ~Spells(s, x, m)
      <4>1. ~ShortReads(t, x, m)
        BY <2>1, <2>4, ShortReadsSame DEF Matches
      <4> QED
        BY <1>9, <2>4, <4>1 DEF Matches
    <3>2. x > p
      <4> SUFFICES ASSUME x < p PROVE FALSE
        BY <1>1, <2>1
      <4>1. \A i \in 1 .. x - 1 : t[i] = s[i]
        BY <1>1, <1>2, <2>1
      <4>2. Spells(s, x, m)
        BY <2>1, <3>1, <4>1, SpellsSame
      <4> QED
        BY <3>1, <4>2
    <3>3. x > 1 /\ IsChunk(t, x - 1) /\ t[x - 1].name = m /\ t[x - 1].number = 1
      BY <2>1, <3>1, SpellsEnd
    <3>4. x - 1 \in 1 .. Len(s) /\ ~(x - 1 > p)
      BY <1>1, <1>3, <1>4, <2>1, <3>3 DEF IsChunk
    <3>5. x - 1 = p
      BY <1>1, <2>1, <3>2, <3>4
    <3> QED
      BY <1>1, <1>2, <2>1, <3>3, <3>5
  <2> QED
    BY <2>3, <2>4
<1>10. OneMatch(t)
  <2> SUFFICES ASSUME NEW m \in Names, NEW x \in Ends(t), NEW y \in Ends(t), Matches(t, x, m), Matches(t, y, m)
               PROVE  x = y
    BY DEF OneMatch
  <2>1. CASE m = n
    BY <1>9, <2>1
  <2>2. CASE m # n
    <3>1. x \in Ends(s) /\ Matches(s, x, m) /\ y \in Ends(s) /\ Matches(s, y, m)
      BY <1>9, <2>2
    <3> QED
      BY <3>1 DEF OneMatch
  <2> QED
    BY <2>1, <2>2
<1>11. \A i \in Starts(t) : p + 1 < i
  <2> SUFFICES ASSUME NEW i \in Starts(t), i <= p + 1 PROVE FALSE
    BY <1>1, <1>2 DEF Starts, Ends
  <2>1. i \in 1 .. Len(s) /\ t[i].type = "free" /\ Alone(t, i)
    BY <1>2 DEF Starts, Ends
  <2>2. i # p
    BY <1>2, <2>1
  <2>3. i # p + 1
    <3> SUFFICES ASSUME i = p + 1 PROVE FALSE
      OBVIOUS
    <3>1. i - 1 = p /\ i # 1
      BY <1>1
    <3> QED
      BY <1>2, <2>1, <3>1 DEF Alone, IsChunk
  <2>4. i < p
    BY <1>1, <2>1, <2>2, <2>3
  <2>5. t[i] = s[i] /\ (i # 1 => t[i - 1] = s[i - 1])
    <3>1. i # 1 => i - 1 \in 1 .. Len(s) /\ i - 1 # p
      BY <1>1, <2>1, <2>4
    <3> QED
      BY <1>2, <2>1, <2>4, <3>1
  <2>6. i \in Starts(s)
    BY <2>1, <2>5 DEF Starts, Ends, Alone, IsChunk
  <2> QED
    BY <1>1, <2>1, <2>4, <2>6
<1>12. TailFree(t, 0)
  <2> SUFFICES ASSUME NEW i \in Starts(t), NEW j \in i .. Len(s) PROVE t[j] = FreeSlot
    BY <1>2 DEF TailFree
  <2>1. i \in 1 .. Len(s) /\ i > p + 1
    BY <1>2, <1>1, <1>11 DEF Starts, Ends
  <2>2. j \in 1 .. Len(s) /\ j > p
    BY <1>1, <2>1
  <2> QED
    BY <1>3, <2>2
<1>13. Placing(t, p + 1, n, left - 1, key)
  <2>1. Chunks[n] - (left - 1) = r + 1 /\ p + 1 - (Chunks[n] - (left - 1)) = p - r
    <3>1. PICK c \in Nat : c = Chunks[n]
      BY <1>1
    <3> QED
      BY <1>1, <1>5, <3>1
  <2>2. p + 1 \in 1 .. Len(t) + 1 /\ left - 1 \in 0 .. Chunks[n] /\ p + 1 > r + 1
    <3>1. PICK c \in Nat : c = Chunks[n]
      BY <1>1
    <3>2. /\ Len(t) = Len(s) /\ Len(s) \in Nat /\ p \in Nat /\ 1 <= p /\ p <= Len(s)
          /\ left \in Nat /\ left <= c /\ p > r /\ r \in Nat
      BY <1>1, <1>2, <1>5, <3>1
    <3>3. p + 1 \in 1 .. Len(t) + 1 /\ left - 1 \in 0 .. c /\ p + 1 > r + 1
      BY <3>2
    <3> QED
      BY <3>1, <3>3
  <2>3. \A j \in p + 1 .. Len(t) : t[j] = FreeSlot
    BY <1>1, <1>2, <1>3
  <2>4. ASSUME NEW j \in p - r .. p + 1 - 1
        PROVE  IsChunk(t, j) /\ t[j].name = n /\ t[j].key = key /\ t[j].number = left - 1 + (p + 1) - j
    <3>1. CASE j = p
      <4>1. left = left - 1 + (p + 1) - j
        BY <1>1, <3>1
      <4> QED
        BY <1>2, <3>1, <4>1 DEF IsChunk
    <3>2. CASE j # p
      <4>1. j \in Nat /\ p - r <= j /\ j < p /\ j \in 1 .. Len(s)
        BY <1>1, <1>5, <3>2
      <4>2. IsChunk(s, j) /\ s[j].name = n /\ s[j].key = key /\ s[j].number = left + p - j
        BY <1>1, <4>1
      <4>3. t[j] = s[j]
        BY <1>2, <4>1, <3>2
      <4>4. left + p - j = left - 1 + (p + 1) - j
        BY <1>1, <4>1
      <4> QED
        BY <4>2, <4>3, <4>4 DEF IsChunk
    <3> QED
      BY <3>1, <3>2
  <2>5. Alone(t, p - r)
    <3>1. CASE p - r = 1
      BY <3>1 DEF Alone
    <3>2. CASE p - r # 1
      <4>1. p - r - 1 \in 1 .. Len(s) /\ p - r - 1 # p
        BY <1>1, <1>5, <3>2
      <4>2. t[p - r - 1] = s[p - r - 1]
        BY <1>2, <4>1
      <4> QED
        BY <1>1, <4>2, <3>2 DEF Alone, IsChunk
    <3> QED
      BY <3>1, <3>2
  <2>6. \A x \in Ends(t) : Matches(t, x, n) => x = p + 1 /\ left - 1 = 0
    BY <1>1, <1>9
  <2>7. \A i \in Starts(t) : p + 1 <= i
    BY <1>1, <1>2, <1>11 DEF Starts, Ends
  <2> QED
    <3>1. KeyOf(n, key) /\ Unused(t, key)
      BY <1>1, <1>8
    <3>2. PICK p2, l2, r2 : p2 = p + 1 /\ l2 = left - 1 /\ r2 = r + 1
      OBVIOUS
    <3>3. p2 - r2 = p - r
      BY <1>1, <1>5, <3>2, SMTT(60)
    <3>4. r2 = Chunks[n] - l2
      BY <2>1, <3>2
    <3>5. p2 \in 1 .. Len(t) + 1 /\ l2 \in 0 .. Chunks[n] /\ p2 > r2
      BY <2>2, <3>2
    <3>6. \A j \in p2 .. Len(t) : t[j] = FreeSlot
      BY <2>3, <3>2
    <3>7. \A j \in p2 - r2 .. p2 - 1 :
              IsChunk(t, j) /\ t[j].name = n /\ t[j].key = key /\ t[j].number = l2 + p2 - j
      <4> TAKE j \in p2 - r2 .. p2 - 1
      <4>1. j \in p - r .. p + 1 - 1
        <5>1. p \in Nat /\ r \in Nat
          BY <1>1, <1>5
        <5> QED
          BY <3>2, <5>1
      <4>2. IsChunk(t, j) /\ t[j].name = n /\ t[j].key = key /\ t[j].number = left - 1 + (p + 1) - j
        BY <2>4, <4>1
      <4> QED
        BY <3>2, <4>2
    <3>8. Alone(t, p2 - r2)
      BY <2>5, <3>3
    <3>9. \A x \in Ends(t) : Matches(t, x, n) => x = p2 /\ l2 = 0
      BY <2>6, <3>2
    <3>10. \A i \in Starts(t) : p2 <= i
      BY <2>7, <3>2
    <3>11. Placing(t, p2, n, l2, key)
      BY <3>1, <3>4, <3>5, <3>6, <3>7, <3>8, <3>9, <3>10, PlacingIs, Zenon
    <3> QED
      BY <3>2, <3>11
<1> QED
  BY <1>6, <1>8, <1>10, <1>12, <1>13

\* The entry: every match of the name is now the entry, with nothing free before it.
LEMMA EntryPut ==
    ASSUME NEW s, NEW t, NEW p, NEW n \in Names, NEW key, NEW type \in EntryTypes,
           Sound(s, 0), Typed(t), Placing(s, p, n, 0, key), p <= Len(s),
           Put(s, t, p, [Slot(type) EXCEPT !.key = key])
    PROVE  /\ Sound(t, 0)
           /\ \A m \in Names, x \in Ends(t) : Matches(t, x, m) =>
                 (x \in Ends(s) /\ Matches(s, x, m)) \/ (m = n /\ x = p)
<1> USE DEF Sound
<1> DEFINE r == Chunks[n] - 0
<1>1. /\ Len(s) \in Nat /\ p \in Nat /\ 1 <= p /\ p <= Len(s)
      /\ Chunks[n] \in Nat /\ p > r
      /\ \A j \in 1 .. Len(s) : j >= p => s[j] = FreeSlot
      /\ \A j \in Nat : p - r <= j /\ j < p =>
            IsChunk(s, j) /\ s[j].name = n /\ s[j].key = key /\ s[j].number = 0 + p - j
      /\ Alone(s, p - r)
      /\ KeyOf(n, key) /\ Unused(s, key)
      /\ \A i \in Starts(s) : p <= i
      /\ \A x \in Ends(s) : Matches(s, x, n) => x = p /\ 0 = 0
  BY PlacingFacts
<1>2. p \in 1 .. Len(s) /\ r \in Nat /\ r = Chunks[n]
  BY <1>1
<1> HIDE DEF r
<1>3. /\ Len(t) = Len(s) /\ \A i \in 1 .. Len(s) : i # p => t[i] = s[i]
      /\ t[p].type = type /\ t[p].key = key /\ t[p].thing = 0
  <2>1. /\ Len(t) = Len(s) /\ \A i \in 1 .. Len(s) : i # p => t[i] = s[i]
        /\ t[p] = [Slot(type) EXCEPT !.key = key]
    BY <1>2 DEF Put
  <2> QED
    BY <2>1 DEF Slot
<1>4. type # "chunk" /\ type # "free" /\ FreeSlot.type = "free" /\ s[p] = FreeSlot
  BY <1>1, <1>2, SlotFacts DEF EntryTypes
<1>5. IsEntry(t, p) /\ ~IsEntry(s, p) /\ ~IsChunk(t, p) /\ ~IsChunk(s, p)
  BY <1>3, <1>4 DEF IsEntry, EntryTypes, IsChunk
<1>6. \A i \in 1 .. Len(s) : IsChunk(t, i) = IsChunk(s, i)
  BY <1>3, <1>5 DEF IsChunk
<1>7. Ends(t) = Ends(s)
  BY <1>3, <1>6 DEF Ends
<1>8. WellChunked(t)
  <2> SUFFICES ASSUME NEW i \in 1 .. Len(s), IsChunk(t, i)
               PROVE  /\ t[i].name \in Names /\ t[i].number \in 1 .. Chunks[t[i].name]
                      /\ KeyOf(t[i].name, t[i].key)
                      /\ i < Len(s) => Leads(t, i)
    BY <1>3 DEF WellChunked
  <2>1. i # p /\ t[i] = s[i] /\ IsChunk(s, i)
    BY <1>3, <1>5, <1>6
  <2>2. /\ s[i].name \in Names /\ s[i].number \in 1 .. Chunks[s[i].name]
        /\ KeyOf(s[i].name, s[i].key)
        /\ i < Len(s) => Leads(s, i)
    BY <2>1 DEF WellChunked
  <2>3. CASE i = p - 1
    <3>1. r # 0
      <4> SUFFICES ASSUME r = 0 PROVE FALSE
        OBVIOUS
      <4>1. Alone(s, p) /\ p # 1
        BY <1>1, <2>3
      <4> QED
        BY <2>1, <2>3, <4>1 DEF Alone
    <3>2. s[i].key = key /\ s[i].number = 0 + p - i
      <4>1. p - r <= i /\ i < p /\ i \in Nat
        BY <1>1, <1>2, <2>3, <3>1
      <4> QED
        BY <1>1, <4>1
    <3>3. i + 1 = p /\ s[i].number = 1
      BY <1>1, <2>3, <3>2
    <3>4. Leads(t, i)
      BY <1>3, <1>5, <2>1, <3>2, <3>3 DEF Leads
    <3> QED
      BY <2>1, <2>2, <3>4
  <2>4. CASE i # p - 1
    <3>1. i < Len(s) => i + 1 \in 1 .. Len(s) /\ i + 1 # p
      BY <1>1, <2>4
    <3>2. i < Len(s) => t[i + 1] = s[i + 1]
      BY <3>1, <1>3
    <3>3. i < Len(s) => Leads(t, i)
      BY <2>1, <2>2, <3>2 DEF Leads, IsChunk, IsEntry
    <3> QED
      BY <2>1, <2>2, <3>3
  <2> QED
    BY <2>3, <2>4
<1>9. \A i \in 1 .. Len(s) : IsEntry(t, i) => i = p \/ (t[i] = s[i] /\ IsEntry(s, i) /\ t[i].key # key)
  BY <1>1, <1>3 DEF IsEntry, Unused
<1>10. WellNamed(t)
  <2>1. ASSUME NEW i \in 1 .. Len(s), IsEntry(t, i) PROVE \E m \in Names : KeyOf(m, t[i].key)
    <3>1. CASE i = p
      BY <1>1, <1>3, <3>1
    <3>2. CASE i # p
      BY <1>9, <2>1, <3>2 DEF WellNamed
    <3> QED
      BY <3>1, <3>2
  <2>2. ASSUME NEW i \in 1 .. Len(s), NEW j \in 1 .. Len(s), IsEntry(t, i), IsEntry(t, j), t[i].key = t[j].key
        PROVE  i = j
    <3>1. CASE i = p \/ j = p
      BY <1>3, <1>9, <2>2, <3>1
    <3>2. CASE i # p /\ j # p
      <4>1. t[i] = s[i] /\ IsEntry(s, i) /\ t[j] = s[j] /\ IsEntry(s, j)
        BY <1>9, <2>2, <3>2
      <4> QED
        BY <2>2, <4>1 DEF WellNamed
    <3> QED
      BY <3>1, <3>2
  <2> QED
    BY <1>3, <2>1, <2>2 DEF WellNamed
<1>11. ASSUME NEW m \in Names, NEW x \in Ends(t), Matches(t, x, m)
       PROVE  x \in Ends(s) /\ ((Matches(s, x, m) /\ m # n) \/ (m = n /\ x = p))
  <2>1. x \in 1 .. Len(s) /\ x \in Ends(s)
    BY <1>7 DEF Ends
  <2>2. CASE Matches(s, x, m)
    BY <1>1, <2>1, <2>2
  <2>3. CASE ~Matches(s, x, m)
    <3>1. ~Spells(t, x, m)
      <4> SUFFICES ASSUME Spells(t, x, m) PROVE FALSE
        OBVIOUS
      <4>0. x \in Nat
        BY <2>1
      <4>1. x > 1 /\ IsChunk(t, x - 1)
        BY <4>0, SpellsEnd
      <4>2. x - 1 \in 1 .. Len(s) /\ IsChunk(s, x - 1)
        BY <1>6, <2>1, <4>1
      <4>3. x <= p
        <5> SUFFICES ASSUME x > p PROVE FALSE
          BY <1>1, <2>1
        <5>1. x - 1 >= p
          BY <1>1, <2>1
        <5>2. s[x - 1] = FreeSlot
          BY <1>1, <4>2, <5>1
        <5> QED
          BY <1>4, <4>2, <5>2 DEF IsChunk
      <4>4. \A i \in 1 .. x - 1 : t[i] = s[i]
        BY <1>1, <1>3, <2>1, <4>3
      <4>5. Spells(s, x, m)
        BY <2>1, <4>4, SpellsSame
      <4> QED
        BY <2>3, <4>5 DEF Matches
    <3>2. ShortReads(t, x, m)
      BY <1>11, <3>1 DEF Matches
    <3>3. x = p
      BY <1>3, <2>1, <2>3, <3>2, ShortReadsSame DEF Matches
    <3>4. key = <<Base[m], 0>> /\ m \notin Tilde
      BY <1>3, <3>2, <3>3 DEF ShortReads
    <3>5. KeyOf(m, key)
      BY <3>4, NumbersFacts DEF KeyOf
    <3>6. m = n
      BY <1>1, <3>4, <3>5, SameKey
    <3> QED
      BY <2>1, <3>3, <3>6
  <2> QED
    BY <2>2, <2>3
<1>12. OneMatch(t)
  <2> SUFFICES ASSUME NEW m \in Names, NEW x \in Ends(t), NEW y \in Ends(t), Matches(t, x, m), Matches(t, y, m)
               PROVE  x = y
    BY DEF OneMatch
  <2>1. CASE m = n
    BY <1>11, <2>1
  <2>2. CASE m # n
    <3>1. x \in Ends(s) /\ Matches(s, x, m) /\ y \in Ends(s) /\ Matches(s, y, m)
      BY <1>11, <2>2
    <3> QED
      BY <3>1 DEF OneMatch
  <2> QED
    BY <2>1, <2>2
<1>13. TailFree(t, 0)
  <2> SUFFICES ASSUME NEW i \in Starts(t), NEW j \in i .. Len(s) PROVE t[j] = FreeSlot
    BY <1>3 DEF TailFree
  <2>1. i \in 1 .. Len(s) /\ t[i].type = "free" /\ Alone(t, i)
    BY <1>3 DEF Starts, Ends
  <2>2. i # p
    BY <1>3, <1>4, <2>1
  <2>3. i > p
    <3> SUFFICES ASSUME i < p PROVE FALSE
      BY <1>1, <2>1, <2>2
    <3>1. t[i] = s[i] /\ (i # 1 => t[i - 1] = s[i - 1])
      <4>1. i # 1 => i - 1 \in 1 .. Len(s) /\ i - 1 # p
        BY <1>1, <2>1
      <4> QED
        BY <1>3, <2>1, <4>1
    <3>2. i \in Starts(s)
      BY <2>1, <3>1 DEF Starts, Ends, Alone, IsChunk
    <3> QED
      BY <1>1, <2>1, <3>2
  <2>4. j \in 1 .. Len(s) /\ j >= p /\ j # p
    BY <1>1, <2>1, <2>3
  <2> QED
    BY <1>1, <1>3, <2>4
<1>14. Sound(t, 0)
  BY <1>8, <1>10, <1>12, <1>13
<1> QED
  BY <1>11, <1>14

-----------------------------------------------------------------------------
\* An empty cluster at the end.
Grown(s, t) ==
    /\ Len(t) = Len(s) + ClusterSlots
    /\ \A i \in 1 .. Len(t) : t[i] = IF i <= Len(s) THEN s[i] ELSE FreeSlot

LEMMA GrownSound ==
    ASSUME NEW s, NEW t, NEW n \in Names, NEW left, NEW key, NEW p, p > Len(s),
           Sound(s, 0), Typed(t), Placing(s, p, n, left, key), Grown(s, t)
    PROVE  Sound(t, 0) /\ Placing(t, p, n, left, key)
<1> DEFINE r == Chunks[n] - left
<1>1. /\ Len(s) \in Nat /\ p \in Nat /\ p = Len(s) + 1
      /\ left \in Nat /\ Chunks[n] \in Nat /\ left <= Chunks[n] /\ p > r
      /\ \A j \in Nat : p - r <= j /\ j < p =>
            IsChunk(s, j) /\ s[j].name = n /\ s[j].key = key /\ s[j].number = left + p - j
      /\ Alone(s, p - r)
      /\ KeyOf(n, key) /\ Unused(s, key)
      /\ \A i \in Starts(s) : p <= i
      /\ \A x \in Ends(s) : Matches(s, x, n) => x = p /\ left = 0
  <2>1. Typed(s)
    BY DEF Sound
  <2>2. /\ Len(s) \in Nat /\ p \in Nat /\ 1 <= p /\ p <= Len(s) + 1
        /\ left \in Nat /\ Chunks[n] \in Nat /\ left <= Chunks[n] /\ p > Chunks[n] - left
        /\ \A j \in 1 .. Len(s) : j >= p => s[j] = FreeSlot
        /\ \A j \in Nat : p - (Chunks[n] - left) <= j /\ j < p =>
              IsChunk(s, j) /\ s[j].name = n /\ s[j].key = key /\ s[j].number = left + p - j
        /\ Alone(s, p - (Chunks[n] - left))
        /\ KeyOf(n, key) /\ Unused(s, key)
        /\ \A i \in Starts(s) : p <= i
        /\ \A x \in Ends(s) : Matches(s, x, n) => x = p /\ left = 0
    BY <2>1, PlacingFacts
  <2>3. p = Len(s) + 1
    BY <2>2
  <2> QED
    BY <2>2, <2>3, Zenon
<1> HIDE DEF r
<1> USE DEF Sound
<1>2. r = Chunks[n] - left /\ r \in Nat
  BY <1>1 DEF r
<1>3. /\ Len(t) \in Nat /\ Len(t) = Len(s) + ClusterSlots /\ ClusterSlots \in Nat /\ Len(s) < Len(t)
      /\ \A i \in 1 .. Len(t) : i <= Len(s) => t[i] = s[i]
      /\ \A i \in 1 .. Len(t) : i > Len(s) => t[i] = FreeSlot
      /\ 1 .. Len(s) \subseteq 1 .. Len(t)
  BY <1>1, Constants DEF Grown
<1>4. FreeSlot.type = "free"
  BY SlotFacts
<1>5. \A i \in 1 .. Len(t) : t[i].type # "free" => i \in 1 .. Len(s) /\ t[i] = s[i]
  BY <1>1, <1>3, <1>4
<1>6. WellChunked(t)
  <2> SUFFICES ASSUME NEW i \in 1 .. Len(t), IsChunk(t, i)
               PROVE  /\ t[i].name \in Names /\ t[i].number \in 1 .. Chunks[t[i].name]
                      /\ KeyOf(t[i].name, t[i].key)
                      /\ Leads(t, i)
    BY DEF WellChunked
  <2>1. i \in 1 .. Len(s) /\ t[i] = s[i] /\ IsChunk(s, i)
    BY <1>5 DEF IsChunk
  <2>2. /\ s[i].name \in Names /\ s[i].number \in 1 .. Chunks[s[i].name]
        /\ KeyOf(s[i].name, s[i].key)
        /\ i < Len(s) => Leads(s, i)
    BY <2>1 DEF WellChunked
  <2>3. Leads(t, i)
    <3>1. i + 1 \in 1 .. Len(t)
      BY <1>1, <1>3, <2>1
    <3>2. CASE i < Len(s)
      <4>1. t[i + 1] = s[i + 1]
        BY <1>1, <1>3, <2>1, <3>1, <3>2
      <4> QED
        BY <2>1, <2>2, <3>2, <4>1 DEF Leads, IsChunk, IsEntry
    <3>3. CASE ~(i < Len(s))
      <4>1. t[i + 1] = FreeSlot
        BY <1>1, <1>3, <2>1, <3>1, <3>3
      <4> QED
        BY <1>4, <4>1 DEF Leads
    <3> QED
      BY <3>2, <3>3
  <2> QED
    BY <2>1, <2>2, <2>3
<1>7. \A i \in 1 .. Len(t) : IsEntry(t, i) => i \in 1 .. Len(s) /\ t[i] = s[i] /\ IsEntry(s, i)
  BY <1>5 DEF IsEntry, EntryTypes
<1>8. WellNamed(t) /\ Unused(t, key)
  <2>1. ASSUME NEW i \in 1 .. Len(t), IsEntry(t, i)
        PROVE (\E m \in Names : KeyOf(m, t[i].key)) /\ t[i].key # key
    BY <1>1, <1>7, <2>1 DEF WellNamed, Unused
  <2>2. ASSUME NEW i \in 1 .. Len(t), NEW j \in 1 .. Len(t), IsEntry(t, i), IsEntry(t, j), t[i].key = t[j].key
        PROVE  i = j
    BY <1>7, <2>2 DEF WellNamed
  <2> QED
    BY <2>1, <2>2 DEF WellNamed, Unused
<1>9. ASSUME NEW m \in Names, NEW x \in Ends(t), Matches(t, x, m)
      PROVE  \/ x \in Ends(s) /\ Matches(s, x, m) /\ m # n
             \/ m = n /\ x = p /\ left = 0
  <2>1. x \in 1 .. Len(t) /\ ~IsChunk(t, x)
    BY DEF Ends
  <2>2. CASE x <= Len(s)
    <3>1. x \in 1 .. Len(s) /\ t[x] = s[x] /\ x \in Ends(s)
      BY <1>1, <1>3, <2>1, <2>2 DEF Ends, IsChunk
    <3>2. \A i \in 1 .. x - 1 : t[i] = s[i]
      BY <1>1, <1>3, <3>1
    <3>3. Matches(s, x, m)
      BY <1>9, <3>1, <3>2, SpellsSame, ShortReadsSame DEF Matches
    <3> QED
      BY <1>1, <2>2, <3>1, <3>3
  <2>3. CASE x > Len(s)
    <3>1. t[x] = FreeSlot
      BY <1>3, <2>1, <2>3
    <3>2. Spells(t, x, m)
      BY <1>4, <1>9, <3>1 DEF Matches, ShortReads, IsEntry, EntryTypes
    <3>3. x > 1 /\ IsChunk(t, x - 1) /\ t[x - 1].name = m /\ t[x - 1].number = 1
      BY <2>1, <3>2, SpellsEnd
    <3>4. x - 1 \in 1 .. Len(t)
      BY <1>3, <2>1, <3>3
    <3>5. x - 1 \in 1 .. Len(s) /\ t[x - 1] = s[x - 1]
      BY <1>5, <3>3, <3>4 DEF IsChunk
    <3>6. x = p /\ IsChunk(s, p - 1) /\ s[p - 1].name = m /\ s[p - 1].number = 1 /\ p - 1 \in Nat /\ p # 1
      BY <1>1, <2>1, <2>3, <3>3, <3>5 DEF IsChunk
    <3>7. r # 0
      <4> SUFFICES ASSUME r = 0 PROVE FALSE
        OBVIOUS
      <4>1. Alone(s, p)
        BY <1>1
      <4> QED
        BY <3>6, <4>1 DEF Alone
    <3>8. p - r <= p - 1 /\ p - 1 < p
      BY <1>1, <1>2, <3>7
    <3>9. s[p - 1].name = n /\ s[p - 1].number = left + p - (p - 1)
      BY <1>1, <3>6, <3>8
    <3>10. left = 0
      <4>1. left + p - (p - 1) = left + 1
        BY <1>1
      <4> QED
        BY <1>1, <3>6, <3>9, <4>1
    <3> QED
      BY <3>6, <3>9, <3>10
  <2> QED
    BY <1>1, <2>1, <2>2, <2>3
<1>10. OneMatch(t)
  <2> SUFFICES ASSUME NEW m \in Names, NEW x \in Ends(t), NEW y \in Ends(t), Matches(t, x, m), Matches(t, y, m)
               PROVE  x = y
    BY DEF OneMatch
  <2>1. CASE m = n
    BY <1>9, <2>1
  <2>2. CASE m # n
    <3>1. x \in Ends(s) /\ Matches(s, x, m) /\ y \in Ends(s) /\ Matches(s, y, m)
      BY <1>9, <2>2
    <3> QED
      BY <3>1 DEF OneMatch
  <2> QED
    BY <2>1, <2>2
<1>11. \A i \in Starts(t) : p <= i
  <2> SUFFICES ASSUME NEW i \in Starts(t), i < p PROVE FALSE
    BY <1>1, <1>3 DEF Starts, Ends
  <2>1. i \in 1 .. Len(s) /\ t[i].type = "free" /\ Alone(t, i)
    BY <1>1, <1>3 DEF Starts, Ends
  <2>2. t[i] = s[i] /\ (i # 1 => t[i - 1] = s[i - 1])
    <3>1. i # 1 => i - 1 \in 1 .. Len(s)
      BY <1>1, <2>1
    <3> QED
      BY <1>3, <2>1, <3>1
  <2>3. i \in Starts(s)
    BY <2>1, <2>2 DEF Starts, Ends, Alone, IsChunk
  <2> QED
    BY <1>1, <2>1, <2>3
<1>12. TailFree(t, 0)
  <2> SUFFICES ASSUME NEW i \in Starts(t), NEW j \in i .. Len(t) PROVE t[j] = FreeSlot
    BY DEF TailFree
  <2>1. i \in 1 .. Len(t) /\ p <= i
    BY <1>11 DEF Starts, Ends
  <2>2. j \in 1 .. Len(t) /\ j > Len(s)
    BY <1>1, <1>3, <2>1
  <2> QED
    BY <1>3, <2>2
<1>13. Placing(t, p, n, left, key)
  <2>1. p \in 1 .. Len(t) + 1 /\ left \in 0 .. Chunks[n] /\ p > r
    BY <1>1, <1>3
  <2>2. \A j \in p .. Len(t) : t[j] = FreeSlot
    BY <1>1, <1>3
  <2>3. \A j \in p - r .. p - 1 : IsChunk(t, j) /\ t[j].name = n /\ t[j].key = key /\ t[j].number = left + p - j
    <3> TAKE j \in p - r .. p - 1
    <3>1. j \in Nat /\ p - r <= j /\ j < p /\ j \in 1 .. Len(s)
      BY <1>1, <1>2
    <3>2. t[j] = s[j]
      BY <1>3, <3>1
    <3> QED
      BY <1>1, <3>1, <3>2 DEF IsChunk
  <2>4. Alone(t, p - r)
    <3>1. CASE p - r = 1
      BY <3>1 DEF Alone
    <3>2. CASE p - r # 1
      <4>1. p - r - 1 \in 1 .. Len(s)
        BY <1>1, <1>2, <3>2
      <4>2. t[p - r - 1] = s[p - r - 1]
        BY <1>3, <4>1
      <4> QED
        BY <1>1, <4>2, <3>2 DEF Alone, IsChunk
    <3> QED
      BY <3>1, <3>2
  <2>5. \A x \in Ends(t) : Matches(t, x, n) => x = p /\ left = 0
    BY <1>9
  <2>6. KeyOf(n, key) /\ Unused(t, key)
    BY <1>1, <1>8
  <2> QED
    BY <1>2, <1>11, <2>1, <2>2, <2>3, <2>4, <2>5, <2>6, PlacingIs
<1> QED
  BY <1>6, <1>8, <1>10, <1>12, <1>13

-----------------------------------------------------------------------------
\* Looking names up.
LEMMA EndsFacts ==
    ASSUME NEW s, Typed(s)
    PROVE  Ends(s) \subseteq 1 .. Len(s) /\ Ends(s) \subseteq Nat /\ Starts(s) \subseteq Ends(s)
BY TypedFacts DEF Ends, Starts

LEMMA FindFacts ==
    ASSUME NEW s, Typed(s), NEW n
    PROVE  /\ Find(s, n) # 0 => Find(s, n) \in Ends(s) /\ Matches(s, Find(s, n), n)
           /\ Find(s, n) = 0 => Unmatched(s, n)
           /\ Stat(s, n) # 0 => Stat(s, n) \in Ends(s) /\ Shows(s, Stat(s, n), n)
           /\ Stat(s, n) = 0 => \A e \in Ends(s) : ~Shows(s, e, n)
<1> DEFINE found == {e \in Ends(s) : Matches(s, e, n)}
           shown == {e \in Ends(s) : Shows(s, e, n)}
<1>1. Ends(s) \subseteq Nat /\ 0 \notin Ends(s)
  BY EndsFacts
<1>2. found # {} => Min(found) \in found
  BY <1>1, LeastElement
<1>3. shown # {} => Min(shown) \in shown
  BY <1>1, LeastElement
<1>4. Find(s, n) = IF found = {} THEN 0 ELSE Min(found)
  BY DEF Find
<1>5. Stat(s, n) = IF shown = {} THEN 0 ELSE Min(shown)
  BY DEF Stat
<1> QED
  BY <1>1, <1>2, <1>3, <1>4, <1>5 DEF Unmatched

LEMMA ShownMatches ==
    ASSUME NEW s, NEW e, NEW n, Shows(s, e, n)
    PROVE  Matches(s, e, n)
BY DEF Shows, Matches

LEMMA StatIsFind ==
    ASSUME NEW s, Typed(s), OneMatch(s), NEW n \in Names, Stat(s, n) # 0
    PROVE  Find(s, n) = Stat(s, n)
<1>1. Stat(s, n) \in Ends(s) /\ Matches(s, Stat(s, n), n)
  BY FindFacts, ShownMatches
<1>2. Find(s, n) # 0
  BY <1>1, FindFacts DEF Unmatched
<1> QED
  BY <1>1, <1>2, FindFacts DEF OneMatch

\* A group begins behind the last slot that is no chunk.
LEMMA BeginFacts ==
    ASSUME NEW s, Typed(s), NEW e \in Ends(s)
    PROVE  /\ Begin(s, e) \in 1 .. e /\ Begin(s, e) \in Nat
           /\ \A i \in Begin(s, e) .. e - 1 : IsChunk(s, i)
           /\ Alone(s, Begin(s, e))
<1> DEFINE S == {i \in 1 .. e : \A j \in i .. e - 1 : IsChunk(s, j)}
<1>1. e \in 1 .. Len(s) /\ Len(s) \in Nat
  BY TypedFacts DEF Ends
<1>2. e \in S /\ S \subseteq Nat
  BY <1>1
<1> DEFINE b == Begin(s, e)
<1>3. b \in S /\ \A i \in S : b <= i
  <2>1. b = Min(S)
    BY DEF Begin
  <2> QED
    BY <1>2, <2>1, LeastElement
<1> HIDE DEF b
<1>4. b \in 1 .. e /\ \A j \in b .. e - 1 : IsChunk(s, j)
  BY <1>3
<1>5. Alone(s, b)
  <2> SUFFICES ASSUME b # 1, IsChunk(s, b - 1) PROVE FALSE
    BY DEF Alone
  <2>1. b - 1 \in 1 .. e /\ ~(b <= b - 1)
    BY <1>1, <1>4
  <2>2. ASSUME NEW j \in b - 1 .. e - 1 PROVE IsChunk(s, j)
    <3>1. j = b - 1 \/ j \in b .. e - 1
      BY <1>1, <1>4
    <3> QED
      BY <1>4, <3>1
  <2>3. b - 1 \in S
    BY <2>1, <2>2
  <2> QED
    BY <1>3, <2>1, <2>3
<1> QED
  BY <1>1, <1>4, <1>5 DEF b

LEMMA MatchedGroup ==
    ASSUME NEW s, Typed(s), WellChunked(s), NEW n \in Names, NEW e \in Ends(s), Matches(s, e, n)
    PROVE  Group(s, Begin(s, e), e)
<1>1. /\ Begin(s, e) \in 1 .. e /\ Begin(s, e) \in Nat
      /\ \A i \in Begin(s, e) .. e - 1 : IsChunk(s, i)
      /\ Alone(s, Begin(s, e))
  BY BeginFacts
<1>2. e \in 1 .. Len(s) /\ Len(s) \in Nat /\ ~IsChunk(s, e)
  BY TypedFacts DEF Ends
<1>3. IsEntry(s, e) \/ (s[e].type = "free" /\ e > 1 /\ s[e - 1].type \in {"chunk", "deleted"})
  <2>1. CASE ShortReads(s, e, n)
    BY <2>1 DEF ShortReads
  <2>2. CASE Spells(s, e, n)
    <3>1. e > 1 /\ IsChunk(s, e - 1)
      BY <1>2, <2>2, SpellsEnd
    <3>2. Leads(s, e - 1)
      <4>1. e - 1 \in 1 .. Len(s) /\ e - 1 < Len(s)
        BY <1>2, <3>1
      <4> QED
        BY <3>1, <4>1 DEF WellChunked
    <3>3. (e - 1) + 1 = e
      BY <1>2
    <3>4. IsEntry(s, e) \/ s[e].type = "free"
      BY <1>2, <3>2, <3>3 DEF Leads
    <3> QED
      BY <3>1, <3>4 DEF IsChunk
  <2> QED
    BY <2>1, <2>2 DEF Matches
<1> QED
  BY <1>1, <1>2, <1>3 DEF Group

\* Where the search may stop, the rest of the directory is free.
LEMMA PlacingBegins ==
    ASSUME NEW s, NEW n \in Names, NEW key, Sound(s, 0), ~IsChunk(s, Len(s)), Len(s) > 0,
           Unmatched(s, n), Unused(s, key), KeyOf(n, key)
    PROVE  /\ Starts(s) # {} => /\ Min(Starts(s)) \in 1 .. Len(s)
                                /\ Placing(s, Min(Starts(s)), n, Chunks[n], key)
           /\ Starts(s) = {} => Placing(s, Len(s) + 1, n, Chunks[n], key)
<1> USE DEF Sound
<1>1. Len(s) \in Nat /\ Chunks[n] \in Nat /\ Starts(s) \subseteq 1 .. Len(s) /\ Starts(s) \subseteq Nat
  BY TypedFacts, EndsFacts, Constants
<1>2. Chunks[n] - Chunks[n] = 0 /\ Chunks[n] \in 0 .. Chunks[n]
  BY <1>1
<1>3. ASSUME NEW p \in 1 .. Len(s) + 1, \A j \in p .. Len(s) : s[j] = FreeSlot, Alone(s, p),
             \A i \in Starts(s) : p <= i
      PROVE  Placing(s, p, n, Chunks[n], key)
  <2> DEFINE r == Chunks[n] - Chunks[n]
  <2>1. r = 0
    BY <1>2
  <2> HIDE DEF r
  <2>2. p - r = p /\ p > r
    BY <1>1, <2>1
  <2>3. \A j \in p - r .. p - 1 :
            IsChunk(s, j) /\ s[j].name = n /\ s[j].key = key /\ s[j].number = Chunks[n] + p - j
    BY <1>1, <2>2
  <2>4. Alone(s, p - r) /\ r = Chunks[n] - Chunks[n]
    BY <1>3, <2>2 DEF r
  <2>5. \A x \in Ends(s) : Matches(s, x, n) => x = p /\ Chunks[n] = 0
    BY DEF Unmatched
  <2> QED
    BY <1>2, <1>3, <2>2, <2>3, <2>4, <2>5, PlacingIs
<1>4. ASSUME Starts(s) # {}
      PROVE  Min(Starts(s)) \in 1 .. Len(s) /\ Placing(s, Min(Starts(s)), n, Chunks[n], key)
  <2>1. Min(Starts(s)) \in Starts(s) /\ \A i \in Starts(s) : Min(Starts(s)) <= i
    BY <1>1, <1>4, LeastElement
  <2>2. PICK p : p = Min(Starts(s))
    OBVIOUS
  <2>3. p \in 1 .. Len(s) + 1 /\ p # 0 /\ Alone(s, p) /\ p \in 1 .. Len(s)
    BY <1>1, <2>1, <2>2 DEF Starts
  <2>4. \A j \in p .. Len(s) : s[j] = FreeSlot
    BY <2>1, <2>2, <2>3 DEF TailFree
  <2> QED
    BY <1>3, <2>1, <2>2, <2>3, <2>4
<1>5. ASSUME Starts(s) = {} PROVE Placing(s, Len(s) + 1, n, Chunks[n], key)
  <2>1. Len(s) + 1 \in 1 .. Len(s) + 1
    BY <1>1
  <2>2. \A j \in Len(s) + 1 .. Len(s) : s[j] = FreeSlot
    BY <1>1
  <2>3. Alone(s, Len(s) + 1)
    <3>1. (Len(s) + 1) - 1 = Len(s)
      BY <1>1
    <3> QED
      BY <3>1 DEF Alone
  <2> QED
    BY <1>3, <1>5, <2>1, <2>2, <2>3
<1> QED
  BY <1>4, <1>5

\* The short name that is made up is free.
LEMMA ShortNameUnused ==
    ASSUME NEW s, Typed(s), WellNamed(s), NEW n \in Names, Unmatched(s, n),
           Len(s) <= NumClusters * ClusterSlots
    PROVE  KeyOf(n, ShortName(s, n)) /\ Unused(s, ShortName(s, n))
<1>1. Len(s) \in Nat
  BY TypedFacts
<1>2. \A e \in 1 .. Len(s) : IsEntry(s, e) => e \in Ends(s)
  BY DEF Ends, IsEntry, EntryTypes, IsChunk
<1>3. CASE n \notin Tilde
  <2>1. ShortName(s, n) = <<Base[n], 0>>
    BY <1>3 DEF ShortName
  <2>2. KeyOf(n, <<Base[n], 0>>)
    BY <1>3, NumbersFacts DEF KeyOf
  <2>3. Unused(s, <<Base[n], 0>>)
    BY <1>2, <1>3 DEF Unused, Unmatched, Matches, ShortReads
  <2> QED
    BY <2>1, <2>2, <2>3
<1>4. CASE n \in Tilde
  <2> DEFINE E == {e \in Ends(s) : IsEntry(s, e) /\ s[e].key[1] = Base[n]}
             U == {s[e].key[2] : e \in E}
             S == 1 .. Cardinality(U) + 1 \ U
             k == Min(S)
  <2>1. UsedNumbers(s, n) = U
    BY DEF UsedNumbers
  <2>2. ShortName(s, n) = <<Base[n], k>>
    BY <1>4, <2>1 DEF ShortName
  <2>3. IsFiniteSet(1 .. Len(s)) /\ Cardinality(1 .. Len(s)) = Len(s)
    BY <1>1, FS_Interval, SMTT(60)
  <2>4. E \subseteq 1 .. Len(s)
    BY EndsFacts
  <2>5. IsFiniteSet(E) /\ Cardinality(E) \in Nat /\ Cardinality(E) <= Len(s)
    <3>1. IsFiniteSet(E) /\ Cardinality(E) <= Cardinality(1 .. Len(s))
      BY <2>3, <2>4, FS_Subset
    <3> QED
      BY <2>3, <3>1, FS_CardinalityType
  <2> DEFINE f == [e \in E |-> s[e].key[2]]
  <2>6. f \in Surjection(E, U)
    BY DEF Surjection
  <2>7. IsFiniteSet(U) /\ Cardinality(U) <= Cardinality(E) /\ Cardinality(U) \in Nat
    <3> HIDE DEF E, U, f
    <3>1. IsFiniteSet(U) /\ Cardinality(U) <= Cardinality(E)
      BY <2>5, <2>6, FS_Surjection
    <3> QED
      BY <3>1, FS_CardinalityType
  <2> HIDE DEF E, U, f
  <2>8. PICK c \in Nat : c = Cardinality(U) /\ c <= Len(s)
    BY <1>1, <2>5, <2>7
  <2>9. IsFiniteSet(1 .. c + 1) /\ Cardinality(1 .. c + 1) = c + 1
    BY FS_Interval
  <2>10. S # {}
    <3> SUFFICES ASSUME 1 .. c + 1 \subseteq U PROVE FALSE
      BY <2>8
    <3>1. c + 1 <= c
      BY <2>7, <2>8, <2>9, FS_Subset
    <3> QED
      BY <3>1
  <2>11. k \in S
    <3>1. S \subseteq Nat
      BY <2>8
    <3> QED
      BY <2>10, <3>1, LeastElement
  <2> HIDE DEF k
  <2>12. k \in 1 .. c + 1 /\ k \notin U
    BY <2>8, <2>11
  <2>13. k \in Numbers /\ k # 0
    <3>1. PICK m \in Nat : m = NumClusters * ClusterSlots
      BY Constants
    <3>2. k \in 0 .. m + 1 /\ k # 0
      BY <1>1, <2>8, <2>12, <3>1
    <3> QED
      BY <3>1, <3>2 DEF Numbers
  <2>14. KeyOf(n, <<Base[n], k>>)
    BY <1>4, <2>13 DEF KeyOf
  <2>15. Unused(s, <<Base[n], k>>)
    <3> SUFFICES ASSUME NEW e \in 1 .. Len(s), IsEntry(s, e), s[e].key = <<Base[n], k>> PROVE FALSE
      BY DEF Unused
    <3>1. s[e].key[1] = Base[n] /\ s[e].key[2] = k
      BY SMT
    <3>2. e \in E
      BY <1>2, <3>1 DEF E
    <3>3. k \in U
      BY <3>1, <3>2 DEF U
    <3> QED
      BY <2>12, <3>3
  <2> QED
    BY <2>2, <2>14, <2>15
<1> QED
  BY <1>3, <1>4

LEMMA SoundExempt ==
    ASSUME NEW s, NEW x, Sound(s, 0)
    PROVE  Sound(s, x)
<1>1. TailFree(s, x)
  <2>1. 0 \notin Starts(s)
    <3>1. Typed(s)
      BY DEF Sound
    <3>2. Starts(s) \subseteq 1 .. Len(s) /\ Len(s) \in Nat
      BY <3>1, EndsFacts, TypedFacts
    <3> QED
      BY <3>2
  <2> QED
    BY <2>1 DEF Sound, TailFree
<1> QED
  BY <1>1 DEF Sound

LEMMA WipedNames ==
    ASSUME NEW s, NEW t, Typed(s), WellChunked(s), NEW p \in Nat, NEW e \in Nat, NEW l \in p .. e,
           Group(s, p, e), Wiped(s, t, p, l), NEW n \in Names, NEW key
    PROVE  /\ Unmatched(s, n) => Unmatched(t, n)
           /\ Unused(s, key) => Unused(t, key)
           /\ (\A x \in Ends(s) : Matches(s, x, n) => x = e) =>
                 \A x \in Ends(t) : Matches(t, x, n) => x = e /\ l < e
<1>1. Unmatched(s, n) => Unmatched(t, n)
  BY WipedMatches DEF Unmatched
<1>2. /\ Len(t) = Len(s) /\ Len(s) \in Nat /\ 1 <= p /\ p <= l /\ l <= e /\ e <= Len(s)
      /\ \A i \in 1 .. Len(s) : t[i].type # "deleted" => t[i] = s[i] /\ i \notin p .. l
  BY WipedFacts
<1>3. Unused(s, key) => Unused(t, key)
  BY <1>2 DEF Unused, IsEntry, EntryTypes
<1>4. ASSUME \A x \in Ends(s) : Matches(s, x, n) => x = e, NEW x \in Ends(t), Matches(t, x, n)
      PROVE  x = e /\ l < e
  <2>1. x \in Ends(s) /\ x \notin p .. l /\ Matches(s, x, n)
    BY <1>4, WipedMatches
  <2>2. x = e
    BY <1>4, <2>1
  <2> QED
    BY <1>2, <2>1, <2>2
<1> QED
  BY <1>1, <1>3, <1>4

\* A directory in which nothing is.
LEMMA BlankSound ==
    ASSUME NEW t, Typed(t),
           \A i \in 1 .. Len(t) : t[i].type \in {"free", "dot"},
           \A i, j \in 1 .. Len(t) : i < j /\ t[i].type = "free" => t[j].type = "free"
    PROVE  Sound(t, 0)
<1>1. Len(t) \in Nat /\ \A i \in 1 .. Len(t) : t[i].type = "free" => t[i] = FreeSlot
  BY TypedFacts
<1>2. \A i \in 1 .. Len(t) : ~IsChunk(t, i) /\ ~IsEntry(t, i)
  BY DEF IsChunk, IsEntry, EntryTypes
<1>3. WellChunked(t) /\ WellNamed(t)
  BY <1>2 DEF WellChunked, WellNamed
<1>4. OneMatch(t)
  <2> SUFFICES ASSUME NEW n \in Names, NEW x \in Ends(t), Matches(t, x, n) PROVE FALSE
    BY DEF OneMatch
  <2>1. x \in 1 .. Len(t)
    BY DEF Ends
  <2>2. ~ShortReads(t, x, n)
    BY <1>2, <2>1 DEF ShortReads
  <2>3. Spells(t, x, n) /\ x \in Nat
    BY <2>1, <2>2 DEF Matches
  <2>4. x > 1 /\ IsChunk(t, x - 1)
    BY <2>3, SpellsEnd
  <2>5. x - 1 \in 1 .. Len(t)
    BY <1>1, <2>1, <2>4
  <2> QED
    BY <1>2, <2>4, <2>5
<1>5. TailFree(t, 0)
  <2> SUFFICES ASSUME NEW i \in Starts(t), NEW j \in i .. Len(t) PROVE t[j] = FreeSlot
    BY DEF TailFree
  <2>1. i \in 1 .. Len(t) /\ t[i].type = "free"
    BY DEF Starts, Ends
  <2>2. j \in 1 .. Len(t) /\ (i = j \/ i < j)
    BY <1>1, <2>1
  <2> QED
    BY <1>1, <2>1, <2>2
<1> QED
  BY <1>3, <1>4, <1>5 DEF Sound

\* All chunks of an entry's group have the key of the entry: the last one that had
\* not would lead to one that has.
LEMMA KeysAgree ==
    ASSUME NEW s, Typed(s), WellChunked(s), NEW e \in Ends(s), IsEntry(s, e),
           NEW i \in Begin(s, e) .. e - 1
    PROVE  s[i].key = s[e].key
<1>1. /\ Begin(s, e) \in 1 .. e /\ Begin(s, e) \in Nat
      /\ \A j \in Begin(s, e) .. e - 1 : IsChunk(s, j)
  BY BeginFacts
<1>2. e \in 1 .. Len(s) /\ Len(s) \in Nat
  BY TypedFacts DEF Ends
<1> DEFINE b == Begin(s, e)
           S == {j \in b .. e - 1 : s[j].key # s[e].key}
<1> HIDE DEF b
<1>3. b \in Nat /\ 1 <= b /\ b <= e /\ \A j \in b .. e - 1 : IsChunk(s, j)
  BY <1>1 DEF b
<1> SUFFICES ASSUME S # {} PROVE FALSE
  BY DEF b
<1>4. Max(S) \in S /\ \A j \in S : j <= Max(S)
  <2>1. S \subseteq 0 .. e
    BY <1>2, <1>3
  <2>2. S # {} /\ e \in Nat
    BY <1>2
  <2> HIDE DEF S
  <2> QED
    BY <2>1, <2>2, GreatestElement
<1>5. PICK m \in S : \A j \in S : j <= m
  BY <1>4
<1> HIDE DEF S
<1>6. m \in b .. e - 1 /\ s[m].key # s[e].key /\ m \in 1 .. Len(s) /\ m < Len(s)
  BY <1>2, <1>3, <1>5 DEF S
<1>7. Leads(s, m)
  BY <1>3, <1>6 DEF WellChunked
<1>8. CASE m + 1 = e
  <2>1. ~IsChunk(s, e) /\ s[e].type # "free"
    BY DEF IsEntry, EntryTypes, IsChunk
  <2> QED
    BY <1>6, <1>7, <1>8, <2>1 DEF Leads
<1>9. CASE m + 1 # e
  <2>1. m + 1 \in b .. e - 1 /\ ~(m + 1 <= m)
    BY <1>2, <1>3, <1>6, <1>9
  <2>2. IsChunk(s, m + 1) /\ s[m + 1].key = s[e].key
    BY <1>3, <1>5, <2>1 DEF S
  <2>3. s[m + 1].key = s[m].key
    BY <1>7, <2>2 DEF Leads, IsChunk, IsEntry, EntryTypes
  <2> QED
    BY <1>6, <2>2, <2>3
<1> QED
  BY <1>8, <1>9

-----------------------------------------------------------------------------
\* Slots and clusters.  The j-th slot of the k-th cluster of a directory is the one
\* at Nth(k, j).
Nth(k, j) == ClusterSlots * (k - 1) + j

LEMMA Division ==
    ASSUME NEW d \in Nat \ {0}, NEW n \in Nat
    PROVE  /\ n \div d \in Nat /\ n % d \in 0 .. d - 1
           /\ n = d * (n \div d) + (n % d)
BY Z3

LEMMA DivisionUnique ==
    ASSUME NEW d \in Nat \ {0}, NEW n \in Nat, NEW r \in 0 .. d - 1
    PROVE  (d * n + r) \div d = n /\ (d * n + r) % d = r
BY Z3

LEMMA Times ==
    ASSUME NEW a \in Nat, NEW b \in Nat, NEW d \in Nat
    PROVE  /\ d * a \in Nat
           /\ a <= b => d * a <= d * b
           /\ a < b => d * a + d <= d * b
<1>1. d * a \in Nat /\ d * b \in Nat
  OBVIOUS
<1>2. ASSUME a <= b PROVE d * a <= d * b
  <2>1. d * b = d * a + d * (b - a) /\ d * (b - a) \in Nat
    BY <1>2
  <2> QED
    BY <1>1, <2>1
<1>3. ASSUME a < b PROVE d * a + d <= d * b
  <2>1. d * b = d * a + d + d * (b - a - 1) /\ d * (b - a - 1) \in Nat
    BY <1>3
  <2> QED
    BY <1>1, <2>1
<1> QED
  BY <1>1, <1>2, <1>3

LEMMA NthRange ==
    ASSUME NEW m \in Nat, NEW k \in 1 .. m, NEW j \in 1 .. ClusterSlots
    PROVE  /\ Nth(k, j) \in 1 .. m * ClusterSlots
           /\ (Nth(k, j) - 1) \div ClusterSlots + 1 = k
           /\ ((Nth(k, j) - 1) % ClusterSlots) + 1 = j
           /\ j < ClusterSlots => Nth(k, j) + 1 = Nth(k, j + 1)
           /\ j = ClusterSlots => Nth(k, j) + 1 = Nth(k + 1, 1)
           /\ j = ClusterSlots /\ k = m => Nth(k, j) = m * ClusterSlots
           /\ Nth(k, j) = m * ClusterSlots => j = ClusterSlots /\ k = m
<1> DEFINE a == ClusterSlots * (k - 1)
<1>1. ClusterSlots \in Nat \ {0} /\ k - 1 \in Nat /\ j - 1 \in 0 .. ClusterSlots - 1 /\ ClusterSlots \in Nat
  BY Constants
<1>2. a \in Nat /\ a + ClusterSlots <= ClusterSlots * m
  BY <1>1, Times
<1>3. ClusterSlots * m = m * ClusterSlots /\ m * ClusterSlots \in Nat
  BY <1>1
<1>4. Nth(k, j) = a + j /\ Nth(k, j) - 1 = a + (j - 1)
  BY <1>1, <1>2 DEF Nth
<1>5. (a + (j - 1)) \div ClusterSlots = k - 1 /\ (a + (j - 1)) % ClusterSlots = j - 1
  BY <1>1, DivisionUnique
<1>6. ClusterSlots * ((k + 1) - 1) = a + ClusterSlots
  BY <1>1
<1>7. k < m => a + ClusterSlots + ClusterSlots <= ClusterSlots * m
  <2> SUFFICES ASSUME k < m PROVE a + ClusterSlots + ClusterSlots <= ClusterSlots * m
    OBVIOUS
  <2>1. k \in Nat /\ ClusterSlots * k + ClusterSlots <= ClusterSlots * m
    BY <1>1, Times
  <2>2. ClusterSlots * k = a + ClusterSlots
    BY <1>1
  <2> QED
    BY <2>1, <2>2
<1>8. k = m => a + ClusterSlots = ClusterSlots * m
  BY <1>1
<1> HIDE DEF a
<1>9. Nth(k, j) \in 1 .. m * ClusterSlots
  BY <1>1, <1>2, <1>3, <1>4
<1>10. (Nth(k, j) - 1) \div ClusterSlots + 1 = k /\ ((Nth(k, j) - 1) % ClusterSlots) + 1 = j
  <2>1. (Nth(k, j) - 1) \div ClusterSlots = k - 1 /\ (Nth(k, j) - 1) % ClusterSlots = j - 1
    BY <1>4, <1>5
  <2> QED
    BY <1>1, <2>1
<1>11. j < ClusterSlots => Nth(k, j) + 1 = Nth(k, j + 1)
  <2>1. Nth(k, j + 1) = a + (j + 1)
    BY DEF Nth, a
  <2> QED
    BY <1>1, <1>2, <1>4, <2>1
<1>12. j = ClusterSlots => Nth(k, j) + 1 = Nth(k + 1, 1)
  <2>1. Nth(k + 1, 1) = a + ClusterSlots + 1
    BY <1>6 DEF Nth
  <2> QED
    BY <1>1, <1>2, <1>4, <2>1
<1>13. j = ClusterSlots /\ k = m => Nth(k, j) = m * ClusterSlots
  BY <1>3, <1>4, <1>8
<1>14. Nth(k, j) = m * ClusterSlots => j = ClusterSlots /\ k = m
  BY <1>1, <1>2, <1>3, <1>4, <1>7, <1>8
<1> QED
  BY <1>9, <1>10, <1>11, <1>12, <1>13, <1>14

LEMMA NthCarry ==
    ASSUME NEW k \in Nat \ {0}
    PROVE  Nth(k, ClusterSlots) + 1 = Nth(k + 1, 1)
<1>1. ClusterSlots \in Nat
  BY Constants
<1>2. /\ ClusterSlots * ((k + 1) - 1) = ClusterSlots * (k - 1) + ClusterSlots
      /\ ClusterSlots * (k - 1) \in Nat
  BY <1>1
<1> QED
  BY <1>1, <1>2 DEF Nth

LEMMA NthExists ==
    ASSUME NEW m \in Nat, NEW i \in 1 .. m * ClusterSlots
    PROVE  \E k \in 1 .. m, j \in 1 .. ClusterSlots : i = Nth(k, j)
<1>1. ClusterSlots \in Nat \ {0} /\ i - 1 \in Nat /\ m * ClusterSlots \in Nat
  BY Constants
<1> DEFINE c == (i - 1) \div ClusterSlots
           r == (i - 1) % ClusterSlots
<1>2. c \in Nat /\ r \in 0 .. ClusterSlots - 1 /\ i - 1 = ClusterSlots * c + r
  BY <1>1, Division
<1> HIDE DEF c, r
<1>3. c < m
  <2> SUFFICES ASSUME m <= c PROVE FALSE
    BY <1>2
  <2>1. ClusterSlots * m <= ClusterSlots * c /\ ClusterSlots * c \in Nat
    BY <1>1, <1>2, Times
  <2>2. ClusterSlots * m = m * ClusterSlots
    BY <1>1
  <2> QED
    BY <1>1, <1>2, <2>1, <2>2
<1>4. c + 1 \in 1 .. m /\ r + 1 \in 1 .. ClusterSlots /\ (c + 1) - 1 = c
  BY <1>1, <1>2, <1>3
<1>5. i = Nth(c + 1, r + 1)
  <2>1. ClusterSlots * c \in Nat
    BY <1>1, <1>2
  <2> QED
    BY <1>1, <1>2, <1>4, <2>1 DEF Nth
<1> QED
  BY <1>4, <1>5

-----------------------------------------------------------------------------
\* Directories as sequences of clusters.
Linked(f, q) ==
    \A k \in 1 .. Len(q) : f[q[k]] = IF k = Len(q) THEN Eoc ELSE q[k + 1]

LEMMA ClusterFacts ==
    /\ Clusters \subseteq AnyCluster /\ Clusters \subseteq AnyCluster \ {Eoc} /\ Clusters \subseteq Nat
    /\ 0 \in AnyCluster /\ Eoc \in AnyCluster /\ 0 \notin Clusters /\ Eoc \notin Clusters
    /\ Eoc # 0 /\ Root \in Clusters /\ AnyCluster = 0 .. Eoc /\ Eoc \in Nat
    /\ \A c \in Clusters : IsLink(c) /\ c # Free
    /\ ~IsLink(Eoc) /\ Eoc # Free
BY Constants DEF Clusters, AnyCluster, Eoc, Root, IsLink, Free

\* ClusterOf() and Slots() in any FAT and with any contents.
ClusterIn(f, d, k) == LET at[i \in Nat \ {0}] == IF i = 1 THEN d ELSE f[at[i - 1]] IN at[k]
SlotsIn(f, cont, d) ==
    LET from[k \in Clusters] ==
            IF k = NumClusters THEN cont[ClusterIn(f, d, k)]
            ELSE cont[ClusterIn(f, d, k)] \o from[k + 1]
    IN  from[1]

LEMMA AlongChain ==
    ASSUME NEW f, f[Eoc] = Eoc, NEW q \in Seq(Clusters), q # <<>>, Linked(f, q)
    PROVE  \A k \in Nat \ {0} : ClusterIn(f, q[1], k) = IF k <= Len(q) THEN q[k] ELSE Eoc
<1> DEFINE P == Nat \ {0}
           IsWalk(g) == g = [i \in P |-> IF i = 1 THEN q[1] ELSE f[g[i - 1]]]
           h == [i \in P |-> IF i <= Len(q) THEN q[i] ELSE Eoc]
           at == CHOOSE g : IsWalk(g)
<1>1. Len(q) \in P /\ \A k \in 1 .. Len(q) : q[k] \in Clusters
  BY LenProperties, EmptySeq
<1>2. \A k \in P : ClusterIn(f, q[1], k) = at[k]
  BY DEF ClusterIn
<1>3. IsWalk(h)
  <2>1. ASSUME NEW i \in P PROVE h[i] = IF i = 1 THEN q[1] ELSE f[h[i - 1]]
    <3>1. CASE i = 1
      BY <1>1, <3>1
    <3>2. CASE i # 1
      <4>1. i - 1 \in P /\ (i - 1) + 1 = i
        BY <3>2
      <4>2. CASE i - 1 <= Len(q)
        <5>1. h[i - 1] = q[i - 1] /\ i - 1 \in 1 .. Len(q)
          BY <1>1, <4>1, <4>2
        <5>2. f[q[i - 1]] = IF i - 1 = Len(q) THEN Eoc ELSE q[i]
          BY <4>1, <5>1 DEF Linked
        <5> QED
          BY <1>1, <3>2, <4>1, <4>2, <5>1, <5>2
      <4>3. CASE ~(i - 1 <= Len(q))
        <5>1. h[i - 1] = Eoc /\ h[i] = Eoc
          BY <1>1, <4>1, <4>3
        <5> QED
          BY <3>2, <5>1
      <4> QED
        BY <4>2, <4>3
    <3> QED
      BY <3>1, <3>2
  <2>2. h = [i \in P |-> h[i]]
    OBVIOUS
  <2> HIDE DEF h
  <2> QED
    BY <2>1, <2>2
<1>4. IsWalk(at)
  BY <1>3
<1> HIDE DEF at
<1> DEFINE S == {k \in P : at[k] # h[k]}
<1>5. S = {}
  <2> SUFFICES ASSUME S # {} PROVE FALSE
    OBVIOUS
  <2> DEFINE k == Min(S)
  <2>1. k \in S /\ \A i \in S : k <= i
    BY LeastElement
  <2> HIDE DEF k
  <2>2. k \in P /\ at[k] # h[k]
    BY <2>1
  <2>3. at[k] = IF k = 1 THEN q[1] ELSE f[at[k - 1]]
    BY <1>4, <2>2
  <2>4. h[k] = IF k = 1 THEN q[1] ELSE f[h[k - 1]]
    <3> HIDE DEF h
    <3> QED
      BY <1>3, <2>2
  <2>5. k # 1
    BY <2>2, <2>3, <2>4
  <2>6. k - 1 \in P /\ ~(k <= k - 1)
    BY <2>2, <2>5
  <2>7. at[k - 1] = h[k - 1]
    BY <2>1, <2>6
  <2> QED
    BY <2>2, <2>3, <2>4, <2>7
<1>6. \A k \in P : at[k] = h[k]
  BY <1>5
<1>7. \A k \in P : h[k] = IF k <= Len(q) THEN q[k] ELSE Eoc
  OBVIOUS
<1> QED
  BY <1>2, <1>6, <1>7

\* The slots of the clusters in q, from the k-th on.
Behind(q, k) == IF k <= Len(q) THEN (Len(q) + 1 - k) * ClusterSlots ELSE 0
CellAt(cont, q, k, i) == cont[q[k + (i - 1) \div ClusterSlots]][((i - 1) % ClusterSlots) + 1]
SlotsFrom(cont, q, k) == [i \in 1 .. Behind(q, k) |-> CellAt(cont, q, k, i)]
SlotsOf(cont, q) == [i \in 1 .. Len(q) * ClusterSlots |-> CellAt(cont, q, 1, i)]

\* What is on the card: tables and slots have their types.
Card(f, cont) ==
    /\ f \in [AnyCluster -> 0 .. Eoc] /\ f[0] = Eoc /\ f[Eoc] = Eoc
    /\ DOMAIN cont = AnyCluster /\ cont[Eoc] = <<>>
    /\ \A c \in AnyCluster \ {Eoc} : cont[c] \in [1 .. ClusterSlots -> SlotType]

LEMMA CellTyped ==
    ASSUME NEW f, NEW cont, Card(f, cont), NEW q \in Seq(Clusters), NEW k \in 1 .. Len(q),
           NEW i \in 1 .. Behind(q, k)
    PROVE  /\ CellAt(cont, q, k, i) \in SlotType
           /\ k + (i - 1) \div ClusterSlots \in 1 .. Len(q)
<1>1. Len(q) \in Nat /\ ClusterSlots \in Nat
  BY LenProperties, Constants
<1> DEFINE m == Len(q) + 1 - k
<1>2. m \in Nat /\ i \in 1 .. m * ClusterSlots
  BY <1>1 DEF Behind
<1>3. PICK a \in 1 .. m, j \in 1 .. ClusterSlots : i = Nth(a, j)
  BY <1>2, NthExists
<1>4. (i - 1) \div ClusterSlots + 1 = a /\ ((i - 1) % ClusterSlots) + 1 = j
  BY <1>2, <1>3, NthRange
<1>5. k + (i - 1) \div ClusterSlots = k + (a - 1)
  <2>1. PICK c : c = (i - 1) \div ClusterSlots
    OBVIOUS
  <2>2. c \in Nat
    <3>1. i - 1 \in Nat /\ ClusterSlots \in Nat \ {0}
      BY <1>2, Constants
    <3> QED
      BY <2>1, <3>1, Division
  <2>3. k \in Nat /\ a \in Nat /\ c + 1 = a
    BY <1>2, <1>4, <2>1
  <2>4. k + c = k + (a - 1)
    BY <2>2, <2>3
  <2> QED
    BY <2>1, <2>4
<1>6. k + (a - 1) \in 1 .. Len(q)
  BY <1>1, <1>3
<1>7. q[k + (a - 1)] \in AnyCluster \ {Eoc}
  BY <1>6, LenProperties, ClusterFacts
<1>8. cont[q[k + (a - 1)]][j] \in SlotType
  BY <1>3, <1>7 DEF Card
<1> QED
  BY <1>4, <1>5, <1>6, <1>8 DEF CellAt

LEMMA SlotsFromStep ==
    ASSUME NEW f, NEW cont, Card(f, cont), NEW q \in Seq(Clusters), NEW k \in 1 .. Len(q)
    PROVE  SlotsFrom(cont, q, k) = cont[q[k]] \o SlotsFrom(cont, q, k + 1)
<1> DEFINE u == SlotsFrom(cont, q, k)
           v == SlotsFrom(cont, q, k + 1)
           w == cont[q[k]]
           m == Behind(q, k + 1)
<1>1. Len(q) \in Nat /\ ClusterSlots \in Nat \ {0} /\ k + 1 \in Nat /\ ClusterSlots \in Nat
  BY LenProperties, Constants
<1>2. q[k] \in AnyCluster \ {Eoc}
  BY LenProperties, ClusterFacts
<1>3. w \in [1 .. ClusterSlots -> SlotType]
  BY <1>2 DEF Card
<1>4. m \in Nat /\ Behind(q, k) = ClusterSlots + m
  <2>0. Len(q) + 1 - k \in Nat /\ Len(q) + 1 - k > 0
    BY <1>1
  <2>1. PICK a \in Nat : a = Len(q) + 1 - k /\ a > 0
    BY <2>0
  <2>2. Behind(q, k) = a * ClusterSlots
    BY <1>1, <2>1 DEF Behind
  <2>3. CASE k + 1 <= Len(q)
    <3>1. m = (a - 1) * ClusterSlots
      <4>1. Len(q) + 1 - (k + 1) = a - 1
        BY <1>1, <2>1
      <4> QED
        BY <2>3, <4>1 DEF Behind
    <3>2. (a - 1) * ClusterSlots \in Nat /\ a * ClusterSlots = ClusterSlots + (a - 1) * ClusterSlots
      BY <1>1, <2>1
    <3> QED
      BY <2>2, <3>1, <3>2
  <2>4. CASE ~(k + 1 <= Len(q))
    <3>1. m = 0 /\ a = 1
      BY <1>1, <2>1, <2>4 DEF Behind
    <3> QED
      BY <1>1, <2>2, <3>1
  <2> QED
    BY <2>3, <2>4
<1>5. w \in Seq(SlotType) /\ Len(w) = ClusterSlots
  BY <1>1, <1>3
<1>6. \A i \in 1 .. m : CellAt(cont, q, k + 1, i) \in SlotType
  <2> TAKE i \in 1 .. m
  <2>1. k + 1 \in 1 .. Len(q)
    BY <1>1 DEF Behind
  <2> QED
    BY <2>1, CellTyped
<1>7. v \in [1 .. m -> SlotType]
  BY <1>6 DEF SlotsFrom
<1>8. v \in Seq(SlotType) /\ Len(v) = m
  <2> HIDE DEF v, m
  <2> QED
    BY <1>4, <1>7
<1>9. /\ Len(w \o v) = ClusterSlots + m /\ w \o v \in Seq(SlotType)
      /\ \A i \in 1 .. ClusterSlots + m :
            (w \o v)[i] = IF i <= ClusterSlots THEN w[i] ELSE v[i - ClusterSlots]
  <2> HIDE DEF v, m, w
  <2> QED
    BY <1>5, <1>8, ConcatProperties
<1>10. ASSUME NEW i \in 1 .. ClusterSlots + m
       PROVE  CellAt(cont, q, k, i) = IF i <= ClusterSlots THEN w[i] ELSE v[i - ClusterSlots]
  <2>1. CASE i <= ClusterSlots
    <3>1. i - 1 \in 0 .. ClusterSlots - 1 /\ i - 1 = ClusterSlots * 0 + (i - 1)
      BY <1>1, <1>4, <2>1
    <3>2. (i - 1) \div ClusterSlots = 0 /\ (i - 1) % ClusterSlots = i - 1
      <4>1. (ClusterSlots * 0 + (i - 1)) \div ClusterSlots = 0 /\ (ClusterSlots * 0 + (i - 1)) % ClusterSlots = i - 1
        BY <1>1, <3>1, DivisionUnique
      <4> QED
        BY <3>1, <4>1
    <3>3. k + 0 = k /\ (i - 1) + 1 = i
      BY <1>1, <1>4
    <3> QED
      BY <2>1, <3>2, <3>3 DEF CellAt
  <2>2. CASE ~(i <= ClusterSlots)
    <3>1. PICK b \in 1 .. m : b = i - ClusterSlots
      BY <1>1, <1>4, <2>2
    <3>2. PICK c \in Nat, r \in 0 .. ClusterSlots - 1 :
             c = (b - 1) \div ClusterSlots /\ r = (b - 1) % ClusterSlots /\ b - 1 = ClusterSlots * c + r
      <4>1. b - 1 \in Nat
        BY <1>4, <3>1
      <4> QED
        BY <1>1, <4>1, Division
    <3>3. i - 1 = ClusterSlots * (c + 1) + r
      <4>1. ClusterSlots * (c + 1) = ClusterSlots * c + ClusterSlots /\ ClusterSlots * c \in Nat
        BY <1>1, <3>2
      <4> QED
        BY <1>1, <1>4, <3>1, <3>2, <4>1
    <3>4. (i - 1) \div ClusterSlots = c + 1 /\ (i - 1) % ClusterSlots = r
      <4>1. c + 1 \in Nat
        BY <3>2
      <4>2. (ClusterSlots * (c + 1) + r) \div ClusterSlots = c + 1 /\ (ClusterSlots * (c + 1) + r) % ClusterSlots = r
        BY <1>1, <4>1, DivisionUnique
      <4> QED
        BY <3>3, <4>2
    <3>5. k + (c + 1) = (k + 1) + c
      BY <1>1, <3>2, SMTT(60)
    <3>6. CellAt(cont, q, k, i) = CellAt(cont, q, k + 1, b)
      BY <3>2, <3>4, <3>5 DEF CellAt
    <3>7. v[b] = CellAt(cont, q, k + 1, b)
      BY DEF SlotsFrom
    <3> QED
      BY <2>2, <3>1, <3>6, <3>7
  <2> QED
    BY <2>1, <2>2
<1>11. u = [i \in 1 .. ClusterSlots + m |-> CellAt(cont, q, k, i)]
  BY <1>4 DEF SlotsFrom
<1>12. w \o v = [i \in 1 .. ClusterSlots + m |-> (w \o v)[i]]
  <2> HIDE DEF v, m, w
  <2>1. DOMAIN (w \o v) = 1 .. ClusterSlots + m
    BY <1>9, LenProperties
  <2> QED
    BY <1>9, <2>1, LenProperties
<1> HIDE DEF v, m, w
<1>13. u = w \o v
  <2> HIDE DEF u
  <2> QED
    BY <1>9, <1>10, <1>11, <1>12
<1> QED
  BY <1>13 DEF v, w

\* The slots of a directory are those of its clusters, one after another.
LEMMA SlotsLaid ==
    ASSUME NEW f, NEW cont, Card(f, cont), NEW q \in Seq(Clusters), q # <<>>, Linked(f, q),
           Len(q) <= NumClusters
    PROVE  SlotsIn(f, cont, q[1]) = SlotsOf(cont, q)
<1> DEFINE IsFrom(g) == g = [k \in Clusters |->
               IF k = NumClusters THEN cont[ClusterIn(f, q[1], k)]
               ELSE cont[ClusterIn(f, q[1], k)] \o g[k + 1]]
           h == [k \in Clusters |-> SlotsFrom(cont, q, k)]
           from == CHOOSE g : IsFrom(g)
<1>1. Len(q) \in Nat \ {0} /\ NumClusters \in Nat \ {0} /\ ClusterSlots \in Nat /\ Clusters = 1 .. NumClusters
  BY LenProperties, EmptySeq, Constants DEF Clusters
<1>2. SlotsIn(f, cont, q[1]) = from[1]
  BY DEF SlotsIn
<1>3. ASSUME NEW k \in Clusters PROVE cont[ClusterIn(f, q[1], k)] = IF k <= Len(q) THEN cont[q[k]] ELSE <<>>
  <2>1. f[Eoc] = Eoc /\ cont[Eoc] = <<>>
    BY DEF Card
  <2>2. k \in Nat \ {0}
    BY <1>1
  <2>3. ClusterIn(f, q[1], k) = IF k <= Len(q) THEN q[k] ELSE Eoc
    BY <2>1, <2>2, AlongChain
  <2> QED
    BY <2>1, <2>3
<1>4. ASSUME NEW k \in Nat, k > Len(q) PROVE SlotsFrom(cont, q, k) = <<>>
  <2>1. Behind(q, k) = 0
    BY <1>1, <1>4 DEF Behind
  <2>2. SlotsFrom(cont, q, k) = [i \in 1 .. 0 |-> CellAt(cont, q, k, i)]
    BY <2>1 DEF SlotsFrom
  <2>3. 1 .. 0 = {}
    OBVIOUS
  <2>4. SlotsFrom(cont, q, k) \in Seq({}) /\ Len(SlotsFrom(cont, q, k)) = 0
    <3>1. SlotsFrom(cont, q, k) \in [1 .. 0 -> {}]
      BY <2>2, <2>3
    <3> QED
      BY <3>1
  <2> QED
    BY <2>4, EmptySeq
<1>5. ASSUME NEW k \in Clusters
      PROVE  h[k] = IF k = NumClusters THEN cont[ClusterIn(f, q[1], k)]
                    ELSE cont[ClusterIn(f, q[1], k)] \o h[k + 1]
  <2>1. k \in Nat /\ k + 1 \in Nat /\ (k # NumClusters => k + 1 \in Clusters)
    BY <1>1
  <2>2. h[k] = SlotsFrom(cont, q, k) /\ (k # NumClusters => h[k + 1] = SlotsFrom(cont, q, k + 1))
    BY <2>1
  <2>3. CASE k <= Len(q)
    <3>1. k \in 1 .. Len(q) /\ q[k] \in Clusters
      BY <1>1, <2>1, <2>3, LenProperties
    <3>2. SlotsFrom(cont, q, k) = cont[q[k]] \o SlotsFrom(cont, q, k + 1)
      BY <3>1, SlotsFromStep
    <3>3. cont[ClusterIn(f, q[1], k)] = cont[q[k]]
      BY <1>3, <2>3
    <3>4. CASE k = NumClusters
      <4>1. SlotsFrom(cont, q, k + 1) = <<>>
        <5>1. k + 1 > Len(q)
          BY <1>1, <3>4
        <5> QED
          BY <1>4, <2>1, <5>1
      <4>2. cont[q[k]] \in [1 .. ClusterSlots -> SlotType]
        BY <3>1, ClusterFacts DEF Card
      <4>3. cont[q[k]] \in Seq(SlotType)
        <5>1. PICK n \in Nat : n = ClusterSlots
          BY <1>1
        <5>2. PICK w : w = cont[q[k]]
          OBVIOUS
        <5>3. w \in [1 .. n -> SlotType]
          BY <4>2, <5>1, <5>2
        <5>4. w \in Seq(SlotType)
          BY <5>3
        <5> QED
          BY <5>2, <5>4
      <4>4. cont[q[k]] \o <<>> = cont[q[k]]
        BY <4>3, ConcatEmptySeq
      <4> QED
        BY <2>2, <3>2, <3>3, <3>4, <4>1, <4>4
    <3>5. CASE k # NumClusters
      BY <2>2, <3>2, <3>3, <3>5
    <3> QED
      BY <3>4, <3>5
  <2>4. CASE ~(k <= Len(q))
    <3>1. SlotsFrom(cont, q, k) = <<>> /\ SlotsFrom(cont, q, k + 1) = <<>>
      <4>1. k > Len(q) /\ k + 1 > Len(q)
        BY <1>1, <2>1, <2>4
      <4> QED
        BY <1>4, <2>1, <4>1
    <3>2. cont[ClusterIn(f, q[1], k)] = <<>>
      BY <1>3, <2>4
    <3>3. <<>> \o <<>> = <<>>
      BY ConcatEmptySeq, EmptySeq
    <3> HIDE DEF h
    <3> QED
      BY <2>2, <3>1, <3>2, <3>3
  <2> QED
    BY <2>3, <2>4
<1>6. IsFrom(h)
  <2>1. h = [k \in Clusters |-> h[k]]
    OBVIOUS
  <2> HIDE DEF h
  <2> QED
    BY <1>5, <2>1
<1>7. IsFrom(from)
  BY <1>6
<1> HIDE DEF from, h
<1> DEFINE S == {k \in Clusters : from[k] # h[k]}
<1>8. S = {}
  <2> SUFFICES ASSUME S # {} PROVE FALSE
    OBVIOUS
  <2> DEFINE k == Max(S)
  <2>1. k \in S /\ \A i \in S : i <= k
    <3>1. S \subseteq 0 .. NumClusters /\ NumClusters \in Nat
      BY <1>1
    <3> HIDE DEF S
    <3> QED
      BY <3>1, GreatestElement
  <2> HIDE DEF k
  <2>2. k \in Clusters /\ from[k] # h[k]
    BY <2>1
  <2>3. from[k] = IF k = NumClusters THEN cont[ClusterIn(f, q[1], k)]
                  ELSE cont[ClusterIn(f, q[1], k)] \o from[k + 1]
    BY <1>7, <2>2
  <2>4. k # NumClusters
    BY <1>5, <2>2, <2>3
  <2>5. k + 1 \in Clusters /\ ~(k + 1 <= k)
    BY <1>1, <2>2, <2>4
  <2>6. from[k + 1] = h[k + 1]
    BY <2>1, <2>5
  <2> QED
    BY <1>5, <2>2, <2>3, <2>4, <2>6
<1>9. from[1] = h[1] /\ h[1] = SlotsFrom(cont, q, 1)
  <2>1. 1 \in Clusters
    BY <1>1
  <2> QED
    BY <1>8, <2>1 DEF h
<1>10. SlotsFrom(cont, q, 1) = SlotsOf(cont, q)
  <2>1. Behind(q, 1) = Len(q) * ClusterSlots
    <3>1. Len(q) + 1 - 1 = Len(q) /\ 1 <= Len(q)
      BY <1>1
    <3> QED
      BY <3>1 DEF Behind
  <2> QED
    BY <2>1 DEF SlotsFrom, SlotsOf
<1> QED
  BY <1>2, <1>9, <1>10

\* Every cluster occurs once, so there are no more than the volume has.
LEMMA Bounded ==
    ASSUME NEW q \in Seq(Clusters), \A j, k \in 1 .. Len(q) : q[j] = q[k] => j = k
    PROVE  Len(q) <= NumClusters
<1>1. q \in [1 .. Len(q) -> Clusters] /\ Len(q) \in Nat
  BY LenProperties
<1>2. q \in Injection(1 .. Len(q), Clusters)
  BY <1>1 DEF Injection, IsInjective
<1>3. IsFiniteSet(Clusters) /\ Cardinality(Clusters) = NumClusters
  BY FS_Interval, Constants DEF Clusters
<1>4. Cardinality(1 .. Len(q)) = Len(q)
  <2>1. PICK n \in Nat : n = Len(q)
    BY <1>1
  <2>2. Cardinality(1 .. n) = n
    BY FS_Interval
  <2> QED
    BY <2>1, <2>2
<1>5. Cardinality(1 .. Len(q)) <= Cardinality(Clusters)
  BY <1>2, <1>3, FS_Injection
<1> QED
  BY <1>3, <1>4, <1>5

\* What a directory with the clusters lay[d] looks like.
Seen(lay, d) ==
    /\ lay[d] \in Seq(Clusters) /\ Len(lay[d]) \in Nat \ {0} /\ Len(lay[d]) <= NumClusters
    /\ lay[d][1] = d
    /\ Slots(d) \in Seq(SlotType) /\ Len(Slots(d)) \in Nat
    /\ \A k \in 1 .. Len(lay[d]) : lay[d][k] \in Clusters
    /\ \A k \in 1 .. Len(lay[d]), j \in 1 .. ClusterSlots :
          /\ Nth(k, j) \in 1 .. Len(Slots(d))
          /\ Slots(d)[Nth(k, j)] = content[lay[d][k]][j]
          /\ Place(d, Nth(k, j)) = <<lay[d][k], j>>
    /\ \A i \in 1 .. Len(Slots(d)) : \E k \in 1 .. Len(lay[d]), j \in 1 .. ClusterSlots : i = Nth(k, j)
    /\ Chain(d) = {lay[d][k] : k \in 1 .. Len(lay[d])}
    /\ LastCluster(d) = lay[d][Len(lay[d])]
Sized(lay, d) ==
    /\ Len(Slots(d)) = Len(lay[d]) * ClusterSlots
    /\ Len(Slots(d)) <= NumClusters * ClusterSlots /\ ClusterSlots <= Len(Slots(d))
LaidCard(lay) == DOMAIN lay = Dirs /\ LaidOut(fat, lay) /\ Card(fat, content)

LEMMA LayoutIs == \A lay : Layout(lay) <=> LaidCard(lay)
BY DEF Layout, LaidCard, Card

LEMMA LaidChain ==
    ASSUME NEW f, NEW lay, LaidOut(f, lay), NEW d \in DOMAIN lay
    PROVE  /\ lay[d] \in Seq(Clusters) /\ lay[d] # <<>> /\ lay[d][1] = d
           /\ Linked(f, lay[d])
           /\ \A j, k \in 1 .. Len(lay[d]) : lay[d][j] = lay[d][k] => j = k
BY DEF LaidOut, Linked

View == \A lay : Layout(lay) => \A d \in Dirs : Seen(lay, d) /\ Sized(lay, d)

LEMMA ViewNow == View
<1> SUFFICES ASSUME NEW lay, Layout(lay), NEW d \in Dirs PROVE Seen(lay, d) /\ Sized(lay, d)
  BY DEF View
<1>1. DOMAIN lay = Dirs /\ LaidOut(fat, lay) /\ Card(fat, content)
  BY LayoutIs DEF LaidCard
<1>2. PICK q : q = lay[d]
  OBVIOUS
<1>3. /\ q \in Seq(Clusters) /\ q # <<>> /\ q[1] = d /\ Linked(fat, q)
      /\ \A j, k \in 1 .. Len(q) : q[j] = q[k] => j = k
  BY <1>1, <1>2, LaidChain
<1>4. Len(q) <= NumClusters
  BY <1>3, Bounded
<1>5. Len(q) \in Nat \ {0} /\ (\A k \in 1 .. Len(q) : q[k] \in Clusters) /\ ClusterSlots \in Nat \ {0}
      /\ NumClusters \in Nat
  BY <1>3, LenProperties, EmptySeq, Constants
<1>6. PICK L \in Nat : L = Len(q) * ClusterSlots
  BY <1>5
<1>7. Slots(d) = SlotsOf(content, q)
  <2>1. SlotsIn(fat, content, q[1]) = SlotsOf(content, q)
    BY <1>1, <1>3, <1>4, SlotsLaid
  <2>2. Slots(d) = SlotsIn(fat, content, d)
    BY DEF Slots, SlotsIn, ClusterOf, ClusterIn
  <2> QED
    BY <1>3, <2>1, <2>2
<1>8. Slots(d) = [i \in 1 .. L |-> CellAt(content, q, 1, i)]
  BY <1>6, <1>7 DEF SlotsOf
<1>9. \A i \in 1 .. L : CellAt(content, q, 1, i) \in SlotType
  <2> SUFFICES ASSUME NEW i \in 1 .. L PROVE CellAt(content, q, 1, i) \in SlotType
    OBVIOUS
  <2>1. 1 \in 1 .. Len(q) /\ Len(q) + 1 - 1 = Len(q)
    BY <1>5
  <2>2. Behind(q, 1) = L
    BY <1>6, <2>1 DEF Behind
  <2> QED
    BY <1>1, <1>3, <2>1, <2>2, CellTyped
<1>10. Slots(d) \in Seq(SlotType) /\ Len(Slots(d)) = L
  <2>1. Slots(d) \in [1 .. L -> SlotType]
    BY <1>8, <1>9
  <2> QED
    BY <2>1
<1>11. L <= NumClusters * ClusterSlots /\ ClusterSlots <= L
  <2>1. ClusterSlots * Len(q) <= ClusterSlots * NumClusters /\ ClusterSlots * 1 <= ClusterSlots * Len(q)
    BY <1>4, <1>5, Times
  <2>2. ClusterSlots * Len(q) = L /\ ClusterSlots * NumClusters = NumClusters * ClusterSlots /\ ClusterSlots * 1 = ClusterSlots
    BY <1>5, <1>6
  <2> QED
    BY <2>1, <2>2
<1>12. fat[Eoc] = Eoc
  BY <1>1 DEF Card
<1>13. \A k \in Nat \ {0} : ClusterOf(d, k) = IF k <= Len(q) THEN q[k] ELSE Eoc
  <2>1. \A k \in Nat \ {0} : ClusterIn(fat, q[1], k) = IF k <= Len(q) THEN q[k] ELSE Eoc
    BY <1>3, <1>12, AlongChain
  <2>2. \A k \in Nat \ {0} : ClusterOf(d, k) = ClusterIn(fat, d, k)
    BY DEF ClusterOf, ClusterIn
  <2> QED
    BY <1>3, <2>1, <2>2
<1>14. ASSUME NEW k \in 1 .. Len(q), NEW j \in 1 .. ClusterSlots
       PROVE  /\ Nth(k, j) \in 1 .. L
              /\ Slots(d)[Nth(k, j)] = content[q[k]][j]
              /\ Place(d, Nth(k, j)) = <<q[k], j>>
  <2>1. /\ Nth(k, j) \in 1 .. L
        /\ (Nth(k, j) - 1) \div ClusterSlots + 1 = k /\ ((Nth(k, j) - 1) % ClusterSlots) + 1 = j
    <3>1. PICK m \in Nat : m = Len(q)
      BY <1>5
    <3>2. k \in 1 .. m
      BY <3>1
    <3>3. /\ Nth(k, j) \in 1 .. m * ClusterSlots
          /\ (Nth(k, j) - 1) \div ClusterSlots + 1 = k /\ ((Nth(k, j) - 1) % ClusterSlots) + 1 = j
      BY <3>2, NthRange
    <3> QED
      BY <1>6, <3>1, <3>3
  <2>2. 1 + (Nth(k, j) - 1) \div ClusterSlots = k
    <3>1. PICK c : c = (Nth(k, j) - 1) \div ClusterSlots
      OBVIOUS
    <3>2. c \in Nat
      <4>1. Nth(k, j) - 1 \in Nat
        BY <2>1
      <4> QED
        BY <1>5, <3>1, <4>1, Division
    <3>3. 1 + c = k
      BY <2>1, <3>1, <3>2
    <3> QED
      BY <3>1, <3>3
  <2>3. Slots(d)[Nth(k, j)] = content[q[k]][j]
    BY <1>8, <2>1, <2>2 DEF CellAt
  <2>4. k \in Nat \ {0} /\ k <= Len(q)
    BY <1>5
  <2>5. Place(d, Nth(k, j)) = <<q[k], j>>
    BY <1>13, <2>1, <2>4 DEF Place
  <2> QED
    BY <2>1, <2>3, <2>5
<1>15. \A i \in 1 .. L : \E k \in 1 .. Len(q), j \in 1 .. ClusterSlots : i = Nth(k, j)
  BY <1>5, <1>6, NthExists
<1>16. Chain(d) = {q[k] : k \in 1 .. Len(q)}
  <2>1. Clusters = 1 .. NumClusters
    BY DEF Clusters
  <2>2. ASSUME NEW c \in Chain(d) PROVE \E k \in 1 .. Len(q) : c = q[k]
    <3>1. PICK k \in Clusters : c = ClusterOf(d, k) /\ c \in Clusters
      BY DEF Chain
    <3>2. k \in Nat \ {0}
      BY <2>1, <3>1, <1>5
    <3>3. k <= Len(q)
      BY <1>13, <3>1, <3>2, ClusterFacts
    <3> QED
      BY <1>13, <1>5, <3>1, <3>2, <3>3
  <2>3. ASSUME NEW k \in 1 .. Len(q) PROVE q[k] \in Chain(d)
    <3>1. k \in Clusters /\ k \in Nat \ {0} /\ k <= Len(q)
      BY <1>4, <1>5, <2>1
    <3>2. q[k] = ClusterOf(d, k) /\ q[k] \in Clusters
      BY <1>5, <1>13, <3>1
    <3> QED
      BY <3>1, <3>2 DEF Chain
  <2> QED
    BY <2>2, <2>3
<1>17. LastCluster(d) = q[Len(q)]
  <2>1. Len(q) \in 1 .. Len(q)
    BY <1>5
  <2>2. q[Len(q)] \in Chain(d) /\ fat[q[Len(q)]] = Eoc
    BY <1>3, <1>16, <2>1 DEF Linked
  <2>3. ASSUME NEW c \in Chain(d), fat[c] = Eoc PROVE c = q[Len(q)]
    <3>1. PICK k \in 1 .. Len(q) : c = q[k]
      BY <1>16
    <3>2. k # Len(q) => FALSE
      <4> SUFFICES ASSUME k # Len(q) PROVE FALSE
        OBVIOUS
      <4>1. fat[q[k]] = q[k + 1]
        BY <1>3, <3>1 DEF Linked
      <4>2. k + 1 \in 1 .. Len(q)
        BY <1>5
      <4> QED
        BY <1>5, <2>3, <3>1, <4>1, <4>2, ClusterFacts
    <3> QED
      BY <3>1, <3>2
  <2> QED
    BY <2>2, <2>3 DEF LastCluster
<1> QED
  BY <1>2, <1>3, <1>4, <1>5, <1>6, <1>10, <1>11, <1>14, <1>15, <1>16, <1>17 DEF Seen, Sized

LEMMA ViewThen == View'
BY ViewNow, PTL

LEMMA DistinctClusters ==
    ASSUME NEW f, NEW lay, LaidOut(f, lay), NEW d \in DOMAIN lay, NEW e \in DOMAIN lay,
           NEW j \in 1 .. Len(lay[d]), NEW k \in 1 .. Len(lay[e]), lay[d][j] = lay[e][k]
    PROVE  d = e /\ j = k
BY DEF LaidOut

\* The places of the slots of a directory.
Placed(lay, d) ==
    /\ \A i \in 1 .. Len(Slots(d)) :
          /\ Place(d, i) # NoPlace /\ Place(d, i) \in AllPlaces
          /\ Place(d, i)[1] \in Chain(d) /\ Place(d, i)[1] \in Clusters /\ Place(d, i)[2] \in 1 .. ClusterSlots
          /\ SlotAt(Place(d, i)) = Slots(d)[i]
          /\ i < Len(Slots(d)) => Following(Place(d, i)) = Place(d, i + 1)
          /\ i = Len(Slots(d)) => /\ Following(Place(d, i)) = NoPlace
                                  /\ Place(d, i)[1] = LastCluster(d)
    /\ content[d][1] = Slots(d)[1] /\ content[d][2] = Slots(d)[2]
    /\ Slots(d)[1] \in SlotType /\ Slots(d)[2] \in SlotType
    /\ Place(d, 1) = <<d, 1>> /\ Place(d, 2) = <<d, 2>> /\ 2 <= Len(Slots(d))
    /\ \A c \in Chain(d) : fat[c] # Free /\ c \in Clusters
    /\ LastCluster(d) \in Chain(d) /\ fat[LastCluster(d)] = Eoc
Apart(d, e) ==
    /\ \A i \in 1 .. Len(Slots(d)), j \in 1 .. Len(Slots(e)) : Place(d, i) = Place(e, j) => d = e /\ i = j
    /\ \A c \in Chain(d) : c \in Chain(e) => d = e
Places == \A lay : Layout(lay) => \A d \in Dirs : Placed(lay, d) /\ \A e \in Dirs : Apart(d, e)

LEMMA NthNext ==
    ASSUME NEW lay, NEW d, Seen(lay, d), Sized(lay, d), NEW k \in 1 .. Len(lay[d]), NEW j \in 1 .. ClusterSlots
    PROVE  /\ Nth(k, j) \in 1 .. Len(Slots(d))
           /\ j < ClusterSlots => Nth(k, j) + 1 = Nth(k, j + 1)
           /\ j = ClusterSlots => Nth(k, j) + 1 = Nth(k + 1, 1)
           /\ Nth(k, j) = Len(Slots(d)) <=> (j = ClusterSlots /\ k = Len(lay[d]))
<1>1. PICK m \in Nat : m = Len(lay[d])
  BY DEF Seen
<1>2. k \in 1 .. m
  BY <1>1
<1>3. /\ Nth(k, j) \in 1 .. m * ClusterSlots
      /\ j < ClusterSlots => Nth(k, j) + 1 = Nth(k, j + 1)
      /\ j = ClusterSlots => Nth(k, j) + 1 = Nth(k + 1, 1)
      /\ j = ClusterSlots /\ k = m => Nth(k, j) = m * ClusterSlots
      /\ Nth(k, j) = m * ClusterSlots => j = ClusterSlots /\ k = m
  <2>1. Nth(k, j) \in 1 .. m * ClusterSlots
    BY <1>2, NthRange
  <2>2. j < ClusterSlots => Nth(k, j) + 1 = Nth(k, j + 1)
    BY <1>2, NthRange
  <2>3. j = ClusterSlots => Nth(k, j) + 1 = Nth(k + 1, 1)
    <3>1. Nth(k, ClusterSlots) + 1 = Nth(k + 1, 1)
      BY <1>2, NthCarry
    <3> QED
      BY <3>1
  <2>4. j = ClusterSlots /\ k = m => Nth(k, j) = m * ClusterSlots
    BY <1>2, NthRange
  <2>5. Nth(k, j) = m * ClusterSlots => j = ClusterSlots /\ k = m
    BY <1>2, NthRange
  <2> QED
    BY <2>1, <2>2, <2>3, <2>4, <2>5
<1>4. Len(Slots(d)) = m * ClusterSlots
  BY <1>1 DEF Sized
<1> QED
  BY <1>1, <1>3, <1>4

LEMMA Cell ==
    ASSUME NEW lay, NEW d, Seen(lay, d), NEW i \in 1 .. Len(Slots(d))
    PROVE  \E k \in 1 .. Len(lay[d]), j \in 1 .. ClusterSlots :
              /\ i = Nth(k, j) /\ lay[d][k] \in Clusters
              /\ Slots(d)[i] = content[lay[d][k]][j] /\ Place(d, i) = <<lay[d][k], j>>
<1>1. PICK k \in 1 .. Len(lay[d]), j \in 1 .. ClusterSlots : i = Nth(k, j)
  BY DEF Seen
<1> QED
  BY <1>1 DEF Seen

LEMMA InChain ==
    ASSUME NEW lay, NEW d, Seen(lay, d), NEW c \in Chain(d)
    PROVE  \E k \in 1 .. Len(lay[d]) : c = lay[d][k]
BY DEF Seen

LEMMA PlacesNow == Places
<1> SUFFICES ASSUME NEW lay, Layout(lay), NEW d \in Dirs
             PROVE  Placed(lay, d) /\ \A e \in Dirs : Apart(d, e)
  BY DEF Places
<1>1. DOMAIN lay = Dirs /\ LaidOut(fat, lay) /\ Card(fat, content)
  BY LayoutIs DEF LaidCard
<1>2. \A e \in Dirs : Seen(lay, e) /\ Sized(lay, e)
  BY ViewNow DEF View
<1>3. ClusterSlots \in Nat \ {0, 1}
  BY Constants
<1>4. PICK q : q = lay[d]
  OBVIOUS
<1>5. PICK s : s = Slots(d)
  OBVIOUS
<1>6. Linked(fat, q)
  BY <1>1, <1>4, LaidChain
<1>7. /\ Len(q) \in Nat \ {0} /\ \A k \in 1 .. Len(q) : q[k] \in Clusters
      /\ q[1] = d /\ s \in Seq(SlotType) /\ Len(s) \in Nat
      /\ \A k \in 1 .. Len(q), j \in 1 .. ClusterSlots :
            /\ Nth(k, j) \in 1 .. Len(s)
            /\ s[Nth(k, j)] = content[q[k]][j]
            /\ Place(d, Nth(k, j)) = <<q[k], j>>
      /\ \A i \in 1 .. Len(s) : \E k \in 1 .. Len(q), j \in 1 .. ClusterSlots : i = Nth(k, j)
      /\ Chain(d) = {q[k] : k \in 1 .. Len(q)}
      /\ LastCluster(d) = q[Len(q)]
  BY <1>2, <1>4, <1>5 DEF Seen
<1>8. ClusterSlots <= Len(s)
  BY <1>2, <1>5 DEF Sized
<1>9. ASSUME NEW i \in 1 .. Len(s)
      PROVE  /\ Place(d, i) # NoPlace /\ Place(d, i) \in AllPlaces
             /\ Place(d, i)[1] \in Chain(d) /\ Place(d, i)[1] \in Clusters /\ Place(d, i)[2] \in 1 .. ClusterSlots
             /\ SlotAt(Place(d, i)) = s[i]
             /\ i < Len(s) => Following(Place(d, i)) = Place(d, i + 1)
             /\ i = Len(s) => /\ Following(Place(d, i)) = NoPlace
                              /\ Place(d, i)[1] = LastCluster(d)
  <2>1. PICK k \in 1 .. Len(q), j \in 1 .. ClusterSlots : i = Nth(k, j)
    BY <1>7
  <2>2. Place(d, i) = <<q[k], j>> /\ q[k] \in Clusters /\ s[i] = content[q[k]][j]
    BY <1>7, <2>1
  <2>3. Place(d, i) # NoPlace
    BY <1>3, <2>2, ClusterFacts DEF NoPlace
  <2>4. Place(d, i) \in AllPlaces
    <3>1. q[k] \in AnyCluster
      BY <2>2, ClusterFacts
    <3>2. <<q[k], j>> \in AnyCluster \X (1 .. ClusterSlots)
      BY <3>1
    <3> QED
      BY <2>2, <3>2 DEF AllPlaces
  <2>5. SlotAt(Place(d, i)) = s[i]
    BY <2>2 DEF SlotAt
  <2>6. /\ j < ClusterSlots => Nth(k, j) + 1 = Nth(k, j + 1)
        /\ j = ClusterSlots => Nth(k, j) + 1 = Nth(k + 1, 1)
        /\ Nth(k, j) = Len(s) <=> (j = ClusterSlots /\ k = Len(q))
    BY <1>2, <1>4, <1>5, NthNext
  <2>7. fat[q[k]] = IF k = Len(q) THEN Eoc ELSE q[k + 1]
    BY <1>6 DEF Linked
  <2>8. ASSUME i < Len(s) PROVE Following(Place(d, i)) = Place(d, i + 1)
    <3>1. CASE j < ClusterSlots
      <4>1. j + 1 \in 1 .. ClusterSlots /\ i + 1 = Nth(k, j + 1)
        BY <1>3, <2>1, <2>6, <3>1
      <4>2. Place(d, i + 1) = <<q[k], j + 1>>
        BY <1>7, <4>1
      <4> QED
        BY <2>2, <3>1, <4>2 DEF Following
    <3>2. CASE ~(j < ClusterSlots)
      <4>1. j = ClusterSlots
        BY <1>3, <3>2
      <4>2. k # Len(q)
        BY <2>1, <2>6, <2>8, <4>1
      <4>3. k + 1 \in 1 .. Len(q) /\ 1 \in 1 .. ClusterSlots
        BY <1>3, <1>7, <4>2
      <4>4. i + 1 = Nth(k + 1, 1)
        BY <2>1, <2>6, <4>1
      <4>5. Place(d, i + 1) = <<q[k + 1], 1>> /\ q[k + 1] \in Clusters
        BY <1>7, <4>3, <4>4
      <4>6. fat[q[k]] = q[k + 1] /\ IsLink(fat[q[k]])
        BY <2>7, <4>2, <4>5, ClusterFacts
      <4> QED
        BY <2>2, <3>2, <4>1, <4>5, <4>6 DEF Following
    <3> QED
      BY <3>1, <3>2
  <2>9. ASSUME i = Len(s) PROVE Following(Place(d, i)) = NoPlace /\ Place(d, i)[1] = LastCluster(d)
    <3>1. j = ClusterSlots /\ k = Len(q)
      BY <2>1, <2>6, <2>9
    <3>2. fat[q[k]] = Eoc /\ ~IsLink(fat[q[k]])
      BY <2>7, <3>1, ClusterFacts
    <3>3. ~(j < ClusterSlots)
      BY <1>3, <3>1
    <3>4. Following(Place(d, i)) = NoPlace
      BY <2>2, <3>2, <3>3 DEF Following
    <3> QED
      BY <1>7, <2>2, <3>1, <3>4
  <2> QED
    BY <1>7, <2>2, <2>3, <2>4, <2>5, <2>8, <2>9
<1>10. /\ content[d][1] = s[1] /\ content[d][2] = s[2]
       /\ s[1] \in SlotType /\ s[2] \in SlotType
       /\ Place(d, 1) = <<d, 1>> /\ Place(d, 2) = <<d, 2>> /\ 2 <= Len(s)
  <2>1. Nth(1, 1) = 1 /\ Nth(1, 2) = 2
    BY <1>3 DEF Nth
  <2>2. 1 \in 1 .. Len(q) /\ 1 \in 1 .. ClusterSlots /\ 2 \in 1 .. ClusterSlots
    BY <1>3, <1>7
  <2>3. s[1] = content[d][1] /\ s[2] = content[d][2] /\ Place(d, 1) = <<d, 1>> /\ Place(d, 2) = <<d, 2>>
    BY <1>7, <2>1, <2>2
  <2>4. 1 \in 1 .. Len(s) /\ 2 \in 1 .. Len(s)
    BY <1>7, <2>1, <2>2
  <2>5. s[1] \in SlotType /\ s[2] \in SlotType
    BY <1>7, <2>4, LenProperties
  <2> QED
    BY <2>3, <2>4, <2>5
<1>11. \A c \in Chain(d) : fat[c] # Free /\ c \in Clusters
  <2> SUFFICES ASSUME NEW k \in 1 .. Len(q) PROVE fat[q[k]] # Free
    BY <1>7
  <2>1. fat[q[k]] = IF k = Len(q) THEN Eoc ELSE q[k + 1]
    BY <1>6 DEF Linked
  <2>2. k # Len(q) => q[k + 1] \in Clusters
    BY <1>7
  <2> QED
    BY <2>1, <2>2, ClusterFacts
<1>12. LastCluster(d) \in Chain(d) /\ fat[LastCluster(d)] = Eoc
  <2>1. Len(q) \in 1 .. Len(q)
    BY <1>7
  <2> QED
    BY <1>6, <1>7, <2>1 DEF Linked
<1>13. ASSUME NEW e \in Dirs PROVE Apart(d, e)
  <2>1. ASSUME NEW i \in 1 .. Len(Slots(d)), NEW j \in 1 .. Len(Slots(e)), Place(d, i) = Place(e, j)
        PROVE  d = e /\ i = j
    <3>1. PICK k \in 1 .. Len(lay[d]), u \in 1 .. ClusterSlots :
             i = Nth(k, u) /\ Place(d, i) = <<lay[d][k], u>>
      BY <1>2, Cell
    <3>2. PICK l \in 1 .. Len(lay[e]), v \in 1 .. ClusterSlots :
             j = Nth(l, v) /\ Place(e, j) = <<lay[e][l], v>>
      <4>1. Seen(lay, e)
        BY <1>2
      <4> QED
        BY <4>1, Cell, SMTT(60)
    <3>5. lay[d][k] = lay[e][l] /\ u = v
      <4>1. PICK a, b : a = lay[d][k] /\ b = lay[e][l]
        OBVIOUS
      <4>2. <<a, u>> = <<b, v>>
        BY <2>1, <3>1, <3>2, <4>1
      <4> QED
        BY <4>1, <4>2
    <3>6. d = e /\ k = l
      BY <1>1, <3>5, DistinctClusters
    <3> QED
      BY <3>1, <3>2, <3>5, <3>6
  <2>2. ASSUME NEW c \in Chain(d), c \in Chain(e) PROVE d = e
    <3>1. PICK k \in 1 .. Len(lay[d]) : c = lay[d][k]
      BY <1>2, InChain
    <3>2. PICK l \in 1 .. Len(lay[e]) : c = lay[e][l]
      BY <1>2, <2>2, InChain
    <3> QED
      BY <1>1, <3>1, <3>2, DistinctClusters
  <2> QED
    BY <2>1, <2>2 DEF Apart
<1> QED
  BY <1>5, <1>9, <1>10, <1>11, <1>12, <1>13 DEF Placed

LEMMA PlacesThen == Places'
BY PlacesNow, PTL

LEMMA NthOrder ==
    ASSUME NEW k \in Nat \ {0}, NEW m \in Nat \ {0}, NEW i \in 1 .. ClusterSlots, NEW j \in 1 .. ClusterSlots
    PROVE  /\ Nth(k, i) <= Nth(m, j) <=> (k < m \/ (k = m /\ i <= j))
           /\ k = m => Nth(m, j) - Nth(k, i) = j - i
<1>1. ClusterSlots \in Nat /\ k - 1 \in Nat /\ m - 1 \in Nat
  BY Constants
<1>2. PICK a \in Nat, b \in Nat : a = ClusterSlots * (k - 1) /\ b = ClusterSlots * (m - 1)
  BY <1>1
<1>3. /\ k < m => a + ClusterSlots <= b
      /\ m < k => b + ClusterSlots <= a
  <2>1. k - 1 < m - 1 => a + ClusterSlots <= b
    BY <1>1, <1>2, Times
  <2>2. m - 1 < k - 1 => b + ClusterSlots <= a
    BY <1>1, <1>2, Times
  <2> QED
    BY <2>1, <2>2
<1>4. k = m => a = b
  BY <1>2
<1>5. Nth(k, i) = a + i /\ Nth(m, j) = b + j
  BY <1>2 DEF Nth
<1> QED
  BY <1>1, <1>3, <1>4, <1>5

LEMMA DivisionOrder ==
    ASSUME NEW d \in Nat \ {0}, NEW m \in Nat, NEW n \in Nat, m <= n
    PROVE  m \div d <= n \div d
<1>1. PICK a \in Nat, r \in 0 .. d - 1 : a = m \div d /\ m = d * a + r
  BY Division
<1>2. PICK b \in Nat, q \in 0 .. d - 1 : b = n \div d /\ n = d * b + q
  BY Division
<1>3. b < a => d * b + d <= d * a
  BY Times
<1>4. d * a \in Nat /\ d * b \in Nat
  OBVIOUS
<1>5. ~(b < a)
  BY <1>1, <1>2, <1>3, <1>4
<1> QED
  BY <1>1, <1>2, <1>5

-----------------------------------------------------------------------------
\* Steps: what they leave as it is.
LEMMA CellThen ==
    ASSUME NEW lay, NEW d, Seen(lay, d)', NEW i \in 1 .. Len(Slots(d)')
    PROVE  \E k \in 1 .. Len(lay[d]), j \in 1 .. ClusterSlots :
              /\ i = Nth(k, j) /\ lay[d][k] \in Clusters
              /\ Slots(d)'[i] = content'[lay[d][k]][j] /\ Place(d, i)' = <<lay[d][k], j>>
<1>1. PICK k \in 1 .. Len(lay[d]), j \in 1 .. ClusterSlots : i = Nth(k, j)
  BY DEF Seen
<1> QED
  BY <1>1 DEF Seen

\* The clusters of d are the same: so are its places.
SameDir(d) ==
    /\ Len(Slots(d)') = Len(Slots(d)) /\ Slots(d)' \in Seq(SlotType)
    /\ \A i \in 1 .. Len(Slots(d)) :
          /\ Place(d, i)' = Place(d, i)
          /\ Slots(d)'[i] = content'[Place(d, i)[1]][Place(d, i)[2]]
    /\ Chain(d)' = Chain(d) /\ LastCluster(d)' = LastCluster(d)
    /\ (\A c \in Chain(d) : content'[c] = content[c]) => Slots(d)' = Slots(d)

LEMMA DirStays ==
    ASSUME NEW lay, NEW m, Layout(lay), Layout(m)', NEW d \in Dirs, d \in Dirs', m[d] = lay[d]
    PROVE  SameDir(d)
<1>1. Seen(lay, d) /\ Sized(lay, d)
  BY ViewNow DEF View
<1>2. Seen(m, d)' /\ Sized(m, d)'
  BY ViewThen DEF View
<1>3. Len(Slots(d)') = Len(Slots(d)) /\ Slots(d)' \in Seq(SlotType)
  <2>1. Len(Slots(d)') = Len(m[d]) * ClusterSlots /\ Len(Slots(d)) = Len(lay[d]) * ClusterSlots
    BY <1>1, <1>2 DEF Sized
  <2> QED
    BY <1>2, <2>1 DEF Seen
<1>4. ASSUME NEW i \in 1 .. Len(Slots(d))
      PROVE  /\ Place(d, i)' = Place(d, i) /\ Place(d, i)[1] \in Chain(d)
             /\ Slots(d)'[i] = content'[Place(d, i)[1]][Place(d, i)[2]]
             /\ Slots(d)[i] = content[Place(d, i)[1]][Place(d, i)[2]]
  <2>1. PICK k \in 1 .. Len(lay[d]), j \in 1 .. ClusterSlots :
              /\ i = Nth(k, j) /\ Slots(d)[i] = content[lay[d][k]][j] /\ Place(d, i) = <<lay[d][k], j>>
    BY <1>1, Cell
  <2>2. /\ Slots(d)'[Nth(k, j)] = content'[m[d][k]][j]
        /\ Place(d, Nth(k, j))' = <<m[d][k], j>>
    BY <1>2 DEF Seen
  <2>3. lay[d][k] \in Chain(d)
    BY <1>1 DEF Seen
  <2> QED
    BY <2>1, <2>2, <2>3
<1>5. Chain(d)' = Chain(d) /\ LastCluster(d)' = LastCluster(d)
  BY <1>1, <1>2 DEF Seen
<1>6. ASSUME \A c \in Chain(d) : content'[c] = content[c] PROVE Slots(d)' = Slots(d)
  <2>1. Slots(d) \in Seq(SlotType)
    BY <1>1 DEF Seen
  <2>2. \A i \in 1 .. Len(Slots(d)) : Slots(d)'[i] = Slots(d)[i]
    BY <1>4, <1>6
  <2>3. PICK s, t : s = Slots(d) /\ t = Slots(d)'
    OBVIOUS
  <2>4. s \in Seq(SlotType) /\ t \in Seq(SlotType) /\ Len(s) = Len(t) /\ \A i \in 1 .. Len(s) : s[i] = t[i]
    BY <1>3, <2>1, <2>2, <2>3
  <2>5. s = t
    BY <2>4, SeqEqual
  <2> QED
    BY <2>3, <2>5
<1> QED
  BY <1>3, <1>4, <1>5, <1>6 DEF SameDir

LEMMA LayoutIsThen == (\A lay : Layout(lay) <=> LaidCard(lay))'
BY LayoutIs, PTL

\* A step that writes slots of one directory, and neither makes nor breaks a "." in
\* doing so.
Steady == Dirs' = Dirs /\ FreeClusters' = FreeClusters /\ \A d \in Dirs : SameDir(d)

LEMMA ContentStep ==
    ASSUME NEW lay, Layout(lay), NEW d \in Dirs, NEW t \in Seq(SlotType), Len(t) = Len(Slots(d)),
           fat' = fat, DOMAIN content' = AnyCluster,
           \A c \in AnyCluster : c \notin Chain(d) => content'[c] = content[c],
           \A c \in Chain(d) : content'[c] \in [1 .. ClusterSlots -> SlotType],
           \A i \in 1 .. Len(Slots(d)) : content'[Place(d, i)[1]][Place(d, i)[2]] = t[i],
           \A i \in 1 .. Len(Slots(d)) :
              t[i].type = "dot" \/ Slots(d)[i].type = "dot" => t[i] = Slots(d)[i]
    PROVE  /\ Layout(lay)' /\ Steady
           /\ Slots(d)' = t /\ \A e \in Dirs \ {d} : Slots(e)' = Slots(e)
<1>1. DOMAIN lay = Dirs /\ LaidOut(fat, lay) /\ Card(fat, content)
  BY LayoutIs DEF LaidCard
<1>2. Seen(lay, d) /\ Placed(lay, d)
  BY ViewNow, PlacesNow DEF View, Places
<1>3. Chain(d) \subseteq Clusters
  BY <1>2 DEF Placed
<1>4. Card(fat', content')
  <2>1. content'[Eoc] = <<>>
    <3>1. Eoc \notin Chain(d) /\ Eoc \in AnyCluster
      BY <1>3, ClusterFacts
    <3> QED
      BY <1>1, <3>1 DEF Card
  <2>2. ASSUME NEW c \in AnyCluster \ {Eoc} PROVE content'[c] \in [1 .. ClusterSlots -> SlotType]
    <3>1. CASE c \in Chain(d)
      BY <3>1
    <3>2. CASE c \notin Chain(d)
      <4>1. content'[c] = content[c]
        BY <3>2
      <4> QED
        BY <1>1, <4>1 DEF Card
    <3> QED
      BY <3>1, <3>2
  <2> QED
    BY <1>1, <2>1, <2>2 DEF Card
<1>5. ASSUME NEW c \in Clusters PROVE IsDirectory(c)' <=> IsDirectory(c)
  <2> DEFINE dot == [Slot("dot") EXCEPT !.thing = c]
  <2>1. dot.type = "dot"
    BY DEF Slot
  <2> HIDE DEF dot
  <2>2. (content'[c][1] = dot) <=> (content[c][1] = dot)
    <3>1. CASE c \in Chain(d)
      <4>1. PICK k \in 1 .. Len(lay[d]) : c = lay[d][k]
        BY <1>2, <3>1, InChain
      <4>2. 1 \in 1 .. ClusterSlots
        BY Constants
      <4>3. PICK i \in 1 .. Len(Slots(d)) : i = Nth(k, 1) /\ Slots(d)[i] = content[c][1] /\ Place(d, i) = <<c, 1>>
        BY <1>2, <4>1, <4>2 DEF Seen
      <4>4. content'[c][1] = t[i]
        BY <4>3
      <4> QED
        BY <2>1, <4>3, <4>4
    <3>2. CASE c \notin Chain(d)
      BY <3>2, ClusterFacts
    <3> QED
      BY <3>1, <3>2
  <2>3. (content'[c][1] = [Slot("dot") EXCEPT !.thing = c]) <=> (content[c][1] = [Slot("dot") EXCEPT !.thing = c])
    BY <2>2 DEF dot
  <2> QED
    BY <2>3 DEF IsDirectory
<1>6. Dirs' = Dirs
  BY <1>5 DEF Dirs
<1>7. Layout(lay)'
  <2>1. LaidOut(fat', lay)
    BY <1>1
  <2>2. LaidCard(lay)'
    BY <1>1, <1>4, <1>6, <2>1 DEF LaidCard
  <2> QED
    BY <2>2, LayoutIsThen
<1>8. \A e \in Dirs : SameDir(e)
  BY <1>6, <1>7, DirStays
<1>9. Slots(d)' = t
  <2>1. PICK s : s = Slots(d)'
    OBVIOUS
  <2>2. s \in Seq(SlotType) /\ Len(s) = Len(t) /\ \A i \in 1 .. Len(s) : s[i] = t[i]
    BY <1>8, <2>1 DEF SameDir
  <2>3. s = t
    BY <2>2, SeqEqual
  <2> QED
    BY <2>1, <2>3
<1>10. ASSUME NEW e \in Dirs \ {d} PROVE Slots(e)' = Slots(e)
  <2>1. \A c \in Chain(e) : c \in Clusters /\ c \notin Chain(d)
    BY PlacesNow DEF Places, Placed, Apart
  <2>2. \A c \in Chain(e) : content'[c] = content[c]
    BY <2>1, ClusterFacts
  <2> QED
    BY <1>8, <2>2 DEF SameDir
<1>11. FreeClusters' = FreeClusters
  BY DEF FreeClusters
<1> QED
  BY <1>6, <1>7, <1>8, <1>9, <1>10, <1>11 DEF Steady


\* What a step leaves that changes no other directory than d.
OneDir(lay, d) ==
    /\ Layout(lay)' /\ Steady
    /\ \A e \in Dirs \ {d} : Slots(e)' = Slots(e)

LEMMA WriteStep ==
    ASSUME NEW lay, Layout(lay), NEW d \in Dirs, NEW p \in 1 .. Len(Slots(d)), NEW slot \in SlotType,
           slot.type # "dot", Slots(d)[p].type # "dot",
           fat' = fat, content' = Written(Place(d, p), slot)
    PROVE  OneDir(lay, d) /\ \E t : Slots(d)' = t /\ Put(Slots(d), t, p, slot)
<1>1. DOMAIN content = AnyCluster /\ \A c \in AnyCluster \ {Eoc} : content[c] \in [1 .. ClusterSlots -> SlotType]
  BY LayoutIs DEF LaidCard, Card
<1>2. Seen(lay, d) /\ Placed(lay, d) /\ Apart(d, d)
  BY ViewNow, PlacesNow DEF View, Places
<1>3. PICK c, j : c = Place(d, p)[1] /\ j = Place(d, p)[2]
  OBVIOUS
<1>4. c \in Chain(d) /\ c \in Clusters /\ j \in 1 .. ClusterSlots
  BY <1>2, <1>3 DEF Placed
<1>5. c \in AnyCluster \ {Eoc}
  BY <1>4, ClusterFacts
<1>6. content' = [content EXCEPT ![c][j] = slot]
  BY <1>3 DEF Written
<1>7. /\ DOMAIN content' = AnyCluster
      /\ \A x \in AnyCluster : x # c => content'[x] = content[x]
      /\ content'[c] = [content[c] EXCEPT ![j] = slot]
  BY <1>1, <1>5, <1>6
<1>8. content[c] \in [1 .. ClusterSlots -> SlotType]
  BY <1>1, <1>5
<1>9. /\ content'[c] \in [1 .. ClusterSlots -> SlotType]
      /\ \A x \in 1 .. ClusterSlots : content'[c][x] = IF x = j THEN slot ELSE content[c][x]
  BY <1>4, <1>7, <1>8
<1>10. PICK s : s = Slots(d)
  OBVIOUS
<1>11. s \in Seq(SlotType) /\ Len(s) \in Nat /\ p \in 1 .. Len(s)
  BY <1>2, <1>10 DEF Seen
<1> DEFINE t == [i \in 1 .. Len(s) |-> IF i = p THEN slot ELSE s[i]]
<1>12. \A i \in 1 .. Len(s) : s[i] \in SlotType
  BY <1>11, LenProperties
<1>13. t \in Seq(SlotType) /\ Len(t) = Len(s) /\ \A i \in 1 .. Len(s) : t[i] = IF i = p THEN slot ELSE s[i]
  <2>1. PICK n \in Nat : n = Len(s)
    BY <1>11
  <2>2. t \in [1 .. n -> SlotType]
    BY <1>12, <2>1
  <2> QED
    BY <2>1, <2>2
<1> HIDE DEF t
<1>14. ASSUME NEW i \in 1 .. Len(s) PROVE content'[Place(d, i)[1]][Place(d, i)[2]] = t[i]
  <2>1. PICK k \in 1 .. Len(lay[d]), x \in 1 .. ClusterSlots :
              lay[d][k] \in Clusters /\ s[i] = content[lay[d][k]][x] /\ Place(d, i) = <<lay[d][k], x>>
    BY <1>2, <1>10, Cell
  <2>2. PICK y : y = lay[d][k]
    OBVIOUS
  <2>3. y \in AnyCluster /\ s[i] = content[y][x] /\ Place(d, i)[1] = y /\ Place(d, i)[2] = x
        /\ Place(d, i) = <<y, x>>
    <3>1. y \in AnyCluster /\ s[i] = content[y][x]
      BY <2>1, <2>2, ClusterFacts
    <3>2. Place(d, i) = <<y, x>>
      BY <2>1, <2>2
    <3> QED
      BY <3>1, <3>2
  <2>4. CASE y = c /\ x = j
    <3>1. Place(d, p) = <<c, j>>
      <4>1. PICK k2 \in 1 .. Len(lay[d]), x2 \in 1 .. ClusterSlots : Place(d, p) = <<lay[d][k2], x2>>
        BY <1>2, Cell
      <4> QED
        BY <1>3, <4>1
    <3>2. i = p
      BY <1>2, <1>10, <2>3, <2>4, <3>1 DEF Apart
    <3> QED
      BY <1>4, <1>9, <1>13, <2>3, <2>4, <3>2
  <2>5. CASE y = c /\ x # j
    <3>1. i # p
      BY <1>3, <2>3, <2>5
    <3> QED
      BY <1>9, <1>13, <2>3, <2>5, <3>1
  <2>6. CASE y # c
    <3>1. i # p
      BY <1>3, <2>3, <2>6
    <3> QED
      BY <1>7, <1>13, <2>3, <2>6, <3>1
  <2> QED
    BY <2>4, <2>5, <2>6
<1>15. \A i \in 1 .. Len(s) : t[i].type = "dot" \/ s[i].type = "dot" => t[i] = s[i]
  BY <1>10, <1>13
<1>16. \A x \in Chain(d) : content'[x] \in [1 .. ClusterSlots -> SlotType]
  <2> SUFFICES ASSUME NEW x \in Chain(d) PROVE content'[x] \in [1 .. ClusterSlots -> SlotType]
    OBVIOUS
  <2>1. x \in AnyCluster \ {Eoc}
    BY <1>2, ClusterFacts DEF Placed
  <2> QED
    BY <1>1, <1>7, <1>9, <2>1
<1>17. \A x \in AnyCluster : x \notin Chain(d) => content'[x] = content[x]
  BY <1>4, <1>7
<1>18. Layout(lay)' /\ Steady /\ Slots(d)' = t /\ \A e \in Dirs \ {d} : Slots(e)' = Slots(e)
  BY <1>7, <1>10, <1>13, <1>14, <1>15, <1>16, <1>17, ContentStep
<1> QED
  BY <1>10, <1>13, <1>18 DEF OneDir, Put

\* How the call goes on when the slots to l are wiped.
WipeGoes(d, e, l) ==
    /\ l = e => op' = AfterWipe
    /\ l < e => op' = [op EXCEPT !.at = "wiping", !.place = Place(d, l + 1)]

\* A step of the wiping of the slots from p to e takes those of one sector.
LEMMA WipeStep ==
    ASSUME NEW lay, Layout(lay), NEW d \in Dirs,
           NEW p \in 1 .. Len(Slots(d)), NEW e \in 1 .. Len(Slots(d)), p <= e,
           \A i \in p .. e : Slots(d)[i].type # "dot",
           op.place = Place(d, p), op.entry = Place(d, e), Wipe
    PROVE  \E l \in p .. e :
              /\ OneDir(lay, d) /\ \E t : Slots(d)' = t /\ Wiped(Slots(d), t, p, l)
              /\ WipeGoes(d, e, l)
<1>1. DOMAIN content = AnyCluster /\ \A c \in AnyCluster \ {Eoc} : content[c] \in [1 .. ClusterSlots -> SlotType]
  BY LayoutIs DEF LaidCard, Card
<1>2. Seen(lay, d) /\ Placed(lay, d) /\ Apart(d, d) /\ LaidOut(fat, lay) /\ d \in DOMAIN lay
  BY ViewNow, PlacesNow, LayoutIs DEF View, Places, LaidCard
<1>3. PICK q : q = lay[d]
  OBVIOUS
<1>4. PICK s : s = Slots(d)
  OBVIOUS
<1>5. s \in Seq(SlotType) /\ Len(s) \in Nat /\ (\A i \in 1 .. Len(s) : s[i] \in SlotType)
      /\ Len(q) \in Nat \ {0}
  BY <1>2, <1>3, <1>4, LenProperties, SMTT(60) DEF Seen
<1>6. PICK k \in 1 .. Len(q), j \in 1 .. ClusterSlots :
         p = Nth(k, j) /\ q[k] \in Clusters /\ Place(d, p) = <<q[k], j>>
  BY <1>2, <1>3, Cell
<1>7. PICK k2 \in 1 .. Len(q), j2 \in 1 .. ClusterSlots :
         e = Nth(k2, j2) /\ q[k2] \in Clusters /\ Place(d, e) = <<q[k2], j2>>
  <2>1. Seen(lay, d)
    BY <1>2
  <2> QED
    BY <1>3, <2>1, Cell
<1>8. PICK c, c2 : c = q[k] /\ c2 = q[k2]
  OBVIOUS
<1>9. /\ op.place = <<c, j>> /\ op.entry = <<c2, j2>> /\ (c = c2 <=> k = k2)
  <2>1. op.place = <<c, j>> /\ op.entry = <<c2, j2>>
    BY <1>6, <1>7, <1>8
  <2>2. c = c2 => k = k2
    BY <1>2, <1>3, <1>8, DistinctClusters, ZenonT(60)
  <2> QED
    BY <1>8, <2>1, <2>2
<1>10. op.place[1] = c /\ op.place[2] = j /\ op.entry[1] = c2 /\ op.entry[2] = j2
  BY <1>9
<1>11. k \in Nat \ {0} /\ k2 \in Nat \ {0} /\ ClusterSlots \in Nat \ {0} /\ SectorSlots \in Nat \ {0}
       /\ j \in Nat /\ j2 \in Nat
  BY <1>5, Constants
<1>12. k < k2 \/ (k = k2 /\ j <= j2)
  <2>1. Nth(k, j) <= Nth(k2, j2)
    BY <1>6, <1>7
  <2> QED
    BY <1>11, <2>1, NthOrder
<1> DEFINE here == {x \in j .. ClusterSlots :
                       /\ SameSector(<<c, j>>, <<c, x>>)
                       /\ c = c2 => x <= j2}
           m == Max(here)
<1>13. \A x \in j .. ClusterSlots :
          x \in here <=> ((j - 1) \div SectorSlots = (x - 1) \div SectorSlots /\ (k = k2 => x <= j2))
  BY <1>9 DEF SameSector
<1>14. j \in here /\ here \subseteq 0 .. ClusterSlots
  BY <1>11, <1>12, <1>13, SMTT(60)
<1>15. m \in here /\ \A x \in here : x <= m
  <2> HIDE DEF here
  <2> QED
    BY <1>11, <1>14, GreatestElement
<1> HIDE DEF m
<1>16. m \in j .. ClusterSlots /\ (k = k2 => m <= j2)
  BY <1>13, <1>15
<1> HIDE DEF here
<1>17. \A x \in 1 .. ClusterSlots : x \in here <=> x \in j .. m
  <2>1. ASSUME NEW x \in j .. m PROVE x \in here
    <3>1. x \in j .. ClusterSlots /\ (k = k2 => x <= j2)
      BY <1>11, <1>16
    <3>2. j - 1 \in Nat /\ x - 1 \in Nat /\ m - 1 \in Nat /\ j - 1 <= x - 1 /\ x - 1 <= m - 1
      BY <1>11, <1>16
    <3>3. PICK f, g, h : f = (j - 1) \div SectorSlots /\ g = (x - 1) \div SectorSlots /\ h = (m - 1) \div SectorSlots
      OBVIOUS
    <3>4. f \in Nat /\ g \in Nat /\ h \in Nat
      BY <1>11, <3>2, <3>3, Division
    <3>5. f <= g /\ g <= h
      BY <1>11, <3>2, <3>3, DivisionOrder
    <3>6. f = h
      BY <1>13, <1>15, <1>16, <3>3
    <3>7. f = g
      BY <3>4, <3>5, <3>6
    <3> QED
      BY <1>13, <3>1, <3>3, <3>7
  <2>2. ASSUME NEW x \in 1 .. ClusterSlots, x \in here PROVE x \in j .. m
    <3>1. x <= m /\ x >= j
      BY <1>11, <1>14, <1>15, <2>2 DEF here
    <3> QED
      BY <1>11, <1>16, <3>1
  <2>3. \A x \in j .. m : x \in 1 .. ClusterSlots
    BY <1>11, <1>16
  <2> QED
    BY <2>1, <2>2, <2>3
<1>18. m \in 1 .. ClusterSlots /\ m \in Nat
  BY <1>11, <1>16
<1>19. PICK l : l = Nth(k, m)
  OBVIOUS
<1>20. l \in 1 .. Len(s) /\ Place(d, l) = <<c, m>>
  BY <1>2, <1>3, <1>4, <1>8, <1>18, <1>19 DEF Seen
<1>21. l \in p .. e
  <2>1. Nth(k, j) <= Nth(k, m)
    <3>1. j <= m
      BY <1>11, <1>16, <1>18
    <3> QED
      BY <1>11, <1>18, <3>1, NthOrder
  <2>2. Nth(k, m) <= Nth(k2, j2)
    BY <1>11, <1>12, <1>16, <1>18, NthOrder
  <2> QED
    BY <1>5, <1>6, <1>7, <1>19, <1>20, <2>1, <2>2
<1> DEFINE t == [i \in 1 .. Len(s) |-> IF i \in p .. l THEN DeletedSlot ELSE s[i]]
<1>22. t \in Seq(SlotType) /\ Len(t) = Len(s) /\ \A i \in 1 .. Len(s) : t[i] = IF i \in p .. l THEN DeletedSlot ELSE s[i]
  <2>1. PICK n \in Nat : n = Len(s)
    BY <1>5
  <2>2. t \in [1 .. n -> SlotType]
    BY <1>5, <2>1, SlotFacts
  <2> QED
    BY <2>1, <2>2
<1> HIDE DEF t
<1>23. c \in Clusters /\ c \in AnyCluster \ {Eoc} /\ c \in Chain(d)
  <2>1. c \in Chain(d)
    BY <1>2, <1>3, <1>8 DEF Seen
  <2> QED
    BY <1>6, <1>8, <2>1, ClusterFacts
<1>24. /\ content' = [content EXCEPT ![c] =
               [x \in 1 .. ClusterSlots |-> IF x \in here THEN DeletedSlot ELSE @[x]]]
       /\ op' = IF <<c, m>> = op.entry THEN AfterWipe
                ELSE [op EXCEPT !.at = "wiping", !.place = Following(<<c, m>>)]
       /\ fat' = fat
  <2>1. here = {x \in op.place[2] .. ClusterSlots :
                    /\ SameSector(op.place, <<op.place[1], x>>)
                    /\ op.place[1] = op.entry[1] => x <= op.entry[2]}
    BY <1>9, <1>10 DEF here
  <2>2. <<c, m>> = <<op.place[1], Max(here)>>
    BY <1>10 DEF m
  <2> QED
    BY <1>10, <2>1, <2>2 DEF Wipe
<1>25. /\ DOMAIN content' = AnyCluster
       /\ \A x \in AnyCluster : x # c => content'[x] = content[x]
       /\ content'[c] = [x \in 1 .. ClusterSlots |-> IF x \in here THEN DeletedSlot ELSE content[c][x]]
  BY <1>1, <1>23, <1>24
<1>26. content[c] \in [1 .. ClusterSlots -> SlotType]
  BY <1>1, <1>23
<1>27. /\ content'[c] \in [1 .. ClusterSlots -> SlotType]
       /\ \A x \in 1 .. ClusterSlots : content'[c][x] = IF x \in j .. m THEN DeletedSlot ELSE content[c][x]
  <2>1. \A x \in 1 .. ClusterSlots : content[c][x] \in SlotType
    BY <1>26
  <2>2. /\ content'[c] \in [1 .. ClusterSlots -> SlotType]
        /\ \A x \in 1 .. ClusterSlots : content'[c][x] = IF x \in here THEN DeletedSlot ELSE content[c][x]
    BY <1>25, <2>1, SlotFacts
  <2> QED
    BY <1>17, <2>2
<1>28. ASSUME NEW i \in 1 .. Len(s) PROVE content'[Place(d, i)[1]][Place(d, i)[2]] = t[i]
  <2>1. PICK u \in 1 .. Len(q), x \in 1 .. ClusterSlots :
              i = Nth(u, x) /\ q[u] \in Clusters /\ s[i] = content[q[u]][x] /\ Place(d, i) = <<q[u], x>>
    <3>1. Seen(lay, d) /\ i \in 1 .. Len(Slots(d))
      BY <1>2, <1>4
    <3>2. \E u \in 1 .. Len(lay[d]), x \in 1 .. ClusterSlots :
              /\ i = Nth(u, x) /\ lay[d][u] \in Clusters
              /\ Slots(d)[i] = content[lay[d][u]][x] /\ Place(d, i) = <<lay[d][u], x>>
      BY <3>1, Cell, SMTT(60)
    <3> QED
      BY <1>3, <1>4, <3>2
  <2>2. PICK y : y = q[u]
    OBVIOUS
  <2>3. y \in AnyCluster /\ s[i] = content[y][x]
    BY <2>1, <2>2, ClusterFacts
  <2>4. Place(d, i) = <<y, x>>
    BY <2>1, <2>2
  <2>5. Place(d, i)[1] = y /\ Place(d, i)[2] = x
    BY <2>4
  <2>6. u \in Nat \ {0}
    BY <1>5
  <2>7. i \in p .. l <=> (Nth(k, j) <= Nth(u, x) /\ Nth(u, x) <= Nth(k, m))
    BY <1>5, <1>6, <1>19, <1>20, <2>1
  <2>8. CASE u = k
    <3>1. i \in p .. l <=> x \in j .. m
      <4>1. Nth(k, j) <= Nth(u, x) <=> j <= x
        BY <1>11, <2>6, <2>8, NthOrder
      <4>2. Nth(u, x) <= Nth(k, m) <=> x <= m
        BY <1>11, <1>18, <2>6, <2>8, NthOrder
      <4> QED
        BY <1>11, <1>18, <2>7, <4>1, <4>2
    <3> QED
      BY <1>8, <1>22, <1>27, <2>2, <2>3, <2>5, <2>8, <3>1, SMTT(60)
  <2>9. CASE u # k
    <3>1. y # c
      BY <1>2, <1>3, <1>8, <2>2, <2>9, DistinctClusters
    <3>2. i \notin p .. l
      <4>1. Nth(k, j) <= Nth(u, x) <=> k < u
        BY <1>11, <2>6, <2>9, NthOrder
      <4>2. Nth(u, x) <= Nth(k, m) <=> u < k
        BY <1>11, <1>18, <2>6, <2>9, NthOrder
      <4> QED
        BY <1>11, <2>6, <2>7, <4>1, <4>2
    <3> QED
      BY <1>22, <1>25, <2>3, <2>5, <3>1, <3>2
  <2> QED
    BY <2>8, <2>9
<1>29. \A i \in 1 .. Len(s) : t[i].type = "dot" \/ s[i].type = "dot" => t[i] = s[i]
  <2> SUFFICES ASSUME NEW i \in 1 .. Len(s), t[i] # s[i] PROVE t[i].type # "dot" /\ s[i].type # "dot"
    OBVIOUS
  <2>1. i \in p .. l /\ t[i] = DeletedSlot
    BY <1>22
  <2>2. i \in p .. e
    BY <1>21, <2>1
  <2> QED
    BY <1>4, <2>1, <2>2, SlotFacts
<1>30. \A x \in Chain(d) : content'[x] \in [1 .. ClusterSlots -> SlotType]
  <2> SUFFICES ASSUME NEW x \in Chain(d) PROVE content'[x] \in [1 .. ClusterSlots -> SlotType]
    OBVIOUS
  <2>1. x \in AnyCluster \ {Eoc}
    BY <1>2, ClusterFacts DEF Placed
  <2> QED
    BY <1>1, <1>25, <1>27, <2>1
<1>31. \A x \in AnyCluster : x \notin Chain(d) => content'[x] = content[x]
  BY <1>23, <1>25
<1>32. Layout(lay)' /\ Steady /\ Slots(d)' = t /\ \A x \in Dirs \ {d} : Slots(x)' = Slots(x)
  BY <1>4, <1>22, <1>24, <1>25, <1>28, <1>29, <1>30, <1>31, ContentStep
<1>33. OneDir(lay, d) /\ \E u : Slots(d)' = u /\ Wiped(Slots(d), u, p, l)
  BY <1>4, <1>22, <1>32 DEF OneDir, Wiped
<1>34. ASSUME l = e PROVE op' = AfterWipe
  <2>1. <<c, m>> = op.entry
    BY <1>20, <1>34
  <2> QED
    BY <1>24, <2>1
<1>35. ASSUME l < e PROVE op' = [op EXCEPT !.at = "wiping", !.place = Place(d, l + 1)]
  <2>1. <<c, m>> # op.entry
    <3> SUFFICES ASSUME <<c, m>> = op.entry PROVE FALSE
      OBVIOUS
    <3>1. Place(d, l) = Place(d, e)
      BY <1>20
    <3>2. l = e
      BY <1>2, <1>4, <1>20, <3>1 DEF Apart
    <3> QED
      BY <1>5, <1>20, <1>35, <3>2
  <2>2. Following(<<c, m>>) = Place(d, l + 1)
    <3>1. l < Len(Slots(d))
      BY <1>4, <1>5, <1>20, <1>35
    <3> QED
      BY <1>2, <1>4, <1>20, <3>1 DEF Placed
  <2> QED
    BY <1>24, <2>1, <2>2
<1>36. WipeGoes(d, e, l)
  BY <1>34, <1>35 DEF WipeGoes
<1> QED
  BY <1>21, <1>33, <1>36

LEMMA StillStep ==
    ASSUME NEW lay, Layout(lay), fat' = fat, content' = content
    PROVE  Layout(lay)' /\ Steady /\ \A d \in Dirs : Slots(d)' = Slots(d)
<1>1. DOMAIN content = AnyCluster /\ \A c \in AnyCluster \ {Eoc} : content[c] \in [1 .. ClusterSlots -> SlotType]
  BY LayoutIs DEF LaidCard, Card
<1>2. \A d \in Dirs : Seen(lay, d) /\ Placed(lay, d)
  BY ViewNow, PlacesNow DEF View, Places
<1>3. ASSUME NEW d \in Dirs
      PROVE  Layout(lay)' /\ Steady /\ Slots(d)' = Slots(d)
  <2>1. PICK t : t = Slots(d)
    OBVIOUS
  <2>2. t \in Seq(SlotType) /\ Len(t) = Len(Slots(d))
    BY <1>2, <2>1 DEF Seen
  <2>3. \A c \in Chain(d) : content'[c] \in [1 .. ClusterSlots -> SlotType]
    <3> SUFFICES ASSUME NEW c \in Chain(d) PROVE content'[c] \in [1 .. ClusterSlots -> SlotType]
      OBVIOUS
    <3>1. c \in AnyCluster \ {Eoc}
      BY <1>2, ClusterFacts DEF Placed
    <3> QED
      BY <1>1, <3>1
  <2>4. \A i \in 1 .. Len(Slots(d)) : content'[Place(d, i)[1]][Place(d, i)[2]] = t[i]
    BY <1>2, <2>1 DEF Placed, SlotAt
  <2> QED
    BY <1>1, <2>1, <2>2, <2>3, <2>4, ContentStep
<1>4. Root \in Dirs
  BY ClusterFacts DEF Dirs, IsDirectory
<1> QED
  BY <1>3, <1>4

LEMMA FindFreeIs ==
    ASSUME NEW from, FreeClusters # {}
    PROVE  FindFree(from) \in FreeClusters
<1> DEFINE behind == {c \in FreeClusters : c >= from}
<1>1. behind \subseteq Nat /\ FreeClusters \subseteq Nat /\ behind \subseteq FreeClusters
  BY ClusterFacts DEF FreeClusters
<1>2. behind # {} => Min(behind) \in behind
  BY <1>1, LeastElement
<1>3. Min(FreeClusters) \in FreeClusters
  BY <1>1, LeastElement
<1> HIDE DEF behind
<1>4. FindFree(from) = CASE behind # {} -> Min(behind)
                         [] behind = {} /\ FreeClusters # {} -> Min(FreeClusters)
                         [] FreeClusters = {} -> 0
  BY DEF FindFree, behind
<1>5. CASE behind # {}
  <2>1. FindFree(from) = Min(behind)
    BY <1>4, <1>5
  <2> QED
    BY <1>1, <1>2, <1>5, <2>1
<1>6. CASE behind = {}
  <2>1. FindFree(from) = Min(FreeClusters)
    BY <1>4, <1>6
  <2> QED
    BY <1>3, <2>1
<1> QED
  BY <1>5, <1>6

\* A directory grows by a cluster.
LEMMA ExtendStep ==
    ASSUME NEW lay, Layout(lay), NEW d \in Dirs, NEW c \in FreeClusters,
           fat' = [fat EXCEPT ![c] = Eoc, ![LastCluster(d)] = c],
           content' = [content EXCEPT ![c] = EmptyCluster]
    PROVE  /\ (\E m : Layout(m)') /\ Dirs' = Dirs
           /\ FreeClusters' = FreeClusters \ {c}
           /\ Grown(Slots(d), Slots(d)')
           /\ \A i \in 1 .. Len(Slots(d)) : Place(d, i)' = Place(d, i)
           /\ \A i : i = Len(Slots(d)) + 1 => Place(d, i)' = <<c, 1>>
           /\ \A e \in Dirs \ {d} : Slots(e)' = Slots(e) /\ SameDir(e)
<1>1. DOMAIN lay = Dirs /\ LaidOut(fat, lay) /\ Card(fat, content)
  BY LayoutIs DEF LaidCard
<1>2. \A e \in Dirs : Seen(lay, e) /\ Placed(lay, e)
  BY ViewNow, PlacesNow DEF View, Places
<1>3. \A e \in Dirs : lay[e] \in Seq(Clusters) /\ lay[e] # <<>> /\ lay[e][1] = e /\ Linked(fat, lay[e])
                     /\ Len(lay[e]) \in Nat \ {0}
  BY <1>1, <1>2, LaidChain DEF Seen
<1>4. PICK q : q = lay[d]
  OBVIOUS
<1>5. q \in Seq(Clusters) /\ Len(q) \in Nat \ {0} /\ q[1] = d /\ \A k \in 1 .. Len(q) : q[k] \in Clusters
  BY <1>3, <1>4, LenProperties
<1>6. PICK n \in Nat \ {0} : n = Len(q)
  BY <1>5
<1>7. PICK z : z = LastCluster(d)
  OBVIOUS
<1>8. z = q[n] /\ z \in Clusters /\ fat[z] = Eoc
  <2>1. z = q[n]
    BY <1>2, <1>4, <1>6, <1>7 DEF Seen
  <2>2. z \in Chain(d) /\ fat[z] = Eoc
    BY <1>2, <1>7 DEF Placed
  <2> QED
    BY <1>2, <2>1, <2>2 DEF Placed
<1>9. c \in Clusters /\ fat[c] = Free /\ c # z
  BY <1>8, ClusterFacts DEF FreeClusters
<1>10. z \in AnyCluster /\ c \in AnyCluster /\ z # Eoc /\ c # Eoc /\ z # 0 /\ c # 0
  BY <1>8, <1>9, ClusterFacts
<1>11. fat \in [AnyCluster -> 0 .. Eoc] /\ fat[0] = Eoc /\ fat[Eoc] = Eoc /\ DOMAIN content = AnyCluster
       /\ content[Eoc] = <<>> /\ \A x \in AnyCluster \ {Eoc} : content[x] \in [1 .. ClusterSlots -> SlotType]
  BY <1>1 DEF Card
<1>12. /\ \A x \in AnyCluster : fat'[x] = IF x = z THEN c ELSE IF x = c THEN Eoc ELSE fat[x]
       /\ DOMAIN fat' = AnyCluster
  <2>1. fat' = [fat EXCEPT ![c] = Eoc, ![z] = c]
    BY <1>7
  <2> QED
    BY <1>9, <1>10, <1>11, <2>1
<1>13. /\ \A x \in AnyCluster : content'[x] = IF x = c THEN EmptyCluster ELSE content[x]
       /\ DOMAIN content' = AnyCluster
  BY <1>10, <1>11
<1>14. EmptyCluster \in [1 .. ClusterSlots -> SlotType] /\ \A k \in 1 .. ClusterSlots : EmptyCluster[k] = FreeSlot
  BY SlotFacts DEF EmptyCluster
<1>15. Card(fat', content')
  <2>1. fat' \in [AnyCluster -> 0 .. Eoc]
    <3>1. \A x \in AnyCluster : fat'[x] \in 0 .. Eoc
      <4>1. c \in 0 .. Eoc /\ Eoc \in 0 .. Eoc
        BY <1>10, ClusterFacts
      <4>2. \A x \in AnyCluster : fat[x] \in 0 .. Eoc
        BY <1>11
      <4> QED
        BY <1>12, <4>1, <4>2
    <3>2. fat' = [x \in AnyCluster |-> fat'[x]]
      <4>1. fat' = [fat EXCEPT ![c] = Eoc, ![z] = c]
        BY <1>7
      <4> QED
        BY <1>11, <1>12, <4>1
    <3> QED
      BY <3>1, <3>2
  <2>2. fat'[0] = Eoc /\ fat'[Eoc] = Eoc /\ content'[Eoc] = <<>>
    BY <1>10, <1>11, <1>12, <1>13, ClusterFacts
  <2>3. \A x \in AnyCluster \ {Eoc} : content'[x] \in [1 .. ClusterSlots -> SlotType]
    BY <1>11, <1>13, <1>14
  <2> QED
    BY <1>13, <2>1, <2>2, <2>3 DEF Card
<1>16. Dirs' = Dirs
  <2>1. ASSUME NEW x \in Clusters PROVE IsDirectory(x)' <=> IsDirectory(x)
    <3>1. 1 \in 1 .. ClusterSlots
      BY Constants
    <3>2. CASE x = c
      <4>1. c # Root
        <5>1. Root \in Dirs
          BY ClusterFacts DEF Dirs, IsDirectory
        <5>2. Root \in Chain(Root)
          <6>1. 1 \in 1 .. Len(lay[Root]) /\ lay[Root][1] = Root
            BY <1>3, <5>1
          <6> QED
            BY <1>2, <5>1, <6>1 DEF Seen
        <5>3. fat[Root] # Free
          BY <1>2, <5>1, <5>2 DEF Placed
        <5> QED
          BY <1>9, <5>3
      <4>2. ~IsDirectory(c)
        BY <1>9, <4>1 DEF IsDirectory
      <4>3. content'[c][1] = FreeSlot
        BY <1>10, <1>13, <1>14, <3>1
      <4>4. FreeSlot # [Slot("dot") EXCEPT !.thing = c]
        BY DEF FreeSlot, Slot
      <4>5. ~IsDirectory(c)'
        BY <4>1, <4>3, <4>4 DEF IsDirectory
      <4> QED
        BY <3>2, <4>2, <4>5
    <3>3. CASE x # c
      <4>1. content'[x] = content[x]
        BY <1>13, <3>3, ClusterFacts
      <4>2. fat'[x] = Free <=> fat[x] = Free
        BY <1>8, <1>10, <1>12, <3>3, ClusterFacts DEF Free
      <4> QED
        BY <4>1, <4>2 DEF IsDirectory
    <3> QED
      BY <3>2, <3>3
  <2> QED
    BY <2>1 DEF Dirs
<1> DEFINE q2 == Append(q, c)
           m == [lay EXCEPT ![d] = Append(@, c)]
<1>17. /\ DOMAIN m = Dirs /\ m[d] = q2 /\ \A e \in Dirs \ {d} : m[e] = lay[e]
  BY <1>1, <1>4
<1>18. /\ q2 \in Seq(Clusters) /\ Len(q2) = n + 1 /\ q2[n + 1] = c
       /\ \A k \in 1 .. n : q2[k] = q[k]
  BY <1>5, <1>6, <1>9, AppendProperties
<1> HIDE DEF m, q2
<1>19. \A e \in Dirs : \A k \in 1 .. Len(lay[e]) : lay[e][k] # c /\ lay[e][k] \in AnyCluster
  <2> SUFFICES ASSUME NEW e \in Dirs, NEW k \in 1 .. Len(lay[e]) PROVE lay[e][k] # c /\ lay[e][k] \in AnyCluster
    OBVIOUS
  <2>1. lay[e][k] \in Chain(e)
    BY <1>2 DEF Seen
  <2>2. fat[lay[e][k]] # Free /\ lay[e][k] \in Clusters
    BY <1>2, <2>1 DEF Placed
  <2> QED
    BY <1>9, <2>2, ClusterFacts
<1>20. LaidOut(fat', m)
  <2>1. ASSUME NEW e \in Dirs
        PROVE  /\ m[e] \in Seq(Clusters) /\ m[e] # <<>> /\ m[e][1] = e
               /\ \A k \in 1 .. Len(m[e]) : fat'[m[e][k]] = IF k = Len(m[e]) THEN Eoc ELSE m[e][k + 1]
    <3>1. CASE e = d
      <4>1. q2 # <<>>
        <5>1. Len(q2) # 0
          BY <1>18
        <5> QED
          BY <1>18, <5>1, EmptySeq
      <4>2. q2[1] = d
        BY <1>5, <1>6, <1>18
      <4>3. ASSUME NEW k \in 1 .. n + 1 PROVE fat'[q2[k]] = IF k = n + 1 THEN Eoc ELSE q2[k + 1]
        <5>1. CASE k = n + 1
          BY <1>9, <1>10, <1>12, <1>18, <5>1
        <5>2. CASE k = n
          <6>1. n \in 1 .. n /\ n # n + 1
            OBVIOUS
          <6> QED
            BY <1>8, <1>10, <1>12, <1>18, <5>2, <6>1
        <5>3. CASE k # n /\ k # n + 1
          <6>1. k \in 1 .. n /\ k + 1 \in 1 .. n
            BY <5>3
          <6>2. q[k] # z
            <7>1. q[k] = q[n] => k = n
              <8>1. n \in 1 .. n
                OBVIOUS
              <8>2. \A i, j \in 1 .. Len(q) : q[i] = q[j] => i = j
                BY <1>1, <1>4, LaidChain
              <8> QED
                BY <1>6, <6>1, <8>1, <8>2
            <7> QED
              BY <1>8, <5>3, <7>1
          <6>3. q[k] # c /\ q[k] \in AnyCluster
            BY <1>4, <1>6, <1>19, <6>1
          <6>4. fat'[q[k]] = fat[q[k]]
            BY <1>12, <6>2, <6>3
          <6>5. fat[q[k]] = q[k + 1]
            BY <1>3, <1>4, <1>6, <5>3, <6>1 DEF Linked
          <6> QED
            BY <1>18, <5>3, <6>1, <6>4, <6>5
        <5> QED
          BY <5>1, <5>2, <5>3
      <4> QED
        BY <1>17, <1>18, <3>1, <4>1, <4>2, <4>3
    <3>2. CASE e # d
      <4>1. m[e] = lay[e]
        BY <1>17, <3>2
      <4>2. ASSUME NEW k \in 1 .. Len(lay[e]) PROVE fat'[lay[e][k]] = IF k = Len(lay[e]) THEN Eoc ELSE lay[e][k + 1]
        <5>1. lay[e][k] # z
          <6>1. n \in 1 .. Len(lay[d]) /\ z = lay[d][n]
            BY <1>4, <1>6, <1>8
          <6> QED
            BY <1>1, <3>2, <6>1, DistinctClusters
        <5>2. fat'[lay[e][k]] = fat[lay[e][k]]
          BY <1>12, <1>19, <5>1
        <5> QED
          BY <1>3, <5>2 DEF Linked
      <4> QED
        BY <1>3, <4>1, <4>2
    <3> QED
      BY <3>1, <3>2
  <2>2. ASSUME NEW e \in Dirs, NEW f \in Dirs, NEW j \in 1 .. Len(m[e]), NEW k \in 1 .. Len(m[f]), m[e][j] = m[f][k]
        PROVE  e = f /\ j = k
    <3>1. ASSUME NEW x \in Dirs, NEW i \in 1 .. Len(m[x])
          PROVE  \/ x = d /\ i = n + 1 /\ m[x][i] = c
                 \/ i \in 1 .. Len(lay[x]) /\ m[x][i] = lay[x][i] /\ m[x][i] # c
      <4>1. CASE x = d
        <5>1. CASE i = n + 1
          BY <1>17, <1>18, <4>1, <5>1
        <5>2. CASE i # n + 1
          <6>1. i \in 1 .. n
            BY <1>17, <1>18, <4>1, <5>2
          <6>2. m[x][i] = lay[x][i] /\ i \in 1 .. Len(lay[x])
            BY <1>4, <1>6, <1>17, <1>18, <4>1, <6>1
          <6> QED
            BY <1>19, <6>2
        <5> QED
          BY <5>1, <5>2
      <4>2. CASE x # d
        BY <1>17, <1>19, <4>2
      <4> QED
        BY <4>1, <4>2
    <3>a. /\ \/ e = d /\ j = n + 1 /\ m[e][j] = c
             \/ j \in 1 .. Len(lay[e]) /\ m[e][j] = lay[e][j] /\ m[e][j] # c
          /\ \/ f = d /\ k = n + 1 /\ m[f][k] = c
             \/ k \in 1 .. Len(lay[f]) /\ m[f][k] = lay[f][k] /\ m[f][k] # c
      BY <3>1
    <3>2. CASE m[e][j] = c
      BY <2>2, <3>a, <3>2
    <3>3. CASE m[e][j] # c
      <4>1. /\ j \in 1 .. Len(lay[e]) /\ m[e][j] = lay[e][j]
            /\ k \in 1 .. Len(lay[f]) /\ m[f][k] = lay[f][k]
        BY <2>2, <3>a, <3>3
      <4>2. e \in DOMAIN lay /\ f \in DOMAIN lay /\ lay[e][j] = lay[f][k]
        BY <1>1, <2>2, <4>1
      <4>3. j \in 1 .. Len(lay[e]) /\ k \in 1 .. Len(lay[f])
        BY <4>1
      <4> QED
        BY <1>1, <4>2, <4>3, DistinctClusters
    <3> QED
      BY <3>2, <3>3
  <2> QED
    BY <1>17, <2>1, <2>2 DEF LaidOut
<1>21. Layout(m)'
  <2>1. LaidCard(m)'
    BY <1>15, <1>16, <1>17, <1>20 DEF LaidCard
  <2> QED
    BY <2>1, LayoutIsThen
<1>22. FreeClusters' = FreeClusters \ {c}
  <2>1. \A x \in Clusters : fat'[x] = Free <=> (fat[x] = Free /\ x # c)
    BY <1>8, <1>9, <1>10, <1>12, ClusterFacts DEF Free
  <2> QED
    BY <2>1 DEF FreeClusters
<1>23. ASSUME NEW e \in Dirs \ {d} PROVE Slots(e)' = Slots(e) /\ SameDir(e)
  <2>1. SameDir(e)
    BY <1>16, <1>17, <1>21, DirStays
  <2>2. \A x \in Chain(e) : x # c /\ x \in AnyCluster
    BY <1>2, <1>9, ClusterFacts DEF Placed
  <2>3. \A x \in Chain(e) : content'[x] = content[x]
    BY <1>13, <2>2
  <2> QED
    BY <2>1, <2>3 DEF SameDir
<1>24. Seen(lay, d) /\ Sized(lay, d) /\ Seen(m, d)' /\ Sized(m, d)'
  BY <1>16, <1>21, ViewNow, ViewThen DEF View
<1>25. PICK s, t : s = Slots(d) /\ t = Slots(d)'
  OBVIOUS
<1>26. /\ Len(s) = n * ClusterSlots /\ Len(t) = (n + 1) * ClusterSlots /\ Len(s) \in Nat
       /\ ClusterSlots \in Nat \ {0, 1}
  BY <1>4, <1>6, <1>17, <1>18, <1>24, <1>25, Constants DEF Seen, Sized
<1>27. Len(t) = Len(s) + ClusterSlots
  BY <1>26
<1>28. Nth(n + 1, 1) = Len(s) + 1
  <2>1. Nth(n, ClusterSlots) = Len(Slots(d))
    <3>1. n \in 1 .. Len(lay[d]) /\ ClusterSlots \in 1 .. ClusterSlots /\ n = Len(lay[d])
      BY <1>4, <1>6, <1>26
    <3> QED
      BY <1>24, <3>1, NthNext
  <2> QED
    BY <1>25, <2>1, NthCarry
<1>29. ASSUME NEW k \in 1 .. n, NEW j \in 1 .. ClusterSlots
       PROVE  /\ Nth(k, j) \in 1 .. Len(s) /\ t[Nth(k, j)] = s[Nth(k, j)]
              /\ Place(d, Nth(k, j))' = Place(d, Nth(k, j))
  <2>1. k \in 1 .. Len(m[d]) /\ m[d][k] = q[k]
    BY <1>17, <1>18
  <2>2. t[Nth(k, j)] = content'[q[k]][j] /\ Place(d, Nth(k, j))' = <<q[k], j>>
    BY <1>24, <1>25, <2>1 DEF Seen
  <2>3. /\ Nth(k, j) \in 1 .. Len(s) /\ s[Nth(k, j)] = content[q[k]][j]
        /\ Place(d, Nth(k, j)) = <<q[k], j>>
    BY <1>4, <1>6, <1>24, <1>25 DEF Seen
  <2>4. content'[q[k]] = content[q[k]]
    BY <1>4, <1>6, <1>13, <1>19
  <2> QED
    BY <2>2, <2>3, <2>4
<1>30. ASSUME NEW j \in 1 .. ClusterSlots
       PROVE  /\ Nth(n + 1, j) > Len(s) /\ t[Nth(n + 1, j)] = FreeSlot
              /\ Place(d, Nth(n + 1, j))' = <<c, j>>
  <2>1. n + 1 \in 1 .. Len(m[d]) /\ m[d][n + 1] = c
    BY <1>17, <1>18
  <2>2. t[Nth(n + 1, j)] = content'[c][j] /\ Place(d, Nth(n + 1, j))' = <<c, j>>
        /\ Nth(n + 1, j) \in 1 .. Len(t)
    BY <1>24, <1>25, <2>1 DEF Seen
  <2>3. content'[c][j] = FreeSlot
    BY <1>10, <1>13, <1>14
  <2>4. Nth(n + 1, 1) <= Nth(n + 1, j)
    <3>1. n + 1 \in Nat \ {0} /\ 1 \in 1 .. ClusterSlots /\ 1 <= j
      BY <1>26
    <3> QED
      BY <3>1, NthOrder
  <2> QED
    BY <1>26, <1>27, <1>28, <2>2, <2>3, <2>4
<1>31. Grown(s, t)
  <2>1. ASSUME NEW i \in 1 .. Len(t) PROVE t[i] = IF i <= Len(s) THEN s[i] ELSE FreeSlot
    <3>1. PICK k \in 1 .. Len(m[d]), j \in 1 .. ClusterSlots : i = Nth(k, j)
      BY <1>24, <1>25 DEF Seen
    <3>2. CASE k = n + 1
      <4>1. i > Len(s) /\ t[i] = FreeSlot
        BY <1>30, <3>1, <3>2
      <4> QED
        BY <1>26, <4>1
    <3>3. CASE k # n + 1
      <4>1. k \in 1 .. n
        BY <1>17, <1>18, <3>3
      <4>2. i \in 1 .. Len(s) /\ t[i] = s[i]
        BY <1>29, <3>1, <4>1
      <4> QED
        BY <4>2
    <3> QED
      BY <3>2, <3>3
  <2> QED
    BY <1>27, <2>1 DEF Grown
<1>32. \A i \in 1 .. Len(s) : Place(d, i)' = Place(d, i)
  <2> SUFFICES ASSUME NEW i \in 1 .. Len(s) PROVE Place(d, i)' = Place(d, i)
    OBVIOUS
  <2>1. PICK k \in 1 .. n, j \in 1 .. ClusterSlots : i = Nth(k, j)
    BY <1>4, <1>6, <1>24, <1>25 DEF Seen
  <2> QED
    BY <1>29, <2>1
<1>33. \A i : i = Len(s) + 1 => Place(d, i)' = <<c, 1>>
  <2>1. 1 \in 1 .. ClusterSlots
    BY <1>26
  <2>2. Place(d, Nth(n + 1, 1))' = <<c, 1>>
    BY <1>30, <2>1
  <2> QED
    BY <1>28, <2>2
<1>35. \E x : Layout(x)'
  BY <1>21
<1>36. /\ Grown(Slots(d), Slots(d)')
       /\ \A i \in 1 .. Len(Slots(d)) : Place(d, i)' = Place(d, i)
       /\ \A i : i = Len(Slots(d)) + 1 => Place(d, i)' = <<c, 1>>
  BY <1>25, <1>31, <1>32, <1>33
<1>37. \A e \in Dirs \ {d} : Slots(e)' = Slots(e) /\ SameDir(e)
  BY <1>23
<1> HIDE DEF q2, m
<1> QED
  BY <1>16, <1>22, <1>35, <1>36, <1>37

LEMMA OwnCluster ==
    ASSUME NEW lay, Layout(lay), NEW d \in Dirs
    PROVE  d \in Chain(d) /\ d \in Clusters /\ fat[d] # Free /\ Root \in Dirs
<1>1. Seen(lay, d) /\ Placed(lay, d)
  BY ViewNow, PlacesNow DEF View, Places
<1>2. 1 \in 1 .. Len(lay[d]) /\ lay[d][1] = d
  BY <1>1 DEF Seen
<1>3. d \in Chain(d)
  BY <1>1, <1>2 DEF Seen
<1>4. Root \in Dirs
  BY ClusterFacts DEF Dirs, IsDirectory
<1> QED
  BY <1>1, <1>3, <1>4 DEF Placed

\* The chain of a removed directory is freed.
LEMMA ReleaseStep ==
    ASSUME NEW lay, Layout(lay), NEW x \in Dirs, x # Root,
           fat' = [c \in AnyCluster |-> IF c \in Chain(x) THEN Free ELSE fat[c]],
           content' = content
    PROVE  /\ (\E m : Layout(m)') /\ Dirs' = Dirs \ {x}
           /\ \A e \in Dirs \ {x} : Slots(e)' = Slots(e) /\ SameDir(e)
<1>1. DOMAIN lay = Dirs /\ LaidOut(fat, lay) /\ Card(fat, content)
  BY LayoutIs DEF LaidCard
<1>2. \A e \in Dirs : Seen(lay, e) /\ Placed(lay, e)
  BY ViewNow, PlacesNow DEF View, Places
<1>3. fat \in [AnyCluster -> 0 .. Eoc] /\ fat[0] = Eoc /\ fat[Eoc] = Eoc
  BY <1>1 DEF Card
<1>4. /\ DOMAIN fat' = AnyCluster
      /\ \A c \in AnyCluster : fat'[c] = IF c \in Chain(x) THEN Free ELSE fat[c]
  OBVIOUS
<1>5. Chain(x) \subseteq Clusters
  BY <1>2 DEF Placed
<1>6. Card(fat', content')
  <2>1. fat' \in [AnyCluster -> 0 .. Eoc]
    <3>1. \A c \in AnyCluster : fat[c] \in 0 .. Eoc /\ Free \in 0 .. Eoc
      BY <1>3, ClusterFacts DEF Free
    <3> QED
      BY <3>1
  <2>2. fat'[0] = Eoc /\ fat'[Eoc] = Eoc
    BY <1>3, <1>4, <1>5, ClusterFacts
  <2> QED
    BY <1>1, <2>1, <2>2 DEF Card
<1>7. Dirs' = Dirs \ {x}
  <2>1. ASSUME NEW c \in Clusters PROVE IsDirectory(c)' <=> IsDirectory(c) /\ c # x
    <3>1. CASE c = Root
      BY <3>1 DEF IsDirectory
    <3>2. CASE c # Root /\ c \in Chain(x)
      <4>1. fat'[c] = Free
        BY <1>4, <3>2, ClusterFacts
      <4>2. ~IsDirectory(c)'
        BY <3>2, <4>1 DEF IsDirectory
      <4>3. IsDirectory(c) => c = x
        <5> SUFFICES ASSUME IsDirectory(c) PROVE c = x
          OBVIOUS
        <5>1. c \in Dirs
          BY DEF Dirs
        <5>2. c \in Chain(c) /\ Apart(c, x)
          BY <5>1, OwnCluster, PlacesNow DEF Places
        <5> QED
          BY <3>2, <5>2 DEF Apart
      <4> QED
        BY <4>2, <4>3
    <3>3. CASE c # Root /\ c \notin Chain(x)
      <4>1. fat'[c] = fat[c]
        BY <1>4, <3>3, ClusterFacts
      <4>2. c # x
        BY <3>3, OwnCluster
      <4> QED
        BY <4>1, <4>2 DEF IsDirectory
    <3> QED
      BY <3>1, <3>2, <3>3
  <2> QED
    BY <2>1 DEF Dirs
<1>8. PICK m : m = [e \in Dirs \ {x} |-> lay[e]]
  OBVIOUS
<1>9. DOMAIN m = Dirs \ {x} /\ \A e \in Dirs \ {x} : m[e] = lay[e]
  BY <1>8
<1>10. LaidOut(fat', m)
  <2>1. ASSUME NEW e \in Dirs \ {x}, NEW k \in 1 .. Len(lay[e])
        PROVE  fat'[lay[e][k]] = IF k = Len(lay[e]) THEN Eoc ELSE lay[e][k + 1]
    <3>1. lay[e][k] \in Chain(e) /\ lay[e][k] \in Clusters
      BY <1>2 DEF Seen
    <3>2. lay[e][k] \notin Chain(x)
      BY <3>1, PlacesNow DEF Places, Apart
    <3>3. fat'[lay[e][k]] = fat[lay[e][k]]
      BY <1>4, <3>1, <3>2, ClusterFacts
    <3> QED
      BY <1>1, <3>3, LaidChain DEF Linked
  <2>2. \A e \in Dirs \ {x} : lay[e] \in Seq(Clusters) /\ lay[e] # <<>> /\ lay[e][1] = e
    BY <1>1, LaidChain
  <2>3. \A d, e \in Dirs \ {x} : \A j \in 1 .. Len(lay[d]), k \in 1 .. Len(lay[e]) :
           lay[d][j] = lay[e][k] => d = e /\ j = k
    BY <1>1 DEF LaidOut
  <2> QED
    BY <1>9, <2>1, <2>2, <2>3 DEF LaidOut
<1>11. Layout(m)'
  <2>1. LaidCard(m)'
    BY <1>6, <1>7, <1>9, <1>10 DEF LaidCard
  <2> QED
    BY <2>1, LayoutIsThen
<1>12. ASSUME NEW e \in Dirs \ {x} PROVE Slots(e)' = Slots(e) /\ SameDir(e)
  <2>1. SameDir(e)
    BY <1>7, <1>9, <1>11, DirStays
  <2> QED
    BY <2>1 DEF SameDir
<1> QED
  BY <1>7, <1>8, <1>11, <1>12

LEMMA FirstDot ==
    ASSUME NEW c
    PROVE  Dot(0, c) = [Slot("dot") EXCEPT !.thing = c]
<1> DEFINE r == Slot("dot")
           a == [r EXCEPT !.number = 0, !.thing = c]
           b == [r EXCEPT !.thing = c]
<1>1. DOMAIN r = {"type", "name", "number", "key", "thing"} /\ r.number = 0 /\ r = [x \in DOMAIN r |-> r[x]]
  BY DEF Slot
<1>2. Dot(0, c) = a
  BY DEF Dot
<1> HIDE DEF r
<1>3. a = [x \in DOMAIN r |-> IF x = "thing" THEN c ELSE r[x]]
  BY <1>1
<1>4. b = [x \in DOMAIN r |-> IF x = "thing" THEN c ELSE r[x]]
  BY <1>1
<1> QED
  BY <1>2, <1>3, <1>4 DEF r

\* A new directory: its entry gets its cluster.
Made(d, p, slot, c) ==
    /\ c \in Clusters \ Dirs /\ Dirs' = Dirs \cup {c}
    /\ \E m : Layout(m)'
    /\ Put(Slots(d), Slots(d)', p, slot)
    /\ \A e \in Dirs : SameDir(e)
    /\ \A e \in Dirs \ {d} : Slots(e)' = Slots(e)
    /\ Slots(c)' \in Seq(SlotType) /\ Len(Slots(c)') = ClusterSlots
    /\ \A i \in 1 .. ClusterSlots : Slots(c)'[i] =
          IF i = 1 THEN Dot(0, c) ELSE IF i = 2 THEN Dot(1, d) ELSE FreeSlot

LEMMA MadeStep ==
    ASSUME NEW lay, Layout(lay), MkdirSlots = ClusterSlots, NEW d \in Dirs,
           NEW p \in 1 .. Len(Slots(d)), NEW slot \in SlotType,
           slot.type # "dot", Slots(d)[p].type # "dot",
           NEW c \in FreeClusters,
           fat' = [fat EXCEPT ![c] = Eoc],
           content' = [Written(Place(d, p), slot) EXCEPT ![c] = NewDirectory(c, d)]
    PROVE  Made(d, p, slot, c)
<1>1. DOMAIN lay = Dirs /\ LaidOut(fat, lay) /\ Card(fat, content)
  BY LayoutIs DEF LaidCard
<1>2. \A e \in Dirs : Seen(lay, e) /\ Placed(lay, e)
  BY ViewNow, PlacesNow DEF View, Places
<1>3. /\ fat \in [AnyCluster -> 0 .. Eoc] /\ fat[0] = Eoc /\ fat[Eoc] = Eoc
      /\ DOMAIN content = AnyCluster /\ content[Eoc] = <<>>
      /\ \A x \in AnyCluster \ {Eoc} : content[x] \in [1 .. ClusterSlots -> SlotType]
  BY <1>1 DEF Card
<1>4. c \in Clusters /\ fat[c] = Free /\ c \in AnyCluster /\ c # Eoc /\ c # 0
  BY ClusterFacts DEF FreeClusters
<1>5. c \notin Dirs
  BY <1>4, OwnCluster
<1>6. \A e \in Dirs : \A k \in 1 .. Len(lay[e]) : lay[e][k] # c /\ lay[e][k] \in AnyCluster
  <2> SUFFICES ASSUME NEW e \in Dirs, NEW k \in 1 .. Len(lay[e]) PROVE lay[e][k] # c /\ lay[e][k] \in AnyCluster
    OBVIOUS
  <2>1. lay[e][k] \in Chain(e)
    BY <1>2, SMTT(60) DEF Seen
  <2>2. fat[lay[e][k]] # Free /\ lay[e][k] \in Clusters
    BY <1>2, <2>1 DEF Placed
  <2> QED
    BY <1>4, <2>2, ClusterFacts
<1>7. PICK y, j : y = Place(d, p)[1] /\ j = Place(d, p)[2]
  OBVIOUS
<1>8. y \in Chain(d) /\ y \in Clusters /\ j \in 1 .. ClusterSlots /\ y # c /\ y \in AnyCluster \ {Eoc}
  <2>1. y \in Chain(d) /\ y \in Clusters /\ j \in 1 .. ClusterSlots
    BY <1>2, <1>7 DEF Placed
  <2>2. fat[y] # Free
    BY <1>2, <2>1 DEF Placed
  <2> QED
    BY <1>4, <2>1, <2>2, ClusterFacts
<1>9. content[y][j] = Slots(d)[p]
  BY <1>2, <1>7 DEF Placed, SlotAt
<1>10. PICK new : new = NewDirectory(c, d)
  OBVIOUS
<1>11. /\ new \in [1 .. ClusterSlots -> SlotType]
       /\ \A i \in 1 .. ClusterSlots : new[i] = IF i = 1 THEN Dot(0, c) ELSE IF i = 2 THEN Dot(1, d) ELSE FreeSlot
  <2>1. 1 \in 1 .. ClusterSlots /\ 2 \in 1 .. ClusterSlots /\ ClusterSlots \in Nat
    BY Constants
  <2>2. new = [k \in 1 .. ClusterSlots |->
        CASE k = 1 -> Dot(0, c)
          [] k = 2 -> Dot(1, d)
          [] k \in 3 .. ClusterSlots -> FreeSlot
          [] OTHER -> content[c][k]]
    BY <1>10 DEF NewDirectory
  <2>3. ASSUME NEW i \in 1 .. ClusterSlots
        PROVE new[i] = IF i = 1 THEN Dot(0, c) ELSE IF i = 2 THEN Dot(1, d) ELSE FreeSlot
    <3>1. i = 1 \/ i = 2 \/ i \in 3 .. ClusterSlots
      BY <2>1
    <3> QED
      BY <2>2, <3>1
  <2>4. Dot(0, c) \in SlotType /\ Dot(1, d) \in SlotType /\ FreeSlot \in SlotType
    <3>1. 0 \in 0 .. ClusterSlots * NumClusters /\ 1 \in 0 .. ClusterSlots * NumClusters
      <4>1. ClusterSlots * 1 <= ClusterSlots * NumClusters /\ ClusterSlots * NumClusters \in Nat
        <5>1. ClusterSlots \in Nat /\ NumClusters \in Nat /\ 1 <= NumClusters
          BY Constants
        <5> QED
          BY <5>1, Times
      <4>2. ClusterSlots * 1 = ClusterSlots /\ ClusterSlots >= 1
        BY Constants
      <4> QED
        BY <2>1, <4>1, <4>2
    <3>2. c \in Things /\ d \in Things /\ NoKey \in Keys
      BY <1>4, OwnCluster, ClusterFacts DEF Things, Keys
    <3> QED
      BY <3>1, <3>2, SlotFacts DEF Dot, Slot, SlotType
  <2> HIDE DEF Dot
  <2>5. \A i \in 1 .. ClusterSlots : new[i] \in SlotType
    BY <2>3, <2>4
  <2> QED
    BY <2>2, <2>3, <2>5
<1>12. /\ DOMAIN content' = AnyCluster /\ content'[c] = new
       /\ content'[y] = [content[y] EXCEPT ![j] = slot]
       /\ \A x \in AnyCluster : x # y /\ x # c => content'[x] = content[x]
  <2>1. content' = [[content EXCEPT ![y][j] = slot] EXCEPT ![c] = new]
    BY <1>7, <1>10 DEF Written
  <2> QED
    BY <1>3, <1>4, <1>8, <2>1
<1>13. /\ content'[y] \in [1 .. ClusterSlots -> SlotType]
       /\ \A x \in 1 .. ClusterSlots : content'[y][x] = IF x = j THEN slot ELSE content[y][x]
  <2>1. content[y] \in [1 .. ClusterSlots -> SlotType]
    BY <1>3, <1>8
  <2> QED
    BY <1>8, <1>12, <2>1, ZenonT(60)
<1>14. DOMAIN fat' = AnyCluster /\ \A x \in AnyCluster : fat'[x] = IF x = c THEN Eoc ELSE fat[x]
  BY <1>3
<1>15. Card(fat', content')
  <2>1. fat' \in [AnyCluster -> 0 .. Eoc]
    BY <1>3, ClusterFacts
  <2>2. fat'[0] = Eoc /\ fat'[Eoc] = Eoc /\ content'[Eoc] = <<>>
    BY <1>3, <1>4, <1>8, <1>12, <1>14, ClusterFacts
  <2>3. \A x \in AnyCluster \ {Eoc} : content'[x] \in [1 .. ClusterSlots -> SlotType]
    BY <1>3, <1>11, <1>12, <1>13
  <2> QED
    BY <1>12, <2>1, <2>2, <2>3 DEF Card
<1>16. 1 \in 1 .. ClusterSlots
  BY Constants
<1>17. Dirs' = Dirs \cup {c}
  <2>1. ASSUME NEW x \in Clusters PROVE IsDirectory(x)' <=> IsDirectory(x) \/ x = c
    <3> DEFINE dot == [Slot("dot") EXCEPT !.thing = x]
    <3>1. dot.type = "dot"
      BY DEF Slot
    <3>2. CASE x = c
      <4>1. content'[c][1] = Dot(0, c)
        BY <1>11, <1>12, <1>16
      <4>2. Dot(0, c) = [Slot("dot") EXCEPT !.thing = c]
        BY FirstDot
      <4>3. fat'[c] # Free /\ IsLink(c)
        BY <1>4, <1>14, ClusterFacts
      <4> QED
        BY <3>2, <4>1, <4>2, <4>3 DEF IsDirectory
    <3>3. CASE x # c
      <4>1. fat'[x] = fat[x]
        BY <1>14, <3>3, ClusterFacts
      <4>2. (content'[x][1] = dot) <=> (content[x][1] = dot)
        <5> HIDE DEF dot
        <5>1. CASE x = y
          <6>1. CASE j = 1
            BY <1>8, <1>9, <1>13, <3>1, <5>1, <6>1
          <6>2. CASE j # 1
            BY <1>13, <1>16, <5>1, <6>2
          <6> QED
            BY <6>1, <6>2
        <5>2. CASE x # y
          BY <1>12, <3>3, <5>2, ClusterFacts
        <5> QED
          BY <5>1, <5>2
      <4>3. (content'[x][1] = [Slot("dot") EXCEPT !.thing = x]) <=> (content[x][1] = [Slot("dot") EXCEPT !.thing = x])
        BY <4>2 DEF dot
      <4> QED
        BY <3>3, <4>1, <4>3 DEF IsDirectory
    <3> QED
      BY <3>2, <3>3
  <2> QED
    BY <1>4, <2>1 DEF Dirs
<1>18. PICK m : m = [e \in Dirs \cup {c} |-> IF e = c THEN <<c>> ELSE lay[e]]
  OBVIOUS
<1>19. DOMAIN m = Dirs \cup {c} /\ m[c] = <<c>> /\ \A e \in Dirs : m[e] = lay[e]
  BY <1>5, <1>18
<1>20. LaidOut(fat', m)
  <2>1. ASSUME NEW e \in Dirs \cup {c}
        PROVE  /\ m[e] \in Seq(Clusters) /\ m[e] # <<>> /\ m[e][1] = e
               /\ \A k \in 1 .. Len(m[e]) : fat'[m[e][k]] = IF k = Len(m[e]) THEN Eoc ELSE m[e][k + 1]
    <3>1. CASE e = c
      <4>1. <<c>> \in Seq(Clusters) /\ Len(<<c>>) = 1 /\ <<c>>[1] = c /\ <<c>> # <<>>
        BY <1>4
      <4>2. fat'[c] = Eoc
        BY <1>4, <1>14
      <4>3. \A k \in 1 .. Len(m[e]) : fat'[m[e][k]] = IF k = Len(m[e]) THEN Eoc ELSE m[e][k + 1]
        <5> SUFFICES ASSUME NEW k \in 1 .. Len(m[e]) PROVE fat'[m[e][k]] = IF k = Len(m[e]) THEN Eoc ELSE m[e][k + 1]
          OBVIOUS
        <5>1. k = 1
          <6>1. Len(m[e]) = 1
            BY <1>19, <3>1, <4>1
          <6> QED
            BY <6>1
        <5> QED
          BY <1>19, <3>1, <4>1, <4>2, <5>1
      <4> QED
        BY <1>19, <3>1, <4>1, <4>3
    <3>2. CASE e # c
      <4>1. e \in Dirs /\ m[e] = lay[e]
        BY <1>19, <3>2
      <4>2. lay[e] \in Seq(Clusters) /\ lay[e] # <<>> /\ lay[e][1] = e /\ Linked(fat, lay[e])
        BY <1>1, <4>1, LaidChain
      <4>3. ASSUME NEW k \in 1 .. Len(lay[e]) PROVE fat'[lay[e][k]] = IF k = Len(lay[e]) THEN Eoc ELSE lay[e][k + 1]
        <5>1. fat'[lay[e][k]] = fat[lay[e][k]]
          BY <1>6, <1>14, <4>1
        <5> QED
          BY <4>2, <5>1 DEF Linked
      <4> QED
        BY <4>1, <4>2, <4>3
    <3> QED
      BY <3>1, <3>2
  <2>2. ASSUME NEW e \in Dirs \cup {c}, NEW f \in Dirs \cup {c}, NEW i \in 1 .. Len(m[e]), NEW k \in 1 .. Len(m[f]),
               m[e][i] = m[f][k]
        PROVE  e = f /\ i = k
    <3>1. Len(<<c>>) = 1 /\ <<c>>[1] = c
      OBVIOUS
    <3>2. ASSUME NEW x \in Dirs \cup {c}, NEW u \in 1 .. Len(m[x])
          PROVE  \/ x = c /\ u = 1 /\ m[x][u] = c
                 \/ x \in Dirs /\ u \in 1 .. Len(lay[x]) /\ m[x][u] = lay[x][u] /\ m[x][u] # c
      <4>1. CASE x = c
        <5>1. u = 1
          <6>1. Len(m[x]) = 1
            BY <1>19, <3>1, <4>1
          <6> QED
            BY <6>1
        <5> QED
          BY <1>19, <3>1, <4>1, <5>1
      <4>2. CASE x # c
        BY <1>6, <1>19, <4>2
      <4> QED
        BY <4>1, <4>2
    <3>3. /\ \/ e = c /\ i = 1 /\ m[e][i] = c
             \/ e \in Dirs /\ i \in 1 .. Len(lay[e]) /\ m[e][i] = lay[e][i] /\ m[e][i] # c
          /\ \/ f = c /\ k = 1 /\ m[f][k] = c
             \/ f \in Dirs /\ k \in 1 .. Len(lay[f]) /\ m[f][k] = lay[f][k] /\ m[f][k] # c
      BY <3>2
    <3>4. CASE m[e][i] = c
      BY <2>2, <3>3, <3>4
    <3>5. CASE m[e][i] # c
      <4>1. /\ e \in Dirs /\ i \in 1 .. Len(lay[e]) /\ m[e][i] = lay[e][i]
            /\ f \in Dirs /\ k \in 1 .. Len(lay[f]) /\ m[f][k] = lay[f][k]
        BY <2>2, <3>3, <3>5
      <4>2. e \in DOMAIN lay /\ f \in DOMAIN lay /\ lay[e][i] = lay[f][k]
        BY <1>1, <2>2, <4>1
      <4>3. i \in 1 .. Len(lay[e]) /\ k \in 1 .. Len(lay[f])
        BY <4>1
      <4> QED
        BY <1>1, <4>2, <4>3, DistinctClusters
    <3> QED
      BY <3>4, <3>5
  <2> QED
    BY <1>19, <2>1, <2>2 DEF LaidOut
<1>21. Layout(m)'
  <2>1. LaidCard(m)'
    BY <1>15, <1>17, <1>19, <1>20 DEF LaidCard
  <2> QED
    BY <2>1, LayoutIsThen
<1>22. \A e \in Dirs : SameDir(e)
  BY <1>17, <1>19, <1>21, DirStays
<1>23. ASSUME NEW e \in Dirs \ {d} PROVE Slots(e)' = Slots(e)
  <2>1. \A x \in Chain(e) : x # c /\ x \in AnyCluster
    BY <1>2, <1>4, ClusterFacts DEF Placed
  <2>2. \A x \in Chain(e) : x # y
    BY <1>8, <1>23, PlacesNow DEF Places, Apart
  <2>3. \A x \in Chain(e) : content'[x] = content[x]
    BY <1>12, <2>1, <2>2
  <2> QED
    BY <1>22, <2>3 DEF SameDir
<1>24. Put(Slots(d), Slots(d)', p, slot)
  <2>1. ASSUME NEW i \in 1 .. Len(Slots(d)) PROVE Slots(d)'[i] = IF i = p THEN slot ELSE Slots(d)[i]
    <3>1. PICK u, v : u = Place(d, i)[1] /\ v = Place(d, i)[2]
      OBVIOUS
    <3>2. u \in Chain(d) /\ v \in 1 .. ClusterSlots /\ content[u][v] = Slots(d)[i]
      BY <1>2, <3>1 DEF Placed, SlotAt
    <3>3. Slots(d)'[i] = content'[u][v]
      BY <1>22, <3>1 DEF SameDir
    <3>4. u # c /\ u \in AnyCluster
      BY <1>2, <1>4, <3>2, ClusterFacts DEF Placed
    <3>5. CASE i = p
      BY <1>7, <1>13, <3>1, <3>2, <3>3, <3>5
    <3>6. CASE i # p
      <4>1. ~(u = y /\ v = j)
        <5> SUFFICES ASSUME u = y, v = j PROVE FALSE
          OBVIOUS
        <5>1. PICK a, b : Place(d, i) = <<a, b>>
          BY <1>2, Cell
        <5>2. PICK f, g : Place(d, p) = <<f, g>>
          BY <1>2, Cell
        <5>3. Place(d, i) = Place(d, p)
          <6>1. a = u /\ b = v
            BY <3>1, <5>1
          <6>2. f = y /\ g = j
            BY <1>7, <5>2
          <6> QED
            BY <5>1, <5>2, <6>1, <6>2
        <5> QED
          BY <3>6, <5>3, PlacesNow DEF Places, Apart
      <4>2. content'[u][v] = content[u][v]
        BY <1>12, <1>13, <3>2, <3>4, <4>1
      <4> QED
        BY <3>2, <3>3, <3>6, <4>2
    <3> QED
      BY <3>5, <3>6
  <2> QED
    BY <1>22, <2>1 DEF Put, SameDir
<1>25. /\ Slots(c)' \in Seq(SlotType) /\ Len(Slots(c)') = ClusterSlots
       /\ \A i \in 1 .. ClusterSlots : Slots(c)'[i] =
                 IF i = 1 THEN Dot(0, c) ELSE IF i = 2 THEN Dot(1, d) ELSE FreeSlot
  <2>1. Seen(m, c)' /\ Sized(m, c)'
    BY <1>17, <1>21, ViewThen DEF View
  <2>2. Len(<<c>>) = 1 /\ <<c>>[1] = c /\ ClusterSlots \in Nat
    BY Constants
  <2>3. Len(Slots(c)') = 1 * ClusterSlots
    BY <1>19, <2>1, <2>2 DEF Sized
  <2>4. ASSUME NEW i \in 1 .. ClusterSlots PROVE Slots(c)'[i] = new[i]
    <3>1. Nth(1, i) = i
      BY <2>2 DEF Nth
    <3>2. 1 \in 1 .. Len(m[c]) /\ m[c][1] = c
      BY <1>19, <2>2
    <3>3. Slots(c)'[Nth(1, i)] = content'[m[c][1]][i]
      BY <2>1, <3>2 DEF Seen
    <3> QED
      BY <1>12, <3>1, <3>2, <3>3
  <2>5. Slots(c)' \in Seq(SlotType)
    BY <2>1 DEF Seen
  <2> QED
    BY <1>11, <2>2, <2>3, <2>4, <2>5
<1>26. \E x : Layout(x)'
  BY <1>21
<1> QED
  BY <1>4, <1>5, <1>17, <1>22, <1>23, <1>24, <1>25, <1>26 DEF Made

-----------------------------------------------------------------------------
\* The inductive invariant.
OpType ==
    [at : {"idle", "wipe", "wiping", "release", "search", "place", "fill"},
     kind : {"none", "create", "unlink", "rename", "mkdir", "rmdir"},
     dir : AnyCluster, name : Names \cup {""}, key : Keys, type : EntryTypes, thing : Things,
     place : AllPlaces, cluster : AnyCluster, entry : AllPlaces, left : Nat]
OpTyped == op \in OpType
Laid == \E lay : Layout(lay)
IInv == Laid /\ OpTyped /\ calls \in 0 .. MaxCalls /\ OpSound /\ DirsSound /\ Tree

LEMMA OpFields ==
    /\ NoKey \in Keys /\ 0 \in Things /\ 0 \in AnyCluster /\ NoPlace \in AllPlaces
    /\ "file" \in EntryTypes /\ "directory" \in EntryTypes
    /\ NoOp \in OpType
    /\ NoOp.at = "idle" /\ NoOp.kind = "none" /\ NoOp.type = "file"
<1>1. /\ NoKey \in Keys /\ 0 \in Things /\ 0 \in AnyCluster /\ NoPlace \in AllPlaces
      /\ "file" \in EntryTypes /\ "directory" \in EntryTypes
  BY ClusterFacts DEF Keys, Things, AllPlaces, EntryTypes
<1> QED
  BY <1>1 DEF NoOp, OpType

\* When a call has returned nothing is asked of it.
LEMMA NoOpSound ==
    ASSUME op' = NoOp
    PROVE  OpTyped' /\ OpSound'
<1>1. OpTyped'
  BY OpFields DEF OpTyped
<1>2. op'.at = "idle" /\ op'.kind = "none"
  BY OpFields
<1> QED
  BY <1>1, <1>2 DEF OpSound, IsWiping

\* A step changes one directory.
LEMMA DirsKept ==
    ASSUME DirsSound, NEW d, Dirs' = Dirs, \A e \in Dirs \ {d} : Slots(e)' = Slots(e),
           op.at = "idle" \/ op.dir = d,
           op'.at \in {"wiping", "place"} => op'.dir = d,
           op'.at # "wiping" => Sound(Slots(d)', 0),
           op'.at # "place" => ~IsChunk(Slots(d)', Len(Slots(d)'))
    PROVE  DirsSound'
<1> SUFFICES ASSUME NEW e \in Dirs
             PROVE  /\ ~(op'.at = "wiping" /\ e = op'.dir) => Sound(Slots(e)', 0)
                    /\ ~(op'.at = "place" /\ e = op'.dir) => ~IsChunk(Slots(e)', Len(Slots(e)'))
  BY DEF DirsSound, TornEnd
<1>1. CASE e = d
  BY <1>1
<1>2. CASE e # d
  <2>1. Slots(e)' = Slots(e)
    BY <1>2
  <2>2. Sound(Slots(e), 0) /\ ~IsChunk(Slots(e), Len(Slots(e)))
    BY <1>2 DEF DirsSound, TornEnd
  <2> QED
    BY <2>1, <2>2
<1> QED
  BY <1>1, <1>2

\* What the tree is made of.
Special(slot) == slot.type \in {"dot", "directory"}
LEMMA TreeKept ==
    ASSUME NEW lay, Layout(lay), NEW m, Layout(m)', Tree, NEW d, Dirs' = Dirs,
           \A e \in Dirs \ {d} : Slots(e)' = Slots(e),
           \A i \in 1 .. Len(Slots(d)') : Special(Slots(d)'[i]) =>
              \/ i \in 1 .. Len(Slots(d)) /\ Slots(d)'[i] = Slots(d)[i]
              \/ Slots(d)'[i].type = "directory" /\ Slots(d)'[i].thing \notin Dirs /\ Filling(d, i)',
           \A i \in 1 .. Len(Slots(d)) : Special(Slots(d)[i]) =>
              i \in 1 .. Len(Slots(d)') /\ Slots(d)'[i] = Slots(d)[i],
           \A e \in Dirs : \A i \in 1 .. Len(Slots(e)) : Filling(e, i) => Slots(e)[i].type # "directory",
           \A c \in Dirs : /\ Adrift(c)' <=> Adrift(c)
                           /\ Adrift(c) => op'.dir = op.dir,
           op'.kind = "rename" /\ op'.type = "directory" => op'.thing \in Dirs \ {Root}
    PROVE  Tree'
<1>1. \A e \in Dirs : Placed(lay, e) /\ Placed(m, e)'
  BY PlacesNow, PlacesThen DEF Places
<1>2. \A e \in Dirs : \A i \in 1 .. Len(Slots(e)') : Special(Slots(e)'[i]) =>
              \/ i \in 1 .. Len(Slots(e)) /\ Slots(e)'[i] = Slots(e)[i]
              \/ Slots(e)'[i].type = "directory" /\ Slots(e)'[i].thing \notin Dirs /\ Filling(e, i)'
  <2> SUFFICES ASSUME NEW e \in Dirs
               PROVE  \A i \in 1 .. Len(Slots(e)') : Special(Slots(e)'[i]) =>
                         \/ i \in 1 .. Len(Slots(e)) /\ Slots(e)'[i] = Slots(e)[i]
                         \/ /\ Slots(e)'[i].type = "directory" /\ Slots(e)'[i].thing \notin Dirs
                            /\ Filling(e, i)'
    OBVIOUS
  <2>1. CASE e = d
    BY <2>1
  <2>2. CASE e # d
    BY <2>2
  <2> QED
    BY <2>1, <2>2
<1>3. \A e \in Dirs : \A i \in 1 .. Len(Slots(e)) : Special(Slots(e)[i]) =>
              i \in 1 .. Len(Slots(e)') /\ Slots(e)'[i] = Slots(e)[i]
  <2> SUFFICES ASSUME NEW e \in Dirs
               PROVE  \A i \in 1 .. Len(Slots(e)) : Special(Slots(e)[i]) =>
                         i \in 1 .. Len(Slots(e)') /\ Slots(e)'[i] = Slots(e)[i]
    OBVIOUS
  <2>1. CASE e = d
    BY <2>1
  <2>2. CASE e # d
    BY <2>2
  <2> QED
    BY <2>1, <2>2
<1>4. ASSUME NEW e \in Dirs, NEW i \in 1 .. Len(Slots(e)')
      PROVE  /\ Slots(e)'[i].type = "dot" => e # Root /\ i \in {1, 2}
             /\ Slots(e)'[i].type = "directory" /\ ~Filling(e, i)' => Slots(e)'[i].thing \in Dirs \ {Root}
  BY <1>2 DEF Tree, Special
<1>5. ASSUME NEW c \in Dirs, c # Root PROVE content'[c][2] = content[c][2] /\ content[c][2].type = "dot"
  <2>1. content[c][2] = Slots(c)[2] /\ content'[c][2] = Slots(c)'[2] /\ 2 <= Len(Slots(c)) /\ Len(Slots(c)) \in Nat
    <3>1. content[c][2] = Slots(c)[2] /\ 2 <= Len(Slots(c))
      BY <1>1 DEF Placed
    <3>2. content'[c][2] = Slots(c)'[2]
      BY <1>1 DEF Placed
    <3>3. Len(Slots(c)) \in Nat
      BY ViewNow DEF View, Seen
    <3> QED
      BY <3>1, <3>2, <3>3
  <2>2. content[c][2].type = "dot"
    <3>1. PICK p : content[c][2] = Dot(1, p)
      BY <1>5 DEF Tree
    <3> QED
      BY <3>1 DEF Dot, Slot
  <2>3. 2 \in 1 .. Len(Slots(c)) /\ Special(Slots(c)[2])
    BY <2>1, <2>2 DEF Special
  <2>4. Slots(c)'[2] = Slots(c)[2]
    BY <1>3, <2>3
  <2> QED
    BY <2>1, <2>2, <2>4
<1>6. ASSUME NEW e \in Dirs, NEW c
      PROVE  /\ c \in Dirs => \A i \in 1 .. Len(Slots(e)') : HeldAt(e, i, c)' =>
                    i \in 1 .. Len(Slots(e)) /\ HeldAt(e, i, c)
             /\ \A i \in 1 .. Len(Slots(e)) : HeldAt(e, i, c) => i \in 1 .. Len(Slots(e)') /\ HeldAt(e, i, c)'
  BY <1>2, <1>3 DEF HeldAt, Special
<1>7. ASSUME NEW c \in Dirs \ {Root}
      PROVE  \E p \in Dirs : /\ content'[c][2] = Dot(1, p)
                             /\ IF Adrift(c)' THEN p = op'.dir
                                ELSE \E i \in 1 .. Len(Slots(p)') : HeldAt(p, i, c)'
  <2>1. PICK p \in Dirs : /\ content[c][2] = Dot(1, p)
                          /\ IF Adrift(c) THEN p = op.dir
                             ELSE \E i \in 1 .. Len(Slots(p)) : HeldAt(p, i, c)
    BY DEF Tree
  <2>2. content'[c][2] = Dot(1, p)
    BY <1>5, <2>1
  <2>3. CASE Adrift(c)
    BY <2>1, <2>2, <2>3
  <2>4. CASE ~Adrift(c)
    <3>1. PICK i \in 1 .. Len(Slots(p)) : HeldAt(p, i, c)
      BY <2>1, <2>4
    <3>2. i \in 1 .. Len(Slots(p)') /\ HeldAt(p, i, c)'
      BY <1>6, <3>1
    <3> QED
      BY <2>2, <2>4, <3>2
  <2> QED
    BY <2>3, <2>4
<1>8. ASSUME NEW c \in Dirs \ {Root}, NEW e \in Dirs, NEW f \in Dirs, NEW i \in 1 .. Len(Slots(e)'),
             NEW j \in 1 .. Len(Slots(f)'), HeldAt(e, i, c)', HeldAt(f, j, c)'
      PROVE  e = f /\ i = j /\ content'[c][2].thing = e /\ ~Adrift(c)'
  <2>1. i \in 1 .. Len(Slots(e)) /\ HeldAt(e, i, c) /\ j \in 1 .. Len(Slots(f)) /\ HeldAt(f, j, c)
    BY <1>6, <1>8
  <2>2. e = f /\ i = j /\ content[c][2].thing = e /\ ~Adrift(c)
    BY <2>1 DEF Tree
  <2> QED
    BY <1>5, <2>2
<1> QED
  BY <1>4, <1>7, <1>8 DEF Tree

\* A call begins.
LEMMA BeginKept ==
    ASSUME IInv, Idle, fat' = fat, content' = content,
           op'.at = "wipe" \/ (op'.at = "search" /\ op'.kind \in {"create", "mkdir"}),
           op'.kind = "rename" /\ op'.type = "directory" => op'.thing \in Dirs \ {Root}
    PROVE  /\ Laid' /\ Steady /\ (\A d \in Dirs : Slots(d)' = Slots(d))
           /\ DirsSound' /\ Tree'
<1>1. PICK lay : Layout(lay)
  BY DEF IInv, Laid
<1>2. Layout(lay)' /\ Steady /\ \A d \in Dirs : Slots(d)' = Slots(d)
  BY <1>1, StillStep
<1>3. Laid'
  BY <1>2 DEF Laid
<1>4. DirsSound /\ Tree /\ op.at = "idle" /\ Dirs' = Dirs /\ Root \in Dirs
  BY <1>1, <1>2, ClusterFacts DEF IInv, Idle, Steady, Dirs, IsDirectory
<1>5. DirsSound'
  <2>1. Sound(Slots(Root)', 0) /\ ~IsChunk(Slots(Root)', Len(Slots(Root)'))
    <3>1. Sound(Slots(Root), 0) /\ ~IsChunk(Slots(Root), Len(Slots(Root)))
      BY <1>4 DEF DirsSound, TornEnd
    <3> QED
      BY <1>2, <1>4, <3>1
  <2> QED
    BY <1>2, <1>4, <2>1, DirsKept
<1>6. Tree'
  <2>1. \A c \in Dirs : ~Adrift(c) /\ ~Adrift(c)'
    BY <1>4 DEF Adrift
  <2>2. \A e, i : ~Filling(e, i)
    BY <1>4 DEF Filling
  <2> QED
    BY <1>1, <1>2, <1>4, <2>1, <2>2, TreeKept
<1> QED
  BY <1>2, <1>3, <1>5, <1>6

\* The directory and the slot that a call finds.
LEMMA Found ==
    ASSUME IInv, Idle, NEW d \in Dirs, NEW n \in Names, Find(Slots(d), n) # 0
    PROVE  /\ Find(Slots(d), n) \in 1 .. Len(Slots(d)) /\ Begin(Slots(d), Find(Slots(d), n)) \in 1 .. Len(Slots(d))
           /\ Find(Slots(d), n) \in Ends(Slots(d)) /\ Matches(Slots(d), Find(Slots(d), n), n)
           /\ Sound(Slots(d), 0) /\ Sound(Slots(d), Find(Slots(d), n))
           /\ Group(Slots(d), Begin(Slots(d), Find(Slots(d), n)), Find(Slots(d), n))
           /\ \A x \in Ends(Slots(d)) : Matches(Slots(d), x, n) => x = Find(Slots(d), n)
<1>1. PICK s, e : s = Slots(d) /\ e = Find(s, n)
  OBVIOUS
<1>2. Sound(s, 0)
  BY <1>1 DEF IInv, DirsSound, Idle
<1>3. Typed(s) /\ WellChunked(s) /\ OneMatch(s)
  BY <1>2 DEF Sound
<1>4. e \in Ends(s) /\ Matches(s, e, n)
  BY <1>1, <1>3, FindFacts
<1>5. Group(s, Begin(s, e), e)
  BY <1>3, <1>4, MatchedGroup
<1>6. Sound(s, e)
  BY <1>2, SoundExempt
<1>7. e \in 1 .. Len(s) /\ Begin(s, e) \in 1 .. Len(s)
  <2>1. Len(s) \in Nat /\ e \in 1 .. Len(s)
    BY <1>3, <1>4, EndsFacts, TypedFacts
  <2>2. Begin(s, e) \in 1 .. e
    BY <1>3, <1>4, BeginFacts
  <2> QED
    BY <2>1, <2>2
<1>8. \A x \in Ends(s) : Matches(s, x, n) => x = e
  BY <1>3, <1>4 DEF OneMatch
<1> QED
  BY <1>1, <1>2, <1>4, <1>5, <1>6, <1>7, <1>8

\* The slots to be wiped are as the call has found them.
LEMMA WipeBegins ==
    ASSUME IInv, Idle, NEW d \in Dirs, NEW n \in Names, Find(Slots(d), n) # 0,
           fat' = fat, content' = content, Steady, \A x \in Dirs : Slots(x)' = Slots(x),
           op'.dir = d,
           op'.place = Place(d, Begin(Slots(d), Find(Slots(d), n))),
           op'.entry = Place(d, Find(Slots(d), n)),
           op'.kind = "create" => op'.name = n,
           op'.kind \in {"create", "unlink"} => Slots(d)[Find(Slots(d), n)].type # "directory",
           op'.kind = "rename" => /\ IsEntry(Slots(d), Find(Slots(d), n))
                                  /\ Slots(d)[Find(Slots(d), n)].thing = op'.thing
                                  /\ Slots(d)[Find(Slots(d), n)].type = op'.type,
           op'.kind = "rmdir" => /\ Slots(d)[Find(Slots(d), n)].type = "directory"
                                 /\ Slots(d)[Find(Slots(d), n)].thing = op'.thing
    PROVE  WipeSound'
<1>1. PICK s, e : s = Slots(d) /\ e = Find(s, n)
  OBVIOUS
<1>2. PICK p : p = Begin(s, e)
  OBVIOUS
<1>3. /\ e \in 1 .. Len(s) /\ p \in 1 .. Len(s) /\ Sound(s, e) /\ Group(s, p, e)
      /\ \A x \in Ends(s) : Matches(s, x, n) => x = e
  BY <1>1, <1>2, Found
<1>4. Slots(d)' = s /\ Place(d, p)' = Place(d, p) /\ Place(d, e)' = Place(d, e)
  BY <1>1, <1>3 DEF Steady, SameDir
<1>5. op'.place = Place(d, p)' /\ op'.entry = Place(d, e)'
  BY <1>1, <1>2, <1>4
<1>6. /\ op'.kind = "create" => \A x \in Ends(s) : Matches(s, x, op'.name) => x = e
      /\ op'.kind \in {"create", "unlink"} => s[e].type # "directory"
      /\ op'.kind = "rename" => IsEntry(s, e) /\ s[e].thing = op'.thing /\ s[e].type = op'.type
      /\ op'.kind = "rmdir" => s[e].type = "directory" /\ s[e].thing = op'.thing
  BY <1>1, <1>3
<1>7. Slots(op.dir)' = s
  BY <1>4
<1> QED
  BY <1>3, <1>4, <1>5, <1>6 DEF WipeSound

\* What a call that begins has to see to.
LEMMA BeginSound ==
    ASSUME IInv, Idle, NEW d \in Dirs, NEW x, fat' = fat, content' = content, OpTyped', calls' \in 0 .. MaxCalls,
           op'.at \in {"wipe", "search"}, op'.dir = d, op'.thing = x, op'.name \in Names, op'.type \in EntryTypes,
           op'.kind \in {"create", "unlink", "rename", "mkdir", "rmdir"},
           op'.kind \in {"create", "unlink", "rmdir"} => op'.type = "file",
           op'.kind = "mkdir" => op'.type = "directory",
           op'.at = "wipe" => WipeSound' /\ op'.kind # "mkdir",
           op'.at = "search" => op'.kind \in {"create", "mkdir"} /\ Unmatched(Slots(d), op'.name),
           op'.kind = "rename" => RenameSound' /\ (op'.type = "directory" => x \in Dirs \ {Root}),
           op'.kind \in {"create", "rename", "mkdir"} =>
              Cardinality(FreeClusters) >= (IF op'.kind = "mkdir" THEN 1 ELSE 0) + 1,
           op'.kind = "rmdir" => x \in Dirs \ {Root} /\ x # d /\ ListsNothing(x)
    PROVE  IInv'
<1>1. /\ Laid' /\ Steady /\ (\A e \in Dirs : Slots(e)' = Slots(e))
      /\ DirsSound' /\ Tree'
  BY BeginKept
<1>2. Dirs' = Dirs /\ FreeClusters' = FreeClusters /\ Slots(d)' = Slots(d)
  BY <1>1 DEF Steady
<1>3. op'.at # "idle" => op'.dir \in Dirs' /\ op'.name \in Names /\ op'.type \in EntryTypes
  BY <1>2
<1>4. IsWiping' => WipeSound' /\ op'.kind # "mkdir"
  BY DEF IsWiping
<1>5. op'.kind = "rename" => RenameSound'
  OBVIOUS
<1>6. Making' => HasRoom(Needed + 1)'
  <2>1. Needed' = IF op'.kind = "mkdir" THEN 1 ELSE 0
    BY DEF Needed
  <2> QED
    BY <1>2, <2>1 DEF Making, HasRoom
<1>7. op'.at = "search" => Making' /\ Unmatched(Slots(op.dir), op.name)'
  <2>1. Slots(op.dir)' = Slots(d)
    BY <1>2
  <2> QED
    BY <2>1 DEF Making, Unmatched
<1>8. op'.kind = "rmdir" => op'.thing \in Dirs' \ {Root} /\ op'.thing # op'.dir /\ ListsNothing(op.thing)'
  <2> SUFFICES ASSUME op'.kind = "rmdir"
               PROVE  op'.thing \in Dirs' \ {Root} /\ op'.thing # op'.dir /\ ListsNothing(op.thing)'
    OBVIOUS
  <2>1. x \in Dirs \ {Root} /\ x # d /\ ListsNothing(x)
    OBVIOUS
  <2>2. Slots(op.thing)' = Slots(x)
    BY <1>1, <2>1
  <2> QED
    BY <1>2, <2>1, <2>2 DEF ListsNothing
<1>9. OpSound'
  BY <1>3, <1>4, <1>5, <1>6, <1>7, <1>8 DEF OpSound, IsWiping
<1> QED
  BY <1>1, <1>9 DEF IInv

LEMMA CallIs ==
    ASSUME NEW kind \in {"create", "unlink", "rename", "mkdir", "rmdir"}, NEW d \in AnyCluster, NEW n \in Names,
           NEW call, call = Call(kind, d, n)
    PROVE  /\ call \in OpType
           /\ call.at = "idle" /\ call.kind = kind /\ call.dir = d /\ call.name = n
           /\ call.type = "file" /\ call.thing = 0
<1>1. NoOp \in OpType /\ NoOp.at = "idle" /\ NoOp.type = "file" /\ NoOp.thing = 0
  BY OpFields DEF NoOp
<1> QED
  BY <1>1 DEF Call, OpType

\* What Wiping changes.
LEMMA WipingIs ==
    ASSUME NEW call \in OpType, NEW s, NEW e, NEW p, NEW x, p = Place(call.dir, Begin(s, e)), x = Place(call.dir, e),
           p \in AllPlaces, x \in AllPlaces, NEW w, w = Wiping(call, s, e)
    PROVE  /\ w \in OpType /\ w.at = "wipe" /\ w.place = p /\ w.entry = x
           /\ w.kind = call.kind /\ w.dir = call.dir /\ w.name = call.name /\ w.type = call.type
           /\ w.thing = call.thing /\ w.key = call.key /\ w.left = call.left
<1>1. w = [call EXCEPT !.at = "wipe", !.place = p, !.entry = x]
  BY DEF Wiping
<1> QED
  BY <1>1 DEF OpType

LEMMA SearchingIs ==
    ASSUME NEW call \in OpType, NEW w, w = Searching(call)
    PROVE  /\ w \in OpType /\ w.at = "search"
           /\ w.kind = call.kind /\ w.dir = call.dir /\ w.name = call.name /\ w.type = call.type
           /\ w.thing = call.thing /\ w.key = call.key /\ w.left = call.left
           /\ w.place = call.place /\ w.entry = call.entry /\ w.cluster = call.cluster
BY DEF Searching, OpType

\* The places of a directory.
LEMMA PlaceIn ==
    ASSUME Laid, NEW d \in Dirs
    PROVE  /\ \A i \in 1 .. Len(Slots(d)) : Place(d, i) \in AllPlaces
           /\ d \in AnyCluster /\ d \in Clusters /\ Len(Slots(d)) \in Nat /\ Len(Slots(d)) > 0
           /\ Len(Slots(d)) <= NumClusters * ClusterSlots
<1>1. PICK lay : Layout(lay)
  BY DEF Laid
<1>2. Seen(lay, d) /\ Sized(lay, d) /\ Placed(lay, d)
  BY <1>1, ViewNow, PlacesNow DEF View, Places
<1>3. d \in Clusters /\ d \in AnyCluster
  BY <1>1, OwnCluster, ClusterFacts
<1>4. \A i \in 1 .. Len(Slots(d)) : Place(d, i) \in AllPlaces
  BY <1>2 DEF Placed
<1>5. Len(Slots(d)) \in Nat /\ 2 <= Len(Slots(d)) /\ Len(Slots(d)) <= NumClusters * ClusterSlots
  BY <1>2 DEF Placed, Seen, Sized
<1> QED
  BY <1>3, <1>4, <1>5

-----------------------------------------------------------------------------
\* Calls
LEMMA CreateKept ==
    ASSUME Roomy, IInv, NEW d \in Dirs, NEW n \in Names, Create(d, n), calls' \in 0 .. MaxCalls
    PROVE  IInv'
<1>1. PICK s, e, call : s = Slots(d) /\ e = Find(s, n) /\ call = Call("create", d, n)
  OBVIOUS
<1>2. /\ Idle /\ Spare(1) /\ fat' = fat /\ content' = content
      /\ e # 0 => s[e].type # "directory"
      /\ op' = IF e # 0 THEN Wiping(call, s, e) ELSE Searching(call)
  BY <1>1 DEF Create
<1>3. PICK lay : Layout(lay)
  BY DEF IInv, Laid
<1>4. Steady /\ \A y \in Dirs : Slots(y)' = Slots(y)
  BY <1>2, <1>3, StillStep
<1>5. d \in AnyCluster /\ (\A i \in 1 .. Len(s) : Place(d, i) \in AllPlaces)
  BY <1>1, PlaceIn DEF IInv
<1>6. call \in OpType /\ call.kind = "create" /\ call.dir = d /\ call.name = n /\ call.type = "file" /\ call.thing = 0
  BY <1>1, <1>5, CallIs
<1>7. Cardinality(FreeClusters) >= 1
  BY <1>2 DEF Spare, Roomy
<1>8. "file" \in EntryTypes
  BY OpFields
<1>9. CASE e # 0
  <2>1. Find(Slots(d), n) # 0
    BY <1>1, <1>9
  <2>2. e \in 1 .. Len(s) /\ Begin(s, e) \in 1 .. Len(s)
    BY <1>1, <1>2, <2>1, Found
  <2>3. op' = Wiping(call, s, e)
    BY <1>2, <1>9
  <2>4. PICK p, x : p = Place(d, Begin(s, e)) /\ x = Place(d, e) /\ p \in AllPlaces /\ x \in AllPlaces
    BY <1>5, <2>2
  <2>5. /\ op' \in OpType /\ op'.at = "wipe" /\ op'.place = p /\ op'.entry = x
        /\ op'.kind = "create" /\ op'.dir = d /\ op'.name = n /\ op'.type = "file" /\ op'.thing = 0
    BY <1>6, <2>3, <2>4, WipingIs
  <2>6. WipeSound'
    <3>1. op'.place = Place(d, Begin(Slots(d), Find(Slots(d), n))) /\ op'.entry = Place(d, Find(Slots(d), n))
      BY <1>1, <2>4, <2>5
    <3>2. Slots(d)[Find(Slots(d), n)].type # "directory"
      BY <1>1, <1>2, <1>9
    <3> QED
      BY <1>2, <1>4, <2>1, <2>5, <3>1, <3>2, WipeBegins
  <2> QED
    BY <1>2, <1>7, <1>8, <2>5, <2>6, BeginSound DEF OpTyped
<1>10. CASE e = 0
  <2>1. op' = Searching(call)
    BY <1>2, <1>10
  <2>2. /\ op' \in OpType /\ op'.at = "search" /\ op'.kind = "create" /\ op'.dir = d /\ op'.name = n
        /\ op'.type = "file" /\ op'.thing = 0
    BY <1>6, <2>1, SearchingIs
  <2>3. Unmatched(Slots(d), n)
    <3>1. Sound(Slots(d), 0)
      BY <1>2 DEF IInv, DirsSound, Idle
    <3>2. Typed(Slots(d))
      BY <3>1 DEF Sound
    <3> QED
      BY <1>1, <1>10, <3>2, FindFacts
  <2> QED
    BY <1>2, <1>7, <1>8, <2>2, <2>3, BeginSound DEF OpTyped
<1> QED
  BY <1>9, <1>10

LEMMA UnlinkKept ==
    ASSUME Roomy, IInv, NEW d \in Dirs, NEW n \in Names, Unlink(d, n), calls' \in 0 .. MaxCalls
    PROVE  IInv'
<1>1. PICK s, e, call : s = Slots(d) /\ e = Find(s, n) /\ call = Call("unlink", d, n)
  OBVIOUS
<1>2. /\ Idle /\ fat' = fat /\ content' = content
      /\ e # 0 /\ s[e].type # "directory"
      /\ op' = Wiping(call, s, e)
  BY <1>1 DEF Unlink
<1>3. PICK lay : Layout(lay)
  BY DEF IInv, Laid
<1>4. Steady /\ \A y \in Dirs : Slots(y)' = Slots(y)
  BY <1>2, <1>3, StillStep
<1>5. d \in AnyCluster /\ (\A i \in 1 .. Len(s) : Place(d, i) \in AllPlaces)
  BY <1>1, PlaceIn DEF IInv
<1>6. call \in OpType /\ call.kind = "unlink" /\ call.dir = d /\ call.name = n /\ call.type = "file" /\ call.thing = 0
  BY <1>1, <1>5, CallIs
<1>8. "file" \in EntryTypes
  BY OpFields
<1>9. Find(Slots(d), n) # 0
  BY <1>1, <1>2
<1>10. e \in 1 .. Len(s) /\ Begin(s, e) \in 1 .. Len(s)
  BY <1>1, <1>2, <1>9, Found
<1>11. PICK p, x : p = Place(d, Begin(s, e)) /\ x = Place(d, e) /\ p \in AllPlaces /\ x \in AllPlaces
  BY <1>5, <1>10
<1>12. /\ op' \in OpType /\ op'.at = "wipe" /\ op'.place = p /\ op'.entry = x
       /\ op'.kind = "unlink" /\ op'.dir = d /\ op'.name = n /\ op'.type = "file" /\ op'.thing = 0
  BY <1>2, <1>6, <1>11, WipingIs
<1>13. WipeSound'
  <2>1. op'.place = Place(d, Begin(Slots(d), Find(Slots(d), n))) /\ op'.entry = Place(d, Find(Slots(d), n))
    BY <1>1, <1>11, <1>12
  <2>2. Slots(d)[Find(Slots(d), n)].type # "directory"
    BY <1>1, <1>2
  <2> QED
    BY <1>2, <1>4, <1>9, <1>12, <2>1, <2>2, WipeBegins
<1> QED
  BY <1>2, <1>8, <1>12, <1>13, BeginSound DEF OpTyped

\* The slot of an entry that has been found.
LEMMA FoundSlot ==
    ASSUME IInv, Idle, NEW d \in Dirs, NEW e \in Ends(Slots(d))
    PROVE  /\ Slots(d)[e] \in SlotType /\ Slots(d)[e].thing \in Things /\ e \in 1 .. Len(Slots(d))
           /\ Slots(d)[e].type = "directory" => Slots(d)[e].thing \in Dirs \ {Root}
<1>1. Sound(Slots(d), 0)
  BY DEF IInv, DirsSound, Idle
<1>2. Typed(Slots(d))
  BY <1>1 DEF Sound
<1>3. e \in 1 .. Len(Slots(d))
  BY <1>2, EndsFacts
<1>4. Slots(d)[e] \in SlotType
  BY <1>2, <1>3, TypedFacts
<1>5. Slots(d)[e].thing \in Things
  BY <1>4 DEF SlotType
<1>6. ~Filling(d, e)
  BY DEF Idle, Filling
<1>7. Slots(d)[e].type = "directory" => Slots(d)[e].thing \in Dirs \ {Root}
  BY <1>3, <1>6 DEF IInv, Tree
<1> QED
  BY <1>3, <1>4, <1>5, <1>7

LEMMA RmdirKept ==
    ASSUME Roomy, IInv, NEW d \in Dirs, NEW n \in Names, Rmdir(d, n), calls' \in 0 .. MaxCalls
    PROVE  IInv'
<1>1. PICK s, e, call, y : s = Slots(d) /\ e = Find(s, n) /\ call = Call("rmdir", d, n) /\ y = s[e].thing
  OBVIOUS
<1>2. /\ Idle /\ fat' = fat /\ content' = content
      /\ e # 0 /\ s[e].type = "directory" /\ ListsNothing(y)
      /\ op' = [Wiping(call, s, e) EXCEPT !.thing = y]
  BY <1>1 DEF Rmdir
<1>3. PICK lay : Layout(lay)
  BY DEF IInv, Laid
<1>4. Steady /\ \A z \in Dirs : Slots(z)' = Slots(z)
  BY <1>2, <1>3, StillStep
<1>5. d \in AnyCluster /\ (\A i \in 1 .. Len(s) : Place(d, i) \in AllPlaces)
  BY <1>1, PlaceIn DEF IInv
<1>6. call \in OpType /\ call.kind = "rmdir" /\ call.dir = d /\ call.name = n /\ call.type = "file"
  BY <1>1, <1>5, CallIs
<1>8. "file" \in EntryTypes
  BY OpFields
<1>9. Find(Slots(d), n) # 0
  BY <1>1, <1>2
<1>10. e \in 1 .. Len(s) /\ Begin(s, e) \in 1 .. Len(s) /\ e \in Ends(s)
  BY <1>1, <1>2, <1>9, Found
<1>11. PICK p, x : p = Place(d, Begin(s, e)) /\ x = Place(d, e) /\ p \in AllPlaces /\ x \in AllPlaces
  BY <1>5, <1>10
<1>12. y \in Things /\ y \in Dirs \ {Root}
  BY <1>1, <1>2, <1>10, FoundSlot
<1>14. y # d
  <2>1. IsEntry(s, e)
    BY <1>2 DEF IsEntry, EntryTypes
  <2> QED
    BY <1>1, <1>2, <1>10, <2>1 DEF ListsNothing
<1>15. PICK w : w = Wiping(call, s, e)
  OBVIOUS
<1>16. /\ w \in OpType /\ w.at = "wipe" /\ w.place = p /\ w.entry = x
       /\ w.kind = "rmdir" /\ w.dir = d /\ w.name = n /\ w.type = "file"
  BY <1>6, <1>11, <1>15, WipingIs
<1>17. op' = [w EXCEPT !.thing = y]
  BY <1>2, <1>15
<1>18. /\ op' \in OpType /\ op'.at = "wipe" /\ op'.place = p /\ op'.entry = x
       /\ op'.kind = "rmdir" /\ op'.dir = d /\ op'.name = n /\ op'.type = "file" /\ op'.thing = y
  BY <1>12, <1>16, <1>17 DEF OpType
<1>13. WipeSound'
  <2>1. op'.place = Place(d, Begin(Slots(d), Find(Slots(d), n))) /\ op'.entry = Place(d, Find(Slots(d), n))
    BY <1>1, <1>11, <1>18
  <2>2. Slots(d)[Find(Slots(d), n)].type = "directory" /\ Slots(d)[Find(Slots(d), n)].thing = op'.thing
    BY <1>1, <1>2, <1>18
  <2> QED
    BY <1>2, <1>4, <1>9, <1>18, <2>1, <2>2, WipeBegins
<1> QED
  BY <1>2, <1>8, <1>12, <1>14, <1>18, <1>13, BeginSound DEF OpTyped

LEMMA MkdirKept ==
    ASSUME Roomy, IInv, NEW d \in Dirs, NEW n \in Names, Mkdir(d, n), calls' \in 0 .. MaxCalls
    PROVE  IInv'
<1>1. PICK s, c, call : s = Slots(d) /\ c = Call("mkdir", d, n) /\ call = [c EXCEPT !.type = "directory"]
  OBVIOUS
<1>2. /\ Idle /\ Spare(2) /\ fat' = fat /\ content' = content
      /\ Find(s, n) = 0
      /\ op' = Searching(call)
  BY <1>1 DEF Mkdir
<1>5. d \in AnyCluster
  BY PlaceIn DEF IInv
<1>6. c \in OpType /\ c.kind = "mkdir" /\ c.dir = d /\ c.name = n /\ c.thing = 0
  BY <1>1, <1>5, CallIs
<1>7. "directory" \in EntryTypes
  BY OpFields
<1>8. call \in OpType /\ call.kind = "mkdir" /\ call.dir = d /\ call.name = n /\ call.type = "directory" /\ call.thing = 0
  BY <1>1, <1>6, <1>7 DEF OpType
<1>9. Cardinality(FreeClusters) >= 2
  BY <1>2 DEF Spare, Roomy
<1>10. /\ op' \in OpType /\ op'.at = "search" /\ op'.kind = "mkdir" /\ op'.dir = d /\ op'.name = n
       /\ op'.type = "directory" /\ op'.thing = 0
  BY <1>2, <1>8, SearchingIs
<1>11. Unmatched(Slots(d), n)
  <2>1. Sound(Slots(d), 0)
    BY <1>2 DEF IInv, DirsSound, Idle
  <2>2. Typed(Slots(d))
    BY <2>1 DEF Sound
  <2> QED
    BY <1>1, <1>2, <2>2, FindFacts
<1> QED
  BY <1>2, <1>7, <1>9, <1>10, <1>11, BeginSound DEF OpTyped

\* What a rename to m keeps of the entry at e.
Renames(d, n, m, s, e, key) ==
    /\ s = Slots(d) /\ e = Find(s, n) /\ e # 0 /\ IsEntry(s, e) /\ s[e].type \in EntryTypes
    /\ s[e].type = "directory" => s[e].thing \in Dirs \ {Root}
    /\ Unmatched(s, m) /\ KeyOf(m, key) /\ Unused(s, key)
    /\ op' \in OpType /\ op'.at = "wipe" /\ op'.place = Place(d, Begin(s, e)) /\ op'.entry = Place(d, e)
    /\ op'.kind = "rename" /\ op'.dir = d /\ op'.name = m /\ op'.type = s[e].type /\ op'.thing = s[e].thing
    /\ op'.key = key /\ op'.left = Chunks[m]

LEMMA RenameDoes ==
    ASSUME IInv, NEW d \in Dirs, NEW n \in Names, NEW m \in Names, Rename(d, n, m)
    PROVE  \E s, e, key : Renames(d, n, m, s, e, key)
<1>1. PICK s, e, c, y, type :
         s = Slots(d) /\ e = Find(s, n) /\ c = Call("rename", d, m) /\ y = s[e].thing /\ type = s[e].type
  OBVIOUS
<1>2. PICK call, named : call = [c EXCEPT !.type = type, !.thing = y] /\ named = Named(call, s)
  OBVIOUS
<1>3. /\ Idle
      /\ e # 0 /\ IsEntry(s, e) /\ Find(s, m) = 0
      /\ op' = Wiping(named, s, e)
  BY <1>1, <1>2 DEF Rename
<1>4. d \in AnyCluster /\ (\A i \in 1 .. Len(s) : Place(d, i) \in AllPlaces) /\ Len(s) <= NumClusters * ClusterSlots
  BY <1>1, PlaceIn DEF IInv
<1>5. c \in OpType /\ c.kind = "rename" /\ c.dir = d /\ c.name = m
  BY <1>1, <1>4, CallIs
<1>6. Find(Slots(d), n) # 0
  BY <1>1, <1>3
<1>7. e \in 1 .. Len(s) /\ Begin(s, e) \in 1 .. Len(s) /\ e \in Ends(s)
  BY <1>1, <1>3, <1>6, Found
<1>8. PICK p, x : p = Place(d, Begin(s, e)) /\ x = Place(d, e) /\ p \in AllPlaces /\ x \in AllPlaces
  BY <1>4, <1>7
<1>9. y \in Things /\ (type = "directory" => y \in Dirs \ {Root}) /\ type \in EntryTypes
  <2>1. s[e].thing \in Things /\ (s[e].type = "directory" => s[e].thing \in Dirs \ {Root})
    BY <1>1, <1>3, <1>7, FoundSlot
  <2> QED
    BY <1>1, <1>3, <2>1 DEF IsEntry
<1>10. call \in OpType /\ call.kind = "rename" /\ call.dir = d /\ call.name = m /\ call.type = type /\ call.thing = y
  BY <1>2, <1>5, <1>9 DEF OpType
<1>11. Sound(s, 0)
  BY <1>1, <1>3 DEF IInv, DirsSound, Idle
<1>12. Typed(s) /\ WellNamed(s)
  BY <1>11 DEF Sound
<1>13. Unmatched(s, m)
  BY <1>3, <1>12, FindFacts
<1>14. PICK key : key = ShortName(s, m)
  OBVIOUS
<1>15. KeyOf(m, key) /\ Unused(s, key)
  BY <1>4, <1>12, <1>13, <1>14, ShortNameUnused
<1>16. key \in Keys /\ Chunks[m] \in Nat
  BY <1>15, KeyFacts, Constants
<1>17. named = [call EXCEPT !.key = key, !.left = Chunks[m]]
  BY <1>2, <1>10, <1>14 DEF Named
<1>18. /\ named \in OpType /\ named.kind = "rename" /\ named.dir = d /\ named.name = m /\ named.type = type
       /\ named.thing = y /\ named.key = key /\ named.left = Chunks[m]
  BY <1>10, <1>16, <1>17 DEF OpType
<1>19. /\ op' \in OpType /\ op'.at = "wipe" /\ op'.place = p /\ op'.entry = x
       /\ op'.kind = "rename" /\ op'.dir = d /\ op'.name = m /\ op'.type = type /\ op'.thing = y
       /\ op'.key = key /\ op'.left = Chunks[m]
  BY <1>3, <1>8, <1>18, WipingIs
<1> QED
  BY <1>1, <1>3, <1>8, <1>9, <1>13, <1>15, <1>19 DEF Renames

LEMMA RenameKept ==
    ASSUME Roomy, IInv, NEW d \in Dirs, NEW n \in Names, NEW m \in Names, Rename(d, n, m), calls' \in 0 .. MaxCalls
    PROVE  IInv'
<1>1. PICK s, e, key : Renames(d, n, m, s, e, key)
  BY RenameDoes
<1>2. /\ s = Slots(d) /\ e = Find(s, n) /\ e # 0 /\ IsEntry(s, e) /\ s[e].type \in EntryTypes
      /\ s[e].type = "directory" => s[e].thing \in Dirs \ {Root}
      /\ Unmatched(s, m) /\ KeyOf(m, key) /\ Unused(s, key)
      /\ op' \in OpType /\ op'.at = "wipe" /\ op'.place = Place(d, Begin(s, e)) /\ op'.entry = Place(d, e)
      /\ op'.kind = "rename" /\ op'.dir = d /\ op'.name = m /\ op'.type = s[e].type /\ op'.thing = s[e].thing
      /\ op'.key = key /\ op'.left = Chunks[m]
  BY <1>1 DEF Renames
<1>3. Idle /\ Spare(1) /\ fat' = fat /\ content' = content
  BY DEF Rename
<1>4. PICK lay : Layout(lay)
  BY DEF IInv, Laid
<1>5. Steady /\ \A z \in Dirs : Slots(z)' = Slots(z)
  BY <1>3, <1>4, StillStep
<1>6. WipeSound'
  <2>1. /\ op'.place = Place(d, Begin(Slots(d), Find(Slots(d), n))) /\ op'.entry = Place(d, Find(Slots(d), n))
        /\ Find(Slots(d), n) # 0
    BY <1>2
  <2>2. /\ IsEntry(Slots(d), Find(Slots(d), n))
        /\ Slots(d)[Find(Slots(d), n)].thing = op'.thing
        /\ Slots(d)[Find(Slots(d), n)].type = op'.type
    BY <1>2
  <2> QED
    BY <1>2, <1>3, <1>5, <2>1, <2>2, WipeBegins
<1>7. RenameSound'
  <2>1. Slots(op.dir)' = s
    BY <1>2, <1>5
  <2> QED
    BY <1>2, <2>1 DEF RenameSound
<1>8. Cardinality(FreeClusters) >= 1
  BY <1>3 DEF Spare, Roomy
<1>9. PICK y : y = s[e].thing
  OBVIOUS
<1>10. op'.thing = y /\ (op'.type = "directory" => y \in Dirs \ {Root}) /\ op'.type \in EntryTypes
  BY <1>2, <1>9
<1> QED
  BY <1>2, <1>3, <1>6, <1>7, <1>8, <1>10, BeginSound DEF OpTyped

LEMMA PutTyped ==
    ASSUME NEW s, NEW t, NEW p, NEW slot \in SlotType, Typed(s), t \in Seq(SlotType),
           slot.type = "free" => slot = FreeSlot, Put(s, t, p, slot)
    PROVE  Typed(t)
<1>1. \A i \in 1 .. Len(s) : s[i].type = "free" => s[i] = FreeSlot
  BY DEF Typed
<1> QED
  BY <1>1 DEF Typed, Put

\* The last slot is a chunk afterwards only when a chunk has been put there.
LEMMA PutEnd ==
    ASSUME NEW s, NEW t, NEW p, NEW slot, Typed(s), Put(s, t, p, slot), slot.type # "chunk", Len(s) > 0,
           ~IsChunk(s, Len(s))
    PROVE  ~IsChunk(t, Len(t))
<1>1. Len(s) \in 1 .. Len(s) /\ Len(t) = Len(s)
  BY TypedFacts DEF Put
<1> QED
  BY <1>1 DEF Put, IsChunk

LEMMA UpdateKept ==
    ASSUME Roomy, IInv, NEW d \in Dirs, NEW n \in Names, NEW o \in Data, Update(d, n, o), calls' \in 0 .. MaxCalls
    PROVE  IInv'
<1>1. PICK s, e, slot : s = Slots(d) /\ e = Find(s, n) /\ slot = [s[e] EXCEPT !.thing = o]
  OBVIOUS
<1>2. /\ Idle /\ fat' = fat /\ op' = op
      /\ e # 0 /\ s[e].type = "file"
      /\ content' = Written(Place(d, e), slot)
  BY <1>1 DEF Update
<1>3. PICK lay : Layout(lay)
  BY DEF IInv, Laid
<1>4. Find(Slots(d), n) # 0
  BY <1>1, <1>2
<1>5. e \in 1 .. Len(s) /\ e \in Ends(s)
  BY <1>1, <1>2, <1>4, Found
<1>6. s[e] \in SlotType
  BY <1>1, <1>2, <1>5, FoundSlot
<1>7. slot \in SlotType /\ slot.type = "file"
  <2>1. o \in Things
    BY DEF Things
  <2> QED
    BY <1>1, <1>2, <1>6, <2>1 DEF SlotType
<1>8. OneDir(lay, d) /\ \E t : Slots(d)' = t /\ Put(Slots(d), t, e, slot)
  <2>1. e \in 1 .. Len(Slots(d)) /\ Slots(d)[e].type # "dot" /\ slot.type # "dot"
    BY <1>1, <1>2, <1>5, <1>7
  <2> QED
    BY <1>2, <1>3, <1>7, <2>1, WriteStep
<1>9. PICK t : Slots(d)' = t /\ Put(s, t, e, slot)
  BY <1>1, <1>8
<1>10. Layout(lay)' /\ Dirs' = Dirs /\ (\A y \in Dirs \ {d} : Slots(y)' = Slots(y)) /\ t \in Seq(SlotType)
  BY <1>8, <1>9 DEF OneDir, Steady, SameDir
<1>11. Sound(s, 0) /\ ~IsChunk(s, Len(s)) /\ Len(s) > 0
  <2>1. Sound(Slots(d), 0) /\ ~IsChunk(Slots(d), Len(Slots(d)))
    BY <1>2 DEF IInv, DirsSound, TornEnd, Idle
  <2> QED
    BY <1>1, <2>1, PlaceIn DEF IInv
<1>12. Typed(s)
  BY <1>11 DEF Sound
<1>13. Typed(t)
  BY <1>7, <1>9, <1>10, <1>12, PutTyped
<1>14. Sound(t, 0)
  <2>1. IsEntry(s, e)
    BY <1>2 DEF IsEntry, EntryTypes
  <2> QED
    BY <1>1, <1>5, <1>9, <1>11, <1>13, <2>1, ThingSound
<1>15. ~IsChunk(t, Len(t))
  BY <1>7, <1>9, <1>11, <1>12, PutEnd
<1>16. op'.at = "idle" /\ op'.kind = "none" /\ op.at = "idle"
  BY <1>2 DEF IInv, Idle, OpSound
<1>17. OpTyped' /\ OpSound'
  <2>1. OpSound'
    BY <1>16 DEF OpSound, IsWiping
  <2> QED
    BY <1>2, <2>1 DEF IInv, OpTyped
<1>18. DirsSound'
  BY <1>9, <1>10, <1>14, <1>15, <1>16, DirsKept DEF IInv
<1>19. Tree'
  <2>1. \A c \in Dirs : ~Adrift(c) /\ ~Adrift(c)'
    BY <1>16 DEF Adrift
  <2>2. \A y, i : ~Filling(y, i)
    BY <1>16 DEF Filling
  <2>3. \A i \in 1 .. Len(s) : i # e => t[i] = s[i]
    BY <1>9 DEF Put
  <2>4. Len(t) = Len(s) /\ ~Special(t[e]) /\ ~Special(s[e])
    BY <1>2, <1>5, <1>7, <1>9 DEF Put, Special
  <2>5. /\ \A i \in 1 .. Len(Slots(d)') : Special(Slots(d)'[i]) =>
              i \in 1 .. Len(Slots(d)) /\ Slots(d)'[i] = Slots(d)[i]
        /\ \A i \in 1 .. Len(Slots(d)) : Special(Slots(d)[i]) =>
              i \in 1 .. Len(Slots(d)') /\ Slots(d)'[i] = Slots(d)[i]
    BY <1>1, <1>9, <2>3, <2>4
  <2> QED
    BY <1>3, <1>10, <1>16, <2>1, <2>2, <2>5, TreeKept DEF IInv
<1> QED
  BY <1>10, <1>17, <1>18, <1>19 DEF IInv, Laid

-----------------------------------------------------------------------------
\* The second slot of a directory that keeps its dots.
LEMMA SecondSlot ==
    ASSUME NEW lay, Layout(lay), NEW m, Layout(m)', Tree, NEW c \in Dirs \ {Root}, c \in Dirs',
           \A i \in 1 .. Len(Slots(c)) : Slots(c)[i].type = "dot" => Slots(c)'[i] = Slots(c)[i]
    PROVE  content'[c][2] = content[c][2] /\ \E p \in Dirs : content[c][2] = Dot(1, p)
<1>1. Placed(lay, c) /\ Placed(m, c)' /\ Seen(lay, c)
  BY PlacesNow, PlacesThen, ViewNow DEF Places, View
<1>2. content[c][2] = Slots(c)[2] /\ content'[c][2] = Slots(c)'[2] /\ 2 <= Len(Slots(c)) /\ Len(Slots(c)) \in Nat
  <2>1. content[c][2] = Slots(c)[2] /\ 2 <= Len(Slots(c))
    BY <1>1 DEF Placed
  <2>2. content'[c][2] = Slots(c)'[2]
    BY <1>1 DEF Placed
  <2>3. Len(Slots(c)) \in Nat
    BY <1>1 DEF Seen
  <2> QED
    BY <2>1, <2>2, <2>3
<1>3. PICK p \in Dirs : content[c][2] = Dot(1, p)
  BY DEF Tree
<1>4. Slots(c)[2].type = "dot"
  BY <1>2, <1>3 DEF Dot, Slot
<1>5. Slots(c)'[2] = Slots(c)[2]
  BY <1>2, <1>4
<1> QED
  BY <1>2, <1>3, <1>5

\* The entry of directory x goes and x is adrift.
LEMMA TreeLost ==
    ASSUME NEW lay, Layout(lay), NEW m, Layout(m)', Tree, NEW d \in Dirs, NEW e \in 1 .. Len(Slots(d)),
           NEW x \in Dirs \ {Root}, HeldAt(d, e, x), Dirs' = Dirs, op'.dir = d,
           \A y \in Dirs : \A i \in 1 .. Len(Slots(y)') : Special(Slots(y)'[i]) =>
              i \in 1 .. Len(Slots(y)) /\ Slots(y)'[i] = Slots(y)[i] /\ ~(y = d /\ i = e),
           \A y \in Dirs : \A i \in 1 .. Len(Slots(y)) : Special(Slots(y)[i]) /\ ~(y = d /\ i = e) =>
              i \in 1 .. Len(Slots(y)') /\ Slots(y)'[i] = Slots(y)[i],
           \A y, i : ~Filling(y, i),
           \A c \in Dirs : ~Adrift(c) /\ (Adrift(c)' <=> c = x),
           op'.kind = "rename" /\ op'.type = "directory" => op'.thing \in Dirs \ {Root}
    PROVE  Tree'
<1>1. ASSUME NEW y \in Dirs, NEW i \in 1 .. Len(Slots(y)')
      PROVE  /\ Slots(y)'[i].type = "dot" => y # Root /\ i \in {1, 2}
             /\ Slots(y)'[i].type = "directory" /\ ~Filling(y, i)' => Slots(y)'[i].thing \in Dirs \ {Root}
  BY DEF Tree, Special
<1>2. ASSUME NEW c \in Dirs \ {Root}
      PROVE  content'[c][2] = content[c][2] /\ \E p \in Dirs : content[c][2] = Dot(1, p)
  <2>1. \A i \in 1 .. Len(Slots(c)) : Slots(c)[i].type = "dot" => Slots(c)'[i] = Slots(c)[i]
    <3> SUFFICES ASSUME NEW i \in 1 .. Len(Slots(c)), Slots(c)[i].type = "dot" PROVE Slots(c)'[i] = Slots(c)[i]
      OBVIOUS
    <3>1. ~(c = d /\ i = e)
      BY DEF HeldAt
    <3> QED
      BY <3>1 DEF Special
  <2> QED
    BY <2>1, SecondSlot
<1>3. ASSUME NEW y \in Dirs, NEW c \in Dirs
      PROVE  /\ \A i \in 1 .. Len(Slots(y)') : HeldAt(y, i, c)' =>
                    i \in 1 .. Len(Slots(y)) /\ HeldAt(y, i, c) /\ ~(y = d /\ i = e)
             /\ \A i \in 1 .. Len(Slots(y)) : HeldAt(y, i, c) /\ c # x =>
                    i \in 1 .. Len(Slots(y)') /\ HeldAt(y, i, c)'
  BY DEF HeldAt, Special
<1>4. ASSUME NEW c \in Dirs \ {Root}
      PROVE  \E p \in Dirs : /\ content'[c][2] = Dot(1, p)
                             /\ IF Adrift(c)' THEN p = op'.dir
                                ELSE \E i \in 1 .. Len(Slots(p)') : HeldAt(p, i, c)'
  <2>1. PICK p \in Dirs : content[c][2] = Dot(1, p) /\ \E i \in 1 .. Len(Slots(p)) : HeldAt(p, i, c)
    BY DEF Tree
  <2>2. PICK i \in 1 .. Len(Slots(p)) : HeldAt(p, i, c)
    BY <2>1
  <2>3. content'[c][2] = Dot(1, p)
    BY <1>2, <2>1
  <2>4. CASE c = x
    <3>1. p = d
      BY <2>2, <2>4 DEF Tree
    <3> QED
      BY <2>3, <2>4, <3>1
  <2>5. CASE c # x
    <3>1. i \in 1 .. Len(Slots(p)') /\ HeldAt(p, i, c)'
      BY <1>3, <2>2, <2>5
    <3> QED
      BY <2>3, <2>5, <3>1
  <2> QED
    BY <2>4, <2>5
<1>5. ASSUME NEW c \in Dirs \ {Root}, NEW y \in Dirs, NEW z \in Dirs, NEW i \in 1 .. Len(Slots(y)'),
             NEW j \in 1 .. Len(Slots(z)'), HeldAt(y, i, c)', HeldAt(z, j, c)'
      PROVE  y = z /\ i = j /\ content'[c][2].thing = y /\ ~Adrift(c)'
  <2>1. i \in 1 .. Len(Slots(y)) /\ HeldAt(y, i, c) /\ j \in 1 .. Len(Slots(z)) /\ HeldAt(z, j, c)
        /\ ~(y = d /\ i = e)
    BY <1>3, <1>5
  <2>2. y = z /\ i = j /\ content[c][2].thing = y
    BY <2>1 DEF Tree
  <2>3. c # x
    BY <2>1 DEF Tree
  <2> QED
    BY <1>2, <2>2, <2>3
<1> QED
  BY <1>1, <1>4, <1>5 DEF Tree

-----------------------------------------------------------------------------
\* Wiping.  What there is to wipe, and what a step does to it.
LEMMA WipedTyped ==
    ASSUME NEW s, NEW t, NEW p, NEW l, Typed(s), t \in Seq(SlotType), Wiped(s, t, p, l)
    PROVE  Typed(t)
<1>1. \A i \in 1 .. Len(s) : s[i].type = "free" => s[i] = FreeSlot
  BY DEF Typed
<1>2. DeletedSlot.type = "deleted"
  BY SlotFacts
<1> QED
  BY <1>1, <1>2 DEF Typed, Wiped

WipedTo(d, s, p, e, l, t) ==
    /\ d \in Dirs /\ op.dir = d /\ Slots(d) = s /\ Slots(d)' = t
    /\ p \in 1 .. Len(s) /\ e \in 1 .. Len(s) /\ l \in p .. e
    /\ p \in Nat /\ e \in Nat /\ l \in Nat /\ Len(s) \in Nat /\ Len(t) = Len(s)
    /\ Sound(s, e) /\ Group(s, p, e) /\ Wiped(s, t, p, l) /\ Typed(t) /\ Typed(s)
    /\ ~IsChunk(t, Len(t))
    /\ l < e => Sound(t, e) /\ Group(t, l + 1, e)
    /\ l = e => Sound(t, 0)
    /\ op.place = Place(d, p) /\ op.entry = Place(d, e)
    /\ WipeGoes(d, e, l)
    /\ op.kind = "create" => \A x \in Ends(s) : Matches(s, x, op.name) => x = e
    /\ op.kind \in {"create", "unlink"} => s[e].type # "directory"
    /\ op.kind = "rename" => IsEntry(s, e) /\ s[e].thing = op.thing /\ s[e].type = op.type
    /\ op.kind = "rmdir" => s[e].type = "directory" /\ s[e].thing = op.thing

LEMMA WipeDoes ==
    ASSUME IInv, Wipe
    PROVE  \E lay, d, s, p, e, l, t : Layout(lay) /\ OneDir(lay, d) /\ WipedTo(d, s, p, e, l, t)
<1>1. PICK lay : Layout(lay)
  BY DEF IInv, Laid
<1>2. PICK d, s : d = op.dir /\ s = Slots(d)
  OBVIOUS
<1>3. IsWiping /\ WipeSound /\ d \in Dirs
  BY <1>2 DEF IInv, OpSound, IsWiping, Wipe
<1>4. PICK p \in 1 .. Len(s), e \in 1 .. Len(s) :
        /\ op.place = Place(d, p) /\ op.entry = Place(d, e)
        /\ Sound(s, e) /\ Group(s, p, e)
        /\ op.kind = "create" => \A x \in Ends(s) : Matches(s, x, op.name) => x = e
        /\ op.kind \in {"create", "unlink"} => s[e].type # "directory"
        /\ op.kind = "rename" => IsEntry(s, e) /\ s[e].thing = op.thing /\ s[e].type = op.type
        /\ op.kind = "rmdir" => s[e].type = "directory" /\ s[e].thing = op.thing
  BY <1>2, <1>3 DEF WipeSound
<1>5. Typed(s)
  BY <1>4 DEF Sound
<1>6. Len(s) \in Nat /\ p \in Nat /\ e \in Nat /\ p <= e
  BY <1>4, <1>5, TypedFacts DEF Group
<1>7. \A i \in p .. e : s[i].type # "dot"
  BY <1>4, <1>6 DEF Group, IsChunk, IsEntry, EntryTypes
<1>8. PICK l \in p .. e :
              /\ OneDir(lay, d) /\ \E t : Slots(d)' = t /\ Wiped(Slots(d), t, p, l)
              /\ WipeGoes(d, e, l)
  <2>1. p \in 1 .. Len(Slots(d)) /\ e \in 1 .. Len(Slots(d)) /\ \A i \in p .. e : Slots(d)[i].type # "dot"
    BY <1>2, <1>4, <1>7
  <2>2. p <= e /\ op.place = Place(d, p) /\ op.entry = Place(d, e) /\ d \in Dirs /\ Layout(lay)
    BY <1>1, <1>3, <1>4, <1>6
  <2> QED
    BY <2>1, <2>2, WipeStep, Zenon
<1>9. PICK t : Slots(d)' = t /\ Wiped(s, t, p, l)
  BY <1>2, <1>8
<1>10. t \in Seq(SlotType)
  BY <1>3, <1>8, <1>9 DEF OneDir, Steady, SameDir
<1>11. Typed(t)
  BY <1>5, <1>9, <1>10, WipedTyped
<1>12. /\ l < e => Sound(t, e) /\ Group(t, l + 1, e)
       /\ l = e => Sound(t, 0)
  BY <1>4, <1>6, <1>9, <1>11, WipedSound
<1>13. Len(t) = Len(s) /\ l \in Nat
  BY <1>6, <1>9 DEF Wiped
<1>14. ~IsChunk(t, Len(t))
  <2>1. ~IsChunk(s, Len(s))
    BY <1>2, <1>3 DEF IInv, DirsSound, TornEnd, IsWiping
  <2>2. Len(s) \in 1 .. Len(s)
    BY <1>4, <1>6
  <2> QED
    BY <1>9, <2>1, <2>2, SlotFacts DEF Wiped, IsChunk
<1>15. WipedTo(d, s, p, e, l, t)
  <2>1. /\ d \in Dirs /\ op.dir = d /\ Slots(d) = s /\ Slots(d)' = t
        /\ p \in 1 .. Len(s) /\ e \in 1 .. Len(s) /\ l \in p .. e
        /\ p \in Nat /\ e \in Nat /\ l \in Nat /\ Len(s) \in Nat /\ Len(t) = Len(s)
        /\ Sound(s, e) /\ Group(s, p, e) /\ Wiped(s, t, p, l) /\ Typed(t) /\ Typed(s)
        /\ ~IsChunk(t, Len(t))
        /\ l < e => Sound(t, e) /\ Group(t, l + 1, e)
        /\ l = e => Sound(t, 0)
    BY <1>2, <1>3, <1>4, <1>5, <1>6, <1>9, <1>11, <1>12, <1>13, <1>14
  <2> QED
    BY <1>4, <1>8, <2>1, Zenon DEF WipedTo
<1> QED
  BY <1>1, <1>8, <1>15

\* What was wiped held nothing that the tree is made of, when it was no directory.
LEMMA WipedSpecial ==
    ASSUME NEW d, NEW s, NEW p, NEW e, NEW l, NEW t, WipedTo(d, s, p, e, l, t)
    PROVE  /\ \A i \in 1 .. Len(t) : Special(t[i]) => i \in 1 .. Len(s) /\ t[i] = s[i] /\ ~(l = e /\ i = e)
           /\ \A i \in 1 .. Len(s) : Special(s[i]) /\ ~(l = e /\ i = e) => i \in 1 .. Len(t) /\ t[i] = s[i]
           /\ s[e].type # "dot"
<1>1. /\ Len(t) = Len(s) /\ Len(s) \in Nat /\ p \in Nat /\ e \in Nat /\ l \in Nat /\ l \in p .. e
      /\ e \in 1 .. Len(s) /\ p \in 1 .. Len(s) /\ Group(s, p, e) /\ Wiped(s, t, p, l)
  BY DEF WipedTo
<1>2. \A i \in 1 .. Len(s) : i \in p .. l => t[i].type = "deleted"
  BY <1>1, SlotFacts DEF Wiped
<1>3. \A i \in 1 .. Len(s) : i \notin p .. l => t[i] = s[i]
  BY <1>1 DEF Wiped
<1>4. \A i \in p .. e - 1 : s[i].type = "chunk"
  BY <1>1 DEF Group, IsChunk
<1>5. s[e].type # "dot"
  BY <1>1 DEF Group, IsEntry, EntryTypes
<1>6. ASSUME NEW i \in 1 .. Len(t), Special(t[i])
      PROVE  i \in 1 .. Len(s) /\ t[i] = s[i] /\ ~(l = e /\ i = e)
  <2>1. i \in 1 .. Len(s) /\ i \notin p .. l
    BY <1>1, <1>2, <1>6 DEF Special
  <2>2. e \in p .. e
    BY <1>1
  <2> QED
    BY <1>3, <2>1, <2>2
<1>7. ASSUME NEW i \in 1 .. Len(s), Special(s[i]), ~(l = e /\ i = e)
      PROVE  i \in 1 .. Len(t) /\ t[i] = s[i]
  <2>1. i \notin p .. e - 1
    BY <1>4, <1>7 DEF Special
  <2>2. i \notin p .. l
    BY <1>1, <1>7, <2>1
  <2> QED
    BY <1>1, <1>3, <2>2
<1> QED
  BY <1>5, <1>6, <1>7

LEMMA WipedTree ==
    ASSUME NEW lay, NEW d, NEW s, NEW p, NEW e, NEW l, NEW t, IInv, Wipe,
           Layout(lay), OneDir(lay, d), WipedTo(d, s, p, e, l, t),
           l < e \/ s[e].type # "directory", op'.kind \in {op.kind, "none"}, op'.dir = op.dir \/ op' = NoOp,
           op'.type = op.type \/ op' = NoOp, op'.thing = op.thing \/ op' = NoOp,
           \A c \in Dirs : ~Adrift(c)'
    PROVE  Tree'
<1>1. d \in Dirs /\ Slots(d) = s /\ Slots(d)' = t /\ Tree
  BY DEF WipedTo, IInv
<1>2. /\ \A i \in 1 .. Len(t) : Special(t[i]) => i \in 1 .. Len(s) /\ t[i] = s[i]
      /\ \A i \in 1 .. Len(s) : Special(s[i]) => i \in 1 .. Len(t) /\ t[i] = s[i]
  <2>1. l < e => l # e
    BY DEF WipedTo
  <2>2. s[e].type # "directory" => ~Special(s[e])
    BY WipedSpecial DEF Special
  <2> QED
    BY <2>1, <2>2, WipedSpecial
<1>3. /\ \A i \in 1 .. Len(Slots(d)') : Special(Slots(d)'[i]) =>
              i \in 1 .. Len(Slots(d)) /\ Slots(d)'[i] = Slots(d)[i]
      /\ \A i \in 1 .. Len(Slots(d)) : Special(Slots(d)[i]) =>
              i \in 1 .. Len(Slots(d)') /\ Slots(d)'[i] = Slots(d)[i]
  BY <1>1, <1>2
<1>4. Layout(lay)' /\ Dirs' = Dirs /\ \A y \in Dirs \ {d} : Slots(y)' = Slots(y)
  BY DEF OneDir, Steady
<1>5. \A c \in Dirs : ~Adrift(c)
  BY DEF Adrift, Wipe
<1>6. \A y, i : ~Filling(y, i)
  BY DEF Filling, Wipe
<1>7. op'.kind = "rename" /\ op'.type = "directory" => op'.thing \in Dirs \ {Root}
  <2>1. NoOp.kind = "none"
    BY OpFields
  <2> QED
    BY <1>1, <2>1 DEF Tree
<1> QED
  BY <1>1, <1>3, <1>4, <1>5, <1>6, <1>7, TreeKept

LEMMA WipeMid ==
    ASSUME NEW lay, NEW d, NEW s, NEW p, NEW e, NEW l, NEW t, Roomy, IInv, Wipe, calls' = calls,
           Layout(lay), OneDir(lay, d), WipedTo(d, s, p, e, l, t), l < e
    PROVE  IInv'
<1>1. /\ d \in Dirs /\ op.dir = d /\ Slots(d) = s /\ Slots(d)' = t
      /\ p \in 1 .. Len(s) /\ e \in 1 .. Len(s) /\ l \in p .. e
      /\ p \in Nat /\ e \in Nat /\ l \in Nat /\ Len(s) \in Nat /\ Len(t) = Len(s)
      /\ Sound(s, e) /\ Group(s, p, e) /\ Wiped(s, t, p, l) /\ Typed(t) /\ Typed(s)
      /\ ~IsChunk(t, Len(t)) /\ Sound(t, e) /\ Group(t, l + 1, e)
      /\ op.place = Place(d, p) /\ op.entry = Place(d, e)
      /\ op' = [op EXCEPT !.at = "wiping", !.place = Place(d, l + 1)]
      /\ op.kind = "create" => \A x \in Ends(s) : Matches(s, x, op.name) => x = e
      /\ op.kind \in {"create", "unlink"} => s[e].type # "directory"
      /\ op.kind = "rename" => IsEntry(s, e) /\ s[e].thing = op.thing /\ s[e].type = op.type
      /\ op.kind = "rmdir" => s[e].type = "directory" /\ s[e].thing = op.thing
  BY DEF WipedTo, WipeGoes
<1>2. l + 1 \in 1 .. Len(s) /\ Place(d, l + 1) \in AllPlaces
  <2>1. l + 1 \in 1 .. Len(s)
    BY <1>1
  <2> QED
    BY <1>1, <2>1, PlaceIn DEF IInv
<1>3. /\ op' \in OpType /\ op'.at = "wiping" /\ op'.place = Place(d, l + 1) /\ op'.entry = op.entry
      /\ op'.kind = op.kind /\ op'.dir = d /\ op'.name = op.name /\ op'.type = op.type
      /\ op'.thing = op.thing /\ op'.key = op.key /\ op'.left = op.left
  BY <1>1, <1>2 DEF IInv, OpTyped, OpType
<1>4. /\ Layout(lay)' /\ Dirs' = Dirs /\ FreeClusters' = FreeClusters
      /\ \A y \in Dirs \ {d} : Slots(y)' = Slots(y)
      /\ \A i \in 1 .. Len(s) : Place(d, i)' = Place(d, i)
  BY <1>1 DEF OneDir, Steady, SameDir
<1>5. t[e] = s[e]
  BY <1>1 DEF Wiped
<1>6. WellChunked(s)
  BY <1>1 DEF Sound
<1>7. IsWiping /\ op.at # "idle"
  BY DEF Wipe, IsWiping
<1>8. op.name \in Names
  BY <1>7 DEF IInv, OpSound
<1>9. WipeSound'
  <2>1. op'.place = Place(d, l + 1)' /\ op'.entry = Place(d, e)'
    BY <1>1, <1>2, <1>3, <1>4
  <2>2. op.kind = "create" => \A x \in Ends(t) : Matches(t, x, op.name) => x = e
    <3>1. PICK n \in Names : n = op.name
      BY <1>8
    <3>2. /\ Unused(s, NoKey) => Unused(t, NoKey)
          /\ (\A x \in Ends(s) : Matches(s, x, n) => x = e) => \A x \in Ends(t) : Matches(t, x, n) => x = e /\ l < e
      <4>1. /\ Typed(s) /\ WellChunked(s) /\ p \in Nat /\ e \in Nat /\ l \in p .. e
            /\ Group(s, p, e) /\ Wiped(s, t, p, l)
        BY <1>1, <1>6
      <4> QED
        BY <4>1, WipedNames, Zenon
    <3> QED
      BY <1>1, <3>1, <3>2
  <2>3. IsEntry(t, e) = IsEntry(s, e)
    BY <1>5 DEF IsEntry
  <2>4. Slots(op.dir)' = t
    BY <1>1, <1>3
  <2>5. /\ op'.kind = "create" => \A x \in Ends(t) : Matches(t, x, op'.name) => x = e
        /\ op'.kind \in {"create", "unlink"} => t[e].type # "directory"
        /\ op'.kind = "rename" => IsEntry(t, e) /\ t[e].thing = op'.thing /\ t[e].type = op'.type
        /\ op'.kind = "rmdir" => t[e].type = "directory" /\ t[e].thing = op'.thing
    BY <1>1, <1>3, <1>5, <2>2, <2>3
  <2>6. l + 1 \in 1 .. Len(t) /\ e \in 1 .. Len(t)
    BY <1>1, <1>2
  <2> QED
    BY <1>1, <1>3, <2>1, <2>4, <2>5, <2>6 DEF WipeSound
<1>10. op'.kind = "rename" => RenameSound'
  <2> SUFFICES ASSUME op'.kind = "rename" PROVE RenameSound'
    OBVIOUS
  <2>1. RenameSound
    BY <1>3, <1>7 DEF IInv, OpSound
  <2>2. Unmatched(s, op.name) /\ Unused(s, op.key)
    BY <1>1, <2>1 DEF RenameSound
  <2>3. Unmatched(t, op.name) /\ Unused(t, op.key)
    BY <1>1, <1>6, <1>8, <2>2, WipedNames
  <2>4. Slots(op.dir)' = t
    BY <1>1, <1>3
  <2> QED
    BY <1>3, <2>1, <2>3, <2>4 DEF RenameSound
<1>11. Making' => HasRoom(Needed + 1)'
  BY <1>3, <1>4, <1>7 DEF IInv, OpSound, Making, HasRoom, Needed
<1>12. op'.kind = "rmdir" => op'.thing \in Dirs' \ {Root} /\ op'.thing # op'.dir /\ ListsNothing(op.thing)'
  <2> SUFFICES ASSUME op'.kind = "rmdir"
               PROVE  op'.thing \in Dirs' \ {Root} /\ op'.thing # op'.dir /\ ListsNothing(op.thing)'
    OBVIOUS
  <2>1. op.thing \in Dirs \ {Root} /\ op.thing # d /\ ListsNothing(op.thing)
    BY <1>1, <1>3 DEF IInv, OpSound
  <2>2. PICK x : x = op.thing
    OBVIOUS
  <2>3. Slots(x)' = Slots(x)
    BY <1>4, <2>1, <2>2
  <2>4. Slots(op.thing)' = Slots(x)
    BY <1>3, <2>2, <2>3
  <2>5. ListsNothing(op.thing)'
    BY <2>1, <2>2, <2>4 DEF ListsNothing
  <2> QED
    BY <1>1, <1>3, <1>4, <2>1, <2>5
<1>13. OpSound'
  <2>1. /\ op.kind \in {"create", "unlink", "rename", "mkdir", "rmdir"} /\ op.kind # "mkdir"
        /\ (op.kind \in {"create", "unlink", "rmdir"} => op.type = "file") /\ op.type \in EntryTypes
    BY <1>7 DEF IInv, OpSound
  <2> QED
    BY <1>1, <1>3, <1>4, <1>8, <1>9, <1>10, <1>11, <1>12, <2>1 DEF OpSound, IsWiping
<1>14. DirsSound'
  BY <1>1, <1>3, <1>4, DirsKept DEF IInv
<1>15. Tree'
  <2>1. \A c \in Dirs : ~Adrift(c)'
    BY <1>3 DEF Adrift
  <2> QED
    BY <1>1, <1>3, <2>1, WipedTree
<1> QED
  BY <1>3, <1>4, <1>13, <1>14, <1>15 DEF IInv, OpTyped, Laid

\* After the last step what the name matched is gone.
LEMMA WipedGone ==
    ASSUME NEW s, NEW t, Typed(s), WellChunked(s), NEW p \in Nat, NEW e \in Nat,
           Group(s, p, e), Wiped(s, t, p, e), NEW n \in Names, NEW key
    PROVE  /\ (\A x \in Ends(s) : Matches(s, x, n) => x = e) => Unmatched(t, n)
           /\ Unmatched(s, n) => Unmatched(t, n)
           /\ Unused(s, key) => Unused(t, key)
<1>1. /\ Unmatched(s, n) => Unmatched(t, n)
      /\ Unused(s, key) => Unused(t, key)
      /\ (\A x \in Ends(s) : Matches(s, x, n) => x = e) => \A x \in Ends(t) : Matches(t, x, n) => x = e /\ e < e
  <2>1. e \in p .. e
    BY DEF Group
  <2> QED
    BY <2>1, WipedNames, Zenon
<1>2. ~(e < e)
  OBVIOUS
<1> QED
  BY <1>1, <1>2 DEF Unmatched

LEMMA WipeLast ==
    ASSUME NEW lay, NEW d, NEW s, NEW p, NEW e, NEW l, NEW t, Roomy, IInv, Wipe, calls' = calls,
           Layout(lay), OneDir(lay, d), WipedTo(d, s, p, e, l, t), l = e
    PROVE  IInv'
<1>1. /\ d \in Dirs /\ op.dir = d /\ Slots(d) = s /\ Slots(d)' = t
      /\ p \in 1 .. Len(s) /\ e \in 1 .. Len(s) /\ l \in p .. e
      /\ p \in Nat /\ e \in Nat /\ l \in Nat /\ Len(s) \in Nat /\ Len(t) = Len(s)
      /\ Sound(s, e) /\ Group(s, p, e) /\ Wiped(s, t, p, l) /\ Typed(t) /\ Typed(s)
      /\ ~IsChunk(t, Len(t)) /\ Sound(t, 0)
      /\ op' = AfterWipe
      /\ op.kind = "create" => \A x \in Ends(s) : Matches(s, x, op.name) => x = e
      /\ op.kind \in {"create", "unlink"} => s[e].type # "directory"
      /\ op.kind = "rename" => IsEntry(s, e) /\ s[e].thing = op.thing /\ s[e].type = op.type
      /\ op.kind = "rmdir" => s[e].type = "directory" /\ s[e].thing = op.thing
  BY DEF WipedTo, WipeGoes
<1>2. IsWiping /\ op.at \in {"wipe", "wiping"}
  BY DEF Wipe, IsWiping
<1>3. /\ op.name \in Names /\ op.type \in EntryTypes /\ op.kind \in {"create", "unlink", "rename", "rmdir"}
      /\ (op.kind \in {"create", "unlink", "rmdir"} => op.type = "file")
      /\ (op.kind = "rename" => RenameSound)
      /\ (Making => HasRoom(Needed + 1)) /\ op \in OpType
  BY <1>2 DEF IInv, OpSound, OpTyped
<1>4. /\ Layout(lay)' /\ Dirs' = Dirs /\ FreeClusters' = FreeClusters
      /\ \A y \in Dirs \ {d} : Slots(y)' = Slots(y)
  BY <1>1 DEF OneDir, Steady
<1>5. WellChunked(s)
  BY <1>1 DEF Sound
<1>6. /\ op.kind = "create" => Unmatched(t, op.name)
      /\ op.kind = "rename" => Unmatched(t, op.name) /\ Unused(t, op.key)
  <2>1. PICK n \in Names : n = op.name
    BY <1>3
  <2>4. PICK key : key = op.key
    OBVIOUS
  <2>2. op.kind = "rename" => Unmatched(s, n) /\ Unused(s, key)
    BY <1>1, <1>3, <2>1, <2>4 DEF RenameSound
  <2>3. /\ (\A x \in Ends(s) : Matches(s, x, n) => x = e) => Unmatched(t, n)
        /\ Unmatched(s, n) => Unmatched(t, n)
        /\ Unused(s, key) => Unused(t, key)
    <3>1. Typed(s) /\ p \in Nat /\ e \in Nat /\ Group(s, p, e) /\ Wiped(s, t, p, e)
      BY <1>1
    <3> QED
      BY <1>5, <3>1, WipedGone, Zenon
  <2> QED
    BY <1>1, <2>1, <2>2, <2>3, <2>4
<1>7. ASSUME op'.at # "wiping", op'.at # "place" PROVE DirsSound'
  BY <1>1, <1>4, <1>7, DirsKept DEF IInv
<1>8. Laid' /\ calls' \in 0 .. MaxCalls
  BY <1>4 DEF IInv, Laid
<1>9. ASSUME op.kind \in {"create", "rename"}
      PROVE  /\ op' \in OpType /\ op'.at = "search"
             /\ op'.kind = op.kind /\ op'.dir = d /\ op'.name = op.name /\ op'.type = op.type
             /\ op'.thing = op.thing /\ op'.key = op.key /\ op'.left = op.left
  <2>1. op' = Searching(op)
    BY <1>1, <1>9 DEF AfterWipe
  <2> QED
    BY <1>1, <1>3, <2>1, SearchingIs
<1>10. ASSUME op.kind \in {"create", "rename"} PROVE OpTyped' /\ OpSound'
  <2>1. Slots(op.dir)' = t
    BY <1>1, <1>9, <1>10
  <2>2. op'.kind = "rename" => RenameSound'
    BY <1>3, <1>6, <1>9, <1>10, <2>1 DEF RenameSound
  <2>3. Making' => HasRoom(Needed + 1)'
    BY <1>3, <1>4, <1>9, <1>10 DEF Making, HasRoom, Needed
  <2>4. Making' /\ Unmatched(Slots(op.dir), op.name)'
    BY <1>6, <1>9, <1>10, <2>1 DEF Making, Unmatched
  <2> QED
    BY <1>1, <1>3, <1>4, <1>9, <1>10, <2>2, <2>3, <2>4 DEF OpSound, IsWiping, OpTyped
<1>11. CASE op.kind = "create" \/ (op.kind = "rename" /\ op.type = "file")
  <2>1. \A c \in Dirs : ~Adrift(c)'
    BY <1>3, <1>9, <1>11 DEF Adrift
  <2>2. Tree'
    BY <1>1, <1>9, <1>11, <2>1, WipedTree
  <2> QED
    BY <1>7, <1>8, <1>9, <1>10, <1>11, <2>2 DEF IInv
<1>12. CASE op.kind = "unlink"
  <2>1. op' = NoOp
    BY <1>1, <1>12 DEF AfterWipe
  <2>2. op'.at = "idle" /\ op'.kind = "none"
    BY <2>1, OpFields
  <2>3. \A c \in Dirs : ~Adrift(c)'
    BY <2>2 DEF Adrift
  <2>4. Tree'
    BY <1>1, <1>12, <2>1, <2>2, <2>3, WipedTree
  <2> QED
    BY <1>7, <1>8, <2>1, <2>2, <2>4, NoOpSound DEF IInv
<1>13. ASSUME op'.dir = d, op'.at \in {"search", "release"}, s[e].type = "directory",
              s[e].thing \in Dirs \ {Root}, \A c \in Dirs : Adrift(c)' <=> c = s[e].thing,
              op'.kind = "rename" /\ op'.type = "directory" => op'.thing \in Dirs \ {Root}
       PROVE  Tree'
  <2>1. /\ \A i \in 1 .. Len(t) : Special(t[i]) => i \in 1 .. Len(s) /\ t[i] = s[i] /\ i # e
        /\ \A i \in 1 .. Len(s) : Special(s[i]) /\ i # e => i \in 1 .. Len(t) /\ t[i] = s[i]
    BY WipedSpecial
  <2>2. ASSUME NEW y \in Dirs
        PROVE  /\ \A i \in 1 .. Len(Slots(y)') : Special(Slots(y)'[i]) =>
                     i \in 1 .. Len(Slots(y)) /\ Slots(y)'[i] = Slots(y)[i] /\ ~(y = d /\ i = e)
               /\ \A i \in 1 .. Len(Slots(y)) : Special(Slots(y)[i]) /\ ~(y = d /\ i = e) =>
                     i \in 1 .. Len(Slots(y)') /\ Slots(y)'[i] = Slots(y)[i]
    <3>1. CASE y = d
      BY <1>1, <2>1, <3>1
    <3>2. CASE y # d
      BY <1>4, <3>2
    <3> QED
      BY <3>1, <3>2
  <2>3. PICK x \in Dirs \ {Root} : x = s[e].thing
    BY <1>13
  <2>4. HeldAt(d, e, x) /\ e \in 1 .. Len(Slots(d)) /\ Tree
    BY <1>1, <1>13, <2>3 DEF HeldAt, IInv
  <2>5. \A c \in Dirs : ~Adrift(c) /\ (Adrift(c)' <=> c = x)
    BY <1>2, <1>13, <2>3 DEF Adrift
  <2>6. \A y, i : ~Filling(y, i)
    BY <1>2 DEF Filling
  <2> QED
    BY <1>1, <1>4, <1>13, <2>2, <2>4, <2>5, <2>6, TreeLost, SMTT(60)
<1>14. CASE op.kind = "rename" /\ op.type = "directory"
  <2>1. op.thing \in Dirs \ {Root}
    BY <1>14 DEF IInv, Tree
  <2>2. \A c \in Dirs : Adrift(c)' <=> c = s[e].thing
    BY <1>1, <1>9, <1>14 DEF Adrift
  <2>3. Tree'
    BY <1>1, <1>9, <1>13, <1>14, <2>1, <2>2
  <2> QED
    BY <1>7, <1>8, <1>9, <1>10, <1>14, <2>3 DEF IInv
<1>15. CASE op.kind = "rmdir"
  <2>1. op' = [op EXCEPT !.at = "release"]
    BY <1>1, <1>15 DEF AfterWipe
  <2>2. /\ op' \in OpType /\ op'.at = "release"
        /\ op'.kind = "rmdir" /\ op'.dir = d /\ op'.name = op.name /\ op'.type = op.type
        /\ op'.thing = op.thing
    BY <1>1, <1>3, <1>15, <2>1 DEF OpType
  <2>3. op.thing \in Dirs \ {Root} /\ op.thing # d /\ ListsNothing(op.thing)
    BY <1>1, <1>15 DEF IInv, OpSound
  <2>4. ListsNothing(op.thing)'
    <3>1. PICK x : x = op.thing
      OBVIOUS
    <3>2. Slots(op.thing)' = Slots(x)
      BY <1>4, <2>2, <2>3, <3>1
    <3> QED
      BY <2>3, <3>1, <3>2 DEF ListsNothing
  <2>5. OpSound'
    BY <1>1, <1>3, <1>4, <1>15, <2>2, <2>3, <2>4 DEF OpSound, IsWiping, Making
  <2>6. \A c \in Dirs : Adrift(c)' <=> c = s[e].thing
    BY <1>1, <1>15, <2>2 DEF Adrift
  <2>7. Tree'
    BY <1>1, <1>13, <1>15, <2>2, <2>3, <2>6
  <2> QED
    BY <1>7, <1>8, <2>2, <2>5, <2>7 DEF IInv, OpTyped
<1> QED
  BY <1>3, <1>11, <1>12, <1>14, <1>15 DEF EntryTypes

LEMMA WipeKept ==
    ASSUME Roomy, IInv, Wipe, calls' = calls
    PROVE  IInv'
<1>1. PICK lay, d, s, p, e, l, t : Layout(lay) /\ OneDir(lay, d) /\ WipedTo(d, s, p, e, l, t)
  BY WipeDoes
<1>2. l < e \/ l = e
  BY <1>1 DEF WipedTo
<1> QED
  BY <1>1, <1>2, WipeMid, WipeLast

-----------------------------------------------------------------------------
\* The clusters of a directory that nothing leads to any more.
LEMMA ReleaseKept ==
    ASSUME Roomy, IInv, Release, calls' = calls
    PROVE  IInv'
<1>1. PICK lay : Layout(lay)
  BY DEF IInv, Laid
<1>2. PICK x : x = op.thing
  OBVIOUS
<1>3. /\ op.at = "release" /\ op' = NoOp /\ content' = content
      /\ fat' = [c \in AnyCluster |-> IF c \in Chain(x) THEN Free ELSE fat[c]]
  BY <1>2 DEF Release
<1>4. x \in Dirs /\ x # Root /\ ListsNothing(x)
  BY <1>2, <1>3 DEF IInv, OpSound
<1>5. /\ Laid' /\ Dirs' = Dirs \ {x}
      /\ \A e \in Dirs \ {x} : Slots(e)' = Slots(e) /\ SameDir(e)
  BY <1>1, <1>3, <1>4, ReleaseStep DEF Laid
<1>6. op'.at = "idle" /\ op'.kind = "none"
  BY <1>3, OpFields
<1>7. DirsSound'
  <2> SUFFICES ASSUME NEW e \in Dirs \ {x}
               PROVE  Sound(Slots(e)', 0) /\ ~IsChunk(Slots(e)', Len(Slots(e)'))
    BY <1>5 DEF DirsSound, TornEnd
  <2>1. Sound(Slots(e), 0) /\ ~IsChunk(Slots(e), Len(Slots(e)))
    BY <1>3 DEF IInv, DirsSound, TornEnd
  <2> QED
    BY <1>5, <2>1
<1>8. Tree /\ Adrift(x)
  BY <1>2, <1>3 DEF IInv, Adrift
<1>9. ASSUME NEW c \in Dirs, c # x PROVE ~Adrift(c)
  BY <1>2, <1>3, <1>9 DEF Adrift
<1>10. \A c : ~Adrift(c)'
  BY <1>6 DEF Adrift
<1>11. \A y, i : ~Filling(y, i)
  BY <1>3 DEF Filling
<1>12. ASSUME NEW y \in Dirs \ {x}, NEW i \in 1 .. Len(Slots(y)')
       PROVE  /\ Slots(y)'[i].type = "dot" => y # Root /\ i \in {1, 2}
              /\ Slots(y)'[i].type = "directory" => Slots(y)'[i].thing \in Dirs' \ {Root}
  <2>1. Slots(y)' = Slots(y) /\ i \in 1 .. Len(Slots(y))
    BY <1>5
  <2>2. Slots(y)[i].type = "directory" => Slots(y)[i].thing \in Dirs \ {Root}
    BY <1>8, <1>11, <2>1 DEF Tree
  <2>3. ~HeldAt(y, i, x)
    BY <1>4, <1>8, <2>1 DEF Tree
  <2>4. Slots(y)[i].type = "dot" => y # Root /\ i \in {1, 2}
    BY <1>8, <2>1 DEF Tree
  <2> QED
    BY <1>5, <2>1, <2>2, <2>3, <2>4 DEF HeldAt
<1>13. \A y \in Dirs \ {x} : \A i, c : HeldAt(y, i, c)' <=> HeldAt(y, i, c)
  BY <1>5 DEF HeldAt
<1>14. ASSUME NEW c \in Dirs \ {x}, c # Root
       PROVE  \E p \in Dirs \ {x} : content'[c][2] = Dot(1, p) /\ \E i \in 1 .. Len(Slots(p)') : HeldAt(p, i, c)'
  <2>1. PICK p \in Dirs : content[c][2] = Dot(1, p) /\ \E i \in 1 .. Len(Slots(p)) : HeldAt(p, i, c)
    BY <1>8, <1>9, <1>14 DEF Tree
  <2>2. PICK i \in 1 .. Len(Slots(p)) : HeldAt(p, i, c)
    BY <2>1
  <2>3. i \in Ends(Slots(p)) /\ IsEntry(Slots(p), i)
    BY <2>2 DEF HeldAt, Ends, IsChunk, IsEntry, EntryTypes
  <2>4. p # x
    BY <1>4, <2>3 DEF ListsNothing
  <2>5. Slots(p)' = Slots(p) /\ HeldAt(p, i, c)'
    BY <1>5, <1>13, <2>2, <2>4
  <2> QED
    BY <1>3, <2>1, <2>2, <2>4, <2>5
<1>15. ASSUME NEW c \in Dirs \ {x}, c # Root, NEW y \in Dirs \ {x}, NEW z \in Dirs \ {x},
              NEW i \in 1 .. Len(Slots(y)'), NEW j \in 1 .. Len(Slots(z)'), HeldAt(y, i, c)', HeldAt(z, j, c)'
       PROVE  y = z /\ i = j /\ content'[c][2].thing = y
  <2>1. HeldAt(y, i, c) /\ HeldAt(z, j, c) /\ i \in 1 .. Len(Slots(y)) /\ j \in 1 .. Len(Slots(z))
    BY <1>5, <1>13, <1>15
  <2> QED
    BY <1>3, <1>8, <1>15, <2>1 DEF Tree
<1>16. Tree'
  BY <1>5, <1>6, <1>10, <1>12, <1>14, <1>15 DEF Tree
<1> QED
  BY <1>3, <1>5, <1>7, <1>16, NoOpSound DEF IInv

-----------------------------------------------------------------------------
\* Clusters to spare
LEMMA RoomFacts ==
    /\ IsFiniteSet(FreeClusters) /\ Cardinality(FreeClusters) \in Nat
    /\ Needed \in {0, 1} /\ (Needed = 1 <=> op.kind = "mkdir")
    /\ HasRoom(1) => FreeClusters # {}
    /\ HasRoom(Needed + 1) => HasRoom(Needed) /\ HasRoom(1)
    /\ \A c \in FreeClusters : Cardinality(FreeClusters \ {c}) = Cardinality(FreeClusters) - 1
<1>1. IsFiniteSet(Clusters)
  BY FS_Interval, Constants DEF Clusters
<1>2. IsFiniteSet(FreeClusters)
  BY <1>1, FS_Subset DEF FreeClusters
<1>3. Cardinality(FreeClusters) \in Nat
  BY <1>2, FS_CardinalityType
<1>4. Needed \in {0, 1} /\ (Needed = 1 <=> op.kind = "mkdir")
  BY DEF Needed
<1>5. HasRoom(1) => FreeClusters # {}
  BY FS_EmptySet DEF HasRoom
<1>6. HasRoom(Needed + 1) => HasRoom(Needed) /\ HasRoom(1)
  BY <1>3, <1>4 DEF HasRoom
<1>7. \A c \in FreeClusters : Cardinality(FreeClusters \ {c}) = Cardinality(FreeClusters) - 1
  BY <1>2, FS_RemoveElement
<1> QED
  BY <1>2, <1>3, <1>4, <1>5, <1>6, <1>7

\* A step that writes nothing.
LEMMA StillTree ==
    ASSUME IInv, fat' = fat, content' = content, op.at \in {"search", "place"}, op.dir \in Dirs,
           op'.at \in {"search", "place"}, op'.kind = op.kind, op'.dir = op.dir, op'.type = op.type,
           op'.thing = op.thing
    PROVE  Tree'
<1>1. PICK lay : Layout(lay)
  BY DEF IInv, Laid
<1>2. PICK d \in Dirs : d = op.dir
  OBVIOUS
<1>3. Layout(lay)' /\ Steady /\ \A e \in Dirs : Slots(e)' = Slots(e)
  BY <1>1, StillStep
<1>4. Dirs' = Dirs /\ Tree
  BY <1>3 DEF Steady, IInv
<1>5. \A c \in Dirs : (Adrift(c)' <=> Adrift(c)) /\ (Adrift(c) => op'.dir = op.dir)
  BY DEF Adrift
<1>6. \A y, i : ~Filling(y, i)
  BY DEF Filling
<1>7. op'.kind = "rename" /\ op'.type = "directory" => op'.thing \in Dirs \ {Root}
  BY <1>4 DEF Tree
<1>8. /\ \A i \in 1 .. Len(Slots(d)') : Special(Slots(d)'[i]) =>
              i \in 1 .. Len(Slots(d)) /\ Slots(d)'[i] = Slots(d)[i]
      /\ \A i \in 1 .. Len(Slots(d)) : Special(Slots(d)[i]) =>
              i \in 1 .. Len(Slots(d)') /\ Slots(d)'[i] = Slots(d)[i]
  BY <1>3
<1> QED
  BY <1>1, <1>3, <1>4, <1>5, <1>6, <1>7, <1>8, TreeKept

\* What the call writes has a name and a key that nothing else in the directory has.
LEMMA SearchNames ==
    ASSUME IInv, Search
    PROVE  \E d \in Dirs, n \in Names, key \in Keys, named \in OpType :
              /\ op.dir = d /\ op.name = n /\ KeyOf(n, key) /\ Unused(Slots(d), key) /\ Unmatched(Slots(d), n)
              /\ named = IF op.kind = "rename" THEN op ELSE Named(op, Slots(d))
              /\ named.key = key /\ named.left = Chunks[n] /\ named.dir = d /\ named.name = n
              /\ named.kind = op.kind /\ named.type = op.type /\ named.thing = op.thing
<1>1. op.at = "search"
  BY DEF Search
<1>2. PICK d \in Dirs, n \in Names : d = op.dir /\ n = op.name
  BY <1>1 DEF IInv, OpSound
<1>3. Unmatched(Slots(d), n) /\ (op.kind = "rename" => RenameSound) /\ op \in OpType
  BY <1>1, <1>2 DEF IInv, OpSound, OpTyped
<1>4. CASE op.kind = "rename"
  <2>1. op.left = Chunks[n] /\ KeyOf(n, op.key) /\ Unused(Slots(d), op.key)
    BY <1>2, <1>3, <1>4 DEF RenameSound
  <2>2. PICK key \in Keys : key = op.key
    BY <1>3 DEF OpType
  <2> QED
    BY <1>2, <1>3, <1>4, <2>1, <2>2
<1>5. CASE op.kind # "rename"
  <2>1. PICK key : key = ShortName(Slots(d), n)
    OBVIOUS
  <2>2. Sound(Slots(d), 0)
    BY <1>1 DEF IInv, DirsSound
  <2>3. Typed(Slots(d)) /\ WellNamed(Slots(d)) /\ Len(Slots(d)) <= NumClusters * ClusterSlots
    BY <2>2, PlaceIn DEF Sound, IInv
  <2>4. KeyOf(n, key) /\ Unused(Slots(d), key)
    BY <1>3, <2>1, <2>3, ShortNameUnused
  <2>5. key \in Keys /\ Chunks[n] \in Nat
    BY <2>4, KeyFacts, Constants
  <2>6. PICK named : named = [op EXCEPT !.key = key, !.left = Chunks[n]]
    OBVIOUS
  <2>7. named = IF op.kind = "rename" THEN op ELSE Named(op, Slots(d))
    BY <1>2, <1>5, <2>1, <2>6 DEF Named
  <2>8. /\ named \in OpType /\ named.key = key /\ named.left = Chunks[n] /\ named.dir = op.dir
        /\ named.name = op.name /\ named.kind = op.kind /\ named.type = op.type /\ named.thing = op.thing
    BY <1>3, <2>5, <2>6 DEF OpType
  <2> QED
    BY <1>2, <1>3, <2>4, <2>5, <2>7, <2>8
<1> QED
  BY <1>4, <1>5

LEMMA SearchKept ==
    ASSUME Roomy, IInv, Search, calls' = calls
    PROVE  IInv'
<1>1. PICK d \in Dirs, n \in Names, key \in Keys, named \in OpType :
              /\ op.dir = d /\ op.name = n /\ KeyOf(n, key) /\ Unused(Slots(d), key) /\ Unmatched(Slots(d), n)
              /\ named = IF op.kind = "rename" THEN op ELSE Named(op, Slots(d))
              /\ named.key = key /\ named.left = Chunks[n] /\ named.dir = d /\ named.name = n
              /\ named.kind = op.kind /\ named.type = op.type /\ named.thing = op.thing
  BY SearchNames
<1>2. PICK s : s = Slots(d)
  OBVIOUS
<1>3. PICK p : p = IF Starts(s) # {} THEN Min(Starts(s)) ELSE Len(s) + 1
  OBVIOUS
<1>4. PICK place, cluster : /\ place = IF Starts(s) # {} THEN Place(d, p) ELSE NoPlace
                            /\ cluster = IF Starts(s) # {} THEN Place(d, p)[1] ELSE LastCluster(d)
  OBVIOUS
<1>5. /\ op.at = "search" /\ fat' = fat /\ content' = content
      /\ op' = [named EXCEPT !.at = "place", !.cluster = cluster, !.place = place]
  BY <1>1, <1>2, <1>3, <1>4 DEF Search
<1>6. PICK lay : Layout(lay)
  BY DEF IInv, Laid
<1>7. Layout(lay)' /\ Steady /\ \A e \in Dirs : Slots(e)' = Slots(e)
  BY <1>5, <1>6, StillStep
<1>8. Sound(s, 0) /\ ~IsChunk(s, Len(s)) /\ Len(s) \in Nat /\ Len(s) > 0
  <2>1. Sound(Slots(d), 0) /\ ~IsChunk(Slots(d), Len(Slots(d)))
    BY <1>5 DEF IInv, DirsSound, TornEnd
  <2> QED
    BY <1>2, <2>1, PlaceIn DEF IInv
<1>9. /\ p \in 1 .. Len(s) + 1 /\ Placing(s, p, n, Chunks[n], key)
      /\ (Starts(s) # {} => p <= Len(s)) /\ (Starts(s) = {} => p = Len(s) + 1)
  <2>1. /\ Starts(s) # {} => Min(Starts(s)) \in 1 .. Len(s) /\ Placing(s, Min(Starts(s)), n, Chunks[n], key)
        /\ Starts(s) = {} => Placing(s, Len(s) + 1, n, Chunks[n], key)
    BY <1>1, <1>2, <1>8, PlacingBegins
  <2>2. CASE Starts(s) # {}
    BY <1>3, <1>8, <2>1, <2>2
  <2>3. CASE Starts(s) = {}
    BY <1>3, <1>8, <2>1, <2>3
  <2> QED
    BY <2>2, <2>3
<1>10. Placed(lay, d)
  BY <1>6, PlacesNow DEF Places
<1>11. place \in AllPlaces /\ cluster \in AnyCluster
  <2>1. CASE Starts(s) # {}
    <3>1. p \in 1 .. Len(Slots(d))
      BY <1>2, <1>8, <1>9, <2>1
    <3>2. Place(d, p) \in AllPlaces /\ Place(d, p)[1] \in Clusters
      BY <1>10, <3>1 DEF Placed
    <3> QED
      BY <1>4, <2>1, <3>2, ClusterFacts
  <2>2. CASE Starts(s) = {}
    <3>1. LastCluster(d) \in Clusters
      BY <1>10 DEF Placed
    <3> QED
      BY <1>4, <2>2, <3>1, ClusterFacts, OpFields
  <2> QED
    BY <2>1, <2>2
<1>12. /\ op' \in OpType /\ op'.at = "place" /\ op'.cluster = cluster /\ op'.place = place
       /\ op'.key = key /\ op'.left = Chunks[n] /\ op'.dir = d /\ op'.name = n
       /\ op'.kind = op.kind /\ op'.type = op.type /\ op'.thing = op.thing
  BY <1>1, <1>5, <1>11, ZenonT(60) DEF OpType
<1>13. Dirs' = Dirs /\ FreeClusters' = FreeClusters /\ Slots(d)' = s
       /\ (\A i \in 1 .. Len(s) : Place(d, i)' = Place(d, i)) /\ LastCluster(d)' = LastCluster(d)
  BY <1>2, <1>7 DEF Steady, SameDir
<1>14. Needed' = Needed /\ Making' /\ HasRoom(Needed + 1) /\ HasRoom(Needed)
  <2>1. Making /\ HasRoom(Needed + 1)
    BY <1>5 DEF IInv, OpSound
  <2> QED
    BY <1>12, <2>1, RoomFacts DEF Needed, Making
<1>15. PlaceSound'
  <2>1. Slots(op.dir)' = s
    BY <1>12, <1>13
  <2>2. HasRoom(Needed + 1)' /\ HasRoom(Needed)'
    BY <1>13, <1>14 DEF HasRoom
  <2>3. HasRoom(IF p + op.left > Len(s) THEN Needed + 1 ELSE Needed)'
    BY <2>2 DEF HasRoom
  <2>4. op'.place = IF p <= Len(s) THEN Place(d, p)' ELSE NoPlace
    <3>1. CASE Starts(s) # {}
      BY <1>4, <1>8, <1>9, <1>12, <1>13, <3>1
    <3>2. CASE Starts(s) = {}
      BY <1>4, <1>8, <1>9, <1>12, <3>2
    <3> QED
      BY <3>1, <3>2
  <2>5. p = Len(s) + 1 => op'.cluster = LastCluster(d)'
    BY <1>4, <1>8, <1>9, <1>12, <1>13
  <2>6. Place(op.dir, p)' = Place(d, p)' /\ LastCluster(op.dir)' = LastCluster(d)'
    BY <1>12
  <2> QED
    BY <1>9, <1>12, <2>1, <2>3, <2>4, <2>5, <2>6 DEF PlaceSound
<1>16. OpSound'
  <2>1. /\ op.kind \in {"create", "unlink", "rename", "mkdir", "rmdir"} /\ op.type \in EntryTypes /\ Making
        /\ (op.kind \in {"create", "unlink", "rmdir"} => op.type = "file")
        /\ (op.kind = "mkdir" => op.type = "directory")
    BY <1>5 DEF IInv, OpSound
  <2>2. op.kind # "rmdir"
    BY <2>1 DEF Making
  <2> QED
    BY <1>12, <1>13, <1>14, <1>15, <2>1, <2>2 DEF OpSound, IsWiping
<1>17. DirsSound'
  BY <1>1, <1>2, <1>5, <1>7, <1>8, <1>12, <1>13, DirsKept DEF IInv
<1>18. Tree'
  BY <1>1, <1>5, <1>12, StillTree
<1> QED
  BY <1>7, <1>12, <1>16, <1>17, <1>18 DEF IInv, Laid, OpTyped

-----------------------------------------------------------------------------
\* Filling in the slots of an entry
PlaceAt(d, s, n, p) ==
    /\ d \in Dirs /\ op.dir = d /\ s = Slots(d) /\ op.name = n /\ n \in Names
    /\ p \in 1 .. Len(s) + 1 /\ Len(s) \in Nat /\ Len(s) > 0
    /\ Sound(s, 0) /\ Typed(s) /\ Placing(s, p, n, op.left, op.key)
    /\ op.place = IF p <= Len(s) THEN Place(d, p) ELSE NoPlace
    /\ op.place = NoPlace <=> p = Len(s) + 1
    /\ p = Len(s) + 1 => op.cluster = LastCluster(d)
    /\ HasRoom(IF p + op.left > Len(s) THEN Needed + 1 ELSE Needed)
    /\ op.left \in Nat /\ op.left <= Chunks[n] /\ Chunks[n] \in Nat
    /\ Making /\ op \in OpType

LEMMA PlaceNow ==
    ASSUME IInv, op.at = "place"
    PROVE  \E d, s, n, p : PlaceAt(d, s, n, p)
<1>1. PICK d \in Dirs, n \in Names : d = op.dir /\ n = op.name
  BY DEF IInv, OpSound
<1>2. PICK s : s = Slots(d)
  OBVIOUS
<1>3. PlaceSound /\ Making /\ op \in OpType
  BY DEF IInv, OpSound, OpTyped
<1>4. PICK p \in 1 .. Len(s) + 1 :
        /\ op.place = IF p <= Len(s) THEN Place(d, p) ELSE NoPlace
        /\ p = Len(s) + 1 => op.cluster = LastCluster(d)
        /\ Placing(s, p, n, op.left, op.key)
        /\ HasRoom(IF p + op.left > Len(s) THEN Needed + 1 ELSE Needed)
  BY <1>1, <1>2, <1>3 DEF PlaceSound
<1>5. Sound(s, 0) /\ Len(s) \in Nat /\ Len(s) > 0
  BY <1>1, <1>2, PlaceIn DEF IInv, DirsSound
<1>6. Typed(s)
  BY <1>5 DEF Sound
<1>7. op.left \in Nat /\ op.left <= Chunks[n] /\ Chunks[n] \in Nat
  BY <1>1, <1>4, <1>6, PlacingFacts
<1>8. op.place = NoPlace <=> p = Len(s) + 1
  <2>1. PICK lay : Layout(lay)
    BY DEF IInv, Laid
  <2>2. p \in 1 .. Len(Slots(d)) => Place(d, p) # NoPlace
    BY <1>1, <2>1, PlacesNow DEF Places, Placed
  <2>3. CASE p <= Len(s)
    <3>1. p \in 1 .. Len(Slots(d)) /\ p # Len(s) + 1
      BY <1>2, <1>4, <1>5, <2>3
    <3> QED
      BY <1>4, <2>2, <2>3, <3>1
  <2>4. CASE ~(p <= Len(s))
    <3>1. p = Len(s) + 1
      BY <1>4, <1>5, <2>4
    <3> QED
      BY <1>4, <2>4, <3>1
  <2> QED
    BY <2>3, <2>4
<1>9. PlaceAt(d, s, n, p)
  BY <1>1, <1>2, <1>3, <1>4, <1>5, <1>6, <1>7, <1>8 DEF PlaceAt
<1> QED
  BY <1>9

\* What the rest of OpSound asks of a call that goes on placing.
LEMMA PlacingOn ==
    ASSUME IInv, op.at = "place", op' \in OpType, op'.at = "place", op'.kind = op.kind, op'.dir = op.dir,
           op'.name = op.name, op'.type = op.type, op'.thing = op.thing, Dirs' = Dirs, PlaceSound'
    PROVE  OpSound'
<1>1. /\ op.kind \in {"create", "unlink", "rename", "mkdir", "rmdir"} /\ op.type \in EntryTypes /\ Making
      /\ (op.kind \in {"create", "unlink", "rmdir"} => op.type = "file")
      /\ (op.kind = "mkdir" => op.type = "directory") /\ op.dir \in Dirs /\ op.name \in Names
  BY DEF IInv, OpSound
<1>2. op.kind # "rmdir" /\ Making'
  BY <1>1 DEF Making
<1> QED
  BY <1>1, <1>2 DEF OpSound, IsWiping

LEMMA ExtendKept ==
    ASSUME Roomy, IInv, Extend, calls' = calls
    PROVE  IInv'
<1>1. op.at = "place" /\ op.place = NoPlace
  BY DEF Extend
<1>2. PICK d, s, n, p : PlaceAt(d, s, n, p)
  BY <1>1, PlaceNow
<1>3. /\ d \in Dirs /\ op.dir = d /\ s = Slots(d) /\ op.name = n /\ n \in Names
      /\ Len(s) \in Nat /\ Len(s) > 0
      /\ Sound(s, 0) /\ Typed(s) /\ Placing(s, p, n, op.left, op.key)
      /\ p = Len(s) + 1 /\ op.cluster = LastCluster(d)
      /\ op.left \in Nat /\ op.left <= Chunks[n] /\ Chunks[n] \in Nat
      /\ Making /\ op \in OpType
  BY <1>1, <1>2 DEF PlaceAt
<1>4. HasRoom(Needed + 1)
  <2>1. p + op.left > Len(s)
    BY <1>3
  <2> QED
    BY <1>2, <2>1 DEF PlaceAt
<1>5. PICK lay : Layout(lay)
  BY DEF IInv, Laid
<1>6. PICK c \in FreeClusters : c = FindFree(op.cluster)
  BY <1>4, RoomFacts, FindFreeIs
<1>7. /\ fat' = [fat EXCEPT ![c] = Eoc, ![LastCluster(d)] = c]
      /\ content' = [content EXCEPT ![c] = EmptyCluster]
      /\ op' = [op EXCEPT !.place = <<c, 1>>, !.cluster = c]
  BY <1>3, <1>6 DEF Extend
<1>8. PICK t : t = Slots(d)'
  OBVIOUS
<1>9. /\ (\E m : Layout(m)') /\ Dirs' = Dirs
      /\ FreeClusters' = FreeClusters \ {c}
      /\ Grown(Slots(d), Slots(d)')
      /\ \A i : i = Len(Slots(d)) + 1 => Place(d, i)' = <<c, 1>>
      /\ \A e \in Dirs \ {d} : Slots(e)' = Slots(e)
  BY <1>3, <1>5, <1>7, ExtendStep
<1>10. PICK m : Layout(m)'
  BY <1>9
<1>11. Grown(s, t) /\ Place(d, p)' = <<c, 1>>
  BY <1>3, <1>8, <1>9
<1>12. Len(t) = Len(s) + ClusterSlots /\ ClusterSlots \in Nat \ {0, 1} /\ Len(t) \in Nat
       /\ \A i \in 1 .. Len(t) : t[i] = IF i <= Len(s) THEN s[i] ELSE FreeSlot
  BY <1>3, <1>11, Constants DEF Grown
<1>13. t \in Seq(SlotType)
  BY <1>3, <1>8, <1>9, <1>10, ViewThen DEF View, Seen
<1>14. Typed(t)
  BY <1>3, <1>12, <1>13, TypedFacts DEF Typed
<1>15. Sound(t, 0) /\ Placing(t, p, n, op.left, op.key)
  <2>1. p > Len(s)
    BY <1>3
  <2> QED
    BY <1>3, <1>11, <1>14, <2>1, GrownSound
<1>16. ~IsChunk(t, Len(t))
  <2>1. t[Len(t)] = FreeSlot
    BY <1>3, <1>12
  <2> QED
    BY <2>1, SlotFacts DEF IsChunk
<1>17. c \in Clusters /\ c \in AnyCluster /\ <<c, 1>> \in AllPlaces
  <2>1. 1 \in 1 .. ClusterSlots
    BY <1>12
  <2> QED
    BY <1>6, <2>1, ClusterFacts DEF FreeClusters, AllPlaces
<1>18. /\ op' \in OpType /\ op'.at = "place" /\ op'.cluster = c /\ op'.place = <<c, 1>>
       /\ op'.key = op.key /\ op'.left = op.left /\ op'.dir = d /\ op'.name = n
       /\ op'.kind = op.kind /\ op'.type = op.type /\ op'.thing = op.thing
  BY <1>1, <1>3, <1>7, <1>17 DEF OpType
<1>19. PlaceSound'
  <2>1. Slots(op.dir)' = t
    BY <1>8, <1>18
  <2>2. p \in 1 .. Len(t) + 1 /\ p <= Len(t) /\ p # Len(t) + 1
    BY <1>3, <1>12
  <2>3. ~(p + op.left > Len(t))
    <3>1. Chunks[n] < ClusterSlots
      BY <1>3 DEF Roomy
    <3> QED
      BY <1>3, <1>12, <3>1
  <2>4. HasRoom(Needed)'
    <3>1. Cardinality(FreeClusters \ {c}) = Cardinality(FreeClusters) - 1 /\ Cardinality(FreeClusters) \in Nat
          /\ Needed \in {0, 1}
      BY RoomFacts
    <3>2. Needed' = Needed
      BY <1>18 DEF Needed
    <3>3. Cardinality(FreeClusters) >= Needed + 1
      BY <1>4 DEF HasRoom
    <3>4. Cardinality(FreeClusters') >= Needed
      BY <1>9, <3>1, <3>3
    <3> QED
      BY <3>2, <3>4 DEF HasRoom
  <2>5. op'.place = Place(op.dir, p)'
    BY <1>11, <1>18
  <2> QED
    BY <1>15, <1>18, <2>1, <2>2, <2>3, <2>4, <2>5 DEF PlaceSound
<1>20. OpSound'
  BY <1>1, <1>3, <1>9, <1>18, <1>19, PlacingOn
<1>21. DirsSound'
  BY <1>3, <1>8, <1>9, <1>15, <1>16, <1>18, DirsKept DEF IInv
<1>22. Tree'
  <2>1. ~Special(FreeSlot)
    BY SlotFacts DEF Special
  <2>2. /\ \A i \in 1 .. Len(Slots(d)') : Special(Slots(d)'[i]) =>
              i \in 1 .. Len(Slots(d)) /\ Slots(d)'[i] = Slots(d)[i]
        /\ \A i \in 1 .. Len(Slots(d)) : Special(Slots(d)[i]) =>
              i \in 1 .. Len(Slots(d)') /\ Slots(d)'[i] = Slots(d)[i]
    BY <1>3, <1>8, <1>12, <2>1
  <2>3. \A x \in Dirs : (Adrift(x)' <=> Adrift(x)) /\ (Adrift(x) => op'.dir = op.dir)
    BY <1>1, <1>3, <1>18 DEF Adrift
  <2>4. \A y, i : ~Filling(y, i)
    BY <1>1 DEF Filling
  <2>5. Tree /\ (op'.kind = "rename" /\ op'.type = "directory" => op'.thing \in Dirs \ {Root})
    BY <1>18 DEF IInv, Tree
  <2> QED
    BY <1>3, <1>5, <1>9, <1>10, <2>2, <2>3, <2>4, <2>5, TreeKept
<1> QED
  BY <1>9, <1>18, <1>20, <1>21, <1>22 DEF IInv, Laid, OpTyped

LEMMA ChunkSlot ==
    ASSUME Roomy, NEW n \in Names, NEW left \in Nat, left <= Chunks[n], NEW key \in Keys,
           NEW slot, slot = [Slot("chunk") EXCEPT !.name = n, !.number = left, !.key = key]
    PROVE  slot \in SlotType /\ slot.type = "chunk"
<1>1. Chunks[n] \in Nat /\ NumClusters \in Nat \ {0} /\ ClusterSlots \in Nat
  BY Constants
<1>2. ClusterSlots * 1 <= ClusterSlots * NumClusters /\ ClusterSlots * NumClusters \in Nat
  BY <1>1, Times
<1>3. left < ClusterSlots
  BY <1>1 DEF Roomy
<1>4. left \in 0 .. ClusterSlots * NumClusters
  <2>1. PICK k \in Nat : k = ClusterSlots * NumClusters
    BY <1>2
  <2>2. ClusterSlots <= k
    BY <1>1, <1>2, <2>1
  <2> QED
    BY <1>1, <1>3, <2>1, <2>2
<1>5. 0 \in Things
  BY OpFields
<1> QED
  BY <1>4, <1>5 DEF Slot, SlotType

LEMMA EntrySlot ==
    ASSUME NEW type \in EntryTypes, NEW key \in Keys, NEW slot, slot = [Slot(type) EXCEPT !.key = key]
    PROVE  slot \in SlotType /\ slot.type = type /\ slot.thing = 0 /\ slot.key = key
<1>1. 0 \in Things /\ 0 \in 0 .. ClusterSlots * NumClusters
  <2>1. ClusterSlots * NumClusters \in Nat
    BY Constants
  <2> QED
    BY <2>1, OpFields
<1> QED
  BY <1>1 DEF Slot, SlotType, EntryTypes

\* A slot is put where the next one of the entry belongs.
PutAt(lay, d, s, n, p, slot, t) ==
    /\ Layout(lay) /\ OneDir(lay, d) /\ Slots(d)' = t /\ Put(s, t, p, slot) /\ Typed(t)
    /\ p <= Len(s) /\ op.place = Place(d, p) /\ s[p] = FreeSlot

LEMMA PutNow ==
    ASSUME IInv, NEW d, NEW s, NEW n, NEW p, PlaceAt(d, s, n, p), op.place # NoPlace,
           NEW slot \in SlotType, slot.type \notin {"dot", "free"}, fat' = fat, content' = Written(op.place, slot)
    PROVE  \E lay, t : PutAt(lay, d, s, n, p, slot, t)
<1>1. /\ d \in Dirs /\ s = Slots(d) /\ p <= Len(s) /\ p \in 1 .. Len(s) /\ op.place = Place(d, p)
      /\ Typed(s) /\ Placing(s, p, n, op.left, op.key) /\ Len(s) \in Nat /\ n \in Names
  <2>1. p \in 1 .. Len(s) + 1 /\ Len(s) \in Nat /\ p # Len(s) + 1
    BY DEF PlaceAt
  <2>2. p <= Len(s) /\ p \in 1 .. Len(s)
    BY <2>1
  <2> QED
    BY <2>1, <2>2 DEF PlaceAt
<1>2. s[p] = FreeSlot
  <2>1. p \in p .. Len(s)
    BY <1>1
  <2>2. \A j \in p .. Len(s) : s[j] = FreeSlot
    BY <1>1 DEF Placing
  <2> QED
    BY <2>1, <2>2
<1>3. PICK lay : Layout(lay)
  BY DEF IInv, Laid
<1>4. OneDir(lay, d) /\ \E t : Slots(d)' = t /\ Put(Slots(d), t, p, slot)
  <2>1. /\ p \in 1 .. Len(Slots(d)) /\ Slots(d)[p].type # "dot" /\ content' = Written(Place(d, p), slot)
        /\ d \in Dirs /\ slot.type # "dot"
    BY <1>1, <1>2, SlotFacts
  <2> QED
    BY <1>3, <2>1, WriteStep
<1>5. PICK t : Slots(d)' = t /\ Put(s, t, p, slot)
  BY <1>1, <1>4
<1>6. t \in Seq(SlotType)
  BY <1>1, <1>4, <1>5 DEF OneDir, Steady, SameDir
<1>7. Typed(t)
  BY <1>1, <1>5, <1>6, PutTyped
<1>8. PutAt(lay, d, s, n, p, slot, t)
  BY <1>1, <1>2, <1>3, <1>4, <1>5, <1>7 DEF PutAt
<1> QED
  BY <1>8

LEMMA PlaceChunkKept ==
    ASSUME Roomy, IInv, PlaceChunk, calls' = calls
    PROVE  IInv'
<1>1. op.at = "place" /\ op.place # NoPlace /\ op.left > 0
  BY DEF PlaceChunk, AtFreeSlot
<1>2. PICK d, s, n, p : PlaceAt(d, s, n, p)
  BY <1>1, PlaceNow
<1>3. /\ d \in Dirs /\ op.dir = d /\ s = Slots(d) /\ op.name = n /\ n \in Names
      /\ p \in 1 .. Len(s) + 1 /\ Len(s) \in Nat /\ Len(s) > 0
      /\ Sound(s, 0) /\ Typed(s) /\ Placing(s, p, n, op.left, op.key)
      /\ op.left \in Nat /\ op.left <= Chunks[n] /\ Chunks[n] \in Nat
      /\ HasRoom(IF p + op.left > Len(s) THEN Needed + 1 ELSE Needed)
      /\ Making /\ op \in OpType /\ op.key \in Keys
  BY <1>2 DEF PlaceAt, OpType
<1>4. PICK slot : slot = [Slot("chunk") EXCEPT !.name = n, !.number = op.left, !.key = op.key]
  OBVIOUS
<1>5. /\ fat' = fat /\ content' = Written(op.place, slot)
      /\ op' = [op EXCEPT !.left = op.left - 1, !.cluster = op.place[1], !.place = Following(op.place)]
  BY <1>3, <1>4 DEF PlaceChunk
<1>6. slot \in SlotType /\ slot.type = "chunk"
  <2>1. PICK left \in Nat, key \in Keys : left = op.left /\ key = op.key
    BY <1>3
  <2>2. left <= Chunks[n]
    BY <1>3, <2>1
  <2>3. slot = [Slot("chunk") EXCEPT !.name = n, !.number = left, !.key = key]
    BY <1>4, <2>1
  <2>4. n \in Names
    BY <1>3
  <2> QED
    BY <2>2, <2>3, <2>4, ChunkSlot
<1>7. PICK lay, t : PutAt(lay, d, s, n, p, slot, t)
  BY <1>1, <1>2, <1>5, <1>6, PutNow
<1>8. /\ Layout(lay) /\ OneDir(lay, d) /\ Slots(d)' = t /\ Put(s, t, p, slot) /\ Typed(t)
      /\ p <= Len(s) /\ op.place = Place(d, p) /\ s[p] = FreeSlot
  BY <1>7 DEF PutAt
<1>9. Sound(t, 0) /\ Placing(t, p + 1, n, op.left - 1, op.key)
  BY <1>1, <1>3, <1>4, <1>8, ChunkPut
<1>10. /\ Layout(lay)' /\ Dirs' = Dirs /\ FreeClusters' = FreeClusters
       /\ \A y \in Dirs \ {d} : Slots(y)' = Slots(y)
       /\ (\A i \in 1 .. Len(s) : Place(d, i)' = Place(d, i)) /\ LastCluster(d)' = LastCluster(d)
  BY <1>3, <1>8 DEF OneDir, Steady, SameDir
<1>11. /\ Place(d, p)[1] \in AnyCluster
       /\ p < Len(s) => Following(Place(d, p)) = Place(d, p + 1) /\ Place(d, p + 1) \in AllPlaces
       /\ p = Len(s) => Following(Place(d, p)) = NoPlace /\ Place(d, p)[1] = LastCluster(d)
  <2>1. Placed(lay, d)
    BY <1>3, <1>8, PlacesNow DEF Places
  <2>2. p \in 1 .. Len(Slots(d)) /\ (p < Len(s) => p + 1 \in 1 .. Len(Slots(d)))
    BY <1>3, <1>8
  <2>3. Place(d, p)[1] \in Clusters
    BY <2>1, <2>2 DEF Placed
  <2>4. p < Len(s) => Following(Place(d, p)) = Place(d, p + 1) /\ Place(d, p + 1) \in AllPlaces
    BY <1>3, <2>1, <2>2 DEF Placed
  <2>5. p = Len(s) => Following(Place(d, p)) = NoPlace /\ Place(d, p)[1] = LastCluster(d)
    BY <1>3, <2>1, <2>2 DEF Placed
  <2> QED
    BY <2>3, <2>4, <2>5, ClusterFacts
<1>12. PICK place : place = Following(op.place)
  OBVIOUS
<1>13. place \in AllPlaces /\ place = IF p + 1 <= Len(s) THEN Place(d, p + 1) ELSE NoPlace
  BY <1>3, <1>8, <1>11, <1>12, OpFields
<1>14. /\ op' \in OpType /\ op'.at = "place" /\ op'.cluster = Place(d, p)[1] /\ op'.place = place
       /\ op'.key = op.key /\ op'.left = op.left - 1 /\ op'.dir = d /\ op'.name = n
       /\ op'.kind = op.kind /\ op'.type = op.type /\ op'.thing = op.thing
  <2>1. op.left - 1 \in Nat
    BY <1>1, <1>3
  <2> QED
    BY <1>1, <1>3, <1>5, <1>8, <1>11, <1>12, <1>13, <2>1 DEF OpType
<1>15. PlaceSound'
  <2>1. Slots(op.dir)' = t
    BY <1>8, <1>14
  <2>2. Len(t) = Len(s)
    BY <1>8 DEF Put
  <2>3. p + 1 \in 1 .. Len(t) + 1
    BY <1>3, <1>8, <2>2
  <2>4. op'.place = IF p + 1 <= Len(t) THEN Place(op.dir, p + 1)' ELSE NoPlace
    <3>1. CASE p + 1 <= Len(s)
      <4>1. p + 1 \in 1 .. Len(s)
        BY <1>3, <3>1
      <4> QED
        BY <1>10, <1>13, <1>14, <2>2, <3>1, <4>1
    <3>2. CASE ~(p + 1 <= Len(s))
      BY <1>13, <1>14, <2>2, <3>2
    <3> QED
      BY <3>1, <3>2
  <2>5. p + 1 = Len(t) + 1 => op'.cluster = LastCluster(op.dir)'
    <3>1. p + 1 = Len(t) + 1 => p = Len(s)
      BY <1>3, <2>2
    <3> QED
      BY <1>10, <1>11, <1>14, <3>1
  <2>6. HasRoom(IF p + 1 + op.left > Len(t) THEN Needed + 1 ELSE Needed)'
    <3>1. Needed' = Needed /\ Needed \in {0, 1}
      BY <1>14, RoomFacts DEF Needed
    <3>2. p + 1 + op'.left = p + op.left
      BY <1>3, <1>14
    <3> QED
      BY <1>3, <1>10, <2>2, <3>1, <3>2 DEF HasRoom
  <2> QED
    BY <1>9, <1>14, <2>1, <2>3, <2>4, <2>5, <2>6 DEF PlaceSound
<1>16. OpSound'
  BY <1>1, <1>3, <1>10, <1>14, <1>15, PlacingOn
<1>17. DirsSound'
  BY <1>3, <1>8, <1>9, <1>10, <1>14, DirsKept DEF IInv
<1>18. Tree'
  <2>1. ~Special(FreeSlot) /\ ~Special(slot)
    BY <1>6, SlotFacts DEF Special
  <2>2. /\ \A i \in 1 .. Len(Slots(d)') : Special(Slots(d)'[i]) =>
              i \in 1 .. Len(Slots(d)) /\ Slots(d)'[i] = Slots(d)[i]
        /\ \A i \in 1 .. Len(Slots(d)) : Special(Slots(d)[i]) =>
              i \in 1 .. Len(Slots(d)') /\ Slots(d)'[i] = Slots(d)[i]
    BY <1>3, <1>8, <2>1 DEF Put
  <2>3. \A x \in Dirs : (Adrift(x)' <=> Adrift(x)) /\ (Adrift(x) => op'.dir = op.dir)
    BY <1>1, <1>3, <1>14 DEF Adrift
  <2>4. \A y, i : ~Filling(y, i)
    BY <1>1 DEF Filling
  <2>5. Tree /\ (op'.kind = "rename" /\ op'.type = "directory" => op'.thing \in Dirs \ {Root})
    BY <1>14 DEF IInv, Tree
  <2> QED
    BY <1>3, <1>8, <1>10, <2>2, <2>3, <2>4, <2>5, TreeKept
<1> QED
  BY <1>10, <1>14, <1>16, <1>17, <1>18 DEF IInv, Laid, OpTyped

LEMMA PlaceShortKept ==
    ASSUME Roomy, IInv, PlaceShort, calls' = calls
    PROVE  IInv'
<1>1. op.at = "place" /\ op.place # NoPlace /\ op.left = 0
  BY DEF PlaceShort, AtFreeSlot
<1>2. PICK d, s, n, p : PlaceAt(d, s, n, p)
  BY <1>1, PlaceNow
<1>3. /\ d \in Dirs /\ op.dir = d /\ s = Slots(d) /\ op.name = n /\ n \in Names
      /\ p \in 1 .. Len(s) + 1 /\ Len(s) \in Nat /\ Len(s) > 0
      /\ Sound(s, 0) /\ Typed(s) /\ Placing(s, p, n, 0, op.key)
      /\ HasRoom(IF p + 0 > Len(s) THEN Needed + 1 ELSE Needed)
      /\ Making /\ op \in OpType
  BY <1>1, <1>2 DEF PlaceAt
<1>4. PICK type \in EntryTypes, key \in Keys : type = op.type /\ key = op.key
  BY <1>3 DEF OpType
<1>5. PICK slot : slot = [Slot(type) EXCEPT !.key = key]
  OBVIOUS
<1>6. /\ fat' = fat /\ content' = Written(op.place, slot)
      /\ op' = IF op.kind = "create" THEN NoOp ELSE [op EXCEPT !.at = "fill", !.entry = op.place]
  BY <1>4, <1>5 DEF PlaceShort
<1>7. slot \in SlotType /\ slot.type = type /\ slot.thing = 0 /\ slot.key = key
  <2>1. \A k \in EntryTypes, x \in Keys : LET y == [Slot(k) EXCEPT !.key = x] IN
           y \in SlotType /\ y.type = k /\ y.thing = 0 /\ y.key = x
    BY EntrySlot, ZenonT(60)
  <2> QED
    BY <1>5, <2>1
<1>8. PICK lay, t : PutAt(lay, d, s, n, p, slot, t)
  <2>1. slot.type \notin {"dot", "free"}
    BY <1>4, <1>7 DEF EntryTypes
  <2> QED
    BY <1>1, <1>2, <1>6, <1>7, <2>1, PutNow
<1>9. /\ Layout(lay) /\ OneDir(lay, d) /\ Slots(d)' = t /\ Put(s, t, p, slot) /\ Typed(t)
      /\ p <= Len(s) /\ op.place = Place(d, p) /\ s[p] = FreeSlot
  BY <1>8 DEF PutAt
<1>10. p \in 1 .. Len(s) /\ Len(t) = Len(s) /\ t[p] = slot
       /\ \A i \in 1 .. Len(s) : i # p => t[i] = s[i]
  BY <1>3, <1>9 DEF Put
<1>11. Sound(t, 0)
  <2>1. Placing(s, p, n, 0, key)
    BY <1>3, <1>4
  <2> QED
    BY <1>3, <1>5, <1>9, <2>1, EntryPut
<1>12. ~IsChunk(t, Len(t))
  <2>1. Len(s) \in p .. Len(s) /\ Len(s) \in 1 .. Len(s)
    BY <1>3, <1>9
  <2>2. p # Len(s) => s[Len(s)] = FreeSlot
    BY <1>3, <2>1 DEF Placing
  <2> QED
    BY <1>4, <1>7, <1>10, <2>1, <2>2, SlotFacts DEF IsChunk, EntryTypes
<1>13. /\ Layout(lay)' /\ Dirs' = Dirs /\ FreeClusters' = FreeClusters
       /\ \A y \in Dirs \ {d} : Slots(y)' = Slots(y)
       /\ (\A i \in 1 .. Len(s) : Place(d, i)' = Place(d, i))
  BY <1>3, <1>9 DEF OneDir, Steady, SameDir
<1>14. /\ op.kind \in {"create", "rename", "mkdir"} /\ op.type \in EntryTypes
       /\ (op.kind = "create" => op.type = "file") /\ (op.kind = "mkdir" => op.type = "directory")
  BY <1>1, <1>3 DEF IInv, OpSound, Making
<1>15. ASSUME op'.at \in {"idle", "fill"} PROVE DirsSound'
  BY <1>3, <1>9, <1>11, <1>12, <1>13, <1>15, DirsKept DEF IInv
<1>16. ASSUME op'.kind \in {op.kind, "none"}, op'.dir = op.dir \/ op' = NoOp,
              op'.type = op.type \/ op' = NoOp, op'.thing = op.thing \/ op' = NoOp,
              \A x \in Dirs : (Adrift(x)' <=> Adrift(x)) /\ (Adrift(x) => op'.dir = op.dir),
              type = "directory" => Filling(d, p)'
       PROVE  Tree'
  <2>1. ~Special(FreeSlot) /\ (Special(slot) => slot.type = "directory" /\ slot.thing \notin Dirs /\ Filling(d, p)')
    <3>1. 0 \notin Dirs
      BY ClusterFacts DEF Dirs
    <3> QED
      BY <1>7, <1>16, <3>1, SlotFacts DEF Special, EntryTypes
  <2>2. \A i \in 1 .. Len(Slots(d)') : Special(Slots(d)'[i]) =>
              \/ i \in 1 .. Len(Slots(d)) /\ Slots(d)'[i] = Slots(d)[i]
              \/ Slots(d)'[i].type = "directory" /\ Slots(d)'[i].thing \notin Dirs /\ Filling(d, i)'
    BY <1>3, <1>9, <1>10, <2>1
  <2>3. \A i \in 1 .. Len(Slots(d)) : Special(Slots(d)[i]) =>
              i \in 1 .. Len(Slots(d)') /\ Slots(d)'[i] = Slots(d)[i]
    BY <1>3, <1>9, <1>10, <2>1
  <2>4. \A y, i : ~Filling(y, i)
    BY <1>1 DEF Filling
  <2>5. Tree /\ (op'.kind = "rename" /\ op'.type = "directory" => op'.thing \in Dirs \ {Root})
    <3>1. NoOp.kind = "none"
      BY OpFields
    <3> QED
      BY <1>16, <3>1 DEF IInv, Tree
  <2> QED
    BY <1>3, <1>9, <1>13, <1>16, <2>2, <2>3, <2>4, <2>5, TreeKept
<1>17. CASE op.kind = "create"
  <2>1. op' = NoOp /\ op'.at = "idle" /\ op'.kind = "none"
    BY <1>6, <1>17, OpFields
  <2>2. \A x \in Dirs : ~Adrift(x)' /\ ~Adrift(x)
    BY <1>1, <1>14, <1>17, <2>1 DEF Adrift
  <2>3. type # "directory"
    BY <1>4, <1>14, <1>17
  <2>4. Tree'
    BY <1>16, <2>1, <2>2, <2>3
  <2> QED
    BY <1>13, <1>15, <2>1, <2>4, NoOpSound DEF IInv, Laid
<1>18. CASE op.kind # "create"
  <2>1. op' = [op EXCEPT !.at = "fill", !.entry = op.place]
    BY <1>6, <1>18
  <2>2. /\ op' \in OpType /\ op'.at = "fill" /\ op'.entry = op.place /\ op'.dir = d /\ op'.name = n
        /\ op'.kind = op.kind /\ op'.type = op.type /\ op'.thing = op.thing
    BY <1>3, <2>1 DEF OpType
  <2>3. op'.entry = Place(d, p)'
    BY <1>9, <1>10, <1>13, <2>2
  <2>4. FillSound'
    <3>1. Slots(op.dir)' = t /\ op'.entry = Place(op.dir, p)'
      BY <1>9, <2>2, <2>3
    <3>2. HasRoom(Needed)
      <4>1. ~(p + 0 > Len(s))
        BY <1>3, <1>9
      <4> QED
        BY <1>3, <4>1
    <3>3. HasRoom(Needed)'
      BY <1>13, <2>2, <3>2 DEF HasRoom, Needed
    <3>4. p \in 1 .. Len(t) /\ t[p].type = op'.type /\ t[p].thing = 0 /\ IsEntry(t, p)
      BY <1>4, <1>7, <1>10, <2>2 DEF IsEntry
    <3> QED
      BY <3>1, <3>3, <3>4 DEF FillSound
  <2>5. OpSound'
    BY <1>3, <1>13, <1>14, <1>18, <2>2, <2>4 DEF OpSound, IsWiping
  <2>6. \A x \in Dirs : (Adrift(x)' <=> Adrift(x)) /\ op'.dir = op.dir
    BY <1>1, <1>3, <2>2 DEF Adrift
  <2>7. Filling(d, p)'
    BY <2>2, <2>3 DEF Filling
  <2>8. Tree'
    BY <1>16, <1>3, <2>2, <2>6, <2>7
  <2> QED
    BY <1>13, <1>15, <2>2, <2>5, <2>8 DEF IInv, Laid, OpTyped
<1> QED
  BY <1>17, <1>18

-----------------------------------------------------------------------------
\* The first cluster of a directory is written to its entry.
LEMMA TreeFound ==
    ASSUME NEW lay, Layout(lay), NEW m, Layout(m)', Tree, NEW d \in Dirs, NEW e \in 1 .. Len(Slots(d)),
           NEW x \in Dirs \ {Root}, Dirs' = Dirs, op.dir = d, Adrift(x),
           \A c \in Dirs : (Adrift(c) => c = x) /\ ~Adrift(c)',
           \A y \in Dirs : \A i \in 1 .. Len(Slots(y)) : Filling(y, i) => y = d /\ i = e,
           Slots(d)[e].type = "directory", Slots(d)[e].thing = 0,
           e \in 1 .. Len(Slots(d)'), HeldAt(d, e, x)', op'.kind # "rename",
           \A y \in Dirs : \A i \in 1 .. Len(Slots(y)') : Special(Slots(y)'[i]) /\ ~(y = d /\ i = e) =>
              i \in 1 .. Len(Slots(y)) /\ Slots(y)'[i] = Slots(y)[i],
           \A y \in Dirs : \A i \in 1 .. Len(Slots(y)) : Special(Slots(y)[i]) /\ ~(y = d /\ i = e) =>
              i \in 1 .. Len(Slots(y)') /\ Slots(y)'[i] = Slots(y)[i]
    PROVE  Tree'
<1>1. ASSUME NEW y \in Dirs, NEW i \in 1 .. Len(Slots(y)')
      PROVE  /\ Slots(y)'[i].type = "dot" => y # Root /\ i \in {1, 2}
             /\ Slots(y)'[i].type = "directory" => Slots(y)'[i].thing \in Dirs \ {Root}
  <2>1. CASE y = d /\ i = e
    BY <2>1 DEF HeldAt
  <2>2. CASE ~(y = d /\ i = e)
    <3>1. Special(Slots(y)'[i]) => i \in 1 .. Len(Slots(y)) /\ Slots(y)'[i] = Slots(y)[i] /\ ~Filling(y, i)
      BY <2>2
    <3> QED
      BY <3>1 DEF Tree, Special
  <2> QED
    BY <2>1, <2>2
<1>2. ASSUME NEW c \in Dirs \ {Root}
      PROVE  content'[c][2] = content[c][2]
  <2>1. \A i \in 1 .. Len(Slots(c)) : Slots(c)[i].type = "dot" => Slots(c)'[i] = Slots(c)[i]
    <3> SUFFICES ASSUME NEW i \in 1 .. Len(Slots(c)), Slots(c)[i].type = "dot" PROVE Slots(c)'[i] = Slots(c)[i]
      OBVIOUS
    <3>1. ~(c = d /\ i = e)
      OBVIOUS
    <3> QED
      BY <3>1 DEF Special
  <2> QED
    BY <2>1, SecondSlot
<1>3. 0 \notin Dirs
  BY ClusterFacts DEF Dirs
<1>4. ASSUME NEW y \in Dirs, NEW c \in Dirs
      PROVE  /\ \A i \in 1 .. Len(Slots(y)') : HeldAt(y, i, c)' =>
                    \/ i \in 1 .. Len(Slots(y)) /\ HeldAt(y, i, c)
                    \/ y = d /\ i = e /\ c = x
             /\ \A i \in 1 .. Len(Slots(y)) : HeldAt(y, i, c) =>
                    i \in 1 .. Len(Slots(y)') /\ HeldAt(y, i, c)'
  <2>1. \A i \in 1 .. Len(Slots(y)') : HeldAt(y, i, c)' =>
                    \/ i \in 1 .. Len(Slots(y)) /\ HeldAt(y, i, c)
                    \/ y = d /\ i = e /\ c = x
    BY DEF HeldAt, Special
  <2>2. \A i \in 1 .. Len(Slots(y)) : HeldAt(y, i, c) =>
                    i \in 1 .. Len(Slots(y)') /\ HeldAt(y, i, c)'
    BY <1>3 DEF HeldAt, Special
  <2> QED
    BY <2>1, <2>2
<1>5. content[x][2] = Dot(1, d) /\ \A y \in Dirs : \A i \in 1 .. Len(Slots(y)) : ~HeldAt(y, i, x)
  <2>1. content[x][2] = Dot(1, d)
    BY DEF Tree
  <2>2. \A y \in Dirs : \A i \in 1 .. Len(Slots(y)) : ~HeldAt(y, i, x)
    BY DEF Tree
  <2> QED
    BY <2>1, <2>2
<1>6. Dot(1, d).thing = d
  BY DEF Dot, Slot
<1>7. ASSUME NEW c \in Dirs \ {Root}
      PROVE  \E p \in Dirs : /\ content'[c][2] = Dot(1, p)
                             /\ \E i \in 1 .. Len(Slots(p)') : HeldAt(p, i, c)'
  <2>1. CASE c = x
    <3>1. content'[x][2] = Dot(1, d)
      BY <1>2, <1>5
    <3> QED
      BY <2>1, <3>1
  <2>2. CASE c # x
    <3>1. PICK p \in Dirs : content[c][2] = Dot(1, p) /\ \E i \in 1 .. Len(Slots(p)) : HeldAt(p, i, c)
      BY <2>2 DEF Tree
    <3>2. PICK i \in 1 .. Len(Slots(p)) : HeldAt(p, i, c)
      BY <3>1
    <3>3. i \in 1 .. Len(Slots(p)') /\ HeldAt(p, i, c)'
      BY <1>4, <3>2
    <3> QED
      BY <1>2, <3>1, <3>3
  <2> QED
    BY <2>1, <2>2
<1>8. ASSUME NEW c \in Dirs \ {Root}, NEW y \in Dirs, NEW z \in Dirs, NEW i \in 1 .. Len(Slots(y)'),
             NEW j \in 1 .. Len(Slots(z)'), HeldAt(y, i, c)', HeldAt(z, j, c)'
      PROVE  y = z /\ i = j /\ content'[c][2].thing = y
  <2>1. /\ (i \in 1 .. Len(Slots(y)) /\ HeldAt(y, i, c)) \/ (y = d /\ i = e /\ c = x)
        /\ (j \in 1 .. Len(Slots(z)) /\ HeldAt(z, j, c)) \/ (z = d /\ j = e /\ c = x)
    BY <1>4, <1>8
  <2>2. CASE c = x
    BY <1>2, <1>5, <1>6, <2>1, <2>2
  <2>3. CASE c # x
    <3>1. i \in 1 .. Len(Slots(y)) /\ HeldAt(y, i, c) /\ j \in 1 .. Len(Slots(z)) /\ HeldAt(z, j, c)
      BY <2>1, <2>3
    <3>2. y = z /\ i = j /\ content[c][2].thing = y
      BY <3>1 DEF Tree
    <3> QED
      BY <1>2, <3>2
  <2> QED
    BY <2>2, <2>3
<1> QED
  BY <1>1, <1>7, <1>8 DEF Tree

FillAt(d, s, e) ==
    /\ d \in Dirs /\ op.dir = d /\ s = Slots(d) /\ e \in 1 .. Len(s) /\ op.entry = Place(d, e)
    /\ s[e].type = op.type /\ s[e].thing = 0 /\ IsEntry(s, e) /\ HasRoom(Needed)
    /\ Sound(s, 0) /\ Typed(s) /\ s[e] \in SlotType /\ SlotAt(op.entry) = s[e]
    /\ ~IsChunk(s, Len(s)) /\ Len(s) > 0 /\ Len(s) \in Nat
    /\ op.type \in EntryTypes
    /\ \A y \in Dirs : \A i \in 1 .. Len(Slots(y)) : Filling(y, i) => y = d /\ i = e

LEMMA FillNow ==
    ASSUME IInv, op.at = "fill"
    PROVE  \E d, s, e : FillAt(d, s, e)
<1>1. PICK d \in Dirs : d = op.dir
  BY DEF IInv, OpSound
<1>2. PICK s : s = Slots(d)
  OBVIOUS
<1>3. FillSound /\ op.type \in EntryTypes
  BY DEF IInv, OpSound
<1>4. PICK e \in 1 .. Len(s) :
        /\ op.entry = Place(d, e)
        /\ s[e].type = op.type /\ s[e].thing = 0 /\ IsEntry(s, e)
        /\ HasRoom(Needed)
  BY <1>1, <1>2, <1>3 DEF FillSound
<1>5. Sound(s, 0) /\ ~IsChunk(s, Len(s)) /\ Len(s) \in Nat /\ Len(s) > 0
  <2>1. Sound(Slots(d), 0) /\ ~IsChunk(Slots(d), Len(Slots(d)))
    BY DEF IInv, DirsSound, TornEnd
  <2> QED
    BY <1>2, <2>1, PlaceIn DEF IInv
<1>6. Typed(s) /\ s[e] \in SlotType
  <2>1. Typed(s)
    BY <1>5 DEF Sound
  <2> QED
    BY <2>1, TypedFacts
<1>7. PICK lay : Layout(lay)
  BY DEF IInv, Laid
<1>8. Placed(lay, d) /\ Apart(d, d)
  BY <1>7, PlacesNow DEF Places
<1>9. SlotAt(op.entry) = s[e]
  <2>1. e \in 1 .. Len(Slots(d))
    BY <1>2
  <2> QED
    BY <1>2, <1>4, <1>8, <2>1 DEF Placed
<1>10. ASSUME NEW y \in Dirs, NEW i \in 1 .. Len(Slots(y)), Filling(y, i) PROVE y = d /\ i = e
  <2>1. y = d /\ Place(d, i) = Place(d, e)
    BY <1>1, <1>4, <1>10 DEF Filling
  <2>2. i \in 1 .. Len(Slots(d)) /\ e \in 1 .. Len(Slots(d))
    BY <1>2, <1>10, <2>1
  <2> QED
    BY <1>8, <2>1, <2>2 DEF Apart
<1>11. FillAt(d, s, e)
  BY <1>1, <1>2, <1>3, <1>4, <1>5, <1>6, <1>9, <1>10 DEF FillAt
<1> QED
  BY <1>11

\* Another thing for the entry.
LEMMA ThingSlot ==
    ASSUME NEW x \in SlotType, NEW o \in Things, NEW slot, slot = [x EXCEPT !.thing = o]
    PROVE  slot \in SlotType /\ slot.type = x.type /\ slot.thing = o
BY DEF SlotType

LEMMA FillRenamedKept ==
    ASSUME Roomy, IInv, FillRenamed, calls' = calls
    PROVE  IInv'
<1>1. op.at = "fill" /\ op.kind = "rename"
  BY DEF FillRenamed
<1>2. PICK d, s, e : FillAt(d, s, e)
  BY <1>1, FillNow
<1>3. /\ d \in Dirs /\ op.dir = d /\ s = Slots(d) /\ e \in 1 .. Len(s) /\ op.entry = Place(d, e)
      /\ s[e].type = op.type /\ s[e].thing = 0 /\ IsEntry(s, e) /\ op.type \in EntryTypes
      /\ Sound(s, 0) /\ Typed(s) /\ s[e] \in SlotType /\ SlotAt(op.entry) = s[e]
      /\ ~IsChunk(s, Len(s)) /\ Len(s) > 0 /\ Len(s) \in Nat
      /\ \A y \in Dirs : \A i \in 1 .. Len(Slots(y)) : Filling(y, i) => y = d /\ i = e
  BY <1>2 DEF FillAt
<1>4. PICK x \in Things : x = op.thing
  BY DEF IInv, OpTyped, OpType
<1>5. PICK slot : slot = [s[e] EXCEPT !.thing = x]
  OBVIOUS
<1>6. fat' = fat /\ content' = Written(Place(d, e), slot) /\ op' = NoOp
  BY <1>3, <1>4, <1>5 DEF FillRenamed
<1>7. slot \in SlotType /\ slot.type = s[e].type /\ slot.thing = x
  BY <1>3, <1>5, ThingSlot
<1>8. PICK lay : Layout(lay)
  BY DEF IInv, Laid
<1>9. slot.type \notin {"dot", "free", "chunk"}
  BY <1>3, <1>7 DEF EntryTypes
<1>10. OneDir(lay, d) /\ \E t : Slots(d)' = t /\ Put(Slots(d), t, e, slot)
  <2>1. e \in 1 .. Len(Slots(d)) /\ Slots(d)[e].type # "dot" /\ slot.type # "dot"
    BY <1>3, <1>7, <1>9
  <2> QED
    BY <1>3, <1>6, <1>7, <1>8, <2>1, WriteStep
<1>11. PICK t : Slots(d)' = t /\ Put(s, t, e, slot)
  BY <1>3, <1>10
<1>12. Layout(lay)' /\ Dirs' = Dirs /\ (\A y \in Dirs \ {d} : Slots(y)' = Slots(y)) /\ t \in Seq(SlotType)
  BY <1>3, <1>10, <1>11 DEF OneDir, Steady, SameDir
<1>13. Typed(t)
  BY <1>3, <1>7, <1>9, <1>11, <1>12, PutTyped
<1>14. Sound(t, 0)
  BY <1>3, <1>5, <1>11, <1>13, ThingSound
<1>15. ~IsChunk(t, Len(t))
  BY <1>3, <1>9, <1>11, PutEnd
<1>16. op'.at = "idle" /\ op'.kind = "none"
  BY <1>6, OpFields
<1>17. DirsSound'
  BY <1>3, <1>11, <1>12, <1>14, <1>15, <1>16, DirsKept DEF IInv
<1>18. Len(t) = Len(s) /\ t[e] = slot /\ \A i \in 1 .. Len(s) : i # e => t[i] = s[i]
  BY <1>3, <1>11 DEF Put
<1>19. ASSUME NEW y \in Dirs
       PROVE  /\ \A i \in 1 .. Len(Slots(y)') : Special(Slots(y)'[i]) /\ ~(y = d /\ i = e) =>
                    i \in 1 .. Len(Slots(y)) /\ Slots(y)'[i] = Slots(y)[i]
              /\ \A i \in 1 .. Len(Slots(y)) : Special(Slots(y)[i]) /\ ~(y = d /\ i = e) =>
                    i \in 1 .. Len(Slots(y)') /\ Slots(y)'[i] = Slots(y)[i]
  <2>1. CASE y = d
    BY <1>3, <1>11, <1>18, <2>1
  <2>2. CASE y # d
    BY <1>12, <2>2
  <2> QED
    BY <2>1, <2>2
<1>20. \A c : ~Adrift(c)'
  BY <1>16 DEF Adrift
<1>21. Tree
  BY DEF IInv
<1>22. CASE op.type = "directory"
  <2>1. x \in Dirs \ {Root}
    BY <1>1, <1>4, <1>21, <1>22 DEF Tree
  <2>2. Adrift(x) /\ \A c \in Dirs : Adrift(c) => c = x
    BY <1>1, <1>4, <1>22 DEF Adrift
  <2>3. e \in 1 .. Len(Slots(d)) /\ e \in 1 .. Len(Slots(d)') /\ HeldAt(d, e, x)'
    BY <1>3, <1>7, <1>11, <1>18, <1>22 DEF HeldAt
  <2>4. Slots(d)[e].type = "directory" /\ Slots(d)[e].thing = 0
    BY <1>3, <1>22
  <2>5. Tree'
    BY <1>3, <1>8, <1>12, <1>16, <1>19, <1>20, <1>21, <2>1, <2>2, <2>3, <2>4, TreeFound, SMTT(60)
  <2> QED
    BY <1>6, <1>12, <1>17, <2>5, NoOpSound DEF IInv, Laid
<1>23. CASE op.type # "directory"
  <2>1. ~Special(slot) /\ ~Special(s[e]) /\ s[e].type # "directory"
    BY <1>3, <1>7, <1>9, <1>23 DEF Special
  <2>2. /\ \A i \in 1 .. Len(Slots(d)') : Special(Slots(d)'[i]) =>
              i \in 1 .. Len(Slots(d)) /\ Slots(d)'[i] = Slots(d)[i]
        /\ \A i \in 1 .. Len(Slots(d)) : Special(Slots(d)[i]) =>
              i \in 1 .. Len(Slots(d)') /\ Slots(d)'[i] = Slots(d)[i]
    BY <1>3, <1>11, <1>18, <2>1
  <2>3. \A c \in Dirs : ~Adrift(c)
    BY <1>1, <1>23 DEF Adrift
  <2>4. \A y \in Dirs : \A i \in 1 .. Len(Slots(y)) : Filling(y, i) => Slots(y)[i].type # "directory"
    BY <1>3, <2>1
  <2>5. Tree'
    BY <1>3, <1>8, <1>12, <1>16, <1>20, <1>21, <2>2, <2>3, <2>4, TreeKept
  <2> QED
    BY <1>6, <1>12, <1>17, <2>5, NoOpSound DEF IInv, Laid
<1> QED
  BY <1>22, <1>23

\* A new directory c gets its entry in d.
LEMMA TreeMade ==
    ASSUME NEW lay, Layout(lay), NEW m, Layout(m)', Tree, NEW d \in Dirs, NEW e \in 1 .. Len(Slots(d)),
           NEW c, c \in Clusters \ Dirs, Dirs' = Dirs \cup {c},
           \A x : ~Adrift(x) /\ ~Adrift(x)',
           \A y \in Dirs : \A i \in 1 .. Len(Slots(y)) : Filling(y, i) => y = d /\ i = e,
           Slots(d)[e].type = "directory", Slots(d)[e].thing = 0,
           e \in 1 .. Len(Slots(d)'), HeldAt(d, e, c)', op'.kind # "rename",
           \A y \in Dirs : \A i \in 1 .. Len(Slots(y)') : Special(Slots(y)'[i]) /\ ~(y = d /\ i = e) =>
              i \in 1 .. Len(Slots(y)) /\ Slots(y)'[i] = Slots(y)[i],
           \A y \in Dirs : \A i \in 1 .. Len(Slots(y)) : Special(Slots(y)[i]) /\ ~(y = d /\ i = e) =>
              i \in 1 .. Len(Slots(y)') /\ Slots(y)'[i] = Slots(y)[i],
           content'[c][2] = Dot(1, d),
           \A i \in 1 .. Len(Slots(c)') : /\ Slots(c)'[i].type # "directory"
                                          /\ Slots(c)'[i].type = "dot" => i \in {1, 2}
    PROVE  Tree'
<1>1. Root \in Dirs /\ 0 \notin Dirs /\ c # 0 /\ c # Root /\ c \notin Dirs
  BY OwnCluster, ClusterFacts DEF Dirs
<1>2. ASSUME NEW y \in Dirs', NEW i \in 1 .. Len(Slots(y)')
      PROVE  /\ Slots(y)'[i].type = "dot" => y # Root /\ i \in {1, 2}
             /\ Slots(y)'[i].type = "directory" => Slots(y)'[i].thing \in Dirs' \ {Root}
  <2>1. CASE y = d /\ i = e
    BY <1>1, <2>1 DEF HeldAt
  <2>2. CASE y \in Dirs /\ ~(y = d /\ i = e)
    <3>1. Special(Slots(y)'[i]) => i \in 1 .. Len(Slots(y)) /\ Slots(y)'[i] = Slots(y)[i] /\ ~Filling(y, i)
      BY <2>2
    <3> QED
      BY <2>2, <3>1 DEF Tree, Special
  <2>3. CASE y = c
    BY <1>1, <2>3
  <2> QED
    BY <2>1, <2>2, <2>3
<1>3. ASSUME NEW x \in Dirs \ {Root}
      PROVE  content'[x][2] = content[x][2]
  <2>1. \A i \in 1 .. Len(Slots(x)) : Slots(x)[i].type = "dot" => Slots(x)'[i] = Slots(x)[i]
    <3> SUFFICES ASSUME NEW i \in 1 .. Len(Slots(x)), Slots(x)[i].type = "dot" PROVE Slots(x)'[i] = Slots(x)[i]
      OBVIOUS
    <3>1. ~(x = d /\ i = e)
      OBVIOUS
    <3> QED
      BY <3>1 DEF Special
  <2> QED
    BY <2>1, SecondSlot
<1>4. ASSUME NEW y \in Dirs', NEW x \in Dirs', NEW i \in 1 .. Len(Slots(y)'), HeldAt(y, i, x)'
      PROVE  \/ y \in Dirs /\ x \in Dirs /\ i \in 1 .. Len(Slots(y)) /\ HeldAt(y, i, x)
             \/ y = d /\ i = e /\ x = c
  <2>1. CASE y = c
    BY <1>4, <2>1 DEF HeldAt
  <2>2. CASE y = d /\ i = e
    BY <1>4, <2>2 DEF HeldAt
  <2>3. CASE y # c /\ ~(y = d /\ i = e)
    <3>1. y \in Dirs /\ i \in 1 .. Len(Slots(y)) /\ HeldAt(y, i, x) /\ ~Filling(y, i)
      BY <1>4, <2>3 DEF HeldAt, Special
    <3>2. x \in Dirs
      BY <3>1 DEF HeldAt, Tree
    <3> QED
      BY <3>1, <3>2
  <2> QED
    BY <2>1, <2>2, <2>3
<1>5. ASSUME NEW y \in Dirs, NEW x \in Dirs, NEW i \in 1 .. Len(Slots(y)), HeldAt(y, i, x)
      PROVE  i \in 1 .. Len(Slots(y)') /\ HeldAt(y, i, x)'
  BY <1>1, <1>5 DEF HeldAt, Special
<1>6. Dot(1, d).thing = d
  BY DEF Dot, Slot
<1>7. ASSUME NEW x \in Dirs' \ {Root}
      PROVE  \E p \in Dirs' : /\ content'[x][2] = Dot(1, p)
                              /\ \E i \in 1 .. Len(Slots(p)') : HeldAt(p, i, x)'
  <2>1. CASE x = c
    BY <2>1
  <2>2. CASE x # c
    <3>1. x \in Dirs \ {Root}
      BY <2>2
    <3>2. PICK p \in Dirs : content[x][2] = Dot(1, p) /\ \E i \in 1 .. Len(Slots(p)) : HeldAt(p, i, x)
      BY <3>1 DEF Tree
    <3>3. PICK i \in 1 .. Len(Slots(p)) : HeldAt(p, i, x)
      BY <3>2
    <3>4. i \in 1 .. Len(Slots(p)') /\ HeldAt(p, i, x)'
      BY <1>5, <3>1, <3>3
    <3> QED
      BY <1>3, <3>1, <3>2, <3>4
  <2> QED
    BY <2>1, <2>2
<1>8. ASSUME NEW x \in Dirs' \ {Root}, NEW y \in Dirs', NEW z \in Dirs', NEW i \in 1 .. Len(Slots(y)'),
             NEW j \in 1 .. Len(Slots(z)'), HeldAt(y, i, x)', HeldAt(z, j, x)'
      PROVE  y = z /\ i = j /\ content'[x][2].thing = y
  <2>1. /\ (y \in Dirs /\ x \in Dirs /\ i \in 1 .. Len(Slots(y)) /\ HeldAt(y, i, x)) \/ (y = d /\ i = e /\ x = c)
        /\ (z \in Dirs /\ x \in Dirs /\ j \in 1 .. Len(Slots(z)) /\ HeldAt(z, j, x)) \/ (z = d /\ j = e /\ x = c)
    BY <1>4, <1>8
  <2>2. CASE x = c
    BY <1>1, <1>6, <2>1, <2>2
  <2>3. CASE x # c
    <3>1. /\ x \in Dirs \ {Root} /\ y \in Dirs /\ z \in Dirs
          /\ i \in 1 .. Len(Slots(y)) /\ HeldAt(y, i, x) /\ j \in 1 .. Len(Slots(z)) /\ HeldAt(z, j, x)
      BY <2>1, <2>3
    <3>2. y = z /\ i = j /\ content[x][2].thing = y
      BY <3>1 DEF Tree
    <3> QED
      BY <1>3, <3>1, <3>2
  <2> QED
    BY <2>2, <2>3
<1>9. \A y \in Dirs' : \A i \in 1 .. Len(Slots(y)') :
        /\ Slots(y)'[i].type = "dot" => y # Root /\ i \in {1, 2}
        /\ Slots(y)'[i].type = "directory" /\ ~Filling(y, i)' => Slots(y)'[i].thing \in Dirs' \ {Root}
  BY <1>2
<1>10. \A x \in Dirs' \ {Root} : \E p \in Dirs' :
        /\ content'[x][2] = Dot(1, p)
        /\ IF Adrift(x)' THEN p = op'.dir
           ELSE \E i \in 1 .. Len(Slots(p)') : HeldAt(p, i, x)'
  <2> SUFFICES ASSUME NEW x \in Dirs' \ {Root}
               PROVE  \E p \in Dirs' : /\ content'[x][2] = Dot(1, p)
                                       /\ IF Adrift(x)' THEN p = op'.dir
                                          ELSE \E i \in 1 .. Len(Slots(p)') : HeldAt(p, i, x)'
    OBVIOUS
  <2>1. ~Adrift(x)'
    OBVIOUS
  <2> QED
    BY <1>7, <2>1
<1>11. \A x \in Dirs' \ {Root} : \A y, z \in Dirs' :
          \A i \in 1 .. Len(Slots(y)'), j \in 1 .. Len(Slots(z)') :
             HeldAt(y, i, x)' /\ HeldAt(z, j, x)' =>
                y = z /\ i = j /\ content'[x][2].thing = y /\ ~Adrift(x)'
  <2> SUFFICES ASSUME NEW x \in Dirs' \ {Root}, NEW y \in Dirs', NEW z \in Dirs',
                      NEW i \in 1 .. Len(Slots(y)'), NEW j \in 1 .. Len(Slots(z)'),
                      HeldAt(y, i, x)', HeldAt(z, j, x)'
               PROVE  y = z /\ i = j /\ content'[x][2].thing = y /\ ~Adrift(x)'
    OBVIOUS
  <2>1. ~Adrift(x)'
    OBVIOUS
  <2> QED
    BY <1>8, <2>1
<1> QED
  BY <1>9, <1>10, <1>11 DEF Tree

LEMMA FillMadeKept ==
    ASSUME Roomy, IInv, FillMade, calls' = calls
    PROVE  IInv'
<1>1. op.at = "fill" /\ op.kind = "mkdir"
  BY DEF FillMade
<1>2. PICK d, s, e : FillAt(d, s, e)
  BY <1>1, FillNow
<1>3. /\ d \in Dirs /\ op.dir = d /\ s = Slots(d) /\ e \in 1 .. Len(s) /\ op.entry = Place(d, e)
      /\ s[e].type = "directory" /\ s[e].thing = 0 /\ IsEntry(s, e) /\ HasRoom(1)
      /\ Sound(s, 0) /\ Typed(s) /\ s[e] \in SlotType /\ SlotAt(op.entry) = s[e]
      /\ ~IsChunk(s, Len(s)) /\ Len(s) > 0 /\ Len(s) \in Nat
      /\ \A y \in Dirs : \A i \in 1 .. Len(Slots(y)) : Filling(y, i) => y = d /\ i = e
  BY <1>1, <1>2 DEF FillAt, IInv, OpSound, Needed
<1>4. PICK c \in FreeClusters : c = FindFree(0)
  BY <1>3, RoomFacts, FindFreeIs
<1>5. c # 0 /\ c \in Things
  BY <1>4, ClusterFacts DEF FreeClusters, Things
<1>6. PICK slot : slot = [s[e] EXCEPT !.thing = c]
  OBVIOUS
<1>7. /\ op' = NoOp /\ fat' = [fat EXCEPT ![c] = Eoc]
      /\ content' = [Written(Place(d, e), slot) EXCEPT ![c] = NewDirectory(c, d)]
  BY <1>3, <1>4, <1>5, <1>6 DEF FillMade
<1>8. slot \in SlotType /\ slot.type = "directory" /\ slot.thing = c
  BY <1>3, <1>5, <1>6, ThingSlot
<1>9. PICK lay : Layout(lay)
  BY DEF IInv, Laid
<1>10. /\ c \in Clusters \ Dirs /\ Dirs' = Dirs \cup {c}
       /\ \E m : Layout(m)'
       /\ Put(Slots(d), Slots(d)', e, slot)
       /\ \A y \in Dirs : SameDir(y)
       /\ \A y \in Dirs \ {d} : Slots(y)' = Slots(y)
       /\ Slots(c)' \in Seq(SlotType) /\ Len(Slots(c)') = ClusterSlots
       /\ \A i \in 1 .. ClusterSlots : Slots(c)'[i] =
             IF i = 1 THEN Dot(0, c) ELSE IF i = 2 THEN Dot(1, d) ELSE FreeSlot
  <2>1. e \in 1 .. Len(Slots(d)) /\ Slots(d)[e].type # "dot" /\ slot.type # "dot" /\ MkdirSlots = ClusterSlots
    BY <1>3, <1>8 DEF Roomy
  <2>2. Made(d, e, slot, c)
    BY <1>3, <1>4, <1>7, <1>8, <1>9, <2>1, MadeStep
  <2> QED
    BY <2>2 DEF Made
<1>11. PICK m : Layout(m)'
  BY <1>10
<1>12. PICK t, u : t = Slots(d)' /\ u = Slots(c)'
  OBVIOUS
<1>13. t \in Seq(SlotType) /\ Put(s, t, e, slot)
  BY <1>3, <1>10, <1>12 DEF SameDir
<1>14. Typed(t)
  BY <1>3, <1>8, <1>13, PutTyped
<1>15. Sound(t, 0) /\ ~IsChunk(t, Len(t))
  <2>1. Sound(t, 0)
    BY <1>3, <1>6, <1>13, <1>14, ThingSound
  <2> QED
    BY <1>3, <1>8, <1>13, <2>1, PutEnd
<1>16. /\ Len(u) = ClusterSlots /\ u \in Seq(SlotType) /\ ClusterSlots \in Nat \ {0, 1}
       /\ \A i \in 1 .. Len(u) : u[i] = IF i = 1 THEN Dot(0, c) ELSE IF i = 2 THEN Dot(1, d) ELSE FreeSlot
  BY <1>10, <1>12, Constants
<1>17. /\ \A i \in 1 .. Len(u) : u[i].type = IF i = 1 \/ i = 2 THEN "dot" ELSE "free"
       /\ \A i \in 1 .. Len(u) : u[i].type = "free" => u[i] = FreeSlot
  BY <1>16, SlotFacts, ZenonT(60) DEF Dot, Slot
<1>18. Sound(u, 0) /\ ~IsChunk(u, Len(u))
  <2>1. Typed(u)
    BY <1>16, <1>17 DEF Typed
  <2>2. \A i \in 1 .. Len(u) : u[i].type \in {"free", "dot"}
    BY <1>17
  <2>3. \A i, j \in 1 .. Len(u) : i < j /\ u[i].type = "free" => u[j].type = "free"
    BY <1>16, <1>17
  <2>4. Sound(u, 0)
    BY <2>1, <2>2, <2>3, BlankSound
  <2>5. Len(u) \in 1 .. Len(u)
    BY <1>16
  <2> QED
    BY <2>2, <2>4, <2>5 DEF IsChunk
<1>19. op'.at = "idle" /\ op'.kind = "none"
  BY <1>7, OpFields
<1>20. DirsSound'
  <2> SUFFICES ASSUME NEW y \in Dirs'
               PROVE  Sound(Slots(y)', 0) /\ ~IsChunk(Slots(y)', Len(Slots(y)'))
    BY DEF DirsSound, TornEnd
  <2>1. CASE y = c
    BY <1>12, <1>18, <2>1
  <2>2. CASE y = d
    BY <1>12, <1>15, <2>2
  <2>3. CASE y # c /\ y # d
    <3>1. y \in Dirs /\ Slots(y)' = Slots(y)
      BY <1>10, <2>3
    <3>2. Sound(Slots(y), 0) /\ ~IsChunk(Slots(y), Len(Slots(y)))
      BY <1>1, <3>1 DEF IInv, DirsSound, TornEnd
    <3> QED
      BY <3>1, <3>2
  <2> QED
    BY <2>1, <2>2, <2>3
<1>21. Len(t) = Len(s) /\ t[e] = slot /\ \A i \in 1 .. Len(s) : i # e => t[i] = s[i]
  BY <1>3, <1>13 DEF Put
<1>22. ASSUME NEW y \in Dirs
       PROVE  /\ \A i \in 1 .. Len(Slots(y)') : Special(Slots(y)'[i]) /\ ~(y = d /\ i = e) =>
                    i \in 1 .. Len(Slots(y)) /\ Slots(y)'[i] = Slots(y)[i]
              /\ \A i \in 1 .. Len(Slots(y)) : Special(Slots(y)[i]) /\ ~(y = d /\ i = e) =>
                    i \in 1 .. Len(Slots(y)') /\ Slots(y)'[i] = Slots(y)[i]
  <2>1. CASE y = d
    BY <1>3, <1>12, <1>21, <2>1
  <2>2. CASE y # d
    BY <1>10, <2>2
  <2> QED
    BY <2>1, <2>2
<1>23. Tree'
  <2>1. \A x : ~Adrift(x) /\ ~Adrift(x)'
    BY <1>1, <1>19 DEF Adrift
  <2>2. e \in 1 .. Len(Slots(d)) /\ e \in 1 .. Len(Slots(d)') /\ HeldAt(d, e, c)'
    BY <1>3, <1>8, <1>12, <1>21 DEF HeldAt
  <2>3. content'[c][2] = Dot(1, d)
    <3>1. Placed(m, c)'
      BY <1>10, <1>11, PlacesThen DEF Places
    <3>2. content'[c][2] = Slots(c)'[2]
      BY <3>1 DEF Placed
    <3> QED
      BY <1>12, <1>16, <3>2
  <2>4. \A i \in 1 .. Len(Slots(c)') : /\ Slots(c)'[i].type # "directory"
                                       /\ Slots(c)'[i].type = "dot" => i \in {1, 2}
    BY <1>12, <1>17
  <2>5. Slots(d)[e].type = "directory" /\ Slots(d)[e].thing = 0 /\ Tree
    BY <1>3 DEF IInv
  <2> QED
    BY <1>3, <1>9, <1>10, <1>11, <1>19, <1>22, <2>1, <2>2, <2>3, <2>4, <2>5, TreeMade
<1> QED
  BY <1>7, <1>11, <1>20, <1>23, NoOpSound DEF IInv, Laid

-----------------------------------------------------------------------------
\* The process dies: what it leaves is sound as it is.
LEMMA CrashKept ==
    ASSUME IInv, Crash
    PROVE  IInv'
<1>1. PICK lay : Layout(lay)
  BY DEF IInv, Laid
<1>2. /\ op' = NoOp /\ fat' = fat /\ content' = content /\ calls' = calls
      /\ op.kind \in CrashIn /\ op.type = "file" /\ ~TornEnd(op.dir)
      /\ op.at = "wiping" => SlotAt(op.entry) # FreeSlot
  BY DEF Crash
<1>3. Layout(lay)' /\ Dirs' = Dirs /\ \A d \in Dirs : Slots(d)' = Slots(d)
  BY <1>1, <1>2, StillStep DEF Steady
<1>4. op.at # "release"
  BY <1>2, DirEntriesAssumption DEF IInv, OpSound
<1>5. op'.at = "idle" /\ op'.kind = "none"
  BY <1>2, OpFields
<1>6. Sound(Slots(op.dir), 0) /\ op.dir \in Dirs
  <2>1. op.at # "idle"
    BY <1>2, DirEntriesAssumption DEF IInv, OpSound
  <2>2. PICK d \in Dirs : d = op.dir
    BY <2>1 DEF IInv, OpSound
  <2>3. CASE op.at # "wiping"
    BY <2>2, <2>3 DEF IInv, DirsSound
  <2>4. CASE op.at = "wiping"
    <3>1. WipeSound
      BY <2>4 DEF IInv, OpSound, IsWiping
    <3>2. PICK s : s = Slots(d)
      OBVIOUS
    <3>3. PICK e \in 1 .. Len(s) : op.entry = Place(d, e) /\ Sound(s, e)
      BY <2>2, <3>1, <3>2 DEF WipeSound
    <3>4. SlotAt(op.entry) = s[e]
      <4>1. Placed(lay, d) /\ e \in 1 .. Len(Slots(d))
        BY <1>1, <3>2, PlacesNow DEF Places
      <4> QED
        BY <3>2, <3>3, <4>1 DEF Placed
    <3>5. s[e].type # "free"
      BY <1>2, <2>4, <3>3, <3>4 DEF Sound, Typed
    <3>6. TailFree(s, 0)
      BY <3>3, <3>5 DEF Sound, TailFree, Starts
    <3> QED
      BY <2>2, <3>2, <3>3, <3>6 DEF Sound
  <2> QED
    BY <2>2, <2>3, <2>4
<1>7. DirsSound'
  <2> SUFFICES ASSUME NEW e \in Dirs
               PROVE  Sound(Slots(e)', 0) /\ ~IsChunk(Slots(e)', Len(Slots(e)'))
    BY <1>3 DEF DirsSound, TornEnd
  <2>1. CASE e = op.dir
    BY <1>2, <1>3, <1>6, <2>1 DEF TornEnd
  <2>2. CASE e # op.dir
    <3>1. Sound(Slots(e), 0) /\ ~IsChunk(Slots(e), Len(Slots(e)))
      BY <2>2 DEF IInv, DirsSound, TornEnd
    <3> QED
      BY <1>3, <3>1
  <2> QED
    BY <2>1, <2>2
<1>8. \A e \in Dirs : \A i \in 1 .. Len(Slots(e)) : Filling(e, i) => Slots(e)[i].type # "directory"
  <2> SUFFICES ASSUME NEW y \in Dirs, NEW i \in 1 .. Len(Slots(y)), Filling(y, i)
               PROVE  Slots(y)[i].type = "file"
    OBVIOUS
  <2>1. op.at = "fill"
    BY DEF Filling
  <2>2. PICK d, s, e : FillAt(d, s, e)
    BY <2>1, FillNow
  <2> QED
    BY <1>2, <2>2 DEF FillAt
<1>9. \A c : ~Adrift(c) /\ ~Adrift(c)'
  BY <1>2, <1>4, <1>5 DEF Adrift
<1>10. Tree'
  <2>1. Tree
    BY DEF IInv
  <2>2. PICK d \in Dirs : d = op.dir
    BY <1>6
  <2>3. /\ \A e \in Dirs \ {d} : Slots(e)' = Slots(e)
        /\ \A i \in 1 .. Len(Slots(d)') : Special(Slots(d)'[i]) =>
              i \in 1 .. Len(Slots(d)) /\ Slots(d)'[i] = Slots(d)[i]
        /\ \A i \in 1 .. Len(Slots(d)) : Special(Slots(d)[i]) =>
              i \in 1 .. Len(Slots(d)') /\ Slots(d)'[i] = Slots(d)[i]
    BY <1>3
  <2> QED
    BY <1>1, <1>3, <1>5, <1>8, <1>9, <2>1, <2>3, TreeKept
<1> QED
  BY <1>2, <1>3, <1>7, <1>10, NoOpSound DEF IInv, Laid

\* Nothing happens.
LEMMA StutterKept ==
    ASSUME IInv, UNCHANGED vars
    PROVE  IInv'
<1>1. fat' = fat /\ content' = content /\ op' = op /\ calls' = calls
  BY DEF vars
<1>2. Dirs' = Dirs /\ FreeClusters' = FreeClusters
  BY <1>1 DEF Dirs, IsDirectory, FreeClusters
<1>3. \A d : Slots(d)' = Slots(d)
  BY <1>1 DEF Slots, ClusterOf
<1>4. /\ \A d, i : Place(d, i)' = Place(d, i)
      /\ \A d : LastCluster(d)' = LastCluster(d)
  BY <1>1 DEF Place, LastCluster, Chain, ClusterOf
<1>5. \A n : HasRoom(n)' <=> HasRoom(n)
  BY <1>2 DEF HasRoom
<1>6. Laid'
  BY <1>1, <1>2 DEF IInv, Laid, Layout
<1>7. OpTyped' /\ (calls \in 0 .. MaxCalls)'
  BY <1>1 DEF IInv, OpTyped
<1>8. WipeSound => WipeSound'
  BY <1>1, <1>3, <1>4 DEF WipeSound
<1>9. RenameSound => RenameSound'
  BY <1>1, <1>3 DEF RenameSound
<1>10. PlaceSound => PlaceSound'
  BY <1>1, <1>3, <1>4, <1>5 DEF PlaceSound, Needed
<1>11. FillSound => FillSound'
  BY <1>1, <1>3, <1>4, <1>5 DEF FillSound, Needed
<1>12. \A d : ListsNothing(d)' <=> ListsNothing(d)
  BY <1>3 DEF ListsNothing
<1>13. OpSound'
  BY <1>1, <1>2, <1>3, <1>5, <1>8, <1>9, <1>10, <1>11, <1>12 DEF IInv, OpSound, IsWiping, Making, Needed
<1>14. DirsSound'
  BY <1>1, <1>2, <1>3 DEF IInv, DirsSound, TornEnd
<1>15. /\ \A d, i, c : HeldAt(d, i, c)' <=> HeldAt(d, i, c)
       /\ \A d, i : Filling(d, i)' <=> Filling(d, i)
       /\ \A c : Adrift(c)' <=> Adrift(c)
  BY <1>1, <1>3, <1>4 DEF HeldAt, Filling, Adrift
<1>16. Tree'
  BY <1>1, <1>2, <1>3, <1>15 DEF IInv, Tree
<1> QED
  BY <1>6, <1>7, <1>13, <1>14, <1>16 DEF IInv

LEMMA NextKept ==
    ASSUME Roomy, IInv, [Next]_vars
    PROVE  IInv'
<1>1. ASSUME Begins PROVE IInv'
  <2>1. calls' \in 0 .. MaxCalls
    BY <1>1, DirEntriesAssumption DEF Begins, IInv
  <2>2. PICK d \in Dirs, n \in Names :
        \/ Create(d, n) \/ Unlink(d, n) \/ Mkdir(d, n) \/ Rmdir(d, n)
        \/ \E m \in Names \ {n} : Rename(d, n, m)
        \/ \E o \in Data : Update(d, n, o)
    BY <1>1 DEF Begins
  <2>3. CASE Create(d, n)
    BY <2>1, <2>3, CreateKept
  <2>4. CASE Unlink(d, n)
    BY <2>1, <2>4, UnlinkKept
  <2>5. CASE Mkdir(d, n)
    BY <2>1, <2>5, MkdirKept
  <2>6. CASE Rmdir(d, n)
    BY <2>1, <2>6, RmdirKept
  <2>7. ASSUME NEW m \in Names \ {n}, Rename(d, n, m) PROVE IInv'
    <3>1. m \in Names
      OBVIOUS
    <3> QED
      BY <2>1, <2>7, <3>1, RenameKept
  <2>8. ASSUME NEW o \in Data, Update(d, n, o) PROVE IInv'
    BY <2>1, <2>8, UpdateKept
  <2> QED
    BY <2>2, <2>3, <2>4, <2>5, <2>6, <2>7, <2>8
<1>2. ASSUME Step PROVE IInv'
  <2>1. calls' = calls
    BY <1>2 DEF Step
  <2>2. CASE Wipe
    BY <2>1, <2>2, WipeKept
  <2>3. CASE Release
    BY <2>1, <2>3, ReleaseKept
  <2>4. CASE Search
    BY <2>1, <2>4, SearchKept
  <2>5. CASE Extend
    BY <2>1, <2>5, ExtendKept
  <2>6. CASE PlaceChunk
    BY <2>1, <2>6, PlaceChunkKept
  <2>7. CASE PlaceShort
    BY <2>1, <2>7, PlaceShortKept
  <2>8. CASE FillRenamed
    BY <2>1, <2>8, FillRenamedKept
  <2>9. CASE FillMade
    BY <2>1, <2>9, FillMadeKept
  <2> QED
    BY <1>2, <2>2, <2>3, <2>4, <2>5, <2>6, <2>7, <2>8, <2>9 DEF Step
<1> QED
  BY <1>1, <1>2, CrashKept, StutterKept DEF Next

-----------------------------------------------------------------------------
\* In the beginning there is the root directory, and nothing in it.
LEMMA FirstCard ==
    ASSUME Init
    PROVE  /\ fat \in [AnyCluster -> 0 .. Eoc] /\ fat[0] = Eoc /\ fat[Eoc] = Eoc /\ fat[Root] = Eoc
           /\ DOMAIN content = AnyCluster /\ content[Eoc] = <<>> /\ content[Root] = EmptyCluster
           /\ \A c \in AnyCluster \ {Eoc} : content[c] \in [1 .. ClusterSlots -> SlotType]
           /\ Dirs = {Root} /\ Root \in Clusters
<1>1. /\ Root \in Clusters /\ Root # 0 /\ Root # Eoc /\ Root \in AnyCluster /\ 0 \in AnyCluster /\ Eoc \in AnyCluster
      /\ Eoc # 0 /\ Clusters \subseteq AnyCluster /\ 0 \notin Clusters /\ Eoc \notin Clusters
      /\ Eoc \in 0 .. Eoc /\ Free \in 0 .. Eoc /\ Free # Eoc
  BY DirEntriesAssumption DEF Root, Clusters, Eoc, AnyCluster, Free
<1>2. fat = [c \in AnyCluster |-> IF c \in {0, Root, Eoc} THEN Eoc ELSE Free]
  BY DEF Init
<1>3. PICK n \in Names \ Tilde, o \in Data :
        content = [c \in AnyCluster |->
              CASE c \in {0, Root} -> EmptyCluster
                [] c = Eoc -> <<>>
                [] OTHER -> [k \in 1 .. ClusterSlots |->
                                [Slot("file") EXCEPT !.key = <<Base[n], 0>>, !.thing = o]]]
  BY DEF Init
<1>4. PICK old : old = [Slot("file") EXCEPT !.key = <<Base[n], 0>>, !.thing = o]
  OBVIOUS
<1>5. /\ \A c \in AnyCluster : c \in {0, Root} => content[c] = EmptyCluster
      /\ content[Eoc] = <<>>
      /\ \A c \in AnyCluster : c \notin {0, Root, Eoc} => content[c] = [k \in 1 .. ClusterSlots |-> old]
  BY <1>1, <1>3, <1>4
<1>6. EmptyCluster \in [1 .. ClusterSlots -> SlotType]
  BY SlotFacts DEF EmptyCluster
<1>7. old \in SlotType
  <2>1. <<Base[n], 0>> \in Keys
    BY NumbersFacts DEF Keys, Numbers
  <2>2. o \in Things /\ 0 \in 0 .. ClusterSlots * NumClusters
    BY Constants, DirEntriesAssumption DEF Things
  <2>3. old = [type |-> "file", name |-> "", number |-> 0, key |-> <<Base[n], 0>>, thing |-> o]
    BY <1>4 DEF Slot
  <2>4. "file" \in {"free", "deleted", "chunk", "dot"} \cup EntryTypes /\ "" \in Names \cup {""}
    BY DEF EntryTypes
  <2> QED
    BY <2>1, <2>2, <2>3, <2>4 DEF SlotType
<1>8. \A c \in AnyCluster \ {Eoc} : content[c] \in [1 .. ClusterSlots -> SlotType]
  BY <1>5, <1>6, <1>7
<1>9. Dirs = {Root}
  BY <1>1, <1>2 DEF Dirs, IsDirectory
<1> QED
  BY <1>1, <1>2, <1>3, <1>5, <1>8, <1>9

LEMMA InitHolds ==
    ASSUME Init
    PROVE  IInv
<1>1. /\ fat \in [AnyCluster -> 0 .. Eoc] /\ fat[0] = Eoc /\ fat[Eoc] = Eoc /\ fat[Root] = Eoc
      /\ DOMAIN content = AnyCluster /\ content[Eoc] = <<>> /\ content[Root] = EmptyCluster
      /\ \A c \in AnyCluster \ {Eoc} : content[c] \in [1 .. ClusterSlots -> SlotType]
      /\ Dirs = {Root} /\ Root \in Clusters
  BY FirstCard
<1>2. op = NoOp /\ calls = 0
  BY DEF Init
<1>3. PICK lay : lay = [d \in Dirs |-> <<Root>>]
  OBVIOUS
<1>4. Layout(lay)
  <2>1. /\ DOMAIN lay = {Root} /\ lay[Root] = <<Root>> /\ Len(<<Root>>) = 1 /\ <<Root>>[1] = Root
        /\ <<Root>> \in Seq(Clusters) /\ <<Root>> # <<>>
    BY <1>1, <1>3
  <2>2. PICK q : q = lay[Root]
    OBVIOUS
  <2>3. q \in Seq(Clusters) /\ q # <<>> /\ Len(q) = 1 /\ q[1] = Root
    BY <2>1, <2>2
  <2>4. /\ \A d \in DOMAIN lay :
          /\ lay[d] \in Seq(Clusters) /\ lay[d] # <<>> /\ lay[d][1] = d
          /\ \A k \in 1 .. Len(lay[d]) : fat[lay[d][k]] = IF k = Len(lay[d]) THEN Eoc ELSE lay[d][k + 1]
    <3> SUFFICES ASSUME NEW k \in 1 .. Len(q) PROVE fat[q[k]] = Eoc /\ k = Len(q)
      BY <2>1, <2>2, <2>3
    <3>1. k = 1
      BY <2>3
    <3> QED
      BY <1>1, <2>3, <3>1
  <2>5. \A d, e \in DOMAIN lay : \A j \in 1 .. Len(lay[d]), k \in 1 .. Len(lay[e]) :
          lay[d][j] = lay[e][k] => d = e /\ j = k
    <3>1. \A j \in 1 .. Len(q) : j = 1
      BY <2>3
    <3> QED
      BY <2>1, <2>2, <3>1
  <2> QED
    BY <1>1, <2>1, <2>4, <2>5 DEF Layout, LaidOut
<1>5. Seen(lay, Root) /\ lay[Root] = <<Root>>
  <2>1. Root \in Dirs
    BY <1>1
  <2> QED
    BY <1>3, <1>4, <2>1, ViewNow DEF View
<1>6. PICK s : s = Slots(Root)
  OBVIOUS
<1>7. /\ s \in Seq(SlotType) /\ Len(s) \in Nat \ {0}
      /\ \A i \in 1 .. Len(s) : s[i] = FreeSlot
  <2>1. ClusterSlots <= Len(s)
    BY <1>1, <1>4, <1>6, ViewNow DEF View, Sized
  <2>2. ASSUME NEW i \in 1 .. Len(s) PROVE s[i] = FreeSlot
    <3>1. PICK k \in 1 .. Len(lay[Root]), j \in 1 .. ClusterSlots : s[i] = content[lay[Root][k]][j]
      BY <1>5, <1>6, Cell, SMTT(60)
    <3>2. k = 1 /\ lay[Root][k] = Root
      BY <1>5, <3>1
    <3> QED
      BY <1>1, <3>1, <3>2 DEF EmptyCluster
  <2> QED
    BY <1>5, <1>6, <2>1, <2>2, Constants DEF Seen
<1>8. /\ \A i \in 1 .. Len(s) : s[i].type = "free" /\ ~IsChunk(s, i) /\ ~Special(s[i])
      /\ Len(s) \in 1 .. Len(s)
  BY <1>7, SlotFacts DEF IsChunk, Special
<1>9. Sound(s, 0)
  <2>1. Typed(s)
    BY <1>7, <1>8 DEF Typed
  <2> QED
    BY <1>8, <2>1, BlankSound
<1>10. DirsSound
  BY <1>1, <1>6, <1>8, <1>9 DEF DirsSound, TornEnd
<1>11. op.at = "idle" /\ op.kind = "none" /\ OpTyped
  BY <1>2, OpFields DEF OpTyped
<1>12. OpSound
  BY <1>11 DEF OpSound, IsWiping
<1>13. Tree
  BY <1>1, <1>6, <1>8, <1>11 DEF Tree, Special, HeldAt
<1> QED
  BY <1>2, <1>4, <1>10, <1>11, <1>12, <1>13, Constants DEF IInv, Laid

-----------------------------------------------------------------------------
LEMMA Inductive == ASSUME Roomy PROVE Spec => []IInv
<1>1. Init => IInv
  BY InitHolds
<1>2. IInv /\ [Next]_vars => IInv'
  BY NextKept
<1> QED
  BY <1>1, <1>2, PTL DEF Spec

\* Whatever a call is doing, a directory is sound but for the slot being wiped.
LEMMA DirSound ==
    ASSUME IInv, NEW d \in Dirs
    PROVE  \E x : Sound(Slots(d), x)
<1>1. CASE op.at = "wiping" /\ d = op.dir
  <2>1. WipeSound
    BY <1>1 DEF IInv, OpSound, IsWiping
  <2>2. PICK s : s = Slots(d)
    OBVIOUS
  <2>3. PICK e \in 1 .. Len(s) : Sound(s, e)
    BY <1>1, <2>1, <2>2 DEF WipeSound
  <2> QED
    BY <2>2, <2>3
<1>2. CASE ~(op.at = "wiping" /\ d = op.dir)
  BY <1>2 DEF IInv, DirsSound
<1> QED
  BY <1>1, <1>2

\* The state has its type: the number behind a tilde and the chunks of a name stay
\* within what a slot can hold, no place lies behind the last cluster.
THEOREM TypeCorrect == ASSUME Roomy PROVE Spec => []TypeOK
<1>1. IInv => TypeOK
  <2> SUFFICES ASSUME IInv PROVE TypeOK
    OBVIOUS
  <2>1. PICK lay : Layout(lay)
    BY DEF IInv, Laid
  <2>2. op \in OpType /\ calls \in 0 .. MaxCalls
    BY DEF IInv, OpTyped
  <2> QED
    BY <2>1, <2>2 DEF TypeOK, Layout, OpType
<1> QED
  BY <1>1, Inductive, PTL

\* A name that a listing shows is found by the calls, and it is the entry of the
\* listing that they find: find_file_in_curdir() matches long names, short names and
\* names before deleted slots, but never two groups with one name.
THEOREM ListedIsFound == ASSUME Roomy PROVE Spec => []LookupsAgree
<1>1. IInv => LookupsAgree
  <2> SUFFICES ASSUME IInv, NEW d \in Dirs, NEW n \in Names, Stat(Slots(d), n) # 0
               PROVE  Find(Slots(d), n) = Stat(Slots(d), n)
    BY DEF LookupsAgree
  <2>1. PICK x : Sound(Slots(d), x)
    BY DirSound
  <2> QED
    BY <2>1, StatIsFind DEF Sound
<1> QED
  BY <1>1, Inductive, PTL

\* No two entries of a directory have the same short name or show the same name:
\* normalise_long_name() numbers the short names by what is in the directory, and
\* the calls that write an entry search for its name first.
THEOREM NamesStayUnique == ASSUME Roomy PROVE Spec => []NamesUnique
<1>1. IInv => NamesUnique
  <2> SUFFICES ASSUME IInv, NEW d \in Dirs, NEW e \in Ends(Slots(d)), NEW f \in Ends(Slots(d)),
                      IsEntry(Slots(d), e), IsEntry(Slots(d), f), e # f
               PROVE  /\ Slots(d)[e].key # Slots(d)[f].key
                      /\ ~\E n \in Names : Shows(Slots(d), e, n) /\ Shows(Slots(d), f, n)
    BY DEF NamesUnique
  <2>1. PICK x : Sound(Slots(d), x)
    BY DirSound
  <2>2. Slots(d)[e].key # Slots(d)[f].key
    BY <2>1 DEF Sound, WellNamed, Ends
  <2>3. ASSUME NEW n \in Names, Shows(Slots(d), e, n), Shows(Slots(d), f, n) PROVE FALSE
    BY <2>1, <2>3, ShownMatches DEF Sound, OneMatch
  <2> QED
    BY <2>2, <2>3
<1> QED
  BY <1>1, Inductive, PTL

\* All chunks before an entry belong to it: what an interrupted create() or unlink()
\* has left of a long name is never taken for the name of the entry behind it.
THEOREM ChunksStayTogether == ASSUME Roomy PROVE Spec => []ChunksBelong
<1>1. IInv => ChunksBelong
  <2> SUFFICES ASSUME IInv, NEW d \in Dirs, NEW e \in Ends(Slots(d)), IsEntry(Slots(d), e),
                      NEW i \in Begin(Slots(d), e) .. e - 1
               PROVE  Slots(d)[i].key = Slots(d)[e].key
    BY DEF ChunksBelong
  <2>1. PICK x : Sound(Slots(d), x)
    BY DirSound
  <2> QED
    BY <2>1, KeysAgree DEF Sound
<1> QED
  BY <1>1, Inductive, PTL

\* Between calls nothing is in use behind a slot where find_contiguous_free_direntries()
\* may stop, so that no call writes over an entry or fails at a slot that is not free.
THEOREM FreeTail == ASSUME Roomy PROVE Spec => []TailIsFree
<1>1. IInv => TailIsFree
  <2> SUFFICES ASSUME IInv, Idle, NEW d \in Dirs, NEW i \in Starts(Slots(d)), NEW j \in i .. Len(Slots(d))
               PROVE  Slots(d)[j] = FreeSlot
    BY DEF TailIsFree
  <2>1. Sound(Slots(d), 0)
    BY DEF IInv, DirsSound, Idle
  <2>2. i # 0
    BY <2>1, EndsFacts, TypedFacts DEF Sound
  <2> QED
    BY <2>1, <2>2 DEF Sound, TailFree
<1> QED
  BY <1>1, Inductive, PTL

\* Between calls the directories are a tree: each but the root is in one entry, its
\* ".." leads back to where that is, also after rename() and rmdir(), and no cluster
\* is in two directories or free.
THEOREM TreeHolds == ASSUME Roomy PROVE Spec => []TreeSound
<1>1. IInv => TreeSound
  <2> SUFFICES ASSUME IInv, Idle PROVE TreeSound
    BY DEF TreeSound
  <2>1. PICK lay : Layout(lay)
    BY DEF IInv, Laid
  <2>2. \A d \in Dirs : Placed(lay, d) /\ \A e \in Dirs : Apart(d, e)
    BY <2>1, PlacesNow DEF Places
  <2>3. \A c : ~Adrift(c)
    BY DEF Idle, IInv, OpSound, Adrift
  <2>4. Tree
    BY DEF IInv
  <2>5. ASSUME NEW d \in Dirs, NEW c
        PROVE  Holds(d, c) <=> \E i \in 1 .. Len(Slots(d)) : HeldAt(d, i, c)
    BY DEF Holds, HeldAt, Ends, IsChunk
  <2>6. ASSUME NEW c \in Dirs \ {Root}
        PROVE  \E d \in Dirs : /\ Holds(d, c) /\ content[c][2] = Dot(1, d)
                               /\ \A f \in Dirs \ {d} : ~Holds(f, c)
    <3>1. PICK d \in Dirs : content[c][2] = Dot(1, d) /\ \E i \in 1 .. Len(Slots(d)) : HeldAt(d, i, c)
      BY <2>3, <2>4 DEF Tree
    <3>2. Holds(d, c)
      BY <2>5, <3>1
    <3>3. ASSUME NEW f \in Dirs \ {d}, Holds(f, c) PROVE FALSE
      <4>1. PICK i \in 1 .. Len(Slots(d)) : HeldAt(d, i, c)
        BY <3>1
      <4>2. PICK j \in 1 .. Len(Slots(f)) : HeldAt(f, j, c)
        BY <2>5, <3>3
      <4> QED
        BY <2>4, <4>1, <4>2 DEF Tree
    <3> QED
      BY <3>1, <3>2, <3>3
  <2>7. ASSUME NEW d \in Dirs
        PROVE  /\ \A c \in Chain(d) : fat[c] # Free
               /\ \A f \in Dirs \ {d} : Chain(d) \cap Chain(f) = {}
    BY <2>2 DEF Placed, Apart
  <2> QED
    BY <2>6, <2>7 DEF TreeSound
<1> QED
  BY <1>1, Inductive, PTL

=============================================================================
