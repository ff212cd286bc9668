--------------------------- MODULE DirNamesProofs ---------------------------
(***************************************************************************)
(* DirEntries implements NameSpace: however the slots of an entry lie over *)
(* sectors and clusters, and wherever the process dies, each step changes  *)
(* what one name stands for, or nothing.                                   *)
(*                                                                         *)
(* The module stands on the invariant of DirEntriesProofs.  First, which   *)
(* names a sequence of slots shows before and after a write; then what     *)
(* NameSpace sees of a step that changes one directory; then the actions,  *)
(* with what an invariant of their own, NInv, says of the entry that a     *)
(* call is about to wipe or has placed.                                    *)
(***************************************************************************)
EXTENDS DirEntriesProofs

-----------------------------------------------------------------------------
(***************************************************************************)
(* What a directory shows                                                  *)
(***************************************************************************)

\* An entry has one name.
LEMMA ShowsOne ==
    ASSUME NEW s, NEW e \in Nat, NEW m \in Names, NEW n \in Names, Shows(s, e, m), Shows(s, e, n)
    PROVE  m = n
<1>1. CASE Spells(s, e, m) /\ Spells(s, e, n)
  BY <1>1, SpellsEnd
<1>2. CASE Spells(s, e, m) /\ ~Spells(s, e, n)
  BY <1>2, SpellsEnd DEF Shows, Alone
<1>3. CASE ~Spells(s, e, m) /\ Spells(s, e, n)
  BY <1>3, SpellsEnd DEF Shows, Alone
<1>4. CASE ~Spells(s, e, m) /\ ~Spells(s, e, n)
  <2>1. m \notin Tilde /\ n \notin Tilde /\ <<Base[m], 0>> = <<Base[n], 0>>
    BY <1>4 DEF Shows, ShortReads
  <2> QED
    BY <2>1, Constants
<1> QED
  BY <1>1, <1>2, <1>3, <1>4

\* What an entry shows depends on the slots in front of it, back to one that is no
\* chunk (y; 0 for the beginning).
Alike(s, t, i) ==
    /\ IsChunk(t, i) <=> IsChunk(s, i)
    /\ IsChunk(s, i) => t[i].name = s[i].name /\ t[i].number = s[i].number
Stop(s, t, y, x) == y = 0 \/ (y \in 1 .. x - 1 /\ ~IsChunk(s, y) /\ ~IsChunk(t, y))

LEMMA AlikeSpells ==
    ASSUME NEW s, NEW t, NEW n \in Names, NEW x \in Nat, NEW y \in Nat, Stop(s, t, y, x),
           \A i \in y + 1 .. x - 1 : Alike(s, t, i),
           Spells(s, x, n)
    PROVE  Spells(t, x, n)
<1> DEFINE b == x - Chunks[n]
<1>1. Chunks[n] \in Nat
  BY Constants
<1>2. b \in Int /\ 1 <= b /\ b < x /\ Alone(s, b)
  BY <1>1 DEF Spells
<1>3. \A i \in b .. x - 1 : IsChunk(s, i) /\ s[i].name = n /\ s[i].number = x - i
  BY DEF Spells
<1>4. y < b
  <2> SUFFICES ASSUME y >= b PROVE FALSE
    BY <1>2
  <2>1. y \in b .. x - 1 /\ ~IsChunk(s, y)
    BY <1>2 DEF Stop
  <2> QED
    BY <1>3, <2>1
<1>5. \A i \in b .. x - 1 : IsChunk(t, i) /\ t[i].name = n /\ t[i].number = x - i
  <2> TAKE i \in b .. x - 1
  <2>1. i \in y + 1 .. x - 1
    BY <1>2, <1>4
  <2> QED
    BY <1>3, <2>1 DEF Alike
<1>6. Alone(t, b)
  <2>1. CASE b = 1
    BY <2>1 DEF Alone
  <2>2. CASE b # 1 /\ b - 1 = y
    BY <1>2, <2>2 DEF Alone, Stop
  <2>3. CASE b # 1 /\ b - 1 # y
    <3>1. b - 1 \in y + 1 .. x - 1
      BY <1>2, <1>4, <2>3
    <3> QED
      BY <1>2, <2>3, <3>1 DEF Alone, Alike
  <2> QED
    BY <2>1, <2>2, <2>3
<1> HIDE DEF b
<1>7. b = x - Chunks[n]
  BY DEF b
<1> QED
  BY <1>2, <1>5, <1>6, <1>7 DEF Spells

LEMMA AlikeShows ==
    ASSUME NEW s, NEW t, NEW n \in Names, NEW x \in Nat \ {0}, NEW y \in Nat, Stop(s, t, y, x),
           \A i \in y + 1 .. x - 1 : Alike(s, t, i),
           t[x].type = s[x].type, t[x].key = s[x].key
    PROVE  Shows(t, x, n) <=> Shows(s, x, n)
<1>1. Stop(t, s, y, x) /\ \A i \in y + 1 .. x - 1 : Alike(t, s, i)
  BY DEF Stop, Alike
<1>2. Spells(t, x, n) <=> Spells(s, x, n)
  BY <1>1, AlikeSpells
<1>3. IsEntry(t, x) <=> IsEntry(s, x)
  BY DEF IsEntry
<1>4. ShortReads(t, x, n) <=> ShortReads(s, x, n)
  BY <1>3 DEF ShortReads
<1>5. Alone(t, x) <=> Alone(s, x)
  <2>1. CASE x = 1
    BY <2>1 DEF Alone, Stop
  <2>2. CASE x > 1 /\ y = x - 1
    BY <2>2 DEF Alone, Stop
  <2>3. CASE x > 1 /\ y # x - 1
    <3>1. x - 1 \in y + 1 .. x - 1
      BY <2>3 DEF Stop
    <3> QED
      BY <3>1 DEF Alone, Alike
  <2> QED
    BY <2>1, <2>2, <2>3
<1> QED
  BY <1>2, <1>3, <1>4, <1>5 DEF Shows

LEMMA FrontShows ==
    ASSUME NEW s, NEW t, NEW n \in Names, NEW x \in Nat \ {0},
           \A i \in 1 .. x - 1 : Alike(s, t, i),
           t[x].type = s[x].type, t[x].key = s[x].key
    PROVE  Shows(t, x, n) <=> Shows(s, x, n)
<1>1. Stop(s, t, 0, x) /\ 0 \in Nat /\ \A i \in 0 + 1 .. x - 1 : Alike(s, t, i)
  BY DEF Stop
<1> QED
  BY <1>1, AlikeShows

\* Shown at x in s and in t.
Shown(s, x, n) == x \in 1 .. Len(s) /\ Shows(s, x, n)

\* Wiping any part of a group takes away what its entry shows, and nothing else.
LEMMA WipedShows ==
    ASSUME NEW s, NEW t, Typed(s), WellChunked(s), NEW p \in Nat, NEW e \in Nat, NEW l \in p .. e,
           Group(s, p, e), Wiped(s, t, p, l), NEW n \in Names, NEW x \in Nat
    PROVE  /\ Shown(t, x, n) <=> Shown(s, x, n) /\ x # e
           /\ Shown(t, x, n) => t[x] = s[x]
<1>1. /\ Len(t) = Len(s) /\ Len(s) \in Nat /\ 1 <= p /\ p <= l /\ l <= e /\ e <= Len(s)
      /\ \A i \in 1 .. Len(s) : i \in p .. l => t[i].type = "deleted"
      /\ \A i \in 1 .. Len(s) : i \notin p .. l => t[i] = s[i]
  <2>1. Len(s) \in Nat
    BY TypedFacts
  <2>2. 1 <= p /\ p <= l /\ l <= e /\ e <= Len(s)
    BY DEF Group
  <2>3. Len(t) = Len(s) /\ \A i \in 1 .. Len(s) : t[i] = IF i \in p .. l THEN DeletedSlot ELSE s[i]
    BY DEF Wiped
  <2> QED
    BY <2>1, <2>2, <2>3, SlotFacts
<1>2. (\A i \in p .. e - 1 : IsChunk(s, i)) /\ ~IsChunk(s, e) /\ Alone(s, p)
  BY DEF Group
<1>3. ~IsChunk(t, e)
  BY <1>1, <1>2 DEF IsChunk
<1>4. \A i \in 1 .. Len(s) : IsEntry(s, i) => ~IsChunk(s, i) /\ s[i].type # "deleted"
  BY DEF IsEntry, IsChunk, EntryTypes
<1>5. CASE x \in 1 .. p - 1
  <2>1. x \in Nat \ {0} /\ \A i \in 1 .. x - 1 : Alike(s, t, i)
    BY <1>1, <1>5 DEF Alike, IsChunk
  <2>2. t[x] = s[x]
    BY <1>1, <1>5
  <2>3. Shows(t, x, n) <=> Shows(s, x, n)
    BY <1>5, <2>1, <2>2, FrontShows
  <2> QED
    BY <1>1, <1>5, <2>2, <2>3 DEF Shown
<1>6. CASE x \in e + 1 .. Len(s)
  <2>1. \A i \in e + 1 .. x - 1 : Alike(s, t, i)
    BY <1>1, <1>6 DEF Alike, IsChunk
  <2>2. t[x] = s[x]
    BY <1>1, <1>6
  <2>3. Stop(s, t, e, x)
    BY <1>1, <1>2, <1>3, <1>6 DEF Stop
  <2>4. Shows(t, x, n) <=> Shows(s, x, n)
    BY <1>1, <1>6, <2>1, <2>2, <2>3, AlikeShows
  <2> QED
    BY <1>1, <1>6, <2>2, <2>4 DEF Shown
<1>7. CASE x \in p .. e - 1
  <2>1. IsChunk(s, x) /\ (IsChunk(t, x) \/ t[x].type = "deleted")
    BY <1>1, <1>2, <1>7 DEF IsChunk
  <2>2. ~IsEntry(s, x) /\ ~IsEntry(t, x)
    BY <2>1 DEF IsChunk, IsEntry, EntryTypes
  <2> QED
    BY <2>2 DEF Shown, Shows
<1>8. CASE x = e
  <2> SUFFICES ASSUME Shows(t, e, n) PROVE FALSE
    BY <1>8 DEF Shown
  <2>1. IsEntry(t, e) /\ e \in 1 .. Len(s)
    BY <1>1 DEF Shows
  <2>2. l < e /\ t[e] = s[e]
    BY <1>1, <2>1 DEF IsEntry, EntryTypes
  <2>3. p \in p .. e - 1 /\ e - 1 \in p .. e - 1 /\ e - 1 \in 1 .. Len(s) /\ e - 1 < Len(s)
    BY <1>1, <2>2
  <2>4. CASE Spells(t, e, n)
    <3> DEFINE b == e - Chunks[n]
    <3>1. e \in Ends(t)
      BY <1>1, <1>3 DEF Ends
    <3>2. Spells(s, e, n)
      BY <2>4, <3>1, WipedSpells
    <3>3. b \in Int /\ 1 <= b /\ b < e /\ Alone(s, b) /\ \A i \in b .. e - 1 : IsChunk(s, i) /\ IsChunk(t, i)
      BY <2>4, <3>2, Constants DEF Spells
    <3> HIDE DEF b
    <3>4. b <= p
      <4> SUFFICES ASSUME p < b PROVE FALSE
        BY <3>3
      <4>1. b - 1 \in p .. e - 1 /\ b # 1
        BY <1>1, <3>3
      <4> QED
        BY <1>2, <3>3, <4>1 DEF Alone
    <3>5. p \in b .. e - 1 /\ p \in 1 .. Len(s) /\ p \in p .. l
      BY <1>1, <2>2, <3>3, <3>4
    <3> QED
      BY <1>1, <3>3, <3>5 DEF IsChunk
  <2>5. CASE ~Spells(t, e, n)
    <3>1. Chunks[n] = 0 /\ n \notin Tilde /\ s[e].key = <<Base[n], 0>>
      BY <2>2, <2>5 DEF Shows, ShortReads
    <3>2. IsChunk(s, e - 1) /\ Leads(s, e - 1) /\ (e - 1) + 1 = e
      BY <1>2, <2>3 DEF WellChunked
    <3>3. s[e - 1].key = s[e].key /\ s[e - 1].number = 1
      BY <2>1, <2>2, <3>2 DEF Leads, IsEntry, IsChunk, EntryTypes
    <3> DEFINE m == s[e - 1].name
    <3>4. m \in Names /\ 1 \in 1 .. Chunks[m] /\ KeyOf(m, s[e].key)
      BY <2>3, <3>2, <3>3 DEF WellChunked
    <3> HIDE DEF m
    <3>5. KeyOf(n, s[e].key)
      BY <3>1, NumbersFacts DEF KeyOf
    <3>6. m = n
      BY <3>1, <3>4, <3>5, SameKey
    <3> QED
      BY <3>1, <3>4, <3>6
  <2> QED
    BY <2>4, <2>5
<1> QED
  BY <1>1, <1>5, <1>6, <1>7, <1>8 DEF Shown

\* Writing the thing of an entry changes no name.
PutThing(s, t, e, o) == e \in 1 .. Len(s) /\ IsEntry(s, e) /\ Put(s, t, e, [s[e] EXCEPT !.thing = o])
LEMMA ThingShows ==
    ASSUME NEW s, NEW t, Typed(s), NEW e, NEW o, PutThing(s, t, e, o), NEW n \in Names, NEW x \in Nat
    PROVE  /\ Shown(t, x, n) <=> Shown(s, x, n)
           /\ x # e /\ Shown(t, x, n) => t[x] = s[x]
           /\ t[e].thing = o
<1>1. /\ Len(t) = Len(s) /\ t[e].thing = o
      /\ \A i \in 1 .. Len(s) : /\ t[i].type = s[i].type /\ t[i].name = s[i].name
                                /\ t[i].number = s[i].number /\ t[i].key = s[i].key
                                /\ i # e => t[i] = s[i]
  <2>1. Len(s) \in Nat /\ \A i \in 1 .. Len(s) : s[i] \in SlotType
    BY TypedFacts
  <2> QED
    BY <2>1 DEF Put, PutThing, SlotType
<1>2. Len(s) \in Nat
  BY TypedFacts
<1>3. CASE x \in 1 .. Len(s)
  <2>1. x \in Nat \ {0} /\ \A i \in 1 .. x - 1 : Alike(s, t, i)
    BY <1>1, <1>2, <1>3 DEF Alike, IsChunk
  <2>2. Shows(t, x, n) <=> Shows(s, x, n)
    BY <1>1, <1>3, <2>1, FrontShows
  <2> QED
    BY <1>1, <1>3, <2>2 DEF Shown
<1> QED
  BY <1>1, <1>3 DEF Shown

\* Nor does what is put behind the last entry, but for an entry itself.
LEMMA PutShows ==
    ASSUME NEW s, NEW t, Typed(s), NEW p \in Nat, NEW slot, Put(s, t, p, slot),
           \A j \in 1 .. Len(s) : j >= p => s[j] = FreeSlot,
           NEW n \in Names, NEW x \in Nat, x # p
    PROVE  /\ Shown(t, x, n) <=> Shown(s, x, n)
           /\ Shown(t, x, n) => t[x] = s[x]
<1>1. Len(t) = Len(s) /\ Len(s) \in Nat /\ \A i \in 1 .. Len(s) : i # p => t[i] = s[i]
  BY TypedFacts DEF Put
<1>2. CASE x \in 1 .. Len(s) /\ x < p
  <2>1. x \in Nat \ {0} /\ \A i \in 1 .. x - 1 : Alike(s, t, i)
    BY <1>1, <1>2 DEF Alike, IsChunk
  <2>2. t[x] = s[x]
    BY <1>1, <1>2
  <2>3. Shows(t, x, n) <=> Shows(s, x, n)
    BY <1>2, <2>1, <2>2, FrontShows
  <2> QED
    BY <1>1, <1>2, <2>2, <2>3 DEF Shown
<1>3. CASE x \in 1 .. Len(s) /\ x > p
  <2>1. t[x] = FreeSlot /\ s[x] = FreeSlot
    BY <1>1, <1>3
  <2> QED
    BY <2>1, SlotFacts DEF Shown, Shows, IsEntry, EntryTypes
<1> QED
  BY <1>1, <1>2, <1>3 DEF Shown

LEMMA GrownShows ==
    ASSUME NEW s, NEW t, Typed(s), Grown(s, t), NEW n \in Names, NEW x \in Nat
    PROVE  /\ Shown(t, x, n) <=> Shown(s, x, n)
           /\ Shown(t, x, n) => t[x] = s[x]
<1>1. /\ Len(t) = Len(s) + ClusterSlots /\ Len(s) \in Nat /\ ClusterSlots \in Nat
      /\ \A i \in 1 .. Len(t) : t[i] = IF i <= Len(s) THEN s[i] ELSE FreeSlot
  BY TypedFacts, Constants DEF Grown
<1>2. CASE x \in 1 .. Len(s)
  <2>1. x \in Nat \ {0} /\ \A i \in 1 .. x - 1 : Alike(s, t, i)
    BY <1>1, <1>2 DEF Alike, IsChunk
  <2>2. t[x] = s[x]
    BY <1>1, <1>2
  <2>3. Shows(t, x, n) <=> Shows(s, x, n)
    BY <1>2, <2>1, <2>2, FrontShows
  <2> QED
    BY <1>1, <1>2, <2>2, <2>3 DEF Shown
<1>3. CASE x \in Len(s) + 1 .. Len(t)
  <2>1. t[x] = FreeSlot
    BY <1>1, <1>3
  <2> QED
    BY <1>1, <1>3, <2>1, SlotFacts DEF Shown, Shows, IsEntry, EntryTypes
<1> QED
  BY <1>1, <1>2, <1>3 DEF Shown

\* The entry that is put behind the chunks of its name shows this name.
LEMMA EntryShows ==
    ASSUME NEW s, NEW t, Typed(s), NEW p, NEW n \in Names, NEW key, NEW type \in EntryTypes,
           Placing(s, p, n, 0, key), p <= Len(s), NEW slot, slot.type = type, slot.key = key, Put(s, t, p, slot)
    PROVE  /\ \A m \in Names : Shown(t, p, m) <=> m = n
           /\ \A m \in Names : ~Shown(s, p, m)
<1>1. /\ Len(s) \in Nat /\ p \in Nat /\ 1 <= p /\ Chunks[n] \in Nat /\ p > Chunks[n]
      /\ s[p] = FreeSlot
      /\ \A j \in Nat : p - Chunks[n] <= j /\ j < p =>
            IsChunk(s, j) /\ s[j].name = n /\ s[j].key = key /\ s[j].number = p - j
      /\ Alone(s, p - Chunks[n]) /\ KeyOf(n, key)
  <2> DEFINE r == Chunks[n] - 0
  <2>1. /\ Len(s) \in Nat /\ p \in Nat /\ 1 <= p /\ Chunks[n] \in Nat /\ p > r
        /\ \A j \in 1 .. Len(s) : j >= p => s[j] = FreeSlot
        /\ \A j \in Nat : p - r <= j /\ j < p =>
              IsChunk(s, j) /\ s[j].name = n /\ s[j].key = key /\ s[j].number = 0 + p - j
        /\ Alone(s, p - r) /\ KeyOf(n, key)
    BY PlacingFacts
  <2>2. r = Chunks[n] /\ \A j \in Nat : 0 + p - j = p - j
    BY <2>1
  <2> HIDE DEF r
  <2>3. p <= Len(s) /\ p \in 1 .. Len(s) /\ s[p] = FreeSlot
    BY <2>1
  <2>4. \A j \in Nat : p - Chunks[n] <= j /\ j < p =>
           IsChunk(s, j) /\ s[j].name = n /\ s[j].key = key /\ s[j].number = p - j
    BY <2>1, <2>2
  <2> QED
    BY <2>1, <2>2, <2>3, <2>4
<1>2. Len(t) = Len(s) /\ t[p] = slot /\ \A i \in 1 .. Len(s) : i # p => t[i] = s[i]
  BY <1>1 DEF Put
<1>3. ~IsEntry(s, p)
  BY <1>1, SlotFacts DEF IsEntry, EntryTypes
<1>4. IsEntry(t, p)
  BY <1>2 DEF IsEntry
<1>5. \A j \in 1 .. p - 1 : t[j] = s[j] /\ j \in 1 .. Len(s)
  BY <1>1, <1>2
<1>6. Shows(t, p, n)
  <2>1. CASE Chunks[n] = 0
    <3>1. n \notin Tilde /\ key = <<Base[n], 0>>
      BY <1>1, <2>1, KeyFacts, Constants
    <3>2. Alone(s, p)
      BY <1>1, <2>1
    <3>3. Alone(t, p)
      <4>1. CASE p = 1
        BY <4>1 DEF Alone
      <4>2. CASE p # 1
        <5>1. p - 1 \in 1 .. p - 1
          BY <1>1, <4>2
        <5> QED
          BY <1>5, <3>2, <4>2, <5>1 DEF Alone, IsChunk
      <4> QED
        BY <4>1, <4>2
    <3> QED
      BY <1>2, <1>4, <2>1, <3>1, <3>3 DEF Shows, ShortReads
  <2>2. CASE Chunks[n] # 0
    <3> DEFINE b == p - Chunks[n]
    <3>1. b \in Nat /\ 1 <= b /\ b < p
      BY <1>1, <2>2
    <3>2. \A i \in b .. p - 1 : IsChunk(t, i) /\ t[i].name = n /\ t[i].number = p - i
      <4> TAKE i \in b .. p - 1
      <4>1. i \in 1 .. p - 1 /\ i \in Nat /\ p - Chunks[n] <= i /\ i < p
        BY <1>1, <3>1
      <4>2. IsChunk(s, i) /\ s[i].name = n /\ s[i].number = p - i
        BY <1>1, <4>1
      <4>3. t[i] = s[i]
        BY <1>5, <4>1
      <4> QED
        BY <4>2, <4>3 DEF IsChunk
    <3>3. Alone(t, b)
      <4>1. CASE b = 1
        BY <4>1 DEF Alone
      <4>2. CASE b # 1
        <5>1. b - 1 \in 1 .. p - 1
          BY <1>1, <3>1, <4>2
        <5> QED
          BY <1>1, <1>5, <4>2, <5>1 DEF Alone, IsChunk
      <4> QED
        BY <4>1, <4>2
    <3> HIDE DEF b
    <3>4. b = p - Chunks[n]
      BY DEF b
    <3>5. Spells(t, p, n)
      BY <3>1, <3>2, <3>3, <3>4 DEF Spells
    <3> QED
      BY <1>4, <3>5 DEF Shows
  <2> QED
    BY <2>1, <2>2
<1>7. p \in 1 .. Len(t)
  BY <1>1, <1>2
<1> QED
  BY <1>1, <1>3, <1>6, <1>7, ShowsOne DEF Shown, Shows

-----------------------------------------------------------------------------
(***************************************************************************)
(* What NameSpace sees                                                     *)
(***************************************************************************)

\* The listing of a directory: the thing of the entry that shows a name, if any.
LEMMA ListingIs ==
    ASSUME NEW s, Typed(s), OneMatch(s), NEW n \in Names
    PROVE  /\ \A x \in Nat : Shown(s, x, n) => Listing(s)[n] = s[x].thing
           /\ (\A x \in Nat : ~Shown(s, x, n)) => Listing(s)[n] = None
<1>1. Listing(s)[n] = ThingAt(s, Stat(s, n))
  BY DEF Listing
<1>2. Ends(s) \subseteq Nat /\ 0 \notin Ends(s) /\ \A x \in Ends(s) : x \in 1 .. Len(s)
  BY EndsFacts DEF Ends
<1>3. ASSUME NEW x \in Nat, Shown(s, x, n) PROVE Listing(s)[n] = s[x].thing
  <2>1. x \in Ends(s) /\ Shows(s, x, n)
    BY <1>3 DEF Shown, Shows, IsEntry, Ends, IsChunk, EntryTypes
  <2>2. Stat(s, n) # 0
    BY <2>1, FindFacts
  <2>3. Stat(s, n) \in Ends(s) /\ Shows(s, Stat(s, n), n)
    BY <2>2, FindFacts
  <2>4. Stat(s, n) = x
    BY <2>1, <2>3, ShownMatches DEF OneMatch
  <2> QED
    BY <1>1, <2>2, <2>4 DEF ThingAt
<1>4. ASSUME \A x \in Nat : ~Shown(s, x, n) PROVE Listing(s)[n] = None
  <2>1. Stat(s, n) = 0
    BY <1>2, <1>4, FindFacts DEF Shown
  <2> QED
    BY <1>1, <2>1 DEF ThingAt
<1> QED
  BY <1>3, <1>4

\* Two directories that show a name alike list it alike.
LEMMA ListedAlike ==
    ASSUME NEW s, NEW t, Typed(s), OneMatch(s), Typed(t), OneMatch(t), NEW n \in Names,
           \A x \in Nat : /\ Shown(t, x, n) <=> Shown(s, x, n)
                          /\ Shown(t, x, n) => t[x].thing = s[x].thing
    PROVE  Listing(t)[n] = Listing(s)[n]
<1>1. CASE \E x \in Nat : Shown(s, x, n)
  BY <1>1, ListingIs
<1>2. CASE \A x \in Nat : ~Shown(s, x, n)
  BY <1>2, ListingIs
<1> QED
  BY <1>1, <1>2

\* The state of NameSpace that a state of DirEntries stands for.
Seeing == [d \in Clusters |-> Bound(d)]
NoNames == [n \in Names |-> None]

LEMMA BoundIs ==
    ASSUME NEW d
    PROVE  Bound(d) = IF IsDirectory(d) THEN Listing(Slots(d)) ELSE NoNames
<1>1. {Listing(s) : s \in {Slots(d)}} = {Listing(Slots(d))}
  OBVIOUS
<1>2. (CHOOSE f \in {Listing(Slots(d))} : TRUE) = Listing(Slots(d))
  OBVIOUS
<1> QED
  BY <1>1, <1>2 DEF Bound, NoNames

Sees == /\ DOMAIN Seeing = Clusters
        /\ \A d \in Clusters : Seeing[d] = IF d \in Dirs THEN Listing(Slots(d)) ELSE NoNames
LEMMA SeesNow == Sees
BY BoundIs DEF Sees, Seeing, Dirs
LEMMA SeesThen == Sees'
BY SeesNow, PTL

LEMMA SeenNames ==
    ASSUME NEW d \in Clusters
    PROVE  Seeing[d] \in [Names -> {Seeing[d][n] : n \in Names}]
BY SeesNow DEF Sees, Listing, NoNames

\* A step that changes no listing, or one.
LEMMA NoChange ==
    ASSUME Dirs \subseteq Clusters, Dirs' = Dirs, NEW d, NEW s, NEW t, Slots(d) = s, Slots(d)' = t,
           \A e \in Dirs \ {d} : Slots(e)' = Slots(e),
           \A n \in Names : Listing(t)[n] = Listing(s)[n]
    PROVE  Seeing' = Seeing
<1>1. Listing(t) = Listing(s)
  BY DEF Listing
<1>2. \A e \in Clusters : Seeing'[e] = Seeing[e]
  BY <1>1, SeesNow, SeesThen DEF Sees
<1>3. DOMAIN Seeing' = Clusters
  BY SeesThen DEF Sees
<1> QED
  BY <1>2, <1>3 DEF Seeing

\* Name n of d stands for v now, and nothing else is new.
Becomes(d, n, v) == Seeing' = [Seeing EXCEPT ![d][n] = v]

LEMMA OneChange ==
    ASSUME Dirs \subseteq Clusters, Dirs' = Dirs, NEW d \in Dirs, NEW s, NEW t, Slots(d) = s, Slots(d)' = t,
           \A e \in Dirs \ {d} : Slots(e)' = Slots(e),
           NEW m \in Names, NEW v, Listing(t)[m] = v,
           \A n \in Names \ {m} : Listing(t)[n] = Listing(s)[n]
    PROVE  Becomes(d, m, v)
<1>1. Listing(t) = [Listing(s) EXCEPT ![m] = v]
  BY DEF Listing
<1>2. \A e \in Clusters \ {d} : Seeing'[e] = Seeing[e]
  BY SeesNow, SeesThen DEF Sees
<1>3. Seeing[d] = Listing(s) /\ Seeing'[d] = Listing(t)
  BY SeesNow, SeesThen DEF Sees
<1>4. DOMAIN Seeing' = Clusters
  BY SeesThen DEF Sees
<1> QED
  BY <1>1, <1>2, <1>3, <1>4 DEF Seeing, Becomes

-----------------------------------------------------------------------------
\* Steps of NameSpace.
Stands == [NS!Next]_(NS!vars)

LEMMA StandsStill ==
    ASSUME Seeing' = Seeing, Moving' = Moving
    PROVE  Stands
BY DEF Stands, NS!vars, Seeing


LEMMA Rebinds ==
    ASSUME NEW d \in Clusters, NEW n \in Names, NEW v, Seeing[d][n] # v,
           Becomes(d, n, v)
    PROVE  Seeing'[d] # Seeing[d] /\ Seeing'[d][n] = v
<1>1. d \in DOMAIN Seeing /\ n \in DOMAIN Seeing[d]
  BY SeenNames DEF Seeing
<1> QED
  BY <1>1 DEF Becomes

LEMMA Unbound ==
    ASSUME NEW d \in Clusters, NEW n \in Names, NEW v, Seeing[d][n] = v,
           Becomes(d, n, v)
    PROVE  Seeing' = Seeing
<1>1. [Seeing[d] EXCEPT ![n] = v] = Seeing[d]
  BY SeenNames
<1>2. \A e \in Clusters : Seeing'[e] = Seeing[e]
  BY <1>1 DEF Seeing, Becomes
<1> QED
  BY <1>2, SeesNow, SeesThen DEF Sees, Seeing

LEMMA NoneIsNothing == None \notin Things /\ None # 0 /\ 0 \in Things /\ Data \cap Clusters = {} /\ None \notin Clusters
BY ThingsAssumption, OpFields, ClusterFacts DEF Things

LEMMA StandsForBind ==
    ASSUME NEW d \in Clusters, NEW n \in Names, Seeing[d][n] = None,
           Becomes(d, n, 0), Moving' = Moving
    PROVE  Stands
<1>1. Seeing[d][n] # 0
  BY NoneIsNothing
<1>2. Seeing'[d] # Seeing[d] /\ Seeing'[d][n] = 0
  BY <1>1, Rebinds
<1>3. NS!Bind(d, n)
  BY <1>2 DEF NS!Bind, NS!Rebind, Becomes, Seeing
<1> QED
  BY <1>2, <1>3 DEF Stands, NS!Next, Seeing

LEMMA StandsForUpdate ==
    ASSUME NEW d \in Clusters, NEW n \in Names, NEW o \in Data, Seeing[d][n] \in Data \cup {0},
           Becomes(d, n, o), Moving' = Moving
    PROVE  Stands
<1>1. CASE Seeing[d][n] = o
  BY <1>1, Unbound, StandsStill
<1>2. CASE Seeing[d][n] # o
  <2>1. Seeing'[d] # Seeing[d] /\ Seeing'[d][n] = o
    BY <1>2, Rebinds
  <2>2. NS!Update(d, n, o)
    BY <2>1 DEF NS!Update, NS!Rebind, Becomes, Seeing
  <2> QED
    BY <2>1, <2>2 DEF Stands, NS!Next, Seeing
<1> QED
  BY <1>1, <1>2

LEMMA StandsForUnbind ==
    ASSUME NEW d \in Clusters, NEW n \in Names, Seeing[d][n] # None,
           Seeing[d][n] \in Clusters => Seeing[Seeing[d][n]] = NoNames,
           Becomes(d, n, None), Moving' = Moving
    PROVE  Stands
<1>1. Seeing'[d] # Seeing[d] /\ Seeing'[d][n] = None
  BY Rebinds
<1>2. NS!Unbind(d, n)
  BY <1>1 DEF NS!Unbind, NS!Rebind, Becomes, NS!IsEmpty, Seeing, NoNames
<1> QED
  BY <1>1, <1>2 DEF Stands, NS!Next, Seeing

LEMMA StandsForTakeOut ==
    ASSUME NEW d \in Clusters, NEW n \in Names, Seeing[d][n] # None,
           Moving = None, Moving' = Seeing[d][n],
           Becomes(d, n, None)
    PROVE  Stands
<1>1. Seeing'[d] # Seeing[d] /\ Seeing'[d][n] = None
  BY Rebinds
<1>2. NS!TakeOut(d, n)
  BY <1>1 DEF NS!TakeOut, NS!Rebind, Becomes, Seeing
<1> QED
  BY <1>1, <1>2 DEF Stands, NS!Next, Seeing

\* What is put in may be blank, as its new name is already.
LEMMA StandsForPutIn ==
    ASSUME NEW d \in Clusters, NEW n \in Names, Seeing[d][n] = 0,
           NEW v, Moving = v, v # None, Moving' = None,
           Becomes(d, n, v)
    PROVE  Stands
<1>1. CASE v = 0
  <2>1. Seeing' = Seeing
    BY <1>1, Unbound
  <2>2. NS!Crash
    BY <2>1 DEF NS!Crash, Seeing
  <2> QED
    BY <2>2 DEF Stands, NS!Next
<1>2. CASE v # 0
  <2>1. Seeing'[d] # Seeing[d] /\ Seeing'[d][n] = v
    BY <1>2, Rebinds
  <2>2. NS!PutIn(d, n)
    BY <2>1 DEF NS!PutIn, NS!Rebind, Becomes, Seeing
  <2> QED
    BY <2>1, <2>2 DEF Stands, NS!Next, Seeing
<1> QED
  BY <1>1, <1>2

LEMMA StandsForMakeDirectory ==
    ASSUME NEW d \in Clusters, NEW n \in Names, Seeing[d][n] = 0, NEW c \in Clusters, c # Root,
           Seeing[c] = NoNames, \A e \in Clusters, m \in Names : Seeing[e][m] # c,
           Moving' = Moving, Becomes(d, n, c)
    PROVE  Stands
<1>1. Seeing'[d] # Seeing[d] /\ Seeing'[d][n] = c
  BY Rebinds
<1>2. NS!MakeDirectory(d, n, c)
  BY <1>1 DEF NS!MakeDirectory, NS!Rebind, Becomes, NS!IsEmpty, Seeing, NoNames
<1> QED
  BY <1>1, <1>2 DEF Stands, NS!Next, Seeing

LEMMA StandsForCrash ==
    ASSUME Moving # None, Moving' = None, Seeing' = Seeing
    PROVE  Stands
BY DEF Stands, NS!Next, NS!Crash, Seeing

-----------------------------------------------------------------------------
(***************************************************************************)
(* The invariant                                                           *)
(***************************************************************************)

\* What a file stands for is no directory.
FilesHold ==
    /\ \A d \in Dirs : \A i \in 1 .. Len(Slots(d)) :
          Slots(d)[i].type = "file" => Slots(d)[i].thing \in Data \cup {0}
    /\ op.kind = "rename" /\ op.type = "file" => op.thing \in Data \cup {0}

\* The entry at hand: a rename begins with one that is listed, none is any more once
\* its first slots are wiped, and a placed one has the name of the call.
EntryNamed ==
    \A d \in Dirs : \A e \in 1 .. Len(Slots(d)) : d = op.dir /\ op.entry = Place(d, e) =>
        /\ op.at = "wipe" /\ op.kind = "rename" => \E n \in Names : Shows(Slots(d), e, n)
        /\ op.at = "wiping" => \A n \in Names : ~Shows(Slots(d), e, n)
        /\ op.at = "fill" => Shows(Slots(d), e, op.name)

NInv == FilesHold /\ EntryNamed

\* Directories that can be listed.
Lookable == \A d \in Dirs : Typed(Slots(d)) /\ OneMatch(Slots(d)) /\ d \in Clusters
LEMMA LookNow == IInv => Lookable
BY DirSound, OwnCluster DEF Lookable, Sound, IInv, Laid
LEMMA LookThen == IInv' => Lookable'
BY LookNow, PTL

\* Slots that show what they showed.
Same(s, t) ==
    \A n \in Names, x \in Nat : /\ Shown(t, x, n) <=> Shown(s, x, n)
                                /\ Shown(t, x, n) => t[x].thing = s[x].thing
\* But for an entry at e.
SameBut(s, t, e) ==
    \A n \in Names, x \in Nat : /\ x # e => (Shown(t, x, n) <=> Shown(s, x, n))
                                /\ x # e /\ Shown(t, x, n) => t[x].thing = s[x].thing
\* The step goes from slots s of d to slots t.
Goes(d, s, t) ==
    /\ d \in Dirs /\ Dirs' = Dirs /\ Slots(d) = s /\ Slots(d)' = t
    /\ \A e \in Dirs \ {d} : Slots(e)' = Slots(e)
    /\ Lookable /\ Lookable'

LEMMA GoesFacts ==
    ASSUME NEW d, NEW s, NEW t, Goes(d, s, t)
    PROVE  Typed(s) /\ OneMatch(s) /\ Typed(t) /\ OneMatch(t) /\ d \in Clusters
BY DEF Goes, Lookable

LEMMA SameStands ==
    ASSUME NEW d, NEW s, NEW t, Goes(d, s, t), Same(s, t), Moving' = Moving
    PROVE  Stands
<1>1. \A n \in Names : Listing(t)[n] = Listing(s)[n]
  <2> TAKE n \in Names
  <2>1. Typed(s) /\ OneMatch(s) /\ Typed(t) /\ OneMatch(t)
    BY GoesFacts
  <2>2. \A x \in Nat : /\ Shown(t, x, n) <=> Shown(s, x, n)
                       /\ Shown(t, x, n) => t[x].thing = s[x].thing
    BY DEF Same
  <2> QED
    BY <2>1, <2>2, ListedAlike
<1>2. Dirs \subseteq Clusters /\ Dirs' = Dirs /\ Slots(d) = s /\ Slots(d)' = t /\ \A e \in Dirs \ {d} : Slots(e)' = Slots(e)
  BY DEF Goes, Dirs
<1>3. Seeing' = Seeing
  BY <1>1, <1>2, NoChange
<1> QED
  BY <1>3, StandsStill

\* A step that changes what the entry at e shows or holds changes its name.
LEMMA NameBecomes ==
    ASSUME NEW d, NEW s, NEW t, NEW e \in Nat, NEW m \in Names, NEW v, Goes(d, s, t), SameBut(s, t, e),
           \A n \in Names \ {m} : ~Shown(s, e, n) /\ ~Shown(t, e, n),
           (Shown(t, e, m) /\ t[e].thing = v) \/ ((\A x \in Nat : ~Shown(t, x, m)) /\ v = None)
    PROVE  Becomes(d, m, v)
<1>1. Typed(s) /\ OneMatch(s) /\ Typed(t) /\ OneMatch(t)
  BY GoesFacts
<1>2. Listing(t)[m] = v
  BY <1>1, ListingIs
<1>3. \A n \in Names \ {m} : Listing(t)[n] = Listing(s)[n]
  <2> TAKE n \in Names \ {m}
  <2>1. \A x \in Nat : /\ Shown(t, x, n) <=> Shown(s, x, n)
                       /\ Shown(t, x, n) => t[x].thing = s[x].thing
    BY DEF SameBut
  <2> QED
    BY <1>1, <2>1, ListedAlike
<1>4. /\ Dirs \subseteq Clusters /\ Dirs' = Dirs /\ Slots(d) = s /\ Slots(d)' = t /\ d \in Dirs
      /\ \A e_1 \in Dirs \ {d} : Slots(e_1)' = Slots(e_1)
  BY DEF Goes, Dirs
<1> QED
  BY <1>2, <1>3, <1>4, OneChange

\* What a name stands for.
LEMMA SeenShown ==
    ASSUME NEW d, NEW s, NEW t, Goes(d, s, t), NEW n \in Names
    PROVE  /\ \A x \in Nat : Shown(s, x, n) => Seeing[d][n] = s[x].thing
           /\ (\A x \in Nat : ~Shown(s, x, n)) => Seeing[d][n] = None
<1>1. Seeing[d] = Listing(s)
  BY GoesFacts, SeesNow DEF Goes, Sees
<1>2. Typed(s) /\ OneMatch(s)
  BY GoesFacts
<1> QED
  BY <1>1, <1>2, ListingIs

\* A directory that lists nothing has no names.
LEMMA NothingListed ==
    ASSUME IInv, NEW c \in Dirs, ListsNothing(c)
    PROVE  Seeing[c] = NoNames
<1>1. PICK s : s = Slots(c)
  OBVIOUS
<1>2. Typed(s) /\ OneMatch(s) /\ c \in Clusters
  BY <1>1, LookNow DEF Lookable
<1>3. \A n \in Names, x \in Nat : ~Shown(s, x, n)
  BY <1>1 DEF ListsNothing, Shown, Shows, Ends, IsEntry, IsChunk, EntryTypes
<1>4. \A n \in Names : Listing(s)[n] = None
  BY <1>2, <1>3, ListingIs
<1>5. Listing(s) = NoNames
  BY <1>4 DEF Listing, NoNames
<1> QED
  BY <1>1, <1>2, <1>5, SeesNow DEF Sees

\* A name is shown once.
LEMMA ShownOnce ==
    ASSUME NEW s, OneMatch(s), NEW n \in Names, NEW x \in Nat, NEW y \in Nat, Shown(s, x, n), Shown(s, y, n)
    PROVE  x = y
<1>1. x \in Ends(s) /\ y \in Ends(s)
  BY DEF Shown, Shows, IsEntry, Ends, IsChunk, EntryTypes
<1>2. Matches(s, x, n) /\ Matches(s, y, n)
  BY ShownMatches DEF Shown
<1> QED
  BY <1>1, <1>2 DEF OneMatch

\* The files of the slots that are written.
LEMMA FilesStay ==
    ASSUME FilesHold, NEW d, NEW s, NEW t, Goes(d, s, t),
           \A i \in 1 .. Len(t) : t[i].type = "file" =>
              t[i].thing \in Data \cup {0} \/ (i \in 1 .. Len(s) /\ t[i] = s[i]),
           op'.kind = "rename" /\ op'.type = "file" => op'.thing \in Data \cup {0}
    PROVE  FilesHold'
<1>1. ASSUME NEW y \in Dirs, NEW i \in 1 .. Len(Slots(y)'), Slots(y)'[i].type = "file"
      PROVE  Slots(y)'[i].thing \in Data \cup {0}
  <2>1. CASE y = d
    BY <1>1, <2>1 DEF Goes, FilesHold
  <2>2. CASE y # d
    BY <1>1, <2>2 DEF Goes, FilesHold
  <2> QED
    BY <2>1, <2>2
<1>2. Dirs' = Dirs
  BY DEF Goes
<1> QED
  BY <1>1, <1>2 DEF FilesHold

\* Of the entry at hand there is one only.
LEMMA EntryNamedAt ==
    ASSUME Laid', NEW d, d \in Dirs', NEW e \in Nat, NEW t, Slots(d)' = t, e \in 1 .. Len(t),
           op'.at = "idle" \/ (op'.dir = d /\ op'.entry = Place(d, e)'),
           op'.at = "wipe" /\ op'.kind = "rename" => \E n \in Names : Shows(t, e, n),
           op'.at = "wiping" => \A n \in Names : ~Shows(t, e, n),
           op'.at = "fill" => Shows(t, e, op'.name)
    PROVE  EntryNamed'
<1>1. ASSUME NEW y, y \in Dirs', NEW i \in 1 .. Len(Slots(y)'), y = op'.dir, op'.entry = Place(y, i)', op'.at # "idle"
      PROVE  y = d /\ i = e
  <2>1. PICK lay : Layout(lay)'
    BY DEF Laid
  <2>2. Apart(d, y)'
    BY <1>1, <2>1, PlacesThen DEF Places
  <2>3. Place(d, e)' = Place(y, i)'
    BY <1>1
  <2> QED
    BY <1>1, <2>2, <2>3 DEF Apart
<1> QED
  BY <1>1 DEF EntryNamed

\* Behind the place for an entry there is nothing, and no entry has its name yet.
LEMMA PlacingBehind ==
    ASSUME NEW s, NEW p, NEW n \in Names, NEW left, NEW key, Typed(s), Placing(s, p, n, left, key)
    PROVE  /\ p \in Nat /\ \A j \in 1 .. Len(s) : j >= p => s[j] = FreeSlot
           /\ \A x \in Ends(s) : Matches(s, x, n) => x = p
BY PlacingFacts

LEMMA NoEntryNamed ==
    ASSUME op'.at \notin {"wipe", "wiping", "fill"}
    PROVE  EntryNamed'
BY DEF EntryNamed

\* What is moving.
LEMMA MovingIs ==
    ASSUME IInv
    PROVE  /\ op.kind # "rename" => Moving = None
           /\ op.at \in {"idle", "wipe"} => Moving = None
           /\ op.kind = "rename" /\ op.at \notin {"idle", "wipe"} => Moving = op.thing
           /\ op.thing \in Things /\ op.kind = "rename" => op.at # "idle"
BY DEF Moving, IInv, OpSound, OpTyped, OpType
LEMMA MovingThen ==
    ASSUME IInv'
    PROVE  /\ op'.kind # "rename" => Moving' = None
           /\ op'.at \in {"idle", "wipe"} => Moving' = None
           /\ op'.kind = "rename" /\ op'.at \notin {"idle", "wipe"} => Moving' = op'.thing
BY DEF Moving, IInv, OpSound

-----------------------------------------------------------------------------
(***************************************************************************)
(* The steps of a call                                                     *)
(***************************************************************************)

\* Steps that write nothing.
LEMMA StillNames ==
    ASSUME IInv, IInv', NInv, fat' = fat, content' = content,
           op'.kind = "rename" /\ op'.type = "file" => op'.thing \in Data \cup {0}
    PROVE  /\ Seeing' = Seeing /\ FilesHold' /\ Dirs' = Dirs
           /\ \A d \in Dirs : Slots(d)' = Slots(d) /\ SameDir(d)
<1>1. PICK lay : Layout(lay)
  BY DEF IInv, Laid
<1>2. Steady /\ \A d \in Dirs : Slots(d)' = Slots(d)
  BY <1>1, StillStep
<1>3. Root \in Dirs
  BY ClusterFacts DEF Dirs, IsDirectory
<1>4. PICK s : s = Slots(Root)
  OBVIOUS
<1>5. Goes(Root, s, s)
  BY <1>2, <1>3, <1>4, LookNow, LookThen DEF Goes, Steady
<1>6. Dirs \subseteq Clusters
  BY DEF Dirs
<1>7. Seeing' = Seeing
  BY <1>5, <1>6, NoChange DEF Goes
<1>8. FilesHold'
  BY <1>5, FilesStay DEF NInv
<1> QED
  BY <1>2, <1>7, <1>8 DEF Steady

LEMMA WipeStands ==
    ASSUME Roomy, IInv, IInv', NInv, Wipe
    PROVE  NInv' /\ Stands
<1>1. PICK lay, d, s, p, e, l, t : Layout(lay) /\ OneDir(lay, d) /\ WipedTo(d, s, p, e, l, t)
  BY WipeDoes
<1>2. /\ d \in Dirs /\ op.dir = d /\ Slots(d) = s /\ Slots(d)' = t /\ op.entry = Place(d, e)
      /\ p \in Nat /\ e \in Nat /\ l \in p .. e /\ e \in 1 .. Len(s) /\ Len(t) = Len(s)
      /\ Sound(s, e) /\ Group(s, p, e) /\ Wiped(s, t, p, l) /\ Typed(s)
      /\ WipeGoes(d, e, l)
      /\ op.kind \in {"create", "unlink"} => s[e].type # "directory"
      /\ op.kind = "rename" => IsEntry(s, e) /\ s[e].thing = op.thing /\ s[e].type = op.type
      /\ op.kind = "rmdir" => s[e].type = "directory" /\ s[e].thing = op.thing
  BY <1>1 DEF WipedTo
<1>3. /\ Layout(lay)' /\ Dirs' = Dirs /\ (\A y \in Dirs \ {d} : Slots(y)' = Slots(y))
      /\ Place(d, e)' = Place(d, e)
  BY <1>1, <1>2 DEF OneDir, Steady, SameDir
<1>4. Goes(d, s, t)
  BY <1>2, <1>3, LookNow, LookThen DEF Goes
<1>5. \A n \in Names, x \in Nat : /\ Shown(t, x, n) <=> Shown(s, x, n) /\ x # e
                                  /\ Shown(t, x, n) => t[x] = s[x]
  <2>1. WellChunked(s) /\ Typed(s) /\ p \in Nat /\ e \in Nat /\ l \in p .. e /\ Group(s, p, e) /\ Wiped(s, t, p, l)
    BY <1>2 DEF Sound
  <2> QED
    BY <2>1, WipedShows
<1>6. op.at \in {"wipe", "wiping"} /\ op.kind \in {"create", "unlink", "rename", "rmdir"}
  BY DEF IInv, OpSound, IsWiping, Wipe
<1>7. /\ op'.at \in {"wiping", "search", "release", "idle"}
      /\ op'.at = "wiping" => op'.dir = d /\ op'.entry = op.entry
      /\ op.kind = "rename" => op'.at # "idle" /\ op'.kind = "rename" /\ op'.thing = op.thing /\ op'.type = op.type
      /\ op.kind # "rename" => op'.kind # "rename"
  <2>1. op \in OpType
    BY DEF IInv, OpTyped
  <2>2. CASE l = e
    <3>1. op' = AfterWipe
      BY <1>2, <2>2 DEF WipeGoes
    <3>2. CASE op.kind \in {"create", "rename"}
      BY <2>1, <3>1, <3>2 DEF AfterWipe, Searching, OpType
    <3>3. CASE op.kind = "rmdir"
      BY <2>1, <3>1, <3>3 DEF AfterWipe, OpType
    <3>4. CASE op.kind = "unlink"
      BY <2>1, <3>1, <3>4, OpFields DEF AfterWipe, OpType
    <3> QED
      BY <1>6, <3>2, <3>3, <3>4
  <2>3. CASE l < e
    BY <1>2, <2>1, <2>3 DEF WipeGoes, OpType
  <2> QED
    BY <1>2, <2>2, <2>3
<1>8. FilesHold'
  <2>1. \A i \in 1 .. Len(t) : t[i].type = "file" => i \in 1 .. Len(s) /\ t[i] = s[i]
    BY <1>2, SlotFacts DEF Wiped
  <2>2. op'.kind = "rename" /\ op'.type = "file" => op'.thing \in Data \cup {0}
    BY <1>7 DEF NInv, FilesHold
  <2> QED
    BY <1>4, <2>1, <2>2, FilesStay DEF NInv
<1>9. \A n \in Names : ~Shows(t, e, n)
  BY <1>2, <1>5 DEF Shown
<1>10. EntryNamed'
  <2>1. CASE op'.at = "wiping"
    <3>1. op'.dir = d /\ op'.entry = Place(d, e)'
      BY <1>2, <1>3, <1>7, <2>1
    <3>2. Laid' /\ d \in Dirs'
      BY <1>2, <1>3 DEF IInv
    <3> QED
      BY <1>2, <1>9, <2>1, <3>1, <3>2, EntryNamedAt
  <2>2. CASE op'.at # "wiping"
    BY <1>7, <2>2, NoEntryNamed
  <2> QED
    BY <2>1, <2>2
<1>11. Stands
  <2>1. ASSUME \A n \in Names : ~Shows(s, e, n), Moving' = Moving PROVE Stands
    <3>1. Same(s, t)
      BY <1>5, <2>1 DEF Same, Shown
    <3> QED
      BY <1>4, <2>1, <3>1, SameStands
  <2>2. CASE op.at = "wiping"
    <3>1. \A n \in Names : ~Shows(s, e, n)
      BY <1>2, <2>2 DEF NInv, EntryNamed
    <3>2. Moving' = Moving
      BY <1>7, <2>2, MovingIs, MovingThen
    <3> QED
      BY <2>1, <3>1, <3>2
  <2>3. CASE op.at = "wipe" /\ \A n \in Names : ~Shows(s, e, n)
    <3>1. op.kind # "rename"
      BY <1>2, <2>3 DEF NInv, EntryNamed
    <3>2. Moving' = Moving
      BY <1>7, <3>1, MovingIs, MovingThen
    <3> QED
      BY <2>1, <2>3, <3>2
  <2>4. ASSUME op.at = "wipe", NEW n \in Names, Shows(s, e, n) PROVE Stands
    <3>1. Shown(s, e, n) /\ \A m \in Names \ {n} : ~Shown(s, e, m) /\ ~Shown(t, e, m)
      BY <1>2, <1>5, <2>4, ShownOnce, ShowsOne DEF Shown
    <3>2. \A x \in Nat : ~Shown(t, x, n)
      <4> SUFFICES ASSUME NEW x \in Nat, Shown(t, x, n) PROVE FALSE
        OBVIOUS
      <4>1. Shown(s, x, n) /\ x # e
        BY <1>5
      <4> QED
        BY <1>2, <1>4, <3>1, <4>1, ShownOnce, GoesFacts
    <3>3. SameBut(s, t, e)
      BY <1>5 DEF SameBut
    <3>4. Becomes(d, n, None)
      BY <1>2, <1>4, <3>1, <3>2, <3>3, NameBecomes
    <3>5. PICK v : v = s[e].thing
      OBVIOUS
    <3>6. Seeing[d][n] = v
      BY <1>2, <1>4, <3>1, <3>5, SeenShown
    <3>7. v \in Things /\ v # None /\ d \in Clusters
      <4>1. s[e] \in SlotType
        BY <1>2, TypedFacts
      <4> QED
        BY <1>4, <3>5, <4>1, NoneIsNothing, GoesFacts DEF SlotType
    <3>8. CASE op.kind = "rename"
      <4>1. Moving = None /\ Moving' = v
        BY <1>2, <1>7, <2>4, <3>5, <3>8, MovingIs, MovingThen
      <4> QED
        BY <3>4, <3>6, <3>7, <4>1, StandsForTakeOut
    <3>9. CASE op.kind # "rename"
      <4>1. Moving' = Moving
        BY <1>7, <3>9, MovingIs, MovingThen
      <4>2. v \in Clusters => Seeing[v] = NoNames
        <5>1. CASE s[e].type = "file"
          <6>1. v \in Data \cup {0}
            BY <1>2, <3>5, <5>1 DEF NInv, FilesHold
          <6> QED
            BY <6>1, NoneIsNothing, ClusterFacts
        <5>2. CASE s[e].type # "file"
          <6>1. s[e].type = "directory"
            BY <2>4, <5>2 DEF Shows, IsEntry, EntryTypes
          <6>2. op.kind = "rmdir" /\ v = op.thing
            BY <1>2, <1>6, <3>5, <3>9, <6>1
          <6>3. v \in Dirs /\ ListsNothing(v)
            BY <6>2 DEF IInv, OpSound
          <6> QED
            BY <6>3, NothingListed
        <5> QED
          BY <5>1, <5>2
      <4> QED
        BY <3>4, <3>6, <3>7, <4>1, <4>2, StandsForUnbind
    <3> QED
      BY <3>8, <3>9
  <2> QED
    BY <1>6, <2>2, <2>3, <2>4
<1> QED
  BY <1>8, <1>10, <1>11 DEF NInv

\* The cluster of a directory that is gone was empty.
LEMMA ReleaseStands ==
    ASSUME IInv, IInv', NInv, Release
    PROVE  NInv' /\ Stands
<1>1. PICK lay : Layout(lay)
  BY DEF IInv, Laid
<1>2. PICK x : x = op.thing
  OBVIOUS
<1>3. /\ op.at = "release" /\ op' = NoOp /\ content' = content
      /\ fat' = [c \in AnyCluster |-> IF c \in Chain(x) THEN Free ELSE fat[c]]
  BY <1>2 DEF Release
<1>4. x \in Dirs /\ x # Root /\ ListsNothing(x) /\ op.kind = "rmdir"
  BY <1>2, <1>3 DEF IInv, OpSound
<1>5. Dirs' = Dirs \ {x} /\ \A e \in Dirs \ {x} : Slots(e)' = Slots(e)
  BY <1>1, <1>3, <1>4, ReleaseStep
<1>6. op'.at = "idle" /\ op'.kind = "none"
  BY <1>3, OpFields
<1>7. FilesHold'
  BY <1>5, <1>6 DEF NInv, FilesHold
<1>8. EntryNamed'
  BY <1>6, NoEntryNamed
<1>9. Seeing' = Seeing
  <2>1. Seeing[x] = NoNames
    BY <1>4, NothingListed
  <2>2. \A e \in Clusters : Seeing'[e] = Seeing[e]
    BY <1>5, <2>1, SeesNow, SeesThen DEF Sees
  <2>3. DOMAIN Seeing' = Clusters
    BY SeesThen DEF Sees
  <2> QED
    BY <2>2, <2>3 DEF Seeing
<1>10. Moving' = Moving
  BY <1>4, <1>6, MovingIs, MovingThen
<1> QED
  BY <1>7, <1>8, <1>9, <1>10, StandsStill DEF NInv

LEMMA SearchStands ==
    ASSUME IInv, IInv', NInv, Search
    PROVE  NInv' /\ Stands
<1>1. PICK d, named : /\ named.kind = op.kind /\ named.type = op.type /\ named.thing = op.thing /\ named \in OpType
                      /\ d = op.dir /\ named = IF op.kind = "rename" THEN op ELSE Named(op, Slots(d))
  BY SearchNames
<1>2. PICK s, found, p : s = Slots(d) /\ found = (Starts(s) # {}) /\ p = Place(d, Min(Starts(s)))
  OBVIOUS
<1>3. PICK c, q : /\ c = IF found THEN p[1] ELSE LastCluster(d)
                  /\ q = IF found THEN p ELSE NoPlace
  OBVIOUS
<1>4. /\ op' = [named EXCEPT !.at = "place", !.cluster = c, !.place = q]
      /\ fat' = fat /\ content' = content /\ op.at = "search"
  BY <1>1, <1>2, <1>3 DEF Search
<1>5. op'.at = "place" /\ op'.kind = op.kind /\ op'.type = op.type /\ op'.thing = op.thing
  BY <1>1, <1>4 DEF OpType
<1>6. op'.kind = "rename" /\ op'.type = "file" => op'.thing \in Data \cup {0}
  BY <1>5 DEF NInv, FilesHold
<1>7. Seeing' = Seeing /\ FilesHold'
  BY <1>4, <1>6, StillNames
<1>8. EntryNamed'
  BY <1>5, NoEntryNamed
<1>9. Moving' = Moving
  BY <1>4, <1>5, MovingIs, MovingThen
<1> QED
  BY <1>7, <1>8, <1>9, StandsStill DEF NInv

LEMMA ExtendStands ==
    ASSUME Roomy, IInv, IInv', NInv, Extend
    PROVE  NInv' /\ Stands
<1>1. op.at = "place" /\ op.place = NoPlace
  BY DEF Extend
<1>2. PICK d, s, n, p : PlaceAt(d, s, n, p)
  BY <1>1, PlaceNow
<1>3. /\ d \in Dirs /\ op.dir = d /\ s = Slots(d)
      /\ Len(s) \in Nat /\ Typed(s)
      /\ p = Len(s) + 1 /\ op.cluster = LastCluster(d) /\ op.left \in Nat
      /\ op \in OpType
  BY <1>1, <1>2 DEF PlaceAt
<1>4. HasRoom(Needed + 1)
  <2>1. p + op.left > Len(s)
    BY <1>3
  <2> QED
    BY <1>2, <2>1 DEF PlaceAt
<1>5. PICK lay : Layout(lay)
  BY DEF IInv, Laid
<1>6. PICK c \in FreeClusters : c = FindFree(op.cluster)
  BY <1>4, RoomFacts, FindFreeIs
<1>7. /\ fat' = [fat EXCEPT ![c] = Eoc, ![LastCluster(d)] = c]
      /\ content' = [content EXCEPT ![c] = EmptyCluster]
      /\ op' = [op EXCEPT !.place = <<c, 1>>, !.cluster = c]
  BY <1>3, <1>6 DEF Extend
<1>8. PICK t : t = Slots(d)'
  OBVIOUS
<1>9. /\ Dirs' = Dirs /\ Grown(Slots(d), Slots(d)') /\ \A e \in Dirs \ {d} : Slots(e)' = Slots(e)
  BY <1>3, <1>5, <1>7, ExtendStep
<1>10. Goes(d, s, t) /\ Grown(s, t)
  BY <1>3, <1>8, <1>9, LookNow, LookThen DEF Goes
<1>11. Same(s, t)
  BY <1>3, <1>10, GrownShows DEF Same
<1>12. op'.at = "place" /\ op'.kind = op.kind /\ op'.type = op.type /\ op'.thing = op.thing
  BY <1>1, <1>3, <1>7 DEF OpType
<1>13. Moving' = Moving
  BY <1>1, <1>12, MovingIs, MovingThen
<1>14. FilesHold'
  <2>1. \A i \in 1 .. Len(t) : t[i].type = "file" => i \in 1 .. Len(s) /\ t[i] = s[i]
    BY <1>3, <1>10, Constants, SlotFacts DEF Grown
  <2>2. op'.kind = "rename" /\ op'.type = "file" => op'.thing \in Data \cup {0}
    BY <1>12 DEF NInv, FilesHold
  <2> QED
    BY <1>10, <2>1, <2>2, FilesStay DEF NInv
<1>15. EntryNamed'
  BY <1>12, NoEntryNamed
<1> QED
  BY <1>10, <1>11, <1>13, <1>14, <1>15, SameStands DEF NInv

LEMMA PlaceChunkStands ==
    ASSUME Roomy, IInv, IInv', NInv, PlaceChunk
    PROVE  NInv' /\ Stands
<1>1. op.at = "place" /\ op.place # NoPlace /\ op.left > 0
  BY DEF PlaceChunk, AtFreeSlot
<1>2. PICK d, s, n, p : PlaceAt(d, s, n, p)
  BY <1>1, PlaceNow
<1>3. /\ d \in Dirs /\ op.dir = d /\ s = Slots(d) /\ op.name = n /\ n \in Names
      /\ p \in 1 .. Len(s) + 1 /\ Len(s) \in Nat
      /\ Typed(s) /\ Placing(s, p, n, op.left, op.key)
      /\ op.left \in Nat /\ op.left <= Chunks[n]
      /\ op \in OpType /\ op.key \in Keys
  BY <1>2 DEF PlaceAt, OpType
<1>4. PICK slot : slot = [Slot("chunk") EXCEPT !.name = n, !.number = op.left, !.key = op.key]
  OBVIOUS
<1>5. /\ fat' = fat /\ content' = Written(op.place, slot)
      /\ op' = [op EXCEPT !.left = op.left - 1, !.cluster = op.place[1], !.place = Following(op.place)]
  BY <1>3, <1>4 DEF PlaceChunk
<1>6. slot \in SlotType /\ slot.type = "chunk"
  <2>1. PICK left \in Nat, key \in Keys : left = op.left /\ key = op.key
    BY <1>3
  <2>2. left <= Chunks[n]
    BY <1>3, <2>1
  <2>3. slot = [Slot("chunk") EXCEPT !.name = n, !.number = left, !.key = key]
    BY <1>4, <2>1
  <2>4. n \in Names
    BY <1>3
  <2> QED
    BY <2>2, <2>3, <2>4, ChunkSlot
<1>7. PICK lay, t : PutAt(lay, d, s, n, p, slot, t)
  BY <1>1, <1>2, <1>5, <1>6, PutNow
<1>8. /\ OneDir(lay, d) /\ Slots(d)' = t /\ Put(s, t, p, slot)
      /\ p <= Len(s) /\ s[p] = FreeSlot
  BY <1>7 DEF PutAt
<1>9. Goes(d, s, t)
  BY <1>3, <1>8, LookNow, LookThen DEF Goes, OneDir, Steady
<1>10. Same(s, t)
  <2>1. p \in Nat /\ \A j \in 1 .. Len(s) : j >= p => s[j] = FreeSlot
    BY <1>3, PlacingBehind
  <2>2. ASSUME NEW m \in Names, NEW x \in Nat, x # p
        PROVE  /\ Shown(t, x, m) <=> Shown(s, x, m)
               /\ Shown(t, x, m) => t[x] = s[x]
    <3>1. Typed(s) /\ Put(s, t, p, slot)
      BY <1>3, <1>8
    <3> QED
      BY <2>1, <2>2, <3>1, PutShows
  <2>3. t[p].type = "chunk" /\ s[p].type = "free"
    BY <1>3, <1>6, <1>8, <2>1, SlotFacts DEF Put
  <2>4. \A m \in Names : ~Shown(t, p, m) /\ ~Shown(s, p, m)
    BY <2>3 DEF Shown, Shows, IsEntry, EntryTypes
  <2> QED
    BY <2>2, <2>4 DEF Same
<1>11. op'.at = "place" /\ op'.kind = op.kind /\ op'.type = op.type /\ op'.thing = op.thing
  BY <1>1, <1>3, <1>5 DEF OpType
<1>12. Moving' = Moving
  BY <1>1, <1>11, MovingIs, MovingThen
<1>13. FilesHold'
  <2>1. \A i \in 1 .. Len(t) : t[i].type = "file" => i \in 1 .. Len(s) /\ t[i] = s[i]
    BY <1>3, <1>6, <1>8 DEF Put
  <2>2. op'.kind = "rename" /\ op'.type = "file" => op'.thing \in Data \cup {0}
    BY <1>11 DEF NInv, FilesHold
  <2> QED
    BY <1>9, <2>1, <2>2, FilesStay DEF NInv
<1>14. EntryNamed'
  BY <1>11, NoEntryNamed
<1> QED
  BY <1>9, <1>10, <1>12, <1>13, <1>14, SameStands DEF NInv

LEMMA PlaceShortStands ==
    ASSUME Roomy, IInv, IInv', NInv, PlaceShort
    PROVE  NInv' /\ Stands
<1>1. op.at = "place" /\ op.place # NoPlace /\ op.left = 0
  BY DEF PlaceShort, AtFreeSlot
<1>2. PICK d, s, n, p : PlaceAt(d, s, n, p)
  BY <1>1, PlaceNow
<1>3. /\ d \in Dirs /\ op.dir = d /\ s = Slots(d) /\ op.name = n /\ n \in Names
      /\ p \in 1 .. Len(s) + 1 /\ Len(s) \in Nat
      /\ Typed(s) /\ Placing(s, p, n, 0, op.key) /\ op \in OpType
  BY <1>1, <1>2 DEF PlaceAt
<1>4. PICK type \in EntryTypes, key \in Keys : type = op.type /\ key = op.key
  BY <1>3 DEF OpType
<1>5. PICK slot : slot = [Slot(type) EXCEPT !.key = key]
  OBVIOUS
<1>6. /\ fat' = fat /\ content' = Written(op.place, slot)
      /\ op' = IF op.kind = "create" THEN NoOp ELSE [op EXCEPT !.at = "fill", !.entry = op.place]
  BY <1>4, <1>5 DEF PlaceShort
<1>7. slot \in SlotType /\ slot.type = type /\ slot.thing = 0 /\ slot.key = key
  <2>1. \A k \in EntryTypes, x \in Keys : LET y == [Slot(k) EXCEPT !.key = x] IN
           y \in SlotType /\ y.type = k /\ y.thing = 0 /\ y.key = x
    BY EntrySlot, ZenonT(60)
  <2> QED
    BY <1>5, <2>1
<1>8. PICK lay, t : PutAt(lay, d, s, n, p, slot, t)
  <2>1. slot.type \notin {"dot", "free"}
    BY <1>4, <1>7 DEF EntryTypes
  <2> QED
    BY <1>1, <1>2, <1>6, <1>7, <2>1, PutNow
<1>9. /\ Layout(lay) /\ OneDir(lay, d) /\ Slots(d)' = t /\ Put(s, t, p, slot)
      /\ p <= Len(s) /\ op.place = Place(d, p)
  BY <1>8 DEF PutAt
<1>10. /\ p \in 1 .. Len(s) /\ p \in Nat /\ Len(t) = Len(s) /\ t[p] = slot
       /\ \A i \in 1 .. Len(s) : i # p => t[i] = s[i]
  BY <1>3, <1>9 DEF Put
<1>11. Goes(d, s, t) /\ Place(d, p)' = Place(d, p) /\ d \in Dirs'
  BY <1>3, <1>9, <1>10, LookNow, LookThen DEF Goes, OneDir, Steady, SameDir
<1>12. /\ \A m \in Names : Shown(t, p, m) <=> m = n
       /\ \A m \in Names : ~Shown(s, p, m)
  <2>1. Placing(s, p, n, 0, key)
    BY <1>3, <1>4
  <2> QED
    <3>1. Typed(s) /\ n \in Names /\ p <= Len(s) /\ slot.type = type /\ slot.key = key /\ Put(s, t, p, slot)
      BY <1>3, <1>7, <1>9
    <3> QED
      BY <2>1, <3>1, EntryShows
<1>13. SameBut(s, t, p)
  <2>1. \A j \in 1 .. Len(s) : j >= p => s[j] = FreeSlot
    BY <1>3, PlacingFacts
  <2>2. ASSUME NEW m \in Names, NEW x \in Nat, x # p
        PROVE  /\ Shown(t, x, m) <=> Shown(s, x, m)
               /\ Shown(t, x, m) => t[x] = s[x]
    <3>1. Typed(s) /\ Put(s, t, p, slot) /\ p \in Nat
      BY <1>3, <1>9, <1>10
    <3> QED
      BY <2>1, <2>2, <3>1, PutShows
  <2> QED
    BY <2>2 DEF SameBut
<1>14. \A x \in Nat : ~Shown(s, x, n)
  <2> SUFFICES ASSUME NEW x \in Nat, Shown(s, x, n) PROVE FALSE
    OBVIOUS
  <2>1. x \in Ends(s) /\ Matches(s, x, n)
    BY ShownMatches DEF Shown, Shows, IsEntry, Ends, IsChunk, EntryTypes
  <2>2. x = p
    BY <1>3, <2>1, PlacingBehind
  <2> QED
    BY <1>3, <1>12, <2>2
<1>15. Becomes(d, n, 0)
  <2>1. \A m \in Names \ {n} : ~Shown(s, p, m) /\ ~Shown(t, p, m)
    BY <1>12
  <2>2. Shown(t, p, n) /\ t[p].thing = 0
    BY <1>3, <1>7, <1>10, <1>12
  <2>3. n \in Names /\ p \in Nat
    BY <1>3, <1>10
  <2> QED
    BY <1>11, <1>13, <2>1, <2>2, <2>3, NameBecomes
<1>16. Seeing[d][n] = None /\ d \in Clusters /\ n \in Names
  BY <1>3, <1>11, <1>14, SeenShown, GoesFacts
<1>17. /\ op.kind = "create" => op'.at = "idle" /\ op'.kind = "none"
       /\ op.kind # "create" => /\ op'.at = "fill" /\ op'.kind = op.kind /\ op'.type = op.type /\ op'.thing = op.thing
                                /\ op'.dir = d /\ op'.entry = op.place /\ op'.name = n
  BY <1>3, <1>6, OpFields DEF OpType
<1>18. Moving' = Moving
  BY <1>1, <1>17, MovingIs, MovingThen
<1>19. FilesHold'
  <2>1. \A i \in 1 .. Len(t) : t[i].type = "file" => t[i].thing \in Data \cup {0} \/ (i \in 1 .. Len(s) /\ t[i] = s[i])
    BY <1>7, <1>10
  <2>2. op'.kind = "rename" /\ op'.type = "file" => op'.thing \in Data \cup {0}
    BY <1>17 DEF NInv, FilesHold
  <2> QED
    BY <1>11, <2>1, <2>2, FilesStay DEF NInv
<1>20. EntryNamed'
  <2>1. CASE op.kind = "create"
    BY <1>17, <2>1, NoEntryNamed
  <2>2. CASE op.kind # "create"
    <3>1. op'.at = "fill" /\ op'.dir = d /\ op'.entry = Place(d, p)' /\ op'.name = n
      BY <1>9, <1>11, <1>17, <2>2
    <3>2. Shows(t, p, n)
      BY <1>3, <1>12 DEF Shown
    <3>3. Laid' /\ d \in Dirs' /\ p \in Nat /\ p \in 1 .. Len(t) /\ Slots(d)' = t
      BY <1>9, <1>10, <1>11 DEF IInv
    <3> QED
      BY <3>1, <3>2, <3>3, EntryNamedAt
  <2> QED
    BY <2>1, <2>2
<1> QED
  BY <1>15, <1>16, <1>18, <1>19, <1>20, StandsForBind DEF NInv

\* Writing the thing of an entry: the name it shows, if any, stands for it.
LEMMA ThingStep ==
    ASSUME NEW d, NEW s, NEW t, Goes(d, s, t), NEW e, NEW o, PutThing(s, t, e, o)
    PROVE  /\ \A n \in Names : Shown(t, e, n) <=> Shown(s, e, n)
           /\ \A n \in Names : Shown(s, e, n) => Becomes(d, n, o) /\ Seeing[d][n] = s[e].thing
           /\ (\A n \in Names : ~Shown(s, e, n)) => Same(s, t)
           /\ SameBut(s, t, e)
<1>1. Typed(s) /\ OneMatch(s) /\ Len(s) \in Nat
  BY GoesFacts, TypedFacts
<1>2. ASSUME NEW n \in Names, NEW x \in Nat
      PROVE  /\ Shown(t, x, n) <=> Shown(s, x, n)
             /\ x # e /\ Shown(t, x, n) => t[x] = s[x]
             /\ t[e].thing = o
  BY <1>1, <1>2, ThingShows
<1>3. e \in Nat
  BY <1>1 DEF PutThing
<1>4. SameBut(s, t, e)
  BY <1>2 DEF SameBut
<1>5. ASSUME NEW n \in Names, Shown(s, e, n)
      PROVE  Becomes(d, n, o) /\ Seeing[d][n] = s[e].thing
  <2>1. \A m \in Names \ {n} : ~Shown(s, e, m) /\ ~Shown(t, e, m)
    BY <1>2, <1>3, <1>5, ShowsOne DEF Shown
  <2>2. Shown(t, e, n) /\ t[e].thing = o
    BY <1>2, <1>3, <1>5
  <2>3. Becomes(d, n, o)
    BY <1>3, <1>4, <2>1, <2>2, NameBecomes
  <2> QED
    BY <1>3, <1>5, <2>3, SeenShown
<1>6. (\A n \in Names : ~Shown(s, e, n)) => Same(s, t)
  BY <1>2 DEF Same
<1> QED
  BY <1>2, <1>3, <1>4, <1>5, <1>6

LEMMA FillRenamedStands ==
    ASSUME Roomy, IInv, IInv', NInv, FillRenamed
    PROVE  NInv' /\ Stands
<1>1. op.at = "fill" /\ op.kind = "rename"
  BY DEF FillRenamed
<1>2. PICK d, s, e : FillAt(d, s, e)
  BY <1>1, FillNow
<1>3. /\ d \in Dirs /\ op.dir = d /\ s = Slots(d) /\ e \in 1 .. Len(s) /\ op.entry = Place(d, e)
      /\ s[e].type = op.type /\ s[e].thing = 0 /\ IsEntry(s, e)
      /\ Typed(s) /\ s[e] \in SlotType /\ SlotAt(op.entry) = s[e] /\ Len(s) \in Nat
  BY <1>2 DEF FillAt
<1>4. PICK x \in Things : x = op.thing
  BY DEF IInv, OpTyped, OpType
<1>5. PICK slot : slot = [s[e] EXCEPT !.thing = x]
  OBVIOUS
<1>6. fat' = fat /\ content' = Written(Place(d, e), slot) /\ op' = NoOp
  BY <1>3, <1>4, <1>5 DEF FillRenamed
<1>7. slot \in SlotType /\ slot.type = s[e].type /\ slot.thing = x
  BY <1>3, <1>5, ThingSlot
<1>8. PICK lay : Layout(lay)
  BY DEF IInv, Laid
<1>9. OneDir(lay, d) /\ \E t : Slots(d)' = t /\ Put(Slots(d), t, e, slot)
  <2>1. e \in 1 .. Len(Slots(d)) /\ Slots(d)[e].type # "dot" /\ slot.type # "dot"
    BY <1>3, <1>7 DEF IsEntry, EntryTypes
  <2> QED
    BY <1>3, <1>6, <1>7, <1>8, <2>1, WriteStep
<1>10. PICK t : Slots(d)' = t /\ Put(s, t, e, slot)
  BY <1>3, <1>9
<1>11. Goes(d, s, t)
  BY <1>3, <1>9, <1>10, LookNow, LookThen DEF Goes, OneDir, Steady
<1>12. PICK n \in Names : n = op.name
  BY <1>1 DEF IInv, OpSound
<1>13. Shown(s, e, n)
  BY <1>1, <1>3, <1>12 DEF NInv, EntryNamed, Shown
<1>14. Becomes(d, n, x) /\ Seeing[d][n] = 0
  <2>1. PutThing(s, t, e, x)
    BY <1>3, <1>5, <1>10 DEF PutThing
  <2> QED
    BY <1>3, <1>11, <1>13, <2>1, ThingStep
<1>15. op'.at = "idle" /\ op'.kind = "none"
  BY <1>6, OpFields
<1>16. Moving = x /\ x # None /\ Moving' = None /\ d \in Clusters
  BY <1>1, <1>4, <1>11, <1>15, MovingIs, MovingThen, NoneIsNothing, GoesFacts
<1>17. FilesHold'
  <2>1. \A i \in 1 .. Len(t) : t[i].type = "file" => t[i].thing \in Data \cup {0} \/ (i \in 1 .. Len(s) /\ t[i] = s[i])
    <3>1. slot.type = "file" => slot.thing \in Data \cup {0}
      BY <1>1, <1>3, <1>4, <1>7 DEF NInv, FilesHold
    <3> QED
      BY <1>10, <3>1 DEF Put
  <2> QED
    BY <1>11, <1>15, <2>1, FilesStay DEF NInv
<1>18. EntryNamed'
  BY <1>15, NoEntryNamed
<1> QED
  BY <1>14, <1>16, <1>17, <1>18, StandsForPutIn DEF NInv

LEMMA FillMadeStands ==
    ASSUME Roomy, IInv, IInv', NInv, FillMade
    PROVE  NInv' /\ Stands
<1>1. op.at = "fill" /\ op.kind = "mkdir"
  BY DEF FillMade
<1>2. PICK d, s, e : FillAt(d, s, e)
  BY <1>1, FillNow
<1>3. /\ d \in Dirs /\ op.dir = d /\ s = Slots(d) /\ e \in 1 .. Len(s) /\ op.entry = Place(d, e)
      /\ s[e].type = "directory" /\ s[e].thing = 0 /\ IsEntry(s, e) /\ HasRoom(1)
      /\ Typed(s) /\ s[e] \in SlotType /\ SlotAt(op.entry) = s[e] /\ Len(s) \in Nat
      /\ \A y \in Dirs : \A i \in 1 .. Len(Slots(y)) : Filling(y, i) => y = d /\ i = e
  BY <1>1, <1>2 DEF FillAt, IInv, OpSound, Needed
<1>4. PICK c \in FreeClusters : c = FindFree(0)
  BY <1>3, RoomFacts, FindFreeIs
<1>5. c # 0 /\ c \in Things
  BY <1>4, ClusterFacts DEF FreeClusters, Things
<1>6. PICK slot : slot = [s[e] EXCEPT !.thing = c]
  OBVIOUS
<1>7. /\ op' = NoOp /\ fat' = [fat EXCEPT ![c] = Eoc]
      /\ content' = [Written(Place(d, e), slot) EXCEPT ![c] = NewDirectory(c, d)]
  BY <1>3, <1>4, <1>5, <1>6 DEF FillMade
<1>8. slot \in SlotType /\ slot.type = "directory" /\ slot.thing = c
  BY <1>3, <1>5, <1>6, ThingSlot
<1>9. PICK lay : Layout(lay)
  BY DEF IInv, Laid
<1>10. /\ c \in Clusters \ Dirs /\ Dirs' = Dirs \cup {c}
       /\ Put(Slots(d), Slots(d)', e, slot)
       /\ \A y \in Dirs \ {d} : Slots(y)' = Slots(y)
       /\ Len(Slots(c)') = ClusterSlots
       /\ \A i \in 1 .. ClusterSlots : Slots(c)'[i] =
             IF i = 1 THEN Dot(0, c) ELSE IF i = 2 THEN Dot(1, d) ELSE FreeSlot
  <2>1. e \in 1 .. Len(Slots(d)) /\ Slots(d)[e].type # "dot" /\ slot.type # "dot" /\ MkdirSlots = ClusterSlots
    BY <1>3, <1>8 DEF Roomy
  <2>2. Made(d, e, slot, c)
    BY <1>3, <1>4, <1>7, <1>8, <1>9, <2>1, MadeStep
  <2> QED
    BY <2>2 DEF Made
<1>11. PICK t, u : t = Slots(d)' /\ u = Slots(c)'
  OBVIOUS
<1>12. /\ Typed(s) /\ OneMatch(s) /\ Typed(t) /\ OneMatch(t) /\ Typed(u) /\ OneMatch(u)
       /\ d \in Clusters /\ c \in Clusters /\ d # c
  BY <1>3, <1>10, <1>11, LookNow, LookThen DEF Lookable
<1>13. Put(s, t, e, slot) /\ e \in Nat
  BY <1>3, <1>10, <1>11
<1>14. \A i \in 1 .. Len(u) : u[i].type \in {"dot", "free"}
  <2>1. \A i \in 1 .. Len(u) : u[i] = IF i = 1 THEN Dot(0, c) ELSE IF i = 2 THEN Dot(1, d) ELSE FreeSlot
    BY <1>10, <1>11
  <2>2. Dot(0, c).type = "dot" /\ Dot(1, d).type = "dot" /\ FreeSlot.type = "free"
    BY SlotFacts DEF Dot, Slot
  <2> QED
    BY <2>1, <2>2
<1>15. ASSUME NEW n \in Names, NEW x \in Nat
       PROVE  /\ Shown(t, x, n) <=> Shown(s, x, n)
              /\ x # e /\ Shown(t, x, n) => t[x] = s[x]
              /\ t[e].thing = c
  <2>1. PutThing(s, t, e, c)
    BY <1>3, <1>6, <1>13 DEF PutThing
  <2> QED
    BY <1>12, <1>15, <2>1, ThingShows
<1>16. PICK n \in Names : n = op.name
  BY <1>1 DEF IInv, OpSound
<1>17. Shown(s, e, n)
  BY <1>1, <1>3, <1>16 DEF NInv, EntryNamed, Shown
<1>18. Listing(s)[n] = 0 /\ Listing(t)[n] = c
  BY <1>3, <1>12, <1>13, <1>15, <1>17, ListingIs
<1>19. \A m \in Names \ {n} : Listing(t)[m] = Listing(s)[m]
  <2> TAKE m \in Names \ {n}
  <2>1. ~Shown(s, e, m)
    BY <1>13, <1>17, ShowsOne DEF Shown
  <2>2. \A x \in Nat : /\ Shown(t, x, m) <=> Shown(s, x, m)
                       /\ Shown(t, x, m) => t[x].thing = s[x].thing
    BY <1>15, <2>1
  <2> QED
    BY <1>12, <2>2, ListedAlike
<1>20. Listing(u) = NoNames
  <2>1. \A m \in Names, x \in Nat : ~Shown(u, x, m)
    BY <1>14 DEF Shown, Shows, IsEntry, EntryTypes
  <2>2. \A m \in Names : Listing(u)[m] = None
    BY <1>12, <2>1, ListingIs
  <2> QED
    BY <2>2 DEF Listing, NoNames
<1>21. Seeing[c] = NoNames /\ Seeing[d] = Listing(s) /\ Seeing[d][n] = 0
  BY <1>3, <1>10, <1>12, <1>18, SeesNow DEF Sees
<1>22. Becomes(d, n, c)
  <2>1. Listing(t) = [Listing(s) EXCEPT ![n] = c]
    BY <1>18, <1>19 DEF Listing
  <2>2. Seeing'[d] = Listing(t) /\ Seeing'[c] = NoNames
    BY <1>3, <1>10, <1>11, <1>12, <1>20, SeesThen DEF Sees
  <2>3. \A y \in Clusters \ {d} : Seeing'[y] = Seeing[y]
    BY <1>10, <1>21, <2>2, SeesNow, SeesThen DEF Sees
  <2>4. DOMAIN Seeing' = Clusters
    BY SeesThen DEF Sees
  <2> QED
    BY <1>12, <1>21, <2>1, <2>2, <2>3, <2>4 DEF Seeing, Becomes
<1>23. \A y \in Clusters, m \in Names : Seeing[y][m] # c
  <2> SUFFICES ASSUME NEW y \in Clusters, NEW m \in Names, Seeing[y][m] = c PROVE FALSE
    OBVIOUS
  <2>1. c # None
    BY <1>5, NoneIsNothing
  <2>2. y \in Dirs /\ Seeing[y] = Listing(Slots(y))
    BY <2>1, SeesNow DEF Sees, NoNames
  <2>3. PICK v : v = Slots(y)
    OBVIOUS
  <2>4. Typed(v) /\ OneMatch(v)
    BY <2>2, <2>3, LookNow DEF Lookable
  <2>5. PICK x \in Nat : Shown(v, x, m)
    BY <2>1, <2>2, <2>3, <2>4, ListingIs
  <2>6. v[x].thing = c
    BY <2>2, <2>3, <2>4, <2>5, ListingIs
  <2>7. x \in 1 .. Len(v) /\ v[x].type \in {"file", "directory"}
    BY <2>5 DEF Shown, Shows, IsEntry, EntryTypes
  <2>8. v[x].type # "file"
    <3> SUFFICES ASSUME v[x].type = "file" PROVE FALSE
      OBVIOUS
    <3>1. c \in Data \cup {0}
      BY <2>2, <2>3, <2>6, <2>7 DEF NInv, FilesHold
    <3> QED
      BY <1>5, <1>12, <3>1, NoneIsNothing
  <2>9. ~Filling(y, x)
    <3> SUFFICES ASSUME Filling(y, x) PROVE FALSE
      OBVIOUS
    <3>1. y = d /\ x = e
      BY <1>3, <2>2, <2>3, <2>7
    <3> QED
      BY <1>3, <1>5, <2>3, <2>6, <3>1
  <2>10. c \in Dirs
    BY <2>2, <2>3, <2>6, <2>7, <2>8, <2>9 DEF IInv, Tree
  <2> QED
    BY <1>10, <2>10
<1>24. op'.at = "idle" /\ op'.kind = "none"
  BY <1>7, OpFields
<1>25. Moving' = Moving
  BY <1>1, <1>24, MovingIs, MovingThen
<1>26. c # Root
  BY <1>9, <1>10, ClusterFacts DEF Dirs, IsDirectory
<1>27. Stands
  BY <1>12, <1>21, <1>22, <1>23, <1>25, <1>26, StandsForMakeDirectory
<1>28. FilesHold'
  <2>1. ASSUME NEW y \in Dirs', NEW i \in 1 .. Len(Slots(y)'), Slots(y)'[i].type = "file"
        PROVE  Slots(y)'[i].thing \in Data \cup {0}
    <3>1. CASE y = c
      BY <1>11, <1>14, <2>1, <3>1
    <3>2. CASE y = d
      <4>1. i \in 1 .. Len(s) /\ t[i] = s[i]
        BY <1>8, <1>11, <1>13, <2>1, <3>2 DEF Put
      <4> QED
        BY <1>3, <1>11, <2>1, <3>2, <4>1 DEF NInv, FilesHold
    <3>3. CASE y # c /\ y # d
      BY <1>10, <2>1, <3>3 DEF NInv, FilesHold
    <3> QED
      BY <3>1, <3>2, <3>3
  <2> QED
    BY <1>24, <2>1 DEF FilesHold
<1>29. EntryNamed'
  BY <1>24, NoEntryNamed
<1> QED
  BY <1>27, <1>28, <1>29 DEF NInv

\* What a rename has taken out is lost when the process dies.
LEMMA CrashStands ==
    ASSUME IInv, IInv', NInv, Crash
    PROVE  NInv' /\ Stands
<1>1. op' = NoOp /\ fat' = fat /\ content' = content
  BY DEF Crash
<1>2. op'.at = "idle" /\ op'.kind = "none"
  BY <1>1, OpFields
<1>3. Seeing' = Seeing /\ FilesHold' /\ EntryNamed'
  BY <1>1, <1>2, StillNames, NoEntryNamed
<1>4. Moving' = None
  BY <1>2, MovingThen
<1>5. Stands
  BY <1>3, <1>4, StandsStill, StandsForCrash
<1> QED
  BY <1>3, <1>5 DEF NInv

-----------------------------------------------------------------------------
(***************************************************************************)
(* How a call begins                                                       *)
(***************************************************************************)

LEMMA BeginStands ==
    ASSUME IInv, IInv', NInv, Idle, fat' = fat, content' = content, op'.at \in {"wipe", "search"},
           op'.kind # "rename"
    PROVE  NInv' /\ Stands
<1>1. Seeing' = Seeing /\ FilesHold'
  BY StillNames
<1>2. EntryNamed'
  BY DEF EntryNamed
<1>3. op.kind # "rename"
  BY DEF Idle, IInv, OpSound
<1>4. Moving' = Moving
  BY <1>3, MovingIs, MovingThen
<1> QED
  BY <1>1, <1>2, <1>4, StandsStill DEF NInv

LEMMA CallStands ==
    ASSUME IInv, IInv', NInv, NEW d \in Dirs, NEW n \in Names,
           Create(d, n) \/ Unlink(d, n) \/ Mkdir(d, n) \/ Rmdir(d, n)
    PROVE  NInv' /\ Stands
<1>1. Idle /\ fat' = fat /\ content' = content
  BY DEF Create, Unlink, Mkdir, Rmdir
<1>2. op'.at \in {"wipe", "search"} /\ op'.kind # "rename"
  <2>1. CASE Create(d, n)
    BY <2>1 DEF Create, Call, NoOp, Wiping, Searching
  <2>2. CASE Unlink(d, n)
    BY <2>2 DEF Unlink, Call, NoOp, Wiping
  <2>3. CASE Mkdir(d, n)
    BY <2>3 DEF Mkdir, Call, NoOp, Searching
  <2>4. CASE Rmdir(d, n)
    BY <2>4 DEF Rmdir, Call, NoOp, Wiping
  <2> QED
    BY <2>1, <2>2, <2>3, <2>4
<1> QED
  BY <1>1, <1>2, BeginStands

LEMMA RenameStands ==
    ASSUME IInv, IInv', NInv, NEW d \in Dirs, NEW n \in Names, NEW m \in Names, Rename(d, n, m)
    PROVE  NInv' /\ Stands
<1>1. PICK s, e, key : Renames(d, n, m, s, e, key)
  BY RenameDoes
<1>2. /\ s = Slots(d) /\ e = Find(s, n) /\ e # 0
      /\ op'.at = "wipe" /\ op'.entry = Place(d, e)
      /\ op'.kind = "rename" /\ op'.dir = d /\ op'.type = s[e].type /\ op'.thing = s[e].thing
  BY <1>1 DEF Renames
<1>3. Idle /\ fat' = fat /\ content' = content /\ Stat(s, n) # 0
  BY <1>2 DEF Rename
<1>4. Typed(s) /\ OneMatch(s)
  BY <1>2, LookNow DEF Lookable
<1>5. e \in Ends(s) /\ Shows(s, e, n)
  BY <1>2, <1>3, <1>4, StatIsFind, FindFacts
<1>6. e \in Nat /\ e \in 1 .. Len(s)
  BY <1>4, <1>5, EndsFacts
<1>7. op'.type = "file" => op'.thing \in Data \cup {0}
  BY <1>2, <1>6 DEF NInv, FilesHold
<1>8. /\ Seeing' = Seeing /\ FilesHold' /\ Dirs' = Dirs
      /\ \A y \in Dirs : Slots(y)' = Slots(y) /\ SameDir(y)
  BY <1>3, <1>7, StillNames
<1>9. Place(d, e)' = Place(d, e) /\ Slots(d)' = s
  BY <1>2, <1>6, <1>8 DEF SameDir
<1>10. EntryNamed'
  <2>1. op'.dir = d /\ op'.entry = Place(d, e)' /\ Laid' /\ d \in Dirs'
    BY <1>2, <1>8, <1>9 DEF IInv
  <2> QED
    BY <1>2, <1>5, <1>6, <1>9, <2>1, EntryNamedAt
<1>11. Moving' = Moving
  BY <1>2, <1>3, MovingIs, MovingThen DEF Idle
<1> QED
  BY <1>8, <1>10, <1>11, StandsStill DEF NInv

LEMMA UpdateStands ==
    ASSUME IInv, IInv', NInv, NEW d \in Dirs, NEW n \in Names, NEW o \in Data, Update(d, n, o)
    PROVE  NInv' /\ Stands
<1>1. PICK s, e, slot : s = Slots(d) /\ e = Find(s, n) /\ slot = [s[e] EXCEPT !.thing = o]
  OBVIOUS
<1>2. /\ Idle /\ fat' = fat /\ op' = op
      /\ e # 0 /\ s[e].type = "file"
      /\ content' = Written(Place(d, e), slot)
  BY <1>1 DEF Update
<1>3. PICK lay : Layout(lay)
  BY DEF IInv, Laid
<1>4. Find(Slots(d), n) # 0
  BY <1>1, <1>2
<1>5. e \in 1 .. Len(s) /\ e \in Ends(s)
  BY <1>1, <1>2, <1>4, Found
<1>6. s[e] \in SlotType
  BY <1>1, <1>2, <1>5, FoundSlot
<1>7. slot \in SlotType /\ slot.type = "file" /\ slot.thing = o
  <2>1. o \in Things
    BY DEF Things
  <2> QED
    BY <1>1, <1>2, <1>6, <2>1, ThingSlot
<1>8. OneDir(lay, d) /\ \E t : Slots(d)' = t /\ Put(Slots(d), t, e, slot)
  <2>1. e \in 1 .. Len(Slots(d)) /\ Slots(d)[e].type # "dot" /\ slot.type # "dot"
    BY <1>1, <1>2, <1>5, <1>7
  <2> QED
    BY <1>2, <1>3, <1>7, <2>1, WriteStep
<1>9. PICK t : Slots(d)' = t /\ Put(s, t, e, slot)
  BY <1>1, <1>8
<1>10. Goes(d, s, t)
  BY <1>1, <1>8, <1>9, LookNow, LookThen DEF Goes, OneDir, Steady
<1>11. PutThing(s, t, e, o)
  BY <1>1, <1>2, <1>5, <1>9 DEF PutThing, IsEntry, EntryTypes
<1>12. s[e].thing \in Data \cup {0}
  BY <1>1, <1>2, <1>5 DEF NInv, FilesHold
<1>13. op.at = "idle" /\ op.kind = "none"
  BY <1>2 DEF Idle, IInv, OpSound
<1>14. Moving' = Moving
  BY <1>2, <1>13, MovingIs, MovingThen
<1>15. Stands
  <2>1. ASSUME NEW m \in Names, Shown(s, e, m) PROVE Stands
    <3>1. Becomes(d, m, o) /\ Seeing[d][m] = s[e].thing
      BY <1>10, <1>11, <2>1, ThingStep
    <3>2. d \in Clusters /\ Seeing[d][m] \in Data \cup {0}
      BY <1>10, <1>12, <3>1, GoesFacts
    <3> QED
      BY <1>14, <3>1, <3>2, StandsForUpdate
  <2>2. CASE \A m \in Names : ~Shown(s, e, m)
    BY <1>10, <1>11, <1>14, <2>2, ThingStep, SameStands
  <2> QED
    BY <2>1, <2>2
<1>16. FilesHold'
  <2>1. \A i \in 1 .. Len(t) : t[i].type = "file" => t[i].thing \in Data \cup {0} \/ (i \in 1 .. Len(s) /\ t[i] = s[i])
    BY <1>7, <1>9 DEF Put
  <2> QED
    BY <1>2, <1>10, <1>13, <2>1, FilesStay DEF NInv
<1>17. EntryNamed'
  BY <1>2, <1>13, NoEntryNamed
<1> QED
  BY <1>15, <1>16, <1>17 DEF NInv

LEMMA StutterStands ==
    ASSUME IInv, IInv', NInv, UNCHANGED vars
    PROVE  NInv' /\ Stands
<1>1. fat' = fat /\ content' = content /\ op' = op
  BY DEF vars
<1>2. op'.kind = "rename" /\ op'.type = "file" => op'.thing \in Data \cup {0}
  BY <1>1 DEF NInv, FilesHold
<1>3. /\ Seeing' = Seeing /\ FilesHold' /\ Dirs' = Dirs
      /\ \A y \in Dirs : Slots(y)' = Slots(y) /\ SameDir(y)
  BY <1>1, <1>2, StillNames
<1>4. EntryNamed'
  <2> SUFFICES ASSUME NEW d \in Dirs, NEW e \in 1 .. Len(Slots(d)), d = op.dir, op.entry = Place(d, e)'
               PROVE  /\ op.at = "wipe" /\ op.kind = "rename" => \E n \in Names : Shows(Slots(d)', e, n)
                      /\ op.at = "wiping" => \A n \in Names : ~Shows(Slots(d)', e, n)
                      /\ op.at = "fill" => Shows(Slots(d)', e, op.name)
    BY <1>1, <1>3 DEF EntryNamed
  <2>1. op.entry = Place(d, e) /\ Slots(d)' = Slots(d)
    BY <1>3 DEF SameDir
  <2> QED
    BY <2>1 DEF NInv, EntryNamed
<1>5. Moving' = Moving
  BY <1>1 DEF Moving
<1> QED
  BY <1>3, <1>4, <1>5, StandsStill DEF NInv

-----------------------------------------------------------------------------
LEMMA NextStands ==
    ASSUME Roomy, IInv, IInv', NInv, [Next]_vars
    PROVE  NInv' /\ Stands
<1>1. ASSUME Begins PROVE NInv' /\ Stands
  <2>1. PICK d \in Dirs, n \in Names :
        \/ Create(d, n) \/ Unlink(d, n) \/ Mkdir(d, n) \/ Rmdir(d, n)
        \/ \E m \in Names \ {n} : Rename(d, n, m)
        \/ \E o \in Data : Update(d, n, o)
    BY <1>1 DEF Begins
  <2>2. ASSUME NEW m \in Names \ {n}, Rename(d, n, m) PROVE NInv' /\ Stands
    <3>1. m \in Names
      OBVIOUS
    <3> QED
      BY <2>2, <3>1, RenameStands
  <2>3. ASSUME NEW o \in Data, Update(d, n, o) PROVE NInv' /\ Stands
    BY <2>3, UpdateStands
  <2> QED
    BY <2>1, <2>2, <2>3, CallStands
<1>2. ASSUME Step PROVE NInv' /\ Stands
  BY <1>2, WipeStands, ReleaseStands, SearchStands, ExtendStands, PlaceChunkStands, PlaceShortStands,
     FillRenamedStands, FillMadeStands DEF Step
<1> QED
  BY <1>1, <1>2, CrashStands, StutterStands DEF Next

LEMMA InitStands ==
    ASSUME Init
    PROVE  NInv /\ NS!Init
<1>1. /\ Dirs = {Root} /\ content[Root] = EmptyCluster /\ op = NoOp /\ IInv
  BY FirstCard, InitHolds DEF Init
<1>2. PICK lay : Layout(lay)
  BY <1>1 DEF IInv, Laid
<1>3. Root \in Dirs /\ op.kind = "none" /\ op.at = "idle"
  BY <1>1, OpFields
<1>4. PICK s : s = Slots(Root)
  OBVIOUS
<1>5. \A i \in 1 .. Len(s) : s[i] = FreeSlot
  <2> TAKE i \in 1 .. Len(s)
  <2>1. SlotAt(Place(Root, i)) = s[i] /\ Place(Root, i)[1] \in Chain(Root) /\ Place(Root, i)[2] \in 1 .. ClusterSlots
    BY <1>2, <1>3, <1>4, PlacesNow DEF Places, Placed
  <2>2. Chain(Root) = {Root}
    <3>1. fat[Root] = Eoc
      BY FirstCard
    <3>2. /\ Seen(lay, Root) /\ lay[Root] \in Seq(Clusters) /\ lay[Root][1] = Root /\ Linked(fat, lay[Root])
      BY <1>2, <1>3, ViewNow, LaidChain DEF View, Layout
    <3>3. PICK q : q = lay[Root]
      OBVIOUS
    <3>4. /\ Len(q) \in Nat \ {0} /\ q[1] = Root /\ (\A k \in 1 .. Len(q) : q[k] \in Clusters)
          /\ Chain(Root) = {q[k] : k \in 1 .. Len(q)}
      BY <3>2, <3>3 DEF Seen
    <3>5. Len(q) = 1
      <4> SUFFICES ASSUME Len(q) # 1 PROVE FALSE
        OBVIOUS
      <4>1. 1 \in 1 .. Len(q) /\ 2 \in 1 .. Len(q)
        <5>1. PICK l \in Nat \ {0} : l = Len(q)
          BY <3>4
        <5>2. 1 \in 1 .. l /\ (l # 1 => 2 \in 1 .. l)
          OBVIOUS
        <5> QED
          BY <5>1, <5>2
      <4>2. fat[q[1]] = q[2] /\ q[2] \in Clusters
        BY <3>2, <3>3, <3>4, <4>1 DEF Linked
      <4> QED
        BY <3>1, <3>4, <4>2, ClusterFacts
    <3> QED
      BY <3>4, <3>5
  <2> QED
    BY <1>1, <2>1, <2>2 DEF SlotAt, EmptyCluster
<1>6. NInv
  BY <1>1, <1>3, <1>4, <1>5, SlotFacts DEF NInv, FilesHold, EntryNamed
<1>7. Seeing = [d \in Clusters |-> NoNames]
  <2>1. ListsNothing(Root)
    BY <1>4, <1>5, SlotFacts DEF ListsNothing, Ends, IsEntry, EntryTypes
  <2>2. Seeing[Root] = NoNames
    BY <1>1, <1>3, <2>1, NothingListed
  <2>3. \A d \in Clusters : Seeing[d] = NoNames
    BY <1>1, <2>2, SeesNow DEF Sees
  <2> QED
    BY <2>3, SeesNow DEF Sees, Seeing
<1>8. Moving = None
  BY <1>3 DEF Moving
<1> QED
  BY <1>6, <1>7, <1>8 DEF NS!Init, Seeing, NoNames

\* The theorem: whatever slots of whatever clusters the calls wipe and fill, in
\* however many steps, and wherever the process dies, the names of the card are
\* those of NameSpace.
THEOREM ThingsStayNamed == ASSUME Roomy PROVE Spec => ImplementsNameSpace
<1>1. IInv /\ NInv /\ IInv' /\ [Next]_vars => NInv' /\ Stands
  BY NextStands
<1>2. Init => NInv /\ NS!Init
  BY InitStands
<1>3. Spec => []IInv
  BY Inductive
<1> QED
  BY <1>1, <1>2, <1>3, PTL DEF Spec, ImplementsNameSpace, NS!Spec, Stands
=============================================================================
