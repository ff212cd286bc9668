--------------------------- MODULE DirCacheProofs ---------------------------
(***************************************************************************)
(* The directory cache for any number of threads, directories and slots:   *)
(* no stat gets a listing past its lifetime, and no refresh swallows an    *)
(* invalidation.                                                           *)
(*                                                                         *)
(* Both rest on s_cache_mutex: while a thread refreshes a slot nobody else *)
(* touches the slots, and no invalidation completes before the listing     *)
(* that is being fetched is either there or thrown away.                   *)
(***************************************************************************)
EXTENDS DirCache, FiniteSetTheorems, SequenceTheorems, WellFoundedInduction, TLAPS

Places == {"idle", "lookup", "stat", "refresh", "list", "listing", "listed", "emit",
           "change", "invalidate", "partition", "count", "return"}
Calls == [dir : Dirs, now : 0 .. MaxTime, slot : SlotIds, left : 0 .. 2, made : Versions]
Sights == [dir : Dirs \cup {NoDir}, version : Versions \cup {Unlisted}, fetched : 0 .. MaxTime]
SlotRecords == [valid : BOOLEAN, path : Dirs \cup {NoDir}, listing : Versions \cup {Unlisted},
                updated : 0 .. MaxTime, fetched : 0 .. MaxTime]

\* A call has read something of the cache only where it is about to return it.
SeenSound ==
    /\ seen \in [Threads -> Seq(Sights)]
    /\ \A t \in Threads :
          /\ pc[t] \notin {"emit", "return"} => seen[t] = <<>>
          /\ pc[t] = "emit" => Len(seen[t]) <= 1

\* The places of a call at which it holds s_cache_mutex.
Refreshing == {"list", "listing", "listed"}

LocksHeld ==
    \A t \in Threads :
        /\ cacheLock = t <=> pc[t] \in Refreshing
        /\ ftpLock = t <=> pc[t] = "listing"

\* The slot that is being refreshed is not valid, and what has been listed is no
\* older than the last invalidation that is complete.
RefreshSound ==
    \A t \in Threads : pc[t] \in Refreshing =>
        LET s == slots[call[t].slot] IN
        /\ ~s.valid /\ s.path = call[t].dir
        /\ pc[t] = "listed" =>
              /\ call[t].now <= s.fetched
              /\ s.listing # Unlisted => s.listing >= settled[s.path]

\* Readings of the clock, and versions that calls have made, lie in the past.
PastSound ==
    /\ \A t \in Threads : call[t].now <= time /\ call[t].made <= remote[call[t].dir]
    /\ \A d \in Dirs : settled[d] <= remote[d]

\* A listing is stamped with a time before it was fetched.
StampSound ==
    \A i \in SlotIds : slots[i].valid =>
        slots[i].path \in Dirs /\ slots[i].updated <= slots[i].fetched

\* The inductive invariant.
IInv ==
    /\ TypeOK
    /\ SeenSound
    /\ LocksHeld
    /\ RefreshSound
    /\ PastSound
    /\ StampSound
    /\ StatWithinTTL
    /\ NoLostInvalidation

-----------------------------------------------------------------------------
\* A set of naturals has a least element.
LEMMA LeastElement ==
    ASSUME NEW S, S \subseteq Nat, S # {}
    PROVE  Min(S) \in S /\ \A n \in S : Min(S) <= n
<1> DEFINE less == {p \in Nat \X Nat : p[1] < p[2]}
<1>1. IsWellFoundedOn(less, Nat)
  BY NatLessThanWellFounded DEF OpToRel
<1>2. PICK m \in S : \A n \in S : <<n, m>> \notin less
  BY <1>1, WFMin
<1>3. ASSUME NEW n \in S PROVE m <= n
  <2>1. m \in Nat /\ n \in Nat /\ <<n, m>> \notin less
    BY <1>2
  <2>2. ~(n < m)
    BY <2>1
  <2> QED
    BY <2>1, <2>2
<1> QED
  BY <1>3 DEF Min

\* get_cache_slot() always finds a slot.
LEMMA SlotForIsSlot ==
    ASSUME TypeOK, NEW d
    PROVE  SlotFor(d) \in SlotIds
<1> DEFINE stamps == {slots[i].updated : i \in SlotIds}
           oldest == {i \in SlotIds : \A j \in SlotIds : slots[i].updated <= slots[j].updated}
<1>1. SlotIds # {} /\ SlotIds \subseteq Nat
  BY DirCacheAssumption DEF SlotIds
<1>2. \A i \in SlotIds : slots[i].updated \in Nat
  BY DirCacheAssumption DEF TypeOK
<1>3. oldest # {}
  <2>1. stamps # {} /\ stamps \subseteq Nat
    BY <1>1, <1>2
  <2>2. PICK i \in SlotIds : slots[i].updated = Min(stamps)
    BY <2>1, LeastElement
  <2>3. \A j \in SlotIds : slots[i].updated <= slots[j].updated
    BY <2>1, <2>2, LeastElement
  <2> QED
    BY <2>3
<1>4. oldest \subseteq Nat /\ oldest \subseteq SlotIds
  BY <1>1
<1> DEFINE usable == Holding(d) \cup {i \in SlotIds : ~slots[i].valid}
<1>5. usable \subseteq Nat /\ usable \subseteq SlotIds
  BY <1>1 DEF Holding
<1>6. SlotFor(d) = Min(IF usable # {} THEN usable ELSE oldest)
  BY DEF SlotFor
<1> HIDE DEF usable, oldest
<1> QED
  BY <1>3, <1>4, <1>5, <1>6, LeastElement

\* The first slot that holds a directory is one that does.
LEMMA FirstHolding ==
    ASSUME NEW d, Holding(d) # {}
    PROVE  Min(Holding(d)) \in Holding(d) /\ Min(Holding(d)) \in SlotIds
<1>1. Holding(d) \subseteq SlotIds /\ Holding(d) \subseteq Nat
  BY DirCacheAssumption DEF Holding, SlotIds
<1> QED
  BY <1>1, LeastElement

\* A set of slots with at most one element has no two.
LEMMA NoTwo ==
    ASSUME NEW S, S \subseteq SlotIds, ~(Cardinality(S) > 1), NEW i \in S, NEW j \in S
    PROVE  i = j
<1> SUFFICES ASSUME i # j PROVE FALSE
  OBVIOUS
<1>1. IsFiniteSet(SlotIds)
  BY FS_Interval, DirCacheAssumption DEF SlotIds
<1>2. IsFiniteSet(S)
  BY <1>1, FS_Subset
<1>3. IsFiniteSet({i}) /\ Cardinality({i}) = 1
  BY FS_Singleton
<1>4. IsFiniteSet({i} \cup {j}) /\ Cardinality({i} \cup {j}) = 2
  BY <1>3, FS_AddElement
<1>5. Cardinality({i} \cup {j}) <= Cardinality(S)
  BY <1>2, FS_Subset, {i} \cup {j} \in SUBSET S
<1>6. Cardinality(S) \in Nat
  BY <1>2, FS_CardinalityType
<1> QED
  BY <1>4, <1>5, <1>6

LEMMA InitIInv == Init => IInv
<1> SUFFICES ASSUME Init PROVE IInv
  OBVIOUS
<1> USE DirCacheAssumption DEF Init
<1>1. /\ 1 \in SlotIds /\ 0 \in 0 .. MaxTime /\ 0 \in Versions
      /\ Unlisted \in Versions \cup {Unlisted}
  BY DEF SlotIds, Versions
<1>2. TypeOK
  BY <1>1 DEF TypeOK, EmptySlot, NoCall
<1>3. SeenSound
  BY DEF SeenSound
<1>4. LocksHeld
  BY DEF LocksHeld, Refreshing
<1>5. RefreshSound
  BY DEF RefreshSound, Refreshing
<1>6. PastSound
  BY DEF PastSound, NoCall
<1>7. StampSound /\ NoLostInvalidation
  BY DEF StampSound, NoLostInvalidation, EmptySlot
<1>8. StatWithinTTL
  BY DEF StatWithinTTL
<1> QED
  BY <1>2, <1>3, <1>4, <1>5, <1>6, <1>7, <1>8 DEF IInv

-----------------------------------------------------------------------------
(***************************************************************************)
(* Every step keeps the invariant.                                         *)
(***************************************************************************)

\* A thread goes from one place where it holds no lock to another, and the card
\* may get newer.
Moves(t, w, c, q) ==
    /\ pc[t] \notin Refreshing /\ w \in Places \ Refreshing
    /\ c \in Calls /\ q \in Seq(Sights)
    /\ pc' = [pc EXCEPT ![t] = w]
    /\ call' = [call EXCEPT ![t] = c]
    /\ seen' = [seen EXCEPT ![t] = q]
    /\ calls' \in 0 .. MaxCalls
    /\ w \notin {"emit", "return"} => q = <<>>
    /\ w = "emit" => Len(q) <= 1
    /\ w = "return" => Len(q) <= 2 /\ (Len(q) = 1 => c.now < q[1].fetched + TTL)
    /\ remote' \in [Dirs -> Versions] /\ \A d \in Dirs : remote[d] <= remote'[d]
    /\ c.now <= time /\ c.made <= remote'[c.dir]
    /\ UNCHANGED <<time, slots, cacheLock, ftpLock, settled, shadowed>>

LEMMA MovesKeepsIInv ==
    ASSUME IInv, NEW t \in Threads, NEW w, NEW c, NEW q, Moves(t, w, c, q)
    PROVE  IInv'
<1> USE DEF IInv, Moves
<1>1. q \in Seq(Sights) /\ Len(q) \in Nat /\ Len(q) <= 2
  BY EmptySeq, LenProperties
<1>2. /\ pc' \in [Threads -> Places] /\ call' \in [Threads -> Calls]
      /\ seen' \in [Threads -> Seq(Sights)]
  BY DEF TypeOK, Places, Calls, SeenSound
<1>3. \A u \in Threads : Len(seen'[u]) <= 2
  BY <1>1 DEF TypeOK, SeenSound
<1>4. TypeOK'
  BY <1>2, <1>3 DEF TypeOK, Places, Calls
<1>5. SeenSound'
  BY <1>2 DEF TypeOK, SeenSound, Places
<1>6. LocksHeld'
  BY DEF TypeOK, LocksHeld, Refreshing, Places
<1>7. RefreshSound'
  <2> SUFFICES ASSUME NEW u \in Threads, pc'[u] \in Refreshing
               PROVE  /\ u # t /\ pc'[u] = pc[u] /\ call'[u] = call[u]
    BY DEF RefreshSound
  <2> QED
    BY DEF TypeOK, Refreshing, Places
<1>8. PastSound'
  <2>1. \A d \in Dirs : remote[d] \in Nat /\ remote'[d] \in Nat /\ settled[d] \in Nat
    BY DEF TypeOK, Versions
  <2>2. ASSUME NEW u \in Threads
        PROVE  call'[u].now <= time /\ call'[u].made <= remote'[call'[u].dir]
    <3>1. CASE u = t
      BY <3>1 DEF TypeOK
    <3>2. CASE u # t
      <4>1. /\ call'[u] = call[u] /\ call[u].dir \in Dirs /\ call[u].made \in Nat
            /\ call[u].now <= time /\ call[u].made <= remote[call[u].dir]
        BY <3>2 DEF TypeOK, PastSound, Versions
      <4>2. remote[call[u].dir] <= remote'[call[u].dir]
        BY <4>1
      <4> QED
        BY <2>1, <4>1, <4>2
    <3> QED
      BY <3>1, <3>2
  <2>3. \A d \in Dirs : settled[d] <= remote'[d]
    BY <2>1 DEF PastSound
  <2> QED
    BY <2>2, <2>3 DEF PastSound
<1>9. StampSound' /\ NoLostInvalidation'
  BY DEF StampSound, NoLostInvalidation
<1>10. StatWithinTTL'
  BY DEF TypeOK, StatWithinTTL, SeenSound
<1> QED
  BY <1>4, <1>5, <1>6, <1>7, <1>8, <1>9, <1>10

\* What is known of a call that leaves the locks alone.
LEMMA CallKept ==
    ASSUME IInv, NEW t \in Threads
    PROVE  /\ call[t] \in Calls /\ seen[t] \in Seq(Sights) /\ pc[t] \in Places
           /\ call[t].now <= time /\ call[t].made <= remote[call[t].dir]
           /\ call = [call EXCEPT ![t] = call[t]]
           /\ seen = [seen EXCEPT ![t] = seen[t]]
           /\ pc = [pc EXCEPT ![t] = pc[t]]
           /\ calls \in 0 .. MaxCalls
           /\ <<>> \in Seq(Sights) /\ Len(<<>>) = 0
           /\ remote \in [Dirs -> Versions] /\ \A d \in Dirs : remote[d] <= remote[d]
<1>1. \A d \in Dirs : remote[d] \in Nat
  BY DEF IInv, TypeOK, Versions
<1>2. remote \in [Dirs -> Versions] /\ \A d \in Dirs : remote[d] <= remote[d]
  BY <1>1 DEF IInv, TypeOK
<1>3. <<>> \in Seq(Sights) /\ Len(<<>>) = 0
  BY EmptySeq
<1>4. /\ call[t] \in Calls /\ seen[t] \in Seq(Sights) /\ pc[t] \in Places
      /\ call = [call EXCEPT ![t] = call[t]]
      /\ seen = [seen EXCEPT ![t] = seen[t]]
      /\ pc = [pc EXCEPT ![t] = pc[t]]
      /\ calls \in 0 .. MaxCalls
  BY DEF IInv, TypeOK, SeenSound, Calls, Places
<1>5. call[t].now <= time /\ call[t].made <= remote[call[t].dir]
  BY DEF IInv, PastSound
<1> QED
  BY <1>2, <1>3, <1>4, <1>5

LEMMA BeginKeepsIInv ==
    ASSUME IInv, NEW t \in Threads, NEW d \in Dirs, NEW w \in Places \ (Refreshing \cup {"return"}),
           NEW n \in 0 .. 2, Begin(t, d, w, n)
    PROVE  IInv'
<1> DEFINE c == [NoCall EXCEPT !.dir = d, !.now = time, !.left = n]
<1>1. /\ time \in 0 .. MaxTime /\ 1 \in SlotIds /\ 0 \in Versions
      /\ remote[d] \in Versions /\ MaxTime \in Nat /\ MaxVersion \in Nat
  BY DirCacheAssumption DEF IInv, TypeOK, SlotIds, Versions
<1>2. NoCall \in Calls /\ NoCall.made = 0
  BY <1>1, DirCacheAssumption DEF NoCall, Calls
<1>3. c \in Calls /\ c.now = time /\ c.made = NoCall.made /\ c.dir = d
  BY <1>2, <1>1 DEF Calls
<1>4. c.now <= time /\ c.made <= remote[c.dir]
  BY <1>2, <1>1, <1>3 DEF Versions
<1>5. pc[t] = "idle" /\ seen[t] = <<>> /\ seen' = [seen EXCEPT ![t] = <<>>]
  BY DEF Begin, IInv, SeenSound
<1>6. calls' \in 0 .. MaxCalls
  BY DirCacheAssumption, SMTT(30) DEF Begin, IInv, TypeOK
<1>7. Len(<<>>) = 0 /\ <<>> \in Seq(Sights)
  BY EmptySeq
<1>8. call' = [call EXCEPT ![t] = c] /\ pc' = [pc EXCEPT ![t] = w]
  BY DEF Begin, Goto
<1> HIDE DEF c
<1>9. w \in Places \ Refreshing /\ w # "return" /\ "idle" \notin Refreshing
  BY DEF Refreshing
<1>10. /\ UNCHANGED <<remote, time, slots, cacheLock, ftpLock, settled, shadowed>>
      /\ remote' \in [Dirs -> Versions] /\ \A e \in Dirs : remote[e] <= remote'[e]
  BY CallKept DEF Begin
<1>11. Moves(t, w, c, <<>>)
  BY <1>3, <1>4, <1>5, <1>6, <1>7, <1>8, <1>9, <1>10 DEF Moves
<1> QED
  BY <1>11, MovesKeepsIInv

\* A call that returns.
LEMMA DoneKeepsIInv ==
    ASSUME IInv, NEW t \in Threads, pc[t] \notin Refreshing, Done(t),
           remote' \in [Dirs -> Versions], \A d \in Dirs : remote[d] <= remote'[d],
           UNCHANGED <<time, slots, cacheLock, ftpLock, calls, settled, shadowed>>
    PROVE  IInv'
<1>1. NoCall \in Calls /\ NoCall.now <= time /\ NoCall.made <= remote'[NoCall.dir]
  BY DirCacheAssumption DEF IInv, TypeOK, NoCall, Calls, SlotIds, Versions
<1>2. Moves(t, "idle", NoCall, <<>>)
  BY <1>1, CallKept DEF Done, Goto, Moves, Refreshing, Places
<1> QED
  BY <1>2, MovesKeepsIInv

\* What a call sees in a slot is well formed.
LEMMA SightTyped ==
    ASSUME TypeOK, NEW i \in SlotIds
    PROVE  Seen(slots[i]) \in Sights
BY DEF TypeOK, Seen, Sights

LEMMA LookupKeepsIInv ==
    ASSUME IInv, NEW t \in Threads, Lookup(t)
    PROVE  IInv'
<1> DEFINE i == Min(Holding(call[t].dir))
           q == <<Seen(slots[i])>>
<1>1. pc[t] = "lookup" /\ seen[t] = <<>>
  BY DEF Lookup, IInv, SeenSound
<1>2. CASE Holding(call[t].dir) # {} /\ LookupIn(t, i) /\ Goto(t, "return")
  <2>1. i \in SlotIds /\ slots[i].valid
    BY <1>2, FirstHolding DEF Holding
  <2>2. Seen(slots[i]) \in Sights
    BY <2>1, SightTyped DEF IInv
  <2>3. q \in Seq(Sights) /\ Len(q) = 1 /\ q[1] = Seen(slots[i])
    BY <2>2
  <2>4. call[t].now < slots[i].updated + TTL /\ slots[i].updated <= slots[i].fetched
    BY <1>2, <2>1 DEF LookupIn, IInv, StampSound
  <2>5. call[t].now < q[1].fetched + TTL
    <3>1. /\ call[t].now \in Nat /\ slots[i].updated \in Nat /\ slots[i].fetched \in Nat
          /\ TTL \in Nat
      BY <2>1, DirCacheAssumption DEF IInv, TypeOK
    <3>2. q[1].fetched = slots[i].fetched
      BY <2>3 DEF Seen
    <3> QED
      BY <2>4, <3>1, <3>2
  <2>6. seen' = [seen EXCEPT ![t] = q]
    BY <1>2 DEF LookupIn
  <2> HIDE DEF q, i
  <2>7. Moves(t, "return", call[t], q)
    BY <1>1, <1>2, <2>3, <2>5, <2>6, CallKept DEF Lookup, Goto, Moves, Refreshing, Places
  <2> QED
    BY <2>7, MovesKeepsIInv
<1>3. CASE Goto(t, "stat") /\ UNCHANGED seen
  <2>1. Moves(t, "stat", call[t], <<>>)
    BY <1>1, <1>3, CallKept DEF Lookup, Goto, Moves, Refreshing, Places
  <2> QED
    BY <2>1, MovesKeepsIInv
<1> QED
  BY <1>2, <1>3 DEF Lookup

LEMMA UseFreshKeepsIInv ==
    ASSUME IInv, NEW t \in Threads, UseFresh(t)
    PROVE  IInv'
<1> DEFINE c == [call[t] EXCEPT !.slot = SlotFor(call[t].dir)]
<1>1. SlotFor(call[t].dir) \in SlotIds
  BY SlotForIsSlot DEF IInv
<1>2. c \in Calls /\ c.now = call[t].now /\ c.made = call[t].made /\ c.dir = call[t].dir
  BY <1>1, CallKept DEF Calls
<1>3. call' = [call EXCEPT ![t] = c]
  BY DEF UseFresh
<1>4. pc[t] = "refresh" /\ seen[t] = <<>>
  BY DEF UseFresh, IInv, SeenSound
<1> HIDE DEF c
<1>5. seen' = [seen EXCEPT ![t] = <<>>] /\ pc' = [pc EXCEPT ![t] = "emit"]
  BY <1>4, CallKept DEF UseFresh, Goto
<1>6. /\ c.now <= time /\ c.made <= remote[c.dir]
      /\ remote \in [Dirs -> Versions] /\ \A d \in Dirs : remote[d] <= remote[d]
      /\ calls \in 0 .. MaxCalls /\ <<>> \in Seq(Sights) /\ Len(<<>>) <= 1
  BY <1>2, CallKept
<1>7. Moves(t, "emit", c, <<>>)
  BY <1>2, <1>3, <1>4, <1>5, <1>6 DEF UseFresh, Moves, Refreshing, Places
<1> QED
  BY <1>7, MovesKeepsIInv

LEMMA EmitKeepsIInv ==
    ASSUME IInv, NEW t \in Threads, Emit(t)
    PROVE  IInv'
<1> DEFINE q == Append(seen[t], Seen(slots[call[t].slot]))
           w == IF Len(seen[t]) = 1 THEN "return" ELSE "emit"
<1>1. Seen(slots[call[t].slot]) \in Sights
  BY CallKept, SightTyped DEF IInv, Calls
<1>2. q \in Seq(Sights) /\ Len(q) = Len(seen[t]) + 1
  BY <1>1, CallKept, AppendProperties
<1>3. seen[t] \in Seq(Sights)
  BY CallKept
<1>4. Len(seen[t]) \in Nat
  BY <1>3, LenProperties
<1>5. pc[t] = "emit" /\ Len(seen[t]) <= 1
  BY DEF Emit, IInv, SeenSound
<1>6. pc[t] = "emit" /\ Len(seen[t]) \in {0, 1}
  <2> DEFINE n == Len(seen[t])
  <2>1. n \in Nat /\ n <= 1
    BY <1>4, <1>5
  <2> HIDE DEF n
  <2>2. n \in {0, 1}
    BY <2>1
  <2> QED
    BY <1>5, <2>2 DEF n
<1>7. seen' = [seen EXCEPT ![t] = q] /\ pc' = [pc EXCEPT ![t] = w]
  BY DEF Emit, Goto
<1>8. (w = "emit" /\ Len(q) = 1) \/ (w = "return" /\ Len(q) = 2)
  <2>1. CASE Len(seen[t]) = 0
    BY <1>2, <2>1
  <2>2. CASE Len(seen[t]) = 1
    BY <1>2, <2>2
  <2> QED
    BY <1>6, <2>1, <2>2
<1> HIDE DEF q, w
<1>9. /\ call[t] \in Calls /\ call' = [call EXCEPT ![t] = call[t]]
      /\ call[t].now <= time /\ call[t].made <= remote[call[t].dir] /\ calls' \in 0 .. MaxCalls
      /\ remote' \in [Dirs -> Versions] /\ \A d \in Dirs : remote[d] <= remote'[d]
  BY CallKept DEF Emit
<1>10. w \in Places \ Refreshing /\ pc[t] \notin Refreshing
  BY <1>6, <1>8 DEF Refreshing, Places
<1>11. UNCHANGED <<remote, time, slots, cacheLock, ftpLock, settled, shadowed>>
  BY DEF Emit
<1>12. Moves(t, w, call[t], q)
  BY <1>2, <1>7, <1>8, <1>9, <1>10, <1>11 DEF Moves
<1> QED
  BY <1>12, MovesKeepsIInv

LEMMA ReadPartitionKeepsIInv ==
    ASSUME IInv, NEW t \in Threads, ReadPartition(t)
    PROVE  IInv'
<1>1. pc[t] = "partition" /\ seen[t] = <<>>
  BY DEF ReadPartition, IInv, SeenSound
<1>2. Moves(t, "count", call[t], <<>>)
  BY <1>1, CallKept DEF ReadPartition, Goto, Moves, Refreshing, Places
<1> QED
  BY <1>2, MovesKeepsIInv

LEMMA CountSlotKeepsIInv ==
    ASSUME IInv, NEW t \in Threads, CountSlot(t)
    PROVE  IInv'
<1> DEFINE c == [call[t] EXCEPT !.slot = call[t].slot + 1]
<1>1. pc[t] = "count" /\ seen[t] = <<>>
  BY DEF CountSlot, IInv, SeenSound
<1>2. CASE call[t].slot = NumSlots
  <2>1. Done(t)
    BY <1>2 DEF CountSlot
  <2> QED
    BY <1>1, <2>1, CallKept, DoneKeepsIInv DEF CountSlot, Refreshing
<1>3. CASE call[t].slot # NumSlots
  <2>1. call[t].slot + 1 \in SlotIds
    BY <1>3, CallKept, DirCacheAssumption DEF Calls, SlotIds
  <2>2. c \in Calls /\ c.now = call[t].now /\ c.made = call[t].made /\ c.dir = call[t].dir
    BY <2>1, CallKept DEF Calls
  <2>3. call' = [call EXCEPT ![t] = c]
    BY <1>3 DEF CountSlot
  <2> HIDE DEF c
  <2>4. Moves(t, "count", c, <<>>)
    BY <1>1, <1>3, <2>2, <2>3, CallKept DEF CountSlot, Moves, Refreshing, Places
  <2> QED
    BY <2>4, MovesKeepsIInv
<1> QED
  BY <1>2, <1>3

LEMMA TickKeepsIInv ==
    ASSUME IInv, Tick
    PROVE  IInv'
<1> USE DEF IInv, Tick
<1>1. TypeOK'
  BY DirCacheAssumption DEF TypeOK
<1>2. PastSound'
  BY DEF TypeOK, PastSound
<1>3. SeenSound' /\ LocksHeld' /\ RefreshSound' /\ StampSound' /\ StatWithinTTL' /\ NoLostInvalidation'
  BY DEF SeenSound, LocksHeld, RefreshSound, StampSound, StatWithinTTL, NoLostInvalidation, Holding
<1> QED
  BY <1>1, <1>2, <1>3

\* While s_cache_mutex is free nobody is refreshing, and else only its holder.
LEMMA OneRefreshes ==
    ASSUME IInv, NEW t \in Threads
    PROVE  /\ cacheLock = Nobody => pc[t] \notin Refreshing
           /\ pc[t] \in Refreshing => \A u \in Threads : pc[u] \in Refreshing => u = t
BY DirCacheAssumption DEF IInv, LocksHeld

LEMMA BeginRefreshKeepsIInv ==
    ASSUME IInv, NEW t \in Threads, BeginRefresh(t)
    PROVE  IInv'
<1> DEFINE i == SlotFor(call[t].dir)
           c == [call[t] EXCEPT !.slot = i, !.now = time]
<1>1. i \in SlotIds
  BY SlotForIsSlot DEF IInv
<1>2. c \in Calls /\ c.now = time /\ c.slot = i /\ c.made = call[t].made /\ c.dir = call[t].dir
  BY <1>1, CallKept DEF Calls, IInv, TypeOK
<1>3. call' = [call EXCEPT ![t] = c]
  BY CallKept DEF BeginRefresh
<1>4. pc[t] = "refresh" /\ seen[t] = <<>> /\ \A u \in Threads : pc[u] \notin Refreshing
  BY OneRefreshes DEF BeginRefresh, IInv, SeenSound
<1>5. pc' = [pc EXCEPT ![t] = "list"] /\ slots' = [slots EXCEPT ![i] = EmptySlot(c.dir)]
  BY <1>2 DEF BeginRefresh, Goto
<1>6. EmptySlot(c.dir) \in SlotRecords /\ ~EmptySlot(c.dir).valid /\ EmptySlot(c.dir).path = c.dir
  <2>1. call[t].dir \in Dirs /\ 0 \in 0 .. MaxTime
    BY CallKept, DirCacheAssumption DEF Calls
  <2>2. c.dir \in Dirs
    BY <1>2, <2>1
  <2> HIDE DEF c
  <2> QED
    BY <2>1, <2>2 DEF EmptySlot, SlotRecords
<1> HIDE DEF c, i
<1> USE DEF IInv
<1>7. TypeOK'
  <2>1. slots' \in [SlotIds -> SlotRecords]
    BY <1>5, <1>6 DEF TypeOK, SlotRecords
  <2>2. call' \in [Threads -> Calls]
    BY <1>2, <1>3 DEF TypeOK, Calls
  <2>3. pc' \in [Threads -> Places] /\ cacheLock' \in Threads
    BY <1>5 DEF TypeOK, Places, BeginRefresh
  <2> QED
    BY <2>1, <2>2, <2>3 DEF TypeOK, BeginRefresh, Calls, SlotRecords, Places
<1>8. SeenSound'
  BY <1>4, <1>5 DEF SeenSound, TypeOK, BeginRefresh
<1>9. LocksHeld'
  BY <1>4, <1>5 DEF LocksHeld, TypeOK, BeginRefresh, Refreshing
<1>10. RefreshSound'
  <2>1. slots'[i] = EmptySlot(c.dir) /\ call'[t] = c /\ pc'[t] = "list"
    BY <1>1, <1>3, <1>5 DEF TypeOK
  <2>2. \A u \in Threads : pc'[u] \in Refreshing => u = t
    BY <1>4, <1>5 DEF TypeOK
  <2> QED
    BY <1>2, <1>6, <2>1, <2>2 DEF RefreshSound
<1>11. PastSound'
  BY <1>2, <1>3 DEF PastSound, TypeOK, BeginRefresh
<1>12. \A j \in SlotIds : slots'[j].valid => slots'[j] = slots[j]
  BY <1>1, <1>5, <1>6 DEF TypeOK
<1>13. StampSound' /\ NoLostInvalidation'
  BY <1>12 DEF StampSound, NoLostInvalidation, BeginRefresh
<1>14. StatWithinTTL'
  BY <1>3, <1>5 DEF StatWithinTTL, TypeOK, BeginRefresh
<1> QED
  BY <1>7, <1>8, <1>9, <1>10, <1>11, <1>13, <1>14

LEMMA BeginListKeepsIInv ==
    ASSUME IInv, NEW t \in Threads, BeginList(t)
    PROVE  IInv'
<1> USE DEF IInv
<1>1. pc[t] = "list" /\ pc' = [pc EXCEPT ![t] = "listing"] /\ ftpLock' = t /\ ftpLock = Nobody
  BY DEF BeginList, Goto
<1>2. TypeOK'
  BY <1>1 DEF TypeOK, BeginList
<1>3. SeenSound' /\ StatWithinTTL'
  BY <1>1 DEF SeenSound, StatWithinTTL, TypeOK, BeginList
<1>4. LocksHeld'
  BY <1>1, DirCacheAssumption DEF LocksHeld, TypeOK, BeginList, Refreshing
<1>5. RefreshSound'
  BY <1>1 DEF RefreshSound, TypeOK, BeginList, Refreshing
<1>6. PastSound' /\ StampSound' /\ NoLostInvalidation'
  BY DEF PastSound, StampSound, NoLostInvalidation, BeginList
<1> QED
  BY <1>2, <1>3, <1>4, <1>5, <1>6

LEMMA EndListKeepsIInv ==
    ASSUME IInv, NEW t \in Threads, EndList(t)
    PROVE  IInv'
<1> USE DEF IInv
<1> DEFINE i == call[t].slot
<1>1. PICK listing \in {remote[call[t].dir], Unlisted} :
         slots' = [slots EXCEPT ![i].listing = listing, ![i].fetched = time]
  BY DEF EndList
<1> DEFINE r == [slots[i] EXCEPT !.listing = listing, !.fetched = time]
<1>2. /\ i \in SlotIds /\ call[t].dir \in Dirs /\ time \in 0 .. MaxTime
      /\ slots[i] \in SlotRecords /\ remote[call[t].dir] \in Versions
  BY DEF TypeOK, SlotRecords
<1>3. slots' = [slots EXCEPT ![i] = r]
  BY <1>1, <1>2 DEF TypeOK
<1>4. /\ r \in SlotRecords /\ r.valid = slots[i].valid /\ r.path = slots[i].path
      /\ r.listing = listing /\ r.fetched = time
  BY <1>2 DEF SlotRecords
<1>5. /\ pc[t] = "listing" /\ pc' = [pc EXCEPT ![t] = "listed"] /\ ftpLock' = Nobody
      /\ pc[t] \in Refreshing /\ pc'[t] = "listed"
      /\ \A u \in Threads : pc[u] \in Refreshing => u = t
      /\ \A u \in Threads : pc'[u] \in Refreshing => u = t
  BY OneRefreshes DEF EndList, Goto, Refreshing, TypeOK
<1>6. ~slots[i].valid /\ slots[i].path = call[t].dir
  BY <1>5 DEF RefreshSound
<1>7. listing # Unlisted => listing >= settled[call[t].dir]
  BY <1>2 DEF PastSound, TypeOK, Versions
<1> HIDE DEF r, i
<1>8. TypeOK'
  BY <1>2, <1>3, <1>4, <1>5 DEF TypeOK, EndList, SlotRecords
<1>9. SeenSound' /\ StatWithinTTL'
  BY <1>5 DEF SeenSound, StatWithinTTL, TypeOK, EndList
<1>10. LocksHeld'
  BY <1>5, DirCacheAssumption DEF LocksHeld, TypeOK, EndList, Refreshing
<1>11. RefreshSound'
  <2>1. slots'[i] = r /\ call' = call /\ settled' = settled
    BY <1>2, <1>3 DEF EndList, TypeOK
  <2>2. call[t].now <= time
    BY DEF PastSound
  <2> QED
    BY <1>4, <1>5, <1>6, <1>7, <2>1, <2>2 DEF RefreshSound, i
<1>12. \A j \in SlotIds : slots'[j].valid => slots'[j] = slots[j]
  BY <1>2, <1>3, <1>4, <1>6 DEF TypeOK
<1>13. PastSound' /\ StampSound' /\ NoLostInvalidation'
  BY <1>12 DEF PastSound, StampSound, NoLostInvalidation, EndList
<1> QED
  BY <1>8, <1>9, <1>10, <1>11, <1>13

LEMMA EndRefreshKeepsIInv ==
    ASSUME IInv, NEW t \in Threads, EndRefresh(t)
    PROVE  IInv'
<1> USE DEF IInv
<1> DEFINE i == call[t].slot
           r == [slots[i] EXCEPT !.valid = TRUE, !.updated = call[t].now]
<1>1. slots' = [slots EXCEPT ![i].valid = TRUE, ![i].updated = call[t].now]
  BY DEF EndRefresh
<1>2. /\ i \in SlotIds /\ call[t].dir \in Dirs /\ call[t].now \in 0 .. MaxTime
      /\ slots[i] \in SlotRecords
  BY DEF TypeOK, SlotRecords
<1>3. slots' = [slots EXCEPT ![i] = r]
  BY <1>1, <1>2 DEF TypeOK
<1>4. /\ r \in SlotRecords /\ r.path = slots[i].path /\ r.listing = slots[i].listing
      /\ r.fetched = slots[i].fetched /\ r.updated = call[t].now
  BY <1>2 DEF SlotRecords
<1>5. /\ pc[t] = "listed" /\ pc' = [pc EXCEPT ![t] = "emit"] /\ cacheLock' = Nobody
      /\ pc[t] \in Refreshing
      /\ \A u \in Threads : pc'[u] \notin Refreshing
  <2>1. /\ pc[t] = "listed" /\ pc' = [pc EXCEPT ![t] = "emit"] /\ cacheLock' = Nobody
        /\ pc[t] \in Refreshing
    BY DEF EndRefresh, Goto, Refreshing
  <2>2. \A u \in Threads : pc[u] \in Refreshing => u = t
    BY <2>1, OneRefreshes
  <2> QED
    BY <2>1, <2>2 DEF TypeOK, Refreshing
<1>6. /\ slots[i].path = call[t].dir /\ call[t].now <= slots[i].fetched
      /\ slots[i].listing # Unlisted => slots[i].listing >= settled[slots[i].path]
  BY <1>5 DEF RefreshSound
<1> HIDE DEF r, i
<1>7. TypeOK'
  BY <1>2, <1>3, <1>4, <1>5 DEF TypeOK, EndRefresh, SlotRecords
<1>8. SeenSound'
  <2>1. seen[t] = <<>> /\ Len(<<>>) = 0
    BY <1>5, EmptySeq DEF SeenSound
  <2> QED
    BY <1>5, <2>1 DEF SeenSound, TypeOK, EndRefresh
<1>9. StatWithinTTL' /\ PastSound'
  BY <1>5 DEF StatWithinTTL, PastSound, TypeOK, EndRefresh
<1>10. LocksHeld'
  BY <1>5, DirCacheAssumption DEF LocksHeld, TypeOK, EndRefresh, Refreshing
<1>11. RefreshSound'
  BY <1>5 DEF RefreshSound
<1>12. \A j \in SlotIds : slots'[j] = IF j = i THEN r ELSE slots[j]
  BY <1>3 DEF TypeOK
<1>13. StampSound'
  <2>1. r.path \in Dirs /\ r.updated <= r.fetched
    BY <1>2, <1>4, <1>6
  <2> QED
    BY <1>12, <2>1 DEF StampSound
<1>14. NoLostInvalidation'
  <2>1. r.listing # Unlisted => r.listing >= settled[r.path]
    BY <1>4, <1>6
  <2>2. settled' = settled /\ shadowed' = shadowed /\ Unlisted' = Unlisted
    BY DEF EndRefresh, Unlisted
  <2> QED
    BY <1>12, <2>1, <2>2 DEF NoLostInvalidation
<1> QED
  BY <1>7, <1>8, <1>9, <1>10, <1>11, <1>13, <1>14

LEMMA MakeChangeKeepsIInv ==
    ASSUME IInv, NEW t \in Threads, MakeChange(t)
    PROVE  IInv'
<1> DEFINE d == call[t].dir
           c == [call[t] EXCEPT !.made = remote[d] + 1]
<1>1. pc[t] = "change" /\ seen[t] = <<>> /\ pc[t] \notin Refreshing
  BY DEF MakeChange, IInv, SeenSound, Refreshing
<1>2. CASE Done(t) /\ UNCHANGED remote
  BY <1>1, <1>2, CallKept, DoneKeepsIInv DEF MakeChange
<1>3. CASE remote[d] < MaxVersion /\ remote' = [remote EXCEPT ![d] = @ + 1]
  <2>1. d \in Dirs /\ remote[d] \in Versions /\ \A e \in Dirs : remote[e] \in Nat
    BY CallKept, SMTT(30) DEF IInv, TypeOK, Versions, Calls
  <2>2. remote[d] + 1 \in Versions
    BY <1>3, <2>1, DirCacheAssumption DEF Versions
  <2>3. /\ remote' \in [Dirs -> Versions] /\ remote'[d] = remote[d] + 1
        /\ \A e \in Dirs : remote[e] <= remote'[e]
    BY <1>3, <2>1, <2>2, SMTT(30) DEF IInv, TypeOK
  <2>4. CASE Done(t)
    BY <1>1, <2>3, <2>4, DoneKeepsIInv DEF MakeChange
  <2>5. CASE /\ call' = [call EXCEPT ![t].made = remote[d] + 1]
             /\ Goto(t, "invalidate") /\ UNCHANGED seen
    <3>1. /\ c \in Calls /\ c.now = call[t].now /\ c.dir = d /\ c.made = remote'[c.dir]
      BY <2>2, <2>3, CallKept DEF Calls
    <3>2. call' = [call EXCEPT ![t] = c]
      BY <2>5
    <3>3. c.now <= time /\ c.made <= remote'[c.dir]
      BY <2>2, <2>3, <3>1, CallKept DEF Versions
    <3> HIDE DEF c, d
    <3>4. /\ seen' = [seen EXCEPT ![t] = <<>>] /\ <<>> \in Seq(Sights)
          /\ pc' = [pc EXCEPT ![t] = "invalidate"] /\ calls' \in 0 .. MaxCalls
      BY <1>1, <2>5, CallKept DEF Goto, MakeChange
    <3>5. Moves(t, "invalidate", c, <<>>)
      BY <1>1, <2>3, <3>1, <3>2, <3>3, <3>4 DEF MakeChange, Moves, Refreshing, Places
    <3> QED
      BY <3>5, MovesKeepsIInv
  <2> QED
    BY <1>3, <2>1, <2>4, <2>5 DEF MakeChange
<1> QED
  BY <1>2, <1>3 DEF MakeChange

LEMMA InvalidateKeepsIInv ==
    ASSUME IInv, NEW t \in Threads, Invalidate(t)
    PROVE  IInv'
<1> USE DEF IInv
<1> DEFINE d == call[t].dir
           first == Min(Holding(d))
<1>1. /\ pc[t] = "invalidate" /\ seen[t] = <<>> /\ d \in Dirs
      /\ \A u \in Threads : pc[u] \notin Refreshing
  BY OneRefreshes DEF Invalidate, SeenSound, TypeOK
\* The call goes on to its second invalidation or returns.
<1>2. PICK w \in {"idle", "invalidate"}, c \in Calls :
         /\ pc' = [pc EXCEPT ![t] = w] /\ call' = [call EXCEPT ![t] = c]
         /\ seen' = [seen EXCEPT ![t] = <<>>]
         /\ c.now <= time /\ c.made <= remote[c.dir]
  <2>1. CASE call[t].left > 1
    <3> DEFINE b == [call[t] EXCEPT !.left = @ - 1]
    <3>1. b \in Calls /\ b.now = call[t].now /\ b.made = call[t].made /\ b.dir = call[t].dir
      BY <2>1, CallKept DEF Calls
    <3>2. call' = [call EXCEPT ![t] = b] /\ UNCHANGED <<pc, seen>>
      BY <2>1 DEF Invalidate
    <3> HIDE DEF b
    <3> QED
      BY <1>1, <3>1, <3>2, CallKept
  <2>2. CASE ~(call[t].left > 1)
    <3>1. NoCall \in Calls /\ NoCall.now <= time /\ NoCall.made <= remote[NoCall.dir]
      BY DirCacheAssumption DEF TypeOK, NoCall, Calls, SlotIds, Versions
    <3>2. Done(t)
      BY <2>2 DEF Invalidate
    <3> QED
      BY <3>1, <3>2 DEF Done, Goto
  <2> QED
    BY <2>1, <2>2
\* The first slot that holds the directory is no longer valid.
<1>3. /\ slots' \in [SlotIds -> SlotRecords]
      /\ \A i \in SlotIds :
            /\ slots'[i].path = slots[i].path /\ slots'[i].listing = slots[i].listing
            /\ slots'[i].updated = slots[i].updated /\ slots'[i].fetched = slots[i].fetched
            /\ slots'[i].valid => slots[i].valid /\ (i \in Holding(d) => i # first)
  <2>1. CASE Holding(d) = {}
    BY <2>1 DEF Invalidate, TypeOK, SlotRecords
  <2>2. CASE Holding(d) # {}
    <3>1. first \in SlotIds
      BY <2>2, FirstHolding
    <3>2. slots' = [slots EXCEPT ![first].valid = FALSE]
      BY <2>2 DEF Invalidate
    <3> HIDE DEF first
    <3> QED
      BY ZenonT(40), <3>1, <3>2 DEF TypeOK, SlotRecords
  <2> QED
    BY <2>1, <2>2
<1>4. /\ settled' \in [Dirs -> Versions]
      /\ \A e \in Dirs : settled'[e] <= remote[e] /\ (e # d => settled'[e] = settled[e])
  <2>1. CASE call[t].left > 1
    BY <2>1 DEF Invalidate, PastSound, TypeOK
  <2>2. CASE ~(call[t].left > 1)
    <3>1. settled' = [settled EXCEPT ![d] = IF call[t].made > @ THEN call[t].made ELSE @]
      BY <2>2 DEF Invalidate
    <3>2. /\ call[t].made \in Versions /\ call[t].made <= remote[d]
          /\ settled \in [Dirs -> Versions] /\ \A e \in Dirs : settled[e] <= remote[e]
      BY CallKept DEF Calls, PastSound, TypeOK
    <3> QED
      BY <1>1, <3>1, <3>2
  <2> QED
    BY <2>1, <2>2
<1>5. shadowed' \subseteq Dirs /\ shadowed \subseteq shadowed'
  BY <1>1 DEF Invalidate, TypeOK
<1>6. UNCHANGED <<remote, time, cacheLock, ftpLock, calls>>
  BY DEF Invalidate
<1>7. TypeOK'
  <2>1. call' \in [Threads -> Calls] /\ pc' \in [Threads -> Places]
    BY <1>2 DEF TypeOK, Calls, Places
  <2>2. \A u \in Threads : Len(seen'[u]) <= 2
    BY <1>2, EmptySeq DEF TypeOK, SeenSound
  <2> QED
    BY <1>3, <1>4, <1>5, <1>6, <2>1, <2>2 DEF TypeOK, SlotRecords, Calls, Places
<1>8. SeenSound'
  BY <1>1, <1>2, EmptySeq DEF SeenSound, TypeOK
<1>9. \A u \in Threads : pc'[u] \notin Refreshing
  BY <1>1, <1>2 DEF TypeOK, Refreshing
<1>10. LocksHeld' /\ RefreshSound'
  BY <1>1, <1>2, <1>6, <1>9 DEF LocksHeld, RefreshSound, TypeOK, Refreshing
<1>11. PastSound'
  BY <1>2, <1>4, <1>6 DEF PastSound, TypeOK
<1>12. StampSound'
  BY <1>3 DEF StampSound
<1>13. StatWithinTTL'
  BY <1>2 DEF StatWithinTTL, TypeOK
<1>14. NoLostInvalidation'
  <2> SUFFICES ASSUME NEW i \in SlotIds, slots'[i].valid, slots'[i].listing # Unlisted,
                      slots'[i].path \notin shadowed'
               PROVE  slots'[i].listing >= settled'[slots'[i].path]
    BY DEF NoLostInvalidation
  <2>1. slots[i].valid /\ slots[i].path \in Dirs /\ slots[i].listing >= settled[slots[i].path]
    BY <1>3, <1>5 DEF NoLostInvalidation, StampSound
  <2>2. slots[i].path # d
    <3> SUFFICES ASSUME slots[i].path = d PROVE FALSE
      OBVIOUS
    <3>1. i \in Holding(d) /\ i # first /\ Holding(d) # {} /\ Holding(d) \subseteq SlotIds
      BY <1>3, <2>1 DEF Holding
    <3>2. first \in Holding(d)
      BY <3>1, FirstHolding
    <3>3. ~(Cardinality(Holding(d)) > 1)
      BY <1>1, <1>3 DEF Invalidate
    <3> QED
      BY <3>1, <3>2, <3>3, NoTwo
  <2> QED
    BY <1>3, <1>4, <2>1, <2>2
<1> QED
  BY <1>7, <1>8, <1>10, <1>11, <1>12, <1>13, <1>14

LEMMA StutterKeepsIInv ==
    ASSUME IInv, UNCHANGED vars
    PROVE  IInv'
BY DEF vars, IInv, TypeOK, SeenSound, LocksHeld, RefreshSound, PastSound, StampSound,
       StatWithinTTL, NoLostInvalidation

LEMMA NextKeepsIInv == IInv /\ [Next]_vars => IInv'
<1> SUFFICES ASSUME IInv, [Next]_vars PROVE IInv'
  OBVIOUS
<1>1. CASE Tick
  BY <1>1, TickKeepsIInv
<1>2. CASE Finished \/ UNCHANGED vars
  BY <1>2, StutterKeepsIInv DEF Finished
<1>3. ASSUME NEW t \in Threads, Start(t) PROVE IInv'
  <2>1. CASE Access(t)
    BY <2>1, BeginKeepsIInv, DirCacheAssumption DEF Access, Places, Refreshing
  <2>2. CASE Statfs(t)
    BY <2>2, BeginKeepsIInv, DirCacheAssumption DEF Statfs, Places, Refreshing
  <2>3. ASSUME NEW d \in Dirs, Getattr(t, d) PROVE IInv'
    BY <2>3, BeginKeepsIInv DEF Getattr, Places, Refreshing
  <2>4. ASSUME NEW d \in Dirs, Readdir(t, d) PROVE IInv'
    BY <2>4, BeginKeepsIInv DEF Readdir, Places, Refreshing
  <2>5. ASSUME NEW d \in Dirs, NEW n \in 0 .. 2, Change(t, d, n) PROVE IInv'
    BY <2>5, BeginKeepsIInv DEF Change, Places, Refreshing
  <2> QED
    BY <1>3, <2>1, <2>2, <2>3, <2>4, <2>5 DEF Start
<1>4. ASSUME NEW t \in Threads, Step(t) PROVE IInv'
  <2>1. CASE Lookup(t)
    BY <2>1, LookupKeepsIInv
  <2>2. CASE Stat(t) \/ Return(t)
    BY <2>2, CallKept, DoneKeepsIInv DEF Stat, Return, Refreshing
  <2>3. CASE UseFresh(t) \/ BeginRefresh(t)
    BY <2>3, UseFreshKeepsIInv, BeginRefreshKeepsIInv
  <2>4. CASE BeginList(t) \/ EndList(t)
    BY <2>4, BeginListKeepsIInv, EndListKeepsIInv
  <2>5. CASE EndRefresh(t) \/ Emit(t)
    BY <2>5, EndRefreshKeepsIInv, EmitKeepsIInv
  <2>6. CASE MakeChange(t) \/ Invalidate(t)
    BY <2>6, MakeChangeKeepsIInv, InvalidateKeepsIInv
  <2>7. CASE ReadPartition(t) \/ CountSlot(t)
    BY <2>7, ReadPartitionKeepsIInv, CountSlotKeepsIInv
  <2> QED
    BY <1>4, <2>1, <2>2, <2>3, <2>4, <2>5, <2>6, <2>7 DEF Step
<1> QED
  BY <1>1, <1>2, <1>3, <1>4 DEF Next

LEMMA AlwaysIInv == Spec => []IInv
<1>1. Init => IInv
  BY InitIInv
<1>2. IInv /\ [Next]_vars => IInv'
  BY NextKeepsIInv
<1> QED
  BY <1>1, <1>2, PTL DEF Spec

-----------------------------------------------------------------------------
(***************************************************************************)
(* The theorems.                                                           *)
(***************************************************************************)

\* Every variable keeps its type, whatever the number of threads, directories
\* and slots.
THEOREM TypeCorrect == Spec => []TypeOK
<1>1. IInv => TypeOK
  BY DEF IInv
<1> QED
  BY <1>1, AlwaysIInv, PTL

\* A getattr that is answered from the cache never gets a listing that had been
\* read CACHE_TTL_SECONDS or longer before the getattr began.
THEOREM StatsWithinTTL == Spec => []StatWithinTTL
<1>1. IInv => StatWithinTTL
  BY DEF IInv
<1> QED
  BY <1>1, AlwaysIInv, PTL

\* invalidate_cache_parent() is never undone by a refresh_cache_if_expired()
\* that runs at the same time: a listing older than a complete invalidation is
\* left only where two slots held the directory.
THEOREM NoInvalidationLost == Spec => []NoLostInvalidation
<1>1. IInv => NoLostInvalidation
  BY DEF IInv
<1> QED
  BY <1>1, AlwaysIInv, PTL
=============================================================================
