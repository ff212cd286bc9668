------------------------------ MODULE DirCache ------------------------------
(***************************************************************************)
(* The directory cache of the FUSE driver (mega65fs.c) as the FUSE worker  *)
(* threads use it: getattr looks entries up in it, readdir fills it and    *)
(* lists from it, the calls that change a directory invalidate it.         *)
(*                                                                         *)
(* A directory on the card is a version number that every change to it     *)
(* increments; a cached listing is the version it was fetched at.  The two *)
(* locks are s_cache_mutex (cacheLock) and m65ftp_lib.c's s_mutex          *)
(* (ftpLock).  A step is what a thread does between two points where       *)
(* another thread can get in.  Calls that only ask the card or execute the *)
(* write queue wait for s_mutex like the others and leave the cache alone. *)
(***************************************************************************)
EXTENDS Naturals, Sequences, FiniteSetsExt

CONSTANTS
    Threads,    \* FUSE worker threads
    Dirs,       \* directories that get listed
    Root,       \* "/"
    NoDir,      \* the path of a slot never used
    Nobody,     \* holder of a free lock
    NumSlots,   \* MAX_CACHED_DIRS
    TTL,        \* CACHE_TTL_SECONDS
    MaxTime,    \* bound on the clock
    MaxVersion, \* bound on the changes of a directory
    MaxCalls    \* bound on the calls of all threads

ASSUME DirCacheAssumption ==
    /\ Root \in Dirs
    /\ NoDir \notin Dirs
    /\ Nobody \notin Threads
    /\ NumSlots \in Nat \ {0} /\ TTL \in Nat \ {0}
    /\ MaxTime \in Nat /\ MaxVersion \in Nat /\ MaxCalls \in Nat

VARIABLES
    remote,     \* remote[d]: the version of d on the card
    time,       \* time(NULL)
    slots,      \* s_cache_slots
    cacheLock,
    ftpLock,
    pc,         \* pc[t]: where thread t's call is; "idle" when it has none
    call,       \* call[t]: [dir, now, slot, left, made] of its call: the directory, its
                \* reading of the clock, the slot it was given, the invalidations it
                \* still makes, the version it made
    seen,       \* seen[t]: what its call has read of the cache, oldest first
    calls,      \* how many calls have begun
    settled,    \* history: the newest version whose invalidation is complete
    shadowed    \* history: directories invalidated while two slots held them

vars == <<remote, time, slots, cacheLock, ftpLock, pc, call, seen, calls, settled, shadowed>>

SlotIds == 1 .. NumSlots
Versions == 0 .. MaxVersion
Unlisted == MaxVersion + 1    \* a slot without entries

\* fetched is history: when the listing was really read.
EmptySlot(d) == [valid |-> FALSE, path |-> d, listing |-> Unlisted, updated |-> 0, fetched |-> 0]

NoCall == [dir |-> Root, now |-> 0, slot |-> 1, left |-> 0, made |-> 0]

\* What a call sees in a slot.
Seen(s) == [dir |-> s.path, version |-> s.listing, fetched |-> s.fetched]

\* The slots stat_from_cache() and invalidate_cache_parent() look for.
Holding(d) == {i \in SlotIds : slots[i].valid /\ slots[i].path = d}

\* get_cache_slot(): the first slot that holds d or is invalid, else the first
\* of the least recently updated.
SlotFor(d) ==
    LET usable == Holding(d) \cup {i \in SlotIds : ~slots[i].valid}
        oldest == {i \in SlotIds : \A j \in SlotIds : slots[i].updated <= slots[j].updated}
    IN  Min(IF usable # {} THEN usable ELSE oldest)

-----------------------------------------------------------------------------
Init ==
    /\ remote = [d \in Dirs |-> 0]
    /\ time = 0
    /\ slots = [i \in SlotIds |-> EmptySlot(NoDir)]
    /\ cacheLock = Nobody
    /\ ftpLock = Nobody
    /\ pc = [t \in Threads |-> "idle"]
    /\ call = [t \in Threads |-> NoCall]
    /\ seen = [t \in Threads |-> <<>>]
    /\ calls = 0
    /\ settled = [d \in Dirs |-> 0]
    /\ shadowed = {}

Tick ==
    /\ time < MaxTime
    /\ time' = time + 1
    /\ UNCHANGED <<remote, slots, cacheLock, ftpLock, pc, call, seen, calls, settled, shadowed>>

Goto(t, where) == pc' = [pc EXCEPT ![t] = where]

\* A FUSE request for directory d reaches thread t.
Begin(t, d, where, invalidations) ==
    /\ pc[t] = "idle"
    /\ calls < MaxCalls
    /\ calls' = calls + 1
    /\ call' = [call EXCEPT ![t] = [NoCall EXCEPT !.dir = d, !.now = time, !.left = invalidations]]
    /\ Goto(t, where)
    /\ UNCHANGED <<remote, time, slots, cacheLock, ftpLock, seen, settled, shadowed>>

\* The call of thread t returns to FUSE.
Done(t) ==
    /\ Goto(t, "idle")
    /\ call' = [call EXCEPT ![t] = NoCall]
    /\ seen' = [seen EXCEPT ![t] = <<>>]

\* It returns what it has read of the cache.
Return(t) ==
    /\ pc[t] = "return"
    /\ Done(t)
    /\ UNCHANGED <<remote, time, slots, cacheLock, ftpLock, calls, settled, shadowed>>

-----------------------------------------------------------------------------
(***************************************************************************)
(* fs_getattr() of an entry of d.  now is read before the lock is taken.   *)
(***************************************************************************)
Getattr(t, d) == Begin(t, d, "lookup", 0)

\* Faulty: an entry as old as the TTL is still good.
LookupInLate(t, i) ==
    LET s == slots[i] IN
    /\ call[t].dir # Root
    /\ call[t].now <= s.updated + TTL
    /\ s.listing # Unlisted
    /\ seen' = [seen EXCEPT ![t] = <<Seen(s)>>]

\* stat_from_cache() under s_cache_mutex: the first slot that holds the
\* directory decides.  Entries of "/" are never found, for split_parent() has
\* cut their name off.
LookupIn(t, i) ==
    LET s == slots[i] IN
    /\ call[t].dir # Root
    /\ call[t].now < s.updated + TTL
    /\ s.listing # Unlisted
    /\ seen' = [seen EXCEPT ![t] = <<Seen(s)>>]

Lookup(t) ==
    /\ pc[t] = "lookup"
    /\ cacheLock = Nobody
    /\ \/ /\ Holding(call[t].dir) # {}
          /\ LookupIn(t, Min(Holding(call[t].dir)))
          /\ Goto(t, "return")
       \/ /\ Goto(t, "stat")
          /\ UNCHANGED seen
    /\ UNCHANGED <<remote, time, slots, cacheLock, ftpLock, call, calls, settled, shadowed>>

\* m65ftp_stat(), under s_mutex: the answer is the card's.
Stat(t) ==
    /\ pc[t] = "stat"
    /\ ftpLock = Nobody
    /\ Done(t)
    /\ UNCHANGED <<remote, time, slots, cacheLock, ftpLock, calls, settled, shadowed>>

\* fs_access() asks the card, not the cache; fs_fsyncdir() has its writes executed.
Access(t) == Begin(t, Root, "stat", 0)

-----------------------------------------------------------------------------
(***************************************************************************)
(* fs_statfs(): the size of the partition, then what the listings add up   *)
(* to.  It reads the slots one after the other without s_cache_mutex.      *)
(***************************************************************************)
Statfs(t) == Begin(t, Root, "partition", 0)

\* m65ftp_mbrinfo(), under s_mutex.
ReadPartition(t) ==
    /\ pc[t] = "partition"
    /\ ftpLock = Nobody
    /\ Goto(t, "count")
    /\ UNCHANGED <<remote, time, slots, cacheLock, ftpLock, call, seen, calls, settled, shadowed>>

\* The next slot, whose entries count if it is valid; the sum is returned.
CountSlot(t) ==
    LET i == call[t].slot IN
    /\ pc[t] = "count"
    /\ IF i = NumSlots THEN Done(t)
       ELSE /\ call' = [call EXCEPT ![t].slot = i + 1]
            /\ UNCHANGED <<pc, seen>>
    /\ UNCHANGED <<remote, time, slots, cacheLock, ftpLock, calls, settled, shadowed>>

-----------------------------------------------------------------------------
(***************************************************************************)
(* fs_readdir() of d.                                                      *)
(***************************************************************************)
Readdir(t, d) == Begin(t, d, "refresh", 0)

\* refresh_cache_if_expired() finds a fresh listing: the slot is handed out and
\* the lock released.
SlotIsFresh(d) ==
    LET s == slots[SlotFor(d)] IN s.valid /\ s.path = d /\ time < s.updated + TTL

UseFresh(t) ==
    /\ pc[t] = "refresh"
    /\ cacheLock = Nobody
    /\ SlotIsFresh(call[t].dir)
    /\ call' = [call EXCEPT ![t].slot = SlotFor(call[t].dir)]
    /\ Goto(t, "emit")
    /\ UNCHANGED <<remote, time, slots, cacheLock, ftpLock, seen, calls, settled, shadowed>>

\* Faulty: the lock is released around m65ftp_readdir().
BeginRefreshUnlocked(t) ==
    /\ pc[t] = "refresh"
    /\ cacheLock = Nobody
    /\ ~SlotIsFresh(call[t].dir)
    /\ LET i == SlotFor(call[t].dir) IN
          /\ slots' = [slots EXCEPT ![i] = EmptySlot(call[t].dir)]
          /\ call' = [call EXCEPT ![t].slot = i, ![t].now = time]
    /\ Goto(t, "list")
    /\ UNCHANGED <<remote, time, cacheLock, ftpLock, seen, calls, settled, shadowed>>

\* It finds none: the slot is wiped and m65ftp_readdir() called with
\* s_cache_mutex held.
BeginRefresh(t) ==
    /\ pc[t] = "refresh"
    /\ cacheLock = Nobody
    /\ ~SlotIsFresh(call[t].dir)
    /\ cacheLock' = t
    /\ LET i == SlotFor(call[t].dir) IN
          /\ slots' = [slots EXCEPT ![i] = EmptySlot(call[t].dir)]
          /\ call' = [call EXCEPT ![t].slot = i, ![t].now = time]
    /\ Goto(t, "list")
    /\ UNCHANGED <<remote, time, ftpLock, seen, calls, settled, shadowed>>

BeginList(t) ==
    /\ pc[t] = "list"
    /\ ftpLock = Nobody
    /\ ftpLock' = t
    /\ Goto(t, "listing")
    /\ UNCHANGED <<remote, time, slots, cacheLock, call, seen, calls, settled, shadowed>>

\* It returns, with the entries or without any when it failed.
EndList(t) ==
    /\ pc[t] = "listing"
    /\ \E listing \in {remote[call[t].dir], Unlisted} :
          slots' = [slots EXCEPT ![call[t].slot].listing = listing,
                                 ![call[t].slot].fetched = time]
    /\ ftpLock' = Nobody
    /\ Goto(t, "listed")
    /\ UNCHANGED <<remote, time, cacheLock, call, seen, calls, settled, shadowed>>

\* Faulty: returns early when the listing failed, with the lock held.
EndRefreshEarlyReturn(t) ==
    /\ pc[t] = "listed"
    /\ IF slots[call[t].slot].listing = Unlisted
       THEN UNCHANGED <<slots, cacheLock>>
       ELSE /\ slots' = [slots EXCEPT ![call[t].slot].valid = TRUE,
                                      ![call[t].slot].updated = call[t].now]
            /\ cacheLock' = Nobody
    /\ Goto(t, "emit")
    /\ UNCHANGED <<remote, time, ftpLock, call, seen, calls, settled, shadowed>>

\* Its result is not looked at.
EndRefresh(t) ==
    /\ pc[t] = "listed"
    /\ slots' = [slots EXCEPT ![call[t].slot].valid = TRUE,
                              ![call[t].slot].updated = call[t].now]
    /\ cacheLock' = Nobody
    /\ Goto(t, "emit")
    /\ UNCHANGED <<remote, time, ftpLock, call, seen, calls, settled, shadowed>>

\* Faulty: never stops.
EmitForever(t) ==
    /\ pc[t] = "emit"
    /\ seen' = [seen EXCEPT ![t] = Append(@, Seen(slots[call[t].slot]))]
    /\ UNCHANGED <<pc, remote, time, slots, cacheLock, ftpLock, call, calls, settled, shadowed>>

\* The loop over cache->entries, without the lock, in two pieces.
Emit(t) ==
    /\ pc[t] = "emit"
    /\ seen' = [seen EXCEPT ![t] = Append(@, Seen(slots[call[t].slot]))]
    /\ Goto(t, IF Len(seen[t]) = 1 THEN "return" ELSE "emit")
    /\ UNCHANGED <<remote, time, slots, cacheLock, ftpLock, call, calls, settled, shadowed>>

-----------------------------------------------------------------------------
(***************************************************************************)
(* fs_create(), fs_mkdir(), fs_rmdir(), fs_unlink(): change the directory, *)
(* then invalidate its listing.  fs_rename() invalidates the parents of    *)
(* both names, which are the same directory.  fs_write(), fs_truncate(),   *)
(* fs_utimens() and fs_release() change it and invalidate nothing.         *)
(***************************************************************************)
Change(t, d, invalidations) == Begin(t, d, "change", invalidations)

\* The m65ftp call, under s_mutex.  When it fails nothing is invalidated.
MakeChange(t) ==
    LET d == call[t].dir IN
    /\ pc[t] = "change"
    /\ ftpLock = Nobody
    /\ \/ /\ remote[d] < MaxVersion
          /\ remote' = [remote EXCEPT ![d] = @ + 1]
          /\ IF call[t].left = 0 THEN Done(t)
             ELSE /\ call' = [call EXCEPT ![t].made = remote[d] + 1]
                  /\ Goto(t, "invalidate")
                  /\ UNCHANGED seen
       \/ /\ Done(t)
          /\ UNCHANGED remote
    /\ UNCHANGED <<time, slots, cacheLock, ftpLock, calls, settled, shadowed>>

\* invalidate_cache_parent(): the first slot that holds the directory.  With
\* the last invalidation of a call its change is to be seen from now on.
Invalidate(t) ==
    LET d == call[t].dir IN
    /\ pc[t] = "invalidate"
    /\ cacheLock = Nobody
    /\ slots' = IF Holding(d) = {} THEN slots ELSE [slots EXCEPT ![Min(Holding(d))].valid = FALSE]
    /\ shadowed' = IF Cardinality(Holding(d)) > 1 THEN shadowed \cup {d} ELSE shadowed
    /\ IF call[t].left > 1
       THEN /\ call' = [call EXCEPT ![t].left = @ - 1]
            /\ UNCHANGED <<pc, seen, settled>>
       ELSE /\ settled' = [settled EXCEPT ![d] = IF call[t].made > @ THEN call[t].made ELSE @]
            /\ Done(t)
    /\ UNCHANGED <<remote, time, cacheLock, ftpLock, calls>>

-----------------------------------------------------------------------------
Step(t) ==
    \/ Lookup(t) \/ Stat(t)
    \/ UseFresh(t) \/ BeginRefresh(t) \/ BeginList(t) \/ EndList(t)
    \/ EndRefresh(t) \/ Emit(t)
    \/ MakeChange(t) \/ Invalidate(t)
    \/ ReadPartition(t) \/ CountSlot(t)
    \/ Return(t)

Start(t) ==
    \/ Access(t) \/ Statfs(t)
    \/ \E d \in Dirs :
          \/ Getattr(t, d)
          \/ Readdir(t, d)
          \/ \E invalidations \in 0 .. 2 : Change(t, d, invalidations)

\* All calls the bound allows have been made and have returned.
Finished ==
    /\ calls = MaxCalls
    /\ \A t \in Threads : pc[t] = "idle"
    /\ UNCHANGED vars

Next == Tick \/ Finished \/ \E t \in Threads : Start(t) \/ Step(t)

Spec == Init /\ [][Next]_vars

\* A thread that is in a call keeps running.
Fairness == \A t \in Threads : WF_vars(Step(t))

FairSpec == Spec /\ Fairness

-----------------------------------------------------------------------------
(***************************************************************************)
(* Properties                                                              *)
(***************************************************************************)

TypeOK ==
    /\ remote \in [Dirs -> Versions]
    /\ time \in 0 .. MaxTime
    /\ slots \in [SlotIds -> [valid : BOOLEAN, path : Dirs \cup {NoDir},
                              listing : Versions \cup {Unlisted},
                              updated : 0 .. MaxTime, fetched : 0 .. MaxTime]]
    /\ cacheLock \in Threads \cup {Nobody}
    /\ ftpLock \in Threads \cup {Nobody}
    /\ pc \in [Threads -> {"idle", "lookup", "stat", "refresh", "list", "listing", "listed",
                           "emit", "change", "invalidate", "partition", "count", "return"}]
    /\ call \in [Threads -> [dir : Dirs, now : 0 .. MaxTime, slot : SlotIds,
                              left : 0 .. 2, made : Versions]]
    /\ \A t \in Threads : Len(seen[t]) <= 2
    /\ calls \in 0 .. MaxCalls
    /\ settled \in [Dirs -> Versions]
    /\ shadowed \subseteq Dirs

\* "Entries are reused while they are younger than CACHE_TTL_SECONDS": a stat
\* that is answered from the cache never gets a listing that had been read TTL
\* or longer before the call began, however the refreshing threads are timed.
StatWithinTTL ==
    \A t \in Threads :
        (pc[t] = "return" /\ Len(seen[t]) = 1)
            => call[t].now < seen[t][1].fetched + TTL

\* An invalidation is never lost to a refresh that runs at the same time: once
\* a change and its invalidation are complete, an older listing survives only
\* in a directory that two slots held when it was invalidated.
NoLostInvalidation ==
    \A i \in SlotIds :
        LET s == slots[i] IN
        (s.valid /\ s.listing # Unlisted /\ s.path \notin shadowed)
            => s.listing >= settled[s.path]

\* "so the next stat/readdir re-fetches it from the MEGA65"
\* (invalidate_cache_parent()): no listing older than the change is left.
InvalidateRefetches ==
    \A i \in SlotIds :
        LET s == slots[i] IN
        (s.valid /\ s.listing # Unlisted) => s.listing >= settled[s.path]

\* "All file operations are single-threaded": nothing changes under a readdir,
\* so what it lists is one listing of the directory it was asked for.
ReaddirListsOneDirectory ==
    \A t \in Threads : Len(seen[t]) = 2 =>
        seen[t][1] = seen[t][2] /\ seen[t][1].dir = call[t].dir

\* Every call returns: the two locks are never waited for in a circle.
CallsReturn == \A t \in Threads : pc[t] # "idle" ~> pc[t] = "idle"
=============================================================================
