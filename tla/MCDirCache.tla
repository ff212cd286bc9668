----------------------------- MODULE MCDirCache -----------------------------
(***************************************************************************)
(* DirCache with two slots, started with an empty cache or after both      *)
(* directories have been listed, a state that two readdir calls lead to.   *)
(***************************************************************************)
EXTENDS DirCache

\* The listings are handed out in the order of the sequence listed.
WarmSlots(listed) == [i \in SlotIds |->
    [EmptySlot(listed[i]) EXCEPT !.valid = TRUE, !.listing = 0]]

MCInit ==
    \/ Init
    \/ \E listed \in [SlotIds -> Dirs] :
          /\ \A i, j \in SlotIds : i # j => listed[i] # listed[j]
          /\ slots = WarmSlots(listed)
          /\ remote = [d \in Dirs |-> 0]
          /\ time = 0
          /\ cacheLock = Nobody /\ ftpLock = Nobody
          /\ pc = [t \in Threads |-> "idle"]
          /\ call = [t \in Threads |-> NoCall]
          /\ seen = [t \in Threads |-> <<>>]
          /\ calls = 0
          /\ settled = [d \in Dirs |-> 0]
          /\ shadowed = {}

MCSpec == MCInit /\ [][Next]_vars /\ Fairness
=============================================================================
