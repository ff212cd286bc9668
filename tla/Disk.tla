-------------------------------- MODULE Disk --------------------------------
(***************************************************************************)
(* What the sector layer of mega65_ftp.c promises the FAT code above it.   *)
(*                                                                         *)
(* Every sector has an accepted value, the one the last write_sector()     *)
(* handed over, and a durable one, the one on the SD card.  A write        *)
(* changes only the accepted value; the store copies accepted values to    *)
(* the card at times of its own choosing, never anything else; when the    *)
(* host process dies the card is all that is left.                         *)
(***************************************************************************)
CONSTANTS Sectors, Data

VARIABLES accepted, durable

vars == <<accepted, durable>>

Init == /\ accepted \in [Sectors -> Data]
        /\ durable = accepted

Write(s, d) == /\ accepted' = [accepted EXCEPT ![s] = d]
               /\ UNCHANGED durable

Persist(s) == /\ durable' = [durable EXCEPT ![s] = accepted[s]]
              /\ UNCHANGED accepted

Crash == /\ accepted' = durable
         /\ UNCHANGED durable

Next == \/ \E s \in Sectors, d \in Data : Write(s, d)
        \/ \E s \in Sectors : Persist(s)
        \/ Crash

Spec == Init /\ [][Next]_vars
=============================================================================
