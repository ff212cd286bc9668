----------------------------- MODULE NameSpace ------------------------------
(***************************************************************************)
(* What the directories of the card promise: every name of a directory is  *)
(* bound to at most one thing, each step changes one binding, a directory  *)
(* appears and disappears empty, and a rename carries what it renames to   *)
(* its new name unless the process dies on the way.  DirEntries implements *)
(* it with entries that lie scattered over sectors and clusters.           *)
(***************************************************************************)
CONSTANTS
    Directories,    \* what can be a directory
    Root,           \* the one that is always there
    Names,
    Data,           \* what a file can hold
    Blank,          \* a file or directory that has been given nothing yet
    None

VARIABLES
    bound,      \* bound[d][n]: what name n of directory d stands for
    moving      \* what a rename has taken from its old name

vars == <<bound, moving>>

Things == Data \cup Directories \cup {Blank}

Init ==
    /\ bound = [d \in Directories |-> [n \in Names |-> None]]
    /\ moving = None

\* Name n of d stands for v, and nothing else changes.
Rebind(d, n, v) ==
    /\ bound'[d][n] = v
    /\ bound' = [bound EXCEPT ![d][n] = v]

IsEmpty(d) == \A n \in Names : bound[d][n] = None

Bind(d, n) ==
    /\ bound[d][n] = None
    /\ Rebind(d, n, Blank)
    /\ UNCHANGED moving

Update(d, n, o) ==
    /\ bound[d][n] \in Data \cup {Blank}
    /\ Rebind(d, n, o)
    /\ UNCHANGED moving

MakeDirectory(d, n, new) ==
    /\ bound[d][n] = Blank
    /\ new # Root /\ IsEmpty(new)
    /\ \A e \in Directories, m \in Names : bound[e][m] # new
    /\ Rebind(d, n, new)
    /\ UNCHANGED moving

Unbind(d, n) ==
    /\ bound[d][n] # None
    /\ bound[d][n] \in Directories => IsEmpty(bound[d][n])
    /\ Rebind(d, n, None)
    /\ UNCHANGED moving

TakeOut(d, n) ==
    /\ bound[d][n] # None
    /\ moving = None
    /\ moving' = bound[d][n]
    /\ Rebind(d, n, None)

PutIn(d, n) ==
    /\ bound[d][n] = Blank
    /\ moving # None
    /\ Rebind(d, n, moving)
    /\ moving' = None

\* What was moving is lost, or was blank and its new name is so already.
Crash ==
    /\ moving # None
    /\ moving' = None
    /\ UNCHANGED bound

Next ==
    \/ Crash
    \/ \E d \in Directories :
          /\ bound'[d] # bound[d]
          /\ \E n \in Names :
                \/ Bind(d, n) \/ Unbind(d, n) \/ TakeOut(d, n) \/ PutIn(d, n)
                \/ \E o \in Data : Update(d, n, o)
                \/ \E new \in Directories : MakeDirectory(d, n, new)

Spec == Init /\ [][Next]_vars
=============================================================================
