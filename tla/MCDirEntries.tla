---------------------------- MODULE MCDirEntries ----------------------------
(***************************************************************************)
(* DirEntries with one name that is its short name, and two long names     *)
(* with the same base, of one and of two chunks.                           *)
(***************************************************************************)
EXTENDS DirEntries

MCNames == {"P", "q", "r"}
MCTilde == {"q", "r"}
MCChunks == [n \in MCNames |-> CASE n = "P" -> 0 [] n = "q" -> 1 [] n = "r" -> 2]
MCBase == [n \in MCNames |-> IF n \in MCTilde THEN "L" ELSE n]
=============================================================================
