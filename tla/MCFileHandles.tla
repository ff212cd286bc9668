--------------------------- MODULE MCFileHandles ----------------------------
(***************************************************************************)
(* FileHandles with two files and a few clusters.  Usage is given by each  *)
(* .cfg.                                                                   *)
(***************************************************************************)
EXTENDS FileHandles, TLC

FileSymmetry == Permutations(Files)
=============================================================================
