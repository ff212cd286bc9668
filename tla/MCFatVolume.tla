----------------------------- MODULE MCFatVolume ----------------------------
(***************************************************************************)
(* FatVolume with a handful of clusters.  MaxNeed is given by each .cfg.   *)
(***************************************************************************)
EXTENDS FatVolume
=============================================================================
