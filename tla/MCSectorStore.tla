--------------------------- MODULE MCSectorStore ---------------------------
(***************************************************************************)
(* SectorStore on a card of four sectors.  The cache and the queue hold    *)
(* two sectors, so both fill up and are purged half way through a call; a  *)
(* batch of two lets a read-ahead run over sectors with pending writes.    *)
(***************************************************************************)
EXTENDS SectorStore

MCBatchSizes == {1, 2}
=============================================================================
