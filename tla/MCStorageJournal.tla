-------------------------- MODULE MCStorageJournal --------------------------
(***************************************************************************)
(* Small instances of StorageJournal: segments of two records on a card    *)
(* for three, so that sealing, reclaiming and a full card all happen, and  *)
(* a batch smaller than the backlog.                                       *)
(***************************************************************************)
EXTENDS StorageJournal

=============================================================================
