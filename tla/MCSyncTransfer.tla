-------------------------- MODULE MCSyncTransfer --------------------------
(* Instances of SyncTransfer for TLC. *)
EXTENDS SyncTransfer, TLC

FileSymmetry == Permutations(Files)
=============================================================================
