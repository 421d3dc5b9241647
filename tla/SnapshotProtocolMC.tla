------------------------- MODULE SnapshotProtocolMC -------------------------
(* The workers are interchangeable.                                         *)
EXTENDS SnapshotProtocol, TLC

WorkerSymmetry == Permutations(Workers)
=============================================================================
