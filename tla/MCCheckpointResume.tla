------------------------ MODULE MCCheckpointResume ------------------------
(* Instances of CheckpointResume for TLC: batches of two, the second of    *)
(* each run short.                                                         *)
EXTENDS CheckpointResume, TLC

CONSTANTS w1, w2

WorkerSymmetry == Permutations(Workers)
=============================================================================
