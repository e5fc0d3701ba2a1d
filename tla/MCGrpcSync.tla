----------------------------- MODULE MCGrpcSync -----------------------------
(* Instances of GrpcSync for TLC.  Callers of one kind are interchangeable *)
(* in the safety runs; the liveness run uses no symmetry.                  *)
EXTENDS GrpcSync, TLC

Interchangeable == Permutations(Initers) \cup Permutations(Stoppers)
=============================================================================
