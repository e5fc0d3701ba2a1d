-------------------------- MODULE MCFlagdProvider --------------------------
(* Instances of FlagdProvider for TLC. *)
EXTENDS FlagdProvider, TLC

Interchangeable == Permutations(Initers) \cup Permutations(Stoppers)
=============================================================================
