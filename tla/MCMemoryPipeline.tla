--------------------------- MODULE MCMemoryPipeline ---------------------------
(***************************************************************************)
(* Small instances of MemoryPipeline.                                      *)
(***************************************************************************)
EXTENDS MemoryPipeline, TLC

EpisodeSymmetry == Permutations(Episodes)

=============================================================================
