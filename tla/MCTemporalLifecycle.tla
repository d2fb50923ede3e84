-------------------------- MODULE MCTemporalLifecycle --------------------------
(***************************************************************************)
(* Small instances of TemporalLifecycle.                                   *)
(***************************************************************************)
EXTENDS TemporalLifecycle, TLC

Symmetry == Permutations(Cancels)

=============================================================================
