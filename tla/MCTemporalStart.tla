---------------------------- MODULE MCTemporalStart ----------------------------
(***************************************************************************)
(* Small instances of TemporalStart.                                       *)
(***************************************************************************)
EXTENDS TemporalStart, TLC

Symmetry == Permutations(Calls) \cup Permutations(Specs) \cup Permutations(Keys)

=============================================================================
