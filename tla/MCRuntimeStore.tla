---------------------------- MODULE MCRuntimeStore ----------------------------
(***************************************************************************)
(* Small instances of RuntimeStore.                                        *)
(***************************************************************************)
EXTENDS RuntimeStore, TLC

CONSTANTS s1

\* Every spec has the scope s1; a cancellation may name another one.
OneScope == [spec \in Specs |-> s1]

Symmetry == Permutations(Calls) \cup Permutations(Processes)

=============================================================================
