--------------------------- MODULE MCEpisodeIngest ---------------------------
(***************************************************************************)
(* Small instances of EpisodeIngest.                                       *)
(***************************************************************************)
EXTENDS EpisodeIngest

CONSTANTS c1, c2, c3, t1, t2, k1, k2

\* Both keys hash alike: calls on different keys share an advisory lock.
CollidingHash == [x \in Tenants \cup Keys |-> IF x = t2 THEN 1 ELSE 0]

=============================================================================
