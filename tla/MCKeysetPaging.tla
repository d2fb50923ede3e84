----------------------------- MODULE MCKeysetPaging -----------------------------
(* Rows with equal stamps and rows of a foreign scope, in pages of 1 or 2. *)
EXTENDS KeysetPaging

MCIds == 1..4
MCStamps == 1..2
MCLimits == {1, 2}
=============================================================================
