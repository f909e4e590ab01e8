----------------------------- MODULE MCRowStore -----------------------------
(***************************************************************************)
(* RowStore with the sessions as a symmetry set, for the safety runs.      *)
(***************************************************************************)
EXTENDS RowStore, TLC

SessionSymmetry == Permutations(Sessions)

=============================================================================
