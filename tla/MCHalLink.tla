----------------------------- MODULE MCHalLink -----------------------------
(***************************************************************************)
(* HalLink with the callers as a symmetry set, for the safety runs.        *)
(***************************************************************************)
EXTENDS HalLink, TLC

CallerSymmetry == Permutations(Callers)

=============================================================================
