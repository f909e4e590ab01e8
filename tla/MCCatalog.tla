----------------------------- MODULE MCCatalog -----------------------------
(***************************************************************************)
(* Catalog for TLC.  Its run checks liveness, so no symmetry is used.      *)
(***************************************************************************)
EXTENDS Catalog, TLC

CONSTANTS p1, p2, t1, t2, t3

=============================================================================
