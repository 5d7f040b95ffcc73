----------------------------- MODULE MCRateLimit -----------------------------
(***************************************************************************)
(* Model checking of RateLimit: symmetry.                                  *)
(***************************************************************************)
EXTENDS RateLimit, TLC

Symmetry == Permutations(Callers)
=============================================================================
