------------------------------ MODULE MCRoutes ------------------------------
(***************************************************************************)
(* Model checking of Routes: symmetry.                                     *)
(***************************************************************************)
EXTENDS Routes, TLC

Symmetry ==
    Permutations(Requests) \cup Permutations(RouteIds) \cup Permutations(Vans)
        \cup Permutations(Lists)
=============================================================================
