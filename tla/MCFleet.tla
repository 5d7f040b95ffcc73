--------------------------------- MODULE MCFleet ---------------------------------
(***************************************************************************)
(* Model checking of Fleet: ids of one kind are interchangeable.           *)
(***************************************************************************)
EXTENDS Fleet, TLC

Symmetry ==
    Permutations(Requests) \cup Permutations(Vans) \cup Permutations(Drivers)
        \cup Permutations(Students)
=============================================================================
