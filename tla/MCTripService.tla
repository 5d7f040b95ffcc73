------------------------------ MODULE MCTripService ------------------------------
(***************************************************************************)
(* Model checking of TripService: symmetry, and what the properties do not *)
(* depend on.                                                              *)
(***************************************************************************)
EXTENDS TripService, TLC

Symmetry == Permutations(Requests) \cup Permutations(Students) \cup Permutations(Keys)

\* How a request was answered matters in the step that answers it only.
NoResult == [r \in Requests |-> [req[r] EXCEPT !.result = "none"]]

View == <<stores, NoResult>>

\* For properties of trips and attendance: no guard reads the alerts or sosActivated,
\* and none reads the drivers once all trips have been created.
AttendanceView ==
    <<[t \in Trips |-> [trip[t] EXCEPT !.sosActivated = FALSE]],
      pickupLogs, activeTrips, studentVan,
      IF \E t \in Trips : trip[t].status = "UNBORN" THEN vanDriver ELSE <<>>, NoResult>>
=============================================================================
