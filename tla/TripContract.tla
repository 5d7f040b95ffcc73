------------------------------ MODULE TripContract ------------------------------
(***************************************************************************)
(* What TripsService promises about a trip to its callers: the statuses it *)
(* may go through and when the attendance of a student may be taken on it. *)
(* Each operation is one step.  TripService implements it as long as no    *)
(* two requests on one trip overlap (TripService!SerialPerTrip).           *)
(***************************************************************************)
CONSTANTS Trips, Students

VARIABLES
    phase,    \* status of each trip
    mark      \* attendance of each student on each trip

vars == <<phase, mark>>

Open == {"NONE", "ABSENT"}
Marks == Open \cup {"PICKED_UP", "DROPPED_OFF"}

Init ==
    /\ phase = [t \in Trips |-> "UNBORN"]
    /\ mark = [t \in Trips |-> [s \in Students |-> "NONE"]]

Move(t, from, to) ==
    /\ phase[t] \in from
    /\ phase' = [phase EXCEPT ![t] = to]
    /\ UNCHANGED mark

Schedule(t) == Move(t, {"UNBORN"}, "NOT_STARTED")
Start(t) == Move(t, {"NOT_STARTED"}, "IN_PROGRESS")
Finish(t) == Move(t, {"IN_PROGRESS"}, "COMPLETED")
RaiseSos(t) == Move(t, {"NOT_STARTED", "IN_PROGRESS"}, "SOS_ACTIVE")
Resume(t) == Move(t, {"SOS_ACTIVE"}, "IN_PROGRESS")
Abort(t) == Move(t, {"SOS_ACTIVE"}, "COMPLETED")

\* An absence may be revised while the trip runs; a pickup or a drop is final.
Mark(t, s, m) ==
    /\ phase[t] = "IN_PROGRESS"
    /\ mark[t][s] \in Open
    /\ mark' = [mark EXCEPT ![t][s] = m]
    /\ UNCHANGED phase

Next ==
    \E t \in Trips :
        \/ Schedule(t) \/ Start(t) \/ Finish(t) \/ RaiseSos(t) \/ Resume(t) \/ Abort(t)
        \/ \E s \in Students, m \in Marks \ {"NONE"} : Mark(t, s, m)

Spec == Init /\ [][Next]_vars
=============================================================================
