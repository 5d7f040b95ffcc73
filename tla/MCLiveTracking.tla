--------------------------- MODULE MCLiveTracking ---------------------------
(***************************************************************************)
(* Model checking of LiveTracking: symmetry, and what the future and the   *)
(* properties do not depend on.                                            *)
(***************************************************************************)
EXTENDS LiveTracking, TLC

Symmetry == Permutations(Requests) \cup Permutations(Sockets)

\* A closed socket that no handler works for: nothing reads or changes its data.
Gone(s) == socket[s].state = "closed" /\ \A r \in Requests : req[r].socket # s

\* The driver's vans are read while a socket may still be connecting.
MayConnect ==
    \/ \E s \in Sockets : socket[s].state = "new"
    \/ \E r \in Requests : At(r, "findUser")

Present == {s \in Sockets : ~Gone(s)}

View ==
    <<[s \in Present |-> <<socket[s], shown[s], {v \in Vans : s \in subscribers[v]}>>],
      IF MayConnect THEN driverVans ELSE {},
      stores, childVans, redis, history, req>>
=============================================================================
