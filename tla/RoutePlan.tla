------------------------------ MODULE RoutePlan ------------------------------
(***************************************************************************)
(* What administrators may rely on when they edit routes: a route is live  *)
(* until it is deleted, has one plan of stops or none, and gets another    *)
(* plan by way of none.  A deleted route keeps the plan it had.            *)
(***************************************************************************)
CONSTANTS Routes, Lists, Empty

VARIABLES life, plan

Create(rt) ==
    /\ life[rt] = "unborn"
    /\ life' = [life EXCEPT ![rt] = "live"]
    /\ UNCHANGED plan

Fill(rt, list) ==
    /\ life[rt] = "live" /\ plan[rt] = Empty
    /\ plan' = [plan EXCEPT ![rt] = list]
    /\ UNCHANGED life

Clear(rt) ==
    /\ life[rt] = "live"
    /\ plan' = [plan EXCEPT ![rt] = Empty]
    /\ UNCHANGED life

Delete(rt) ==
    /\ life[rt] = "live"
    /\ life' = [life EXCEPT ![rt] = "deleted"]
    /\ UNCHANGED plan

Init ==
    /\ life = [rt \in Routes |-> "unborn"]
    /\ plan = [rt \in Routes |-> Empty]

Next ==
    \E rt \in Routes :
        Create(rt) \/ Clear(rt) \/ Delete(rt) \/ \E list \in Lists : Fill(rt, list)

Spec == Init /\ [][Next]_<<life, plan>>
=============================================================================
