---------------------------- MODULE RoutesProofs ----------------------------
(***************************************************************************)
(* Theorems about Routes: the types, and, for administrators who wait for  *)
(* the answer before a route's next call (SerialPerRoute), the stops of a  *)
(* route, the routes a van is assigned to and the refinement of RoutePlan; *)
(* last, what overlapping calls may leave of a route's stops.              *)
(***************************************************************************)
EXTENDS Routes, SequenceTheorems, FiniteSetTheorems, TLAPS

\* What a request carries while it waits for a call.
Shape(q) ==
    /\ q.pc \in {"insertRoute", "findRoute", "writeRoute", "deleteStops", "insertStops",
                 "readBack", "deleteRoute", "deleteAssignments", "upsert", "deleteAssignment"}
          => q.route \in RouteIds
    /\ q.pc \in {"findVan", "upsert", "deleteAssignment", "insertVan", "deleteVanRoutes",
                 "insertVanRoutes"}
          => q.van \in Vans
    /\ q.pc = "findRoute" => q.op \in {"updateRoute", "removeRoute", "assignVan"}
    /\ q.pc = "findVan" => q.op \in {"updateVan", "assignVan"}
    /\ q.op = "assignVan" => q.route \in RouteIds /\ q.van \in Vans
    /\ q.pc = "insertStops" => q.stops \in Lists

TypeInv == TypeOK /\ \A r \in Requests : Shape(req[r])

-----------------------------------------------------------------------------
(* Types *)

LEMMA IdleTyped == Idle \in Request /\ Shape(Idle)
<1>1. Idle \in Request
  BY DEF Idle, Request
<1> QED
  BY <1>1 DEF Idle, Shape

LEMMA InitType == Init => TypeInv
<1> SUFFICES ASSUME Init PROVE TypeInv
  OBVIOUS
<1>1. \A rt \in RouteIds : <<>> \in Seq(Lists)
  OBVIOUS
<1> QED
  BY <1>1, IdleTyped DEF Init, TypeInv, TypeOK, Life

\* A request arrives: the tables stay, its slot gets it.
LEMMA ArriveType ==
    ASSUME TypeInv, NEW r \in Requests, Arrive(r)
    PROVE  TypeInv' /\ UNCHANGED tables /\ ~Busy(r)
<1>1. PICK q : q \in Request /\ Shape(q) /\ req' = [req EXCEPT ![r] = q]
  <2>1. ASSUME NEW rt \in RouteIds, NEW list \in Lists \cup {Empty},
               RequestCreate(r, rt, list)
        PROVE  \E q \in Request : Shape(q) /\ req' = [req EXCEPT ![r] = q]
    <3> DEFINE q == [Begin("createRoute", "insertRoute", rt, None) EXCEPT !.stops = list]
    <3>1. q = [op |-> "createRoute", pc |-> "insertRoute", route |-> rt, van |-> None,
               stops |-> list, routes |-> {}]
      BY DEF Begin
    <3>2. q \in Request
      BY <3>1 DEF Request, Calls, RouteOps
    <3>3. Shape(q)
      BY <3>1 DEF Shape
    <3>4. req' = [req EXCEPT ![r] = q]
      BY <2>1 DEF RequestCreate
    <3> HIDE DEF q
    <3> QED
      BY <3>2, <3>3, <3>4
  <2>2. ASSUME NEW rt \in RouteIds, NEW list \in Lists \cup {Empty, Keep},
               RequestUpdate(r, rt, list)
        PROVE  \E q \in Request : Shape(q) /\ req' = [req EXCEPT ![r] = q]
    <3> DEFINE q == [Begin("updateRoute", "findRoute", rt, None) EXCEPT !.stops = list]
    <3>1. q = [op |-> "updateRoute", pc |-> "findRoute", route |-> rt, van |-> None,
               stops |-> list, routes |-> {}]
      BY DEF Begin
    <3>2. q \in Request
      BY <3>1 DEF Request, Calls, RouteOps
    <3>3. Shape(q)
      BY <3>1 DEF Shape
    <3>4. req' = [req EXCEPT ![r] = q]
      BY <2>2 DEF RequestUpdate, RequestRouteOp
    <3> HIDE DEF q
    <3> QED
      BY <3>2, <3>3, <3>4
  <2>3. ASSUME NEW rt \in RouteIds, RequestRemove(r, rt)
        PROVE  \E q \in Request : Shape(q) /\ req' = [req EXCEPT ![r] = q]
    <3> DEFINE q == Begin("removeRoute", "findRoute", rt, None)
    <3>1. q = [op |-> "removeRoute", pc |-> "findRoute", route |-> rt, van |-> None,
               stops |-> Keep, routes |-> {}]
      BY DEF Begin
    <3>2. q \in Request /\ Shape(q)
      BY <3>1 DEF Request, Calls, RouteOps, Shape
    <3>4. req' = [req EXCEPT ![r] = q]
      BY <2>3 DEF RequestRemove, RequestRouteOp
    <3> HIDE DEF q
    <3> QED
      BY <3>2, <3>4
  <2>4. ASSUME NEW rt \in RouteIds, NEW v \in Vans, RequestAssign(r, rt, v)
        PROVE  \E q \in Request : Shape(q) /\ req' = [req EXCEPT ![r] = q]
    <3> DEFINE q == Begin("assignVan", "findRoute", rt, v)
    <3>1. q = [op |-> "assignVan", pc |-> "findRoute", route |-> rt, van |-> v,
               stops |-> Keep, routes |-> {}]
      BY DEF Begin
    <3>2. q \in Request /\ Shape(q)
      BY <3>1 DEF Request, Calls, RouteOps, Shape
    <3>4. req' = [req EXCEPT ![r] = q]
      BY <2>4 DEF RequestAssign, RequestRouteOp
    <3> HIDE DEF q
    <3> QED
      BY <3>2, <3>4
  <2>5. ASSUME NEW rt \in RouteIds, NEW v \in Vans, RequestUnassign(r, rt, v)
        PROVE  \E q \in Request : Shape(q) /\ req' = [req EXCEPT ![r] = q]
    <3> DEFINE q == Begin("unassignVan", "deleteAssignment", rt, v)
    <3>1. q = [op |-> "unassignVan", pc |-> "deleteAssignment", route |-> rt, van |-> v,
               stops |-> Keep, routes |-> {}]
      BY DEF Begin
    <3>2. q \in Request /\ Shape(q)
      BY <3>1 DEF Request, Calls, RouteOps, Shape
    <3>4. req' = [req EXCEPT ![r] = q]
      BY <2>5 DEF RequestUnassign, RequestRouteOp
    <3> HIDE DEF q
    <3> QED
      BY <3>2, <3>4
  <2>6. ASSUME NEW v \in Vans, NEW rts \in SUBSET RouteIds, RequestVan(r, v, rts)
        PROVE  \E q \in Request : Shape(q) /\ req' = [req EXCEPT ![r] = q]
    <3> DEFINE n == [Begin("createVan", "insertVan", None, v) EXCEPT !.routes = rts]
               u == [Begin("updateVan", "findVan", None, v) EXCEPT !.routes = rts]
    <3>1. /\ n = [op |-> "createVan", pc |-> "insertVan", route |-> None, van |-> v,
                  stops |-> Keep, routes |-> rts]
          /\ u = [op |-> "updateVan", pc |-> "findVan", route |-> None, van |-> v,
                  stops |-> Keep, routes |-> rts]
      BY DEF Begin
    <3>2. n \in Request /\ u \in Request
      BY <3>1 DEF Request, Calls, VanOps
    <3>3. Shape(n) /\ Shape(u)
      BY <3>1 DEF Shape
    <3>4. req' = [req EXCEPT ![r] = n] \/ req' = [req EXCEPT ![r] = u]
      BY <2>6 DEF RequestVan
    <3> HIDE DEF n, u
    <3> QED
      BY <3>2, <3>3, <3>4
  <2> QED
    BY <2>1, <2>2, <2>3, <2>4, <2>5, <2>6 DEF Arrive
<1>2. UNCHANGED tables /\ ~Busy(r)
  BY DEF Arrive, RequestCreate, RequestUpdate, RequestRemove, RequestAssign, RequestUnassign,
         RequestVan, RequestRouteOp
<1>3. req' \in [Requests -> Request] /\ \A p \in Requests : Shape(req'[p])
  BY <1>1 DEF TypeInv, TypeOK
<1> QED
  BY <1>2, <1>3 DEF TypeInv, TypeOK, tables

LEMMA FinishTyped ==
    ASSUME TypeInv, NEW r \in Requests, Finish(r)
    PROVE  req' \in [Requests -> Request] /\ \A p \in Requests : Shape(req'[p])
BY IdleTyped DEF TypeInv, TypeOK, Finish

\* A request waits for its next call.
LEMMA GotoTyped ==
    ASSUME TypeInv, NEW r \in Requests, NEW call \in Calls, Goto(r, call),
           call \notin {"findRoute", "findVan", "insertStops"},
           call \in {"writeRoute", "deleteStops", "readBack", "deleteRoute",
                     "deleteAssignments", "upsert"} => req[r].route \in RouteIds,
           call \in {"upsert", "insertVan", "deleteVanRoutes", "insertVanRoutes"}
              => req[r].van \in Vans,
           call \notin {"insertRoute", "deleteAssignment"}
    PROVE  req' \in [Requests -> Request] /\ \A p \in Requests : Shape(req'[p])
<1> DEFINE q == [req[r] EXCEPT !.pc = call]
<1>1. req[r] \in Request /\ Shape(req[r]) /\ req' = [req EXCEPT ![r] = q]
  BY DEF TypeInv, TypeOK, Goto
<1>2. /\ q \in Request /\ q.pc = call /\ q.op = req[r].op
      /\ q.route = req[r].route /\ q.van = req[r].van
  BY <1>1 DEF Request
<1>3. Shape(q)
  BY <1>1, <1>2 DEF Shape
<1> QED
  BY <1>1, <1>2, <1>3 DEF TypeInv, TypeOK

LEMMA StepType ==
    ASSUME TypeInv, NEW r \in Requests, Step(r)
    PROVE  TypeInv'
<1> DEFINE Typed == req' \in [Requests -> Request] /\ \A p \in Requests : Shape(req'[p])
<1>1. req[r] \in Request /\ Shape(req[r])
  BY DEF TypeInv, TypeOK
<1>2. ASSUME Finish(r) PROVE Typed
  BY <1>2, FinishTyped
<1>3. ASSUME NEW call \in {"writeRoute", "deleteStops", "readBack", "deleteRoute",
                           "deleteAssignments"},
             Goto(r, call), req[r].route \in RouteIds
      PROVE  Typed
  BY <1>3, GotoTyped DEF Calls
<1>4. ASSUME NEW call \in {"deleteVanRoutes", "insertVanRoutes"},
             Goto(r, call), req[r].van \in Vans
      PROVE  Typed
  BY <1>4, GotoTyped DEF Calls
<1>5. ASSUME Goto(r, "insertStops"), req[r].stops \in Lists, req[r].route \in RouteIds
      PROVE  Typed
  <2> DEFINE q == [req[r] EXCEPT !.pc = "insertStops"]
  <2>1. req' = [req EXCEPT ![r] = q]
    BY <1>5 DEF Goto
  <2>2. /\ q \in Request /\ q.pc = "insertStops" /\ q.op = req[r].op
        /\ q.route = req[r].route /\ q.van = req[r].van /\ q.stops = req[r].stops
    BY <1>1 DEF Request, Calls
  <2>3. Shape(q)
    BY <1>1, <1>5, <2>2 DEF Shape
  <2> QED
    BY <2>1, <2>2, <2>3 DEF TypeInv, TypeOK
<1>6. CASE InsertRoute(r)
  <2>1. req[r].route \in RouteIds /\ (req[r].stops \in Lists \/ req[r].stops \notin Lists)
    BY <1>1, <1>6 DEF InsertRoute, At, Shape
  <2>2. Typed
    BY <1>3, <1>5, <1>6, <2>1 DEF InsertRoute
  <2> QED
    BY <1>6, <2>1, <2>2 DEF InsertRoute, TypeInv, TypeOK, Life
<1>7. CASE FindRoute(r)
  <2>1. req[r].route \in RouteIds /\ req[r].op \in {"updateRoute", "removeRoute", "assignVan"}
    BY <1>1, <1>7 DEF FindRoute, At, Shape
  <2>2. ASSUME Goto(r, "findVan"), req[r].op = "assignVan" PROVE Typed
    <3> DEFINE q == [req[r] EXCEPT !.pc = "findVan"]
    <3>1. req' = [req EXCEPT ![r] = q]
      BY <2>2 DEF Goto
    <3>2. /\ q \in Request /\ q.pc = "findVan" /\ q.op = req[r].op
          /\ q.route = req[r].route /\ q.van = req[r].van /\ q.stops = req[r].stops
      BY <1>1 DEF Request, Calls
    <3>3. Shape(q)
      BY <1>1, <2>2, <3>2 DEF Shape
    <3> QED
      BY <3>1, <3>2, <3>3 DEF TypeInv, TypeOK
  <2>3. /\ AfterFound["updateRoute"] = "writeRoute" /\ AfterFound["removeRoute"] = "deleteRoute"
        /\ AfterFound["assignVan"] = "findVan"
    BY DEF AfterFound
  <2>4. Typed
    BY <1>2, <1>3, <1>7, <2>1, <2>2, <2>3 DEF FindRoute
  <2> QED
    BY <1>7, <2>4 DEF FindRoute, TypeInv, TypeOK, tables
<1>8. CASE WriteRoute(r)
  <2>1. Typed
    BY <1>1, <1>3, <1>8 DEF WriteRoute, At, Shape, AfterWrite
  <2> QED
    BY <1>8, <2>1 DEF WriteRoute, TypeInv, TypeOK, tables
<1>9. CASE DeleteStops(r)
  <2>1. req[r].route \in RouteIds
    BY <1>1, <1>9 DEF DeleteStops, At, Shape
  <2>2. Typed
    BY <1>3, <1>5, <1>9, <2>1 DEF DeleteStops
  <2>3. stops' \in [RouteIds -> Seq(Lists)]
    BY <1>9, <2>1 DEF DeleteStops, WithoutStops, TypeInv, TypeOK
  <2> QED
    BY <1>9, <2>2, <2>3 DEF DeleteStops, TypeInv, TypeOK
<1>10. CASE InsertStops(r)
  <2>1. req[r].route \in RouteIds /\ req[r].stops \in Lists
    BY <1>1, <1>10 DEF InsertStops, At, Shape
  <2>2. Typed
    BY <1>3, <1>10, <2>1 DEF InsertStops
  <2>3. Append(stops[req[r].route], req[r].stops) \in Seq(Lists)
    BY <2>1 DEF TypeInv, TypeOK
  <2>4. stops' \in [RouteIds -> Seq(Lists)]
    BY <1>10, <2>1, <2>3 DEF InsertStops, TypeInv, TypeOK
  <2> QED
    BY <1>10, <2>2, <2>4 DEF InsertStops, TypeInv, TypeOK
<1>11. CASE ReadBack(r)
  BY <1>2, <1>11 DEF ReadBack, TypeInv, TypeOK, tables
<1>12. CASE DeleteRoute(r)
  <2>1. req[r].route \in RouteIds
    BY <1>1, <1>12 DEF DeleteRoute, At, Shape
  <2>2. Typed
    BY <1>3, <1>12, <2>1 DEF DeleteRoute
  <2> QED
    BY <1>12, <2>1, <2>2 DEF DeleteRoute, TypeInv, TypeOK, Life
<1>13. CASE DeleteAssignments(r)
  BY <1>2, <1>13 DEF DeleteAssignments, TypeInv, TypeOK
<1>14. CASE FindVan(r)
  <2>1. req[r].van \in Vans /\ req[r].op \in {"updateVan", "assignVan"}
    BY <1>1, <1>14 DEF FindVan, At, Shape
  <2>2. ASSUME Goto(r, "upsert"), req[r].op = "assignVan" PROVE Typed
    BY <1>1, <2>2, GotoTyped DEF Calls, Shape
  <2>3. Typed
    BY <1>2, <1>4, <1>14, <2>1, <2>2 DEF FindVan
  <2> QED
    BY <1>14, <2>3 DEF FindVan, TypeInv, TypeOK, tables
<1>15. CASE Upsert(r)
  <2>1. req[r].route \in RouteIds /\ req[r].van \in Vans
    BY <1>1, <1>15 DEF Upsert, At, Shape
  <2> QED
    BY <1>2, <1>15, <2>1 DEF Upsert, TypeInv, TypeOK
<1>16. CASE DeleteAssignment(r)
  BY <1>2, <1>16 DEF DeleteAssignment, TypeInv, TypeOK
<1>17. CASE InsertVan(r)
  <2>1. req[r].van \in Vans
    BY <1>1, <1>17 DEF InsertVan, At, Shape
  <2>2. Typed
    BY <1>2, <1>4, <1>17, <2>1 DEF InsertVan
  <2> QED
    BY <1>17, <2>1, <2>2 DEF InsertVan, TypeInv, TypeOK, Life
<1>18. CASE DeleteVanRoutes(r)
  <2>1. req[r].van \in Vans
    BY <1>1, <1>18 DEF DeleteVanRoutes, At, Shape
  <2>2. Typed
    BY <1>2, <1>4, <1>18, <2>1 DEF DeleteVanRoutes
  <2> QED
    BY <1>18, <2>2 DEF DeleteVanRoutes, TypeInv, TypeOK
<1>19. CASE InsertVanRoutes(r)
  <2>1. req[r].van \in Vans /\ req[r].routes \subseteq RouteIds
    BY <1>1, <1>19 DEF InsertVanRoutes, At, Shape, Request
  <2> QED
    BY <1>2, <1>19, <2>1 DEF InsertVanRoutes, TypeInv, TypeOK
<1> QED
  BY <1>6, <1>7, <1>8, <1>9, <1>10, <1>11, <1>12, <1>13, <1>14, <1>15, <1>16, <1>17, <1>18,
     <1>19 DEF Step

LEMMA NextType == TypeInv /\ [Next]_vars => TypeInv'
<1> SUFFICES ASSUME TypeInv, [Next]_vars PROVE TypeInv'
  OBVIOUS
<1>1. ASSUME NEW r \in Requests, Arrive(r) \/ Step(r) \/ CallFails(r) PROVE TypeInv'
  <2>1. CASE CallFails(r)
    BY <2>1, FinishTyped DEF CallFails, TypeInv, TypeOK, tables
  <2> QED
    BY <1>1, <2>1, ArriveType, StepType
<1>2. ASSUME NEW v \in Vans, VanRemoved(v) PROVE TypeInv'
  BY <1>2 DEF VanRemoved, TypeInv, TypeOK, Life
<1>3. CASE Crash
  BY <1>3, IdleTyped DEF Crash, TypeInv, TypeOK, tables
<1>4. CASE UNCHANGED vars
  BY <1>4 DEF vars, TypeInv, TypeOK
<1> QED
  BY <1>1, <1>2, <1>3, <1>4 DEF Next

\* The types hold throughout, whatever fails and whoever overlaps (routes.service.ts,
\* vans.service.ts): no call works on a route or van its request does not name.
THEOREM TypeSafety == Spec => []TypeOK
<1>1. TypeInv => TypeOK
  BY DEF TypeInv
<1> QED
  BY <1>1, InitType, NextType, PTL DEF Spec

-----------------------------------------------------------------------------
(* Requests arrive and move *)

\* What is new in flight when a request arrives.
Fresh(q) ==
    /\ q.route # None => RouteFree(q.route)
    /\ \/ /\ q.pc = "insertRoute" /\ route[q.route] = "unborn"
          /\ \A p \in Requests : req[p].route # q.route
       \/ q.pc \in {"findRoute", "deleteAssignment"} /\ route[q.route] # "unborn"
       \/ q.pc = "insertVan" /\ q.route = None
       \/ q.pc = "findVan" /\ q.op = "updateVan" /\ q.route = None

LEMMA ArriveFresh ==
    ASSUME TypeInv, NEW r \in Requests, Arrive(r)
    PROVE  \E q \in Request : req' = [req EXCEPT ![r] = q] /\ Fresh(q)
<1> DEFINE New(q) == req' = [req EXCEPT ![r] = q] /\ Fresh(q)
<1>1. ASSUME NEW rt \in RouteIds, NEW list \in Lists \cup {Empty}, RequestCreate(r, rt, list)
      PROVE  \E q \in Request : New(q)
  <2> DEFINE q == [op |-> "createRoute", pc |-> "insertRoute", route |-> rt, van |-> None,
                   stops |-> list, routes |-> {}]
  <2>1. q \in Request
    BY DEF Request, Calls, RouteOps
  <2>2. q = [Begin("createRoute", "insertRoute", rt, None) EXCEPT !.stops = list]
    BY DEF Begin
  <2>3. q.route = rt /\ q.pc = "insertRoute"
    OBVIOUS
  <2> HIDE DEF q
  <2>4. New(q)
    BY <1>1, <2>2, <2>3 DEF RequestCreate, Fresh, RouteFree
  <2> HIDE DEF New
  <2> QED
    BY <2>1, <2>4
<1>2. ASSUME NEW q \in Request, RequestRouteOp(r, q), q.pc \in {"findRoute", "deleteAssignment"}
      PROVE  \E n \in Request : New(n)
  <2>1. New(q)
    BY <1>2 DEF RequestRouteOp, Fresh
  <2> QED
    BY <2>1
<1>3. ASSUME NEW rt \in RouteIds, NEW list \in Lists \cup {Empty, Keep}, RequestUpdate(r, rt, list)
      PROVE  \E q \in Request : New(q)
  <2> DEFINE q == [op |-> "updateRoute", pc |-> "findRoute", route |-> rt, van |-> None,
                   stops |-> list, routes |-> {}]
  <2>1. q \in Request /\ q.pc = "findRoute"
    BY DEF Request, Calls, RouteOps
  <2>2. RequestRouteOp(r, q)
    BY <1>3 DEF RequestUpdate, Begin
  <2> HIDE DEF q, New
  <2> QED
    BY <1>2, <2>1, <2>2
<1>4. ASSUME NEW rt \in RouteIds, RequestRemove(r, rt) PROVE \E q \in Request : New(q)
  <2> DEFINE q == Begin("removeRoute", "findRoute", rt, None)
  <2>1. q \in Request /\ q.pc = "findRoute"
    BY DEF Request, Calls, RouteOps, Begin
  <2> HIDE DEF q, New
  <2> QED
    BY <1>2, <1>4, <2>1 DEF RequestRemove, q
<1>5. ASSUME NEW rt \in RouteIds, NEW v \in Vans, RequestAssign(r, rt, v)
      PROVE  \E q \in Request : New(q)
  <2> DEFINE q == Begin("assignVan", "findRoute", rt, v)
  <2>1. q \in Request /\ q.pc = "findRoute"
    BY DEF Request, Calls, RouteOps, Begin
  <2> HIDE DEF q, New
  <2> QED
    BY <1>2, <1>5, <2>1 DEF RequestAssign, q
<1>6. ASSUME NEW rt \in RouteIds, NEW v \in Vans, RequestUnassign(r, rt, v)
      PROVE  \E q \in Request : New(q)
  <2> DEFINE q == Begin("unassignVan", "deleteAssignment", rt, v)
  <2>1. q \in Request /\ q.pc = "deleteAssignment"
    BY DEF Request, Calls, RouteOps, Begin
  <2> HIDE DEF q, New
  <2> QED
    BY <1>2, <1>6, <2>1 DEF RequestUnassign, q
<1>7. ASSUME NEW v \in Vans, NEW rts \in SUBSET RouteIds, RequestVan(r, v, rts)
      PROVE  \E q \in Request : New(q)
  <2> DEFINE n == [op |-> "createVan", pc |-> "insertVan", route |-> None, van |-> v,
                   stops |-> Keep, routes |-> rts]
             u == [op |-> "updateVan", pc |-> "findVan", route |-> None, van |-> v,
                   stops |-> Keep, routes |-> rts]
  <2>1. n \in Request /\ u \in Request
    BY DEF Request, Calls, VanOps
  <2>2. New(n) \/ New(u)
    BY <1>7 DEF RequestVan, Begin, Fresh
  <2> HIDE DEF n, u, New
  <2> QED
    BY <2>1, <2>2
<1> QED
  BY <1>1, <1>3, <1>4, <1>5, <1>6, <1>7 DEF Arrive

\* A step of r moves r alone, and touches its own route alone.
LEMMA StepMovesOne ==
    ASSUME TypeInv, NEW r \in Requests, Step(r) \/ CallFails(r)
    PROVE  /\ Busy(r)
           /\ Finish(r) \/ \E call \in Calls : Goto(r, call)
           /\ \A rt \in RouteIds \ {req[r].route} :
                 route'[rt] = route[rt] /\ stops'[rt] = stops[rt]
<1>1. Busy(r)
  BY DEF Step, CallFails, Busy, At, InsertRoute, FindRoute, WriteRoute, DeleteStops, InsertStops,
         ReadBack, DeleteRoute, DeleteAssignments, FindVan, Upsert, DeleteAssignment, InsertVan,
         DeleteVanRoutes, InsertVanRoutes
<1>2. Finish(r) \/ \E call \in Calls : Goto(r, call)
  <2>1. FindRoute(r) => Finish(r) \/ \E call \in Calls : Goto(r, call)
    BY DEF FindRoute, AfterFound, At, TypeInv, Shape, Calls
  <2>2. \A list : AfterWrite(list) \in Calls
    BY DEF AfterWrite, Calls
  <2>3. WriteRoute(r) => \E call \in Calls : Goto(r, call)
    BY <2>2 DEF WriteRoute
  <2> QED
    BY <2>1, <2>3 DEF Step, CallFails, Calls, InsertRoute, DeleteStops, InsertStops,
         ReadBack, DeleteRoute, DeleteAssignments, FindVan, Upsert, DeleteAssignment, InsertVan,
         DeleteVanRoutes, InsertVanRoutes
<1>3. \A rt \in RouteIds \ {req[r].route} : route'[rt] = route[rt] /\ stops'[rt] = stops[rt]
  BY DEF Step, CallFails, tables, TypeInv, TypeOK, InsertRoute, FindRoute, WriteRoute,
         DeleteStops, WithoutStops, InsertStops, ReadBack, DeleteRoute, DeleteAssignments, FindVan,
         Upsert, DeleteAssignment, InsertVan, DeleteVanRoutes, InsertVanRoutes
<1> QED
  BY <1>1, <1>2, <1>3

-----------------------------------------------------------------------------
(* Administrators who wait *)

\* No two requests in flight are about one route.
Serial ==
    \A r, p \in Requests :
        Busy(r) /\ Busy(p) /\ req[r].route = req[p].route /\ req[r].route # None => r = p

\* What a request found stays true until it is answered.
Seen(q) ==
    /\ q.pc = "insertRoute" => route[q.route] = "unborn"
    /\ q.pc \in {"writeRoute", "deleteStops", "insertStops", "readBack", "deleteRoute", "upsert"}
          => route[q.route] = "live"
    /\ q.pc = "findVan" /\ q.op = "assignVan" => route[q.route] = "live"
    /\ q.pc = "insertStops" => stops[q.route] = <<>>
    /\ q.pc = "readBack" /\ q.stops # Keep =>
          stops[q.route] = IF q.stops = Empty THEN <<>> ELSE <<q.stops>>

UnbornHasNone == \A rt \in RouteIds : route[rt] = "unborn" => stops[rt] = <<>>

SerialInv == Serial /\ UnbornHasNone /\ OneListOfStops /\ \A r \in Requests : Seen(req[r])

LEMMA NextSerial ==
    ASSUME SerialPerRoute, TypeInv, SerialInv, [Next]_vars
    PROVE  Serial'
<1>1. ASSUME NEW r \in Requests, Arrive(r) PROVE Serial'
  <2>1. PICK q \in Request :
              /\ req' = [req EXCEPT ![r] = q]
              /\ q.route # None => \A p \in Requests : Busy(p) => req[p].route # q.route
    BY <1>1, ArriveFresh DEF Fresh, RouteFree
  <2> QED
    BY <2>1 DEF SerialInv, Serial, Busy, TypeInv, TypeOK
<1>2. ASSUME NEW r \in Requests, Step(r) \/ CallFails(r) PROVE Serial'
  <2>1. Busy(r) /\ req \in [Requests -> Request] /\ req[r] \in Request
    BY <1>2, StepMovesOne DEF TypeInv, TypeOK
  <2>2. CASE Finish(r)
    BY <2>1, <2>2 DEF SerialInv, Serial, Busy, Finish, Idle
  <2>3. ASSUME NEW call \in Calls, Goto(r, call) PROVE Serial'
    <3>1. /\ \A p \in Requests \ {r} : req'[p] = req[p]
          /\ req'[r].route = req[r].route
      BY <2>1, <2>3 DEF Goto, Request
    <3> QED
      BY <2>1, <3>1 DEF SerialInv, Serial, Busy
  <2> QED
    BY <1>2, <2>2, <2>3, StepMovesOne
<1>3. CASE Crash
  BY <1>3 DEF Crash, Serial, Busy, Idle
<1>4. CASE UNCHANGED req
  BY <1>4 DEF SerialInv, Serial, Busy
<1> QED
  BY <1>1, <1>2, <1>3, <1>4 DEF Next, VanRemoved, vars

\* What the other requests have seen is not touched by a step of r.
LEMMA OthersStillSee ==
    ASSUME TypeInv, SerialInv, NEW r \in Requests, Step(r) \/ CallFails(r),
           NEW p \in Requests \ {r}
    PROVE  req'[p] = req[p] /\ Seen(req[p])'
<1>1. req'[p] = req[p]
  BY StepMovesOne DEF Finish, Goto, TypeInv, TypeOK
<1> DEFINE Relies == \/ req[p].pc \in {"insertRoute", "writeRoute", "deleteStops", "insertStops",
                                      "readBack", "deleteRoute", "upsert"}
                     \/ req[p].pc = "findVan" /\ req[p].op = "assignVan"
<1>2. CASE Relies
  <2>1. req[p].route \in RouteIds /\ Busy(p) /\ Busy(r)
    BY <1>2, StepMovesOne DEF TypeInv, Shape, Busy
  <2>2. req[p].route \in RouteIds \ {req[r].route}
    BY <2>1, RoutesAssumption DEF SerialInv, Serial
  <2>3. /\ route'[req[p].route] = route[req[p].route]
        /\ stops'[req[p].route] = stops[req[p].route]
    BY <2>2, StepMovesOne
  <2> QED
    BY <1>1, <2>3 DEF SerialInv, Seen
<1>3. CASE ~Relies
  <2>1. req[p].pc \notin {"insertRoute", "writeRoute", "deleteStops", "insertStops",
                         "readBack", "deleteRoute", "upsert"}
    BY <1>3
  <2>2. ~(req[p].pc = "findVan" /\ req[p].op = "assignVan")
    BY <1>3
  <2>3. /\ req'[p].pc \notin {"insertRoute", "writeRoute", "deleteStops", "insertStops",
                             "readBack", "deleteRoute", "upsert"}
        /\ ~(req'[p].pc = "findVan" /\ req'[p].op = "assignVan")
    BY <1>1, <2>1, <2>2
  <2> QED
    BY <1>1, <2>3 DEF Seen
<1> HIDE DEF Relies
<1> QED
  BY <1>1, <1>2, <1>3

\* A list of a request is neither of the two names for having none.
LEMMA ListsAreLists == \A list \in Lists : list # Empty /\ list # Keep
BY RoutesAssumption

\* The rows after a step of r, and what r has seen.
StepResult(r) == UnbornHasNone' /\ OneListOfStops' /\ Seen(req[r])'

LEMMA IdleSees == Seen(Idle) /\ Seen(Idle)'
BY DEF Seen, Idle

LEMMA QuietStep ==
    ASSUME SerialInv, NEW r \in Requests, UNCHANGED <<route, stops>>, Seen(req[r])'
    PROVE  StepResult(r)
BY DEF SerialInv, StepResult, UnbornHasNone, OneListOfStops

LEMMA StepKeeps ==
    ASSUME TypeInv, SerialInv, NEW r \in Requests, Step(r) \/ CallFails(r)
    PROVE  StepResult(r)
<1> DEFINE rt == req[r].route
           q(call) == [req[r] EXCEPT !.pc = call]
<1>1. /\ req \in [Requests -> Request] /\ req[r] \in Request /\ Shape(req[r]) /\ Seen(req[r])
      /\ route \in [RouteIds -> Life] /\ stops \in [RouteIds -> Seq(Lists)]
  BY DEF TypeInv, TypeOK, SerialInv
<1>2. ASSUME NEW call \in Calls
      PROVE  /\ q(call).pc = call /\ q(call).op = req[r].op
             /\ q(call).route = rt /\ q(call).stops = req[r].stops
  BY <1>1 DEF Request
<1>3. ASSUME NEW call \in Calls, Goto(r, call) PROVE req'[r] = q(call)
  BY <1>1, <1>3 DEF Goto
<1>4. ASSUME Finish(r) PROVE Seen(req[r])'
  BY <1>1, <1>4, IdleSees DEF Finish
<1>5. UnbornHasNone /\ OneListOfStops
  BY DEF SerialInv
<1>6. CASE InsertRoute(r)
  <2>1. /\ rt \in RouteIds /\ route[rt] = "unborn" /\ stops[rt] = <<>>
        /\ route' = [route EXCEPT ![rt] = "live"] /\ stops' = stops
    BY <1>1, <1>5, <1>6 DEF InsertRoute, At, Shape, Seen, UnbornHasNone
  <2>2. UnbornHasNone' /\ OneListOfStops'
    BY <1>1, <1>5, <2>1 DEF UnbornHasNone, OneListOfStops
  <2>3. CASE req[r].stops \in Lists /\ Goto(r, "insertStops")
    <3>1. req'[r] = q("insertStops") /\ "insertStops" \in Calls
      BY <1>3, <2>3 DEF Calls
    <3> QED
      BY <1>1, <1>2, <2>1, <2>2, <3>1 DEF Seen, StepResult
  <2>4. CASE req[r].stops \notin Lists /\ Goto(r, "readBack")
    <3>1. req'[r] = q("readBack") /\ "readBack" \in Calls /\ req[r].stops \in {Empty, Keep}
      BY <1>1, <1>3, <2>4 DEF Calls, Request
    <3> QED
      BY <1>1, <1>2, <2>1, <2>2, <3>1 DEF Seen, StepResult
  <2> QED
    BY <1>6, <2>3, <2>4 DEF InsertRoute
<1>7. CASE FindRoute(r)
  <2>1. /\ rt \in RouteIds /\ route' = route /\ stops' = stops
        /\ req[r].op \in {"updateRoute", "removeRoute", "assignVan"}
    BY <1>1, <1>7 DEF FindRoute, At, Shape, tables
  <2>2. ASSUME NEW call \in {"writeRoute", "deleteRoute", "findVan"}, Goto(r, call), Found(rt)
        PROVE  Seen(req[r])'
    <3>1. req'[r] = q(call) /\ call \in Calls
      BY <1>3, <2>2 DEF Calls
    <3> QED
      BY <1>2, <2>1, <2>2, <3>1 DEF Seen, Found
  <2>3. /\ AfterFound["updateRoute"] = "writeRoute" /\ AfterFound["removeRoute"] = "deleteRoute"
        /\ AfterFound["assignVan"] = "findVan"
    BY DEF AfterFound
  <2>4. Seen(req[r])'
    BY <1>4, <1>7, <2>1, <2>2, <2>3 DEF FindRoute
  <2> QED
    BY <2>1, <2>4, QuietStep
<1>8. CASE WriteRoute(r)
  <2>1. /\ route' = route /\ stops' = stops /\ route[rt] = "live"
        /\ \/ Goto(r, "readBack") /\ req[r].stops = Keep
           \/ Goto(r, "deleteStops")
    BY <1>1, <1>8 DEF WriteRoute, At, Seen, tables, AfterWrite
  <2>2. {"readBack", "deleteStops"} \subseteq Calls
    BY DEF Calls
  <2>3. Seen(req[r])'
    BY <1>2, <1>3, <2>1, <2>2 DEF Seen
  <2> QED
    BY <2>1, <2>3, QuietStep
<1>9. CASE DeleteStops(r)
  <2>1. /\ rt \in RouteIds /\ route[rt] = "live" /\ route' = route
        /\ stops' = [stops EXCEPT ![rt] = <<>>]
    BY <1>1, <1>9 DEF DeleteStops, At, Shape, Seen, WithoutStops
  <2>2. UnbornHasNone' /\ OneListOfStops'
    BY <1>1, <1>5, <2>1 DEF UnbornHasNone, OneListOfStops
  <2>3. CASE req[r].stops \in Lists /\ Goto(r, "insertStops")
    <3>1. req'[r] = q("insertStops") /\ "insertStops" \in Calls
      BY <1>3, <2>3 DEF Calls
    <3> QED
      BY <1>1, <1>2, <2>1, <2>2, <3>1 DEF Seen, StepResult
  <2>4. CASE req[r].stops \notin Lists /\ Goto(r, "readBack")
    <3>1. req'[r] = q("readBack") /\ "readBack" \in Calls /\ req[r].stops \in {Empty, Keep}
      BY <1>1, <1>3, <2>4 DEF Calls, Request
    <3> QED
      BY <1>1, <1>2, <2>1, <2>2, <3>1 DEF Seen, StepResult
  <2> QED
    BY <1>9, <2>3, <2>4 DEF DeleteStops
<1>10. CASE InsertStops(r)
  <2> DEFINE list == req[r].stops
  <2>1. /\ rt \in RouteIds /\ list \in Lists /\ route[rt] = "live" /\ stops[rt] = <<>>
        /\ route' = route /\ stops' = [stops EXCEPT ![rt] = Append(stops[rt], list)]
        /\ req'[r] = q("readBack") /\ "readBack" \in Calls
    BY <1>1, <1>3, <1>10 DEF InsertStops, At, Shape, Seen, Calls
  <2>2. stops'[rt] = <<list>> /\ \A x \in RouteIds \ {rt} : stops'[x] = stops[x]
    BY <1>1, <2>1
  <2>3. Len(<<list>>) = 1
    OBVIOUS
  <2>4. UnbornHasNone' /\ OneListOfStops'
    BY <1>5, <2>1, <2>2, <2>3 DEF UnbornHasNone, OneListOfStops
  <2>5. list # Empty /\ route'[rt] = "live"
    BY <2>1, ListsAreLists
  <2>6. Seen(req[r])'
    BY <1>2, <2>1, <2>2, <2>5 DEF Seen
  <2> QED
    BY <2>4, <2>6 DEF StepResult
<1>11. CASE ReadBack(r) \/ DeleteAssignments(r) \/ Upsert(r) \/ DeleteAssignment(r)
            \/ InsertVanRoutes(r) \/ CallFails(r)
  <2>1. Finish(r) /\ route' = route /\ stops' = stops
    BY <1>11 DEF ReadBack, DeleteAssignments, Upsert, DeleteAssignment, InsertVanRoutes,
                 CallFails, tables
  <2> QED
    BY <1>4, <2>1, QuietStep
<1>12. CASE DeleteRoute(r)
  <2>1. /\ rt \in RouteIds /\ stops' = stops /\ route' = [route EXCEPT ![rt] = "deleted"]
        /\ req'[r] = q("deleteAssignments") /\ "deleteAssignments" \in Calls
    BY <1>1, <1>3, <1>12 DEF DeleteRoute, At, Shape, Calls
  <2>2. UnbornHasNone' /\ OneListOfStops'
    BY <1>1, <1>5, <2>1 DEF UnbornHasNone, OneListOfStops
  <2>3. Seen(req[r])'
    BY <1>2, <2>1 DEF Seen
  <2> QED
    BY <2>2, <2>3 DEF StepResult
<1>13. CASE FindVan(r)
  <2>1. route' = route /\ stops' = stops /\ req[r].pc = "findVan"
    BY <1>13 DEF FindVan, At, tables
  <2>2. ASSUME Goto(r, "upsert"), req[r].op = "assignVan" PROVE Seen(req[r])'
    <3>1. req'[r] = q("upsert") /\ "upsert" \in Calls
      BY <1>3, <2>2 DEF Calls
    <3> QED
      BY <1>1, <1>2, <2>1, <2>2, <3>1 DEF Seen
  <2>3. ASSUME Goto(r, "deleteVanRoutes") PROVE Seen(req[r])'
    <3>1. req'[r] = q("deleteVanRoutes") /\ "deleteVanRoutes" \in Calls
      BY <1>3, <2>3 DEF Calls
    <3> QED
      BY <1>2, <3>1 DEF Seen
  <2>4. Seen(req[r])'
    BY <1>4, <1>13, <2>2, <2>3 DEF FindVan
  <2> QED
    BY <2>1, <2>4, QuietStep
<1>14. CASE InsertVan(r) \/ DeleteVanRoutes(r)
  <2>1. route' = route /\ stops' = stops /\ (Finish(r) \/ Goto(r, "insertVanRoutes"))
    BY <1>14 DEF InsertVan, DeleteVanRoutes
  <2>2. ASSUME Goto(r, "insertVanRoutes") PROVE Seen(req[r])'
    <3>1. req'[r] = q("insertVanRoutes") /\ "insertVanRoutes" \in Calls
      BY <1>3, <2>2 DEF Calls
    <3> QED
      BY <1>2, <3>1 DEF Seen
  <2> QED
    BY <1>4, <2>1, <2>2, QuietStep
<1> QED
  BY <1>6, <1>7, <1>8, <1>9, <1>10, <1>11, <1>12, <1>13, <1>14 DEF Step

Inv == TypeInv /\ SerialInv

LEMMA InitSerial == Init => SerialInv
<1> SUFFICES ASSUME Init PROVE SerialInv
  OBVIOUS
<1>1. Serial
  BY DEF Init, Serial, Busy, Idle
<1>2. UnbornHasNone /\ OneListOfStops
  BY DEF Init, UnbornHasNone, OneListOfStops
<1>3. \A r \in Requests : Seen(req[r])
  BY IdleSees DEF Init
<1> QED
  BY <1>1, <1>2, <1>3 DEF SerialInv

LEMMA NextInv ==
    ASSUME SerialPerRoute PROVE Inv /\ [Next]_vars => Inv'
<1> SUFFICES ASSUME Inv, [Next]_vars PROVE Inv'
  OBVIOUS
<1>1. TypeInv' /\ Serial'
  BY NextType, NextSerial DEF Inv
<1>2. ASSUME NEW r \in Requests, Arrive(r) PROVE SerialInv'
  <2>1. UNCHANGED tables
    BY <1>2, ArriveType DEF Inv
  <2>2. PICK q \in Request :
              /\ req' = [req EXCEPT ![r] = q]
              /\ \/ q.pc = "insertRoute" /\ route[q.route] = "unborn"
                 \/ q.pc \in {"findRoute", "deleteAssignment", "insertVan"}
                 \/ q.pc = "findVan" /\ q.op = "updateVan"
    BY <1>2, ArriveFresh DEF Inv, Fresh
  <2>3. ASSUME NEW p \in Requests PROVE Seen(req[p])'
    <3>1. CASE p = r
      BY <2>1, <2>2, <3>1 DEF Inv, TypeInv, TypeOK, Seen, tables
    <3>2. CASE p # r
      <4>1. req'[p] = req[p] /\ Seen(req[p])
        BY <2>2, <3>2 DEF Inv, SerialInv, TypeInv, TypeOK
      <4> QED
        BY <2>1, <4>1 DEF Seen, tables
    <3> QED
      BY <3>1, <3>2
  <2> QED
    BY <1>1, <2>1, <2>3 DEF Inv, SerialInv, UnbornHasNone, OneListOfStops, tables
<1>3. ASSUME NEW r \in Requests, Step(r) \/ CallFails(r) PROVE SerialInv'
  <2>1. StepResult(r)
    BY <1>3, StepKeeps DEF Inv
  <2>2. \A p \in Requests \ {r} : Seen(req[p])'
    BY <1>3, OthersStillSee DEF Inv
  <2> QED
    BY <1>1, <2>1, <2>2 DEF SerialInv, StepResult
<1>4. CASE Crash
  BY <1>1, <1>4, IdleSees DEF Crash, Inv, SerialInv, UnbornHasNone, OneListOfStops, tables
<1>5. CASE UNCHANGED <<route, stops, req>>
  BY <1>1, <1>5 DEF Inv, SerialInv, UnbornHasNone, OneListOfStops, Seen
<1> QED
  BY <1>1, <1>2, <1>3, <1>4, <1>5 DEF Inv, Next, VanRemoved, vars

\* A create or an update inserts stops only where there are none (routes.service.ts:154),
\* so a route has one list of stops, whatever call fails and however often it is edited.
THEOREM StopsSafety ==
    ASSUME SerialPerRoute PROVE Spec => []OneListOfStops
<1>1. Init => Inv
  BY InitType, InitSerial DEF Inv
<1>2. Inv => OneListOfStops
  BY DEF Inv, SerialInv
<1> QED
  BY <1>1, <1>2, NextInv, PTL DEF Spec

\* The stops read back for the answer (routes.service.ts:41, :160) are those of the request.
THEOREM AnswerSafety ==
    ASSUME SerialPerRoute PROVE Spec => []AnswerShowsStops
<1>1. Init => Inv
  BY InitType, InitSerial DEF Inv
<1>2. Inv => AnswerShowsStops
  BY DEF Inv, SerialInv, Seen, AnswerShowsStops, At
<1> QED
  BY <1>1, <1>2, NextInv, PTL DEF Spec

\* The route assignVan has found (routes.service.ts:267) is live when the van gets it.
THEOREM AssignSafety ==
    ASSUME SerialPerRoute PROVE Spec => AssignsLiveRoute
<1>1. Init => Inv
  BY InitType, InitSerial DEF Inv
<1>2. Inv /\ [Next]_vars =>
        [\A r \in Requests :
            At(r, "upsert") /\ req'[r] = Idle /\ vanRoutes' # vanRoutes =>
                route[req[r].route] = "live"]_vars
  BY DEF Inv, SerialInv, Seen, At
<1> QED
  BY <1>1, <1>2, NextInv, PTL DEF Spec, AssignsLiveRoute

-----------------------------------------------------------------------------
(* The plan of a route *)

plan == [rt \in RouteIds |-> ListOf(rt)]

LEMMA InitPlan == Init => Plan!Init
BY DEF Init, Plan!Init, ListOf

\* A step on a route is the plan's step that it is meant to be, or none.
LEMMA StepPlan ==
    ASSUME Inv, NEW r \in Requests, Step(r) \/ CallFails(r)
    PROVE  Plan!Next \/ UNCHANGED <<route, stops>>
<1> DEFINE rt == req[r].route
<1>1. /\ Shape(req[r]) /\ Seen(req[r])
      /\ route \in [RouteIds -> Life] /\ stops \in [RouteIds -> Seq(Lists)]
  BY DEF Inv, TypeInv, TypeOK, SerialInv
<1>2. CASE InsertRoute(r)
  <2>1. rt \in RouteIds /\ route[rt] = "unborn" /\ stops' = stops
        /\ route' = [route EXCEPT ![rt] = "live"]
    BY <1>1, <1>2 DEF InsertRoute, At, Shape, Seen
  <2>2. Plan!Create(rt)
    BY <2>1 DEF Plan!Create, ListOf
  <2> QED
    BY <2>1, <2>2 DEF Plan!Next
<1>3. CASE DeleteStops(r)
  <2>1. rt \in RouteIds /\ route[rt] = "live" /\ route' = route
        /\ stops' = [stops EXCEPT ![rt] = <<>>]
    BY <1>1, <1>3 DEF DeleteStops, WithoutStops, At, Shape, Seen
  <2>2. plan' = [plan EXCEPT ![rt] = Empty]
    BY <1>1, <2>1 DEF plan, ListOf
  <2>3. Plan!Clear(rt)
    BY <2>1, <2>2 DEF Plan!Clear, plan
  <2> QED
    BY <2>1, <2>3 DEF Plan!Next
<1>4. CASE InsertStops(r)
  <2> DEFINE list == req[r].stops
  <2>1. rt \in RouteIds /\ list \in Lists /\ route[rt] = "live" /\ stops[rt] = <<>>
        /\ route' = route /\ stops' = [stops EXCEPT ![rt] = Append(stops[rt], list)]
    BY <1>1, <1>4 DEF InsertStops, At, Shape, Seen
  <2>2. stops'[rt] = <<list>> /\ <<list>> # <<>> /\ <<list>>[1] = list
        /\ \A x \in RouteIds \ {rt} : stops'[x] = stops[x]
    BY <1>1, <2>1
  <2>3. plan' = [plan EXCEPT ![rt] = list] /\ plan[rt] = Empty
    BY <2>1, <2>2 DEF plan, ListOf
  <2>4. Plan!Fill(rt, list)
    BY <2>1, <2>3 DEF Plan!Fill, plan
  <2> QED
    BY <2>1, <2>4 DEF Plan!Next
<1>5. CASE DeleteRoute(r)
  <2>1. rt \in RouteIds /\ route[rt] = "live" /\ stops' = stops
        /\ route' = [route EXCEPT ![rt] = "deleted"]
    BY <1>1, <1>5 DEF DeleteRoute, At, Shape, Seen
  <2>2. Plan!Delete(rt)
    BY <2>1 DEF Plan!Delete, ListOf
  <2> QED
    BY <2>1, <2>2 DEF Plan!Next
<1>6. CASE ~(InsertRoute(r) \/ DeleteStops(r) \/ InsertStops(r) \/ DeleteRoute(r))
  BY <1>6 DEF Step, CallFails, tables, FindRoute, WriteRoute, ReadBack, DeleteAssignments,
         FindVan, Upsert, DeleteAssignment, InsertVan, DeleteVanRoutes, InsertVanRoutes
<1> QED
  BY <1>2, <1>3, <1>4, <1>5, <1>6

\* What administrators see of a route is RoutePlan: the several awaited calls of a
\* handler never show another route's stops, nor change those of a deleted route.
THEOREM RefinesPlan ==
    ASSUME SerialPerRoute PROVE Spec => ImplementsPlan
<1>1. Init => Inv
  BY InitType, InitSerial DEF Inv
<1>2. Inv /\ [Next]_vars => [Plan!Next]_<<route, plan>>
  <2> SUFFICES ASSUME Inv, [Next]_vars PROVE Plan!Next \/ UNCHANGED <<route, stops>>
    BY DEF plan, ListOf
  <2>1. ASSUME NEW r \in Requests, Arrive(r) PROVE UNCHANGED <<route, stops>>
    BY <2>1, ArriveType DEF Inv, tables
  <2> QED
    BY <2>1, StepPlan DEF Next, VanRemoved, Crash, tables, vars
<1> QED
  BY <1>1, <1>2, InitPlan, NextInv, PTL DEF Spec, ImplementsPlan, Plan!Spec, plan

-----------------------------------------------------------------------------
(* Administrators who do not wait *)

\* An id that a create has drawn belongs to it alone until the row is inserted.
Drawn ==
    \A r \in Requests : At(r, "insertRoute") =>
        /\ route[req[r].route] = "unborn"
        /\ \A p \in Requests \ {r} : req[p].route # req[r].route

\* All other requests work on a route that has been inserted.
Begun ==
    \A r \in Requests :
        req[r].route \in RouteIds /\ ~At(r, "insertRoute") => route[req[r].route] # "unborn"

\* The requests about to insert the stops of a route.
Inserting(rt) == {r \in Requests : At(r, "insertStops") /\ req[r].route = rt}

\* A list of stops takes the place of the request that inserted it.
Room == \A rt \in RouteIds : Len(stops[rt]) + Cardinality(Inserting(rt)) <= Cardinality(Requests)

OverlapInv == Drawn /\ Begun /\ UnbornHasNone /\ Room

LEMMA InsertingFinite ==
    ASSUME IsFiniteSet(Requests), NEW S \in SUBSET Requests
    PROVE  /\ IsFiniteSet(S) /\ Cardinality(S) \in Nat /\ Cardinality(Requests) \in Nat
           /\ Cardinality(S) <= Cardinality(Requests)
BY FS_Subset, FS_CardinalityType

LEMMA InitOverlap == ASSUME IsFiniteSet(Requests), Init PROVE OverlapInv
<1>1. Drawn /\ Begun
  BY RoutesAssumption DEF Init, Idle, Drawn, Begun, At
<1>2. UnbornHasNone
  BY DEF Init, UnbornHasNone
<1>3. ASSUME NEW rt \in RouteIds
      PROVE  Len(stops[rt]) + Cardinality(Inserting(rt)) <= Cardinality(Requests)
  <2>1. Inserting(rt) \in SUBSET Requests /\ Len(stops[rt]) = 0
    BY DEF Init, Inserting
  <2> QED
    BY <2>1, InsertingFinite
<1> QED
  BY <1>1, <1>2, <1>3 DEF OverlapInv, Room

\* What a step of r does to routes, and where it waits next.
LEMMA StepRoute ==
    ASSUME TypeInv, NEW r \in Requests, Step(r) \/ CallFails(r)
    PROVE  /\ \A p \in Requests \ {r} : req'[p] = req[p]
           /\ req'[r].route \in {req[r].route, None}
           /\ req'[r].pc # "insertRoute"
           /\ \A rt \in RouteIds : route[rt] # "unborn" => route'[rt] # "unborn"
           /\ At(r, "insertRoute") /\ req'[r].route # None => route'[req[r].route] # "unborn"
<1>1. req \in [Requests -> Request] /\ req[r] \in Request /\ Shape(req[r])
      /\ route \in [RouteIds -> Life]
  BY DEF TypeInv, TypeOK
<1>2. \A p \in Requests \ {r} : req'[p] = req[p]
  BY <1>1, StepMovesOne DEF Finish, Goto
<1>3. req'[r].route \in {req[r].route, None}
  BY <1>1, StepMovesOne DEF Finish, Goto, Idle, Request
<1>4. \A call \in Calls : Goto(r, call) => req'[r].pc = call
  BY <1>1 DEF Goto, Request
<1>5. Finish(r) => req'[r].pc # "insertRoute"
  BY <1>1 DEF Finish, Idle
<1>6. req'[r].pc # "insertRoute"
  <2>1. ASSUME NEW call \in Calls \ {"insertRoute"}, Goto(r, call)
        PROVE  req'[r].pc # "insertRoute"
    BY <1>4, <2>1
  <2>2. FindRoute(r) => Finish(r) \/ \E call \in Calls \ {"insertRoute"} : Goto(r, call)
    BY <1>1 DEF FindRoute, AfterFound, At, Shape, Calls
  <2>3. WriteRoute(r) => \E call \in Calls \ {"insertRoute"} : Goto(r, call)
    BY DEF WriteRoute, AfterWrite, Calls
  <2>4. Finish(r) \/ \E call \in Calls \ {"insertRoute"} : Goto(r, call)
    BY <2>2, <2>3
       DEF Step, CallFails, Calls, InsertRoute, DeleteStops, InsertStops, ReadBack, DeleteRoute,
           DeleteAssignments, FindVan, Upsert, DeleteAssignment, InsertVan, DeleteVanRoutes,
           InsertVanRoutes
  <2> QED
    BY <1>5, <2>1, <2>4
<1>7. \A rt \in RouteIds : route[rt] # "unborn" => route'[rt] # "unborn"
  <2>1. InsertRoute(r) \/ DeleteRoute(r) \/ route' = route
    BY DEF Step, CallFails, tables, FindRoute, WriteRoute, DeleteStops, InsertStops, ReadBack,
           DeleteAssignments, FindVan, Upsert, DeleteAssignment, InsertVan, DeleteVanRoutes,
           InsertVanRoutes
  <2> QED
    BY <1>1, <2>1 DEF InsertRoute, DeleteRoute
<1>8. At(r, "insertRoute") /\ req'[r].route # None => route'[req[r].route] # "unborn"
  <2> SUFFICES ASSUME At(r, "insertRoute"), req'[r].route # None
               PROVE  route'[req[r].route] # "unborn"
    OBVIOUS
  <2>1. ~Finish(r)
    BY <1>1 DEF Finish, Idle
  <2>2. InsertRoute(r)
    BY <2>1
       DEF Step, At, CallFails, FindRoute, WriteRoute, DeleteStops, InsertStops, ReadBack,
           DeleteRoute, DeleteAssignments, FindVan, Upsert, DeleteAssignment, InsertVan,
           DeleteVanRoutes, InsertVanRoutes
  <2> QED
    BY <1>1, <2>2 DEF InsertRoute, At, Shape
<1> QED
  BY <1>2, <1>3, <1>6, <1>7, <1>8

LEMMA NextDrawn ==
    ASSUME TypeInv, Drawn, Begun, [Next]_vars
    PROVE  Drawn' /\ Begun'
<1>0. /\ req \in [Requests -> Request]
      /\ \A r \in Requests : At(r, "insertRoute") => req[r].route \in RouteIds
  BY DEF TypeInv, TypeOK, At, Shape
<1>1. ASSUME NEW r \in Requests, Arrive(r) PROVE Drawn' /\ Begun'
  <2>1. PICK q \in Request : req' = [req EXCEPT ![r] = q] /\ Fresh(q)
    BY <1>1, ArriveFresh
  <2>2. route' = route
    BY <1>1, ArriveType DEF tables
  <2>3. /\ req'[r] = q
        /\ \A p \in Requests \ {r} : req'[p] = req[p]
    BY <1>0, <2>1
  <2>4. CASE /\ q.pc = "insertRoute" /\ route[q.route] = "unborn"
             /\ \A p \in Requests : req[p].route # q.route
    BY <2>2, <2>3, <2>4 DEF Drawn, Begun, At
  <2>5. CASE q.pc # "insertRoute" /\ (q.route \in RouteIds => route[q.route] # "unborn")
    <3>1. ASSUME NEW p \in Requests \ {r}, At(p, "insertRoute") PROVE req[p].route # q.route
      BY <1>0, <2>5, <3>1 DEF Drawn
    <3> QED
      BY <2>2, <2>3, <2>5, <3>1 DEF Drawn, Begun, At
  <2> QED
    BY <2>1, <2>4, <2>5, RoutesAssumption DEF Fresh
<1>2. ASSUME NEW r \in Requests, Step(r) \/ CallFails(r) PROVE Drawn' /\ Begun'
  <2>1. /\ \A p \in Requests \ {r} : req'[p] = req[p]
        /\ req'[r].route \in {req[r].route, None}
        /\ req'[r].pc # "insertRoute"
        /\ \A rt \in RouteIds : route[rt] # "unborn" => route'[rt] # "unborn"
        /\ At(r, "insertRoute") /\ req'[r].route # None => route'[req[r].route] # "unborn"
    BY <1>2, StepRoute
  <2>2. Begun'
    BY <2>1, RoutesAssumption DEF Begun, At
  <2>3. ASSUME NEW p \in Requests, At(p, "insertRoute")'
        PROVE  /\ route'[req'[p].route] = "unborn"
               /\ \A x \in Requests \ {p} : req'[x].route # req'[p].route
    <3>1. p # r /\ req'[p] = req[p] /\ At(p, "insertRoute") /\ req[p].route \in RouteIds
      BY <1>0, <2>1, <2>3 DEF At
    <3>2. /\ route[req[p].route] = "unborn"
          /\ \A x \in Requests \ {p} : req[x].route # req[p].route
      BY <3>1 DEF Drawn
    <3>3. req[p].route # None /\ req[p].route # req[r].route
      BY <3>1, <3>2, RoutesAssumption
    <3>4. route'[req[p].route] = route[req[p].route]
      BY <1>2, <3>1, <3>3, StepMovesOne
    <3> QED
      BY <2>1, <3>1, <3>2, <3>3, <3>4
  <2> QED
    BY <2>2, <2>3 DEF Drawn
<1>3. CASE Crash
  BY <1>3, RoutesAssumption DEF Crash, Idle, Drawn, Begun, At
<1>4. CASE UNCHANGED <<route, req>>
  BY <1>4 DEF Drawn, Begun, At
<1> QED
  BY <1>1, <1>2, <1>3, <1>4 DEF Next, VanRemoved, vars

\* Stops go to a route that has been inserted.
LEMMA NextUnborn ==
    ASSUME TypeInv, Begun, UnbornHasNone, [Next]_vars
    PROVE  UnbornHasNone'
<1>0. route \in [RouteIds -> Life] /\ stops \in [RouteIds -> Seq(Lists)]
  BY DEF TypeInv, TypeOK
<1>1. CASE UNCHANGED <<route, stops>>
  BY <1>1 DEF UnbornHasNone
<1>2. ASSUME NEW r \in Requests, InsertRoute(r) \/ DeleteRoute(r) PROVE UnbornHasNone'
  <2>1. stops' = stops /\ \A rt \in RouteIds : route'[rt] = "unborn" => route[rt] = "unborn"
    BY <1>0, <1>2 DEF InsertRoute, DeleteRoute
  <2> QED
    BY <2>1 DEF UnbornHasNone
<1>3. ASSUME NEW r \in Requests, DeleteStops(r) PROVE UnbornHasNone'
  BY <1>0, <1>3 DEF DeleteStops, WithoutStops, UnbornHasNone
<1>4. ASSUME NEW r \in Requests, InsertStops(r) PROVE UnbornHasNone'
  <2>1. req[r].route \in RouteIds /\ ~At(r, "insertRoute") /\ route' = route
    BY <1>4 DEF InsertStops, At, TypeInv, Shape
  <2>2. route[req[r].route] # "unborn"
    BY <2>1 DEF Begun
  <2>3. \A rt \in RouteIds \ {req[r].route} : stops'[rt] = stops[rt]
    BY <1>0, <1>4 DEF InsertStops
  <2> QED
    BY <2>1, <2>2, <2>3 DEF UnbornHasNone
<1>5. ASSUME NEW r \in Requests, Arrive(r) PROVE UNCHANGED <<route, stops>>
  BY <1>5, ArriveType DEF tables
<1> QED
  BY <1>1, <1>2, <1>3, <1>4, <1>5
     DEF Next, Step, VanRemoved, Crash, CallFails, tables, vars, FindRoute, WriteRoute, ReadBack,
         DeleteAssignments, FindVan, Upsert, DeleteAssignment, InsertVan, DeleteVanRoutes,
         InsertVanRoutes

\* No more requests are about to insert, and no more lists are there.
LEMMA RoomStays ==
    ASSUME TypeInv, IsFiniteSet(Requests), Room, NEW rt \in RouteIds,
           stops'[rt] = stops[rt], Inserting(rt)' \subseteq Inserting(rt)
    PROVE  Len(stops'[rt]) + Cardinality(Inserting(rt)') <= Cardinality(Requests)
<1>1. PICK S, T : S = Inserting(rt) /\ T = Inserting(rt)'
  OBVIOUS
<1>2. S \in SUBSET Requests /\ T \in SUBSET S
  BY <1>1 DEF Inserting
<1>3. /\ Cardinality(T) \in Nat /\ Cardinality(S) \in Nat /\ Cardinality(Requests) \in Nat
      /\ Cardinality(T) <= Cardinality(S)
  BY <1>2, InsertingFinite, FS_Subset, FS_CardinalityType
<1>4. Len(stops[rt]) \in Nat /\ Len(stops[rt]) + Cardinality(S) <= Cardinality(Requests)
  BY <1>1 DEF TypeInv, TypeOK, Room
<1>5. Len(stops[rt]) + Cardinality(T) <= Cardinality(Requests)
  BY <1>3, <1>4
<1> QED
  BY <1>1, <1>5

\* A route without stops has room for all requests.
LEMMA RoomWhenEmpty ==
    ASSUME IsFiniteSet(Requests), NEW rt \in RouteIds, stops'[rt] = <<>>
    PROVE  Len(stops'[rt]) + Cardinality(Inserting(rt)') <= Cardinality(Requests)
<1>1. PICK T : T = Inserting(rt)'
  OBVIOUS
<1>2. T \in SUBSET Requests
  BY <1>1 DEF Inserting
<1>3. Len(stops'[rt]) = 0
  OBVIOUS
<1>4. 0 + Cardinality(T) <= Cardinality(Requests)
  BY <1>2, InsertingFinite
<1> QED
  BY <1>1, <1>3, <1>4

LEMMA NextRoom ==
    ASSUME IsFiniteSet(Requests), TypeInv, OverlapInv, [Next]_vars
    PROVE  Room'
<1>0. /\ req \in [Requests -> Request] /\ stops \in [RouteIds -> Seq(Lists)]
      /\ Room /\ Drawn /\ UnbornHasNone
  BY DEF TypeInv, TypeOK, OverlapInv
<1> SUFFICES ASSUME NEW rt \in RouteIds
             PROVE  Len(stops'[rt]) + Cardinality(Inserting(rt)') <= Cardinality(Requests)
  BY DEF Room
<1>1. ASSUME NEW r \in Requests, Arrive(r)
      PROVE  stops'[rt] = stops[rt] /\ Inserting(rt)' \subseteq Inserting(rt)
  <2>1. PICK q \in Request : req' = [req EXCEPT ![r] = q] /\ Fresh(q)
    BY <1>1, ArriveFresh
  <2>2. q.pc # "insertStops"
    BY <2>1 DEF Fresh
  <2> QED
    BY <1>0, <1>1, <2>1, <2>2, ArriveType DEF tables, Inserting, At
<1>2. ASSUME NEW r \in Requests, Step(r) \/ CallFails(r)
      PROVE  Len(stops'[rt]) + Cardinality(Inserting(rt)') <= Cardinality(Requests)
  <2>1. /\ \A p \in Requests \ {r} : req'[p] = req[p]
        /\ req'[r].route \in {req[r].route, None}
    BY <1>2, StepRoute
  <2>2. rt # None
    BY RoutesAssumption
  <2>3. CASE rt # req[r].route
    <3>1. stops'[rt] = stops[rt]
      BY <1>2, <2>3, StepMovesOne
    <3>2. Inserting(rt)' \subseteq Inserting(rt)
      BY <2>1, <2>2, <2>3 DEF Inserting, At
    <3> QED
      BY <1>0, <3>1, <3>2, RoomStays
  <2>4. CASE rt = req[r].route /\ InsertRoute(r)
    <3>1. stops'[rt] = <<>>
      BY <1>0, <2>4 DEF InsertRoute, Drawn, UnbornHasNone
    <3> QED
      BY <3>1, RoomWhenEmpty
  <2>5. CASE rt = req[r].route /\ DeleteStops(r)
    <3>1. stops'[rt] = <<>>
      BY <1>0, <2>5 DEF DeleteStops, WithoutStops
    <3> QED
      BY <3>1, RoomWhenEmpty
  <2>6. CASE rt = req[r].route /\ InsertStops(r)
    <3>1. PICK S, T : S = Inserting(rt) /\ T = Inserting(rt)'
      OBVIOUS
    <3>2. req'[r].pc = "readBack"
      BY <1>0, <2>6 DEF InsertStops, Goto, Request
    <3>3. r \in S /\ S \in SUBSET Requests /\ T \subseteq S \ {r}
      BY <2>1, <2>6, <3>1, <3>2 DEF Inserting, InsertStops, At
    <3>4. /\ IsFiniteSet(S) /\ Cardinality(S) \in Nat /\ Cardinality(Requests) \in Nat
      BY <3>3, InsertingFinite
    <3>5. IsFiniteSet(S \ {r}) /\ Cardinality(S \ {r}) = Cardinality(S) - 1
      BY <3>3, <3>4, FS_RemoveElement
    <3>6. T \in SUBSET (S \ {r})
      BY <3>3
    <3>7. Cardinality(T) \in Nat /\ Cardinality(T) <= Cardinality(S) - 1
      BY <3>5, <3>6, FS_Subset, FS_CardinalityType
    <3>8. /\ Len(stops[rt]) \in Nat
          /\ Len(stops[rt]) + Cardinality(S) <= Cardinality(Requests)
      BY <1>0, <3>1 DEF Room
    <3>9. Len(stops'[rt]) = Len(stops[rt]) + 1
      BY <1>0, <2>6 DEF InsertStops
    <3>10. Len(stops'[rt]) + Cardinality(T) <= Cardinality(Requests)
      BY <3>4, <3>7, <3>8, <3>9
    <3> QED
      BY <3>1, <3>10
  <2>7. CASE rt = req[r].route /\ ~InsertRoute(r) /\ ~DeleteStops(r) /\ ~InsertStops(r)
    <3>1. stops' = stops
      BY <1>2, <2>7
         DEF Step, CallFails, tables, FindRoute, WriteRoute, ReadBack, DeleteRoute,
             DeleteAssignments, FindVan, Upsert, DeleteAssignment, InsertVan, DeleteVanRoutes,
             InsertVanRoutes
    <3>2. Finish(r) \/ \E call \in Calls \ {"insertStops"} : Goto(r, call)
      <4>1. FindRoute(r) => Finish(r) \/ \E call \in Calls \ {"insertStops"} : Goto(r, call)
        BY DEF FindRoute, AfterFound, At, TypeInv, Shape, Calls
      <4>2. WriteRoute(r) => \E call \in Calls \ {"insertStops"} : Goto(r, call)
        BY DEF WriteRoute, AfterWrite, Calls
      <4> QED
        BY <1>2, <2>7, <4>1, <4>2
           DEF Step, CallFails, Calls, ReadBack, DeleteRoute, DeleteAssignments, FindVan,
               Upsert, DeleteAssignment, InsertVan, DeleteVanRoutes, InsertVanRoutes
    <3>3. req'[r].pc # "insertStops"
      BY <1>0, <3>2 DEF Finish, Goto, Idle, Request
    <3>4. Inserting(rt)' \subseteq Inserting(rt)
      BY <2>1, <3>3 DEF Inserting, At
    <3> QED
      BY <1>0, <3>1, <3>4, RoomStays
  <2> QED
    BY <2>3, <2>4, <2>5, <2>6, <2>7
<1>3. CASE Crash
  <2>1. stops'[rt] = stops[rt] /\ Inserting(rt)' \subseteq Inserting(rt)
    BY <1>3 DEF Crash, tables, Idle, Inserting, At
  <2> QED
    BY <1>0, <2>1, RoomStays
<1>4. CASE UNCHANGED <<stops, req>>
  <2>1. stops'[rt] = stops[rt] /\ Inserting(rt)' \subseteq Inserting(rt)
    BY <1>4 DEF Inserting, At
  <2> QED
    BY <1>0, <2>1, RoomStays
<1>5. ASSUME NEW r \in Requests, Arrive(r)
      PROVE  Len(stops'[rt]) + Cardinality(Inserting(rt)') <= Cardinality(Requests)
  BY <1>0, <1>1, <1>5, RoomStays
<1> QED
  BY <1>2, <1>3, <1>4, <1>5 DEF Next, VanRemoved, vars

\* Administrators may overlap their calls, calls may fail, the process may die: the lists
\* of stops that end up on a route (routes.service.ts:154) are never more than the
\* requests that the server has in flight at once, however often the route is edited.
THEOREM OverlapSafety ==
    ASSUME IsFiniteSet(Requests) PROVE Spec => []ListsOnlyOverlap
<1>1. Init => TypeInv /\ OverlapInv
  BY InitType, InitOverlap
<1>2. TypeInv /\ OverlapInv /\ [Next]_vars => TypeInv' /\ OverlapInv'
  BY NextType, NextDrawn, NextUnborn, NextRoom DEF OverlapInv
<1>3. TypeInv /\ OverlapInv => ListsOnlyOverlap
  <2> SUFFICES ASSUME TypeInv, OverlapInv, NEW rt \in RouteIds
               PROVE  Len(stops[rt]) <= Cardinality(Requests)
    BY DEF ListsOnlyOverlap
  <2>1. Inserting(rt) \in SUBSET Requests
    BY DEF Inserting
  <2>2. Cardinality(Inserting(rt)) \in Nat /\ Cardinality(Requests) \in Nat
    BY <2>1, InsertingFinite
  <2>3. /\ Len(stops[rt]) \in Nat
        /\ Len(stops[rt]) + Cardinality(Inserting(rt)) <= Cardinality(Requests)
    BY DEF OverlapInv, Room, TypeInv, TypeOK
  <2> QED
    BY <2>2, <2>3
<1> QED
  BY <1>1, <1>2, <1>3, PTL DEF Spec

=============================================================================
