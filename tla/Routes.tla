------------------------------- MODULE Routes -------------------------------
(***************************************************************************)
(* RoutesService (src/src/routes), and the routes a van is given by        *)
(* VansService: one action per awaited call of every handler that changes  *)
(* the tables routes, route_stops or van_routes.  No handler uses a         *)
(* transaction: the stops of a route are deleted in one call and inserted  *)
(* in a later one.                                                         *)
(*                                                                         *)
(* The stops of one request are inserted together and numbered from 1, and *)
(* are deleted together with all others of the route.  So the table keeps  *)
(* whole lists: a route with two lists has two stops of each number.       *)
(***************************************************************************)
EXTENDS Naturals, Sequences, FiniteSets

CONSTANTS
    Requests,       \* slots for HTTP requests being served at the same time
    RouteIds,       \* route ids (UUIDs)
    Vans,           \* van ids
    Lists,          \* lists of stops, with one stop or more
    Empty,          \* the list without a stop
    Keep,           \* the update names no stops
    None,           \* null
    SerialPerRoute, \* administrators wait for the answer before a route's next call
    MayFail         \* calls may reject and the process may crash

ASSUME RoutesAssumption ==
    /\ None \notin RouteIds \cup Vans
    /\ {Empty, Keep} \cap Lists = {} /\ Empty # Keep
    /\ SerialPerRoute \in BOOLEAN
    /\ MayFail \in BOOLEAN

VARIABLES
    route,      \* table routes: not inserted yet, live or deleted
    stops,      \* table route_stops: the lists inserted for a route, in order
    van,        \* table vans, as far as routes are concerned
    vanRoutes,  \* table van_routes, unique by its pair of ids
    req         \* the requests in flight

tables == <<route, stops, van, vanRoutes>>
vars == <<route, stops, van, vanRoutes, req>>

-----------------------------------------------------------------------------
(* Tables and requests *)

Life == {"unborn", "live", "deleted"}

RouteOps == {"createRoute", "updateRoute", "removeRoute", "assignVan", "unassignVan"}
VanOps == {"createVan", "updateVan"}

Calls ==
    {"insertRoute", "findRoute", "writeRoute", "deleteStops", "insertStops", "readBack",
     "deleteRoute", "deleteAssignments", "findVan", "upsert", "deleteAssignment",
     "insertVan", "deleteVanRoutes", "insertVanRoutes"}

Request ==
    [op: RouteOps \cup VanOps \cup {"none"}, pc: Calls \cup {"idle"},
     route: RouteIds \cup {None}, van: Vans \cup {None},
     stops: Lists \cup {Empty, Keep}, routes: SUBSET RouteIds]

Idle ==
    [op |-> "none", pc |-> "idle", route |-> None, van |-> None,
     stops |-> Keep, routes |-> {}]

Busy(r) == req[r].pc # "idle"
At(r, call) == req[r].pc = call

Finish(r) == req' = [req EXCEPT ![r] = Idle]
Goto(r, call) == req' = [req EXCEPT ![r].pc = call]

Init ==
    /\ route = [rt \in RouteIds |-> "unborn"]
    /\ stops = [rt \in RouteIds |-> <<>>]
    /\ van \in [Vans -> {"unborn", "live"}]
    /\ vanRoutes = {}
    /\ req = [r \in Requests |-> Idle]

-----------------------------------------------------------------------------
(* Requests arrive *)

RouteFree(rt) ==
    SerialPerRoute => \A r \in Requests : Busy(r) => req[r].route # rt

Begin(op, call, rt, v) ==
    [op |-> op, pc |-> call, route |-> rt, van |-> v, stops |-> Keep, routes |-> {}]

\* The insert draws a new id.
RequestCreate(r, rt, list) ==
    /\ ~Busy(r)
    /\ route[rt] = "unborn"
    /\ \A q \in Requests : req[q].route # rt
    /\ req' = [req EXCEPT ![r] =
                 [Begin("createRoute", "insertRoute", rt, None) EXCEPT !.stops = list]]
    /\ UNCHANGED tables

\* Calls on a route administrators have seen, which may be deleted by now.
RequestRouteOp(r, request) ==
    /\ ~Busy(r)
    /\ route[request.route] # "unborn"
    /\ RouteFree(request.route)
    /\ req' = [req EXCEPT ![r] = request]
    /\ UNCHANGED tables

RequestUpdate(r, rt, list) ==
    RequestRouteOp(r, [Begin("updateRoute", "findRoute", rt, None) EXCEPT !.stops = list])

RequestRemove(r, rt) ==
    RequestRouteOp(r, Begin("removeRoute", "findRoute", rt, None))

RequestAssign(r, rt, v) ==
    van[v] # "unborn" /\ RequestRouteOp(r, Begin("assignVan", "findRoute", rt, v))

RequestUnassign(r, rt, v) ==
    RequestRouteOp(r, Begin("unassignVan", "deleteAssignment", rt, v))

\* The form of a van lists its routes by id.  What else the two handlers do to the
\* van, and the checks before it, is in Fleet.
RequestVan(r, v, rts) ==
    /\ ~Busy(r)
    /\ \A rt \in rts : route[rt] # "unborn"
    /\ \/ /\ van[v] = "unborn"
          /\ \A q \in Requests : req[q].van # v
          /\ req' = [req EXCEPT ![r] =
                       [Begin("createVan", "insertVan", None, v) EXCEPT !.routes = rts]]
       \/ /\ van[v] # "unborn"
          /\ req' = [req EXCEPT ![r] =
                       [Begin("updateVan", "findVan", None, v) EXCEPT !.routes = rts]]
    /\ UNCHANGED tables

-----------------------------------------------------------------------------
(* Routes and their stops *)

InsertRoute(r) ==
    /\ At(r, "insertRoute")
    /\ route' = [route EXCEPT ![req[r].route] = "live"]
    /\ Goto(r, IF req[r].stops \in Lists THEN "insertStops" ELSE "readBack")
    /\ UNCHANGED <<stops, van, vanRoutes>>

FoundBug(rt) == route[rt] # "unborn"

\* The queries skip deleted rows.
Found(rt) == route[rt] = "live"

AfterFound == [updateRoute |-> "writeRoute", removeRoute |-> "deleteRoute", assignVan |-> "findVan"]

FindRoute(r) ==
    /\ At(r, "findRoute")
    /\ \/ /\ Found(req[r].route)
          /\ Goto(r, AfterFound[req[r].op])
       \/ /\ ~Found(req[r].route)
          /\ Finish(r)
    /\ UNCHANGED tables

AfterWriteBug(list) == IF list \in Lists THEN "insertStops" ELSE "readBack"

AfterWrite(list) == IF list = Keep THEN "readBack" ELSE "deleteStops"

\* Name, description and isActive are written whether stops are named or not.
WriteRoute(r) ==
    /\ At(r, "writeRoute")
    /\ Goto(r, AfterWrite(req[r].stops))
    /\ UNCHANGED tables

WithoutStopsBug(rt) == [q \in RouteIds |-> <<>>]

WithoutStops(rt) == [stops EXCEPT ![rt] = <<>>]

DeleteStops(r) ==
    /\ At(r, "deleteStops")
    /\ stops' = WithoutStops(req[r].route)
    /\ Goto(r, IF req[r].stops \in Lists THEN "insertStops" ELSE "readBack")
    /\ UNCHANGED <<route, van, vanRoutes>>

InsertStops(r) ==
    /\ At(r, "insertStops")
    /\ stops' = [stops EXCEPT ![req[r].route] = Append(@, req[r].stops)]
    /\ Goto(r, "readBack")
    /\ UNCHANGED <<route, van, vanRoutes>>

\* The answer is the route as the table has it now.
ReadBack(r) ==
    /\ At(r, "readBack")
    /\ Finish(r)
    /\ UNCHANGED tables

DeleteRoute(r) ==
    /\ At(r, "deleteRoute")
    /\ route' = [route EXCEPT ![req[r].route] = "deleted"]
    /\ Goto(r, "deleteAssignments")
    /\ UNCHANGED <<stops, van, vanRoutes>>

DeleteAssignments(r) ==
    /\ At(r, "deleteAssignments")
    /\ vanRoutes' = {vr \in vanRoutes : vr[2] # req[r].route}
    /\ Finish(r)
    /\ UNCHANGED <<route, stops, van>>

-----------------------------------------------------------------------------
(* Vans and their routes *)

FindVan(r) ==
    /\ At(r, "findVan")
    /\ \/ /\ van[req[r].van] = "live"
          /\ Goto(r, IF req[r].op = "assignVan" THEN "upsert" ELSE "deleteVanRoutes")
       \/ /\ van[req[r].van] # "live"
          /\ Finish(r)
    /\ UNCHANGED tables

Upsert(r) ==
    /\ At(r, "upsert")
    /\ vanRoutes' = vanRoutes \cup {<<req[r].van, req[r].route>>}
    /\ Finish(r)
    /\ UNCHANGED <<route, stops, van>>

\* Neither the van nor the route is looked up.
DeleteAssignment(r) ==
    /\ At(r, "deleteAssignment")
    /\ vanRoutes' = vanRoutes \ {<<req[r].van, req[r].route>>}
    /\ Finish(r)
    /\ UNCHANGED <<route, stops, van>>

InsertVan(r) ==
    /\ At(r, "insertVan")
    /\ van' = [van EXCEPT ![req[r].van] = "live"]
    /\ IF req[r].routes = {} THEN Finish(r) ELSE Goto(r, "insertVanRoutes")
    /\ UNCHANGED <<route, stops, vanRoutes>>

DeleteVanRoutes(r) ==
    /\ At(r, "deleteVanRoutes")
    /\ vanRoutes' = {vr \in vanRoutes : vr[1] # req[r].van}
    /\ IF req[r].routes = {} THEN Finish(r) ELSE Goto(r, "insertVanRoutes")
    /\ UNCHANGED <<route, stops, van>>

InsertVanRoutesBug(r) ==
    /\ At(r, "insertVanRoutes")
    /\ vanRoutes' = vanRoutes \cup (req[r].routes \X {req[r].van})
    /\ Finish(r)
    /\ UNCHANGED <<route, stops, van>>

\* Duplicates are skipped.  The foreign key asks for a row, deleted or not.
InsertVanRoutes(r) ==
    /\ At(r, "insertVanRoutes")
    /\ vanRoutes' = vanRoutes \cup ({req[r].van} \X req[r].routes)
    /\ Finish(r)
    /\ UNCHANGED <<route, stops, van>>

\* VansService.remove leaves the assignments.
VanRemoved(v) ==
    /\ van[v] = "live"
    /\ van' = [van EXCEPT ![v] = "deleted"]
    /\ UNCHANGED <<route, stops, vanRoutes, req>>

-----------------------------------------------------------------------------
(* Faults *)

\* The awaited call rejects without effect; no handler catches it.
CallFails(r) ==
    /\ MayFail /\ Busy(r)
    /\ Finish(r)
    /\ UNCHANGED tables

\* The process dies with every request it was serving; the tables survive.
Crash ==
    /\ MayFail /\ \E r \in Requests : Busy(r)
    /\ req' = [r \in Requests |-> Idle]
    /\ UNCHANGED tables

-----------------------------------------------------------------------------

Arrive(r) ==
    \/ \E rt \in RouteIds :
          \/ \E list \in Lists \cup {Empty} : RequestCreate(r, rt, list)
          \/ \E list \in Lists \cup {Empty, Keep} : RequestUpdate(r, rt, list)
          \/ RequestRemove(r, rt)
          \/ \E v \in Vans : RequestAssign(r, rt, v) \/ RequestUnassign(r, rt, v)
    \/ \E v \in Vans, rts \in SUBSET RouteIds : RequestVan(r, v, rts)

\* The next await of r resolves.
Step(r) ==
    \/ InsertRoute(r) \/ FindRoute(r) \/ WriteRoute(r) \/ DeleteStops(r) \/ InsertStops(r)
    \/ ReadBack(r) \/ DeleteRoute(r) \/ DeleteAssignments(r)
    \/ FindVan(r) \/ Upsert(r) \/ DeleteAssignment(r)
    \/ InsertVan(r) \/ DeleteVanRoutes(r) \/ InsertVanRoutes(r)

Next ==
    \/ \E r \in Requests : Arrive(r) \/ Step(r) \/ CallFails(r)
    \/ \E v \in Vans : VanRemoved(v)
    \/ Crash

Spec == Init /\ [][Next]_vars

-----------------------------------------------------------------------------
(* Safety *)

\* Every row and request has its type.
TypeOK ==
    /\ route \in [RouteIds -> Life]
    /\ stops \in [RouteIds -> Seq(Lists)]
    /\ van \in [Vans -> Life]
    /\ vanRoutes \subseteq Vans \X RouteIds
    /\ req \in [Requests -> Request]

\* When calls on a route do not overlap, a route never has two stops of one number:
\* whatever call fails, its stops are one list, or none.
OneListOfStops == \A rt \in RouteIds : Len(stops[rt]) <= 1

\* However calls overlap, whichever fail and whenever the process dies, a route has no more
\* lists of stops than there can be calls at one time: each update deletes all it finds.
ListsOnlyOverlap == \A rt \in RouteIds : Len(stops[rt]) <= Cardinality(Requests)

ListOf(rt) == IF stops[rt] = <<>> THEN Empty ELSE stops[rt][1]

\* When calls on a route do not overlap, a create or an update that gets to its answer
\* shows the stops it was sent, neither old ones nor those of another route's request.
AnswerShowsStops ==
    \A r \in Requests :
        At(r, "readBack") /\ req[r].stops # Keep =>
            stops[req[r].route] = IF req[r].stops = Empty THEN <<>> ELSE <<req[r].stops>>

\* When calls on a route do not overlap, assignVan gives a van to live routes only; the
\* lists of createVan and updateVan are not looked up and may name deleted ones.
AssignsLiveRoute ==
    [][\A r \in Requests :
          At(r, "upsert") /\ req'[r] = Idle /\ vanRoutes' # vanRoutes =>
              route[req[r].route] = "live"]_vars

-----------------------------------------------------------------------------
(* Refinement *)

Plan == INSTANCE RoutePlan WITH Routes <- RouteIds, life <- route,
                                plan <- [rt \in RouteIds |-> ListOf(rt)]

\* When calls on a route do not overlap, Routes implements RoutePlan, whatever call
\* fails and whenever the process dies: a request touches the plan of its own route
\* only, and never that of a deleted one.
ImplementsPlan == Plan!Spec
=============================================================================
