------------------------------ MODULE TripService ------------------------------
(***************************************************************************)
(* TripsService (src/src/trips/trips.service.ts): the life of a trip, the  *)
(* attendance taken on it and the emergencies raised from it.              *)
(*                                                                         *)
(* Every handler is an async function: between two awaits it runs alone,   *)
(* at an await any other handler may run.  Each awaited call to PostgreSQL *)
(* or Redis is therefore one action, and a request remembers in its `pc'   *)
(* the call it is waiting for.  A handler reads the trip with a guard on   *)
(* its status and later writes it by id alone: what it read may be stale.  *)
(*                                                                         *)
(* Rows are abstracted to the columns the code branches on.  A timestamp   *)
(* column (actualStart, actualEnd, sosResolvedAt) is a BOOLEAN, "is set".  *)
(* The positions written to Redis are not kept: the two location calls are *)
(* here as points where a handler waits and where it may fail.             *)
(* An operator whose name ends in Bug is a mutant of a definition below it. *)
(***************************************************************************)
EXTENDS Naturals, Sequences, FiniteSets

CONSTANTS
    Requests,       \* slots for HTTP requests being served at the same time
    Trips,          \* trip ids (UUIDs)
    Vans,           \* van ids
    Drivers,        \* driver ids
    Students,       \* student ids
    Keys,           \* idempotency keys clients may send
    None,           \* null
    Offered,        \* bound: the trip endpoints clients call
    MaxLogs,        \* bound: no attendance request once this many logs exist
    SerialPerTrip,  \* clients wait for the answer before the trip's next call
    MayFail         \* calls may reject and the process may crash

ASSUME TripServiceAssumption ==
    /\ None \notin Trips \cup Vans \cup Drivers \cup Students \cup Keys
    /\ MaxLogs \in Nat
    /\ SerialPerTrip \in BOOLEAN
    /\ MayFail \in BOOLEAN

VARIABLES
    trip,         \* table trips: one row per id, status "UNBORN" before the insert
    pickupLogs,   \* table pickup_logs, in insertion order (rows are never changed)
    alerts,       \* table alerts: the [type, trip] pairs that have a row
    activeTrips,  \* Redis keys svt:trip:{tripId}:active
    vanDriver,    \* vans.driverId of an active van, None when nobody drives it
    studentVan,   \* students.vanId of an active student, None when on no van
    req           \* the requests in flight

stores == <<trip, pickupLogs, alerts, activeTrips, vanDriver, studentVan>>
vars == <<trip, pickupLogs, alerts, activeTrips, vanDriver, studentVan, req>>

-----------------------------------------------------------------------------
(* Tables and requests *)

Status == {"NOT_STARTED", "IN_PROGRESS", "COMPLETED", "CANCELLED", "SOS_ACTIVE"}

TripRow ==
    [status: Status \cup {"UNBORN"}, van: Vans \cup {None}, driver: Drivers \cup {None},
     started: BOOLEAN, ended: BOOLEAN, sosActivated: BOOLEAN, sosResolved: BOOLEAN]

NoRow ==
    [status |-> "UNBORN", van |-> None, driver |-> None,
     started |-> FALSE, ended |-> FALSE, sosActivated |-> FALSE, sosResolved |-> FALSE]

FinalActions == {"PICKED_UP", "DROPPED_OFF"}

LogRow ==
    [trip: Trips, student: Students, action: FinalActions \cup {"ABSENT"},
     key: Keys \cup {None}]

Alert == [type: {"SOS", "SOS_RESOLVED"}, trip: Trips]

MarkOps == {"pickup", "drop", "absent"}
TripOps == {"start", "end", "sos", "resolve"} \cup MarkOps

Calls ==
    {"findVan", "findRoute", "insertTrip", "setActive", "findTrip", "updateTrip",
     "findStudent", "findLog", "findKey", "insertLog", "setLocation",
     "recordLocation", "removeActive", "insertAlert"}

Results == {"none", "ok", "existing", "notFound", "badRequest", "conflict", "error", "lost"}

Request ==
    [op: TripOps \cup {"create", "none"}, pc: Calls \cup {"idle"}, driver: Drivers \cup {None},
     trip: Trips \cup {None}, van: Vans \cup {None}, student: Students \cup {None},
     key: Keys \cup {None}, result: Results]

\* An idle slot remembers how its last request was answered, nothing else.
Idle(result) ==
    [op |-> "none", pc |-> "idle", driver |-> None, trip |-> None, van |-> None,
     student |-> None, key |-> None, result |-> result]

Busy(r) == req[r].pc # "idle"
At(r, call) == req[r].pc = call

Reply(r, result) == req' = [req EXCEPT ![r] = Idle(result)]
Goto(r, call) == req' = [req EXCEPT ![r].pc = call]

Init ==
    /\ trip = [t \in Trips |-> NoRow]
    /\ pickupLogs = <<>>
    /\ alerts = {}
    /\ activeTrips = {}
    /\ vanDriver \in [Vans -> Drivers]
    /\ studentVan \in [Students -> Vans]
    /\ req = [r \in Requests |-> Idle("none")]

-----------------------------------------------------------------------------
(* Control that several handlers share *)

RequiredStatusBug ==
    [op \in TripOps |-> CASE op = "start" -> {"NOT_STARTED"}
                          [] op = "resolve" -> {"SOS_ACTIVE"}
                          [] OTHER -> {"NOT_STARTED", "IN_PROGRESS"}]

\* The status the first query of each handler asks for.
RequiredStatus ==
    [start   |-> {"NOT_STARTED"},
     end     |-> {"IN_PROGRESS"},
     pickup  |-> {"IN_PROGRESS"},
     drop    |-> {"IN_PROGRESS"},
     absent  |-> {"IN_PROGRESS"},
     sos     |-> {"NOT_STARTED", "IN_PROGRESS"},
     resolve |-> {"SOS_ACTIVE"}]

\* What resolveSOS writes: willContinue chooses.
ResolvedStatus == {"IN_PROGRESS", "COMPLETED"}

Written == [pickup |-> "PICKED_UP", drop |-> "DROPPED_OFF", absent |-> "ABSENT"]

AfterSetLocationBug(op) == "recordLocation"

\* Only activateSOS does not record the position under the trip as well.
AfterSetLocation(op) == IF op = "sos" THEN "insertAlert" ELSE "recordLocation"

Logs == {pickupLogs[i] : i \in DOMAIN pickupLogs}

-----------------------------------------------------------------------------
(* Requests arrive *)

TripFree(r, t) ==
    SerialPerTrip => \A q \in Requests \ {r} : Busy(q) => req[q].trip # t

\* A driver asks for a new trip.  The UUID the insert
\* will use is drawn here: an id no row and no other request has.
RequestCreate(r, d, v, t) ==
    /\ ~Busy(r)
    /\ trip[t].status = "UNBORN"
    /\ \A q \in Requests : req[q].trip # t
    /\ req' = [req EXCEPT ![r] =
                 [Idle("none") EXCEPT !.op = "create", !.pc = "findVan",
                                      !.driver = d, !.van = v, !.trip = t]]
    /\ UNCHANGED stores

\* A driver calls one of the trip endpoints; only attendance carries a student
\* and, optionally, an idempotency key.
RequestTripOp(r, op, d, t, s, k) ==
    /\ ~Busy(r)
    /\ op \in Offered
    /\ trip[t].status # "UNBORN"
    /\ TripFree(r, t)
    /\ IF op \in MarkOps THEN s # None /\ Len(pickupLogs) < MaxLogs
                         ELSE s = None /\ k = None
    /\ req' = [req EXCEPT ![r] =
                 [Idle("none") EXCEPT !.op = op, !.pc = "findTrip", !.driver = d,
                                      !.trip = t, !.student = s, !.key = k]]
    /\ UNCHANGED stores

-----------------------------------------------------------------------------
(* create *)

CreateFindVan(r) ==
    /\ At(r, "findVan")
    /\ \/ /\ vanDriver[req[r].van] = req[r].driver
          /\ \/ Goto(r, "findRoute")      \* the request names a route
             \/ Goto(r, "insertTrip")
       \/ /\ vanDriver[req[r].van] # req[r].driver
          /\ Reply(r, "notFound")
    /\ UNCHANGED stores

\* The route may or may not be an active route of the school.
CreateFindRoute(r) ==
    /\ At(r, "findRoute")
    /\ \/ Goto(r, "insertTrip")
       \/ Reply(r, "notFound")
    /\ UNCHANGED stores

CreateInsert(r) ==
    /\ At(r, "insertTrip")
    /\ trip' = [trip EXCEPT ![req[r].trip] =
                  [NoRow EXCEPT !.status = "NOT_STARTED", !.van = req[r].van,
                                !.driver = req[r].driver]]
    /\ Goto(r, "setActive")
    /\ UNCHANGED <<pickupLogs, alerts, activeTrips, vanDriver, studentVan>>

CreateSetActive(r) ==
    /\ At(r, "setActive")
    /\ activeTrips' = activeTrips \cup {req[r].trip}
    /\ Reply(r, "ok")
    /\ UNCHANGED <<trip, pickupLogs, alerts, vanDriver, studentVan>>

-----------------------------------------------------------------------------
(* The trip endpoints: the first query and the write of the trip row *)

AdmitsBug(row, q) == row.driver = q.driver

\* The where clause of the first query: the caller's own trip, in the right status.
Admits(row, q) == row.driver = q.driver /\ row.status \in RequiredStatus[q.op]

FindTripBug(r) ==
    /\ At(r, "findTrip")
    /\ Admits(trip[req[r].trip], req[r])
    /\ Goto(r, IF req[r].op \in MarkOps THEN "findStudent" ELSE "updateTrip")
    /\ UNCHANGED stores

FindTrip(r) ==
    /\ At(r, "findTrip")
    /\ \/ /\ Admits(trip[req[r].trip], req[r])
          /\ Goto(r, IF req[r].op \in MarkOps THEN "findStudent" ELSE "updateTrip")
       \/ /\ ~Admits(trip[req[r].trip], req[r])
          /\ Reply(r, "notFound")
    /\ UNCHANGED stores

\* What each handler writes into the row.
StartedRow(row) == [row EXCEPT !.status = "IN_PROGRESS", !.started = TRUE]
EndedRow(row) == [row EXCEPT !.status = "COMPLETED", !.ended = TRUE]
SosRow(row) == [row EXCEPT !.status = "SOS_ACTIVE", !.sosActivated = TRUE]

ResolvedRowNoEndBug(row, status) == [row EXCEPT !.status = status, !.sosResolved = TRUE]

ResolvedRow(row, status) ==
    [row EXCEPT !.status = status, !.sosResolved = TRUE,
                !.ended = (status = "COMPLETED") \/ row.ended]

\* An update by id: the status is not looked at again.
Update(r, row) ==
    /\ trip' = [trip EXCEPT ![req[r].trip] = row]
    /\ UNCHANGED <<pickupLogs, alerts, activeTrips, vanDriver, studentVan>>

StartTrip(r) ==
    /\ At(r, "updateTrip") /\ req[r].op = "start"
    /\ Update(r, StartedRow(trip[req[r].trip]))
    /\ Goto(r, "setLocation")

EndTrip(r) ==
    /\ At(r, "updateTrip") /\ req[r].op = "end"
    /\ Update(r, EndedRow(trip[req[r].trip]))
    /\ Goto(r, "setLocation")

\* The location is optional in an SOS request.
ActivateSOS(r) ==
    /\ At(r, "updateTrip") /\ req[r].op = "sos"
    /\ Update(r, SosRow(trip[req[r].trip]))
    /\ Goto(r, "setLocation") \/ Goto(r, "insertAlert")

\* willContinue chooses the status.
ResolveSOS(r) ==
    /\ At(r, "updateTrip") /\ req[r].op = "resolve"
    /\ \E status \in ResolvedStatus : Update(r, ResolvedRow(trip[req[r].trip], status))
    /\ Goto(r, "insertAlert")

-----------------------------------------------------------------------------
(* Attendance: markPickup, markDrop, markAbsent *)

\* The student must ride the van of the trip now.
FindStudent(r) ==
    /\ At(r, "findStudent")
    /\ \/ /\ studentVan[req[r].student] = trip[req[r].trip].van
          /\ Goto(r, "findLog")
       \/ /\ studentVan[req[r].student] # trip[req[r].trip].van
          /\ Reply(r, "badRequest")
    /\ UNCHANGED stores

FinalMarkBug(t, s) ==
    \E log \in Logs : log.trip = t /\ log.student = s /\ log.action = "DROPPED_OFF"

\* A final log of this student on this trip.
FinalMark(t, s) ==
    \E log \in Logs : log.trip = t /\ log.student = s /\ log.action \in FinalActions

\* The idempotency key is looked up by pickup and drop, when there is one.
FindLog(r) ==
    /\ At(r, "findLog")
    /\ \/ /\ FinalMark(req[r].trip, req[r].student)
          /\ Reply(r, "conflict")
       \/ /\ ~FinalMark(req[r].trip, req[r].student)
          /\ Goto(r, IF req[r].op = "absent" \/ req[r].key = None
                       THEN "insertLog" ELSE "findKey")
    /\ UNCHANGED stores

KeyTakenNoIndexBug(k) == FALSE

KeyTakenAnyRowBug(k) == k # None /\ Logs # {}

KeyTaken(k) == k # None /\ \E log \in Logs : log.key = k

FindKey(r) ==
    /\ At(r, "findKey")
    /\ \/ KeyTaken(req[r].key) /\ Reply(r, "existing")
       \/ ~KeyTaken(req[r].key) /\ Goto(r, "insertLog")
    /\ UNCHANGED stores

NewLogBug(q) == [trip |-> q.trip, student |-> q.student, action |-> q.op, key |-> q.key]

NewLog(q) ==
    [trip |-> q.trip, student |-> q.student, action |-> Written[q.op], key |-> q.key]

\* Two unique indexes guard the insert: idempotencyKey, and (school, trip, student,
\* actionTakenAt), which two logs of a student on a trip break only if they are
\* written at the same instant.
SameInstantLog(q) == \E log \in Logs : log.trip = q.trip /\ log.student = q.student

InsertLog(r) ==
    /\ At(r, "insertLog")
    /\ \/ /\ KeyTaken(req[r].key) \/ SameInstantLog(req[r])
          /\ Reply(r, "error")
          /\ UNCHANGED pickupLogs
       \/ /\ ~KeyTaken(req[r].key)
          /\ pickupLogs' = Append(pickupLogs, NewLog(req[r]))
          /\ IF req[r].op = "absent" THEN Reply(r, "ok") ELSE Goto(r, "setLocation")
    /\ UNCHANGED <<trip, alerts, activeTrips, vanDriver, studentVan>>

-----------------------------------------------------------------------------
(* The calls that follow a write *)

SetLocation(r) ==
    /\ At(r, "setLocation")
    /\ Goto(r, AfterSetLocation(req[r].op))
    /\ UNCHANGED stores

RecordLocationBug(r) ==
    At(r, "recordLocation") /\ Reply(r, "ok") /\ UNCHANGED stores

RecordLocation(r) ==
    /\ At(r, "recordLocation")
    /\ IF req[r].op = "end" THEN Goto(r, "removeActive") ELSE Reply(r, "ok")
    /\ UNCHANGED stores

RemoveActive(r) ==
    /\ At(r, "removeActive")
    /\ activeTrips' = activeTrips \ {req[r].trip}
    /\ Reply(r, "ok")
    /\ UNCHANGED <<trip, pickupLogs, alerts, vanDriver, studentVan>>

InsertAlert(r) ==
    /\ At(r, "insertAlert")
    /\ alerts' = alerts \cup
         {[type |-> IF req[r].op = "sos" THEN "SOS" ELSE "SOS_RESOLVED", trip |-> req[r].trip]}
    /\ Reply(r, "ok")
    /\ UNCHANGED <<trip, pickupLogs, activeTrips, vanDriver, studentVan>>

-----------------------------------------------------------------------------
(* Faults *)

\* The awaited call rejects without effect; no handler catches it.
CallFails(r) ==
    /\ MayFail /\ Busy(r)
    /\ Reply(r, "error")
    /\ UNCHANGED stores

\* The process dies with every request it was serving; the stores survive.
Crash ==
    /\ MayFail /\ \E r \in Requests : Busy(r)
    /\ req' = [r \in Requests |-> IF Busy(r) THEN Idle("lost") ELSE req[r]]
    /\ UNCHANGED stores

-----------------------------------------------------------------------------
(* What the rest of the system does to this module's state *)

\* Redis drops the active key 24 hours after create set it.
ActiveTripExpires(t) ==
    /\ t \in activeTrips
    /\ activeTrips' = activeTrips \ {t}
    /\ UNCHANGED <<trip, pickupLogs, alerts, vanDriver, studentVan, req>>

\* StudentsService moves a student to a van, off it, or removes the student.
StudentMoved(s, v) ==
    /\ studentVan[s] # v
    /\ studentVan' = [studentVan EXCEPT ![s] = v]
    /\ UNCHANGED <<trip, pickupLogs, alerts, activeTrips, vanDriver, req>>

\* VansService assigns or unassigns a driver, or removes the van.
VanReassigned(v, d) ==
    /\ vanDriver[v] # d
    /\ vanDriver' = [vanDriver EXCEPT ![v] = d]
    /\ UNCHANGED <<trip, pickupLogs, alerts, activeTrips, studentVan, req>>

-----------------------------------------------------------------------------

Arrive(r) ==
    \E d \in Drivers, t \in Trips :
        \/ \E v \in Vans : RequestCreate(r, d, v, t)
        \/ \E op \in TripOps, s \in Students \cup {None}, k \in Keys \cup {None} :
              RequestTripOp(r, op, d, t, s, k)

\* The next await of r resolves.
Step(r) ==
    \/ CreateFindVan(r) \/ CreateFindRoute(r) \/ CreateInsert(r) \/ CreateSetActive(r)
    \/ FindTrip(r)
    \/ StartTrip(r) \/ EndTrip(r) \/ ActivateSOS(r) \/ ResolveSOS(r)
    \/ FindStudent(r) \/ FindLog(r) \/ FindKey(r) \/ InsertLog(r)
    \/ SetLocation(r) \/ RecordLocation(r) \/ RemoveActive(r) \/ InsertAlert(r)

Environment ==
    \/ Crash
    \/ \E t \in Trips : ActiveTripExpires(t)
    \/ \E s \in Students, v \in Vans \cup {None} : StudentMoved(s, v)
    \/ \E v \in Vans, d \in Drivers \cup {None} : VanReassigned(v, d)

Next ==
    \/ \E r \in Requests : Arrive(r) \/ Step(r) \/ CallFails(r)
    \/ Environment

Spec == Init /\ [][Next]_vars

\* Node's event loop runs every resolved await; no call waits for ever.
FairSpec == Spec /\ \A r \in Requests : WF_vars(Step(r))

-----------------------------------------------------------------------------
(* Safety *)

\* Every row, request and relation has its type.
TypeOK ==
    /\ trip \in [Trips -> TripRow]
    /\ pickupLogs \in Seq(LogRow)
    /\ alerts \subseteq Alert
    /\ activeTrips \subseteq Trips
    /\ vanDriver \in [Vans -> Drivers \cup {None}]
    /\ studentVan \in [Students -> Vans \cup {None}]
    /\ req \in [Requests -> Request]

Departed(row) == row.started \/ row.sosResolved

\* Attendance exists only for trips that got under way, by startTrip or by a
\* resumed emergency, whatever the status became while the mark was being taken.
AttendanceAfterStart == \A log \in Logs : Departed(trip[log.trip])

\* A completed trip has its end time: both endTrip and resolveSOS complete trips,
\* and stale writes of the other handlers run in between.
CompletedHasEnd == \A t \in Trips : trip[t].status = "COMPLETED" => trip[t].ended

\* Retries with one idempotency key, even concurrent ones, leave one log.
KeyMarksOnce ==
    \A i, j \in DOMAIN pickupLogs :
        i # j /\ pickupLogs[i].key # None => pickupLogs[i].key # pickupLogs[j].key

\* The last step of an attendance request: it is answered with result.
Answers(r, result) ==
    Busy(r) /\ req[r].op \in MarkOps /\ req'[r] = Idle(result)

\* An attendance request answered with success has its own log in the table, and
\* one answered from an earlier request's log had a key that is in the table.
AckedMarkIsStored ==
    [][\A r \in Requests :
          /\ Answers(r, "ok") => NewLog(req[r]) \in Logs'
          /\ Answers(r, "existing") => \E log \in Logs : log.key = req[r].key]_vars

SosAlerted(t) == [type |-> "SOS", trip |-> t] \in alerts

SosOnItsWay(t) ==
    \E r \in Requests : /\ req[r].op = "sos" /\ req[r].trip = t
                        /\ req[r].pc \in {"setLocation", "insertAlert"}

\* A trip whose driver raised an SOS has its alert, or the handler is about to
\* insert it.  True as long as no call fails and the process does not die.
SosIsAlerted ==
    \A t \in Trips : trip[t].sosActivated => SosAlerted(t) \/ SosOnItsWay(t)

AllClear(t) == [type |-> "SOS_RESOLVED", trip |-> t] \in alerts

\* When nothing fails, the alert that an emergency is over stands in the table without
\* the alert that raised it only while a handler is on its way to insert that one:
\* calls that overlap may turn the two around (trips.service.ts:769), no more.
AllClearHasAlarm == \A t \in Trips : AllClear(t) => SosAlerted(t) \/ SosOnItsWay(t)

\* When clients do not overlap calls on a trip either, they come in order.
ResolutionFollowsAlert ==
    \A t \in Trips : AllClear(t) => SosAlerted(t)

\* When clients do not overlap calls on a trip, a student who was picked up or
\* dropped off gets no later log on the trip: only an absence can be revised.
MarkIsFinal ==
    \A i, j \in DOMAIN pickupLogs :
        /\ i < j
        /\ pickupLogs[i].trip = pickupLogs[j].trip
        /\ pickupLogs[i].student = pickupLogs[j].student
        => pickupLogs[i].action = "ABSENT"

FinalLogs(t, s) ==
    {i \in DOMAIN pickupLogs : /\ pickupLogs[i].trip = t /\ pickupLogs[i].student = s
                               /\ pickupLogs[i].action \in FinalActions}

\* However the calls of clients overlap, whichever fail and whenever the process dies, a
\* student has no more pickups and drops on a trip than there can be calls at one time.
MarksOnlyOverlap ==
    \A t \in Trips, s \in Students : Cardinality(FinalLogs(t, s)) <= Cardinality(Requests)

\* When clients do not overlap calls on a trip, the columns of its row agree: it has an
\* end exactly when it is completed, and an emergency that nobody resolved still stands.
ColumnsAgree ==
    \A t \in Trips :
        /\ trip[t].ended <=> trip[t].status = "COMPLETED"
        /\ trip[t].sosActivated /\ ~trip[t].sosResolved => trip[t].status = "SOS_ACTIVE"

\* An endTrip for t that has written the status and not yet cleaned up.
Ending(r, t) ==
    /\ req[r].op = "end" /\ req[r].trip = t
    /\ req[r].pc \in {"setLocation", "recordLocation", "removeActive"}

\* A completed trip in the Redis list of active trips that no handler will take off.
LeftActive(t) ==
    t \in activeTrips /\ trip[t].status = "COMPLETED" /\ \A r \in Requests : ~Ending(r, t)

\* However calls overlap and whatever fails, a completed trip is left in the list in three
\* ways only: an SOS completes it, its endTrip fails after the write of the status, or
\* its create comes to list it when it is over.  A trip that endTrip completes and that
\* is listed by then leaves the list, even if an SOS was raised and resolved before.
EndedLeavesActive ==
    [][\A t \in Trips : ~LeftActive(t) /\ LeftActive(t)' =>
          \E r \in Requests :
             \/ req[r].trip = t /\ (ResolveSOS(r) \/ CreateSetActive(r))
             \/ Ending(r, t) /\ (CallFails(r) \/ Crash)]_vars

-----------------------------------------------------------------------------
(* Refinement *)

LogsOf(t, s) == {i \in DOMAIN pickupLogs : pickupLogs[i].trip = t /\ pickupLogs[i].student = s}

\* The attendance of s on t: the last log, if any.
MarkOf(t, s) ==
    IF LogsOf(t, s) = {} THEN "NONE"
    ELSE pickupLogs[CHOOSE i \in LogsOf(t, s) : \A j \in LogsOf(t, s) : j <= i].action

Contract ==
    INSTANCE TripContract
        WITH phase <- [t \in Trips |-> trip[t].status],
             mark <- [t \in Trips |-> [s \in Students |-> MarkOf(t, s)]]

\* When calls on one trip do not overlap, TripService implements TripContract,
\* whatever call fails and whenever the process dies.
ImplementsContract == Contract!Spec

-----------------------------------------------------------------------------
(* Liveness *)

\* Every request is answered.
Answered == \A r \in Requests : Busy(r) ~> ~Busy(r)

\* When nothing fails, an emergency on a trip comes to the school's alerts.
SosAlertFollows == \A t \in Trips : trip[t].status = "SOS_ACTIVE" ~> SosAlerted(t)

-----------------------------------------------------------------------------
(* What the repository's texts say and the code does not do *)

\* A log this request would repeat: same trip, student, action and key.
IsRetry(q) == q.op \in MarkOps /\ q.key # None /\ NewLog(q) \in Logs

\* README, Idempotency: a request with the key of an earlier one returns its log.
RetryReturnsLog ==
    [][\A r \in Requests :
          IsRetry(req[r]) /\ req[r].op # "absent" => ~Answers(r, "conflict")]_vars
=============================================================================
