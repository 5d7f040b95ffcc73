--------------------------- MODULE TripServiceProofs ---------------------------
(***************************************************************************)
(* Theorems about TripService for any number of requests, trips, vans,     *)
(* drivers, students and keys, with and without faults.                    *)
(*                                                                         *)
(* The argument: a request that is past its first query has seen the trip  *)
(* under way, and "under way" (Departed) is never undone, although the     *)
(* status it saw may be.  Only the insert of create makes a row that is    *)
(* not under way, and the id it inserts is its own (FreshIds).             *)
(***************************************************************************)
EXTENDS TripService, TLAPS

MarkCalls == {"findStudent", "findLog", "findKey", "insertLog"}

\* What a request in flight carries.
Shape ==
    \A r \in Requests :
        /\ Busy(r) => req[r].trip \in Trips
        /\ req[r].op \in MarkOps => req[r].student \in Students
        /\ req[r].pc \in MarkCalls => req[r].op \in MarkOps

TypeInv == TypeOK /\ Shape

Creating(r) == req[r].pc \in {"findVan", "findRoute", "insertTrip"}

\* An id that create is about to insert has no row, and no other request names it;
\* every other request names a row.
FreshIds ==
    /\ \A t \in Trips : trip[t].status = "UNBORN" => trip[t] = NoRow
    /\ \A r \in Requests :
          /\ Creating(r) => /\ trip[req[r].trip].status = "UNBORN"
                            /\ \A q \in Requests \ {r} : req[q].trip # req[r].trip
          /\ Busy(r) /\ ~Creating(r) => trip[req[r].trip].status # "UNBORN"

\* A trip in progress has departed, and so has the trip of a mark being taken.
Underway ==
    /\ \A t \in Trips : trip[t].status = "IN_PROGRESS" => Departed(trip[t])
    /\ \A r \in Requests : req[r].pc \in MarkCalls => Departed(trip[req[r].trip])
    /\ AttendanceAfterStart

TripInv == FreshIds /\ Underway

-----------------------------------------------------------------------------
(* Types *)

LEMMA InitTypeInv == Init => TypeInv
BY TripServiceAssumption DEF Init, TypeInv, TypeOK, Shape, TripRow, NoRow, LogRow, Status, Alert,
      Request, Calls, Results, Idle, Busy, MarkOps, MarkCalls

\* A reply leaves a slot that carries nothing.
LEMMA ReplyKeepsRequests ==
    ASSUME TypeInv, NEW r \in Requests, NEW result \in Results, Reply(r, result)
    PROVE  req' \in [Requests -> Request] /\ Shape'
BY DEF Reply, TypeInv, TypeOK, Shape, Request, Calls, Results, Idle, Busy, MarkOps, MarkCalls

\* Going on to the next call keeps what the request carries.
LEMMA GotoKeepsRequests ==
    ASSUME TypeInv, NEW r \in Requests, NEW call \in Calls, Busy(r), Goto(r, call),
           call \in MarkCalls => req[r].op \in MarkOps
    PROVE  req' \in [Requests -> Request] /\ Shape'
BY DEF Goto, TypeInv, TypeOK, Shape, Request, Calls, Busy, MarkOps, MarkCalls

LEMMA ArriveTypeInv ==
    ASSUME TypeInv, NEW r \in Requests, Arrive(r)
    PROVE  TypeInv'
<1> PICK d \in Drivers, t \in Trips :
           \/ \E v \in Vans : RequestCreate(r, d, v, t)
           \/ \E op \in TripOps, s \in Students \cup {None}, k \in Keys \cup {None} :
                 RequestTripOp(r, op, d, t, s, k)
  BY DEF Arrive
<1>1. ASSUME NEW v \in Vans, RequestCreate(r, d, v, t)
      PROVE  TypeInv'
  <2> DEFINE q == [Idle("none") EXCEPT !.op = "create", !.pc = "findVan",
                                       !.driver = d, !.van = v, !.trip = t]
  <2>1. q \in Request /\ q.trip = t /\ q.op \notin MarkOps /\ q.pc \notin MarkCalls
    BY DEF Idle, Request, Calls, Results, MarkOps, TripOps, MarkCalls
  <2>2. req' = [req EXCEPT ![r] = q] /\ UNCHANGED stores
    BY <1>1 DEF RequestCreate
  <2> HIDE DEF q
  <2> QED
    BY <2>1, <2>2 DEF TypeInv, TypeOK, Shape, Busy, stores
<1>2. ASSUME NEW op \in TripOps, NEW s \in Students \cup {None}, NEW k \in Keys \cup {None},
             RequestTripOp(r, op, d, t, s, k)
      PROVE  TypeInv'
  <2> DEFINE q == [Idle("none") EXCEPT !.op = op, !.pc = "findTrip", !.driver = d,
                                       !.trip = t, !.student = s, !.key = k]
  <2>1. q \in Request /\ q.trip = t /\ q.pc \notin MarkCalls
    BY DEF Idle, Request, Calls, Results, MarkOps, TripOps, MarkCalls
  <2>2. q.op \in MarkOps => q.student \in Students
    BY <1>2, TripServiceAssumption DEF RequestTripOp, Idle
  <2>3. req' = [req EXCEPT ![r] = q] /\ UNCHANGED stores
    BY <1>2 DEF RequestTripOp
  <2> HIDE DEF q
  <2> QED
    BY <2>1, <2>2, <2>3 DEF TypeInv, TypeOK, Shape, Busy, stores
<1> QED
  BY <1>1, <1>2

LEMMA StepTypeInv ==
    ASSUME TypeInv, NEW r \in Requests, Step(r)
    PROVE  TypeInv'
<1> USE DEF TypeInv
<1> req[r] \in Request
  BY DEF TypeOK
<1>1. ASSUME NEW result \in Results, Reply(r, result), UNCHANGED stores
      PROVE  TypeInv'
  BY <1>1, ReplyKeepsRequests DEF TypeOK, stores
<1>2. ASSUME Busy(r), NEW call \in Calls, call \in MarkCalls => req[r].op \in MarkOps,
             Goto(r, call), UNCHANGED stores
      PROVE  TypeInv'
  BY <1>2, GotoKeepsRequests DEF TypeOK, stores
<1>3. CASE CreateFindVan(r)
  BY <1>1, <1>2, <1>3 DEF CreateFindVan, At, Busy, Calls, Results, MarkCalls
<1>4. CASE CreateFindRoute(r)
  BY <1>1, <1>2, <1>4 DEF CreateFindRoute, At, Busy, Calls, Results, MarkCalls
<1>5. CASE CreateInsert(r)
  <2>1. req' \in [Requests -> Request] /\ Shape'
    BY <1>5, GotoKeepsRequests DEF CreateInsert, At, Busy, Calls, MarkCalls
  <2>2. trip' \in [Trips -> TripRow]
    BY <1>5 DEF CreateInsert, TypeOK, TripRow, NoRow, Status, Request
  <2> QED
    BY <1>5, <2>1, <2>2 DEF CreateInsert, TypeOK
<1>6. CASE CreateSetActive(r)
  <2>1. req' \in [Requests -> Request] /\ Shape'
    BY <1>6, ReplyKeepsRequests DEF CreateSetActive, Results
  <2> QED
    BY <1>6, <2>1 DEF CreateSetActive, TypeOK, Shape, At, Busy
<1>7. CASE FindTrip(r)
  BY <1>1, <1>2, <1>7 DEF FindTrip, At, Busy, Calls, Results, MarkCalls
<1>8. ASSUME Busy(r), NEW row \in TripRow, NEW call \in Calls \ MarkCalls,
             Update(r, row), Goto(r, call)
      PROVE  TypeInv'
  BY <1>8, GotoKeepsRequests DEF Update, TypeOK
<1>9. trip[req[r].trip] \in TripRow /\ Busy(r)
  BY DEF Step, At, Busy, Shape, TypeOK, CreateFindVan, CreateFindRoute, CreateInsert,
         CreateSetActive, FindTrip, StartTrip, EndTrip, ActivateSOS, ResolveSOS, FindStudent,
         FindLog, FindKey, InsertLog, SetLocation, RecordLocation, RemoveActive, InsertAlert
<1>10. CASE StartTrip(r) \/ EndTrip(r) \/ ActivateSOS(r) \/ ResolveSOS(r)
  <2>1. ASSUME NEW row \in TripRow, NEW status \in ResolvedStatus
        PROVE  /\ StartedRow(row) \in TripRow
               /\ EndedRow(row) \in TripRow
               /\ SosRow(row) \in TripRow
               /\ ResolvedRow(row, status) \in TripRow
    BY DEF StartedRow, EndedRow, SosRow, ResolvedRow, ResolvedStatus, TripRow, Status
  <2> QED
    BY <1>8, <1>9, <1>10, <2>1
       DEF StartTrip, EndTrip, ActivateSOS, ResolveSOS, ResolvedStatus, Calls, MarkCalls
<1>11. CASE FindStudent(r)
  BY <1>1, <1>2, <1>11 DEF FindStudent, At, Busy, Calls, Results, MarkCalls, Shape
<1>12. CASE FindLog(r)
  BY <1>1, <1>2, <1>12 DEF FindLog, At, Busy, Calls, Results, MarkCalls, Shape
<1>13. CASE FindKey(r)
  BY <1>1, <1>2, <1>13 DEF FindKey, At, Busy, Calls, Results, MarkCalls, Shape
<1>14. CASE InsertLog(r)
  <2>1. req' \in [Requests -> Request] /\ Shape'
    BY <1>14, ReplyKeepsRequests, GotoKeepsRequests
       DEF InsertLog, At, Busy, Calls, Results, MarkCalls
  <2>2. NewLog(req[r]) \in LogRow
    BY <1>14 DEF InsertLog, At, Busy, Shape, MarkCalls, MarkOps, NewLog, Written, LogRow,
                 FinalActions, Request
  <2>3. pickupLogs' \in Seq(LogRow)
    BY <1>14, <2>2 DEF InsertLog, TypeOK
  <2> QED
    BY <1>14, <2>1, <2>3 DEF InsertLog, TypeOK
<1>15. CASE SetLocation(r)
  BY <1>1, <1>2, <1>15 DEF SetLocation, AfterSetLocation, At, Busy, Calls, Results, MarkCalls
<1>16. CASE RecordLocation(r)
  BY <1>1, <1>2, <1>16 DEF RecordLocation, At, Busy, Calls, Results, MarkCalls
<1>17. CASE RemoveActive(r)
  <2>1. req' \in [Requests -> Request] /\ Shape'
    BY <1>17, ReplyKeepsRequests DEF RemoveActive, Results
  <2> QED
    BY <1>17, <2>1 DEF RemoveActive, TypeOK
<1>18. CASE InsertAlert(r)
  <2>1. req' \in [Requests -> Request] /\ Shape'
    BY <1>18, ReplyKeepsRequests DEF InsertAlert, Results
  <2> QED
    BY <1>18, <2>1 DEF InsertAlert, TypeOK, Alert, Shape, At, Busy
<1> QED
  BY <1>3, <1>4, <1>5, <1>6, <1>7, <1>8, <1>9, <1>10, <1>11, <1>12, <1>13, <1>14, <1>15,
     <1>16, <1>17, <1>18 DEF Step

LEMMA FaultTypeInv ==
    ASSUME TypeInv, Environment \/ \E r \in Requests : CallFails(r)
    PROVE  TypeInv'
<1>1. CASE \E r \in Requests : CallFails(r)
  BY <1>1, ReplyKeepsRequests DEF CallFails, Results, TypeInv, TypeOK, stores
<1>2. CASE Crash
  BY <1>2 DEF Crash, TypeInv, TypeOK, Shape, Request, Calls, Results, Idle, Busy, MarkOps,
              MarkCalls, stores
<1>3. CASE \E t \in Trips : ActiveTripExpires(t)
  BY <1>3 DEF ActiveTripExpires, TypeInv, TypeOK, Shape, Busy
<1>4. CASE \E s \in Students, v \in Vans \cup {None} : StudentMoved(s, v)
  BY <1>4 DEF StudentMoved, TypeInv, TypeOK, Shape, Busy
<1>5. CASE \E v \in Vans, d \in Drivers \cup {None} : VanReassigned(v, d)
  BY <1>5 DEF VanReassigned, TypeInv, TypeOK, Shape, Busy
<1> QED
  BY <1>1, <1>2, <1>3, <1>4, <1>5 DEF Environment

LEMMA NextTypeInv == TypeInv /\ [Next]_vars => TypeInv'
<1> SUFFICES ASSUME TypeInv, [Next]_vars PROVE TypeInv'
  OBVIOUS
<1>1. CASE Next
  BY <1>1, ArriveTypeInv, StepTypeInv, FaultTypeInv DEF Next
<1>2. CASE UNCHANGED vars
  BY <1>2 DEF vars, TypeInv, TypeOK, Shape, Busy
<1> QED
  BY <1>1, <1>2

\* Every reachable state is well typed, and every request in flight carries what its
\* next call needs.
THEOREM TypeCorrect == Spec => []TypeInv
BY InitTypeInv, NextTypeInv, PTL DEF Spec

\* Rows, requests and relations keep their types.
THEOREM TypeSafety == Spec => []TypeOK
<1>1. TypeInv => TypeOK
  BY DEF TypeInv
<1> QED
  BY <1>1, TypeCorrect, PTL

-----------------------------------------------------------------------------
(* Attendance belongs to trips that got under way *)

\* An insert adds one log.
LEMMA LogsAppend ==
    ASSUME TypeOK, NEW log \in LogRow, pickupLogs' = Append(pickupLogs, log)
    PROVE  Logs' = Logs \cup {log}
<1>1. /\ pickupLogs \in Seq(LogRow)
      /\ DOMAIN pickupLogs = 1 .. Len(pickupLogs)
      /\ DOMAIN pickupLogs' = 1 .. Len(pickupLogs) + 1
      /\ \A i \in 1 .. Len(pickupLogs) : pickupLogs'[i] = pickupLogs[i]
      /\ pickupLogs'[Len(pickupLogs) + 1] = log
      /\ Len(pickupLogs) \in Nat
  BY DEF TypeOK
<1>2. \A i \in 1 .. Len(pickupLogs) + 1 : i \in 1 .. Len(pickupLogs) \/ i = Len(pickupLogs) + 1
  BY <1>1
<1>3. \A i \in 1 .. Len(pickupLogs) : i \in 1 .. Len(pickupLogs) + 1
  BY <1>1
<1>4. Len(pickupLogs) + 1 \in 1 .. Len(pickupLogs) + 1
  BY <1>1
<1> QED
  BY <1>1, <1>2, <1>3, <1>4, Zenon DEF Logs

\* The logs of a well typed state name trips.
LEMMA LogsTyped == TypeOK => \A log \in Logs : log \in LogRow /\ log.trip \in Trips
<1> SUFFICES ASSUME TypeOK, NEW log \in Logs PROVE log \in LogRow /\ log.trip \in Trips
  OBVIOUS
<1>1. PICK i \in DOMAIN pickupLogs : log = pickupLogs[i]
  BY DEF Logs
<1>2. log \in LogRow
  BY <1>1 DEF TypeOK
<1> QED
  BY <1>2 DEF LogRow

LEMMA InitTripInv == Init => TripInv
BY TripServiceAssumption
   DEF Init, TripInv, FreshIds, Underway, AttendanceAfterStart, Logs, Creating, Busy, Idle, NoRow,
       MarkCalls

\* Answering a request disturbs nothing: an idle slot names no trip.
LEMMA ReplyTripInv ==
    ASSUME TypeInv, TripInv, NEW r \in Requests, NEW result \in Results, Reply(r, result),
           UNCHANGED <<trip, pickupLogs>>
    PROVE  TripInv'
<1>1. FreshIds'
  BY TripServiceAssumption
     DEF TypeInv, TypeOK, Shape, TripInv, FreshIds, Reply, Idle, Creating, Busy
<1>2. Underway'
  BY DEF TypeInv, TypeOK, TripInv, Underway, AttendanceAfterStart, Logs, Reply, Idle, MarkCalls
<1> QED
  BY <1>1, <1>2 DEF TripInv

\* Going on to the next call is safe when the request keeps its kind and, if the
\* call takes attendance, its trip has departed.
LEMMA GotoTripInv ==
    ASSUME TypeInv, TripInv, NEW r \in Requests, NEW call \in Calls, Busy(r), Goto(r, call),
           UNCHANGED <<trip, pickupLogs>>,
           call \in {"findVan", "findRoute", "insertTrip"} <=> Creating(r),
           call \in MarkCalls => Departed(trip[req[r].trip])
    PROVE  TripInv'
<1>1. FreshIds'
  BY DEF TypeInv, TypeOK, Shape, Request, TripInv, FreshIds, Goto, Creating, Busy
<1>2. Underway'
  BY DEF TypeInv, TypeOK, TripInv, Underway, AttendanceAfterStart, Logs, Goto, MarkCalls
<1> QED
  BY <1>1, <1>2 DEF TripInv

\* A handler's write keeps a departed trip departed, and leaves a trip in progress
\* only if it is departed.
LEMMA UpdateTripInv ==
    ASSUME TypeInv, TripInv, NEW r \in Requests, NEW row \in TripRow, NEW call \in Calls,
           Busy(r), ~Creating(r), Update(r, row), Goto(r, call),
           call \notin MarkCalls \cup {"findVan", "findRoute", "insertTrip"},
           row.status # "UNBORN",
           row.status = "IN_PROGRESS" => Departed(row),
           Departed(trip[req[r].trip]) => Departed(row)
    PROVE  TripInv'
<1> DEFINE t == req[r].trip
<1>1. t \in Trips
  BY DEF TypeInv, Shape
<1>2. /\ trip'[t] = row
      /\ \A u \in Trips \ {t} : trip'[u] = trip[u]
      /\ Logs' = Logs
  BY <1>1 DEF Update, TypeInv, TypeOK, Logs
<1>3. /\ \A q \in Requests : req'[q].trip = req[q].trip
      /\ \A q \in Requests \ {r} : req'[q] = req[q]
      /\ req'[r].pc = call
  BY DEF Goto, TypeInv, TypeOK, Request
<1>4. \A u \in Trips : Departed(trip[u]) => Departed(trip'[u])
  BY <1>1, <1>2
<1>5. FreshIds'
  <2>1. \A u \in Trips : trip'[u].status = "UNBORN" => trip'[u] = NoRow
    BY <1>1, <1>2 DEF TripInv, FreshIds
  <2>2. ASSUME NEW q \in Requests, Creating(q)'
        PROVE  /\ trip'[req'[q].trip].status = "UNBORN"
               /\ \A p \in Requests \ {q} : req'[p].trip # req'[q].trip
    <3>1. q # r /\ Creating(q)
      BY <1>3, <2>2 DEF Creating
    <3>2. /\ trip[req[q].trip].status = "UNBORN"
          /\ \A p \in Requests \ {q} : req[p].trip # req[q].trip
      BY <3>1 DEF TripInv, FreshIds
    <3>3. req[q].trip \in Trips \ {t}
      BY <3>1, <3>2 DEF TypeInv, Shape, Busy, Creating
    <3> QED
      BY <1>2, <1>3, <3>2, <3>3
  <2>3. ASSUME NEW q \in Requests, Busy(q)', ~Creating(q)'
        PROVE  trip'[req'[q].trip].status # "UNBORN"
    <3>1. Busy(q) /\ ~Creating(q)
      BY <1>3, <2>3 DEF Busy, Creating
    <3>2. req[q].trip \in Trips /\ trip[req[q].trip].status # "UNBORN"
      BY <3>1 DEF TripInv, FreshIds, TypeInv, Shape
    <3> QED
      BY <1>2, <1>3, <3>2
  <2> QED
    BY <2>1, <2>2, <2>3 DEF FreshIds
<1>6. Underway'
  <2>1. \A u \in Trips : trip'[u].status = "IN_PROGRESS" => Departed(trip'[u])
    BY <1>1, <1>2 DEF TripInv, Underway
  <2>2. ASSUME NEW q \in Requests, req'[q].pc \in MarkCalls
        PROVE  Departed(trip'[req'[q].trip])
    <3>1. req[q].pc \in MarkCalls
      BY <1>3, <2>2
    <3> QED
      BY <1>3, <1>4, <3>1 DEF TripInv, Underway, TypeInv, Shape, Busy, MarkCalls
  <2>3. \A log \in Logs' : Departed(trip'[log.trip])
    BY <1>2, <1>4, LogsTyped DEF TripInv, Underway, AttendanceAfterStart, TypeInv
  <2> QED
    BY <2>1, <2>2, <2>3 DEF Underway, AttendanceAfterStart, Departed
<1> QED
  BY <1>5, <1>6 DEF TripInv

\* create inserts a row nobody else knows of.
LEMMA CreateInsertTripInv ==
    ASSUME TypeInv, TripInv, NEW r \in Requests, CreateInsert(r)
    PROVE  TripInv'
<1> DEFINE t == req[r].trip
           row == [NoRow EXCEPT !.status = "NOT_STARTED", !.van = req[r].van,
                                !.driver = req[r].driver]
<1>1. /\ t \in Trips
      /\ trip[t] = NoRow
      /\ \A q \in Requests \ {r} : req[q].trip # t
  BY DEF CreateInsert, At, TypeInv, Shape, Busy, TripInv, FreshIds, Creating
<1>2. /\ trip'[t] = row
      /\ \A u \in Trips \ {t} : trip'[u] = trip[u]
      /\ Logs' = Logs
  BY <1>1 DEF CreateInsert, TypeInv, TypeOK, Logs
<1>3. row.status = "NOT_STARTED"
  BY DEF NoRow
<1>4. /\ \A q \in Requests : req'[q].trip = req[q].trip
      /\ \A q \in Requests \ {r} : req'[q] = req[q]
      /\ req'[r].pc = "setActive"
  BY DEF CreateInsert, Goto, TypeInv, TypeOK, Request
<1>5. \A log \in Logs : log.trip \in Trips \ {t}
  <2>1. ~Departed(trip[t])
    BY <1>1 DEF Departed, NoRow
  <2> QED
    BY <2>1, LogsTyped DEF TripInv, Underway, AttendanceAfterStart, TypeInv
<1>6. \A q \in Requests \ {r} : Busy(q) => req[q].trip \in Trips \ {t}
  BY <1>1 DEF TypeInv, Shape
<1> HIDE DEF row, t
<1>7. FreshIds'
  <2>1. \A u \in Trips : trip'[u].status = "UNBORN" => trip'[u] = NoRow
    BY <1>2, <1>3 DEF TripInv, FreshIds
  <2>2. ASSUME NEW q \in Requests, Creating(q)'
        PROVE  /\ trip'[req'[q].trip].status = "UNBORN"
               /\ \A p \in Requests \ {q} : req'[p].trip # req'[q].trip
    <3>1. q # r /\ Creating(q) /\ Busy(q)
      BY <1>4, <2>2 DEF Creating, Busy
    <3>2. /\ trip[req[q].trip].status = "UNBORN"
          /\ \A p \in Requests \ {q} : req[p].trip # req[q].trip
      BY <3>1 DEF TripInv, FreshIds
    <3> QED
      BY <1>2, <1>4, <1>6, <3>1, <3>2
  <2>3. ASSUME NEW q \in Requests, Busy(q)', ~Creating(q)'
        PROVE  trip'[req'[q].trip].status # "UNBORN"
    <3>1. CASE q = r
      BY <1>2, <1>3, <1>4, <3>1 DEF t
    <3>2. CASE q # r
      <4>1. Busy(q) /\ ~Creating(q)
        BY <1>4, <2>3, <3>2 DEF Busy, Creating
      <4> QED
        BY <1>2, <1>4, <1>6, <3>2, <4>1 DEF TripInv, FreshIds
    <3> QED
      BY <3>1, <3>2
  <2> QED
    BY <2>1, <2>2, <2>3 DEF FreshIds
<1>8. Underway'
  <2>1. \A u \in Trips : trip'[u].status = "IN_PROGRESS" => Departed(trip'[u])
    BY <1>2, <1>3 DEF TripInv, Underway
  <2>2. ASSUME NEW q \in Requests, req'[q].pc \in MarkCalls
        PROVE  Departed(trip'[req'[q].trip])
    <3>1. q # r /\ req[q].pc \in MarkCalls /\ Busy(q)
      BY <1>4, <2>2 DEF MarkCalls, Busy
    <3> QED
      BY <1>2, <1>4, <1>6, <3>1 DEF TripInv, Underway
  <2>3. \A log \in Logs' : Departed(trip'[log.trip])
    BY <1>2, <1>5 DEF TripInv, Underway, AttendanceAfterStart
  <2> QED
    BY <2>1, <2>2, <2>3 DEF Underway, AttendanceAfterStart, Departed
<1> QED
  BY <1>7, <1>8 DEF TripInv

\* The new log is of a departed trip: its request was taking attendance.
LEMMA InsertLogTripInv ==
    ASSUME TypeInv, TripInv, NEW r \in Requests, InsertLog(r)
    PROVE  TripInv'
<1>1. CASE UNCHANGED pickupLogs
  BY <1>1, ReplyTripInv, GotoTripInv
     DEF InsertLog, At, Busy, Creating, Calls, Results, MarkCalls
<1>2. CASE pickupLogs' = Append(pickupLogs, NewLog(req[r]))
  <2>1. req[r].op \in MarkOps /\ req[r].trip \in Trips /\ req[r].student \in Students
    BY DEF InsertLog, At, Busy, TypeInv, Shape, MarkCalls
  <2>2. NewLog(req[r]) \in LogRow /\ NewLog(req[r]).trip = req[r].trip
    BY <2>1 DEF NewLog, Written, LogRow, FinalActions, MarkOps, TypeInv, TypeOK, Request
  <2>3. Logs' = Logs \cup {NewLog(req[r])}
    BY <1>2, <2>2, LogsAppend DEF TypeInv
  <2>4. /\ trip' = trip
        /\ Reply(r, "ok") \/ Goto(r, "setLocation") \/ Reply(r, "error")
    BY DEF InsertLog
  <2>5. FreshIds'
    <3>1. req[r].pc = "insertLog"
      BY DEF InsertLog, At
    <3>2. ASSUME NEW result \in Results, Reply(r, result)
          PROVE  FreshIds'
      BY <2>4, <3>1, <3>2, TripServiceAssumption
         DEF TypeInv, TypeOK, Shape, TripInv, FreshIds, Reply, Idle, Creating, Busy
    <3>3. ASSUME Goto(r, "setLocation")
          PROVE  FreshIds'
      BY <2>4, <3>1, <3>3
         DEF TypeInv, TypeOK, Shape, Request, TripInv, FreshIds, Goto, Creating, Busy
    <3> QED
      BY <2>4, <3>2, <3>3 DEF Results
  <2>6. Departed(trip[req[r].trip])
    BY DEF InsertLog, At, TripInv, Underway, MarkCalls
  <2>7. \A q \in Requests : req'[q].pc \in MarkCalls => req'[q] = req[q]
    BY <2>4 DEF Reply, Goto, Idle, MarkCalls, TypeInv, TypeOK, Request
  <2> QED
    BY <2>2, <2>3, <2>4, <2>5, <2>6, <2>7 DEF TripInv, Underway, AttendanceAfterStart, Departed
<1> QED
  BY <1>1, <1>2 DEF InsertLog

\* A new request names a row that exists, or an id that nobody else names.
LEMMA ArriveTripInv ==
    ASSUME TypeInv, TripInv, NEW r \in Requests, Arrive(r)
    PROVE  TripInv'
<1>1. PICK d \in Drivers, t \in Trips :
           \/ \E v \in Vans : RequestCreate(r, d, v, t)
           \/ \E op \in TripOps, s \in Students \cup {None}, k \in Keys \cup {None} :
                 RequestTripOp(r, op, d, t, s, k)
  BY DEF Arrive
<1>2. /\ UNCHANGED <<trip, pickupLogs>>
      /\ req'[r].trip = t
      /\ \A q \in Requests \ {r} : req'[q] = req[q]
      /\ \/ /\ req'[r].pc = "findVan"
            /\ trip[t].status = "UNBORN"
            /\ \A q \in Requests : req[q].trip # t
         \/ /\ req'[r].pc = "findTrip"
            /\ trip[t].status # "UNBORN"
  <2>1. r \in DOMAIN req
    BY DEF TypeInv, TypeOK
  <2>2. ASSUME NEW v \in Vans, RequestCreate(r, d, v, t)
        PROVE  /\ req'[r].trip = t
               /\ req'[r].pc = "findVan"
    BY <2>1, <2>2 DEF RequestCreate, Idle
  <2>3. ASSUME NEW op \in TripOps, NEW s \in Students \cup {None}, NEW k \in Keys \cup {None},
               RequestTripOp(r, op, d, t, s, k)
        PROVE  /\ req'[r].trip = t
               /\ req'[r].pc = "findTrip"
    BY <2>1, <2>3 DEF RequestTripOp, Idle
  <2>4. /\ UNCHANGED <<trip, pickupLogs>>
        /\ \A q \in Requests \ {r} : req'[q] = req[q]
    BY <1>1 DEF RequestCreate, RequestTripOp, TypeInv, TypeOK, stores
  <2> QED
    BY <1>1, <2>2, <2>3, <2>4 DEF RequestCreate, RequestTripOp
<1>3. FreshIds'
  <2>1. ASSUME NEW q \in Requests, Creating(q)'
        PROVE  /\ trip[req'[q].trip].status = "UNBORN"
               /\ \A p \in Requests \ {q} : req'[p].trip # req'[q].trip
    <3>1. CASE q = r
      BY <1>2, <2>1, <3>1 DEF Creating
    <3>2. CASE q # r
      <4>1. Creating(q)
        BY <1>2, <2>1, <3>2 DEF Creating
      <4> QED
        BY <1>2, <3>2, <4>1 DEF TripInv, FreshIds
    <3> QED
      BY <3>1, <3>2
  <2>2. ASSUME NEW q \in Requests, Busy(q)', ~Creating(q)'
        PROVE  trip[req'[q].trip].status # "UNBORN"
    BY <1>2, <2>2 DEF TripInv, FreshIds, Busy, Creating
  <2> QED
    BY <1>2, <2>1, <2>2 DEF TripInv, FreshIds
<1>4. Underway'
  BY <1>2 DEF TripInv, Underway, AttendanceAfterStart, Logs, MarkCalls
<1> QED
  BY <1>3, <1>4 DEF TripInv

LEMMA StepTripInv ==
    ASSUME TypeInv, TripInv, NEW r \in Requests, Step(r)
    PROVE  TripInv'
<1> req[r] \in Request /\ req[r].trip \in Trips \cup {None}
  BY DEF TypeInv, TypeOK, Request
<1>1. CASE CreateFindVan(r) \/ CreateFindRoute(r)
  BY <1>1, ReplyTripInv, GotoTripInv
     DEF CreateFindVan, CreateFindRoute, At, Busy, Creating, Calls, Results, MarkCalls, stores
<1>2. CASE CreateInsert(r)
  BY <1>2, CreateInsertTripInv
<1>3. CASE CreateSetActive(r) \/ RemoveActive(r) \/ InsertAlert(r)
  BY <1>3, ReplyTripInv DEF CreateSetActive, RemoveActive, InsertAlert, Results
<1>4. CASE FindTrip(r)
  <2>1. CASE Admits(trip[req[r].trip], req[r]) /\ req[r].op \in MarkOps
    <3>1. /\ trip[req[r].trip].status = "IN_PROGRESS"
          /\ req[r].trip \in Trips
      BY <1>4, <2>1 DEF FindTrip, At, Busy, TypeInv, Shape, Admits, RequiredStatus, MarkOps
    <3>2. Departed(trip[req[r].trip])
      BY <3>1 DEF TripInv, Underway
    <3> QED
      BY <1>4, <2>1, <3>2, GotoTripInv
         DEF FindTrip, At, Busy, Creating, Calls, MarkCalls, stores
  <2>2. CASE ~(Admits(trip[req[r].trip], req[r]) /\ req[r].op \in MarkOps)
    BY <1>4, <2>2, ReplyTripInv, GotoTripInv
       DEF FindTrip, At, Busy, Creating, Calls, Results, MarkCalls, stores
  <2> QED
    BY <2>1, <2>2
<1>5. CASE StartTrip(r) \/ EndTrip(r) \/ ActivateSOS(r) \/ ResolveSOS(r)
  <2>1. Busy(r) /\ ~Creating(r) /\ trip[req[r].trip] \in TripRow
    BY <1>5 DEF StartTrip, EndTrip, ActivateSOS, ResolveSOS, At, Busy, Creating, TypeInv, TypeOK,
                Shape
  <2>2. ASSUME NEW row \in TripRow, NEW status \in ResolvedStatus
        PROVE  /\ StartedRow(row) \in TripRow
               /\ EndedRow(row) \in TripRow
               /\ SosRow(row) \in TripRow
               /\ ResolvedRow(row, status) \in TripRow
    BY DEF StartedRow, EndedRow, SosRow, ResolvedRow, ResolvedStatus, TripRow, Status
  <2>3. ASSUME NEW row \in TripRow, NEW status \in ResolvedStatus,
               NEW new \in {StartedRow(row), EndedRow(row), SosRow(row), ResolvedRow(row, status)}
        PROVE  /\ new.status # "UNBORN"
               /\ new.status = "IN_PROGRESS" => Departed(new)
               /\ Departed(row) => Departed(new)
    BY DEF StartedRow, EndedRow, SosRow, ResolvedRow, ResolvedStatus, TripRow, Departed
  <2>4. PICK status \in ResolvedStatus, new \in TripRow, call \in {"setLocation", "insertAlert"} :
             /\ new \in LET row == trip[req[r].trip]
                        IN {StartedRow(row), EndedRow(row), SosRow(row), ResolvedRow(row, status)}
             /\ Update(r, new)
             /\ Goto(r, call)
    BY <1>5, <2>1, <2>2 DEF StartTrip, EndTrip, ActivateSOS, ResolveSOS, ResolvedStatus
  <2> QED
    BY <2>1, <2>3, <2>4, UpdateTripInv DEF Calls, MarkCalls
<1>6. CASE FindStudent(r) \/ FindLog(r) \/ FindKey(r)
  <2>1. Departed(trip[req[r].trip])
    BY <1>6 DEF FindStudent, FindLog, FindKey, At, TripInv, Underway, MarkCalls
  <2> QED
    BY <1>6, <2>1, ReplyTripInv, GotoTripInv
       DEF FindStudent, FindLog, FindKey, At, Busy, Creating, Calls, Results, MarkCalls, stores
<1>7. CASE InsertLog(r)
  BY <1>7, InsertLogTripInv
<1>8. CASE SetLocation(r) \/ RecordLocation(r)
  BY <1>8, ReplyTripInv, GotoTripInv
     DEF SetLocation, RecordLocation, AfterSetLocation, At, Busy, Creating, Calls, Results,
         MarkCalls, stores
<1> QED
  BY <1>1, <1>2, <1>3, <1>4, <1>5, <1>6, <1>7, <1>8 DEF Step

LEMMA FaultTripInv ==
    ASSUME TypeInv, TripInv, Environment \/ \E r \in Requests : CallFails(r)
    PROVE  TripInv'
<1>1. CASE \E r \in Requests : CallFails(r)
  BY <1>1, ReplyTripInv DEF CallFails, Results, stores
<1>2. CASE Crash
  <2>1. /\ UNCHANGED <<trip, pickupLogs>>
        /\ \A q \in Requests : req'[q].pc = "idle"
    BY <1>2 DEF Crash, Idle, Busy, stores
  <2> QED
    BY <2>1 DEF TripInv, FreshIds, Underway, AttendanceAfterStart, Logs, Creating, Busy, MarkCalls
<1>3. CASE UNCHANGED <<trip, pickupLogs, req>>
  BY <1>3 DEF TripInv, FreshIds, Underway, AttendanceAfterStart, Logs, Creating, Busy, MarkCalls
<1> QED
  BY <1>1, <1>2, <1>3 DEF Environment, ActiveTripExpires, StudentMoved, VanReassigned

LEMMA NextTripInv == TypeInv /\ TripInv /\ [Next]_vars => TripInv'
<1> SUFFICES ASSUME TypeInv, TripInv, [Next]_vars PROVE TripInv'
  OBVIOUS
<1>1. CASE Next
  BY <1>1, ArriveTripInv, StepTripInv, FaultTripInv DEF Next
<1>2. CASE UNCHANGED vars
  BY <1>2 DEF vars, TripInv, FreshIds, Underway, AttendanceAfterStart, Logs, Creating, Busy,
              MarkCalls
<1> QED
  BY <1>1, <1>2

\* Attendance exists only for trips that were started or resumed from an emergency,
\* whatever requests overlap, calls fail and processes die.
THEOREM AttendanceSafety == Spec => []AttendanceAfterStart
<1>1. TripInv => AttendanceAfterStart
  BY DEF TripInv, Underway
<1> QED
  BY <1>1, InitTripInv, NextTripInv, TypeCorrect, PTL DEF Spec

-----------------------------------------------------------------------------
(* Ends of trips *)

\* Only the handlers' updates and the insert of create write the trip table.
LEMMA TripWrites ==
    ASSUME [Next]_vars
    PROVE  \/ UNCHANGED trip
           \/ \E r \in Requests : \/ CreateInsert(r) \/ StartTrip(r) \/ EndTrip(r)
                                  \/ ActivateSOS(r) \/ ResolveSOS(r)
<1>1. ASSUME NEW r \in Requests, Arrive(r) PROVE UNCHANGED trip
  BY <1>1 DEF Arrive, RequestCreate, RequestTripOp, stores
<1>2. ASSUME NEW r \in Requests, Step(r)
      PROVE  \/ UNCHANGED trip
             \/ CreateInsert(r) \/ StartTrip(r) \/ EndTrip(r) \/ ActivateSOS(r) \/ ResolveSOS(r)
  BY <1>2 DEF Step, CreateFindVan, CreateFindRoute, CreateSetActive, FindTrip, FindStudent,
              FindLog, FindKey, InsertLog, SetLocation, RecordLocation, RemoveActive,
              InsertAlert, stores
<1>3. ASSUME Environment \/ (\E r \in Requests : CallFails(r)) \/ UNCHANGED vars
      PROVE  UNCHANGED trip
  BY <1>3 DEF CallFails, Environment, Crash, ActiveTripExpires, StudentMoved, VanReassigned,
              stores, vars
<1> QED
  BY <1>1, <1>2, <1>3 DEF Next

LEMMA NextCompletedHasEnd == TypeInv /\ CompletedHasEnd /\ [Next]_vars => CompletedHasEnd'
<1> SUFFICES ASSUME TypeInv, CompletedHasEnd, [Next]_vars PROVE CompletedHasEnd'
  OBVIOUS
<1>1. CASE UNCHANGED trip
  BY <1>1 DEF CompletedHasEnd
<1>2. ASSUME NEW r \in Requests, CreateInsert(r)
      PROVE  CompletedHasEnd'
  BY <1>2 DEF CompletedHasEnd, CreateInsert, NoRow, TypeInv, TypeOK
<1>3. ASSUME NEW r \in Requests, StartTrip(r) \/ EndTrip(r) \/ ActivateSOS(r) \/ ResolveSOS(r)
      PROVE  CompletedHasEnd'
  <2>1. ASSUME NEW row \in TripRow, NEW status \in ResolvedStatus
        PROVE  /\ StartedRow(row).status # "COMPLETED"
               /\ EndedRow(row).ended
               /\ SosRow(row).status # "COMPLETED"
               /\ ResolvedRow(row, status).status = "COMPLETED" => ResolvedRow(row, status).ended
    BY DEF StartedRow, EndedRow, SosRow, ResolvedRow, TripRow
  <2>2. trip[req[r].trip] \in TripRow /\ req[r].trip \in Trips
    BY <1>3 DEF StartTrip, EndTrip, ActivateSOS, ResolveSOS, At, Busy, TypeInv, TypeOK, Shape
  <2>3. PICK new : /\ Update(r, new)
                   /\ new.status = "COMPLETED" => new.ended
    BY <1>3, <2>1, <2>2 DEF StartTrip, EndTrip, ActivateSOS, ResolveSOS, ResolvedStatus
  <2> QED
    BY <2>2, <2>3 DEF Update, CompletedHasEnd, TypeInv, TypeOK
<1> QED
  BY <1>1, <1>2, <1>3, TripWrites

\* A completed trip has an end time, whichever handler completed it.
THEOREM CompletionSafety == Spec => []CompletedHasEnd
<1>1. Init => CompletedHasEnd
  BY DEF Init, CompletedHasEnd, NoRow
<1> QED
  BY <1>1, NextCompletedHasEnd, TypeCorrect, PTL DEF Spec

-----------------------------------------------------------------------------
(* Idempotency keys *)

\* Only InsertLog writes the attendance table.
LEMMA LogWrites ==
    ASSUME [Next]_vars
    PROVE  \/ UNCHANGED pickupLogs
           \/ \E r \in Requests : /\ InsertLog(r)
                                  /\ ~KeyTaken(req[r].key)
                                  /\ pickupLogs' = Append(pickupLogs, NewLog(req[r]))
                                  /\ Reply(r, "ok") \/ Goto(r, "setLocation")
<1>1. ASSUME NEW r \in Requests, Arrive(r) PROVE UNCHANGED pickupLogs
  BY <1>1 DEF Arrive, RequestCreate, RequestTripOp, stores
<1>2. ASSUME NEW r \in Requests, Step(r) PROVE UNCHANGED pickupLogs \/ InsertLog(r)
  BY <1>2 DEF Step, CreateFindVan, CreateFindRoute, CreateInsert, CreateSetActive, FindTrip,
              StartTrip, EndTrip, ActivateSOS, ResolveSOS, Update, FindStudent, FindLog,
              FindKey, SetLocation, RecordLocation, RemoveActive, InsertAlert, stores
<1>3. ASSUME Environment \/ (\E r \in Requests : CallFails(r)) \/ UNCHANGED vars
      PROVE  UNCHANGED pickupLogs
  BY <1>3 DEF CallFails, Environment, Crash, ActiveTripExpires, StudentMoved, VanReassigned,
              stores, vars
<1>4. ASSUME NEW r \in Requests, InsertLog(r)
      PROVE  \/ UNCHANGED pickupLogs
             \/ /\ ~KeyTaken(req[r].key)
                /\ pickupLogs' = Append(pickupLogs, NewLog(req[r]))
                /\ Reply(r, "ok") \/ Goto(r, "setLocation")
  BY <1>4 DEF InsertLog
<1> QED
  BY <1>1, <1>2, <1>3, <1>4 DEF Next

\* The request inserting a log names a trip and a student.
LEMMA InsertedLog ==
    ASSUME TypeInv, NEW r \in Requests, InsertLog(r)
    PROVE  /\ NewLog(req[r]) \in LogRow
           /\ NewLog(req[r]).trip = req[r].trip
           /\ NewLog(req[r]).student = req[r].student
           /\ NewLog(req[r]).key = req[r].key
<1>1. req[r].op \in MarkOps /\ req[r].trip \in Trips /\ req[r].student \in Students
  BY DEF InsertLog, At, Busy, TypeInv, Shape, MarkCalls
<1> QED
  BY <1>1 DEF NewLog, Written, LogRow, FinalActions, MarkOps, TypeInv, TypeOK, Request

LEMMA NextKeyMarksOnce == TypeInv /\ KeyMarksOnce /\ [Next]_vars => KeyMarksOnce'
<1> SUFFICES ASSUME TypeInv, KeyMarksOnce, [Next]_vars PROVE KeyMarksOnce'
  OBVIOUS
<1>1. CASE UNCHANGED pickupLogs
  BY <1>1 DEF KeyMarksOnce
<1>2. ASSUME NEW r \in Requests, InsertLog(r), ~KeyTaken(req[r].key),
             pickupLogs' = Append(pickupLogs, NewLog(req[r]))
      PROVE  KeyMarksOnce'
  <2> DEFINE n == Len(pickupLogs)
             log == NewLog(req[r])
  <2>1. log.key # None => \A i \in DOMAIN pickupLogs : pickupLogs[i].key # log.key
    BY <1>2, InsertedLog DEF KeyTaken, Logs
  <2>2. pickupLogs \in Seq(LogRow) /\ log \in LogRow
    BY <1>2, InsertedLog DEF TypeInv, TypeOK
  <2> HIDE DEF log
  <2>3. /\ n \in Nat
        /\ DOMAIN pickupLogs = 1 .. n
        /\ DOMAIN pickupLogs' = 1 .. n + 1
        /\ \A i \in 1 .. n : pickupLogs'[i] = pickupLogs[i]
        /\ pickupLogs'[n + 1] = log
    BY <1>2, <2>2 DEF log
  <2> QED
    BY <2>1, <2>3 DEF KeyMarksOnce
<1> QED
  BY <1>1, <1>2, LogWrites

\* However retries with one key overlap or fail, they leave at most one log.
THEOREM KeySafety == Spec => []KeyMarksOnce
<1>1. Init => KeyMarksOnce
  BY DEF Init, KeyMarksOnce
<1> QED
  BY <1>1, NextKeyMarksOnce, TypeCorrect, PTL DEF Spec

-----------------------------------------------------------------------------
(* Acknowledged attendance *)

\* Which handler waits for which call.
Fits(op, call) ==
    /\ call \in {"findVan", "findRoute", "insertTrip", "setActive"} => op = "create"
    /\ call = "findTrip" => op \in TripOps
    /\ call = "updateTrip" => op \in {"start", "end", "sos", "resolve"}
    /\ call = "removeActive" => op = "end"
    /\ call = "insertAlert" => op \in {"sos", "resolve"}
    /\ call \in {"setLocation", "recordLocation"} =>
          op \in {"start", "end", "sos", "pickup", "drop"}
    /\ call = "recordLocation" => op # "sos"

OpsFit == \A r \in Requests : Fits(req[r].op, req[r].pc)

LEMMA GotoFields ==
    ASSUME TypeInv, NEW r \in Requests, NEW call, Goto(r, call)
    PROVE  /\ req'[r].pc = call /\ req'[r].op = req[r].op /\ req'[r].trip = req[r].trip
           /\ req'[r].student = req[r].student /\ req'[r].key = req[r].key
           /\ \A q \in Requests \ {r} : req'[q] = req[q]
BY DEF Goto, TypeInv, TypeOK, Request

LEMMA ReplyFields ==
    ASSUME TypeInv, NEW r \in Requests, NEW result, Reply(r, result)
    PROVE  /\ req'[r] = Idle(result) /\ req'[r].pc = "idle" /\ req'[r].op = "none"
           /\ req'[r].trip = None /\ req'[r].result = result
           /\ \A q \in Requests \ {r} : req'[q] = req[q]
BY DEF Reply, Idle, TypeInv, TypeOK

\* An arriving request waits for the first query of its handler.
LEMMA ArriveFields ==
    ASSUME TypeInv, NEW r \in Requests, Arrive(r)
    PROVE  /\ req'[r].pc = "findVan" => req'[r].op = "create"
           /\ req'[r].pc = "findTrip" => req'[r].op \in TripOps
           /\ req'[r].pc \in {"findVan", "findTrip"}
           /\ \A q \in Requests \ {r} : req'[q] = req[q]
           /\ ~Busy(r) /\ UNCHANGED stores
<1>1. r \in DOMAIN req
  BY DEF TypeInv, TypeOK
<1>2. ASSUME NEW d, NEW v, NEW t, RequestCreate(r, d, v, t)
      PROVE  req'[r].pc = "findVan" /\ req'[r].op = "create"
  BY <1>1, <1>2 DEF RequestCreate, Idle
<1>3. ASSUME NEW op, NEW d, NEW t, NEW s, NEW k, RequestTripOp(r, op, d, t, s, k)
      PROVE  req'[r].pc = "findTrip" /\ req'[r].op = op
  BY <1>1, <1>3 DEF RequestTripOp, Idle
<1>4. ~Busy(r) /\ UNCHANGED stores /\ \A q \in Requests \ {r} : req'[q] = req[q]
  BY <1>1 DEF Arrive, RequestCreate, RequestTripOp, TypeInv, TypeOK
<1> QED
  BY <1>2, <1>3, <1>4 DEF Arrive

LEMMA StepKeepsOthers ==
    ASSUME TypeInv, NEW r \in Requests, Step(r)
    PROVE  \A q \in Requests \ {r} : req'[q] = req[q]
<1>1. (\E result : Reply(r, result)) \/ (\E call : Goto(r, call))
  <2>1. CASE \/ CreateFindVan(r) \/ CreateFindRoute(r) \/ CreateInsert(r) \/ CreateSetActive(r)
             \/ FindTrip(r) \/ StartTrip(r) \/ EndTrip(r) \/ ActivateSOS(r) \/ ResolveSOS(r)
    BY <2>1 DEF CreateFindVan, CreateFindRoute, CreateInsert, CreateSetActive, FindTrip,
                StartTrip, EndTrip, ActivateSOS, ResolveSOS
  <2>2. CASE \/ FindStudent(r) \/ FindLog(r) \/ FindKey(r) \/ InsertLog(r) \/ SetLocation(r)
             \/ RecordLocation(r) \/ RemoveActive(r) \/ InsertAlert(r)
    BY <2>2 DEF FindStudent, FindLog, FindKey, InsertLog, SetLocation, RecordLocation,
                RemoveActive, InsertAlert
  <2> QED
    BY <2>1, <2>2 DEF Step
<1> QED
  BY <1>1, GotoFields, ReplyFields

LEMMA StepOpsFit == ASSUME TypeInv, OpsFit, NEW r \in Requests, Step(r) PROVE OpsFit'
<1>1. ASSUME NEW result, Reply(r, result) PROVE OpsFit'
  <2>1. Fits("none", "idle")
    BY DEF Fits
  <2> QED
    BY <1>1, <2>1, ReplyFields DEF OpsFit
<1>2. ASSUME NEW call, Goto(r, call), Fits(req[r].op, call) PROVE OpsFit'
  BY <1>2, GotoFields DEF OpsFit
<1>3. Fits(req[r].op, req[r].pc) /\ (req[r].pc \in MarkCalls => req[r].op \in MarkOps)
  BY DEF OpsFit, TypeInv, Shape
<1>4. CASE CreateFindVan(r) \/ CreateFindRoute(r) \/ CreateInsert(r) \/ CreateSetActive(r)
  BY <1>1, <1>2, <1>3, <1>4
  DEF CreateFindVan, CreateFindRoute, CreateInsert, CreateSetActive, At, Fits
<1>5. CASE FindTrip(r)
  <2>1. req[r].op \notin MarkOps => req[r].op \in {"start", "end", "sos", "resolve"}
    BY <1>3, <1>5 DEF FindTrip, At, Fits, TripOps
  <2> QED
    BY <1>1, <1>2, <1>5, <2>1 DEF FindTrip, At, Fits
<1>6. CASE StartTrip(r) \/ EndTrip(r) \/ ActivateSOS(r) \/ ResolveSOS(r)
  BY <1>1, <1>2, <1>6 DEF StartTrip, EndTrip, ActivateSOS, ResolveSOS, Fits
<1>7. CASE FindStudent(r) \/ FindLog(r) \/ FindKey(r)
  BY <1>1, <1>2, <1>7 DEF FindStudent, FindLog, FindKey, Fits
<1>8. CASE InsertLog(r)
  BY <1>1, <1>2, <1>3, <1>8 DEF InsertLog, At, MarkCalls, MarkOps, Fits
<1>9. CASE SetLocation(r) \/ RecordLocation(r) \/ RemoveActive(r) \/ InsertAlert(r)
  BY <1>1, <1>2, <1>3, <1>9
  DEF SetLocation, AfterSetLocation, RecordLocation, RemoveActive, InsertAlert, At, Fits
<1> QED
  BY <1>4, <1>5, <1>6, <1>7, <1>8, <1>9 DEF Step

LEMMA NextOpsFit == TypeInv /\ OpsFit /\ [Next]_vars => OpsFit'
<1> SUFFICES ASSUME TypeInv, OpsFit, [Next]_vars PROVE OpsFit'
  OBVIOUS
<1>1. Fits("none", "idle")
  BY DEF Fits
<1>2. ASSUME NEW r \in Requests, Arrive(r) PROVE OpsFit'
  BY <1>2, ArriveFields DEF OpsFit, Fits
<1>3. ASSUME NEW r \in Requests, CallFails(r) PROVE OpsFit'
  BY <1>1, <1>3, ReplyFields DEF CallFails, OpsFit
<1>4. CASE Crash
  <2>1. \A r \in Requests : req'[r] = req[r] \/ (req'[r].op = "none" /\ req'[r].pc = "idle")
    BY <1>4 DEF Crash, Idle
  <2> QED
    BY <1>1, <2>1 DEF OpsFit
<1>5. CASE UNCHANGED req
  BY <1>5 DEF OpsFit
<1> QED
  BY <1>2, <1>3, <1>4, <1>5, StepOpsFit
  DEF Next, Environment, ActiveTripExpires, StudentMoved, VanReassigned, vars

\* A mark that is past its insert is in the table.
MarksStored ==
    \A r \in Requests :
        req[r].op \in MarkOps /\ req[r].pc \in {"setLocation", "recordLocation"}
            => NewLog(req[r]) \in Logs

LEMMA LogsGrow == TypeInv /\ [Next]_vars => Logs \subseteq Logs'
<1> SUFFICES ASSUME TypeInv, [Next]_vars PROVE Logs \subseteq Logs'
  OBVIOUS
<1>1. CASE UNCHANGED pickupLogs
  BY <1>1 DEF Logs
<1>2. ASSUME NEW r \in Requests, InsertLog(r), pickupLogs' = Append(pickupLogs, NewLog(req[r]))
      PROVE  Logs \subseteq Logs'
  BY <1>2, InsertedLog, LogsAppend DEF TypeInv
<1> QED
  BY <1>1, <1>2, LogWrites

LEMMA NextMarksStored ==
    ASSUME TypeInv, OpsFit, MarksStored, [Next]_vars PROVE MarksStored'
<1>1. Logs \subseteq Logs'
  BY LogsGrow
<1>2. ASSUME NEW r \in Requests, NEW q \in Requests \ {r}, req'[q] = req[q],
             req'[q].op \in MarkOps, req'[q].pc \in {"setLocation", "recordLocation"}
      PROVE  NewLog(req'[q]) \in Logs'
  BY <1>1, <1>2 DEF MarksStored
<1>3. ASSUME NEW r \in Requests, \A q \in Requests \ {r} : req'[q] = req[q],
             req'[r].op \in MarkOps /\ req'[r].pc \in {"setLocation", "recordLocation"}
                => NewLog(req'[r]) \in Logs'
      PROVE  MarksStored'
  BY <1>2, <1>3 DEF MarksStored
<1>4. ASSUME NEW r \in Requests, Arrive(r) PROVE MarksStored'
  BY <1>3, <1>4, ArriveFields
<1>5. ASSUME NEW r \in Requests, NEW result, Reply(r, result) PROVE MarksStored'
  BY <1>3, <1>5, ReplyFields
<1>6. ASSUME NEW r \in Requests, NEW call, Goto(r, call),
             req[r].op \in MarkOps /\ call \in {"setLocation", "recordLocation"}
                => NewLog(req[r]) \in Logs'
      PROVE  MarksStored'
  <2>1. NewLog(req'[r]) = NewLog(req[r])
    BY <1>6, GotoFields DEF NewLog
  <2> QED
    BY <1>3, <1>6, <2>1, GotoFields
<1>7. ASSUME NEW r \in Requests, Step(r) PROVE MarksStored'
  <2>1. CASE InsertLog(r)
    <3>1. CASE pickupLogs' = Append(pickupLogs, NewLog(req[r]))
      <4>1. NewLog(req[r]) \in Logs'
        BY <2>1, <3>1, InsertedLog, LogsAppend DEF TypeInv
      <4> QED
        BY <1>5, <1>6, <2>1, <4>1 DEF InsertLog
    <3>2. CASE Reply(r, "error")
      BY <1>5, <3>2
    <3> QED
      BY <2>1, <3>1, <3>2 DEF InsertLog
  <2>2. CASE SetLocation(r)
    <3>1. req[r].op \in MarkOps => NewLog(req[r]) \in Logs
      BY <2>2 DEF SetLocation, At, MarksStored
    <3> QED
      BY <1>1, <1>6, <2>2, <3>1 DEF SetLocation
  <2>3. CASE RecordLocation(r) \/ RemoveActive(r) \/ InsertAlert(r)
    BY <1>5, <1>6, <2>3 DEF RecordLocation, RemoveActive, InsertAlert
  <2>4. CASE CreateFindVan(r) \/ CreateFindRoute(r) \/ CreateInsert(r) \/ CreateSetActive(r)
    BY <1>5, <1>6, <2>4 DEF CreateFindVan, CreateFindRoute, CreateInsert, CreateSetActive
  <2>5. CASE FindTrip(r) \/ FindStudent(r) \/ FindLog(r) \/ FindKey(r)
    BY <1>5, <1>6, <2>5 DEF FindTrip, FindStudent, FindLog, FindKey
  <2>6. CASE StartTrip(r) \/ EndTrip(r) \/ ActivateSOS(r) \/ ResolveSOS(r)
    BY <1>6, <2>6 DEF StartTrip, EndTrip, ActivateSOS, ResolveSOS, MarkOps
  <2> QED
    BY <1>7, <2>1, <2>2, <2>3, <2>4, <2>5, <2>6 DEF Step
<1>8. ASSUME NEW r \in Requests, CallFails(r) PROVE MarksStored'
  BY <1>5, <1>8 DEF CallFails
<1>9. CASE Crash
  <2>1. \A r \in Requests : req'[r] = req[r] \/ req'[r].pc = "idle"
    BY <1>9 DEF Crash, Idle
  <2> QED
    BY <1>1, <2>1 DEF MarksStored
<1>10. CASE UNCHANGED req
  BY <1>1, <1>10 DEF MarksStored
<1> QED
  BY <1>4, <1>7, <1>8, <1>9, <1>10
  DEF Next, Environment, ActiveTripExpires, StudentMoved, VanReassigned, vars

\* An attendance request that is answered has been stored: with its own log, or by the
\* earlier request with its key.
LEMMA AnswersStored ==
    ASSUME TypeInv, OpsFit, MarksStored, [Next]_vars, NEW r \in Requests
    PROVE  /\ Answers(r, "ok") => NewLog(req[r]) \in Logs'
           /\ Answers(r, "existing") => \E log \in Logs : log.key = req[r].key
<1> SUFFICES ASSUME Busy(r), req[r].op \in MarkOps, NEW result \in {"ok", "existing"},
                    req'[r] = Idle(result)
             PROVE  /\ result = "ok" => NewLog(req[r]) \in Logs'
                    /\ result = "existing" => \E log \in Logs : log.key = req[r].key
  BY DEF Answers
<1>1. req'[r].pc = "idle" /\ req'[r].result = result /\ req'[r] # req[r]
  BY DEF Idle, Busy
<1>2. ~\E q \in Requests : Arrive(q)
  BY <1>1, ArriveFields DEF Busy
<1>3. ASSUME NEW q \in Requests, CallFails(q) PROVE FALSE
  BY <1>1, <1>3, ReplyFields DEF CallFails
<1>4. ~Crash
  BY <1>1 DEF Crash, Idle, Busy
<1>5. PICK q \in Requests : Step(q)
  BY <1>1, <1>2, <1>3, <1>4
  DEF Next, Environment, ActiveTripExpires, StudentMoved, VanReassigned, vars
<1>6. q = r
  BY <1>1, <1>5, StepKeepsOthers
<1>7. ASSUME NEW call, Goto(r, call), call # "idle" PROVE FALSE
  BY <1>1, <1>7, GotoFields
<1>8. ASSUME NEW other, Reply(r, other) PROVE other = result
  BY <1>1, <1>8, ReplyFields
<1>9. Fits(req[r].op, req[r].pc)
  BY DEF OpsFit
<1>10. CASE InsertLog(r)
  <2>1. pickupLogs' = Append(pickupLogs, NewLog(req[r])) /\ result = "ok"
    BY <1>7, <1>8, <1>10 DEF InsertLog
  <2> QED
    BY <1>10, <2>1, InsertedLog, LogsAppend DEF TypeInv
<1>11. CASE RecordLocation(r)
  <2>1. NewLog(req[r]) \in Logs /\ result = "ok"
    BY <1>7, <1>8, <1>11 DEF RecordLocation, At, MarksStored
  <2> QED
    BY <2>1, LogsGrow
<1>12. CASE FindKey(r)
  BY <1>7, <1>8, <1>12 DEF FindKey, KeyTaken
<1>13. CASE CreateFindVan(r) \/ CreateFindRoute(r) \/ CreateInsert(r) \/ CreateSetActive(r)
            \/ RemoveActive(r) \/ InsertAlert(r)
  BY <1>9, <1>13
  DEF CreateFindVan, CreateFindRoute, CreateInsert, CreateSetActive, RemoveActive, InsertAlert,
      At, Fits, MarkOps
<1>14. CASE FindTrip(r) \/ FindStudent(r) \/ FindLog(r) \/ SetLocation(r)
  BY <1>7, <1>8, <1>14 DEF FindTrip, FindStudent, FindLog, SetLocation, AfterSetLocation
<1>15. CASE StartTrip(r) \/ EndTrip(r) \/ ActivateSOS(r) \/ ResolveSOS(r)
  BY <1>7, <1>15 DEF StartTrip, EndTrip, ActivateSOS, ResolveSOS
<1> QED
  BY <1>5, <1>6, <1>10, <1>11, <1>12, <1>13, <1>14, <1>15 DEF Step

\* Who is told that attendance was taken (markPickup, trips.service.ts:371) finds it in the table, and
\* who is told that it was taken before used a key that is there, whatever fails.
THEOREM AckSafety == Spec => AckedMarkIsStored
<1>1. Init => OpsFit /\ MarksStored
  BY DEF Init, OpsFit, Fits, MarksStored, Idle, MarkOps
<1>2. TypeInv /\ OpsFit /\ MarksStored /\ [Next]_vars => OpsFit' /\ MarksStored'
  BY NextOpsFit, NextMarksStored
<1>3. Spec => [](TypeInv /\ OpsFit /\ MarksStored)
  BY <1>1, <1>2, InitTypeInv, NextTypeInv, PTL DEF Spec
<1>4. TypeInv /\ OpsFit /\ MarksStored /\ [Next]_vars
         => [\A r \in Requests :
                /\ Answers(r, "ok") => NewLog(req[r]) \in Logs'
                /\ Answers(r, "existing") => \E log \in Logs : log.key = req[r].key]_vars
  BY AnswersStored
<1>5. Spec => [][Next]_vars
  BY DEF Spec
<1> QED
  BY <1>3, <1>4, <1>5, PTL DEF AckedMarkIsStored

=============================================================================
