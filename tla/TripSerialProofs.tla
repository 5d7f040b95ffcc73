---------------------------- MODULE TripSerialProofs ----------------------------
(***************************************************************************)
(* Theorems about TripService that need more than its code: clients that   *)
(* do not overlap calls on one trip, or calls that do not fail; and two on *)
(* what may be left behind when calls do overlap and do fail.              *)
(*                                                                         *)
(* With serial clients, what a request saw of its trip's attendance still  *)
(* holds when it inserts: nobody else is working on the trip.              *)
(***************************************************************************)
EXTENDS TripServiceProofs, FiniteSetTheorems

-----------------------------------------------------------------------------
(* Serial clients: a pickup or a drop is final *)

\* Two requests in flight are about different trips.
Serial ==
    \A r, q \in Requests : r # q /\ Busy(r) /\ Busy(q) => req[r].trip # req[q].trip

\* A request about to insert has seen no final log of its student on its trip.
StillOpen ==
    \A r \in Requests :
        req[r].pc \in {"findKey", "insertLog"} => ~FinalMark(req[r].trip, req[r].student)

SerialInv == Serial /\ StillOpen /\ MarkIsFinal

\* Every step of a request leaves its slot idle or about the same trip.
LEMMA StepKeepsTrip ==
    ASSUME TypeInv, NEW r \in Requests, Step(r) \/ CallFails(r)
    PROVE  /\ Busy(r)
           /\ \A q \in Requests \ {r} : req'[q] = req[q]
           /\ req'[r].pc = "idle" \/ /\ req'[r].trip = req[r].trip
                                     /\ req'[r].student = req[r].student
<1>1. ASSUME NEW result, Reply(r, result)
      PROVE  /\ \A q \in Requests \ {r} : req'[q] = req[q]
             /\ req'[r].pc = "idle"
  BY <1>1 DEF Reply, Idle, TypeInv, TypeOK
<1>2. ASSUME NEW call, Goto(r, call)
      PROVE  /\ \A q \in Requests \ {r} : req'[q] = req[q]
             /\ req'[r].trip = req[r].trip
             /\ req'[r].student = req[r].student
  BY <1>2 DEF Goto, TypeInv, TypeOK, Request
<1>3. Busy(r)
  BY DEF Step, CallFails, At, Busy, CreateFindVan, CreateFindRoute, CreateInsert,
         CreateSetActive, FindTrip, StartTrip, EndTrip, ActivateSOS, ResolveSOS, FindStudent,
         FindLog, FindKey, InsertLog, SetLocation, RecordLocation, RemoveActive, InsertAlert
<1>4. (\E result : Reply(r, result)) \/ (\E call : Goto(r, call))
  <2>1. CASE CallFails(r)
    BY <2>1 DEF CallFails
  <2>2. CASE \/ CreateFindVan(r) \/ CreateFindRoute(r) \/ CreateInsert(r) \/ CreateSetActive(r)
             \/ FindTrip(r) \/ StartTrip(r) \/ EndTrip(r) \/ ActivateSOS(r) \/ ResolveSOS(r)
    BY <2>2 DEF CreateFindVan, CreateFindRoute, CreateInsert, CreateSetActive, FindTrip,
                StartTrip, EndTrip, ActivateSOS, ResolveSOS
  <2>3. CASE \/ FindStudent(r) \/ FindLog(r) \/ FindKey(r) \/ InsertLog(r) \/ SetLocation(r)
             \/ RecordLocation(r) \/ RemoveActive(r) \/ InsertAlert(r)
    BY <2>3 DEF FindStudent, FindLog, FindKey, InsertLog, SetLocation, RecordLocation,
                RemoveActive, InsertAlert
  <2> QED
    BY <2>1, <2>2, <2>3 DEF Step
<1> QED
  BY <1>1, <1>2, <1>3, <1>4

LEMMA ArriveSerial ==
    ASSUME SerialPerTrip, TypeInv, Serial, NEW r \in Requests, Arrive(r)
    PROVE  /\ Serial'
           /\ \A q \in Requests \ {r} : req'[q] = req[q]
           /\ req'[r].pc \in {"findVan", "findTrip"}
<1>1. PICK d \in Drivers, t \in Trips :
           \/ \E v \in Vans : RequestCreate(r, d, v, t)
           \/ \E op \in TripOps, s \in Students \cup {None}, k \in Keys \cup {None} :
                 RequestTripOp(r, op, d, t, s, k)
  BY DEF Arrive
<1>2. \A q \in Requests \ {r} : Busy(q) => req[q].trip # t
  BY <1>1 DEF RequestCreate, RequestTripOp, TripFree
<1>3. r \in DOMAIN req
  BY DEF TypeInv, TypeOK
<1>4. \A q \in Requests \ {r} : req'[q] = req[q]
  BY <1>1, <1>3 DEF RequestCreate, RequestTripOp, TypeInv, TypeOK
<1>5. ASSUME NEW v \in Vans, RequestCreate(r, d, v, t)
      PROVE  req'[r].trip = t /\ req'[r].pc = "findVan"
  BY <1>3, <1>5 DEF RequestCreate, Idle
<1>6. ASSUME NEW op \in TripOps, NEW s \in Students \cup {None}, NEW k \in Keys \cup {None},
             RequestTripOp(r, op, d, t, s, k)
      PROVE  req'[r].trip = t /\ req'[r].pc = "findTrip"
  BY <1>3, <1>6 DEF RequestTripOp, Idle
<1>7. req'[r].trip = t /\ req'[r].pc \in {"findVan", "findTrip"}
  BY <1>1, <1>5, <1>6
<1> QED
  BY <1>2, <1>4, <1>7 DEF Serial, Busy

LEMMA NextSerial == SerialPerTrip /\ TypeInv /\ Serial /\ [Next]_vars => Serial'
<1> SUFFICES ASSUME SerialPerTrip, TypeInv, Serial, [Next]_vars PROVE Serial'
  OBVIOUS
<1>1. ASSUME NEW r \in Requests, Arrive(r) PROVE Serial'
  BY <1>1, ArriveSerial
<1>2. ASSUME NEW r \in Requests, Step(r) \/ CallFails(r) PROVE Serial'
  BY <1>2, StepKeepsTrip DEF Serial, Busy
<1>3. CASE Crash
  BY <1>3 DEF Crash, Serial, Busy, Idle
<1>4. CASE UNCHANGED req
  BY <1>4 DEF Serial, Busy
<1> QED
  BY <1>1, <1>2, <1>3, <1>4
     DEF Next, Environment, ActiveTripExpires, StudentMoved, VanReassigned, vars

\* A request that goes on to look up its key or to insert has seen no final log, now or before.
LEMMA StepPasses ==
    ASSUME TypeInv, NEW r \in Requests, Step(r) \/ CallFails(r),
           req'[r].pc \in {"findKey", "insertLog"}
    PROVE  /\ UNCHANGED pickupLogs
           /\ req[r].pc = "findKey" \/ ~FinalMark(req[r].trip, req[r].student)
<1>1. ASSUME NEW result, Reply(r, result) PROVE FALSE
  BY <1>1 DEF Reply, Idle, TypeInv, TypeOK
<1>2. ASSUME NEW call, Goto(r, call) PROVE call \in {"findKey", "insertLog"}
  BY <1>2 DEF Goto, TypeInv, TypeOK, Request
<1>3. CASE FindLog(r)
  BY <1>1, <1>3 DEF FindLog, stores
<1>4. CASE FindKey(r)
  BY <1>1, <1>4 DEF FindKey, At, stores
<1>5. CASE CallFails(r)
  BY <1>1, <1>5 DEF CallFails
<1>6. CASE \/ CreateFindVan(r) \/ CreateFindRoute(r) \/ CreateInsert(r) \/ CreateSetActive(r)
           \/ StartTrip(r) \/ EndTrip(r) \/ ActivateSOS(r) \/ ResolveSOS(r)
  <2>1. \/ \E result : Reply(r, result)
        \/ \E call \in {"findRoute", "insertTrip", "setActive", "setLocation", "insertAlert"} :
              Goto(r, call)
    BY <1>6 DEF CreateFindVan, CreateFindRoute, CreateInsert, CreateSetActive, StartTrip, EndTrip,
                ActivateSOS, ResolveSOS
  <2> QED
    BY <1>1, <1>2, <2>1
<1>7. CASE \/ FindTrip(r) \/ FindStudent(r) \/ InsertLog(r) \/ SetLocation(r)
           \/ RecordLocation(r) \/ RemoveActive(r) \/ InsertAlert(r)
  <2>1. \/ \E result : Reply(r, result)
        \/ \E call \in {"findStudent", "updateTrip", "findLog", "setLocation", "recordLocation",
                        "insertAlert", "removeActive"} : Goto(r, call)
    BY <1>7 DEF FindTrip, FindStudent, InsertLog, SetLocation, AfterSetLocation, RecordLocation,
                RemoveActive, InsertAlert
  <2> QED
    BY <1>1, <1>2, <2>1
<1> QED
  BY <1>3, <1>4, <1>5, <1>6, <1>7 DEF Step

LEMMA StepOpens ==
    ASSUME TypeInv, StillOpen, NEW r \in Requests, Step(r) \/ CallFails(r),
           req'[r].pc \in {"findKey", "insertLog"}
    PROVE  /\ UNCHANGED pickupLogs
           /\ ~FinalMark(req[r].trip, req[r].student)
BY StepPasses DEF StillOpen

LEMMA NextStillOpen ==
    SerialPerTrip /\ TypeInv /\ Serial /\ StillOpen /\ [Next]_vars => StillOpen'
<1> SUFFICES ASSUME SerialPerTrip, TypeInv, Serial, StillOpen, [Next]_vars,
                    NEW q \in Requests, req'[q].pc \in {"findKey", "insertLog"}
             PROVE  ~FinalMark(req[q].trip, req[q].student)'
  BY DEF StillOpen
<1>1. ASSUME UNCHANGED pickupLogs, req'[q].trip = req[q].trip, req'[q].student = req[q].student,
             ~FinalMark(req[q].trip, req[q].student)
      PROVE  ~FinalMark(req[q].trip, req[q].student)'
  BY <1>1 DEF FinalMark, Logs
<1>2. CASE UNCHANGED pickupLogs /\ req'[q] = req[q]
  BY <1>1, <1>2 DEF StillOpen
<1>3. ASSUME NEW r \in Requests, Arrive(r)
      PROVE  ~FinalMark(req[q].trip, req[q].student)'
  <2>1. UNCHANGED pickupLogs
    BY <1>3 DEF Arrive, RequestCreate, RequestTripOp, stores
  <2> QED
    BY <1>2, <1>3, <2>1, ArriveSerial
<1>4. ASSUME NEW r \in Requests, Step(r) \/ CallFails(r)
      PROVE  ~FinalMark(req[q].trip, req[q].student)'
  <2>1. CASE q = r
    BY <1>1, <1>4, <2>1, StepKeepsTrip, StepOpens
  <2>2. CASE q # r /\ UNCHANGED pickupLogs
    BY <1>2, <1>4, <2>2, StepKeepsTrip
  <2>3. CASE q # r /\ InsertLog(r) /\ pickupLogs' = Append(pickupLogs, NewLog(req[r]))
    <3>1. req'[q] = req[q] /\ Busy(r) /\ Busy(q)
      BY <1>4, <2>3, StepKeepsTrip DEF Busy
    <3>2. req[q].trip # req[r].trip
      BY <2>3, <3>1 DEF Serial
    <3>3. Logs' = Logs \cup {NewLog(req[r])} /\ NewLog(req[r]).trip = req[r].trip
      BY <2>3, InsertedLog, LogsAppend DEF TypeInv
    <3> QED
      BY <3>1, <3>2, <3>3 DEF FinalMark, StillOpen
  <2>4. UNCHANGED pickupLogs \/ (InsertLog(r) /\ pickupLogs' = Append(pickupLogs, NewLog(req[r])))
    <3>1. CASE InsertLog(r)
      BY <3>1 DEF InsertLog
    <3>2. CASE ~InsertLog(r)
      BY <1>4, <3>2
         DEF Step, CallFails, CreateFindVan, CreateFindRoute, CreateInsert, CreateSetActive,
             FindTrip, StartTrip, EndTrip, ActivateSOS, ResolveSOS, Update, FindStudent, FindLog,
             FindKey, SetLocation, RecordLocation, RemoveActive, InsertAlert, stores
    <3> QED
      BY <3>1, <3>2
  <2> QED
    BY <2>1, <2>2, <2>3, <2>4
<1>5. CASE Crash
  BY <1>2, <1>5 DEF Crash, Idle, stores
<1>6. CASE UNCHANGED <<pickupLogs, req>>
  BY <1>2, <1>6
<1> QED
  BY <1>3, <1>4, <1>5, <1>6
     DEF Next, Environment, ActiveTripExpires, StudentMoved, VanReassigned, vars

LEMMA NextMarkIsFinal == TypeInv /\ StillOpen /\ MarkIsFinal /\ [Next]_vars => MarkIsFinal'
<1> SUFFICES ASSUME TypeInv, StillOpen, MarkIsFinal, [Next]_vars PROVE MarkIsFinal'
  OBVIOUS
<1>1. CASE UNCHANGED pickupLogs
  BY <1>1 DEF MarkIsFinal
<1>2. ASSUME NEW r \in Requests, InsertLog(r), pickupLogs' = Append(pickupLogs, NewLog(req[r]))
      PROVE  MarkIsFinal'
  <2> DEFINE n == Len(pickupLogs)
             log == NewLog(req[r])
  <2>1. \A i \in DOMAIN pickupLogs :
           /\ pickupLogs[i].trip = log.trip
           /\ pickupLogs[i].student = log.student
           => pickupLogs[i].action \notin FinalActions
    BY <1>2, InsertedLog DEF InsertLog, At, StillOpen, FinalMark, Logs
  <2>2. pickupLogs \in Seq(LogRow) /\ log \in LogRow
    BY <1>2, InsertedLog DEF TypeInv, TypeOK
  <2>3. \A i \in DOMAIN pickupLogs : pickupLogs[i].action \in FinalActions \cup {"ABSENT"}
    <3>1. \A i \in DOMAIN pickupLogs : pickupLogs[i] \in LogRow
      BY <2>2
    <3> QED
      BY <3>1 DEF LogRow
  <2> HIDE DEF log
  <2>4. /\ n \in Nat
        /\ DOMAIN pickupLogs = 1 .. n
        /\ DOMAIN pickupLogs' = 1 .. n + 1
        /\ \A i \in 1 .. n : pickupLogs'[i] = pickupLogs[i]
        /\ pickupLogs'[n + 1] = log
    BY <1>2, <2>2 DEF log
  <2> QED
    BY <2>1, <2>3, <2>4 DEF MarkIsFinal
<1> QED
  BY <1>1, <1>2, LogWrites

\* If clients do not overlap calls on a trip, a student who was picked up or dropped
\* off gets no later log on that trip, in spite of failed calls and crashes.
THEOREM FinalMarkSafety ==
    ASSUME SerialPerTrip
    PROVE  Spec => []MarkIsFinal
<1>1. Init => SerialInv
  BY DEF Init, SerialInv, Serial, StillOpen, MarkIsFinal, Busy, Idle
<1>2. TypeInv /\ SerialInv /\ [Next]_vars => SerialInv'
  BY NextSerial, NextStillOpen, NextMarkIsFinal DEF SerialInv
<1>3. SerialInv => MarkIsFinal
  BY DEF SerialInv
<1> QED
  BY <1>1, <1>2, <1>3, TypeCorrect, PTL DEF Spec

-----------------------------------------------------------------------------
(* Calls that do not fail: an emergency is always alerted *)

LEMMA NextSosIsAlerted ==
    ~MayFail /\ TypeInv /\ TripInv /\ SosIsAlerted /\ [Next]_vars => SosIsAlerted'
<1> SUFFICES ASSUME ~MayFail, TypeInv, TripInv, SosIsAlerted, [Next]_vars,
                    NEW t \in Trips, trip'[t].sosActivated
             PROVE  SosAlerted(t)' \/ SosOnItsWay(t)'
  BY DEF SosIsAlerted
\* A request on its way to the alert stays on its way until the alert is there.
<1>1. ASSUME NEW r \in Requests, Step(r), UNCHANGED trip
      PROVE  SosAlerted(t)' \/ SosOnItsWay(t)'
  <2>1. SosAlerted(t) => SosAlerted(t)'
    BY <1>1 DEF SosAlerted, Step, CreateFindVan, CreateFindRoute, CreateInsert, CreateSetActive,
                FindTrip, StartTrip, EndTrip, ActivateSOS, ResolveSOS, Update, FindStudent,
                FindLog, FindKey, InsertLog, SetLocation, RecordLocation, RemoveActive,
                InsertAlert, stores
  <2>2. ASSUME NEW q \in Requests, req[q].op = "sos", req[q].trip = t,
               req[q].pc \in {"setLocation", "insertAlert"}
        PROVE  SosAlerted(t)' \/ SosOnItsWay(t)'
    <3>1. CASE q # r
      BY <1>1, <2>2, <3>1, StepKeepsTrip DEF SosOnItsWay
    <3>2. CASE q = r /\ req[q].pc = "setLocation"
      <4>1. SetLocation(r)
        BY <1>1, <2>2, <3>2
           DEF Step, At, CreateFindVan, CreateFindRoute, CreateInsert, CreateSetActive, FindTrip,
               StartTrip, EndTrip, ActivateSOS, ResolveSOS, FindStudent, FindLog, FindKey,
               InsertLog, SetLocation, RecordLocation, RemoveActive, InsertAlert
      <4>2. Goto(r, "insertAlert")
        BY <2>2, <3>2, <4>1 DEF SetLocation, AfterSetLocation
      <4> QED
        BY <2>2, <3>2, <4>2 DEF Goto, SosOnItsWay, TypeInv, TypeOK, Request
    <3>3. CASE q = r /\ req[q].pc = "insertAlert"
      <4>1. InsertAlert(r)
        BY <1>1, <2>2, <3>3
           DEF Step, At, CreateFindVan, CreateFindRoute, CreateInsert, CreateSetActive, FindTrip,
               StartTrip, EndTrip, ActivateSOS, ResolveSOS, FindStudent, FindLog, FindKey,
               InsertLog, SetLocation, RecordLocation, RemoveActive, InsertAlert
      <4> QED
        BY <2>2, <3>3, <4>1 DEF InsertAlert, SosAlerted
    <3> QED
      BY <2>2, <3>1, <3>2, <3>3
  <2> QED
    BY <1>1, <2>1, <2>2 DEF SosIsAlerted, SosOnItsWay
\* A step of a request that is not on its way leaves the alert on its way.
<1>2. ASSUME NEW r \in Requests, Busy(r), req[r].pc \notin {"setLocation", "insertAlert"},
             UNCHANGED alerts, \A q \in Requests \ {r} : req'[q] = req[q],
             trip[t].sosActivated
      PROVE  SosAlerted(t)' \/ SosOnItsWay(t)'
  BY <1>2 DEF SosIsAlerted, SosAlerted, SosOnItsWay
<1>3. ASSUME NEW r \in Requests,
             CreateInsert(r) \/ StartTrip(r) \/ EndTrip(r) \/ ActivateSOS(r) \/ ResolveSOS(r)
      PROVE  SosAlerted(t)' \/ SosOnItsWay(t)'
  <2>1. /\ req[r].pc \in {"insertTrip", "updateTrip"}
        /\ Step(r)
        /\ UNCHANGED alerts
    BY <1>3 DEF CreateInsert, StartTrip, EndTrip, ActivateSOS, ResolveSOS, At, Update, Step
  <2>2. CASE trip[t].sosActivated
    BY <1>2, <2>1, <2>2, StepKeepsTrip
  <2>3. CASE ~trip[t].sosActivated
    <3>1. ASSUME NEW row \in TripRow, NEW status \in ResolvedStatus
          PROVE  /\ StartedRow(row).sosActivated = row.sosActivated
                 /\ EndedRow(row).sosActivated = row.sosActivated
                 /\ ResolvedRow(row, status).sosActivated = row.sosActivated
      BY DEF StartedRow, EndedRow, ResolvedRow, TripRow
    <3>2. /\ req[r].trip = t
          /\ trip[t] \in TripRow
      BY <1>3, <2>3 DEF CreateInsert, StartTrip, EndTrip, ActivateSOS, ResolveSOS, Update,
                        TypeInv, TypeOK
    <3>3. ~CreateInsert(r)
      <4>1. ASSUME CreateInsert(r) PROVE trip'[t].sosActivated = NoRow.sosActivated
        BY <3>2, <4>1 DEF CreateInsert, NoRow, TypeInv, TypeOK
      <4> QED
        BY <4>1 DEF NoRow
    <3>4. ~StartTrip(r) /\ ~EndTrip(r)
      BY <2>3, <3>1, <3>2 DEF StartTrip, EndTrip, Update, ResolvedStatus, TypeInv, TypeOK
    <3>5. ~ResolveSOS(r)
      BY <2>3, <3>1, <3>2 DEF ResolveSOS, Update, TypeInv, TypeOK
    <3> QED
      BY <1>3, <3>2, <3>3, <3>4, <3>5 DEF ActivateSOS, Goto, SosOnItsWay, TypeInv, TypeOK, Request
  <2> QED
    BY <2>2, <2>3
<1>4. ASSUME NEW r \in Requests, Arrive(r)
      PROVE  SosAlerted(t)' \/ SosOnItsWay(t)'
  <2>1. /\ ~Busy(r)
        /\ UNCHANGED <<trip, alerts>>
        /\ \A q \in Requests \ {r} : req'[q] = req[q]
    BY <1>4 DEF Arrive, RequestCreate, RequestTripOp, stores, TypeInv, TypeOK
  <2> QED
    BY <2>1 DEF SosIsAlerted, SosAlerted, SosOnItsWay, Busy
<1>5. CASE UNCHANGED <<trip, alerts, req>>
  BY <1>5 DEF SosIsAlerted, SosAlerted, SosOnItsWay
<1> QED
  BY <1>1, <1>3, <1>4, <1>5, TripWrites
     DEF Next, CallFails, Environment, Crash, ActiveTripExpires, StudentMoved, VanReassigned, vars

\* If no call fails and the process does not die, every trip whose driver raised an
\* SOS has its alert, or the handler that raised it is still about to insert it.
THEOREM SosAlertSafety ==
    ASSUME ~MayFail
    PROVE  Spec => []SosIsAlerted
<1>1. Init => SosIsAlerted
  BY DEF Init, SosIsAlerted, NoRow
<1>2. TypeInv /\ TripInv /\ SosIsAlerted /\ [Next]_vars => SosIsAlerted'
  BY NextSosIsAlerted
<1> QED
  BY <1>1, <1>2, InitTripInv, NextTripInv, TypeCorrect, PTL DEF Spec

-----------------------------------------------------------------------------
(* Serial clients and calls that do not fail: the end of an emergency *)

\* A trip in SOS has raised it; who resolves one has an alert to resolve.
Resolvable ==
    /\ \A t \in Trips : trip[t].status = "SOS_ACTIVE" => trip[t].sosActivated
    /\ \A r \in Requests :
          req[r].op = "resolve" /\ req[r].pc \in {"updateTrip", "insertAlert"}
             => SosAlerted(req[r].trip)

\* Only InsertAlert writes the table alerts.
LEMMA AlertWrites ==
    [Next]_vars => UNCHANGED alerts \/ \E r \in Requests : InsertAlert(r)
<1>1. ASSUME NEW r \in Requests, Arrive(r) PROVE UNCHANGED alerts
  BY <1>1 DEF Arrive, RequestCreate, RequestTripOp, stores
<1>2. ASSUME NEW r \in Requests, Step(r) PROVE UNCHANGED alerts \/ InsertAlert(r)
  BY <1>2 DEF Step, CreateFindVan, CreateFindRoute, CreateInsert, CreateSetActive, FindTrip,
              StartTrip, EndTrip, ActivateSOS, ResolveSOS, Update, FindStudent, FindLog,
              FindKey, InsertLog, SetLocation, RecordLocation, RemoveActive, stores
<1>3. ASSUME Environment \/ (\E r \in Requests : CallFails(r)) \/ UNCHANGED vars
      PROVE  UNCHANGED alerts
  BY <1>3 DEF CallFails, Environment, Crash, ActiveTripExpires, StudentMoved, VanReassigned,
              stores, vars
<1> QED
  BY <1>1, <1>2, <1>3 DEF Next

LEMMA AlertsGrow == [Next]_vars => alerts \subseteq alerts'
BY AlertWrites DEF InsertAlert

\* Only the handlers' updates and the insert of create write a row, each the one of its trip.
LEMMA RowWrites ==
    ASSUME TypeInv, [Next]_vars, NEW t \in Trips
    PROVE  \/ trip'[t] = trip[t]
           \/ \E r \in Requests :
                 /\ Step(r) /\ req[r].trip = t
                 /\ \/ CreateInsert(r) /\ trip'[t].status = "NOT_STARTED"
                    \/ StartTrip(r) /\ trip'[t].status = "IN_PROGRESS"
                    \/ EndTrip(r) /\ trip'[t].status = "COMPLETED"
                    \/ /\ ActivateSOS(r)
                       /\ trip'[t].status = "SOS_ACTIVE" /\ trip'[t].sosActivated
                    \/ /\ ResolveSOS(r)
                       /\ trip'[t].status \in ResolvedStatus /\ trip'[t].sosResolved
<1>1. \A row \in TripRow : \A status \in ResolvedStatus :
         /\ StartedRow(row).status = "IN_PROGRESS"
         /\ EndedRow(row).status = "COMPLETED"
         /\ SosRow(row).status = "SOS_ACTIVE" /\ SosRow(row).sosActivated
         /\ ResolvedRow(row, status).status = status /\ ResolvedRow(row, status).sosResolved
  BY DEF StartedRow, EndedRow, SosRow, ResolvedRow, TripRow
<1>2. trip \in [Trips -> TripRow]
  BY DEF TypeInv, TypeOK
<1>3. ASSUME NEW r \in Requests, CreateInsert(r), req[r].trip = t
      PROVE  trip'[t].status = "NOT_STARTED"
  BY <1>2, <1>3 DEF CreateInsert, NoRow
<1>4. ASSUME NEW r \in Requests, StartTrip(r), req[r].trip = t
      PROVE  trip'[t].status = "IN_PROGRESS"
  <2>1. trip'[t] = StartedRow(trip[t])
    BY <1>2, <1>4 DEF StartTrip, Update
  <2> QED
    BY <1>1, <1>2, <2>1 DEF ResolvedStatus
<1>5. ASSUME NEW r \in Requests, EndTrip(r), req[r].trip = t
      PROVE  trip'[t].status = "COMPLETED"
  <2>1. trip'[t] = EndedRow(trip[t])
    BY <1>2, <1>5 DEF EndTrip, Update
  <2> QED
    BY <1>1, <1>2, <2>1 DEF ResolvedStatus
<1>6. ASSUME NEW r \in Requests, ActivateSOS(r), req[r].trip = t
      PROVE  trip'[t].status = "SOS_ACTIVE" /\ trip'[t].sosActivated
  <2>1. trip'[t] = SosRow(trip[t])
    BY <1>2, <1>6 DEF ActivateSOS, Update
  <2> QED
    BY <1>1, <1>2, <2>1 DEF ResolvedStatus
<1>7. ASSUME NEW r \in Requests, ResolveSOS(r), req[r].trip = t
      PROVE  trip'[t].status \in ResolvedStatus /\ trip'[t].sosResolved
  <2>1. PICK status \in ResolvedStatus : trip'[t] = ResolvedRow(trip[t], status)
    BY <1>2, <1>7 DEF ResolveSOS, Update
  <2> QED
    BY <1>1, <1>2, <2>1
<1>8. CASE UNCHANGED trip
  BY <1>8
<1>9. ASSUME NEW r \in Requests,
             CreateInsert(r) \/ StartTrip(r) \/ EndTrip(r) \/ ActivateSOS(r) \/ ResolveSOS(r)
      PROVE  Step(r) /\ (req[r].trip # t => trip'[t] = trip[t])
  BY <1>2, <1>9 DEF Step, CreateInsert, StartTrip, EndTrip, ActivateSOS, ResolveSOS, Update
<1> QED
  BY <1>3, <1>4, <1>5, <1>6, <1>7, <1>8, <1>9, TripWrites

LEMMA NextResolvable ==
    ASSUME ~MayFail, TypeInv, OpsFit, Serial, SosIsAlerted, Resolvable, [Next]_vars
    PROVE  Resolvable'
<1>1. ASSUME NEW t \in Trips, trip'[t].status = "SOS_ACTIVE" PROVE trip'[t].sosActivated
  BY <1>1, RowWrites DEF Resolvable, ResolvedStatus
<1>2. alerts \subseteq alerts'
  BY AlertsGrow
<1>3. ASSUME NEW r \in Requests, req'[r].op = "resolve", req'[r].pc \in {"updateTrip", "insertAlert"}
      PROVE  SosAlerted(req[r].trip)'
  <2>1. CASE req'[r] = req[r]
    BY <1>2, <1>3, <2>1 DEF Resolvable, SosAlerted
  <2>2. ASSUME NEW q \in Requests, Arrive(q) PROVE req'[r] = req[r]
    BY <1>3, <2>2, ArriveFields
  <2>3. CASE Step(r)
    <3>1. ASSUME NEW call, Goto(r, call), SosAlerted(req[r].trip)
          PROVE  SosAlerted(req[r].trip)'
      BY <1>2, <3>1, GotoFields DEF SosAlerted
    <3>2. ASSUME NEW result, Reply(r, result) PROVE FALSE
      BY <1>3, <3>2, ReplyFields
    <3>3. ASSUME NEW call, Goto(r, call)
          PROVE  req[r].op = "resolve" /\ call \in {"updateTrip", "insertAlert"}
      BY <1>3, <3>3, GotoFields
    <3>4. CASE FindTrip(r)
      <4> DEFINE t == req[r].trip
      <4>1. Admits(trip[t], req[r]) /\ req[r].op = "resolve"
        BY <3>2, <3>3, <3>4 DEF FindTrip
      <4>2. Busy(r) /\ t \in Trips
        BY <3>4 DEF FindTrip, At, Busy, TypeInv, Shape
      <4>3. trip[t].sosActivated
        BY <4>1, <4>2 DEF Admits, RequiredStatus, Resolvable
      <4>4. ~SosOnItsWay(t)
        BY <4>1, <4>2 DEF SosOnItsWay, Serial, Busy
      <4>5. SosAlerted(t)
        BY <4>2, <4>3, <4>4 DEF SosIsAlerted
      <4> QED
        BY <3>1, <3>2, <3>4, <4>5 DEF FindTrip
    <3>5. CASE ResolveSOS(r)
      <4>1. SosAlerted(req[r].trip)
        BY <3>5 DEF ResolveSOS, At, Resolvable
      <4> QED
        BY <3>1, <3>5, <4>1 DEF ResolveSOS
    <3>6. CASE StartTrip(r) \/ EndTrip(r) \/ ActivateSOS(r)
      BY <3>3, <3>6 DEF StartTrip, EndTrip, ActivateSOS
    <3>7. CASE CreateFindVan(r) \/ CreateFindRoute(r) \/ CreateInsert(r) \/ CreateSetActive(r)
               \/ FindStudent(r) \/ FindLog(r) \/ FindKey(r) \/ InsertLog(r)
      BY <3>2, <3>3, <3>7 DEF CreateFindVan, CreateFindRoute, CreateInsert, CreateSetActive,
                              FindStudent, FindLog, FindKey, InsertLog
    <3>8. CASE SetLocation(r) \/ RecordLocation(r) \/ RemoveActive(r) \/ InsertAlert(r)
      BY <3>2, <3>3, <3>8 DEF SetLocation, AfterSetLocation, RecordLocation, RemoveActive, InsertAlert
    <3> QED
      BY <2>3, <3>4, <3>5, <3>6, <3>7, <3>8 DEF Step
  <2>4. ASSUME NEW q \in Requests, q # r, Step(q) PROVE req'[r] = req[r]
    BY <2>4, StepKeepsOthers
  <2>5. CASE UNCHANGED req
    BY <2>1, <2>5
  <2> QED
    BY <2>1, <2>2, <2>3, <2>4, <2>5
    DEF Next, CallFails, Environment, Crash, ActiveTripExpires, StudentMoved, VanReassigned, vars
<1> QED
  BY <1>1, <1>3 DEF Resolvable

LEMMA NextResolution ==
    ASSUME TypeInv, OpsFit, Resolvable, ResolutionFollowsAlert, [Next]_vars
    PROVE  ResolutionFollowsAlert'
<1>1. CASE UNCHANGED alerts
  BY <1>1 DEF ResolutionFollowsAlert, AllClear, SosAlerted
<1>2. ASSUME NEW r \in Requests, InsertAlert(r) PROVE ResolutionFollowsAlert'
  <2>1. req[r].op \in {"sos", "resolve"} /\ req[r].pc = "insertAlert"
    BY <1>2 DEF InsertAlert, At, OpsFit, Fits
  <2>2. req[r].op = "resolve" => SosAlerted(req[r].trip)
    BY <2>1 DEF Resolvable
  <2> QED
    BY <1>2, <2>1, <2>2 DEF InsertAlert, ResolutionFollowsAlert, AllClear, SosAlerted
<1> QED
  BY <1>1, <1>2, AlertWrites

\* When clients wait for the answers and nothing fails, the alert that an emergency is over
\* (trips.service.ts:738) never stands without the alert that raised it (:672).
THEOREM ResolutionSafety ==
    ASSUME SerialPerTrip, ~MayFail
    PROVE  Spec => []ResolutionFollowsAlert
<1> DEFINE I == TypeInv /\ TripInv /\ OpsFit /\ Serial /\ SosIsAlerted /\ Resolvable
                 /\ ResolutionFollowsAlert
<1>1. Init => I
  <2> SUFFICES ASSUME Init PROVE I
    OBVIOUS
  <2>1. OpsFit /\ Serial /\ Resolvable
    BY DEF Init, OpsFit, Fits, Serial, Busy, Resolvable, Idle, NoRow
  <2>2. SosIsAlerted /\ ResolutionFollowsAlert
    BY DEF Init, SosIsAlerted, ResolutionFollowsAlert, AllClear, NoRow
  <2> QED
    BY <2>1, <2>2, InitTypeInv, InitTripInv
<1>2. I /\ [Next]_vars => I'
  BY NextTypeInv, NextTripInv, NextOpsFit, NextSerial, NextSosIsAlerted, NextResolvable,
     NextResolution
<1>3. I => ResolutionFollowsAlert
  OBVIOUS
<1> HIDE DEF I
<1> QED
  BY <1>1, <1>2, <1>3, PTL DEF Spec

-----------------------------------------------------------------------------
(* Calls that do not fail, but overlap: an all-clear has its alarm *)

\* A trip in SOS, one whose emergency is being resolved and one with an all-clear have
\* all been through an activateSOS.
Raised ==
    /\ \A t \in Trips : trip[t].status = "SOS_ACTIVE" => trip[t].sosActivated
    /\ \A r \in Requests :
          req[r].op = "resolve" /\ req[r].pc \in {"updateTrip", "insertAlert"}
             => trip[req[r].trip].sosActivated
    /\ \A t \in Trips : AllClear(t) => trip[t].sosActivated

\* No write of a row forgets that an SOS was raised, and no insert wipes a row.
LEMMA ActivatedStays ==
    ASSUME TypeInv, TripInv, [Next]_vars, NEW t \in Trips, trip[t].sosActivated
    PROVE  trip'[t].sosActivated
<1>1. trip \in [Trips -> TripRow]
  BY DEF TypeInv, TypeOK
<1>2. ASSUME NEW row \in TripRow, NEW status \in ResolvedStatus, row.sosActivated
      PROVE  /\ StartedRow(row).sosActivated /\ EndedRow(row).sosActivated
             /\ SosRow(row).sosActivated /\ ResolvedRow(row, status).sosActivated
  BY <1>2 DEF StartedRow, EndedRow, SosRow, ResolvedRow, TripRow
<1>3. ASSUME NEW r \in Requests, CreateInsert(r) PROVE req[r].trip # t
  BY <1>3 DEF CreateInsert, At, Creating, TripInv, FreshIds, NoRow
<1>4. ASSUME NEW r \in Requests,
             CreateInsert(r) \/ StartTrip(r) \/ EndTrip(r) \/ ActivateSOS(r) \/ ResolveSOS(r)
      PROVE  trip'[t].sosActivated
  <2>1. CASE req[r].trip # t
    BY <1>1, <1>4, <2>1 DEF CreateInsert, StartTrip, EndTrip, ActivateSOS, ResolveSOS, Update
  <2>2. CASE req[r].trip = t
    <3>1. \/ trip'[t] = StartedRow(trip[t])
          \/ trip'[t] = EndedRow(trip[t])
          \/ trip'[t] = SosRow(trip[t])
          \/ \E status \in ResolvedStatus : trip'[t] = ResolvedRow(trip[t], status)
      BY <1>1, <1>3, <1>4, <2>2 DEF StartTrip, EndTrip, ActivateSOS, ResolveSOS, Update
    <3> QED
      BY <1>1, <1>2, <3>1 DEF ResolvedStatus
  <2> QED
    BY <2>1, <2>2
<1> QED
  BY <1>4, TripWrites

LEMMA NextRaised == ASSUME TypeInv, TripInv, OpsFit, Raised, [Next]_vars PROVE Raised'
<1>1. ASSUME NEW t \in Trips, trip'[t].status = "SOS_ACTIVE" PROVE trip'[t].sosActivated
  BY <1>1, RowWrites DEF Raised, ResolvedStatus
<1>2. \A r \in Requests : Busy(r) => req[r].trip \in Trips
  BY DEF TypeInv, Shape
<1>3. ASSUME NEW r \in Requests, req'[r].op = "resolve", req'[r].pc \in {"updateTrip", "insertAlert"}
      PROVE  trip'[req'[r].trip].sosActivated
  <2>1. CASE req'[r] = req[r]
    BY <1>2, <1>3, <2>1, ActivatedStays DEF Raised, Busy
  <2>2. ASSUME NEW q \in Requests, Arrive(q) PROVE req'[r] = req[r]
    BY <1>3, <2>2, ArriveFields
  <2>3. CASE Step(r)
    <3>1. Busy(r) /\ req'[r].trip = req[r].trip /\ req[r].trip \in Trips
      BY <1>2, <1>3, <2>3, StepKeepsTrip
    <3>2. trip[req[r].trip].sosActivated
      <4>1. ASSUME NEW call, Goto(r, call)
            PROVE  req[r].op = "resolve" /\ call \in {"updateTrip", "insertAlert"}
        BY <1>3, <4>1, GotoFields
      <4>2. ASSUME NEW result, Reply(r, result) PROVE FALSE
        BY <1>3, <4>2, ReplyFields
      <4>3. CASE FindTrip(r)
        <5>1. Admits(trip[req[r].trip], req[r]) /\ req[r].op = "resolve"
          BY <4>1, <4>2, <4>3 DEF FindTrip
        <5> QED
          BY <3>1, <5>1 DEF Admits, RequiredStatus, Raised
      <4>4. CASE ResolveSOS(r)
        BY <4>4 DEF ResolveSOS, At, Raised
      <4>5. CASE StartTrip(r) \/ EndTrip(r) \/ ActivateSOS(r)
        BY <4>1, <4>5 DEF StartTrip, EndTrip, ActivateSOS
      <4>6. CASE CreateFindVan(r) \/ CreateFindRoute(r) \/ CreateInsert(r) \/ CreateSetActive(r)
                 \/ FindStudent(r) \/ FindLog(r) \/ FindKey(r) \/ InsertLog(r)
        BY <4>1, <4>2, <4>6 DEF CreateFindVan, CreateFindRoute, CreateInsert, CreateSetActive,
                                FindStudent, FindLog, FindKey, InsertLog
      <4>7. CASE SetLocation(r) \/ RecordLocation(r) \/ RemoveActive(r) \/ InsertAlert(r)
        <5>1. ~Goto(r, "insertAlert") \/ ~SetLocation(r)
          BY <4>1 DEF SetLocation, AfterSetLocation, OpsFit, Fits, At
        <5> QED
          BY <4>1, <4>2, <4>7, <5>1
             DEF SetLocation, AfterSetLocation, RecordLocation, RemoveActive, InsertAlert
      <4> QED
        BY <2>3, <4>3, <4>4, <4>5, <4>6, <4>7 DEF Step
    <3> QED
      BY <3>1, <3>2, ActivatedStays
  <2>4. ASSUME NEW q \in Requests, q # r, Step(q) PROVE req'[r] = req[r]
    BY <2>4, StepKeepsOthers
  <2>5. ASSUME NEW q \in Requests, CallFails(q) \/ Crash PROVE req'[r] = req[r]
    <3>1. CASE Crash
      BY <1>3, <3>1 DEF Crash, Idle, Busy, TypeInv, TypeOK
    <3>2. CASE CallFails(q)
      BY <1>3, <3>2, ReplyFields DEF CallFails
    <3> QED
      BY <2>5, <3>1, <3>2
  <2> QED
    BY <2>1, <2>2, <2>3, <2>4, <2>5
    DEF Next, Environment, ActiveTripExpires, StudentMoved, VanReassigned, vars, Crash
<1>4. ASSUME NEW t \in Trips, AllClear(t)' PROVE trip'[t].sosActivated
  <2>1. CASE AllClear(t)
    BY <2>1, ActivatedStays DEF Raised
  <2>2. CASE ~AllClear(t)
    <3>1. PICK r \in Requests : InsertAlert(r) /\ req[r].op # "sos" /\ req[r].trip = t
      BY <1>4, <2>2, AlertWrites DEF AllClear, InsertAlert
    <3>2. req[r].op = "resolve" /\ req[r].pc = "insertAlert"
      BY <3>1 DEF InsertAlert, At, OpsFit, Fits
    <3> QED
      BY <3>1, <3>2, ActivatedStays DEF Raised
  <2> QED
    BY <2>1, <2>2
<1> QED
  BY <1>1, <1>3, <1>4 DEF Raised

\* When nothing fails, and however calls overlap, an all-clear (trips.service.ts:769) stands
\* without its alarm (:709) only while the handler of the alarm is about to insert it.
THEOREM AllClearSafety == ASSUME ~MayFail PROVE Spec => []AllClearHasAlarm
<1> DEFINE I == TypeInv /\ TripInv /\ OpsFit /\ SosIsAlerted /\ Raised
<1>1. Init => I
  <2> SUFFICES ASSUME Init PROVE I
    OBVIOUS
  <2>1. OpsFit /\ SosIsAlerted /\ Raised
    BY DEF Init, OpsFit, Fits, SosIsAlerted, Raised, AllClear, Idle, NoRow
  <2> QED
    BY <2>1, InitTypeInv, InitTripInv
<1>2. I /\ [Next]_vars => I'
  BY NextTypeInv, NextTripInv, NextOpsFit, NextSosIsAlerted, NextRaised
<1>3. I => AllClearHasAlarm
  BY DEF AllClearHasAlarm, SosIsAlerted, Raised
<1> HIDE DEF I
<1> QED
  BY <1>1, <1>2, <1>3, PTL DEF Spec

-----------------------------------------------------------------------------
(* The list of active trips *)

\* Only CreateSetActive adds to the list of active trips.
LEMMA ActiveWrites ==
    ASSUME [Next]_vars
    PROVE  \/ activeTrips' \subseteq activeTrips
           \/ \E r \in Requests :
                 CreateSetActive(r) /\ activeTrips' = activeTrips \cup {req[r].trip}
<1>1. ASSUME NEW r \in Requests, Arrive(r) PROVE UNCHANGED activeTrips
  BY <1>1 DEF Arrive, RequestCreate, RequestTripOp, stores
<1>2. ASSUME NEW r \in Requests, Step(r)
      PROVE  activeTrips' \subseteq activeTrips \/ CreateSetActive(r)
  BY <1>2 DEF Step, CreateFindVan, CreateFindRoute, CreateInsert, FindTrip,
              StartTrip, EndTrip, ActivateSOS, ResolveSOS, Update, FindStudent, FindLog,
              FindKey, InsertLog, SetLocation, RecordLocation, RemoveActive, InsertAlert, stores
<1>3. ASSUME Environment \/ (\E r \in Requests : CallFails(r)) \/ UNCHANGED vars
      PROVE  activeTrips' \subseteq activeTrips
  BY <1>3 DEF CallFails, Environment, Crash, ActiveTripExpires, StudentMoved, VanReassigned,
              stores, vars
<1> QED
  BY <1>1, <1>2, <1>3 DEF Next, CreateSetActive

\* A handler that has completed its trip goes on to take it off the list, unless it fails.
LEMMA LeavesActive ==
    ASSUME TypeInv, [Next]_vars, NEW t \in Trips, ~LeftActive(t), LeftActive(t)'
    PROVE  \E r \in Requests :
              \/ req[r].trip = t /\ (ResolveSOS(r) \/ CreateSetActive(r))
              \/ Ending(r, t) /\ (CallFails(r) \/ Crash)
<1> SUFFICES ASSUME \A r \in Requests :
                       /\ req[r].trip = t => ~ResolveSOS(r) /\ ~CreateSetActive(r)
                       /\ Ending(r, t) => ~CallFails(r) /\ ~Crash
             PROVE  FALSE
  OBVIOUS
<1>1. t \in activeTrips' /\ trip'[t].status = "COMPLETED" /\ \A r \in Requests : ~Ending(r, t)'
  BY DEF LeftActive
<1>2. t \in activeTrips
  BY <1>1, ActiveWrites
<1>3. CASE trip'[t] # trip[t]
  <2>1. PICK r \in Requests : EndTrip(r) /\ req[r].trip = t
    BY <1>1, <1>3, RowWrites
  <2>2. req'[r].op = "end" /\ req'[r].trip = t /\ req'[r].pc = "setLocation"
    BY <2>1, GotoFields DEF EndTrip
  <2> QED
    BY <1>1, <2>2 DEF Ending
<1>4. CASE trip'[t] = trip[t]
  <2>1. PICK r \in Requests : Ending(r, t)
    BY <1>1, <1>2, <1>4 DEF LeftActive
  <2>2. CASE req'[r] = req[r]
    BY <1>1, <2>1, <2>2 DEF Ending
  <2>3. CASE Step(r)
    <3>1. SetLocation(r) \/ RecordLocation(r) \/ RemoveActive(r)
      BY <2>1, <2>3
      DEF Ending, Step, At, CreateFindVan, CreateFindRoute, CreateInsert, CreateSetActive,
          FindTrip, StartTrip, EndTrip, ActivateSOS, ResolveSOS, FindStudent, FindLog, FindKey,
          InsertLog, InsertAlert
    <3>2. ~RemoveActive(r)
      BY <1>1, <2>1 DEF Ending, RemoveActive
    <3>3. Goto(r, "recordLocation") \/ Goto(r, "removeActive")
      BY <2>1, <3>1, <3>2 DEF Ending, SetLocation, AfterSetLocation, RecordLocation
    <3>4. req'[r].op = "end" /\ req'[r].trip = t /\ req'[r].pc \in {"recordLocation", "removeActive"}
      BY <2>1, <3>3, GotoFields DEF Ending
    <3> QED
      BY <1>1, <3>4 DEF Ending
  <2>4. ASSUME NEW q \in Requests, Arrive(q) PROVE req'[r] = req[r]
    BY <2>1, <2>4, ArriveFields DEF Ending, Busy
  <2>5. ASSUME NEW q \in Requests, Step(q) \/ CallFails(q), q # r PROVE req'[r] = req[r]
    BY <2>5, StepKeepsTrip
  <2> QED
    BY <2>1, <2>2, <2>3, <2>4, <2>5
    DEF Next, Environment, ActiveTripExpires, StudentMoved, VanReassigned, vars
<1> QED
  BY <1>3, <1>4

\* Whatever overlaps and whatever fails, a completed trip stays in Redis' list of active
\* trips only if resolveSOS completed it (trips.service.ts:738), its endTrip failed after
\* the write of the status (:354), or its create listed it when it was over (:76).
THEOREM ActiveSafety == Spec => EndedLeavesActive
<1> DEFINE Ok ==
       \A t \in Trips : ~LeftActive(t) /\ LeftActive(t)' =>
          \E r \in Requests :
             \/ req[r].trip = t /\ (ResolveSOS(r) \/ CreateSetActive(r))
             \/ Ending(r, t) /\ (CallFails(r) \/ Crash)
<1>1. TypeInv /\ [Next]_vars => Ok
  BY LeavesActive
<1>2. Spec => [][Ok]_vars
  BY <1>1, TypeCorrect, PTL DEF Spec
<1> QED
  BY <1>2 DEF EndedLeavesActive

-----------------------------------------------------------------------------
(* Serial clients: the contract of a trip *)

\* What the first query of a request saw of its trip's status still holds.
StatusSeen ==
    \A r \in Requests :
        /\ At(r, "updateTrip") => trip[req[r].trip].status \in RequiredStatus[req[r].op]
        /\ req[r].pc \in MarkCalls => trip[req[r].trip].status = "IN_PROGRESS"

\* The last log exists when there is one.
LastLogs ==
    \A t \in Trips, s \in Students :
        LogsOf(t, s) # {} => \E i \in LogsOf(t, s) : \A j \in LogsOf(t, s) : j <= i

ContractInv ==
    TypeInv /\ TripInv /\ OpsFit /\ Serial /\ StillOpen /\ StatusSeen /\ LastLogs

LEMMA NextStatusSeen ==
    ASSUME SerialPerTrip, TypeInv, OpsFit, Serial, StatusSeen, [Next]_vars
    PROVE  StatusSeen'
<1>1. \A r \in Requests : Busy(r) => req[r].trip \in Trips
  BY DEF TypeInv, Shape
<1>2. RequiredStatus["pickup"] = {"IN_PROGRESS"} /\ RequiredStatus["drop"] = {"IN_PROGRESS"}
      /\ RequiredStatus["absent"] = {"IN_PROGRESS"}
  BY DEF RequiredStatus
<1> SUFFICES ASSUME NEW q \in Requests, req'[q].pc \in {"updateTrip"} \cup MarkCalls
             PROVE  /\ req'[q].pc = "updateTrip" =>
                          trip'[req'[q].trip].status \in RequiredStatus[req'[q].op]
                    /\ req'[q].pc \in MarkCalls => trip'[req'[q].trip].status = "IN_PROGRESS"
  BY DEF StatusSeen, At
<1>3. CASE Step(q)
  <2>1. ASSUME NEW result, Reply(q, result) PROVE FALSE
    BY <2>1, ReplyFields DEF MarkCalls
  <2>2. ASSUME NEW call, Goto(q, call)
        PROVE  call \in {"updateTrip"} \cup MarkCalls /\ req'[q].pc = call
               /\ req'[q].op = req[q].op /\ req'[q].trip = req[q].trip
    BY <2>2, GotoFields
  <2>3. CASE FindTrip(q)
    <3>1. Admits(trip[req[q].trip], req[q]) /\ UNCHANGED trip
          /\ Goto(q, IF req[q].op \in MarkOps THEN "findStudent" ELSE "updateTrip")
      BY <2>1, <2>3 DEF FindTrip, stores
    <3>2. trip[req[q].trip].status \in RequiredStatus[req[q].op]
      BY <3>1 DEF Admits
    <3>3. req[q].op \in MarkOps => trip[req[q].trip].status = "IN_PROGRESS"
      BY <1>2, <3>2 DEF MarkOps
    <3> QED
      BY <2>2, <3>1, <3>2, <3>3 DEF MarkCalls
  <2>4. CASE FindStudent(q) \/ FindLog(q) \/ FindKey(q)
    <3>1. PICK call \in MarkCalls : Goto(q, call)
      BY <2>1, <2>4 DEF FindStudent, FindLog, FindKey, MarkCalls
    <3>2. trip[req[q].trip].status = "IN_PROGRESS" /\ UNCHANGED trip
      BY <2>4 DEF FindStudent, FindLog, FindKey, At, MarkCalls, StatusSeen, stores
    <3> QED
      BY <2>2, <3>1, <3>2 DEF MarkCalls
  <2>5. CASE CreateFindVan(q) \/ CreateFindRoute(q) \/ CreateInsert(q) \/ CreateSetActive(q)
             \/ StartTrip(q) \/ EndTrip(q) \/ ActivateSOS(q) \/ ResolveSOS(q)
    BY <2>1, <2>2, <2>5
    DEF CreateFindVan, CreateFindRoute, CreateInsert, CreateSetActive, StartTrip, EndTrip,
        ActivateSOS, ResolveSOS, MarkCalls
  <2>6. CASE InsertLog(q) \/ SetLocation(q) \/ RecordLocation(q) \/ RemoveActive(q)
             \/ InsertAlert(q)
    BY <2>1, <2>2, <2>6
    DEF InsertLog, SetLocation, AfterSetLocation, RecordLocation, RemoveActive, InsertAlert,
        MarkCalls
  <2> QED
    BY <1>3, <2>3, <2>4, <2>5, <2>6 DEF Step
<1>4. CASE req'[q] = req[q] /\ ~Step(q)
  <2>1. Busy(q) /\ req[q].trip \in Trips
    BY <1>1, <1>4 DEF Busy, MarkCalls
  <2>2. ASSUME NEW r \in Requests, Step(r), req[r].trip = req[q].trip PROVE FALSE
    BY <1>4, <2>1, <2>2, StepKeepsTrip DEF Serial
  <2>3. trip'[req[q].trip] = trip[req[q].trip]
    BY <2>1, <2>2, RowWrites
  <2> QED
    BY <1>4, <2>3 DEF StatusSeen, At
<1>5. \A r \in Requests : Arrive(r) => req'[q] = req[q]
  BY ArriveFields DEF MarkCalls
<1>6. \A r \in Requests : Step(r) /\ r # q => req'[q] = req[q]
  BY StepKeepsOthers
<1>7. \A r \in Requests : CallFails(r) => req'[q] = req[q]
  BY ReplyFields DEF CallFails, MarkCalls
<1>8. Crash => req'[q] = req[q]
  BY DEF Crash, Idle, MarkCalls
<1> QED
  BY <1>3, <1>4, <1>5, <1>6, <1>7, <1>8
  DEF Next, Environment, ActiveTripExpires, StudentMoved, VanReassigned, vars

\* What an insert adds to the logs of a student on a trip.
LEMMA InsertedIndex ==
    ASSUME TypeInv, NEW r \in Requests, InsertLog(r), pickupLogs' = Append(pickupLogs, NewLog(req[r])),
           NEW n, n = Len(pickupLogs) + 1, NEW t \in Trips, NEW s \in Students
    PROVE  /\ n \in Nat /\ DOMAIN pickupLogs' = 1 .. n /\ pickupLogs'[n] = NewLog(req[r])
           /\ LogsOf(t, s) \subseteq 1 .. n - 1
           /\ \A i \in 1 .. n - 1 : pickupLogs'[i] = pickupLogs[i]
           /\ LogsOf(t, s)' = IF t = req[r].trip /\ s = req[r].student
                                 THEN LogsOf(t, s) \cup {n} ELSE LogsOf(t, s)
<1>1. pickupLogs \in Seq(LogRow) /\ NewLog(req[r]) \in LogRow
      /\ NewLog(req[r]).trip = req[r].trip /\ NewLog(req[r]).student = req[r].student
  BY InsertedLog DEF TypeInv, TypeOK
<1>2. /\ n \in Nat /\ DOMAIN pickupLogs = 1 .. n - 1 /\ DOMAIN pickupLogs' = 1 .. n
      /\ pickupLogs'[n] = NewLog(req[r])
      /\ \A i \in 1 .. n - 1 : pickupLogs'[i] = pickupLogs[i]
  BY <1>1
<1>3. \A i \in 1 .. n : i = n \/ i \in 1 .. n - 1
  BY <1>2
<1>4. \A i \in 1 .. n - 1 : i \in 1 .. n
  BY <1>2
<1>5. n \in 1 .. n
  BY <1>2
<1>6. LogsOf(t, s)' = IF t = req[r].trip /\ s = req[r].student
                         THEN LogsOf(t, s) \cup {n} ELSE LogsOf(t, s)
  BY <1>1, <1>2, <1>3, <1>4, <1>5 DEF LogsOf
<1> QED
  BY <1>2, <1>6 DEF LogsOf

LEMMA NextLastLogs == ASSUME TypeInv, LastLogs, [Next]_vars PROVE LastLogs'
<1>1. CASE UNCHANGED pickupLogs
  BY <1>1 DEF LastLogs, LogsOf
<1>2. ASSUME NEW r \in Requests, InsertLog(r), pickupLogs' = Append(pickupLogs, NewLog(req[r])),
             NEW t \in Trips, NEW s \in Students, LogsOf(t, s)' # {}
      PROVE  \E i \in LogsOf(t, s)' : \A j \in LogsOf(t, s)' : j <= i
  <2>1. PICK n : n = Len(pickupLogs) + 1
    OBVIOUS
  <2>2. /\ n \in Nat /\ LogsOf(t, s) \subseteq 1 .. n - 1
        /\ LogsOf(t, s)' = IF t = req[r].trip /\ s = req[r].student
                              THEN LogsOf(t, s) \cup {n} ELSE LogsOf(t, s)
    BY <1>2, <2>1, InsertedIndex
  <2>3. \A j \in LogsOf(t, s) : j <= n
    BY <2>2
  <2>4. CASE t = req[r].trip /\ s = req[r].student
    BY <2>2, <2>3, <2>4
  <2>5. CASE ~(t = req[r].trip /\ s = req[r].student)
    BY <1>2, <2>2, <2>5 DEF LastLogs
  <2> QED
    BY <2>4, <2>5
<1> QED
  BY <1>1, <1>2, LogWrites DEF LastLogs

\* The last log of the one whose mark is inserted is the new one; the others keep theirs.
LEMMA InsertedMark ==
    ASSUME ContractInv, NEW r \in Requests, InsertLog(r),
           pickupLogs' = Append(pickupLogs, NewLog(req[r])),
           NEW t \in Trips, NEW s \in Students
    PROVE  MarkOf(t, s)' = IF t = req[r].trip /\ s = req[r].student
                              THEN NewLog(req[r]).action ELSE MarkOf(t, s)
<1>1. PICK n : n = Len(pickupLogs) + 1
  OBVIOUS
<1>2. /\ n \in Nat /\ pickupLogs'[n] = NewLog(req[r])
      /\ LogsOf(t, s) \subseteq 1 .. n - 1
      /\ \A i \in 1 .. n - 1 : pickupLogs'[i] = pickupLogs[i]
      /\ LogsOf(t, s)' = IF t = req[r].trip /\ s = req[r].student
                            THEN LogsOf(t, s) \cup {n} ELSE LogsOf(t, s)
  BY <1>1, InsertedIndex DEF ContractInv
<1>3. CASE t = req[r].trip /\ s = req[r].student
  <2>1. LogsOf(t, s)' = LogsOf(t, s) \cup {n} /\ \A j \in LogsOf(t, s) : j < n /\ j \in Nat
    BY <1>2, <1>3
  <2>2. PICK c : c = CHOOSE i \in LogsOf(t, s)' : \A j \in LogsOf(t, s)' : j <= i
    OBVIOUS
  <2>3. n \in LogsOf(t, s)' /\ \A j \in LogsOf(t, s)' : j <= n
    <3>1. n <= n
      BY <1>2
    <3>2. \A j \in LogsOf(t, s) : j <= n
      BY <1>2, <2>1
    <3> QED
      BY <2>1, <3>1, <3>2
  <2>4. c \in LogsOf(t, s)' /\ \A j \in LogsOf(t, s)' : j <= c
    BY <2>2, <2>3
  <2>5. c = n
    <3>1. n <= c
      BY <2>3, <2>4
    <3>2. c \in LogsOf(t, s) => FALSE
      BY <1>2, <2>1, <3>1
    <3> QED
      BY <2>1, <2>4, <3>2
  <2>6. LogsOf(t, s)' # {}
    BY <2>3
  <2>7. MarkOf(t, s)' = pickupLogs'[c].action
    BY <2>2, <2>6 DEF MarkOf
  <2> QED
    BY <1>2, <1>3, <2>5, <2>7
<1>4. CASE ~(t = req[r].trip /\ s = req[r].student)
  <2>1. LogsOf(t, s)' = LogsOf(t, s)
    BY <1>2, <1>4
  <2>2. CASE LogsOf(t, s) = {}
    BY <1>4, <2>1, <2>2 DEF MarkOf
  <2>3. CASE LogsOf(t, s) # {}
    <3>1. PICK c : c = CHOOSE i \in LogsOf(t, s) : \A j \in LogsOf(t, s) : j <= i
      OBVIOUS
    <3>2. c \in LogsOf(t, s)
      BY <2>3, <3>1 DEF ContractInv, LastLogs
    <3>3. pickupLogs'[c] = pickupLogs[c]
      BY <1>2, <3>2
    <3> QED
      BY <1>4, <2>1, <2>3, <3>1, <3>3 DEF MarkOf
  <2> QED
    BY <2>2, <2>3
<1> QED
  BY <1>3, <1>4

phase == [t \in Trips |-> trip[t].status]
mark == [t \in Trips |-> [s \in Students |-> MarkOf(t, s)]]

LEMMA InitContract == Init => ContractInv /\ Contract!Init
<1> SUFFICES ASSUME Init PROVE ContractInv /\ Contract!Init
  OBVIOUS
<1>1. OpsFit /\ Serial /\ StillOpen /\ StatusSeen
  BY DEF Init, OpsFit, Fits, Serial, Busy, StillOpen, StatusSeen, At, MarkCalls, Idle
<1>2. \A t \in Trips, s \in Students : LogsOf(t, s) = {}
  BY DEF Init, LogsOf
<1>3. LastLogs
  BY <1>2 DEF LastLogs
<1>4. Contract!Init
  BY <1>2 DEF Init, Contract!Init, MarkOf, NoRow
<1> QED
  BY <1>1, <1>3, <1>4, InitTypeInv, InitTripInv DEF ContractInv

LEMMA NextContractInv == SerialPerTrip /\ ContractInv /\ [Next]_vars => ContractInv'
BY NextTypeInv, NextTripInv, NextOpsFit, NextSerial, NextStillOpen, NextStatusSeen, NextLastLogs
DEF ContractInv

LEMMA MarksStay == UNCHANGED pickupLogs => UNCHANGED mark
BY DEF mark, MarkOf, LogsOf

\* A write of a row is a move of its trip.
LEMMA RowMoves ==
    ASSUME TypeInv, NEW r \in Requests, NEW t \in Trips, t = req[r].trip, NEW row,
           trip' = [trip EXCEPT ![t] = row], UNCHANGED pickupLogs
    PROVE  phase' = [phase EXCEPT ![t] = row.status] /\ phase[t] = trip[t].status
           /\ UNCHANGED mark
BY MarksStay DEF phase, TypeInv, TypeOK

LEMMA MoveIsNext ==
    ASSUME NEW t \in Trips,
           \/ Contract!Schedule(t) \/ Contract!Start(t) \/ Contract!Finish(t)
           \/ Contract!RaiseSos(t) \/ Contract!Resume(t) \/ Contract!Abort(t)
    PROVE  Contract!Next
BY DEF Contract!Next

LEMMA TripStepContract ==
    ASSUME ContractInv, NEW r \in Requests,
           CreateInsert(r) \/ StartTrip(r) \/ EndTrip(r) \/ ActivateSOS(r) \/ ResolveSOS(r)
    PROVE  Contract!Next
<1>0. PICK t : t = req[r].trip
  OBVIOUS
<1>1. Busy(r) /\ t \in Trips /\ trip[t] \in TripRow
  BY <1>0 DEF CreateInsert, StartTrip, EndTrip, ActivateSOS, ResolveSOS, At, Busy, ContractInv,
         TypeInv, TypeOK, Shape
<1>2. At(r, "updateTrip") => trip[t].status \in RequiredStatus[req[r].op]
  BY <1>0 DEF ContractInv, StatusSeen
<1>3. \A row \in TripRow : \A status \in ResolvedStatus :
         /\ StartedRow(row).status = "IN_PROGRESS" /\ EndedRow(row).status = "COMPLETED"
         /\ SosRow(row).status = "SOS_ACTIVE" /\ ResolvedRow(row, status).status = status
  BY DEF StartedRow, EndedRow, SosRow, ResolvedRow, TripRow
<1>4. ASSUME NEW row, trip' = [trip EXCEPT ![t] = row], UNCHANGED pickupLogs
      PROVE  phase' = [phase EXCEPT ![t] = row.status] /\ phase[t] = trip[t].status
             /\ UNCHANGED mark
  BY <1>0, <1>1, <1>4, RowMoves DEF ContractInv
<1>5. CASE CreateInsert(r)
  <2> DEFINE row == [NoRow EXCEPT !.status = "NOT_STARTED", !.van = req[r].van,
                                  !.driver = req[r].driver]
  <2>1. row.status = "NOT_STARTED" /\ trip' = [trip EXCEPT ![t] = row] /\ UNCHANGED pickupLogs
    BY <1>0, <1>5 DEF CreateInsert, NoRow
  <2>2. trip[t].status = "UNBORN"
    BY <1>0, <1>5 DEF CreateInsert, At, Creating, ContractInv, TripInv, FreshIds
  <2> HIDE DEF row
  <2>3. Contract!Schedule(t)
    BY <1>4, <2>1, <2>2 DEF Contract!Schedule, Contract!Move, phase, mark
  <2> QED
    BY <1>1, <2>3, MoveIsNext
<1>6. CASE StartTrip(r)
  <2>1. trip' = [trip EXCEPT ![t] = StartedRow(trip[t])] /\ UNCHANGED pickupLogs
        /\ trip[t].status = "NOT_STARTED"
    BY <1>0, <1>2, <1>6 DEF StartTrip, Update, RequiredStatus
  <2>2. StartedRow(trip[t]).status = "IN_PROGRESS"
    BY <1>1, <1>3 DEF ResolvedStatus
  <2>3. Contract!Start(t)
    BY <1>4, <2>1, <2>2 DEF Contract!Start, Contract!Move, phase, mark
  <2> QED
    BY <1>1, <2>3, MoveIsNext
<1>7. CASE EndTrip(r)
  <2>1. trip' = [trip EXCEPT ![t] = EndedRow(trip[t])] /\ UNCHANGED pickupLogs
        /\ trip[t].status = "IN_PROGRESS"
    BY <1>0, <1>2, <1>7 DEF EndTrip, Update, RequiredStatus
  <2>2. EndedRow(trip[t]).status = "COMPLETED"
    BY <1>1, <1>3 DEF ResolvedStatus
  <2>3. Contract!Finish(t)
    BY <1>4, <2>1, <2>2 DEF Contract!Finish, Contract!Move, phase, mark
  <2> QED
    BY <1>1, <2>3, MoveIsNext
<1>8. CASE ActivateSOS(r)
  <2>1. trip' = [trip EXCEPT ![t] = SosRow(trip[t])] /\ UNCHANGED pickupLogs
        /\ trip[t].status \in {"NOT_STARTED", "IN_PROGRESS"}
    BY <1>0, <1>2, <1>8 DEF ActivateSOS, Update, RequiredStatus
  <2>2. SosRow(trip[t]).status = "SOS_ACTIVE"
    BY <1>1, <1>3 DEF ResolvedStatus
  <2>3. Contract!RaiseSos(t)
    BY <1>4, <2>1, <2>2 DEF Contract!RaiseSos, Contract!Move, phase, mark
  <2> QED
    BY <1>1, <2>3, MoveIsNext
<1>9. CASE ResolveSOS(r)
  <2>1. PICK status \in ResolvedStatus :
           trip' = [trip EXCEPT ![t] = ResolvedRow(trip[t], status)] /\ UNCHANGED pickupLogs
    BY <1>0, <1>9 DEF ResolveSOS, Update
  <2>2. trip[t].status = "SOS_ACTIVE"
    BY <1>0, <1>2, <1>9 DEF ResolveSOS, RequiredStatus
  <2>3. ResolvedRow(trip[t], status).status = status
    BY <1>1, <1>3
  <2>4. CASE status = "IN_PROGRESS"
    <3>1. Contract!Resume(t)
      BY <1>4, <2>1, <2>2, <2>3, <2>4 DEF Contract!Resume, Contract!Move, phase, mark
    <3> QED
      BY <1>1, <3>1, MoveIsNext
  <2>5. CASE status = "COMPLETED"
    <3>1. Contract!Abort(t)
      BY <1>4, <2>1, <2>2, <2>3, <2>5 DEF Contract!Abort, Contract!Move, phase, mark
    <3> QED
      BY <1>1, <3>1, MoveIsNext
  <2> QED
    BY <2>1, <2>4, <2>5 DEF ResolvedStatus
<1> QED
  BY <1>5, <1>6, <1>7, <1>8, <1>9

LEMMA MarkStepContract ==
    ASSUME ContractInv, NEW r \in Requests, InsertLog(r),
           pickupLogs' = Append(pickupLogs, NewLog(req[r]))
    PROVE  Contract!Next
<1>0. PICK t, s, m : t = req[r].trip /\ s = req[r].student /\ m = NewLog(req[r]).action
  OBVIOUS
<1>1. /\ req[r].pc = "insertLog" /\ req[r].op \in MarkOps
      /\ t \in Trips /\ s \in Students /\ UNCHANGED trip
  BY <1>0 DEF InsertLog, At, Busy, ContractInv, TypeInv, Shape, MarkCalls
<1>2. m \in Contract!Marks \ {"NONE"}
  BY <1>0, <1>1 DEF NewLog, Written, MarkOps, Contract!Marks, Contract!Open
<1>3. trip[t].status = "IN_PROGRESS"
  BY <1>0, <1>1 DEF ContractInv, StatusSeen, MarkCalls
<1>4. MarkOf(t, s) \in Contract!Open
  <2>1. CASE LogsOf(t, s) = {}
    BY <2>1 DEF MarkOf, Contract!Open
  <2>2. CASE LogsOf(t, s) # {}
    <3>1. PICK c : c = CHOOSE i \in LogsOf(t, s) : \A j \in LogsOf(t, s) : j <= i
      OBVIOUS
    <3>2. c \in LogsOf(t, s)
      BY <1>1, <2>2, <3>1 DEF ContractInv, LastLogs
    <3>3. c \in DOMAIN pickupLogs /\ pickupLogs[c].trip = t /\ pickupLogs[c].student = s
      BY <3>2 DEF LogsOf
    <3>4. pickupLogs[c].action \notin FinalActions
      BY <1>0, <1>1, <3>3 DEF ContractInv, StillOpen, FinalMark, Logs
    <3>5. pickupLogs[c] \in LogRow
      BY <3>3 DEF ContractInv, TypeInv, TypeOK
    <3>6. pickupLogs[c].action = "ABSENT"
      BY <3>4, <3>5 DEF LogRow
    <3> QED
      BY <2>2, <3>1, <3>6 DEF MarkOf, Contract!Open
  <2> QED
    BY <2>1, <2>2
<1>5. \A x \in Trips, y \in Students :
         MarkOf(x, y)' = IF x = t /\ y = s THEN m ELSE MarkOf(x, y)
  BY <1>0, InsertedMark
<1>6. mark' = [mark EXCEPT ![t][s] = m] /\ mark[t][s] = MarkOf(t, s)
  BY <1>1, <1>5 DEF mark
<1>7. Contract!Mark(t, s, m)
  BY <1>1, <1>3, <1>4, <1>6 DEF Contract!Mark, phase, mark
<1> QED
  BY <1>1, <1>2, <1>7 DEF Contract!Next

\* When clients wait for the answers, the many awaited calls of TripsService's handlers
\* (trips.service.ts:25 to :738) show a trip that moves as TripContract says, whatever fails.
THEOREM RefinesContract ==
    ASSUME SerialPerTrip PROVE Spec => ImplementsContract
<1>1. ContractInv /\ [Next]_vars => [Contract!Next]_<<phase, mark>>
  <2> SUFFICES ASSUME ContractInv, [Next]_vars
               PROVE  Contract!Next \/ UNCHANGED <<phase, mark>>
    OBVIOUS
  <2>1. CASE UNCHANGED <<trip, pickupLogs>>
    BY <2>1, MarksStay DEF phase
  <2>2. UNCHANGED trip \/ Contract!Next
    BY TripWrites, TripStepContract
  <2>3. UNCHANGED pickupLogs \/ Contract!Next
    BY LogWrites, MarkStepContract
  <2> QED
    BY <2>1, <2>2, <2>3
<1> QED
  BY <1>1, InitContract, NextContractInv, PTL
  DEF Spec, ImplementsContract, Contract!Spec, Contract!vars, phase, mark

\* A write of a row leaves its columns in agreement when the status is the one that was seen.
LEMMA NextColumnsAgree ==
    ASSUME ContractInv, ColumnsAgree, [Next]_vars PROVE ColumnsAgree'
<1>1. CASE UNCHANGED trip
  BY <1>1 DEF ColumnsAgree
<1>2. ASSUME NEW r \in Requests,
             CreateInsert(r) \/ StartTrip(r) \/ EndTrip(r) \/ ActivateSOS(r) \/ ResolveSOS(r)
      PROVE  ColumnsAgree'
  <2>0. PICK t : t = req[r].trip
    OBVIOUS
  <2>1. Busy(r) /\ t \in Trips /\ trip[t] \in TripRow
    BY <1>2, <2>0 DEF CreateInsert, StartTrip, EndTrip, ActivateSOS, ResolveSOS, At, Busy,
           ContractInv, TypeInv, TypeOK, Shape
  <2>2. At(r, "updateTrip") => trip[t].status \in RequiredStatus[req[r].op]
    BY <2>0 DEF ContractInv, StatusSeen
  <2>3. PICK row :
           /\ trip' = [trip EXCEPT ![t] = row]
           /\ \/ row = [NoRow EXCEPT !.status = "NOT_STARTED", !.van = req[r].van,
                                     !.driver = req[r].driver]
              \/ row = StartedRow(trip[t]) /\ trip[t].status = "NOT_STARTED"
              \/ row = EndedRow(trip[t]) /\ trip[t].status = "IN_PROGRESS"
              \/ row = SosRow(trip[t]) /\ trip[t].status \in {"NOT_STARTED", "IN_PROGRESS"}
              \/ /\ \E status \in ResolvedStatus : row = ResolvedRow(trip[t], status)
                 /\ trip[t].status = "SOS_ACTIVE"
    <3>1. CASE CreateInsert(r)
      BY <2>0, <3>1 DEF CreateInsert
    <3>2. CASE StartTrip(r)
      <4>1. trip' = [trip EXCEPT ![t] = StartedRow(trip[t])]
        BY <2>0, <3>2 DEF StartTrip, Update
      <4>2. trip[t].status = "NOT_STARTED"
        BY <2>2, <3>2 DEF StartTrip, RequiredStatus
      <4> QED
        BY <4>1, <4>2
    <3>3. CASE EndTrip(r)
      <4>1. trip' = [trip EXCEPT ![t] = EndedRow(trip[t])]
        BY <2>0, <3>3 DEF EndTrip, Update
      <4>2. trip[t].status = "IN_PROGRESS"
        BY <2>2, <3>3 DEF EndTrip, RequiredStatus
      <4> QED
        BY <4>1, <4>2
    <3>4. CASE ActivateSOS(r)
      <4>1. trip' = [trip EXCEPT ![t] = SosRow(trip[t])]
        BY <2>0, <3>4 DEF ActivateSOS, Update
      <4>2. trip[t].status \in {"NOT_STARTED", "IN_PROGRESS"}
        BY <2>2, <3>4 DEF ActivateSOS, RequiredStatus
      <4> QED
        BY <4>1, <4>2
    <3>5. CASE ResolveSOS(r)
      <4>1. PICK status \in ResolvedStatus :
               trip' = [trip EXCEPT ![t] = ResolvedRow(trip[t], status)]
        BY <2>0, <3>5 DEF ResolveSOS, Update
      <4>2. trip[t].status = "SOS_ACTIVE"
        BY <2>2, <3>5 DEF ResolveSOS, RequiredStatus
      <4> QED
        BY <4>1, <4>2
    <3> QED
      BY <1>2, <3>1, <3>2, <3>3, <3>4, <3>5
  <2>4. /\ trip[t].ended <=> trip[t].status = "COMPLETED"
        /\ trip[t].sosActivated /\ ~trip[t].sosResolved => trip[t].status = "SOS_ACTIVE"
    BY <2>1 DEF ColumnsAgree
  <2>5. /\ row.ended <=> row.status = "COMPLETED"
        /\ row.sosActivated /\ ~row.sosResolved => row.status = "SOS_ACTIVE"
    <3>1. CASE row = [NoRow EXCEPT !.status = "NOT_STARTED", !.van = req[r].van,
                                   !.driver = req[r].driver]
      BY <3>1 DEF NoRow
    <3>2. CASE row = StartedRow(trip[t]) /\ trip[t].status = "NOT_STARTED"
      BY <2>1, <2>4, <3>2 DEF StartedRow, TripRow
    <3>3. CASE row = EndedRow(trip[t]) /\ trip[t].status = "IN_PROGRESS"
      BY <2>1, <2>4, <3>3 DEF EndedRow, TripRow
    <3>4. CASE row = SosRow(trip[t]) /\ trip[t].status \in {"NOT_STARTED", "IN_PROGRESS"}
      BY <2>1, <2>4, <3>4 DEF SosRow, TripRow
    <3>5. ASSUME NEW status \in ResolvedStatus, row = ResolvedRow(trip[t], status),
                 trip[t].status = "SOS_ACTIVE"
          PROVE  /\ row.ended <=> row.status = "COMPLETED"
                 /\ row.sosActivated /\ ~row.sosResolved => row.status = "SOS_ACTIVE"
      BY <2>1, <2>4, <3>5 DEF ResolvedRow, ResolvedStatus, TripRow
    <3> QED
      BY <2>3, <3>1, <3>2, <3>3, <3>4, <3>5
  <2>6. trip'[t] = row /\ \A u \in Trips \ {t} : trip'[u] = trip[u]
    BY <2>1, <2>3 DEF ContractInv, TypeInv, TypeOK
  <2> QED
    BY <2>5, <2>6 DEF ColumnsAgree
<1> QED
  BY <1>1, <1>2, TripWrites

\* When clients wait for the answers, a trip has its end exactly when it is completed, and
\* only resolveSOS (trips.service.ts:738 to :790) takes a trip out of an emergency.
THEOREM ColumnsSafety ==
    ASSUME SerialPerTrip PROVE Spec => []ColumnsAgree
<1>1. Init => ContractInv /\ ColumnsAgree
  BY InitContract DEF Init, NoRow, ColumnsAgree
<1>2. ContractInv /\ ColumnsAgree /\ [Next]_vars => ColumnsAgree'
  BY NextColumnsAgree
<1> QED
  BY <1>1, <1>2, NextContractInv, PTL DEF Spec

-----------------------------------------------------------------------------
(* Overlapping clients: how many marks can pass the check together *)

\* The requests that found no final log of s on t and have not inserted theirs.
Passed(t, s) ==
    {r \in Requests : /\ req[r].pc \in {"findKey", "insertLog"}
                      /\ req[r].trip = t /\ req[r].student = s}

\* A final log stands for a slot that can pass the check no more.
Covered ==
    \A t \in Trips, s \in Students :
        Cardinality(FinalLogs(t, s)) + Cardinality(Passed(t, s)) <= Cardinality(Requests)

LEMMA FinalLogsFinite ==
    ASSUME TypeInv, NEW t, NEW s PROVE IsFiniteSet(FinalLogs(t, s))
<1>1. pickupLogs \in Seq(LogRow)
  BY DEF TypeInv, TypeOK
<1>2. Len(pickupLogs) \in Nat /\ DOMAIN pickupLogs = 1 .. Len(pickupLogs)
  BY <1>1
<1>3. FinalLogs(t, s) \in SUBSET (1 .. Len(pickupLogs))
  BY <1>2 DEF FinalLogs
<1>4. IsFiniteSet(1 .. Len(pickupLogs))
  BY <1>2, FS_Interval
<1> QED
  BY <1>3, <1>4, FS_Subset

LEMMA MarkedIsFinal ==
    ASSUME NEW t, NEW s PROVE FinalMark(t, s) <=> FinalLogs(t, s) # {}
BY DEF FinalMark, FinalLogs, Logs

\* An insert uses up its slot.
LEMMA InsertCovered ==
    ASSUME TypeInv, NEW r \in Requests, InsertLog(r),
           pickupLogs' = Append(pickupLogs, NewLog(req[r])),
           NEW t \in Trips, NEW s \in Students
    PROVE  /\ Passed(t, s)' \subseteq Passed(t, s) \ {r}
           /\ \/ FinalLogs(t, s)' = FinalLogs(t, s)
              \/ r \in Passed(t, s) /\ \E n : FinalLogs(t, s)' = FinalLogs(t, s) \cup {n}
<1>1. PICK n : n = Len(pickupLogs) + 1
  OBVIOUS
<1>2. /\ n \in Nat /\ DOMAIN pickupLogs' = 1 .. n /\ pickupLogs'[n] = NewLog(req[r])
      /\ \A i \in 1 .. n - 1 : pickupLogs'[i] = pickupLogs[i]
  BY <1>1, InsertedIndex
<1>3. DOMAIN pickupLogs = 1 .. n - 1
  BY <1>1 DEF TypeInv, TypeOK
<1>4. \A i : i \in 1 .. n <=> i = n \/ i \in 1 .. n - 1
  BY <1>2
<1>5. NewLog(req[r]).trip = req[r].trip /\ NewLog(req[r]).student = req[r].student
  BY InsertedLog
<1>6. FinalLogs(t, s)' = IF t = req[r].trip /\ s = req[r].student
                              /\ NewLog(req[r]).action \in FinalActions
                           THEN FinalLogs(t, s) \cup {n} ELSE FinalLogs(t, s)
  BY <1>2, <1>3, <1>4, <1>5 DEF FinalLogs
<1>7. t = req[r].trip /\ s = req[r].student => r \in Passed(t, s)
  BY DEF InsertLog, At, Passed
<1>8. /\ \A q \in Requests \ {r} : req'[q] = req[q]
      /\ req'[r].pc \notin {"findKey", "insertLog"}
  <2>1. Step(r)
    BY DEF Step
  <2>2. (\E result : Reply(r, result)) \/ Goto(r, "setLocation")
    BY DEF InsertLog
  <2> QED
    BY <2>1, <2>2, StepKeepsTrip, ReplyFields, GotoFields
<1>9. Passed(t, s)' \subseteq Passed(t, s) \ {r}
  BY <1>8 DEF Passed
<1> QED
  BY <1>6, <1>7, <1>9

\* Any other step lets through at most one request, when there is no final log.
LEMMA QuietCovered ==
    ASSUME TypeInv, [Next]_vars, UNCHANGED pickupLogs, NEW t \in Trips, NEW s \in Students
    PROVE  /\ FinalLogs(t, s)' = FinalLogs(t, s)
           /\ Passed(t, s)' \subseteq Passed(t, s) \/ FinalLogs(t, s) = {}
<1>1. FinalLogs(t, s)' = FinalLogs(t, s)
  BY DEF FinalLogs
<1>2. ASSUME NEW q \in Requests, q \in Passed(t, s)', q \notin Passed(t, s)
      PROVE  FinalLogs(t, s) = {}
  <2>1. req'[q].pc \in {"findKey", "insertLog"} /\ req'[q].trip = t /\ req'[q].student = s
    BY <1>2 DEF Passed
  <2>2. req'[q] # req[q]
    BY <1>2, <2>1 DEF Passed
  <2>3. PICK r \in Requests : Arrive(r) \/ Step(r) \/ CallFails(r)
    BY <2>1, <2>2
       DEF Next, Environment, Crash, Idle, ActiveTripExpires, StudentMoved, VanReassigned, vars
  <2>4. ~Arrive(r)
    BY <2>1, <2>2, ArriveFields
  <2>5. r = q
    BY <2>2, <2>3, <2>4, StepKeepsTrip
  <2>6. req[q].trip = t /\ req[q].student = s
    BY <2>1, <2>3, <2>4, <2>5, StepKeepsTrip
  <2>7. req[q].pc = "findKey" \/ ~FinalMark(t, s)
    BY <2>1, <2>3, <2>4, <2>5, <2>6, StepPasses
  <2> QED
    BY <1>2, <2>6, <2>7, MarkedIsFinal DEF Passed
<1> QED
  BY <1>1, <1>2 DEF Passed

LEMMA NextCovered ==
    ASSUME IsFiniteSet(Requests), TypeInv, TypeInv', Covered, [Next]_vars PROVE Covered'
<1> SUFFICES ASSUME NEW t \in Trips, NEW s \in Students
             PROVE  (Cardinality(FinalLogs(t, s)) + Cardinality(Passed(t, s))
                       <= Cardinality(Requests))'
  BY DEF Covered
<1>0. PICK F, G, P, Q, N : /\ F = FinalLogs(t, s) /\ G = FinalLogs(t, s)'
                           /\ P = Passed(t, s) /\ Q = Passed(t, s)' /\ N = Cardinality(Requests)
  OBVIOUS
<1>1. /\ IsFiniteSet(F) /\ IsFiniteSet(G) /\ P \in SUBSET Requests /\ Q \in SUBSET Requests
  <2>1. IsFiniteSet(FinalLogs(t, s)) /\ IsFiniteSet(FinalLogs(t, s))'
    BY FinalLogsFinite, PTL
  <2> QED
    BY <1>0, <2>1 DEF Passed
<1>2. /\ IsFiniteSet(P) /\ IsFiniteSet(Q) /\ Cardinality(Q) <= N
      /\ Cardinality(F) \in Nat /\ Cardinality(G) \in Nat /\ Cardinality(P) \in Nat
      /\ Cardinality(Q) \in Nat /\ N \in Nat
  BY <1>0, <1>1, FS_Subset, FS_CardinalityType
<1>3. Cardinality(F) + Cardinality(P) <= N
  BY <1>0 DEF Covered
<1>4. CASE UNCHANGED pickupLogs
  <2>1. G = F /\ (Q \subseteq P \/ F = {})
    BY <1>0, <1>4, QuietCovered
  <2>2. CASE Q \subseteq P
    <3>1. Cardinality(Q) <= Cardinality(P)
      BY <1>2, <2>2, FS_Subset
    <3> QED
      BY <1>0, <1>2, <1>3, <2>1, <3>1
  <2>3. CASE F = {}
    <3>1. Cardinality(G) = 0
      BY <2>1, <2>3, FS_EmptySet
    <3> QED
      BY <1>0, <1>2, <3>1
  <2> QED
    BY <2>1, <2>2, <2>3
<1>5. ASSUME NEW r \in Requests, InsertLog(r), pickupLogs' = Append(pickupLogs, NewLog(req[r]))
      PROVE  (Cardinality(FinalLogs(t, s)) + Cardinality(Passed(t, s))
                <= Cardinality(Requests))'
  <2>1. /\ Q \subseteq P \ {r}
        /\ G = F \/ (r \in P /\ \E n : G = F \cup {n})
    BY <1>0, <1>5, InsertCovered
  <2>2. IsFiniteSet(P \ {r})
    BY <1>2, FS_RemoveElement
  <2>3. Cardinality(Q) <= Cardinality(P \ {r}) /\ Cardinality(P \ {r}) \in Nat
    BY <2>1, <2>2, FS_Subset, FS_CardinalityType
  <2>4. CASE G = F
    <3>1. Cardinality(Q) <= Cardinality(P)
      BY <1>2, <2>1, FS_Subset
    <3> QED
      BY <1>0, <1>2, <1>3, <2>4, <3>1
  <2>5. ASSUME r \in P, NEW n, G = F \cup {n}
        PROVE  Cardinality(G) + Cardinality(Q) <= N
    <3>1. Cardinality(P \ {r}) = Cardinality(P) - 1
      BY <1>2, <2>5, FS_RemoveElement
    <3>2. Cardinality(G) <= Cardinality(F) + 1
      BY <1>1, <1>2, <2>5, FS_AddElement
    <3> QED
      BY <1>2, <1>3, <2>3, <3>1, <3>2
  <2> QED
    BY <1>0, <2>1, <2>4, <2>5
<1> QED
  BY <1>4, <1>5, LogWrites

\* Clients may overlap calls, calls may fail, the process may die: the marks of a student
\* that the check for an earlier one (trips.service.ts:403) lets through together are never
\* more than the requests that the server has in flight at once.
THEOREM OverlapSafety ==
    ASSUME IsFiniteSet(Requests) PROVE Spec => []MarksOnlyOverlap
<1>1. Init => Covered
  <2> SUFFICES ASSUME Init, NEW t \in Trips, NEW s \in Students
               PROVE  Cardinality(FinalLogs(t, s)) + Cardinality(Passed(t, s))
                        <= Cardinality(Requests)
    BY DEF Covered
  <2>1. FinalLogs(t, s) = {} /\ Passed(t, s) = {}
    BY DEF Init, FinalLogs, Passed, Idle
  <2>2. Cardinality(Requests) \in Nat
    BY FS_CardinalityType
  <2> QED
    BY <2>1, <2>2, FS_EmptySet
<1>2. TypeInv /\ TypeInv' /\ Covered /\ [Next]_vars => Covered'
  BY NextCovered
<1>3. TypeInv /\ Covered => MarksOnlyOverlap
  <2> SUFFICES ASSUME TypeInv, Covered, NEW t \in Trips, NEW s \in Students
               PROVE  Cardinality(FinalLogs(t, s)) <= Cardinality(Requests)
    BY DEF MarksOnlyOverlap
  <2>1. Passed(t, s) \in SUBSET Requests
    BY DEF Passed
  <2>2. /\ Cardinality(FinalLogs(t, s)) \in Nat /\ Cardinality(Passed(t, s)) \in Nat
        /\ Cardinality(Requests) \in Nat
    BY <2>1, FinalLogsFinite, FS_Subset, FS_CardinalityType
  <2>3. Cardinality(FinalLogs(t, s)) + Cardinality(Passed(t, s)) <= Cardinality(Requests)
    BY DEF Covered
  <2> QED
    BY <2>2, <2>3
<1> QED
  BY <1>1, <1>2, <1>3, TypeCorrect, PTL DEF Spec

=============================================================================
