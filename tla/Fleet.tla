--------------------------------- MODULE Fleet ---------------------------------
(***************************************************************************)
(* VansService, DriversService and StudentsService of one school: who      *)
(* drives which van and who rides it.                                      *)
(*                                                                         *)
(* As in TripService, an action is one awaited call with what the handler  *)
(* does next, and a request remembers in its `pc' the call it waits for.   *)
(* Deleting is soft: the row stays, marked, and every first query of a     *)
(* handler skips it; the write that follows goes by id and does not look.  *)
(* Not here: names, plates and emails (their uniqueness checks may refuse  *)
(* any request), parents, and which routes a van serves.                   *)
(* An operator whose name ends in Bug is a mutant of a definition below it. *)
(***************************************************************************)

EXTENDS Naturals, FiniteSets

CONSTANTS
    Requests,       \* slots for HTTP requests being served at the same time
    Vans,           \* van ids
    Drivers,        \* ids of users with role DRIVER
    Students,       \* student ids
    None,           \* null
    Keep,           \* an optional field that the request leaves out
    Offered,        \* bound: the endpoints administrators call
    SerialAdmins,   \* administrators wait for the answer before the next call
    SerialRows,     \* those who work on the same van, driver or student do
    MayFail         \* calls may reject and the process may crash

ASSUME FleetAssumption ==
    /\ None \notin Vans \cup Drivers \cup Students
    /\ Keep \notin Vans \cup {None} \cup BOOLEAN
    /\ SerialAdmins \in BOOLEAN
    /\ SerialRows \in BOOLEAN
    /\ MayFail \in BOOLEAN

VARIABLES
    van,       \* table vans
    driver,    \* the drivers in table User
    student,   \* table students
    req        \* the requests in flight

tables == <<van, driver, student>>
vars == <<van, driver, student, req>>

-----------------------------------------------------------------------------
(* Tables and requests *)

States == {"unborn", "live", "deleted"}

VanRow == [state: States, active: BOOLEAN, driver: Drivers \cup {None}]
DriverRow == [state: States, active: BOOLEAN]
StudentRow == [state: States, active: BOOLEAN, van: Vans \cup {None}]

Live(row) == row.state = "live"
InService(row) == Live(row) /\ row.active

VanOps == {"createVan", "updateVan", "removeVan", "assignDriver", "unassignDriver"}
DriverOps == {"createDriver", "updateDriver", "removeDriver"}
StudentOps == {"createStudent", "updateStudent", "removeStudent"}
Ops == VanOps \cup DriverOps \cup StudentOps

Calls ==
    {"unique", "findVan", "findDriver", "findDriverVan", "findStudent",
     "write", "unassignVans", "leaveVan"}

\* `seen' is what the first query read: updateVan the driver, updateStudent the van.
Request ==
    [op: Ops \cup {"none"}, pc: Calls \cup {"idle"}, van: Vans \cup {None, Keep},
     driver: Drivers \cup {None}, student: Students \cup {None},
     active: BOOLEAN \cup {Keep}, seen: Vans \cup Drivers \cup {None}]

Idle ==
    [op |-> "none", pc |-> "idle", van |-> None, driver |-> None, student |-> None,
     active |-> Keep, seen |-> None]

Busy(r) == req[r].pc # "idle"
At(r, call) == req[r].pc = call
Writes(r, op) == At(r, "write") /\ req[r].op = op

Reply(r) == req' = [req EXCEPT ![r] = Idle]
Goto(r, call) == req' = [req EXCEPT ![r].pc = call]
GotoSeen(r, call, value) == req' = [req EXCEPT ![r].pc = call, ![r].seen = value]

OneVanPerDriver ==
    \A v, w \in Vans :
        /\ v # w /\ InService(van[v]) /\ InService(van[w])
        /\ van[v].driver # None
        => van[v].driver # van[w].driver

NoVan == [state |-> "unborn", active |-> FALSE, driver |-> None]
NoDriver == [state |-> "unborn", active |-> FALSE]
NoStudent == [state |-> "unborn", active |-> FALSE, van |-> None]

\* The seeded database, or any part of it: vans with drivers of their own, students.
Init ==
    /\ driver \in [Drivers -> DriverRow]
    /\ \A d \in Drivers : driver[d] = NoDriver \/ InService(driver[d])
    /\ van \in [Vans -> VanRow]
    /\ \A v \in Vans : van[v] = NoVan \/ InService(van[v])
    /\ \A v \in Vans : van[v].driver # None => Live(driver[van[v].driver])
    /\ OneVanPerDriver
    /\ student \in [Students -> StudentRow]
    /\ \A s \in Students : student[s] = NoStudent \/ InService(student[s])
    /\ \A s \in Students : student[s].van # None => Live(van[student[s].van])
    /\ req = [r \in Requests |-> Idle]

-----------------------------------------------------------------------------
(* Requests arrive *)

\* A request is about the van, the driver or the student.
Names(q, v, d, s) ==
    \/ v \in Vans /\ q.van = v
    \/ d \in Drivers /\ q.driver = d
    \/ s \in Students /\ q.student = s

Ask(r, op, call, v, d, s, a) ==
    /\ ~Busy(r)
    /\ op \in Offered
    /\ SerialAdmins => \A q \in Requests : ~Busy(q)
    /\ SerialRows => \A q \in Requests : Busy(q) => ~Names(req[q], v, d, s)
    /\ req' = [req EXCEPT ![r] =
                 [op |-> op, pc |-> call, van |-> v, driver |-> d, student |-> s,
                  active |-> a, seen |-> None]]
    /\ UNCHANGED tables

\* The id of a new row is a fresh UUID; it is drawn here.
NewVanId(v) ==
    /\ van[v].state = "unborn"
    /\ \A q \in Requests : req[q].op = "createVan" => req[q].van # v
NewDriverId(d) ==
    /\ driver[d].state = "unborn"
    /\ \A q \in Requests : req[q].op = "createDriver" => req[q].driver # d
NewStudentId(s) ==
    /\ student[s].state = "unborn"
    /\ \A q \in Requests : req[q].op = "createStudent" => req[q].student # s

RequestVanOp(r, v) ==
    \/ \E d \in Drivers \cup {None} :
          NewVanId(v) /\ Ask(r, "createVan", "unique", v, d, None, Keep)
    \/ \E d \in Drivers \cup {None}, a \in BOOLEAN \cup {Keep} :
          Ask(r, "updateVan", "findVan", v, d, None, a)
    \/ Ask(r, "removeVan", "findVan", v, None, None, Keep)
    \/ \E d \in Drivers : Ask(r, "assignDriver", "findVan", v, d, None, Keep)
    \/ Ask(r, "unassignDriver", "findVan", v, None, None, Keep)

RequestDriverOp(r, d) ==
    \/ NewDriverId(d) /\ Ask(r, "createDriver", "unique", None, d, None, Keep)
    \/ \E a \in BOOLEAN \cup {Keep} : Ask(r, "updateDriver", "findDriver", None, d, None, a)
    \/ Ask(r, "removeDriver", "findDriver", None, d, None, Keep)

\* updateStudent may leave vanId out or set it to null.
RequestStudentOp(r, s) ==
    \/ \E v \in Vans \cup {None} :
          NewStudentId(s) /\ Ask(r, "createStudent", "unique", v, None, s, Keep)
    \/ \E v \in Vans \cup {None, Keep}, a \in BOOLEAN \cup {Keep} :
          Ask(r, "updateStudent", "findStudent", v, None, s, a)
    \/ Ask(r, "removeStudent", "findStudent", None, None, s, Keep)

-----------------------------------------------------------------------------
(* The queries that come before a write *)

AfterUnique(q) ==
    IF q.op \in {"createVan", "updateVan"} /\ q.driver # None THEN "findDriver"
    ELSE IF q.op = "createStudent" /\ q.van # None THEN "findVan"
    ELSE "write"

\* The plate or the email may be taken, the parent may not be found.
CheckUnique(r) ==
    /\ At(r, "unique")
    /\ Goto(r, AfterUnique(req[r])) \/ Reply(r)
    /\ UNCHANGED tables

\* removeVan, assignDriver, unassignDriver
FindVan(r) ==
    /\ At(r, "findVan") /\ req[r].op \in VanOps \ {"updateVan"}
    /\ LET row == van[req[r].van]
           found == Live(row) /\ (req[r].op = "unassignDriver" => row.driver # None)
       IN  \/ found /\ Goto(r, IF req[r].op = "assignDriver" THEN "findDriver" ELSE "write")
           \/ ~found /\ Reply(r)
    /\ UNCHANGED tables

\* A new plate is checked for uniqueness.
UpdateVanFinds(r) ==
    /\ At(r, "findVan") /\ req[r].op = "updateVan"
    /\ LET row == van[req[r].van]
       IN  \/ Live(row) /\ \E call \in {"unique", AfterUnique(req[r])} :
                              GotoSeen(r, call, row.driver)
           \/ ~Live(row) /\ Reply(r)
    /\ UNCHANGED tables

AdmitsDriverBug(op, row) == Live(row)

\* A driver who is to drive must be active; one to be edited need not be.
AdmitsDriver(op, row) == IF op \in VanOps THEN InService(row) ELSE Live(row)

FindDriver(r) ==
    /\ At(r, "findDriver")
    /\ LET found == AdmitsDriver(req[r].op, driver[req[r].driver])
       IN  \/ found /\ Goto(r, IF req[r].op \in {"assignDriver", "updateVan"}
                                 THEN "findDriverVan" ELSE "write")
           \/ ~found /\ Reply(r)
    /\ UNCHANGED tables

DrivesAnotherBug(d, v) == FALSE

\* The driver is already assigned to another van.
DrivesAnother(d, v) ==
    \E w \in Vans \ {v} : InService(van[w]) /\ van[w].driver = d

FindDriverVan(r) ==
    /\ At(r, "findDriverVan")
    /\ \/ ~DrivesAnother(req[r].driver, req[r].van) /\ Goto(r, "write")
       \/ DrivesAnother(req[r].driver, req[r].van) /\ Reply(r)
    /\ UNCHANGED tables

\* updateStudent looks at the new van only if it is one and differs from the old.
FindStudent(r) ==
    /\ At(r, "findStudent")
    /\ LET row == student[req[r].student]
           moves == req[r].op = "updateStudent" /\ req[r].van \in Vans \ {row.van}
       IN  \/ Live(row) /\ moves /\ GotoSeen(r, "findVan", row.van)
           \/ Live(row) /\ ~moves /\ Goto(r, "write")
           \/ ~Live(row) /\ Reply(r)
    /\ UNCHANGED tables

FindRiderVan(r) ==
    /\ At(r, "findVan") /\ req[r].op \in StudentOps
    /\ LET found == InService(van[req[r].van])
       IN  \/ found /\ Goto(r, IF req[r].op = "updateStudent" THEN "leaveVan" ELSE "write")
           \/ ~found /\ Reply(r)
    /\ UNCHANGED tables

-----------------------------------------------------------------------------
(* VansService writes *)

WriteVan(r, row) ==
    /\ van' = [van EXCEPT ![req[r].van] = row]
    /\ Reply(r)
    /\ UNCHANGED <<driver, student>>

CreateVan(r) ==
    /\ Writes(r, "createVan")
    /\ WriteVan(r, [state |-> "live", active |-> TRUE, driver |-> req[r].driver])

UpdatedVanBug(row, q) ==
    [row EXCEPT !.driver = q.driver,
                !.active = IF q.active = Keep THEN row.active ELSE q.active]

\* driverId ?? existing.driverId: the driver the first query saw is written back.
UpdatedVan(row, q) ==
    [row EXCEPT !.driver = IF q.driver = None THEN q.seen ELSE q.driver,
                !.active = IF q.active = Keep THEN row.active ELSE q.active]

UpdateVan(r) ==
    Writes(r, "updateVan") /\ WriteVan(r, UpdatedVan(van[req[r].van], req[r]))

RemoveVan(r) ==
    /\ Writes(r, "removeVan")
    /\ WriteVan(r, [van[req[r].van] EXCEPT !.state = "deleted", !.active = FALSE])

AssignDriver(r) ==
    /\ Writes(r, "assignDriver")
    /\ WriteVan(r, [van[req[r].van] EXCEPT !.driver = req[r].driver])

UnassignDriver(r) ==
    /\ Writes(r, "unassignDriver")
    /\ WriteVan(r, [van[req[r].van] EXCEPT !.driver = None])

-----------------------------------------------------------------------------
(* DriversService writes *)

WriteDriver(r, row) ==
    /\ driver' = [driver EXCEPT ![req[r].driver] = row]
    /\ UNCHANGED <<van, student>>

CreateDriver(r) ==
    /\ Writes(r, "createDriver")
    /\ WriteDriver(r, [state |-> "live", active |-> TRUE])
    /\ Reply(r)

UpdateDriver(r) ==
    /\ Writes(r, "updateDriver")
    /\ WriteDriver(r, [driver[req[r].driver] EXCEPT
                         !.active = IF req[r].active = Keep THEN @ ELSE req[r].active])
    /\ Reply(r)

RemoveDriver(r) ==
    /\ Writes(r, "removeDriver")
    /\ WriteDriver(r, [driver[req[r].driver] EXCEPT !.state = "deleted", !.active = FALSE])
    /\ Goto(r, "unassignVans")

WithoutDriverBug(row, d) ==
    IF InService(row) /\ row.driver = d THEN [row EXCEPT !.driver = None] ELSE row

WithoutDriver(row, d) == IF row.driver = d THEN [row EXCEPT !.driver = None] ELSE row

UnassignVans(r) ==
    /\ At(r, "unassignVans")
    /\ van' = [v \in Vans |-> WithoutDriver(van[v], req[r].driver)]
    /\ Reply(r)
    /\ UNCHANGED <<driver, student>>

-----------------------------------------------------------------------------
(* StudentsService writes *)

\* Before a student changes vans, all others leave the student's old van.
LeaveVan(r) ==
    /\ At(r, "leaveVan")
    /\ student' = [s \in Students |->
                     IF s # req[r].student /\ student[s].van = req[r].seen
                       THEN [student[s] EXCEPT !.van = None] ELSE student[s]]
    /\ Goto(r, "write")
    /\ UNCHANGED <<van, driver>>

WriteStudent(r, row) ==
    /\ student' = [student EXCEPT ![req[r].student] = row]
    /\ Reply(r)
    /\ UNCHANGED <<van, driver>>

CreateStudent(r) ==
    /\ Writes(r, "createStudent")
    /\ WriteStudent(r, [state |-> "live", active |-> TRUE, van |-> req[r].van])

UpdatedStudentBug(row, q) ==
    [row EXCEPT !.van = q.van,
                !.active = IF q.active = Keep THEN row.active ELSE q.active]

UpdatedStudent(row, q) ==
    [row EXCEPT !.van = IF q.van = Keep THEN row.van ELSE q.van,
                !.active = IF q.active = Keep THEN row.active ELSE q.active]

UpdateStudent(r) ==
    Writes(r, "updateStudent") /\ WriteStudent(r, UpdatedStudent(student[req[r].student], req[r]))

RemovedStudentBug(row) == [row EXCEPT !.state = "deleted", !.active = FALSE]

RemovedStudent(row) == [row EXCEPT !.state = "deleted", !.active = FALSE, !.van = None]

RemoveStudent(r) ==
    Writes(r, "removeStudent") /\ WriteStudent(r, RemovedStudent(student[req[r].student]))

-----------------------------------------------------------------------------
(* Faults, and the whole *)

\* The awaited call rejects without effect; no handler catches it.
CallFails(r) ==
    /\ MayFail /\ Busy(r)
    /\ Reply(r)
    /\ UNCHANGED tables

\* The process dies with every request it was serving.
Crash ==
    /\ MayFail /\ \E r \in Requests : Busy(r)
    /\ req' = [r \in Requests |-> Idle]
    /\ UNCHANGED tables

Arrive(r) ==
    \/ \E v \in Vans : RequestVanOp(r, v)
    \/ \E d \in Drivers : RequestDriverOp(r, d)
    \/ \E s \in Students : RequestStudentOp(r, s)

\* The next await of r resolves.
Step(r) ==
    \/ CheckUnique(r) \/ FindVan(r) \/ UpdateVanFinds(r) \/ FindDriver(r)
    \/ FindDriverVan(r) \/ FindStudent(r) \/ FindRiderVan(r)
    \/ CreateVan(r) \/ UpdateVan(r) \/ RemoveVan(r) \/ AssignDriver(r) \/ UnassignDriver(r)
    \/ CreateDriver(r) \/ UpdateDriver(r) \/ RemoveDriver(r) \/ UnassignVans(r)
    \/ LeaveVan(r) \/ CreateStudent(r) \/ UpdateStudent(r) \/ RemoveStudent(r)

Next == (\E r \in Requests : Arrive(r) \/ Step(r) \/ CallFails(r)) \/ Crash

Spec == Init /\ [][Next]_vars

-----------------------------------------------------------------------------
(* Safety *)

\* Every row and every request has its type.
TypeOK ==
    /\ van \in [Vans -> VanRow]
    /\ driver \in [Drivers -> DriverRow]
    /\ student \in [Students -> StudentRow]
    /\ req \in [Requests -> Request]

VansOf(d) == {v \in Vans : InService(van[v]) /\ van[v].driver = d}

\* When drivers are given vans by assignDriver only, a driver has no more vans in service
\* than there can be calls at one time, whichever calls overlap or fail: those that found
\* him free are all that can still give him one.
VansOnlyOverlap == \A d \in Drivers : Cardinality(VansOf(d)) <= Cardinality(Requests)

BeingRemoved(d) ==
    \E r \in Requests : req[r].driver = d /\ At(r, "unassignVans")

\* When administrators wait and nothing fails, a deleted driver drives no van, in
\* service or not, once the handler that deletes has finished.  Waiting for calls on the
\* same row is enough, but for updateVan, which writes back a driver it does not name.
DeletedDriverDrivesNothing ==
    \A v \in Vans, d \in Drivers :
        van[v].driver = d /\ driver[d].state = "deleted" => BeingRemoved(d)

DeletedInactive(table) == \A id \in DOMAIN table : table[id].state = "deleted" => ~table[id].active

\* When administrators of the same row wait, a deleted student is on no van and no deleted
\* row is active, although an update writes both columns without looking at deletedAt.
DeletedIsGone ==
    /\ \A s \in Students : student[s].state = "deleted" => student[s].van = None
    /\ DeletedInactive(van) /\ DeletedInactive(driver) /\ DeletedInactive(student)

\* When administrators wait, a driver given to a van is in service in that moment,
\* and so is the van a student is put on: what the queries checked still holds.
AssignsInService ==
    [][/\ \A v \in Vans : van'[v].driver \notin {None, van[v].driver}
                             => InService(driver[van'[v].driver])
       /\ \A s \in Students : student'[s].van \notin {None, student[s].van}
                             => InService(van[student'[s].van])]_vars

\* When administrators of the same row wait, an update that names no driver and yet
\* changes the van's driver, since it writes back the one it read (vans.service.ts:315),
\* undoes the deletion of that driver and nothing else: it puts a deleted driver on a
\* van that the deletion had cleared, and never takes a driver off or swaps one.
UpdateUndoesDeletionOnly ==
    [][\A r \in Requests :
          LET v == req[r].van IN
          UpdateVan(r) /\ req[r].driver = None /\ van'[v].driver # van[v].driver =>
             van[v].driver = None /\ driver[van'[v].driver].state = "deleted"]_vars
=============================================================================
