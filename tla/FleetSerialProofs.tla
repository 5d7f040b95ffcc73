--------------------------- MODULE FleetSerialProofs ---------------------------
(***************************************************************************)
(* Theorems about Fleet for administrators who wait: those who work on the *)
(* same van, driver or student (SerialRows), or all of them (SerialAdmins). *)
(* Either way two calls in flight name different rows (Apart), and what a  *)
(* query saw of the rows that its call names stays true (RowSeen).  What it *)
(* saw of another row, the driver or the van that is written back, is safe *)
(* only when one call at a time is in flight (WholeSeen).  One theorem is   *)
(* for administrators who do not wait at all: FewClaims.                   *)
(***************************************************************************)
EXTENDS FleetProofs, FiniteSetTheorems

\* Which handlers make which query.
AsksFor(q) ==
    /\ q.pc = "unique" => q.op \in {"createVan", "updateVan", "createDriver", "createStudent"}
    /\ q.pc = "findVan" => q.op \in (VanOps \ {"createVan"}) \cup {"createStudent", "updateStudent"}
    /\ q.pc = "findDriver" => q.op \in {"createVan", "updateVan", "assignDriver",
                                        "updateDriver", "removeDriver"}
    /\ q.pc = "findStudent" => q.op \in {"updateStudent", "removeStudent"}

\* What a request knows of the rows it names.
RowSeen(q) ==
    /\ AsksFor(q)
    /\ q.op \in VanOps \ {"createVan"} /\ q.pc \notin {"idle", "findVan"} => Live(van[q.van])
    /\ q.op \in {"createVan", "updateVan", "assignDriver"} /\ q.driver # None
          /\ q.pc \in {"findDriverVan", "write"} => InService(driver[q.driver])
    /\ q.op \in DriverOps \ {"createDriver"} /\ q.pc = "write" => Live(driver[q.driver])
    /\ q.op \in StudentOps \ {"createStudent"} /\ q.pc \notin {"idle", "findStudent"}
          => Live(student[q.student])
    /\ q.op = "createStudent" /\ q.pc = "write" /\ q.van \in Vans => InService(van[q.van])

\* What it knows of the rows its own row points to.
WholeSeen(q) ==
    /\ q.op = "updateVan" /\ q.pc \notin {"idle", "findVan"} => q.seen = van[q.van].driver
    /\ q.op = "updateStudent" /\ q.pc \in {"leaveVan", "write"} /\ q.van \in Vans
          => InService(van[q.van]) \/ q.van = student[q.student].van

Apart ==
    \A r, p \in Requests :
        Busy(r) /\ Busy(p) /\ r # p => ~Names(req[r], req[p].van, req[p].driver, req[p].student)

Serial == \A r, p \in Requests : Busy(r) /\ Busy(p) => r = p

RowInv == Apart /\ \A r \in Requests : RowSeen(req[r])

SerialInv == Serial /\ \A r \in Requests : WholeSeen(req[r])

-----------------------------------------------------------------------------
(* What requests hold *)

LEMMA StepMovesOne ==
    ASSUME TypeInv, NEW r \in Requests, Step(r) \/ CallFails(r)
    PROVE  /\ Busy(r) /\ \A p \in Requests \ {r} : req'[p] = req[p]
           /\ req'[r].pc = "idle" \/ req'[r].op = req[r].op
<1>1. Busy(r)
  BY DEF Step, CallFails, Busy, At, Writes, CheckUnique, FindVan, UpdateVanFinds, FindDriver,
         FindDriverVan, FindStudent, FindRiderVan, CreateVan, UpdateVan, RemoveVan, AssignDriver,
         UnassignDriver, CreateDriver, UpdateDriver, RemoveDriver, UnassignVans, LeaveVan,
         CreateStudent, UpdateStudent, RemoveStudent
<1>2. \/ Reply(r)
      \/ \E call : Goto(r, call)
      \/ \E call, value : GotoSeen(r, call, value)
  <2>1. CASE CheckUnique(r) \/ FindVan(r) \/ UpdateVanFinds(r) \/ FindDriver(r)
    BY <2>1 DEF CheckUnique, FindVan, UpdateVanFinds, FindDriver
  <2>2. CASE FindDriverVan(r) \/ FindStudent(r) \/ FindRiderVan(r) \/ CallFails(r)
    BY <2>2 DEF FindDriverVan, FindStudent, FindRiderVan, CallFails
  <2>3. CASE Write(r)
    BY <2>3 DEF Write, WriteVan, WriteStudent, CreateVan, UpdateVan, RemoveVan, AssignDriver,
         UnassignDriver, CreateDriver, UpdateDriver, RemoveDriver, UnassignVans, LeaveVan,
         CreateStudent, UpdateStudent, RemoveStudent
  <2> QED
    BY <2>1, <2>2, <2>3 DEF Step, Write
<1>3. \A p \in Requests \ {r} : req'[p] = req[p]
  BY <1>2 DEF Reply, Goto, GotoSeen, TypeInv, TypeOK
<1>4. req'[r].pc = "idle" \/ req'[r].op = req[r].op
  <2>1. req[r] \in Request
    BY DEF TypeInv, TypeOK
  <2>2. CASE Reply(r)
    BY <2>2 DEF Reply, Idle, TypeInv, TypeOK
  <2>3. ASSUME NEW call, Goto(r, call) PROVE req'[r].op = req[r].op
    BY <2>1, <2>3 DEF Goto, TypeInv, TypeOK, Request
  <2>4. ASSUME NEW call, NEW value, GotoSeen(r, call, value) PROVE req'[r].op = req[r].op
    BY <2>1, <2>4 DEF GotoSeen, TypeInv, TypeOK, Request
  <2> QED
    BY <1>2, <2>2, <2>3, <2>4
<1> QED
  BY <1>1, <1>3, <1>4

LEMMA ArriveAsks ==
    ASSUME NEW r \in Requests, Arrive(r)
    PROVE  \E op, call, v, d, s, a :
              /\ Ask(r, op, call, v, d, s, a)
              /\ \/ call = "unique" /\ op \in {"createVan", "createDriver", "createStudent"}
                 \/ call = "findVan" /\ op \in VanOps \ {"createVan"}
                 \/ call = "findDriver" /\ op \in DriverOps \ {"createDriver"}
                 \/ call = "findStudent" /\ op \in StudentOps \ {"createStudent"}
<1> USE DEF VanOps, DriverOps, StudentOps
<1>1. ASSUME NEW v \in Vans, RequestVanOp(r, v)
      PROVE  \E op, call, d, a :
                /\ Ask(r, op, call, v, d, None, a)
                /\ \/ call = "unique" /\ op = "createVan"
                   \/ call = "findVan" /\ op \in VanOps \ {"createVan"}
  BY <1>1 DEF RequestVanOp
<1>2. ASSUME NEW d \in Drivers, RequestDriverOp(r, d)
      PROVE  \E op, call, a :
                /\ Ask(r, op, call, None, d, None, a)
                /\ \/ call = "unique" /\ op = "createDriver"
                   \/ call = "findDriver" /\ op \in DriverOps \ {"createDriver"}
  BY <1>2 DEF RequestDriverOp
<1>3. ASSUME NEW s \in Students, RequestStudentOp(r, s)
      PROVE  \E op, call, v, a :
                /\ Ask(r, op, call, v, None, s, a)
                /\ \/ call = "unique" /\ op = "createStudent"
                   \/ call = "findStudent" /\ op \in StudentOps \ {"createStudent"}
  BY <1>3 DEF RequestStudentOp
<1>4. CASE \E v \in Vans : RequestVanOp(r, v)
  BY <1>1, <1>4
<1>5. CASE \E d \in Drivers : RequestDriverOp(r, d)
  BY <1>2, <1>5
<1>6. CASE \E s \in Students : RequestStudentOp(r, s)
  BY <1>3, <1>6
<1> QED
  BY <1>4, <1>5, <1>6 DEF Arrive

\* What a request holds after it goes on to another call.
LEMMA GotoHolds ==
    ASSUME TypeInv, NEW r \in Requests, NEW call, Goto(r, call)
    PROVE  /\ req'[r].pc = call
           /\ req'[r].op = req[r].op /\ req'[r].van = req[r].van
           /\ req'[r].driver = req[r].driver /\ req'[r].student = req[r].student
           /\ req'[r].active = req[r].active /\ req'[r].seen = req[r].seen
BY DEF Goto, TypeInv, TypeOK, Request

LEMMA GotoSeenHolds ==
    ASSUME TypeInv, NEW r \in Requests, NEW call, NEW value, GotoSeen(r, call, value)
    PROVE  /\ req'[r].pc = call /\ req'[r].seen = value
           /\ req'[r].op = req[r].op /\ req'[r].van = req[r].van
           /\ req'[r].driver = req[r].driver /\ req'[r].student = req[r].student
           /\ req'[r].active = req[r].active
BY DEF GotoSeen, TypeInv, TypeOK, Request

-----------------------------------------------------------------------------
(* Calls that name different rows *)

\* One request is answered: the others stay apart.
LEMMA ReplyRows ==
    ASSUME TypeInv, NEW r \in Requests, Reply(r), Apart,
           \A p \in Requests \ {r} : RowSeen(req[p])'
    PROVE  RowInv'
<1>1. req'[r].pc = "idle" /\ \A p \in Requests \ {r} : req'[p] = req[p]
  BY DEF Reply, Idle, TypeInv, TypeOK
<1>2. RowSeen(req[r])'
  BY <1>1 DEF RowSeen, AsksFor
<1> QED
  BY <1>1, <1>2 DEF RowInv, Apart, Busy

\* One request goes on to another call, for the same rows.
LEMMA MoveRows ==
    ASSUME NEW r \in Requests, Busy(r), Apart,
           \A p \in Requests \ {r} : req'[p] = req[p],
           req'[r].van = req[r].van, req'[r].driver = req[r].driver,
           req'[r].student = req[r].student,
           \A p \in Requests : RowSeen(req[p])'
    PROVE  RowInv'
<1>1. \A p \in Requests : /\ req'[p].van = req[p].van /\ req'[p].driver = req[p].driver
                          /\ req'[p].student = req[p].student
                          /\ Busy(p)' => Busy(p)
  BY DEF Busy
<1>2. Apart'
  BY <1>1 DEF Apart, Names
<1> QED
  BY <1>2 DEF RowInv

LEMMA ArriveRows ==
    ASSUME SerialAdmins \/ SerialRows, TypeInv, RowInv, NEW r \in Requests, Arrive(r)
    PROVE  RowInv'
<1>1. PICK op, call, v, d, s, a :
              /\ Ask(r, op, call, v, d, s, a)
              /\ \/ call = "unique" /\ op \in {"createVan", "createDriver", "createStudent"}
                 \/ call = "findVan" /\ op \in VanOps \ {"createVan"}
                 \/ call = "findDriver" /\ op \in DriverOps \ {"createDriver"}
                 \/ call = "findStudent" /\ op \in StudentOps \ {"createStudent"}
  BY ArriveAsks
<1>2. /\ req'[r].op = op /\ req'[r].pc = call
      /\ req'[r].van = v /\ req'[r].driver = d /\ req'[r].student = s
      /\ \A p \in Requests \ {r} : req'[p] = req[p]
      /\ UNCHANGED <<van, driver, student>>
  BY <1>1 DEF Ask, TypeInv, TypeOK, tables
<1>3. RowSeen(req[r])'
  BY <1>1, <1>2 DEF RowSeen, AsksFor, VanOps, DriverOps, StudentOps
<1>4. \A p \in Requests \ {r} : RowSeen(req[p])'
  BY <1>2 DEF RowInv, RowSeen, AsksFor, Live, InService
<1>5. \A p \in Requests \ {r} : Busy(p) => ~Names(req[p], v, d, s)
  BY <1>1 DEF Ask
<1>6. Apart'
  BY <1>2, <1>5 DEF RowInv, Apart, Busy, Names
<1> QED
  BY <1>3, <1>4, <1>6 DEF RowInv

LEMMA QueryRows ==
    ASSUME TypeInv, RowInv, NEW r \in Requests,
           \/ CheckUnique(r) \/ FindVan(r) \/ UpdateVanFinds(r) \/ FindDriver(r)
           \/ FindDriverVan(r) \/ FindStudent(r) \/ FindRiderVan(r) \/ CallFails(r)
    PROVE  RowInv'
<1>0. req[r] \in Request /\ Carries(req[r]) /\ RowSeen(req[r])
  BY DEF TypeInv, TypeOK, RowInv
<1>1. Busy(r) /\ \A p \in Requests \ {r} : req'[p] = req[p]
  BY StepMovesOne DEF Step
<1>4. UNCHANGED tables
  BY DEF CheckUnique, FindVan, UpdateVanFinds, FindDriver, FindDriverVan, FindStudent,
         FindRiderVan, CallFails
<1>a. \A p \in Requests \ {r} : RowSeen(req[p])'
  BY <1>1, <1>4 DEF RowInv, RowSeen, AsksFor, Live, InService, tables
<1>2. ASSUME Reply(r) PROVE RowInv'
  BY <1>a, <1>2, ReplyRows DEF RowInv
<1>3. ASSUME (\E call : Goto(r, call)) \/ (\E call, value : GotoSeen(r, call, value)),
             RowSeen(req[r])'
      PROVE  RowInv'
  <2>1. /\ req'[r].van = req[r].van /\ req'[r].driver = req[r].driver
        /\ req'[r].student = req[r].student
    BY <1>3, GotoHolds, GotoSeenHolds
  <2> QED
    BY <1>1, <1>a, <1>3, <2>1, MoveRows DEF RowInv
<1>5. CASE CheckUnique(r)
  <2>1. ASSUME Goto(r, AfterUnique(req[r])) PROVE RowSeen(req[r])'
    BY <1>0, <1>4, <1>5, <2>1, GotoHolds, FleetAssumption
       DEF CheckUnique, AfterUnique, At, RowSeen, AsksFor, Carries, InService,
           Live, tables,
           VanOps, DriverOps, StudentOps
  <2> QED
    BY <1>2, <1>3, <1>5, <2>1 DEF CheckUnique
<1>6. CASE FindVan(r)
  <2>1. ASSUME NEW call \in {"findDriver", "write"}, Goto(r, call), Live(van[req[r].van]),
               call = "findDriver" <=> req[r].op = "assignDriver"
        PROVE  RowSeen(req[r])'
    BY <1>0, <1>4, <1>6, <2>1, GotoHolds
       DEF FindVan, At, RowSeen, AsksFor, InService, Live, tables,
           VanOps, DriverOps, StudentOps
  <2> QED
    BY <1>2, <1>3, <1>6, <2>1 DEF FindVan
<1>7. CASE UpdateVanFinds(r)
  <2>1. ASSUME NEW call \in {"unique", AfterUnique(req[r])}, Live(van[req[r].van]),
               GotoSeen(r, call, van[req[r].van].driver)
        PROVE  RowSeen(req[r])'
    BY <1>0, <1>4, <1>7, <2>1, GotoSeenHolds
       DEF UpdateVanFinds, AfterUnique, At, RowSeen, AsksFor, Live, tables,
           VanOps, DriverOps, StudentOps
  <2> QED
    BY <1>2, <1>3, <1>7, <2>1 DEF UpdateVanFinds
<1>8. CASE FindDriver(r)
  <2>1. ASSUME NEW call \in {"findDriverVan", "write"}, Goto(r, call),
               AdmitsDriver(req[r].op, driver[req[r].driver]),
               call = "findDriverVan" <=> req[r].op \in {"assignDriver", "updateVan"}
        PROVE  RowSeen(req[r])'
    BY <1>0, <1>4, <1>8, <2>1, GotoHolds
       DEF FindDriver, AdmitsDriver, At, RowSeen, AsksFor, Carries, InService, Live,
           tables, VanOps, DriverOps, StudentOps
  <2> QED
    BY <1>2, <1>3, <1>8, <2>1 DEF FindDriver
<1>9. CASE FindDriverVan(r)
  <2>1. ASSUME Goto(r, "write"), ~DrivesAnother(req[r].driver, req[r].van)
        PROVE  RowSeen(req[r])'
    BY <1>0, <1>4, <1>9, <2>1, GotoHolds
       DEF FindDriverVan, At, RowSeen, AsksFor, Carries, InService, Live,
           tables, VanOps, DriverOps, StudentOps
  <2> QED
    BY <1>2, <1>3, <1>9, <2>1 DEF FindDriverVan
<1>10. CASE FindStudent(r)
  <2>1. ASSUME Goto(r, "write"), Live(student[req[r].student]),
               ~(/\ req[r].op = "updateStudent"
                 /\ req[r].van \in Vans \ {student[req[r].student].van})
        PROVE  RowSeen(req[r])'
    BY <1>0, <1>4, <1>10, <2>1, GotoHolds, SMTT(30)
       DEF FindStudent, At, RowSeen, AsksFor, Carries, InService, Live, tables,
           VanOps, DriverOps, StudentOps
  <2>2. ASSUME GotoSeen(r, "findVan", student[req[r].student].van), Live(student[req[r].student]),
               req[r].op = "updateStudent"
        PROVE  RowSeen(req[r])'
    BY <1>4, <2>2, GotoSeenHolds DEF RowSeen, AsksFor, Live, tables,
           VanOps, DriverOps, StudentOps
  <2> QED
    BY <1>2, <1>3, <1>10, <2>1, <2>2 DEF FindStudent
<1>11. CASE FindRiderVan(r)
  <2>1. ASSUME NEW call \in {"leaveVan", "write"}, Goto(r, call), InService(van[req[r].van])
        PROVE  RowSeen(req[r])'
    BY <1>0, <1>4, <1>11, <2>1, GotoHolds
       DEF FindRiderVan, At, RowSeen, AsksFor, InService, Live, tables,
           VanOps, DriverOps, StudentOps
  <2> QED
    BY <1>2, <1>3, <1>11, <2>1 DEF FindRiderVan
<1>12. CASE CallFails(r)
  BY <1>2, <1>12 DEF CallFails
<1> QED
  BY <1>5, <1>6, <1>7, <1>8, <1>9, <1>10, <1>11, <1>12

\* A write changes the rows its call names: of the others, a van may lose its driver and a
\* student the van.
LEMMA WritesOwnRows ==
    ASSUME TypeInv, NEW r \in Requests, Write(r)
    PROVE  /\ \A v \in Vans : v # req[r].van =>
                 van'[v].state = van[v].state /\ van'[v].active = van[v].active
           /\ \A d \in Drivers : d # req[r].driver => driver'[d] = driver[d]
           /\ \A s \in Students : s # req[r].student =>
                 student'[s].state = student[s].state /\ student'[s].active = student[s].active
<1>1. CASE \E row : WriteVan(r, row)
  BY <1>1 DEF WriteVan, TypeInv, TypeOK
<1>2. CASE \E row : WriteDriver(r, row)
  BY <1>2 DEF WriteDriver, TypeInv, TypeOK
<1>3. CASE \E row : WriteStudent(r, row)
  BY <1>3 DEF WriteStudent, TypeInv, TypeOK
<1>4. CASE UnassignVans(r)
  <2>1. \A v \in Vans : van[v] \in VanRow
    BY DEF TypeInv, TypeOK
  <2> QED
    BY <1>4, <2>1 DEF UnassignVans, WithoutDriver, VanRow
<1>5. CASE LeaveVan(r)
  <2>1. \A s \in Students : student[s] \in StudentRow
    BY DEF TypeInv, TypeOK
  <2> QED
    BY <1>5, <2>1 DEF LeaveVan, StudentRow
<1> QED
  BY <1>1, <1>2, <1>3, <1>4, <1>5
     DEF Write, CreateVan, UpdateVan, RemoveVan, AssignDriver, UnassignDriver, CreateDriver,
         UpdateDriver, RemoveDriver, CreateStudent, UpdateStudent, RemoveStudent

\* So what the other calls know stays true.
LEMMA OthersSeen ==
    ASSUME TypeInv, RowInv, NEW r \in Requests, Write(r), Busy(r),
           NEW p \in Requests \ {r}, req'[p] = req[p]
    PROVE  RowSeen(req[p])'
<1>0. PICK q : q = req[p]
  OBVIOUS
<1>1. q \in Request /\ Carries(q) /\ RowSeen(q)
  BY <1>0 DEF TypeInv, TypeOK, RowInv
<1>2. CASE q.pc = "idle"
  BY <1>0, <1>2 DEF RowSeen, AsksFor
<1>3. CASE q.pc # "idle"
  <2>1. ~Names(req[r], q.van, q.driver, q.student)
    BY <1>0, <1>3 DEF RowInv, Apart, Busy
  <2>2. q.van \in Vans => /\ (Live(van[q.van]))' <=> Live(van[q.van])
                          /\ (InService(van[q.van]))' <=> InService(van[q.van])
    BY <2>1, WritesOwnRows DEF Names, Live, InService
  <2>3. q.driver \in Drivers => driver'[q.driver] = driver[q.driver]
    BY <2>1, WritesOwnRows DEF Names
  <2>4. q.student \in Students => student'[q.student].state = student[q.student].state
    BY <2>1, WritesOwnRows DEF Names
  <2>5. /\ q.driver \in Drivers \cup {None}
        /\ q.op \in VanOps => q.van \in Vans
        /\ q.op \in DriverOps => q.driver \in Drivers
        /\ q.op \in StudentOps => q.student \in Students
    BY <1>1 DEF Request, Carries
  <2> HIDE DEF Names
  <2>6. RowSeen(q)'
    BY <1>1, <2>2, <2>3, <2>4, <2>5 DEF RowSeen, Live, InService
  <2> QED
    BY <1>0, <2>6
<1> QED
  BY <1>2, <1>3

LEMMA WriteRows ==
    ASSUME TypeInv, RowInv, NEW r \in Requests, Write(r)
    PROVE  RowInv'
<1>0. req[r] \in Request /\ Carries(req[r]) /\ RowSeen(req[r])
  BY DEF TypeInv, TypeOK, RowInv
<1>1. Busy(r) /\ \A p \in Requests \ {r} : req'[p] = req[p]
  BY StepMovesOne DEF Step, Write
<1>2. \A p \in Requests \ {r} : RowSeen(req[p])'
  BY <1>1, OthersSeen
<1>3. CASE Reply(r)
  BY <1>2, <1>3, ReplyRows DEF RowInv
<1>4. ASSUME NEW call, Goto(r, call), RowSeen(req[r])' PROVE RowInv'
  <2>1. /\ req'[r].van = req[r].van /\ req'[r].driver = req[r].driver
        /\ req'[r].student = req[r].student
    BY <1>4, GotoHolds
  <2> QED
    BY <1>1, <1>2, <1>4, <2>1, MoveRows DEF RowInv
<1>5. CASE RemoveDriver(r)
  <2>1. req'[r].op = "removeDriver" /\ req'[r].pc = "unassignVans"
    BY <1>5, GotoHolds DEF RemoveDriver, Writes
  <2>2. RowSeen(req[r])'
    BY <2>1 DEF RowSeen, AsksFor, VanOps, StudentOps
  <2> QED
    BY <1>4, <1>5, <2>2 DEF RemoveDriver
<1>6. CASE LeaveVan(r)
  <2>1. Goto(r, "write") /\ UNCHANGED <<van, driver>> /\ At(r, "leaveVan")
    BY <1>6 DEF LeaveVan
  <2>2. req[r].op = "updateStudent" /\ req[r].student \in Students
    BY <1>0, <2>1 DEF At, Carries, StudentOps
  <2>3. student'[req[r].student] = student[req[r].student]
    BY <1>6, <2>2 DEF LeaveVan
  <2>4. RowSeen(req[r])'
    BY <1>0, <2>1, <2>2, <2>3, GotoHolds
       DEF RowSeen, AsksFor, At, InService, Live, VanOps, DriverOps, StudentOps
  <2> QED
    BY <1>4, <2>1, <2>4
<1> QED
  BY <1>3, <1>5, <1>6
     DEF Write, WriteVan, WriteStudent, CreateVan, UpdateVan, RemoveVan, AssignDriver,
         UnassignDriver, CreateDriver, UpdateDriver, UnassignVans, CreateStudent, UpdateStudent,
         RemoveStudent

\* When administrators of the same row wait, what a call saw of the rows it names stays
\* true until it writes.
THEOREM RowsStayTrue == ASSUME SerialAdmins \/ SerialRows PROVE Spec => [](TypeInv /\ RowInv)
<1>1. Init => RowInv
  BY DEF Init, Idle, RowInv, Apart, RowSeen, AsksFor, Busy
<1>2. TypeInv /\ RowInv /\ [Next]_vars => RowInv'
  <2> SUFFICES ASSUME TypeInv, RowInv, [Next]_vars PROVE RowInv'
    OBVIOUS
  <2>1. ASSUME NEW r \in Requests, Arrive(r) \/ Step(r) \/ CallFails(r) PROVE RowInv'
    BY <2>1, ArriveRows, QueryRows, WriteRows DEF Step, Write
  <2>2. CASE Crash
    BY <2>2 DEF Crash, Idle, RowInv, Apart, RowSeen, AsksFor, Busy
  <2>3. CASE UNCHANGED vars
    BY <2>3 DEF vars, RowInv, Apart, Busy, RowSeen, AsksFor, InService, Live
  <2> QED
    BY <2>1, <2>2, <2>3 DEF Next
<1> QED
  BY <1>1, <1>2, TypeCorrect, PTL DEF Spec

-----------------------------------------------------------------------------
(* One call at a time *)

\* When the one request in flight is answered, nothing remains to be known.
LEMMA ReplySerial ==
    ASSUME TypeInv, Serial, NEW r \in Requests, Busy(r), Reply(r)
    PROVE  SerialInv'
<1>1. \A p \in Requests : req'[p].pc = "idle"
  BY DEF Reply, Idle, Serial, Busy, TypeInv, TypeOK
<1> QED
  BY <1>1 DEF SerialInv, Serial, WholeSeen, Busy

\* The one request in flight moves on, having seen what it relies on from here.
LEMMA MoveSerial ==
    ASSUME Serial, NEW r \in Requests, Busy(r) \/ \A p \in Requests : ~Busy(p),
           \A p \in Requests \ {r} : req'[p] = req[p],
           WholeSeen(req[r])'
    PROVE  SerialInv'
<1>1. \A p \in Requests \ {r} : req'[p].pc = "idle"
  BY DEF Serial, Busy
<1> QED
  BY <1>1 DEF SerialInv, Serial, WholeSeen, Busy

LEMMA ArriveSerial ==
    ASSUME SerialAdmins, TypeInv, SerialInv, NEW r \in Requests, Arrive(r)
    PROVE  SerialInv'
<1>1. PICK op, call, v, d, s, a :
              /\ Ask(r, op, call, v, d, s, a)
              /\ \/ call = "unique" /\ op \in {"createVan", "createDriver", "createStudent"}
                 \/ call = "findVan" /\ op \in VanOps \ {"createVan"}
                 \/ call = "findDriver" /\ op \in DriverOps \ {"createDriver"}
                 \/ call = "findStudent" /\ op \in StudentOps \ {"createStudent"}
  BY ArriveAsks
<1>2. /\ req'[r].op = op /\ req'[r].pc = call
      /\ \A p \in Requests \ {r} : req'[p] = req[p]
      /\ \A p \in Requests : ~Busy(p)
  BY <1>1 DEF Ask, TypeInv, TypeOK
<1>3. WholeSeen(req[r])'
  BY <1>1, <1>2 DEF WholeSeen, VanOps, DriverOps, StudentOps
<1> QED
  BY <1>2, <1>3, MoveSerial DEF SerialInv

LEMMA QuerySerial ==
    ASSUME TypeInv, RowInv, SerialInv, NEW r \in Requests,
           \/ CheckUnique(r) \/ FindVan(r) \/ UpdateVanFinds(r) \/ FindDriver(r)
           \/ FindDriverVan(r) \/ FindStudent(r) \/ FindRiderVan(r) \/ CallFails(r)
    PROVE  SerialInv'
<1>0. req[r] \in Request /\ AsksFor(req[r]) /\ Carries(req[r]) /\ WholeSeen(req[r])
  BY DEF TypeInv, TypeOK, RowInv, RowSeen, SerialInv
<1>1. Busy(r) /\ \A p \in Requests \ {r} : req'[p] = req[p]
  BY StepMovesOne DEF Step
<1>2. ASSUME Reply(r) PROVE SerialInv'
  BY <1>1, <1>2, ReplySerial DEF SerialInv
<1>3. ASSUME WholeSeen(req[r])' PROVE SerialInv'
  BY <1>1, <1>3, MoveSerial DEF SerialInv
<1>4. UNCHANGED <<van, driver, student>>
  BY DEF CheckUnique, FindVan, UpdateVanFinds, FindDriver, FindDriverVan, FindStudent,
         FindRiderVan, CallFails, tables
<1>5. ASSUME CheckUnique(r) \/ FindVan(r) \/ FindDriver(r) \/ FindDriverVan(r),
             NEW call, Goto(r, call)
      PROVE  WholeSeen(req[r])'
  <2>1. req[r].pc # "findVan" \/ req[r].op # "updateVan"
    BY <1>5 DEF CheckUnique, FindVan, FindDriver, FindDriverVan, At
  <2>2. req[r].op # "updateStudent" /\ req[r].pc # "idle"
    BY <1>0, <1>5 DEF CheckUnique, FindVan, FindDriver, FindDriverVan, At, AsksFor, Carries, VanOps
  <2> QED
    BY <1>0, <1>4, <1>5, <2>1, <2>2, GotoHolds DEF WholeSeen
<1>6. ASSUME UpdateVanFinds(r), NEW call, GotoSeen(r, call, van[req[r].van].driver)
      PROVE  WholeSeen(req[r])'
  BY <1>4, <1>6, GotoSeenHolds DEF UpdateVanFinds, WholeSeen
<1>7. CASE FindStudent(r)
  <2>0. req[r].op # "updateVan"
    BY <1>0, <1>7 DEF FindStudent, At, AsksFor
  <2>1. ASSUME Goto(r, "write"), ~(/\ req[r].op = "updateStudent"
                                   /\ req[r].van \in Vans \ {student[req[r].student].van})
        PROVE  WholeSeen(req[r])'
    BY <1>4, <2>0, <2>1, GotoHolds DEF WholeSeen
  <2>2. ASSUME GotoSeen(r, "findVan", student[req[r].student].van) PROVE WholeSeen(req[r])'
    BY <2>0, <2>2, GotoSeenHolds DEF WholeSeen
  <2> QED
    BY <1>2, <1>3, <1>7, <2>1, <2>2 DEF FindStudent
<1>8. CASE FindRiderVan(r)
  <2>1. ASSUME NEW call, Goto(r, call), InService(van[req[r].van]) PROVE WholeSeen(req[r])'
    BY <1>4, <1>8, <2>1, GotoHolds DEF FindRiderVan, WholeSeen, InService, Live, StudentOps
  <2> QED
    BY <1>2, <1>3, <1>8, <2>1 DEF FindRiderVan
<1>9. CASE CallFails(r)
  BY <1>2, <1>9 DEF CallFails
<1> QED
  BY <1>2, <1>3, <1>5, <1>6, <1>7, <1>8, <1>9
     DEF CheckUnique, FindVan, UpdateVanFinds, FindDriver, FindDriverVan

LEMMA WriteSerial ==
    ASSUME TypeInv, SerialInv, NEW r \in Requests, Write(r)
    PROVE  SerialInv'
<1>0. req[r] \in Request /\ Carries(req[r]) /\ WholeSeen(req[r])
  BY DEF TypeInv, TypeOK, SerialInv
<1>1. Busy(r) /\ \A p \in Requests \ {r} : req'[p] = req[p]
  BY StepMovesOne DEF Step, Write
<1>2. CASE Reply(r)
  BY <1>1, <1>2, ReplySerial DEF SerialInv
<1>3. CASE RemoveDriver(r)
  <2>1. WholeSeen(req[r])'
    BY <1>3, GotoHolds DEF RemoveDriver, Writes, WholeSeen
  <2> QED
    BY <1>1, <2>1, MoveSerial DEF SerialInv
<1>4. CASE LeaveVan(r)
  <2>1. Goto(r, "write") /\ UNCHANGED <<van, driver>> /\ At(r, "leaveVan")
    BY <1>4 DEF LeaveVan
  <2>2. req[r].op = "updateStudent" /\ req[r].student \in Students
    BY <1>0, <2>1 DEF At, Carries, StudentOps
  <2>3. student'[req[r].student] = student[req[r].student]
    BY <1>4, <2>2 DEF LeaveVan
  <2>4. WholeSeen(req[r])'
    BY <1>0, <2>1, <2>2, <2>3, GotoHolds DEF WholeSeen, At, InService, Live
  <2> QED
    BY <1>1, <2>4, MoveSerial DEF SerialInv
<1> QED
  BY <1>2, <1>3, <1>4
     DEF Write, WriteVan, WriteStudent, CreateVan, UpdateVan, RemoveVan, AssignDriver,
         UnassignDriver, CreateDriver, UpdateDriver, UnassignVans, CreateStudent, UpdateStudent,
         RemoveStudent

\* When all administrators wait, one request at a time is in flight, and all that its
\* queries saw is still so.
THEOREM QueriesStayTrue ==
    ASSUME SerialAdmins PROVE Spec => [](TypeInv /\ RowInv /\ SerialInv)
<1>1. Init => SerialInv
  BY DEF Init, Idle, SerialInv, Serial, WholeSeen, Busy
<1>2. TypeInv /\ RowInv /\ SerialInv /\ [Next]_vars => SerialInv'
  <2> SUFFICES ASSUME TypeInv, RowInv, SerialInv, [Next]_vars PROVE SerialInv'
    OBVIOUS
  <2>1. ASSUME NEW r \in Requests, Arrive(r) \/ Step(r) \/ CallFails(r) PROVE SerialInv'
    BY <2>1, ArriveSerial, QuerySerial, WriteSerial DEF Step, Write
  <2>2. CASE Crash
    BY <2>2 DEF Crash, Idle, SerialInv, Serial, WholeSeen, Busy
  <2>3. CASE UNCHANGED vars
    BY <2>3 DEF vars, SerialInv, Serial, Busy, WholeSeen, InService, Live
  <2> QED
    BY <2>1, <2>2, <2>3 DEF Next
<1> QED
  BY <1>1, <1>2, RowsStayTrue, PTL DEF Spec

-----------------------------------------------------------------------------
(* What follows from it *)

\* Only the writes change the tables.
LEMMA OnlyWrites ==
    ASSUME [Next]_vars, \A r \in Requests : ~Write(r)
    PROVE  UNCHANGED tables
<1>1. ASSUME NEW r \in Requests, Arrive(r) PROVE UNCHANGED tables
  BY <1>1 DEF Arrive, RequestVanOp, RequestDriverOp, RequestStudentOp, Ask
<1>2. ASSUME NEW r \in Requests, Step(r) PROVE UNCHANGED tables
  BY <1>2 DEF Step, Write, CheckUnique, FindVan, UpdateVanFinds, FindDriver, FindDriverVan,
              FindStudent, FindRiderVan
<1>3. ASSUME NEW r \in Requests, CallFails(r) \/ Crash PROVE UNCHANGED tables
  BY <1>3 DEF CallFails, Crash
<1> QED
  BY <1>1, <1>2, <1>3 DEF Next, vars, tables, Crash

\* The row that a van's write puts, and what the queries before it made sure of.
PutsVan(r, row) ==
    LET q == req[r]
        old == van[q.van]
    IN  /\ van' = [van EXCEPT ![q.van] = row]
        /\ row.state = "deleted" => ~row.active
        /\ \/ row.driver \in {None, old.driver}
           \/ row.driver = q.driver /\ InService(driver[q.driver])
           \/ q.op = "updateVan" /\ q.driver = None
        /\ q.op = "updateVan" /\ q.driver = None => row.driver = q.seen
        /\ q.op \notin {"createVan", "updateVan"} /\ InService(row)
             => /\ InService(old)
                /\ \/ row.driver \in {None, old.driver}
                   \/ q.op = "assignDriver" /\ row.driver = q.driver

\* A write replaces one van, takes a driver off all, or leaves the vans alone.
LEMMA VanWrites ==
    ASSUME TypeInv, RowInv, NEW r \in Requests, Write(r)
    PROVE  \/ UNCHANGED van
           \/ /\ At(r, "write") /\ req[r].op \in VanOps /\ req[r].van \in Vans
              /\ \E row \in VanRow : PutsVan(r, row)
              /\ Reply(r) /\ UNCHANGED <<driver, student>>
           \/ UnassignVans(r)
<1>0. req[r] \in Request /\ Carries(req[r]) /\ RowSeen(req[r])
  BY DEF TypeInv, TypeOK, RowInv
<1>1. req[r].op \in VanOps => req[r].van \in Vans /\ van[req[r].van] \in VanRow
  BY <1>0 DEF TypeInv, TypeOK, Carries
<1>2. req[r].active # Keep => req[r].active \in BOOLEAN
  BY <1>0 DEF Request
<1> USE DEF Writes, At, WriteVan, PutsVan, Live, InService, VanOps, VanRow, States
<1>3. CASE CreateVan(r)
  <2> DEFINE row == [state |-> "live", active |-> TRUE, driver |-> req[r].driver]
  <2>1. row \in VanRow
    BY <1>0 DEF Request
  <2>2. row.driver # None => row.driver = req[r].driver /\ InService(driver[req[r].driver])
    BY <1>0, <1>3 DEF CreateVan, RowSeen
  <2> QED
    BY <1>1, <1>3, <2>1, <2>2 DEF CreateVan
<1>4. CASE UpdateVan(r)
  <2> DEFINE row == UpdatedVan(van[req[r].van], req[r])
  <2>1. row \in VanRow /\ row.state = "live"
    BY <1>0, <1>1, <1>2, <1>4 DEF UpdateVan, UpdatedVan, Carries, Request, RowSeen
  <2>2. IF req[r].driver = None THEN row.driver = req[r].seen
        ELSE row.driver = req[r].driver /\ InService(driver[req[r].driver])
    BY <1>0, <1>1, <1>4 DEF UpdateVan, UpdatedVan, RowSeen
  <2> QED
    BY <1>1, <1>4, <2>1, <2>2 DEF UpdateVan
<1>5. CASE RemoveVan(r)
  <2> DEFINE row == [van[req[r].van] EXCEPT !.state = "deleted", !.active = FALSE]
  <2>1. row \in VanRow /\ ~row.active /\ row.driver = van[req[r].van].driver
    BY <1>1, <1>5 DEF RemoveVan
  <2> QED
    BY <1>1, <1>5, <2>1 DEF RemoveVan
<1>6. CASE AssignDriver(r)
  <2> DEFINE row == [van[req[r].van] EXCEPT !.driver = req[r].driver]
  <2>1. /\ row \in VanRow /\ row.state = "live" /\ row.driver = req[r].driver
        /\ row.active = van[req[r].van].active /\ van[req[r].van].state = "live"
    BY <1>0, <1>1, <1>6 DEF AssignDriver, Request, RowSeen
  <2>2. req[r].driver # None => InService(driver[req[r].driver])
    BY <1>0, <1>6 DEF AssignDriver, RowSeen
  <2> QED
    BY <1>1, <1>6, <2>1, <2>2 DEF AssignDriver
<1>7. CASE UnassignDriver(r)
  <2> DEFINE row == [van[req[r].van] EXCEPT !.driver = None]
  <2>1. /\ row \in VanRow /\ row.state = "live" /\ row.driver = None
        /\ row.active = van[req[r].van].active /\ van[req[r].van].state = "live"
    BY <1>0, <1>1, <1>7 DEF UnassignDriver, RowSeen
  <2> QED
    BY <1>1, <1>7, <2>1 DEF UnassignDriver
<1> QED
  BY <1>3, <1>4, <1>5, <1>6, <1>7
     DEF Write, CreateDriver, UpdateDriver, RemoveDriver, WriteDriver, LeaveVan, CreateStudent,
         UpdateStudent, RemoveStudent, WriteStudent

\* A student's row is deleted by a write that takes the student off the van.
LEMMA StudentWrites ==
    ASSUME TypeInv, RowInv, NEW r \in Requests, Write(r), NEW s \in Students
    PROVE  student'[s].state = "deleted"
             => \/ student'[s].van = None /\ ~student'[s].active
                \/ /\ student[s].state = "deleted"
                   /\ student'[s].van \in {None, student[s].van}
                   /\ student'[s].active = student[s].active
<1>0. req[r] \in Request /\ Carries(req[r]) /\ RowSeen(req[r])
  BY DEF TypeInv, TypeOK, RowInv
<1>1. student[s] \in StudentRow /\ (req[r].op \in StudentOps => req[r].student \in Students)
  BY <1>0 DEF TypeInv, TypeOK, Carries
<1> USE DEF Writes, At, WriteStudent, Live, StudentOps, StudentRow, TypeInv, TypeOK
<1>2. CASE LeaveVan(r)
  BY <1>1, <1>2 DEF LeaveVan
<1>3. CASE CreateStudent(r)
  BY <1>1, <1>3 DEF CreateStudent
<1>4. CASE UpdateStudent(r)
  <2>1. student[req[r].student] \in StudentRow /\ Live(student[req[r].student])
    BY <1>0, <1>4 DEF UpdateStudent, RowSeen, Carries
  <2>2. UpdatedStudent(student[req[r].student], req[r]).state = "live"
    BY <2>1 DEF UpdatedStudent
  <2> QED
    BY <1>1, <1>4, <2>2 DEF UpdateStudent
<1>5. CASE RemoveStudent(r)
  BY <1>1, <1>5 DEF RemoveStudent, RemovedStudent
<1> QED
  BY <1>1, <1>2, <1>3, <1>4, <1>5
     DEF Write, CreateVan, UpdateVan, RemoveVan, AssignDriver, UnassignDriver, WriteVan,
         CreateDriver, UpdateDriver, RemoveDriver, WriteDriver, UnassignVans

\* A student is put on a van that is in service.
LEMMA StudentRides ==
    ASSUME TypeInv, RowInv, SerialInv, NEW r \in Requests, Write(r), NEW s \in Students,
           student'[s].van \notin {None, student[s].van}
    PROVE  InService(van[student'[s].van])
<1>0. req[r] \in Request /\ Carries(req[r]) /\ RowSeen(req[r]) /\ WholeSeen(req[r])
  BY DEF TypeInv, TypeOK, RowInv, SerialInv
<1>1. student[s] \in StudentRow /\ (req[r].op \in StudentOps => req[r].student \in Students)
  BY <1>0 DEF TypeInv, TypeOK, Carries
<1> USE DEF Writes, At, WriteStudent, StudentOps, StudentRow, TypeInv, TypeOK
<1>2. CASE LeaveVan(r)
  BY <1>1, <1>2 DEF LeaveVan
<1>3. CASE CreateStudent(r)
  <2>1. req[r].van \in Vans => InService(van[req[r].van])
    BY <1>0, <1>3 DEF CreateStudent, RowSeen
  <2>2. req[r].van \in Vans \cup {None}
    BY <1>0, <1>3 DEF CreateStudent, Carries, Request
  <2> QED
    BY <1>1, <1>3, <2>1, <2>2 DEF CreateStudent
<1>4. CASE UpdateStudent(r)
  <2> DEFINE row == UpdatedStudent(student[req[r].student], req[r])
  <2>1. student[req[r].student] \in StudentRow
    BY <1>0, <1>4 DEF UpdateStudent, Carries
  <2>2. row.van \notin {None, student[req[r].student].van} => InService(van[row.van])
    BY <1>0, <1>4, <2>1 DEF UpdateStudent, UpdatedStudent, WholeSeen, Request
  <2> QED
    BY <1>1, <1>4, <2>2 DEF UpdateStudent
<1>5. CASE RemoveStudent(r)
  BY <1>1, <1>5 DEF RemoveStudent, RemovedStudent
<1> QED
  BY <1>1, <1>2, <1>3, <1>4, <1>5
     DEF Write, CreateVan, UpdateVan, RemoveVan, AssignDriver, UnassignDriver, WriteVan,
         CreateDriver, UpdateDriver, RemoveDriver, WriteDriver, UnassignVans

LEMMA DriverWrites ==
    ASSUME TypeInv, RowInv, NEW r \in Requests, Write(r), NEW d \in Drivers
    PROVE  driver'[d].state = "deleted" =>
             \/ driver'[d] = driver[d]
             \/ ~driver'[d].active /\ RemoveDriver(r) /\ req[r].driver = d
<1>0. req[r] \in Request /\ Carries(req[r]) /\ RowSeen(req[r])
  BY DEF TypeInv, TypeOK, RowInv
<1>1. driver[d] \in DriverRow /\ (req[r].op \in DriverOps => req[r].driver \in Drivers)
  BY <1>0 DEF TypeInv, TypeOK, Carries
<1> USE DEF Writes, At, WriteDriver, Live, DriverOps, DriverRow, TypeInv, TypeOK
<1>2. CASE CreateDriver(r)
  BY <1>1, <1>2 DEF CreateDriver
<1>3. CASE UpdateDriver(r)
  <2>1. Live(driver[req[r].driver])
    BY <1>0, <1>3 DEF UpdateDriver, RowSeen
  <2> QED
    BY <1>1, <1>3, <2>1 DEF UpdateDriver
<1>4. CASE RemoveDriver(r)
  BY <1>1, <1>4 DEF RemoveDriver
<1> QED
  BY <1>2, <1>3, <1>4
     DEF Write, CreateVan, UpdateVan, RemoveVan, AssignDriver, UnassignDriver, WriteVan,
         UnassignVans, LeaveVan, CreateStudent, UpdateStudent, RemoveStudent, WriteStudent

\* A step is a write of some request, or leaves the tables as they are.
LEMMA WritesOrNot ==
    ASSUME [Next]_vars
    PROVE  (\E r \in Requests : Write(r)) \/ UNCHANGED tables
BY OnlyWrites

\* When administrators of the same row wait, a deleted student is on no van and no deleted
\* row is active: update and assign write without looking at deletedAt, and need not look.
THEOREM DeletedStaysGone == ASSUME SerialAdmins \/ SerialRows PROVE Spec => []DeletedIsGone
<1>1. Init => DeletedIsGone
  BY DEF Init, DeletedIsGone, DeletedInactive, NoVan, NoDriver, NoStudent, InService, Live
<1>2. TypeInv /\ RowInv /\ TypeInv' /\ DeletedIsGone /\ [Next]_vars => DeletedIsGone'
  <2> SUFFICES ASSUME TypeInv, RowInv, TypeInv', DeletedIsGone, [Next]_vars
               PROVE  DeletedIsGone'
    OBVIOUS
  <2>0. /\ DOMAIN van = Vans /\ DOMAIN driver = Drivers /\ DOMAIN student = Students
        /\ DOMAIN van' = Vans /\ DOMAIN driver' = Drivers /\ DOMAIN student' = Students
    BY DEF TypeInv, TypeOK
  <2>1. CASE UNCHANGED tables
    BY <2>1 DEF tables, DeletedIsGone, DeletedInactive
  <2>2. ASSUME NEW r \in Requests, Write(r) PROVE DeletedIsGone'
    <3>1. \A s \in Students : student'[s].state = "deleted"
                                 => student'[s].van = None /\ ~student'[s].active
      BY <2>0, <2>2, StudentWrites DEF DeletedIsGone, DeletedInactive
    <3>2. \A d \in Drivers : driver'[d].state = "deleted" => ~driver'[d].active
      BY <2>0, <2>2, DriverWrites DEF DeletedIsGone, DeletedInactive
    <3>3. \A v \in Vans : van'[v].state = "deleted" => ~van'[v].active
      <4>1. CASE UNCHANGED van
        BY <2>0, <4>1 DEF DeletedIsGone, DeletedInactive
      <4>2. CASE req[r].van \in Vans /\ \E row \in VanRow : PutsVan(r, row)
        BY <2>0, <4>2 DEF PutsVan, DeletedIsGone, DeletedInactive, TypeInv, TypeOK
      <4>3. CASE UnassignVans(r)
        <5>1. \A v \in Vans : van'[v].state = van[v].state /\ van'[v].active = van[v].active
          BY <4>3 DEF UnassignVans, WithoutDriver, TypeInv, TypeOK, VanRow
        <5> QED
          BY <2>0, <5>1 DEF DeletedIsGone, DeletedInactive
      <4> QED
        BY <2>2, <4>1, <4>2, <4>3, VanWrites
    <3> QED
      BY <2>0, <3>1, <3>2, <3>3 DEF DeletedIsGone, DeletedInactive
  <2> QED
    BY <2>1, <2>2, WritesOrNot
<1> QED
  BY <1>1, <1>2, RowsStayTrue, TypeCorrect, PTL DEF Spec

\* When administrators wait, a van gets only a driver, and a student only a van, that
\* is in service at that moment.
THEOREM AssignmentsInService == ASSUME SerialAdmins PROVE Spec => AssignsInService
<1> DEFINE Ok ==
       /\ \A v \in Vans : van'[v].driver \notin {None, van[v].driver}
                             => InService(driver[van'[v].driver])
       /\ \A s \in Students : student'[s].van \notin {None, student[s].van}
                             => InService(van[student'[s].van])
<1>1. TypeInv /\ RowInv /\ SerialInv /\ [Next]_vars => [Ok]_vars
  <2> SUFFICES ASSUME TypeInv, RowInv, SerialInv, [Next]_vars PROVE Ok
    OBVIOUS
  <2>1. CASE UNCHANGED tables
    BY <2>1 DEF tables
  <2>2. ASSUME NEW r \in Requests, Write(r), NEW v \in Vans,
               van'[v].driver \notin {None, van[v].driver}
        PROVE  InService(driver[van'[v].driver])
    <3>1. ASSUME NEW row \in VanRow, PutsVan(r, row), At(r, "write"), req[r].van \in Vans
          PROVE  InService(driver[van'[v].driver])
      <4>1. v = req[r].van /\ van'[v].driver = row.driver
        BY <2>2, <3>1 DEF PutsVan, TypeInv, TypeOK
      <4>2. req[r].op = "updateVan" /\ req[r].driver = None => row.driver = van[v].driver
        BY <3>1, <4>1 DEF PutsVan, SerialInv, WholeSeen, At
      <4> QED
        BY <2>2, <3>1, <4>1, <4>2 DEF PutsVan
    <3>2. CASE UnassignVans(r)
      BY <2>2, <3>2 DEF UnassignVans, WithoutDriver, TypeInv, TypeOK, VanRow
    <3> QED
      BY <2>2, <3>1, <3>2, VanWrites
  <2> QED
    BY <2>1, <2>2, WritesOrNot, StudentRides
<1>2. Spec => [][Ok]_vars
  BY <1>1, QueriesStayTrue, PTL DEF Spec
<1> QED
  BY <1>2 DEF AssignsInService

-----------------------------------------------------------------------------
(* Updates that name no driver *)

\* Who deletes a driver has done so when he goes on to the vans; who creates one is the
\* first to write the row.
DriverSeen(q) ==
    /\ q.pc = "unassignVans" => driver[q.driver].state = "deleted"
    /\ q.op = "createDriver" /\ q.pc # "idle" => driver[q.driver].state = "unborn"

\* The driver that an update is to write back is the van's, or deleted and taken off it.
SeenOrCleared(q) ==
    q.op = "updateVan" /\ q.pc \notin {"idle", "findVan"} /\ q.driver = None =>
       \/ q.seen = van[q.van].driver
       \/ van[q.van].driver = None /\ q.seen # None /\ driver[q.seen].state = "deleted"

DeletionInv == \A r \in Requests : DriverSeen(req[r]) /\ SeenOrCleared(req[r])

\* A request that is answered, or has just arrived, relies on no driver.
LEMMA ArriveDeletion ==
    ASSUME TypeInv, DeletionInv, NEW r \in Requests, Arrive(r)
    PROVE  DeletionInv'
<1>1. PICK op, call, v, d, s, a :
              /\ Ask(r, op, call, v, d, s, a)
              /\ \/ call = "unique" /\ op \in {"createVan", "createDriver", "createStudent"}
                 \/ call = "findVan" /\ op \in VanOps \ {"createVan"}
                 \/ call = "findDriver" /\ op \in DriverOps \ {"createDriver"}
                 \/ call = "findStudent" /\ op \in StudentOps \ {"createStudent"}
  BY ArriveAsks
<1>2. /\ req'[r].op = op /\ req'[r].pc = call /\ req'[r].driver = d
      /\ \A p \in Requests \ {r} : req'[p] = req[p]
      /\ UNCHANGED <<van, driver, student>>
  BY <1>1 DEF Ask, TypeInv, TypeOK, tables
<1>3. req'[r].op = "createDriver" => driver[req'[r].driver].state = "unborn"
  <2>1. ASSUME NEW v1 \in Vans, RequestVanOp(r, v1) PROVE req'[r].op # "createDriver"
    BY <2>1 DEF RequestVanOp, Ask, TypeInv, TypeOK
  <2>2. ASSUME NEW s1 \in Students, RequestStudentOp(r, s1) PROVE req'[r].op # "createDriver"
    BY <2>2 DEF RequestStudentOp, Ask, TypeInv, TypeOK
  <2>3. ASSUME NEW d1 \in Drivers, RequestDriverOp(r, d1), req'[r].op = "createDriver"
        PROVE  req'[r].driver = d1 /\ driver[d1].state = "unborn"
    BY <2>3 DEF RequestDriverOp, NewDriverId, Ask, TypeInv, TypeOK
  <2> QED
    BY <2>1, <2>2, <2>3 DEF Arrive
<1>4. DriverSeen(req[r])' /\ SeenOrCleared(req[r])'
  BY <1>1, <1>2, <1>3 DEF DriverSeen, SeenOrCleared, VanOps, DriverOps, StudentOps
<1>5. \A p \in Requests \ {r} : DriverSeen(req[p])' /\ SeenOrCleared(req[p])'
  BY <1>2 DEF DeletionInv, DriverSeen, SeenOrCleared
<1> QED
  BY <1>4, <1>5 DEF DeletionInv

LEMMA ReplyRelies ==
    ASSUME TypeInv, NEW r \in Requests, Reply(r)
    PROVE  DriverSeen(req[r])' /\ SeenOrCleared(req[r])'
BY DEF Reply, Idle, TypeInv, TypeOK, DriverSeen, SeenOrCleared

LEMMA QueryDeletion ==
    ASSUME TypeInv, RowInv, DeletionInv, NEW r \in Requests,
           \/ CheckUnique(r) \/ FindVan(r) \/ UpdateVanFinds(r) \/ FindDriver(r)
           \/ FindDriverVan(r) \/ FindStudent(r) \/ FindRiderVan(r) \/ CallFails(r)
    PROVE  DeletionInv'
<1>0. /\ req[r] \in Request /\ Carries(req[r]) /\ AsksFor(req[r])
      /\ DriverSeen(req[r]) /\ SeenOrCleared(req[r])
  BY DEF TypeInv, TypeOK, RowInv, RowSeen, DeletionInv
<1>1. Busy(r) /\ \A p \in Requests \ {r} : req'[p] = req[p]
  BY StepMovesOne DEF Step
<1>2. UNCHANGED <<van, driver, student>>
  BY DEF CheckUnique, FindVan, UpdateVanFinds, FindDriver, FindDriverVan, FindStudent,
         FindRiderVan, CallFails, tables
<1>3. \A p \in Requests \ {r} : DriverSeen(req[p])' /\ SeenOrCleared(req[p])'
  BY <1>1, <1>2 DEF DeletionInv, DriverSeen, SeenOrCleared
<1>4. ASSUME NEW call, call # "unassignVans",
             Goto(r, call) \/ \E value : GotoSeen(r, call, value)
      PROVE  DriverSeen(req[r])'
  BY <1>0, <1>1, <1>2, <1>4, GotoHolds, GotoSeenHolds DEF DriverSeen, Busy
<1>5. ASSUME NEW call, Goto(r, call),
             \/ req[r].op # "updateVan" \/ req[r].driver # None
             \/ req[r].pc \notin {"idle", "findVan"}
      PROVE  SeenOrCleared(req[r])'
  BY <1>0, <1>2, <1>5, GotoHolds DEF SeenOrCleared
<1>6. SUFFICES DriverSeen(req[r])' /\ SeenOrCleared(req[r])'
  BY <1>3 DEF DeletionInv
<1>7. CASE CheckUnique(r) \/ FindVan(r)
  <2>1. req[r].op # "updateVan" \/ req[r].pc \notin {"idle", "findVan"}
    BY <1>7 DEF CheckUnique, FindVan, At
  <2> QED
    BY <1>4, <1>5, <1>7, <2>1, ReplyRelies DEF CheckUnique, FindVan, AfterUnique
<1>8. CASE UpdateVanFinds(r)
  <2>1. ASSUME NEW call, GotoSeen(r, call, van[req[r].van].driver) PROVE SeenOrCleared(req[r])'
    BY <1>2, <2>1, GotoSeenHolds DEF SeenOrCleared
  <2> QED
    BY <1>4, <1>8, <2>1, ReplyRelies DEF UpdateVanFinds, AfterUnique
<1>9. CASE FindDriver(r) \/ FindDriverVan(r)
  <2>1. req[r].pc \notin {"idle", "findVan"}
    BY <1>9 DEF FindDriver, FindDriverVan, At
  <2> QED
    BY <1>4, <1>5, <1>9, <2>1, ReplyRelies DEF FindDriver, FindDriverVan
<1>10. CASE FindStudent(r) \/ FindRiderVan(r)
  <2>1. req[r].op # "updateVan"
    BY <1>0, <1>10 DEF FindStudent, FindRiderVan, At, AsksFor, StudentOps
  <2>2. ASSUME NEW call, NEW value, GotoSeen(r, call, value) PROVE SeenOrCleared(req[r])'
    BY <2>1, <2>2, GotoSeenHolds DEF SeenOrCleared
  <2> QED
    BY <1>4, <1>5, <1>10, <2>1, <2>2, ReplyRelies DEF FindStudent, FindRiderVan
<1>11. CASE CallFails(r)
  BY <1>11, ReplyRelies DEF CallFails
<1> QED
  BY <1>7, <1>8, <1>9, <1>10, <1>11

\* Nobody brings a deleted driver back.
LEMMA StaysDeleted ==
    ASSUME TypeInv, RowInv, DeletionInv, NEW r \in Requests, Write(r),
           NEW d \in Drivers, driver[d].state = "deleted"
    PROVE  driver'[d].state = "deleted"
<1>0. req[r] \in Request /\ Carries(req[r]) /\ RowSeen(req[r]) /\ DriverSeen(req[r])
  BY DEF TypeInv, TypeOK, RowInv, DeletionInv
<1>1. driver \in [Drivers -> DriverRow]
  BY DEF TypeInv, TypeOK
<1>2. CASE CreateDriver(r)
  BY <1>0, <1>1, <1>2 DEF CreateDriver, Writes, At, DriverSeen, WriteDriver
<1>3. CASE UpdateDriver(r)
  BY <1>0, <1>1, <1>3 DEF UpdateDriver, Writes, At, RowSeen, Live, WriteDriver, DriverOps
<1>4. CASE RemoveDriver(r)
  BY <1>0, <1>1, <1>4 DEF RemoveDriver, WriteDriver, DriverRow
<1> QED
  BY <1>2, <1>3, <1>4
     DEF Write, CreateVan, UpdateVan, RemoveVan, AssignDriver, UnassignDriver, WriteVan,
         UnassignVans, LeaveVan, CreateStudent, UpdateStudent, RemoveStudent, WriteStudent

\* A van's driver changes under another's update only by the deletion of that driver.
LEMMA OthersCleared ==
    ASSUME TypeInv, RowInv, DeletionInv, NEW r \in Requests, Write(r), Busy(r),
           NEW p \in Requests \ {r}, req'[p] = req[p]
    PROVE  DriverSeen(req[p])' /\ SeenOrCleared(req[p])'
<1>0. PICK q : q = req[p]
  OBVIOUS
<1>1. q \in Request /\ Carries(q) /\ DriverSeen(q) /\ SeenOrCleared(q)
  BY <1>0 DEF TypeInv, TypeOK, DeletionInv
<1>2. q.pc # "idle" => ~Names(req[r], q.van, q.driver, q.student)
  BY <1>0 DEF RowInv, Apart, Busy
<1>3. DriverSeen(q)'
  <2>1. CASE q.pc = "unassignVans"
    <3>1. q.driver \in Drivers /\ q.op = "removeDriver"
      BY <1>1, <2>1 DEF Carries
    <3> QED
      BY <1>1, <2>1, <3>1, StaysDeleted DEF DriverSeen
  <2>2. CASE q.pc # "unassignVans" /\ q.op = "createDriver"
    <3>1. q.driver \in Drivers
      BY <1>1, <2>2 DEF Carries, DriverOps
    <3>2. q.pc # "idle" => req[r].driver # q.driver
      BY <1>2, <3>1 DEF Names
    <3> QED
      BY <1>1, <2>2, <3>1, <3>2, WritesOwnRows DEF DriverSeen
  <2> QED
    BY <2>1, <2>2 DEF DriverSeen
<1>4. ASSUME q.op = "updateVan", q.pc \notin {"idle", "findVan"}, q.driver = None
      PROVE  SeenOrCleared(q)'
  <2>1. q.van \in Vans /\ q.seen \in Drivers \cup {None} /\ req[r].van # q.van
    BY <1>1, <1>2, <1>4 DEF Carries, VanOps, Names
  <2>2. q.seen # None /\ driver[q.seen].state = "deleted" => driver'[q.seen].state = "deleted"
    BY <2>1, StaysDeleted
  <2>3. CASE van'[q.van] = van[q.van]
    BY <1>1, <1>4, <2>2, <2>3 DEF SeenOrCleared
  <2>4. CASE UnassignVans(r) /\ van'[q.van] # van[q.van]
    <3>1. van[q.van].driver = req[r].driver /\ van'[q.van].driver = None
      BY <2>1, <2>4 DEF UnassignVans, WithoutDriver, TypeInv, TypeOK, VanRow
    <3>2. req[r].driver \in Drivers /\ driver[req[r].driver].state = "deleted"
      BY <2>4 DEF UnassignVans, At, TypeInv, Carries, DeletionInv, DriverSeen
    <3>3. q.seen = req[r].driver /\ q.seen # None
      BY <1>1, <1>4, <3>1, <3>2, FleetAssumption DEF SeenOrCleared
    <3> QED
      BY <2>2, <3>1, <3>2, <3>3 DEF SeenOrCleared
  <2>5. CASE \E row : PutsVan(r, row)
    BY <2>1, <2>3, <2>5 DEF PutsVan, TypeInv, TypeOK
  <2> QED
    BY <2>3, <2>4, <2>5, VanWrites
<1>5. SeenOrCleared(q)'
  BY <1>4 DEF SeenOrCleared
<1> QED
  BY <1>0, <1>3, <1>5

LEMMA WriteDeletion ==
    ASSUME TypeInv, RowInv, DeletionInv, NEW r \in Requests, Write(r)
    PROVE  DeletionInv'
<1>0. req[r] \in Request /\ Carries(req[r])
  BY DEF TypeInv, TypeOK
<1>1. Busy(r) /\ \A p \in Requests \ {r} : req'[p] = req[p]
  BY StepMovesOne DEF Step, Write
<1>2. \A p \in Requests \ {r} : DriverSeen(req[p])' /\ SeenOrCleared(req[p])'
  BY <1>1, OthersCleared
<1>3. CASE RemoveDriver(r)
  <2>1. /\ req[r].driver \in Drivers /\ req'[r].driver = req[r].driver
        /\ req'[r].op = "removeDriver"
    BY <1>0, <1>3, GotoHolds DEF RemoveDriver, Writes, Carries, DriverOps
  <2>2. driver'[req[r].driver].state = "deleted"
    BY <1>3, <2>1 DEF RemoveDriver, WriteDriver, TypeInv, TypeOK, DriverRow
  <2> QED
    BY <1>2, <2>1, <2>2 DEF DeletionInv, DriverSeen, SeenOrCleared
<1>4. CASE LeaveVan(r)
  <2>1. req'[r].op = "updateStudent" /\ req'[r].pc = "write"
    BY <1>0, <1>4, GotoHolds DEF LeaveVan, At, Carries
  <2> QED
    BY <1>2, <2>1 DEF DeletionInv, DriverSeen, SeenOrCleared
<1>5. CASE Reply(r)
  BY <1>2, <1>5, ReplyRelies DEF DeletionInv
<1> QED
  BY <1>3, <1>4, <1>5
     DEF Write, WriteVan, WriteStudent, CreateVan, UpdateVan, RemoveVan, AssignDriver,
         UnassignDriver, CreateDriver, UpdateDriver, UnassignVans, CreateStudent, UpdateStudent,
         RemoveStudent

\* When administrators of the same row wait, but may delete the driver of a van that
\* another updates, the update that names no driver and still changes the van's
\* (vans.service.ts:315) puts back a driver whose deletion had just cleared the van: of
\* all that others do in between, nothing else is undone.
THEOREM UpdatesUndoDeletions ==
    ASSUME SerialAdmins \/ SerialRows PROVE Spec => UpdateUndoesDeletionOnly
<1> DEFINE Ok ==
       \A r \in Requests :
          LET v == req[r].van IN
          UpdateVan(r) /\ req[r].driver = None /\ van'[v].driver # van[v].driver =>
             van[v].driver = None /\ driver[van'[v].driver].state = "deleted"
<1>1. Init => DeletionInv
  BY DEF Init, Idle, DeletionInv, DriverSeen, SeenOrCleared
<1>2. TypeInv /\ RowInv /\ DeletionInv /\ [Next]_vars => DeletionInv'
  <2> SUFFICES ASSUME TypeInv, RowInv, DeletionInv, [Next]_vars PROVE DeletionInv'
    OBVIOUS
  <2>1. ASSUME NEW r \in Requests, Arrive(r) \/ Step(r) \/ CallFails(r) PROVE DeletionInv'
    BY <2>1, ArriveDeletion, QueryDeletion, WriteDeletion DEF Step, Write
  <2>2. CASE Crash
    BY <2>2 DEF Crash, Idle, DeletionInv, DriverSeen, SeenOrCleared
  <2>3. CASE UNCHANGED vars
    BY <2>3 DEF vars, DeletionInv, DriverSeen, SeenOrCleared
  <2> QED
    BY <2>1, <2>2, <2>3 DEF Next
<1>3. TypeInv /\ DeletionInv => [Ok]_vars
  <2> SUFFICES ASSUME TypeInv, DeletionInv, NEW r \in Requests, UpdateVan(r),
                      req[r].driver = None,
                      van'[req[r].van].driver # van[req[r].van].driver
               PROVE  /\ van[req[r].van].driver = None
                      /\ driver[van'[req[r].van].driver].state = "deleted"
    OBVIOUS
  <2>1. req[r].van \in Vans /\ van[req[r].van] \in VanRow
    BY DEF TypeInv, TypeOK, Carries, UpdateVan, Writes, VanOps
  <2>2. van'[req[r].van].driver = req[r].seen
    BY <2>1 DEF UpdateVan, WriteVan, UpdatedVan, VanRow, TypeInv, TypeOK
  <2>3. SeenOrCleared(req[r])
    BY DEF DeletionInv
  <2> QED
    BY <2>2, <2>3 DEF SeenOrCleared, UpdateVan, Writes, At
<1>4. Spec => [][Ok]_vars
  BY <1>1, <1>2, <1>3, RowsStayTrue, PTL DEF Spec
<1> QED
  BY <1>4 DEF UpdateUndoesDeletionOnly

-----------------------------------------------------------------------------
(* One van per driver *)

\* Only the endpoints that are offered are being served.
OnlyOffered == \A r \in Requests : Busy(r) => req[r].op \in Offered

LEMMA ArriveOffered ==
    ASSUME TypeInv, OnlyOffered, NEW r \in Requests, Arrive(r)
    PROVE  OnlyOffered'
<1>1. ASSUME NEW op, NEW call, NEW v, NEW d, NEW s, NEW a, Ask(r, op, call, v, d, s, a)
      PROVE  OnlyOffered'
  BY <1>1 DEF Ask, OnlyOffered, Busy, TypeInv, TypeOK
<1>2. ASSUME NEW v \in Vans, RequestVanOp(r, v) PROVE OnlyOffered'
  BY <1>1, <1>2 DEF RequestVanOp
<1>3. ASSUME NEW d \in Drivers, RequestDriverOp(r, d) PROVE OnlyOffered'
  BY <1>1, <1>3 DEF RequestDriverOp
<1>4. ASSUME NEW s \in Students, RequestStudentOp(r, s) PROVE OnlyOffered'
  BY <1>1, <1>4 DEF RequestStudentOp
<1> QED
  BY <1>2, <1>3, <1>4 DEF Arrive

LEMMA ServesOffered == Spec => []OnlyOffered
<1>1. Init => OnlyOffered
  BY DEF Init, Idle, OnlyOffered, Busy
<1>2. TypeInv /\ OnlyOffered /\ [Next]_vars => OnlyOffered'
  <2> SUFFICES ASSUME TypeInv, OnlyOffered, [Next]_vars PROVE OnlyOffered'
    OBVIOUS
  <2>1. ASSUME NEW r \in Requests, Step(r) \/ CallFails(r) PROVE OnlyOffered'
    BY <2>1, StepMovesOne DEF OnlyOffered, Busy
  <2>2. CASE Crash \/ UNCHANGED vars
    BY <2>2 DEF Crash, Idle, vars, OnlyOffered, Busy
  <2> QED
    BY <2>1, <2>2, ArriveOffered DEF Next
<1> QED
  BY <1>1, <1>2, TypeCorrect, PTL DEF Spec

\* assignDriver, before its write, found the driver on no other van: this is still so.
CheckedFree ==
    \A r \in Requests, d \in Drivers, v \in Vans :
        Writes(r, "assignDriver") /\ req[r].driver = d /\ req[r].van = v => ~DrivesAnother(d, v)

\* Only the check for another van lets assignDriver go on to its write.
LEMMA ChecksBeforeWrite ==
    ASSUME TypeInv, NEW r \in Requests, NEW p \in Requests,
           At(p, "findStudent") => req[p].op \in StudentOps,
           Arrive(r) \/ Step(r) \/ CallFails(r),
           req'[p] # req[p], Writes(p, "assignDriver")'
    PROVE  FindDriverVan(p) /\ Goto(p, "write")
<1>1. req'[p].pc = "write" /\ req'[p].op = "assignDriver"
  BY DEF Writes, At
<1>2. ~Arrive(r)
  <2>1. ASSUME NEW op, NEW call, NEW v, NEW d, NEW s, NEW a,
               Ask(r, op, call, v, d, s, a), call # "write"
        PROVE  FALSE
    BY <1>1, <2>1 DEF Ask, TypeInv, TypeOK
  <2> QED
    BY <2>1, ArriveAsks
<1>3. ~Reply(p)
  BY <1>1 DEF Reply, Idle, TypeInv, TypeOK
<1>4. r = p
  BY <1>2, StepMovesOne
<1>5. Step(p) /\ req[p].op = "assignDriver" /\ Carries(req[p])
  BY <1>1, <1>2, <1>3, <1>4, StepMovesOne DEF CallFails, TypeInv
<1>6. ~Write(p)
  BY <1>1, <1>3, <1>5
     DEF Write, Writes, At, CreateVan, UpdateVan, RemoveVan, AssignDriver, WriteVan,
         UnassignDriver, CreateDriver, UpdateDriver, RemoveDriver, UnassignVans, LeaveVan,
         CreateStudent, UpdateStudent, RemoveStudent, Carries
<1>7. ~CheckUnique(p) /\ ~UpdateVanFinds(p) /\ ~FindRiderVan(p)
  BY <1>5 DEF CheckUnique, UpdateVanFinds, FindRiderVan, At, Carries, StudentOps
<1>8. ~FindVan(p)
  BY <1>1, <1>3, <1>5, GotoHolds DEF FindVan
<1>9. ~FindDriver(p)
  BY <1>1, <1>3, <1>5, GotoHolds DEF FindDriver
<1>10. ~FindStudent(p)
  BY <1>5 DEF FindStudent, At, StudentOps
<1> QED
  BY <1>1, <1>3, <1>5, <1>6, <1>7, <1>8, <1>9, <1>10 DEF Step, Write, FindDriverVan

\* Without createVan and updateVan no write gives a van the driver that another call names.
LEMMA WriteLeavesFree ==
    ASSUME TypeInv, RowInv, NEW r \in Requests, Write(r), Busy(r),
           req[r].op \notin {"createVan", "updateVan"},
           NEW d \in Drivers, req[r].driver # d, NEW v \in Vans, ~DrivesAnother(d, v)
    PROVE  ~DrivesAnother(d, v)'
<1>1. d # None
  BY FleetAssumption
<1>2. SUFFICES ASSUME NEW w \in Vans \ {v}, InService(van'[w]), van'[w].driver = d
               PROVE  InService(van[w]) /\ van[w].driver = d
  BY DEF DrivesAnother, InService, Live
<1>3. CASE UNCHANGED van
  BY <1>2, <1>3
<1>4. ASSUME NEW row \in VanRow, PutsVan(r, row), req[r].van \in Vans
      PROVE  InService(van[w]) /\ van[w].driver = d
  <2>1. CASE w # req[r].van
    BY <1>2, <1>4, <2>1 DEF PutsVan, TypeInv, TypeOK
  <2>2. CASE w = req[r].van
    <3>1. van'[w] = row
      BY <1>4, <2>2 DEF PutsVan, TypeInv, TypeOK
    <3> QED
      BY <1>1, <1>2, <1>4, <2>2, <3>1 DEF PutsVan
  <2> QED
    BY <2>1, <2>2
<1>5. CASE UnassignVans(r)
  BY <1>1, <1>2, <1>5
     DEF UnassignVans, WithoutDriver, InService, Live, TypeInv, TypeOK, VanRow
<1> QED
  BY <1>3, <1>4, <1>5, VanWrites

\* When administrators of the same row wait, no other call gives the driver a van between
\* the check and the write.
LEMMA StaysFree ==
    ASSUME SerialAdmins \/ SerialRows, {"createVan", "updateVan"} \cap Offered = {}
    PROVE  Spec => []CheckedFree
<1>1. Init => CheckedFree
  BY DEF Init, Idle, CheckedFree, Writes, At
<1>2. TypeInv /\ RowInv /\ OnlyOffered /\ CheckedFree /\ [Next]_vars => CheckedFree'
  <2> SUFFICES ASSUME TypeInv, RowInv, OnlyOffered, CheckedFree, [Next]_vars,
                      NEW p \in Requests, NEW d \in Drivers, NEW v \in Vans,
                      Writes(p, "assignDriver")', req'[p].driver = d, req'[p].van = v
               PROVE  ~DrivesAnother(d, v)'
    BY DEF CheckedFree
  <2>1. CASE req'[p] = req[p]
    <3>1. Writes(p, "assignDriver") /\ req[p].driver = d /\ req[p].van = v
      BY <2>1 DEF Writes, At
    <3>2. ~DrivesAnother(d, v)
      BY <3>1 DEF CheckedFree
    <3>3. CASE UNCHANGED tables
      BY <3>2, <3>3 DEF tables, DrivesAnother, InService, Live
    <3>4. ASSUME NEW r \in Requests, Write(r) PROVE ~DrivesAnother(d, v)'
      <4>1. Busy(r)
        BY <3>4, StepMovesOne DEF Step, Write
      <4>2. req[r].op \notin {"createVan", "updateVan"}
        BY <4>1 DEF OnlyOffered
      <4>3. r # p
        <5>1. CASE r = p
          <6>1. AssignDriver(p)
            BY <3>1, <3>4, <5>1
               DEF Write, Writes, At, CreateVan, UpdateVan, RemoveVan, UnassignDriver,
                   CreateDriver, UpdateDriver, RemoveDriver, UnassignVans, LeaveVan,
                   CreateStudent, UpdateStudent, RemoveStudent
          <6>2. req'[p].pc = "idle"
            BY <6>1 DEF AssignDriver, WriteVan, Reply, Idle, TypeInv, TypeOK
          <6> QED
            BY <6>2 DEF Writes, At
        <5> QED
          BY <5>1
      <4>4. req[r].driver # d
        BY <3>1, <4>1, <4>3 DEF RowInv, Apart, Names, Busy, Writes, At
      <4> QED
        BY <3>2, <3>4, <4>1, <4>2, <4>4, WriteLeavesFree
    <3> QED
      BY <3>3, <3>4, WritesOrNot
  <2>2. CASE req'[p] # req[p]
    <3>1. PICK r \in Requests : Arrive(r) \/ Step(r) \/ CallFails(r)
      BY <2>2 DEF Next, vars, Crash, Idle, Writes, At
    <3>2. FindDriverVan(p) /\ Goto(p, "write")
      BY <2>2, <3>1, ChecksBeforeWrite DEF RowInv, RowSeen, AsksFor, At, StudentOps
    <3>3. req[p].driver = d /\ req[p].van = v
      BY <3>2, GotoHolds
    <3>4. ~DrivesAnother(d, v) /\ UNCHANGED tables
      <4>1. ~Reply(p)
        BY DEF Reply, Idle, TypeInv, TypeOK, Writes, At
      <4> QED
        BY <3>2, <3>3, <4>1 DEF FindDriverVan
    <3> QED
      BY <3>4 DEF DrivesAnother, tables, InService, Live
  <2> QED
    BY <2>1, <2>2
<1> QED
  BY <1>1, <1>2, RowsStayTrue, ServesOffered, PTL DEF Spec

\* When administrators of the same row wait, and drivers change vans only through the
\* assign endpoint, no driver has two vans in service: nothing can come between its check
\* for another van and its write.
THEOREM AssignKeepsOneVan ==
    ASSUME SerialAdmins \/ SerialRows, {"createVan", "updateVan"} \cap Offered = {}
    PROVE  Spec => []OneVanPerDriver
<1>1. Init => OneVanPerDriver
  BY DEF Init
<1>2. TypeInv /\ RowInv /\ OnlyOffered /\ CheckedFree /\ OneVanPerDriver /\ [Next]_vars
        => OneVanPerDriver'
  <2> SUFFICES ASSUME TypeInv, RowInv, OnlyOffered, CheckedFree, OneVanPerDriver, [Next]_vars
               PROVE  OneVanPerDriver'
    OBVIOUS
  <2>1. CASE UNCHANGED tables
    BY <2>1 DEF tables, OneVanPerDriver, InService, Live
  <2>2. ASSUME NEW r \in Requests, Write(r) PROVE OneVanPerDriver'
    <3>1. CASE UNCHANGED van
      BY <3>1 DEF OneVanPerDriver, InService, Live
    <3>2. CASE UnassignVans(r)
      <4>1. \A v \in Vans : /\ InService(van[v])' <=> InService(van[v])
                            /\ van'[v].driver \in {None, van[v].driver}
        BY <3>2 DEF UnassignVans, WithoutDriver, InService, Live, TypeInv, TypeOK, VanRow
      <4> QED
        BY <4>1 DEF OneVanPerDriver
    <3>3. ASSUME NEW row \in VanRow, PutsVan(r, row), At(r, "write"), req[r].van \in Vans
          PROVE  OneVanPerDriver'
      <4> DEFINE u == req[r].van
      <4>1. req[r].op \notin {"createVan", "updateVan"}
        BY <3>3 DEF OnlyOffered, Busy, At
      <4>2. \A v \in Vans \ {u} : van'[v] = van[v]
        BY <3>3 DEF PutsVan, TypeInv, TypeOK
      <4>3. van'[u] = row
        BY <3>3 DEF PutsVan, TypeInv, TypeOK
      <4>4. ASSUME NEW w \in Vans \ {u}, InService(row), InService(van[w]), row.driver # None
            PROVE  row.driver # van[w].driver
        <5>1. /\ InService(van[u])
              /\ \/ row.driver = van[u].driver
                 \/ req[r].op = "assignDriver" /\ row.driver = req[r].driver
          BY <3>3, <4>1, <4>4 DEF PutsVan
        <5>2. row.driver \in Drivers
          BY <4>4 DEF VanRow
        <5>3. row.driver = van[u].driver \/ ~DrivesAnother(row.driver, u)
          BY <3>3, <5>1, <5>2 DEF CheckedFree, Writes
        <5> QED
          BY <3>3, <4>4, <5>1, <5>3 DEF OneVanPerDriver, DrivesAnother
      <4>5. SUFFICES ASSUME NEW v \in Vans, NEW w \in Vans, v # w, InService(van'[v]),
                            InService(van'[w]), van'[v].driver # None
                     PROVE  van'[v].driver # van'[w].driver
        BY DEF OneVanPerDriver, InService, Live
      <4>6. CASE v = u
        BY <4>2, <4>3, <4>4, <4>5, <4>6
      <4>7. CASE w = u
        BY <4>2, <4>3, <4>4, <4>5, <4>7
      <4>8. CASE v # u /\ w # u
        BY <4>2, <4>5, <4>8 DEF OneVanPerDriver
      <4> QED
        BY <4>6, <4>7, <4>8
    <3> QED
      BY <2>2, <3>1, <3>2, <3>3, VanWrites
  <2> QED
    BY <2>1, <2>2, WritesOrNot
<1> QED
  BY <1>1, <1>2, RowsStayTrue, ServesOffered, StaysFree, PTL DEF Spec

-----------------------------------------------------------------------------
(* Administrators who do not wait *)

\* The calls that have found the driver free and are about to give him a van.
Granted(d) == {r \in Requests : Writes(r, "assignDriver") /\ req[r].driver = d}

\* The vans a driver has in service, and those he is about to be given.
Claims(d) == VansOf(d) \cup {req[r].van : r \in Granted(d)}

FewClaims ==
    \A d \in Drivers : IsFiniteSet(Claims(d)) /\ Cardinality(Claims(d)) <= Cardinality(Requests)

\* The queries for a student belong to the handlers of students.
Routed == \A r \in Requests : At(r, "findStudent") => req[r].op \in StudentOps

LEMMA RoutedHolds == Spec => []Routed
<1>1. Init => Routed
  BY DEF Init, Idle, Routed, At
<1>2. TypeInv /\ Routed /\ [Next]_vars => Routed'
  <2> SUFFICES ASSUME TypeInv, Routed, [Next]_vars PROVE Routed'
    OBVIOUS
  <2>1. ASSUME NEW r \in Requests, Arrive(r) PROVE Routed'
    BY <2>1, ArriveAsks DEF Ask, Routed, At, TypeInv, TypeOK
  <2>2. ASSUME NEW r \in Requests, Step(r) \/ CallFails(r) PROVE Routed'
    <3>1. /\ \A p \in Requests \ {r} : req'[p] = req[p]
      BY <2>2, StepMovesOne
    <3>2. req'[r].pc # "findStudent"
      <4>1. \A call : Goto(r, call) => req'[r].pc = call
        BY GotoHolds
      <4>2. \A call, value : GotoSeen(r, call, value) => req'[r].pc = call
        BY GotoSeenHolds
      <4>3. Reply(r) => req'[r].pc # "findStudent"
        BY DEF Reply, Idle, TypeInv, TypeOK
      <4>4. CASE CheckUnique(r) \/ FindVan(r) \/ UpdateVanFinds(r) \/ FindDriver(r)
        BY <4>1, <4>2, <4>3, <4>4 DEF CheckUnique, FindVan, UpdateVanFinds, FindDriver, AfterUnique
      <4>5. CASE FindDriverVan(r) \/ FindStudent(r) \/ FindRiderVan(r) \/ CallFails(r)
        BY <4>1, <4>2, <4>3, <4>5 DEF FindDriverVan, FindStudent, FindRiderVan, CallFails
      <4>6. CASE Write(r)
        BY <4>1, <4>3, <4>6
           DEF Write, WriteVan, WriteStudent, CreateVan, UpdateVan, RemoveVan, AssignDriver,
               UnassignDriver, CreateDriver, UpdateDriver, RemoveDriver, UnassignVans, LeaveVan,
               CreateStudent, UpdateStudent, RemoveStudent
      <4> QED
        BY <2>2, <4>4, <4>5, <4>6 DEF Step, Write
    <3> QED
      BY <3>1, <3>2 DEF Routed, At
  <2>3. CASE Crash \/ UNCHANGED vars
    BY <2>3 DEF Crash, Idle, vars, Routed, At
  <2> QED
    BY <2>1, <2>2, <2>3 DEF Next
<1> QED
  BY <1>1, <1>2, TypeCorrect, PTL DEF Spec

\* A van in service has its driver from before, or from a call that was about to give it.
LEMMA WriteKeepsClaims ==
    ASSUME TypeInv, NEW r \in Requests, Write(r), Busy(r),
           req[r].op \notin {"createVan", "updateVan"}, NEW d \in Drivers
    PROVE  VansOf(d)' \subseteq Claims(d)
<1>0. /\ d # None /\ van \in [Vans -> VanRow] /\ req[r] \in Request /\ Carries(req[r])
  BY FleetAssumption DEF TypeInv, TypeOK
<1>1. SUFFICES ASSUME NEW v \in Vans, InService(van'[v]), van'[v].driver = d
               PROVE  v \in Claims(d)
  BY DEF VansOf, InService, Live
<1>2. CASE UNCHANGED van
  BY <1>1, <1>2 DEF Claims, VansOf
<1>3. CASE RemoveVan(r)
  <2>1. van' = [van EXCEPT ![req[r].van] = [van[req[r].van] EXCEPT !.state = "deleted", !.active = FALSE]]
    BY <1>3 DEF RemoveVan, WriteVan
  <2>2. req[r].van \in Vans
    BY <1>0, <1>3 DEF RemoveVan, Writes, Carries, VanOps
  <2>3. ~InService(van'[req[r].van])
    BY <1>0, <2>1, <2>2 DEF InService, Live, VanRow
  <2>4. van'[v] = van[v]
    BY <1>0, <1>1, <2>1, <2>3
  <2> QED
    BY <1>1, <2>4 DEF Claims, VansOf
<1>4. CASE AssignDriver(r)
  <2>1. CASE v = req[r].van
    <3>1. van'[v].driver = req[r].driver
      BY <1>0, <1>4, <2>1 DEF AssignDriver, WriteVan, VanRow
    <3>2. r \in Granted(d)
      BY <1>1, <1>4, <3>1 DEF AssignDriver, Granted
    <3> QED
      BY <2>1, <3>2 DEF Claims
  <2>2. CASE v # req[r].van
    <3>1. van'[v] = van[v]
      BY <1>0, <1>4, <2>2 DEF AssignDriver, WriteVan
    <3> QED
      BY <1>1, <3>1 DEF Claims, VansOf
  <2> QED
    BY <2>1, <2>2
<1>5. CASE UnassignDriver(r)
  <2>1. van' = [van EXCEPT ![req[r].van] = [van[req[r].van] EXCEPT !.driver = None]]
    BY <1>5 DEF UnassignDriver, WriteVan
  <2>2. v # req[r].van
    BY <1>0, <1>1, <2>1 DEF VanRow
  <2>3. van'[v] = van[v]
    BY <1>0, <2>1, <2>2
  <2> QED
    BY <1>1, <2>3 DEF Claims, VansOf
<1>6. CASE UnassignVans(r)
  <2>1. van'[v] = WithoutDriver(van[v], req[r].driver)
    BY <1>6 DEF UnassignVans
  <2>2. van'[v] = van[v]
    BY <1>0, <1>1, <2>1 DEF WithoutDriver, VanRow
  <2> QED
    BY <1>1, <2>2 DEF Claims, VansOf
<1> QED
  BY <1>2, <1>3, <1>4, <1>5, <1>6
     DEF Write, Writes, CreateVan, UpdateVan, CreateDriver, UpdateDriver, RemoveDriver,
         WriteDriver, LeaveVan, CreateStudent, UpdateStudent, RemoveStudent, WriteStudent

\* A step adds no claim on a driver, unless a call finds him free of any other van: then
\* all claims are those of the calls that are about to write.
LEMMA ClaimsFollowChecks ==
    ASSUME TypeInv, Routed, OnlyOffered, {"createVan", "updateVan"} \cap Offered = {},
           [Next]_vars, NEW d \in Drivers
    PROVE  \/ Claims(d)' \subseteq Claims(d)
           \/ Claims(d)' \subseteq {req'[p].van : p \in Granted(d)'}
<1>1. CASE \A p \in Granted(d)' : req'[p] = req[p]
  <2>1. {req'[p].van : p \in Granted(d)'} \subseteq {req[p].van : p \in Granted(d)}
    BY <1>1 DEF Granted, Writes, At
  <2>2. VansOf(d)' \subseteq Claims(d)
    <3>1. CASE UNCHANGED tables
      BY <3>1 DEF tables, Claims, VansOf, InService, Live
    <3>2. ASSUME NEW r \in Requests, Write(r) PROVE VansOf(d)' \subseteq Claims(d)
      <4>1. Busy(r)
        BY <3>2, StepMovesOne DEF Step, Write
      <4>2. req[r].op \notin {"createVan", "updateVan"}
        BY <4>1 DEF OnlyOffered
      <4> QED
        BY <3>2, <4>1, <4>2, WriteKeepsClaims
    <3> QED
      BY <3>1, <3>2, WritesOrNot
  <2> QED
    BY <2>1, <2>2 DEF Claims
<1>2. ASSUME NEW p \in Granted(d)', req'[p] # req[p]
      PROVE  Claims(d)' \subseteq {req'[q].van : q \in Granted(d)'}
  <2>1. p \in Requests /\ Writes(p, "assignDriver")' /\ req'[p].driver = d
    BY DEF Granted
  <2>2. PICK r \in Requests : Arrive(r) \/ Step(r) \/ CallFails(r)
    BY <1>2, <2>1 DEF Next, vars, Crash, Idle, Writes, At
  <2>3. FindDriverVan(p) /\ Goto(p, "write")
    BY <1>2, <2>1, <2>2, ChecksBeforeWrite DEF Routed, At
  <2>4. req'[p].van = req[p].van /\ req[p].driver = d
    BY <2>1, <2>3, GotoHolds
  <2>5. ~DrivesAnother(d, req[p].van) /\ UNCHANGED tables
    <3>1. ~Reply(p)
      BY <2>1 DEF Reply, Idle, TypeInv, TypeOK, Writes, At
    <3> QED
      BY <2>3, <2>4, <3>1 DEF FindDriverVan
  <2>6. VansOf(d)' \subseteq {req'[p].van}
    BY <2>4, <2>5 DEF VansOf, DrivesAnother, tables, InService, Live
  <2> QED
    BY <2>6 DEF Claims
<1> QED
  BY <1>1, <1>2

\* A set of calls names no more vans than it has calls.
LEMMA CallsNameFew ==
    ASSUME IsFiniteSet(Requests), NEW G \in SUBSET Requests, NEW f, NEW T,
           T \subseteq {f[p].van : p \in G}
    PROVE  IsFiniteSet(T) /\ Cardinality(T) <= Cardinality(Requests)
<1> DEFINE S == {f[p].van : p \in G}
           g == [p \in G |-> f[p].van]
<1>1. g \in Surjection(G, S)
  BY DEF Surjection
<1>2. IsFiniteSet(G) /\ Cardinality(G) <= Cardinality(Requests)
  BY FS_Subset
<1>3. IsFiniteSet(S) /\ Cardinality(S) <= Cardinality(G)
  BY <1>1, <1>2, FS_Surjection
<1>4. T \in SUBSET S
  OBVIOUS
<1> HIDE DEF S
<1>5. IsFiniteSet(T) /\ Cardinality(T) <= Cardinality(S)
  BY <1>3, <1>4, FS_Subset
<1>6. /\ Cardinality(T) \in Nat /\ Cardinality(S) \in Nat /\ Cardinality(G) \in Nat
      /\ Cardinality(Requests) \in Nat
  BY <1>2, <1>3, <1>5, FS_CardinalityType
<1> QED
  BY <1>2, <1>3, <1>5, <1>6

LEMMA InitClaims ==
    ASSUME IsFiniteSet(Requests), Requests # {}, Init PROVE FewClaims
<1> SUFFICES ASSUME NEW d \in Drivers
             PROVE  IsFiniteSet(Claims(d)) /\ Cardinality(Claims(d)) <= Cardinality(Requests)
  BY DEF FewClaims
<1>1. PICK r \in Requests : TRUE
  OBVIOUS
<1>2. Cardinality(Requests) \in Nat /\ Cardinality(Requests) # 0
  BY <1>1, FS_EmptySet, FS_CardinalityType
<1>3. Granted(d) = {}
  BY DEF Init, Idle, Granted, Writes, At
<1>4. \A v, w \in VansOf(d) : v = w
  <2>1. d # None
    BY FleetAssumption
  <2> QED
    BY <2>1 DEF Init, OneVanPerDriver, VansOf
<1>5. PICK T : T = Claims(d)
  OBVIOUS
<1>6. \A v, w \in T : v = w
  BY <1>3, <1>4, <1>5 DEF Claims
<1>7. T = {} \/ \E v : T = {v}
  BY <1>6
<1>8. IsFiniteSet(T) /\ Cardinality(T) \in {0, 1}
  BY <1>7, FS_EmptySet, FS_Singleton
<1> QED
  BY <1>2, <1>5, <1>8

LEMMA NextClaims ==
    ASSUME IsFiniteSet(Requests), {"createVan", "updateVan"} \cap Offered = {},
           TypeInv, Routed, OnlyOffered, FewClaims, [Next]_vars
    PROVE  FewClaims'
<1> SUFFICES ASSUME NEW d \in Drivers
             PROVE  IsFiniteSet(Claims(d)') /\ Cardinality(Claims(d)') <= Cardinality(Requests)
  BY DEF FewClaims
<1>1. PICK T, G, f : T = Claims(d)' /\ G = Granted(d)' /\ f = req'
  OBVIOUS
<1>2. CASE T \subseteq Claims(d)
  <2>1. PICK S : S = Claims(d)
    OBVIOUS
  <2>2. IsFiniteSet(S) /\ Cardinality(S) <= Cardinality(Requests) /\ T \in SUBSET S
    BY <1>2, <2>1 DEF FewClaims
  <2>3. IsFiniteSet(T) /\ Cardinality(T) <= Cardinality(S)
    BY <2>2, FS_Subset
  <2>4. /\ Cardinality(T) \in Nat /\ Cardinality(S) \in Nat /\ Cardinality(Requests) \in Nat
    BY <2>2, <2>3, FS_CardinalityType
  <2>5. IsFiniteSet(T) /\ Cardinality(T) <= Cardinality(Requests)
    BY <2>2, <2>3, <2>4
  <2> QED
    BY <1>1, <2>5
<1>3. CASE T \subseteq {f[p].van : p \in G}
  <2>1. G \in SUBSET Requests
    BY <1>1 DEF Granted
  <2>2. IsFiniteSet(T) /\ Cardinality(T) <= Cardinality(Requests)
    BY <1>3, <2>1, CallsNameFew
  <2> QED
    BY <1>1, <2>2
<1> QED
  BY <1>1, <1>2, <1>3, ClaimsFollowChecks

\* Administrators may overlap their calls on any rows, calls may fail, the process may die:
\* if drivers change vans only through the assign endpoint, whose check and write
\* (vans.service.ts:424, :439) others come between, a driver has no more vans in service
\* than the server has requests in flight at once.
THEOREM OverlapSafety ==
    ASSUME IsFiniteSet(Requests), Requests # {}, {"createVan", "updateVan"} \cap Offered = {}
    PROVE  Spec => []VansOnlyOverlap
<1>1. Init => FewClaims
  BY InitClaims
<1>2. TypeInv /\ Routed /\ OnlyOffered /\ FewClaims /\ [Next]_vars => FewClaims'
  BY NextClaims
<1>3. FewClaims => VansOnlyOverlap
  <2> SUFFICES ASSUME FewClaims, NEW d \in Drivers
               PROVE  Cardinality(VansOf(d)) <= Cardinality(Requests)
    BY DEF VansOnlyOverlap
  <2>1. /\ IsFiniteSet(Claims(d)) /\ Cardinality(Claims(d)) <= Cardinality(Requests)
        /\ VansOf(d) \in SUBSET Claims(d)
    BY DEF FewClaims, Claims
  <2>2. IsFiniteSet(VansOf(d)) /\ Cardinality(VansOf(d)) <= Cardinality(Claims(d))
    BY <2>1, FS_Subset
  <2>3. /\ Cardinality(VansOf(d)) \in Nat /\ Cardinality(Claims(d)) \in Nat
        /\ Cardinality(Requests) \in Nat
    BY <2>1, <2>2, FS_CardinalityType
  <2> QED
    BY <2>1, <2>2, <2>3
<1> QED
  BY <1>1, <1>2, <1>3, TypeCorrect, RoutedHolds, ServesOffered, PTL DEF Spec

-----------------------------------------------------------------------------
(* A deleted driver drives nothing *)

\* An update that names no driver writes back the one the van still has.
WritesBackOwn ==
    \A r \in Requests :
        Writes(r, "updateVan") /\ req[r].driver = None => req[r].seen = van[req[r].van].driver

LEMMA WritesBack ==
    ASSUME SerialAdmins \/ "updateVan" \notin Offered
    PROVE  Spec => []WritesBackOwn
<1>1. CASE SerialAdmins
  <2>1. SerialInv => WritesBackOwn
    BY DEF SerialInv, WholeSeen, WritesBackOwn, Writes, At
  <2> QED
    BY <1>1, <2>1, QueriesStayTrue, PTL
<1>2. CASE "updateVan" \notin Offered
  <2>1. OnlyOffered => WritesBackOwn
    BY <1>2 DEF OnlyOffered, WritesBackOwn, Writes, At, Busy
  <2> QED
    BY <2>1, ServesOffered, PTL
<1> QED
  BY <1>1, <1>2

\* When administrators wait and nothing fails, no van keeps a deleted driver once the
\* handler that deleted it has finished; if only those of the same row wait, updateVan,
\* which writes back a driver it does not name, must not be called.
THEOREM DeletedDriverLeaves ==
    ASSUME SerialAdmins \/ (SerialRows /\ "updateVan" \notin Offered), ~MayFail
    PROVE  Spec => []DeletedDriverDrivesNothing
<1>1. Init => DeletedDriverDrivesNothing
  <2>1. Init => \A v \in Vans : van[v].driver # None => driver[van[v].driver].state = "live"
    BY DEF Init, Live
  <2> QED
    BY <2>1, FleetAssumption DEF DeletedDriverDrivesNothing
<1>2. TypeInv /\ RowInv /\ WritesBackOwn /\ DeletedDriverDrivesNothing /\ [Next]_vars
        => DeletedDriverDrivesNothing'
  <2> SUFFICES ASSUME TypeInv, RowInv, WritesBackOwn, DeletedDriverDrivesNothing, [Next]_vars,
                      NEW v \in Vans, NEW d \in Drivers, van'[v].driver = d,
                      driver'[d].state = "deleted"
               PROVE  BeingRemoved(d)'
    BY DEF DeletedDriverDrivesNothing, BeingRemoved
  <2>1. d # None
    BY FleetAssumption
  <2>2. CASE van[v].driver = d /\ driver[d].state = "deleted"
    <3>1. PICK p \in Requests : req[p].driver = d /\ At(p, "unassignVans")
      BY <2>2 DEF DeletedDriverDrivesNothing, BeingRemoved
    <3>2. SUFFICES ASSUME req'[p] # req[p] PROVE FALSE
      BY <3>1 DEF BeingRemoved, At
    <3>3. PICK r \in Requests : Arrive(r) \/ Step(r)
      BY <3>2 DEF Next, vars, Crash, CallFails
    <3>4. Busy(p)
      BY <3>1 DEF Busy, At
    <3>5. ~Arrive(r)
      <4>1. ASSUME NEW op, NEW call, NEW w, NEW e, NEW s, NEW a, Ask(r, op, call, w, e, s, a)
            PROVE  FALSE
        BY <3>2, <3>4, <4>1 DEF Ask, TypeInv, TypeOK
      <4> QED
        BY <4>1, ArriveAsks
    <3>6. r = p
      BY <3>2, <3>3, <3>5, StepMovesOne
    <3>7. UnassignVans(p)
      BY <3>1, <3>3, <3>5, <3>6
         DEF Step, At, Writes, CheckUnique, FindVan, UpdateVanFinds, FindDriver, FindDriverVan,
             FindStudent, FindRiderVan, CreateVan, UpdateVan, RemoveVan, AssignDriver,
             UnassignDriver, CreateDriver, UpdateDriver, RemoveDriver, LeaveVan,
             CreateStudent, UpdateStudent, RemoveStudent
    <3>8. van'[v].driver # d
      BY <2>1, <3>1, <3>7 DEF UnassignVans, WithoutDriver, TypeInv, TypeOK, VanRow
    <3> QED
      BY <3>8
  <2>3. CASE ~(van[v].driver = d /\ driver[d].state = "deleted")
    <3>1. ~UNCHANGED tables
      BY <2>3 DEF tables
    <3>2. PICK r \in Requests : Write(r)
      BY <3>1, WritesOrNot
    <3>3. CASE driver'[d] # driver[d]
      <4>1. RemoveDriver(r) /\ req[r].driver = d
        BY <3>2, <3>3, DriverWrites
      <4> QED
        BY <4>1, GotoHolds DEF RemoveDriver, BeingRemoved, At
    <3>4. CASE driver'[d] = driver[d]
      <4>1. van[v].driver # d /\ driver[d].state = "deleted"
        BY <2>3, <3>4
      <4>2. ~UnassignVans(r) /\ ~UNCHANGED van
        BY <2>1, <4>1 DEF UnassignVans, WithoutDriver, TypeInv, TypeOK, VanRow
      <4>3. PICK row \in VanRow : PutsVan(r, row) /\ At(r, "write") /\ req[r].van \in Vans
        BY <3>2, <4>2, VanWrites
      <4>4. v = req[r].van /\ row.driver = d
        BY <4>1, <4>3 DEF PutsVan, TypeInv, TypeOK
      <4>5. req[r].op = "updateVan" /\ req[r].driver = None => row.driver = van[v].driver
        BY <4>3, <4>4 DEF PutsVan, WritesBackOwn, Writes
      <4>6. InService(driver[d])
        BY <2>1, <4>1, <4>3, <4>4, <4>5 DEF PutsVan
      <4> QED
        BY <4>1, <4>6 DEF InService, Live
    <3> QED
      BY <3>3, <3>4
  <2> QED
    BY <2>2, <2>3
<1> QED
  BY <1>1, <1>2, RowsStayTrue, WritesBack, PTL DEF Spec
=============================================================================
