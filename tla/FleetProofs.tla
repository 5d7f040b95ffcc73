------------------------------ MODULE FleetProofs ------------------------------
(***************************************************************************)
(* Fleet keeps its types, for any number of slots, vans, drivers, students, *)
(* whoever overlaps and whatever fails.                                    *)
(***************************************************************************)
EXTENDS Fleet, TLAPS

\* What a request carries.
Carries(q) ==
    /\ q.op \in VanOps => q.van \in Vans
    /\ q.op \in DriverOps => q.driver \in Drivers
    /\ q.op \in StudentOps => q.student \in Students
    /\ q.op = "createStudent" => q.van # Keep
    /\ q.op = "updateVan" => q.seen \in Drivers \cup {None}
    /\ q.pc = "findVan" => q.van \in Vans
    /\ q.pc \in {"findDriver", "findDriverVan", "unassignVans"} => q.driver \in Drivers
    /\ q.pc = "findDriverVan" => q.op \in {"assignDriver", "updateVan"}
    /\ q.pc = "unassignVans" => q.op = "removeDriver"
    /\ q.pc = "leaveVan" => q.op = "updateStudent"
    /\ q.op = "assignDriver" => q.driver \in Drivers /\ q.pc # "unique"
    /\ q.pc # "idle" => q.op \in Ops

TypeInv == TypeOK /\ \A r \in Requests : Carries(req[r])

-----------------------------------------------------------------------------
(* Types *)

LEMMA IdleTyped == Idle \in Request /\ Carries(Idle)
BY DEF Idle, Request, Calls, Carries, Ops, VanOps, DriverOps, StudentOps

LEMMA InitTypeInv == Init => TypeInv
BY IdleTyped DEF Init, TypeInv, TypeOK

\* One slot changes, to a request that is well formed.
LEMMA SlotTyped ==
    ASSUME TypeInv, NEW r \in Requests, NEW q \in Request, Carries(q),
           req' = [req EXCEPT ![r] = q]
    PROVE  req' \in [Requests -> Request] /\ \A p \in Requests : Carries(req'[p])
BY DEF TypeInv, TypeOK

LEMMA ReplyTyped ==
    ASSUME TypeInv, NEW r \in Requests, Reply(r)
    PROVE  req' \in [Requests -> Request] /\ \A p \in Requests : Carries(req'[p])
BY SlotTyped, IdleTyped DEF Reply

\* Going on to the next call keeps what the request carries.
LEMMA GotoTyped ==
    ASSUME TypeInv, NEW r \in Requests, NEW call \in Calls, Goto(r, call), Busy(r),
           call = "findVan" => req[r].van \in Vans,
           call \in {"findDriver", "findDriverVan", "unassignVans"} => req[r].driver \in Drivers,
           call = "findDriverVan" => req[r].op \in {"assignDriver", "updateVan"},
           call = "unassignVans" => req[r].op = "removeDriver",
           call = "leaveVan" => req[r].op = "updateStudent",
           call # "unique"
    PROVE  req' \in [Requests -> Request] /\ \A p \in Requests : Carries(req'[p])
<1> DEFINE q == [req[r] EXCEPT !.pc = call]
<1>1. req[r] \in Request /\ Carries(req[r])
  BY DEF TypeInv, TypeOK
<1>2. q \in Request
  BY <1>1 DEF Request
<1>3. /\ q.op = req[r].op /\ q.van = req[r].van /\ q.driver = req[r].driver
      /\ q.student = req[r].student /\ q.seen = req[r].seen /\ q.pc = call
  BY <1>1 DEF Request
<1>4. Carries(q)
  BY <1>1, <1>3 DEF Carries, Busy
<1>5. req' = [req EXCEPT ![r] = q]
  BY DEF Goto, TypeInv, TypeOK
<1> QED
  BY <1>2, <1>4, <1>5, SlotTyped

LEMMA GotoSeenTyped ==
    ASSUME TypeInv, NEW r \in Requests, NEW call \in {"unique", "findDriver", "findVan", "write"},
           NEW value \in Vans \cup Drivers \cup {None}, GotoSeen(r, call, value), Busy(r),
           call = "findVan" => req[r].van \in Vans,
           call = "findDriver" => req[r].driver \in Drivers,
           call = "unique" => req[r].op # "assignDriver",
           req[r].op = "updateVan" => value \in Drivers \cup {None}
    PROVE  req' \in [Requests -> Request] /\ \A p \in Requests : Carries(req'[p])
<1> DEFINE q == [req[r] EXCEPT !.pc = call, !.seen = value]
<1>1. req[r] \in Request /\ Carries(req[r])
  BY DEF TypeInv, TypeOK
<1>2. q \in Request
  BY <1>1 DEF Request, Calls
<1>3. /\ q.op = req[r].op /\ q.van = req[r].van /\ q.driver = req[r].driver
      /\ q.student = req[r].student /\ q.seen = value /\ q.pc = call
  BY <1>1 DEF Request
<1>4. Carries(q)
  BY <1>1, <1>3 DEF Carries, Busy
<1>5. req' = [req EXCEPT ![r] = q]
  BY DEF GotoSeen, TypeInv, TypeOK
<1> QED
  BY <1>2, <1>4, <1>5, SlotTyped

LEMMA AskTyped ==
    ASSUME TypeInv, NEW r \in Requests, NEW op \in Ops,
           NEW call \in {"unique", "findVan", "findDriver", "findStudent"},
           NEW v \in Vans \cup {None, Keep}, NEW d \in Drivers \cup {None},
           NEW s \in Students \cup {None}, NEW a \in BOOLEAN \cup {Keep},
           Ask(r, op, call, v, d, s, a),
           op \in VanOps => v \in Vans,
           op \in DriverOps => d \in Drivers,
           op \in StudentOps => s \in Students,
           op = "createStudent" => v # Keep,
           op = "assignDriver" => d \in Drivers /\ call # "unique",
           call = "findVan" => v \in Vans,
           call = "findDriver" => d \in Drivers
    PROVE  TypeInv'
<1> DEFINE q == [op |-> op, pc |-> call, van |-> v, driver |-> d, student |-> s,
                 active |-> a, seen |-> None]
<1>1. q \in Request /\ Carries(q)
  BY DEF Request, Calls, Carries
<1>2. req' = [req EXCEPT ![r] = q]
  BY DEF Ask
<1> QED
  BY <1>1, <1>2, SlotTyped DEF Ask, tables, TypeInv, TypeOK

LEMMA ArriveTypeInv ==
    ASSUME TypeInv, NEW r \in Requests, Arrive(r)
    PROVE  TypeInv'
<1>1. ASSUME NEW v \in Vans, RequestVanOp(r, v) PROVE TypeInv'
  <2>1. ASSUME NEW d \in Drivers \cup {None}, Ask(r, "createVan", "unique", v, d, None, Keep)
        PROVE  TypeInv'
    BY <2>1, AskTyped DEF Ops, VanOps, DriverOps, StudentOps
  <2>2. ASSUME NEW d \in Drivers \cup {None}, NEW a \in BOOLEAN \cup {Keep},
               Ask(r, "updateVan", "findVan", v, d, None, a)
        PROVE  TypeInv'
    BY <2>2, AskTyped DEF Ops, VanOps, DriverOps, StudentOps
  <2>3. ASSUME Ask(r, "removeVan", "findVan", v, None, None, Keep) PROVE TypeInv'
    BY <2>3, AskTyped DEF Ops, VanOps, DriverOps, StudentOps
  <2>4. ASSUME NEW d \in Drivers, Ask(r, "assignDriver", "findVan", v, d, None, Keep)
        PROVE  TypeInv'
    BY <2>4, AskTyped DEF Ops, VanOps, DriverOps, StudentOps
  <2>5. ASSUME Ask(r, "unassignDriver", "findVan", v, None, None, Keep) PROVE TypeInv'
    BY <2>5, AskTyped DEF Ops, VanOps, DriverOps, StudentOps
  <2> QED
    BY <1>1, <2>1, <2>2, <2>3, <2>4, <2>5 DEF RequestVanOp
<1>2. ASSUME NEW d \in Drivers, RequestDriverOp(r, d) PROVE TypeInv'
  <2>1. ASSUME Ask(r, "createDriver", "unique", None, d, None, Keep) PROVE TypeInv'
    BY <2>1, AskTyped DEF Ops, VanOps, DriverOps, StudentOps
  <2>2. ASSUME NEW a \in BOOLEAN \cup {Keep},
               Ask(r, "updateDriver", "findDriver", None, d, None, a)
        PROVE  TypeInv'
    <3>1. "updateDriver" \in Ops \ (VanOps \cup StudentOps)
      BY DEF Ops, VanOps, DriverOps, StudentOps
    <3> QED
      BY <2>2, <3>1, AskTyped
  <2>3. ASSUME Ask(r, "removeDriver", "findDriver", None, d, None, Keep) PROVE TypeInv'
    BY <2>3, AskTyped DEF Ops, VanOps, DriverOps, StudentOps
  <2> QED
    BY <1>2, <2>1, <2>2, <2>3 DEF RequestDriverOp
<1>3. ASSUME NEW s \in Students, RequestStudentOp(r, s) PROVE TypeInv'
  <2>1. ASSUME NEW v \in Vans \cup {None}, Ask(r, "createStudent", "unique", v, None, s, Keep)
        PROVE  TypeInv'
    <3>1. v # Keep /\ v \in Vans \cup {None, Keep}
      BY FleetAssumption
    <3>2. "createStudent" \in Ops \ (VanOps \cup DriverOps)
      BY DEF Ops, VanOps, DriverOps, StudentOps
    <3> QED
      BY <2>1, <3>1, <3>2, AskTyped
  <2>2. ASSUME NEW v \in Vans \cup {None, Keep}, NEW a \in BOOLEAN \cup {Keep},
               Ask(r, "updateStudent", "findStudent", v, None, s, a)
        PROVE  TypeInv'
    <3>1. "updateStudent" \in Ops \ (VanOps \cup DriverOps)
      BY DEF Ops, VanOps, DriverOps, StudentOps
    <3> QED
      BY <2>2, <3>1, AskTyped
  <2>3. ASSUME Ask(r, "removeStudent", "findStudent", None, None, s, Keep) PROVE TypeInv'
    BY <2>3, AskTyped DEF Ops, VanOps, DriverOps, StudentOps
  <2> QED
    BY <1>3, <2>1, <2>2, <2>3 DEF RequestStudentOp
<1> QED
  BY <1>1, <1>2, <1>3 DEF Arrive

\* A request that goes nowhere else than to the next query, or is answered.
LEMMA QueryTypeInv ==
    ASSUME TypeInv, NEW r \in Requests,
           \/ CheckUnique(r) \/ FindVan(r) \/ UpdateVanFinds(r) \/ FindDriver(r)
           \/ FindDriverVan(r) \/ FindStudent(r) \/ FindRiderVan(r) \/ CallFails(r)
    PROVE  TypeInv'
<1> USE DEF Calls, Busy, At
<1>0. req[r] \in Request /\ Carries(req[r])
  BY DEF TypeInv, TypeOK
<1>1. ASSUME UNCHANGED tables, req' \in [Requests -> Request],
             \A p \in Requests : Carries(req'[p])
      PROVE  TypeInv'
  BY <1>1 DEF tables, TypeInv, TypeOK
<1>2. ASSUME Reply(r), UNCHANGED tables PROVE TypeInv'
  BY <1>1, <1>2, ReplyTyped
<1>3. CASE CheckUnique(r)
  <2>1. ASSUME Goto(r, AfterUnique(req[r])) PROVE TypeInv'
    <3>1. AfterUnique(req[r]) = "findVan" => req[r].van \in Vans
      BY <1>0, FleetAssumption DEF AfterUnique, Request, Carries
    <3>2. AfterUnique(req[r]) = "findDriver" => req[r].driver \in Drivers
      BY <1>0 DEF AfterUnique, Request
    <3>3. AfterUnique(req[r]) \in {"findVan", "findDriver", "write"}
      BY DEF AfterUnique
    <3> QED
      BY <1>1, <1>3, <2>1, <3>1, <3>2, <3>3, GotoTyped DEF CheckUnique
  <2> QED
    BY <1>2, <1>3, <2>1 DEF CheckUnique
<1>4. CASE FindVan(r)
  <2>1. ASSUME NEW call \in {"findDriver", "write"}, Goto(r, call),
               call = "findDriver" => req[r].op = "assignDriver"
        PROVE  TypeInv'
    BY <1>0, <1>1, <1>4, <2>1, GotoTyped DEF FindVan, Carries
  <2> QED
    BY <1>2, <1>4, <2>1 DEF FindVan
<1>5. CASE UpdateVanFinds(r)
  <2>1. ASSUME NEW call \in {"unique", AfterUnique(req[r])},
               GotoSeen(r, call, van[req[r].van].driver)
        PROVE  TypeInv'
    <3>1. call \in {"unique", "findDriver", "write"}
      BY <1>5 DEF AfterUnique, UpdateVanFinds
    <3>2. call = "findDriver" => req[r].driver \in Drivers
      BY <1>0, <1>5 DEF AfterUnique, Request, UpdateVanFinds
    <3>3. van[req[r].van].driver \in Drivers \cup {None}
      BY <1>0, <1>5 DEF TypeInv, TypeOK, VanRow, Carries, VanOps, UpdateVanFinds
    <3> QED
      BY <1>1, <1>5, <2>1, <3>1, <3>2, <3>3, GotoSeenTyped DEF UpdateVanFinds
  <2> QED
    BY <1>2, <1>5, <2>1 DEF UpdateVanFinds
<1>6. CASE FindDriver(r)
  <2>1. ASSUME NEW call \in {"findDriverVan", "write"}, Goto(r, call),
               call = "findDriverVan" => req[r].op \in {"assignDriver", "updateVan"}
        PROVE  TypeInv'
    BY <1>0, <1>1, <1>6, <2>1, GotoTyped DEF FindDriver, Carries
  <2> QED
    BY <1>2, <1>6, <2>1 DEF FindDriver
<1>7. CASE FindDriverVan(r)
  <2>1. ASSUME Goto(r, "write") PROVE TypeInv'
    BY <1>1, <1>7, <2>1, GotoTyped DEF FindDriverVan
  <2> QED
    BY <1>2, <1>7, <2>1 DEF FindDriverVan
<1>8. CASE FindStudent(r)
  <2>1. ASSUME Goto(r, "write") PROVE TypeInv'
    BY <1>1, <1>8, <2>1, GotoTyped DEF FindStudent
  <2>2. ASSUME req[r].op = "updateStudent", req[r].van \in Vans,
               GotoSeen(r, "findVan", student[req[r].student].van)
        PROVE  TypeInv'
    <3>1. student[req[r].student].van \in Vans \cup {None}
      BY <1>0, <2>2 DEF TypeInv, TypeOK, StudentRow, Carries, StudentOps
    <3> QED
      BY <1>1, <1>8, <2>2, <3>1, GotoSeenTyped DEF FindStudent
  <2> QED
    BY <1>2, <1>8, <2>1, <2>2 DEF FindStudent
<1>9. CASE FindRiderVan(r)
  <2>1. ASSUME NEW call \in {"leaveVan", "write"}, Goto(r, call),
               call = "leaveVan" => req[r].op = "updateStudent"
        PROVE  TypeInv'
    BY <1>0, <1>1, <1>9, <2>1, GotoTyped DEF FindRiderVan
  <2> QED
    BY <1>2, <1>9, <2>1 DEF FindRiderVan
<1>10. CASE CallFails(r)
  BY <1>2, <1>10 DEF CallFails
<1> QED
  BY <1>3, <1>4, <1>5, <1>6, <1>7, <1>8, <1>9, <1>10

Write(r) ==
    \/ CreateVan(r) \/ UpdateVan(r) \/ RemoveVan(r) \/ AssignDriver(r) \/ UnassignDriver(r)
    \/ CreateDriver(r) \/ UpdateDriver(r) \/ RemoveDriver(r) \/ UnassignVans(r)
    \/ LeaveVan(r) \/ CreateStudent(r) \/ UpdateStudent(r) \/ RemoveStudent(r)

LEMMA WriteTypeInv ==
    ASSUME TypeInv, NEW r \in Requests, Write(r)
    PROVE  TypeInv'
<1> USE DEF Writes, At
<1>0. req[r] \in Request /\ Carries(req[r])
  BY DEF TypeInv, TypeOK
<1>1. ASSUME NEW row \in VanRow, req[r].op \in VanOps, WriteVan(r, row) PROVE TypeInv'
  BY <1>0, <1>1, ReplyTyped DEF WriteVan, TypeInv, TypeOK, Carries
<1>2. ASSUME NEW row \in DriverRow, req[r].op \in DriverOps, WriteDriver(r, row),
             req' \in [Requests -> Request], \A p \in Requests : Carries(req'[p])
      PROVE  TypeInv'
  BY <1>0, <1>2 DEF WriteDriver, TypeInv, TypeOK, Carries
<1>3. ASSUME NEW row \in StudentRow, req[r].op \in StudentOps, WriteStudent(r, row)
      PROVE  TypeInv'
  BY <1>0, <1>3, ReplyTyped DEF WriteStudent, TypeInv, TypeOK, Carries
<1>4. req[r].op \in VanOps => van[req[r].van] \in VanRow
  BY <1>0 DEF TypeInv, TypeOK, Carries
<1>5. req[r].op \in DriverOps => driver[req[r].driver] \in DriverRow
  BY <1>0 DEF TypeInv, TypeOK, Carries
<1>6. req[r].op \in StudentOps => student[req[r].student] \in StudentRow
  BY <1>0 DEF TypeInv, TypeOK, Carries
<1>7. req[r].active # Keep => req[r].active \in BOOLEAN
  BY <1>0 DEF Request
<1>8. CASE CreateVan(r)
  <2>1. [state |-> "live", active |-> TRUE, driver |-> req[r].driver] \in VanRow
    BY <1>0 DEF VanRow, States, Request
  <2> QED
    BY <1>1, <1>8, <2>1 DEF CreateVan, VanOps
<1>9. CASE UpdateVan(r)
  <2>1. UpdatedVan(van[req[r].van], req[r]) \in VanRow
    BY <1>0, <1>4, <1>7, <1>9 DEF UpdateVan, UpdatedVan, VanRow, Carries, Request, VanOps
  <2> QED
    BY <1>1, <1>9, <2>1 DEF UpdateVan, VanOps
<1>10. CASE RemoveVan(r)
  <2>1. [van[req[r].van] EXCEPT !.state = "deleted", !.active = FALSE] \in VanRow
    BY <1>4, <1>10 DEF RemoveVan, VanRow, States, VanOps
  <2> QED
    BY <1>1, <1>10, <2>1 DEF RemoveVan, VanOps
<1>11. CASE AssignDriver(r)
  <2>1. [van[req[r].van] EXCEPT !.driver = req[r].driver] \in VanRow
    BY <1>0, <1>4, <1>11 DEF AssignDriver, VanRow, VanOps, Request
  <2> QED
    BY <1>1, <1>11, <2>1 DEF AssignDriver, VanOps
<1>12. CASE UnassignDriver(r)
  <2>1. [van[req[r].van] EXCEPT !.driver = None] \in VanRow
    BY <1>4, <1>12 DEF UnassignDriver, VanRow, VanOps
  <2> QED
    BY <1>1, <1>12, <2>1 DEF UnassignDriver, VanOps
<1>13. CASE CreateDriver(r)
  BY <1>2, <1>13, ReplyTyped DEF CreateDriver, DriverOps, DriverRow, States
<1>14. CASE UpdateDriver(r)
  <2>1. [driver[req[r].driver] EXCEPT
            !.active = IF req[r].active = Keep THEN @ ELSE req[r].active] \in DriverRow
    BY <1>5, <1>7, <1>14 DEF UpdateDriver, DriverRow, DriverOps
  <2> QED
    BY <1>2, <1>14, <2>1, ReplyTyped DEF UpdateDriver, DriverOps
<1>15. CASE RemoveDriver(r)
  <2>1. [driver[req[r].driver] EXCEPT !.state = "deleted", !.active = FALSE] \in DriverRow
    BY <1>5, <1>15 DEF RemoveDriver, DriverRow, States, DriverOps
  <2>2. req' \in [Requests -> Request] /\ \A p \in Requests : Carries(req'[p])
    BY <1>0, <1>15, GotoTyped DEF RemoveDriver, Calls, Busy, Carries, DriverOps
  <2> QED
    BY <1>2, <1>15, <2>1, <2>2 DEF RemoveDriver, DriverOps
<1>16. CASE UnassignVans(r)
  <2>1. \A v \in Vans : WithoutDriver(van[v], req[r].driver) \in VanRow
    BY DEF TypeInv, TypeOK, WithoutDriver, VanRow
  <2> QED
    BY <1>16, <2>1, ReplyTyped DEF UnassignVans, TypeInv, TypeOK
<1>17. CASE LeaveVan(r)
  <2>1. student' \in [Students -> StudentRow]
    BY <1>17 DEF LeaveVan, TypeInv, TypeOK, StudentRow
  <2>2. req' \in [Requests -> Request] /\ \A p \in Requests : Carries(req'[p])
    BY <1>17, GotoTyped DEF LeaveVan, Calls, Busy
  <2> QED
    BY <1>17, <2>1, <2>2 DEF LeaveVan, TypeInv, TypeOK
<1>18. CASE CreateStudent(r)
  <2>1. [state |-> "live", active |-> TRUE, van |-> req[r].van] \in StudentRow
    BY <1>0, <1>18 DEF CreateStudent, StudentRow, States, Request, Carries
  <2> QED
    BY <1>3, <1>18, <2>1 DEF CreateStudent, StudentOps
<1>19. CASE UpdateStudent(r)
  <2>1. UpdatedStudent(student[req[r].student], req[r]) \in StudentRow
    BY <1>0, <1>6, <1>7, <1>19 DEF UpdateStudent, UpdatedStudent, StudentRow, Request, StudentOps
  <2> QED
    BY <1>3, <1>19, <2>1 DEF UpdateStudent, StudentOps
<1>20. CASE RemoveStudent(r)
  <2>1. RemovedStudent(student[req[r].student]) \in StudentRow
    BY <1>6, <1>20 DEF RemoveStudent, RemovedStudent, StudentRow, States, StudentOps
  <2> QED
    BY <1>3, <1>20, <2>1 DEF RemoveStudent, StudentOps
<1> QED
  BY <1>8, <1>9, <1>10, <1>11, <1>12, <1>13, <1>14, <1>15, <1>16, <1>17, <1>18, <1>19, <1>20
     DEF Write

LEMMA CrashTypeInv == ASSUME TypeInv, Crash PROVE TypeInv'
BY IdleTyped DEF Crash, tables, TypeInv, TypeOK

\* Every row and every request keeps its type, whatever overlaps, fails or crashes.
THEOREM TypeCorrect == Spec => []TypeInv
<1>1. Init => TypeInv
  BY InitTypeInv
<1>2. TypeInv /\ [Next]_vars => TypeInv'
  <2> SUFFICES ASSUME TypeInv, [Next]_vars PROVE TypeInv'
    OBVIOUS
  <2>1. ASSUME NEW r \in Requests, Arrive(r) \/ Step(r) \/ CallFails(r) PROVE TypeInv'
    BY <2>1, ArriveTypeInv, QueryTypeInv, WriteTypeInv DEF Step, Write
  <2>2. CASE UNCHANGED vars
    BY <2>2 DEF vars, TypeInv, TypeOK
  <2> QED
    BY <2>1, <2>2, CrashTypeInv DEF Next
<1> QED
  BY <1>1, <1>2, PTL DEF Spec

\* TypeOK of Fleet is an invariant.
THEOREM TypeSafety == Spec => []TypeOK
BY TypeCorrect, PTL DEF TypeInv
=============================================================================
