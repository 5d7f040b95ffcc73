-------------------------- MODULE LiveTrackingProofs --------------------------
(***************************************************************************)
(* Theorems about LiveTracking: the types, who is subscribed, and that an  *)
(* acknowledged position is neither overwritten in the stores nor followed *)
(* by an older one at a client, whatever fails.                            *)
(***************************************************************************)
EXTENDS LiveTracking, SequenceTheorems, TLAPS

Writes == {"location", "rest"}
InRow == {"updateVan", "ack"}

\* What a request carries.
Shape(q) ==
    /\ q.pc = "idle" <=> q.op = "none"
    /\ q.op = "connect" => q.socket \in Sockets /\ q.pc \in {"findUser", "redis"}
    /\ q.pc = "findUser" => q.op = "connect"
    /\ q.op \in Writes => q.van \in Vans /\ q.pos # 0 /\ q.pc \in {"redis"} \cup InRow
    /\ q.pc \in InRow => q.op = "location"
    /\ q.op = "subscribe" => /\ q.socket \in Sockets /\ q.van \in Vans
                             /\ q.pc \in {"checkAccess", "redis"}
    /\ q.pc = "checkAccess" => q.op = "subscribe"

\* Who waits in the queue waits for Redis, and waits once.
QueueShape ==
    /\ \A i \in 1 .. Len(redisQueue) : At(redisQueue[i], "redis")
    /\ \A i, j \in 1 .. Len(redisQueue) : redisQueue[i] = redisQueue[j] => i = j

TypeInv == TypeOK /\ QueueShape /\ \A r \in Requests : Shape(req[r])

ReqTyped == req \in [Requests -> Request] /\ \A r \in Requests : Shape(req[r])

QueueTyped == redisQueue \in Seq(Requests) /\ executed \in 0 .. Len(redisQueue) /\ QueueShape

-----------------------------------------------------------------------------
(* Types *)

LEMMA IdleTyped == Idle \in Request /\ Shape(Idle)
<1>1. Idle = [op |-> "none", pc |-> "idle", socket |-> None, van |-> None, pos |-> 0]
  BY DEF Idle, Serve
<1>2. Idle \in Request
  BY <1>1, LiveTrackingAssumption DEF Request, Position
<1> QED
  BY <1>1, <1>2 DEF Shape, Writes, InRow

LEMMA InitType == Init => TypeInv
<1> SUFFICES ASSUME Init PROVE TypeInv
  OBVIOUS
<1>1. redisQueue = <<>> /\ redisQueue \in Seq(Requests) /\ Len(redisQueue) = 0
  BY DEF Init
<1>2. 0 \in Position
  BY LiveTrackingAssumption DEF Position
<1>3. ReqTyped
  BY IdleTyped DEF Init, ReqTyped
<1>4. /\ socket \in [Sockets -> SocketState] /\ subscribers \in [Vans -> SUBSET Sockets]
      /\ driverVans \subseteq Vans /\ childVans \subseteq Vans
  BY DEF Init, SocketState
<1>5. /\ cached \in [Vans -> Position] /\ stored \in [Vans -> Position]
      /\ received \in [Vans -> Position] /\ shown \in [Sockets -> [Vans -> Position]]
      /\ ackedAt \in [Vans -> [1 .. MaxPings -> Position]]
  BY <1>2 DEF Init
<1>6. executed \in 0 .. Len(redisQueue) /\ QueueShape
  BY <1>1 DEF Init, QueueShape
<1> QED
  BY <1>1, <1>3, <1>4, <1>5, <1>6 DEF TypeInv, TypeOK, ReqTyped

LEMMA FinishTyped ==
    ASSUME TypeInv, NEW r \in Requests, Finish(r)
    PROVE  ReqTyped'
BY IdleTyped DEF TypeInv, TypeOK, ReqTyped, Finish

\* A handler that does not wait for Redis moves: the queue stays as it is.
LEMMA QueueStays ==
    ASSUME TypeInv, NEW r \in Requests, ~At(r, "redis"), UNCHANGED redis,
           \A p \in Requests \ {r} : req'[p] = req[p]
    PROVE  QueueTyped'
BY DEF TypeInv, TypeOK, QueueTyped, QueueShape, At, redis

\* A handler starts to wait for Redis.
LEMMA IssueTyped ==
    ASSUME TypeInv, NEW r \in Requests, ~At(r, "redis"),
           NEW o \in Writes \cup {"connect", "subscribe"}, NEW s \in Sockets \cup {None},
           NEW v \in Vans \cup {None}, NEW p \in Position, Issue(r, o, s, v, p),
           o \in Writes => v \in Vans /\ p # 0,
           o \in {"connect", "subscribe"} => s \in Sockets,
           o = "subscribe" => v \in Vans
    PROVE  ReqTyped' /\ QueueTyped'
<1> DEFINE n == Len(redisQueue)
           new == Serve(o, "redis", s, v, p)
<1>1. /\ new \in Request /\ Shape(new) /\ new.pc = "redis"
      /\ req' = [req EXCEPT ![r] = new] /\ redisQueue' = Append(redisQueue, r) /\ executed' = executed
  BY DEF Issue, Serve, Request, Shape, Writes, InRow, Calls, Ops
<1> HIDE DEF new
<1>2. redisQueue \in Seq(Requests) /\ n \in Nat /\ executed \in 0 .. n
  BY DEF TypeInv, TypeOK
<1>3. ReqTyped'
  BY <1>1 DEF TypeInv, TypeOK, ReqTyped
<1>4. /\ redisQueue' \in Seq(Requests) /\ Len(redisQueue') = n + 1
      /\ redisQueue'[n + 1] = r /\ \A i \in 1 .. n : redisQueue'[i] = redisQueue[i]
  BY <1>1, <1>2
<1>5. \A i \in 1 .. n : redisQueue[i] \in Requests /\ redisQueue[i] # r
  BY <1>2 DEF TypeInv, QueueShape
<1>6. \A i \in 1 .. n : req'[redisQueue[i]] = req[redisQueue[i]]
  BY <1>1, <1>5 DEF TypeInv, TypeOK
<1>7. req'[r].pc = "redis"
  BY <1>1 DEF TypeInv, TypeOK
<1>8. ASSUME NEW i \in 1 .. n + 1 PROVE req'[redisQueue'[i]].pc = "redis"
  <2>1. CASE i = n + 1
    BY <1>4, <1>7, <2>1
  <2>2. CASE i \in 1 .. n
    BY <1>4, <1>6, <2>2 DEF TypeInv, QueueShape, At
  <2> QED
    BY <1>2, <2>1, <2>2
<1>9. ASSUME NEW i \in 1 .. n + 1, NEW j \in 1 .. n + 1, redisQueue'[i] = redisQueue'[j]
      PROVE  i = j
  <2>1. CASE i \in 1 .. n /\ j \in 1 .. n
    BY <1>4, <1>9, <2>1 DEF TypeInv, QueueShape
  <2>2. CASE i = n + 1 \/ j = n + 1
    BY <1>2, <1>4, <1>5, <1>9, <2>2
  <2> QED
    BY <1>2, <2>1, <2>2
<1>10. QueueShape'
  BY <1>4, <1>8, <1>9 DEF QueueShape, At
<1> QED
  BY <1>1, <1>2, <1>3, <1>4, <1>10 DEF QueueTyped

\* The oldest command leaves the queue, and its handler stops waiting or is gone.
LEMMA DequeueTyped ==
    ASSUME TypeInv, redisQueue # <<>>, Dequeue,
           \A p \in Requests \ {Head(redisQueue)} : req'[p] = req[p]
    PROVE  /\ QueueTyped'
           /\ Head(redisQueue) \in Requests /\ At(Head(redisQueue), "redis")
           /\ Len(redisQueue') = Len(redisQueue) - 1
           /\ \A i \in 1 .. Len(redisQueue') :
                 /\ i + 1 \in 1 .. Len(redisQueue)
                 /\ redisQueue'[i] = redisQueue[i + 1]
                 /\ req'[redisQueue'[i]] = req[redisQueue[i + 1]]
<1> DEFINE n == Len(redisQueue)
<1>1. redisQueue \in Seq(Requests) /\ n \in Nat \ {0} /\ executed \in 0 .. n
  BY DEF TypeInv, TypeOK
<1>2. redisQueue' = Tail(redisQueue) /\ Len(redisQueue') = n - 1 /\ redisQueue' \in Seq(Requests)
  BY <1>1 DEF Dequeue
<1>3. Head(redisQueue) = redisQueue[1] /\ redisQueue[1] \in Requests
  BY <1>1
<1>4. \A i \in 1 .. n - 1 : i + 1 \in 1 .. n /\ redisQueue'[i] = redisQueue[i + 1]
  BY <1>1, <1>2
<1>5. \A i \in 1 .. n - 1 : redisQueue[i + 1] \in Requests /\ redisQueue[i + 1] # redisQueue[1]
  BY <1>1, <1>4 DEF TypeInv, QueueShape
<1>6. \A i \in 1 .. n - 1 : req'[redisQueue'[i]] = req[redisQueue[i + 1]]
  BY <1>3, <1>4, <1>5
<1>7. \A i, j \in 1 .. n - 1 : redisQueue'[i] = redisQueue'[j] => i = j
  BY <1>1, <1>4 DEF TypeInv, QueueShape
<1>8. QueueShape'
  BY <1>2, <1>4, <1>6, <1>7 DEF TypeInv, QueueShape, At
<1>9. executed' \in 0 .. n - 1
  BY <1>1 DEF Dequeue
<1>10. At(Head(redisQueue), "redis")
  BY <1>1, <1>3 DEF TypeInv, QueueShape
<1> QED
  BY <1>2, <1>3, <1>4, <1>6, <1>8, <1>9, <1>10 DEF QueueTyped

\* The rest of the types.
RowsTyped ==
    /\ socket \in [Sockets -> SocketState]
    /\ subscribers \in [Vans -> SUBSET Sockets]
    /\ cached \in [Vans -> Position]
    /\ stored \in [Vans -> Position]
    /\ driverVans \subseteq Vans
    /\ childVans \subseteq Vans
    /\ received \in [Vans -> Position]
    /\ ackedAt \in [Vans -> [1 .. MaxPings -> Position]]
    /\ shown \in [Sockets -> [Vans -> Position]]

LEMMA TypeParts ==
    /\ TypeInv <=> RowsTyped /\ ReqTyped /\ QueueTyped
    /\ (TypeInv <=> RowsTyped /\ ReqTyped /\ QueueTyped)'
BY DEF TypeInv, TypeOK, RowsTyped, ReqTyped, QueueTyped

LEMMA PositionIsNat ==
    /\ Position \subseteq Nat /\ 0 \in Position
    /\ \A p \in Position : p < MaxPings => p + 1 \in Position /\ p + 1 \in 1 .. MaxPings
    /\ \A p \in Position : p # 0 => p \in 1 .. MaxPings
BY LiveTrackingAssumption DEF Position

LEMMA ReqFacts ==
    ASSUME TypeInv, NEW r \in Requests
    PROVE  req[r] \in Request /\ Shape(req[r]) /\ RowsTyped
BY DEF TypeInv, TypeOK, RowsTyped

LEMMA GotoTyped ==
    ASSUME TypeInv, NEW r \in Requests, NEW call \in InRow, Goto(r, call),
           req[r].op = "location"
    PROVE  ReqTyped' /\ \A p \in Requests \ {r} : req'[p] = req[p]
<1> DEFINE q == [req[r] EXCEPT !.pc = call]
<1>1. /\ req' = [req EXCEPT ![r] = q] /\ req[r] \in Request /\ Shape(req[r])
      /\ req \in [Requests -> Request]
  BY DEF Goto, TypeInv, TypeOK
<1>2. call \in Calls
  BY DEF InRow, Calls
<1>3. /\ q \in Request /\ q.pc = call /\ q.op = req[r].op
      /\ q.socket = req[r].socket /\ q.van = req[r].van /\ q.pos = req[r].pos
  BY <1>1, <1>2 DEF Request
<1>4. Shape(q)
  BY <1>1, <1>3 DEF Shape, Writes, InRow
<1> QED
  BY <1>1, <1>3, <1>4 DEF TypeInv, ReqTyped

LEMMA ReceiveType ==
    ASSUME TypeInv, NEW r \in Requests, NEW o \in Writes, NEW s \in Sockets \cup {None},
           NEW v \in Vans, Receive(r, o, s, v)
    PROVE  TypeInv'
<1> DEFINE n == received[v] + 1
<1>1. ~At(r, "redis") /\ Issue(r, o, s, v, n) /\ n \in Position /\ n # 0
  <2>1. ~At(r, "redis") /\ Issue(r, o, s, v, n) /\ received[v] < MaxPings
    BY DEF Receive, Busy, At
  <2>2. received[v] \in Position
    BY DEF TypeInv, TypeOK
  <2>3. n \in Position /\ n # 0
    BY <2>1, <2>2, LiveTrackingAssumption DEF Position
  <2> QED
    BY <2>1, <2>3
<1>2. ReqTyped' /\ QueueTyped'
  <2>1. o # "connect" /\ o # "subscribe"
    BY DEF Writes
  <2> HIDE DEF n
  <2> QED
    BY <1>1, <2>1, IssueTyped
<1>3. RowsTyped'
  BY <1>1 DEF Receive, TypeInv, TypeOK, RowsTyped, clients, stores, fleet
<1> QED
  BY <1>2, <1>3, TypeParts

\* A socket opens or closes.
LEMMA StateChanges ==
    ASSUME socket \in [Sockets -> SocketState], NEW s \in Sockets, NEW st \in {"open", "closed"},
           socket' = [socket EXCEPT ![s].state = st]
    PROVE  /\ socket' \in [Sockets -> SocketState]
           /\ \A x \in Sockets :
                 /\ socket'[x].role = socket[x].role /\ socket'[x].vans = socket[x].vans
                 /\ x # s => socket'[x] = socket[x]
           /\ socket'[s].state = st
<1> DEFINE row == [socket[s] EXCEPT !.state = st]
<1>1. socket' = [socket EXCEPT ![s] = row] /\ socket[s] \in SocketState
  OBVIOUS
<1>2. /\ row \in SocketState /\ row.state = st
      /\ row.role = socket[s].role /\ row.vans = socket[s].vans
  BY <1>1 DEF SocketState
<1> HIDE DEF row
<1> QED
  BY <1>1, <1>2

\* handleConnection stores the user on the socket.
LEMMA UserStored ==
    ASSUME socket \in [Sockets -> SocketState], NEW s \in Sockets, NEW role \in Roles,
           NEW vans \in SUBSET Vans,
           socket' = [socket EXCEPT ![s] = [@ EXCEPT !.role = role, !.vans = vans]]
    PROVE  /\ socket' \in [Sockets -> SocketState]
           /\ \A x \in Sockets \ {s} : socket'[x] = socket[x]
           /\ socket'[s].state = socket[s].state
           /\ socket'[s].role = role /\ socket'[s].vans = vans
<1> DEFINE row == [socket[s] EXCEPT !.role = role, !.vans = vans]
<1>1. socket' = [socket EXCEPT ![s] = row] /\ socket[s] \in SocketState
  OBVIOUS
<1>2. /\ row \in SocketState /\ row.state = socket[s].state
      /\ row.role = role /\ row.vans = vans
  BY <1>1 DEF SocketState
<1> HIDE DEF row
<1> QED
  BY <1>1, <1>2

LEMMA ArriveType ==
    ASSUME TypeInv, NEW r \in Requests, Arrive(r)
    PROVE  TypeInv'
<1>1. ASSUME NEW s \in Sockets, Connect(r, s) PROVE TypeInv'
  <2> DEFINE q == Serve("connect", "findUser", s, None, 0)
  <2>1. q \in Request /\ Shape(q)
    BY PositionIsNat DEF Serve, Request, Calls, Ops, Shape, Writes, InRow
  <2> HIDE DEF q
  <2>2. req' = [req EXCEPT ![r] = q] /\ ~At(r, "redis")
    BY <1>1 DEF Connect, Busy, At, q
  <2>3. ReqTyped'
    BY <2>1, <2>2 DEF TypeInv, TypeOK, ReqTyped
  <2>4. QueueTyped'
    BY <1>1, <2>2, QueueStays DEF Connect, TypeInv, TypeOK
  <2>5. socket' \in [Sockets -> SocketState]
    BY <1>1, StateChanges DEF Connect, TypeInv, TypeOK
  <2>6. RowsTyped'
    BY <1>1, <2>5 DEF Connect, TypeInv, TypeOK, RowsTyped, stores, fleet, history
  <2> QED
    BY <2>3, <2>4, <2>6, TypeParts
<1>2. ASSUME NEW s \in Sockets, NEW v \in Vans, LocationUpdate(r, s, v) PROVE TypeInv'
  BY <1>2, ReceiveType DEF LocationUpdate, Writes
<1>3. ASSUME NEW v \in Vans, RestLocation(r, v) PROVE TypeInv'
  BY <1>3, ReceiveType DEF RestLocation, Writes
<1>4. ASSUME NEW s \in Sockets, NEW v \in Vans, Subscribe(r, s, v) PROVE TypeInv'
  <2>1. ~At(r, "redis")
    BY <1>4 DEF Subscribe, Busy, At
  <2>2. subscribers' \in [Vans -> SUBSET Sockets]
    BY <1>4 DEF Subscribe, Follow, TypeInv, TypeOK
  <2>3. RowsTyped'
    BY <1>4, <2>2 DEF Subscribe, TypeInv, TypeOK, RowsTyped, stores, fleet, history
  <2>4. CASE Follow(r, s, v)
    <3>1. ReqTyped' /\ QueueTyped'
      BY <2>1, <2>4, IssueTyped, PositionIsNat DEF Follow, Writes
    <3> QED
      BY <2>3, <3>1, TypeParts
  <2>5. CASE req' = [req EXCEPT ![r] = Serve("subscribe", "checkAccess", s, v, 0)]
             /\ UNCHANGED redis
    <3> DEFINE q == Serve("subscribe", "checkAccess", s, v, 0)
    <3>1. q \in Request /\ Shape(q)
      BY PositionIsNat DEF Serve, Request, Calls, Ops, Shape, Writes, InRow
    <3> HIDE DEF q
    <3>2. req' = [req EXCEPT ![r] = q]
      BY <2>5 DEF q
    <3>3. ReqTyped'
      BY <3>1, <3>2 DEF TypeInv, TypeOK, ReqTyped
    <3>4. QueueTyped'
      BY <2>1, <2>5, <3>2, QueueStays DEF TypeInv, TypeOK
    <3> QED
      BY <2>3, <3>3, <3>4, TypeParts
  <2> QED
    BY <1>4, <2>4, <2>5 DEF Subscribe
<1> QED
  BY <1>1, <1>2, <1>3, <1>4 DEF Arrive

LEMMA StepType ==
    ASSUME TypeInv, NEW r \in Requests, Step(r)
    PROVE  TypeInv'
<1>1. req[r] \in Request /\ Shape(req[r]) /\ RowsTyped
  BY ReqFacts
<1>2. ASSUME Finish(r) PROVE ReqTyped' /\ \A p \in Requests \ {r} : req'[p] = req[p]
  BY <1>2, FinishTyped DEF Finish, TypeInv, TypeOK
<1>3. CASE FindUser(r)
  <2> DEFINE s == req[r].socket
  <2>1. s \in Sockets /\ ~At(r, "redis")
    BY <1>1, <1>3 DEF FindUser, At, Shape
  <2>2. CASE Close(s) /\ Finish(r) /\ UNCHANGED redis
    <3>1. socket' \in [Sockets -> SocketState]
      BY <1>1, <2>1, <2>2, StateChanges DEF Close, RowsTyped
    <3>2. QueueTyped'
      BY <1>2, <2>1, <2>2, QueueStays
    <3> QED
      BY <1>1, <1>2, <1>3, <2>2, <3>1, <3>2, TypeParts
      DEF FindUser, RowsTyped, stores, fleet, history
  <2>3. ASSUME NEW role \in Roles,
               socket' = [socket EXCEPT ![s] =
                            [@ EXCEPT !.role = role,
                                      !.vans = IF role = "DRIVER" THEN driverVans ELSE {}]],
               IF role = "DRIVER" THEN Issue(r, "connect", s, None, 0)
                                  ELSE Finish(r) /\ UNCHANGED redis
        PROVE  TypeInv'
    <3> DEFINE vans == IF role = "DRIVER" THEN driverVans ELSE {}
    <3>1. vans \in SUBSET Vans
      BY <1>1 DEF RowsTyped
    <3>2. socket' \in [Sockets -> SocketState]
      BY <1>1, <2>1, <2>3, <3>1, UserStored DEF RowsTyped
    <3>3. RowsTyped'
      BY <1>1, <1>3, <3>2 DEF FindUser, RowsTyped, stores, fleet, history
    <3>4. CASE Issue(r, "connect", s, None, 0)
      <4>1. ReqTyped' /\ QueueTyped'
        BY <2>1, <3>4, IssueTyped, PositionIsNat DEF Writes
      <4> QED
        BY <3>3, <4>1, TypeParts
    <3>5. CASE Finish(r) /\ UNCHANGED redis
      BY <1>2, <2>1, <3>3, <3>5, QueueStays, TypeParts
    <3> QED
      BY <2>3, <3>4, <3>5
  <2> QED
    BY <1>3, <2>2, <2>3 DEF FindUser
<1>4. CASE UpdateVan(r)
  <2>1. req[r].op = "location" /\ req[r].van \in Vans /\ req[r].pos \in Position /\ ~At(r, "redis")
    BY <1>1, <1>4 DEF UpdateVan, At, Shape, Request, Writes, InRow
  <2>2. ReqTyped' /\ \A p \in Requests \ {r} : req'[p] = req[p]
    BY <1>4, <2>1, GotoTyped DEF UpdateVan, InRow
  <2>3. QueueTyped'
    BY <1>4, <2>1, <2>2, QueueStays DEF UpdateVan
  <2>4. RowsTyped'
    BY <1>1, <1>4, <2>1 DEF UpdateVan, RowsTyped, clients, fleet, history
  <2> QED
    BY <2>2, <2>3, <2>4, TypeParts
<1>5. CASE Ack(r)
  <2>1. req[r].van \in Vans /\ req[r].pos \in 1 .. MaxPings /\ ~At(r, "redis")
    BY <1>1, <1>5, PositionIsNat DEF Ack, At, Shape, Request, Writes, InRow
  <2>2. QueueTyped' /\ ReqTyped'
    BY <1>2, <1>5, <2>1, QueueStays DEF Ack
  <2>3. ackedAt' \in [Vans -> [1 .. MaxPings -> Position]]
    BY <1>1, <1>5, <2>1 DEF Ack, RowsTyped
  <2>4. RowsTyped'
    BY <1>1, <1>5, <2>3 DEF Ack, RowsTyped, clients, stores, fleet
  <2> QED
    BY <2>2, <2>4, TypeParts
<1>6. CASE CheckAccess(r)
  <2>1. req[r].van \in Vans /\ req[r].socket \in Sockets /\ ~At(r, "redis")
    BY <1>1, <1>6 DEF CheckAccess, At, Shape
  <2>2. RowsTyped'
    BY <1>1, <1>6, <2>1 DEF CheckAccess, Follow, RowsTyped, stores, fleet, history
  <2>3. CASE Follow(r, req[r].socket, req[r].van)
    <3>1. ReqTyped' /\ QueueTyped'
      BY <2>1, <2>3, IssueTyped, PositionIsNat DEF Follow, Writes
    <3> QED
      BY <2>2, <3>1, TypeParts
  <2>4. CASE Finish(r) /\ UNCHANGED redis
    BY <1>2, <2>1, <2>2, <2>4, QueueStays, TypeParts
  <2> QED
    BY <1>6, <2>3, <2>4 DEF CheckAccess
<1> QED
  BY <1>3, <1>4, <1>5, <1>6 DEF Step

LEMMA NextCommandWaits ==
    ASSUME TypeInv, executed < Len(redisQueue)
    PROVE  /\ executed + 1 \in 1 .. Len(redisQueue) /\ NextCommand \in Requests
           /\ At(NextCommand, "redis")
<1>1. redisQueue \in Seq(Requests) /\ Len(redisQueue) \in Nat /\ executed \in 0 .. Len(redisQueue)
  BY DEF TypeInv, TypeOK
<1>2. executed + 1 \in 1 .. Len(redisQueue)
  BY <1>1
<1> QED
  BY <1>1, <1>2 DEF NextCommand, TypeInv, QueueShape

\* A GET is executed: its request keeps all but the answer.
LEMMA AnswerStored ==
    ASSUME TypeInv, NEW r \in Requests, NEW p \in Position, req[r].op = "subscribe",
           req' = [req EXCEPT ![r].pos = p]
    PROVE  /\ ReqTyped'
           /\ \A x \in Requests : req'[x].pc = req[x].pc /\ req'[x].op = req[x].op
                                /\ req'[x].van = req[x].van /\ req'[x].socket = req[x].socket
           /\ \A x \in Requests \ {r} : req'[x] = req[x]
           /\ req'[r].pos = p
<1> DEFINE q == [req[r] EXCEPT !.pos = p]
<1>1. req' = [req EXCEPT ![r] = q] /\ req[r] \in Request /\ Shape(req[r])
  BY DEF TypeInv, TypeOK
<1>2. /\ q \in Request /\ q.pc = req[r].pc /\ q.op = req[r].op /\ q.socket = req[r].socket
      /\ q.van = req[r].van /\ q.pos = p
  BY <1>1 DEF Request
<1>3. Shape(q)
  BY <1>1, <1>2 DEF Shape, Writes, InRow
<1> HIDE DEF q
<1> QED
  BY <1>1, <1>2, <1>3 DEF TypeInv, TypeOK, ReqTyped

LEMMA ExecuteType == ASSUME TypeInv, RedisExecutes PROVE TypeInv'
<1> DEFINE r == NextCommand
           v == req[r].van
<1>1. r \in Requests /\ At(r, "redis") /\ executed + 1 \in 1 .. Len(redisQueue)
  BY NextCommandWaits DEF RedisExecutes
<1>2. req[r] \in Request /\ Shape(req[r]) /\ RowsTyped
  BY <1>1, ReqFacts
<1>3. redisQueue' = redisQueue /\ executed' = executed + 1
  BY DEF RedisExecutes
<1>4. executed' \in 0 .. Len(redisQueue')
  BY <1>1, <1>3 DEF TypeInv, TypeOK
<1>5. CASE req[r].op \in {"location", "rest"} /\ cached' = [cached EXCEPT ![v] = req[r].pos]
           /\ UNCHANGED req
  <2>1. RowsTyped'
    BY <1>2, <1>5 DEF RedisExecutes, RowsTyped, Request, clients, fleet, history
  <2>2. ReqTyped' /\ QueueTyped'
    BY <1>3, <1>4, <1>5 DEF TypeInv, TypeOK, ReqTyped, QueueTyped, QueueShape, At
  <2> QED
    BY <2>1, <2>2, TypeParts
<1>6. CASE req[r].op = "subscribe" /\ req' = [req EXCEPT ![r].pos = cached[v]] /\ UNCHANGED cached
  <2>1. cached[v] \in Position
    BY <1>2, <1>6 DEF Shape, RowsTyped
  <2>2. ReqTyped' /\ \A x \in Requests : req'[x].pc = req[x].pc
    BY <1>1, <1>6, <2>1, AnswerStored
  <2>3. QueueTyped'
    BY <1>3, <1>4, <2>2 DEF TypeInv, TypeOK, QueueTyped, QueueShape, At
  <2>4. RowsTyped'
    BY <1>2, <1>6 DEF RedisExecutes, RowsTyped, clients, fleet, history
  <2> QED
    BY <2>2, <2>3, <2>4, TypeParts
<1>7. CASE req[r].op = "connect" /\ UNCHANGED <<req, cached>>
  <2>1. RowsTyped'
    BY <1>2, <1>7 DEF RedisExecutes, RowsTyped, clients, fleet, history
  <2>2. ReqTyped' /\ QueueTyped'
    BY <1>3, <1>4, <1>7 DEF TypeInv, TypeOK, ReqTyped, QueueTyped, QueueShape, At
  <2> QED
    BY <2>1, <2>2, TypeParts
<1> QED
  BY <1>5, <1>6, <1>7 DEF RedisExecutes

LEMMA ReplyType == ASSUME TypeInv, RedisReplies PROVE TypeInv'
<1> DEFINE r == Head(redisQueue)
<1>1. redisQueue # <<>> /\ Dequeue
  BY DEF RedisReplies, TypeInv, TypeOK
<1>2. r \in Requests /\ At(r, "redis")
  <2>1. Len(redisQueue) > 0 /\ redisQueue \in Seq(Requests)
    BY DEF RedisReplies, TypeInv, TypeOK
  <2> QED
    BY <2>1 DEF TypeInv, QueueShape
<1>3. req[r] \in Request /\ Shape(req[r]) /\ RowsTyped
  BY <1>2, ReqFacts
<1>4. ASSUME Finish(r) PROVE ReqTyped' /\ \A p \in Requests \ {r} : req'[p] = req[p]
  BY <1>2, <1>4, FinishTyped DEF Finish, TypeInv, TypeOK
<1>5. ReqTyped' /\ \A p \in Requests \ {r} : req'[p] = req[p]
  <2>1. CASE req[r].op = "location" /\ Goto(r, "updateVan")
    BY <1>2, <2>1, GotoTyped DEF InRow
  <2>2. CASE Finish(r)
    BY <1>4, <2>2
  <2> QED
    BY <2>1, <2>2 DEF RedisReplies
<1>6. QueueTyped'
  BY <1>1, <1>5, DequeueTyped
<1>7. shown' \in [Sockets -> [Vans -> Position]]
  <2>1. CASE req[r].op = "subscribe" /\ Show(req[r].socket, req[r].van, req[r].pos)
    BY <1>3, <2>1 DEF Show, Shape, Request, RowsTyped
  <2>2. CASE UNCHANGED shown
    BY <1>3, <2>2 DEF RowsTyped
  <2> QED
    BY <2>1, <2>2 DEF RedisReplies
<1>8. RowsTyped'
  BY <1>3, <1>7 DEF RedisReplies, RowsTyped, stores, fleet, history
<1> QED
  BY <1>5, <1>6, <1>8, TypeParts

\* A handler that was rejected is gone; it may close its socket.
LEMMA AbortType ==
    ASSUME TypeInv, NEW r \in Requests, Abort(r)
    PROVE  ReqTyped' /\ RowsTyped' /\ \A p \in Requests \ {r} : req'[p] = req[p]
<1>1. req[r] \in Request /\ Shape(req[r]) /\ RowsTyped
  BY ReqFacts
<1>2. ReqTyped' /\ \A p \in Requests \ {r} : req'[p] = req[p]
  BY FinishTyped DEF Abort, Finish, TypeInv, TypeOK
<1>3. socket' \in [Sockets -> SocketState]
  <2>1. CASE req[r].op = "connect"
    BY <1>1, <2>1, StateChanges DEF Abort, Close, Shape, RowsTyped
  <2>2. CASE req[r].op # "connect"
    BY <1>1, <2>2 DEF Abort, RowsTyped
  <2> QED
    BY <2>1, <2>2
<1> QED
  BY <1>1, <1>2, <1>3 DEF Abort, RowsTyped, stores, fleet, history

LEMMA FaultType ==
    ASSUME TypeInv, \/ \E r \in Requests : DatabaseFails(r)
                    \/ RedisRejects \/ RedisReconnects \/ Crash
    PROVE  TypeInv'
<1>1. ASSUME NEW r \in Requests, DatabaseFails(r) PROVE TypeInv'
  <2>1. ~At(r, "redis")
    BY <1>1 DEF DatabaseFails, At
  <2> QED
    BY <1>1, <2>1, AbortType, QueueStays, TypeParts DEF DatabaseFails
<1>2. CASE RedisRejects
  <2>1. redisQueue # <<>> /\ Dequeue /\ Head(redisQueue) \in Requests /\ Abort(Head(redisQueue))
    BY <1>2 DEF RedisRejects, TypeInv, TypeOK
  <2>2. ReqTyped' /\ RowsTyped' /\ \A p \in Requests \ {Head(redisQueue)} : req'[p] = req[p]
    BY <2>1, AbortType
  <2> QED
    BY <2>1, <2>2, DequeueTyped, TypeParts
<1>3. CASE RedisReconnects
  <2>1. executed' \in 0 .. Len(redisQueue') /\ redisQueue' = redisQueue /\ req' = req
    BY <1>3 DEF RedisReconnects, TypeInv, TypeOK
  <2>2. ReqTyped' /\ QueueTyped'
    BY <2>1 DEF TypeInv, TypeOK, ReqTyped, QueueTyped, QueueShape, At
  <2>3. RowsTyped'
    BY <1>3 DEF RedisReconnects, TypeInv, TypeOK, RowsTyped, clients, stores, fleet, history
  <2> QED
    BY <2>2, <2>3, TypeParts
<1>4. CASE Crash
  <2>1. socket' \in [Sockets -> SocketState]
    <3>1. \A s \in Sockets : [socket[s] EXCEPT !.state = "closed"] \in SocketState
      BY DEF TypeInv, TypeOK, SocketState
    <3> QED
      BY <1>4, <3>1 DEF Crash, TypeInv, TypeOK
  <2>2. RowsTyped'
    BY <1>4, <2>1 DEF Crash, TypeInv, TypeOK, RowsTyped, stores, fleet, history
  <2>3. ReqTyped'
    BY <1>4, IdleTyped DEF Crash, ReqTyped
  <2>4. redisQueue' = <<>> /\ redisQueue' \in Seq(Requests) /\ Len(redisQueue') = 0 /\ executed' = 0
    BY <1>4 DEF Crash
  <2>5. QueueTyped'
    BY <2>4 DEF QueueTyped, QueueShape
  <2> QED
    BY <2>2, <2>3, <2>5, TypeParts
<1> QED
  BY <1>1, <1>2, <1>3, <1>4

\* Clients come and go, positions expire, vans and children are moved.
Outside ==
    \/ \E s \in Sockets : Disconnect(s) \/ \E v \in Vans : Unsubscribe(s, v)
    \/ \E v \in Vans : PositionExpires(v) \/ DriverVanChanges(v) \/ ChildVanChanges(v)

LEMMA OutsideType == ASSUME TypeInv, Outside PROVE TypeInv'
<1>1. UNCHANGED <<req, redis>>
  BY DEF Outside, Disconnect, Unsubscribe, PositionExpires, DriverVanChanges, ChildVanChanges
<1>2. ReqTyped' /\ QueueTyped'
  BY <1>1 DEF TypeInv, TypeOK, ReqTyped, QueueTyped, QueueShape, At, redis
<1>3. ASSUME NEW s \in Sockets, Disconnect(s) PROVE RowsTyped'
  BY <1>3, StateChanges
  DEF Disconnect, Close, TypeInv, TypeOK, RowsTyped, stores, fleet, history
<1>4. ASSUME NEW s \in Sockets, NEW v \in Vans, Unsubscribe(s, v) PROVE RowsTyped'
  BY <1>4 DEF Unsubscribe, TypeInv, TypeOK, RowsTyped, stores, fleet, history
<1>5. ASSUME NEW v \in Vans, PositionExpires(v) PROVE RowsTyped'
  BY <1>5, PositionIsNat DEF PositionExpires, TypeInv, TypeOK, RowsTyped, clients, fleet, history
<1>6. ASSUME NEW v \in Vans, DriverVanChanges(v) \/ ChildVanChanges(v) PROVE RowsTyped'
  BY <1>6 DEF DriverVanChanges, ChildVanChanges, TypeInv, TypeOK, RowsTyped, clients, stores, history
<1> QED
  BY <1>2, <1>3, <1>4, <1>5, <1>6, TypeParts DEF Outside

LEMMA NextType == TypeInv /\ [Next]_vars => TypeInv'
<1> SUFFICES ASSUME TypeInv, [Next]_vars PROVE TypeInv'
  OBVIOUS
<1>1. CASE UNCHANGED vars
  BY <1>1 DEF vars, clients, stores, fleet, redis, history, TypeInv, TypeOK, QueueShape, At
<1> QED
  BY <1>1, ArriveType, StepType, ExecuteType, ReplyType, FaultType, OutsideType
  DEF Next, Environment, Outside

\* The types hold throughout, whatever fails: an answer of Redis goes to a request that
\* waits for it, and every position kept or shown is one that was received.
THEOREM TypeSafety == Spec => []TypeOK
<1>1. TypeInv => TypeOK
  BY DEF TypeInv
<1> QED
  BY <1>1, InitType, NextType, PTL DEF Spec

-----------------------------------------------------------------------------
(* Subscribers *)

\* A user is looked up once per socket, and a parent stays a parent.
Users ==
    /\ \A s \in Sockets : socket[s].state = "new" => Role(s) = None
    /\ \A r \in Requests : At(r, "findUser") =>
          socket[req[r].socket].state # "new" /\ Role(req[r].socket) = None
    /\ \A r, p \in Requests :
          At(r, "findUser") /\ At(p, "findUser") /\ req[r].socket = req[p].socket => r = p
    /\ \A r \in Requests : At(r, "checkAccess") => Role(req[r].socket) = "PARENT"

\* Nothing but a look-up changes the user of a socket, and no socket is new again.
UsersStay ==
    \A s \in Sockets : /\ socket'[s].role = socket[s].role /\ socket'[s].vans = socket[s].vans
                       /\ socket'[s].state = "new" => socket[s].state = "new"

\* Requests that look up a user or ask for access are those that were there before.
NoneNew ==
    \A p \in Requests : req'[p].pc \in {"findUser", "checkAccess"} => req'[p] = req[p]

LEMMA QuietUsers ==
    ASSUME TypeInv, Users, SubscribersAreKnown, UsersStay, NoneNew,
           \A v \in Vans : subscribers'[v] \subseteq subscribers[v]
    PROVE  Users' /\ SubscribersAreKnown'
<1>1. \A p \in Requests : Shape(req[p])
  BY DEF TypeInv
<1>2. \A p \in Requests : req[p].pc \in {"findUser", "checkAccess"} => req[p].socket \in Sockets
  BY <1>1 DEF Shape
<1>3. \A v \in Vans : subscribers[v] \subseteq Sockets
  BY DEF TypeInv, TypeOK
<1>4. Users'
  BY <1>2 DEF Users, UsersStay, NoneNew, At, Role
<1>5. SubscribersAreKnown'
  BY <1>3 DEF SubscribersAreKnown, UsersStay, Role
<1> QED
  BY <1>4, <1>5

LEMMA NoneNewTyped ==
    ASSUME TypeInv, NEW r \in Requests,
           \/ Finish(r)
           \/ \E call \in InRow : Goto(r, call)
           \/ \E o, s, v, n : Issue(r, o, s, v, n)
    PROVE  NoneNew
<1>1. req \in [Requests -> Request] /\ req[r] \in Request
  BY DEF TypeInv, TypeOK
<1>2. /\ \A p \in Requests \ {r} : req'[p] = req[p]
      /\ req'[r].pc \notin {"findUser", "checkAccess"}
  <2>1. CASE Finish(r)
    BY <1>1, <2>1 DEF Finish, Idle, Serve
  <2>2. ASSUME NEW call \in InRow, Goto(r, call)
        PROVE  /\ \A p \in Requests \ {r} : req'[p] = req[p]
               /\ req'[r].pc \notin {"findUser", "checkAccess"}
    BY <1>1, <2>2 DEF Goto, InRow, Request
  <2>3. ASSUME NEW o, NEW s, NEW v, NEW n, Issue(r, o, s, v, n)
        PROVE  /\ \A p \in Requests \ {r} : req'[p] = req[p]
               /\ req'[r].pc \notin {"findUser", "checkAccess"}
    BY <1>1, <2>3 DEF Issue, Serve
  <2> QED
    BY <2>1, <2>2, <2>3
<1> QED
  BY <1>2 DEF NoneNew

\* One more subscriber, who may be.
LEMMA FollowUsers ==
    ASSUME TypeInv, Users, SubscribersAreKnown, UNCHANGED socket,
           NEW r \in Requests, NEW s \in Sockets, NEW v \in Vans, Follow(r, s, v),
           MaySubscribe(s, v) \/ Role(s) = "PARENT"
    PROVE  Users' /\ SubscribersAreKnown'
<1>1. NoneNew /\ UsersStay
  BY NoneNewTyped DEF Follow, UsersStay
<1>2. Users'
  <2>1. \A p \in Requests : req[p].pc \in {"findUser", "checkAccess"} => req[p].socket \in Sockets
    BY DEF TypeInv, Shape
  <2> QED
    BY <1>1, <2>1 DEF Users, UsersStay, NoneNew, At, Role
<1>3. /\ Role(s) # None
      /\ Role(s) = "DRIVER" => v \in socket[s].vans
  BY LiveTrackingAssumption DEF MaySubscribe, MayDrive
<1>4. subscribers' = [subscribers EXCEPT ![v] = @ \cup {s}] /\ socket' = socket
  BY DEF Follow
<1>5. ASSUME NEW x \in Vans, NEW t \in subscribers'[x]
      PROVE  /\ socket'[t].role # None
             /\ socket'[t].role = "DRIVER" => x \in socket'[t].vans
  <2>1. t \in subscribers[x] \/ (x = v /\ t = s)
    BY <1>4, <1>5 DEF TypeInv, TypeOK
  <2> QED
    BY <1>3, <1>4, <2>1 DEF SubscribersAreKnown, Role
<1> QED
  BY <1>2, <1>5 DEF SubscribersAreKnown, Role

LEMMA NextUsers ==
    ASSUME TypeInv, Users, SubscribersAreKnown, [Next]_vars
    PROVE  Users' /\ SubscribersAreKnown'
<1> DEFINE Kept == Users' /\ SubscribersAreKnown'
<1>1. /\ req \in [Requests -> Request] /\ socket \in [Sockets -> SocketState]
      /\ \A p \in Requests : req[p] \in Request /\ Shape(req[p])
  BY DEF TypeInv, TypeOK
<1>2. ASSUME NEW r \in Requests, NEW s \in Sockets, Connect(r, s) PROVE Kept
  <2> DEFINE q == Serve("connect", "findUser", s, None, 0)
  <2>1. /\ req' = [req EXCEPT ![r] = q] /\ q.pc = "findUser" /\ q.socket = s
        /\ socket[s].state = "new" /\ subscribers' = subscribers
    BY <1>2 DEF Connect, Serve
  <2> HIDE DEF q
  <2>2. /\ \A x \in Sockets : socket'[x].role = socket[x].role /\ socket'[x].vans = socket[x].vans
                               /\ (x # s => socket'[x] = socket[x])
        /\ socket'[s].state = "open"
    BY <1>1, <1>2, StateChanges DEF Connect
  <2>3. \A p \in Requests \ {r} : At(p, "findUser") => req[p].socket # s
    BY <2>1 DEF Users
  <2>4. \A p \in Requests : req[p].pc \in {"findUser", "checkAccess"} => req[p].socket \in Sockets
    BY <1>1 DEF Shape
  <2>5. req'[r] = q /\ \A p \in Requests \ {r} : req'[p] = req[p]
    BY <1>1, <2>1
  <2>6. \A x \in Sockets : socket'[x].state = "new" => socket'[x].role = None
    BY <2>2 DEF Users, Role
  <2>7. \A p \in Requests : req'[p].pc = "findUser" =>
            socket'[req'[p].socket].state # "new" /\ socket'[req'[p].socket].role = None
    <3>1. socket'[s].state # "new" /\ socket'[s].role = None
      BY <2>1, <2>2 DEF Users, Role
    <3>2. ASSUME NEW p \in Requests \ {r}, req[p].pc = "findUser"
          PROVE  socket'[req[p].socket].state # "new" /\ socket'[req[p].socket].role = None
      BY <2>2, <2>3, <2>4, <3>2 DEF Users, Role, At
    <3> QED
      BY <2>1, <2>5, <3>1, <3>2
  <2>8. \A p, t \in Requests :
            req'[p].pc = "findUser" /\ req'[t].pc = "findUser" /\ req'[p].socket = req'[t].socket
              => p = t
    BY <2>1, <2>3, <2>5 DEF Users, At
  <2>9. \A p \in Requests : req'[p].pc = "checkAccess" => socket'[req'[p].socket].role = "PARENT"
    BY <2>1, <2>2, <2>4, <2>5 DEF Users, Role, At
  <2>10. Users'
    BY <2>6, <2>7, <2>8, <2>9 DEF Users, Role, At
  <2>11. ASSUME NEW v \in Vans, NEW t \in subscribers'[v]
         PROVE  /\ socket'[t].role # None
                /\ socket'[t].role = "DRIVER" => v \in socket'[t].vans
    <3>1. t \in subscribers[v] /\ t \in Sockets
      BY <2>1, <2>11 DEF TypeInv, TypeOK
    <3> QED
      BY <2>2, <3>1 DEF SubscribersAreKnown, Role
  <2> QED
    BY <2>10, <2>11 DEF SubscribersAreKnown, Role
<1>3. ASSUME NEW r \in Requests, NEW s \in Sockets, NEW v \in Vans, Subscribe(r, s, v) PROVE Kept
  <2>1. CASE MaySubscribe(s, v) /\ Follow(r, s, v)
    BY <1>3, <2>1, FollowUsers DEF Subscribe
  <2>2. CASE /\ Role(s) = "PARENT" /\ UNCHANGED subscribers
             /\ req' = [req EXCEPT ![r] = Serve("subscribe", "checkAccess", s, v, 0)]
    <3> DEFINE q == Serve("subscribe", "checkAccess", s, v, 0)
    <3>1. q.pc = "checkAccess" /\ q.socket = s
      BY DEF Serve
    <3> HIDE DEF q
    <3>2. req'[r] = q /\ socket' = socket /\ \A p \in Requests \ {r} : req'[p] = req[p]
      BY <1>1, <1>3, <2>2 DEF Subscribe, q
    <3> QED
      BY <2>2, <3>1, <3>2 DEF Users, SubscribersAreKnown, Role, At
  <2> QED
    BY <1>3, <2>1, <2>2 DEF Subscribe
<1>4. ASSUME NEW r \in Requests, FindUser(r) PROVE Kept
  <2> DEFINE s == req[r].socket
  <2>1. s \in Sockets /\ Role(s) = None /\ At(r, "findUser") /\ subscribers' = subscribers
    BY <1>1, <1>4 DEF FindUser, At, Shape, Users
  <2>2. NoneNew /\ req'[r].pc \notin {"findUser", "checkAccess"}
    <3>1. \/ Finish(r)
          \/ Issue(r, "connect", s, None, 0)
      BY <1>4 DEF FindUser
    <3>2. req'[r].pc \notin {"findUser", "checkAccess"}
      BY <1>1, <3>1 DEF Finish, Idle, Issue, Serve
    <3> QED
      BY <3>1, <3>2, NoneNewTyped
  <2>3. CASE Close(s)
    BY <1>1, <2>1, <2>2, <2>3, StateChanges, QuietUsers DEF Close, UsersStay
  <2>4. ASSUME NEW role \in Roles, NEW vans \in SUBSET Vans,
               socket' = [socket EXCEPT ![s] = [@ EXCEPT !.role = role, !.vans = vans]]
        PROVE  Kept
    <3>1. /\ \A x \in Sockets \ {s} : socket'[x] = socket[x]
          /\ socket'[s].state = socket[s].state
      BY <1>1, <2>1, <2>4, UserStored
    <3>2. \A p \in Requests : req'[p].pc = "findUser" => req[p].socket # s /\ req'[p] = req[p]
      BY <2>1, <2>2 DEF NoneNew, Users, At
    <3>3. \A p \in Requests : req'[p].pc = "checkAccess" => req[p].socket # s /\ req'[p] = req[p]
      BY <2>1, <2>2, LiveTrackingAssumption DEF NoneNew, Users, At
    <3>4. \A p \in Requests : req[p].pc \in {"findUser", "checkAccess"} => req[p].socket \in Sockets
      BY <1>1 DEF Shape
    <3>5. socket[s].state # "new"
      BY <2>1 DEF Users
    <3>6. Users'
      BY <3>1, <3>2, <3>3, <3>4, <3>5 DEF Users, Role, At
    <3>7. \A v \in Vans : s \notin subscribers[v] /\ subscribers[v] \subseteq Sockets
      BY <2>1 DEF SubscribersAreKnown, TypeInv, TypeOK
    <3>8. ASSUME NEW v \in Vans, NEW t \in subscribers'[v]
          PROVE  /\ socket'[t].role # None
                 /\ socket'[t].role = "DRIVER" => v \in socket'[t].vans
      <4>1. t \in subscribers[v] /\ t \in Sockets \ {s}
        BY <2>1, <3>7, <3>8
      <4> QED
        BY <3>1, <4>1 DEF SubscribersAreKnown, Role
    <3> QED
      BY <3>6, <3>8 DEF SubscribersAreKnown, Role
  <2>5. ASSUME NEW role \in Roles,
               socket' = [socket EXCEPT ![s] =
                            [@ EXCEPT !.role = role,
                                      !.vans = IF role = "DRIVER" THEN driverVans ELSE {}]]
        PROVE  Kept
    <3> DEFINE vans == IF role = "DRIVER" THEN driverVans ELSE {}
    <3>1. vans \in SUBSET Vans
      BY DEF TypeInv, TypeOK
    <3>2. socket' = [socket EXCEPT ![s] = [@ EXCEPT !.role = role, !.vans = vans]]
      BY <2>5
    <3> HIDE DEF vans, Kept
    <3> QED
      BY <2>4, <3>1, <3>2
  <2> HIDE DEF Kept
  <2> QED
    BY <1>4, <2>3, <2>5 DEF FindUser
<1>5. ASSUME NEW r \in Requests, CheckAccess(r) PROVE Kept
  <2>1. /\ req[r].socket \in Sockets /\ req[r].van \in Vans /\ socket' = socket
        /\ Role(req[r].socket) = "PARENT"
    BY <1>1, <1>5 DEF CheckAccess, At, Shape, Users
  <2>2. CASE Follow(r, req[r].socket, req[r].van)
    BY <2>1, <2>2, FollowUsers
  <2>3. CASE Finish(r) /\ UNCHANGED subscribers
    BY <2>1, <2>3, NoneNewTyped, QuietUsers DEF UsersStay
  <2> QED
    BY <1>5, <2>2, <2>3 DEF CheckAccess
<1>6. ASSUME NEW r \in Requests,
             \/ \E s \in Sockets, v \in Vans : LocationUpdate(r, s, v)
             \/ \E v \in Vans : RestLocation(r, v)
             \/ UpdateVan(r) \/ Ack(r)
      PROVE  Kept
  <2>1. UNCHANGED <<socket, subscribers>>
    BY <1>6 DEF LocationUpdate, RestLocation, Receive, UpdateVan, Ack, clients
  <2>2. NoneNew
    BY <1>6, NoneNewTyped DEF LocationUpdate, RestLocation, Receive, UpdateVan, Ack, InRow
  <2> QED
    BY <2>1, <2>2, QuietUsers DEF UsersStay
<1>7. ASSUME NEW r \in Requests, Abort(r) PROVE Kept
  <2>1. NoneNew /\ subscribers' = subscribers
    BY <1>7, NoneNewTyped DEF Abort
  <2>2. UsersStay
    <3>1. CASE req[r].op = "connect"
      BY <1>1, <1>7, <3>1, StateChanges DEF Abort, Close, Shape, UsersStay
    <3>2. CASE req[r].op # "connect"
      BY <1>7, <3>2 DEF Abort, UsersStay
    <3> QED
      BY <3>1, <3>2
  <2> QED
    BY <2>1, <2>2, QuietUsers
<1>8. CASE RedisExecutes
  <2> DEFINE r == NextCommand
  <2>1. r \in Requests /\ At(r, "redis") /\ UNCHANGED <<socket, subscribers>>
    BY <1>8, NextCommandWaits DEF RedisExecutes, clients
  <2>2. NoneNew
    <3>1. CASE UNCHANGED req
      BY <3>1 DEF NoneNew
    <3>2. CASE req[r].op = "subscribe" /\ req' = [req EXCEPT ![r].pos = cached[req[r].van]]
      <4>1. cached[req[r].van] \in Position
        BY <1>1, <2>1, <3>2 DEF Shape, TypeInv, TypeOK
      <4>2. /\ \A x \in Requests : req'[x].pc = req[x].pc
            /\ \A x \in Requests \ {r} : req'[x] = req[x]
        BY <2>1, <3>2, <4>1, AnswerStored
      <4> QED
        BY <2>1, <4>2 DEF NoneNew, At
    <3> QED
      BY <1>8, <3>1, <3>2 DEF RedisExecutes
  <2> QED
    BY <2>1, <2>2, QuietUsers DEF UsersStay
<1>9. CASE RedisReplies
  <2> DEFINE r == Head(redisQueue)
  <2>1. r \in Requests /\ UNCHANGED <<socket, subscribers>>
    BY <1>9 DEF RedisReplies, TypeInv, TypeOK
  <2>2. NoneNew
    BY <1>9, <2>1, NoneNewTyped DEF RedisReplies, InRow
  <2> QED
    BY <2>1, <2>2, QuietUsers DEF UsersStay
<1>10. CASE Crash
  <2>1. NoneNew
    BY <1>10 DEF Crash, NoneNew, Idle, Serve
  <2>2. UsersStay
    <3>1. ASSUME NEW s \in Sockets, NEW row, row = [socket[s] EXCEPT !.state = "closed"]
          PROVE  row.state = "closed" /\ row.role = socket[s].role /\ row.vans = socket[s].vans
      BY <1>1, <3>1 DEF SocketState
    <3> QED
      BY <1>10, <3>1 DEF Crash, UsersStay
  <2> QED
    BY <1>10, <2>1, <2>2, QuietUsers DEF Crash
<1>11. CASE Outside \/ RedisReconnects \/ UNCHANGED vars
  <2>1. UNCHANGED req
    BY <1>11 DEF Outside, Disconnect, Unsubscribe, PositionExpires, DriverVanChanges,
                 ChildVanChanges, RedisReconnects, vars
  <2>2. \A v \in Vans : subscribers'[v] \subseteq subscribers[v]
    BY <1>11 DEF Outside, Disconnect, Unsubscribe, PositionExpires, DriverVanChanges,
                 ChildVanChanges, RedisReconnects, vars, clients, TypeInv, TypeOK
  <2>3. UsersStay
    <3>1. ASSUME NEW s \in Sockets, Disconnect(s) PROVE UsersStay
      BY <1>1, <3>1, StateChanges DEF Disconnect, Close, UsersStay
    <3>2. CASE UNCHANGED socket
      BY <3>2 DEF UsersStay
    <3> QED
      BY <1>11, <3>1, <3>2 DEF Outside, Unsubscribe, PositionExpires, DriverVanChanges,
                 ChildVanChanges, RedisReconnects, vars, clients
  <2> QED
    BY <2>1, <2>2, <2>3, QuietUsers DEF NoneNew
<1>12. ASSUME NEW r \in Requests, DatabaseFails(r) PROVE Kept
  BY <1>7, <1>12 DEF DatabaseFails
<1>13. CASE RedisRejects
  <2>1. Head(redisQueue) \in Requests
    BY <1>13 DEF RedisRejects, TypeInv, TypeOK
  <2> QED
    BY <1>7, <1>13, <2>1 DEF RedisRejects
<1> QED
  BY <1>2, <1>3, <1>4, <1>5, <1>6, <1>8, <1>9, <1>10, <1>11, <1>12, <1>13
  DEF Next, Arrive, Step, Environment, Outside

\* Whatever messages come before, during and after the look-up of a socket's user
\* (socket.gateway.ts:62), a socket is subscribed only when its user is known, and a
\* driver's only to his vans (socket.gateway.ts:275).
THEOREM SubscriberSafety == Spec => []SubscribersAreKnown
<1>1. Init => Users /\ SubscribersAreKnown
  <2> SUFFICES ASSUME Init PROVE Users /\ SubscribersAreKnown
    OBVIOUS
  <2>1. \A r \in Requests : req[r].pc = "idle"
    BY DEF Init, Idle, Serve
  <2> QED
    BY <2>1 DEF Init, Users, SubscribersAreKnown, At, Role
<1>2. TypeInv /\ Users /\ SubscribersAreKnown /\ [Next]_vars
         => TypeInv' /\ Users' /\ SubscribersAreKnown'
  BY NextType, NextUsers
<1> QED
  BY <1>1, <1>2, InitType, PTL DEF Spec

=============================================================================
