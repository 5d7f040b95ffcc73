---------------------------- MODULE LiveTracking ----------------------------
(***************************************************************************)
(* SocketGateway and WebSocketService (src/src/websocket): sockets connect, *)
(* drivers send positions, clients subscribe to vans.  A position goes to   *)
(* Redis and then to the van's row; the driver is told afterwards.          *)
(*                                                                         *)
(* The handlers of two messages overlap, whichever sockets they came from.  *)
(* ioredis has one connection: commands are executed and answered in the    *)
(* order they were issued, and those executed but not answered when the     *)
(* connection breaks are sent and executed once more.  Prisma has a pool of *)
(* connections: two updates run in either order.                            *)
(*                                                                         *)
(* The position of a van is its number, in the order the handlers start;    *)
(* 0 is no position.  Nobody writes a driver's registration without having  *)
(* read one (socket.gateway.ts:135), so it is never there: the lookup is    *)
(* here as a call that may fail, and the branches behind it are left out.   *)
(* Broadcasts only log.                                                     *)
(***************************************************************************)
EXTENDS Naturals, Sequences

CONSTANTS
    Requests,   \* slots for messages and calls being served at the same time
    Sockets,    \* socket ids, never used twice
    Vans,       \* van ids
    None,       \* null
    MaxPings,   \* bound: positions received per van
    MayFail     \* calls reject, connections break, the process crashes

ASSUME LiveTrackingAssumption ==
    /\ None \notin Requests \cup Sockets \cup Vans \cup {"DRIVER", "PARENT", "ADMIN"}
    /\ MaxPings \in Nat
    /\ MayFail \in BOOLEAN

VARIABLES
    socket,       \* the sockets, with the user handleConnection stored on them
    subscribers,  \* WebSocketService.vanSubscriptions
    cached,       \* Redis keys van:{vanId}:location
    stored,       \* the position in the row of vans
    driverVans,   \* vans in service of the driver, in the database
    childVans,    \* vans that children of the parent ride, in the database
    received,     \* positions accepted so far, per van
    req,          \* the messages and calls being served
    redisQueue,   \* requests waiting for Redis, in the order of their commands
    executed,     \* how many of them Redis has executed and not yet answered
    ackedAt,      \* history: received when a position was acknowledged, 0 if it was not
    shown         \* history: the position a socket was last sent, per van

clients == <<socket, subscribers, shown>>
stores == <<cached, stored>>
fleet == <<driverVans, childVans>>
redis == <<redisQueue, executed>>
history == <<received, ackedAt>>
vars == <<clients, stores, fleet, redis, history, req>>

-----------------------------------------------------------------------------
(* Sockets and requests *)

Roles == {"DRIVER", "PARENT", "ADMIN"}
Position == 0 .. MaxPings

SocketState ==
    [state: {"new", "open", "closed"}, role: Roles \cup {None}, vans: SUBSET Vans]

\* What each handler awaits; "rest" stands for the trip handlers that store a position.
Calls == {"findUser", "checkAccess", "redis", "updateVan", "ack"}
Ops == {"connect", "location", "subscribe", "rest"}

Request ==
    [op: Ops \cup {"none"}, pc: Calls \cup {"idle"}, socket: Sockets \cup {None},
     van: Vans \cup {None}, pos: Position]

Serve(op, call, s, v, p) == [op |-> op, pc |-> call, socket |-> s, van |-> v, pos |-> p]

Idle == Serve("none", "idle", None, None, 0)

Busy(r) == req[r].pc # "idle"
At(r, call) == req[r].pc = call
Open(s) == socket[s].state = "open"
Role(s) == socket[s].role

Finish(r) == req' = [req EXCEPT ![r] = Idle]
Goto(r, call) == req' = [req EXCEPT ![r].pc = call]

IssueBug(r, op, s, v, p) ==
    /\ req' = [req EXCEPT ![r] = Serve(op, "redis", s, v, p)]
    /\ redisQueue' = <<r>> \o redisQueue
    /\ UNCHANGED executed

\* Handler r starts or goes on with a Redis command.
Issue(r, op, s, v, p) ==
    /\ req' = [req EXCEPT ![r] = Serve(op, "redis", s, v, p)]
    /\ redisQueue' = Append(redisQueue, r)
    /\ UNCHANGED executed

Close(s) == socket' = [socket EXCEPT ![s].state = "closed"]

Init ==
    /\ socket = [s \in Sockets |-> [state |-> "new", role |-> None, vans |-> {}]]
    /\ subscribers = [v \in Vans |-> {}]
    /\ cached = [v \in Vans |-> 0]
    /\ stored = [v \in Vans |-> 0]
    /\ driverVans \in SUBSET Vans
    /\ childVans \in SUBSET Vans
    /\ received = [v \in Vans |-> 0]
    /\ req = [r \in Requests |-> Idle]
    /\ redisQueue = <<>>
    /\ executed = 0
    /\ ackedAt = [v \in Vans |-> [p \in 1 .. MaxPings |-> 0]]
    /\ shown = [s \in Sockets |-> [v \in Vans |-> 0]]

-----------------------------------------------------------------------------
(* Connections *)

Connect(r, s) ==
    /\ ~Busy(r)
    /\ socket[s].state = "new"
    /\ socket' = [socket EXCEPT ![s].state = "open"]
    /\ req' = [req EXCEPT ![r] = Serve("connect", "findUser", s, None, 0)]
    /\ UNCHANGED <<subscribers, shown, stores, fleet, redis, history>>

\* The token is valid and the user active, or the socket is closed.  The vans a
\* driver has now are kept on the socket.  A driver's registration is looked up.
FindUser(r) ==
    /\ At(r, "findUser")
    /\ LET s == req[r].socket IN
       \/ /\ Close(s)
          /\ Finish(r) /\ UNCHANGED redis
       \/ \E role \in Roles :
            /\ socket' = [socket EXCEPT ![s] =
                            [@ EXCEPT !.role = role,
                                      !.vans = IF role = "DRIVER" THEN driverVans ELSE {}]]
            /\ IF role = "DRIVER" THEN Issue(r, "connect", s, None, 0)
                                  ELSE Finish(r) /\ UNCHANGED redis
    /\ UNCHANGED <<subscribers, shown, stores, fleet, history>>

\* The client leaves or its connection times out.  handleDisconnect finds no
\* registration and so cleans nothing up.
Disconnect(s) ==
    /\ Open(s)
    /\ Close(s)
    /\ UNCHANGED <<subscribers, shown, stores, fleet, redis, history, req>>

-----------------------------------------------------------------------------
(* Positions *)

MayDrive(s, v) == Role(s) = "DRIVER" /\ v \in socket[s].vans

\* A position arrives; its number is drawn here.
Receive(r, op, s, v) ==
    /\ ~Busy(r)
    /\ received[v] < MaxPings
    /\ received' = [received EXCEPT ![v] = @ + 1]
    /\ Issue(r, op, s, v, received[v] + 1)
    /\ UNCHANGED <<clients, stores, fleet, ackedAt>>

\* handleLocationUpdate: the vans on the socket decide, not those in the database.
\* Without a user or a right to the van the handler returns, and nothing happens.
LocationUpdate(r, s, v) ==
    /\ Open(s) /\ MayDrive(s, v)
    /\ Receive(r, "location", s, v)

\* startTrip, endTrip, markPickup, markDrop and activateSOS store a position too.
RestLocation(r, v) == Receive(r, "rest", None, v)

UpdateVan(r) ==
    /\ At(r, "updateVan")
    /\ stored' = [stored EXCEPT ![req[r].van] = req[r].pos]
    /\ Goto(r, "ack")
    /\ UNCHANGED <<clients, cached, fleet, redis, history>>

AckBug(r) ==
    /\ At(r, "updateVan")
    /\ ackedAt' = [ackedAt EXCEPT ![req[r].van][req[r].pos] = received[req[r].van]]
    /\ UNCHANGED <<clients, stores, fleet, redis, received, req>>

\* The update is answered: the driver is told.
Ack(r) ==
    /\ At(r, "ack")
    /\ ackedAt' = [ackedAt EXCEPT ![req[r].van][req[r].pos] = received[req[r].van]]
    /\ Finish(r)
    /\ UNCHANGED <<clients, stores, fleet, redis, received>>

-----------------------------------------------------------------------------
(* Subscriptions *)

MaySubscribeBug(s, v) ==
    /\ Role(s) # "PARENT"
    /\ Role(s) = "DRIVER" => v \in socket[s].vans

\* A driver may follow the vans on his socket, staff any van.
MaySubscribe(s, v) ==
    \/ MayDrive(s, v)
    \/ Role(s) = "ADMIN"

\* subscribeToVan, then the question for the current position.
Follow(r, s, v) ==
    /\ subscribers' = [subscribers EXCEPT ![v] = @ \cup {s}]
    /\ Issue(r, "subscribe", s, v, 0)

Subscribe(r, s, v) ==
    /\ ~Busy(r) /\ Open(s)
    /\ \/ /\ MaySubscribe(s, v)
          /\ Follow(r, s, v)
       \/ /\ Role(s) = "PARENT"
          /\ req' = [req EXCEPT ![r] = Serve("subscribe", "checkAccess", s, v, 0)]
          /\ UNCHANGED <<subscribers, redis>>
    /\ UNCHANGED <<socket, shown, stores, fleet, history>>

\* A parent follows the vans of the children.  The socket may be closed by now.
CheckAccess(r) ==
    /\ At(r, "checkAccess")
    /\ \/ /\ req[r].van \in childVans
          /\ Follow(r, req[r].socket, req[r].van)
       \/ /\ req[r].van \notin childVans
          /\ Finish(r)
          /\ UNCHANGED <<subscribers, redis>>
    /\ UNCHANGED <<socket, shown, stores, fleet, history>>

Unsubscribe(s, v) ==
    /\ Open(s) /\ s \in subscribers[v]
    /\ subscribers' = [subscribers EXCEPT ![v] = @ \ {s}]
    /\ UNCHANGED <<socket, shown, stores, fleet, redis, history, req>>

-----------------------------------------------------------------------------
(* Redis *)

\* The connection is first in, first out.
NextCommand == redisQueue[executed + 1]

\* SETEX stores the position, GET reads it into the answer.
RedisExecutes ==
    /\ executed < Len(redisQueue)
    /\ executed' = executed + 1
    /\ LET r == NextCommand
           v == req[r].van IN
       \/ /\ req[r].op \in {"location", "rest"}
          /\ cached' = [cached EXCEPT ![v] = req[r].pos]
          /\ UNCHANGED req
       \/ /\ req[r].op = "subscribe"
          /\ req' = [req EXCEPT ![r].pos = cached[v]]
          /\ UNCHANGED cached
       \/ /\ req[r].op = "connect"
          /\ UNCHANGED <<req, cached>>
    /\ UNCHANGED <<clients, stored, fleet, redisQueue, history>>

ShowBug(s, v, pos) ==
    shown' = IF Open(s) /\ stored[v] # 0 THEN [shown EXCEPT ![s][v] = stored[v]] ELSE shown

\* A position is emitted if there is one and the socket still listens.
Show(s, v, pos) ==
    shown' = IF Open(s) /\ pos # 0 THEN [shown EXCEPT ![s][v] = pos] ELSE shown

DequeueBug ==
    /\ redisQueue' = Tail(redisQueue)
    /\ UNCHANGED executed

Dequeue ==
    /\ redisQueue' = Tail(redisQueue)
    /\ executed' = IF executed > 0 THEN executed - 1 ELSE 0

\* The oldest command is answered and its handler goes on.
RedisReplies ==
    /\ executed > 0
    /\ Dequeue
    /\ LET r == Head(redisQueue) IN
       \/ /\ req[r].op = "location"
          /\ Goto(r, "updateVan")
          /\ UNCHANGED shown
       \/ /\ req[r].op = "subscribe"
          /\ Show(req[r].socket, req[r].van, req[r].pos)
          /\ Finish(r)
       \/ /\ req[r].op \in {"rest", "connect"}
          /\ Finish(r)
          /\ UNCHANGED shown
    /\ UNCHANGED <<socket, subscribers, stores, fleet, history>>

\* The position expires after five minutes without a newer one.
PositionExpires(v) ==
    /\ cached[v] # 0
    /\ cached' = [cached EXCEPT ![v] = 0]
    /\ UNCHANGED <<clients, stored, fleet, redis, history, req>>

-----------------------------------------------------------------------------
(* Faults *)

AbortBug(r) ==
    /\ IF req[r].op = "location" THEN Goto(r, "updateVan") ELSE Finish(r)
    /\ IF req[r].op = "connect" THEN Close(req[r].socket) ELSE UNCHANGED socket
    /\ UNCHANGED <<subscribers, shown, stores, fleet, history>>

\* handleConnection catches what is thrown and closes the socket; the other
\* handlers let it pass.
Abort(r) ==
    /\ Finish(r)
    /\ IF req[r].op = "connect" THEN Close(req[r].socket) ELSE UNCHANGED socket
    /\ UNCHANGED <<subscribers, shown, stores, fleet, history>>

DatabaseFails(r) ==
    /\ MayFail
    /\ \E call \in Calls \ {"redis"} : At(r, call)
    /\ Abort(r)
    /\ UNCHANGED redis

\* The oldest command is rejected, executed or not.  getVanLocation answers
\* "no position" then, which ends a subscription without one.
RedisRejects ==
    /\ MayFail /\ redisQueue # <<>>
    /\ Dequeue
    /\ Abort(Head(redisQueue))

\* ioredis connects again and sends all that was not answered once more.
RedisReconnects ==
    /\ MayFail /\ executed > 0
    /\ executed' = 0
    /\ UNCHANGED <<clients, stores, fleet, redisQueue, history, req>>

\* The process dies with its memory, its sockets and its requests.
Crash ==
    /\ MayFail
    /\ (\E s \in Sockets : Open(s)) \/ (\E r \in Requests : Busy(r))
    /\ socket' = [s \in Sockets |-> IF Open(s) THEN [socket[s] EXCEPT !.state = "closed"]
                                               ELSE socket[s]]
    /\ subscribers' = [v \in Vans |-> {}]
    /\ req' = [r \in Requests |-> Idle]
    /\ redisQueue' = <<>>
    /\ executed' = 0
    /\ UNCHANGED <<shown, stores, fleet, history>>

-----------------------------------------------------------------------------
(* The fleet services meanwhile: a van is assigned or taken away, a child changes vans *)

DriverVanChanges(v) ==
    /\ driverVans' = IF v \in driverVans THEN driverVans \ {v} ELSE driverVans \cup {v}
    /\ UNCHANGED <<clients, stores, childVans, redis, history, req>>

ChildVanChanges(v) ==
    /\ childVans' = IF v \in childVans THEN childVans \ {v} ELSE childVans \cup {v}
    /\ UNCHANGED <<clients, stores, driverVans, redis, history, req>>

-----------------------------------------------------------------------------

Arrive(r) ==
    \/ \E s \in Sockets : Connect(r, s)
    \/ \E s \in Sockets, v \in Vans : LocationUpdate(r, s, v) \/ Subscribe(r, s, v)
    \/ \E v \in Vans : RestLocation(r, v)

Step(r) == FindUser(r) \/ UpdateVan(r) \/ Ack(r) \/ CheckAccess(r)

Environment ==
    \/ \E s \in Sockets : Disconnect(s) \/ \E v \in Vans : Unsubscribe(s, v)
    \/ \E v \in Vans : PositionExpires(v) \/ DriverVanChanges(v) \/ ChildVanChanges(v)
    \/ RedisRejects \/ RedisReconnects \/ Crash

Next ==
    \/ \E r \in Requests : Arrive(r) \/ Step(r) \/ DatabaseFails(r)
    \/ RedisExecutes \/ RedisReplies
    \/ Environment

Spec == Init /\ [][Next]_vars

-----------------------------------------------------------------------------
(* Safety *)

\* Every table, connection and request has its type.
TypeOK ==
    /\ socket \in [Sockets -> SocketState]
    /\ subscribers \in [Vans -> SUBSET Sockets]
    /\ cached \in [Vans -> Position]
    /\ stored \in [Vans -> Position]
    /\ driverVans \subseteq Vans
    /\ childVans \subseteq Vans
    /\ received \in [Vans -> Position]
    /\ req \in [Requests -> Request]
    /\ redisQueue \in Seq(Requests)
    /\ executed \in 0 .. Len(redisQueue)
    /\ ackedAt \in [Vans -> [1 .. MaxPings -> Position]]
    /\ shown \in [Sockets -> [Vans -> Position]]

Acked(v, p) == ackedAt[v][p] # 0

\* A position that a driver was told has arrived is not hidden again by an older
\* one: what Redis holds is at least as new, or it has expired.
CacheCoversAcks ==
    \A v \in Vans, p \in 1 .. MaxPings :
        Acked(v, p) /\ cached[v] # 0 => p <= cached[v]

\* Two updates of a row may run in either order, but only while both are in flight:
\* the row never keeps a position whose acknowledgement came before a position was
\* received that has been acknowledged since.
StoreIsCurrent ==
    \A v \in Vans, p, q \in 1 .. MaxPings :
        stored[v] = p /\ Acked(v, p) /\ Acked(v, q) => q <= ackedAt[v][p]

\* The van's row is read when the position in Redis has expired, and is not ahead of it:
\* nobody who reads Redis again later is taken back in time.
RowTrailsCache ==
    \A v \in Vans : cached[v] # 0 => stored[v] <= cached[v]

\* Only a socket whose user is known is subscribed, and a driver only to the vans he
\* had when he connected, whatever messages come while the user is being looked up.
SubscribersAreKnown ==
    \A v \in Vans : \A s \in subscribers[v] :
        /\ Role(s) # None
        /\ Role(s) = "DRIVER" => v \in socket[s].vans

\* Commands that are sent once more repeat old positions for a moment.  Yet a client
\* that was sent a position is not sent an older one once it has been acknowledged.
AckedStaysShown ==
    [][\A s \in Sockets, v \in Vans :
          shown'[s][v] < shown[s][v] => ~Acked(v, shown[s][v])]_vars

\* The positions of a van of which a driver was told.
AckedPositions == [v \in Vans |-> {p \in 1 .. MaxPings : Acked(v, p)}]

Board == INSTANCE PositionBoard
    WITH Viewers <- Sockets, Last <- MaxPings, board <- cached, promised <- AckedPositions

\* Redis, the acknowledgements and the clients behave as PositionBoard says: no repeated
\* command puts an old position over an acknowledged one, and whoever subscribes is sent
\* a position no older than any acknowledged before.
ImplementsBoard == Board!Spec

=============================================================================
