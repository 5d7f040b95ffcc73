# A verification of the school van tracking backend

TLA+ models, TLC runs and TLAPS proofs for the NestJS backend under `src/src/`
(TypeScript, PostgreSQL through Prisma, Redis through ioredis, Socket.IO). The
repository holds the same sources a second time under `src/backend/src`; the
models are of `src/src`, and line numbers are of those files.

The backend as committed does not compile (`compilation_errors.txt` lists calls
such as `redis.set` that no class defines). The services modelled so far are
taken at the level of their methods, behind guards and validation pipes that
have already accepted the request.

## 1. The system

### Components

| Component | Source | State it keeps | Operations that change it | Status |
|---|---|---|---|---|
| Trips | `trips/trips.service.ts` | tables `trips`, `pickup_logs` | create, startTrip, endTrip, markPickup, markDrop, markAbsent, activateSOS, resolveSOS | modelled |
| Trip locations | `trips/trip-location.service.ts` | position of a trip in Redis, with the van's row as the fallback | recordLocation, updateVanPosition | partly: both writes; the queries change nothing and `archiveLocations` does nothing |
| Redis service | `database/redis/` | van positions, active trip keys, counters, driver connections, pub/sub listeners | setVanLocation, setActiveTrip, removeActiveTrip, checkRateLimit, the connection itself | partly: no caller of pub/sub and the generic cache, driver connections are never written |
| Fleet | `vans/`, `drivers/`, `students/` | who drives which van, who rides which van, which routes a van is given | create, update, remove, assignDriver, unassignDriver | modelled |
| Routes | `routes/` | routes, their stops, the vans they are assigned to | create, update, remove, assignVan, unassignVan | modelled |
| Live tracking | `websocket/` | sockets and their users, subscriptions to vans, positions in flight | connect, disconnect, location update, subscribe, unsubscribe | modelled |
| Rate limiting | `rate-limit/`, `redis.module.ts:160` | one counter and expiry per key and window | check | modelled |
| Alerts | `alerts/` | table `alerts` | create, update, markAsRead, markAllAsRead, remove | partly (the trips' two inserts) |
| Authentication | `auth/` | table `refresh_tokens`, users' last login | login, refresh, logout, register, changePassword | not modelled, see section 6 |
| Transactions | `database/prisma/prisma.service.ts:55`, `common/services/tenant.service.ts` | attempts of a transaction | transaction with retry | not modelled: nothing calls it |
| Schools | `schools/` | table `schools` | create, update, remove | not modelled: single row writes like those of the fleet |
| Notifications, health, config, logging, guards, pipes | | none across requests | | not modelled: no state |
| `controllers/`, `models/`, `services/`, `middleware/`, `validators/`, `*.routes.ts` | | | | not modelled: left over from a portfolio application, not part of the van system |

### How they interact

* A driver's HTTP call reaches `TripsService` through `TripsController`, which
  takes the driver's id from the token. The service awaits PostgreSQL (the trip
  row, the student row, the attendance log, the alert) and Redis (the active
  trip key, the position) one call after another, outside of any transaction.
* Students and vans are shared: whether a student may be marked on a trip is
  decided by `students.vanId`, and whether a driver may create a trip by
  `vans.driverId`. The fleet services write both while trips run.
* `activateSOS` and `resolveSOS` tell the school by inserting into `alerts`,
  which `AlertsService` reads and edits.
* The gateway takes positions from drivers and stores them in Redis and then in
  the van's row; clients who subscribe to a van are sent the position in Redis.
  The trip handlers store positions in the same keys. Broadcasts only log so far.
* The vans a driver may send positions for are read from the fleet's rows once,
  when the socket connects.
* A van's routes are written by `RoutesService` and by the forms of `VansService`.
* `RateLimitService` counts in Redis. No guard calls it yet, so its callers are
  taken to call it at any time.
* Authentication issues an access and a refresh token; every guard depends on
  the first.

### What is hard here

* **Check, await, write.** Every handler checks a row in one query and writes by
  id in a later one. Whatever another handler did in between is overwritten
  (`trips.service.ts:304`, `:354`, `:699`, `:754`) or ignored (`:434`).
* **Multi-step writes without a transaction.** A trip's row, its Redis key and
  its alert are written one by one; a rejected call or a dead process leaves a
  prefix.
* **Retries.** Idempotency keys exist, but the check of the key follows the
  check for duplicates.
* **Two paths to one state.** A trip is completed by `endTrip` or by the end of
  an emergency, and each path must leave the same traces.
* **Messages that overlap.** The gateway serves each message of a socket without
  waiting for the one before, and while it still looks up the socket's user.
* **Commands that come late or twice.** Commands wait for Redis, a broken
  connection sends them again, and time goes on: a counter may be gone when it is
  counted, an old position may be written once more.
* **Delete and insert again.** A route's stops and a van's routes are replaced in
  two calls.

`PROJECT.json` lists each hazard at its line, with the properties that cover it or
the reason why none does.

### What makes each component correct

* *Trips*: statuses follow the life cycle; attendance exists only for trips that
  got under way, once per idempotency key, and is not revised after a pickup or
  drop; an answer of success means a stored log; an emergency reaches the school,
  and before its all-clear; a trip that is over is no longer active anywhere.
* *Fleet*: one driver drives at most one van and one van has at most one driver;
  deleted drivers drive nothing; an update changes no more than it names.
* *Routes*: a route has one list of stops or none, the answer of an edit shows
  the stops that were sent, a deleted route is not edited any more.
* *Live tracking*: a position a driver was told has arrived is not hidden by an
  older one, in Redis, in the row or at a client; only sockets whose user is known
  are subscribed.
* *Rate limiting*: no more than the limit in a window; nobody is refused before;
  every counter expires, and soon enough that old keys do not pile up.

## 2. Modules

| Module | What it is |
|---|---|
| `TripService` | `TripsService`: one action per awaited call of every state-changing handler |
| `TripContract` | What callers may rely on: the life cycle of a trip and of a student's attendance, each operation one step |
| `MCTripService` | Symmetry and views for TLC |
| `TripServiceProofs` | Theorems about `Spec` for all constants |
| `TripSerialProofs` | Theorems about `Spec` for clients that wait, for runs without failures, and on what overlapping marks may leave |
| `Fleet` | `VansService`, `DriversService`, `StudentsService`: one action per awaited call of every state-changing handler |
| `MCFleet` | Symmetry for TLC |
| `FleetProofs` | Type correctness of `Fleet` for all constants |
| `FleetSerialProofs` | Theorems about `Fleet` for administrators who wait for all others or for those of the same row, and one for those who do not wait |
| `Routes` | `RoutesService` and the routes in the forms of `VansService` |
| `RoutePlan` | What administrators may rely on: a route is live until it is deleted and has one plan of stops or none |
| `MCRoutes`, `RoutesProofs` | Symmetry for TLC; theorems for all constants |
| `LiveTracking` | `SocketGateway` and `WebSocketService` on one Redis connection and a pool of database connections |
| `PositionBoard` | What drivers and clients may rely on: a board per van that never shows less than was promised |
| `MCLiveTracking` | Symmetry and view for TLC |
| `LiveTrackingProofs`, `LiveOrderProofs` | Types and subscribers; the order of positions |
| `RateLimit` | `RateLimitService` on the Redis limiter: INCR, EXPIRE, the clock |
| `MCRateLimit`, `RateLimitProofs` | Symmetry for TLC; theorems for all constants |

The components share tables, yet each module owns its part: `Fleet` writes the
rows of vans, drivers and students, and for `TripService` and `LiveTracking` these
writes are actions of the environment that may happen at any time and so allow
all that `Fleet` does. `Routes` owns the assignments of vans to routes, and a
van's deletion is its environment.

### TripService and the code

| Variable | Stands for |
|---|---|
| `trip` | table `trips`: status, van, driver, and which of the timestamps `actualStart`, `actualEnd`, `sosActivatedAt`, `sosResolvedAt` are set |
| `pickupLogs` | table `pickup_logs` in insertion order; rows are never updated or deleted |
| `alerts` | which (type, trip) pairs have a row in `alerts` |
| `activeTrips` | the Redis keys `trip:{id}:active` |
| `vanDriver`, `studentVan` | `vans.driverId` and `students.vanId`, for active rows only |
| `req` | the requests being served: operation, parameters, and in `pc` the call being awaited |

JavaScript runs a handler without interruption from one `await` to the next. An
action is the awaited call together with what the handler does with its result,
so the interleavings of the model are those of the event loop. The order of the
calls is the code's:

| Handler | Awaits, in order |
|---|---|
| create | `findVan`, `findRoute` (if a route is named), `insertTrip`, `setActive` |
| startTrip | `findTrip`, `updateTrip`, `setLocation`, `recordLocation` |
| endTrip | `findTrip`, `updateTrip`, `setLocation`, `recordLocation`, `removeActive` |
| markPickup, markDrop | `findTrip`, `findStudent`, `findLog`, `findKey` (if a key is given), `insertLog`, `setLocation`, `recordLocation` |
| markAbsent | `findTrip`, `findStudent`, `findLog`, `insertLog` |
| activateSOS | `findTrip`, `updateTrip`, `setLocation` (if a position is given), `insertAlert` |
| resolveSOS | `findTrip`, `updateTrip`, `insertAlert` |

Faults: any awaited call may reject without effect (`CallFails`; no handler
catches it), and the process may die with all its requests (`Crash`), after which
the two stores are as they were. A call that took effect and whose answer was
lost is the step of that call followed by one of these two. Neither happens
when `MayFail` is FALSE.

Environment: students move between vans or leave (`StudentMoved`), vans change
drivers or are removed (`VanReassigned`), and the active key expires after 24
hours (`ActiveTripExpires`). The first two allow more than the fleet services do,
which is safe for the properties checked here: none of them holds because of a
restriction on these writes.

Simplifications and their reasons:

* *School*. Each query also filters by `schoolId`, the same for the caller and
  for the rows it owns; with one school per driver the filter is implied.
* *Rows never written*. No code deletes a trip or writes `CANCELLED`; the status
  is in the type, no action produces it.
* *Positions* are data no property here is about. The calls that store them stay
  as points where a handler waits or fails.
* *notifyParent* reads and logs, and its failures are caught. It is left out.
* *`actionTakenAt`* is part of a unique index of `pickup_logs`, so two logs of a
  student on a trip collide only when written at the same millisecond.
  `InsertLog` may therefore reject when such a log exists, and may not.
* *Ids* are drawn when a request arrives, which only says that UUIDs are unique.

### Fleet and the code

| Variable | Stands for |
|---|---|
| `van` | table `vans`: not yet inserted, live or deleted (`deletedAt`), `isActive`, `driverId` |
| `driver` | the rows of `User` with role DRIVER: the same two flags |
| `student` | table `students`: the same two flags, and `vanId` |
| `req` | the requests being served, as above; `seen` is what the first query read and the write uses (`existing.driverId`, `student.vanId`) |

| Handler | Awaits, in order |
|---|---|
| createVan | `unique`, `findDriver` (if a driver is named), `write` |
| updateVan | `findVan`, `unique` (if the plate changes), `findDriver` and `findDriverVan` (if a driver is named), `write` |
| removeVan, unassignDriver | `findVan`, `write` |
| assignDriver | `findVan`, `findDriver`, `findDriverVan`, `write` |
| createDriver | `unique`, `write` |
| updateDriver | `findDriver`, `write` |
| removeDriver | `findDriver`, `write`, `unassignVans` |
| createStudent | `unique` (the parent's query), `findVan` (if a van is named), `write` |
| updateStudent | `findStudent`, `findVan` and `leaveVan` (if the van changes), `write` |
| removeStudent | `findStudent`, `write` |

Two constants say how administrators wait. With `SerialAdmins` one request is in
flight at a time. With `SerialRows` a request arrives only when none in flight
names its van, its driver or its student (`Names`): administrators who work on the
same rows wait for each other, all others overlap. The code enforces neither.

What a reader should know of the code when reading the model:

* Queries skip deleted rows, writes go by id and do not. That is the source of
  the races below.
* `createVan` checks that a driver is in service but not that he has no other van,
  and `updateVan` can reactivate a van whose driver has another by now. So
  `OneVanPerDriver` is claimed for the assign endpoint only.
* `updateVan` writes back the driver it has read when the form names none
  (`vans.service.ts:315`). The request does not name that driver, so waiting for calls
  on the same rows does not help: he may be deleted meanwhile and come back on the
  van. `DeletedDriverDrivesNothing` therefore needs `SerialAdmins`, or no calls of
  `updateVan`, and `AssignsInService` needs `SerialAdmins`. Under `SerialRows` that
  is all that goes wrong: an update undoes the deletion of a driver and no other
  change (`UpdateUndoesDeletionOnly`). Without it an update undoes assignments too.
* `updateStudent` takes everyone else off the van the student leaves, as its
  comment says (`students.service.ts:196`). The model does the same (`LeaveVan`).
* `removeVan` leaves the driver and the students on the deleted row.
* `van.create` and `van.update` include a relation `routes` that the schema's `Van`
  does not have (it is `VanRoute`), so Prisma would reject both calls as the schema
  stands. The model has the write succeed, which is what the code is written for,
  or fail (`CallFails`); all theorems but `DeletedDriverLeaves`, which is about calls
  that do not fail, cover both, and the violation uses neither endpoint.
* The rows start as the seed leaves them, or any part of it: vans, each with a
  driver of its own, and students on them.

### Routes and the code

| Variable | Stands for |
|---|---|
| `route` | table `routes`: not inserted yet, live, or deleted (`deletedAt`) |
| `stops` | table `route_stops`: per route the lists of stops inserted for it, in order. One request inserts its stops together, numbered from 1, and all stops of a route are deleted together, so the table consists of whole lists, and a route with two lists has two stops of each number |
| `van`, `vanRoutes` | vans as far as routes are concerned, and table `van_routes`, unique by its pair of ids |
| `req` | the requests being served, as above |

| Handler | Awaits, in order |
|---|---|
| create | `insertRoute`, `insertStops` (if there are any), `readBack` |
| update | `findRoute`, `writeRoute`, `deleteStops` (if the form names stops), `insertStops` (if there are any), `readBack` |
| remove | `findRoute`, `deleteRoute`, `deleteAssignments` |
| assignVan | `findRoute`, `findVan`, `upsert` |
| unassignVan | `deleteAssignment` |
| VansService.create | `insertVan`, `insertVanRoutes` (if routes are named) |
| VansService.update | `findVan`, `deleteVanRoutes`, `insertVanRoutes` (if any) |

What a reader should know:

* `findOne`, `findAll`, `update` and `findRoutesForVan` ask for
  `assignedVans where isActive`, a field `VanRoute` does not have. Prisma rejects
  the read-back of `update` as the schema stands; the model has it succeed, which
  is what the code is written for, or fail.
* The routes in the forms of `VansService` are not looked up: they may name a
  deleted route, which the foreign key accepts.
* `remove` deletes the route and then its assignments. If it fails in between the
  assignments stay, and repeating it answers 404.
* What else `VansService.create` and `update` do is in `Fleet`. The two models
  abstract one handler in two ways; no property relates its two parts.

### LiveTracking and the code

| Variable | Stands for |
|---|---|
| `socket` | Socket.IO's sockets: new, open, closed, and the user `handleConnection` stores on them (role, the driver's vans) |
| `subscribers` | `WebSocketService.vanSubscriptions` |
| `cached`, `stored` | the Redis keys `van:{id}:location`, the position in the van's row |
| `driverVans`, `childVans` | vans of the driver and of the parent's children in the database, which the fleet services change at any time |
| `redisQueue`, `executed` | the commands issued to Redis and not answered, in order, and how many of them Redis has executed |
| `req` | the messages being served: operation, socket, van, position, and in `pc` the call being awaited |
| `received`, `ackedAt`, `shown` | history: positions received, when each was acknowledged, what each socket was last sent |

| Handler | Awaits, in order |
|---|---|
| handleConnection | `findUser`, then for drivers `redis` (the registration) |
| handleLocationUpdate | `redis` (the position), `updateVan`, `ack` (the answer of the database) |
| handleSubscribeVan | `checkAccess` (parents), `redis` (the position) |
| the trip handlers | `redis` (the position), operation `rest` |

Prisma has a pool of connections, so the updates of two messages take effect in
either order (`UpdateVan`), and are answered in either order (`Ack`). ioredis has
one connection, first in first out. If it breaks, the commands that were not
answered are sent and executed again (`RedisReconnects`) or rejected
(`RedisRejects`, after which the command may have taken effect or not). Positions
are numbered in the order their handlers start; the model says nothing of the
order in which a device measured them.

`PositionBoard` sees of this `cached` as the board of a van, the acknowledged
positions as its promises, and what sockets were shown. A command that Redis executes
again puts up a position older than the one on the board, never older than one
that was acknowledged; that is all its `Put` asks for.

What a reader should know:

* The vans of a driver are those of the time the socket connected. A driver taken
  off a van goes on sending its position until he disconnects.
* A driver is registered only if a registration is found
  (`socket.gateway.ts:135`, `:387`), which no path creates. So the registration and
  what `handleDisconnect` cleans up are never there, and a subscription of a
  closed socket stays until the process ends.
* `handleSOS` only logs.

### RateLimit and the code

| Variable | Stands for |
|---|---|
| `now` | `Date.now()`, in ticks |
| `count`, `expireAt` | the Redis key of each window, 0 when there is none, and when it expires |
| `call` | the checks being made: the time read, and the command being awaited |
| `calls`, `inTime`, `late`, `broken` | the bound on checks; history: checks let through by a count within and after the window, windows with a lost or repeated command |

A check reads the clock, which names the window, awaits INCR, and if it got 1
awaits EXPIRE. Both may run after the window is over, by up to `MaxDelay`. A
command may be rejected, INCR may run twice, the process may die between the two.
The three categories and the identifiers only choose another key and limit. The
copy of the limiter in `redis.service.ts:204` runs the same commands; it lets a
request pass when a command is rejected, where the one given to
`RateLimitService` throws, and neither counts it as let through by the counter.

What a reader should know: `README.md:241` speaks of a sliding window, and the
code has fixed ones, so that twice the limit may pass around a boundary. For a
check made exactly when a window begins, `resetAt` is that moment and not the
end of the window. A window's counter whose EXPIRE was lost stays for good.

## 3. Runs

The states TLC explores are bounded by the number of request slots (how many
handlers overlap), by the sets of ids, and by what each model names as a bound.
Every race in the hazard list is between two handlers; a third slot is there
where a third handler can get between two. A slot is used again once its request
is answered, so sequences are not bounded by the slots.

| Run | Question | Instance |
|---|---|---|
| `attendance` | With overlapping requests, failures and crashes: does attendance exist only on trips that got under way, has a completed trip its end time, does a key mark once, are there no more pickups and drops of a student than overlapping calls, is an acknowledged mark stored, and is a completed trip left in Redis only by an SOS that completes it, a failed `endTrip`, or a late `create`? | 2 slots, 1 trip, 1 student, 1 key, `MaxLogs` 2 |
| `contract` | If clients wait for an answer before the next call on a trip, does the service implement `TripContract`, is a pickup or drop final, and do the columns of a trip agree (an end exactly when completed, an unresolved emergency still standing), whatever fails? | 2 slots, 1 trip, 2 students, all endpoints, `MaxLogs` 2 |
| `alerting` | Without failures, with overlapping requests: is every request answered, does every emergency reach the alerts, is it on its way until then, and does an all-clear stand without its alarm only as long? | 2 slots, 1 trip, fairness |
| `retry_pickup` | README: a retry returns the existing log. | violated |
| `silent_sos` | README, transactions: an emergency has its alert even when a call fails. | violated |
| `fleet_serial` | If administrators wait, does what a handler checked still hold when it writes, whatever fails? | 1 slot, 2 vans, 1 driver, 2 students, all endpoints |
| `fleet_rows` | If administrators of the same row wait and others overlap: do deleted rows stay deleted, and what does an update undo that names no driver, whatever fails? | 2 slots, 2 vans, 1 driver, 1 student, all endpoints, `SerialRows` |
| `fleet_assignment` | If administrators of the same row wait, nothing fails and drivers are given vans by the assign endpoint only: has each driver at most one van in service, and is a deleted driver off every van? | 2 slots, 3 vans, 2 drivers, `SerialRows` |
| `ghost_driver` | "Unassign from any vans": a deleted driver drives nothing. | violated |
| `routes` | If administrators wait before the next call on a route, does `Routes` implement `RoutePlan`: one list of stops, answers with the stops sent, only live routes assigned, whatever fails? | 3 slots, 2 routes, 1 van, 2 lists of stops |
| `live_tracking` | With overlapping messages, a connection that breaks and sends commands again, failures and crashes: is an acknowledged position never hidden by an older one, in Redis, in the row, at a client, and does all of this implement `PositionBoard`; is the row never ahead of Redis; are all subscribers known? | 3 slots, 1 van, 1 socket, 3 positions |
| `rate_limit` | With delayed, lost and repeated commands and crashes: does the limit hold for checks that count in time, is it at most doubled by late ones, is nobody refused before it is used up, do counters expire, and do they within a window and the longest delay after their own? | 3 callers, limit 1, 3 windows of 2 ticks, delay up to a window, 4 checks |

`MaxLogs` lets no attendance request arrive once that many logs exist; those in
flight may still insert, so two slots with `MaxLogs` 2 give three logs, one more
than the calls that overlap, as `MarksOnlyOverlap` needs to be refuted.
`attendance` has one student: that a key is not used twice by two students is left
to the theorem `KeySafety`.

`contract` and `attendance` differ in `SerialPerTrip`: in the first a client
waits for the answer to one call on a trip before it makes the next, which is
what the driver's app does while no timeout makes it repeat a call. Properties
that need this assumption say so; the others hold without it. `SerialPerRoute` is
the same for the calls on a route, and calls on two routes or a van still overlap.

`fleet_serial` has `SerialAdmins`: one request at a time, so that one slot is all
that can be busy. It asks whether the queries of a handler are the right ones for
its write, over every sequence of calls, failures and crashes. `fleet_rows` and
`fleet_assignment` have the weaker `SerialRows`. In the first, over all endpoints, an
update of a van overlaps the deletion of its driver, which it undoes, and the calls on
another van and a student. One driver is enough for a driver who comes back; that an
update does not swap one for another is left to the theorem. In the second an assignment
of one driver overlaps the removal of another or of a van. `ghost_driver` uses two slots without either assumption and
shows that the queries alone do not protect the writes. Two vans are a source and
a target, and three give a driver whose two others are in different states.

In `live_tracking` the third slot lets a subscription read between two positions,
and three positions are the least with one acknowledged, one executed and one
waiting. One socket is enough: a property of subscribers is about one socket at a
time, and positions that do not come from it come from the trip handlers. In
`rate_limit` three checks are needed for a late one to find the key of its window
made again, and three windows for a key to outlive the second. The clock and the
number of checks stop there, which ends every behaviour: this run alone does
not check for deadlock.

`SYMMETRY` is used with safety properties only, over sets of ids that no
definition tells apart. Each `VIEW` drops what can no longer make a difference:

* `View` of the trips drops how a slot's last request was answered. That field is
  read by one property, `AckedMarkIsStored`, and by it only in the state the
  answering step leads to; no guard reads it.
* `AttendanceView` also drops the alerts and `sosActivated`, which neither a guard nor a property of that run reads, and the drivers of vans
  once there is no trip left to create.
* `View` of the live tracking drops what a closed socket keeps while no handler
  works for it, and the driver's vans once no socket can connect any more. A closed
  socket stays closed and is subscribed to nothing more, and what it was shown or
  whom it belongs to does not change.

`alerting`, the run with liveness, uses neither.

Fairness: `FairSpec` asks for weak fairness of `Step(r)` for each slot. An
awaited promise that has settled is queued in Node's event loop, which serves
its queue in order, and the clients of PostgreSQL and Redis settle every
promise. Nothing is assumed about clients, failures or the environment. The other
components have no liveness property: their handlers are straight sequences of
calls, and nothing in them waits for another handler.

Each property was also seen to fail: `PROJECT.json` lists for each one a
definition with a plausible bug in it (the operators named `...Bug`) under which
TLC finds the property violated in the same run.

### What the violations say

1. **A retried pickup is refused** (`retry_pickup`). `markPickup` and `markDrop`
   look for any final log of the student on the trip before they look at the key
   (`trips.service.ts:403`, `:418`). The first request's own log makes its retry
   fail with a conflict, where `README.md:238` promises the existing log.
2. **A silent emergency** (`silent_sos`). If the position cannot be stored after
   the status has been written, there is no alert, and the emergency cannot be
   raised again since the status is already `SOS_ACTIVE` (`:699`).
3. **A deleted driver on a van** (`ghost_driver`). The driver is deleted and taken
   off all vans (`drivers.service.ts:199`) between the check of an assignment and
   its write. Nothing takes him off again: removing him a second time answers 404.

Relatives of these, which the models contain and which have no run of their own:

* Two overlapping pickups of one student both find no earlier log and both insert
  (`trips.service.ts:403`, `:434`); the unique index includes the time.
* `resolveSOS` with `willContinue` false completes the trip and leaves its Redis key
  (`:754`), for up to 24 hours; so do an `endTrip` that fails after its status write
  (`:354`) and a `create` that lists a trip which is over (`:76`). `EndedLeavesActive`
  says that nothing else does.
* The all-clear of an emergency is inserted before its alarm when the two calls
  overlap (`:769`). `AllClearHasAlarm` says that the alarm is then on its way.
* An update of a van puts a deleted driver back on it (`vans.service.ts:315`), see
  section 2.
* A retried absence hits the unique index of the key, which `markAbsent` stores
  and never looks up (`:642`).
* A pickup that saw the trip in progress is inserted after the trip has ended
  (`:434`).
* Two overlapping assignments of one driver to two vans both find him free
  (`vans.service.ts:424`, `:439`; `driverId` has no unique index).
* `students.service.ts:208` puts a student on a van who was deleted since `:168`.
* Two overlapping updates of a route leave it with both lists of stops
  (`routes.service.ts:138`, `:154`).
* A route is given to a van after it has been deleted (`routes.service.ts:293`).

## 4. Proofs

All theorems are for every value of the constants that satisfies the assumption
their module names (`None` and the like are no ids, switches are Booleans, bounds
are numbers), with any number of requests in flight. `Spec =>` is short for the
specification of the module the theorem is about; the last column is what it
assumes besides.

| Module | Theorem | States | Assumes |
|---|---|---|---|
| `TripServiceProofs` | `TypeSafety` | `[]TypeOK` | |
| | `AttendanceSafety` | `[]AttendanceAfterStart` | |
| | `CompletionSafety` | `[]CompletedHasEnd` | |
| | `KeySafety` | `[]KeyMarksOnce` | |
| | `AckSafety` | `AckedMarkIsStored` | |
| `TripSerialProofs` | `FinalMarkSafety` | `[]MarkIsFinal` | `SerialPerTrip` |
| | `SosAlertSafety` | `[]SosIsAlerted` | `~MayFail` |
| | `AllClearSafety` | `[]AllClearHasAlarm` | `~MayFail` |
| | `ResolutionSafety` | `[]ResolutionFollowsAlert` | `SerialPerTrip`, `~MayFail` |
| | `ActiveSafety` | `EndedLeavesActive` | |
| | `RefinesContract` | `ImplementsContract` | `SerialPerTrip` |
| | `ColumnsSafety` | `[]ColumnsAgree` | `SerialPerTrip` |
| | `OverlapSafety` | `[]MarksOnlyOverlap` | `Requests` is finite |
| `FleetProofs` | `TypeSafety` | `[]TypeOK` | |
| `FleetSerialProofs` | `DeletedStaysGone` | `[]DeletedIsGone` | `SerialAdmins` or `SerialRows` |
| | `AssignmentsInService` | `AssignsInService` | `SerialAdmins` |
| | `UpdatesUndoDeletions` | `UpdateUndoesDeletionOnly` | `SerialAdmins` or `SerialRows` |
| | `AssignKeepsOneVan` | `[]OneVanPerDriver` | `SerialAdmins` or `SerialRows`, `createVan` and `updateVan` not offered |
| | `DeletedDriverLeaves` | `[]DeletedDriverDrivesNothing` | `~MayFail`; `SerialAdmins`, or `SerialRows` and `updateVan` not offered |
| | `OverlapSafety` | `[]VansOnlyOverlap` | `Requests` is finite and not empty, `createVan` and `updateVan` not offered |
| `RoutesProofs` | `TypeSafety` | `[]TypeOK` | |
| | `StopsSafety` | `[]OneListOfStops` | `SerialPerRoute` |
| | `AnswerSafety` | `[]AnswerShowsStops` | `SerialPerRoute` |
| | `AssignSafety` | `AssignsLiveRoute` | `SerialPerRoute` |
| | `RefinesPlan` | `ImplementsPlan` | `SerialPerRoute` |
| | `OverlapSafety` | `[]ListsOnlyOverlap` | `Requests` is finite |
| `LiveTrackingProofs` | `TypeSafety` | `[]TypeOK` | |
| | `SubscriberSafety` | `[]SubscribersAreKnown` | |
| `LiveOrderProofs` | `CacheSafety` | `[]CacheCoversAcks` | |
| | `StoreSafety` | `[]StoreIsCurrent` | |
| | `RowSafety` | `[]RowTrailsCache` | |
| | `ShownSafety` | `AckedStaysShown` | |
| | `RefinesBoard` | `ImplementsBoard` | |
| `RateLimitProofs` | `TypeSafety` | `[]TypeOK` | |
| | `LimitSafety` | `[]LimitHolds` | |
| | `LateSafety` | `[]LateAtMostTwice` | |
| | `RefusalSafety` | `[]RefusesOnlyAtLimit` | |
| | `ExpirySafety` | `[]CountersExpire` | |
| | `RemovalSafety` | `[]KeysAreRemoved` | |

The argument. In each module the types need a clause on what a request in flight
carries (`Shape`, `Carries`). The rest is hard because a handler is between its
check and its write in most states, and what it checked may no longer hold:

* *Departed trips.* A trip that was in progress need not be so any longer when a
  mark is inserted, but `started` and `sosResolved` are never reset, not even by
  a stale write. `Underway` is what a request that has passed its check may rely
  on for good: its trip has departed. `FreshIds` says that an id a `create` has
  drawn belongs to no row yet, so the insert cannot wipe a row. With the types
  these (`TypeInv /\ TripInv`) are inductive and imply the attendance property.
* *Completion.* With the types, `CompletedHasEnd` is inductive: a stale write
  never clears the end time and both writers of `COMPLETED` set it.
* *Keys.* `KeyMarksOnce` needs only the unique index at the insert.
* *Acknowledged marks.* Logs are only added, and a request that goes on to its
  last two calls has inserted its own (`MarksStored`). The answer is given in one
  step, so the property is one of steps.
* *Waiting clients.* `Serial` (two busy requests never share a trip) and
  `StillOpen` (the duplicate check of a request still holds while it waits to
  insert) make `MarkIsFinal` inductive; the second holds because of the first.
* *No failures.* A request that raised an emergency leaves its two waiting
  points only by inserting the alert. Who resolves it has found a status that only
  `activateSOS` writes, and no stale write forgets that it did (`Raised`), so the
  alarm of an all-clear is there or on its way. With waiting clients the request that
  resolves comes after the alert of the first one (`Resolvable`).
* *The list of active trips.* A handler that has completed its trip goes on, step by
  step, to take it off the list (`LeavesActive`): whoever leaves it there has failed on
  the way, is no `endTrip`, or has listed it later. It is a property of steps,
  for any overlap and any failure, and needs no invariant but the types.
* *The contract of a trip.* The refinement shows the status of each trip and the
  last log of each student. With waiting clients the status a request has found is
  still there when it writes (`StatusSeen`), so a write of a row is a move the
  contract allows, and an insert is a mark in progress. `LastLogs` says that the
  last log exists, which the refinement mapping chooses.
* *Columns of a trip.* An update writes the columns its handler names and keeps the
  others. With `StatusSeen` it writes over the status its check has found, so the
  columns that agreed before agree after.
* *Fleet.* All theorems but the types and the last rest on `RowsStayTrue`: if
  administrators wait for those of the same row, two busy requests name different
  rows (`Apart`), so what a request has seen of the rows it names (`RowSeen`) holds
  until it writes. Each query step establishes one part of it, and from it the lemmas
  `VanWrites`, `StudentWrites` and `DriverWrites` say what a write may do to a row.
  What a request has seen of other rows, the driver an update writes back or the van
  of a student, needs one request at a time (`QueriesStayTrue`, `WholeSeen`).
  `AssignKeepsOneVan` is a case in between: what `assignDriver` has seen, that no other
  van has the driver, is about rows it does not name, yet only a call that names the
  same driver could change it (`CheckedFree`). `DeletedDriverLeaves` needs in the
  same way that an update writes back the driver the van still has (`WritesBackOwn`).
  For `UpdatesUndoDeletions` the driver an update is to write back is the van's, or has
  been deleted and taken off it (`SeenOrCleared`): of the calls in flight that do not
  name the van only `UnassignVans` changes it, after the driver has been deleted
  (`DriverSeen`), and no call brings a deleted driver back.
* *Routes.* `Serial`, here per route, and `Seen`: a request that has deleted the
  stops finds none until it inserts its own, and then its own until it answers.
  `UnbornHasNone` gives the same for a create. For `RoutePlan`, each write is one of
  its steps, and the writes to vans stutter.
* *Calls that overlap.* Without any waiting the properties fail, but not by more
  than the calls in flight can account for. Each of the three theorems trades what is
  in the table for a request. `Covered`: a final mark takes the place of the request
  that had passed the check for one, and while there is a mark none passes. `Room`: a list
  of stops takes the place of the request that was about to insert it, and all who come
  to insert have deleted all lists before. `FewClaims`: the vans of a driver and the
  vans he is about to be given are together no more than the requests, since a check
  that succeeds finds him with no other van than the one to be written.
* *Order of positions.* The queue carries the positions of a van in the order of
  their numbers, newer than any answered (`Order`). So an execution can only raise
  what Redis holds, except right after the connection broke, when it goes back to
  positions that nobody has been told of; `Cover` says that what was answered or
  executed is covered by the cache or has expired, and `Answers` the same for what a
  subscription has read. `Row` follows the last write of the row: what was written
  before was received before its acknowledgement. `Numbers` says that a position
  is drawn once and acknowledged only when its request ends.
* *The row and the board.* A position in the row is one whose command was executed
  and answered (`Done`), and answered commands are not repeated: Redis never goes back
  behind the row. For `PositionBoard` an
  execution is a `Put` because the queue holds only positions newer than any
  acknowledged (`ExecuteIsPut`), an acknowledgement is a `Promise` because of `Cover`,
  and what a client is sent is a `Show` because of `Answers`.
* *Counters.* `Timely` says that while a window lasts its key is there and has
  counted whatever was let through: an expiry is never set to before the end of the
  window. `ChecksAreRecent` bounds how late a count may come, and so there are only
  three generations of a key (`Generations`): the first, one made after the window had
  ended, and none that anybody counts in. That gives twice the limit. `Spent` counts
  the other way: of a counter that no command has disturbed, all counts up to the limit
  belong to checks that were let through, so a refusal means that the limit is used up.
  `ExpirySoon` bounds the other end of a key's life: an expiry is set, or set again, by
  a command of a check that is still recent.

`VansOnlyOverlap` and `ListsOnlyOverlap` are in no run: the runs of these modules
have administrators who wait, for whom they follow from `OneVanPerDriver` and
`OneListOfStops`. They hold in TLC too when `fleet_assignment` is run without
`SerialRows` and with failures, and `routes` without `SerialPerRoute` and with two slots.
`ResolutionFollowsAlert` is in none either, since `alerting` has clients who do not
wait; it holds in TLC with `SerialPerTrip`.

Only model-checked: the liveness properties `Answered` and `SosAlertFollows`, which
like `ENABLED` are out of the prover's reach. No module uses recursion: what
a recursive definition computes for every input could not be proved with the
installed provers, which offer no induction over data, and a module with a RECURSIVE
operator loses its SMT backend.

## 5. Plan

| Module | Models | What it would add |
|---|---|---|
| `TripFleet` | `TripService` with `Fleet` as its environment | which of the ride checks hold when administrators wait and drivers do not; the environment of `TripService` allows more than `Fleet` does |
| `AlertInbox` | `AlertsService` | read marks against removal, once deleted alerts are hidden from the list |
| `TransactionRetry` | the retry loop of `transaction` | a repeated transaction takes effect once; when a service uses it |
| `AuthSessions` | login, refresh, logout, changePassword | one refresh token buys one successor, a revoked session stays revoked; when login stores tokens |

## 6. Not modelled

* *Authentication.* `login` and `register` hand out a refresh token and do not store
  it (`auth.service.ts:46`, `:278`), so every refresh ends at its first query
  (`:155`), and the code that rotates, detects reuse and stores is never reached with
  a token. `revokeAllUserTokens` and `storeRefreshToken` call `redis.set`, `keys` and
  `del`, which `RedisService` does not have. A model of it would show an empty table.
* *Transactions.* Nothing calls `PrismaService.transaction` but `TenantService`, and
  nothing calls `TenantService`.
* *Alerts.* Marking read, editing and removing are single statements on flags that
  no other operation reads: deleted alerts are still listed and counted
  (`alerts.service.ts:57`, `:181`), so there is no promise one of them could break.
* *Redis.* Driver connections are read before they are ever written; pub/sub and the
  generic cache have no callers.
* *Schools, notifications, guards, pipes, filters, health, configuration, logging*:
  no state that outlives a request, or single row writes.
* *The second copy* under `src/backend`, generated code, the seed, the tests and what
  is left of the portfolio application make up most of the repository's lines. The
  copy of the services is the same text; the models are of the first.
