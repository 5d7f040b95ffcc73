--------------------------- MODULE LiveOrderProofs ---------------------------
(***************************************************************************)
(* Theorems about LiveTracking: positions do not go back.  The argument    *)
(* rests on the order of the commands in the connection to Redis: for one  *)
(* van they carry rising positions, all newer than whatever was answered.  *)
(***************************************************************************)
EXTENDS LiveTrackingProofs

\* The position p was answered by Redis: it is on its way to the row, in the row or
\* acknowledged.
InRowWith(v, p) ==
    \E r \in Requests : req[r].pc \in InRow /\ req[r].van = v /\ req[r].pos = p

Done(v, p) ==
    \/ p \in 1 .. MaxPings /\ Acked(v, p)
    \/ InRowWith(v, p)
    \/ p # 0 /\ stored[v] = p

\* The position p was written to the row of the van.
Updated(v, p) ==
    \/ p \in 1 .. MaxPings /\ Acked(v, p)
    \/ \E r \in Requests : req[r].pc = "ack" /\ req[r].van = v /\ req[r].pos = p

Writing(r) == req[r].op \in Writes

\* A number is given once, and is not acknowledged while its request is served.
Numbers ==
    /\ \A r \in Requests : Writing(r) =>
          /\ req[r].pos \in 1 .. MaxPings /\ req[r].pos <= received[req[r].van]
          /\ ~Acked(req[r].van, req[r].pos)
    /\ \A r, p \in Requests :
          Writing(r) /\ Writing(p) /\ req[r].van = req[p].van /\ req[r].pos = req[p].pos => r = p
    /\ \A v \in Vans, p \in 1 .. MaxPings : Acked(v, p) => p <= received[v]
    /\ \A v \in Vans : stored[v] <= received[v]

Writer(i) == Writing(redisQueue[i])
VanOf(i) == req[redisQueue[i]].van
PosOf(i) == req[redisQueue[i]].pos

\* Commands that write are queued in the order of their positions, all of them newer
\* than those that were answered.
Order ==
    /\ \A i, j \in 1 .. Len(redisQueue) :
          i < j /\ Writer(i) /\ Writer(j) /\ VanOf(i) = VanOf(j) => PosOf(i) < PosOf(j)
    /\ \A i \in 1 .. Len(redisQueue), v \in Vans, p \in Position :
          Writer(i) /\ VanOf(i) = v /\ Done(v, p) => p < PosOf(i)

\* What Redis holds is at least as new as what was answered or executed.
Cover ==
    /\ \A v \in Vans, p \in Position : Done(v, p) => cached[v] = 0 \/ p <= cached[v]
    /\ \A i \in 1 .. executed : Writer(i) => cached[VanOf(i)] = 0 \/ PosOf(i) <= cached[VanOf(i)]

\* So is what it has read for an answer that is to come.
Answers ==
    \A i \in 1 .. executed : req[redisQueue[i]].op = "subscribe" /\ PosOf(i) # 0 =>
        /\ \A v \in Vans, p \in Position : VanOf(i) = v /\ Done(v, p) => p <= PosOf(i)
        /\ \A j \in 1 .. i - 1 : Writer(j) /\ VanOf(j) = VanOf(i) => PosOf(j) <= PosOf(i)

\* The row of the van: what it holds was written last, before anything received later.
Row ==
    \A v \in Vans, p \in 1 .. MaxPings, q \in Position :
        stored[v] = p /\ Acked(v, p) /\ Updated(v, q) => q <= ackedAt[v][p]

QueueInv == Order /\ Cover /\ Answers

-----------------------------------------------------------------------------
(* Requests that write *)

\* No new request writes, and none is answered.
WritesKept ==
    \A r \in Requests :
        /\ req'[r].op \in Writes =>
              req[r].op \in Writes /\ req'[r].van = req[r].van /\ req'[r].pos = req[r].pos
        /\ req'[r].pc \in InRow => req[r].pc \in InRow
        /\ req'[r].pc = "ack" => req[r].pc = "ack"

LEMMA InRowWrites ==
    ASSUME TypeInv PROVE \A r \in Requests : req[r].pc \in InRow => req[r].op \in Writes
BY DEF TypeInv, Shape, Writes

LEMMA InRowWritesNext ==
    ASSUME TypeInv' PROVE \A r \in Requests : req'[r].pc \in InRow => req'[r].op \in Writes
BY DEF TypeInv, Shape, Writes

\* A step after which nothing new is answered, acknowledged, numbered or written.
LEMMA KeptKeeps ==
    ASSUME TypeInv, TypeInv', Numbers, Row, WritesKept, UNCHANGED <<received, ackedAt, stored>>
    PROVE  /\ Numbers' /\ Row'
           /\ \A v \in Vans, p \in Position : Done(v, p)' => Done(v, p)
<1>1. Numbers'
  BY DEF Numbers, WritesKept, Writing, Acked
<1>2. \A v \in Vans, p \in Position : InRowWith(v, p)' => InRowWith(v, p)
  BY InRowWritesNext DEF InRowWith, WritesKept
<1>3. \A v \in Vans, p \in Position : Done(v, p)' => Done(v, p)
  BY <1>2 DEF Done, Acked
<1>4. \A v \in Vans, p \in Position : Updated(v, p)' => Updated(v, p)
  <2>1. \A r \in Requests : req'[r].pc = "ack" =>
            req[r].pc = "ack" /\ req'[r].van = req[r].van /\ req'[r].pos = req[r].pos
    BY InRowWritesNext DEF WritesKept, InRow
  <2> QED
    BY <2>1 DEF Updated, Acked
<1>5. Row'
  BY <1>4 DEF Row, Acked
<1> QED
  BY <1>1, <1>3, <1>5

LEMMA SlotKept ==
    ASSUME TypeInv, NEW r \in Requests,
           \A p \in Requests \ {r} : req'[p] = req[p],
           req'[r].op \notin Writes, req'[r].pc \notin InRow
    PROVE  WritesKept
BY DEF WritesKept, InRow

-----------------------------------------------------------------------------
(* The queue *)

\* A step that leaves the queue alone, or forgets what was executed or kept.
LEMMA QuietQueue ==
    ASSUME TypeInv, QueueInv, redisQueue' = redisQueue, executed' \in 0 .. executed,
           \A v \in Vans : cached'[v] \in {0, cached[v]},
           \A i \in 1 .. Len(redisQueue) : req'[redisQueue[i]] = req[redisQueue[i]],
           \A v \in Vans, p \in Position : Done(v, p)' => Done(v, p)
    PROVE  QueueInv'
<1> DEFINE n == Len(redisQueue)
<1>1. n \in Nat /\ executed \in 0 .. n /\ Len(redisQueue') = n
  BY DEF TypeInv, TypeOK
<1>2. \A i \in 1 .. n : Writer(i)' = Writer(i) /\ VanOf(i)' = VanOf(i) /\ PosOf(i)' = PosOf(i)
  BY DEF Writer, Writing, VanOf, PosOf
<1>3. \A i \in 1 .. n : redisQueue[i] \in Requests
  BY DEF TypeInv, TypeOK
<1>4. \A i \in 1 .. n : Writer(i) => VanOf(i) \in Vans
  BY <1>3 DEF TypeInv, Shape, Writer, Writing, VanOf
<1>5. \A i \in 1 .. n : req[redisQueue[i]].op = "subscribe" => VanOf(i) \in Vans
  BY <1>3 DEF TypeInv, Shape, VanOf
<1>6. \A i \in 1 .. executed' : i \in 1 .. executed /\ i \in 1 .. n
  BY <1>1
<1>7. Order'
  BY <1>1, <1>2 DEF QueueInv, Order
<1>8. Cover'
  BY <1>2, <1>4, <1>6 DEF QueueInv, Cover
<1>9. Answers'
  <2> SUFFICES ASSUME NEW i \in 1 .. executed', req'[redisQueue[i]].op = "subscribe", PosOf(i)' # 0
               PROVE  /\ \A v \in Vans, p \in Position : VanOf(i)' = v /\ Done(v, p)' => p <= PosOf(i)'
                      /\ \A j \in 1 .. i - 1 : Writer(j)' /\ VanOf(j)' = VanOf(i)'
                            => PosOf(j)' <= PosOf(i)'
    BY DEF Answers
  <2>1. i \in 1 .. executed /\ i \in 1 .. n /\ VanOf(i) \in Vans
    BY <1>5, <1>6
  <2>2. \A j \in 1 .. i - 1 : j \in 1 .. n
    BY <1>1, <2>1
  <2> QED
    BY <1>2, <2>1, <2>2 DEF QueueInv, Answers
<1> QED
  BY <1>7, <1>8, <1>9 DEF QueueInv

\* A command is appended: if it writes, its position is the newest of its van.
LEMMA IssueQueue ==
    ASSUME TypeInv, Numbers, QueueInv, NEW r \in Requests, ~At(r, "redis"),
           NEW o, NEW s, NEW w, NEW n, Issue(r, o, s, w, n),
           o \in Writes => w \in Vans /\ n = received[w] + 1,
           UNCHANGED cached,
           \A v \in Vans, p \in Position : Done(v, p)' => Done(v, p)
    PROVE  QueueInv'
<1>0. PICK l : l = Len(redisQueue)
  OBVIOUS
<1>1. /\ redisQueue \in Seq(Requests) /\ l \in Nat /\ executed \in 0 .. l
      /\ req \in [Requests -> Request] /\ received \in [Vans -> Position]
  BY <1>0 DEF TypeInv, TypeOK
<1>2. /\ redisQueue' = Append(redisQueue, r) /\ executed' = executed
      /\ req'[r].op = o /\ req'[r].van = w /\ req'[r].pos = n
      /\ \A x \in Requests \ {r} : req'[x] = req[x]
  BY <1>1 DEF Issue, Serve
<1>3. /\ Len(redisQueue') = l + 1 /\ redisQueue'[l + 1] = r
      /\ \A i \in 1 .. l : redisQueue'[i] = redisQueue[i]
  BY <1>0, <1>1, <1>2
<1>4. \A i \in 1 .. l : redisQueue[i] \in Requests \ {r}
  BY <1>0, <1>1 DEF TypeInv, QueueShape
<1>5. \A i \in 1 .. l :
        /\ Writer(i)' = Writer(i) /\ VanOf(i)' = VanOf(i) /\ PosOf(i)' = PosOf(i)
        /\ req'[redisQueue'[i]] = req[redisQueue[i]]
  BY <1>2, <1>3, <1>4 DEF Writer, Writing, VanOf, PosOf
<1>6. /\ Writer(l + 1)' = (o \in Writes) /\ VanOf(l + 1)' = w /\ PosOf(l + 1)' = n
  BY <1>2, <1>3 DEF Writer, Writing, VanOf, PosOf
<1>7. \A i \in 1 .. l :
        /\ Writer(i) => VanOf(i) \in Vans /\ PosOf(i) <= received[VanOf(i)] /\ PosOf(i) \in Nat
        /\ req[redisQueue[i]].op = "subscribe" => VanOf(i) \in Vans
  BY <1>4 DEF TypeInv, Shape, Numbers, Writer, Writing, VanOf, PosOf
<1>8. \A v \in Vans, p \in Position : Done(v, p) => p <= received[v]
  BY InRowWrites DEF Done, InRowWith, Numbers, Writing
<1>9. Order'
  <2>1. ASSUME NEW i \in 1 .. l + 1, NEW j \in 1 .. l + 1, i < j,
               Writer(i)', Writer(j)', VanOf(i)' = VanOf(j)'
        PROVE  PosOf(i)' < PosOf(j)'
    <3>1. i \in 1 .. l
      BY <1>1, <2>1
    <3>2. CASE j \in 1 .. l
      BY <1>0, <1>5, <2>1, <3>1, <3>2 DEF QueueInv, Order
    <3>3. CASE j = l + 1
      <4>1. Writer(i) /\ VanOf(i) = w /\ o \in Writes /\ PosOf(j)' = n /\ PosOf(i)' = PosOf(i)
        BY <1>5, <1>6, <2>1, <3>1, <3>3
      <4>2. w \in Vans /\ n = received[w] + 1 /\ received[w] \in Nat
        BY <1>1, <4>1, PositionIsNat
      <4>3. PosOf(i) \in Nat /\ PosOf(i) <= received[w]
        BY <1>7, <3>1, <4>1
      <4> QED
        BY <4>1, <4>2, <4>3
    <3> QED
      BY <1>1, <3>2, <3>3
  <2>2. ASSUME NEW i \in 1 .. l + 1, NEW v \in Vans, NEW p \in Position,
               Writer(i)', VanOf(i)' = v, Done(v, p)'
        PROVE  p < PosOf(i)'
    <3>1. Done(v, p)
      BY <2>2
    <3>2. CASE i \in 1 .. l
      BY <1>0, <1>5, <2>2, <3>1, <3>2 DEF QueueInv, Order
    <3>3. CASE i = l + 1
      <4>1. w = v /\ n = received[v] + 1 /\ received[v] \in Nat /\ p \in Nat /\ PosOf(i)' = n
        BY <1>1, <1>6, <2>2, <3>3, PositionIsNat
      <4> QED
        BY <1>8, <3>1, <4>1
    <3> QED
      BY <1>1, <3>2, <3>3
  <2> QED
    BY <1>3, <2>1, <2>2 DEF Order
<1>10. \A i \in 1 .. executed : i \in 1 .. l
  BY <1>1
<1>11. Cover'
  BY <1>2, <1>5, <1>7, <1>10 DEF QueueInv, Cover
<1>12. Answers'
  <2> SUFFICES ASSUME NEW i \in 1 .. executed', req'[redisQueue'[i]].op = "subscribe", PosOf(i)' # 0
               PROVE  /\ \A v \in Vans, p \in Position : VanOf(i)' = v /\ Done(v, p)' => p <= PosOf(i)'
                      /\ \A j \in 1 .. i - 1 : Writer(j)' /\ VanOf(j)' = VanOf(i)'
                            => PosOf(j)' <= PosOf(i)'
    BY DEF Answers
  <2>1. i \in 1 .. executed /\ i \in 1 .. l /\ req[redisQueue[i]].op = "subscribe" /\ PosOf(i) # 0
    BY <1>2, <1>5, <1>10
  <2>2. \A j \in 1 .. i - 1 : j \in 1 .. l
    BY <1>1, <2>1
  <2>3. VanOf(i)' = VanOf(i) /\ VanOf(i) \in Vans /\ PosOf(i)' = PosOf(i)
    BY <1>5, <1>7, <2>1
  <2>4. ASSUME NEW v \in Vans, NEW p \in Position, VanOf(i)' = v, Done(v, p)'
        PROVE  p <= PosOf(i)'
    <3>1. Done(v, p) /\ VanOf(i) = v
      BY <2>3, <2>4
    <3>2. p <= PosOf(i)
      BY <2>1, <3>1 DEF QueueInv, Answers
    <3> QED
      BY <2>3, <3>2
  <2>5. \A j \in 1 .. i - 1 : Writer(j)' /\ VanOf(j)' = VanOf(i)' => PosOf(j)' <= PosOf(i)'
    BY <1>5, <2>1, <2>2, <2>3 DEF QueueInv, Answers
  <2> QED
    BY <2>4, <2>5
<1> QED
  BY <1>9, <1>11, <1>12 DEF QueueInv

\* The oldest command leaves the queue.  If it was executed and is a driver's position,
\* that one is answered now.
LEMMA DequeueQueue ==
    ASSUME TypeInv, QueueInv, redisQueue # <<>>, Dequeue, UNCHANGED cached,
           \A p \in Requests \ {Head(redisQueue)} : req'[p] = req[p],
           \A v \in Vans, p \in Position : Done(v, p)' =>
              Done(v, p) \/ (executed > 0 /\ Writer(1) /\ VanOf(1) = v /\ PosOf(1) = p)
    PROVE  QueueInv'
<1> DEFINE l == Len(redisQueue)
<1>1. redisQueue \in Seq(Requests) /\ l \in Nat \ {0} /\ executed \in 0 .. l /\ 1 \in 1 .. l
  BY DEF TypeInv, TypeOK
<1>2. /\ Len(redisQueue') = l - 1
      /\ \A i \in 1 .. l - 1 : i + 1 \in 1 .. l /\ req'[redisQueue'[i]] = req[redisQueue[i + 1]]
  BY DequeueTyped
<1>3. \A i \in 1 .. executed' : i \in 1 .. l - 1 /\ i + 1 \in 1 .. executed /\ executed > 0
  BY <1>1 DEF Dequeue
<1>4. \A i \in 1 .. l - 1 :
        Writer(i)' = Writer(i + 1) /\ VanOf(i)' = VanOf(i + 1) /\ PosOf(i)' = PosOf(i + 1)
  BY <1>2 DEF Writer, Writing, VanOf, PosOf
<1>5. \A i \in 1 .. l :
        /\ Writer(i) => VanOf(i) \in Vans
        /\ req[redisQueue[i]].op = "subscribe" => VanOf(i) \in Vans
  BY <1>1 DEF TypeInv, Shape, Writer, Writing, VanOf
<1>6. Order'
  <2>1. ASSUME NEW i \in 1 .. l - 1, NEW j \in 1 .. l - 1, i < j,
               Writer(i)', Writer(j)', VanOf(i)' = VanOf(j)'
        PROVE  PosOf(i)' < PosOf(j)'
    <3>1. i + 1 \in 1 .. l /\ j + 1 \in 1 .. l /\ i + 1 < j + 1
      BY <1>1, <2>1
    <3> QED
      BY <1>4, <2>1, <3>1 DEF QueueInv, Order
  <2>2. ASSUME NEW i \in 1 .. l - 1, NEW v \in Vans, NEW p \in Position,
               Writer(i)', VanOf(i)' = v, Done(v, p)'
        PROVE  p < PosOf(i)'
    <3>1. i + 1 \in 1 .. l /\ 1 < i + 1 /\ Writer(i + 1) /\ VanOf(i + 1) = v /\ PosOf(i)' = PosOf(i + 1)
      BY <1>1, <1>4, <2>2
    <3>2. CASE Done(v, p)
      BY <3>1, <3>2 DEF QueueInv, Order
    <3>3. CASE Writer(1) /\ VanOf(1) = v /\ PosOf(1) = p
      BY <1>1, <3>1, <3>3 DEF QueueInv, Order
    <3> QED
      BY <2>2, <3>2, <3>3
  <2> QED
    BY <1>2, <2>1, <2>2 DEF Order
<1>7. Cover'
  <2>1. ASSUME NEW v \in Vans, NEW p \in Position, Done(v, p)'
        PROVE  cached[v] = 0 \/ p <= cached[v]
    <3>1. CASE Done(v, p)
      BY <3>1 DEF QueueInv, Cover
    <3>2. CASE executed > 0 /\ Writer(1) /\ VanOf(1) = v /\ PosOf(1) = p
      <4>1. 1 \in 1 .. executed
        BY <1>1, <3>2
      <4> QED
        BY <3>2, <4>1 DEF QueueInv, Cover
    <3> QED
      BY <2>1, <3>1, <3>2
  <2>2. ASSUME NEW i \in 1 .. executed', Writer(i)'
        PROVE  cached[VanOf(i)'] = 0 \/ PosOf(i)' <= cached[VanOf(i)']
    BY <1>3, <1>4, <2>2 DEF QueueInv, Cover
  <2> QED
    BY <2>1, <2>2 DEF Cover
<1>8. Answers'
  <2> SUFFICES ASSUME NEW i \in 1 .. executed', req'[redisQueue'[i]].op = "subscribe", PosOf(i)' # 0
               PROVE  /\ \A v \in Vans, p \in Position : VanOf(i)' = v /\ Done(v, p)' => p <= PosOf(i)'
                      /\ \A j \in 1 .. i - 1 : Writer(j)' /\ VanOf(j)' = VanOf(i)'
                            => PosOf(j)' <= PosOf(i)'
    BY DEF Answers
  <2> DEFINE v == VanOf(i + 1)
  <2>1. /\ i \in 1 .. l - 1 /\ i + 1 \in 1 .. executed /\ executed > 0
        /\ req[redisQueue[i + 1]].op = "subscribe" /\ PosOf(i + 1) # 0
        /\ PosOf(i)' = PosOf(i + 1) /\ VanOf(i)' = v
    BY <1>2, <1>3, <1>4
  <2>2. v \in Vans
    BY <1>2, <1>5, <2>1
  <2>3. ASSUME NEW x \in Vans, NEW p \in Position, VanOf(i)' = x, Done(x, p)'
        PROVE  p <= PosOf(i + 1)
    <3>1. x = v /\ (Done(x, p) \/ (Writer(1) /\ VanOf(1) = x /\ PosOf(1) = p))
      BY <2>1, <2>3
    <3>2. CASE Done(x, p)
      BY <2>1, <3>1, <3>2 DEF QueueInv, Answers
    <3>3. CASE Writer(1) /\ VanOf(1) = x /\ PosOf(1) = p
      <4>1. 1 \in 1 .. (i + 1) - 1
        BY <2>1
      <4> QED
        BY <2>1, <3>1, <3>3, <4>1 DEF QueueInv, Answers
    <3> QED
      BY <3>1, <3>2, <3>3
  <2>4. ASSUME NEW j \in 1 .. i - 1, Writer(j)', VanOf(j)' = VanOf(i)'
        PROVE  PosOf(j)' <= PosOf(i)'
    <3>1. j \in 1 .. l - 1 /\ j + 1 \in 1 .. (i + 1) - 1
      BY <1>1, <2>1
    <3>2. Writer(j + 1) /\ VanOf(j + 1) = v /\ PosOf(j)' = PosOf(j + 1)
      BY <1>4, <2>1, <2>4, <3>1
    <3> QED
      BY <2>1, <3>1, <3>2 DEF QueueInv, Answers
  <2> QED
    BY <2>1, <2>3, <2>4
<1> QED
  BY <1>6, <1>7, <1>8 DEF QueueInv

\* Redis executes the next command.
LEMMA ExecuteQueue ==
    ASSUME TypeInv, QueueInv, RedisExecutes,
           \A v \in Vans, p \in Position : Done(v, p)' => Done(v, p)
    PROVE  QueueInv'
<1>0. PICK l : l = Len(redisQueue)
  OBVIOUS
<1>1. PICK k : k = executed + 1
  OBVIOUS
<1>2. PICK r : r = redisQueue[k]
  OBVIOUS
<1>3. /\ redisQueue \in Seq(Requests) /\ l \in Nat /\ executed \in 0 .. l /\ k \in 1 .. l
      /\ r = NextCommand /\ r \in Requests
      /\ redisQueue' = redisQueue /\ executed' = k
  <2>1. redisQueue \in Seq(Requests) /\ executed \in 0 .. Len(redisQueue)
    BY DEF TypeInv, TypeOK
  <2>2. executed < Len(redisQueue) /\ redisQueue' = redisQueue /\ executed' = executed + 1
    BY DEF RedisExecutes
  <2>3. executed + 1 \in 1 .. Len(redisQueue) /\ NextCommand \in Requests
    BY <2>2, NextCommandWaits
  <2>4. r = NextCommand
    BY <1>1, <1>2 DEF NextCommand
  <2>5. Len(redisQueue) \in Nat
    BY <2>1
  <2> QED
    BY <1>0, <1>1, <2>1, <2>2, <2>3, <2>4, <2>5
<1>4. /\ \A i \in 1 .. l : redisQueue[i] \in Requests
      /\ \A i \in 1 .. l : i # k => redisQueue[i] # r
  <2>1. \A i \in 1 .. l : redisQueue[i] \in Requests
    BY <1>0, <1>3
  <2>2. \A i, j \in 1 .. l : redisQueue[i] = redisQueue[j] => i = j
    BY <1>0 DEF TypeInv, QueueShape
  <2> QED
    BY <1>2, <1>3, <2>1, <2>2
<1>5. \A i \in 1 .. l :
        /\ Writer(i) => VanOf(i) \in Vans
        /\ req[redisQueue[i]].op = "subscribe" => VanOf(i) \in Vans
  BY <1>4 DEF TypeInv, Shape, Writer, Writing, VanOf
<1>6. \A i \in 1 .. k : i \in 1 .. l /\ (i = k \/ i \in 1 .. executed)
  BY <1>1, <1>3
<1>7. cached \in [Vans -> Position] /\ \A v \in Vans : cached[v] \in Nat
  BY PositionIsNat DEF TypeInv, TypeOK
<1>8. CASE req[r].op \in {"location", "rest"} /\ UNCHANGED req
           /\ cached' = [cached EXCEPT ![req[r].van] = req[r].pos]
  <2>1. \A i \in 1 .. l : Writer(i)' = Writer(i) /\ VanOf(i)' = VanOf(i) /\ PosOf(i)' = PosOf(i)
    BY <1>3, <1>8 DEF Writer, Writing, VanOf, PosOf
  <2>2. /\ Writer(k) /\ VanOf(k) \in Vans /\ PosOf(k) \in Nat
        /\ cached'[VanOf(k)] = PosOf(k)
        /\ \A v \in Vans : v # VanOf(k) => cached'[v] = cached[v]
    <3>1. req[r] \in Request /\ Shape(req[r])
      BY <1>3 DEF TypeInv, TypeOK
    <3> QED
      BY <1>2, <1>7, <1>8, <3>1, PositionIsNat
      DEF Writer, Writing, Writes, VanOf, PosOf, Shape, Request
  <2>3. Order'
    BY <1>0, <1>3, <2>1 DEF QueueInv, Order
  <2>4. ASSUME NEW v \in Vans, NEW p \in Position, Done(v, p)'
        PROVE  cached'[v] = 0 \/ p <= cached'[v]
    <3>1. Done(v, p) /\ p \in Nat
      BY <2>4, PositionIsNat
    <3>2. CASE v = VanOf(k)
      <4>1. p < PosOf(k)
        BY <1>0, <1>3, <2>2, <3>1, <3>2 DEF QueueInv, Order
      <4> QED
        BY <2>2, <3>1, <3>2, <4>1
    <3>3. CASE v # VanOf(k)
      BY <2>2, <3>1, <3>3 DEF QueueInv, Cover
    <3> QED
      BY <3>2, <3>3
  <2>5. ASSUME NEW i \in 1 .. k, Writer(i)
        PROVE  cached'[VanOf(i)] = 0 \/ PosOf(i) <= cached'[VanOf(i)]
    <3>1. i \in 1 .. l /\ VanOf(i) \in Vans
      BY <1>5, <1>6, <2>5
    <3>2. CASE i = k
      BY <2>2, <3>2
    <3>3. CASE i # k /\ VanOf(i) = VanOf(k)
      <4>1. i < k /\ PosOf(i) \in Nat
        <5>1. req[redisQueue[i]] \in Request
          BY <1>4, <3>1 DEF TypeInv, TypeOK
        <5>2. PosOf(i) \in Nat
          BY <5>1, PositionIsNat DEF PosOf, Request
        <5>3. i < k
          BY <1>3, <3>3
        <5> QED
          BY <5>2, <5>3
      <4>2. PosOf(i) < PosOf(k)
        BY <1>0, <1>3, <2>2, <2>5, <3>1, <3>3, <4>1 DEF QueueInv, Order
      <4> QED
        BY <2>2, <3>3, <4>1, <4>2
    <3>4. CASE i # k /\ VanOf(i) # VanOf(k)
      <4>1. i \in 1 .. executed
        BY <1>6, <3>4
      <4> QED
        BY <2>2, <2>5, <3>1, <3>4, <4>1 DEF QueueInv, Cover
    <3> QED
      BY <3>2, <3>3, <3>4
  <2>6. Cover'
    <3>1. \A i \in 1 .. k : Writer(i)' = Writer(i) /\ VanOf(i)' = VanOf(i) /\ PosOf(i)' = PosOf(i)
      BY <1>6, <2>1
    <3> QED
      BY <1>3, <2>4, <2>5, <3>1 DEF Cover
  <2>7. req[redisQueue[k]].op # "subscribe"
    BY <1>2, <1>8
  <2>8. Answers'
    <3> SUFFICES ASSUME NEW i \in 1 .. k, req[redisQueue[i]].op = "subscribe", PosOf(i) # 0
                 PROVE  /\ \A v \in Vans, p \in Position : VanOf(i) = v /\ Done(v, p)' => p <= PosOf(i)
                        /\ \A j \in 1 .. i - 1 : Writer(j) /\ VanOf(j) = VanOf(i)
                              => PosOf(j) <= PosOf(i)
      BY <1>3, <1>8 DEF Answers, Writer, Writing, VanOf, PosOf
    <3>1. i \in 1 .. executed
      BY <1>6, <2>7
    <3> QED
      BY <3>1 DEF QueueInv, Answers
  <2> QED
    BY <2>3, <2>6, <2>8 DEF QueueInv
<1>9. CASE req[r].op = "subscribe" /\ req' = [req EXCEPT ![r].pos = cached[req[r].van]]
           /\ UNCHANGED cached
  <2>1. cached[req[r].van] \in Position
    BY <1>3, <1>7, <1>9 DEF TypeInv, Shape
  <2>2. /\ \A x \in Requests : req'[x].op = req[x].op /\ req'[x].van = req[x].van
        /\ \A x \in Requests \ {r} : req'[x] = req[x]
        /\ req'[r].pos = cached[req[r].van]
    BY <1>3, <1>9, <2>1, AnswerStored
  <2>3. /\ \A i \in 1 .. l : Writer(i)' = Writer(i) /\ VanOf(i)' = VanOf(i)
        /\ \A i \in 1 .. l : i # k => PosOf(i)' = PosOf(i)
        /\ ~Writer(k) /\ PosOf(k)' = cached[VanOf(k)] /\ VanOf(k) \in Vans
    <3>1. \A i \in 1 .. l : Writer(i)' = Writer(i) /\ VanOf(i)' = VanOf(i)
      BY <1>3, <1>4, <2>2 DEF Writer, Writing, VanOf
    <3>2. \A i \in 1 .. l : i # k => PosOf(i)' = PosOf(i)
      BY <1>3, <1>4, <2>2 DEF PosOf
    <3>3. ~Writer(k) /\ PosOf(k)' = cached[VanOf(k)] /\ VanOf(k) \in Vans
      BY <1>2, <1>3, <1>5, <1>9, <2>2 DEF Writer, Writing, Writes, VanOf, PosOf
    <3> QED
      BY <3>1, <3>2, <3>3
  <2>4. Order'
    BY <1>0, <1>3, <2>3 DEF QueueInv, Order
  <2>5. ASSUME NEW i \in 1 .. k, Writer(i)'
        PROVE  cached[VanOf(i)'] = 0 \/ PosOf(i)' <= cached[VanOf(i)']
    <3>1. i \in 1 .. l /\ i \in 1 .. executed /\ i # k /\ Writer(i)
      BY <1>6, <2>3, <2>5
    <3> QED
      BY <2>3, <3>1 DEF QueueInv, Cover
  <2>6. Cover'
    BY <1>3, <1>9, <2>5 DEF QueueInv, Cover
  <2>7. Answers'
    <3> SUFFICES ASSUME NEW i \in 1 .. k, req'[redisQueue[i]].op = "subscribe", PosOf(i)' # 0
                 PROVE  /\ \A v \in Vans, p \in Position : VanOf(i)' = v /\ Done(v, p)' => p <= PosOf(i)'
                        /\ \A j \in 1 .. i - 1 : Writer(j)' /\ VanOf(j)' = VanOf(i)'
                              => PosOf(j)' <= PosOf(i)'
      BY <1>3 DEF Answers
    <3>1. i \in 1 .. l /\ \A j \in 1 .. i - 1 : j \in 1 .. l /\ j # k /\ j \in 1 .. executed
      BY <1>1, <1>3, <1>6
    <3>2. \A j \in 1 .. i - 1 : Writer(j)' => Writer(j) /\ PosOf(j)' = PosOf(j) /\ VanOf(j)' = VanOf(j)
      BY <2>3, <3>1
    <3>3. CASE i = k
      <4>1. VanOf(i)' = VanOf(k) /\ PosOf(i)' = cached[VanOf(k)] /\ cached[VanOf(k)] # 0
        BY <2>3, <3>1, <3>3
      <4>2. ASSUME NEW v \in Vans, NEW p \in Position, VanOf(i)' = v, Done(v, p)'
            PROVE  p <= PosOf(i)'
        <5>1. Done(v, p) /\ v = VanOf(k)
          BY <4>1, <4>2
        <5> QED
          BY <4>1, <5>1 DEF QueueInv, Cover
      <4>3. ASSUME NEW j \in 1 .. i - 1, Writer(j)', VanOf(j)' = VanOf(i)'
            PROVE  PosOf(j)' <= PosOf(i)'
        <5>1. Writer(j) /\ PosOf(j)' = PosOf(j) /\ VanOf(j) = VanOf(k) /\ j \in 1 .. executed
          BY <3>1, <3>2, <4>1, <4>3
        <5> QED
          BY <4>1, <5>1 DEF QueueInv, Cover
      <4> QED
        BY <4>2, <4>3
    <3>4. CASE i # k
      <4>1. /\ i \in 1 .. executed /\ req[redisQueue[i]].op = "subscribe" /\ PosOf(i) # 0
            /\ PosOf(i)' = PosOf(i) /\ VanOf(i)' = VanOf(i)
        BY <1>4, <1>6, <2>2, <2>3, <3>1, <3>4
      <4>2. ASSUME NEW v \in Vans, NEW p \in Position, VanOf(i)' = v, Done(v, p)'
            PROVE  p <= PosOf(i)'
        <5>1. Done(v, p) /\ v = VanOf(i)
          BY <4>1, <4>2
        <5> QED
          BY <4>1, <5>1 DEF QueueInv, Answers
      <4>3. ASSUME NEW j \in 1 .. i - 1, Writer(j)', VanOf(j)' = VanOf(i)'
            PROVE  PosOf(j)' <= PosOf(i)'
        BY <3>2, <4>1, <4>3 DEF QueueInv, Answers
      <4> QED
        BY <4>2, <4>3
    <3> QED
      BY <3>3, <3>4
  <2> QED
    BY <2>4, <2>6, <2>7 DEF QueueInv
<1>10. CASE req[r].op = "connect" /\ UNCHANGED <<req, cached>>
  <2>1. \A i \in 1 .. l : Writer(i)' = Writer(i) /\ VanOf(i)' = VanOf(i) /\ PosOf(i)' = PosOf(i)
    BY <1>3, <1>10 DEF Writer, Writing, VanOf, PosOf
  <2>2. ~Writer(k) /\ req[redisQueue[k]].op # "subscribe"
    BY <1>2, <1>10 DEF Writer, Writing, Writes
  <2>3. Order'
    BY <1>0, <1>3, <2>1 DEF QueueInv, Order
  <2>4. Cover'
    <3>1. \A i \in 1 .. k : Writer(i)' =>
              i \in 1 .. executed /\ Writer(i) /\ VanOf(i)' = VanOf(i) /\ PosOf(i)' = PosOf(i)
      BY <1>6, <2>1, <2>2
    <3> QED
      BY <1>3, <1>10, <3>1 DEF QueueInv, Cover
  <2>5. Answers'
    <3> SUFFICES ASSUME NEW i \in 1 .. k, req[redisQueue[i]].op = "subscribe", PosOf(i) # 0
                 PROVE  /\ \A v \in Vans, p \in Position : VanOf(i) = v /\ Done(v, p)' => p <= PosOf(i)
                        /\ \A j \in 1 .. i - 1 : Writer(j) /\ VanOf(j) = VanOf(i)
                              => PosOf(j) <= PosOf(i)
      BY <1>3, <1>10 DEF Answers, Writer, Writing, VanOf, PosOf
    <3>1. i \in 1 .. executed
      BY <1>6, <2>2
    <3> QED
      BY <3>1 DEF QueueInv, Answers
  <2> QED
    BY <2>3, <2>4, <2>5 DEF QueueInv
<1> QED
  <2>1. \/ /\ req[r].op \in {"location", "rest"} /\ UNCHANGED req
           /\ cached' = [cached EXCEPT ![req[r].van] = req[r].pos]
        \/ /\ req[r].op = "subscribe" /\ UNCHANGED cached
           /\ req' = [req EXCEPT ![r].pos = cached[req[r].van]]
        \/ req[r].op = "connect" /\ UNCHANGED <<req, cached>>
    BY <1>3 DEF RedisExecutes
  <2> QED
    BY <1>8, <1>9, <1>10, <2>1

-----------------------------------------------------------------------------
(* Steps *)

OrderInv == Numbers /\ QueueInv /\ Row

\* Who does not wait for Redis is not in the queue.
LEMMA NotQueued ==
    ASSUME TypeInv, NEW r \in Requests, ~At(r, "redis")
    PROVE  \A i \in 1 .. Len(redisQueue) : redisQueue[i] \in Requests \ {r}
BY DEF TypeInv, TypeOK, QueueShape

\* A handler that does not wait for Redis goes on, and writes nothing.
LEMMA SlotOrder ==
    ASSUME TypeInv, TypeInv', OrderInv, NEW r \in Requests, ~At(r, "redis"),
           UNCHANGED <<redis, stores, history>>,
           \A p \in Requests \ {r} : req'[p] = req[p],
           req'[r].op \notin Writes, req'[r].pc \notin InRow
    PROVE  OrderInv'
<1>1. WritesKept
  BY SlotKept
<1>2. /\ Numbers' /\ Row'
      /\ \A v \in Vans, p \in Position : Done(v, p)' => Done(v, p)
  BY <1>1, KeptKeeps DEF OrderInv, stores, history
<1>3. \A i \in 1 .. Len(redisQueue) : req'[redisQueue[i]] = req[redisQueue[i]]
  BY NotQueued
<1>4. /\ redisQueue' = redisQueue /\ executed' \in 0 .. executed
      /\ \A v \in Vans : cached'[v] \in {0, cached[v]}
  BY DEF redis, stores, TypeInv, TypeOK
<1>5. QueueInv'
  BY <1>2, <1>3, <1>4, QuietQueue DEF OrderInv
<1> QED
  BY <1>2, <1>5 DEF OrderInv

\* A handler asks Redis for something and writes nothing.
LEMMA AskOrder ==
    ASSUME TypeInv, TypeInv', OrderInv, NEW r \in Requests, ~At(r, "redis"),
           NEW o, NEW s, NEW w, NEW n, Issue(r, o, s, w, n), o \notin Writes,
           UNCHANGED <<stores, history>>
    PROVE  OrderInv'
<1>1. /\ req'[r].op \notin Writes /\ req'[r].pc \notin InRow
      /\ \A p \in Requests \ {r} : req'[p] = req[p]
  BY DEF Issue, Serve, InRow, TypeInv, TypeOK
<1>2. WritesKept
  BY <1>1, SlotKept
<1>3. /\ Numbers' /\ Row'
      /\ \A v \in Vans, p \in Position : Done(v, p)' => Done(v, p)
  BY <1>2, KeptKeeps DEF OrderInv, stores, history
<1>4. QueueInv'
  BY <1>3, IssueQueue DEF OrderInv, stores
<1> QED
  BY <1>3, <1>4 DEF OrderInv

\* A position arrives: it is newer than all others of its van.
LEMMA ReceiveOrder ==
    ASSUME TypeInv, TypeInv', OrderInv, NEW r \in Requests, NEW o \in Writes, NEW s,
           NEW w \in Vans, Receive(r, o, s, w)
    PROVE  OrderInv'
<1>0. PICK n : n = received[w] + 1
  OBVIOUS
<1>1. /\ ~At(r, "redis") /\ Issue(r, o, s, w, n)
      /\ received' = [received EXCEPT ![w] = n]
      /\ UNCHANGED <<cached, stored, ackedAt>>
  BY <1>0 DEF Receive, Busy, At, stores
<1>2. /\ received \in [Vans -> Position] /\ received[w] \in Nat
      /\ n \in 1 .. MaxPings /\ received[w] < n
  <2>1. received \in [Vans -> Position] /\ received[w] < MaxPings
    BY DEF Receive, TypeInv, TypeOK
  <2>2. received[w] \in Position
    BY <2>1
  <2>3. received[w] \in Nat /\ received[w] + 1 \in 1 .. MaxPings
    BY <2>1, <2>2, PositionIsNat
  <2> QED
    BY <1>0, <2>1, <2>3
<1>3. /\ req'[r].op \in Writes /\ req'[r].pc = "redis" /\ req'[r].van = w /\ req'[r].pos = n
      /\ \A p \in Requests \ {r} : req'[p] = req[p]
  BY <1>1 DEF Issue, Serve, TypeInv, TypeOK
<1>4. \A p \in Requests : Writing(p) => req[p].van \in Vans
  BY DEF TypeInv, Shape, Writing
<1>5. \A v \in Vans : received'[v] \in Nat /\ received[v] \in Nat /\ received[v] <= received'[v]
  <2>1. \A v \in Vans : received[v] \in Nat
    BY <1>2, PositionIsNat
  <2>2. n \in Nat
    BY <1>0, <1>2
  <2> QED
    BY <1>1, <1>2, <2>1, <2>2
<1>6. ~Acked(w, n)
  BY <1>2 DEF OrderInv, Numbers
<1>7. \A p \in Requests \ {r} : Writing(p)' = Writing(p)
  BY <1>3 DEF Writing
<1>8. Numbers'
  <2>1. ASSUME NEW p \in Requests, req'[p].op \in Writes
        PROVE  /\ req'[p].pos \in 1 .. MaxPings /\ req'[p].pos <= received'[req'[p].van]
               /\ ackedAt[req'[p].van][req'[p].pos] = 0
    <3>1. CASE p = r
      BY <1>1, <1>2, <1>3, <1>6, <3>1 DEF Acked
    <3>2. CASE p # r
      <4>1. req'[p] = req[p] /\ Writing(p)
        BY <1>3, <2>1, <3>2 DEF Writing
      <4>2. /\ req[p].pos \in 1 .. MaxPings /\ req[p].pos <= received[req[p].van]
            /\ ackedAt[req[p].van][req[p].pos] = 0 /\ req[p].van \in Vans
        BY <1>4, <4>1 DEF OrderInv, Numbers, Acked
      <4>3. received[req[p].van] <= received'[req[p].van]
            /\ received[req[p].van] \in Nat /\ received'[req[p].van] \in Nat
        BY <1>5, <4>2
      <4> QED
        BY <4>1, <4>2, <4>3
    <3> QED
      BY <3>1, <3>2
  <2>2. ASSUME NEW p \in Requests \ {r}, Writing(p), req[p].van = w PROVE req[p].pos # n
    <3>1. req[p].pos \in 1 .. MaxPings /\ req[p].pos <= received[w]
      BY <2>2 DEF OrderInv, Numbers
    <3> QED
      BY <1>2, <3>1
  <2>3. \A p, q \in Requests :
            req'[p].op \in Writes /\ req'[q].op \in Writes /\ req'[p].van = req'[q].van
              /\ req'[p].pos = req'[q].pos => p = q
    BY <1>3, <2>2 DEF OrderInv, Numbers, Writing
  <2>4. ASSUME NEW v \in Vans, NEW p \in 1 .. MaxPings, Acked(v, p) PROVE p <= received'[v]
    <3>1. p <= received[v]
      BY <2>4 DEF OrderInv, Numbers
    <3> QED
      BY <1>5, <3>1
  <2>5. ASSUME NEW v \in Vans PROVE stored[v] <= received'[v]
    <3>1. stored[v] <= received[v] /\ stored[v] \in Nat
      BY PositionIsNat DEF OrderInv, Numbers, TypeInv, TypeOK
    <3> QED
      BY <1>5, <3>1
  <2> QED
    BY <1>1, <2>1, <2>3, <2>4, <2>5 DEF Numbers, Writing, Acked
<1>9. \A v \in Vans, p \in Position : Done(v, p)' => Done(v, p)
  BY <1>1, <1>3 DEF Done, InRowWith, InRow, Acked
<1>10. \A v \in Vans, p \in Position : Updated(v, p)' => Updated(v, p)
  BY <1>1, <1>3 DEF Updated, Acked
<1>11. Row'
  BY <1>1, <1>10 DEF OrderInv, Row, Acked
<1>12. QueueInv'
  BY <1>0, <1>1, <1>9, IssueQueue DEF OrderInv
<1> QED
  BY <1>8, <1>11, <1>12 DEF OrderInv

\* The row of the van is written: with a position that is not acknowledged yet.
LEMMA UpdateOrder ==
    ASSUME TypeInv, TypeInv', OrderInv, NEW r \in Requests, UpdateVan(r)
    PROVE  OrderInv'
<1>1. /\ req[r] \in Request /\ Shape(req[r]) /\ req[r].pc = "updateVan" /\ req[r].op = "location"
      /\ req[r].van \in Vans /\ ~At(r, "redis") /\ Writing(r)
  BY ReqFacts DEF UpdateVan, At, Shape, InRow, Writes, Writing
<1>2. /\ \A p \in Requests : req'[p].op = req[p].op /\ req'[p].van = req[p].van /\ req'[p].pos = req[p].pos
      /\ \A p \in Requests \ {r} : req'[p] = req[p]
      /\ req'[r].pc = "ack"
  <2> DEFINE q == [req[r] EXCEPT !.pc = "ack"]
  <2>1. req' = [req EXCEPT ![r] = q] /\ req \in [Requests -> Request]
    BY DEF UpdateVan, Goto, TypeInv, TypeOK
  <2>2. q.op = req[r].op /\ q.van = req[r].van /\ q.pos = req[r].pos /\ q.pc = "ack"
    BY <1>1 DEF Request
  <2> HIDE DEF q
  <2> QED
    BY <2>1, <2>2
<1>3. UNCHANGED <<cached, redisQueue, executed, received, ackedAt>>
  BY DEF UpdateVan, redis, history
<1>4. stored' = [stored EXCEPT ![req[r].van] = req[r].pos] /\ stored \in [Vans -> Position]
  BY DEF UpdateVan, TypeInv, TypeOK
<1>5. Numbers'
  <2>1. \A v \in Vans : stored'[v] <= received[v]
    BY <1>1, <1>4 DEF OrderInv, Numbers
  <2> QED
    BY <1>2, <1>3, <2>1 DEF OrderInv, Numbers, Writing, Acked
<1>6. ASSUME NEW v \in Vans, NEW p \in Position, Done(v, p)' PROVE Done(v, p)
  <2>1. InRowWith(req[r].van, req[r].pos)
    BY <1>1 DEF InRowWith, InRow
  <2>2. CASE InRowWith(v, p)'
    BY <1>1, <1>2, <2>2 DEF Done, InRowWith, InRow
  <2>3. CASE p # 0 /\ stored'[v] = p
    BY <1>4, <2>1, <2>3 DEF Done
  <2> QED
    BY <1>3, <1>6, <2>2, <2>3 DEF Done, Acked
<1>7. ~Acked(req[r].van, req[r].pos)
  BY <1>1 DEF OrderInv, Numbers
<1>8. ASSUME NEW v \in Vans, NEW p \in 1 .. MaxPings, NEW q \in Position,
             stored'[v] = p, Acked(v, p), Updated(v, q)'
      PROVE  q <= ackedAt[v][p]
  <2>1. v # req[r].van
    BY <1>4, <1>7, <1>8
  <2>2. stored[v] = p
    BY <1>4, <1>8, <2>1
  <2>3. Updated(v, q)
    BY <1>2, <1>3, <1>8, <2>1 DEF Updated, Acked
  <2> QED
    BY <1>8, <2>2, <2>3 DEF OrderInv, Row
<1>9. Row'
  BY <1>3, <1>8 DEF Row, Acked
<1>10. QueueInv'
  <2>1. \A i \in 1 .. Len(redisQueue) : req'[redisQueue[i]] = req[redisQueue[i]]
    BY <1>1, <1>2, NotQueued
  <2>2. executed' \in 0 .. executed /\ \A v \in Vans : cached'[v] \in {0, cached[v]}
    BY <1>3 DEF TypeInv, TypeOK
  <2> QED
    BY <1>3, <1>6, <2>1, <2>2, QuietQueue DEF OrderInv
<1> QED
  BY <1>5, <1>9, <1>10 DEF OrderInv

\* The driver is told: nothing received so far is newer than what the history keeps.
LEMMA AckOrder ==
    ASSUME TypeInv, TypeInv', OrderInv, NEW r \in Requests, Ack(r)
    PROVE  OrderInv'
<1>0. PICK w, n : w = req[r].van /\ n = req[r].pos
  OBVIOUS
<1>1. /\ req[r].pc = "ack" /\ w \in Vans /\ ~At(r, "redis") /\ Writing(r)
      /\ n \in 1 .. MaxPings /\ n <= received[w] /\ n \in Position
  <2>1. Shape(req[r]) /\ req[r] \in Request /\ req[r].pc = "ack"
    BY ReqFacts DEF Ack, At
  <2>2. Writing(r) /\ w \in Vans /\ ~At(r, "redis")
    BY <1>0, <2>1 DEF Shape, InRow, Writes, Writing, At
  <2>3. n \in Position
    BY <1>0, <2>1 DEF Request
  <2> QED
    BY <1>0, <2>1, <2>2, <2>3 DEF OrderInv, Numbers
<1>2. /\ received \in [Vans -> Position] /\ received[w] \in Nat
      /\ ackedAt \in [Vans -> [1 .. MaxPings -> Position]]
  BY <1>1, PositionIsNat DEF TypeInv, TypeOK
<1>3. received[w] # 0
  BY <1>1, <1>2
<1>4. /\ UNCHANGED <<cached, stored, redisQueue, executed, received>>
      /\ ackedAt' = [ackedAt EXCEPT ![w][n] = received[w]]
      /\ req'[r] = Idle /\ \A p \in Requests \ {r} : req'[p] = req[p]
  BY <1>0 DEF Ack, Finish, stores, redis, TypeInv, TypeOK
<1>5. /\ ackedAt'[w][n] = received[w]
      /\ \A v \in Vans, p \in 1 .. MaxPings : v # w \/ p # n => ackedAt'[v][p] = ackedAt[v][p]
  BY <1>1, <1>2, <1>4
<1>6. Idle.pc = "idle" /\ Idle.op \notin Writes
  BY DEF Idle, Serve, Writes
<1>7. Numbers'
  <2>1. ASSUME NEW p \in Requests, req'[p].op \in Writes
        PROVE  /\ req'[p] = req[p] /\ Writing(p)
               /\ req[p].van \in Vans /\ req[p].pos \in 1 .. MaxPings
               /\ req[p].pos <= received[req[p].van]
               /\ ackedAt'[req[p].van][req[p].pos] = 0
    <3>1. p # r /\ req'[p] = req[p] /\ Writing(p)
      BY <1>4, <1>6, <2>1 DEF Writing
    <3>2. /\ req[p].van \in Vans /\ req[p].pos \in 1 .. MaxPings
          /\ req[p].pos <= received[req[p].van]
          /\ ackedAt[req[p].van][req[p].pos] = 0
          /\ req[p].van # w \/ req[p].pos # n
      BY <1>0, <1>1, <3>1 DEF OrderInv, Numbers, Acked, TypeInv, Shape, Writing
    <3> QED
      BY <1>5, <3>1, <3>2
  <2>2. \A p, q \in Requests :
            req'[p].op \in Writes /\ req'[q].op \in Writes /\ req'[p].van = req'[q].van
              /\ req'[p].pos = req'[q].pos => p = q
    BY <2>1 DEF OrderInv, Numbers
  <2>3. ASSUME NEW v \in Vans, NEW p \in 1 .. MaxPings, ackedAt'[v][p] # 0 PROVE p <= received[v]
    BY <1>1, <1>5, <2>3 DEF OrderInv, Numbers, Acked
  <2>4. \A v \in Vans : stored[v] <= received[v]
    BY DEF OrderInv, Numbers
  <2> QED
    BY <1>4, <2>1, <2>2, <2>3, <2>4 DEF Numbers, Writing, Acked
<1>8. \A v \in Vans, p \in 1 .. MaxPings : Acked(v, p)' <=> Acked(v, p) \/ (v = w /\ p = n)
  BY <1>3, <1>5 DEF Acked
<1>9. \A v \in Vans, p \in Position : InRowWith(v, p)' => InRowWith(v, p)
  BY <1>4, <1>6 DEF InRowWith, InRow
<1>10. InRowWith(w, n)
  BY <1>0, <1>1 DEF InRowWith, InRow
<1>11. \A v \in Vans, p \in Position : Done(v, p)' => Done(v, p)
  BY <1>4, <1>8, <1>9, <1>10 DEF Done
<1>12. \A v \in Vans, p \in Position : Updated(v, p)' => Updated(v, p)
  BY <1>0, <1>1, <1>4, <1>6, <1>8 DEF Updated
<1>13. \A v \in Vans, p \in Position : Updated(v, p) => p <= received[v]
  BY DEF Updated, OrderInv, Numbers, TypeInv, Shape, InRow, Writes, Writing
<1>14. ASSUME NEW v \in Vans, NEW p \in 1 .. MaxPings, NEW q \in Position,
              stored[v] = p, Acked(v, p)', Updated(v, q)'
       PROVE  q <= ackedAt'[v][p]
  <2>1. Updated(v, q)
    BY <1>12, <1>14
  <2>2. CASE v = w /\ p = n
    BY <1>5, <1>13, <2>1, <2>2
  <2>3. CASE v # w \/ p # n
    <3>1. ackedAt'[v][p] = ackedAt[v][p] /\ Acked(v, p)
      BY <1>5, <1>8, <1>14, <2>3
    <3> QED
      BY <1>14, <2>1, <3>1 DEF OrderInv, Row
  <2> QED
    BY <2>2, <2>3
<1>15. Row'
  BY <1>4, <1>14 DEF Row
<1>16. QueueInv'
  <2>1. \A i \in 1 .. Len(redisQueue) : req'[redisQueue[i]] = req[redisQueue[i]]
    BY <1>1, <1>4, NotQueued
  <2>2. executed' \in 0 .. executed /\ \A v \in Vans : cached'[v] \in {0, cached[v]}
    BY <1>4 DEF TypeInv, TypeOK
  <2> QED
    BY <1>4, <1>11, <2>1, <2>2, QuietQueue DEF OrderInv
<1> QED
  BY <1>7, <1>15, <1>16 DEF OrderInv

\* No request moves; a position may expire, or commands are sent once more.
LEMMA StillOrder ==
    ASSUME TypeInv, TypeInv', OrderInv, UNCHANGED <<req, redisQueue, stored, history>>,
           executed' \in 0 .. executed, \A v \in Vans : cached'[v] \in {0, cached[v]}
    PROVE  OrderInv'
<1>1. WritesKept
  BY DEF WritesKept
<1>2. /\ Numbers' /\ Row'
      /\ \A v \in Vans, p \in Position : Done(v, p)' => Done(v, p)
  BY <1>1, KeptKeeps DEF OrderInv, history
<1>3. QueueInv'
  BY <1>2, QuietQueue DEF OrderInv
<1> QED
  BY <1>2, <1>3 DEF OrderInv

LEMMA ExecuteOrder ==
    ASSUME TypeInv, TypeInv', OrderInv, RedisExecutes
    PROVE  OrderInv'
<1> DEFINE r == NextCommand
<1>1. r \in Requests /\ At(r, "redis") /\ UNCHANGED <<stored, received, ackedAt>>
  BY NextCommandWaits DEF RedisExecutes, history
<1>2. WritesKept
  <2>1. CASE UNCHANGED req
    BY <2>1 DEF WritesKept
  <2>2. CASE req[r].op = "subscribe" /\ req' = [req EXCEPT ![r].pos = cached[req[r].van]]
    <3>1. cached[req[r].van] \in Position
      BY <1>1, <2>2 DEF TypeInv, TypeOK, Shape
    <3>2. /\ \A x \in Requests : req'[x].pc = req[x].pc /\ req'[x].op = req[x].op
                               /\ req'[x].van = req[x].van
          /\ \A x \in Requests \ {r} : req'[x] = req[x]
      BY <1>1, <2>2, <3>1, AnswerStored
    <3> QED
      BY <2>2, <3>2 DEF WritesKept, Writes
  <2> QED
    BY <2>1, <2>2 DEF RedisExecutes
<1>3. /\ Numbers' /\ Row'
      /\ \A v \in Vans, p \in Position : Done(v, p)' => Done(v, p)
  BY <1>1, <1>2, KeptKeeps DEF OrderInv
<1>4. QueueInv'
  BY <1>3, ExecuteQueue DEF OrderInv
<1> QED
  BY <1>3, <1>4 DEF OrderInv

\* The oldest command leaves and its handler ends.
LEMMA EndOrder ==
    ASSUME TypeInv, TypeInv', OrderInv, redisQueue # <<>>, Dequeue,
           UNCHANGED <<stores, history>>, Finish(Head(redisQueue))
    PROVE  OrderInv'
<1>1. Head(redisQueue) \in Requests
  BY DEF TypeInv, TypeOK
<1>2. /\ \A p \in Requests \ {Head(redisQueue)} : req'[p] = req[p]
      /\ req'[Head(redisQueue)].op \notin Writes /\ req'[Head(redisQueue)].pc \notin InRow
  BY <1>1 DEF Finish, Idle, Serve, Writes, InRow, TypeInv, TypeOK
<1>3. WritesKept
  BY <1>1, <1>2, SlotKept
<1>4. /\ Numbers' /\ Row'
      /\ \A v \in Vans, p \in Position : Done(v, p)' => Done(v, p)
  BY <1>3, KeptKeeps DEF OrderInv, stores, history
<1>5. QueueInv'
  BY <1>2, <1>4, DequeueQueue DEF OrderInv, stores
<1> QED
  BY <1>4, <1>5 DEF OrderInv

\* Redis has answered a driver's position: the row is next.
LEMMA AnsweredOrder ==
    ASSUME TypeInv, TypeInv', OrderInv, executed > 0, redisQueue # <<>>, Dequeue,
           UNCHANGED <<stores, history>>,
           req[Head(redisQueue)].op = "location", Goto(Head(redisQueue), "updateVan")
    PROVE  OrderInv'
<1>0. PICK r : r = Head(redisQueue)
  OBVIOUS
<1>1. r \in Requests /\ r = redisQueue[1] /\ Goto(r, "updateVan") /\ req[r].op = "location"
  BY <1>0 DEF TypeInv, TypeOK
<1>2. /\ \A p \in Requests : req'[p].op = req[p].op /\ req'[p].van = req[p].van /\ req'[p].pos = req[p].pos
      /\ \A p \in Requests \ {r} : req'[p] = req[p]
      /\ req'[r].pc = "updateVan"
  <2> DEFINE q == [req[r] EXCEPT !.pc = "updateVan"]
  <2>1. req' = [req EXCEPT ![r] = q] /\ req \in [Requests -> Request] /\ req[r] \in Request
    BY <1>1, ReqFacts DEF Goto, TypeInv, TypeOK
  <2>2. q.op = req[r].op /\ q.van = req[r].van /\ q.pos = req[r].pos /\ q.pc = "updateVan"
    BY <2>1 DEF Request
  <2> HIDE DEF q
  <2> QED
    BY <1>1, <2>1, <2>2
<1>3. UNCHANGED <<cached, stored, received, ackedAt>>
  BY DEF stores, history
<1>4. Numbers'
  BY <1>2, <1>3 DEF OrderInv, Numbers, Writing, Acked
<1>5. \A v \in Vans, p \in Position : Updated(v, p)' => Updated(v, p)
  BY <1>2, <1>3 DEF Updated, Acked
<1>6. Row'
  BY <1>3, <1>5 DEF OrderInv, Row, Acked
<1>7. Writer(1) /\ VanOf(1) = req[r].van /\ PosOf(1) = req[r].pos
  BY <1>1 DEF Writer, Writing, Writes, VanOf, PosOf
<1>8. ASSUME NEW v \in Vans, NEW p \in Position, Done(v, p)'
      PROVE  Done(v, p) \/ (executed > 0 /\ Writer(1) /\ VanOf(1) = v /\ PosOf(1) = p)
  <2>1. CASE p \in 1 .. MaxPings /\ Acked(v, p)
    BY <2>1 DEF Done
  <2>2. ASSUME NEW x \in Requests, req'[x].pc \in InRow, req'[x].van = v, req'[x].pos = p
        PROVE  InRowWith(v, p) \/ (VanOf(1) = v /\ PosOf(1) = p)
    <3>1. CASE x = r
      BY <1>2, <1>7, <2>2, <3>1
    <3>2. CASE x # r
      BY <1>2, <2>2, <3>2 DEF InRowWith
    <3> QED
      BY <3>1, <3>2
  <2> QED
    BY <1>3, <1>7, <1>8, <2>1, <2>2 DEF Done, InRowWith, Acked
<1>9. QueueInv'
  BY <1>0, <1>2, <1>3, <1>8, DequeueQueue DEF OrderInv
<1> QED
  BY <1>4, <1>6, <1>9 DEF OrderInv

LEMMA CrashOrder ==
    ASSUME TypeInv, TypeInv', OrderInv, Crash
    PROVE  OrderInv'
<1>1. /\ UNCHANGED <<stores, history>> /\ redisQueue' = <<>> /\ executed' = 0
      /\ \A r \in Requests : req'[r].op \notin Writes /\ req'[r].pc \notin InRow
  BY DEF Crash, Idle, Serve, Writes, InRow
<1>2. WritesKept
  BY <1>1 DEF WritesKept, InRow
<1>3. /\ Numbers' /\ Row'
      /\ \A v \in Vans, p \in Position : Done(v, p)' => Done(v, p)
  BY <1>1, <1>2, KeptKeeps DEF OrderInv, stores, history
<1>4. Len(redisQueue') = 0 /\ UNCHANGED cached
  BY <1>1 DEF stores
<1>5. Order'
  BY <1>4 DEF Order
<1>6. Cover'
  BY <1>1, <1>3, <1>4 DEF OrderInv, QueueInv, Cover
<1>7. Answers'
  BY <1>1 DEF Answers
<1> QED
  BY <1>3, <1>5, <1>6, <1>7 DEF OrderInv, QueueInv

LEMMA NextOrder ==
    ASSUME TypeInv, TypeInv', OrderInv, [Next]_vars
    PROVE  OrderInv'
<1>1. \A p \in Requests : req[p] \in Request /\ Shape(req[p])
  BY ReqFacts
<1>2. ASSUME NEW r \in Requests, Finish(r)
      PROVE  /\ \A p \in Requests \ {r} : req'[p] = req[p]
             /\ req'[r].op \notin Writes /\ req'[r].pc \notin InRow
  BY <1>2 DEF Finish, Idle, Serve, Writes, InRow, TypeInv, TypeOK
<1>3. ASSUME NEW r \in Requests, NEW s \in Sockets, Connect(r, s) PROVE OrderInv'
  <2>1. /\ \A p \in Requests \ {r} : req'[p] = req[p]
        /\ req'[r].op \notin Writes /\ req'[r].pc \notin InRow
        /\ ~At(r, "redis") /\ UNCHANGED <<redis, stores, history>>
    BY <1>3 DEF Connect, Serve, Writes, InRow, Busy, At, TypeInv, TypeOK
  <2> QED
    BY <2>1, SlotOrder
<1>4. ASSUME NEW r \in Requests, NEW s \in Sockets, NEW v \in Vans, LocationUpdate(r, s, v)
      PROVE  OrderInv'
  BY <1>4, ReceiveOrder DEF LocationUpdate, Writes
<1>5. ASSUME NEW r \in Requests, NEW v \in Vans, RestLocation(r, v) PROVE OrderInv'
  BY <1>5, ReceiveOrder DEF RestLocation, Writes
<1>6. ASSUME NEW r \in Requests, NEW s \in Sockets, NEW v \in Vans, Subscribe(r, s, v)
      PROVE  OrderInv'
  <2>1. ~At(r, "redis") /\ UNCHANGED <<stores, history>>
    BY <1>6 DEF Subscribe, Busy, At
  <2>2. CASE Follow(r, s, v)
    BY <2>1, <2>2, AskOrder DEF Follow, Writes
  <2>3. CASE /\ req' = [req EXCEPT ![r] = Serve("subscribe", "checkAccess", s, v, 0)]
             /\ UNCHANGED redis
    <3>1. /\ \A p \in Requests \ {r} : req'[p] = req[p]
          /\ req'[r].op \notin Writes /\ req'[r].pc \notin InRow
      BY <2>3 DEF Serve, Writes, InRow, TypeInv, TypeOK
    <3> QED
      BY <2>1, <2>3, <3>1, SlotOrder
  <2> QED
    BY <1>6, <2>2, <2>3 DEF Subscribe
<1>7. ASSUME NEW r \in Requests, FindUser(r) PROVE OrderInv'
  <2>1. ~At(r, "redis") /\ UNCHANGED <<stores, history>>
    BY <1>7 DEF FindUser, At
  <2>2. CASE Finish(r) /\ UNCHANGED redis
    BY <1>2, <2>1, <2>2, SlotOrder
  <2>3. CASE Issue(r, "connect", req[r].socket, None, 0)
    BY <2>1, <2>3, AskOrder DEF Writes
  <2> QED
    BY <1>7, <2>2, <2>3 DEF FindUser
<1>8. ASSUME NEW r \in Requests, CheckAccess(r) PROVE OrderInv'
  <2>1. ~At(r, "redis") /\ UNCHANGED <<stores, history>>
    BY <1>8 DEF CheckAccess, At
  <2>2. CASE Finish(r) /\ UNCHANGED redis
    BY <1>2, <2>1, <2>2, SlotOrder
  <2>3. CASE Follow(r, req[r].socket, req[r].van)
    BY <2>1, <2>3, AskOrder DEF Follow, Writes
  <2> QED
    BY <1>8, <2>2, <2>3 DEF CheckAccess
<1>9. ASSUME NEW r \in Requests, DatabaseFails(r) PROVE OrderInv'
  <2>1. /\ ~At(r, "redis") /\ UNCHANGED <<redis, stores, history>> /\ Finish(r)
    BY <1>9 DEF DatabaseFails, Abort, At
  <2> QED
    BY <1>2, <2>1, SlotOrder
<1>10. CASE RedisReplies
  <2>1. /\ redisQueue # <<>> /\ executed > 0 /\ Dequeue /\ UNCHANGED <<stores, history>>
    BY <1>10 DEF RedisReplies, TypeInv, TypeOK
  <2>2. CASE Finish(Head(redisQueue))
    BY <2>1, <2>2, EndOrder
  <2>3. CASE req[Head(redisQueue)].op = "location" /\ Goto(Head(redisQueue), "updateVan")
    BY <2>1, <2>3, AnsweredOrder
  <2> QED
    BY <1>10, <2>2, <2>3 DEF RedisReplies
<1>11. CASE RedisRejects
  BY <1>11, EndOrder DEF RedisRejects, Abort
<1>12. CASE RedisReconnects
  BY <1>12, StillOrder DEF RedisReconnects, stores, TypeInv, TypeOK
<1>13. CASE Outside \/ UNCHANGED vars
  <2>1. UNCHANGED <<req, redisQueue, executed, stored, history>>
    BY <1>13 DEF Outside, Disconnect, Unsubscribe, PositionExpires, DriverVanChanges,
                 ChildVanChanges, vars, stores, redis
  <2>2. \A v \in Vans : cached'[v] \in {0, cached[v]}
    BY <1>13 DEF Outside, Disconnect, Unsubscribe, PositionExpires, DriverVanChanges,
                 ChildVanChanges, vars, stores, TypeInv, TypeOK
  <2>3. executed' \in 0 .. executed
    BY <2>1 DEF TypeInv, TypeOK
  <2> QED
    BY <2>1, <2>2, <2>3, StillOrder
<1> QED
  BY <1>3, <1>4, <1>5, <1>6, <1>7, <1>8, <1>9, <1>10, <1>11, <1>12, <1>13,
     UpdateOrder, AckOrder, ExecuteOrder, CrashOrder
  DEF Next, Arrive, Step, Environment, Outside

-----------------------------------------------------------------------------

LEMMA InitOrder == Init => OrderInv
<1> SUFFICES ASSUME Init PROVE OrderInv
  OBVIOUS
<1>1. /\ \A r \in Requests : req[r].pc = "idle" /\ req[r].op = "none"
      /\ Len(redisQueue) = 0 /\ executed = 0
      /\ \A v \in Vans, p \in 1 .. MaxPings : ~Acked(v, p)
      /\ \A v \in Vans : stored[v] = 0 /\ received[v] = 0
  BY DEF Init, Idle, Serve, Acked
<1>2. Numbers
  BY <1>1 DEF Numbers, Writing, Writes
<1>3. \A v \in Vans, p \in Position : ~Done(v, p)
  BY <1>1 DEF Done, InRowWith, InRow
<1>4. QueueInv
  BY <1>1, <1>3 DEF QueueInv, Order, Cover, Answers
<1>5. Row
  BY <1>1 DEF Row
<1> QED
  BY <1>2, <1>4, <1>5 DEF OrderInv

LEMMA OrderHolds == Spec => [](TypeInv /\ OrderInv)
<1>1. TypeInv /\ OrderInv /\ [Next]_vars => TypeInv' /\ OrderInv'
  BY NextType, NextOrder
<1> QED
  BY <1>1, InitType, InitOrder, PTL DEF Spec

\* A position a driver was told has arrived (socket.gateway.ts:217) is not hidden in Redis
\* by an older one, whichever handlers overlap and however often commands are repeated.
THEOREM CacheSafety == Spec => []CacheCoversAcks
<1>1. TypeInv /\ OrderInv => CacheCoversAcks
  <2> SUFFICES ASSUME TypeInv, OrderInv, NEW v \in Vans, NEW p \in 1 .. MaxPings, Acked(v, p)
               PROVE  cached[v] = 0 \/ p <= cached[v]
    BY DEF CacheCoversAcks
  <2>1. p \in Position /\ Done(v, p)
    BY LiveTrackingAssumption DEF Position, Done
  <2> QED
    BY <2>1 DEF OrderInv, QueueInv, Cover
<1> QED
  BY <1>1, OrderHolds, PTL

\* A van's row never keeps a position that was acknowledged before another was received
\* which has been acknowledged since (socket.gateway.ts:217).
THEOREM StoreSafety == Spec => []StoreIsCurrent
<1>1. TypeInv /\ OrderInv => StoreIsCurrent
  <2> SUFFICES ASSUME TypeInv, OrderInv, NEW v \in Vans, NEW p \in 1 .. MaxPings,
                      NEW q \in 1 .. MaxPings, stored[v] = p, Acked(v, p), Acked(v, q)
               PROVE  q <= ackedAt[v][p]
    BY DEF StoreIsCurrent
  <2>1. q \in Position /\ Updated(v, q)
    BY LiveTrackingAssumption DEF Position, Updated
  <2> QED
    BY <2>1 DEF OrderInv, Row
<1> QED
  BY <1>1, OrderHolds, PTL

\* The row of a van, read when the position in Redis has expired (trip-location.service.ts:149),
\* is never ahead of what Redis holds, whichever updates overlap, fail or are repeated.
THEOREM RowSafety == Spec => []RowTrailsCache
<1>1. TypeInv /\ OrderInv => RowTrailsCache
  <2> SUFFICES ASSUME TypeInv, OrderInv, NEW v \in Vans, cached[v] # 0
               PROVE  stored[v] <= cached[v]
    BY DEF RowTrailsCache
  <2>1. /\ stored[v] \in Position /\ cached[v] \in Position
        /\ stored[v] \in Nat /\ cached[v] \in Nat
    BY PositionIsNat DEF TypeInv, TypeOK
  <2>2. CASE stored[v] = 0
    BY <2>1, <2>2
  <2>3. CASE stored[v] # 0
    <3>1. Done(v, stored[v])
      BY <2>3 DEF Done
    <3> QED
      BY <2>1, <3>1 DEF OrderInv, QueueInv, Cover
  <2> QED
    BY <2>2, <2>3
<1> QED
  BY <1>1, OrderHolds, PTL

\* What moves the stores, the acknowledgements and what clients are shown.
LEMMA BoardStays ==
    [Next]_vars =>
        \/ UNCHANGED <<cached, ackedAt, shown>>
        \/ RedisExecutes \/ RedisReplies
        \/ \E r \in Requests : Ack(r)
        \/ \E v \in Vans : PositionExpires(v)
<1> SUFFICES ASSUME [Next]_vars
             PROVE  \/ UNCHANGED <<cached, ackedAt, shown>>
                    \/ RedisExecutes \/ RedisReplies
                    \/ \E r \in Requests : Ack(r)
                    \/ \E v \in Vans : PositionExpires(v)
  OBVIOUS
<1>1. ASSUME NEW r \in Requests, Arrive(r) PROVE UNCHANGED <<cached, ackedAt, shown>>
  BY <1>1 DEF Arrive, Connect, LocationUpdate, RestLocation, Receive, Subscribe,
              clients, stores, history
<1>2. ASSUME NEW r \in Requests, Step(r), ~Ack(r) PROVE UNCHANGED <<cached, ackedAt, shown>>
  BY <1>2 DEF Step, FindUser, UpdateVan, CheckAccess, clients, stores, history
<1>3. ASSUME NEW r \in Requests, DatabaseFails(r) PROVE UNCHANGED <<cached, ackedAt, shown>>
  BY <1>3 DEF DatabaseFails, Abort, stores, history
<1>4. ASSUME Environment, \A v \in Vans : ~PositionExpires(v)
      PROVE  UNCHANGED <<cached, ackedAt, shown>>
  BY <1>4 DEF Environment, Disconnect, Unsubscribe, DriverVanChanges, ChildVanChanges,
              RedisRejects, Abort, RedisReconnects, Crash, clients, stores, history
<1>5. CASE UNCHANGED vars
  BY <1>5 DEF vars, clients, stores, history
<1> QED
  BY <1>1, <1>2, <1>3, <1>4, <1>5 DEF Next

\* A client that was sent a position (socket.gateway.ts:275) is not sent an older one once
\* that position has been acknowledged, though commands may be repeated meanwhile.
THEOREM ShownSafety == Spec => AckedStaysShown
<1>1. ASSUME TypeInv, OrderInv, [Next]_vars,
             NEW s \in Sockets, NEW v \in Vans, shown'[s][v] < shown[s][v], Acked(v, shown[s][v])
      PROVE  FALSE
  <2>0. PICK r, a : r = Head(redisQueue) /\ a = req[r].pos
    OBVIOUS
  <2>1. shown[s][v] \in Position /\ shown[s][v] \in Nat
    BY <1>1, PositionIsNat DEF TypeInv, TypeOK
  <2>2. RedisReplies
    <3>1. \/ UNCHANGED shown \/ RedisReplies \/ RedisExecutes
          \/ \E x \in Requests : Ack(x)
          \/ \E w \in Vans : PositionExpires(w)
      BY <1>1, BoardStays
    <3>2. RedisExecutes => UNCHANGED shown
      BY DEF RedisExecutes, clients
    <3>3. \A x \in Requests : Ack(x) => UNCHANGED shown
      BY DEF Ack, clients
    <3>4. \A w \in Vans : PositionExpires(w) => UNCHANGED shown
      BY DEF PositionExpires, clients
    <3>5. ~UNCHANGED shown
      BY <1>1, <2>1
    <3> QED
      BY <3>1, <3>2, <3>3, <3>4, <3>5
  <2>3. /\ redisQueue \in Seq(Requests) /\ executed > 0 /\ 1 \in 1 .. executed
        /\ r \in Requests /\ r = redisQueue[1]
    <3>1. redisQueue \in Seq(Requests) /\ executed \in 0 .. Len(redisQueue) /\ executed > 0
      BY <1>1, <2>2 DEF RedisReplies, TypeInv, TypeOK
    <3>2. Len(redisQueue) > 0
      BY <3>1
    <3> QED
      BY <2>0, <3>1, <3>2
  <2>4. shown' # shown
    BY <1>1, <2>1
  <2>5. req[r].op = "subscribe" /\ Show(req[r].socket, req[r].van, a)
    BY <2>0, <2>2, <2>4 DEF RedisReplies
  <2>6. /\ a # 0 /\ a \in Nat /\ req[r].socket \in Sockets /\ req[r].van \in Vans
        /\ shown' = [shown EXCEPT ![req[r].socket][req[r].van] = a]
    <3>1. req[r] \in Request /\ Shape(req[r])
      BY <1>1, <2>3, ReqFacts
    <3>2. a \in Nat
      BY <2>0, <3>1, PositionIsNat DEF Request
    <3>3. req[r].socket \in Sockets /\ req[r].van \in Vans
      BY <2>5, <3>1 DEF Shape
    <3> QED
      BY <2>4, <2>5, <3>2, <3>3 DEF Show
  <2>7. s = req[r].socket /\ v = req[r].van /\ shown'[s][v] = a
    BY <1>1, <2>1, <2>6 DEF TypeInv, TypeOK
  <2>8. Done(v, shown[s][v])
    <3>1. shown[s][v] # 0
      BY <1>1, <2>1, <2>6, <2>7
    <3> QED
      BY <1>1, <2>1, <3>1, PositionIsNat DEF Done
  <2>9. shown[s][v] <= a
    BY <1>1, <2>0, <2>1, <2>3, <2>5, <2>6, <2>7, <2>8 DEF OrderInv, QueueInv, Answers, VanOf, PosOf
  <2> QED
    BY <1>1, <2>1, <2>6, <2>7, <2>9
<1>2. TypeInv /\ OrderInv /\ [Next]_vars
         => [\A s \in Sockets, v \in Vans :
                shown'[s][v] < shown[s][v] => ~Acked(v, shown[s][v])]_vars
  BY <1>1
<1>3. Spec => [][Next]_vars
  BY DEF Spec
<1> QED
  BY <1>2, <1>3, OrderHolds, PTL DEF AckedStaysShown

-----------------------------------------------------------------------------
(* PositionBoard *)

LEMMA AckedIsPromised ==
    ASSUME NEW v \in Vans
    PROVE  \A q : q \in AckedPositions[v] <=> q \in 1 .. MaxPings /\ Acked(v, q)
BY DEF AckedPositions

\* A command writes: the position is newer than all acknowledged ones.
LEMMA ExecuteIsPut ==
    ASSUME TypeInv, OrderInv, RedisExecutes
    PROVE  UNCHANGED cached \/ \E v \in Vans, p \in 1 .. MaxPings : Board!Put(v, p)
<1>0. PICK k : k = executed + 1
  OBVIOUS
<1>1. PICK r : r = NextCommand
  OBVIOUS
<1>2. PICK w, n : w = req[r].van /\ n = req[r].pos
  OBVIOUS
<1>3. k \in 1 .. Len(redisQueue) /\ r = redisQueue[k] /\ r \in Requests
  BY <1>0, <1>1, NextCommandWaits DEF RedisExecutes, NextCommand
<1>4. CASE req[r].op \in Writes /\ cached' = [cached EXCEPT ![w] = n]
  <2>1. w \in Vans /\ n \in 1 .. MaxPings /\ Writer(k) /\ VanOf(k) = w /\ PosOf(k) = n
    BY <1>2, <1>3, <1>4 DEF TypeInv, Shape, OrderInv, Numbers, Writing, Writer, VanOf, PosOf
  <2>2. \A q \in 1 .. MaxPings : Acked(w, q) => q < n
    <3>1. \A q \in 1 .. MaxPings : q \in Position
      BY LiveTrackingAssumption DEF Position
    <3> QED
      BY <1>3, <2>1, <3>1 DEF OrderInv, QueueInv, Order, Done
  <2>3. n \notin AckedPositions[w] /\ \A q \in AckedPositions[w] : q <= n
    BY <2>1, <2>2, AckedIsPromised
  <2>4. UNCHANGED <<AckedPositions, shown>>
    BY DEF RedisExecutes, AckedPositions, Acked, clients, history
  <2>5. Board!Put(w, n)
    BY <1>4, <2>3, <2>4 DEF Board!Put, Board!Newest
  <2> QED
    BY <2>1, <2>5
<1> QED
  BY <1>1, <1>2, <1>4 DEF RedisExecutes, Writes

\* The driver is told: Redis holds the position or a newer one, or it has expired.
LEMMA AckIsPromise ==
    ASSUME TypeInv, OrderInv, NEW r \in Requests, Ack(r)
    PROVE  \E v \in Vans, p \in 1 .. MaxPings : Board!Promise(v, p)
<1>0. PICK w, n : w = req[r].van /\ n = req[r].pos
  OBVIOUS
<1>1. /\ req[r].pc = "ack" /\ w \in Vans /\ n \in 1 .. MaxPings /\ n \in Position
      /\ received[w] # 0
  <2>1. Shape(req[r]) /\ req[r] \in Request /\ req[r].pc = "ack"
    BY ReqFacts DEF Ack, At
  <2>2. Writing(r) /\ w \in Vans /\ n \in Position
    BY <1>0, <2>1 DEF Shape, InRow, Writes, Writing, Request
  <2>3. n \in 1 .. MaxPings /\ n <= received[w]
    BY <1>0, <2>2 DEF OrderInv, Numbers
  <2>4. received[w] \in Nat
    BY <2>2, PositionIsNat DEF TypeInv, TypeOK
  <2> QED
    BY <2>1, <2>2, <2>3, <2>4
<1>2. cached[w] = 0 \/ n <= cached[w]
  <2>1. Done(w, n)
    BY <1>0, <1>1 DEF Done, InRowWith, InRow
  <2> QED
    BY <1>1, <2>1 DEF OrderInv, QueueInv, Cover
<1>3. ackedAt' = [ackedAt EXCEPT ![w][n] = received[w]] /\ UNCHANGED <<cached, shown>>
  BY <1>0 DEF Ack, clients, stores
<1>4. AckedPositions' = [AckedPositions EXCEPT ![w] = @ \cup {n}]
  <2>1. ackedAt \in [Vans -> [1 .. MaxPings -> Position]]
    BY DEF TypeInv, TypeOK
  <2>2. \A v \in Vans, q \in 1 .. MaxPings : Acked(v, q)' <=> Acked(v, q) \/ (v = w /\ q = n)
    BY <1>1, <1>3, <2>1 DEF Acked
  <2> QED
    BY <1>1, <2>2 DEF AckedPositions
<1>5. Board!Promise(w, n)
  BY <1>2, <1>3, <1>4 DEF Board!Promise
<1> QED
  BY <1>1, <1>5

\* A client is sent what Redis read for it: no older than any acknowledged position.
LEMMA ReplyIsShow ==
    ASSUME TypeInv, OrderInv, RedisReplies
    PROVE  \/ UNCHANGED shown
           \/ \E s \in Sockets, v \in Vans, p \in 1 .. MaxPings : Board!Show(s, v, p)
<1>0. PICK r : r = Head(redisQueue)
  OBVIOUS
<1>1. PICK s, w, n : s = req[r].socket /\ w = req[r].van /\ n = req[r].pos
  OBVIOUS
<1>2. /\ redisQueue \in Seq(Requests) /\ 1 \in 1 .. executed
      /\ r \in Requests /\ r = redisQueue[1]
  <2>1. redisQueue \in Seq(Requests) /\ executed \in 0 .. Len(redisQueue) /\ executed > 0
    BY DEF RedisReplies, TypeInv, TypeOK
  <2>2. Len(redisQueue) > 0
    BY <2>1
  <2> QED
    BY <1>0, <2>1, <2>2
<1>3. CASE req[r].op = "subscribe" /\ n # 0 /\ shown' = [shown EXCEPT ![s][w] = n]
  <2>1. s \in Sockets /\ w \in Vans /\ n \in 1 .. MaxPings
    <3>1. req[r] \in Request /\ Shape(req[r])
      BY <1>2, ReqFacts
    <3>2. s \in Sockets /\ w \in Vans /\ n \in Position
      BY <1>1, <1>3, <3>1 DEF Shape, Request
    <3> QED
      BY <1>3, <3>2, LiveTrackingAssumption DEF Position
  <2>2. \A q \in 1 .. MaxPings : Acked(w, q) => q <= n
    <3>1. \A q \in 1 .. MaxPings : q \in Position
      BY LiveTrackingAssumption DEF Position
    <3>2. VanOf(1) = w /\ PosOf(1) = n /\ req[redisQueue[1]].op = "subscribe"
      BY <1>1, <1>2, <1>3 DEF VanOf, PosOf
    <3> QED
      BY <1>2, <1>3, <2>1, <3>1, <3>2 DEF OrderInv, QueueInv, Answers, Done
  <2>3. \A q \in AckedPositions[w] : q <= n
    BY <2>1, <2>2, AckedIsPromised
  <2>4. UNCHANGED <<cached, AckedPositions>>
    BY DEF RedisReplies, AckedPositions, Acked, stores, history
  <2>5. Board!Show(s, w, n)
    BY <1>3, <2>3, <2>4 DEF Board!Show, Board!Newest
  <2> QED
    BY <2>1, <2>5
<1> QED
  BY <1>0, <1>1, <1>3 DEF RedisReplies, Show

\* Every step of live tracking is a step of the board or leaves it alone.
LEMMA NextBoard ==
    ASSUME TypeInv, OrderInv, [Next]_vars
    PROVE  Board!Next \/ UNCHANGED <<cached, AckedPositions, shown>>
<1>1. CASE UNCHANGED <<cached, ackedAt, shown>>
  BY <1>1 DEF AckedPositions, Acked
<1>2. CASE RedisExecutes
  <2>1. UNCHANGED <<AckedPositions, shown>>
    BY <1>2 DEF RedisExecutes, AckedPositions, Acked, clients, history
  <2> QED
    BY <1>2, <2>1, ExecuteIsPut DEF Board!Next
<1>3. CASE RedisReplies
  <2>1. UNCHANGED <<cached, AckedPositions>>
    BY <1>3 DEF RedisReplies, AckedPositions, Acked, stores, history
  <2> QED
    BY <1>3, <2>1, ReplyIsShow DEF Board!Next
<1>4. ASSUME NEW r \in Requests, Ack(r) PROVE Board!Next
  BY <1>4, AckIsPromise DEF Board!Next
<1>5. ASSUME NEW v \in Vans, PositionExpires(v) PROVE Board!Next
  <2>1. UNCHANGED <<AckedPositions, shown>> /\ cached' = [cached EXCEPT ![v] = 0]
    BY <1>5 DEF PositionExpires, AckedPositions, Acked, clients, history
  <2>2. Board!Wipe(v)
    BY <2>1 DEF Board!Wipe
  <2> QED
    BY <2>2 DEF Board!Next
<1> QED
  BY <1>1, <1>2, <1>3, <1>4, <1>5, BoardStays

\* Whatever overlaps, fails, crashes, expires or is repeated, Redis, the acknowledgements
\* (socket.gateway.ts:257) and what subscribers are sent (socket.gateway.ts:309) behave
\* as the boards of PositionBoard.
THEOREM RefinesBoard == Spec => ImplementsBoard
<1>1. Init => Board!Init
  <2> SUFFICES ASSUME Init PROVE Board!Init
    OBVIOUS
  <2>1. AckedPositions = [v \in Vans |-> {}]
    BY DEF Init, AckedPositions, Acked
  <2> QED
    BY <2>1 DEF Init, Board!Init
<1>2. TypeInv /\ OrderInv /\ [Next]_vars => [Board!Next]_(Board!vars)
  BY NextBoard DEF Board!vars
<1>3. Spec => [][Next]_vars
  BY DEF Spec
<1>4. Spec => Init
  BY DEF Spec
<1> QED
  BY <1>1, <1>2, <1>3, <1>4, OrderHolds, PTL DEF ImplementsBoard, Board!Spec

=============================================================================
