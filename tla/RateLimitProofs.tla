--------------------------- MODULE RateLimitProofs ---------------------------
(***************************************************************************)
(* Theorems about RateLimit for every limit, window, delay, and number of  *)
(* callers, with and without faults.                                       *)
(*                                                                         *)
(* The argument: a key cannot expire before its window ends, since EXPIRE   *)
(* runs in the window or later (Timely).  A key that is made again after    *)
(* that lives to the end of the next window, and by then no check of the   *)
(* first is left (Generations).  No key outlives that, since no command of *)
(* the first window runs later (ExpirySoon).                               *)
(***************************************************************************)
EXTENDS RateLimit, TLAPS

USE RateLimitAssumption

\* A check knows a time that has come, and waits for a command no longer than MaxDelay.
ChecksAreRecent ==
    \A c \in Callers : call[c].at <= now /\ (Busy(c) => now - call[c].at <= MaxDelay)

\* While a window lasts its key is there and has counted whatever was let through.
Timely ==
    \A w \in Times :
        /\ expireAt[w] # None => expireAt[w] >= End(w)
        /\ now < End(w) => inTime[w] + late[w] <= count[w]
        /\ late[w] = 0 \/ now >= End(w)
        /\ inTime[w] <= Max

\* The key of a window is the first one, one made after the window had ended, or one
\* nobody counts in any more.
FirstKey(w) == inTime[w] + late[w] <= count[w] /\ inTime[w] + late[w] <= Max
SecondKey(w) ==
    /\ now >= End(w)
    /\ inTime[w] + late[w] <= Max + count[w] /\ inTime[w] + late[w] <= 2 * Max
    /\ expireAt[w] # None => expireAt[w] >= End(w) + Window
LastKey(w) == now >= End(w) + Window /\ inTime[w] + late[w] <= 2 * Max

Generations == \A w \in Times : FirstKey(w) \/ SecondKey(w) \/ LastKey(w)

-----------------------------------------------------------------------------
(* Windows *)

LEMMA WindowStart ==
    ASSUME NEW t \in Times
    PROVE  Start(t) \in Times /\ Start(t) <= t /\ t < End(Start(t))
<1>1. t % Window \in 0 .. (Window - 1) /\ t % Window <= t
  BY DEF Times
<1> QED
  BY <1>1 DEF Start, End, Times

\* The time a running check goes on is within the delay, and so before the last command.
LEMMA RunsBeforeLast ==
    ASSUME TypeOK, ChecksAreRecent, NEW c \in Callers, Busy(c)
    PROVE  WindowOf(c) \in Times /\ now <= LastCommand(WindowOf(c))
<1>1. call[c].at \in Times /\ call[c].at <= now /\ now - call[c].at <= MaxDelay
  BY DEF TypeOK, Call, ChecksAreRecent
<1>2. PICK w : w = WindowOf(c)
  OBVIOUS
<1>3. w \in Times /\ call[c].at < End(w)
  BY <1>1, <1>2, WindowStart DEF WindowOf
<1>4. now \in Nat /\ call[c].at \in Nat /\ w \in Nat
  BY <1>1, <1>3 DEF Times, TypeOK
<1> QED
  BY <1>1, <1>2, <1>3, <1>4 DEF End, LastCommand

-----------------------------------------------------------------------------
(* Types *)

LEMMA IdleTyped == Idle \in Call
BY DEF Idle, Call, Times

LEMMA InitType == Init => TypeOK
BY IdleTyped DEF Init, TypeOK, Times

LEMMA CallTyped == ASSUME TypeOK, NEW c \in Callers PROVE call[c] \in Call /\ WindowOf(c) \in Times
<1>1. call[c] \in Call /\ call[c].at \in Times
  BY DEF TypeOK, Call
<1> QED
  BY <1>1, WindowStart DEF WindowOf

LEMMA FinishTyped ==
    ASSUME TypeOK, NEW c \in Callers, Finish(c)
    PROVE  call' \in [Callers -> Call]
BY IdleTyped DEF TypeOK, Finish

LEMMA NextType == TypeOK /\ [Next]_vars => TypeOK'
<1> SUFFICES ASSUME TypeOK, [Next]_vars PROVE TypeOK'
  OBVIOUS
<1>1. ASSUME NEW c \in Callers, Check(c) PROVE TypeOK'
  BY <1>1 DEF Check, TypeOK, Call, redis, history
<1>2. ASSUME NEW c \in Callers, Incr(c) PROVE TypeOK'
  <2> DEFINE w == WindowOf(c)
  <2>1. w \in Times /\ call[c] \in Call
    BY CallTyped
  <2>2. count' \in [Times -> Nat]
    BY <1>2, <2>1 DEF Incr, TypeOK
  <2>3. inTime' \in [Times -> Nat] /\ late' \in [Times -> Nat]
    BY <1>2, <2>1 DEF Incr, Grant, TypeOK
  <2>4. call' \in [Callers -> Call]
    <3>1. CASE First(count[w] + 1)
      BY <1>2, <2>1, <3>1 DEF Incr, Call, TypeOK
    <3>2. CASE ~First(count[w] + 1)
      BY <1>2, <3>2, FinishTyped DEF Incr
    <3> QED
      BY <3>1, <3>2
  <2> QED
    BY <1>2, <2>2, <2>3, <2>4 DEF Incr, TypeOK
<1>3. ASSUME NEW c \in Callers, Expire(c) PROVE TypeOK'
  <2>1. WindowOf(c) \in Times
    BY CallTyped
  <2>a. ExpireTime(c) \in Nat
    BY DEF ExpireTime, TypeOK, Times
  <2>2. expireAt' \in [Times -> Nat \cup {None}]
    BY <1>3, <2>1, <2>a DEF Expire, TypeOK
  <2> QED
    BY <1>3, <2>2, FinishTyped DEF Expire, TypeOK, history
<1>4. ASSUME NEW c \in Callers, CallFails(c) PROVE TypeOK'
  BY <1>4, FinishTyped, CallTyped DEF CallFails, TypeOK, redis
<1>5. ASSUME NEW c \in Callers, IncrRunsTwice(c) PROVE TypeOK'
  <2>1. count' \in [Times -> Nat]
    BY <1>5, CallTyped DEF IncrRunsTwice, TypeOK
  <2> QED
    BY <1>5, <2>1, CallTyped DEF IncrRunsTwice, TypeOK
<1>6. ASSUME Tick PROVE TypeOK'
  BY <1>6 DEF Tick, TypeOK, Times, history
<1>7. ASSUME Crash PROVE TypeOK'
  <2>1. broken' \subseteq Times
    BY <1>7, CallTyped DEF Crash, TypeOK
  <2> QED
    BY <1>7, <2>1, IdleTyped DEF Crash, TypeOK, redis
<1>8. ASSUME UNCHANGED vars PROVE TypeOK'
  BY <1>8 DEF vars, redis, history, TypeOK
<1> QED
  BY <1>1, <1>2, <1>3, <1>4, <1>5, <1>6, <1>7, <1>8 DEF Next

-----------------------------------------------------------------------------
(* The limit *)

Inv == TypeOK /\ ChecksAreRecent /\ Timely /\ (MaxDelay <= Window => Generations)

LEMMA InitInv == Init => Inv
<1> SUFFICES ASSUME Init PROVE Inv
  OBVIOUS
<1>1. TypeOK
  BY InitType
<1>2. ChecksAreRecent
  <2>1. now = 0 /\ \A c \in Callers : call[c].at = 0 /\ call[c].pc = "idle"
    BY DEF Init, Idle
  <2>2. \A c \in Callers : ~Busy(c)
    BY <2>1 DEF Busy
  <2>3. now <= now
    BY <2>1
  <2>4. \A c \in Callers : call[c].at = now
    BY <2>1
  <2>5. \A c \in Callers : call[c].at <= now
    BY <2>3, <2>4
  <2> QED
    BY <2>2, <2>5 DEF ChecksAreRecent
<1>3. Timely /\ Generations
  BY DEF Init, Timely, Generations, FirstKey, End, Times
<1> QED
  BY <1>1, <1>2, <1>3 DEF Inv

LEMMA NextRecent == Inv /\ [Next]_vars => ChecksAreRecent'
<1> SUFFICES ASSUME Inv, [Next]_vars PROVE ChecksAreRecent'
  OBVIOUS
<1> USE DEF Inv, TypeOK, ChecksAreRecent, Busy, Times, Call
<1>1. ASSUME NEW c \in Callers, Check(c) PROVE ChecksAreRecent'
  BY <1>1 DEF Check
<1>2. ASSUME NEW c \in Callers, Finish(c), now' = now PROVE ChecksAreRecent'
  BY <1>2 DEF Finish, Idle
<1>3. ASSUME NEW c \in Callers, Incr(c) PROVE ChecksAreRecent'
  <2>1. CASE Finish(c)
    BY <1>2, <1>3, <2>1 DEF Incr
  <2>2. CASE call' = [call EXCEPT ![c].pc = "expire"]
    BY <1>3, <2>2 DEF Incr, At
  <2> QED
    BY <1>3, <2>1, <2>2 DEF Incr
<1>4. ASSUME NEW c \in Callers, Expire(c) \/ CallFails(c) PROVE ChecksAreRecent'
  BY <1>2, <1>4 DEF Expire, CallFails
<1>5. ASSUME NEW c \in Callers, IncrRunsTwice(c) PROVE ChecksAreRecent'
  BY <1>5 DEF IncrRunsTwice
<1>6. ASSUME Tick PROVE ChecksAreRecent'
  <2>1. now' = now + 1 /\ call' = call
    BY <1>6 DEF Tick
  <2>2. ASSUME NEW c \in Callers
        PROVE  call'[c].at <= now' /\ (call'[c].pc # "idle" => now' - call'[c].at <= MaxDelay)
    <3>1. now \in Nat /\ call[c].at \in Nat /\ call[c].at <= now
      OBVIOUS
    <3>2. call'[c].at <= now'
      BY <2>1, <3>1
    <3>3. ASSUME call'[c].pc # "idle" PROVE now' - call'[c].at <= MaxDelay
      <4>1. now + 1 - call[c].at <= MaxDelay
        BY <1>6, <2>1, <3>3 DEF Tick
      <4> QED
        BY <2>1, <4>1
    <3> QED
      BY <3>2, <3>3
  <2> QED
    BY <2>2
<1>7. ASSUME Crash PROVE ChecksAreRecent'
  BY <1>7 DEF Crash, Idle
<1>8. ASSUME UNCHANGED vars PROVE ChecksAreRecent'
  BY <1>8 DEF vars
<1> QED
  BY <1>1, <1>3, <1>4, <1>5, <1>6, <1>7, <1>8 DEF Next

\* The step that counts a check.
LEMMA IncrKeeps ==
    ASSUME Inv, NEW c \in Callers, Incr(c)
    PROVE  Timely' /\ (MaxDelay <= Window => Generations')
<1> DEFINE w == WindowOf(c)
<1>1. /\ w \in Times /\ End(w) \in Nat /\ call[c].at \in Nat
      /\ w <= now /\ call[c].at < End(w) /\ now - call[c].at <= MaxDelay
  <2>1. call[c].at \in Times /\ call[c].at <= now /\ now - call[c].at <= MaxDelay
    BY DEF Inv, TypeOK, Call, ChecksAreRecent, Incr, At, Busy
  <2>2. w \in Times /\ w <= call[c].at /\ call[c].at < End(w)
    BY <2>1, WindowStart DEF WindowOf
  <2>3. now \in Nat /\ call[c].at \in Nat /\ w \in Nat
    BY <2>1, <2>2 DEF Times, Inv, TypeOK
  <2> HIDE DEF w
  <2> QED
    BY <2>1, <2>2, <2>3 DEF End
<1>2. now \in Nat /\ count \in [Times -> Nat] /\ inTime \in [Times -> Nat] /\ late \in [Times -> Nat]
  BY DEF Inv, TypeOK, Times
<1>3. /\ count' = [count EXCEPT ![w] = @ + 1]
      /\ UNCHANGED <<now, expireAt>>
  BY DEF Incr
<1>4. \/ /\ UNCHANGED <<inTime, late>>
      \/ /\ count[w] + 1 <= Max /\ now < End(w)
         /\ inTime' = [inTime EXCEPT ![w] = @ + 1] /\ UNCHANGED late
      \/ /\ count[w] + 1 <= Max /\ now >= End(w)
         /\ late' = [late EXCEPT ![w] = @ + 1] /\ UNCHANGED inTime
  BY <1>1, <1>2 DEF Incr, Grant, Allowed
<1> HIDE DEF w
<1>5. ASSUME NEW v \in Times
      PROVE  /\ expireAt'[v] # None => expireAt'[v] >= End(v)
             /\ now' < End(v) => inTime'[v] + late'[v] <= count'[v]
             /\ late'[v] = 0 \/ now' >= End(v)
             /\ inTime'[v] <= Max
  <2>1. /\ expireAt[v] # None => expireAt[v] >= End(v)
        /\ now < End(v) => inTime[v] + late[v] <= count[v]
        /\ late[v] = 0 \/ now >= End(v)
        /\ inTime[v] <= Max
    BY DEF Inv, Timely
  <2> QED
    BY <1>1, <1>2, <1>3, <1>4, <2>1
<1>6. ASSUME MaxDelay <= Window, NEW v \in Times
      PROVE  (FirstKey(v) \/ SecondKey(v) \/ LastKey(v))'
  <2>1. CASE v # w
    BY <1>2, <1>3, <1>4, <1>6, <2>1 DEF Inv, Generations, FirstKey, SecondKey, LastKey, End
  <2>2. CASE v = w
    <3>1. ~LastKey(w)
      BY <1>1, <1>2, <1>6 DEF LastKey, End
    <3>2. CASE FirstKey(w)
      BY <1>1, <1>2, <1>3, <1>4, <2>2, <3>2 DEF FirstKey
    <3>3. CASE SecondKey(w)
      BY <1>1, <1>2, <1>3, <1>4, <2>2, <3>3 DEF SecondKey, End
    <3> QED
      BY <1>6, <2>2, <3>1, <3>2, <3>3 DEF Inv, Generations
  <2> QED
    BY <2>1, <2>2
<1> QED
  BY <1>5, <1>6 DEF Timely, Generations, End

\* The step that sets an expiry.
LEMMA ExpireKeeps ==
    ASSUME Inv, NEW c \in Callers, Expire(c)
    PROVE  Timely' /\ (MaxDelay <= Window => Generations')
<1> DEFINE w == WindowOf(c)
<1>1. w \in Times /\ w <= now
  <2>1. call[c].at \in Times /\ call[c].at <= now
    BY DEF Inv, TypeOK, Call, ChecksAreRecent
  <2>2. w \in Times /\ w <= call[c].at
    BY <2>1, WindowStart DEF WindowOf
  <2> QED
    BY <2>1, <2>2 DEF Times, Inv, TypeOK
<1>2. /\ now \in Nat /\ count \in [Times -> Nat] /\ inTime \in [Times -> Nat]
      /\ late \in [Times -> Nat] /\ expireAt \in [Times -> Nat \cup {None}]
  BY DEF Inv, TypeOK, Times
<1>3. /\ expireAt' = expireAt \/ expireAt' = [expireAt EXCEPT ![w] = now + Window]
      /\ UNCHANGED <<now, count, inTime, late>>
  BY DEF Expire, ExpireTime, history
<1> HIDE DEF w
<1>0. ASSUME NEW v \in Times
      PROVE  expireAt'[v] = expireAt[v] \/ (v = w /\ expireAt'[v] = now + Window)
  BY <1>1, <1>2, <1>3, <1>0
<1>4. ASSUME NEW v \in Times
      PROVE  /\ expireAt'[v] # None => expireAt'[v] >= End(v)
             /\ now' < End(v) => inTime'[v] + late'[v] <= count'[v]
             /\ late'[v] = 0 \/ now' >= End(v)
             /\ inTime'[v] <= Max
  <2>1. /\ expireAt[v] # None => expireAt[v] >= End(v)
        /\ now < End(v) => inTime[v] + late[v] <= count[v]
        /\ late[v] = 0 \/ now >= End(v)
        /\ inTime[v] <= Max
    BY DEF Inv, Timely
  <2>2. now + Window >= End(w)
    BY <1>1, <1>2 DEF End, Times
  <2> QED
    BY <1>3, <1>0, <2>1, <2>2
<1>5. ASSUME MaxDelay <= Window, NEW v \in Times
      PROVE  (FirstKey(v) \/ SecondKey(v) \/ LastKey(v))'
  <2>1. CASE FirstKey(v)
    BY <1>3, <2>1 DEF FirstKey
  <2>2. CASE SecondKey(v)
    BY <1>1, <1>2, <1>3, <1>0, <2>2 DEF SecondKey, End, Times
  <2>3. CASE LastKey(v)
    BY <1>3, <2>3 DEF LastKey
  <2> QED
    BY <1>5, <2>1, <2>2, <2>3 DEF Inv, Generations
<1> QED
  BY <1>4, <1>5 DEF Timely, Generations, End

\* The step that lets time pass, and keys with it.
LEMMA TickKeeps ==
    ASSUME Inv, Tick
    PROVE  Timely' /\ (MaxDelay <= Window => Generations')
<1>1. /\ now \in Nat /\ count \in [Times -> Nat] /\ inTime \in [Times -> Nat]
      /\ late \in [Times -> Nat] /\ expireAt \in [Times -> Nat \cup {None}]
  BY DEF Inv, TypeOK, Times
<1>2. /\ now' = now + 1
      /\ \A w \in Times :
            /\ count'[w] = IF Expired(w) THEN 0 ELSE count[w]
            /\ expireAt'[w] = IF Expired(w) THEN None ELSE expireAt[w]
            /\ inTime'[w] = inTime[w] /\ late'[w] = late[w]
  BY DEF Tick, history
<1>3. ASSUME NEW w \in Times
      PROVE  /\ expireAt'[w] # None => expireAt'[w] >= End(w)
             /\ now' < End(w) => inTime'[w] + late'[w] <= count'[w]
             /\ late'[w] = 0 \/ now' >= End(w)
             /\ inTime'[w] <= Max
  <2>1. /\ expireAt[w] # None => expireAt[w] >= End(w)
        /\ now < End(w) => inTime[w] + late[w] <= count[w]
        /\ late[w] = 0 \/ now >= End(w)
        /\ inTime[w] <= Max
    BY DEF Inv, Timely
  <2>2. End(w) \in Nat
    BY DEF End, Times
  <2> QED
    BY <1>1, <1>2, <2>1, <2>2 DEF Expired
<1>4. ASSUME MaxDelay <= Window, NEW w \in Times
      PROVE  (FirstKey(w) \/ SecondKey(w) \/ LastKey(w))'
  <2>1. expireAt[w] # None => expireAt[w] >= End(w)
    BY DEF Inv, Timely
  <2>2. CASE FirstKey(w)
    <3>1. CASE ~Expired(w)
      BY <1>2, <2>2, <3>1 DEF FirstKey
    <3>2. CASE Expired(w)
      <4>1. expireAt[w] \in Nat /\ w \in Nat /\ inTime[w] + late[w] <= Max
        BY <1>1, <2>2, <3>2 DEF Expired, FirstKey, Times
      <4>2. now' >= End(w)
        BY <1>1, <1>2, <2>1, <3>2, <4>1 DEF Expired, End
      <4>3. inTime'[w] + late'[w] <= Max /\ count'[w] = 0 /\ expireAt'[w] = None
        BY <1>2, <3>2, <4>1
      <4>4. inTime'[w] \in Nat /\ late'[w] \in Nat
        BY <1>1, <1>2
      <4> QED
        BY <4>2, <4>3, <4>4 DEF SecondKey, End
    <3> QED
      BY <3>1, <3>2
  <2>3. CASE SecondKey(w)
    <3>1. w \in Nat /\ now' >= End(w)
      BY <1>1, <1>2, <2>3 DEF SecondKey, End, Times
    <3>2. CASE ~Expired(w)
      BY <1>2, <2>3, <3>1, <3>2 DEF SecondKey
    <3>3. CASE Expired(w)
      <4>1. expireAt[w] \in Nat /\ expireAt[w] <= now + 1 /\ expireAt[w] >= End(w) + Window
        BY <1>1, <2>3, <3>3 DEF Expired, SecondKey
      <4>2. now' >= End(w) + Window
        BY <1>1, <1>2, <3>1, <4>1 DEF End
      <4> QED
        BY <1>2, <2>3, <4>2 DEF SecondKey, LastKey
    <3> QED
      BY <3>2, <3>3
  <2>4. CASE LastKey(w)
    BY <1>1, <1>2, <2>4 DEF LastKey, End, Times
  <2> QED
    BY <1>4, <2>2, <2>3, <2>4 DEF Inv, Generations
<1> QED
  BY <1>3, <1>4 DEF Timely, Generations, End

LEMMA NextInv == Inv /\ [Next]_vars => Inv'
<1> SUFFICES ASSUME Inv, [Next]_vars PROVE Inv'
  OBVIOUS
<1>1. TypeOK' /\ ChecksAreRecent'
  BY NextType, NextRecent DEF Inv
<1>2. ASSUME UNCHANGED <<now, count, expireAt, inTime, late>>
      PROVE  Timely' /\ (MaxDelay <= Window => Generations')
  BY <1>2 DEF Inv, Timely, Generations, FirstKey, SecondKey, LastKey
<1>3. ASSUME NEW c \in Callers, IncrRunsTwice(c)
      PROVE  Timely' /\ (MaxDelay <= Window => Generations')
  <2> DEFINE w == WindowOf(c)
  <2>1. /\ w \in Times /\ count \in [Times -> Nat] /\ count' = [count EXCEPT ![w] = @ + 1]
        /\ inTime \in [Times -> Nat] /\ late \in [Times -> Nat]
    BY <1>3, CallTyped DEF Inv, TypeOK, IncrRunsTwice
  <2> HIDE DEF w
  <2> QED
    BY <1>3, <2>1 DEF Inv, Timely, Generations, FirstKey, SecondKey, LastKey, IncrRunsTwice
<1>4. Timely' /\ (MaxDelay <= Window => Generations')
  BY <1>2, <1>3, IncrKeeps, ExpireKeeps, TickKeeps
     DEF Next, Check, CallFails, Crash, vars, redis, history
<1> QED
  BY <1>1, <1>4 DEF Inv

LEMMA InvHolds == Spec => []Inv
BY InitInv, NextInv, PTL DEF Spec

-----------------------------------------------------------------------------
(* Counters *)

LEMMA InitExpire == Init => CountersExpire
BY DEF Init, CountersExpire

LEMMA NextExpire == TypeOK /\ CountersExpire /\ [Next]_vars => CountersExpire'
<1> SUFFICES ASSUME TypeOK, CountersExpire, [Next]_vars,
                    NEW w \in Times, w \notin broken', count'[w] # 0
             PROVE  expireAt'[w] # None \/ AboutToExpire(w)'
  BY DEF CountersExpire
<1> DEFINE Goal == expireAt'[w] # None \/ AboutToExpire(w)'
<1>1. ASSUME NEW c \in Callers, Check(c) PROVE Goal
  BY <1>1 DEF Check, CountersExpire, AboutToExpire, At, WindowOf, Busy, TypeOK, redis, history
<1>2. ASSUME NEW c \in Callers, Incr(c) PROVE Goal
  <2>1. WindowOf(c) \in Times /\ call[c] \in Call
    BY CallTyped
  <2>2. (call'[c].at = call[c].at /\ call'[c].pc = "expire") \/ call'[c] = Idle
    BY <1>2, <2>1 DEF Incr, Finish, TypeOK, Call
  <2>3. \A b \in Callers \ {c} : call'[b] = call[b]
    BY <1>2 DEF Incr, Finish, TypeOK
  <2>4. CASE w = WindowOf(c) /\ count[w] = 0
    <3>1. call'[c].at = call[c].at /\ call'[c].pc = "expire"
      BY <1>2, <2>1, <2>4 DEF Incr, First, TypeOK, Call
    <3> QED
      BY <2>4, <3>1 DEF AboutToExpire, At, WindowOf
  <2>5. CASE w # WindowOf(c) \/ count[w] # 0
    <3>1. count[w] # 0 /\ expireAt' = expireAt /\ w \notin broken
      BY <1>2, <2>1, <2>5 DEF Incr, TypeOK
    <3>2. CASE expireAt[w] # None
      BY <3>1, <3>2
    <3>3. CASE AboutToExpire(w)
      <4>1. PICK b \in Callers : At(b, "expire") /\ WindowOf(b) = w
        BY <3>3 DEF AboutToExpire
      <4>2. b # c
        BY <1>2, <4>1 DEF Incr, At
      <4> QED
        BY <2>3, <4>1, <4>2 DEF AboutToExpire, At, WindowOf
    <3> QED
      BY <3>1, <3>2, <3>3 DEF CountersExpire
  <2> QED
    BY <2>4, <2>5
<1>3. ASSUME NEW c \in Callers, Expire(c) PROVE Goal
  <2>1. count[w] # 0 /\ w \notin broken
    BY <1>3 DEF Expire, history
  <2>2. CASE w = WindowOf(c)
    <3>1. ExpireTime(c) # None
      BY DEF ExpireTime, TypeOK, Times
    <3> QED
      BY <1>3, <2>1, <2>2, <3>1 DEF Expire, TypeOK
  <2>3. CASE w # WindowOf(c)
    <3>1. expireAt'[w] = expireAt[w]
      BY <1>3, <2>3 DEF Expire, TypeOK
    <3>2. CASE AboutToExpire(w)
      <4>1. PICK b \in Callers : At(b, "expire") /\ WindowOf(b) = w
        BY <3>2 DEF AboutToExpire
      <4>2. call'[b] = call[b]
        BY <1>3, <2>3, <4>1 DEF Expire, Finish, TypeOK
      <4> QED
        BY <4>1, <4>2 DEF AboutToExpire, At, WindowOf
    <3> QED
      BY <2>1, <3>1, <3>2 DEF CountersExpire
  <2> QED
    BY <2>2, <2>3
<1>4. ASSUME NEW c \in Callers, CallFails(c) \/ IncrRunsTwice(c) PROVE Goal
  <2>1. /\ w \notin broken /\ w # WindowOf(c) /\ expireAt'[w] = expireAt[w] /\ count[w] # 0
        /\ \A b \in Callers \ {c} : call'[b] = call[b]
    BY <1>4, CallTyped DEF CallFails, IncrRunsTwice, Finish, TypeOK, redis
  <2>2. CASE AboutToExpire(w)
    <3>1. PICK b \in Callers : At(b, "expire") /\ WindowOf(b) = w
      BY <2>2 DEF AboutToExpire
    <3> QED
      BY <2>1, <3>1 DEF AboutToExpire, At, WindowOf
  <2> QED
    BY <2>1, <2>2 DEF CountersExpire
<1>5. ASSUME Tick PROVE Goal
  BY <1>5 DEF Tick, Expired, CountersExpire, AboutToExpire, At, WindowOf, TypeOK, history
<1>6. ASSUME Crash PROVE Goal
  <2>1. /\ w \notin broken /\ count[w] # 0 /\ expireAt' = expireAt
        /\ \A c \in Callers : Busy(c) => WindowOf(c) # w
    BY <1>6 DEF Crash, redis
  <2> QED
    BY <2>1 DEF CountersExpire, AboutToExpire, At, Busy
<1>7. ASSUME UNCHANGED vars PROVE Goal
  BY <1>7 DEF vars, redis, history, CountersExpire, AboutToExpire, At, WindowOf
<1> QED
  BY <1>1, <1>2, <1>3, <1>4, <1>5, <1>6, <1>7 DEF Next

-----------------------------------------------------------------------------
(* Keys *)

\* A key in Redis has time left, but not more than the last command could have given it.
ExpirySoon ==
    \A w \in Times :
        expireAt[w] # None => now < expireAt[w] /\ expireAt[w] <= LastCommand(w) + Window

LEMMA InitSoon == Init => ExpirySoon
BY DEF Init, ExpirySoon

LEMMA NextSoon == TypeOK /\ ChecksAreRecent /\ ExpirySoon /\ [Next]_vars => ExpirySoon'
<1> SUFFICES ASSUME TypeOK, ChecksAreRecent, ExpirySoon, [Next]_vars,
                    NEW w \in Times, expireAt'[w] # None
             PROVE  now' < expireAt'[w] /\ expireAt'[w] <= LastCommand(w) + Window
  BY DEF ExpirySoon, LastCommand, End
<1>1. now \in Nat /\ (expireAt[w] # None => expireAt[w] \in Nat)
  BY DEF TypeOK, Times
<1>2. CASE UNCHANGED <<now, expireAt>>
  BY <1>2 DEF ExpirySoon
<1>3. ASSUME NEW c \in Callers, Expire(c)
      PROVE  now' < expireAt'[w] /\ expireAt'[w] <= LastCommand(w) + Window
  <2>1. WindowOf(c) \in Times /\ now <= LastCommand(WindowOf(c)) /\ now' = now
    BY <1>3, RunsBeforeLast DEF Expire, At, Busy
  <2>2. \/ expireAt'[w] = expireAt[w]
        \/ w = WindowOf(c) /\ expireAt'[w] = now + Window
    BY <1>3, <2>1 DEF Expire, ExpireTime, TypeOK
  <2>3. LastCommand(w) \in Int
    BY DEF LastCommand, End, Times
  <2>4. CASE expireAt'[w] = expireAt[w]
    BY <2>1, <2>4 DEF ExpirySoon
  <2>5. CASE w = WindowOf(c) /\ expireAt'[w] = now + Window
    BY <1>1, <2>1, <2>3, <2>5
  <2> QED
    BY <2>2, <2>4, <2>5
<1>4. ASSUME Tick PROVE now' < expireAt'[w] /\ expireAt'[w] <= LastCommand(w) + Window
  <2>1. now' = now + 1 /\ expireAt'[w] = expireAt[w] /\ ~Expired(w)
    BY <1>4 DEF Tick
  <2> QED
    BY <1>1, <2>1 DEF Expired, ExpirySoon
<1> QED
  BY <1>2, <1>3, <1>4
     DEF Next, Check, Incr, CallFails, IncrRunsTwice, Crash, vars, redis, history

-----------------------------------------------------------------------------
(* Refusals *)

\* Every count of a check let one through, up to the limit.
Spent ==
    \A w \in Times \ broken : inTime[w] + late[w] >= count[w] \/ inTime[w] + late[w] >= Max

LEMMA InitSpent == Init => Spent
BY DEF Init, Spent

LEMMA NextSpent == TypeOK /\ Spent /\ [Next]_vars => Spent'
<1> SUFFICES ASSUME TypeOK, Spent, [Next]_vars, NEW w \in Times, w \notin broken'
             PROVE  inTime'[w] + late'[w] >= count'[w] \/ inTime'[w] + late'[w] >= Max
  BY DEF Spent
<1> DEFINE Goal == inTime'[w] + late'[w] >= count'[w] \/ inTime'[w] + late'[w] >= Max
<1>1. count[w] \in Nat /\ inTime[w] \in Nat /\ late[w] \in Nat
  BY DEF TypeOK
<1>2. ASSUME NEW c \in Callers, Incr(c) PROVE Goal
  <2>1. w \notin broken
    BY <1>2 DEF Incr
  <2>2. CASE w # WindowOf(c)
    <3>1. UNCHANGED <<count[w], inTime[w], late[w]>>
      BY <1>2, <2>2, CallTyped DEF Incr, Grant, TypeOK
    <3> QED
      BY <2>1, <3>1 DEF Spent
  <2>3. CASE w = WindowOf(c)
    <3>1. count'[w] = count[w] + 1
      BY <1>2, <2>3 DEF Incr, TypeOK
    <3>2. CASE count[w] + 1 <= Max
      <4>1. inTime'[w] + late'[w] = inTime[w] + late[w] + 1
        BY <1>1, <1>2, <2>3, <3>2 DEF Incr, Grant, Allowed, TypeOK
      <4> QED
        BY <1>1, <2>1, <3>1, <4>1 DEF Spent
    <3>3. CASE ~(count[w] + 1 <= Max)
      <4>1. inTime' = inTime /\ late' = late
        BY <1>2, <2>3, <3>3 DEF Incr, Allowed
      <4> QED
        BY <1>1, <2>1, <3>3, <4>1 DEF Spent
    <3> QED
      BY <3>2, <3>3
  <2> QED
    BY <2>2, <2>3
<1>3. ASSUME NEW c \in Callers, IncrRunsTwice(c) PROVE Goal
  <2>1. w \notin broken /\ w # WindowOf(c)
    BY <1>3 DEF IncrRunsTwice
  <2>2. UNCHANGED <<count[w], inTime, late>>
    BY <1>3, <2>1 DEF IncrRunsTwice, TypeOK
  <2> QED
    BY <2>1, <2>2 DEF Spent
<1>4. ASSUME Tick PROVE Goal
  <2>1. w \notin broken /\ UNCHANGED <<inTime, late>> /\ count'[w] \in {0, count[w]}
    BY <1>4 DEF Tick, history
  <2> QED
    BY <1>1, <2>1 DEF Spent
<1>5. ASSUME NEW c \in Callers, Check(c) \/ Expire(c) \/ CallFails(c) PROVE Goal
  BY <1>5 DEF Check, Expire, CallFails, redis, history, Spent
<1>6. ASSUME Crash \/ UNCHANGED vars PROVE Goal
  BY <1>6 DEF Crash, vars, redis, history, Spent
<1> QED
  BY <1>2, <1>3, <1>4, <1>5, <1>6 DEF Next

-----------------------------------------------------------------------------
(* Results *)

\* Counters, expiries and checks keep their types.
THEOREM TypeSafety == Spec => []TypeOK
BY InitType, NextType, PTL DEF Spec

\* Counting in time never lets more than the limit through.
THEOREM LimitSafety == Spec => []LimitHolds
<1>1. Inv => LimitHolds
  BY DEF Inv, Timely, LimitHolds
<1> QED
  BY <1>1, InvHolds, PTL

\* Counting late at most doubles the limit.
THEOREM LateSafety == Spec => []LateAtMostTwice
<1>1. Inv => LateAtMostTwice
  BY DEF Inv, TypeOK, Generations, FirstKey, SecondKey, LastKey, LateAtMostTwice
<1> QED
  BY <1>1, InvHolds, PTL

\* Nobody is refused (redis.module.ts:181) in a window before the limit is used up in it.
THEOREM RefusalSafety == Spec => []RefusesOnlyAtLimit
<1>1. TypeOK /\ Spent => RefusesOnlyAtLimit
  BY DEF TypeOK, Spent, RefusesOnlyAtLimit
<1> QED
  BY <1>1, InitType, NextType, InitSpent, NextSpent, PTL DEF Spec

\* Every counter of a window without lost or repeated commands expires.
THEOREM ExpirySafety == Spec => []CountersExpire
BY InitType, NextType, InitExpire, NextExpire, PTL DEF Spec

\* No counter outlives its window by more than another window and the longest delay,
\* although each late INCR makes the key anew and each late EXPIRE prolongs it.
THEOREM RemovalSafety == Spec => []KeysAreRemoved
<1>1. TypeOK /\ ChecksAreRecent /\ ExpirySoon /\ CountersExpire => KeysAreRemoved
  <2> SUFFICES ASSUME TypeOK, ChecksAreRecent, ExpirySoon, CountersExpire,
                      NEW w \in Times \ broken, count[w] # 0
               PROVE  now < LastCommand(w) + Window
    BY DEF KeysAreRemoved
  <2>1. now \in Nat /\ LastCommand(w) \in Int
    BY DEF TypeOK, Times, LastCommand, End
  <2>2. CASE expireAt[w] # None
    <3>1. expireAt[w] \in Nat
      BY <2>2 DEF TypeOK
    <3> QED
      BY <2>1, <2>2, <3>1 DEF ExpirySoon
  <2>3. CASE AboutToExpire(w)
    <3>1. now <= LastCommand(w)
      BY <2>3, RunsBeforeLast DEF AboutToExpire, At, Busy
    <3> QED
      BY <2>1, <3>1
  <2> QED
    BY <2>2, <2>3 DEF CountersExpire
<1>2. Inv => TypeOK /\ ChecksAreRecent
  BY DEF Inv
<1> QED
  BY <1>1, <1>2, InvHolds, InitSoon, NextSoon, InitExpire, NextExpire, PTL DEF Spec
=============================================================================
