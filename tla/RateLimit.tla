------------------------------ MODULE RateLimit ------------------------------
(***************************************************************************)
(* RateLimitService (src/src/rate-limit) on the Redis limiter it is given   *)
(* (redis.module.ts, and the same code in redis.service.ts): one counter    *)
(* per identifier and fixed window, INCR and, after the first, EXPIRE.      *)
(*                                                                         *)
(* Identifiers and categories only choose another key and another limit:    *)
(* there is one of each here.  A key names floor(now / window); here a      *)
(* window is named by the time it starts.  Time is a clock of ticks, read   *)
(* once per call: INCR may run when the window it counts in is over.        *)
(***************************************************************************)
EXTENDS Integers

CONSTANTS
    Callers,    \* slots for checks running at the same time
    Max,        \* maxRequests
    Window,     \* windowSeconds, in ticks
    MaxDelay,   \* no command waits longer than this for Redis
    MaxTime,    \* bound: the clock stops here
    MaxCalls,   \* bound: checks made
    None,       \* no expiry
    MayFail     \* commands reject or are sent twice, the process crashes

ASSUME RateLimitAssumption ==
    /\ Max \in Nat
    /\ Window \in Nat \ {0}
    /\ MaxDelay \in Nat
    /\ MaxTime \in Nat
    /\ MaxCalls \in Nat
    /\ None \notin Int
    /\ MayFail \in BOOLEAN

VARIABLES
    now,        \* the clock, Date.now()
    count,      \* the counter of each window, 0 when there is no key
    expireAt,   \* when the key of the window expires
    call,       \* the checks being made
    calls,      \* checks made so far
    inTime,     \* history: checks let through by an INCR that ran in its window
    late,       \* history: checks let through by an INCR that ran after it
    broken      \* history: windows with a command that was lost or repeated

redis == <<count, expireAt>>
history == <<inTime, late, broken>>
vars == <<now, redis, call, calls, history>>

-----------------------------------------------------------------------------

Times == 0 .. MaxTime

\* The window t falls into.
Start(t) == t - (t % Window)

End(w) == w + Window

Call == [pc: {"idle", "incr", "expire"}, at: Times]

Idle == [pc |-> "idle", at |-> 0]

Busy(c) == call[c].pc # "idle"
At(c, command) == call[c].pc = command
WindowOf(c) == Start(call[c].at)

Finish(c) == call' = [call EXCEPT ![c] = Idle]

Init ==
    /\ now = 0
    /\ count = [w \in Times |-> 0]
    /\ expireAt = [w \in Times |-> None]
    /\ call = [c \in Callers |-> Idle]
    /\ calls = 0
    /\ inTime = [w \in Times |-> 0]
    /\ late = [w \in Times |-> 0]
    /\ broken = {}

-----------------------------------------------------------------------------
(* A check *)

Check(c) ==
    /\ ~Busy(c)
    /\ calls < MaxCalls
    /\ calls' = calls + 1
    /\ call' = [call EXCEPT ![c] = [pc |-> "incr", at |-> now]]
    /\ UNCHANGED <<now, redis, history>>

AllowedBug(n) == n <= Max + 1

AllowedStrictBug(n) == n < Max

Allowed(n) == n <= Max

FirstBug(n) == n = 0

FirstRefusedBug(n) == n = Max + 1

First(n) == n = 1

\* One more check let through, by an INCR in its window or after it.
Grant(w) ==
    IF now < End(w) THEN /\ inTime' = [inTime EXCEPT ![w] = @ + 1]
                         /\ UNCHANGED late
                    ELSE /\ late' = [late EXCEPT ![w] = @ + 1]
                         /\ UNCHANGED inTime

\* INCR answers the new value; who gets 1 sets the expiry.
Incr(c) ==
    /\ At(c, "incr")
    /\ LET w == WindowOf(c)
           n == count[w] + 1 IN
       /\ count' = [count EXCEPT ![w] = n]
       /\ IF Allowed(n) THEN Grant(w) ELSE UNCHANGED <<inTime, late>>
       /\ IF First(n) THEN call' = [call EXCEPT ![c].pc = "expire"] ELSE Finish(c)
    /\ UNCHANGED <<now, expireAt, calls, broken>>

ExpireTimeBug(c) == End(WindowOf(c)) - 1

ExpireTime(c) == now + Window

\* EXPIRE does nothing to a key that is not there.
Expire(c) ==
    /\ At(c, "expire")
    /\ expireAt' = IF count[WindowOf(c)] = 0 THEN expireAt
                   ELSE [expireAt EXCEPT ![WindowOf(c)] = ExpireTime(c)]
    /\ Finish(c)
    /\ UNCHANGED <<now, count, calls, history>>

-----------------------------------------------------------------------------
(* Time *)

Expired(w) == expireAt[w] # None /\ expireAt[w] <= now + 1

\* A tick removes the keys whose time has come.
Tick ==
    /\ now < MaxTime
    /\ \A c \in Callers : Busy(c) => now + 1 - call[c].at <= MaxDelay
    /\ now' = now + 1
    /\ count' = [w \in Times |-> IF Expired(w) THEN 0 ELSE count[w]]
    /\ expireAt' = [w \in Times |-> IF Expired(w) THEN None ELSE expireAt[w]]
    /\ UNCHANGED <<call, calls, history>>

-----------------------------------------------------------------------------
(* Faults *)

CallFailsBug(c) ==
    /\ MayFail /\ Busy(c)
    /\ Finish(c)
    /\ count' = [count EXCEPT ![WindowOf(c)] = @ - 1]
    /\ broken' = broken \cup {WindowOf(c)}
    /\ UNCHANGED <<now, expireAt, calls, inTime, late>>

\* A command is rejected.  RedisService lets the request pass then, uncounted; the
\* limiter RateLimitService is given throws.
CallFails(c) ==
    /\ MayFail /\ Busy(c)
    /\ Finish(c)
    /\ broken' = broken \cup {WindowOf(c)}
    /\ UNCHANGED <<now, redis, calls, inTime, late>>

\* INCR runs, the connection breaks, and ioredis sends it again.
IncrRunsTwice(c) ==
    /\ MayFail /\ At(c, "incr")
    /\ count[WindowOf(c)] < MaxCalls
    /\ count' = [count EXCEPT ![WindowOf(c)] = @ + 1]
    /\ broken' = broken \cup {WindowOf(c)}
    /\ UNCHANGED <<now, expireAt, call, calls, inTime, late>>

Crash ==
    /\ MayFail
    /\ \E c \in Callers : Busy(c)
    /\ broken' = broken \cup {WindowOf(c) : c \in {b \in Callers : Busy(b)}}
    /\ call' = [c \in Callers |-> Idle]
    /\ UNCHANGED <<now, redis, calls, inTime, late>>

-----------------------------------------------------------------------------

Next ==
    \/ \E c \in Callers : Check(c) \/ Incr(c) \/ Expire(c) \/ CallFails(c) \/ IncrRunsTwice(c)
    \/ Tick
    \/ Crash

Spec == Init /\ [][Next]_vars

-----------------------------------------------------------------------------
(* Safety *)

\* Counters, expiries and checks have their types.
TypeOK ==
    /\ now \in Times
    /\ count \in [Times -> Nat]
    /\ expireAt \in [Times -> Nat \cup {None}]
    /\ call \in [Callers -> Call]
    /\ calls \in Nat
    /\ inTime \in [Times -> Nat]
    /\ late \in [Times -> Nat]
    /\ broken \subseteq Times

\* No more than the limit is let through by counting in a window while it lasts: the
\* key cannot expire before, whoever sets the expiry, and whatever fails.
LimitHolds == \A w \in Times : inTime[w] <= Max

\* A check that read the clock in a window and counts after its end may find the key
\* gone and start again from 1.  That happens once at most, as long as no command
\* waits for longer than a window.
LateAtMostTwice == MaxDelay <= Window => \A w \in Times : inTime[w] + late[w] <= 2 * Max

\* Nobody is refused before the limit is used up: a counter above the limit has let as
\* many checks through, unless a command was repeated and counted a check twice.
RefusesOnlyAtLimit ==
    \A w \in Times \ broken : count[w] > Max => inTime[w] + late[w] >= Max

AboutToExpire(w) == \E c \in Callers : At(c, "expire") /\ WindowOf(c) = w

\* A counter is going to expire, or the check that got 1 is about to see to it; only a
\* lost or repeated command leaves one for good.
CountersExpire ==
    \A w \in Times \ broken : count[w] # 0 => expireAt[w] # None \/ AboutToExpire(w)

\* The last moment at which a command of a check in window w can run.
LastCommand(w) == End(w) - 1 + MaxDelay

\* No counter outlives its window by more than another window and the longest delay,
\* whichever checks set the expiry, set it again or count anew after it: a later window
\* never finds a store full of old keys, unless a command was lost or repeated.
KeysAreRemoved ==
    \A w \in Times \ broken : count[w] # 0 => now < LastCommand(w) + Window
=============================================================================
