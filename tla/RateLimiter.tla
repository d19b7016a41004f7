----------------------------- MODULE RateLimiter ------------------------------
(***************************************************************************)
(* The rate limiter (internal/cache/ratelimit.go): one Redis counter per   *)
(* limiter key, incremented and given its TTL by one Lua script, so that   *)
(* the processes that share the Redis agree.  Both middlewares            *)
(* (middleware/helpers.go, ratelimit_provider.go) call Allow the same way: *)
(* a request passes when the count is within the limit, or when Redis      *)
(* does not answer.                                                        *)
(*                                                                         *)
(* A counter above its limit is as good as any other above it, so counting *)
(* stops one above.  passed and recent are history: nothing in the code    *)
(* reads them.                                                             *)
(***************************************************************************)
EXTENDS Integers, FiniteSetsExt

CONSTANTS
    Ids,        \* limiter keys
    Limit,      \* events a key may have in a window
    Window,     \* the TTL of a counter, in ticks
    RedisFails  \* whether a call of the script may fail

ASSUME LimiterAssumption ==
    /\ Limit \in [Ids -> Nat \ {0}]
    /\ Window \in Nat \ {0}
    /\ RedisFails \in BOOLEAN

VARIABLES
    counter,    \* Redis keys rl:<id>: the count and the ticks left; count 0 without one
    passed,     \* events a counter has let pass
    recent      \* events let pass in each of the last Window ticks

limiterVars == <<counter, passed, recent>>

NoCounter == [count |-> 0, left |-> 0]

-----------------------------------------------------------------------------

\* A counter after INCR.
Incremented(c, i) == IF c.count > Limit[i] THEN c.count ELSE c.count + 1

ScriptRenewing(c, i) == [count |-> Incremented(c, i), left |-> Window]

ScriptWithoutTTL(c, i) == [count |-> Incremented(c, i), left |-> c.left]

\* The script: INCR, and PEXPIRE on the first event of a window.
Script(c, i) ==
    [count |-> Incremented(c, i), left |-> IF c.count = 0 THEN Window ELSE c.left]

AllowedOffByOne(i) == counter'[i].count <= Limit[i] + 1

\* Allow, on what the script returned.
Allowed(i) == counter'[i].count <= Limit[i]

Count(i) == counter' = [counter EXCEPT ![i] = Script(@, i)]

\* The Retry-After header, in seconds, for a counter that lives ms longer:
\* Duration.Round takes halves up, and 0 becomes 1.
RetryAfter(ms) == IF (ms + 500) \div 1000 > 0 THEN (ms + 500) \div 1000 ELSE 1

Pass(i) ==
    /\ Count(i) /\ Allowed(i)
    /\ passed' = [passed EXCEPT ![i] = @ + 1]
    /\ recent' = [recent EXCEPT ![i][1] = @ + 1]

Refuse(i) ==
    /\ Count(i) /\ ~Allowed(i)
    /\ UNCHANGED <<passed, recent>>

\* Redis fails, or answers after the time-out; the script may have run.
FailOpen(i) ==
    /\ RedisFails
    /\ Count(i) \/ UNCHANGED counter
    /\ UNCHANGED <<passed, recent>>

\* Redis counts down and drops the keys whose time is over.
Aged(c) == IF c.left = 1 THEN NoCounter
           ELSE [c EXCEPT !.left = IF @ > 0 THEN @ - 1 ELSE 0]

LimiterTick ==
    /\ counter' = [i \in Ids |-> Aged(counter[i])]
    /\ passed' = [i \in Ids |-> IF counter'[i].count = 0 THEN 0 ELSE passed[i]]
    /\ recent' = [i \in Ids |-> [t \in 1 .. Window |-> IF t = 1 THEN 0 ELSE recent[i][t - 1]]]

-----------------------------------------------------------------------------

LimiterInit ==
    /\ counter = [i \in Ids |-> NoCounter]
    /\ passed = [i \in Ids |-> 0]
    /\ recent = [i \in Ids |-> [t \in 1 .. Window |-> 0]]

LimiterNext ==
    \/ \E i \in Ids : Pass(i) \/ Refuse(i) \/ FailOpen(i)
    \/ LimiterTick

LimiterSpec == LimiterInit /\ [][LimiterNext]_limiterVars

-----------------------------------------------------------------------------

\* A counter exists with a TTL or not at all; counts and history are numbers.
LimiterTypeOK ==
    /\ counter \in [Ids -> [count : Nat, left : 0 .. Window]]
    /\ \A i \in Ids : /\ counter[i].count <= Limit[i] + 1
                      /\ counter[i].count > 0 <=> counter[i].left > 0
    /\ passed \in [Ids -> Nat]
    /\ recent \in [Ids -> [1 .. Window -> Nat]]

\* Allow (ratelimit.go:44): a counter lets at most Limit events pass in its
\* life, whoever asks and however often Redis fails on the way.
LimitPerWindow == \A i \in Ids : passed[i] <= counter[i].count /\ passed[i] <= Limit[i]

\* The windows are fixed, each from its first event: any stretch of time as
\* long as a window touches two of them at most, so that twice the limit is
\* the most Redis lets pass in it.
TwiceTheLimit ==
    \A i \in Ids : SumFunctionOnSet(recent[i], 1 .. Window) <= 2 * Limit[i]

\* Nobody is refused for ever, not even a client that goes on asking: a
\* counter keeps the TTL of its first event (ratelimit.go:61).
RefusalsEnd == \A i \in Ids : counter[i].count > Limit[i] ~> counter[i].count = 0
=============================================================================
