----------------------------- MODULE RateLimiter -----------------------------
(* The inbound rate limiter (crates/api-server/src/ratelimit.rs): a token   *)
(* bucket per address behind a mutex, requests served by several threads,   *)
(* and the collection of idle buckets.  Tokens are counted in sixtieths, so *)
(* that rpm / 60 tokens a second are RPM units a second; the f64 arithmetic *)
(* of the code is taken as exact.                                           *)
EXTENDS ServerTime

CONSTANTS
    Addresses,    \* what client_ip can return
    Threads,      \* workers that run the middleware at the same time
    rpm, burst,   \* the two numbers of the configuration
    IDLE_TTL,     \* age at which an idle bucket may be collected
    GC_INTERVAL,  \* time between two collections
    NoBucket, NoAddress

\* RateLimitConfig::new
RPM   == Larger(rpm, 1)
BURST == Larger(burst, 1)

Token == 60
Full  == BURST * Token

ASSUME LimiterAssumption ==
    /\ rpm \in Nat /\ burst \in Nat
    /\ IDLE_TTL \in Nat \ {0} /\ GC_INTERVAL \in Nat
    /\ NoBucket \notin [tokens : Int, last_refill : Int]
    /\ NoAddress \notin Addresses

\* An idle bucket has refilled when it is collected.  The defaults (60 a minute
\* with a burst of 20, 5 with 2, ten idle minutes) satisfy this; an environment
\* with a burst above ten times the rpm would not.
ASSUME BurstRefillsAssumption == Full <= RPM * IDLE_TTL

VARIABLES
    buckets,    \* the map; NoBucket where there is no entry
    last_gc,    \* when the last collection began
    worker,     \* a thread's request: its address, the now it read, where it is
    allowance,  \* history: what the limit still grants an address, see WithinRate
    promise     \* history: when the last refusal told the address to come back

limiterVars == <<clock, buckets, last_gc, worker, allowance, promise>>

Idle == [at |-> "idle", ip |-> NoAddress, now |-> 0, verdict |-> "none"]
Bucket == [tokens : 0..Full, last_refill : 0..MaxTime]

LimiterTypeOK ==
    /\ clock \in 0..MaxTime
    /\ buckets \in [Addresses -> Bucket \cup {NoBucket}]
    /\ last_gc \in 0..clock
    /\ worker \in [Threads ->
         [at : {"idle", "check", "gc", "collect"}, ip : Addresses \cup {NoAddress},
          now : 0..clock, verdict : {"none", "ok", "429"}]]
    /\ \A t \in Threads : worker[t].at = "check" => worker[t].ip \in Addresses
    /\ \A a \in Addresses :
         buckets[a] # NoBucket => buckets[a].last_refill <= clock
    /\ allowance \in [Addresses -> Int]
    /\ promise \in [Addresses -> Int]

LimiterInit ==
    /\ clock = 0
    /\ buckets = [a \in Addresses |-> NoBucket]
    /\ last_gc = 0
    /\ worker = [t \in Threads |-> Idle]
    /\ allowance = [a \in Addresses |-> Full]
    /\ promise = [a \in Addresses |-> -1]

-----------------------------------------------------------------------------
(* check: the clock is read before the lock is taken.                      *)

Arrives(t, a) ==
    /\ worker[t].at = "idle"
    /\ worker' = [worker EXCEPT ![t] =
         [at |-> "check", ip |-> a, now |-> clock, verdict |-> "none"]]
    /\ UNCHANGED <<clock, buckets, last_gc, allowance, promise>>

\* Slip: the refill is not cut at the burst.
RefilledUncut(a, now) ==
    IF buckets[a] = NoBucket
      THEN Full
      ELSE buckets[a].tokens + Elapsed(now, buckets[a].last_refill) * RPM

\* The bucket of a after its refill at now; a new one starts full.
Refilled(a, now) ==
    IF buckets[a] = NoBucket
      THEN Full
      ELSE Smaller(Full, buckets[a].tokens + Elapsed(now, buckets[a].last_refill) * RPM)

\* Slip: the wait is rounded down.
RetryAfterFloor(tokens) == Larger((Token - tokens) \div RPM, 1)

\* Seconds until one token is there, at least one.
RetryAfter(tokens) == Larger((Token - tokens + RPM - 1) \div RPM, 1)

\* What a check adds to the allowance: the time it waited for the lock counts
\* for the client, a grant costs a token.
Allowed(a, gain) == [allowance EXCEPT ![a] = Smaller(Full, @ + gain)]

Check(t) ==
    LET a      == worker[t].ip
        now    == worker[t].now
        tokens == Refilled(a, now)
        passes == tokens >= Token
    IN  /\ worker[t].at = "check"
        /\ buckets' = [buckets EXCEPT ![a] =
             [tokens |-> IF passes THEN tokens - Token ELSE tokens, last_refill |-> now]]
        /\ worker' = [worker EXCEPT ![t].at = "gc",
                                    ![t].verdict = IF passes THEN "ok" ELSE "429"]
        /\ allowance' = Allowed(a, (clock - now) * RPM - (IF passes THEN Token ELSE 0))
        /\ promise' = [promise EXCEPT ![a] = IF passes THEN -1 ELSE now + RetryAfter(tokens)]
        /\ UNCHANGED <<clock, last_gc>>

\* maybe_gc, under the lock of last_gc: due once an interval.
MaybeGc(t) ==
    LET due == Elapsed(worker[t].now, last_gc) >= GC_INTERVAL
    IN  /\ worker[t].at = "gc"
        /\ last_gc' = IF due THEN worker[t].now ELSE last_gc
        /\ worker' = [worker EXCEPT ![t] = IF due THEN [@ EXCEPT !.at = "collect"] ELSE Idle]
        /\ UNCHANGED <<clock, buckets, allowance, promise>>

\* The test of retain.
Kept(a, now) == Elapsed(now, buckets[a].last_refill) < IDLE_TTL

\* maybe_gc, under the lock of the buckets, which others may have had meanwhile.
Collect(t) ==
    /\ worker[t].at = "collect"
    /\ buckets' = [a \in Addresses |->
         IF buckets[a] # NoBucket /\ ~Kept(a, worker[t].now) THEN NoBucket ELSE buckets[a]]
    /\ worker' = [worker EXCEPT ![t] = Idle]
    /\ UNCHANGED <<clock, last_gc, allowance, promise>>

\* A second passes.
LimiterTick ==
    /\ Tick
    /\ allowance' = [a \in Addresses |-> Smaller(Full, allowance[a] + RPM)]
    /\ UNCHANGED <<buckets, last_gc, worker, promise>>

LimiterNext ==
    \/ LimiterTick
    \/ \E t \in Threads :
         \/ \E a \in Addresses : Arrives(t, a)
         \/ Check(t) \/ MaybeGc(t) \/ Collect(t)

LimiterSpec == LimiterInit /\ [][LimiterNext]_limiterVars

-----------------------------------------------------------------------------

\* In every window of time an address is granted at most the burst, plus the
\* sustained rate over the window, plus the rate over the time its requests
\* waited for the lock (each refills from a clock read too early).  allowance is
\* the smallest such difference over all windows that end now: a window that
\* begins now grants the burst.  Buckets that are collected, threads that
\* overtake each other and clocks that seem to go back are all covered.
WithinRate == \A a \in Addresses : allowance[a] >= 0

\* A client that waits as long as Retry-After said, and sends nothing meanwhile,
\* is served (rate_limit, check).
RetryIsServed ==
    [][\A t \in Threads :
         LET a == worker[t].ip
         IN  /\ worker[t].at = "check" /\ worker'[t].at = "gc"
             /\ promise[a] >= 0 /\ worker[t].now >= promise[a]
             => worker'[t].verdict = "ok"]_limiterVars
=============================================================================
