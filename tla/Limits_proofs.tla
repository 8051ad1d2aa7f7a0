---------------------------- MODULE Limits_proofs ----------------------------
(* What the API server keeps within limits: the requests it admits and the   *)
(* buckets it remembers (RateLimiter), the calls to a node under way and      *)
(* their attempts (NodeCalls), the age of a price or a balance that it shows  *)
(* (PriceCache, Portfolio).  Every set of addresses, threads, calls, ids,     *)
(* callers and accounts, every number of permits and retries, every time to   *)
(* live and timeout.                                                         *)
EXTENDS RateLimiter, NodeCalls, PriceCache, Portfolio, SequenceTheorems, FiniteSetTheorems, TLAPS

-----------------------------------------------------------------------------
(* Arithmetic.                                                              *)

LEMMA SmallerIs ==
  ASSUME NEW x \in Int, NEW y \in Int
  PROVE  /\ Smaller(x, y) \in Int
         /\ Smaller(x, y) <= x /\ Smaller(x, y) <= y
         /\ Smaller(x, y) = x \/ Smaller(x, y) = y
BY DEF Smaller

LEMMA LargerIs ==
  ASSUME NEW x \in Int, NEW y \in Int
  PROVE  /\ Larger(x, y) \in Int
         /\ Larger(x, y) >= x /\ Larger(x, y) >= y
         /\ Larger(x, y) = x \/ Larger(x, y) = y
BY DEF Larger

LEMMA ProductGrows ==
  ASSUME NEW x \in Int, NEW y \in Int, NEW r \in Nat, x <= y
  PROVE  x * r <= y * r /\ x * r \in Int /\ y * r \in Int
<1>1. (y - x) * r >= 0
  OBVIOUS
<1>2. (y - x) * r = y * r - x * r
  OBVIOUS
<1> QED BY <1>1, <1>2

LEMMA ProductAdds ==
  ASSUME NEW x \in Int, NEW y \in Int, NEW r \in Nat
  PROVE  (x + y) * r = x * r + y * r
OBVIOUS

\* Dividing and rounding up loses nothing.
LEMMA CeilingCovers ==
  ASSUME NEW n \in Nat, NEW r \in Nat \ {0}
  PROVE  /\ (n + r - 1) \div r \in Int
         /\ ((n + r - 1) \div r) * r >= n
OBVIOUS

LEMMA ConfigurationTypes ==
  /\ RPM \in Nat \ {0} /\ BURST \in Nat \ {0} /\ Full \in Nat
  /\ Token <= Full /\ Token \in Nat
  /\ MaxTime \in Nat /\ IDLE_TTL \in Nat \ {0} /\ GC_INTERVAL \in Nat
BY LimiterAssumption, TimeAssumption DEF RPM, BURST, Full, Token, Larger

-----------------------------------------------------------------------------
(* Types.                                                                   *)

LEMMA RefilledType ==
  ASSUME NEW a \in Addresses, NEW now \in Int,
         buckets \in [Addresses -> Bucket \cup {NoBucket}]
  PROVE  Refilled(a, now) \in 0..Full
<1>1. CASE buckets[a] = NoBucket
  BY <1>1, ConfigurationTypes DEF Refilled
<1>2. CASE buckets[a] # NoBucket
  <2>1. buckets[a] \in Bucket
    BY <1>2
  <2>2. buckets[a].tokens \in 0..Full /\ buckets[a].last_refill \in Int
    BY <2>1, ConfigurationTypes DEF Bucket
  <2> DEFINE e == Elapsed(now, buckets[a].last_refill)
  <2>3. e \in Nat
    BY <2>2 DEF Elapsed, Larger
  <2>4. e * RPM \in Nat
    <3> HIDE DEF e
    <3> QED BY <2>3, ConfigurationTypes
  <2>5. Refilled(a, now) = Smaller(Full, buckets[a].tokens + e * RPM)
    BY <1>2 DEF Refilled
  <2> HIDE DEF e
  <2> QED BY <2>2, <2>4, <2>5, ConfigurationTypes DEF Smaller
<1> QED BY <1>1, <1>2

\* The wait that a refusal announces brings at least one token.
LEMMA RetryAfterType ==
  ASSUME NEW tokens \in Nat, tokens < Token
  PROVE  /\ RetryAfter(tokens) \in Nat
         /\ tokens + RetryAfter(tokens) * RPM >= Token
<1> DEFINE wait == (Token - tokens + RPM - 1) \div RPM
<1>1. Token - tokens \in Nat
  BY ConfigurationTypes
<1>2. wait \in Int /\ wait * RPM >= Token - tokens
  BY <1>1, ConfigurationTypes, CeilingCovers
<1>3. RetryAfter(tokens) = Larger(wait, 1)
  BY DEF RetryAfter
<1> HIDE DEF wait
<1>4. /\ RetryAfter(tokens) \in Int
      /\ RetryAfter(tokens) >= wait /\ RetryAfter(tokens) >= 1
  BY <1>2, <1>3, LargerIs
<1>5. RetryAfter(tokens) * RPM >= wait * RPM /\ RetryAfter(tokens) * RPM \in Int
  BY <1>2, <1>4, ProductGrows, ConfigurationTypes
<1>6. wait * RPM \in Int
  BY <1>2, ConfigurationTypes
<1> QED BY <1>1, <1>2, <1>4, <1>5, <1>6, ConfigurationTypes

LEMMA BucketsAreNotNone == NoBucket \notin Bucket
<1>1. Bucket \subseteq [tokens : Int, last_refill : Int]
  BY ConfigurationTypes DEF Bucket
<1> QED BY <1>1, LimiterAssumption

LEMMA InitTypes == LimiterInit => LimiterTypeOK
BY LimiterAssumption, ConfigurationTypes DEF LimiterInit, LimiterTypeOK, Idle

LEMMA StepTypes == LimiterTypeOK /\ [LimiterNext]_limiterVars => LimiterTypeOK'
<1> SUFFICES ASSUME LimiterTypeOK, [LimiterNext]_limiterVars PROVE LimiterTypeOK'
  OBVIOUS
<1> USE ConfigurationTypes
<1>0. clock \in 0..MaxTime /\ last_gc \in 0..clock
  BY DEF LimiterTypeOK
<1>1. CASE LimiterTick
  <2>1. clock' = clock + 1 /\ clock' \in 0..MaxTime
    BY <1>0, <1>1 DEF LimiterTick, Tick
  <2>2. worker' = worker /\ last_gc' = last_gc /\ buckets' = buckets /\ promise' = promise
    BY <1>1 DEF LimiterTick
  <2>3. 0..clock \subseteq 0..clock'
    BY <1>0, <2>1
  <2>4. allowance' \in [Addresses -> Int]
    <3>1. ASSUME NEW a \in Addresses PROVE Smaller(Full, allowance[a] + RPM) \in Int
      BY SmallerIs DEF LimiterTypeOK
    <3> QED BY <1>1, <3>1 DEF LimiterTick
  <2>5. \A a \in Addresses : buckets'[a] # NoBucket => buckets'[a].last_refill <= clock'
    BY <1>0, <2>1, <2>2 DEF LimiterTypeOK, Bucket
  <2>6. worker' \in [Threads ->
          [at : {"idle", "check", "gc", "collect"}, ip : Addresses \cup {NoAddress},
           now : 0..clock', verdict : {"none", "ok", "429"}]]
    <3>1. \A t \in Threads : worker[t] \in
            [at : {"idle", "check", "gc", "collect"}, ip : Addresses \cup {NoAddress},
             now : 0..clock', verdict : {"none", "ok", "429"}]
      BY <2>3 DEF LimiterTypeOK
    <3> QED BY <3>1, <2>2 DEF LimiterTypeOK
  <2> QED BY <1>0, <2>1, <2>2, <2>3, <2>4, <2>5, <2>6 DEF LimiterTypeOK
<1>2. ASSUME NEW t \in Threads, NEW a \in Addresses, Arrives(t, a) PROVE LimiterTypeOK'
  <2>1. worker' \in [Threads ->
          [at : {"idle", "check", "gc", "collect"}, ip : Addresses \cup {NoAddress},
           now : 0..clock, verdict : {"none", "ok", "429"}]]
    BY <1>0, <1>2 DEF LimiterTypeOK, Arrives
  <2>2. \A u \in Threads : worker'[u].at = "check" => worker'[u].ip \in Addresses
    BY <1>2 DEF LimiterTypeOK, Arrives
  <2> QED BY <1>0, <1>2, <2>1, <2>2 DEF LimiterTypeOK, Arrives
<1>3. ASSUME NEW t \in Threads, Check(t) PROVE LimiterTypeOK'
  <2> DEFINE a == worker[t].ip
             now == worker[t].now
             tokens == Refilled(a, now)
  <2>1. a \in Addresses /\ now \in 0..clock
    BY <1>3 DEF Check, LimiterTypeOK
  <2>2. tokens \in 0..Full
    BY <2>1, <1>0, RefilledType DEF LimiterTypeOK
  <2>3. clock' = clock /\ last_gc' = last_gc
    BY <1>3 DEF Check
  <2>4. PICK left \in 0..Full :
          buckets' = [buckets EXCEPT ![a] = [tokens |-> left, last_refill |-> now]]
    <3>1. tokens >= Token => tokens - Token \in 0..Full
      BY <2>2
    <3> QED BY <1>3, <2>2, <3>1 DEF Check
  <2>5. buckets' \in [Addresses -> Bucket \cup {NoBucket}]
    BY <1>0, <2>1, <2>4 DEF LimiterTypeOK, Bucket
  <2>6. \A b \in Addresses : buckets'[b] # NoBucket => buckets'[b].last_refill <= clock'
    BY <1>0, <2>1, <2>3, <2>4 DEF LimiterTypeOK
  <2>7. PICK v \in {"ok", "429"} :
          worker' = [worker EXCEPT ![t] = [@ EXCEPT !.at = "gc", !.verdict = v]]
    <3> DEFINE v == IF tokens >= Token THEN "ok" ELSE "429"
    <3>1. worker' = [worker EXCEPT ![t].at = "gc", ![t].verdict = v]
      BY <1>3 DEF Check
    <3>2. v \in {"ok", "429"}
      OBVIOUS
    <3> HIDE DEF tokens, v
    <3>3. worker' = [worker EXCEPT ![t] = [@ EXCEPT !.at = "gc", !.verdict = v]]
      BY <3>1 DEF LimiterTypeOK
    <3> QED BY <3>2, <3>3
  <2>8. worker' \in [Threads ->
          [at : {"idle", "check", "gc", "collect"}, ip : Addresses \cup {NoAddress},
           now : 0..clock, verdict : {"none", "ok", "429"}]]
    <3> DEFINE Jobs == [at : {"idle", "check", "gc", "collect"},
                        ip : Addresses \cup {NoAddress},
                        now : 0..clock, verdict : {"none", "ok", "429"}]
    <3>1. worker \in [Threads -> Jobs]
      BY DEF LimiterTypeOK
    <3>2. [worker[t] EXCEPT !.at = "gc", !.verdict = v] \in Jobs
      BY <3>1
    <3> HIDE DEF Jobs
    <3>3. worker' \in [Threads -> Jobs]
      BY <2>7, <3>1, <3>2
    <3> QED BY <3>3 DEF Jobs
  <2>9. \A u \in Threads : worker'[u].at = "check" => worker'[u].ip \in Addresses
    BY <2>7 DEF LimiterTypeOK
  <2> HIDE DEF tokens
  <2>10. allowance' \in [Addresses -> Int]
    <3> DEFINE gain == (clock - now) * RPM - (IF tokens >= Token THEN Token ELSE 0)
    <3>1. gain \in Int
      <4>1. (clock - now) * RPM \in Int
        BY <1>0, <2>1
      <4> QED BY <4>1
    <3>2. allowance' = Allowed(a, gain)
      BY <1>3 DEF Check, tokens
    <3> HIDE DEF gain
    <3>4. allowance[a] + gain \in Int
      BY <2>1, <3>1 DEF LimiterTypeOK
    <3>3. Smaller(Full, allowance[a] + gain) \in Int
      BY <3>4 DEF Smaller
    <3> QED BY <2>1, <3>2, <3>3 DEF LimiterTypeOK, Allowed
  <2>11. promise' \in [Addresses -> Int]
    <3>1. ASSUME tokens < Token PROVE RetryAfter(tokens) \in Int
      BY <2>2, <3>1, RetryAfterType
    <3>2. promise' = [promise EXCEPT ![a] =
                        IF tokens >= Token THEN -1 ELSE now + RetryAfter(tokens)]
      BY <1>3 DEF Check, tokens
    <3>3. (IF tokens >= Token THEN -1 ELSE now + RetryAfter(tokens)) \in Int
      BY <1>0, <2>1, <2>2, <3>1
    <3> QED BY <2>1, <3>2, <3>3 DEF LimiterTypeOK
  <2> HIDE DEF a, now, tokens
  <2> QED BY <1>0, <2>3, <2>5, <2>6, <2>8, <2>9, <2>10, <2>11 DEF LimiterTypeOK
<1>4. ASSUME NEW t \in Threads, MaybeGc(t) PROVE LimiterTypeOK'
  BY <1>0, <1>4, LimiterAssumption DEF LimiterTypeOK, MaybeGc, Idle
<1>5. ASSUME NEW t \in Threads, Collect(t) PROVE LimiterTypeOK'
  BY <1>0, <1>5, LimiterAssumption DEF LimiterTypeOK, Collect, Idle
<1>6. CASE UNCHANGED limiterVars
  BY <1>6 DEF LimiterTypeOK, limiterVars
<1> QED BY <1>1, <1>2, <1>3, <1>4, <1>5, <1>6 DEF LimiterNext

\* The limiter's map, its threads and its histories keep their types.
THEOREM LimiterTypes == LimiterSpec => []LimiterTypeOK
<1>1. LimiterInit => LimiterTypeOK
  BY InitTypes
<1>2. LimiterTypeOK /\ [LimiterNext]_limiterVars => LimiterTypeOK'
  BY StepTypes
<1> QED BY <1>1, <1>2, PTL DEF LimiterSpec

-----------------------------------------------------------------------------
(* The rate.  WithinRate is not inductive: it says nothing of the bucket.   *)
(* What a bucket would hold if it were refilled now never exceeds what the  *)
(* limit still grants its address.                                          *)

Held(bucket, at) ==
  IF bucket = NoBucket
    THEN Full
    ELSE Smaller(Full, bucket.tokens + (at - bucket.last_refill) * RPM)

Covered == \A a \in Addresses : Held(buckets[a], clock) <= allowance[a]

LEMMA HeldIsNotNegative ==
  ASSUME NEW b \in Bucket \cup {NoBucket}, NEW at \in Nat,
         b # NoBucket => b.last_refill <= at
  PROVE  Held(b, at) \in Nat
<1> USE ConfigurationTypes
<1>1. CASE b = NoBucket
  BY <1>1 DEF Held
<1>2. CASE b # NoBucket
  <2>1. b.tokens \in Nat /\ at - b.last_refill \in Nat
    BY <1>2 DEF Bucket
  <2> DEFINE gain == (at - b.last_refill) * RPM
  <2>2. gain \in Nat
    BY <2>1
  <2>3. Held(b, at) = Smaller(Full, b.tokens + gain)
    BY <1>2 DEF Held
  <2> HIDE DEF gain
  <2> QED BY <2>1, <2>2, <2>3 DEF Smaller
<1> QED BY <1>1, <1>2

\* A second adds no more than the rate.
LEMMA HeldGrows ==
  ASSUME NEW b \in Bucket \cup {NoBucket}, NEW at \in Nat
  PROVE  /\ Held(b, at) \in Int /\ Held(b, at + 1) \in Int
         /\ Held(b, at + 1) <= Smaller(Full, Held(b, at) + RPM)
<1> USE ConfigurationTypes
<1>1. CASE b = NoBucket
  BY <1>1 DEF Held, Smaller
<1>2. CASE b # NoBucket
  <2> DEFINE g == (at - b.last_refill) * RPM
             h == ((at + 1) - b.last_refill) * RPM
  <2>1. b.tokens \in Int /\ b.last_refill \in Int
    BY <1>2 DEF Bucket
  <2>2. h = g + RPM /\ g \in Int
    <3>1. at - b.last_refill \in Int
      BY <2>1
    <3>2. ((at - b.last_refill) + 1) * RPM = g + 1 * RPM
      BY <3>1, ProductAdds
    <3>3. (at + 1) - b.last_refill = (at - b.last_refill) + 1
      BY <2>1
    <3>4. g \in Int /\ 1 * RPM = RPM
      BY <3>1
    <3> QED BY <3>2, <3>3, <3>4
  <2>3. Held(b, at) = Smaller(Full, b.tokens + g)
    BY <1>2 DEF Held
  <2>4. Held(b, at + 1) = Smaller(Full, b.tokens + h)
    BY <1>2 DEF Held
  <2> HIDE DEF g, h
  <2> QED BY <2>1, <2>2, <2>3, <2>4 DEF Smaller
<1> QED BY <1>1, <1>2

\* A refill is covered also when the clock it was read from lies before the
\* last refill.
LEMMA RefillIsHeld ==
  ASSUME LimiterTypeOK, NEW a \in Addresses, NEW now \in 0..clock
  PROVE  Refilled(a, now) \in 0..Full /\ Refilled(a, now) <= Held(buckets[a], clock)
<1> USE ConfigurationTypes
<1>0. clock \in Nat /\ now \in Nat /\ buckets[a] \in Bucket \cup {NoBucket}
  BY DEF LimiterTypeOK
<1>1. Refilled(a, now) \in 0..Full
  BY <1>0, RefilledType DEF LimiterTypeOK
<1>2. CASE buckets[a] = NoBucket
  BY <1>1, <1>2 DEF Refilled, Held
<1>3. CASE buckets[a] # NoBucket
  <2> DEFINE lr == buckets[a].last_refill
             T  == buckets[a].tokens
             e  == Elapsed(now, lr)
  <2>1. lr \in Nat /\ T \in Nat /\ lr <= clock
    BY <1>0, <1>3 DEF LimiterTypeOK, Bucket
  <2>2. e \in Int /\ e <= clock - lr /\ clock - lr \in Int
    BY <1>0, <2>1 DEF Elapsed, Larger
  <2>3. e * RPM <= (clock - lr) * RPM /\ e * RPM \in Int /\ (clock - lr) * RPM \in Int
    <3> HIDE DEF e, lr
    <3> QED BY <2>2, ProductGrows
  <2>4. Refilled(a, now) = Smaller(Full, T + e * RPM)
    BY <1>3 DEF Refilled
  <2>5. Held(buckets[a], clock) = Smaller(Full, T + (clock - lr) * RPM)
    BY <1>3 DEF Held
  <2> HIDE DEF lr, T, e
  <2> QED BY <1>1, <2>1, <2>3, <2>4, <2>5 DEF Smaller
<1> QED BY <1>2, <1>3

\* A bucket old enough to be collected would be full again.
LEMMA OldIsFull ==
  ASSUME NEW b \in Bucket, NEW at \in Nat, at - b.last_refill >= IDLE_TTL
  PROVE  Held(b, at) = Full
<1> USE ConfigurationTypes
<1> DEFINE e == at - b.last_refill
<1>1. b.tokens \in Nat /\ e \in Int /\ IDLE_TTL <= e
  BY DEF Bucket
<1>2. IDLE_TTL * RPM <= e * RPM /\ e * RPM \in Int
  <2> HIDE DEF e
  <2> QED BY <1>1, ProductGrows
<1>3. IDLE_TTL * RPM = RPM * IDLE_TTL
  OBVIOUS
<1>4. Held(b, at) = Smaller(Full, b.tokens + e * RPM)
  BY BucketsAreNotNone DEF Held
<1> HIDE DEF e
<1> QED BY <1>1, <1>2, <1>3, <1>4, BurstRefillsAssumption DEF Smaller

LEMMA CoveredIsWithinRate == LimiterTypeOK /\ Covered => WithinRate
<1> SUFFICES ASSUME LimiterTypeOK, Covered, NEW a \in Addresses PROVE allowance[a] >= 0
  BY DEF WithinRate
<1>1. clock \in Nat /\ buckets[a] \in Bucket \cup {NoBucket} /\ allowance[a] \in Int
  BY ConfigurationTypes DEF LimiterTypeOK
<1>2. Held(buckets[a], clock) \in Nat
  BY <1>1, HeldIsNotNegative DEF LimiterTypeOK
<1> QED BY <1>1, <1>2 DEF Covered

LEMMA InitCovered == LimiterInit => Covered
BY ConfigurationTypes DEF LimiterInit, Covered, Held

LEMMA TickCovers == LimiterTypeOK /\ Covered /\ LimiterTick => Covered'
<1> SUFFICES ASSUME LimiterTypeOK, Covered, LimiterTick, NEW a \in Addresses
             PROVE  Held(buckets'[a], clock') <= allowance'[a]
  BY DEF Covered
<1>1. clock' = clock + 1 /\ clock \in Nat /\ buckets' = buckets
  BY ConfigurationTypes DEF LimiterTick, Tick, LimiterTypeOK
<1>2. allowance'[a] = Smaller(Full, allowance[a] + RPM) /\ allowance[a] \in Int
  BY DEF LimiterTick, LimiterTypeOK
<1>3. Held(buckets[a], clock) <= allowance[a]
  BY DEF Covered
<1>4. buckets[a] \in Bucket \cup {NoBucket}
  BY DEF LimiterTypeOK
<1>5. /\ Held(buckets[a], clock) \in Int /\ Held(buckets[a], clock + 1) \in Int
      /\ Held(buckets[a], clock + 1) <= Smaller(Full, Held(buckets[a], clock) + RPM)
  BY <1>1, <1>4, HeldGrows
<1> QED BY <1>1, <1>2, <1>3, <1>5, ConfigurationTypes DEF Smaller

\* What a grant takes from the bucket it takes from the allowance too; a refill
\* from a clock read too early is paid for by the wait for the lock.
LEMMA GrantCovers ==
  ASSUME LimiterTypeOK, Covered,
         NEW a \in Addresses, NEW now \in 0..clock, NEW cost \in Nat,
         clock' = clock,
         buckets' = [buckets EXCEPT ![a] =
                       [tokens |-> Refilled(a, now) - cost, last_refill |-> now]],
         allowance' = [allowance EXCEPT ![a] = Smaller(Full, @ + ((clock - now) * RPM - cost))]
  PROVE  Covered'
<1> USE ConfigurationTypes
<1> DEFINE late == (clock - now) * RPM
<1>1. clock \in Nat /\ buckets \in [Addresses -> Bucket \cup {NoBucket}]
      /\ allowance \in [Addresses -> Int]
  BY DEF LimiterTypeOK
<1>2. late \in Nat
  <2>1. clock - now \in Nat
    BY <1>1
  <2> QED BY <2>1
<1>3. PICK tokens \in 0..Full :
        tokens = Refilled(a, now) /\ tokens <= Held(buckets[a], clock)
  BY RefillIsHeld
<1>4. Held(buckets[a], clock) \in Nat /\ Held(buckets[a], clock) <= allowance[a]
  <2>1. buckets[a] # NoBucket => buckets[a].last_refill <= clock
    BY DEF LimiterTypeOK
  <2> QED BY <1>1, <2>1, HeldIsNotNegative DEF Covered
<1>5. allowance'[a] = Smaller(Full, allowance[a] + (late - cost)) /\ allowance[a] \in Int
  BY <1>1
<1>6. Held(buckets'[a], clock') = Smaller(Full, (tokens - cost) + late)
  <2>1. buckets'[a] = [tokens |-> tokens - cost, last_refill |-> now]
    BY <1>1, <1>3
  <2>2. [tokens |-> tokens - cost, last_refill |-> now] # NoBucket
    BY <1>1, <1>3, LimiterAssumption
  <2> HIDE DEF late
  <2>3. /\ buckets'[a] # NoBucket
        /\ buckets'[a].tokens = tokens - cost /\ buckets'[a].last_refill = now
    BY <2>1, <2>2
  <2>4. Held(buckets'[a], clock') = Smaller(Full, buckets'[a].tokens + (clock' - buckets'[a].last_refill) * RPM)
    BY <2>3, Zenon DEF Held
  <2> QED BY <2>3, <2>4, Zenon DEF late
<1>7. Held(buckets'[a], clock') <= allowance'[a]
  <2> HIDE DEF late
  <2> QED BY <1>2, <1>3, <1>4, <1>5, <1>6 DEF Smaller
<1>8. ASSUME NEW b \in Addresses, b # a PROVE Held(buckets'[b], clock') <= allowance'[b]
  <2>1. buckets'[b] = buckets[b] /\ allowance'[b] = allowance[b]
    BY <1>1, <1>8
  <2>2. Held(buckets[b], clock) <= allowance[b]
    BY DEF Covered
  <2> HIDE DEF late
  <2> QED BY <2>1, <2>2
<1> QED BY <1>7, <1>8 DEF Covered

LEMMA CheckCovers ==
  ASSUME LimiterTypeOK, Covered, NEW t \in Threads, Check(t)
  PROVE  Covered'
<1> USE ConfigurationTypes
<1>1. PICK a \in Addresses, now \in 0..clock : a = worker[t].ip /\ now = worker[t].now
  BY DEF Check, LimiterTypeOK
<1>2. PICK tokens \in 0..Full : tokens = Refilled(a, now)
  BY <1>1, RefillIsHeld
<1> DEFINE cost == IF tokens >= Token THEN Token ELSE 0
<1>3. clock' = clock
  BY DEF Check
<1>4. buckets' = [buckets EXCEPT ![a] = [tokens |-> Refilled(a, now) - cost, last_refill |-> now]]
  <2>1. (IF tokens >= Token THEN tokens - Token ELSE tokens) = tokens - cost
    BY <1>2
  <2>2. buckets' = [buckets EXCEPT ![a] =
          [tokens |-> IF tokens >= Token THEN tokens - Token ELSE tokens, last_refill |-> now]]
    BY <1>1, <1>2 DEF Check
  <2> HIDE DEF cost
  <2> QED BY <1>2, <2>1, <2>2
<1>5. allowance' = [allowance EXCEPT ![a] = Smaller(Full, @ + ((clock - now) * RPM - cost))]
  BY <1>1, <1>2 DEF Check, Allowed
<1>6. cost \in Nat
  OBVIOUS
<1> HIDE DEF cost
<1> QED BY <1>3, <1>4, <1>5, <1>6, GrantCovers

LEMMA CollectCovers ==
  ASSUME LimiterTypeOK, Covered, NEW t \in Threads, Collect(t)
  PROVE  Covered'
<1> SUFFICES ASSUME NEW a \in Addresses PROVE Held(buckets'[a], clock') <= allowance'[a]
  BY DEF Covered
<1>1. clock' = clock /\ allowance' = allowance /\ Held(buckets[a], clock) <= allowance[a]
  BY DEF Collect, Covered
<1>2. CASE buckets'[a] = buckets[a]
  BY <1>1, <1>2
<1>3. CASE buckets'[a] # buckets[a]
  <2>1. /\ buckets'[a] = NoBucket /\ buckets[a] # NoBucket
        /\ Elapsed(worker[t].now, buckets[a].last_refill) >= IDLE_TTL
    <3>1. buckets[a] # NoBucket /\ ~Kept(a, worker[t].now) /\ buckets'[a] = NoBucket
      BY <1>3 DEF Collect
    <3>2. Elapsed(worker[t].now, buckets[a].last_refill) \in Int
      BY <3>1, ConfigurationTypes DEF LimiterTypeOK, Bucket, Elapsed, Larger
    <3> QED BY <3>1, <3>2, ConfigurationTypes DEF Kept
  <2>2. buckets[a] \in Bucket /\ clock \in Nat /\ worker[t].now \in 0..clock
    BY <2>1, ConfigurationTypes DEF LimiterTypeOK
  <2>3. clock - buckets[a].last_refill >= IDLE_TTL
    BY <2>1, <2>2, ConfigurationTypes DEF Elapsed, Larger, Bucket
  <2>4. Held(buckets[a], clock) = Full
    BY <2>2, <2>3, OldIsFull
  <2>5. Held(buckets'[a], clock') = Full
    BY <2>1 DEF Held
  <2> QED BY <1>1, <2>4, <2>5
<1> QED BY <1>2, <1>3

LEMMA StepCovers == LimiterTypeOK /\ Covered /\ [LimiterNext]_limiterVars => Covered'
<1> SUFFICES ASSUME LimiterTypeOK, Covered, [LimiterNext]_limiterVars PROVE Covered'
  OBVIOUS
<1>1. CASE LimiterTick
  BY <1>1, TickCovers
<1>2. ASSUME NEW t \in Threads, NEW a \in Addresses, Arrives(t, a) PROVE Covered'
  BY <1>2 DEF Arrives, Covered
<1>3. ASSUME NEW t \in Threads, Check(t) PROVE Covered'
  BY <1>3, CheckCovers
<1>4. ASSUME NEW t \in Threads, MaybeGc(t) PROVE Covered'
  BY <1>4 DEF MaybeGc, Covered
<1>5. ASSUME NEW t \in Threads, Collect(t) PROVE Covered'
  BY <1>5, CollectCovers
<1>6. CASE UNCHANGED limiterVars
  BY <1>6 DEF Covered, limiterVars
<1> QED BY <1>1, <1>2, <1>3, <1>4, <1>5, <1>6 DEF LimiterNext

\* No address is ever granted more than the burst and the sustained rate, for any
\* configuration whose burst refills before its bucket is collected, any number
\* of threads and any overlap of checks and collections (ratelimit.rs).
THEOREM RateCorrect == LimiterSpec => []WithinRate
<1>1. LimiterInit => LimiterTypeOK /\ Covered
  BY InitTypes, InitCovered
<1>2. LimiterTypeOK /\ Covered /\ [LimiterNext]_limiterVars => (LimiterTypeOK /\ Covered)'
  BY StepTypes, StepCovers
<1>3. LimiterTypeOK /\ Covered => WithinRate
  BY CoveredIsWithinRate
<1> QED BY <1>1, <1>2, <1>3, PTL DEF LimiterSpec

-----------------------------------------------------------------------------
(* Retry-After.  At the instant a refusal names, the bucket that was left   *)
(* behind holds a token, if it is still the same.                           *)

Due ==
  \A a \in Addresses :
    promise[a] >= 0 /\ buckets[a] # NoBucket =>
      /\ buckets[a].last_refill <= promise[a]
      /\ buckets[a].tokens + (promise[a] - buckets[a].last_refill) * RPM >= Token

LEMMA InitDue == LimiterInit => Due
BY DEF LimiterInit, Due

LEMMA CheckKeepsDue ==
  ASSUME LimiterTypeOK, Due, NEW t \in Threads, Check(t)
  PROVE  Due'
<1> USE ConfigurationTypes
<1>0. buckets \in [Addresses -> Bucket \cup {NoBucket}] /\ promise \in [Addresses -> Int]
      /\ clock \in Nat
  BY DEF LimiterTypeOK
<1>1. PICK a \in Addresses, now \in 0..clock : a = worker[t].ip /\ now = worker[t].now
  BY DEF Check, LimiterTypeOK
<1>2. PICK tokens \in 0..Full : tokens = Refilled(a, now)
  BY <1>1, RefillIsHeld
<1>3. ASSUME NEW b \in Addresses, b # a
      PROVE  promise'[b] = promise[b] /\ buckets'[b] = buckets[b]
  BY <1>0, <1>1, <1>3 DEF Check
<1>4. CASE tokens >= Token
  <2>1. promise'[a] = -1
    BY <1>0, <1>1, <1>2, <1>4 DEF Check
  <2> QED BY <1>3, <2>1 DEF Due
<1>5. CASE ~(tokens >= Token)
  <2>1. buckets'[a] = [tokens |-> tokens, last_refill |-> now]
    BY <1>0, <1>1, <1>2, <1>5 DEF Check
  <2>2. promise'[a] = now + RetryAfter(tokens)
    BY <1>0, <1>1, <1>2, <1>5 DEF Check
  <2>3. RetryAfter(tokens) \in Nat /\ tokens + RetryAfter(tokens) * RPM >= Token
    BY <1>2, <1>5, RetryAfterType
  <2>4. promise'[a] - now = RetryAfter(tokens) /\ now <= promise'[a]
    BY <1>0, <1>1, <2>2, <2>3
  <2>5. buckets'[a].tokens = tokens /\ buckets'[a].last_refill = now
    BY <2>1
  <2>6. /\ buckets'[a].last_refill <= promise'[a]
        /\ buckets'[a].tokens + (promise'[a] - buckets'[a].last_refill) * RPM >= Token
    BY <2>3, <2>4, <2>5
  <2> QED BY <1>3, <2>6 DEF Due
<1> QED BY <1>4, <1>5

LEMMA StepDue == LimiterTypeOK /\ Due /\ [LimiterNext]_limiterVars => Due'
<1> SUFFICES ASSUME LimiterTypeOK, Due, [LimiterNext]_limiterVars PROVE Due'
  OBVIOUS
<1>1. CASE LimiterTick
  BY <1>1 DEF LimiterTick, Due
<1>2. ASSUME NEW t \in Threads, NEW a \in Addresses, Arrives(t, a) PROVE Due'
  BY <1>2 DEF Arrives, Due
<1>3. ASSUME NEW t \in Threads, Check(t) PROVE Due'
  BY <1>3, CheckKeepsDue
<1>4. ASSUME NEW t \in Threads, MaybeGc(t) PROVE Due'
  BY <1>4 DEF MaybeGc, Due
<1>5. ASSUME NEW t \in Threads, Collect(t) PROVE Due'
  <2>1. promise' = promise
    BY <1>5 DEF Collect
  <2>2. \A a \in Addresses : buckets'[a] = NoBucket \/ buckets'[a] = buckets[a]
    BY <1>5 DEF Collect
  <2> QED BY <2>1, <2>2 DEF Due
<1>6. CASE UNCHANGED limiterVars
  BY <1>6 DEF Due, limiterVars
<1> QED BY <1>1, <1>2, <1>3, <1>4, <1>5, <1>6 DEF LimiterNext

\* A refill at or after the named instant brings a token.
LEMMA DueRefills ==
  ASSUME LimiterTypeOK, Due, NEW a \in Addresses, NEW now \in 0..clock,
         promise[a] >= 0, now >= promise[a]
  PROVE  Refilled(a, now) >= Token
<1> USE ConfigurationTypes
<1>1. CASE buckets[a] = NoBucket
  BY <1>1 DEF Refilled
<1>2. CASE buckets[a] # NoBucket
  <2>1. PICK T \in Nat, lr \in Nat, p \in Int :
          T = buckets[a].tokens /\ lr = buckets[a].last_refill /\ p = promise[a]
    BY <1>2 DEF LimiterTypeOK, Bucket
  <2>2. lr <= p /\ T + (p - lr) * RPM >= Token
    BY <1>2, <2>1 DEF Due
  <2>3. now \in Int /\ p <= now
    BY <2>1 DEF LimiterTypeOK
  <2>4. Elapsed(now, lr) = now - lr
    <3>1. lr <= p
      BY <2>2
    <3>2. now - lr \in Int /\ now - lr >= 0
      BY <2>3, <3>1
    <3> QED BY <3>2 DEF Elapsed, Larger
  <2> DEFINE earlier == (p - lr) * RPM
             later   == (now - lr) * RPM
  <2>5. earlier <= later /\ earlier \in Int /\ later \in Int
    <3>1. p - lr \in Int /\ now - lr \in Int /\ p - lr <= now - lr
      BY <2>1, <2>3
    <3> QED BY <3>1, ProductGrows
  <2>6. Refilled(a, now) = Smaller(Full, T + later)
    BY <1>2, <2>1, <2>4 DEF Refilled
  <2>7. T + earlier >= Token
    BY <2>2
  <2> HIDE DEF earlier, later
  <2> QED BY <2>1, <2>5, <2>6, <2>7 DEF Smaller
<1> QED BY <1>1, <1>2

LEMMA StepServes ==
  ASSUME LimiterTypeOK, Due, [LimiterNext]_limiterVars, NEW t \in Threads,
         worker[t].at = "check", worker'[t].at = "gc",
         promise[worker[t].ip] >= 0, worker[t].now >= promise[worker[t].ip]
  PROVE  worker'[t].verdict = "ok"
<1> USE DEF LimiterTypeOK
<1>1. Check(t)
  <2>1. CASE LimiterTick
    BY <2>1 DEF LimiterTick
  <2>2. ASSUME NEW u \in Threads, NEW a \in Addresses, Arrives(u, a) PROVE FALSE
    BY <2>2 DEF Arrives
  <2>3. ASSUME NEW u \in Threads, u # t, Check(u) PROVE FALSE
    BY <2>3 DEF Check
  <2>4. ASSUME NEW u \in Threads, MaybeGc(u) PROVE FALSE
    BY <2>4 DEF MaybeGc
  <2>5. ASSUME NEW u \in Threads, Collect(u) PROVE FALSE
    BY <2>5 DEF Collect
  <2>6. CASE UNCHANGED limiterVars
    BY <2>6 DEF limiterVars
  <2> QED BY <2>1, <2>2, <2>3, <2>4, <2>5, <2>6 DEF LimiterNext
<1>2. worker[t].ip \in Addresses /\ worker[t].now \in 0..clock
  OBVIOUS
<1>3. Refilled(worker[t].ip, worker[t].now) >= Token
  BY <1>2, DueRefills
<1> QED BY <1>1, <1>3 DEF Check

\* A client that comes back when Retry-After said, and not before, is served,
\* whatever other clients do and whenever buckets are collected (ratelimit.rs).
THEOREM RetryCorrect == LimiterSpec => RetryIsServed
<1>1. LimiterInit => LimiterTypeOK /\ Due
  BY InitTypes, InitDue
<1>2. LimiterTypeOK /\ Due /\ [LimiterNext]_limiterVars => (LimiterTypeOK /\ Due)'
  BY StepTypes, StepDue
<1>3. LimiterTypeOK /\ Due /\ [LimiterNext]_limiterVars =>
        [\A t \in Threads :
           LET a == worker[t].ip
           IN  /\ worker[t].at = "check" /\ worker'[t].at = "gc"
               /\ promise[a] >= 0 /\ worker[t].now >= promise[a]
               => worker'[t].verdict = "ok"]_limiterVars
  BY StepServes
<1> QED BY <1>1, <1>2, <1>3, PTL DEF LimiterSpec, RetryIsServed


-----------------------------------------------------------------------------
(* A queue that holds nobody twice.                                         *)

LEMMA NobodyIsEmpty ==
  ASSUME NEW S, NEW q \in Seq(S)
  PROVE  q = <<>> <=> ToSet(q) = {}
BY DEF ToSet

LEMMA QueueGrows ==
  ASSUME NEW S, NEW q \in Seq(S), NEW x \in S, IsInjective(q), x \notin ToSet(q)
  PROVE  /\ Append(q, x) \in Seq(S)
         /\ ToSet(Append(q, x)) = ToSet(q) \cup {x}
         /\ IsInjective(Append(q, x))
BY DEF ToSet, IsInjective

\* What is left when one place, the i-th, is taken out of a queue.
LEMMA PlaceTaken ==
  ASSUME NEW S, NEW q \in Seq(S), IsInjective(q), NEW i \in 1..Len(q),
         NEW r \in Seq(S), Len(r) = Len(q) - 1,
         \A j \in 1..Len(r) : r[j] = IF j < i THEN q[j] ELSE q[j + 1]
  PROVE  /\ ToSet(r) = ToSet(q) \ {q[i]}
         /\ IsInjective(r)
<1>0. Len(q) \in Nat /\ i \in Nat /\ DOMAIN q = 1..Len(q) /\ DOMAIN r = 1..(Len(q) - 1)
  OBVIOUS
<1>1. \A j, k \in 1..Len(q) : q[j] = q[k] => j = k
  BY <1>0 DEF IsInjective
<1>2. ASSUME NEW j \in 1..(Len(q) - 1)
      PROVE  /\ j < i => r[j] = q[j] /\ j \in 1..Len(q) /\ j # i
             /\ j >= i => r[j] = q[j + 1] /\ j + 1 \in 1..Len(q) /\ j + 1 # i
  BY <1>0
<1>3. IsInjective(r)
  <2> SUFFICES ASSUME NEW j \in 1..(Len(q) - 1), NEW k \in 1..(Len(q) - 1), r[j] = r[k]
               PROVE  j = k
    BY <1>0 DEF IsInjective
  <2>1. CASE j < i /\ k < i
    BY <1>1, <1>2, <2>1
  <2>2. CASE j < i /\ k >= i
    BY <1>0, <1>1, <1>2, <2>2
  <2>3. CASE j >= i /\ k < i
    BY <1>0, <1>1, <1>2, <2>3
  <2>4. CASE j >= i /\ k >= i
    <3>1. j + 1 = k + 1
      BY SMTT(60), <1>1, <1>2, <2>4
    <3> QED BY <3>1
  <2> QED BY <1>0, <2>1, <2>2, <2>3, <2>4
<1>4. ASSUME NEW x \in ToSet(r) PROVE x \in ToSet(q) \ {q[i]}
  <2>1. PICK j \in 1..(Len(q) - 1) : x = r[j]
    BY <1>0 DEF ToSet
  <2>2. PICK k \in 1..Len(q) : x = q[k] /\ k # i
    <3>1. CASE j < i
      BY <1>2, <2>1, <3>1
    <3>2. CASE j >= i
      BY <1>2, <2>1, <3>2
    <3> QED BY <1>0, <3>1, <3>2
  <2> QED BY <1>0, <1>1, <2>2 DEF ToSet
<1>5. ASSUME NEW x \in ToSet(q), x # q[i] PROVE x \in ToSet(r)
  <2>1. PICK k \in 1..Len(q) : x = q[k] /\ k # i
    BY <1>0, <1>5 DEF ToSet
  <2>2. CASE k < i
    <3>1. k \in 1..(Len(q) - 1) /\ r[k] = x
      BY <1>0, <1>2, <2>1, <2>2
    <3> QED BY <1>0, <3>1 DEF ToSet
  <2>3. CASE k > i
    <3>1. k - 1 \in 1..(Len(q) - 1) /\ k - 1 >= i /\ (k - 1) + 1 = k
      BY <1>0, <2>3
    <3>2. r[k - 1] = q[(k - 1) + 1]
      BY <1>2, <3>1
    <3>3. r[k - 1] = x
      BY <2>1, <3>1, <3>2
    <3> QED BY <1>0, <3>1, <3>3 DEF ToSet
  <2> QED BY <1>0, <2>1, <2>2, <2>3
<1> QED BY <1>3, <1>4, <1>5

LEMMA QueueMoves ==
  ASSUME NEW S, NEW q \in Seq(S), IsInjective(q), q # <<>>
  PROVE  /\ Head(q) \in S /\ Head(q) \in ToSet(q)
         /\ Tail(q) \in Seq(S)
         /\ ToSet(Tail(q)) = ToSet(q) \ {Head(q)}
         /\ IsInjective(Tail(q))
<1>1. /\ Head(q) \in S /\ Tail(q) \in Seq(S) /\ Len(Tail(q)) = Len(q) - 1
      /\ \A j \in 1..Len(Tail(q)) : Tail(q)[j] = q[j + 1]
  BY HeadTailProperties
<1>2. 1 \in 1..Len(q) /\ Head(q) = q[1] /\ Len(q) \in Nat
  OBVIOUS
<1>3. \A j \in 1..Len(Tail(q)) : Tail(q)[j] = IF j < 1 THEN q[j] ELSE q[j + 1]
  BY <1>1
<1>4. ToSet(Tail(q)) = ToSet(q) \ {q[1]} /\ IsInjective(Tail(q))
  BY <1>1, <1>2, <1>3, PlaceTaken
<1>5. q[1] \in ToSet(q)
  BY <1>2 DEF ToSet
<1> QED BY <1>1, <1>2, <1>4, <1>5

LEMMA QueueIsLeft ==
  ASSUME NEW S, NEW q \in Seq(S), IsInjective(q), NEW i \in DOMAIN q
  PROVE  /\ RemoveAt(q, i) \in Seq(S)
         /\ ToSet(RemoveAt(q, i)) = ToSet(q) \ {q[i]}
         /\ IsInjective(RemoveAt(q, i))
<1> DEFINE a == SubSeq(q, 1, i - 1)
           b == SubSeq(q, i + 1, Len(q))
<1>0. Len(q) \in Nat /\ i \in 1..Len(q) /\ \A j \in 1..Len(q) : q[j] \in S
  OBVIOUS
<1>1. a \in Seq(S) /\ Len(a) = i - 1 /\ \A j \in 1..(i - 1) : a[j] = q[j]
  BY <1>0, SubSeqProperties
<1>2. b \in Seq(S) /\ Len(b) = Len(q) - i /\ \A j \in 1..(Len(q) - i) : b[j] = q[i + j]
  <2>1. \A j \in (i + 1)..Len(q) : q[j] \in S
    BY <1>0
  <2>2. /\ b \in Seq(S)
        /\ Len(b) = IF i + 1 <= Len(q) THEN Len(q) - (i + 1) + 1 ELSE 0
        /\ \A j \in 1..(Len(q) - (i + 1) + 1) : b[j] = q[(i + 1) + j - 1]
    BY <1>0, <2>1, SubSeqProperties
  <2> HIDE DEF b
  <2>3. Len(b) = Len(q) - i
    BY <1>0, <2>2
  <2>4. ASSUME NEW j \in 1..(Len(q) - i) PROVE b[j] = q[i + j]
    <3>1. j \in 1..(Len(q) - (i + 1) + 1) /\ (i + 1) + j - 1 = i + j
      BY <1>0
    <3> QED BY <2>2, <3>1
  <2> QED BY <2>2, <2>3, <2>4
<1>3. RemoveAt(q, i) = a \o b
  BY DEF RemoveAt
<1> HIDE DEF a, b
<1>4. /\ a \o b \in Seq(S) /\ Len(a \o b) = Len(q) - 1
      /\ \A j \in 1..(Len(q) - 1) : (a \o b)[j] = IF j < i THEN q[j] ELSE q[j + 1]
  <2>1. /\ a \o b \in Seq(S) /\ Len(a \o b) = Len(a) + Len(b)
        /\ \A j \in 1..(Len(a) + Len(b)) :
             (a \o b)[j] = IF j <= Len(a) THEN a[j] ELSE b[j - Len(a)]
    BY <1>1, <1>2, ConcatProperties
  <2>2. Len(a) + Len(b) = Len(q) - 1
    BY <1>0, <1>1, <1>2
  <2>3. ASSUME NEW j \in 1..(Len(q) - 1), j < i PROVE (a \o b)[j] = q[j]
    <3>1. j \in 1..(i - 1) /\ j <= Len(a)
      BY <1>0, <1>1, <2>3
    <3> QED BY <1>1, <2>1, <2>2, <3>1
  <2>4. ASSUME NEW j \in 1..(Len(q) - 1), j >= i PROVE (a \o b)[j] = q[j + 1]
    <3>1. j - (i - 1) \in 1..(Len(q) - i) /\ i + (j - (i - 1)) = j + 1
      BY <1>0, <2>4
    <3>2. (a \o b)[j] = b[j - (i - 1)]
      <4>1. ~(j <= Len(a)) /\ Len(a) = i - 1
        BY <1>0, <1>1, <2>4
      <4> QED BY <2>1, <2>2, <4>1
    <3> QED BY <1>2, <3>1, <3>2
  <2>5. ASSUME NEW j \in 1..(Len(q) - 1)
        PROVE  (a \o b)[j] = IF j < i THEN q[j] ELSE q[j + 1]
    <3>1. CASE j < i
      BY <2>3, <3>1
    <3>2. CASE ~(j < i)
      <4>1. j >= i
        BY <1>0, <3>2
      <4> QED BY <2>4, <3>2, <4>1
    <3> QED BY <3>1, <3>2
  <2> QED BY <2>1, <2>2, <2>5
<1>5. PICK r \in Seq(S) : r = RemoveAt(q, i)
  BY <1>3, <1>4
<1>6. Len(r) = Len(q) - 1 /\ \A j \in 1..Len(r) : r[j] = IF j < i THEN q[j] ELSE q[j + 1]
  BY <1>3, <1>4, <1>5
<1>7. ToSet(r) = ToSet(q) \ {q[i]} /\ IsInjective(r)
  BY <1>0, <1>6, PlaceTaken
<1> QED BY <1>5, <1>7

-----------------------------------------------------------------------------
(* The semaphore.                                                           *)

\* The part of the types that the semaphore needs, and what is to be proved.
Semaphore ==
  /\ stage \in [Calls -> Stages]
  /\ permits \in 0..Concurrency
  /\ waiters \in Seq(Calls)
  /\ IsFiniteSet(Sent)
  /\ PermitsAddUp

LEMMA SentCounts == Semaphore => Cardinality(Sent) \in Nat /\ permits \in Int
BY ConcurrencyAssumption, FS_CardinalityType DEF Semaphore

LEMMA InitSemaphore == Init => Semaphore
<1> SUFFICES ASSUME Init PROVE Semaphore
  OBVIOUS
<1>1. Sent = {} /\ waiters = <<>> /\ permits = Concurrency
  BY DEF Init, Sent
<1>2. IsFiniteSet(Sent) /\ Cardinality(Sent) = 0
  BY <1>1, FS_EmptySet
<1>3. waiters \in Seq(Calls) /\ ToSet(waiters) = {} /\ IsInjective(waiters)
  BY <1>1 DEF ToSet, IsInjective
<1>4. stage \in [Calls -> Stages] /\ {k \in Calls : stage[k] = "waiting"} = {}
  BY DEF Init, Stages
<1> QED BY <1>1, <1>2, <1>3, <1>4, ConcurrencyAssumption DEF Semaphore, PermitsAddUp

LEMMA AcquireKeeps ==
  ASSUME Semaphore, NEW k \in Calls, stage[k] \in {"idle", "sleeping"}, Acquire(k)
  PROVE  Semaphore'
<1>0. /\ stage \in [Calls -> Stages] /\ permits \in 0..Concurrency
      /\ waiters \in Seq(Calls) /\ IsFiniteSet(Sent)
      /\ permits + Cardinality(Sent) = Concurrency
      /\ waiters # <<>> => permits = 0
      /\ ToSet(waiters) = {j \in Calls : stage[j] = "waiting"}
      /\ IsInjective(waiters)
  BY DEF Semaphore, PermitsAddUp
<1>1. CASE permits > 0
  <2>1. /\ permits' = permits - 1 /\ waiters' = waiters
        /\ stage' = [stage EXCEPT ![k] = "sent"]
    BY <1>1 DEF Acquire
  <2>2. Sent' = Sent \cup {k} /\ k \notin Sent
    BY <1>0, <2>1 DEF Sent
  <2>3. IsFiniteSet(Sent') /\ Cardinality(Sent') = Cardinality(Sent) + 1
    BY <1>0, <2>2, FS_AddElement
  <2>4. permits' \in 0..Concurrency /\ permits' + Cardinality(Sent') = Concurrency
    BY <1>0, <1>1, <2>1, <2>3, SentCounts, ConcurrencyAssumption
  <2>5. waiters = <<>>
    BY <1>0, <1>1
  <2>6. stage' \in [Calls -> Stages]
    BY <1>0, <2>1 DEF Stages
  <2>7. ToSet(waiters') = {j \in Calls : stage'[j] = "waiting"}
    BY <1>0, <2>1
  <2> QED BY <1>0, <2>1, <2>3, <2>4, <2>5, <2>6, <2>7 DEF Semaphore, PermitsAddUp
<1>2. CASE ~(permits > 0)
  <2>1. /\ permits' = permits /\ waiters' = Append(waiters, k)
        /\ stage' = [stage EXCEPT ![k] = "waiting"]
    BY <1>2 DEF Acquire
  <2>2. Sent' = Sent
    BY <1>0, <2>1 DEF Sent
  <2>3. k \notin ToSet(waiters)
    BY <1>0
  <2>4. /\ waiters' \in Seq(Calls) /\ ToSet(waiters') = ToSet(waiters) \cup {k}
        /\ IsInjective(waiters')
    BY <1>0, <2>1, <2>3, QueueGrows
  <2>5. stage' \in [Calls -> Stages]
    BY <1>0, <2>1 DEF Stages
  <2>6. ToSet(waiters') = {j \in Calls : stage'[j] = "waiting"}
    BY <1>0, <2>1, <2>4
  <2>7. permits = 0
    BY <1>0, <1>2, ConcurrencyAssumption
  <2> QED BY <1>0, <2>1, <2>2, <2>4, <2>5, <2>6, <2>7 DEF Semaphore, PermitsAddUp
<1> QED BY <1>1, <1>2

LEMMA ReleaseKeeps ==
  ASSUME Semaphore, NEW k \in Calls, stage[k] = "sent",
         NEW next \in {"ended", "sleeping"}, Release(k, next)
  PROVE  Semaphore'
<1>0. /\ stage \in [Calls -> Stages] /\ permits \in 0..Concurrency
      /\ waiters \in Seq(Calls) /\ IsFiniteSet(Sent)
      /\ permits + Cardinality(Sent) = Concurrency
      /\ waiters # <<>> => permits = 0
      /\ ToSet(waiters) = {j \in Calls : stage[j] = "waiting"}
      /\ IsInjective(waiters)
  BY DEF Semaphore, PermitsAddUp
<1>1. k \in Sent
  BY DEF Sent
<1>2. IsFiniteSet(Sent \ {k}) /\ Cardinality(Sent \ {k}) = Cardinality(Sent) - 1
  BY <1>0, <1>1, FS_RemoveElement
<1>3. Cardinality(Sent \ {k}) \in Nat
  BY <1>2, FS_CardinalityType
<1>4. CASE waiters = <<>>
  <2>1. /\ permits' = permits + 1 /\ waiters' = waiters
        /\ stage' = [stage EXCEPT ![k] = next]
    BY <1>4 DEF Release
  <2>2. Sent' = Sent \ {k}
    BY <1>0, <2>1 DEF Sent
  <2>3. permits' \in 0..Concurrency /\ permits' + Cardinality(Sent') = Concurrency
    BY <1>0, <1>2, <1>3, <2>1, <2>2, SentCounts, ConcurrencyAssumption
  <2>4. stage' \in [Calls -> Stages]
    BY <1>0, <2>1 DEF Stages
  <2>5. ToSet(waiters') = {j \in Calls : stage'[j] = "waiting"}
    BY <1>0, <2>1
  <2> QED BY <1>0, <1>2, <1>4, <2>1, <2>2, <2>3, <2>4, <2>5 DEF Semaphore, PermitsAddUp
<1>5. CASE waiters # <<>>
  <2>1. PICK first \in Calls : first = Head(waiters)
    BY <1>0, <1>5, QueueMoves
  <2>2. /\ first \in ToSet(waiters) /\ Tail(waiters) \in Seq(Calls)
        /\ ToSet(Tail(waiters)) = ToSet(waiters) \ {first} /\ IsInjective(Tail(waiters))
    BY <1>0, <1>5, <2>1, QueueMoves
  <2>3. stage[first] = "waiting" /\ first # k
    BY <1>0, <2>2
  <2>4. /\ permits' = permits /\ waiters' = Tail(waiters)
        /\ stage' = [stage EXCEPT ![k] = next, ![first] = "sent"]
    BY <1>5, <2>1 DEF Release
  <2>5. Sent' = (Sent \ {k}) \cup {first} /\ first \notin Sent \ {k}
    BY <1>0, <2>3, <2>4 DEF Sent
  <2>6. IsFiniteSet(Sent') /\ Cardinality(Sent') = Cardinality(Sent \ {k}) + 1
    BY <1>2, <2>5, FS_AddElement
  <2>7. permits' + Cardinality(Sent') = Concurrency
    BY <1>0, <1>2, <1>3, <2>4, <2>6, SentCounts
  <2>8. stage' \in [Calls -> Stages]
    BY <1>0, <2>4 DEF Stages
  <2>9. ToSet(waiters') = {j \in Calls : stage'[j] = "waiting"}
    BY <1>0, <2>2, <2>3, <2>4
  <2> QED BY <1>0, <1>5, <2>2, <2>4, <2>6, <2>7, <2>8, <2>9 DEF Semaphore, PermitsAddUp
<1> QED BY <1>4, <1>5

LEMMA WithdrawKeeps ==
  ASSUME Semaphore, NEW k \in Calls, Withdraw(k)
  PROVE  Semaphore'
<1>0. /\ stage \in [Calls -> Stages] /\ permits \in 0..Concurrency
      /\ waiters \in Seq(Calls) /\ IsFiniteSet(Sent)
      /\ permits + Cardinality(Sent) = Concurrency
      /\ waiters # <<>> => permits = 0
      /\ ToSet(waiters) = {j \in Calls : stage[j] = "waiting"}
      /\ IsInjective(waiters)
  BY DEF Semaphore, PermitsAddUp
<1>1. CASE stage[k] = "sent"
  BY <1>1, ReleaseKeeps DEF Withdraw
<1>2. CASE stage[k] # "sent"
  <2>1. /\ stage[k] \in {"waiting", "sleeping"} /\ permits' = permits
        /\ stage' = [stage EXCEPT ![k] = "ended"]
    BY <1>2 DEF Withdraw
  <2>2. Sent' = Sent /\ stage' \in [Calls -> Stages]
    BY <1>0, <2>1 DEF Sent, Stages
  <2>3. CASE stage[k] = "waiting"
    <3>1. PICK i \in DOMAIN waiters : waiters[i] = k /\ waiters' = RemoveAt(waiters, i)
      BY <1>2, <2>3 DEF Withdraw
    <3>2. /\ waiters' \in Seq(Calls) /\ ToSet(waiters') = ToSet(waiters) \ {k}
          /\ IsInjective(waiters')
      BY <1>0, <3>1, QueueIsLeft
    <3>3. waiters # <<>>
      BY <3>1
    <3>4. ToSet(waiters') = {j \in Calls : stage'[j] = "waiting"}
      BY <1>0, <2>1, <3>2
    <3> QED BY <1>0, <2>1, <2>2, <3>2, <3>3, <3>4 DEF Semaphore, PermitsAddUp
  <2>4. CASE stage[k] = "sleeping"
    <3>1. waiters' = waiters
      BY <2>4 DEF Withdraw
    <3>2. ToSet(waiters') = {j \in Calls : stage'[j] = "waiting"}
      BY <1>0, <2>1, <2>4, <3>1
    <3> QED BY <1>0, <2>1, <2>2, <3>1, <3>2 DEF Semaphore, PermitsAddUp
  <2> QED BY <2>1, <2>3, <2>4
<1> QED BY <1>1, <1>2

\* Every step keeps the semaphore.
LEMMA StepSemaphore == Semaphore /\ [Next]_vars => Semaphore'
<1> SUFFICES ASSUME Semaphore, [Next]_vars PROVE Semaphore'
  OBVIOUS
<1>1. ASSUME NEW k \in Calls, Starts(k) PROVE Semaphore'
  BY <1>1, AcquireKeeps DEF Starts
<1>2. ASSUME NEW k \in Calls, AnswerArrives(k) PROVE Semaphore'
  BY <1>2, ReleaseKeeps DEF AnswerArrives
<1>3. ASSUME NEW k \in Calls, TransportBreaks(k) PROVE Semaphore'
  BY <1>3, ReleaseKeeps DEF TransportBreaks
<1>4. ASSUME NEW k \in Calls, AttemptFails(k) PROVE Semaphore'
  BY <1>4, ReleaseKeeps DEF AttemptFails
<1>5. ASSUME NEW k \in Calls, Wakes(k) PROVE Semaphore'
  BY <1>5, AcquireKeeps DEF Wakes
<1>6. ASSUME NEW k \in Calls, Dropped(k) PROVE Semaphore'
  BY <1>6, WithdrawKeeps DEF Dropped
<1>7. ASSUME NEW k \in Calls, NodeAnswers(k) \/ StrayArrives(k) PROVE Semaphore'
  BY <1>7 DEF NodeAnswers, StrayArrives, Semaphore, PermitsAddUp, Sent
<1>8. CASE UNCHANGED vars
  BY <1>8 DEF vars, Semaphore, PermitsAddUp, Sent
<1> QED BY <1>1, <1>2, <1>3, <1>4, <1>5, <1>6, <1>7, <1>8 DEF Next, AttemptEnds

\* No permit of ReliabilityLayer's semaphore is lost or doubled, nobody waits
\* beside a free one and nobody queues twice, for any number of calls and permits.
THEOREM PermitsCorrect == Spec => []PermitsAddUp
<1>1. Init => Semaphore
  BY InitSemaphore
<1>2. Semaphore /\ [Next]_vars => Semaphore'
  BY StepSemaphore
<1>3. Semaphore => PermitsAddUp
  BY DEF Semaphore
<1> QED BY <1>1, <1>2, <1>3, PTL DEF Spec

-----------------------------------------------------------------------------
(* Types.  That tries stays within the retries needs the count of attempts   *)
(* in each stage, and that nobody sleeps after the last one.                 *)

Counted ==
  \A k \in Calls :
    /\ stage[k] \in {"idle", "waiting"} => tries[k] = attempt[k]
    /\ stage[k] \in {"sent", "sleeping"} => tries[k] = attempt[k] + 1
    /\ stage[k] = "sleeping" => attempt[k] < MAX_RETRIES

CallsInv == TypeOK /\ Semaphore /\ Counted

LEMMA InitCalls == Init => CallsInv
<1> SUFFICES ASSUME Init PROVE CallsInv
  OBVIOUS
<1>1. Semaphore
  BY InitSemaphore
<1>2. TypeOK
  BY <1>1, RetriesAssumption DEF Init, TypeOK, Semaphore
<1>3. Counted
  BY DEF Init, Counted
<1> QED BY <1>1, <1>2, <1>3 DEF CallsInv

\* What acquire_owned does to the attempts of the call k.
LEMMA AcquireCounts ==
  ASSUME CallsInv, NEW k \in Calls, Acquire(k), stage[k] \in {"idle", "sleeping"},
         NEW n \in 0..MAX_RETRIES, attempt' = [attempt EXCEPT ![k] = n], tries[k] = n
  PROVE  Counted' /\ tries' \in [Calls -> 0..(MAX_RETRIES + 1)]
<1>0. /\ attempt \in [Calls -> 0..MAX_RETRIES] /\ stage \in [Calls -> Stages]
      /\ tries \in [Calls -> 0..(MAX_RETRIES + 1)]
  BY DEF CallsInv, TypeOK
<1>1. CASE permits > 0
  <2>1. stage' = [stage EXCEPT ![k] = "sent"] /\ tries' = [tries EXCEPT ![k] = n + 1]
    BY <1>1 DEF Acquire
  <2>2. n + 1 \in 0..(MAX_RETRIES + 1)
    BY RetriesAssumption
  <2> QED BY <1>0, <2>1, <2>2 DEF Counted, CallsInv
<1>2. CASE ~(permits > 0)
  <2>1. stage' = [stage EXCEPT ![k] = "waiting"] /\ tries' = tries
    BY <1>2 DEF Acquire
  <2> QED BY <1>0, <2>1 DEF Counted, CallsInv
<1> QED BY <1>1, <1>2

\* What drop(permit) does to the attempts: the first in the queue makes one.
LEMMA ReleaseCounts ==
  ASSUME CallsInv, NEW k \in Calls, stage[k] = "sent",
         NEW next \in {"ended", "sleeping"}, Release(k, next), attempt' = attempt,
         next = "sleeping" => attempt[k] < MAX_RETRIES
  PROVE  Counted' /\ tries' \in [Calls -> 0..(MAX_RETRIES + 1)]
<1>0. /\ attempt \in [Calls -> 0..MAX_RETRIES] /\ stage \in [Calls -> Stages]
      /\ tries \in [Calls -> 0..(MAX_RETRIES + 1)]
  BY DEF CallsInv, TypeOK
<1>1. CASE waiters = <<>>
  <2>1. stage' = [stage EXCEPT ![k] = next] /\ tries' = tries
    BY <1>1 DEF Release
  <2> QED BY <1>0, <2>1 DEF Counted, CallsInv
<1>2. CASE waiters # <<>>
  <2>1. PICK first \in Calls : first = Head(waiters) /\ stage[first] = "waiting"
    <3>1. waiters \in Seq(Calls) /\ IsInjective(waiters)
          /\ ToSet(waiters) = {j \in Calls : stage[j] = "waiting"}
      BY DEF CallsInv, Semaphore, PermitsAddUp
    <3> QED BY <1>2, <3>1, QueueMoves
  <2>2. /\ stage' = [stage EXCEPT ![k] = next, ![first] = "sent"]
        /\ tries' = [tries EXCEPT ![first] = @ + 1]
    BY <1>2, <2>1 DEF Release
  <2>3. first # k /\ tries[first] = attempt[first]
    BY <2>1 DEF Counted, CallsInv
  <2>4. tries[first] + 1 \in 0..(MAX_RETRIES + 1) /\ tries'[first] = attempt[first] + 1
    BY <1>0, <2>2, <2>3, RetriesAssumption
  <2>5. ASSUME NEW j \in Calls, j # k, j # first
        PROVE  stage'[j] = stage[j] /\ tries'[j] = tries[j]
    BY <1>0, <2>2, <2>5
  <2>6. stage'[k] = next /\ tries'[k] = tries[k] /\ tries[k] = attempt[k] + 1
    BY <1>0, <2>2, <2>3 DEF Counted, CallsInv
  <2>7. stage'[first] = "sent"
    BY <1>0, <2>2
  <2>8. Counted'
    BY <2>4, <2>5, <2>6, <2>7 DEF Counted, CallsInv
  <2> QED BY <1>0, <2>2, <2>4, <2>8
<1> QED BY <1>1, <1>2

LEMMA GiveUpTypes ==
  ASSUME TypeOK, NEW k \in Calls, GiveUpAttempt(k)
  PROVE  answer' \in [Calls -> Answers \cup {"none"}] /\ strays' \subseteq Broadcasts
BY DEF TypeOK, GiveUpAttempt

\* The semaphore's share of the types follows from Semaphore'.
LEMMA TypesTogether ==
  ASSUME Semaphore',
         attempt' \in [Calls -> 0..MAX_RETRIES],
         result' \in [Calls -> Results \cup {"none"}],
         answer' \in [Calls -> Answers \cup {"none"}],
         tries' \in [Calls -> 0..(MAX_RETRIES + 1)],
         pool' \subseteq Broadcasts, strays' \subseteq Broadcasts
  PROVE  TypeOK'
BY DEF TypeOK, Semaphore

LEMMA StepCalls == CallsInv /\ [Next]_vars => CallsInv'
<1> SUFFICES ASSUME CallsInv, [Next]_vars PROVE CallsInv'
  OBVIOUS
<1>0. TypeOK /\ Semaphore /\ Counted /\ Semaphore'
  BY StepSemaphore DEF CallsInv
<1> SUFFICES TypeOK' /\ Counted'
  BY <1>0 DEF CallsInv
<1>1. ASSUME NEW k \in Calls, Starts(k) PROVE TypeOK' /\ Counted'
  <2>1. attempt[k] \in 0..MAX_RETRIES /\ tries[k] = attempt[k]
    BY <1>0, <1>1 DEF Starts, TypeOK, Counted
  <2>2. attempt' = [attempt EXCEPT ![k] = attempt[k]]
    BY <1>0, <1>1 DEF Starts, TypeOK
  <2>3. Counted' /\ tries' \in [Calls -> 0..(MAX_RETRIES + 1)]
    BY <1>1, <2>1, <2>2, AcquireCounts DEF Starts
  <2> QED BY <1>0, <1>1, <2>3, TypesTogether DEF Starts, TypeOK
<1>2. ASSUME NEW k \in Calls, AnswerArrives(k) PROVE TypeOK' /\ Counted'
  <2>1. Counted' /\ tries' \in [Calls -> 0..(MAX_RETRIES + 1)]
    BY <1>2, ReleaseCounts DEF AnswerArrives
  <2>2. answer[k] \in Results
    BY <1>0, <1>2 DEF AnswerArrives, TypeOK, Results
  <2> QED BY <1>0, <1>2, <2>1, <2>2, TypesTogether DEF AnswerArrives, TypeOK
<1>3. ASSUME NEW k \in Calls, TransportBreaks(k) PROVE TypeOK' /\ Counted'
  <2>1. Counted' /\ tries' \in [Calls -> 0..(MAX_RETRIES + 1)]
    BY <1>3, ReleaseCounts DEF TransportBreaks
  <2>2. answer' \in [Calls -> Answers \cup {"none"}] /\ strays' \subseteq Broadcasts
    BY <1>0, <1>3, GiveUpTypes DEF TransportBreaks
  <2> QED BY <1>0, <1>3, <2>1, <2>2, TypesTogether DEF TransportBreaks, TypeOK, Results
<1>4. ASSUME NEW k \in Calls, AttemptFails(k) PROVE TypeOK' /\ Counted'
  <2>1. answer' \in [Calls -> Answers \cup {"none"}] /\ strays' \subseteq Broadcasts
    BY <1>0, <1>4, GiveUpTypes DEF AttemptFails
  <2>2. Counted' /\ tries' \in [Calls -> 0..(MAX_RETRIES + 1)]
    <3>1. CASE Exhausted(k)
      BY <1>4, <3>1, ReleaseCounts DEF AttemptFails
    <3>2. CASE ~Exhausted(k)
      <4>1. attempt[k] < MAX_RETRIES
        BY <1>0, <3>2, RetriesAssumption DEF Exhausted, TypeOK
      <4> QED BY <1>4, <3>2, <4>1, ReleaseCounts DEF AttemptFails
    <3> QED BY <3>1, <3>2
  <2>3. result' \in [Calls -> Results \cup {"none"}]
    BY <1>0, <1>4 DEF AttemptFails, TypeOK, Results
  <2> QED BY <1>0, <1>4, <2>1, <2>2, <2>3, TypesTogether DEF AttemptFails, TypeOK
<1>5. ASSUME NEW k \in Calls, Wakes(k) PROVE TypeOK' /\ Counted'
  <2>1. attempt[k] + 1 \in 0..MAX_RETRIES /\ tries[k] = attempt[k] + 1
    BY <1>0, <1>5, RetriesAssumption DEF Wakes, TypeOK, Counted
  <2>2. attempt' = [attempt EXCEPT ![k] = attempt[k] + 1]
    BY <1>5 DEF Wakes
  <2>3. Counted' /\ tries' \in [Calls -> 0..(MAX_RETRIES + 1)]
    BY <1>5, <2>1, <2>2, AcquireCounts DEF Wakes
  <2> QED BY <1>0, <1>5, <2>1, <2>2, <2>3, TypesTogether DEF Wakes, TypeOK
<1>6. ASSUME NEW k \in Calls, Dropped(k) PROVE TypeOK' /\ Counted'
  <2>1. answer' \in [Calls -> Answers \cup {"none"}] /\ strays' \subseteq Broadcasts
    BY <1>0, <1>6, GiveUpTypes DEF Dropped
  <2>2. Counted' /\ tries' \in [Calls -> 0..(MAX_RETRIES + 1)]
    <3>1. CASE stage[k] = "sent"
      BY <1>6, <3>1, ReleaseCounts DEF Dropped, Withdraw
    <3>2. CASE stage[k] # "sent"
      BY <1>0, <1>6, <3>2 DEF Dropped, Withdraw, Counted, TypeOK
    <3> QED BY <3>1, <3>2
  <2>3. result' \in [Calls -> Results \cup {"none"}]
    BY <1>0, <1>6 DEF Dropped, TypeOK, Results
  <2> QED BY <1>0, <1>6, <2>1, <2>2, <2>3, TypesTogether DEF Dropped, TypeOK
<1>7. ASSUME NEW k \in Calls, NodeAnswers(k) PROVE TypeOK' /\ Counted'
  BY <1>0, <1>7, TypesTogether DEF NodeAnswers, TypeOK, Counted
<1>8. ASSUME NEW k \in Calls, StrayArrives(k) PROVE TypeOK' /\ Counted'
  BY <1>0, <1>8, TypesTogether DEF StrayArrives, TypeOK, Counted
<1>9. CASE UNCHANGED vars
  BY <1>0, <1>9 DEF vars, TypeOK, Counted
<1> QED BY <1>1, <1>2, <1>3, <1>4, <1>5, <1>6, <1>7, <1>8, <1>9 DEF Next, AttemptEnds

\* A call never makes more attempts than the first and MAX_RETRIES repetitions,
\* however it waits, fails and is dropped, and every other variable keeps its
\* type (ReliabilityLayer::run).
THEOREM CallsTypes == Spec => []TypeOK
<1>1. Init => CallsInv
  BY InitCalls
<1>2. CallsInv /\ [Next]_vars => CallsInv'
  BY StepCalls
<1>3. CallsInv => TypeOK
  BY DEF CallsInv
<1> QED BY <1>1, <1>2, <1>3, PTL DEF Spec


-----------------------------------------------------------------------------
(* The cache of prices.  The newest storing time of a result (updated_at) is of no *)
(* consequence: its set of values is left open.                              *)

CallsWith(Updates) ==
  [at : {"idle", "fetching", "answered", "done"}, to_fetch : SUBSET Ids, deadline : Nat,
   quotes : [Ids -> Nat \cup {NoPrice}], result : [Ids -> Nat \cup {NoPrice}],
   updated_at : Updates, stale : BOOLEAN]

PricesTyped ==
  /\ clock \in Nat
  /\ cache \in [Ids -> [quoted : Nat, fetched_at : Nat] \cup {NoPrice}]
  /\ \E Updates : caller \in [Callers -> CallsWith(Updates)]

\* An entry was stored within one fetch of its quote.
EntryInTime(entry, now) ==
  entry # NoPrice =>
    /\ entry.quoted <= entry.fetched_at
    /\ entry.fetched_at <= entry.quoted + PRICE_TIMEOUT
    /\ entry.fetched_at <= now

Began(t) == t.deadline - PRICE_TIMEOUT

\* A call is within its timeout.  What it took from the cache was fresh when it
\* began, what it was quoted is younger, and what it returns is within bounds.
QuoteInTime(t, now) ==
  /\ t.at \in {"fetching", "answered"} =>
       /\ Began(t) <= now /\ now <= t.deadline
       /\ \A i \in Ids : t.result[i] # NoPrice => Began(t) - t.result[i] < PRICE_TTL + PRICE_TIMEOUT
  /\ t.at = "answered" =>
       \A i \in Ids : t.quotes[i] # NoPrice => Began(t) <= t.quotes[i] /\ t.quotes[i] <= now
  /\ t.at = "done" /\ ~ t.stale =>
       \A i \in Ids : t.result[i] # NoPrice => now - t.result[i] < PRICE_TTL + 2 * PRICE_TIMEOUT

PricesInv ==
  /\ PricesTyped
  /\ \A i \in Ids : EntryInTime(cache[i], clock)
  /\ \A c \in Callers : QuoteInTime(caller[c], clock)

-----------------------------------------------------------------------------

LEMMA PriceTimes ==
  /\ PRICE_TTL \in Nat \ {0} /\ PRICE_TIMEOUT \in Nat /\ NoPrice \notin Int
  /\ MaxTime \in Nat /\ Wanted \in [Callers -> SUBSET SUBSET Ids]
BY PricesAssumption, TimeAssumption

LEMMA NobodyCalls ==
  /\ NoCaller \in CallsWith({-1})
  /\ \A now : QuoteInTime(NoCaller, now)
<1>1. NoCaller \in CallsWith({-1})
  BY DEF NoCaller, CallsWith
<1>2. NoCaller.at = "idle"
  BY DEF NoCaller
<1> QED BY <1>1, <1>2 DEF QuoteInTime

LEMMA InitPrices == PricesInit => PricesInv
<1> SUFFICES ASSUME PricesInit PROVE PricesInv
  OBVIOUS
<1>1. caller = [c \in Callers |-> NoCaller] /\ clock = 0 /\ cache = [i \in Ids |-> NoPrice]
  BY DEF PricesInit
<1>2. caller \in [Callers -> CallsWith({-1})]
  BY <1>1, NobodyCalls
<1>3. PricesTyped
  BY <1>1, <1>2 DEF PricesTyped
<1>4. \A c \in Callers : QuoteInTime(caller[c], clock)
  BY <1>1, NobodyCalls
<1> QED BY <1>1, <1>3, <1>4 DEF PricesInv, EntryInTime

\* One call moves on, and the clock and the cache stand still.
LEMMA CallerMoves ==
  ASSUME PricesInv, NEW c \in Callers, NEW Updates, NEW t \in CallsWith(Updates),
         caller' = [caller EXCEPT ![c] = t], clock' = clock, QuoteInTime(t, clock),
         cache' \in [Ids -> [quoted : Nat, fetched_at : Nat] \cup {NoPrice}],
         \A i \in Ids : EntryInTime(cache'[i], clock)
  PROVE  PricesInv'
<1>1. PICK U : caller \in [Callers -> CallsWith(U)]
  BY DEF PricesInv, PricesTyped
<1>2. CallsWith(U) \subseteq CallsWith(U \cup Updates)
      /\ CallsWith(Updates) \subseteq CallsWith(U \cup Updates)
  BY DEF CallsWith
<1>3. caller' \in [Callers -> CallsWith(U \cup Updates)]
  BY <1>1, <1>2
<1>4. PricesTyped'
  <2>1. \E V : caller' \in [Callers -> CallsWith(V)]
    BY <1>3
  <2> QED BY <2>1 DEF PricesTyped, PricesInv, CallsWith
<1>5. \A d \in Callers : QuoteInTime(caller'[d], clock)
  BY <1>1 DEF PricesInv
<1>6. \A d \in Callers : QuoteInTime(caller[d], clock)'
  BY <1>5 DEF QuoteInTime, Began
<1>7. \A i \in Ids : EntryInTime(cache[i], clock)'
  BY DEF EntryInTime
<1> QED BY <1>4, <1>6, <1>7 DEF PricesInv

LEMMA CallerMovesAlone ==
  ASSUME PricesInv, NEW c \in Callers, NEW Updates, NEW t \in CallsWith(Updates),
         caller' = [caller EXCEPT ![c] = t], UNCHANGED <<clock, cache>>, QuoteInTime(t, clock)
  PROVE  PricesInv'
<1>1. /\ cache' \in [Ids -> [quoted : Nat, fetched_at : Nat] \cup {NoPrice}]
      /\ \A i \in Ids : EntryInTime(cache'[i], clock)
  BY DEF PricesInv, PricesTyped
<1> QED BY <1>1, CallerMoves

LEMMA AsksPricesKeeps ==
  ASSUME PricesInv, NEW c \in Callers, NEW ids \in Wanted[c], AsksPrices(c, ids)
  PROVE  PricesInv'
<1>1. PICK fresh \in SUBSET Ids : fresh = {i \in ids : PriceFresh(i)} /\ ids \subseteq Ids
  <2>1. ids \subseteq Ids
    BY PriceTimes
  <2>2. {i \in ids : PriceFresh(i)} \in SUBSET Ids
    BY <2>1
  <2> QED BY <2>1, <2>2
<1>2. PICK newest : newest = Newest(fresh)
  OBVIOUS
<1> DEFINE t == [NoCaller EXCEPT !.at         = IF fresh = ids THEN "done" ELSE "fetching",
                                 !.to_fetch   = ids \ fresh,
                                 !.deadline   = clock + PRICE_TIMEOUT,
                                 !.result     = Quotes(fresh),
                                 !.updated_at = newest]
<1>3. caller' = [caller EXCEPT ![c] = t] /\ UNCHANGED <<clock, cache>>
  BY <1>1, <1>2 DEF AsksPrices
<1>4. /\ clock \in Nat
      /\ \A i \in fresh : cache[i] # NoPrice /\ cache[i].quoted \in Nat /\ cache[i].fetched_at \in Nat
  BY <1>1 DEF PriceFresh, PricesInv, PricesTyped
<1>5. /\ Quotes(fresh) \in [Ids -> Nat \cup {NoPrice}]
      /\ \A i \in Ids : Quotes(fresh)[i] # NoPrice => i \in fresh /\ Quotes(fresh)[i] = cache[i].quoted
  BY <1>4 DEF Quotes
<1>6. t \in CallsWith({-1, newest})
  <2>1. PICK at : at = IF fresh = ids THEN "done" ELSE "fetching"
    OBVIOUS
  <2>2. PICK to_fetch \in SUBSET Ids : to_fetch = ids \ fresh
    BY <1>1
  <2>3. PICK deadline \in Nat : deadline = clock + PRICE_TIMEOUT
    BY <1>4, PriceTimes
  <2>4. PICK shown \in [Ids -> Nat \cup {NoPrice}] : shown = Quotes(fresh)
    BY <1>5
  <2>5. NoCaller \in CallsWith({-1, newest}) /\ at \in {"done", "fetching"}
    BY <2>1, NobodyCalls DEF CallsWith
  <2>6. [NoCaller EXCEPT !.at = at, !.to_fetch = to_fetch, !.deadline = deadline,
                         !.result = shown, !.updated_at = newest] \in CallsWith({-1, newest})
    BY <2>5 DEF CallsWith
  <2> QED BY <2>1, <2>2, <2>3, <2>4, <2>6, Zenon
<1>7. \A i \in fresh : clock - cache[i].quoted < PRICE_TTL + PRICE_TIMEOUT
  <2> SUFFICES ASSUME NEW i \in fresh PROVE clock - cache[i].quoted < PRICE_TTL + PRICE_TIMEOUT
    OBVIOUS
  <2>1. clock - cache[i].fetched_at < PRICE_TTL
    BY <1>1 DEF PriceFresh
  <2>2. cache[i].fetched_at <= cache[i].quoted + PRICE_TIMEOUT
    BY <1>4 DEF PricesInv, EntryInTime
  <2> QED BY <1>4, <2>1, <2>2, PriceTimes
<1>8. /\ t.at \in {"done", "fetching"} /\ t.deadline = clock + PRICE_TIMEOUT
      /\ t.result = Quotes(fresh)
  BY DEF NoCaller
<1> HIDE DEF t
<1>9. QuoteInTime(t, clock)
  <2>1. Began(t) = clock
    BY <1>4, <1>8, PriceTimes DEF Began
  <2>2. \A i \in Ids : t.result[i] # NoPrice =>
          clock - t.result[i] < PRICE_TTL + PRICE_TIMEOUT /\ t.result[i] \in Nat
    BY <1>4, <1>5, <1>7, <1>8
  <2>3. \A i \in Ids : t.result[i] # NoPrice => clock - t.result[i] < PRICE_TTL + 2 * PRICE_TIMEOUT
    BY <1>4, <2>2, PriceTimes
  <2> QED BY <1>4, <1>8, <2>1, <2>2, <2>3, PriceTimes DEF QuoteInTime
<1> QED BY <1>3, <1>6, <1>9, CallerMovesAlone

\* The call of a caller that is waiting for CoinGecko, or for its lock.
LEMMA WaitingIs ==
  ASSUME PricesInv, NEW c \in Callers
  PROVE  \E Updates : caller[c] \in CallsWith(Updates)
BY DEF PricesInv, PricesTyped

LEMMA QuoteKeeps ==
  ASSUME PricesInv, NEW c \in Callers, CoinGeckoQuotes(c)
  PROVE  PricesInv'
<1>1. PICK U : caller \in [Callers -> CallsWith(U)]
  BY DEF PricesInv, PricesTyped
<1>2. PICK known \in SUBSET caller[c].to_fetch :
        caller' = [caller EXCEPT
             ![c].at = "answered",
             ![c].quotes = [i \in Ids |-> IF i \in known THEN clock ELSE NoPrice]]
  BY DEF CoinGeckoQuotes
<1>3. PICK quotes : quotes = [i \in Ids |-> IF i \in known THEN clock ELSE NoPrice]
  OBVIOUS
<1>4. PICK r : r = caller[c]
  OBVIOUS
<1>5. /\ r \in CallsWith(U) /\ r.at = "fetching" /\ clock \in Nat /\ QuoteInTime(r, clock)
      /\ quotes \in [Ids -> Nat \cup {NoPrice}]
      /\ \A i \in Ids : quotes[i] \in {clock, NoPrice}
  BY <1>1, <1>3, <1>4 DEF CoinGeckoQuotes, PricesInv, PricesTyped
<1> DEFINE t == [r EXCEPT !.at = "answered", !.quotes = quotes]
<1>6. caller' = [caller EXCEPT ![c] = t]
  BY <1>1, <1>2, <1>3, <1>4
<1>7. t \in CallsWith(U)
  BY <1>5 DEF CallsWith
<1>8. t.at = "answered" /\ t.quotes = quotes /\ t.result = r.result /\ t.deadline = r.deadline
  BY <1>5 DEF CallsWith
<1> HIDE DEF t
<1>9. QuoteInTime(t, clock)
  BY <1>5, <1>8 DEF QuoteInTime, Began
<1> QED BY <1>6, <1>7, <1>9, CallerMovesAlone DEF CoinGeckoQuotes

LEMMA StoreKeeps ==
  ASSUME PricesInv, NEW c \in Callers, StoresPrices(c)
  PROVE  PricesInv'
<1>1. PICK U : caller \in [Callers -> CallsWith(U)]
  BY DEF PricesInv, PricesTyped
<1>2. PICK r : r = caller[c]
  OBVIOUS
<1>3. PICK quoted \in SUBSET Ids : quoted = Quoted(c)
  BY DEF Quoted
<1>4. /\ r \in CallsWith(U) /\ r.at = "answered" /\ clock \in Nat /\ QuoteInTime(r, clock)
      /\ r.quotes \in [Ids -> Nat \cup {NoPrice}] /\ r.result \in [Ids -> Nat \cup {NoPrice}]
      /\ r.deadline \in Nat
      /\ quoted = {i \in Ids : r.quotes[i] # NoPrice}
  BY <1>1, <1>2, <1>3 DEF StoresPrices, PricesInv, PricesTyped, CallsWith, Quoted
<1>5. PICK shown : shown = [i \in Ids |-> IF i \in quoted THEN r.quotes[i] ELSE r.result[i]]
  OBVIOUS
<1> DEFINE t == [r EXCEPT !.at = "done", !.result = shown, !.updated_at = clock]
<1>6. caller' = [caller EXCEPT ![c] = t] /\ clock' = clock
  BY <1>1, <1>2, <1>3, <1>5 DEF StoresPrices
<1>7. shown \in [Ids -> Nat \cup {NoPrice}]
  BY <1>4, <1>5
<1>8. t \in CallsWith(U \cup {clock})
  BY <1>4, <1>7 DEF CallsWith
<1>9. t.at = "done" /\ t.result = shown
  BY <1>4 DEF CallsWith
<1> HIDE DEF t
<1>10. \A i \in quoted : /\ r.quotes[i] \in Nat /\ r.quotes[i] <= clock
                         /\ clock <= r.quotes[i] + PRICE_TIMEOUT
  <2> SUFFICES ASSUME NEW i \in quoted
               PROVE  /\ r.quotes[i] \in Nat /\ r.quotes[i] <= clock
                      /\ clock <= r.quotes[i] + PRICE_TIMEOUT
    OBVIOUS
  <2>1. r.quotes[i] \in Nat
    BY <1>4
  <2>2. /\ r.deadline - PRICE_TIMEOUT <= r.quotes[i] /\ r.quotes[i] <= clock
        /\ clock <= r.deadline
    BY <1>4 DEF QuoteInTime, Began
  <2> QED BY <1>4, <2>1, <2>2, PriceTimes
<1>11. QuoteInTime(t, clock)
  <2> SUFFICES ASSUME NEW i \in Ids, shown[i] # NoPrice
               PROVE  clock - shown[i] < PRICE_TTL + 2 * PRICE_TIMEOUT
    BY <1>9 DEF QuoteInTime
  <2>1. CASE i \in quoted
    BY <1>4, <1>5, <1>10, <2>1, PriceTimes
  <2>2. CASE i \notin quoted
    <3>1. shown[i] = r.result[i] /\ r.result[i] \in Nat
      BY <1>4, <1>5, <2>2
    <3>2. /\ (r.deadline - PRICE_TIMEOUT) - r.result[i] < PRICE_TTL + PRICE_TIMEOUT
          /\ clock <= r.deadline
      BY <1>4, <3>1 DEF QuoteInTime, Began
    <3> QED BY <1>4, <3>1, <3>2, PriceTimes
  <2> QED BY <2>1, <2>2
<1>12. cache' = [i \in Ids |-> IF i \in quoted
                                 THEN [quoted |-> r.quotes[i], fetched_at |-> clock] ELSE cache[i]]
  BY <1>2, <1>3 DEF StoresPrices
<1>13. cache' \in [Ids -> [quoted : Nat, fetched_at : Nat] \cup {NoPrice}]
  BY <1>4, <1>10, <1>12 DEF PricesInv, PricesTyped
<1>14. \A i \in Ids : EntryInTime(cache'[i], clock)
  <2> SUFFICES ASSUME NEW i \in Ids PROVE EntryInTime(cache'[i], clock)
    OBVIOUS
  <2>1. CASE i \in quoted
    <3>1. cache'[i].quoted = r.quotes[i] /\ cache'[i].fetched_at = clock
      BY <1>12, <2>1
    <3> QED BY <1>4, <1>10, <2>1, <3>1 DEF EntryInTime
  <2>2. CASE i \notin quoted
    BY <1>12, <2>2 DEF PricesInv
  <2> QED BY <2>1, <2>2
<1> QED BY <1>6, <1>8, <1>11, <1>13, <1>14, CallerMoves

LEMMA PriceFailKeeps ==
  ASSUME PricesInv, NEW c \in Callers, PricesFail(c)
  PROVE  PricesInv'
<1>1. PICK U : caller \in [Callers -> CallsWith(U)]
  BY DEF PricesInv, PricesTyped
<1>2. PICK r : r = caller[c]
  OBVIOUS
<1>3. PICK old : old = {i \in caller[c].to_fetch : cache[i] # NoPrice}
  OBVIOUS
<1>4. /\ r \in CallsWith(U) /\ r.result \in [Ids -> Nat \cup {NoPrice}] /\ clock \in Nat
      /\ old \subseteq Ids /\ \A i \in old : cache[i].quoted \in Nat
  BY <1>1, <1>2, <1>3 DEF PricesInv, PricesTyped, CallsWith
<1>5. PICK shown : shown = [i \in Ids |-> IF i \in old THEN cache[i].quoted ELSE r.result[i]]
  OBVIOUS
<1>6. PICK newest :
        newest = LET n == Larger(r.updated_at, Newest(old)) IN IF n < 0 THEN clock ELSE n
  OBVIOUS
<1> DEFINE t == [r EXCEPT !.at = "done", !.stale = TRUE, !.result = shown,
                          !.updated_at = newest]
<1>7. caller' = [caller EXCEPT ![c] = t] /\ UNCHANGED <<clock, cache>>
  BY <1>1, <1>2, <1>3, <1>5, <1>6 DEF PricesFail
<1>8. shown \in [Ids -> Nat \cup {NoPrice}]
  BY <1>4, <1>5
<1>9. t \in CallsWith(U \cup {newest})
  BY <1>4, <1>8 DEF CallsWith
<1>10. t.at = "done" /\ t.stale
  BY <1>4 DEF CallsWith
<1> HIDE DEF t
<1>11. QuoteInTime(t, clock)
  BY <1>10 DEF QuoteInTime
<1> QED BY <1>7, <1>9, <1>11, CallerMovesAlone

LEMMA PricesTickKeeps ==
  ASSUME PricesInv, PricesTick
  PROVE  PricesInv'
<1>1. PICK U : caller \in [Callers -> CallsWith(U)]
  BY DEF PricesInv, PricesTyped
<1>2. clock \in Nat /\ clock' = clock + 1 /\ cache' = cache /\ caller' = caller
  BY DEF PricesTick, Tick, PricesInv, PricesTyped
<1>3. PricesTyped'
  <2>1. \E V : caller' \in [Callers -> CallsWith(V)]
    BY <1>1, <1>2
  <2>2. clock' \in Nat /\ cache' \in [Ids -> [quoted : Nat, fetched_at : Nat] \cup {NoPrice}]
    BY <1>2 DEF PricesInv, PricesTyped
  <2> QED BY <2>1, <2>2 DEF PricesTyped, CallsWith
<1>4. \A i \in Ids : EntryInTime(cache[i], clock)'
  <2> SUFFICES ASSUME NEW i \in Ids, cache[i] # NoPrice PROVE cache[i].fetched_at <= clock'
    BY <1>2 DEF PricesInv, EntryInTime
  <2>1. cache[i].fetched_at \in Nat /\ cache[i].fetched_at <= clock
    BY DEF PricesInv, PricesTyped, EntryInTime
  <2> QED BY <1>2, <2>1
<1>5. ASSUME NEW c \in Callers PROVE QuoteInTime(caller[c], clock')
  <2>1. PICK t : t = caller[c]
    OBVIOUS
  <2>2. /\ t \in CallsWith(U) /\ QuoteInTime(t, clock) /\ t.at # "done"
        /\ t.at \in {"fetching", "answered"} => clock < t.deadline
    BY <1>1, <2>1 DEF PricesTick, PricesInv
  <2>3. t.deadline \in Nat /\ t.quotes \in [Ids -> Nat \cup {NoPrice}]
    BY <2>2 DEF CallsWith
  <2>4. t.at \in {"fetching", "answered"} => Began(t) <= clock + 1 /\ clock + 1 <= t.deadline
    BY <1>2, <2>2, <2>3, PriceTimes DEF QuoteInTime, Began
  <2>5. t.at = "answered" => \A i \in Ids : t.quotes[i] # NoPrice => t.quotes[i] <= clock + 1
    BY <1>2, <2>2, <2>3 DEF QuoteInTime
  <2> QED BY <1>2, <2>1, <2>2, <2>4, <2>5 DEF QuoteInTime
<1>6. \A c \in Callers : QuoteInTime(caller[c], clock)'
  BY <1>2, <1>5 DEF QuoteInTime, Began
<1> QED BY <1>3, <1>4, <1>6 DEF PricesInv

LEMMA NextPrices == PricesInv /\ [PricesNext]_pricesVars => PricesInv'
<1> SUFFICES ASSUME PricesInv, [PricesNext]_pricesVars PROVE PricesInv'
  OBVIOUS
<1>1. CASE PricesTick
  BY <1>1, PricesTickKeeps
<1>2. ASSUME NEW c \in Callers, NEW ids \in Wanted[c], AsksPrices(c, ids) PROVE PricesInv'
  BY <1>2, AsksPricesKeeps
<1>3. ASSUME NEW c \in Callers, CoinGeckoQuotes(c) PROVE PricesInv'
  BY <1>3, QuoteKeeps
<1>4. ASSUME NEW c \in Callers, StoresPrices(c) PROVE PricesInv'
  BY <1>4, StoreKeeps
<1>5. ASSUME NEW c \in Callers, PricesFail(c) PROVE PricesInv'
  BY <1>5, PriceFailKeeps
<1>6. ASSUME NEW c \in Callers, LeavesWithPrices(c) PROVE PricesInv'
  BY <1>6, NobodyCalls, CallerMovesAlone DEF LeavesWithPrices
<1>7. CASE UNCHANGED pricesVars
  BY <1>7 DEF pricesVars, PricesInv, PricesTyped, CallsWith, EntryInTime, QuoteInTime, Began
<1> QED BY <1>1, <1>2, <1>3, <1>4, <1>5, <1>6, <1>7 DEF PricesNext

\* A price that is not marked stale was quoted within the time to live and two
\* fetches, whoever stored it, however late and over whatever (get_prices).
THEOREM PricesCorrect == PricesSpec => []PricesAreRecent
<1>1. PricesInv => PricesAreRecent
  BY DEF PricesInv, QuoteInTime, PricesAreRecent
<1> QED BY <1>1, InitPrices, NextPrices, PTL DEF PricesSpec

-----------------------------------------------------------------------------
(* A portfolio.  What the values add up to is of no consequence: the set   *)
(* of totals is left open.                                                   *)

AdapterCalls == [at : {"lock", "fetch", "read", "ok", "failed"}, read : Int]

Tasks == [native : AdapterCalls, tokens : AdapterCalls, deadline : Nat,
          error : {"open", "none", "tokens", "native", "timeout", "address"}]

WalletsWith(Totals) ==
  [at : {"idle", "chains", "prices", "done"}, tasks : [Accounts -> Tasks \cup {NoTask}],
   deadline : Nat, total : Totals]

Documents == [TronAccounts -> [read : Nat, fetched_at : Nat] \cup {NoDocument}]

Typed ==
  /\ clock \in Nat
  /\ documents \in Documents
  /\ \E Totals : wallet \in [Wallets -> WalletsWith(Totals)]

\* A document was kept within one timeout of its reading.
DocumentInTime(document, now) ==
  document # NoDocument =>
    /\ document.read <= document.fetched_at
    /\ document.fetched_at <= document.read + CHAIN_TIMEOUT
    /\ document.fetched_at <= now

\* A call of a request that began at b: it read the network itself, or found a
\* document that was fresh at b or later.
CallInTime(call, b, now) ==
  /\ call.at = "read" => call.read \in Nat /\ b <= call.read /\ call.read <= now
  /\ call.at = "ok" =>
       call.read \in Nat /\ b - (ACCOUNT_CACHE_TTL - 1) - CHAIN_TIMEOUT <= call.read

TaskInTime(task, b, now) ==
  /\ CallInTime(task.native, b, now)
  /\ CallInTime(task.tokens, b, now)
  /\ task.error = "open" => task.deadline = b + CHAIN_TIMEOUT
  /\ task.error \in {"none", "tokens"} => task.native.at = "ok"
  /\ task.error = "none" => task.tokens.at = "ok"

\* All tasks of a request began at one instant b, which outlives the deadlines
\* of those that are told.
BeganAt(b, wl, now) ==
  /\ b <= now
  /\ \A a \in Accounts : wl.tasks[a] # NoTask => TaskInTime(wl.tasks[a], b, now)
  /\ wl.at = "chains" => now <= b + CHAIN_TIMEOUT
  /\ wl.at \in {"prices", "done"} =>
       /\ now <= wl.deadline
       /\ wl.deadline <= b + CHAIN_TIMEOUT + PRICES_TIMEOUT
       /\ \A a \in Accounts : wl.tasks[a] # NoTask => wl.tasks[a].error # "open"

WalletInTime(wl, now) ==
  IF wl.at = "idle" THEN \A a \in Accounts : wl.tasks[a] = NoTask
  ELSE \E b \in Nat : BeganAt(b, wl, now)

PortfolioInv ==
  /\ Typed
  /\ \A a \in TronAccounts : DocumentInTime(documents[a], clock)
  /\ \A w \in Wallets : WalletInTime(wallet[w], clock)

-----------------------------------------------------------------------------

LEMMA Constants ==
  /\ CHAIN_TIMEOUT \in Nat /\ PRICES_TIMEOUT \in Nat /\ ACCOUNT_CACHE_TTL \in Nat
  /\ ACCOUNT_CACHE_TTL > 0 /\ TronAccounts \subseteq Accounts
BY PortfolioAssumption

LEMMA IsCall ==
  \A at \in {"lock", "fetch", "read", "ok", "failed"}, read \in Int :
    \E call \in AdapterCalls : call = [at |-> at, read |-> read]
BY DEF AdapterCalls

LEMMA NobodyAsks ==
  /\ NoWallet \in WalletsWith({0})
  /\ \A now : WalletInTime(NoWallet, now)
BY DEF NoWallet, WalletsWith, WalletInTime

LEMMA InitInv == PortfolioInit => PortfolioInv
<1> SUFFICES ASSUME PortfolioInit PROVE PortfolioInv
  OBVIOUS
<1>1. /\ clock = 0 /\ documents = [a \in TronAccounts |-> NoDocument]
      /\ wallet = [w \in Wallets |-> NoWallet]
  BY DEF PortfolioInit
<1>2. wallet \in [Wallets -> WalletsWith({0})]
  BY <1>1, NobodyAsks
<1>3. Typed
  BY <1>1, <1>2 DEF Typed, Documents
<1>4. \A w \in Wallets : WalletInTime(wallet[w], clock)
  BY <1>1, NobodyAsks
<1> QED BY <1>1, <1>3, <1>4 DEF PortfolioInv, DocumentInTime

\* One request moves on, and the clock stands still.
LEMMA WalletMoves ==
  ASSUME PortfolioInv, NEW w \in Wallets, NEW Totals, NEW v \in WalletsWith(Totals),
         wallet' = [wallet EXCEPT ![w] = v], clock' = clock, WalletInTime(v, clock),
         documents' \in Documents,
         \A a \in TronAccounts : DocumentInTime(documents'[a], clock)
  PROVE  PortfolioInv'
<1>1. PICK U : wallet \in [Wallets -> WalletsWith(U)]
  BY DEF PortfolioInv, Typed
<1>2. /\ WalletsWith(U) \subseteq WalletsWith(U \cup Totals)
      /\ WalletsWith(Totals) \subseteq WalletsWith(U \cup Totals)
  BY DEF WalletsWith
<1>3. wallet' \in [Wallets -> WalletsWith(U \cup Totals)]
  BY <1>1, <1>2
<1>4. Typed'
  <2>1. \E V : wallet' \in [Wallets -> WalletsWith(V)]
    BY <1>3
  <2> QED BY <2>1 DEF Typed, PortfolioInv, WalletsWith, Tasks, AdapterCalls, Documents
<1>5. \A u \in Wallets : WalletInTime(wallet'[u], clock)
  BY <1>1 DEF PortfolioInv
<1>6. \A u \in Wallets : WalletInTime(wallet[u], clock)'
  BY <1>5
<1>7. \A a \in TronAccounts : DocumentInTime(documents[a], clock)'
  BY DEF DocumentInTime
<1> QED BY <1>4, <1>6, <1>7 DEF PortfolioInv

\* One open task of a request moves on.
LEMMA TaskMoves ==
  ASSUME PortfolioInv, NEW w \in Wallets, NEW a \in Accounts, Open(w, a), NEW t \in Tasks,
         wallet' = [wallet EXCEPT ![w].tasks[a] = t], clock' = clock,
         \A b \in Nat : /\ b <= clock /\ clock <= b + CHAIN_TIMEOUT
                        /\ TaskInTime(wallet[w].tasks[a], b, clock)
                        => TaskInTime(t, b, clock),
         documents' \in Documents,
         \A o \in TronAccounts : DocumentInTime(documents'[o], clock)
  PROVE  PortfolioInv'
<1>1. PICK U : wallet \in [Wallets -> WalletsWith(U)]
  BY DEF PortfolioInv, Typed
<1>2. PICK r : r = wallet[w]
  OBVIOUS
<1>3. r \in WalletsWith(U) /\ WalletInTime(r, clock) /\ r.tasks[a] # NoTask /\ r.tasks[a].error = "open"
  BY <1>1, <1>2 DEF PortfolioInv, Open
<1>4. PICK tasks : tasks = [r.tasks EXCEPT ![a] = t]
  OBVIOUS
<1> DEFINE v == [r EXCEPT !.tasks = tasks]
<1>5. wallet' = [wallet EXCEPT ![w] = v]
  BY <1>1, <1>2, <1>4
<1>6. tasks \in [Accounts -> Tasks \cup {NoTask}]
  BY <1>3, <1>4 DEF WalletsWith
<1>7. v \in WalletsWith(U) /\ v.at = r.at /\ v.tasks = tasks /\ v.deadline = r.deadline
  BY <1>3, <1>6 DEF WalletsWith
<1> HIDE DEF v
<1>8. r.at # "idle"
  BY <1>3 DEF WalletInTime
<1>9. PICK b \in Nat : BeganAt(b, r, clock)
  BY <1>3, <1>8 DEF WalletInTime
<1>10. r.at = "chains"
  BY <1>3, <1>8, <1>9 DEF BeganAt, WalletsWith
<1>11. TaskInTime(t, b, clock)
  BY <1>2, <1>3, <1>9, <1>10 DEF BeganAt
<1>12. \A o \in Accounts : tasks[o] # NoTask => TaskInTime(tasks[o], b, clock)
  BY <1>3, <1>4, <1>9, <1>11 DEF BeganAt, WalletsWith
<1>13. BeganAt(b, v, clock)
  BY <1>7, <1>9, <1>10, <1>12 DEF BeganAt
<1>14. WalletInTime(v, clock)
  BY <1>7, <1>10, <1>13 DEF WalletInTime
<1> QED BY <1>5, <1>7, <1>14, WalletMoves

\* One call of an open task moves on.
LEMMA CallMoves ==
  ASSUME PortfolioInv, NEW w \in Wallets, NEW a \in Accounts, NEW kind \in Kinds, Open(w, a),
         NEW call \in AdapterCalls, CallGoesTo(w, a, kind, call), clock' = clock,
         \A b \in Nat : /\ b <= clock /\ clock <= b + CHAIN_TIMEOUT
                        /\ CallInTime(wallet[w].tasks[a][kind], b, clock)
                        => CallInTime(call, b, clock),
         documents' \in Documents,
         \A o \in TronAccounts : DocumentInTime(documents'[o], clock)
  PROVE  PortfolioInv'
<1>1. PICK U : wallet \in [Wallets -> WalletsWith(U)]
  BY DEF PortfolioInv, Typed
<1>2. PICK s : s = wallet[w].tasks[a]
  OBVIOUS
<1>3. s \in Tasks /\ s.error = "open"
  BY <1>1, <1>2 DEF Open, WalletsWith
<1> DEFINE t == [s EXCEPT ![kind] = call]
<1>4. wallet' = [wallet EXCEPT ![w].tasks[a] = t]
  BY <1>1, <1>2 DEF CallGoesTo
<1>5. /\ t \in Tasks /\ t.error = "open" /\ t.deadline = s.deadline /\ t[kind] = call
      /\ \A k \in Kinds : k # kind => t[k] = s[k]
  <2>1. CASE kind = "native"
    BY <1>3, <2>1 DEF Tasks, Kinds
  <2>2. CASE kind = "tokens"
    BY <1>3, <2>2 DEF Tasks, Kinds
  <2> QED BY <2>1, <2>2 DEF Kinds
<1> HIDE DEF t
<1>6. ASSUME NEW b \in Nat, b <= clock, clock <= b + CHAIN_TIMEOUT, TaskInTime(s, b, clock)
      PROVE  TaskInTime(t, b, clock)
  <2>1. \A k \in Kinds : CallInTime(s[k], b, clock)
    BY <1>6 DEF TaskInTime, Kinds
  <2>2. \A k \in Kinds : CallInTime(t[k], b, clock)
    BY <1>2, <1>5, <1>6, <2>1
  <2> QED BY <1>3, <1>5, <1>6, <2>2 DEF TaskInTime, Kinds
<1> QED BY <1>2, <1>4, <1>5, <1>6, TaskMoves

-----------------------------------------------------------------------------
(* The steps.                                                               *)

LEMMA OpenIsTask ==
  ASSUME PortfolioInv, NEW w \in Wallets, NEW a \in Accounts, Open(w, a)
  PROVE  wallet[w].tasks[a] \in Tasks /\ \A k \in Kinds : wallet[w].tasks[a][k] \in AdapterCalls
<1>1. PICK U : wallet \in [Wallets -> WalletsWith(U)]
  BY DEF PortfolioInv, Typed
<1>2. wallet[w].tasks[a] \in Tasks
  BY <1>1 DEF Open, WalletsWith
<1> QED BY <1>2 DEF Tasks, Kinds

LEMMA DocumentsStay ==
  ASSUME PortfolioInv, documents' = documents
  PROVE  documents' \in Documents /\ \A o \in TronAccounts : DocumentInTime(documents'[o], clock)
BY DEF PortfolioInv, Typed

LEMMA AsksKeeps ==
  ASSUME PortfolioInv, NEW w \in Wallets, NEW accounts, AsksBalances(w, accounts)
  PROVE  PortfolioInv'
<1>1. PICK tasks : tasks = [a \in Accounts |-> IF a \in accounts THEN NewTask(a) ELSE NoTask]
  OBVIOUS
<1> DEFINE v == [NoWallet EXCEPT !.at = "chains", !.tasks = tasks]
<1>2. wallet' = [wallet EXCEPT ![w] = v] /\ UNCHANGED <<clock, documents>> /\ clock \in Nat
  BY <1>1 DEF AsksBalances, PortfolioInv, Typed
<1>3. ASSUME NEW a \in Accounts
      PROVE  NewTask(a) \in Tasks /\ TaskInTime(NewTask(a), clock, clock)
  <2>1. CASE a \in BadAccounts
    BY <2>1 DEF NewTask, FailedBalance, Broken, Tasks, AdapterCalls, TaskInTime, CallInTime
  <2>2. CASE a \notin BadAccounts
    <3>0. PICK at \in {"lock", "fetch"} : at = IF a \in TronAccounts THEN "lock" ELSE "fetch"
      OBVIOUS
    <3>1. PICK call \in AdapterCalls : call = [at |-> at, read |-> -1]
      BY IsCall
    <3>2. NewTask(a) = [native |-> call, tokens |-> call, deadline |-> clock + CHAIN_TIMEOUT,
                        error |-> "open"]
      BY <2>2, <3>0, <3>1 DEF NewTask
    <3>3. clock + CHAIN_TIMEOUT \in Nat
      BY <1>2, Constants
    <3> QED BY <3>1, <3>2, <3>3 DEF Tasks, TaskInTime, CallInTime
  <2> QED BY <2>1, <2>2
<1>4. tasks \in [Accounts -> Tasks \cup {NoTask}]
  BY <1>1, <1>3
<1>5. v \in WalletsWith({0}) /\ v.at = "chains" /\ v.tasks = tasks
  BY <1>4, NobodyAsks DEF WalletsWith
<1> HIDE DEF v
<1>6. \A a \in Accounts : tasks[a] # NoTask => TaskInTime(tasks[a], clock, clock)
  BY <1>1, <1>3
<1>7. BeganAt(clock, v, clock)
  BY <1>2, <1>5, <1>6, Constants DEF BeganAt
<1>8. WalletInTime(v, clock)
  BY <1>2, <1>5, <1>7 DEF WalletInTime
<1> QED BY <1>2, <1>5, <1>8, DocumentsStay, WalletMoves

LEMMA MutexKeeps ==
  ASSUME PortfolioInv, NEW w \in Wallets, NEW a \in TronAccounts, NEW kind \in Kinds,
         TakesMutex(w, a, kind)
  PROVE  PortfolioInv'
<1>1. /\ a \in Accounts /\ Open(w, a) /\ UNCHANGED <<clock, documents>> /\ clock \in Nat
      /\ \A o \in TronAccounts : DocumentInTime(documents[o], clock)
  BY Constants DEF TakesMutex, PortfolioInv, Typed
<1>2. CASE FreshDocument(a)
  <2>1. PICK d : d = documents[a]
    OBVIOUS
  <2>2. /\ d \in [read : Nat, fetched_at : Nat] /\ DocumentInTime(d, clock) /\ d # NoDocument
        /\ clock - d.fetched_at < ACCOUNT_CACHE_TTL
    BY <1>1, <1>2, <2>1 DEF FreshDocument, PortfolioInv, Typed, Documents
  <2>3. d.read \in Nat /\ d.fetched_at \in Nat /\ d.fetched_at <= d.read + CHAIN_TIMEOUT
    BY <2>2 DEF DocumentInTime
  <2>4. PICK call \in AdapterCalls : call = [at |-> "ok", read |-> d.read]
    BY <2>3, IsCall
  <2>5. \A b \in Nat : b <= clock => CallInTime(call, b, clock)
    BY <1>1, <2>2, <2>3, <2>4, Constants DEF CallInTime
  <2>6. CallGoesTo(w, a, kind, call)
    BY <1>2, <2>1, <2>4 DEF TakesMutex
  <2> QED BY <1>1, <2>5, <2>6, DocumentsStay, CallMoves
<1>3. CASE ~ FreshDocument(a)
  <2>1. PICK call \in AdapterCalls : call = [at |-> "fetch", read |-> -1]
    BY IsCall
  <2>2. \A b \in Nat : CallInTime(call, b, clock)
    BY <2>1 DEF CallInTime
  <2>3. CallGoesTo(w, a, kind, call)
    BY <1>3, <2>1 DEF TakesMutex
  <2> QED BY <1>1, <2>2, <2>3, DocumentsStay, CallMoves
<1> QED BY <1>2, <1>3

LEMMA ReadKeeps ==
  ASSUME PortfolioInv, NEW w \in Wallets, NEW a \in Accounts, NEW kind \in Kinds,
         NetworkIsRead(w, a, kind)
  PROVE  PortfolioInv'
<1>1. /\ Open(w, a) /\ UNCHANGED <<clock, documents>> /\ clock \in Nat
  BY DEF NetworkIsRead, PortfolioInv, Typed
<1>2. PICK call \in AdapterCalls : call = [at |-> "read", read |-> clock]
  BY <1>1, IsCall
<1>3. \A b \in Nat : b <= clock => CallInTime(call, b, clock)
  BY <1>1, <1>2 DEF CallInTime
<1>4. CallGoesTo(w, a, kind, call)
  BY <1>2 DEF NetworkIsRead
<1> QED BY <1>1, <1>3, <1>4, DocumentsStay, CallMoves

\* What an open call has read is no older than the timeout of its account.
LEMMA OpenCalls ==
  ASSUME PortfolioInv, NEW w \in Wallets, NEW a \in Accounts, NEW kind \in Kinds, Open(w, a)
  PROVE  \E b \in Nat : /\ b <= clock /\ clock <= b + CHAIN_TIMEOUT
                        /\ CallInTime(wallet[w].tasks[a][kind], b, clock)
<1>1. PICK U : wallet \in [Wallets -> WalletsWith(U)]
  BY DEF PortfolioInv, Typed
<1>2. wallet[w] \in WalletsWith(U) /\ WalletInTime(wallet[w], clock)
  BY <1>1 DEF PortfolioInv
<1>3. PICK b \in Nat : BeganAt(b, wallet[w], clock)
  BY <1>2 DEF WalletInTime, Open
<1>4. wallet[w].at = "chains"
  BY <1>2, <1>3 DEF BeganAt, Open, WalletsWith, WalletInTime
<1>5. TaskInTime(wallet[w].tasks[a], b, clock)
  BY <1>3 DEF BeganAt, Open
<1> QED BY <1>3, <1>4, <1>5 DEF BeganAt, TaskInTime, Kinds

LEMMA SuccessKeeps ==
  ASSUME PortfolioInv, NEW w \in Wallets, NEW a \in Accounts, NEW kind \in Kinds,
         CallSucceeds(w, a, kind)
  PROVE  PortfolioInv'
<1>1. PICK c : c = wallet[w].tasks[a][kind]
  OBVIOUS
<1>2. /\ Open(w, a) /\ c.at = "read" /\ clock' = clock /\ clock \in Nat /\ documents \in Documents
  BY <1>1 DEF CallSucceeds, PortfolioInv, Typed
<1>3. PICK b0 \in Nat : b0 <= clock /\ clock <= b0 + CHAIN_TIMEOUT /\ CallInTime(c, b0, clock)
  BY <1>1, <1>2, OpenCalls
<1>4. c.read \in Nat /\ c.read <= clock /\ clock <= c.read + CHAIN_TIMEOUT
  BY <1>2, <1>3, Constants DEF CallInTime
<1>5. PICK call \in AdapterCalls : call = [at |-> "ok", read |-> c.read]
  BY <1>4, IsCall
<1>6. \A b \in Nat : CallInTime(c, b, clock) => CallInTime(call, b, clock)
  BY <1>2, <1>4, <1>5, Constants DEF CallInTime
<1>7. CallGoesTo(w, a, kind, call)
  BY <1>1, <1>5 DEF CallSucceeds
<1>8. PICK d \in [read : Nat, fetched_at : Nat] : d = [read |-> c.read, fetched_at |-> clock]
  BY <1>2, <1>4
<1>9. documents' = IF a \in TronAccounts THEN [documents EXCEPT ![a] = d] ELSE documents
  BY <1>1, <1>8 DEF CallSucceeds
<1>10. documents' \in Documents
  BY <1>2, <1>9 DEF Documents
<1>11. DocumentInTime(d, clock)
  BY <1>2, <1>4, <1>8 DEF DocumentInTime
<1>12. \A o \in TronAccounts : DocumentInTime(documents[o], clock)
  BY DEF PortfolioInv
<1>13. \A o \in TronAccounts : DocumentInTime(documents'[o], clock)
  BY <1>2, <1>9, <1>11, <1>12 DEF Documents
<1> QED BY <1>1, <1>2, <1>6, <1>7, <1>10, <1>13, CallMoves

LEMMA FailKeeps ==
  ASSUME PortfolioInv, NEW w \in Wallets, NEW a \in Accounts, NEW kind \in Kinds,
         CallFails(w, a, kind)
  PROVE  PortfolioInv'
<1>1. Open(w, a) /\ UNCHANGED <<clock, documents>> /\ CallGoesTo(w, a, kind, Broken)
  BY DEF CallFails
<1>2. Broken \in AdapterCalls /\ \A b \in Nat : CallInTime(Broken, b, clock)
  BY DEF Broken, AdapterCalls, CallInTime
<1> QED BY <1>1, <1>2, DocumentsStay, CallMoves

LEMMA FailedInTime ==
  ASSUME NEW error \in {"native", "timeout", "address"}
  PROVE  /\ FailedBalance(error) \in Tasks
         /\ \A b \in Nat : TaskInTime(FailedBalance(error), b, clock)
BY DEF FailedBalance, Broken, Tasks, AdapterCalls, TaskInTime, CallInTime

LEMMA ToldKeeps ==
  ASSUME PortfolioInv, NEW w \in Wallets, NEW a \in Accounts, AccountIsTold(w, a)
  PROVE  PortfolioInv'
<1>1. PICK s : s = wallet[w].tasks[a]
  OBVIOUS
<1>2. /\ Open(w, a) /\ s \in Tasks /\ UNCHANGED <<clock, documents>>
      /\ s.native.at \in {"ok", "failed"} /\ s.tokens.at \in {"ok", "failed"}
  BY <1>1, OpenIsTask DEF AccountIsTold, Settled
<1>3. PICK error : error = ErrorOf(s.native, s.tokens)
  OBVIOUS
<1>4. PICK t : t = IF error = "native" THEN FailedBalance(error)
                   ELSE [s EXCEPT !.error = error, !.deadline = 0]
  OBVIOUS
<1>5. PICK U : wallet \in [Wallets -> WalletsWith(U)]
  BY DEF PortfolioInv, Typed
<1>6. wallet' = [wallet EXCEPT ![w].tasks[a] = t]
  BY <1>1, <1>3, <1>4, <1>5 DEF AccountIsTold
<1>7. CASE error = "native"
  BY <1>2, <1>4, <1>6, <1>7, FailedInTime, DocumentsStay, TaskMoves
<1>8. CASE error # "native"
  <2>1. /\ error \in {"tokens", "none"} /\ s.native.at = "ok"
        /\ error = "none" => s.tokens.at = "ok"
    BY <1>2, <1>3, <1>8 DEF ErrorOf
  <2>2. t = [s EXCEPT !.error = error, !.deadline = 0]
    BY <1>4, <1>8
  <2>3. t \in Tasks /\ t.error = error /\ t.native = s.native /\ t.tokens = s.tokens
    BY <1>2, <2>1, <2>2 DEF Tasks
  <2>4. \A b \in Nat : TaskInTime(s, b, clock) => TaskInTime(t, b, clock)
    BY <2>1, <2>3 DEF TaskInTime
  <2> QED BY <1>1, <1>2, <1>6, <2>3, <2>4, DocumentsStay, TaskMoves
<1> QED BY <1>7, <1>8

LEMMA TimeoutKeeps ==
  ASSUME PortfolioInv, NEW w \in Wallets, NEW a \in Accounts, AccountTimesOut(w, a)
  PROVE  PortfolioInv'
<1>1. /\ Open(w, a) /\ UNCHANGED <<clock, documents>>
      /\ wallet' = [wallet EXCEPT ![w].tasks[a] = FailedBalance("timeout")]
  BY DEF AccountTimesOut
<1> QED BY <1>1, FailedInTime, DocumentsStay, TaskMoves

LEMMA PricesAskedKeeps ==
  ASSUME PortfolioInv, NEW w \in Wallets, AsksForPrices(w)
  PROVE  PortfolioInv'
<1>1. PICK U : wallet \in [Wallets -> WalletsWith(U)]
  BY DEF PortfolioInv, Typed
<1>2. PICK r : r = wallet[w]
  OBVIOUS
<1>3. /\ r \in WalletsWith(U) /\ WalletInTime(r, clock) /\ r.at = "chains"
      /\ UNCHANGED <<clock, documents>> /\ clock \in Nat
      /\ \A a \in Accounts : r.tasks[a] # NoTask => r.tasks[a].error # "open"
  BY <1>1, <1>2 DEF AsksForPrices, PortfolioInv, Typed, Asked, Open
<1>4. PICK deadline \in Nat : deadline = clock + PRICES_TIMEOUT
  BY <1>3, Constants
<1> DEFINE v == [r EXCEPT !.at = "prices", !.deadline = deadline]
<1>5. wallet' = [wallet EXCEPT ![w] = v]
  BY <1>1, <1>2, <1>4 DEF AsksForPrices
<1>6. v \in WalletsWith(U) /\ v.at = "prices" /\ v.tasks = r.tasks /\ v.deadline = deadline
  BY <1>3 DEF WalletsWith
<1> HIDE DEF v
<1>7. PICK b \in Nat : BeganAt(b, r, clock)
  BY <1>3 DEF WalletInTime
<1>8. clock <= deadline /\ deadline <= b + CHAIN_TIMEOUT + PRICES_TIMEOUT
  BY <1>3, <1>4, <1>7, Constants DEF BeganAt
<1>9. BeganAt(b, v, clock)
  BY <1>3, <1>6, <1>7, <1>8 DEF BeganAt
<1>10. WalletInTime(v, clock)
  BY <1>6, <1>9 DEF WalletInTime
<1> QED BY <1>3, <1>5, <1>6, <1>10, DocumentsStay, WalletMoves

LEMMA PricesComeKeeps ==
  ASSUME PortfolioInv, NEW w \in Wallets, PricesCome(w)
  PROVE  PortfolioInv'
<1>1. PICK U : wallet \in [Wallets -> WalletsWith(U)]
  BY DEF PortfolioInv, Typed
<1>2. PICK r : r = wallet[w]
  OBVIOUS
<1>3. /\ r \in WalletsWith(U) /\ WalletInTime(r, clock) /\ r.at = "prices"
      /\ UNCHANGED <<clock, documents>>
  BY <1>1, <1>2 DEF PricesCome, PortfolioInv
<1>4. PICK total : wallet' = [wallet EXCEPT ![w].at = "done", ![w].total = total]
  BY DEF PricesCome
<1> DEFINE v == [r EXCEPT !.at = "done", !.total = total]
<1>5. wallet' = [wallet EXCEPT ![w] = v]
  BY <1>1, <1>2, <1>4
<1>6. v \in WalletsWith({total}) /\ v.at = "done" /\ v.tasks = r.tasks /\ v.deadline = r.deadline
  BY <1>3 DEF WalletsWith
<1> HIDE DEF v
<1>7. PICK b \in Nat : BeganAt(b, r, clock)
  BY <1>3 DEF WalletInTime
<1>8. BeganAt(b, v, clock)
  BY <1>3, <1>6, <1>7 DEF BeganAt
<1>9. WalletInTime(v, clock)
  BY <1>6, <1>8 DEF WalletInTime
<1> QED BY <1>3, <1>5, <1>6, <1>9, DocumentsStay, WalletMoves

LEMMA TickKeeps ==
  ASSUME PortfolioInv, PortfolioTick
  PROVE  PortfolioInv'
<1>1. PICK U : wallet \in [Wallets -> WalletsWith(U)]
  BY DEF PortfolioInv, Typed
<1>2. clock \in Nat /\ clock' = clock + 1 /\ documents' = documents /\ wallet' = wallet
  BY DEF PortfolioTick, Tick, PortfolioInv, Typed
<1>3. Typed'
  <2>1. \E V : wallet' \in [Wallets -> WalletsWith(V)]
    BY <1>1, <1>2
  <2>2. clock' \in Nat /\ documents' \in Documents
    BY <1>2 DEF PortfolioInv, Typed
  <2> QED BY <2>1, <2>2 DEF Typed, WalletsWith, Tasks, AdapterCalls, Documents
<1>4. \A a \in TronAccounts : DocumentInTime(documents[a], clock)'
  <2> SUFFICES ASSUME NEW a \in TronAccounts, documents[a] # NoDocument
               PROVE  documents[a].fetched_at <= clock'
    BY <1>2 DEF PortfolioInv, DocumentInTime
  <2>1. documents[a].fetched_at \in Nat /\ documents[a].fetched_at <= clock
    BY DEF PortfolioInv, Typed, Documents, DocumentInTime
  <2> QED BY <1>2, <2>1
<1>5. ASSUME NEW w \in Wallets PROVE WalletInTime(wallet[w], clock + 1)
  <2>1. PICK r : r = wallet[w]
    OBVIOUS
  <2>2. /\ r \in WalletsWith(U) /\ WalletInTime(r, clock) /\ r.at # "done"
        /\ r.at = "prices" => clock < r.deadline
        /\ r.at = "chains" => \E a \in Accounts : r.tasks[a] # NoTask /\ r.tasks[a].error = "open"
        /\ \A a \in Accounts : r.tasks[a] # NoTask /\ r.tasks[a].error = "open"
                              => clock < r.tasks[a].deadline
    BY <1>1, <2>1 DEF PortfolioTick, PortfolioInv, Asked, Open
  <2>3. CASE r.at = "idle"
    BY <2>1, <2>2, <2>3 DEF WalletInTime
  <2>4. CASE r.at # "idle"
    <3>1. PICK b \in Nat : BeganAt(b, r, clock)
      BY <2>2, <2>4 DEF WalletInTime
    <3>2. ASSUME NEW call, CallInTime(call, b, clock) PROVE CallInTime(call, b, clock + 1)
      BY <1>2, <3>2 DEF CallInTime
    <3>3. \A a \in Accounts : r.tasks[a] # NoTask => TaskInTime(r.tasks[a], b, clock + 1)
      BY <3>1, <3>2 DEF BeganAt, TaskInTime
    <3>4. r.at = "chains" => clock + 1 <= b + CHAIN_TIMEOUT
      BY <1>2, <2>2, <3>1, Constants DEF BeganAt, TaskInTime
    <3>5. r.at = "prices" => clock + 1 <= r.deadline
      BY <1>2, <2>2 DEF WalletsWith
    <3>6. BeganAt(b, r, clock + 1)
      BY <1>2, <2>2, <3>1, <3>3, <3>4, <3>5 DEF BeganAt
    <3> QED BY <2>1, <2>4, <3>6 DEF WalletInTime
  <2> QED BY <2>3, <2>4
<1>6. \A w \in Wallets : WalletInTime(wallet[w], clock)'
  BY <1>2, <1>5
<1> QED BY <1>3, <1>4, <1>6 DEF PortfolioInv

LEMMA StepKeeps == PortfolioInv /\ [PortfolioNext]_portfolioVars => PortfolioInv'
<1> SUFFICES ASSUME PortfolioInv, [PortfolioNext]_portfolioVars PROVE PortfolioInv'
  OBVIOUS
<1>1. CASE PortfolioTick
  BY <1>1, TickKeeps
<1>2. ASSUME NEW w \in Wallets, NEW accounts, AsksBalances(w, accounts) PROVE PortfolioInv'
  BY <1>2, AsksKeeps
<1>3. ASSUME NEW w \in Wallets, NEW a \in Accounts, AccountIsTold(w, a) \/ AccountTimesOut(w, a)
      PROVE  PortfolioInv'
  BY <1>3, ToldKeeps, TimeoutKeeps
<1>4. ASSUME NEW w \in Wallets, NEW a \in Accounts, NEW kind \in Kinds,
             \/ a \in TronAccounts /\ TakesMutex(w, a, kind)
             \/ NetworkIsRead(w, a, kind) \/ CallSucceeds(w, a, kind) \/ CallFails(w, a, kind)
      PROVE  PortfolioInv'
  BY <1>4, MutexKeeps, ReadKeeps, SuccessKeeps, FailKeeps
<1>5. ASSUME NEW w \in Wallets, AsksForPrices(w) \/ PricesCome(w) PROVE PortfolioInv'
  BY <1>5, PricesAskedKeeps, PricesComeKeeps
<1>6. ASSUME NEW w \in Wallets, LeavesWithBalances(w) PROVE PortfolioInv'
  BY <1>6, NobodyAsks, DocumentsStay, WalletMoves DEF LeavesWithBalances
<1>7. CASE UNCHANGED portfolioVars
  <2>1. UNCHANGED <<clock, documents, wallet>>
    BY <1>7 DEF portfolioVars
  <2>2. Typed'
    BY <2>1 DEF PortfolioInv, Typed, WalletsWith, Tasks, AdapterCalls, Documents
  <2>3. \A a \in TronAccounts : DocumentInTime(documents[a], clock)'
    BY <2>1 DEF PortfolioInv, DocumentInTime
  <2>4. \A w \in Wallets : WalletInTime(wallet[w], clock)'
    BY <2>1 DEF PortfolioInv
  <2> QED BY <2>2, <2>3, <2>4 DEF PortfolioInv
<1> QED BY <1>1, <1>2, <1>3, <1>4, <1>5, <1>6, <1>7 DEF PortfolioNext

LEMMA BalancesInTime == PortfolioInv => BalancesAreRecent
<1> SUFFICES ASSUME PortfolioInv, NEW w \in Wallets, NEW a \in Accounts, NEW kind \in Kinds,
                    wallet[w].at = "done", a \in Asked(w), Shows(wallet[w].tasks[a], kind)
             PROVE  /\ wallet[w].tasks[a][kind].read >= 0
                    /\ clock - wallet[w].tasks[a][kind].read <= PortfolioLag
  BY DEF BalancesAreRecent
<1>1. PICK U : wallet \in [Wallets -> WalletsWith(U)]
  BY DEF PortfolioInv, Typed
<1>2. PICK s : s = wallet[w].tasks[a]
  OBVIOUS
<1>3. /\ s \in Tasks /\ clock \in Nat /\ wallet[w].deadline \in Nat /\ s # NoTask
      /\ WalletInTime(wallet[w], clock)
  BY <1>1, <1>2 DEF Asked, WalletsWith, PortfolioInv, Typed
<1>4. PICK b \in Nat : BeganAt(b, wallet[w], clock)
  BY <1>3 DEF WalletInTime
<1>5. /\ TaskInTime(s, b, clock)
      /\ clock <= wallet[w].deadline
      /\ wallet[w].deadline <= b + CHAIN_TIMEOUT + PRICES_TIMEOUT
  BY <1>2, <1>3, <1>4 DEF BeganAt
<1>6. s[kind].at = "ok" /\ CallInTime(s[kind], b, clock)
  BY <1>2, <1>5 DEF TaskInTime, Shows, Kinds
<1>7. s[kind].read \in Nat /\ b - (ACCOUNT_CACHE_TTL - 1) - CHAIN_TIMEOUT <= s[kind].read
  BY <1>6 DEF CallInTime
<1>8. PICK n \in Nat : n = s[kind].read
  BY <1>7
<1>9. PICK e \in Nat : e = wallet[w].deadline
  BY <1>3
<1>10. clock - n <= 2 * CHAIN_TIMEOUT + ACCOUNT_CACHE_TTL - 1 + PRICES_TIMEOUT
  BY <1>3, <1>5, <1>7, <1>8, <1>9, Constants
<1> QED BY <1>2, <1>8, <1>10 DEF PortfolioLag

\* What a portfolio shows without an error was read from the network, within
\* two timeouts, the time to live of a document and the wait for the prices,
\* however many requests wait for the mutex (balances, fetch_account).
THEOREM BalancesCorrect == PortfolioSpec => []BalancesAreRecent
BY BalancesInTime, InitInv, StepKeeps, PTL DEF PortfolioSpec

=============================================================================
