------------------------------ MODULE ServerTime ------------------------------
(* The clock that the API server's token buckets and caches read            *)
(* (std::time::Instant, crates/api-server), in whole seconds.               *)
EXTENDS Integers

CONSTANT MaxTime  \* bound: the last instant of a behaviour

ASSUME TimeAssumption == MaxTime \in Nat

VARIABLE clock

Smaller(x, y) == IF x < y THEN x ELSE y
Larger(x, y)  == IF x > y THEN x ELSE y

\* Instant::saturating_duration_since
Elapsed(now, then) == Larger(now - then, 0)

Tick == clock < MaxTime /\ clock' = clock + 1
=============================================================================
