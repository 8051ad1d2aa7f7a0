------------------------------ MODULE NodeCalls ------------------------------
(* The way of a call to a blockchain node: a handler of the API server     *)
(* (crates/api-server/src/handlers/tx.rs, broadcast), the adapter's        *)
(* reliability layer (crates/chain-adapters/src/reliability.rs, run) with  *)
(* its retries and its semaphore, the JSON-RPC attempt (jsonrpc.rs,        *)
(* call_once) and the node, which may have done what it was asked although *)
(* its answer is lost.  One adapter instance; the extension signs every    *)
(* transaction anew, so no two calls broadcast the same one and a call     *)
(* stands for its transaction.                                             *)
EXTENDS Integers, FiniteSets, Sequences, SequencesExt

CONSTANTS
    Calls,        \* calls of handlers to the node
    Broadcasts,   \* those that send a signed transaction
    Concurrency,  \* permits of the semaphore
    MAX_RETRIES   \* max_retries of the RetryPolicy

ASSUME CallsAssumption == Broadcasts \subseteq Calls
ASSUME ConcurrencyAssumption == Concurrency \in Nat \ {0}
ASSUME RetriesAssumption == MAX_RETRIES \in Nat

\* What an attempt can bring, and what the handler answers in the end: a
\* result, the node's refusals (known: the transaction is already in its
\* pool), a broken transport, RateLimited after the last retry, the handler's
\* own timeout.
Answers == {"ok", "known", "refused"}
Results == Answers \cup {"broken", "rateLimited", "timeout"}

VARIABLES
    stage,    \* where the call is
    attempt,  \* attempt, counted from 0
    result,   \* what the handler answered
    permits,  \* free permits
    waiters,  \* calls that await a permit, in the order tokio serves them
    answer,   \* the node's answer to the attempt in flight, "none" before it
    tries,    \* attempts put on the wire so far
    pool,     \* transactions the node has accepted
    strays    \* transactions still on their way although nobody waits

vars == <<stage, attempt, result, permits, waiters, answer, tries, pool, strays>>

Stages == {"idle", "waiting", "sent", "sleeping", "ended"}

TypeOK ==
    /\ stage \in [Calls -> Stages]
    /\ attempt \in [Calls -> 0..MAX_RETRIES]
    /\ result \in [Calls -> Results \cup {"none"}]
    /\ permits \in 0..Concurrency
    /\ waiters \in Seq(Calls)
    /\ answer \in [Calls -> Answers \cup {"none"}]
    /\ tries \in [Calls -> 0..(MAX_RETRIES + 1)]
    /\ pool \subseteq Broadcasts
    /\ strays \subseteq Broadcasts

Init ==
    /\ stage = [k \in Calls |-> "idle"]
    /\ attempt = [k \in Calls |-> 0]
    /\ result = [k \in Calls |-> "none"]
    /\ permits = Concurrency
    /\ waiters = <<>>
    /\ answer = [k \in Calls |-> "none"]
    /\ tries = [k \in Calls |-> 0]
    /\ pool = {}
    /\ strays = {}

-----------------------------------------------------------------------------
(* The semaphore.  A permit that comes back goes to the first waiter.      *)

\* acquire_owned: the call k goes on at once or queues.
Acquire(k) ==
    IF permits > 0
      THEN /\ permits' = permits - 1
           /\ stage' = [stage EXCEPT ![k] = "sent"]
           /\ tries' = [tries EXCEPT ![k] = @ + 1]
           /\ UNCHANGED waiters
      ELSE /\ waiters' = Append(waiters, k)
           /\ stage' = [stage EXCEPT ![k] = "waiting"]
           /\ UNCHANGED <<permits, tries>>

\* Slip: the permit is forgotten.
ReleaseNothing(k, next) ==
    /\ stage' = [stage EXCEPT ![k] = next]
    /\ UNCHANGED <<permits, waiters, tries>>

\* drop(permit): the call k goes on as next without it.
Release(k, next) ==
    IF waiters = <<>>
      THEN /\ permits' = permits + 1
           /\ stage' = [stage EXCEPT ![k] = next]
           /\ UNCHANGED <<waiters, tries>>
      ELSE LET first == Head(waiters)
           IN  /\ waiters' = Tail(waiters)
               /\ stage' = [stage EXCEPT ![k] = next, ![first] = "sent"]
               /\ tries' = [tries EXCEPT ![first] = @ + 1]
               /\ UNCHANGED permits

-----------------------------------------------------------------------------
(* The node.                                                               *)

\* A transaction arrives: it enters the pool, is known already, or is refused.
\* A call that only reads is answered or refused.
NodeAnswers(k) ==
    /\ stage[k] = "sent" /\ answer[k] = "none"
    /\ \E a \in Answers :
         /\ a = "known" <=> k \in pool
         /\ answer' = [answer EXCEPT ![k] = a]
         /\ pool' = IF a = "ok" /\ k \in Broadcasts THEN pool \cup {k} ELSE pool
    /\ UNCHANGED <<stage, attempt, result, permits, waiters, tries, strays>>

\* A copy whose attempt was given up arrives after all, or never.
StrayArrives(k) ==
    /\ k \in strays
    /\ strays' = strays \ {k}
    /\ pool' \in {pool, pool \cup {k}}
    /\ UNCHANGED <<stage, attempt, result, permits, waiters, answer, tries>>

\* An attempt ends without the node having been heard: what it sent is under
\* way or lost.
GiveUpAttempt(k) ==
    /\ answer' = [answer EXCEPT ![k] = "none"]
    /\ strays' \in IF k \in Broadcasts /\ stage[k] = "sent" /\ answer[k] = "none"
                     THEN {strays, strays \cup {k}} ELSE {strays}

-----------------------------------------------------------------------------
(* ReliabilityLayer::run.                                                  *)

\* A handler calls the adapter.
Starts(k) ==
    /\ stage[k] = "idle"
    /\ Acquire(k)
    /\ UNCHANGED <<attempt, result, answer, pool, strays>>

\* Ok, or a JSON-RPC error, which is final.
AnswerArrives(k) ==
    /\ stage[k] = "sent" /\ answer[k] # "none"
    /\ result' = [result EXCEPT ![k] = answer[k]]
    /\ answer' = [answer EXCEPT ![k] = "none"]
    /\ Release(k, "ended")
    /\ UNCHANGED <<attempt, pool, strays>>

\* A transport error that is neither a timeout nor a failed connection.
TransportBreaks(k) ==
    /\ stage[k] = "sent"
    /\ result' = [result EXCEPT ![k] = "broken"]
    /\ GiveUpAttempt(k)
    /\ Release(k, "ended")
    /\ UNCHANGED <<attempt, pool>>

\* Slip: one retry too many.
ExhaustedLate(k) == attempt[k] > MAX_RETRIES

\* No retry is left.
Exhausted(k) == attempt[k] >= MAX_RETRIES

\* 429, 500, 502, 503, 504, a timeout or a failed connection.
AttemptFails(k) ==
    /\ stage[k] = "sent"
    /\ GiveUpAttempt(k)
    /\ IF Exhausted(k)
         THEN /\ result' = [result EXCEPT ![k] = "rateLimited"]
              /\ Release(k, "ended")
         ELSE /\ result' = result
              /\ Release(k, "sleeping")
    /\ UNCHANGED <<attempt, pool>>

\* The delay is over.
Wakes(k) ==
    /\ stage[k] = "sleeping"
    /\ attempt' = [attempt EXCEPT ![k] = @ + 1]
    /\ Acquire(k)
    /\ UNCHANGED <<result, answer, pool, strays>>

\* Slip: a dropped call keeps its place in the queue.
WithdrawWaits(k) ==
    IF stage[k] = "sent"
      THEN Release(k, "ended")
      ELSE /\ stage' = [stage EXCEPT ![k] = "ended"]
           /\ UNCHANGED <<permits, waiters, tries>>

\* The future of the call k is dropped: with its permit, or with its place in
\* the queue.
Withdraw(k) ==
    \/ /\ stage[k] = "sent"
       /\ Release(k, "ended")
    \/ /\ stage[k] \in {"waiting", "sleeping"}
       /\ stage' = [stage EXCEPT ![k] = "ended"]
       /\ IF stage[k] = "waiting"
            THEN \E i \in DOMAIN waiters :
                   waiters[i] = k /\ waiters' = RemoveAt(waiters, i)
            ELSE UNCHANGED waiters
       /\ UNCHANGED <<permits, tries>>

\* tokio::time::timeout of the handler, or a client that hung up.
Dropped(k) ==
    /\ stage[k] \in {"waiting", "sent", "sleeping"}
    /\ result' = [result EXCEPT ![k] = "timeout"]
    /\ GiveUpAttempt(k)
    /\ Withdraw(k)
    /\ UNCHANGED <<attempt, pool>>

-----------------------------------------------------------------------------

AttemptEnds(k) == AnswerArrives(k) \/ TransportBreaks(k) \/ AttemptFails(k)

Next ==
    \E k \in Calls :
        \/ Starts(k) \/ AttemptEnds(k) \/ Wakes(k) \/ Dropped(k)
        \/ NodeAnswers(k) \/ StrayArrives(k)

Spec == Init /\ [][Next]_vars

\* The node or the network ends every attempt and timers run out.  No handler
\* need time out.
Fairness == \A k \in Calls : WF_vars(AttemptEnds(k)) /\ WF_vars(Wakes(k))

FairSpec == Spec /\ Fairness

-----------------------------------------------------------------------------

Sent == {k \in Calls : stage[k] = "sent"}

\* Every permit is free or held by one attempt in flight, through retries,
\* timeouts and dropped futures; nobody waits while one is free, and exactly
\* the waiting calls queue, once each (the semaphore of ReliabilityLayer).
PermitsAddUp ==
    /\ permits + Cardinality(Sent) = Concurrency
    /\ waiters # <<>> => permits = 0
    /\ ToSet(waiters) = {k \in Calls : stage[k] = "waiting"}
    /\ IsInjective(waiters)

\* Without any handler's timeout, every call gets an answer if attempts end:
\* nobody starves for a permit, however the others fail and retry.  As every call
\* runs once, that is: again and again none is under way.
CallsEnd == []<>(\A k \in Calls : stage[k] \in {"idle", "ended"})

\* api.ts, retriable: no automatic repetition of a broadcast turns a
\* transaction that was sent into the error "already known".
SentIsNotAnError == \A k \in Broadcasts : result[k] # "known"
=============================================================================
