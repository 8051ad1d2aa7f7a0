------------------------------ MODULE PriceCache ------------------------------
(* The price service of the API server (crates/api-server/src/pricing.rs,   *)
(* get_prices) under concurrent callers: a map with a time to live behind a *)
(* read-write lock that is not held while CoinGecko is asked.  A price is   *)
(* the instant at which CoinGecko quoted it.                                *)
EXTENDS ServerTime, FiniteSetsExt

CONSTANTS
    Ids,            \* CoinGecko ids
    Callers,        \* requests under way at the same time
    Wanted,         \* caller -> the sets of ids it may ask for
    PRICE_TTL,      \* seconds a cached price counts as fresh
    PRICE_TIMEOUT,  \* FETCH_TIMEOUT: seconds after which a fetch is given up
    NoPrice

ASSUME PricesAssumption ==
    /\ PRICE_TTL \in Nat \ {0} /\ PRICE_TIMEOUT \in Nat
    /\ Wanted \in [Callers -> SUBSET SUBSET Ids]
    /\ NoPrice \notin Int
    /\ NoPrice \notin [quoted : Int, fetched_at : Int]

VARIABLES
    cache,   \* id -> quote and the time it was stored, or NoPrice
    caller   \* a call: where it is and what it knows

pricesVars == <<clock, cache, caller>>

\* A call: the ids it must fetch, when the fetch times
\* out, CoinGecko's answer, the result, the newest fetched_at of what it returns.
NoCaller == [at |-> "idle", to_fetch |-> {}, deadline |-> 0,
          quotes |-> [i \in Ids |-> NoPrice], result |-> [i \in Ids |-> NoPrice],
          updated_at |-> -1, stale |-> FALSE]

Times == 0..MaxTime

PricesTypeOK ==
    /\ clock \in Times
    /\ cache \in [Ids -> [quoted : Times, fetched_at : Times] \cup {NoPrice}]
    /\ caller \in [Callers ->
         [at : {"idle", "fetching", "answered", "done"},
          to_fetch : SUBSET Ids, deadline : 0..(MaxTime + PRICE_TIMEOUT),
          quotes : [Ids -> Times \cup {NoPrice}], result : [Ids -> Times \cup {NoPrice}],
          updated_at : Times \cup {-1}, stale : BOOLEAN]]

PricesInit ==
    /\ clock = 0
    /\ cache = [i \in Ids |-> NoPrice]
    /\ caller = [c \in Callers |-> NoCaller]

-----------------------------------------------------------------------------

\* Slip: no entry ever expires.
FreshForEver(i) == cache[i] # NoPrice

PriceFresh(i) == cache[i] # NoPrice /\ clock - cache[i].fetched_at < PRICE_TTL

\* The newest storing time among the cached ids; -1 stands for the code's 0.
Newest(ids) == Max({-1} \cup {cache[i].fetched_at : i \in ids})

Quotes(ids) == [i \in Ids |-> IF i \in ids THEN cache[i].quoted ELSE NoPrice]

\* get_prices, up to the fetch.
AsksPrices(c, ids) ==
    LET fresh == {i \in ids : PriceFresh(i)}
    IN  /\ caller[c].at = "idle"
        /\ caller' = [caller EXCEPT ![c] =
             [NoCaller EXCEPT !.at         = IF fresh = ids THEN "done" ELSE "fetching",
                              !.to_fetch   = ids \ fresh,
                              !.deadline   = clock + PRICE_TIMEOUT,
                              !.result     = Quotes(fresh),
                              !.updated_at = Newest(fresh)]]
        /\ UNCHANGED <<clock, cache>>

\* CoinGecko quotes the ids it knows; the answer is under way.
CoinGeckoQuotes(c) ==
    /\ caller[c].at = "fetching"
    /\ \E known \in SUBSET caller[c].to_fetch :
         caller' = [caller EXCEPT
             ![c].at = "answered",
             ![c].quotes = [i \in Ids |-> IF i \in known THEN clock ELSE NoPrice]]
    /\ UNCHANGED <<clock, cache>>

Quoted(c) == {i \in Ids : caller[c].quotes[i] # NoPrice}

\* Ok(fresh): stored and returned.
StoresPrices(c) ==
    /\ caller[c].at = "answered"
    /\ cache' = [i \in Ids |->
         IF i \in Quoted(c)
           THEN [quoted |-> caller[c].quotes[i], fetched_at |-> clock] ELSE cache[i]]
    /\ caller' = [caller EXCEPT
         ![c].at         = "done",
         ![c].result     = [i \in Ids |->
            IF i \in Quoted(c) THEN caller[c].quotes[i] ELSE @[i]],
         ![c].updated_at = clock]
    /\ UNCHANGED clock

\* Err: whatever the cache still has, however old.
PricesFail(c) ==
    LET old == {i \in caller[c].to_fetch : cache[i] # NoPrice}
    IN  /\ caller[c].at \in {"fetching", "answered"}
        /\ caller' = [caller EXCEPT
             ![c].at         = "done",
             ![c].stale      = TRUE,
             ![c].result     = [i \in Ids |-> IF i \in old THEN cache[i].quoted ELSE @[i]],
             ![c].updated_at = LET newest == Larger(@, Newest(old))
                               IN  IF newest < 0 THEN clock ELSE newest]
        /\ UNCHANGED <<clock, cache>>

\* The caller has its answer and goes.
LeavesWithPrices(c) ==
    /\ caller[c].at = "done"
    /\ caller' = [caller EXCEPT ![c] = NoCaller]
    /\ UNCHANGED <<clock, cache>>

\* A second passes; a fetch does not outlive its timeout, an answer is stored
\* and taken in the second it has come.
PricesTick ==
    /\ Tick
    /\ \A c \in Callers :
         /\ caller[c].at \in {"fetching", "answered"} => clock < caller[c].deadline
         /\ caller[c].at # "done"
    /\ UNCHANGED <<cache, caller>>

PricesNext ==
    \/ PricesTick
    \/ \E c \in Callers :
         \/ \E ids \in Wanted[c] : AsksPrices(c, ids)
         \/ CoinGeckoQuotes(c) \/ StoresPrices(c) \/ PricesFail(c) \/ LeavesWithPrices(c)

PricesSpec == PricesInit /\ [][PricesNext]_pricesVars

-----------------------------------------------------------------------------

\* A price that is not marked stale by a failed fetch was quoted no longer ago
\* than the time to live and two fetches together: the one that brought it,
\* whose answer may have been stored late, by another caller and over a newer
\* one, and the one that this caller waited for because of its other ids
\* (PRICE_TTL, PRICE_TIMEOUT).
PricesAreRecent ==
    \A c \in Callers, i \in Ids :
        /\ caller[c].at = "done" /\ caller[c].result[i] # NoPrice
        /\ ~ caller[c].stale
        => clock - caller[c].result[i] < PRICE_TTL + 2 * PRICE_TIMEOUT
=============================================================================
