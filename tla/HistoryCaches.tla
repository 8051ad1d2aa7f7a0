---------------------------- MODULE HistoryCaches ----------------------------
(* The two caches between Etherscan and an answer about the past: that of   *)
(* the indexer (crates/api-server/src/indexer.rs, history) with one entry   *)
(* for each network, and that of the analytics on top of it                 *)
(* (handlers/analytics.rs, collect_history), while the networks go on.  No  *)
(* lock is held during a fetch, and the two lists of one history are        *)
(* fetched one after the other.  The address is an EVM address.             *)
EXTENDS ServerTime, TxItems

CONSTANTS
    EvmChains,      \* the networks in the order they are asked, a sequence
    Deeds,          \* what can happen to the owner: transactions without hash and time
    Past,           \* pairs of a network and a deed: what happened before the server started
    Jobs,           \* requests under way at the same time
    Analysts,       \* those of them that ask for the analytics, the others for a history
    INDEX_TTL,      \* CACHE_TTL of the indexer
    ANALYTICS_TTL,  \* CACHE_TTL of the analytics
    FETCH_TIMEOUT,  \* of one network, around both lists
    PAGE_SIZE,      \* rows that Etherscan gives of either list
    PERIOD,         \* the period asked for
    USD,            \* the price of a coin
    MaxMined,       \* bound: transactions on all networks
    Nothing

Chains == ToSet(EvmChains)

\* Etherscan has a row for a token move that the owner makes or receives.
OwnPlaces(moves) == {k \in DOMAIN moves : Owner \in {moves[k].from, moves[k].to}}

ASSUME HistoryAssumption ==
    /\ {INDEX_TTL, ANALYTICS_TTL, FETCH_TIMEOUT, PAGE_SIZE, PERIOD, USD, MaxMined} \subseteq Nat
    /\ INDEX_TTL > 0 /\ ANALYTICS_TTL > 0 /\ Analysts \subseteq Jobs
    /\ EvmChains \in Seq(Chains) /\ IsInjective(EvmChains)
    /\ Past \in Seq(Chains \X {p[2] : p \in ToSet(Past)})
    /\ \A deed \in Deeds \cup {p[2] : p \in ToSet(Past)} :
         /\ Owner \in {deed.from, deed.to} \/ OwnPlaces(deed.moves) # {}
         /\ deed.value \in Nat /\ deed.fee \in Nat
         /\ IsFiniteSet(DOMAIN deed.moves)
         /\ \A k \in DOMAIN deed.moves : k \in Nat /\ deed.moves[k].amount \in Nat

VARIABLES
    mined,      \* what the networks have, oldest first
    index,      \* the indexer's cache, by network
    collected,  \* the entry of the analytics cache
    job         \* requests

historyVars == <<clock, mined, index, collected, job>>

\* A request: what it asks for, the networks still to do, the price it took,
\* the rows of txlist it has, what it found, when it gives up, what it tells
\* and (history, the code only logs it) the networks it does without: that
\* failed, or were not asked for.
NoJob == [at |-> "idle", kind |-> "none", todo |-> <<>>, usd |-> 0, txlist |-> {},
          found |-> {}, deadline |-> 0, items |-> <<>>, skipped |-> {}]

Silence == [c \in Chains |-> {}]

HistoryTypeOK ==
    /\ \A c \in Chains : index[c] # Nothing =>
         index[c].at \in 0..clock /\ index[c].items \subseteq Item
    /\ collected # Nothing =>
         /\ collected.at \in 0..clock /\ collected.skipped \subseteq Chains
         /\ \A c \in Chains : collected.items[c] \subseteq Item
    /\ \A j \in Jobs :
         /\ job[j].at \in {"idle", "starts", "txlist", "tokentx", "stores", "done", "error"}
         /\ job[j].kind \in {"none", "history", "analytics"}
         /\ job[j].deadline \in 0..(MaxTime + FETCH_TIMEOUT)

\* A deed on a network.  A hash is the number of its transaction.
Tx(hash, at, c, deed) ==
    [hash |-> hash, at |-> at, chain |-> c, from |-> deed.from, to |-> deed.to,
     value |-> deed.value, call |-> deed.call, fname |-> deed.fname, fee |-> deed.fee,
     failed |-> deed.failed, moves |-> deed.moves]

HistoryInit ==
    /\ clock = 0
    /\ mined = [k \in 1..Len(Past) |-> Tx(k, 0, Past[k][1], Past[k][2])]
    /\ index = [c \in Chains |-> Nothing]
    /\ collected = Nothing
    /\ job = [j \in Jobs |-> NoJob]

-----------------------------------------------------------------------------
(* The networks and Etherscan.                                              *)

\* A block is mined.
Mines(c) ==
    /\ Len(mined) < MaxMined
    /\ \E deed \in Deeds : mined' = Append(mined, Tx(Len(mined) + 1, clock, c, deed))
    /\ UNCHANGED <<clock, index, collected, job>>

MinedOn(log, c) == {tx \in ToSet(log) : tx.chain = c}

\* The transactions the owner sent or received, and the token moves he makes or
\* receives: each a row, named by its hash and its place in the transaction.
OwnTxs(log, c)  == {tx \in MinedOn(log, c) : Owner \in {tx.from, tx.to}}
OwnRows(log, c) == UNION {{tx.hash} \X OwnPlaces(tx.moves) : tx \in MinedOn(log, c)}

\* sort=desc: the rows before another one.
TxsBefore(log, tx) == {t \in OwnTxs(log, tx.chain) : t.hash > tx.hash}

RowsBefore(log, c, row) ==
    {r \in OwnRows(log, c) : r[1] > row[1] \/ (r[1] = row[1] /\ r[2] < row[2])}

\* The places of the moves of a transaction that the first page has room for.
PlacesListed(log, tx) ==
    {k \in OwnPlaces(tx.moves) :
        Cardinality(RowsBefore(log, tx.chain, <<tx.hash, k>>)) < PAGE_SIZE}

\* account.txlist: the newest PAGE_SIZE transactions of the owner.
TxList(log, c) == {tx \in OwnTxs(log, c) : Cardinality(TxsBefore(log, tx)) < PAGE_SIZE}

\* The group of a transaction among the rows of tokentx.
MovesIn(log, tx) == [at |-> tx.at, moves |-> Restrict(tx.moves, PlacesListed(log, tx))]

\* account.tokentx: the newest PAGE_SIZE rows, where the page may end between
\* the moves of one transaction.
TokenTx(log, c) ==
    [h \in {tx.hash : tx \in {t \in MinedOn(log, c) : PlacesListed(log, t) # {}}} |->
        MovesIn(log, log[h])]

-----------------------------------------------------------------------------
(* The requests.                                                            *)

Chain(j) == Head(job[j].todo)

Goes(j, to) == job' = [job EXCEPT ![j] = to]

\* history (one network, with no limit) and fees, summary (all): the second
\* look into the analytics cache first.
AsksHistory(j, c) ==
    /\ job[j].at = "idle"
    /\ Goes(j, [NoJob EXCEPT !.at = "starts", !.kind = "history", !.todo = <<c>>,
                             !.items = Silence, !.skipped = Chains \ {c}])
    /\ UNCHANGED <<clock, mined, index, collected>>

AsksAnalytics(j) ==
    LET new == [NoJob EXCEPT !.kind = "analytics"]
    IN  /\ job[j].at = "idle"
        /\ Goes(j, IF collected # Nothing /\ clock - collected.at < ANALYTICS_TTL
                     THEN [new EXCEPT !.at = "done", !.items = collected.items,
                                      !.skipped = collected.skipped]
                     ELSE [new EXCEPT !.at = "starts", !.todo = EvmChains,
                                      !.items = Silence])
        /\ UNCHANGED <<clock, mined, index, collected>>

\* The request j after its first network: told these items of it, or nothing.
Told(j, items) ==
    [NoJob EXCEPT !.at = "starts", !.kind = job[j].kind, !.todo = Tail(job[j].todo),
                  !.skipped = job[j].skipped, !.items = [job[j].items EXCEPT ![Chain(j)] = items]]

Skipped(j) ==
    [Told(j, {}) EXCEPT !.skipped = @ \cup {Chain(j)}]

IndexFresh(c) == index[c] # Nothing /\ clock - index[c].at < INDEX_TTL

\* The price has come, or failed to; then the indexer looks into its cache.
LooksUp(j) ==
    /\ job[j].at = "starts" /\ job[j].todo # <<>>
    /\ \E usd \in {0, USD} :
         Goes(j, IF IndexFresh(Chain(j))
                   THEN Told(j, index[Chain(j)].items)
                   ELSE [job[j] EXCEPT !.at = "txlist", !.usd = usd,
                                       !.deadline = clock + FETCH_TIMEOUT])
    /\ UNCHANGED <<clock, mined, index, collected>>

FetchesTxlist(j) ==
    /\ job[j].at = "txlist"
    /\ Goes(j, [job[j] EXCEPT !.at = "tokentx", !.txlist = TxList(mined, Chain(j))])
    /\ UNCHANGED <<clock, mined, index, collected>>

FetchesTokentx(j) ==
    /\ job[j].at = "tokentx"
    /\ Goes(j, [job[j] EXCEPT !.at = "stores", !.txlist = {}, !.found =
          NormalizeEtherscan(job[j].txlist, TokenTx(mined, Chain(j)), job[j].usd)])
    /\ UNCHANGED <<clock, mined, index, collected>>

\* The second answer is there: into the cache, and on to the next network.
Stores(j) ==
    /\ job[j].at = "stores"
    /\ index' = [index EXCEPT ![Chain(j)] = [at |-> clock, items |-> job[j].found]]
    /\ Goes(j, Told(j, job[j].found))
    /\ UNCHANGED <<clock, mined, collected>>

\* An error or the timeout: an error for the history of one network, while the
\* analytics do without it.
FetchFails(j) ==
    /\ job[j].at \in {"txlist", "tokentx", "stores"}
    /\ Goes(j, IF job[j].kind = "history"
                 THEN [NoJob EXCEPT !.at = "error"] ELSE Skipped(j))
    /\ UNCHANGED <<clock, mined, index, collected>>

\* All networks are done: into the analytics cache.
CollectsHistory(j) ==
    /\ job[j].at = "starts" /\ job[j].todo = <<>>
    /\ collected' = IF job[j].kind = "history" THEN collected
                      ELSE [at |-> clock, items |-> job[j].items, skipped |-> job[j].skipped]
    /\ Goes(j, [job[j] EXCEPT !.at = "done"])
    /\ UNCHANGED <<clock, mined, index>>

Leaves(j) ==
    /\ job[j].at \in {"done", "error"}
    /\ Goes(j, NoJob)
    /\ UNCHANGED <<clock, mined, index, collected>>

\* A day passes.  A fetch does not outlive its timeout; only fetches take time.
HistoryTick ==
    /\ Tick
    /\ \A j \in Jobs :
         \/ job[j].at = "idle"
         \/ job[j].at \in {"txlist", "tokentx", "stores"} /\ clock < job[j].deadline
    /\ UNCHANGED <<mined, index, collected, job>>

HistoryNext ==
    \/ HistoryTick
    \/ \E c \in Chains : Mines(c)
    \/ \E j \in Jobs :
         \/ j \in Jobs \ Analysts /\ \E c \in Chains : AsksHistory(j, c)
         \/ j \in Analysts /\ AsksAnalytics(j)
         \/ LooksUp(j) \/ FetchesTxlist(j) \/ FetchesTokentx(j) \/ Stores(j)
         \/ FetchFails(j) \/ CollectsHistory(j) \/ Leaves(j)

HistorySpec == HistoryInit /\ [][HistoryNext]_historyVars

-----------------------------------------------------------------------------

\* How old a history of one network can be, and one of the analytics.
IndexLag     == INDEX_TTL + FETCH_TIMEOUT
AnalyticsLag == ANALYTICS_TTL + INDEX_TTL - 1 + Len(EvmChains) * FETCH_TIMEOUT

\* What is to be told of a transaction, whatever the price was.
Truth(tx) ==
    LET moves == Restrict(tx.moves, OwnPlaces(tx.moves))
    IN  IF Owner \in {tx.from, tx.to}
          THEN TxToItem(tx, moves, 0) ELSE TokenOnlyItem(tx.hash, [at |-> tx.at, moves |-> moves])

Unpriced(items) == {[i EXCEPT !.usd = 0] : i \in items}

\* The networks an answer is about.
About(j) == Chains \ job[j].skipped

OldEnough(j, tx) ==
    tx.at + (IF job[j].kind = "analytics" THEN AnalyticsLag ELSE IndexLag) <= clock

\* All rows of a transaction are still on the first pages.
OnPages(log, tx) ==
    /\ tx \in OwnTxs(log, tx.chain) => tx \in TxList(log, tx.chain)
    /\ PlacesListed(log, tx) = OwnPlaces(tx.moves)

\* A transaction that is older than the caches and fetches together, and has all
\* its rows among the newest PAGE_SIZE of either list, is told, once, and as
\* what it is.  A younger one may be missing, or be told as a bare token
\* transfer, because it was mined between the two lists; that lasts no longer,
\* even if an older answer is stored over a newer one (INDEX_TTL, CACHE_TTL of
\* the analytics).  One that the pages have no room for may be missing, or told
\* without some of its moves.
OldTransactionsAreTold ==
    \A j \in Jobs : job[j].at = "done" =>
        \A c \in About(j) : \A tx \in MinedOn(mined, c) :
            OldEnough(j, tx) /\ OnPages(mined, tx) =>
                {i \in Unpriced(job[j].items[c]) : i.hash = tx.hash} = {Truth(tx)}

\* What the owner paid for these transactions in the period.
Owed(txs) ==
    SumFunction([tx \in {t \in txs : t.from = Owner /\ t.at + PERIOD >= clock} |-> tx.fee * USD])

\* The fees of a period are those the owner has paid in it, on every network
\* that answered, and no one else's: never more, whatever the pages cut off, and
\* not less either but for what is younger than the caches, has rows beyond the
\* first pages, or had no price; the days of the timeline add up to them, and
\* the summary says the same (aggregate_fees, aggregate_summary).
FeesWereOwed ==
    \A j \in Jobs : job[j].at = "done" /\ job[j].kind = "analytics" =>
        LET items == UNION {job[j].items[c] : c \in Chains}
            fees  == AggregateFees(items, clock, PERIOD)
            told  == AggregateSummary(items, clock, PERIOD, [s \in {Native} |-> USD])
            old   == {tx \in ToSet(mined) : /\ tx.chain \in About(j)
                                            /\ OldEnough(j, tx) /\ OnPages(mined, tx)}
        IN  /\ fees.total_fees <= Owed(ToSet(mined))
            /\ told.total_fees = fees.total_fees
            /\ SumFunction(fees.timeline) = fees.total_fees
            /\ told.total_in + told.total_out <= SumFunction(told.by_category)
            /\ (\A i \in items : i.fee > 0 => i.usd = USD) => fees.total_fees >= Owed(old)
=============================================================================
