------------------------------ MODULE Portfolio ------------------------------
(* The portfolio of a wallet (crates/api-server/src/handlers/balances.rs):  *)
(* every account is asked for its coins and its tokens at the same time,    *)
(* with one timeout for both, and what fails is told as an error of its     *)
(* network.  On TRON both come from one document, which the adapter keeps   *)
(* for a few seconds behind a mutex that is held while it is fetched        *)
(* (crates/chain-adapters/src/tron.rs, fetch_account).  A balance is the    *)
(* instant at which the network was read.                                   *)
EXTENDS ServerTime, FiniteSets, FiniteSetsExt

CONSTANTS
    Accounts,           \* the addresses of the wallet, each with its network
    TronAccounts,       \* those on TRON
    BadAccounts,        \* those Address::new refuses
    Wallets,            \* requests under way at the same time
    Portfolios,         \* wallet -> the sets of accounts it may ask for
    Worth,              \* account -> kind -> the value of what it holds
    CHAIN_TIMEOUT,      \* of one account, coins and tokens together
    PRICES_TIMEOUT,     \* of the prices
    ACCOUNT_CACHE_TTL,  \* seconds the document of a TRON account is kept
    NoDocument, NoTask, NoHolder

ASSUME PortfolioAssumption ==
    /\ {CHAIN_TIMEOUT, PRICES_TIMEOUT, ACCOUNT_CACHE_TTL} \subseteq Nat
    /\ ACCOUNT_CACHE_TTL > 0
    /\ TronAccounts \subseteq Accounts /\ BadAccounts \subseteq Accounts
    /\ Portfolios \in [Wallets -> SUBSET SUBSET Accounts]

Kinds == {"native", "tokens"}

VARIABLES
    documents,  \* account_cache: TRON account -> document, when read and stored
    holder,     \* who has the mutex: a request, an account, a kind
    wallet      \* a request: where it is, its tasks, its deadline, its total

portfolioVars == <<clock, documents, holder, wallet>>

NoWallet == [at |-> "idle", tasks |-> [a \in Accounts |-> NoTask], deadline |-> 0, total |-> 0]

\* One call of an adapter: read is -1 until the network has been read.
Call == [at : {"lock", "fetch", "read", "ok", "failed"}, read : -1..MaxTime]

Task == [native : Call, tokens : Call, deadline : 0..(MaxTime + CHAIN_TIMEOUT),
         error : {"open", "none", "tokens", "native", "timeout", "address"}]

PortfolioTypeOK ==
    /\ clock \in 0..MaxTime
    /\ documents \in [TronAccounts ->
         [read : 0..MaxTime, fetched_at : 0..MaxTime] \cup {NoDocument}]
    /\ holder \in (Wallets \X TronAccounts \X Kinds) \cup {NoHolder}
    /\ \A w \in Wallets :
         /\ wallet[w].at \in {"idle", "chains", "prices", "done"}
         /\ \A a \in Accounts : wallet[w].tasks[a] \in Task \cup {NoTask}
         /\ wallet[w].deadline \in 0..(MaxTime + PRICES_TIMEOUT)
         /\ wallet[w].total \in Nat
    /\ holder # NoHolder =>
         LET task == wallet[holder[1]].tasks[holder[2]]
         IN  task # NoTask /\ task.error = "open" /\ task[holder[3]].at \in {"fetch", "read"}

PortfolioInit ==
    /\ clock = 0
    /\ documents = [a \in TronAccounts |-> NoDocument]
    /\ holder = NoHolder
    /\ wallet = [w \in Wallets |-> NoWallet]

-----------------------------------------------------------------------------
(* fetch_chain_balance                                                      *)

Asked(w) == {a \in Accounts : wallet[w].tasks[a] # NoTask}

Open(w, a) == wallet[w].tasks[a] # NoTask /\ wallet[w].tasks[a].error = "open"

Settled(call) == call.at \in {"ok", "failed"}

Broken == [at |-> "failed", read |-> -1]

\* failed_balance
FailedBalance(error) == [native |-> Broken, tokens |-> Broken, deadline |-> 0, error |-> error]

\* A call waits for the mutex on TRON and goes out at once elsewhere.
NewTask(a) ==
    LET call == [at |-> IF a \in TronAccounts THEN "lock" ELSE "fetch", read |-> -1]
    IN  IF a \in BadAccounts THEN FailedBalance("address")
        ELSE [native |-> call, tokens |-> call, deadline |-> clock + CHAIN_TIMEOUT,
              error |-> "open"]

\* balances: the fan-out.
AsksBalances(w, accounts) ==
    /\ wallet[w].at = "idle"
    /\ wallet' = [wallet EXCEPT ![w] =
         [NoWallet EXCEPT !.at = "chains", !.tasks =
            [a \in Accounts |-> IF a \in accounts THEN NewTask(a) ELSE NoTask]]]
    /\ UNCHANGED <<clock, documents, holder>>

CallGoesTo(w, a, kind, call) == wallet' = [wallet EXCEPT ![w].tasks[a][kind] = call]

\* Slip: a document is kept for ever.
KeptDocument(a) == documents[a] # NoDocument

FreshDocument(a) ==
    documents[a] # NoDocument /\ clock - documents[a].fetched_at < ACCOUNT_CACHE_TTL

\* fetch_account: the mutex is free; the cache answers, or the mutex is held.
TakesMutex(w, a, kind) ==
    /\ Open(w, a) /\ wallet[w].tasks[a][kind].at = "lock"
    /\ holder = NoHolder
    /\ IF FreshDocument(a)
         THEN /\ CallGoesTo(w, a, kind, [at |-> "ok", read |-> documents[a].read])
              /\ UNCHANGED holder
         ELSE /\ CallGoesTo(w, a, kind, [at |-> "fetch", read |-> -1])
              /\ holder' = <<w, a, kind>>
    /\ UNCHANGED <<clock, documents>>

\* The network is read; the answer is under way.
NetworkIsRead(w, a, kind) ==
    /\ Open(w, a) /\ wallet[w].tasks[a][kind].at = "fetch"
    /\ CallGoesTo(w, a, kind, [at |-> "read", read |-> clock])
    /\ UNCHANGED <<clock, documents, holder>>

\* The mutex goes with the call that held it.
Freed(w, a, kinds) == IF \E k \in kinds : holder = <<w, a, k>> THEN NoHolder ELSE holder

CallSucceeds(w, a, kind) ==
    LET read == wallet[w].tasks[a][kind].read
    IN  /\ Open(w, a) /\ wallet[w].tasks[a][kind].at = "read"
        /\ CallGoesTo(w, a, kind, [at |-> "ok", read |-> read])
        /\ holder' = Freed(w, a, {kind})
        /\ documents' = IF a \in TronAccounts
             THEN [documents EXCEPT ![a] = [read |-> read, fetched_at |-> clock]]
             ELSE documents
        /\ UNCHANGED clock

\* An error after the retries; nothing is cached.
CallFails(w, a, kind) ==
    /\ Open(w, a) /\ wallet[w].tasks[a][kind].at \in {"fetch", "read"}
    /\ CallGoesTo(w, a, kind, Broken)
    /\ holder' = Freed(w, a, {kind})
    /\ UNCHANGED <<clock, documents>>

\* Without its coins an account has failed; without its tokens it is told with
\* an error.
ErrorOf(native, tokens) ==
    IF native.at = "failed" THEN "native"
    ELSE IF tokens.at = "failed" THEN "tokens" ELSE "none"

\* join!: both calls are over.
AccountIsTold(w, a) ==
    LET task == wallet[w].tasks[a]
    IN  /\ Open(w, a) /\ Settled(task.native) /\ Settled(task.tokens)
        /\ wallet' = [wallet EXCEPT ![w].tasks[a] =
             LET error == ErrorOf(task.native, task.tokens)
             IN  IF error = "native" THEN FailedBalance(error)
                 ELSE [@ EXCEPT !.error = error, !.deadline = 0]]
        /\ UNCHANGED <<clock, documents, holder>>

\* Both calls are dropped, one that had come to its end and one that holds the
\* mutex alike.
AccountTimesOut(w, a) ==
    /\ Open(w, a) /\ clock >= wallet[w].tasks[a].deadline
    /\ \E kind \in Kinds : ~ Settled(wallet[w].tasks[a][kind])
    /\ wallet' = [wallet EXCEPT ![w].tasks[a] = FailedBalance("timeout")]
    /\ holder' = Freed(w, a, Kinds)
    /\ UNCHANGED <<clock, documents>>

-----------------------------------------------------------------------------
(* balances, after join_all                                                 *)

\* What the answer shows of an account: a failed one holds nothing.
Shows(task, kind) ==
    \/ task.error = "none"
    \/ task.error = "tokens" /\ kind = "native"

\* price_ids_for, get_prices: all accounts are told.
AsksForPrices(w) ==
    /\ wallet[w].at = "chains"
    /\ \A a \in Asked(w) : ~ Open(w, a)
    /\ wallet' = [wallet EXCEPT ![w].at = "prices", ![w].deadline = clock + PRICES_TIMEOUT]
    /\ UNCHANGED <<clock, documents, holder>>

\* enrich_usd and the total: what has no price counts nothing.
PricesCome(w) ==
    /\ wallet[w].at = "prices"
    /\ \E priced \in SUBSET (Asked(w) \X Kinds) :
         LET counted == {p \in priced : Shows(wallet[w].tasks[p[1]], p[2])}
         IN  wallet' = [wallet EXCEPT ![w].at = "done", ![w].total =
               FoldSet(LAMBDA p, sum : sum + Worth[p[1]][p[2]], 0, counted)]
    /\ UNCHANGED <<clock, documents, holder>>

LeavesWithBalances(w) ==
    /\ wallet[w].at = "done"
    /\ wallet' = [wallet EXCEPT ![w] = NoWallet]
    /\ UNCHANGED <<clock, documents, holder>>

\* A second passes: no call outlives the timeout of its account, and everything
\* else is done within its second.
PortfolioTick ==
    /\ Tick
    /\ \A w \in Wallets :
         /\ wallet[w].at # "done"
         /\ wallet[w].at = "prices" => clock < wallet[w].deadline
         /\ wallet[w].at = "chains" => \E a \in Asked(w) : Open(w, a)
         /\ \A a \in Asked(w) : Open(w, a) =>
              clock < wallet[w].tasks[a].deadline
    /\ UNCHANGED <<documents, holder, wallet>>

PortfolioNext ==
    \/ PortfolioTick
    \/ \E w \in Wallets :
         \/ \E accounts \in Portfolios[w] : AsksBalances(w, accounts)
         \/ \E a \in Accounts :
              \/ AccountIsTold(w, a) \/ AccountTimesOut(w, a)
              \/ \E kind \in Kinds :
                   \/ a \in TronAccounts /\ TakesMutex(w, a, kind)
                   \/ NetworkIsRead(w, a, kind)
                   \/ CallSucceeds(w, a, kind) \/ CallFails(w, a, kind)
         \/ AsksForPrices(w) \/ PricesCome(w) \/ LeavesWithBalances(w)

PortfolioSpec == PortfolioInit /\ [][PortfolioNext]_portfolioVars

-----------------------------------------------------------------------------

\* A document is fetched, kept, fetched for another and waited for, and the
\* prices come after it.
PortfolioLag == 2 * CHAIN_TIMEOUT + ACCOUNT_CACHE_TTL - 1 + PRICES_TIMEOUT

\* What a portfolio shows without an error was read from the network, not long
\* ago: no failed call is told as a balance of zero, and no wait for the mutex,
\* behind whatever other request, makes a document of the TRON cache older than
\* the timeouts and the time to live allow (fetch_chain_balance, fetch_account).
BalancesAreRecent ==
    \A w \in Wallets, a \in Accounts, kind \in Kinds :
        /\ wallet[w].at = "done" /\ a \in Asked(w)
        /\ Shows(wallet[w].tasks[a], kind)
        => /\ wallet[w].tasks[a][kind].read >= 0
           /\ clock - wallet[w].tasks[a][kind].read <= PortfolioLag
=============================================================================
