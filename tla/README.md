# Argus: a TLA+ model of the wallet

Argus is a browser-extension wallet (TypeScript, `src/extension`) with an API server and a cryptographic core
in Rust (`src/crates`). This directory models both, checks the models with TLC and proves the main invariants with
TLAPS. `PROJECT.json` ties every definition to the lines it stands for and lists runs, hazards, findings and theorems.

## 1. The system

| Component | State | Operations | Meets |
|---|---|---|---|
| Approval queue (`background.ts`, `approval-queue.ts`) | `pendingRequests`, a promise per call, window ids | dApp calls, `queueApproval`, `resolveApproval`, `windows.onRemoved` | connected sites, session, API client, Approve window |
| Approve window (`Approve.tsx`) | the request, signer and fee snapshot it loaded | show, reject, approve, show an error | the queue, by messages |
| Connected sites (`connections.ts`) | one list in `chrome.storage.local` | check, grant, revoke one, revoke all | the queue and the settings window |
| Wallet records (`vault-storage.ts`) | the array of ciphertexts and public accounts, the active id | add, replace, update, rename, remove, heal the active id | all contexts, through storage |
| Unlocked session (`background.ts`) | phrase, password, accounts and wallet in the worker's memory; auto-lock timer | create, unlock, derive, restore, reveal, list, switch, rename, remove, lock | records, WASM core, popup |
| Data consent (`consent.ts`) | one stored record; a cached copy in each context | read, save, two toggles, gates | the API client, every window |
| API client (`api.ts`) | requests in flight | `request()` with retries, `explainTx`, `streamChat` | consent, server |
| Node calls (`reliability.rs`, `jsonrpc.rs`) | permits, attempts | `run`: acquire, attempt, release, sleep | handlers, nodes |
| Rate limiter (`ratelimit.rs`) | a token bucket per address, the time of the last collection | `check`, `maybe_gc`, the collection | every handler |
| Price cache (`pricing.rs`) | quotes with the time they were stored | `get_prices` | portfolio, histories |
| History indexer and analytics (`indexer.rs`, `analytics.rs`) | two caches of items with a time to live | `history`, `collect_history`, sums | Etherscan, prices |
| Adapters (`chain-adapters`) | TRON's account documents behind a mutex | pages of a history, balances, fees | nodes, handlers |
| Portfolio, fees (`balances.rs`, `fees.rs`, `tx_params.rs`) | the tasks of one request | fan-out with timeouts, tiers | adapters, prices |
| Review of a transaction (`tx.rs`, `simulation.rs`, `risk`, `ai`) | none beyond a request | decode, simulate, assess, explain | nodes, the model |
| Chat of the server (`chat.rs`, `tools.rs`) | messages and rounds of a task, a bounded channel | `tool_loop`, the apology, the response | the model, tools, the client |
| Keys, vault, signing (`wallet-core`) | none | phrases, derivation, `create_vault`, `unlock_vault`, EVM transactions | the session, by WASM |
| Migration, popup store, Send screen, page bridge, extension chat | copies of the above | — | — |

What is hard here:

* **Awaits.** The background is one thread, so two handlers interleave exactly at their awaits (storage, window
  creation, `fetch`, the first load of WASM). Almost every write to storage is a read, an await and a write of the
  whole value. On the server every cache lets go of its lock while it fetches, so a late answer can overwrite a newer
  one.
* **Stops.** The browser may stop the worker at any moment; windows and storage survive, queue and session do not.
* **Lost answers.** A transaction may be accepted although its answer never comes, at three levels: client,
  server, node. Of several sources of one answer some fail, and the rest is shown.
* **Copies.** The consent, the connected sites, the active wallet, the fees, prices and documents are read at one time
  and used at another.
* **Limits.** Waiting requests per site, wallets, retries, permits, tokens, tool rounds and the chat's channel.
* **Numbers.** Amounts of 128 bits saturate and are cast; RLP lengths change form at 55 and 255; a child index and its
  hardened bit share 32 bits.

What makes each part correct is stated as the properties of section 3.

## 2. Modules

```
SigningPromise  <-- implemented by --  DappApproval  <-- MCDappApproval, DappApproval_proofs
WalletShelf     <-- implemented by --  VaultSession  <-- MCVaultSession, VaultSession_proofs
                                       DataConsent   <-- MCDataConsent,  DataConsent_proofs
                                       NodeCalls     <-- MCNodeCalls, MCServer, Limits_proofs

ServerTime  <--  RateLimiter  <-- MCServer, Limits_proofs
            <--  PriceCache   <-- MCServer, Limits_proofs
            <--  Portfolio    <-- MCServer, Limits_proofs
            <--  HistoryCaches  --> TxItems         <-- MCServer, Histories_proofs --> SumTheorems
                 AddressPages   --> TxItems         <-- MCServer, Histories_proofs
                 TxReview       --> Networks        <-- MCServer, Requests_proofs  --> SumTheorems
                 ChatLoop                           <-- MCServer, Requests_proofs
                 FeeTiers       --> Networks        <-- MCServer, Requests_proofs
                 WalletCore     --> Networks        <-- MCServer, WalletCore_proofs
                 EvmTx                              <-- MCServer, WalletCore_proofs --> SumTheorems
```

### The extension

**DappApproval** follows a dApp's call from `handleRpcRequest` to its answer. One action is one turn of the event
loop, from an await to the next. `stage` is where the handler of a call stands, `connected` what it read from
storage, `pending` the keys of `pendingRequests`, `answer` what the promise resolved to; `window`, `creating` and
`hasId` are the browser's window, the unsettled `windows.create` and the id the entry has learnt; `view` is the
Approve screen, `job` an approval between its awaits (several may run for one request), `chain` what the node has.
`WorkerStops` clears what is memory. `granted` and `signed` are history.

**SigningPromise** is what a page may rely on, without windows and awaits: a call is answered once, signatures are
made for calls that asked for them, and a hash is only told for a transaction the node has.

**VaultSession** has one handler per running message. `handler[h].pc` names the storage call it awaits and
`handler[h].saw` the array it read; `store` and `active` are the two keys of storage, `session` the worker's memory.
`AskActive` starts `getActiveVaultId`, whose repair of a dangling id (`Heals`) is a write of its own. A ciphertext is
its phrase and its password: it opens with that password only (which `WalletCore` shows of the core).
Where the code goes on to the session or the answer once a write is done (`AddOpens`, `ReplaceConfirms`, `UpdateOpens`,
`SwitchLocks`, `RemoveConfirms`), the write and the rest are two actions, and the worker may stop in between; so a
password that was stored need not have been confirmed. `owner`, `agreed` (the password confirmed last), `unconfirmed`
(one stored and not confirmed yet), `removed` and `overlapped` (ids whose record one handler wrote over what another had
written since it read the array) are history.

**WalletShelf** is the abstract wallet list: at most `MaxWallets`, one in front, only that one open.

**DataConsent** has a copy `cached` per context and a queue `mail` of storage replies and `onChanged` events. Storage
performs a call when it is made, and what it has to say to a context arrives in that order; that order is assumed of
the browser. A check of a known decision and the `fetch` behind it are one step, because only microtasks lie between.
`task` is a request of the API client; `granted` is history: what the user agreed to under the current
`CONSENT_VERSION`. A failed `storage.set` changes nothing and is left out.

### The server

**NodeCalls** is `ReliabilityLayer::run` under a handler with a timeout: `stage`, `attempt`, `permits` and the FIFO
`waiters` of tokio's semaphore, the node's `pool`, and `strays`, the copies still under way after their attempt was
given up. `tries` is history.

**ServerTime** is the clock, in whole seconds, that the next three modules and `HistoryCaches` read.

**RateLimiter** has the buckets, and for each thread (`worker`) where it stands between reading the clock, `check`
under the mutex, the swap of `last_gc` and the collection. Tokens are counted in sixtieths, which makes the refill of
a second `RPM` units exactly; the rounding of `f64` is left out. `allowance` and `promise` are history: the least that
any window of time still grants an address, and the instant a `Retry-After` named.

**PriceCache** has one `caller` per `get_prices`: the read of the cache, the request to CoinGecko with its timeout,
which may bring any part of what was asked, and the write under the lock, in that order and with time passing between.
A price is the instant it was quoted.

**TxItems** turns the rows of Etherscan and the records of the other adapters into the items of a history, and sums
them. **HistoryCaches** puts the two caches on top, while the networks go on: the two lists of one history are fetched
one after the other, entries are written back late, a failing network is skipped. `mined` is what the networks have,
one sequence in which a hash is a place, and begins with what happened before the server started (`Past`). Of either
list Etherscan gives the newest `PAGE_SIZE` rows (`TxList`, `TokenTx`), a row of the second being one token move, so that
the page may end within a transaction. `tokentx` comes grouped by hash, which is the first thing the code does with it,
and the sort by time is left to the reader of the set. **AddressPages** reads the
histories of Bitcoin, Solana and TRON page by page, with a client that follows `next_cursor` while payments arrive and
are confirmed, and compares the Bitcoin balance with the records.

**Portfolio** is the fan-out of `POST /v1/balances`: a task per account with two calls under one timeout, the prices
after them, and on TRON the mutex (`holder`) with the account document that both calls and all requests share.

**ChatLoop** is one chat: `chat` the task with its rounds, `pending` the pieces of tool calls by index, `messages` the
context, `channel` and `reader` the bounded channel and the response. The model says or asks for anything; a tool is
its outcome.

**TxReview** takes a request through decode, simulate, risk and explain against one outcome of the networks. Amounts
have `W` bits with the saturation and the casts of the code; calldata is what its parts say (selector, length, padding,
word), since the rules look at nothing else. Alchemy has no answer (no key, an error, its timeout), an error in its
result, or a list of changes. The client hands the risk to `Explains` or leaves it out (`handed`).

**FeeTiers** computes the three tiers of each network from a report of its node, with the refusals of the two handlers.

### The core

**EvmTx** is `evm_tx.rs`: parameters, the calldata of a token transfer, which is refused without an address or with a
bad amount, RLP of numbers, strings and lists, what is signed and the signed bytes. The module has a reader of RLP of its own, which is the reference the encoder is held to.

**WalletCore** is phrases, paths, addresses and the vault from its creation, over harm done to the blob, to its use.
Cryptography is symbolic: what differs in its inputs differs in its result. **Networks** knows the names of networks and
the shapes of addresses, which the server's guesses (`classify_addresses`) are held to.

**MCServer** composes the server and the core for TLC. These parts share no state but the clock, so `part` picks one
at the start and the others stand still: one run explores each of the eleven parts whole instead of their product. The
other MC modules hold symmetry sets and, for `DappApproval`, which call each request makes. The properties stand in the
modules themselves. Definitions with a comment beginning *Mutant* or *Slip* are deliberate mistakes: each
replaces one definition to show that a property notices it.

## 3. Runs

| Run | Properties | What it shows |
|---|---|---|
| `dapp_send` | `TypeOK`, `WaitingIsQueued`, `SignedFeeWasShown`, `OkMeansAtNode`, `NoSignatureAfterDecision` | one `eth_sendTransaction`, two overlapping approvals, lost answers, a stopped worker |
| `dapp_connect` | `AddressOnlyAfterGrant`, `NoTwins`, `KeepsPromise` | the same `eth_requestAccounts` twice, with grants, revocations, locks; refinement of `SigningPromise` |
| `dapp_sign` | `QueueWithinLimit` | two messages race for one place, while the site polls its accounts |
| `dapp_fair` | `DecisionsEnd`, `KnownWindowReleases` | approvals end; a closed window releases its request |
| `dapp_rejected` (violation) | `RejectedIsNotSigned` | closing the window during an approval |
| `vault_one` | `TypeOK`, `RemovedStaysRemoved`, `OpensWithAgreedPassword`, `KeepsShelf` | all nine operations one after another, with stops between any two storage calls and before each answer; refinement of `WalletShelf` |
| `vault_pair` | `WalletsWithinLimit`, `PhrasesMatch` | two handlers at once, two phrases |
| `vault_switched` (violation) | `OpenWalletIsActive` | an unlock overtaken by a switch |
| `consent` | `NoStaleConsent`, `AskedFirst`, `StartsWithConsent`, `RequestsEnd`, `WithdrawalIsHeard` | copies follow storage; nothing leaves before a decision of this version |
| `consent_withdrawn` (violation) | `NoAttemptAfterWithdrawal` | retries after a withdrawal |
| `calls_known` (violation) | `SentIsNotAnError` | a retried broadcast |
| `server` | the eighteen below | each part of the server and of the core on its own |

The run `server`, part by part:

| Part | Properties | What they say |
|---|---|---|
| all | `ServerTypeOK` | types, among them the bound on attempts of `NodeCalls` |
| calls | `PermitsAddUp`, `CallsEnd` | no permit is lost through timeouts and dropped futures; every call ends |
| limiter | `WithinRate`, `RetryIsServed` | no address gets more than burst and rate, though buckets are collected and threads overtake each other; a client that waits as told is served |
| prices | `PricesAreRecent` | what is not marked stale is no older than the time to live and two fetches, with overlapping refreshes |
| histories | `OldTransactionsAreTold`, `FeesWereOwed` | what is older than the caches and on the first pages is told once and as what it is; fees are never more than the owner owed, and not less for what is told |
| pages | `PagesMissNothing`, `BalanceIsHistory` | a cursor followed to its end misses and repeats nothing; the Bitcoin balance is what the records add up to |
| chat | `CallsAreAnswered`, `ChatEnds` | each tool call is answered once and in order; a silent model or reader does not keep the task |
| review | `ChangesAreExact`, `DangerIsTold` | the simulated changes are the network's, up to the width; no failure hides a danger, and a simulation that does not name an unlimited allowance says that the call reverts, or is Alchemy's |
| signing | `NodeReadsWhatWasAsked` | a node decodes from the signed bytes what the user asked for |
| balances | `BalancesAreRecent` | no failure is shown as zero, no document outlives timeouts and time to live |
| fees | `TiersInOrder` | faster is never cheaper, and the signer takes what the server offers |
| keys | `KeysAreThoseShown` | only password and whole blob open a vault, and its keys are those of the addresses shown |

### Bounds

* *dApp.* One or two calls that matter and at most one that polls, one origin, two fee levels, two approvals at a
  time, one wallet. The races of this component are between one call and its window, its approvals, a second
  equal or competing call, or the session; the limit is set to 1 in `dapp_sign` so that it is reached.
  `MaxNonce` bounds the nonces the node hands out. The theorems of section 5 are for any numbers.
* *Vault.* Two phrases, room for two wallets and three ids: enough for a removal and a new wallet, a full shelf and
  an id that is never reused. Two handlers show every overlap of two; `vault_pair` keeps to the four operations that
  write records or activate one, because all nine in pairs do not finish. What is said of all nine operations with any
  number of handlers (types, removals, passwords, limit, phrases) is proved; `KeepsShelf` is checked for one at a time.
  Phrases and passwords, and the two handlers, are interchangeable (symmetry).
* *Consent.* `MaxWrites` = 2 (a decision and its withdrawal), `MaxVersion` = 2 (one update), one retry instead of two.
* *Calls.* Three calls for two permits, one retry, so that the queue fills, moves and is left in every way;
  `calls_known` has the three retries of the code.
* *Time.* `MaxTime` = 3. Times to live and timeouts are 1 or 2, so that each runs out, is reached at its last instant
  and is waited for, in one behaviour. The prices of a portfolio take no time here. The bounds on ages are proved for
  any timeouts (`WithinRate`, `RetryIsServed`, `PricesAreRecent`, `BalancesAreRecent`, `OldTransactionsAreTold`).
* *Limiter.* 40 requests a minute and a burst of 1: a bucket needs two seconds to refill, so a refusal, its
  `Retry-After`, the collection after `IDLE_TTL` = 2 and a partial refill all occur. Two addresses, two threads.
* *Histories.* One network with a token transfer of the owner from before the server's start, one more transaction out
  of a swap and a foreign token transfer, one history and one analytics at the same time. `PAGE_SIZE` = 1: the second
  transaction pushes the first out of both lists, and the two moves of the swap do not fit on one page. An old
  transaction is there for every answer from the first one on. The sums over many are proved (`FeesOwed`,
  `BalanceAddsUp`).
* *Pages.* Pages of two, three payments, a limit of 1: a page is full, short, and moves under the client.
* *Chat.* Two rounds, two calls in one round, two fragments, a channel of one, so that the sender blocks.
* *Review and signing.* Amounts of four bits (the properties compare with the bounds of the width, not with its value),
  words on both sides of each bound; numbers and payloads on both sides of every change of form in RLP. The length
  bytes beyond 255 are reached with a payload of 256.
* *Fees.* Blocks with none, one and three percentiles, at most two blocks, up to four samples of Solana.
* *Keys.* Indices below and above the hardened bit (4 for 2^31), each kind of harm to the blob, two passwords.

Symmetry is used only in runs without liveness. Deadlock is checked except in `calls_known` and `server`, where calls
end and time runs out.

### Fairness

* `dapp_fair`: calls of the browser and of the network return (each has a timeout in the code), and a window the
  browser has closed is reported. The user need not act.
* `consent`: storage replies and events arrive; a fetch of `request()` ends at the latest with its
  `AbortSignal.timeout`, and the delays of the retries run out. The chat's fetch has no timeout and gets no fairness,
  so `RequestsEnd` leaves it out.
* `server`: every attempt at a node ends and every sleep ends; no handler need time out. Of a chat, its timer fires,
  a send with room in the channel goes on, the built-in mock goes on, and the client reads or hangs up. Model and tools
  owe nothing.

## 4. Findings

* **A refused request may be signed** (`dapp_rejected`). `resolveApproval` leaves the entry in the queue while it
  awaits; closing the window then answers *rejected* and the approval goes on.
* **Another wallet opens than the active one** (`vault_switched`). `vaultUnlock` resumes with a record it read before
  a `SwitchWallet` was handled.
* **Retries outlive the consent** (`consent_withdrawn`). The gate stands before the retry loop and is not asked again.
* **A broadcast is retried after all** (`calls_known`). The client forbids it so that a sent transaction is not shown
  as an error; the server's adapter does it one level below.

The models also reach these, or they were met while modelling; no run is kept for them.

*Extension.*
* a window closed before `windows.create` settles leaves its request in the queue for ever;
* a lost answer to a broadcast is shown as *not sent*;
* a switch of wallets between the Approve screen and the signature makes another account sign;
* an approval writes back a list of sites read before a revocation;
* with two overlapping handlers a rename brings back a removed record or an old password, and of two creations one
  record is lost; `RemovedStaysRemoved` and `OpensWithAgreedPassword` say that it takes an array written over another
  handler's write;
* a worker that stops after a new password was stored and before the answer leaves a wallet that opens with a password
  nobody was told is in force;
* an AI toggle pressed while a *network off* is being written switches the network on again.

*Review of transactions.*
* `simulation.rs:105` is marked `unreachable!` and is reached with `chain` = *tron* (no screen sends that);
* hexadecimal Solana data without `0x` is read as base64 if its length is divisible by four;
* an amount of 2^127 or more is cast from `u128` to `i128` and shows as a gain; `ChangesAreExact` states the condition;
* calldata beginning with `0X` is read by the simulation, and by neither decoder nor risk rules; calldata with dirty
  padding is a transfer to the decoder and unknown to the simulation; a truncated approval is explained as a limited one;
* with Alchemy a transfer to oneself shows as a loss, and the fee is left out; of an unlimited allowance the simulation
  then has only changes and no warning, and decoder, rules and explanation alone speak of it;
* the extension never gets a review: `api.ts:598` sends `txRequest` where `RiskRequest` wants `tx_request`, and
  `api.ts:636` sends `decoded: null` where `ExplainRequest` wants a transaction, so both are refused and the screen shows
  its local rules. The model's client is one that sends what the server reads.

*Histories and balances.*
* the TRON history is requested without the `visible=true` that `tron.rs:3` promises of every endpoint; the addresses
  come in hexadecimal and every item counts as *self*;
* a transaction of the owner that only brings tokens is told as *out* with the amount received; the two lists of
  Etherscan may be torn by a new transaction, for as long as the caches live;
* a failed price is cached as a fee of 0 dollars, and a network that failed is missing from the analytics for their time
  to live; the key of the analytics' cache lowers the case of addresses where case counts;
* a history ends after 100 rows of either list, which may cut a transaction's token moves in two, and the fees of a
  period are those on that page;
* `limit` loses what lies between it and the end of a page; Bitcoin's outgoing amounts include the fee;
* a TRON address is asked for as one of Solana by `chains_for_address`, while `classify_addresses` tries TRON first; TRX
  has no price id, and the chat's tools do not know TRON;
* slow tokens discard a balance that had arrived; one mutex serves all TRON addresses, and coins and tokens of one
  answer may come from two documents.

*Server and core.*
* a price that is not marked stale may be the time to live and two fetches old: it is stored up to a fetch after it was
  quoted, and the caller that found it fresh may wait a fetch for its other ids; `updated_at` is that of the newest
  price in the answer;
* the limiter reads `now` before its lock; a burst above ten minutes' refill would be restored early by the collection
  (`BurstRefillsAssumption` excludes it);
* the chat's timeout does not bound the sending of its apology; tool calls of the last round end the chat silently;
* Solana's derivation takes an index with the hardened bit for the one without it: `sign_solana_message` accepts it,
  `derive_addresses` refuses it.

## 5. Proofs

All for any values of the constants that satisfy the modules' `ASSUME`s, checked by TLAPS. Every argument has the same
form: an invariant stronger than the property, one lemma for each action or group of actions, and PTL at the end.

`DappApproval_proofs`
* `TypeCorrect`: `TypeOK` is inductive as it stands, one lemma per group of actions.
* `LimitCorrect` (`QueueWithinLimit`) and `TwinsCorrect` (`NoTwins`): screening and enqueueing are one turn, so the
  only step that adds to `pending` is `Enqueue`, whose guard is evaluated on the queue it extends; everything else
  shrinks the queue.
* `WaitingCorrect` (`WaitingIsQueued`): every action that removes an entry resolves it, every one that adds an entry
  makes its handler wait.
* `PromiseKept` (`KeepsPromise`): initial states map to initial states, each action to a step or a stutter of
  `SigningPromise`, under the invariants above.
* `DecisionsAreFinal` (`NoSignatureAfterDecision`): an approval starts only for a call in `pending`, and by
  `WaitingIsQueued` an answered call is not there; so no action takes one up again or signs for it.
* `FeesAreShown` (`SignedFeeWasShown`) and `HashesAreTrue` (`OkMeansAtNode`): only the screen of a transaction has a fee
  snapshot (`ShownFits`), its approval starts with one, and what an approval broadcasts was made for its own request
  (`JobsFit`); `FeeInv` joins them with the two properties.
* `AddressesAreGranted` (`AddressOnlyAfterGrant`): every list of sites, in storage or in the hands of an approval or a
  revocation, holds only sites the user has granted at some time (`ListsGranted`), and so every call that found its
  site connected, waits or is being approved comes from such a site (`CallsGranted`).

`VaultSession_proofs`
* `AlwaysTyped`, `TypeCorrect`: `TypeOK` is not inductive, because a handler uses what it learnt earlier. `Typed`
  adds what each `pc` knows (an id that is one, a record that was found, a phrase for each open session).
* `LimitCorrect` (`WalletsWithinLimit`): the limit is checked against the array that was read. `Roomy` adds that the
  array each writing handler will store fits the limit too, however old it is.
* `PhrasesCorrect` (`PhrasesMatch`): the strengthening says the same of each array in a handler's hands, and of
  accounts on their way into a record.
* `RemovalsLast` (`RemovedStaysRemoved`) and `PasswordsLast` (`OpensWithAgreedPassword`), for any number of handlers. The
  listener does not serialise its handlers, and two of them can bring a record back; so the properties speak of every
  record that no handler wrote over another's write, and say that there is none else if messages are handled one at a
  time (`Alone`). `Lasting` makes that inductive: an id that was never given out has left no trace in storage, history or
  hands (`Traceless`), a record is gone from its removal on unless it was overwritten, also while the answer is out
  (`Removals`), and a handler alone writes over what it read and answers for what it stored (`Undisturbed`).

`DataConsent_proofs`
* `ConsentTypes` (`TypeOK`), `ConsentAskedFirst` (`AskedFirst`), `ConsentIsCurrent` (`NoStaleConsent`),
  `ConsentAtTheStart` (`StartsWithConsent`), all from `ConsentInv`: what is stored, cached or in the mail was agreed to
  if it counts for this version; the last message in a context's mail tells of the record that is stored; a request in
  flight is for something agreed to. The order of the mail is what carries the argument.

`Limits_proofs`, what the server grants, and how old a price or a balance may be
* `PermitsCorrect` (`PermitsAddUp`), of the node calls: the semaphore's part of the types and the property are
  inductive together.
* `CallsTypes` (`TypeOK`): that `tries` stays within `MAX_RETRIES + 1` needs the number of attempts in each stage.
* `LimiterTypes` (`LimiterTypeOK`), of the rate limiter.
* `RateCorrect` (`WithinRate`): the property says nothing of the bucket. `Covered` does: refilled to this instant
  (`Held`), a bucket never has more than the limit still grants its address, a missing one counting as full; hence the
  assumption that a burst refills within `IDLE_TTL`.
* `RetryCorrect` (`RetryIsServed`): at the instant a refusal named, the bucket it left behind holds a token (`Due`).
* `PricesCorrect` (`PricesAreRecent`): an entry was stored within one fetch of its quote, and what a call took from the
  cache was fresh when it began. The proof is where the bound of two fetches comes from: for one, the step that stores a
  late answer does not go through.
* `BalancesCorrect` (`BalancesAreRecent`): all tasks of a request began at one instant, which is hidden from the state;
  the invariant says that there is such an instant, and relates deadlines, documents and readings to it.

`SumTheorems`, sums over finite sets
* The model adds up with `SumFunctionOnSet` and `SumFunction`, whose definition is a fold. Induction theorems that take a
  predicate are of no use to the provers, but the same induction can be said of sets: a family of finite sets that has
  the empty one, and with each of its sets those with one element more, has every finite set (`Grows`, from the least
  element of a set of numbers). From it `FoldExists` gives the fold a value, `SumAdd` says that a sum grows by the
  term of a new element, and the rest follows: sums of a part, of two parts, under other names (`SumRenamed`), by groups
  (`SumGroups`).

`Requests_proofs`, the requests to the server before a transaction
* `CallsAnswered` (`CallsAreAnswered`): the property speaks of the moment a request to the model is made. `ChatInvariant`
  says what the context is at every other: complete, or complete but for the calls of the last round, of which as many
  have their answers behind them as were executed (`AnsweredInPart`).
* `DangerTold` (`DangerIsTold`) and `ChangesExact` (`ChangesAreExact`): the state is one record, filled handler by
  handler, and `ReviewInvariant` says that each field is its handler's answer to this request, the explanation with
  the risk or without. What remains is about the operators: who reads an allowance out of calldata
  (`AllowanceIsRead`), what each way through the simulation says of it (`UnlimitedIsTold`: its name, or that the call
  reverts, unless Alchemy lists changes), what the template says (`TemplateTells`), and what a balance falls by
  (`LosesExactly`, which is where the cast to a signed amount must not wrap). The provers have no powers, so
  `ReviewForms` assumes of the width that 2^`W` is twice 2^(`W`-1) and positive; TLC evaluates it for the width of the
  run.
* `TiersOrdered` (`TiersInOrder`), for any number of blocks and samples. On EVM networks the three sums are taken over
  the same blocks, and each block offers more at a higher tier, so the sums rise (`SumsRise`), the averages keep their
  order under integer division, and the saturation does too (`Saturates`). On Solana a later place in the sorted
  samples is no smaller (`RankedRises`). `ReportsAssumption` says what the nodes promise: percentiles in order, and
  fees and their sum in the width they are read with; the code adds without a check, so a sum beyond it would be
  another.

`Histories_proofs`, the answers about the past
* `PagesMissNone` (`PagesMissNothing`): `Numbered` says that hashes are given out one by one, so that nothing is twice in
  chain and mempool; `Reading` that a reader was told everything of its beginning but what is confirmed below its
  cursor, and that once. A payment that is confirmed between two pages is what the argument has to survive.
* `OldTold` (`OldTransactionsAreTold`): `HistoryInvariant` gives every entry and every request an instant up to which
  it tells each transaction of its network as it is (`Tells`), as far as its rows are on the first pages now
  (`OnPages`): new rows only push older ones out (`PagesMore`), so what is on the pages now was there when they were
  fetched. A list fetched for the caches does so up to the beginning of its fetch, an entry of the indexer one
  `FETCH_TIMEOUT` before it was stored, a request after q networks `INDEX_TTL` + q `FETCH_TIMEOUT`s ago. What was
  mined between the two lists of one fetch is younger than that instant, so a bare token transfer that stands for a
  whole transaction does no harm. `HistoryAssumption` asks for times to live above zero, and that what happens on the
  networks, before the start and after, concerns the owner: Etherscan is asked for nothing else.
* `BalanceAddsUp` (`BalanceIsHistory`): what came in and what went out are sums over all entries of all transactions; a
  record tells their difference for one of them (`FlowIsNet`), and `SidesAdd` brings the three sums together. That the
  saturating subtraction loses nothing is the other half: `PaymentsInvariant` says that each input of the owner is an
  output of a known transaction, spent once (`SpentOnce`), so that no more is spent than came in. `PagesAssumption` asks
  that somebody else is not the owner.
* `FeesOwed` (`FeesWereOwed`), on top of `HistoryInvariant`: `FairInvariant` (`AlwaysFair`) says of every item, in a
  cache, a request or on its way, that it is about a transaction of its network, one for each, and that a fee in it is
  what the owner paid. So the items of all networks are finitely many, the paying ones map one to one to transactions
  that the owner owes for (`PaidIsOwed`), whatever the pages cut off, and each of these that is old enough and on the
  pages is told with its fee (`OldIsCounted`, by `OldTold`). A day without fees is left out of the timeline, but its
  fees are zero (`TimelineAdds`). `HistoryAssumption` asks that amounts and fees are numbers, `ItemsAssumption` that
  `Nobody` is not the owner.

`WalletCore_proofs`, what the crate wallet-core does with keys and with what they sign
* `KeysShown` (`KeysAreThoseShown`), for any phrases, passwords and indices. `CoreInvariant`: until harm is done the
  blob is that of the phrase and password it was made with, and what was opened is what was put in. `OnlyWholeOpens`
  is the step that matters, harm by harm. The rest is about the paths: two networks or two indices never share a key
  (`KeysApart`), the account key that Bitcoin's history uses lies above the keys of its index only (`AccountIsAbove`),
  and each address is of the shape of its network alone (`Classified`). Cryptography stays symbolic, so what is proved
  is that the code feeds it the right inputs. `CoreAssumption` says what a phrase is made of.
* `AlwaysNodeReads` (`NodeReadsWhatWasAsked`), for any numbers that fit into eight and sixteen bytes, any calldata and
  any signature. `SigningInvariant` (`AlwaysSigning`) reduces it to a statement about bytes: the reader undoes the
  encoder. The reader walks over the items from the left and the encoder joins them, so the lemmas say what a piece is
  read as wherever it stands in a longer text: one item (`StringWrites`, from the two forms of a header), a row of
  them (`Written`, which `OneMoreWritten` makes longer by one), a list behind the type (`WrittenListIsRead`). The
  recursive functions are unfolded once and for all (`BigEndianIs`, `NumberStep`, `ReadOff`), by the induction on sets
  of numbers that `SumTheorems` has; `NumberIsRead` says that a number survives, `Stripped` that the zeros cut from r
  and s are all that is missing, `CalldataIs` where the two words of a transfer are. `EvmTxAssumption` asks that the
  length of a transaction fits into eight bytes, as a `usize` does.

Only model-checked:
* liveness, which is beyond this prover;
* `KeepsShelf`, for one handler at a time: with two, `WalletShelf` is not implemented (`vault_switched`);
* `ServerTypeOK`, which joins the types of eleven modules; those of the limiter and of the node calls are proved apart.

## 6. Not modelled

* *Legacy vault migration*: three writes in one context, guarded by a promise for each context.
* *Popup store, Send screen*: copies of the session and of fees; the signing steps are those of `DappApproval`.
* *Provider and content script*: ids of pending calls on the page's side.
* *The extension's chat stream*: splitting an event stream, and the screen's abort.
* *WASM bridge*: one lazy load.
* *Of modelled parts*: the wire-format normalisation of the API client, ABI decoding, the token lists of EVM and Solana,
  `build_transfer`, prices in dollars of a simulation, the branch of `collect_history` for other networks than EVM.
* *Rendering, translation, configuration, build scripts*: no behaviour the rest depends on.

Some hazards have no property, each with its reason in `PROJECT.json`. The models reach these, and the code does nothing
against them (sections 3 and 4): two toggles of the consent that overwrite each other, a window closed before it is
known, another account than the one on the screen, a list of sites written back, a chat that is never answered. A page
whose polling keeps the wallet open is covered by models that lock at any time; the migration, the popup's copy and the
Send screen belong to parts not modelled.

## 7. Plan

1. The legacy migration in two contexts with stops; the popup's copy of the session together with `VaultSession`; the
   Send screen with its own snapshot of fees; the page's provider under `DappApproval`.
2. Compositions: `DappApproval` over `VaultSession` (one session, two kinds of handlers); a client's broadcast over
   `NodeCalls` (three timeouts, one transaction).
3. Theorems: the types of the modules in `ServerTypeOK` that have none yet.
