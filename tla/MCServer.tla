------------------------------- MODULE MCServer -------------------------------
(* Values for TLC, and the parts of the API server that keep no state in    *)
(* common side by side: a behaviour begins with the choice of one part and  *)
(* is a behaviour of that part, so one run explores every part on its own.  *)
EXTENDS NodeCalls, RateLimiter, PriceCache, HistoryCaches, AddressPages, ChatLoop,
        TxReview, EvmTx, Portfolio, FeeTiers, WalletCore

VARIABLE part  \* which part this behaviour is about

-----------------------------------------------------------------------------
(* Histories, on one network and with one row for a page: the owner has    *)
(* sent a token; then he swaps two, whose rows no page has room for both,   *)
(* or receives one from somebody else.                                      *)

Deed(from, to, value, call, fee, moves) ==
    [from |-> from, to |-> to, value |-> value, call |-> call, fname |-> "", fee |-> fee,
     failed |-> FALSE, moves |-> moves]

Move(from, to, amount) == [from |-> from, to |-> to, amount |-> amount, symbol |-> "tok"]

Payment == Deed("me", "tok", 0, "transfer", 2, <<Move("me", "shop", 1)>>)

MCDeeds ==
    {Deed("me", "dex", 0, "other", 3, <<Move("me", "dex", 1), Move("dex", "me", 2)>>),
     Deed("shop", "tok", 0, "transfer", 1, <<Move("shop", "me", 2)>>)}

MCEvmChains == <<"e1">>

MCPast == <<<<"e1", Payment>>>>

-----------------------------------------------------------------------------
(* Prices: one caller wants both ids, the other one of them.                *)

MCWanted == <<{{"i1", "i2"}}, {{"i1"}}>>

-----------------------------------------------------------------------------
(* The chat: a history of the length that is kept, and a longer one.        *)

MCHistories == {<<"user">>, <<"user", "system">>}

MCToolCalls ==
    {[name |-> "get_fee_estimates", args |-> TRUE]}

-----------------------------------------------------------------------------
(* Reviews: amounts of four bits, words of the calldata of eight.           *)

Data(kind, prefix, full, clean, word) ==
    [kind |-> kind, prefix |-> prefix, full |-> full, clean |-> clean, word |-> word]

NoData == Data("empty", "0x", FALSE, FALSE, Bad)
Short  == Data("short", "0x", FALSE, FALSE, Bad)
Foreign == Data("other", "0x", TRUE, TRUE, 1)

MCDatas ==
    {NoData, Short, Foreign, Data("transfer", "0x", FALSE, TRUE, Bad),
     Data("transfer", "0x", TRUE, FALSE, 3), Data("approve", "0x", FALSE, TRUE, Bad),
     Data("approve", "0X", TRUE, TRUE, 255)}
    \cup {Data("transfer", "0x", TRUE, TRUE, word) : word \in {3, 12, 16}}
    \cup {Data("approve", "0x", TRUE, TRUE, word) : word \in {3, 16, 255}}

MCRequests ==
    [chain : {"ethereum"}, to : {TRUE}, value : {NotGiven, 5}, gas : {NotGiven, 1},
     price : {Bad}, data : MCDatas, eth_sign : {FALSE}, scam : BOOLEAN, phishing : {FALSE}]
    \cup
    [chain : {"solana", "bitcoin", "tron"}, to : {TRUE}, value : {NotGiven, Bad, 5},
     gas : {NotGiven}, price : {NotGiven}, data : {NoData, Short, Foreign},
     eth_sign : {FALSE}, scam : {FALSE}, phishing : {FALSE}]
    \cup
    [chain : {"base"}, to : BOOLEAN, value : {Bad, 14}, gas : {NotGiven}, price : {NotGiven},
     data : {NoData}, eth_sign : BOOLEAN, scam : {FALSE}, phishing : BOOLEAN]

Outcome(call, gas, price, native, token, meta) ==
    [alchemy |-> "down", changes |-> <<>>, call |-> call, gas |-> gas, price |-> price,
     native |-> native, token |-> token, meta |-> meta]

Change(side, asset, raw) == [side |-> side, asset |-> asset, raw |-> raw]

MCOutcomes ==
    {Outcome(call, 1, 1, 6, 3, TRUE) : call \in {"ok", "down", "reverts"}}
    \cup {Outcome("ok", 1, 1, n, t, TRUE) : n \in {Down, 0, 2, 7}, t \in {Down, 3, 12}}
    \cup {Outcome("ok", Down, Down, 6, 3, FALSE), Outcome("ok", Down, 1, 6, 3, TRUE),
          Outcome("ok", 1, Down, 6, 12, TRUE)}
    \cup {[Outcome("reverts", 1, 1, 3, 3, TRUE) EXCEPT !.alchemy = "reverts"]}
    \cup {[Outcome("ok", 1, 1, 3, 3, TRUE) EXCEPT !.alchemy = "ok", !.changes = changes] :
            changes \in {<<>>, <<Change("from", "native", 3), Change("others", "token", 1),
                                 Change("to", "token", 12)>>}}

-----------------------------------------------------------------------------
(* Signing: numbers of zero to three bytes, and calldata whose length, and  *)
(* the length of the lists around it, are on both sides of 55.              *)

Recipient == [i \in 1..20 |-> IF i = 1 THEN 0 ELSE i]
Contract  == [i \in 1..20 |-> 200 + i]

MCParameters ==
    [chain_id : {1, 137}, nonce : {0, 127, 128}, max_priority_fee_per_gas : {0, 300},
     max_fee_per_gas : {299, 300, 65536}, gas_limit : {21000}, to : {<<>>, Recipient},
     value : {0, 255, 256, BadText}, data : {<<>>}, token : {<<>>}]
    \cup
    [chain_id : {8453}, nonce : {1, 70000}, max_priority_fee_per_gas : {1},
     max_fee_per_gas : {300}, gas_limit : {65000}, to : {Recipient}, value : {0, 256, BadText},
     data : {<<0>>, <<127>>, <<128>>}
              \cup {[i \in 1..n |-> (7 * i) % 256] :
                      n \in {2} \cup (13..24) \cup (54..57) \cup {255, 256}},
     token : {<<>>, Contract}]

MCSignatures ==
    {[v |-> 0, r |-> <<9, 1>>, s |-> <<8, 0>>], [v |-> 1, r |-> <<0, 7>>, s |-> <<0, 0>>]}

MCMessages == {[i \in 1..n |-> 49] : n \in {0, 1, 9, 10, 99}}

-----------------------------------------------------------------------------
(* Portfolios: one on TRON alone, asked for twice at a time, and one with a *)
(* bad address beside a good one.                                           *)

MCWorth == [a \in {"e", "t", "b"} |-> [native |-> IF a = "t" THEN 1 ELSE 0, tokens |-> 0]]

MCPortfolios == <<{{"t"}, {"b", "e"}}, {{"t"}}>>

-----------------------------------------------------------------------------
(* Fees: blocks with no, one and three percentiles; quiet and busy networks.*)

Blocks ==
    {<<>>, <<0>>, <<5>>} \cup {<<a, b, c>> : a \in 0..1, b \in 1..2, c \in {2, 5}}

MCSenders ==
    {[pre |-> "0x", len |-> 42, hex |-> TRUE, base58 |-> FALSE, bech32 |-> FALSE],
     [pre |-> "0x", len |-> 41, hex |-> TRUE, base58 |-> FALSE, bech32 |-> FALSE]}

MCReports ==
    [ethereum |-> [base : {<<>>, <<7, 3>>, <<40>>},
                   reward : {<<>>} \cup {<<x>> : x \in Blocks}
                                   \cup {<<x, y>> : x \in Blocks, y \in Blocks}],
     solana   |-> UNION {[1..n -> {0, 3, 8}] : n \in 0..4},
     bitcoin  |-> {[hour |-> a, half_hour |-> a + b, fastest |-> a + b + c] :
                     a \in 0..1, b \in 0..1, c \in 0..1},
     tron     |-> {<<>>, [getEnergyFee |-> 5],
                   [getTransactionFee |-> -1, getEnergyFee |-> 0]}]

-----------------------------------------------------------------------------
(* Keys.                                                                    *)

MCPhrases ==
    [words : {"w1", "w2"}, count : {12, 15, 24}, spaces : {{}, {"outer"}, {"inner", "outer"}},
     known : BOOLEAN]

-----------------------------------------------------------------------------

callsVars    == vars
bucketVars   == <<buckets, last_gc, worker, allowance, promise>>
priceVars    == <<cache, caller>>
cachesVars   == <<mined, index, collected, job>>
balancesVars == <<documents, holder, wallet>>

serverVars ==
    <<part, clock, callsVars, bucketVars, priceVars, cachesVars, pagesVars, chatVars,
      reviewVars, signingVars, balancesVars, feesVars, coreVars>>

Parts == {"calls", "limiter", "prices", "histories", "pages", "chat", "review", "signing",
          "balances", "fees", "keys"}

ServerInit ==
    /\ part \in Parts
    /\ Init /\ LimiterInit /\ PricesInit /\ HistoryInit /\ PagesInit /\ ChatInit
    /\ ReviewInit /\ SigningInit /\ PortfolioInit /\ FeesInit /\ CoreInit
    /\ net # "bitcoin" => part = "pages"

\* The behaviour is about part p, and every other part stands still.
Only(p) ==
    /\ part = p /\ part' = p
    /\ IF p \in {"limiter", "prices", "histories", "balances"} THEN TRUE ELSE UNCHANGED clock
    /\ IF p = "calls"     THEN TRUE ELSE UNCHANGED callsVars
    /\ IF p = "limiter"   THEN TRUE ELSE UNCHANGED bucketVars
    /\ IF p = "prices"    THEN TRUE ELSE UNCHANGED priceVars
    /\ IF p = "histories" THEN TRUE ELSE UNCHANGED cachesVars
    /\ IF p = "pages"     THEN TRUE ELSE UNCHANGED pagesVars
    /\ IF p = "chat"      THEN TRUE ELSE UNCHANGED chatVars
    /\ IF p = "review"    THEN TRUE ELSE UNCHANGED reviewVars
    /\ IF p = "signing"   THEN TRUE ELSE UNCHANGED signingVars
    /\ IF p = "balances"  THEN TRUE ELSE UNCHANGED balancesVars
    /\ IF p = "fees"      THEN TRUE ELSE UNCHANGED feesVars
    /\ IF p = "keys"      THEN TRUE ELSE UNCHANGED coreVars

ServerNext ==
    \/ Only("calls")     /\ Next
    \/ Only("limiter")   /\ LimiterNext
    \/ Only("prices")    /\ PricesNext
    \/ Only("histories") /\ HistoryNext
    \/ Only("pages")     /\ PagesNext
    \/ Only("chat")      /\ ChatNext
    \/ Only("review")    /\ ReviewNext
    \/ Only("signing")   /\ SigningNext
    \/ Only("balances")  /\ PortfolioNext
    \/ Only("fees")      /\ FeesNext
    \/ Only("keys")      /\ CoreNext

ServerSpec == ServerInit /\ [][ServerNext]_serverVars /\ Fairness /\ ChatFairness

\* The types of all parts.
ServerTypeOK ==
    /\ TypeOK /\ LimiterTypeOK /\ PricesTypeOK /\ HistoryTypeOK /\ PagesTypeOK
    /\ ChatTypeOK /\ ReviewTypeOK /\ SigningTypeOK /\ PortfolioTypeOK /\ FeesTypeOK
    /\ CoreTypeOK
=============================================================================
