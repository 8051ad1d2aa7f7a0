------------------------------- MODULE FeeTiers -------------------------------
(* The three fees of a network, slow, standard and fast, from what its node *)
(* reports (crates/chain-adapters, estimate_fees of evm.rs, solana.rs,      *)
(* bitcoin.rs and tron.rs), as GET /v1/fees and POST /v1/tx/params answer   *)
(* them (crates/api-server/src/handlers/fees.rs, tx_params.rs).             *)
EXTENDS Networks, FiniteSetsExt

CONSTANTS
    MAX_FEE,           \* the greatest u128
    DEFAULT_PRIORITY,  \* 1 gwei
    GAS_LIMIT_NATIVE, GAS_LIMIT_ERC20,
    SIGNATURE_FEE,     \* BASE_FEE_LAMPORTS
    Senders,           \* what clients pass as the sender's address
    Reports            \* chain -> what its node can report

ASSUME FeesAssumption ==
    /\ MAX_FEE \in Nat /\ DEFAULT_PRIORITY \in 2..MAX_FEE /\ 2 * DEFAULT_PRIORITY <= MAX_FEE
    /\ {GAS_LIMIT_NATIVE, GAS_LIMIT_ERC20, SIGNATURE_FEE} \subseteq Nat
    /\ DOMAIN Reports \subseteq ChainIds /\ "ethereum" \in DOMAIN Reports

Tiers == 1..3

VARIABLE quote  \* a question and its answer

feesVars == <<quote>>

NoQuote == [at |-> "none"]

Saturating(n) == Min({n, MAX_FEE})

-----------------------------------------------------------------------------
(* The adapters.                                                            *)

\* Slip: a block without its three percentiles counts as far as it goes.
SampledAnyhow(reward, tier) == {k \in DOMAIN reward : Len(reward[k]) >= tier}

\* The blocks that are sampled.
Sampled(reward, tier) == {k \in DOMAIN reward : Len(reward[k]) >= 3}

\* What is offered in these blocks at a tier, one with another.
SumSampled(reward, tier) == SumFunction([k \in Sampled(reward, tier) |-> reward[k][tier]])

\* The mean of a percentile; a default if nothing was sampled.
Priority(reward, tier) ==
    IF Sampled(reward, tier) = {}
      THEN <<DEFAULT_PRIORITY \div 2, DEFAULT_PRIORITY, 2 * DEFAULT_PRIORITY>>[tier]
      ELSE Max({1, SumSampled(reward, tier) \div Cardinality(Sampled(reward, tier))})

\* evm.rs, fee_estimate_from_history: twice the next base fee as headroom.
EvmTier(report, tier) ==
    LET priority == Priority(report.reward, tier)
    IN  [max_priority_fee |-> priority,
         max_fee |-> Saturating(Saturating(2 * Last(report.base)) + priority)]

\* The k-th of the fees in their order.
Ranked(fees, k) == Min({fee \in ToSet(fees) : Cardinality({i \in DOMAIN fees : fees[i] <= fee}) >= k})

\* The value at (n - 1) p of the sorted fees, rounded half up, in hundredths.
Percentile(fees, p) == Ranked(fees, 1 + ((2 * (Len(fees) - 1) * p + 100) \div 200))

\* solana.rs, fee_estimate_from_prioritization: a quiet network has defaults.
SolanaTier(fees, tier) ==
    [base |-> SIGNATURE_FEE,
     priority |-> IF \A k \in DOMAIN fees : fees[k] = 0 THEN <<0, 1000, 10000>>[tier]
                  ELSE Percentile(fees, <<25, 50, 90>>[tier])]

\* bitcoin.rs, fee_estimate_from_recommended
BitcoinTier(report, tier) == <<report.hour, report.half_hour, report.fastest>>[tier]

\* tron.rs, fee_estimate_from_parameters: no market, known prices by default.
TronTier(parameters, tier) ==
    LET Find(key, default) ==
          IF key \in DOMAIN parameters THEN Max({0, parameters[key]}) ELSE default
    IN  [bandwidth |-> Find("getTransactionFee", 1000), energy |-> Find("getEnergyFee", 210)]

\* What the nodes promise: percentiles of one block and the recommended fees are in
\* order, quantities have the width that they are read with, and the sum of a
\* column, which the code does not check, has it too.
ReportFits(chain, report) ==
    CASE IsEvm(chain) ->
           /\ report.base \in Seq(0..MAX_FEE) /\ report.reward \in Seq(Seq(0..MAX_FEE))
           /\ \A block \in ToSet(report.reward) :
                Len(block) >= 3 => block[1] <= block[2] /\ block[2] <= block[3]
           /\ \A tier \in Tiers : SumSampled(report.reward, tier) <= MAX_FEE
      [] chain = "solana"  -> report \in Seq(Nat)
      [] chain = "bitcoin" -> /\ {report.hour, report.half_hour, report.fastest} \subseteq Nat
                              /\ report.hour <= report.half_hour
                              /\ report.half_hour <= report.fastest
      [] chain = "tron"    -> \A key \in DOMAIN report : report[key] \in Int

ASSUME ReportsAssumption ==
    \A chain \in DOMAIN Reports : \A report \in Reports[chain] : ReportFits(chain, report)

\* estimate_fees; no base fee is an error.
EstimateFees(chain, report) ==
    CASE IsEvm(chain) /\ report.base # <<>> ->
           [tier \in Tiers |-> EvmTier(report, tier)]
      [] IsEvm(chain) /\ report.base = <<>> -> <<>>
      [] chain = "solana"  -> [tier \in Tiers |-> SolanaTier(report, tier)]
      [] chain = "bitcoin" -> [tier \in Tiers |-> BitcoinTier(report, tier)]
      [] chain = "tron"    -> [tier \in Tiers |-> TronTier(report, tier)]

-----------------------------------------------------------------------------
(* The handlers.                                                            *)

\* None of the four is answered: a node that fails, or FEES_TIMEOUT.
Refusals == {"bad_request", "bad_gateway", "timeout"}

FeesTypeOK ==
    \/ quote = NoQuote
    \/ quote.at \in Refusals
    \/ /\ quote.at \in {"fees", "params"} /\ quote.chain \in ChainIds
       /\ Len(quote.tiers) = 3 /\ quote.gas_limit \in Nat

FeesInit == quote = NoQuote

\* fees
AsksFees ==
    /\ quote = NoQuote
    /\ \E name \in DOMAIN Reports \cup {"eth", "doge"} :
         LET chain == ChainFromStr(name)
         IN  \/ /\ chain = "unknown"
                /\ quote' = [at |-> "bad_request"]
             \/ /\ chain # "unknown"
                /\ quote' \in {[at |-> "bad_gateway"], [at |-> "timeout"]}
             \/ /\ chain # "unknown"
                /\ \E report \in Reports[chain] :
                     LET tiers == EstimateFees(chain, report)
                     IN  quote' = IF tiers = <<>> THEN [at |-> "bad_gateway"]
                                  ELSE [at |-> "fees", chain |-> chain, report |-> report,
                                        tiers |-> tiers, gas_limit |-> 0]

\* tx_params: the nonce and the fees, or neither; EVM networks only.
AsksParams ==
    /\ quote = NoQuote
    /\ \E chain \in DOMAIN Reports, from \in Senders, token \in BOOLEAN :
         \/ /\ ~ (IsEvm(chain) /\ ValidAddress(chain, from))
            /\ quote' = [at |-> "bad_request"]
         \/ /\ IsEvm(chain) /\ ValidAddress(chain, from)
            /\ quote' \in {[at |-> "bad_gateway"], [at |-> "timeout"]}
         \/ /\ IsEvm(chain) /\ ValidAddress(chain, from)
            /\ \E report \in Reports[chain] :
                 LET tiers == EstimateFees(chain, report)
                 IN  quote' = IF tiers = <<>> THEN [at |-> "bad_gateway"]
                              ELSE [at |-> "params", chain |-> chain, report |-> report,
                                    tiers |-> tiers, gas_limit |->
                                      IF token THEN GAS_LIMIT_ERC20 ELSE GAS_LIMIT_NATIVE]

FeesNext == AsksFees \/ AsksParams

FeesSpec == FeesInit /\ [][FeesNext]_feesVars

-----------------------------------------------------------------------------

\* What one pays at most for a unit at a tier.
Rate(tier) ==
    CASE IsEvm(quote.chain)        -> quote.tiers[tier].max_fee
      [] quote.chain = "solana"    -> quote.tiers[tier].priority
      [] quote.chain = "bitcoin"   -> quote.tiers[tier]
      [] quote.chain = "tron"      -> quote.tiers[tier].energy

\* A faster tier never offers less than a slower one, whichever blocks lack
\* their percentiles and in whatever order the node lists its samples; on an EVM
\* network the tip is within the maximum, so that the extension's signer takes
\* it, and the maximum covers the next base fee and the tip together unless that
\* is beyond u128 (fee_estimate_from_history, fee_estimate_from_prioritization).
TiersInOrder ==
    quote.at \in {"fees", "params"} =>
        /\ Rate(1) <= Rate(2) /\ Rate(2) <= Rate(3)
        /\ IsEvm(quote.chain) => \A tier \in Tiers :
             LET t == quote.tiers[tier]
             IN  /\ 1 <= t.max_priority_fee /\ t.max_priority_fee <= t.max_fee
                 /\ tier > 1 => quote.tiers[tier - 1].max_priority_fee <= t.max_priority_fee
                 /\ t.max_fee >= Saturating(Last(quote.report.base) + t.max_priority_fee)
=============================================================================
