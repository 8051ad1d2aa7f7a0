------------------------------- MODULE TxReview -------------------------------
(* A transaction that a client has the API server look at before it is      *)
(* signed: decode, simulate, risk and explain                               *)
(* (crates/api-server/src/handlers/tx.rs, simulation.rs, risk/mod.rs,       *)
(* ai/mod.rs, ai/openai.rs), one after the other, the results of the        *)
(* earlier ones handed to the last.  Amounts are unsigned numbers of W bits *)
(* and changes signed ones, as u128 and i128 are; a word of the calldata is *)
(* any number.  Prices and wording are left out.                            *)
EXTENDS Networks, FiniteSetsExt

CONSTANTS
    W,                    \* width of an amount: 128
    NATIVE_TRANSFER_GAS,  \* 21000
    UNKNOWN_GAS,          \* 100000
    BASE_FEE_LAMPORTS,
    BTC_TYPICAL_VSIZE,
    Requests,             \* what clients ask about
    Outcomes              \* what the networks can answer meanwhile

ASSUME ReviewAssumption ==
    /\ W \in Nat \ {0, 1}
    /\ {NATIVE_TRANSFER_GAS, UNKNOWN_GAS, BASE_FEE_LAMPORTS, BTC_TYPICAL_VSIZE} \subseteq Nat

\* A request: chain, whether it has a recipient (to), value, gas, price (NotGiven,
\* or Bad where it cannot be parsed), data, and what the risk rules look at.
\* Calldata is [kind, prefix, full, clean, word]: the selector or "empty" or
\* "short"; the way the hex begins; whether both arguments are there; whether
\* the address is padded with zeros; the second argument, or Bad.
NotGiven == -1
Bad      == -2
Down     == -1  \* no answer of the network

Pow2 == 2 ^ W
Half == 2 ^ (W - 1)

\* What `as i128` and wrapping i128 arithmetic make of a number.
Signed(x) == ((x + Half) % Pow2) - Half

Saturated(x) == IF x >= Pow2 THEN Pow2 - 1 ELSE x

Given(x) == x >= 0

Calldata == [kind : STRING, prefix : STRING, full : BOOLEAN, clean : BOOLEAN,
             word : Nat \cup {Bad}]

\* What the fields hold: numbers without a sign, unless there is none.
ASSUME ReviewForms ==
    /\ Half \in Nat \ {0} /\ Pow2 = 2 * Half
    /\ \A r \in Requests :
         /\ r.chain \in ChainIds /\ r.data \in Calldata
         /\ {r.value, r.gas, r.price} \subseteq Nat \cup {NotGiven, Bad}
    /\ \A net \in Outcomes :
         /\ {net.gas, net.price, net.native, net.token} \subseteq Nat \cup {Down}
         /\ {net.call, net.alchemy} \subseteq {"ok", "down", "reverts"}

VARIABLE review  \* the request, the four answers so far, the risk handed to explain

reviewVars == <<review>>

NoAnswer == [at |-> "none"]

-----------------------------------------------------------------------------
(* Calldata.                                                                *)

\* risk/mod.rs, parse_approve_calldata: only "0x" is taken off.
IsApprove(d) == d.kind = "approve" /\ d.prefix # "0X" /\ d.full /\ d.word # Bad

\* Slip: all bits of the word, exactly.
ExactMax(d) == d.word = 2 ^ (2 * W) - 1

\* is_effectively_unlimited: more than any amount.
IsUnlimited(d) == d.word >= Pow2

\* simulation.rs, normalize_calldata: either prefix becomes "0x".
Normalized(d) == [d EXCEPT !.prefix = "0x"]

\* classify_evm_calldata with decode_erc20_transfer.
EvmAction(d) ==
    CASE d.kind = "empty" -> "native"
      [] d.kind = "transfer" /\ d.full /\ d.clean -> "erc20"
      [] IsApprove(d) -> "approve"
      [] OTHER -> "unknown"

\* handlers/tx.rs, decode.
Decode(r) ==
    LET d == r.data
        Is(action, selector, unlimited) ==
          [at |-> "decoded", action |-> action, selector |-> selector, unlimited |-> unlimited]
    IN  CASE d.kind = "empty" -> Is("native_transfer", "none", FALSE)
          [] IsApprove(d) -> Is("approve", "approve", IsUnlimited(d))
          [] d.kind = "transfer" /\ d.prefix # "0X" -> Is("erc20_transfer", "transfer", FALSE)
          [] OTHER -> Is("contract_call",
                         IF d.prefix = "0X" \/ d.kind = "short" THEN "none" ELSE d.kind, FALSE)

-----------------------------------------------------------------------------
(* simulation.rs                                                            *)

Response ==
    [at |-> "simulated", success |-> TRUE, simulated |-> FALSE, will_revert |-> FALSE,
     changes |-> <<>>, warnings |-> {}, gas |-> Down]

BadRequest == [at |-> "bad_request"]

\* Slip: the last coin cannot be spent.
ChangeOrBroke(asset, before, delta) ==
    LET after == Signed(Signed(before) + delta)
    IN  [asset |-> asset, before |-> before, delta |-> delta,
         after |-> IF after <= 0 THEN 0 ELSE after, insufficient |-> after <= 0]

\* make_change, in wrapping arithmetic as a release build has it.
MakeChange(asset, before, delta) ==
    LET after == Signed(Signed(before) + delta)
    IN  [asset |-> asset, before |-> before, delta |-> delta,
         after |-> IF after < 0 THEN 0 ELSE after, insufficient |-> after < 0]

\* A loss of so much, cast as it is: -(x as i128).
Loses(asset, before, x) == MakeChange(asset, before, Signed(- Signed(x)))

\* What the changes themselves warn of.
Shortage(changes) ==
    IF \E k \in DOMAIN changes : changes[k].insufficient THEN {"insufficient"} ELSE {}

\* evm_native_balance: the change of the native coin, or a warning.
NativeLoss(net, x) == IF net.native = Down THEN <<>> ELSE <<Loses("native", net.native, x)>>

NoBalance(net) == IF net.native = Down THEN {"no_balance"} ELSE {}

\* The gas limit: the request's, or an estimate, or a guess.
GasLimit(r, net, reverts) ==
    CASE Given(r.gas)            -> r.gas
      [] ~Given(r.gas) /\ reverts -> NATIVE_TRANSFER_GAS
      [] ~Given(r.gas) /\ ~reverts ->
           IF net.gas # Down THEN net.gas
           ELSE IF r.data.kind = "empty" THEN NATIVE_TRANSFER_GAS ELSE UNKNOWN_GAS

GasWarnings(r, net, reverts) ==
    IF ~Given(r.gas) /\ ~reverts /\ net.gas = Down /\ r.data.kind # "empty"
      THEN {"gas_guessed"} ELSE {}

GasPrice(r, net) ==
    IF Given(r.price) THEN r.price ELSE IF net.price = Down THEN 0 ELSE net.price

PriceWarnings(r, net) == IF ~Given(r.price) /\ net.price = Down THEN {"no_fee"} ELSE {}

\* A call that would revert: no changes.
Reverts == [Response EXCEPT !.success = FALSE, !.simulated = TRUE, !.will_revert = TRUE]

\* alchemy_asset_changes, of an answer with a result: an error in it, or the changes,
\* of which only the signer's are told.
AlchemyResponse(net) ==
    LET mine    == SelectSeq(net.changes, LAMBDA c : c.side # "others")
        changes == [k \in DOMAIN mine |->
          MakeChange(mine[k].asset,
                     Max({0, IF mine[k].asset = "native" THEN net.native ELSE net.token}),
                     IF mine[k].side = "from" THEN Signed(- Signed(mine[k].raw))
                                              ELSE Signed(mine[k].raw))]
    IN  IF net.alchemy = "reverts" THEN Reverts
        ELSE [Response EXCEPT !.simulated = TRUE, !.changes = changes,
                              !.warnings = Shortage(changes), !.gas = net.gas]

\* simulate_evm, after eth_call: the changes by the kind of the action.
EvmResponse(r, net, seen) ==
    LET d      == Normalized(r.data)
        value  == IF r.value = NotGiven THEN 0 ELSE r.value
        gas    == GasLimit(r, net, FALSE)
        fee    == Saturated(gas * GasPrice(r, net))
        known  == seen \cup GasWarnings(r, net, FALSE) \cup PriceWarnings(r, net)
        meta   == IF net.meta THEN {} ELSE {"no_symbol"}
        With(simulated, changes, warnings) ==
          [Response EXCEPT !.simulated = simulated, !.changes = changes, !.gas = gas,
                           !.warnings = known \cup warnings \cup Shortage(changes)]
    IN  CASE EvmAction(d) = "native" ->
               With(net.native # Down, NativeLoss(net, Saturated(value + fee)), NoBalance(net))
          [] EvmAction(d) = "erc20" ->
               LET coins == NativeLoss(net, fee)
               IN  CASE net.token = Down ->
                          With(FALSE, coins, meta \cup {"no_token_balance"} \cup NoBalance(net))
                     [] net.token # Down /\ d.word \notin 0..(Pow2 - 1) ->
                          With(FALSE, <<>>, meta \cup {"too_large"})
                     [] OTHER ->
                          With(TRUE, <<Loses("token", net.token, d.word)>> \o coins,
                               meta \cup NoBalance(net))
          [] EvmAction(d) = "approve" ->
               With(TRUE, NativeLoss(net, fee),
                    meta \cup {"approve"} \cup NoBalance(net)
                      \cup IF IsUnlimited(d) THEN {"unlimited"} ELSE {})
          [] EvmAction(d) = "unknown" -> With(FALSE, <<>>, {"unknown_method"})

\* simulate_evm
SimulateEvm(r, net) ==
    LET called == r.data.kind # "empty"
    IN  CASE r.value = Bad -> BadRequest
          [] r.value # Bad /\ ~r.to -> [Response EXCEPT !.warnings = {"deployment"}]
          [] r.value # Bad /\ r.to /\ net.alchemy # "down" -> AlchemyResponse(net)
          [] OTHER ->
               IF called /\ net.call = "reverts"
                 THEN [Reverts EXCEPT !.gas = GasLimit(r, net, TRUE),
                                      !.warnings = PriceWarnings(r, net)]
                 ELSE EvmResponse(r, net,
                        IF called /\ net.call = "down" THEN {"call_unchecked"} ELSE {})

\* simulate_solana; decode_solana_tx refuses what is neither base64 nor hex.
SimulateSolana(r, net) ==
    LET sent    == r.data.kind # "empty"
        fails   == sent /\ net.call = "reverts"
        paid    == Given(r.value) /\ net.native # Down
        changes == IF paid THEN <<Loses("native", net.native,
                                        Saturated(r.value + BASE_FEE_LAMPORTS))>> ELSE <<>>
        ran     == sent /\ net.call # "down"
    IN  IF r.data.kind = "short" THEN BadRequest
        ELSE [Response EXCEPT
          !.success = ~fails, !.will_revert = fails, !.simulated = ran \/ paid,
          !.changes = changes,
          !.warnings = Shortage(changes)
            \cup (IF sent /\ net.call = "down" THEN {"call_unchecked"} ELSE {})
            \cup (IF Given(r.value) THEN NoBalance(net)
                  ELSE IF ran THEN {} ELSE {"nothing_to_simulate"})]

\* simulate_bitcoin
SimulateBitcoin(r, net) ==
    LET rate    == IF net.price = Down THEN 2 ELSE net.price
        changes == NativeLoss(net, Saturated(r.value + rate * BTC_TYPICAL_VSIZE))
    IN  CASE r.value = Bad      -> BadRequest
          [] r.value = NotGiven -> [Response EXCEPT !.warnings = {"nothing_to_simulate"}]
          [] Given(r.value)     ->
               [Response EXCEPT !.simulated = net.native # Down, !.changes = changes,
                                !.warnings = Shortage(changes) \cup NoBalance(net)
                                  \cup IF net.price = Down THEN {"no_fee"} ELSE {}]

\* simulate.  For TRON the code has an unreachable!() that is reached.
Simulate(r, net) ==
    CASE IsEvm(r.chain)        -> SimulateEvm(r, net)
      [] r.chain = "solana"    -> SimulateSolana(r, net)
      [] r.chain = "bitcoin"   -> SimulateBitcoin(r, net)
      [] r.chain = "tron"      -> [at |-> "panic"]

-----------------------------------------------------------------------------
(* risk/mod.rs and the handler.                                             *)

\* assess: the reasons; the level is the highest of theirs.
Reasons(r) ==
    (IF r.eth_sign THEN {"eth_sign"} ELSE {})
      \cup (IF r.scam THEN {"scam_address"} ELSE {})
      \cup (IF r.phishing THEN {"phishing_domain"} ELSE {})
      \cup (IF ~IsApprove(r.data) THEN {}
            ELSE IF IsUnlimited(r.data) THEN {"unlimited_approve"} ELSE {"token_approve"})

Assess(r) ==
    LET level == IF Reasons(r) \ {"token_approve"} # {} THEN "high"
                 ELSE IF Reasons(r) # {} THEN "medium" ELSE "low"
    IN  [at |-> "assessed", level |-> level, reasons |-> Reasons(r),
         requires_confirmation |-> level = "high"]

-----------------------------------------------------------------------------
(* ai/mod.rs, ai/openai.rs                                                  *)

\* classify: the action, or the selector.
TxKind(decoded) ==
    CASE "approve" \in {decoded.action, decoded.selector} ->
           IF decoded.unlimited THEN "unlimited_approve" ELSE "approve"
      [] decoded.action = "erc20_transfer" \/ decoded.selector = "transfer" -> "erc20"
      [] decoded.action = "native_transfer" -> "native"
      [] OTHER -> "other"

\* The risk may be left out of the request (ExplainRequest).
IsHigh(risk) == risk # NoAnswer /\ risk.level = "high"

IsTrivial(decoded, risk) ==
    ~IsHigh(risk) /\ TxKind(decoded) \in {"native", "erc20", "approve"}

\* explain_sync: the text of the kind, and every reason of a high risk.
ExplainSync(decoded, risk) ==
    [at |-> "explained", source |-> "rule_based", kind |-> TxKind(decoded),
     warns |-> IF IsHigh(risk) THEN risk.reasons ELSE {}]

\* explain, of OpenAiProvider and of the handler: an error, the timeout, an empty
\* answer and a missing key all end in the template.
Explain(decoded, risk, openai) ==
    IF IsTrivial(decoded, risk) \/ openai # "text"
      THEN ExplainSync(decoded, risk)
      ELSE [at |-> "explained", source |-> "ai", kind |-> "free_text", warns |-> {}]

-----------------------------------------------------------------------------

ReviewTypeOK ==
    \/ review = NoAnswer
    \/ /\ review.request \in Requests /\ review.net \in Outcomes
       /\ review.decoded.at = "decoded"
       /\ review.simulated.at \in {"none", "simulated", "bad_request", "panic", "timeout"}
       /\ {review.assessed.at, review.handed.at} \subseteq {"none", "assessed"}
       /\ review.explained.at \in {"none", "explained"}

\* transfer and approve of a token take no coins: with some, the call reverts.
Plausible(r, net) ==
    Given(r.value) /\ r.value > 0 /\ EvmAction(Normalized(r.data)) \in {"erc20", "approve"} =>
        "ok" \notin {net.call, net.alchemy}

ReviewInit == review = NoAnswer

Decodes ==
    /\ review = NoAnswer
    /\ \E r \in Requests, net \in Outcomes :
         /\ Plausible(r, net)
         /\ review' = [at |-> "review", request |-> r, net |-> net, decoded |-> Decode(r),
                       simulated |-> NoAnswer, assessed |-> NoAnswer, explained |-> NoAnswer,
                       handed |-> NoAnswer]

\* SIMULATE_TIMEOUT may end it.
Simulates ==
    /\ review.at = "review" /\ review.simulated = NoAnswer
    /\ \E answer \in {Simulate(review.request, review.net), [at |-> "timeout"]} :
         review' = [review EXCEPT !.simulated = answer]

Assesses ==
    /\ review.at = "review" /\ review.simulated # NoAnswer /\ review.assessed = NoAnswer
    /\ review' = [review EXCEPT !.assessed = Assess(review.request)]

\* The client hands in the risk, or leaves it out.
Explains ==
    /\ review.at = "review" /\ review.assessed # NoAnswer /\ review.explained = NoAnswer
    /\ \E risk \in {review.assessed, NoAnswer},
          openai \in {"text", "empty", "error", "timeout", "no_key"} :
         review' = [review EXCEPT !.handed = risk,
                                  !.explained = Explain(review.decoded, risk, openai)]

ReviewNext == Decodes \/ Simulates \/ Assesses \/ Explains

ReviewSpec == ReviewInit /\ [][ReviewNext]_reviewVars

-----------------------------------------------------------------------------

\* What a network takes of an asset for the request: the reference.
Taken(r, net, asset) ==
    LET value == IF Given(r.value) THEN r.value ELSE 0
        fee   == CASE r.chain = "solana"  -> BASE_FEE_LAMPORTS
                   [] r.chain = "bitcoin" -> net.price * BTC_TYPICAL_VSIZE
                   [] OTHER -> (IF Given(r.gas) THEN r.gas
                                ELSE IF net.gas # Down THEN net.gas ELSE NATIVE_TRANSFER_GAS)
                                 * (IF Given(r.price) THEN r.price ELSE net.price)
    IN  IF asset = "token" THEN r.data.word ELSE value + fee

\* A simulation that was not told by Alchemy and warns of nothing but a shortage
\* or an approval is exact: each asset falls from the balance by what the network
\* will take, fee and value once each, to zero at the least, and a shortage is
\* told exactly if there is one.  It holds while balance and cost fit into 127
\* bits; above, u128 `as i128` turns a loss into a gain (make_change).
ChangesAreExact ==
    LET r   == review.request
        net == review.net
        res == review.simulated
    IN  /\ review.at = "review" /\ res.at = "simulated" /\ net.alchemy = "down"
        /\ res.simulated /\ ~res.will_revert
        /\ res.warnings \subseteq {"insufficient", "approve", "unlimited"}
        => \A k \in DOMAIN res.changes :
             LET c    == res.changes[k]
                 cost == Taken(r, net, c.asset)
             IN  cost <= Half /\ c.before < Half =>
                   /\ c.before = IF c.asset = "token" THEN net.token ELSE net.native
                   /\ c.delta = - cost
                   /\ c.after = IF c.before < cost THEN 0 ELSE c.before - cost
                   /\ c.insufficient <=> c.before < cost

\* An allowance of more than any amount, with calldata that all can read: what
\* begins with "0X" only the simulation does.
Unlimited(r) ==
    r.data.kind = "approve" /\ r.data.full /\ r.data.prefix # "0X" /\ r.data.word >= Pow2

\* What must never pass as harmless: such an allowance, blind signing, a listed
\* address or site.
Dangerous(r) == r.eth_sign \/ r.scam \/ r.phishing \/ Unlimited(r)

\* Whatever the networks and the model answer: a dangerous request needs the
\* user's confirmation, and a template that explains it names every reason if the
\* client handed the risk in.  An unlimited allowance is called so by the decoder,
\* by the template even without the risk, and by every simulation of a call on an
\* EVM network that does not say the call would revert, unless Alchemy told the
\* changes: then the simulation has no word of an allowance.  What the model
\* writes is its own.
DangerIsTold ==
    LET r   == review.request
        res == review.simulated
    IN  review.at = "review" /\ Dangerous(r) =>
          /\ review.assessed # NoAnswer => review.assessed.requires_confirmation
          /\ review.explained # NoAnswer /\ review.explained.source # "ai" =>
               /\ review.handed # NoAnswer => review.explained.warns = Reasons(r)
               /\ Unlimited(r) => review.explained.kind = "unlimited_approve"
          /\ Unlimited(r) =>
               /\ review.decoded.unlimited
               /\ res.at = "simulated" /\ IsEvm(r.chain) /\ r.to /\ review.net.alchemy # "ok" =>
                    \/ {"approve", "unlimited"} \subseteq res.warnings
                    \/ res.will_revert /\ ~res.success /\ res.changes = <<>>
=============================================================================
