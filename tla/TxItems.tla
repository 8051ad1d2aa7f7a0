------------------------------- MODULE TxItems -------------------------------
(* How the API server turns what networks report into the items of a        *)
(* history: the rows of Etherscan (crates/api-server/src/indexer.rs), the   *)
(* records of the Bitcoin, Solana and TRON adapters (crates/chain-adapters) *)
(* and their mapping (handlers/history.rs, record_to_item), and the sums of *)
(* handlers/analytics.rs.  Hashes are numbers, a price is a number of       *)
(* dollars for one unit, wording and decimals are left out.                 *)
EXTENDS Integers, Sequences, SequencesExt, FiniteSets, FiniteSetsExt

CONSTANTS
    Owner,   \* the address whose history is asked for
    Native,  \* symbol of the native coin
    Nobody   \* no address

ASSUME ItemsAssumption == Nobody # Owner

DAY == 1  \* the clock of histories counts days

Categories == {"transfer", "approve", "swap", "mint", "dapp_interaction"}

\* What an item tells.  fee is in coins, usd the price that was taken for it.
Item == [hash : Int, at : Int, category : Categories, direction : {"in", "out", "self"},
         amount : Int, symbol : STRING, counterparty : STRING, fee : Int, usd : Int,
         status : {"confirmed", "pending", "failed"}]

-----------------------------------------------------------------------------
(* Etherscan.  A row of txlist is [hash, at, from, to, value, call, fname,  *)
(* fee, failed]: call is what the selector of the input is known as, fname  *)
(* what functionName says.  The rows of tokentx are [from, to, amount,      *)
(* symbol]; those of a transaction are grouped by its hash, with its time.  *)
(* The order of either list does not matter.                                *)

\* The places of the moves that the owner makes, and receives.
SentBy(moves)     == {k \in DOMAIN moves : moves[k].from = Owner}
ReceivedBy(moves) == {k \in DOMAIN moves : moves[k].to = Owner}

FirstAt(entries, places) == entries[Min(places)]

\* categorize: the tests in their order.
Categorize(call, fname, sent, received) ==
    IF call \in {"empty", "transfer"}                     THEN "transfer"
    ELSE IF "approve" \in {call, fname}                   THEN "approve"
    ELSE IF \/ "swap" \in {call, fname}
            \/ sent # {} /\ received # {}                 THEN "swap"
    ELSE IF "mint" \in {call, fname}                      THEN "mint"
    ELSE "dapp_interaction"

TxDirection(tx, received) ==
    IF tx.from = Owner
      THEN IF tx.to = Owner THEN "self" ELSE "out"
      ELSE IF tx.to = Owner \/ received # {} THEN "in" ELSE "self"

\* The token move an item shows: the owner's first payment, or first receipt;
\* none if the transfer carries coins, or there is no move.
ShownMove(tx, category, moves) ==
    IF tx.value > 0 /\ category = "transfer" THEN <<>>
    ELSE IF SentBy(moves) # {}     THEN <<FirstAt(moves, SentBy(moves))>>
    ELSE IF ReceivedBy(moves) # {} THEN <<FirstAt(moves, ReceivedBy(moves))>> ELSE <<>>

\* tx_to_item
TxToItem(tx, moves, usd) ==
    LET sent      == SentBy(moves)
        received  == ReceivedBy(moves)
        category  == Categorize(tx.call, tx.fname, sent, received)
        direction == TxDirection(tx, received)
        shown     == ShownMove(tx, category, moves)
    IN  [hash |-> tx.hash, at |-> tx.at, category |-> category, direction |-> direction,
         amount |-> IF shown = <<>> THEN tx.value ELSE Head(shown).amount,
         symbol |-> IF shown = <<>> THEN Native ELSE Head(shown).symbol,
         counterparty |->
           CASE direction = "out"  -> IF shown = <<>> THEN tx.to ELSE Head(shown).to
             [] direction = "in"   -> IF shown = <<>> THEN tx.from ELSE Head(shown).from
             [] direction = "self" -> Nobody,
         fee |-> IF tx.from = Owner THEN tx.fee ELSE 0, usd |-> usd,
         status |-> IF tx.failed THEN "failed" ELSE "confirmed"]

\* token_only_item: a transaction that only tokentx shows.
TokenOnlyItem(hash, group) ==
    LET toOwner   == ReceivedBy(group.moves)
        direction == IF toOwner # {} THEN "in" ELSE "out"
        m         == FirstAt(group.moves, IF toOwner # {} THEN toOwner ELSE SentBy(group.moves))
    IN  [hash |-> hash, at |-> group.at, category |-> "transfer",
         direction |-> direction, amount |-> m.amount, symbol |-> m.symbol,
         counterparty |-> IF direction = "in" THEN m.from ELSE m.to,
         fee |-> 0, usd |-> 0, status |-> "confirmed"]

MovesOf(tokentx, hash) == IF hash \in DOMAIN tokentx THEN tokentx[hash].moves ELSE <<>>

\* Slip: the moves of a transaction are listed beside it.
NormalizeTwice(txlist, tokentx, usd) ==
    {TxToItem(tx, MovesOf(tokentx, tx.hash), usd) : tx \in txlist}
      \cup {TokenOnlyItem(h, tokentx[h]) : h \in DOMAIN tokentx}

\* normalize_etherscan: one item for each hash.  The sort by time is left to
\* the reader of the set.
NormalizeEtherscan(txlist, tokentx, usd) ==
    {TxToItem(tx, MovesOf(tokentx, tx.hash), usd) : tx \in txlist}
      \cup {TokenOnlyItem(h, tokentx[h]) : h \in DOMAIN tokentx \ {tx.hash : tx \in txlist}}

-----------------------------------------------------------------------------
(* The adapters.  A record is [hash, at, from, to, amount, fee, status];    *)
(* an amount of -1 and a fee of -1 are unknown.                             *)

Values(puts) == [k \in DOMAIN puts |-> puts[k].value]

SumOf(puts) == SumFunction(Values(puts))

\* The places of the owner's, and what they amount to.
Owned(puts) == {k \in DOMAIN puts : puts[k].addr = Owner}

SumOwned(puts) == SumFunctionOnSet(Values(puts), Owned(puts))

\* The first entry of somebody else, if there is one.
FirstForeign(puts) ==
    LET foreign == DOMAIN puts \ Owned(puts)
    IN  IF foreign = {} THEN Nobody ELSE FirstAt(puts, foreign).addr

\* Slip: what comes back as change is not subtracted.
NetWithoutChange(tx) == IF Owned(tx.vin) = {} THEN SumOwned(tx.vout) ELSE - SumOwned(tx.vin)

Net(tx) == SumOwned(tx.vout) - SumOwned(tx.vin)

\* bitcoin.rs, tx_to_record.
BitcoinRecord(tx, confirmed) ==
    [hash |-> tx.hash, at |-> tx.at,
     from |-> IF Net(tx) < 0 THEN Owner ELSE FirstForeign(tx.vin),
     to   |-> IF Net(tx) < 0 THEN FirstForeign(tx.vout) ELSE Owner,
     amount |-> IF Net(tx) < 0 THEN - Net(tx) ELSE Net(tx),
     fee |-> tx.fee, status |-> IF confirmed THEN "confirmed" ELSE "pending"]

\* bitcoin.rs, balance_from_address_info, of the sums an address has been
\* funded with and has spent, confirmed or not.
BitcoinBalance(funded, spent) == IF funded > spent THEN funded - spent ELSE 0

\* solana.rs, signature_to_record: neither amounts nor the other side.
SolanaRecord(sig) ==
    [hash |-> sig.hash, at |-> sig.at, from |-> Owner, to |-> Nobody, amount |-> -1,
     fee |-> -1,
     status |-> IF sig.failed THEN "failed"
                ELSE IF sig.confirmation \in {"finalized", "confirmed"}
                  THEN "confirmed" ELSE "pending"]

\* tron.rs, tx_to_record: the amount of a native transfer only, the contract
\* where there is no recipient.
TronRecord(tx) ==
    [hash |-> tx.hash, at |-> tx.at, from |-> tx.owner,
     to |-> IF tx.recipient # Nobody THEN tx.recipient ELSE tx.contract,
     amount |-> IF tx.kind = "TransferContract" THEN tx.amount ELSE -1,
     fee |-> tx.fee,
     status |-> CASE tx.ret = "SUCCESS" -> "confirmed"
                  [] tx.ret = "none"    -> IF tx.mined THEN "confirmed" ELSE "pending"
                  [] OTHER              -> "failed"]

RecordDirection(r) ==
    IF r.from = Owner /\ r.to = Owner THEN "self"
    ELSE IF r.to = Owner THEN "in"
    ELSE IF r.from = Owner THEN "out" ELSE "self"

\* record_to_item
RecordToItem(r, usd) ==
    LET direction == RecordDirection(r)
        other     == CASE direction = "in"   -> r.from
                       [] direction = "out"  -> r.to
                       [] direction = "self" -> Nobody
    IN  [hash |-> r.hash, at |-> r.at, category |-> "transfer", direction |-> direction,
         amount |-> IF r.amount < 0 THEN 0 ELSE r.amount, symbol |-> Native,
         counterparty |-> IF other = Owner THEN Nobody ELSE other,
         fee |-> IF r.fee < 0 THEN 0 ELSE r.fee, usd |-> usd, status |-> r.status]

-----------------------------------------------------------------------------
(* handlers/analytics.rs.                                                   *)

\* paid_fee, in dollars.
PaidFee(item) == IF item.direction = "in" THEN 0 ELSE item.fee * item.usd

\* Slip: the first instant of the period is cut off.
InPeriodOpen(items, now, period) ==
    {i \in items : i.at > (IF now > period THEN now - period ELSE 0) /\ i.at <= now + DAY}

InPeriod(items, now, period) ==
    {i \in items : i.at >= (IF now > period THEN now - period ELSE 0) /\ i.at <= now + DAY}

DayOf(i) == i.at - (i.at % DAY)

\* What the items amount to, one with another.
SumPaid(items) == SumFunction([i \in items |-> PaidFee(i)])

\* aggregate_fees: the total and the timeline by days.
AggregateFees(items, now, period) ==
    LET told == InPeriod(items, now, period)
    IN  [total_fees |-> SumPaid(told),
         timeline |-> [day \in {DayOf(i) : i \in {j \in told : PaidFee(j) > 0}} |->
                         SumPaid({i \in told : DayOf(i) = day})]]

Volume(i, price) == i.amount * (IF i.symbol \in DOMAIN price THEN price[i.symbol] ELSE 0)

SumVolume(items, price) == SumFunction([i \in items |-> Volume(i, price)])

\* aggregate_summary, with the prices by symbol.
AggregateSummary(items, now, period, price) ==
    LET told     == InPeriod(items, now, period)
        Going(d) == SumVolume({i \in told : i.direction = d}, price)
    IN  [total_in |-> Going("in"), total_out |-> Going("out"),
         total_fees |-> SumPaid(told), tx_count |-> Cardinality(told),
         by_category |-> [c \in {i.category : i \in told} |->
            SumVolume({i \in told : i.category = c}, price)]]
=============================================================================
