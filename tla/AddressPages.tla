----------------------------- MODULE AddressPages -----------------------------
(* The history of an address page by page: the Bitcoin, the Solana and the  *)
(* TRON adapter (crates/chain-adapters/src/bitcoin.rs, solana.rs, tron.rs,  *)
(* get_transaction_history) behind handlers/history.rs, with a client that  *)
(* follows next_cursor while payments come and are confirmed.               *)
EXTENDS TxItems

CONSTANTS
    Other,       \* everybody else
    PAGE,        \* entries of a page: 25 in all three adapters
    Limits,      \* the limits a client may set
    MaxPayments, \* bound: transactions of the address
    NoCursor, NoLimit

ASSUME PagesAssumption ==
    /\ PAGE \in Nat \ {0} /\ MaxPayments \in Nat
    /\ NoCursor \notin Nat /\ Other # Owner

VARIABLES
    net,     \* which network it is
    chain,   \* confirmed transactions of the address, oldest first
    mempool,    \* those that are not, oldest first
    client   \* what the client has, its cursor, and what there was when it began

pagesVars == <<net, chain, mempool, client>>

PagedNetworks == {"bitcoin", "solana", "tron"}

Away == [at |-> "away", limit |-> NoLimit, cursor |-> NoCursor, told |-> <<>>, old |-> {}]

All == chain \o mempool

Hashes(txs) == {txs[k].hash : k \in DOMAIN txs}

PagesTypeOK ==
    /\ net \in PagedNetworks
    /\ Len(All) <= MaxPayments /\ Hashes(All) = 1..Len(All)
    /\ client.at \in {"away", "reads", "done"}
    /\ client.limit \in Limits \cup {NoLimit}
    /\ client.cursor \in Hashes(All) \cup {NoCursor}
    /\ ToSet(client.told) \subseteq Item
    /\ client.old \subseteq Hashes(All)

PagesInit ==
    /\ net \in PagedNetworks
    /\ chain = <<>> /\ mempool = <<>>
    /\ client = Away

-----------------------------------------------------------------------------
(* The network: outputs are records [addr, value, id], spent by id.         *)

Spent == UNION {{put.id : put \in ToSet(tx.vin)} : tx \in ToSet(All)}

Unspent ==
    {put \in UNION {ToSet(tx.vout) : tx \in ToSet(All)} : put.addr = Owner /\ put.id \notin Spent}

Appears(vin, outs) ==
    LET h == Len(All) + 1
    IN  /\ h <= MaxPayments
        /\ mempool' = Append(mempool,
             [hash |-> h, at |-> h, vin |-> vin, fee |-> SumOf(vin) - SumOf(outs),
              vout |-> [k \in DOMAIN outs |->
                          [addr |-> outs[k].addr, value |-> outs[k].value, id |-> <<h, k>>]]])
        /\ UNCHANGED <<net, chain, client>>

Put(addr, value) == [addr |-> addr, value |-> value]

\* Somebody pays the owner, and may take change.
IsPaid ==
    Appears(<<[addr |-> Other, value |-> 4, id |-> <<0, Len(All)>>]>>,
            <<Put(Owner, 2), Put(Other, 1)>>)

\* The owner pays with one output, alone, to itself, or with somebody else.
Pays ==
    \E put \in Unspent :
        \/ put.value > 1 /\ Appears(<<put>>, <<Put(Other, 1)>>)
        \/ put.value > 1 /\ Appears(<<put>>, <<Put(Owner, put.value - 1)>>)
        \/ Appears(<<put, [addr |-> Other, value |-> 3, id |-> <<0, Len(All)>>]>>,
                   <<Put(Other, 1), Put(Owner, 2)>>)

\* A block takes one of the transactions whose inputs are confirmed.
Confirms ==
    \E k \in DOMAIN mempool :
        /\ \A put \in ToSet(mempool[k].vin) :
             \A tx \in ToSet(mempool) : put.id \notin {out.id : out \in ToSet(tx.vout)}
        /\ chain' = Append(chain, mempool[k])
        /\ mempool' = RemoveAt(mempool, k)
        /\ UNCHANGED <<net, client>>

\* What the network answers for a cursor: Bitcoin the mempool before the first
\* page, and PAGE confirmed transactions; Solana and TRON know only what is in a
\* block.
Older(txs, cursor) ==
    IF cursor = NoCursor THEN Reverse(txs)
    ELSE Reverse(SubSeq(txs, 1, (CHOOSE k \in DOMAIN txs : txs[k].hash = cursor) - 1))

FirstOf(txs, n) == SubSeq(txs, 1, IF Len(txs) < n THEN Len(txs) ELSE n)

Page(cursor) ==
    (IF net = "bitcoin" /\ cursor = NoCursor THEN Reverse(mempool) ELSE <<>>)
      \o FirstOf(Older(chain, cursor), PAGE)

Visible == IF net = "bitcoin" THEN Hashes(All) ELSE Hashes(chain)

-----------------------------------------------------------------------------
(* The adapters and the handler.                                            *)

Confirmed(tx) == tx.hash \in Hashes(chain)

ConfirmedOf(page) == {k \in DOMAIN page : Confirmed(page[k])}

\* Slip: the first confirmed one, for want of a rev().
BitcoinCursorFirst(page) ==
    IF Len(page) >= PAGE /\ ConfirmedOf(page) # {} THEN page[Min(ConfirmedOf(page))].hash
    ELSE NoCursor

\* bitcoin.rs: the last confirmed transaction of a full page.
BitcoinCursor(page) ==
    IF Len(page) >= PAGE /\ ConfirmedOf(page) # {} THEN page[Max(ConfirmedOf(page))].hash
    ELSE NoCursor

\* solana.rs: the last signature of a full page.
SolanaCursor(page) == IF Len(page) = PAGE THEN Last(page).hash ELSE NoCursor

\* tron.rs: the fingerprint that TronGrid adds to a full page.
TronCursor(page) == IF Len(page) = PAGE THEN Last(page).hash ELSE NoCursor

NextCursor(page) ==
    CASE net = "bitcoin" -> BitcoinCursor(page)
      [] net = "solana"  -> SolanaCursor(page)
      [] net = "tron"    -> TronCursor(page)

\* The adapter does not ask TronGrid for visible=true, which tron.rs:3 announces:
\* the addresses of a transaction come in hex, and the owner's is not known again.
Record(tx) ==
    CASE net = "bitcoin" -> BitcoinRecord(tx, Confirmed(tx))
      [] net = "solana"  ->
           SolanaRecord([hash |-> tx.hash, at |-> tx.at, failed |-> FALSE, confirmation |->
                           IF Confirmed(tx) THEN "finalized" ELSE "processed"])
      [] net = "tron"    ->
           TronRecord([hash |-> tx.hash, at |-> tx.at, owner |-> "hex", recipient |-> "hex",
                       contract |-> Nobody, kind |-> "TransferContract",
                       amount |-> SumOf(tx.vout), fee |-> tx.fee, ret |-> "SUCCESS",
                       mined |-> Confirmed(tx)])

\* history: the adapter's page as items, cut at the limit.  The cursor is that
\* of the whole page.
HistoryPage(cursor, limit) ==
    LET page  == Page(cursor)
        items == [k \in DOMAIN page |-> RecordToItem(Record(page[k]), 1)]
    IN  [items |-> IF limit = NoLimit THEN items ELSE FirstOf(items, limit),
         next  |-> NextCursor(page)]

\* The client takes the first page, or the next one.
Takes(limit) ==
    LET page == HistoryPage(client.cursor, limit)
    IN  client' = [client EXCEPT !.at = IF page.next = NoCursor THEN "done" ELSE "reads",
                                 !.limit = limit, !.cursor = page.next,
                                 !.told = @ \o page.items,
                                 !.old = IF client.at = "away" THEN Visible ELSE @]

Begins ==
    /\ client.at = "away"
    /\ \E limit \in Limits \cup {NoLimit} : Takes(limit)
    /\ UNCHANGED <<net, chain, mempool>>

Continues ==
    /\ client.at = "reads"
    /\ Takes(client.limit)
    /\ UNCHANGED <<net, chain, mempool>>

PagesNext == IsPaid \/ Pays \/ Confirms \/ Begins \/ Continues

PagesSpec == PagesInit /\ [][PagesNext]_pagesVars

-----------------------------------------------------------------------------

\* A client that follows next_cursor to its end without a limit has each
\* transaction there was when it began, and each one once, whatever is paid or
\* confirmed meanwhile (ChainAdapter::get_transaction_history: "next_cursor =
\* None means the history is exhausted").  With a limit the entries between the
\* limit and the end of a page are lost.
PagesMissNothing ==
    client.at = "done" /\ client.limit = NoLimit =>
        /\ client.old \subseteq Hashes(client.told)
        /\ \A j, k \in DOMAIN client.told : client.told[j].hash = client.told[k].hash => j = k

\* The balance that the Bitcoin adapter reads off the sums of an address is
\* what its records add up to, incoming less outgoing: change, payments to
\* oneself and joint payments included (tx_to_record, balance_from_address_info).
BalanceIsHistory ==
    net = "bitcoin" =>
        LET Flow(i)  == CASE i.direction = "in"   -> i.amount
                          [] i.direction = "out"  -> - i.amount
                          [] i.direction = "self" -> 0
            funded == SumFunction([tx \in ToSet(All) |-> SumOwned(tx.vout)])
            spent  == SumFunction([tx \in ToSet(All) |-> SumOwned(tx.vin)])
        IN  SumFunction([tx \in ToSet(All) |-> Flow(RecordToItem(Record(tx), 1))])
              = BitcoinBalance(funded, spent)
=============================================================================
