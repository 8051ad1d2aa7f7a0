------------------------------- MODULE Networks -------------------------------
(* The networks of the wallet and what an address of each looks like        *)
(* (crates/chain-adapters/src/types.rs, crates/api-server/src/chains.rs,    *)
(* crates/api-server/src/ai/tools.rs).                                      *)
(* An address is [pre, len, hex, base58, bech32]: its prefix, its length    *)
(* and the alphabets that the rest of it belongs to.                        *)
EXTENDS Integers, Sequences, SequencesExt, FiniteSets

EVM_CHAINS == <<"ethereum", "polygon", "bsc", "arbitrum", "base">>

ChainIds == ToSet(EVM_CHAINS) \cup {"solana", "bitcoin", "tron"}

IsEvm(chain) == chain \in ToSet(EVM_CHAINS)

\* ChainId::from_str of a name in lower case.
ChainFromStr(name) ==
    CASE name \in ChainIds -> name
      [] name = "eth"      -> "ethereum"
      [] name = "matic"    -> "polygon"
      [] name = "bnb"      -> "bsc"
      [] name = "sol"      -> "solana"
      [] name = "btc"      -> "bitcoin"
      [] name = "trx"      -> "tron"
      [] OTHER             -> "unknown"

-----------------------------------------------------------------------------
(* Addresses.                                                               *)

PlausibleBitcoin(a) ==
    \/ a.pre \in {"bc1", "tb1"} /\ a.len - 3 \in 11..87 /\ a.bech32
    \/ a.pre = "bcrt1" /\ a.len - 5 \in 11..87 /\ a.bech32
    \/ a.pre \in {"1", "3", "m", "n", "2"} /\ a.len \in 26..35 /\ a.base58

\* Address::new
ValidAddress(chain, a) ==
    CASE IsEvm(chain)       -> a.len = 42 /\ a.pre = "0x" /\ a.hex
      [] chain = "solana"   -> a.len \in 32..44 /\ a.base58
      [] chain = "bitcoin"  -> PlausibleBitcoin(a)
      [] chain = "tron"     -> a.len = 34 /\ a.pre = "T" /\ a.base58

\* ai/tools.rs, classify_addresses: the first network that takes it.
ChainOf(a) ==
    IF ValidAddress("ethereum", a) THEN "evm"
    ELSE IF ValidAddress("bitcoin", a) THEN "bitcoin"
    ELSE IF ValidAddress("tron", a) THEN "tron"
    ELSE IF ValidAddress("solana", a) THEN "solana"
    ELSE "none"

\* For each network the places of its addresses in the list.
ClassifyAddresses(list) ==
    [kind \in {"evm", "bitcoin", "tron", "solana"} |->
       {i \in DOMAIN list : ChainOf(list[i]) = kind}]
=============================================================================
