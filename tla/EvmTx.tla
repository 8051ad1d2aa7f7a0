-------------------------------- MODULE EvmTx --------------------------------
(* What the extension signs for an EVM network                              *)
(* (crates/wallet-core/src/evm_tx.rs): the parameters it is given, the RLP  *)
(* encoding of the type-2 transaction, the signed bytes, the calldata of a  *)
(* token transfer and the text of personal_sign.  A byte is a number, a     *)
(* hash is what is hashed, and a signature is any r, s and parity.          *)
EXTENDS Integers, Sequences

CONSTANTS
    MAX_U64, MAX_U128,  \* the greatest numbers of eight and of sixteen bytes
    Parameters,         \* what callers pass to from_json
    Signatures,         \* what the curve may return: [v, r, s]
    Messages            \* for personal_sign

Byte == 0..255

BadText == -1  \* a string that is no number

VARIABLE signing  \* a call from its parameters to its result

signingVars == <<signing>>

-----------------------------------------------------------------------------
(* RLP.                                                                     *)

\* A number in its fewest bytes; zero has none (strip_leading_zeros).
BigEndian[n \in 0..MAX_U128] ==
    IF n = 0 THEN <<>> ELSE Append(BigEndian[n \div 256], n % 256)

\* The two widths are eight and sixteen bytes.  The hex that callers pass stands as its
\* bytes, so many that the length of the transaction is a number too; r and s have 32.
ASSUME EvmTxAssumption ==
    /\ MAX_U64 \in Nat /\ MAX_U128 \in Nat /\ MAX_U64 <= MAX_U128
    /\ Len(BigEndian[MAX_U64]) <= 8 /\ Len(BigEndian[MAX_U128]) <= 16
    /\ \A p \in Parameters :
         /\ p = [chain_id |-> p.chain_id, nonce |-> p.nonce,
                 max_priority_fee_per_gas |-> p.max_priority_fee_per_gas,
                 max_fee_per_gas |-> p.max_fee_per_gas, gas_limit |-> p.gas_limit,
                 to |-> p.to, value |-> p.value, data |-> p.data, token |-> p.token]
         /\ {p.to, p.data, p.token} \subseteq Seq(Byte)
         /\ Len(p.data) + 500 <= MAX_U64
    /\ \A sig \in Signatures :
         /\ sig.v \in {0, 1} /\ {sig.r, sig.s} \subseteq Seq(Byte)
         /\ Len(sig.r) <= 32 /\ Len(sig.s) <= 32

StripLeadingZeros(bytes) ==
    LET ones == {i \in DOMAIN bytes : bytes[i] # 0}
    IN  IF ones = {} THEN <<>>
        ELSE SubSeq(bytes, CHOOSE i \in ones : \A j \in ones : i <= j, Len(bytes))

\* Slip: a length of 56 is still short.
Header56(base, size) ==
    IF size <= 56 THEN <<base + size>>
    ELSE <<base + 55 + Len(BigEndian[size])>> \o BigEndian[size]

\* The header of a string (base 0x80) or a list (base 0xc0).
Header(base, size) ==
    IF size <= 55 THEN <<base + size>>
    ELSE <<base + 55 + Len(BigEndian[size])>> \o BigEndian[size]

RlpBytes(data) ==
    IF Len(data) = 1 /\ data[1] < 128 THEN data ELSE Header(128, Len(data)) \o data

RlpUint(n) == RlpBytes(BigEndian[n])

RlpList(payload) == Header(192, Len(payload)) \o payload

-----------------------------------------------------------------------------
(* The transaction.                                                         *)

\* from_json: every number fits its width, and the two fees are in order.
Accepted(p) ==
    /\ {p.chain_id, p.nonce, p.gas_limit} \subseteq 0..MAX_U64
    /\ {p.max_priority_fee_per_gas, p.max_fee_per_gas, p.value} \subseteq 0..MAX_U128
    /\ Len(p.to) \in {0, 20}
    /\ p.max_fee_per_gas >= p.max_priority_fee_per_gas

RlpFields(tx) ==
    RlpUint(tx.chain_id) \o RlpUint(tx.nonce) \o RlpUint(tx.max_priority_fee_per_gas)
      \o RlpUint(tx.max_fee_per_gas) \o RlpUint(tx.gas_limit) \o RlpBytes(tx.to)
      \o RlpUint(tx.value) \o RlpBytes(tx.data) \o RlpList(<<>>)

\* What is hashed and signed.
SigningPreimage(tx) == <<2>> \o RlpList(RlpFields(tx))

\* raw_signed
RawSigned(tx, sig) ==
    <<2>> \o RlpList(RlpFields(tx) \o RlpUint(sig.v)
                       \o RlpBytes(StripLeadingZeros(sig.r))
                       \o RlpBytes(StripLeadingZeros(sig.s)))

Zeros(n) == [i \in 1..n |-> 0]

\* The last n bytes of a number that is shorter.
Padded(bytes, n) == Zeros(n - Len(bytes)) \o bytes

\* erc20_transfer_calldata, its selector being a9059cbb.
TransferCalldata(to, amount) ==
    <<169, 5, 156, 187>> \o Zeros(12) \o to \o Zeros(16) \o Padded(BigEndian[amount], 16)

\* The decimal text of a length.
Decimal(n) == IF n < 10 THEN <<48 + n>> ELSE <<48 + (n \div 10), 48 + (n % 10)>>

\* eip191_hash: the fixed text stands as its first byte.
PersonalPreimage(message) == <<25>> \o Decimal(Len(message)) \o message

-----------------------------------------------------------------------------

NoSigning == [at |-> "none"]

SigningTypeOK == signing.at \in {"none", "refused", "parsed", "signed", "message"}

SigningInit == signing = NoSigning

\* The calldata of a token transfer is made of an address and a number.
Encodes(p) == p.token # <<>> => Len(p.to) = 20 /\ p.value \in 0..MAX_U128

\* The transaction of a native or a token transfer.
Transaction(p) ==
    IF p.token = <<>> THEN p
    ELSE [p EXCEPT !.to = p.token, !.value = 0, !.data = TransferCalldata(p.to, p.value)]

\* erc20_transfer_calldata, if it is a token, and from_json.
Parses ==
    /\ signing = NoSigning
    /\ \E p \in Parameters :
         signing' = IF Encodes(p) /\ Accepted(Transaction(p))
                      THEN [at |-> "parsed", asked |-> p, tx |-> Transaction(p)]
                      ELSE [at |-> "refused", asked |-> p]

\* sign
Signs ==
    /\ signing.at = "parsed"
    /\ \E sig \in Signatures :
         signing' = [at |-> "signed", asked |-> signing.asked, tx |-> signing.tx, sig |-> sig,
                     over |-> SigningPreimage(signing.tx), raw |-> RawSigned(signing.tx, sig)]

\* personal_sign: v is 27 or 28.
SignsMessage ==
    /\ signing = NoSigning
    /\ \E message \in Messages, sig \in Signatures :
         signing' = [at |-> "message", message |-> message, v |-> sig.v + 27,
                     over |-> PersonalPreimage(message)]

SigningNext == Parses \/ Signs \/ SignsMessage

SigningSpec == SigningInit /\ [][SigningNext]_signingVars

-----------------------------------------------------------------------------
(* The reference: how a node reads RLP (Ethereum yellow paper, appendix B), *)
(* refusing what is not in its shortest form.                               *)

Number(bytes) ==
    LET first[n \in 0..Len(bytes)] == IF n = 0 THEN 0 ELSE 256 * first[n - 1] + bytes[n]
    IN  first[Len(bytes)]

\* The item that begins at i: where its content is, and whether it is a list.
ItemAt(s, i) ==
    LET b     == s[i]
        base  == IF b >= 192 THEN 192 ELSE 128
        long  == b > base + 55
        sizes == IF long THEN b - base - 55 ELSE 0
        size  == IF long THEN Number(SubSeq(s, i + 1, i + sizes)) ELSE b - base
    IN  IF b < 128 THEN [first |-> i, last |-> i, list |-> FALSE]
        ELSE [first |-> i + 1 + sizes, last |-> i + sizes + size, list |-> b >= 192]

\* The contents of the items of s from each position on.
Items(s) ==
    LET from[i \in 1..(Len(s) + 1)] ==
          IF i = Len(s) + 1 THEN <<>>
          ELSE LET item == ItemAt(s, i)
               IN  IF item.last \notin i..Len(s) THEN <<"broken">>
                   ELSE <<SubSeq(s, item.first, item.last)>> \o from[item.last + 1]
    IN  from[1]

\* The items of the list that follows the type of a transaction.
Fields(raw) ==
    LET whole == ItemAt(raw, 2)
    IN  IF ~whole.list \/ whole.last # Len(raw) THEN <<"broken">>
        ELSE Items(SubSeq(raw, whole.first, whole.last))

\* A number as the node reads it: nothing in front of it.
Read(field) == IF field # <<>> /\ field[1] = 0 THEN -1 ELSE Number(field)

\* A node reads in the signed bytes, and in what the user's key signed, exactly
\* the transaction that the extension asked for, the amount and the recipient of
\* a token transfer in the calldata included, and r, s and the parity as numbers
\* without a leading zero (raw_signed, signing_hash).
NodeReadsWhatWasAsked ==
    signing.at = "signed" =>
        LET p    == signing.asked
            f    == Fields(signing.raw)
            data == f[8]
            Same(sig, value) == Padded(value, Len(sig)) = sig
        IN  /\ Len(f) = 12
            /\ SubSeq(f, 1, 9) = Fields(signing.over)
            /\ <<Read(f[1]), Read(f[2]), Read(f[3]), Read(f[4]), Read(f[5])>>
                 = <<p.chain_id, p.nonce, p.max_priority_fee_per_gas, p.max_fee_per_gas,
                     p.gas_limit>>
            /\ IF p.token = <<>>
                 THEN f[6] = p.to /\ Read(f[7]) = p.value /\ data = p.data
                 ELSE /\ f[6] = p.token /\ Read(f[7]) = 0 /\ Len(data) = 68
                      /\ SubSeq(data, 5, 36) = Padded(p.to, 32)
                      /\ SubSeq(data, 37, 68) = Padded(BigEndian[p.value], 32)
            /\ Read(f[10]) = signing.sig.v
            /\ Read(f[11]) >= 0 /\ Same(signing.sig.r, f[11])
            /\ Read(f[12]) >= 0 /\ Same(signing.sig.s, f[12])
=============================================================================
