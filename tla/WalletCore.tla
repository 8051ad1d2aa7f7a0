------------------------------ MODULE WalletCore ------------------------------
(* The keys of the wallet (crates/wallet-core: mnemonic.rs, derivation/,    *)
(* vault.rs, wasm.rs): phrases, the keys of four networks on their paths,   *)
(* and the encrypted vault, from its creation over a blob that may come to  *)
(* harm to the next unlocking and what is then derived, signed or exported. *)
(* Cryptography is symbolic: a key, a seed and a ciphertext are what they   *)
(* are made from, and different things never make the same.  The addresses  *)
(* that are shown are those the API server is asked about: an address is    *)
(* also what it looks like.                                                 *)
EXTENDS Networks

CONSTANTS
    Phrases,      \* [words, count, spaces, known]: known words with their checksum
    Passwords,
    Indices,      \* accounts that are asked for
    HARDENED,     \* 2^31: the hardened bit of an index
    KdfDefault,   \* the cost parameters of this version and of
    KdfOther,     \* another one
    VAULT_VERSION

ASSUME CoreAssumption ==
    /\ HARDENED \in Nat \ {0} /\ Indices \subseteq 0..(2 * HARDENED - 1)
    /\ KdfDefault # KdfOther /\ VAULT_VERSION \in Nat
    /\ \A p \in Phrases :
         p = [words |-> p.words, count |-> p.count, spaces |-> p.spaces, known |-> p.known]

VARIABLE core  \* the vault, what unlocking it gave, what was done with that

coreVars == <<core>>

NetworkKinds == {"evm", "solana", "bitcoin", "tron"}

Failed(why) == [error |-> why]
IsError(x)  == DOMAIN x = {"error"}

-----------------------------------------------------------------------------
(* mnemonic.rs                                                              *)

\* parse_mnemonic: white space is normalised before the words are counted.
ParseMnemonic(phrase) ==
    CASE phrase.count \notin {12, 24}                  -> Failed("word_count")
      [] phrase.count \in {12, 24} /\ ~phrase.known    -> Failed("mnemonic")
      [] phrase.count \in {12, 24} /\ phrase.known     -> [words |-> phrase.words]

\* mnemonic_to_seed, with the empty passphrase of wasm.rs.
Seed(phrase) ==
    LET m == ParseMnemonic(phrase)
    IN  IF IsError(m) THEN m ELSE [words |-> m.words, passphrase |-> ""]

-----------------------------------------------------------------------------
(* derivation/: a step of a path is <<number, hardened>>.                   *)

Hard(n) == <<n, TRUE>>
Soft(n) == <<n, FALSE>>

\* A path is text to the secp256k1 networks, and an index with the hardened bit
\* is no number of it.
OnPath(seed, path, index) ==
    IF index >= HARDENED THEN Failed("derivation")
    ELSE [curve |-> "secp256k1", seed |-> seed, path |-> path]

\* EvmSigner::from_seed
EvmKey(seed, index) ==
    OnPath(seed, <<Hard(44), Hard(60), Hard(0), Soft(0), Soft(index)>>, index)

\* Slip: the coin of Ethereum, whose keys look the same.
TronKeyOfEthereum(seed, index) == EvmKey(seed, index)

\* TronSigner::from_seed
TronKey(seed, index) ==
    OnPath(seed, <<Hard(44), Hard(195), Hard(0), Soft(0), Soft(index)>>, index)

\* BitcoinAccount::from_seed: the account, and its first address.
BitcoinAccountKey(seed, index) ==
    OnPath(seed, <<Hard(84), Hard(0), Hard(index)>>, index)

BitcoinKey(seed, index) ==
    OnPath(seed, <<Hard(84), Hard(0), Hard(index), Soft(0), Soft(0)>>, index)

\* SolanaSigner::from_seed: every index is hardened by setting its bit, which an
\* index may have already.
SolanaKey(seed, index) ==
    [curve |-> "ed25519", seed |-> seed,
     path |-> <<Hard(44), Hard(501), Hard(index % HARDENED), Hard(0)>>]

KeyOf(kind, seed, index) ==
    CASE kind = "evm"     -> EvmKey(seed, index)
      [] kind = "solana"  -> SolanaKey(seed, index)
      [] kind = "bitcoin" -> BitcoinKey(seed, index)
      [] kind = "tron"    -> TronKey(seed, index)

Looks(key, pre, len, hex, base58, bech32) ==
    [key |-> key, pre |-> pre, len |-> len, hex |-> hex, base58 |-> base58, bech32 |-> bech32]

\* The address shows the key in the writing of its network: EIP-55, base58 of 32
\* bytes (43 or 44 letters but for keys that begin with zeros), P2WPKH, and
\* base58check of TRON's prefix.
AddressOf(kind, key) ==
    CASE kind = "evm"     -> Looks(key, "0x", 42, TRUE, FALSE, FALSE)
      [] kind = "solana"  -> Looks(key, "1", 44, FALSE, TRUE, FALSE)
      [] kind = "bitcoin" -> Looks(key, "bc1", 42, FALSE, FALSE, TRUE)
      [] kind = "tron"    -> Looks(key, "T", 34, FALSE, TRUE, FALSE)

\* derive_addresses: all four, or an error.
DeriveAddresses(phrase, index) ==
    LET seed == Seed(phrase)
        keys == [kind \in NetworkKinds |-> KeyOf(kind, seed, index)]
    IN  IF IsError(seed) THEN seed
        ELSE IF \E kind \in NetworkKinds : IsError(keys[kind]) THEN Failed("derivation")
        ELSE [kind \in NetworkKinds |-> AddressOf(kind, keys[kind])]

-----------------------------------------------------------------------------
(* vault.rs; salt and nonce are never drawn twice.                          *)

\* derive_key
DeriveKey(password, salt, kdf) == [password |-> password, salt |-> salt, kdf |-> kdf]

EncryptVault(data, password, drawn) ==
    [version |-> VAULT_VERSION, kdf |-> KdfDefault, salt |-> drawn, nonce |-> drawn,
     ciphertext |-> [key |-> DeriveKey(password, drawn, KdfDefault), nonce |-> drawn,
                     plain |-> data]]

\* What can happen to a stored blob: a field of another blob or version, or one
\* that is no hex of its length.
Harms(blob) ==
    {[blob EXCEPT !.version = VAULT_VERSION + 1], [blob EXCEPT !.kdf = KdfOther],
     [blob EXCEPT !.salt = 0], [blob EXCEPT !.nonce = 0], [blob EXCEPT !.salt = -1],
     [blob EXCEPT !.ciphertext = Failed("not_hex")]}

ReadsVersion(blob) == blob.version = VAULT_VERSION

\* decrypt_vault: one error for a wrong password and for a blob that was changed.
DecryptVault(blob, password) ==
    IF ~ReadsVersion(blob) THEN Failed("version")
    ELSE IF blob.salt = -1 \/ IsError(blob.ciphertext) THEN Failed("input")
    ELSE IF /\ blob.ciphertext.key = DeriveKey(password, blob.salt, blob.kdf)
            /\ blob.ciphertext.nonce = blob.nonce
      THEN blob.ciphertext.plain
      ELSE Failed("password")

-----------------------------------------------------------------------------
(* wasm.rs                                                                  *)

NoCore == [at |-> "none"]

CoreTypeOK ==
    \/ core = NoCore
    \/ /\ core.at \in {"created", "harmed", "open", "refused", "used"}
       /\ core.phrase \in Phrases /\ core.password \in Passwords

CoreInit == core = NoCore

\* create_vault: trim() takes off the outer white space only.
CreatesVault ==
    /\ core = NoCore
    /\ \E phrase \in Phrases, password \in Passwords :
         LET shown == DeriveAddresses(phrase, 0)
             data  == [mnemonic |-> [phrase EXCEPT !.spaces = @ \ {"outer"}],
                       accounts |-> <<[index |-> 0, addresses |-> shown]>>]
         IN  core' = [at |-> IF IsError(shown) THEN "refused" ELSE "created",
                      phrase |-> phrase, password |-> password,
                      blob |-> EncryptVault(data, password, 1)]

ComesToHarm ==
    /\ core.at = "created"
    /\ \E blob \in Harms(core.blob) : core' = [core EXCEPT !.at = "harmed", !.blob = blob]

\* unlock_vault
UnlocksVault ==
    /\ core.at \in {"created", "harmed"}
    /\ \E password \in Passwords :
         LET data == DecryptVault(core.blob, password)
         IN  core' = IF IsError(data) THEN [core EXCEPT !.at = "refused"]
                     ELSE [at |-> "open", phrase |-> core.phrase, password |-> core.password,
                           data |-> data, tried |-> password, whole |-> core.at = "created"]

\* sign_evm_hash, sign_evm_transaction, personal_sign, sign_solana_message,
\* export_bitcoin_xprv and _wif: each reads the phrase anew.
UsesKey ==
    /\ core.at = "open"
    /\ \E kind \in {"evm", "solana", "bitcoin", "account"}, index \in Indices :
         LET seed == Seed(core.data.mnemonic)
             key  == IF kind = "account" THEN BitcoinAccountKey(seed, index)
                     ELSE KeyOf(kind, seed, index)
         IN  core' = [at |-> "used", phrase |-> core.phrase, password |-> core.password,
                      data |-> core.data, tried |-> core.tried, whole |-> core.whole,
                      kind |-> kind, index |-> index, key |-> key]

CoreNext == CreatesVault \/ ComesToHarm \/ UnlocksVault \/ UsesKey

CoreSpec == CoreInit /\ [][CoreNext]_coreVars

-----------------------------------------------------------------------------

\* Only the password of its creation opens a vault, and only a blob no one has
\* changed; the phrase in it still shows the addresses that were stored beside
\* it, however it was spaced, and the server tells each of these for an address
\* of its own network; and a key that is used belongs to the address shown for
\* its network and index and to no other one of the wallet, the key of a Bitcoin
\* account to those below it.  (For an index with the hardened bit no address is
\* shown, but Solana's signer takes it for the account without the bit:
\* solana.rs.)
KeysAreThoseShown ==
    /\ core.at \in {"open", "used"} =>
         /\ core.whole /\ core.tried = core.password
         /\ core.data.accounts[1].addresses = DeriveAddresses(core.data.mnemonic, 0)
         /\ core.data.accounts[1].addresses = DeriveAddresses(core.phrase, 0)
         /\ LET shown == core.data.accounts[1].addresses
            IN  ClassifyAddresses(<<shown["tron"], shown["solana"], shown["bitcoin"], shown["evm"]>>)
                  = [tron |-> {1}, solana |-> {2}, bitcoin |-> {3}, evm |-> {4}]
    /\ core.at = "used" /\ ~IsError(core.key) /\ core.index < HARDENED =>
         \A index \in Indices :
           LET shown == DeriveAddresses(core.data.mnemonic, index)
               Owns(kind) ==
                 IF core.kind = "account"
                   THEN kind = "bitcoin" /\ SubSeq(shown[kind].key.path, 1, 3) = core.key.path
                   ELSE shown[kind].key = core.key
               Its(kind) ==
                 kind = (IF core.kind = "account" THEN "bitcoin" ELSE core.kind)
                   /\ index = core.index
           IN  ~IsError(shown) => \A kind \in NetworkKinds : Owns(kind) <=> Its(kind)
=============================================================================
