--------------------------- MODULE WalletCore_proofs ---------------------------
(* Proofs about the crate wallet-core: about WalletCore for any phrases,    *)
(* passwords and indices, with the cryptography as symbolic as it is there, *)
(* and about EvmTx for any numbers, data and signatures.                    *)
EXTENDS WalletCore, EvmTx, SumTheorems, SequenceTheorems, TLAPS

-----------------------------------------------------------------------------
(* What is an error and what is not, and what the keys are.                 *)

LEMMA NotErrors ==
  /\ \A a : IsError(Failed(a))
  /\ \A a, b : ~ IsError([words |-> a, passphrase |-> b])
  /\ \A a : ~ IsError([words |-> a])
  /\ \A a, b, c : ~ IsError([curve |-> a, seed |-> b, path |-> c])
  /\ \A a, b : ~ IsError([mnemonic |-> a, accounts |-> b])
  /\ \A a, b, c : ~ IsError([key |-> a, nonce |-> b, plain |-> c])
  /\ \A F : ~ IsError([k \in NetworkKinds |-> F[k]])
<1>1. "evm" \in NetworkKinds
  BY DEF NetworkKinds
<1> QED BY <1>1 DEF IsError, Failed

LEMMA KeysBelow ==
  ASSUME NEW seed, NEW index \in Nat
  PROVE  /\ index < HARDENED =>
              /\ EvmKey(seed, index) = [curve |-> "secp256k1", seed |-> seed,
                    path |-> <<Hard(44), Hard(60), Hard(0), Soft(0), Soft(index)>>]
              /\ TronKey(seed, index) = [curve |-> "secp256k1", seed |-> seed,
                    path |-> <<Hard(44), Hard(195), Hard(0), Soft(0), Soft(index)>>]
              /\ BitcoinKey(seed, index) = [curve |-> "secp256k1", seed |-> seed,
                    path |-> <<Hard(84), Hard(0), Hard(index), Soft(0), Soft(0)>>]
              /\ BitcoinAccountKey(seed, index) = [curve |-> "secp256k1", seed |-> seed,
                    path |-> <<Hard(84), Hard(0), Hard(index)>>]
              /\ SolanaKey(seed, index) = [curve |-> "ed25519", seed |-> seed,
                    path |-> <<Hard(44), Hard(501), Hard(index), Hard(0)>>]
         /\ index >= HARDENED => IsError(EvmKey(seed, index))
<1>1. HARDENED \in Nat \ {0}
  BY CoreAssumption
<1>2. index < HARDENED => ~ (index >= HARDENED) /\ index % HARDENED = index
  BY <1>1
<1> QED BY <1>2, NotErrors DEF EvmKey, TronKey, BitcoinKey, BitcoinAccountKey, SolanaKey, OnPath

\* Keys of different networks or indices are different.
LEMMA KeysApart ==
  ASSUME NEW seed, NEW i \in Nat, NEW j \in Nat, i < HARDENED, j < HARDENED,
         NEW k \in NetworkKinds, NEW l \in NetworkKinds
  PROVE  KeyOf(k, seed, i) = KeyOf(l, seed, j) <=> k = l /\ i = j
<1>1. /\ KeyOf("evm", seed, i) = EvmKey(seed, i) /\ KeyOf("solana", seed, i) = SolanaKey(seed, i)
      /\ KeyOf("bitcoin", seed, i) = BitcoinKey(seed, i) /\ KeyOf("tron", seed, i) = TronKey(seed, i)
      /\ KeyOf("evm", seed, j) = EvmKey(seed, j) /\ KeyOf("solana", seed, j) = SolanaKey(seed, j)
      /\ KeyOf("bitcoin", seed, j) = BitcoinKey(seed, j) /\ KeyOf("tron", seed, j) = TronKey(seed, j)
  BY DEF KeyOf
<1>2. k \in {"evm", "solana", "bitcoin", "tron"} /\ l \in {"evm", "solana", "bitcoin", "tron"}
  BY DEF NetworkKinds
<1>3. \A a, b : (Hard(a) = Hard(b) <=> a = b) /\ (Soft(a) = Soft(b) <=> a = b) /\ Hard(a) # Soft(b)
  BY DEF Hard, Soft
<1> QED BY <1>1, <1>2, <1>3, KeysBelow

\* The key of a Bitcoin account is above those of its own addresses alone.
LEMMA AccountIsAbove ==
  ASSUME NEW seed, NEW i \in Nat, NEW j \in Nat, i < HARDENED, j < HARDENED
  PROVE  SubSeq(KeyOf("bitcoin", seed, j).path, 1, 3) = BitcoinAccountKey(seed, i).path <=> i = j
<1>1. KeyOf("bitcoin", seed, j).path = <<Hard(84), Hard(0), Hard(j), Soft(0), Soft(0)>>
  BY KeysBelow DEF KeyOf
<1>2. BitcoinAccountKey(seed, i).path = <<Hard(84), Hard(0), Hard(i)>>
  BY KeysBelow
<1>3. \A a, b, c, d, e : SubSeq(<<a, b, c, d, e>>, 1, 3) = <<a, b, c>>
  <2> TAKE a, b, c, d, e
  <2> DEFINE S == {a, b, c, d, e}
             s == <<a, b, c, d, e>>
             t == <<a, b, c>>
  <2>1. s \in Seq(S) /\ Len(s) = 5 /\ {a, b, c} \subseteq S /\ s[1] = a /\ s[2] = b /\ s[3] = c
        /\ t \in Seq(S) /\ Len(t) = 3 /\ t[1] = a /\ t[2] = b /\ t[3] = c
    OBVIOUS
  <2> HIDE DEF s, t, S
  <2>2. /\ SubSeq(s, 1, 3) \in Seq(S) /\ Len(SubSeq(s, 1, 3)) = 3
        /\ \A n \in 1..3 : SubSeq(s, 1, 3)[n] = s[n]
    <3>1. \A n \in 1..3 : s[n] \in S
      BY <2>1 DEF S
    <3>2. /\ SubSeq(s, 1, 3) \in Seq(S)
          /\ Len(SubSeq(s, 1, 3)) = IF 1 <= 3 THEN 3 - 1 + 1 ELSE 0
          /\ \A n \in 1..(3 - 1 + 1) : SubSeq(s, 1, 3)[n] = s[1 + n - 1]
      BY <3>1, SubSeqProperties
    <3>3. \A n \in 1..3 : n \in 1..(3 - 1 + 1) /\ 1 + n - 1 = n
      OBVIOUS
    <3> QED BY <3>2, <3>3
  <2>3. \A n \in 1..3 : n = 1 \/ n = 2 \/ n = 3
    OBVIOUS
  <2>4. \A n \in 1..3 : SubSeq(s, 1, 3)[n] = t[n]
    BY <2>1, <2>2, <2>3
  <2>5. SubSeq(s, 1, 3) = t
    BY <2>1, <2>2, <2>4, SeqEqual
  <2> QED BY <2>5 DEF s, t
<1>4. \A a, b : Hard(a) = Hard(b) <=> a = b
  BY DEF Hard
<1> QED BY <1>1, <1>2, <1>3, <1>4

\* Addresses are shown for all networks or for none.
LEMMA Shown ==
  ASSUME NEW phrase, NEW index \in Nat, ~ IsError(DeriveAddresses(phrase, index))
  PROVE  /\ index < HARDENED /\ ~ IsError(Seed(phrase))
         /\ \A kind \in NetworkKinds :
              DeriveAddresses(phrase, index)[kind] = AddressOf(kind, KeyOf(kind, Seed(phrase), index))
<1>1. ~ IsError(Seed(phrase))
  BY DEF DeriveAddresses
<1>2. index < HARDENED
  <2> SUFFICES ASSUME index >= HARDENED PROVE FALSE
    BY CoreAssumption
  <2>1. "evm" \in NetworkKinds /\ IsError(EvmKey(Seed(phrase), index))
    BY KeysBelow DEF NetworkKinds
  <2>2. IsError(KeyOf("evm", Seed(phrase), index))
    BY <2>1 DEF KeyOf
  <2>3. DeriveAddresses(phrase, index) = Failed("derivation")
    BY <1>1, <2>1, <2>2 DEF DeriveAddresses
  <2> QED BY <2>3, NotErrors
<1>3. DeriveAddresses(phrase, index) =
        [kind \in NetworkKinds |-> AddressOf(kind, KeyOf(kind, Seed(phrase), index))]
  <2> DEFINE keys == [kind \in NetworkKinds |-> KeyOf(kind, Seed(phrase), index)]
  <2>1. CASE \E kind \in NetworkKinds : IsError(keys[kind])
    <3>1. DeriveAddresses(phrase, index) = Failed("derivation")
      BY <1>1, <2>1 DEF DeriveAddresses
    <3> QED BY <3>1, NotErrors
  <2>2. CASE ~ \E kind \in NetworkKinds : IsError(keys[kind])
    BY <1>1, <2>2 DEF DeriveAddresses
  <2> QED BY <2>1, <2>2
<1> QED BY <1>1, <1>2, <1>3

LEMMA AddressShows ==
  ASSUME NEW kind \in NetworkKinds, NEW key
  PROVE  AddressOf(kind, key).key = key /\ ChainOf(AddressOf(kind, key)) = kind
<1>1. kind \in {"evm", "solana", "bitcoin", "tron"}
  BY DEF NetworkKinds
<1>2. /\ AddressOf("evm", key) = Looks(key, "0x", 42, TRUE, FALSE, FALSE)
      /\ AddressOf("solana", key) = Looks(key, "1", 44, FALSE, TRUE, FALSE)
      /\ AddressOf("bitcoin", key) = Looks(key, "bc1", 42, FALSE, FALSE, TRUE)
      /\ AddressOf("tron", key) = Looks(key, "T", 34, FALSE, TRUE, FALSE)
  BY DEF AddressOf
<1>3. IsEvm("ethereum") /\ ~ IsEvm("bitcoin") /\ ~ IsEvm("tron") /\ ~ IsEvm("solana")
  <2>1. EVM_CHAINS[1] = "ethereum" /\ DOMAIN EVM_CHAINS = 1..5
        /\ \A k \in 1..5 : EVM_CHAINS[k] \in {"ethereum", "polygon", "bsc", "arbitrum", "base"}
    BY DEF EVM_CHAINS
  <2> QED BY <2>1 DEF IsEvm, ToSet
<1>4. \A a : /\ ValidAddress("ethereum", a) <=> a.len = 42 /\ a.pre = "0x" /\ a.hex
             /\ ValidAddress("bitcoin", a) <=> PlausibleBitcoin(a)
             /\ ValidAddress("tron", a) <=> a.len = 34 /\ a.pre = "T" /\ a.base58
             /\ ValidAddress("solana", a) <=> a.len \in 32..44 /\ a.base58
  BY <1>3 DEF ValidAddress
<1>5. ChainOf(Looks(key, "0x", 42, TRUE, FALSE, FALSE)) = "evm"
  BY <1>4 DEF ChainOf, Looks
<1>6. ChainOf(Looks(key, "bc1", 42, FALSE, FALSE, TRUE)) = "bitcoin"
  BY <1>4 DEF ChainOf, Looks, PlausibleBitcoin
<1>7. ChainOf(Looks(key, "T", 34, FALSE, TRUE, FALSE)) = "tron"
  BY <1>4 DEF ChainOf, Looks, PlausibleBitcoin
<1>8. ChainOf(Looks(key, "1", 44, FALSE, TRUE, FALSE)) = "solana"
  BY <1>4 DEF ChainOf, Looks, PlausibleBitcoin
<1>9. AddressOf(kind, key).key = key
  BY <1>1, <1>2 DEF Looks
<1> QED BY <1>1, <1>2, <1>5, <1>6, <1>7, <1>8, <1>9

\* White space around a phrase is no part of it.
LEMMA SeedOfTrimmed ==
  ASSUME NEW phrase \in Phrases, NEW spaces
  PROVE  Seed([phrase EXCEPT !.spaces = spaces]) = Seed(phrase)
<1> DEFINE new == [phrase EXCEPT !.spaces = spaces]
<1>1. phrase = [words |-> phrase.words, count |-> phrase.count, spaces |-> phrase.spaces,
                known |-> phrase.known]
  BY CoreAssumption
<1>2. new = [phrase EXCEPT !.spaces = spaces]
  OBVIOUS
<1> HIDE DEF new
<1>3. new = [words |-> phrase.words, count |-> phrase.count, spaces |-> spaces,
             known |-> phrase.known]
  BY <1>1, <1>2
<1>4. new.words = phrase.words /\ new.count = phrase.count /\ new.known = phrase.known
  BY <1>3
<1>5. ParseMnemonic(new) = ParseMnemonic(phrase)
  BY <1>4 DEF ParseMnemonic
<1> QED BY <1>5 DEF Seed, new

\* What is in a vault.
Contents(phrase) ==
    [mnemonic |-> [phrase EXCEPT !.spaces = @ \ {"outer"}],
     accounts |-> <<[index |-> 0, addresses |-> DeriveAddresses(phrase, 0)]>>]

Whole(phrase, password) == EncryptVault(Contents(phrase), password, 1)

\* Only the whole blob opens, and only with its password.
LEMMA OnlyWholeOpens ==
  ASSUME NEW phrase, NEW password, NEW tried, NEW blob,
         blob = Whole(phrase, password) \/ blob \in Harms(Whole(phrase, password)),
         ~ IsError(DecryptVault(blob, tried))
  PROVE  blob \notin Harms(Whole(phrase, password)) /\ tried = password
           /\ DecryptVault(blob, tried) = Contents(phrase)
<1> DEFINE data == Contents(phrase)
           whole == Whole(phrase, password)
           cipher == [key |-> DeriveKey(password, 1, KdfDefault), nonce |-> 1, plain |-> data]
<1>1. whole = [version |-> VAULT_VERSION, kdf |-> KdfDefault, salt |-> 1, nonce |-> 1,
               ciphertext |-> cipher]
  BY DEF Whole, EncryptVault
<1> HIDE DEF whole, data
<1>2. VAULT_VERSION \in Nat /\ KdfDefault # KdfOther
  BY CoreAssumption
<1>3. \A a, b, c, d, e, f : DeriveKey(a, b, c) = DeriveKey(d, e, f) => a = d /\ b = e /\ c = f
  BY DEF DeriveKey
<1>4. /\ blob.version = VAULT_VERSION /\ blob.salt # -1 /\ ~ IsError(blob.ciphertext)
      /\ blob.ciphertext.key = DeriveKey(tried, blob.salt, blob.kdf)
      /\ blob.ciphertext.nonce = blob.nonce
      /\ DecryptVault(blob, tried) = blob.ciphertext.plain
  BY NotErrors DEF DecryptVault, ReadsVersion
<1>5. cipher.key = DeriveKey(password, 1, KdfDefault) /\ cipher.nonce = 1 /\ cipher.plain = data
  OBVIOUS
<1> HIDE DEF cipher
<1>6. blob = whole => tried = password /\ DecryptVault(blob, tried) = data
  <2> SUFFICES ASSUME blob = whole PROVE tried = password /\ DecryptVault(blob, tried) = data
    OBVIOUS
  <2>1. blob.salt = 1 /\ blob.kdf = KdfDefault /\ blob.ciphertext = cipher
    BY <1>1
  <2>2. tried = password
    BY <1>3, <1>4, <1>5, <2>1
  <2> QED BY <1>4, <1>5, <2>1, <2>2
<1>7. blob \notin Harms(whole)
  <2> SUFFICES ASSUME blob \in Harms(whole) PROVE FALSE
    OBVIOUS
  <2>1. \/ blob.version = VAULT_VERSION + 1
        \/ blob.kdf = KdfOther /\ blob.ciphertext = cipher
        \/ blob.salt = 0 /\ blob.ciphertext = cipher
        \/ blob.nonce = 0 /\ blob.ciphertext = cipher
        \/ blob.salt = -1
        \/ blob.ciphertext = Failed("not_hex")
    BY <1>1 DEF Harms
  <2>2. blob.version # VAULT_VERSION + 1
    BY <1>2, <1>4
  <2>3. ~ (blob.kdf = KdfOther /\ blob.ciphertext = cipher)
    BY <1>2, <1>3, <1>4, <1>5
  <2>4. ~ (blob.salt = 0 /\ blob.ciphertext = cipher)
    BY <1>3, <1>4, <1>5
  <2>5. ~ (blob.nonce = 0 /\ blob.ciphertext = cipher)
    BY <1>4, <1>5
  <2>6. blob.ciphertext # Failed("not_hex")
    BY <1>4, NotErrors
  <2> QED BY <1>4, <2>1, <2>2, <2>3, <2>4, <2>5, <2>6
<1> QED BY <1>6, <1>7 DEF whole, data

-----------------------------------------------------------------------------
(* The vault and its use.                                                   *)

\* The key that is used for an index.
KeyUsed(kind, seed, index) ==
    IF kind = "account" THEN BitcoinAccountKey(seed, index) ELSE KeyOf(kind, seed, index)

\* A vault is that of its phrase and password until it comes to harm, and what
\* was taken out of it is what was put in.
CoreInvariant ==
    \/ core = NoCore
    \/ core.at = "refused"
    \/ /\ core.at \in {"created", "harmed"}
       /\ core = [at |-> core.at, phrase |-> core.phrase, password |-> core.password,
                  blob |-> core.blob]
       /\ core.phrase \in Phrases /\ ~ IsError(DeriveAddresses(core.phrase, 0))
       /\ IF core.at = "created" THEN core.blob = Whole(core.phrase, core.password)
                                 ELSE core.blob \in Harms(Whole(core.phrase, core.password))
    \/ /\ core.at \in {"open", "used"}
       /\ core.phrase \in Phrases /\ ~ IsError(DeriveAddresses(core.phrase, 0))
       /\ core.whole /\ core.tried = core.password /\ core.data = Contents(core.phrase)
       /\ core.at = "used" =>
            /\ core.index \in Indices /\ core.kind \in {"evm", "solana", "bitcoin", "account"}
            /\ core.key = KeyUsed(core.kind, Seed(core.data.mnemonic), core.index)

LEMMA CreatesKeeps == ASSUME CoreInvariant, CreatesVault PROVE CoreInvariant'
<1>1. PICK phrase \in Phrases, password \in Passwords :
        core' = [at |-> IF IsError(DeriveAddresses(phrase, 0)) THEN "refused" ELSE "created",
                 phrase |-> phrase, password |-> password, blob |-> Whole(phrase, password)]
  BY DEF CreatesVault, Whole, Contents
<1> QED BY <1>1 DEF CoreInvariant

LEMMA HarmKeeps == ASSUME CoreInvariant, ComesToHarm PROVE CoreInvariant'
<1>1. PICK blob \in Harms(core.blob) : core' = [core EXCEPT !.at = "harmed", !.blob = blob]
  BY DEF ComesToHarm
<1>2. /\ core.at = "created"
      /\ core = [at |-> core.at, phrase |-> core.phrase, password |-> core.password,
                 blob |-> core.blob]
      /\ core.phrase \in Phrases /\ ~ IsError(DeriveAddresses(core.phrase, 0))
      /\ core.blob = Whole(core.phrase, core.password)
  BY DEF ComesToHarm, CoreInvariant, NoCore
<1>3. core' = [at |-> "harmed", phrase |-> core.phrase, password |-> core.password, blob |-> blob]
  BY <1>1, <1>2
<1> QED BY <1>2, <1>3 DEF CoreInvariant

LEMMA UnlocksKeeps == ASSUME CoreInvariant, UnlocksVault PROVE CoreInvariant'
<1>1. PICK tried \in Passwords :
        core' = IF IsError(DecryptVault(core.blob, tried)) THEN [core EXCEPT !.at = "refused"]
                ELSE [at |-> "open", phrase |-> core.phrase, password |-> core.password,
                      data |-> DecryptVault(core.blob, tried), tried |-> tried,
                      whole |-> core.at = "created"]
  BY DEF UnlocksVault
<1>2. /\ core.at \in {"created", "harmed"}
      /\ core = [at |-> core.at, phrase |-> core.phrase, password |-> core.password,
                 blob |-> core.blob]
      /\ core.phrase \in Phrases /\ ~ IsError(DeriveAddresses(core.phrase, 0))
      /\ IF core.at = "created" THEN core.blob = Whole(core.phrase, core.password)
                                ELSE core.blob \in Harms(Whole(core.phrase, core.password))
  BY DEF UnlocksVault, CoreInvariant, NoCore
<1>3. CASE IsError(DecryptVault(core.blob, tried))
  <2>1. core' = [core EXCEPT !.at = "refused"]
    BY <1>1, <1>3
  <2>2. core'.at = "refused"
    BY <1>2, <2>1
  <2> QED BY <2>2 DEF CoreInvariant
<1>4. CASE ~ IsError(DecryptVault(core.blob, tried))
  <2>1. core' = [at |-> "open", phrase |-> core.phrase, password |-> core.password,
                 data |-> DecryptVault(core.blob, tried), tried |-> tried,
                 whole |-> core.at = "created"]
    BY <1>1, <1>4
  <2>2. /\ core.blob \notin Harms(Whole(core.phrase, core.password)) /\ tried = core.password
        /\ DecryptVault(core.blob, tried) = Contents(core.phrase)
    BY <1>2, <1>4, OnlyWholeOpens
  <2>3. core.at = "created"
    BY <1>2, <2>2
  <2> QED BY <1>2, <2>1, <2>2, <2>3 DEF CoreInvariant
<1> QED BY <1>3, <1>4

LEMMA UsesKeeps == ASSUME CoreInvariant, UsesKey PROVE CoreInvariant'
<1>1. PICK kind \in {"evm", "solana", "bitcoin", "account"}, index \in Indices :
        core' = [at |-> "used", phrase |-> core.phrase, password |-> core.password,
                 data |-> core.data, tried |-> core.tried, whole |-> core.whole,
                 kind |-> kind, index |-> index,
                 key |-> KeyUsed(kind, Seed(core.data.mnemonic), index)]
  BY DEF UsesKey, KeyUsed
<1>2. /\ core.phrase \in Phrases /\ ~ IsError(DeriveAddresses(core.phrase, 0))
      /\ core.whole /\ core.tried = core.password /\ core.data = Contents(core.phrase)
  BY DEF UsesKey, CoreInvariant, NoCore
<1> QED BY <1>1, <1>2 DEF CoreInvariant

\* The vault that opens is the whole one of its phrase and password, and the key
\* that is used is one of that phrase (unlock_vault, wasm.rs).
THEOREM AlwaysCoreInvariant == CoreSpec => []CoreInvariant
<1>1. CoreInit => CoreInvariant
  BY DEF CoreInit, CoreInvariant
<1>2. CoreInvariant /\ [CoreNext]_coreVars => CoreInvariant'
  <2> SUFFICES ASSUME CoreInvariant, [CoreNext]_coreVars PROVE CoreInvariant'
    OBVIOUS
  <2>1. CASE UNCHANGED coreVars
    BY <2>1 DEF coreVars, CoreInvariant
  <2> QED BY <2>1, CreatesKeeps, HarmKeeps, UnlocksKeeps, UsesKeeps DEF CoreNext
<1> QED BY <1>1, <1>2, PTL DEF CoreSpec

LEMMA DerivedOfTrimmed ==
  ASSUME NEW phrase \in Phrases, NEW index
  PROVE  /\ Seed(Contents(phrase).mnemonic) = Seed(phrase)
         /\ DeriveAddresses(Contents(phrase).mnemonic, index) = DeriveAddresses(phrase, index)
<1>1. Contents(phrase).mnemonic = [phrase EXCEPT !.spaces = @ \ {"outer"}]
  BY DEF Contents
<1>2. Contents(phrase).mnemonic = [phrase EXCEPT !.spaces = phrase.spaces \ {"outer"}]
  BY <1>1, CoreAssumption
<1>3. Seed(Contents(phrase).mnemonic) = Seed(phrase)
  BY <1>2, SeedOfTrimmed
<1> QED BY <1>3 DEF DeriveAddresses

\* The server takes each address for one of its network.
LEMMA Classified ==
  ASSUME NEW shown, \A kind \in NetworkKinds : ChainOf(shown[kind]) = kind
  PROVE  ClassifyAddresses(<<shown["tron"], shown["solana"], shown["bitcoin"], shown["evm"]>>)
           = [tron |-> {1}, solana |-> {2}, bitcoin |-> {3}, evm |-> {4}]
<1> DEFINE list == <<shown["tron"], shown["solana"], shown["bitcoin"], shown["evm"]>>
           c == ClassifyAddresses(list)
<1>1. /\ DOMAIN list = 1..4 /\ ChainOf(list[1]) = "tron" /\ ChainOf(list[2]) = "solana"
      /\ ChainOf(list[3]) = "bitcoin" /\ ChainOf(list[4]) = "evm"
  BY DEF NetworkKinds
<1> HIDE DEF list
<1>2. c = [kind \in {"evm", "bitcoin", "tron", "solana"} |->
             {i \in DOMAIN list : ChainOf(list[i]) = kind}]
  BY DEF ClassifyAddresses
<1>3. \A i \in 1..4 : i = 1 \/ i = 2 \/ i = 3 \/ i = 4
  OBVIOUS
<1>4. /\ c["tron"] = {1} /\ c["solana"] = {2} /\ c["bitcoin"] = {3} /\ c["evm"] = {4}
  BY <1>1, <1>2, <1>3
<1>5. c = [kind \in {"evm", "bitcoin", "tron", "solana"} |-> c[kind]]
  BY <1>2
<1> HIDE DEF c
<1>6. c = [tron |-> {1}, solana |-> {2}, bitcoin |-> {3}, evm |-> {4}]
  BY <1>4, <1>5
<1> QED BY <1>6 DEF c, list

\* Only its password opens a vault, and only an unharmed one; it shows the
\* addresses stored in it, each of its network; and a key belongs to the address
\* shown for its network and index and to no other (unlock_vault, wasm.rs,
\* classify_addresses).
THEOREM KeysShown == CoreSpec => []KeysAreThoseShown
<1>1. ASSUME CoreInvariant, core.at \in {"open", "used"} PROVE KeysAreThoseShown
  <2> DEFINE phrase == core.phrase
             seed == Seed(phrase)
             mnemonic == core.data.mnemonic
             stored == core.data.accounts[1].addresses
  <2>1. /\ phrase \in Phrases /\ ~ IsError(DeriveAddresses(phrase, 0))
        /\ core.whole /\ core.tried = core.password /\ core.data = Contents(phrase)
        /\ core.at = "used" =>
             /\ core.index \in Indices /\ core.kind \in {"evm", "solana", "bitcoin", "account"}
             /\ core.key = KeyUsed(core.kind, Seed(core.data.mnemonic), core.index)
    BY <1>1 DEF CoreInvariant, NoCore
  <2> HIDE DEF phrase
  <2>2. stored = DeriveAddresses(phrase, 0)
    BY <2>1 DEF Contents
  <2>3. /\ Seed(mnemonic) = seed
        /\ \A index : DeriveAddresses(mnemonic, index) = DeriveAddresses(phrase, index)
    BY <2>1, DerivedOfTrimmed
  <2>4. ASSUME NEW index \in Nat, ~ IsError(DeriveAddresses(phrase, index)), NEW kind \in NetworkKinds
        PROVE  /\ index < HARDENED
               /\ DeriveAddresses(phrase, index)[kind].key = KeyOf(kind, seed, index)
               /\ ChainOf(DeriveAddresses(phrase, index)[kind]) = kind
    BY <2>4, Shown, AddressShows
  <2>5. ClassifyAddresses(<<stored["tron"], stored["solana"], stored["bitcoin"], stored["evm"]>>)
          = [tron |-> {1}, solana |-> {2}, bitcoin |-> {3}, evm |-> {4}]
    BY <2>1, <2>2, <2>4, Classified
  <2> HIDE DEF seed, mnemonic, stored
  <2>6. ASSUME core.at = "used", ~ IsError(core.key), core.index < HARDENED, NEW index \in Indices,
               ~ IsError(DeriveAddresses(mnemonic, index)), NEW kind \in NetworkKinds
        PROVE  (IF core.kind = "account"
                  THEN /\ kind = "bitcoin"
                       /\ SubSeq(DeriveAddresses(mnemonic, index)[kind].key.path, 1, 3) = core.key.path
                  ELSE DeriveAddresses(mnemonic, index)[kind].key = core.key)
                <=> /\ kind = (IF core.kind = "account" THEN "bitcoin" ELSE core.kind)
                    /\ index = core.index
    <3>1. index \in Nat /\ core.index \in Nat
      BY <2>1, <2>6, CoreAssumption
    <3>2. /\ index < HARDENED
          /\ DeriveAddresses(mnemonic, index)[kind].key = KeyOf(kind, seed, index)
      BY <2>3, <2>4, <2>6, <3>1
    <3>3. core.key = KeyUsed(core.kind, seed, core.index)
      BY <2>1, <2>3, <2>6 DEF mnemonic
    <3>4. CASE core.kind = "account"
      <4>1. core.key = BitcoinAccountKey(seed, core.index)
        BY <3>3, <3>4 DEF KeyUsed
      <4>2. SubSeq(KeyOf("bitcoin", seed, index).path, 1, 3) = core.key.path <=> index = core.index
        BY <2>6, <3>1, <3>2, <4>1, AccountIsAbove
      <4> QED BY <3>2, <3>4, <4>2
    <3>5. CASE core.kind # "account"
      <4>1. core.kind \in NetworkKinds /\ core.key = KeyOf(core.kind, seed, core.index)
        BY <2>1, <2>6, <3>3, <3>5 DEF KeyUsed, NetworkKinds
      <4>2. KeyOf(kind, seed, index) = KeyOf(core.kind, seed, core.index)
              <=> kind = core.kind /\ index = core.index
        BY <2>6, <3>1, <3>2, <4>1, KeysApart
      <4> QED BY <3>2, <3>5, <4>1, <4>2
    <3> QED BY <3>4, <3>5
  <2> QED BY <2>1, <2>2, <2>3, <2>5, <2>6 DEF KeysAreThoseShown, mnemonic, stored, phrase
<1>2. CoreInvariant => KeysAreThoseShown
  <2>1. ASSUME CoreInvariant, core.at \notin {"open", "used"} PROVE KeysAreThoseShown
    BY <2>1 DEF KeysAreThoseShown
  <2> QED BY <1>1, <2>1
<1> QED BY <1>2, AlwaysCoreInvariant, PTL

-----------------------------------------------------------------------------
(* The bytes of a number.                                                   *)

\* The equation that defines them.
Digits(g) ==
  g = [n \in 0..MAX_U128 |-> IF n = 0 THEN <<>> ELSE Append(g[n \div 256], n % 256)]

LEMMA Halves ==
  ASSUME NEW n \in Nat
  PROVE  /\ n \div 256 \in Nat /\ n % 256 \in Byte /\ n = 256 * (n \div 256) + (n % 256)
         /\ n # 0 => n \div 256 < n
         /\ \A m \in Nat : m <= n => m \div 256 <= n \div 256
BY DEF Byte

LEMMA DigitsExist == \E g : Digits(g)
<1>0. MAX_U128 \in Nat
  BY EvmTxAssumption
<1> DEFINE Value(g, n) == IF n = 0 THEN <<>> ELSE Append(g[n \div 256], n % 256)
           Good == {k \in Nat : \E g : \A n \in 0..MAX_U128 : n <= k => g[n] = Value(g, n)}
<1>1. 0 \in Good
  <2> DEFINE g == [n \in 0..MAX_U128 |-> <<>>]
  <2>1. \A n \in 0..MAX_U128 : n <= 0 => g[n] = Value(g, n)
    OBVIOUS
  <2> HIDE DEF g, Value
  <2> QED BY <2>1
<1>2. ASSUME NEW k \in Nat, k \in Good PROVE k + 1 \in Good
  <2>1. PICK g : \A n \in 0..MAX_U128 : n <= k => g[n] = Value(g, n)
    BY <1>2
  <2> DEFINE h == [n \in 0..MAX_U128 |-> Value(g, n)]
  <2>2. \A n \in 0..MAX_U128 : n <= k => h[n] = g[n]
    BY <2>1
  <2>3. ASSUME NEW n \in 0..MAX_U128, n <= k + 1 PROVE h[n] = Value(h, n)
    <3>1. h[n] = Value(g, n)
      OBVIOUS
    <3>2. n # 0 => n \div 256 \in 0..MAX_U128 /\ n \div 256 <= k
      BY <1>0, <2>3, Halves
    <3> HIDE DEF h
    <3> QED BY <2>2, <3>1, <3>2
  <2> HIDE DEF h, Value
  <2> QED BY <2>3
<1>3. MAX_U128 \in Good
  <2> HIDE DEF Good
  <2> QED BY <1>0, <1>1, <1>2, Counts
<1>4. PICK g : \A n \in 0..MAX_U128 : g[n] = Value(g, n)
  <2> HIDE DEF Value
  <2> QED BY <1>0, <1>3
<1> DEFINE h == [n \in 0..MAX_U128 |-> Value(g, n)]
<1>5. \A n \in 0..MAX_U128 : h[n] = g[n]
  BY <1>4
<1>6. \A n \in 0..MAX_U128 : Value(g, n) = Value(h, n)
  <2> SUFFICES ASSUME NEW n \in 0..MAX_U128 PROVE Value(g, n) = Value(h, n)
    OBVIOUS
  <2>1. n # 0 => n \div 256 \in 0..MAX_U128
    BY <1>0, Halves
  <2> HIDE DEF h
  <2> QED BY <1>5, <2>1
<1>7. h = [n \in 0..MAX_U128 |-> Value(h, n)]
  <2> HIDE DEF Value
  <2> QED BY <1>6
<1> QED BY <1>7 DEF Digits

LEMMA BigEndianIs ==
  ASSUME NEW n \in 0..MAX_U128
  PROVE  BigEndian[n] = IF n = 0 THEN <<>> ELSE Append(BigEndian[n \div 256], n % 256)
<1>1. BigEndian = CHOOSE g : Digits(g)
  BY DEF BigEndian, Digits
<1>2. Digits(BigEndian)
  BY <1>1, DigitsExist
<1> QED BY <1>2 DEF Digits

LEMMA BigEndianStep ==
  /\ BigEndian[0] = <<>>
  /\ \A n \in 0..MAX_U128 : n # 0 => BigEndian[n] = Append(BigEndian[n \div 256], n % 256)
<1>1. 0 \in 0..MAX_U128
  BY EvmTxAssumption
<1>2. BigEndian[0] = <<>>
  BY <1>1, BigEndianIs
<1>3. ASSUME NEW n \in 0..MAX_U128, n # 0
      PROVE  BigEndian[n] = Append(BigEndian[n \div 256], n % 256)
  BY <1>3, BigEndianIs
<1> QED BY <1>2, <1>3

\* They are bytes, the first of them is not zero, and a greater number has no fewer.
LEMMA BigEndianType ==
  /\ \A n \in 0..MAX_U128 :
       /\ BigEndian[n] \in Seq(Byte)
       /\ BigEndian[n] = <<>> <=> n = 0
       /\ n # 0 => BigEndian[n][1] # 0
  /\ \A m, n \in 0..MAX_U128 : m <= n => Len(BigEndian[m]) <= Len(BigEndian[n])
<1>0. MAX_U128 \in Nat
  BY EvmTxAssumption
<1> DEFINE Typed(n) == /\ BigEndian[n] \in Seq(Byte)
                       /\ BigEndian[n] = <<>> <=> n = 0
                       /\ n # 0 => BigEndian[n][1] # 0
           Good == {k \in Nat : \A n \in 0..MAX_U128 : n <= k => Typed(n)}
           Rises == {k \in Nat : \A m, n \in 0..MAX_U128 :
                       m <= n /\ n <= k => Len(BigEndian[m]) <= Len(BigEndian[n])}
<1>1. 0 \in Good
  <2>1. BigEndian[0] = <<>> /\ <<>> \in Seq(Byte)
    BY BigEndianStep
  <2>2. Typed(0)
    BY <2>1
  <2> HIDE DEF Typed
  <2> QED BY <2>2
<1>2. ASSUME NEW k \in Nat, k \in Good PROVE k + 1 \in Good
  <2> SUFFICES ASSUME NEW n \in 0..MAX_U128, n = k + 1 PROVE Typed(n)
    BY <1>2
  <2> DEFINE rest == BigEndian[n \div 256]
  <2>1. /\ n # 0 /\ n \div 256 \in 0..MAX_U128 /\ n \div 256 <= k /\ n % 256 \in Byte
        /\ n \div 256 = 0 => n % 256 # 0
    BY <1>0, Halves
  <2>2. Typed(n \div 256)
    BY <1>2, <2>1
  <2>3. BigEndian[n] = Append(rest, n % 256)
    <3>1. n # 0
      BY <2>1
    <3> HIDE DEF Typed, Good, Rises
    <3> QED BY <3>1, BigEndianStep
  <2>4. /\ BigEndian[n] \in Seq(Byte) /\ BigEndian[n] # <<>>
    BY <2>1, <2>2, <2>3, AppendProperties
  <2>5. BigEndian[n][1] # 0
    <3>1. CASE n \div 256 = 0
      BY <2>1, <2>2, <2>3, <3>1
    <3>2. CASE n \div 256 # 0
      <4>1. rest \in Seq(Byte) /\ rest # <<>> /\ rest[1] # 0 /\ 1 \in 1..Len(rest)
        BY <2>2, <3>2
      <4>2. Append(rest, n % 256)[1] = rest[1]
        BY <2>1, <4>1, AppendProperties
      <4> QED BY <2>3, <4>1, <4>2
    <3> QED BY <3>1, <3>2
  <2> QED BY <2>1, <2>4, <2>5
<1>3. Nat \subseteq Good
  <2> HIDE DEF Good
  <2> QED BY <1>1, <1>2, Counts
<1>4. \A n \in 0..MAX_U128 : Typed(n)
  <2> HIDE DEF Typed
  <2> QED BY <1>0, <1>3
<1>5. 0 \in Rises
  OBVIOUS
<1>6. ASSUME NEW k \in Nat, k \in Rises PROVE k + 1 \in Rises
  <2> SUFFICES ASSUME NEW m \in 0..MAX_U128, NEW n \in 0..MAX_U128, m <= n, n = k + 1
               PROVE  Len(BigEndian[m]) <= Len(BigEndian[n])
    BY <1>6
  <2>1. CASE m = 0
    <3>1. BigEndian[m] = <<>> /\ BigEndian[n] \in Seq(Byte)
      BY <1>4, <2>1
    <3> QED BY <3>1
  <2>2. CASE m # 0
    <3>1. /\ m \div 256 \in 0..MAX_U128 /\ n \div 256 \in 0..MAX_U128
          /\ m \div 256 <= n \div 256 /\ n \div 256 <= k /\ m % 256 \in Byte /\ n % 256 \in Byte
      BY <1>0, <2>2, Halves
    <3>2. Len(BigEndian[m \div 256]) <= Len(BigEndian[n \div 256])
      BY <1>6, <3>1
    <3>3. /\ BigEndian[m] = Append(BigEndian[m \div 256], m % 256)
          /\ BigEndian[n] = Append(BigEndian[n \div 256], n % 256)
      <4>1. n # 0
        OBVIOUS
      <4>2. BigEndian[m] = Append(BigEndian[m \div 256], m % 256)
        BY <2>2, BigEndianStep
      <4>3. BigEndian[n] = Append(BigEndian[n \div 256], n % 256)
        BY <4>1, BigEndianStep
      <4> QED BY <4>2, <4>3
    <3>4. BigEndian[m \div 256] \in Seq(Byte) /\ BigEndian[n \div 256] \in Seq(Byte)
      BY <1>4, <3>1
    <3>5. /\ Len(BigEndian[m]) = Len(BigEndian[m \div 256]) + 1
          /\ Len(BigEndian[n]) = Len(BigEndian[n \div 256]) + 1
      BY <3>1, <3>3, <3>4, AppendProperties
    <3> QED BY <3>2, <3>4, <3>5
  <2> QED BY <2>1, <2>2
<1>7. Nat \subseteq Rises
  <2> HIDE DEF Rises
  <2> QED BY <1>5, <1>6, Counts
<1>8. ASSUME NEW m \in 0..MAX_U128, NEW n \in 0..MAX_U128, m <= n
      PROVE  Len(BigEndian[m]) <= Len(BigEndian[n])
  <2>1. n \in Rises
    <3> HIDE DEF Rises
    <3> QED BY <1>0, <1>7
  <2> QED BY <1>8, <2>1
<1> QED BY <1>4, <1>8

\* Numbers of eight and of sixteen bytes.
LEMMA Widths ==
  /\ \A n \in 0..MAX_U64 : n \in 0..MAX_U128 /\ Len(BigEndian[n]) <= 8
  /\ \A n \in 0..MAX_U128 : Len(BigEndian[n]) <= 16
<1>1. /\ MAX_U64 \in 0..MAX_U128 /\ MAX_U128 \in 0..MAX_U128
      /\ \A n \in 0..MAX_U64 : n \in 0..MAX_U128
  BY EvmTxAssumption
<1>2. \A n \in 0..MAX_U128 : Len(BigEndian[n]) \in Nat
  BY BigEndianType
<1>3. /\ \A n \in 0..MAX_U64 : Len(BigEndian[n]) <= Len(BigEndian[MAX_U64])
      /\ \A n \in 0..MAX_U128 : Len(BigEndian[n]) <= Len(BigEndian[MAX_U128])
  <2>1. \A m, n \in 0..MAX_U128 : m <= n => Len(BigEndian[m]) <= Len(BigEndian[n])
    BY BigEndianType, Zenon
  <2>2. /\ \A n \in 0..MAX_U64 : n \in 0..MAX_U128 /\ n <= MAX_U64
        /\ \A n \in 0..MAX_U128 : n <= MAX_U128
    BY <1>1, EvmTxAssumption
  <2> QED BY <1>1, <2>1, <2>2, Zenon
<1> QED BY <1>1, <1>2, <1>3, EvmTxAssumption

-----------------------------------------------------------------------------
(* The number of some bytes.                                                *)

\* The equation that defines it.
Firsts(g, s) ==
  g = [n \in 0..Len(s) |-> IF n = 0 THEN 0 ELSE 256 * g[n - 1] + s[n]]

LEMMA FirstsExist ==
  ASSUME NEW s \in Seq(Byte)
  PROVE  \E g : Firsts(g, s)
<1>0. Len(s) \in Nat
  OBVIOUS
<1> DEFINE Value(g, n) == IF n = 0 THEN 0 ELSE 256 * g[n - 1] + s[n]
           Good == {k \in Nat : \E g : \A n \in 0..Len(s) : n <= k => g[n] = Value(g, n)}
<1>1. 0 \in Good
  <2> DEFINE g == [n \in 0..Len(s) |-> 0]
  <2>1. \A n \in 0..Len(s) : n <= 0 => g[n] = Value(g, n)
    OBVIOUS
  <2> HIDE DEF g, Value
  <2> QED BY <2>1
<1>2. ASSUME NEW k \in Nat, k \in Good PROVE k + 1 \in Good
  <2>1. PICK g : \A n \in 0..Len(s) : n <= k => g[n] = Value(g, n)
    BY <1>2
  <2> DEFINE h == [n \in 0..Len(s) |-> Value(g, n)]
  <2>2. \A n \in 0..Len(s) : n <= k => h[n] = g[n]
    BY <2>1
  <2>3. ASSUME NEW n \in 0..Len(s), n <= k + 1 PROVE h[n] = Value(h, n)
    <3>1. h[n] = Value(g, n)
      OBVIOUS
    <3>2. n # 0 => n - 1 \in 0..Len(s) /\ n - 1 <= k
      BY <1>0, <2>3
    <3> HIDE DEF h
    <3> QED BY <2>2, <3>1, <3>2
  <2> HIDE DEF h, Value
  <2> QED BY <2>3
<1>3. Len(s) \in Good
  <2> HIDE DEF Good
  <2> QED BY <1>0, <1>1, <1>2, Counts
<1>4. PICK g : \A n \in 0..Len(s) : g[n] = Value(g, n)
  <2> HIDE DEF Value
  <2> QED BY <1>0, <1>3
<1> DEFINE h == [n \in 0..Len(s) |-> Value(g, n)]
<1>5. \A n \in 0..Len(s) : h[n] = g[n]
  BY <1>4
<1>6. \A n \in 0..Len(s) : Value(g, n) = Value(h, n)
  <2> SUFFICES ASSUME NEW n \in 0..Len(s) PROVE Value(g, n) = Value(h, n)
    OBVIOUS
  <2>1. n # 0 => n - 1 \in 0..Len(s)
    BY <1>0
  <2> HIDE DEF h
  <2> QED BY <1>5, <2>1
<1>7. h = [n \in 0..Len(s) |-> Value(h, n)]
  <2> HIDE DEF Value
  <2> QED BY <1>6
<1> QED BY <1>7 DEF Firsts

LEMMA NumberIs ==
  ASSUME NEW s \in Seq(Byte)
  PROVE  \E g : /\ Number(s) = g[Len(s)] /\ g[0] = 0
                /\ \A n \in 1..Len(s) : g[n] = 256 * g[n - 1] + s[n]
                /\ \A n \in 0..Len(s) : g[n] \in Nat
<1> DEFINE g == CHOOSE g : Firsts(g, s)
<1>0. Len(s) \in Nat
  OBVIOUS
<1>1. Number(s) = g[Len(s)]
  BY DEF Number, Firsts
<1>2. Firsts(g, s)
  BY FirstsExist
<1> HIDE DEF g
<1>3. g[0] = 0 /\ \A n \in 1..Len(s) : g[n] = 256 * g[n - 1] + s[n]
  <2>1. \A n \in 0..Len(s) : g[n] = IF n = 0 THEN 0 ELSE 256 * g[n - 1] + s[n]
    BY <1>2 DEF Firsts
  <2>2. 0 \in 0..Len(s) /\ \A n \in 1..Len(s) : n \in 0..Len(s) /\ n # 0
    BY <1>0
  <2> QED BY <2>1, <2>2
<1> DEFINE Good == {k \in Nat : k <= Len(s) => g[k] \in Nat}
<1>4. 0 \in Good
  BY <1>3
<1>5. ASSUME NEW k \in Nat, k \in Good PROVE k + 1 \in Good
  <2> SUFFICES ASSUME k + 1 <= Len(s) PROVE g[k + 1] \in Nat
    OBVIOUS
  <2>1. g[k] \in Nat /\ k + 1 \in 1..Len(s) /\ (k + 1) - 1 = k
    BY <1>0, <1>5
  <2>2. g[k + 1] = 256 * g[k] + s[k + 1]
    BY <1>3, <2>1
  <2>3. s[k + 1] \in Nat
    <3>1. s[k + 1] \in Byte
      BY <2>1, ElementOfSeq
    <3>2. Byte \subseteq Nat
      BY DEF Byte
    <3> QED BY <3>1, <3>2, Zenon
  <2> QED BY <2>1, <2>2, <2>3
<1>6. Nat \subseteq Good
  <2> HIDE DEF Good
  <2> QED BY <1>4, <1>5, Counts
<1>7. \A n \in 0..Len(s) : g[n] \in Nat
  BY <1>0, <1>6
<1> QED BY <1>1, <1>3, <1>7

\* One byte more.
LEMMA NumberStep ==
  /\ Number(<<>>) = 0
  /\ \A s \in Seq(Byte) : Number(s) \in Nat
  /\ \A s \in Seq(Byte), b \in Byte : Number(Append(s, b)) = 256 * Number(s) + b
<1>1. Number(<<>>) = 0
  <2>1. <<>> \in Seq(Byte) /\ Len(<<>>) = 0
    OBVIOUS
  <2>2. PICK t \in Seq(Byte) : t = <<>>
    BY <2>1
  <2>3. PICK g : Number(t) = g[Len(t)] /\ g[0] = 0
    BY NumberIs
  <2> QED BY <2>1, <2>2, <2>3
<1>2. ASSUME NEW s \in Seq(Byte) PROVE Number(s) \in Nat
  <2>1. Len(s) \in 0..Len(s)
    OBVIOUS
  <2> QED BY <2>1, NumberIs
<1>3. ASSUME NEW s \in Seq(Byte), NEW b \in Byte
      PROVE  Number(Append(s, b)) = 256 * Number(s) + b
  <2> DEFINE t == Append(s, b)
  <2>1. /\ Len(s) \in Nat /\ t \in Seq(Byte) /\ Len(t) = Len(s) + 1 /\ t[Len(s) + 1] = b
        /\ \A n \in 1..Len(s) : t[n] = s[n]
    BY AppendProperties
  <2> HIDE DEF t
  <2>2. PICK g : /\ Number(s) = g[Len(s)] /\ g[0] = 0
                 /\ \A n \in 1..Len(s) : g[n] = 256 * g[n - 1] + s[n]
    BY NumberIs
  <2>3. PICK h : /\ Number(t) = h[Len(t)] /\ h[0] = 0
                 /\ \A n \in 1..Len(t) : h[n] = 256 * h[n - 1] + t[n]
    <3>1. t \in Seq(Byte)
      BY <2>1
    <3> QED BY <3>1, NumberIs
  <2> DEFINE Good == {k \in Nat : k <= Len(s) => h[k] = g[k]}
  <2>4. 0 \in Good
    BY <2>2, <2>3
  <2>5. ASSUME NEW k \in Nat, k \in Good PROVE k + 1 \in Good
    <3> SUFFICES ASSUME k + 1 <= Len(s) PROVE h[k + 1] = g[k + 1]
      OBVIOUS
    <3>1. h[k] = g[k] /\ k + 1 \in 1..Len(s) /\ k + 1 \in 1..Len(t) /\ (k + 1) - 1 = k
      BY <2>1, <2>5
    <3>2. h[k + 1] = 256 * h[k] + t[k + 1] /\ g[k + 1] = 256 * g[k] + s[k + 1]
      BY <2>2, <2>3, <3>1
    <3> QED BY <2>1, <3>1, <3>2
  <2>6. Nat \subseteq Good
    <3> HIDE DEF Good
    <3> QED BY <2>4, <2>5, Counts
  <2>7. h[Len(s)] = g[Len(s)]
    BY <2>1, <2>6
  <2>8. Len(t) \in 1..Len(t) /\ Len(t) - 1 = Len(s)
    BY <2>1
  <2>9. h[Len(t)] = 256 * h[Len(s)] + t[Len(t)]
    BY <2>3, <2>8
  <2>10. Number(t) = 256 * Number(s) + b
    BY <2>1, <2>2, <2>3, <2>7, <2>9
  <2> QED BY <2>10 DEF t
<1> QED BY <1>1, <1>2, <1>3

\* A number is read as it was written.
LEMMA NumberIsRead ==
  \A n \in 0..MAX_U128 : Number(BigEndian[n]) = n /\ Read(BigEndian[n]) = n
<1>0. MAX_U128 \in Nat
  BY EvmTxAssumption
<1> DEFINE Good == {k \in Nat : \A n \in 0..MAX_U128 : n <= k => Number(BigEndian[n]) = n}
<1>1. 0 \in Good
  <2>1. BigEndian[0] = <<>>
    BY <1>0, BigEndianIs
  <2>2. Number(BigEndian[0]) = 0
    BY <2>1, NumberStep
  <2> QED BY <2>2
<1>2. ASSUME NEW k \in Nat, k \in Good PROVE k + 1 \in Good
  <2> SUFFICES ASSUME NEW n \in 0..MAX_U128, n = k + 1 PROVE Number(BigEndian[n]) = n
    BY <1>2
  <2> DEFINE m == n \div 256
  <2>1. /\ n \in Nat /\ n # 0 /\ m \in 0..MAX_U128 /\ m <= k /\ n % 256 \in Byte
        /\ n = 256 * m + (n % 256)
    BY <1>0, Halves
  <2> HIDE DEF m
  <2>2. BigEndian[n] = Append(BigEndian[m], n % 256)
    BY <2>1, BigEndianStep DEF m
  <2>3. Number(BigEndian[n]) = 256 * Number(BigEndian[m]) + (n % 256)
    BY <2>1, <2>2, BigEndianType, NumberStep
  <2>4. Number(BigEndian[m]) = m
    BY <1>2, <2>1
  <2> QED BY <2>1, <2>3, <2>4
<1>3. Nat \subseteq Good
  <2> HIDE DEF Good
  <2> QED BY <1>1, <1>2, Counts
<1>4. \A n \in 0..MAX_U128 : Number(BigEndian[n]) = n
  BY <1>0, <1>3
<1> QED BY <1>4, BigEndianType DEF Read

-----------------------------------------------------------------------------
(* What one item is read as.                                                *)

\* The bytes c stand in s behind the first m.
Stands(c, s, m) == m + Len(c) <= Len(s) /\ \A k \in 1..Len(c) : s[m + k] = c[k]

LEMMA Parts ==
  ASSUME NEW p \in Seq(Byte), NEW c \in Seq(Byte)
  PROVE  /\ p \o c \in Seq(Byte) /\ Len(p \o c) = Len(p) + Len(c)
         /\ Len(p) \in Nat /\ Len(c) \in Nat
         /\ \A k \in 1..Len(p) : (p \o c)[k] = p[k]
         /\ \A k \in 1..Len(c) : (p \o c)[Len(p) + k] = c[k]
BY ConcatProperties

\* Where two texts stand in one piece each of them stands.
LEMMA StandApart ==
  ASSUME NEW s \in Seq(Byte), NEW m \in Nat, NEW p \in Seq(Byte), NEW c \in Seq(Byte),
         Stands(p \o c, s, m)
  PROVE  Stands(p, s, m) /\ Stands(c, s, m + Len(p))
<1>1. Len(p) \in Nat /\ Len(c) \in Nat /\ Len(p \o c) = Len(p) + Len(c) /\ Len(s) \in Nat
  BY Parts
<1>2. PICK a \in Nat, b \in Nat : a = Len(p) /\ b = Len(c)
  BY <1>1
<1>3. \A k \in 1..(a + b) : s[m + k] = (p \o c)[k]
  BY <1>1, <1>2 DEF Stands
<1>4. ASSUME NEW k \in 1..a PROVE s[m + k] = p[k]
  <2>1. k \in 1..(a + b) /\ (p \o c)[k] = p[k]
    BY <1>2, Parts
  <2> QED BY <1>3, <2>1
<1>5. ASSUME NEW k \in 1..b PROVE s[m + a + k] = c[k]
  <2>1. a + k \in 1..(a + b) /\ (p \o c)[a + k] = c[k] /\ m + a + k = m + (a + k)
    BY <1>2, Parts
  <2> QED BY <1>3, <2>1
<1>6. m + a <= Len(s) /\ m + a + b <= Len(s)
  BY <1>1, <1>2 DEF Stands
<1> QED BY <1>2, <1>4, <1>5, <1>6 DEF Stands

\* What stands in a text is cut out of it.
LEMMA Cut ==
  ASSUME NEW s \in Seq(Byte), NEW d \in Seq(Byte), NEW m \in Nat, Stands(d, s, m)
  PROVE  SubSeq(s, m + 1, m + Len(d)) = d
<1> DEFINE t == SubSeq(s, m + 1, m + Len(d))
<1>1. Len(s) \in Nat /\ Len(d) \in Nat /\ m + Len(d) <= Len(s)
  BY DEF Stands
<1>2. \A i \in (m + 1)..(m + Len(d)) : s[i] \in Byte
  <2>1. \A i \in (m + 1)..(m + Len(d)) : i \in 1..Len(s)
    BY <1>1
  <2> QED BY <2>1, ElementOfSeq
<1>3. /\ t \in Seq(Byte) /\ Len(t) = Len(d)
      /\ \A k \in 1..Len(d) : t[k] = s[m + k]
  <2>1. /\ SubSeq(s, m + 1, m + Len(d)) \in Seq(Byte)
        /\ Len(SubSeq(s, m + 1, m + Len(d)))
             = IF m + 1 <= m + Len(d) THEN m + Len(d) - (m + 1) + 1 ELSE 0
        /\ \A i \in 1..(m + Len(d) - (m + 1) + 1) :
             SubSeq(s, m + 1, m + Len(d))[i] = s[m + 1 + i - 1]
    <3>1. m + 1 \in Int /\ m + Len(d) \in Int
      BY <1>1
    <3> QED BY <1>2, <3>1, SubSeqProperties
  <2>2. /\ m + Len(d) - (m + 1) + 1 = Len(d)
        /\ m + 1 <= m + Len(d) <=> Len(d) # 0
        /\ \A i \in 1..Len(d) : m + 1 + i - 1 = m + i
    BY <1>1
  <2> QED BY <2>1, <2>2
<1>4. \A k \in 1..Len(d) : t[k] = d[k]
  BY <1>3 DEF Stands
<1> HIDE DEF t
<1>5. t = d
  BY <1>3, <1>4, SeqEqual
<1> QED BY <1>5 DEF t

\* The bases of strings and of lists.
Bases == {128, 192}

\* A short header is one byte; a longer one has the bytes of the length after it.
LEMMA ShortHeader ==
  ASSUME NEW base \in Bases, NEW size \in Nat, size <= 55
  PROVE  Header(base, size) = <<base + size>> /\ <<base + size>> \in Seq(Byte)
<1>1. base + size \in Byte
  BY DEF Byte, Bases
<1> QED BY <1>1 DEF Header

LongForm(base, size, b, n) ==
  /\ Len(b) = n /\ Number(b) = size
  /\ Header(base, size) = <<base + 55 + n>> \o b
  /\ <<base + 55 + n>> \in Seq(Byte)

LEMMA LongHeader ==
  ASSUME NEW base \in Bases, NEW size \in Nat, size <= MAX_U64, size > 55
  PROVE  \E b \in Seq(Byte), n \in 1..8 : LongForm(base, size, b, n)
<1>1. PICK b : b = BigEndian[size]
  OBVIOUS
<1>2. size \in 0..MAX_U128 /\ Len(b) <= 8
  <2>1. size \in 0..MAX_U64
    BY EvmTxAssumption
  <2> QED BY <1>1, <2>1, Widths
<1>3. b \in Seq(Byte) /\ b # <<>> /\ Number(b) = size
  BY <1>1, <1>2, BigEndianType, NumberIsRead
<1>4. PICK n \in Nat : n = Len(b)
  BY <1>3
<1>5. n \in 1..8
  <2>1. Len(b) # 0
    BY <1>3, EmptySeq
  <2>2. n <= 8 /\ n # 0
    BY <1>2, <1>4, <2>1, Zenon
  <2> QED BY <2>2
<1>6. base + 55 + n \in Byte
  BY <1>5 DEF Byte, Bases
<1>7. Header(base, size) = <<base + 55 + n>> \o b
  <2>1. ~ (size <= 55)
    OBVIOUS
  <2> QED BY <1>1, <1>4, <2>1 DEF Header
<1>8. LongForm(base, size, b, n)
  BY <1>3, <1>4, <1>6, <1>7 DEF LongForm
<1> QED BY <1>3, <1>5, <1>8

LEMMA HeaderType ==
  ASSUME NEW base \in Bases, NEW size \in Nat, size <= MAX_U64
  PROVE  Header(base, size) \in Seq(Byte) /\ Len(Header(base, size)) \in 1..9
<1>1. CASE size <= 55
  <2>1. Header(base, size) = <<base + size>> /\ <<base + size>> \in Seq(Byte)
    BY <1>1, ShortHeader
  <2> QED BY <2>1
<1>2. CASE size > 55
  <2>1. PICK b \in Seq(Byte), n \in 1..8 : LongForm(base, size, b, n)
    BY <1>2, LongHeader
  <2>2. Len(<<base + 55 + n>>) = 1
    OBVIOUS
  <2>3. <<base + 55 + n>> \o b \in Seq(Byte) /\ Len(<<base + 55 + n>> \o b) = 1 + n
    BY <2>1, <2>2, ConcatProperties DEF LongForm
  <2>4. 1 + n \in 1..9
    OBVIOUS
  <2> QED BY <2>1, <2>3, <2>4 DEF LongForm
<1> QED BY <1>1, <1>2

\* The item behind the first m bytes, a string or a list by its base.
Spans(s, m, start, end, base) ==
  ItemAt(s, m + 1) = [first |-> start, last |-> end, list |-> base = 192]

\* The item that begins with a header has what the header says.
LEMMA ShortItem ==
  ASSUME NEW s \in Seq(Byte), NEW m \in Nat, NEW base \in Bases,
         NEW size \in Nat, size <= 55, s[m + 1] = base + size
  PROVE  Spans(s, m, m + 1 + 1, m + 1 + size, base)
<1>1. PICK i \in Nat : i = m + 1
  OBVIOUS
<1>2. PICK byte \in Nat : byte = base + size /\ s[i] = byte
  BY <1>1 DEF Bases
<1>3. /\ ~ (byte < 128) /\ (IF byte >= 192 THEN 192 ELSE 128) = base /\ ~ (byte > base + 55)
      /\ byte - base = size /\ (byte >= 192 <=> base = 192)
  BY <1>2 DEF Bases
<1>4. ItemAt(s, i) = [first |-> i + 1 + 0, last |-> i + 0 + (byte - base), list |-> byte >= 192]
  BY <1>2, <1>3 DEF ItemAt
<1>5. i + 1 + 0 = i + 1 /\ i + 0 + (byte - base) = i + size
  BY <1>3
<1>6. (byte >= 192) = (base = 192)
  BY <1>3
<1>7. ItemAt(s, i) = [first |-> i + 1, last |-> i + size, list |-> base = 192]
  BY <1>4, <1>5, <1>6, Zenon
<1> QED BY <1>1, <1>7, Zenon DEF Spans

LEMMA LongItem ==
  ASSUME NEW s \in Seq(Byte), NEW m \in Nat, NEW base \in Bases, NEW size \in Nat,
         NEW b \in Seq(Byte), NEW n \in 1..8, Len(b) = n, Number(b) = size,
         s[m + 1] = base + 55 + n, Stands(b, s, m + 1)
  PROVE  Spans(s, m, m + 1 + 1 + n, m + 1 + n + size, base)
<1>1. PICK i \in Nat : i = m + 1
  OBVIOUS
<1>2. SubSeq(s, i + 1, i + n) = b
  BY <1>1, Cut
<1>3. PICK byte \in Nat : byte = base + 55 + n /\ s[i] = byte
  BY <1>1 DEF Bases
<1>4. /\ ~ (byte < 128) /\ (IF byte >= 192 THEN 192 ELSE 128) = base /\ byte > base + 55
      /\ byte - base - 55 = n /\ (byte >= 192 <=> base = 192)
  BY <1>3 DEF Bases
<1>5. ItemAt(s, i) = [first |-> i + 1 + (byte - base - 55),
                      last  |-> i + (byte - base - 55)
                                  + Number(SubSeq(s, i + 1, i + (byte - base - 55))),
                      list  |-> byte >= 192]
  <2> DEFINE low   == IF byte >= 192 THEN 192 ELSE 128
             sizes == IF byte > low + 55 THEN byte - low - 55 ELSE 0
             many  == IF byte > low + 55 THEN Number(SubSeq(s, i + 1, i + sizes)) ELSE byte - low
  <2>1. ItemAt(s, i)
          = IF byte < 128 THEN [first |-> i, last |-> i, list |-> FALSE]
            ELSE [first |-> i + 1 + sizes, last |-> i + sizes + many, list |-> byte >= 192]
    BY <1>3 DEF ItemAt
  <2>2. low = base
    BY <1>4
  <2> HIDE DEF low
  <2>3. sizes = byte - base - 55
    BY <1>4, <2>2
  <2>4. many = Number(SubSeq(s, i + 1, i + sizes))
    BY <1>4, <2>2
  <2> HIDE DEF sizes, many
  <2> QED BY <1>4, <2>1, <2>3, <2>4
<1>6. ItemAt(s, i) = [first |-> i + 1 + n, last |-> i + n + Number(SubSeq(s, i + 1, i + n)),
                      list  |-> byte >= 192]
  <2>1. byte - base - 55 = n
    BY <1>4
  <2> QED BY <1>5, <2>1, Zenon
<1>7. i + n + Number(SubSeq(s, i + 1, i + n)) = i + n + size
  BY <1>2
<1>8. (byte >= 192) = (base = 192)
  BY <1>4
<1>9. ItemAt(s, i) = [first |-> i + 1 + n, last |-> i + n + size, list |-> base = 192]
  BY <1>6, <1>7, <1>8, Zenon
<1> QED BY <1>1, <1>9, Zenon DEF Spans

LEMMA ItemOfHeader ==
  ASSUME NEW s \in Seq(Byte), NEW m \in Nat, NEW base \in Bases, NEW size \in Nat,
         size <= MAX_U64, NEW h, h = Header(base, size), Stands(h, s, m)
  PROVE  Spans(s, m, m + Len(h) + 1, m + Len(h) + size, base)
<1>1. h \in Seq(Byte) /\ Len(h) \in 1..9
  BY HeaderType
<1>2. s[m + 1] = h[1]
  BY <1>1 DEF Stands
<1>3. CASE size <= 55
  <2>1. h = <<base + size>>
    BY <1>3, ShortHeader
  <2>2. Len(h) = 1 /\ s[m + 1] = base + size
    BY <1>2, <2>1
  <2>3. Spans(s, m, m + 1 + 1, m + 1 + size, base)
    BY <1>3, <2>2, ShortItem, Zenon
  <2> QED BY <2>2, <2>3
<1>4. CASE size > 55
  <2>1. PICK b \in Seq(Byte), n \in 1..8 : LongForm(base, size, b, n)
    BY <1>4, LongHeader
  <2>2. PICK one : one = <<base + 55 + n>>
    OBVIOUS
  <2>3. /\ h = one \o b /\ one \in Seq(Byte) /\ Len(one) = 1 /\ one[1] = base + 55 + n
        /\ Len(b) = n /\ Number(b) = size
    BY <2>1, <2>2 DEF LongForm
  <2>4. Len(h) = 1 + n /\ h[1] = base + 55 + n
    <3>1. Len(one \o b) = Len(one) + Len(b) /\ \A k \in 1..Len(one) : (one \o b)[k] = one[k]
      BY <2>3, Parts
    <3> QED BY <2>3, <3>1
  <2>5. Stands(b, s, m + Len(one))
    <3>1. Stands(one \o b, s, m) /\ one \in Seq(Byte)
      BY <2>3
    <3> QED BY <3>1, StandApart, Zenon
  <2>6. Stands(b, s, m + 1) /\ s[m + 1] = base + 55 + n
    BY <1>2, <2>3, <2>4, <2>5
  <2>7. Spans(s, m, m + 1 + 1 + n, m + 1 + n + size, base)
    BY <2>3, <2>6, LongItem, Zenon
  <2>8. m + 1 + 1 + n = m + Len(h) + 1 /\ m + 1 + n + size = m + Len(h) + size
    BY <2>4
  <2> QED BY <2>7, <2>8, Zenon
<1> QED BY <1>3, <1>4

\* A header and what it heads are one item, with that content.
IsItem(s, m, h, d, base) ==
  /\ Spans(s, m, m + Len(h) + 1, m + Len(h) + Len(d), base)
  /\ SubSeq(s, m + Len(h) + 1, m + Len(h) + Len(d)) = d

LEMMA HeadedItem ==
  ASSUME NEW s \in Seq(Byte), NEW m \in Nat, NEW d \in Seq(Byte), Len(d) <= MAX_U64,
         NEW base \in Bases, NEW h, h = Header(base, Len(d)), Stands(h \o d, s, m)
  PROVE  IsItem(s, m, h, d, base)
<1>1. Len(d) \in Nat
  OBVIOUS
<1>2. h \in Seq(Byte) /\ Len(h) \in 1..9
  BY <1>1, HeaderType
<1>3. Stands(h, s, m) /\ Stands(d, s, m + Len(h))
  BY <1>2, StandApart, Zenon
<1>4. m + Len(h) \in Nat
  BY <1>2
<1>5. SubSeq(s, m + Len(h) + 1, m + Len(h) + Len(d)) = d
  BY <1>3, <1>4, Cut, Zenon
<1>6. Spans(s, m, m + Len(h) + 1, m + Len(h) + Len(d), base)
  BY <1>1, <1>3, ItemOfHeader, Zenon
<1> QED BY <1>5, <1>6 DEF IsItem

\* The bytes c are an item with the content d wherever they stand.
Writes(c, d) ==
  /\ c \in Seq(Byte) /\ Len(c) \in Nat \ {0}
  /\ \A s \in Seq(Byte), m \in Nat :
       Stands(c, s, m) => /\ ItemAt(s, m + 1).last = m + Len(c)
                          /\ SubSeq(s, ItemAt(s, m + 1).first, m + Len(c)) = d

LEMMA HeadedWrites ==
  ASSUME NEW d \in Seq(Byte), Len(d) <= MAX_U64, NEW base \in Bases
  PROVE  /\ Writes(Header(base, Len(d)) \o d, d)
         /\ Len(Header(base, Len(d)) \o d) <= Len(d) + 9
<1>1. PICK h : h = Header(base, Len(d))
  OBVIOUS
<1>2. Len(d) \in Nat
  OBVIOUS
<1>3. h \in Seq(Byte) /\ Len(h) \in 1..9
  BY <1>1, <1>2, HeaderType
<1>4. h \o d \in Seq(Byte) /\ Len(h \o d) = Len(h) + Len(d)
  BY <1>3, Parts
<1>5. Len(h \o d) \in Nat \ {0} /\ Len(h \o d) <= Len(d) + 9
  <2>1. PICK a \in 1..9, b \in Nat : a = Len(h) /\ b = Len(d)
    BY <1>2, <1>3
  <2>2. a + b \in Nat \ {0} /\ a + b <= b + 9
    OBVIOUS
  <2> QED BY <1>4, <2>1, <2>2, Zenon
<1>6. ASSUME NEW s \in Seq(Byte), NEW m \in Nat, Stands(h \o d, s, m)
      PROVE  /\ ItemAt(s, m + 1).last = m + Len(h \o d)
             /\ SubSeq(s, ItemAt(s, m + 1).first, m + Len(h \o d)) = d
  <2>1. /\ Spans(s, m, m + Len(h) + 1, m + Len(h) + Len(d), base)
        /\ SubSeq(s, m + Len(h) + 1, m + Len(h) + Len(d)) = d
    <3>1. Len(d) <= MAX_U64 /\ h = Header(base, Len(d)) /\ Stands(h \o d, s, m)
      BY <1>1, <1>6, Zenon
    <3>2. IsItem(s, m, h, d, base)
      BY <3>1, HeadedItem, Zenon
    <3> QED BY <3>2 DEF IsItem
  <2>2. /\ ItemAt(s, m + 1).first = m + Len(h) + 1
        /\ ItemAt(s, m + 1).last = m + Len(h) + Len(d)
    BY <2>1 DEF Spans
  <2>3. m + Len(h) + Len(d) = m + Len(h \o d)
    BY <1>2, <1>3, <1>4
  <2> QED BY <2>1, <2>2, <2>3, Zenon
<1>7. Writes(h \o d, d)
  BY <1>4, <1>5, <1>6, Zenon DEF Writes
<1> QED BY <1>1, <1>5, <1>7

\* A string, the empty list.
LEMMA StringWrites ==
  ASSUME NEW d \in Seq(Byte), Len(d) <= MAX_U64
  PROVE  Writes(RlpBytes(d), d) /\ Len(RlpBytes(d)) <= Len(d) + 9
<1>0. 128 \in Bases
  BY DEF Bases
<1>1. CASE ~ (Len(d) = 1 /\ d[1] < 128)
  <2>1. RlpBytes(d) = Header(128, Len(d)) \o d
    BY <1>1 DEF RlpBytes
  <2> QED BY <1>0, <2>1, HeadedWrites
<1>2. CASE Len(d) = 1 /\ d[1] < 128
  <2>1. RlpBytes(d) = d
    BY <1>2 DEF RlpBytes
  <2>2. ASSUME NEW s \in Seq(Byte), NEW m \in Nat, Stands(d, s, m)
        PROVE  /\ ItemAt(s, m + 1).last = m + Len(d)
               /\ SubSeq(s, ItemAt(s, m + 1).first, m + Len(d)) = d
    <3>1. s[m + 1] = d[1]
      BY <1>2, <2>2 DEF Stands
    <3>2. ItemAt(s, m + 1) = [first |-> m + 1, last |-> m + 1, list |-> FALSE]
      BY <1>2, <3>1 DEF ItemAt
    <3>3. ItemAt(s, m + 1).first = m + 1 /\ ItemAt(s, m + 1).last = m + Len(d)
      BY <1>2, <3>2
    <3>4. SubSeq(s, m + 1, m + Len(d)) = d
      BY <2>2, Cut, Zenon
    <3> QED BY <3>3, <3>4, Zenon
  <2>3. Len(d) \in Nat \ {0}
    BY <1>2
  <2>4. Writes(d, d)
    BY <2>2, <2>3, Zenon DEF Writes
  <2>5. Len(d) <= Len(d) + 9
    BY <1>2
  <2> QED BY <2>1, <2>4, <2>5
<1> QED BY <1>1, <1>2

LEMMA EmptyListWrites == Writes(RlpList(<<>>), <<>>) /\ Len(RlpList(<<>>)) <= 9
<1>1. 192 \in Bases /\ <<>> \in Seq(Byte) /\ Len(<<>>) = 0 /\ Len(<<>>) <= MAX_U64
  BY EvmTxAssumption DEF Bases
<1>2. RlpList(<<>>) = Header(192, Len(<<>>)) \o <<>>
  BY DEF RlpList
<1>3. /\ Writes(Header(192, Len(<<>>)) \o <<>>, <<>>)
      /\ Len(Header(192, Len(<<>>)) \o <<>>) <= Len(<<>>) + 9
  BY <1>1, HeadedWrites, Zenon
<1> QED BY <1>1, <1>2, <1>3

-----------------------------------------------------------------------------
(* What a list of items is read as.                                         *)

\* The equation of the walk over the items of s.
Walks(g, s) ==
  g = [i \in 1..(Len(s) + 1) |->
         IF i = Len(s) + 1 THEN <<>>
         ELSE IF ItemAt(s, i).last \notin i..Len(s) THEN <<"broken">>
         ELSE <<SubSeq(s, ItemAt(s, i).first, ItemAt(s, i).last)>> \o g[ItemAt(s, i).last + 1]]

LEMMA WalkExists ==
  ASSUME NEW s \in Seq(Byte)
  PROVE  \E g : Walks(g, s)
<1> DEFINE Stop(i) == ItemAt(s, i).last
           Cuts(i) == SubSeq(s, ItemAt(s, i).first, Stop(i))
           Value(g, i) == IF i = Len(s) + 1 THEN <<>>
                          ELSE IF Stop(i) \notin i..Len(s) THEN <<"broken">>
                          ELSE <<Cuts(i)>> \o g[Stop(i) + 1]
           Good == {k \in Nat : \E g : \A i \in 1..(Len(s) + 1) :
                                   i + k > Len(s) => g[i] = Value(g, i)}
<1>0. Len(s) \in Nat
  OBVIOUS
<1> HIDE DEF Stop, Cuts
<1>1. 0 \in Good
  <2> DEFINE g == [i \in 1..(Len(s) + 1) |-> <<>>]
  <2>1. ASSUME NEW i \in 1..(Len(s) + 1), i + 0 > Len(s) PROVE g[i] = Value(g, i)
    <3>1. i = Len(s) + 1
      BY <1>0, <2>1
    <3> QED BY <3>1
  <2> HIDE DEF g, Value
  <2> QED BY <2>1
<1>2. ASSUME NEW k \in Nat, k \in Good PROVE k + 1 \in Good
  <2>1. PICK g : \A i \in 1..(Len(s) + 1) : i + k > Len(s) => g[i] = Value(g, i)
    BY <1>2
  <2> DEFINE h == [i \in 1..(Len(s) + 1) |-> Value(g, i)]
  <2>2. \A i \in 1..(Len(s) + 1) : i + k > Len(s) => h[i] = g[i]
    BY <2>1
  <2>3. ASSUME NEW i \in 1..(Len(s) + 1), i + (k + 1) > Len(s) PROVE h[i] = Value(h, i)
    <3>1. h[i] = Value(g, i)
      OBVIOUS
    <3>2. Stop(i) \in i..Len(s) => Stop(i) + 1 \in 1..(Len(s) + 1) /\ (Stop(i) + 1) + k > Len(s)
      BY <1>0, <2>3
    <3> HIDE DEF h
    <3> QED BY <2>2, <3>1, <3>2
  <2> HIDE DEF h, Value
  <2> QED BY <2>3
<1>3. Len(s) \in Good
  <2> HIDE DEF Good
  <2> QED BY <1>0, <1>1, <1>2, Counts
<1>4. PICK g : \A i \in 1..(Len(s) + 1) : g[i] = Value(g, i)
  <2>1. \A i \in 1..(Len(s) + 1) : i + Len(s) > Len(s)
    BY <1>0
  <2> HIDE DEF Value
  <2> QED BY <1>3, <2>1
<1> DEFINE h == [i \in 1..(Len(s) + 1) |-> Value(g, i)]
<1>5. \A i \in 1..(Len(s) + 1) : h[i] = g[i]
  BY <1>4
<1>6. ASSUME NEW i \in 1..(Len(s) + 1) PROVE Value(g, i) = Value(h, i)
  <2>1. Stop(i) \in i..Len(s) => Stop(i) + 1 \in 1..(Len(s) + 1)
    BY <1>0
  <2> HIDE DEF h
  <2> QED BY <1>5, <2>1
<1>7. h = [i \in 1..(Len(s) + 1) |-> Value(h, i)]
  <2> HIDE DEF Value
  <2> QED BY <1>6
<1> QED BY <1>7, Zenon DEF Walks, Stop, Cuts

\* The items of s behind the bytes p, with which it begins, are f.
Ends(s, p, f) ==
  Stands(p, s, 0) /\ \A g : Walks(g, s) => g[Len(p) + 1] = f

LEMMA AtTheEnd ==
  ASSUME NEW s \in Seq(Byte)
  PROVE  Ends(s, s, <<>>)
<1>1. Len(s) \in Nat
  OBVIOUS
<1>2. Stands(s, s, 0)
  BY <1>1 DEF Stands
<1>3. \A g : Walks(g, s) => g[Len(s) + 1] = <<>>
  BY <1>1 DEF Walks
<1> QED BY <1>2, <1>3 DEF Ends

\* One item is read off.
LEMMA ReadOff ==
  ASSUME NEW s \in Seq(Byte), NEW p \in Seq(Byte), NEW c, NEW d, NEW f, Writes(c, d),
         Ends(s, p \o c, f)
  PROVE  Ends(s, p, <<d>> \o f)
<1>1. c \in Seq(Byte) /\ Len(c) \in Nat \ {0}
  BY DEF Writes
<1>2. Stands(p, s, 0) /\ Stands(c, s, Len(p))
  <2>1. Stands(p \o c, s, 0) /\ 0 \in Nat
    BY DEF Ends
  <2>2. Stands(p, s, 0) /\ Stands(c, s, 0 + Len(p))
    BY <1>1, <2>1, StandApart, Zenon
  <2>3. 0 + Len(p) = Len(p)
    OBVIOUS
  <2> QED BY <2>2, <2>3
<1>3. PICK m \in Nat, n \in Nat \ {0} : m = Len(p) /\ n = Len(c) /\ Len(p \o c) = m + n
  BY <1>1, Parts
<1>4. m + n <= Len(s) /\ Len(s) \in Nat
  BY <1>2, <1>3 DEF Stands
<1>5. ItemAt(s, m + 1).last = m + n /\ SubSeq(s, ItemAt(s, m + 1).first, m + n) = d
  BY <1>2, <1>3 DEF Writes
<1>6. ASSUME NEW g, Walks(g, s) PROVE g[m + 1] = <<d>> \o f
  <2>1. g[m + n + 1] = f
    BY <1>3, <1>6 DEF Ends
  <2>2. m + 1 \in 1..(Len(s) + 1) /\ m + 1 # Len(s) + 1 /\ m + n \in (m + 1)..Len(s)
    BY <1>4
  <2>3. g[m + 1] = <<SubSeq(s, ItemAt(s, m + 1).first, m + n)>> \o g[m + n + 1]
    BY <1>5, <1>6, <2>2 DEF Walks
  <2> QED BY <1>5, <2>1, <2>3, Zenon
<1> QED BY <1>2, <1>3, <1>6 DEF Ends

\* When all are, nothing is left before them.
LEMMA ItemsAre ==
  ASSUME NEW s \in Seq(Byte), NEW f, Ends(s, <<>>, f)
  PROVE  Items(s) = f
<1> DEFINE g == CHOOSE g : Walks(g, s)
<1>1. Items(s) = g[1]
  BY Zenon DEF Items, Walks
<1>2. Walks(g, s)
  BY WalkExists
<1> HIDE DEF g
<1>3. g[Len(<<>>) + 1] = f
  BY <1>2 DEF Ends
<1> QED BY <1>1, <1>3

\* p, of no more than n bytes, is read as the fields f, whatever follows.
Written(p, f, n) ==
  /\ p \in Seq(Byte) /\ f \in Seq(Seq(Byte)) /\ n \in Nat /\ Len(p) <= n
  /\ \A s \in Seq(Byte), g \in Seq(Seq(Byte)) : Ends(s, p, g) => Ends(s, <<>>, f \o g)

LEMMA NothingWritten == Written(<<>>, <<>>, 0)
<1>1. <<>> \in Seq(Byte) /\ <<>> \in Seq(Seq(Byte)) /\ Len(<<>>) = 0
  OBVIOUS
<1>2. \A g \in Seq(Seq(Byte)) : <<>> \o g = g
  BY ConcatEmptySeq
<1> QED BY <1>1, <1>2 DEF Written

LEMMA FieldsRegrouped ==
  \A a, b, c \in Seq(Seq(Byte)) : (a \o b) \o c = a \o (b \o c)
<1>1. PICK S : S = Seq(Byte)
  OBVIOUS
<1>2. ASSUME NEW a \in Seq(S), NEW b \in Seq(S), NEW c \in Seq(S)
      PROVE  (a \o b) \o c = a \o (b \o c)
  BY ConcatAssociative
<1> QED BY <1>1, <1>2, Zenon

LEMMA OneMoreWritten ==
  ASSUME NEW p, NEW f, NEW n, Written(p, f, n), NEW c, NEW d \in Seq(Byte), Writes(c, d),
         NEW k \in Nat, Len(c) <= k
  PROVE  Written(p \o c, Append(f, d), n + k)
<1>1. p \in Seq(Byte) /\ f \in Seq(Seq(Byte)) /\ n \in Nat /\ Len(p) <= n
  BY DEF Written
<1>2. c \in Seq(Byte)
  BY DEF Writes
<1>3. p \o c \in Seq(Byte) /\ Len(p \o c) <= n + k
  <2>1. PICK a \in Nat, b \in Nat :
           a = Len(p) /\ b = Len(c) /\ p \o c \in Seq(Byte) /\ Len(p \o c) = a + b
    BY <1>1, <1>2, Parts
  <2>2. a <= n /\ b <= k
    BY <1>1, <2>1
  <2> QED BY <1>1, <2>1, <2>2
<1>4. Append(f, d) \in Seq(Seq(Byte)) /\ Append(f, d) = f \o <<d>>
  BY <1>1, AppendProperties, AppendIsConcat
<1>5. ASSUME NEW s \in Seq(Byte), NEW g \in Seq(Seq(Byte)), Ends(s, p \o c, g)
      PROVE  Ends(s, <<>>, Append(f, d) \o g)
  <2>1. Ends(s, p, <<d>> \o g)
    BY <1>1, <1>5, ReadOff
  <2>2. <<d>> \in Seq(Seq(Byte))
    OBVIOUS
  <2>3. <<d>> \o g \in Seq(Seq(Byte))
    BY <2>2, ConcatProperties
  <2>4. Ends(s, <<>>, f \o (<<d>> \o g))
    BY <2>1, <2>3 DEF Written
  <2>5. (f \o <<d>>) \o g = f \o (<<d>> \o g)
    BY <1>1, <2>2, FieldsRegrouped, Zenon
  <2> QED BY <1>4, <2>4, <2>5
<1>6. n + k \in Nat
  BY <1>1
<1> QED BY <1>3, <1>4, <1>5, <1>6, Zenon DEF Written

\* The reader of what a list holds.
LEMMA WrittenIsRead ==
  ASSUME NEW p, NEW f, NEW n, Written(p, f, n)
  PROVE  Items(p) = f
<1>1. p \in Seq(Byte) /\ f \in Seq(Seq(Byte)) /\ <<>> \in Seq(Seq(Byte))
  BY DEF Written
<1>2. Ends(p, p, <<>>)
  BY <1>1, AtTheEnd
<1>3. Ends(p, <<>>, f \o <<>>)
  BY <1>1, <1>2 DEF Written
<1>4. f \o <<>> = f
  BY <1>1, ConcatEmptySeq
<1> QED BY <1>1, <1>3, <1>4, ItemsAre

-----------------------------------------------------------------------------
(* The transaction.                                                         *)

\* A type and a list are read as the items of the list.
LEMMA FieldsAre ==
  ASSUME NEW payload \in Seq(Byte), Len(payload) <= MAX_U64
  PROVE  Fields(<<2>> \o RlpList(payload)) = Items(payload)
<1>0. PICK base \in Bases : base = 192
  BY DEF Bases
<1>1. PICK h : h = Header(base, Len(payload))
  OBVIOUS
<1>2. Len(payload) \in Nat
  OBVIOUS
<1>3. h \in Seq(Byte) /\ Len(h) \in 1..9
  BY <1>1, <1>2, HeaderType
<1>4. PICK c : c = h \o payload
  OBVIOUS
<1>5. PICK two : two = <<2>>
  OBVIOUS
<1>6. two \in Seq(Byte) /\ Len(two) = 1
  BY <1>5 DEF Byte
<1>7. c \in Seq(Byte) /\ Len(c) = Len(h) + Len(payload)
  BY <1>3, <1>4, Parts
<1>8. PICK raw : raw = two \o c
  OBVIOUS
<1>9. /\ raw \in Seq(Byte) /\ Len(raw) = 1 + Len(c)
      /\ \A k \in 1..Len(c) : raw[1 + k] = c[k]
  <2>1. /\ two \o c \in Seq(Byte) /\ Len(two \o c) = Len(two) + Len(c)
        /\ \A k \in 1..Len(c) : (two \o c)[Len(two) + k] = c[k]
    BY <1>6, <1>7, Parts
  <2> QED BY <1>6, <1>8, <2>1
<1>10. Stands(c, raw, 1)
  BY <1>7, <1>9 DEF Stands
<1>11. Stands(h \o payload, raw, 1) /\ 1 \in Nat
  BY <1>4, <1>10
<1>12. IsItem(raw, 1, h, payload, base)
  BY <1>1, <1>2, <1>9, <1>11, HeadedItem, Zenon
<1>13. /\ ItemAt(raw, 2) = [first |-> 1 + Len(h) + 1, last |-> 1 + Len(h) + Len(payload),
                            list |-> base = 192]
       /\ SubSeq(raw, 1 + Len(h) + 1, 1 + Len(h) + Len(payload)) = payload
  <2>1. 1 + 1 = 2
    OBVIOUS
  <2> QED BY <1>12, <2>1, Zenon DEF IsItem, Spans
<1>14. 1 + Len(h) + Len(payload) = Len(raw)
  BY <1>2, <1>3, <1>7, <1>9
<1>15. Fields(raw) = Items(payload)
  <2>1. PICK whole : whole = ItemAt(raw, 2)
    OBVIOUS
  <2>2. whole.list /\ whole.last = Len(raw) /\ SubSeq(raw, whole.first, whole.last) = payload
    <3>1. whole = [first |-> 1 + Len(h) + 1, last |-> 1 + Len(h) + Len(payload),
                   list |-> base = 192]
      BY <1>13, <2>1, Zenon
    <3>2. whole.first = 1 + Len(h) + 1 /\ whole.last = 1 + Len(h) + Len(payload)
      BY <3>1
    <3>3. whole.list
      BY <1>0, <3>1
    <3> QED BY <1>13, <1>14, <3>2, <3>3, Zenon
  <2> QED BY <2>1, <2>2 DEF Fields
<1>16. raw = <<2>> \o RlpList(payload)
  BY <1>0, <1>1, <1>4, <1>5, <1>8 DEF RlpList
<1> QED BY <1>15, <1>16

\* What from_json lets through.
Fits(tx) ==
  /\ Accepted(tx) /\ tx.to \in Seq(Byte) /\ tx.data \in Seq(Byte)
  /\ Len(tx.data) + 400 <= MAX_U64

\* Three more fields.
Three(f, a, b, c) == Append(Append(Append(f, a), b), c)

Extends(g, f, a, b, c, S) ==
  /\ g \in Seq(S) /\ Len(g) = Len(f) + 3
  /\ \A k \in 1..Len(f) : g[k] = f[k]
  /\ g[Len(f) + 1] = a /\ g[Len(f) + 2] = b /\ g[Len(f) + 3] = c
  /\ SubSeq(g, 1, Len(f)) = f

LEMMA ThreeMore ==
  ASSUME NEW S, NEW f \in Seq(S), NEW a \in S, NEW b \in S, NEW c \in S
  PROVE  Extends(Three(f, a, b, c), f, a, b, c, S)
<1>1. PICK n \in Nat : n = Len(f)
  OBVIOUS
<1>2. PICK x : x = Append(f, a)
  OBVIOUS
<1>3. PICK y : y = Append(x, b)
  OBVIOUS
<1>4. PICK z : z = Append(y, c)
  OBVIOUS
<1>5. x \in Seq(S) /\ Len(x) = n + 1 /\ x[n + 1] = a /\ \A k \in 1..n : x[k] = f[k]
  BY <1>1, <1>2, AppendProperties
<1>6. y \in Seq(S) /\ Len(y) = n + 2 /\ y[n + 2] = b /\ \A k \in 1..(n + 1) : y[k] = x[k]
  BY <1>3, <1>5, AppendProperties
<1>7. z \in Seq(S) /\ Len(z) = n + 3 /\ z[n + 3] = c /\ \A k \in 1..(n + 2) : z[k] = y[k]
  BY <1>4, <1>6, AppendProperties
<1>8. z[n + 1] = a /\ z[n + 2] = b /\ \A k \in 1..n : z[k] = f[k]
  <2>1. /\ n + 1 \in 1..(n + 1) /\ n + 1 \in 1..(n + 2) /\ n + 2 \in 1..(n + 2)
        /\ \A k \in 1..n : k \in 1..(n + 1) /\ k \in 1..(n + 2)
    OBVIOUS
  <2> QED BY <1>5, <1>6, <1>7, <2>1, Zenon
<1>9. SubSeq(z, 1, n) = f
  <2>1. \A i \in 1..n : i \in 1..Len(z)
    BY <1>7
  <2>2. \A i \in 1..n : z[i] \in S
    BY <1>7, <2>1, ElementOfSeq
  <2>3. PICK t : t = SubSeq(z, 1, n)
    OBVIOUS
  <2>4. /\ t \in Seq(S) /\ Len(t) = IF 1 <= n THEN n - 1 + 1 ELSE 0
        /\ \A i \in 1..(n - 1 + 1) : t[i] = z[1 + i - 1]
    BY <2>2, <2>3, SubSeqProperties
  <2>5. Len(t) = n /\ \A i \in 1..n : t[i] = z[i]
    BY <2>4
  <2>6. t = f
    BY <1>1, <1>8, <2>4, <2>5, SeqEqual
  <2> QED BY <2>3, <2>6
<1>10. z = Three(f, a, b, c)
  BY <1>2, <1>3, <1>4 DEF Three
<1>11. Extends(z, f, a, b, c, S)
  BY <1>1, <1>7, <1>8, <1>9, Zenon DEF Extends
<1> QED BY <1>10, <1>11

\* The fields of a transaction.
FieldsOf(tx) ==
  Three(Three(Three(<<>>, BigEndian[tx.chain_id], BigEndian[tx.nonce],
                    BigEndian[tx.max_priority_fee_per_gas]),
              BigEndian[tx.max_fee_per_gas], BigEndian[tx.gas_limit], tx.to),
        BigEndian[tx.value], tx.data, <<>>)

\* A number and its field.
LEMMA UintWrites ==
  ASSUME NEW n \in 0..MAX_U128, 16 <= MAX_U64
  PROVE  BigEndian[n] \in Seq(Byte) /\ Writes(RlpUint(n), BigEndian[n]) /\ Len(RlpUint(n)) <= 25
<1>1. PICK b : b = BigEndian[n]
  OBVIOUS
<1>2. b \in Seq(Byte) /\ Len(b) <= 16
  BY <1>1, BigEndianType, Widths
<1>3. PICK k \in Nat : k = Len(b) /\ k <= 16
  BY <1>2
<1>4. Len(b) <= MAX_U64
  BY <1>3, EvmTxAssumption
<1>5. Writes(RlpBytes(b), b) /\ Len(RlpBytes(b)) <= Len(b) + 9
  BY <1>2, <1>4, StringWrites
<1>6. PICK r \in Nat : r = Len(RlpBytes(b))
  BY <1>5 DEF Writes
<1>7. Len(RlpBytes(b)) <= 25
  BY <1>3, <1>5, <1>6
<1> QED BY <1>1, <1>2, <1>5, <1>7 DEF RlpUint

\* Nine fields, of 197 bytes beside the data.
LEMMA FieldsWritten ==
  ASSUME NEW tx, Fits(tx)
  PROVE  Written(RlpFields(tx), FieldsOf(tx), Len(tx.data) + 197)
<1>1. /\ MAX_U64 \in Nat /\ MAX_U128 \in Nat /\ MAX_U64 <= MAX_U128 /\ Len(tx.data) \in Nat
      /\ tx.to \in Seq(Byte) /\ tx.data \in Seq(Byte) /\ Len(tx.data) + 400 <= MAX_U64
  BY EvmTxAssumption DEF Fits
<1>2. PICK n \in Nat : n = Len(tx.data) /\ n + 400 <= MAX_U64
  BY <1>1
<1>3. /\ {tx.chain_id, tx.nonce, tx.max_priority_fee_per_gas, tx.max_fee_per_gas, tx.gas_limit,
          tx.value} \subseteq 0..MAX_U128
      /\ 16 <= MAX_U64 /\ Len(tx.to) <= 20 /\ Len(tx.to) <= MAX_U64 /\ Len(tx.data) <= MAX_U64
  <2>1. /\ {tx.chain_id, tx.nonce, tx.gas_limit} \subseteq 0..MAX_U64
        /\ {tx.max_priority_fee_per_gas, tx.max_fee_per_gas, tx.value} \subseteq 0..MAX_U128
        /\ Len(tx.to) \in {0, 20}
    BY DEF Fits, Accepted
  <2>2. 0..MAX_U64 \subseteq 0..MAX_U128
    BY <1>1
  <2>3. Len(tx.to) <= 20 /\ Len(tx.to) <= MAX_U64 /\ 16 <= MAX_U64 /\ Len(tx.data) <= MAX_U64
    <3>1. PICK k \in {0, 20} : k = Len(tx.to)
      BY <2>1
    <3>2. k <= 20 /\ k <= MAX_U64 /\ 16 <= MAX_U64 /\ n <= MAX_U64
      BY <1>1, <1>2
    <3> QED BY <1>2, <3>1, <3>2, Zenon
  <2> QED BY <2>1, <2>2, <2>3
<1>4. PICK c1, c2, c3, c4, c5, c7 :
         /\ c1 = RlpUint(tx.chain_id) /\ c2 = RlpUint(tx.nonce)
         /\ c3 = RlpUint(tx.max_priority_fee_per_gas) /\ c4 = RlpUint(tx.max_fee_per_gas)
         /\ c5 = RlpUint(tx.gas_limit) /\ c7 = RlpUint(tx.value)
  OBVIOUS
<1>5. PICK d1, d2, d3, d4, d5, d7 :
         /\ d1 = BigEndian[tx.chain_id] /\ d2 = BigEndian[tx.nonce]
         /\ d3 = BigEndian[tx.max_priority_fee_per_gas] /\ d4 = BigEndian[tx.max_fee_per_gas]
         /\ d5 = BigEndian[tx.gas_limit] /\ d7 = BigEndian[tx.value]
  OBVIOUS
<1>6. PICK c6, c8, c9, d6, d8 :
         /\ c6 = RlpBytes(tx.to) /\ c8 = RlpBytes(tx.data) /\ c9 = RlpList(<<>>)
         /\ d6 = tx.to /\ d8 = tx.data
  OBVIOUS
<1>7. /\ d1 \in Seq(Byte) /\ Writes(c1, d1) /\ Len(c1) <= 25
      /\ d2 \in Seq(Byte) /\ Writes(c2, d2) /\ Len(c2) <= 25
      /\ d3 \in Seq(Byte) /\ Writes(c3, d3) /\ Len(c3) <= 25
      /\ d4 \in Seq(Byte) /\ Writes(c4, d4) /\ Len(c4) <= 25
      /\ d5 \in Seq(Byte) /\ Writes(c5, d5) /\ Len(c5) <= 25
      /\ d7 \in Seq(Byte) /\ Writes(c7, d7) /\ Len(c7) <= 25
  BY <1>3, <1>4, <1>5, UintWrites
<1>8. /\ d6 \in Seq(Byte) /\ Writes(c6, d6) /\ Len(c6) <= 29
      /\ d8 \in Seq(Byte) /\ Writes(c8, d8) /\ Len(c8) <= n + 9
      /\ <<>> \in Seq(Byte) /\ Writes(c9, <<>>) /\ Len(c9) <= 9
  <2>1. Writes(c6, d6) /\ Len(c6) <= Len(d6) + 9
    BY <1>1, <1>3, <1>6, StringWrites
  <2>2. Len(c6) \in Nat /\ Len(d6) \in Nat /\ Len(d6) <= 20
    BY <1>1, <1>3, <1>6, <2>1 DEF Writes
  <2>3. Len(c6) <= 29
    BY <2>1, <2>2
  <2>4. Writes(c8, d8) /\ Len(c8) <= n + 9
    BY <1>1, <1>2, <1>3, <1>6, StringWrites
  <2> QED BY <1>1, <1>6, <2>1, <2>3, <2>4, EmptyListWrites
<1> DEFINE p1 == <<>> \o c1
           p2 == p1 \o c2
           p3 == p2 \o c3
           p4 == p3 \o c4
           p5 == p4 \o c5
           p6 == p5 \o c6
           p7 == p6 \o c7
           p8 == p7 \o c8
           f1 == Append(<<>>, d1)
           f2 == Append(f1, d2)
           f3 == Append(f2, d3)
           f4 == Append(f3, d4)
           f5 == Append(f4, d5)
           f6 == Append(f5, d6)
           f7 == Append(f6, d7)
           f8 == Append(f7, d8)
<1>9. Written(p1, f1, 25)
  <2>1. Written(p1, f1, 0 + 25)
    BY <1>7, NothingWritten, OneMoreWritten
  <2> QED BY <2>1
<1>10. Written(p2, f2, 25 + 25)
  <2> HIDE DEF p1, f1
  <2> QED BY <1>7, <1>9, OneMoreWritten
<1>11. Written(p3, f3, 25 + 25 + 25)
  <2> HIDE DEF p2, f2
  <2> QED BY <1>7, <1>10, OneMoreWritten
<1>12. Written(p4, f4, 25 + 25 + 25 + 25)
  <2> HIDE DEF p3, f3
  <2> QED BY <1>7, <1>11, OneMoreWritten
<1>13. Written(p5, f5, 125)
  <2> HIDE DEF p4, f4
  <2>1. Written(p5, f5, 25 + 25 + 25 + 25 + 25)
    BY <1>7, <1>12, OneMoreWritten
  <2> QED BY <2>1
<1>14. Written(p6, f6, 125 + 29)
  <2> HIDE DEF p5, f5
  <2> QED BY <1>8, <1>13, OneMoreWritten
<1>15. Written(p7, f7, 125 + 29 + 25)
  <2> HIDE DEF p6, f6
  <2> QED BY <1>7, <1>14, OneMoreWritten
<1>16. Written(p8, f8, 125 + 29 + 25 + (n + 9))
  <2>1. n + 9 \in Nat
    OBVIOUS
  <2> HIDE DEF p7, f7
  <2> QED BY <1>8, <1>15, <2>1, OneMoreWritten
<1>17. Written(p8 \o c9, Append(f8, <<>>), n + 197)
  <2> HIDE DEF p8, f8
  <2>1. Written(p8 \o c9, Append(f8, <<>>), 125 + 29 + 25 + (n + 9) + 9)
    BY <1>8, <1>16, OneMoreWritten
  <2>2. 125 + 29 + 25 + (n + 9) + 9 = n + 197
    OBVIOUS
  <2> QED BY <2>1, <2>2
<1>18. RlpFields(tx) = p8 \o c9
  <2>1. p1 = c1
    BY <1>7, ConcatEmptySeq DEF Writes
  <2> QED BY <1>4, <1>6, <2>1 DEF RlpFields
<1>19. FieldsOf(tx) = Append(f8, <<>>)
  BY <1>5, <1>6 DEF FieldsOf, Three
<1> QED BY <1>2, <1>17, <1>18, <1>19

LEMMA FieldsOfAre ==
  ASSUME NEW tx, Fits(tx)
  PROVE  LET f == FieldsOf(tx)
         IN  /\ f \in Seq(Seq(Byte)) /\ Len(f) = 9
             /\ f[1] = BigEndian[tx.chain_id] /\ f[2] = BigEndian[tx.nonce]
             /\ f[3] = BigEndian[tx.max_priority_fee_per_gas]
             /\ f[4] = BigEndian[tx.max_fee_per_gas] /\ f[5] = BigEndian[tx.gas_limit]
             /\ f[6] = tx.to /\ f[7] = BigEndian[tx.value] /\ f[8] = tx.data
<1>1. /\ {tx.chain_id, tx.nonce, tx.max_priority_fee_per_gas, tx.max_fee_per_gas, tx.gas_limit,
          tx.value} \subseteq 0..MAX_U128
      /\ tx.to \in Seq(Byte) /\ tx.data \in Seq(Byte)
  <2>1. /\ {tx.chain_id, tx.nonce, tx.gas_limit} \subseteq 0..MAX_U64
        /\ {tx.max_priority_fee_per_gas, tx.max_fee_per_gas, tx.value} \subseteq 0..MAX_U128
        /\ tx.to \in Seq(Byte) /\ tx.data \in Seq(Byte)
    BY Zenon DEF Fits, Accepted
  <2>2. 0..MAX_U64 \subseteq 0..MAX_U128
    BY Widths
  <2> QED BY <2>1, <2>2
<1>2. PICK d1, d2, d3, d4, d5, d6, d7, d8 :
         /\ d1 = BigEndian[tx.chain_id] /\ d2 = BigEndian[tx.nonce]
         /\ d3 = BigEndian[tx.max_priority_fee_per_gas] /\ d4 = BigEndian[tx.max_fee_per_gas]
         /\ d5 = BigEndian[tx.gas_limit] /\ d6 = tx.to /\ d7 = BigEndian[tx.value] /\ d8 = tx.data
  OBVIOUS
<1>3. PICK S : S = Seq(Byte)
  OBVIOUS
<1>4. /\ d1 \in S /\ d2 \in S /\ d3 \in S /\ d4 \in S /\ d5 \in S /\ d6 \in S /\ d7 \in S
      /\ d8 \in S /\ <<>> \in S
  <2>1. \A n \in 0..MAX_U128 : BigEndian[n] \in S
    BY <1>3, BigEndianType
  <2>2. <<>> \in S
    BY <1>3
  <2> QED BY <1>1, <1>2, <1>3, <2>1, <2>2
<1>5. PICK g : g = Three(<<>>, d1, d2, d3)
  OBVIOUS
<1>6. PICK h : h = Three(g, d4, d5, d6)
  OBVIOUS
<1>7. PICK f : f = Three(h, d7, d8, <<>>)
  OBVIOUS
<1>8. g \in Seq(S) /\ Len(g) = 3 /\ g[1] = d1 /\ g[2] = d2 /\ g[3] = d3
  <2>1. <<>> \in Seq(S) /\ Len(<<>>) = 0
    OBVIOUS
  <2>2. Extends(g, <<>>, d1, d2, d3, S)
    BY <1>4, <1>5, <2>1, ThreeMore
  <2> QED BY <2>1, <2>2 DEF Extends
<1>9. /\ h \in Seq(S) /\ Len(h) = 6 /\ h[1] = d1 /\ h[2] = d2 /\ h[3] = d3
      /\ h[4] = d4 /\ h[5] = d5 /\ h[6] = d6
  <2>1. Extends(h, g, d4, d5, d6, S)
    BY <1>4, <1>6, <1>8, ThreeMore
  <2> QED BY <1>8, <2>1 DEF Extends
<1>10. /\ f \in Seq(S) /\ Len(f) = 9 /\ f[1] = d1 /\ f[2] = d2 /\ f[3] = d3
       /\ f[4] = d4 /\ f[5] = d5 /\ f[6] = d6 /\ f[7] = d7 /\ f[8] = d8
  <2>1. Extends(f, h, d7, d8, <<>>, S)
    BY <1>4, <1>7, <1>9, ThreeMore
  <2> QED BY <1>9, <2>1 DEF Extends
<1>11. f = FieldsOf(tx)
  BY <1>2, <1>5, <1>6, <1>7 DEF FieldsOf
<1> QED BY <1>2, <1>3, <1>10, <1>11

-----------------------------------------------------------------------------
(* Words and signatures.                                                    *)

LEMMA ZerosAre ==
  /\ \A n \in Nat : /\ Zeros(n) \in Seq(Byte) /\ Len(Zeros(n)) = n
                    /\ \A k \in 1..n : Zeros(n)[k] = 0
  /\ \A m, n \in Nat : Zeros(m) \o Zeros(n) = Zeros(m + n)
<1>1. ASSUME NEW n \in Nat
      PROVE  /\ Zeros(n) \in Seq(Byte) /\ Len(Zeros(n)) = n
             /\ \A k \in 1..n : Zeros(n)[k] = 0
  BY DEF Zeros, Byte
<1>2. ASSUME NEW m \in Nat, NEW n \in Nat PROVE Zeros(m) \o Zeros(n) = Zeros(m + n)
  <2>1. PICK a, b, c : a = Zeros(m) /\ b = Zeros(n) /\ c = Zeros(m + n)
    OBVIOUS
  <2>2. m + n \in Nat
    OBVIOUS
  <2>3. /\ a \in Seq(Byte) /\ Len(a) = m /\ (\A k \in 1..m : a[k] = 0)
        /\ b \in Seq(Byte) /\ Len(b) = n /\ (\A k \in 1..n : b[k] = 0)
        /\ c \in Seq(Byte) /\ Len(c) = m + n /\ (\A k \in 1..(m + n) : c[k] = 0)
    BY <1>1, <2>1, <2>2
  <2>4. /\ a \o b \in Seq(Byte) /\ Len(a \o b) = m + n
        /\ (\A k \in 1..m : (a \o b)[k] = a[k])
        /\ (\A k \in 1..n : (a \o b)[m + k] = b[k])
    BY <2>3, Parts
  <2>5. ASSUME NEW k \in 1..(m + n) PROVE (a \o b)[k] = 0
    <3>1. CASE k \in 1..m
      BY <2>3, <2>4, <3>1
    <3>2. CASE k \notin 1..m
      <4>1. k - m \in 1..n /\ m + (k - m) = k
        BY <3>2
      <4> QED BY <2>3, <2>4, <4>1
    <3> QED BY <3>1, <3>2
  <2>6. a \o b = c
    BY <2>3, <2>4, <2>5, SeqEqual
  <2> QED BY <2>1, <2>6
<1> QED BY <1>1, <1>2

\* A number without its zeros is the same in as many bytes, and begins with none.
LEMMA Stripped ==
  ASSUME NEW s \in Seq(Byte)
  PROVE  LET t == StripLeadingZeros(s)
         IN  /\ t \in Seq(Byte) /\ Len(t) <= Len(s)
             /\ Read(t) >= 0 /\ Padded(t, Len(s)) = s
<1>0. PICK n \in Nat : n = Len(s)
  OBVIOUS
<1> DEFINE ones == {i \in DOMAIN s : s[i] # 0}
<1>1. DOMAIN s = 1..n
  BY <1>0
<1>2. CASE ones = {}
  <2>1. StripLeadingZeros(s) = <<>>
    BY <1>2 DEF StripLeadingZeros
  <2>2. Read(<<>>) = 0
    BY NumberStep DEF Read
  <2>3. Zeros(n) \in Seq(Byte) /\ Len(Zeros(n)) = n /\ \A k \in 1..n : Zeros(n)[k] = 0
    BY ZerosAre
  <2>4. \A k \in 1..n : s[k] = 0
    BY <1>1, <1>2
  <2>5. Zeros(n) = s
    <3>1. PICK z : z = Zeros(n)
      OBVIOUS
    <3>2. z = s
      BY <1>0, <2>3, <2>4, <3>1, SeqEqual
    <3> QED BY <3>1, <3>2
  <2>6. Len(<<>>) = 0 /\ <<>> \in Seq(Byte) /\ n - 0 = n
    OBVIOUS
  <2>7. Zeros(n) \o <<>> = Zeros(n)
    BY <2>3, ConcatEmptySeq
  <2>8. Padded(<<>>, Len(s)) = s
    BY <1>0, <2>5, <2>6, <2>7 DEF Padded
  <2> QED BY <1>0, <2>1, <2>2, <2>6, <2>8
<1>3. CASE ones # {}
  <2> DEFINE i == CHOOSE j \in ones : \A k \in ones : j <= k
  <2>1. i \in ones /\ \A k \in ones : i <= k
    <3>1. ones \subseteq Nat
      BY <1>1
    <3> HIDE DEF ones
    <3> QED BY <1>3, <3>1, Least
  <2>2. PICK j \in 1..n : j = i /\ s[j] # 0 /\ \A k \in 1..n : s[k] # 0 => j <= k
    BY <1>1, <2>1
  <2>3. PICK t : t = SubSeq(s, j, n)
    OBVIOUS
  <2>4. StripLeadingZeros(s) = t
    BY <1>0, <1>3, <2>2, <2>3 DEF StripLeadingZeros
  <2> HIDE DEF i, ones
  <2>5. \A k \in j..n : s[k] \in Byte
    <3>1. \A k \in j..n : k \in 1..Len(s)
      BY <1>0
    <3> QED BY <3>1, ElementOfSeq
  <2>6. /\ t \in Seq(Byte) /\ Len(t) = n - j + 1
        /\ \A k \in 1..(n - j + 1) : t[k] = s[j + k - 1]
    BY <2>3, <2>5, SubSeqProperties
  <2>7. t[1] = s[j] /\ t # <<>> /\ Len(t) <= n
    <3>1. 1 \in 1..(n - j + 1) /\ j + 1 - 1 = j /\ n - j + 1 # 0 /\ n - j + 1 <= n
      OBVIOUS
    <3>2. Len(<<>>) = 0
      OBVIOUS
    <3> QED BY <2>6, <3>1, <3>2
  <2>8. Read(t) >= 0
    BY <2>2, <2>6, <2>7, NumberStep DEF Read
  <2>9. PICK z : z = Zeros(j - 1)
    OBVIOUS
  <2>10. z \in Seq(Byte) /\ Len(z) = j - 1 /\ \A k \in 1..(j - 1) : z[k] = 0
    <3>1. j - 1 \in Nat
      OBVIOUS
    <3> QED BY <2>9, <3>1, ZerosAre
  <2>11. /\ z \o t \in Seq(Byte) /\ Len(z \o t) = Len(z) + Len(t)
         /\ (\A k \in 1..Len(z) : (z \o t)[k] = z[k])
         /\ (\A k \in 1..Len(t) : (z \o t)[Len(z) + k] = t[k])
    BY <2>6, <2>10, Parts
  <2>12. ASSUME NEW k \in 1..n PROVE (z \o t)[k] = s[k]
    <3>1. CASE k < j
      <4>1. k \in 1..(j - 1) /\ s[k] = 0
        BY <2>2, <3>1
      <4> QED BY <2>10, <2>11, <4>1
    <3>2. CASE k >= j
      <4>1. PICK l \in 1..(n - j + 1) : l = k - j + 1
        BY <3>2
      <4>2. (j - 1) + l = k /\ j + l - 1 = k
        BY <4>1
      <4>3. l \in 1..Len(t) /\ (z \o t)[(j - 1) + l] = t[l]
        BY <2>6, <2>10, <2>11
      <4>4. t[l] = s[j + l - 1]
        BY <2>6
      <4> QED BY <4>2, <4>3, <4>4, Zenon
    <3>3. k < j \/ k >= j
      OBVIOUS
    <3> QED BY <3>1, <3>2, <3>3, Zenon
  <2>13. z \o t = s
    <3>1. PICK w : w = z \o t
      OBVIOUS
    <3>2. w \in Seq(Byte) /\ Len(w) = Len(s) /\ \A k \in 1..Len(w) : w[k] = s[k]
      <4>1. (j - 1) + (n - j + 1) = n
        OBVIOUS
      <4> QED BY <1>0, <2>6, <2>10, <2>11, <2>12, <3>1, <4>1
    <3>3. w = s
      BY <3>2, SeqEqual
    <3> QED BY <3>1, <3>3
  <2>14. Padded(t, Len(s)) = s
    <3>1. n - (n - j + 1) = j - 1
      OBVIOUS
    <3> QED BY <1>0, <2>6, <2>9, <2>13, <3>1 DEF Padded
  <2> QED BY <1>0, <2>4, <2>6, <2>7, <2>8, <2>14
<1> QED BY <1>2, <1>3

\* Two texts in one, and three.
LEMMA Joined ==
  ASSUME NEW p \in Seq(Byte), NEW c \in Seq(Byte), NEW m \in Nat, NEW n \in Nat,
         Len(p) = m, Len(c) = n
  PROVE  p \o c \in Seq(Byte) /\ Len(p \o c) = m + n
BY Parts

LEMMA Regrouped ==
  ASSUME NEW a \in Seq(Byte), NEW b \in Seq(Byte), NEW c \in Seq(Byte)
  PROVE  (a \o b) \o c = a \o (b \o c)
<1>1. PICK S : S = Byte
  OBVIOUS
<1>2. a \in Seq(S) /\ b \in Seq(S) /\ c \in Seq(S)
  BY <1>1
<1> QED BY <1>2, ConcatAssociative

\* Behind a selector of four bytes there are two words of 32.
Words(data, to, amount) ==
  /\ data \in Seq(Byte) /\ Len(data) = 68
  /\ SubSeq(data, 5, 36) = Padded(to, 32)
  /\ SubSeq(data, 37, 68) = Padded(BigEndian[amount], 32)

\* So is the calldata of a token transfer.
LEMMA CalldataIs ==
  ASSUME NEW to \in Seq(Byte), NEW amount
  PROVE  Len(to) = 20 /\ amount \in 0..MAX_U128 => Words(TransferCalldata(to, amount), to, amount)
<1>0. SUFFICES ASSUME Len(to) = 20, amount \in 0..MAX_U128
               PROVE  Words(TransferCalldata(to, amount), to, amount)
  OBVIOUS
<1>1. PICK b : b = BigEndian[amount]
  OBVIOUS
<1>2. b \in Seq(Byte) /\ Len(b) <= 16
  BY <1>0, <1>1, BigEndianType, Widths
<1>3. PICK n \in 0..16 : n = Len(b)
  <2>1. Len(b) \in Nat
    BY <1>2
  <2>2. PICK k \in Nat : k = Len(b)
    BY <2>1
  <2>3. k <= 16
    BY <1>2, <2>2
  <2>4. k \in 0..16
    BY <2>3
  <2> QED BY <2>2, <2>4
<1>4. PICK sel : sel = <<169, 5, 156, 187>>
  OBVIOUS
<1>5. sel \in Seq(Byte) /\ Len(sel) = 4
  BY <1>4 DEF Byte
<1>6. PICK k, l, m, o \in Nat : k = 12 /\ l = 16 /\ m = 16 - n /\ o = n
  <2>1. 16 - n \in Nat /\ 12 \in Nat /\ 16 \in Nat /\ n \in Nat
    OBVIOUS
  <2> QED BY <2>1
<1>7. PICK x, y, z : x = Zeros(k) /\ y = Zeros(l) /\ z = Zeros(m)
  OBVIOUS
<1>8. Len(to) = 20
  BY <1>0
<1>9. x \in Seq(Byte) /\ Len(x) = k
  BY <1>7, ZerosAre
<1>10. y \in Seq(Byte) /\ Len(y) = l
  BY <1>7, ZerosAre
<1>11. z \in Seq(Byte) /\ Len(z) = m
  BY <1>7, ZerosAre
<1>12. b \in Seq(Byte) /\ Len(b) = o
  BY <1>2, <1>3, <1>6
<1>13. PICK v, w : v = x \o to /\ w = y \o (z \o b)
  OBVIOUS
<1>14. v \in Seq(Byte) /\ Len(v) = 32
  <2>1. PICK i \in Nat : i = 20
    OBVIOUS
  <2>2. k + i = 32
    BY <1>6, <2>1
  <2>3. Len(to) = i
    BY <1>8, <2>1
  <2>4. x \o to \in Seq(Byte) /\ Len(x \o to) = k + i
    BY <1>9, <2>3, Joined
  <2> QED BY <1>13, <2>2, <2>4
<1>15. w \in Seq(Byte) /\ Len(w) = 32
  <2>1. m + o \in Nat /\ l + (m + o) = 32
    BY <1>6
  <2>2. PICK a \in Nat : a = m + o
    BY <2>1
  <2>3. PICK zb : zb = z \o b
    OBVIOUS
  <2>4. z \o b \in Seq(Byte) /\ Len(z \o b) = m + o
    BY <1>11, <1>12, Joined
  <2>5. zb \in Seq(Byte) /\ Len(zb) = a
    BY <2>2, <2>3, <2>4, Zenon
  <2>6. y \o zb \in Seq(Byte) /\ Len(y \o zb) = l + a
    BY <1>10, <2>5, Joined
  <2> QED BY <1>13, <2>1, <2>2, <2>3, <2>6
<1>16. PICK data : data = (sel \o v) \o w
  OBVIOUS
<1>17. /\ sel \o v \in Seq(Byte) /\ Len(sel \o v) = 36
       /\ data \in Seq(Byte) /\ Len(data) = 68
  <2>1. PICK i, j, f \in Nat : i = 4 /\ j = 32 /\ f = 36
    OBVIOUS
  <2>2. i + j = f /\ f + j = 68
    BY <2>1
  <2>3. Len(sel) = i /\ Len(v) = j /\ Len(w) = j
    BY <1>5, <1>14, <1>15, <2>1
  <2>4. PICK h : h = sel \o v
    OBVIOUS
  <2>5. sel \o v \in Seq(Byte) /\ Len(sel \o v) = i + j
    BY <1>5, <1>14, <2>3, Joined
  <2>6. h \in Seq(Byte) /\ Len(h) = f
    BY <2>2, <2>4, <2>5, Zenon
  <2>7. h \o w \in Seq(Byte) /\ Len(h \o w) = f + j
    BY <1>15, <2>3, <2>6, Joined
  <2> QED BY <1>16, <2>1, <2>2, <2>4, <2>6, <2>7
<1>18. TransferCalldata(to, amount) = data
  <2>1. Padded(b, 16) = z \o b
    BY <1>3, <1>6, <1>7 DEF Padded
  <2>2. TransferCalldata(to, amount) = (((sel \o x) \o to) \o y) \o (z \o b)
    <3>1. Zeros(12) = x /\ Zeros(16) = y
      BY <1>6, <1>7
    <3> QED BY <1>1, <1>4, <2>1, <3>1 DEF TransferCalldata
  <2>3. PICK u : u = (sel \o x) \o to
    OBVIOUS
  <2>4. u = sel \o v
    <3>1. (sel \o x) \o to = sel \o (x \o to)
      BY <1>5, <1>9, Regrouped, Zenon
    <3> QED BY <1>13, <2>3, <3>1, Zenon
  <2>5. u \in Seq(Byte) /\ z \o b \in Seq(Byte)
    BY <1>11, <1>12, <1>17, <2>4, Parts
  <2>6. (u \o y) \o (z \o b) = u \o w
    <3>1. (u \o y) \o (z \o b) = u \o (y \o (z \o b))
      BY <1>10, <2>5, Regrouped
    <3> QED BY <1>13, <3>1, Zenon
  <2> QED BY <1>16, <2>2, <2>3, <2>4, <2>6
<1>19. Padded(to, 32) = v
  BY <1>0, <1>6, <1>7, <1>13 DEF Padded
<1>20. Padded(b, 32) = w
  <2>1. 32 - n = l + m
    BY <1>6
  <2>2. Zeros(32 - n) = y \o z
    <3>1. Zeros(l) \o Zeros(m) = Zeros(l + m)
      BY ZerosAre
    <3>2. Zeros(32 - n) = Zeros(l + m)
      BY <2>1
    <3> QED BY <1>7, <3>1, <3>2, Zenon
  <2>3. (y \o z) \o b = w
    <3>1. (y \o z) \o b = y \o (z \o b)
      BY <1>10, <1>11, <1>12, Regrouped, Zenon
    <3> QED BY <1>13, <3>1, Zenon
  <2> QED BY <1>3, <2>2, <2>3 DEF Padded
<1>21. Stands(v, data, 4) /\ Stands(w, data, 36)
  <2>1. PICK h : h = sel \o v
    OBVIOUS
  <2>2. PICK i \in Nat : i = 0
    OBVIOUS
  <2>3. h \in Seq(Byte) /\ Len(h) = 36 /\ data \in Seq(Byte) /\ data = h \o w
    BY <1>16, <1>17, <2>1
  <2>4. Stands(h \o w, data, i)
    <3>1. Stands(data, data, i)
      BY <2>2, <2>3 DEF Stands
    <3> QED BY <2>3, <3>1
  <2>5. Stands(h, data, i) /\ Stands(w, data, i + Len(h))
    BY <1>15, <2>3, <2>4, StandApart
  <2>6. Stands(sel \o v, data, i)
    BY <2>1, <2>5
  <2>7. Stands(v, data, i + Len(sel))
    BY <1>5, <1>14, <2>3, <2>6, StandApart
  <2>8. i + 4 = 4 /\ i + 36 = 36
    BY <2>2
  <2> QED BY <1>5, <2>3, <2>5, <2>7, <2>8
<1>22. SubSeq(data, 5, 36) = v /\ SubSeq(data, 37, 68) = w
  <2>1. 4 \in Nat /\ 36 \in Nat
    OBVIOUS
  <2>2. PICK i, j \in Nat : i = 4 /\ j = 36
    BY <2>1
  <2>3. data \in Seq(Byte) /\ v \in Seq(Byte) /\ w \in Seq(Byte)
    BY <1>14, <1>15, <1>17
  <2>4. Stands(v, data, i) /\ Stands(w, data, j)
    BY <1>21, <2>2
  <2>5. SubSeq(data, 4 + 1, 4 + Len(v)) = v
    <3>1. SubSeq(data, i + 1, i + Len(v)) = v
      BY <2>3, <2>4, Cut
    <3> QED BY <2>2, <3>1
  <2>6. SubSeq(data, 36 + 1, 36 + Len(w)) = w
    <3>1. SubSeq(data, j + 1, j + Len(w)) = w
      BY <2>3, <2>4, Cut
    <3> QED BY <2>2, <3>1
  <2>7. 4 + 1 = 5 /\ 4 + 32 = 36 /\ 36 + 1 = 37 /\ 36 + 32 = 68
    OBVIOUS
  <2> QED BY <1>14, <1>15, <2>5, <2>6, <2>7
<1> QED BY <1>1, <1>17, <1>18, <1>19, <1>20, <1>22, Zenon DEF Words

-----------------------------------------------------------------------------
(* What a node reads.                                                       *)

\* The transaction keeps the numbers of what was asked for.
LEMMA TransactionIs ==
  ASSUME NEW p \in Parameters, Encodes(p), Accepted(Transaction(p))
  PROVE  LET tx == Transaction(p)
         IN  /\ Fits(tx)
             /\ tx.chain_id = p.chain_id /\ tx.nonce = p.nonce
             /\ tx.max_priority_fee_per_gas = p.max_priority_fee_per_gas
             /\ tx.max_fee_per_gas = p.max_fee_per_gas /\ tx.gas_limit = p.gas_limit
             /\ p.token = <<>> => tx = p
             /\ p.token # <<>> => /\ tx.to = p.token /\ tx.value = 0
                                  /\ tx.data = TransferCalldata(p.to, p.value)
<1>1. /\ p.to \in Seq(Byte) /\ p.data \in Seq(Byte) /\ p.token \in Seq(Byte)
      /\ Len(p.data) + 500 <= MAX_U64 /\ MAX_U64 \in Nat
  BY EvmTxAssumption
<1>2. CASE p.token = <<>>
  <2>1. Transaction(p) = p
    BY <1>2 DEF Transaction
  <2>2. Len(p.data) + 400 <= MAX_U64
    BY <1>1
  <2>3. Fits(p)
    BY <1>1, <2>1, <2>2 DEF Fits
  <2> QED BY <1>2, <2>1, <2>3
<1>3. CASE p.token # <<>>
  <2>1. PICK data : data = TransferCalldata(p.to, p.value)
    OBVIOUS
  <2>2. data \in Seq(Byte) /\ Len(data) = 68
    <3>1. Len(p.to) = 20 /\ p.value \in 0..MAX_U128
      BY <1>3, Zenon DEF Encodes
    <3>2. Words(TransferCalldata(p.to, p.value), p.to, p.value)
      BY <1>1, <3>1, CalldataIs, Zenon
    <3> QED BY <2>1, <3>2, Zenon DEF Words
  <2>3. PICK tx : tx = Transaction(p)
    OBVIOUS
  <2>4. tx = [p EXCEPT !.to = p.token, !.value = 0, !.data = data]
    BY <1>3, <2>1, <2>3 DEF Transaction
  <2>5. p = [chain_id |-> p.chain_id, nonce |-> p.nonce,
             max_priority_fee_per_gas |-> p.max_priority_fee_per_gas,
             max_fee_per_gas |-> p.max_fee_per_gas, gas_limit |-> p.gas_limit,
             to |-> p.to, value |-> p.value, data |-> p.data, token |-> p.token]
    BY EvmTxAssumption
  <2>6. tx = [chain_id |-> p.chain_id, nonce |-> p.nonce,
              max_priority_fee_per_gas |-> p.max_priority_fee_per_gas,
              max_fee_per_gas |-> p.max_fee_per_gas, gas_limit |-> p.gas_limit,
              to |-> p.token, value |-> 0, data |-> data, token |-> p.token]
    BY <2>4, <2>5
  <2>7. /\ tx.chain_id = p.chain_id /\ tx.nonce = p.nonce
        /\ tx.max_priority_fee_per_gas = p.max_priority_fee_per_gas
        /\ tx.max_fee_per_gas = p.max_fee_per_gas /\ tx.gas_limit = p.gas_limit
        /\ tx.to = p.token /\ tx.value = 0 /\ tx.data = data
    BY <2>6
  <2>8. Len(data) + 400 <= MAX_U64
    BY <1>1, <2>2
  <2>9. Fits(tx)
    <3>1. Accepted(tx)
      BY <2>3
    <3>2. tx.to \in Seq(Byte) /\ tx.data \in Seq(Byte) /\ Len(tx.data) = Len(data)
      BY <1>1, <2>2, <2>7
    <3> QED BY <2>8, <3>1, <3>2 DEF Fits
  <2> QED BY <1>3, <2>1, <2>3, <2>7, <2>9
<1> QED BY <1>2, <1>3

\* The three fields that a signature adds.
LEMMA SignedWritten ==
  ASSUME NEW tx, Fits(tx), NEW v \in {0, 1}, NEW r \in Seq(Byte), NEW s \in Seq(Byte),
         Len(r) <= 32 /\ Len(s) <= 32
  PROVE  Written(RlpFields(tx) \o RlpUint(v) \o RlpBytes(r) \o RlpBytes(s),
                 Three(FieldsOf(tx), BigEndian[v], r, s), Len(tx.data) + 304)
<1>1. PICK n \in Nat : n = Len(tx.data)
  BY DEF Fits
<1>2. n + 400 <= MAX_U64 /\ MAX_U64 \in Nat /\ MAX_U128 \in Nat /\ MAX_U64 <= MAX_U128
  BY <1>1, EvmTxAssumption DEF Fits
<1>3. 16 <= MAX_U64 /\ v \in 0..MAX_U128
  BY <1>2
<1>4. PICK p, f : p = RlpFields(tx) /\ f = FieldsOf(tx)
  OBVIOUS
<1>5. PICK c1, c2, c3 : c1 = RlpUint(v) /\ c2 = RlpBytes(r) /\ c3 = RlpBytes(s)
  OBVIOUS
<1>6. PICK b : b = BigEndian[v]
  OBVIOUS
<1>7. b \in Seq(Byte) /\ Writes(c1, b) /\ Len(c1) <= 25
  BY <1>3, <1>5, <1>6, UintWrites
<1>8. ASSUME NEW t \in Seq(Byte), Len(t) <= 32
      PROVE  Writes(RlpBytes(t), t) /\ Len(RlpBytes(t)) <= 41
  <2>1. PICK k \in Nat : k = Len(t)
    OBVIOUS
  <2>2. k <= 32
    BY <1>8, <2>1
  <2>3. k <= MAX_U64
    BY <1>2, <2>2
  <2>4. Writes(RlpBytes(t), t) /\ Len(RlpBytes(t)) <= k + 9
    BY <2>1, <2>3, StringWrites
  <2>5. PICK l \in Nat : l = Len(RlpBytes(t))
    BY <2>4 DEF Writes
  <2>6. l <= 41
    <3>1. l <= k + 9
      BY <2>4, <2>5
    <3> QED BY <2>2, <3>1
  <2> QED BY <2>4, <2>5, <2>6
<1>9. Writes(c2, r) /\ Len(c2) <= 41 /\ Writes(c3, s) /\ Len(c3) <= 41
  BY <1>5, <1>8
<1>10. Written(p, f, n + 197)
  BY <1>1, <1>4, FieldsWritten
<1> DEFINE p1 == p \o c1
           p2 == p1 \o c2
           f1 == Append(f, b)
           f2 == Append(f1, r)
<1>11. Written(p1, f1, n + 197 + 25)
  BY <1>7, <1>10, OneMoreWritten
<1>12. Written(p2, f2, n + 197 + 25 + 41)
  <2> HIDE DEF p1, f1
  <2> QED BY <1>9, <1>11, OneMoreWritten
<1>13. Written(p2 \o c3, Append(f2, s), n + 304)
  <2> HIDE DEF p2, f2
  <2>1. Written(p2 \o c3, Append(f2, s), n + 197 + 25 + 41 + 41)
    BY <1>9, <1>12, OneMoreWritten
  <2>2. n + 197 + 25 + 41 + 41 = n + 304
    OBVIOUS
  <2> QED BY <2>1, <2>2
<1>14. p2 \o c3 = RlpFields(tx) \o RlpUint(v) \o RlpBytes(r) \o RlpBytes(s)
  BY <1>4, <1>5
<1>15. Append(f2, s) = Three(FieldsOf(tx), BigEndian[v], r, s)
  BY <1>4, <1>6 DEF Three
<1> QED BY <1>1, <1>13, <1>14, <1>15

\* What the reader finds behind a type.
LEMMA WrittenListIsRead ==
  ASSUME NEW p, NEW f, NEW n, Written(p, f, n), n <= MAX_U64
  PROVE  Fields(<<2>> \o RlpList(p)) = f
<1>1. p \in Seq(Byte) /\ n \in Nat /\ Len(p) <= n /\ MAX_U64 \in Nat
  BY EvmTxAssumption DEF Written
<1>2. PICK k \in Nat : k = Len(p)
  BY <1>1
<1>3. k <= n
  BY <1>1, <1>2
<1>4. k <= MAX_U64
  BY <1>1, <1>3
<1>5. Fields(<<2>> \o RlpList(p)) = Items(p)
  BY <1>1, <1>2, <1>4, FieldsAre
<1>6. Items(p) = f
  BY WrittenIsRead
<1> QED BY <1>5, <1>6

LEMMA SignedIsRead ==
  ASSUME NEW tx, Fits(tx), NEW sig \in Signatures
  PROVE  /\ Fields(SigningPreimage(tx)) = FieldsOf(tx)
         /\ Fields(RawSigned(tx, sig))
              = Three(FieldsOf(tx), BigEndian[sig.v], StripLeadingZeros(sig.r),
                      StripLeadingZeros(sig.s))
<1>1. PICK n \in Nat : n = Len(tx.data)
  BY DEF Fits
<1>2. n + 400 <= MAX_U64 /\ MAX_U64 \in Nat
  BY <1>1, EvmTxAssumption DEF Fits
<1>3. n + 197 <= MAX_U64 /\ n + 304 <= MAX_U64
  BY <1>2
<1>4. Fields(SigningPreimage(tx)) = FieldsOf(tx)
  <2>1. Written(RlpFields(tx), FieldsOf(tx), n + 197)
    BY <1>1, FieldsWritten
  <2>2. Fields(<<2>> \o RlpList(RlpFields(tx))) = FieldsOf(tx)
    BY <1>3, <2>1, WrittenListIsRead
  <2> QED BY <2>2 DEF SigningPreimage
<1>5. sig.v \in {0, 1} /\ sig.r \in Seq(Byte) /\ sig.s \in Seq(Byte)
  BY EvmTxAssumption
<1>6. Len(sig.r) <= 32 /\ Len(sig.s) <= 32
  BY EvmTxAssumption
<1>7. PICK v, r, s :
         /\ v \in {0, 1} /\ v = sig.v
         /\ r = StripLeadingZeros(sig.r) /\ s = StripLeadingZeros(sig.s)
  BY <1>5
<1>8. ASSUME NEW t \in Seq(Byte), Len(t) <= 32
      PROVE  StripLeadingZeros(t) \in Seq(Byte) /\ Len(StripLeadingZeros(t)) <= 32
  <2>1. PICK u : u = StripLeadingZeros(t)
    OBVIOUS
  <2>2. u \in Seq(Byte) /\ Len(u) <= Len(t)
    BY <2>1, Stripped
  <2>3. PICK k \in Nat, l \in Nat : k = Len(u) /\ l = Len(t)
    BY <2>2
  <2>4. k <= l /\ l <= 32
    BY <1>8, <2>2, <2>3
  <2>5. k <= 32
    BY <2>4
  <2> QED BY <2>1, <2>2, <2>3, <2>5
<1>9. r \in Seq(Byte) /\ s \in Seq(Byte) /\ Len(r) <= 32 /\ Len(s) <= 32
  BY <1>5, <1>6, <1>7, <1>8
<1>10. PICK p : p = RlpFields(tx) \o RlpUint(v) \o RlpBytes(r) \o RlpBytes(s)
  OBVIOUS
<1>11. Written(p, Three(FieldsOf(tx), BigEndian[v], r, s), n + 304)
  BY <1>1, <1>7, <1>9, <1>10, SignedWritten
<1>12. Fields(<<2>> \o RlpList(p)) = Three(FieldsOf(tx), BigEndian[v], r, s)
  BY <1>3, <1>11, WrittenListIsRead
<1>13. RawSigned(tx, sig) = <<2>> \o RlpList(p)
  BY <1>7, <1>10 DEF RawSigned
<1> QED BY <1>4, <1>7, <1>12, <1>13

\* What a call has, at each point of it.
SigningInvariant ==
  /\ signing.at \in {"parsed", "signed"} =>
       /\ signing.asked \in Parameters /\ Encodes(signing.asked)
       /\ Accepted(Transaction(signing.asked)) /\ signing.tx = Transaction(signing.asked)
  /\ signing.at = "signed" =>
       /\ signing.sig \in Signatures
       /\ signing.over = SigningPreimage(signing.tx)
       /\ signing.raw = RawSigned(signing.tx, signing.sig)

LEMMA SigningStep == SigningInvariant /\ [SigningNext]_signingVars => SigningInvariant'
<1> SUFFICES ASSUME SigningInvariant, [SigningNext]_signingVars PROVE SigningInvariant'
  OBVIOUS
<1>1. CASE Parses
  <2>1. PICK p \in Parameters :
           signing' = IF Encodes(p) /\ Accepted(Transaction(p))
                        THEN [at |-> "parsed", asked |-> p, tx |-> Transaction(p)]
                        ELSE [at |-> "refused", asked |-> p]
    BY <1>1, Zenon DEF Parses
  <2>2. CASE Encodes(p) /\ Accepted(Transaction(p))
    <3>1. signing' = [at |-> "parsed", asked |-> p, tx |-> Transaction(p)]
      BY <2>1, <2>2, Zenon
    <3>2. signing'.at = "parsed" /\ signing'.asked = p /\ signing'.tx = Transaction(p)
      BY <3>1
    <3>3. signing'.at # "signed"
      BY <3>2
    <3> QED BY <2>2, <3>2, <3>3, Zenon DEF SigningInvariant
  <2>3. CASE ~(Encodes(p) /\ Accepted(Transaction(p)))
    <3>1. signing' = [at |-> "refused", asked |-> p]
      BY <2>1, <2>3, Zenon
    <3>2. signing'.at \notin {"parsed", "signed"} /\ signing'.at # "signed"
      BY <3>1
    <3> QED BY <3>2, Zenon DEF SigningInvariant
  <2> QED BY <2>2, <2>3, Zenon
<1>2. CASE Signs
  <2>1. PICK sig \in Signatures :
           signing' = [at |-> "signed", asked |-> signing.asked, tx |-> signing.tx, sig |-> sig,
                       over |-> SigningPreimage(signing.tx), raw |-> RawSigned(signing.tx, sig)]
    BY <1>2, Zenon DEF Signs
  <2>2. /\ signing'.at = "signed" /\ signing'.asked = signing.asked /\ signing'.tx = signing.tx
        /\ signing'.sig = sig /\ signing'.over = SigningPreimage(signing.tx)
        /\ signing'.raw = RawSigned(signing.tx, sig)
    BY <2>1
  <2>3. signing.at \in {"parsed", "signed"}
    BY <1>2 DEF Signs
  <2>4. /\ signing.asked \in Parameters /\ Encodes(signing.asked)
        /\ Accepted(Transaction(signing.asked)) /\ signing.tx = Transaction(signing.asked)
    BY <2>3, Zenon DEF SigningInvariant
  <2> QED BY <2>2, <2>4, Zenon DEF SigningInvariant
<1>3. CASE SignsMessage
  <2>1. PICK message \in Messages, sig \in Signatures :
           signing' = [at |-> "message", message |-> message, v |-> sig.v + 27,
                       over |-> PersonalPreimage(message)]
    BY <1>3, Zenon DEF SignsMessage
  <2>2. signing'.at \notin {"parsed", "signed"} /\ signing'.at # "signed"
    BY <2>1
  <2> QED BY <2>2, Zenon DEF SigningInvariant
<1>4. CASE UNCHANGED signingVars
  BY <1>4, Zenon DEF SigningInvariant, signingVars
<1> QED BY <1>1, <1>2, <1>3, <1>4, Zenon DEF SigningNext

\* A call signs what was parsed, and its bytes are those of that transaction.
THEOREM AlwaysSigning == SigningSpec => []SigningInvariant
<1>1. SigningInit => SigningInvariant
  BY DEF SigningInit, SigningInvariant, NoSigning
<1> QED BY <1>1, SigningStep, PTL DEF SigningSpec

LEMMA NodeReadsIt == SigningInvariant => NodeReadsWhatWasAsked
<1> SUFFICES ASSUME SigningInvariant, signing.at = "signed" PROVE NodeReadsWhatWasAsked
  BY DEF NodeReadsWhatWasAsked
<1>1. PICK p, tx, sig : p = signing.asked /\ tx = signing.tx /\ sig = signing.sig
  OBVIOUS
<1>2. /\ p \in Parameters /\ Encodes(p) /\ Accepted(Transaction(p)) /\ tx = Transaction(p)
      /\ sig \in Signatures /\ signing.over = SigningPreimage(tx)
      /\ signing.raw = RawSigned(tx, sig)
  BY <1>1 DEF SigningInvariant
<1>3. /\ Fits(tx) /\ tx.chain_id = p.chain_id /\ tx.nonce = p.nonce
      /\ tx.max_priority_fee_per_gas = p.max_priority_fee_per_gas
      /\ tx.max_fee_per_gas = p.max_fee_per_gas /\ tx.gas_limit = p.gas_limit
      /\ p.token = <<>> => tx = p
      /\ p.token # <<>> => /\ tx.to = p.token /\ tx.value = 0
                           /\ tx.data = TransferCalldata(p.to, p.value)
  BY <1>2, TransactionIs
<1>4. PICK g, f, r, s :
         /\ g = FieldsOf(tx) /\ f = Three(g, BigEndian[sig.v], r, s)
         /\ r = StripLeadingZeros(sig.r) /\ s = StripLeadingZeros(sig.s)
  OBVIOUS
<1>5. Fields(signing.over) = g /\ Fields(signing.raw) = f
  BY <1>2, <1>3, <1>4, SignedIsRead
<1>6. /\ r \in Seq(Byte) /\ Read(r) >= 0 /\ Padded(r, Len(sig.r)) = sig.r
      /\ s \in Seq(Byte) /\ Read(s) >= 0 /\ Padded(s, Len(sig.s)) = sig.s
  <2>1. sig.r \in Seq(Byte) /\ sig.s \in Seq(Byte)
    BY <1>2, EvmTxAssumption
  <2> QED BY <1>4, <2>1, Stripped
<1>7. /\ g \in Seq(Seq(Byte)) /\ Len(g) = 9
      /\ g[1] = BigEndian[tx.chain_id] /\ g[2] = BigEndian[tx.nonce]
      /\ g[3] = BigEndian[tx.max_priority_fee_per_gas]
      /\ g[4] = BigEndian[tx.max_fee_per_gas] /\ g[5] = BigEndian[tx.gas_limit]
      /\ g[6] = tx.to /\ g[7] = BigEndian[tx.value] /\ g[8] = tx.data
  BY <1>3, <1>4, FieldsOfAre
<1>8. sig.v \in 0..MAX_U128
  <2>1. sig.v \in {0, 1}
    BY <1>2, EvmTxAssumption
  <2>2. Len(tx.data) \in Nat /\ Len(tx.data) + 400 <= MAX_U64
    BY <1>3 DEF Fits
  <2>3. PICK n \in Nat : n = Len(tx.data)
    BY <2>2
  <2>4. n + 400 <= MAX_U64 /\ MAX_U64 \in Nat /\ MAX_U128 \in Nat /\ MAX_U64 <= MAX_U128
    BY <2>2, <2>3, EvmTxAssumption
  <2>5. {0, 1} \subseteq 0..MAX_U128
    BY <2>4
  <2> QED BY <2>1, <2>5, Zenon
<1>9. Extends(f, g, BigEndian[sig.v], r, s, Seq(Byte))
  <2>1. BigEndian[sig.v] \in Seq(Byte)
    BY <1>8, BigEndianType
  <2> QED BY <1>4, <1>6, <1>7, <2>1, ThreeMore
<1>10. /\ Len(f) = 12 /\ SubSeq(f, 1, 9) = g
       /\ f[1] = g[1] /\ f[2] = g[2] /\ f[3] = g[3] /\ f[4] = g[4] /\ f[5] = g[5]
       /\ f[6] = g[6] /\ f[7] = g[7] /\ f[8] = g[8]
       /\ f[10] = BigEndian[sig.v] /\ f[11] = r /\ f[12] = s
  BY <1>7, <1>9 DEF Extends
<1>11. \A n \in 0..MAX_U128 : Read(BigEndian[n]) = n
  BY NumberIsRead
<1>12. {tx.chain_id, tx.nonce, tx.max_priority_fee_per_gas, tx.max_fee_per_gas, tx.gas_limit,
        tx.value} \subseteq 0..MAX_U128
  <2>1. /\ {tx.chain_id, tx.nonce, tx.gas_limit} \subseteq 0..MAX_U64
        /\ {tx.max_priority_fee_per_gas, tx.max_fee_per_gas, tx.value} \subseteq 0..MAX_U128
    BY <1>3, Zenon DEF Fits, Accepted
  <2>2. 0..MAX_U64 \subseteq 0..MAX_U128
    BY EvmTxAssumption
  <2> QED BY <2>1, <2>2
<1>13. /\ Read(f[1]) = p.chain_id /\ Read(f[2]) = p.nonce
       /\ Read(f[3]) = p.max_priority_fee_per_gas /\ Read(f[4]) = p.max_fee_per_gas
       /\ Read(f[5]) = p.gas_limit /\ Read(f[7]) = tx.value /\ Read(f[10]) = sig.v
  <2>1. /\ tx.chain_id \in 0..MAX_U128 /\ tx.nonce \in 0..MAX_U128
        /\ tx.max_priority_fee_per_gas \in 0..MAX_U128 /\ tx.max_fee_per_gas \in 0..MAX_U128
        /\ tx.gas_limit \in 0..MAX_U128 /\ tx.value \in 0..MAX_U128
    BY <1>12, Zenon
  <2>2. /\ Read(BigEndian[tx.chain_id]) = tx.chain_id /\ Read(BigEndian[tx.nonce]) = tx.nonce
        /\ Read(BigEndian[tx.max_priority_fee_per_gas]) = tx.max_priority_fee_per_gas
        /\ Read(BigEndian[tx.max_fee_per_gas]) = tx.max_fee_per_gas
        /\ Read(BigEndian[tx.gas_limit]) = tx.gas_limit
        /\ Read(BigEndian[tx.value]) = tx.value /\ Read(BigEndian[sig.v]) = sig.v
    BY <1>8, <1>11, <2>1, Zenon
  <2>3. /\ f[1] = BigEndian[tx.chain_id] /\ f[2] = BigEndian[tx.nonce]
        /\ f[3] = BigEndian[tx.max_priority_fee_per_gas]
        /\ f[4] = BigEndian[tx.max_fee_per_gas] /\ f[5] = BigEndian[tx.gas_limit]
        /\ f[7] = BigEndian[tx.value] /\ f[10] = BigEndian[sig.v]
    BY <1>7, <1>10, Zenon
  <2>4. /\ Read(f[1]) = tx.chain_id /\ Read(f[2]) = tx.nonce
        /\ Read(f[3]) = tx.max_priority_fee_per_gas /\ Read(f[4]) = tx.max_fee_per_gas
        /\ Read(f[5]) = tx.gas_limit /\ Read(f[7]) = tx.value /\ Read(f[10]) = sig.v
    BY <2>2, <2>3
  <2> QED BY <1>3, <2>4
<1>14. IF p.token = <<>>
         THEN f[6] = p.to /\ Read(f[7]) = p.value /\ f[8] = p.data
         ELSE /\ f[6] = p.token /\ Read(f[7]) = 0 /\ Len(f[8]) = 68
              /\ SubSeq(f[8], 5, 36) = Padded(p.to, 32)
              /\ SubSeq(f[8], 37, 68) = Padded(BigEndian[p.value], 32)
  <2>1. CASE p.token = <<>>
    BY <1>3, <1>7, <1>10, <1>13, <2>1, Zenon
  <2>2. CASE p.token # <<>>
    <3>1. p.to \in Seq(Byte)
      BY <1>2, EvmTxAssumption
    <3>2. Len(p.to) = 20 /\ p.value \in 0..MAX_U128
      BY <1>2, <2>2, Zenon DEF Encodes
    <3>3. PICK data : data = TransferCalldata(p.to, p.value)
      OBVIOUS
    <3>4. /\ Len(data) = 68 /\ SubSeq(data, 5, 36) = Padded(p.to, 32)
          /\ SubSeq(data, 37, 68) = Padded(BigEndian[p.value], 32)
      <4>1. Words(TransferCalldata(p.to, p.value), p.to, p.value)
        BY <3>1, <3>2, CalldataIs, Zenon
      <4> QED BY <3>3, <4>1, Zenon DEF Words
    <3>5. f[6] = p.token /\ f[8] = data /\ Read(f[7]) = 0
      <4>1. tx.to = p.token /\ tx.value = 0 /\ tx.data = data
        BY <1>3, <2>2, <3>3, Zenon
      <4>2. f[6] = tx.to /\ f[8] = tx.data /\ Read(f[7]) = tx.value
        BY <1>7, <1>10, <1>13, Zenon
      <4> QED BY <4>1, <4>2, Zenon
    <3> QED BY <2>2, <3>4, <3>5
  <2> QED BY <2>1, <2>2, Zenon
<1> QED
  BY <1>1, <1>5, <1>6, <1>10, <1>13, <1>14, Zenon DEF NodeReadsWhatWasAsked

\* NodeReadsWhatWasAsked: whatever the numbers, the data and the signature are, the bytes
\* that raw_signed and signing_hash write are read as the transaction that was asked for.
THEOREM AlwaysNodeReads == SigningSpec => []NodeReadsWhatWasAsked
BY AlwaysSigning, NodeReadsIt, PTL

=============================================================================
