---------------------------- MODULE VaultSession ----------------------------
(***************************************************************************)
(* The wallets of the extension: the encrypted records in storage and the  *)
(* id of the active one (src/lib/vault-storage.ts), and the one unlocked   *)
(* session in the service worker's memory with the handlers that open and  *)
(* close it (entrypoints/background.ts).                                   *)
(*                                                                         *)
(* An action is one storage call, or the loading of the WASM core,         *)
(* together with the code that runs on its answer; when that code touches  *)
(* the session or replies, the call and its answer are two actions, since  *)
(* other handlers run, or the worker stops, between them.  Several handlers*)
(* can be between two calls at once.  Ids are numbered in the order of their *)
(* creation, which is the order of the stored array; names are left out,   *)
(* so a rename is its read and its write of the whole array.               *)
(***************************************************************************)
EXTENDS Naturals, FiniteSets

CONSTANTS
    Handlers,        \* concurrent invocations of the worker's message handlers
    Operations,      \* the messages sent in this model
    Seeds,           \* recovery phrases
    Passwords,
    Indices,         \* account indices that are derived
    MAX_WALLETS,
    MaxIds,          \* bound: records ever created
    WorkerMayStop,
    NoSeed, NoPassword, NoRecord

AllOperations == {"create", "unlock", "derive", "restore", "reveal", "list",
                  "switch", "rename", "remove"}

Accounts == [index: Indices \cup {0}, of: Seeds]
\* seed and pw: what the ciphertext holds and what opens it; tron: whether
\* the accounts have their TRON address.
Records == [seed: Seeds, pw: Passwords, accounts: SUBSET Accounts, tron: BOOLEAN]

ASSUME VaultAssumption ==
    /\ Operations \subseteq AllOperations
    /\ Indices \subseteq Nat
    /\ MAX_WALLETS \in Nat
    /\ MaxIds \in Nat
    /\ WorkerMayStop \in BOOLEAN
    /\ NoSeed \notin Seeds
    /\ NoPassword \notin Passwords
    /\ NoRecord \notin Records

Ids == 1..MaxIds
NoId == 0

VARIABLES
    store,      \* aiwallet:vaults: the record of each id, or NoRecord
    active,     \* aiwallet:activeVaultId
    session,    \* the unlocked session
    handler,    \* what each running handler waits for
    owner,      \* history: the phrase each id was created with
    agreed,     \* history: the password last confirmed for each stored id
    unconfirmed, \* history: the password of a vault stored and not yet confirmed
    removed,    \* history: the ids whose removal was confirmed
    overlapped  \* history: the ids whose record one handler wrote over another's

vars == <<store, active, session, handler, owner, agreed, unconfirmed, removed, overlapped>>

\* What only the confirmations and the array writes change.
history == <<agreed, unconfirmed, removed, overlapped>>

Stores == [Ids -> Records \cup {NoRecord}]
Empty == [i \in Ids |-> NoRecord]
Stored(wallets) == {i \in Ids : wallets[i] # NoRecord}

Sessions == [wallet: Ids \cup {NoId}, seed: Seeds \cup {NoSeed}, accounts: SUBSET Accounts]
Locked == [wallet |-> NoId, seed |-> NoSeed, accounts |-> {}]

Stages == {"idle", "wasm", "addRead", "addWrite", "addActive", "added", "wallets",
           "activeId", "heal", "record", "opened", "updateRead", "updateWrite", "updated",
           "replaceRead", "replaceWrite", "replaced", "setActive", "switched",
           "renameWrite", "removeRead", "removeWrite", "removeActiveRead",
           "removeActive", "removed"}
Jobs == [op: Operations \cup {"none", "list"}, pc: Stages, id: Ids \cup {NoId},
         seed: Seeds \cup {NoSeed}, pw: Passwords \cup {NoPassword},
         among: SUBSET Ids, saw: Stores, accounts: SUBSET Accounts, wasActive: BOOLEAN,
         next: Ids \cup {NoId}]
Idle == [op |-> "none", pc |-> "idle", id |-> NoId, seed |-> NoSeed, pw |-> NoPassword,
         among |-> {}, saw |-> Empty, accounts |-> {}, wasActive |-> FALSE, next |-> NoId]

TypeOK ==
    /\ store \in Stores
    /\ active \in Ids \cup {NoId}
    /\ session \in Sessions
    /\ handler \in [Handlers -> Jobs]
    /\ owner \in [Ids -> Seeds \cup {NoSeed}]
    /\ agreed \in [Ids -> Passwords \cup {NoPassword}]
    /\ unconfirmed \in [Ids -> Passwords \cup {NoPassword}]
    /\ removed \in SUBSET Ids
    /\ overlapped \in SUBSET Ids

\* vaults[0]: the oldest record.
First(S) == IF S = {} THEN NoId ELSE CHOOSE i \in S : \A j \in S : i <= j

Primary(seed) == {[index |-> 0, of |-> seed]}

\* Up to MAX_WALLETS records from before, TRON-less or without the public
\* accounts if they were migrated; any of them, or none, is active.
Init ==
    /\ \E S \in SUBSET (1..MAX_WALLETS) :
         /\ S \subseteq Ids
         /\ \A i \in S, j \in Ids : j < i => j \in S
         /\ owner \in [Ids -> Seeds \cup {NoSeed}]
         /\ \A i \in Ids : owner[i] = NoSeed <=> i \notin S
         /\ \E old \in [S -> [pw: Passwords, listed: BOOLEAN, tron: BOOLEAN]] :
              store = [i \in Ids |->
                         IF i \in S THEN [seed |-> owner[i], pw |-> old[i].pw,
                              accounts |-> IF old[i].listed THEN Primary(owner[i]) ELSE {},
                              tron |-> old[i].tron /\ old[i].listed]
                         ELSE NoRecord]
         /\ agreed = [i \in Ids |-> IF i \in S THEN store[i].pw ELSE NoPassword]
         /\ active \in S \cup {NoId}
    /\ session = Locked
    /\ handler = [h \in Handlers |-> Idle]
    /\ unconfirmed = [i \in Ids |-> NoPassword]
    /\ removed = {}
    /\ overlapped = {}

-----------------------------------------------------------------------------

Waits(h, pc) == handler[h].pc = pc

Goes(h, job) == handler' = [handler EXCEPT ![h] = job]

Proceeds(h, pc) == Goes(h, [handler[h] EXCEPT !.pc = pc])

Ends(h) == Goes(h, Idle)

\* walletsState: the answer of a switch, a rename and a removal.
AnswersWithList(h) == Goes(h, [Idle EXCEPT !.op = "list", !.pc = "wallets"])

Starts(h, op) == Waits(h, "idle") /\ op \in Operations

Unlocked(id, seed, accounts) == [wallet |-> id, seed |-> seed, accounts |-> accounts]

\* Accounts of the record, or those inside the decrypted vault.
AccountsOf(rec) == IF rec.accounts = {} THEN Primary(rec.seed) ELSE rec.accounts

-----------------------------------------------------------------------------
(* vaultCreate and addVaultRecord.                                         *)

\* crypto.randomUUID: an id nobody has; the bound leaves one for each creation.
Unused == {i \in Ids : owner[i] = NoSeed}
Creating == {h \in Handlers : handler[h].pc \in {"wasm", "addRead"}}

CreateBegins(h, seed, pw) ==
    /\ Starts(h, "create")
    /\ Cardinality(Creating) < Cardinality(Unused)
    /\ Cardinality(Stored(store)) < MAX_WALLETS
    /\ Goes(h, [Idle EXCEPT !.op = "create", !.pc = "wasm", !.seed = seed, !.pw = pw])
    /\ UNCHANGED <<store, active, session, owner, history>>

\* The vault is encrypted and the previous session is wiped.
CreateEncrypts(h) ==
    /\ Waits(h, "wasm")
    /\ session' = Locked
    /\ Proceeds(h, "addRead")
    /\ UNCHANGED <<store, active, owner, history>>

\* Mutant: only the early check of vaultCreate is made.
HasRoomAssumed(wallets) == TRUE

HasRoom(wallets) == Cardinality(wallets) < MAX_WALLETS

AddReads(h) ==
    /\ Waits(h, "addRead")
    /\ Unused # {}
    /\ LET id == First(Unused)
       IN IF HasRoom(Stored(store))
          THEN /\ Goes(h, [handler[h] EXCEPT !.pc = "addWrite", !.id = id, !.saw = store])
               /\ owner' = [owner EXCEPT ![id] = handler[h].seed]
          ELSE Ends(h) /\ UNCHANGED owner
    /\ UNCHANGED <<store, active, session, history>>

NewRecord(job) == [seed |-> job.seed, pw |-> job.pw, accounts |-> Primary(job.seed), tron |-> TRUE]

\* The array that was read, with one record put at its end.
With(wallets, id, rec) == [wallets EXCEPT ![id] = rec]

\* An array write puts back what was read: the records that another handler
\* has stored or removed since are overwritten.
WritesOver(h) ==
    overlapped' = overlapped \cup {i \in Ids : handler[h].saw[i] # store[i]}

\* The new ciphertext is in storage, and the user has no answer yet.
StoresPassword(h) ==
    /\ unconfirmed' = [unconfirmed EXCEPT ![handler[h].id] = handler[h].pw]
    /\ WritesOver(h)
    /\ UNCHANGED <<agreed, removed>>

\* The answer: the user knows the password.  Another handler may have stored
\* one of its own in between.
Confirms(h) ==
    LET job == handler[h]
    IN /\ agreed' = [agreed EXCEPT ![job.id] = job.pw]
       /\ IF unconfirmed[job.id] = job.pw
          THEN /\ unconfirmed' = [unconfirmed EXCEPT ![job.id] = NoPassword]
               /\ UNCHANGED overlapped
          ELSE /\ overlapped' = overlapped \cup {job.id}
               /\ UNCHANGED unconfirmed
       /\ Ends(h)
       /\ UNCHANGED removed

AddWrites(h) ==
    /\ Waits(h, "addWrite")
    /\ store' = With(handler[h].saw, handler[h].id, NewRecord(handler[h]))
    /\ StoresPassword(h)
    /\ Goes(h, [handler[h] EXCEPT !.pc = "addActive", !.saw = Empty])
    /\ UNCHANGED <<active, session, owner>>

AddActivates(h) ==
    /\ Waits(h, "addActive")
    /\ active' = handler[h].id
    /\ Proceeds(h, "added")
    /\ UNCHANGED <<store, session, owner, history>>

AddOpens(h) ==
    LET job == handler[h]
    IN /\ Waits(h, "added")
       /\ session' = Unlocked(job.id, job.seed, Primary(job.seed))
       /\ Confirms(h)
       /\ UNCHANGED <<store, active, owner>>

-----------------------------------------------------------------------------
(* getActiveVaultId and getActiveVaultRecord, shared by five handlers.     *)

\* The messages whose handler asks for the active wallet first.
AsksForActive == {"unlock", "restore", "reveal", "list", "remove"}

AskActive(h, op, id, seed, pw) ==
    /\ Starts(h, op)
    /\ op \in AsksForActive
    /\ Goes(h, [Idle EXCEPT !.op = op, !.pc = "wallets", !.id = id, !.seed = seed, !.pw = pw])
    /\ UNCHANGED <<store, active, session, owner, history>>

\* Where a handler goes on with the id of the active wallet.
KnowsActive(h, id) ==
    CASE handler[h].op = "list" -> Ends(h)
      [] handler[h].op = "remove" ->
           Goes(h, [handler[h] EXCEPT !.pc = "removeRead", !.among = {}, !.next = NoId,
                                      !.wasActive = (id = handler[h].id)])
      [] OTHER -> Goes(h, [handler[h] EXCEPT !.pc = "record", !.among = {}, !.next = NoId,
                                             !.id = id])

ReadsWallets(h) ==
    /\ Waits(h, "wallets")
    /\ IF Stored(store) = {}
       THEN IF handler[h].op = "remove" THEN KnowsActive(h, NoId) ELSE Ends(h)
       ELSE Goes(h, [handler[h] EXCEPT !.pc = "activeId", !.among = Stored(store)])
    /\ UNCHANGED <<store, active, session, owner, history>>

ReadsActive(h) ==
    /\ Waits(h, "activeId")
    /\ IF active \in handler[h].among
       THEN KnowsActive(h, active)
       ELSE Goes(h, [handler[h] EXCEPT !.pc = "heal", !.next = First(handler[h].among)])
    /\ UNCHANGED <<store, active, session, owner, history>>

\* The stored id names no record: the oldest becomes the active one.
Heals(h) ==
    /\ Waits(h, "heal")
    /\ active' = handler[h].next
    /\ KnowsActive(h, handler[h].next)
    /\ UNCHANGED <<store, session, owner, history>>

\* getVaultRecord; its handler then waits for the WASM core.
ReadsRecord(h) ==
    /\ Waits(h, "record")
    /\ LET id == handler[h].id
       IN IF id \in Stored(store)
          THEN Goes(h, [handler[h] EXCEPT !.pc = "opened", !.saw = [Empty EXCEPT ![id] = store[id]]])
          ELSE Ends(h)
    /\ UNCHANGED <<store, active, session, owner, history>>

-----------------------------------------------------------------------------
(* vaultUnlock, revealSeedPhrase and restoreVaultPassword.                 *)

Found(h) == handler[h].saw[handler[h].id]

\* unlockVault in the WASM core.
Opens(rec, pw) == rec.pw = pw

\* The right password and complete addresses: the session opens at once.
Unlocks(h) ==
    LET rec == Found(h)
    IN /\ Waits(h, "opened") /\ handler[h].op = "unlock"
       /\ Opens(rec, handler[h].pw)
       /\ rec.tron
       /\ session' = Unlocked(handler[h].id, rec.seed, AccountsOf(rec))
       /\ Ends(h)
       /\ UNCHANGED <<store, active, owner, history>>

\* Addresses are missing: they are derived and stored before the session opens.
UnlockUpdates(h) ==
    LET rec == Found(h)
    IN /\ Waits(h, "opened") /\ handler[h].op = "unlock"
       /\ Opens(rec, handler[h].pw)
       /\ ~rec.tron
       /\ Goes(h, [Idle EXCEPT !.op = "unlock", !.pc = "updateRead", !.id = handler[h].id,
                               !.seed = rec.seed, !.accounts = AccountsOf(rec)])
       /\ UNCHANGED <<store, active, session, owner, history>>

\* Wrong password, or the phrase was only to be shown.
NotOpened(h) ==
    /\ Waits(h, "opened") /\ handler[h].op \in {"unlock", "reveal"}
    /\ handler[h].op = "unlock" => ~Opens(Found(h), handler[h].pw)
    /\ Ends(h)
    /\ UNCHANGED <<store, active, session, owner, history>>

\* The record's public account 0 has the addresses derived from the phrase.
MnemonicOwnsRecord(seed, rec) ==
    \E a \in rec.accounts : a.index = 0 /\ a.of = seed

\* The phrase belongs to the wallet: the previous session is wiped, the
\* ciphertext replaced.
RestoreProves(h) ==
    /\ Waits(h, "opened") /\ handler[h].op = "restore"
    /\ MnemonicOwnsRecord(handler[h].seed, Found(h))
    /\ session' = Locked
    /\ Goes(h, [handler[h] EXCEPT !.pc = "replaceRead", !.saw = Empty])
    /\ UNCHANGED <<store, active, owner, history>>

RestoreRefused(h) ==
    /\ Waits(h, "opened") /\ handler[h].op = "restore"
    /\ ~MnemonicOwnsRecord(handler[h].seed, Found(h))
    /\ Ends(h)
    /\ UNCHANGED <<store, active, session, owner, history>>

ReplaceReads(h) ==
    /\ Waits(h, "replaceRead")
    /\ IF handler[h].id \in Stored(store)
       THEN Goes(h, [handler[h] EXCEPT !.pc = "replaceWrite", !.saw = store])
       ELSE Ends(h)
    /\ UNCHANGED <<store, active, session, owner, history>>

\* Mutant: the new ciphertext is made with the old password.
ReplacedSamePassword(job) == [job.saw[job.id] EXCEPT !.seed = job.seed]

Replaced(job) == [job.saw[job.id] EXCEPT !.seed = job.seed, !.pw = job.pw]

ReplaceWrites(h) ==
    LET job == handler[h]
        updated == Replaced(job)
    IN /\ Waits(h, "replaceWrite")
       /\ store' = With(job.saw, job.id, updated)
       /\ StoresPassword(h)
       /\ Goes(h, [job EXCEPT !.pc = "replaced", !.saw = Empty, !.accounts = AccountsOf(updated)])
       /\ UNCHANGED <<active, session, owner>>

\* The write is answered: the session opens and the user is told.
ReplaceConfirms(h) ==
    LET job == handler[h]
    IN /\ Waits(h, "replaced")
       /\ session' = Unlocked(job.id, job.seed, job.accounts)
       /\ Confirms(h)
       /\ UNCHANGED <<store, active, owner>>

-----------------------------------------------------------------------------
(* vaultDeriveAccount, and updateVaultAccounts that it shares with unlock. *)

\* Mutant: the session is not looked at.
DeriveUnasked(h, index) ==
    /\ Starts(h, "derive")
    /\ session' = [session EXCEPT !.accounts = {[index |-> index, of |-> session.seed]}]
    /\ UNCHANGED <<store, active, handler, owner, history>>

DeriveBegins(h, index) ==
    LET accounts == {a \in session.accounts : a.index # index}
                    \cup {[index |-> index, of |-> session.seed]}
    IN /\ Starts(h, "derive")
       /\ session.wallet # NoId
       /\ session' = [session EXCEPT !.accounts = accounts]
       /\ Goes(h, [Idle EXCEPT !.op = "derive", !.pc = "updateRead", !.id = session.wallet,
                               !.seed = session.seed, !.accounts = accounts])
       /\ UNCHANGED <<store, active, owner, history>>

UpdateReads(h) ==
    /\ Waits(h, "updateRead")
    /\ Goes(h, [handler[h] EXCEPT !.pc = "updateWrite", !.saw = store])
    /\ UNCHANGED <<store, active, session, owner, history>>

\* Mutant: the accounts go to the wallet of the session of this moment.
UpdatedForSession(job) ==
    [i \in Ids |->
       IF i = session.wallet /\ i \in Stored(job.saw) THEN [job.saw[i] EXCEPT !.accounts = job.accounts, !.tron = TRUE]
       ELSE job.saw[i]]

Updated(job) ==
    [i \in Ids |->
       IF i = job.id /\ i \in Stored(job.saw) THEN [job.saw[i] EXCEPT !.accounts = job.accounts, !.tron = TRUE]
       ELSE job.saw[i]]

UpdateWrites(h) ==
    LET job == handler[h]
    IN /\ Waits(h, "updateWrite")
       /\ store' = Updated(job)
       /\ WritesOver(h)
       /\ IF job.op = "unlock" THEN Goes(h, [job EXCEPT !.pc = "updated", !.saw = Empty])
          ELSE Ends(h)
       /\ UNCHANGED <<active, session, owner, agreed, unconfirmed, removed>>

UpdateOpens(h) ==
    LET job == handler[h]
    IN /\ Waits(h, "updated")
       /\ session' = Unlocked(job.id, job.seed, job.accounts)
       /\ Ends(h)
       /\ UNCHANGED <<store, active, owner, history>>

-----------------------------------------------------------------------------
(* switchWallet, renameWallet, removeWallet and LockSession.               *)

SwitchReads(h, id) ==
    /\ Starts(h, "switch")
    /\ id \in Stored(store)
    /\ Goes(h, [Idle EXCEPT !.op = "switch", !.pc = "setActive", !.id = id])
    /\ UNCHANGED <<store, active, session, owner, history>>

SwitchWrites(h) ==
    /\ Waits(h, "setActive")
    /\ active' = handler[h].id
    /\ Proceeds(h, "switched")
    /\ UNCHANGED <<store, session, owner, history>>

\* Mutant: the session survives the switch.
SwitchKeepsSession(h) ==
    /\ Waits(h, "switched")
    /\ AnswersWithList(h)
    /\ UNCHANGED <<store, active, session, owner, history>>

SwitchLocks(h) ==
    /\ Waits(h, "switched")
    /\ session' = Locked
    /\ AnswersWithList(h)
    /\ UNCHANGED <<store, active, owner, history>>

RenameReads(h, id) ==
    /\ Starts(h, "rename")
    /\ id \in Stored(store)
    /\ Goes(h, [Idle EXCEPT !.op = "rename", !.pc = "renameWrite", !.id = id, !.saw = store])
    /\ UNCHANGED <<store, active, session, owner, history>>

RenameWrites(h) ==
    /\ Waits(h, "renameWrite")
    /\ store' = handler[h].saw
    /\ WritesOver(h)
    /\ AnswersWithList(h)
    /\ UNCHANGED <<active, session, owner, agreed, unconfirmed, removed>>

RemoveReads(h) ==
    /\ Waits(h, "removeRead")
    /\ IF handler[h].id \in Stored(store)
       THEN Goes(h, [handler[h] EXCEPT !.pc = "removeWrite", !.saw = store])
       ELSE Ends(h)
    /\ UNCHANGED <<store, active, session, owner, history>>

\* Mutant: the ciphertext stays in storage.
RemainingAll(job) == job.saw

Remaining(job) == [job.saw EXCEPT ![job.id] = NoRecord]

RemoveWrites(h) ==
    /\ Waits(h, "removeWrite")
    /\ store' = Remaining(handler[h])
    /\ WritesOver(h)
    /\ Goes(h, [handler[h] EXCEPT !.pc = "removeActiveRead", !.saw = Empty,
                                  !.next = First(Stored(handler[h].saw) \ {handler[h].id})])
    /\ agreed' = [agreed EXCEPT ![handler[h].id] = NoPassword]
    /\ unconfirmed' = [unconfirmed EXCEPT ![handler[h].id] = NoPassword]
    /\ UNCHANGED <<active, session, owner, removed>>

RemoveReadsActive(h) ==
    /\ Waits(h, "removeActiveRead")
    /\ Proceeds(h, IF active \in {handler[h].id, NoId} THEN "removeActive" ELSE "removed")
    /\ UNCHANGED <<store, active, session, owner, history>>

RemoveActivates(h) ==
    /\ Waits(h, "removeActive")
    /\ active' = handler[h].next
    /\ Proceeds(h, "removed")
    /\ UNCHANGED <<store, session, owner, history>>

\* The removal is confirmed; the session is wiped if it was this wallet's.
RemoveConfirms(h) ==
    /\ Waits(h, "removed")
    /\ session' = IF handler[h].wasActive \/ session.wallet = handler[h].id
                  THEN Locked ELSE session
    /\ removed' = removed \cup {handler[h].id}
    /\ AnswersWithList(h)
    /\ UNCHANGED <<store, active, owner, agreed, unconfirmed, overlapped>>

\* LockSession, and the auto-lock timer.
Lock ==
    /\ session # Locked
    /\ session' = Locked
    /\ UNCHANGED <<store, active, handler, owner, history>>

\* The browser stops the worker: storage stays, handlers and session do not.
WorkerStops ==
    /\ WorkerMayStop
    /\ session' = Locked
    /\ handler' = [h \in Handlers |-> Idle]
    /\ UNCHANGED <<store, active, owner, history>>

-----------------------------------------------------------------------------

MessageArrives(h) ==
    \/ \E seed \in Seeds, pw \in Passwords : CreateBegins(h, seed, pw)
    \/ \E pw \in Passwords : AskActive(h, "unlock", NoId, NoSeed, pw)
    \/ \E seed \in Seeds, pw \in Passwords : AskActive(h, "restore", NoId, seed, pw)
    \/ AskActive(h, "reveal", NoId, NoSeed, NoPassword)
    \/ AskActive(h, "list", NoId, NoSeed, NoPassword)
    \/ \E index \in Indices : DeriveBegins(h, index)
    \/ \E id \in Ids :
         \/ SwitchReads(h, id) \/ RenameReads(h, id)
         \/ AskActive(h, "remove", id, NoSeed, NoPassword)

CallReturns(h) ==
    \/ CreateEncrypts(h) \/ AddReads(h) \/ AddWrites(h) \/ AddActivates(h) \/ AddOpens(h)
    \/ ReadsWallets(h) \/ ReadsActive(h) \/ Heals(h) \/ ReadsRecord(h)
    \/ Unlocks(h) \/ UnlockUpdates(h) \/ NotOpened(h)
    \/ RestoreProves(h) \/ RestoreRefused(h) \/ ReplaceReads(h) \/ ReplaceWrites(h)
    \/ ReplaceConfirms(h) \/ UpdateReads(h) \/ UpdateWrites(h) \/ UpdateOpens(h)
    \/ SwitchWrites(h) \/ SwitchLocks(h) \/ RenameWrites(h)
    \/ RemoveReads(h) \/ RemoveWrites(h) \/ RemoveReadsActive(h) \/ RemoveActivates(h)
    \/ RemoveConfirms(h)

Next ==
    \/ \E h \in Handlers : MessageArrives(h) \/ CallReturns(h)
    \/ Lock
    \/ WorkerStops

Spec == Init /\ [][Next]_vars

-----------------------------------------------------------------------------
(* Whatever handlers overlap.                                              *)

\* No interleaving of additions stores more than MAX_WALLETS wallets, though
\* the limit is checked before the writes it protects (addVaultRecord).
WalletsWithinLimit == Cardinality(Stored(store)) <= MAX_WALLETS

\* A wallet's ciphertext holds the phrase it was created with, its public
\* accounts were derived from that phrase, and so was an open session:
\* restoreVaultPassword never puts a foreign phrase into a record, and
\* accounts never end up in another wallet's record.
PhrasesMatch ==
    /\ \A i \in Stored(store) :
         /\ store[i].seed = owner[i]
         /\ \A a \in store[i].accounts : a.of = owner[i]
    /\ session.wallet # NoId =>
         /\ session.seed = owner[session.wallet]
         /\ \A a \in session.accounts : a.of = session.seed

\* One message at a time.
Alone == \A g, h \in Handlers : g = h

\* vault-storage.ts, removeVaultRecord: the ciphertext of a removed wallet
\* disappears from storage for good.  Stops, repairs and repeated removals do
\* not bring it back; only a handler can that wrote the array over another's
\* write, and a handler alone never does.
RemovedStaysRemoved ==
    /\ removed \cap Stored(store) \subseteq overlapped
    /\ Alone => overlapped = {}

\* restoreVaultPassword: a wallet opens with the password last confirmed to
\* the user, or, while the answer is out or the worker stopped before it, with
\* the one whose vault was stored last; no other operation brings an older
\* ciphertext back.  Overlapping handlers can.
OpensWithAgreedPassword ==
    \A i \in Stored(store) \ overlapped :
      store[i].pw = IF unconfirmed[i] # NoPassword THEN unconfirmed[i] ELSE agreed[i]

-----------------------------------------------------------------------------
(* What the sources promise of a wallet.  It holds while handlers do not   *)
(* overlap; two of them at once break it.                                  *)

Quiet == \A h \in Handlers : handler[h] = Idle

\* background.ts, vaultUnlock: the active wallet is what gets unlocked.  An
\* open session is the active wallet's, and that wallet is in storage.
OpenWalletIsActive ==
    Quiet /\ session.wallet # NoId =>
      session.wallet = active /\ session.wallet \in Stored(store)

\* Handlers that run one after another, crashes included, implement the
\* shelf: only the active wallet is ever open, wallets disappear by removal
\* alone.  A removed wallet counts as closed from the write that removes it,
\* the wallet left by a switch from the write that names the other one, and
\* an active id that names no record stands for the one getActiveVaultId
\* heals it to.
Shelf == INSTANCE WalletShelf WITH
    Wallets <- Ids,
    MaxWallets <- MAX_WALLETS,
    Nobody <- NoId,
    shelf <- Stored(store),
    front <- IF active \in Stored(store) THEN active ELSE First(Stored(store)),
    open <- IF session.wallet \in Stored(store) /\ ~ \E h \in Handlers : Waits(h, "switched")
            THEN session.wallet ELSE NoId

KeepsShelf == Shelf!Spec
=============================================================================
