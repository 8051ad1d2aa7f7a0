---------------------------- MODULE DappApproval ----------------------------
(***************************************************************************)
(* The signing queue of the extension's service worker                     *)
(* (entrypoints/background.ts with src/lib/approval-queue.ts and           *)
(* src/lib/connections.ts), the Approve window that decides a request      *)
(* (src/screens/Approve.tsx) and the node that receives what was signed.   *)
(*                                                                         *)
(* JavaScript runs one task at a time, so an action is the code between    *)
(* two awaits that really suspend (storage, windows.create, fetch).  An    *)
(* await of the already loaded WASM core resumes in the same task and is   *)
(* not a point of interleaving: an unlocked session implies it is loaded.  *)
(***************************************************************************)
EXTENDS Naturals, FiniteSets

CONSTANTS
    Requests,    \* ids of dApp calls (crypto.randomUUID: never reused)
    Origins,     \* web origins
    Params,      \* the params of a call
    Wallets,     \* the wallets a session can be unlocked for
    Fees,        \* fee snapshots that pass verifyTxParams
    Decisions,   \* concurrent invocations of resolveApproval(approved = true)
    Ask,         \* what each request asks: [Requests -> Calls]
    MAX_PENDING_PER_ORIGIN,
    MaxNonce,              \* bound: highest account nonce the node hands out
    WindowIdMayBeMissing,  \* windows.create may resolve without a window (Firefox)
    WorkerMayStop,         \* the browser may stop the service worker
    NoWallet, NoFee, NoDecision

Methods == {"eth_accounts", "eth_requestAccounts", "eth_sendTransaction", "personal_sign"}

Calls == [origin: Origins, method: Methods, params: Params]

ASSUME DappAssumption ==
    /\ Ask \in [Requests -> Calls]
    /\ MAX_PENDING_PER_ORIGIN \in Nat
    /\ MaxNonce \in Nat
    /\ WindowIdMayBeMissing \in BOOLEAN
    /\ WorkerMayStop \in BOOLEAN
    /\ NoWallet \notin Wallets
    /\ NoFee \notin Fees
    /\ NoDecision \notin Decisions

VARIABLES
    session,    \* wallet of the unlocked session (session.walletId), or NoWallet
    sites,      \* argus:connectedSites: the origins with a permission
    revoking,   \* removeConnectedSite between its read and its write
    stage,      \* handleRpcRequest of each request: where it stands
    connected,  \* what its isOriginConnected read
    pending,    \* the keys of pendingRequests
    answer,     \* what its promise resolved to
    window,     \* the approval window of each request, as the browser knows it
    creating,   \* requests whose windows.create has not settled
    hasId,      \* requests whose entry has a windowId
    view,       \* the Approve screen in that window
    job,        \* resolveApproval(approved = true) between its awaits
    signed,     \* every signature made for a dApp request
    chain,      \* the signed transactions a node accepted
    granted     \* history: origins whose eth_requestAccounts the user approved

workerVars == <<stage, connected, pending, answer, creating, hasId, job>>
screenVars == <<window, view>>
walletVars == <<session, sites, revoking, granted>>
nodeVars == <<signed, chain>>
vars == <<session, sites, revoking, stage, connected, pending, answer, window,
          creating, hasId, view, job, signed, chain, granted>>

Stages == {"unsent", "asking", "asked", "queued", "answered"}
Kinds == {"none", "ok", "userRejected", "unauthorized", "internal",
          "tooManyRequests", "duplicateRequest", "unavailable"}
Answers == [kind: Kinds, wallet: Wallets \cup {NoWallet}]
Seen == [signer: Wallets \cup {NoWallet}, fee: Fees \cup {NoFee}]
Signatures == [req: Requests, by: Wallets, fee: Fees \cup {NoFee},
               nonce: 0..MaxNonce, seen: Seen]
Views == [screen: {"blank", "shown", "empty"}, seen: Seen,
          waits: Decisions \cup {NoDecision}, failed: BOOLEAN]
Idle == [pc |-> "idle"]
Jobs == [pc: {"reading", "read", "written"}, req: Requests, seen: Seen,
         saw: SUBSET Origins]
        \cup [pc: {"params"}, req: Requests, seen: Seen, from: Wallets \cup {NoWallet}]
        \cup [pc: {"broadcasting"}, req: Requests, seen: Seen, tx: Signatures]
NotRevoking == [busy |-> FALSE]
Revocations == [busy: {TRUE}, origin: Origins, saw: SUBSET Origins]

TypeOK ==
    /\ session \in Wallets \cup {NoWallet}
    /\ sites \in SUBSET Origins
    /\ revoking \in {NotRevoking} \cup Revocations
    /\ stage \in [Requests -> Stages]
    /\ connected \in [Requests -> BOOLEAN]
    /\ pending \in SUBSET Requests
    /\ answer \in [Requests -> Answers]
    /\ window \in [Requests -> {"none", "requested", "open", "closed", "gone"}]
    /\ creating \in SUBSET Requests
    /\ hasId \in SUBSET Requests
    /\ view \in [Requests -> Views]
    /\ job \in [Decisions -> {Idle} \cup Jobs]
    /\ signed \in SUBSET Signatures
    /\ chain \in SUBSET Signatures
    /\ granted \in SUBSET Origins

Outcome(kind) == [kind |-> kind, wallet |-> NoWallet]
Accounts(w) == [kind |-> "ok", wallet |-> w]
NothingSeen == [signer |-> NoWallet, fee |-> NoFee]
BlankView == [screen |-> "blank", seen |-> NothingSeen, waits |-> NoDecision, failed |-> FALSE]

Init ==
    /\ session = NoWallet
    /\ sites \in SUBSET Origins      \* permissions kept from before
    /\ granted = sites
    /\ revoking = NotRevoking
    /\ stage = [r \in Requests |-> "unsent"]
    /\ connected = [r \in Requests |-> FALSE]
    /\ pending = {}
    /\ answer = [r \in Requests |-> Outcome("none")]
    /\ window = [r \in Requests |-> "none"]
    /\ creating = {}
    /\ hasId = {}
    /\ view = [r \in Requests |-> BlankView]
    /\ job = [d \in Decisions |-> Idle]
    /\ signed = {}
    /\ chain = {}

-----------------------------------------------------------------------------
(* The queue: screening, and the promise behind every request.             *)

RequiresFeeSnapshot(method) == method = "eth_sendTransaction"

\* Two requests are the same request when origin, method and params agree.
Fingerprint(r) == <<Ask[r].origin, Ask[r].method, Ask[r].params>>

FromOrigin(o) == {p \in pending : Ask[p].origin = o}

\* Mutant: the limit is off by one.
ScreenOneTooMany(r) ==
    LET from == FromOrigin(Ask[r].origin)
    IN IF \E p \in from : Fingerprint(p) = Fingerprint(r) THEN "duplicateRequest"
       ELSE IF Cardinality(from) > MAX_PENDING_PER_ORIGIN THEN "tooManyRequests"
       ELSE "none"

\* Mutant: repeated requests are not recognised.
ScreenLimitOnly(r) ==
    IF Cardinality(FromOrigin(Ask[r].origin)) >= MAX_PENDING_PER_ORIGIN
    THEN "tooManyRequests" ELSE "none"

\* The refusal of a new request, or "none".
ScreenNewRequest(r) ==
    LET from == FromOrigin(Ask[r].origin)
    IN IF \E p \in from : Fingerprint(p) = Fingerprint(r) THEN "duplicateRequest"
       ELSE IF Cardinality(from) >= MAX_PENDING_PER_ORIGIN THEN "tooManyRequests"
       ELSE "none"

\* resolve(outcome): only the first resolution of a promise counts.
Resolve(r, a) ==
    /\ stage' = [stage EXCEPT ![r] = "answered"]
    /\ answer' = [answer EXCEPT ![r] = IF stage[r] = "answered" THEN @ ELSE a]

-----------------------------------------------------------------------------
(* handleRpcRequest: a dApp call arrives.  Its touchAutoLock is left out:  *)
(* here the session may be locked at any moment.                           *)

SendRequest(r) ==
    /\ stage[r] = "unsent"
    /\ stage' = [stage EXCEPT ![r] = "asking"]
    /\ UNCHANGED <<connected, pending, answer, creating, hasId, job>>
    /\ UNCHANGED <<screenVars, walletVars, nodeVars>>

\* storage.local.get of isOriginConnected is served.
ReadConnected(r) ==
    /\ stage[r] = "asking"
    /\ stage' = [stage EXCEPT ![r] = "asked"]
    /\ connected' = [connected EXCEPT ![r] = Ask[r].origin \in sites]
    /\ UNCHANGED <<pending, answer, creating, hasId, job>>
    /\ UNCHANGED <<screenVars, walletVars, nodeVars>>

Answered(r, a) ==
    /\ stage[r] = "asked"
    /\ Resolve(r, a)
    /\ UNCHANGED <<connected, pending, creating, hasId, job>>
    /\ UNCHANGED <<screenVars, walletVars, nodeVars>>

\* eth_accounts: the address only when connected and unlocked, else [].
AnswerAccounts(r) ==
    /\ Ask[r].method = "eth_accounts"
    /\ Answered(r, Accounts(IF connected[r] THEN session ELSE NoWallet))

\* Mutant: any site is answered at once while the wallet is unlocked.
KnownSiteUnlocked(r) == session # NoWallet

KnownSite(r) == connected[r] /\ session # NoWallet

AnswerKnownSite(r) ==
    /\ Ask[r].method = "eth_requestAccounts"
    /\ KnownSite(r)
    /\ Answered(r, Accounts(session))

RefuseUnconnected(r) ==
    /\ Ask[r].method \in {"eth_sendTransaction", "personal_sign"}
    /\ ~connected[r]
    /\ Answered(r, Outcome("unauthorized"))

NeedsDialog(r) ==
    \/ Ask[r].method = "eth_requestAccounts" /\ ~KnownSite(r)
    \/ Ask[r].method \in {"eth_sendTransaction", "personal_sign"} /\ connected[r]

ScreenOut(r) ==
    /\ NeedsDialog(r)
    /\ ScreenNewRequest(r) # "none"
    /\ Answered(r, Outcome(ScreenNewRequest(r)))

\* queueApproval: into the Map, and windows.create is called.
Enqueue(r) ==
    /\ stage[r] = "asked"
    /\ NeedsDialog(r)
    /\ ScreenNewRequest(r) = "none"
    /\ stage' = [stage EXCEPT ![r] = "queued"]
    /\ pending' = pending \cup {r}
    /\ creating' = creating \cup {r}
    /\ window' = [window EXCEPT ![r] = "requested"]
    /\ UNCHANGED <<connected, answer, hasId, job, view>>
    /\ UNCHANGED <<walletVars, nodeVars>>

-----------------------------------------------------------------------------
(* The approval window, in the browser and in the worker.                  *)

WindowOpens(r) ==
    /\ window[r] = "requested"
    /\ window' = [window EXCEPT ![r] = "open"]
    /\ UNCHANGED <<workerVars, view, walletVars, nodeVars>>

\* windows.create settles; the entry learns the window's id if there is one.
CreateSettles(r) ==
    /\ r \in creating
    /\ window[r] # "requested"
    /\ creating' = creating \ {r}
    /\ \/ hasId' = hasId \cup {r}
       \/ WindowIdMayBeMissing /\ hasId' = hasId
    /\ UNCHANGED <<stage, connected, pending, answer, job>>
    /\ UNCHANGED <<screenVars, walletVars, nodeVars>>

\* Mutant: a failed window answers the dApp but keeps the entry.
CreateFailsKeepsEntry(r) ==
    /\ r \in creating
    /\ window[r] = "requested"
    /\ window' = [window EXCEPT ![r] = "none"]
    /\ creating' = creating \ {r}
    /\ Resolve(r, Outcome("internal"))
    /\ UNCHANGED <<pending, connected, hasId, job, view>>
    /\ UNCHANGED <<walletVars, nodeVars>>

CreateFails(r) ==
    /\ r \in creating
    /\ window[r] = "requested"
    /\ window' = [window EXCEPT ![r] = "none"]
    /\ creating' = creating \ {r}
    /\ pending' = pending \ {r}
    /\ Resolve(r, Outcome("internal"))
    /\ UNCHANGED <<connected, hasId, job, view>>
    /\ UNCHANGED <<walletVars, nodeVars>>

CloseWindow(r) ==
    /\ window[r] = "open"
    /\ window' = [window EXCEPT ![r] = "closed"]
    /\ view' = [view EXCEPT ![r] = BlankView]
    /\ UNCHANGED <<workerVars, walletVars, nodeVars>>

\* Mutant: the entry is deleted and the dApp is not told.
WindowRemovedSilently(r) ==
    /\ window[r] = "closed"
    /\ window' = [window EXCEPT ![r] = "gone"]
    /\ pending' = pending \ (hasId \cap {r})
    /\ UNCHANGED <<stage, answer, connected, creating, hasId, job, view>>
    /\ UNCHANGED <<walletVars, nodeVars>>

\* Mutant: nobody listens to windows.onRemoved.
WindowRemovedUnheard(r) ==
    /\ window[r] = "closed"
    /\ window' = [window EXCEPT ![r] = "gone"]
    /\ UNCHANGED <<workerVars, view, walletVars, nodeVars>>

\* windows.onRemoved: a known window closed without a decision is a refusal.
WindowRemoved(r) ==
    /\ window[r] = "closed"
    /\ window' = [window EXCEPT ![r] = "gone"]
    /\ IF r \in pending \cap hasId
       THEN /\ pending' = pending \ {r}
            /\ Resolve(r, Outcome("userRejected"))
       ELSE UNCHANGED <<pending, stage, answer>>
    /\ UNCHANGED <<connected, creating, hasId, job, view>>
    /\ UNCHANGED <<walletVars, nodeVars>>

-----------------------------------------------------------------------------
(* The Approve screen.                                                     *)

\* On mount: GetPendingRequests and GetSessionState, once.
ViewLoads(r) ==
    /\ window[r] = "open"
    /\ view[r].screen = "blank"
    /\ view' = [view EXCEPT ![r] =
         [screen |-> IF r \in pending THEN "shown" ELSE "empty",
          seen |-> [signer |-> session, fee |-> NoFee],
          waits |-> NoDecision, failed |-> FALSE]]
    /\ UNCHANGED <<workerVars, window, walletVars, nodeVars>>

\* fetchTxParams(signer): the snapshot is taken once and kept (staleTime).
FeeArrives(r) ==
    /\ window[r] = "open"
    /\ view[r].screen = "shown"
    /\ RequiresFeeSnapshot(Ask[r].method)
    /\ view[r].seen.signer # NoWallet
    /\ view[r].seen.fee = NoFee
    /\ \E f \in Fees :
         view' = [view EXCEPT ![r].seen = [signer |-> @.signer, fee |-> f]]
    /\ UNCHANGED <<workerVars, window, walletVars, nodeVars>>

\* A reload starts the screen afresh; a decision it sent keeps running.
ReloadView(r) ==
    /\ window[r] = "open"
    /\ view[r].screen = "shown"
    /\ view' = [view EXCEPT ![r] = BlankView]
    /\ UNCHANGED <<workerVars, window, walletVars, nodeVars>>

CanDecide(r) ==
    /\ window[r] = "open"
    /\ view[r].screen = "shown"
    /\ view[r].waits = NoDecision

\* resolveApproval(approved = false) has no await; the window then closes.
PressReject(r) ==
    /\ CanDecide(r)
    /\ IF r \in pending
       THEN /\ pending' = pending \ {r}
            /\ Resolve(r, Outcome("userRejected"))
       ELSE UNCHANGED <<pending, stage, answer>>
    /\ window' = [window EXCEPT ![r] = "closed"]
    /\ view' = [view EXCEPT ![r] = BlankView]
    /\ UNCHANGED <<connected, creating, hasId, job>>
    /\ UNCHANGED <<walletVars, nodeVars>>

\* Mutant: the entry is not looked up again.
ApprovableGone(r) ==
    /\ RequiresFeeSnapshot(Ask[r].method) => view[r].seen.fee # NoFee
    /\ session # NoWallet

\* resolveApproval finds the entry, wants a fee snapshot for a transaction,
\* and approvedOutcome wants an unlocked session.
Approvable(r) ==
    /\ r \in pending
    /\ RequiresFeeSnapshot(Ask[r].method) => view[r].seen.fee # NoFee
    /\ session # NoWallet

\* resolveApproval(approved = true) up to its first await, the read of sites.
PressApprove(r, d) ==
    /\ CanDecide(r)
    /\ job[d] = Idle
    /\ Approvable(r)
    /\ job' = [job EXCEPT ![d] = [pc |-> "reading", req |-> r,
                                  seen |-> view[r].seen, saw |-> {}]]
    /\ view' = [view EXCEPT ![r].waits = d, ![r].failed = FALSE]
    /\ granted' = IF Ask[r].method = "eth_requestAccounts"
                  THEN granted \cup {Ask[r].origin} ELSE granted
    /\ UNCHANGED <<stage, connected, pending, answer, creating, hasId, window>>
    /\ UNCHANGED <<session, sites, revoking, nodeVars>>

\* The same press when the worker refuses at once: the screen shows why.
ApproveRefused(r) ==
    /\ CanDecide(r)
    /\ RequiresFeeSnapshot(Ask[r].method) => view[r].seen.fee # NoFee
    /\ ~Approvable(r)
    /\ view' = [view EXCEPT ![r].failed = TRUE]
    /\ UNCHANGED <<workerVars, window, walletVars, nodeVars>>

-----------------------------------------------------------------------------
(* approvedOutcome and sendDappTransaction, await by await.                *)

\* resolveApproval ends well: entry removed, dApp answered, window closes.
Finish(d, a) ==
    LET r == job[d].req
        awaited == view[r].waits = d
    IN /\ job' = [job EXCEPT ![d] = Idle]
       /\ pending' = pending \ {r}
       /\ Resolve(r, a)
       /\ window' = IF awaited THEN [window EXCEPT ![r] = "closed"] ELSE window
       /\ view' = IF awaited THEN [view EXCEPT ![r] = BlankView] ELSE view
       /\ UNCHANGED <<connected, creating, hasId>>

\* resolveApproval ends badly: the entry stays, the screen shows the error.
Fail(d) ==
    LET r == job[d].req
    IN /\ job' = [job EXCEPT ![d] = Idle]
       /\ view' = IF view[r].waits = d
                  THEN [view EXCEPT ![r].waits = NoDecision, ![r].failed = TRUE]
                  ELSE view
       /\ UNCHANGED <<stage, connected, pending, answer, creating, hasId, window>>
       /\ UNCHANGED <<walletVars, nodeVars>>

Advance(d, to) ==
    /\ job' = [job EXCEPT ![d] = to]
    /\ UNCHANGED <<stage, connected, pending, answer, creating, hasId, screenVars>>

At(d, pc, method) == job[d].pc = pc /\ Ask[job[d].req].method = method

\* readSites, in addConnectedSite and in isOriginConnected.
SitesRead(d) ==
    /\ job[d].pc = "reading"
    /\ Advance(d, [job[d] EXCEPT !.pc = "read", !.saw = sites])
    /\ UNCHANGED <<walletVars, nodeVars>>

\* addConnectedSite writes back the list it read, with the origin added.
AddSite(d) ==
    /\ At(d, "read", "eth_requestAccounts")
    /\ sites' = job[d].saw \cup {Ask[job[d].req].origin}
    /\ Advance(d, [job[d] EXCEPT !.pc = "written"])
    /\ UNCHANGED <<session, revoking, granted, nodeVars>>

ConnectDone(d) ==
    /\ At(d, "written", "eth_requestAccounts")
    /\ Finish(d, Accounts(session))
    /\ UNCHANGED <<walletVars, nodeVars>>

StillConnected(d) == Ask[job[d].req].origin \in job[d].saw

Revoked(d) ==
    /\ job[d].pc = "read"
    /\ Ask[job[d].req].method \in {"eth_sendTransaction", "personal_sign"}
    /\ ~StillConnected(d)
    /\ Fail(d)

\* personal_sign with the session of this moment; none, and it fails.
PersonalSign(d) ==
    /\ At(d, "read", "personal_sign")
    /\ StillConnected(d)
    /\ session # NoWallet
    /\ signed' = signed \cup {[req |-> job[d].req, by |-> session, fee |-> NoFee,
                               nonce |-> 0, seen |-> job[d].seen]}
    /\ Finish(d, Accounts(session))
    /\ UNCHANGED <<walletVars, chain>>

PersonalSignLocked(d) ==
    /\ At(d, "read", "personal_sign")
    /\ StillConnected(d)
    /\ session = NoWallet
    /\ Fail(d)

FetchParams(d) ==
    /\ At(d, "read", "eth_sendTransaction")
    /\ StillConnected(d)
    /\ Advance(d, [pc |-> "params", req |-> job[d].req, seen |-> job[d].seen,
                   from |-> session])
    /\ UNCHANGED <<walletVars, nodeVars>>

\* The node's "pending" transaction count of an account.
NextNonce(w) == Cardinality({t \in chain : t.by = w})

\* Mutant: the fees fetched with the nonce are signed.
BuildWithFetchedFee(snapshot, fetched) == [fee |-> fetched.fee, nonce |-> fetched.nonce]

\* Mutant: the nonce is taken one too high.
BuildWithNextNonce(snapshot, fetched) == [fee |-> snapshot, nonce |-> fetched.nonce + 1]

\* buildDappTxParams: fees from the snapshot, only the nonce from the network.
BuildDappTxParams(snapshot, fetched) == [fee |-> snapshot, nonce |-> fetched.nonce]

\* Params arrive, and the session of this moment signs in the same task.
SignTransaction(d) ==
    /\ job[d].pc = "params"
    /\ job[d].from # NoWallet
    /\ session # NoWallet
    /\ NextNonce(job[d].from) <= MaxNonce
    /\ \E f \in Fees :
         LET built == BuildDappTxParams(job[d].seen.fee,
                                        [fee |-> f, nonce |-> NextNonce(job[d].from)])
             tx == [req |-> job[d].req, by |-> session, fee |-> built.fee,
                    nonce |-> built.nonce, seen |-> job[d].seen]
         IN /\ signed' = signed \cup {tx}
            /\ Advance(d, [pc |-> "broadcasting", req |-> job[d].req,
                           seen |-> job[d].seen, tx |-> tx])
    /\ UNCHANGED <<walletVars, chain>>

\* The request fails (backend, timeout, no account) or the session is locked.
ParamsFail(d) ==
    /\ job[d].pc = "params"
    /\ Fail(d)

\* A transaction sent to the node may be accepted at any later moment.
Conflicts(t) == \E u \in chain : u.by = t.by /\ u.nonce = t.nonce

NodeAccepts(t) ==
    /\ RequiresFeeSnapshot(Ask[t.req].method)
    /\ ~Conflicts(t)
    /\ chain' = chain \cup {t}
    /\ UNCHANGED <<workerVars, screenVars, walletVars, signed>>

\* Mutant: the dApp gets the hash before a node has the transaction.
BroadcastAssumed(d) ==
    /\ job[d].pc = "broadcasting"
    /\ Finish(d, Accounts(job[d].tx.by))
    /\ UNCHANGED <<walletVars, nodeVars>>

BroadcastDone(d) ==
    /\ job[d].pc = "broadcasting"
    /\ job[d].tx \in chain
    /\ Finish(d, Accounts(job[d].tx.by))
    /\ UNCHANGED <<walletVars, nodeVars>>

\* Mutant: the broadcast has no timeout, only the node's refusal ends it.
BroadcastRefusedOnly(d) ==
    /\ job[d].pc = "broadcasting"
    /\ Conflicts(job[d].tx) /\ job[d].tx \notin chain
    /\ Fail(d)

\* An error or no answer within 30 s, whether or not the node has it.
BroadcastFails(d) ==
    /\ job[d].pc = "broadcasting"
    /\ Fail(d)

-----------------------------------------------------------------------------
(* The session and the permissions change under the queue.                 *)

Lock ==
    /\ session # NoWallet
    /\ session' = NoWallet
    /\ UNCHANGED <<workerVars, screenVars, sites, revoking, granted, nodeVars>>

Unlock(w) ==
    /\ session # w
    /\ session' = w
    /\ UNCHANGED <<workerVars, screenVars, sites, revoking, granted, nodeVars>>

\* removeConnectedSite reads the list (ConnectedSites.tsx disables its
\* buttons until one revocation has answered) ...
StartRevoke(o) ==
    /\ revoking = NotRevoking
    /\ revoking' = [busy |-> TRUE, origin |-> o, saw |-> sites]
    /\ UNCHANGED <<workerVars, screenVars, session, sites, granted, nodeVars>>

\* ... and writes it back without the origin.
FinishRevoke ==
    /\ revoking.busy
    /\ sites' = revoking.saw \ {revoking.origin}
    /\ revoking' = NotRevoking
    /\ UNCHANGED <<workerVars, screenVars, session, granted, nodeVars>>

RevokeAll ==
    /\ revoking = NotRevoking
    /\ sites # {}
    /\ sites' = {}
    /\ UNCHANGED <<workerVars, screenVars, session, revoking, granted, nodeVars>>

\* The browser stops the worker: its memory is gone, every open message
\* channel closes (content.ts answers "Wallet is unavailable"), windows stay.
WorkerStops ==
    /\ WorkerMayStop
    /\ session' = NoWallet
    /\ pending' = {} /\ creating' = {} /\ hasId' = {}
    /\ job' = [d \in Decisions |-> Idle]
    /\ revoking' = NotRevoking
    /\ stage' = [r \in Requests |-> IF stage[r] = "unsent" THEN "unsent" ELSE "answered"]
    /\ answer' = [r \in Requests |-> IF stage[r] \in {"asking", "asked", "queued"}
                                     THEN Outcome("unavailable") ELSE answer[r]]
    /\ view' = [r \in Requests |->
                  IF view[r].waits = NoDecision THEN view[r]
                  ELSE [view[r] EXCEPT !.waits = NoDecision, !.failed = TRUE]]
    /\ UNCHANGED <<connected, window, sites, granted, nodeVars>>

-----------------------------------------------------------------------------

HandleRpc(r) ==
    \/ ReadConnected(r)
    \/ AnswerAccounts(r) \/ AnswerKnownSite(r) \/ RefuseUnconnected(r)
    \/ ScreenOut(r) \/ Enqueue(r)

WindowEvent(r) == CreateSettles(r) \/ CreateFails(r) \/ WindowRemoved(r)

UserStep(r) ==
    \/ CloseWindow(r) \/ ReloadView(r) \/ PressReject(r) \/ ApproveRefused(r)
    \/ \E d \in Decisions : PressApprove(r, d)

DecisionStep(d) ==
    \/ SitesRead(d) \/ AddSite(d) \/ ConnectDone(d)
    \/ Revoked(d) \/ PersonalSign(d) \/ PersonalSignLocked(d)
    \/ FetchParams(d) \/ SignTransaction(d) \/ ParamsFail(d)
    \/ BroadcastDone(d) \/ BroadcastFails(d)

WalletStep ==
    \/ Lock \/ (\E w \in Wallets : Unlock(w))
    \/ (\E o \in Origins : StartRevoke(o)) \/ FinishRevoke \/ RevokeAll
    \/ WorkerStops

Next ==
    \/ \E r \in Requests :
         \/ SendRequest(r) \/ HandleRpc(r)
         \/ WindowOpens(r) \/ WindowEvent(r)
         \/ ViewLoads(r) \/ FeeArrives(r) \/ UserStep(r)
    \/ \E d \in Decisions : DecisionStep(d)
    \/ \E t \in signed : NodeAccepts(t)
    \/ WalletStep

Spec == Init /\ [][Next]_vars

\* What the browser guarantees: a storage call, a fetch (30 s timeout) and
\* windows.create settle, and a closed window is reported.  Nothing is
\* assumed of the user, the node, or the sites.
Fairness ==
    /\ \A r \in Requests : /\ WF_vars(HandleRpc(r))
                           /\ WF_vars(WindowOpens(r))
                           /\ WF_vars(WindowEvent(r))
    /\ \A d \in Decisions : WF_vars(DecisionStep(d))

FairSpec == Spec /\ Fairness

-----------------------------------------------------------------------------
(* Safety.                                                                 *)

\* A site never has more than MAX_PENDING_PER_ORIGIN requests waiting for a
\* decision, however its calls interleave (screenNewRequest in queueApproval).
QueueWithinLimit ==
    \A o \in Origins : Cardinality(FromOrigin(o)) <= MAX_PENDING_PER_ORIGIN

\* The queue never holds two requests with the same origin, method and
\* params (requestFingerprint), though each call is screened after an await.
NoTwins ==
    \A p, q \in pending : Fingerprint(p) = Fingerprint(q) => p = q

\* A call waits exactly as long as its entry is in the queue: nothing leaves
\* pendingRequests without answering the dApp, and nothing answered stays.
WaitingIsQueued ==
    \A r \in Requests :
      /\ stage[r] = "queued" <=> r \in pending
      /\ stage[r] = "answered" <=> answer[r].kind # "none"

\* A site is told an address only if the user approved one of its
\* eth_requestAccounts before; later calls rely on the stored permission.
AddressOnlyAfterGrant ==
    \A r \in Requests :
      answer[r].kind = "ok" /\ answer[r].wallet # NoWallet
        => Ask[r].origin \in granted

\* The fees in a signed transaction are the ones the Approve screen showed,
\* not the ones fetched again with the nonce (buildDappTxParams).
SignedFeeWasShown ==
    \A t \in signed : /\ t.fee = t.seen.fee
                      /\ RequiresFeeSnapshot(Ask[t.req].method) => t.fee \in Fees

\* A dApp told its transaction was sent has a transaction at the node.
OkMeansAtNode ==
    \A r \in Requests :
      answer[r].kind = "ok" /\ Ask[r].method = "eth_sendTransaction"
        => \E t \in chain : t.req = r

\* A call that was answered and has no approval running is over: whatever
\* stale windows are still open (reloads, a stopped worker), no approval of it
\* starts and nothing is signed for it again (the lookup in resolveApproval).
Settled(r) ==
    /\ stage[r] = "answered"
    /\ \A d \in Decisions : job[d] = Idle \/ job[d].req # r

NoSignatureAfterDecision ==
    [][\A r \in Requests : Settled(r) =>
         Settled(r)' /\ \A t \in signed' \ signed : t.req # r]_vars

\* The whole machinery of windows, screens, storage and session implements
\* the promise made to a dApp about its calls.
Promise == INSTANCE SigningPromise WITH
    SiteOf <- [r \in Requests |-> Ask[r].origin],
    Content <- [r \in Requests |-> Fingerprint(r)],
    MaxWaiting <- MAX_PENDING_PER_ORIGIN,
    Replies <- Kinds \ {"none"},
    Nothing <- "none",
    waiting <- pending,
    told <- [r \in Requests |-> answer[r].kind]

KeepsPromise == Promise!Spec

-----------------------------------------------------------------------------
(* Liveness, under FairSpec.                                               *)

\* Every decision the user sends gets its verdict: no path of
\* resolveApproval leaves the Approve screen waiting for ever.
DecisionsEnd ==
    \A d \in Decisions : job[d] # Idle ~> job[d] = Idle

\* A window closed while the queue knows its id releases its request.
KnownWindowReleases ==
    \A r \in Requests :
      (window[r] = "closed" /\ r \in hasId) ~> r \notin pending

-----------------------------------------------------------------------------
(* What a comment of the sources claims and the code does not keep.        *)

\* background.ts, the windows.onRemoved handler: a window closed without a
\* decision is a refusal.  No signature is made for a request after its dApp
\* was told that the user rejected it.
RejectedIsNotSigned ==
    [][\A t \in signed' \ signed : answer[t.req].kind # "userRejected"]_vars
=============================================================================
