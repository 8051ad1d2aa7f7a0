------------------------ MODULE DappApproval_proofs ------------------------
(* Theorems about the signing queue, for every value of the constants.     *)
EXTENDS DappApproval, FiniteSetTheorems, TLAPS

\* Types, and that the queue and the accepted transactions stay finite.
TypeInv == TypeOK /\ IsFiniteSet(pending) /\ IsFiniteSet(chain)

\* Groups of variables an action leaves alone, unfolded together.
LEMMA InitTypes == Init => TypeInv
  <1> SUFFICES ASSUME Init PROVE TypeInv
    OBVIOUS
  <1>1. IsFiniteSet(pending) /\ IsFiniteSet(chain)
    BY FS_EmptySet DEF Init
  <1>2. TypeOK
    BY DappAssumption DEF Init, TypeOK, Outcome, NothingSeen, BlankView, Answers, Kinds,
       Stages, Views, Seen, Idle, NotRevoking, Revocations
  <1> QED
    BY <1>1, <1>2 DEF TypeInv

\* Resolve keeps the types of the answers.
LEMMA ResolveTypes ==
  ASSUME TypeOK, NEW r, NEW a \in Answers, Resolve(r, a)
  PROVE  stage' \in [Requests -> Stages] /\ answer' \in [Requests -> Answers]
  BY DEF Resolve, TypeOK, Stages

LEMMA OutcomeTypes == \A kind \in Kinds : Outcome(kind) \in Answers
  BY DEF Outcome, Answers

LEMMA AccountsTypes == \A w \in Wallets \cup {NoWallet} : Accounts(w) \in Answers
  BY DEF Accounts, Answers, Kinds

LEMMA AskTypes == \A r \in Requests : Ask[r].origin \in Origins
  <1>1. \A r \in Requests : Ask[r] \in Calls
    BY DappAssumption
  <1> QED
    BY <1>1 DEF Calls

LEMMA RpcTypes ==
  ASSUME TypeInv, NEW r \in Requests, SendRequest(r) \/ HandleRpc(r)
  PROVE  TypeInv'
  <1> USE DEF TypeInv, workerVars, screenVars, walletVars, nodeVars
  <1>1. CASE SendRequest(r)
    BY <1>1 DEF SendRequest, TypeOK, Stages
  <1>2. CASE ReadConnected(r)
    BY <1>2 DEF ReadConnected, TypeOK, Stages
  <1>3. ASSUME NEW a \in Answers, Answered(r, a)
        PROVE  TypeInv'
    <2>1. stage' \in [Requests -> Stages] /\ answer' \in [Requests -> Answers]
      BY <1>3, ResolveTypes DEF Answered
    <2> QED
      BY <1>3, <2>1 DEF Answered, TypeOK
  <1>4. CASE AnswerAccounts(r)
    <2>1. (IF connected[r] THEN session ELSE NoWallet) \in Wallets \cup {NoWallet}
      BY DEF TypeOK
    <2> QED
      BY <1>3, <1>4, <2>1, AccountsTypes DEF AnswerAccounts
  <1>5. CASE AnswerKnownSite(r)
    BY <1>3, <1>5, AccountsTypes DEF AnswerKnownSite, TypeOK
  <1>6. CASE RefuseUnconnected(r)
    BY <1>3, <1>6, OutcomeTypes DEF RefuseUnconnected, Kinds
  <1>7. CASE ScreenOut(r)
    <2>1. ScreenNewRequest(r) \in Kinds
      BY DEF ScreenNewRequest, Kinds
    <2> QED
      BY <1>3, <1>7, <2>1, OutcomeTypes DEF ScreenOut
  <1>8. CASE Enqueue(r)
    <2>1. IsFiniteSet(pending')
      BY <1>8, FS_AddElement DEF Enqueue
    <2> QED
      BY <1>8, <2>1 DEF Enqueue, TypeOK, Stages
  <1> QED
    BY <1>1, <1>2, <1>4, <1>5, <1>6, <1>7, <1>8 DEF HandleRpc

LEMMA WindowTypes ==
  ASSUME TypeInv, NEW r \in Requests, WindowOpens(r) \/ WindowEvent(r)
  PROVE  TypeInv'
  <1> USE DEF TypeInv, workerVars, screenVars, walletVars, nodeVars
  <1>0. IsFiniteSet(pending \ {r})
    BY FS_RemoveElement
  <1>1. CASE WindowOpens(r)
    BY <1>1 DEF WindowOpens, TypeOK
  <1>2. CASE CreateSettles(r)
    BY <1>2 DEF CreateSettles, TypeOK
  <1>3. CASE CreateFails(r)
    <2>1. Outcome("internal") \in Answers
      BY OutcomeTypes DEF Kinds
    <2>2. stage' \in [Requests -> Stages] /\ answer' \in [Requests -> Answers]
      BY <1>3, <2>1, ResolveTypes DEF CreateFails
    <2> QED
      BY <1>0, <1>3, <2>2 DEF CreateFails, TypeOK
  <1>4. CASE WindowRemoved(r)
    <2>1. Outcome("userRejected") \in Answers
      BY OutcomeTypes DEF Kinds
    <2>2. stage' \in [Requests -> Stages] /\ answer' \in [Requests -> Answers]
      BY <1>4, <2>1, ResolveTypes DEF WindowRemoved, TypeOK
    <2> QED
      BY <1>0, <1>4, <2>2 DEF WindowRemoved, TypeOK
  <1> QED
    BY <1>1, <1>2, <1>3, <1>4 DEF WindowEvent

LEMMA ScreenTypes ==
  ASSUME TypeInv, NEW r \in Requests, ViewLoads(r) \/ FeeArrives(r) \/ UserStep(r)
  PROVE  TypeInv'
  <1> USE DEF TypeInv, workerVars, screenVars, walletVars, nodeVars
  <1>0. BlankView \in Views
    BY DEF BlankView, NothingSeen, Views, Seen
  <1>1. CASE ViewLoads(r)
    <2>1. view' \in [Requests -> Views]
      BY <1>1 DEF ViewLoads, TypeOK, Views, Seen
    <2> QED
      BY <1>1, <2>1 DEF ViewLoads, TypeOK
  <1>2. CASE FeeArrives(r)
    <2>1. PICK f \in Fees : view' = [view EXCEPT ![r].seen = [signer |-> @.signer, fee |-> f]]
      BY <1>2 DEF FeeArrives
    <2>2. view[r] \in Views /\ view[r].seen \in Seen
      BY DEF TypeOK, Views
    <2>3. [signer |-> view[r].seen.signer, fee |-> f] \in Seen
      BY <2>2 DEF Seen
    <2>4. [view[r] EXCEPT !.seen = [signer |-> @.signer, fee |-> f]] \in Views
      BY <2>2, <2>3 DEF Views
    <2>5. view' \in [Requests -> Views]
      BY <2>1, <2>4 DEF TypeOK
    <2> QED
      BY <1>2, <2>5 DEF FeeArrives, TypeOK
  <1>3. CASE CloseWindow(r)
    BY <1>0, <1>3 DEF CloseWindow, TypeOK
  <1>4. CASE ReloadView(r)
    BY <1>0, <1>4 DEF ReloadView, TypeOK
  <1>5. CASE PressReject(r)
    <2>1. Outcome("userRejected") \in Answers
      BY OutcomeTypes DEF Kinds
    <2>2. stage' \in [Requests -> Stages] /\ answer' \in [Requests -> Answers]
      BY <1>5, <2>1, ResolveTypes DEF PressReject, TypeOK
    <2>3. IsFiniteSet(pending')
      BY <1>5, FS_RemoveElement DEF PressReject
    <2> QED
      BY <1>0, <1>5, <2>2, <2>3 DEF PressReject, TypeOK
  <1>6. CASE ApproveRefused(r)
    <2>1. view' \in [Requests -> Views]
      BY ZenonT(60), <1>6 DEF ApproveRefused, TypeOK, Views
    <2> QED
      BY <1>6, <2>1 DEF ApproveRefused, TypeOK
  <1>7. ASSUME NEW d \in Decisions, PressApprove(r, d)
        PROVE  TypeInv'
    <2>1. view' \in [Requests -> Views] /\ view[r].seen \in Seen
      <3>1. view[r] \in Views /\ view[r].seen \in Seen
        BY DEF TypeOK, Views
      <3>2. [view[r] EXCEPT !.waits = d, !.failed = FALSE] \in Views
        BY <3>1 DEF Views
      <3>3. view' = [view EXCEPT ![r] = [view[r] EXCEPT !.waits = d, !.failed = FALSE]]
        BY <1>7 DEF PressApprove, TypeOK
      <3> QED
        BY <3>1, <3>2, <3>3 DEF TypeOK
    <2>2. job' \in [Decisions -> {Idle} \cup Jobs]
      BY <1>7, <2>1 DEF PressApprove, TypeOK, Jobs
    <2>3. granted' \in SUBSET Origins
      BY <1>7, AskTypes DEF PressApprove, TypeOK
    <2> QED
      BY <1>7, <2>1, <2>2, <2>3 DEF PressApprove, TypeOK
  <1> QED
    BY <1>1, <1>2, <1>3, <1>4, <1>5, <1>6, <1>7 DEF UserStep

\* The steps of resolveApproval that end it, well or badly.
LEMMA FinishTypes ==
  ASSUME TypeInv, NEW d \in Decisions, job[d] \in Jobs, NEW a \in Answers, Finish(d, a)
  PROVE  /\ stage' \in [Requests -> Stages] /\ answer' \in [Requests -> Answers]
         /\ pending' \in SUBSET Requests /\ IsFiniteSet(pending')
         /\ window' \in [Requests -> {"none", "requested", "open", "closed", "gone"}]
         /\ view' \in [Requests -> Views]
         /\ job' \in [Decisions -> {Idle} \cup Jobs]
         /\ UNCHANGED <<connected, creating, hasId>>
  <1>1. job[d].req \in Requests
    BY DEF Jobs
  <1>2. BlankView \in Views
    BY DEF BlankView, NothingSeen, Views, Seen
  <1>3. stage' \in [Requests -> Stages] /\ answer' \in [Requests -> Answers]
    BY ResolveTypes DEF Finish, TypeInv
  <1>4. IsFiniteSet(pending \ {job[d].req})
    BY FS_RemoveElement DEF TypeInv
  <1> QED
    BY <1>1, <1>2, <1>3, <1>4 DEF Finish, TypeInv, TypeOK

LEMMA FailTypes ==
  ASSUME TypeInv, NEW d \in Decisions, job[d] \in Jobs, Fail(d)
  PROVE  TypeInv'
  <1>1. job[d].req \in Requests
    BY DEF Jobs
  <1>2. view' \in [Requests -> Views]
    <2>1. view[job[d].req] \in Views
      BY <1>1 DEF TypeInv, TypeOK
    <2>2. [view[job[d].req] EXCEPT !.waits = NoDecision, !.failed = TRUE] \in Views
      BY <2>1 DEF Views
    <2>3. view' = view \/ view' = [view EXCEPT ![job[d].req] =
                [view[job[d].req] EXCEPT !.waits = NoDecision, !.failed = TRUE]]
      BY <1>1 DEF Fail, TypeInv, TypeOK
    <2> QED
      BY <2>2, <2>3 DEF TypeInv, TypeOK
  <1> QED
    BY <1>2 DEF Fail, TypeInv, TypeOK, walletVars, nodeVars

\* Only a decision in progress takes a step.
LEMMA Underway ==
  ASSUME NEW d \in Decisions, DecisionStep(d)
  PROVE  job[d] # Idle
  <1>1. ASSUME job[d] = Idle PROVE job[d].pc = "idle"
    BY <1>1 DEF Idle
  <1>2. SitesRead(d) \/ AddSite(d) \/ ConnectDone(d) => job[d].pc # "idle"
    BY DEF SitesRead, AddSite, ConnectDone, At
  <1>3. Revoked(d) => job[d].pc # "idle"
    BY DEF Revoked
  <1>4. PersonalSign(d) => job[d].pc # "idle"
    BY DEF PersonalSign, At
  <1>5. PersonalSignLocked(d) => job[d].pc # "idle"
    BY DEF PersonalSignLocked, At
  <1>6. FetchParams(d) => job[d].pc # "idle"
    BY DEF FetchParams, At
  <1>7. SignTransaction(d) => job[d].pc # "idle"
    <2>1. SignTransaction(d) => job[d].pc = "params"
      BY Zenon DEF SignTransaction
    <2> QED BY <2>1
  <1>8. ParamsFail(d) \/ BroadcastDone(d) \/ BroadcastFails(d) => job[d].pc # "idle"
    BY DEF ParamsFail, BroadcastDone, BroadcastFails
  <1> QED
    BY <1>1, <1>2, <1>3, <1>4, <1>5, <1>6, <1>7, <1>8, Zenon DEF DecisionStep

\* What is signed, and how the decision goes on.
LEMMA SignForm ==
  ASSUME NEW d \in Decisions, SignTransaction(d)
  PROVE  \E tx : /\ tx.req = job[d].req /\ signed' = signed \cup {tx}
                 /\ Advance(d, [pc |-> "broadcasting", req |-> job[d].req,
                                seen |-> job[d].seen, tx |-> tx])
  <1> DEFINE Built(f) == BuildDappTxParams(job[d].seen.fee,
                                           [fee |-> f, nonce |-> NextNonce(job[d].from)])
             Tx(f) == [req |-> job[d].req, by |-> session, fee |-> Built(f).fee,
                       nonce |-> Built(f).nonce, seen |-> job[d].seen]
  <1>1. PICK f \in Fees :
           /\ signed' = signed \cup {Tx(f)}
           /\ Advance(d, [pc |-> "broadcasting", req |-> job[d].req,
                          seen |-> job[d].seen, tx |-> Tx(f)])
    BY Zenon DEF SignTransaction
  <1>2. Tx(f).req = job[d].req
    OBVIOUS
  <1> HIDE DEF Tx
  <1> QED
    BY <1>1, <1>2

LEMMA DecisionTypes ==
  ASSUME TypeInv, NEW d \in Decisions, DecisionStep(d)
  PROVE  TypeInv'
  <1> USE DEF TypeInv, workerVars, screenVars, walletVars, nodeVars
  <1>0. job[d] \in Jobs
    <2>1. job[d] # Idle
      BY Underway
    <2> QED
      BY <2>1 DEF TypeOK
  <1>r. job[d].req \in Requests /\ job[d].seen \in Seen
    BY <1>0 DEF Jobs
  <1>1. CASE SitesRead(d)
    <2>1. [job[d] EXCEPT !.pc = "read", !.saw = sites] \in Jobs
      BY <1>0, <1>1 DEF SitesRead, Jobs, TypeOK
    <2> QED
      BY <1>1, <2>1 DEF SitesRead, Advance, TypeOK
  <1>2. CASE AddSite(d)
    <2>1. [job[d] EXCEPT !.pc = "written"] \in Jobs /\ job[d].saw \in SUBSET Origins
      BY <1>0, <1>2 DEF AddSite, At, Jobs
    <2>2. sites' \in SUBSET Origins
      BY <1>2, <1>r, <2>1, AskTypes DEF AddSite
    <2> QED
      BY <1>2, <2>1, <2>2 DEF AddSite, Advance, TypeOK
  <1>3. CASE ConnectDone(d)
    <2>1. Accounts(session) \in Answers
      BY AccountsTypes DEF TypeOK
    <2> QED
      BY <1>0, <1>3, <2>1, FinishTypes DEF ConnectDone, TypeOK
  <1>4. CASE Revoked(d) \/ PersonalSignLocked(d) \/ ParamsFail(d) \/ BroadcastFails(d)
    BY <1>0, <1>4, FailTypes DEF Revoked, PersonalSignLocked, ParamsFail, BroadcastFails
  <1>5. CASE PersonalSign(d)
    <2>1. Accounts(session) \in Answers /\ session \in Wallets
      BY <1>5, AccountsTypes DEF TypeOK, PersonalSign
    <2>2. signed' \in SUBSET Signatures
      BY <1>5, <1>r, <2>1, DappAssumption DEF PersonalSign, TypeOK, Signatures
    <2> QED
      BY <1>0, <1>5, <2>1, <2>2, FinishTypes DEF PersonalSign, TypeOK
  <1>6. CASE FetchParams(d)
    <2>1. [pc |-> "params", req |-> job[d].req, seen |-> job[d].seen, from |-> session] \in Jobs
      BY <1>r DEF Jobs, TypeOK
    <2> QED
      BY <1>6, <2>1 DEF FetchParams, Advance, TypeOK
  <1>7. CASE SignTransaction(d)
    <2> DEFINE n == NextNonce(job[d].from)
               tx == [req |-> job[d].req, by |-> session, fee |-> job[d].seen.fee,
                      nonce |-> n, seen |-> job[d].seen]
    <2>1. n \in 0..MaxNonce
      <3>1. n \in Nat
        BY FS_Subset, FS_CardinalityType DEF NextNonce
      <3> QED
        BY <1>7, <3>1, DappAssumption DEF SignTransaction
    <2>2. tx \in Signatures
      BY <1>7, <1>r, <2>1 DEF SignTransaction, TypeOK, Signatures, Seen
    <2>3. [pc |-> "broadcasting", req |-> job[d].req, seen |-> job[d].seen, tx |-> tx] \in Jobs
      BY <1>r, <2>2 DEF Jobs
    <2>4. /\ signed' = signed \cup {tx}
          /\ Advance(d, [pc |-> "broadcasting", req |-> job[d].req,
                         seen |-> job[d].seen, tx |-> tx])
          /\ UNCHANGED <<walletVars, chain>>
      BY <1>7 DEF SignTransaction, BuildDappTxParams
    <2> HIDE DEF tx
    <2> QED
      BY <2>2, <2>3, <2>4 DEF Advance, TypeOK
  <1>8. CASE BroadcastDone(d)
    <2>1. Accounts(job[d].tx.by) \in Answers
      <3>1. job[d].tx \in Signatures
        BY <1>8 DEF BroadcastDone, TypeOK
      <3> QED
        BY <3>1, AccountsTypes DEF Signatures
    <2> QED
      BY <1>0, <1>8, <2>1, FinishTypes DEF BroadcastDone, TypeOK
  <1> QED
    BY <1>1, <1>2, <1>3, <1>4, <1>5, <1>6, <1>7, <1>8 DEF DecisionStep

LEMMA NodeTypes ==
  ASSUME TypeInv, NEW t \in signed, NodeAccepts(t)
  PROVE  TypeInv'
  <1>1. IsFiniteSet(chain')
    BY FS_AddElement DEF NodeAccepts, TypeInv
  <1> QED
    BY <1>1 DEF NodeAccepts, TypeInv, TypeOK, workerVars, screenVars, walletVars

LEMMA WalletTypes ==
  ASSUME TypeInv, WalletStep
  PROVE  TypeInv'
  <1> USE DEF TypeInv, workerVars, screenVars, walletVars, nodeVars
  <1>1. CASE Lock
    BY <1>1 DEF Lock, TypeOK
  <1>2. ASSUME NEW w \in Wallets, Unlock(w) PROVE TypeInv'
    BY <1>2 DEF Unlock, TypeOK
  <1>3. ASSUME NEW o \in Origins, StartRevoke(o) PROVE TypeInv'
    BY <1>3 DEF StartRevoke, TypeOK, Revocations
  <1>4. CASE FinishRevoke
    <2>1. revoking \in Revocations
      BY <1>4 DEF FinishRevoke, TypeOK, NotRevoking
    <2> QED
      BY <1>4, <2>1 DEF FinishRevoke, TypeOK, Revocations
  <1>5. CASE RevokeAll
    BY <1>5 DEF RevokeAll, TypeOK
  <1>6. CASE WorkerStops
    <2>1. answer' \in [Requests -> Answers]
      BY <1>6, OutcomeTypes DEF WorkerStops, TypeOK, Kinds
    <2>2. view' \in [Requests -> Views]
      BY ZenonT(60), <1>6 DEF WorkerStops, TypeOK, Views
    <2>3. stage' \in [Requests -> Stages]
      BY <1>6 DEF WorkerStops, Stages
    <2> QED
      BY <1>6, <2>1, <2>2, <2>3, FS_EmptySet DEF WorkerStops, TypeOK
  <1> QED
    BY <1>1, <1>2, <1>3, <1>4, <1>5, <1>6 DEF WalletStep

LEMMA TypeStep == TypeInv /\ [Next]_vars => TypeInv'
  <1> SUFFICES ASSUME TypeInv, [Next]_vars PROVE TypeInv'
    OBVIOUS
  <1>1. CASE UNCHANGED vars
    BY <1>1 DEF vars, TypeInv, TypeOK
  <1>2. CASE Next
    BY <1>2, RpcTypes, WindowTypes, ScreenTypes, DecisionTypes, NodeTypes, WalletTypes
       DEF Next
  <1> QED
    BY <1>1, <1>2

\* The type invariant of the queue, its windows, its decisions and the node
\* holds for any number of calls, sites, wallets and concurrent decisions.
THEOREM TypeCorrect == Spec => []TypeOK
  <1>1. TypeInv /\ [Next]_vars => TypeInv'
    BY TypeStep
  <1>2. TypeInv => TypeOK
    BY DEF TypeInv
  <1> QED
    BY <1>1, <1>2, InitTypes, PTL DEF Spec

-----------------------------------------------------------------------------
(* The queue.  Every step does one of four things to it.                   *)

\* The call is on its way and neither waits nor is answered.
Travelling(s) == s \in {"unsent", "asking", "asked"}

Passes ==
  /\ UNCHANGED <<pending, answer>>
  /\ stage' \in [Requests -> Stages]
  /\ \A r \in Requests : stage'[r] # stage[r] => Travelling(stage[r]) /\ Travelling(stage'[r])

Resolves(r) ==
  /\ pending' = pending \ {r}
  /\ \E a \in Answers : a.kind # "none" /\ Resolve(r, a)

QueueInv == TypeInv /\ WaitingIsQueued /\ NoTwins /\ QueueWithinLimit

LEMMA FinishResolves ==
  ASSUME TypeInv, NEW d \in Decisions, job[d] # Idle,
         NEW w \in Wallets \cup {NoWallet}, Finish(d, Accounts(w))
  PROVE  \E r \in Requests : Resolves(r)
  <1>1. job[d].req \in Requests
    BY DEF TypeInv, TypeOK, Jobs
  <1>2. Accounts(w) \in Answers /\ Accounts(w).kind # "none"
    BY AccountsTypes DEF Accounts
  <1> QED
    BY <1>1, <1>2 DEF Finish, Resolves

LEMMA QueueStep ==
  ASSUME TypeInv, WaitingIsQueued, Next
  PROVE  \/ Passes
         \/ \E r \in Requests : Resolves(r)
         \/ \E r \in Requests : Enqueue(r)
         \/ WorkerStops
  <1> USE DEF TypeInv, workerVars, screenVars, walletVars, nodeVars
  <1>q. UNCHANGED <<pending, answer, stage>> => Passes
    BY DEF Passes, TypeOK
  <1>o. \A kind \in Kinds \ {"none"} :
          Outcome(kind) \in Answers /\ Outcome(kind).kind # "none"
    BY OutcomeTypes DEF Outcome
  <1>a. \A w \in Wallets \cup {NoWallet} :
          Accounts(w) \in Answers /\ Accounts(w).kind # "none"
    BY AccountsTypes DEF Accounts
  <1>1. ASSUME NEW r \in Requests, SendRequest(r) \/ HandleRpc(r)
        PROVE  Passes \/ Resolves(r) \/ Enqueue(r)
    <2>1. CASE SendRequest(r) \/ ReadConnected(r)
      BY <2>1 DEF SendRequest, ReadConnected, Passes, Travelling, TypeOK, Stages
    <2>2. ASSUME NEW a \in Answers, a.kind # "none", Answered(r, a) PROVE Resolves(r)
      <3>1. pending' = pending \ {r}
        BY <2>2 DEF Answered, WaitingIsQueued
      <3> QED
        BY <2>2, <3>1 DEF Answered, Resolves
    <2>3. CASE AnswerAccounts(r)
      <3>1. (IF connected[r] THEN session ELSE NoWallet) \in Wallets \cup {NoWallet}
        BY DEF TypeOK
      <3> QED
        BY <1>a, <2>2, <2>3, <3>1 DEF AnswerAccounts
    <2>4. CASE AnswerKnownSite(r)
      BY <1>a, <2>2, <2>4 DEF AnswerKnownSite, TypeOK
    <2>5. CASE RefuseUnconnected(r)
      BY <1>o, <2>2, <2>5 DEF RefuseUnconnected, Kinds
    <2>6. CASE ScreenOut(r)
      <3>1. ScreenNewRequest(r) \in Kinds \ {"none"}
        BY <2>6 DEF ScreenOut, ScreenNewRequest, Kinds
      <3> QED
        BY <1>o, <2>2, <2>6, <3>1 DEF ScreenOut
    <2> QED
      BY <1>1, <2>1, <2>3, <2>4, <2>5, <2>6 DEF HandleRpc
  <1>2. ASSUME NEW r \in Requests, WindowOpens(r) \/ WindowEvent(r)
        PROVE  Passes \/ Resolves(r)
    <2>1. CASE WindowOpens(r) \/ CreateSettles(r)
      BY <1>q, <2>1 DEF WindowOpens, CreateSettles
    <2>2. CASE CreateFails(r)
      BY <1>o, <2>2 DEF CreateFails, Resolves, Kinds
    <2>3. CASE WindowRemoved(r)
      BY <1>o, <1>q, <2>3 DEF WindowRemoved, Resolves, Kinds
    <2> QED
      BY <1>2, <2>1, <2>2, <2>3 DEF WindowEvent
  <1>3. ASSUME NEW r \in Requests, ViewLoads(r) \/ FeeArrives(r) \/ UserStep(r)
        PROVE  Passes \/ Resolves(r)
    <2>1. CASE PressReject(r)
      BY <1>o, <1>q, <2>1 DEF PressReject, Resolves, Kinds
    <2>2. CASE ~PressReject(r)
      BY <1>3, <1>q, <2>2 DEF ViewLoads, FeeArrives, UserStep, CloseWindow, ReloadView,
         ApproveRefused, PressApprove
    <2> QED
      BY <2>1, <2>2
  <1>4. ASSUME NEW d \in Decisions, DecisionStep(d)
        PROVE  Passes \/ \E r \in Requests : Resolves(r)
    <2>1. CASE ConnectDone(d)
      BY <2>1, FinishResolves DEF ConnectDone, At, TypeOK, Idle
    <2>2. CASE PersonalSign(d)
      BY <2>2, FinishResolves DEF PersonalSign, At, TypeOK, Idle
    <2>3. CASE BroadcastDone(d)
      <3>1. job[d].tx.by \in Wallets \cup {NoWallet}
        BY <2>3 DEF BroadcastDone, TypeOK, Signatures
      <3> QED
        BY <2>3, <3>1, FinishResolves DEF BroadcastDone, Idle
    <2>4. CASE Revoked(d) \/ PersonalSignLocked(d) \/ ParamsFail(d) \/ BroadcastFails(d)
      BY <1>q, <2>4 DEF Revoked, PersonalSignLocked, ParamsFail, BroadcastFails, Fail
    <2>5. CASE SitesRead(d) \/ AddSite(d) \/ FetchParams(d) \/ SignTransaction(d)
      BY <1>q, <2>5 DEF SitesRead, AddSite, FetchParams, SignTransaction, Advance
    <2> QED
      BY <1>4, <2>1, <2>2, <2>3, <2>4, <2>5 DEF DecisionStep
  <1>5. ASSUME NEW t \in signed, NodeAccepts(t)
        PROVE  Passes
    BY <1>5, <1>q DEF NodeAccepts
  <1>6. CASE WalletStep
    BY <1>6, <1>q DEF WalletStep, Lock, Unlock, StartRevoke, FinishRevoke, RevokeAll
  <1> QED
    BY <1>1, <1>2, <1>3, <1>4, <1>5, <1>6 DEF Next

\* Leaving the queue can break neither of its bounds.
LEMMA SmallerQueue ==
  ASSUME QueueInv, pending' \subseteq pending
  PROVE  NoTwins' /\ QueueWithinLimit'
  <1>1. NoTwins'
    BY DEF QueueInv, NoTwins, Fingerprint
  <1>2. ASSUME NEW o \in Origins
        PROVE  Cardinality(FromOrigin(o)') <= MAX_PENDING_PER_ORIGIN
    <2>1. FromOrigin(o)' \subseteq FromOrigin(o)
      BY DEF FromOrigin
    <2>2. IsFiniteSet(FromOrigin(o))
      BY FS_Subset DEF FromOrigin, QueueInv, TypeInv
    <2>3. /\ Cardinality(FromOrigin(o)') <= Cardinality(FromOrigin(o))
          /\ Cardinality(FromOrigin(o)) \in Nat
          /\ Cardinality(FromOrigin(o)') \in Nat
      BY <2>1, <2>2, FS_Subset, FS_CardinalityType
    <2> QED
      BY <2>3, DappAssumption DEF QueueInv, QueueWithinLimit
  <1> QED
    BY <1>1, <1>2 DEF QueueWithinLimit

\* Enqueue screens and inserts in one task, so both bounds survive.
LEMMA EnqueueKeepsBounds ==
  ASSUME QueueInv, NEW r \in Requests, Enqueue(r)
  PROVE  NoTwins' /\ QueueWithinLimit'
  <1> DEFINE from == FromOrigin(Ask[r].origin)
  <1>0. /\ ~ \E p \in from : Fingerprint(p) = Fingerprint(r)
        /\ ~ (Cardinality(from) >= MAX_PENDING_PER_ORIGIN)
        /\ pending' = pending \cup {r}
    BY DEF Enqueue, ScreenNewRequest
  <1>1. NoTwins'
    <2>1. \A p \in pending : Fingerprint(p) # Fingerprint(r)
      BY <1>0 DEF FromOrigin, Fingerprint
    <2> QED
      BY <1>0, <2>1 DEF NoTwins, QueueInv, Fingerprint
  <1>2. ASSUME NEW o \in Origins
        PROVE  Cardinality(FromOrigin(o)') <= MAX_PENDING_PER_ORIGIN
    <2>1. IsFiniteSet(FromOrigin(o)) /\ Cardinality(FromOrigin(o)) \in Nat
      BY FS_Subset, FS_CardinalityType DEF FromOrigin, QueueInv, TypeInv
    <2>2. CASE o = Ask[r].origin
      <3>1. FromOrigin(o)' = FromOrigin(o) \cup {r}
        BY <1>0, <2>2 DEF FromOrigin
      <3>2. Cardinality(FromOrigin(o)') <= Cardinality(FromOrigin(o)) + 1
        <4>1. Cardinality(FromOrigin(o) \cup {r}) = Cardinality(FromOrigin(o))
                \/ Cardinality(FromOrigin(o) \cup {r}) = Cardinality(FromOrigin(o)) + 1
          BY <2>1, FS_AddElement
        <4>2. Cardinality(FromOrigin(o)') = Cardinality(FromOrigin(o) \cup {r})
          BY <3>1, Zenon
        <4> QED
          BY <2>1, <4>1, <4>2
      <3>3. Cardinality(FromOrigin(o)) < MAX_PENDING_PER_ORIGIN
        BY <1>0, <2>1, <2>2, DappAssumption
      <3>4. Cardinality(FromOrigin(o)') \in Nat
        BY <2>1, <3>1, FS_AddElement, FS_CardinalityType
      <3> QED
        BY <2>1, <3>2, <3>3, <3>4, DappAssumption
    <2>3. CASE o # Ask[r].origin
      <3>1. FromOrigin(o)' = FromOrigin(o)
        BY <1>0, <2>3 DEF FromOrigin
      <3> QED
        BY <3>1 DEF QueueInv, QueueWithinLimit
    <2> QED
      BY <2>2, <2>3
  <1> QED
    BY <1>1, <1>2 DEF QueueWithinLimit

LEMMA QueueInvStep == QueueInv /\ [Next]_vars => QueueInv'
  <1> SUFFICES ASSUME QueueInv, [Next]_vars PROVE QueueInv'
    OBVIOUS
  <1>t. TypeInv'
    BY TypeStep DEF QueueInv
  <1>1. CASE UNCHANGED vars \/ Passes
    <2>1. WaitingIsQueued'
      BY <1>1 DEF vars, Passes, Travelling, QueueInv, WaitingIsQueued
    <2> QED
      BY <1>1, <1>t, <2>1, SmallerQueue DEF vars, Passes, QueueInv
  <1>2. ASSUME NEW r \in Requests, Resolves(r) PROVE QueueInv'
    <2>1. WaitingIsQueued'
      BY <1>2 DEF Resolves, Resolve, QueueInv, TypeInv, TypeOK, WaitingIsQueued
    <2> QED
      BY <1>2, <1>t, <2>1, SmallerQueue DEF Resolves, QueueInv
  <1>3. ASSUME NEW r \in Requests, Enqueue(r) PROVE QueueInv'
    <2>1. WaitingIsQueued'
      BY <1>3 DEF Enqueue, QueueInv, TypeInv, TypeOK, WaitingIsQueued
    <2> QED
      BY <1>3, <1>t, <2>1, EnqueueKeepsBounds DEF QueueInv
  <1>4. CASE WorkerStops
    <2>1. WaitingIsQueued'
      BY <1>4 DEF WorkerStops, QueueInv, TypeInv, TypeOK, WaitingIsQueued, Outcome, Stages
    <2> QED
      BY <1>4, <1>t, <2>1, SmallerQueue DEF WorkerStops, QueueInv
  <1> QED
    BY <1>1, <1>2, <1>3, <1>4, QueueStep DEF QueueInv

LEMMA QueueInvInit == Init => QueueInv
  <1> SUFFICES ASSUME Init PROVE QueueInv
    OBVIOUS
  <1>1. TypeInv
    BY InitTypes
  <1>2. WaitingIsQueued /\ NoTwins
    BY DEF Init, WaitingIsQueued, NoTwins, Outcome
  <1>3. \A o \in Origins : FromOrigin(o) = {}
    BY DEF Init, FromOrigin
  <1>4. QueueWithinLimit
    BY <1>3, FS_EmptySet, DappAssumption DEF QueueWithinLimit
  <1> QED
    BY <1>1, <1>2, <1>4 DEF QueueInv

LEMMA QueueInvariant == Spec => []QueueInv
  BY QueueInvInit, QueueInvStep, PTL DEF Spec

\* Whatever the calls, windows, decisions and worker restarts, a site never
\* has more than MAX_PENDING_PER_ORIGIN requests in pendingRequests.
THEOREM LimitCorrect == Spec => []QueueWithinLimit
  <1>1. QueueInv => QueueWithinLimit
    BY DEF QueueInv
  <1> QED
    BY <1>1, QueueInvariant, PTL

\* pendingRequests never holds two requests with one fingerprint.
THEOREM TwinsCorrect == Spec => []NoTwins
  <1>1. QueueInv => NoTwins
    BY DEF QueueInv
  <1> QED
    BY <1>1, QueueInvariant, PTL

\* An entry leaves pendingRequests exactly when its dApp is answered.
THEOREM WaitingCorrect == Spec => []WaitingIsQueued
  <1>1. QueueInv => WaitingIsQueued
    BY DEF QueueInv
  <1> QED
    BY <1>1, QueueInvariant, PTL

-----------------------------------------------------------------------------
(* DappApproval implements SigningPromise.                                 *)

told == [r \in Requests |-> answer[r].kind]

LEMMA PromiseResolves ==
  ASSUME QueueInv, QueueInv', NEW r \in Requests, Resolves(r)
  PROVE  Promise!Answer(r) \/ Promise!Decide(r) \/ UNCHANGED <<pending, told>>
  <1> PICK a \in Answers : a.kind # "none" /\ Resolve(r, a)
    BY DEF Resolves
  <1>1. a.kind \in Kinds \ {"none"}
    BY DEF Answers
  <1>2. CASE stage[r] = "answered"
    <2>1. pending' = pending /\ answer' = answer
      BY <1>2 DEF Resolves, Resolve, QueueInv, WaitingIsQueued, TypeInv, TypeOK
    <2> QED
      BY <2>1 DEF told
  <1>3. CASE stage[r] # "answered"
    <2>1. told' = [told EXCEPT ![r] = a.kind]
      BY <1>3 DEF Resolve, told, QueueInv, TypeInv, TypeOK
    <2>2. CASE r \in pending
      BY <1>1, <2>1, <2>2 DEF Promise!Decide, Resolves, told
    <2>3. CASE r \notin pending
      <3>1. told[r] = "none" /\ pending' = pending
        BY <1>3, <2>3 DEF told, QueueInv, WaitingIsQueued, Resolves
      <3> QED
        BY <1>1, <2>1, <2>3, <3>1 DEF Promise!Answer, Promise!Untold, told
    <2> QED
      BY <2>2, <2>3
  <1> QED
    BY <1>2, <1>3

\* The instance's Cardinality is the one of this module.
LEMMA SameCardinality ==
  ASSUME NEW S PROVE Promise!Cardinality(S) = Cardinality(S)
  BY Zenon DEF Promise!Cardinality, Cardinality

LEMMA PromiseEnqueue ==
  ASSUME QueueInv, NEW r \in Requests, Enqueue(r)
  PROVE  Promise!Wait(r)
  <1> DEFINE from == FromOrigin(Ask[r].origin)
  <1>1. r \in Promise!Untold
    BY DEF Enqueue, Promise!Untold, QueueInv, WaitingIsQueued
  <1>2. \A p \in pending : Fingerprint(p) # Fingerprint(r)
    BY DEF Enqueue, ScreenNewRequest, FromOrigin, Fingerprint
  <1>3. Cardinality(from) < MAX_PENDING_PER_ORIGIN
    <2>1. Cardinality(from) \in Nat
      BY FS_Subset, FS_CardinalityType DEF FromOrigin, QueueInv, TypeInv
    <2>2. ~ (Cardinality(from) >= MAX_PENDING_PER_ORIGIN)
      BY DEF Enqueue, ScreenNewRequest
    <2> QED
      BY <2>1, <2>2, DappAssumption
  <1>4. {p \in pending : [q \in Requests |-> Ask[q].origin][p]
                          = [q \in Requests |-> Ask[q].origin][r]} = from
    BY DEF FromOrigin, QueueInv, TypeInv, TypeOK
  <1>5. pending' = pending \cup {r} /\ answer' = answer
    BY DEF Enqueue
  <1>6. Promise!Cardinality(from) < MAX_PENDING_PER_ORIGIN
    BY <1>3, SameCardinality
  <1> QED
    BY <1>1, <1>2, <1>4, <1>5, <1>6 DEF Promise!Wait, QueueInv, TypeInv, TypeOK

LEMMA PromiseStops ==
  ASSUME QueueInv, WorkerStops
  PROVE  Promise!GoAway
  <1> DEFINE S == {r \in Requests : stage[r] \in {"asking", "asked"}}
  <1>1. S \in SUBSET Promise!Untold
    BY DEF Promise!Untold, QueueInv, WaitingIsQueued
  <1>2. told' = [r \in Requests |-> IF r \in pending \cup S THEN "unavailable" ELSE told[r]]
    BY DEF WorkerStops, told, Outcome, QueueInv, WaitingIsQueued
  <1>3. pending' = {} /\ "unavailable" \in Kinds \ {"none"}
    BY DEF WorkerStops, Kinds
  <1> QED
    BY <1>1, <1>2, <1>3 DEF Promise!GoAway, told

\* Every behaviour of the queue is one the promise to the dApp allows.
THEOREM PromiseKept == Spec => KeepsPromise
  <1>1. Init => Promise!Init
    BY DEF Init, Promise!Init, Outcome
  <1>2. QueueInv /\ QueueInv' /\ [Next]_vars => [Promise!Next]_<<pending, told>>
    <2> SUFFICES ASSUME QueueInv, QueueInv', [Next]_vars
                 PROVE  [Promise!Next]_<<pending, told>>
      OBVIOUS
    <2>1. CASE UNCHANGED vars \/ Passes
      BY <2>1 DEF vars, Passes, told
    <2>2. ASSUME NEW r \in Requests, Resolves(r)
          PROVE  [Promise!Next]_<<pending, told>>
      BY <2>2, PromiseResolves DEF Promise!Next
    <2>3. ASSUME NEW r \in Requests, Enqueue(r)
          PROVE  Promise!Next
      BY <2>3, PromiseEnqueue DEF Promise!Next
    <2>4. CASE WorkerStops
      BY <2>4, PromiseStops DEF Promise!Next
    <2> QED
      BY <2>1, <2>2, <2>3, <2>4, QueueStep DEF QueueInv
  <1>3. QueueInv /\ QueueInv' /\ [Next]_vars
          => [Promise!Next]_<<pending, [r \in Requests |-> answer[r].kind]>>
    BY <1>2 DEF told
  <1> QED
    BY <1>1, <1>3, QueueInvariant, PTL DEF Spec, KeepsPromise, Promise!Spec

-----------------------------------------------------------------------------
(* Decisions, answers and signatures.                                      *)

\* One decision is in progress for its request; every other step of the
\* worker leaves the jobs alone, starts one or drops them all.
LEMMA JobsChange ==
  ASSUME TypeInv, Next, NEW d \in Decisions
  PROVE  \/ job'[d] = job[d]
         \/ job'[d] = Idle
         \/ \E r \in Requests : PressApprove(r, d)
         \/ SitesRead(d) \/ AddSite(d) \/ FetchParams(d) \/ SignTransaction(d)
  <1> USE DEF workerVars, screenVars, walletVars, nodeVars
  <1>1. ASSUME NEW r \in Requests,
               SendRequest(r) \/ HandleRpc(r) \/ WindowOpens(r) \/ WindowEvent(r)
               \/ ViewLoads(r) \/ FeeArrives(r)
        PROVE  job' = job
    BY <1>1 DEF SendRequest, HandleRpc, ReadConnected, AnswerAccounts, AnswerKnownSite,
       RefuseUnconnected, ScreenOut, Answered, Enqueue, WindowOpens, WindowEvent,
       CreateSettles, CreateFails, WindowRemoved, ViewLoads, FeeArrives
  <1>2. ASSUME NEW r \in Requests, UserStep(r)
        PROVE  job'[d] = job[d] \/ PressApprove(r, d)
    <2>1. CASE CloseWindow(r) \/ ReloadView(r) \/ PressReject(r) \/ ApproveRefused(r)
      BY <2>1 DEF CloseWindow, ReloadView, PressReject, ApproveRefused
    <2>2. ASSUME NEW e \in Decisions, PressApprove(r, e)
          PROVE  job'[d] = job[d] \/ PressApprove(r, d)
      BY <2>2 DEF PressApprove, TypeInv, TypeOK
    <2> QED
      BY <1>2, <2>1, <2>2 DEF UserStep
  <1>3. ASSUME NEW e \in Decisions, DecisionStep(e)
        PROVE  \/ job'[d] = job[d] \/ job'[d] = Idle
               \/ SitesRead(d) \/ AddSite(d) \/ FetchParams(d) \/ SignTransaction(d)
    <2>1. CASE SitesRead(e) \/ AddSite(e) \/ FetchParams(e) \/ SignTransaction(e)
      <3>1. CASE e = d
        BY <2>1, <3>1
      <3>2. CASE e # d
        BY <2>1, <3>2 DEF SitesRead, AddSite, FetchParams, SignTransaction, Advance,
           TypeInv, TypeOK
      <3> QED
        BY <3>1, <3>2
    <2>2. CASE \/ ConnectDone(e) \/ Revoked(e) \/ PersonalSign(e) \/ PersonalSignLocked(e)
               \/ ParamsFail(e) \/ BroadcastDone(e) \/ BroadcastFails(e)
      <3>1. job' = [job EXCEPT ![e] = Idle]
        BY <2>2 DEF ConnectDone, Revoked, PersonalSign, PersonalSignLocked, ParamsFail,
           BroadcastDone, BroadcastFails, Finish, Fail
      <3> QED
        BY <3>1 DEF TypeInv, TypeOK
    <2> QED
      BY <1>3, <2>1, <2>2 DEF DecisionStep
  <1>4. ASSUME NEW t \in signed, NodeAccepts(t)
        PROVE  job' = job
    BY <1>4 DEF NodeAccepts
  <1>5. CASE WalletStep
    BY <1>5 DEF WalletStep, Lock, Unlock, StartRevoke, FinishRevoke, RevokeAll, WorkerStops
  <1> QED
    BY <1>1, <1>2, <1>3, <1>4, <1>5 DEF Next

\* A decision that goes on keeps its request and what its screen showed.
LEMMA JobGoesOn ==
  ASSUME TypeInv, NEW d \in Decisions,
         SitesRead(d) \/ AddSite(d) \/ FetchParams(d) \/ SignTransaction(d)
  PROVE  job'[d].req = job[d].req /\ job'[d].seen = job[d].seen
  <1>1. ASSUME NEW to, Advance(d, to) PROVE job'[d] = to
    BY <1>1 DEF Advance, TypeInv, TypeOK
  <1>2. job[d] # Idle /\ job[d] \in Jobs
    <2>1. job[d] # Idle
      BY Underway DEF DecisionStep
    <2> QED
      BY <2>1 DEF TypeInv, TypeOK
  <1>3. CASE SitesRead(d)
    <2>1. job'[d] = [job[d] EXCEPT !.pc = "read", !.saw = sites]
      BY <1>1, <1>3 DEF SitesRead
    <2> QED
      BY <1>2, <1>3, <2>1 DEF SitesRead, Jobs
  <1>4. CASE AddSite(d)
    <2>1. job'[d] = [job[d] EXCEPT !.pc = "written"]
      BY <1>1, <1>4 DEF AddSite
    <2> QED
      BY <1>2, <1>4, <2>1 DEF AddSite, At, Jobs
  <1>5. CASE FetchParams(d)
    BY <1>1, <1>5 DEF FetchParams
  <1>6. CASE SignTransaction(d)
    <2>1. PICK tx : Advance(d, [pc |-> "broadcasting", req |-> job[d].req,
                               seen |-> job[d].seen, tx |-> tx])
      BY <1>6, SignForm
    <2>2. job'[d] = [pc |-> "broadcasting", req |-> job[d].req, seen |-> job[d].seen, tx |-> tx]
      BY <1>1, <2>1, Zenon
    <2> QED
      BY <2>2
  <1> QED
    BY <1>3, <1>4, <1>5, <1>6

\* Only a decision in progress signs, and for its own request.
LEMMA SignedChange ==
  ASSUME TypeInv, Next
  PROVE  \/ signed' = signed
         \/ \E d \in Decisions : PersonalSign(d) \/ SignTransaction(d)
  <1> USE DEF workerVars, screenVars, walletVars, nodeVars
  <1>1. ASSUME NEW r \in Requests,
               SendRequest(r) \/ HandleRpc(r) \/ WindowOpens(r) \/ WindowEvent(r)
               \/ ViewLoads(r) \/ FeeArrives(r)
        PROVE  signed' = signed
    BY <1>1 DEF SendRequest, HandleRpc, ReadConnected, AnswerAccounts, AnswerKnownSite,
       RefuseUnconnected, ScreenOut, Answered, Enqueue, WindowOpens, WindowEvent,
       CreateSettles, CreateFails, WindowRemoved, ViewLoads, FeeArrives
  <1>2. ASSUME NEW r \in Requests, UserStep(r)
        PROVE  signed' = signed
    BY <1>2 DEF UserStep, CloseWindow, ReloadView, PressReject, ApproveRefused, PressApprove
  <1>3. ASSUME NEW d \in Decisions, DecisionStep(d)
        PROVE  signed' = signed \/ PersonalSign(d) \/ SignTransaction(d)
    BY <1>3 DEF DecisionStep, SitesRead, AddSite, FetchParams, Advance, ConnectDone, Revoked,
       PersonalSignLocked, ParamsFail, BroadcastDone, BroadcastFails, Fail
  <1>4. ASSUME NEW t \in signed, NodeAccepts(t)
        PROVE  signed' = signed
    BY <1>4 DEF NodeAccepts
  <1>5. CASE WalletStep
    BY <1>5 DEF WalletStep, Lock, Unlock, StartRevoke, FinishRevoke, RevokeAll, WorkerStops
  <1> QED
    BY <1>1, <1>2, <1>3, <1>4, <1>5 DEF Next

\* The request a signature is made for is the one of a running decision.
LEMMA SignsItsRequest ==
  ASSUME TypeInv, NEW d \in Decisions, PersonalSign(d) \/ SignTransaction(d),
         NEW t \in signed' \ signed
  PROVE  job[d] # Idle /\ job[d].req = t.req
  <1>1. CASE PersonalSign(d)
    BY <1>1 DEF PersonalSign, At, Idle
  <1>2. CASE SignTransaction(d)
    <2>1. job[d] # Idle
      BY <1>2, Underway DEF DecisionStep
    <2> QED
      BY <1>2, <2>1, SignForm
  <1> QED
    BY <1>1, <1>2

\* An answer, once given, stays: no later step of any window, decision or
\* restart makes the call wait again.
LEMMA AnswersStay ==
  ASSUME QueueInv, Next, NEW r \in Requests, stage[r] = "answered"
  PROVE  stage'[r] = "answered"
  <1>1. CASE Passes
    BY <1>1 DEF Passes, Travelling
  <1>2. ASSUME NEW q \in Requests, Resolves(q) PROVE stage'[r] = "answered"
    BY <1>2 DEF Resolves, Resolve, QueueInv, TypeInv, TypeOK
  <1>3. ASSUME NEW q \in Requests, Enqueue(q) PROVE stage'[r] = "answered"
    BY <1>3 DEF Enqueue, QueueInv, TypeInv, TypeOK
  <1>4. CASE WorkerStops
    BY <1>4 DEF WorkerStops
  <1> QED
    BY <1>1, <1>2, <1>3, <1>4, QueueStep DEF QueueInv

LEMMA SettledStep ==
  ASSUME QueueInv, [Next]_vars, NEW r \in Requests, Settled(r)
  PROVE  Settled(r)' /\ \A t \in signed' \ signed : t.req # r
  <1>1. CASE UNCHANGED vars
    BY <1>1 DEF vars, Settled
  <1>2. CASE Next
    <2>1. stage'[r] = "answered"
      BY <1>2, AnswersStay DEF Settled
    <2>2. ASSUME NEW d \in Decisions
          PROVE  job'[d] = Idle \/ job'[d].req # r
      <3>1. CASE job'[d] = job[d] \/ job'[d] = Idle
        BY <3>1 DEF Settled
      <3>2. ASSUME NEW q \in Requests, PressApprove(q, d)
            PROVE  job'[d].req # r
        <4>1. q \in pending /\ stage[q] = "queued"
          BY <3>2 DEF PressApprove, Approvable, QueueInv, WaitingIsQueued
        <4>2. job'[d].req = q
          BY <3>2 DEF PressApprove, QueueInv, TypeInv, TypeOK
        <4> QED
          BY <4>1, <4>2 DEF Settled
      <3>3. CASE SitesRead(d) \/ AddSite(d) \/ FetchParams(d) \/ SignTransaction(d)
        <4>1. job[d] # Idle
          BY <3>3, Underway DEF DecisionStep
        <4>2. job'[d].req = job[d].req
          BY <3>3, JobGoesOn DEF QueueInv
        <4> QED
          BY <4>1, <4>2 DEF Settled
      <3> QED
        BY <1>2, <3>1, <3>2, <3>3, JobsChange DEF QueueInv
    <2>3. ASSUME NEW t \in signed' \ signed
          PROVE  t.req # r
      BY <1>2, <2>3, SignedChange, SignsItsRequest DEF QueueInv, Settled
    <2> QED
      BY <2>1, <2>2, <2>3 DEF Settled
  <1> QED
    BY <1>1, <1>2

\* Nothing is signed for a call that was answered and has no approval
\* running, and no approval of it starts, whatever windows are left open:
\* resolveApproval looks the entry up again, and answered calls have none.
THEOREM DecisionsAreFinal == Spec => NoSignatureAfterDecision
  <1>1. QueueInv /\ [Next]_vars
          => [\A r \in Requests : Settled(r) =>
                Settled(r)' /\ \A t \in signed' \ signed : t.req # r]_vars
    BY SettledStep
  <1> QED
    BY <1>1, QueueInvariant, PTL DEF Spec, NoSignatureAfterDecision

-----------------------------------------------------------------------------
(* Fees and hashes.                                                        *)

\* Only a transaction's screen has a fee snapshot, its approval starts with
\* one, and what is being broadcast was made for the request in hand.
ShownFits ==
  \A r \in Requests : view[r].seen.fee # NoFee => RequiresFeeSnapshot(Ask[r].method)

JobFits(d) ==
  job[d] # Idle =>
    /\ IF RequiresFeeSnapshot(Ask[job[d].req].method) THEN job[d].seen.fee \in Fees
                                                      ELSE job[d].seen.fee = NoFee
    /\ job[d].pc \in {"params", "broadcasting"} => RequiresFeeSnapshot(Ask[job[d].req].method)
    /\ job[d].pc = "broadcasting" => job[d].tx.req = job[d].req

JobsFit == \A d \in Decisions : JobFits(d)

FeeInv == QueueInv /\ ShownFits /\ JobsFit /\ SignedFeeWasShown /\ OkMeansAtNode

LEMMA ShownStep ==
  ASSUME TypeInv, ShownFits, Next
  PROVE  ShownFits'
  <1> USE DEF workerVars, screenVars, walletVars, nodeVars
  <1>0. BlankView.seen.fee = NoFee
    BY DEF BlankView, NothingSeen
  <1>k. (\A r \in Requests : view'[r].seen = view[r].seen \/ view'[r].seen.fee = NoFee)
          => ShownFits'
    BY DEF ShownFits
  <1>1. ASSUME NEW r \in Requests,
               SendRequest(r) \/ HandleRpc(r) \/ WindowOpens(r) \/ WindowEvent(r)
        PROVE  view' = view
    BY <1>1 DEF SendRequest, HandleRpc, ReadConnected, AnswerAccounts, AnswerKnownSite,
       RefuseUnconnected, ScreenOut, Answered, Enqueue, WindowOpens, WindowEvent,
       CreateSettles, CreateFails, WindowRemoved
  <1>2. ASSUME NEW r \in Requests, FeeArrives(r)
        PROVE  ShownFits'
    <2>1. \A q \in Requests : q # r => view'[q] = view[q]
      BY <1>2 DEF FeeArrives, TypeInv, TypeOK
    <2>2. RequiresFeeSnapshot(Ask[r].method)
      BY <1>2 DEF FeeArrives
    <2> QED
      BY <2>1, <2>2 DEF ShownFits
  <1>3. ASSUME NEW r \in Requests, ViewLoads(r) \/ UserStep(r)
        PROVE  ShownFits'
    <2>1. CASE ViewLoads(r) \/ CloseWindow(r) \/ ReloadView(r)
      BY <1>0, <1>k, <2>1 DEF ViewLoads, CloseWindow, ReloadView, TypeInv, TypeOK
    <2>2. CASE PressReject(r)
      BY <1>0, <1>k, <2>2 DEF PressReject, TypeInv, TypeOK
    <2>3. CASE ApproveRefused(r) \/ \E d \in Decisions : PressApprove(r, d)
      <3>1. \A q \in Requests : view'[q].seen = view[q].seen
        <4>1. view[r] \in Views
          BY DEF TypeInv, TypeOK
        <4>2. PICK to : to.seen = view[r].seen /\ view' = [view EXCEPT ![r] = to]
          <5>1. CASE ApproveRefused(r)
            <6>1. [view[r] EXCEPT !.failed = TRUE].seen = view[r].seen
              BY <4>1 DEF Views
            <6> QED
              BY <5>1, <6>1 DEF ApproveRefused, TypeInv, TypeOK
          <5>2. ASSUME NEW d \in Decisions, PressApprove(r, d)
                PROVE  \E to : to.seen = view[r].seen /\ view' = [view EXCEPT ![r] = to]
            <6>1. [view[r] EXCEPT !.waits = d, !.failed = FALSE].seen = view[r].seen
              BY <4>1 DEF Views
            <6>2. view' = [view EXCEPT ![r] = [view[r] EXCEPT !.waits = d, !.failed = FALSE]]
              BY <5>2 DEF PressApprove, TypeInv, TypeOK
            <6> QED
              BY <6>1, <6>2
          <5> QED
            BY <2>3, <5>1, <5>2
        <4> QED
          BY <4>2 DEF TypeInv, TypeOK
      <3> QED
        BY <3>1, <1>k
    <2> QED
      BY <1>3, <2>1, <2>2, <2>3 DEF UserStep
  <1>4. ASSUME NEW d \in Decisions, DecisionStep(d)
        PROVE  ShownFits'
    <2>1. CASE SitesRead(d) \/ AddSite(d) \/ FetchParams(d) \/ SignTransaction(d)
      BY <1>k, <2>1 DEF SitesRead, AddSite, FetchParams, SignTransaction, Advance
    <2>2. CASE Revoked(d) \/ PersonalSignLocked(d) \/ ParamsFail(d) \/ BroadcastFails(d)
      <3>1. Fail(d)
        BY <2>2 DEF Revoked, PersonalSignLocked, ParamsFail, BroadcastFails
      <3>2. \A q \in Requests : view'[q].seen = view[q].seen
        BY <3>1 DEF Fail, TypeInv, TypeOK, Views
      <3> QED
        BY <3>2, <1>k
    <2>3. CASE ConnectDone(d) \/ PersonalSign(d) \/ BroadcastDone(d)
      <3>1. view' = view \/ view' = [view EXCEPT ![job[d].req] = BlankView]
        BY <2>3 DEF ConnectDone, PersonalSign, BroadcastDone, Finish
      <3> QED
        BY <1>0, <3>1, <1>k DEF TypeInv, TypeOK
    <2> QED
      BY <1>4, <2>1, <2>2, <2>3 DEF DecisionStep
  <1>5. ASSUME NEW t \in signed, NodeAccepts(t)
        PROVE  view' = view
    BY <1>5 DEF NodeAccepts
  <1>6. CASE WorkerStops
    <2>1. \A q \in Requests : view'[q].seen = view[q].seen
      BY <1>6 DEF WorkerStops, TypeInv, TypeOK, Views
    <2> QED
      BY <2>1, <1>k
  <1>7. CASE WalletStep /\ ~WorkerStops
    BY <1>7, <1>k DEF WalletStep, Lock, Unlock, StartRevoke, FinishRevoke, RevokeAll
  <1> QED
    BY <1>1, <1>2, <1>3, <1>4, <1>5, <1>6, <1>7, <1>k DEF Next

LEMMA JobsFitStep ==
  ASSUME TypeInv, ShownFits, JobsFit, Next, NEW d \in Decisions
  PROVE  JobFits(d)'
  <1>0. JobFits(d)
    BY DEF JobsFit
  <1>a. ASSUME NEW to, Advance(d, to) PROVE job'[d] = to
    BY <1>a DEF Advance, TypeInv, TypeOK
  <1>1. CASE job'[d] = job[d] \/ job'[d] = Idle
    BY <1>0, <1>1 DEF JobFits
  <1>2. ASSUME NEW r \in Requests, PressApprove(r, d)
        PROVE  JobFits(d)'
    <2>1. job'[d] = [pc |-> "reading", req |-> r, seen |-> view[r].seen, saw |-> {}]
      BY <1>2 DEF PressApprove, TypeInv, TypeOK
    <2>2. view[r].seen.fee \in Fees \cup {NoFee}
      BY DEF TypeInv, TypeOK, Views, Seen
    <2>3. IF RequiresFeeSnapshot(Ask[r].method) THEN view[r].seen.fee \in Fees
                                               ELSE view[r].seen.fee = NoFee
      BY <1>2, <2>2 DEF PressApprove, Approvable, ShownFits
    <2> QED
      BY <2>1, <2>3 DEF JobFits
  <1>3. CASE SitesRead(d) \/ AddSite(d)
    <2>1. job[d] # Idle
      BY <1>3 DEF SitesRead, AddSite, At, Idle
    <2>2. job'[d].pc \in {"read", "written"}
      <3>1. job[d] \in Jobs
        BY <2>1 DEF TypeInv, TypeOK
      <3>2. CASE SitesRead(d)
        <4>1. job'[d] = [job[d] EXCEPT !.pc = "read", !.saw = sites]
          BY <1>a, <3>2 DEF SitesRead
        <4> QED
          BY <3>1, <3>2, <4>1 DEF SitesRead, Jobs
      <3>3. CASE AddSite(d)
        <4>1. job'[d] = [job[d] EXCEPT !.pc = "written"]
          BY <1>a, <3>3 DEF AddSite
        <4> QED
          BY <3>1, <3>3, <4>1 DEF AddSite, At, Jobs
      <3> QED
        BY <1>3, <3>2, <3>3
    <2>3. job'[d].req = job[d].req /\ job'[d].seen = job[d].seen
      BY <1>3, JobGoesOn
    <2> QED
      BY <1>0, <2>1, <2>2, <2>3 DEF JobFits
  <1>4. CASE FetchParams(d)
    <2>1. job[d] # Idle /\ RequiresFeeSnapshot(Ask[job[d].req].method)
      BY <1>4 DEF FetchParams, At, Idle, RequiresFeeSnapshot
    <2>2. job'[d] = [pc |-> "params", req |-> job[d].req, seen |-> job[d].seen,
                     from |-> session]
      BY <1>a, <1>4 DEF FetchParams
    <2> QED
      BY <1>0, <2>1, <2>2 DEF JobFits
  <1>5. CASE SignTransaction(d)
    <2>1. job[d] # Idle /\ job[d].pc = "params"
      BY <1>5 DEF SignTransaction, Idle
    <2>2. PICK tx : /\ tx.req = job[d].req
                    /\ Advance(d, [pc |-> "broadcasting", req |-> job[d].req,
                                   seen |-> job[d].seen, tx |-> tx])
      BY <1>5 DEF SignTransaction
    <2>3. job'[d] = [pc |-> "broadcasting", req |-> job[d].req,
                     seen |-> job[d].seen, tx |-> tx]
      BY <1>a, <2>2
    <2> QED
      BY <1>0, <2>1, <2>2, <2>3 DEF JobFits
  <1> QED
    BY <1>1, <1>2, <1>3, <1>4, <1>5, JobsChange

LEMMA SignedStep ==
  ASSUME TypeInv, JobsFit, SignedFeeWasShown, Next
  PROVE  SignedFeeWasShown'
  <1>1. ASSUME NEW d \in Decisions, PersonalSign(d)
        PROVE  SignedFeeWasShown'
    <2>1. ~RequiresFeeSnapshot(Ask[job[d].req].method) /\ job[d] # Idle
      BY <1>1 DEF PersonalSign, At, RequiresFeeSnapshot, Idle
    <2>2. job[d].seen.fee = NoFee
      BY <2>1 DEF JobsFit, JobFits
    <2> QED
      BY <1>1, <2>1, <2>2 DEF PersonalSign, SignedFeeWasShown
  <1>2. ASSUME NEW d \in Decisions, SignTransaction(d)
        PROVE  SignedFeeWasShown'
    <2>1. job[d] # Idle /\ job[d].pc = "params"
      BY <1>2 DEF SignTransaction, Idle
    <2>2. job[d].seen.fee \in Fees
      BY <2>1 DEF JobsFit, JobFits
    <2>3. signed' = signed \cup {[req |-> job[d].req, by |-> session, fee |-> job[d].seen.fee,
                                  nonce |-> NextNonce(job[d].from), seen |-> job[d].seen]}
      BY <1>2 DEF SignTransaction, BuildDappTxParams
    <2> QED
      BY <2>2, <2>3 DEF SignedFeeWasShown
  <1>3. CASE signed' = signed
    BY <1>3 DEF SignedFeeWasShown
  <1> QED
    BY <1>1, <1>2, <1>3, SignedChange

\* The last step before each good answer: the permission that was read, or
\* the end of a running decision.
GoodAnswer(r) ==
  \/ Ask[r].method # "eth_sendTransaction" /\ (answer'[r].wallet # NoWallet => connected[r])
  \/ \E d \in Decisions :
       /\ job[d] # Idle /\ job[d].req = r
       /\ Ask[r].method = "eth_sendTransaction" => job[d].pc = "broadcasting" /\ job[d].tx \in chain

LEMMA GoodAnswers ==
  ASSUME TypeInv, JobsFit, Next, NEW r \in Requests,
         answer'[r] # answer[r], answer'[r].kind = "ok"
  PROVE  GoodAnswer(r)
  <1> USE DEF workerVars, screenVars, walletVars, nodeVars
  <1>r. ASSUME NEW q \in Requests, NEW a, Resolve(q, a)
        PROVE  q = r /\ answer'[r] = a
    BY <1>r DEF Resolve, TypeInv, TypeOK
  <1>o. \A kind \in Kinds : Outcome(kind).kind = kind
    BY DEF Outcome
  <1>1. ASSUME NEW q \in Requests, HandleRpc(q)
        PROVE  GoodAnswer(r)
    <2>1. CASE ReadConnected(q) \/ Enqueue(q)
      BY <2>1 DEF ReadConnected, Enqueue
    <2>2. CASE AnswerAccounts(q)
      <3>1. q = r /\ answer'[r] = Accounts(IF connected[q] THEN session ELSE NoWallet)
        BY <1>r, <2>2 DEF AnswerAccounts, Answered
      <3> QED
        BY <2>2, <3>1 DEF AnswerAccounts, Accounts, GoodAnswer
    <2>3. CASE AnswerKnownSite(q)
      <3>1. q = r
        BY <1>r, <2>3 DEF AnswerKnownSite, Answered
      <3> QED
        BY <2>3, <3>1 DEF AnswerKnownSite, KnownSite, GoodAnswer
    <2>4. CASE RefuseUnconnected(q)
      BY <1>r, <2>4 DEF RefuseUnconnected, Answered, Outcome
    <2>5. CASE ScreenOut(q)
      <3>1. answer'[r] = Outcome(ScreenNewRequest(q))
        BY <1>r, <2>5 DEF ScreenOut, Answered
      <3> QED
        BY <3>1 DEF Outcome, ScreenNewRequest
    <2> QED
      BY <1>1, <2>1, <2>2, <2>3, <2>4, <2>5 DEF HandleRpc
  <1>2. ASSUME NEW q \in Requests, WindowOpens(q) \/ WindowEvent(q) \/ SendRequest(q)
        PROVE  FALSE
    <2>1. CASE CreateFails(q) \/ WindowRemoved(q)
      <3>1. answer'[r] \in {Outcome("internal"), Outcome("userRejected")}
        BY <1>r, <2>1 DEF CreateFails, WindowRemoved
      <3> QED
        BY <3>1 DEF Outcome
    <2>2. CASE WindowOpens(q) \/ CreateSettles(q) \/ SendRequest(q)
      BY <2>2 DEF WindowOpens, CreateSettles, SendRequest
    <2> QED
      BY <1>2, <2>1, <2>2 DEF WindowEvent
  <1>3. ASSUME NEW q \in Requests, ViewLoads(q) \/ FeeArrives(q) \/ UserStep(q)
        PROVE  FALSE
    <2>1. CASE PressReject(q)
      <3>1. answer'[r] = Outcome("userRejected")
        BY <1>r, <2>1 DEF PressReject
      <3> QED
        BY <3>1 DEF Outcome
    <2>2. CASE ~PressReject(q)
      BY <1>3, <2>2 DEF ViewLoads, FeeArrives, UserStep, CloseWindow, ReloadView,
         ApproveRefused, PressApprove
    <2> QED
      BY <2>1, <2>2
  <1>4. ASSUME NEW d \in Decisions, DecisionStep(d)
        PROVE  GoodAnswer(r)
    <2>0. job[d] # Idle
      BY <1>4, Underway
    <2>f. ASSUME NEW a, Finish(d, a) PROVE job[d].req = r
      <3>1. job[d].req \in Requests
        BY <2>0 DEF TypeInv, TypeOK, Jobs
      <3> QED
        BY <1>r, <2>f, <3>1 DEF Finish
    <2>1. CASE ConnectDone(d) \/ PersonalSign(d)
      BY <2>0, <2>f, <2>1 DEF ConnectDone, PersonalSign, At, GoodAnswer
    <2>2. CASE BroadcastDone(d)
      BY <2>0, <2>f, <2>2 DEF BroadcastDone, GoodAnswer
    <2>3. CASE Revoked(d) \/ PersonalSignLocked(d) \/ ParamsFail(d) \/ BroadcastFails(d)
      BY <2>3 DEF Revoked, PersonalSignLocked, ParamsFail, BroadcastFails, Fail
    <2>4. CASE SitesRead(d) \/ AddSite(d) \/ FetchParams(d) \/ SignTransaction(d)
      BY <2>4 DEF SitesRead, AddSite, FetchParams, SignTransaction, Advance
    <2> QED
      BY <1>4, <2>1, <2>2, <2>3, <2>4 DEF DecisionStep
  <1>5. ASSUME NEW t \in signed, NodeAccepts(t)
        PROVE  FALSE
    BY <1>5 DEF NodeAccepts
  <1>6. CASE WorkerStops
    BY <1>6 DEF WorkerStops, Outcome
  <1>7. CASE WalletStep /\ ~WorkerStops
    BY <1>7 DEF WalletStep, Lock, Unlock, StartRevoke, FinishRevoke, RevokeAll
  <1> QED
    BY <1>1, <1>2, <1>3, <1>4, <1>5, <1>6, <1>7 DEF Next

\* What the node has accepted it keeps.
LEMMA ChainGrows == TypeInv /\ Next => chain \subseteq chain'
  <1> SUFFICES ASSUME TypeInv, Next PROVE chain \subseteq chain'
    OBVIOUS
  <1> USE DEF workerVars, screenVars, walletVars, nodeVars
  <1>1. ASSUME NEW r \in Requests,
               SendRequest(r) \/ HandleRpc(r) \/ WindowOpens(r) \/ WindowEvent(r)
               \/ ViewLoads(r) \/ FeeArrives(r)
        PROVE  chain' = chain
    BY <1>1 DEF SendRequest, HandleRpc, ReadConnected, AnswerAccounts, AnswerKnownSite,
       RefuseUnconnected, ScreenOut, Answered, Enqueue, WindowOpens, WindowEvent,
       CreateSettles, CreateFails, WindowRemoved, ViewLoads, FeeArrives
  <1>2. ASSUME NEW r \in Requests, UserStep(r)
        PROVE  chain' = chain
    BY <1>2 DEF UserStep, CloseWindow, ReloadView, PressReject, ApproveRefused, PressApprove
  <1>3. ASSUME NEW d \in Decisions, DecisionStep(d)
        PROVE  chain' = chain
    BY <1>3 DEF DecisionStep, SitesRead, AddSite, FetchParams, ConnectDone, Revoked,
       PersonalSign, PersonalSignLocked, SignTransaction, ParamsFail, BroadcastDone,
       BroadcastFails, Fail
  <1>4. ASSUME NEW t \in signed, NodeAccepts(t)
        PROVE  chain \subseteq chain'
    BY <1>4 DEF NodeAccepts
  <1>5. CASE WalletStep
    BY <1>5 DEF WalletStep, Lock, Unlock, StartRevoke, FinishRevoke, RevokeAll, WorkerStops
  <1> QED
    BY <1>1, <1>2, <1>3, <1>4, <1>5 DEF Next

LEMMA OkStep ==
  ASSUME TypeInv, JobsFit, OkMeansAtNode, Next
  PROVE  OkMeansAtNode'
  <1> SUFFICES ASSUME NEW r \in Requests, answer'[r].kind = "ok",
                      Ask[r].method = "eth_sendTransaction"
               PROVE  \E t \in chain' : t.req = r
    BY DEF OkMeansAtNode
  <1>0. chain \subseteq chain'
    BY ChainGrows
  <1>1. CASE answer'[r] = answer[r]
    BY <1>0, <1>1 DEF OkMeansAtNode
  <1>2. CASE answer'[r] # answer[r]
    <2>1. GoodAnswer(r)
      BY <1>2, GoodAnswers
    <2> QED
      BY <1>0, <2>1 DEF GoodAnswer, JobsFit, JobFits
  <1> QED
    BY <1>1, <1>2

LEMMA FeeInvInit == Init => FeeInv
  <1> SUFFICES ASSUME Init PROVE FeeInv
    OBVIOUS
  <1>1. ShownFits
    BY DEF Init, ShownFits, BlankView, NothingSeen
  <1>2. JobsFit /\ SignedFeeWasShown /\ OkMeansAtNode
    BY DEF Init, JobsFit, JobFits, SignedFeeWasShown, OkMeansAtNode, Outcome
  <1> QED
    BY <1>1, <1>2, QueueInvInit DEF FeeInv

LEMMA FeeInvStep == FeeInv /\ [Next]_vars => FeeInv'
  <1> SUFFICES ASSUME FeeInv, [Next]_vars PROVE FeeInv'
    OBVIOUS
  <1>0. QueueInv' /\ TypeInv
    BY QueueInvStep DEF FeeInv, QueueInv
  <1>1. CASE UNCHANGED vars
    <2>1. ShownFits' /\ JobsFit'
      BY <1>1 DEF vars, FeeInv, ShownFits, JobsFit, JobFits
    <2>2. SignedFeeWasShown' /\ OkMeansAtNode'
      BY <1>1 DEF vars, FeeInv, SignedFeeWasShown, OkMeansAtNode
    <2> QED
      BY <1>0, <2>1, <2>2 DEF FeeInv
  <1>2. CASE Next
    <2>1. JobsFit'
      BY <1>0, <1>2, JobsFitStep DEF FeeInv, JobsFit
    <2> QED
      BY <1>0, <1>2, <2>1, ShownStep, SignedStep, OkStep DEF FeeInv
  <1> QED
    BY <1>1, <1>2

LEMMA FeeInvariant == Spec => []FeeInv
  BY FeeInvInit, FeeInvStep, PTL DEF Spec

\* The fee signed is the snapshot the Approve screen showed, through reloads,
\* overlapping approvals and restarts, whatever is fetched with the nonce.
THEOREM FeesAreShown == Spec => []SignedFeeWasShown
  <1>1. FeeInv => SignedFeeWasShown
    BY DEF FeeInv
  <1> QED
    BY <1>1, FeeInvariant, PTL

\* A hash is only told for a transaction of that call which a node has.
THEOREM HashesAreTrue == Spec => []OkMeansAtNode
  <1>1. FeeInv => OkMeansAtNode
    BY DEF FeeInv
  <1> QED
    BY <1>1, FeeInvariant, PTL

-----------------------------------------------------------------------------
(* Permissions.                                                            *)

\* Every list of sites in somebody's hands, and every request on its way to
\* an approval, holds only origins the user once agreed to.
ListsGranted ==
  /\ sites \subseteq granted
  /\ revoking.busy => revoking.saw \subseteq granted
  /\ \A d \in Decisions : job[d].pc \in {"read", "written"} => job[d].saw \subseteq granted

CallsGranted ==
  /\ \A r \in Requests : connected[r] => Ask[r].origin \in granted
  /\ \A r \in pending : Ask[r].method # "eth_requestAccounts" => Ask[r].origin \in granted
  /\ \A d \in Decisions : job[d] # Idle => Ask[job[d].req].origin \in granted

GrantInv == FeeInv /\ ListsGranted /\ CallsGranted /\ AddressOnlyAfterGrant

\* History never forgets an agreement; each list, each reading of one and the
\* queue are changed by the steps named here only.
LEMMA PermissionsChange ==
  ASSUME TypeInv, Next
  PROVE  /\ granted \subseteq granted'
         /\ \/ UNCHANGED <<sites, revoking>>
            \/ \E d \in Decisions : AddSite(d)
            \/ \E o \in Origins : StartRevoke(o)
            \/ FinishRevoke \/ RevokeAll \/ WorkerStops
         /\ connected' = connected \/ \E r \in Requests : ReadConnected(r)
         /\ pending' \subseteq pending \/ \E r \in Requests : Enqueue(r)
  <1> USE DEF workerVars, screenVars, walletVars, nodeVars
  <1>1. ASSUME NEW r \in Requests, SendRequest(r) \/ HandleRpc(r)
        PROVE  /\ UNCHANGED <<granted, sites, revoking>>
               /\ connected' = connected \/ ReadConnected(r)
               /\ pending' = pending \/ Enqueue(r)
    BY <1>1 DEF SendRequest, HandleRpc, ReadConnected, AnswerAccounts, AnswerKnownSite,
       RefuseUnconnected, ScreenOut, Answered, Enqueue
  <1>2. ASSUME NEW r \in Requests,
               WindowOpens(r) \/ WindowEvent(r) \/ ViewLoads(r) \/ FeeArrives(r)
        PROVE  UNCHANGED <<granted, sites, revoking, connected>> /\ pending' \subseteq pending
    BY <1>2 DEF WindowOpens, WindowEvent, CreateSettles, CreateFails, WindowRemoved,
       ViewLoads, FeeArrives
  <1>3. ASSUME NEW r \in Requests, UserStep(r)
        PROVE  /\ granted \subseteq granted' /\ pending' \subseteq pending
               /\ UNCHANGED <<sites, revoking, connected>>
    BY <1>3 DEF UserStep, CloseWindow, ReloadView, PressReject, ApproveRefused, PressApprove
  <1>4. ASSUME NEW d \in Decisions, DecisionStep(d)
        PROVE  /\ granted' = granted /\ connected' = connected /\ pending' \subseteq pending
               /\ UNCHANGED <<sites, revoking>> \/ AddSite(d)
    <2>1. CASE SitesRead(d) \/ AddSite(d) \/ FetchParams(d) \/ SignTransaction(d)
      BY <2>1 DEF SitesRead, AddSite, FetchParams, SignTransaction, Advance
    <2>2. CASE \/ ConnectDone(d) \/ Revoked(d) \/ PersonalSign(d) \/ PersonalSignLocked(d)
               \/ ParamsFail(d) \/ BroadcastDone(d) \/ BroadcastFails(d)
      BY <2>2 DEF ConnectDone, Revoked, PersonalSign, PersonalSignLocked, ParamsFail,
         BroadcastDone, BroadcastFails, Finish, Fail
    <2> QED
      BY <1>4, <2>1, <2>2 DEF DecisionStep
  <1>5. ASSUME NEW t \in signed, NodeAccepts(t)
        PROVE  UNCHANGED <<granted, sites, revoking, connected, pending>>
    BY <1>5 DEF NodeAccepts
  <1>6. CASE WalletStep
    BY <1>6 DEF WalletStep, Lock, Unlock, StartRevoke, FinishRevoke, RevokeAll, WorkerStops
  <1> QED
    BY <1>1, <1>2, <1>3, <1>4, <1>5, <1>6 DEF Next

LEMMA ListsStep ==
  ASSUME TypeInv, ListsGranted, CallsGranted, Next
  PROVE  ListsGranted'
  <1>0. granted \subseteq granted'
    BY PermissionsChange
  <1>1. sites' \subseteq granted
    <2>1. ASSUME NEW d \in Decisions, AddSite(d) PROVE sites' \subseteq granted
      BY <2>1 DEF AddSite, At, Idle, ListsGranted, CallsGranted
    <2>2. CASE FinishRevoke \/ RevokeAll \/ WorkerStops
      BY <2>2 DEF FinishRevoke, RevokeAll, WorkerStops, ListsGranted
    <2>3. ASSUME NEW o \in Origins, StartRevoke(o) PROVE sites' \subseteq granted
      BY <2>3 DEF StartRevoke, walletVars, ListsGranted
    <2> QED
      BY <2>1, <2>2, <2>3, PermissionsChange DEF ListsGranted
  <1>2. revoking'.busy => revoking'.saw \subseteq granted
    <2>1. CASE FinishRevoke \/ RevokeAll \/ WorkerStops
      <3>1. revoking' = NotRevoking
        BY <2>1 DEF FinishRevoke, RevokeAll, WorkerStops
      <3>2. ~ NotRevoking.busy
        BY DEF NotRevoking
      <3> QED
        BY <3>1, <3>2
    <2>2. ASSUME NEW o \in Origins, StartRevoke(o)
          PROVE  revoking'.busy => revoking'.saw \subseteq granted
      BY <2>2 DEF StartRevoke, ListsGranted
    <2>3. ASSUME NEW d \in Decisions, AddSite(d)
          PROVE  revoking'.busy => revoking'.saw \subseteq granted
      BY <2>3 DEF AddSite, ListsGranted
    <2> QED
      BY <2>1, <2>2, <2>3, PermissionsChange DEF ListsGranted
  <1>3. ASSUME NEW d \in Decisions, job'[d].pc \in {"read", "written"}
        PROVE  job'[d].saw \subseteq granted
    <2>a. ASSUME NEW to, Advance(d, to) PROVE job'[d] = to
      BY <2>a DEF Advance, TypeInv, TypeOK
    <2>j. SitesRead(d) \/ AddSite(d) => job[d] \in Jobs
      BY DEF SitesRead, AddSite, At, Idle, TypeInv, TypeOK
    <2>1. CASE job'[d] = job[d] \/ job'[d] = Idle
      BY <1>3, <2>1 DEF ListsGranted, Idle
    <2>2. ASSUME NEW r \in Requests, PressApprove(r, d)
          PROVE  job'[d].saw \subseteq granted
      BY <2>2 DEF PressApprove, TypeInv, TypeOK
    <2>3. CASE SitesRead(d)
      <3>1. job'[d] = [job[d] EXCEPT !.pc = "read", !.saw = sites]
        BY <2>a, <2>3 DEF SitesRead
      <3> QED
        BY <2>3, <2>j, <3>1 DEF SitesRead, Jobs, ListsGranted
    <2>4. CASE AddSite(d)
      <3>1. job'[d] = [job[d] EXCEPT !.pc = "written"]
        BY <2>a, <2>4 DEF AddSite
      <3> QED
        BY <2>4, <2>j, <3>1 DEF AddSite, At, Jobs, ListsGranted
    <2>5. CASE FetchParams(d)
      BY <1>3, <2>a, <2>5 DEF FetchParams
    <2>6. CASE SignTransaction(d)
      BY <1>3, <2>a, <2>6 DEF SignTransaction
    <2> QED
      BY <2>1, <2>2, <2>3, <2>4, <2>5, <2>6, JobsChange
  <1> QED
    BY <1>0, <1>1, <1>2, <1>3 DEF ListsGranted

LEMMA CallsStep ==
  ASSUME TypeInv, ListsGranted, CallsGranted, Next
  PROVE  CallsGranted'
  <1>0. granted \subseteq granted'
    BY PermissionsChange
  <1>1. \A r \in Requests : connected'[r] => Ask[r].origin \in granted
    <2>1. ASSUME NEW q \in Requests, ReadConnected(q)
          PROVE  \A r \in Requests : connected'[r] => Ask[r].origin \in granted
      BY <2>1 DEF ReadConnected, ListsGranted, CallsGranted, TypeInv, TypeOK
    <2> QED
      BY <2>1, PermissionsChange DEF CallsGranted
  <1>2. \A r \in pending' : Ask[r].method # "eth_requestAccounts" => Ask[r].origin \in granted
    <2>1. ASSUME NEW q \in Requests, Enqueue(q)
          PROVE  \A r \in pending' :
                   Ask[r].method # "eth_requestAccounts" => Ask[r].origin \in granted
      BY <2>1 DEF Enqueue, NeedsDialog, CallsGranted
    <2> QED
      BY <2>1, PermissionsChange DEF CallsGranted
  <1>3. ASSUME NEW d \in Decisions, job'[d] # Idle
        PROVE  Ask[job'[d].req].origin \in granted'
    <2>1. CASE job'[d] = job[d] \/ job'[d] = Idle
      BY <1>0, <1>3, <2>1 DEF CallsGranted
    <2>2. ASSUME NEW r \in Requests, PressApprove(r, d)
          PROVE  Ask[job'[d].req].origin \in granted'
      <3>1. job'[d].req = r /\ r \in pending
        BY <2>2 DEF PressApprove, Approvable, TypeInv, TypeOK
      <3>2. Ask[r].origin \in granted'
        BY <1>0, <2>2, <3>1 DEF PressApprove, CallsGranted
      <3> QED
        BY <3>1, <3>2
    <2>3. CASE SitesRead(d) \/ AddSite(d) \/ FetchParams(d) \/ SignTransaction(d)
      <3>1. job[d] # Idle
        BY <2>3, Underway DEF DecisionStep
      <3> QED
        BY <1>0, <2>3, <3>1, JobGoesOn DEF CallsGranted
    <2> QED
      BY <2>1, <2>2, <2>3, JobsChange
  <1> QED
    BY <1>0, <1>1, <1>2, <1>3 DEF CallsGranted

LEMMA AddressStep ==
  ASSUME TypeInv, JobsFit, CallsGranted, AddressOnlyAfterGrant, Next
  PROVE  AddressOnlyAfterGrant'
  <1> SUFFICES ASSUME NEW r \in Requests, answer'[r].kind = "ok", answer'[r].wallet # NoWallet
               PROVE  Ask[r].origin \in granted
    BY PermissionsChange DEF AddressOnlyAfterGrant
  <1>1. CASE answer'[r] = answer[r]
    BY <1>1 DEF AddressOnlyAfterGrant
  <1>2. CASE answer'[r] # answer[r]
    BY <1>2, GoodAnswers DEF GoodAnswer, CallsGranted
  <1> QED
    BY <1>1, <1>2

LEMMA GrantInvInit == Init => GrantInv
  <1> SUFFICES ASSUME Init PROVE GrantInv
    OBVIOUS
  <1>1. ListsGranted /\ CallsGranted /\ AddressOnlyAfterGrant
    BY DEF Init, ListsGranted, CallsGranted, AddressOnlyAfterGrant, NotRevoking, Idle, Outcome
  <1> QED
    BY <1>1, FeeInvInit DEF GrantInv

LEMMA GrantInvStep == GrantInv /\ [Next]_vars => GrantInv'
  <1> SUFFICES ASSUME GrantInv, [Next]_vars PROVE GrantInv'
    OBVIOUS
  <1>0. FeeInv' /\ TypeInv /\ JobsFit
    BY FeeInvStep DEF GrantInv, FeeInv, QueueInv
  <1>1. CASE UNCHANGED vars
    BY <1>0, <1>1 DEF vars, GrantInv, ListsGranted, CallsGranted, AddressOnlyAfterGrant
  <1>2. CASE Next
    BY <1>0, <1>2, ListsStep, CallsStep, AddressStep DEF GrantInv
  <1> QED
    BY <1>1, <1>2

\* A site learns an address only after the user approved an
\* eth_requestAccounts of that site, although the list of sites is written
\* back from old copies by approvals and revocations that overlap.
THEOREM AddressesAreGranted == Spec => []AddressOnlyAfterGrant
  <1>1. GrantInv => AddressOnlyAfterGrant
    BY DEF GrantInv
  <1> QED
    BY <1>1, GrantInvInit, GrantInvStep, PTL DEF Spec
=============================================================================
