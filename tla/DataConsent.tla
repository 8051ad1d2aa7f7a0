----------------------------- MODULE DataConsent -----------------------------
(* The consent to data transfer (src/extension/src/lib/consent.ts) and the *)
(* client that must ask it before every request (src/extension/src/lib/    *)
(* api.ts).  The background worker and each window hold a copy of the      *)
(* decision in memory; the truth is one record of chrome.storage.local.    *)
(* A step is one turn of a context's event loop: a microtask cannot be     *)
(* interrupted, so a check of a known decision and the fetch after it are  *)
(* one step, and an await of storage ends one.                             *)
(*                                                                         *)
(* Storage performs a call when it is made.  Its reply and the onChanged   *)
(* events of a context arrive in the order in which storage performed what *)
(* they tell of; the browser is trusted for that.                          *)
EXTENDS Naturals, Sequences

CONSTANTS
    Contexts,       \* the running copies of the module
    Screens,        \* those of them that are windows with a user
    Requests,       \* calls of the API client
    Kinds,          \* of AllKinds, the ones that are made
    RETRY_ATTEMPTS, \* automatic repetitions of a retriable request
    MaxWrites,      \* bound: decisions written
    MaxVersion,     \* bound: CONSENT_VERSION of the last update
    Unknown,        \* cached = undefined: storage was not read yet
    NoDecision      \* null: no decision, or one that does not count

AllKinds == {"read", "explain", "broadcast", "chat"}

ASSUME ContextsAssumption == Screens \subseteq Contexts
ASSUME KindsAssumption == Kinds \subseteq AllKinds
ASSUME BoundsAssumption ==
    RETRY_ATTEMPTS \in Nat /\ MaxWrites \in Nat /\ MaxVersion \in Nat \ {0}

\* DataConsent: decidedAt is the number of the write.
Decisions ==
    [version : 1..MaxVersion, network : BOOLEAN, ai : BOOLEAN, decidedAt : 1..MaxWrites]

ASSUME NoneAssumption ==
    Unknown # NoDecision /\ Unknown \notin Decisions /\ NoDecision \notin Decisions

VARIABLES
    version,  \* CONSENT_VERSION of the installed extension
    store,    \* the record under CONSENT_STORAGE_KEY
    writes,   \* decisions written so far
    cached,   \* cached, for each context
    mail,     \* storage replies and onChanged events on their way to a context
    task,     \* the state of each request
    granted   \* what the user has ever said yes to under this version

vars == <<version, store, writes, cached, mail, task, granted>>

Idle == [stage |-> "idle"]
Done == [stage |-> "done"]
Tasks ==
    {Idle, Done}
    \cup [stage : {"asking", "fetching", "waiting"}, at : Contexts, kind : Kinds,
          attempt : 0..RETRY_ATTEMPTS]
Mail == [what : {"read", "changed", "saved"}, record : Decisions \cup {NoDecision}]
        \cup {[what |-> "failed"]}

TypeOK ==
    /\ version \in 1..MaxVersion
    /\ store \in Decisions \cup {NoDecision}
    /\ writes \in 0..MaxWrites
    /\ cached \in [Contexts -> Decisions \cup {Unknown, NoDecision}]
    /\ mail \in [Contexts -> Seq(Mail)]
    /\ task \in [Requests -> Tasks]
    /\ granted \in [network : BOOLEAN, ai : BOOLEAN]

Nothing == [network |-> FALSE, ai |-> FALSE]

\* A freshly installed extension.
Init ==
    /\ version = 1
    /\ store = NoDecision
    /\ writes = 0
    /\ cached = [c \in Contexts |-> Unknown]
    /\ mail = [c \in Contexts |-> <<>>]
    /\ task = [r \in Requests |-> Idle]
    /\ granted = Nothing

-----------------------------------------------------------------------------
(* consent.ts                                                              *)

\* Slip: the version of the record is not looked at.
ParseAnyVersion(record) == record

\* parseConsent: a record of another version is no decision.
Parse(record) ==
    IF record # NoDecision /\ record.version = version THEN record ELSE NoDecision

\* isNetworkAllowed and isAiAllowed of a decision already read.
Known(decision) == decision \notin {Unknown, NoDecision}
NetworkAllowed(decision) == Known(decision) /\ decision.network
AiAllowed(decision) == Known(decision) /\ decision.network /\ decision.ai

\* readConsent's storage call, shared by everyone who asks meanwhile
\* (inflight), or its failure.
Reading(c) == \E i \in DOMAIN mail[c] : mail[c][i].what \in {"read", "failed"}
ReadConsent(c) ==
    IF Reading(c)
      THEN mail' = mail
      ELSE \E reply \in {[what |-> "read", record |-> store], [what |-> "failed"]} :
             mail' = [mail EXCEPT ![c] = Append(@, reply)]

\* saveConsent: AI is never stored without the network.  The write is
\* announced to every context and answered to the one that made it.
SaveConsent(c, network, ai) ==
    LET record == [version |-> version, network |-> network, ai |-> network /\ ai,
                   decidedAt |-> writes + 1]
        changed == [what |-> "changed", record |-> record]
        saved == [what |-> "saved", record |-> record]
    IN  /\ writes < MaxWrites
        /\ writes' = writes + 1
        /\ store' = record
        /\ mail' = [d \in Contexts |->
                      mail[d] \o (IF d = c THEN <<changed, saved>> ELSE <<changed>>)]
        /\ granted' = [network |-> granted.network \/ network,
                       ai |-> granted.ai \/ (network /\ ai)]
        /\ UNCHANGED <<version, cached, task>>

\* A window opens: the consent hook reads the decision and shows nothing else
\* before it knows.
WindowMounts(c) ==
    /\ c \in Screens /\ cached[c] = Unknown /\ ~Reading(c)
    /\ ReadConsent(c)
    /\ UNCHANGED <<version, store, writes, cached, task, granted>>

\* The user decides on the consent screen, which is busy until its write
\* returns.
Decide(c, network, ai) ==
    /\ c \in Screens /\ cached[c] # Unknown
    /\ \A i \in DOMAIN mail[c] : mail[c][i].what # "saved"
    /\ SaveConsent(c, network, ai)

\* The toggles of Settings start from the decision this window knows.
SetAiEnabled(c, enabled) ==
    /\ c \in Screens /\ NetworkAllowed(cached[c])
    /\ SaveConsent(c, cached[c].network, enabled)

SetNetworkEnabled(c, enabled) ==
    /\ c \in Screens /\ Known(cached[c])
    /\ SaveConsent(c, enabled, enabled /\ cached[c].ai)

-----------------------------------------------------------------------------
(* api.ts                                                                  *)

\* assertNetworkConsent of request(); assertAiConsent before it in explainTx,
\* both of them in streamChat.
Allowed(kind, decision) ==
    IF kind \in {"explain", "chat"} THEN AiAllowed(decision) ELSE NetworkAllowed(decision)

\* Slip: an AI request passes the network gate only.
GateOfNetwork(c, kind, decision) ==
    IF NetworkAllowed(decision)
      THEN [stage |-> "fetching", at |-> c, kind |-> kind, attempt |-> 0]
      ELSE Done

\* What becomes of a request when the decision is known: the first fetch, or
\* an error.
Gate(c, kind, decision) ==
    IF Allowed(kind, decision)
      THEN [stage |-> "fetching", at |-> c, kind |-> kind, attempt |-> 0]
      ELSE Done

\* Only a broadcast is not repeated; the chat has a fetch of its own.
LastAttempt(kind) == IF kind \in {"read", "explain"} THEN RETRY_ATTEMPTS ELSE 0

\* A call of the client.  No screen that makes one is rendered before the
\* decision is read and made.
RequestStarts(r, c, kind) ==
    /\ task[r] = Idle
    /\ c \in Screens => Known(cached[c])
    /\ IF cached[c] = Unknown
         THEN /\ task' = [task EXCEPT ![r] = [stage |-> "asking", at |-> c, kind |-> kind,
                                              attempt |-> 0]]
              /\ ReadConsent(c)
         ELSE /\ task' = [task EXCEPT ![r] = Gate(c, kind, cached[c])]
              /\ mail' = mail
    /\ UNCHANGED <<version, store, writes, cached, granted>>

\* request(): an answer, or an error that no repetition would mend, ends it.
FetchEnds(r) ==
    /\ task[r].stage = "fetching"
    /\ task' = [task EXCEPT ![r] = Done]
    /\ UNCHANGED <<version, store, writes, cached, mail, granted>>

\* A timeout, a broken connection, 502, 503 or 504.
FetchFails(r) ==
    /\ task[r].stage = "fetching"
    /\ task' = [task EXCEPT ![r] = IF @.attempt = LastAttempt(@.kind)
                                     THEN Done
                                     ELSE [@ EXCEPT !.stage = "waiting"]]
    /\ UNCHANGED <<version, store, writes, cached, mail, granted>>

\* Slip: attempts are not counted.
FetchAgainUncounted(r) ==
    /\ task[r].stage = "waiting"
    /\ task' = [task EXCEPT ![r].stage = "fetching"]
    /\ UNCHANGED <<version, store, writes, cached, mail, granted>>

\* The delay is over: the next attempt.
FetchAgain(r) ==
    /\ task[r].stage = "waiting"
    /\ task' = [task EXCEPT ![r].stage = "fetching", ![r].attempt = @ + 1]
    /\ UNCHANGED <<version, store, writes, cached, mail, granted>>

-----------------------------------------------------------------------------
(* What reaches a context.                                                 *)

FirstMail(c, what) == mail[c] # <<>> /\ Head(mail[c]).what = what

\* The decision a storage read ends with; a failed read denies.
Learnt(message) == IF message.what = "read" THEN Parse(message.record) ELSE NoDecision

\* Everyone who awaited the read goes on in the same turn.
ReadReturns(c) ==
    /\ FirstMail(c, "read") \/ FirstMail(c, "failed")
    /\ LET decision == Learnt(Head(mail[c]))
       IN  /\ cached' = [cached EXCEPT ![c] = decision]
           /\ task' = [r \in Requests |->
                         IF task[r].stage = "asking" /\ task[r].at = c
                           THEN Gate(c, task[r].kind, decision)
                           ELSE task[r]]
    /\ mail' = [mail EXCEPT ![c] = Tail(@)]
    /\ UNCHANGED <<version, store, writes, granted>>

\* Slip: a change only fills an empty cache.
OnChangedWhenUnknown(c) ==
    /\ FirstMail(c, "changed")
    /\ cached' = [cached EXCEPT ![c] =
                    IF @ = Unknown THEN Parse(Head(mail[c]).record) ELSE @]
    /\ mail' = [mail EXCEPT ![c] = Tail(@)]
    /\ UNCHANGED <<version, store, writes, task, granted>>

\* storage.onChanged, in the context that wrote as well.
OnChanged(c) ==
    /\ FirstMail(c, "changed")
    /\ cached' = [cached EXCEPT ![c] = Parse(Head(mail[c]).record)]
    /\ mail' = [mail EXCEPT ![c] = Tail(@)]
    /\ UNCHANGED <<version, store, writes, task, granted>>

\* saveConsent goes on after its write.
SaveReturns(c) ==
    /\ FirstMail(c, "saved")
    /\ cached' = [cached EXCEPT ![c] = Head(mail[c]).record]
    /\ mail' = [mail EXCEPT ![c] = Tail(@)]
    /\ UNCHANGED <<version, store, writes, task, granted>>

\* A window closes, or the browser stops the worker: its memory is gone, its
\* requests with it.
Forgotten(gone) ==
    /\ cached' = [c \in Contexts |-> IF c \in gone THEN Unknown ELSE cached[c]]
    /\ mail' = [c \in Contexts |-> IF c \in gone THEN <<>> ELSE mail[c]]
    /\ task' = [r \in Requests |->
                  IF task[r] # Idle /\ task[r] # Done /\ task[r].at \in gone
                    THEN Done ELSE task[r]]

ContextEnds(c) ==
    /\ Forgotten({c})
    /\ UNCHANGED <<version, store, writes, granted>>

\* The extension is updated to a CONSENT_VERSION that asks anew.
Update ==
    /\ version < MaxVersion
    /\ version' = version + 1
    /\ granted' = Nothing
    /\ Forgotten(Contexts)
    /\ UNCHANGED <<store, writes>>

-----------------------------------------------------------------------------

UserActs(c) ==
    \/ WindowMounts(c)
    \/ \E network, ai \in BOOLEAN : Decide(c, network, ai)
    \/ \E enabled \in BOOLEAN : SetAiEnabled(c, enabled) \/ SetNetworkEnabled(c, enabled)

MailArrives(c) == ReadReturns(c) \/ OnChanged(c) \/ SaveReturns(c)

RequestGoesOn(r) == FetchEnds(r) \/ FetchFails(r) \/ FetchAgain(r)

Next ==
    \/ \E c \in Contexts : UserActs(c) \/ MailArrives(c) \/ ContextEnds(c)
    \/ \E r \in Requests : RequestGoesOn(r)
    \/ \E r \in Requests, c \in Contexts, kind \in Kinds : RequestStarts(r, c, kind)
    \/ Update

Spec == Init /\ [][Next]_vars

\* Storage answers, timers run out, and a fetch of request() ends at the
\* latest with its AbortSignal.timeout.  The chat's fetch has none.
Timed(r) == task[r].stage \in {"fetching", "waiting"} /\ task[r].kind # "chat"

Fairness ==
    /\ \A c \in Contexts : WF_vars(MailArrives(c))
    /\ \A r \in Requests : WF_vars(Timed(r) /\ RequestGoesOn(r))

FairSpec == Spec /\ Fairness

-----------------------------------------------------------------------------

\* What a context will hold when its mail is read.
Believes(c) ==
    IF mail[c] = <<>> THEN cached[c]
    ELSE LET last == mail[c][Len(mail[c])]
         IN  CASE last.what = "saved" -> last.record
               [] last.what = "changed" -> Parse(last.record)
               [] OTHER -> Learnt(last)

\* A context that has heard everything knows the stored decision or denies:
\* no copy outlives a newer write or an update (the cache of consent.ts and
\* its onChanged listener).
NoStaleConsent == \A c \in Contexts : Believes(c) \in {Unknown, NoDecision, Parse(store)}

\* Nothing leaves the device before the user has agreed to this version of
\* the disclosure, and nothing meant for the AI before the user agreed to
\* that (CONSENT_VERSION; request(), explainTx, streamChat).
AskedFirst ==
    \A r \in Requests : task[r].stage \in {"fetching", "waiting"} =>
        IF task[r].kind \in {"explain", "chat"} THEN granted.ai ELSE granted.network

\* A request that starts in a context with no news on the way starts under
\* the stored consent, whatever wrote it (the gate of request() before fetch).
FirstFetch(r) == task[r].stage \in {"idle", "asking"} /\ task'[r].stage = "fetching"
StartsWithConsent ==
    [][\A r \in Requests : FirstFetch(r) /\ mail'[task'[r].at] = <<>> =>
         Allowed(task'[r].kind, Parse(store))]_vars

\* Every request but the chat ends, whatever fails (timeouts and
\* RETRY_ATTEMPTS of request()).
RequestsEnd ==
    \A r \in Requests :
        (task[r].stage # "idle" /\ task[r].stage # "done" /\ task[r].kind # "chat")
          ~> (task[r].stage = "done")

\* A withdrawal reaches every context: consent.ts says a toggle in the popup
\* acts in the background too.
WithdrawalIsHeard ==
    \A c \in Contexts :
        (<>[]~NetworkAllowed(Parse(store))) => (<>[]~NetworkAllowed(cached[c]))

\* api.ts, request(): while there is no consent no byte leaves the device and
\* no attempt is repeated.
NoAttemptAfterWithdrawal ==
    [][\A r \in Requests :
         task[r].stage # "fetching" /\ task'[r].stage = "fetching" =>
           NetworkAllowed(cached'[task'[r].at])]_vars

=============================================================================
