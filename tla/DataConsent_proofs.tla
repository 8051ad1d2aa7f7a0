-------------------------- MODULE DataConsent_proofs --------------------------
(* Proofs about DataConsent for every number of contexts, requests, writes,  *)
(* versions and retries.                                                     *)
EXTENDS DataConsent, SequenceTheorems, TLAPS

-----------------------------------------------------------------------------
(* The invariant.                                                           *)

\* The user has said yes to what the decision allows.
Agreed(decision) ==
  /\ decision.network => granted.network
  /\ decision.network /\ decision.ai => granted.ai

\* What may be on its way to a context: records that would count were agreed
\* to, and the reply to a write is of this version.
Honest ==
  {m \in Mail :
     /\ m.what \in {"read", "changed"} /\ m.record # NoDecision =>
          (m.record.version = version => Agreed(m.record))
     /\ m.what = "saved" =>
          m.record # NoDecision /\ m.record.version = version /\ Agreed(m.record)}

StoreIsAgreed ==
  store # NoDecision =>
    store.version <= version /\ (store.version = version => Agreed(store))

CopiesAreAgreed == \A c \in Contexts : Known(cached[c]) => Agreed(cached[c])

\* The last message tells of this record, or of a failed read.
EndsWith(messages, record) ==
  LET last == messages[Len(messages)] IN last.what = "failed" \/ last.record = record

CopiesFollow ==
  \A c \in Contexts :
    IF mail[c] = <<>>
      THEN cached[c] \in {Unknown, NoDecision, Parse(store)}
      ELSE EndsWith(mail[c], store)

\* A request never counts past its last attempt.
InTries(t) ==
  t \notin {Idle, Done} =>
    /\ t.attempt <= LastAttempt(t.kind)
    /\ t.stage = "waiting" => t.attempt < LastAttempt(t.kind)

\* What a request in flight was for, the user has agreed to.
Covered(t) ==
  t.stage \in {"fetching", "waiting"} =>
    IF t.kind \in {"explain", "chat"} THEN granted.ai ELSE granted.network

Trusted ==
  /\ StoreIsAgreed
  /\ CopiesAreAgreed
  /\ mail \in [Contexts -> Seq(Honest)]
  /\ CopiesFollow
  /\ \A r \in Requests : InTries(task[r]) /\ Covered(task[r])

ConsentInv == TypeOK /\ Trusted

-----------------------------------------------------------------------------
(* Types of what the operators build.                                       *)

LEMMA LastAttemptType ==
  ASSUME NEW kind
  PROVE  LastAttempt(kind) \in 0..RETRY_ATTEMPTS
BY BoundsAssumption DEF LastAttempt

LEMMA ParseType ==
  ASSUME NEW d \in Decisions \cup {NoDecision}
  PROVE  /\ Parse(d) \in Decisions \cup {NoDecision}
         /\ Parse(d) # NoDecision => Parse(d) = d /\ d.version = version
BY DEF Parse

LEMMA LearntType ==
  ASSUME NEW m \in Mail, m.what \in {"read", "failed"}
  PROVE  Learnt(m) \in Decisions \cup {NoDecision}
BY ParseType DEF Learnt, Mail

\* Where there is a first fetch there is consent.
LEMMA GateIsCovered ==
  ASSUME NEW c \in Contexts, NEW kind \in Kinds,
         NEW d \in Decisions \cup {Unknown, NoDecision},
         Known(d) => Agreed(d)
  PROVE  /\ Gate(c, kind, d) \in Tasks
         /\ InTries(Gate(c, kind, d)) /\ Covered(Gate(c, kind, d))
<1>1. CASE Allowed(kind, d)
  <2> DEFINE t == [stage |-> "fetching", at |-> c, kind |-> kind, attempt |-> 0]
  <2>1. Gate(c, kind, d) = t
    BY <1>1 DEF Gate
  <2>2. t \in Tasks
    BY BoundsAssumption DEF Tasks
  <2>3. InTries(t)
    BY LastAttemptType DEF InTries
  <2>4. Covered(t)
    BY <1>1 DEF Covered, Allowed, AiAllowed, NetworkAllowed, Agreed
  <2> QED BY <2>1, <2>2, <2>3, <2>4
<1>2. CASE ~Allowed(kind, d)
  BY <1>2 DEF Gate, InTries, Covered, Tasks, Done
<1> QED BY <1>1, <1>2

LEMMA InitTrusted == Init => ConsentInv
<1> SUFFICES ASSUME Init PROVE ConsentInv
  OBVIOUS
<1>1. TypeOK
  BY BoundsAssumption DEF Init, TypeOK, Nothing, Tasks, Idle
<1>2. mail \in [Contexts -> Seq(Honest)]
  BY DEF Init
<1>3. StoreIsAgreed /\ CopiesAreAgreed /\ CopiesFollow
  BY DEF Init, StoreIsAgreed, CopiesAreAgreed, CopiesFollow, Known
<1>4. \A r \in Requests : InTries(task[r]) /\ Covered(task[r])
  BY DEF Init, InTries, Covered, Idle
<1> QED BY <1>1, <1>2, <1>3, <1>4 DEF ConsentInv, Trusted

-----------------------------------------------------------------------------
(* Decisions: what was agreed stays agreed while the version lasts.         *)

Grows ==
  /\ version' = version
  /\ granted.network => granted'.network
  /\ granted.ai => granted'.ai

LEMMA AgreedGrows ==
  ASSUME Grows, NEW d, Agreed(d)
  PROVE  Agreed(d)'
BY DEF Grows, Agreed

LEMMA HonestGrows ==
  ASSUME Grows
  PROVE  Honest \subseteq Honest'
BY DEF Grows, Agreed, Honest

LEMMA CoveredGrows ==
  ASSUME Grows, NEW t, Covered(t)
  PROVE  Covered(t)'
BY DEF Grows, Covered

\* A mailbox to which an honest message is added.
LEMMA MailGrows ==
  ASSUME NEW S, NEW T, S \subseteq T, NEW q \in Seq(S), NEW m \in T
  PROVE  /\ Append(q, m) \in Seq(T) /\ Append(q, m) # <<>>
         /\ Append(q, m)[Len(Append(q, m))] = m
<1>1. q \in Seq(T)
  BY SeqMonotonic
<1> QED BY <1>1, AppendProperties

LEMMA MailGrowsByTwo ==
  ASSUME NEW S, NEW T, S \subseteq T, NEW q \in Seq(S), NEW m \in T, NEW n \in T
  PROVE  /\ q \o <<m, n>> \in Seq(T) /\ q \o <<m, n>> # <<>>
         /\ (q \o <<m, n>>)[Len(q \o <<m, n>>)] = n
<1>1. q \in Seq(T) /\ <<m, n>> \in Seq(T) /\ Len(<<m, n>>) = 2 /\ <<m, n>>[2] = n
  BY SeqMonotonic
<1>2. /\ q \o <<m, n>> \in Seq(T)
      /\ Len(q \o <<m, n>>) = Len(q) + 2 /\ Len(q) \in Nat
      /\ \A i \in 1..(Len(q) + 2) :
           (q \o <<m, n>>)[i] = IF i <= Len(q) THEN q[i] ELSE <<m, n>>[i - Len(q)]
  BY <1>1, ConcatProperties, LenProperties
<1>3. (q \o <<m, n>>)[Len(q) + 2] = n
  BY <1>1, <1>2
<1> QED BY <1>2, <1>3

LEMMA MailGrowsByOne ==
  ASSUME NEW S, NEW T, S \subseteq T, NEW q \in Seq(S), NEW m \in T
  PROVE  /\ q \o <<m>> \in Seq(T) /\ q \o <<m>> # <<>>
         /\ (q \o <<m>>)[Len(q \o <<m>>)] = m
<1>1. q \in Seq(T) /\ <<m>> \in Seq(T) /\ Len(<<m>>) = 1 /\ <<m>>[1] = m
  BY SeqMonotonic
<1>2. /\ q \o <<m>> \in Seq(T)
      /\ Len(q \o <<m>>) = Len(q) + 1 /\ Len(q) \in Nat
      /\ \A i \in 1..(Len(q) + 1) :
           (q \o <<m>>)[i] = IF i <= Len(q) THEN q[i] ELSE <<m>>[i - Len(q)]
  BY <1>1, ConcatProperties, LenProperties
<1>3. (q \o <<m>>)[Len(q) + 1] = m
  BY <1>1, <1>2
<1> QED BY <1>2, <1>3

LEMMA SaveKeeps ==
  ASSUME ConsentInv, NEW c \in Contexts, NEW network \in BOOLEAN, NEW ai \in BOOLEAN,
         SaveConsent(c, network, ai)
  PROVE  ConsentInv'
<1>0. /\ version \in 1..MaxVersion /\ writes \in 0..MaxWrites
      /\ cached \in [Contexts -> Decisions \cup {Unknown, NoDecision}]
      /\ task \in [Requests -> Tasks] /\ granted \in [network : BOOLEAN, ai : BOOLEAN]
      /\ mail \in [Contexts -> Seq(Honest)]
  BY DEF ConsentInv, TypeOK, Trusted
<1>1. PICK record \in Decisions :
        /\ record = [version |-> version, network |-> network, ai |-> network /\ ai,
                     decidedAt |-> writes + 1]
        /\ record # NoDecision /\ record.version = version
  <2>1. (network /\ ai) \in BOOLEAN /\ writes + 1 \in 1..MaxWrites
    BY <1>0, BoundsAssumption DEF SaveConsent
  <2> DEFINE r == [version |-> version, network |-> network, ai |-> network /\ ai,
                   decidedAt |-> writes + 1]
  <2>2. r \in Decisions
    BY <1>0, <2>1 DEF Decisions
  <2>3. r # NoDecision /\ r.version = version
    BY <2>2, NoneAssumption
  <2> QED BY <2>2, <2>3, Zenon
<1> DEFINE changed == [what |-> "changed", record |-> record]
           saved   == [what |-> "saved", record |-> record]
<1>2. /\ writes < MaxWrites /\ writes' = writes + 1 /\ store' = record
      /\ mail' = [d \in Contexts |->
                    mail[d] \o (IF d = c THEN <<changed, saved>> ELSE <<changed>>)]
      /\ granted' = [network |-> granted.network \/ network,
                     ai |-> granted.ai \/ (network /\ ai)]
      /\ version' = version /\ cached' = cached /\ task' = task
  BY <1>1 DEF SaveConsent
<1>3. Grows
  BY <1>0, <1>2 DEF Grows
<1>4. Agreed(record)'
  BY <1>2, <1>1 DEF Agreed
<1>5. changed \in Honest' /\ saved \in Honest'
  <2>1. changed \in Mail /\ saved \in Mail
    BY <1>1 DEF Mail
  <2> QED BY <1>2, <1>1, <1>4, <2>1 DEF Honest
<1>6. granted' \in [network : BOOLEAN, ai : BOOLEAN]
  <2>1. (granted.network \/ network) \in BOOLEAN /\ (granted.ai \/ (network /\ ai)) \in BOOLEAN
    OBVIOUS
  <2> QED BY <1>2, <2>1
<1> HIDE DEF changed, saved
<1>7. ASSUME NEW d \in Contexts
      PROVE  /\ mail'[d] \in Seq(Honest') /\ mail'[d] # <<>>
             /\ mail'[d][Len(mail'[d])] \in {changed, saved}
  <2>1. mail[d] \in Seq(Honest) /\ Honest \subseteq Honest'
    BY <1>0, <1>3, HonestGrows
  <2>2. CASE d = c
    <3>1. mail'[d] = mail[d] \o <<changed, saved>>
      BY <1>2, <2>2
    <3>2. PICK T : T = Honest'
      OBVIOUS
    <3> QED BY <1>5, <2>1, <3>1, <3>2, MailGrowsByTwo
  <2>3. CASE d # c
    <3>1. mail'[d] = mail[d] \o <<changed>>
      BY <1>2, <2>3
    <3>2. PICK T : T = Honest'
      OBVIOUS
    <3> QED BY <1>5, <2>1, <3>1, <3>2, MailGrowsByOne
  <2> QED BY <2>2, <2>3
<1>8. mail' \in [Contexts -> Seq(Honest')]
  BY <1>2, <1>7
<1>9. CopiesFollow'
  <2>1. changed.record = store' /\ saved.record = store'
    BY <1>2 DEF changed, saved
  <2> QED BY <1>7, <2>1 DEF CopiesFollow, EndsWith
<1>10. StoreIsAgreed'
  BY <1>0, <1>2, <1>1, <1>4 DEF StoreIsAgreed
<1>11. CopiesAreAgreed'
  BY <1>2, <1>3, AgreedGrows DEF ConsentInv, Trusted, CopiesAreAgreed, Known
<1>12. \A r \in Requests : (InTries(task[r]) /\ Covered(task[r]))'
  BY <1>2, <1>3, CoveredGrows DEF ConsentInv, Trusted, InTries
<1>13. mail' \in [Contexts -> Seq(Mail)]
  <2>1. Honest' \subseteq Mail
    BY DEF Honest
  <2>2. \A d \in Contexts : mail'[d] \in Seq(Mail)
    BY <1>7, <2>1, SeqMonotonic
  <2> QED BY <1>2, <2>2
<1>14. TypeOK'
  <2>1. writes' \in 0..MaxWrites
    BY <1>0, <1>2, BoundsAssumption
  <2> QED BY <1>0, <1>2, <1>1, <1>6, <1>13, <2>1 DEF TypeOK
<1> QED BY <1>8, <1>9, <1>10, <1>11, <1>12, <1>14 DEF ConsentInv, Trusted

-----------------------------------------------------------------------------
(* Requests.                                                                *)

\* A step that only moves requests, each to a state that is typed, counted and
\* covered.
LEMMA TasksKeep ==
  ASSUME ConsentInv, UNCHANGED <<version, store, writes, cached, mail, granted>>,
         task' \in [Requests -> Tasks],
         \A r \in Requests : InTries(task'[r]) /\ Covered(task'[r])
  PROVE  ConsentInv'
<1>1. TypeOK'
  BY DEF ConsentInv, TypeOK
<1>2. Honest' = Honest
  BY DEF Honest, Agreed
<1>3. mail' \in [Contexts -> Seq(Honest')]
  BY <1>2 DEF ConsentInv, Trusted
<1>4. StoreIsAgreed' /\ CopiesAreAgreed' /\ CopiesFollow'
  BY DEF ConsentInv, Trusted, StoreIsAgreed, CopiesAreAgreed, CopiesFollow, Agreed, Known,
         Parse, EndsWith
<1>5. \A r \in Requests : (InTries(task[r]) /\ Covered(task[r]))'
  BY DEF InTries, Covered
<1> QED BY <1>1, <1>3, <1>4, <1>5 DEF ConsentInv, Trusted

LEMMA MovesKeep ==
  ASSUME ConsentInv, UNCHANGED <<version, store, writes, cached, mail, granted>>,
         NEW r \in Requests, NEW t \in Tasks, task' = [task EXCEPT ![r] = t],
         InTries(t), Covered(t)
  PROVE  ConsentInv'
<1>1. task \in [Requests -> Tasks] /\ \A q \in Requests : InTries(task[q]) /\ Covered(task[q])
  BY DEF ConsentInv, TypeOK, Trusted
<1>2. task' \in [Requests -> Tasks]
  BY <1>1
<1>3. \A q \in Requests : InTries(task'[q]) /\ Covered(task'[q])
  BY <1>1
<1> QED BY <1>2, <1>3, TasksKeep

LEMMA DoneIsFine == Done \in Tasks /\ InTries(Done) /\ Covered(Done)
BY DEF Done, Tasks, InTries, Covered

\* A request in flight or between two attempts.
LEMMA RunningIs ==
  ASSUME ConsentInv, NEW r \in Requests, task[r].stage \in {"fetching", "waiting"}
  PROVE  /\ task[r] \in [stage : {"asking", "fetching", "waiting"}, at : Contexts,
                         kind : Kinds, attempt : 0..RETRY_ATTEMPTS]
         /\ InTries(task[r]) /\ Covered(task[r])
         /\ task[r] # Idle /\ task[r] # Done
BY DEF ConsentInv, TypeOK, Trusted, Tasks, Idle, Done

LEMMA FetchKeeps ==
  ASSUME ConsentInv, NEW r \in Requests, FetchEnds(r) \/ FetchFails(r) \/ FetchAgain(r)
  PROVE  ConsentInv'
<1>0. UNCHANGED <<version, store, writes, cached, mail, granted>>
  BY DEF FetchEnds, FetchFails, FetchAgain
<1>1. /\ task[r] \in [stage : {"asking", "fetching", "waiting"}, at : Contexts,
                      kind : Kinds, attempt : 0..RETRY_ATTEMPTS]
      /\ InTries(task[r]) /\ Covered(task[r]) /\ task[r] # Idle /\ task[r] # Done
      /\ task \in [Requests -> Tasks]
  BY RunningIs DEF FetchEnds, FetchFails, FetchAgain, ConsentInv, TypeOK
<1>2. task[r].attempt \in 0..RETRY_ATTEMPTS /\ LastAttempt(task[r].kind) \in 0..RETRY_ATTEMPTS
  BY <1>1, LastAttemptType
<1>3. CASE task' = [task EXCEPT ![r] = Done]
  BY <1>0, <1>3, DoneIsFine, MovesKeep
<1>4. CASE FetchFails(r) /\ task[r].attempt # LastAttempt(task[r].kind)
  <2> DEFINE t == [task[r] EXCEPT !.stage = "waiting"]
  <2>1. task' = [task EXCEPT ![r] = t]
    <3>1. task' = [task EXCEPT ![r] =
                     IF task[r].attempt = LastAttempt(task[r].kind) THEN Done ELSE t]
      BY <1>1, <1>4, Zenon DEF FetchFails
    <3> HIDE DEF t
    <3> QED BY <1>4, <3>1
  <2>2. t \in Tasks
    BY <1>1 DEF Tasks
  <2>3. task[r].attempt < LastAttempt(task[r].kind)
    BY <1>1, <1>2, <1>4, BoundsAssumption DEF InTries
  <2>4. t.attempt = task[r].attempt /\ t.kind = task[r].kind /\ t.stage = "waiting"
    BY <1>1
  <2>5. InTries(t)
    BY <1>2, <2>3, <2>4, BoundsAssumption DEF InTries
  <2>6. Covered(t)
    BY <1>1, <1>4, <2>4 DEF Covered, FetchFails
  <2> HIDE DEF t
  <2>7. PICK u \in Tasks : u = t
    BY <2>2
  <2> QED BY <1>0, <2>1, <2>5, <2>6, <2>7, MovesKeep
<1>5. CASE FetchAgain(r)
  <2> DEFINE t == [task[r] EXCEPT !.stage = "fetching", !.attempt = @ + 1]
  <2>1. task' = [task EXCEPT ![r] = t]
    BY <1>1, <1>5 DEF FetchAgain
  <2>2. task[r].attempt < LastAttempt(task[r].kind)
    BY <1>1, <1>5 DEF InTries, FetchAgain
  <2>3. task[r].attempt + 1 \in 0..RETRY_ATTEMPTS
        /\ task[r].attempt + 1 <= LastAttempt(task[r].kind)
    BY <1>2, <2>2, BoundsAssumption
  <2>4. t \in Tasks
    BY <1>1, <2>3 DEF Tasks
  <2>5. t.attempt = task[r].attempt + 1 /\ t.kind = task[r].kind /\ t.stage = "fetching"
    BY <1>1
  <2>6. InTries(t)
    BY <2>3, <2>5 DEF InTries
  <2>7. Covered(t)
    BY <1>1, <1>5, <2>5 DEF Covered, FetchAgain
  <2> HIDE DEF t
  <2>8. PICK u \in Tasks : u = t
    BY <2>4
  <2> QED BY <1>0, <2>1, <2>6, <2>7, <2>8, MovesKeep
<1> QED BY <1>3, <1>4, <1>5 DEF FetchEnds, FetchFails

-----------------------------------------------------------------------------
(* Reading the storage.                                                     *)

\* readConsent changes the mail only, and what it adds tells of the store.
LEMMA ReadKeepsMail ==
  ASSUME ConsentInv, NEW c \in Contexts, ReadConsent(c),
         UNCHANGED <<version, store, writes, cached, granted>>
  PROVE  /\ mail' \in [Contexts -> Seq(Honest')] /\ mail' \in [Contexts -> Seq(Mail)]
         /\ CopiesFollow' /\ StoreIsAgreed' /\ CopiesAreAgreed'
<1>0. /\ mail \in [Contexts -> Seq(Honest)] /\ CopiesFollow
      /\ mail \in [Contexts -> Seq(Mail)] /\ store \in Decisions \cup {NoDecision}
      /\ StoreIsAgreed /\ CopiesAreAgreed
  BY DEF ConsentInv, Trusted, TypeOK
<1>1. Honest' = Honest
  BY DEF Honest, Agreed
<1>2. StoreIsAgreed' /\ CopiesAreAgreed'
  BY <1>0 DEF StoreIsAgreed, CopiesAreAgreed, Agreed, Known
<1>3. CASE mail' = mail
  BY <1>0, <1>1, <1>2, <1>3 DEF CopiesFollow, EndsWith, Parse
<1>4. CASE mail' # mail
  <2>1. PICK reply \in {[what |-> "read", record |-> store], [what |-> "failed"]} :
          mail' = [mail EXCEPT ![c] = Append(@, reply)]
    BY <1>4 DEF ReadConsent
  <2>2. reply \in Honest
    <3>1. reply \in Mail
      BY <1>0 DEF Mail
    <3>2. CASE reply = [what |-> "read", record |-> store]
      BY <1>0, <3>1, <3>2 DEF Honest, StoreIsAgreed
    <3>3. CASE reply = [what |-> "failed"]
      BY <3>1, <3>3 DEF Honest
    <3> QED BY <3>2, <3>3
  <2>3. reply.what = "failed" \/ reply.record = store
    OBVIOUS
  <2>4. mail[c] \in Seq(Honest)
    BY <1>0
  <2>5. /\ Append(mail[c], reply) \in Seq(Honest) /\ Append(mail[c], reply) # <<>>
        /\ Append(mail[c], reply)[Len(Append(mail[c], reply))] = reply
    BY <2>2, <2>4, MailGrows
  <2>6. mail'[c] = Append(mail[c], reply) /\ \A d \in Contexts \ {c} : mail'[d] = mail[d]
    BY <1>0, <2>1
  <2>7. CopiesFollow'
    <3>1. ASSUME NEW d \in Contexts, d # c
          PROVE IF mail'[d] = <<>>
                  THEN cached'[d] \in {Unknown, NoDecision, Parse(store)'}
                  ELSE EndsWith(mail'[d], store')
      <4>1. mail'[d] = mail[d] /\ cached'[d] = cached[d] /\ Parse(store)' = Parse(store)
        BY <2>6, <3>1 DEF Parse
      <4> QED BY <1>0, <4>1 DEF CopiesFollow
    <3>2. mail'[c] # <<>> /\ EndsWith(mail'[c], store')
      BY <2>3, <2>5, <2>6 DEF EndsWith
    <3> QED BY <3>1, <3>2 DEF CopiesFollow
  <2>8. mail' \in [Contexts -> Seq(Honest)]
    BY <1>0, <2>1, <2>5
  <2>9. mail' \in [Contexts -> Seq(Mail)]
    <3>1. Honest \subseteq Mail
      BY DEF Honest
    <3>2. \A d \in Contexts : mail'[d] \in Seq(Mail)
      BY <2>8, <3>1, SeqMonotonic
    <3> QED BY <2>1, <2>8, <3>2
  <2> QED BY <1>1, <1>2, <2>7, <2>8, <2>9
<1> QED BY <1>3, <1>4

LEMMA MountKeeps ==
  ASSUME ConsentInv, NEW c \in Contexts, WindowMounts(c)
  PROVE  ConsentInv'
<1>1. /\ ReadConsent(c) /\ UNCHANGED <<version, store, writes, cached, granted>>
      /\ task' = task
  BY DEF WindowMounts
<1>2. /\ mail' \in [Contexts -> Seq(Honest')] /\ mail' \in [Contexts -> Seq(Mail)]
      /\ CopiesFollow' /\ StoreIsAgreed' /\ CopiesAreAgreed'
  BY <1>1, ReadKeepsMail
<1>3. \A r \in Requests : (InTries(task[r]) /\ Covered(task[r]))'
  BY <1>1 DEF ConsentInv, Trusted, InTries, Covered
<1> QED BY <1>1, <1>2, <1>3 DEF ConsentInv, Trusted, TypeOK

LEMMA StartKeeps ==
  ASSUME ConsentInv, NEW r \in Requests, NEW c \in Contexts, NEW kind \in Kinds,
         RequestStarts(r, c, kind)
  PROVE  ConsentInv'
<1>0. /\ UNCHANGED <<version, store, writes, cached, granted>>
      /\ task \in [Requests -> Tasks]
      /\ cached[c] \in Decisions \cup {Unknown, NoDecision}
      /\ Known(cached[c]) => Agreed(cached[c])
      /\ \A q \in Requests : InTries(task[q]) /\ Covered(task[q])
  BY DEF RequestStarts, ConsentInv, TypeOK, Trusted, CopiesAreAgreed
<1>1. CASE cached[c] = Unknown
  <2> DEFINE t == [stage |-> "asking", at |-> c, kind |-> kind, attempt |-> 0]
  <2>1. task' = [task EXCEPT ![r] = t] /\ ReadConsent(c)
    BY <1>1 DEF RequestStarts
  <2>2. t \in Tasks /\ InTries(t) /\ Covered(t)
    BY LastAttemptType, BoundsAssumption DEF Tasks, InTries, Covered
  <2>3. /\ mail' \in [Contexts -> Seq(Honest')] /\ mail' \in [Contexts -> Seq(Mail)]
        /\ CopiesFollow' /\ StoreIsAgreed' /\ CopiesAreAgreed'
    BY <1>0, <2>1, ReadKeepsMail
  <2> HIDE DEF t
  <2>4. task' \in [Requests -> Tasks]
    BY <1>0, <2>1, <2>2
  <2>5. \A q \in Requests : InTries(task'[q]) /\ Covered(task'[q])
    BY <1>0, <2>1, <2>2
  <2>6. \A q \in Requests : (InTries(task[q]) /\ Covered(task[q]))'
    BY <1>0, <2>5 DEF InTries, Covered
  <2> QED BY <1>0, <2>3, <2>4, <2>6 DEF ConsentInv, Trusted, TypeOK
<1>2. CASE cached[c] # Unknown
  <2>1. PICK t \in Tasks : t = Gate(c, kind, cached[c]) /\ InTries(t) /\ Covered(t)
    BY <1>0, GateIsCovered
  <2>2. task' = [task EXCEPT ![r] = t] /\ mail' = mail
    BY <1>2, <2>1 DEF RequestStarts
  <2> QED BY <1>0, <2>1, <2>2, MovesKeep
<1> QED BY <1>1, <1>2

-----------------------------------------------------------------------------
(* What reaches a context.                                                  *)

LEMMA TailIs ==
  ASSUME NEW S, NEW q \in Seq(S), q # <<>>
  PROVE  /\ Head(q) \in S /\ Tail(q) \in Seq(S)
         /\ Tail(q) = <<>> => q[Len(q)] = Head(q)
         /\ Tail(q) # <<>> => Tail(q)[Len(Tail(q))] = q[Len(q)]
<1>1. /\ Head(q) \in S /\ Tail(q) \in Seq(S) /\ Len(Tail(q)) = Len(q) - 1
      /\ \A i \in 1..Len(Tail(q)) : Tail(q)[i] = q[i + 1]
  BY HeadTailProperties
<1>2. Len(q) \in Nat \ {0} /\ Head(q) = q[1]
  BY EmptySeq
<1>3. Tail(q) = <<>> => Len(q) = 1
  BY SMTT(60), <1>1, <1>2, EmptySeq
<1>4. Tail(q) # <<>> => Len(q) - 1 \in 1..Len(Tail(q)) /\ (Len(q) - 1) + 1 = Len(q)
  BY <1>1, <1>2, EmptySeq
<1> QED BY <1>1, <1>2, <1>3, <1>4

\* A context that takes a message and believes d ever after.
LEMMA HeardKeeps ==
  ASSUME ConsentInv, NEW c \in Contexts, mail[c] # <<>>,
         NEW d \in Decisions \cup {NoDecision},
         UNCHANGED <<version, store, writes, granted>>,
         mail' = [mail EXCEPT ![c] = Tail(@)], cached' = [cached EXCEPT ![c] = d],
         Known(d) => Agreed(d),
         Head(mail[c]).what = "failed" \/ Head(mail[c]).record = store =>
           d \in {NoDecision, Parse(store)}
  PROVE  /\ mail' \in [Contexts -> Seq(Honest')] /\ mail' \in [Contexts -> Seq(Mail)]
         /\ cached' \in [Contexts -> Decisions \cup {Unknown, NoDecision}]
         /\ CopiesFollow' /\ StoreIsAgreed' /\ CopiesAreAgreed'
<1>0. /\ mail \in [Contexts -> Seq(Honest)] /\ CopiesFollow
      /\ cached \in [Contexts -> Decisions \cup {Unknown, NoDecision}]
      /\ StoreIsAgreed /\ CopiesAreAgreed
  BY DEF ConsentInv, Trusted, TypeOK
<1>1. Honest' = Honest
  BY DEF Honest, Agreed
<1>2. StoreIsAgreed' /\ CopiesAreAgreed'
  BY <1>0 DEF StoreIsAgreed, CopiesAreAgreed, Agreed, Known
<1>3. mail[c] \in Seq(Honest)
  BY <1>0
<1>4. /\ Tail(mail[c]) \in Seq(Honest)
      /\ Tail(mail[c]) = <<>> => mail[c][Len(mail[c])] = Head(mail[c])
      /\ Tail(mail[c]) # <<>> => Tail(mail[c])[Len(Tail(mail[c]))] = mail[c][Len(mail[c])]
  BY <1>3, TailIs
<1>5. mail' \in [Contexts -> Seq(Honest)]
  BY <1>0, <1>4
<1>6. mail' \in [Contexts -> Seq(Mail)]
  <2>1. Honest \subseteq Mail
    BY DEF Honest
  <2>2. \A e \in Contexts : mail'[e] \in Seq(Mail)
    BY <1>5, <2>1, SeqMonotonic
  <2> QED BY <1>5, <2>2
<1>7. mail'[c] = Tail(mail[c]) /\ cached'[c] = d /\ EndsWith(mail[c], store)
  BY <1>0 DEF CopiesFollow
<1>8. CASE Tail(mail[c]) = <<>>
  <2>1. d \in {NoDecision, Parse(store)}
    BY <1>4, <1>7, <1>8 DEF EndsWith
  <2>2. \A e \in Contexts \ {c} : mail'[e] = mail[e] /\ cached'[e] = cached[e]
    BY <1>0
  <2> QED BY <1>0, <1>1, <1>2, <1>5, <1>6, <1>7, <1>8, <2>1, <2>2 DEF CopiesFollow, Parse
<1>9. CASE Tail(mail[c]) # <<>>
  <2>1. EndsWith(mail'[c], store)
    BY <1>4, <1>7, <1>9 DEF EndsWith
  <2>2. \A e \in Contexts \ {c} : mail'[e] = mail[e] /\ cached'[e] = cached[e]
    BY <1>0
  <2> QED BY <1>0, <1>1, <1>2, <1>5, <1>6, <1>7, <1>9, <2>1, <2>2 DEF CopiesFollow, Parse
<1> QED BY <1>8, <1>9

\* The decision that a message of each kind leads to.
LEMMA MessageTells ==
  ASSUME ConsentInv, NEW c \in Contexts, mail[c] # <<>>, NEW m, m = Head(mail[c])
  PROVE  /\ m.what \in {"read", "failed"} =>
              /\ Learnt(m) \in Decisions \cup {NoDecision}
              /\ Known(Learnt(m)) => Agreed(Learnt(m))
              /\ m.what = "failed" \/ m.record = store => Learnt(m) \in {NoDecision, Parse(store)}
         /\ m.what = "changed" =>
              /\ Parse(m.record) \in Decisions \cup {NoDecision}
              /\ Known(Parse(m.record)) => Agreed(Parse(m.record))
         /\ m.what = "saved" =>
              /\ m.record \in Decisions /\ Agreed(m.record)
              /\ m.record = store => m.record = Parse(store)
<1>1. m \in Honest
  <2>1. mail[c] \in Seq(Honest)
    BY DEF ConsentInv, Trusted
  <2> QED BY <2>1, TailIs
<1>2. m \in Mail
  BY <1>1 DEF Honest
<1>3. ASSUME m.what \in {"read", "changed"}
      PROVE  /\ m.record \in Decisions \cup {NoDecision}
             /\ Parse(m.record) \in Decisions \cup {NoDecision}
             /\ Known(Parse(m.record)) => Agreed(Parse(m.record))
  <2>1. m.record \in Decisions \cup {NoDecision}
    BY <1>2, <1>3 DEF Mail
  <2>2. /\ Parse(m.record) \in Decisions \cup {NoDecision}
        /\ Parse(m.record) # NoDecision => Parse(m.record) = m.record /\ m.record.version = version
    BY <2>1, ParseType
  <2> QED BY <1>1, <1>3, <2>1, <2>2 DEF Honest, Known
<1>4. ASSUME m.what = "failed" PROVE Learnt(m) = NoDecision
  BY <1>4 DEF Learnt
<1>5. ASSUME m.what = "read" PROVE Learnt(m) = Parse(m.record)
  BY <1>5 DEF Learnt
<1>6. ASSUME m.what = "saved"
      PROVE  /\ m.record \in Decisions /\ Agreed(m.record)
             /\ m.record = store => m.record = Parse(store)
  <2>1. m.record # NoDecision /\ m.record.version = version /\ Agreed(m.record)
    BY <1>1, <1>6 DEF Honest
  <2>2. m.record \in Decisions \cup {NoDecision}
    BY <1>2, <1>6 DEF Mail
  <2> QED BY <2>1, <2>2 DEF Parse
<1> QED BY <1>3, <1>4, <1>5, <1>6 DEF Known

LEMMA TasksStay ==
  ASSUME ConsentInv, UNCHANGED <<granted, task>>
  PROVE  /\ task' \in [Requests -> Tasks]
         /\ \A r \in Requests : (InTries(task[r]) /\ Covered(task[r]))'
BY DEF ConsentInv, TypeOK, Trusted, InTries, Covered

LEMMA ArrivalKeeps ==
  ASSUME ConsentInv, NEW c \in Contexts, MailArrives(c)
  PROVE  ConsentInv'
<1>0. /\ mail[c] # <<>> /\ UNCHANGED <<version, store, writes, granted>>
      /\ mail' = [mail EXCEPT ![c] = Tail(@)]
  BY DEF MailArrives, ReadReturns, OnChanged, SaveReturns, FirstMail
<1>1. PICK m : m = Head(mail[c])
  OBVIOUS
<1>2. CASE ReadReturns(c)
  <2>1. m.what \in {"read", "failed"}
    BY <1>1, <1>2 DEF ReadReturns, FirstMail
  <2>2. PICK d \in Decisions \cup {NoDecision} :
          /\ d = Learnt(m)
          /\ Known(d) => Agreed(d)
          /\ m.what = "failed" \/ m.record = store => d \in {NoDecision, Parse(store)}
    BY <1>0, <1>1, <2>1, MessageTells
  <2>3. /\ cached' = [cached EXCEPT ![c] = d]
        /\ task' = [r \in Requests |->
                      IF task[r].stage = "asking" /\ task[r].at = c
                        THEN Gate(c, task[r].kind, d) ELSE task[r]]
    BY <1>1, <1>2, <2>2 DEF ReadReturns
  <2>4. ASSUME NEW r \in Requests
        PROVE  task'[r] \in Tasks /\ InTries(task'[r]) /\ Covered(task'[r])
    <3>1. task[r] \in Tasks /\ InTries(task[r]) /\ Covered(task[r])
      BY DEF ConsentInv, TypeOK, Trusted
    <3>2. CASE task[r].stage = "asking" /\ task[r].at = c
      <4>1. task[r].kind \in Kinds
        BY <3>1, <3>2 DEF Tasks, Idle, Done
      <4>2. task'[r] = Gate(c, task[r].kind, d)
        BY <2>3, <3>2
      <4> QED BY <2>2, <4>1, <4>2, GateIsCovered
    <3>3. CASE ~(task[r].stage = "asking" /\ task[r].at = c)
      BY <2>3, <3>1, <3>3
    <3> QED BY <3>2, <3>3
  <2>5. task' \in [Requests -> Tasks] /\ \A r \in Requests : (InTries(task[r]) /\ Covered(task[r]))'
    BY <1>0, <2>3, <2>4 DEF InTries, Covered
  <2>6. /\ mail' \in [Contexts -> Seq(Honest')] /\ mail' \in [Contexts -> Seq(Mail)]
        /\ cached' \in [Contexts -> Decisions \cup {Unknown, NoDecision}]
        /\ CopiesFollow' /\ StoreIsAgreed' /\ CopiesAreAgreed'
    BY <1>0, <1>1, <2>2, <2>3, HeardKeeps
  <2> QED BY <1>0, <2>5, <2>6 DEF ConsentInv, Trusted, TypeOK
<1>3. CASE OnChanged(c)
  <2>1. m.what = "changed" /\ task' = task
    BY <1>1, <1>3 DEF OnChanged, FirstMail
  <2>2. PICK d \in Decisions \cup {NoDecision} :
          /\ d = Parse(m.record)
          /\ Known(d) => Agreed(d)
    BY <1>0, <1>1, <2>1, MessageTells
  <2>3. cached' = [cached EXCEPT ![c] = d]
    BY <1>1, <1>3, <2>2 DEF OnChanged
  <2>4. m.what = "failed" \/ m.record = store => d \in {NoDecision, Parse(store)}
    BY <2>1, <2>2 DEF Parse
  <2>5. /\ mail' \in [Contexts -> Seq(Honest')] /\ mail' \in [Contexts -> Seq(Mail)]
        /\ cached' \in [Contexts -> Decisions \cup {Unknown, NoDecision}]
        /\ CopiesFollow' /\ StoreIsAgreed' /\ CopiesAreAgreed'
    BY <1>0, <1>1, <2>2, <2>3, <2>4, HeardKeeps
  <2> QED BY <1>0, <2>1, <2>5, TasksStay DEF ConsentInv, Trusted, TypeOK
<1>4. CASE SaveReturns(c)
  <2>1. m.what = "saved" /\ task' = task /\ cached' = [cached EXCEPT ![c] = m.record]
    BY <1>1, <1>4 DEF SaveReturns, FirstMail
  <2>2. PICK d \in Decisions \cup {NoDecision} : d = m.record
    BY <1>0, <1>1, <2>1, MessageTells
  <2>3. m.what = "failed" \/ m.record = store => d \in {NoDecision, Parse(store)}
    BY <1>0, <1>1, <2>1, <2>2, MessageTells
  <2>4. Known(d) => Agreed(d)
    BY <1>0, <1>1, <2>1, <2>2, MessageTells
  <2>5. /\ mail' \in [Contexts -> Seq(Honest')] /\ mail' \in [Contexts -> Seq(Mail)]
        /\ cached' \in [Contexts -> Decisions \cup {Unknown, NoDecision}]
        /\ CopiesFollow' /\ StoreIsAgreed' /\ CopiesAreAgreed'
    BY <1>0, <1>1, <2>1, <2>2, <2>3, <2>4, HeardKeeps
  <2> QED BY <1>0, <2>1, <2>5, TasksStay DEF ConsentInv, Trusted, TypeOK
<1> QED BY <1>2, <1>3, <1>4 DEF MailArrives

-----------------------------------------------------------------------------
(* Contexts that end.                                                       *)

LEMMA ForgottenTasks ==
  ASSUME ConsentInv, NEW gone \in SUBSET Contexts, Forgotten(gone)
  PROVE  /\ task' \in [Requests -> Tasks]
         /\ \A r \in Requests : task'[r] \in {task[r], Done}
         /\ \A r \in Requests : task'[r].stage \notin {"idle", "done"} => task[r].at \notin gone
<1>1. task \in [Requests -> Tasks] /\ Done \in Tasks
  BY DEF ConsentInv, TypeOK, Tasks
<1>2. \A r \in Requests :
        task'[r] = IF task[r] # Idle /\ task[r] # Done /\ task[r].at \in gone
                     THEN Done ELSE task[r]
  BY DEF Forgotten
<1>3. \A r \in Requests : task'[r] \in Tasks
  BY <1>1, <1>2
<1>4. task' \in [Requests -> Tasks]
  BY <1>3 DEF Forgotten
<1> QED BY <1>2, <1>4 DEF Idle, Done

LEMMA ForgottenCopies ==
  ASSUME ConsentInv, NEW gone \in SUBSET Contexts, Forgotten(gone)
  PROVE  /\ mail' \in [Contexts -> Seq(Mail)]
         /\ cached' \in [Contexts -> Decisions \cup {Unknown, NoDecision}]
         /\ \A c \in gone : mail'[c] = <<>> /\ cached'[c] = Unknown
         /\ \A c \in Contexts \ gone : mail'[c] = mail[c] /\ cached'[c] = cached[c]
<1>1. /\ mail \in [Contexts -> Seq(Mail)]
      /\ cached \in [Contexts -> Decisions \cup {Unknown, NoDecision}]
  BY DEF ConsentInv, TypeOK
<1>2. mail' = [c \in Contexts |-> IF c \in gone THEN <<>> ELSE mail[c]]
  BY DEF Forgotten
<1>3. \A c \in Contexts : mail'[c] \in Seq(Mail)
  BY <1>1, <1>2
<1>4. cached' = [c \in Contexts |-> IF c \in gone THEN Unknown ELSE cached[c]]
  BY DEF Forgotten
<1>5. \A c \in Contexts : cached'[c] \in Decisions \cup {Unknown, NoDecision}
  BY <1>1, <1>4
<1>6. mail' \in [Contexts -> Seq(Mail)]
  BY <1>2, <1>3
<1>7. cached' \in [Contexts -> Decisions \cup {Unknown, NoDecision}]
  BY <1>4, <1>5
<1> QED BY <1>2, <1>4, <1>6, <1>7

LEMMA EndKeeps ==
  ASSUME ConsentInv, NEW c \in Contexts, ContextEnds(c)
  PROVE  ConsentInv'
<1>0. UNCHANGED <<version, store, writes, granted>> /\ Forgotten({c}) /\ {c} \in SUBSET Contexts
  BY DEF ContextEnds
<1>1. /\ mail' \in [Contexts -> Seq(Mail)]
      /\ cached' \in [Contexts -> Decisions \cup {Unknown, NoDecision}]
      /\ mail'[c] = <<>> /\ cached'[c] = Unknown
      /\ \A d \in Contexts \ {c} : mail'[d] = mail[d] /\ cached'[d] = cached[d]
  BY <1>0, ForgottenCopies
<1>2. task' \in [Requests -> Tasks] /\ \A r \in Requests : task'[r] \in {task[r], Done}
  BY <1>0, ForgottenTasks
<1>3. /\ mail \in [Contexts -> Seq(Honest)] /\ CopiesFollow /\ StoreIsAgreed /\ CopiesAreAgreed
      /\ \A r \in Requests : InTries(task[r]) /\ Covered(task[r])
  BY DEF ConsentInv, Trusted
<1>4. Honest' = Honest
  BY <1>0 DEF Honest, Agreed
<1>5. mail' \in [Contexts -> Seq(Honest)]
  <2>1. ASSUME NEW d \in Contexts PROVE mail'[d] \in Seq(Honest)
    <3>1. mail[d] \in Seq(Honest)
      BY <1>3
    <3>2. CASE d = c
      BY <1>1, <3>2
    <3>3. CASE d # c
      BY <1>1, <3>1, <3>3
    <3> QED BY <3>2, <3>3
  <2> QED BY <1>1, <2>1
<1>6. StoreIsAgreed'
  BY <1>0, <1>3 DEF StoreIsAgreed, Agreed
<1>7. CopiesAreAgreed'
  BY <1>0, <1>1, <1>3 DEF CopiesAreAgreed, Agreed, Known
<1>8. CopiesFollow'
  BY <1>0, <1>1, <1>3 DEF CopiesFollow, EndsWith, Parse
<1>9. \A r \in Requests : (InTries(task[r]) /\ Covered(task[r]))'
  <2>1. \A r \in Requests : InTries(task'[r]) /\ Covered(task'[r])
    BY <1>2, <1>3, DoneIsFine
  <2> QED BY <1>0, <2>1 DEF InTries, Covered
<1> QED BY <1>0, <1>1, <1>2, <1>4, <1>5, <1>6, <1>7, <1>8, <1>9
        DEF ConsentInv, Trusted, TypeOK

LEMMA UpdateKeeps ==
  ASSUME ConsentInv, Update
  PROVE  ConsentInv'
<1>0. /\ version < MaxVersion /\ version' = version + 1 /\ granted' = Nothing
      /\ store' = store /\ writes' = writes /\ Forgotten(Contexts)
      /\ version \in 1..MaxVersion
  BY DEF Update, ConsentInv, TypeOK
<1>1. /\ mail' \in [Contexts -> Seq(Mail)]
      /\ cached' \in [Contexts -> Decisions \cup {Unknown, NoDecision}]
      /\ \A c \in Contexts : mail'[c] = <<>> /\ cached'[c] = Unknown
  BY <1>0, ForgottenCopies
<1>2. /\ task' \in [Requests -> Tasks]
      /\ \A r \in Requests : task'[r] \in {Idle, Done}
  <2>1. /\ task' \in [Requests -> Tasks]
        /\ \A r \in Requests : task'[r] = IF task[r] # Idle /\ task[r] # Done /\ task[r].at \in Contexts
                                            THEN Done ELSE task[r]
    BY <1>0, ForgottenTasks DEF Forgotten
  <2>2. \A r \in Requests : task[r] \in {Idle, Done} \/ task[r].at \in Contexts
    BY DEF ConsentInv, TypeOK, Tasks
  <2> QED BY <2>1, <2>2
<1>3. TypeOK'
  <2>1. version' \in 1..MaxVersion
    BY <1>0, BoundsAssumption
  <2> QED BY <1>0, <1>1, <1>2, <2>1 DEF TypeOK, ConsentInv, Nothing
<1>4. mail' \in [Contexts -> Seq(Honest')]
  <2>1. PICK T : T = Honest'
    OBVIOUS
  <2>2. \A c \in Contexts : mail'[c] \in Seq(T)
    BY <1>1
  <2> QED BY <1>1, <2>1, <2>2
<1>5. StoreIsAgreed'
  <2>1. store # NoDecision => store.version <= version /\ store.version \in Nat
    BY BoundsAssumption DEF ConsentInv, Trusted, StoreIsAgreed, TypeOK, Decisions
  <2> QED BY <1>0, <2>1 DEF StoreIsAgreed
<1>6. CopiesAreAgreed' /\ CopiesFollow'
  BY <1>1 DEF CopiesAreAgreed, CopiesFollow, Known
<1>7. \A r \in Requests : (InTries(task[r]) /\ Covered(task[r]))'
  BY <1>2 DEF InTries, Covered, Idle, Done
<1> QED BY <1>3, <1>4, <1>5, <1>6, <1>7 DEF ConsentInv, Trusted

-----------------------------------------------------------------------------
(* Every step.                                                              *)

LEMMA UserKeeps ==
  ASSUME ConsentInv, NEW c \in Contexts, UserActs(c)
  PROVE  ConsentInv'
<1>1. cached[c] \in Decisions \cup {Unknown, NoDecision}
  BY DEF ConsentInv, TypeOK
<1>2. CASE WindowMounts(c)
  BY <1>2, MountKeeps
<1>3. ASSUME NEW network \in BOOLEAN, NEW ai \in BOOLEAN, Decide(c, network, ai)
      PROVE  ConsentInv'
  BY <1>3, SaveKeeps DEF Decide
<1>4. ASSUME NEW enabled \in BOOLEAN, SetAiEnabled(c, enabled) PROVE ConsentInv'
  <2>1. cached[c].network \in BOOLEAN
    BY <1>1, <1>4 DEF SetAiEnabled, NetworkAllowed, Known, Decisions
  <2> QED BY <1>4, <2>1, SaveKeeps DEF SetAiEnabled
<1>5. ASSUME NEW enabled \in BOOLEAN, SetNetworkEnabled(c, enabled) PROVE ConsentInv'
  <2>1. PICK ai \in BOOLEAN : ai = (enabled /\ cached[c].ai)
    OBVIOUS
  <2>2. SaveConsent(c, enabled, ai)
    BY <1>5, <2>1 DEF SetNetworkEnabled
  <2> QED BY <2>2, SaveKeeps
<1> QED BY <1>2, <1>3, <1>4, <1>5 DEF UserActs

LEMMA StepKeeps == ConsentInv /\ [Next]_vars => ConsentInv'
<1> SUFFICES ASSUME ConsentInv, [Next]_vars PROVE ConsentInv'
  OBVIOUS
<1>1. ASSUME NEW c \in Contexts, UserActs(c) PROVE ConsentInv'
  BY <1>1, UserKeeps
<1>2. ASSUME NEW c \in Contexts, MailArrives(c) PROVE ConsentInv'
  BY <1>2, ArrivalKeeps
<1>3. ASSUME NEW c \in Contexts, ContextEnds(c) PROVE ConsentInv'
  BY <1>3, EndKeeps
<1>4. ASSUME NEW r \in Requests, RequestGoesOn(r) PROVE ConsentInv'
  BY <1>4, FetchKeeps DEF RequestGoesOn
<1>5. ASSUME NEW r \in Requests, NEW c \in Contexts, NEW kind \in Kinds,
             RequestStarts(r, c, kind)
      PROVE  ConsentInv'
  BY <1>5, StartKeeps
<1>6. CASE Update
  BY <1>6, UpdateKeeps
<1>7. CASE UNCHANGED vars
  <2>1. UNCHANGED <<version, store, writes, cached, mail, granted>> /\ task' = task
    BY <1>7 DEF vars
  <2> QED BY <2>1, TasksKeep DEF ConsentInv, TypeOK, Trusted
<1> QED BY <1>1, <1>2, <1>3, <1>4, <1>5, <1>6, <1>7 DEF Next

LEMMA AlwaysTrusted == Spec => []ConsentInv
BY InitTrusted, StepKeeps, PTL DEF Spec

\* Every value the consent module and the client hold has its type.
THEOREM ConsentTypes == Spec => []TypeOK
<1>1. ConsentInv => TypeOK
  BY DEF ConsentInv
<1> QED BY <1>1, AlwaysTrusted, PTL

\* However windows, toggles, updates, lost contexts and storage replies
\* interleave, a request that has left was agreed to under this version of the
\* disclosure: network for every kind, AI for explain and chat (request(),
\* explainTx and streamChat of api.ts).
THEOREM ConsentAskedFirst == Spec => []AskedFirst
<1>1. ConsentInv => AskedFirst
  BY DEF ConsentInv, Trusted, Covered, AskedFirst
<1> QED BY <1>1, AlwaysTrusted, PTL

\* No copy of the decision outlives the record it was read from: once its
\* messages are read a context holds the stored decision or denies (cached and
\* the onChanged listener of consent.ts).
THEOREM ConsentIsCurrent == Spec => []NoStaleConsent
<1>1. ASSUME ConsentInv, NEW c \in Contexts
      PROVE  Believes(c) \in {Unknown, NoDecision, Parse(store)}
  <2>1. /\ IF mail[c] = <<>>
             THEN cached[c] \in {Unknown, NoDecision, Parse(store)}
             ELSE EndsWith(mail[c], store)
        /\ mail[c] \in Seq(Honest)
    BY <1>1 DEF ConsentInv, Trusted, CopiesFollow
  <2>2. CASE mail[c] = <<>>
    BY <2>1, <2>2 DEF Believes
  <2>3. CASE mail[c] # <<>>
    <3>1. PICK last \in Honest : last = mail[c][Len(mail[c])]
      BY <2>1, <2>3, LenProperties, EmptySeq
    <3>2. last.what = "failed" \/ last.record = store
      BY <2>1, <2>3, <3>1 DEF EndsWith
    <3>3. last.what \in {"read", "changed", "saved", "failed"}
      BY <3>1 DEF Honest, Mail
    <3>4. last.what = "saved" => last.record # NoDecision /\ last.record.version = version
      BY <3>1 DEF Honest
    <3>5. Believes(c) = CASE last.what = "saved" -> last.record
                          [] last.what = "changed" -> Parse(last.record)
                          [] OTHER -> Learnt(last)
      BY <2>3, <3>1 DEF Believes
    <3> QED BY <3>2, <3>3, <3>4, <3>5 DEF Learnt, Parse
  <2> QED BY <2>2, <2>3
<1>2. ConsentInv => NoStaleConsent
  BY <1>1 DEF NoStaleConsent
<1> QED BY <1>2, AlwaysTrusted, PTL

-----------------------------------------------------------------------------
(* The first attempt of a request.                                          *)

LEMMA CallStarts ==
  ASSUME ConsentInv, NEW r \in Requests, NEW q \in Requests, NEW c \in Contexts,
         NEW kind \in Kinds, RequestStarts(q, c, kind),
         FirstFetch(r), mail'[task'[r].at] = <<>>
  PROVE  Allowed(task'[r].kind, Parse(store))
<1>1. task \in [Requests -> Tasks] /\ CopiesFollow
  BY DEF ConsentInv, TypeOK, Trusted
<1>2. r = q /\ cached[c] # Unknown /\ task'[r] = Gate(c, kind, cached[c]) /\ mail' = mail
  BY <1>1 DEF RequestStarts, FirstFetch
<1>3. /\ Allowed(kind, cached[c])
      /\ task'[r] = [stage |-> "fetching", at |-> c, kind |-> kind, attempt |-> 0]
  BY <1>2 DEF Gate, Done, FirstFetch
<1>4. mail[c] = <<>> /\ Known(cached[c])
  BY <1>2, <1>3 DEF Allowed, AiAllowed, NetworkAllowed
<1>5. cached[c] = Parse(store)
  BY <1>1, <1>4 DEF CopiesFollow, Known
<1> QED BY <1>3, <1>5

LEMMA CallGoesOn ==
  ASSUME ConsentInv, NEW r \in Requests, NEW c \in Contexts, ReadReturns(c),
         FirstFetch(r), mail'[task'[r].at] = <<>>
  PROVE  Allowed(task'[r].kind, Parse(store))
<1>1. /\ mail \in [Contexts -> Seq(Honest)] /\ CopiesFollow
      /\ mail[c] # <<>> /\ mail' = [mail EXCEPT ![c] = Tail(@)]
  BY DEF ConsentInv, Trusted, ReadReturns, FirstMail
<1>2. PICK m : m = Head(mail[c])
  OBVIOUS
<1>3. /\ m.what \in {"read", "failed"}
      /\ task'[r] = IF task[r].stage = "asking" /\ task[r].at = c
                      THEN Gate(c, task[r].kind, Learnt(m)) ELSE task[r]
  BY <1>2 DEF ReadReturns, FirstMail
<1>4. task'[r] = Gate(c, task[r].kind, Learnt(m))
  BY <1>3 DEF FirstFetch
<1>5. /\ Allowed(task[r].kind, Learnt(m))
      /\ task'[r] = [stage |-> "fetching", at |-> c, kind |-> task[r].kind, attempt |-> 0]
  BY <1>4 DEF Gate, Done, FirstFetch
<1>6. Tail(mail[c]) = <<>>
  BY <1>1, <1>5
<1>7. mail[c][Len(mail[c])] = m
  <2>1. mail[c] \in Seq(Honest)
    BY <1>1
  <2> QED BY <1>1, <1>2, <1>6, <2>1, TailIs
<1>8. m.what = "failed" \/ m.record = store
  BY <1>1, <1>7 DEF CopiesFollow, EndsWith
<1>9. Learnt(m) # NoDecision
  BY <1>5 DEF Allowed, AiAllowed, NetworkAllowed, Known
<1>10. Learnt(m) = Parse(store)
  BY <1>3, <1>8, <1>9 DEF Learnt
<1> QED BY <1>5, <1>10

\* A request that leaves from a context with no news on its way leaves under
\* the stored decision, whichever context wrote it (the gate of request()
\* before its fetch).
THEOREM ConsentAtTheStart == Spec => StartsWithConsent
<1> DEFINE Step == \A r \in Requests : FirstFetch(r) /\ mail'[task'[r].at] = <<>> =>
                     Allowed(task'[r].kind, Parse(store))
<1>1. ConsentInv /\ [Next]_vars => [Step]_vars
  <2> SUFFICES ASSUME ConsentInv, Next, NEW r \in Requests,
                      FirstFetch(r), mail'[task'[r].at] = <<>>
               PROVE  Allowed(task'[r].kind, Parse(store))
    OBVIOUS
  <2>0. task \in [Requests -> Tasks]
    BY DEF ConsentInv, TypeOK
  <2>1. task'[r] # task[r] /\ task'[r] # Done
    BY DEF FirstFetch, Done
  <2>2. ASSUME NEW c \in Contexts, UserActs(c) PROVE FALSE
    <3>1. task' = task
      BY <2>2 DEF UserActs, WindowMounts, Decide, SetAiEnabled, SetNetworkEnabled, SaveConsent
    <3> QED BY <2>1, <3>1
  <2>3. ASSUME NEW c \in Contexts, MailArrives(c)
        PROVE  Allowed(task'[r].kind, Parse(store))
    <3>1. ReadReturns(c) \/ task' = task
      BY <2>3 DEF MailArrives, OnChanged, SaveReturns
    <3> QED BY <2>1, <3>1, CallGoesOn
  <2>4. ASSUME NEW c \in Contexts, ContextEnds(c) PROVE FALSE
    <3>1. task'[r] \in {task[r], Done}
      BY <2>4 DEF ContextEnds, Forgotten
    <3> QED BY <2>1, <3>1
  <2>5. ASSUME NEW q \in Requests, RequestGoesOn(q) PROVE FALSE
    <3>1. task[q].stage \in {"fetching", "waiting"}
      BY <2>5 DEF RequestGoesOn, FetchEnds, FetchFails, FetchAgain
    <3>2. r # q
      BY <3>1 DEF FirstFetch
    <3>3. task'[r] = task[r]
      BY <2>0, <2>5, <3>2 DEF RequestGoesOn, FetchEnds, FetchFails, FetchAgain
    <3> QED BY <2>1, <3>3
  <2>6. ASSUME NEW q \in Requests, NEW c \in Contexts, NEW kind \in Kinds,
               RequestStarts(q, c, kind)
        PROVE  Allowed(task'[r].kind, Parse(store))
    BY <2>6, CallStarts
  <2>7. CASE Update
    <3>1. task'[r] \in {task[r], Done}
      BY <2>7 DEF Update, Forgotten
    <3> QED BY <2>1, <3>1
  <2> QED BY <2>2, <2>3, <2>4, <2>5, <2>6, <2>7 DEF Next
<1> QED BY <1>1, AlwaysTrusted, PTL DEF Spec, StartsWithConsent

=============================================================================
