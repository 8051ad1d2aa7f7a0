--------------------------- MODULE Requests_proofs ---------------------------
(* What holds of the requests to the server that come before a transaction,  *)
(* for every value of the constants: the rounds of a chat, the review of a   *)
(* transaction, the fees of a network.                                       *)
EXTENDS ChatLoop, TxReview, FeeTiers, SumTheorems, SequenceTheorems, TLAPS

-----------------------------------------------------------------------------
(* The chat.                                                               *)

LEMMA SaysType == ASSUME NEW role \in {"system", "user", "assistant", "tool"}
                  PROVE  Says(role) \in Message
<1>1. <<>> \in Seq(ToolCalls)
  OBVIOUS
<1>2. 0 \in 0..MaxCalls
  BY ChatAssumption
<1> QED BY <1>1, <1>2 DEF Says, Message

\* The context that a chat begins with: the server's message, and nothing else
\* that is the server's, calls for a tool or answers.
LEMMA InitialContext ==
  ASSUME NEW history \in Histories
  PROVE  LET ms == InitialMessages(history)
         IN  /\ ms \in Seq(Message) /\ Len(ms) > 0
             /\ ms[1] = Says("system")
             /\ \A k \in DOMAIN ms : k # 1 => ms[k] \in {Says("user"), Says("assistant")}
<1> DEFINE kept == SubSeq(history, Len(history) - MAX_HISTORY_MESSAGES + 1, Len(history))
           told == IF Len(history) > MAX_HISTORY_MESSAGES THEN kept ELSE history
           rest == [k \in DOMAIN told |-> Says(IF told[k] = "assistant" THEN told[k] ELSE "user")]
<1>1. history \in Seq(STRING)
  BY ChatAssumption
<1>2. Len(history) > MAX_HISTORY_MESSAGES => kept \in Seq(STRING)
  <2>1. MAX_HISTORY_MESSAGES \in Nat /\ Len(history) \in Nat
    BY <1>1, ChatAssumption
  <2>2. \A n \in Int : n >= 1 => SubSeq(history, n, Len(history)) \in Seq(STRING)
    BY <1>1, <2>1, SubSeqProperties
  <2> QED BY <2>1, <2>2
<1>3. told \in Seq(STRING)
  BY <1>1, <1>2
<1> HIDE DEF told
<1>4. \A k \in DOMAIN rest : rest[k] \in {Says("user"), Says("assistant")}
  OBVIOUS
<1>5. rest \in Seq(Message)
  BY <1>3, <1>4, SaysType
<1> HIDE DEF rest
<1>6. <<Says("system")>> \in Seq(Message)
  BY SaysType
<1> DEFINE ms == <<Says("system")>> \o rest
<1>7. /\ ms \in Seq(Message) /\ Len(ms) = 1 + Len(rest)
      /\ \A k \in 1..Len(ms) : ms[k] = IF k <= 1 THEN <<Says("system")>>[k] ELSE rest[k - 1]
  BY <1>5, <1>6
<1>8. \A k \in DOMAIN ms : k # 1 => ms[k] \in {Says("user"), Says("assistant")}
  BY <1>4, <1>5, <1>7
<1>9. ms = InitialMessages(history)
  BY DEF InitialMessages, told, rest
<1>10. ms[1] = Says("system") /\ Len(ms) > 0
  BY <1>5, <1>7
<1> HIDE DEF ms
<1> QED BY <1>7, <1>8, <1>9, <1>10

\* Messages that call for nothing, unless they are the model's.
Quietly(ms) == \A k \in DOMAIN ms : ms[k].role # "assistant" => ms[k].calls = <<>>

\* All calls are answered: what a request to the model is made of.
Complete(ms) ==
    AllAnswered(ms) /\ AnswersOnlyCalls(ms) /\ OneSystemMessage(ms) /\ Quietly(ms)

\* The calls of message a, the last one of the model, are answered in part.
AnsweredInPart(ms, a) ==
    /\ a \in DOMAIN ms /\ ms[a].role = "assistant"
    /\ DOMAIN ms[a].calls = 1..Len(pending)
    /\ \A k \in (a + 1)..Len(ms) : ms[k].role = "tool" /\ ms[k].answers = k - a
    /\ Len(ms) - a < Len(pending)
    /\ \A k \in 1..(a - 1) : \A i \in DOMAIN ms[k].calls :
         k + i < a /\ ms[k + i].role = "tool" /\ ms[k + i].answers = i
    /\ AnswersOnlyCalls(ms) /\ OneSystemMessage(ms) /\ Quietly(ms)

ChatInvariant ==
    /\ ChatTypeOK
    /\ chat.kind = "mock" => pending = <<>>
    /\ chat.at # "idle" /\ chat.kind = "ai" => messages # <<>>
    /\ chat.at = "idle" => messages = <<>> /\ pending = <<>>
    /\ chat.at \in {"asks", "streams", "sends"} => Complete(messages)
    /\ chat.at = "tools" => \E a \in DOMAIN messages : AnsweredInPart(messages, a)

LEMMA NothingCalled ==
  ASSUME NEW ms \in Seq(Message), Len(ms) > 0, ms[1] = Says("system"),
         \A k \in DOMAIN ms : k # 1 => ms[k] \in {Says("user"), Says("assistant")}
  PROVE  Complete(ms)
<1>1. \A k \in DOMAIN ms : /\ ms[k].calls = <<>> /\ ms[k].role # "tool"
                           /\ ms[k].role = "system" <=> k = 1
  BY DEF Says
<1>2. DOMAIN <<>> = {}
  OBVIOUS
<1> QED BY <1>1, <1>2 DEF Complete, AllAnswered, AnswersOnlyCalls, OneSystemMessage, Quietly

LEMMA InitChat == ChatInit => ChatInvariant
<1> SUFFICES ASSUME ChatInit PROVE ChatInvariant
  OBVIOUS
<1>1. 0 \in 0..(MAX_TOOL_ROUNDS - 1) /\ 0 \in 0..MaxFragments
  BY ChatAssumption
<1>2. chat \in [at : {"idle", "asks", "streams", "sends", "tools", "apologises", "ended"},
               kind : {"ai", "mock"}, round : 0..(MAX_TOOL_ROUNDS - 1),
               said : 0..MaxFragments]
  BY <1>1 DEF ChatInit
<1>3. /\ pending \in Seq([call : ToolCalls, whole : BOOLEAN]) /\ Len(pending) <= MaxCalls
      /\ messages \in Seq(Message)
      /\ channel \in Seq(0..MaxFragments) /\ Len(channel) <= CAPACITY
  BY ChatAssumption DEF ChatInit
<1>4. reader \in [at : {"away", "reads", "done", "gone"}, got : Seq(0..MaxFragments)]
  BY DEF ChatInit
<1>5. chat.at = "idle" /\ messages = <<>> /\ pending = <<>>
  BY DEF ChatInit
<1> QED BY <1>2, <1>3, <1>4, <1>5 DEF ChatInvariant, ChatTypeOK

\* The end of a stream with calls: the first of them is to be answered.
LEMMA CallsAppended ==
  ASSUME NEW ms \in Seq(Message), ms # <<>>, Complete(ms), NEW m \in Message,
         m.role = "assistant", DOMAIN m.calls = 1..Len(pending),
         Len(pending) \in Nat \ {0}
  PROVE  \E a \in DOMAIN Append(ms, m) : AnsweredInPart(Append(ms, m), a)
<1> DEFINE new == Append(ms, m)
           a == Len(ms) + 1
<1>1. /\ Len(ms) \in Nat \ {0} /\ DOMAIN ms = 1..Len(ms)
      /\ Len(new) = a /\ DOMAIN new = 1..a /\ new[a] = m
      /\ \A k \in DOMAIN ms : new[k] = ms[k]
  OBVIOUS
<1> HIDE DEF new
<1>2. \A k \in 1..(a - 1) : \A i \in DOMAIN new[k].calls :
         k + i < a /\ new[k + i].role = "tool" /\ new[k + i].answers = i
  <2>1. \A k \in DOMAIN ms : \A i \in DOMAIN ms[k].calls :
           k + i \in DOMAIN ms /\ ms[k + i].role = "tool" /\ ms[k + i].answers = i
    BY DEF Complete, AllAnswered
  <2> QED BY <1>1, <2>1
<1>3. AnswersOnlyCalls(new)
  BY <1>1 DEF Complete, AnswersOnlyCalls
<1>4. OneSystemMessage(new)
  BY <1>1 DEF Complete, OneSystemMessage
<1>5. Quietly(new)
  BY <1>1 DEF Complete, Quietly
<1>6. \A k \in (a + 1)..Len(new) : new[k].role = "tool" /\ new[k].answers = k - a
  BY <1>1
<1>7. AnsweredInPart(new, a)
  BY <1>1, <1>2, <1>3, <1>4, <1>5, <1>6 DEF AnsweredInPart
<1> QED BY <1>1, <1>7 DEF new

\* The messages at the end that answer the calls of message a.
LEMMA AnsweredSoFar ==
  ASSUME messages \in Seq(Message), NEW a, AnsweredInPart(messages, a)
  PROVE  AnsweredNow = Len(messages) - a
<1> DEFINE Is(k) == /\ messages[k].role # "tool"
                    /\ \A i \in (k + 1)..Len(messages) : messages[i].role = "tool"
<1>1. a \in DOMAIN messages /\ Is(a)
  BY DEF AnsweredInPart
<1>2. \A k \in DOMAIN messages : Is(k) => k = a
  <2> SUFFICES ASSUME NEW k \in DOMAIN messages, Is(k) PROVE k = a
    OBVIOUS
  <2>1. DOMAIN messages = 1..Len(messages) /\ Len(messages) \in Nat
    OBVIOUS
  <2>2. ~ (k < a) /\ ~ (a < k)
    BY <1>1, <2>1
  <2> QED BY <1>1, <2>1, <2>2
<1>3. (CHOOSE k \in DOMAIN messages : Is(k)) = a
  BY <1>1, <1>2
<1> QED BY <1>3 DEF AnsweredNow

LEMMA CallsAreNumbered ==
  ASSUME NEW ms \in Seq(Message), NEW k \in DOMAIN ms
  PROVE  DOMAIN ms[k].calls \subseteq Nat \ {0}
<1>1. ms[k] \in Message
  OBVIOUS
<1>2. ms[k].calls \in Seq(ToolCalls)
  BY <1>1 DEF Message
<1> QED BY <1>2

\* A tool's message: the next call is answered, and it may be the last.
LEMMA ToolAdded ==
  ASSUME NEW n \in Nat, NEW p \in Nat, p = Len(pending),
         NEW ms, DOMAIN ms = 1..(n - 1), Len(ms) = n - 1,
         \A k \in DOMAIN ms : DOMAIN ms[k].calls \subseteq Nat \ {0},
         NEW new, DOMAIN new = 1..n, Len(new) = n, \A k \in DOMAIN ms : new[k] = ms[k],
         NEW a \in Nat, AnsweredInPart(ms, a),
         new[n].role = "tool", new[n].calls = <<>>, new[n].answers = n - a
  PROVE  /\ n - a < p => AnsweredInPart(new, a)
         /\ ~ (n - a < p) => Complete(new)
<1>1. /\ a \in 1..(n - 1) /\ ms[a].role = "assistant"
      /\ DOMAIN ms[a].calls = 1..p /\ n - 1 - a < p
      /\ \A k \in (a + 1)..(n - 1) : ms[k].role = "tool" /\ ms[k].answers = k - a
      /\ \A k \in 1..(a - 1) : \A i \in DOMAIN ms[k].calls :
           k + i < a /\ ms[k + i].role = "tool" /\ ms[k + i].answers = i
  BY DEF AnsweredInPart
<1>2. \A k \in (a + 1)..n : new[k].role = "tool" /\ new[k].answers = k - a
  <2> SUFFICES ASSUME NEW k \in (a + 1)..n PROVE new[k].role = "tool" /\ new[k].answers = k - a
    OBVIOUS
  <2>1. k = n \/ (k \in (a + 1)..(n - 1) /\ k \in DOMAIN ms)
    BY <1>1
  <2>2. CASE k = n
    BY <1>1, <2>2
  <2>3. CASE k \in (a + 1)..(n - 1) /\ k \in DOMAIN ms
    BY <1>1, <2>3
  <2> QED BY <2>1, <2>2, <2>3
<1>3. AnswersOnlyCalls(new)
  <2> SUFFICES ASSUME NEW k \in DOMAIN new, new[k].role = "tool"
               PROVE  \E asked \in DOMAIN new : /\ k = asked + new[k].answers
                                               /\ new[k].answers \in DOMAIN new[asked].calls
    BY DEF AnswersOnlyCalls
  <2>1. CASE k = n
    <3>1. new[k].answers = n - a
      BY <1>1, <2>1
    <3>2. n - a \in 1..p /\ k = a + (n - a) /\ a \in DOMAIN new /\ a \in DOMAIN ms
      BY <1>1, <2>1
    <3>3. DOMAIN new[a].calls = 1..p
      BY <1>1, <3>2
    <3> QED BY <3>1, <3>2, <3>3
  <2>2. CASE k # n
    <3>1. k \in DOMAIN ms /\ new[k] = ms[k]
      BY <1>1, <2>2
    <3>2. PICK asked \in DOMAIN ms : /\ k = asked + ms[k].answers
                                   /\ ms[k].answers \in DOMAIN ms[asked].calls
      BY <3>1 DEF AnsweredInPart, AnswersOnlyCalls
    <3>3. asked \in DOMAIN new /\ new[asked] = ms[asked]
      BY <1>1, <3>2
    <3> QED BY <3>1, <3>2, <3>3
  <2> QED BY <2>1, <2>2
<1>4. OneSystemMessage(new)
  BY <1>1 DEF AnsweredInPart, OneSystemMessage
<1>5. Quietly(new)
  BY <1>1 DEF AnsweredInPart, Quietly
<1>6. \A k \in 1..(a - 1) : \A i \in DOMAIN new[k].calls :
        k + i < a /\ new[k + i].role = "tool" /\ new[k + i].answers = i
  <2> SUFFICES ASSUME NEW k \in 1..(a - 1), NEW i \in DOMAIN new[k].calls
               PROVE  k + i < a /\ new[k + i].role = "tool" /\ new[k + i].answers = i
    OBVIOUS
  <2>1. new[k] = ms[k] /\ k \in DOMAIN ms
    BY <1>1
  <2>2. k + i < a /\ ms[k + i].role = "tool" /\ ms[k + i].answers = i
    BY <1>1, <2>1
  <2>3. i \in Nat \ {0}
    BY <2>1
  <2>4. new[k + i] = ms[k + i]
    BY <1>1, <2>1, <2>2, <2>3
  <2> QED BY <2>2, <2>4
<1>7. CASE n - a < p
  <2>1. a \in DOMAIN new /\ new[a] = ms[a]
    BY <1>1
  <2>2. AnsweredInPart(new, a)
    BY <1>1, <1>2, <1>3, <1>4, <1>5, <1>6, <1>7, <2>1 DEF AnsweredInPart
  <2> QED BY <1>7, <2>2
<1>8. CASE ~ (n - a < p)
  <2>1. n - a = p
    BY SMTT(60), <1>1, <1>8
  <2>2. AllAnswered(new)
    <3> SUFFICES ASSUME NEW k \in DOMAIN new, NEW i \in DOMAIN new[k].calls
                 PROVE  k + i \in DOMAIN new /\ new[k + i].role = "tool"
                        /\ new[k + i].answers = i
      BY DEF AllAnswered
    <3>1. CASE k < a
      <4>1. new[k] = ms[k] /\ k \in DOMAIN ms /\ k \in 1..(a - 1)
        BY <1>1, <3>1
      <4>2. i \in Nat \ {0}
        BY <4>1
      <4>3. k + i < a /\ new[k + i].role = "tool" /\ new[k + i].answers = i
        BY <1>6, <4>1
      <4>4. k + i \in DOMAIN new
        BY <1>1, <4>1, <4>2, <4>3
      <4> QED BY <4>3, <4>4
    <3>2. CASE k = a
      <4>1. i \in 1..p
        BY <1>1, <3>2
      <4>2. a + i \in (a + 1)..n
        BY <1>1, <2>1, <4>1
      <4> QED BY <1>1, <1>2, <3>2, <4>1, <4>2
    <3>3. CASE a < k
      <4>1. new[k].calls = <<>>
        BY <1>1, <1>2, <1>5, <3>3 DEF Quietly
      <4> QED BY <4>1
    <3> QED BY <1>1, <3>1, <3>2, <3>3
  <2>3. Complete(new)
    BY <1>3, <1>4, <1>5, <2>2 DEF Complete
  <2> QED BY <1>8, <2>3
<1> QED BY <1>7, <1>8

LEMMA ToolAppended ==
  ASSUME NEW ms \in Seq(Message), NEW a, AnsweredInPart(ms, a), NEW p \in Nat, p = Len(pending),
         NEW m \in Message, m.role = "tool", m.calls = <<>>, m.answers = Len(ms) - a + 1
  PROVE  /\ Len(ms) - a + 1 < p => AnsweredInPart(Append(ms, m), a)
         /\ ~ (Len(ms) - a + 1 < p) => Complete(Append(ms, m))
<1> DEFINE new == Append(ms, m)
           n == Len(ms) + 1
<1>1. /\ n \in Nat /\ Len(ms) = n - 1 /\ DOMAIN ms = 1..(n - 1)
      /\ Len(new) = n /\ DOMAIN new = 1..n /\ new[n] = m
      /\ \A k \in DOMAIN ms : new[k] = ms[k]
  OBVIOUS
<1>2. \A k \in DOMAIN ms : DOMAIN ms[k].calls \subseteq Nat \ {0}
  BY CallsAreNumbered
<1>3. a \in Nat
  BY <1>1 DEF AnsweredInPart
<1>4. m.answers = n - a /\ Len(ms) - a + 1 = n - a
  BY <1>3
<1> HIDE DEF new, n
<1>5. /\ n - a < p => AnsweredInPart(new, a)
      /\ ~ (n - a < p) => Complete(new)
  BY <1>1, <1>2, <1>3, <1>4, ToolAdded
<1> QED BY <1>4, <1>5 DEF new

-----------------------------------------------------------------------------
(* The steps of the chat.                                                  *)

\* The parts of the invariant that a step without a message keeps.
LEMMA ContextKept ==
  ASSUME ChatInvariant, messages' = messages, ChatTypeOK',
         chat'.kind = chat.kind, chat.at # "idle" /\ chat'.at # "idle",
         chat'.kind = "mock" => pending' = <<>>,
         \/ chat'.at \in {"apologises", "ended"}
         \/ chat'.at \in {"asks", "streams", "sends"} /\ chat.at \in {"asks", "streams", "sends"}
  PROVE  ChatInvariant'
BY DEF ChatInvariant

LEMMA BeginsInvariant == ASSUME ChatInvariant, ChatBegins PROVE ChatInvariant'
<1>1. /\ chat.at = "idle" /\ messages = <<>> /\ pending = <<>>
      /\ chat \in [at : {"idle", "asks", "streams", "sends", "tools", "apologises", "ended"},
               kind : {"ai", "mock"}, round : 0..(MAX_TOOL_ROUNDS - 1),
               said : 0..MaxFragments]
      /\ reader \in [at : {"away", "reads", "done", "gone"}, got : Seq(0..MaxFragments)]
  BY DEF ChatBegins, ChatInvariant, ChatTypeOK
<1>2. reader' \in [at : {"away", "reads", "done", "gone"}, got : Seq(0..MaxFragments)]
  BY <1>1 DEF ChatBegins
<1>3. ASSUME NEW history \in Histories, chat' = [chat EXCEPT !.at = "asks"],
             messages' = InitialMessages(history)
      PROVE  ChatInvariant'
  <2>1. /\ messages' \in Seq(Message) /\ Len(messages') > 0
        /\ messages'[1] = Says("system")
        /\ \A k \in DOMAIN messages' : k # 1 => messages'[k] \in {Says("user"), Says("assistant")}
    BY <1>3, InitialContext
  <2>2. Complete(messages')
    BY <2>1, NothingCalled
  <2>3. chat'.at = "asks" /\ chat' \in [at : {"idle", "asks", "streams", "sends", "tools", "apologises", "ended"},
               kind : {"ai", "mock"}, round : 0..(MAX_TOOL_ROUNDS - 1),
               said : 0..MaxFragments]
    BY <1>1, <1>3
  <2>4. messages' # <<>>
    BY <2>1
  <2>5. ChatTypeOK'
    BY <1>2, <2>1, <2>3 DEF ChatTypeOK, ChatInvariant, ChatBegins
  <2> QED BY <1>1, <2>2, <2>3, <2>4, <2>5 DEF ChatInvariant, ChatBegins
<1>4. ASSUME chat' = [chat EXCEPT !.at = "streams", !.kind = "mock"], messages' = messages
      PROVE  ChatInvariant'
  <2>1. /\ chat'.at = "streams" /\ chat'.kind = "mock"
        /\ chat' \in [at : {"idle", "asks", "streams", "sends", "tools", "apologises", "ended"},
               kind : {"ai", "mock"}, round : 0..(MAX_TOOL_ROUNDS - 1),
               said : 0..MaxFragments]
    BY <1>1, <1>4
  <2>2. ChatTypeOK'
    BY <1>2, <1>4, <2>1 DEF ChatTypeOK, ChatInvariant, ChatBegins
  <2>3. DOMAIN messages' = {}
    BY <1>1, <1>4
  <2>4. Complete(messages')
    BY <2>3 DEF Complete, AllAnswered, AnswersOnlyCalls, OneSystemMessage, Quietly
  <2> QED BY <1>1, <2>1, <2>2, <2>4 DEF ChatInvariant, ChatBegins
<1> QED BY <1>3, <1>4 DEF ChatBegins

\* What the types of the state are, by name.
Stages == {"idle", "asks", "streams", "sends", "tools", "apologises", "ended"}
Places == [at : Stages,
           kind : {"ai", "mock"}, round : 0..(MAX_TOOL_ROUNDS - 1), said : 0..MaxFragments]
Clients == [at : {"away", "reads", "done", "gone"}, got : Seq(0..MaxFragments)]
Pieces == [call : ToolCalls, whole : BOOLEAN]

LEMMA ChatTypeNamed ==
  ChatTypeOK <=> /\ chat \in Places
                 /\ pending \in Seq(Pieces) /\ Len(pending) <= MaxCalls
                 /\ messages \in Seq(Message)
                 /\ channel \in Seq(0..MaxFragments) /\ Len(channel) <= CAPACITY
                 /\ reader \in Clients
BY DEF ChatTypeOK, Places, Stages, Clients, Pieces

LEMMA ChatTypeNamedNext ==
  ASSUME chat' \in Places, pending' \in Seq(Pieces), Len(pending') <= MaxCalls,
         messages' \in Seq(Message), channel' \in Seq(0..MaxFragments),
         Len(channel') <= CAPACITY, reader' \in Clients
  PROVE  ChatTypeOK'
BY DEF ChatTypeOK, Places, Stages, Clients, Pieces

LEMMA PlaceMoves ==
  ASSUME NEW c \in Places, NEW at \in Stages
  PROVE  /\ [c EXCEPT !.at = at] \in Places
         /\ [c EXCEPT !.at = at].at = at
         /\ [c EXCEPT !.at = at].kind = c.kind
BY DEF Places

LEMMA PlaceParts ==
  ASSUME NEW c \in Places
  PROVE  /\ c.at \in Stages /\ c.kind \in {"ai", "mock"}
         /\ c.round \in 0..(MAX_TOOL_ROUNDS - 1) /\ c.said \in 0..MaxFragments
BY DEF Places

LEMMA StagesNamed ==
  /\ "idle" \in Stages /\ "asks" \in Stages /\ "streams" \in Stages /\ "sends" \in Stages
  /\ "tools" \in Stages /\ "apologises" \in Stages /\ "ended" \in Stages
BY DEF Stages

LEMMA QueueMoves ==
  ASSUME NEW S, NEW q \in Seq(S)
  PROVE  /\ Len(q) \in Nat
         /\ \A e \in S : Append(q, e) \in Seq(S) /\ Len(Append(q, e)) = Len(q) + 1
         /\ q # <<>> => Head(q) \in S /\ Tail(q) \in Seq(S) /\ Len(Tail(q)) = Len(q) - 1
BY HeadTailProperties, AppendProperties

LEMMA AnswersInvariant ==
  ASSUME ChatInvariant, ModelAnswers \/ StreamBreaks \/ TimesOut PROVE ChatInvariant'
<1>0. chat \in Places /\ pending \in Seq(Pieces) /\ Len(pending) <= MaxCalls
  BY ChatTypeNamed DEF ChatInvariant
<1>1. PICK at \in {"streams", "apologises"} :
        /\ chat' = [chat EXCEPT !.at = at]
        /\ at = "streams" => chat.at = "asks"
  BY DEF ModelAnswers, StreamBreaks, TimesOut
<1>2. /\ chat' \in Places /\ chat'.kind = chat.kind /\ chat'.at = at
  <2>1. at \in Stages
    BY DEF Stages
  <2> QED BY <1>0, <1>1, <2>1, PlaceMoves, StagesNamed
<1>3. pending' = <<>> \/ pending' = pending
  BY DEF ModelAnswers, StreamBreaks, TimesOut
<1>4. UNCHANGED <<messages, channel, reader>> /\ chat.at # "idle"
  BY DEF ModelAnswers, StreamBreaks, TimesOut
<1>5. pending' \in Seq(Pieces) /\ Len(pending') <= MaxCalls
  <2>1. <<>> \in Seq(Pieces) /\ Len(<<>>) = 0
    OBVIOUS
  <2>2. CASE pending' = <<>>
    BY <2>1, <2>2, ChatAssumption
  <2> QED BY <1>0, <1>3, <2>2
<1>6. ChatTypeOK'
  BY <1>2, <1>4, <1>5, ChatTypeNamed, ChatTypeNamedNext DEF ChatInvariant
<1>7. chat'.kind = "mock" => pending' = <<>>
  BY <1>2, <1>3 DEF ChatInvariant
<1> QED BY <1>1, <1>2, <1>4, <1>6, <1>7, ContextKept

LEMMA TextInvariant ==
  ASSUME ChatInvariant, TextArrives \/ Sends \/ Apologises PROVE ChatInvariant'
<1>0. chat \in Places /\ channel \in Seq(0..MaxFragments) /\ Len(channel) <= CAPACITY
  BY ChatTypeNamed DEF ChatInvariant
<1>1. /\ chat' \in Places /\ chat'.kind = chat.kind /\ chat.at # "idle"
      /\ \/ chat'.at = "ended"
         \/ chat'.at \in {"streams", "sends"} /\ chat.at \in {"streams", "sends"}
  <2>1. CASE TextArrives
    <3>1. chat.said \in 0..MaxFragments /\ chat.said < MaxFragments
      BY <1>0, <2>1, PlaceParts DEF TextArrives
    <3>2. chat.said + 1 \in 0..MaxFragments
      BY <3>1, ChatAssumption
    <3>3. chat' = [chat EXCEPT !.at = "sends", !.said = chat.said + 1]
      BY <2>1 DEF TextArrives
    <3>4. chat' \in Places /\ chat'.kind = chat.kind /\ chat'.at = "sends"
      BY <1>0, <3>2, <3>3 DEF Places, Stages
    <3> QED BY <2>1, <3>4 DEF TextArrives
  <2>2. CASE Sends
    <3>1. PICK at \in {"ended", "streams"} : chat' = [chat EXCEPT !.at = at]
      BY <2>2 DEF Sends
    <3>2. at \in Stages
      BY DEF Stages
    <3>3. chat' \in Places /\ chat'.kind = chat.kind /\ chat'.at = at
      BY <1>0, <3>1, <3>2, PlaceMoves, StagesNamed
    <3> QED BY <2>2, <3>3 DEF Sends
  <2>3. CASE Apologises
    BY <1>0, <2>3, PlaceMoves, StagesNamed DEF Apologises
  <2> QED BY <2>1, <2>2, <2>3
<1>2. channel' \in Seq(0..MaxFragments) /\ Len(channel') <= CAPACITY
  <2>1. chat.said \in 0..MaxFragments /\ Sorry \in 0..MaxFragments
    <3>1. chat.said \in 0..MaxFragments
      BY <1>0 DEF Places, Stages
    <3> QED BY <3>1, ChatAssumption DEF Sorry
  <2>2. channel' = channel \/ (Len(channel) < CAPACITY
          /\ \E n \in 0..MaxFragments : channel' = Append(channel, n))
    BY <2>1 DEF TextArrives, Sends, Apologises
  <2>3. Len(channel) \in Nat /\ \A n \in 0..MaxFragments :
          Append(channel, n) \in Seq(0..MaxFragments) /\ Len(Append(channel, n)) = Len(channel) + 1
    BY <1>0, QueueMoves
  <2>4. CASE channel' = channel
    BY <1>0, <2>4
  <2>5. CASE Len(channel) < CAPACITY /\ \E n \in 0..MaxFragments : channel' = Append(channel, n)
    <3>1. PICK n \in 0..MaxFragments : channel' = Append(channel, n)
      BY <2>5
    <3>2. Len(channel') = Len(channel) + 1 /\ channel' \in Seq(0..MaxFragments)
      BY <2>3, <3>1
    <3> QED BY <2>3, <2>5, <3>2, ChatAssumption
  <2> QED BY <2>2, <2>4, <2>5
<1>3. messages' = messages /\ pending' = pending /\ reader' = reader
  BY DEF TextArrives, Sends, Apologises
<1>4. ChatTypeOK'
  BY <1>1, <1>2, <1>3, ChatTypeNamed, ChatTypeNamedNext DEF ChatInvariant
<1>5. chat'.kind = "mock" => pending' = <<>>
  BY <1>1, <1>3 DEF ChatInvariant
<1>6. chat'.at # "idle"
  BY <1>1
<1> QED BY <1>1, <1>3, <1>4, <1>5, <1>6, ContextKept

LEMMA CallInvariant == ASSUME ChatInvariant, CallArrives PROVE ChatInvariant'
<1>1. pending \in Seq(Pieces) /\ Len(pending) <= MaxCalls
  BY ChatTypeNamed DEF ChatInvariant
<1>2. pending' \in Seq(Pieces) /\ Len(pending') <= MaxCalls
  <2>1. ASSUME Len(pending) < MaxCalls, NEW call \in ToolCalls,
               pending' = Append(pending, [call |-> call, whole |-> FALSE])
        PROVE  pending' \in Seq(Pieces) /\ Len(pending') <= MaxCalls
    <3>1. [call |-> call, whole |-> FALSE] \in Pieces
      BY DEF Pieces
    <3>2. pending' \in Seq(Pieces) /\ Len(pending') = Len(pending) + 1 /\ Len(pending) \in Nat
      BY <1>1, <2>1, <3>1, QueueMoves
    <3> QED BY <2>1, <3>2, ChatAssumption
  <2>2. ASSUME NEW place \in DOMAIN pending, pending' = [pending EXCEPT ![place].whole = TRUE]
        PROVE  pending' \in Seq(Pieces) /\ Len(pending') <= MaxCalls
    <3>1. pending[place] \in Pieces
      BY <1>1
    <3>2. [pending[place] EXCEPT !.whole = TRUE] \in Pieces
      BY <3>1 DEF Pieces
    <3>3. pending' = [pending EXCEPT ![place] = [pending[place] EXCEPT !.whole = TRUE]]
      BY <2>2
    <3> DEFINE piece == [pending[place] EXCEPT !.whole = TRUE]
    <3> HIDE DEF piece
    <3>4. pending' = [pending EXCEPT ![place] = piece] /\ piece \in Pieces
      BY <3>2, <3>3 DEF piece
    <3>5. pending' \in Seq(Pieces) /\ Len(pending') = Len(pending)
      BY <1>1, <3>4, ExceptSeq
    <3> QED BY <1>1, <3>5
  <2> QED BY <2>1, <2>2 DEF CallArrives
<1>3. ChatTypeOK'
  BY <1>2, ChatTypeNamed, ChatTypeNamedNext DEF ChatInvariant, CallArrives
<1>4. /\ messages' = messages /\ chat' = chat /\ chat.at = "streams" /\ chat.kind = "ai"
  BY DEF CallArrives
<1> QED BY <1>3, <1>4, ContextKept

LEMMA ReaderInvariant == ASSUME ChatInvariant, Reader PROVE ChatInvariant'
<1>1. UNCHANGED <<chat, pending, messages>>
  BY DEF Reader, ReaderTakes, ReaderIsDone, ReaderLeaves
<1>2. channel \in Seq(0..MaxFragments) /\ Len(channel) <= CAPACITY /\ reader \in Clients
  BY ChatTypeNamed DEF ChatInvariant
<1>3. reader.got \in Seq(0..MaxFragments)
  BY <1>2 DEF Clients
<1>4. channel' \in Seq(0..MaxFragments) /\ Len(channel') <= CAPACITY
  <2>1. channel # <<>> => Tail(channel) \in Seq(0..MaxFragments)
                          /\ Len(Tail(channel)) = Len(channel) - 1 /\ Len(channel) \in Nat
    BY <1>2, QueueMoves
  <2>2. <<>> \in Seq(0..MaxFragments) /\ Len(<<>>) = 0
    OBVIOUS
  <2>3. \/ channel' = channel
        \/ channel # <<>> /\ channel' = Tail(channel)
        \/ channel' = <<>>
    BY DEF Reader, ReaderTakes, ReaderIsDone, ReaderLeaves
  <2>4. CASE channel' = channel
    BY <1>2, <2>4
  <2>5. CASE channel # <<>> /\ channel' = Tail(channel)
    BY <1>2, <2>1, <2>5, ChatAssumption
  <2>6. CASE channel' = <<>>
    BY <2>2, <2>6, ChatAssumption
  <2> QED BY <2>3, <2>4, <2>5, <2>6
<1>5. reader' \in Clients
  <2>1. channel # <<>> => Append(reader.got, Head(channel)) \in Seq(0..MaxFragments)
    BY <1>2, <1>3, QueueMoves
  <2>2. CASE ReaderTakes
    <3>1. reader' = [reader EXCEPT !.got = Append(reader.got, Head(channel))] /\ channel # <<>>
      BY <2>2 DEF ReaderTakes
    <3> QED BY <1>2, <2>1, <3>1 DEF Clients
  <2>3. CASE ReaderIsDone
    BY <1>2, <2>3 DEF ReaderIsDone, Clients
  <2>4. CASE ReaderLeaves
    BY <1>2, <2>4 DEF ReaderLeaves, Clients
  <2> QED BY <2>2, <2>3, <2>4 DEF Reader
<1>6. ChatTypeOK'
  BY <1>1, <1>4, <1>5, ChatTypeNamed, ChatTypeNamedNext DEF ChatInvariant
<1>7. \A a : AnsweredInPart(messages, a)' = AnsweredInPart(messages, a)
  BY <1>1 DEF AnsweredInPart
<1> QED BY <1>1, <1>6, <1>7 DEF ChatInvariant

\* The end of a stream: that of the chat, or the calls of the round in order.
LEMMA StreamEndsInvariant == ASSUME ChatInvariant, StreamEnds PROVE ChatInvariant'
<1>1. /\ chat \in Places /\ pending \in Seq(Pieces) /\ Len(pending) <= MaxCalls
      /\ messages \in Seq(Message) /\ Complete(messages) /\ chat.at = "streams"
      /\ UNCHANGED <<pending, channel, reader>>
  BY ChatTypeNamed DEF ChatInvariant, StreamEnds
<1>2. ASSUME pending = <<>>, chat' = [chat EXCEPT !.at = "ended"], messages' = messages
      PROVE  ChatInvariant'
  <2>1. chat' \in Places /\ chat'.at = "ended" /\ chat'.kind = chat.kind
    BY <1>1, <1>2, PlaceMoves, StagesNamed
  <2>2. ChatTypeOK'
    BY <1>1, <1>2, <2>1, ChatTypeNamed, ChatTypeNamedNext DEF ChatInvariant
  <2> QED BY <1>1, <1>2, <2>1, <2>2, ContextKept
<1> DEFINE called == [place \in DOMAIN pending |-> pending[place].call]
           m == [Says("assistant") EXCEPT !.calls = called]
<1>3. ASSUME pending # <<>>, chat' = [chat EXCEPT !.at = "tools"],
             messages' = Append(messages, m)
      PROVE  ChatInvariant'
  <2>1. Len(pending) \in Nat \ {0} /\ DOMAIN pending = 1..Len(pending)
    BY <1>1, <1>3
  <2>2. called \in Seq(ToolCalls) /\ DOMAIN called = 1..Len(pending)
    <3>1. \A place \in DOMAIN pending : pending[place] \in Pieces
      BY <1>1
    <3>2. \A place \in DOMAIN pending : pending[place].call \in ToolCalls
      BY <3>1 DEF Pieces
    <3> QED BY <2>1, <3>2
  <2> HIDE DEF called
  <2>3. /\ m \in Message /\ m.role = "assistant" /\ m.calls = called
    BY <2>2, ChatAssumption DEF Says, Message
  <2>4. chat.kind = "ai" /\ messages # <<>>
    BY <1>1, <1>3, PlaceParts DEF ChatInvariant
  <2> HIDE DEF m
  <2>5. PICK a \in DOMAIN Append(messages, m) : AnsweredInPart(Append(messages, m), a)
    BY <1>1, <2>1, <2>2, <2>3, <2>4, CallsAppended
  <2>6. AnsweredInPart(messages, a)'
    BY <1>1, <1>3, <2>5 DEF AnsweredInPart
  <2>7. chat' \in Places /\ chat'.at = "tools" /\ chat'.kind = chat.kind
    BY <1>1, <1>3, PlaceMoves, StagesNamed
  <2>8. messages' \in Seq(Message) /\ messages' # <<>>
    BY <1>1, <1>3, <2>3, AppendProperties
  <2>9. ChatTypeOK'
    BY <1>1, <2>7, <2>8, ChatTypeNamed, ChatTypeNamedNext DEF ChatInvariant
  <2>10. \E k \in DOMAIN messages' : AnsweredInPart(messages, k)'
    BY <1>3, <2>5, <2>6
  <2> QED BY <2>4, <2>7, <2>8, <2>9, <2>10 DEF ChatInvariant
<1> QED BY <1>2, <1>3 DEF StreamEnds

\* A tool is executed: the calls are answered in part, or all of them are and
\* the next request begins, or none is left.
LEMMA ExecutesInvariant == ASSUME ChatInvariant, ExecutesTool PROVE ChatInvariant'
<1>1. /\ chat \in Places /\ pending \in Seq(Pieces) /\ Len(pending) <= MaxCalls
      /\ messages \in Seq(Message) /\ chat.at = "tools"
      /\ UNCHANGED <<pending, channel, reader>>
  BY ChatTypeNamed DEF ChatInvariant, ExecutesTool
<1>2. PICK a \in DOMAIN messages : AnsweredInPart(messages, a)
  BY <1>1 DEF ChatInvariant
<1> DEFINE p == Len(pending)
           place == Len(messages) - a + 1
<1>3. /\ p \in Nat /\ Len(messages) \in Nat /\ a \in 1..Len(messages)
      /\ place \in 1..p /\ place \in 0..MaxCalls
  BY <1>1, <1>2, ChatAssumption DEF AnsweredInPart
<1>4. AnsweredNow + 1 = place
  BY <1>1, <1>2, AnsweredSoFar
<1>5. PICK result \in {"data", "error"} : messages' = Answer(place, result)
  <2>1. \A call, whole : ToolResults(call, whole) \subseteq {"data", "error"}
    BY DEF ToolResults
  <2> QED BY <1>4, <2>1 DEF ExecutesTool
<1> DEFINE m == [Says("tool") EXCEPT !.answers = place, !.result = result]
<1>6. m \in Message /\ m.role = "tool" /\ m.calls = <<>> /\ m.answers = place
  <2>1. <<>> \in Seq(ToolCalls)
    OBVIOUS
  <2> HIDE DEF place
  <2> QED BY <1>3, <2>1 DEF Says, Message
<1>7. messages' = Append(messages, m)
  BY <1>5 DEF Answer
<1>8. chat' = IF place < p THEN chat
              ELSE IF chat.round + 1 < MAX_TOOL_ROUNDS
                THEN [chat EXCEPT !.at = "asks", !.round = chat.round + 1]
                ELSE [chat EXCEPT !.at = "ended"]
  BY <1>4 DEF ExecutesTool
<1> HIDE DEF m
<1>9. /\ place < p => AnsweredInPart(messages', a)
      /\ ~ (place < p) => Complete(messages')
  BY <1>1, <1>2, <1>3, <1>6, <1>7, ToolAppended
<1>10. messages' \in Seq(Message) /\ messages' # <<>> /\ a \in DOMAIN messages'
  BY <1>1, <1>2, <1>6, <1>7, AppendProperties
<1> HIDE DEF place, p
<1>11. /\ chat' \in Places /\ chat'.kind = chat.kind
       /\ place < p => chat'.at = "tools"
       /\ ~ (place < p) => chat'.at \in {"asks", "ended"}
  <2>1. CASE place < p
    BY <1>1, <1>8, <2>1
  <2>2. CASE ~ (place < p) /\ chat.round + 1 < MAX_TOOL_ROUNDS
    <3>1. chat.round \in 0..(MAX_TOOL_ROUNDS - 1)
      BY <1>1, PlaceParts
    <3>2. chat.round + 1 \in 0..(MAX_TOOL_ROUNDS - 1)
      BY <2>2, <3>1, ChatAssumption
    <3>3. chat' = [chat EXCEPT !.at = "asks", !.round = chat.round + 1]
      BY <1>8, <2>2
    <3> QED BY <1>1, <2>2, <3>2, <3>3 DEF Places, Stages
  <2>3. CASE ~ (place < p) /\ ~ (chat.round + 1 < MAX_TOOL_ROUNDS)
    BY <1>1, <1>8, <2>3, PlaceMoves, StagesNamed
  <2> QED BY <2>1, <2>2, <2>3
<1>12. ChatTypeOK'
  BY <1>1, <1>10, <1>11, ChatTypeNamed, ChatTypeNamedNext DEF ChatInvariant
<1>13. place < p => AnsweredInPart(messages, a)'
  BY <1>1, <1>9 DEF AnsweredInPart
<1>14. chat.kind = "mock" => pending' = <<>>
  BY <1>1 DEF ChatInvariant
<1> QED BY <1>9, <1>10, <1>11, <1>12, <1>13, <1>14 DEF ChatInvariant

LEMMA NextChat == ChatInvariant /\ [ChatNext]_chatVars => ChatInvariant'
<1> SUFFICES ASSUME ChatInvariant, [ChatNext]_chatVars PROVE ChatInvariant'
  OBVIOUS
<1>1. CASE UNCHANGED chatVars
  BY <1>1 DEF chatVars, ChatInvariant, ChatTypeOK, AnsweredInPart
<1> QED BY <1>1, BeginsInvariant, AnswersInvariant, TextInvariant, CallInvariant,
           StreamEndsInvariant, ExecutesInvariant, ReaderInvariant DEF ChatNext

\* Whatever clients send and the model calls for, the chat's state is of its
\* types and the contexts of its requests are complete (ai/chat.rs, tool_loop).
THEOREM AlwaysChatInvariant == ChatSpec => []ChatInvariant
<1>1. ChatInit => ChatInvariant
  BY InitChat
<1> QED BY <1>1, NextChat, PTL DEF ChatSpec

\* Every request to the model answers each call of the rounds before, once and
\* in order, answers nothing else and holds one system message, for every bound
\* on rounds, calls and text (ai/chat.rs, tool_loop and build_initial_messages).
THEOREM CallsAnswered == ChatSpec => []CallsAreAnswered
<1>1. ChatInvariant => CallsAreAnswered
  BY DEF ChatInvariant, CallsAreAnswered, Complete
<1> QED BY <1>1, AlwaysChatInvariant, PTL

-----------------------------------------------------------------------------
(* A review of a transaction.                                              *)

\* The request, what the networks answer, and the answers so far, each the one
\* of its handler.
ReviewInvariant ==
    review = NoAnswer \/
    /\ review = [at |-> "review", request |-> review.request, net |-> review.net,
                 decoded |-> review.decoded, simulated |-> review.simulated,
                 assessed |-> review.assessed, explained |-> review.explained,
                 handed |-> review.handed]
    /\ review.request \in Requests /\ review.net \in Outcomes
    /\ Plausible(review.request, review.net)
    /\ review.decoded = Decode(review.request)
    /\ review.simulated \in {NoAnswer, [at |-> "timeout"], Simulate(review.request, review.net)}
    /\ review.assessed \in {NoAnswer, Assess(review.request)}
    /\ \/ review.explained = NoAnswer
       \/ /\ review.assessed # NoAnswer
          /\ review.handed \in {NoAnswer, review.assessed}
          /\ \E openai : review.explained = Explain(review.decoded, review.handed, openai)

LEMMA InitReview == ReviewInit => ReviewInvariant
BY DEF ReviewInit, ReviewInvariant

LEMMA NextReview == ReviewInvariant /\ [ReviewNext]_reviewVars => ReviewInvariant'
<1> SUFFICES ASSUME ReviewInvariant, [ReviewNext]_reviewVars PROVE ReviewInvariant'
  OBVIOUS
<1>1. NoAnswer.at # "review"
  BY DEF NoAnswer
<1>2. CASE Decodes
  <2>1. PICK r \in Requests, got \in Outcomes :
         /\ Plausible(r, got)
         /\ review' = [at |-> "review", request |-> r, net |-> got, decoded |-> Decode(r),
                       simulated |-> NoAnswer, assessed |-> NoAnswer, explained |-> NoAnswer,
                       handed |-> NoAnswer]
    BY <1>2 DEF Decodes
  <2> QED BY <2>1 DEF ReviewInvariant
<1>3. CASE Simulates
  <2>1. review.at = "review"
    BY <1>3 DEF Simulates
  <2>2. PICK answer \in {Simulate(review.request, review.net), [at |-> "timeout"]} :
          review' = [review EXCEPT !.simulated = answer]
    BY <1>3 DEF Simulates
  <2>3. review' = [at |-> "review", request |-> review.request, net |-> review.net,
                   decoded |-> review.decoded, simulated |-> answer,
                   assessed |-> review.assessed, explained |-> review.explained,
                   handed |-> review.handed]
    BY <1>1, <2>1, <2>2 DEF ReviewInvariant
  <2>4. /\ review'.decoded = review.decoded /\ review'.assessed = review.assessed
        /\ review'.explained = review.explained /\ review'.handed = review.handed
        /\ review'.request = review.request /\ review'.net = review.net
        /\ review'.simulated = answer
    BY <2>3
  <2>5. answer \in {NoAnswer, [at |-> "timeout"], Simulate(review'.request, review'.net)}
    BY <2>4
  <2> QED BY <1>1, <2>1, <2>3, <2>4, <2>5 DEF ReviewInvariant
<1>4. CASE Assesses
  <2>1. /\ review.at = "review" /\ review.assessed = NoAnswer
        /\ review.explained = NoAnswer
    BY <1>1, <1>4 DEF Assesses, ReviewInvariant
  <2>2. review' = [at |-> "review", request |-> review.request, net |-> review.net,
                   decoded |-> review.decoded, simulated |-> review.simulated,
                   assessed |-> Assess(review.request), explained |-> review.explained,
                   handed |-> review.handed]
    BY <1>1, <1>4, <2>1 DEF ReviewInvariant, Assesses
  <2> QED BY <1>1, <2>1, <2>2 DEF ReviewInvariant
<1>5. CASE Explains
  <2>1. review.at = "review" /\ review.assessed # NoAnswer
    BY <1>1, <1>5 DEF Explains, ReviewInvariant
  <2>2. PICK risk \in {review.assessed, NoAnswer},
             openai \in {"text", "empty", "error", "timeout", "no_key"} :
          review' = [review EXCEPT !.handed = risk,
                                   !.explained = Explain(review.decoded, risk, openai)]
    BY <1>5 DEF Explains
  <2>3. review' = [at |-> "review", request |-> review.request, net |-> review.net,
                   decoded |-> review.decoded, simulated |-> review.simulated,
                   assessed |-> review.assessed,
                   explained |-> Explain(review.decoded, risk, openai), handed |-> risk]
    BY <1>1, <2>1, <2>2 DEF ReviewInvariant
  <2>4. /\ review'.decoded = review.decoded /\ review'.assessed = review.assessed
        /\ review'.explained = Explain(review'.decoded, review'.handed, openai)
        /\ review'.handed \in {NoAnswer, review'.assessed}
        /\ review'.request = review.request /\ review'.net = review.net
        /\ review'.simulated = review.simulated
    BY <2>3
  <2> QED BY <1>1, <2>1, <2>3, <2>4 DEF ReviewInvariant
<1>6. CASE UNCHANGED reviewVars
  BY <1>6 DEF reviewVars, ReviewInvariant
<1> QED BY <1>2, <1>3, <1>4, <1>5, <1>6 DEF ReviewNext

\* Whatever is under review, the answers beside it are those of the handlers to
\* that request and to no other (routes of the server).
THEOREM AlwaysReviewed == ReviewSpec => []ReviewInvariant
BY InitReview, NextReview, PTL DEF ReviewSpec

\* The calldata of a dangerous allowance is that of an approval to every reader
\* that takes "0x" off.
LEMMA AllowanceIsRead ==
  ASSUME NEW r \in Requests, Unlimited(r)
  PROVE  /\ IsApprove(r.data) /\ IsUnlimited(r.data)
         /\ EvmAction(Normalized(r.data)) = "approve" /\ IsUnlimited(Normalized(r.data))
<1>0. r.data \in Calldata
  BY ReviewForms
<1>1. r.data.word # Bad
  BY ReviewForms DEF Bad, Unlimited
<1>2. IsApprove(r.data) /\ IsUnlimited(r.data)
  BY <1>1 DEF IsApprove, IsUnlimited, Unlimited
<1> DEFINE d == Normalized(r.data)
<1>3. d.kind = "approve" /\ d.full /\ d.word = r.data.word /\ d.prefix = "0x"
  BY <1>0 DEF Normalized, Calldata, Unlimited
<1> HIDE DEF d
<1>4. IsApprove(d) /\ IsUnlimited(d)
  BY <1>1, <1>3 DEF IsApprove, IsUnlimited, Unlimited
<1>5. EvmAction(d) = "approve"
  BY <1>3, <1>4 DEF EvmAction
<1> QED BY <1>2, <1>4, <1>5 DEF d

\* Which simulation a chain has.
LEMMA ChainsApart ==
  ASSUME NEW r \in Requests, NEW got
  PROVE  /\ ~ IsEvm("solana") /\ ~ IsEvm("bitcoin") /\ ~ IsEvm("tron")
         /\ r.chain \in {"solana", "bitcoin", "tron"} \/ IsEvm(r.chain)
         /\ IsEvm(r.chain)        => Simulate(r, got) = SimulateEvm(r, got)
         /\ r.chain = "solana"    => Simulate(r, got) = SimulateSolana(r, got)
         /\ r.chain = "bitcoin"   => Simulate(r, got) = SimulateBitcoin(r, got)
         /\ r.chain = "tron"      => Simulate(r, got) = [at |-> "panic"]
<1>1. ToSet(EVM_CHAINS) = {"ethereum", "polygon", "bsc", "arbitrum", "base"}
  BY DEF ToSet, EVM_CHAINS
<1>2. ~ IsEvm("solana") /\ ~ IsEvm("bitcoin") /\ ~ IsEvm("tron")
  BY <1>1 DEF IsEvm
<1>3. r.chain \in {"solana", "bitcoin", "tron"} \/ IsEvm(r.chain)
  BY ReviewForms DEF ChainIds, IsEvm
<1>4. CASE IsEvm(r.chain)
  <2>1. r.chain \notin {"solana", "bitcoin", "tron"}
    BY <1>2, <1>4
  <2> QED BY <1>2, <1>3, <1>4, <2>1 DEF Simulate
<1>5. CASE r.chain \in {"solana", "bitcoin", "tron"}
  <2>1. ~ IsEvm(r.chain)
    BY <1>2, <1>5
  <2> QED BY <1>2, <1>3, <1>5, <2>1 DEF Simulate
<1> QED BY <1>3, <1>4, <1>5

\* What a client gives is a number or nothing.
LEMMA RequestsGive ==
  ASSUME NEW r \in Requests
  PROVE  /\ r.value = Bad \/ r.value = NotGiven \/ r.value \in Nat
         /\ Given(r.value) <=> r.value \in Nat
         /\ Given(r.gas) <=> r.gas \in Nat
         /\ Given(r.price) <=> r.price \in Nat
         /\ Bad # NotGiven /\ ~ Given(Bad) /\ ~ Given(NotGiven)
<1>1. {r.value, r.gas, r.price} \subseteq Nat \cup {NotGiven, Bad}
  BY ReviewForms
<1> QED BY <1>1 DEF Given, NotGiven, Bad

\* The arms of simulate_evm.
LEMMA EvmArms ==
  ASSUME NEW r \in Requests, NEW got
  PROVE  /\ r.value = Bad => SimulateEvm(r, got) = BadRequest
         /\ r.value # Bad /\ ~r.to =>
              SimulateEvm(r, got) = [Response EXCEPT !.warnings = {"deployment"}]
         /\ r.value # Bad /\ r.to /\ got.alchemy # "down" =>
              SimulateEvm(r, got) = AlchemyResponse(got)
         /\ r.value # Bad /\ r.to /\ got.alchemy = "down" =>
              \/ SimulateEvm(r, got) =
                   [Reverts EXCEPT !.gas = GasLimit(r, got, TRUE), !.warnings = PriceWarnings(r, got)]
              \/ /\ r.data.kind # "empty" /\ got.call = "down"
                 /\ SimulateEvm(r, got) = EvmResponse(r, got, {"call_unchecked"})
              \/ /\ r.data.kind = "empty" \/ got.call \notin {"down", "reverts"}
                 /\ SimulateEvm(r, got) = EvmResponse(r, got, {})
BY DEF SimulateEvm

\* The change that simulate_bitcoin tells of.
BitcoinLoss(r, got) ==
    LET rate == IF got.price = Down THEN 2 ELSE got.price
    IN  NativeLoss(got, Saturated(r.value + rate * BTC_TYPICAL_VSIZE))

\* simulate_bitcoin without a value, and with one.
LEMMA BitcoinUnvalued ==
  ASSUME NEW r \in Requests, NEW got, ~ Given(r.value)
  PROVE  LET res == SimulateBitcoin(r, got)
         IN  \/ res.at # "simulated"
             \/ res.warnings = {"nothing_to_simulate"} /\ res.changes = <<>>
<1>1. CASE r.value = Bad
  <2>1. SimulateBitcoin(r, got) = BadRequest
    BY <1>1, RequestsGive DEF SimulateBitcoin
  <2> QED BY <2>1 DEF BadRequest
<1>2. CASE r.value = NotGiven
  <2>1. SimulateBitcoin(r, got) = [Response EXCEPT !.warnings = {"nothing_to_simulate"}]
    BY <1>2, RequestsGive DEF SimulateBitcoin
  <2> QED BY <2>1 DEF Response
<1> QED BY <1>1, <1>2, RequestsGive

LEMMA BitcoinValued ==
  ASSUME NEW r \in Requests, NEW got, Given(r.value)
  PROVE  LET res == SimulateBitcoin(r, got)
         IN  /\ res.changes = BitcoinLoss(r, got)
             /\ res.warnings = Shortage(BitcoinLoss(r, got)) \cup NoBalance(got)
                                   \cup IF got.price = Down THEN {"no_fee"} ELSE {}
             /\ res.simulated <=> got.native # Down
<1>1. SimulateBitcoin(r, got) =
                [Response EXCEPT !.simulated = got.native # Down,
                                 !.changes = BitcoinLoss(r, got),
                                 !.warnings = Shortage(BitcoinLoss(r, got)) \cup NoBalance(got)
                                   \cup IF got.price = Down THEN {"no_fee"} ELSE {}]
  BY RequestsGive DEF SimulateBitcoin, BitcoinLoss
<1> QED BY <1>1 DEF Response

\* What the simulation of an unlimited allowance says: so, or that it reverts.
Tells(res) ==
    \/ {"approve", "unlimited"} \subseteq res.warnings
    \/ res.will_revert /\ ~res.success /\ res.changes = <<>>

LEMMA RevertTells ==
  Tells(Reverts) /\ \A gas, warnings : Tells([Reverts EXCEPT !.gas = gas, !.warnings = warnings])
BY DEF Tells, Reverts, Response

LEMMA ResponseTells ==
  ASSUME NEW r \in Requests, NEW got, Unlimited(r), NEW seen
  PROVE  Tells(EvmResponse(r, got, seen))
<1>1. EvmAction(Normalized(r.data)) = "approve" /\ IsUnlimited(Normalized(r.data))
  BY AllowanceIsRead
<1>2. {"approve", "unlimited"} \subseteq EvmResponse(r, got, seen).warnings
  BY <1>1 DEF EvmResponse, Response
<1> QED BY <1>2 DEF Tells

\* The simulation of a call on an EVM network, unless Alchemy tells the changes.
LEMMA UnlimitedIsTold ==
  ASSUME NEW r \in Requests, NEW got \in Outcomes, Unlimited(r), IsEvm(r.chain), r.to,
         got.alchemy # "ok", Simulate(r, got).at = "simulated"
  PROVE  Tells(Simulate(r, got))
<1>1. Simulate(r, got) = SimulateEvm(r, got)
  BY ChainsApart
<1>2. r.value # Bad
  <2>1. BadRequest.at # "simulated"
    BY DEF BadRequest
  <2> QED BY <1>1, <2>1, EvmArms
<1>3. CASE got.alchemy # "down"
  <2>1. got.alchemy = "reverts"
    BY <1>3, ReviewForms
  <2>2. AlchemyResponse(got) = Reverts
    BY <2>1 DEF AlchemyResponse
  <2> QED BY <1>1, <1>2, <1>3, <2>2, EvmArms, RevertTells
<1>4. CASE got.alchemy = "down"
  <2>1. CASE SimulateEvm(r, got) =
               [Reverts EXCEPT !.gas = GasLimit(r, got, TRUE), !.warnings = PriceWarnings(r, got)]
    <3>1. Tells([Reverts EXCEPT !.gas = GasLimit(r, got, TRUE), !.warnings = PriceWarnings(r, got)])
      BY RevertTells
    <3> QED BY <1>1, <2>1, <3>1
  <2>2. CASE \E seen : SimulateEvm(r, got) = EvmResponse(r, got, seen)
    <3>1. PICK seen : SimulateEvm(r, got) = EvmResponse(r, got, seen)
      BY <2>2
    <3>2. Tells(EvmResponse(r, got, seen))
      BY ResponseTells
    <3> QED BY <1>1, <3>1, <3>2
  <2> QED BY <1>2, <1>4, <2>1, <2>2, EvmArms
<1> QED BY <1>3, <1>4

\* A template names every reason of the risk it is handed, and an unlimited
\* allowance with or without it.
LEMMA TemplateTells ==
  ASSUME NEW r \in Requests, NEW risk \in {NoAnswer, Assess(r)}, NEW openai,
         Explain(Decode(r), risk, openai).source # "ai"
  PROVE  LET told == Explain(Decode(r), risk, openai)
         IN  /\ Assess(r).level = "high" /\ risk # NoAnswer => told.warns = Reasons(r)
             /\ Unlimited(r) => told.kind = "unlimited_approve"
<1>1. Explain(Decode(r), risk, openai) = ExplainSync(Decode(r), risk)
  BY DEF Explain
<1>2. ASSUME Assess(r).level = "high", risk # NoAnswer
      PROVE  ExplainSync(Decode(r), risk).warns = Reasons(r)
  BY <1>2 DEF ExplainSync, IsHigh, Assess
<1>3. ASSUME Unlimited(r) PROVE ExplainSync(Decode(r), risk).kind = "unlimited_approve"
  <2>1. /\ Decode(r).unlimited /\ Decode(r).action = "approve"
        /\ Decode(r).selector = "approve"
    <3>1. IsApprove(r.data) /\ IsUnlimited(r.data) /\ r.data.kind = "approve"
      BY <1>3, AllowanceIsRead DEF Unlimited
    <3> QED BY <3>1 DEF Decode
  <2>2. TxKind(Decode(r)) = "unlimited_approve"
    BY <2>1 DEF TxKind
  <2> QED BY <2>2 DEF ExplainSync
<1> QED BY <1>1, <1>2, <1>3

\* For every width of an amount, every request and whatever the networks and the
\* model answer: a dangerous request needs a confirmation, a template names its
\* reasons, and an unlimited allowance is called so by the decoder, by the template
\* with or without the risk, and by each simulation of the call that neither is
\* Alchemy's list of changes nor says that it would revert (handlers/tx.rs,
\* simulation.rs, risk/mod.rs, ai/mod.rs).
THEOREM DangerTold == ReviewSpec => []DangerIsTold
<1>1. ASSUME ReviewInvariant PROVE DangerIsTold
  <2> DEFINE r   == review.request
             res == review.simulated
  <2> SUFFICES ASSUME review.at = "review", Dangerous(r)
               PROVE  /\ review.assessed # NoAnswer => review.assessed.requires_confirmation
                      /\ review.explained # NoAnswer /\ review.explained.source # "ai" =>
                           /\ review.handed # NoAnswer => review.explained.warns = Reasons(r)
                           /\ Unlimited(r) => review.explained.kind = "unlimited_approve"
                      /\ Unlimited(r) =>
                           /\ review.decoded.unlimited
                           /\ /\ res.at = "simulated" /\ IsEvm(r.chain) /\ r.to
                              /\ review.net.alchemy # "ok"
                              => Tells(res)
    BY DEF DangerIsTold, Tells
  <2>1. /\ r \in Requests /\ review.net \in Outcomes /\ review.decoded = Decode(r)
        /\ res \in {NoAnswer, [at |-> "timeout"], Simulate(r, review.net)}
        /\ review.assessed \in {NoAnswer, Assess(r)}
        /\ \/ review.explained = NoAnswer
           \/ /\ review.handed \in {NoAnswer, Assess(r)}
              /\ \E openai : review.explained = Explain(Decode(r), review.handed, openai)
    BY <1>1 DEF ReviewInvariant, NoAnswer
  <2> HIDE DEF r, res
  <2>2. Assess(r).level = "high" /\ Assess(r).requires_confirmation
    <3>1. Reasons(r) \ {"token_approve"} # {}
      <4>1. CASE r.eth_sign \/ r.scam \/ r.phishing
        BY <4>1 DEF Reasons
      <4>2. CASE Unlimited(r)
        <5>1. IsApprove(r.data) /\ IsUnlimited(r.data)
          BY <2>1, <4>2, AllowanceIsRead
        <5> QED BY <5>1 DEF Reasons
      <4> QED BY <4>1, <4>2 DEF Dangerous
    <3> QED BY <3>1 DEF Assess
  <2>3. review.assessed # NoAnswer => review.assessed.requires_confirmation
    BY <2>1, <2>2
  <2>4. ASSUME review.explained # NoAnswer, review.explained.source # "ai"
        PROVE  /\ review.handed # NoAnswer => review.explained.warns = Reasons(r)
               /\ Unlimited(r) => review.explained.kind = "unlimited_approve"
    <3>1. review.handed \in {NoAnswer, Assess(r)}
      BY <2>1, <2>4
    <3>2. PICK openai : review.explained = Explain(Decode(r), review.handed, openai)
      BY <2>1, <2>4
    <3> QED BY <2>1, <2>2, <2>4, <3>1, <3>2, TemplateTells
  <2>5. ASSUME Unlimited(r) PROVE review.decoded.unlimited
    <3>1. IsApprove(r.data) /\ IsUnlimited(r.data) /\ r.data.kind = "approve"
      BY <2>1, <2>5, AllowanceIsRead DEF Unlimited
    <3> QED BY <2>1, <3>1 DEF Decode
  <2>6. ASSUME Unlimited(r), res.at = "simulated", IsEvm(r.chain), r.to,
               review.net.alchemy # "ok"
        PROVE  Tells(res)
    <3>1. res = Simulate(r, review.net)
      BY <2>1, <2>6 DEF NoAnswer
    <3> QED BY <2>1, <2>6, <3>1, UnlimitedIsTold
  <2> QED BY <2>3, <2>4, <2>5, <2>6
<1> QED BY <1>1, AlwaysReviewed, PTL

-----------------------------------------------------------------------------
(* The changes that a simulation tells of.                                 *)

\* What ChangesAreExact says of a change.
Exact(r, got, c) ==
    LET cost == Taken(r, got, c.asset)
    IN  cost <= Half /\ c.before < Half =>
          /\ c.before = IF c.asset = "token" THEN got.token ELSE got.native
          /\ c.delta = - cost
          /\ c.after = IF c.before < cost THEN 0 ELSE c.before - cost
          /\ c.insufficient <=> c.before < cost

AllExact(r, got, changes) == \A k \in DOMAIN changes : Exact(r, got, changes[k])

\* Casts and wrapping sums of signed numbers change nothing that fits.
LEMMA SignedFits ==
  ASSUME NEW x \in Int, - Half <= x, x < Half
  PROVE  Signed(x) = x
<1>1. \A n \in Nat \ {0}, y \in Nat : y < n => y % n = y
  OBVIOUS
<1> QED BY <1>1, ReviewForms DEF Signed

\* The least signed number is its own negation: a loss of Half stays one.
LEMMA SignedEdge == Signed(Half) = - Half
<1>1. \A n \in Nat \ {0} : n % n = 0
  OBVIOUS
<1> QED BY <1>1, ReviewForms DEF Signed

\* A loss of at most Half from a balance below it is taken in full, to zero at
\* the least.
LEMMA LosesExactly ==
  ASSUME NEW asset, NEW before \in Nat, NEW x \in Nat, before < Half, x <= Half
  PROVE  LET c == Loses(asset, before, x)
         IN  /\ c.asset = asset /\ c.before = before /\ c.delta = - x
             /\ c.after = IF before < x THEN 0 ELSE before - x
             /\ c.insufficient <=> before < x
<1>0. Half \in Nat \ {0}
  BY ReviewForms
<1>1. Signed(- Signed(x)) = - x
  <2>1. CASE x < Half
    <3>1. Signed(x) = x
      BY <1>0, <2>1, SignedFits
    <3>2. Signed(- x) = - x
      BY <1>0, <2>1, SignedFits
    <3> QED BY <3>1, <3>2
  <2>2. CASE x = Half
    <3>1. - (- Half) = Half
      BY <1>0
    <3> QED BY <2>2, <3>1, SignedEdge
  <2> QED BY <1>0, <2>1, <2>2
<1>2. Signed(before) = before
  BY <1>0, SignedFits
<1>3. Signed(before + (- x)) = before - x
  <2>1. before + (- x) = before - x /\ before - x \in Int /\ - Half <= before - x
        /\ before - x < Half
    BY <1>0
  <2> QED BY <2>1, SignedFits
<1> DEFINE c == Loses(asset, before, x)
<1>4. c = [asset |-> asset, before |-> before, delta |-> - x,
           after |-> IF before - x < 0 THEN 0 ELSE before - x, insufficient |-> before - x < 0]
  BY <1>1, <1>2, <1>3 DEF Loses, MakeChange
<1> HIDE DEF c
<1>5. /\ c.asset = asset /\ c.before = before /\ c.delta = - x
      /\ c.after = IF before - x < 0 THEN 0 ELSE before - x
      /\ c.insufficient = (before - x < 0)
  BY <1>4
<1>6. (before - x < 0) <=> (before < x)
  OBVIOUS
<1>7. c.after = IF before < x THEN 0 ELSE before - x
  BY <1>5, <1>6
<1>8. c.insufficient <=> before < x
  BY <1>5, <1>6
<1> QED BY <1>5, <1>7, <1>8 DEF c

\* A loss is told exactly if it is of what the network takes, from the balance.
LEMMA LossIsExact ==
  ASSUME NEW r, NEW got, NEW asset, NEW before \in Nat, NEW x,
         before = IF asset = "token" THEN got.token ELSE got.native,
         Taken(r, got, asset) <= Half => x \in Nat /\ x = Taken(r, got, asset)
  PROVE  Exact(r, got, Loses(asset, before, x))
<1> DEFINE c == Loses(asset, before, x)
<1>1. c.asset = asset /\ c.before = before
  BY DEF Loses, MakeChange
<1>2. ASSUME Taken(r, got, asset) <= Half, before < Half
      PROVE  /\ c.delta = - x
             /\ c.after = IF before < x THEN 0 ELSE before - x
             /\ c.insufficient <=> before < x
             /\ x = Taken(r, got, asset)
  BY <1>2, LosesExactly
<1> HIDE DEF c
<1>3. ASSUME Taken(r, got, c.asset) <= Half, c.before < Half
      PROVE  /\ c.before = IF c.asset = "token" THEN got.token ELSE got.native
             /\ c.delta = - Taken(r, got, c.asset)
             /\ c.after = IF c.before < Taken(r, got, c.asset) THEN 0
                          ELSE c.before - Taken(r, got, c.asset)
             /\ c.insufficient <=> c.before < Taken(r, got, c.asset)
  <2>1. Taken(r, got, asset) <= Half /\ before < Half
    BY <1>1, <1>3
  <2>2. x = Taken(r, got, asset)
    BY <1>2, <2>1
  <2> QED BY <1>1, <1>2, <2>1, <2>2
<1> QED BY <1>3 DEF Exact, c

\* The same of the native coin, where its balance is known.
LEMMA NativeIsExact ==
  ASSUME NEW r, NEW got \in Outcomes, NEW x,
         Taken(r, got, "native") <= Half => x \in Nat /\ x = Taken(r, got, "native")
  PROVE  AllExact(r, got, NativeLoss(got, x))
<1>1. got.native = Down \/ got.native \in Nat
  BY ReviewForms
<1>2. CASE got.native = Down
  BY <1>2 DEF AllExact, NativeLoss
<1>3. CASE got.native # Down
  <2>1. NativeLoss(got, x) = <<Loses("native", got.native, x)>>
    BY <1>3 DEF NativeLoss
  <2>2. Exact(r, got, Loses("native", got.native, x))
    BY <1>1, <1>3, LossIsExact
  <2> QED BY <2>1, <2>2 DEF AllExact
<1> QED BY <1>2, <1>3

LEMMA ProductOfNumbers == \A a, b \in Nat : a * b \in Nat
OBVIOUS

LEMMA NotSaturated ==
  ASSUME NEW x \in Nat, x <= Half PROVE Saturated(x) = x
BY ReviewForms DEF Saturated

\* simulate_solana
LEMMA SolanaIsExact ==
  ASSUME NEW r \in Requests, NEW got \in Outcomes, r.chain = "solana",
         SimulateSolana(r, got).at = "simulated"
  PROVE  AllExact(r, got, SimulateSolana(r, got).changes)
<1> DEFINE paid == Given(r.value) /\ got.native # Down
           x == Saturated(r.value + BASE_FEE_LAMPORTS)
<1>1. SimulateSolana(r, got).changes =
        IF paid THEN <<Loses("native", got.native, x)>> ELSE <<>>
  BY DEF SimulateSolana, BadRequest, Response
<1>2. CASE paid
  <2>1. r.value \in Nat /\ BASE_FEE_LAMPORTS \in Nat
    BY <1>2, RequestsGive, ReviewAssumption
  <2>2. Taken(r, got, "native") = r.value + BASE_FEE_LAMPORTS
    BY <1>2 DEF Taken
  <2>3. Taken(r, got, "native") <= Half => x \in Nat /\ x = Taken(r, got, "native")
    BY <2>1, <2>2, NotSaturated
  <2>4. SimulateSolana(r, got).changes = NativeLoss(got, x)
    BY <1>1, <1>2 DEF NativeLoss
  <2> HIDE DEF x
  <2> QED BY <2>3, <2>4, NativeIsExact
<1>3. CASE ~ paid
  BY <1>1, <1>3 DEF AllExact
<1> QED BY <1>2, <1>3

\* simulate_bitcoin
LEMMA BitcoinIsExact ==
  ASSUME NEW r \in Requests, NEW got \in Outcomes, r.chain = "bitcoin",
         SimulateBitcoin(r, got).at = "simulated",
         "no_fee" \notin SimulateBitcoin(r, got).warnings
  PROVE  AllExact(r, got, SimulateBitcoin(r, got).changes)
<1>1. CASE Given(r.value)
  <2>1. got.price # Down
    BY <1>1, BitcoinValued
  <2>2. r.value \in Nat /\ got.price \in Nat /\ BTC_TYPICAL_VSIZE \in Nat
    BY <1>1, <2>1, RequestsGive, ReviewAssumption, ReviewForms
  <2> DEFINE fee == got.price * BTC_TYPICAL_VSIZE
             x   == Saturated(r.value + fee)
  <2>3. fee \in Nat
    BY <2>2, ProductOfNumbers
  <2>4. SimulateBitcoin(r, got).changes = NativeLoss(got, x)
    BY <1>1, <2>1, BitcoinValued DEF BitcoinLoss
  <2>5. Taken(r, got, "native") = r.value + fee
    BY <1>1 DEF Taken
  <2> HIDE DEF fee
  <2>6. Taken(r, got, "native") <= Half => x \in Nat /\ x = Taken(r, got, "native")
    <3>1. r.value + fee \in Nat
      <4>1. \A a, b \in Nat : a + b \in Nat
        OBVIOUS
      <4> QED BY <2>2, <2>3, <4>1
    <3> QED BY <2>5, <3>1, NotSaturated
  <2> HIDE DEF x
  <2> QED BY <2>4, <2>6, NativeIsExact
<1>2. CASE ~ Given(r.value)
  <2>1. SimulateBitcoin(r, got).changes = <<>>
    BY <1>2, BitcoinUnvalued
  <2>2. AllExact(r, got, <<>>)
    BY DEF AllExact
  <2> QED BY <2>1, <2>2
<1> QED BY <1>1, <1>2

\* What is paid for gas on an EVM network.
GasTaken(r, got) ==
    (IF Given(r.gas) THEN r.gas ELSE IF got.gas # Down THEN got.gas ELSE NATIVE_TRANSFER_GAS)
      * (IF Given(r.price) THEN r.price ELSE got.price)

Valued(r) == IF Given(r.value) THEN r.value ELSE 0

FeeTold(r, got) == Saturated(GasLimit(r, got, FALSE) * GasPrice(r, got))

LEMMA EvmTaken ==
  ASSUME NEW r \in Requests, NEW got, IsEvm(r.chain)
  PROVE  Taken(r, got, "native") = Valued(r) + GasTaken(r, got)
<1>1. r.chain # "solana" /\ r.chain # "bitcoin"
  BY ChainsApart
<1> QED BY <1>1 DEF Taken, Valued, GasTaken

\* The fee is that of the network, if neither its gas nor its price is guessed.
LEMMA FeeIsExact ==
  ASSUME NEW r \in Requests, NEW got \in Outcomes,
         GasWarnings(r, got, FALSE) = {}, PriceWarnings(r, got) = {}
  PROVE  /\ GasTaken(r, got) \in Nat
         /\ GasLimit(r, got, FALSE) * GasPrice(r, got) = GasTaken(r, got)
<1>1. /\ r.gas \in Nat \/ ~ Given(r.gas)
      /\ r.price \in Nat \/ ~ Given(r.price)
      /\ got.gas \in Nat \/ got.gas = Down
      /\ got.price \in Nat \/ got.price = Down
      /\ NATIVE_TRANSFER_GAS \in Nat
  BY RequestsGive, ReviewForms, ReviewAssumption
<1> DEFINE gas   == IF Given(r.gas) THEN r.gas
                    ELSE IF got.gas # Down THEN got.gas ELSE NATIVE_TRANSFER_GAS
           price == IF Given(r.price) THEN r.price ELSE got.price
<1>2. gas \in Nat
  BY <1>1
<1>3. price \in Nat
  BY <1>1 DEF PriceWarnings
<1>4. GasPrice(r, got) = price
  BY DEF PriceWarnings, GasPrice
<1>5. GasLimit(r, got, FALSE) = gas
  <2>1. CASE Given(r.gas)
    BY <2>1 DEF GasLimit
  <2>2. CASE ~ Given(r.gas)
    BY <2>2 DEF GasLimit, GasWarnings
  <2> QED BY <2>1, <2>2
<1>6. GasTaken(r, got) = gas * price
  BY DEF GasTaken
<1> HIDE DEF gas, price
<1> QED BY <1>2, <1>3, <1>4, <1>5, <1>6, ProductOfNumbers

\* What simulate_evm warns of besides, whatever the call does.
LEMMA EvmWarns ==
  ASSUME NEW r, NEW got, NEW seen
  PROVE  seen \cup GasWarnings(r, got, FALSE) \cup PriceWarnings(r, got)
           \subseteq EvmResponse(r, got, seen).warnings
<1>1. EvmAction(Normalized(r.data)) \in {"native", "erc20", "approve", "unknown"}
  BY DEF EvmAction
<1>2. CASE EvmAction(Normalized(r.data)) = "native"
  BY <1>2 DEF EvmResponse, Response
<1>3. CASE EvmAction(Normalized(r.data)) = "erc20"
  BY <1>3 DEF EvmResponse, Response
<1>4. CASE EvmAction(Normalized(r.data)) = "approve"
  BY <1>4 DEF EvmResponse, Response
<1>5. CASE EvmAction(Normalized(r.data)) = "unknown"
  BY <1>5 DEF EvmResponse, Response
<1> QED BY <1>1, <1>2, <1>3, <1>4, <1>5

\* The changes of simulate_evm by the kind of the action.
LEMMA EvmChanges ==
  ASSUME NEW r, NEW got, NEW seen, EvmResponse(r, got, seen).simulated
  PROVE  LET action  == EvmAction(Normalized(r.data))
             changes == EvmResponse(r, got, seen).changes
         IN  /\ action \in {"native", "erc20", "approve"}
             /\ action = "native" => changes =
                  NativeLoss(got, Saturated((IF r.value = NotGiven THEN 0 ELSE r.value)
                                              + FeeTold(r, got)))
             /\ action = "approve" => changes = NativeLoss(got, FeeTold(r, got))
             /\ action = "erc20" =>
                  /\ got.token # Down /\ Normalized(r.data).word \in 0..(Pow2 - 1)
                  /\ changes = <<Loses("token", got.token, Normalized(r.data).word)>>
                                 \o NativeLoss(got, FeeTold(r, got))
<1>1. EvmAction(Normalized(r.data)) \in {"native", "erc20", "approve", "unknown"}
  BY DEF EvmAction
<1>2. CASE EvmAction(Normalized(r.data)) = "native"
  BY <1>2 DEF EvmResponse, Response, FeeTold
<1>3. CASE EvmAction(Normalized(r.data)) = "erc20"
  BY <1>3 DEF EvmResponse, Response, FeeTold
<1>4. CASE EvmAction(Normalized(r.data)) = "approve"
  BY <1>4 DEF EvmResponse, Response, FeeTold
<1>5. CASE EvmAction(Normalized(r.data)) = "unknown"
  BY <1>5 DEF EvmResponse, Response
<1> QED BY <1>1, <1>2, <1>3, <1>4, <1>5

\* Two lists of exact changes, one after the other.
LEMMA ExactTogether ==
  ASSUME NEW r, NEW got, NEW one, Exact(r, got, one),
         NEW more, more = <<>> \/ \E c : more = <<c>>, AllExact(r, got, more)
  PROVE  AllExact(r, got, <<one>> \o more)
<1>1. CASE more = <<>>
  <2>1. <<one>> \o more = <<one>>
    BY <1>1
  <2> QED BY <2>1 DEF AllExact
<1>2. ASSUME NEW c, more = <<c>> PROVE AllExact(r, got, <<one>> \o more)
  <2> DEFINE both == <<one>> \o <<c>>
  <2>1. DOMAIN both = 1..2 /\ both[1] = one /\ both[2] = c
    OBVIOUS
  <2> HIDE DEF both
  <2>2. Exact(r, got, c)
    BY <1>2 DEF AllExact
  <2>3. AllExact(r, got, both)
    BY <2>1, <2>2 DEF AllExact
  <2> QED BY <1>2, <2>3 DEF both
<1> QED BY <1>1, <1>2

\* simulate_evm, when the call was checked and nothing was guessed.
LEMMA EvmResponseIsExact ==
  ASSUME NEW r \in Requests, NEW got \in Outcomes, IsEvm(r.chain), r.value # Bad,
         Plausible(r, got), r.data.kind = "empty" \/ got.call \notin {"down", "reverts"},
         EvmResponse(r, got, {}).simulated,
         EvmResponse(r, got, {}).warnings \subseteq {"insufficient", "approve", "unlimited"}
  PROVE  AllExact(r, got, EvmResponse(r, got, {}).changes)
<1> DEFINE action == EvmAction(Normalized(r.data))
           fee    == FeeTold(r, got)
<1>1. GasWarnings(r, got, FALSE) = {} /\ PriceWarnings(r, got) = {}
  BY EvmWarns DEF GasWarnings, PriceWarnings
<1>2. /\ GasTaken(r, got) \in Nat /\ Valued(r) \in Nat
      /\ Taken(r, got, "native") = Valued(r) + GasTaken(r, got)
      /\ fee = Saturated(GasTaken(r, got))
  BY <1>1, FeeIsExact, EvmTaken, RequestsGive DEF FeeTold, Valued
<1>3. Taken(r, got, "native") <= Half => fee = GasTaken(r, got)
  BY <1>2, NotSaturated, ReviewForms
<1> HIDE DEF fee
<1>4. CASE action = "native"
  <2> DEFINE x == Saturated(Valued(r) + fee)
  <2>1. (IF r.value = NotGiven THEN 0 ELSE r.value) = Valued(r)
    BY RequestsGive DEF Valued
  <2>2. EvmResponse(r, got, {}).changes = NativeLoss(got, x)
    BY <1>4, <2>1, EvmChanges DEF fee
  <2>3. Taken(r, got, "native") <= Half => x \in Nat /\ x = Taken(r, got, "native")
    BY <1>2, <1>3, NotSaturated
  <2> HIDE DEF x
  <2> QED BY <2>2, <2>3, NativeIsExact
<1>5. CASE action \in {"erc20", "approve"}
  <2>1. r.data \in Calldata
    BY ReviewForms
  <2>2. r.data.kind # "empty" /\ Normalized(r.data).word = r.data.word
    <3>1. Normalized(r.data).kind = r.data.kind /\ Normalized(r.data).word = r.data.word
      BY <2>1 DEF Normalized, Calldata
    <3> QED BY <1>5, <3>1 DEF EvmAction, IsApprove
  <2>3. got.call = "ok"
    BY <2>2, ReviewForms
  <2>4. ~ (Given(r.value) /\ r.value > 0)
    BY <1>5, <2>3 DEF Plausible
  <2>5. Valued(r) = 0
    BY <2>4, RequestsGive DEF Valued
  <2>6. Taken(r, got, "native") <= Half => fee \in Nat /\ fee = Taken(r, got, "native")
    BY <1>2, <1>3, <2>5
  <2>7. AllExact(r, got, NativeLoss(got, fee))
    BY <2>6, NativeIsExact
  <2>8. CASE action = "approve"
    BY <2>7, <2>8, EvmChanges DEF fee
  <2>9. CASE action = "erc20"
    <3>1. /\ got.token # Down /\ r.data.word \in 0..(Pow2 - 1)
          /\ EvmResponse(r, got, {}).changes =
               <<Loses("token", got.token, r.data.word)>> \o NativeLoss(got, fee)
      BY <2>2, <2>9, EvmChanges DEF fee
    <3>2. got.token \in Nat /\ r.data.word \in Nat
      BY <3>1, ReviewForms
    <3>3. Taken(r, got, "token") = r.data.word
      BY DEF Taken
    <3>4. Exact(r, got, Loses("token", got.token, r.data.word))
      BY <3>2, <3>3, LossIsExact
    <3>5. NativeLoss(got, fee) = <<>> \/ \E c : NativeLoss(got, fee) = <<c>>
      BY DEF NativeLoss
    <3> DEFINE coins == NativeLoss(got, fee)
               one   == Loses("token", got.token, r.data.word)
    <3> HIDE DEF coins, one
    <3>6. Exact(r, got, one) /\ AllExact(r, got, coins)
          /\ (coins = <<>> \/ \E c : coins = <<c>>)
      BY <2>7, <3>4, <3>5 DEF coins, one
    <3>7. AllExact(r, got, <<one>> \o coins)
      BY <3>6, ExactTogether
    <3> QED BY <3>1, <3>7 DEF coins, one
  <2> QED BY <1>5, <2>8, <2>9
<1> QED BY <1>4, <1>5, EvmChanges

LEMMA EvmIsExact ==
  ASSUME NEW r \in Requests, NEW got \in Outcomes, IsEvm(r.chain), Plausible(r, got),
         got.alchemy = "down", SimulateEvm(r, got).at = "simulated",
         SimulateEvm(r, got).simulated, ~ SimulateEvm(r, got).will_revert,
         SimulateEvm(r, got).warnings \subseteq {"insufficient", "approve", "unlimited"}
  PROVE  AllExact(r, got, SimulateEvm(r, got).changes)
<1>1. r.value # Bad
  <2>1. BadRequest.at # "simulated"
    BY DEF BadRequest
  <2> QED BY <2>1, EvmArms
<1>2. r.to
  <2> SUFFICES ASSUME ~ r.to PROVE FALSE
    OBVIOUS
  <2>1. SimulateEvm(r, got) = [Response EXCEPT !.warnings = {"deployment"}]
    BY <1>1, EvmArms
  <2>2. SimulateEvm(r, got).warnings = {"deployment"}
    BY <2>1 DEF Response
  <2> QED BY <2>2
<1>3. CASE SimulateEvm(r, got) =
             [Reverts EXCEPT !.gas = GasLimit(r, got, TRUE), !.warnings = PriceWarnings(r, got)]
  <2>1. SimulateEvm(r, got).will_revert
    BY <1>3 DEF Reverts, Response
  <2> QED BY <2>1
<1>4. CASE SimulateEvm(r, got) = EvmResponse(r, got, {"call_unchecked"})
  <2>1. "call_unchecked" \in SimulateEvm(r, got).warnings
    BY <1>4, EvmWarns
  <2> QED BY <2>1
<1>5. CASE /\ r.data.kind = "empty" \/ got.call \notin {"down", "reverts"}
           /\ SimulateEvm(r, got) = EvmResponse(r, got, {})
  BY <1>1, <1>5, EvmResponseIsExact
<1> QED BY <1>1, <1>2, <1>3, <1>4, <1>5, EvmArms

\* The balances of a simulation fall by exactly what the network takes, for every
\* width of an amount and whatever is asked and answered, as long as cost and
\* balance fit into a signed amount (simulation.rs, make_change and the callers).
THEOREM ChangesExact == ReviewSpec => []ChangesAreExact
<1>1. ASSUME ReviewInvariant PROVE ChangesAreExact
  <2> DEFINE r   == review.request
             got == review.net
             res == review.simulated
  <2> SUFFICES ASSUME review.at = "review", res.at = "simulated", got.alchemy = "down",
                      res.simulated, ~ res.will_revert,
                      res.warnings \subseteq {"insufficient", "approve", "unlimited"}
               PROVE  AllExact(r, got, res.changes)
    BY DEF ChangesAreExact, AllExact, Exact
  <2>1. /\ r \in Requests /\ got \in Outcomes /\ Plausible(r, got)
        /\ res = Simulate(r, got)
    BY <1>1 DEF ReviewInvariant, NoAnswer
  <2> HIDE DEF r, got, res
  <2>2. CASE IsEvm(r.chain)
    BY <2>1, <2>2, ChainsApart, EvmIsExact
  <2>3. CASE r.chain = "solana"
    BY <2>1, <2>3, ChainsApart, SolanaIsExact
  <2>4. CASE r.chain = "bitcoin"
    <3>1. "no_fee" \notin res.warnings
      OBVIOUS
    <3> QED BY <2>1, <2>4, <3>1, ChainsApart, BitcoinIsExact
  <2>5. CASE r.chain = "tron"
    <3>1. res = [at |-> "panic"]
      BY <2>1, <2>5, ChainsApart
    <3> QED BY <3>1
  <2> QED BY <2>1, <2>2, <2>3, <2>4, <2>5, ChainsApart
<1> QED BY <1>1, AlwaysReviewed, PTL

-----------------------------------------------------------------------------
(* The fees of a network: arithmetic.                                       *)

LEMMA MaxOfTwo ==
  ASSUME NEW a \in Int, NEW b \in Int
  PROVE  Max({a, b}) = IF a >= b THEN a ELSE b
<1> DEFINE m == IF a >= b THEN a ELSE b
<1>1. m \in {a, b} /\ \A y \in {a, b} : m >= y
  OBVIOUS
<1>2. \A x \in {a, b} : (\A y \in {a, b} : x >= y) => x = m
  OBVIOUS
<1> HIDE DEF m
<1>3. Max({a, b}) = m
  BY <1>1, <1>2 DEF Max
<1> QED BY <1>3 DEF m

LEMMA MinOfTwo ==
  ASSUME NEW a \in Int, NEW b \in Int
  PROVE  Min({a, b}) = IF a <= b THEN a ELSE b
<1> DEFINE m == IF a <= b THEN a ELSE b
<1>1. m \in {a, b} /\ \A y \in {a, b} : m <= y
  OBVIOUS
<1>2. \A x \in {a, b} : (\A y \in {a, b} : x <= y) => x = m
  OBVIOUS
<1> HIDE DEF m
<1>3. Min({a, b}) = m
  BY <1>1, <1>2 DEF Min
<1> QED BY <1>3 DEF m

\* Shares rise with what is shared, and are no greater than it.
LEMMA Shares ==
  ASSUME NEW a \in Nat, NEW b \in Nat, a <= b, NEW n \in Nat \ {0}
  PROVE  a \div n \in Nat /\ b \div n \in Nat /\ a \div n <= b \div n /\ b \div n <= b
<1> DEFINE p == a \div n
           q == b \div n
<1>1. p \in Nat /\ q \in Nat
  OBVIOUS
<1>2. n * p <= a /\ b < n * q + n /\ n * q <= b
  OBVIOUS
<1> HIDE DEF p, q
<1>3. p <= q
  <2> SUFFICES ASSUME q < p PROVE FALSE
    BY <1>1
  <2>1. q + 1 <= p
    BY <1>1
  <2>2. n * (q + 1) <= n * p
    BY <1>1, <2>1
  <2>3. n * (q + 1) = n * q + n
    BY <1>1
  <2>4. n * q \in Int /\ n * p \in Int
    BY <1>1
  <2> QED BY <1>2, <2>2, <2>3, <2>4
<1>4. q <= b
  <2>1. q <= n * q
    BY <1>1
  <2>2. n * q \in Int
    BY <1>1
  <2> QED BY <1>1, <1>2, <2>1, <2>2
<1> QED BY <1>1, <1>3, <1>4 DEF p, q

-----------------------------------------------------------------------------
(* Tiers.                                                                   *)

\* Three amounts that are in order and of their width.
Rising(a, b, c) ==
    /\ a \in 0..MAX_FEE /\ b \in 0..MAX_FEE /\ c \in 0..MAX_FEE
    /\ a <= b /\ b <= c

LEMMA NetworkOf ==
  /\ ~ IsEvm("solana") /\ ~ IsEvm("bitcoin") /\ ~ IsEvm("tron")
  /\ \A chain \in ChainIds : IsEvm(chain) \/ chain \in {"solana", "bitcoin", "tron"}
<1>1. DOMAIN EVM_CHAINS = 1..5
      /\ \A k \in 1..5 : EVM_CHAINS[k] \in {"ethereum", "polygon", "bsc", "arbitrum", "base"}
  BY DEF EVM_CHAINS
<1>2. ToSet(EVM_CHAINS) \subseteq {"ethereum", "polygon", "bsc", "arbitrum", "base"}
  BY <1>1 DEF ToSet
<1> QED BY <1>2 DEF ChainIds, IsEvm

\* The columns of a fee history, as its node promises them.
Offers(reward) ==
    /\ reward \in Seq(Seq(0..MAX_FEE))
    /\ \A block \in ToSet(reward) : Len(block) >= 3 => block[1] <= block[2] /\ block[2] <= block[3]
    /\ \A tier \in Tiers : SumSampled(reward, tier) <= MAX_FEE

LEMMA ReportOf ==
  ASSUME NEW chain, NEW report, ReportFits(chain, report)
  PROVE  /\ IsEvm(chain) => report.base \in Seq(0..MAX_FEE) /\ Offers(report.reward)
         /\ chain = "solana" => report \in Seq(Nat)
         /\ chain = "bitcoin" => /\ {report.hour, report.half_hour, report.fastest} \subseteq Nat
                                 /\ report.hour <= report.half_hour
                                 /\ report.half_hour <= report.fastest
         /\ chain = "tron" => \A key \in DOMAIN report : report[key] \in Int
<1>1. CASE IsEvm(chain)
  <2>1. chain # "solana" /\ chain # "bitcoin" /\ chain # "tron"
    BY <1>1, NetworkOf
  <2> QED BY <1>1, <2>1 DEF ReportFits, Offers
<1>2. CASE ~ IsEvm(chain)
  BY <1>2 DEF ReportFits
<1> QED BY <1>1, <1>2

\* The mean of a higher percentile is no less: the blocks are the same.
LEMMA SumsRise ==
  ASSUME NEW reward, Offers(reward)
  PROVE  /\ IsFiniteSet(Sampled(reward, 1))
         /\ Rising(SumSampled(reward, 1), SumSampled(reward, 2), SumSampled(reward, 3))
<1> DEFINE S == Sampled(reward, 1)
           column(tier) == [k \in S |-> reward[k][tier]]
<1>1. /\ reward \in Seq(Seq(0..MAX_FEE))
      /\ \A block \in ToSet(reward) : Len(block) >= 3 => block[1] <= block[2] /\ block[2] <= block[3]
      /\ \A tier \in Tiers : SumSampled(reward, tier) <= MAX_FEE
  BY DEF Offers
<1>2. S \subseteq 1..Len(reward) /\ IsFiniteSet(S)
  <2>1. Len(reward) \in Nat /\ DOMAIN reward = 1..Len(reward)
    BY <1>1
  <2>2. S \subseteq 1..Len(reward)
    BY <2>1 DEF Sampled
  <2>3. IsFiniteSet(1..Len(reward))
    BY <2>1, FS_Interval
  <2> QED BY <2>2, <2>3, FS_Subset
<1>3. ASSUME NEW k \in S
      PROVE  /\ reward[k][1] \in Nat /\ reward[k][2] \in Nat /\ reward[k][3] \in Nat
             /\ reward[k][1] <= reward[k][2] /\ reward[k][2] <= reward[k][3]
  <2>1. k \in DOMAIN reward /\ Len(reward[k]) >= 3
    BY DEF Sampled
  <2>2. reward[k] \in Seq(0..MAX_FEE) /\ reward[k] \in ToSet(reward)
    <3>1. DOMAIN reward = 1..Len(reward) /\ \A i \in 1..Len(reward) : reward[i] \in Seq(0..MAX_FEE)
      BY <1>1
    <3> QED BY <2>1, <3>1 DEF ToSet
  <2>3. 1 \in DOMAIN reward[k] /\ 2 \in DOMAIN reward[k] /\ 3 \in DOMAIN reward[k]
    BY <2>1, <2>2
  <2>4. \A i \in DOMAIN reward[k] : reward[k][i] \in 0..MAX_FEE
    <3>1. DOMAIN reward[k] = 1..Len(reward[k])
      BY <2>2
    <3> QED BY <2>2, <3>1, ElementOfSeq
  <2> QED BY <1>1, <2>1, <2>2, <2>3, <2>4
<1>4. ASSUME NEW tier \in Tiers
      PROVE  /\ SumSampled(reward, tier) = SumFunctionOnSet(column(tier), S)
             /\ \A k \in S : column(tier)[k] = reward[k][tier]
  <2>1. Sampled(reward, tier) = S
    BY DEF Sampled
  <2> QED BY <2>1 DEF SumSampled, SumFunction
<1>5. ASSUME NEW tier \in Tiers PROVE SumSampled(reward, tier) \in 0..MAX_FEE
  <2>1. \A k \in S : column(tier)[k] \in Nat
    BY <1>3, <1>4 DEF Tiers
  <2> HIDE DEF column, S
  <2>2. SumFunctionOnSet(column(tier), S) \in Nat
    BY <1>2, <2>1, SumNat
  <2>3. SumSampled(reward, tier) \in Nat
    BY <1>4, <2>2
  <2> QED BY <1>1, <2>3, FeesAssumption
<1>6. ASSUME NEW tier \in {1, 2} PROVE SumSampled(reward, tier) <= SumSampled(reward, tier + 1)
  <2>1. tier \in Tiers /\ tier + 1 \in Tiers
    BY DEF Tiers
  <2>2. \A k \in S : /\ column(tier)[k] \in Int /\ column(tier + 1)[k] \in Int
                     /\ column(tier)[k] <= column(tier + 1)[k]
    BY <1>3
  <2> HIDE DEF column, S
  <2>3. SumFunctionOnSet(column(tier), S) <= SumFunctionOnSet(column(tier + 1), S)
    BY <1>2, <2>2, SumLeq
  <2> QED BY <1>4, <2>1, <2>3
<1>7. 1 \in Tiers /\ 2 \in Tiers /\ 3 \in Tiers
  BY DEF Tiers
<1>8. SumSampled(reward, 1) <= SumSampled(reward, 2) /\ SumSampled(reward, 2) <= SumSampled(reward, 3)
  <2>1. 1 + 1 = 2 /\ 2 + 1 = 3
    OBVIOUS
  <2> QED BY <1>6, <2>1
<1> QED BY <1>2, <1>5, <1>7, <1>8 DEF Rising

\* The k-th of the fees is one of them, and it rises with k.
LEMMA RankedRises ==
  ASSUME NEW fees \in Seq(Nat), NEW k \in 1..Len(fees), NEW l \in 1..Len(fees), k <= l
  PROVE  /\ Ranked(fees, k) \in Nat /\ Ranked(fees, l) \in Nat
         /\ Ranked(fees, k) <= Ranked(fees, l)
<1> DEFINE Within(fee) == {i \in DOMAIN fees : fees[i] <= fee}
           count == [fee \in ToSet(fees) |-> Cardinality(Within(fee))]
           Reached(n) == {fee \in ToSet(fees) : count[fee] >= n}
<1>1. /\ Len(fees) \in Nat /\ DOMAIN fees = 1..Len(fees) /\ ToSet(fees) \subseteq Nat
      /\ \A i \in DOMAIN fees : fees[i] \in ToSet(fees) /\ fees[i] \in Nat
  <2>1. Len(fees) \in Nat /\ DOMAIN fees = 1..Len(fees)
    OBVIOUS
  <2>2. \A i \in DOMAIN fees : fees[i] \in Nat
    BY <2>1, ElementOfSeq
  <2> QED BY <2>1, <2>2 DEF ToSet
<1>2. IsFiniteSet(DOMAIN fees) /\ Cardinality(DOMAIN fees) = Len(fees)
  <2>1. IsFiniteSet(1..Len(fees)) /\ Cardinality(1..Len(fees)) = Len(fees)
    <3>1. 1 \in Int /\ Len(fees) \in Int /\ 1 <= Len(fees) /\ Len(fees) - 1 + 1 = Len(fees)
      BY <1>1
    <3>2. IsFiniteSet(1..Len(fees))
      BY <3>1, FS_Interval
    <3>3. Cardinality(1..Len(fees)) = IF 1 > Len(fees) THEN 0 ELSE Len(fees) - 1 + 1
      BY <3>1, FS_Interval, Zenon
    <3> QED BY <3>1, <3>2, <3>3
  <2> QED BY <1>1, <2>1, Zenon
<1>3. \A fee \in ToSet(fees) : count[fee] \in Nat
  BY <1>2, FS_Subset, FS_CardinalityType
\* The greatest of the fees has all of them within it.
<1>4. PICK top \in ToSet(fees) : count[top] = Len(fees)
  <2> DEFINE Above == {n \in Nat : \A i \in DOMAIN fees : fees[i] <= n}
  <2>1. IsFiniteSet(ToSet(fees)) /\ ToSet(fees) # {}
    <3>1. 1 \in DOMAIN fees
      BY <1>1
    <3>2. ToSet(fees) = {fees[i] : i \in DOMAIN fees}
      BY DEF ToSet
    <3>3. fees \in Surjection(DOMAIN fees, ToSet(fees))
      <4>1. fees \in [DOMAIN fees -> Nat]
        BY SeqDef
      <4>2. fees \in [DOMAIN fees -> ToSet(fees)]
        BY <1>1, <4>1
      <4>3. \A fee \in ToSet(fees) : \E i \in DOMAIN fees : fees[i] = fee
        BY DEF ToSet
      <4> QED BY <4>2, <4>3 DEF Surjection
    <3>4. IsFiniteSet(ToSet(fees))
      BY <1>2, <3>3, FS_Surjection DEF ExistsSurjection
    <3> QED BY <3>1, <3>2, <3>4
  <2>2. PICK top \in ToSet(fees) : \A fee \in ToSet(fees) : fee <= top
    <3>1. ToSet(fees) \subseteq Int
      BY <1>1
    <3> QED BY <2>1, <3>1, Greatest
  <2>3. Within(top) = DOMAIN fees
    BY <1>1, <2>2
  <2> HIDE DEF Within
  <2> QED BY <1>2, <2>2, <2>3
<1> SUFFICES ASSUME \A n : Ranked(fees, n) = Min(Reached(n))
             PROVE  /\ Ranked(fees, k) \in Nat /\ Ranked(fees, l) \in Nat
                    /\ Ranked(fees, k) <= Ranked(fees, l)
  BY Zenon DEF Ranked
<1> HIDE DEF count
<1>5. ASSUME NEW n \in 1..Len(fees)
      PROVE  /\ Ranked(fees, n) \in Reached(n)
             /\ \A fee \in Reached(n) : Ranked(fees, n) <= fee
  <2>1. top \in Reached(n)
    BY <1>1, <1>4
  <2>2. Reached(n) \subseteq Nat
    BY <1>1
  <2>3. Ranked(fees, n) = Min(Reached(n))
    OBVIOUS
  <2> HIDE DEF Reached
  <2>4. \E x \in Reached(n) : \A y \in Reached(n) : x <= y
    BY <2>1, <2>2, Least
  <2> QED BY <2>3, <2>4 DEF Min
<1>6. Reached(l) \subseteq Reached(k) /\ Reached(k) \subseteq Nat /\ Reached(l) \subseteq Nat
  BY <1>1, <1>3
<1> HIDE DEF Reached
<1> QED BY <1>5, <1>6

LEMMA PriorityRises ==
  ASSUME NEW reward, Offers(reward)
  PROVE  /\ Rising(Priority(reward, 1), Priority(reward, 2), Priority(reward, 3))
         /\ \A tier \in Tiers : 1 <= Priority(reward, tier)
<1> DEFINE S == Sampled(reward, 1)
           s(tier) == SumSampled(reward, tier)
           p(tier) == Priority(reward, tier)
<1>1. \A tier \in Tiers : Sampled(reward, tier) = S
  BY DEF Sampled
<1>2. IsFiniteSet(S) /\ Rising(s(1), s(2), s(3))
  BY SumsRise
<1>3. MAX_FEE \in Nat /\ DEFAULT_PRIORITY \in 2..MAX_FEE /\ 2 * DEFAULT_PRIORITY <= MAX_FEE
  BY FeesAssumption
<1>4. \A tier \in Tiers : tier = 1 \/ tier = 2 \/ tier = 3
  BY DEF Tiers
<1>5. 1 \in Tiers /\ 2 \in Tiers /\ 3 \in Tiers
  BY DEF Tiers
<1>6. CASE S = {}
  <2>1. /\ p(1) = DEFAULT_PRIORITY \div 2 /\ p(2) = DEFAULT_PRIORITY /\ p(3) = 2 * DEFAULT_PRIORITY
    BY <1>1, <1>5, <1>6 DEF Priority
  <2>2. DEFAULT_PRIORITY \div 2 \in 1..DEFAULT_PRIORITY
    BY <1>3
  <2> HIDE DEF p
  <2>3. Rising(p(1), p(2), p(3)) /\ 1 <= p(1) /\ 1 <= p(2) /\ 1 <= p(3)
    BY <1>3, <2>1, <2>2 DEF Rising
  <2> QED BY <1>4, <2>3 DEF p
<1>7. CASE S # {}
  <2> DEFINE n == Cardinality(S)
             q(tier) == s(tier) \div n
  <2>1. n \in Nat \ {0}
    BY <1>2, <1>7, FS_CardinalityType, FS_EmptySet
  <2>2. \A tier \in Tiers : p(tier) = Max({1, q(tier)})
    BY <1>1, <1>7 DEF Priority
  <2>3. /\ s(1) \in Nat /\ s(2) \in Nat /\ s(3) \in Nat /\ s(1) <= s(2) /\ s(2) <= s(3)
        /\ s(3) <= MAX_FEE
    BY <1>2, <1>3 DEF Rising
  <2> HIDE DEF n, s
  <2>4. /\ q(1) \in Nat /\ q(2) \in Nat /\ q(3) \in Nat /\ q(1) <= q(2) /\ q(2) <= q(3)
        /\ q(3) <= s(3)
    <3>1. q(1) \in Nat /\ q(2) \in Nat /\ q(1) <= q(2)
      BY <2>1, <2>3, Shares
    <3>2. q(3) \in Nat /\ q(2) <= q(3) /\ q(3) <= s(3)
      BY <2>1, <2>3, Shares
    <3> QED BY <3>1, <3>2
  <2> HIDE DEF p, q
  <2>5. ASSUME NEW tier \in Tiers PROVE p(tier) = IF 1 >= q(tier) THEN 1 ELSE q(tier)
    <3>1. q(tier) \in Int
      BY <1>4, <2>4
    <3>2. Max({1, q(tier)}) = IF 1 >= q(tier) THEN 1 ELSE q(tier)
      BY <3>1, MaxOfTwo
    <3> QED BY <2>2, <3>2
  <2>6. Rising(p(1), p(2), p(3)) /\ 1 <= p(1) /\ 1 <= p(2) /\ 1 <= p(3)
    BY <1>3, <1>5, <2>3, <2>4, <2>5 DEF Rising
  <2> QED BY <1>4, <2>6 DEF p
<1> QED BY <1>6, <1>7

LEMMA Saturates ==
  ASSUME NEW n \in Nat
  PROVE  Saturating(n) = IF n <= MAX_FEE THEN n ELSE MAX_FEE
BY MinOfTwo, FeesAssumption DEF Saturating

\* The tiers of an EVM network.
LEMMA EvmTiersRise ==
  ASSUME NEW report, report.base \in Seq(0..MAX_FEE), report.base # <<>>, Offers(report.reward)
  PROVE  \A tier \in Tiers :
           LET t == EvmTier(report, tier)
               slower == EvmTier(report, tier - 1)
           IN  /\ 1 <= t.max_priority_fee /\ t.max_priority_fee <= t.max_fee
               /\ tier > 1 => /\ slower.max_priority_fee <= t.max_priority_fee
                              /\ slower.max_fee <= t.max_fee
               /\ t.max_fee >= Saturating(Last(report.base) + t.max_priority_fee)
<1> DEFINE p(tier) == Priority(report.reward, tier)
           base == Last(report.base)
           top(tier) == Saturating(Saturating(2 * base) + p(tier))
<1>1. base \in 0..MAX_FEE
  <2>1. Len(report.base) \in 1..Len(report.base)
    BY EmptySeq, LenProperties
  <2>2. report.base[Len(report.base)] \in 0..MAX_FEE
    BY <2>1, ElementOfSeq
  <2> QED BY <2>2 DEF Last
<1>2. /\ Rising(p(1), p(2), p(3)) /\ \A tier \in Tiers : 1 <= p(tier)
  BY PriorityRises
<1>3. \A tier : EvmTier(report, tier) = [max_priority_fee |-> p(tier), max_fee |-> top(tier)]
  BY Zenon DEF EvmTier
<1> HIDE DEF p, base
<1>4. MAX_FEE \in Nat
  BY FeesAssumption
<1>5. \A tier \in Tiers : p(tier) \in 1..MAX_FEE /\ (tier > 1 => p(tier - 1) <= p(tier))
  <2>1. \A tier \in Tiers : tier = 1 \/ tier = 2 \/ tier = 3
    BY DEF Tiers
  <2> QED BY <1>2, <1>4, <2>1 DEF Rising
<1>6. ASSUME NEW tier \in Tiers
      PROVE  /\ top(tier) \in Nat
             /\ p(tier) <= top(tier)
             /\ top(tier) >= Saturating(base + p(tier))
             /\ tier > 1 => tier - 1 \in Tiers /\ top(tier - 1) <= top(tier)
  <2>1. 2 * base \in Nat
    BY <1>1, <1>4
  <2>2. PICK d \in base..MAX_FEE : d = Saturating(2 * base)
    BY <1>1, <1>4, <2>1, Saturates
  <2>3. ASSUME NEW x \in Nat
        PROVE  Saturating(d + x) = IF d + x <= MAX_FEE THEN d + x ELSE MAX_FEE
    <3>1. d + x \in Nat
      BY <1>1, <1>4
    <3> QED BY <3>1, Saturates
  <2>4. base + p(tier) \in Nat
    BY <1>1, <1>4, <1>5
  <2>5. Saturating(base + p(tier)) = IF base + p(tier) <= MAX_FEE THEN base + p(tier) ELSE MAX_FEE
    BY <2>4, Saturates
  <2>6. tier > 1 => tier - 1 \in Tiers
    BY DEF Tiers
  <2>7. \A i \in Tiers : /\ p(i) \in Nat
                         /\ top(i) = IF d + p(i) <= MAX_FEE THEN d + p(i) ELSE MAX_FEE
    <3>1. \A i \in Tiers : p(i) \in Nat
      BY <1>4, <1>5
    <3> QED BY <2>2, <2>3, <3>1
  <2>8. /\ p(tier) \in 1..MAX_FEE /\ d \in Nat /\ base <= d /\ base \in Nat
        /\ top(tier) = IF d + p(tier) <= MAX_FEE THEN d + p(tier) ELSE MAX_FEE
    BY <1>1, <1>4, <1>5, <2>2, <2>7
  <2>9. tier > 1 => /\ p(tier - 1) \in Nat /\ p(tier - 1) <= p(tier)
                    /\ top(tier - 1) = IF d + p(tier - 1) <= MAX_FEE THEN d + p(tier - 1) ELSE MAX_FEE
    BY <1>5, <2>6, <2>7
  <2> HIDE DEF top
  <2>10. top(tier) \in Nat /\ p(tier) <= top(tier) /\ top(tier) >= Saturating(base + p(tier))
    BY <1>4, <2>5, <2>8
  <2>11. tier > 1 => top(tier - 1) <= top(tier)
    BY <1>4, <2>8, <2>9
  <2> QED BY <2>6, <2>10, <2>11
<1> HIDE DEF top
<1> QED
  <2> SUFFICES ASSUME NEW tier \in Tiers
               PROVE  /\ 1 <= p(tier) /\ p(tier) <= top(tier)
                      /\ tier > 1 => p(tier - 1) <= p(tier) /\ top(tier - 1) <= top(tier)
                      /\ top(tier) >= Saturating(base + p(tier))
    BY <1>3 DEF base
  <2> QED BY <1>4, <1>5, <1>6

\* The tiers of Solana.
LEMMA SolanaTiersRise ==
  ASSUME NEW fees \in Seq(Nat)
  PROVE  /\ SolanaTier(fees, 1).priority <= SolanaTier(fees, 2).priority
         /\ SolanaTier(fees, 2).priority <= SolanaTier(fees, 3).priority
<1> DEFINE p(tier) == SolanaTier(fees, tier).priority
           n == Len(fees)
           at(h) == 1 + ((2 * (n - 1) * h + 100) \div 200)
<1>1. CASE \A k \in DOMAIN fees : fees[k] = 0
  <2>1. p(1) = 0 /\ p(2) = 1000 /\ p(3) = 10000
    BY <1>1 DEF SolanaTier
  <2> QED BY <2>1
<1>2. CASE ~ \A k \in DOMAIN fees : fees[k] = 0
  <2>1. p(1) = Percentile(fees, 25) /\ p(2) = Percentile(fees, 50) /\ p(3) = Percentile(fees, 90)
    BY <1>2 DEF SolanaTier
  <2>2. n \in Nat \ {0} /\ DOMAIN fees = 1..n
    BY <1>2
  <2>3. \A h : Percentile(fees, h) = Ranked(fees, at(h))
    BY DEF Percentile
  <2> HIDE DEF n
  <2>4. /\ at(25) \in 1..n /\ at(50) \in 1..n /\ at(90) \in 1..n
        /\ at(25) <= at(50) /\ at(50) <= at(90)
    BY <2>2
  <2> HIDE DEF p, at
  <2>5. Ranked(fees, at(25)) <= Ranked(fees, at(50)) /\ Ranked(fees, at(50)) <= Ranked(fees, at(90))
    BY <2>4, RankedRises DEF n
  <2> QED BY <2>1, <2>3, <2>5 DEF p
<1> QED BY <1>1, <1>2

-----------------------------------------------------------------------------
(* Answers.                                                                 *)

\* An answer has the fees of its network for what its node reported.
FeesInv ==
    quote.at \in {"fees", "params"} =>
        \E chain \in DOMAIN Reports : \E report \in Reports[chain] :
            /\ quote.chain = chain /\ quote.report = report
            /\ quote.tiers = EstimateFees(chain, report) /\ quote.tiers # <<>>

\* No network has another's name for its own.
LEMMA Named ==
  ASSUME NEW name \in DOMAIN Reports \cup {"eth", "doge"}, ChainFromStr(name) # "unknown"
  PROVE  ChainFromStr(name) \in DOMAIN Reports
<1>1. DOMAIN Reports \subseteq ChainIds /\ "ethereum" \in DOMAIN Reports
  BY FeesAssumption
<1>2. \A k \in ToSet(EVM_CHAINS) : k \in {"ethereum", "polygon", "bsc", "arbitrum", "base"}
  <2>1. DOMAIN EVM_CHAINS = 1..5
        /\ \A k \in 1..5 : EVM_CHAINS[k] \in {"ethereum", "polygon", "bsc", "arbitrum", "base"}
    BY DEF EVM_CHAINS
  <2> QED BY <2>1 DEF ToSet
<1>3. "eth" \notin ChainIds /\ "doge" \notin ChainIds
  BY <1>2 DEF ChainIds
<1>4. \A known \in ChainIds : ChainFromStr(known) = known
  BY <1>2 DEF ChainFromStr, ChainIds
<1>5. ChainFromStr("eth") = "ethereum" /\ ChainFromStr("doge") = "unknown"
  BY <1>3 DEF ChainFromStr
<1> QED BY <1>1, <1>4, <1>5

LEMMA AlwaysFeesInv == FeesSpec => []FeesInv
<1>1. FeesInit => FeesInv
  BY DEF FeesInit, FeesInv, NoQuote
<1>2. FeesInv /\ [FeesNext]_feesVars => FeesInv'
  <2> SUFFICES ASSUME FeesInv, [FeesNext]_feesVars PROVE FeesInv'
    OBVIOUS
  <2> DEFINE Quoted(at, chain, report, limit) ==
               IF EstimateFees(chain, report) = <<>> THEN [at |-> "bad_gateway"]
               ELSE [at |-> at, chain |-> chain, report |-> report,
                     tiers |-> EstimateFees(chain, report), gas_limit |-> limit]
  <2>1. ASSUME NEW at \in {"fees", "params"}, NEW chain \in DOMAIN Reports,
               NEW report \in Reports[chain], NEW limit, quote' = Quoted(at, chain, report, limit)
        PROVE  FeesInv'
    BY <2>1 DEF FeesInv
  <2>2. ASSUME NEW at \in Refusals, quote' = [at |-> at] PROVE FeesInv'
    BY <2>2 DEF FeesInv, Refusals
  <2>3. CASE AsksFees
    <3>1. PICK name \in DOMAIN Reports \cup {"eth", "doge"} :
            \/ quote' = [at |-> "bad_request"]
            \/ quote' \in {[at |-> "bad_gateway"], [at |-> "timeout"]}
            \/ /\ ChainFromStr(name) # "unknown"
               /\ \E report \in Reports[ChainFromStr(name)] :
                    quote' = Quoted("fees", ChainFromStr(name), report, 0)
      BY <2>3, Zenon DEF AsksFees
    <3> DEFINE chain == ChainFromStr(name)
    <3>2. CASE chain # "unknown" /\ \E report \in Reports[chain] :
                 quote' = Quoted("fees", chain, report, 0)
      <4>1. chain \in DOMAIN Reports
        BY <3>2, Named
      <4> HIDE DEF Quoted, chain
      <4> QED BY <2>1, <3>2, <4>1
    <3>3. CASE \E at \in Refusals : quote' = [at |-> at]
      BY <2>2, <3>3
    <3> QED BY <3>1, <3>2, <3>3 DEF Refusals
  <2>4. CASE AsksParams
    <3>1. PICK chain \in DOMAIN Reports, token \in BOOLEAN :
            \/ quote' = [at |-> "bad_request"]
            \/ quote' \in {[at |-> "bad_gateway"], [at |-> "timeout"]}
            \/ \E report \in Reports[chain] :
                 quote' = Quoted("params", chain, report,
                                 IF token THEN GAS_LIMIT_ERC20 ELSE GAS_LIMIT_NATIVE)
      BY <2>4, Zenon DEF AsksParams
    <3>2. CASE \E report \in Reports[chain] :
                 quote' = Quoted("params", chain, report,
                                 IF token THEN GAS_LIMIT_ERC20 ELSE GAS_LIMIT_NATIVE)
      <4> HIDE DEF Quoted
      <4> QED BY <2>1, <3>2
    <3>3. CASE \E at \in Refusals : quote' = [at |-> at]
      BY <2>2, <3>3
    <3> QED BY <3>1, <3>2, <3>3 DEF Refusals
  <2>5. CASE UNCHANGED feesVars
    BY <2>5 DEF FeesInv, feesVars
  <2> QED BY <2>3, <2>4, <2>5 DEF FeesNext
<1> QED BY <1>1, <1>2, PTL DEF FeesSpec

\* TiersInOrder: a faster tier never offers less than a slower one, and on an EVM
\* network the tip is within the maximum, which covers the next base fee and the
\* tip (estimate_fees of the adapters). It rests on a sum that rises with its
\* terms, on the blocks that are sampled being the same for the three tiers, and
\* on the k-th of the fees rising with k.
THEOREM TiersOrdered == FeesSpec => []TiersInOrder
<1>1. FeesInv => TiersInOrder
  <2> SUFFICES ASSUME FeesInv, quote.at \in {"fees", "params"}
               PROVE  /\ Rate(1) <= Rate(2) /\ Rate(2) <= Rate(3)
                      /\ IsEvm(quote.chain) => \A tier \in Tiers :
                           LET t == quote.tiers[tier]
                           IN  /\ 1 <= t.max_priority_fee /\ t.max_priority_fee <= t.max_fee
                               /\ tier > 1 => quote.tiers[tier - 1].max_priority_fee <= t.max_priority_fee
                               /\ t.max_fee >= Saturating(Last(quote.report.base) + t.max_priority_fee)
    BY DEF TiersInOrder
  <2>0. PICK chain \in DOMAIN Reports : \E report \in Reports[chain] :
          /\ quote.chain = chain /\ quote.report = report
          /\ quote.tiers = EstimateFees(chain, report) /\ quote.tiers # <<>>
    BY DEF FeesInv
  <2>1. PICK report \in Reports[chain] :
          /\ quote.chain = chain /\ quote.report = report
          /\ quote.tiers = EstimateFees(chain, report) /\ quote.tiers # <<>>
    BY <2>0
  <2>2. ReportFits(chain, report) /\ chain \in ChainIds
    BY ReportsAssumption, FeesAssumption
  <2>3. 1 \in Tiers /\ 2 \in Tiers /\ 3 \in Tiers /\ \A tier \in Tiers : tier > 1 => tier - 1 \in Tiers
    BY DEF Tiers
  <2>4. CASE IsEvm(chain)
    <3>1. chain # "solana" /\ chain # "bitcoin" /\ chain # "tron"
      BY <2>4, NetworkOf
    <3>2. report.base # <<>> /\ quote.tiers = [tier \in Tiers |-> EvmTier(report, tier)]
      BY <2>1, <2>4, <3>1 DEF EstimateFees
    <3>3. report.base \in Seq(0..MAX_FEE) /\ Offers(report.reward)
      BY <2>2, <2>4, ReportOf
    <3> DEFINE t(tier) == EvmTier(report, tier)
    <3>4. \A tier \in Tiers :
            /\ 1 <= t(tier).max_priority_fee /\ t(tier).max_priority_fee <= t(tier).max_fee
            /\ tier > 1 => /\ t(tier - 1).max_priority_fee <= t(tier).max_priority_fee
                           /\ t(tier - 1).max_fee <= t(tier).max_fee
            /\ t(tier).max_fee >= Saturating(Last(report.base) + t(tier).max_priority_fee)
      BY <3>2, <3>3, EvmTiersRise
    <3> HIDE DEF t
    <3>5. \A tier \in Tiers : quote.tiers[tier] = t(tier) /\ Rate(tier) = t(tier).max_fee
      <4>1. \A tier : Rate(tier) = quote.tiers[tier].max_fee
        BY <2>1, <2>4, <3>1 DEF Rate
      <4>2. \A tier \in Tiers : quote.tiers[tier] = t(tier)
        BY <3>2 DEF t
      <4> QED BY <4>1, <4>2
    <3>6. t(1).max_fee <= t(2).max_fee /\ t(2).max_fee <= t(3).max_fee
      <4>1. 2 > 1 /\ 3 > 1 /\ 2 - 1 = 1 /\ 3 - 1 = 2
        OBVIOUS
      <4> QED BY <2>3, <3>4, <4>1
    <3> QED BY <2>1, <2>3, <3>4, <3>5, <3>6
  <2>5. CASE chain = "solana"
    <3>1. quote.tiers = [tier \in Tiers |-> SolanaTier(report, tier)] /\ ~ IsEvm(chain)
      BY <2>1, <2>5, NetworkOf DEF EstimateFees
    <3>2. \A tier \in Tiers : Rate(tier) = SolanaTier(report, tier).priority
      BY <2>1, <2>5, <3>1 DEF Rate
    <3>3. report \in Seq(Nat)
      BY <2>2, <2>5, ReportOf
    <3> QED BY <2>1, <2>3, <3>1, <3>2, <3>3, SolanaTiersRise
  <2>6. CASE chain = "bitcoin"
    <3>1. quote.tiers = [tier \in Tiers |-> BitcoinTier(report, tier)] /\ ~ IsEvm(chain)
      BY <2>1, <2>6, NetworkOf DEF EstimateFees
    <3>2. Rate(1) = report.hour /\ Rate(2) = report.half_hour /\ Rate(3) = report.fastest
      BY <2>1, <2>3, <2>6, <3>1 DEF Rate, BitcoinTier
    <3>3. report.hour <= report.half_hour /\ report.half_hour <= report.fastest
      BY <2>2, <2>6, ReportOf
    <3> QED BY <2>1, <3>1, <3>2, <3>3
  <2>7. CASE chain = "tron"
    <3>1. quote.tiers = [tier \in Tiers |-> TronTier(report, tier)] /\ ~ IsEvm(chain)
      BY <2>1, <2>7, NetworkOf DEF EstimateFees
    <3> DEFINE energy == IF "getEnergyFee" \in DOMAIN report
                           THEN Max({0, report["getEnergyFee"]}) ELSE 210
    <3>2. \A tier \in Tiers : Rate(tier) = energy
      <4>1. \A tier : Rate(tier) = quote.tiers[tier].energy
        BY <2>1, <2>7, <3>1 DEF Rate
      <4>2. \A tier \in Tiers : quote.tiers[tier] = TronTier(report, tier)
        BY <3>1
      <4>3. \A tier \in Tiers : TronTier(report, tier).energy = energy
        BY DEF TronTier
      <4> QED BY <4>1, <4>2, <4>3
    <3>3. energy \in Int
      <4>1. \A key \in DOMAIN report : report[key] \in Int
        BY <2>2, <2>7, ReportOf
      <4>2. \A x \in Int : Max({0, x}) \in Int
        BY MaxOfTwo
      <4> QED BY <4>1, <4>2
    <3> HIDE DEF energy
    <3> QED BY <2>1, <2>3, <3>1, <3>2, <3>3
  <2> QED BY <2>2, <2>4, <2>5, <2>6, <2>7, NetworkOf
<1> QED BY <1>1, AlwaysFeesInv, PTL
=============================================================================
