------------------------------- MODULE ChatLoop -------------------------------
(* One request to the chat of the API server: the task that asks the model, *)
(* executes its tool calls and sends its text into a bounded channel        *)
(* (crates/api-server/src/ai/chat.rs, tools.rs), and the response that      *)
(* carries the channel to the client as server-sent events                  *)
(* (handlers/chat.rs).  The model is outside: it says or asks for anything. *)
(* A fragment of its text is the number of the fragment.                    *)
EXTENDS Integers, Sequences, SequencesExt, FiniteSets

CONSTANTS
    MAX_TOOL_ROUNDS,       \* rounds of model and tools
    MAX_HISTORY_MESSAGES,  \* messages of the client that the model is given
    CAPACITY,              \* of the channel between the task and the response
    Histories,             \* what clients send, sequences of roles
    ToolCalls,             \* calls the model may make: [name, args]
    MaxFragments,          \* bound: fragments of text in one chat
    MaxCalls               \* bound: tool calls in one round

ASSUME ChatAssumption ==
    /\ MAX_TOOL_ROUNDS \in Nat \ {0} /\ MAX_HISTORY_MESSAGES \in Nat
    /\ CAPACITY \in Nat \ {0} /\ MaxFragments \in Nat /\ MaxCalls \in Nat
    /\ Histories \subseteq Seq(STRING)

VARIABLES
    chat,      \* the task: where it is, its kind, round, fragments said so far
    pending,   \* tool calls of the round by index: the call, and whether it is whole
    messages,  \* the context of the next request to the model
    channel,   \* sent and not yet taken
    reader     \* the response: what the client got, and whether it is still there

chatVars == <<chat, pending, messages, channel, reader>>

Sorry == 0

Message == [role : {"system", "user", "assistant", "tool"}, calls : Seq(ToolCalls),
            answers : 0..MaxCalls, result : {"none", "data", "error"}]

Says(role) == [role |-> role, calls |-> <<>>, answers |-> 0, result |-> "none"]

ChatTypeOK ==
    /\ chat \in [at : {"idle", "asks", "streams", "sends", "tools", "apologises", "ended"},
                 kind : {"ai", "mock"}, round : 0..(MAX_TOOL_ROUNDS - 1),
                 said : 0..MaxFragments]
    /\ pending \in Seq([call : ToolCalls, whole : BOOLEAN]) /\ Len(pending) <= MaxCalls
    /\ messages \in Seq(Message)
    /\ channel \in Seq(0..MaxFragments) /\ Len(channel) <= CAPACITY
    /\ reader \in [at : {"away", "reads", "done", "gone"}, got : Seq(0..MaxFragments)]

ChatInit ==
    /\ chat = [at |-> "idle", kind |-> "ai", round |-> 0, said |-> 0]
    /\ pending = <<>> /\ messages = <<>> /\ channel = <<>>
    /\ reader = [at |-> "away", got |-> <<>>]

-----------------------------------------------------------------------------
(* The task.                                                                *)

\* build_initial_messages: a role nobody knows is a user's.
InitialMessages(history) ==
    LET kept == SubSeq(history, Len(history) - MAX_HISTORY_MESSAGES + 1, Len(history))
        told == IF Len(history) > MAX_HISTORY_MESSAGES THEN kept ELSE history
    IN  <<Says("system")>> \o
          [k \in DOMAIN told |-> Says(IF told[k] = "assistant" THEN told[k] ELSE "user")]

\* chat: the task is spawned and the response begins.
ChatBegins ==
    /\ chat.at = "idle"
    /\ reader' = [reader EXCEPT !.at = "reads"]
    /\ \/ \E history \in Histories :
            /\ chat' = [chat EXCEPT !.at = "asks"]
            /\ messages' = InitialMessages(history)
       \/ /\ chat' = [chat EXCEPT !.at = "streams", !.kind = "mock"]
          /\ messages' = messages
    /\ UNCHANGED <<pending, channel>>

\* create_stream
ModelAnswers ==
    /\ chat.at = "asks"
    /\ chat' \in {[chat EXCEPT !.at = "streams"], [chat EXCEPT !.at = "apologises"]}
    /\ pending' = <<>>
    /\ UNCHANGED <<messages, channel, reader>>

\* A chunk with text, or the next word of the mock.
TextArrives ==
    /\ chat.at = "streams" /\ chat.said < MaxFragments
    /\ chat' = [chat EXCEPT !.at = "sends", !.said = @ + 1]
    /\ UNCHANGED <<pending, messages, channel, reader>>

\* A chunk with the first piece of a call, or with the rest of any call so far.
CallArrives ==
    /\ chat.at = "streams" /\ chat.kind = "ai"
    /\ \/ /\ Len(pending) < MaxCalls
          /\ \E call \in ToolCalls :
               pending' = Append(pending, [call |-> call, whole |-> FALSE])
       \/ \E index \in DOMAIN pending :
            /\ ~ pending[index].whole
            /\ pending' = [pending EXCEPT ![index].whole = TRUE]
    /\ UNCHANGED <<chat, messages, channel, reader>>

\* out.send: waits for room; the end of the task if nobody is there.
Sends ==
    /\ chat.at = "sends"
    /\ \/ /\ reader.at = "gone"
          /\ chat' = [chat EXCEPT !.at = "ended"]
          /\ channel' = channel
       \/ /\ reader.at # "gone" /\ Len(channel) < CAPACITY
          /\ chat' = [chat EXCEPT !.at = "streams"]
          /\ channel' = Append(channel, chat.said)
    /\ UNCHANGED <<pending, messages, reader>>

StreamBreaks ==
    /\ chat.at = "streams" /\ chat.kind = "ai"
    /\ chat' = [chat EXCEPT !.at = "apologises"]
    /\ UNCHANGED <<pending, messages, channel, reader>>

\* The end of the stream: that of the chat if there is no call.
StreamEnds ==
    /\ chat.at = "streams"
    /\ IF pending = <<>>
         THEN /\ chat' = [chat EXCEPT !.at = "ended"]
              /\ messages' = messages
         ELSE /\ chat' = [chat EXCEPT !.at = "tools"]
              /\ messages' = Append(messages,
                   [Says("assistant") EXCEPT !.calls =
                      [index \in DOMAIN pending |-> pending[index].call]])
    /\ UNCHANGED <<pending, channel, reader>>

\* execute_tool: an unknown tool and a missing argument are errors, as are cut
\* arguments; get_balances and get_prices answer what they can, the other two
\* fail with their handlers.
ToolResults(call, whole) ==
    CASE call.name = "get_prices" -> {"data"}
      [] call.name = "get_balances" /\ whole /\ call.args -> {"data"}
      [] call.name \in {"get_transaction_history", "get_fee_estimates"}
           /\ whole /\ call.args -> {"data", "error"}
      [] OTHER -> {"error"}

\* The calls of the round that are answered: the tool messages at the end.
AnsweredNow ==
    LET last == CHOOSE k \in DOMAIN messages :
                  /\ messages[k].role # "tool"
                  /\ \A i \in (k + 1)..Len(messages) : messages[i].role = "tool"
    IN  Len(messages) - last

\* Slip: a failing tool leaves no message.
AnswerIfData(index, result) ==
    IF result = "error" THEN messages
    ELSE Append(messages, [Says("tool") EXCEPT !.answers = index, !.result = result])

\* Executed: the tool message, an error as well.
Answer(index, result) ==
    Append(messages, [Says("tool") EXCEPT !.answers = index, !.result = result])

\* The next call, in the order of the indices; after the last one the next
\* round, if there is one left.
ExecutesTool ==
    LET index == AnsweredNow + 1
    IN  /\ chat.at = "tools"
        /\ \E result \in ToolResults(pending[index].call, pending[index].whole) :
             messages' = Answer(index, result)
        /\ chat' = IF index < Len(pending) THEN chat
                   ELSE IF chat.round + 1 < MAX_TOOL_ROUNDS
                     THEN [chat EXCEPT !.at = "asks", !.round = @ + 1]
                     ELSE [chat EXCEPT !.at = "ended"]
        /\ UNCHANGED <<pending, channel, reader>>

\* Slip: only the requests to the model are timed.
TimesOutAsking ==
    /\ chat.at = "asks"
    /\ chat' = [chat EXCEPT !.at = "apologises"]
    /\ UNCHANGED <<pending, messages, channel, reader>>

\* CHAT_TIMEOUT: the loop is dropped wherever it is.
TimesOut ==
    /\ chat.at \in {"asks", "streams", "sends", "tools"} /\ chat.kind = "ai"
    /\ chat' = [chat EXCEPT !.at = "apologises"]
    /\ UNCHANGED <<pending, messages, channel, reader>>

\* run, after an error or the timeout.
Apologises ==
    /\ chat.at = "apologises"
    /\ chat' = [chat EXCEPT !.at = "ended"]
    /\ \/ reader.at = "gone" /\ channel' = channel
       \/ reader.at # "gone" /\ Len(channel) < CAPACITY /\ channel' = Append(channel, Sorry)
    /\ UNCHANGED <<pending, messages, reader>>

-----------------------------------------------------------------------------
(* The response.                                                            *)

\* A delta.
ReaderTakes ==
    /\ reader.at = "reads" /\ channel # <<>>
    /\ reader' = [reader EXCEPT !.got = Append(@, Head(channel))]
    /\ channel' = Tail(channel)
    /\ UNCHANGED <<chat, pending, messages>>

\* done, once the channel is empty and its sender is gone.
ReaderIsDone ==
    /\ reader.at = "reads" /\ channel = <<>> /\ chat.at = "ended"
    /\ reader' = [reader EXCEPT !.at = "done"]
    /\ UNCHANGED <<chat, pending, messages, channel>>

\* The client hangs up.
ReaderLeaves ==
    /\ reader.at = "reads"
    /\ reader' = [reader EXCEPT !.at = "gone"]
    /\ channel' = <<>>
    /\ UNCHANGED <<chat, pending, messages>>

Reader == ReaderTakes \/ ReaderIsDone \/ ReaderLeaves

ChatNext ==
    \/ ChatBegins \/ ModelAnswers \/ TextArrives \/ CallArrives \/ Sends
    \/ StreamBreaks \/ StreamEnds \/ ExecutesTool \/ TimesOut \/ Apologises
    \/ Reader

ChatSpec == ChatInit /\ [][ChatNext]_chatVars

\* The timer fires, the mock goes on, what can be sent is sent, and a client
\* reads or hangs up.  The model and the tools owe nothing.
ChatFairness ==
    /\ WF_chatVars(TimesOut)
    /\ WF_chatVars(chat.kind = "mock" /\ (TextArrives \/ StreamEnds))
    /\ WF_chatVars(Sends) /\ WF_chatVars(Apologises) /\ WF_chatVars(Reader)

-----------------------------------------------------------------------------

\* Each call of a message is answered, in order, by the messages after it.
AllAnswered(msgs) ==
    \A k \in DOMAIN msgs : \A i \in DOMAIN msgs[k].calls :
      k + i \in DOMAIN msgs /\ msgs[k + i].role = "tool" /\ msgs[k + i].answers = i

\* And nothing is answered that was not called.
AnswersOnlyCalls(msgs) ==
    \A k \in DOMAIN msgs : msgs[k].role = "tool" =>
      \E asked \in DOMAIN msgs : /\ k = asked + msgs[k].answers
                               /\ msgs[k].answers \in DOMAIN msgs[asked].calls

OneSystemMessage(msgs) == \A k \in DOMAIN msgs : msgs[k].role = "system" <=> k = 1

\* Every request to the model answers each tool call of every earlier round,
\* once, in its order, and answers nothing else, whatever the tools did and
\* however the pieces of the calls were mixed; the only system message is the
\* server's (tool_loop, "assistant message with tool_calls - back into the
\* context"; build_initial_messages, "no system escalation").
CallsAreAnswered ==
    chat.at = "asks" =>
        AllAnswered(messages) /\ AnswersOnlyCalls(messages) /\ OneSystemMessage(messages)

\* The task ends, even if the model never does, if the client reads or hangs
\* up (CHAT_TIMEOUT, MAX_TOOL_ROUNDS).
ChatEnds == (chat.at # "idle") ~> (chat.at = "ended" /\ reader.at \in {"done", "gone"})
=============================================================================
