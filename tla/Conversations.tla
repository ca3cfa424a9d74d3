------------------------------ MODULE Conversations ------------------------------
(***************************************************************************)
(* One conversation (internal/api/chat_handlers.go over the chat           *)
(* repository, internal/database/chat_repository.go, and the SSE writer,   *)
(* internal/streaming/sse_handler.go).  Several handlers may send to it at *)
(* once; each is a sequence of statements.  A client may go away at any    *)
(* time; a write to it may fail from then on.                              *)
(*                                                                         *)
(* A message is its role, the handler's call that it belongs to, and its   *)
(* created_at: a handler takes the time before it inserts the message, and *)
(* messages are read in the order of these times, which need not be the    *)
(* order in which they were stored.  The clock never goes back; handlers   *)
(* may take the same time, but what one of them does takes a while.        *)
(* Deleting a conversation marks its row; messages stay, and more may come.*)
(* Left out: texts, token counts and costs (which this code leaves at      *)
(* zero), the number of messages that a row counts beyond the first, the   *)
(* model that a conversation remembers (a question may ask for any), and   *)
(* the list of conversations.                                              *)
(***************************************************************************)
EXTENDS Integers, SequencesExt, FiniteSets, Providers

CONSTANTS
  Senders,
  ChatModels,    \* models that a message may ask for
  Tokens,        \* tokens of an answer
  Buffer,        \* capacity of the channel they come through, 10
  MaxSends       \* bound: messages that are sent

ASSUME ConversationParameters == Tokens \in Nat /\ Buffer \in Nat \ {0} /\ MaxSends \in Nat

VARIABLES
  row,         \* the conversation: [there, title, empty]; empty: it counts no message
  messages,    \* its messages
  latest,      \* the latest time that was taken
  send,        \* what each handler is at
  sends        \* calls so far

chatVars == <<row, messages, latest, send, sends>>

\* at: the time that its next or latest message has; left: tokens that are
\* still to come; queued: those in the channel.
NoSend == [pc |-> "idle", call |-> 0, first |-> FALSE, at |-> 0, history |-> <<>>, prompt |-> <<>>,
           left |-> 0, queued |-> 0]

\* CreateConversationHandler.
NewConversation ==
  /\ row = [there |-> TRUE, title |-> "New Chat", empty |-> TRUE]
  /\ messages = {} /\ latest = 0
  /\ send = [s \in Senders |-> NoSend]
  /\ sends = 0

AtSend(s, pc) == send[s].pc = pc
Next0(s, pc) == send' = [send EXCEPT ![s].pc = pc]
Finish(s) == send' = [send EXCEPT ![s] = NoSend]

-----------------------------------------------------------------------------
(* ChatSendHandler.                                                        *)

\* GetConversation reads the row, and then the messages.
LoadRow(s) ==
  /\ AtSend(s, "idle") /\ sends < MaxSends /\ row.there
  /\ sends' = sends + 1
  /\ send' = [send EXCEPT ![s] = [NoSend EXCEPT !.pc = "loadMessages", !.call = sends + 1, !.first = row.empty]]
  /\ UNCHANGED <<row, messages, latest>>

\* ORDER BY created_at: the same times come in any order.
InOrder(T) ==
  {h \in [1..Cardinality(T) -> T] : /\ IsInjective(h) /\ Range(h) = T
                                   /\ \A i, j \in DOMAIN h : i < j => h[i].at <= h[j].at}

LoadMessages(s) ==
  /\ AtSend(s, "loadMessages")
  /\ \/ \E h \in InOrder(messages) : send' = [send EXCEPT ![s].pc = "stampUser", ![s].history = h]
     \/ Finish(s)
  /\ UNCHANGED <<row, messages, latest, sends>>

\* gorm takes the time of a message, and then inserts it.
Stamp(s, from, to) ==
  /\ AtSend(s, from)
  /\ \E now \in {latest, latest + 1} :
       now > send[s].at /\ latest' = now /\ send' = [send EXCEPT ![s].pc = to, ![s].at = now]
  /\ UNCHANGED <<row, messages, sends>>

StampUser(s) == Stamp(s, "stampUser", "saveUser")

StampAssistant(s) == Stamp(s, "stampAssistant", "saveAssistant")

Question(s) == [role |-> "user", call |-> send[s].call, at |-> send[s].at]

Answer(s) == [role |-> "assistant", call |-> send[s].call, at |-> send[s].at]

\* AddMessage, its first statement: the row is there for it, deleted or not.
Insert(message) == messages' = messages \cup {message}

SaveUser(s) ==
  /\ AtSend(s, "saveUser")
  /\ \/ Insert(Question(s)) /\ Next0(s, "countUser")
     \/ Finish(s) /\ UNCHANGED messages
  /\ UNCHANGED <<row, latest, sends>>

\* Its second statement raises the counter in the database, which a deleted
\* row ignores; a failure ends the handler, and leaves the message.
Counted == row' = IF row.there THEN [row EXCEPT !.empty = FALSE] ELSE row

CountUser(s) ==
  /\ AtSend(s, "countUser")
  /\ \/ Counted /\ Next0(s, "prompt")
     \/ Finish(s) /\ UNCHANGED row
  /\ UNCHANGED <<messages, latest, sends>>

\* A prompt of the messages as they are by now.
PromptReloaded(s) == Append(CHOOSE h \in InOrder(messages) : TRUE, Question(s))

\* The history as it was loaded, and the new message.
Prompt(s) == Append(send[s].history, Question(s))

\* ChatStreamComplete of the provider, which refuses a model that it has no
\* client for; without any client, a goroutine simulates the tokens.
Ask(s) ==
  /\ AtSend(s, "prompt")
  /\ \E m \in ChatModels :
       LET pc == CASE apiKeys = {} -> "simulation" [] apiKeys # {} -> ClientFor(m)
       IN send' = [send EXCEPT ![s].pc = pc, ![s].prompt = Prompt(s), ![s].left = Tokens]
  /\ UNCHANGED <<row, messages, latest, sends>>

\* WriteSSE: what a client that is gone does to the handler depends on when
\* the network notices.
Wrote(s) == send' = [send EXCEPT ![s].left = @ - 1]

\* The provider refuses, or a write fails: an error and "done" are written if
\* that is possible, and nothing is saved.
GiveUp(s) ==
  /\ AtSend(s, "none") \/ AtSend(s, "openai") \/ AtSend(s, "anthropic")
  /\ Finish(s)
  /\ UNCHANGED <<row, messages, latest, sends>>

\* The answer is complete; the prompt is forgotten.
Completed(s) ==
  send' = [send EXCEPT ![s] = [@ EXCEPT !.pc = "stampAssistant", !.history = <<>>, !.prompt = <<>>, !.left = 0]]

\* StreamComplete of OpenAI: lines without a token are skipped; "[DONE]" ends
\* it, and so does the end of the body, by whatever it comes: what has come
\* through when the connection breaks is an answer.
OpenAIStream(s) ==
  /\ AtSend(s, "openai")
  /\ \/ send[s].left > 0 /\ Wrote(s)
     \/ Completed(s)
  /\ UNCHANGED <<row, messages, latest, sends>>

\* ChatStreamComplete of Anthropic: only the end of the body ends it.
AnthropicStream(s) ==
  /\ AtSend(s, "anthropic")
  /\ \/ send[s].left > 0 /\ Wrote(s)
     \/ Completed(s)
  /\ UNCHANGED <<row, messages, latest, sends>>

\* SimulateTokenStream sends as long as the channel has room.
Produce(s) ==
  /\ AtSend(s, "simulation") /\ send[s].left > 0 /\ send[s].queued < Buffer
  /\ send' = [send EXCEPT ![s].left = @ - 1, ![s].queued = @ + 1]
  /\ UNCHANGED <<row, messages, latest, sends>>

\* WriteToken; when it fails, the handler returns without saving what it has,
\* and leaves the producer to its channel.
WriteToken(s) ==
  /\ AtSend(s, "simulation") /\ send[s].queued > 0
  /\ \/ send' = [send EXCEPT ![s].queued = @ - 1]
     \/ Finish(s)
  /\ UNCHANGED <<row, messages, latest, sends>>

SimulationEnds(s) ==
  /\ AtSend(s, "simulation") /\ send[s].left = 0 /\ send[s].queued = 0
  /\ Completed(s)
  /\ UNCHANGED <<row, messages, latest, sends>>

\* Nobody looks at the outcome of this AddMessage.
SaveAssistant(s) ==
  /\ AtSend(s, "saveAssistant")
  /\ \/ Insert(Answer(s)) /\ Next0(s, "countAssistant")
     \/ UNCHANGED messages /\ Next0(s, "title")
  /\ UNCHANGED <<row, latest, sends>>

CountAssistant(s) ==
  /\ AtSend(s, "countAssistant")
  /\ Counted \/ UNCHANGED row
  /\ Next0(s, "title")
  /\ UNCHANGED <<messages, latest, sends>>

\* The first exchange names the conversation, whatever it is called by now.
AutoTitle(s) ==
  /\ AtSend(s, "title")
  /\ \/ send[s].first /\ row' = IF row.there THEN [row EXCEPT !.title = "message"] ELSE row
     \/ UNCHANGED row
  /\ Finish(s)
  /\ UNCHANGED <<messages, latest, sends>>

-----------------------------------------------------------------------------
\* RenameConversationHandler.
Rename ==
  /\ row.there /\ row.title # "renamed"
  /\ row' = [row EXCEPT !.title = "renamed"]
  /\ UNCHANGED <<messages, latest, send, sends>>

\* DeleteConversationHandler sets deleted_at of the row: later reads and
\* updates do not find it.
Delete ==
  /\ row.there
  /\ row' = [row EXCEPT !.there = FALSE]
  /\ UNCHANGED <<messages, latest, send, sends>>

SendSteps(s) == \/ LoadRow(s) \/ LoadMessages(s) \/ StampUser(s) \/ SaveUser(s) \/ CountUser(s) \/ Ask(s)
                \/ StampAssistant(s) \/ SaveAssistant(s) \/ CountAssistant(s) \/ AutoTitle(s)
StreamSteps(s) == \/ GiveUp(s) \/ OpenAIStream(s) \/ AnthropicStream(s) \/ Produce(s) \/ WriteToken(s) \/ SimulationEnds(s)

ChatNext == (\E s \in Senders : SendSteps(s) \/ StreamSteps(s)) \/ Rename \/ Delete

ChatSpec ==
  /\ NewConversation /\ \E configured \in SUBSET {"openai", "anthropic"} : NewProvider(configured)
  /\ [][ChatNext /\ UNCHANGED apiKeys]_<<chatVars, apiKeys>>

-----------------------------------------------------------------------------
\* A message of sequence p, and the question that it answers before it.
AnswersFollow(p) ==
  \A i \in DOMAIN p : p[i].role = "assistant" =>
    \E j \in 1..(i - 1) : p[j].role = "user" /\ p[j].call = p[i].call

\* However many send at once, and in whatever order their messages are
\* stored, a model is asked each question once: in a prompt the new message
\* is the last and nothing before it is of the same call, no message comes
\* twice, and every answer comes after its question; of what is stored, too,
\* every answer has its question, at an earlier time (chat_handlers.go:215,
\* 232, chat_repository.go:28).
AskedOnce ==
  /\ \A s \in Senders : send[s].pc \in {"openai", "anthropic", "simulation"} =>
       LET p == send[s].prompt
       IN /\ p # <<>> /\ Last(p) = Question(s)
          /\ \A i \in DOMAIN Front(p) : p[i].call # send[s].call
          /\ IsInjective(p) /\ AnswersFollow(p)
  /\ \A a \in messages : a.role = "assistant" =>
       \E q \in messages : q.role = "user" /\ q.call = a.call /\ q.at < a.at
==================================================================================
