------------------------------- MODULE Providers -------------------------------
(***************************************************************************)
(* The clients of the providers (internal/llm).  Two ways lead to a model: *)
(* the handlers' (provider.go), which goes by the name of the model, and   *)
(* that of jobs (Call in client.go), which goes by the provider that the   *)
(* table of models gives.  Each translates the name in its own way.        *)
(*                                                                         *)
(* The name of a model is the sequence of its words.  Left out: the number *)
(* of tokens, the temperature, headers and the text of answers.            *)
(***************************************************************************)
EXTENDS Sequences, Functions

VARIABLE
  apiKeys      \* the providers whose key the environment held at the start

NewProvider(configured) == apiKeys = configured

\* What comes of a request: a list of texts or an empty one, an error in
\* JSON, which has a status other than OK, something else, or nothing at all.
Replies == {"texts", "empty list", "error", "not JSON", "lost"}

Got(at, model, text) == [ok |-> TRUE, at |-> at, model |-> model, text |-> text]
Refused == [ok |-> FALSE, at |-> "none", model |-> <<>>, text |-> FALSE]

IsAnthropicModel(model) == "claude" \in Range(model)

mapToOpenAIModel(model) == IF model = <<"gpt", "3.5", "turbo">> THEN model ELSE <<"gpt", "4o", "mini">>

mapToAnthropicModel(model) ==
  CASE "opus" \in Range(model) -> <<"claude", "opus", "4", "8">>
    [] "opus" \notin Range(model) /\ "haiku" \in Range(model) -> <<"claude", "haiku", "4", "5">>
    [] OTHER -> <<"claude", "sonnet", "5">>

\* Complete of either client: an empty list is an empty answer.
OpenAIComplete(model, reply) ==
  IF reply \in {"texts", "empty list"} THEN Got("openai", mapToOpenAIModel(model), reply = "texts") ELSE Refused

AnthropicComplete(model, reply) ==
  IF reply \in {"texts", "empty list"} THEN Got("anthropic", mapToAnthropicModel(model), reply = "texts") ELSE Refused

\* The client for a model, as Complete and ChatStreamComplete choose it.
ClientFor(model) ==
  CASE IsAnthropicModel(model) /\ "anthropic" \in apiKeys -> "anthropic"
    [] ~IsAnthropicModel(model) /\ "openai" \in apiKeys   -> "openai"
    [] OTHER -> "none"

\* Whatever the name, to a provider that is there.
CompleteAnywhere(model, reply) ==
  IF "openai" \in apiKeys THEN OpenAIComplete(model, reply) ELSE AnthropicComplete(model, reply)

Complete(model, reply) ==
  CASE ClientFor(model) = "anthropic" -> AnthropicComplete(model, reply)
    [] ClientFor(model) = "openai"    -> OpenAIComplete(model, reply)
    [] ClientFor(model) = "none"      -> Refused

-----------------------------------------------------------------------------
\* The names that Call translates for Anthropic; others stay as they are.
anthropicModelMap ==
  [m \in {<<"claude", "3", "opus">>, <<"claude", "3", "haiku">>, <<"claude", "3", "sonnet">>,
          <<"claude", "3", "5", "sonnet">>, <<"claude", "3", "5", "haiku">>} |->
     CASE "opus" \in Range(m)   -> <<"claude", "opus", "4", "6">>
       [] "sonnet" \in Range(m) -> <<"claude", "sonnet", "4", "6">>
       [] "haiku" \in Range(m)  -> <<"claude", "haiku", "4", "5", "20251001">>]

\* Here an empty list is an error, and the status is not looked at.
callOpenAICompat(at, model, reply) == IF reply = "texts" THEN Got(at, model, TRUE) ELSE Refused

callAnthropic(model, reply) ==
  IF "anthropic" \notin apiKeys \/ reply # "texts" THEN Refused
  ELSE Got("anthropic", IF model \in DOMAIN anthropicModelMap THEN anthropicModelMap[model] ELSE model, TRUE)

Call(provider, model, reply) ==
  CASE provider = "openai"    -> callOpenAICompat("openai", model, IF "openai" \in apiKeys THEN reply ELSE "error")
    [] provider = "local"     -> callOpenAICompat("local", model, reply)
    [] provider = "anthropic" -> callAnthropic(model, reply)
    [] OTHER -> Refused
================================================================================
