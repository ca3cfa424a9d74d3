------------------------------- MODULE Completions -------------------------------
(***************************************************************************)
(* Completions with a cache for a day (internal/api/completion_handlers.go *)
(* and processJob of internal/worker/worker.go, over internal/llm).  Two   *)
(* kinds of actors answer prompts: handlers, which fall back to a          *)
(* simulated answer when the provider fails, and job workers, which then   *)
(* report an error.  They share the cache and the collector of metrics.    *)
(*                                                                         *)
(* The key of an answer is its model and its prompt: the temperature and   *)
(* the number of tokens that were asked for are not in it.  Left out:      *)
(* those two, token counts (an answer costs the price of its model), the   *)
(* text of answers, and the rows that are logged in the database.          *)
(***************************************************************************)
EXTENDS Metrics, Providers

CONSTANTS
  Prompts,
  Price,          \* CostPerToken of each model
  ProviderOf,     \* and its provider, both in the table of models
  Handlers, Workers,
  MaxRequests     \* bound: requests that are begun, and errors recorded without one

\* The table of models is the one that Seed fills, and Claude's are the models
\* of Anthropic in it (database/seed.go:12-61).
ASSUME CompletionParameters ==
  /\ Price \in [Models -> Nat]
  /\ ProviderOf \in [Models -> STRING]
  /\ \A m \in Models : ProviderOf[m] = "anthropic" <=> IsAnthropicModel(m)
  /\ Handlers \cap Workers = {}
  /\ MaxRequests \in Nat

VARIABLES
  answerOf,    \* what Redis holds: [Keys -> answer or NoAnswer]
  work,        \* what each actor is at
  given,       \* the answer that each actor gave last
  books,
  asked        \* requests so far

completionVars == <<answerOf, work, given, books, asked>>

Actors == Handlers \cup Workers
NoAnswer == [prompt |-> "none", model |-> <<>>, from |-> Refused]
Free == [pc |-> "free", prompt |-> "none", model |-> <<>>, caches |-> FALSE, answer |-> NoAnswer, id |-> 0]

\* A key that forgets the model.
KeyOfPrompt(prompt, model) == <<prompt>>

\* GenerateKey.
GenerateKey(prompt, model) == <<model, prompt>>

AllKeys == {GenerateKey(p, m) : p \in Prompts, m \in Models}

NoCompletions ==
  /\ answerOf = [k \in AllKeys |-> NoAnswer]
  /\ work = [a \in Actors |-> Free]
  /\ given = [a \in Actors |-> Free]
  /\ books = EmptyBooks
  /\ asked = 0

Key(a) == GenerateKey(work[a].prompt, work[a].model)
At(a, pc) == work[a].pc = pc
Give(a, w) == given' = [given EXCEPT ![a] = w] /\ work' = [work EXCEPT ![a] = Free]
Book(a, cost, success) == RecordRequest(books, work[a].model, work[a].id, cost, success)
Entry(a, status) == [id |-> work[a].id, model |-> work[a].model, status |-> status]

\* RouteWithModel or Route: a handler takes the model that it is given, or
\* like a job the one that the router finds.
Routed(a, p, m, caches) ==
  /\ At(a, "free") /\ asked < MaxRequests
  /\ asked' = asked + 1
  /\ work' = [work EXCEPT ![a] =
                [Free EXCEPT !.pc = IF caches THEN "lookUp" ELSE "ask",
                             !.prompt = p, !.model = m, !.caches = caches, !.id = asked + 1]]
  /\ UNCHANGED <<answerOf, given, books>>

\* No model: a handler answers with an error, a job is booked as well.
NotRouted(w) ==
  /\ w \in Workers /\ At(w, "free") /\ asked < MaxRequests
  /\ asked' = asked + 1
  /\ books' = RecordRequest(books, Unknown, asked + 1, 0, FALSE)
  /\ UNCHANGED <<answerOf, work, given>>

\* A hit costs nothing; only handlers write the detailed log.
Hit(a) ==
  /\ At(a, "lookUp") /\ answerOf[Key(a)] # NoAnswer
  /\ books' = IF a \in Handlers THEN RecordDetailedRequest(Book(a, 0, TRUE), Entry(a, "cache_hit")) ELSE Book(a, 0, TRUE)
  /\ Give(a, [work[a] EXCEPT !.pc = "hit", !.answer = answerOf[Key(a)]])
  /\ UNCHANGED <<answerOf, asked>>

\* Nothing is there, or Redis does not answer.
MissCompletion(a) ==
  /\ At(a, "lookUp")
  /\ work' = [work EXCEPT ![a].pc = "ask"]
  /\ UNCHANGED <<answerOf, given, books, asked>>

AnswerFrom(a, from) == [prompt |-> work[a].prompt, model |-> work[a].model, from |-> from]
Answered(a, from) == work' = [work EXCEPT ![a].pc = IF work[a].caches THEN "save" ELSE "give", ![a].answer = AnswerFrom(a, from)]

Simulated == Got("handler", <<>>, TRUE)

\* The provider answers, or the handler simulates an answer; either is
\* booked with the price of the model before it is cached.
HandlerAsks(h) ==
  /\ h \in Handlers /\ At(h, "ask")
  /\ \E reply \in Replies :
       LET result == Complete(work[h].model, reply)
       IN Answered(h, IF result.ok THEN result ELSE Simulated)
  /\ books' = RecordDetailedRequest(Book(h, Price[work[h].model], TRUE), Entry(h, "completed"))
  /\ UNCHANGED <<answerOf, given, asked>>

\* What Call comes to for this job, with some reply.
Results(w) == {Call(ProviderOf[work[w].model], work[w].model, reply) : reply \in Replies}

JobAsks(w) ==
  /\ w \in Workers /\ At(w, "ask")
  /\ \E result \in Results(w) : result.ok /\ Answered(w, result)
  /\ UNCHANGED <<answerOf, given, books, asked>>

JobFails(w) ==
  /\ w \in Workers /\ At(w, "ask") /\ Refused \in Results(w)
  /\ books' = Book(w, 0, FALSE)
  /\ work' = [work EXCEPT ![w] = Free]
  /\ UNCHANGED <<answerOf, given, asked>>

\* cacheService.Set for a day; an error is logged and nothing else.
SaveAnswer(a) ==
  /\ At(a, "save")
  /\ answerOf' \in {answerOf, [answerOf EXCEPT ![Key(a)] = work[a].answer]}
  /\ work' = [work EXCEPT ![a].pc = "give"]
  /\ UNCHANGED <<given, books, asked>>

\* A job is booked last.
GiveAnswer(a) ==
  /\ At(a, "give")
  /\ books' = IF a \in Workers THEN Book(a, Price[work[a].model], TRUE) ELSE books
  /\ Give(a, work[a])
  /\ UNCHANGED <<answerOf, asked>>

DayPasses(k) ==
  /\ answerOf[k] # NoAnswer
  /\ answerOf' = [answerOf EXCEPT ![k] = NoAnswer]
  /\ UNCHANGED <<work, given, books, asked>>

\* RecordError is for whoever wants it; nothing in the repository calls it.
ErrorRecorded(type) ==
  /\ asked < MaxRequests
  /\ asked' = asked + 1
  /\ books' = RecordError(books, type)
  /\ UNCHANGED <<answerOf, work, given>>

\* ResetMetricsHandler.
Reset ==
  /\ books # EmptyBooks
  /\ books' = EmptyBooks
  /\ UNCHANGED <<answerOf, work, given, asked>>

CompletionsNext ==
  \/ \E a \in Actors :
       \/ \E p \in Prompts, m \in Models, c \in BOOLEAN : Routed(a, p, m, c)
       \/ NotRouted(a) \/ Hit(a) \/ MissCompletion(a)
       \/ HandlerAsks(a) \/ JobAsks(a) \/ JobFails(a)
       \/ SaveAnswer(a) \/ GiveAnswer(a)
  \/ \E k \in AllKeys : DayPasses(k)
  \/ \E t \in ErrorTypes : ErrorRecorded(t)
  \/ Reset

\* The environment is read once.
CompletionsSpec ==
  /\ NoCompletions /\ \E configured \in SUBSET {"openai", "anthropic"} : NewProvider(configured)
  /\ [][CompletionsNext /\ UNCHANGED apiKeys]_<<completionVars, apiKeys>>

-----------------------------------------------------------------------------
(* Properties.                                                             *)

\* Whoever stored it and whoever reads it, an answer fits its question: it
\* was made for this prompt and this model; a Claude model was asked at
\* Anthropic and only there; and a job, which never makes an answer up, has
\* a made-up one, or one of an empty list, only from a handler's cache
\* (completion_handlers.go:176, 225; provider.go:20).
AnswersFit ==
  \A a \in Actors :
    LET answer == given[a].answer
    IN given[a].pc # "free" =>
         /\ answer.prompt = given[a].prompt /\ answer.model = given[a].model
         /\ IsAnthropicModel(answer.model) => answer.from = Simulated \/ answer.from.at = "anthropic"
         /\ answer.from.at # "anthropic" \/ IsAnthropicModel(answer.model)
         /\ given[a].pc # "hit" /\ a \in Workers => answer.from.text /\ answer.from # Simulated

\* The books agree with themselves through trimming and Reset: the totals are
\* the sums over the models, and for the costs over the providers too, with
\* the models that have none; errors are failures and what was recorded apart;
\* the position in the three arrays, by which GetTimeSeries joins them, is one
\* request, for which it shows no error; and the percentiles are in order
\* (collector.go:143, 224, 320, 368, 378).
BooksAgree == Agree(books)
==================================================================================
