-------------------------------- MODULE ModelChain --------------------------------
(***************************************************************************)
(* Orchestration of several models: a chain of steps, each of which works  *)
(* on what the one before it made (internal/router/model_chain.go), models *)
(* that run in parallel and whose outputs are composed                     *)
(* (model_composition.go); both as orchestration.go calls them.            *)
(*                                                                         *)
(* A text is the sequence of what made it: a positive number is the model  *)
(* of that step, zero the caller's input, -1 what a transformation added.  *)
(* A model, reached through the interface ChainExecutor, answers with a    *)
(* text of its own, or fails with an empty one.  Left out: statistics,     *)
(* which are not locked.                                                   *)
(***************************************************************************)
EXTENDS Integers, SequencesExt, FiniteSets

CONSTANTS
  MaxSteps,     \* bound: steps of the chain
  Parallel,     \* models that ExecuteParallel runs
  Outputs       \* texts they may answer with

ASSUME ModelChainParameters ==
  /\ MaxSteps \in Nat /\ Parallel \in Nat \ {0} /\ Outputs \subseteq Seq(Int)

\* The transformations and conditions of model_chain.go: a prefix or suffix,
\* the previous result, a template with nothing but the previous result; and
\* that the previous step succeeded.
ChainStep == [transform : {"none", "suffix", "previous", "template"},
              condition : {"none", "previousSucceeded"},
              optional  : BOOLEAN]

VARIABLES
  steps,      \* of the registered chain
  chain       \* its execution: [status, todo, input, results, output]
chainVars == <<steps, chain>>

NoChain ==
  /\ steps = <<>>
  /\ chain = [status |-> "none", todo |-> <<>>, input |-> <<>>, results |-> <<>>, output |-> <<>>]

AddStep(step) == Len(steps) < MaxSteps /\ steps' = Append(steps, step) /\ UNCHANGED chain

\* ExecuteChain and Execute, up to the loop, which ranges over the steps
\* that there are now.
ExecuteChain ==
  /\ chain.status # "runs"
  /\ chain' = [status |-> "runs", todo |-> steps, input |-> <<0>>, results |-> <<>>, output |-> <<>>]
  /\ UNCHANGED steps

Next1 == Len(chain.results) + 1
Step == chain.todo[Next1]
Previous == chain.results[Len(chain.results)]

\* What the condition is told; and what the transformation is given.
PreviousSucceeded == chain.results # <<>> => Previous.status = "ok"
PreviousResult == IF chain.results = <<>> \/ Previous.status = "skipped" THEN <<>> ELSE Previous.output

Transformed ==
  CASE Step.transform = "none"     -> chain.input
    [] Step.transform = "suffix"   -> Append(chain.input, -1)
    [] Step.transform = "previous" -> IF PreviousResult = <<>> THEN chain.input ELSE PreviousResult
    [] Step.transform = "template" -> PreviousResult

Result(status, input, output) == [status |-> status, input |-> input, output |-> output]

\* The positions of the results without an error.
Succeeded(rs) == {i \in DOMAIN rs : rs[i].status = "ok"}

Runs == chain.status = "runs" /\ Next1 <= Len(chain.todo)
Holds == Step.condition = "previousSucceeded" => PreviousSucceeded

SkipStep ==
  /\ Runs /\ ~Holds
  /\ chain' = [chain EXCEPT !.results = Append(@, Result("skipped", chain.input, <<>>))]
  /\ UNCHANGED steps

StepSucceeds ==
  /\ Runs /\ Holds
  /\ LET out == Append(Transformed, Next1)
     IN chain' = [chain EXCEPT !.input = out, !.results = Append(@, Result("ok", Transformed, out))]
  /\ UNCHANGED steps

\* A failed step whose empty output is carried on.
StepFailsCarried ==
  /\ Runs /\ Holds
  /\ chain' = [chain EXCEPT !.input = <<>>,
                            !.results = Append(@, Result("failed", Transformed, <<>>)),
                            !.status = IF Step.optional THEN @ ELSE "aborted"]
  /\ UNCHANGED steps

\* The transformed input stays for the next step.
StepFails ==
  /\ Runs /\ Holds
  /\ chain' = [chain EXCEPT !.input = Transformed,
                            !.results = Append(@, Result("failed", Transformed, <<>>)),
                            !.status = IF Step.optional THEN @ ELSE "aborted"]
  /\ UNCHANGED steps

\* The answer is the output of the last step that succeeded.
FinishChain ==
  /\ chain.status = "runs" /\ Next1 > Len(chain.todo)
  /\ LET ok == Succeeded(chain.results)
     IN chain' = [chain EXCEPT !.status = "done", !.output = IF ok = {} THEN <<>> ELSE chain.results[Max(ok)].output]
  /\ UNCHANGED steps

ChainNext ==
  \/ \E step \in ChainStep : AddStep(step)
  \/ ExecuteChain \/ SkipStep \/ StepSucceeds \/ StepFails \/ FinishChain

-----------------------------------------------------------------------------
(* ExecuteParallel, and the strategies by which the answers are composed.  *)
(* It gives every answer the score 1.0.                                    *)

VARIABLES
  answers,     \* by position: pending, failed, or ok with an output
  composed     \* the strategy and the outcome of Compose, once it has run
parallelVars == <<answers, composed>>

Pending == Result("pending", <<0>>, <<>>)
NotComposed == [strategy |-> "none", status |-> "none", output |-> <<>>]
NothingParallel == answers = [i \in 1..Parallel |-> Pending] /\ composed = NotComposed

\* The goroutines end in any order.
ModelEnds(i) ==
  /\ answers[i] = Pending
  /\ \E r \in {Result("failed", <<0>>, <<>>)} \cup {Result("ok", <<0>>, o) : o \in Outputs} :
       answers' = [answers EXCEPT ![i] = r]
  /\ UNCHANGED composed

\* Those of them that are not empty, what they say, and how many say it.
Useful(rs) == {i \in Succeeded(rs) : rs[i].output # <<>>}
Said(rs) == {rs[i].output : i \in Useful(rs)}
Votes(rs, o) == Cardinality({i \in Useful(rs) : rs[i].output = o})

\* The first of some positions, as a set: none if there are none.
Foremost(S) == {i \in S : \A j \in S : i <= j}

\* The average strategy: the first of those that are nearest to the mean of the
\* lengths, which is rounded down.
TotalLength(rs) ==
  LET total[k \in 0..Len(rs)] ==
        IF k = 0 THEN 0 ELSE total[k - 1] + IF k \in Useful(rs) THEN Len(rs[k].output) ELSE 0
  IN total[Len(rs)]

Nearest(rs) ==
  LET mean == TotalLength(rs) \div Cardinality(Useful(rs))
      off(i) == IF Len(rs[i].output) < mean THEN mean - Len(rs[i].output) ELSE Len(rs[i].output) - mean
  IN Foremost({i \in Useful(rs) : \A j \in Useful(rs) : off(i) <= off(j)})

Strategies == {"first_successful", "best_score", "majority_vote", "concatenate", "average", "weighted_average"}

\* The outcomes of a strategy, none if it fails.  A majority is taken in the
\* order of a map, so that a tie may go either way; all scores being equal,
\* a best one is the first, and best_score alone takes an empty output.
Compositions(s, rs) ==
  CASE s \in {"first_successful", "weighted_average"} -> {rs[i].output : i \in Foremost(Useful(rs))}
    [] s = "best_score"    -> {rs[i].output : i \in Foremost(Succeeded(rs))}
    [] s = "majority_vote" -> {o \in Said(rs) : \A x \in Said(rs) : Votes(rs, x) <= Votes(rs, o)}
    [] s = "concatenate"   -> IF Useful(rs) = {} THEN {}
                              ELSE {FlattenSeq([i \in DOMAIN rs |-> IF i \in Useful(rs) THEN rs[i].output ELSE <<>>])}
    [] s = "average"       -> {rs[i].output : i \in Nearest(rs)}

\* Compose, after wg.Wait.
Compose(s) ==
  /\ composed = NotComposed /\ \A i \in DOMAIN answers : answers[i] # Pending
  /\ IF Compositions(s, answers) = {}
     THEN composed' = [strategy |-> s, status |-> "failed", output |-> <<>>]
     ELSE \E o \in Compositions(s, answers) : composed' = [strategy |-> s, status |-> "ok", output |-> o]
  /\ UNCHANGED answers

\* The next request.
ExecuteParallel ==
  /\ composed # NotComposed
  /\ answers' = [i \in 1..Parallel |-> Pending] /\ composed' = NotComposed

ParallelNext ==
  \/ \E i \in 1..Parallel : ModelEnds(i)
  \/ \E s \in Strategies : Compose(s)
  \/ ExecuteParallel

\* A chain and models in parallel, side by side; they share nothing.
OrchestrationSpec ==
  NoChain /\ NothingParallel /\ [][ChainNext]_chainVars /\ [][ParallelNext]_parallelVars

-----------------------------------------------------------------------------
(* Properties.                                                             *)

\* The steps that succeeded among the first n; a text in which there is the work
\* of some steps and of no others, each once and in their order.
Successes(n) == {i \in 1..n : chain.results[i].status = "ok"}
HasWorkOf(text, done) ==
  /\ {w \in Range(text) : w > 0} = done
  /\ \A p, r \in DOMAIN text : p < r /\ text[p] > 0 /\ text[r] > 0 => text[p] < text[r]

\* A template of the previous result alone has nothing to work on after a
\* step that was skipped or failed.
TemplateLoses(n) ==
  \E i \in 2..n : /\ chain.todo[i].transform = "template" /\ chain.results[i].status # "skipped"
                  /\ chain.results[i - 1].status # "ok"

\* What a step is given is the work of all those that succeeded before it,
\* each once and in their order, whatever was skipped or failed in between
\* and however its input was transformed; the answer of the chain is the
\* work of all that succeeded (model_chain.go:127, 142, 168).
ChainCarriesWork ==
  /\ \A k \in DOMAIN chain.results :
       ~TemplateLoses(k) => HasWorkOf(chain.results[k].input, Successes(k - 1))
  /\ chain.status = "done" /\ ~TemplateLoses(Len(chain.results)) =>
       HasWorkOf(chain.output, Successes(Len(chain.results)))

\* In whatever order the models answer, a composition fails only if none has
\* anything to say, otherwise says what one of them said, so that it agrees
\* with them if they agree; and what more than half say wins a vote
\* (model_composition.go:143-321).
CompositionAnswers ==
  composed.strategy \in Strategies \ {"best_score"} =>
    /\ composed.status = "failed" <=> Useful(answers) = {}
    /\ (composed.strategy # "concatenate" /\ composed.status = "ok") => composed.output \in Said(answers)
    /\ composed.strategy = "majority_vote" =>
         \A o \in Said(answers) : Votes(answers, o) * 2 > Cardinality(Useful(answers)) => composed.output = o

\* A chain loses no step's work and a composition no model's.
OrchestrationCarries == ChainCarriesWork /\ CompositionAnswers
===================================================================================
