------------------------------ MODULE ModelRouter ------------------------------
(***************************************************************************)
(* Requests going through the router: Route picks a model, and             *)
(* RouteWithFallback then calls it and its fallbacks, each with retries    *)
(* and through the model's circuit breaker (internal/router: router.go,    *)
(* algorithms.go, fallback.go, retry.go, circuit_breaker.go).              *)
(*                                                                         *)
(* Every step is what a request does between two looks at shared state:    *)
(* the database, a breaker under its lock, the round-robin index under     *)
(* its lock.  The scores of models are abstracted: the scoring algorithms  *)
(* may pick any model they are given, depending on the prompt.  Left out:  *)
(* the router's statistics, and the length of the back-off.                *)
(***************************************************************************)
EXTENDS CircuitBreaker, Sequences, FiniteSets, SequencesExt

CONSTANTS
  ModelList,    \* the models in the order of their names, as queries list them
  Tier,         \* by cost: "premium", "mid" or "budget"
  Remote,       \* those of them that the health checker marks up and down
  Requests,
  MaxAttempts,  \* config.MaxRetries
  Resetting     \* ResetAll may be called

Models == ToSet(ModelList)

ASSUME RouterParameters ==
  /\ ModelList \in Seq(Models) \ {<<>>} /\ IsInjective(ModelList) /\ Remote \in SUBSET Models
  /\ Tier \in [Models -> {"premium", "mid", "budget"}]
  /\ MaxAttempts \in Nat \ {0} /\ Resetting \in BOOLEAN

VARIABLES
  available,  \* the column of that name in the database
  breaker,    \* circuitBreakers
  algorithm,  \* r.algorithm: round-robin, or one that goes by scores
  index,      \* rr.currentIndex, counted from 0
  pc,         \* per request: where it is
  todo,       \* models that filterHealthyModels has still to look at
  models,     \* the healthy ones so far; later the fallback chain
  at,         \* the position in the chain of the model being tried
  attempt,    \* the attempt at that model
  cancelled   \* the request's context is done

localVars == <<todo, models, at, attempt>>
reqVars == <<pc, localVars, cancelled>>
vars == <<available, breaker, algorithm, index, reqVars>>

Algorithms == {"round-robin", "by-score"}
Ended == {"answered", "failed", "panicked"}
PcStates == {"new", "filter", "chain", "call", "calling", "backoff"} \cup Ended

RouterTypeOK ==
  /\ available \in SUBSET Models
  /\ breaker \in [Models -> Breakers]
  /\ algorithm \in Algorithms
  /\ index \in 0..Len(ModelList) - 1
  /\ pc \in [Requests -> PcStates]
  /\ todo \in [Requests -> Seq(Models)] /\ models \in [Requests -> Seq(Models)]
  /\ at \in [Requests -> Nat]
  /\ attempt \in [Requests -> 0..MaxAttempts]
  /\ cancelled \in [Requests -> BOOLEAN]

Init ==
  /\ available = Models
  /\ breaker = [m \in Models |-> NewBreaker]
  /\ algorithm \in Algorithms
  /\ index = 0
  /\ pc = [r \in Requests |-> "new"]
  /\ todo = [r \in Requests |-> <<>>] /\ models = [r \in Requests |-> <<>>]
  /\ at = [r \in Requests |-> 0] /\ attempt = [r \in Requests |-> 0]
  /\ cancelled = [r \in Requests |-> FALSE]

At(r, here) == pc[r] = here
Goto(r, there) == pc' = [pc EXCEPT ![r] = there]

\* What a request knew is gone when it ends.
End(r, how) ==
  /\ Goto(r, how)
  /\ todo' = [todo EXCEPT ![r] = <<>>] /\ models' = [models EXCEPT ![r] = <<>>]
  /\ at' = [at EXCEPT ![r] = 0] /\ attempt' = [attempt EXCEPT ![r] = 0]
  /\ cancelled' = [cancelled EXCEPT ![r] = FALSE]

\* Those of a list that are in ms, in the order of the list.
Among(list, ms) ==
  LET upTo[i \in 0..Len(list)] ==
        IF i = 0 THEN <<>>
        ELSE IF list[i] \in ms THEN Append(upTo[i - 1], list[i]) ELSE upTo[i - 1]
  IN  upTo[Len(list)]

GetAvailable == Among(ModelList, available)

-----------------------------------------------------------------------------
(* Route.                                                                  *)

\* A query that fails ends the request, and so does an empty answer.
RouteStart(r) ==
  /\ At(r, "new")
  /\ \/ /\ GetAvailable # <<>> /\ Goto(r, "filter")
        /\ todo' = [todo EXCEPT ![r] = GetAvailable]
        /\ UNCHANGED <<models, at, attempt, cancelled>>
     \/ End(r, "failed")
  /\ UNCHANGED <<available, breaker, algorithm, index>>

\* filterHealthyModels looks at one breaker after the other.
FilterHealthy(r) ==
  LET m == Head(todo[r]) IN
  /\ At(r, "filter") /\ todo[r] # <<>>
  /\ todo' = [todo EXCEPT ![r] = Tail(@)]
  /\ models' = IF breaker[m].state = "open" THEN models
               ELSE [models EXCEPT ![r] = Append(@, m)]
  /\ UNCHANGED <<available, breaker, algorithm, index, pc, at, attempt, cancelled>>

\* All circuits open, as this request has seen them.
NoneHealthy(r) ==
  /\ At(r, "filter") /\ todo[r] = <<>> /\ models[r] = <<>>
  /\ End(r, "failed")
  /\ UNCHANGED <<available, breaker, algorithm, index>>

\* What Route hands back: the caller takes the decision for itself, or
\* RouteWithFallback goes on to build the chain.
Selected(r, m) ==
  \/ End(r, "answered")
  \/ /\ Goto(r, "chain")
     /\ models' = [models EXCEPT ![r] = <<m>>]
     /\ UNCHANGED <<todo, at, attempt, cancelled>>

Selecting(r, a) == At(r, "filter") /\ todo[r] = <<>> /\ models[r] # <<>> /\ algorithm = a

\* The index was computed from the list of an earlier request, which may
\* have been longer: then the access panics.
SelectRoundRobin(r) ==
  /\ Selecting(r, "round-robin")
  /\ IF index < Len(models[r])
     THEN /\ Selected(r, models[r][index + 1])
          /\ index' = (index + 1) % Len(models[r])
     ELSE End(r, "panicked") /\ UNCHANGED index
  /\ UNCHANGED <<available, breaker, algorithm>>

SelectByScore(r) ==
  /\ Selecting(r, "by-score")
  /\ \E m \in ToSet(models[r]) : Selected(r, m)
  /\ UNCHANGED <<available, breaker, algorithm, index>>

-----------------------------------------------------------------------------
(* RouteWithFallback.                                                      *)

\* The n-th of the models of a tier, if there are so many.
Nth(list, tier, n) ==
  LET same == Among(list, {m \in Models : Tier[m] = tier})
  IN  IF n <= Len(same) THEN <<same[n]>> ELSE <<>>

\* For a mid-tier or budget primary the second of the others of its tier.
SmartFallbackChain(primary, list) ==
  LET others == Among(list, Models \ {primary}) IN
  CASE Tier[primary] = "premium" -> <<primary>> \o Nth(others, "mid", 1) \o Nth(others, "budget", 1)
    [] Tier[primary] = "mid"     -> <<primary>> \o Nth(others, "mid", 2) \o Nth(others, "budget", 1)
    [] Tier[primary] = "budget"  -> <<primary>> \o Nth(others, "budget", 2)

BuildChain(r) ==
  /\ At(r, "chain")
  /\ \/ /\ models' = [models EXCEPT ![r] = SmartFallbackChain(Head(@), GetAvailable)]
        /\ at' = [at EXCEPT ![r] = 1] /\ attempt' = [attempt EXCEPT ![r] = 1]
        /\ Goto(r, "call")
        /\ UNCHANGED <<todo, cancelled>>
     \/ End(r, "failed")   \* the query fails
  /\ UNCHANGED <<available, breaker, algorithm, index>>

\* A chain that gives up with its first model.
NextModelNever(r) == End(r, "failed")

\* FallbackChain.Execute after a model has failed for good.
NextModel(r) ==
  IF cancelled[r] \/ at[r] = Len(models[r])
  THEN End(r, "failed")
  ELSE /\ at' = [at EXCEPT ![r] = @ + 1]
       /\ attempt' = [attempt EXCEPT ![r] = 1]
       /\ Goto(r, "call")
       /\ UNCHANGED <<todo, models, cancelled>>

\* RetryStrategy.Execute after a failed attempt.
AttemptFailed(r) ==
  IF attempt[r] = MaxAttempts THEN NextModel(r)
  ELSE Goto(r, "backoff") /\ UNCHANGED <<localVars, cancelled>>

\* An attempt begins with a look at the context, which if it is done ends the
\* chain too, and at the breaker, whose refusal is a failed attempt like any.
Attempt(r) ==
  LET m == models[r][at[r]] IN
  /\ At(r, "call")
  /\ IF cancelled[r] THEN End(r, "failed") /\ UNCHANGED breaker
     ELSE IF Refuses(breaker[m]) THEN AttemptFailed(r) /\ UNCHANGED breaker
     ELSE /\ breaker' = [breaker EXCEPT ![m] = BeforeCall(@)]
          /\ Goto(r, "calling")
          /\ UNCHANGED <<localVars, cancelled>>
  /\ UNCHANGED <<available, algorithm, index>>

CallReturns(r, ok) ==
  LET m == models[r][at[r]] IN
  /\ At(r, "calling")
  /\ breaker' = [breaker EXCEPT ![m] = AfterCall(@, ok)]
  /\ IF ok THEN End(r, "answered") ELSE AttemptFailed(r)
  /\ UNCHANGED <<available, algorithm, index>>

\* The wait before the next attempt is over, or is cut short.
Backoff(r) ==
  /\ At(r, "backoff")
  /\ \/ /\ attempt' = [attempt EXCEPT ![r] = @ + 1]
        /\ Goto(r, "call")
        /\ UNCHANGED <<todo, models, at, cancelled>>
     \/ cancelled[r] /\ End(r, "failed")
  /\ UNCHANGED <<available, breaker, algorithm, index>>

-----------------------------------------------------------------------------
(* Everything around the requests.                                         *)

\* Route does not look at the context: before the calls begin it makes no
\* difference whether it is done.
Cancel(r) ==
  /\ ~cancelled[r] /\ pc[r] \in {"call", "calling", "backoff"}
  /\ cancelled' = [cancelled EXCEPT ![r] = TRUE]
  /\ UNCHANGED <<available, breaker, algorithm, index, pc, localVars>>

\* The next request in the place of one that has ended.
Renew(r) ==
  /\ pc[r] \in Ended
  /\ Goto(r, "new")
  /\ UNCHANGED <<available, breaker, algorithm, index, localVars, cancelled>>

BreakerTimeout(m) ==
  /\ breaker[m].state = "open" /\ ~breaker[m].cold
  /\ breaker' = [breaker EXCEPT ![m].cold = TRUE]
  /\ UNCHANGED <<available, algorithm, index, reqVars>>

\* What ModelHealth does to the database.
MarkAvailability(m) ==
  /\ m \in Remote
  /\ available' = IF m \in available THEN available \ {m} ELSE available \cup {m}
  /\ UNCHANGED <<breaker, algorithm, index, reqVars>>

\* A new algorithm object: its index starts at 0.
SetStrategy(a) ==
  /\ algorithm' = a /\ index' = 0
  /\ UNCHANGED <<available, breaker, reqVars>>

\* ResetAll goes from breaker to breaker.
ResetBreaker(m) ==
  /\ Resetting
  /\ breaker' = [breaker EXCEPT ![m] = Reset(@)]
  /\ UNCHANGED <<available, algorithm, index, reqVars>>

-----------------------------------------------------------------------------
Route(r) ==
  \/ RouteStart(r) \/ FilterHealthy(r) \/ NoneHealthy(r)
  \/ SelectRoundRobin(r) \/ SelectByScore(r)

Execute(r) ==
  \/ BuildChain(r) \/ Attempt(r) \/ Backoff(r)
  \/ \E ok \in BOOLEAN : CallReturns(r, ok)

Next ==
  \/ \E r \in Requests : Route(r) \/ Execute(r) \/ Cancel(r) \/ Renew(r)
  \/ \E m \in Models : BreakerTimeout(m) \/ MarkAvailability(m) \/ ResetBreaker(m)
  \/ \E a \in Algorithms : SetStrategy(a)

Spec == Init /\ [][Next]_vars

\* A request leaves a stage of its way for the next one.
GoesOn(r, here) ==
  /\ At(r, here) /\ (Route(r) \/ Execute(r))
  /\ pc'[r] \notin Ended \cup {here}

(* A request that can go on goes on, its calls return (the clients of the   *)
(* providers have timeouts), another request follows it, and time passes.   *)
(* Requests that could go on do not all end instead: a query does not fail  *)
(* every time, not every caller keeps the decision for itself, and not every *)
(* context is done before the first call.                                   *)
FairSpec ==
  /\ Spec
  /\ \A r \in Requests :
       /\ WF_vars(Route(r) \/ Execute(r)) /\ WF_vars(Renew(r))
       /\ \A here \in {"new", "filter", "chain", "call"} : SF_vars(GoesOn(r, here))
  /\ \A m \in Models : WF_vars(BreakerTimeout(m))

-----------------------------------------------------------------------------
(* Properties.                                                             *)

\* However late the results of calls come in and in whatever state they find
\* the breaker, none is left in a state its counters have passed.
BreakersConsistent == \A m \in Models : Consistent(breaker[m])

\* An open circuit is left for a trial only, and after the timeout only: the
\* late success of a call from before it opened does not close it.
OpenIsLeftByTrial ==
  [][\A m \in Models :
       breaker[m].state = "open" /\ breaker'[m].state # "open" =>
         \/ breaker[m].cold /\ breaker'[m].state = "half-open"
         \/ ResetBreaker(m)]_vars

\* The fallbacks are other models than the one they stand in for and than each
\* other, so that no request makes more than MaxAttempts calls to one model.
FallbacksAreOthers ==
  \A r \in Requests : pc[r] \in {"call", "calling", "backoff"} =>
    /\ IsInjective(models[r])
    /\ at[r] \in 1..Len(models[r])

\* A request that is not cancelled fails only when the last model of its chain
\* has failed the last attempt.
FailureIsExhaustion ==
  [][\A r \in Requests :
       pc[r] \in {"call", "calling", "backoff"} /\ pc'[r] = "failed" =>
         cancelled[r] \/ (at[r] = Len(models[r]) /\ attempt[r] = MaxAttempts)]_vars

-----------------------------------------------------------------------------
(* Statements of the repository that the code does not live up to.         *)

AllOpen == \A m \in Models : breaker[m].state = "open"

\* circuit_breaker.go:37, Timeout: "Time before attempting recovery": when every
\* circuit is open and requests keep coming, one of them is tried in the end.
OutageEnds == AllOpen ~> ~AllOpen
===============================================================================
