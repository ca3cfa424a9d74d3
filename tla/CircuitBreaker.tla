---------------------------- MODULE CircuitBreaker ----------------------------
(***************************************************************************)
(* The circuit breaker of one model (internal/router/circuit_breaker.go)   *)
(* as a record and the functions that its critical sections compute.       *)
(* Call is beforeCall, the call itself without the lock, and afterCall:    *)
(* whoever uses these operators takes them in separate steps.              *)
(*                                                                         *)
(* Time is reduced to what beforeCall asks of it: cold says of an open     *)
(* circuit that more than the timeout has passed since lastFailureTime.    *)
(***************************************************************************)
EXTENDS Integers

CONSTANTS FailureThreshold, SuccessThreshold

ASSUME Thresholds ==
  FailureThreshold \in Nat \ {0} /\ SuccessThreshold \in Nat \ {0}

Breakers == [state : {"closed", "open", "half-open"},
             failures : Nat, successes : Nat, cold : BOOLEAN]

NewBreaker == [state |-> "closed", failures |-> 0, successes |-> 0, cold |-> FALSE]

Refuses(b) == b.state = "open" /\ ~b.cold

\* The state in which a call that is not refused finds the breaker.
BeforeCall(b) ==
  IF b.state = "open"
  THEN [b EXCEPT !.state = "half-open", !.successes = 0, !.cold = FALSE]
  ELSE b

\* Counting a failure that is reported while the circuit is open as one of
\* the next closed period.
OnFailureKeepsClosed(b) == [b EXCEPT !.failures = @ + 1, !.cold = FALSE]

\* Every failure, a late one too, is counted and restarts the timeout.
OnFailure(b) ==
  LET n == b.failures + 1 IN
  CASE b.state = "closed" /\ n >= FailureThreshold ->
         [b EXCEPT !.state = "open", !.failures = n, !.cold = FALSE]
    [] b.state = "half-open" ->
         [b EXCEPT !.state = "open", !.failures = 0, !.cold = FALSE]
    [] OTHER -> [b EXCEPT !.failures = n, !.cold = FALSE]

\* A success that closes the circuit whatever its state.
OnSuccessAlways(b) ==
  [b EXCEPT !.state = "closed", !.failures = 0, !.successes = 0, !.cold = FALSE]

OnSuccess(b) ==
  CASE b.state = "closed" -> [b EXCEPT !.failures = 0]
    [] b.state = "half-open" /\ b.successes + 1 >= SuccessThreshold ->
         [b EXCEPT !.state = "closed", !.failures = 0, !.successes = 0]
    [] b.state = "half-open" /\ b.successes + 1 < SuccessThreshold ->
         [b EXCEPT !.successes = @ + 1]
    [] OTHER -> b

AfterCall(b, ok) == IF ok THEN OnSuccess(b) ELSE OnFailure(b)

Reset(b) ==
  [b EXCEPT !.state = "closed", !.failures = 0, !.successes = 0, !.cold = FALSE]

\* A breaker never rests in a state that its counters say it should have left:
\* closed with the failures used up, or half-open with the successes complete.
Consistent(b) ==
  /\ b.state = "closed" => b.failures < FailureThreshold
  /\ b.state = "half-open" => b.successes < SuccessThreshold
===============================================================================
