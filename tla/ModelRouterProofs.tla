--------------------------- MODULE ModelRouterProofs ---------------------------
(***************************************************************************)
(* Safety of the circuit breakers, for any models, requests, thresholds    *)
(* and chains.  The steps of the requests reach a breaker only through     *)
(* BeforeCall and AfterCall, each of which leaves any breaker it is given  *)
(* consistent: that is why the order of the results does not matter.       *)
(* And the end of a request that fails, for which it is enough to know     *)
(* that every request is somewhere.  Last the chain it goes through: what  *)
(* the selections from the list of models leave is a part of it.           *)
(***************************************************************************)
EXTENDS ModelRouter, SequenceTheorems, WellFoundedInduction, TLAPS

-----------------------------------------------------------------------------
(* The critical sections of one breaker.                                   *)

Sound == {b \in Breakers : Consistent(b)}

LEMMA NewIsSound == NewBreaker \in Sound
BY Thresholds DEF Sound, NewBreaker, Breakers, Consistent

LEMMA BeforeCallIsSound ==
  ASSUME NEW b \in Sound PROVE BeforeCall(b) \in Sound
<1>1. CASE b.state = "open"
  <2>1. BeforeCall(b) = [state |-> "half-open", failures |-> b.failures, successes |-> 0,
                         cold |-> FALSE]
    BY <1>1 DEF BeforeCall, Sound, Breakers
  <2> QED BY <2>1, Thresholds DEF Sound, Breakers, Consistent
<1>2. CASE b.state # "open"
  BY <1>2 DEF BeforeCall
<1> QED BY <1>1, <1>2

LEMMA OnFailureIsSound ==
  ASSUME NEW b \in Sound PROVE OnFailure(b) \in Sound
<1> DEFINE n == b.failures + 1
<1>1. b \in Breakers /\ Consistent(b) /\ n \in Nat
  BY DEF Sound, Breakers
<1>2. CASE b.state = "closed" /\ n >= FailureThreshold
  BY <1>1, <1>2, Thresholds DEF OnFailure, Sound, Breakers, Consistent
<1>3. CASE b.state = "half-open"
  <2> DEFINE c == [b EXCEPT !.state = "open", !.failures = 0, !.cold = FALSE]
  <2>1. OnFailure(b) = c
    BY <1>3 DEF OnFailure
  <2>2. c \in Breakers
    BY <1>1 DEF Breakers
  <2>3. c.state = "open"
    BY <1>1 DEF Breakers
  <2> HIDE DEF c
  <2> QED BY <2>1, <2>2, <2>3 DEF Sound, Consistent
<1>4. CASE ~(b.state = "closed" /\ n >= FailureThreshold) /\ b.state # "half-open"
  <2> DEFINE c == [b EXCEPT !.failures = n, !.cold = FALSE]
  <2>1. OnFailure(b) = c
    BY <1>4 DEF OnFailure
  <2>2. c \in Breakers
    BY <1>1 DEF Breakers
  <2>3. c.state = b.state /\ c.failures = n
    BY <1>1 DEF Breakers
  <2>4. b.state # "closed" \/ n < FailureThreshold
    BY <1>1, <1>4, Thresholds
  <2> HIDE DEF c, n
  <2> QED BY <1>4, <2>1, <2>2, <2>3, <2>4 DEF Sound, Consistent
<1> QED BY <1>2, <1>3, <1>4

LEMMA OnSuccessIsSound ==
  ASSUME NEW b \in Sound PROVE OnSuccess(b) \in Sound
<1>1. b \in Breakers /\ Consistent(b)
  BY DEF Sound
<1>2. CASE b.state = "closed"
  BY <1>1, <1>2, Thresholds DEF OnSuccess, Sound, Breakers, Consistent
<1>3. CASE b.state = "half-open" /\ b.successes + 1 >= SuccessThreshold
  <2> DEFINE c == [b EXCEPT !.state = "closed", !.failures = 0, !.successes = 0]
  <2>1. OnSuccess(b) = c
    <3>1. ~(b.successes + 1 < SuccessThreshold)
      BY <1>1, <1>3, Thresholds DEF Breakers
    <3> QED BY <1>3, <3>1 DEF OnSuccess
  <2>2. c \in Breakers
    BY <1>1 DEF Breakers
  <2>3. c.state = "closed" /\ c.failures = 0
    BY <1>1 DEF Breakers
  <2> HIDE DEF c
  <2> QED BY <2>1, <2>2, <2>3, Thresholds DEF Sound, Consistent
<1>4. CASE b.state = "half-open" /\ b.successes + 1 < SuccessThreshold
  BY <1>1, <1>4, Thresholds DEF OnSuccess, Sound, Breakers, Consistent
<1>5. CASE b.state = "open"
  BY <1>1, <1>5 DEF OnSuccess, Sound, Breakers
<1> QED BY <1>1, <1>2, <1>3, <1>4, <1>5, Thresholds DEF Breakers

LEMMA AfterCallIsSound ==
  ASSUME NEW b \in Sound, NEW ok \in BOOLEAN PROVE AfterCall(b, ok) \in Sound
BY OnFailureIsSound, OnSuccessIsSound DEF AfterCall

LEMMA ResetIsSound ==
  ASSUME NEW b \in Sound PROVE Reset(b) \in Sound
<1>1. b \in Breakers
  BY DEF Sound
<1>2. Reset(b) \in Breakers
  BY <1>1 DEF Reset, Breakers
<1>3. Reset(b).state = "closed" /\ Reset(b).failures = 0
  BY <1>1 DEF Reset, Breakers
<1> QED BY <1>2, <1>3, Thresholds DEF Sound, Consistent

-----------------------------------------------------------------------------
(* The breakers of the router.                                             *)

BreakerInv == breaker \in [Models -> Sound]

\* What a step may do to the breaker of model m.
Touched(m) ==
  \/ breaker'[m] = breaker[m]
  \/ ~Refuses(breaker[m]) /\ breaker'[m] = BeforeCall(breaker[m])
  \/ \E ok \in BOOLEAN : breaker'[m] = AfterCall(breaker[m], ok)
  \/ ResetBreaker(m) /\ breaker'[m] = Reset(breaker[m])
  \/ breaker[m].state = "open" /\ breaker'[m] = [breaker[m] EXCEPT !.cold = TRUE]

\* Every step touches the breaker of a model in one of these ways.
LEMMA StepTouches ==
  ASSUME BreakerInv, [Next]_vars
  PROVE  breaker' = [m \in Models |-> breaker'[m]] /\ \A m \in Models : Touched(m)
<1> USE DEF BreakerInv
<1>1. ASSUME UNCHANGED breaker PROVE breaker' = [m \in Models |-> breaker'[m]] /\ \A m \in Models : Touched(m)
  BY <1>1 DEF Touched
<1>2. ASSUME NEW r \in Requests, Route(r) PROVE UNCHANGED breaker
  BY <1>2 DEF Route, RouteStart, FilterHealthy, NoneHealthy, SelectRoundRobin, SelectByScore
<1>3. ASSUME NEW r \in Requests, Attempt(r)
      PROVE  breaker' = [m \in Models |-> breaker'[m]] /\ \A m \in Models : Touched(m)
  <2> DEFINE n == models[r][at[r]]
  <2>1. CASE UNCHANGED breaker
    BY <1>1, <2>1
  <2>2. CASE ~Refuses(breaker[n]) /\ breaker' = [breaker EXCEPT ![n] = BeforeCall(@)]
    BY <2>2 DEF Touched
  <2> QED BY <1>3, <2>1, <2>2 DEF Attempt
<1>4. ASSUME NEW r \in Requests, NEW ok \in BOOLEAN, CallReturns(r, ok)
      PROVE  breaker' = [m \in Models |-> breaker'[m]] /\ \A m \in Models : Touched(m)
  BY <1>4 DEF CallReturns, Touched
<1>5. ASSUME NEW r \in Requests, BuildChain(r) \/ Backoff(r) \/ Cancel(r) \/ Renew(r)
      PROVE  UNCHANGED breaker
  BY <1>5 DEF BuildChain, Backoff, Cancel, Renew
<1>6. ASSUME NEW n \in Models, BreakerTimeout(n)
      PROVE  breaker' = [m \in Models |-> breaker'[m]] /\ \A m \in Models : Touched(m)
  <2>1. breaker' = [breaker EXCEPT ![n] = [breaker[n] EXCEPT !.cold = TRUE]] /\ breaker[n].state = "open"
    BY <1>6 DEF BreakerTimeout
  <2> QED BY <2>1 DEF Touched
<1>7. ASSUME NEW n \in Models, ResetBreaker(n)
      PROVE  breaker' = [m \in Models |-> breaker'[m]] /\ \A m \in Models : Touched(m)
  <2>1. breaker' = [breaker EXCEPT ![n] = Reset(breaker[n])]
    BY <1>7 DEF ResetBreaker
  <2> QED BY <1>7, <2>1 DEF Touched
<1>8. ASSUME \/ \E m \in Models : MarkAvailability(m)
             \/ \E a \in Algorithms : SetStrategy(a)
      PROVE  UNCHANGED breaker
  BY <1>8 DEF MarkAvailability, SetStrategy
<1>9. CASE UNCHANGED vars
  BY <1>1, <1>9 DEF vars
<1> QED BY <1>1, <1>2, <1>3, <1>4, <1>5, <1>6, <1>7, <1>8, <1>9 DEF Next, Execute

-----------------------------------------------------------------------------
LEMMA BreakerStep == BreakerInv /\ [Next]_vars => BreakerInv'
<1> SUFFICES ASSUME BreakerInv, [Next]_vars PROVE BreakerInv'
  OBVIOUS
<1>1. breaker' = [m \in Models |-> breaker'[m]] /\ \A m \in Models : Touched(m)
  BY StepTouches
<1>2. ASSUME NEW m \in Models PROVE breaker'[m] \in Sound
  <2>1. breaker[m] \in Sound /\ Touched(m)
    BY <1>1 DEF BreakerInv
  <2>2. CASE breaker[m].state = "open" /\ breaker'[m] = [breaker[m] EXCEPT !.cold = TRUE]
    BY <2>1, <2>2 DEF Sound, Breakers, Consistent
  <2> QED BY <2>1, <2>2, BeforeCallIsSound, AfterCallIsSound, ResetIsSound DEF Touched
<1> QED BY <1>1, <1>2 DEF BreakerInv

LEMMA BreakersAlways == Spec => []BreakerInv
<1>1. Init => BreakerInv
  BY NewIsSound DEF Init, BreakerInv
<1> QED BY <1>1, BreakerStep, PTL DEF Spec

\* No breaker rests in a state that its counters have passed, however late the
\* results of calls are reported (afterCall in circuit_breaker.go).
THEOREM BreakersStayConsistent == Spec => []BreakersConsistent
<1>1. BreakerInv => BreakersConsistent
  BY DEF BreakerInv, BreakersConsistent, Sound
<1> QED BY <1>1, BreakersAlways, PTL

\* An open circuit is left by a trial after the timeout, or by ResetAll, and by
\* nothing else: a success that is reported late does not close it (onSuccess).
THEOREM OpenIsLeftByTrialOnly == Spec => OpenIsLeftByTrial
<1> DEFINE Leaves(m) == breaker[m].state = "open" /\ breaker'[m].state # "open"
           Right(m) == \/ breaker[m].cold /\ breaker'[m].state = "half-open"
                       \/ ResetBreaker(m)
<1>1. ASSUME BreakerInv, [Next]_vars, NEW m \in Models, Leaves(m) PROVE Right(m)
  <2>1. breaker[m] \in Breakers /\ Touched(m)
    BY <1>1, StepTouches DEF BreakerInv, Sound
  <2>2. ~(breaker'[m] = breaker[m])
    BY <1>1
  <2>3. CASE ~Refuses(breaker[m]) /\ breaker'[m] = BeforeCall(breaker[m])
    <3>1. breaker[m].cold
      BY <1>1, <2>3 DEF Refuses
    <3>2. BeforeCall(breaker[m]).state = "half-open"
      BY <1>1, <2>1 DEF BeforeCall, Breakers
    <3> QED BY <2>3, <3>1, <3>2
  <2>4. ASSUME NEW ok \in BOOLEAN PROVE AfterCall(breaker[m], ok).state = "open"
    BY <1>1, <2>1 DEF AfterCall, OnFailure, OnSuccess, Breakers
  <2>5. [breaker[m] EXCEPT !.cold = TRUE].state = breaker[m].state
    BY <2>1 DEF Breakers
  <2> QED BY <1>1, <2>1, <2>2, <2>3, <2>4, <2>5 DEF Touched
<1>2. BreakerInv /\ [Next]_vars => [\A m \in Models : Leaves(m) => Right(m)]_vars
  BY <1>1
<1> QED BY <1>2, BreakersAlways, PTL DEF Spec, OpenIsLeftByTrial

-----------------------------------------------------------------------------
(* When a request fails.                                                   *)

Calling == {"call", "calling", "backoff"}

\* What a request that is calling models may do when it fails.
GivesUp(r) == cancelled[r] \/ (at[r] = Len(models[r]) /\ attempt[r] = MaxAttempts)

PcInv == pc \in [Requests -> PcStates]

\* Where a request is after it has ended, or gone on.
LEMMA EndEffect ==
  ASSUME PcInv, NEW r \in Requests, NEW how \in Ended, End(r, how)
  PROVE  PcInv' /\ \A s \in Requests : pc'[s] = IF s = r THEN how ELSE pc[s]
  BY DEF End, Goto, PcInv, PcStates

LEMMA GotoEffect ==
  ASSUME PcInv, NEW r \in Requests, NEW there \in PcStates, Goto(r, there)
  PROVE  PcInv' /\ \A s \in Requests : pc'[s] = IF s = r THEN there ELSE pc[s]
  BY DEF Goto, PcInv

\* A step fails a request that is calling models only if it may give up.
Orderly == PcInv' /\ \A r \in Requests : pc[r] \in Calling /\ pc'[r] = "failed" => GivesUp(r)

LEMMA FailedAttempt ==
  ASSUME PcInv, NEW r \in Requests, AttemptFailed(r)
  PROVE  Orderly
<1>1. CASE attempt[r] = MaxAttempts /\ (cancelled[r] \/ at[r] = Len(models[r]))
  BY <1>1, EndEffect DEF AttemptFailed, NextModel, Orderly, GivesUp, Ended, Calling
<1>2. CASE attempt[r] = MaxAttempts /\ ~(cancelled[r] \/ at[r] = Len(models[r]))
  BY <1>2, GotoEffect DEF AttemptFailed, NextModel, Orderly, PcStates, Calling
<1>3. CASE attempt[r] # MaxAttempts
  BY <1>3, GotoEffect DEF AttemptFailed, Orderly, PcStates, Calling
<1> QED BY <1>1, <1>2, <1>3

LEMMA RequestStep ==
  ASSUME PcInv, NEW r \in Requests, Route(r) \/ Execute(r) \/ Cancel(r) \/ Renew(r)
  PROVE  Orderly
<1>1. CASE RouteStart(r) \/ FilterHealthy(r) \/ NoneHealthy(r)
  BY <1>1, EndEffect, GotoEffect
     DEF RouteStart, FilterHealthy, NoneHealthy, At, PcInv, Orderly, PcStates, Ended, Calling
<1>2. CASE SelectRoundRobin(r) \/ SelectByScore(r)
  BY <1>2, EndEffect, GotoEffect
     DEF SelectRoundRobin, SelectByScore, Selecting, Selected, At, Orderly, PcStates, Ended, Calling
<1>3. CASE BuildChain(r)
  BY <1>3, EndEffect, GotoEffect DEF BuildChain, At, Orderly, PcStates, Ended, Calling
<1>4. CASE Attempt(r)
  BY <1>4, EndEffect, GotoEffect, FailedAttempt
     DEF Attempt, Orderly, GivesUp, PcStates, Ended, Calling
<1>5. CASE Backoff(r)
  BY <1>5, EndEffect, GotoEffect DEF Backoff, Orderly, GivesUp, PcStates, Ended, Calling
<1>6. ASSUME NEW ok \in BOOLEAN, CallReturns(r, ok) PROVE Orderly
  BY <1>6, EndEffect, FailedAttempt DEF CallReturns, Orderly, PcStates, Ended, Calling
<1>7. CASE Cancel(r)
  BY <1>7 DEF Cancel, Orderly, PcInv, Calling
<1>8. CASE Renew(r)
  BY <1>8, GotoEffect DEF Renew, Orderly, PcStates, Calling
<1> QED BY <1>1, <1>2, <1>3, <1>4, <1>5, <1>6, <1>7, <1>8 DEF Route, Execute

LEMMA OrderlyStep == PcInv /\ [Next]_vars => Orderly
<1> SUFFICES ASSUME PcInv, [Next]_vars PROVE Orderly
  OBVIOUS
<1>1. ASSUME UNCHANGED pc PROVE Orderly
  BY <1>1 DEF Orderly, PcInv, Calling
<1>2. ASSUME \/ \E m \in Models : BreakerTimeout(m) \/ MarkAvailability(m) \/ ResetBreaker(m)
             \/ \E a \in Algorithms : SetStrategy(a)
             \/ UNCHANGED vars
      PROVE  UNCHANGED pc
  BY <1>2 DEF BreakerTimeout, MarkAvailability, ResetBreaker, SetStrategy, vars, reqVars
<1> QED BY <1>1, <1>2, RequestStep DEF Next

\* A request that has begun to call models fails only when its context ends, or
\* when the last model of its chain has used up its attempts (fallback.go,
\* retry.go): no open circuit and no failed call on the way ends it early.
THEOREM FailuresAreExhaustions == Spec => FailureIsExhaustion
<1>1. Init => PcInv
  BY DEF Init, PcInv, PcStates
<1>2. PcInv /\ [Next]_vars => PcInv' /\ [Orderly]_vars
  BY OrderlyStep DEF Orderly
<1>3. Orderly => \A r \in Requests :
        pc[r] \in {"call", "calling", "backoff"} /\ pc'[r] = "failed" =>
          cancelled[r] \/ (at[r] = Len(models[r]) /\ attempt[r] = MaxAttempts)
  BY DEF Orderly, GivesUp, Calling
<1> QED BY <1>1, <1>2, <1>3, PTL DEF Spec, FailureIsExhaustion

-----------------------------------------------------------------------------
(* What is selected from a list of models.                                 *)

\* Induction, over a set of numbers.
LEMMA Induction ==
  ASSUME NEW T, 0 \in T, \A n \in Nat : n \in T => n + 1 \in T
  PROVE  \A n \in Nat : n \in T
<1> DEFINE R == OpToRel(<, Nat)
           U == Nat \ T
<1>1. IsWellFoundedOn(R, Nat)
  BY NatLessThanWellFounded
<1>2. \A i, j \in Nat : i < j => <<i, j>> \in R
  BY DEF OpToRel
<1> HIDE DEF R
<1>3. SUFFICES ASSUME U # {} PROVE FALSE
  OBVIOUS
<1>4. PICK x \in U : \A y \in U : <<y, x>> \notin R
  <2>1. U \subseteq Nat OBVIOUS
  <2> HIDE DEF U
  <2> QED BY <1>1, <1>3, <2>1, WFMin
<1>5. x \in Nat /\ x \notin T
  BY <1>4
<1>6. x # 0 /\ x - 1 \in Nat /\ x - 1 < x
  BY <1>5
<1>7. x - 1 \notin U
  BY <1>4, <1>2, <1>5, <1>6
<1>8. (x - 1) + 1 \in T
  BY <1>6, <1>7
<1> QED BY <1>5, <1>6, <1>8

\* A round of the loop: s is what it has, and it comes to element n.
Round(list, ms, s, n) == IF list[n] \in ms THEN Append(s, list[n]) ELSE s

\* Upto(list, ms) is the function whose last value Among gives.
Upto(list, ms) ==
  CHOOSE f : f = [i \in 0..Len(list) |->
                    IF i = 0 THEN <<>>
                    ELSE IF list[i] \in ms THEN Append(f[i - 1], list[i]) ELSE f[i - 1]]

LEMMA UptoExists ==
  ASSUME NEW list \in Seq(Models), NEW ms
  PROVE  /\ Among(list, ms) = Upto(list, ms)[Len(list)]
         /\ Upto(list, ms)[0] = <<>>
         /\ \A n \in 1..Len(list) : Upto(list, ms)[n] = Round(list, ms, Upto(list, ms)[n - 1], n)
<1> DEFINE N == Len(list)
           Goes(f, n) == /\ f = [i \in 0..n |-> f[i]] /\ f[0] = <<>>
                         /\ \A i \in 1..n : f[i] = Round(list, ms, f[i - 1], i)
           Loop(f) == f = [i \in 0..Len(list) |->
                             IF i = 0 THEN <<>>
                             ELSE IF list[i] \in ms THEN Append(f[i - 1], list[i]) ELSE f[i - 1]]
           T == {n \in Nat : \E f : Goes(f, n)}
           u == Upto(list, ms)
<1>1. N \in Nat
  BY LenProperties
<1> HIDE DEF N
<1>2. 0 \in T
  <2>1. Goes([i \in 0..0 |-> <<>>], 0) OBVIOUS
  <2> QED BY <2>1
<1>3. ASSUME NEW n \in Nat, n \in T PROVE n + 1 \in T
  <2>1. PICK f : Goes(f, n)
    BY <1>3
  <2> PICK last : last = Round(list, ms, f[n], n + 1)
    OBVIOUS
  <2> DEFINE g == [i \in 0..(n + 1) |-> IF i <= n THEN f[i] ELSE last]
  <2>2. g = [i \in 0..(n + 1) |-> g[i]] /\ g[0] = <<>>
    BY <2>1
  <2>3. ASSUME NEW i \in 1..(n + 1) PROVE g[i] = Round(list, ms, g[i - 1], i)
    <3>1. CASE i = n + 1
      <4>1. g[i] = last /\ g[i - 1] = f[n]
        BY <3>1
      <4> QED BY <3>1, <4>1
    <3>2. CASE i \in 1..n
      <4>1. f[i] = Round(list, ms, f[i - 1], i)
        BY <2>1, <3>2
      <4>2. g[i] = f[i] /\ g[i - 1] = f[i - 1]
        BY <3>2
      <4> QED BY <4>1, <4>2
    <3> QED BY <3>1, <3>2
  <2> HIDE DEF g
  <2>4. Goes(g, n + 1)
    BY <2>2, <2>3
  <2> HIDE DEF Goes
  <2> QED BY <2>4
<1>4. PICK f : Goes(f, N)
  <2>1. N \in T
    <3> HIDE DEF T
    <3> QED BY <1>1, <1>2, <1>3, Induction
  <2> QED BY <2>1
<1>5. Loop(f)
  <2>1. \A n \in 0..N : n = 0 \/ n \in 1..N
    BY <1>1
  <2>2. \A n \in 0..N : f[n] = IF n = 0 THEN <<>>
                             ELSE IF list[n] \in ms THEN Append(f[n - 1], list[n]) ELSE f[n - 1]
    BY <1>4, <2>1 DEF Round
  <2> QED BY <1>4, <2>2 DEF N
<1>6. Loop(u)
  <2>1. u = CHOOSE h : Loop(h)
    BY DEF Upto
  <2> HIDE DEF Loop, u
  <2> QED BY <1>5, <2>1
<1>7. Among(list, ms) = u[Len(list)]
  BY DEF Among, Upto
<1> HIDE DEF u
<1>8. 0 \in 0..N /\ \A n \in 1..N : n \in 0..N /\ n # 0
  BY <1>1
<1>9. u[0] = <<>>
  BY <1>6, <1>8 DEF N
<1>10. ASSUME NEW n \in 1..N PROVE u[n] = Round(list, ms, u[n - 1], n)
  BY <1>6, <1>8 DEF N, Round
<1> QED BY <1>7, <1>9, <1>10 DEF u, N

\* s is a selection of some of the first n elements of list, each once.
PartOf(list, ms, s, n) ==
  /\ s \in Seq(Models) /\ Len(s) <= n
  /\ \A i \in 1..Len(s) : s[i] \in ms /\ \E k \in 1..n : s[i] = list[k]
  /\ \A i, j \in 1..Len(s) : s[i] = s[j] => i = j

LEMMA RoundKeepsPart ==
  ASSUME NEW list \in Seq(Models), IsInjective(list), NEW ms, NEW s, NEW n \in 1..Len(list),
         PartOf(list, ms, s, n - 1)
  PROVE  PartOf(list, ms, Round(list, ms, s, n), n)
<1> DEFINE m == list[n]
           t == Append(s, m)
<1>1. s \in Seq(Models) /\ Len(s) \in Nat /\ Len(s) <= n - 1 /\ n \in Nat /\ Len(list) \in Nat
  BY LenProperties DEF PartOf
<1>2. m \in Models
  BY ElementOfSeq
<1>3. CASE m \notin ms
  BY <1>1, <1>3 DEF PartOf, Round
<1>4. CASE m \in ms
  <2>1. t \in Seq(Models) /\ Len(t) = Len(s) + 1 /\ \A i \in 1..Len(s) : t[i] = s[i]
    BY <1>1, <1>2, AppendProperties
  <2>2. t[Len(s) + 1] = m
    BY <1>1, <1>2, AppendProperties
  <2>3. \A i, j \in 1..Len(list) : list[i] = list[j] => i = j
    BY LenProperties DEF IsInjective
  <2>4. \A i \in 1..Len(s) : s[i] # m
    BY <1>1, <2>3 DEF PartOf
  <2> HIDE DEF t, m
  <2>5. \A i \in 1..Len(t) : i \in 1..Len(s) \/ i = Len(s) + 1
    BY <1>1, <2>1
  <2>6. \A i \in 1..Len(t) : t[i] \in ms /\ \E k \in 1..n : t[i] = list[k]
    BY <1>1, <1>4, <2>1, <2>2, <2>5 DEF PartOf, m
  <2>7. ASSUME NEW i \in 1..Len(t), NEW j \in 1..Len(t), t[i] = t[j] PROVE i = j
    <3>1. \A k, l \in 1..Len(s) : s[k] = s[l] => k = l
      BY DEF PartOf
    <3>2. CASE i \in 1..Len(s) /\ j \in 1..Len(s)
      BY ONLY <2>1, <2>7, <3>1, <3>2
    <3>3. CASE i = Len(s) + 1 /\ j \in 1..Len(s)
      BY ONLY <2>1, <2>2, <2>4, <2>7, <3>3
    <3>4. CASE i \in 1..Len(s) /\ j = Len(s) + 1
      BY ONLY <2>1, <2>2, <2>4, <2>7, <3>4
    <3> QED BY <2>5, <3>2, <3>3, <3>4
  <2>8. Len(t) <= n
    BY <1>1, <2>1
  <2>9. Round(list, ms, s, n) = t
    BY <1>4 DEF Round, t, m
  <2> QED BY <2>1, <2>6, <2>7, <2>8, <2>9 DEF PartOf
<1> QED BY <1>3, <1>4

LEMMA AmongIsPart ==
  ASSUME NEW list \in Seq(Models), IsInjective(list), NEW ms
  PROVE  PartOf(list, ms, Among(list, ms), Len(list))
<1> DEFINE u == Upto(list, ms)
           T == {n \in Nat : n <= Len(list) => PartOf(list, ms, u[n], n)}
<1>1. Len(list) \in Nat
  BY LenProperties
<1>2. Among(list, ms) = u[Len(list)] /\ u[0] = <<>>
  BY UptoExists
<1>3. \A n \in 1..Len(list) : u[n] = Round(list, ms, u[n - 1], n)
  BY UptoExists
<1> HIDE DEF u
<1>4. 0 \in T
  <2>1. PartOf(list, ms, <<>>, 0)
    BY DEF PartOf
  <2> QED BY <1>2, <2>1
<1>5. ASSUME NEW n \in Nat, n \in T PROVE n + 1 \in T
  <2> SUFFICES ASSUME n + 1 <= Len(list) PROVE PartOf(list, ms, u[n + 1], n + 1)
    OBVIOUS
  <2>1. n + 1 \in 1..Len(list) /\ (n + 1) - 1 = n /\ PartOf(list, ms, u[n], n)
    BY <1>1, <1>5
  <2>2. u[n + 1] = Round(list, ms, u[n], n + 1)
    BY <1>3, <2>1
  <2>3. PartOf(list, ms, Round(list, ms, u[n], n + 1), n + 1)
    BY <2>1, RoundKeepsPart
  <2> QED BY <2>2, <2>3
<1>6. Len(list) \in T
  <2> HIDE DEF T
  <2> QED BY <1>1, <1>4, <1>5, Induction
<1> QED BY <1>1, <1>2, <1>6

\* The n-th of a tier, when there is one, is in the list and of the tier.
One(q, list, tier) == q = <<>> \/ \E k \in 1..Len(list) : Tier[list[k]] = tier /\ q = <<list[k]>>

LEMMA NthIsOne ==
  ASSUME NEW list \in Seq(Models), IsInjective(list), NEW tier, NEW n \in Nat \ {0}
  PROVE  One(Nth(list, tier, n), list, tier)
<1> DEFINE ms == {m \in Models : Tier[m] = tier}
           same == Among(list, ms)
<1>1. PartOf(list, ms, same, Len(list))
  BY AmongIsPart
<1> HIDE DEF same
<1>2. Nth(list, tier, n) = IF n <= Len(same) THEN <<same[n]>> ELSE <<>>
  BY DEF Nth, same
<1>3. CASE n <= Len(same)
  <2>1. n \in 1..Len(same)
    BY <1>1, <1>3, LenProperties DEF PartOf
  <2>2. same[n] \in ms /\ \E k \in 1..Len(list) : same[n] = list[k]
    BY <1>1, <2>1 DEF PartOf
  <2> QED BY <1>2, <1>3, <2>2 DEF One
<1>4. CASE ~(n <= Len(same))
  BY <1>2, <1>4 DEF One
<1> QED BY <1>3, <1>4

\* Two sequences of different models, one after the other.
Distinct(s) == s \in Seq(Models) /\ IsInjective(s)
Apart(s, t) == \A i \in 1..Len(s), j \in 1..Len(t) : s[i] # t[j]

LEMMA JoinIsDistinct ==
  ASSUME NEW s, Distinct(s), NEW t, Distinct(t), Apart(s, t)
  PROVE  /\ Distinct(s \o t) /\ Len(s \o t) = Len(s) + Len(t)
         /\ \A i \in 1..Len(s \o t) : \/ i \in 1..Len(s) /\ (s \o t)[i] = s[i]
                                      \/ i - Len(s) \in 1..Len(t) /\ (s \o t)[i] = t[i - Len(s)]
<1> DEFINE c == s \o t
<1>1. Len(s) \in Nat /\ Len(t) \in Nat
  BY LenProperties DEF Distinct
<1>2. /\ c \in Seq(Models) /\ Len(c) = Len(s) + Len(t)
      /\ \A i \in 1..Len(c) : c[i] = IF i <= Len(s) THEN s[i] ELSE t[i - Len(s)]
  BY ConcatProperties DEF Distinct
<1> HIDE DEF c
<1>3. \A i \in 1..Len(c) : \/ i \in 1..Len(s) /\ c[i] = s[i]
                           \/ i - Len(s) \in 1..Len(t) /\ c[i] = t[i - Len(s)]
  BY <1>1, <1>2
<1>4. /\ \A i, j \in 1..Len(s) : s[i] = s[j] => i = j
      /\ \A i, j \in 1..Len(t) : t[i] = t[j] => i = j
  BY LenProperties DEF Distinct, IsInjective
<1>5. \A i, j \in 1..Len(c) : c[i] = c[j] => i = j
  <2> SUFFICES ASSUME NEW i \in 1..Len(c), NEW j \in 1..Len(c), c[i] = c[j] PROVE i = j
    OBVIOUS
  <2>1. CASE i \in 1..Len(s) /\ j \in 1..Len(s)
    BY <1>1, <1>2, <1>4, <2>1
  <2>2. CASE i \notin 1..Len(s) /\ j \notin 1..Len(s)
    <3>1. i - Len(s) \in 1..Len(t) /\ j - Len(s) \in 1..Len(t) /\ t[i - Len(s)] = t[j - Len(s)]
      BY <1>3, <2>2
    <3>2. i - Len(s) = j - Len(s)
      BY <1>4, <3>1
    <3> QED BY <1>1, <1>2, <3>2
  <2>3. CASE (i \in 1..Len(s)) # (j \in 1..Len(s))
    BY <1>3, <2>3 DEF Apart
  <2> QED BY <2>1, <2>2, <2>3
<1>6. Distinct(c)
  BY <1>2, <1>5, LenProperties DEF Distinct, IsInjective
<1> QED BY <1>2, <1>3, <1>6 DEF c

\* Put together from a model and up to two others, of different tiers.
LEMMA ThreeAreDistinct ==
  ASSUME NEW p \in Models, NEW list \in Seq(Models), \A k \in 1..Len(list) : list[k] # p,
         NEW x, One(x, list, "mid"), NEW y, One(y, list, "budget")
  PROVE  Distinct(<<p>> \o x \o y) /\ Len(<<p>> \o x \o y) \in Nat \ {0}
<1>1. \A k \in 1..Len(list) : list[k] \in Models
  BY ElementOfSeq
<1>2. /\ Distinct(x) /\ Len(x) \in Nat
      /\ \A i \in 1..Len(x) : x[i] # p /\ Tier[x[i]] = "mid"
  <2>1. CASE x = <<>>
    BY <2>1 DEF Distinct, IsInjective
  <2>2. ASSUME NEW k \in 1..Len(list), Tier[list[k]] = "mid", x = <<list[k]>> PROVE <1>2
    BY <1>1, <2>2 DEF Distinct, IsInjective
  <2> QED BY <2>1, <2>2 DEF One
<1>3. /\ Distinct(y) /\ Len(y) \in Nat
      /\ \A i \in 1..Len(y) : y[i] # p /\ Tier[y[i]] = "budget"
  <2>1. CASE y = <<>>
    BY <2>1 DEF Distinct, IsInjective
  <2>2. ASSUME NEW k \in 1..Len(list), Tier[list[k]] = "budget", y = <<list[k]>> PROVE <1>3
    BY <1>1, <2>2 DEF Distinct, IsInjective
  <2> QED BY <2>1, <2>2 DEF One
<1>4. Distinct(<<p>>) /\ Len(<<p>>) = 1 /\ <<p>>[1] = p
  BY DEF Distinct, IsInjective
<1> PICK s : s = <<p>>
  OBVIOUS
<1>5. Distinct(s) /\ Len(s) = 1 /\ s[1] = p
  BY <1>4
<1>6. Apart(s, x)
  BY <1>2, <1>5 DEF Apart
<1> PICK t : t = s \o x
  OBVIOUS
<1>7. /\ Distinct(t) /\ Len(t) = 1 + Len(x)
      /\ \A i \in 1..Len(t) : \/ i \in 1..Len(s) /\ t[i] = s[i]
                              \/ i - Len(s) \in 1..Len(x) /\ t[i] = x[i - Len(s)]
  BY <1>2, <1>5, <1>6, JoinIsDistinct
<1>8. Apart(t, y)
  <2> SUFFICES ASSUME NEW i \in 1..Len(t), NEW j \in 1..Len(y) PROVE t[i] # y[j]
    BY DEF Apart
  <2>1. t[i] = p \/ Tier[t[i]] = "mid"
    BY <1>2, <1>5, <1>7
  <2> QED BY <1>3, <2>1
<1>9. Distinct(t \o y) /\ Len(t \o y) = 1 + Len(x) + Len(y)
  BY <1>3, <1>7, <1>8, JoinIsDistinct
<1> QED BY <1>2, <1>3, <1>9

LEMMA ChainIsDistinct ==
  ASSUME NEW p \in Models, NEW list \in Seq(Models), IsInjective(list)
  PROVE  /\ Distinct(SmartFallbackChain(p, list))
         /\ Len(SmartFallbackChain(p, list)) \in Nat \ {0}
<1> DEFINE others == Among(list, Models \ {p})
           c == SmartFallbackChain(p, list)
<1>1. PartOf(list, Models \ {p}, others, Len(list))
  BY AmongIsPart
<1> HIDE DEF others
<1>2. others \in Seq(Models) /\ IsInjective(others) /\ \A k \in 1..Len(others) : others[k] # p
  BY <1>1, LenProperties DEF PartOf, IsInjective
<1>3. \A tier : One(Nth(others, tier, 1), others, tier) /\ One(Nth(others, tier, 2), others, tier)
  BY <1>2, NthIsOne
<1>4. One(<<>>, others, "mid") /\ One(<<>>, others, "budget")
  BY DEF One
<1>5. \A x, y : One(x, others, "mid") /\ One(y, others, "budget") =>
        Distinct(<<p>> \o x \o y) /\ Len(<<p>> \o x \o y) \in Nat \ {0}
  BY <1>2, ThreeAreDistinct DEF Distinct
<1>6. CASE Tier[p] = "premium"
  <2>1. c = <<p>> \o Nth(others, "mid", 1) \o Nth(others, "budget", 1)
    BY <1>6 DEF SmartFallbackChain, others
  <2> QED BY <1>3, <1>5, <2>1
<1>7. CASE Tier[p] = "mid"
  <2>1. c = <<p>> \o Nth(others, "mid", 2) \o Nth(others, "budget", 1)
    BY <1>7 DEF SmartFallbackChain, others
  <2> QED BY <1>3, <1>5, <2>1
<1>8. CASE Tier[p] = "budget"
  <2> PICK x : x = Nth(others, "budget", 2)
    OBVIOUS
  <2>1. c = <<p>> \o x
    BY <1>8 DEF SmartFallbackChain, others
  <2>2. One(x, others, "budget")
    BY <1>3
  <2>3. <<p>> \o <<>> \o x = <<p>> \o x
    OBVIOUS
  <2> QED BY <1>4, <1>5, <2>1, <2>2, <2>3
<1> QED BY <1>6, <1>7, <1>8, RouterParameters

\* The models that the database has as available.
LEMMA AvailableIs ==
  /\ GetAvailable \in Seq(Models) /\ IsInjective(GetAvailable)
  /\ Len(GetAvailable) \in Nat /\ Len(GetAvailable) <= Len(ModelList)
<1>1. ModelList \in Seq(Models)
  BY RouterParameters
<1>2. PartOf(ModelList, available, GetAvailable, Len(ModelList))
  BY <1>1, AmongIsPart, RouterParameters DEF GetAvailable
<1> QED BY <1>2, LenProperties DEF PartOf, IsInjective

-----------------------------------------------------------------------------
(* What a request knows, by where it is.                                   *)

LocalTypes ==
  /\ PcInv
  /\ todo \in [Requests -> Seq(Models)] /\ models \in [Requests -> Seq(Models)]
  /\ at \in [Requests -> Nat]
  /\ attempt \in [Requests -> 0..MaxAttempts]
  /\ cancelled \in [Requests -> BOOLEAN]

\* Filtering, it has never more than all models before it and behind it; then
\* the one that was selected; then a chain, and a position in it.
Knows(r) ==
  /\ pc[r] \in Ended \cup {"new"} => models[r] = <<>>
  /\ pc[r] = "filter" => Len(todo[r]) + Len(models[r]) <= Len(ModelList)
  /\ pc[r] = "chain" => \E m \in Models : models[r] = <<m>>
  /\ pc[r] \in Calling => IsInjective(models[r]) /\ at[r] \in 1..Len(models[r])
  /\ pc[r] = "backoff" => attempt[r] < MaxAttempts

ChainInv ==
  /\ LocalTypes
  /\ index \in 0..Len(ModelList) - 1
  /\ \A r \in Requests : Knows(r)

\* What a step of request r changes is its own.
LocalStep(r) ==
  LocalTypes' /\ \A q \in Requests \ {r} :
    /\ pc'[q] = pc[q] /\ todo'[q] = todo[q] /\ models'[q] = models[q]
    /\ at'[q] = at[q] /\ attempt'[q] = attempt[q]

LEMMA OthersKnow ==
  ASSUME \A q \in Requests : Knows(q), NEW r \in Requests, LocalStep(r), Knows(r)'
  PROVE  LocalTypes' /\ \A q \in Requests : Knows(q)'
<1>1. ASSUME NEW q \in Requests \ {r} PROVE Knows(q)'
  <2>1. /\ pc'[q] = pc[q] /\ todo'[q] = todo[q] /\ models'[q] = models[q]
        /\ at'[q] = at[q] /\ attempt'[q] = attempt[q]
    BY DEF LocalStep
  <2>2. Knows(q)
    OBVIOUS
  <2> QED BY <2>1, <2>2 DEF Knows
<1> QED BY <1>1 DEF LocalStep

\* The end leaves nothing.
LEMMA EndKnows ==
  ASSUME LocalTypes, NEW r \in Requests, NEW how \in Ended, End(r, how)
  PROVE  LocalStep(r) /\ Knows(r)'
<1>1. how \in PcStates /\ how \notin Calling \cup {"filter", "chain"} /\ <<>> \in Seq(Models) /\ 0 \in 0..MaxAttempts
  BY RouterParameters DEF Ended, PcStates, Calling
<1>2. /\ pc' = [pc EXCEPT ![r] = how]
      /\ todo' = [todo EXCEPT ![r] = <<>>] /\ models' = [models EXCEPT ![r] = <<>>]
      /\ at' = [at EXCEPT ![r] = 0] /\ attempt' = [attempt EXCEPT ![r] = 0]
      /\ cancelled' = [cancelled EXCEPT ![r] = FALSE]
  BY DEF End, Goto
<1>3. LocalStep(r)
  BY <1>1, <1>2 DEF LocalStep, LocalTypes, PcInv
<1>4. pc'[r] = how /\ models'[r] = <<>>
  BY <1>2 DEF LocalTypes, PcInv
<1> QED BY <1>1, <1>3, <1>4 DEF Knows, Calling

\* What the next model and the next attempt leave of it.
LEMMA FailedKnows ==
  ASSUME LocalTypes, NEW r \in Requests, Knows(r), pc[r] \in Calling, AttemptFailed(r)
  PROVE  LocalStep(r) /\ Knows(r)'
<1>1. Len(models[r]) \in Nat /\ at[r] \in 1..Len(models[r]) /\ IsInjective(models[r])
  BY LenProperties DEF Knows, LocalTypes
<1>2. CASE End(r, "failed")
  BY <1>2, EndKnows DEF Ended
<1>3. CASE attempt[r] = MaxAttempts /\ ~(cancelled[r] \/ at[r] = Len(models[r]))
  <2>1. /\ at' = [at EXCEPT ![r] = at[r] + 1] /\ attempt' = [attempt EXCEPT ![r] = 1]
        /\ pc' = [pc EXCEPT ![r] = "call"] /\ UNCHANGED <<todo, models, cancelled>>
    BY <1>3 DEF AttemptFailed, NextModel, Goto
  <2>2. at[r] + 1 \in 1..Len(models[r]) /\ 1 \in 0..MaxAttempts /\ "call" \in PcStates
    BY <1>1, <1>3, RouterParameters DEF PcStates
  <2>3. LocalStep(r)
    BY <2>1, <2>2 DEF LocalStep, LocalTypes, PcInv
  <2>4. pc'[r] = "call" /\ at'[r] = at[r] + 1 /\ models'[r] = models[r]
    BY <2>1 DEF LocalTypes, PcInv
  <2> QED BY <1>1, <2>2, <2>3, <2>4 DEF Knows, Ended
<1>4. CASE attempt[r] # MaxAttempts
  <2>1. pc' = [pc EXCEPT ![r] = "backoff"] /\ UNCHANGED <<todo, models, at, attempt, cancelled>>
    BY <1>4 DEF AttemptFailed, Goto, localVars
  <2>2. LocalStep(r)
    BY <2>1 DEF LocalStep, LocalTypes, PcInv, PcStates
  <2>3. pc'[r] = "backoff" /\ at'[r] = at[r] /\ models'[r] = models[r] /\ attempt'[r] = attempt[r]
    BY <2>1 DEF LocalTypes, PcInv
  <2>4. attempt[r] < MaxAttempts
    BY <1>4, RouterParameters DEF LocalTypes
  <2> QED BY <1>1, <2>2, <2>3, <2>4 DEF Knows, Ended
<1> QED BY <1>2, <1>3, <1>4 DEF AttemptFailed, NextModel

\* A list of the models is never longer than that of all.
LEMMA RouteKnows ==
  ASSUME ChainInv, NEW r \in Requests, Route(r)
  PROVE  LocalStep(r) /\ Knows(r)' /\ index' \in 0..Len(ModelList) - 1
<1>1. /\ LocalTypes /\ Knows(r) /\ index \in 0..Len(ModelList) - 1 /\ Len(ModelList) \in Nat
      /\ todo[r] \in Seq(Models) /\ Len(todo[r]) \in Nat
      /\ models[r] \in Seq(Models) /\ Len(models[r]) \in Nat
  BY RouterParameters, LenProperties DEF ChainInv, LocalTypes
<1>2. CASE UNCHANGED index /\ \E how \in Ended : End(r, how)
  BY <1>1, <1>2, EndKnows
<1>3. CASE /\ At(r, "new") /\ Goto(r, "filter") /\ todo' = [todo EXCEPT ![r] = GetAvailable]
           /\ UNCHANGED <<models, at, attempt, cancelled, index>>
  <2>1. models[r] = <<>>
    BY <1>1, <1>3 DEF Knows, At
  <2>2. LocalStep(r)
    BY <1>1, <1>3, AvailableIs DEF LocalStep, LocalTypes, PcInv, PcStates, Goto
  <2>3. pc'[r] = "filter" /\ todo'[r] = GetAvailable /\ models'[r] = <<>>
    BY <1>1, <1>3, <2>1 DEF Goto, LocalTypes, PcInv
  <2>4. Len(GetAvailable) + Len(<<>>) <= Len(ModelList)
    BY <1>1, AvailableIs
  <2> HIDE DEF GetAvailable
  <2> QED BY <1>1, <1>3, <2>2, <2>3, <2>4 DEF Knows, Ended, Calling
<1>4. CASE FilterHealthy(r)
  <2>1. todo[r] # <<>> /\ pc[r] = "filter" /\ Len(todo[r]) + Len(models[r]) <= Len(ModelList)
    BY <1>1, <1>4 DEF FilterHealthy, At, Knows
  <2>2. Head(todo[r]) \in Models /\ Tail(todo[r]) \in Seq(Models) /\ Len(Tail(todo[r])) = Len(todo[r]) - 1
    BY <1>1, <2>1, HeadTailProperties
  <2> DEFINE m == Head(todo[r])
  <2>3. Append(models[r], m) \in Seq(Models) /\ Len(Append(models[r], m)) = Len(models[r]) + 1
    BY <1>1, <2>2, AppendProperties
  <2>4. PICK ms \in {models[r], Append(models[r], m)} : models' = [models EXCEPT ![r] = ms]
    BY <1>1, <1>4 DEF FilterHealthy, LocalTypes
  <2>5. ms \in Seq(Models) /\ Len(ms) \in Nat /\ Len(ms) <= Len(models[r]) + 1
    <3>1. CASE ms = models[r]
      BY <1>1, <3>1
    <3>2. CASE ms = Append(models[r], m)
      BY <1>1, <2>3, <3>2
    <3> QED BY <2>4, <3>1, <3>2
  <2>6. /\ todo' = [todo EXCEPT ![r] = Tail(todo[r])]
        /\ UNCHANGED <<index, pc, at, attempt, cancelled>>
    BY <1>4 DEF FilterHealthy
  <2> HIDE DEF m
  <2>7. LocalStep(r)
    BY <1>1, <2>2, <2>4, <2>5, <2>6 DEF LocalStep, LocalTypes, PcInv
  <2>8. pc'[r] = "filter" /\ todo'[r] = Tail(todo[r]) /\ models'[r] = ms
    BY <1>1, <2>1, <2>4, <2>6 DEF LocalTypes
  <2>9. Len(Tail(todo[r])) + Len(ms) <= Len(ModelList)
    <3>1. \A i, j, k, l, n \in Nat : i + j <= n /\ k = i - 1 /\ l <= j + 1 => k + l <= n
      OBVIOUS
    <3>2. Len(Tail(todo[r])) \in Nat
      BY <2>2, LenProperties
    <3> QED BY <1>1, <2>1, <2>2, <2>5, <3>1, <3>2
  <2> QED BY <1>1, <2>6, <2>7, <2>8, <2>9 DEF Knows, Ended, Calling
<1>5. ASSUME NEW m \in Models, Selected(r, m), At(r, "filter")
      PROVE  LocalStep(r) /\ Knows(r)'
  <2>1. CASE End(r, "answered")
    BY <1>1, <2>1, EndKnows DEF Ended
  <2>2. CASE /\ Goto(r, "chain") /\ models' = [models EXCEPT ![r] = <<m>>]
             /\ UNCHANGED <<todo, at, attempt, cancelled>>
    <3>1. LocalStep(r)
      BY <1>1, <2>2 DEF LocalStep, LocalTypes, PcInv, PcStates, Goto
    <3>2. pc'[r] = "chain" /\ models'[r] = <<m>>
      BY <1>1, <2>2 DEF Goto, LocalTypes, PcInv
    <3> QED BY <3>1, <3>2 DEF Knows, Ended, Calling
  <2> QED BY <1>5, <2>1, <2>2 DEF Selected
<1>6. CASE SelectRoundRobin(r)
  <2>1. CASE index < Len(models[r])
    <3>1. index + 1 \in 1..Len(models[r]) /\ models[r][index + 1] \in Models
      BY <1>1, <2>1, ElementOfSeq
    <3>2. LocalStep(r) /\ Knows(r)'
      BY <1>5, <1>6, <2>1, <3>1 DEF SelectRoundRobin, Selecting
    <3>3. Len(models[r]) <= Len(ModelList)
      BY <1>1, <1>6 DEF SelectRoundRobin, Selecting, At, Knows
    <3>4. index' = (index + 1) % Len(models[r])
      BY <1>6, <2>1 DEF SelectRoundRobin
    <3>5. index' \in 0..Len(models[r]) - 1
      <4>1. \A i, n \in Nat : i < n => (i + 1) % n \in 0..n - 1
        OBVIOUS
      <4>2. index \in Nat /\ Len(models[r]) \in Nat
        BY <1>1
      <4> QED BY ONLY <2>1, <3>4, <4>1, <4>2
    <3> QED BY <1>1, <3>2, <3>3, <3>5
  <2>2. CASE ~(index < Len(models[r]))
    BY <1>2, <1>6, <2>2 DEF SelectRoundRobin, Ended
  <2> QED BY <2>1, <2>2
<1>7. CASE SelectByScore(r)
  <2>1. ToSet(models[r]) \in SUBSET Models
    BY <1>1, LenProperties, ElementOfSeq DEF ToSet
  <2> QED BY <1>1, <1>5, <1>7, <2>1 DEF SelectByScore, Selecting
<1> QED BY <1>2, <1>3, <1>4, <1>6, <1>7 DEF Route, RouteStart, NoneHealthy, Ended

\* Of the chain itself only BuildChain says something new.
LEMMA ExecuteKnows ==
  ASSUME ChainInv, NEW r \in Requests, Execute(r)
  PROVE  LocalStep(r) /\ Knows(r)' /\ UNCHANGED index
<1>1. /\ LocalTypes /\ Knows(r) /\ models[r] \in Seq(Models) /\ MaxAttempts \in Nat \ {0}
  BY RouterParameters DEF ChainInv, LocalTypes
<1>2. CASE BuildChain(r)
  <2>1. CASE End(r, "failed")
    BY <1>1, <1>2, <2>1, EndKnows DEF BuildChain, Ended
  <2>2. CASE ~End(r, "failed")
    <3> DEFINE c == SmartFallbackChain(Head(models[r]), GetAvailable)
    <3>1. /\ models' = [models EXCEPT ![r] = c]
          /\ at' = [at EXCEPT ![r] = 1] /\ attempt' = [attempt EXCEPT ![r] = 1]
          /\ pc' = [pc EXCEPT ![r] = "call"] /\ UNCHANGED <<todo, cancelled, index>>
      BY <1>2, <2>2 DEF BuildChain, Goto
    <3>2. Head(models[r]) \in Models
      BY <1>1, <1>2 DEF BuildChain, At, Knows
    <3>3. Distinct(c) /\ Len(c) \in Nat \ {0}
      BY <3>2, AvailableIs, ChainIsDistinct
    <3> HIDE DEF c
    <3>4. LocalStep(r)
      BY <1>1, <3>1, <3>3 DEF LocalStep, LocalTypes, PcInv, PcStates, Distinct
    <3>5. pc'[r] = "call" /\ models'[r] = c /\ at'[r] = 1
      BY <1>1, <3>1 DEF LocalTypes, PcInv
    <3>6. IsInjective(models'[r]) /\ at'[r] \in 1..Len(models'[r])
      BY <3>3, <3>5 DEF Distinct
    <3> QED BY <3>1, <3>4, <3>5, <3>6 DEF Knows, Ended
  <2> QED BY <2>1, <2>2
<1>3. CASE Attempt(r)
  <2>1. pc[r] \in Calling /\ pc[r] = "call" /\ UNCHANGED index
    BY <1>3 DEF Attempt, At, Calling
  <2>2. CASE End(r, "failed")
    BY <1>1, <2>1, <2>2, EndKnows DEF Ended
  <2>3. CASE AttemptFailed(r)
    BY <1>1, <2>1, <2>3, FailedKnows
  <2>4. CASE Goto(r, "calling") /\ UNCHANGED <<localVars, cancelled>>
    <3>1. LocalStep(r)
      BY <1>1, <2>4 DEF LocalStep, LocalTypes, PcInv, PcStates, Goto, localVars
    <3>2. pc'[r] = "calling" /\ models'[r] = models[r] /\ at'[r] = at[r]
      BY <1>1, <2>4 DEF Goto, localVars, LocalTypes, PcInv
    <3> QED BY <1>1, <2>1, <3>1, <3>2 DEF Knows, Ended, Calling
  <2> QED BY <1>3, <2>2, <2>3, <2>4 DEF Attempt
<1>4. ASSUME NEW ok \in BOOLEAN, CallReturns(r, ok) PROVE LocalStep(r) /\ Knows(r)' /\ UNCHANGED index
  BY <1>1, <1>4, EndKnows, FailedKnows DEF CallReturns, At, Calling, Ended
<1>5. CASE Backoff(r)
  <2>1. CASE End(r, "failed")
    BY <1>1, <1>5, <2>1, EndKnows DEF Backoff, Ended
  <2>2. CASE ~End(r, "failed")
    <3>1. /\ attempt' = [attempt EXCEPT ![r] = attempt[r] + 1]
          /\ pc' = [pc EXCEPT ![r] = "call"] /\ UNCHANGED <<todo, models, at, cancelled, index>>
      BY <1>5, <2>2 DEF Backoff, Goto
    <3>2. attempt[r] + 1 \in 0..MaxAttempts /\ pc[r] = "backoff"
      BY <1>1, <1>5 DEF Backoff, At, Knows, LocalTypes
    <3>3. LocalStep(r)
      BY <1>1, <3>1, <3>2 DEF LocalStep, LocalTypes, PcInv, PcStates
    <3>4. pc'[r] = "call" /\ models'[r] = models[r] /\ at'[r] = at[r]
      BY <1>1, <3>1 DEF LocalTypes, PcInv
    <3> QED BY <1>1, <3>1, <3>2, <3>3, <3>4 DEF Knows, Ended, Calling
  <2> QED BY <2>1, <2>2
<1> QED BY <1>2, <1>3, <1>4, <1>5 DEF Execute

LEMMA ChainStep == ChainInv /\ [Next]_vars => ChainInv'
<1> SUFFICES ASSUME ChainInv, [Next]_vars PROVE ChainInv'
  OBVIOUS
<1>1. Len(ModelList) \in Nat \ {0}
  BY RouterParameters, EmptySeq, LenProperties
<1>2. ASSUME NEW r \in Requests, Route(r) \/ Execute(r) PROVE ChainInv'
  BY <1>2, RouteKnows, ExecuteKnows, OthersKnow DEF ChainInv
<1>3. ASSUME NEW r \in Requests, Cancel(r) PROVE ChainInv'
  <2>1. /\ cancelled' = [cancelled EXCEPT ![r] = TRUE]
        /\ UNCHANGED <<pc, todo, models, at, attempt, index>>
    BY <1>3 DEF Cancel, localVars
  <2> QED BY <2>1 DEF ChainInv, LocalTypes, PcInv, Knows
<1>4. ASSUME NEW r \in Requests, Renew(r) PROVE ChainInv'
  <2>1. /\ pc' = [pc EXCEPT ![r] = "new"] /\ pc[r] \in Ended
        /\ UNCHANGED <<todo, models, at, attempt, cancelled, index>>
    BY <1>4 DEF Renew, Goto, localVars
  <2>2. LocalStep(r)
    BY <2>1 DEF LocalStep, LocalTypes, PcInv, PcStates, ChainInv
  <2>3. pc'[r] = "new" /\ models'[r] = <<>>
    BY <2>1 DEF ChainInv, LocalTypes, PcInv, Knows
  <2>4. Knows(r)'
    BY <2>3 DEF Knows, Calling
  <2> QED BY <2>1, <2>2, <2>4, OthersKnow DEF ChainInv
<1>5. ASSUME UNCHANGED reqVars, index' \in {index, 0} PROVE ChainInv'
  <2>1. UNCHANGED <<pc, todo, models, at, attempt, cancelled>> /\ index' \in 0..Len(ModelList) - 1
    BY <1>1, <1>5 DEF reqVars, localVars, ChainInv
  <2> QED BY <2>1 DEF ChainInv, LocalTypes, PcInv, Knows
<1>6. CASE \/ \E m \in Models : BreakerTimeout(m) \/ MarkAvailability(m) \/ ResetBreaker(m)
           \/ \E a \in Algorithms : SetStrategy(a)
           \/ UNCHANGED vars
  BY <1>5, <1>6 DEF BreakerTimeout, MarkAvailability, ResetBreaker, SetStrategy, vars
<1> QED BY <1>2, <1>3, <1>4, <1>6 DEF Next

LEMMA ChainAlways == Spec => []ChainInv
<1>1. Init => ChainInv
  <2> SUFFICES ASSUME Init PROVE ChainInv
    OBVIOUS
  <2>1. Len(ModelList) \in Nat \ {0}
    BY RouterParameters, EmptySeq, LenProperties
  <2>2. /\ pc = [r \in Requests |-> "new"] /\ index = 0
        /\ todo = [r \in Requests |-> <<>>] /\ models = [r \in Requests |-> <<>>]
        /\ at = [r \in Requests |-> 0] /\ attempt = [r \in Requests |-> 0]
        /\ cancelled = [r \in Requests |-> FALSE]
    BY DEF Init
  <2>3. LocalTypes
    BY <2>2, RouterParameters DEF LocalTypes, PcInv, PcStates
  <2>4. \A r \in Requests : Knows(r)
    BY <2>2 DEF Knows, Calling
  <2> QED BY <2>1, <2>2, <2>3, <2>4 DEF ChainInv
<1> QED BY <1>1, ChainStep, PTL DEF Spec

\* Type correctness of the router: above all, the round-robin index is a
\* position in the list of all models, whichever lists it was computed from
\* (algorithms.go, SelectModel).
THEOREM RouterTypes == Spec => []RouterTypeOK
<1> DEFINE Marks == available \in SUBSET Models /\ algorithm \in Algorithms
<1>1. Init => Marks
  BY DEF Init
<1>2. Marks /\ [Next]_vars => Marks'
  <2> SUFFICES ASSUME Marks, [Next]_vars PROVE Marks'
    OBVIOUS
  <2>1. ASSUME NEW r \in Requests, Route(r) \/ Execute(r) \/ Cancel(r) \/ Renew(r)
        PROVE  UNCHANGED <<available, algorithm>>
    BY <2>1 DEF Route, RouteStart, FilterHealthy, NoneHealthy, SelectRoundRobin, SelectByScore,
                Execute, BuildChain, Attempt, CallReturns, Backoff, Cancel, Renew
  <2>2. ASSUME NEW m \in Models, BreakerTimeout(m) \/ ResetBreaker(m) PROVE UNCHANGED <<available, algorithm>>
    BY <2>2 DEF BreakerTimeout, ResetBreaker
  <2>3. ASSUME NEW m \in Models, MarkAvailability(m) PROVE Marks'
    BY <2>3 DEF MarkAvailability
  <2>4. ASSUME NEW a \in Algorithms, SetStrategy(a) PROVE Marks'
    BY <2>4 DEF SetStrategy
  <2>5. CASE UNCHANGED vars
    BY <2>5 DEF vars
  <2> QED BY <2>1, <2>2, <2>3, <2>4, <2>5 DEF Next
<1>3. BreakerInv /\ ChainInv /\ Marks => RouterTypeOK
  BY DEF BreakerInv, Sound, ChainInv, LocalTypes, PcInv, RouterTypeOK
<1> QED BY <1>1, <1>2, <1>3, BreakersAlways, ChainAlways, PTL DEF Spec

\* A request that calls models is at a position of its chain, and the chain
\* has no model twice, whatever the database said when it was put together
\* (SmartFallbackChain in fallback.go): no model gets more than MaxAttempts
\* calls of one request.
THEOREM FallbacksStayOthers == Spec => []FallbacksAreOthers
<1>1. ChainInv => FallbacksAreOthers
  BY DEF ChainInv, Knows, Calling, FallbacksAreOthers
<1> QED BY <1>1, ChainAlways, PTL
===============================================================================
