--------------------------- MODULE ModelHealthProofs ---------------------------
(***************************************************************************)
(* Safety of the health checker, for any models, thresholds and number of  *)
(* checks in flight.  A verdict agrees with its counters whatever order    *)
(* the results come in, for updateHealth restores that by itself.  That    *)
(* local models are left alone needs LocalChecks: a check of a local model *)
(* has seen in its copy just what it will report, and so never comes to    *)
(* the steps that write to the database.                                   *)
(***************************************************************************)
EXTENDS ModelHealth, TLAPS

Verdicts == [known : BOOLEAN, available : BOOLEAN,
             failures : 0..FailureThreshold, successes : 0..SuccessThreshold]
Runs     == [pc : {"idle", "ping", "update", "read", "up", "down"},
             saw : BOOLEAN, healthy : BOOLEAN]

-----------------------------------------------------------------------------
(* The two updates of a verdict.                                           *)

Agrees(h) == /\ h.available => h.failures < FailureThreshold
             /\ ~h.available => h.successes < SuccessThreshold

LEMMA BetterAgrees ==
  ASSUME NEW h \in Verdicts
  PROVE  Better(h) \in Verdicts /\ Agrees(Better(h))
<1> DEFINE n == AtMost(h.successes + 1, SuccessThreshold)
<1>1. n \in 0..SuccessThreshold
  BY HealthParameters DEF AtMost, Verdicts
<1> DEFINE a == h.available \/ n >= SuccessThreshold
<1>2. Better(h) = [known |-> TRUE, available |-> a, failures |-> 0, successes |-> n]
  BY DEF Better
<1>3. a \in BOOLEAN
  BY DEF Verdicts
<1> HIDE DEF n, a
<1>4. Better(h) \in Verdicts
  BY <1>1, <1>2, <1>3, HealthParameters DEF Verdicts
<1>5. Agrees(Better(h))
  <2>1. Better(h).failures = 0 /\ Better(h).successes = n
    BY <1>2
  <2>2. Better(h).available <=> (h.available \/ n >= SuccessThreshold)
    <3>1. Better(h).available = a
      BY <1>2, <1>3
    <3> QED BY <3>1, Zenon DEF a
  <2>3. ~Better(h).available => n < SuccessThreshold
    <3>1. ~Better(h).available => ~(n >= SuccessThreshold)
      BY <2>2, Zenon
    <3>2. ~(n >= SuccessThreshold) => n < SuccessThreshold
      BY <1>1, HealthParameters
    <3> QED BY <3>1, <3>2, Zenon
  <2>4. 0 < FailureThreshold
    BY HealthParameters
  <2> QED BY <2>1, <2>3, <2>4, Zenon DEF Agrees
<1> QED BY <1>4, <1>5

LEMMA WorseAgrees ==
  ASSUME NEW h \in Verdicts
  PROVE  Worse(h) \in Verdicts /\ Agrees(Worse(h))
<1> DEFINE n == AtMost(h.failures + 1, FailureThreshold)
<1>1. n \in 0..FailureThreshold
  BY HealthParameters DEF AtMost, Verdicts
<1> DEFINE a == h.available /\ n < FailureThreshold
<1>2. Worse(h) = [known |-> TRUE, available |-> a, failures |-> n, successes |-> 0]
  BY DEF Worse
<1>3. a \in BOOLEAN
  BY DEF Verdicts
<1> HIDE DEF n, a
<1>4. Worse(h) \in Verdicts
  BY <1>1, <1>2, <1>3, HealthParameters DEF Verdicts
<1>5. Agrees(Worse(h))
  <2>1. Worse(h).failures = n /\ Worse(h).successes = 0
    BY <1>2
  <2>2. Worse(h).available <=> (h.available /\ n < FailureThreshold)
    <3>1. Worse(h).available = a
      BY <1>2, <1>3
    <3> QED BY <3>1, Zenon DEF a
  <2>3. 0 < SuccessThreshold
    BY HealthParameters
  <2> QED BY <2>1, <2>2, <2>3, Zenon DEF Agrees
<1> QED BY <1>4, <1>5

-----------------------------------------------------------------------------
(* The inductive invariant.                                                *)

LocalChecks ==
  \A c \in Checks : c[1] \in Local =>
    /\ check[c].pc \in {"idle", "ping", "update"}
    /\ check[c].pc = "update" => check[c].healthy = check[c].saw

HealthInv == HealthTypeOK /\ VerdictAgrees /\ LocalChecks

\* A check goes on, and nothing else of it changes.
LEMMA ProceedKeeps ==
  ASSUME HealthInv, NEW c \in Checks,
         NEW pc \in {"idle", "read", "up", "down"}, Proceed(c, pc),
         c[1] \in Local => pc = "idle"
  PROVE  check' \in [Checks -> Runs] /\ LocalChecks'
<1> DEFINE r == IF pc = "idle" THEN Idle ELSE [check[c] EXCEPT !.pc = pc]
<1>1. check \in [Checks -> Runs] /\ LocalChecks
  BY DEF HealthInv, HealthTypeOK, Runs
<1>2. r \in Runs
  BY <1>1 DEF Runs, Idle
<1>3. pc = "idle" => r = Idle
  OBVIOUS
<1>4. check' = [check EXCEPT ![c] = r]
  BY DEF Proceed
<1> HIDE DEF r
<1>5. check' \in [Checks -> Runs]
  BY <1>1, <1>2, <1>4
<1>6. LocalChecks'
  BY <1>1, <1>3, <1>4 DEF LocalChecks, Idle
<1> QED BY <1>5, <1>6

LEMMA SpawnKeeps ==
  ASSUME HealthInv, SpawnChecks
  PROVE  check' \in [Checks -> Runs] /\ LocalChecks'
<1>1. check \in [Checks -> Runs] /\ LocalChecks
  BY DEF HealthInv, HealthTypeOK, Runs
<1>2. \A c \in Checks : \/ check'[c] = check[c]
                        \/ check'[c] = [Idle EXCEPT !.pc = "ping", !.saw = c[1] \in available]
  BY DEF SpawnChecks
<1>3. check' = [c \in Checks |-> check'[c]]
  BY DEF SpawnChecks
<1>4. ASSUME NEW c \in Checks
      PROVE  /\ [Idle EXCEPT !.pc = "ping", !.saw = c[1] \in available] \in Runs
             /\ [Idle EXCEPT !.pc = "ping", !.saw = c[1] \in available].pc = "ping"
  <2>1. (c[1] \in available) \in BOOLEAN
    OBVIOUS
  <2>2. ASSUME NEW b \in BOOLEAN
        PROVE  [Idle EXCEPT !.pc = "ping", !.saw = b] \in Runs
               /\ [Idle EXCEPT !.pc = "ping", !.saw = b].pc = "ping"
    BY DEF Idle, Runs
  <2> QED BY <2>1, <2>2, Zenon
<1>5. \A c \in Checks : check'[c] \in Runs
  BY <1>1, <1>2, <1>4
<1>6. LocalChecks'
  BY <1>1, <1>2, <1>4 DEF LocalChecks
<1> QED BY <1>3, <1>5, <1>6

LEMMA HealthStep ==
  ASSUME HealthInv, [Next]_vars
  PROVE  HealthInv' /\ available' \cap Local = available \cap Local
<1> USE DEF HealthInv
<1>0. /\ check \in [Checks -> Runs] /\ health \in [Models -> Verdicts]
      /\ Local \subseteq Models /\ \A c \in Checks : c[1] \in Models
  BY HealthParameters DEF HealthTypeOK, Runs, Verdicts
<1>1. ASSUME check' \in [Checks -> Runs] /\ LocalChecks', UNCHANGED health,
             available' \in SUBSET Models, up' \in SUBSET Models,
             first' \in BOOLEAN, ticking' \in BOOLEAN, stopped' \in BOOLEAN
      PROVE  HealthInv'
  BY <1>1 DEF HealthTypeOK, VerdictAgrees, Runs
<1>2. UNCHANGED check => check' \in [Checks -> Runs] /\ LocalChecks'
  BY <1>0 DEF LocalChecks
<1>3. CASE FirstRound
  BY <1>1, <1>2, <1>3, SpawnKeeps DEF FirstRound, HealthTypeOK
<1>4. CASE Tick
  BY <1>1, <1>4, SpawnKeeps DEF Tick, HealthTypeOK
<1>5. CASE Stop \/ LoopReturns \/ \E m \in Models : ProviderChanges(m)
  BY <1>1, <1>2, <1>5 DEF Stop, LoopReturns, ProviderChanges, HealthTypeOK
<1>6. ASSUME NEW c \in Checks, PingModel(c)
      PROVE  HealthInv' /\ available' \cap Local = available \cap Local
  <2> DEFINE r == [check[c] EXCEPT !.healthy = IF c[1] \in Local THEN check[c].saw ELSE c[1] \in up,
                                   !.pc = "update"]
  <2>1. check' = [check EXCEPT ![c] = r]
    BY <1>0, <1>6 DEF PingModel, Runs
  <2>2. r \in Runs /\ r.pc = "update" /\ (c[1] \in Local => r.healthy = r.saw)
    <3> DEFINE answer == IF c[1] \in Local THEN check[c].saw ELSE c[1] \in up
    <3>1. answer \in BOOLEAN /\ (c[1] \in Local => answer = check[c].saw)
      <4>1. (c[1] \in up) \in BOOLEAN
        OBVIOUS
      <4>2. check[c].saw \in BOOLEAN
        BY <1>0 DEF Runs
      <4> QED BY <4>1, <4>2, Zenon
    <3>2. r = [check[c] EXCEPT !.healthy = answer, !.pc = "update"]
      OBVIOUS
    <3> HIDE DEF answer, r
    <3> QED BY <1>0, <3>1, <3>2 DEF Runs
  <2> HIDE DEF r
  <2>3. check' \in [Checks -> Runs] /\ LocalChecks'
    BY <1>0, <2>1, <2>2 DEF LocalChecks
  <2> QED BY <1>1, <1>6, <2>3 DEF PingModel, HealthTypeOK
<1>7. ASSUME NEW c \in Checks, UpdateHealth(c)
      PROVE  HealthInv' /\ available' \cap Local = available \cap Local
  <2>1. AfterUpdate(check[c]) \in {"idle", "read", "up", "down"}
    BY DEF AfterUpdate
  <2>2. c[1] \in Local => AfterUpdate(check[c]) = "idle"
    <3>1. c[1] \in Local => check[c].healthy = check[c].saw
      BY <1>7 DEF UpdateHealth, LocalChecks
    <3>2. check[c].healthy \in BOOLEAN /\ check[c].saw \in BOOLEAN
      BY <1>0 DEF Runs
    <3> QED BY <3>1, <3>2, Zenon DEF AfterUpdate
  <2>3. check' \in [Checks -> Runs] /\ LocalChecks'
    BY <1>7, <2>1, <2>2, ProceedKeeps DEF UpdateHealth
  <2>4. PICK h \in Verdicts : Agrees(h) /\ health' = [health EXCEPT ![c[1]] = h]
    BY <1>0, <1>7, BetterAgrees, WorseAgrees DEF UpdateHealth
  <2>5. health' \in [Models -> Verdicts]
    BY <1>0, <2>4
  <2>6. VerdictAgrees'
    BY <1>0, <2>4 DEF VerdictAgrees, Agrees
  <2> QED BY <1>7, <2>3, <2>5, <2>6 DEF UpdateHealth, HealthTypeOK, Runs, Verdicts
<1>8. ASSUME NEW c \in Checks, ReadFailures(c)
      PROVE  HealthInv' /\ available' \cap Local = available \cap Local
  <2>1. c[1] \notin Local
    BY <1>8 DEF ReadFailures, LocalChecks
  <2>2. check' \in [Checks -> Runs] /\ LocalChecks'
    BY <1>8, <2>1, ProceedKeeps DEF ReadFailures
  <2> QED BY <1>1, <1>8, <2>2 DEF ReadFailures, HealthTypeOK
<1>9. ASSUME NEW c \in Checks, MarkAvailable(c) \/ MarkUnavailable(c) \/ MarkFails(c)
      PROVE  HealthInv' /\ available' \cap Local = available \cap Local
  <2>1. c[1] \notin Local
    BY <1>9 DEF MarkAvailable, MarkUnavailable, MarkFails, LocalChecks
  <2>2. check' \in [Checks -> Runs] /\ LocalChecks'
    BY <1>9, <2>1, ProceedKeeps DEF MarkAvailable, MarkUnavailable, MarkFails
  <2>3. available' \in SUBSET Models /\ available' \cap Local = available \cap Local
    BY <1>0, <1>9, <2>1 DEF MarkAvailable, MarkUnavailable, MarkFails, HealthTypeOK
  <2> QED BY <1>1, <1>9, <2>2, <2>3 DEF MarkAvailable, MarkUnavailable, MarkFails, HealthTypeOK
<1>10. CASE UNCHANGED vars
  BY <1>1, <1>2, <1>10 DEF vars, HealthTypeOK
<1> QED BY <1>3, <1>4, <1>5, <1>6, <1>7, <1>8, <1>9, <1>10 DEF Next, CheckModel

LEMMA HealthAlways == Spec => []HealthInv
<1>1. Init => HealthInv
  <2> SUFFICES ASSUME Init PROVE HealthInv
    OBVIOUS
  <2>1. \A m \in Models : health[m] = [known |-> FALSE, available |-> TRUE, failures |-> 0, successes |-> 0]
    BY DEF Init
  <2>2. [known |-> FALSE, available |-> TRUE, failures |-> 0, successes |-> 0] \in Verdicts
    BY HealthParameters DEF Verdicts
  <2>3. health \in [Models -> Verdicts]
    BY <2>2 DEF Init
  <2>4. VerdictAgrees
    <3>1. \A m \in Models : health[m].available = TRUE /\ health[m].failures = 0
      <4>1. ASSUME NEW a \in BOOLEAN, NEW v,
                   v = [known |-> FALSE, available |-> a, failures |-> 0, successes |-> 0]
            PROVE  v.available = a /\ v.failures = 0
        BY <4>1
      <4> QED BY <2>1, <4>1, Zenon
    <3>2. 0 < FailureThreshold
      BY HealthParameters
    <3> QED BY <3>1, <3>2, Zenon DEF VerdictAgrees
  <2>5. Idle \in Runs
    BY DEF Idle, Runs
  <2>6. check \in [Checks -> Runs] /\ LocalChecks
    BY <2>5 DEF Init, LocalChecks, Idle
  <2> QED BY <2>3, <2>4, <2>6 DEF Init, HealthInv, HealthTypeOK, Runs, Verdicts
<1> QED BY <1>1, HealthStep, PTL DEF Spec

\* Verdicts, counters and checks stay in their types; no counter passes its threshold.
THEOREM HealthTypes == Spec => []HealthTypeOK
<1>1. HealthInv => HealthTypeOK
  BY DEF HealthInv
<1> QED BY <1>1, HealthAlways, PTL

\* However many rounds overlap, healthMap never calls a model available that has failed
\* failureThreshold times in a row, nor one unavailable that has answered
\* successThreshold times (health_checker.go, updateHealth).
THEOREM VerdictsAgree == Spec => []VerdictAgrees
<1>1. HealthInv => VerdictAgrees
  BY DEF HealthInv
<1> QED BY <1>1, HealthAlways, PTL

\* No check, however late, writes to the database whether a local model is available
\* (pingModel); what healthMap says of it does change (updateHealth), and is not meant.
THEOREM LocalModelsAreLeftAlone == Spec => LocalIsLeftAlone
<1>1. HealthInv /\ [Next]_vars => [available' \cap Local = available \cap Local]_vars
  BY HealthStep
<1> QED BY <1>1, HealthAlways, PTL DEF Spec, LocalIsLeftAlone
===============================================================================
