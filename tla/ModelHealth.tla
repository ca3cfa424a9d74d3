------------------------------ MODULE ModelHealth ------------------------------
(***************************************************************************)
(* The health checker of the router (internal/router/health_checker.go):   *)
(* rounds of checks, one goroutine per model and round, which ping the     *)
(* provider, update healthMap under the lock and then the database, whose  *)
(* column "available" is what Route goes by.  Rounds may overlap.          *)
(*                                                                         *)
(* The two counters of consecutive results are only compared with their    *)
(* thresholds and reset: they stop at the threshold here.  Left out:       *)
(* times, totals and averages.                                             *)
(***************************************************************************)
EXTENDS Integers

CONSTANTS
  Models,
  Local,             \* models of the provider "local"
  FailureThreshold,
  SuccessThreshold,
  Checks             \* bound: pairs <<m, n>>, as many as checks of m in flight together

ASSUME HealthParameters ==
  /\ Local \in SUBSET Models
  /\ Checks \in SUBSET (Models \X Nat)
  /\ FailureThreshold \in Nat \ {0} /\ SuccessThreshold \in Nat \ {0}

VARIABLES
  available,  \* the models marked available in the database
  up,         \* the models whose provider answers a ping; nobody pings a local one
  health,     \* healthMap; every model starts out as not known
  check,      \* the check goroutines
  first,      \* the round that Start begins with has not yet begun
  ticking,    \* periodicCheck has not returned
  stopped     \* stopChan is closed

vars == <<available, up, health, check, first, ticking, stopped>>

Idle == [pc |-> "idle", saw |-> FALSE, healthy |-> FALSE]

HealthTypeOK ==
  /\ available \in SUBSET Models /\ up \in SUBSET Models
  /\ health \in [Models -> [known : BOOLEAN, available : BOOLEAN,
                            failures : 0..FailureThreshold, successes : 0..SuccessThreshold]]
  /\ check \in [Checks ->
                  [pc : {"idle", "ping", "update", "read", "up", "down"},
                   saw : BOOLEAN, healthy : BOOLEAN]]
  /\ first \in BOOLEAN /\ ticking \in BOOLEAN /\ stopped \in BOOLEAN

Init ==
  /\ available \in SUBSET Models /\ up \in SUBSET (Models \ Local)
  /\ health = [m \in Models |->
                 [known |-> FALSE, available |-> TRUE, failures |-> 0, successes |-> 0]]
  /\ check = [c \in Checks |-> Idle]
  /\ first = TRUE /\ ticking = TRUE /\ stopped = FALSE

AtMost(n, max) == IF n > max THEN max ELSE n

-----------------------------------------------------------------------------
(* checkAllModels and checkModel.                                          *)

IdleSlots(m) == {c \in Checks : c[1] = m /\ check[c].pc = "idle"}
NextSlot(m)  == CHOOSE c \in IdleSlots(m) : \A d \in IdleSlots(m) : c[2] <= d[2]

\* The list of models is read once, availability included, and every model
\* gets a goroutine that works on that copy.
SpawnChecks ==
  /\ \A m \in Models : IdleSlots(m) # {}
  /\ check' = [c \in Checks |->
                 IF c = NextSlot(c[1])
                 THEN [Idle EXCEPT !.pc = "ping", !.saw = c[1] \in available]
                 ELSE check[c]]

\* The goroutine that Start starts; when the list cannot be read the round
\* is over.  (Such a round of periodicCheck changes nothing.)
FirstRound ==
  /\ first /\ first' = FALSE
  /\ SpawnChecks \/ UNCHANGED check
  /\ UNCHANGED <<available, up, health, ticking, stopped>>

\* A tick that comes together with the close of stopChan may win the select.
Tick ==
  /\ ticking
  /\ SpawnChecks
  /\ UNCHANGED <<available, up, health, first, ticking, stopped>>

\* For a local model the database is the answer.
PingModel(c) ==
  /\ check[c].pc = "ping"
  /\ check' = [check EXCEPT
                 ![c].healthy = IF c[1] \in Local THEN check[c].saw ELSE c[1] \in up,
                 ![c].pc = "update"]
  /\ UNCHANGED <<available, up, health, first, ticking, stopped>>

\* updateHealth for a ping that was answered and one that was not.
Better(h) ==
  LET n == AtMost(h.successes + 1, SuccessThreshold) IN
  [known |-> TRUE, available |-> h.available \/ n >= SuccessThreshold,
   failures |-> 0, successes |-> n]

\* A failure that leaves the run of successes standing.
WorseKeepsRun(h) ==
  LET n == AtMost(h.failures + 1, FailureThreshold) IN
  [known |-> TRUE, available |-> h.available /\ n < FailureThreshold,
   failures |-> n, successes |-> h.successes]

Worse(h) ==
  LET n == AtMost(h.failures + 1, FailureThreshold) IN
  [known |-> TRUE, available |-> h.available /\ n < FailureThreshold,
   failures |-> n, successes |-> 0]

\* What is left to do is decided by the copy that the check started from.
AfterUpdate(r) ==
  CASE r.healthy /\ ~r.saw -> "up"
    [] ~r.healthy /\ r.saw -> "read"
    [] OTHER -> "idle"

Proceed(c, pc) ==
  check' = [check EXCEPT ![c] = IF pc = "idle" THEN Idle ELSE [@ EXCEPT !.pc = pc]]

UpdateHealth(c) ==
  /\ check[c].pc = "update"
  /\ health' = [health EXCEPT ![c[1]] = IF check[c].healthy THEN Better(@) ELSE Worse(@)]
  /\ Proceed(c, AfterUpdate(check[c]))
  /\ UNCHANGED <<available, up, first, ticking, stopped>>

\* GetHealth, with the lock taken anew: another check may have come between.
ReadFailures(c) ==
  /\ check[c].pc = "read"
  /\ Proceed(c, IF health[c[1]].failures >= FailureThreshold THEN "down" ELSE "idle")
  /\ UNCHANGED <<available, up, health, first, ticking, stopped>>

\* A mark that is set only for a model that healthMap has as unavailable.
MarkAvailableFirstOnly(c) ==
  /\ check[c].pc = "up"
  /\ available' = IF health[c[1]].failures = 0 /\ ~health[c[1]].available
                  THEN available \cup {c[1]} ELSE available
  /\ Proceed(c, "idle")
  /\ UNCHANGED <<up, health, first, ticking, stopped>>

MarkAvailable(c) ==
  /\ check[c].pc = "up"
  /\ available' = available \cup {c[1]}
  /\ Proceed(c, "idle")
  /\ UNCHANGED <<up, health, first, ticking, stopped>>

MarkUnavailable(c) ==
  /\ check[c].pc = "down"
  /\ available' = available \ {c[1]}
  /\ Proceed(c, "idle")
  /\ UNCHANGED <<up, health, first, ticking, stopped>>

\* The update fails: the error is logged and the check is over.
MarkFails(c) ==
  /\ check[c].pc \in {"up", "down"}
  /\ Proceed(c, "idle")
  /\ UNCHANGED <<available, up, health, first, ticking, stopped>>

-----------------------------------------------------------------------------
(* Stop, and the providers.                                                *)

Stop ==
  /\ ~stopped /\ stopped' = TRUE
  /\ UNCHANGED <<available, up, health, check, first, ticking>>

LoopReturns ==
  /\ stopped /\ ticking /\ ticking' = FALSE
  /\ UNCHANGED <<available, up, health, check, first, stopped>>

ProviderChanges(m) ==
  /\ m \notin Local
  /\ up' = IF m \in up THEN up \ {m} ELSE up \cup {m}
  /\ UNCHANGED <<available, health, check, first, ticking, stopped>>

-----------------------------------------------------------------------------
CheckModel(c) ==
  \/ PingModel(c) \/ UpdateHealth(c) \/ ReadFailures(c)
  \/ MarkAvailable(c) \/ MarkUnavailable(c) \/ MarkFails(c)

Next ==
  \/ FirstRound \/ Tick \/ Stop \/ LoopReturns
  \/ \E m \in Models : ProviderChanges(m)
  \/ \E c \in Checks : CheckModel(c)

Spec == Init /\ [][Next]_vars

(* Checks go on (a ping has a timeout), the ticker ticks, the select sees   *)
(* stopChan sooner or later, and the database does not fail for ever.       *)
FairSpec ==
  /\ Spec
  /\ WF_vars(FirstRound) /\ WF_vars(Tick) /\ SF_vars(LoopReturns)
  /\ \A c \in Checks : WF_vars(CheckModel(c))
  /\ \A m \in Models \ Local :
       /\ SF_vars(\E c \in Checks : c[1] = m /\ MarkAvailable(c))
       /\ SF_vars(\E c \in Checks : c[1] = m /\ MarkUnavailable(c))

-----------------------------------------------------------------------------
(* Properties.                                                             *)

\* The verdict on a model and the counters it rests on are never apart, in
\* whatever order the results of overlapping rounds arrive.
VerdictAgrees ==
  \A m \in Models :
    /\ health[m].available => health[m].failures < FailureThreshold
    /\ ~health[m].available => health[m].successes < SuccessThreshold

\* The database is the source of truth about local models: no check, fresh or
\* late, changes its mark.
LocalIsLeftAlone == [][available' \cap Local = available \cap Local]_vars

\* Late checks write to the database what was true some time ago, but when a
\* provider stays as it is the map and the database both come to say so.
ViewsConverge ==
  \A m \in Models \ Local :
    /\ <>[](m \in up /\ ticking) => <>[](m \in available /\ health[m].available)
    /\ <>[](m \notin up /\ ticking) => <>[](m \notin available /\ ~health[m].available)

Quiet == ~ticking /\ ~first /\ \A c \in Checks : check[c].pc = "idle"

\* After Stop the checks that are under way end and no others begin.
StopQuiets == stopped ~> []Quiet
===============================================================================
