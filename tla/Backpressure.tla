------------------------------ MODULE Backpressure ------------------------------
(***************************************************************************)
(* Load shedding, and a circuit breaker that is read without its lock      *)
(* (internal/middleware/backpressure.go).  Requests pass both on their way *)
(* in; the pool's metrics, by which the first decides, are those of its    *)
(* last round, up to five seconds old.                                     *)
(*                                                                         *)
(* Loads are percentages; thresholds are in hundredths of a percent, so    *)
(* that the factors 0.7, 0.85 and 1.2 keep to integers.  Left out: the     *)
(* counters of accepted and rejected requests.                             *)
(***************************************************************************)
EXTENDS Integers, FiniteSets

CONSTANTS
  QueueThreshold,     \* percent
  AdaptiveThreshold, RejectLowPriority, EnableLoadShedding,
  Loads,              \* percentages that are met
  Clients,            \* requests on their way
  MaxFailures,        \* maxFailures of the breaker
  MaxCount            \* bound: failures that are counted

ASSUME BackpressureParameters ==
  /\ QueueThreshold \in 0..100
  /\ AdaptiveThreshold \in BOOLEAN /\ RejectLowPriority \in BOOLEAN /\ EnableLoadShedding \in BOOLEAN
  /\ 0 \in Loads /\ Loads \subseteq 0..100
  /\ IsFiniteSet(Clients) /\ MaxFailures \in Nat \ {0} /\ MaxCount \in Nat

Low == 1
Normal == 5
High == 10
Priorities == {Low, Normal, High}

\* calculateAdaptiveThreshold.
Adapted(workers) ==
  CASE workers > 90                   -> QueueThreshold * 70
    [] workers > 75 /\ workers <= 90  -> QueueThreshold * 85
    [] workers < 50                   -> QueueThreshold * 120
    [] workers >= 50 /\ workers <= 75 -> QueueThreshold * 100

Threshold(workers) == IF AdaptiveThreshold THEN Adapted(workers) ELSE QueueThreshold * 100

\* With the priorities of the two highest levels swapped.
AcceptsSwapped(queue, workers, priority) ==
  \/ ~EnableLoadShedding
  \/ queue * 100 < Threshold(workers)
  \/ queue >= 95 /\ priority >= Normal
  \/ queue >= 90 /\ queue < 95 /\ priority >= High
  \/ queue < 90 /\ (priority >= Normal \/ ~RejectLowPriority)

\* ShouldAcceptRequest.
Accepts(queue, workers, priority) ==
  \/ ~EnableLoadShedding
  \/ queue * 100 < Threshold(workers)
  \/ queue >= 95 /\ priority >= High
  \/ queue < 95 /\ (priority >= Normal \/ (queue < 90 /\ ~RejectLowPriority))

\* What the pool says of itself, which any round of its metrics may change.
VARIABLE usage

Idle == usage = [queue |-> 0, workers |-> 0]

GetMetrics == usage' \in [queue : Loads, workers : Loads]

SheddingSpec == Idle /\ [][GetMetrics]_usage

Refuses(priority) == ~Accepts(usage.queue, usage.workers, priority)

-----------------------------------------------------------------------------
(* The breaker.  Time matters only as far as the timeout has passed since  *)
(* the last failure, or not.                                               *)

VARIABLES
  state,
  failures,
  waited,      \* the timeout has passed since lastFailureTime
  client       \* what each request is at

breakerVars == <<state, failures, waited, client>>

Closed ==
  /\ state = "closed" /\ failures = 0 /\ waited = TRUE
  /\ client = [c \in Clients |-> "out"]

To(c, pc) == client' = [client EXCEPT ![c] = pc]

\* Allow: the state is loaded, and if it is open the time of the last
\* failure; "half" is where it found that the timeout had passed.
AllowLoad(c) ==
  /\ client[c] = "out"
  /\ \/ state # "open" /\ To(c, "in")
     \/ state = "open" /\ waited /\ To(c, "half")
     \/ state = "open" /\ ~waited /\ To(c, "out")
  /\ UNCHANGED <<state, failures, waited>>

AllowHalfOpen(c) ==
  /\ client[c] = "half"
  /\ state' = "half-open"
  /\ To(c, "in")
  /\ UNCHANGED <<failures, waited>>

\* RecordSuccess: the state is loaded before the lock is taken.
SuccessLoad(c) ==
  /\ client[c] = "in"
  /\ To(c, IF state = "half-open" THEN "close" ELSE "out")
  /\ UNCHANGED <<state, failures, waited>>

Unlocked == \A d \in Clients : client[d] # "failed"

\* A success that leaves the count.
SuccessForgets(c) ==
  /\ client[c] = "close" /\ Unlocked
  /\ state' = "closed"
  /\ To(c, "out")
  /\ UNCHANGED <<failures, waited>>

SuccessClose(c) ==
  /\ client[c] = "close" /\ Unlocked
  /\ failures' = 0 /\ state' = "closed"
  /\ To(c, "out")
  /\ UNCHANGED waited

\* RecordFailure holds the lock, but Allow stores without it: in the code
\* the counter, the time and the state are three stores, in this order.
FailureCount(c) ==
  /\ client[c] = "in" /\ failures < MaxCount /\ Unlocked
  /\ failures' = failures + 1 /\ waited' = FALSE
  /\ To(c, "failed")
  /\ UNCHANGED state

FailureOpen(c) ==
  /\ client[c] = "failed"
  /\ state' = IF failures >= MaxFailures THEN "open" ELSE state
  /\ To(c, "out")
  /\ UNCHANGED <<failures, waited>>

TimeoutPasses == ~waited /\ waited' = TRUE /\ UNCHANGED <<state, failures, client>>

BreakerNext ==
  \/ \E c \in Clients : \/ AllowLoad(c) \/ AllowHalfOpen(c)
                        \/ SuccessLoad(c) \/ SuccessClose(c)
                        \/ FailureCount(c) \/ FailureOpen(c)
  \/ TimeoutPasses

BreakerSpec == Closed /\ [][BreakerNext]_breakerVars

-----------------------------------------------------------------------------
(* Properties.                                                             *)

\* Whatever the adaptive threshold makes of it, shedding is fair: when the
\* load of the queue and of the workers rises, nobody is let in who was
\* refused before, and nobody of a lower priority in their place
\* (backpressure.go:66-103, 138).
SheddingIsMonotone ==
  [][usage'.queue >= usage.queue /\ usage'.workers >= usage.workers =>
       \A p \in Priorities : Refuses(p) => \A r \in Priorities : r <= p => Refuses(r)']_usage

\* Closed means few failures and open means many, although states are
\* loaded and stored without the lock that guards the counter, and a late
\* success closes a circuit that others have opened again
\* (backpressure.go:285, 310); between the stores of a failure the count may
\* be ahead.
StateFitsCount ==
  Unlocked =>
    /\ state = "closed" => failures < MaxFailures
    /\ state = "open" => failures >= MaxFailures
=================================================================================
