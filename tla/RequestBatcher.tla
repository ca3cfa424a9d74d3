---------------------------- MODULE RequestBatcher ----------------------------
(***************************************************************************)
(* The request batcher (internal/optimization/batcher.go): requests for    *)
(* one model are collected in a pending batch, which a goroutine of its    *)
(* own answers when it is full, heavy or old enough, or when the batcher   *)
(* is closed.                                                              *)
(*                                                                         *)
(* A batch is the sequence of its requests.  Left out: prompts and their   *)
(* answers, of which the i-th is always that of the i-th request, costs    *)
(* and statistics.                                                         *)
(***************************************************************************)
EXTENDS Integers, Sequences, FiniteSets, SequencesExt

CONSTANTS
  Requests,
  Models,
  ModelOf,         \* the field Model of each request
  Tokens,          \* the field Tokens of each request
  MaxBatchSize,
  MaxTokens

ASSUME BatcherParameters ==
  /\ IsFiniteSet(Requests) /\ IsFiniteSet(Models)
  /\ ModelOf \in [Requests -> Models] /\ Tokens \in [Requests -> Nat]
  /\ MaxBatchSize \in Nat \ {0} /\ MaxTokens \in Nat \ {0}

VARIABLES
  enabled,   \* config.Enabled
  fresh,     \* the requests that nobody has submitted yet
  pending,   \* pendingBatches; <<>> when there is none for a model
  old,       \* models whose pending batch has waited for MaxWaitTime
  taken,     \* batchesToProcess of checkAndProcessBatches, outside the lock
  running,   \* goroutines in processBatch: what they still have to answer
  results,   \* how often something was sent on ResultChan
  loop,      \* processBatchesLoop has not returned
  closing    \* progress of Close

vars == <<enabled, fresh, pending, old, taken, running, results, loop, closing>>

Batches == SeqOf(Requests, MaxBatchSize)

BatcherTypeOK ==
  /\ enabled \in BOOLEAN /\ loop \in BOOLEAN
  /\ fresh \in SUBSET Requests /\ old \in SUBSET Models
  /\ pending \in [Models -> SeqOf(Requests, MaxBatchSize - 1)]
  /\ \A b \in Range(taken) \cup Range(running) : b \in Batches \ {<<>>}
  /\ results \in [Requests -> 0..1]
  /\ closing \in {"open", "stopped", "swept"}

Init ==
  /\ enabled \in BOOLEAN
  /\ fresh = Requests
  /\ pending = [m \in Models |-> <<>>]
  /\ old = {} /\ taken = <<>> /\ running = <<>>
  /\ results = [r \in Requests |-> 0]
  /\ loop = TRUE /\ closing = "open"

\* The loop of shouldProcessBatch over the requests of a batch.
TokensOf(b) ==
  LET total[n \in 0..Len(b)] == IF n = 0 THEN 0 ELSE total[n - 1] + Tokens[b[n]] IN
  total[Len(b)]

-----------------------------------------------------------------------------
(* Submit.                                                                 *)

\* Only the size is looked at.
ReadyBySize(b, m) == Len(b) >= MaxBatchSize

\* shouldProcessBatch.
Ready(b, m) == Len(b) >= MaxBatchSize \/ TokensOf(b) >= MaxTokens \/ m \in old

SubmitDisabled(r) ==
  /\ ~enabled /\ r \in fresh
  /\ fresh' = fresh \ {r}
  /\ running' = Append(running, <<r>>)
  /\ UNCHANGED <<enabled, pending, old, taken, results, loop, closing>>

\* A batch that is started and stays in the map.
SubmitKeepsBatch(r) ==
  LET m == ModelOf[r]
      b == Append(pending[m], r) IN
  /\ enabled /\ r \in fresh
  /\ fresh' = fresh \ {r}
  /\ pending' = [pending EXCEPT ![m] = b]
  /\ running' = IF Ready(b, m) THEN Append(running, b) ELSE running
  /\ UNCHANGED <<enabled, old, taken, results, loop, closing>>

Submit(r) ==
  LET m == ModelOf[r]
      b == Append(pending[m], r) IN
  /\ enabled /\ r \in fresh
  /\ fresh' = fresh \ {r}
  /\ IF Ready(b, m)
     THEN /\ running' = Append(running, b)
          /\ pending' = [pending EXCEPT ![m] = <<>>]
          /\ old' = old \ {m}
     ELSE pending' = [pending EXCEPT ![m] = b] /\ UNCHANGED <<running, old>>
  /\ UNCHANGED <<enabled, taken, results, loop, closing>>

Age(m) ==
  /\ pending[m] # <<>> /\ m \notin old
  /\ old' = old \cup {m}
  /\ UNCHANGED <<enabled, fresh, pending, taken, running, results, loop, closing>>

-----------------------------------------------------------------------------
(* The loop, and the goroutines that answer.                               *)

PendingOf(S) == SetToSeq({pending[m] : m \in {n \in S : pending[n] # <<>>}})

\* checkAndProcessBatches takes the old batches out of the map under the lock and
\* starts their goroutines after it.
TakeOld ==
  /\ loop /\ taken = <<>> /\ old # {}
  /\ taken' = PendingOf(old)
  /\ pending' = [m \in Models |-> IF m \in old THEN <<>> ELSE pending[m]]
  /\ old' = {}
  /\ UNCHANGED <<enabled, fresh, running, results, loop, closing>>

\* A loop that looks at stopChan before it starts what it has taken.
StartTakenOpen ==
  /\ taken # <<>> /\ taken' = <<>>
  /\ running' = IF closing = "open" THEN running \o taken ELSE running
  /\ UNCHANGED <<enabled, fresh, pending, old, results, loop, closing>>

StartTaken ==
  /\ taken # <<>> /\ taken' = <<>>
  /\ running' = running \o taken
  /\ UNCHANGED <<enabled, fresh, pending, old, results, loop, closing>>

\* A tick may win the select although stopChan is closed.
LoopReturns ==
  /\ loop /\ taken = <<>> /\ closing # "open"
  /\ loop' = FALSE
  /\ UNCHANGED <<enabled, fresh, pending, old, taken, running, results, closing>>

\* The next request of a batch gets its result; its channel has room for one, and
\* is closed.
Answer(i) ==
  /\ i \in DOMAIN running
  /\ results' = [results EXCEPT ![Head(running[i])] = @ + 1]
  /\ running' = IF Len(running[i]) = 1 THEN RemoveAt(running, i)
                                       ELSE [running EXCEPT ![i] = Tail(@)]
  /\ UNCHANGED <<enabled, fresh, pending, old, taken, loop, closing>>

-----------------------------------------------------------------------------
(* Close.                                                                  *)

Close ==
  /\ closing = "open" /\ closing' = "stopped"
  /\ UNCHANGED <<enabled, fresh, pending, old, taken, running, results, loop>>

\* The map is dropped with what is in it.
CloseDrops ==
  /\ closing = "stopped" /\ closing' = "swept"
  /\ pending' = [m \in Models |-> <<>>] /\ old' = {}
  /\ UNCHANGED <<enabled, fresh, taken, running, results, loop>>

\* What is left goes into one last batch.
CloseMerges ==
  /\ closing = "stopped" /\ closing' = "swept"
  /\ running' = IF pending = [m \in Models |-> <<>>] THEN running
                ELSE Append(running, FlattenSeq(PendingOf(Models)))
  /\ pending' = [m \in Models |-> <<>>] /\ old' = {}
  /\ UNCHANGED <<enabled, fresh, taken, results, loop>>

CloseSweeps ==
  /\ closing = "stopped" /\ closing' = "swept"
  /\ running' = running \o PendingOf(Models)
  /\ pending' = [m \in Models |-> <<>>] /\ old' = {}
  /\ UNCHANGED <<enabled, fresh, taken, results, loop>>

-----------------------------------------------------------------------------
Next ==
  \/ \E r \in Requests : Submit(r) \/ SubmitDisabled(r)
  \/ \E m \in Models : Age(m)
  \/ TakeOld \/ StartTaken \/ LoopReturns \/ Close \/ CloseSweeps
  \/ \E i \in DOMAIN running : Answer(i)

Spec == Init /\ [][Next]_vars

(* Time passes, the ticker ticks, and goroutines that can go on do; nobody  *)
(* has to submit anything or to close the batcher.                          *)
FairSpec ==
  /\ Spec
  /\ \A m \in Models : WF_vars(Age(m))
  /\ WF_vars(TakeOld) /\ WF_vars(StartTaken) /\ WF_vars(CloseSweeps)
  /\ WF_vars(\E i \in DOMAIN running : Answer(i))

-----------------------------------------------------------------------------
(* Properties.                                                             *)

\* All batches there are, the same one as often as it is there.
AllBatches == PendingOf(Models) \o taken \o running

Places(r) ==
  UNION {{<<k, j>> : j \in {i \in DOMAIN AllBatches[k] : AllBatches[k][i] = r}} :
         k \in DOMAIN AllBatches}

\* A request is in one place from Submit on: in one batch, or answered.  It is never
\* dropped, and never in two batches, whose second answer would panic on a closed
\* channel.
OnePlace ==
  \A r \in Requests : Cardinality(Places(r)) + results[r] = IF r \in fresh THEN 0 ELSE 1

\* What waits is below both limits, whatever the order of Submit, the loop and Close;
\* so no batch is bigger than MaxBatchSize, or reaches MaxTokens before its last
\* request.
Below(b) == Len(b) < MaxBatchSize /\ TokensOf(b) < MaxTokens

LimitsHold ==
  /\ \A b \in Range(pending) \cup Range(taken) : Below(b)
  /\ \A b \in Range(running) : Below(Front(b))

\* A batch is answered by one call for one model: all its requests asked for it, also
\* in what the loop takes and Close sweeps.
OneModel == \A b \in Range(AllBatches) : \A i, j \in DOMAIN b : ModelOf[b[i]] = ModelOf[b[j]]

\* Requests are grouped without being lost, doubled, mixed up or held back.
BatchesAreWhole == OnePlace /\ LimitsHold /\ OneModel

\* Whoever is in the map when Close comes to sweep it, or in a batch, is answered.
\* (Who comes to the map after Close is answered only if others fill the batch.)
Waiting(r) == \/ closing # "swept" /\ r \in Range(pending[ModelOf[r]])
              \/ \E b \in Range(taken \o running) : r \in Range(b)

AllAnswered == \A r \in Requests : Waiting(r) ~> (results[r] = 1)
===============================================================================
