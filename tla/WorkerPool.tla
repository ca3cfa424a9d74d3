------------------------------ MODULE WorkerPool ------------------------------
(***************************************************************************)
(* The job pool of internal/worker/pool.go: callers of Submit, one bounded *)
(* channel per priority, worker goroutines, the auto-scaler, the health    *)
(* checker and Shutdown.  A goroutine is a number in Slots, given out in   *)
(* the order of the `go` statements and never reused; a worker id "worker-k" *)
(* is the number k, and the map p.workers is a function from ids to        *)
(* goroutines in which 0 stands for a missing key.                         *)
(*                                                                         *)
(* Left out: the metrics counters, which no step of the pool reads, and    *)
(* the payload and result of a job.                                        *)
(***************************************************************************)
EXTENDS Integers, Sequences, FiniteSets

CONSTANTS
  Jobs,           \* the *Job values handed to Submit, each submitted once
  NoJob,          \* CurrentJob == nil
  Priorities,     \* the priorities in use, one channel for each
  Prio,           \* Prio[j]: job.Priority
  QueueCap,       \* config.QueueSize/4, the capacity of every channel
  MinWorkers,     \* config.MinWorkers
  MaxWorkers,     \* config.MaxWorkers
  ScaleUpPct,     \* config.ScaleUpThreshold, in percent
  ScaleDownPct,   \* config.ScaleDownThreshold, in percent
  MaxSpawns,      \* bound: worker goroutines ever started
  MaxHealthTicks  \* bound: rounds of the health checker

ASSUME JobsAssumption == NoJob \notin Jobs /\ Prio \in [Jobs -> Priorities]
ASSUME SizeAssumption ==
  /\ QueueCap \in Nat \ {0}
  /\ MinWorkers \in Nat \ {0}
  /\ MaxWorkers \in Nat
  /\ MaxSpawns \in Nat
  /\ MinWorkers <= MaxWorkers
  /\ MaxWorkers <= MaxSpawns
  /\ MaxHealthTicks \in Nat
ASSUME ThresholdAssumption ==
  ScaleUpPct \in Nat /\ ScaleDownPct \in Nat /\ ScaleDownPct <= ScaleUpPct
ASSUME PrioritiesAssumption == IsFiniteSet(Priorities) /\ Priorities # {}

VARIABLES
  sub,        \* sub[j]: how far the call Submit(j) has come
  status,     \* status[j]: job.Status
  active,     \* the keys of p.activeJobs
  queue,      \* queue[p]: the buffered channel of priority p
  workers,    \* p.workers: id -> goroutine, 0 for no entry
  spawned,    \* worker goroutines started so far
  pc,         \* pc[g]: where runWorker of goroutine g is
  wstatus,    \* wstatus[g]: worker.Status
  job,        \* job[g]: the job g has received and not yet let go
  stop,       \* stop[g]: worker.stopChan is closed
  adding,     \* addWorker calls the scaler still has to make
  scan,       \* ids whose status the scaler still has to read
  victims,    \* ids the scaler still has to remove
  todo,       \* goroutines the health checker still has to look at
  mark,       \* the one it found unhealthy and is about to mark, or 0
  ticks,      \* rounds of the health checker so far
  cancelled,  \* p.ctx is cancelled
  bg,         \* background routines that have not returned
  shutdown    \* how far Shutdown has come

jobVars    == <<sub, status, active, queue>>
workerVars == <<pc, wstatus, job, stop>>
scaleVars  == <<workers, spawned, adding, scan, victims>>
healthVars == <<todo, mark, ticks>>
lifeVars   == <<cancelled, bg, shutdown>>
vars       == <<jobVars, workerVars, scaleVars, healthVars, lifeVars>>

Slots == 1..MaxSpawns
Ids   == 1..MaxWorkers

SubStates  == {"new", "tracked", "checked", "accepted", "rejected"}
Outcomes   == {"completed", "timeout", "failed"}
JobStates  == {"pending", "queued", "running"} \cup Outcomes
PcStates   == {"none", "top", "select", "got", "exec", "done", "exited"}
WorkerStates == {"idle", "busy", "unhealthy", "stopping", "stopped"}
Background == {"scale", "health", "metrics"}

TypeOK ==
  /\ sub \in [Jobs -> SubStates]
  /\ status \in [Jobs -> JobStates]
  /\ active \in SUBSET Jobs
  /\ queue \in [Priorities -> Seq(Jobs)]
  /\ workers \in [Ids -> 0..MaxSpawns]
  /\ spawned \in 0..MaxSpawns
  /\ pc \in [Slots -> PcStates]
  /\ wstatus \in [Slots -> WorkerStates]
  /\ job \in [Slots -> Jobs \cup {NoJob}]
  /\ stop \in [Slots -> BOOLEAN]
  /\ adding \in Nat
  /\ scan \in SUBSET Ids
  /\ victims \in SUBSET Ids
  /\ todo \in SUBSET Slots
  /\ mark \in 0..MaxSpawns
  /\ ticks \in 0..MaxHealthTicks
  /\ cancelled \in BOOLEAN
  /\ bg \in SUBSET Background
  /\ shutdown \in {"running", "waiting", "complete", "timedout"}

-----------------------------------------------------------------------------
(* Views of the state the code computes as it goes.                        *)

Registered  == {k \in Ids : workers[k] # 0}
WorkerCount == Cardinality(Registered)
Live        == {g \in Slots : pc[g] \notin {"none", "exited"}}

\* Smallest and largest of two numbers (the code's own min, and the
\* `if workersToAdd < 1` that follows it).
Least(a, b)    == IF a < b THEN a ELSE b
AtLeastOne(n) == IF n < 1 THEN 1 ELSE n

\* Half the distance to the limit, at most 5, at least 1.
ScaleStep(distance) == AtLeastOne(Least(distance \div 2, 5))

\* len() of the channels against cap(): both sums over the priorities.
QueuedSlots == {x \in Priorities \X (1..QueueCap) : x[2] <= Len(queue[x[1]])}
TotalQueued == Cardinality(QueuedSlots)
Capacity    == QueueCap * Cardinality(Priorities)

UtilAbove(pct) == TotalQueued * 100 > pct * Capacity
UtilBelow(pct) == TotalQueued * 100 < pct * Capacity

Init ==
  /\ sub = [j \in Jobs |-> "new"]
  /\ status = [j \in Jobs |-> "pending"]
  /\ active = {}
  /\ queue = [p \in Priorities |-> <<>>]
  /\ workers = [k \in Ids |-> IF k <= MinWorkers THEN k ELSE 0]
  /\ spawned = MinWorkers
  /\ pc = [g \in Slots |-> IF g <= MinWorkers THEN "top" ELSE "none"]
  /\ wstatus = [g \in Slots |-> "idle"]
  /\ job = [g \in Slots |-> NoJob]
  /\ stop = [g \in Slots |-> FALSE]
  /\ adding = 0
  /\ scan = {}
  /\ victims = {}
  /\ todo = {}
  /\ mark = 0
  /\ ticks = 0
  /\ cancelled = FALSE
  /\ bg = Background
  /\ shutdown = "running"

-----------------------------------------------------------------------------
(* Submit.  The status and the activeJobs entry come first; the context    *)
(* and the room in the channel are looked at only afterwards, and neither  *)
(* early return takes the entry back.                                      *)

\* A caller that hands an accepted job in again, as a retry would.
SubmitTrackAgain(j) ==
  /\ sub[j] \in {"new", "accepted"}
  /\ sub' = [sub EXCEPT ![j] = "tracked"]
  /\ status' = [status EXCEPT ![j] = "queued"]
  /\ active' = active \cup {j}
  /\ UNCHANGED <<queue, workerVars, scaleVars, healthVars, lifeVars>>

SubmitTrack(j) ==
  /\ sub[j] = "new"
  /\ sub' = [sub EXCEPT ![j] = "tracked"]
  /\ status' = [status EXCEPT ![j] = "queued"]
  /\ active' = active \cup {j}
  /\ UNCHANGED <<queue, workerVars, scaleVars, healthVars, lifeVars>>

SubmitCheckCtx(j) ==
  /\ sub[j] = "tracked"
  /\ sub' = [sub EXCEPT ![j] = IF cancelled THEN "rejected" ELSE "checked"]
  /\ UNCHANGED <<status, active, queue, workerVars, scaleVars, healthVars, lifeVars>>

\* A send that takes the entry back whether or not the job was queued.
SubmitSendUntracks(j) ==
  /\ sub[j] = "checked"
  /\ Len(queue[Prio[j]]) < QueueCap
  /\ sub' = [sub EXCEPT ![j] = "accepted"]
  /\ queue' = [queue EXCEPT ![Prio[j]] = Append(@, j)]
  /\ active' = active \ {j}
  /\ UNCHANGED <<status, workerVars, scaleVars, healthVars, lifeVars>>

\* The non-blocking send: a full channel takes the default branch.
SubmitSend(j) ==
  /\ sub[j] = "checked"
  /\ IF Len(queue[Prio[j]]) < QueueCap
     THEN /\ sub' = [sub EXCEPT ![j] = "accepted"]
          /\ queue' = [queue EXCEPT ![Prio[j]] = Append(@, j)]
     ELSE /\ sub' = [sub EXCEPT ![j] = "rejected"]
          /\ UNCHANGED queue
  /\ UNCHANGED <<status, active, workerVars, scaleVars, healthVars, lifeVars>>

-----------------------------------------------------------------------------
(* runWorker and processJob, one goroutine g.                              *)

\* The head of the for loop.
WorkerLoop(g) ==
  /\ pc[g] = "top"
  /\ pc' = [pc EXCEPT ![g] = "select"]
  /\ wstatus' = [wstatus EXCEPT ![g] = "idle"]
  /\ UNCHANGED <<job, stop, jobVars, scaleVars, healthVars, lifeVars>>

\* A worker that looks at the head of a queue and leaves it there.
WorkerTakePeeks(g, p) ==
  /\ pc[g] = "select"
  /\ queue[p] # <<>>
  /\ pc' = [pc EXCEPT ![g] = "got"]
  /\ job' = [job EXCEPT ![g] = Head(queue[p])]
  /\ UNCHANGED <<queue, sub, status, active, wstatus, stop, scaleVars, healthVars, lifeVars>>

\* select: a receive from any channel that has a job.
WorkerTake(g, p) ==
  /\ pc[g] = "select"
  /\ queue[p] # <<>>
  /\ pc' = [pc EXCEPT ![g] = "got"]
  /\ job' = [job EXCEPT ![g] = Head(queue[p])]
  /\ queue' = [queue EXCEPT ![p] = Tail(@)]
  /\ UNCHANGED <<sub, status, active, wstatus, stop, scaleVars, healthVars, lifeVars>>

\* select: the ten-second ticker.
WorkerHeartbeat(g) ==
  /\ pc[g] = "select"
  /\ pc' = [pc EXCEPT ![g] = "top"]
  /\ UNCHANGED <<wstatus, job, stop, jobVars, scaleVars, healthVars, lifeVars>>

\* Leaving the loop for good.
WorkerReturn(g) ==
  /\ pc[g] = "select"
  /\ pc' = [pc EXCEPT ![g] = "exited"]
  /\ wstatus' = [wstatus EXCEPT ![g] = "stopped"]
  /\ UNCHANGED <<job, stop, jobVars, scaleVars, healthVars, lifeVars>>

\* Going by the status, which every pass of the loop overwrites.
WorkerStopByStatus(g) == wstatus[g] = "stopping" /\ WorkerReturn(g)

\* select: stopChan is closed.
WorkerStop(g) == stop[g] /\ WorkerReturn(g)

\* A select without the case of the context.
WorkerCtxIgnored(g) == cancelled /\ stop[g] /\ WorkerReturn(g)

\* select: the pool's context is done.
WorkerCtxDone(g) == cancelled /\ WorkerReturn(g)

\* A worker that looks at stopChan once more and leaves with the job.
ProcessStartUnlessStopped(g) ==
  /\ pc[g] = "got"
  /\ pc' = [pc EXCEPT ![g] = IF stop[g] THEN "exited" ELSE "exec"]
  /\ status' = IF stop[g] THEN status ELSE [status EXCEPT ![job[g]] = "running"]
  /\ UNCHANGED <<wstatus, sub, active, queue, job, stop, scaleVars, healthVars, lifeVars>>

\* processJob up to the call of executeJob.
ProcessStart(g) ==
  /\ pc[g] = "got"
  /\ pc' = [pc EXCEPT ![g] = "exec"]
  /\ wstatus' = [wstatus EXCEPT ![g] = "busy"]
  /\ status' = [status EXCEPT ![job[g]] = "running"]
  /\ UNCHANGED <<sub, active, queue, job, stop, scaleVars, healthVars, lifeVars>>

\* executeJob returns: nil, or the error of the job's context, which is the
\* deadline's (timeout) or that of a call of job.Cancel (failed).
ExecuteJob(g, outcome) ==
  /\ pc[g] = "exec"
  /\ pc' = [pc EXCEPT ![g] = "done"]
  /\ status' = [status EXCEPT ![job[g]] = outcome]
  /\ UNCHANGED <<sub, active, queue, wstatus, job, stop, scaleVars, healthVars, lifeVars>>

\* CurrentJob = nil and delete(p.activeJobs, job.ID).
FinishJob(g) ==
  /\ pc[g] = "done"
  /\ pc' = [pc EXCEPT ![g] = "top"]
  /\ job' = [job EXCEPT ![g] = NoJob]
  /\ active' = active \ {job[g]}
  /\ UNCHANGED <<sub, status, queue, wstatus, stop, scaleVars, healthVars, lifeVars>>

-----------------------------------------------------------------------------
(* autoScale, run by scaleRoutine.  The decision is taken on one snapshot  *)
(* of queues and workers; the reads and calls it leads to come one by one. *)

ScalerIdle == "scale" \in bg /\ adding = 0 /\ scan = {} /\ victims = {}

CanGrowAtMax == WorkerCount <= MaxWorkers
CanGrow == WorkerCount < MaxWorkers

ScaleUp ==
  /\ ScalerIdle
  /\ UtilAbove(ScaleUpPct)
  /\ CanGrow
  /\ adding' = ScaleStep(MaxWorkers - WorkerCount)
  /\ spawned + adding' <= MaxSpawns      \* the bound on goroutines
  /\ UNCHANGED <<workers, spawned, scan, victims, jobVars, workerVars, healthVars, lifeVars>>

\* The loop over workersToAdd.
OneMore == adding > 0

\* addWorker: the new id is len(p.workers)+1, whatever ids are in use.
AddWorker ==
  /\ OneMore
  /\ adding' = adding - 1
  /\ spawned' = spawned + 1
  /\ workers' = [workers EXCEPT ![WorkerCount + 1] = spawned + 1]
  /\ pc' = [pc EXCEPT ![spawned + 1] = "top"]
  /\ UNCHANGED <<scan, victims, wstatus, job, stop, jobVars, healthVars, lifeVars>>

\* The other decision, and the start of the loop over p.workers.
ScaleDown ==
  /\ ScalerIdle
  /\ UtilBelow(ScaleDownPct)
  /\ WorkerCount > MinWorkers
  /\ scan' = Registered
  /\ UNCHANGED <<workers, spawned, adding, victims, jobVars, workerVars, healthVars, lifeVars>>

\* workersToRemove: only the scaler changes the map, so that it is still the
\* number of the decision while the loop runs.
ToRemove == ScaleStep(WorkerCount - MinWorkers)

\* One pass of the loop, the ids in any order: a worker that is idle when its
\* status is read is put down for removal, and the loop breaks when there are
\* enough.  The other workers go on meanwhile.
ScanWorker(k) ==
  /\ k \in scan
  /\ victims' = IF wstatus[workers[k]] = "idle" THEN victims \cup {k} ELSE victims
  /\ scan' = IF Cardinality(victims') >= ToRemove THEN {} ELSE scan \ {k}
  /\ UNCHANGED <<workers, spawned, adding, jobVars, workerVars, healthVars, lifeVars>>

RemoveWorker(k) ==
  /\ scan = {}
  /\ k \in victims
  /\ victims' = victims \ {k}
  /\ workers' = [workers EXCEPT ![k] = 0]
  /\ wstatus' = [wstatus EXCEPT ![workers[k]] = "stopping"]
  /\ stop' = [stop EXCEPT ![workers[k]] = TRUE]
  /\ UNCHANGED <<spawned, adding, scan, pc, job, jobVars, healthVars, lifeVars>>

-----------------------------------------------------------------------------
(* performHealthChecks: a snapshot of the workers, then for each of them a *)
(* read of its heartbeat and, under another lock, the mark.                *)

HealthTick ==
  /\ "health" \in bg
  /\ todo = {} /\ mark = 0
  /\ ticks < MaxHealthTicks
  /\ ticks' = ticks + 1
  /\ todo' = {workers[k] : k \in Registered}
  /\ UNCHANGED <<mark, jobVars, workerVars, scaleVars, lifeVars>>

\* IsHealthy: whether the last heartbeat is over thirty seconds old is for the
\* clock to say, as they may have gone by at any place of the worker's loop.
HealthRead(g) ==
  /\ g \in todo /\ mark = 0
  /\ todo' = todo \ {g}
  /\ mark' \in {0, g}
  /\ UNCHANGED <<ticks, jobVars, workerVars, scaleVars, lifeVars>>

HealthMark ==
  /\ mark # 0
  /\ wstatus' = [wstatus EXCEPT ![mark] = "unhealthy"]
  /\ mark' = 0
  /\ UNCHANGED <<todo, ticks, pc, job, stop, jobVars, scaleVars, lifeVars>>

-----------------------------------------------------------------------------
(* Shutdown, and the background routines that watch p.ctx.                 *)

ShutdownCancel ==
  /\ shutdown = "running"
  /\ shutdown' = "waiting"
  /\ cancelled' = TRUE
  /\ UNCHANGED <<bg, jobVars, workerVars, scaleVars, healthVars>>

\* A routine returns only between two ticks.
BackgroundExit(r) ==
  /\ r \in bg
  /\ cancelled
  /\ r = "scale" => ScalerIdle
  /\ r = "health" => todo = {} /\ mark = 0
  /\ bg' = bg \ {r}
  /\ UNCHANGED <<cancelled, shutdown, jobVars, workerVars, scaleVars, healthVars>>

\* A wait for the workers of the map and those taken out of it, by the doneChan
\* of each: one whose id was given to another is neither.
DrainedByDoneChan ==
  bg = {} /\ \A g \in Live : ~stop[g] /\ \A k \in Registered : workers[k] # g

\* wg.Wait() returns: the WaitGroup counts every goroutine, and not only
\* those still in the map.
Drained == bg = {} /\ Live = {}

ShutdownDone ==
  /\ shutdown = "waiting"
  /\ Drained
  /\ shutdown' = "complete"
  /\ UNCHANGED <<cancelled, bg, jobVars, workerVars, scaleVars, healthVars>>

ShutdownTimeout ==
  /\ shutdown = "waiting"
  /\ shutdown' = "timedout"
  /\ UNCHANGED <<cancelled, bg, jobVars, workerVars, scaleVars, healthVars>>

-----------------------------------------------------------------------------
Submit(j) == SubmitTrack(j) \/ SubmitCheckCtx(j) \/ SubmitSend(j)

Work(g) ==
  \/ WorkerLoop(g) \/ WorkerHeartbeat(g) \/ WorkerStop(g) \/ WorkerCtxDone(g)
  \/ \E p \in Priorities : WorkerTake(g, p)
  \/ ProcessStart(g)
  \/ \E o \in Outcomes : ExecuteJob(g, o)
  \/ FinishJob(g)

Scale == ScaleUp \/ AddWorker \/ ScaleDown \/ \E k \in Ids : ScanWorker(k) \/ RemoveWorker(k)

Health == HealthTick \/ HealthMark \/ \E g \in Slots : HealthRead(g)

Shutdown == ShutdownCancel \/ ShutdownDone \/ ShutdownTimeout

Next ==
  \/ \E j \in Jobs : Submit(j)
  \/ \E g \in Slots : Work(g)
  \/ Scale
  \/ Health
  \/ \E r \in Background : BackgroundExit(r)
  \/ Shutdown

Spec == Init /\ [][Next]_vars

(* Every goroutine that can run does run: weak fairness of its steps.  Go's *)
(* select chooses uniformly among the ready cases, so a case that is ready  *)
(* at infinitely many passes of the loops is taken: strong fairness of the  *)
(* receives from each channel and of the returns.  Callers of Submit and    *)
(* Shutdown, the passing of time and the ticks owe nothing.                 *)
WorkerRuns(g) ==
  \/ WorkerLoop(g) \/ ProcessStart(g) \/ FinishJob(g)
  \/ \E o \in Outcomes : ExecuteJob(g, o)

Fairness ==
  /\ \A j \in Jobs : WF_vars(SubmitCheckCtx(j) \/ SubmitSend(j))
  /\ \A g \in Slots : WF_vars(WorkerRuns(g))
  /\ \A p \in Priorities : SF_vars(\E g \in Slots : WorkerTake(g, p))
  /\ SF_vars(\E g \in Slots : WorkerStop(g) \/ WorkerCtxDone(g))
  /\ WF_vars(AddWorker \/ \E k \in Ids : ScanWorker(k) \/ RemoveWorker(k))
  /\ WF_vars(HealthMark \/ \E g \in Slots : HealthRead(g))
  /\ SF_vars(\E r \in Background : BackgroundExit(r))

FairSpec == Spec /\ Fairness

-----------------------------------------------------------------------------
(* Properties.                                                             *)

InQueue(j) == {x \in Priorities \X (1..QueueCap) :
                 x[2] <= Len(queue[x[1]]) /\ queue[x[1]][x[2]] = j}
HeldBy(j)  == {g \in Slots : job[g] = j}

\* No interleaving of senders, receivers and pool changes loses a job or runs
\* it twice: a job is in at most one place (one slot of one channel or one
\* worker's hand), an accepted job without an outcome is in exactly one, and
\* it is marked running exactly while a worker executes it.
JobPlacement ==
  \A j \in Jobs :
    /\ InQueue(j) = {} \/ HeldBy(j) = {}
    /\ \A a, b \in InQueue(j) : a = b
    /\ \A g, h \in HeldBy(j) : g = h
    /\ sub[j] # "accepted" => InQueue(j) = {} /\ HeldBy(j) = {}
    /\ sub[j] = "accepted" /\ status[j] \notin Outcomes =>
         InQueue(j) # {} \/ HeldBy(j) # {}
    /\ status[j] = "running" <=> \E g \in HeldBy(j) : pc[g] = "exec"

\* GetJob finds every job that Submit has not refused until its outcome is
\* known, however Submit's store and the worker's delete interleave.
UnfinishedIsTracked ==
  \A j \in Jobs :
    sub[j] \notin {"new", "rejected"} /\ status[j] \notin Outcomes => j \in active

\* A decision of the scaler, carried out call by call while workers come and
\* go, never takes the pool below its minimum or above its maximum.
PoolSize ==
  /\ WorkerCount + adding <= MaxWorkers
  /\ WorkerCount - Cardinality(victims) >= MinWorkers

\* An outcome is final: no second worker and no late Submit overwrites it.
OutcomeStays ==
  [][\A j \in Jobs : status[j] \in Outcomes => status'[j] = status[j]]_vars

\* When Shutdown has returned nil no goroutine of the pool does anything any
\* more, not even one that p.workers has lost track of.
QuietAfterShutdown ==
  [][shutdown = "complete" =>
       UNCHANGED <<workerVars, scaleVars, healthVars, bg>>]_vars

\* A worker whose stop channel was closed leaves its loop, however many jobs
\* and ticks its select could choose instead.
StopIsObeyed == \A g \in Slots : stop[g] ~> pc[g] = "exited"

\* After the context is cancelled every goroutine returns, so that wg.Wait()
\* does too.
ShutdownDrains == cancelled ~> (Live = {} /\ bg = {})

\* The pool implements the life cycle its callers rely on.
Phase(j) ==
  CASE sub[j] = "new" -> "new"
    [] sub[j] \in {"tracked", "checked"} -> "submitted"
    [] sub[j] = "rejected" -> "refused"
    [] sub[j] = "accepted" ->
         IF status[j] \in Outcomes THEN "finished"
         ELSE IF status[j] = "running" THEN "running" ELSE "waiting"

Lifecycle == INSTANCE JobLifecycle
               WITH phase <- [j \in Jobs |-> Phase(j)], closed <- cancelled

\* Every behaviour of the pool, fairness included, is one of JobLifecycle.
ImplementsLifecycle == Lifecycle!FairSpec

-----------------------------------------------------------------------------
(* Statements of the repository that the code does not live up to.         *)

\* types.go:329-331 "Pool sizing", MaxWorkers: no more workers than that,
\* counting those that still run or may take a job.
WorkersWithinMax == Cardinality({g \in Live : ~stop[g]}) <= MaxWorkers

\* pool.go:568 "Shutdown gracefully shuts down the worker pool": a job that
\* was accepted has been dealt with when Shutdown reports success.
GracefulShutdown ==
  shutdown = "complete" =>
    \A j \in Jobs : sub[j] = "accepted" => status[j] \in Outcomes
=============================================================================
