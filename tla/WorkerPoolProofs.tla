--------------------------- MODULE WorkerPoolProofs ---------------------------
(***************************************************************************)
(* Theorems about WorkerPool for every number of jobs, priorities, workers *)
(* and slots: type correctness, the placement of jobs, the finality of     *)
(* outcomes, the size of the pool, and the safety half of the refinement   *)
(* of JobLifecycle.                                                        *)
(***************************************************************************)
EXTENDS WorkerPool, FiniteSetTheorems, TLAPS

-----------------------------------------------------------------------------
(* Type correctness.  The scaler never asks for more goroutines than the   *)
(* bound on them leaves.                                                   *)

TypeInv == TypeOK /\ spawned + adding <= MaxSpawns

LEMMA WorkerCountType == WorkerCount \in Nat
<1>1. IsFiniteSet(Ids) BY FS_Interval, SizeAssumption DEF Ids
<1>2. IsFiniteSet(Registered) BY <1>1, FS_Subset DEF Registered
<1> QED BY <1>2, FS_CardinalityType DEF WorkerCount

\* The scaler's step is a positive number whatever the distance.
LEMMA ScaleStepType ==
  ASSUME NEW d \in Int
  PROVE  ScaleStep(d) \in Nat \ {0}
BY DEF ScaleStep, AtLeastOne, Least

LEMMA TypeInit == Init => TypeInv
<1> SUFFICES ASSUME Init PROVE TypeInv
  OBVIOUS
<1> USE DEF Init
<1>1. sub \in [Jobs -> SubStates] /\ status \in [Jobs -> JobStates] /\ active \in SUBSET Jobs
  BY DEF SubStates, JobStates
<1>2. queue \in [Priorities -> Seq(Jobs)]
  OBVIOUS
<1>3. workers \in [Ids -> 0..MaxSpawns]
  BY SizeAssumption DEF Ids
<1>4. /\ pc \in [Slots -> PcStates] /\ wstatus \in [Slots -> WorkerStates]
      /\ job \in [Slots -> Jobs \cup {NoJob}] /\ stop \in [Slots -> BOOLEAN]
  BY DEF PcStates, WorkerStates
<1>5. spawned \in 0..MaxSpawns /\ spawned + adding <= MaxSpawns /\ adding \in Nat
  BY SizeAssumption
<1>6. scan \in SUBSET Ids /\ victims \in SUBSET Ids /\ todo \in SUBSET Slots /\ mark \in 0..MaxSpawns
  BY SizeAssumption
<1>7. ticks \in 0..MaxHealthTicks
  BY SizeAssumption
<1> QED BY <1>1, <1>2, <1>3, <1>4, <1>5, <1>6, <1>7 DEF TypeInv, TypeOK

LEMMA TypeStep == TypeInv /\ [Next]_vars => TypeInv'
<1> SUFFICES ASSUME TypeInv, [Next]_vars PROVE TypeInv'
  OBVIOUS
<1> USE DEF TypeInv, TypeOK, jobVars, workerVars, scaleVars, healthVars, lifeVars,
            SubStates, JobStates, PcStates, WorkerStates, Slots, Ids, Background, Outcomes
<1>1. CASE UNCHANGED vars
  BY <1>1 DEF vars
<1>2. ASSUME NEW j \in Jobs, Submit(j) PROVE TypeInv'
  <2>1. CASE SubmitTrack(j) BY <2>1 DEF SubmitTrack
  <2>2. CASE SubmitCheckCtx(j) BY <2>2 DEF SubmitCheckCtx
  <2>3. CASE SubmitSend(j)
    <3>1. Prio[j] \in Priorities
      BY JobsAssumption
    <3>2. Append(queue[Prio[j]], j) \in Seq(Jobs)
      BY <3>1
    <3>3. queue' \in [Priorities -> Seq(Jobs)]
      BY <2>3, <3>2 DEF SubmitSend
    <3> QED BY ZenonT(40), <2>3, <3>3 DEF SubmitSend
  <2> QED BY <1>2, <2>1, <2>2, <2>3 DEF Submit
<1>3. ASSUME NEW g \in Slots, Work(g) PROVE TypeInv'
  <2>1. CASE WorkerLoop(g) BY <2>1 DEF WorkerLoop
  <2>2. CASE WorkerHeartbeat(g) BY <2>2 DEF WorkerHeartbeat
  <2>3. CASE WorkerStop(g) \/ WorkerCtxDone(g)
    <3>1. WorkerReturn(g)
      BY <2>3 DEF WorkerStop, WorkerCtxDone
    <3>2. pc' \in [Slots -> PcStates] /\ wstatus' \in [Slots -> WorkerStates]
      BY <3>1 DEF WorkerReturn
    <3> QED BY <3>1, <3>2 DEF WorkerReturn
  <2>4. ASSUME NEW p \in Priorities, WorkerTake(g, p) PROVE TypeInv'
    <3>1. Head(queue[p]) \in Jobs /\ Tail(queue[p]) \in Seq(Jobs)
      BY <2>4 DEF WorkerTake
    <3> QED BY <2>4, <3>1 DEF WorkerTake
  <2>5. CASE ProcessStart(g) BY <2>5 DEF ProcessStart
  <2>6. ASSUME NEW o \in Outcomes, ExecuteJob(g, o) PROVE TypeInv'
    BY <2>6 DEF ExecuteJob
  <2>7. CASE FinishJob(g) BY <2>7 DEF FinishJob
  <2> QED BY <1>3, <2>1, <2>2, <2>3, <2>4, <2>5, <2>6, <2>7 DEF Work
<1>4. CASE Scale
  <2>1. CASE ScaleUp
    <3>0. MaxWorkers - WorkerCount \in Int
      BY WorkerCountType, SizeAssumption
    <3>1. ScaleStep(MaxWorkers - WorkerCount) \in Nat
      BY <3>0, ScaleStepType
    <3> QED BY <2>1, <3>1 DEF ScaleUp
  <2>2. CASE AddWorker
    <3>1. spawned + 1 \in 0..MaxSpawns /\ adding' \in Nat
      BY <2>2, SizeAssumption DEF AddWorker, OneMore
    <3>2. spawned' + adding' <= MaxSpawns
      BY <2>2, SizeAssumption DEF AddWorker
    <3>3. workers' \in [Ids -> 0..MaxSpawns]
      BY <2>2, <3>1, SizeAssumption DEF AddWorker
    <3>4. pc' \in [Slots -> PcStates]
      BY <2>2 DEF AddWorker
    <3> QED BY <2>2, <3>1, <3>2, <3>3, <3>4 DEF AddWorker
  <2>3. CASE ScaleDown BY <2>3 DEF ScaleDown, Registered
  <2>5. ASSUME NEW k \in Ids, ScanWorker(k) PROVE TypeInv'
    BY <2>5 DEF ScanWorker
  <2>4. ASSUME NEW k \in Ids, RemoveWorker(k) PROVE TypeInv'
    <3>1. stop' \in [Slots -> BOOLEAN]
      BY <2>4 DEF RemoveWorker
    <3>2. wstatus' \in [Slots -> WorkerStates]
      BY <2>4 DEF RemoveWorker
    <3>3. workers' \in [Ids -> 0..MaxSpawns] /\ victims' \in SUBSET Ids
      BY <2>4, SizeAssumption DEF RemoveWorker
    <3> QED BY <2>4, <3>1, <3>2, <3>3 DEF RemoveWorker
  <2> QED BY <1>4, <2>1, <2>2, <2>3, <2>4, <2>5 DEF Scale
<1>5. CASE Health
  <2>1. CASE HealthTick
    <3>1. todo' \in SUBSET Slots BY <2>1 DEF HealthTick, Registered
    <3>2. ticks' \in 0..MaxHealthTicks BY <2>1, SizeAssumption DEF HealthTick
    <3> QED BY <2>1, <3>1, <3>2 DEF HealthTick
  <2>2. CASE HealthMark
    <3>1. wstatus' \in [Slots -> WorkerStates] /\ mark' \in 0..MaxSpawns
      BY <2>2, SizeAssumption DEF HealthMark
    <3> QED BY <2>2, <3>1 DEF HealthMark
  <2>3. ASSUME NEW g \in Slots, HealthRead(g) PROVE TypeInv'
    BY <2>3 DEF HealthRead
  <2> QED BY <1>5, <2>1, <2>2, <2>3 DEF Health
<1>6. ASSUME NEW r \in Background, BackgroundExit(r) PROVE TypeInv'
  BY <1>6 DEF BackgroundExit
<1>7. CASE Shutdown
  BY ZenonT(40), <1>7 DEF Shutdown, ShutdownCancel, ShutdownDone, ShutdownTimeout
<1> QED BY <1>1, <1>2, <1>3, <1>4, <1>5, <1>6, <1>7 DEF Next

LEMMA TypeInvariant == Spec => []TypeInv
<1>1. Init => TypeInv BY TypeInit
<1>2. TypeInv /\ [Next]_vars => TypeInv' BY TypeStep
<1> QED BY <1>1, <1>2, PTL DEF Spec

\* Every variable of the pool keeps its type.
THEOREM TypeCorrect == Spec => []TypeOK
<1>1. TypeInv => TypeOK BY DEF TypeInv
<1> QED BY <1>1, TypeInvariant, PTL

-----------------------------------------------------------------------------
(* Placement.  JobPlacement alone is not inductive: that a receive hands    *)
(* over a job nobody else has needs the queues to hold accepted, queued and *)
(* distinct jobs of their own priority, and every job in a worker's hand to *)
(* have left them.                                                          *)

Cells(p) == 1..Len(queue[p])
Waits(j) == \E p \in Priorities : \E i \in Cells(p) : queue[p][i] = j

QueuesBounded == \A p \in Priorities : Len(queue[p]) <= QueueCap

QueuedJobs ==
  \A p \in Priorities : \A i \in Cells(p) :
    /\ Prio[queue[p][i]] = p
    /\ sub[queue[p][i]] = "accepted"
    /\ status[queue[p][i]] = "queued"

QueuesDistinct ==
  \A p \in Priorities : \A i, k \in Cells(p) : queue[p][i] = queue[p][k] => i = k

HandMatchesPc ==
  \A g \in Slots :
    /\ job[g] = NoJob <=> pc[g] \notin {"got", "exec", "done"}
    /\ pc[g] = "got"  => status[job[g]] = "queued"
    /\ pc[g] = "exec" => status[job[g]] = "running"
    /\ pc[g] = "done" => status[job[g]] \in Outcomes

HeldJobs ==
  \A g \in Slots : job[g] # NoJob => sub[job[g]] = "accepted" /\ ~Waits(job[g])

HeldOnce == \A g, h \in Slots : job[g] # NoJob /\ job[g] = job[h] => g = h

NoneLost ==
  \A j \in Jobs :
    sub[j] = "accepted" /\ status[j] \notin Outcomes =>
      Waits(j) \/ \E g \in Slots : job[g] = j

StatusFollowsSub ==
  \A j \in Jobs :
    /\ sub[j] = "new" => status[j] = "pending"
    /\ sub[j] \in {"tracked", "checked", "rejected"} => status[j] = "queued"
    /\ status[j] = "running" => \E g \in Slots : job[g] = j /\ pc[g] = "exec"

TrackedJobs == UnfinishedIsTracked

FreshSlots == \A g \in Slots : g > spawned => pc[g] = "none"

PlacementInv ==
  /\ FreshSlots /\ QueuesBounded /\ QueuedJobs /\ QueuesDistinct
  /\ HandMatchesPc /\ HeldJobs /\ HeldOnce
  /\ NoneLost /\ StatusFollowsSub /\ TrackedJobs

Idle == {"none", "top", "select", "exited"}

LEMMA PlacementInit == Init => PlacementInv
<1> SUFFICES ASSUME Init PROVE PlacementInv
  OBVIOUS
<1>1. \A p \in Priorities : queue[p] = <<>> /\ Cells(p) = {}
  BY DEF Init, Cells
<1>2. QueuesBounded
  BY <1>1, SizeAssumption DEF QueuesBounded
<1>3. QueuedJobs /\ QueuesDistinct
  BY <1>1 DEF QueuedJobs, QueuesDistinct
<1>4. HandMatchesPc /\ HeldJobs /\ HeldOnce
  BY DEF Init, HandMatchesPc, HeldJobs, HeldOnce
<1>5. NoneLost /\ StatusFollowsSub /\ TrackedJobs
  BY DEF Init, NoneLost, StatusFollowsSub, TrackedJobs, UnfinishedIsTracked
<1>6. FreshSlots
  BY SizeAssumption DEF Init, FreshSlots, Slots
<1> QED BY <1>2, <1>3, <1>4, <1>5, <1>6 DEF PlacementInv

\* A step that moves workers only between places where they hold nothing, and
\* no job at all, disturbs no placement.
LEMMA PlacementFrame ==
  ASSUME PlacementInv, UNCHANGED <<sub, status, active, queue, job>>,
         \A g \in Slots : pc'[g] = pc[g] \/ (pc[g] \in Idle /\ pc'[g] \in Idle),
         FreshSlots'
  PROVE  PlacementInv'
<1>1. \A p \in Priorities : Cells(p)' = Cells(p)
  BY DEF Cells
<1>2. \A j \in Jobs : Waits(j)' <=> Waits(j)
  BY DEF Waits, Cells
<1>3. QueuesBounded' /\ QueuedJobs' /\ QueuesDistinct'
  BY <1>1 DEF PlacementInv, QueuesBounded, QueuedJobs, QueuesDistinct
<1>4. HandMatchesPc'
  BY DEF PlacementInv, HandMatchesPc, Idle
<1>5. HeldJobs' /\ HeldOnce'
  BY DEF PlacementInv, HeldJobs, HeldOnce, Waits, Cells
<1>6. NoneLost'
  BY <1>2 DEF PlacementInv, NoneLost
<1>7. StatusFollowsSub' /\ TrackedJobs'
  BY DEF PlacementInv, StatusFollowsSub, TrackedJobs, UnfinishedIsTracked, Idle
<1> QED BY <1>3, <1>4, <1>5, <1>6, <1>7 DEF PlacementInv

LEMMA PlacementSubmit ==
  ASSUME TypeInv, PlacementInv, NEW j \in Jobs, SubmitTrack(j) \/ SubmitCheckCtx(j)
  PROVE  PlacementInv'
<1> USE DEF SubmitTrack, SubmitCheckCtx, workerVars, scaleVars, TypeInv, TypeOK
<1>1. UNCHANGED <<queue, pc, job, spawned>> /\ sub[j] \in {"new", "tracked"}
  OBVIOUS
<1>2. /\ sub'[j] \in {"tracked", "checked", "rejected"} /\ status'[j] = "queued"
      /\ \A i \in Jobs : i # j => sub'[i] = sub[i] /\ status'[i] = status[i]
  BY DEF PlacementInv, StatusFollowsSub
<1>3. \A p \in Priorities : Cells(p)' = Cells(p)
  BY <1>1 DEF Cells
<1>4. \A p \in Priorities : \A i \in Cells(p) : queue[p][i] \in Jobs /\ queue[p][i] # j
  BY <1>1 DEF PlacementInv, QueuedJobs, Cells
<1>5. \A g \in Slots : job[g] # j
  BY <1>1, JobsAssumption DEF PlacementInv, HeldJobs
<1>6. QueuesBounded' /\ QueuesDistinct' /\ FreshSlots' /\ HeldOnce'
  BY <1>1, <1>3 DEF PlacementInv, QueuesBounded, QueuesDistinct, FreshSlots, HeldOnce
<1>7. QueuedJobs'
  BY <1>1, <1>2, <1>3, <1>4 DEF PlacementInv, QueuedJobs
<1>8. HandMatchesPc'
  <2>1. \A g \in Slots : job[g] # NoJob => status'[job[g]] = status[job[g]]
    BY <1>2, <1>5
  <2> QED BY <1>1, <2>1 DEF PlacementInv, HandMatchesPc
<1>9. HeldJobs'
  <2>1. \A g \in Slots : job[g] # NoJob => sub'[job[g]] = sub[job[g]]
    BY <1>2, <1>5
  <2> QED BY <1>1, <1>3, <2>1 DEF PlacementInv, HeldJobs, Waits
<1>10. NoneLost'
  BY SMTT(30), <1>1, <1>2, <1>3 DEF PlacementInv, NoneLost, Waits
<1>11. StatusFollowsSub'
  BY <1>1, <1>2 DEF PlacementInv, StatusFollowsSub
<1>12. TrackedJobs'
  <2>1. \A i \in Jobs : i \in active => i \in active'
    OBVIOUS
  <2>2. j \in active'
    BY ZenonT(40), <1>1 DEF PlacementInv, TrackedJobs, UnfinishedIsTracked, StatusFollowsSub, Outcomes
  <2> QED BY <1>2, <2>1, <2>2 DEF PlacementInv, TrackedJobs, UnfinishedIsTracked
<1> QED BY <1>6, <1>7, <1>8, <1>9, <1>10, <1>11, <1>12 DEF PlacementInv

LEMMA PlacementRefused ==
  ASSUME TypeInv, PlacementInv, NEW j \in Jobs, SubmitSend(j),
         Len(queue[Prio[j]]) >= QueueCap
  PROVE  PlacementInv'
<1> USE DEF TypeInv, TypeOK
<1>1. /\ UNCHANGED <<status, active, queue, pc, job, spawned>>
      /\ sub[j] = "checked" /\ sub' = [sub EXCEPT ![j] = "rejected"]
  <2>1. Len(queue[Prio[j]]) \in Nat
    BY JobsAssumption
  <2> QED BY <2>1, SizeAssumption DEF SubmitSend, workerVars, scaleVars
<1>2. \A i \in Jobs : sub[i] = "accepted" <=> sub'[i] = "accepted"
  BY <1>1
<1>3. \A p \in Priorities : Cells(p)' = Cells(p)
  BY <1>1 DEF Cells
<1>4. QueuesBounded' /\ QueuesDistinct' /\ FreshSlots' /\ HeldOnce' /\ HandMatchesPc'
  BY <1>1, <1>3
     DEF PlacementInv, QueuesBounded, QueuesDistinct, FreshSlots, HeldOnce, HandMatchesPc
<1>5. QueuedJobs'
  <2>1. \A p \in Priorities : \A i \in Cells(p) : queue[p][i] \in Jobs
    BY DEF Cells
  <2> QED BY <1>1, <1>2, <1>3, <2>1 DEF PlacementInv, QueuedJobs
<1>6. HeldJobs'
  <2>1. \A g \in Slots : job'[g] = job[g] /\ (job[g] # NoJob => job[g] \in Jobs)
    BY <1>1
  <2> QED BY <1>1, <1>2, <1>3, <2>1 DEF PlacementInv, HeldJobs, Waits
<1>7. NoneLost'
  <2>1. \A i \in Jobs : Waits(i)' <=> Waits(i)
    BY <1>1, <1>3 DEF Waits
  <2> QED BY <1>1, <1>2, <2>1 DEF PlacementInv, NoneLost
<1>8. StatusFollowsSub' /\ TrackedJobs'
  BY <1>1 DEF PlacementInv, StatusFollowsSub, TrackedJobs, UnfinishedIsTracked
<1> QED BY <1>4, <1>5, <1>6, <1>7, <1>8 DEF PlacementInv

LEMMA PlacementSent ==
  ASSUME TypeInv, PlacementInv, NEW j \in Jobs, SubmitSend(j),
         Len(queue[Prio[j]]) < QueueCap
  PROVE  PlacementInv'
<1> DEFINE q == Prio[j]
<1> USE DEF TypeInv, TypeOK
<1>1. /\ UNCHANGED <<status, active, pc, job, spawned>>
      /\ sub[j] = "checked" /\ sub' = [sub EXCEPT ![j] = "accepted"]
      /\ queue' = [queue EXCEPT ![q] = Append(@, j)]
      /\ q \in Priorities /\ status[j] = "queued"
  BY ZenonT(40), JobsAssumption
     DEF SubmitSend, workerVars, scaleVars, PlacementInv, StatusFollowsSub
<1>2. \A p \in Priorities : p # q => queue'[p] = queue[p] /\ Cells(p)' = Cells(p)
  BY <1>1 DEF Cells
<1>3. /\ Len(queue'[q]) = Len(queue[q]) + 1
      /\ queue'[q][Len(queue[q]) + 1] = j
      /\ \A i \in Cells(q) : queue'[q][i] = queue[q][i]
  BY <1>1 DEF Cells
<1>4. Len(queue[q]) \in Nat /\ Cells(q)' = Cells(q) \cup {Len(queue[q]) + 1}
  <2>1. Len(queue[q]) \in Nat
    BY <1>1
  <2> HIDE DEF TypeInv, TypeOK
  <2>2. \A n \in Nat : 1..(n + 1) = (1..n) \cup {n + 1}
    OBVIOUS
  <2>3. Cells(q) = 1..Len(queue[q]) /\ Cells(q)' = 1..Len(queue'[q])
    BY DEF Cells
  <2> QED BY <1>3, <2>1, <2>2, <2>3
<1>5. \A p \in Priorities : \A i \in Cells(p) : queue[p][i] \in Jobs /\ queue[p][i] # j
  BY <1>1 DEF PlacementInv, QueuedJobs, Cells
<1>6. \A i \in Jobs : i # j => sub'[i] = sub[i]
  BY <1>1
<1>7. \A i \in Jobs : Waits(i)' <=> Waits(i) \/ i = j
  <2>1. ASSUME NEW i \in Jobs, Waits(i) PROVE Waits(i)'
    <3>1. PICK p \in Priorities : \E k \in Cells(p) : queue[p][k] = i
      BY <2>1 DEF Waits
    <3>2. CASE p # q BY <3>1, <3>2, <1>2 DEF Waits
    <3>3. CASE p = q
      <4>1. \E k \in Cells(q)' : queue'[q][k] = i
        BY <3>1, <3>3, <1>3, <1>4
      <4> QED BY <4>1, <1>1 DEF Waits
    <3> QED BY <3>2, <3>3
  <2>2. Waits(j)'
    BY <1>1, <1>3, <1>4 DEF Waits
  <2>3. ASSUME NEW i \in Jobs, Waits(i)', i # j PROVE Waits(i)
    <3>1. PICK p \in Priorities : \E k \in Cells(p)' : queue'[p][k] = i
      BY <2>3 DEF Waits
    <3>2. CASE p = q BY <2>3, <3>1, <3>2, <1>3, <1>4 DEF Waits
    <3>3. CASE p # q BY <3>1, <3>3, <1>2 DEF Waits
    <3> QED BY <3>2, <3>3
  <2> QED BY <2>1, <2>2, <2>3
<1>8. QueuesBounded'
  BY <1>2, <1>3, <1>4, SizeAssumption DEF PlacementInv, QueuesBounded
<1>9. QueuedJobs'
  <2> SUFFICES ASSUME NEW p \in Priorities, NEW i \in Cells(p)'
               PROVE  /\ Prio[queue'[p][i]] = p
                      /\ sub'[queue'[p][i]] = "accepted" /\ status'[queue'[p][i]] = "queued"
    BY DEF QueuedJobs
  <2>1. CASE p # q
    <3>1. i \in Cells(p) /\ queue'[p][i] = queue[p][i]
      BY <2>1, <1>2
    <3> QED BY <3>1, <1>1, <1>5, <1>6 DEF PlacementInv, QueuedJobs
  <2>2. CASE p = q /\ i \in Cells(q)
    <3>1. queue'[p][i] = queue[p][i]
      BY <2>2, <1>3
    <3>2. queue[p][i] \in Jobs /\ queue[p][i] # j
      BY <2>2, <1>5
    <3> QED BY <2>2, <3>1, <3>2, <1>1, <1>6 DEF PlacementInv, QueuedJobs
  <2>3. CASE p = q /\ i = Len(queue[q]) + 1
    BY <2>3, <1>1, <1>3
  <2> QED BY <2>1, <2>2, <2>3, <1>4
<1>10. QueuesDistinct'
  <2> SUFFICES ASSUME NEW p \in Priorities, NEW i \in Cells(p)', NEW k \in Cells(p)',
                      queue'[p][i] = queue'[p][k]
               PROVE  i = k
    BY DEF QueuesDistinct
  <2>1. CASE p # q
    BY <2>1, <1>2 DEF PlacementInv, QueuesDistinct
  <2>2. CASE p = q
    <3>1. CASE i \in Cells(q) /\ k \in Cells(q)
      <4>1. queue[q][i] = queue[q][k]
        BY <2>2, <3>1, <1>3
      <4>2. \A n, l \in Cells(q) : queue[q][n] = queue[q][l] => n = l
        BY <1>1 DEF PlacementInv, QueuesDistinct
      <4> QED BY <3>1, <4>1, <4>2
    <3>2. CASE i \notin Cells(q) \/ k \notin Cells(q)
      <4>1. \A n \in Cells(q)' :
              n \in Cells(q) => queue'[q][n] # j
        BY <1>1, <1>3, <1>5
      <4>2. \A n \in Cells(q)' :
              n \notin Cells(q) => n = Len(queue[q]) + 1 /\ queue'[q][n] = j
        BY <1>3, <1>4
      <4> QED BY <2>2, <3>2, <4>1, <4>2
    <3> QED BY <3>1, <3>2
  <2> QED BY <2>1, <2>2
<1>11. HandMatchesPc' /\ HeldOnce' /\ FreshSlots'
  BY <1>1 DEF PlacementInv, HandMatchesPc, HeldOnce, FreshSlots
<1>12. HeldJobs'
  <2>1. \A g \in Slots : job[g] # NoJob => job[g] \in Jobs /\ job[g] # j
    BY <1>1 DEF PlacementInv, HeldJobs
  <2> QED BY <1>1, <1>6, <1>7, <2>1 DEF PlacementInv, HeldJobs
<1>13. NoneLost'
  BY <1>1, <1>6, <1>7 DEF PlacementInv, NoneLost
<1>14. StatusFollowsSub' /\ TrackedJobs'
  BY <1>1, <1>6 DEF PlacementInv, StatusFollowsSub, TrackedJobs, UnfinishedIsTracked
<1> QED BY <1>8, <1>9, <1>10, <1>11, <1>12, <1>13, <1>14 DEF PlacementInv

LEMMA PlacementTake ==
  ASSUME TypeInv, PlacementInv, NEW g \in Slots, NEW q \in Priorities, WorkerTake(g, q)
  PROVE  PlacementInv'
<1> DEFINE j == Head(queue[q])
<1> USE DEF TypeInv, TypeOK
<1>1. /\ UNCHANGED <<sub, status, active, spawned>>
      /\ pc[g] = "select" /\ pc' = [pc EXCEPT ![g] = "got"]
      /\ job' = [job EXCEPT ![g] = j]
      /\ queue' = [queue EXCEPT ![q] = Tail(@)]
      /\ queue[q] # <<>> /\ j \in Jobs
  BY DEF WorkerTake, scaleVars
<1>2. \A p \in Priorities : p # q => queue'[p] = queue[p] /\ Cells(p)' = Cells(p)
  BY <1>1 DEF Cells
<1>3. /\ Len(queue[q]) \in Nat \ {0} /\ Len(queue'[q]) = Len(queue[q]) - 1
      /\ j = queue[q][1] /\ 1 \in Cells(q)
      /\ \A i \in Cells(q)' : i + 1 \in Cells(q) /\ queue'[q][i] = queue[q][i + 1]
  BY <1>1 DEF Cells
<1>4. Prio[j] = q /\ sub[j] = "accepted" /\ status[j] = "queued" /\ Waits(j)
  BY <1>3 DEF PlacementInv, QueuedJobs, Waits
<1>5. \A i \in Jobs : Waits(i)' <=> Waits(i) /\ i # j
  <2>1. ASSUME NEW i \in Jobs, Waits(i)' PROVE Waits(i) /\ i # j
    <3>1. PICK p \in Priorities : \E k \in Cells(p)' : queue'[p][k] = i
      BY <2>1 DEF Waits
    <3>2. CASE p # q
      <4>1. Waits(i) /\ Prio[i] = p
        BY <3>1, <3>2, <1>2 DEF Waits, PlacementInv, QueuedJobs
      <4> QED BY <4>1, <3>2, <1>4
    <3>3. CASE p = q
      <4>1. PICK k \in Cells(q)' : queue[q][k + 1] = i /\ k + 1 \in Cells(q)
        BY <3>1, <3>3, <1>3
      <4>2. k + 1 # 1
        BY <4>1 DEF Cells
      <4> QED BY <4>1, <4>2, <1>3 DEF Waits, PlacementInv, QueuesDistinct
    <3> QED BY <3>2, <3>3
  <2>2. ASSUME NEW i \in Jobs, Waits(i), i # j PROVE Waits(i)'
    <3>0. PICK p \in Priorities : \E k \in Cells(p) : queue[p][k] = i
      BY <2>2 DEF Waits
    <3>1. PICK k \in Cells(p) : queue[p][k] = i
      BY <3>0
    <3>2. CASE p # q BY <3>1, <3>2, <1>2 DEF Waits
    <3>3. CASE p = q
      <4>1. k - 1 \in Cells(q)' /\ queue'[q][k - 1] = i
        BY <3>1, <3>3, <2>2, <1>1, <1>3 DEF Cells
      <4> QED BY <4>1 DEF Waits
    <3> QED BY <3>2, <3>3
  <2> QED BY <2>1, <2>2
<1>6. QueuesBounded'
  <2>1. \A p \in Priorities : Len(queue[p]) <= QueueCap
    BY DEF PlacementInv, QueuesBounded
  <2>2. Len(queue'[q]) <= QueueCap
    BY <1>3, <2>1, SizeAssumption
  <2> QED BY <1>2, <2>1, <2>2 DEF QueuesBounded
<1>7. QueuedJobs'
  <2> SUFFICES ASSUME NEW p \in Priorities, NEW i \in Cells(p)'
               PROVE  /\ Prio[queue'[p][i]] = p
                      /\ sub'[queue'[p][i]] = "accepted" /\ status'[queue'[p][i]] = "queued"
    BY DEF QueuedJobs
  <2>1. CASE p # q BY <2>1, <1>1, <1>2 DEF PlacementInv, QueuedJobs
  <2>2. CASE p = q
    <3>1. i + 1 \in Cells(q) /\ queue'[q][i] = queue[q][i + 1]
      BY <2>2, <1>3
    <3> QED BY <2>2, <3>1, <1>1 DEF PlacementInv, QueuedJobs
  <2> QED BY <2>1, <2>2
<1>8. QueuesDistinct'
  <2> SUFFICES ASSUME NEW p \in Priorities, NEW i \in Cells(p)', NEW k \in Cells(p)',
                      queue'[p][i] = queue'[p][k]
               PROVE  i = k
    BY DEF QueuesDistinct
  <2>1. CASE p # q BY <2>1, <1>2 DEF PlacementInv, QueuesDistinct
  <2>2. CASE p = q
    <3>1. i + 1 = k + 1
      BY <2>2, <1>3 DEF PlacementInv, QueuesDistinct
    <3> QED BY <3>1 DEF Cells
  <2> QED BY <2>1, <2>2
<1>9. \A h \in Slots : job[h] # j
  BY <1>1, <1>4, JobsAssumption DEF PlacementInv, HeldJobs
<1>10. HandMatchesPc'
  BY <1>1, <1>4, JobsAssumption DEF PlacementInv, HandMatchesPc
<1>11. HeldJobs'
  <2>1. ASSUME NEW h \in Slots, NEW i \in Jobs, job'[h] = i
        PROVE  sub'[i] = "accepted" /\ ~Waits(i)'
    <3>1. CASE h = g BY <2>1, <3>1, <1>1, <1>4, <1>5
    <3>2. CASE h # g
      <4>1. job[h] = i /\ i # NoJob BY <2>1, <3>2, <1>1, JobsAssumption
      <4> QED BY <4>1, <1>1, <1>5 DEF PlacementInv, HeldJobs
    <3> QED BY <3>1, <3>2
  <2>2. \A h \in Slots : job'[h] \in Jobs \cup {NoJob}
    BY <1>1
  <2> QED BY <2>1, <2>2 DEF HeldJobs, Waits, Cells
<1>12. HeldOnce'
  BY <1>1, <1>9 DEF PlacementInv, HeldOnce
<1>13. NoneLost'
  <2>1. pc[g] \notin {"got", "exec", "done"} /\ job[g] = NoJob
    BY <1>1 DEF PlacementInv, HandMatchesPc
  <2> QED BY <1>1, <1>5, <2>1, JobsAssumption DEF PlacementInv, NoneLost
<1>14. StatusFollowsSub' /\ TrackedJobs' /\ FreshSlots'
  BY <1>1 DEF PlacementInv, StatusFollowsSub, TrackedJobs, UnfinishedIsTracked, FreshSlots
<1> QED BY <1>6, <1>7, <1>8, <1>10, <1>11, <1>12, <1>13, <1>14 DEF PlacementInv

LEMMA PlacementProcess ==
  ASSUME TypeInv, PlacementInv, NEW g \in Slots,
         ProcessStart(g) \/ \E o \in Outcomes : ExecuteJob(g, o)
  PROVE  PlacementInv'
<1> DEFINE j == job[g]
<1> USE DEF TypeInv, TypeOK
<1>1. /\ UNCHANGED <<sub, active, queue, job, spawned>>
      /\ \/ pc[g] = "got" /\ pc'[g] = "exec" /\ status'[j] = "running"
         \/ pc[g] = "exec" /\ pc'[g] = "done" /\ status'[j] \in Outcomes
      /\ \A h \in Slots : h # g => pc'[h] = pc[h]
      /\ j \in Jobs /\ \A i \in Jobs : i # j => status'[i] = status[i]
  <2>1. pc[g] \in {"got", "exec"}
    BY DEF ProcessStart, ExecuteJob
  <2>2. j \in Jobs
    BY <2>1 DEF PlacementInv, HandMatchesPc
  <2>3. CASE ProcessStart(g) BY <2>2, <2>3 DEF ProcessStart, scaleVars
  <2>4. CASE \E o \in Outcomes : ExecuteJob(g, o)
    BY <2>2, <2>4 DEF ExecuteJob, scaleVars
  <2> QED BY <2>3, <2>4
<1>2. sub[j] = "accepted" /\ ~Waits(j) /\ \A h \in Slots : job[h] = j => h = g
  BY <1>1, JobsAssumption DEF PlacementInv, HeldJobs, HeldOnce
<1>3. \A p \in Priorities : Cells(p)' = Cells(p)
  BY <1>1 DEF Cells
<1>4. QueuesBounded' /\ QueuesDistinct'
  BY <1>1, <1>3 DEF PlacementInv, QueuesBounded, QueuesDistinct
<1>5. HeldOnce'
  BY <1>1 DEF PlacementInv, HeldOnce
<1>6. FreshSlots'
  BY <1>1 DEF PlacementInv, FreshSlots
<1>7. QueuedJobs'
  <2>1. \A p \in Priorities : \A i \in Cells(p) : queue[p][i] \in Jobs /\ queue[p][i] # j
    BY <1>2 DEF Waits, Cells
  <2> QED BY <1>1, <1>3, <2>1 DEF PlacementInv, QueuedJobs
<1>8. HandMatchesPc'
  <2>1. ASSUME NEW h \in Slots, h # g, job[h] # NoJob
        PROVE  status'[job[h]] = status[job[h]] /\ pc'[h] = pc[h]
    BY <2>1, <1>1, <1>2
  <2> QED BY <1>1, <2>1 DEF PlacementInv, HandMatchesPc
<1>9. HeldJobs'
  BY <1>1, <1>3 DEF PlacementInv, HeldJobs, Waits
<1>10. NoneLost'
  BY <1>1, <1>3 DEF PlacementInv, NoneLost, Waits
<1>11. StatusFollowsSub'
  <2>1. ASSUME NEW i \in Jobs, status'[i] = "running"
        PROVE  \E h \in Slots : job'[h] = i /\ pc'[h] = "exec"
    <3>1. CASE i = j
      BY <2>1, <3>1, <1>1 DEF Outcomes
    <3>2. CASE i # j
      <4>1. PICK h \in Slots : job[h] = i /\ pc[h] = "exec"
        BY <2>1, <3>2, <1>1 DEF PlacementInv, StatusFollowsSub
      <4> QED BY <4>1, <3>2, <1>1
    <3> QED BY <3>1, <3>2
  <2>2. ASSUME NEW i \in Jobs
        PROVE  /\ sub'[i] = "new" => status'[i] = "pending"
               /\ sub'[i] \in {"tracked", "checked", "rejected"} => status'[i] = "queued"
    BY <1>1, <1>2 DEF PlacementInv, StatusFollowsSub
  <2> QED BY <2>1, <2>2 DEF StatusFollowsSub
<1>12. TrackedJobs'
  <2>1. status[j] \notin Outcomes
    BY <1>1 DEF PlacementInv, HandMatchesPc, Outcomes
  <2> QED BY <1>1, <2>1 DEF PlacementInv, TrackedJobs, UnfinishedIsTracked
<1> QED BY <1>4, <1>5, <1>6, <1>7, <1>8, <1>9, <1>10, <1>11, <1>12 DEF PlacementInv

LEMMA PlacementFinish ==
  ASSUME TypeInv, PlacementInv, NEW g \in Slots, FinishJob(g)
  PROVE  PlacementInv'
<1> DEFINE j == job[g]
<1> USE DEF TypeInv, TypeOK
<1>1. /\ UNCHANGED <<sub, status, queue, spawned>>
      /\ pc[g] = "done" /\ pc'[g] = "top" /\ job'[g] = NoJob
      /\ \A h \in Slots : h # g => pc'[h] = pc[h] /\ job'[h] = job[h]
      /\ active' = active \ {j}
  BY DEF FinishJob, scaleVars
<1>2. j \in Jobs /\ status[j] \in Outcomes
  BY <1>1 DEF PlacementInv, HandMatchesPc
<1>3. \A p \in Priorities : Cells(p)' = Cells(p)
  BY <1>1 DEF Cells
<1>4. QueuesBounded' /\ QueuedJobs' /\ QueuesDistinct'
  BY <1>1, <1>3 DEF PlacementInv, QueuesBounded, QueuedJobs, QueuesDistinct
<1>5. HandMatchesPc'
  BY <1>1 DEF PlacementInv, HandMatchesPc
<1>5a. HeldOnce'
  BY <1>1 DEF PlacementInv, HeldOnce
<1>5b. FreshSlots'
  BY <1>1 DEF PlacementInv, FreshSlots
<1>6. HeldJobs'
  BY <1>1, <1>3 DEF PlacementInv, HeldJobs, Waits
<1>7. NoneLost'
  <2> SUFFICES ASSUME NEW i \in Jobs, sub'[i] = "accepted", status'[i] \notin Outcomes,
                      ~Waits(i)'
               PROVE  \E h \in Slots : job'[h] = i
    BY DEF NoneLost
  <2>1. ~Waits(i) BY <1>1, <1>3 DEF Waits
  <2>2. PICK h \in Slots : job[h] = i
    BY <2>1, <1>1 DEF PlacementInv, NoneLost
  <2> QED BY <2>2, <1>1, <1>2
<1>8. StatusFollowsSub' /\ TrackedJobs'
  BY <1>1, <1>2 DEF PlacementInv, StatusFollowsSub, TrackedJobs, UnfinishedIsTracked, Outcomes
<1> QED BY <1>4, <1>5, <1>5a, <1>5b, <1>6, <1>7, <1>8 DEF PlacementInv

LEMMA PlacementStep == TypeInv /\ PlacementInv /\ [Next]_vars => PlacementInv'
<1> SUFFICES ASSUME TypeInv, PlacementInv, [Next]_vars PROVE PlacementInv'
  OBVIOUS
<1> USE DEF jobVars, workerVars, scaleVars, healthVars, lifeVars
<1>1. CASE UNCHANGED vars
  BY <1>1, PlacementFrame DEF vars, PlacementInv, FreshSlots
<1>2. ASSUME NEW j \in Jobs, Submit(j) PROVE PlacementInv'
  <2>1. CASE SubmitTrack(j) \/ SubmitCheckCtx(j) BY <2>1, PlacementSubmit
  <2>2. CASE SubmitSend(j)
    <3>1. Len(queue[Prio[j]]) \in Nat
      BY JobsAssumption DEF TypeInv, TypeOK
    <3> QED BY <2>2, <3>1, SizeAssumption, PlacementRefused, PlacementSent
  <2> QED BY <1>2, <2>1, <2>2 DEF Submit
<1>3. ASSUME NEW g \in Slots, Work(g) PROVE PlacementInv'
  <2>1. CASE WorkerLoop(g) \/ WorkerHeartbeat(g) \/ WorkerStop(g) \/ WorkerCtxDone(g)
    <3>1. /\ UNCHANGED <<sub, status, active, queue, job, spawned>>
          /\ pc[g] \in {"top", "select"} /\ pc'[g] \in Idle
          /\ \A h \in Slots : h # g => pc'[h] = pc[h]
      BY <2>1 DEF WorkerLoop, WorkerHeartbeat, WorkerStop, WorkerCtxDone, WorkerReturn,
                  Idle, TypeInv, TypeOK
    <3>2. FreshSlots'
      BY <3>1 DEF PlacementInv, FreshSlots
    <3> QED BY <3>1, <3>2, PlacementFrame DEF Idle
  <2>2. ASSUME NEW p \in Priorities, WorkerTake(g, p) PROVE PlacementInv'
    BY <2>2, PlacementTake
  <2>3. CASE ProcessStart(g) \/ \E o \in Outcomes : ExecuteJob(g, o)
    BY <2>3, PlacementProcess
  <2>4. CASE FinishJob(g) BY <2>4, PlacementFinish
  <2> QED BY <1>3, <2>1, <2>2, <2>3, <2>4 DEF Work
<1>4. CASE Scale
  <2>1. CASE AddWorker
    <3>1. /\ UNCHANGED <<sub, status, active, queue, job>>
          /\ spawned' = spawned + 1 /\ pc' = [pc EXCEPT ![spawned + 1] = "top"]
          /\ spawned \in Nat /\ spawned + 1 \in Slots
      BY <2>1, SizeAssumption DEF AddWorker, OneMore, TypeInv, TypeOK, Slots
    <3>2. pc[spawned + 1] = "none"
      BY <3>1 DEF PlacementInv, FreshSlots
    <3>3. \A g \in Slots : pc'[g] = pc[g] \/ (pc[g] \in Idle /\ pc'[g] \in Idle)
      BY <3>1, <3>2 DEF Idle, TypeInv, TypeOK
    <3>4. FreshSlots'
      BY <3>1 DEF PlacementInv, FreshSlots, TypeInv, TypeOK, Slots
    <3> QED BY <3>1, <3>3, <3>4, PlacementFrame
  <2>2. CASE ScaleUp \/ ScaleDown \/ \E k \in Ids : ScanWorker(k) \/ RemoveWorker(k)
    <3>1. UNCHANGED <<sub, status, active, queue, job, pc, spawned>>
      BY <2>2 DEF ScaleUp, ScaleDown, ScanWorker, RemoveWorker
    <3> QED BY <3>1, PlacementFrame DEF PlacementInv, FreshSlots
  <2> QED BY <1>4, <2>1, <2>2 DEF Scale
<1>5. CASE Health
  <2>1. UNCHANGED <<sub, status, active, queue, job, pc, spawned>>
    BY <1>5 DEF Health, HealthTick, HealthRead, HealthMark
  <2> QED BY <2>1, PlacementFrame DEF PlacementInv, FreshSlots
<1>6. ASSUME NEW r \in Background, BackgroundExit(r) PROVE PlacementInv'
  BY <1>6, PlacementFrame DEF BackgroundExit, PlacementInv, FreshSlots
<1>7. CASE Shutdown
  <2>1. UNCHANGED <<sub, status, active, queue, job, pc, spawned>>
    BY <1>7 DEF Shutdown, ShutdownCancel, ShutdownDone, ShutdownTimeout
  <2> QED BY <2>1, PlacementFrame DEF PlacementInv, FreshSlots
<1> QED BY <1>1, <1>2, <1>3, <1>4, <1>5, <1>6, <1>7 DEF Next

PoolInv == TypeInv /\ PlacementInv

LEMMA PoolInvariant == Spec => []PoolInv
<1>1. Init => PoolInv BY TypeInit, PlacementInit DEF PoolInv
<1>2. PoolInv /\ [Next]_vars => PoolInv' BY TypeStep, PlacementStep DEF PoolInv
<1> QED BY <1>1, <1>2, PTL DEF Spec

-----------------------------------------------------------------------------
(* What the invariant gives.                                               *)

LEMMA PlacementFromInv == PoolInv => JobPlacement
<1> SUFFICES ASSUME PoolInv, NEW j \in Jobs
             PROVE  /\ InQueue(j) = {} \/ HeldBy(j) = {}
                    /\ \A a, b \in InQueue(j) : a = b
                    /\ \A g, h \in HeldBy(j) : g = h
                    /\ sub[j] # "accepted" => InQueue(j) = {} /\ HeldBy(j) = {}
                    /\ sub[j] = "accepted" /\ status[j] \notin Outcomes =>
                         InQueue(j) # {} \/ HeldBy(j) # {}
                    /\ status[j] = "running" <=> \E g \in HeldBy(j) : pc[g] = "exec"
  BY DEF JobPlacement
<1> USE DEF PoolInv, PlacementInv, TypeInv, TypeOK
<1>1. ASSUME NEW a \in InQueue(j)
      PROVE  /\ a[1] \in Priorities /\ a[2] \in Cells(a[1]) /\ queue[a[1]][a[2]] = j
             /\ a = <<a[1], a[2]>>
  BY <1>1 DEF InQueue, Cells
<1>2. InQueue(j) # {} <=> Waits(j)
  <2>1. ASSUME InQueue(j) # {} PROVE Waits(j)
    BY <2>1, <1>1 DEF Waits
  <2>2. ASSUME Waits(j) PROVE InQueue(j) # {}
    <3>1. PICK p \in Priorities : \E i \in Cells(p) : queue[p][i] = j
      BY <2>2 DEF Waits
    <3>2. PICK i \in Cells(p) : queue[p][i] = j
      BY <3>1
    <3>3. i \in 1..QueueCap /\ i <= Len(queue[p])
      BY <3>2, SizeAssumption DEF Cells, QueuesBounded
    <3>4. <<p, i>> \in InQueue(j)
      BY <3>2, <3>3 DEF InQueue
    <3> QED BY <3>4
  <2> QED BY <2>1, <2>2
<1>3. \A g \in HeldBy(j) : g \in Slots /\ job[g] = j /\ job[g] # NoJob
  BY JobsAssumption DEF HeldBy
<1>4. InQueue(j) = {} \/ HeldBy(j) = {}
  BY <1>2, <1>3 DEF HeldJobs
<1>5. ASSUME NEW a \in InQueue(j), NEW b \in InQueue(j) PROVE a = b
  <2>1. \A x \in InQueue(j) : x[1] = Prio[j]
    <3> SUFFICES ASSUME NEW x \in InQueue(j) PROVE x[1] = Prio[j]
      OBVIOUS
    <3>1. x[1] \in Priorities /\ x[2] \in Cells(x[1]) /\ queue[x[1]][x[2]] = j
      BY <1>1
    <3> QED BY <3>1 DEF QueuedJobs
  <2>2. a[2] = b[2]
    BY <1>1, <2>1 DEF QueuesDistinct
  <2> QED BY <1>1, <2>1, <2>2
<1>6. \A g, h \in HeldBy(j) : g = h
  BY <1>3 DEF HeldOnce
<1>7. sub[j] # "accepted" => InQueue(j) = {} /\ HeldBy(j) = {}
  <2>1. ASSUME Waits(j) PROVE sub[j] = "accepted"
    BY <2>1 DEF Waits, QueuedJobs
  <2> QED BY <2>1, <1>2, <1>3 DEF HeldJobs
<1>8. sub[j] = "accepted" /\ status[j] \notin Outcomes =>
        InQueue(j) # {} \/ HeldBy(j) # {}
  BY <1>2 DEF NoneLost, HeldBy
<1>9. status[j] = "running" <=> \E g \in HeldBy(j) : pc[g] = "exec"
  BY <1>3 DEF StatusFollowsSub, HandMatchesPc, HeldBy
<1> QED BY <1>4, <1>5, <1>6, <1>7, <1>8, <1>9

\* No job is lost, duplicated or run by two workers, for any number of jobs,
\* channels, workers and scaler decisions (pool.go: Submit, runWorker,
\* processJob, autoScale).
THEOREM Placement == Spec => []JobPlacement
BY PoolInvariant, PlacementFromInv, PTL

\* A job Submit has not refused is found by GetJob until it has an outcome.
THEOREM Tracking == Spec => []UnfinishedIsTracked
<1>1. PoolInv => UnfinishedIsTracked
  BY DEF PoolInv, PlacementInv, TrackedJobs
<1> QED BY <1>1, PoolInvariant, PTL

\* The steps that write job.Status find it without an outcome.
LEMMA OutcomeStep ==
  ASSUME PoolInv, [Next]_vars
  PROVE  \A j \in Jobs : status[j] \in Outcomes => status'[j] = status[j]
<1> USE DEF PoolInv, PlacementInv, TypeInv, TypeOK
<1>1. CASE UNCHANGED status
  BY <1>1
<1>2. ASSUME NEW j \in Jobs, SubmitTrack(j)
      PROVE  \A i \in Jobs : status[i] \in Outcomes => status'[i] = status[i]
  <2>1. status[j] = "pending" /\ status' = [status EXCEPT ![j] = "queued"]
    BY <1>2 DEF SubmitTrack, StatusFollowsSub
  <2> QED BY <2>1 DEF Outcomes
<1>3. ASSUME NEW g \in Slots, ProcessStart(g) \/ \E o \in Outcomes : ExecuteJob(g, o)
      PROVE  \A i \in Jobs : status[i] \in Outcomes => status'[i] = status[i]
  <2>1. status[job[g]] \in {"queued", "running"}
    BY <1>3 DEF ProcessStart, ExecuteJob, HandMatchesPc
  <2>2. \A i \in Jobs : i # job[g] => status'[i] = status[i]
    BY <1>3 DEF ProcessStart, ExecuteJob
  <2> QED BY <2>1, <2>2 DEF Outcomes
<1>4. \/ UNCHANGED status
      \/ \E j \in Jobs : SubmitTrack(j)
      \/ \E g \in Slots : ProcessStart(g) \/ \E o \in Outcomes : ExecuteJob(g, o)
  BY DEF vars, jobVars, Next, Submit, SubmitCheckCtx, SubmitSend, Work, WorkerLoop, WorkerHeartbeat,
         WorkerStop, WorkerCtxDone, WorkerReturn, WorkerTake, FinishJob,
         Scale, ScaleUp, AddWorker, ScaleDown, ScanWorker, RemoveWorker,
         Health, HealthTick, HealthRead, HealthMark, BackgroundExit,
         Shutdown, ShutdownCancel, ShutdownDone, ShutdownTimeout
<1> QED BY <1>1, <1>2, <1>3, <1>4

\* The outcome a worker has written is never overwritten.
THEOREM OutcomesFinal == Spec => OutcomeStays
<1>1. PoolInv /\ [Next]_vars =>
        [\A j \in Jobs : status[j] \in Outcomes => status'[j] = status[j]]_vars
  BY OutcomeStep
<1> QED BY <1>1, PoolInvariant, PTL DEF Spec, OutcomeStays

-----------------------------------------------------------------------------
(* Quiescence after Shutdown.  That nothing moves when every goroutine has  *)
(* returned needs the background routines to leave no work half done.       *)

QuietInv ==
  /\ "scale" \notin bg => adding = 0 /\ scan = {} /\ victims = {}
  /\ "health" \notin bg => todo = {} /\ mark = 0
  /\ shutdown = "complete" => bg = {} /\ Live = {}

LEMMA QuietStep ==
  ASSUME TypeInv, QuietInv, [Next]_vars
  PROVE  /\ QuietInv'
         /\ shutdown = "complete" => UNCHANGED <<workerVars, scaleVars, healthVars, bg>>
<1> USE DEF jobVars, workerVars, scaleVars, healthVars, lifeVars
<1>1. CASE UNCHANGED vars
  BY <1>1 DEF vars, QuietInv, Live
<1>2. ASSUME NEW j \in Jobs, Submit(j) PROVE UNCHANGED <<workerVars, scaleVars, healthVars, lifeVars>>
  BY <1>2 DEF Submit, SubmitTrack, SubmitCheckCtx, SubmitSend
<1>3. ASSUME NEW g \in Slots, Work(g)
      PROVE  UNCHANGED <<scaleVars, healthVars, lifeVars>> /\ g \in Live
  BY <1>3 DEF Work, WorkerLoop, WorkerHeartbeat, WorkerStop, WorkerCtxDone, WorkerReturn,
              WorkerTake, ProcessStart, ExecuteJob, FinishJob, Live
<1>4. CASE Scale
  <2>1. UNCHANGED <<healthVars, lifeVars>>
    BY <1>4 DEF Scale, ScaleUp, AddWorker, ScaleDown, ScanWorker, RemoveWorker
  <2>2. "scale" \in bg
    BY <1>4 DEF Scale, ScaleUp, AddWorker, ScaleDown, ScanWorker, RemoveWorker, ScalerIdle, OneMore,
                QuietInv
  <2> QED BY <2>1, <2>2 DEF QuietInv
<1>5. CASE Health
  <2>1. UNCHANGED <<scaleVars, lifeVars, pc>>
    BY <1>5 DEF Health, HealthTick, HealthRead, HealthMark
  <2>2. "health" \in bg
    BY <1>5 DEF Health, HealthTick, HealthRead, HealthMark, QuietInv
  <2> QED BY <2>1, <2>2 DEF QuietInv, Live
<1>6. ASSUME NEW r \in Background, BackgroundExit(r)
      PROVE  /\ QuietInv'
             /\ shutdown = "complete" => UNCHANGED <<workerVars, scaleVars, healthVars, bg>>
  BY <1>6 DEF BackgroundExit, ScalerIdle, QuietInv, Live
<1>7. CASE Shutdown
  BY <1>7 DEF Shutdown, ShutdownCancel, ShutdownDone, ShutdownTimeout, Drained, QuietInv, Live
<1>8. CASE \E j \in Jobs : Submit(j)
  BY <1>8, <1>2 DEF QuietInv, Live
<1>9. CASE \E g \in Slots : Work(g)
  BY <1>9, <1>3 DEF QuietInv
<1> QED BY <1>1, <1>4, <1>5, <1>6, <1>7, <1>8, <1>9 DEF Next

\* When Shutdown has returned nil nothing in the pool moves: no orphan worker,
\* no background routine and no half-made scaling decision is left.
THEOREM QuietShutdown == Spec => QuietAfterShutdown
<1>1. Init => QuietInv
  BY DEF Init, QuietInv, Background
<1>2. TypeInv /\ QuietInv /\ [Next]_vars => QuietInv'
  BY QuietStep
<1>3. TypeInv /\ QuietInv /\ [Next]_vars =>
        [shutdown = "complete" =>
           UNCHANGED <<workerVars, scaleVars, healthVars, bg>>]_vars
  BY QuietStep
<1> QED BY <1>1, <1>2, <1>3, TypeInvariant, PTL DEF Spec, QuietAfterShutdown

-----------------------------------------------------------------------------
(* The refinement of JobLifecycle: every step moves at most one job by one *)
(* phase, or closes the pool, or stutters.                                 *)

Phases == [j \in Jobs |-> Phase(j)]

LEMMA PhasesMove ==
  ASSUME NEW j \in Jobs, NEW to,
         \A i \in Jobs : i # j => sub'[i] = sub[i] /\ status'[i] = status[i],
         Phase(j)' = to
  PROVE  Phases' = [Phases EXCEPT ![j] = to]
<1>1. \A i \in Jobs : i # j => Phase(i)' = Phase(i)
  BY DEF Phase
<1> QED BY <1>1 DEF Phases

LEMMA PhasesStutter == UNCHANGED <<sub, status>> => Phases' = Phases
BY DEF Phases, Phase

LEMMA LifecycleInit == Init => Lifecycle!Init
BY DEF Init, Lifecycle!Init, Phase

LEMMA LifecycleStep ==
  ASSUME PoolInv, [Next]_vars
  PROVE  [Lifecycle!Next]_(Lifecycle!lifeVars)
<1> USE DEF PoolInv, PlacementInv, TypeInv, TypeOK, jobVars, workerVars, scaleVars, healthVars, lifeVars
<1>1. CASE UNCHANGED <<sub, status, cancelled>>
  BY <1>1, PhasesStutter DEF Phases, Lifecycle!lifeVars
<1>2. ASSUME NEW j \in Jobs, Submit(j)
      PROVE  [Lifecycle!Next]_(Lifecycle!lifeVars)
  <2>1. UNCHANGED cancelled /\ \A i \in Jobs : i # j => sub'[i] = sub[i] /\ status'[i] = status[i]
    BY <1>2 DEF Submit, SubmitTrack, SubmitCheckCtx, SubmitSend
  <2>2. CASE SubmitTrack(j)
    <3>1. Phase(j) = "new" /\ Phase(j)' = "submitted"
      BY <2>2 DEF SubmitTrack, Phase
    <3>2. Lifecycle!Submit(j)
      BY <3>1, <2>1, PhasesMove DEF Phases, Lifecycle!Submit, Lifecycle!Move
    <3> QED BY <3>2 DEF Lifecycle!Next
  <2>3. CASE SubmitCheckCtx(j)
    <3>1. Phase(j) = "submitted" /\ Phase(j)' \in {"submitted", "refused"}
      BY <2>3 DEF SubmitCheckCtx, Phase
    <3>2. CASE Phase(j)' = "refused"
      <4>1. Lifecycle!Refuse(j)
        BY <3>1, <3>2, <2>1, PhasesMove DEF Phases, Lifecycle!Refuse, Lifecycle!Move
      <4> QED BY <4>1 DEF Lifecycle!Next
    <3>3. CASE Phase(j)' = "submitted"
      <4>1. Phases' = [Phases EXCEPT ![j] = Phase(j)]
        BY <3>1, <3>3, <2>1, PhasesMove
      <4>2. Phases' = Phases
        BY <4>1 DEF Phases
      <4> QED BY <4>2, <2>1 DEF Phases, Lifecycle!lifeVars
    <3> QED BY <3>1, <3>2, <3>3
  <2>4. CASE SubmitSend(j)
    <3>1. Phase(j) = "submitted" /\ Phase(j)' \in {"waiting", "refused"}
      BY <2>4 DEF SubmitSend, Phase, StatusFollowsSub, Outcomes
    <3>2. Lifecycle!Refuse(j) \/ Lifecycle!Accept(j)
      BY <3>1, <2>1, PhasesMove
         DEF Phases, Lifecycle!Refuse, Lifecycle!Accept, Lifecycle!Move
    <3> QED BY <3>2 DEF Lifecycle!Next
  <2> QED BY <1>2, <2>2, <2>3, <2>4 DEF Submit
<1>3. ASSUME NEW g \in Slots, ProcessStart(g) \/ \E o \in Outcomes : ExecuteJob(g, o)
      PROVE  [Lifecycle!Next]_(Lifecycle!lifeVars)
  <2>0. pc[g] \in {"got", "exec"}
    BY <1>3 DEF ProcessStart, ExecuteJob
  <2>1. PICK j \in Jobs : job[g] = j
    BY <2>0 DEF HandMatchesPc
  <2>2. sub[j] = "accepted"
    BY <2>1, JobsAssumption DEF HeldJobs
  <2>3. UNCHANGED <<sub, cancelled>> /\ \A i \in Jobs : i # j => status'[i] = status[i]
    BY <1>3, <2>1 DEF ProcessStart, ExecuteJob
  <2>4. CASE ProcessStart(g)
    <3>1. status[j] = "queued" /\ status'[j] = "running"
      BY <2>1, <2>4 DEF ProcessStart, HandMatchesPc
    <3>2. Phase(j) = "waiting" /\ Phase(j)' = "running"
      BY <3>1, <2>2, <2>3 DEF Phase, Outcomes
    <3>3. Lifecycle!Start(j)
      BY <3>2, <2>2, <2>3, PhasesMove DEF Phases, Lifecycle!Start, Lifecycle!Move
    <3> QED BY <3>3, <2>2 DEF Lifecycle!Next
  <2>5. CASE \E o \in Outcomes : ExecuteJob(g, o)
    <3>1. status[j] = "running" /\ status'[j] \in Outcomes
      BY <2>1, <2>5 DEF ExecuteJob, HandMatchesPc
    <3>2. Phase(j) = "running" /\ Phase(j)' = "finished"
      BY <3>1, <2>2, <2>3 DEF Phase, Outcomes
    <3>3. Lifecycle!Finish(j)
      BY <3>2, <2>2, <2>3, PhasesMove DEF Phases, Lifecycle!Finish, Lifecycle!Move
    <3> QED BY <3>3, <2>2 DEF Lifecycle!Next
  <2> QED BY <1>3, <2>4, <2>5
<1>4. CASE ShutdownCancel
  <2>1. UNCHANGED <<sub, status>> /\ cancelled'
    BY <1>4 DEF ShutdownCancel
  <2>2. CASE cancelled
    BY <2>1, <2>2, PhasesStutter DEF Phases, Lifecycle!lifeVars
  <2>3. CASE ~cancelled
    <3>1. Lifecycle!Close
      BY <2>1, <2>3, <1>4, PhasesStutter DEF ShutdownCancel, Phases, Lifecycle!Close
    <3> QED BY <3>1 DEF Lifecycle!Next
  <2> QED BY <2>2, <2>3
<1>5. \/ UNCHANGED <<sub, status, cancelled>>
      \/ \E j \in Jobs : Submit(j)
      \/ \E g \in Slots : ProcessStart(g) \/ \E o \in Outcomes : ExecuteJob(g, o)
      \/ ShutdownCancel
  BY DEF vars, Next, Work, WorkerLoop, WorkerHeartbeat,
         WorkerStop, WorkerCtxDone, WorkerReturn, WorkerTake, FinishJob,
         Scale, ScaleUp, AddWorker, ScaleDown, ScanWorker, RemoveWorker,
         Health, HealthTick, HealthRead, HealthMark, BackgroundExit,
         Shutdown, ShutdownDone, ShutdownTimeout
<1> QED BY <1>1, <1>2, <1>3, <1>4, <1>5

\* The pool implements the safety part of JobLifecycle: a refused job never
\* runs, an accepted one runs at most once, in the order of the phases.
THEOREM RefinesLifecycle == Spec => Lifecycle!Spec
<1>1. Init => Lifecycle!Init BY LifecycleInit
<1>2. PoolInv /\ [Next]_vars => [Lifecycle!Next]_(Lifecycle!lifeVars) BY LifecycleStep
<1> QED BY <1>1, <1>2, PoolInvariant, PTL DEF Spec, Lifecycle!Spec

-----------------------------------------------------------------------------
(* The size of the pool.                                                   *)

LEMMA RegisteredIsFinite == IsFiniteSet(Registered) /\ WorkerCount \in Nat /\ IsFiniteSet(Ids)
<1>1. IsFiniteSet(Ids)
  BY SizeAssumption, FS_Interval DEF Ids
<1>2. Registered \in SUBSET Ids
  BY DEF Registered
<1> QED BY <1>1, <1>2, FS_Subset, FS_CardinalityType DEF WorkerCount

\* A step of the scaler is within the distance to the limit.
LEMMA ScaleStepBound ==
  ASSUME NEW d \in Nat, d > 0
  PROVE  ScaleStep(d) \in 1..d
<1>1. d \div 2 \in Nat /\ d \div 2 <= d
  OBVIOUS
<1> QED BY <1>1 DEF ScaleStep, AtLeastOne, Least

\* addWorker writes to the id after the number of entries: it makes one entry
\* more or, where that id is taken, none.
LEMMA AddWorkerCounts ==
  ASSUME TypeInv, PoolSize, AddWorker
  PROVE  WorkerCount' = WorkerCount \/ WorkerCount' = WorkerCount + 1
<1> DEFINE n == WorkerCount + 1
<1>1. WorkerCount \in Nat /\ WorkerCount' \in Nat /\ IsFiniteSet(Registered)
  <2>1. IsFiniteSet(Registered') /\ WorkerCount' \in Nat
    <3>1. IsFiniteSet(Ids) /\ Registered' \in SUBSET Ids
      BY RegisteredIsFinite DEF Registered
    <3> QED BY <3>1, FS_Subset, FS_CardinalityType DEF WorkerCount
  <2> QED BY <2>1, RegisteredIsFinite
<1>2. n \in Ids
  BY <1>1, SizeAssumption DEF PoolSize, AddWorker, OneMore, TypeInv, TypeOK, Ids
<1>3. workers' = [workers EXCEPT ![n] = spawned + 1] /\ spawned + 1 # 0
  BY DEF AddWorker, TypeInv, TypeOK
<1>4. Registered' = Registered \cup {n}
  BY <1>2, <1>3 DEF Registered, TypeInv, TypeOK
<1> QED BY <1>1, <1>4, FS_AddElement DEF WorkerCount

\* removeWorker takes out one entry at most.
LEMMA RemoveWorkerCounts ==
  ASSUME TypeInv, NEW k \in Ids, RemoveWorker(k)
  PROVE  WorkerCount' = WorkerCount \/ WorkerCount' = WorkerCount - 1
<1>1. Registered' = Registered \ {k}
  BY DEF RemoveWorker, Registered, TypeInv, TypeOK
<1> QED BY <1>1, RegisteredIsFinite, FS_RemoveElement DEF WorkerCount

\* While statuses are read there are fewer ids put down than are to go.
ScanInv ==
  scan # {} =>
    /\ adding = 0
    /\ WorkerCount > MinWorkers
    /\ Cardinality(victims) < ToRemove

SizeInv == PoolSize /\ ScanInv

LEMMA SizeInit == Init => SizeInv
<1> SUFFICES ASSUME Init PROVE SizeInv
  OBVIOUS
<1>1. Registered = 1..MinWorkers
  BY SizeAssumption DEF Init, Registered, Ids
<1>2. WorkerCount = MinWorkers
  BY <1>1, SizeAssumption, FS_Interval DEF WorkerCount
<1> QED BY <1>2, FS_EmptySet, SizeAssumption DEF Init, SizeInv, PoolSize, ScanInv

LEMMA SizeStep == TypeInv /\ SizeInv /\ [Next]_vars => SizeInv'
<1> SUFFICES ASSUME TypeInv, SizeInv, [Next]_vars PROVE SizeInv'
  OBVIOUS
<1>0. PoolSize /\ ScanInv
  BY DEF SizeInv
<1>1. WorkerCount \in Nat /\ adding \in Nat /\ IsFiniteSet(victims) /\ Cardinality(victims) \in Nat
  <2>1. IsFiniteSet(victims)
    BY RegisteredIsFinite, FS_Subset DEF TypeInv, TypeOK
  <2> QED BY <2>1, RegisteredIsFinite, FS_CardinalityType DEF TypeInv, TypeOK
<1>2. CASE UNCHANGED <<workers, adding, scan, victims>>
  BY <1>0, <1>2 DEF SizeInv, PoolSize, ScanInv, ToRemove, WorkerCount, Registered
<1>3. CASE ScaleUp
  <2>1. /\ scan = {} /\ victims = {} /\ UNCHANGED <<workers, scan, victims>>
        /\ adding' = ScaleStep(MaxWorkers - WorkerCount)
    BY <1>3 DEF ScaleUp, ScalerIdle
  <2>2. WorkerCount' = WorkerCount
    BY <2>1 DEF WorkerCount, Registered
  <2>3. MaxWorkers - WorkerCount \in Nat /\ MaxWorkers - WorkerCount > 0
    BY <1>1, <1>3, SizeAssumption DEF ScaleUp, CanGrow
  <2>4. adding' \in 1..(MaxWorkers - WorkerCount)
    BY <2>1, <2>3, ScaleStepBound
  <2>5. PoolSize'
    BY <1>0, <1>1, <2>1, <2>2, <2>4, SizeAssumption DEF PoolSize
  <2> QED BY <2>1, <2>5 DEF SizeInv, ScanInv
<1>4. CASE AddWorker
  <2>1. adding' = adding - 1 /\ victims' = victims /\ scan' = scan /\ adding > 0
    BY <1>4 DEF AddWorker, OneMore
  <2>2. WorkerCount' = WorkerCount \/ WorkerCount' = WorkerCount + 1
    BY <1>0, <1>4, AddWorkerCounts
  <2>3. Cardinality(victims') = Cardinality(victims)
    BY <2>1
  <2>4. WorkerCount' + adding' <= MaxWorkers
    BY <1>0, <1>1, <2>1, <2>2, SizeAssumption DEF PoolSize
  <2>5. WorkerCount' - Cardinality(victims') >= MinWorkers
    BY <1>0, <1>1, <2>2, <2>3, SizeAssumption DEF PoolSize
  <2>6. scan' = {}
    BY <1>0, <1>1, <2>1 DEF ScanInv
  <2> QED BY <2>4, <2>5, <2>6 DEF SizeInv, PoolSize, ScanInv
<1>5. CASE ScaleDown
  <2>1. /\ adding = 0 /\ victims = {} /\ UNCHANGED <<workers, adding, victims>>
        /\ WorkerCount > MinWorkers
    BY <1>5 DEF ScaleDown, ScalerIdle
  <2>2. WorkerCount' = WorkerCount /\ ToRemove' = ToRemove
    BY <2>1 DEF WorkerCount, Registered, ToRemove
  <2>3. ToRemove \in 1..(WorkerCount - MinWorkers)
    BY <1>1, <2>1, ScaleStepBound, SizeAssumption DEF ToRemove
  <2>4. Cardinality(victims') = 0
    BY <2>1, FS_EmptySet
  <2>5. PoolSize'
    BY <1>0, <1>1, <2>1, <2>2 DEF PoolSize
  <2> QED BY <2>1, <2>2, <2>3, <2>4, <2>5 DEF SizeInv, ScanInv
<1>6. CASE \E k \in Ids : ScanWorker(k)
  <2>1. PICK k \in Ids : ScanWorker(k)
    BY <1>6
  <2>2. /\ UNCHANGED <<workers, adding>> /\ adding = 0
        /\ WorkerCount > MinWorkers /\ Cardinality(victims) < ToRemove
    BY <1>0, <2>1 DEF ScanWorker, ScanInv
  <2>3. WorkerCount' = WorkerCount /\ ToRemove' = ToRemove
    BY <2>2 DEF WorkerCount, Registered, ToRemove
  <2>4. ToRemove \in 1..(WorkerCount - MinWorkers)
    BY <1>1, <2>2, ScaleStepBound, SizeAssumption DEF ToRemove
  <2>5. /\ victims' = victims \/ victims' = victims \cup {k}
        /\ scan' # {} => ~(Cardinality(victims') >= ToRemove)
    BY <2>1 DEF ScanWorker
  <2>6. Cardinality(victims') \in Nat /\ Cardinality(victims') <= Cardinality(victims) + 1
    BY <1>1, <2>5, FS_AddElement
  <2>7. Cardinality(victims') <= ToRemove
    BY <1>1, <2>2, <2>4, <2>6, SizeAssumption
  <2>8. PoolSize'
    BY <1>0, <1>1, <2>2, <2>3, <2>4, <2>6, <2>7, SizeAssumption DEF PoolSize
  <2>9. scan' # {} => Cardinality(victims') < ToRemove'
    BY <1>1, <2>3, <2>4, <2>5, <2>6, SizeAssumption
  <2> QED BY <2>2, <2>3, <2>8, <2>9 DEF SizeInv, ScanInv
<1>7. CASE \E k \in Ids : RemoveWorker(k)
  <2>1. PICK k \in Ids : RemoveWorker(k)
    BY <1>7
  <2>2. /\ k \in victims /\ victims' = victims \ {k} /\ adding' = adding
        /\ scan = {} /\ scan' = scan
    BY <2>1 DEF RemoveWorker
  <2>3. Cardinality(victims') = Cardinality(victims) - 1
    BY <1>1, <2>2, FS_RemoveElement
  <2>4. WorkerCount' = WorkerCount \/ WorkerCount' = WorkerCount - 1
    BY <2>1, RemoveWorkerCounts
  <2>5. WorkerCount' + adding' <= MaxWorkers
    BY <1>0, <1>1, <2>2, <2>4, SizeAssumption DEF PoolSize
  <2>6. WorkerCount' - Cardinality(victims') >= MinWorkers
    BY <1>0, <1>1, <2>3, <2>4, SizeAssumption DEF PoolSize
  <2> QED BY <2>2, <2>5, <2>6 DEF SizeInv, PoolSize, ScanInv
<1>8. UNCHANGED <<workers, adding, scan, victims>> \/ Scale
  BY DEF vars, jobVars, scaleVars, workerVars, healthVars, lifeVars, Next, Submit, SubmitTrack, SubmitCheckCtx,
         SubmitSend, Work, WorkerLoop, WorkerHeartbeat, WorkerStop, WorkerCtxDone, WorkerReturn, WorkerTake,
         ProcessStart, ExecuteJob, FinishJob, Health, HealthTick, HealthRead, HealthMark,
         BackgroundExit, Shutdown, ShutdownCancel, ShutdownDone, ShutdownTimeout
<1> QED BY <1>2, <1>3, <1>4, <1>5, <1>6, <1>7, <1>8 DEF Scale

\* Read and carried out call by call while workers come, go and overwrite each
\* other's entries, a decision of the scaler leaves the map between the minimum
\* and the maximum (pool.go:150, 354-399).
THEOREM SizeStays == Spec => []PoolSize
<1>1. Init => SizeInv BY SizeInit
<1>2. TypeInv /\ SizeInv /\ [Next]_vars => SizeInv' BY SizeStep
<1>3. SizeInv => PoolSize BY DEF SizeInv
<1> QED BY <1>1, <1>2, <1>3, TypeInvariant, PTL DEF Spec
=============================================================================
