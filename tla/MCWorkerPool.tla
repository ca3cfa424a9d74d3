----------------------------- MODULE MCWorkerPool -----------------------------
(* Instances of WorkerPool for TLC: with MCPrio, j1 is critical and the others low. *)
EXTENDS WorkerPool

CONSTANTS j1, j2, j3

ThreeJobs == {j1, j2, j3}
TwoJobs   == {j1, j2}
OneJob    == {j1}

LowPrio == [j \in Jobs |-> 0]
MCPrio == [j \in Jobs |-> IF j = j1 THEN 3 ELSE 0]

\* The health round of a behaviour comes with the first two goroutines, or not
\* at all: a third, which may take the id of another, has no round beside it.
TickOrReuse == ticks = 0 \/ spawned <= MaxWorkers
===============================================================================
