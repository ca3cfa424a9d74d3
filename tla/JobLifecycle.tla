----------------------------- MODULE JobLifecycle -----------------------------
(***************************************************************************)
(* What the job pool promises to a caller of Submit, with no queues and no *)
(* workers in it.  A call of Submit ends in acceptance or refusal.  A      *)
(* refused job never runs, an accepted one runs at most once, and while    *)
(* the pool is open every accepted job gets to run.  A job that runs       *)
(* finishes even if the pool closes under it; a job that still waits when  *)
(* the pool closes may or may not be run.                                  *)
(***************************************************************************)
CONSTANT Jobs

VARIABLES
  phase,   \* phase[j]: the state of job j
  closed   \* the pool has been told to shut down

lifeVars == <<phase, closed>>

Phases == {"new", "submitted", "waiting", "running", "finished", "refused"}

LifecycleTypeOK == phase \in [Jobs -> Phases] /\ closed \in BOOLEAN

Init == phase = [j \in Jobs |-> "new"] /\ closed = FALSE

Move(j, from, to) ==
  /\ phase[j] = from
  /\ phase' = [phase EXCEPT ![j] = to]
  /\ UNCHANGED closed

Submit(j) == Move(j, "new", "submitted")
Accept(j) == Move(j, "submitted", "waiting")
Refuse(j) == Move(j, "submitted", "refused")
Start(j)  == Move(j, "waiting", "running")
Finish(j) == Move(j, "running", "finished")
Close     == ~closed /\ closed' = TRUE /\ UNCHANGED phase

Next ==
  \/ \E j \in Jobs : Submit(j) \/ Accept(j) \/ Refuse(j) \/ Start(j) \/ Finish(j)
  \/ Close

Spec == Init /\ [][Next]_lifeVars

FairSpec ==
  /\ Spec
  /\ \A j \in Jobs :
       /\ WF_lifeVars(Accept(j) \/ Refuse(j))
       /\ WF_lifeVars(~closed /\ Start(j))
       /\ WF_lifeVars(Finish(j))
=============================================================================
