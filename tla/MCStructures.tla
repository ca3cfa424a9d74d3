------------------------------ MODULE MCStructures ------------------------------
(* The structures the program has beside its requests: queues, the hash     *)
(* ring, load shedding and orchestration.  They share no state, so each     *)
(* behaviour is one of a single part, which "part" names.                   *)
EXTENDS JobQueue, HashRing, Backpressure, ModelChain

\* Nodes that alternate, are neighbours of themselves, and wrap around.
MCHash == [x \in {"a", "b", "c"} \X (1..2) |->
             CASE x = <<"a", 1>> -> 1 [] x = <<"a", 2>> -> 5
               [] x = <<"b", 1>> -> 2 [] x = <<"b", 2>> -> 6
               [] x = <<"c", 1>> -> 3 [] x = <<"c", 2>> -> 4]
MCKeyHashes == {0, 1, 4, 6, 7}

\* Two answers of different lengths, and an empty one.
MCOutputs == {<<>>, <<1>>, <<2, 2, 2>>}

VARIABLE part

structureVars == <<part, heapVars, waitVars, ringVars, ringsVars, usage, breakerVars, chainVars, parallelVars>>

Init ==
  /\ part \in {"heaps", "waiting", "buffer", "rings", "shedding", "breaker", "chain", "parallel"}
  /\ NoQueue /\ NothingWaits /\ EmptyRing /\ OwnRings /\ Idle /\ Closed /\ NoChain /\ NothingParallel

Next ==
  \/ part = "heaps" /\ HeapNext
     /\ UNCHANGED <<part, waitVars, ringVars, ringsVars, usage, breakerVars, chainVars, parallelVars>>
  \/ part = "waiting" /\ WaitNext
     /\ UNCHANGED <<part, heapVars, ringVars, ringsVars, usage, breakerVars, chainVars, parallelVars>>
  \/ part = "buffer" /\ RingNext
     /\ UNCHANGED <<part, heapVars, waitVars, ringsVars, usage, breakerVars, chainVars, parallelVars>>
  \/ part = "rings" /\ RingsNext
     /\ UNCHANGED <<part, heapVars, waitVars, ringVars, usage, breakerVars, chainVars, parallelVars>>
  \/ part = "shedding" /\ GetMetrics
     /\ UNCHANGED <<part, heapVars, waitVars, ringVars, ringsVars, breakerVars, chainVars, parallelVars>>
  \/ part = "breaker" /\ BreakerNext
     /\ UNCHANGED <<part, heapVars, waitVars, ringVars, ringsVars, usage, chainVars, parallelVars>>
  \/ part = "chain" /\ ChainNext
     /\ UNCHANGED <<part, heapVars, waitVars, ringVars, ringsVars, usage, breakerVars, parallelVars>>
  \/ part = "parallel" /\ ParallelNext
     /\ UNCHANGED <<part, heapVars, waitVars, ringVars, ringsVars, usage, breakerVars, chainVars>>

Spec == Init /\ [][Next]_structureVars
=================================================================================
