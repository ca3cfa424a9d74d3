-------------------------- MODULE StreamManagerProofs --------------------------
(***************************************************************************)
(* Safety of the stream manager, for any streams, callers and limits.      *)
(*                                                                         *)
(* What the registry says of a stream is inductive by itself: whoever      *)
(* changes Status takes the stream out of the map in the same step.  That  *)
(* a broadcast is safe needs more: while a caller broadcasts, all that it  *)
(* still has to do with is in the map (CallerInv), for those who take      *)
(* streams out of the map need the lock that the broadcast holds.          *)
(***************************************************************************)
EXTENDS StreamManager, TLAPS

-----------------------------------------------------------------------------
(* Type correctness.                                                       *)

PCs   == {"rest", "next", "found", "select", "blocked", "sent", "panicked"}
Calls == [pc : PCs, to : Streams \cup {NoStream}, casting : BOOLEAN, todo : SUBSET Streams]

\* Every status, set and record stays in its type, and a channel never holds more
\* than its capacity (types.go, EventChan).
THEOREM StreamTypes == Spec => []StreamTypeOK
<1>1. Init => StreamTypeOK
  BY StreamParameters DEF Init, StreamTypeOK, AtRest
<1>2. StreamTypeOK /\ [Next]_vars => StreamTypeOK'
  <2> SUFFICES ASSUME StreamTypeOK, [Next]_vars PROVE StreamTypeOK'
    OBVIOUS
  <2> USE DEF StreamTypeOK, streamVars
  <2>0. caller \in [Callers -> Calls]
    BY DEF Calls, PCs
  <2>1. ASSUME NEW s \in Streams, CreateStream(s) PROVE StreamTypeOK'
    BY <2>1 DEF CreateStream
  <2>2. ASSUME NEW S \in SUBSET Streams, Close(S), Remove(S)
        PROVE  /\ status' \in [Streams -> {"none", "active", "completed", "cancelled", "errored"}]
               /\ registered' \in SUBSET Streams /\ gone' \in SUBSET Streams
               /\ closed' \in SUBSET Streams /\ fresh' \in SUBSET Streams
    BY <2>2 DEF Close, Remove
  <2>3. ASSUME NEW s \in Streams, CloseStream(s) PROVE StreamTypeOK'
    BY <2>2, <2>3 DEF CloseStream
  <2>4. ASSUME NEW s \in Streams, CancelStream(s) PROVE StreamTypeOK'
    BY <2>4 DEF CancelStream, Remove
  <2>5. ASSUME NEW s \in Streams, StreamError(s) PROVE StreamTypeOK'
    BY <2>5 DEF StreamError, Remove
  <2>6. ASSUME NEW s \in Streams, Receive(s) PROVE StreamTypeOK'
    <3>1. buffer' \in [Streams -> 0..BufferSize]
      BY <2>6, StreamParameters DEF Receive
    <3>2. caller' \in [Callers -> Calls]
      <4>1. CASE \E p \in Callers : Goes(p, "sent")
        <5>1. PICK p \in Callers : Goes(p, "sent")
          BY <4>1
        <5>2. [caller[p] EXCEPT !.pc = "sent"] \in Calls
          BY <2>0 DEF Calls, PCs
        <5> QED BY <2>0, <5>1, <5>2 DEF Goes
      <4>2. CASE UNCHANGED caller
        BY <4>2, <2>0
      <4> QED BY <2>6, <4>1, <4>2 DEF Receive
    <3> QED BY <2>6, <3>1, <3>2 DEF Receive, Calls, PCs
  <2>7. ASSUME NEW s \in Streams, ClientLeaves(s) PROVE StreamTypeOK'
    BY <2>7 DEF ClientLeaves
  <2>8. ASSUME NEW s \in Streams, Age(s) PROVE StreamTypeOK'
    BY <2>8 DEF Age
  <2>9. ASSUME NEW p \in Callers, Broadcast(p) PROVE StreamTypeOK'
    <3>1. [AtRest EXCEPT !.pc = "next", !.casting = TRUE, !.todo = registered] \in Calls
      BY DEF AtRest, Calls, PCs
    <3>2. caller' \in [Callers -> Calls]
      BY <2>0, <2>9, <3>1 DEF Broadcast
    <3> QED BY <2>9, <3>2 DEF Broadcast, Calls, PCs
  <2>10. ASSUME NEW p \in Callers, NEW s \in Streams, Lookup(p, s) PROVE StreamTypeOK'
    <3>1. [AtRest EXCEPT !.pc = "found", !.to = s] \in Calls
      BY DEF AtRest, Calls, PCs
    <3>2. caller' \in [Callers -> Calls]
      BY <2>0, <2>10, <3>1 DEF Lookup
    <3> QED BY <2>10, <3>2 DEF Lookup, Calls, PCs
  <2>11. ASSUME NEW p \in Callers, Sending(p) PROVE StreamTypeOK'
    <3>0. caller[p] \in Calls
      BY <2>0
    <3>1. AtRest \in Calls
      BY DEF AtRest, Calls, PCs
    <3>2. Ends(caller[p]) \in Calls
      BY <3>0, <3>1 DEF Ends, Calls, PCs
    <3>3. CASE BroadcastNext(p)
      <4>1. caller' \in [Callers -> Calls]
        <5>1. CASE \E s \in caller[p].todo : caller' = [caller EXCEPT ![p] = Visit(@, s)]
          <6>1. PICK s \in caller[p].todo : caller' = [caller EXCEPT ![p] = Visit(@, s)]
            BY <5>1
          <6>2. Visit(caller[p], s) \in Calls
            BY <3>0, <6>1 DEF Visit, Calls, PCs
          <6> QED BY <2>0, <6>1, <6>2
        <5>2. CASE caller' = [caller EXCEPT ![p] = AtRest]
          BY <2>0, <3>1, <5>2
        <5> QED BY <3>3, <5>1, <5>2 DEF BroadcastNext
      <4> QED BY <3>3, <4>1 DEF BroadcastNext, Calls, PCs
    <3>4. CASE CheckStatus(p)
      <4>1. caller' \in [Callers -> Calls]
        <5>1. CASE status[caller[p].to] = "active"
          BY <2>0, <3>0, <3>4, <5>1 DEF CheckStatus, Calls, PCs
        <5>2. CASE status[caller[p].to] # "active"
          BY <2>0, <3>2, <3>4, <5>2 DEF CheckStatus
        <5> QED BY <5>1, <5>2
      <4> QED BY <3>4, <4>1 DEF CheckStatus, Calls, PCs
    <3>5. CASE Select(p)
      <4>1. caller' \in [Callers -> Calls]
        <5>1. CASE \E pc \in PCs : Goes(p, pc)
          <6>1. PICK pc \in PCs : Goes(p, pc)
            BY <5>1
          <6>2. [caller[p] EXCEPT !.pc = pc] \in Calls
            BY <3>0 DEF Calls
          <6> QED BY <2>0, <6>1, <6>2 DEF Goes
        <5>2. CASE caller' = [caller EXCEPT ![p] = Ends(@)]
          BY <2>0, <3>2, <5>2
        <5> QED BY <3>5, <5>1, <5>2 DEF Select, PCs
      <4>2. buffer' \in [Streams -> 0..BufferSize]
        BY <3>5, StreamParameters DEF Select
      <4> QED BY <3>5, <4>1, <4>2 DEF Select, Calls, PCs
    <3>6. CASE GiveUp(p)
      <4>1. caller' \in [Callers -> Calls]
        BY <2>0, <3>2, <3>6 DEF GiveUp
      <4> QED BY <3>6, <4>1 DEF GiveUp, Calls, PCs
    <3>7. CASE CountEvent(p)
      <4>1. caller' \in [Callers -> Calls]
        BY <2>0, <3>2, <3>7 DEF CountEvent
      <4> QED BY <3>7, <4>1 DEF CountEvent, Calls, PCs
    <3> QED BY <2>11, <3>3, <3>4, <3>5, <3>6, <3>7 DEF Sending
  <2>12. CASE Cleanup
    BY <2>2, <2>12 DEF Cleanup, Stale
  <2>13. CASE ShutdownCloses
    BY <2>2, <2>13 DEF ShutdownCloses
  <2>14. CASE Tick \/ Shutdown \/ SweeperReturns \/ ShutdownReturns
    BY <2>14 DEF Tick, Shutdown, SweeperReturns, ShutdownReturns
  <2>15. CASE UNCHANGED vars
    BY <2>15 DEF vars
  <2> QED BY <2>1, <2>3, <2>4, <2>5, <2>6, <2>7, <2>8, <2>9, <2>10, <2>11, <2>12, <2>13, <2>14, <2>15,
             StreamParameters DEF Next
<1> QED BY <1>1, <1>2, PTL DEF Spec
-----------------------------------------------------------------------------
(* The registry.                                                           *)

RegistryInv ==
  /\ registered = {s \in Streams : status[s] = "active"}
  /\ closed = {s \in Streams : status[s] = "completed"}
  /\ Ended \subseteq gone

\* What the three ways to end streams do to the registry.
LEMMA ClosePreserves ==
  ASSUME StreamTypeOK, RegistryInv, NEW S \in SUBSET registered, Close(S), Remove(S)
  PROVE  /\ RegistryInv'
         /\ \A s \in Ended : status'[s] = status[s]
         /\ closed \subseteq closed'
BY DEF StreamTypeOK, RegistryInv, Close, Remove, Ended

LEMMA MarkPreserves ==
  ASSUME StreamTypeOK, RegistryInv, NEW s \in registered, NEW end \in {"cancelled", "errored"},
         status' = [status EXCEPT ![s] = end], gone' = gone \cup {s}, Remove({s}), UNCHANGED closed
  PROVE  RegistryInv' /\ \A t \in Ended : status'[t] = status[t]
BY DEF StreamTypeOK, RegistryInv, Remove, Ended

\* The registry is inductive, and no step changes a final status.
LEMMA RegistryStep ==
  ASSUME StreamTypeOK, RegistryInv, [Next]_vars
  PROVE  RegistryInv' /\ \A s \in Ended : status'[s] = status[s]
<1>1. ASSUME NEW s \in Streams, CreateStream(s) PROVE RegistryInv' /\ \A t \in Ended : status'[t] = status[t]
  BY <1>1 DEF CreateStream, StreamTypeOK, RegistryInv, Ended
<1>2. ASSUME NEW s \in Streams, CloseStream(s) PROVE RegistryInv' /\ \A t \in Ended : status'[t] = status[t]
  BY <1>2, ClosePreserves DEF CloseStream
<1>3. ASSUME NEW s \in Streams, CancelStream(s) PROVE RegistryInv' /\ \A t \in Ended : status'[t] = status[t]
  BY <1>3, MarkPreserves DEF CancelStream
<1>4. ASSUME NEW s \in Streams, StreamError(s) PROVE RegistryInv' /\ \A t \in Ended : status'[t] = status[t]
  BY <1>4, MarkPreserves DEF StreamError
<1>5. CASE Cleanup
  BY <1>5, ClosePreserves DEF Cleanup, Stale
<1>6. CASE ShutdownCloses
  BY <1>6, ClosePreserves DEF ShutdownCloses
<1>7. ASSUME NEW s \in Streams, ClientLeaves(s) PROVE RegistryInv' /\ \A t \in Ended : status'[t] = status[t]
  BY <1>7 DEF ClientLeaves, RegistryInv, Ended
<1>8. ASSUME UNCHANGED <<status, registered, gone, closed>> PROVE RegistryInv' /\ \A t \in Ended : status'[t] = status[t]
  BY <1>8 DEF RegistryInv, Ended
<1>9. ASSUME NEW p \in Callers, Sending(p) PROVE UNCHANGED <<status, registered, gone, closed>>
  BY <1>9 DEF Sending, BroadcastNext, CheckStatus, Select, GiveUp, CountEvent, streamVars
<1>10. ASSUME NEW s \in Streams, Receive(s) \/ Age(s) PROVE UNCHANGED <<status, registered, gone, closed>>
  BY <1>10 DEF Receive, Age, streamVars
<1>11. ASSUME NEW p \in Callers, Broadcast(p) \/ \E s \in Streams : Lookup(p, s)
       PROVE  UNCHANGED <<status, registered, gone, closed>>
  BY <1>11 DEF Broadcast, Lookup, streamVars
<1>12. CASE Tick \/ Shutdown \/ SweeperReturns \/ ShutdownReturns \/ UNCHANGED vars
  <2>1. UNCHANGED <<status, registered, gone, closed>>
    BY <1>12 DEF Tick, Shutdown, SweeperReturns, ShutdownReturns, streamVars, vars
  <2> QED BY <2>1, <1>8
<1>13. ASSUME NEW p \in Broadcasters PROVE p \in Callers
  BY StreamParameters
<1> QED
  BY <1>1, <1>2, <1>3, <1>4, <1>5, <1>6, <1>7, <1>8, <1>9, <1>10, <1>11, <1>12, <1>13 DEF Next

LEMMA RegistryAlways == Spec => []RegistryInv
<1>1. Init => RegistryInv
  BY DEF Init, RegistryInv, Ended
<1> QED BY <1>1, RegistryStep, StreamTypes, PTL DEF Spec

\* The map holds just the active streams, whose channels are open, and no channel is
\* ever closed twice (manager.go, Close).
THEOREM RegistryIsOpen == Spec => []RegisteredIsOpen
<1>1. RegistryInv => RegisteredIsOpen
  BY DEF RegistryInv, RegisteredIsOpen, Ended
<1> QED BY <1>1, RegistryAlways, PTL

\* Every end of a stream cancels its context (Close, CancelStream, SetError).
THEOREM EndCancels == Spec => []EndedIsCancelled
<1>1. RegistryInv => EndedIsCancelled
  BY DEF RegistryInv, EndedIsCancelled
<1> QED BY <1>1, RegistryAlways, PTL

\* Map, channels and contexts agree on what has ended.
THEOREM AllAgree == Spec => []EndsAgree
<1>1. RegisteredIsOpen /\ EndedIsCancelled => EndsAgree
  BY DEF EndsAgree
<1> QED BY <1>1, RegistryIsOpen, EndCancels, PTL

\* A stream that was cancelled or failed never comes to be completed, nor any other
\* final status another.
THEOREM EndsAreFinal == Spec => EndIsFinal
<1>1. StreamTypeOK /\ RegistryInv /\ [Next]_vars => [\A s \in Ended : status'[s] = status[s]]_vars
  BY RegistryStep
<1> QED BY <1>1, StreamTypes, RegistryAlways, PTL DEF Spec, EndIsFinal

-----------------------------------------------------------------------------
(* Broadcasts.                                                             *)

CallerOK(r) ==
  /\ r.casting => /\ r.pc \in {"next", "found", "select", "blocked", "sent"}
                  /\ r.todo \subseteq registered
                  /\ r.pc # "next" => r.to \in registered
  /\ r.pc = "next" => r.casting
  /\ r.pc \in {"found", "select", "blocked", "sent", "panicked"} => r.to \in Streams
  /\ r.pc = "panicked" => r.to \in closed

CallerInv == \A p \in Callers : CallerOK(caller[p])

\* Whoever takes streams out of the map finds no broadcast under way.
LEMMA NoBroadcast ==
  ASSUME CallerInv, Unlocked, NEW p \in Callers
  PROVE  ~caller[p].casting
BY DEF CallerInv, CallerOK, Unlocked

LEMMA EndKeepsCallers ==
  ASSUME CallerInv, Unlocked, UNCHANGED caller, closed \subseteq closed'
  PROVE  CallerInv'
BY NoBroadcast DEF CallerInv, CallerOK

\* One caller takes a step and the others stay.
LEMMA StepKeepsCallers ==
  ASSUME StreamTypeOK, CallerInv, UNCHANGED <<registered, closed>>,
         NEW p \in Callers, NEW r, CallerOK(r), caller' = [caller EXCEPT ![p] = r]
  PROVE  CallerInv'
BY DEF StreamTypeOK, CallerInv, CallerOK

LEMMA CallersStep ==
  ASSUME StreamTypeOK, RegistryInv, CallerInv, [Next]_vars
  PROVE  CallerInv'
<1>1. ASSUME NEW s \in Streams, CreateStream(s) PROVE CallerInv'
  BY <1>1, EndKeepsCallers DEF CreateStream
<1>2. ASSUME NEW s \in Streams, CloseStream(s) PROVE CallerInv'
  BY <1>2, EndKeepsCallers, ClosePreserves DEF CloseStream
<1>3. ASSUME NEW s \in Streams, CancelStream(s) \/ StreamError(s) PROVE CallerInv'
  BY <1>3, EndKeepsCallers DEF CancelStream, StreamError
<1>4. CASE Cleanup
  BY <1>4, EndKeepsCallers, ClosePreserves DEF Cleanup, Stale
<1>5. CASE ShutdownCloses
  BY <1>5, EndKeepsCallers, ClosePreserves DEF ShutdownCloses
<1>6. ASSUME UNCHANGED <<caller, registered, closed>> PROVE CallerInv'
  BY <1>6 DEF CallerInv, CallerOK
<1>7. ASSUME NEW s \in Streams, ClientLeaves(s) \/ Age(s) PROVE CallerInv'
  BY <1>6, <1>7 DEF ClientLeaves, Age
<1>8. ASSUME NEW s \in Streams, Receive(s) PROVE CallerInv'
  <2>1. CASE UNCHANGED caller
    BY <1>6, <1>8, <2>1 DEF Receive, streamVars
  <2>2. CASE \E p \in Callers : caller[p].pc = "blocked" /\ Goes(p, "sent")
    <3>1. PICK p \in Callers : caller[p].pc = "blocked" /\ Goes(p, "sent")
      BY <2>2
    <3>2. CallerOK([caller[p] EXCEPT !.pc = "sent"])
      BY <3>1 DEF CallerInv, CallerOK, StreamTypeOK
    <3> QED BY <1>8, <3>1, <3>2, StepKeepsCallers DEF Receive, Goes, streamVars
  <2> QED BY <1>8, <2>1, <2>2 DEF Receive
<1>9. CallerOK(AtRest)
  BY DEF CallerOK, AtRest
<1>10. ASSUME NEW p \in Callers, Broadcast(p) PROVE CallerInv'
  <2>1. CallerOK([AtRest EXCEPT !.pc = "next", !.casting = TRUE, !.todo = registered])
    BY DEF CallerOK, AtRest
  <2> QED BY <1>10, <2>1, StepKeepsCallers DEF Broadcast, streamVars
<1>11. ASSUME NEW p \in Callers, NEW s \in Streams, Lookup(p, s) PROVE CallerInv'
  <2>1. CallerOK([AtRest EXCEPT !.pc = "found", !.to = s])
    BY DEF CallerOK, AtRest
  <2> QED BY <1>11, <2>1, StepKeepsCallers DEF Lookup, streamVars
<1>12. ASSUME NEW p \in Callers, Sending(p) PROVE CallerInv'
  <2>1. CallerOK(caller[p])
    BY DEF CallerInv
  <2>2. CallerOK(Ends(caller[p]))
    BY <1>9, <2>1 DEF CallerOK, Ends, StreamTypeOK
  <2>3. CASE BroadcastNext(p)
    <3>1. CASE \E s \in caller[p].todo : caller' = [caller EXCEPT ![p] = Visit(@, s)]
      <4>1. PICK s \in caller[p].todo : caller' = [caller EXCEPT ![p] = Visit(@, s)]
        BY <3>1
      <4>2. CallerOK(Visit(caller[p], s))
        BY <2>1, <2>3, <4>1 DEF CallerOK, Visit, StreamTypeOK, BroadcastNext
      <4> QED BY <2>3, <4>1, <4>2, StepKeepsCallers DEF BroadcastNext, streamVars
    <3>2. CASE caller' = [caller EXCEPT ![p] = AtRest]
      BY <1>9, <2>3, <3>2, StepKeepsCallers DEF BroadcastNext, streamVars
    <3> QED BY <2>3, <3>1, <3>2 DEF BroadcastNext
  <2>4. CASE CheckStatus(p)
    <3>1. CallerOK([caller[p] EXCEPT !.pc = "select"])
      BY <2>1, <2>4 DEF CallerOK, CheckStatus, StreamTypeOK
    <3>2. CASE status[caller[p].to] = "active"
      BY <2>4, <3>1, <3>2, StepKeepsCallers DEF CheckStatus, streamVars
    <3>3. CASE status[caller[p].to] # "active"
      BY <2>2, <2>4, <3>3, StepKeepsCallers DEF CheckStatus, streamVars
    <3> QED BY <3>2, <3>3
  <2>5. CASE Select(p)
    <3>1. CASE caller[p].to \in closed /\ Goes(p, "panicked")
      <4>1. ~caller[p].casting
        BY <2>1, <2>5, <3>1 DEF CallerOK, Select, RegistryInv
      <4>2. CallerOK([caller[p] EXCEPT !.pc = "panicked"])
        BY <2>1, <2>5, <3>1, <4>1 DEF CallerOK, Select, StreamTypeOK
      <4> QED BY <2>5, <3>1, <4>2, StepKeepsCallers DEF Select, Goes, streamVars
    <3>2. CASE Goes(p, "sent")
      <4>1. CallerOK([caller[p] EXCEPT !.pc = "sent"])
        BY <2>1, <2>5 DEF CallerOK, Select, StreamTypeOK
      <4> QED BY <2>5, <3>2, <4>1, StepKeepsCallers DEF Select, Goes, streamVars
    <3>3. CASE Goes(p, "blocked")
      <4>1. CallerOK([caller[p] EXCEPT !.pc = "blocked"])
        BY <2>1, <2>5 DEF CallerOK, Select, StreamTypeOK
      <4> QED BY <2>5, <3>3, <4>1, StepKeepsCallers DEF Select, Goes, streamVars
    <3>4. CASE caller' = [caller EXCEPT ![p] = Ends(@)]
      BY <2>2, <2>5, <3>4, StepKeepsCallers DEF Select, streamVars
    <3> QED BY <2>5, <3>1, <3>2, <3>3, <3>4 DEF Select
  <2>6. CASE GiveUp(p)
    BY <2>2, <2>6, StepKeepsCallers DEF GiveUp, streamVars
  <2>7. CASE CountEvent(p)
    BY <2>2, <2>7, StepKeepsCallers DEF CountEvent
  <2> QED BY <1>12, <2>3, <2>4, <2>5, <2>6, <2>7 DEF Sending
<1>13. CASE Tick \/ Shutdown \/ SweeperReturns \/ ShutdownReturns \/ UNCHANGED vars
  BY <1>6, <1>13 DEF Tick, Shutdown, SweeperReturns, ShutdownReturns, streamVars, vars
<1>14. ASSUME NEW p \in Broadcasters PROVE p \in Callers
  BY StreamParameters
<1> QED BY <1>1, <1>2, <1>3, <1>4, <1>5, <1>7, <1>8, <1>10, <1>11, <1>12, <1>13, <1>14 DEF Next

\* No broadcast sends on a closed channel, and SendEvent does so only when Close came
\* between its check of Status and its select (types.go, SendEvent).
THEOREM BroadcastsAreSafe == Spec => []BroadcastIsSafe
<1>1. Init => CallerInv
  BY DEF Init, AtRest, CallerInv, CallerOK
<1>2. RegistryInv /\ CallerInv => BroadcastIsSafe
  BY DEF RegistryInv, CallerInv, CallerOK, BroadcastIsSafe
<1> QED BY <1>1, <1>2, CallersStep, StreamTypes, RegistryAlways, PTL DEF Spec
===============================================================================
