----------------------------- MODULE StreamManager -----------------------------
(***************************************************************************)
(* The stream manager (internal/streaming/manager.go) and its connections  *)
(* (types.go): a registry of streams under one lock, a buffered channel of *)
(* events per stream, callers of SendEvent and BroadcastEvent, the cleanup *)
(* goroutine, and Shutdown.                                                *)
(*                                                                         *)
(* Every operation but BroadcastEvent holds the manager's lock, and every  *)
(* method but SendEvent the connection's, from its first line to its last: *)
(* they are single steps here.  BroadcastEvent keeps the read lock while   *)
(* it sends, so that nobody can write the registry meanwhile.  Events are  *)
(* alike.  Left out: metrics and statistics.                               *)
(***************************************************************************)
EXTENDS Integers, FiniteSets

CONSTANTS
  Streams,         \* the identifiers that uuid.New will return
  Callers,         \* goroutines that send events
  Broadcasters,    \* those that do so by BroadcastEvent
  MaxConnections,
  BufferSize,      \* capacity of EventChan
  NoStream

ASSUME StreamParameters ==
  /\ IsFiniteSet(Streams) /\ NoStream \notin Streams
  /\ Broadcasters \in SUBSET Callers
  /\ MaxConnections \in Nat /\ BufferSize \in Nat \ {0}

VARIABLES
  status,      \* Status, or "none" before the stream is created
  registered,  \* the streams in the map connections
  gone,        \* the streams whose Ctx is done
  closed,      \* the streams whose EventChan is closed
  buffer,      \* number of events in EventChan
  fresh,       \* those in the map whose LastEventTime is within the idle timeout
  caller,      \* what each caller is doing
  sweeper,     \* where cleanupRoutine is
  shutdown     \* progress of the call of Shutdown

streamVars == <<status, registered, gone, closed, fresh>>
vars == <<status, registered, gone, closed, buffer, fresh, caller, sweeper, shutdown>>

AtRest == [pc |-> "rest", to |-> NoStream, casting |-> FALSE, todo |-> {}]

StreamTypeOK ==
  /\ status \in [Streams -> {"none", "active", "completed", "cancelled", "errored"}]
  /\ registered \in SUBSET Streams /\ gone \in SUBSET Streams
  /\ closed \in SUBSET Streams /\ fresh \in SUBSET Streams
  /\ buffer \in [Streams -> 0..BufferSize]
  /\ caller \in [Callers ->
                   [pc : {"rest", "next", "found", "select", "blocked", "sent", "panicked"},
                    to : Streams \cup {NoStream}, casting : BOOLEAN, todo : SUBSET Streams]]
  /\ sweeper \in {"select", "lock", "returned"}
  /\ shutdown \in {"no", "lock", "waiting", "complete", "timeout"}

Init ==
  /\ status = [s \in Streams |-> "none"]
  /\ registered = {} /\ gone = {} /\ closed = {} /\ fresh = {}
  /\ buffer = [s \in Streams |-> 0]
  /\ caller = [p \in Callers |-> AtRest]
  /\ sweeper = "select" /\ shutdown = "no"

\* A broadcast that holds the lock only to copy the map.
UnlockedAfterCopy == TRUE

\* A broadcast holds the read lock of the manager until it is over.
Unlocked == \A p \in Callers : caller[p].casting => caller[p].pc = "panicked"

\* Nobody gets the read lock while these two wait for the write lock.
WriterWaits == sweeper = "lock" \/ shutdown = "lock"

-----------------------------------------------------------------------------
(* The registry.                                                           *)

\* The entry goes, and with it what cleanup would look at.
Remove(S) == registered' = registered \ S /\ fresh' = fresh \ S

CreateStream(s) ==
  /\ Unlocked /\ status[s] = "none"
  /\ Cardinality(registered) < MaxConnections
  /\ status' = [status EXCEPT ![s] = "active"]
  /\ registered' = registered \cup {s} /\ fresh' = fresh \cup {s}
  /\ UNCHANGED <<gone, closed, buffer, caller, sweeper, shutdown>>

\* Close for each stream of a set: a second call does nothing.
Close(S) ==
  LET T == {s \in S : status[s] \notin {"completed", "cancelled"}} IN
  /\ status' = [s \in Streams |-> IF s \in T THEN "completed" ELSE status[s]]
  /\ gone' = gone \cup T
  /\ closed' = closed \cup T

CloseStream(s) ==
  /\ Unlocked /\ s \in registered
  /\ Close({s})
  /\ Remove({s})
  /\ UNCHANGED <<buffer, caller, sweeper, shutdown>>

\* A stream that is marked but stays in the map until the next cleanup.
CancelKeepsEntry(s) ==
  /\ Unlocked /\ s \in registered
  /\ status' = [status EXCEPT ![s] = "cancelled"]
  /\ gone' = gone \cup {s}
  /\ UNCHANGED <<registered, closed, buffer, fresh, caller, sweeper, shutdown>>

\* The channel stays open.
CancelStream(s) ==
  /\ Unlocked /\ s \in registered
  /\ status' = [status EXCEPT ![s] = "cancelled"]
  /\ gone' = gone \cup {s}
  /\ Remove({s})
  /\ UNCHANGED <<closed, buffer, caller, sweeper, shutdown>>

\* SetError that does not cancel the context.
ErrorWithoutCancel(s) ==
  /\ Unlocked /\ s \in registered
  /\ status' = [status EXCEPT ![s] = "errored"]
  /\ Remove({s})
  /\ UNCHANGED <<gone, closed, buffer, caller, sweeper, shutdown>>

StreamError(s) ==
  /\ Unlocked /\ s \in registered
  /\ status' = [status EXCEPT ![s] = "errored"]
  /\ gone' = gone \cup {s}
  /\ Remove({s})
  /\ UNCHANGED <<closed, buffer, caller, sweeper, shutdown>>

-----------------------------------------------------------------------------
(* cleanupRoutine and Shutdown.                                            *)

\* A cleanup that waits for the end that somebody else puts to the stream.
StaleTerminal == {s \in registered : status[s] # "active"}

Stale == {s \in registered : s \notin fresh \/ status[s] # "active"}

Tick ==
  /\ sweeper = "select" /\ sweeper' = "lock"
  /\ UNCHANGED <<streamVars, buffer, caller, shutdown>>

Cleanup ==
  /\ sweeper = "lock" /\ sweeper' = "select"
  /\ Unlocked
  /\ Close(Stale)
  /\ Remove(Stale)
  /\ UNCHANGED <<buffer, caller, shutdown>>

\* A goroutine that is told to stop only when Shutdown has seen it stop.
SweeperReturnsLast ==
  /\ sweeper = "select" /\ shutdown = "complete"
  /\ sweeper' = "returned"
  /\ UNCHANGED <<streamVars, buffer, caller, shutdown>>

\* A tick that is due together with the close of stopCleanup may come first.
SweeperReturns ==
  /\ sweeper = "select" /\ shutdown # "no"
  /\ sweeper' = "returned"
  /\ UNCHANGED <<streamVars, buffer, caller, shutdown>>

\* stopCleanup is closed and the lock asked for.
Shutdown ==
  /\ shutdown = "no" /\ shutdown' = "lock"
  /\ UNCHANGED <<streamVars, buffer, caller, sweeper>>

ShutdownCloses ==
  /\ shutdown = "lock" /\ shutdown' = "waiting"
  /\ Unlocked
  /\ Close(registered)
  /\ Remove(registered)
  /\ UNCHANGED <<buffer, caller, sweeper>>

ShutdownReturns ==
  /\ shutdown = "waiting"
  /\ \/ sweeper = "returned" /\ shutdown' = "complete"
     \/ shutdown' = "timeout"
  /\ UNCHANGED <<streamVars, buffer, caller, sweeper>>

-----------------------------------------------------------------------------
(* SendEvent and BroadcastEvent.                                           *)

Goes(p, pc) == caller' = [caller EXCEPT ![p] = [@ EXCEPT !.pc = pc]]

\* The call of one SendEvent is over, whatever it returned.
Ends(r) == IF r.casting THEN [r EXCEPT !.pc = "next"] ELSE AtRest

Lookup(p, s) ==
  /\ caller[p].pc = "rest" /\ s \in registered /\ ~WriterWaits
  /\ caller' = [caller EXCEPT ![p] = [AtRest EXCEPT !.pc = "found", !.to = s]]
  /\ UNCHANGED <<streamVars, buffer, sweeper, shutdown>>

Broadcast(p) ==
  /\ caller[p].pc = "rest" /\ ~WriterWaits
  /\ caller' = [caller EXCEPT ![p] = [AtRest EXCEPT !.pc = "next", !.casting = TRUE,
                                                    !.todo = registered]]
  /\ UNCHANGED <<streamVars, buffer, sweeper, shutdown>>

Visit(r, s) == [r EXCEPT !.pc = "found", !.to = s, !.todo = r.todo \ {s}]

BroadcastNext(p) ==
  /\ caller[p].pc = "next"
  /\ \/ \E s \in caller[p].todo :
          caller' = [caller EXCEPT ![p] = Visit(@, s)]
     \/ caller[p].todo = {} /\ caller' = [caller EXCEPT ![p] = AtRest]
  /\ UNCHANGED <<streamVars, buffer, sweeper, shutdown>>

\* Status is read under a lock that is gone when the select begins.
CheckStatus(p) ==
  /\ caller[p].pc = "found"
  /\ caller' = [caller EXCEPT ![p] = IF status[@.to] = "active" THEN [@ EXCEPT !.pc = "select"]
                                                                 ELSE Ends(@)]
  /\ UNCHANGED <<streamVars, buffer, sweeper, shutdown>>

\* The select takes any case that is ready, and blocks when none is.  A send on
\* a closed channel counts as ready, and panics.
Select(p) ==
  LET s == caller[p].to IN
  /\ caller[p].pc = "select"
  /\ \/ s \in closed /\ Goes(p, "panicked") /\ UNCHANGED buffer
     \/ /\ s \notin closed /\ buffer[s] < BufferSize
        /\ buffer' = [buffer EXCEPT ![s] = @ + 1]
        /\ Goes(p, "sent")
     \/ s \in gone /\ caller' = [caller EXCEPT ![p] = Ends(@)] /\ UNCHANGED buffer
     \/ /\ s \notin closed \cup gone /\ buffer[s] = BufferSize
        /\ Goes(p, "blocked") /\ UNCHANGED buffer
  /\ UNCHANGED <<streamVars, sweeper, shutdown>>

\* A wait without a limit of its own.
GiveUpWhenGone(p) ==
  /\ caller[p].pc = "blocked" /\ caller[p].to \in gone
  /\ caller' = [caller EXCEPT ![p] = Ends(@)]
  /\ UNCHANGED <<streamVars, buffer, sweeper, shutdown>>

\* The end of the wait: Ctx is done (Close cancels it before it closes the
\* channel, so that nobody who waits meets a closed channel), or five seconds
\* are over.
GiveUp(p) ==
  /\ caller[p].pc = "blocked"
  /\ caller' = [caller EXCEPT ![p] = Ends(@)]
  /\ UNCHANGED <<streamVars, buffer, sweeper, shutdown>>

CountEvent(p) ==
  /\ caller[p].pc = "sent"
  /\ fresh' = fresh \cup ({caller[p].to} \cap registered)
  /\ caller' = [caller EXCEPT ![p] = Ends(@)]
  /\ UNCHANGED <<status, registered, gone, closed, buffer, sweeper, shutdown>>

-----------------------------------------------------------------------------
(* The reader of EventChan, its client, and time.                          *)

\* A reader goes on until its client is gone, and drains a closed channel.  The
\* event of a caller that waits takes the place that was made.
Receive(s) ==
  LET Waiting == {p \in Callers : caller[p].pc = "blocked" /\ caller[p].to = s} IN
  /\ buffer[s] > 0 /\ (s \notin gone \/ s \in closed)
  /\ \/ /\ s \notin gone
        /\ \E p \in Waiting : Goes(p, "sent")
        /\ UNCHANGED buffer
     \/ /\ Waiting = {} \/ s \in gone
        /\ buffer' = [buffer EXCEPT ![s] = @ - 1]
        /\ UNCHANGED caller
  /\ UNCHANGED <<streamVars, sweeper, shutdown>>

\* The context of the request, from which Ctx is derived, is cancelled.
ClientLeaves(s) ==
  /\ status[s] = "active" /\ s \notin gone
  /\ gone' = gone \cup {s}
  /\ UNCHANGED <<status, registered, closed, fresh, buffer, caller, sweeper, shutdown>>

Age(s) ==
  /\ s \in fresh
  /\ fresh' = fresh \ {s}
  /\ UNCHANGED <<status, registered, gone, closed, buffer, caller, sweeper, shutdown>>

-----------------------------------------------------------------------------
Sending(p) == \/ BroadcastNext(p) \/ CheckStatus(p) \/ Select(p) \/ GiveUp(p) \/ CountEvent(p)

Next ==
  \/ \E s \in Streams : \/ CreateStream(s) \/ CloseStream(s) \/ CancelStream(s) \/ StreamError(s)
                        \/ Receive(s) \/ ClientLeaves(s) \/ Age(s)
  \/ \E p \in Broadcasters : Broadcast(p)
  \/ \E p \in Callers \ Broadcasters, s \in Streams : Lookup(p, s)
  \/ \E p \in Callers : Sending(p)
  \/ Tick \/ Cleanup \/ Shutdown \/ ShutdownCloses \/ SweeperReturns \/ ShutdownReturns

Spec == Init /\ [][Next]_vars

\* Events to s that keep it from being idle.
KeepsFresh(s) == \E p \in Callers : caller[p].to = s /\ CountEvent(p)

(* Goroutines that can go on do; the select of cleanupRoutine takes either   *)
(* case sooner or later; a stream is idle sometime unless events keep        *)
(* coming.                                                                   *)
FairSpec ==
  /\ Spec
  /\ \A p \in Callers : WF_vars(Sending(p))
  /\ \A s \in Streams : WF_vars(Age(s) \/ KeepsFresh(s))
  /\ WF_vars(Tick) /\ WF_vars(Cleanup) /\ SF_vars(SweeperReturns)
  /\ WF_vars(ShutdownCloses) /\ WF_vars(ShutdownReturns)

-----------------------------------------------------------------------------
(* Properties.                                                             *)

Ended == {s \in Streams : status[s] \in {"completed", "cancelled", "errored"}}

\* The map holds the streams that have not ended and no others, and their
\* channels are open: no channel is ever closed twice.
RegisteredIsOpen == registered = {s \in Streams : status[s] = "active"} /\ closed \subseteq Ended

\* However a stream ends, its context is done: whoever reads from it or waits to
\* send to it is released, also when its channel stays open.
EndedIsCancelled == Ended \subseteq gone

\* The map, the channels and the contexts agree on what has ended.
EndsAgree == RegisteredIsOpen /\ EndedIsCancelled

\* A status that is final stays.
EndIsFinal == [][\A s \in Ended : status'[s] = status[s]]_vars

\* Close may come between the check of Status and the send, and then SendEvent
\* panics; but only on a stream that was closed in the ordinary way, and never
\* in a broadcast, which holds the lock that Close needs.
BroadcastIsSafe ==
  \A p \in Callers : caller[p].pc = "panicked" =>
    ~caller[p].casting /\ status[caller[p].to] = "completed"

\* A call of SendEvent or BroadcastEvent returns, or panics.
SendReturns == \A p \in Callers : (caller[p].pc # "rest") ~> (caller[p].pc \in {"rest", "panicked"})

\* While the cleanup runs, a stream whose client is gone leaves the map, though
\* Status is still "active" and a send may still choose the buffer.
AbandonedIsRemoved == \A s \in Streams : (s \in gone) ~> (s \notin registered \/ sweeper = "returned")

\* Shutdown gets the lock and the cleanup goroutine ends.
ShutdownEnds == (shutdown = "lock") ~> (shutdown \in {"complete", "timeout"} /\ sweeper = "returned")
===============================================================================
