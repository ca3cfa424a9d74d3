------------------------------ MODULE ResponseCache ------------------------------
(***************************************************************************)
(* The response cache around every handler (internal/middleware/cache.go). *)
(* Only GET requests are looked up and stored; their key is the method,    *)
(* the path and the sorted query, so that a path stands for its key here.  *)
(* An answer is known by the moment at which its handler read the data     *)
(* that it shows: nothing that writes data touches this cache.             *)
(*                                                                         *)
(* A slot of Requests is a request and, afterwards, the goroutine that     *)
(* stores its answer.  Left out: headers, bodies and hit statistics.       *)
(***************************************************************************)
EXTENDS Integers, SequencesExt, FiniteSetsExt

CONSTANTS
  Paths,         \* sequences of segments
  SkipRoutes,    \* sequences of segments, as are the domain of RouteTTLs:
  RouteTTLs,
  DefaultTTL,
  WriteLimit,    \* the timeout of the detached context, 5 s
  HandlerLimit,  \* bound: how long a handler takes
  Requests,
  LastMoment     \* bound: the clock

ASSUME ResponseCacheParameters ==
  /\ \A p \in Paths \cup DOMAIN RouteTTLs : p \in Seq(STRING)
  /\ RouteTTLs \in [DOMAIN RouteTTLs -> Nat]
  /\ DefaultTTL \in Nat /\ WriteLimit \in Nat /\ HandlerLimit \in Nat /\ LastMoment \in Nat

\* The route of a path is the longest prefix that has a TTL.
Routes(path) == {p \in DOMAIN RouteTTLs : IsPrefix(p, path)}
Ttl(path) ==
  IF Routes(path) = {} THEN DefaultTTL
  ELSE RouteTTLs[CHOOSE p \in Routes(path) : \A q \in Routes(path) : Len(q) <= Len(p)]

Skipped(path) == \E p \in SkipRoutes : IsPrefix(p, path)
Cacheable(path) == ~Skipped(path) /\ Ttl(path) # 0

VARIABLES
  moment,     \* the clock
  stored,     \* what Redis holds for a path: [asOf, until]
  request

responseVars == <<moment, stored, request>>

Nothing == [asOf |-> 0, until |-> 0]
Done == [pc |-> "done", path |-> <<>>, since |-> 0, asOf |-> 0]

EmptyResponses ==
  /\ moment = 0
  /\ stored = [p \in Paths |-> Nothing]
  /\ request = [r \in Requests |-> Done]

Fresh(p) == moment < stored[p].until

\* A request that is answered from the cache, or passes it by, leaves no
\* trace; a look-up that fails is a miss.
Miss(r, p) ==
  /\ request[r].pc = "done" /\ Cacheable(p)
  /\ request' = [request EXCEPT ![r] = [pc |-> "handler", path |-> p, since |-> moment, asOf |-> moment]]
  /\ UNCHANGED <<moment, stored>>

HandlerReads(r) ==
  /\ request[r].pc = "handler"
  /\ request' = [request EXCEPT ![r].pc = "read", ![r].asOf = moment]
  /\ UNCHANGED <<moment, stored>>

\* Only an answer with status 200 of less than a megabyte is kept.
HandlerReturns(r) ==
  /\ request[r].pc = "read"
  /\ \/ request' = [request EXCEPT ![r].pc = "store", ![r].since = moment]
     \/ request' = [request EXCEPT ![r] = Done]
  /\ UNCHANGED <<moment, stored>>

Save(r) ==
  LET p == request[r].path
  IN stored' = [stored EXCEPT ![p] = [asOf |-> request[r].asOf, until |-> moment + Ttl(p)]]

\* A write without a deadline.
StoreAnyTime(r) ==
  /\ request[r].pc = "store"
  /\ Save(r)
  /\ request' = [request EXCEPT ![r] = Done]
  /\ UNCHANGED moment

\* The write goes through before its context ends, or it fails.
Store(r) ==
  /\ request[r].pc = "store"
  /\ \/ moment - request[r].since <= WriteLimit /\ Save(r)
     \/ UNCHANGED stored
  /\ request' = [request EXCEPT ![r] = Done]
  /\ UNCHANGED moment

Second ==
  /\ moment < LastMoment
  /\ \A r \in Requests : request[r].pc \in {"handler", "read"} => moment - request[r].since < HandlerLimit
  /\ moment' = moment + 1
  /\ UNCHANGED <<stored, request>>

ResponsesNext ==
  \/ \E r \in Requests : \/ \E p \in Paths : Miss(r, p)
                         \/ HandlerReads(r) \/ HandlerReturns(r) \/ Store(r)
  \/ Second

ResponsesSpec == EmptyResponses /\ [][ResponsesNext]_responseVars

-----------------------------------------------------------------------------
\* However slowly answers are stored, and in whatever order, an answer that
\* the cache gives is no older than its TTL and the time that a handler and a
\* write may take (cache.go:244): nobody invalidates an answer when the data
\* behind it change, so this is all there is against stale ones.
FreshEnough ==
  \A p \in Paths : Fresh(p) => moment - stored[p].asOf <= HandlerLimit + WriteLimit + Ttl(p)
===================================================================================
