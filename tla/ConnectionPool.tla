---------------------------- MODULE ConnectionPool ----------------------------
(***************************************************************************)
(* The pool of reusable connections of internal/optimization, as it is     *)
(* used for the database: a channel of idle connections, a list of all of  *)
(* them and a counter, the last two under p.mu.  Connections are numbered  *)
(* in the order of their creation, which is the order of p.allConns, so    *)
(* that list is a set here.                                                *)
(*                                                                         *)
(* The critical sections of p.mu are single steps, except in Resize, which *)
(* works on the channel while it holds the lock; every step that takes the *)
(* lock waits for it to be free.  Left out: the statistics other than      *)
(* TotalConnections and ActiveConnections.                                 *)
(***************************************************************************)
EXTENDS Integers, Sequences, FiniteSets

CONSTANTS
  Clients,         \* goroutines that acquire and release connections
  MinConns,        \* config.MinConnections
  MaxConns,        \* config.MaxConnections at construction, cap(p.connections)
  NewMaxima,       \* the arguments Resize is called with
  HealthCheckOn,   \* config.HealthCheckPeriod # 0
  Closing,         \* Close may be called
  MaxCreated       \* bound: connections ever created

ASSUME PoolSizes ==
  /\ MinConns \in Nat /\ MaxConns \in Nat \ {0} /\ MinConns <= MaxConns
  /\ NewMaxima \in SUBSET (Nat \ {0})
  /\ MaxCreated \in Nat /\ MinConns <= MaxCreated
  /\ HealthCheckOn \in BOOLEAN /\ Closing \in BOOLEAN

VARIABLES
  maxConns,    \* p.config.MaxConnections, which Resize changes
  idle,        \* the buffer of p.connections
  allConns,    \* p.allConns
  total,       \* p.stats.TotalConnections
  created,     \* connections created so far
  open,        \* the connections that are not closed
  cond,        \* cond[c]: fresh, unused too long, too old, or failing its ping
  closed,      \* p.closed; the channel is closed together with it
  pc, held,    \* per client: where it is and the connection it has
  resize       \* Resize at work: the connections it has still to look at, the
               \* excess it has still to close and the one to put back

poolVars   == <<maxConns, allConns, total, created, closed>>
connVars   == <<open, cond>>
clientVars == <<pc, held>>
vars == <<poolVars, idle, connVars, clientVars, resize>>

Conns  == 1..MaxCreated
NoConn == 0
NoResize == [busy |-> FALSE, rest |-> {}, excess |-> 0, back |-> NoConn]

PcStates == {"out", "again", "try", "maycreate", "create", "wait", "got", "using",
             "returning", "counting", "panicked"}

PoolTypeOK ==
  /\ maxConns \in Nat /\ total \in Int
  /\ idle \in Seq(Conns) /\ Len(idle) <= MaxConns
  /\ allConns \in SUBSET Conns /\ open \in SUBSET Conns
  /\ created \in 0..MaxCreated
  /\ cond \in [Conns -> {"fresh", "unused", "old", "sick"}]
  /\ closed \in BOOLEAN
  /\ pc \in [Clients -> PcStates]
  /\ held \in [Clients -> Conns \cup {NoConn}]
  /\ resize \in [busy : BOOLEAN, rest : SUBSET Conns, excess : Int,
                 back : Conns \cup {NoConn}]

Init ==
  /\ maxConns = MaxConns
  /\ idle = [i \in 1..MinConns |-> i]
  /\ allConns = 1..MinConns
  /\ total = MinConns /\ created = MinConns
  /\ open = 1..MinConns
  /\ cond = [c \in Conns |-> "fresh"]
  /\ closed = FALSE
  /\ pc = [u \in Clients |-> "out"]
  /\ held = [u \in Clients |-> NoConn]
  /\ resize = NoResize

Unlocked == ~resize.busy

At(u, here) == pc[u] = here
Goto(u, there) == pc' = [pc EXCEPT ![u] = there]

\* IsHealthy pings, and a closed connection does not answer.
IsHealthy(c) == c \in open /\ cond[c] # "sick"

\* removeConnection without the counter.
DiscardUncounted(c) ==
  /\ open' = open \ {c}
  /\ allConns' = allConns \ {c}
  /\ UNCHANGED total

\* conn.Close() and removeConnection, which counts down whether or not the
\* connection was still in the list.
Discard(c) ==
  /\ open' = open \ {c}
  /\ allConns' = allConns \ {c}
  /\ total' = total - 1

-----------------------------------------------------------------------------
(* AcquireWithContext.                                                     *)

AcquireStart(u) ==
  /\ At(u, "out") \/ At(u, "again")
  /\ Unlocked
  /\ Goto(u, IF closed THEN "out" ELSE "try")
  /\ UNCHANGED <<held, poolVars, idle, connVars, resize>>

Receive(u) ==
  /\ idle # <<>>
  /\ held' = [held EXCEPT ![u] = Head(idle)]
  /\ idle' = Tail(idle)
  /\ Goto(u, "got")
  /\ UNCHANGED <<poolVars, connVars, resize>>

\* A receive from the closed, empty channel yields a nil connection, and the
\* call of its IsHealthy panics.
ReceiveNil(u) ==
  /\ idle = <<>> /\ closed
  /\ Goto(u, "panicked")
  /\ UNCHANGED <<held, poolVars, idle, connVars, resize>>

AcquireTry(u) ==
  /\ At(u, "try")
  /\ \/ Receive(u)
     \/ ReceiveNil(u)
     \/ /\ idle = <<>> /\ ~closed
        /\ Goto(u, "maycreate")
        /\ UNCHANGED <<held, poolVars, idle, connVars, resize>>

CanCreate(u) ==
  /\ At(u, "maycreate") /\ Unlocked
  /\ Goto(u, IF total < maxConns THEN "create" ELSE "wait")
  /\ UNCHANGED <<held, poolVars, idle, connVars, resize>>

\* Creating on the strength of canCreateConnection alone.
CreateUnchecked(u) ==
  /\ At(u, "create") /\ Unlocked /\ created < MaxCreated
  /\ created' = created + 1
  /\ open' = open \cup {created'}
  /\ allConns' = allConns \cup {created'}
  /\ total' = total + 1
  /\ held' = [held EXCEPT ![u] = created']
  /\ Goto(u, "using")
  /\ UNCHANGED <<maxConns, closed, cond, idle, resize>>

\* createConnection looks at the limit again under the write lock; a new
\* connection is counted as active there and in updateStatsOnAcquire.
CreateConnection(u) ==
  /\ At(u, "create") /\ Unlocked
  /\ \/ /\ total < maxConns /\ created < MaxCreated
        /\ created' = created + 1
        /\ open' = open \cup {created'}
        /\ allConns' = allConns \cup {created'}
        /\ total' = total + 1
              /\ held' = [held EXCEPT ![u] = created']
        /\ Goto(u, "using")
        /\ UNCHANGED <<maxConns, closed, cond>>
     \/ \* ErrPoolExhausted, or the factory's error
        /\ Goto(u, "out")
        /\ UNCHANGED <<held, poolVars, connVars>>
  /\ UNCHANGED <<idle, resize>>

AcquireWait(u) ==
  /\ At(u, "wait")
  /\ Receive(u) \/ ReceiveNil(u)

\* A wait without the case of the timeout.
AcquireTimeoutMissing(u) == FALSE /\ At(u, "wait") /\ UNCHANGED vars

\* ErrAcquireTimeout.
AcquireTimeout(u) ==
  /\ At(u, "wait") /\ Unlocked
  /\ Goto(u, "out")
  /\ UNCHANGED <<held, poolVars, idle, connVars, resize>>

\* updateStatsOnAcquire, then the health of what was received: a connection
\* that fails is discarded and the call starts over.
AcquireVerify(u) ==
  LET c == held[u] IN
  /\ At(u, "got") /\ Unlocked
  /\ IF IsHealthy(c)
     THEN /\ cond' = [cond EXCEPT ![c] = IF @ = "unused" THEN "fresh" ELSE @]
          /\ Goto(u, "using")
          /\ UNCHANGED <<held, open, allConns, total>>
     ELSE /\ Discard(c)
          /\ held' = [held EXCEPT ![u] = NoConn]
          /\ Goto(u, "again")
          /\ UNCHANGED cond
  /\ UNCHANGED <<maxConns, created, closed, idle, resize>>

-----------------------------------------------------------------------------
(* Release.                                                                *)

\* Past Close a connection is just closed.
ReleaseStart(u) ==
  /\ At(u, "using") /\ Unlocked
  /\ IF closed
     THEN /\ open' = open \ {held[u]}
          /\ held' = [held EXCEPT ![u] = NoConn]
          /\ Goto(u, "out")
     ELSE Goto(u, "returning") /\ UNCHANGED <<open, held>>
  /\ UNCHANGED <<poolVars, idle, cond, resize>>

Returnable(c) == IsHealthy(c) /\ cond[c] # "old"

\* Unhealthy, too old, or no room: the connection is given up, and the count
\* of active ones keeps it.
ReleaseDiscard(u) ==
  /\ At(u, "returning") /\ Unlocked
  /\ ~Returnable(held[u]) \/ (~closed /\ Len(idle) = MaxConns)
  /\ Discard(held[u])
  /\ held' = [held EXCEPT ![u] = NoConn]
  /\ Goto(u, "out")
  /\ UNCHANGED <<maxConns, created, closed, cond, idle, resize>>

\* A release that keeps its handle on the connection it has sent back.
ReleaseSendKeeps(u) ==
  /\ At(u, "returning")
  /\ Returnable(held[u])
  /\ Len(idle) < MaxConns
  /\ idle' = Append(idle, held[u])
  /\ Goto(u, "using")
  /\ UNCHANGED <<held, poolVars, connVars, resize>>

\* The send needs no lock; on a closed channel it panics.
ReleaseSend(u) ==
  /\ At(u, "returning")
  /\ Returnable(held[u])
  /\ IF closed
     THEN Goto(u, "panicked") /\ UNCHANGED <<idle, held>>
     ELSE /\ Len(idle) < MaxConns
          /\ idle' = Append(idle, held[u])
          /\ held' = [held EXCEPT ![u] = NoConn]
          /\ Goto(u, "counting")
  /\ UNCHANGED <<poolVars, connVars, resize>>

ReleaseCount(u) ==
  /\ At(u, "counting") /\ Unlocked
  /\ Goto(u, "out")
  /\ UNCHANGED <<maxConns, allConns, total, created, closed, held, idle, connVars, resize>>

-----------------------------------------------------------------------------
(* The health checker, Close and Resize.                                   *)

\* Every listed connection that is too old, unused for too long or failing is
\* closed, wherever it is: idle in the channel or in a client's hands.
HealthCheck ==
  LET bad == {c \in allConns : cond[c] # "fresh" \/ c \notin open} IN
  /\ HealthCheckOn /\ Unlocked /\ ~closed
  /\ bad # {}
  /\ open' = open \ bad
  /\ allConns' = allConns \ bad
  /\ total' = total - Cardinality(bad)
  /\ UNCHANGED <<maxConns, created, closed, cond, idle, clientVars, resize>>

Close ==
  /\ Closing /\ Unlocked /\ ~closed
  /\ closed' = TRUE
  /\ open' = open \ allConns
  /\ allConns' = {}
  /\ UNCHANGED <<maxConns, total, created, cond, idle, clientVars, resize>>

ResizeStart(newMax) ==
  /\ Unlocked /\ newMax >= MinConns
  /\ maxConns' = newMax
  /\ resize' = IF newMax < maxConns /\ total > newMax
               THEN [busy |-> TRUE, rest |-> allConns, excess |-> total - newMax,
                     back |-> NoConn]
               ELSE NoResize
  /\ UNCHANGED <<allConns, total, created, closed, idle, connVars, clientVars>>

Newest(S) == CHOOSE c \in S : \A d \in S : d <= c

\* The loop of Resize at a turn, and not at its put-back.
AtTurn == /\ resize.busy /\ resize.back = NoConn
          /\ resize.rest # {} /\ resize.excess > 0

\* One turn, from the newest connection down: what is received from the channel
\* is closed if it is the one at hand, else it is to be put back.
ResizeTurn ==
  LET c == Newest(resize.rest) IN
  /\ AtTurn
  /\ \/ /\ idle = <<>> /\ ~closed
        /\ resize' = [resize EXCEPT !.rest = @ \ {c}]
        /\ UNCHANGED <<idle, open, allConns, total>>
     \/ /\ idle # <<>> /\ Head(idle) = c
        /\ idle' = Tail(idle)
        /\ Discard(c)
        /\ resize' = [resize EXCEPT !.rest = @ \ {c}, !.excess = @ - 1]
     \/ /\ idle # <<>> /\ Head(idle) # c /\ ~closed
        /\ idle' = Tail(idle)
        /\ resize' = [resize EXCEPT !.rest = @ \ {c}, !.back = Head(idle)]
        /\ UNCHANGED <<open, allConns, total>>
  /\ UNCHANGED <<maxConns, created, closed, cond, clientVars>>

\* Resize does not ask whether the pool is closed.  The closed channel gives up
\* what it still holds and then nil; neither can be sent back to it, and the
\* panic of that send ends the call, by way of its deferred unlock.
ResizePanic ==
  /\ AtTurn /\ closed
  /\ idle # <<>> => Head(idle) # Newest(resize.rest)
  /\ idle' = IF idle = <<>> THEN idle ELSE Tail(idle)
  /\ resize' = NoResize
  /\ UNCHANGED <<poolVars, connVars, clientVars>>

\* Dropping what it cannot use.
ResizePutBackDrops ==
  /\ resize.back # NoConn
  /\ resize' = [resize EXCEPT !.back = NoConn]
  /\ UNCHANGED <<poolVars, idle, connVars, clientVars>>

\* The send waits, with the lock held, for room in the channel; the pool is not
\* closed, as nobody can close it meanwhile.
ResizePutBack ==
  /\ resize.back # NoConn
  /\ Len(idle) < MaxConns
  /\ idle' = Append(idle, resize.back)
  /\ resize' = [resize EXCEPT !.back = NoConn]
  /\ UNCHANGED <<poolVars, connVars, clientVars>>

ResizeEnd ==
  /\ resize.busy /\ resize.back = NoConn
  /\ resize.rest = {} \/ resize.excess = 0
  /\ resize' = NoResize
  /\ UNCHANGED <<poolVars, idle, connVars, clientVars>>

\* Time and the server: a connection is left unused, grows old, or breaks.
Degrade(c, how) ==
  /\ c \in open
  /\ \/ how \in {"unused", "old"} /\ cond[c] = "fresh"
     \/ how = "old" /\ cond[c] = "unused"
     \/ how = "sick" /\ cond[c] # "sick"
  /\ cond' = [cond EXCEPT ![c] = how]
  /\ UNCHANGED <<poolVars, idle, open, clientVars, resize>>

-----------------------------------------------------------------------------
Acquire(u) ==
  \/ AcquireStart(u) \/ AcquireTry(u) \/ CanCreate(u) \/ CreateConnection(u)
  \/ AcquireWait(u) \/ AcquireTimeout(u) \/ AcquireVerify(u)

Release(u) == ReleaseStart(u) \/ ReleaseDiscard(u) \/ ReleaseSend(u) \/ ReleaseCount(u)

Resize ==
  \/ \E n \in NewMaxima : ResizeStart(n)
  \/ ResizeTurn \/ ResizePutBack \/ ResizePanic \/ ResizeEnd

Next ==
  \/ \E u \in Clients : Acquire(u) \/ Release(u)
  \/ HealthCheck \/ Close \/ Resize
  \/ \E c \in Conns, how \in {"unused", "old", "sick"} : Degrade(c, how)

Spec == Init /\ [][Next]_vars

(* A goroutine that can run runs, one that waits for p.mu gets it however   *)
(* often others come first (sync.RWMutex does not starve), and a connection *)
(* in use is released at last (every caller defers the release function).   *)
FairSpec ==
  /\ Spec
  /\ \A u \in Clients : SF_vars((Acquire(u) \/ Release(u)) /\ ~At(u, "out"))
  /\ WF_vars(ResizeTurn \/ ResizePutBack \/ ResizePanic \/ ResizeEnd)

-----------------------------------------------------------------------------
(* Properties.                                                             *)

Holders(c) == {u \in Clients : held[u] = c}
Slots(c)   == {i \in 1..Len(idle) : idle[i] = c}

\* A connection is never given to two clients: it is in at most one of a
\* client's hands, one slot of the channel and the hand of Resize.
ExclusiveUse ==
  \A c \in Conns :
    Cardinality(Holders(c)) + Cardinality(Slots(c))
      + (IF resize.back = c THEN 1 ELSE 0) <= 1

\* No connection leaks: one that is open is listed, so that Close and the
\* health check will find it, and somebody can still reach it.
OpenIsReachable ==
  ~closed =>
    \A c \in open :
      /\ c \in allConns
      /\ Holders(c) # {} \/ Slots(c) # {} \/ resize.back = c

\* The counter may fall behind the list but never runs ahead of it, so the
\* pool never refuses to create for a connection that is gone (Discard,
\* connection_pool.go:230); and the limit is looked at again under the write
\* lock, so that clients that were all told they may create do not create too
\* many, as far as the counter tells (createConnection, connection_pool.go:197).
CountHolds ==
  [][ /\ ~closed' => total' <= Cardinality(allConns')
      /\ total' > total => total' <= maxConns ]_vars

\* Resize cannot put back what it received: a Release has taken the last room.
\* The channel keeps the capacity it was made with, so it takes a pool that was
\* allowed to grow beyond it (connection_pool.go:377).
ResizeStuck == resize.back # NoConn /\ Len(idle) = MaxConns

\* A client that asked for a connection has it or an error in the end, or has
\* panicked on the closed channel; none waits for a connection that was discarded.
\* The one thing that may keep it for ever is a Resize that is stuck with p.mu
\* in its hands.
AcquireReturns ==
  \/ <>[]ResizeStuck
  \/ \A u \in Clients :
       pc[u] \in {"try", "again"} ~> pc[u] \in {"using", "out", "panicked"}

-----------------------------------------------------------------------------
(* Statements of the repository that the code does not live up to.         *)

\* types.go:10, MaxConnections: "Maximum connections allowed".
OpenWithinMax == Cardinality(open) <= MaxConns

\* connection_pool.go:13 ErrPoolClosed, "connection pool is closed": that is
\* the answer after Close, not a panic.
NoPanic == \A u \in Clients : pc[u] # "panicked"
=============================================================================
