--------------------------------- MODULE JobQueue ---------------------------------
(***************************************************************************)
(* The queues of internal/worker/queue.go, which no other part of the      *)
(* program uses: priority queues by name, a queue whose consumers wait,    *)
(* and a ring buffer of recent jobs.  Each operation holds the lock of its *)
(* structure, so each is one step; a consumer that waits takes several.    *)
(*                                                                         *)
(* A job is a number, and in the priority queues its priority alone:       *)
(* Less goes on to compare SubmittedAt, which nothing in the program sets. *)
(* Left out: statistics.                                                   *)
(***************************************************************************)
EXTENDS Integers, Sequences, SequencesExt, FiniteSets

CONSTANTS
  Ranks,         \* priorities
  MaxSize,       \* of a priority queue
  MaxQueues,     \* bound: priority queues that are created
  Holders,       \* callers that hold a queue they have looked up
  Consumers,
  MaxWaiting,    \* maxSize of the waiting queue
  Capacity,      \* of the ring buffer
  MaxPushed      \* bound: jobs that are put into a queue or the buffer

ASSUME JobQueueParameters ==
  /\ Ranks \subseteq Nat /\ MaxSize \in Nat \ {0} /\ MaxQueues \in Nat
  /\ IsFiniteSet(Consumers) /\ MaxWaiting \in Nat \ {0} /\ Capacity \in Nat \ {0} /\ MaxPushed \in Nat

-----------------------------------------------------------------------------
(* PriorityQueue over container/heap, with positions from 1.               *)

Less(q, i, j) == q[i] > q[j]
Swap(q, i, j) == [q EXCEPT ![i] = q[j], ![j] = q[i]]

\* up and down of container/heap.  Their loops go from the queue and the
\* position of one round to those of the next, or stay; neither has more
\* rounds than the queue has positions.
UpRound(s) ==
  IF s.at = 1 \/ ~Less(s.q, s.at, s.at \div 2) THEN s
  ELSE [q |-> Swap(s.q, s.at, s.at \div 2), at |-> s.at \div 2]

Up(q, j) ==
  LET round[k \in 0..Len(q)] == IF k = 0 THEN [q |-> q, at |-> j] ELSE UpRound(round[k - 1])
  IN round[Len(q)].q

\* The better one of the children of i that lie below n, or i itself.
Child(q, i, n) ==
  CASE 2 * i > n                           -> i
    [] 2 * i = n                           -> n
    [] 2 * i < n /\ Less(q, 2 * i + 1, 2 * i) -> 2 * i + 1
    [] 2 * i < n /\ ~Less(q, 2 * i + 1, 2 * i) -> 2 * i

DownRound(s, n) ==
  LET c == Child(s.q, s.at, n)
  IN IF c = s.at \/ ~Less(s.q, c, s.at) THEN s ELSE [q |-> Swap(s.q, s.at, c), at |-> c]

Down(q, i, n) ==
  LET round[k \in 0..Len(q)] == IF k = 0 THEN [q |-> q, at |-> i] ELSE DownRound(round[k - 1], n)
  IN round[Len(q)].q

HeapPush(q, rank) == Up(Append(q, rank), Len(q) + 1)
HeapPop(q) == Front(Down(Swap(q, 1, Len(q)), 1, Len(q) - 1))

VARIABLES
  named,     \* the number of the queue that has the one name, or 0
  heaps,     \* the queues that were created
  held       \* the number of the queue each holder has looked up, or 0

heapVars == <<named, heaps, held>>

NoQueue == named = 0 /\ heaps = <<>> /\ held = [c \in Holders |-> 0]

CreateQueue ==
  /\ named = 0 /\ Len(heaps) < MaxQueues
  /\ heaps' = Append(heaps, <<>>) /\ named' = Len(heaps) + 1
  /\ UNCHANGED held

DeleteQueue == named # 0 /\ named' = 0 /\ UNCHANGED <<heaps, held>>

GetQueue(c) == named # 0 /\ held' = [held EXCEPT ![c] = named] /\ UNCHANGED <<named, heaps>>

\* Operations on a queue that was looked up go on after it is deleted.
Enqueue(c, rank) ==
  /\ held[c] # 0 /\ Len(heaps[held[c]]) < MaxSize
  /\ heaps' = [heaps EXCEPT ![held[c]] = HeapPush(@, rank)]
  /\ UNCHANGED <<named, held>>

Dequeue(c) ==
  /\ held[c] # 0 /\ heaps[held[c]] # <<>>
  /\ heaps' = [heaps EXCEPT ![held[c]] = HeapPop(@)]
  /\ UNCHANGED <<named, held>>

Clear(c) ==
  /\ held[c] # 0 /\ heaps[held[c]] # <<>>
  /\ heaps' = [heaps EXCEPT ![held[c]] = <<>>]
  /\ UNCHANGED <<named, held>>

HeapNext ==
  \/ CreateQueue \/ DeleteQueue
  \/ \E c \in Holders : \/ GetQueue(c) \/ Dequeue(c) \/ Clear(c)
                        \/ \E rank \in Ranks : Enqueue(c, rank)

-----------------------------------------------------------------------------
(* WaitingQueue.                                                           *)

VARIABLES
  waiting,    \* the jobs in it
  consumer,   \* idle, asleep in Wait, or awake again
  asker,      \* whether DequeueWithTimeout still waits for this consumer
  dropped     \* jobs that went to a consumer nobody waits for
waitVars == <<waiting, consumer, asker, dropped>>

NothingWaits ==
  /\ waiting = <<>> /\ dropped = {}
  /\ consumer = [c \in Consumers |-> "idle"] /\ asker = [c \in Consumers |-> "none"]

In(s) == {c \in Consumers : consumer[c] = s}

\* Signal wakes one of those that are asleep, if there is one.
Signal == IF In("asleep") = {} THEN consumer' = consumer
          ELSE \E c \in In("asleep") : consumer' = [consumer EXCEPT ![c] = "awake"]

\* A signal that is given only when the queue was empty.
PutSignalsFirst(job) ==
  /\ Len(waiting) < MaxWaiting
  /\ waiting' = Append(waiting, job)
  /\ IF waiting = <<>> THEN Signal ELSE consumer' = consumer
  /\ UNCHANGED <<asker, dropped>>

\* Enqueue.
Put(job) ==
  /\ Len(waiting) < MaxWaiting
  /\ waiting' = Append(waiting, job)
  /\ Signal
  /\ UNCHANGED <<asker, dropped>>

\* Dequeue starts, or goes on after Wait: it takes the first job, which goes
\* to the caller if there still is one, or it waits.
Take(c) ==
  /\ asker[c] # "none" /\ consumer[c] # "asleep"
  /\ IF waiting = <<>> THEN consumer' = [consumer EXCEPT ![c] = "asleep"] /\ UNCHANGED <<waiting, asker, dropped>>
     ELSE /\ waiting' = Tail(waiting)
          /\ consumer' = [consumer EXCEPT ![c] = "idle"]
          /\ dropped' = IF asker[c] = "gone" THEN dropped \cup {Head(waiting)} ELSE dropped
          /\ asker' = [asker EXCEPT ![c] = "none"]

\* DequeueWithTimeout starts the consumer, and may leave before it is served.
Call(c) ==
  /\ asker[c] = "none"
  /\ asker' = [asker EXCEPT ![c] = "there"]
  /\ UNCHANGED <<waiting, consumer, dropped>>

Timeout(c) ==
  /\ asker[c] = "there"
  /\ asker' = [asker EXCEPT ![c] = "gone"]
  /\ UNCHANGED <<waiting, consumer, dropped>>

WaitNext == \/ \E job \in 1..MaxPushed : (\A i \in DOMAIN waiting : waiting[i] # job) /\ job \notin dropped /\ Put(job)
            \/ \E c \in Consumers : Call(c) \/ Take(c) \/ Timeout(c)

-----------------------------------------------------------------------------
(* CircularBuffer, with positions from 0.                                  *)

VARIABLES
  ring,      \* [items, head, tail, size]
  pushed     \* every job that was pushed since the buffer was clear
ringVars == <<ring, pushed>>

EmptyRing ==
  /\ ring = [items |-> [i \in 0..(Capacity - 1) |-> 0], head |-> 0, tail |-> 0, size |-> 0]
  /\ pushed = <<>>

Push ==
  /\ Len(pushed) < MaxPushed
  /\ pushed' = Append(pushed, Len(pushed) + 1)
  /\ ring' = [items |-> [ring.items EXCEPT ![ring.tail] = Len(pushed) + 1],
              tail  |-> (ring.tail + 1) % Capacity,
              size  |-> IF ring.size < Capacity THEN ring.size + 1 ELSE ring.size,
              head  |-> IF ring.size < Capacity THEN ring.head ELSE (ring.head + 1) % Capacity]

ClearRing ==
  /\ pushed # <<>>
  /\ ring' = [items |-> [i \in 0..(Capacity - 1) |-> 0], head |-> 0, tail |-> 0, size |-> 0]
  /\ pushed' = <<>>

RingNext == Push \/ ClearRing

\* GetRecent.
GetRecent(n) ==
  LET k == IF n > ring.size THEN ring.size ELSE n
  IN [i \in 1..k |-> ring.items[(ring.tail - i + Capacity) % Capacity]]

\* The three structures side by side; they share nothing.
QueuesSpec ==
  /\ NoQueue /\ NothingWaits /\ EmptyRing
  /\ [][HeapNext]_heapVars /\ [][WaitNext]_waitVars /\ [][RingNext]_ringVars

-----------------------------------------------------------------------------
(* Properties.                                                             *)

\* A dequeue takes a job of the highest priority, whatever was put in and
\* taken out in whatever order.
BestIsFirst == \A h \in DOMAIN heaps : \A i \in DOMAIN heaps[h] : heaps[h][i] <= heaps[h][1]

\* The ring buffer gives the newest jobs, the newest first.
RecentIsNewest ==
  \A n \in 0..(Capacity + 1) :
    LET k == IF n <= Len(pushed) THEN n ELSE Len(pushed)
        m == IF k <= Capacity THEN k ELSE Capacity
    IN GetRecent(n) = Reverse(SubSeq(pushed, Len(pushed) - m + 1, Len(pushed)))

\* No wake-up is lost: while a consumer sleeps, there are as many consumers
\* awake as there are jobs (queue.go:271, 281), however new consumers, late
\* ones and those whose caller has gone take jobs in between.
NobodySleepsOnWork == In("asleep") # {} => Cardinality(In("awake")) >= Len(waiting)

\* The three queues keep their promises.
QueuesServe == BestIsFirst /\ RecentIsNewest /\ NobodySleepsOnWork
===================================================================================
