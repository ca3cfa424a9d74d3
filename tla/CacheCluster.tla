------------------------------ MODULE CacheCluster ------------------------------
(***************************************************************************)
(* The caches of a cluster of servers (internal/cache: distributed.go,     *)
(* manager.go, multilevel_cache.go, cache.go, tags.go).  Every node has an *)
(* L1 in its memory; all share L2, which is Redis.  A change is written to *)
(* L1 and L2 of the node that makes it and then announced on a Redis       *)
(* channel; the others drop the key from their L1 when they get to the     *)
(* announcement.  Redis may fail at any call, and a node that is not       *)
(* subscribed at the moment loses what is published.                       *)
(*                                                                         *)
(* A task is what a goroutine is at: a client's call or a node's           *)
(* subscriber, which takes in one event at a time.  Every access to L1, to *)
(* Redis or to the epoch is a step of its own.  There is one tag.  Left    *)
(* out: statistics, the tags-of-a-key sets, which are only reported, and   *)
(* the hash ring (HashRing): whether a node owns a key only decides        *)
(* whether a miss is tried a second time, and is a free choice here.       *)
(***************************************************************************)
EXTENDS MemoryCache, FiniteSets

CONSTANTS
  Nodes,
  Callers,      \* goroutines that use the cache
  Home,         \* the node of each
  Menu,         \* the calls it makes
  Stored,       \* what Redis, which outlives the nodes, holds at the start
  MaxCalls      \* bound: calls begun, of all callers together

NoKey == "no key"
Call == [op : {"get", "invalidate"}, key : Keys, val : {None}]
        \cup [op : {"set", "warm", "setTagged"}, key : Keys, val : Values]
        \cup [op : {"clear", "tag"}, key : {NoKey}, val : {None}]

ASSUME ClusterParameters ==
  /\ IsFiniteSet(Nodes) /\ IsFiniteSet(Callers) /\ Nodes \cap Callers = {}
  /\ Home \in [Callers -> Nodes]
  /\ Menu \in [Callers -> SUBSET Call]
  /\ Stored \in [Keys -> Values \cup {None}]
  /\ MaxCalls \in Nat

VARIABLES
  l1,        \* l1Cache of each node
  l2,        \* the values in Redis
  tagged,    \* the members of the tag's set in Redis
  epoch,     \* of each node
  inbox,     \* what was published and each node has not yet taken in
  task,      \* of each caller, and of the subscriber of each node
  calls

vars == <<l1, l2, tagged, epoch, inbox, task, calls>>

Procs == Callers \cup Nodes
NodeOf(p) == IF p \in Nodes THEN p ELSE Home[p]

Event == [type : {"invalidate", "tag", "update", "clear"}, key : Keys \cup {NoKey},
          node : Nodes, epoch : Nat]

Idle == [pc |-> "idle", op |-> "none", key |-> NoKey, val |-> None, keys |-> {}, again |-> FALSE, seen |-> 0, cur |-> 0]

Phases == {"idle", "l1", "l2", "promote", "legacy", "owner", "setL1", "setL2", "delL1", "delL2", "clear",
           "members", "delTagged", "delTag", "setTagged", "addTag", "epoch", "publish", "load", "cas", "apply"}

ClusterTypeOK ==
  /\ l1 \in [Nodes -> Seq(Entry)] /\ l2 \in [Keys -> Values \cup {None}] /\ tagged \in SUBSET Keys
  /\ epoch \in [Nodes -> Nat] /\ inbox \in [Nodes -> Seq(Event)]
  /\ \A p \in Procs : task[p].pc \in Phases /\ task[p].seen \in Nat
  /\ calls \in 0..MaxCalls

Init ==
  /\ l1 = [n \in Nodes |-> <<>>]
  /\ l2 = Stored
  /\ tagged = {}
  /\ epoch = [n \in Nodes |-> 0]
  /\ inbox = [n \in Nodes |-> <<>>]
  /\ task = [p \in Procs |-> Idle]
  /\ calls = 0

At(p, pc)     == task[p].pc = pc
Become(p, t)  == task' = [task EXCEPT ![p] = t]
Goto(p, pc)   == Become(p, [task[p] EXCEPT !.pc = pc])
Finish(p)     == Become(p, Idle)
SetL1(n, c)   == l1' = [l1 EXCEPT ![n] = c]
Key(p)        == task[p].key

-----------------------------------------------------------------------------
(* Beginning a call.                                                       *)

FirstStep == [get |-> "l1", set |-> "setL1", warm |-> "setL1", invalidate |-> "delL1", clear |-> "clear",
              tag |-> "members", setTagged |-> "setTagged"]

Start(p, r) ==
  /\ At(p, "idle") /\ calls < MaxCalls
  /\ calls' = calls + 1
  /\ Become(p, [Idle EXCEPT !.pc = FirstStep[r.op], !.op = r.op, !.key = r.key, !.val = r.val])
  /\ UNCHANGED <<l1, l2, tagged, epoch, inbox>>

-----------------------------------------------------------------------------
(* Get.  L1, then L2 with a copy into L1, then L2 again as the legacy      *)
(* cache; all of it a second time when the key belongs to another node.    *)

GetL1(p) ==
  LET n == NodeOf(p)
      r == L1Get(l1[n], Key(p))
  IN /\ At(p, "l1")
     /\ SetL1(n, r.cache)
     /\ IF r.val # None THEN Finish(p) ELSE Goto(p, "l2")
     /\ UNCHANGED <<l2, tagged, epoch, inbox, calls>>

GetL2(p) ==
  /\ At(p, "l2")
  /\ \/ /\ l2[Key(p)] # None
        /\ Become(p, [task[p] EXCEPT !.pc = "promote", !.val = l2[Key(p)]])
     \/ /\ l2[Key(p)] = None
        /\ Goto(p, "legacy")
     \/ Goto(p, "owner")              \* Redis fails
  /\ UNCHANGED <<l1, l2, tagged, epoch, inbox, calls>>

Promote(p) ==
  LET n == NodeOf(p)
  IN /\ At(p, "promote")
     /\ SetL1(n, L1Set(l1[n], Key(p), task[p].val))
     /\ Finish(p)
     /\ UNCHANGED <<l2, tagged, epoch, inbox, calls>>

GetLegacy(p) ==
  /\ At(p, "legacy")
  /\ \/ l2[Key(p)] # None /\ Finish(p)
     \/ Goto(p, "owner")              \* not there, or Redis fails
  /\ UNCHANGED <<l1, l2, tagged, epoch, inbox, calls>>

\* The owner gives up; another node tries once more.
AskOwner(p) ==
  /\ At(p, "owner")
  /\ \/ Finish(p)
     \/ ~task[p].again /\ Become(p, [task[p] EXCEPT !.pc = "l1", !.again = TRUE])
  /\ UNCHANGED <<l1, l2, tagged, epoch, inbox, calls>>

-----------------------------------------------------------------------------
(* Set, Invalidate, Clear: this node's L1, then L2; then the news.  Warm   *)
(* sets values through the manager, which tells nobody.                    *)

WriteL1(p) ==
  LET n == NodeOf(p)
  IN /\ At(p, "setL1")
     /\ SetL1(n, L1Set(l1[n], Key(p), task[p].val))
     /\ Goto(p, "setL2")
     /\ UNCHANGED <<l2, tagged, epoch, inbox, calls>>

\* Both Set of DistributedCache and Warm drop the error.
WriteL2(p) ==
  /\ At(p, "setL2")
  /\ \/ l2' = [l2 EXCEPT ![Key(p)] = task[p].val]
     \/ UNCHANGED l2
  /\ IF task[p].op = "warm" THEN Finish(p) ELSE Goto(p, "epoch")
  /\ UNCHANGED <<l1, tagged, epoch, inbox, calls>>

DeleteL1(p) ==
  LET n == NodeOf(p)
  IN /\ At(p, "delL1")
     /\ SetL1(n, L1Delete(l1[n], Key(p)))
     /\ Goto(p, "delL2")
     /\ UNCHANGED <<l2, tagged, epoch, inbox, calls>>

DeleteL2(p) ==
  /\ At(p, "delL2")
  /\ \/ l2' = [l2 EXCEPT ![Key(p)] = None]
     \/ UNCHANGED l2
  /\ Goto(p, "epoch")
  /\ UNCHANGED <<l1, tagged, epoch, inbox, calls>>

\* Clear asks Redis for the keys that match the pattern "", which are none.
ClearL1(p) ==
  LET n == NodeOf(p)
  IN /\ At(p, "clear")
     /\ SetL1(n, <<>>)
     /\ Goto(p, "epoch")
     /\ UNCHANGED <<l2, tagged, epoch, inbox, calls>>

NextEpoch(p) ==
  LET n == NodeOf(p)
  IN /\ At(p, "epoch")
     /\ epoch' = [epoch EXCEPT ![n] = @ + 1]
     /\ Become(p, [task[p] EXCEPT !.pc = "publish", !.seen = epoch[n] + 1])
     /\ UNCHANGED <<l1, l2, tagged, inbox, calls>>

News(p) ==
  [type |-> IF task[p].op = "set" THEN "update" ELSE task[p].op,
   key |-> Key(p), node |-> NodeOf(p), epoch |-> task[p].seen]

\* broadcastEvent; R are the nodes that it reaches.  A node ignores its own
\* news (distributed.go:344), so that they need not be sent to it.
Publish(p, R) ==
  /\ At(p, "publish")
  /\ inbox' = [n \in Nodes |-> IF n \in R THEN Append(inbox[n], News(p)) ELSE inbox[n]]
  /\ Finish(p)
  /\ UNCHANGED <<l1, l2, tagged, epoch, calls>>

-----------------------------------------------------------------------------
(* Tags.  They know of L2 only.  A subscriber that is told of an           *)
(* invalidated tag goes through the same steps and announces nothing.      *)

TagDone(p) == IF p \in Nodes THEN Finish(p) ELSE Goto(p, "epoch")

TagMembers(p) ==
  /\ At(p, "members")
  /\ \/ tagged # {} /\ Become(p, [task[p] EXCEPT !.pc = "delTagged", !.keys = tagged])
     \/ TagDone(p)                    \* none, or Redis fails
  /\ UNCHANGED <<l1, l2, tagged, epoch, inbox, calls>>

DeleteTagged(p) ==
  /\ At(p, "delTagged")
  /\ \/ /\ l2' = [k \in Keys |-> IF k \in task[p].keys THEN None ELSE l2[k]]
        /\ Goto(p, "delTag")
     \/ UNCHANGED l2 /\ TagDone(p)
  /\ UNCHANGED <<l1, tagged, epoch, inbox, calls>>

DeleteTag(p) ==
  /\ At(p, "delTag")
  /\ tagged' \in {tagged, {}}
  /\ TagDone(p)
  /\ UNCHANGED <<l1, l2, epoch, inbox, calls>>

\* SetWithTags of the tagged cache.
SetTagged(p) ==
  /\ At(p, "setTagged")
  /\ \/ l2' = [l2 EXCEPT ![Key(p)] = task[p].val] /\ Goto(p, "addTag")
     \/ UNCHANGED l2 /\ Finish(p)
  /\ UNCHANGED <<l1, tagged, epoch, inbox, calls>>

AddTag(p) ==
  /\ At(p, "addTag")
  /\ tagged' \in {tagged, tagged \cup {Key(p)}}
  /\ Finish(p)
  /\ UNCHANGED <<l1, l2, epoch, inbox, calls>>

-----------------------------------------------------------------------------
(* The subscriber of node n.                                               *)

Receive(n) ==
  /\ At(n, "idle") /\ inbox[n] # <<>>
  /\ inbox' = [inbox EXCEPT ![n] = Tail(@)]
  /\ LET e == Head(inbox[n])
     IN Become(n, [Idle EXCEPT !.pc = "load", !.op = e.type, !.key = e.key, !.seen = e.epoch])
  /\ UNCHANGED <<l1, l2, tagged, epoch, calls>>

\* The loop that raises the epoch to that of the event.
LoadEpoch(n) ==
  /\ At(n, "load")
  /\ IF task[n].seen <= epoch[n] THEN Goto(n, "apply")
     ELSE Become(n, [task[n] EXCEPT !.pc = "cas", !.cur = epoch[n]])
  /\ UNCHANGED <<l1, l2, tagged, epoch, inbox, calls>>

\* A store that does not compare.
StoreEpoch(n) ==
  /\ At(n, "cas")
  /\ epoch' = [epoch EXCEPT ![n] = task[n].seen]
  /\ Goto(n, "apply")
  /\ UNCHANGED <<l1, l2, tagged, inbox, calls>>

SwapEpoch(n) ==
  /\ At(n, "cas")
  /\ IF epoch[n] = task[n].cur
     THEN epoch' = [epoch EXCEPT ![n] = task[n].seen] /\ Goto(n, "apply")
     ELSE UNCHANGED epoch /\ Goto(n, "load")
  /\ UNCHANGED <<l1, l2, tagged, inbox, calls>>

\* An update that leaves the old value in L1.
ApplyKeepsUpdated(n) ==
  /\ At(n, "apply")
  /\ \/ task[n].op = "invalidate" /\ SetL1(n, L1Delete(l1[n], Key(n))) /\ Finish(n)
     \/ task[n].op = "update" /\ UNCHANGED l1 /\ Finish(n)
     \/ task[n].op = "clear" /\ SetL1(n, <<>>) /\ Finish(n)
     \/ task[n].op = "tag" /\ UNCHANGED l1 /\ Goto(n, "members")
  /\ UNCHANGED <<l2, tagged, epoch, inbox, calls>>

\* The branches of handleEvent.
Apply(n) ==
  /\ At(n, "apply")
  /\ \/ task[n].op \in {"invalidate", "update"} /\ SetL1(n, L1Delete(l1[n], Key(n))) /\ Finish(n)
     \/ task[n].op = "clear" /\ SetL1(n, <<>>) /\ Finish(n)
     \/ task[n].op = "tag" /\ UNCHANGED l1 /\ Goto(n, "members")
  /\ UNCHANGED <<l2, tagged, epoch, inbox, calls>>

-----------------------------------------------------------------------------
(* Time: entries reach their TTL, and once a minute the dead ones are      *)
(* removed.                                                                *)

Expire(n, k) ==
  /\ Live(l1[n], k)
  /\ SetL1(n, Die(l1[n], k))
  /\ UNCHANGED <<l2, tagged, epoch, inbox, task, calls>>

Cleanup(n) ==
  /\ CleanExpired(l1[n]) # l1[n]
  /\ SetL1(n, CleanExpired(l1[n]))
  /\ UNCHANGED <<l2, tagged, epoch, inbox, task, calls>>

ExpireL2(k) ==
  /\ l2[k] # None
  /\ l2' = [l2 EXCEPT ![k] = None]
  /\ UNCHANGED <<l1, tagged, epoch, inbox, task, calls>>

\* The TTL of the tag's set is that of the key that was added last.
ExpireTag ==
  /\ tagged # {}
  /\ tagged' = {}
  /\ UNCHANGED <<l1, l2, epoch, inbox, task, calls>>

-----------------------------------------------------------------------------
GetSteps(p)   == GetL1(p) \/ GetL2(p) \/ Promote(p) \/ GetLegacy(p) \/ AskOwner(p)
WriteSteps(p) == WriteL1(p) \/ WriteL2(p) \/ DeleteL1(p) \/ DeleteL2(p) \/ ClearL1(p)
                 \/ NextEpoch(p) \/ \E R \in SUBSET (Nodes \ {NodeOf(p)}) : Publish(p, R)
TagSteps(p)   == TagMembers(p) \/ DeleteTagged(p) \/ DeleteTag(p) \/ SetTagged(p) \/ AddTag(p)
Subscriber(n) == Receive(n) \/ LoadEpoch(n) \/ SwapEpoch(n) \/ Apply(n)
Step(p)       == GetSteps(p) \/ WriteSteps(p) \/ TagSteps(p) \/ (p \in Nodes /\ Subscriber(p))

Next ==
  \/ \E p \in Callers : \E r \in Menu[p] : Start(p, r)
  \/ \E p \in Procs : Step(p)
  \/ \E n \in Nodes : Cleanup(n) \/ \E k \in Keys : Expire(n, k)
  \/ \E k \in Keys : ExpireL2(k)
  \/ ExpireTag

Spec == Init /\ [][Next]_vars

-----------------------------------------------------------------------------
(* Properties.                                                             *)

\* The L1 of a node never holds more than its maximum, nor a key twice,
\* though sets, promotions and evictions of many callers mix.
L1Bounded ==
  \A n \in Nodes : Len(l1[n]) <= MaxL1 /\ Cardinality(KeysOf(l1[n])) = Len(l1[n])

\* An epoch never falls (distributed.go:68), although callers raise it while
\* the subscriber is between loading and swapping it.
EpochMonotone == [][\A n \in Nodes : epoch'[n] >= epoch[n]]_vars

Covers(type, key, k) == type = "clear" \/ (type \in {"invalidate", "update", "set"} /\ key = k)

\* Something that is still to happen makes node n drop k, or L2 agree with it.
RepairUnderWay(n, k) ==
  \/ \E i \in DOMAIN inbox[n] : Covers(inbox[n][i].type, inbox[n][i].key, k)
  \/ task[n].pc \in {"load", "cas", "apply"} /\ Covers(task[n].op, Key(n), k)
  \/ \E p \in Callers : NodeOf(p) # n /\ task[p].pc \in {"epoch", "publish"} /\ Covers(task[p].op, Key(p), k)
  \/ \E p \in Callers : NodeOf(p) = n /\ At(p, "setL2") /\ Key(p) = k /\ task[p].val = Find(l1[n], k).val

Differs(n, k) == \E i \in DOMAIN l1[n] : l1[n][i].key = k /\ l1[n][i].val # l2[k]

\* Node n serves a value of k that is not that of L2, and nothing is under
\* way that would put this right before its TTL does.
Stale(n, k) == Live(l1[n], k) /\ Differs(n, k) /\ ~RepairUnderWay(n, k)

Leaves(p, pc) == At(p, pc) /\ task'[p].pc # pc

\* The ways in which a node comes to serve what L2 no longer holds: the copy
\* of a value that was read before it changed; two writers, or a writer and
\* a reader, of one node; a write or an announcement that Redis lost; tags,
\* which pass by L1; values that are warmed; and the end of a TTL in L2.
Excused(n, k) ==
  \/ \E p \in Callers : Leaves(p, "promote") /\ NodeOf(p) = n /\ Key(p) = k
  \/ \E p \in Callers, pc \in {"setL2", "delL2"} : Leaves(p, pc) /\ NodeOf(p) = n /\ Key(p) = k
  \/ \E p \in Callers : Leaves(p, "setL2") /\ task[p].op = "warm"
  \/ \E p \in Callers : Leaves(p, "publish") /\ inbox'[n] = inbox[n]
  \/ \E p \in Procs, pc \in {"delTagged", "setTagged"} : Leaves(p, pc)
  \/ ExpireL2(k)

\* Staleness enters in these ways only: not through events that overtake
\* each other, through Clear, an eviction or the epoch, and not through a
\* change made on another node whose announcement arrives.
StaleOnlyThrough ==
  [][\A n \in Nodes, k \in Keys : Stale(n, k)' /\ ~Stale(n, k) => Excused(n, k)]_vars
=================================================================================
