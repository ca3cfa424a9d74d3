--------------------------------- MODULE HashRing ---------------------------------
(***************************************************************************)
(* The consistent hash ring that every process of the distributed cache    *)
(* keeps (internal/cache/consistent_hash.go), and the registry in Redis    *)
(* from which it learns of the others (internal/cache/distributed.go).     *)
(*                                                                         *)
(* Hashes are positions 0..Size - 1.  A ring is its set of nodes, the      *)
(* sorted sequence of positions, and the node that each position maps to.  *)
(* Left out: the lock that makes each operation atomic, and statistics.    *)
(***************************************************************************)
EXTENDS Integers, SequencesExt, FiniteSetsExt

CONSTANTS
  Nodes,
  Processes,    \* the nodes that run: each is one of Nodes
  Size,
  Replicas,
  HashOf,       \* [Nodes \X (1..Replicas) -> positions]
  KeyHashes     \* the positions of the keys

ASSUME HashRingParameters ==
  /\ IsFiniteSet(Nodes)
  /\ Size \in Nat \ {0} /\ Replicas \in Nat \ {0} /\ Processes \subseteq Nodes
  /\ HashOf \in [Nodes \X (1..Replicas) -> 0..(Size - 1)] /\ KeyHashes \subseteq 0..(Size - 1)

Nobody == "nobody"    \* the empty string

\* No two virtual nodes have one hash.
NoCollision == \A x, y \in DOMAIN HashOf : HashOf[x] = HashOf[y] => x = y

EmptyHashRing == [nodes |-> {}, ring |-> <<>>, map |-> [p \in 0..(Size - 1) |-> Nobody]]

\* A finite set as a sequence: upTo[x] are the elements that come before x,
\* and x.
InOrder(S, upTo) == [k \in 1..Cardinality(S) |-> CHOOSE x \in S : Cardinality(upTo[x]) = k]

\* sort.Slice.
Sorted(s) ==
  LET upTo   == [i \in DOMAIN s |-> {j \in DOMAIN s : s[j] < s[i] \/ (s[j] = s[i] /\ j <= i)}]
      places == InOrder(DOMAIN s, upTo)
  IN [k \in DOMAIN s |-> s[places[k]]]

HashesOf(n) == [i \in 1..Replicas |-> HashOf[n, i]]
OwnHashes(n) == {HashOf[n, i] : i \in 1..Replicas}

\* AddNode; all of the ring is sorted again.
AddNode(r, n) ==
  IF n \in r.nodes THEN r
  ELSE [nodes |-> r.nodes \cup {n},
        ring  |-> Sorted(r.ring \o HashesOf(n)),
        map   |-> [p \in DOMAIN r.map |-> IF p \in OwnHashes(n) THEN n ELSE r.map[p]]]

\* A removal that leaves the positions of the node in the ring.
RemoveFromMap(r, n) ==
  [r EXCEPT !.nodes = @ \ {n}, !.map = [p \in DOMAIN @ |-> IF @[p] = n THEN Nobody ELSE @[p]]]

\* RemoveNode: the positions that map to the node go.  The map loses one
\* when it is met first, so that a position that is there twice is kept the
\* second time.
RemoveNode(r, n) ==
  LET goes(i) == r.map[r.ring[i]] = n /\ \A j \in 1..(i - 1) : r.ring[j] # r.ring[i]
      kept == {i \in DOMAIN r.ring : ~goes(i)}
      keep == InOrder(kept, [i \in kept |-> kept \cap 1..i])
  IN IF n \notin r.nodes THEN r
     ELSE [nodes |-> r.nodes \ {n},
           ring  |-> [k \in DOMAIN keep |-> r.ring[keep[k]]],
           map   |-> [p \in DOMAIN r.map |-> IF r.map[p] = n THEN Nobody ELSE r.map[p]]]

\* The binary search: the first index of a hash that is not below, or one
\* past the end.
Search(r, hash) ==
  LET ends == {i \in DOMAIN r.ring : r.ring[i] >= hash}
  IN IF ends = {} THEN Len(r.ring) + 1 ELSE Min(ends)

GetNode(r, hash) ==
  IF r.ring = <<>> THEN Nobody
  ELSE r.map[r.ring[IF Search(r, hash) > Len(r.ring) THEN 1 ELSE Search(r, hash)]]

\* GetNodes: the walk around the ring takes each node where it meets it
\* first, until it has enough.
GetNodes(r, hash, count) ==
  LET first  == Search(r, hash) - 1
      at     == [i \in 0..(Len(r.ring) - 1) |-> r.map[r.ring[((first + i) % Len(r.ring)) + 1]]]
      firsts == {i \in DOMAIN at : \A j \in 0..(i - 1) : at[j] # at[i]}
      met    == InOrder(firsts, [i \in firsts |-> firsts \cap 0..i])
      all    == [k \in DOMAIN met |-> at[met[k]]]
  IN SubSeq(all, 1, Min({count, Cardinality(r.nodes), Len(all)}))

-----------------------------------------------------------------------------
VARIABLES
  rings,       \* of each process
  alive,
  registry     \* the keys velocityllm:nodes:* in Redis

ringsVars == <<rings, alive, registry>>

\* NewDistributedCache: a ring with the process itself.
OwnRing(p) == AddNode(EmptyHashRing, p)
OwnRings ==
  /\ rings = [p \in Processes |-> OwnRing(p)]
  /\ alive = Processes /\ registry = {}

\* The nodes of the registry, one after the other.
AddAll(r, keys) ==
  LET added[k \in 0..Len(keys)] == IF k = 0 THEN r ELSE AddNode(added[k - 1], keys[k])
  IN added[Len(keys)]

\* syncClusterState; the list comes in any order, or fails to come.
SyncClusterState(p) ==
  /\ p \in alive
  /\ registry' = registry \cup {p}
  /\ \/ \E keys \in SetToSeqs(registry' \ {p}) : rings' = [rings EXCEPT ![p] = AddAll(@, keys)]
     \/ UNCHANGED rings
  /\ UNCHANGED alive

\* AddNode and RemoveNode of the cache; the program itself calls neither.
AddByHand(p, n) == p \in alive /\ rings' = [rings EXCEPT ![p] = AddNode(@, n)] /\ UNCHANGED <<alive, registry>>
RemoveByHand(p, n) == p \in alive /\ rings' = [rings EXCEPT ![p] = RemoveNode(@, n)] /\ UNCHANGED <<alive, registry>>

\* Stop takes the process out of the registry; a crash leaves that to the
\* 30 seconds of its key.
StopProcess(p) ==
  /\ p \in alive
  /\ alive' = alive \ {p} /\ registry' \in {registry, registry \ {p}}
  /\ UNCHANGED rings

HeartbeatExpires(n) ==
  /\ n \in registry
  /\ registry' = registry \ {n}
  /\ UNCHANGED <<rings, alive>>

StartProcess(p) ==
  /\ p \in Processes \ alive
  /\ alive' = alive \cup {p} /\ rings' = [rings EXCEPT ![p] = OwnRing(p)]
  /\ UNCHANGED registry

RingsNext ==
  \/ \E p \in Processes : \/ SyncClusterState(p) \/ StopProcess(p) \/ StartProcess(p) \/ HeartbeatExpires(p)
                          \/ \E n \in Nodes : AddByHand(p, n) \/ RemoveByHand(p, n)

RingsSpec == OwnRings /\ [][RingsNext]_ringsVars

-----------------------------------------------------------------------------
\* What a ring is for, from its set of nodes alone: the owner of a key is the
\* node with the next position clockwise.
Distance(from, to) == (to - from + Size) % Size
ClosestFirst(ns, hash) ==
  LET far == [n \in ns |-> Min({Distance(hash, p) : p \in OwnHashes(n)})]
  IN InOrder(ns, [n \in ns |-> {m \in ns : far[m] <= far[n]}])

\* Whatever nodes came and went, and in whatever order, owners and replicas
\* of a key depend on the nodes that are in the ring alone, so that a node
\* that comes or goes moves no key between two others; unless two virtual
\* nodes have one hash (consistent_hash.go:47, 64).
RingFollowsNodes ==
  NoCollision =>
    \A r \in Range(rings), hash \in KeyHashes :
      LET order == ClosestFirst(r.nodes, hash)
      IN /\ GetNode(r, hash) = IF r.nodes = {} THEN Nobody ELSE order[1]
         /\ \A c \in 0..(Cardinality(Nodes) + 1) :
              GetNodes(r, hash, c) = SubSeq(order, 1, Min({c, Cardinality(r.nodes)}))
===================================================================================
