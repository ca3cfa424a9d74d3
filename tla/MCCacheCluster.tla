---------------------------- MODULE MCCacheCluster ----------------------------
(* An instance of CacheCluster for TLC: two nodes, one caller on each.       *)
EXTENDS CacheCluster

CONSTANTS n1, n2, c1, c2, v1, v2, k1, k2

TwoNodes   == {n1, n2}
TwoCallers == {c1, c2}
TwoKeys    == {k1, k2}
TwoValues  == {v1, v2}
OneEach    == (c1 :> n1) @@ (c2 :> n2)
Before     == (k1 :> v1) @@ (k2 :> None)

Do(op, k, v) == [op |-> op, key |-> k, val |-> v]

\* c1 mostly changes what c2 mostly reads.
Mixed == (c1 :> {Do("set", k1, v2), Do("set", k2, v2), Do("invalidate", k1, None), Do("clear", NoKey, None),
                 Do("tag", NoKey, None)})
         @@ (c2 :> {Do("get", k1, None), Do("get", k2, None), Do("set", k1, v1), Do("warm", k1, v2), Do("setTagged", k1, v2)})
===============================================================================
