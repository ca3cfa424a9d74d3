--------------------------- MODULE MCRequestBatcher ---------------------------
(* An instance of RequestBatcher for TLC: two models, five requests, one of  *)
(* them heavy enough to reach the limit of tokens with any other.            *)
EXTENDS RequestBatcher

CONSTANTS r1, r2, r3, r4, r5, m1, m2

FiveRequests == {r1, r2, r3, r4, r5}
TwoModels    == {m1, m2}
Targets      == [r \in FiveRequests |-> IF r = r4 THEN m2 ELSE m1]
Weights      == [r \in FiveRequests |-> IF r = r1 THEN 3 ELSE 1]
===============================================================================
