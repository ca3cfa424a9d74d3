----------------------------- MODULE MCModelRouter -----------------------------
(* Instances of ModelRouter for TLC. *)
EXTENDS ModelRouter, TLC

CONSTANTS m1, m2, r1, r2

TwoModels == <<m1, m2>>
TwoRequests == {r1, r2}
OneRequest == {r1}

MCRemote == {m2}
NoModels == {}

\* m2 is a mid-tier model and m1 a cheap one that it falls back to.
MCTier == [m \in Models |-> IF m = m2 THEN "mid" ELSE "budget"]

MCSymmetry == Permutations(Requests)
================================================================================
