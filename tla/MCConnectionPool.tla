--------------------------- MODULE MCConnectionPool ---------------------------
(* Instances of ConnectionPool for TLC. *)
EXTENDS ConnectionPool, TLC

CONSTANTS u1, u2, u3

Two   == {u1, u2}
Three == {u1, u2, u3}

ClientSymmetry == Permutations(Clients)
===============================================================================
