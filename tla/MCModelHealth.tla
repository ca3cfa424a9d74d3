----------------------------- MODULE MCModelHealth -----------------------------
(* An instance of ModelHealth for TLC: a local model, and a remote one of    *)
(* which two rounds may have checks in flight together.                      *)
EXTENDS ModelHealth

CONSTANTS local, remote

BothModels == {local, remote}
OneLocal   == {local}
Overlap    == {<<local, 1>>, <<remote, 1>>, <<remote, 2>>}
================================================================================
