---------------------------- MODULE MCStreamManager ----------------------------
(* An instance of StreamManager for TLC: two streams, a channel of one event,  *)
(* a caller of SendEvent and one of BroadcastEvent.                            *)
EXTENDS StreamManager

CONSTANTS s1, s2, a, b

TwoStreams == {s1, s2}
TwoCallers == {a, b}
OneCaster  == {b}
================================================================================
