----------------------------- MODULE SlidingWindow -----------------------------
(***************************************************************************)
(* The rate limiter that servers share                                     *)
(* (internal/middleware/distributed_rate_limiter.go) as one user of one    *)
(* tier meets it: a sorted set in Redis holds the requests of the last     *)
(* Width ticks, and one script prunes it, counts and adds.                 *)
(***************************************************************************)
EXTENDS Integers, FiniteSets, FiniteSetsExt

CONSTANTS
  Servers,
  Ahead,      \* how far the clock of each is ahead of the slowest
  Width,      \* the length of the window, in ticks
  Quota,      \* RequestsPerMinute of the tier
  LastTick    \* bound: the ticks that pass

ASSUME WindowParameters ==
  /\ IsFiniteSet(Servers) /\ Servers # {} /\ Ahead \in [Servers -> Nat]
  /\ Width \in Nat \ {0} /\ Quota \in Nat \ {0} /\ LastTick \in Nat

VARIABLES
  clock,
  members,   \* of the sorted set: the millisecond of the server's clock (and
             \* the head of the user's name), so that two requests of the user
             \* in one millisecond are one member
  expires,   \* when Redis drops the set, by the slowest clock
  passed     \* history: members that the script let through, with the time

windowVars == <<clock, members, expires, passed>>

EmptyWindow == clock = 0 /\ members = {} /\ expires = 0 /\ passed = {}

There == IF clock < expires THEN members ELSE {}
Kept(at) == {m \in There : m > at - Width}

\* A window that is full one request too late.
AllowLate(s) ==
  LET at == clock + Ahead[s]
  IN /\ IF Cardinality(Kept(at)) <= Quota
        THEN members' = Kept(at) \cup {at} /\ passed' = passed \cup {<<at, clock>>} /\ expires' = clock + Width
        ELSE members' = Kept(at) /\ UNCHANGED <<passed, expires>>
     /\ UNCHANGED clock

\* Allow on server s.  While Redis fails every request passes; those are
\* not in passed.
Allow(s) ==
  LET at == clock + Ahead[s]
  IN /\ IF Cardinality(Kept(at)) < Quota
        THEN members' = Kept(at) \cup {at} /\ passed' = passed \cup {<<at, clock>>} /\ expires' = clock + Width
        ELSE members' = Kept(at) /\ UNCHANGED <<passed, expires>>
     /\ UNCHANGED clock

WindowTick ==
  /\ clock < LastTick
  /\ clock' = clock + 1
  /\ UNCHANGED <<members, expires, passed>>

WindowNext == (\E s \in Servers : Allow(s)) \/ WindowTick

WindowSpec == EmptyWindow /\ [][WindowNext]_windowVars

-----------------------------------------------------------------------------
Skew == Max({Ahead[s] : s \in Servers})

\* In a window, less what the clocks of the servers differ by, the script
\* lets no more different members through than the limit, wherever the
\* requests come in and whoever prunes for whom.
WindowHolds ==
  \A t \in 0..LastTick :
    Cardinality({x[1] : x \in {y \in passed : t <= y[2] /\ y[2] < t + Width - Skew}}) <= Quota
=================================================================================
