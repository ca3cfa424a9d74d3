------------------------------ MODULE TokenBuckets ------------------------------
(***************************************************************************)
(* The rate limiter of one server (internal/middleware/rate_limiter.go) as *)
(* one user meets it.  It keeps a token bucket per user, drops the entries *)
(* of idle users, and lets a request go on with a bucket that was dropped  *)
(* meanwhile.                                                              *)
(*                                                                         *)
(* Time is counted in ticks, Window of them to the minute.  A bucket of    *)
(* the tier t holds Limit[t] tokens and gains that many in a minute; to    *)
(* stay with integers, tokens are counted in parts, Window to the token.   *)
(* Reading a bucket refills it too, which changes nothing, as gaining in   *)
(* two steps is gaining in one; hence the reads for the headers are left   *)
(* out.                                                                    *)
(***************************************************************************)
EXTENDS Integers, FiniteSets, Sequences

CONSTANTS
  Tiers,
  Limit,       \* RequestsPerMinute of each
  Window,      \* ticks to the minute
  IdleLimit,   \* after how many ticks without a request an entry is dropped
  Callers,     \* requests of the user that are in the limiter at a time
  MaxTime      \* bound: the ticks that pass

ASSUME BucketParameters ==
  /\ IsFiniteSet(Tiers) /\ Tiers # {} /\ Limit \in [Tiers -> Nat \ {0}]
  /\ Window \in Nat \ {0} /\ IdleLimit \in Nat /\ IdleLimit >= Window
  /\ IsFiniteSet(Callers) /\ Callers # {} /\ MaxTime \in Nat

VARIABLES
  now,
  buckets,   \* all that were made
  entry,     \* the index of the one in the map, 0 if there is none
  caller,    \* what each request is at, and the bucket it holds
  minute,    \* history: when a minute began, any that is not yet over,
  granted    \* and the requests let through in it

bucketVars == <<now, buckets, entry, caller, minute, granted>>

Out == [pc |-> "out", tier |-> "none", bucket |-> 0]

NoEntries ==
  /\ now = 0 /\ buckets = <<>> /\ entry = 0
  /\ caller = [c \in Callers |-> Out]
  /\ minute = 0 /\ granted = 0

BucketsTypeOK ==
  /\ now \in 0..MaxTime /\ entry \in 0..Len(buckets)
  /\ \A c \in Callers : caller[c].bucket \in 0..Len(buckets)
  /\ \A i \in DOMAIN buckets : buckets[i].tokens \in 0..Window * Limit[buckets[i].tier]

-----------------------------------------------------------------------------
(* RateLimiter.Allow.                                                      *)

Using(i) == [Out EXCEPT !.pc = "consume", !.bucket = i]

\* getOrCreateEntry: the look under the read lock.
Lookup(c, t) ==
  /\ caller[c].pc = "out"
  /\ caller' = [caller EXCEPT ![c] = IF entry = 0 THEN [Out EXCEPT !.pc = "create", !.tier = t] ELSE Using(entry)]
  /\ UNCHANGED <<now, buckets, entry, minute, granted>>

\* getOrCreateEntry: the second look and the new bucket, full, of the tier
\* of this request.
Create(c) ==
  /\ caller[c].pc = "create"
  /\ IF entry # 0 THEN UNCHANGED <<buckets, entry>>
     ELSE /\ buckets' = Append(buckets, [tier |-> caller[c].tier, tokens |-> Window * Limit[caller[c].tier],
                                         refilled |-> now, access |-> now])
          /\ entry' = Len(buckets')
  /\ caller' = [caller EXCEPT ![c] = Using(entry')]
  /\ UNCHANGED <<now, minute, granted>>

\* refill.
Least(a, b) == IF a <= b THEN a ELSE b
Refilled(b) == Least(b.tokens + (now - b.refilled) * Limit[b.tier], Window * Limit[b.tier])

\* A bucket that is not told when it was refilled.
TryConsumeUndated(c) ==
  LET b == buckets[caller[c].bucket]
      enough == Refilled(b) >= Window
  IN /\ caller[c].pc = "consume"
     /\ buckets' = [buckets EXCEPT ![caller[c].bucket].tokens = Refilled(b) - (IF enough THEN Window ELSE 0)]
     /\ granted' = IF enough THEN granted + 1 ELSE granted
     /\ caller' = [caller EXCEPT ![c].pc = "touch"]
     /\ UNCHANGED <<now, entry, minute>>

\* TryConsume(1).
TryConsume(c) ==
  LET b == buckets[caller[c].bucket]
      enough == Refilled(b) >= Window
  IN /\ caller[c].pc = "consume"
     /\ buckets' = [buckets EXCEPT ![caller[c].bucket] =
                      [b EXCEPT !.tokens = Refilled(b) - (IF enough THEN Window ELSE 0), !.refilled = now]]
     /\ granted' = IF enough THEN granted + 1 ELSE granted
     /\ caller' = [caller EXCEPT ![c].pc = "touch"]
     /\ UNCHANGED <<now, entry, minute>>

\* LastAccess, under the lock of the limiter.
Touch(c) ==
  /\ caller[c].pc = "touch"
  /\ buckets' = [buckets EXCEPT ![caller[c].bucket].access = now]
  /\ caller' = [caller EXCEPT ![c] = Out]
  /\ UNCHANGED <<now, entry, minute, granted>>

\* cleanup.
CleanupIdle ==
  /\ entry # 0 /\ now - buckets[entry].access > IdleLimit
  /\ entry' = 0
  /\ UNCHANGED <<now, buckets, caller, minute, granted>>

BucketTick ==
  /\ now < MaxTime
  /\ now' = now + 1
  /\ \/ now' < minute + Window /\ UNCHANGED <<minute, granted>>
     \/ minute' = now' /\ granted' = 0
  /\ UNCHANGED <<buckets, entry, caller>>

BucketsNext ==
  \/ \E c \in Callers : (\E t \in Tiers : Lookup(c, t)) \/ Create(c) \/ TryConsume(c) \/ Touch(c)
  \/ CleanupIdle
  \/ BucketTick

BucketsSpec == NoEntries /\ [][BucketsNext]_bucketVars

-----------------------------------------------------------------------------
(* Properties.                                                             *)

\* In a minute a user gets no more than a full bucket of some tier and what
\* it gains meanwhile, whatever is cleaned up and made anew under waiting
\* requests; except that each of them but one may draw twice more on buckets
\* that leave the map (rate_limiter.go:128): on one that had left it when the
\* minute began, and on the next, which leaves it in that minute.
BurstBounded ==
  \E t \in Tiers : granted <= 2 * Limit[t] + 2 * (Cardinality(Callers) - 1)
=================================================================================
