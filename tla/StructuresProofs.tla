---------------------------- MODULE StructuresProofs ----------------------------
(***************************************************************************)
(* Proofs about structures beside the requests: the circuit breaker and    *)
(* the load shedding of Backpressure, for any number of requests and any   *)
(* thresholds; the batches of RequestBatcher, for any requests, models and *)
(* limits; the queues of JobQueue, for any priorities and sizes;           *)
(* ModelChain, for any steps and any answers; and the ring of HashRing,    *)
(* for any nodes and hashes.                                               *)
(***************************************************************************)
EXTENDS Backpressure, RequestBatcher, JobQueue, ModelChain, HashRing, FiniteSetTheorems, SequenceTheorems,
        WellFoundedInduction, TLAPS

-----------------------------------------------------------------------------
(* The circuit breaker.                                                    *)

BreakerTypeOK ==
  /\ state \in {"closed", "open", "half-open"}
  /\ failures \in Nat
  /\ waited \in BOOLEAN
  /\ client \in [Clients -> {"out", "in", "half", "close", "failed"}]

\* An open circuit has its failures even while one is being recorded; only a
\* closed one may be behind, and then somebody is about to open it.
OpenHasFailures == state = "open" => failures >= MaxFailures
ClosedHasFew    == Unlocked /\ state = "closed" => failures < MaxFailures

BreakerInv == BreakerTypeOK /\ OpenHasFailures /\ ClosedHasFew

LEMMA ClosedInitially == Closed => BreakerInv
  BY BackpressureParameters
  DEF Closed, BreakerInv, BreakerTypeOK, OpenHasFailures, ClosedHasFew

\* Where a request goes leaves the other requests, and their type, alone.
LEMMA ToKeepsType ==
  ASSUME BreakerTypeOK, NEW c \in Clients,
         NEW pc \in {"out", "in", "half", "close", "failed"}, To(c, pc)
  PROVE  /\ client' \in [Clients -> {"out", "in", "half", "close", "failed"}]
         /\ client'[c] = pc
         /\ \A d \in Clients \ {c} : client'[d] = client[d]
  BY DEF BreakerTypeOK, To

\* No request is left at "failed" that was not there: the lock is only given
\* back, and never found free by a step that does not take it.
LEMMA UnlockedBefore ==
  ASSUME BreakerTypeOK, NEW c \in Clients, NEW pc \in {"out", "in", "half", "close"},
         To(c, pc), client[c] # "failed", Unlocked'
  PROVE  Unlocked
<1>1. \A d \in Clients \ {c} : client'[d] = client[d]
  BY ToKeepsType
<1> QED BY <1>1 DEF Unlocked

LEMMA AllowStep ==
  ASSUME BreakerInv, NEW c \in Clients, AllowLoad(c) \/ AllowHalfOpen(c)
  PROVE  BreakerInv'
<1>1. CASE AllowLoad(c)
  <2>1. PICK pc \in {"in", "half", "out"} : To(c, pc)
    BY <1>1 DEF AllowLoad, BreakerInv, BreakerTypeOK
  <2>2. BreakerTypeOK'
    BY <1>1, <2>1, ToKeepsType DEF AllowLoad, BreakerInv, BreakerTypeOK
  <2>3. Unlocked' => Unlocked
    BY <1>1, <2>1, UnlockedBefore DEF AllowLoad, BreakerInv
  <2> QED BY <1>1, <2>2, <2>3 DEF AllowLoad, BreakerInv, OpenHasFailures, ClosedHasFew
<1>2. CASE AllowHalfOpen(c)
  <2>1. BreakerTypeOK'
    BY <1>2, ToKeepsType DEF AllowHalfOpen, BreakerInv, BreakerTypeOK
  <2> QED BY <1>2, <2>1 DEF AllowHalfOpen, BreakerInv, OpenHasFailures, ClosedHasFew
<1> QED BY <1>1, <1>2

LEMMA SuccessStep ==
  ASSUME BreakerInv, NEW c \in Clients, SuccessLoad(c) \/ SuccessClose(c)
  PROVE  BreakerInv'
<1>1. CASE SuccessLoad(c)
  <2>1. PICK pc \in {"close", "out"} : To(c, pc)
    BY <1>1 DEF SuccessLoad
  <2>2. BreakerTypeOK'
    BY <1>1, <2>1, ToKeepsType DEF SuccessLoad, BreakerInv, BreakerTypeOK
  <2>3. Unlocked' => Unlocked
    BY <1>1, <2>1, UnlockedBefore DEF SuccessLoad, BreakerInv
  <2> QED BY <1>1, <2>2, <2>3 DEF SuccessLoad, BreakerInv, OpenHasFailures, ClosedHasFew
<1>2. CASE SuccessClose(c)
  <2>1. BreakerTypeOK'
    BY <1>2, ToKeepsType DEF SuccessClose, BreakerInv, BreakerTypeOK
  <2>2. failures' < MaxFailures
    BY <1>2, BackpressureParameters DEF SuccessClose
  <2> QED BY <1>2, <2>1, <2>2 DEF SuccessClose, BreakerInv, OpenHasFailures, ClosedHasFew
<1> QED BY <1>1, <1>2

LEMMA FailureStep ==
  ASSUME BreakerInv, NEW c \in Clients, FailureCount(c) \/ FailureOpen(c)
  PROVE  BreakerInv'
<1>1. CASE FailureCount(c)
  <2>1. BreakerTypeOK'
    <3>1. failures' \in Nat
      BY <1>1 DEF FailureCount, BreakerInv, BreakerTypeOK
    <3>2. state' \in {"closed", "open", "half-open"} /\ waited' \in BOOLEAN
      BY <1>1 DEF FailureCount, BreakerInv, BreakerTypeOK
    <3>3. client' \in [Clients -> {"out", "in", "half", "close", "failed"}]
      BY <1>1, ToKeepsType DEF FailureCount, BreakerInv
    <3> QED BY <3>1, <3>2, <3>3 DEF BreakerTypeOK
  <2>2. client'[c] = "failed"
    BY <1>1, ToKeepsType DEF FailureCount, BreakerInv
  <2>3. ~Unlocked'
    BY <2>2 DEF Unlocked
  <2>4. OpenHasFailures'
    BY <1>1, BackpressureParameters DEF FailureCount, BreakerInv, BreakerTypeOK, OpenHasFailures
  <2> QED BY <2>1, <2>3, <2>4 DEF BreakerInv, ClosedHasFew
<1>2. CASE FailureOpen(c)
  <2>1. BreakerTypeOK'
    BY <1>2, ToKeepsType DEF FailureOpen, BreakerInv, BreakerTypeOK
  <2>2. CASE failures >= MaxFailures
    BY <1>2, <2>1, <2>2 DEF FailureOpen, BreakerInv, OpenHasFailures, ClosedHasFew
  <2>3. CASE ~(failures >= MaxFailures)
    BY <1>2, <2>1, <2>3, BackpressureParameters
    DEF FailureOpen, BreakerInv, BreakerTypeOK, OpenHasFailures, ClosedHasFew
  <2> QED BY <2>2, <2>3
<1> QED BY <1>1, <1>2

LEMMA BreakerInductive == BreakerInv /\ [BreakerNext]_breakerVars => BreakerInv'
<1> SUFFICES ASSUME BreakerInv, [BreakerNext]_breakerVars PROVE BreakerInv'
  OBVIOUS
<1>1. CASE \E c \in Clients : AllowLoad(c) \/ AllowHalfOpen(c)
  BY <1>1, AllowStep
<1>2. CASE \E c \in Clients : SuccessLoad(c) \/ SuccessClose(c)
  BY <1>2, SuccessStep
<1>3. CASE \E c \in Clients : FailureCount(c) \/ FailureOpen(c)
  BY <1>3, FailureStep
<1>4. CASE TimeoutPasses
  BY <1>4 DEF TimeoutPasses, BreakerInv, BreakerTypeOK, OpenHasFailures, ClosedHasFew, Unlocked
<1>5. CASE UNCHANGED breakerVars
  BY <1>5 DEF breakerVars, BreakerInv, BreakerTypeOK, OpenHasFailures, ClosedHasFew, Unlocked
<1> QED BY <1>1, <1>2, <1>3, <1>4, <1>5 DEF BreakerNext

\* Although Allow stores the state without the lock and a late success
\* closes a circuit that others have opened, the circuit rests closed only
\* with few failures and open only with many (backpressure.go:285, 310).
THEOREM BreakerFitsCount == BreakerSpec => []StateFitsCount
<1>1. BreakerInv => StateFitsCount
  BY DEF BreakerInv, OpenHasFailures, ClosedHasFew, StateFitsCount
<1> QED BY <1>1, ClosedInitially, BreakerInductive, PTL DEF BreakerSpec

-----------------------------------------------------------------------------
(* Load shedding.                                                          *)

UsageTypeOK == usage \in [queue : Loads, workers : Loads]

LEMMA UsageTypes == SheddingSpec => []UsageTypeOK
<1>1. Idle => UsageTypeOK
  BY BackpressureParameters DEF Idle, UsageTypeOK
<1>2. UsageTypeOK /\ [GetMetrics]_usage => UsageTypeOK'
  BY DEF GetMetrics, UsageTypeOK
<1> QED BY <1>1, <1>2, PTL DEF SheddingSpec

\* Workers that are busier never raise the threshold.
LEMMA ThresholdFalls ==
  ASSUME NEW v \in Int, NEW w \in Int, v <= w
  PROVE  Threshold(v) \in Int /\ Threshold(w) \in Int /\ Threshold(w) <= Threshold(v)
<1>1. QueueThreshold \in Int /\ QueueThreshold >= 0
  BY BackpressureParameters
<1>2. Adapted(v) \in Int /\ Adapted(w) \in Int /\ Adapted(w) <= Adapted(v)
  <2>1. Adapted(v) = IF v > 90 THEN QueueThreshold * 70 ELSE IF v > 75 THEN QueueThreshold * 85
                     ELSE IF v < 50 THEN QueueThreshold * 120 ELSE QueueThreshold * 100
    BY DEF Adapted
  <2>2. Adapted(w) = IF w > 90 THEN QueueThreshold * 70 ELSE IF w > 75 THEN QueueThreshold * 85
                     ELSE IF w < 50 THEN QueueThreshold * 120 ELSE QueueThreshold * 100
    BY DEF Adapted
  <2> QED BY <1>1, <2>1, <2>2
<1> QED BY <1>1, <1>2 DEF Threshold

\* Refused stays refused as the load rises, and for lower priorities.
LEMMA RefusalSpreads ==
  ASSUME NEW q \in 0..100, NEW w \in 0..100, NEW p \in Priorities, ~Accepts(q, w, p),
         NEW q1 \in 0..100, NEW w1 \in 0..100, NEW r \in Priorities, q <= q1, w <= w1, r <= p
  PROVE  ~Accepts(q1, w1, r)
<1>1. Threshold(w) \in Int /\ Threshold(w1) \in Int /\ Threshold(w1) <= Threshold(w)
  BY ThresholdFalls
<1>2. EnableLoadShedding /\ ~(q * 100 < Threshold(w))
  BY DEF Accepts
<1>3. ~(q1 * 100 < Threshold(w1))
  BY <1>1, <1>2
<1>4. p \in Int /\ r \in Int
  BY DEF Priorities, Low, Normal, High
<1>5. ~(q1 >= 95 /\ r >= High)
  BY <1>4 DEF Accepts, Normal, High
<1>6. ~(q1 < 95 /\ (r >= Normal \/ (q1 < 90 /\ ~RejectLowPriority)))
  BY <1>4 DEF Accepts, Normal, High
<1> QED BY <1>2, <1>3, <1>5, <1>6 DEF Accepts

\* For any thresholds and any loads, a rising load lets nobody in who was
\* refused, nor anybody of a lower priority in their place, although busier
\* workers and a fuller queue move the limit by steps (backpressure.go:66-103,
\* 138).
THEOREM SheddingStaysFair == SheddingSpec => SheddingIsMonotone
<1>1. UsageTypeOK /\ UsageTypeOK' /\ [GetMetrics]_usage
      => [usage'.queue >= usage.queue /\ usage'.workers >= usage.workers =>
            \A p \in Priorities : Refuses(p) => \A r \in Priorities : r <= p => Refuses(r)']_usage
  <2> SUFFICES ASSUME UsageTypeOK, UsageTypeOK', usage'.queue >= usage.queue, usage'.workers >= usage.workers,
                      NEW p \in Priorities, Refuses(p), NEW r \in Priorities, r <= p
               PROVE  Refuses(r)'
    OBVIOUS
  <2>1. /\ usage.queue \in 0..100 /\ usage.workers \in 0..100
        /\ usage'.queue \in 0..100 /\ usage'.workers \in 0..100
    BY BackpressureParameters DEF UsageTypeOK
  <2>2. usage.queue <= usage'.queue /\ usage.workers <= usage'.workers
    BY <2>1
  <2> QED BY <2>1, <2>2, RefusalSpreads DEF Refuses
<1> QED BY <1>1, UsageTypes, PTL DEF SheddingSpec, SheddingIsMonotone

-----------------------------------------------------------------------------
(* The request batcher: tokens of a batch.                                 *)

\* Induction, over a set of numbers.
LEMMA Induction ==
  ASSUME NEW T, 0 \in T, \A n \in Nat : n \in T => n + 1 \in T
  PROVE  \A n \in Nat : n \in T
<1> DEFINE R == OpToRel(<, Nat)
           U == Nat \ T
<1>1. IsWellFoundedOn(R, Nat)
  BY NatLessThanWellFounded
<1>2. \A i, j \in Nat : i < j => <<i, j>> \in R
  BY DEF OpToRel
<1> HIDE DEF R
<1>3. SUFFICES ASSUME U # {} PROVE FALSE
  OBVIOUS
<1>4. PICK x \in U : \A y \in U : <<y, x>> \notin R
  <2>1. U \subseteq Nat OBVIOUS
  <2> HIDE DEF U
  <2> QED BY <1>1, <1>3, <2>1, WFMin
<1>5. x \in Nat /\ x \notin T
  BY <1>4
<1>6. x # 0 /\ x - 1 \in Nat /\ x - 1 < x
  BY <1>5
<1>7. x - 1 \notin U
  BY <1>4, <1>2, <1>5, <1>6
<1>8. (x - 1) + 1 \in T
  BY <1>6, <1>7
<1> QED BY <1>5, <1>6, <1>8

-----------------------------------------------------------------------------
\* Sums(b) is the function whose last value TokensOf gives.
Sums(b) == CHOOSE f : f = [n \in 0..Len(b) |-> IF n = 0 THEN 0 ELSE f[n - 1] + Tokens[b[n]]]

LEMMA SumsExist ==
  ASSUME NEW b \in Seq(Requests)
  PROVE  /\ TokensOf(b) = Sums(b)[Len(b)]
         /\ Sums(b) \in [0..Len(b) -> Nat] /\ Sums(b)[0] = 0
         /\ \A n \in 1..Len(b) : Sums(b)[n] = Sums(b)[n - 1] + Tokens[b[n]]
<1> DEFINE Adds(f, n) == /\ f \in [0..n -> Nat] /\ f[0] = 0
                         /\ \A i \in 1..n : f[i] = f[i - 1] + Tokens[b[i]]
           Sum(n) == \E f : Adds(f, n)
           T == {n \in Nat : n <= Len(b) => Sum(n)}
<1>1. Len(b) \in Nat /\ \A n \in 1..Len(b) : Tokens[b[n]] \in Nat
  BY BatcherParameters, ElementOfSeq
<1>2. 0 \in T
  <2>1. Adds([n \in 0..0 |-> 0], 0) OBVIOUS
  <2> QED BY <2>1
<1>3. ASSUME NEW n \in Nat, n \in T PROVE n + 1 \in T
  <2>1. SUFFICES ASSUME n + 1 <= Len(b) PROVE Sum(n + 1)
    <3> HIDE DEF Sum
    <3> QED OBVIOUS
  <2>2. Sum(n)
    <3> HIDE DEF Sum
    <3> QED BY <1>1, <1>3, <2>1
  <2>3. PICK f : Adds(f, n)
    BY <2>2
  <2> DEFINE g == [i \in 0..(n + 1) |-> IF i <= n THEN f[i] ELSE f[n] + Tokens[b[n + 1]]]
  <2>4. f[n] \in Nat /\ Tokens[b[n + 1]] \in Nat
    BY <2>1, <2>3, <1>1
  <2>5. g \in [0..(n + 1) -> Nat] /\ g[0] = 0
    BY <2>3, <2>4
  <2>6. ASSUME NEW i \in 1..(n + 1) PROVE g[i] = g[i - 1] + Tokens[b[i]]
    <3>1. CASE i = n + 1
      BY <3>1
    <3>2. CASE i \in 1..n
      <4>1. f[i] = f[i - 1] + Tokens[b[i]]
        BY <2>3, <3>2
      <4>2. g[i] = f[i] /\ g[i - 1] = f[i - 1]
        BY <3>2
      <4> QED BY <4>1, <4>2
    <3> QED BY <3>1, <3>2
  <2> HIDE DEF g
  <2> QED BY <2>5, <2>6
<1>4. Len(b) \in T
  <2> HIDE DEF T
  <2> QED BY <1>1, <1>2, <1>3, Induction
<1>5. PICK f : Adds(f, Len(b))
  BY <1>1, <1>4
<1>6. f = [n \in 0..Len(b) |-> IF n = 0 THEN 0 ELSE f[n - 1] + Tokens[b[n]]]
  BY <1>5, <1>1
<1>7. Sums(b) = [n \in 0..Len(b) |-> IF n = 0 THEN 0 ELSE Sums(b)[n - 1] + Tokens[b[n]]]
  BY <1>6 DEF Sums
<1> DEFINE s == Sums(b)
<1> HIDE DEF s
<1>8. s = [n \in 0..Len(b) |-> IF n = 0 THEN 0 ELSE s[n - 1] + Tokens[b[n]]]
  BY <1>7 DEF s
<1>9. s[0] = 0 /\ \A n \in 1..Len(b) : s[n] = s[n - 1] + Tokens[b[n]]
  BY <1>8, <1>1
<1>10. s \in [0..Len(b) -> Nat]
  <2> DEFINE U == {n \in Nat : n <= Len(b) => s[n] \in Nat}
  <2>1. 0 \in U
    BY <1>9
  <2>2. \A n \in Nat : n \in U => n + 1 \in U
    BY <1>9, <1>1
  <2>3. \A n \in Nat : n \in U
    <3> HIDE DEF U
    <3> QED BY <2>1, <2>2, Induction
  <2>4. ASSUME NEW n \in 0..Len(b) PROVE s[n] \in Nat
    BY <2>3, <1>1
  <2>5. s = [n \in 0..Len(b) |-> s[n]]
    BY <1>8
  <2> HIDE DEF U
  <2> QED BY <2>4, <2>5
<1>11. TokensOf(b) = Sums(b)[Len(b)]
  BY DEF TokensOf, Sums
<1> QED BY <1>9, <1>10, <1>11 DEF s

\* A part of a batch is no heavier than the batch.
LEMMA PartIsLighter ==
  ASSUME NEW b \in Seq(Requests), NEW c \in Seq(Requests), NEW d \in Nat,
         Len(c) + d <= Len(b), \A i \in 1..Len(c) : c[i] = b[i + d]
  PROVE  TokensOf(c) <= TokensOf(b) /\ TokensOf(c) \in Nat /\ TokensOf(b) \in Nat
<1> DEFINE s == Sums(b)
           t == Sums(c)
           T == {n \in Nat : n <= Len(c) => t[n] <= s[n + d]}
           U == {n \in Nat : Len(c) + d + n <= Len(b) => s[Len(c) + d] <= s[Len(c) + d + n]}
<1>1. /\ s \in [0..Len(b) -> Nat] /\ s[0] = 0
      /\ \A n \in 1..Len(b) : s[n] = s[n - 1] + Tokens[b[n]]
      /\ t \in [0..Len(c) -> Nat] /\ t[0] = 0
      /\ \A n \in 1..Len(c) : t[n] = t[n - 1] + Tokens[c[n]]
      /\ TokensOf(c) = t[Len(c)] /\ TokensOf(b) = s[Len(b)]
  BY SumsExist
<1> HIDE DEF s, t
<1>2. /\ Len(b) \in Nat /\ \A n \in 1..Len(b) : Tokens[b[n]] \in Nat
      /\ Len(c) \in Nat /\ \A n \in 1..Len(c) : Tokens[c[n]] \in Nat
  BY BatcherParameters, ElementOfSeq
<1>3. \A n \in Nat : n \in T
  <2>1. 0 \in T
    <3>1. d \in 0..Len(b)
      BY <1>2
    <3>2. s[0 + d] \in Nat
      BY <1>1, <3>1
    <3> QED BY <1>1, <3>2
  <2>2. ASSUME NEW n \in Nat, n \in T PROVE n + 1 \in T
    <3> SUFFICES ASSUME n + 1 <= Len(c) PROVE t[n + 1] <= s[n + 1 + d]
      OBVIOUS
    <3>1. t[n + 1] = t[n] + Tokens[c[n + 1]]
      BY <1>1, <1>2
    <3>2. s[n + 1 + d] = s[n + d] + Tokens[b[n + 1 + d]]
      BY <1>1, <1>2
    <3>3. c[n + 1] = b[n + 1 + d]
      BY <1>2
    <3>4. t[n] <= s[n + d]
      BY <2>2, <1>2
    <3>5. t[n] \in Nat /\ s[n + d] \in Nat /\ Tokens[c[n + 1]] \in Nat
      <4>1. n \in 0..Len(c) /\ n + 1 \in 1..Len(c) /\ n + d \in 0..Len(b)
        BY <1>2
      <4> QED BY <1>1, <1>2, <4>1
    <3> QED BY SMTT(30), <3>1, <3>2, <3>3, <3>4, <3>5
  <2> HIDE DEF T
  <2> QED BY <2>1, <2>2, Induction
<1>4. \A n \in Nat : n \in U
  <2>1. 0 \in U
    <3>1. Len(c) + d \in 0..Len(b) /\ Len(c) + d + 0 = Len(c) + d
      BY <1>2
    <3>2. s[Len(c) + d] \in Nat
      BY <1>1, <3>1
    <3> QED BY <3>1, <3>2
  <2>2. ASSUME NEW n \in Nat, n \in U PROVE n + 1 \in U
    <3> SUFFICES ASSUME Len(c) + d + n + 1 <= Len(b)
                 PROVE  s[Len(c) + d] <= s[Len(c) + d + n + 1]
      BY <1>2
    <3>1. s[Len(c) + d + n + 1] = s[Len(c) + d + n] + Tokens[b[Len(c) + d + n + 1]]
      BY <1>1, <1>2
    <3>2. s[Len(c) + d] <= s[Len(c) + d + n]
      BY <2>2, <1>2
    <3>3. /\ s[Len(c) + d] \in Nat /\ s[Len(c) + d + n] \in Nat
          /\ Tokens[b[Len(c) + d + n + 1]] \in Nat
      BY <1>1, <1>2
    <3> QED BY <3>1, <3>2, <3>3
  <2> HIDE DEF U
  <2> QED BY <2>1, <2>2, Induction
<1>5. t[Len(c)] <= s[Len(c) + d]
  BY <1>3, <1>2
<1>6. s[Len(c) + d] <= s[Len(b)]
  <2> DEFINE e == Len(b) - (Len(c) + d)
  <2>1. e \in Nat /\ Len(c) + d + e = Len(b)
    BY <1>2
  <2> HIDE DEF e
  <2>2. e \in U
    BY <1>4, <2>1
  <2>3. Len(c) + d + e <= Len(b) => s[Len(c) + d] <= s[Len(c) + d + e]
    BY <2>2
  <2>4. s[Len(c) + d + e] = s[Len(b)]
    BY <2>1
  <2>5. Len(c) + d + e <= Len(b)
    BY <2>1, <1>2
  <2> QED BY <2>3, <2>4, <2>5
<1>7. t[Len(c)] \in Nat /\ s[Len(c) + d] \in Nat /\ s[Len(b)] \in Nat
  <2>1. Len(c) + d \in 0..Len(b) /\ Len(b) \in 0..Len(b) /\ Len(c) \in 0..Len(c)
    BY <1>2
  <2> QED BY <1>1, <2>1
<1> QED BY <1>1, <1>5, <1>6, <1>7

LEMMA TokensNat ==
  ASSUME NEW b \in Seq(Requests)
  PROVE  TokensOf(b) \in Nat
<1>1. Len(b) \in 0..Len(b)
  BY LenProperties
<1> QED BY <1>1, SumsExist

LEMMA EmptyIsLight == TokensOf(<<>>) = 0
<1>1. <<>> \in Seq(Requests) /\ Len(<<>>) = 0
  BY EmptySeq
<1> QED BY <1>1, SumsExist

-----------------------------------------------------------------------------
(* The batches in their places.                                            *)

NonEmpty == Seq(Requests) \ {<<>>}

BatchesTyped ==
  /\ fresh \subseteq Requests /\ old \subseteq Models
  /\ pending \in [Models -> Seq(Requests)]
  /\ taken \in Seq(NonEmpty) /\ running \in Seq(NonEmpty)
  /\ results \in [Requests -> Nat]

\* The i-th place of a kind, and the batch that is there.
IsPlace(k, i) == \/ k = "pending" /\ i \in Models
                 \/ k = "taken" /\ i \in 1..Len(taken)
                 \/ k = "running" /\ i \in 1..Len(running)

At(k, i) == IF k = "pending" THEN pending[i] ELSE IF k = "taken" THEN taken[i] ELSE running[i]

Held(k, i, j) == IsPlace(k, i) /\ j \in 1..Len(At(k, i))

\* No request is twice in the batches.
NoneTwice ==
  \A k1, i1, j1, k2, i2, j2 :
    Held(k1, i1, j1) /\ Held(k2, i2, j2) /\ At(k1, i1)[j1] = At(k2, i2)[j2]
      => k1 = k2 /\ i1 = i2 /\ j1 = j2

\* Who is in a batch was submitted, and is not answered.
HeldWaits ==
  \A k, i, j : Held(k, i, j) => At(k, i)[j] \notin fresh /\ results[At(k, i)[j]] = 0

\* Who was submitted, and is not answered, is in a batch.
NoneLost ==
  \A r \in Requests :
    /\ r \in fresh => results[r] = 0
    /\ results[r] \in {0, 1}
    /\ r \notin fresh /\ results[r] = 0 => \E k, i, j : Held(k, i, j) /\ At(k, i)[j] = r

\* A batch is of one model: what is pending, of the model it is pending for.
PendingOfModel == \A m \in Models : \A j \in 1..Len(pending[m]) : ModelOf[pending[m][j]] = m

SameModel ==
  \A k, i : IsPlace(k, i) =>
    \A j, l \in 1..Len(At(k, i)) : ModelOf[At(k, i)[j]] = ModelOf[At(k, i)[l]]

WaitingBelow == \A k, i : IsPlace(k, i) /\ k # "running" => Below(At(k, i))
RunningBelow == \A i \in 1..Len(running) : Below(Front(running[i]))

BatcherInv ==
  BatchesTyped /\ NoneTwice /\ HeldWaits /\ NoneLost /\ PendingOfModel /\ SameModel
    /\ WaitingBelow /\ RunningBelow

LEMMA PlacesTyped ==
  ASSUME BatchesTyped
  PROVE  /\ \A k, i : IsPlace(k, i) => At(k, i) \in Seq(Requests) /\ Len(At(k, i)) \in Nat
         /\ \A k, i, j : Held(k, i, j) => At(k, i)[j] \in Requests
         /\ \A k, i : IsPlace(k, i) /\ k # "pending" => At(k, i) # <<>>
<1>1. \A i \in 1..Len(taken) : taken[i] \in NonEmpty
  BY ElementOfSeq DEF BatchesTyped
<1>2. \A i \in 1..Len(running) : running[i] \in NonEmpty
  BY ElementOfSeq DEF BatchesTyped
<1>3. ASSUME NEW k, NEW i, IsPlace(k, i)
      PROVE  At(k, i) \in Seq(Requests) /\ (k # "pending" => At(k, i) # <<>>)
  BY <1>1, <1>2, <1>3 DEF BatchesTyped, IsPlace, At, NonEmpty
<1>4. ASSUME NEW k, NEW i, IsPlace(k, i) PROVE Len(At(k, i)) \in Nat
  BY <1>3, <1>4, LenProperties
<1>5. ASSUME NEW k, NEW i, NEW j, Held(k, i, j) PROVE At(k, i)[j] \in Requests
  BY <1>3, <1>5, ElementOfSeq DEF Held
<1> QED BY <1>3, <1>4, <1>5

LEMMA RunningPlaces ==
  ASSUME NEW i
  PROVE  /\ IsPlace("running", i) <=> i \in 1..Len(running)
         /\ IsPlace("running", i)' <=> i \in 1..Len(running')
         /\ At("running", i) = running[i] /\ At("running", i)' = running'[i]
  BY DEF IsPlace, At

\* A step that only moves whole batches from place to place.
MovesBatches ==
  /\ \A k, i : IsPlace(k, i)' /\ At(k, i)' # <<>>
               => \E l, n : IsPlace(l, n) /\ At(l, n) = At(k, i)'
  /\ \A l, n : IsPlace(l, n) /\ At(l, n) # <<>>
               => \E k, i : IsPlace(k, i)' /\ At(k, i)' = At(l, n)
  /\ \A k1, i1, k2, i2 :
       IsPlace(k1, i1)' /\ IsPlace(k2, i2)' /\ At(k1, i1)' # <<>> /\ At(k1, i1)' = At(k2, i2)'
         => k1 = k2 /\ i1 = i2

LEMMA MovesKeep ==
  ASSUME BatcherInv, BatchesTyped', MovesBatches, UNCHANGED <<fresh, results>>
  PROVE  NoneTwice' /\ HeldWaits' /\ NoneLost' /\ SameModel'
<1>1. \A k, i, j : Held(k, i, j)' => At(k, i)' # <<>>
  <2>1. Len(<<>>) = 0 BY EmptySeq
  <2> QED BY <2>1 DEF Held
<1>2. \A k, i, j : Held(k, i, j) => At(k, i) # <<>>
  <2>1. Len(<<>>) = 0 BY EmptySeq
  <2> QED BY <2>1 DEF Held
<1>3. ASSUME NEW k, NEW i, NEW j, Held(k, i, j)'
      PROVE  \E l, n : Held(l, n, j) /\ At(l, n) = At(k, i)'
  <2>1. PICK l, n : IsPlace(l, n) /\ At(l, n) = At(k, i)'
    BY <1>1, <1>3 DEF MovesBatches, Held
  <2> QED BY <1>3, <2>1 DEF Held
<1>4. NoneTwice'
  <2> SUFFICES ASSUME NEW k1, NEW i1, NEW j1, NEW k2, NEW i2, NEW j2,
                      Held(k1, i1, j1)', Held(k2, i2, j2)', At(k1, i1)'[j1] = At(k2, i2)'[j2]
               PROVE  k1 = k2 /\ i1 = i2 /\ j1 = j2
    BY DEF NoneTwice
  <2>1. PICK l1, n1 : Held(l1, n1, j1) /\ At(l1, n1) = At(k1, i1)'
    BY <1>3
  <2>2. PICK l2, n2 : Held(l2, n2, j2) /\ At(l2, n2) = At(k2, i2)'
    BY <1>3
  <2>3. l1 = l2 /\ n1 = n2 /\ j1 = j2
    BY <2>1, <2>2 DEF BatcherInv, NoneTwice
  <2>4. At(k1, i1)' = At(k2, i2)'
    BY <2>1, <2>2, <2>3
  <2> QED BY <1>1, <2>3, <2>4 DEF MovesBatches, Held
<1>5. HeldWaits'
  <2> SUFFICES ASSUME NEW k, NEW i, NEW j, Held(k, i, j)'
               PROVE  At(k, i)'[j] \notin fresh' /\ results'[At(k, i)'[j]] = 0
    BY DEF HeldWaits
  <2>1. PICK l, n : Held(l, n, j) /\ At(l, n) = At(k, i)'
    BY <1>3
  <2> QED BY <2>1 DEF BatcherInv, HeldWaits
<1>6. NoneLost'
  <2> SUFFICES ASSUME NEW r \in Requests, r \notin fresh, results[r] = 0,
                      NEW l, NEW n, NEW j, Held(l, n, j), At(l, n)[j] = r
               PROVE  \E k, i : Held(k, i, j)' /\ At(k, i)'[j] = r
    BY DEF NoneLost, BatcherInv
  <2>1. PICK k, i : IsPlace(k, i)' /\ At(k, i)' = At(l, n)
    BY <1>2 DEF MovesBatches, Held
  <2> QED BY <2>1 DEF Held
<1>7. SameModel'
  <2> SUFFICES ASSUME NEW k, NEW i, IsPlace(k, i)',
                      NEW j \in 1..Len(At(k, i)'), NEW h \in 1..Len(At(k, i)')
               PROVE  ModelOf[At(k, i)'[j]] = ModelOf[At(k, i)'[h]]
    BY DEF SameModel
  <2>1. Held(k, i, j)'
    BY DEF Held
  <2>2. PICK l, n : IsPlace(l, n) /\ At(l, n) = At(k, i)'
    BY <1>3, <2>1 DEF Held
  <2> QED BY <2>2 DEF BatcherInv, SameModel
<1> QED BY <1>4, <1>5, <1>6, <1>7

-----------------------------------------------------------------------------
(* The steps that move batches: TakeOld, StartTaken and CloseSweeps.       *)

\* PendingOf enumerates the batches that wait, each once.
LEMMA PendingOfHas ==
  ASSUME BatchesTyped, NEW S, S \subseteq Models
  PROVE  /\ PendingOf(S) \in Seq(NonEmpty)
         /\ \A i \in 1..Len(PendingOf(S)) :
              \E m \in S : pending[m] # <<>> /\ PendingOf(S)[i] = pending[m]
         /\ \A m \in S : pending[m] # <<>> =>
              \E i \in 1..Len(PendingOf(S)) : PendingOf(S)[i] = pending[m]
         /\ \A i, j \in 1..Len(PendingOf(S)) : PendingOf(S)[i] = PendingOf(S)[j] => i = j
<1> DEFINE N == {n \in S : pending[n] # <<>>}
           B == {pending[m] : m \in N}
           q == PendingOf(S)
<1>1. IsFiniteSet(N)
  BY BatcherParameters, FS_Subset
<1>2. IsFiniteSet(B)
  <2>1. [n \in N |-> pending[n]] \in Surjection(N, B)
    BY DEF Surjection
  <2> HIDE DEF N, B
  <2> QED BY <1>1, <2>1, FS_Surjection
<1>3. B \subseteq NonEmpty
  BY DEF BatchesTyped, NonEmpty
<1>4. Cardinality(B) \in Nat /\ ExistsBijection(1..Cardinality(B), B)
  <2> HIDE DEF B
  <2> QED BY <1>2, FS_CardinalityType
<1>5. PICK f : f \in [1..Cardinality(B) -> B] /\ IsInjective(f)
  <2> HIDE DEF B
  <2> QED BY <1>4 DEF ExistsBijection, Bijection, Injection
<1>6. q \in [1..Cardinality(B) -> B] /\ IsInjective(q)
  <2>1. q = SetToSeq(B)
    BY DEF PendingOf
  <2> HIDE DEF B, q
  <2> QED BY <1>5, <2>1 DEF SetToSeq
<1> HIDE DEF q
<1>7. q \in Seq(B)
  <2> HIDE DEF B
  <2> QED BY <1>4, <1>6, SeqDef
<1>8. Len(q) = Cardinality(B) /\ DOMAIN q = 1..Len(q)
  <2> HIDE DEF B
  <2> QED BY <1>4, <1>6, <1>7, LenProperties
<1>9. q \in Seq(NonEmpty)
  <2> HIDE DEF B
  <2> QED BY <1>3, <1>7, SeqMonotonic
<1>10. \A i \in 1..Len(q) : q[i] \in B
  <2> HIDE DEF B
  <2> QED BY <1>6, <1>8
<1>11. \A c \in B : \E i \in 1..Len(q) : q[i] = c
  <2> HIDE DEF B
  <2>1. q \in Injection(1..Cardinality(B), B)
    BY <1>6 DEF Injection
  <2>2. q \in Surjection(1..Cardinality(B), B)
    <3>1. IsFiniteSet(1..Cardinality(B)) /\ Cardinality(1..Cardinality(B)) = Cardinality(B)
      BY <1>4, FS_Interval
    <3> QED BY <2>1, <3>1, <1>2, FS_Injection
  <2> QED BY <2>2, <1>8 DEF Surjection
<1>12. \A i, j \in 1..Len(q) : q[i] = q[j] => i = j
  BY <1>6, <1>8 DEF IsInjective
<1> QED BY <1>9, <1>10, <1>11, <1>12 DEF q

\* Two places hold different batches.
LEMMA PlacesDiffer ==
  ASSUME BatcherInv, NEW k1, NEW i1, NEW k2, NEW i2, IsPlace(k1, i1), IsPlace(k2, i2),
         At(k1, i1) # <<>>, At(k1, i1) = At(k2, i2)
  PROVE  k1 = k2 /\ i1 = i2
<1>1. At(k1, i1) \in Seq(Requests)
  BY PlacesTyped DEF BatcherInv
<1>2. Held(k1, i1, 1) /\ Held(k2, i2, 1)
  BY <1>1, EmptySeq DEF Held
<1> QED BY <1>2 DEF BatcherInv, NoneTwice

LEMMA EmptyBelow == Below(<<>>)
  BY EmptySeq, EmptyIsLight, BatcherParameters DEF Below

LEMMA TakeOldStep ==
  ASSUME BatcherInv, TakeOld
  PROVE  BatcherInv'
<1> DEFINE q == PendingOf(old)
<1>1. /\ q \in Seq(NonEmpty)
      /\ \A i \in 1..Len(q) : \E m \in old : pending[m] # <<>> /\ q[i] = pending[m]
      /\ \A m \in old : pending[m] # <<>> => \E i \in 1..Len(q) : q[i] = pending[m]
      /\ \A i, j \in 1..Len(q) : q[i] = q[j] => i = j
  BY PendingOfHas DEF BatcherInv, BatchesTyped
<1> HIDE DEF q
<1>2. /\ taken = <<>> /\ taken' = q /\ running' = running /\ fresh' = fresh
      /\ results' = results /\ old' = {} /\ old \subseteq Models
      /\ \A m \in Models : pending'[m] = IF m \in old THEN <<>> ELSE pending[m]
  BY DEF TakeOld, q, BatcherInv, BatchesTyped
<1>3. BatchesTyped'
  <2>1. pending' \in [Models -> Seq(Requests)]
    <3>1. <<>> \in Seq(Requests) BY EmptySeq
    <3> QED BY <3>1 DEF TakeOld, BatcherInv, BatchesTyped
  <2> QED BY <1>1, <1>2, <2>1 DEF BatcherInv, BatchesTyped
<1>4. Len(<<>>) = 0
  BY EmptySeq
<1>5. MovesBatches
  <2>1. ASSUME NEW k, NEW i, IsPlace(k, i)', At(k, i)' # <<>>
        PROVE  \E l, n : IsPlace(l, n) /\ At(l, n) = At(k, i)'
    <3>1. CASE k = "taken"
      <4>1. i \in 1..Len(q) /\ At(k, i)' = q[i]
        BY <2>1, <3>1, <1>2 DEF IsPlace, At
      <4>2. PICK m \in old : q[i] = pending[m]
        BY <1>1, <4>1
      <4>3. IsPlace("pending", m) /\ At("pending", m) = pending[m]
        BY <1>2 DEF IsPlace, At
      <4> QED BY <4>1, <4>2, <4>3
    <3>2. CASE k # "taken"
      <4>1. IsPlace(k, i) /\ At(k, i) = At(k, i)'
        BY <2>1, <3>2, <1>2 DEF IsPlace, At
      <4> QED BY <4>1
    <3> QED BY <3>1, <3>2
  <2>2. ASSUME NEW l, NEW n, IsPlace(l, n), At(l, n) # <<>>
        PROVE  \E k, i : IsPlace(k, i)' /\ At(k, i)' = At(l, n)
    <3>1. CASE l = "pending" /\ n \in old
      <4>1. n \in Models /\ At(l, n) = pending[n]
        BY <2>2, <3>1 DEF IsPlace, At
      <4>2. PICK i \in 1..Len(q) : q[i] = pending[n]
        BY <1>1, <2>2, <3>1, <4>1
      <4>3. IsPlace("taken", i)' /\ At("taken", i)' = q[i]
        BY <1>2 DEF IsPlace, At
      <4> QED BY <4>1, <4>2, <4>3
    <3>2. CASE ~(l = "pending" /\ n \in old)
      <4>1. l # "taken"
        BY <2>2, <1>2, <1>4 DEF IsPlace
      <4>2. IsPlace(l, n)' /\ At(l, n)' = At(l, n)
        BY <2>2, <3>2, <4>1, <1>2 DEF IsPlace, At
      <4> QED BY <4>2
    <3> QED BY <3>1, <3>2
  <2>3. ASSUME NEW k1, NEW i1, NEW k2, NEW i2, IsPlace(k1, i1)', IsPlace(k2, i2)',
               At(k1, i1)' # <<>>, At(k1, i1)' = At(k2, i2)'
        PROVE  k1 = k2 /\ i1 = i2
    <3>1. \A k, i : IsPlace(k, i)' /\ At(k, i)' # <<>> =>
            \/ k = "pending" /\ i \in Models /\ i \notin old /\ At(k, i)' = pending[i]
            \/ k = "taken" /\ i \in 1..Len(q) /\ At(k, i)' = q[i]
                 /\ \E m \in old : m \in Models /\ pending[m] # <<>> /\ q[i] = pending[m]
            \/ k = "running" /\ i \in 1..Len(running) /\ At(k, i)' = running[i]
      BY <1>1, <1>2 DEF IsPlace, At
    <3>2. \A m \in Models : IsPlace("pending", m) /\ At("pending", m) = pending[m]
      BY DEF IsPlace, At
    <3>3. \A i \in 1..Len(running) : IsPlace("running", i) /\ At("running", i) = running[i]
      BY DEF IsPlace, At
    <3> HIDE DEF q
    <3> QED BY <2>3, <3>1, <3>2, <3>3, <1>1, PlacesDiffer
  <2> QED BY <2>1, <2>2, <2>3 DEF MovesBatches
<1>6. NoneTwice' /\ HeldWaits' /\ NoneLost' /\ SameModel'
  BY <1>2, <1>3, <1>5, MovesKeep
<1>7. PendingOfModel'
  BY <1>2, <1>4 DEF BatcherInv, PendingOfModel
<1>8. WaitingBelow'
  <2> SUFFICES ASSUME NEW k, NEW i, IsPlace(k, i)', k # "running" PROVE Below(At(k, i)')
    BY DEF WaitingBelow, Below
  <2>1. Below(<<>>)
    BY EmptyBelow
  <2>2. CASE k = "pending"
    BY <2>1, <2>2, <1>2 DEF IsPlace, At, BatcherInv, WaitingBelow
  <2>3. CASE k = "taken"
    <3>1. PICK m \in old : m \in Models /\ q[i] = pending[m]
      BY <1>1, <1>2, <2>3 DEF IsPlace
    <3>2. At(k, i)' = pending[m]
      BY <2>3, <3>1, <1>2 DEF At
    <3> QED BY <3>1, <3>2 DEF IsPlace, At, BatcherInv, WaitingBelow
  <2> QED BY <2>2, <2>3 DEF IsPlace
<1>9. RunningBelow'
  BY <1>2 DEF BatcherInv, RunningBelow, Below
<1> QED BY <1>3, <1>6, <1>7, <1>8, <1>9 DEF BatcherInv

LEMMA FrontProperties ==
  ASSUME NEW b \in NonEmpty
  PROVE  /\ Front(b) \in Seq(Requests) /\ Len(Front(b)) = Len(b) - 1
         /\ \A i \in 1..(Len(b) - 1) : Front(b)[i] = b[i]
<1>1. PICK k \in Nat : k = Len(b) /\ k # 0 /\ \A i \in 1..k : b[i] \in Requests
  BY EmptySeq, ElementOfSeq DEF NonEmpty
<1> PICK n \in Int : n = k - 1
  OBVIOUS
<1>2. n \in Nat /\ 1 \in Int /\ n = Len(b) - 1 /\ \A i \in 1..n : b[i] \in Requests
  BY <1>1
<1>3. Front(b) = SubSeq(b, 1, n)
  BY <1>2 DEF Front
<1>4. /\ SubSeq(b, 1, n) \in Seq(Requests)
      /\ Len(SubSeq(b, 1, n)) = IF 1 <= n THEN n - 1 + 1 ELSE 0
      /\ \A i \in 1..(n - 1 + 1) : SubSeq(b, 1, n)[i] = b[1 + i - 1]
  BY <1>2, SubSeqProperties
<1> QED BY <1>2, <1>3, <1>4

\* What is below the limits is so without its last request.
LEMMA FrontBelow ==
  ASSUME NEW b \in NonEmpty, Below(b)
  PROVE  Below(Front(b))
<1>1. b \in Seq(Requests) /\ Len(b) \in Nat \ {0}
  BY EmptySeq DEF NonEmpty
<1> PICK f : f = Front(b)
  OBVIOUS
<1>2. f \in Seq(Requests) /\ Len(f) = Len(b) - 1 /\ \A i \in 1..Len(f) : f[i] = b[i]
  BY FrontProperties
<1>3. TokensOf(f) <= TokensOf(b) /\ TokensOf(f) \in Nat /\ TokensOf(b) \in Nat
  <2>1. 0 \in Nat /\ Len(f) + 0 <= Len(b) /\ \A i \in 1..Len(f) : f[i] = b[i + 0]
    BY <1>1, <1>2
  <2> QED BY <1>1, <1>2, <2>1, PartIsLighter
<1>4. Len(f) < MaxBatchSize
  BY <1>1, <1>2, BatcherParameters DEF Below
<1>5. TokensOf(f) < MaxTokens
  BY <1>3, BatcherParameters DEF Below
<1> QED BY <1>4, <1>5 DEF Below

\* Goroutines are started for the batches q, which go from their places.
BatchesGo(q) ==
  /\ q \in Seq(NonEmpty) /\ running' = running \o q
  /\ UNCHANGED <<fresh, results>>
  /\ \A i \in 1..Len(q) : \E l, n : l # "running" /\ IsPlace(l, n) /\ At(l, n) = q[i]
  /\ \A i, j \in 1..Len(q) : q[i] = q[j] => i = j
  /\ \A k, i : k # "running" /\ IsPlace(k, i)' /\ At(k, i)' # <<>> =>
       IsPlace(k, i) /\ At(k, i) = At(k, i)' /\ \A j \in 1..Len(q) : q[j] # At(k, i)
  /\ \A l, n : l # "running" /\ IsPlace(l, n) /\ At(l, n) # <<>> =>
       \/ IsPlace(l, n)' /\ At(l, n)' = At(l, n)
       \/ \E i \in 1..Len(q) : q[i] = At(l, n)

LEMMA BatchesStart ==
  ASSUME BatcherInv, BatchesTyped', NEW q, BatchesGo(q)
  PROVE  /\ NoneTwice' /\ HeldWaits' /\ NoneLost' /\ SameModel'
         /\ WaitingBelow' /\ RunningBelow'
<1>1. /\ running \in Seq(NonEmpty) /\ Len(running) \in Nat /\ Len(q) \in Nat
      /\ Len(running') = Len(running) + Len(q)
      /\ \A i \in 1..Len(running') :
           running'[i] = IF i <= Len(running) THEN running[i] ELSE q[i - Len(running)]
  BY ConcatProperties, LenProperties DEF BatcherInv, BatchesTyped, BatchesGo
<1>2. ASSUME NEW i, IsPlace("running", i)'
      PROVE  \/ IsPlace("running", i) /\ At("running", i)' = At("running", i)
             \/ i \notin 1..Len(running) /\ i - Len(running) \in 1..Len(q)
                /\ At("running", i)' = q[i - Len(running)] /\ i \in Nat
  BY <1>1, <1>2 DEF IsPlace, At
<1>3. MovesBatches
  <2>1. ASSUME NEW k, NEW i, IsPlace(k, i)', At(k, i)' # <<>>
        PROVE  \E l, n : IsPlace(l, n) /\ At(l, n) = At(k, i)'
    BY SMTT(30), <1>2, <2>1 DEF BatchesGo
  <2>2. ASSUME NEW l, NEW n, IsPlace(l, n), At(l, n) # <<>>
        PROVE  \E k, i : IsPlace(k, i)' /\ At(k, i)' = At(l, n)
    <3>1. ASSUME NEW i \in 1..Len(running)
          PROVE  IsPlace("running", i)' /\ At("running", i)' = At("running", i)
      BY <1>1 DEF IsPlace, At
    <3>2. ASSUME NEW i \in 1..Len(q)
          PROVE  \E x : IsPlace("running", x)' /\ At("running", x)' = q[i]
      <4>1. PICK x : x = Len(running) + i
        OBVIOUS
      <4>2. x \in 1..Len(running') /\ running'[x] = q[i]
        BY <1>1, <4>1
      <4> QED BY <4>2, RunningPlaces
    <3>3. CASE l = "running"
      BY <2>2, <3>1, <3>3 DEF IsPlace
    <3>4. CASE l # "running"
      BY <2>2, <3>2, <3>4 DEF BatchesGo
    <3> QED BY <3>3, <3>4
  <2>3. ASSUME NEW k1, NEW i1, NEW k2, NEW i2, IsPlace(k1, i1)', IsPlace(k2, i2)',
               At(k1, i1)' # <<>>, At(k1, i1)' = At(k2, i2)'
        PROVE  k1 = k2 /\ i1 = i2
    <3>1. \A k, i : IsPlace(k, i)' /\ At(k, i)' # <<>> =>
            \/ IsPlace(k, i) /\ At(k, i)' = At(k, i)
                 /\ (k # "running" => \A j \in 1..Len(q) : q[j] # At(k, i))
            \/ k = "running" /\ i - Len(running) \in 1..Len(q) /\ i \in Nat
                 /\ At(k, i)' = q[i - Len(running)]
                 /\ \E l, n : l # "running" /\ IsPlace(l, n) /\ At(l, n) = q[i - Len(running)]
      BY <1>2 DEF BatchesGo
    <3>2. \A i, j \in 1..Len(q) : q[i] = q[j] => i = j
      BY DEF BatchesGo
    <3> QED BY <2>3, <3>1, <3>2, <1>1, PlacesDiffer
  <2> QED BY <2>1, <2>2, <2>3 DEF MovesBatches
<1>4. NoneTwice' /\ HeldWaits' /\ NoneLost' /\ SameModel'
  BY <1>3, MovesKeep DEF BatchesGo
<1>5. WaitingBelow'
  <2> SUFFICES ASSUME NEW k, NEW i, IsPlace(k, i)', k # "running" PROVE Below(At(k, i)')
    BY DEF WaitingBelow, Below
  <2> QED BY EmptyBelow DEF BatcherInv, WaitingBelow, BatchesGo
<1>6. RunningBelow'
  <2> SUFFICES ASSUME NEW i \in 1..Len(running') PROVE Below(Front(running'[i]))
    BY DEF RunningBelow, Below
  <2>1. CASE i \in 1..Len(running)
    BY <1>1, <2>1 DEF BatcherInv, RunningBelow
  <2>2. CASE i - Len(running) \in 1..Len(q)
    <3> DEFINE b == q[i - Len(running)]
    <3>1. b \in NonEmpty /\ running'[i] = b
      BY <1>1, <2>2, ElementOfSeq DEF BatchesGo
    <3>2. Below(b)
      BY <2>2 DEF BatcherInv, WaitingBelow, BatchesGo
    <3> HIDE DEF b
    <3> QED BY <3>1, <3>2, FrontBelow
  <2> QED BY <2>1, <2>2, <1>1
<1> QED BY <1>4, <1>5, <1>6

LEMMA StartTakenStep ==
  ASSUME BatcherInv, StartTaken
  PROVE  BatcherInv'
<1>1. /\ taken' = <<>> /\ Len(<<>>) = 0 /\ running' = running \o taken
      /\ taken \in Seq(NonEmpty) /\ running \in Seq(NonEmpty)
      /\ UNCHANGED <<fresh, results, pending, old>>
  BY EmptySeq DEF StartTaken, BatcherInv, BatchesTyped
<1>2. BatchesTyped'
  BY <1>1, EmptySeq, ConcatProperties DEF BatcherInv, BatchesTyped
<1>3. /\ NoneTwice' /\ HeldWaits' /\ NoneLost' /\ SameModel'
      /\ WaitingBelow' /\ RunningBelow'
  <2>1. \A i \in 1..Len(taken) : taken[i] # <<>> /\ IsPlace("taken", i) /\ At("taken", i) = taken[i]
    BY <1>1, ElementOfSeq DEF NonEmpty, IsPlace, At
  <2>2. \A i, j \in 1..Len(taken) : taken[i] = taken[j] => i = j
    BY <2>1, PlacesDiffer
  <2>3. ASSUME NEW k, NEW i, k # "running", IsPlace(k, i)', At(k, i)' # <<>>
        PROVE  IsPlace(k, i) /\ At(k, i) = At(k, i)' /\ \A j \in 1..Len(taken) : taken[j] # At(k, i)
    <3>1. k = "pending" /\ IsPlace(k, i) /\ At(k, i) = At(k, i)'
      BY <1>1, <2>3 DEF IsPlace, At
    <3> QED BY <2>1, <2>3, <3>1, PlacesDiffer
  <2>4. ASSUME NEW l, NEW n, l # "running", IsPlace(l, n)
        PROVE  \/ IsPlace(l, n)' /\ At(l, n)' = At(l, n)
               \/ \E i \in 1..Len(taken) : taken[i] = At(l, n)
    BY <1>1, <2>4 DEF IsPlace, At
  <2>5. \A i \in 1..Len(taken) : \E l, n : l # "running" /\ IsPlace(l, n) /\ At(l, n) = taken[i]
    BY <2>1
  <2> PICK q : q = taken
    OBVIOUS
  <2>6. /\ q \in Seq(NonEmpty) /\ running' = running \o q
        /\ UNCHANGED <<fresh, results>>
    BY <1>1
  <2>7. /\ \A i \in 1..Len(q) : \E l, n : l # "running" /\ IsPlace(l, n) /\ At(l, n) = q[i]
        /\ \A i, j \in 1..Len(q) : q[i] = q[j] => i = j
    BY <2>2, <2>5
  <2>8. \A k, i : k # "running" /\ IsPlace(k, i)' /\ At(k, i)' # <<>> =>
          IsPlace(k, i) /\ At(k, i) = At(k, i)' /\ \A j \in 1..Len(q) : q[j] # At(k, i)
    BY <2>3
  <2>9. \A l, n : l # "running" /\ IsPlace(l, n) /\ At(l, n) # <<>> =>
          \/ IsPlace(l, n)' /\ At(l, n)' = At(l, n)
          \/ \E i \in 1..Len(q) : q[i] = At(l, n)
    BY <2>4
  <2>10. BatchesGo(q)
    BY <2>6, <2>7, <2>8, <2>9 DEF BatchesGo
  <2> QED BY <1>2, <2>10, BatchesStart
<1>4. PendingOfModel'
  BY <1>1 DEF BatcherInv, PendingOfModel
<1> QED BY <1>2, <1>3, <1>4 DEF BatcherInv

LEMMA CloseSweepsStep ==
  ASSUME BatcherInv, CloseSweeps
  PROVE  BatcherInv'
<1> PICK q : q = PendingOf(Models)
  OBVIOUS
<1>1. /\ q \in Seq(NonEmpty)
      /\ \A i \in 1..Len(q) : \E m \in Models : pending[m] # <<>> /\ q[i] = pending[m]
      /\ \A m \in Models : pending[m] # <<>> => \E i \in 1..Len(q) : q[i] = pending[m]
      /\ \A i, j \in 1..Len(q) : q[i] = q[j] => i = j
  BY PendingOfHas DEF BatcherInv
<1>2. /\ pending' = [m \in Models |-> <<>>] /\ Len(<<>>) = 0 /\ running' = running \o q
      /\ UNCHANGED <<fresh, results, taken>> /\ old' = {}
  BY EmptySeq DEF CloseSweeps
<1>3. BatchesTyped'
  BY <1>1, <1>2, EmptySeq, ConcatProperties DEF BatcherInv, BatchesTyped
<1>4. /\ NoneTwice' /\ HeldWaits' /\ NoneLost' /\ SameModel'
      /\ WaitingBelow' /\ RunningBelow'
  <2>1. \A m \in Models : IsPlace("pending", m) /\ At("pending", m) = pending[m]
    BY DEF IsPlace, At
  <2>2. ASSUME NEW k, NEW i, k # "running", IsPlace(k, i)', At(k, i)' # <<>>
        PROVE  IsPlace(k, i) /\ At(k, i) = At(k, i)' /\ \A j \in 1..Len(q) : q[j] # At(k, i)
    <3>1. k = "taken" /\ IsPlace(k, i) /\ At(k, i) = At(k, i)'
      BY <1>2, <2>2 DEF IsPlace, At
    <3> QED BY <1>1, <2>1, <2>2, <3>1, PlacesDiffer
  <2>3. ASSUME NEW l, NEW n, l # "running", IsPlace(l, n), At(l, n) # <<>>
        PROVE  \/ IsPlace(l, n)' /\ At(l, n)' = At(l, n)
               \/ \E i \in 1..Len(q) : q[i] = At(l, n)
    BY <1>1, <1>2, <2>3 DEF IsPlace, At
  <2>4. \A i \in 1..Len(q) : \E l, n : l # "running" /\ IsPlace(l, n) /\ At(l, n) = q[i]
    BY <1>1, <2>1
  <2>5. BatchesGo(q)
    BY SMTT(30), <1>1, <1>2, <2>2, <2>3, <2>4 DEF BatchesGo
  <2> QED BY <1>3, <2>5, BatchesStart
<1>5. PendingOfModel'
  BY <1>2 DEF PendingOfModel
<1> QED BY <1>3, <1>4, <1>5 DEF BatcherInv

-----------------------------------------------------------------------------
(* The steps that change a batch: Submit and Answer.                       *)

\* The request r comes to the end of the batch c, which goes to the i0-th place of
\* kind k0; the other batches stay where they are.
Arrives(r, c, k0, i0) ==
  /\ r \in fresh /\ fresh' = fresh \ {r} /\ results' = results
  /\ IsPlace(k0, i0)' /\ At(k0, i0)' = Append(c, r)
  /\ c = <<>> \/ \E l, n : IsPlace(l, n) /\ At(l, n) = c
  /\ \A j \in 1..Len(c) : ModelOf[c[j]] = ModelOf[r]
  /\ \A k, i : IsPlace(k, i)' /\ At(k, i)' # <<>> /\ ~(k = k0 /\ i = i0) =>
       IsPlace(k, i) /\ At(k, i) = At(k, i)' /\ At(k, i) # c
  /\ \A l, n : IsPlace(l, n) /\ At(l, n) # <<>> /\ At(l, n) # c =>
       IsPlace(l, n)' /\ At(l, n)' = At(l, n)

LEMMA RequestArrives ==
  ASSUME BatcherInv, BatchesTyped', NEW r, NEW c \in Seq(Requests), NEW k0, NEW i0,
         Arrives(r, c, k0, i0)
  PROVE  NoneTwice' /\ HeldWaits' /\ NoneLost' /\ SameModel'
<1>1. /\ r \in Requests /\ Len(c) \in Nat /\ Len(<<>>) = 0
      /\ Len(Append(c, r)) = Len(c) + 1
      /\ \A j \in 1..Len(c) : Append(c, r)[j] = c[j]
      /\ Append(c, r)[Len(c) + 1] = r
  <2>1. r \in Requests
    BY DEF Arrives, BatcherInv, BatchesTyped
  <2> QED BY <2>1, EmptySeq, AppendProperties, LenProperties
<1>2. ASSUME NEW k, NEW i, NEW j, Held(k, i, j)'
      PROVE  \/ k = k0 /\ i = i0 /\ j = Len(c) + 1 /\ At(k, i)'[j] = r
             \/ k = k0 /\ i = i0 /\ j \in 1..Len(c)
                  /\ \E l, n : Held(l, n, j) /\ At(l, n) = c /\ At(k, i)'[j] = At(l, n)[j]
             \/ Held(k, i, j) /\ At(k, i) = At(k, i)' /\ At(k, i) # c /\ ~(k = k0 /\ i = i0)
  <2>1. CASE k = k0 /\ i = i0
    <3>1. j \in 1..(Len(c) + 1) /\ At(k, i)' = Append(c, r)
      BY <1>1, <1>2, <2>1 DEF Held, Arrives
    <3>2. CASE j = Len(c) + 1
      BY <1>1, <2>1, <3>1, <3>2
    <3>3. CASE j \in 1..Len(c)
      BY <1>1, <2>1, <3>1, <3>3, EmptySeq DEF Held, Arrives
    <3> QED BY <1>1, <3>1, <3>2, <3>3
  <2>2. CASE ~(k = k0 /\ i = i0)
    <3>1. At(k, i)' # <<>>
      BY <1>1, <1>2 DEF Held
    <3> QED BY <1>2, <2>2, <3>1 DEF Held, Arrives
  <2> QED BY <2>1, <2>2
<1>3. ASSUME NEW l, NEW n, NEW j, Held(l, n, j)
      PROVE  \E k, i : Held(k, i, j)' /\ At(k, i)'[j] = At(l, n)[j]
  <2>1. At(l, n) # <<>>
    BY <1>1, <1>3 DEF Held
  <2>2. CASE At(l, n) = c
    <3>1. j \in 1..Len(c) /\ j \in 1..(Len(c) + 1)
      BY <1>1, <1>3, <2>2 DEF Held
    <3> QED BY <1>1, <2>2, <3>1 DEF Held, Arrives
  <2>3. CASE At(l, n) # c
    BY <1>3, <2>1, <2>3 DEF Held, Arrives
  <2> QED BY <2>2, <2>3
<1>4. \A l, n, j : Held(l, n, j) => At(l, n)[j] # r
  BY DEF BatcherInv, HeldWaits, Arrives
<1>5. NoneTwice'
  <2> SUFFICES ASSUME NEW k1, NEW i1, NEW j1, NEW k2, NEW i2, NEW j2,
                      Held(k1, i1, j1)', Held(k2, i2, j2)', At(k1, i1)'[j1] = At(k2, i2)'[j2]
               PROVE  k1 = k2 /\ i1 = i2 /\ j1 = j2
    BY DEF NoneTwice
  <2>1. \A l1, n1, h1, l2, n2, h2 :
          Held(l1, n1, h1) /\ Held(l2, n2, h2) /\ At(l1, n1)[h1] = At(l2, n2)[h2]
            => l1 = l2 /\ n1 = n2 /\ h1 = h2
    BY DEF BatcherInv, NoneTwice
  <2>2. CASE k1 = k0 /\ i1 = i0
    BY <1>2, <1>4, <2>1, <2>2
  <2>3. CASE ~(k1 = k0 /\ i1 = i0)
    BY <1>2, <1>4, <2>1, <2>3
  <2> QED BY <2>2, <2>3
<1>6. HeldWaits'
  <2> SUFFICES ASSUME NEW k, NEW i, NEW j, Held(k, i, j)'
               PROVE  At(k, i)'[j] \notin fresh' /\ results'[At(k, i)'[j]] = 0
    BY DEF HeldWaits
  <2>1. \A l, n, h : Held(l, n, h) => At(l, n)[h] \notin fresh /\ results[At(l, n)[h]] = 0
    BY DEF BatcherInv, HeldWaits
  <2>2. results[r] = 0
    BY <1>1 DEF BatcherInv, NoneLost, Arrives
  <2>3. CASE At(k, i)'[j] = r
    BY <2>2, <2>3 DEF Arrives
  <2>4. CASE At(k, i)'[j] # r
    <3>1. \E l, n, h : Held(l, n, h) /\ At(k, i)'[j] = At(l, n)[h]
      BY <1>2, <2>4
    <3> QED BY <2>1, <3>1 DEF Arrives
  <2> QED BY <2>3, <2>4
<1>7. NoneLost'
  <2> SUFFICES ASSUME NEW q \in Requests
               PROVE  /\ q \in fresh' => results[q] = 0
                      /\ results[q] \in {0, 1}
                      /\ q \notin fresh' /\ results[q] = 0 =>
                           \E k, i, j : Held(k, i, j)' /\ At(k, i)'[j] = q
    BY DEF NoneLost, Arrives
  <2>1. /\ q \in fresh => results[q] = 0
        /\ results[q] \in {0, 1}
        /\ q \notin fresh /\ results[q] = 0 => \E k, i, j : Held(k, i, j) /\ At(k, i)[j] = q
    BY DEF BatcherInv, NoneLost
  <2>2. \E k, i, j : Held(k, i, j)' /\ At(k, i)'[j] = r
    <3>1. Held(k0, i0, Len(c) + 1)'
      BY <1>1 DEF Held, Arrives
    <3> QED BY <1>1, <3>1 DEF Arrives
  <2> QED BY <1>3, <2>1, <2>2 DEF Arrives
<1>8. SameModel'
  <2> SUFFICES ASSUME NEW k, NEW i, IsPlace(k, i)',
                      NEW j \in 1..Len(At(k, i)'), NEW h \in 1..Len(At(k, i)')
               PROVE  ModelOf[At(k, i)'[j]] = ModelOf[At(k, i)'[h]]
    BY DEF SameModel
  <2>1. CASE k = k0 /\ i = i0
    <3>1. \A e \in 1..(Len(c) + 1) : ModelOf[Append(c, r)[e]] = ModelOf[r]
      BY <1>1 DEF Arrives
    <3> QED BY <1>1, <2>1, <3>1 DEF Arrives
  <2>2. CASE ~(k = k0 /\ i = i0)
    <3>1. At(k, i)' # <<>>
      BY <1>1
    <3>2. IsPlace(k, i) /\ At(k, i) = At(k, i)'
      BY <2>2, <3>1 DEF Arrives
    <3> QED BY <3>2 DEF BatcherInv, SameModel
  <2> QED BY <2>1, <2>2
<1> QED BY <1>5, <1>6, <1>7, <1>8

\* A request comes last in a batch whose goroutine starts.
LEMMA StartsFull ==
  ASSUME BatcherInv, BatchesTyped', NEW c \in Seq(Requests), NEW r \in Requests,
         running' = Append(running, Append(c, r))
  PROVE  /\ \E n \in Nat : n = Len(running) + 1 /\ IsPlace("running", n)'
              /\ At("running", n)' = Append(c, r)
         /\ \A i : IsPlace("running", i)' /\ i # Len(running) + 1 =>
              IsPlace("running", i) /\ At("running", i)' = At("running", i)
         /\ \A i : IsPlace("running", i) =>
              IsPlace("running", i)' /\ At("running", i)' = At("running", i)
         /\ Below(c) => RunningBelow'
<1>1. Append(c, r) \in NonEmpty
  BY AppendProperties DEF NonEmpty
<1>2. /\ Len(running) \in Nat /\ Len(running') = Len(running) + 1
      /\ \A i \in 1..Len(running) : running'[i] = running[i]
      /\ running'[Len(running) + 1] = Append(c, r)
  BY <1>1, AppendProperties, LenProperties DEF BatcherInv, BatchesTyped
<1>3. \E n \in Nat : n = Len(running) + 1 /\ IsPlace("running", n)'
                     /\ At("running", n)' = Append(c, r)
  <2>1. PICK n \in Nat : n = Len(running) + 1
    BY <1>2
  <2> QED BY SMTT(30), <1>2, <2>1, RunningPlaces
<1>4. \A i : IsPlace("running", i)' /\ i # Len(running) + 1 =>
        IsPlace("running", i) /\ At("running", i)' = At("running", i)
  BY <1>2, RunningPlaces
<1>5. \A i : IsPlace("running", i) =>
        IsPlace("running", i)' /\ At("running", i)' = At("running", i)
  BY <1>2, RunningPlaces
<1>6. ASSUME Below(c) PROVE RunningBelow'
  <2>1. Front(Append(c, r)) = c
    <3>1. Len(Append(c, r)) = Len(c) + 1 /\ Len(c) \in Nat /\ \A i \in 1..Len(c) : Append(c, r)[i] = c[i]
      BY AppendProperties, LenProperties
    <3>2. /\ SubSeq(Append(c, r), 1, Len(c)) \in Seq(Requests)
          /\ Len(SubSeq(Append(c, r), 1, Len(c))) = IF 1 <= Len(c) THEN Len(c) - 1 + 1 ELSE 0
          /\ \A i \in 1..(Len(c) - 1 + 1) : SubSeq(Append(c, r), 1, Len(c))[i] = Append(c, r)[1 + i - 1]
      <4>1. \A i \in 1..Len(c) : Append(c, r)[i] \in Requests
        BY <3>1, ElementOfSeq
      <4> QED BY <3>1, <4>1, SubSeqProperties
    <3>3. SubSeq(Append(c, r), 1, Len(c)) = c
      BY <3>1, <3>2, SeqEqual
    <3> QED BY <3>1, <3>3 DEF Front
  <2> SUFFICES ASSUME NEW i \in 1..Len(running') PROVE Below(Front(running'[i]))
    BY DEF RunningBelow, Below
  <2>2. CASE i \in 1..Len(running)
    BY <1>2, <2>2 DEF BatcherInv, RunningBelow
  <2>3. CASE i = Len(running) + 1
    BY <1>2, <1>6, <2>1, <2>3
  <2> QED BY <1>2, <2>2, <2>3
<1> QED BY <1>3, <1>4, <1>5, <1>6

LEMMA SubmitDisabledStep ==
  ASSUME BatcherInv, NEW r \in Requests, SubmitDisabled(r)
  PROVE  BatcherInv'
<1> PICK c : c = <<>>
  OBVIOUS
<1>1. c \in Seq(Requests) /\ Len(c) = 0 /\ Below(c)
  BY EmptySeq, EmptyBelow
<1>2. <<r>> = Append(c, r)
  OBVIOUS
<1>3. /\ r \in fresh /\ fresh' = fresh \ {r} /\ UNCHANGED <<pending, old, taken, results>>
      /\ running' = Append(running, Append(c, r))
  BY <1>2 DEF SubmitDisabled
<1>4. BatchesTyped'
  <2>1. Append(c, r) \in NonEmpty
    BY <1>1, AppendProperties DEF NonEmpty
  <2> QED BY <1>3, <2>1, AppendProperties DEF BatcherInv, BatchesTyped
<1>5. PICK n \in Nat : /\ n = Len(running) + 1 /\ IsPlace("running", n)'
                       /\ At("running", n)' = Append(c, r)
  BY <1>1, <1>3, <1>4, StartsFull
<1>6. ASSUME NEW k, NEW i, k # "running"
      PROVE  (IsPlace(k, i)' <=> IsPlace(k, i)) /\ (IsPlace(k, i) => At(k, i)' = At(k, i))
  <2>1. IsPlace(k, i)' <=> IsPlace(k, i)
    BY <1>3, <1>6 DEF IsPlace
  <2>2. IsPlace(k, i) => At(k, i)' = At(k, i)
    BY <1>3, <1>6 DEF IsPlace, At
  <2> QED BY <2>1, <2>2
<1>7. Arrives(r, c, "running", n)
  <2>1. \A k, i : IsPlace(k, i)' /\ ~(k = "running" /\ i = n) => IsPlace(k, i) /\ At(k, i) = At(k, i)'
    BY <1>1, <1>3, <1>4, <1>5, <1>6, StartsFull
  <2>2. \A l, m : IsPlace(l, m) => IsPlace(l, m)' /\ At(l, m)' = At(l, m)
    BY <1>1, <1>3, <1>4, <1>6, StartsFull
  <2> QED BY <1>1, <1>3, <1>5, <2>1, <2>2 DEF Arrives
<1>8. NoneTwice' /\ HeldWaits' /\ NoneLost' /\ SameModel'
  BY <1>1, <1>4, <1>7, RequestArrives
<1>9. RunningBelow'
  BY <1>1, <1>3, <1>4, StartsFull
<1>10. PendingOfModel' /\ WaitingBelow'
  <2>1. PendingOfModel'
    BY <1>3 DEF BatcherInv, PendingOfModel
  <2>2. WaitingBelow'
    BY <1>6 DEF BatcherInv, WaitingBelow, Below
  <2> QED BY <2>1, <2>2
<1> QED BY <1>4, <1>8, <1>9, <1>10 DEF BatcherInv

LEMMA SubmitStep ==
  ASSUME BatcherInv, NEW r \in Requests, Submit(r)
  PROVE  BatcherInv'
<1> PICK m : m = ModelOf[r]
  OBVIOUS
<1> PICK c : c = pending[m]
  OBVIOUS
<1> PICK b : b = Append(c, r)
  OBVIOUS
<1>1. /\ m \in Models /\ c \in Seq(Requests) /\ IsPlace("pending", m) /\ At("pending", m) = c
      /\ \A j \in 1..Len(c) : ModelOf[c[j]] = ModelOf[r]
      /\ b \in NonEmpty /\ b \in Seq(Requests) /\ Len(b) \in Nat
  <2>1. m \in Models /\ c \in Seq(Requests)
    BY BatcherParameters DEF BatcherInv, BatchesTyped
  <2>2. b \in NonEmpty /\ b \in Seq(Requests) /\ Len(b) \in Nat
    BY <2>1, AppendProperties, LenProperties DEF NonEmpty
  <2> QED BY <2>1, <2>2 DEF BatcherInv, PendingOfModel, IsPlace, At
<1>2. Below(c)
  BY <1>1 DEF BatcherInv, WaitingBelow
<1>3. /\ r \in fresh /\ fresh' = fresh \ {r} /\ UNCHANGED <<taken, results>>
      /\ fresh \subseteq Requests
  BY DEF Submit, BatcherInv, BatchesTyped
<1>4. CASE Ready(b, m)
  <2>1. /\ running' = Append(running, b) /\ old' = old \ {m}
        /\ \A o \in Models : pending'[o] = IF o = m THEN <<>> ELSE pending[o]
        /\ pending' \in [Models -> Seq(Requests)]
    BY ZenonT(40), <1>1, <1>4, EmptySeq DEF Submit, BatcherInv, BatchesTyped
  <2>2. BatchesTyped'
    BY <1>1, <1>3, <2>1, AppendProperties DEF BatcherInv, BatchesTyped
  <2>3. PICK n \in Nat : /\ n = Len(running) + 1 /\ IsPlace("running", n)'
                         /\ At("running", n)' = b
    BY <1>1, <2>1, <2>2, StartsFull
  <2>4. ASSUME NEW k, NEW i, k # "running"
        PROVE  /\ IsPlace(k, i)' <=> IsPlace(k, i)
               /\ ~(k = "pending" /\ i = m) /\ IsPlace(k, i) => At(k, i)' = At(k, i)
               /\ k = "pending" /\ i = m => At(k, i)' = <<>>
    <3>1. IsPlace(k, i)' <=> IsPlace(k, i)
      BY <1>3, <2>4 DEF IsPlace
    <3>2. ~(k = "pending" /\ i = m) /\ IsPlace(k, i) => At(k, i)' = At(k, i)
      BY <1>3, <2>1, <2>4 DEF IsPlace, At
    <3>3. k = "pending" /\ i = m => At(k, i)' = <<>>
      BY <1>1, <2>1 DEF At
    <3> QED BY <3>1, <3>2, <3>3
  <2>5. Arrives(r, c, "running", n)
    <3>1. ASSUME NEW k, NEW i, IsPlace(k, i)', At(k, i)' # <<>>, ~(k = "running" /\ i = n)
          PROVE  IsPlace(k, i) /\ At(k, i) = At(k, i)' /\ At(k, i) # c
      <4>1. /\ IsPlace(k, i) /\ At(k, i) = At(k, i)'
            /\ ~(k = "pending" /\ i = m)
        BY <1>1, <2>1, <2>2, <2>3, <2>4, <3>1, StartsFull
      <4> QED BY <1>1, <3>1, <4>1, PlacesDiffer
    <3>2. ASSUME NEW l, NEW i, IsPlace(l, i), At(l, i) # c
          PROVE  IsPlace(l, i)' /\ At(l, i)' = At(l, i)
      BY <1>1, <2>1, <2>2, <2>4, <3>2, StartsFull
    <3>3. c = <<>> \/ \E l, i : IsPlace(l, i) /\ At(l, i) = c
      BY <1>1
    <3> QED BY <1>1, <1>3, <2>3, <3>1, <3>2, <3>3 DEF Arrives
  <2>6. NoneTwice' /\ HeldWaits' /\ NoneLost' /\ SameModel'
    BY <1>1, <2>2, <2>5, RequestArrives
  <2>7. RunningBelow'
    BY <1>1, <1>2, <2>1, <2>2, StartsFull
  <2>8. PendingOfModel'
    <3> SUFFICES ASSUME NEW o \in Models, NEW j \in 1..Len(pending'[o])
                 PROVE  ModelOf[pending'[o][j]] = o
      BY DEF PendingOfModel
    <3>1. o # m
      BY <2>1, EmptySeq
    <3> QED BY <2>1, <3>1 DEF BatcherInv, PendingOfModel
  <2>9. WaitingBelow'
    <3> SUFFICES ASSUME NEW k, NEW i, IsPlace(k, i)', k # "running" PROVE Below(At(k, i)')
      BY DEF WaitingBelow, Below
    <3>1. CASE k = "pending" /\ i = m
      BY <2>4, <3>1, EmptyBelow
    <3>2. CASE ~(k = "pending" /\ i = m)
      BY <2>4, <3>2 DEF BatcherInv, WaitingBelow
    <3> QED BY <3>1, <3>2
  <2> QED BY <2>2, <2>6, <2>7, <2>8, <2>9 DEF BatcherInv
<1>5. CASE ~Ready(b, m)
  <2>1. /\ UNCHANGED <<running, old>>
        /\ \A o \in Models : pending'[o] = IF o = m THEN b ELSE pending[o]
        /\ pending' \in [Models -> Seq(Requests)]
    BY <1>1, <1>5 DEF Submit, BatcherInv, BatchesTyped
  <2>2. BatchesTyped'
    BY <1>1, <1>3, <2>1 DEF BatcherInv, BatchesTyped
  <2>3. ASSUME NEW k, NEW i
        PROVE  /\ IsPlace(k, i)' <=> IsPlace(k, i)
               /\ ~(k = "pending" /\ i = m) /\ IsPlace(k, i) => At(k, i)' = At(k, i)
               /\ k = "pending" /\ i = m => At(k, i)' = b
    <3>1. IsPlace(k, i)' <=> IsPlace(k, i)
      BY <1>3, <2>1 DEF IsPlace
    <3>2. ~(k = "pending" /\ i = m) /\ IsPlace(k, i) => At(k, i)' = At(k, i)
      BY <1>3, <2>1 DEF IsPlace, At
    <3>3. k = "pending" /\ i = m => At(k, i)' = b
      BY <1>1, <2>1 DEF At
    <3> QED BY <3>1, <3>2, <3>3
  <2>4. Arrives(r, c, "pending", m)
    <3>1. ASSUME NEW k, NEW i, IsPlace(k, i)', At(k, i)' # <<>>, ~(k = "pending" /\ i = m)
          PROVE  IsPlace(k, i) /\ At(k, i) = At(k, i)' /\ At(k, i) # c
      <4>1. IsPlace(k, i) /\ At(k, i) = At(k, i)'
        BY <2>3, <3>1
      <4> QED BY <1>1, <3>1, <4>1, PlacesDiffer
    <3>2. ASSUME NEW l, NEW i, IsPlace(l, i), At(l, i) # c
          PROVE  IsPlace(l, i)' /\ At(l, i)' = At(l, i)
      BY <1>1, <2>3, <3>2
    <3>3. c = <<>> \/ \E l, i : IsPlace(l, i) /\ At(l, i) = c
      BY <1>1
    <3>4. IsPlace("pending", m)' /\ At("pending", m)' = Append(c, r)
      BY <1>1, <2>3
    <3> QED BY <1>1, <1>3, <3>1, <3>2, <3>3, <3>4 DEF Arrives
  <2>5. NoneTwice' /\ HeldWaits' /\ NoneLost' /\ SameModel'
    BY <1>1, <2>2, <2>4, RequestArrives
  <2>6. RunningBelow'
    BY <2>1 DEF BatcherInv, RunningBelow, Below
  <2>7. PendingOfModel'
    <3>1. \A j \in 1..Len(b) : ModelOf[b[j]] = m
      <4>1. /\ Len(b) = Len(c) + 1 /\ Len(c) \in Nat /\ b[Len(c) + 1] = r
            /\ \A j \in 1..Len(c) : b[j] = c[j]
        BY <1>1, AppendProperties, LenProperties
      <4> QED BY <1>1, <4>1
    <3> SUFFICES ASSUME NEW o \in Models, NEW j \in 1..Len(pending'[o])
                 PROVE  ModelOf[pending'[o][j]] = o
      BY DEF PendingOfModel
    <3>2. CASE o = m
      BY <2>1, <3>1, <3>2
    <3>3. CASE o # m
      BY <2>1, <3>3 DEF BatcherInv, PendingOfModel
    <3> QED BY <3>2, <3>3
  <2>8. WaitingBelow'
    <3> SUFFICES ASSUME NEW k, NEW i, IsPlace(k, i)', k # "running" PROVE Below(At(k, i)')
      BY DEF WaitingBelow, Below
    <3>1. CASE k = "pending" /\ i = m
      <4>1. At(k, i)' = b
        BY <2>3, <3>1
      <4>2. TokensOf(b) \in Nat
        BY <1>1, TokensNat
      <4>3. Len(b) < MaxBatchSize /\ TokensOf(b) < MaxTokens
        BY <1>1, <1>5, <4>2, BatcherParameters DEF Ready
      <4> QED BY <4>1, <4>3 DEF Below
    <3>2. CASE ~(k = "pending" /\ i = m)
      BY <2>3, <3>2 DEF BatcherInv, WaitingBelow
    <3> QED BY <3>1, <3>2
  <2> QED BY <2>2, <2>5, <2>6, <2>7, <2>8 DEF BatcherInv
<1> QED BY <1>4, <1>5

LEMMA RemoveAtProperties ==
  ASSUME NEW S, NEW s \in Seq(S), NEW i \in 1..Len(s)
  PROVE  /\ RemoveAt(s, i) \in Seq(S) /\ Len(RemoveAt(s, i)) = Len(s) - 1
         /\ \A n \in 1..(Len(s) - 1) : RemoveAt(s, i)[n] = IF n < i THEN s[n] ELSE s[n + 1]
<1>1. PICK l \in Nat : l = Len(s) /\ i \in 1..l /\ \A n \in 1..l : s[n] \in S
  BY LenProperties, ElementOfSeq
<1> PICK h : h = i - 1
  OBVIOUS
<1> PICK k : k = i + 1
  OBVIOUS
<1> PICK f : f = SubSeq(s, 1, h)
  OBVIOUS
<1> PICK t : t = SubSeq(s, k, l)
  OBVIOUS
<1>2. h \in Int /\ k \in Int /\ l \in Int /\ h = i - 1 /\ k = i + 1 /\ h \in 0..l
  BY <1>1
<1>3. f \in Seq(S) /\ Len(f) = h /\ \A n \in 1..h : f[n] = s[n]
  <2>1. \A n \in 1..h : s[n] \in S
    BY <1>1, <1>2
  <2>2. /\ f \in Seq(S) /\ Len(f) = IF 1 <= h THEN h - 1 + 1 ELSE 0
        /\ \A n \in 1..(h - 1 + 1) : f[n] = s[1 + n - 1]
    BY <1>2, <2>1, SubSeqProperties
  <2> QED BY <1>2, <2>2
<1>4. t \in Seq(S) /\ Len(t) = l - i /\ \A n \in 1..(l - i) : t[n] = s[i + n]
  <2>1. \A n \in k..l : s[n] \in S
    BY <1>1, <1>2
  <2>2. /\ t \in Seq(S) /\ Len(t) = IF k <= l THEN l - k + 1 ELSE 0
        /\ \A n \in 1..(l - k + 1) : t[n] = s[k + n - 1]
    BY <1>2, <2>1, SubSeqProperties
  <2>3. l - k + 1 = l - i /\ (k > l => l - i = 0)
    BY <1>1, <1>2
  <2>4. Len(t) = l - i
    BY <2>2, <2>3, <1>2
  <2>5. ASSUME NEW n \in 1..(l - i) PROVE t[n] = s[i + n]
    <3>1. k + n - 1 = i + n
      BY <1>1, <1>2
    <3> QED BY <2>2, <2>3, <3>1
  <2> QED BY <2>2, <2>4, <2>5
<1>5. RemoveAt(s, i) = f \o t
  BY <1>1 DEF RemoveAt
<1> PICK q : q = f \o t
  OBVIOUS
<1>6. /\ q \in Seq(S) /\ Len(q) = Len(f) + Len(t)
      /\ \A n \in 1..(Len(f) + Len(t)) : q[n] = IF n <= Len(f) THEN f[n] ELSE t[n - Len(f)]
  <2>1. /\ f \o t \in Seq(S) /\ Len(f \o t) = Len(f) + Len(t)
        /\ \A n \in 1..(Len(f) + Len(t)) :
             (f \o t)[n] = IF n <= Len(f) THEN f[n] ELSE t[n - Len(f)]
    BY <1>3, <1>4, ConcatProperties
  <2> QED BY <2>1
<1>7. /\ Len(q) = l - 1
      /\ \A n \in 1..(l - 1) : q[n] = IF n <= h THEN f[n] ELSE t[n - h]
  <2>1. h + (l - i) = l - 1
    BY <1>1, <1>2
  <2>2. Len(f) = h /\ Len(f) + Len(t) = l - 1
    BY <1>3, <1>4, <2>1
  <2> QED BY <1>6, <2>2
<1>8. ASSUME NEW n \in 1..(l - 1)
      PROVE  q[n] = IF n < i THEN s[n] ELSE s[n + 1]
  <2>1. CASE n <= h
    <3>1. n \in 1..h /\ n < i
      BY <1>2, <2>1, <1>1
    <3> QED BY <1>3, <1>7, <2>1, <3>1
  <2>2. CASE ~(n <= h)
    <3>1. n - h \in 1..(l - i) /\ i + (n - h) = n + 1 /\ ~(n < i)
      BY <1>1, <1>2, <2>2
    <3>2. t[n - h] = s[i + (n - h)]
      BY <1>4, <3>1
    <3> QED BY <1>7, <2>2, <3>1, <3>2
  <2> QED BY <2>1, <2>2
<1> QED BY ZenonT(40), <1>1, <1>5, <1>6, <1>7, <1>8

\* The first request of the i-th batch goes: o tells which batch is now the n-th,
\* and d how many of its requests are gone.
Answered(i, o, d) ==
  /\ \A n \in 1..Len(running') :
       /\ o[n] \in 1..Len(running) /\ d[n] \in {0, 1} /\ (o[n] = i => d[n] = 1)
       /\ Len(running'[n]) + d[n] = Len(running[o[n]])
       /\ \A j \in 1..Len(running'[n]) : running'[n][j] = running[o[n]][j + d[n]]
  /\ \A n1, n2 \in 1..Len(running') : o[n1] = o[n2] => n1 = n2
  /\ \A e \in 1..Len(running) : \A j \in 1..Len(running[e]) :
       e # i \/ j # 1 => \E n \in 1..Len(running') : o[n] = e /\ j - d[n] >= 1

LEMMA AnswerMoves ==
  ASSUME BatchesTyped, NEW i \in 1..Len(running), Answer(i)
  PROVE  running' \in Seq(NonEmpty) /\ \E o, d : Answered(i, o, d)
<1> PICK b : b = running[i]
  OBVIOUS
<1>1. /\ running \in Seq(NonEmpty) /\ Len(running) \in Nat
      /\ \A n \in 1..Len(running) : running[n] \in NonEmpty /\ Len(running[n]) \in Nat \ {0}
      /\ b \in Seq(Requests) /\ b # <<>> /\ Len(b) \in Nat \ {0}
  BY ElementOfSeq, LenProperties, EmptySeq DEF BatchesTyped, NonEmpty
<1>2. CASE Len(b) = 1
  <2>1. running' = RemoveAt(running, i)
    BY <1>2 DEF Answer
  <2>2. /\ running' \in Seq(NonEmpty) /\ Len(running') = Len(running) - 1
        /\ \A n \in 1..(Len(running) - 1) :
             running'[n] = IF n < i THEN running[n] ELSE running[n + 1]
    BY <1>1, <2>1, RemoveAtProperties
  <2> DEFINE o == [n \in 1..Len(running') |-> IF n < i THEN n ELSE n + 1]
             d == [n \in 1..Len(running') |-> 0]
  <2>3. ASSUME NEW n \in 1..Len(running')
        PROVE  /\ o[n] \in 1..Len(running) /\ d[n] = 0 /\ o[n] # i
               /\ running'[n] = running[o[n]]
    BY SMTT(30), <1>1, <2>2
  <2>4. \A n1, n2 \in 1..Len(running') : o[n1] = o[n2] => n1 = n2
    BY <1>1
  <2>5. ASSUME NEW e \in 1..Len(running), e # i
        PROVE  \E n \in 1..Len(running') : o[n] = e
    <3>1. CASE e < i
      <4>1. e \in 1..Len(running') /\ o[e] = e
        BY <1>1, <2>2, <3>1
      <4> QED BY <4>1
    <3>2. CASE ~(e < i)
      <4>1. e - 1 \in 1..Len(running') /\ o[e - 1] = e
        BY <1>1, <2>2, <2>5, <3>2
      <4> QED BY <4>1
    <3> QED BY <3>1, <3>2
  <2> HIDE DEF o, d
  <2>6. Answered(i, o, d)
    <3>1. \A n \in 1..Len(running') :
            /\ o[n] \in 1..Len(running) /\ d[n] \in {0, 1} /\ (o[n] = i => d[n] = 1)
            /\ Len(running'[n]) + d[n] = Len(running[o[n]])
            /\ \A j \in 1..Len(running'[n]) : running'[n][j] = running[o[n]][j + d[n]]
      BY <1>1, <2>3
    <3>2. \A e \in 1..Len(running) : \A j \in 1..Len(running[e]) :
            e # i \/ j # 1 => \E n \in 1..Len(running') : o[n] = e /\ j - d[n] >= 1
      <4> SUFFICES ASSUME NEW e \in 1..Len(running), NEW j \in 1..Len(running[e]), e # i \/ j # 1
                   PROVE  \E n \in 1..Len(running') : o[n] = e /\ j - d[n] >= 1
        OBVIOUS
      <4>1. j \in Nat /\ j >= 1 /\ j <= Len(running[e]) /\ Len(running[e]) \in Nat
        BY <1>1
      <4>2. e = i => j = 1
        BY <1>2, <4>1
      <4>3. PICK n \in 1..Len(running') : o[n] = e
        BY <4>2, <2>5
      <4>4. d[n] = 0
        BY <2>3
      <4>5. j - d[n] >= 1
        BY <4>1, <4>4
      <4> QED BY <4>3, <4>5
    <3> QED BY <2>4, <3>1, <3>2 DEF Answered
  <2> QED BY <2>2, <2>6
<1>3. CASE Len(b) # 1
  <2>1. running' = [running EXCEPT ![i] = Tail(b)]
    BY <1>1, <1>3 DEF Answer
  <2>2. /\ Tail(b) \in NonEmpty /\ Len(Tail(b)) = Len(b) - 1
        /\ \A j \in 1..Len(Tail(b)) : Tail(b)[j] = b[j + 1]
    <3>1. /\ Tail(b) \in Seq(Requests) /\ Len(Tail(b)) = Len(b) - 1
          /\ \A j \in 1..Len(Tail(b)) : Tail(b)[j] = b[j + 1]
      BY <1>1, HeadTailProperties
    <3>2. ASSUME Tail(b) = <<>> PROVE FALSE
      <4>1. Len(Tail(b)) = 0
        BY <3>2, EmptySeq
      <4> QED BY <1>1, <1>3, <3>1, <4>1
    <3> QED BY <3>1, <3>2 DEF NonEmpty
  <2>3. /\ running' \in Seq(NonEmpty) /\ Len(running') = Len(running)
        /\ \A n \in 1..Len(running) : running'[n] = IF n = i THEN Tail(b) ELSE running[n]
    BY <1>1, <2>1, <2>2, ExceptSeq
  <2> DEFINE o == [n \in 1..Len(running') |-> n]
             d == [n \in 1..Len(running') |-> IF n = i THEN 1 ELSE 0]
  <2>4. Answered(i, o, d)
    <3>1. ASSUME NEW n \in 1..Len(running')
          PROVE  /\ o[n] \in 1..Len(running) /\ d[n] \in {0, 1} /\ (o[n] = i => d[n] = 1)
                 /\ Len(running'[n]) + d[n] = Len(running[o[n]])
                 /\ \A j \in 1..Len(running'[n]) : running'[n][j] = running[o[n]][j + d[n]]
      <4>1. n \in 1..Len(running) /\ o[n] = n /\ d[n] = IF n = i THEN 1 ELSE 0
        BY <2>3
      <4> HIDE DEF o, d
      <4>2. CASE n = i
        <5>1. running'[n] = Tail(b) /\ running[o[n]] = b /\ d[n] = 1 /\ o[n] = i
          BY <2>3, <4>1, <4>2
        <5> QED BY <1>1, <2>2, <4>1, <5>1
      <4>3. CASE n # i
        <5>1. running'[n] = running[n] /\ d[n] = 0 /\ o[n] = n
          BY <2>3, <4>1, <4>3
        <5>2. Len(running[n]) \in Nat
          BY <1>1, <4>1
        <5> QED BY <4>1, <4>3, <5>1, <5>2
      <4> QED BY <4>2, <4>3
    <3>2. ASSUME NEW e \in 1..Len(running), NEW j \in 1..Len(running[e]), e # i \/ j # 1
          PROVE  \E n \in 1..Len(running') : o[n] = e /\ j - d[n] >= 1
      <4>1. e \in 1..Len(running') /\ o[e] = e /\ j - d[e] >= 1
        BY <1>1, <2>3, <3>2
      <4> QED BY <4>1
    <3>3. \A n1, n2 \in 1..Len(running') : o[n1] = o[n2] => n1 = n2
      OBVIOUS
    <3> HIDE DEF o, d
    <3> QED BY <3>1, <3>2, <3>3 DEF Answered
  <2> QED BY <2>3, <2>4
<1> QED BY <1>2, <1>3

\* What a batch has left is below the limits if it was.
LEMMA RestBelow ==
  ASSUME NEW b \in NonEmpty, NEW c \in NonEmpty, NEW d \in {0, 1}, Below(Front(b)),
         Len(c) + d = Len(b), \A j \in 1..Len(c) : c[j] = b[j + d]
  PROVE  Below(Front(c))
<1>1. b \in Seq(Requests) /\ c \in Seq(Requests) /\ Len(b) \in Nat \ {0} /\ Len(c) \in Nat \ {0}
  BY EmptySeq DEF NonEmpty
<1> PICK f : f = Front(b)
  OBVIOUS
<1> PICK g : g = Front(c)
  OBVIOUS
<1>2. f \in Seq(Requests) /\ Len(f) = Len(b) - 1 /\ \A j \in 1..(Len(b) - 1) : f[j] = b[j]
  BY FrontProperties
<1>3. g \in Seq(Requests) /\ Len(g) = Len(c) - 1 /\ \A j \in 1..(Len(c) - 1) : g[j] = c[j]
  BY FrontProperties
<1>4. d \in Nat /\ Len(g) + d <= Len(f)
  BY <1>1, <1>2, <1>3
<1>5. ASSUME NEW j \in 1..Len(g) PROVE g[j] = f[j + d]
  <2>1. j \in 1..(Len(c) - 1) /\ j \in 1..Len(c) /\ j + d \in 1..(Len(b) - 1)
    BY <1>1, <1>3
  <2> QED BY <1>2, <1>3, <2>1
<1>6. TokensOf(g) <= TokensOf(f) /\ TokensOf(g) \in Nat /\ TokensOf(f) \in Nat
  BY <1>2, <1>3, <1>4, <1>5, PartIsLighter
<1>7. Len(f) < MaxBatchSize /\ TokensOf(f) < MaxTokens
  BY DEF Below
<1>8. Len(g) < MaxBatchSize
  BY <1>1, <1>2, <1>3, <1>4, <1>7, BatcherParameters
<1>9. TokensOf(g) < MaxTokens
  BY <1>6, <1>7, BatcherParameters
<1> QED BY <1>8, <1>9 DEF Below

LEMMA AnswerStep ==
  ASSUME BatcherInv, NEW i \in DOMAIN running, Answer(i)
  PROVE  BatcherInv'
<1> PICK h : h = Head(running[i])
  OBVIOUS
<1>1. /\ i \in 1..Len(running) /\ Len(running) \in Nat
      /\ \A n \in 1..Len(running) : running[n] \in NonEmpty /\ Len(running[n]) \in Nat \ {0}
      /\ UNCHANGED <<fresh, pending, old, taken>>
      /\ results' = [results EXCEPT ![h] = @ + 1] /\ results \in [Requests -> Nat]
  <2>1. running \in Seq(NonEmpty) /\ results \in [Requests -> Nat]
    BY DEF BatcherInv, BatchesTyped
  <2>2. i \in 1..Len(running) /\ Len(running) \in Nat
    BY <2>1, LenProperties
  <2>3. ASSUME NEW n \in 1..Len(running)
        PROVE  running[n] \in NonEmpty /\ Len(running[n]) \in Nat \ {0}
    BY <2>1, ElementOfSeq, EmptySeq DEF NonEmpty
  <2> QED BY <2>1, <2>2, <2>3 DEF Answer
<1>2. PICK o, d : Answered(i, o, d)
  BY <1>1, AnswerMoves DEF BatcherInv
<1>3. running' \in Seq(NonEmpty)
  BY <1>1, AnswerMoves DEF BatcherInv
<1>4. Held("running", i, 1) /\ At("running", i)[1] = h
  BY <1>1 DEF Held, IsPlace, At, NonEmpty
<1>5. h \in Requests /\ results[h] = 0 /\ h \notin fresh /\ results'[h] = 1
      /\ \A r \in Requests \ {h} : results'[r] = results[r]
  <2>1. h \in Requests
    BY <1>4, PlacesTyped DEF BatcherInv
  <2>2. results[h] = 0 /\ h \notin fresh
    BY <1>4 DEF BatcherInv, HeldWaits
  <2> QED BY <1>1, <2>1, <2>2
<1>6. BatchesTyped'
  BY <1>1, <1>3, <1>5 DEF BatcherInv, BatchesTyped
<1>7. ASSUME NEW k, NEW n, k # "running"
      PROVE  (IsPlace(k, n)' <=> IsPlace(k, n)) /\ (IsPlace(k, n) => At(k, n)' = At(k, n))
  <2>1. IsPlace(k, n)' <=> IsPlace(k, n)
    BY <1>1, <1>7 DEF IsPlace
  <2>2. IsPlace(k, n) => At(k, n)' = At(k, n)
    BY <1>1, <1>7 DEF IsPlace, At
  <2> QED BY <2>1, <2>2
<1>8. ASSUME NEW n, NEW j, Held("running", n, j)'
      PROVE  /\ n \in 1..Len(running') /\ d[n] \in {0, 1} /\ j \in Nat /\ j >= 1
             /\ Held("running", o[n], j + d[n])
             /\ At("running", o[n])[j + d[n]] = At("running", n)'[j]
             /\ ~(o[n] = i /\ j + d[n] = 1)
  <2>1. n \in 1..Len(running') /\ j \in 1..Len(running'[n])
    BY <1>8, RunningPlaces DEF Held
  <2>2. /\ o[n] \in 1..Len(running) /\ d[n] \in {0, 1} /\ (o[n] = i => d[n] = 1)
        /\ Len(running'[n]) + d[n] = Len(running[o[n]])
        /\ running'[n][j] = running[o[n]][j + d[n]]
    BY <1>2, <2>1 DEF Answered
  <2>3. running'[n] \in NonEmpty /\ Len(running'[n]) \in Nat
    BY <1>3, <2>1, ElementOfSeq, LenProperties DEF NonEmpty
  <2>4. j \in Nat /\ j >= 1 /\ j + d[n] \in 1..Len(running[o[n]]) /\ ~(o[n] = i /\ j + d[n] = 1)
    BY <2>1, <2>2, <2>3
  <2> QED BY <2>1, <2>2, <2>4, RunningPlaces DEF Held
<1>9. ASSUME NEW k, NEW n, NEW j, Held(k, n, j)'
      PROVE  \E m, e : /\ Held(k, m, e) /\ At(k, m)[e] = At(k, n)'[j]
                       /\ ~(k = "running" /\ m = i /\ e = 1)
  <2>1. CASE k = "running"
    BY <1>8, <1>9, <2>1
  <2>2. CASE k # "running"
    BY <1>7, <1>9, <2>2 DEF Held
  <2> QED BY <2>1, <2>2
<1>10. ASSUME NEW k, NEW m, NEW e, Held(k, m, e), ~(k = "running" /\ m = i /\ e = 1)
       PROVE  \E n, j : Held(k, n, j)' /\ At(k, n)'[j] = At(k, m)[e]
  <2>1. CASE k # "running"
    BY <1>7, <1>10, <2>1 DEF Held
  <2>2. CASE k = "running"
    <3>1. m \in 1..Len(running) /\ e \in 1..Len(running[m])
      BY <1>10, <2>2, RunningPlaces DEF Held
    <3>2. PICK n \in 1..Len(running') : o[n] = m /\ e - d[n] >= 1
      BY <1>2, <1>10, <2>2, <3>1 DEF Answered
    <3>3. /\ d[n] \in {0, 1} /\ Len(running'[n]) + d[n] = Len(running[m])
          /\ \A j \in 1..Len(running'[n]) : running'[n][j] = running[m][j + d[n]]
      BY <1>2, <3>2 DEF Answered
    <3>4. running'[n] \in NonEmpty /\ Len(running'[n]) \in Nat
      BY <1>3, ElementOfSeq, LenProperties DEF NonEmpty
    <3>5. PICK j : j = e - d[n]
      OBVIOUS
    <3>6. j \in 1..Len(running'[n]) /\ j + d[n] = e
      BY SMTT(30), <3>1, <3>2, <3>3, <3>4, <3>5
    <3>7. Held("running", n, j)' /\ At("running", n)'[j] = running[m][e]
      BY <3>3, <3>6, RunningPlaces DEF Held
    <3> QED BY <2>2, <3>7, RunningPlaces
  <2> QED BY <2>1, <2>2
<1>11. NoneTwice'
  <2> SUFFICES ASSUME NEW k1, NEW i1, NEW j1, NEW k2, NEW i2, NEW j2,
                      Held(k1, i1, j1)', Held(k2, i2, j2)', At(k1, i1)'[j1] = At(k2, i2)'[j2]
               PROVE  k1 = k2 /\ i1 = i2 /\ j1 = j2
    BY DEF NoneTwice
  <2>1. \A l1, n1, h1, l2, n2, h2 :
          Held(l1, n1, h1) /\ Held(l2, n2, h2) /\ At(l1, n1)[h1] = At(l2, n2)[h2]
            => l1 = l2 /\ n1 = n2 /\ h1 = h2
    BY DEF BatcherInv, NoneTwice
  <2>2. k1 = k2
    BY <1>9, <2>1
  <2>3. CASE k1 # "running"
    BY <1>7, <2>1, <2>2, <2>3 DEF Held
  <2>4. CASE k1 = "running"
    <3>1. o[i1] = o[i2] /\ j1 + d[i1] = j2 + d[i2]
      BY <1>8, <2>1, <2>2, <2>4
    <3>2. i1 = i2
      BY <1>2, <1>8, <2>2, <2>4, <3>1 DEF Answered
    <3>3. j1 \in Nat /\ j2 \in Nat /\ d[i1] \in {0, 1}
      BY <1>8, <2>2, <2>4
    <3>4. j1 = j2
      BY <3>1, <3>2, <3>3
    <3> QED BY <2>2, <3>2, <3>4
  <2> QED BY <2>3, <2>4
<1>12. HeldWaits'
  <2> SUFFICES ASSUME NEW k, NEW n, NEW j, Held(k, n, j)'
               PROVE  At(k, n)'[j] \notin fresh' /\ results'[At(k, n)'[j]] = 0
    BY DEF HeldWaits
  <2>1. PICK m, e : /\ Held(k, m, e) /\ At(k, m)[e] = At(k, n)'[j]
                    /\ ~(k = "running" /\ m = i /\ e = 1)
    BY <1>9
  <2>2. At(k, m)[e] # h
    BY <1>4, <2>1 DEF BatcherInv, NoneTwice
  <2>3. At(k, m)[e] \in Requests
    BY <2>1, PlacesTyped DEF BatcherInv
  <2>4. At(k, m)[e] \notin fresh /\ results[At(k, m)[e]] = 0
    BY <2>1 DEF BatcherInv, HeldWaits
  <2> QED BY <1>1, <1>5, <2>1, <2>2, <2>3, <2>4
<1>13. NoneLost'
  <2> SUFFICES ASSUME NEW r \in Requests
               PROVE  /\ r \in fresh => results'[r] = 0
                      /\ results'[r] \in {0, 1}
                      /\ r \notin fresh /\ results'[r] = 0 =>
                           \E k, n, j : Held(k, n, j)' /\ At(k, n)'[j] = r
    BY <1>1 DEF NoneLost
  <2>1. CASE r = h
    BY <1>5, <2>1
  <2>2. CASE r # h
    <3>1. /\ r \in fresh => results[r] = 0
          /\ results[r] \in {0, 1}
          /\ r \notin fresh /\ results[r] = 0 => \E k, m, e : Held(k, m, e) /\ At(k, m)[e] = r
      BY DEF BatcherInv, NoneLost
    <3>2. results'[r] = results[r]
      BY <1>5, <2>2
    <3>3. ASSUME r \notin fresh, results[r] = 0
          PROVE  \E k, n, j : Held(k, n, j)' /\ At(k, n)'[j] = r
      <4>1. PICK k, m, e : Held(k, m, e) /\ At(k, m)[e] = r
        BY <3>1, <3>3
      <4>2. ~(k = "running" /\ m = i /\ e = 1)
        BY <1>4, <2>2, <4>1
      <4> QED BY <1>10, <4>1, <4>2
    <3> QED BY <3>1, <3>2, <3>3
  <2> QED BY <2>1, <2>2
<1>14. SameModel'
  <2> SUFFICES ASSUME NEW k, NEW n, IsPlace(k, n)',
                      NEW j \in 1..Len(At(k, n)'), NEW l \in 1..Len(At(k, n)')
               PROVE  ModelOf[At(k, n)'[j]] = ModelOf[At(k, n)'[l]]
    BY DEF SameModel
  <2>1. Held(k, n, j)' /\ Held(k, n, l)'
    BY DEF Held
  <2>2. CASE k = "running"
    <3>1. /\ Held("running", o[n], j + d[n]) /\ At("running", o[n])[j + d[n]] = At("running", n)'[j]
          /\ Held("running", o[n], l + d[n]) /\ At("running", o[n])[l + d[n]] = At("running", n)'[l]
      BY <1>8, <2>1, <2>2
    <3> QED BY <2>2, <3>1 DEF BatcherInv, SameModel, Held
  <2>3. CASE k # "running"
    BY <1>7, <2>3 DEF BatcherInv, SameModel
  <2> QED BY <2>2, <2>3
<1>15. PendingOfModel' /\ WaitingBelow'
  <2>1. PendingOfModel'
    BY <1>1 DEF BatcherInv, PendingOfModel
  <2>2. WaitingBelow'
    BY <1>7 DEF BatcherInv, WaitingBelow, Below
  <2> QED BY <2>1, <2>2
<1>16. RunningBelow'
  <2> SUFFICES ASSUME NEW n \in 1..Len(running') PROVE Below(Front(running'[n]))
    BY DEF RunningBelow, Below
  <2>1. /\ o[n] \in 1..Len(running) /\ d[n] \in {0, 1}
        /\ Len(running'[n]) + d[n] = Len(running[o[n]])
        /\ \A j \in 1..Len(running'[n]) : running'[n][j] = running[o[n]][j + d[n]]
    BY <1>2 DEF Answered
  <2>2. running'[n] \in NonEmpty /\ running[o[n]] \in NonEmpty
    BY <1>1, <1>3, <2>1, ElementOfSeq
  <2>3. Below(Front(running[o[n]]))
    BY <2>1 DEF BatcherInv, RunningBelow
  <2> QED BY <2>1, <2>2, <2>3, RestBelow
<1> QED BY <1>6, <1>11, <1>12, <1>13, <1>14, <1>15, <1>16 DEF BatcherInv

-----------------------------------------------------------------------------
LEMMA BatchesInitially == Init => BatcherInv
<1> SUFFICES ASSUME Init PROVE BatcherInv
  OBVIOUS
<1>1. /\ fresh = Requests /\ old = {} /\ taken = <<>> /\ running = <<>> /\ Len(<<>>) = 0
      /\ pending = [m \in Models |-> <<>>] /\ results = [r \in Requests |-> 0]
  BY EmptySeq DEF Init
<1>2. BatchesTyped
  BY <1>1, EmptySeq DEF BatchesTyped
<1>3. \A k, i : IsPlace(k, i) => k = "pending" /\ At(k, i) = <<>>
  BY <1>1 DEF IsPlace, At
<1>4. \A k, i, j : ~Held(k, i, j)
  BY <1>1, <1>3 DEF Held
<1>5. NoneTwice /\ HeldWaits
  BY <1>4 DEF NoneTwice, HeldWaits
<1>6. NoneLost
  BY <1>1 DEF NoneLost
<1>7. PendingOfModel
  BY <1>1 DEF PendingOfModel
<1>8. SameModel
  BY <1>4 DEF SameModel, Held
<1>9. WaitingBelow
  BY <1>3, EmptyBelow DEF WaitingBelow
<1>10. RunningBelow
  BY <1>1 DEF RunningBelow
<1> QED BY <1>2, <1>5, <1>6, <1>7, <1>8, <1>9, <1>10 DEF BatcherInv

\* Time, the end of the loop and the begin of Close touch no batch.
LEMMA BatchesUntouched ==
  ASSUME BatcherInv, UNCHANGED <<fresh, pending, taken, running, results>>, old' \subseteq Models
  PROVE  BatcherInv'
<1>1. BatchesTyped'
  BY DEF BatcherInv, BatchesTyped
<1>2. /\ \A k, i : IsPlace(k, i)' <=> IsPlace(k, i)
      /\ \A k, i : At(k, i)' = At(k, i)
  BY DEF IsPlace, At
<1>3. \A k, i, j : Held(k, i, j)' <=> Held(k, i, j)
  BY <1>2 DEF Held
<1>4. NoneTwice' /\ HeldWaits' /\ NoneLost' /\ SameModel'
  <2>1. NoneTwice'
    BY <1>2, <1>3 DEF BatcherInv, NoneTwice
  <2>2. HeldWaits'
    BY <1>2, <1>3 DEF BatcherInv, HeldWaits
  <2>3. NoneLost'
    BY <1>2, <1>3 DEF BatcherInv, NoneLost
  <2>4. SameModel'
    BY <1>2 DEF BatcherInv, SameModel
  <2> QED BY <2>1, <2>2, <2>3, <2>4
<1>5. PendingOfModel' /\ WaitingBelow' /\ RunningBelow'
  <2>1. PendingOfModel'
    BY DEF BatcherInv, PendingOfModel
  <2>2. WaitingBelow'
    BY <1>2 DEF BatcherInv, WaitingBelow, Below
  <2>3. RunningBelow'
    BY DEF BatcherInv, RunningBelow, Below
  <2> QED BY <2>1, <2>2, <2>3
<1> QED BY <1>1, <1>4, <1>5 DEF BatcherInv

LEMMA BatchesStep == BatcherInv /\ [Next]_vars => BatcherInv'
<1> SUFFICES ASSUME BatcherInv, [Next]_vars PROVE BatcherInv'
  OBVIOUS
<1>1. old \subseteq Models
  BY DEF BatcherInv, BatchesTyped
<1>2. ASSUME NEW r \in Requests, Submit(r) \/ SubmitDisabled(r) PROVE BatcherInv'
  BY <1>2, SubmitStep, SubmitDisabledStep
<1>3. ASSUME NEW m \in Models, Age(m) PROVE BatcherInv'
  BY <1>1, <1>3, BatchesUntouched DEF Age
<1>4. CASE TakeOld
  BY <1>4, TakeOldStep
<1>5. CASE StartTaken
  BY <1>5, StartTakenStep
<1>6. CASE LoopReturns
  BY <1>1, <1>6, BatchesUntouched DEF LoopReturns
<1>7. CASE Close
  BY <1>1, <1>7, BatchesUntouched DEF Close
<1>8. CASE CloseSweeps
  BY <1>8, CloseSweepsStep
<1>9. ASSUME NEW i \in DOMAIN running, Answer(i) PROVE BatcherInv'
  BY <1>9, AnswerStep
<1>10. CASE UNCHANGED vars
  BY <1>1, <1>10, BatchesUntouched DEF vars
<1> QED BY <1>2, <1>3, <1>4, <1>5, <1>6, <1>7, <1>8, <1>9, <1>10 DEF Next

\* A concatenation has the elements of both parts, and none twice if they have none
\* twice and none in common.
Occurs(e, s) == \E i \in 1..Len(s) : s[i] = e
Once(s)  == \A x, y \in 1..Len(s) : s[x] = s[y] => x = y

LEMMA ConcatHas ==
  ASSUME NEW S, NEW u \in Seq(S), NEW v \in Seq(S)
  PROVE  /\ u \o v \in Seq(S)
         /\ \A e : Occurs(e, u \o v) <=> Occurs(e, u) \/ Occurs(e, v)
         /\ Once(u) /\ Once(v) /\ (\A e : ~(Occurs(e, u) /\ Occurs(e, v))) => Once(u \o v)
<1> PICK m : m = Len(u)
  OBVIOUS
<1> PICK n : n = Len(v)
  OBVIOUS
<1> PICK w : w = u \o v
  OBVIOUS
<1>1. /\ m \in Nat /\ n \in Nat /\ w \in Seq(S) /\ Len(w) = m + n
      /\ \A x \in 1..(m + n) : w[x] = IF x <= m THEN u[x] ELSE v[x - m]
  BY LenProperties, ConcatProperties
<1>2. ASSUME NEW x \in 1..Len(w)
      PROVE  \/ x \in 1..m /\ w[x] = u[x]
             \/ x - m \in 1..n /\ w[x] = v[x - m]
  BY <1>1
<1>3. ASSUME NEW i \in 1..m PROVE i \in 1..Len(w) /\ w[i] = u[i]
  BY <1>1
<1>4. ASSUME NEW i \in 1..n PROVE \E x \in 1..Len(w) : w[x] = v[i]
  <2>1. PICK x : x = m + i
    OBVIOUS
  <2>2. x \in 1..(m + n) /\ ~(x <= m) /\ x - m = i
    BY <1>1, <2>1
  <2> QED BY <1>1, <2>2
<1>5. ASSUME NEW e PROVE Occurs(e, w) <=> Occurs(e, u) \/ Occurs(e, v)
  <2>1. Occurs(e, w) => Occurs(e, u) \/ Occurs(e, v)
    BY <1>2 DEF Occurs
  <2>2. Occurs(e, u) => Occurs(e, w)
    BY <1>3 DEF Occurs
  <2>3. Occurs(e, v) => Occurs(e, w)
    BY <1>4 DEF Occurs
  <2> QED BY <2>1, <2>2, <2>3
<1>6. ASSUME Once(u), Once(v), \A e : ~(Occurs(e, u) /\ Occurs(e, v)),
             NEW x \in 1..Len(w), NEW y \in 1..Len(w), w[x] = w[y]
      PROVE  x = y
  <2>1. x \in Int /\ y \in Int
    OBVIOUS
  <2>2. CASE x \in 1..m /\ w[x] = u[x]
    <3>1. Occurs(w[x], u)
      BY <2>2 DEF Occurs
    <3>2. ~Occurs(w[y], v)
      BY <1>6, <3>1
    <3>3. y \in 1..m /\ w[y] = u[y]
      BY <1>2, <3>2 DEF Occurs
    <3> QED BY <1>6, <2>2, <3>3 DEF Once
  <2>3. CASE x - m \in 1..n /\ w[x] = v[x - m]
    <3>1. Occurs(w[x], v)
      BY <2>3 DEF Occurs
    <3>2. ~Occurs(w[y], u)
      BY <1>6, <3>1
    <3>3. y - m \in 1..n /\ w[y] = v[y - m]
      BY <1>2, <3>2 DEF Occurs
    <3>4. x - m = y - m
      BY <1>6, <2>3, <3>3 DEF Once
    <3> QED BY <1>1, <2>1, <3>4
  <2> QED BY <1>2, <2>2, <2>3
<1>7. Once(u) /\ Once(v) /\ (\A e : ~(Occurs(e, u) /\ Occurs(e, v))) => Once(w)
  BY <1>6 DEF Once
<1> QED BY <1>1, <1>5, <1>7

\* All batches are those in the places, each once.
Placed(k, e) == \E i : IsPlace(k, i) /\ At(k, i) = e

LEMMA AllBatchesHave ==
  ASSUME BatcherInv
  PROVE  /\ AllBatches \in Seq(NonEmpty) /\ Once(AllBatches)
         /\ \A e : Occurs(e, AllBatches) <=> e # <<>> /\ \E k : Placed(k, e)
<1> DEFINE p == PendingOf(Models)
<1>1. /\ p \in Seq(NonEmpty) /\ Once(p)
      /\ \A i \in 1..Len(p) : \E m \in Models : pending[m] # <<>> /\ p[i] = pending[m]
      /\ \A m \in Models : pending[m] # <<>> => \E i \in 1..Len(p) : p[i] = pending[m]
  BY PendingOfHas DEF BatcherInv, Once
<1> HIDE DEF p
<1>2. taken \in Seq(NonEmpty) /\ running \in Seq(NonEmpty)
  BY DEF BatcherInv, BatchesTyped
<1>3. \A e : Occurs(e, p) <=> e # <<>> /\ Placed("pending", e)
  BY SMTT(30), <1>1 DEF Occurs, Placed, IsPlace, At
<1>4. \A e : Occurs(e, taken) <=> e # <<>> /\ Placed("taken", e)
  <2>1. \A i \in 1..Len(taken) : taken[i] # <<>>
    BY <1>2, ElementOfSeq DEF NonEmpty
  <2> QED BY <2>1 DEF Occurs, Placed, IsPlace, At
<1>5. \A e : Occurs(e, running) <=> e # <<>> /\ Placed("running", e)
  <2>1. \A i \in 1..Len(running) : running[i] # <<>>
    BY <1>2, ElementOfSeq DEF NonEmpty
  <2> QED BY <2>1 DEF Occurs, Placed, IsPlace, At
<1>6. \A e, k, l : e # <<>> /\ Placed(k, e) /\ Placed(l, e) => k = l
  BY PlacesDiffer DEF Placed
<1>7. Once(taken)
  <2> SUFFICES ASSUME NEW x \in 1..Len(taken), NEW y \in 1..Len(taken), taken[x] = taken[y]
               PROVE  x = y
    BY DEF Once
  <2>1. taken[x] # <<>>
    BY <1>2, ElementOfSeq DEF NonEmpty
  <2>2. IsPlace("taken", x) /\ IsPlace("taken", y) /\ At("taken", x) = taken[x]
        /\ At("taken", y) = taken[y]
    BY DEF IsPlace, At
  <2> QED BY <2>1, <2>2, PlacesDiffer
<1>8. Once(running)
  <2> SUFFICES ASSUME NEW x \in 1..Len(running), NEW y \in 1..Len(running), running[x] = running[y]
               PROVE  x = y
    BY DEF Once
  <2>1. running[x] # <<>>
    BY <1>2, ElementOfSeq DEF NonEmpty
  <2>2. IsPlace("running", x) /\ IsPlace("running", y) /\ At("running", x) = running[x]
        /\ At("running", y) = running[y]
    BY DEF IsPlace, At
  <2> QED BY <2>1, <2>2, PlacesDiffer
<1> DEFINE a == p \o taken
           b == a \o running
<1>9. AllBatches = b
  BY DEF AllBatches, p
<1>10. /\ a \in Seq(NonEmpty) /\ Once(a)
       /\ \A e : Occurs(e, a) <=> Occurs(e, p) \/ Occurs(e, taken)
  <2>1. \A e : ~(Occurs(e, p) /\ Occurs(e, taken))
    BY <1>3, <1>4, <1>6
  <2> QED BY <1>1, <1>2, <1>7, <2>1, ConcatHas
<1> HIDE DEF a
<1>11. /\ b \in Seq(NonEmpty) /\ Once(b)
       /\ \A e : Occurs(e, b) <=> Occurs(e, a) \/ Occurs(e, running)
  <2>1. \A e : ~(Occurs(e, a) /\ Occurs(e, running))
    BY <1>3, <1>4, <1>5, <1>6, <1>10
  <2> QED BY <1>2, <1>8, <1>10, <2>1, ConcatHas
<1> HIDE DEF b
<1>12. \A e, k : Placed(k, e) => k \in {"pending", "taken", "running"}
  BY DEF Placed, IsPlace
<1>13. \A e : Occurs(e, b) <=> e # <<>> /\ \E k : Placed(k, e)
  BY <1>3, <1>4, <1>5, <1>10, <1>11, <1>12
<1> QED BY <1>9, <1>11, <1>13

\* What the inductive invariant says of the places, BatchesAreWhole says of the batches.
LEMMA InvIsWhole == BatcherInv => BatchesAreWhole
<1> SUFFICES ASSUME BatcherInv PROVE BatchesAreWhole
  OBVIOUS
<1> PICK all : all = AllBatches
  OBVIOUS
<1>1. /\ all \in Seq(NonEmpty) /\ Once(all)
      /\ \A e : Occurs(e, all) <=> e # <<>> /\ \E k : Placed(k, e)
  BY AllBatchesHave
<1>2. ASSUME NEW x \in DOMAIN all
      PROVE  /\ x \in 1..Len(all) /\ all[x] \in Seq(Requests)
             /\ DOMAIN all[x] = 1..Len(all[x])
             /\ \E k, i : IsPlace(k, i) /\ At(k, i) = all[x]
  <2>1. x \in 1..Len(all) /\ all[x] \in Seq(Requests)
    BY <1>1, LenProperties, ElementOfSeq DEF NonEmpty
  <2>2. Occurs(all[x], all)
    BY <2>1 DEF Occurs
  <2> QED BY <1>1, <2>1, <2>2, LenProperties DEF Placed
<1>3. OneModel
  <2> SUFFICES ASSUME NEW b \in Range(all), NEW i \in DOMAIN b, NEW j \in DOMAIN b
               PROVE  ModelOf[b[i]] = ModelOf[b[j]]
    BY DEF OneModel
  <2>1. PICK x \in DOMAIN all : b = all[x]
    BY DEF Range
  <2>2. PICK k, n : IsPlace(k, n) /\ At(k, n) = b
    BY <1>2, <2>1
  <2>3. i \in 1..Len(b) /\ j \in 1..Len(b)
    BY <1>2, <2>1
  <2> QED BY <2>2, <2>3 DEF BatcherInv, SameModel
<1>4. LimitsHold
  <2>1. ASSUME NEW b \in Range(pending) PROVE Below(b)
    <3>1. PICK m \in Models : b = pending[m]
      BY DEF Range, BatcherInv, BatchesTyped
    <3> QED BY <3>1 DEF BatcherInv, WaitingBelow, IsPlace, At
  <2>2. ASSUME NEW b \in Range(taken) PROVE Below(b)
    <3>1. DOMAIN taken = 1..Len(taken)
      BY LenProperties DEF BatcherInv, BatchesTyped
    <3>2. PICK i \in 1..Len(taken) : b = taken[i]
      BY <3>1 DEF Range
    <3> QED BY <3>2 DEF BatcherInv, WaitingBelow, IsPlace, At
  <2>3. ASSUME NEW b \in Range(running) PROVE Below(Front(b))
    <3>1. DOMAIN running = 1..Len(running)
      BY LenProperties DEF BatcherInv, BatchesTyped
    <3>2. PICK i \in 1..Len(running) : b = running[i]
      BY <3>1 DEF Range
    <3> QED BY <3>2 DEF BatcherInv, RunningBelow
  <2> QED BY <2>1, <2>2, <2>3 DEF LimitsHold
<1>5. OnePlace
  <2> SUFFICES ASSUME NEW r \in Requests
               PROVE  Cardinality(Places(r)) + results[r] = IF r \in fresh THEN 0 ELSE 1
    BY DEF OnePlace
  <2>1. \A p \in Places(r) : \E x, j : /\ p = <<x, j>> /\ x \in DOMAIN all
                                     /\ j \in DOMAIN all[x] /\ all[x][j] = r
    BY DEF Places
  <2>2. \A x, j : x \in DOMAIN all /\ j \in DOMAIN all[x] /\ all[x][j] = r => <<x, j>> \in Places(r)
    BY DEF Places
  <2>3. ASSUME NEW x, NEW j, x \in DOMAIN all, j \in DOMAIN all[x]
        PROVE  \E k, i : Held(k, i, j) /\ At(k, i) = all[x]
    BY <1>2, <2>3 DEF Held
  <2>4. \A p, q \in Places(r) : p = q
    <3> SUFFICES ASSUME NEW x, NEW j, x \in DOMAIN all, j \in DOMAIN all[x], all[x][j] = r,
                        NEW y, NEW h, y \in DOMAIN all, h \in DOMAIN all[y], all[y][h] = r
                 PROVE  x = y /\ j = h
      BY <2>1
    <3>1. PICK k, i : Held(k, i, j) /\ At(k, i) = all[x]
      BY <2>3
    <3>2. PICK l, n : Held(l, n, h) /\ At(l, n) = all[y]
      BY <2>3
    <3>3. k = l /\ i = n /\ j = h
      BY <3>1, <3>2 DEF BatcherInv, NoneTwice
    <3>4. all[x] = all[y]
      BY <3>1, <3>2, <3>3
    <3> QED BY <1>1, <1>2, <3>3, <3>4 DEF Once
  <2>5. Places(r) # {} <=> \E k, i, j : Held(k, i, j) /\ At(k, i)[j] = r
    <3>1. ASSUME Places(r) # {} PROVE \E k, i, j : Held(k, i, j) /\ At(k, i)[j] = r
      BY <2>1, <2>3, <3>1
    <3>2. ASSUME NEW k, NEW i, NEW j, Held(k, i, j), At(k, i)[j] = r PROVE Places(r) # {}
      <4>1. At(k, i) # <<>>
        BY <3>2, EmptySeq DEF Held
      <4>2. Occurs(At(k, i), all)
        BY <1>1, <3>2, <4>1 DEF Placed, Held
      <4>3. PICK x \in 1..Len(all) : all[x] = At(k, i)
        BY <4>2 DEF Occurs
      <4>4. x \in DOMAIN all /\ j \in DOMAIN all[x]
        <5>1. DOMAIN all = 1..Len(all)
          BY <1>1, LenProperties
        <5> QED BY <1>2, <3>2, <4>3, <5>1 DEF Held
      <4> QED BY <2>2, <3>2, <4>3, <4>4
    <3> QED BY <3>1, <3>2
  <2>6. CASE Places(r) = {}
    <3>1. Cardinality(Places(r)) = 0
      BY <2>6, FS_EmptySet
    <3> QED BY <2>5, <2>6, <3>1 DEF BatcherInv, NoneLost
  <2>7. CASE Places(r) # {}
    <3>1. PICK p : Places(r) = {p}
      BY <2>4, <2>7
    <3>2. Cardinality(Places(r)) = 1
      BY <3>1, FS_Singleton
    <3>3. r \notin fresh /\ results[r] = 0
      BY <2>5, <2>7 DEF BatcherInv, HeldWaits
    <3> QED BY <3>2, <3>3
  <2> QED BY <2>6, <2>7
<1> QED BY <1>3, <1>4, <1>5 DEF BatchesAreWhole

\* BatchesAreWhole for any requests, models and limits: whatever the order of
\* Submit, the loop, the goroutines and Close, a request is in one place, a
\* batch keeps to the limits and asks for one model (request_batcher.go).
THEOREM BatchesStayWhole == Spec => []BatchesAreWhole
<1>1. Spec => []BatcherInv
  BY BatchesInitially, BatchesStep, PTL DEF Spec
<1> QED BY <1>1, InvIsWhole, PTL

-----------------------------------------------------------------------------
(* Loops and sequences of values.                                          *)

\* Recursion up to a number: what is defined by a first value and a step from
\* each value to the next, exists.
Follows(f, N, S, a, step) == f \in [0..N -> S] /\ f[0] = a /\ \A k \in 1..N : f[k] = step[k][f[k - 1]]
Recurs(N, S, a, step) ==
  N \in Nat /\ a \in S /\ step \in [1..N -> [S -> S]] => \E f : Follows(f, N, S, a, step)

LEMMA Recursion == \A N, S, a, step : Recurs(N, S, a, step)
<1> SUFFICES ASSUME NEW N \in Nat, NEW S, NEW a \in S, NEW step \in [1..N -> [S -> S]]
             PROVE  \E f : Follows(f, N, S, a, step)
  BY Zenon DEF Recurs
<1> DEFINE Adds(f, n) == f \in [0..n -> S] /\ f[0] = a /\ \A k \in 1..n : f[k] = step[k][f[k - 1]]
           T == {n \in Nat : n <= N => \E f : Adds(f, n)}
<1>1. 0 \in T
  <2>1. Adds([k \in 0..0 |-> a], 0) OBVIOUS
  <2> QED BY <2>1
<1>2. ASSUME NEW n \in Nat, n \in T PROVE n + 1 \in T
  <2> SUFFICES ASSUME n + 1 <= N PROVE \E f : Adds(f, n + 1)
    OBVIOUS
  <2>1. PICK f : Adds(f, n)
    BY <1>2
  <2> DEFINE g == [k \in 0..(n + 1) |-> IF k <= n THEN f[k] ELSE step[n + 1][f[n]]]
  <2>2. f[n] \in S /\ n + 1 \in 1..N
    BY <2>1
  <2>3. g \in [0..(n + 1) -> S] /\ g[0] = a
    BY <2>1, <2>2
  <2>4. ASSUME NEW k \in 1..(n + 1) PROVE g[k] = step[k][g[k - 1]]
    <3>1. CASE k = n + 1
      BY <3>1
    <3>2. CASE k \in 1..n
      BY <2>1, <3>2
    <3> QED BY <3>1, <3>2
  <2> HIDE DEF g
  <2> QED BY <2>3, <2>4
<1>3. N \in T
  <2> HIDE DEF T
  <2> QED BY <1>1, <1>2, Induction
<1> QED BY <1>3 DEF Follows

\* What holds at first and is kept from each value to the next, holds of all.
LEMMA Throughout ==
  ASSUME NEW N \in Nat, NEW S, NEW f, f[0] \in S, \A k \in 1..N : f[k - 1] \in S => f[k] \in S
  PROVE  \A k \in 0..N : f[k] \in S
<1> DEFINE T == {n \in Nat : n <= N => f[n] \in S}
<1>1. 0 \in T
  OBVIOUS
<1>2. ASSUME NEW n \in Nat, n \in T PROVE n + 1 \in T
  BY <1>2
<1>3. \A n \in Nat : n \in T
  <2> HIDE DEF T
  <2> QED BY <1>1, <1>2, Induction
<1> QED BY <1>3

-----------------------------------------------------------------------------
(* The queues of JobQueue.  A heap, first of all.                          *)
Heaped(q) == \A i \in 2..Len(q) : q[i] <= q[i \div 2]

LEMMA FirstIsBest ==
  ASSUME NEW q \in Seq(Nat), Heaped(q), NEW i \in DOMAIN q
  PROVE  q[i] <= q[1]
<1> DEFINE T == {n \in Nat : \A j \in 1..Len(q) : j <= n => q[j] <= q[1]}
<1>1. Len(q) \in Nat /\ \A j \in 1..Len(q) : q[j] \in Nat
  BY LenProperties, ElementOfSeq
<1>2. 0 \in T
  BY <1>1
<1>3. ASSUME NEW n \in Nat, n \in T PROVE n + 1 \in T
  <2> SUFFICES ASSUME n + 1 \in 1..Len(q) PROVE q[n + 1] <= q[1]
    BY <1>3
  <2>1. CASE n = 0
    BY <1>1, <2>1
  <2>2. CASE n > 0
    <3>1. (n + 1) \div 2 \in 1..Len(q) /\ (n + 1) \div 2 <= n /\ n + 1 \in 2..Len(q)
      BY <1>1, <2>2
    <3>2. q[n + 1] <= q[(n + 1) \div 2] /\ q[(n + 1) \div 2] <= q[1]
      BY <1>3, <3>1 DEF Heaped
    <3> QED BY <1>1, <3>1, <3>2
  <2> QED BY <2>1, <2>2
<1>4. \A n \in Nat : n \in T
  <2> HIDE DEF T
  <2> QED BY <1>2, <1>3, Induction
<1>5. i \in 1..Len(q)
  BY LenProperties
<1> QED BY <1>1, <1>4, <1>5

\* A heap but for the position the loop is at, which may be too good for its
\* parent.
Rising(N) ==
  {s \in [q : Seq(Nat), at : Nat] :
     /\ Len(s.q) = N /\ s.at \in 1..N
     /\ \A i \in 2..N : i # s.at => s.q[i] <= s.q[i \div 2]
     /\ s.at >= 2 => \A i \in 2..N : i \div 2 = s.at => s.q[i] <= s.q[s.at \div 2]}

LEMMA SwapIs ==
  ASSUME NEW q \in Seq(Nat), NEW i \in 1..Len(q), NEW j \in 1..Len(q)
  PROVE  /\ Swap(q, i, j) \in Seq(Nat) /\ Len(Swap(q, i, j)) = Len(q)
         /\ \A k \in 1..Len(q) : Swap(q, i, j)[k] = IF k = j THEN q[i] ELSE IF k = i THEN q[j] ELSE q[k]
<1>1. q[i] \in Nat /\ q[j] \in Nat
  BY ElementOfSeq
<1> QED BY <1>1 DEF Swap

LEMMA UpRoundRises ==
  ASSUME NEW N \in Nat, NEW s \in Rising(N)
  PROVE  /\ UpRound(s) \in Rising(N)
         /\ UpRound(s) = s => Heaped(s.q)
         /\ UpRound(s) # s => UpRound(s).at < s.at
<1> DEFINE q == s.q
           j == s.at
           h == j \div 2
           w == Swap(q, j, h)
<1>1. /\ q \in Seq(Nat) /\ Len(q) = N /\ j \in 1..N /\ s = [q |-> q, at |-> j]
      /\ \A i \in 2..N : i # j => q[i] <= q[i \div 2]
      /\ j >= 2 => \A i \in 2..N : i \div 2 = j => q[i] <= q[j \div 2]
  BY DEF Rising
<1>2. \A i \in 1..N : q[i] \in Nat
  BY <1>1, ElementOfSeq
<1>3. CASE j = 1 \/ ~Less(q, j, h)
  <2>1. UpRound(s) = s
    BY <1>3 DEF UpRound
  <2>2. j # 1 => j >= 2 /\ h \in 1..N /\ q[j] <= q[h]
    BY <1>1, <1>2, <1>3 DEF Less
  <2>3. Heaped(q)
    BY <1>1, <2>2 DEF Heaped
  <2> QED BY <2>1, <2>3
<1>4. CASE j # 1 /\ Less(q, j, h)
  <2>1. UpRound(s) = [q |-> w, at |-> h]
    BY <1>4 DEF UpRound
  <2>2. j >= 2 /\ h \in 1..N /\ h < j /\ q[j] > q[h] /\ q[j] \in Nat /\ q[h] \in Nat
    BY <1>1, <1>2, <1>4 DEF Less
  <2>3. w \in Seq(Nat) /\ Len(w) = N /\ \A k \in 1..N : w[k] = IF k = h THEN q[j] ELSE IF k = j THEN q[h] ELSE q[k]
    <3>1. j \in 1..Len(q) /\ h \in 1..Len(q)
      BY <1>1, <2>2
    <3> HIDE DEF q, j, h
    <3>2. w \in Seq(Nat) /\ Len(w) = Len(q) /\ \A k \in 1..Len(q) : w[k] = IF k = h THEN q[j] ELSE IF k = j THEN q[h] ELSE q[k]
      <4>1. q \in Seq(Nat) /\ j \in 1..Len(q) /\ h \in 1..Len(q)
        BY <1>1, <3>1
      <4> QED BY ONLY <4>1, SwapIs, ZenonT(60)
    <3> QED BY <1>1, <3>2
  <2> HIDE DEF w, q, j
  <2>4. ASSUME NEW i \in 2..N, i # h PROVE w[i] <= w[i \div 2]
    <3>1. i \in 1..N /\ i \div 2 \in 1..N /\ i \div 2 < i /\ q[i] \in Nat /\ q[i \div 2] \in Nat
      BY <1>2, <1>1
    <3>2. CASE i = j
      BY <2>2, <2>3, <3>1, <3>2
    <3>3. CASE i # j /\ i \div 2 = j
      <4>1. w[i] = q[i] /\ w[j] = q[h] /\ j # h
        <5> HIDE DEF h
        <5>1. i # h /\ i # j /\ j # h /\ j \in 1..N /\ i \in 1..N
          BY <1>1, <2>2, <2>4, <3>1, <3>3
        <5> QED BY <2>3, <5>1
      <4>2. q[i] <= q[h]
        BY <1>1, <2>2, <3>3 DEF h
      <4> QED BY <3>3, <4>1, <4>2
    <3>4. CASE i # j /\ i \div 2 = h
      <4>1. w[i] = q[i] /\ w[h] = q[j] /\ q[i] <= q[h]
        BY <1>1, <2>2, <2>3, <2>4, <3>1, <3>4
      <4> QED BY <2>2, <3>1, <3>4, <4>1
    <3>5. CASE i # j /\ i \div 2 # j /\ i \div 2 # h
      <4>1. w[i] = q[i] /\ w[i \div 2] = q[i \div 2]
        BY <2>3, <2>4, <3>1, <3>5
      <4> QED BY <1>1, <3>5, <4>1
    <3> QED BY <3>2, <3>3, <3>4, <3>5
  <2>5. ASSUME h >= 2, NEW i \in 2..N, i \div 2 = h PROVE w[i] <= w[h \div 2]
    <3>1. h \div 2 \in 1..N /\ h \div 2 < h /\ h \in 2..N /\ i \in 1..N /\ i # h
      BY <2>2, <2>5
    <3>2. w[h \div 2] = q[h \div 2] /\ q[h] <= q[h \div 2] /\ q[h \div 2] \in Nat
      <4>1. q[h \div 2] \in Nat /\ h # j
        BY <1>2, <2>2, <3>1
      <4>2. q[h] <= q[h \div 2]
        BY <1>1, <3>1, <4>1
      <4>3. w[h \div 2] = q[h \div 2]
        <5> HIDE DEF h
        <5>1. h \div 2 # h /\ h \div 2 # j /\ h \div 2 \in 1..N
          BY <1>1, <2>2, <3>1
        <5> QED BY <2>3, <5>1
      <4> QED BY <4>1, <4>2, <4>3
    <3>3. CASE i = j
      BY <2>3, <2>2, <3>1, <3>2, <3>3
    <3>4. CASE i # j
      <4>1. w[i] = q[i] /\ q[i] <= q[h] /\ q[i] \in Nat
        BY <1>1, <1>2, <2>3, <2>5, <3>1, <3>4
      <4> QED BY <2>2, <3>2, <4>1
    <3> QED BY <3>3, <3>4
  <2>6. [q |-> w, at |-> h] \in Rising(N)
    <3> HIDE DEF h
    <3> DEFINE t == [q |-> w, at |-> h]
    <3>1. t \in [q : Seq(Nat), at : Nat] /\ t.q = w /\ t.at = h
      BY <2>2, <2>3
    <3> HIDE DEF t
    <3>2. t \in Rising(N)
      BY <2>2, <2>3, <2>4, <2>5, <3>1 DEF Rising
    <3> QED BY <3>2 DEF t
  <2>7. UpRound(s).at < s.at /\ UpRound(s) # s
    BY <2>1, <2>2 DEF j
  <2> QED BY <2>1, <2>6, <2>7
<1> QED BY <1>3, <1>4

\* A loop that goes on from each state to the next, where each step that changes
\* the state lowers its rank, has come to rest after as many rounds as the rank
\* it started with.
Settles(f, N, S, next, rank) ==
  /\ N \in Nat /\ f[0] \in S /\ next \in [S -> S] /\ rank \in [S -> Nat] /\ rank[f[0]] <= N
  /\ \A s \in S : next[s] # s => rank[next[s]] < rank[s]
  /\ \A k \in 1..N : f[k - 1] \in S => f[k] = next[f[k - 1]]
  => f[N] \in S /\ next[f[N]] = f[N]

LEMMA Rounds == \A f, N, S, next, rank : Settles(f, N, S, next, rank)
<1> SUFFICES ASSUME NEW f, NEW N, NEW S, NEW next, NEW rank,
                    /\ N \in Nat /\ f[0] \in S /\ next \in [S -> S] /\ rank \in [S -> Nat] /\ rank[f[0]] <= N
                    /\ \A s \in S : next[s] # s => rank[next[s]] < rank[s]
                    /\ \A k \in 1..N : f[k - 1] \in S => f[k] = next[f[k - 1]]
             PROVE  f[N] \in S /\ next[f[N]] = f[N]
  BY Zenon DEF Settles
<1>1. \A k \in 0..N : f[k] \in S
  <2>1. \A k \in 1..N : f[k - 1] \in S => f[k] \in S
    OBVIOUS
  <2> QED BY <2>1, Throughout, Zenon
<1> DEFINE T == {n \in Nat : n <= N => next[f[n]] = f[n] \/ rank[f[n]] + n <= N}
<1>2. 0 \in T
  OBVIOUS
<1>3. ASSUME NEW n \in Nat, n \in T PROVE n + 1 \in T
  <2> SUFFICES ASSUME n + 1 <= N PROVE next[f[n + 1]] = f[n + 1] \/ rank[f[n + 1]] + (n + 1) <= N
    OBVIOUS
  <2>1. n + 1 \in 1..N /\ n \in 0..N /\ n + 1 - 1 = n
    OBVIOUS
  <2>2. f[n] \in S /\ f[n + 1] \in S /\ f[n + 1] = next[f[n]]
    BY <1>1, <2>1
  <2>3. CASE next[f[n]] = f[n]
    BY <2>2, <2>3
  <2>4. CASE next[f[n]] # f[n]
    <3>1. rank[f[n]] + n <= N
      BY <1>3, <2>1, <2>4
    <3>2. rank[f[n + 1]] < rank[f[n]] /\ rank[f[n + 1]] \in Nat /\ rank[f[n]] \in Nat
      BY <2>2, <2>4
    <3> QED BY <3>1, <3>2
  <2> QED BY <2>3, <2>4
<1>4. N \in T
  <2> HIDE DEF T
  <2> QED BY <1>2, <1>3, Induction
<1>5. f[N] \in S /\ rank[f[N]] \in Nat /\ rank[next[f[N]]] \in Nat
  BY <1>1
<1>6. CASE rank[f[N]] + N <= N
  BY <1>5, <1>6
<1> QED BY <1>4, <1>5, <1>6

\* Put at the end of a heap, a job rises to its place.
LEMMA UpHeaps ==
  ASSUME NEW q \in Seq(Nat), NEW j \in 1..Len(q), [q |-> q, at |-> j] \in Rising(Len(q))
  PROVE  Up(q, j) \in Seq(Nat) /\ Len(Up(q, j)) = Len(q) /\ Heaped(Up(q, j))
<1> DEFINE N == Len(q)
           S == Rising(N)
           a == [q |-> q, at |-> j]
           step == [k \in 1..N |-> [s \in S |-> UpRound(s)]]
           next == [s \in S |-> UpRound(s)]
           rank == [s \in S |-> s.at]
           Loop(f) == f = [k \in 0..N |-> IF k = 0 THEN a ELSE UpRound(f[k - 1])]
           g == CHOOSE f : Loop(f)
<1>1. N \in Nat /\ a \in S
  BY LenProperties
<1>2. \A s \in S : UpRound(s) \in S
  BY <1>1, UpRoundRises, Zenon
<1>3. \E f : Loop(f)
  <2>1. step \in [1..N -> [S -> S]]
    BY <1>2
  <2>2. PICK f \in [0..N -> S] : f[0] = a /\ \A k \in 1..N : f[k] = step[k][f[k - 1]]
    <3> HIDE DEF step, S, a, N
    <3>1. Recurs(N, S, a, step)
      BY Recursion, Zenon
    <3> QED BY <1>1, <2>1, <3>1 DEF Recurs, Follows
  <2>3. \A k \in 1..N : f[k] = UpRound(f[k - 1])
    <3> SUFFICES ASSUME NEW k \in 1..N PROVE f[k] = UpRound(f[k - 1])
      OBVIOUS
    <3>1. k - 1 \in 0..N /\ f[k - 1] \in S
      <4> HIDE DEF S, N
      <4>1. k - 1 \in 0..N
        BY <1>1
      <4> QED BY <4>1
    <3> QED BY <2>2, <3>1
  <2>4. f = [k \in 0..N |-> f[k]]
    BY <2>2
  <2>5. \A k \in 0..N : k = 0 \/ k \in 1..N
    BY <1>1
  <2>6. \A k \in 0..N : f[k] = IF k = 0 THEN a ELSE UpRound(f[k - 1])
    BY <2>2, <2>3, <2>5
  <2>7. Loop(f)
    BY <2>4, <2>6, Zenon
  <2> QED BY <2>7
<1>4. Loop(g)
  <2> HIDE DEF Loop
  <2> QED BY <1>3
<1>5. g[0] = a /\ \A k \in 1..N : g[k - 1] \in S => g[k] = next[g[k - 1]]
  <2> HIDE DEF g, a, S
  <2>1. g[0] = a
    BY <1>1, <1>4
  <2>2. ASSUME NEW k \in 1..N, g[k - 1] \in S PROVE g[k] = next[g[k - 1]]
    <3>1. g[k] = UpRound(g[k - 1])
      <4>1. k \in 0..N /\ k # 0
        BY <1>1
      <4> QED BY <1>4, <4>1
    <3> QED BY <2>2, <3>1
  <2> QED BY <2>1, <2>2
<1>6. next \in [S -> S] /\ rank \in [S -> Nat] /\ rank[a] <= N
  <2>1. \A s \in S : s.at \in Nat
    BY DEF Rising
  <2> QED BY <1>1, <1>2, <2>1
<1>7. \A s \in S : next[s] # s => rank[next[s]] < rank[s]
  BY <1>1, <1>2, UpRoundRises
<1>8. g[N] \in S /\ next[g[N]] = g[N]
  <2> HIDE DEF next, rank, S, a, g, N
  <2>1. Settles(g, N, S, next, rank)
    BY Rounds, Zenon
  <2> QED BY <1>1, <1>5, <1>6, <1>7, <2>1 DEF Settles
<1>9. g[N].q \in Seq(Nat) /\ Len(g[N].q) = N
  BY <1>8 DEF Rising
<1>10. Heaped(g[N].q)
  <2>1. UpRound(g[N]) = g[N]
    BY <1>8
  <2> QED BY <1>1, <1>8, <2>1, UpRoundRises, Zenon
<1>11. Up(q, j) = g[N].q
  BY DEF Up
<1> QED BY <1>9, <1>10, <1>11, Zenon

-----------------------------------------------------------------------------
\* A heap up to position n, but for the position the loop is at, which may be
\* too bad for its children.
Sinking(N, n) ==
  {s \in [q : Seq(Nat), at : Nat] :
     /\ Len(s.q) = N /\ s.at \in 1..N
     /\ \A i \in 2..n : i \div 2 # s.at => s.q[i] <= s.q[i \div 2]
     /\ s.at >= 2 => \A i \in 2..n : i \div 2 = s.at => s.q[i] <= s.q[s.at \div 2]}

LEMMA ChildIsBest ==
  ASSUME NEW q \in Seq(Nat), NEW j \in 1..Len(q), NEW n \in 0..Len(q)
  PROVE  \/ Child(q, j, n) = j /\ 2 * j > n
         \/ /\ Child(q, j, n) \in 1..n /\ Child(q, j, n) > j /\ Child(q, j, n) \div 2 = j
            /\ \A i \in 2..n : i \div 2 = j => q[i] <= q[Child(q, j, n)]
<1>1. Len(q) \in Nat /\ \A i \in 1..Len(q) : q[i] \in Nat
  BY LenProperties, ElementOfSeq
<1>2. CASE 2 * j > n
  BY <1>1, <1>2 DEF Child
<1>3. CASE 2 * j = n
  <2>1. Child(q, j, n) = n
    BY <1>1, <1>3 DEF Child
  <2>2. n \in 1..n /\ n > j /\ n \div 2 = j
    BY <1>1, <1>3
  <2>3. ASSUME NEW i \in 2..n, i \div 2 = j PROVE q[i] <= q[n]
    <3>1. i = n /\ q[i] \in Nat
      BY <1>1, <1>3, <2>3
    <3> QED BY <3>1
  <2> QED BY <2>1, <2>2, <2>3
<1>4. CASE 2 * j < n
  <2> DEFINE c == IF Less(q, 2 * j + 1, 2 * j) THEN 2 * j + 1 ELSE 2 * j
  <2>1. Child(q, j, n) = c
    BY <1>1, <1>4 DEF Child
  <2>2. c \in 1..n /\ c > j /\ c \div 2 = j
    BY <1>1, <1>4
  <2>3. q[2 * j] \in Nat /\ q[2 * j + 1] \in Nat
    BY <1>1, <1>4
  <2>4. q[2 * j] <= q[c] /\ q[2 * j + 1] <= q[c]
    <3>1. CASE Less(q, 2 * j + 1, 2 * j)
      <4>1. c = 2 * j + 1 /\ q[2 * j + 1] > q[2 * j]
        BY <3>1 DEF Less
      <4> HIDE DEF c
      <4> QED BY <2>3, <4>1
    <3>2. CASE ~Less(q, 2 * j + 1, 2 * j)
      <4>1. c = 2 * j /\ ~(q[2 * j + 1] > q[2 * j])
        BY <3>2 DEF Less
      <4> HIDE DEF c
      <4> QED BY <2>3, <4>1
    <3> QED BY <3>1, <3>2
  <2>5. ASSUME NEW i \in 2..n, i \div 2 = j PROVE q[i] <= q[c]
    <3>1. i = 2 * j \/ i = 2 * j + 1
      BY <1>1, <2>5
    <3> QED BY <2>4, <3>1
  <2> HIDE DEF c
  <2> QED BY <2>1, <2>2, <2>5
<1> QED BY <1>1, <1>2, <1>3, <1>4

LEMMA DownRoundSinks ==
  ASSUME NEW N \in Nat, NEW n \in 0..N, NEW s \in Sinking(N, n)
  PROVE  /\ DownRound(s, n) \in Sinking(N, n)
         /\ DownRound(s, n) = s => \A i \in 2..n : s.q[i] <= s.q[i \div 2]
         /\ DownRound(s, n) # s => DownRound(s, n).at > s.at
<1> DEFINE q == s.q
           j == s.at
           c == Child(q, j, n)
           w == Swap(q, j, c)
<1>1. /\ q \in Seq(Nat) /\ Len(q) = N /\ j \in 1..N /\ s = [q |-> q, at |-> j]
      /\ \A i \in 2..n : i \div 2 # j => q[i] <= q[i \div 2]
      /\ j >= 2 => \A i \in 2..n : i \div 2 = j => q[i] <= q[j \div 2]
  BY DEF Sinking
<1>2. \A i \in 1..N : q[i] \in Nat
  BY <1>1, ElementOfSeq
<1>3. \/ c = j /\ 2 * j > n
      \/ /\ c \in 1..n /\ c > j /\ c \div 2 = j
         /\ \A i \in 2..n : i \div 2 = j => q[i] <= q[c]
  <2>1. q \in Seq(Nat) /\ j \in 1..Len(q) /\ n \in 0..Len(q)
    BY <1>1
  <2> HIDE DEF q, j
  <2> QED BY <2>1, ChildIsBest
<1>4. CASE c = j \/ ~Less(q, c, j)
  <2>1. DownRound(s, n) = s
    BY <1>4 DEF DownRound
  <2>2. ASSUME NEW i \in 2..n PROVE q[i] <= q[i \div 2]
    <3>1. CASE i \div 2 # j
      BY <1>1, <3>1
    <3>2. CASE i \div 2 = j
      <4> HIDE DEF c, q, j
      <4>1. 2 * j <= n /\ i \in 1..N
        BY <1>1, <3>2
      <4>2. c \in 1..N /\ q[i] <= q[c] /\ c # j
        BY <1>1, <1>3, <3>2, <4>1
      <4>3. q[c] <= q[j] /\ q[c] \in Nat /\ q[j] \in Nat /\ q[i] \in Nat
        BY <1>1, <1>2, <1>4, <4>1, <4>2 DEF Less
      <4> QED BY <3>2, <4>2, <4>3
    <3> QED BY <3>1, <3>2
  <2> QED BY <2>1, <2>2
<1>5. CASE c # j /\ Less(q, c, j)
  <2>1. DownRound(s, n) = [q |-> w, at |-> c]
    BY <1>5 DEF DownRound
  <2>2. /\ c \in 1..n /\ c \in 1..N /\ c > j /\ c \div 2 = j /\ q[c] > q[j] /\ q[c] \in Nat /\ q[j] \in Nat
        /\ \A i \in 2..n : i \div 2 = j => q[i] <= q[c]
    <3> HIDE DEF c, q, j
    <3>1. /\ c \in 1..n /\ c > j /\ c \div 2 = j
          /\ \A i \in 2..n : i \div 2 = j => q[i] <= q[c]
      BY <1>3, <1>5
    <3>2. c \in 1..N /\ j \in 1..N
      BY <1>1, <3>1
    <3>3. q[c] \in Nat /\ q[j] \in Nat
      BY <1>2, <3>2
    <3>4. q[c] > q[j]
      BY <1>5 DEF Less
    <3> QED BY <3>1, <3>2, <3>3, <3>4
  <2>3. w \in Seq(Nat) /\ Len(w) = N /\ \A k \in 1..N : w[k] = IF k = c THEN q[j] ELSE IF k = j THEN q[c] ELSE q[k]
    <3>1. q \in Seq(Nat) /\ j \in 1..Len(q) /\ c \in 1..Len(q)
      BY <1>1, <2>2
    <3> HIDE DEF q, j, c
    <3>2. w \in Seq(Nat) /\ Len(w) = Len(q) /\ \A k \in 1..Len(q) : w[k] = IF k = c THEN q[j] ELSE IF k = j THEN q[c] ELSE q[k]
      BY ONLY <3>1, SwapIs, ZenonT(60)
    <3> QED BY <1>1, <3>2
  <2> HIDE DEF w, q, j, c
  <2>4. ASSUME NEW i \in 2..n, i \div 2 # c PROVE w[i] <= w[i \div 2]
    <3>1. i \in 1..N /\ i \div 2 \in 1..N /\ i \div 2 < i /\ q[i] \in Nat /\ q[i \div 2] \in Nat
      BY <1>2, <1>1
    <3>2. CASE i = j
      <4>1. w[i] = q[c] /\ w[i \div 2] = q[i \div 2] /\ j >= 2 /\ c \in 2..n
        BY <2>2, <2>3, <2>4, <3>1, <3>2
      <4>2. q[c] <= q[j \div 2]
        BY <1>1, <2>2, <4>1
      <4> QED BY <3>2, <4>1, <4>2
    <3>3. CASE i # j /\ i \div 2 = j
      <4>1. w[i \div 2] = q[c] /\ q[i] <= q[c]
        BY <2>2, <2>3, <2>4, <3>1, <3>3
      <4>2. w[i] = q[i] \/ w[i] = q[j]
        BY <2>3, <3>1, <3>3
      <4> QED BY <2>2, <4>1, <4>2
    <3>4. CASE i # j /\ i \div 2 # j
      <4>1. i # c
        BY <2>2, <3>4
      <4>2. w[i] = q[i] /\ w[i \div 2] = q[i \div 2]
        BY <2>3, <2>4, <3>1, <3>4, <4>1
      <4> QED BY <1>1, <3>4, <4>2
    <3> QED BY <3>2, <3>3, <3>4
  <2>5. ASSUME NEW i \in 2..n, i \div 2 = c PROVE w[i] <= w[c \div 2]
    <3>1. i \in 1..N /\ i # c /\ i # j /\ c # j /\ j \in 1..N
      BY <1>1, <2>2, <2>5
    <3>2. w[i] = q[i] /\ w[c \div 2] = q[c]
      BY <2>2, <2>3, <3>1
    <3>3. q[i] <= q[c]
      BY <1>1, <2>5, <3>1
    <3> QED BY <3>2, <3>3
  <2>6. [q |-> w, at |-> c] \in Sinking(N, n)
    <3> DEFINE t == [q |-> w, at |-> c]
    <3>1. t \in [q : Seq(Nat), at : Nat] /\ t.q = w /\ t.at = c
      BY <2>2, <2>3
    <3> HIDE DEF t
    <3>2. t \in Sinking(N, n)
      BY <2>2, <2>3, <2>4, <2>5, <3>1 DEF Sinking
    <3> QED BY <3>2 DEF t
  <2>7. DownRound(s, n).at > s.at /\ DownRound(s, n) # s
    BY <2>1, <2>2 DEF j
  <2> QED BY <2>1, <2>6, <2>7
<1> QED BY <1>4, <1>5

\* What is put in the place of the first job sinks to its place.
LEMMA DownHeaps ==
  ASSUME NEW q \in Seq(Nat), NEW n \in 0..Len(q), [q |-> q, at |-> 1] \in Sinking(Len(q), n)
  PROVE  /\ Down(q, 1, n) \in Seq(Nat) /\ Len(Down(q, 1, n)) = Len(q)
         /\ \A i \in 2..n : Down(q, 1, n)[i] <= Down(q, 1, n)[i \div 2]
<1> DEFINE N == Len(q)
           S == Sinking(N, n)
           a == [q |-> q, at |-> 1]
           step == [k \in 1..N |-> [s \in S |-> DownRound(s, n)]]
           next == [s \in S |-> DownRound(s, n)]
           rank == [s \in S |-> N - s.at]
           Loop(f) == f = [k \in 0..N |-> IF k = 0 THEN a ELSE DownRound(f[k - 1], n)]
           g == CHOOSE f : Loop(f)
<1>1. N \in Nat /\ a \in S /\ 1 \in 1..N
  <2>1. N \in Nat /\ a \in S
    BY LenProperties
  <2>2. a.at \in 1..N
    BY <2>1 DEF Sinking
  <2> QED BY <2>1, <2>2
<1>2. \A s \in S : DownRound(s, n) \in S
  BY <1>1, DownRoundSinks, Zenon
<1>3. \E f : Loop(f)
  <2>1. step \in [1..N -> [S -> S]]
    BY <1>2
  <2>2. PICK f \in [0..N -> S] : f[0] = a /\ \A k \in 1..N : f[k] = step[k][f[k - 1]]
    <3> HIDE DEF step, S, a, N
    <3>1. Recurs(N, S, a, step)
      BY Recursion, Zenon
    <3> QED BY <1>1, <2>1, <3>1 DEF Recurs, Follows
  <2>3. \A k \in 1..N : f[k] = DownRound(f[k - 1], n)
    <3> SUFFICES ASSUME NEW k \in 1..N PROVE f[k] = DownRound(f[k - 1], n)
      OBVIOUS
    <3>1. k - 1 \in 0..N /\ f[k - 1] \in S
      <4> HIDE DEF S, N
      <4>1. k - 1 \in 0..N
        BY <1>1
      <4> QED BY <4>1
    <3> QED BY <2>2, <3>1
  <2>4. f = [k \in 0..N |-> f[k]]
    BY <2>2
  <2>5. \A k \in 0..N : k = 0 \/ k \in 1..N
    BY <1>1
  <2>6. \A k \in 0..N : f[k] = IF k = 0 THEN a ELSE DownRound(f[k - 1], n)
    BY <2>2, <2>3, <2>5
  <2>7. Loop(f)
    BY <2>4, <2>6, Zenon
  <2> QED BY <2>7
<1>4. Loop(g)
  <2> HIDE DEF Loop
  <2> QED BY <1>3
<1>5. g[0] = a /\ \A k \in 1..N : g[k - 1] \in S => g[k] = next[g[k - 1]]
  <2> HIDE DEF g, a, S
  <2>1. g[0] = a
    BY <1>1, <1>4
  <2>2. ASSUME NEW k \in 1..N, g[k - 1] \in S PROVE g[k] = next[g[k - 1]]
    <3>1. g[k] = DownRound(g[k - 1], n)
      <4>1. k \in 0..N /\ k # 0
        BY <1>1
      <4> QED BY <1>4, <4>1
    <3> QED BY <2>2, <3>1
  <2> QED BY <2>1, <2>2
<1>6. next \in [S -> S] /\ rank \in [S -> Nat] /\ rank[a] <= N
  <2>1. \A s \in S : s.at \in 1..N /\ N - s.at \in Nat
    BY <1>1 DEF Sinking
  <2> QED BY <1>1, <1>2, <2>1
<1>7. \A s \in S : next[s] # s => rank[next[s]] < rank[s]
  <2> SUFFICES ASSUME NEW s \in S, DownRound(s, n) # s PROVE N - DownRound(s, n).at < N - s.at
    BY <1>2
  <2>1. DownRound(s, n).at > s.at
    BY <1>1, DownRoundSinks
  <2>2. s.at \in 1..N /\ DownRound(s, n).at \in 1..N
    BY <1>2 DEF Sinking
  <2> QED BY <1>1, <2>1, <2>2
<1>8. g[N] \in S /\ next[g[N]] = g[N]
  <2> HIDE DEF next, rank, S, a, g, N
  <2>1. Settles(g, N, S, next, rank)
    BY Rounds, Zenon
  <2> QED BY <1>1, <1>5, <1>6, <1>7, <2>1 DEF Settles
<1>9. g[N].q \in Seq(Nat) /\ Len(g[N].q) = N
  BY <1>8 DEF Sinking
<1>10. \A i \in 2..n : g[N].q[i] <= g[N].q[i \div 2]
  <2>1. DownRound(g[N], n) = g[N]
    BY <1>8
  <2> HIDE DEF g
  <2> QED BY <1>1, <1>8, <2>1, DownRoundSinks
<1>11. Down(q, 1, n) = g[N].q
  BY DEF Down
<1> HIDE DEF g
<1> QED BY <1>9, <1>10, <1>11, Zenon

-----------------------------------------------------------------------------
\* The queues that were created are heaps, and those that are looked up exist.
HeapsInv ==
  /\ named \in 0..Len(heaps)
  /\ held \in [Holders -> 0..Len(heaps)]
  /\ heaps \in Seq(Seq(Nat))
  /\ \A h \in 1..Len(heaps) : Heaped(heaps[h])

LEMMA PushHeaps ==
  ASSUME NEW q \in Seq(Nat), Heaped(q), NEW rank \in Nat
  PROVE  HeapPush(q, rank) \in Seq(Nat) /\ Heaped(HeapPush(q, rank))
<1> DEFINE p == Append(q, rank)
           L == Len(q)
<1>1. L \in Nat /\ p \in Seq(Nat) /\ Len(p) = L + 1 /\ \A k \in 1..L : p[k] = q[k]
  BY LenProperties, AppendProperties
<1>2. \A i \in 2..(L + 1) : i # L + 1 => p[i] <= p[i \div 2]
  <2> SUFFICES ASSUME NEW i \in 2..(L + 1), i # L + 1 PROVE p[i] <= p[i \div 2]
    OBVIOUS
  <2>1. i \in 1..L /\ i \div 2 \in 1..L /\ i \in 2..L
    BY <1>1
  <2>2. q[i] <= q[i \div 2]
    BY <2>1 DEF Heaped
  <2> HIDE DEF p
  <2> QED BY <1>1, <2>1, <2>2
<1>3. [q |-> p, at |-> L + 1] \in Rising(Len(p))
  <2> HIDE DEF p, L
  <2> DEFINE t == [q |-> p, at |-> L + 1]
  <2>1. t \in [q : Seq(Nat), at : Nat] /\ t.q = p /\ t.at = L + 1
    BY <1>1
  <2>2. \A i \in 2..(L + 1) : i \div 2 # L + 1
    BY <1>1
  <2> HIDE DEF t
  <2>3. \A i \in 2..Len(p) : i # t.at => t.q[i] <= t.q[i \div 2]
    BY <1>1, <1>2, <2>1
  <2>4. Len(t.q) = Len(p) /\ t.at \in 1..Len(p)
    BY <1>1, <2>1
  <2>5. \A i \in 2..Len(p) : i \div 2 # t.at
    BY <1>1, <2>1, <2>2
  <2>6. t \in Rising(Len(p))
    BY <2>1, <2>3, <2>4, <2>5, Zenon DEF Rising
  <2> QED BY <2>6 DEF t
<1>4. Up(p, L + 1) \in Seq(Nat) /\ Heaped(Up(p, L + 1))
  <2> HIDE DEF p, L
  <2>1. L + 1 \in 1..Len(p)
    BY <1>1
  <2> QED BY <1>1, <1>3, <2>1, UpHeaps
<1> QED BY <1>4 DEF HeapPush

LEMMA PopHeaps ==
  ASSUME NEW q \in Seq(Nat), q # <<>>, Heaped(q)
  PROVE  HeapPop(q) \in Seq(Nat) /\ Heaped(HeapPop(q))
<1> DEFINE L == Len(q)
           p == Swap(q, 1, L)
           d == Down(p, 1, L - 1)
<1>1. L \in Nat /\ L > 0 /\ 1 \in 1..L /\ L \in 1..L
  BY LenProperties, EmptySeq
<1>2. p \in Seq(Nat) /\ Len(p) = L /\ \A k \in 2..(L - 1) : p[k] = q[k]
  <2>1. q \in Seq(Nat) /\ 1 \in 1..Len(q) /\ Len(q) \in 1..Len(q)
    BY <1>1
  <2>2. p \in Seq(Nat) /\ Len(p) = L /\ \A k \in 1..L : p[k] = IF k = L THEN q[1] ELSE IF k = 1 THEN q[L] ELSE q[k]
    <3>1. PICK a, b \in 1..Len(q) : a = 1 /\ b = Len(q)
      BY <2>1
    <3>2. /\ Swap(q, a, b) \in Seq(Nat) /\ Len(Swap(q, a, b)) = Len(q)
          /\ \A k \in 1..Len(q) : Swap(q, a, b)[k] = IF k = b THEN q[a] ELSE IF k = a THEN q[b] ELSE q[k]
      <4>1. q \in Seq(Nat) /\ a \in 1..Len(q) /\ b \in 1..Len(q)
        OBVIOUS
      <4> QED BY ONLY <4>1, SwapIs, ZenonT(60)
    <3>3. p = Swap(q, a, b)
      BY <3>1
    <3> HIDE DEF p
    <3> QED BY <3>1, <3>2, <3>3
  <2> HIDE DEF p, L
  <2> QED BY <1>1, <2>2
<1>3. [q |-> p, at |-> 1] \in Sinking(L, L - 1)
  <2> DEFINE t == [q |-> p, at |-> 1]
  <2>1. \A i \in 2..(L - 1) : i \div 2 # 1 => p[i] <= p[i \div 2]
    <3> SUFFICES ASSUME NEW i \in 2..(L - 1), i \div 2 # 1 PROVE p[i] <= p[i \div 2]
      OBVIOUS
    <3> HIDE DEF p
    <3>1. i \div 2 \in 2..(L - 1) /\ i \in 2..L
      BY <1>1
    <3>2. q[i] <= q[i \div 2]
      BY <3>1 DEF Heaped
    <3> QED BY <1>2, <3>1, <3>2
  <2> HIDE DEF p, L
  <2>2. t \in [q : Seq(Nat), at : Nat] /\ t.q = p /\ t.at = 1
    BY <1>2
  <2> HIDE DEF t
  <2>3. \A i \in 2..(L - 1) : i \div 2 # t.at => t.q[i] <= t.q[i \div 2]
    BY <2>1, <2>2
  <2>4. Len(t.q) = L /\ t.at \in 1..L /\ ~(t.at >= 2)
    BY <1>1, <1>2, <2>2
  <2>5. t \in Sinking(L, L - 1)
    BY <2>2, <2>3, <2>4, Zenon DEF Sinking
  <2> QED BY <2>5 DEF t
<1>4. d \in Seq(Nat) /\ Len(d) = L /\ \A i \in 2..(L - 1) : d[i] <= d[i \div 2]
  <2> HIDE DEF p, L
  <2>1. L - 1 \in 0..Len(p) /\ Len(p) = L
    BY <1>1, <1>2
  <2> QED BY <1>2, <1>3, <2>1, DownHeaps
<1>5. HeapPop(q) = SubSeq(d, 1, L - 1)
  BY <1>4 DEF HeapPop, Front
<1>6. /\ SubSeq(d, 1, L - 1) \in Seq(Nat) /\ Len(SubSeq(d, 1, L - 1)) = L - 1
      /\ \A k \in 1..(L - 1) : SubSeq(d, 1, L - 1)[k] = d[k]
  <2> HIDE DEF d, L
  <2>1. 1 \in 1..(Len(d) + 1) /\ L - 1 \in (1 - 1)..Len(d) /\ d \in Seq(Nat)
    BY <1>1, <1>4
  <2>2. SubSeq(d, 1, L - 1) \in Seq(Nat) /\ Len(SubSeq(d, 1, L - 1)) = L - 1
    BY <1>1, <1>4, <2>1
  <2>3. \A k \in 1..(L - 1) : SubSeq(d, 1, L - 1)[k] = d[k]
    BY <1>1, <1>4, <2>1
  <2> QED BY <2>2, <2>3
<1>7. Heaped(SubSeq(d, 1, L - 1))
  <2> HIDE DEF d, L
  <2> DEFINE r == SubSeq(d, 1, L - 1)
  <2>1. \A i \in 2..(L - 1) : i \in 1..(L - 1) /\ i \div 2 \in 1..(L - 1)
    BY <1>1
  <2> HIDE DEF r
  <2>2. \A i \in 2..(L - 1) : r[i] <= r[i \div 2]
    BY <1>4, <1>6, <2>1 DEF r
  <2> QED BY <1>6, <2>2 DEF Heaped, r
<1> QED BY <1>5, <1>6, <1>7

LEMMA HeapsInitially == NoQueue => HeapsInv
<1> SUFFICES ASSUME NoQueue PROVE HeapsInv
  OBVIOUS
<1>1. heaps = <<>> /\ heaps \in Seq(Seq(Nat)) /\ Len(heaps) = 0
  BY DEF NoQueue
<1> QED BY <1>1 DEF NoQueue, HeapsInv

\* A job put into a queue, taken out of it, or all of them: one of the queues
\* changes, to another heap.
LEMMA OneHeapChanges ==
  ASSUME HeapsInv, NEW h \in 1..Len(heaps), NEW q \in Seq(Nat), Heaped(q),
         heaps' = [heaps EXCEPT ![h] = q], UNCHANGED <<named, held>>
  PROVE  HeapsInv'
<1>1. heaps' \in Seq(Seq(Nat)) /\ Len(heaps') = Len(heaps) /\ \A i \in 1..Len(heaps) : heaps'[i] = IF i = h THEN q ELSE heaps[i]
  BY ExceptSeq DEF HeapsInv
<1>2. \A i \in 1..Len(heaps) : Heaped(heaps'[i])
  BY <1>1 DEF HeapsInv
<1> QED BY <1>1, <1>2 DEF HeapsInv

LEMMA HeapsStep ==
  ASSUME JobQueueParameters, HeapsInv, [HeapNext]_heapVars
  PROVE  HeapsInv'
<1>1. Len(heaps) \in Nat /\ \A h \in 1..Len(heaps) : heaps[h] \in Seq(Nat) /\ Heaped(heaps[h])
  BY LenProperties, ElementOfSeq DEF HeapsInv
<1>2. CASE UNCHANGED heapVars
  BY <1>2 DEF heapVars, HeapsInv
<1>3. CASE CreateQueue
  <2>1. heaps' = Append(heaps, <<>>) /\ named' = Len(heaps) + 1 /\ held' = held
    BY <1>3 DEF CreateQueue
  <2>2. <<>> \in Seq(Nat) /\ Heaped(<<>>)
    BY DEF Heaped
  <2>3. /\ heaps' \in Seq(Seq(Nat)) /\ Len(heaps') = Len(heaps) + 1
        /\ \A i \in 1..Len(heaps) : heaps'[i] = heaps[i]
        /\ heaps'[Len(heaps) + 1] = <<>>
    BY <2>1, <2>2, AppendProperties DEF HeapsInv
  <2>4. \A i \in 1..Len(heaps') : Heaped(heaps'[i])
    <3> SUFFICES ASSUME NEW i \in 1..Len(heaps') PROVE Heaped(heaps'[i])
      OBVIOUS
    <3>1. CASE i \in 1..Len(heaps)
      BY <1>1, <2>3, <3>1
    <3>2. CASE i = Len(heaps) + 1
      <4>1. heaps'[i] = <<>>
        BY <2>3, <3>2
      <4> QED BY <2>2, <4>1
    <3> QED BY <1>1, <2>3, <3>1, <3>2
  <2>5. held' \in [Holders -> 0..Len(heaps')]
    BY <1>1, <2>1, <2>3 DEF HeapsInv
  <2> QED BY <1>1, <2>1, <2>3, <2>4, <2>5 DEF HeapsInv
<1>4. CASE DeleteQueue
  BY <1>1, <1>4 DEF DeleteQueue, HeapsInv
<1>5. ASSUME NEW c \in Holders, GetQueue(c) PROVE HeapsInv'
  BY <1>5 DEF GetQueue, HeapsInv
<1>6. ASSUME NEW c \in Holders, held[c] # 0 PROVE held[c] \in 1..Len(heaps)
  BY <1>1, <1>6 DEF HeapsInv
<1>7. ASSUME NEW c \in Holders, NEW rank \in Ranks, Enqueue(c, rank) PROVE HeapsInv'
  <2> DEFINE h == held[c]
  <2>1. h \in 1..Len(heaps) /\ rank \in Nat
    BY <1>6, <1>7 DEF Enqueue, JobQueueParameters
  <2>2. heaps' = [heaps EXCEPT ![h] = HeapPush(heaps[h], rank)] /\ UNCHANGED <<named, held>>
    BY <1>7 DEF Enqueue
  <2> HIDE DEF h
  <2>3. HeapPush(heaps[h], rank) \in Seq(Nat) /\ Heaped(HeapPush(heaps[h], rank))
    BY <1>1, <2>1, PushHeaps
  <2> QED BY <2>1, <2>2, <2>3, OneHeapChanges
<1>8. ASSUME NEW c \in Holders, Dequeue(c) PROVE HeapsInv'
  <2> DEFINE h == held[c]
  <2>1. h \in 1..Len(heaps) /\ heaps[h] # <<>>
    BY <1>6, <1>8 DEF Dequeue
  <2>2. heaps' = [heaps EXCEPT ![h] = HeapPop(heaps[h])] /\ UNCHANGED <<named, held>>
    BY <1>8 DEF Dequeue
  <2> HIDE DEF h
  <2>3. HeapPop(heaps[h]) \in Seq(Nat) /\ Heaped(HeapPop(heaps[h]))
    BY <1>1, <2>1, PopHeaps
  <2> QED BY <2>1, <2>2, <2>3, OneHeapChanges
<1>9. ASSUME NEW c \in Holders, Clear(c) PROVE HeapsInv'
  <2>1. held[c] \in 1..Len(heaps)
    BY <1>6, <1>9 DEF Clear
  <2>2. heaps' = [heaps EXCEPT ![held[c]] = <<>>] /\ UNCHANGED <<named, held>>
    BY <1>9 DEF Clear
  <2>3. <<>> \in Seq(Nat) /\ Heaped(<<>>)
    BY DEF Heaped
  <2> QED BY <2>1, <2>2, <2>3, OneHeapChanges
<1> QED BY <1>2, <1>3, <1>4, <1>5, <1>7, <1>8, <1>9 DEF HeapNext

LEMMA HeapsGiveTheBest ==
  ASSUME HeapsInv
  PROVE  BestIsFirst
<1> SUFFICES ASSUME NEW h \in DOMAIN heaps, NEW i \in DOMAIN heaps[h]
             PROVE  heaps[h][i] <= heaps[h][1]
  BY DEF BestIsFirst
<1>1. h \in 1..Len(heaps) /\ heaps[h] \in Seq(Nat)
  BY LenProperties, ElementOfSeq DEF HeapsInv
<1>2. Heaped(heaps[h])
  BY <1>1 DEF HeapsInv
<1> QED BY <1>1, <1>2, FirstIsBest

-----------------------------------------------------------------------------
(* Consumers that wait.                                                    *)

WaitInv ==
  /\ waiting \in Seq(1..MaxPushed)
  /\ consumer \in [Consumers -> {"idle", "asleep", "awake"}]
  /\ asker \in [Consumers -> {"none", "there", "gone"}]
  /\ NobodySleepsOnWork

LEMMA AwakeAndAsleep ==
  ASSUME JobQueueParameters, consumer \in [Consumers -> {"idle", "asleep", "awake"}], NEW c \in Consumers,
         NEW s \in {"idle", "asleep", "awake"}, consumer' = [consumer EXCEPT ![c] = s]
  PROVE  /\ In("awake")' = IF s = "awake" THEN In("awake") \cup {c} ELSE In("awake") \ {c}
         /\ IsFiniteSet(In("awake")) /\ Cardinality(In("awake")) \in Nat
         /\ Cardinality(In("awake")') \in Nat /\ Cardinality(In("awake")') >= Cardinality(In("awake")) - 1
         /\ c \notin In("awake") /\ s = "awake" => Cardinality(In("awake")') = Cardinality(In("awake")) + 1
<1>1. \A d \in Consumers : consumer'[d] = IF d = c THEN s ELSE consumer[d]
  OBVIOUS
<1>2. In("awake")' = IF s = "awake" THEN In("awake") \cup {c} ELSE In("awake") \ {c}
  <2>1. In("awake")' = {d \in Consumers : consumer'[d] = "awake"}
    BY DEF In
  <2> QED BY <1>1, <2>1 DEF In
<1>3. IsFiniteSet(In("awake"))
  <2>1. In("awake") \subseteq Consumers /\ IsFiniteSet(Consumers)
    BY DEF In, JobQueueParameters
  <2> QED BY <2>1, FS_Subset
<1>4. Cardinality(In("awake")) \in Nat
  BY <1>3, FS_CardinalityType
<1>5. CASE s = "awake"
  <2>1. Cardinality(In("awake") \cup {c}) = IF c \in In("awake") THEN Cardinality(In("awake")) ELSE Cardinality(In("awake")) + 1
    BY <1>3, FS_AddElement
  <2>2. In("awake")' = In("awake") \cup {c}
    BY <1>2, <1>5
  <2>3. Cardinality(In("awake")') = IF c \in In("awake") THEN Cardinality(In("awake")) ELSE Cardinality(In("awake")) + 1
    BY <2>1, <2>2
  <2> HIDE DEF JobQueueParameters
  <2>4. /\ Cardinality(In("awake")') \in Nat /\ Cardinality(In("awake")') >= Cardinality(In("awake")) - 1
        /\ c \notin In("awake") => Cardinality(In("awake")') = Cardinality(In("awake")) + 1
    BY <1>4, <2>3
  <2> QED BY <1>2, <1>3, <1>4, <2>4, Zenon
<1>6. CASE s # "awake"
  <2>1. Cardinality(In("awake") \ {c}) = IF c \in In("awake") THEN Cardinality(In("awake")) - 1 ELSE Cardinality(In("awake"))
    BY <1>3, FS_RemoveElement
  <2>2. c \in In("awake") => Cardinality(In("awake")) > 0
    BY <1>3, <1>4, FS_EmptySet
  <2>3. In("awake")' = In("awake") \ {c}
    BY <1>2, <1>6
  <2>4. Cardinality(In("awake")') = IF c \in In("awake") THEN Cardinality(In("awake")) - 1 ELSE Cardinality(In("awake"))
    BY <2>1, <2>3
  <2>5. Cardinality(In("awake")') \in Nat /\ Cardinality(In("awake")') >= Cardinality(In("awake")) - 1
    BY <1>4, <2>2, <2>4
  <2> QED BY <1>2, <1>3, <1>4, <1>6, <2>5, Zenon
<1> QED BY <1>5, <1>6

LEMMA NobodySleepsStep ==
  ASSUME JobQueueParameters, WaitInv, [WaitNext]_waitVars
  PROVE  WaitInv'
<1> USE DEF WaitInv
<1>1. Len(waiting) \in Nat
  BY LenProperties
<1>2. CASE UNCHANGED waitVars
  <2>1. waiting' = waiting /\ consumer' = consumer /\ asker' = asker
    BY <1>2 DEF waitVars
  <2>2. NobodySleepsOnWork'
    BY <2>1 DEF NobodySleepsOnWork, In
  <2> QED BY <2>1, <2>2
<1>3. ASSUME NEW job \in 1..MaxPushed, Put(job) PROVE WaitInv'
  <2>1. waiting' = Append(waiting, job) /\ waiting' \in Seq(1..MaxPushed) /\ Len(waiting') = Len(waiting) + 1 /\ asker' = asker
    BY <1>3, AppendProperties DEF Put
  <2>2. CASE In("asleep") = {}
    <3>1. consumer' = consumer
      BY <1>3, <2>2 DEF Put, Signal
    <3>2. In("asleep")' = {}
      BY <2>2, <3>1 DEF In
    <3> QED BY <2>1, <3>1, <3>2 DEF NobodySleepsOnWork
  <2>3. CASE In("asleep") # {}
    <3>1. PICK c \in In("asleep") : consumer' = [consumer EXCEPT ![c] = "awake"]
      BY <1>3, <2>3 DEF Put, Signal
    <3>2. c \in Consumers /\ c \notin In("awake")
      BY <3>1 DEF In
    <3>3. consumer' \in [Consumers -> {"idle", "asleep", "awake"}]
      BY <3>1
    <3>4. Cardinality(In("awake")') = Cardinality(In("awake")) + 1 /\ Cardinality(In("awake")) \in Nat
      BY <3>1, <3>2, AwakeAndAsleep
    <3>5. Cardinality(In("awake")') >= Len(waiting')
      BY <1>1, <2>1, <2>3, <3>4 DEF NobodySleepsOnWork
    <3>6. NobodySleepsOnWork'
      BY <3>5 DEF NobodySleepsOnWork
    <3> QED BY <2>1, <3>3, <3>6
  <2> QED BY <2>2, <2>3
<1>4. ASSUME NEW c \in Consumers, Take(c) PROVE WaitInv'
  <2>1. CASE waiting = <<>>
    <3>1. consumer' = [consumer EXCEPT ![c] = "asleep"] /\ waiting' = waiting /\ asker' = asker
      BY <1>4, <2>1 DEF Take
    <3>2. Cardinality(In("awake")') \in Nat /\ Len(waiting') = 0
      BY <2>1, <3>1, AwakeAndAsleep
    <3>3. NobodySleepsOnWork'
      BY <3>2 DEF NobodySleepsOnWork
    <3> QED BY <3>1, <3>3
  <2>2. CASE waiting # <<>>
    <3>1. /\ consumer' = [consumer EXCEPT ![c] = "idle"] /\ waiting' = Tail(waiting) /\ c \notin In("asleep")
          /\ asker' = [asker EXCEPT ![c] = "none"]
      BY <1>4, <2>2 DEF Take, In
    <3>2. waiting' \in Seq(1..MaxPushed) /\ Len(waiting') = Len(waiting) - 1
      BY <2>2, <3>1, HeadTailProperties
    <3>3. /\ Cardinality(In("awake")) \in Nat /\ Cardinality(In("awake")') \in Nat
          /\ Cardinality(In("awake")') >= Cardinality(In("awake")) - 1
      BY <3>1, AwakeAndAsleep
    <3>4. In("asleep")' \subseteq In("asleep")
      BY <3>1 DEF In
    <3>5. In("asleep")' # {} => Cardinality(In("awake")') >= Len(waiting')
      <4>1. In("asleep")' # {} => Cardinality(In("awake")) >= Len(waiting)
        BY <3>4 DEF NobodySleepsOnWork
      <4> HIDE DEF WaitInv
      <4> QED BY <1>1, <3>2, <3>3, <4>1
    <3>6. NobodySleepsOnWork'
      BY <3>5 DEF NobodySleepsOnWork
    <3>7. consumer' \in [Consumers -> {"idle", "asleep", "awake"}] /\ asker' \in [Consumers -> {"none", "there", "gone"}]
      BY <3>1
    <3> QED BY <3>2, <3>6, <3>7
  <2> QED BY <2>1, <2>2
<1>5. ASSUME NEW c \in Consumers, Call(c) \/ Timeout(c) PROVE WaitInv'
  <2>1. waiting' = waiting /\ consumer' = consumer /\ asker' \in [Consumers -> {"none", "there", "gone"}]
    BY <1>5 DEF Call, Timeout
  <2>2. NobodySleepsOnWork'
    BY <2>1 DEF NobodySleepsOnWork, In
  <2> QED BY <2>1, <2>2
<1> QED BY <1>2, <1>3, <1>4, <1>5 DEF WaitNext

LEMMA NobodySleepsInit ==
  ASSUME JobQueueParameters, NothingWaits
  PROVE  WaitInv
<1>1. In("asleep") = {}
  BY DEF NothingWaits, In
<1> QED BY <1>1 DEF NothingWaits, WaitInv, NobodySleepsOnWork

-----------------------------------------------------------------------------
\* The place i before t on the ring.
Behind(t, i) == IF t >= i THEN t - i ELSE t - i + Capacity

RingInv ==
  /\ pushed \in Seq(Nat)
  /\ ring.items \in [0..(Capacity - 1) -> Nat]
  /\ ring.tail \in 0..(Capacity - 1)
  /\ ring.size = IF Len(pushed) < Capacity THEN Len(pushed) ELSE Capacity
  /\ \A i \in 1..ring.size : ring.items[Behind(ring.tail, i)] = pushed[Len(pushed) - i + 1]

LEMMA ModIs ==
  ASSUME JobQueueParameters, NEW x \in 0..(2 * Capacity - 1)
  PROVE  x % Capacity = IF x < Capacity THEN x ELSE x - Capacity
<1>1. Capacity \in Nat /\ Capacity > 0 /\ x \in Nat
  BY DEF JobQueueParameters
<1> HIDE DEF JobQueueParameters
<1> QED BY <1>1

LEMMA RingInit ==
  ASSUME JobQueueParameters, EmptyRing
  PROVE  RingInv
<1>1. Capacity \in Nat /\ Capacity > 0
  BY DEF JobQueueParameters
<1>2. pushed = <<>> /\ ring.items = [i \in 0..(Capacity - 1) |-> 0] /\ ring.tail = 0 /\ ring.size = 0
  BY DEF EmptyRing
<1> QED BY <1>1, <1>2 DEF RingInv

LEMMA RingStep ==
  ASSUME JobQueueParameters, RingInv, [RingNext]_ringVars
  PROVE  RingInv'
<1>1. Capacity \in Nat /\ Capacity > 0 /\ Len(pushed) \in Nat
  BY LenProperties DEF JobQueueParameters, RingInv
<1>2. CASE UNCHANGED ringVars
  BY <1>2 DEF ringVars, RingInv, Behind
<1>3. CASE ClearRing
  <2>1. pushed' = <<>> /\ ring'.items = [i \in 0..(Capacity - 1) |-> 0] /\ ring'.tail = 0 /\ ring'.size = 0
    BY <1>3 DEF ClearRing
  <2> QED BY <1>1, <2>1 DEF RingInv
<1>4. CASE Push
  <2> DEFINE L == Len(pushed)
             t == ring.tail
  <2>1. /\ pushed' = Append(pushed, L + 1)
        /\ ring'.items = [ring.items EXCEPT ![t] = L + 1]
        /\ ring'.tail = (t + 1) % Capacity
        /\ ring'.size = IF ring.size < Capacity THEN ring.size + 1 ELSE ring.size
    BY <1>4 DEF Push
  <2>2. pushed' \in Seq(Nat) /\ Len(pushed') = L + 1 /\ \A k \in 1..(L + 1) : pushed'[k] = IF k <= L THEN pushed[k] ELSE L + 1
    BY <1>1, <2>1 DEF RingInv
  <2>3. t \in 0..(Capacity - 1) /\ ring'.tail = IF t + 1 < Capacity THEN t + 1 ELSE 0
    <3>1. t \in 0..(Capacity - 1) /\ t + 1 \in 0..(2 * Capacity - 1)
      BY <1>1 DEF RingInv
    <3> HIDE DEF t
    <3> QED BY <1>1, <2>1, <3>1, ModIs
  <2>4. ring'.size = IF L + 1 < Capacity THEN L + 1 ELSE Capacity
    BY <1>1, <2>1 DEF RingInv
  <2>5. ring'.items \in [0..(Capacity - 1) -> Nat] /\ \A p \in 0..(Capacity - 1) : ring'.items[p] = IF p = t THEN L + 1 ELSE ring.items[p]
    <3>1. ring.items \in [0..(Capacity - 1) -> Nat] /\ L + 1 \in Nat
      BY <1>1 DEF RingInv
    <3>2. ring'.items = [ring.items EXCEPT ![t] = L + 1]
      BY <2>1
    <3> HIDE DEF L, t
    <3> QED BY ONLY <3>1, <3>2
  <2>6. ring.size = IF L < Capacity THEN L ELSE Capacity
    BY DEF RingInv
  <2>7. \A i \in 1..ring.size : ring.items[Behind(t, i)] = pushed[L - i + 1]
    BY DEF RingInv
  <2> HIDE DEF t, L
  <2>8. L \in Nat
    BY <1>1 DEF L
  <2>9. ASSUME NEW i \in 1..ring'.size PROVE ring'.items[Behind(ring'.tail, i)] = pushed'[Len(pushed') - i + 1]
    <3>1. i \in 1..Capacity /\ i <= L + 1
      BY <1>1, <2>4, <2>8
    <3>2. CASE i = 1
      <4>1. Behind(ring'.tail, i) = t
        BY <1>1, <2>3, <3>2 DEF Behind
      <4>2. ring'.items[t] = L + 1 /\ pushed'[L + 1] = L + 1 /\ (L + 1) - 1 + 1 = L + 1
        BY <2>2, <2>3, <2>5, <2>8
      <4> QED BY <2>2, <3>2, <4>1, <4>2
    <3>3. CASE i > 1
      <4>1. i - 1 \in 1..ring.size
        BY <1>1, <2>6, <2>8, <3>1, <3>3
      <4>2. Behind(ring'.tail, i) = Behind(t, i - 1)
        BY <1>1, <2>3, <3>1, <3>3 DEF Behind
      <4>3. Behind(t, i - 1) # t /\ Behind(t, i - 1) \in 0..(Capacity - 1)
        BY <1>1, <2>3, <3>1, <3>3 DEF Behind
      <4>4. ring'.items[Behind(t, i - 1)] = pushed[L - (i - 1) + 1]
        BY <2>5, <2>7, <4>1, <4>3
      <4>5. L - (i - 1) + 1 \in 1..L /\ (L + 1) - i + 1 = L - (i - 1) + 1
        BY <2>8, <3>1, <3>3
      <4>6. pushed'[Len(pushed') - i + 1] = pushed[L - (i - 1) + 1]
        BY <2>2, <2>8, <4>5
      <4> QED BY <4>2, <4>4, <4>6
    <3> QED BY <3>1, <3>2, <3>3
  <2> QED BY <2>2, <2>3, <2>4, <2>5, <2>9, <1>1, <2>8 DEF RingInv
<1> QED BY <1>2, <1>3, <1>4 DEF RingNext

LEMMA NewestAreRecent ==
  ASSUME JobQueueParameters, RingInv
  PROVE  RecentIsNewest
<1> SUFFICES ASSUME NEW n \in 0..(Capacity + 1)
             PROVE  LET k == IF n <= Len(pushed) THEN n ELSE Len(pushed)
                        m == IF k <= Capacity THEN k ELSE Capacity
                    IN GetRecent(n) = Reverse(SubSeq(pushed, Len(pushed) - m + 1, Len(pushed)))
  BY DEF RecentIsNewest
<1> DEFINE L == Len(pushed)
           k == IF n <= L THEN n ELSE L
           m == IF k <= Capacity THEN k ELSE Capacity
           newest == SubSeq(pushed, L - m + 1, L)
<1>1. Capacity \in Nat /\ Capacity > 0 /\ L \in Nat /\ n \in Nat
  BY LenProperties DEF JobQueueParameters, RingInv
<1>2. m \in 0..L /\ m = IF n > ring.size THEN ring.size ELSE n
  BY <1>1 DEF RingInv
<1>3. Len(newest) = m /\ \A i \in 1..m : newest[i] = pushed[L - m + i]
  <2>1. pushed \in Seq(Nat) /\ m \in Nat /\ m <= L
    BY <1>1, <1>2 DEF RingInv
  <2> HIDE DEF m
  <2>2. Len(newest) = m
    BY <1>1, <2>1
  <2>3. ASSUME NEW i \in 1..m PROVE newest[i] = pushed[L - m + i]
    <3>1. newest[i] = pushed[(L - m + 1) + i - 1]
      <4>1. pushed \in Seq(Nat) /\ L - m + 1 \in 1..(L + 1) /\ L \in (L - m + 1 - 1)..L
        BY <1>1, <2>1
      <4>2. i \in 1..(L - (L - m + 1) + 1)
        BY <1>1, <2>1
      <4> QED BY SMTT(30), <1>1, <4>1, <4>2
    <3>2. (L - m + 1) + i - 1 = L - m + i
      BY <1>1, <2>1
    <3> QED BY <3>1, <3>2
  <2> QED BY <2>2, <2>3
<1>4. Reverse(newest) = [i \in 1..m |-> newest[(m - i) + 1]]
  <2> HIDE DEF m, newest
  <2> QED BY <1>3 DEF Reverse
<1>5. GetRecent(n) = [i \in 1..m |-> ring.items[(ring.tail - i + Capacity) % Capacity]]
  BY <1>2 DEF GetRecent
<1>6. ASSUME NEW i \in 1..m PROVE ring.items[(ring.tail - i + Capacity) % Capacity] = newest[(m - i) + 1]
  <2>1. i \in 1..ring.size /\ ring.size <= Capacity /\ ring.tail \in 0..(Capacity - 1) /\ i \in Nat /\ m \in Nat /\ i <= m
    BY <1>1, <1>2 DEF RingInv
  <2> HIDE DEF m, newest
  <2>2. (ring.tail - i + Capacity) % Capacity = Behind(ring.tail, i)
    <3> DEFINE t == ring.tail
               x == t - i + Capacity
    <3>1. i \in 1..Capacity /\ t \in 0..(Capacity - 1)
      <4>1. ring.size \in Nat
        BY <1>1 DEF RingInv
      <4> QED BY <1>1, <2>1, <4>1
    <3> HIDE DEF t
    <3>2. x \in 0..(2 * Capacity - 1) /\ x - Capacity = t - i /\ (x < Capacity <=> t < i)
      BY <1>1, <3>1
    <3> HIDE DEF x
    <3>3. x % Capacity = IF x < Capacity THEN x ELSE x - Capacity
      BY <3>2, ModIs
    <3>4. x % Capacity = Behind(t, i)
      BY <1>1, <3>1, <3>2, <3>3 DEF Behind, x
    <3> QED BY <3>4 DEF x, t
  <2>3. ring.items[Behind(ring.tail, i)] = pushed[L - i + 1]
    BY <2>1 DEF RingInv
  <2>4. m - i + 1 \in 1..m /\ L - m + (m - i + 1) = L - i + 1
    BY <1>1, <2>1
  <2>5. newest[m - i + 1] = pushed[L - i + 1]
    BY <1>3, <2>4
  <2> QED BY <2>2, <2>3, <2>5
<1> HIDE DEF m, newest
<1>7. GetRecent(n) = Reverse(newest)
  BY <1>4, <1>5, <1>6
<1> QED BY <1>7 DEF m, newest

-----------------------------------------------------------------------------
\* A dequeue takes a job of the highest priority, the buffer gives the newest
\* jobs, and no consumer sleeps while a job is left over for it: for any number
\* of queues, jobs and consumers, and any capacity (PriorityQueue,
\* WaitingQueue, CircularBuffer).
THEOREM QueuesKeepServing == QueuesSpec => []QueuesServe
<1> USE JobQueueParameters
<1>1. QueuesSpec => [](HeapsInv /\ WaitInv /\ RingInv)
  <2>1. NoQueue /\ NothingWaits /\ EmptyRing => HeapsInv /\ WaitInv /\ RingInv
    BY HeapsInitially, NobodySleepsInit, RingInit
  <2>2. HeapsInv /\ WaitInv /\ RingInv /\ [HeapNext]_heapVars /\ [WaitNext]_waitVars /\ [RingNext]_ringVars
        => (HeapsInv /\ WaitInv /\ RingInv)'
    BY HeapsStep, NobodySleepsStep, RingStep
  <2> QED BY <2>1, <2>2, PTL DEF QueuesSpec
<1>2. HeapsInv /\ WaitInv /\ RingInv => QueuesServe
  BY HeapsGiveTheBest, NewestAreRecent DEF QueuesServe, WaitInv
<1> QED BY <1>1, <1>2, PTL

-----------------------------------------------------------------------------
(* Chains of models and compositions of their answers.                     *)

Texts == Seq(Int)
StepResults == [status : {"ok", "failed", "skipped"}, input : Texts, output : Texts]

ChainTypeOK ==
  /\ steps \in Seq(ChainStep)
  /\ chain \in [status : {"none", "runs", "aborted", "done"}, todo : Seq(ChainStep), input : Texts,
                results : Seq(StepResults), output : Texts]

\* The work of the steps that succeeded so far is in the input of the next
\* one, unless a template has lost it; so it is in the output of the last one
\* that succeeded, and it was in the input of every step.
WorkGoesOn ==
  /\ \A k \in 1..Len(chain.results) : chain.results[k].status # "ok" => chain.results[k].output = <<>>
  /\ ~TemplateLoses(Len(chain.results)) => HasWorkOf(chain.input, Successes(Len(chain.results)))
  /\ \A k \in 1..Len(chain.results) :
       /\ ~TemplateLoses(k) => HasWorkOf(chain.results[k].input, Successes(k - 1))
       /\ ~TemplateLoses(k) /\ chain.results[k].status = "ok" => HasWorkOf(chain.results[k].output, Successes(k))
  /\ chain.status = "done" /\ ~TemplateLoses(Len(chain.results)) =>
       HasWorkOf(chain.output, Successes(Len(chain.results)))

ChainInv == ChainTypeOK /\ WorkGoesOn

LEMMA EmptyHasNoWork == HasWorkOf(<<>>, {})
  BY DEF HasWorkOf, Range

LEMMA InputHasNoWork == HasWorkOf(<<0>>, {})
  BY DEF HasWorkOf, Range

\* What is added at the end: nothing that is work, or the work of a later step.
LEMMA AddedWork ==
  ASSUME NEW text \in Texts, NEW done, HasWorkOf(text, done), NEW w \in Int, w > 0 => \A d \in done : d < w
  PROVE  HasWorkOf(Append(text, w), IF w > 0 THEN done \cup {w} ELSE done)
<1> DEFINE L == Len(text)
           t == Append(text, w)
<1>1. L \in Nat /\ Len(t) = L + 1 /\ DOMAIN t = 1..(L + 1) /\ DOMAIN text = 1..L /\ t[L + 1] = w
      /\ \A p \in 1..L : t[p] = text[p] /\ text[p] \in Int
  BY DEF Texts
<1> HIDE DEF t, L
<1>2. \A p \in 1..(L + 1) : p \in 1..L \/ p = L + 1
  BY <1>1
<1>3. L + 1 \in 1..(L + 1) /\ \A p \in 1..L : p \in 1..(L + 1)
  BY <1>1
<1>4. {x \in Range(t) : x > 0} = IF w > 0 THEN done \cup {w} ELSE done
  <2>1. Range(t) = Range(text) \cup {w}
    BY <1>1, <1>2, <1>3 DEF Range
  <2>2. {x \in Range(text) : x > 0} = done
    BY DEF HasWorkOf
  <2> QED BY <2>1, <2>2
<1>5. ASSUME NEW p \in 1..(L + 1), NEW r \in 1..(L + 1), p < r, t[p] > 0, t[r] > 0 PROVE t[p] < t[r]
  <2>1. p \in 1..L
    BY <1>1, <1>5
  <2>2. CASE r \in 1..L
    BY <1>1, <1>5, <2>1, <2>2 DEF HasWorkOf
  <2>3. CASE r = L + 1
    <3>1. t[p] \in done
      BY <1>1, <1>5, <2>1 DEF HasWorkOf, Range
    <3> QED BY <1>1, <1>5, <2>3, <3>1
  <2> QED BY <1>2, <2>2, <2>3
<1> QED BY <1>1, <1>4, <1>5 DEF HasWorkOf, t

LEMMA ChainInitially == NoChain => ChainInv
<1> SUFFICES ASSUME NoChain PROVE ChainInv
  OBVIOUS
<1>1. /\ steps = <<>>
      /\ chain = [status |-> "none", todo |-> <<>>, input |-> <<>>, results |-> <<>>, output |-> <<>>]
  BY DEF NoChain
<1>2. ChainTypeOK
  BY <1>1 DEF ChainTypeOK, Texts
<1>3. Len(chain.results) = 0 /\ chain.input = <<>> /\ chain.status # "done"
  BY <1>1
<1>4. Successes(0) = {}
  BY DEF Successes
<1>5. HasWorkOf(chain.input, Successes(Len(chain.results)))
  BY <1>3, <1>4, EmptyHasNoWork
<1>6. WorkGoesOn
  BY <1>3, <1>5 DEF WorkGoesOn
<1> QED BY <1>2, <1>6 DEF ChainInv

LEMMA ChainTypes ==
  ASSUME ChainTypeOK
  PROVE  /\ chain.todo \in Seq(ChainStep) /\ chain.results \in Seq(StepResults) /\ Len(chain.results) \in Nat
         /\ chain.input \in Texts /\ chain.output \in Texts
         /\ \A k \in 1..Len(chain.results) : chain.results[k] \in StepResults
  BY DEF ChainTypeOK

LEMMA ExecuteStep ==
  ASSUME ChainInv, ExecuteChain
  PROVE  ChainInv'
<1>1. steps' = steps /\ chain' = [status |-> "runs", todo |-> steps, input |-> <<0>>, results |-> <<>>, output |-> <<>>]
  BY DEF ExecuteChain
<1>2. ChainTypeOK'
  BY <1>1 DEF ChainTypeOK, ChainInv, Texts
<1>3. Len(chain'.results) = 0 /\ chain'.input = <<0>> /\ chain'.status = "runs"
  BY <1>1
<1>4. Successes(0)' = {}
  BY DEF Successes
<1>5. HasWorkOf(<<0>>, Successes(0))'
  BY <1>4, InputHasNoWork
<1> QED BY <1>2, <1>3, <1>5, <1>4 DEF ChainInv, WorkGoesOn

LEMMA AddSteps ==
  ASSUME ChainInv, NEW step \in ChainStep, AddStep(step)
  PROVE  ChainInv'
<1>1. chain' = chain /\ steps' \in Seq(ChainStep)
  BY DEF AddStep, ChainInv, ChainTypeOK
<1>2. ChainTypeOK'
  BY <1>1 DEF ChainInv, ChainTypeOK
<1>3. WorkGoesOn'
  BY <1>1 DEF ChainInv, WorkGoesOn, TemplateLoses, Successes
<1> QED BY <1>2, <1>3 DEF ChainInv

\* A step that has its result: what was, stays as it was.
Gives(n, r) ==
  /\ r \in StepResults /\ n \in Nat /\ n = Len(chain.results)
  /\ chain'.results = Append(chain.results, r) /\ chain'.todo = chain.todo

LEMMA ResultAdded ==
  ASSUME ChainTypeOK, NEW r, NEW n, Gives(n, r)
  PROVE  /\ Len(chain'.results) = n + 1 /\ chain'.results[n + 1] = r
         /\ \A k \in 1..n : chain'.results[k] = chain.results[k]
         /\ \A k \in 0..n : (TemplateLoses(k)' <=> TemplateLoses(k)) /\ Successes(k)' = Successes(k)
         /\ Successes(n + 1)' = IF r.status = "ok" THEN Successes(n) \cup {n + 1} ELSE Successes(n)
         /\ TemplateLoses(n + 1)' <=>
              \/ TemplateLoses(n)
              \/ /\ n >= 1 /\ chain.todo[n + 1].transform = "template" /\ r.status # "skipped"
                 /\ chain.results[n].status # "ok"
<1> DEFINE was == chain.results
           new == chain'.results
<1> USE DEF Gives
<1>1. Len(new) = n + 1 /\ new[n + 1] = r /\ \A k \in 1..n : new[k] = was[k]
  BY ChainTypes
<1>2. ASSUME NEW k \in 0..n PROVE (TemplateLoses(k)' <=> TemplateLoses(k)) /\ Successes(k)' = Successes(k)
  <2> HIDE DEF new, was
  <2>1. \A i \in 1..k : new[i] = was[i]
    BY <1>1
  <2>2. Successes(k)' = Successes(k)
    BY <2>1 DEF Successes, new, was
  <2>3. \A i \in 2..k : i \in 1..k /\ i - 1 \in 1..k
    OBVIOUS
  <2>4. TemplateLoses(k)' <=> \E i \in 2..k : /\ chain.todo[i].transform = "template" /\ new[i].status # "skipped"
                                              /\ new[i - 1].status # "ok"
    BY DEF TemplateLoses, new
  <2>5. TemplateLoses(k) <=> \E i \in 2..k : /\ chain.todo[i].transform = "template" /\ was[i].status # "skipped"
                                             /\ was[i - 1].status # "ok"
    BY DEF TemplateLoses, was
  <2>6. TemplateLoses(k)' <=> TemplateLoses(k)
    BY <2>1, <2>3, <2>4, <2>5
  <2> QED BY <2>2, <2>6
<1>3. Successes(n + 1)' = IF r.status = "ok" THEN Successes(n) \cup {n + 1} ELSE Successes(n)
  <2>1. Successes(n + 1)' = {i \in 1..(n + 1) : new[i].status = "ok"}
    BY DEF Successes
  <2>2. Successes(n) = {i \in 1..n : was[i].status = "ok"}
    BY DEF Successes
  <2> HIDE DEF new, was
  <2>3. \A i \in 1..(n + 1) : i \in 1..n \/ i = n + 1
    OBVIOUS
  <2>4. n + 1 \in 1..(n + 1) /\ \A i \in 1..n : i \in 1..(n + 1)
    OBVIOUS
  <2>5. \A i \in 1..n : new[i].status = was[i].status
    BY <1>1
  <2>6. CASE r.status = "ok"
    BY <1>1, <2>1, <2>2, <2>3, <2>4, <2>5, <2>6
  <2>7. CASE r.status # "ok"
    BY <1>1, <2>1, <2>2, <2>3, <2>4, <2>5, <2>7
  <2> QED BY <2>6, <2>7
<1>4. TemplateLoses(n + 1)' <=>
              \/ TemplateLoses(n)
              \/ /\ n >= 1 /\ chain.todo[n + 1].transform = "template" /\ r.status # "skipped"
                 /\ was[n].status # "ok"
  <2> DEFINE loses(i) == /\ chain.todo[i].transform = "template" /\ new[i].status # "skipped"
                         /\ new[i - 1].status # "ok"
  <2>1. TemplateLoses(n + 1)' <=> \E i \in 2..(n + 1) : loses(i)
    BY DEF TemplateLoses
  <2>2. TemplateLoses(n)' <=> \E i \in 2..n : loses(i)
    BY DEF TemplateLoses
  <2>3. loses(n + 1) /\ n >= 1 <=> /\ n >= 1 /\ chain.todo[n + 1].transform = "template" /\ r.status # "skipped"
                                   /\ was[n].status # "ok"
    <3> HIDE DEF new, was
    <3>1. n >= 1 => n \in 1..n /\ (n + 1) - 1 = n
      OBVIOUS
    <3> QED BY <1>1, <3>1
  <2> HIDE DEF loses, new, was
  <2>4. \A i : i \in 2..(n + 1) <=> i \in 2..n \/ (i = n + 1 /\ n >= 1)
    OBVIOUS
  <2>5. TemplateLoses(n + 1)' <=> TemplateLoses(n)' \/ (loses(n + 1) /\ n >= 1)
    BY <2>1, <2>2, <2>4
  <2>6. TemplateLoses(n)' <=> TemplateLoses(n)
    BY <1>2
  <2> QED BY <2>3, <2>5, <2>6
<1> QED BY <1>1, <1>2, <1>3, <1>4

\* A step that carries its work to the next keeps what the work is.
Carries(n, r) ==
  /\ Gives(n, r) /\ chain'.status # "done"
  /\ r.status # "ok" => r.output = <<>>
  /\ ~TemplateLoses(n + 1)' => HasWorkOf(chain'.input, Successes(n + 1)')
  /\ ~TemplateLoses(n + 1)' => HasWorkOf(r.input, Successes(n))
  /\ ~TemplateLoses(n + 1)' /\ r.status = "ok" => HasWorkOf(r.output, Successes(n + 1)')

LEMMA WorkStays ==
  ASSUME ChainInv, ChainTypeOK', NEW r, NEW n, Carries(n, r)
  PROVE  ChainInv'
<1> USE DEF Carries
<1>0. n \in Nat /\ n = Len(chain.results)
  BY DEF Gives
<1>1. /\ Len(chain'.results) = n + 1 /\ chain'.results[n + 1] = r
      /\ \A k \in 1..n : chain'.results[k] = chain.results[k]
      /\ \A k \in 0..n : (TemplateLoses(k)' <=> TemplateLoses(k)) /\ Successes(k)' = Successes(k)
  BY ResultAdded DEF ChainInv
<1> DEFINE new == chain'.results
<1>2. \A k \in 1..(n + 1) : k \in 1..n \/ k = n + 1
  BY <1>0
<1>3. ASSUME NEW k \in 1..(n + 1)
      PROVE  /\ new[k].status # "ok" => new[k].output = <<>>
             /\ ~TemplateLoses(k)' => HasWorkOf(new[k].input, Successes(k - 1)')
             /\ ~TemplateLoses(k)' /\ new[k].status = "ok" => HasWorkOf(new[k].output, Successes(k)')
  <2>1. CASE k \in 1..n
    <3>1. k \in 0..n /\ k - 1 \in 0..n /\ new[k] = chain.results[k]
      BY <1>0, <1>1, <2>1
    <3>2. (TemplateLoses(k)' <=> TemplateLoses(k)) /\ Successes(k)' = Successes(k) /\ Successes(k - 1)' = Successes(k - 1)
      BY <1>1, <3>1
    <3>3. /\ chain.results[k].status # "ok" => chain.results[k].output = <<>>
          /\ ~TemplateLoses(k) => HasWorkOf(chain.results[k].input, Successes(k - 1))
          /\ ~TemplateLoses(k) /\ chain.results[k].status = "ok" => HasWorkOf(chain.results[k].output, Successes(k))
      BY <1>0, <2>1 DEF ChainInv, WorkGoesOn
    <3> HIDE DEF new
    <3> QED BY <3>1, <3>2, <3>3
  <2>2. CASE k = n + 1
    <3>1. k - 1 = n /\ n \in 0..n /\ new[k] = r
      BY <1>0, <1>1, <2>2
    <3>2. Successes(k - 1)' = Successes(n)
      BY <1>1, <3>1
    <3> HIDE DEF new
    <3> QED BY <2>2, <3>1, <3>2
  <2> QED BY <1>2, <2>1, <2>2
<1> HIDE DEF new
<1>4. WorkGoesOn'
  <2>1. \A k \in 1..Len(chain'.results) : chain'.results[k].status # "ok" => chain'.results[k].output = <<>>
    BY <1>1, <1>3 DEF new
  <2>2. ~TemplateLoses(Len(chain.results))' => HasWorkOf(chain.input, Successes(Len(chain.results)))'
    BY <1>1
  <2>3. \A k \in 1..Len(chain'.results) :
          /\ ~TemplateLoses(k)' => HasWorkOf(chain'.results[k].input, Successes(k - 1)')
          /\ ~TemplateLoses(k)' /\ chain'.results[k].status = "ok" => HasWorkOf(chain'.results[k].output, Successes(k)')
    BY <1>1, <1>3 DEF new
  <2> QED BY <2>1, <2>2, <2>3 DEF WorkGoesOn
<1> QED BY <1>4 DEF ChainInv

LEMMA SkipKeeps ==
  ASSUME ChainInv, SkipStep
  PROVE  ChainInv'
<1> PICK n \in Nat : n = Len(chain.results)
  BY ChainTypes DEF ChainInv
<1> PICK r \in StepResults : r = Result("skipped", chain.input, <<>>)
  <2>1. Result("skipped", chain.input, <<>>) \in StepResults
    BY ChainTypes DEF ChainInv, StepResults, Result, Texts
  <2> QED BY <2>1, Zenon
<1>1. r.status = "skipped" /\ r.input = chain.input /\ r.output = <<>>
  BY DEF Result
<1>2. chain' = [chain EXCEPT !.results = Append(@, r)] /\ steps' = steps
  BY DEF SkipStep
<1>3. ChainTypeOK'
  <2>1. Append(chain.results, r) \in Seq(StepResults)
    BY ChainTypes DEF ChainInv
  <2> QED BY <1>2, <2>1 DEF ChainInv, ChainTypeOK
<1>4. chain'.results = Append(chain.results, r) /\ chain'.todo = chain.todo /\ chain'.input = chain.input /\ chain'.status = chain.status
  BY <1>2 DEF ChainInv, ChainTypeOK
<1>5. chain'.status # "done"
  BY <1>4 DEF SkipStep, Runs
<1>6. Gives(n, r)
  BY <1>4 DEF Gives
<1>7. Successes(n + 1)' = Successes(n) /\ (TemplateLoses(n) => TemplateLoses(n + 1)')
  <2>1. ChainTypeOK
    BY DEF ChainInv
  <2>2. /\ Successes(n + 1)' = IF r.status = "ok" THEN Successes(n) \cup {n + 1} ELSE Successes(n)
        /\ TemplateLoses(n + 1)' <=>
             \/ TemplateLoses(n)
             \/ /\ n >= 1 /\ chain.todo[n + 1].transform = "template" /\ r.status # "skipped"
                /\ chain.results[n].status # "ok"
    BY ONLY <1>6, <2>1, ResultAdded, ZenonT(60)
  <2> QED BY <1>1, <2>2
<1>8. ~TemplateLoses(n) => HasWorkOf(chain.input, Successes(n))
  BY DEF ChainInv, WorkGoesOn
<1>9. Carries(n, r)
  BY <1>1, <1>4, <1>5, <1>6, <1>7, <1>8 DEF Carries
<1> QED BY <1>3, <1>9, WorkStays

\* However the input was transformed, the work is in it.
LEMMA TransformKeeps ==
  ASSUME ChainInv, Runs, NEW n \in Nat, n = Len(chain.results)
  PROVE  /\ Transformed \in Texts
         /\ ~TemplateLoses(n) /\ ~(n >= 1 /\ chain.todo[n + 1].transform = "template" /\ chain.results[n].status # "ok") =>
              HasWorkOf(Transformed, Successes(n))
<1>1. n + 1 \in 1..Len(chain.todo) /\ Step = chain.todo[n + 1] /\ Step \in ChainStep
  <2>1. n + 1 \in 1..Len(chain.todo) /\ Next1 = n + 1
    BY ChainTypes DEF Runs, Next1, ChainInv
  <2> QED BY <2>1, ChainTypes DEF Step, ChainInv
<1>2. chain.input \in Texts /\ (chain.results = <<>> <=> n = 0)
  BY ChainTypes DEF ChainInv
<1>3. n >= 1 => Previous = chain.results[n] /\ Previous \in StepResults
  BY ChainTypes DEF Previous, ChainInv
<1>4. PreviousResult \in Texts
  <2>1. <<>> \in Texts
    BY DEF Texts
  <2> QED BY <1>2, <1>3, <2>1 DEF PreviousResult, StepResults
<1>5. ~TemplateLoses(n) => HasWorkOf(chain.input, Successes(n))
  BY DEF ChainInv, WorkGoesOn
<1>6. PreviousResult = <<>> \/ (n >= 1 /\ chain.results[n].status = "ok" /\ PreviousResult = chain.results[n].output)
  <2>1. n >= 1 => n \in 1..n
    OBVIOUS
  <2>2. n >= 1 => (chain.results[n].status # "ok" => chain.results[n].output = <<>>)
    BY <2>1 DEF ChainInv, WorkGoesOn
  <2> QED BY <1>2, <1>3, <2>2 DEF PreviousResult
<1>7. n >= 1 /\ chain.results[n].status = "ok" /\ ~TemplateLoses(n) => HasWorkOf(chain.results[n].output, Successes(n))
  <2>1. n >= 1 => n \in 1..n
    OBVIOUS
  <2> QED BY <2>1 DEF ChainInv, WorkGoesOn
<1>9. CASE Step.transform = "none"
  BY <1>2, <1>5, <1>9 DEF Transformed
<1>10. CASE Step.transform = "suffix"
  <2>1. Transformed = Append(chain.input, -1)
    BY <1>10 DEF Transformed
  <2>2. ~TemplateLoses(n) => HasWorkOf(Transformed, Successes(n))
    <3> DEFINE w == -1
    <3>1. w \in Int /\ ~(w > 0)
      OBVIOUS
    <3> HIDE DEF w
    <3> QED BY <1>2, <1>5, <2>1, <3>1, AddedWork DEF w
  <2>3. Transformed \in Texts
    BY <1>2, <2>1 DEF Texts
  <2> QED BY <2>2, <2>3
<1>11. CASE Step.transform = "previous"
  <2>1. Transformed = IF PreviousResult = <<>> THEN chain.input ELSE PreviousResult
    BY <1>11 DEF Transformed
  <2> QED BY <1>2, <1>4, <1>5, <1>6, <1>7, <2>1
<1>12. CASE Step.transform = "template"
  <2>1. Transformed = PreviousResult
    BY <1>12 DEF Transformed
  <2>2. CASE n = 0
    <3>1. Successes(n) = {} /\ PreviousResult = <<>>
      BY <1>2, <2>2 DEF Successes, PreviousResult
    <3> QED BY <1>4, <2>1, <3>1, EmptyHasNoWork
  <2>3. CASE n >= 1
    <3>1. chain.results[n].status = "ok" => PreviousResult = chain.results[n].output
      BY <1>2, <1>3, <2>3 DEF PreviousResult
    <3> QED BY <1>1, <1>4, <1>7, <1>12, <2>1, <2>3, <3>1
  <2> QED BY <2>2, <2>3
<1> QED BY <1>1, <1>9, <1>10, <1>11, <1>12 DEF ChainStep

LEMMA SuccessKeeps ==
  ASSUME ChainInv, StepSucceeds
  PROVE  ChainInv'
<1> PICK n \in Nat : n = Len(chain.results)
  BY ChainTypes DEF ChainInv
<1>1. Next1 = n + 1 /\ Transformed \in Texts /\ Runs
  BY TransformKeeps DEF StepSucceeds, Next1
<1> PICK out \in Texts : out = Append(Transformed, n + 1)
  <2>1. Append(Transformed, n + 1) \in Texts
    BY <1>1 DEF Texts
  <2> QED BY <2>1, Zenon
<1> PICK r \in StepResults : r = Result("ok", Transformed, out)
  BY <1>1 DEF StepResults, Result
<1>2. r.status = "ok" /\ r.input = Transformed /\ r.output = out
  BY DEF Result
<1>3. chain' = [chain EXCEPT !.input = out, !.results = Append(@, r)] /\ steps' = steps
  BY <1>1 DEF StepSucceeds
<1>4. ChainTypeOK'
  <2>1. Append(chain.results, r) \in Seq(StepResults)
    BY ChainTypes DEF ChainInv
  <2> QED BY <1>3, <2>1 DEF ChainInv, ChainTypeOK
<1>5. chain'.results = Append(chain.results, r) /\ chain'.todo = chain.todo /\ chain'.input = out /\ chain'.status = chain.status
  BY <1>3 DEF ChainInv, ChainTypeOK
<1>6. chain'.status # "done"
  BY <1>1, <1>5 DEF Runs
<1>7. Gives(n, r)
  BY <1>5 DEF Gives
<1>8. /\ Successes(n + 1)' = Successes(n) \cup {n + 1}
      /\ ~TemplateLoses(n + 1)' => ~TemplateLoses(n) /\ ~(n >= 1 /\ chain.todo[n + 1].transform = "template" /\ chain.results[n].status # "ok")
  BY <1>2, <1>7, ResultAdded DEF ChainInv
<1>9. ~TemplateLoses(n + 1)' => HasWorkOf(Transformed, Successes(n))
  BY <1>1, <1>8, TransformKeeps
<1>10. ~TemplateLoses(n + 1)' => HasWorkOf(out, Successes(n) \cup {n + 1})
  <2>1. n + 1 \in Int /\ n + 1 > 0 /\ \A d \in Successes(n) : d < n + 1
    BY DEF Successes
  <2> QED BY <1>1, <1>9, <2>1, AddedWork
<1>11. Carries(n, r)
  BY <1>2, <1>5, <1>6, <1>7, <1>8, <1>9, <1>10 DEF Carries
<1> QED BY <1>4, <1>11, WorkStays

LEMMA FailureKeeps ==
  ASSUME ChainInv, StepFails
  PROVE  ChainInv'
<1> PICK n \in Nat : n = Len(chain.results)
  BY ChainTypes DEF ChainInv
<1>1. Transformed \in Texts /\ Runs
  BY TransformKeeps DEF StepFails
<1> PICK r \in StepResults : r = Result("failed", Transformed, <<>>)
  <2>1. Result("failed", Transformed, <<>>) \in StepResults
    BY <1>1 DEF StepResults, Result, Texts
  <2> QED BY <2>1, Zenon
<1>2. r.status = "failed" /\ r.input = Transformed /\ r.output = <<>>
  BY DEF Result
<1> PICK status \in {"runs", "aborted"} : status = IF Step.optional THEN chain.status ELSE "aborted"
  BY <1>1 DEF Runs
<1>3. chain' = [chain EXCEPT !.input = Transformed, !.results = Append(@, r), !.status = status] /\ steps' = steps
  BY DEF StepFails
<1>4. ChainTypeOK'
  <2>1. Append(chain.results, r) \in Seq(StepResults)
    BY ChainTypes DEF ChainInv
  <2> QED BY <1>1, <1>3, <2>1 DEF ChainInv, ChainTypeOK
<1>5. chain'.results = Append(chain.results, r) /\ chain'.todo = chain.todo /\ chain'.input = Transformed /\ chain'.status # "done"
  BY <1>3 DEF ChainInv, ChainTypeOK
<1>6. Gives(n, r)
  BY <1>5 DEF Gives
<1>7. /\ Successes(n + 1)' = Successes(n)
      /\ ~TemplateLoses(n + 1)' => ~TemplateLoses(n) /\ ~(n >= 1 /\ chain.todo[n + 1].transform = "template" /\ chain.results[n].status # "ok")
  <2>1. ChainTypeOK
    BY DEF ChainInv
  <2>2. /\ Successes(n + 1)' = IF r.status = "ok" THEN Successes(n) \cup {n + 1} ELSE Successes(n)
        /\ TemplateLoses(n + 1)' <=>
             \/ TemplateLoses(n)
             \/ /\ n >= 1 /\ chain.todo[n + 1].transform = "template" /\ r.status # "skipped"
                /\ chain.results[n].status # "ok"
    BY ONLY <1>6, <2>1, ResultAdded, ZenonT(60)
  <2> QED BY <1>2, <2>2
<1>8. ~TemplateLoses(n + 1)' => HasWorkOf(Transformed, Successes(n))
  BY <1>1, <1>7, TransformKeeps
<1>9. Carries(n, r)
  BY <1>2, <1>5, <1>6, <1>7, <1>8 DEF Carries
<1> QED BY <1>4, <1>9, WorkStays

\* The last of some steps.
LEMMA LastOne ==
  ASSUME NEW n \in Nat, NEW S \in SUBSET (1..n), S # {}
  PROVE  Max(S) \in S /\ \A x \in S : x <= Max(S)
<1> DEFINE HaveLast(k) == \A U \in SUBSET (1..k) : U # {} => \E x \in U : \A y \in U : y <= x
           T == {k \in Nat : HaveLast(k)}
<1>1. 0 \in T
  <2>1. 1..0 = {}
    OBVIOUS
  <2> QED BY <2>1
<1>2. ASSUME NEW k \in Nat, k \in T PROVE k + 1 \in T
  <2>0. k + 1 \in Nat /\ HaveLast(k)
    BY <1>2
  <2> HIDE DEF HaveLast
  <2>a. SUFFICES HaveLast(k + 1)
    BY <2>0
  <2> USE DEF HaveLast
  <2> SUFFICES ASSUME NEW U \in SUBSET (1..(k + 1)), U # {} PROVE \E x \in U : \A y \in U : y <= x
    BY Zenon
  <2>1. CASE k + 1 \in U
    <3>1. \A y \in U : y <= k + 1
      OBVIOUS
    <3> QED BY <2>1, <3>1
  <2>2. CASE k + 1 \notin U
    <3>1. U \in SUBSET (1..k)
      <4>1. ASSUME NEW y \in U PROVE y \in 1..k
        <5>1. y \in 1..(k + 1) /\ y # k + 1
          BY <2>2
        <5> QED BY <5>1
      <4> QED BY <4>1
    <3> QED BY <2>0, <3>1
  <2> QED BY <2>1, <2>2
<1>3. n \in T
  <2> HIDE DEF T
  <2> QED BY <1>1, <1>2, Induction
<1>4. \E x \in S : \A y \in S : y <= x
  BY <1>3
<1>5. \E x \in S : \A y \in S : x >= y
  BY <1>4
<1> QED BY <1>5 DEF Max

LEMMA FinishKeeps ==
  ASSUME ChainInv, FinishChain
  PROVE  ChainInv'
<1> DEFINE n == Len(chain.results)
           ok == Succeeded(chain.results)
           answer == IF ok = {} THEN <<>> ELSE chain.results[Max(ok)].output
<1>1. n \in Nat /\ DOMAIN chain.results = 1..n
  BY ChainTypes DEF ChainInv
<1>2. ok = Successes(n) /\ ok \in SUBSET (1..n)
  BY <1>1 DEF Succeeded, Successes
<1>3. chain' = [chain EXCEPT !.status = "done", !.output = answer] /\ steps' = steps
  BY DEF FinishChain
<1>4. ok # {} => Max(ok) \in ok /\ \A x \in ok : x <= Max(ok)
  <2> HIDE DEF ok, n
  <2> QED BY <1>1, <1>2, LastOne
<1>5. answer \in Texts
  <2>1. CASE ok = {}
    BY <2>1 DEF Texts
  <2>2. CASE ok # {}
    <3>1. Max(ok) \in 1..n
      BY <1>2, <1>4, <2>2
    <3>2. chain.results[Max(ok)] \in StepResults
      BY <3>1, ChainTypes DEF ChainInv
    <3> QED BY <2>2, <3>2 DEF StepResults
  <2> QED BY <2>1, <2>2
<1>6. ~TemplateLoses(n) => HasWorkOf(answer, Successes(n))
  <2> SUFFICES ASSUME ~TemplateLoses(n) PROVE HasWorkOf(answer, Successes(n))
    OBVIOUS
  <2>1. CASE ok = {}
    BY <1>2, <2>1, EmptyHasNoWork
  <2>2. CASE ok # {}
    <3> DEFINE m == Max(ok)
    <3>1. m \in 1..n /\ chain.results[m].status = "ok" /\ answer = chain.results[m].output
      BY <1>2, <1>4, <2>2 DEF Successes
    <3>2. ~TemplateLoses(m)
      <4>1. 2..m \subseteq 2..n
        BY <1>1, <3>1
      <4> QED BY <4>1 DEF TemplateLoses
    <3>3. HasWorkOf(chain.results[m].output, Successes(m))
      BY <3>1, <3>2 DEF ChainInv, WorkGoesOn
    <3>4. Successes(m) = Successes(n)
      <4>1. \A x \in Successes(n) : x <= m
        BY <1>2, <1>4, <2>2
      <4> HIDE DEF m
      <4> QED BY <1>1, <3>1, <4>1 DEF Successes
    <3> QED BY <3>1, <3>3, <3>4
  <2> QED BY <2>1, <2>2
<1> HIDE DEF answer
<1>7. ChainTypeOK'
  BY <1>3, <1>5 DEF ChainInv, ChainTypeOK
<1>8. chain'.results = chain.results /\ chain'.todo = chain.todo /\ chain'.input = chain.input /\ chain'.output = answer
  BY <1>3 DEF ChainInv, ChainTypeOK
<1>9. \A k : (TemplateLoses(k)' <=> TemplateLoses(k)) /\ Successes(k)' = Successes(k)
  BY <1>8 DEF TemplateLoses, Successes
<1>10. WorkGoesOn'
  BY <1>6, <1>8, <1>9 DEF ChainInv, WorkGoesOn
<1> QED BY <1>7, <1>10 DEF ChainInv

LEMMA ChainStepKeeps == ChainInv /\ [ChainNext]_chainVars => ChainInv'
<1> SUFFICES ASSUME ChainInv, [ChainNext]_chainVars PROVE ChainInv'
  OBVIOUS
<1>1. CASE UNCHANGED chainVars
  <2>1. chain' = chain /\ steps' = steps
    BY <1>1 DEF chainVars
  <2> QED BY <2>1 DEF ChainInv, ChainTypeOK, WorkGoesOn, TemplateLoses, Successes
<1> QED BY <1>1, AddSteps, ExecuteStep, SkipKeeps, SuccessKeeps, FailureKeeps, FinishKeeps DEF ChainNext

LEMMA ChainInvCarries == ChainInv => ChainCarriesWork
<1> SUFFICES ASSUME ChainInv PROVE ChainCarriesWork
  OBVIOUS
<1>1. DOMAIN chain.results = 1..Len(chain.results)
  BY ChainTypes DEF ChainInv
<1> QED BY <1>1 DEF ChainInv, WorkGoesOn, ChainCarriesWork

-----------------------------------------------------------------------------
(* Models in parallel.                                                     *)

Answers == [status : {"pending", "failed", "ok"}, input : Texts, output : Texts]

AnswersTypeOK == answers \in [1..Parallel -> Answers]

\* What was composed was composed of the answers that there are.
ComposedOfAnswers ==
  \/ composed = NotComposed
  \/ /\ \A i \in 1..Parallel : answers[i] # Pending
     /\ composed.strategy \in Strategies
     /\ \/ composed.status = "failed" /\ Compositions(composed.strategy, answers) = {}
        \/ composed.status = "ok" /\ composed.output \in Compositions(composed.strategy, answers)

ParallelInv == AnswersTypeOK /\ ComposedOfAnswers

LEMMA PendingIsAnswer == Pending \in Answers /\ Pending.status = "pending"
  BY DEF Pending, Answers, Result, Texts

LEMMA ParallelInitially == NothingParallel => ParallelInv
  BY PendingIsAnswer DEF NothingParallel, ParallelInv, AnswersTypeOK, ComposedOfAnswers

LEMMA ParallelStepKeeps == ParallelInv /\ [ParallelNext]_parallelVars => ParallelInv'
<1> SUFFICES ASSUME ParallelInv, [ParallelNext]_parallelVars PROVE ParallelInv'
  OBVIOUS
<1>1. CASE UNCHANGED parallelVars
  <2>1. answers' = answers /\ composed' = composed
    BY <1>1 DEF parallelVars
  <2> QED BY <2>1 DEF ParallelInv, AnswersTypeOK, ComposedOfAnswers
<1>2. ASSUME NEW i \in 1..Parallel, ModelEnds(i) PROVE ParallelInv'
  <2>1. PICK r \in {Result("failed", <<0>>, <<>>)} \cup {Result("ok", <<0>>, o) : o \in Outputs} :
               answers' = [answers EXCEPT ![i] = r]
    BY <1>2 DEF ModelEnds
  <2>2. r \in Answers
    <3>1. \A o \in Outputs : o \in Texts
      BY ModelChainParameters DEF Texts
    <3>2. <<>> \in Texts /\ <<0>> \in Texts
      BY DEF Texts
    <3> QED BY <2>1, <3>1, <3>2 DEF Result, Answers
  <2>3. answers[i] = Pending /\ composed' = composed
    BY <1>2 DEF ModelEnds
  <2>4. composed = NotComposed
    BY <2>3 DEF ParallelInv, ComposedOfAnswers
  <2> QED BY <2>1, <2>2, <2>3, <2>4 DEF ParallelInv, AnswersTypeOK, ComposedOfAnswers
<1>3. ASSUME NEW s \in Strategies, Compose(s) PROVE ParallelInv'
  <2>1. answers' = answers /\ \A i \in 1..Parallel : answers[i] # Pending
    BY <1>3 DEF Compose, ParallelInv, AnswersTypeOK
  <2>2. CASE Compositions(s, answers) = {}
    <3>1. composed' = [strategy |-> s, status |-> "failed", output |-> <<>>]
      BY <1>3, <2>2 DEF Compose
    <3>2. composed'.strategy = s /\ composed'.status = "failed"
      BY <3>1
    <3> QED BY <2>1, <2>2, <3>2 DEF ParallelInv, AnswersTypeOK, ComposedOfAnswers
  <2>3. CASE Compositions(s, answers) # {}
    <3>1. PICK o \in Compositions(s, answers) : composed' = [strategy |-> s, status |-> "ok", output |-> o]
      BY <1>3, <2>3 DEF Compose
    <3>2. composed'.strategy = s /\ composed'.status = "ok" /\ composed'.output = o
      BY <3>1
    <3> QED BY <2>1, <3>1, <3>2 DEF ParallelInv, AnswersTypeOK, ComposedOfAnswers
  <2> QED BY <2>2, <2>3
<1>4. CASE ExecuteParallel
  BY <1>4, PendingIsAnswer DEF ExecuteParallel, ParallelInv, AnswersTypeOK, ComposedOfAnswers
<1> QED BY <1>1, <1>2, <1>3, <1>4 DEF ParallelNext

\* Of some things with a rank there is one of the lowest rank.
LEMMA Lowest ==
  ASSUME NEW S, S # {}, NEW rank \in [S -> Nat]
  PROVE  \E x \in S : \A y \in S : rank[x] <= rank[y]
<1> DEFINE Reached(k) == \E x \in S : rank[x] <= k
           T == {k \in Nat : Reached(k) => \E x \in S : \A y \in S : rank[x] <= rank[y]}
<1>1. 0 \in T
  OBVIOUS
<1>2. ASSUME NEW k \in Nat, k \in T PROVE k + 1 \in T
  <2> SUFFICES ASSUME Reached(k + 1), ~Reached(k) PROVE \E x \in S : \A y \in S : rank[x] <= rank[y]
    BY <1>2
  <2>1. PICK x \in S : rank[x] <= k + 1
    OBVIOUS
  <2>2. \A y \in S : rank[y] \in Nat /\ ~(rank[y] <= k)
    OBVIOUS
  <2>3. \A y \in S : rank[x] <= rank[y]
    BY <2>1, <2>2
  <2> QED BY <2>3
<1>3. \A k \in Nat : k \in T
  <2> HIDE DEF T
  <2> QED BY <1>1, <1>2, Induction
<1>4. PICK x \in S : TRUE
  OBVIOUS
<1> QED BY <1>3, <1>4

LEMMA ForemostIs ==
  ASSUME NEW n \in Nat, NEW S \in SUBSET (1..n), S # {}
  PROVE  Foremost(S) # {}
<1> DEFINE rank == [i \in S |-> i]
<1>1. rank \in [S -> Nat]
  OBVIOUS
<1>2. \E x \in S : \A y \in S : rank[x] <= rank[y]
  <2> HIDE DEF rank
  <2> QED BY <1>1, Lowest
<1> QED BY <1>2 DEF Foremost

LEMMA UsefulIs ==
  ASSUME NEW rs \in [1..Parallel -> Answers]
  PROVE  /\ Useful(rs) \in SUBSET (1..Parallel) /\ Parallel \in Nat /\ IsFiniteSet(Useful(rs))
         /\ Cardinality(Useful(rs)) \in Nat
         /\ \A i \in 1..Parallel : rs[i].output \in Texts /\ Len(rs[i].output) \in Nat
<1>1. Parallel \in Nat
  BY ModelChainParameters
<1>2. Useful(rs) \in SUBSET (1..Parallel)
  BY DEF Useful, Succeeded
<1>3. IsFiniteSet(Useful(rs))
  <2>1. IsFiniteSet(1..Parallel)
    BY <1>1, FS_Interval
  <2> QED BY <1>2, <2>1, FS_Subset
<1>4. Cardinality(Useful(rs)) \in Nat
  BY <1>3, FS_CardinalityType
<1>5. ASSUME NEW i \in 1..Parallel PROVE rs[i].output \in Texts /\ Len(rs[i].output) \in Nat
  <2>1. rs[i] \in Answers
    OBVIOUS
  <2>2. rs[i].output \in Texts
    BY <2>1 DEF Answers
  <2> QED BY <2>2 DEF Texts
<1> QED BY <1>1, <1>2, <1>3, <1>4, <1>5

LEMMA VotesAre ==
  ASSUME NEW rs \in [1..Parallel -> Answers], NEW o
  PROVE  /\ Votes(rs, o) \in Nat /\ Votes(rs, o) <= Cardinality(Useful(rs))
         /\ \A x : x # o => Votes(rs, o) + Votes(rs, x) <= Cardinality(Useful(rs))
<1> DEFINE For(y) == {i \in Useful(rs) : rs[i].output = y}
<1>1. \A y : For(y) \subseteq Useful(rs) /\ IsFiniteSet(For(y)) /\ Votes(rs, y) = Cardinality(For(y))
  BY UsefulIs, FS_Subset DEF Votes
<1>2. \A y : Votes(rs, y) \in Nat
  BY <1>1, FS_CardinalityType
<1>3. Votes(rs, o) <= Cardinality(Useful(rs))
  <2>1. For(o) \subseteq Useful(rs) /\ Votes(rs, o) = Cardinality(For(o))
    BY <1>1
  <2>2. IsFiniteSet(Useful(rs))
    BY UsefulIs
  <2> HIDE DEF For
  <2>3. Cardinality(For(o)) <= Cardinality(Useful(rs))
    BY <2>1, <2>2, FS_Subset
  <2> QED BY <2>1, <2>3
<1>4. ASSUME NEW x, x # o PROVE Votes(rs, o) + Votes(rs, x) <= Cardinality(Useful(rs))
  <2>1. For(o) \cap For(x) = {} /\ For(o) \cup For(x) \subseteq Useful(rs)
    BY <1>4
  <2>2. IsFiniteSet(For(o)) /\ IsFiniteSet(For(x))
    BY <1>1
  <2>3. Votes(rs, o) = Cardinality(For(o)) /\ Votes(rs, x) = Cardinality(For(x))
    BY <1>1
  <2> HIDE DEF For
  <2>4. Cardinality(For(o) \cup For(x)) = Cardinality(For(o)) + Cardinality(For(x)) - Cardinality(For(o) \cap For(x))
    BY <2>2, FS_Union
  <2>5. Cardinality(For(o) \cap For(x)) = 0
    BY <2>1, FS_EmptySet
  <2>6. Cardinality(For(o) \cup For(x)) <= Cardinality(Useful(rs))
    BY <2>1, UsefulIs, FS_Subset
  <2> QED BY <1>2, <2>3, <2>4, <2>5, <2>6, UsefulIs
<1> QED BY <1>2, <1>3, <1>4

LEMMA MajorityExists ==
  ASSUME NEW rs \in [1..Parallel -> Answers], Useful(rs) # {}
  PROVE  \E o \in Said(rs) : \A x \in Said(rs) : Votes(rs, x) <= Votes(rs, o)
<1> DEFINE rank == [o \in Said(rs) |-> Cardinality(Useful(rs)) - Votes(rs, o)]
<1>1. \A o : Votes(rs, o) \in Nat /\ Votes(rs, o) <= Cardinality(Useful(rs))
  BY VotesAre
<1>2. Cardinality(Useful(rs)) \in Nat
  BY UsefulIs
<1>3. rank \in [Said(rs) -> Nat]
  BY <1>1, <1>2
<1>4. Said(rs) # {}
  BY DEF Said
<1>5. \E o \in Said(rs) : \A x \in Said(rs) : rank[o] <= rank[x]
  <2> HIDE DEF rank
  <2> QED BY <1>3, <1>4, Lowest
<1> QED BY <1>1, <1>2, <1>5

LEMMA TotalIsNat ==
  ASSUME NEW rs \in [1..Parallel -> Answers]
  PROVE  TotalLength(rs) \in Nat
<1> DEFINE Adds(k) == IF k \in Useful(rs) THEN Len(rs[k].output) ELSE 0
           step == [k \in 1..Parallel |-> [n \in Nat |-> n + Adds(k)]]
           Sums1(f) == f = [k \in 0..Parallel |-> IF k = 0 THEN 0 ELSE f[k - 1] + Adds(k)]
           g == CHOOSE f : Sums1(f)
<1>1. \A k \in 1..Parallel : Adds(k) \in Nat
  BY UsefulIs
<1>2. Parallel \in Nat /\ Len(rs) = Parallel
  BY UsefulIs
<1> HIDE DEF Adds
<1>3. \E f \in [0..Parallel -> Nat] : Sums1(f)
  <2>1. step \in [1..Parallel -> [Nat -> Nat]]
    BY <1>1
  <2>2. PICK f : f \in [0..Parallel -> Nat] /\ f[0] = 0 /\ \A k \in 1..Parallel : f[k] = step[k][f[k - 1]]
    <3> HIDE DEF step
    <3>1. Recurs(Parallel, Nat, 0, step)
      BY Recursion, Zenon
    <3> QED BY <1>2, <2>1, <3>1 DEF Recurs, Follows
  <2>3. \A k \in 1..Parallel : f[k] = f[k - 1] + Adds(k)
    <3> SUFFICES ASSUME NEW k \in 1..Parallel PROVE f[k] = f[k - 1] + Adds(k)
      OBVIOUS
    <3>1. k - 1 \in 0..Parallel
      BY <1>2
    <3>2. f[k - 1] \in Nat
      BY <2>2, <3>1
    <3> QED BY <2>2, <3>2
  <2>4. \A k \in 0..Parallel : k = 0 \/ k \in 1..Parallel
    BY <1>2
  <2>5. \A k \in 0..Parallel : f[k] = IF k = 0 THEN 0 ELSE f[k - 1] + Adds(k)
    BY <2>2, <2>3, <2>4
  <2>6. f = [k \in 0..Parallel |-> f[k]]
    BY <2>2
  <2>7. Sums1(f)
    BY <2>5, <2>6, Zenon
  <2> QED BY <2>2, <2>7
<1>4. Sums1(g)
  <2> HIDE DEF Sums1
  <2> QED BY <1>3
<1>5. \A k \in 0..Parallel : g[k] \in Nat
  <2> HIDE DEF g
  <2>1. g[0] \in Nat
    BY <1>2, <1>4
  <2>2. \A k \in 1..Parallel : g[k - 1] \in Nat => g[k] \in Nat
    <3> SUFFICES ASSUME NEW k \in 1..Parallel, g[k - 1] \in Nat PROVE g[k] \in Nat
      OBVIOUS
    <3>1. k \in 0..Parallel /\ k # 0
      BY <1>2
    <3>2. g[k] = g[k - 1] + Adds(k)
      BY <1>4, <3>1
    <3> QED BY <1>1, <3>2
  <2> QED BY <1>2, <2>1, <2>2, Throughout
<1>6. TotalLength(rs) = g[Parallel]
  BY <1>2 DEF TotalLength, Adds
<1> QED BY <1>2, <1>5, <1>6

LEMMA NearestIs ==
  ASSUME NEW rs \in [1..Parallel -> Answers]
  PROVE  /\ Nearest(rs) \subseteq Useful(rs)
         /\ Useful(rs) # {} => Nearest(rs) # {}
<1> DEFINE mean == TotalLength(rs) \div Cardinality(Useful(rs))
           off(i) == IF Len(rs[i].output) < mean THEN mean - Len(rs[i].output) ELSE Len(rs[i].output) - mean
           near == {i \in Useful(rs) : \A j \in Useful(rs) : off(i) <= off(j)}
           rank == [i \in Useful(rs) |-> off(i)]
<1>1. Nearest(rs) = Foremost(near)
  BY DEF Nearest
<1>2. Foremost(near) \subseteq near
  BY DEF Foremost
<1>3. ASSUME Useful(rs) # {} PROVE Foremost(near) # {}
  <2>1. mean \in Nat
    <3>1. Cardinality(Useful(rs)) \in Nat /\ Cardinality(Useful(rs)) # 0
      BY <1>3, UsefulIs, FS_EmptySet
    <3>2. TotalLength(rs) \in Nat
      BY TotalIsNat
    <3> QED BY <3>1, <3>2
  <2> HIDE DEF mean
  <2>2. \A i \in Useful(rs) : off(i) \in Nat
    BY <2>1, UsefulIs
  <2>3. rank \in [Useful(rs) -> Nat]
    BY <2>2
  <2>4. \E i \in Useful(rs) : \A j \in Useful(rs) : rank[i] <= rank[j]
    <3> HIDE DEF rank
    <3> QED BY <1>3, <2>3, Lowest
  <2>5. near # {} /\ near \in SUBSET (1..Parallel)
    BY <2>4, UsefulIs
  <2> HIDE DEF near
  <2> QED BY <2>5, UsefulIs, ForemostIs
<1> QED BY <1>1, <1>2, <1>3

\* What each strategy makes of the answers.
LEMMA CompositionsAre ==
  ASSUME NEW rs \in [1..Parallel -> Answers], NEW s \in Strategies, s # "best_score"
  PROVE  /\ Compositions(s, rs) = {} <=> Useful(rs) = {}
         /\ s # "concatenate" => Compositions(s, rs) \subseteq Said(rs)
         /\ s = "majority_vote" => \A o \in Compositions(s, rs) : \A x \in Said(rs) : Votes(rs, x) <= Votes(rs, o)
<1>1. CASE s \in {"first_successful", "weighted_average"}
  <2>1. Compositions(s, rs) = {rs[i].output : i \in Foremost(Useful(rs))}
    BY <1>1 DEF Compositions
  <2>2. Foremost(Useful(rs)) \subseteq Useful(rs)
    BY DEF Foremost
  <2>3. Useful(rs) # {} => Foremost(Useful(rs)) # {}
    BY UsefulIs, ForemostIs
  <2> QED BY <1>1, <2>1, <2>2, <2>3 DEF Said
<1>2. CASE s = "majority_vote"
  <2>1. Compositions(s, rs) = {o \in Said(rs) : \A x \in Said(rs) : Votes(rs, x) <= Votes(rs, o)}
    BY <1>2 DEF Compositions
  <2>2. Useful(rs) = {} => Said(rs) = {}
    BY DEF Said
  <2> QED BY <1>2, <2>1, <2>2, MajorityExists
<1>3. CASE s = "concatenate"
  BY <1>3 DEF Compositions
<1>4. CASE s = "average"
  <2>1. Compositions(s, rs) = {rs[i].output : i \in Nearest(rs)}
    BY <1>4 DEF Compositions
  <2> QED BY <1>4, <2>1, NearestIs DEF Said
<1> QED BY <1>1, <1>2, <1>3, <1>4 DEF Strategies

LEMMA ParallelInvAnswers == ParallelInv => CompositionAnswers
<1> SUFFICES ASSUME ParallelInv, composed.strategy \in Strategies \ {"best_score"}
             PROVE  /\ composed.status = "failed" <=> Useful(answers) = {}
                    /\ (composed.strategy # "concatenate" /\ composed.status = "ok") => composed.output \in Said(answers)
                    /\ composed.strategy = "majority_vote" =>
                         \A o \in Said(answers) : Votes(answers, o) * 2 > Cardinality(Useful(answers)) => composed.output = o
  BY DEF CompositionAnswers
<1> DEFINE s == composed.strategy
<1>1. answers \in [1..Parallel -> Answers] /\ s \in Strategies /\ s # "best_score"
  BY DEF ParallelInv, AnswersTypeOK
<1>2. composed # NotComposed
  BY DEF NotComposed, Strategies
<1>3. \/ composed.status = "failed" /\ Compositions(s, answers) = {}
      \/ composed.status = "ok" /\ composed.output \in Compositions(s, answers)
  BY <1>2 DEF ParallelInv, ComposedOfAnswers
<1> HIDE DEF s
<1>4. /\ Compositions(s, answers) = {} <=> Useful(answers) = {}
      /\ s # "concatenate" => Compositions(s, answers) \subseteq Said(answers)
      /\ s = "majority_vote" => \A o \in Compositions(s, answers) : \A x \in Said(answers) : Votes(answers, x) <= Votes(answers, o)
  BY <1>1, CompositionsAre
<1>5. ASSUME s = "majority_vote", NEW o \in Said(answers), Votes(answers, o) * 2 > Cardinality(Useful(answers))
      PROVE  composed.output = o
  <2>1. Useful(answers) # {}
    BY DEF Said
  <2>2. composed.output \in Compositions(s, answers)
    BY <1>3, <1>4, <2>1
  <2>3. Votes(answers, o) <= Votes(answers, composed.output)
    BY <1>4, <1>5, <2>2
  <2>4. /\ Votes(answers, o) \in Nat /\ Votes(answers, composed.output) \in Nat /\ Cardinality(Useful(answers)) \in Nat
        /\ composed.output # o => Votes(answers, o) + Votes(answers, composed.output) <= Cardinality(Useful(answers))
    BY <1>1, VotesAre, UsefulIs
  <2> QED BY <1>5, <2>3, <2>4
<1> QED BY <1>3, <1>4, <1>5 DEF s

\* With any outcome of every step and any answers, the work of the steps that
\* succeeded reaches the next one and the output of the chain, and a
\* composition is one of the useful answers, that of a majority when there
\* is one (model_chain.go, model_composition.go).
THEOREM OrchestrationKeepsCarrying == OrchestrationSpec => []OrchestrationCarries
<1>1. OrchestrationSpec => [](ChainInv /\ ParallelInv)
  <2>1. NoChain /\ NothingParallel => ChainInv /\ ParallelInv
    BY ChainInitially, ParallelInitially
  <2>2. ChainInv /\ ParallelInv /\ [ChainNext]_chainVars /\ [ParallelNext]_parallelVars => (ChainInv /\ ParallelInv)'
    BY ChainStepKeeps, ParallelStepKeeps
  <2> QED BY <2>1, <2>2, PTL DEF OrchestrationSpec
<1>2. ChainInv /\ ParallelInv => OrchestrationCarries
  BY ChainInvCarries, ParallelInvAnswers DEF OrchestrationCarries
<1> QED BY <1>1, <1>2, PTL

-----------------------------------------------------------------------------
(* The hash ring.  Things in the order of a key that no two of them share. *)
UpTo(S, key) == [x \in S |-> {y \in S : key[y] <= key[x]}]
Keyed(S, key) == /\ IsFiniteSet(S) /\ key \in [S -> Int]
                 /\ \A x, y \in S : key[x] = key[y] => x = y

\* The place of a thing is the number of things up to it, and falls behind no
\* other's that has a lower key.
LEMMA PlacesRise ==
  ASSUME NEW S, NEW key, Keyed(S, key)
  PROVE  /\ Cardinality(S) \in Nat
         /\ \A x \in S : Cardinality(UpTo(S, key)[x]) \in 1..Cardinality(S)
         /\ \A x, y \in S : key[x] < key[y] => Cardinality(UpTo(S, key)[x]) < Cardinality(UpTo(S, key)[y])
<1> DEFINE upTo(x) == {y \in S : key[y] <= key[x]}
<1>1. Cardinality(S) \in Nat
  BY FS_CardinalityType DEF Keyed
<1>2. ASSUME NEW x \in S
      PROVE  /\ UpTo(S, key)[x] = upTo(x) /\ x \in upTo(x) /\ upTo(x) \subseteq S
             /\ IsFiniteSet(upTo(x)) /\ Cardinality(upTo(x)) \in 1..Cardinality(S)
  <2>1. UpTo(S, key)[x] = upTo(x) /\ upTo(x) \subseteq S
    BY DEF UpTo
  <2>2. x \in upTo(x)
    BY DEF Keyed
  <2> HIDE DEF upTo
  <2>3. IsFiniteSet(upTo(x)) /\ Cardinality(upTo(x)) <= Cardinality(S)
    BY <2>1, FS_Subset DEF Keyed
  <2>4. Cardinality(upTo(x)) \in Nat /\ Cardinality(upTo(x)) # 0
    BY <2>2, <2>3, FS_CardinalityType, FS_EmptySet
  <2> QED BY <1>1, <2>1, <2>2, <2>3, <2>4
<1>3. ASSUME NEW x \in S, NEW y \in S, key[x] < key[y]
      PROVE  Cardinality(upTo(x)) < Cardinality(upTo(y))
  <2>1. upTo(x) \subseteq upTo(y) /\ y \notin upTo(x)
    <3>1. key[x] \in Int /\ key[y] \in Int /\ \A z \in S : key[z] \in Int
      BY DEF Keyed
    <3> QED BY <1>3, <3>1
  <2>2. upTo(x) # upTo(y) /\ IsFiniteSet(upTo(y)) /\ Cardinality(upTo(x)) \in Nat /\ Cardinality(upTo(y)) \in Nat
    <3>1. y \in upTo(y) /\ IsFiniteSet(upTo(y))
      BY <1>2
    <3>2. Cardinality(upTo(x)) \in Nat /\ Cardinality(upTo(y)) \in Nat
      <4> HIDE DEF upTo
      <4> QED BY <1>1, <1>2
    <3> HIDE DEF upTo
    <3> QED BY <2>1, <3>1, <3>2
  <2> HIDE DEF upTo
  <2>3. Cardinality(upTo(x)) <= Cardinality(upTo(y)) /\ Cardinality(upTo(x)) # Cardinality(upTo(y))
    BY <2>1, <2>2, FS_Subset
  <2> QED BY <2>2, <2>3
<1> HIDE DEF upTo
<1> QED BY <1>1, <1>2, <1>3

\* What InOrder gives: each thing at its place, with rising keys.
InKeyOrder(S, key, o) ==
  /\ o \in [1..Cardinality(S) -> S]
  /\ \A x \in S : o[Cardinality(UpTo(S, key)[x])] = x
  /\ \A k, l \in 1..Cardinality(S) : k < l => key[o[k]] < key[o[l]]
  /\ \A k \in 1..Cardinality(S) : Cardinality(UpTo(S, key)[o[k]]) = k

LEMMA InOrderIs ==
  ASSUME NEW S, NEW key, Keyed(S, key)
  PROVE  InKeyOrder(S, key, InOrder(S, UpTo(S, key)))
<1> DEFINE N == Cardinality(S)
           rank == [x \in S |-> Cardinality(UpTo(S, key)[x])]
           o == InOrder(S, UpTo(S, key))
<1>1. N \in Nat /\ rank \in [S -> 1..N] /\ IsFiniteSet(S)
  BY PlacesRise DEF Keyed
<1>2. \A x, y \in S : key[x] < key[y] => rank[x] < rank[y]
  BY PlacesRise
<1>3. \A x, y \in S : rank[x] = rank[y] => x = y
  <2>1. SUFFICES ASSUME NEW x \in S, NEW y \in S, rank[x] = rank[y], x # y PROVE FALSE
    OBVIOUS
  <2>2. key[x] \in Int /\ key[y] \in Int /\ key[x] # key[y]
    BY <2>1 DEF Keyed
  <2>3. rank[x] \in Int /\ rank[y] \in Int /\ (key[x] < key[y] => rank[x] < rank[y]) /\ (key[y] < key[x] => rank[y] < rank[x])
    <3>1. rank[x] \in 1..N /\ rank[y] \in 1..N
      <4> HIDE DEF rank, N
      <4> QED BY <1>1
    <3> HIDE DEF rank
    <3> QED BY <1>1, <1>2, <3>1
  <2> HIDE DEF rank
  <2> QED BY <2>1, <2>2, <2>3
<1>4. \A k \in 1..N : \E x \in S : rank[x] = k
  <2>1. rank \in Injection(S, 1..N)
    <3> HIDE DEF rank, N
    <3> QED BY <1>1, <1>3 DEF Injection, IsInjective
  <2>2. IsFiniteSet(1..N) /\ Cardinality(1..N) = N
    <3> HIDE DEF N
    <3>1. IsFiniteSet(1..N) /\ Cardinality(1..N) = IF 1 > N THEN 0 ELSE N - 1 + 1
      BY <1>1, FS_Interval
    <3> QED BY <1>1, <3>1
  <2>3. rank \in Surjection(S, 1..N)
    <3> HIDE DEF rank
    <3> QED BY <2>1, <2>2, FS_Injection
  <2> HIDE DEF rank, N
  <2> QED BY <2>3 DEF Surjection
<1>5. ASSUME NEW k \in 1..N PROVE o[k] \in S /\ rank[o[k]] = k
  <2>1. o[k] = CHOOSE x \in S : Cardinality(UpTo(S, key)[x]) = k
    BY DEF InOrder
  <2>2. \E x \in S : Cardinality(UpTo(S, key)[x]) = k
    BY <1>4
  <2>3. o[k] \in S /\ Cardinality(UpTo(S, key)[o[k]]) = k
    <3> HIDE DEF o
    <3> QED BY <2>1, <2>2, Zenon
  <2> HIDE DEF o
  <2> QED BY <2>3
<1>6. o \in [1..N -> S]
  <2>1. o = [k \in 1..N |-> o[k]]
    BY DEF InOrder
  <2> HIDE DEF o, N
  <2> QED BY <1>5, <2>1
<1>7. ASSUME NEW x \in S PROVE o[rank[x]] = x
  <2>1. rank[x] \in 1..N
    <3> HIDE DEF rank, N
    <3> QED BY <1>1
  <2> HIDE DEF rank, N, o
  <2>2. o[rank[x]] \in S /\ rank[o[rank[x]]] = rank[x]
    BY <1>5, <2>1
  <2> QED BY <1>3, <2>2
<1>8. ASSUME NEW k \in 1..N, NEW l \in 1..N, k < l PROVE key[o[k]] < key[o[l]]
  <2> HIDE DEF rank, N, o
  <2>1. o[k] \in S /\ o[l] \in S /\ rank[o[k]] = k /\ rank[o[l]] = l
    BY <1>5
  <2>2. key[o[k]] \in Int /\ key[o[l]] \in Int
    BY <2>1 DEF Keyed
  <2>3. k \in Int /\ l \in Int
    BY <1>1
  <2>4. ~(key[o[l]] < key[o[k]])
    BY <1>2, <1>8, <2>1, <2>3
  <2>5. key[o[l]] # key[o[k]]
    BY <1>8, <2>1, <2>3 DEF Keyed
  <2> QED BY <2>2, <2>4, <2>5
<1>9. \A x \in S : o[Cardinality(UpTo(S, key)[x])] = x
  <2> HIDE DEF o
  <2> QED BY <1>7
<1>10. \A k \in 1..N : Cardinality(UpTo(S, key)[o[k]]) = k
  <2> HIDE DEF o
  <2> QED BY <1>5
<1> HIDE DEF o
<1>11. InKeyOrder(S, key, o)
  BY <1>6, <1>8, <1>9, <1>10 DEF InKeyOrder
<1> QED BY <1>11 DEF o

\* Two sets whose things correspond, in the same order, have the same order.
SameOrder(S, key, T, key2, f) ==
  /\ f \in [S -> T]
  /\ \A x, y \in S : f[x] = f[y] => x = y
  /\ \A t \in T : \E x \in S : f[x] = t
  /\ \A x, y \in S : key[x] <= key[y] <=> key2[f[x]] <= key2[f[y]]

LEMMA OrdersAgree ==
  ASSUME NEW S, NEW key, Keyed(S, key), NEW T, NEW key2, Keyed(T, key2),
         NEW f, SameOrder(S, key, T, key2, f)
  PROVE  /\ Cardinality(S) = Cardinality(T)
         /\ \A k \in 1..Cardinality(T) :
              InOrder(T, UpTo(T, key2))[k] = f[InOrder(S, UpTo(S, key))[k]]
<1> USE DEF SameOrder
<1>1. Cardinality(S) = Cardinality(T)
  <2>1. f \in Bijection(S, T)
    BY DEF Bijection, Injection, IsInjective, Surjection
  <2> QED BY <2>1, FS_Bijection DEF ExistsBijection, Keyed
<1>2. ASSUME NEW x \in S PROVE Cardinality(UpTo(S, key)[x]) = Cardinality(UpTo(T, key2)[f[x]])
  <2> DEFINE A == UpTo(S, key)[x]
             B == UpTo(T, key2)[f[x]]
             g == [y \in A |-> f[y]]
  <2>1. A = {y \in S : key[y] <= key[x]} /\ B = {t \in T : key2[t] <= key2[f[x]]}
    BY DEF UpTo
  <2>2. IsFiniteSet(A)
    <3>1. A \in SUBSET S
      BY <2>1
    <3> HIDE DEF A
    <3> QED BY <3>1, FS_Subset DEF Keyed
  <2>3. g \in [A -> B]
    BY <2>1
  <2>4. \A t \in B : \E y \in A : g[y] = t
    BY <2>1
  <2>5. \A y, z \in A : g[y] = g[z] => y = z
    BY <2>1
  <2> HIDE DEF A, B, g
  <2>6. g \in Bijection(A, B)
    BY <2>3, <2>4, <2>5 DEF Bijection, Injection, IsInjective, Surjection
  <2>7. Cardinality(A) = Cardinality(B)
    BY <2>2, <2>6, FS_Bijection DEF ExistsBijection
  <2> QED BY <2>7 DEF A, B
<1> DEFINE o == InOrder(S, UpTo(S, key))
           u == InOrder(T, UpTo(T, key2))
<1>3. InKeyOrder(S, key, o) /\ InKeyOrder(T, key2, u)
  BY InOrderIs
<1> HIDE DEF o, u
<1>4. ASSUME NEW k \in 1..Cardinality(T) PROVE u[k] = f[o[k]]
  <2>1. o[k] \in S /\ Cardinality(UpTo(S, key)[o[k]]) = k
    BY <1>1, <1>3 DEF InKeyOrder
  <2>2. Cardinality(UpTo(T, key2)[f[o[k]]]) = k /\ f[o[k]] \in T
    BY <1>2, <2>1
  <2> QED BY <1>3, <2>2 DEF InKeyOrder
<1> QED BY <1>1, <1>4 DEF o, u

-----------------------------------------------------------------------------
(* A ring that fits its nodes: its positions rise and are the hashes of    *)
(* the nodes, each of which maps to its node.                              *)
Positions == 0..(Size - 1)
RingSet == [nodes : SUBSET Nodes, ring : Seq(Positions), map : [Positions -> Nodes \cup {Nobody}]]
RingFits(r) ==
  /\ r \in RingSet
  /\ \A i, j \in 1..Len(r.ring) : i < j => r.ring[i] < r.ring[j]
  /\ \A i \in 1..Len(r.ring) : \E n \in r.nodes : r.ring[i] \in OwnHashes(n)
  /\ \A n \in r.nodes : \A p \in OwnHashes(n) : r.map[p] = n /\ \E i \in 1..Len(r.ring) : r.ring[i] = p

LEMMA SortedRises ==
  ASSUME NEW V \in SUBSET Int, NEW s \in Seq(V), Once(s)
  PROVE  /\ Sorted(s) \in Seq(V) /\ Len(Sorted(s)) = Len(s)
         /\ \A i, j \in 1..Len(s) : i < j => Sorted(s)[i] < Sorted(s)[j]
         /\ \A i \in 1..Len(s) : \E j \in 1..Len(s) : Sorted(s)[i] = s[j]
         /\ \A j \in 1..Len(s) : \E i \in 1..Len(s) : Sorted(s)[i] = s[j]
<1> DEFINE upTo == [i \in DOMAIN s |-> {j \in DOMAIN s : s[j] < s[i] \/ (s[j] = s[i] /\ j <= i)}]
           o == InOrder(DOMAIN s, upTo)
<1>1. PICK n \in Nat : n = Len(s) /\ DOMAIN s = 1..n /\ s \in [1..n -> V] /\ \A i \in 1..n : s[i] \in Int
  <2>1. Len(s) \in Nat /\ DOMAIN s = 1..Len(s) /\ s \in [1..Len(s) -> V]
    BY LenProperties
  <2>2. \A i \in 1..Len(s) : s[i] \in Int
    BY <2>1
  <2> QED BY ONLY <2>1, <2>2, Zenon
<1>2. \A x, y \in 1..n : s[x] = s[y] => x = y
  BY <1>1 DEF Once
<1>3. upTo = UpTo(1..n, s)
  <2>1. \A i, j \in 1..n : (s[j] < s[i] \/ (s[j] = s[i] /\ j <= i)) <=> s[j] <= s[i]
    <3>1. SUFFICES ASSUME NEW i \in 1..n, NEW j \in 1..n
                   PROVE  (s[j] < s[i] \/ (s[j] = s[i] /\ j <= i)) <=> s[j] <= s[i]
      OBVIOUS
    <3>2. s[i] \in Int /\ s[j] \in Int /\ i \in Int /\ (s[j] = s[i] => j = i)
      BY <1>1, <1>2
    <3> QED BY <3>2
  <2>2. \A i \in 1..n : {j \in 1..n : s[j] < s[i] \/ (s[j] = s[i] /\ j <= i)} = {j \in 1..n : s[j] <= s[i]}
    BY <2>1, Zenon
  <2> QED BY <1>1, <2>2 DEF UpTo
<1>4. Keyed(1..n, s) /\ Cardinality(1..n) = n
  <2>1. IsFiniteSet(1..n) /\ Cardinality(1..n) = IF 1 > n THEN 0 ELSE n - 1 + 1
    <3>1. n \in Int /\ 1 \in Int
      BY <1>1
    <3> QED BY ONLY <3>1, FS_Interval
  <2>2. s \in [1..n -> Int]
    BY <1>1
  <2>3. Cardinality(1..n) = n
    BY <1>1, <2>1
  <2> QED BY <1>2, <2>1, <2>2, <2>3 DEF Keyed
<1>5. InKeyOrder(1..n, s, o)
  BY <1>1, <1>3, <1>4, InOrderIs
<1>6. Sorted(s) = [k \in 1..n |-> s[o[k]]]
  BY <1>1 DEF Sorted
<1> HIDE DEF o, upTo
<1>7. o \in [1..n -> 1..n] /\ (\A k, l \in 1..n : k < l => s[o[k]] < s[o[l]]) /\ \A x \in 1..n : \E k \in 1..n : o[k] = x
  <2>1. \A x \in 1..n : Cardinality(UpTo(1..n, s)[x]) \in 1..n
    BY <1>4, PlacesRise
  <2> QED BY <1>4, <1>5, <2>1 DEF InKeyOrder
<1>8. Sorted(s) \in [1..n -> V]
  BY <1>1, <1>6, <1>7
<1>9. Sorted(s) \in Seq(V) /\ Len(Sorted(s)) = n
  BY <1>8
<1>10. \A i \in 1..n : Sorted(s)[i] = s[o[i]] /\ o[i] \in 1..n
  BY <1>6, <1>7
<1>11. \A i, j \in 1..n : i < j => Sorted(s)[i] < Sorted(s)[j]
  BY <1>7, <1>10
<1>12. \A i \in 1..n : \E j \in 1..n : Sorted(s)[i] = s[j]
  BY ONLY <1>10, Zenon
<1>13. ASSUME NEW j \in 1..n PROVE \E i \in 1..n : Sorted(s)[i] = s[j]
  <2>1. PICK k \in 1..n : o[k] = j
    BY <1>7
  <2>2. Sorted(s)[k] = s[j]
    BY ONLY <1>10, <2>1, k \in 1..n, Zenon
  <2> QED BY ONLY <2>2, k \in 1..n, Zenon
<1>14. n = Len(s)
  BY <1>1
<1> QED BY ONLY <1>9, <1>11, <1>12, <1>13, <1>14, Zenon

LEMMA OwnHashesAre ==
  ASSUME NEW n \in Nodes
  PROVE  /\ OwnHashes(n) \subseteq Positions /\ OwnHashes(n) # {} /\ HashesOf(n) \in Seq(Positions)
         /\ Len(HashesOf(n)) = Replicas /\ Replicas \in Nat /\ OwnHashes(n) = {HashesOf(n)[i] : i \in 1..Replicas}
<1>1. Replicas \in Nat /\ Replicas > 0 /\ HashOf \in [Nodes \X (1..Replicas) -> Positions]
  BY HashRingParameters DEF Positions
<1>2. \A i \in 1..Replicas : HashOf[n, i] \in Positions
  BY <1>1
<1>3. HashesOf(n) \in [1..Replicas -> Positions]
  BY <1>2 DEF HashesOf
<1>4. OwnHashes(n) # {}
  <2>1. 1 \in 1..Replicas
    BY <1>1
  <2> QED BY <2>1 DEF OwnHashes
<1>5. HashesOf(n) \in Seq(Positions) /\ Len(HashesOf(n)) = Replicas
  BY <1>1, <1>3
<1> QED BY <1>1, <1>2, <1>4, <1>5 DEF HashesOf, OwnHashes

LEMMA HashesDiffer ==
  ASSUME NoCollision, NEW n \in Nodes
  PROVE  /\ \A i, j \in 1..Replicas : HashesOf(n)[i] = HashesOf(n)[j] => i = j
         /\ \A m \in Nodes : m # n => OwnHashes(m) \cap OwnHashes(n) = {}
<1>1. \A m \in Nodes, l \in Nodes, i \in 1..Replicas, j \in 1..Replicas :
        HashOf[m, i] = HashOf[l, j] => m = l /\ i = j
  <2>1. SUFFICES ASSUME NEW m \in Nodes, NEW l \in Nodes, NEW i \in 1..Replicas, NEW j \in 1..Replicas,
                        HashOf[m, i] = HashOf[l, j]
                 PROVE  m = l /\ i = j
    OBVIOUS
  <2>2. DOMAIN HashOf = Nodes \X (1..Replicas)
    BY HashRingParameters
  <2>3. <<m, i>> \in DOMAIN HashOf /\ <<l, j>> \in DOMAIN HashOf /\ HashOf[<<m, i>>] = HashOf[<<l, j>>]
    BY <2>1, <2>2
  <2>4. <<m, i>> = <<l, j>>
    BY <2>3, Zenon DEF NoCollision
  <2> QED BY <2>4
<1>2. \A i, j \in 1..Replicas : HashesOf(n)[i] = HashesOf(n)[j] => i = j
  <2>1. \A i \in 1..Replicas : HashesOf(n)[i] = HashOf[n, i]
    BY ONLY Zenon DEF HashesOf
  <2>2. ASSUME NEW i \in 1..Replicas, NEW j \in 1..Replicas, HashesOf(n)[i] = HashesOf(n)[j] PROVE i = j
    <3>1. HashOf[n, i] = HashOf[n, j]
      BY ONLY <2>1, <2>2, i \in 1..Replicas, j \in 1..Replicas, Zenon
    <3> QED BY ONLY <1>1, <3>1, n \in Nodes, i \in 1..Replicas, j \in 1..Replicas, Zenon
  <2> QED BY ONLY <2>2, Zenon
<1>3. ASSUME NEW m \in Nodes, m # n PROVE OwnHashes(m) \cap OwnHashes(n) = {}
  <2>1. ASSUME NEW i \in 1..Replicas, NEW j \in 1..Replicas PROVE HashOf[m, i] # HashOf[n, j]
    BY ONLY <1>1, <1>3, n \in Nodes, m \in Nodes, i \in 1..Replicas, j \in 1..Replicas, Zenon
  <2> QED BY <2>1, Zenon DEF OwnHashes
<1> QED BY <1>2, <1>3

LEMMA EmptyRingFits == RingFits(EmptyHashRing)
<1>1. EmptyHashRing.ring = <<>> /\ EmptyHashRing.nodes = {} /\ EmptyHashRing.map = [p \in Positions |-> Nobody]
  BY DEF EmptyHashRing, Positions
<1>2. EmptyHashRing \in RingSet
  BY DEF EmptyHashRing, RingSet, Positions
<1> QED BY <1>1, <1>2 DEF RingFits

LEMMA AddNodeFits ==
  ASSUME NoCollision, NEW r, RingFits(r), NEW n \in Nodes
  PROVE  RingFits(AddNode(r, n))
<1>1. CASE n \in r.nodes
  BY <1>1 DEF AddNode
<1>2. CASE n \notin r.nodes
  <2> DEFINE h == HashesOf(n)
             s == r.ring \o h
             a == AddNode(r, n)
             newMap == [p \in DOMAIN r.map |-> IF p \in OwnHashes(n) THEN n ELSE r.map[p]]
  <2>0. a = [nodes |-> r.nodes \cup {n}, ring |-> Sorted(s), map |-> newMap]
    BY <1>2 DEF AddNode
  <2>1. /\ r \in RingSet /\ r.ring \in Seq(Positions) /\ r.nodes \subseteq Nodes /\ r.map \in [Positions -> Nodes \cup {Nobody}]
        /\ h \in Seq(Positions) /\ Len(h) = Replicas /\ Replicas \in Nat
    BY OwnHashesAre DEF RingFits, RingSet
  <2>2. PICK k \in Nat : k = Len(r.ring)
    BY <2>1
  <2> HIDE DEF h
  <2>3. s \in Seq(Positions) /\ Len(s) = k + Replicas
    BY <2>1, <2>2
  <2>4. (\A i \in 1..k : s[i] = r.ring[i]) /\ \A i \in 1..Replicas : s[k + i] = h[i]
    <3>1. ASSUME NEW i \in 1..k PROVE s[i] = r.ring[i]
      BY <2>1, <2>2
    <3>2. ASSUME NEW i \in 1..Replicas PROVE s[k + i] = h[i]
      BY <2>1, <2>2
    <3> QED BY <3>1, <3>2
  <2>5. \A i \in 1..(k + Replicas) : i \in 1..k \/ \E j \in 1..Replicas : i = k + j
    <3>1. ASSUME NEW i \in 1..(k + Replicas), i \notin 1..k PROVE i - k \in 1..Replicas /\ i = k + (i - k)
      BY <2>1, <2>2, <3>1
    <3> QED BY <3>1
  <2> HIDE DEF s
  <2>6. \A i \in 1..k, j \in 1..Replicas : r.ring[i] # h[j]
    <3>1. SUFFICES ASSUME NEW i \in 1..k, NEW j \in 1..Replicas, r.ring[i] = h[j] PROVE FALSE
      OBVIOUS
    <3>2. PICK m \in r.nodes : r.ring[i] \in OwnHashes(m)
      BY <2>2 DEF RingFits
    <3>3. h[j] \in OwnHashes(n) /\ m \in Nodes /\ m # n
      BY <1>2, <2>1, OwnHashesAre DEF h
    <3> QED BY <3>1, <3>2, <3>3, HashesDiffer
  <2>7. Once(s)
    <3>1. SUFFICES ASSUME NEW x \in 1..(k + Replicas), NEW y \in 1..(k + Replicas), s[x] = s[y] PROVE x = y
      BY <2>3 DEF Once
    <3>2. CASE x \in 1..k /\ y \in 1..k
      <4>0. r.ring[x] \in Positions /\ r.ring[y] \in Positions
        BY <2>1, <2>2, <3>2
      <4>1. r.ring[x] = r.ring[y] /\ r.ring[x] \in Int /\ r.ring[y] \in Int
        BY <2>4, <3>1, <3>2, <4>0 DEF Positions
      <4>2. ~(x < y) /\ ~(y < x)
        BY <2>2, <3>2, <4>1 DEF RingFits
      <4> QED BY <3>2, <4>2
    <3>3. ASSUME NEW i \in 1..Replicas, NEW j \in 1..Replicas, x = k + i, y = k + j PROVE x = y
      <4>1. h[i] = h[j]
        BY <2>4, <3>1, <3>3
      <4>2. i = j
        BY <4>1, HashesDiffer DEF h
      <4> QED BY <3>3, <4>2
    <3>4. ASSUME NEW i \in 1..k, NEW j \in 1..Replicas, {x, y} = {i, k + j} PROVE FALSE
      <4>1. s[i] = s[k + j]
        BY <3>1, <3>4, Zenon
      <4> QED BY <2>4, <2>6, <4>1
    <3>5. ASSUME x \in 1..k, NEW j \in 1..Replicas, y = k + j PROVE FALSE
      BY <3>4, <3>5
    <3>6. ASSUME y \in 1..k, NEW j \in 1..Replicas, x = k + j PROVE FALSE
      BY <3>4, <3>6
    <3> QED BY <2>5, <3>2, <3>3, <3>5, <3>6
  <2> DEFINE t == Sorted(s)
  <2>8. /\ t \in Seq(Positions) /\ Len(t) = k + Replicas
        /\ \A i, j \in 1..(k + Replicas) : i < j => t[i] < t[j]
        /\ \A i \in 1..(k + Replicas) : \E j \in 1..(k + Replicas) : t[i] = s[j]
        /\ \A j \in 1..(k + Replicas) : \E i \in 1..(k + Replicas) : t[i] = s[j]
    <3>1. Positions \in SUBSET Int
      BY HashRingParameters DEF Positions
    <3>2. /\ t \in Seq(Positions) /\ Len(t) = Len(s)
          /\ \A i, j \in 1..Len(s) : i < j => t[i] < t[j]
          /\ \A i \in 1..Len(s) : \E j \in 1..Len(s) : t[i] = s[j]
          /\ \A j \in 1..Len(s) : \E i \in 1..Len(s) : t[i] = s[j]
      BY ONLY <2>3, <2>7, <3>1, SortedRises
    <3> HIDE DEF t
    <3> QED BY <2>3, <3>2
  <2> HIDE DEF t
  <2>9. newMap \in [Positions -> Nodes \cup {Nobody}] /\ \A p \in Positions : newMap[p] = IF p \in OwnHashes(n) THEN n ELSE r.map[p]
    BY <2>1
  <2> HIDE DEF newMap
  <2>10. a \in RingSet /\ a.nodes = r.nodes \cup {n} /\ a.ring = t /\ a.map = newMap
    <3>1. a = [nodes |-> r.nodes \cup {n}, ring |-> t, map |-> newMap]
      BY <2>0 DEF t
    <3> HIDE DEF a
    <3> QED BY <2>1, <2>8, <2>9, <3>1 DEF RingSet
  <2> HIDE DEF a
  <2>11. ASSUME NEW i \in 1..(k + Replicas) PROVE \E m \in r.nodes \cup {n} : t[i] \in OwnHashes(m)
    <3>1. PICK j \in 1..(k + Replicas) : t[i] = s[j]
      BY <2>8
    <3>2. CASE j \in 1..k
      <4>1. PICK m \in r.nodes : r.ring[j] \in OwnHashes(m)
        BY <2>2, <3>2 DEF RingFits
      <4> QED BY <2>4, <3>1, <3>2, <4>1
    <3>3. ASSUME NEW l \in 1..Replicas, j = k + l PROVE t[i] \in OwnHashes(n)
      BY <2>4, <3>1, <3>3, OwnHashesAre DEF h
    <3> QED BY <2>5, <3>2, <3>3
  <2>12. ASSUME NEW m \in r.nodes \cup {n}, NEW p \in OwnHashes(m)
         PROVE  newMap[p] = m /\ \E i \in 1..(k + Replicas) : t[i] = p
    <3>0. m \in Nodes
      BY <2>1
    <3>1. p \in Positions
      BY <3>0, OwnHashesAre
    <3>2. CASE m = n
      <4>1. PICK l \in 1..Replicas : h[l] = p
        BY <3>2, OwnHashesAre DEF h
      <4>2. k + l \in 1..(k + Replicas) /\ s[k + l] = p
        BY <2>1, <2>2, <2>4, <4>1
      <4>3. \E i \in 1..(k + Replicas) : t[i] = p
        BY <2>8, <4>2
      <4> QED BY <2>9, <3>1, <3>2, <4>3
    <3>3. CASE m # n
      <4>1. p \notin OwnHashes(n) /\ m \in r.nodes
        BY <3>0, <3>3, HashesDiffer
      <4>2. r.map[p] = m /\ \E i \in 1..k : r.ring[i] = p
        BY <2>2, <4>1 DEF RingFits
      <4>3. PICK j \in 1..k : r.ring[j] = p
        BY <4>2
      <4>4. j \in 1..(k + Replicas) /\ s[j] = p
        BY <2>1, <2>2, <2>4, <4>3
      <4>5. \E i \in 1..(k + Replicas) : t[i] = p
        BY <2>8, <4>4
      <4> QED BY <2>9, <3>1, <4>1, <4>2, <4>5
    <3> QED BY <3>2, <3>3
  <2>13. Len(a.ring) = k + Replicas
    BY <2>8, <2>10
  <2>14. /\ \A i, j \in 1..Len(a.ring) : i < j => a.ring[i] < a.ring[j]
         /\ \A i \in 1..Len(a.ring) : \E m \in a.nodes : a.ring[i] \in OwnHashes(m)
    BY <2>8, <2>10, <2>11, <2>13
  <2>15. \A m \in a.nodes : \A p \in OwnHashes(m) : a.map[p] = m /\ \E i \in 1..Len(a.ring) : a.ring[i] = p
    <3> HIDE DEF newMap, t, a
    <3> QED BY ONLY <2>10, <2>12, <2>13, Zenon
  <2>16. RingFits(a)
    BY ONLY <2>10, <2>14, <2>15, Zenon DEF RingFits
  <2> QED BY <2>16 DEF a
<1> QED BY <1>1, <1>2

\* Some places of a sequence, in their order.
LEMMA PlacesInOrder ==
  ASSUME NEW a \in Int, NEW b \in Int, NEW S \in SUBSET (a..b)
  PROVE  /\ Keyed(S, [i \in S |-> i])
         /\ UpTo(S, [i \in S |-> i]) = [i \in S |-> S \cap a..i]
<1>1. IsFiniteSet(S)
  <2>1. IsFiniteSet(a..b)
    BY FS_Interval
  <2> QED BY <2>1, FS_Subset
<1>2. S \subseteq Int
  OBVIOUS
<1>3. Keyed(S, [i \in S |-> i])
  BY <1>1, <1>2 DEF Keyed
<1>4. \A i \in S : {y \in S : y <= i} = S \cap a..i
  <2>1. \A i, y \in S : y <= i <=> y \in a..i
    BY <1>2
  <2> QED BY <2>1, Zenon
<1>5. UpTo(S, [i \in S |-> i]) = [i \in S |-> {y \in S : y <= i}]
  BY DEF UpTo
<1> QED BY <1>3, <1>4, <1>5

LEMMA RemoveNodeFits ==
  ASSUME NoCollision, NEW r, RingFits(r), NEW n \in Nodes
  PROVE  RingFits(RemoveNode(r, n))
<1>1. CASE n \notin r.nodes
  BY <1>1 DEF RemoveNode
<1>2. CASE n \in r.nodes
  <2> DEFINE goes(i) == r.map[r.ring[i]] = n /\ \A j \in 1..(i - 1) : r.ring[j] # r.ring[i]
             kept == {i \in DOMAIN r.ring : ~goes(i)}
             o == InOrder(kept, [i \in kept |-> kept \cap 1..i])
             N == Cardinality(kept)
             a == RemoveNode(r, n)
             t == [k \in DOMAIN o |-> r.ring[o[k]]]
             newMap == [p \in DOMAIN r.map |-> IF r.map[p] = n THEN Nobody ELSE r.map[p]]
  <2>0. a = [nodes |-> r.nodes \ {n}, ring |-> t, map |-> newMap]
    BY <1>2 DEF RemoveNode
  <2>1. /\ r \in RingSet /\ r.ring \in Seq(Positions) /\ r.nodes \subseteq Nodes /\ r.map \in [Positions -> Nodes \cup {Nobody}]
    BY DEF RingFits, RingSet
  <2>2. PICK l \in Nat : l = Len(r.ring) /\ DOMAIN r.ring = 1..l
    BY <2>1, LenProperties
  <2>3. \A i \in 1..l : goes(i) <=> r.ring[i] \in OwnHashes(n)
    <3>1. SUFFICES ASSUME NEW i \in 1..l PROVE goes(i) <=> r.ring[i] \in OwnHashes(n)
      OBVIOUS
    <3>2. PICK m \in r.nodes : r.ring[i] \in OwnHashes(m)
      BY <2>2 DEF RingFits
    <3>3. r.map[r.ring[i]] = m
      BY <3>2 DEF RingFits
    <3>4. \A j \in 1..(i - 1) : r.ring[j] # r.ring[i]
      <4>1. SUFFICES ASSUME NEW j \in 1..(i - 1) PROVE r.ring[j] # r.ring[i]
        OBVIOUS
      <4>2. j \in 1..l /\ j < i
        OBVIOUS
      <4>3. r.ring[j] < r.ring[i] /\ r.ring[i] \in Positions /\ r.ring[j] \in Positions
        BY <2>1, <2>2, <4>2 DEF RingFits
      <4> QED BY <4>3 DEF Positions
    <3>5. r.ring[i] \in OwnHashes(n) => m = n
      BY <2>1, <3>2, HashesDiffer
    <3> QED BY <3>2, <3>3, <3>4, <3>5
  <2>4. kept = {i \in 1..l : r.ring[i] \notin OwnHashes(n)}
    BY <2>2, <2>3
  <2> HIDE DEF goes, kept
  <2>5. InKeyOrder(kept, [i \in kept |-> i], o) /\ N \in Nat
    <3>1. kept \in SUBSET (1..l)
      BY <2>4
    <3>0. 1 \in Int /\ l \in Int
      OBVIOUS
    <3>2. Keyed(kept, [i \in kept |-> i]) /\ UpTo(kept, [i \in kept |-> i]) = [i \in kept |-> kept \cap 1..i]
      BY ONLY <3>0, <3>1, PlacesInOrder
    <3>3. InKeyOrder(kept, [i \in kept |-> i], InOrder(kept, UpTo(kept, [i \in kept |-> i])))
      BY ONLY <3>2, InOrderIs
    <3>4. N \in Nat
      BY ONLY <3>2, PlacesRise
    <3> QED BY <3>2, <3>3, <3>4
  <2> HIDE DEF o, N
  <2>6. o \in [1..N -> kept] /\ (\A k, j \in 1..N : k < j => o[k] < o[j]) /\ \A x \in kept : \E k \in 1..N : o[k] = x
    <3>1. o \in [1..N -> kept]
      BY <2>5 DEF InKeyOrder, N
    <3>2. \A k, j \in 1..N : k < j => o[k] < o[j]
      BY <2>5, <3>1 DEF InKeyOrder, N
    <3>3. ASSUME NEW x \in kept PROVE \E k \in 1..N : o[k] = x
      <4>1. kept \in SUBSET (1..l)
        BY <2>4
      <4>0. 1 \in Int /\ l \in Int
        OBVIOUS
      <4>2. Keyed(kept, [i \in kept |-> i])
        BY ONLY <4>0, <4>1, PlacesInOrder
      <4>3. Cardinality(UpTo(kept, [i \in kept |-> i])[x]) \in 1..N
        BY ONLY <4>2, PlacesRise, <3>3 DEF N
      <4>4. o[Cardinality(UpTo(kept, [i \in kept |-> i])[x])] = x
        BY ONLY <2>5, <3>3 DEF InKeyOrder
      <4> QED BY <4>3, <4>4
    <3> QED BY <3>1, <3>2, <3>3
  <2>7. t \in [1..N -> Positions] /\ \A k \in 1..N : t[k] = r.ring[o[k]] /\ o[k] \in 1..l /\ r.ring[o[k]] \notin OwnHashes(n)
    <3>1. DOMAIN o = 1..N
      BY <2>6
    <3>2. \A k \in 1..N : o[k] \in 1..l /\ r.ring[o[k]] \notin OwnHashes(n)
      BY <2>4, <2>6
    <3>3. \A i \in 1..l : r.ring[i] \in Positions
      BY <2>1, <2>2
    <3> QED BY <3>1, <3>2, <3>3
  <2> HIDE DEF t
  <2>8. t \in Seq(Positions) /\ Len(t) = N
    BY <2>5, <2>7
  <2>9. newMap \in [Positions -> Nodes \cup {Nobody}] /\ \A p \in Positions : newMap[p] = IF r.map[p] = n THEN Nobody ELSE r.map[p]
    BY <2>1
  <2> HIDE DEF newMap
  <2>10. a \in RingSet /\ a.nodes = r.nodes \ {n} /\ a.ring = t /\ a.map = newMap
    <3> HIDE DEF a
    <3> QED BY <2>0, <2>1, <2>8, <2>9 DEF RingSet
  <2> HIDE DEF a
  <2>11. \A i, j \in 1..N : i < j => t[i] < t[j]
    <3>1. SUFFICES ASSUME NEW i \in 1..N, NEW j \in 1..N, i < j PROVE t[i] < t[j]
      OBVIOUS
    <3>2. o[i] \in 1..l /\ o[j] \in 1..l /\ o[i] < o[j]
      BY <2>6, <2>7, <3>1
    <3>3. r.ring[o[i]] < r.ring[o[j]]
      BY <2>2, <3>2 DEF RingFits
    <3> QED BY <2>7, <3>3
  <2>12. \A i \in 1..N : \E m \in a.nodes : t[i] \in OwnHashes(m)
    <3>1. SUFFICES ASSUME NEW i \in 1..N PROVE \E m \in r.nodes \ {n} : t[i] \in OwnHashes(m)
      BY <2>10
    <3>2. PICK m \in r.nodes : r.ring[o[i]] \in OwnHashes(m)
      BY <2>2, <2>7 DEF RingFits
    <3> QED BY <2>7, <3>2
  <2>13. \A m \in a.nodes : \A p \in OwnHashes(m) : newMap[p] = m /\ \E i \in 1..N : t[i] = p
    <3>1. SUFFICES ASSUME NEW m \in r.nodes \ {n}, NEW p \in OwnHashes(m)
                   PROVE  newMap[p] = m /\ \E i \in 1..N : t[i] = p
      BY <2>10
    <3>2. p \in Positions /\ p \notin OwnHashes(n)
      BY <2>1, OwnHashesAre, HashesDiffer
    <3>3. r.map[p] = m /\ \E i \in 1..l : r.ring[i] = p
      BY <2>2 DEF RingFits
    <3>4. PICK i \in 1..l : r.ring[i] = p
      BY <3>3
    <3>5. PICK k \in 1..N : o[k] = i
      BY <2>4, <2>6, <3>2, <3>4
    <3>6. t[k] = p
      BY <2>7, <3>4, <3>5
    <3> QED BY <2>9, <3>2, <3>3, <3>6
  <2>14. Len(a.ring) = N
    BY <2>8, <2>10
  <2>15. RingFits(a)
    BY ONLY <2>10, <2>11, <2>12, <2>13, <2>14, Zenon DEF RingFits
  <2> QED BY <2>15 DEF a
<1> QED BY <1>1, <1>2

FitRings == {r \in RingSet : RingFits(r)}

LEMMA AddAllFits ==
  ASSUME NoCollision, NEW r, RingFits(r), NEW keys \in Seq(Nodes)
  PROVE  RingFits(AddAll(r, keys))
<1> DEFINE N == Len(keys)
           IsAdded(f) == f = [k \in 0..N |-> IF k = 0 THEN r ELSE AddNode(f[k - 1], keys[k])]
           added == CHOOSE f : IsAdded(f)
           step == [k \in 1..N |-> [x \in FitRings |-> AddNode(x, keys[k])]]
<1>1. N \in Nat /\ \A k \in 1..N : keys[k] \in Nodes
  BY ElementOfSeq
<1>2. r \in FitRings
  BY DEF FitRings, RingFits
<1>3. \A x \in FitRings, n \in Nodes : AddNode(x, n) \in FitRings
  <2>1. SUFFICES ASSUME NEW x \in FitRings, NEW n \in Nodes PROVE AddNode(x, n) \in FitRings
    OBVIOUS
  <2>2. RingFits(x)
    BY DEF FitRings
  <2>3. RingFits(AddNode(x, n))
    BY <2>2, AddNodeFits
  <2>4. AddNode(x, n) \in RingSet
    BY <2>3 DEF RingFits
  <2> QED BY <2>3, <2>4 DEF FitRings
<1>4. AddAll(r, keys) = added[N]
  BY DEF AddAll
<1> HIDE DEF N
<1>5. step \in [1..N -> [FitRings -> FitRings]] /\ \A k \in 1..N, x \in FitRings : step[k][x] = AddNode(x, keys[k])
  BY <1>1, <1>3
<1> HIDE DEF step
<1>6. PICK f : Follows(f, N, FitRings, r, step)
  BY <1>1, <1>2, <1>5, Recursion DEF Recurs
<1>7. IsAdded(f)
  <2>1. f \in [0..N -> FitRings] /\ f[0] = r /\ \A k \in 1..N : f[k] = step[k][f[k - 1]]
    BY <1>6 DEF Follows
  <2>2. \A k \in 1..N : f[k - 1] \in FitRings
    BY <1>1, <2>1
  <2>3. \A k \in 1..N : f[k] = AddNode(f[k - 1], keys[k])
    BY <1>5, <2>1, <2>2
  <2>4. \A k \in 0..N : k # 0 => k \in 1..N
    BY <1>1
  <2>5. \A k \in 0..N : f[k] = IF k = 0 THEN r ELSE AddNode(f[k - 1], keys[k])
    BY <2>1, <2>3, <2>4
  <2> QED BY <2>1, <2>5
<1>8. IsAdded(added)
  <2> HIDE DEF IsAdded
  <2> QED BY <1>7, Zenon
<1> HIDE DEF added
<1>9. added[0] = r /\ \A k \in 1..N : added[k] = AddNode(added[k - 1], keys[k])
  <2>1. added = [k \in 0..N |-> IF k = 0 THEN r ELSE AddNode(added[k - 1], keys[k])]
    BY <1>8
  <2>2. 0 \in 0..N /\ \A k \in 1..N : k \in 0..N /\ k # 0
    BY <1>1
  <2> QED BY <2>1, <2>2
<1>10. \A k \in 0..N : added[k] \in FitRings
  <2>1. \A k \in 1..N : added[k - 1] \in FitRings => added[k] \in FitRings
    BY <1>1, <1>3, <1>9
  <2> QED BY ONLY <1>1, <1>2, <1>9, <2>1, Throughout
<1>11. added[N] \in FitRings
  BY <1>1, <1>10
<1> QED BY <1>4, <1>11 DEF FitRings

-----------------------------------------------------------------------------
\* The rings of the processes fit, unless two virtual nodes have one hash.
RingsInv ==
  /\ registry \subseteq Processes
  /\ DOMAIN rings = Processes
  /\ \A p \in Processes : RingFits(rings[p])

LEMMA OwnRingFits ==
  ASSUME NoCollision, NEW p \in Processes
  PROVE  RingFits(OwnRing(p))
<1>1. p \in Nodes
  BY HashRingParameters
<1> QED BY <1>1, EmptyRingFits, AddNodeFits DEF OwnRing

LEMMA RingsInitially == NoCollision /\ OwnRings => RingsInv
<1> SUFFICES ASSUME NoCollision, OwnRings PROVE RingsInv
  OBVIOUS
<1>1. rings = [p \in Processes |-> OwnRing(p)] /\ registry = {}
  BY DEF OwnRings
<1>2. \A p \in Processes : RingFits(OwnRing(p))
  BY OwnRingFits
<1> QED BY <1>1, <1>2 DEF RingsInv

\* A step that gives one process another ring that fits.
LEMMA OneRingChanges ==
  ASSUME RingsInv, NEW p \in Processes, NEW r, RingFits(r),
         rings' = [rings EXCEPT ![p] = r], registry' \subseteq Processes
  PROVE  RingsInv'
<1>1. DOMAIN rings' = Processes /\ \A q \in Processes : rings'[q] = IF q = p THEN r ELSE rings[q]
  BY DEF RingsInv
<1>2. ASSUME NEW q \in Processes PROVE RingFits(rings'[q])
  BY <1>1 DEF RingsInv
<1> QED BY <1>1, <1>2 DEF RingsInv

LEMMA RingsStep == NoCollision /\ RingsInv /\ [RingsNext]_ringsVars => RingsInv'
<1> SUFFICES ASSUME NoCollision, RingsInv, [RingsNext]_ringsVars PROVE RingsInv'
  OBVIOUS
<1>0. Processes \subseteq Nodes /\ registry \subseteq Processes /\ \A p \in Processes : RingFits(rings[p])
  BY HashRingParameters DEF RingsInv
<1>1. ASSUME NEW p \in Processes, SyncClusterState(p) PROVE RingsInv'
  <2>1. registry' = registry \cup {p} /\ registry' \subseteq Processes
    BY <1>0, <1>1 DEF SyncClusterState
  <2>2. CASE UNCHANGED rings
    BY <2>1, <2>2 DEF RingsInv
  <2>3. ASSUME NEW keys \in SetToSeqs(registry' \ {p}), rings' = [rings EXCEPT ![p] = AddAll(@, keys)]
        PROVE  RingsInv'
    <3>1. IsFiniteSet(registry' \ {p}) /\ registry' \ {p} \subseteq Nodes
      <4>1. registry' \ {p} \in SUBSET Nodes
        BY <1>0, <2>1
      <4> QED BY <4>1, FS_Subset, HashRingParameters
    <3>2. keys \in [1..Cardinality(registry' \ {p}) -> registry' \ {p}] /\ Cardinality(registry' \ {p}) \in Nat
      BY <2>3, <3>1, FS_CardinalityType DEF SetToSeqs
    <3>3. keys \in Seq(Nodes)
      <4>1. PICK n \in Nat : n = Cardinality(registry' \ {p})
        BY <3>2
      <4>2. keys \in [1..n -> Nodes]
        BY <3>1, <3>2, <4>1
      <4> QED BY ONLY <4>2, n \in Nat
    <3>4. RingFits(AddAll(rings[p], keys))
      BY <1>0, <3>3, AddAllFits
    <3>5. rings' = [rings EXCEPT ![p] = AddAll(rings[p], keys)]
      BY <2>3
    <3> QED BY ONLY RingsInv, p \in Processes, <2>1, <3>4, <3>5, OneRingChanges
  <2> QED BY <1>1, <2>2, <2>3 DEF SyncClusterState
<1>2. ASSUME NEW p \in Processes, StopProcess(p) PROVE RingsInv'
  BY <1>0, <1>2 DEF StopProcess, RingsInv
<1>3. ASSUME NEW p \in Processes, StartProcess(p) PROVE RingsInv'
  <2>1. rings' = [rings EXCEPT ![p] = OwnRing(p)] /\ registry' \subseteq Processes
    BY <1>0, <1>3 DEF StartProcess
  <2> QED BY <2>1, OwnRingFits, OneRingChanges
<1>4. ASSUME NEW n, HeartbeatExpires(n) PROVE RingsInv'
  BY <1>0, <1>4 DEF HeartbeatExpires, RingsInv
<1>5. ASSUME NEW p \in Processes, NEW n \in Nodes, AddByHand(p, n) PROVE RingsInv'
  <2>1. rings' = [rings EXCEPT ![p] = AddNode(rings[p], n)] /\ registry' \subseteq Processes
    BY <1>0, <1>5 DEF AddByHand
  <2>2. RingFits(AddNode(rings[p], n))
    BY <1>0, AddNodeFits
  <2> QED BY <2>1, <2>2, OneRingChanges
<1>6. ASSUME NEW p \in Processes, NEW n \in Nodes, RemoveByHand(p, n) PROVE RingsInv'
  <2>1. rings' = [rings EXCEPT ![p] = RemoveNode(rings[p], n)] /\ registry' \subseteq Processes
    BY <1>0, <1>6 DEF RemoveByHand
  <2>2. RingFits(RemoveNode(rings[p], n))
    BY <1>0, RemoveNodeFits
  <2> QED BY <2>1, <2>2, OneRingChanges
<1>7. CASE UNCHANGED ringsVars
  BY <1>7 DEF ringsVars, RingsInv
<1> QED BY <1>1, <1>2, <1>3, <1>4, <1>5, <1>6, <1>7 DEF RingsNext

-----------------------------------------------------------------------------
\* Around the ring from a hash: the positions come in the order of their
\* distance from it.
LEMMA DistanceIs ==
  ASSUME NEW hash \in Positions, NEW p \in Positions
  PROVE  Distance(hash, p) = IF p >= hash THEN p - hash ELSE p - hash + Size
<1>1. Size \in Nat /\ Size > 0 /\ hash \in 0..(Size - 1) /\ p \in 0..(Size - 1)
  BY HashRingParameters DEF Positions
<1>2. \A x \in 0..(2 * Size - 1) : x % Size = IF x < Size THEN x ELSE x - Size
  BY <1>1
<1>3. p - hash + Size \in 0..(2 * Size - 1)
  BY <1>1
<1>4. Distance(hash, p) = IF p - hash + Size < Size THEN p - hash + Size ELSE p - hash + Size - Size
  <2>1. PICK x \in 0..(2 * Size - 1) : x = p - hash + Size
    BY <1>3
  <2>2. Distance(hash, p) = x % Size
    BY <2>1 DEF Distance
  <2>3. Distance(hash, p) = IF x < Size THEN x ELSE x - Size
    BY ONLY <1>2, <2>2, x \in 0..(2 * Size - 1)
  <2> QED BY <1>1, <2>1, <2>3
<1> QED BY <1>1, <1>4

Start(r, hash) == Search(r, hash) - 1
Around(r, hash, i) == ((Start(r, hash) + i) % Len(r.ring)) + 1
Away(r, hash, i) == Distance(hash, r.ring[Around(r, hash, i)])

LEMMA SearchIs ==
  ASSUME NEW r, RingFits(r), NEW hash \in Positions
  PROVE  /\ Start(r, hash) \in 0..Len(r.ring) /\ Search(r, hash) = Start(r, hash) + 1
         /\ \A i \in 1..Len(r.ring) : r.ring[i] >= hash <=> i > Start(r, hash)
<1> DEFINE ends == {i \in DOMAIN r.ring : r.ring[i] >= hash}
<1>1. r.ring \in Seq(Positions) /\ \A i, j \in 1..Len(r.ring) : i < j => r.ring[i] < r.ring[j]
  BY DEF RingFits, RingSet
<1>2. PICK n \in Nat : n = Len(r.ring) /\ DOMAIN r.ring = 1..n
  BY <1>1, LenProperties
<1>3. hash \in Int /\ \A i \in 1..n : r.ring[i] \in Int
  <2>1. \A i \in 1..n : r.ring[i] \in Positions
    BY <1>1, <1>2
  <2>2. Positions \subseteq Int
    BY HashRingParameters DEF Positions
  <2> QED BY <2>1, <2>2
<1>4. Search(r, hash) = IF ends = {} THEN n + 1 ELSE Min(ends)
  BY <1>2 DEF Search
<1>5. CASE ends = {}
  <2>1. Start(r, hash) = n /\ Search(r, hash) = n + 1
    BY <1>4, <1>5 DEF Start
  <2>2. \A i \in 1..n : ~(r.ring[i] >= hash)
    BY <1>2, <1>5
  <2> QED BY <1>2, <2>1, <2>2
<1>6. CASE ends # {}
  <2>1. ends \subseteq 1..n /\ \A i \in 1..n : i \in ends <=> r.ring[i] >= hash
    BY <1>2
  <2> HIDE DEF ends
  <2>2. [x \in ends |-> x] \in [ends -> Nat]
    BY <2>1
  <2>3. \E x \in ends : \A y \in ends : x <= y
    <3>1. \E x \in ends : \A y \in ends : [z \in ends |-> z][x] <= [z \in ends |-> z][y]
      BY ONLY <1>6, <2>2, Lowest
    <3> QED BY <3>1
  <2>4. Min(ends) \in ends /\ \A y \in ends : Min(ends) <= y
    BY <2>3 DEF Min
  <2>5. PICK m \in 1..n : m = Min(ends) /\ m \in ends /\ \A y \in ends : m <= y
    BY <2>1, <2>4
  <2>6. Start(r, hash) = m - 1 /\ Search(r, hash) = m
    BY <1>4, <1>6, <2>5 DEF Start
  <2>7. ASSUME NEW i \in 1..n, i >= m PROVE r.ring[i] >= hash
    <3>1. r.ring[m] >= hash /\ (i = m \/ r.ring[m] < r.ring[i])
      BY <1>1, <1>2, <2>1, <2>5, <2>7
    <3> QED BY <1>3, <3>1
  <2>8. ASSUME NEW i \in 1..n, i < m PROVE ~(r.ring[i] >= hash)
    <3>1. i \notin ends
      BY <2>5, <2>8
    <3> QED BY <2>1, <3>1
  <2>9. \A i \in 1..n : r.ring[i] >= hash <=> i >= m
    BY <2>7, <2>8
  <2> QED BY <1>2, <2>6, <2>9
<1> QED BY <1>5, <1>6

LEMMA AroundIs ==
  ASSUME NEW r, RingFits(r), NEW hash \in Positions
  PROVE  /\ \A i \in 0..(Len(r.ring) - 1) : Around(r, hash, i) \in 1..Len(r.ring) /\ Away(r, hash, i) \in Int
         /\ \A i, j \in 0..(Len(r.ring) - 1) : i < j => Away(r, hash, i) < Away(r, hash, j)
         /\ \A k \in 1..Len(r.ring) : \E i \in 0..(Len(r.ring) - 1) : Around(r, hash, i) = k
<1>1. r.ring \in Seq(Positions) /\ \A i, j \in 1..Len(r.ring) : i < j => r.ring[i] < r.ring[j]
  BY DEF RingFits, RingSet
<1>2. PICK n \in Nat : n = Len(r.ring)
  BY <1>1
<1>3. PICK s \in 0..n : s = Start(r, hash) /\ \A i \in 1..n : r.ring[i] >= hash <=> i > s
  BY <1>2, SearchIs
<1>4. Size \in Nat /\ hash \in 0..(Size - 1) /\ \A i \in 1..n : r.ring[i] \in Positions /\ r.ring[i] \in 0..(Size - 1)
  <2>1. \A i \in 1..n : r.ring[i] \in Positions
    BY <1>1, <1>2
  <2> QED BY <2>1, HashRingParameters DEF Positions
<1>5. ASSUME NEW i \in 0..(n - 1)
      PROVE  /\ Around(r, hash, i) = IF s + i < n THEN s + i + 1 ELSE s + i - n + 1
             /\ Around(r, hash, i) \in 1..n
  <2>1. \A x \in 0..(2 * n - 1) : x % n = IF x < n THEN x ELSE x - n
    BY <1>5
  <2>2. s + i \in 0..(2 * n - 1)
    BY <1>5
  <2>3. Around(r, hash, i) = ((s + i) % n) + 1
    BY <1>2, <1>3 DEF Around
  <2>4. Around(r, hash, i) = (IF s + i < n THEN s + i ELSE s + i - n) + 1
    BY <2>1, <2>2, <2>3
  <2> QED BY <2>4
<1>6. ASSUME NEW i \in 0..(n - 1)
      PROVE  Away(r, hash, i) = IF s + i < n THEN r.ring[s + i + 1] - hash ELSE r.ring[s + i - n + 1] - hash + Size
  <2> DEFINE k == Around(r, hash, i)
  <2>1. k \in 1..n /\ k = IF s + i < n THEN s + i + 1 ELSE s + i - n + 1
    BY <1>5
  <2> HIDE DEF k
  <2>2. Away(r, hash, i) = IF r.ring[k] >= hash THEN r.ring[k] - hash ELSE r.ring[k] - hash + Size
    BY <1>4, <2>1, DistanceIs DEF Away, k
  <2>3. r.ring[k] >= hash <=> s + i < n
    BY <1>3, <2>1
  <2> QED BY <2>1, <2>2, <2>3
<1>7. ASSUME NEW i \in 0..(n - 1), NEW j \in 0..(n - 1), i < j PROVE Away(r, hash, i) < Away(r, hash, j)
  <2>1. CASE s + j < n
    <3>1. s + i + 1 \in 1..n /\ s + j + 1 \in 1..n /\ s + i < n /\ s + i + 1 < s + j + 1
      BY <1>7, <2>1
    <3>2. r.ring[s + i + 1] < r.ring[s + j + 1]
      BY <1>1, <1>2, <3>1
    <3> QED BY <1>4, <1>6, <2>1, <3>1, <3>2
  <2>2. CASE ~(s + i < n)
    <3>1. s + i - n + 1 \in 1..n /\ s + j - n + 1 \in 1..n /\ ~(s + j < n) /\ s + i - n + 1 < s + j - n + 1
      BY <1>7, <2>2
    <3>2. r.ring[s + i - n + 1] < r.ring[s + j - n + 1]
      BY <1>1, <1>2, <3>1
    <3> QED BY <1>4, <1>6, <2>2, <3>1, <3>2
  <2>3. CASE s + i < n /\ ~(s + j < n)
    <3>1. s + i + 1 \in 1..n /\ s + j - n + 1 \in 1..n
      BY <2>3
    <3>2. r.ring[s + i + 1] \in 0..(Size - 1) /\ r.ring[s + j - n + 1] \in 0..(Size - 1)
      BY <1>4, <3>1
    <3> QED BY <1>4, <1>6, <2>3, <3>2
  <2> QED BY <2>1, <2>2, <2>3
<1>8. ASSUME NEW k \in 1..n PROVE \E i \in 0..(n - 1) : Around(r, hash, i) = k
  <2>1. CASE k > s
    <3>1. k - 1 - s \in 0..(n - 1) /\ s + (k - 1 - s) < n /\ s + (k - 1 - s) + 1 = k
      BY <2>1
    <3> QED BY <1>5, <3>1
  <2>2. CASE ~(k > s)
    <3>1. k - 1 - s + n \in 0..(n - 1) /\ ~(s + (k - 1 - s + n) < n) /\ s + (k - 1 - s + n) - n + 1 = k
      BY <2>2
    <3> QED BY <1>5, <3>1
  <2> QED BY <2>1, <2>2
<1>9. \A i \in 0..(n - 1) : Away(r, hash, i) \in Int
  <2>1. SUFFICES ASSUME NEW i \in 0..(n - 1) PROVE Away(r, hash, i) \in Int
    OBVIOUS
  <2>2. Around(r, hash, i) \in 1..n
    BY <1>5
  <2>3. r.ring[Around(r, hash, i)] \in Positions /\ r.ring[Around(r, hash, i)] \in Int
    BY <1>4, <2>2
  <2> QED BY <1>4, <2>3, DistanceIs DEF Away
<1> QED BY <1>2, <1>5, <1>7, <1>8, <1>9

-----------------------------------------------------------------------------
\* How far each node is from a hash.
Far(ns, hash) == [n \in ns |-> Min({Distance(hash, p) : p \in OwnHashes(n)})]

LEMMA FarIs ==
  ASSUME NEW ns \in SUBSET Nodes, NEW hash \in Positions, NEW n \in ns
  PROVE  /\ Far(ns, hash)[n] \in Int
         /\ \A p \in OwnHashes(n) : Far(ns, hash)[n] <= Distance(hash, p)
         /\ \E p \in OwnHashes(n) : Far(ns, hash)[n] = Distance(hash, p)
<1> DEFINE S == OwnHashes(n)
           D == {Distance(hash, p) : p \in S}
           rank == [p \in S |-> Distance(hash, p)]
<1>1. n \in Nodes /\ S \subseteq Positions /\ S # {}
  BY OwnHashesAre
<1>2. \A p \in S : Distance(hash, p) \in Nat
  <2>1. SUFFICES ASSUME NEW p \in S PROVE Distance(hash, p) \in Nat
    OBVIOUS
  <2>2. p \in Positions /\ p \in 0..(Size - 1) /\ hash \in 0..(Size - 1) /\ Size \in Nat
    BY <1>1, HashRingParameters DEF Positions
  <2> QED BY <2>2, DistanceIs
<1> HIDE DEF S
<1>3. rank \in [S -> Nat]
  BY <1>2
<1>4. \E p \in S : \A q \in S : rank[p] <= rank[q]
  <2> HIDE DEF rank
  <2> QED BY <1>1, <1>3, Lowest
<1>5. PICK p \in S : \A q \in S : Distance(hash, p) <= Distance(hash, q)
  BY <1>4
<1>6. Distance(hash, p) \in D /\ \A d \in D : Distance(hash, p) <= d
  BY <1>5
<1>7. Min(D) \in D /\ \A d \in D : Min(D) <= d
  <2> HIDE DEF D
  <2> QED BY <1>6 DEF Min
<1>8. Far(ns, hash)[n] = Min(D)
  BY DEF Far, S
<1>9. D \subseteq Int
  BY <1>2
<1> QED BY <1>7, <1>8, <1>9 DEF S

\* The walk: the node at each place, and the places that meet a node first.
Walk(r, hash) == [i \in 0..(Len(r.ring) - 1) |-> r.map[r.ring[Around(r, hash, i)]]]
Firsts(r, hash) == {i \in DOMAIN Walk(r, hash) : \A j \in 0..(i - 1) : Walk(r, hash)[j] # Walk(r, hash)[i]}
Meets(r, hash) == [i \in Firsts(r, hash) |-> Walk(r, hash)[i]]

LEMMA WalkIs ==
  ASSUME NEW r, RingFits(r), NEW hash \in Positions
  PROVE  /\ Keyed(Firsts(r, hash), [i \in Firsts(r, hash) |-> i])
         /\ Keyed(r.nodes, Far(r.nodes, hash))
         /\ SameOrder(Firsts(r, hash), [i \in Firsts(r, hash) |-> i], r.nodes, Far(r.nodes, hash), Meets(r, hash))
         /\ Firsts(r, hash) \in SUBSET (0..(Len(r.ring) - 1))
<1> DEFINE at == Walk(r, hash)
           firsts == Firsts(r, hash)
           far == Far(r.nodes, hash)
           away(i) == Away(r, hash, i)
           pos(i) == r.ring[Around(r, hash, i)]
<1>1. r.ring \in Seq(Positions) /\ r.nodes \in SUBSET Nodes
  BY DEF RingFits, RingSet
<1>2. PICK n \in Nat : n = Len(r.ring)
  BY <1>1
<1> DEFINE turns == 0..(n - 1)
<1>3. /\ \A i \in turns : Around(r, hash, i) \in 1..n /\ away(i) \in Int
      /\ \A i, j \in turns : i < j => away(i) < away(j)
      /\ \A k \in 1..n : \E i \in turns : Around(r, hash, i) = k
  BY <1>2, AroundIs
<1>4. \A i \in turns : at[i] \in r.nodes /\ pos(i) \in OwnHashes(at[i]) /\ away(i) = Distance(hash, pos(i))
  <2>1. SUFFICES ASSUME NEW i \in turns PROVE at[i] \in r.nodes /\ pos(i) \in OwnHashes(at[i]) /\ away(i) = Distance(hash, pos(i))
    OBVIOUS
  <2>2. PICK m \in r.nodes : pos(i) \in OwnHashes(m)
    BY <1>2, <1>3 DEF RingFits
  <2>3. at[i] = m
    <3>1. r.map[pos(i)] = m
      BY <2>2 DEF RingFits
    <3> QED BY <1>2, <3>1 DEF Walk
  <2> QED BY <2>2, <2>3 DEF Away
<1>5. \A m \in r.nodes : \A p \in OwnHashes(m) : \E i \in turns : at[i] = m /\ pos(i) = p
  <2>1. SUFFICES ASSUME NEW m \in r.nodes, NEW p \in OwnHashes(m) PROVE \E i \in turns : at[i] = m /\ pos(i) = p
    OBVIOUS
  <2>2. PICK k \in 1..n : r.ring[k] = p /\ r.map[p] = m
    BY <1>2 DEF RingFits
  <2>3. PICK i \in turns : Around(r, hash, i) = k
    BY <1>3
  <2> QED BY <1>2, <2>2, <2>3 DEF Walk
<1>6. firsts = {i \in turns : \A j \in 0..(i - 1) : at[j] # at[i]}
  BY <1>2 DEF Firsts, Walk
<1>7. /\ far \in [r.nodes -> Int]
      /\ \A m \in r.nodes : /\ far[m] \in Int
                            /\ \A p \in OwnHashes(m) : far[m] <= Distance(hash, p)
                            /\ \E p \in OwnHashes(m) : far[m] = Distance(hash, p)
  <2>1. \A m \in r.nodes : /\ far[m] \in Int
                           /\ \A p \in OwnHashes(m) : far[m] <= Distance(hash, p)
                           /\ \E p \in OwnHashes(m) : far[m] = Distance(hash, p)
    BY <1>1, FarIs
  <2>2. far = [m \in r.nodes |-> far[m]]
    BY DEF Far
  <2> HIDE DEF far
  <2> QED BY <2>1, <2>2
<1> HIDE DEF at, firsts, far, away, pos, turns
<1>8. \A i, j \in turns : i \in Int /\ j \in Int /\ (j < i => j \in 0..(i - 1))
  BY DEF turns
<1>9. \A i \in firsts : i \in turns /\ far[at[i]] = away(i)
  <2>1. SUFFICES ASSUME NEW i \in firsts PROVE i \in turns /\ far[at[i]] = away(i)
    OBVIOUS
  <2>2. i \in turns /\ at[i] \in r.nodes /\ far[at[i]] \in Int /\ away(i) \in Int
    BY <1>3, <1>4, <1>6, <1>7
  <2>3. far[at[i]] <= away(i)
    BY <1>4, <1>7, <2>2
  <2>4. PICK p \in OwnHashes(at[i]) : far[at[i]] = Distance(hash, p)
    BY <1>7, <2>2
  <2>5. PICK j \in turns : at[j] = at[i] /\ pos(j) = p
    BY <1>5, <2>2
  <2>6. ~(j < i)
    BY <1>6, <1>8, <2>2, <2>5
  <2>7. far[at[i]] = away(j) /\ away(j) \in Int /\ (i = j \/ away(i) < away(j))
    BY <1>3, <1>4, <1>8, <2>2, <2>4, <2>5, <2>6
  <2> QED BY <2>2, <2>3, <2>7
<1>10. \A m \in r.nodes : \E i \in firsts : at[i] = m
  <2>1. SUFFICES ASSUME NEW m \in r.nodes PROVE \E i \in firsts : at[i] = m
    OBVIOUS
  <2>2. PICK p \in OwnHashes(m) : far[m] = Distance(hash, p)
    BY <1>7
  <2>3. PICK i \in turns : at[i] = m /\ pos(i) = p
    BY <1>5
  <2>4. far[m] = away(i)
    BY <1>4, <2>2, <2>3
  <2>5. ASSUME NEW j \in 0..(i - 1), at[j] = at[i] PROVE FALSE
    <3>1. j \in turns /\ j < i
      BY <1>8, <2>5 DEF turns
    <3>2. away(j) < away(i) /\ away(j) \in Int /\ away(i) \in Int
      BY <1>3, <3>1
    <3>3. far[m] <= away(j)
      BY <1>4, <1>7, <2>3, <2>5, <3>1
    <3> QED BY <2>4, <3>2, <3>3
  <2>6. i \in firsts
    BY <1>6, <2>5
  <2> QED BY <2>3, <2>6
<1>11. \A i, j \in firsts : /\ i \in Int /\ j \in Int
                            /\ at[i] = at[j] => i = j
                            /\ i <= j <=> far[at[i]] <= far[at[j]]
  <2>1. SUFFICES ASSUME NEW i \in firsts, NEW j \in firsts
                 PROVE  i \in Int /\ j \in Int /\ (at[i] = at[j] => i = j) /\ (i <= j <=> far[at[i]] <= far[at[j]])
    OBVIOUS
  <2>2. /\ i \in turns /\ j \in turns /\ i \in Int /\ j \in Int
        /\ far[at[i]] = away(i) /\ far[at[j]] = away(j) /\ away(i) \in Int /\ away(j) \in Int
    BY <1>3, <1>8, <1>9
  <2>3. (i < j => away(i) < away(j)) /\ (j < i => away(j) < away(i))
    BY <1>3, <2>2
  <2>4. i <= j <=> away(i) <= away(j)
    BY <2>2, <2>3
  <2>5. at[i] = at[j] => i = j
    <3>1. at[i] = at[j] => away(i) = away(j)
      BY <2>2
    <3> QED BY <2>2, <2>3, <3>1
  <2> QED BY <2>2, <2>4, <2>5
<1>12. Keyed(firsts, [i \in firsts |-> i]) /\ firsts \in SUBSET turns
  <2>1. firsts \in SUBSET (0..(n - 1))
    BY <1>6 DEF turns
  <2>2. 0 \in Int /\ n - 1 \in Int
    OBVIOUS
  <2> QED BY ONLY <2>1, <2>2, PlacesInOrder DEF turns
<1>13. Keyed(r.nodes, far)
  <2>1. IsFiniteSet(r.nodes)
    BY <1>1, FS_Subset, HashRingParameters
  <2>2. ASSUME NEW x \in r.nodes, NEW y \in r.nodes, far[x] = far[y] PROVE x = y
    <3>1. PICK i \in firsts : at[i] = x
      BY <1>10
    <3>2. PICK j \in firsts : at[j] = y
      BY <1>10
    <3>3. i \in Int /\ j \in Int /\ far[x] \in Int /\ i <= j /\ j <= i
      BY <1>7, <1>11, <2>2, <3>1, <3>2
    <3> QED BY <3>1, <3>2, <3>3
  <2> QED BY <1>7, <2>1, <2>2 DEF Keyed
<1>14. SameOrder(firsts, [i \in firsts |-> i], r.nodes, far, [i \in firsts |-> at[i]])
  <2>1. [i \in firsts |-> at[i]] \in [firsts -> r.nodes]
    BY <1>4, <1>9
  <2> QED BY <1>10, <1>11, <2>1 DEF SameOrder
<1> QED BY <1>2, <1>12, <1>13, <1>14 DEF Meets, at, firsts, far, turns

LEMMA RingServes ==
  ASSUME NEW r, RingFits(r), NEW hash \in Positions
  PROVE  /\ GetNode(r, hash) = IF r.nodes = {} THEN Nobody ELSE ClosestFirst(r.nodes, hash)[1]
         /\ \A c : GetNodes(r, hash, c) = SubSeq(ClosestFirst(r.nodes, hash), 1, Min({c, Cardinality(r.nodes)}))
<1> DEFINE at == Walk(r, hash)
           firsts == Firsts(r, hash)
           index == [i \in firsts |-> i]
           far == Far(r.nodes, hash)
           met == InOrder(firsts, UpTo(firsts, index))
           order == ClosestFirst(r.nodes, hash)
           N == Cardinality(r.nodes)
           all == [k \in DOMAIN met |-> at[met[k]]]
<1>1. r.ring \in Seq(Positions) /\ r.nodes \in SUBSET Nodes
  BY DEF RingFits, RingSet
<1>2. PICK n \in Nat : n = Len(r.ring)
  BY <1>1
<1>3. /\ Keyed(firsts, index) /\ Keyed(r.nodes, far) /\ SameOrder(firsts, index, r.nodes, far, Meets(r, hash))
      /\ firsts \in SUBSET (0..(n - 1))
  BY <1>2, WalkIs
<1>4. order = InOrder(r.nodes, UpTo(r.nodes, far))
  BY DEF ClosestFirst, UpTo, Far
<1>5. UpTo(firsts, index) = [i \in firsts |-> firsts \cap 0..i]
  <2>1. PICK a, b \in Int : a = 0 /\ b = n - 1
    OBVIOUS
  <2>2. firsts \in SUBSET (a..b)
    BY <1>3, <2>1
  <2> HIDE DEF firsts
  <2>3. Keyed(firsts, index) /\ UpTo(firsts, index) = [i \in firsts |-> firsts \cap a..i]
    BY ONLY <2>2, a \in Int, b \in Int, PlacesInOrder
  <2> QED BY ONLY <2>1, <2>3
<1>6. \A c : GetNodes(r, hash, c) = SubSeq(all, 1, Min({c, N, Len(all)}))
  <2> DEFINE met2 == InOrder(firsts, [i \in firsts |-> firsts \cap 0..i])
             all2 == [k \in DOMAIN met2 |-> at[met2[k]]]
  <2>1. \A c : GetNodes(r, hash, c) = SubSeq(all2, 1, Min({c, N, Len(all2)}))
    BY Zenon DEF GetNodes, Walk, Firsts, Around, Start
  <2>2. met2 = met
    BY <1>5
  <2> HIDE DEF met, met2
  <2> QED BY <2>1, <2>2
<1> HIDE DEF at, firsts, index, far, order
<1>7. InKeyOrder(firsts, index, met)
  BY <1>3, InOrderIs
<1>8. Cardinality(firsts) = N /\ \A k \in 1..N : order[k] = Meets(r, hash)[met[k]]
  <2> HIDE DEF N
  <2>1. Cardinality(firsts) = Cardinality(r.nodes)
        /\ \A k \in 1..Cardinality(r.nodes) : InOrder(r.nodes, UpTo(r.nodes, far))[k] = Meets(r, hash)[met[k]]
    BY ONLY <1>3, OrdersAgree
  <2> HIDE DEF met
  <2> QED BY <1>4, <2>1 DEF N
<1> HIDE DEF met
<1>9. met \in [1..N -> firsts] /\ N \in Nat
  <2>1. N \in Nat
    BY <1>3, PlacesRise
  <2> QED BY <1>7, <1>8, <2>1 DEF InKeyOrder
<1> HIDE DEF N
<1>10. \A k \in 1..N : order[k] = at[met[k]]
  BY <1>8, <1>9 DEF Meets, firsts, at
<1>11. all = order /\ Len(all) = N
  <2>1. all = [k \in 1..N |-> at[met[k]]]
    BY <1>9
  <2>2. order = [k \in 1..N |-> order[k]]
    BY <1>4 DEF InOrder, N
  <2>3. all = order
    BY <1>10, <2>1, <2>2
  <2>4. Len(all) = N
    BY <1>9, <2>1
  <2> QED BY <2>3, <2>4
<1>12. \A c : GetNodes(r, hash, c) = SubSeq(order, 1, Min({c, N}))
  <2>1. \A c : {c, N, Len(all)} = {c, N}
    BY <1>11
  <2> HIDE DEF all
  <2> QED BY <1>6, <1>11, <2>1
<1>13. r.ring = <<>> <=> r.nodes = {}
  <2>0. r.ring = <<>> <=> n = 0
    BY <1>1, <1>2, EmptySeq
  <2>1. CASE r.nodes = {}
    <3>1. n = 0
      BY <1>2, <2>1 DEF RingFits
    <3> QED BY <2>0, <2>1, <3>1
  <2>2. ASSUME NEW m \in r.nodes PROVE r.ring # <<>>
    <3>1. PICK p \in OwnHashes(m) : TRUE
      BY <1>1, OwnHashesAre
    <3>2. \E i \in 1..n : r.ring[i] = p
      BY <1>2 DEF RingFits
    <3>3. n # 0
      BY <3>2
    <3> QED BY <2>0, <3>3
  <2> QED BY <2>1, <2>2
<1>14. ASSUME r.ring # <<>> PROVE GetNode(r, hash) = order[1]
  <2>1. n > 0
    BY <1>1, <1>2, <1>14
  <2>2. PICK s \in 0..n : s = Start(r, hash)
    BY <1>2, SearchIs
  <2>3. Search(r, hash) = s + 1
    BY <2>2, SearchIs
  <2>4. Around(r, hash, 0) = IF s < n THEN s + 1 ELSE 1
    <3>1. s % n = IF s < n THEN s ELSE 0
      BY <2>1
    <3> QED BY <1>2, <2>2, <3>1 DEF Around
  <2>5. GetNode(r, hash) = at[0]
    <3>1. at[0] = r.map[r.ring[Around(r, hash, 0)]]
      BY <1>2, <2>1 DEF at, Walk
    <3>2. GetNode(r, hash) = r.map[r.ring[IF s + 1 > n THEN 1 ELSE s + 1]]
      BY <1>2, <1>14, <2>3 DEF GetNode
    <3>3. (IF s + 1 > n THEN 1 ELSE s + 1) = IF s < n THEN s + 1 ELSE 1
      OBVIOUS
    <3> QED BY <2>4, <3>1, <3>2, <3>3
  <2>6. 0 \in firsts
    BY <1>2, <2>1 DEF firsts, Firsts, Walk
  <2>7. Cardinality(UpTo(firsts, index)[0]) = 1
    <3>1. UpTo(firsts, index)[0] = {0}
      BY <1>5, <2>6
    <3> QED BY <3>1, FS_Singleton
  <2>8. met[1] = 0 /\ 1 \in 1..N
    <3>1. Cardinality(UpTo(firsts, index)[0]) \in 1..N
      BY <1>3, <1>8, <2>6, PlacesRise
    <3> QED BY <1>7, <2>6, <2>7, <3>1 DEF InKeyOrder
  <2> QED BY <1>10, <2>5, <2>8
<1>15. GetNode(r, hash) = IF r.nodes = {} THEN Nobody ELSE order[1]
  BY <1>13, <1>14 DEF GetNode
<1> QED BY <1>12, <1>15 DEF order, N

\* Whatever nodes came and went in whatever order, a ring gives a key to the
\* nodes with the next positions clockwise, and to no node that is not in the
\* ring; unless two virtual nodes have one hash (consistent_hash.go:35-120).
THEOREM RingsFollowNodes == RingsSpec => []RingFollowsNodes
<1>1. ASSUME NoCollision, RingsInv PROVE RingFollowsNodes
  <2>1. SUFFICES ASSUME NEW r \in Range(rings), NEW hash \in KeyHashes
                 PROVE  /\ GetNode(r, hash) = IF r.nodes = {} THEN Nobody ELSE ClosestFirst(r.nodes, hash)[1]
                        /\ \A c : GetNodes(r, hash, c) = SubSeq(ClosestFirst(r.nodes, hash), 1, Min({c, Cardinality(r.nodes)}))
    BY DEF RingFollowsNodes
  <2>2. RingFits(r)
    BY <1>1 DEF Range, RingsInv
  <2>3. hash \in Positions
    BY HashRingParameters DEF Positions
  <2> QED BY <2>2, <2>3, RingServes
<1>2. ~NoCollision => RingFollowsNodes
  BY DEF RingFollowsNodes
<1> DEFINE I == NoCollision => RingsInv
<1>3. OwnRings => I
  BY RingsInitially
<1>4. I /\ [RingsNext]_ringsVars => I'
  BY RingsStep DEF NoCollision
<1>5. I => RingFollowsNodes
  BY <1>1, <1>2
<1> HIDE DEF I
<1> QED BY <1>3, <1>4, <1>5, PTL DEF RingsSpec
===============================================================================
