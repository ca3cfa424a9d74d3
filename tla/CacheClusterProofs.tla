---------------------------- MODULE CacheClusterProofs ----------------------------
(***************************************************************************)
(* Proofs about CacheCluster, for any nodes, callers, calls and keys.      *)
(*                                                                         *)
(* The epochs come first: what they need of the state is who will raise    *)
(* which epoch, and to what.  Then one level in memory: what each of its   *)
(* operations leaves, drops and keeps.  Then staleness: what each          *)
(* goroutine carries is fixed by where it is (Fits), and a step either     *)
(* leaves a repair that is under way to be carried out (Carries), or hands *)
(* it on, or carries it out, so that nothing stale is served after it.     *)
(***************************************************************************)
EXTENDS CacheCluster, FiniteSetTheorems, SequenceTheorems, WellFoundedInduction, TLAPS

Ops    == {"none", "get", "set", "warm", "invalidate", "clear", "tag", "setTagged", "update"}
News0  == [type : Ops, key : Keys \cup {NoKey}, node : Nodes, epoch : Nat]
Fields == {"pc", "op", "key", "val", "keys", "again", "seen", "cur"}

\* A goroutine that is about to swap an epoch is about to raise it.
Sound(t) ==
  /\ DOMAIN t = Fields
  /\ t.op \in Ops /\ t.key \in Keys \cup {NoKey} /\ t.seen \in Nat /\ t.cur \in Nat
  /\ t.pc = "cas" => t.seen > t.cur

TasksSound == DOMAIN task = Procs /\ \A p \in Procs : Sound(task[p])

EpochInv ==
  /\ epoch \in [Nodes -> Nat]
  /\ inbox \in [Nodes -> Seq(News0)]
  /\ TasksSound

EpochsRise == \A n \in Nodes : epoch'[n] >= epoch[n]

-----------------------------------------------------------------------------
LEMMA NodeOfProc == ASSUME NEW p \in Procs PROVE NodeOf(p) \in Nodes
  BY ClusterParameters DEF Procs, NodeOf

LEMMA IdleSound == Sound(Idle)
  BY DEF Sound, Idle, Fields, Ops

\* A goroutine that goes somewhere else than to the swap stays sound.
LEMMA ElsewhereSound ==
  ASSUME NEW t, Sound(t), NEW pc, pc # "cas"
  PROVE  Sound([t EXCEPT !.pc = pc])
<1> DEFINE u == [t EXCEPT !.pc = pc]
<1>1. DOMAIN u = Fields
  BY DEF Sound
<1>2. u.pc = pc /\ u.op = t.op /\ u.key = t.key /\ u.seen = t.seen /\ u.cur = t.cur
  BY DEF Sound, Fields
<1> HIDE DEF u
<1>3. Sound(u)
  BY <1>1, <1>2 DEF Sound
<1> QED BY <1>3 DEF u

LEMMA BecomeSound ==
  ASSUME TasksSound, NEW p \in Procs, NEW t, Sound(t), Become(p, t)
  PROVE  TasksSound'
  BY DEF TasksSound, Become

LEMMA GotoSound ==
  ASSUME TasksSound, NEW p \in Procs, NEW pc, pc # "cas", Goto(p, pc)
  PROVE  TasksSound'
<1>1. Sound([task[p] EXCEPT !.pc = pc])
  BY ElsewhereSound DEF TasksSound
<1> QED BY <1>1, BecomeSound DEF Goto

LEMMA FinishSound ==
  ASSUME TasksSound, NEW p \in Procs, Finish(p)
  PROVE  TasksSound'
  BY IdleSound, BecomeSound DEF Finish

\* What is most common: a step that only moves a goroutine on.
Quiet == UNCHANGED <<epoch, inbox>> /\ TasksSound'

LEMMA QuietIsSafe ==
  ASSUME EpochInv, Quiet
  PROVE  EpochInv' /\ EpochsRise
  BY DEF EpochInv, Quiet, EpochsRise

-----------------------------------------------------------------------------
LEMMA StartStep ==
  ASSUME EpochInv, NEW p \in Callers, NEW r \in Menu[p], Start(p, r)
  PROVE  Quiet
<1> DEFINE t == [Idle EXCEPT !.pc = FirstStep[r.op], !.op = r.op, !.key = r.key, !.val = r.val]
<1>1. r.op \in {"get", "set", "warm", "invalidate", "clear", "tag", "setTagged"} /\ r.key \in Keys \cup {NoKey}
  BY ClusterParameters DEF Call
<1>2. FirstStep[r.op] # "cas"
  BY <1>1 DEF FirstStep
<1>3. DOMAIN t = Fields
  BY DEF Idle, Fields
<1>4. t.pc = FirstStep[r.op] /\ t.op = r.op /\ t.key = r.key /\ t.seen = 0 /\ t.cur = 0
  BY DEF Idle
<1>5. Become(p, t) /\ UNCHANGED <<epoch, inbox>>
  BY DEF Start
<1> HIDE DEF t
<1>6. Sound(t)
  BY <1>1, <1>2, <1>3, <1>4 DEF Sound, Ops
<1> QED BY <1>5, <1>6, BecomeSound DEF Quiet, EpochInv, Procs

LEMMA GetStep ==
  ASSUME EpochInv, NEW p \in Procs, GetSteps(p)
  PROVE  Quiet
<1>0. TasksSound /\ Sound(task[p])
  BY DEF EpochInv, TasksSound
<1>1. CASE GetL1(p)
  BY <1>0, <1>1, FinishSound, GotoSound DEF GetL1, Quiet
<1>2. CASE GetL2(p)
  <2>1. CASE Become(p, [task[p] EXCEPT !.pc = "promote", !.val = l2[Key(p)]])
    <3> DEFINE t == [task[p] EXCEPT !.pc = "promote", !.val = l2[Key(p)]]
    <3>1. DOMAIN t = Fields
      BY <1>0 DEF Sound
    <3>2. t.pc = "promote" /\ t.op = task[p].op /\ t.key = task[p].key /\ t.seen = task[p].seen /\ t.cur = task[p].cur
      BY <1>0 DEF Sound, Fields
    <3> HIDE DEF t
    <3>3. Sound(t)
      BY <1>0, <3>1, <3>2 DEF Sound
    <3> QED BY <1>0, <1>2, <2>1, <3>3, BecomeSound DEF GetL2, Quiet, t
  <2>2. CASE Goto(p, "legacy") \/ Goto(p, "owner")
    BY <1>0, <1>2, <2>2, GotoSound DEF GetL2, Quiet
  <2> QED BY <1>2, <2>1, <2>2 DEF GetL2
<1>3. CASE Promote(p)
  BY <1>0, <1>3, FinishSound DEF Promote, Quiet
<1>4. CASE GetLegacy(p)
  BY <1>0, <1>4, FinishSound, GotoSound DEF GetLegacy, Quiet
<1>5. CASE AskOwner(p)
  <2>1. CASE Become(p, [task[p] EXCEPT !.pc = "l1", !.again = TRUE])
    <3> DEFINE t == [task[p] EXCEPT !.pc = "l1", !.again = TRUE]
    <3>1. DOMAIN t = Fields
      BY <1>0 DEF Sound
    <3>2. t.pc = "l1" /\ t.op = task[p].op /\ t.key = task[p].key /\ t.seen = task[p].seen /\ t.cur = task[p].cur
      BY <1>0 DEF Sound, Fields
    <3> HIDE DEF t
    <3>3. Sound(t)
      BY <1>0, <3>1, <3>2 DEF Sound
    <3> QED BY <1>0, <1>5, <2>1, <3>3, BecomeSound DEF AskOwner, Quiet, t
  <2>2. CASE Finish(p)
    BY <1>0, <1>5, <2>2, FinishSound DEF AskOwner, Quiet
  <2> QED BY <1>5, <2>1, <2>2 DEF AskOwner
<1> QED BY <1>1, <1>2, <1>3, <1>4, <1>5 DEF GetSteps

-----------------------------------------------------------------------------
(* A caller that announces a change takes the next epoch of its node.      *)

LEMMA NextEpochStep ==
  ASSUME EpochInv, NEW p \in Procs, NextEpoch(p)
  PROVE  EpochInv' /\ EpochsRise
<1> DEFINE n == NodeOf(p)
           t == [task[p] EXCEPT !.pc = "publish", !.seen = epoch[n] + 1]
<1>1. n \in Nodes /\ epoch[n] \in Nat /\ TasksSound /\ Sound(task[p])
  BY NodeOfProc DEF EpochInv, TasksSound
<1>2. DOMAIN t = Fields
  BY <1>1 DEF Sound
<1>3. t.pc = "publish" /\ t.op = task[p].op /\ t.key = task[p].key /\ t.seen = epoch[n] + 1 /\ t.cur = task[p].cur
  BY <1>1 DEF Sound, Fields
<1>4. Become(p, t) /\ epoch' = [epoch EXCEPT ![n] = epoch[n] + 1] /\ inbox' = inbox
  BY DEF NextEpoch
<1> HIDE DEF t, n
<1>5. Sound(t)
  BY <1>1, <1>2, <1>3 DEF Sound
<1>6. TasksSound'
  BY <1>1, <1>4, <1>5, BecomeSound
<1>7. epoch' \in [Nodes -> Nat] /\ EpochsRise
  BY <1>1, <1>4 DEF EpochInv, EpochsRise
<1> QED BY <1>4, <1>6, <1>7 DEF EpochInv

LEMMA PublishStep ==
  ASSUME EpochInv, NEW p \in Procs, NEW R \in SUBSET Nodes, Publish(p, R)
  PROVE  EpochInv' /\ EpochsRise
<1>1. TasksSound /\ Sound(task[p]) /\ NodeOf(p) \in Nodes
  BY NodeOfProc DEF EpochInv, TasksSound
<1>2. News(p) \in News0
  BY <1>1 DEF News, News0, Sound, Key, Ops
<1>3. \A n \in Nodes : Append(inbox[n], News(p)) \in Seq(News0)
  BY <1>2 DEF EpochInv
<1>4. inbox' \in [Nodes -> Seq(News0)]
  BY <1>3 DEF Publish, EpochInv
<1>5. TasksSound' /\ UNCHANGED epoch
  BY <1>1, FinishSound DEF Publish
<1> QED BY <1>4, <1>5 DEF EpochInv, EpochsRise

LEMMA WriteStep ==
  ASSUME EpochInv, NEW p \in Procs, WriteSteps(p)
  PROVE  EpochInv' /\ EpochsRise
<1>0. TasksSound
  BY DEF EpochInv
<1>1. CASE WriteL1(p) \/ DeleteL1(p) \/ DeleteL2(p) \/ ClearL1(p)
  <2>1. Quiet
    BY <1>0, <1>1, GotoSound DEF WriteL1, DeleteL1, DeleteL2, ClearL1, Quiet
  <2> QED BY <2>1, QuietIsSafe
<1>2. CASE WriteL2(p)
  <2>1. Quiet
    BY <1>0, <1>2, GotoSound, FinishSound DEF WriteL2, Quiet
  <2> QED BY <2>1, QuietIsSafe
<1>3. CASE NextEpoch(p)
  BY <1>3, NextEpochStep
<1>4. CASE \E R \in SUBSET (Nodes \ {NodeOf(p)}) : Publish(p, R)
  <2>1. PICK R \in SUBSET Nodes : Publish(p, R)
    BY <1>4
  <2> QED BY <2>1, PublishStep
<1> QED BY <1>1, <1>2, <1>3, <1>4 DEF WriteSteps

LEMMA TagStep ==
  ASSUME EpochInv, NEW p \in Procs, TagSteps(p)
  PROVE  Quiet
<1>0. TasksSound /\ Sound(task[p])
  BY DEF EpochInv, TasksSound
<1>1. CASE TagMembers(p)
  <2>1. CASE Become(p, [task[p] EXCEPT !.pc = "delTagged", !.keys = tagged])
    <3> DEFINE t == [task[p] EXCEPT !.pc = "delTagged", !.keys = tagged]
    <3>1. DOMAIN t = Fields
      BY <1>0 DEF Sound
    <3>2. t.pc = "delTagged" /\ t.op = task[p].op /\ t.key = task[p].key /\ t.seen = task[p].seen /\ t.cur = task[p].cur
      BY <1>0 DEF Sound, Fields
    <3> HIDE DEF t
    <3>3. Sound(t)
      BY <1>0, <3>1, <3>2 DEF Sound
    <3> QED BY <1>0, <1>1, <2>1, <3>3, BecomeSound DEF TagMembers, Quiet, t
  <2>2. CASE TagDone(p)
    BY <1>0, <1>1, <2>2, FinishSound, GotoSound DEF TagMembers, TagDone, Quiet
  <2> QED BY <1>1, <2>1, <2>2 DEF TagMembers
<1>2. CASE DeleteTagged(p)
  BY <1>0, <1>2, FinishSound, GotoSound DEF DeleteTagged, TagDone, Quiet
<1>3. CASE DeleteTag(p)
  BY <1>0, <1>3, FinishSound, GotoSound DEF DeleteTag, TagDone, Quiet
<1>4. CASE SetTagged(p)
  BY <1>0, <1>4, FinishSound, GotoSound DEF SetTagged, Quiet
<1>5. CASE AddTag(p)
  BY <1>0, <1>5, FinishSound DEF AddTag, Quiet
<1> QED BY <1>1, <1>2, <1>3, <1>4, <1>5 DEF TagSteps

-----------------------------------------------------------------------------
(* The subscriber.  What it loads is lower than what it stores, and it     *)
(* stores only over what it loaded.                                        *)

LEMMA ReceiveStep ==
  ASSUME EpochInv, NEW n \in Nodes, Receive(n)
  PROVE  EpochInv' /\ EpochsRise
<1> DEFINE e == Head(inbox[n])
           t == [Idle EXCEPT !.pc = "load", !.op = e.type, !.key = e.key, !.seen = e.epoch]
<1>1. inbox[n] \in Seq(News0) /\ inbox[n] # <<>> /\ TasksSound
  BY DEF EpochInv, Receive
<1>2. e \in News0 /\ Tail(inbox[n]) \in Seq(News0)
  BY <1>1
<1>3. DOMAIN t = Fields
  BY DEF Idle, Fields
<1>4. t.pc = "load" /\ t.op = e.type /\ t.key = e.key /\ t.seen = e.epoch /\ t.cur = 0
  BY DEF Idle
<1>5. Become(n, t) /\ inbox' = [inbox EXCEPT ![n] = Tail(inbox[n])] /\ UNCHANGED epoch
  BY DEF Receive
<1> HIDE DEF t, e
<1>6. Sound(t)
  BY <1>2, <1>3, <1>4 DEF Sound, News0
<1>7. TasksSound'
  BY <1>1, <1>5, <1>6, BecomeSound DEF Procs
<1>8. inbox' \in [Nodes -> Seq(News0)]
  BY <1>2, <1>5 DEF EpochInv
<1> QED BY <1>5, <1>7, <1>8 DEF EpochInv, EpochsRise

LEMMA LoadEpochStep ==
  ASSUME EpochInv, NEW n \in Nodes, LoadEpoch(n)
  PROVE  Quiet
<1>0. TasksSound /\ Sound(task[n]) /\ epoch[n] \in Nat /\ n \in Procs
  BY DEF EpochInv, TasksSound, Procs
<1>1. CASE task[n].seen <= epoch[n]
  BY <1>0, <1>1, GotoSound DEF LoadEpoch, Quiet
<1>2. CASE ~(task[n].seen <= epoch[n])
  <2> DEFINE t == [task[n] EXCEPT !.pc = "cas", !.cur = epoch[n]]
  <2>1. DOMAIN t = Fields
    BY <1>0 DEF Sound
  <2>2. t.pc = "cas" /\ t.op = task[n].op /\ t.key = task[n].key /\ t.seen = task[n].seen /\ t.cur = epoch[n]
    BY <1>0 DEF Sound, Fields
  <2>3. Become(n, t) /\ UNCHANGED <<epoch, inbox>>
    BY <1>2 DEF LoadEpoch
  <2> HIDE DEF t
  <2>4. Sound(t)
    BY <1>0, <1>2, <2>1, <2>2 DEF Sound
  <2> QED BY <1>0, <2>3, <2>4, BecomeSound DEF Quiet
<1> QED BY <1>1, <1>2

LEMMA SwapEpochStep ==
  ASSUME EpochInv, NEW n \in Nodes, SwapEpoch(n)
  PROVE  EpochInv' /\ EpochsRise
<1>0. TasksSound /\ Sound(task[n]) /\ epoch[n] \in Nat /\ n \in Procs
  BY DEF EpochInv, TasksSound, Procs
<1>1. CASE epoch[n] = task[n].cur
  <2>1. task[n].seen > epoch[n] /\ task[n].seen \in Nat
    BY <1>0, <1>1 DEF SwapEpoch, At, Sound
  <2>2. epoch' = [epoch EXCEPT ![n] = task[n].seen] /\ inbox' = inbox /\ Goto(n, "apply")
    BY <1>1 DEF SwapEpoch
  <2>3. epoch' \in [Nodes -> Nat] /\ EpochsRise
    BY <1>0, <2>1, <2>2 DEF EpochInv, EpochsRise
  <2>4. TasksSound'
    BY <1>0, <2>2, GotoSound
  <2> QED BY <2>2, <2>3, <2>4 DEF EpochInv
<1>2. CASE epoch[n] # task[n].cur
  <2>1. Quiet
    BY <1>0, <1>2, GotoSound DEF SwapEpoch, Quiet
  <2> QED BY <2>1, QuietIsSafe
<1> QED BY <1>1, <1>2

LEMMA ApplyStep ==
  ASSUME EpochInv, NEW n \in Nodes, Apply(n)
  PROVE  Quiet
  BY FinishSound, GotoSound DEF Apply, Quiet, EpochInv, Procs

-----------------------------------------------------------------------------
LEMMA EpochInitially == Init => EpochInv
<1> SUFFICES ASSUME Init PROVE EpochInv
  OBVIOUS
<1>1. TasksSound
  BY IdleSound DEF Init, TasksSound
<1> QED BY <1>1 DEF Init, EpochInv

LEMMA EpochStep == EpochInv /\ [Next]_vars => EpochInv' /\ EpochsRise
<1> SUFFICES ASSUME EpochInv, [Next]_vars PROVE EpochInv' /\ EpochsRise
  OBVIOUS
<1>1. CASE \E p \in Callers : \E r \in Menu[p] : Start(p, r)
  BY <1>1, StartStep, QuietIsSafe
<1>2. CASE \E p \in Procs : GetSteps(p) \/ TagSteps(p)
  BY <1>2, GetStep, TagStep, QuietIsSafe
<1>3. CASE \E p \in Procs : WriteSteps(p)
  BY <1>3, WriteStep
<1>4. CASE \E n \in Nodes : Subscriber(n)
  <2>1. CASE \E n \in Nodes : Receive(n) \/ SwapEpoch(n)
    BY <2>1, ReceiveStep, SwapEpochStep
  <2>2. CASE \E n \in Nodes : LoadEpoch(n) \/ Apply(n)
    BY <2>2, LoadEpochStep, ApplyStep, QuietIsSafe
  <2> QED BY <1>4, <2>1, <2>2 DEF Subscriber
<1>5. CASE UNCHANGED <<epoch, inbox, task>>
  <2>1. Quiet
    BY <1>5 DEF Quiet, EpochInv, TasksSound
  <2> QED BY <2>1, QuietIsSafe
<1>6. CASE \/ \E n \in Nodes : Cleanup(n) \/ \E k \in Keys : Expire(n, k)
           \/ \E k \in Keys : ExpireL2(k)
           \/ ExpireTag
  <2>1. UNCHANGED <<epoch, inbox, task>>
    BY <1>6 DEF Cleanup, Expire, ExpireL2, ExpireTag
  <2> QED BY <2>1, <1>5
<1>7. CASE UNCHANGED vars
  BY <1>5, <1>7 DEF vars
<1>8. CASE \E p \in Procs : Step(p)
  BY <1>2, <1>3, <1>4, <1>8 DEF Step
<1> QED BY <1>1, <1>6, <1>7, <1>8 DEF Next

\* A node that is about to swap its epoch raises it, whatever it was told.
THEOREM SwapsRaise == Spec => []EpochInv
  BY EpochInitially, EpochStep, PTL DEF Spec

\* The epoch of a node never falls (distributed.go:68, 344): neither the calls
\* that raise it while the subscriber is between loading and swapping it, nor
\* announcements that arrive late or overtake each other set it back.
THEOREM EpochsNeverFall == Spec => EpochMonotone
<1>1. EpochInv /\ [Next]_vars => [EpochsRise]_vars
  BY EpochStep
<1>2. [EpochsRise]_vars <=> [\A n \in Nodes : epoch'[n] >= epoch[n]]_vars
  BY DEF EpochsRise
<1> QED BY <1>1, <1>2, SwapsRaise, PTL DEF Spec, EpochMonotone

-----------------------------------------------------------------------------
(* One level in memory.  Its entries have different keys, and what its     *)
(* operations leave in it was there before, but for the key that is set.   *)

\* Induction, over a set of numbers.
LEMMA Induction ==
  ASSUME NEW T, 0 \in T, \A n \in Nat : n \in T => n + 1 \in T
  PROVE  \A n \in Nat : n \in T
<1> DEFINE R == OpToRel(<, Nat)
           U == Nat \ T
<1>1. IsWellFoundedOn(R, Nat)
  BY NatLessThanWellFounded
<1>2. \A i, j \in Nat : i < j => <<i, j>> \in R
  BY DEF OpToRel
<1> HIDE DEF R
<1>3. SUFFICES ASSUME U # {} PROVE FALSE
  OBVIOUS
<1>4. PICK x \in U : \A y \in U : <<y, x>> \notin R
  <2>1. U \subseteq Nat OBVIOUS
  <2> HIDE DEF U
  <2> QED BY <1>1, <1>3, <2>1, WFMin
<1>5. x \in Nat /\ x \notin T
  BY <1>4
<1>6. x # 0 /\ x - 1 \in Nat /\ x - 1 < x
  BY <1>5
<1>7. x - 1 \notin U
  BY <1>4, <1>2, <1>5, <1>6
<1>8. (x - 1) + 1 \in T
  BY <1>6, <1>7
<1> QED BY <1>5, <1>6, <1>8

LEMMA RemoveAtProperties ==
  ASSUME NEW S, NEW s \in Seq(S), NEW i \in 1..Len(s)
  PROVE  /\ RemoveAt(s, i) \in Seq(S) /\ Len(RemoveAt(s, i)) = Len(s) - 1
         /\ \A n \in 1..(Len(s) - 1) : RemoveAt(s, i)[n] = IF n < i THEN s[n] ELSE s[n + 1]
<1>1. PICK l \in Nat : l = Len(s) /\ i \in 1..l /\ \A n \in 1..l : s[n] \in S
  BY LenProperties, ElementOfSeq
<1> PICK h : h = i - 1
  OBVIOUS
<1> PICK k : k = i + 1
  OBVIOUS
<1> PICK f : f = SubSeq(s, 1, h)
  OBVIOUS
<1> PICK t : t = SubSeq(s, k, l)
  OBVIOUS
<1>2. h \in Int /\ k \in Int /\ l \in Int /\ h = i - 1 /\ k = i + 1 /\ h \in 0..l
  BY <1>1
<1>3. f \in Seq(S) /\ Len(f) = h /\ \A n \in 1..h : f[n] = s[n]
  <2>1. \A n \in 1..h : s[n] \in S
    BY <1>1, <1>2
  <2>2. /\ f \in Seq(S) /\ Len(f) = IF 1 <= h THEN h - 1 + 1 ELSE 0
        /\ \A n \in 1..(h - 1 + 1) : f[n] = s[1 + n - 1]
    BY <1>2, <2>1, SubSeqProperties
  <2> QED BY <1>2, <2>2
<1>4. t \in Seq(S) /\ Len(t) = l - i /\ \A n \in 1..(l - i) : t[n] = s[i + n]
  <2>1. \A n \in k..l : s[n] \in S
    BY <1>1, <1>2
  <2>2. /\ t \in Seq(S) /\ Len(t) = IF k <= l THEN l - k + 1 ELSE 0
        /\ \A n \in 1..(l - k + 1) : t[n] = s[k + n - 1]
    BY <1>2, <2>1, SubSeqProperties
  <2>3. l - k + 1 = l - i /\ (k > l => l - i = 0)
    BY <1>1, <1>2
  <2>4. Len(t) = l - i
    BY <2>2, <2>3, <1>2
  <2>5. ASSUME NEW n \in 1..(l - i) PROVE t[n] = s[i + n]
    <3>1. k + n - 1 = i + n
      BY <1>1, <1>2
    <3> QED BY <2>2, <2>3, <3>1
  <2> QED BY <2>2, <2>4, <2>5
<1>5. RemoveAt(s, i) = f \o t
  BY <1>1 DEF RemoveAt
<1> PICK q : q = f \o t
  OBVIOUS
<1>6. /\ q \in Seq(S) /\ Len(q) = Len(f) + Len(t)
      /\ \A n \in 1..(Len(f) + Len(t)) : q[n] = IF n <= Len(f) THEN f[n] ELSE t[n - Len(f)]
  <2>1. /\ f \o t \in Seq(S) /\ Len(f \o t) = Len(f) + Len(t)
        /\ \A n \in 1..(Len(f) + Len(t)) :
             (f \o t)[n] = IF n <= Len(f) THEN f[n] ELSE t[n - Len(f)]
    BY <1>3, <1>4, ConcatProperties
  <2> QED BY <2>1
<1>7. /\ Len(q) = l - 1
      /\ \A n \in 1..(l - 1) : q[n] = IF n <= h THEN f[n] ELSE t[n - h]
  <2>1. h + (l - i) = l - 1
    BY <1>1, <1>2
  <2> QED BY ZenonT(40), <1>3, <1>4, <1>6, <2>1
<1>8. ASSUME NEW n \in 1..(l - 1)
      PROVE  q[n] = IF n < i THEN s[n] ELSE s[n + 1]
  <2>1. CASE n <= h
    <3>1. n \in 1..h /\ n < i
      BY <1>2, <2>1, <1>1
    <3> QED BY <1>3, <1>7, <2>1, <3>1
  <2>2. CASE ~(n <= h)
    <3>1. n - h \in 1..(l - i) /\ i + (n - h) = n + 1 /\ ~(n < i)
      BY <1>1, <1>2, <2>2
    <3>2. t[n - h] = s[i + (n - h)]
      BY <1>4, <3>1
    <3> QED BY <1>7, <2>2, <3>1, <3>2
  <2> QED BY <2>1, <2>2
<1> QED BY ZenonT(40), <1>1, <1>5, <1>6, <1>7, <1>8

\* The entry of a key is in one place.
Distinct(c) == \A i, j \in 1..Len(c) : c[i].key = c[j].key => i = j
Level == {c \in Seq(Entry) : Distinct(c)}

\* What d serves of the key k, c served too.
Keeps(c, d, k) == Live(d, k) => Live(c, k) /\ Find(d, k).val = Find(c, k).val

LEMMA LevelHas ==
  ASSUME NEW c \in Level
  PROVE  /\ c \in Seq(Entry) /\ Len(c) \in Nat /\ DOMAIN c = 1..Len(c)
         /\ \A i \in 1..Len(c) : c[i] \in Entry
         /\ \A i, j \in 1..Len(c) : c[i].key = c[j].key => i = j
  BY LenProperties, ElementOfSeq DEF Level, Distinct

LEMMA FindHas ==
  ASSUME NEW c \in Level, NEW k, HasKey(c, k)
  PROVE  /\ PlaceOf(c, k) \in 1..Len(c) /\ Find(c, k) = c[PlaceOf(c, k)] /\ Find(c, k).key = k
         /\ \A i \in 1..Len(c) : c[i].key = k => i = PlaceOf(c, k)
<1>1. \E i \in DOMAIN c : c[i].key = k
  BY DEF HasKey, KeysOf
<1>2. PlaceOf(c, k) \in DOMAIN c /\ c[PlaceOf(c, k)].key = k
  BY <1>1 DEF PlaceOf
<1> QED BY <1>2, LevelHas DEF Find

LEMMA HasIf ==
  ASSUME NEW c \in Level, NEW i \in 1..Len(c)
  PROVE  HasKey(c, c[i].key) /\ Find(c, c[i].key) = c[i]
<1>1. HasKey(c, c[i].key)
  BY LevelHas DEF HasKey, KeysOf
<1> QED BY <1>1, FindHas

\* Whatever is still there is as it was.
LEMMA PartKeeps ==
  ASSUME NEW c \in Level, NEW d \in Level, NEW k,
         \A i \in 1..Len(d) : d[i].key = k /\ ~d[i].dead => \E j \in 1..Len(c) : c[j] = d[i]
  PROVE  Keeps(c, d, k)
<1> SUFFICES ASSUME Live(d, k) PROVE Live(c, k) /\ Find(d, k).val = Find(c, k).val
  BY DEF Keeps
<1>1. PICK i \in 1..Len(d) : d[i] = Find(d, k) /\ d[i].key = k /\ ~d[i].dead
  BY FindHas DEF Live
<1>2. PICK j \in 1..Len(c) : c[j] = d[i]
  BY <1>1
<1>3. HasKey(c, k) /\ Find(c, k) = c[j]
  BY <1>1, <1>2, HasIf
<1> QED BY <1>1, <1>2, <1>3 DEF Live

\* d is c without the entry of k.
Without(c, d, k) ==
  /\ d \in Level /\ ~HasKey(d, k) /\ Len(d) = (IF HasKey(c, k) THEN Len(c) - 1 ELSE Len(c))
  /\ \A i \in 1..Len(d) : \E j \in 1..Len(c) : c[j] = d[i]

LEMMA DeleteLevel ==
  ASSUME NEW c \in Level, NEW k
  PROVE  Without(c, L1Delete(c, k), k)
<1> PICK d : d = L1Delete(c, k)
  OBVIOUS
<1>3. SUFFICES /\ d \in Level /\ ~HasKey(d, k)
               /\ Len(d) = (IF HasKey(c, k) THEN Len(c) - 1 ELSE Len(c))
               /\ \A i \in 1..Len(d) : \E j \in 1..Len(c) : c[j] = d[i]
  BY DEF Without
<1>0. /\ c \in Seq(Entry) /\ Len(c) \in Nat /\ DOMAIN c = 1..Len(c)
      /\ \A i, j \in 1..Len(c) : c[i].key = c[j].key => i = j
  BY LevelHas
<1>1. CASE ~HasKey(c, k)
  BY <1>0, <1>1 DEF L1Delete
<1>2. CASE HasKey(c, k)
  <2> PICK p : p = PlaceOf(c, k)
    OBVIOUS
  <2>1. p \in 1..Len(c) /\ \A i \in 1..Len(c) : c[i].key = k => i = p
    BY <1>2, FindHas
  <2>2. d = RemoveAt(c, p)
    BY <1>2 DEF L1Delete
  <2>3. /\ d \in Seq(Entry) /\ Len(d) = Len(c) - 1
        /\ \A n \in 1..(Len(c) - 1) : d[n] = IF n < p THEN c[n] ELSE c[n + 1]
    <3>1. /\ RemoveAt(c, p) \in Seq(Entry) /\ Len(RemoveAt(c, p)) = Len(c) - 1
          /\ \A n \in 1..(Len(c) - 1) : RemoveAt(c, p)[n] = IF n < p THEN c[n] ELSE c[n + 1]
      BY <1>0, <2>1, RemoveAtProperties
    <3> QED BY <2>2, <3>1
  <2> PICK o : o = [n \in 1..(Len(c) - 1) |-> IF n < p THEN n ELSE n + 1]
    OBVIOUS
  <2>4. /\ \A n \in 1..Len(d) : o[n] \in 1..Len(c) /\ o[n] # p /\ d[n] = c[o[n]]
        /\ \A m, n \in 1..Len(d) : o[m] = o[n] => m = n
    BY <1>0, <2>1, <2>3
  <2>5. d \in Level
    <3>1. ASSUME NEW i \in 1..Len(d), NEW j \in 1..Len(d), d[i].key = d[j].key
          PROVE  i = j
      <4>1. o[i] \in 1..Len(c) /\ d[i] = c[o[i]] /\ o[j] \in 1..Len(c) /\ d[j] = c[o[j]]
        BY <2>4
      <4>2. c[o[i]].key = c[o[j]].key
        BY <3>1, <4>1
      <4>3. o[i] = o[j]
        BY <1>0, <4>1, <4>2
      <4> QED BY <2>4, <4>3
    <3> QED BY <2>3, <3>1 DEF Level, Distinct
  <2>6. ~HasKey(d, k)
    <3>1. ASSUME NEW i \in 1..Len(d) PROVE d[i].key # k
      <4>1. o[i] \in 1..Len(c) /\ o[i] # p /\ d[i] = c[o[i]]
        BY <2>4
      <4> QED BY <2>1, <4>1
    <3> QED BY <2>5, <3>1, LevelHas DEF HasKey, KeysOf
  <2> QED BY <1>2, <2>3, <2>4, <2>5, <2>6
<1> QED BY <1>1, <1>2

\* A new entry at the end, of a key that is not there.
LEMMA AppendLevel ==
  ASSUME NEW c \in Level, NEW e \in Entry, ~HasKey(c, e.key)
  PROVE  LET d == Append(c, e) IN
         /\ d \in Level /\ Len(d) = Len(c) + 1 /\ HasKey(d, e.key) /\ Find(d, e.key) = e
         /\ \A i \in 1..Len(d) : d[i] = e \/ \E j \in 1..Len(c) : c[j] = d[i]
<1> PICK d : d = Append(c, e)
  OBVIOUS
<1>0. /\ c \in Seq(Entry) /\ Len(c) \in Nat /\ DOMAIN c = 1..Len(c)
      /\ \A i, j \in 1..Len(c) : c[i].key = c[j].key => i = j
  BY LevelHas
<1>1. /\ d \in Seq(Entry) /\ Len(d) = Len(c) + 1
      /\ \A i \in 1..Len(c) : d[i] = c[i]
      /\ d[Len(c) + 1] = e
  BY <1>0, AppendProperties
<1>2. \A i \in 1..Len(c) : c[i].key # e.key
  BY <1>0 DEF HasKey, KeysOf
<1>3. \A i \in 1..Len(d) : i \in 1..Len(c) \/ i = Len(c) + 1
  BY <1>0, <1>1
<1>4. d \in Level
  <2>1. ASSUME NEW i \in 1..Len(d), NEW j \in 1..Len(d), d[i].key = d[j].key
        PROVE  i = j
    BY <1>0, <1>1, <1>2, <1>3, <2>1
  <2> QED BY <1>1, <2>1 DEF Level, Distinct
<1>5. HasKey(d, e.key) /\ Find(d, e.key) = e
  <2>1. Len(c) + 1 \in 1..Len(d)
    BY <1>0, <1>1
  <2> QED BY <1>1, <1>4, <2>1, HasIf
<1> QED BY <1>1, <1>3, <1>4, <1>5

LEMMA EvictLevel ==
  ASSUME NEW c \in Level, Len(c) <= MaxL1
  PROVE  LET d == Evict(c) IN
         /\ d \in Level /\ Len(d) < MaxL1
         /\ \A i \in 1..Len(d) : \E j \in 1..Len(c) : c[j] = d[i]
<1> PICK d : d = Evict(c)
  OBVIOUS
<1>0. /\ c \in Seq(Entry) /\ Len(c) \in Nat
      /\ \A i, j \in 1..Len(c) : c[i].key = c[j].key => i = j
  BY LevelHas
<1>1. CASE Len(c) >= MaxL1
  <2>1. c # <<>>
    BY <1>1, LevelOneParameters, EmptySeq
  <2>2. /\ d \in Seq(Entry) /\ Len(d) = Len(c) - 1
        /\ \A i \in 1..Len(d) : d[i] = c[i + 1]
    BY <1>0, <1>1, <2>1, HeadTailProperties DEF Evict
  <2>3. \A i \in 1..Len(d) : i + 1 \in 1..Len(c)
    BY <1>0, <2>2
  <2>4. d \in Level
    BY <1>0, <2>2, <2>3 DEF Level, Distinct
  <2>5. Len(d) < MaxL1
    BY <1>0, <1>1, <2>2, LevelOneParameters
  <2> QED BY <2>2, <2>3, <2>4, <2>5
<1>2. CASE ~(Len(c) >= MaxL1)
  BY <1>0, <1>2, LevelOneParameters DEF Evict
<1> QED BY <1>1, <1>2

LEMMA SetLevel ==
  ASSUME NEW c \in Level, Len(c) <= MaxL1, NEW k \in Keys, NEW v \in Values
  PROVE  LET d == L1Set(c, k, v) IN
         /\ d \in Level /\ Len(d) <= MaxL1 /\ HasKey(d, k) /\ Find(d, k).val = v
         /\ \A q : q # k => Keeps(c, d, q)
<1> PICK b : b = Evict(c)
  OBVIOUS
<1>2. /\ b \in Level /\ Len(b) < MaxL1
      /\ \A i \in 1..Len(b) : \E j \in 1..Len(c) : c[j] = b[i]
  BY EvictLevel
<1> PICK a : a = L1Delete(b, k)
  OBVIOUS
<1>3. /\ a \in Level /\ ~HasKey(a, k) /\ Len(a) = (IF HasKey(b, k) THEN Len(b) - 1 ELSE Len(b))
      /\ \A i \in 1..Len(a) : \E j \in 1..Len(b) : b[j] = a[i]
  <2>1. b \in Level
    BY <1>2
  <2>2. Without(b, a, k)
    BY <2>1, DeleteLevel
  <2> QED BY <2>2 DEF Without
<1> PICK e : e = [key |-> k, val |-> v, dead |-> FALSE]
  OBVIOUS
<1> PICK d : d = Append(a, e)
  OBVIOUS
<1>1. e \in Entry /\ e.key = k /\ e.val = v
  BY DEF Entry
<1>4. /\ d \in Level /\ Len(d) = Len(a) + 1 /\ HasKey(d, k) /\ Find(d, k) = e
      /\ \A i \in 1..Len(d) : d[i] = e \/ \E j \in 1..Len(a) : a[j] = d[i]
  BY <1>1, <1>3, AppendLevel
<1>5. Len(d) <= MaxL1
  BY <1>2, <1>3, <1>4, LevelHas, LevelOneParameters
<1>6. ASSUME NEW q, q # k PROVE Keeps(c, d, q)
  <2>1. ASSUME NEW i \in 1..Len(d), d[i].key = q PROVE \E j \in 1..Len(c) : c[j] = d[i]
    <3>1. d[i] # e
      BY <1>1, <1>6, <2>1
    <3>2. PICK j \in 1..Len(a) : a[j] = d[i]
      BY <1>4, <3>1
    <3>3. PICK h \in 1..Len(b) : b[h] = a[j]
      BY <1>3
    <3> QED BY <1>2, <3>2, <3>3
  <2>2. \A i \in 1..Len(d) : d[i].key = q /\ ~d[i].dead => \E j \in 1..Len(c) : c[j] = d[i]
    BY <2>1
  <2>3. d \in Level
    BY <1>4
  <2> QED BY <2>2, <2>3, PartKeeps
<1>7. L1Set(c, k, v) = d
  BY DEF L1Set
<1> QED BY <1>1, <1>4, <1>5, <1>6, <1>7

LEMMA GetLevel ==
  ASSUME NEW c \in Level, NEW k
  PROVE  LET d == L1Get(c, k).cache IN
         d \in Level /\ Len(d) <= Len(c) /\ \A q : Keeps(c, d, q)
<1> PICK a : a = L1Delete(c, k)
  OBVIOUS
<1>1. /\ a \in Level /\ ~HasKey(a, k) /\ Len(a) = (IF HasKey(c, k) THEN Len(c) - 1 ELSE Len(c))
      /\ \A i \in 1..Len(a) : \E j \in 1..Len(c) : c[j] = a[i]
  <2>1. Without(c, a, k)
    BY DeleteLevel
  <2> QED BY <2>1 DEF Without
<1>2. CASE ~Live(c, k)
  <2>1. L1Get(c, k).cache = a
    BY <1>2 DEF L1Get
  <2>2. Len(a) <= Len(c)
    BY <1>1, LevelHas
  <2> QED BY <1>1, <2>1, <2>2, PartKeeps
<1>3. CASE Live(c, k)
  <2> PICK e : e = Find(c, k)
    OBVIOUS
  <2> PICK d : d = Append(a, e)
    OBVIOUS
  <2>1. HasKey(c, k) /\ e \in Entry /\ e.key = k /\ \E j \in 1..Len(c) : c[j] = e
    BY <1>3, FindHas, LevelHas DEF Live
  <2>2. /\ d \in Level /\ Len(d) = Len(a) + 1
        /\ \A i \in 1..Len(d) : d[i] = e \/ \E j \in 1..Len(a) : a[j] = d[i]
    BY <1>1, <2>1, AppendLevel
  <2>3. ASSUME NEW i \in 1..Len(d) PROVE \E j \in 1..Len(c) : c[j] = d[i]
    <3>1. CASE d[i] = e
      BY <2>1, <3>1
    <3>2. CASE d[i] # e
      <4>1. PICK j \in 1..Len(a) : a[j] = d[i]
        BY <2>2, <3>2
      <4> QED BY <1>1, <4>1
    <3> QED BY <3>1, <3>2
  <2>4. Len(d) <= Len(c)
    BY <1>1, <2>1, <2>2, LevelHas
  <2>5. \A q : Keeps(c, d, q)
    BY ZenonT(40), <2>2, <2>3, PartKeeps
  <2>6. L1Get(c, k).cache = d
    BY <1>3 DEF L1Get
  <2> QED BY <2>2, <2>4, <2>5, <2>6
<1> QED BY <1>2, <1>3

LEMMA DieLevel ==
  ASSUME NEW c \in Level, NEW k
  PROVE  LET d == Die(c, k) IN
         d \in Level /\ Len(d) = Len(c) /\ \A q : Keeps(c, d, q)
<1> PICK d : d = Die(c, k)
  OBVIOUS
<1>0. /\ c \in Seq(Entry) /\ Len(c) \in Nat /\ DOMAIN c = 1..Len(c)
      /\ \A i \in 1..Len(c) : c[i] \in Entry
      /\ \A i, j \in 1..Len(c) : c[i].key = c[j].key => i = j
  BY LevelHas
<1>1. d = [i \in 1..Len(c) |-> IF c[i].key = k THEN [c[i] EXCEPT !.dead = TRUE] ELSE c[i]]
  BY <1>0 DEF Die
<1>2. ASSUME NEW i \in 1..Len(c)
      PROVE  d[i] \in Entry /\ d[i].key = c[i].key /\ (~d[i].dead => d[i] = c[i])
  <2>1. c[i] \in Entry
    BY <1>0
  <2> PICK e : e = c[i]
    OBVIOUS
  <2> PICK f : f = [e EXCEPT !.dead = TRUE]
    OBVIOUS
  <2>2. f \in Entry /\ f.key = e.key /\ f.dead
    BY <2>1 DEF Entry
  <2>3. d[i] = IF e.key = k THEN f ELSE e
    BY <1>1
  <2> QED BY <2>1, <2>2, <2>3
<1>3. d \in Seq(Entry) /\ Len(d) = Len(c)
  <2>1. d \in [1..Len(c) -> Entry]
    BY <1>1, <1>2
  <2> QED BY <1>0, <2>1
<1>4. d \in Level
  <2>1. ASSUME NEW i \in 1..Len(d), NEW j \in 1..Len(d), d[i].key = d[j].key
        PROVE  i = j
    <3>1. i \in 1..Len(c) /\ j \in 1..Len(c)
      BY <1>3
    <3>2. c[i].key = c[j].key
      BY <1>2, <2>1, <3>1
    <3> QED BY <1>0, <3>1, <3>2
  <2> QED BY <1>3, <2>1 DEF Level, Distinct
<1>5. ASSUME NEW q PROVE Keeps(c, d, q)
  BY <1>2, <1>3, <1>4, PartKeeps
<1> QED BY <1>3, <1>4, <1>5

\* Kept(c) is the function whose last value CleanExpired gives.
Kept(c) ==
  CHOOSE f : f = [n \in 0..Len(c) |-> IF n = 0 THEN <<>>
                                      ELSE IF c[n].dead THEN f[n - 1] ELSE Append(f[n - 1], c[n])]

LEMMA KeptExists ==
  ASSUME NEW c \in Level
  PROVE  /\ CleanExpired(c) = Kept(c)[Len(c)]
         /\ Kept(c)[0] = <<>>
         /\ \A n \in 1..Len(c) :
              Kept(c)[n] = IF c[n].dead THEN Kept(c)[n - 1] ELSE Append(Kept(c)[n - 1], c[n])
<1> DEFINE Next1(s, n) == IF c[n].dead THEN s ELSE Append(s, c[n])
           Keeping(f, n) == /\ f = [i \in 0..n |-> f[i]] /\ f[0] = <<>>
                            /\ \A i \in 1..n : f[i] = Next1(f[i - 1], i)
           Some(n) == \E f : Keeping(f, n)
           T == {n \in Nat : n <= Len(c) => Some(n)}
<1>1. Len(c) \in Nat
  BY LevelHas
<1>2. 0 \in T
  <2>1. Keeping([n \in 0..0 |-> <<>>], 0) OBVIOUS
  <2> QED BY <2>1
<1>3. ASSUME NEW n \in Nat, n \in T PROVE n + 1 \in T
  <2>1. SUFFICES ASSUME n + 1 <= Len(c) PROVE Some(n + 1)
    <3> HIDE DEF Some
    <3> QED OBVIOUS
  <2>2. Some(n)
    <3> HIDE DEF Some
    <3> QED BY <1>1, <1>3, <2>1
  <2>3. PICK f : Keeping(f, n)
    BY <2>2
  <2> PICK last : last = Next1(f[n], n + 1)
    OBVIOUS
  <2> DEFINE g == [i \in 0..(n + 1) |-> IF i <= n THEN f[i] ELSE last]
  <2>4. g = [i \in 0..(n + 1) |-> g[i]] /\ g[0] = <<>>
    BY <2>3
  <2>5. ASSUME NEW i \in 1..(n + 1) PROVE g[i] = Next1(g[i - 1], i)
    <3> HIDE DEF Next1
    <3>1. CASE i = n + 1
      <4>1. g[i] = last /\ g[i - 1] = f[n]
        BY <3>1
      <4> QED BY <3>1, <4>1
    <3>2. CASE i \in 1..n
      <4>1. f[i] = Next1(f[i - 1], i)
        BY <2>3, <3>2
      <4>2. g[i] = f[i] /\ g[i - 1] = f[i - 1]
        BY <3>2
      <4> QED BY <4>1, <4>2
    <3> QED BY <3>1, <3>2
  <2> HIDE DEF g
  <2> QED BY <2>4, <2>5
<1>4. Len(c) \in T
  <2> HIDE DEF T
  <2> QED BY <1>1, <1>2, <1>3, Induction
<1>5. PICK f : Keeping(f, Len(c))
  BY <1>1, <1>4
<1>6. f = [n \in 0..Len(c) |-> IF n = 0 THEN <<>>
                               ELSE IF c[n].dead THEN f[n - 1] ELSE Append(f[n - 1], c[n])]
  <2>1. ASSUME NEW n \in 0..Len(c)
        PROVE  f[n] = IF n = 0 THEN <<>>
                      ELSE IF c[n].dead THEN f[n - 1] ELSE Append(f[n - 1], c[n])
    <3>1. n = 0 \/ n \in 1..Len(c)
      BY <1>1
    <3> QED BY <1>5, <3>1
  <2>2. f = [n \in 0..Len(c) |-> f[n]]
    BY <1>5
  <2> QED BY <2>1, <2>2
<1>7. Kept(c) = [n \in 0..Len(c) |-> IF n = 0 THEN <<>>
                   ELSE IF c[n].dead THEN Kept(c)[n - 1] ELSE Append(Kept(c)[n - 1], c[n])]
  BY <1>6 DEF Kept
<1> DEFINE s == Kept(c)
<1> HIDE DEF s
<1>8. s = [n \in 0..Len(c) |-> IF n = 0 THEN <<>>
             ELSE IF c[n].dead THEN s[n - 1] ELSE Append(s[n - 1], c[n])]
  BY <1>7 DEF s
<1>9. /\ s[0] = <<>>
      /\ \A n \in 1..Len(c) : s[n] = IF c[n].dead THEN s[n - 1] ELSE Append(s[n - 1], c[n])
  <2>1. 0 \in 0..Len(c) /\ \A n \in 1..Len(c) : n \in 0..Len(c) /\ n # 0
    BY <1>1
  <2>2. s[0] = <<>>
    BY <1>8, <2>1
  <2>3. ASSUME NEW n \in 1..Len(c)
        PROVE  s[n] = IF c[n].dead THEN s[n - 1] ELSE Append(s[n - 1], c[n])
    <3>1. n \in 0..Len(c) /\ n # 0
      BY <2>1
    <3> QED BY <1>8, <3>1
  <2> QED BY <2>2, <2>3
<1>10. CleanExpired(c) = Kept(c)[Len(c)]
  BY DEF CleanExpired, Kept
<1> QED BY <1>9, <1>10 DEF s

LEMMA CleanLevel ==
  ASSUME NEW c \in Level
  PROVE  LET d == CleanExpired(c) IN
         d \in Level /\ Len(d) <= Len(c) /\ \A q : Keeps(c, d, q)
<1> PICK s : s = Kept(c)
  OBVIOUS
<1>0. /\ c \in Seq(Entry) /\ Len(c) \in Nat
      /\ \A i \in 1..Len(c) : c[i] \in Entry
      /\ \A i, j \in 1..Len(c) : c[i].key = c[j].key => i = j
  BY LevelHas
<1>1. /\ CleanExpired(c) = s[Len(c)] /\ s[0] = <<>>
      /\ \A n \in 1..Len(c) : s[n] = IF c[n].dead THEN s[n - 1] ELSE Append(s[n - 1], c[n])
  BY KeptExists
<1> DEFINE Part(n) == /\ s[n] \in Level /\ Len(s[n]) <= n
                      /\ \A i \in 1..Len(s[n]) : \E j \in 1..n : c[j] = s[n][i]
           T == {n \in Nat : n <= Len(c) => Part(n)}
<1>2. 0 \in T
  <2>1. <<>> \in Level /\ Len(<<>>) = 0
    BY EmptySeq DEF Level, Distinct
  <2> QED BY <1>1, <2>1
<1>3. ASSUME NEW n \in Nat, n \in T PROVE n + 1 \in T
  <2>1. SUFFICES ASSUME n + 1 <= Len(c) PROVE Part(n + 1)
    <3> HIDE DEF Part
    <3> QED OBVIOUS
  <2>2. Part(n)
    <3> HIDE DEF Part
    <3> QED BY <1>0, <1>3, <2>1
  <2> PICK m : m = n + 1
    OBVIOUS
  <2>3. m \in 1..Len(c) /\ n = m - 1 /\ c[m] \in Entry
    BY <1>0, <2>1
  <2> PICK b : b = s[n]
    OBVIOUS
  <2> PICK d : d = s[m]
    OBVIOUS
  <2>4. /\ b \in Level /\ Len(b) <= n
        /\ \A i \in 1..Len(b) : \E j \in 1..n : c[j] = b[i]
    BY <2>2
  <2>5. d = IF c[m].dead THEN b ELSE Append(b, c[m])
    BY <1>1, <2>3
  <2>6. \A j \in 1..n : j \in 1..m /\ j # m
    BY <2>3
  <2>7. CASE c[m].dead
    <3>1. d = b /\ Len(d) <= m
      BY <2>4, <2>5, <2>7, LevelHas
    <3> QED BY <2>4, <2>6, <3>1
  <2>8. CASE ~c[m].dead
    <3>1. ~HasKey(b, c[m].key)
      <4>1. ASSUME NEW i \in 1..Len(b) PROVE b[i].key # c[m].key
        <5>1. PICK j \in 1..n : c[j] = b[i]
          BY <2>4
        <5>2. j \in 1..Len(c) /\ j # m
          BY <2>3, <1>0
        <5> QED BY <1>0, <2>3, <5>1, <5>2
      <4> QED BY ZenonT(40), <2>4, <4>1, LevelHas DEF HasKey, KeysOf
    <3>2. /\ d \in Level /\ Len(d) = Len(b) + 1
          /\ \A i \in 1..Len(d) : d[i] = c[m] \/ \E j \in 1..Len(b) : b[j] = d[i]
      <4> PICK e : e = c[m]
        OBVIOUS
      <4>1. b \in Level /\ e \in Entry /\ ~HasKey(b, e.key) /\ d = Append(b, e)
        BY <2>3, <2>4, <2>5, <2>8, <3>1
      <4> QED BY <4>1, AppendLevel
    <3>3. Len(d) <= m
      BY <2>3, <2>4, <3>2, LevelHas
    <3>4. ASSUME NEW i \in 1..Len(d) PROVE \E j \in 1..m : c[j] = d[i]
      <4>1. CASE d[i] = c[m]
        BY <2>3, <4>1
      <4>2. CASE d[i] # c[m]
        <5>1. PICK j \in 1..Len(b) : b[j] = d[i]
          BY <3>2, <4>2
        <5> QED BY <2>4, <2>6, <5>1
      <4> QED BY <4>1, <4>2
    <3> QED BY <3>2, <3>3, <3>4
  <2> QED BY <2>7, <2>8
<1>4. Len(c) \in T
  <2> HIDE DEF T
  <2> QED BY <1>0, <1>2, <1>3, Induction
<1>5. Part(Len(c))
  BY <1>0, <1>4
<1> PICK d : d = CleanExpired(c)
  OBVIOUS
<1>6. d \in Level /\ Len(d) <= Len(c) /\ \A i \in 1..Len(d) : \E j \in 1..Len(c) : c[j] = d[i]
  BY <1>1, <1>5
<1> QED BY <1>6, PartKeeps

-----------------------------------------------------------------------------
(* What each goroutine carries, by where it is.                            *)

Gets     == {"l1", "l2", "promote", "legacy", "owner"}
Telling  == {"epoch", "publish"}
Applying == {"load", "cas", "apply"}
EventOps == {"invalidate", "tag", "update", "clear"}

Fits(p, t) ==
  /\ t.pc \in Phases /\ t.key \in Keys \cup {NoKey} /\ t.keys \in SUBSET Keys
  /\ t.pc \in Gets => p \in Callers /\ t.key \in Keys
  /\ t.pc \in {"promote", "setL1", "setL2", "setTagged"} => t.val \in Values
  /\ t.pc \in {"setL1", "setL2"} => p \in Callers /\ t.key \in Keys /\ t.op \in {"set", "warm"}
  /\ t.pc \in {"delL1", "delL2"} => p \in Callers /\ t.key \in Keys /\ t.op = "invalidate"
  /\ t.pc = "clear" => p \in Callers /\ t.op = "clear"
  /\ t.pc \in {"setTagged", "addTag"} => p \in Callers /\ t.key \in Keys
  /\ t.pc \in Telling => p \in Callers /\ t.op \in {"set", "invalidate", "clear", "tag"}
  /\ t.pc \in Applying => p \in Nodes /\ t.op \in EventOps
  /\ t.pc \in {"members", "delTagged", "delTag"} => t.op = "tag"

TasksFit == DOMAIN task = Procs /\ \A p \in Procs : Sound(task[p]) /\ Fits(p, task[p])

LevelsFit == l1 \in [Nodes -> Level] /\ \A n \in Nodes : Len(l1[n]) <= MaxL1

CacheInv ==
  /\ LevelsFit
  /\ l2 \in [Keys -> Values \cup {None}] /\ tagged \in SUBSET Keys
  /\ inbox \in [Nodes -> Seq(Event)]
  /\ TasksFit
  /\ calls \in 0..MaxCalls

\* u is t in another place.
Moved(t, u, pc) ==
  /\ u.pc = pc /\ u.op = t.op /\ u.key = t.key /\ u.val = t.val /\ u.keys = t.keys

LEMMA GotoMoves ==
  ASSUME NEW t, Sound(t), NEW pc
  PROVE  Moved(t, [t EXCEPT !.pc = pc], pc)
  BY DEF Sound, Fields, Moved

LEMMA BecomeFits ==
  ASSUME TasksFit, TasksSound', NEW p \in Procs, NEW t, Become(p, t), Fits(p, t)
  PROVE  TasksFit'
<1>1. DOMAIN task' = Procs /\ \A q \in Procs : task'[q] = IF q = p THEN t ELSE task[q]
  BY DEF Become, TasksFit
<1> QED BY <1>1 DEF TasksFit, TasksSound

LEMMA IdleFits == ASSUME NEW p \in Procs PROVE Fits(p, Idle)
  BY DEF Fits, Idle, Phases, Gets, Telling, Applying

\* Every step keeps the fields of a goroutine in order (TasksSound).
LEMMA SoundNext ==
  ASSUME EpochInv, [Next]_vars PROVE EpochInv' /\ TasksSound'
  BY EpochStep DEF EpochInv

-----------------------------------------------------------------------------
(* Staleness.  The four ways in which a repair is under way.               *)

Queued(n, k)  == \E i \in DOMAIN inbox[n] : Covers(inbox[n][i].type, inbox[n][i].key, k)
Applied(n, k) == task[n].pc \in Applying /\ Covers(task[n].op, task[n].key, k)
Told(n, k) ==
  \E p \in Callers :
    NodeOf(p) # n /\ task[p].pc \in Telling /\ Covers(task[p].op, task[p].key, k)
Written(n, k) ==
  \E p \in Callers :
    /\ NodeOf(p) = n /\ task[p].pc = "setL2" /\ task[p].key = k
    /\ task[p].val = Find(l1[n], k).val

LEMMA RepairIs ==
  ASSUME NEW n, NEW k
  PROVE  /\ RepairUnderWay(n, k) <=> Queued(n, k) \/ Applied(n, k) \/ Told(n, k) \/ Written(n, k)
         /\ RepairUnderWay(n, k)' <=> Queued(n, k)' \/ Applied(n, k)' \/ Told(n, k)' \/ Written(n, k)'
  BY DEF RepairUnderWay, Queued, Applied, Told, Written, At, Key, Applying, Telling

\* A step of p takes away no repair that p carries out.
Carries(p, n, k) ==
  \/ task'[p] = task[p]
  \/ task[p].pc \notin Applying \cup Telling \cup {"setL2"}
  \/ /\ \/ task[p].pc \in Applying /\ task'[p].pc \in Applying
        \/ task[p].pc \in Telling /\ task'[p].pc \in Telling
     /\ task'[p].op = task[p].op /\ task'[p].key = task[p].key
  \/ task[p].pc = "setL2" /\ ~(NodeOf(p) = n /\ task[p].key = k)

LEMMA AppliedStays ==
  ASSUME NEW n \in Nodes, NEW k, Applied(n, k), Carries(n, n, k)
  PROVE  Applied(n, k)'
  BY DEF Applied, Carries, Applying, Telling

LEMMA ToldStays ==
  ASSUME NEW n \in Nodes, NEW k, Told(n, k), \A p \in Callers : Carries(p, n, k)
  PROVE  Told(n, k)'
<1> PICK p \in Callers : NodeOf(p) # n /\ task[p].pc \in Telling /\ Covers(task[p].op, task[p].key, k)
  BY DEF Told
<1>1. task'[p].pc \in Telling /\ Covers(task'[p].op, task'[p].key, k)
  BY DEF Carries, Applying, Telling
<1> QED BY <1>1 DEF Told, NodeOf

LEMMA WrittenStays ==
  ASSUME NEW n \in Nodes, NEW k, Written(n, k), \A p \in Callers : Carries(p, n, k),
         Keeps(l1[n], l1'[n], k), Live(l1'[n], k)
  PROVE  Written(n, k)'
<1> PICK p \in Callers : /\ NodeOf(p) = n /\ task[p].pc = "setL2" /\ task[p].key = k
                         /\ task[p].val = Find(l1[n], k).val
  BY DEF Written
<1>1. task'[p] = task[p]
  BY DEF Carries, Applying, Telling
<1>2. Find(l1'[n], k).val = Find(l1[n], k).val
  BY DEF Keeps
<1> QED BY <1>1, <1>2 DEF Written, NodeOf

\* A step makes the copy of k on node n stale only if it is excused.
Right(n, k) == Stale(n, k)' /\ ~Stale(n, k) => Excused(n, k)

LEMMA StaleIs ==
  ASSUME NEW n \in Nodes, NEW k
  PROVE  /\ l1 \in [Nodes -> Level] =>
              (Stale(n, k) <=> Live(l1[n], k) /\ Find(l1[n], k).val # l2[k] /\ ~RepairUnderWay(n, k))
         /\ l1' \in [Nodes -> Level] =>
              (Stale(n, k)' <=> Live(l1'[n], k) /\ Find(l1'[n], k).val # l2'[k] /\ ~RepairUnderWay(n, k)')
<1>1. ASSUME NEW c \in Level, NEW v, Live(c, k)
      PROVE  (\E i \in DOMAIN c : c[i].key = k /\ c[i].val # v) <=> Find(c, k).val # v
  BY <1>1, FindHas, LevelHas DEF Live
<1>2. ASSUME l1 \in [Nodes -> Level]
      PROVE  Stale(n, k) <=> Live(l1[n], k) /\ Find(l1[n], k).val # l2[k] /\ ~RepairUnderWay(n, k)
  <2>1. l1[n] \in Level
    BY <1>2
  <2>2. Live(l1[n], k) => (Differs(n, k) <=> Find(l1[n], k).val # l2[k])
    BY <1>1, <2>1 DEF Differs
  <2> QED BY <2>2 DEF Stale
<1>3. ASSUME l1' \in [Nodes -> Level]
      PROVE  Stale(n, k)' <=> Live(l1'[n], k) /\ Find(l1'[n], k).val # l2'[k] /\ ~RepairUnderWay(n, k)'
  <2>1. l1'[n] \in Level
    BY <1>3
  <2>2. Live(l1'[n], k) => (Differs(n, k)' <=> Find(l1'[n], k).val # l2'[k])
    BY <1>1, <2>1 DEF Differs
  <2> QED BY <2>2 DEF Stale
<1> QED BY <1>2, <1>3

\* Neither copy changes: then a repair must have got lost.
LEMMA CopiesStay ==
  ASSUME LevelsFit, LevelsFit', NEW n \in Nodes, NEW k,
         Keeps(l1[n], l1'[n], k), l2'[k] = l2[k],
         Live(l1'[n], k) /\ RepairUnderWay(n, k) => RepairUnderWay(n, k)' \/ Excused(n, k)
  PROVE  Right(n, k)
  BY StaleIs DEF LevelsFit, Right, Keeps

\* The most common kind of step: nothing of the kind happens.
LEMMA NothingLost ==
  ASSUME LevelsFit, LevelsFit', NEW n \in Nodes, NEW k,
         Keeps(l1[n], l1'[n], k), l2'[k] = l2[k],
         inbox'[n] = inbox[n], \A p \in Procs : Carries(p, n, k)
  PROVE  Right(n, k)
<1>1. ASSUME Live(l1'[n], k), RepairUnderWay(n, k) PROVE RepairUnderWay(n, k)'
  <2>1. Queued(n, k) => Queued(n, k)'
    BY DEF Queued
  <2>2. Carries(n, n, k) /\ \A p \in Callers : Carries(p, n, k)
    BY DEF Procs
  <2> QED BY <1>1, <2>1, <2>2, RepairIs, AppliedStays, ToldStays, WrittenStays
<1> QED BY <1>1, CopiesStay

LEMMA KeepsItself == ASSUME NEW c, NEW k PROVE Keeps(c, c, k)
  BY DEF Keeps

-----------------------------------------------------------------------------
(* The steps.                                                              *)

Good == CacheInv' /\ \A n \in Nodes, k \in Keys : Right(n, k)

\* The caches but for one level stay, and so does what is under way.
LEMMA CalmStep ==
  ASSUME CacheInv, TasksFit', LevelsFit', l2' = l2, inbox' = inbox,
         tagged' \in SUBSET Keys, calls' \in 0..MaxCalls,
         \A n \in Nodes, k \in Keys : Keeps(l1[n], l1'[n], k),
         \A p \in Procs, n \in Nodes, k \in Keys : Carries(p, n, k)
  PROVE  Good
<1>1. CacheInv'
  BY DEF CacheInv
<1>2. ASSUME NEW n \in Nodes, NEW k \in Keys PROVE Right(n, k)
  <2>1. /\ LevelsFit /\ Keeps(l1[n], l1'[n], k) /\ l2'[k] = l2[k] /\ inbox'[n] = inbox[n]
        /\ \A p \in Procs : Carries(p, n, k)
    BY DEF CacheInv
  <2> QED BY <2>1, NothingLost
<1> QED BY <1>1, <1>2 DEF Good

LEMMA Moves ==
  ASSUME TasksFit, NEW p \in Procs, NEW t, Become(p, t)
  PROVE  task'[p] = t /\ \A q \in Procs : q # p => task'[q] = task[q]
  BY DEF Become, TasksFit

\* A goroutine moves on, and touches nothing but tags or the epoch.
LEMMA OnlyTaskMoves ==
  ASSUME CacheInv, TasksSound', NEW p \in Procs, NEW t, Become(p, t), Fits(p, t),
         UNCHANGED <<l1, l2, inbox>>, tagged' \in SUBSET Keys, calls' \in 0..MaxCalls,
         \A n \in Nodes, k \in Keys : Carries(p, n, k)
  PROVE  Good
<1>1. TasksFit /\ LevelsFit
  BY DEF CacheInv
<1>2. TasksFit'
  BY <1>1, BecomeFits
<1>3. LevelsFit'
  BY <1>1 DEF LevelsFit
<1>4. \A n \in Nodes, k \in Keys : Keeps(l1[n], l1'[n], k)
  BY KeepsItself
<1>5. \A q \in Procs, n \in Nodes, k \in Keys : Carries(q, n, k)
  <2>1. \A q \in Procs : q # p => task'[q] = task[q]
    BY <1>1, Moves
  <2> QED BY <2>1 DEF Carries
<1> QED BY <1>2, <1>3, <1>4, <1>5, CalmStep

\* A level of one node changes, keeping what it serves.
LEMMA LevelChanges ==
  ASSUME LevelsFit, NEW n \in Nodes, NEW d \in Level, Len(d) <= MaxL1, SetL1(n, d)
  PROVE  /\ LevelsFit' /\ l1'[n] = d /\ \A m \in Nodes : m # n => l1'[m] = l1[m]
         /\ \A k : Keeps(l1[n], d, k) => \A m \in Nodes : Keeps(l1[m], l1'[m], k)
<1>1. l1' = [l1 EXCEPT ![n] = d]
  BY DEF SetL1
<1>2. LevelsFit' /\ l1'[n] = d /\ \A m \in Nodes : m # n => l1'[m] = l1[m]
  BY <1>1 DEF LevelsFit
<1> QED BY <1>2, KeepsItself

LEMMA StartFits ==
  ASSUME CacheInv, TasksSound', NEW p \in Callers, NEW r \in Menu[p], Start(p, r)
  PROVE  Good
<1> PICK t : t = [Idle EXCEPT !.pc = FirstStep[r.op], !.op = r.op, !.key = r.key, !.val = r.val]
  OBVIOUS
<1>1. r \in Call
  BY ClusterParameters
<1>2. /\ t.pc = FirstStep[r.op] /\ t.op = r.op /\ t.key = r.key /\ t.val = r.val /\ t.keys = {}
  BY DEF Idle
<1>3. Fits(p, t)
  <2>1. CASE r \in [op : {"get", "invalidate"}, key : Keys, val : {None}]
    BY <2>1, <1>2 DEF Fits, FirstStep, Phases, Gets, Telling, Applying
  <2>2. CASE r \in [op : {"set", "warm", "setTagged"}, key : Keys, val : Values]
    BY <2>2, <1>2 DEF Fits, FirstStep, Phases, Gets, Telling, Applying
  <2>3. CASE r \in [op : {"clear", "tag"}, key : {NoKey}, val : {None}]
    BY <2>3, <1>2 DEF Fits, FirstStep, Phases, Gets, Telling, Applying
  <2> QED BY <1>1, <2>1, <2>2, <2>3 DEF Call
<1>4. Become(p, t) /\ UNCHANGED <<l1, l2, tagged, inbox>> /\ calls' = calls + 1 /\ calls < MaxCalls
  BY DEF Start
<1>5. \A n \in Nodes, k \in Keys : Carries(p, n, k)
  BY DEF Start, At, Carries, Applying, Telling
<1>6. tagged' \in SUBSET Keys /\ calls' \in 0..MaxCalls /\ p \in Procs
  BY <1>4, ClusterParameters DEF CacheInv, Procs
<1> QED BY <1>3, <1>4, <1>5, <1>6, OnlyTaskMoves

\* A goroutine goes to another place with all it has.
LEMMA GotoFits ==
  ASSUME CacheInv, TasksSound', NEW p \in Procs, NEW pc, Goto(p, pc),
         \A t : Moved(task[p], t, pc) => Fits(p, t),
         UNCHANGED <<l1, l2, inbox, calls>>, tagged' \in SUBSET Keys,
         \A n \in Nodes, k \in Keys : Carries(p, n, k)
  PROVE  Good
<1> PICK t : t = [task[p] EXCEPT !.pc = pc]
  OBVIOUS
<1>1. Sound(task[p]) /\ calls' \in 0..MaxCalls
  BY DEF CacheInv, TasksFit
<1>2. Fits(p, t)
  <2>1. Moved(task[p], t, pc)
    BY <1>1, GotoMoves
  <2> QED BY <2>1
<1>3. Become(p, t)
  BY DEF Goto
<1> QED BY <1>1, <1>2, <1>3, OnlyTaskMoves

LEMMA FinishFits ==
  ASSUME CacheInv, TasksSound', NEW p \in Procs, Finish(p),
         UNCHANGED <<l1, l2, inbox, calls>>, tagged' \in SUBSET Keys,
         \A n \in Nodes, k \in Keys : Carries(p, n, k)
  PROVE  Good
<1>1. Become(p, Idle) /\ Fits(p, Idle) /\ calls' \in 0..MaxCalls
  BY IdleFits DEF Finish, CacheInv
<1> QED BY <1>1, OnlyTaskMoves

\* Where there is nothing under way that could be lost.
Calm(p) == task[p].pc \notin Applying \cup Telling \cup {"setL2"}

LEMMA CalmCarries ==
  ASSUME NEW p, Calm(p) PROVE \A n, k : Carries(p, n, k)
  BY DEF Calm, Carries

LEMMA FitsOf ==
  ASSUME CacheInv, NEW p \in Procs
  PROVE  /\ Fits(p, task[p]) /\ Sound(task[p]) /\ TasksFit /\ LevelsFit
         /\ tagged \in SUBSET Keys /\ calls \in 0..MaxCalls
         /\ (p \in Nodes => p \notin Callers) /\ NodeOf(p) \in Nodes
  BY NodeOfProc, ClusterParameters DEF CacheInv, TasksFit

LEMMA GetL2Fits ==
  ASSUME CacheInv, TasksSound', NEW p \in Procs, GetL2(p)
  PROVE  Good
<1>1. /\ Fits(p, task[p]) /\ Sound(task[p]) /\ tagged \in SUBSET Keys /\ calls \in 0..MaxCalls
      /\ task[p].pc = "l2" /\ UNCHANGED <<l1, l2, tagged, inbox, calls>>
  BY FitsOf DEF GetL2, At
<1>2. \A n, k : Carries(p, n, k)
  BY <1>1, CalmCarries DEF Calm, Applying, Telling
<1>3. CASE l2[Key(p)] # None /\ Become(p, [task[p] EXCEPT !.pc = "promote", !.val = l2[Key(p)]])
  <2> PICK t : t = [task[p] EXCEPT !.pc = "promote", !.val = l2[Key(p)]]
    OBVIOUS
  <2>1. t.pc = "promote" /\ t.op = task[p].op /\ t.key = task[p].key /\ t.val = l2[Key(p)] /\ t.keys = task[p].keys
    BY <1>1 DEF Sound, Fields
  <2>2. l2[Key(p)] \in Values
    BY <1>1, <1>3 DEF Key, Fits, Gets, CacheInv
  <2>3. Fits(p, t)
    BY <1>1, <2>1, <2>2 DEF Fits, Phases, Gets, Telling, Applying
  <2> QED BY <1>1, <1>2, <1>3, <2>3, OnlyTaskMoves
<1>4. ASSUME NEW pc \in {"legacy", "owner"}, Goto(p, pc) PROVE Good
  <2>1. \A t : Moved(task[p], t, pc) => Fits(p, t)
    BY <1>1, <1>4 DEF Moved, Fits, Phases, Gets, Telling, Applying
  <2> QED BY <1>1, <1>2, <1>4, <2>1, GotoFits
<1> QED BY <1>3, <1>4 DEF GetL2

LEMMA LateGetFits ==
  ASSUME CacheInv, TasksSound', NEW p \in Procs, GetLegacy(p) \/ AskOwner(p)
  PROVE  Good
<1>1. /\ Fits(p, task[p]) /\ Sound(task[p]) /\ tagged \in SUBSET Keys /\ calls \in 0..MaxCalls
      /\ task[p].pc \in {"legacy", "owner"} /\ UNCHANGED <<l1, l2, tagged, inbox, calls>>
  BY FitsOf DEF GetLegacy, AskOwner, At
<1>2. \A n, k : Carries(p, n, k)
  BY <1>1, CalmCarries DEF Calm, Applying, Telling
<1>3. CASE Finish(p)
  BY <1>1, <1>2, <1>3, FinishFits
<1>4. CASE Goto(p, "owner")
  <2>1. \A t : Moved(task[p], t, "owner") => Fits(p, t)
    BY <1>1, <1>4 DEF Moved, Fits, Phases, Gets, Telling, Applying
  <2> QED BY <1>1, <1>2, <1>4, <2>1, GotoFits
<1>5. CASE Become(p, [task[p] EXCEPT !.pc = "l1", !.again = TRUE])
  <2> PICK t : t = [task[p] EXCEPT !.pc = "l1", !.again = TRUE]
    OBVIOUS
  <2>1. Moved(task[p], t, "l1")
    BY <1>1 DEF Sound, Fields, Moved
  <2>2. Fits(p, t)
    BY <1>1, <2>1 DEF Moved, Fits, Phases, Gets, Telling, Applying
  <2> QED BY <1>1, <1>2, <1>5, <2>2, OnlyTaskMoves
<1> QED BY <1>3, <1>4, <1>5 DEF GetLegacy, AskOwner

LEMMA TagStepFits ==
  ASSUME CacheInv, TasksSound', NEW p \in Procs, TagMembers(p) \/ DeleteTag(p) \/ AddTag(p)
  PROVE  Good
<1>1. /\ Fits(p, task[p]) /\ Sound(task[p]) /\ tagged \in SUBSET Keys /\ calls \in 0..MaxCalls
      /\ task[p].pc \in {"members", "delTag", "addTag"} /\ UNCHANGED <<l1, l2, inbox, calls>>
  BY FitsOf DEF TagMembers, DeleteTag, AddTag, At
<1>2. tagged' \in SUBSET Keys
  BY <1>1 DEF TagMembers, DeleteTag, AddTag, Key, At, Fits
<1>3. \A n, k : Carries(p, n, k)
  BY <1>1, CalmCarries DEF Calm, Applying, Telling
<1>4. CASE Finish(p)
  BY <1>1, <1>2, <1>3, <1>4, FinishFits
<1>5. CASE p \in Callers /\ task[p].pc # "addTag" /\ Goto(p, "epoch")
  <2>1. \A t : Moved(task[p], t, "epoch") => Fits(p, t)
    BY <1>1, <1>5 DEF Moved, Fits, Phases, Gets, Telling, Applying
  <2> QED BY <1>1, <1>2, <1>3, <1>5, <2>1, GotoFits
<1>6. CASE Become(p, [task[p] EXCEPT !.pc = "delTagged", !.keys = tagged]) /\ task[p].pc = "members"
  <2> PICK t : t = [task[p] EXCEPT !.pc = "delTagged", !.keys = tagged]
    OBVIOUS
  <2>1. t.pc = "delTagged" /\ t.op = task[p].op /\ t.key = task[p].key /\ t.keys = tagged
    BY <1>1 DEF Sound, Fields
  <2>2. Fits(p, t)
    BY <1>1, <1>6, <2>1 DEF Fits, Phases, Gets, Telling, Applying
  <2> QED BY <1>1, <1>2, <1>3, <1>6, <2>2, OnlyTaskMoves
<1> QED BY <1>4, <1>5, <1>6 DEF TagMembers, DeleteTag, AddTag, TagDone, Procs, At

\* Where a goroutine is after its step, and what the others carry out.
LEMMA GotoTasks ==
  ASSUME CacheInv, TasksSound', NEW p \in Procs, NEW pc, Goto(p, pc),
         \A t : Moved(task[p], t, pc) => Fits(p, t)
  PROVE  /\ TasksFit' /\ Moved(task[p], task'[p], pc)
         /\ \A q \in Procs : q # p => task'[q] = task[q]
         /\ Calm(p) => \A q \in Procs : \A n, k : Carries(q, n, k)
<1>1. TasksFit /\ Sound(task[p])
  BY FitsOf
<1> PICK t : t = [task[p] EXCEPT !.pc = pc]
  OBVIOUS
<1>2. Become(p, t)
  BY DEF Goto
<1>3. Moved(task[p], t, pc)
  BY <1>1, GotoMoves
<1>4. TasksFit'
  BY <1>1, <1>2, <1>3, BecomeFits
<1>5. task'[p] = t /\ \A q \in Procs : q # p => task'[q] = task[q]
  BY <1>1, <1>2, Moves
<1> QED BY <1>3, <1>4, <1>5, CalmCarries DEF Carries

LEMMA FinishTasks ==
  ASSUME CacheInv, TasksSound', NEW p \in Procs, Finish(p)
  PROVE  /\ TasksFit' /\ task'[p].pc = "idle"
         /\ \A q \in Procs : q # p => task'[q] = task[q]
         /\ Calm(p) => \A q \in Procs : \A n, k : Carries(q, n, k)
<1>1. TasksFit /\ Become(p, Idle) /\ Idle.pc = "idle"
  BY FitsOf DEF Finish, Idle
<1>2. TasksFit'
  BY <1>1, IdleFits, BecomeFits
<1>3. task'[p] = Idle /\ \A q \in Procs : q # p => task'[q] = task[q]
  BY <1>1, Moves
<1> QED BY <1>1, <1>2, <1>3, CalmCarries DEF Carries

LEMMA LevelStep ==
  ASSUME CacheInv, TasksFit', NEW n \in Nodes, NEW d \in Level, Len(d) <= MaxL1, SetL1(n, d),
         \A k : Keeps(l1[n], d, k), UNCHANGED <<l2, tagged, inbox, calls>>,
         \A q \in Procs : \A m, k : Carries(q, m, k)
  PROVE  Good
<1>1. LevelsFit' /\ \A k : \A m \in Nodes : Keeps(l1[m], l1'[m], k)
  BY LevelChanges DEF CacheInv
<1> QED BY <1>1, CalmStep DEF CacheInv

LEMMA GetL1Fits ==
  ASSUME CacheInv, TasksSound', NEW p \in Procs, GetL1(p)
  PROVE  Good
<1> PICK n : n = NodeOf(p)
  OBVIOUS
<1> PICK d : d = L1Get(l1[n], Key(p)).cache
  OBVIOUS
<1>1. /\ Fits(p, task[p]) /\ n \in Nodes /\ l1[n] \in Level /\ Len(l1[n]) <= MaxL1
      /\ task[p].pc = "l1" /\ UNCHANGED <<l2, tagged, inbox, calls>>
  BY FitsOf DEF GetL1, At, LevelsFit
<1>2. d \in Level /\ Len(d) <= Len(l1[n]) /\ \A k : Keeps(l1[n], d, k)
  BY <1>1, GetLevel
<1>3. SetL1(n, d) /\ (Finish(p) \/ Goto(p, "l2"))
  BY DEF GetL1
<1>4. Calm(p)
  BY <1>1 DEF Calm, Applying, Telling
<1>5. \A t : Moved(task[p], t, "l2") => Fits(p, t)
  BY <1>1 DEF Moved, Fits, Phases, Gets, Telling, Applying
<1>6. TasksFit' /\ \A q \in Procs : \A m, k : Carries(q, m, k)
  BY <1>3, <1>4, <1>5, GotoTasks, FinishTasks
<1>7. Len(d) <= MaxL1
  BY <1>1, <1>2, LevelHas, LevelOneParameters
<1> QED BY <1>1, <1>2, <1>3, <1>6, <1>7, LevelStep

LEMMA WithoutKeeps ==
  ASSUME NEW c \in Level, Len(c) <= MaxL1, NEW d, NEW k, Without(c, d, k)
  PROVE  d \in Level /\ Len(d) <= MaxL1 /\ \A q : Keeps(c, d, q)
<1>1. /\ d \in Level /\ Len(d) = (IF HasKey(c, k) THEN Len(c) - 1 ELSE Len(c))
      /\ \A i \in 1..Len(d) : \E j \in 1..Len(c) : c[j] = d[i]
  BY DEF Without
<1>2. Len(d) <= MaxL1
  BY <1>1, LevelHas, LevelOneParameters
<1>3. \A q : Keeps(c, d, q)
  BY <1>1, PartKeeps
<1> QED BY <1>1, <1>2, <1>3

LEMMA DropFits ==
  ASSUME CacheInv, TasksSound', NEW p \in Procs, DeleteL1(p) \/ ClearL1(p)
  PROVE  Good
<1> PICK n : n = NodeOf(p)
  OBVIOUS
<1>1. /\ Fits(p, task[p]) /\ n \in Nodes /\ l1[n] \in Level /\ Len(l1[n]) <= MaxL1
      /\ task[p].pc \in {"delL1", "clear"} /\ UNCHANGED <<l2, tagged, inbox, calls>>
  BY FitsOf DEF DeleteL1, ClearL1, At, LevelsFit
<1>2. Calm(p)
  BY <1>1 DEF Calm, Applying, Telling
<1>3. CASE DeleteL1(p)
  <2> PICK d : d = L1Delete(l1[n], Key(p))
    OBVIOUS
  <2>1. Without(l1[n], d, Key(p))
    BY <1>1, DeleteLevel
  <2>2. d \in Level /\ Len(d) <= MaxL1 /\ \A k : Keeps(l1[n], d, k)
    BY <1>1, <2>1, WithoutKeeps
  <2>3. SetL1(n, d) /\ Goto(p, "delL2") /\ task[p].pc = "delL1"
    BY <1>3 DEF DeleteL1, At
  <2>4. \A t : Moved(task[p], t, "delL2") => Fits(p, t)
    BY <1>1, <2>3 DEF Moved, Fits, Phases, Gets, Telling, Applying
  <2>5. TasksFit' /\ \A q \in Procs : \A m, k : Carries(q, m, k)
    BY <1>2, <2>3, <2>4, GotoTasks
  <2> QED BY <1>1, <2>2, <2>3, <2>5, LevelStep
<1>4. CASE ClearL1(p)
  <2>1. <<>> \in Level /\ Len(<<>>) <= MaxL1 /\ \A k : Keeps(l1[n], <<>>, k)
    <3>1. <<>> \in Level /\ Len(<<>>) = 0
      BY EmptySeq DEF Level, Distinct
    <3> QED BY <1>1, <3>1, PartKeeps, LevelOneParameters
  <2>2. SetL1(n, <<>>) /\ Goto(p, "epoch") /\ task[p].pc = "clear"
    BY <1>4 DEF ClearL1, At
  <2>3. \A t : Moved(task[p], t, "epoch") => Fits(p, t)
    BY <1>1, <2>2 DEF Moved, Fits, Phases, Gets, Telling, Applying
  <2>4. TasksFit' /\ \A q \in Procs : \A m, k : Carries(q, m, k)
    BY <1>2, <2>2, <2>3, GotoTasks
  <2> QED BY <1>1, <2>1, <2>2, <2>4, LevelStep
<1> QED BY <1>3, <1>4

\* A value that is put into a level makes that copy of that key another one,
\* and leaves all others as they were.
LEMMA SettingStep ==
  ASSUME CacheInv, TasksFit', NEW n \in Nodes, NEW k \in Keys, NEW v \in Values,
         SetL1(n, L1Set(l1[n], k, v)), UNCHANGED <<l2, tagged, inbox, calls>>,
         \A q \in Procs : \A m, x : Carries(q, m, x),
         LevelsFit' /\ HasKey(l1'[n], k) /\ Find(l1'[n], k).val = v => Right(n, k)
  PROVE  Good
<1> PICK d : d = L1Set(l1[n], k, v)
  OBVIOUS
<1>1. l1[n] \in Level /\ Len(l1[n]) <= MaxL1 /\ LevelsFit
  BY DEF CacheInv, LevelsFit
<1>2. d \in Level /\ Len(d) <= MaxL1 /\ HasKey(d, k) /\ Find(d, k).val = v
  BY <1>1, SetLevel
<1>3. \A q : q # k => Keeps(l1[n], d, q)
  BY <1>1, SetLevel
<1>4. LevelsFit' /\ l1'[n] = d /\ \A m \in Nodes : m # n => l1'[m] = l1[m]
  BY <1>1, <1>2, LevelChanges
<1>5. CacheInv'
  BY <1>4 DEF CacheInv
<1>6. ASSUME NEW m \in Nodes, NEW q \in Keys PROVE Right(m, q)
  <2>1. CASE m = n /\ q = k
    BY <1>2, <1>4, <2>1
  <2>2. CASE ~(m = n /\ q = k)
    <3>1. Keeps(l1[m], l1'[m], q)
      BY <1>3, <1>4, <2>2, KeepsItself
    <3>2. l2'[q] = l2[q] /\ inbox'[m] = inbox[m]
      OBVIOUS
    <3> QED BY <1>1, <1>4, <3>1, <3>2, NothingLost
  <2> QED BY <2>1, <2>2
<1> QED BY <1>5, <1>6 DEF Good

LEMMA PromoteFits ==
  ASSUME CacheInv, TasksSound', NEW p \in Procs, Promote(p)
  PROVE  Good
<1> PICK n : n = NodeOf(p)
  OBVIOUS
<1>1. /\ Fits(p, task[p]) /\ n \in Nodes /\ task[p].pc = "promote"
      /\ UNCHANGED <<l2, tagged, inbox, calls>>
      /\ SetL1(n, L1Set(l1[n], task[p].key, task[p].val)) /\ Finish(p)
  BY FitsOf DEF Promote, At, Key
<1>2. p \in Callers /\ task[p].key \in Keys /\ task[p].val \in Values
  BY <1>1 DEF Fits, Gets
<1>3. Calm(p)
  BY <1>1 DEF Calm, Applying, Telling
<1>4. TasksFit' /\ task'[p].pc = "idle" /\ \A q \in Procs : \A m, x : Carries(q, m, x)
  BY <1>1, <1>3, FinishTasks
<1>5. Excused(n, task[p].key)
  BY <1>1, <1>2, <1>4 DEF Excused, Leaves, At, Key
<1> QED BY <1>1, <1>2, <1>4, <1>5, SettingStep DEF Right

LEMMA WriteL1Fits ==
  ASSUME CacheInv, TasksSound', NEW p \in Procs, WriteL1(p)
  PROVE  Good
<1> PICK n : n = NodeOf(p)
  OBVIOUS
<1> PICK k : k = task[p].key
  OBVIOUS
<1> PICK v : v = task[p].val
  OBVIOUS
<1>1. /\ Fits(p, task[p]) /\ n \in Nodes /\ task[p].pc = "setL1"
      /\ UNCHANGED <<l2, tagged, inbox, calls>>
      /\ SetL1(n, L1Set(l1[n], k, v)) /\ Goto(p, "setL2")
  BY FitsOf DEF WriteL1, At, Key
<1>2. p \in Callers /\ k \in Keys /\ v \in Values
  BY <1>1 DEF Fits
<1>3. Calm(p)
  BY <1>1 DEF Calm, Applying, Telling
<1>4. \A t : Moved(task[p], t, "setL2") => Fits(p, t)
  BY <1>1 DEF Moved, Fits, Phases, Gets, Telling, Applying
<1>5. TasksFit' /\ Moved(task[p], task'[p], "setL2") /\ \A q \in Procs : \A m, x : Carries(q, m, x)
  BY <1>1, <1>3, <1>4, GotoTasks
<1>6. ASSUME LevelsFit', HasKey(l1'[n], k), Find(l1'[n], k).val = v PROVE Right(n, k)
  <2>1. Written(n, k)'
    BY <1>2, <1>5, <1>6 DEF Written, Moved, NodeOf
  <2> QED BY <1>6, <2>1, RepairIs DEF Right, Stale
<1> QED BY <1>1, <1>2, <1>5, <1>6, SettingStep

\* Redis changes, and no level does.
LEMMA ValueStep ==
  ASSUME CacheInv, TasksFit', UNCHANGED <<l1, inbox, calls>>,
         l2' \in [Keys -> Values \cup {None}], tagged' \in SUBSET Keys,
         \A n \in Nodes, k \in Keys :
           \/ Right(n, k)
           \/ l2'[k] = l2[k] /\ \A q \in Procs : Carries(q, n, k)
  PROVE  Good
<1>1. LevelsFit /\ LevelsFit'
  BY DEF CacheInv, LevelsFit
<1>2. CacheInv'
  BY <1>1 DEF CacheInv
<1>3. ASSUME NEW n \in Nodes, NEW k \in Keys, l2'[k] = l2[k], \A q \in Procs : Carries(q, n, k)
      PROVE  Right(n, k)
  <2>1. Keeps(l1[n], l1'[n], k) /\ inbox'[n] = inbox[n]
    BY KeepsItself
  <2> QED BY <1>1, <1>3, <2>1, NothingLost
<1> QED BY <1>2, <1>3 DEF Good

LEMMA WriteL2Fits ==
  ASSUME CacheInv, TasksSound', NEW p \in Procs, WriteL2(p)
  PROVE  Good
<1>1. /\ Fits(p, task[p]) /\ NodeOf(p) \in Nodes /\ task[p].pc = "setL2" /\ l2 \in [Keys -> Values \cup {None}]
      /\ UNCHANGED <<l1, tagged, inbox, calls>> /\ tagged \in SUBSET Keys
      /\ l2' = [l2 EXCEPT ![task[p].key] = task[p].val] \/ l2' = l2
  BY FitsOf DEF WriteL2, At, Key, CacheInv
<1>2. p \in Callers /\ task[p].key \in Keys /\ task[p].val \in Values /\ task[p].op \in {"set", "warm"}
  BY <1>1 DEF Fits
<1>3. l2' \in [Keys -> Values \cup {None}] /\ \A k \in Keys : k # task[p].key => l2'[k] = l2[k]
  BY <1>1, <1>2
<1>4. \A t : Moved(task[p], t, "epoch") /\ task[p].op # "warm" => Fits(p, t)
  BY <1>1, <1>2 DEF Moved, Fits, Phases, Gets, Telling, Applying
<1>5. \/ task[p].op = "warm" /\ Finish(p)
      \/ task[p].op = "set" /\ Goto(p, "epoch")
  BY <1>2 DEF WriteL2
<1>6. /\ TasksFit' /\ \A q \in Procs : q # p => task'[q] = task[q]
      /\ \/ task[p].op = "warm" /\ task'[p].pc = "idle"
         \/ task[p].op = "set" /\ Moved(task[p], task'[p], "epoch")
  <2>1. CASE task[p].op = "warm" /\ Finish(p)
    BY <2>1, FinishTasks
  <2>2. CASE task[p].op = "set" /\ Goto(p, "epoch")
    BY <1>4, <2>2, GotoTasks
  <2> QED BY <1>5, <2>1, <2>2
<1>7. ASSUME NEW n \in Nodes, NEW k \in Keys
      PROVE  \/ Right(n, k)
             \/ l2'[k] = l2[k] /\ \A q \in Procs : Carries(q, n, k)
  <2>1. task'[p].pc # "setL2"
    BY <1>6 DEF Moved
  <2>2. CASE task[p].op = "warm" \/ (NodeOf(p) = n /\ task[p].key = k)
    BY <1>1, <1>2, <2>1, <2>2 DEF Right, Excused, Leaves, At, Key
  <2>3. CASE task[p].op = "set" /\ NodeOf(p) # n /\ task[p].key = k
    <3>1. task'[p].pc = "epoch" /\ task'[p].op = "set" /\ task'[p].key = k
      BY <1>6, <2>3 DEF Moved
    <3>2. Told(n, k)'
      BY <1>2, <2>3, <3>1 DEF Told, Telling, Covers, NodeOf
    <3> QED BY <3>2, RepairIs DEF Right, Stale
  <2>4. CASE task[p].key # k
    <3>1. Carries(p, n, k) /\ l2'[k] = l2[k]
      BY <1>1, <1>3, <2>4 DEF Carries
    <3> QED BY <1>6, <3>1 DEF Carries
  <2> QED BY <1>2, <2>2, <2>3, <2>4
<1> QED BY <1>1, <1>3, <1>6, <1>7, ValueStep

LEMMA DeleteL2Fits ==
  ASSUME CacheInv, TasksSound', NEW p \in Procs, DeleteL2(p)
  PROVE  Good
<1>1. /\ Fits(p, task[p]) /\ NodeOf(p) \in Nodes /\ task[p].pc = "delL2" /\ l2 \in [Keys -> Values \cup {None}]
      /\ UNCHANGED <<l1, tagged, inbox, calls>> /\ tagged \in SUBSET Keys
      /\ l2' = [l2 EXCEPT ![task[p].key] = None] \/ l2' = l2
      /\ Goto(p, "epoch")
  BY FitsOf DEF DeleteL2, At, Key, CacheInv
<1>2. p \in Callers /\ task[p].key \in Keys /\ task[p].op = "invalidate"
  BY <1>1 DEF Fits
<1>3. l2' \in [Keys -> Values \cup {None}] /\ \A k \in Keys : k # task[p].key => l2'[k] = l2[k]
  BY <1>1, <1>2
<1>4. \A t : Moved(task[p], t, "epoch") => Fits(p, t)
  BY <1>1, <1>2 DEF Moved, Fits, Phases, Gets, Telling, Applying
<1>5. Calm(p)
  BY <1>1 DEF Calm, Applying, Telling
<1>6. TasksFit' /\ Moved(task[p], task'[p], "epoch") /\ \A q \in Procs : \A m, x : Carries(q, m, x)
  BY <1>1, <1>4, <1>5, GotoTasks
<1>7. ASSUME NEW n \in Nodes, NEW k \in Keys
      PROVE  \/ Right(n, k)
             \/ l2'[k] = l2[k] /\ \A q \in Procs : Carries(q, n, k)
  <2>1. CASE NodeOf(p) = n /\ task[p].key = k
    BY <1>1, <1>2, <1>6, <2>1 DEF Right, Excused, Leaves, At, Key, Moved
  <2>2. CASE NodeOf(p) # n /\ task[p].key = k
    <3>1. task'[p].pc = "epoch" /\ task'[p].op = "invalidate" /\ task'[p].key = k
      BY <1>2, <1>6, <2>2 DEF Moved
    <3>2. Told(n, k)'
      BY <1>2, <2>2, <3>1 DEF Told, Telling, Covers, NodeOf
    <3> QED BY <3>2, RepairIs DEF Right, Stale
  <2>3. CASE task[p].key # k
    BY <1>3, <1>6, <2>3
  <2> QED BY <2>1, <2>2, <2>3
<1> QED BY <1>1, <1>3, <1>6, <1>7, ValueStep

LEMMA TaggedValueFits ==
  ASSUME CacheInv, TasksSound', NEW p \in Procs, DeleteTagged(p) \/ SetTagged(p)
  PROVE  Good
<1>1. /\ Fits(p, task[p]) /\ task[p].pc \in {"delTagged", "setTagged"} /\ l2 \in [Keys -> Values \cup {None}]
      /\ UNCHANGED <<l1, tagged, inbox, calls>> /\ tagged \in SUBSET Keys
  BY FitsOf DEF DeleteTagged, SetTagged, At, CacheInv
<1>2. l2' \in [Keys -> Values \cup {None}]
  <2>1. CASE DeleteTagged(p)
    BY <1>1, <2>1 DEF DeleteTagged
  <2>2. CASE SetTagged(p)
    <3>1. task[p].key \in Keys /\ task[p].val \in Values
      BY <1>1, <2>2 DEF SetTagged, At, Fits
    <3> QED BY <1>1, <2>2, <3>1 DEF SetTagged, Key
  <2> QED BY <2>1, <2>2
<1>3. \/ Finish(p)
      \/ Goto(p, "delTag") /\ task[p].pc = "delTagged"
      \/ Goto(p, "epoch") /\ task[p].pc = "delTagged" /\ p \in Callers
      \/ Goto(p, "addTag") /\ task[p].pc = "setTagged"
  BY DEF DeleteTagged, SetTagged, TagDone, At, Procs
<1>4. TasksFit' /\ task'[p].pc # task[p].pc
  <2>1. CASE Finish(p)
    BY <1>1, <2>1, FinishTasks
  <2>2. CASE Goto(p, "delTag") /\ task[p].pc = "delTagged"
    <3>1. \A t : Moved(task[p], t, "delTag") => Fits(p, t)
      BY <1>1, <2>2 DEF Moved, Fits, Phases, Gets, Telling, Applying
    <3> QED BY <2>2, <3>1, GotoTasks DEF Moved
  <2>3. CASE Goto(p, "epoch") /\ task[p].pc = "delTagged" /\ p \in Callers
    <3>1. \A t : Moved(task[p], t, "epoch") => Fits(p, t)
      BY <1>1, <2>3 DEF Moved, Fits, Phases, Gets, Telling, Applying
    <3> QED BY <2>3, <3>1, GotoTasks DEF Moved
  <2>4. CASE Goto(p, "addTag") /\ task[p].pc = "setTagged"
    <3>1. \A t : Moved(task[p], t, "addTag") => Fits(p, t)
      BY <1>1, <2>4 DEF Moved, Fits, Phases, Gets, Telling, Applying
    <3> QED BY <2>4, <3>1, GotoTasks DEF Moved
  <2> QED BY <1>3, <2>1, <2>2, <2>3, <2>4
<1>5. \A n \in Nodes, k \in Keys : Right(n, k)
  BY <1>1, <1>4 DEF Right, Excused, Leaves, At
<1> QED BY <1>1, <1>2, <1>4, <1>5, ValueStep

-----------------------------------------------------------------------------
(* What is announced and taken in.                                         *)

\* The inboxes change, and no copy does.
LEMMA NewsStep ==
  ASSUME CacheInv, TasksFit', UNCHANGED <<l1, l2, tagged, calls>>, inbox' \in [Nodes -> Seq(Event)],
         \A n \in Nodes, k \in Keys : RepairUnderWay(n, k) => RepairUnderWay(n, k)' \/ Excused(n, k)
  PROVE  Good
<1>1. LevelsFit /\ LevelsFit'
  BY DEF CacheInv, LevelsFit
<1>2. CacheInv'
  BY <1>1 DEF CacheInv
<1>3. ASSUME NEW n \in Nodes, NEW k \in Keys PROVE Right(n, k)
  <2>1. Keeps(l1[n], l1'[n], k) /\ l2'[k] = l2[k]
    BY KeepsItself
  <2> QED BY <1>1, <2>1, CopiesStay
<1> QED BY <1>2, <1>3 DEF Good

\* What the callers of a node have written is still in its level.
LEMMA WrittenSame ==
  ASSUME NEW n \in Nodes, NEW k, Written(n, k), \A p \in Callers : Carries(p, n, k), l1' = l1
  PROVE  Written(n, k)'
<1> PICK p \in Callers : /\ NodeOf(p) = n /\ task[p].pc = "setL2" /\ task[p].key = k
                         /\ task[p].val = Find(l1[n], k).val
  BY DEF Written
<1>1. task'[p] = task[p]
  BY DEF Carries, Applying, Telling
<1> QED BY <1>1 DEF Written, NodeOf

LEMMA NextEpochFits ==
  ASSUME CacheInv, TasksSound', NEW p \in Procs, NextEpoch(p)
  PROVE  Good
<1> PICK t : t = [task[p] EXCEPT !.pc = "publish", !.seen = epoch[NodeOf(p)] + 1]
  OBVIOUS
<1>1. /\ Fits(p, task[p]) /\ Sound(task[p]) /\ TasksFit /\ tagged \in SUBSET Keys /\ calls \in 0..MaxCalls
      /\ task[p].pc = "epoch" /\ UNCHANGED <<l1, l2, tagged, inbox, calls>> /\ Become(p, t)
  BY FitsOf DEF NextEpoch, At
<1>2. Moved(task[p], t, "publish")
  BY <1>1 DEF Sound, Fields, Moved
<1>3. Fits(p, t)
  BY <1>1, <1>2 DEF Moved, Fits, Phases, Gets, Telling, Applying
<1>4. task'[p] = t
  BY <1>1, Moves
<1>5. \A n \in Nodes, k \in Keys : Carries(p, n, k)
  BY <1>1, <1>2, <1>4 DEF Carries, Moved, Telling
<1> QED BY <1>1, <1>3, <1>5, OnlyTaskMoves

LEMMA QueuedStays ==
  ASSUME NEW s \in Seq(Event), NEW e \in Event, NEW k
  PROVE  /\ (\E i \in DOMAIN s : Covers(s[i].type, s[i].key, k))
              => \E i \in DOMAIN Append(s, e) : Covers(Append(s, e)[i].type, Append(s, e)[i].key, k)
         /\ Covers(e.type, e.key, k)
              => \E i \in DOMAIN Append(s, e) : Covers(Append(s, e)[i].type, Append(s, e)[i].key, k)
<1> PICK u : u = Append(s, e)
  OBVIOUS
<1>1. /\ Len(s) \in Nat /\ DOMAIN s = 1..Len(s) /\ DOMAIN u = 1..(Len(s) + 1)
      /\ u[Len(s) + 1] = e /\ \A i \in 1..Len(s) : u[i] = s[i]
  BY AppendProperties, LenProperties
<1>2. ASSUME NEW i \in DOMAIN s PROVE i \in DOMAIN u /\ u[i] = s[i]
  BY <1>1
<1>3. Len(s) + 1 \in DOMAIN u
  BY <1>1
<1>4. (\E i \in DOMAIN s : Covers(s[i].type, s[i].key, k)) => \E i \in DOMAIN u : Covers(u[i].type, u[i].key, k)
  BY <1>2
<1>5. Covers(e.type, e.key, k) => \E i \in DOMAIN u : Covers(u[i].type, u[i].key, k)
  BY <1>1, <1>3
<1> QED BY <1>4, <1>5

LEMMA PublishFits ==
  ASSUME CacheInv, TasksSound', NEW p \in Procs, NEW R \in SUBSET (Nodes \ {NodeOf(p)}), Publish(p, R)
  PROVE  Good
<1> PICK e : e = News(p)
  OBVIOUS
<1>1. /\ Fits(p, task[p]) /\ Sound(task[p]) /\ NodeOf(p) \in Nodes /\ task[p].pc = "publish"
      /\ UNCHANGED <<l1, l2, tagged, calls>> /\ Finish(p)
      /\ inbox' = [n \in Nodes |-> IF n \in R THEN Append(inbox[n], e) ELSE inbox[n]]
  BY FitsOf DEF Publish, At
<1>2. p \in Callers /\ task[p].op \in {"set", "invalidate", "clear", "tag"}
  BY <1>1 DEF Fits, Telling
<1>3. e.type = (IF task[p].op = "set" THEN "update" ELSE task[p].op) /\ e.key = task[p].key
  BY DEF News, Key
<1>4. e \in Event
  BY <1>1, <1>2 DEF News, Key, Event, Sound
<1>5. \A n \in Nodes : inbox[n] \in Seq(Event)
  BY DEF CacheInv
<1>6. inbox' \in [Nodes -> Seq(Event)]
  BY <1>1, <1>4, <1>5, AppendProperties
<1>7. TasksFit' /\ task'[p].pc = "idle" /\ \A q \in Procs : q # p => task'[q] = task[q]
  BY <1>1, FinishTasks
<1>8. ASSUME NEW n \in Nodes, NEW k \in Keys, RepairUnderWay(n, k)
      PROVE  RepairUnderWay(n, k)' \/ Excused(n, k)
  <2>1. CASE n \notin R
    BY <1>1, <1>2, <1>7, <2>1 DEF Excused, Leaves, At
  <2>2. CASE n \in R
    <3>1. inbox'[n] = Append(inbox[n], e)
      BY <1>1, <2>2
    <3>2. Queued(n, k) => Queued(n, k)'
      BY <1>4, <1>5, <3>1, QueuedStays DEF Queued
    <3>3. Covers(e.type, e.key, k) => Queued(n, k)'
      BY <1>4, <1>5, <3>1, QueuedStays DEF Queued
    <3>4. Covers(task[p].op, task[p].key, k) => Covers(e.type, e.key, k)
      BY <1>2, <1>3 DEF Covers
    <3>5. Applied(n, k) => Applied(n, k)'
      <4>1. n # p /\ n \in Procs
        BY <1>2, ClusterParameters DEF Procs
      <4> QED BY <1>7, <4>1 DEF Applied
    <3>6. Told(n, k) => Told(n, k)' \/ Queued(n, k)'
      <4> SUFFICES ASSUME Told(n, k) PROVE Told(n, k)' \/ Queued(n, k)'
        OBVIOUS
      <4> PICK q \in Callers : NodeOf(q) # n /\ task[q].pc \in Telling /\ Covers(task[q].op, task[q].key, k)
        BY DEF Told
      <4>1. CASE q = p
        BY <3>3, <3>4, <4>1
      <4>2. CASE q # p
        BY <1>7, <4>2 DEF Told, NodeOf, Procs
      <4> QED BY <4>1, <4>2
    <3>7. Written(n, k) => Written(n, k)'
      <4> SUFFICES ASSUME Written(n, k) PROVE Written(n, k)'
        OBVIOUS
      <4> PICK q \in Callers : /\ NodeOf(q) = n /\ task[q].pc = "setL2" /\ task[q].key = k
                               /\ task[q].val = Find(l1[n], k).val
        BY DEF Written
      <4>1. task'[q] = task[q] /\ l1' = l1
        BY <1>1, <1>7 DEF Procs
      <4> QED BY <4>1 DEF Written, NodeOf
    <3> QED BY <1>8, <3>2, <3>5, <3>6, <3>7, RepairIs
  <2> QED BY <2>1, <2>2
<1> QED BY <1>1, <1>6, <1>7, <1>8, NewsStep

\* An event that leaves the inbox is what the subscriber is at.
LEMMA ReceiveFits ==
  ASSUME CacheInv, TasksSound', NEW n \in Nodes, Receive(n)
  PROVE  Good
<1> PICK s : s = inbox[n]
  OBVIOUS
<1> PICK e : e = Head(s)
  OBVIOUS
<1> PICK t : t = [Idle EXCEPT !.pc = "load", !.op = e.type, !.key = e.key, !.seen = e.epoch]
  OBVIOUS
<1>1. /\ s \in Seq(Event) /\ s # <<>> /\ task[n].pc = "idle" /\ n \in Procs /\ TasksFit
      /\ UNCHANGED <<l1, l2, tagged, calls>> /\ Become(n, t) /\ inbox' = [inbox EXCEPT ![n] = Tail(s)]
  BY FitsOf DEF Receive, At, CacheInv, Procs
<1>2. /\ e \in Event /\ e = s[1] /\ Len(s) \in Nat \ {0} /\ Tail(s) \in Seq(Event)
      /\ Len(Tail(s)) = Len(s) - 1 /\ \A i \in 1..(Len(s) - 1) : Tail(s)[i] = s[i + 1]
  <2>1. /\ Head(s) \in Event /\ Tail(s) \in Seq(Event)
        /\ Len(Tail(s)) = Len(s) - 1 /\ \A i \in 1..Len(Tail(s)) : Tail(s)[i] = s[i + 1]
    BY <1>1, HeadTailProperties
  <2>2. Len(s) \in Nat \ {0} /\ Head(s) = s[1]
    BY <1>1, EmptySeq, LenProperties
  <2> QED BY <2>1, <2>2
<1>3. t.pc = "load" /\ t.op = e.type /\ t.key = e.key /\ t.keys = {}
  BY DEF Idle
<1>4. Fits(n, t)
  BY <1>2, <1>3 DEF Fits, Event, EventOps, Phases, Gets, Telling, Applying
<1>5. TasksFit' /\ task'[n] = t /\ \A q \in Procs : q # n => task'[q] = task[q]
  BY <1>1, <1>4, BecomeFits, Moves
<1>6. inbox' \in [Nodes -> Seq(Event)] /\ inbox'[n] = Tail(s) /\ \A m \in Nodes : m # n => inbox'[m] = inbox[m]
  BY <1>1, <1>2 DEF CacheInv
<1>7. \A q \in Procs : \A m, k : Carries(q, m, k)
  BY <1>1, <1>5 DEF Carries, Applying, Telling
<1>8. ASSUME NEW m \in Nodes, NEW k \in Keys, RepairUnderWay(m, k) PROVE RepairUnderWay(m, k)'
  <2>1. Applied(m, k) => Applied(m, k)'
    BY <1>7, AppliedStays DEF Procs
  <2>2. Told(m, k) => Told(m, k)'
    BY <1>7, ToldStays DEF Procs
  <2>3. Written(m, k) => Written(m, k)'
    BY <1>1, <1>7, WrittenSame DEF Procs
  <2>4. Queued(m, k) => Queued(m, k)' \/ Applied(m, k)'
    <3>1. CASE m # n
      BY <1>6, <3>1 DEF Queued
    <3>2. CASE m = n
      <4> SUFFICES ASSUME Queued(n, k) PROVE Queued(n, k)' \/ Applied(n, k)'
        BY <3>2
      <4> PICK i \in DOMAIN s : Covers(s[i].type, s[i].key, k)
        BY DEF Queued
      <4>1. i \in 1..Len(s)
        BY <1>1, LenProperties
      <4>2. CASE i = 1
        BY <1>2, <1>3, <1>5, <4>2 DEF Applied, Applying
      <4>3. CASE i # 1
        <5> PICK j : j = i - 1
          OBVIOUS
        <5>1. j \in 1..(Len(s) - 1) /\ j + 1 = i
          BY <1>2, <4>1, <4>3
        <5>2. j \in DOMAIN Tail(s) /\ Tail(s)[j] = s[i]
          BY <1>2, <5>1, LenProperties
        <5> QED BY <1>6, <5>2 DEF Queued
      <4> QED BY <4>2, <4>3
    <3> QED BY <3>1, <3>2
  <2> QED BY <1>8, <2>1, <2>2, <2>3, <2>4, RepairIs
<1> QED BY <1>1, <1>5, <1>6, <1>8, NewsStep

\* Raising the epoch, the subscriber keeps what it was told.
LEMMA RaiseFits ==
  ASSUME CacheInv, TasksSound', NEW n \in Nodes, LoadEpoch(n) \/ SwapEpoch(n)
  PROVE  Good
<1>1. /\ Fits(n, task[n]) /\ Sound(task[n]) /\ TasksFit /\ tagged \in SUBSET Keys /\ calls \in 0..MaxCalls
      /\ task[n].pc \in Applying /\ n \in Procs /\ UNCHANGED <<l1, l2, tagged, inbox, calls>>
  BY FitsOf DEF LoadEpoch, SwapEpoch, At, Applying, Procs
<1>2. ASSUME NEW pc \in Applying, Goto(n, pc) PROVE Good
  <2>1. \A t : Moved(task[n], t, pc) => Fits(n, t)
    BY <1>1, <1>2 DEF Moved, Fits, Phases, Gets, Telling, Applying
  <2>2. Moved(task[n], task'[n], pc)
    BY <1>1, <1>2, <2>1, GotoTasks
  <2>3. \A m \in Nodes, k \in Keys : Carries(n, m, k)
    BY <1>1, <2>2 DEF Carries, Moved
  <2> QED BY <1>1, <1>2, <2>1, <2>3, GotoFits
<1>3. CASE Become(n, [task[n] EXCEPT !.pc = "cas", !.cur = epoch[n]])
  <2> PICK t : t = [task[n] EXCEPT !.pc = "cas", !.cur = epoch[n]]
    OBVIOUS
  <2>1. Moved(task[n], t, "cas")
    BY <1>1 DEF Sound, Fields, Moved
  <2>2. Fits(n, t)
    BY <1>1, <2>1 DEF Moved, Fits, Phases, Gets, Telling, Applying
  <2>3. task'[n] = t
    BY <1>1, <1>3, Moves
  <2>4. \A m \in Nodes, k \in Keys : Carries(n, m, k)
    BY <1>1, <2>1, <2>3 DEF Carries, Moved, Applying
  <2> QED BY <1>1, <1>3, <2>2, <2>4, OnlyTaskMoves
<1> QED BY <1>2, <1>3 DEF LoadEpoch, SwapEpoch, Applying

-----------------------------------------------------------------------------
(* What is applied is gone from the level, so that it cannot be stale.     *)

LEMMA ApplyingStep ==
  ASSUME CacheInv, TasksFit', NEW n \in Nodes, LevelsFit', UNCHANGED <<l2, tagged, inbox, calls>>,
         \A m \in Nodes : m # n => l1'[m] = l1[m],
         \A k \in Keys : Keeps(l1[n], l1'[n], k),
         \A q \in Procs : q # n => task'[q] = task[q],
         \A k \in Keys : Applied(n, k) => ~Live(l1'[n], k)
  PROVE  Good
<1>1. CacheInv' /\ LevelsFit
  BY DEF CacheInv
<1>2. n \notin Callers
  BY ClusterParameters
<1>3. ASSUME NEW m \in Nodes, NEW k \in Keys PROVE Right(m, k)
  <2>1. Keeps(l1[m], l1'[m], k)
    BY KeepsItself
  <2>2. \A p \in Callers : Carries(p, m, k)
    BY <1>2 DEF Carries, Procs
  <2>3. Queued(m, k) => Queued(m, k)'
    BY DEF Queued
  <2>4. Told(m, k) => Told(m, k)'
    BY <2>2, ToldStays
  <2>5. Written(m, k) /\ Live(l1'[m], k) => Written(m, k)'
    BY <2>1, <2>2, WrittenStays
  <2>6. Applied(m, k) /\ Live(l1'[m], k) => Applied(m, k)'
    BY DEF Applied, Procs
  <2>7. Live(l1'[m], k) /\ RepairUnderWay(m, k) => RepairUnderWay(m, k)'
    BY <2>3, <2>4, <2>5, <2>6, RepairIs
  <2>8. l2'[k] = l2[k]
    OBVIOUS
  <2> QED BY <1>1, <2>1, <2>7, <2>8, CopiesStay
<1> QED BY <1>1, <1>3 DEF Good

LEMMA ApplyFits ==
  ASSUME CacheInv, TasksSound', NEW n \in Nodes, Apply(n)
  PROVE  Good
<1>1. /\ Fits(n, task[n]) /\ Sound(task[n]) /\ LevelsFit /\ tagged \in SUBSET Keys /\ calls \in 0..MaxCalls
      /\ task[n].pc = "apply" /\ n \in Procs /\ UNCHANGED <<l2, tagged, inbox, calls>>
      /\ l1[n] \in Level /\ Len(l1[n]) <= MaxL1
  BY FitsOf DEF Apply, At, Procs, LevelsFit
<1>2. CASE task[n].op \in {"invalidate", "update"} /\ SetL1(n, L1Delete(l1[n], Key(n))) /\ Finish(n)
  <2> PICK d : d = L1Delete(l1[n], Key(n))
    OBVIOUS
  <2>1. Without(l1[n], d, Key(n)) /\ SetL1(n, d)
    BY <1>1, <1>2, DeleteLevel
  <2>2. d \in Level /\ Len(d) <= MaxL1 /\ \A k : Keeps(l1[n], d, k)
    BY <1>1, <2>1, WithoutKeeps
  <2>3. ~HasKey(d, Key(n))
    BY <2>1 DEF Without
  <2>4. LevelsFit' /\ l1'[n] = d /\ \A m \in Nodes : m # n => l1'[m] = l1[m]
    BY <1>1, <2>1, <2>2, LevelChanges
  <2>5. TasksFit' /\ \A q \in Procs : q # n => task'[q] = task[q]
    BY <1>1, <1>2, FinishTasks
  <2>6. \A k \in Keys : Applied(n, k) => ~Live(l1'[n], k)
    BY <1>2, <2>3, <2>4 DEF Applied, Covers, Live, Key
  <2>7. \A k \in Keys : Keeps(l1[n], l1'[n], k)
    BY <2>2, <2>4
  <2> QED BY <1>1, <2>4, <2>5, <2>6, <2>7, ApplyingStep
<1>3. CASE task[n].op = "clear" /\ SetL1(n, <<>>) /\ Finish(n)
  <2>1. <<>> \in Level /\ Len(<<>>) = 0 /\ \A k : ~HasKey(<<>>, k)
    BY EmptySeq DEF Level, Distinct, HasKey, KeysOf
  <2>2. Len(<<>>) <= MaxL1 /\ \A k : ~Live(<<>>, k)
    BY <2>1, LevelOneParameters DEF Live
  <2>3. LevelsFit' /\ l1'[n] = <<>> /\ \A m \in Nodes : m # n => l1'[m] = l1[m]
    BY <1>1, <1>3, <2>1, <2>2, LevelChanges
  <2>4. TasksFit' /\ \A q \in Procs : q # n => task'[q] = task[q]
    BY <1>1, <1>3, FinishTasks
  <2>5. \A k \in Keys : ~Live(l1'[n], k) /\ Keeps(l1[n], l1'[n], k)
    BY <2>2, <2>3 DEF Keeps
  <2> QED BY <1>1, <2>3, <2>4, <2>5, ApplyingStep
<1>4. CASE task[n].op = "tag" /\ UNCHANGED l1 /\ Goto(n, "members")
  <2>1. \A t : Moved(task[n], t, "members") => Fits(n, t)
    BY <1>1, <1>4 DEF Moved, Fits, Phases, Gets, Telling, Applying
  <2>2. TasksFit' /\ \A q \in Procs : q # n => task'[q] = task[q]
    BY <1>1, <1>4, <2>1, GotoTasks
  <2>3. LevelsFit'
    BY <1>1, <1>4 DEF LevelsFit
  <2>4. \A k \in Keys : ~Applied(n, k)
    BY <1>4 DEF Applied, Covers
  <2>5. (\A k \in Keys : Keeps(l1[n], l1'[n], k)) /\ \A m \in Nodes : l1'[m] = l1[m]
    BY <1>4, KeepsItself
  <2> QED BY <1>1, <2>2, <2>3, <2>4, <2>5, ApplyingStep
<1> QED BY <1>2, <1>3, <1>4 DEF Apply

-----------------------------------------------------------------------------
(* Time.                                                                   *)

LEMMA StillFits ==
  ASSUME CacheInv, task' = task
  PROVE  TasksFit' /\ \A q \in Procs : \A m, k : Carries(q, m, k)
  BY DEF CacheInv, TasksFit, Carries

LEMMA ExpireFits ==
  ASSUME CacheInv, NEW n \in Nodes, NEW k \in Keys, Expire(n, k)
  PROVE  Good
<1> PICK d : d = Die(l1[n], k)
  OBVIOUS
<1>1. /\ l1[n] \in Level /\ Len(l1[n]) <= MaxL1 /\ SetL1(n, d) /\ UNCHANGED <<l2, tagged, inbox, task, calls>>
  BY DEF Expire, CacheInv, LevelsFit
<1>2. d \in Level /\ Len(d) <= MaxL1 /\ \A q : Keeps(l1[n], d, q)
  BY <1>1, DieLevel
<1>3. TasksFit' /\ \A q \in Procs : \A m, x : Carries(q, m, x)
  BY <1>1, StillFits
<1> QED BY <1>1, <1>2, <1>3, LevelStep

LEMMA CleanupFits ==
  ASSUME CacheInv, NEW n \in Nodes, Cleanup(n)
  PROVE  Good
<1> PICK d : d = CleanExpired(l1[n])
  OBVIOUS
<1>1. /\ l1[n] \in Level /\ Len(l1[n]) <= MaxL1 /\ SetL1(n, d) /\ UNCHANGED <<l2, tagged, inbox, task, calls>>
  BY DEF Cleanup, CacheInv, LevelsFit
<1>2. d \in Level /\ Len(d) <= Len(l1[n]) /\ \A q : Keeps(l1[n], d, q)
  BY <1>1, CleanLevel
<1>3. Len(d) <= MaxL1
  BY <1>1, <1>2, LevelHas, LevelOneParameters
<1>4. TasksFit' /\ \A q \in Procs : \A m, x : Carries(q, m, x)
  BY <1>1, StillFits
<1> QED BY <1>1, <1>2, <1>3, <1>4, LevelStep

LEMMA ExpireL2Fits ==
  ASSUME CacheInv, NEW k \in Keys, ExpireL2(k)
  PROVE  Good
<1>1. /\ UNCHANGED <<l1, tagged, inbox, task, calls>> /\ l2' = [l2 EXCEPT ![k] = None]
      /\ l2 \in [Keys -> Values \cup {None}] /\ tagged \in SUBSET Keys
  BY DEF ExpireL2, CacheInv
<1>2. TasksFit' /\ \A q \in Procs : \A m, x : Carries(q, m, x)
  BY <1>1, StillFits
<1>3. l2' \in [Keys -> Values \cup {None}] /\ \A x \in Keys : x # k => l2'[x] = l2[x]
  BY <1>1
<1>4. \A n \in Nodes : Right(n, k)
  BY DEF Right, Excused
<1>5. ASSUME NEW n \in Nodes, NEW x \in Keys
      PROVE  \/ Right(n, x)
             \/ l2'[x] = l2[x] /\ \A q \in Procs : Carries(q, n, x)
  BY <1>2, <1>3, <1>4
<1> QED BY <1>1, <1>2, <1>3, <1>5, ValueStep

LEMMA StutterFits ==
  ASSUME CacheInv, UNCHANGED <<l1, l2, inbox, task, calls>>, tagged' \in SUBSET Keys
  PROVE  Good
<1>1. TasksFit' /\ \A q \in Procs : \A m, x : Carries(q, m, x)
  BY StillFits
<1>2. LevelsFit' /\ calls' \in 0..MaxCalls
  BY DEF CacheInv, LevelsFit
<1>3. \A n \in Nodes, k \in Keys : Keeps(l1[n], l1'[n], k)
  BY KeepsItself
<1> QED BY <1>1, <1>2, <1>3, CalmStep

-----------------------------------------------------------------------------
LEMMA CacheInitially == Init => CacheInv
<1> SUFFICES ASSUME Init PROVE CacheInv
  OBVIOUS
<1>1. <<>> \in Level /\ Len(<<>>) = 0 /\ <<>> \in Seq(Event)
  BY EmptySeq DEF Level, Distinct
<1>2. LevelsFit
  BY <1>1, LevelOneParameters DEF Init, LevelsFit
<1>3. TasksFit
  BY IdleSound, IdleFits DEF Init, TasksFit
<1>4. inbox \in [Nodes -> Seq(Event)]
  BY <1>1 DEF Init
<1> QED BY <1>2, <1>3, <1>4, ClusterParameters DEF Init, CacheInv

LEMMA CacheStep == EpochInv /\ CacheInv /\ [Next]_vars => Good
<1> SUFFICES ASSUME EpochInv, CacheInv, [Next]_vars PROVE Good
  OBVIOUS
<1>0. TasksSound'
  BY SoundNext
<1>1. CASE \E p \in Callers : \E r \in Menu[p] : Start(p, r)
  BY <1>0, <1>1, StartFits
<1>2. ASSUME NEW p \in Procs, GetSteps(p) PROVE Good
  BY <1>0, <1>2, GetL1Fits, GetL2Fits, PromoteFits, LateGetFits DEF GetSteps
<1>3. ASSUME NEW p \in Procs, WriteSteps(p) PROVE Good
  <2>1. CASE \E R \in SUBSET (Nodes \ {NodeOf(p)}) : Publish(p, R)
    BY <1>0, <2>1, PublishFits
  <2>2. CASE WriteL1(p) \/ WriteL2(p) \/ DeleteL2(p) \/ NextEpoch(p)
    BY <1>0, <2>2, WriteL1Fits, WriteL2Fits, DeleteL2Fits, NextEpochFits
  <2>3. CASE DeleteL1(p) \/ ClearL1(p)
    BY <1>0, <2>3, DropFits
  <2> QED BY <1>3, <2>1, <2>2, <2>3 DEF WriteSteps
<1>4. ASSUME NEW p \in Procs, TagSteps(p) PROVE Good
  BY <1>0, <1>4, TagStepFits, TaggedValueFits DEF TagSteps
<1>5. ASSUME NEW n \in Nodes, Subscriber(n) PROVE Good
  BY <1>0, <1>5, ReceiveFits, RaiseFits, ApplyFits DEF Subscriber
<1>6. CASE \E n \in Nodes : Cleanup(n) \/ \E k \in Keys : Expire(n, k)
  BY <1>6, CleanupFits, ExpireFits
<1>7. CASE \E k \in Keys : ExpireL2(k)
  BY <1>7, ExpireL2Fits
<1>8. CASE ExpireTag \/ UNCHANGED vars
  <2>1. UNCHANGED <<l1, l2, inbox, task, calls>> /\ tagged' \in SUBSET Keys
    BY <1>8 DEF ExpireTag, vars, CacheInv
  <2> QED BY <2>1, StutterFits
<1>9. CASE \E p \in Procs : Step(p)
  BY <1>2, <1>3, <1>4, <1>5, <1>9 DEF Step
<1> QED BY <1>1, <1>6, <1>7, <1>8, <1>9 DEF Next

\* Of every level a key has one place, whatever calls, promotions, evictions
\* and deaths of entries mix, and a goroutine has what its next step needs.
THEOREM CachesInOrder == Spec => [](EpochInv /\ CacheInv)
<1>1. Init => EpochInv /\ CacheInv
  BY EpochInitially, CacheInitially
<1>2. EpochInv /\ CacheInv /\ [Next]_vars => EpochInv' /\ CacheInv'
  BY EpochStep, CacheStep DEF Good
<1> QED BY <1>1, <1>2, PTL DEF Spec

\* StaleOnlyThrough for any nodes, callers, calls and keys: a node comes to
\* serve a value that L2 no longer holds, with nothing under way to put it
\* right, only in the ways that Excused lists (distributed.go, manager.go).
THEOREM StalenessHasCauses == Spec => StaleOnlyThrough
<1>1. EpochInv /\ CacheInv /\ [Next]_vars
        => [\A n \in Nodes, k \in Keys : Stale(n, k)' /\ ~Stale(n, k) => Excused(n, k)]_vars
  BY CacheStep DEF Good, Right
<1> QED BY <1>1, CachesInOrder, PTL DEF Spec, StaleOnlyThrough

\* ClusterTypeOK, from the same invariant.
THEOREM ClusterTypes == Spec => []ClusterTypeOK
<1>1. EpochInv /\ CacheInv => ClusterTypeOK
  BY DEF EpochInv, CacheInv, LevelsFit, Level, TasksFit, Sound, Fits, ClusterTypeOK
<1> QED BY <1>1, CachesInOrder, PTL

\* A level never holds a key twice.
LEMMA KeysCounted ==
  ASSUME NEW c \in Level
  PROVE  Cardinality(KeysOf(c)) = Len(c)
<1>1. Len(c) \in Nat /\ DOMAIN c = 1..Len(c) /\ \A i, j \in 1..Len(c) : c[i].key = c[j].key => i = j
  BY LevelHas
<1> PICK f : f = [i \in 1..Len(c) |-> c[i].key]
  OBVIOUS
<1>2. f \in Bijection(1..Len(c), KeysOf(c))
  <2>1. f \in [1..Len(c) -> KeysOf(c)]
    BY <1>1 DEF KeysOf
  <2>2. \A i, j \in 1..Len(c) : f[i] = f[j] => i = j
    BY <1>1
  <2>3. \A k \in KeysOf(c) : \E i \in 1..Len(c) : f[i] = k
    BY <1>1 DEF KeysOf
  <2> QED BY <2>1, <2>2, <2>3 DEF Bijection, Injection, Surjection, IsInjective
<1>3. ExistsBijection(1..Len(c), KeysOf(c))
  BY <1>2 DEF ExistsBijection
<1>4. IsFiniteSet(1..Len(c)) /\ Cardinality(1..Len(c)) = Len(c)
  BY <1>1, FS_Interval
<1> QED BY <1>3, <1>4, FS_Bijection

\* L1Bounded for any maximum (memory_cache.go, Set and evictLRU).
THEOREM LevelsBounded == Spec => []L1Bounded
<1>1. CacheInv => L1Bounded
  BY KeysCounted DEF CacheInv, LevelsFit, L1Bounded
<1> QED BY <1>1, CachesInOrder, PTL
=================================================================================
