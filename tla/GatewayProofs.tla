------------------------------ MODULE GatewayProofs ------------------------------
(***************************************************************************)
(* Proofs about the parts around a request that the run Gateway checks.    *)
(* Each section is about the specification of its part, and of nothing     *)
(* else: sessions, token buckets, the window that servers share, the cache *)
(* of responses, completions and their books, conversations, accounts and  *)
(* API keys.  The first section has what they need of numbers and finite   *)
(* sets.                                                                   *)
(***************************************************************************)
EXTENDS LoginSessions, TokenBuckets, SlidingWindow, Accounts, ResponseCache, Completions, Conversations,
        FiniteSetTheorems, SequenceTheorems, WellFoundedInduction, TLAPS

-----------------------------------------------------------------------------
(* Numbers and finite sets.                                                *)

\* A set of natural numbers has a least one.
LEMMA LeastNumber ==
  ASSUME NEW U \in SUBSET Nat, U # {}
  PROVE  \E x \in U : \A y \in U : x <= y
<1> DEFINE R == OpToRel(<, Nat)
<1>1. IsWellFoundedOn(R, Nat)
  BY NatLessThanWellFounded
<1>2. \A i, j \in Nat : i < j => <<i, j>> \in R
  BY DEF OpToRel
<1> HIDE DEF R
<1>3. PICK x \in U : \A y \in U : <<y, x>> \notin R
  BY <1>1, WFMin
<1>4. ASSUME NEW y \in U PROVE x <= y
  <2>1. x \in Nat /\ y \in Nat /\ ~(y < x)
    BY <1>2, <1>3
  <2> QED BY <2>1
<1> QED BY <1>3, <1>4

\* Induction over the natural numbers, for a set of them: a number that is not
\* in it would be above a smallest one.
LEMMA Induction ==
  ASSUME NEW T, 0 \in T, \A n \in Nat : n \in T => n + 1 \in T
  PROVE  \A n \in Nat : n \in T
<1> DEFINE U == Nat \ T
<1>1. SUFFICES ASSUME U # {} PROVE FALSE
  OBVIOUS
<1>2. PICK x \in U : \A y \in U : x <= y
  <2>1. U \in SUBSET Nat
    OBVIOUS
  <2> HIDE DEF U
  <2> QED BY <1>1, <2>1, LeastNumber
<1>3. x \in Nat /\ x \notin T
  BY <1>2
<1>4. x # 0 /\ x - 1 \in Nat /\ ~(x <= x - 1)
  BY <1>3
<1>5. x - 1 \notin U
  BY <1>2, <1>4
<1>6. (x - 1) + 1 \in T
  BY <1>4, <1>5
<1> QED BY <1>3, <1>6

\* On a finite set a function of numbers has a maximum.
LEMMA FiniteHasMax ==
  ASSUME NEW S, IsFiniteSet(S), S # {}, NEW f, \A x \in S : f[x] \in Int
  PROVE  \E m \in S : \A x \in S : f[x] <= f[m]
<1>0. PICK n \in Nat : ExistsBijection(1..n, S)
  BY FS_NatBijection
<1>1. PICK e : e \in Bijection(1..n, S)
  BY <1>0 DEF ExistsBijection
<1>2. e \in [1..n -> S] /\ \A x \in S : \E i \in 1..n : e[i] = x
  BY <1>1 DEF Bijection, Surjection
<1> DEFINE T == {k \in Nat : k \in 1..n => \E m \in S : \A i \in 1..k : f[e[i]] <= f[m]}
<1>3. 0 \in T
  OBVIOUS
<1>4. ASSUME NEW k \in Nat, k \in T PROVE k + 1 \in T
  <2> SUFFICES ASSUME k + 1 \in 1..n
               PROVE  \E m \in S : \A i \in 1..(k + 1) : f[e[i]] <= f[m]
    OBVIOUS
  <2>1. e[k + 1] \in S /\ \A i \in 1..(k + 1) : i = k + 1 \/ i \in 1..k
    BY <1>2
  <2>2. CASE k = 0
    BY <2>1, <2>2
  <2>3. CASE k # 0
    <3>1. PICK m \in S : \A i \in 1..k : f[e[i]] <= f[m]
      BY <1>4, <2>3
    <3>2. CASE f[e[k + 1]] <= f[m]
      BY <3>1, <3>2, <2>1
    <3>3. CASE f[m] <= f[e[k + 1]]
      <4>1. \A i \in 1..k : f[e[i]] <= f[e[k + 1]]
        BY <1>2, <2>1, <3>1, <3>3
      <4> QED BY <2>1, <4>1
    <3> QED BY <2>1, <3>2, <3>3
  <2> QED BY <2>2, <2>3
<1>5. n \in T
  <2> HIDE DEF T
  <2> QED BY <1>3, <1>4, Induction
<1>6. n \in 1..n
  BY <1>2
<1> QED BY <1>2, <1>5, <1>6

LEMMA BoundedHasMax ==
  ASSUME NEW b \in Nat, NEW S \in SUBSET (0..b), S # {}
  PROVE  \E m \in S : \A x \in S : x <= m
<1> DEFINE f == [x \in S |-> x]
<1>1. IsFiniteSet(S)
  <2>1. IsFiniteSet(0..b)
    BY FS_Interval
  <2> QED BY <2>1, FS_Subset
<1>2. \A x \in S : f[x] \in Int
  OBVIOUS
<1> HIDE DEF f
<1>3. PICK m \in S : \A x \in S : f[x] <= f[m]
  BY <1>1, <1>2, FiniteHasMax
<1> QED BY <1>3 DEF f

\* Multiplication distributes, and keeps an order.
LEMMA Products ==
  ASSUME NEW w \in Int, NEW l \in Int, NEW k \in Int
  PROVE  w * l \in Int /\ (w + k) * l = w * l + k * l /\ (w + (k + 1)) * l = (w + k) * l + l
         /\ w * (l + 1) = w * l + w
         /\ (w >= 0 /\ k <= l => w * k <= w * l)
  OBVIOUS

-----------------------------------------------------------------------------
(* Sums over finite sets.                                                  *)

\* A function of the subsets of S to which each element adds its own.
Adds(g, f, S) ==
  /\ \A x \in S : f[x] \in Int
  /\ g \in [SUBSET S -> Int] /\ g[{}] = 0
  /\ \A s \in SUBSET S : \A x \in s : g[s] = f[x] + g[s \ {x}]

LEMMA SumsExist ==
  ASSUME NEW S, IsFiniteSet(S), NEW f, \A x \in S : f[x] \in Int
  PROVE  \E g : Adds(g, f, S)
<1> DEFINE T == {k \in Nat : \A A \in SUBSET S : Cardinality(A) = k => \E g : Adds(g, f, A)}
<1>1. 0 \in T
  <2> SUFFICES ASSUME NEW A \in SUBSET S, Cardinality(A) = 0 PROVE \E g : Adds(g, f, A)
    OBVIOUS
  <2>1. A = {}
    BY FS_EmptySet, FS_Subset
  <2>2. Adds([s \in SUBSET A |-> 0], f, A)
    BY <2>1 DEF Adds
  <2> QED BY <2>2
<1>2. ASSUME NEW k \in Nat, k \in T PROVE k + 1 \in T
  <2> SUFFICES ASSUME NEW A \in SUBSET S, Cardinality(A) = k + 1 PROVE \E g : Adds(g, f, A)
    OBVIOUS
  <2>1. IsFiniteSet(A) /\ A # {}
    BY FS_EmptySet, FS_Subset
  <2>2. PICK z : z \in A
    BY <2>1
  <2>3. A \ {z} \in SUBSET S /\ Cardinality(A \ {z}) = k
    <3>1. Cardinality(A \ {z}) = Cardinality(A) - 1
      BY <2>1, <2>2, FS_RemoveElement
    <3> QED BY <3>1
  <2>4. PICK g : Adds(g, f, A \ {z})
    BY <1>2, <2>3
  <2> DEFINE d(s) == IF z \in s THEN f[z] ELSE 0
             h == [s \in SUBSET A |-> g[s \ {z}] + d(s)]
  <2>5. /\ f[z] \in Int
        /\ \A s \in SUBSET A : s \ {z} \in SUBSET (A \ {z}) /\ g[s \ {z}] \in Int
    BY <2>2, <2>4 DEF Adds
  <2>6. h \in [SUBSET A -> Int] /\ h[{}] = 0
    <3>1. ASSUME NEW s \in SUBSET A PROVE g[s \ {z}] + d(s) \in Int
      <4>1. g[s \ {z}] \in Int /\ d(s) \in Int
        BY <2>5
      <4> HIDE DEF d
      <4> QED BY <4>1
    <3>2. {} \ {z} = {} /\ g[{}] = 0 /\ d({}) = 0
      BY <2>4 DEF Adds
    <3> QED BY <3>1, <3>2
  <2>7. ASSUME NEW s \in SUBSET A, NEW x \in s PROVE h[s] = f[x] + h[s \ {x}]
    <3>1. h[s] = g[s \ {z}] + d(s) /\ h[s \ {x}] = g[(s \ {x}) \ {z}] + d(s \ {x})
      OBVIOUS
    <3>2. g[s \ {z}] \in Int /\ f[x] \in Int /\ f[z] \in Int
      BY <2>5
    <3>3. CASE x = z
      <4>1. (s \ {x}) \ {z} = s \ {z} /\ d(s) = f[x] /\ d(s \ {x}) = 0
        BY <3>3
      <4> QED BY <3>1, <3>2, <4>1
    <3>4. CASE x # z
      <4>1. (s \ {x}) \ {z} = (s \ {z}) \ {x} /\ d(s \ {x}) = d(s) /\ x \in s \ {z} /\ d(s) \in Int
        BY <3>2, <3>4
      <4>2. g[s \ {z}] = f[x] + g[(s \ {z}) \ {x}]
        BY <2>4, <2>5, <4>1 DEF Adds
      <4>3. g[(s \ {z}) \ {x}] \in Int
        <5>1. (s \ {z}) \ {x} \in SUBSET (A \ {z})
          OBVIOUS
        <5> QED BY <2>4, <5>1 DEF Adds
      <4>4. h[s] = (f[x] + g[(s \ {z}) \ {x}]) + d(s) /\ h[s \ {x}] = g[(s \ {z}) \ {x}] + d(s)
        BY <3>1, <4>1, <4>2
      <4>5. f[x] \in Int /\ d(s) \in Int
        BY <3>2, <4>1
      <4> HIDE DEF d, h
      <4> QED BY <4>3, <4>4, <4>5
    <3> QED BY <3>3, <3>4
  <2>8. \A x \in A : f[x] \in Int
    OBVIOUS
  <2> HIDE DEF h
  <2>9. Adds(h, f, A)
    BY <2>6, <2>7, <2>8 DEF Adds
  <2> QED BY <2>9
<1>3. Cardinality(S) \in Nat
  BY FS_CardinalityType
<1>4. Cardinality(S) \in T
  <2> HIDE DEF T
  <2> QED BY <1>1, <1>2, <1>3, Induction
<1> QED BY <1>4

\* Such a function is unique, and so it is the one that a sum is computed by,
\* whichever element is taken first.
Chosen(s) == CHOOSE x \in s : TRUE
Sums(h, f, S) == h = [s \in SUBSET S |-> IF s = {} THEN 0 ELSE f[Chosen(s)] + h[s \ {Chosen(s)}]]

LEMMA SumIsChosen == \A f, S : SumOf(f, S) = (CHOOSE h : Sums(h, f, S))[S]
  BY DEF SumOf, MapThenSumSet, MapThenFoldSet, Sums, Chosen

LEMMA SumsAdd ==
  ASSUME NEW S, IsFiniteSet(S), NEW f, NEW g, Adds(g, f, S), NEW h, Sums(h, f, S)
  PROVE  h[S] = g[S]
<1> DEFINE T == {k \in Nat : \A s \in SUBSET S : Cardinality(s) = k => h[s] = g[s]}
<1>1. 0 \in T
  <2> SUFFICES ASSUME NEW s \in SUBSET S, Cardinality(s) = 0 PROVE h[s] = g[s]
    OBVIOUS
  <2>1. s = {}
    BY FS_EmptySet, FS_Subset
  <2>2. h[s] = 0
    BY <2>1 DEF Sums
  <2> QED BY <2>1, <2>2 DEF Adds
<1>2. ASSUME NEW k \in Nat, k \in T PROVE k + 1 \in T
  <2> SUFFICES ASSUME NEW s \in SUBSET S, Cardinality(s) = k + 1 PROVE h[s] = g[s]
    OBVIOUS
  <2>1. IsFiniteSet(s) /\ s # {}
    BY FS_EmptySet, FS_Subset
  <2>2. Chosen(s) \in s
    BY <2>1 DEF Chosen
  <2>3. s \ {Chosen(s)} \in SUBSET S /\ Cardinality(s \ {Chosen(s)}) = k
    <3>1. Cardinality(s \ {Chosen(s)}) = Cardinality(s) - 1
      BY <2>1, <2>2, FS_RemoveElement
    <3> QED BY <3>1
  <2>4. h[s \ {Chosen(s)}] = g[s \ {Chosen(s)}]
    BY <1>2, <2>3
  <2>5. h[s] = f[Chosen(s)] + h[s \ {Chosen(s)}]
    BY <2>1 DEF Sums
  <2> QED BY <2>2, <2>4, <2>5 DEF Adds
<1>3. Cardinality(S) \in Nat
  BY FS_CardinalityType
<1>4. Cardinality(S) \in T
  <2> HIDE DEF T
  <2> QED BY <1>1, <1>2, <1>3, Induction
<1> QED BY <1>4

LEMMA SumIs ==
  ASSUME NEW S, IsFiniteSet(S), NEW f, NEW g, Adds(g, f, S)
  PROVE  SumOf(f, S) = g[S]
<1>1. Sums(g, f, S)
  <2> DEFINE G == [s \in SUBSET S |-> IF s = {} THEN 0 ELSE f[Chosen(s)] + g[s \ {Chosen(s)}]]
  <2>1. ASSUME NEW s \in SUBSET S PROVE g[s] = G[s]
    <3>1. CASE s = {}
      BY <3>1 DEF Adds
    <3>2. CASE s # {}
      <4>1. Chosen(s) \in s
        BY <3>2 DEF Chosen
      <4> QED BY <3>2, <4>1 DEF Adds
    <3> QED BY <3>1, <3>2
  <2>2. DOMAIN g = SUBSET S /\ g = [s \in SUBSET S |-> g[s]]
    BY DEF Adds
  <2>3. g = G
    <3>1. G = [s \in SUBSET S |-> G[s]]
      OBVIOUS
    <3> HIDE DEF G
    <3> QED BY <2>1, <2>2, <3>1
  <2> QED BY <2>3 DEF Sums
<1>2. Sums(CHOOSE h : Sums(h, f, S), f, S)
  <2>1. \E h : Sums(h, f, S)
    BY <1>1
  <2> QED BY <2>1, Zenon
<1> DEFINE h == CHOOSE x : Sums(x, f, S)
<1>3. Sums(h, f, S)
  BY <1>2
<1> HIDE DEF h
<1>4. h[S] = g[S]
  BY <1>3, SumsAdd
<1> QED BY <1>4, SumIsChosen DEF h

\* It gives the sum over every part of the set,
LEMMA PartSums ==
  ASSUME NEW S, IsFiniteSet(S), NEW f, NEW g, Adds(g, f, S), NEW A \in SUBSET S
  PROVE  SumOf(f, A) = g[A]
<1> DEFINE h == [s \in SUBSET A |-> g[s]]
<1>1. Adds(h, f, A)
  <2>1. SUBSET A \subseteq SUBSET S
    OBVIOUS
  <2>2. h \in [SUBSET A -> Int] /\ h[{}] = 0
    BY <2>1 DEF Adds
  <2>3. ASSUME NEW s \in SUBSET A, NEW x \in s PROVE h[s] = f[x] + h[s \ {x}]
    <3>1. s \ {x} \in SUBSET A /\ s \in SUBSET S
      OBVIOUS
    <3>2. h[s] = g[s] /\ h[s \ {x}] = g[s \ {x}]
      BY <3>1
    <3> QED BY <3>1, <3>2 DEF Adds
  <2> HIDE DEF h
  <2> QED BY <2>2, <2>3 DEF Adds
<1>2. IsFiniteSet(A)
  BY FS_Subset
<1> HIDE DEF h
<1>3. SumOf(f, A) = h[A]
  BY <1>1, <1>2, SumIs
<1> QED BY <1>3 DEF h

\* over two parts of it,
LEMMA TwoPartsSum ==
  ASSUME NEW S, IsFiniteSet(S), NEW f, NEW g, Adds(g, f, S), NEW A \in SUBSET S, NEW B \in SUBSET S, A \cap B = {}
  PROVE  g[A \cup B] = g[A] + g[B]
<1> DEFINE h == [s \in SUBSET B |-> g[A \cup s] - g[A]]
<1>0. /\ \A s \in SUBSET S : g[s] \in Int
      /\ \A s \in SUBSET B : A \cup s \in SUBSET S
      /\ A \in SUBSET S /\ A \cup {} = A
  BY DEF Adds
<1>1. Adds(h, f, B)
  <2>1. ASSUME NEW s \in SUBSET B PROVE g[A \cup s] - g[A] \in Int
    <3>1. g[A \cup s] \in Int /\ g[A] \in Int
      BY <1>0
    <3> QED BY <3>1
  <2>2. h \in [SUBSET B -> Int]
    BY <2>1
  <2>3. h[{}] = 0
    <3>1. h[{}] = g[A \cup {}] - g[A] /\ g[A] \in Int
      BY <1>0
    <3> QED BY <1>0, <3>1
  <2>4. ASSUME NEW s \in SUBSET B, NEW x \in s PROVE h[s] = f[x] + h[s \ {x}]
    <3>1. A \cup (s \ {x}) = (A \cup s) \ {x} /\ x \in A \cup s /\ s \ {x} \in SUBSET B
      OBVIOUS
    <3>2. A \cup s \in SUBSET S
      BY <1>0
    <3>3. g[A \cup s] = f[x] + g[(A \cup s) \ {x}]
      BY <3>1, <3>2 DEF Adds
    <3>4. h[s] = g[A \cup s] - g[A] /\ h[s \ {x}] = g[(A \cup s) \ {x}] - g[A]
      <4>1. h[s \ {x}] = g[A \cup (s \ {x})] - g[A]
        BY <3>1
      <4> QED BY <3>1, <4>1
    <3>5. g[A] \in Int /\ g[A \cup s] \in Int /\ g[(A \cup s) \ {x}] \in Int
      <4>1. (A \cup s) \ {x} \in SUBSET S
        BY <3>2
      <4> QED BY <1>0, <3>2, <4>1
    <3>6. f[x] \in Int
      BY DEF Adds
    <3> HIDE DEF h
    <3> QED BY <3>3, <3>4, <3>5, <3>6
  <2> HIDE DEF h
  <2> QED BY <2>2, <2>3, <2>4 DEF Adds
<1>2. IsFiniteSet(B)
  BY FS_Subset
<1> HIDE DEF h
<1>3. SumOf(f, B) = h[B]
  BY <1>1, <1>2, SumIs
<1>4. SumOf(f, B) = g[B]
  BY PartSums
<1>5. h[B] = g[A \cup B] - g[A]
  BY DEF h
<1>6. g[A \cup B] \in Int /\ g[A] \in Int /\ g[B] \in Int
  BY <1>0
<1>7. g[A \cup B] - g[A] = g[B]
  BY <1>3, <1>4, <1>5
<1> QED BY <1>6, <1>7

\* over one element,
LEMMA SingleSums ==
  ASSUME NEW f, NEW x, f[x] \in Int
  PROVE  SumOf(f, {x}) = f[x]
<1>1. IsFiniteSet({x})
  BY FS_Singleton
<1>2. PICK g : Adds(g, f, {x})
  BY <1>1, SumsExist
<1>3. {x} \in SUBSET {x} /\ {x} \ {x} = {}
  OBVIOUS
<1>4. g[{x}] = f[x] + g[{}] /\ g[{}] = 0
  BY <1>2, <1>3 DEF Adds
<1>5. SumOf(f, {x}) = g[{x}]
  BY <1>1, <1>2, SumIs
<1> QED BY <1>4, <1>5

LEMMA SumsAreNumbers ==
  ASSUME NEW S, IsFiniteSet(S), NEW f, \A x \in S : f[x] \in Int
  PROVE  SumOf(f, S) \in Int
<1>1. PICK g : Adds(g, f, S)
  BY SumsExist
<1>2. SumOf(f, S) = g[S]
  BY <1>1, SumIs
<1> QED BY <1>1, <1>2 DEF Adds

\* and over nothing but zeros.
LEMMA ZerosSum ==
  ASSUME NEW S, IsFiniteSet(S)
  PROVE  SumOver([x \in S |-> 0]) = 0
<1> DEFINE f == [x \in S |-> 0]
           g == [s \in SUBSET S |-> 0]
<1>1. Adds(g, f, S)
  BY DEF Adds
<1>2. DOMAIN f = S /\ g[S] = 0
  OBVIOUS
<1> HIDE DEF f, g
<1>3. SumOf(f, S) = g[S]
  BY <1>1, SumIs
<1> QED BY <1>2, <1>3 DEF SumOver, f

\* A sum changes by what one of its elements does.
LEMMA SumChanges ==
  ASSUME NEW S, IsFiniteSet(S), NEW f \in [S -> Int], NEW e \in [S -> Int], NEW m \in S, NEW d \in Int,
         e[m] = f[m] + d, \A x \in S \ {m} : e[x] = f[x]
  PROVE  SumOver(e) = SumOver(f) + d
<1>1. PICK g : Adds(g, f, S)
  BY SumsExist
<1> DEFINE c(s) == IF m \in s THEN d ELSE 0
           h == [s \in SUBSET S |-> g[s] + c(s)]
<1>2. ASSUME NEW s \in SUBSET S PROVE g[s] \in Int /\ c(s) \in Int /\ h[s] = g[s] + c(s)
  BY <1>1 DEF Adds
<1>3. h \in [SUBSET S -> Int]
  <2>1. ASSUME NEW s \in SUBSET S PROVE g[s] + c(s) \in Int
    <3>1. g[s] \in Int /\ c(s) \in Int
      BY <1>2
    <3> HIDE DEF c
    <3> QED BY <3>1
  <2> QED BY <2>1
<1>4. h[{}] = 0
  <2>1. g[{}] = 0 /\ c({}) = 0 /\ {} \in SUBSET S
    BY <1>1 DEF Adds
  <2> QED BY <2>1
<1>5. ASSUME NEW s \in SUBSET S, NEW x \in s PROVE h[s] = e[x] + h[s \ {x}]
  <2>1. s \ {x} \in SUBSET S
    OBVIOUS
  <2>2. h[s] = g[s] + c(s) /\ h[s \ {x}] = g[s \ {x}] + c(s \ {x})
    BY <1>2, <2>1
  <2>3. g[s] = f[x] + g[s \ {x}]
    BY <1>1 DEF Adds
  <2>4. f[x] \in Int /\ g[s \ {x}] \in Int
    BY <1>2, <2>1
  <2>5. CASE x = m
    <3>1. c(s) = d /\ c(s \ {x}) = 0 /\ e[x] = f[x] + d
      BY <2>5
    <3> HIDE DEF h, c
    <3> QED BY <2>2, <2>3, <2>4, <3>1
  <2>6. CASE x # m
    <3>1. c(s \ {x}) = c(s) /\ c(s) \in Int /\ e[x] = f[x]
      BY <2>6
    <3> HIDE DEF h, c
    <3> QED BY <2>2, <2>3, <2>4, <3>1
  <2> QED BY <2>5, <2>6
<1>6. h[S] = g[S] + d
  BY <1>2
<1>7. \A x \in S : e[x] \in Int
  OBVIOUS
<1> HIDE DEF h
<1>8. Adds(h, e, S)
  BY <1>3, <1>4, <1>5, <1>7 DEF Adds
<1>9. SumOf(e, S) = h[S] /\ SumOf(f, S) = g[S]
  BY <1>1, <1>8, SumIs
<1>10. DOMAIN e = S /\ DOMAIN f = S
  OBVIOUS
<1> QED BY <1>6, <1>9, <1>10 DEF SumOver

-----------------------------------------------------------------------------
(* Sessions.                                                               *)

Visits == [pc : {"away", "issue", "refresh", "renew", "look", "in", "write"},
           token : Nat, password : Passwords]

SessionTypeOK ==
  /\ account \in [there : BOOLEAN, active : BOOLEAN, password : Passwords]
  /\ tokens \subseteq Nat
  /\ hour \in Nat
  /\ visit \in [Visitors -> Visits]

LEMMA AwayIsVisit == Away \in Visits /\ SomePassword \in Passwords
  BY SessionParameters DEF Away, Visits, SomePassword

\* Where a request goes: what it carries stays, and so do the other requests.
LEMMA ProceedsTypes ==
  ASSUME NEW v \in Visitors, visit \in [Visitors -> Visits],
         NEW pc \in {"away", "issue", "refresh", "renew", "look", "in", "write"}, Proceeds(v, pc)
  PROVE  /\ visit' \in [Visitors -> Visits]
         /\ visit'[v].pc = pc
         /\ \A w \in Visitors \ {v} : visit'[w] = visit[w]
<1>1. visit' = [visit EXCEPT ![v] = [visit[v] EXCEPT !.pc = pc]]
  BY DEF Proceeds
<1>2. /\ [visit[v] EXCEPT !.pc = pc] \in Visits
      /\ [visit[v] EXCEPT !.pc = pc].pc = pc
  BY DEF Visits
<1> QED BY <1>1, <1>2

LEMMA LeavesTypes ==
  ASSUME NEW v \in Visitors, visit \in [Visitors -> Visits], Leaves(v)
  PROVE  /\ visit' \in [Visitors -> Visits]
         /\ visit'[v].pc = "away"
         /\ \A w \in Visitors \ {v} : visit'[w] = visit[w]
<1>1. Away.pc = "away"
  BY DEF Away
<1> QED BY <1>1, AwayIsVisit DEF Leaves

-----------------------------------------------------------------------------
(* Types.                                                                  *)

LEMMA TypesInitially == NoSessions => SessionTypeOK
  BY AwayIsVisit DEF NoSessions, SessionTypeOK

\* A request is at, or comes to, one of its places; whatever it gives out is a
\* time of expiry.
LEMMA RequestKeepsTypes ==
  ASSUME SessionTypeOK, NEW v \in Visitors, SessionSteps(v)
  PROVE  SessionTypeOK'
<1> USE DEF SessionTypeOK
<1>1. CASE \E p \in Passwords : Login(v, p)
  BY <1>1, ProceedsTypes DEF Login
<1>2. CASE OAuthLogin(v)
  BY <1>2, ProceedsTypes DEF OAuthLogin
<1>3. CASE GenerateTokenPair(v)
  <2>1. tokens' \subseteq Nat
    BY <1>3, SessionParameters DEF GenerateTokenPair
  <2> QED BY <1>3, <2>1, LeavesTypes DEF GenerateTokenPair
<1>4. CASE \E t \in tokens : PresentRefresh(v, t)
  <2>1. PICK t \in tokens : PresentRefresh(v, t)
    BY <1>4
  <2>2. [Away EXCEPT !.pc = "refresh", !.token = t] \in Visits
    BY AwayIsVisit DEF Away, Visits
  <2> QED BY <2>1, <2>2 DEF PresentRefresh
<1>5. CASE RefreshRead(v)
  BY <1>5, ProceedsTypes, LeavesTypes DEF RefreshRead
<1>6. CASE RefreshAccessToken(v)
  <2>1. tokens' \subseteq Nat
    BY <1>6, SessionParameters DEF RefreshAccessToken
  <2> QED BY <1>6, <2>1, LeavesTypes DEF RefreshAccessToken
<1>7. CASE \E t \in tokens : Present(v, t)
  BY <1>7, ProceedsTypes DEF Present
<1>8. CASE Look(v)
  BY <1>8, ProceedsTypes, LeavesTypes DEF Look
<1>9. CASE Read(v)
  BY <1>9, LeavesTypes DEF Read
<1>10. CASE UpdateUser(v)
  BY <1>10, LeavesTypes DEF UpdateUser
<1>11. CASE \E p, q \in Passwords : ChangePassword(v, p, q)
  <2>1. PICK p \in Passwords, q \in Passwords : ChangePassword(v, p, q)
    BY <1>11
  <2>2. [Away EXCEPT !.pc = "write", !.password = q] \in Visits
    BY AwayIsVisit DEF Away, Visits
  <2> QED BY <2>1, <2>2, LeavesTypes DEF ChangePassword
<1>12. CASE WritePassword(v)
  <2>1. visit[v].password \in Passwords
    BY DEF Visits
  <2> QED BY <1>12, <2>1, LeavesTypes DEF WritePassword
<1> QED
  BY <1>1, <1>2, <1>3, <1>4, <1>5, <1>6, <1>7, <1>8, <1>9, <1>10, <1>11, <1>12 DEF SessionSteps

LEMMA SessionsKeepTypes == SessionTypeOK /\ [SessionsNext]_sessionVars => SessionTypeOK'
<1> SUFFICES ASSUME SessionTypeOK, [SessionsNext]_sessionVars PROVE SessionTypeOK'
  OBVIOUS
<1>1. CASE \E v \in Visitors : SessionSteps(v)
  BY <1>1, RequestKeepsTypes
<1>2. CASE DeactivateUser \/ DeleteUser
  BY <1>2 DEF SessionTypeOK, DeactivateUser, DeleteUser
<1>3. CASE HourPasses
  BY <1>3 DEF SessionTypeOK, HourPasses
<1>4. CASE UNCHANGED sessionVars
  BY <1>4 DEF SessionTypeOK, sessionVars
<1> QED BY <1>1, <1>2, <1>3, <1>4 DEF SessionsNext

\* The account, the tokens and the requests have their types.
THEOREM SessionTypes == SessionsSpec => []SessionTypeOK
  BY TypesInitially, SessionsKeepTypes, PTL DEF SessionsSpec

-----------------------------------------------------------------------------
(* A closed account.                                                       *)

\* While the account is closed, no step brings a request to a handler: the
\* only way leads through the look at the row.
LEMMA NobodyEnters ==
  ASSUME SessionTypeOK, ~Open, NobodyIn, NEW v \in Visitors, SessionSteps(v)
  PROVE  NobodyIn' /\ UNCHANGED account
<1>1. visit \in [Visitors -> Visits] /\ visit[v].pc \notin {"in", "write"}
  BY DEF SessionTypeOK, NobodyIn
<1>2. SUFFICES /\ visit'[v].pc \notin {"in", "write"}
               /\ \A w \in Visitors \ {v} : visit'[w] = visit[w]
               /\ UNCHANGED account
  BY <1>2 DEF NobodyIn
<1>3. CASE \E p \in Passwords : Login(v, p)
  BY <1>1, <1>3, ProceedsTypes DEF Login
<1>4. CASE OAuthLogin(v)
  BY <1>1, <1>4, ProceedsTypes DEF OAuthLogin
<1>5. CASE GenerateTokenPair(v) \/ RefreshAccessToken(v)
  BY <1>1, <1>5, LeavesTypes DEF GenerateTokenPair, RefreshAccessToken
<1>6. CASE \E t \in tokens : PresentRefresh(v, t)
  <2>1. PICK t \in tokens : PresentRefresh(v, t)
    BY <1>6
  <2>2. [Away EXCEPT !.pc = "refresh", !.token = t].pc = "refresh"
    BY DEF Away
  <2> QED BY <1>1, <2>1, <2>2 DEF PresentRefresh
<1>7. CASE RefreshRead(v)
  BY <1>1, <1>7, ProceedsTypes, LeavesTypes DEF RefreshRead
<1>8. CASE \E t \in tokens : Present(v, t)
  BY <1>1, <1>8, ProceedsTypes DEF Present
<1>9. CASE Look(v)
  BY <1>1, <1>9, LeavesTypes DEF Look
<1>10. ~Read(v) /\ ~UpdateUser(v) /\ ~WritePassword(v)
  BY <1>1 DEF Read, UpdateUser, WritePassword, Reached
<1>11. ~ \E p, q \in Passwords : ChangePassword(v, p, q)
  BY <1>1 DEF ChangePassword, Reached
<1> QED
  BY <1>3, <1>4, <1>5, <1>6, <1>7, <1>8, <1>9, <1>10, <1>11 DEF SessionSteps

\* An account that was deactivated or deleted stays closed, and lets nobody in
\* once the requests that were in have ended (middleware.go:62), although its
\* tokens are renewed and new ones are given out (auth_handlers.go:115,
\* oauth_handlers.go:213).
THEOREM ClosedStaysClosed == SessionsSpec => ClosedForGood
<1>1. ASSUME SessionTypeOK, [SessionsNext]_sessionVars, ~Open, NobodyIn
      PROVE  (~Open)' /\ NobodyIn'
  <2>1. CASE \E v \in Visitors : SessionSteps(v)
    BY <1>1, <2>1, NobodyEnters DEF Open
  <2>2. CASE DeactivateUser \/ DeleteUser
    BY <1>1, <2>2 DEF DeactivateUser, DeleteUser, Open, NobodyIn, SessionTypeOK
  <2>3. CASE HourPasses \/ UNCHANGED sessionVars
    BY <1>1, <2>3 DEF HourPasses, sessionVars, Open, NobodyIn
  <2> QED BY <1>1, <2>1, <2>2, <2>3 DEF SessionsNext
<1>2. SessionTypeOK /\ [SessionsNext]_sessionVars
      => [~Open /\ NobodyIn => (~Open /\ NobodyIn)']_sessionVars
  BY <1>1
<1> QED BY <1>2, SessionTypes, PTL DEF SessionsSpec, ClosedForGood

-----------------------------------------------------------------------------
(* The token buckets of one server.                                        *)

Places == [pc : {"out", "create", "consume", "touch"}, tier : Tiers \cup {"none"}, bucket : Nat]
BucketKind == [tier : Tiers, tokens : Nat, refilled : Nat, access : Nat]

BucketFits(b) ==
  /\ b \in BucketKind /\ b.tokens <= Window * Limit[b.tier]
  /\ b.refilled <= now /\ b.access <= now

CallerFits(c) ==
  /\ c \in Places
  /\ c.pc = "create" => c.tier \in Tiers
  /\ c.pc \in {"consume", "touch"} => c.bucket \in 1..Len(buckets)

\* Every bucket but the last has left the map.
BucketsShape ==
  /\ now \in Nat /\ granted \in Nat /\ minute \in 0..now /\ now < minute + Window
  /\ buckets \in Seq(BucketKind) /\ \A i \in 1..Len(buckets) : BucketFits(buckets[i])
  /\ entry \in {0, Len(buckets)}
  /\ DOMAIN caller = Callers /\ \A c \in Callers : CallerFits(caller[c])

LEMMA LimitsCount ==
  /\ Window \in Nat /\ Window >= 1 /\ IdleLimit \in Nat /\ IdleLimit >= Window
  /\ \A t \in Tiers : /\ Limit[t] \in Nat /\ Limit[t] >= 1
                       /\ Window * Limit[t] \in Nat /\ Window * Limit[t] >= Window
<1>1. Window \in Nat /\ Window >= 1 /\ IdleLimit \in Nat /\ IdleLimit >= Window
  BY BucketParameters
<1>2. ASSUME NEW t \in Tiers
      PROVE  /\ Limit[t] \in Nat /\ Limit[t] >= 1
             /\ Window * Limit[t] \in Nat /\ Window * Limit[t] >= Window
  <2>1. Limit[t] \in Nat /\ Limit[t] >= 1
    BY BucketParameters
  <2> DEFINE L == Limit[t]
  <2> HIDE DEF L
  <2>2. ASSUME L \in Nat, L >= 1 PROVE Window * L \in Nat /\ Window * L >= Window
    BY <1>1, <2>2
  <2> QED BY <2>1, <2>2 DEF L
<1> QED BY <1>1, <1>2

\* Refilling neither takes tokens nor fills a bucket over its limit.
LEMMA RefilledFits ==
  ASSUME NEW b, BucketFits(b), now \in Nat
  PROVE  /\ Refilled(b) \in Nat /\ Refilled(b) <= Window * Limit[b.tier]
         /\ b.tier \in Tiers
<1>1. b.tier \in Tiers /\ b.tokens \in Nat /\ b.refilled \in Nat /\ b.refilled <= now
  BY DEF BucketFits, BucketKind
<1>2. Limit[b.tier] \in Nat /\ Window * Limit[b.tier] \in Nat
  BY <1>1, LimitsCount
<1>3. now - b.refilled \in Nat
  BY <1>1
<1>4. (now - b.refilled) * Limit[b.tier] \in Nat
  BY <1>2, <1>3
<1> QED BY <1>1, <1>2, <1>4 DEF Refilled, Least

LEMMA UsingIsPlace ==
  ASSUME NEW i \in Nat
  PROVE  Using(i) \in Places /\ Using(i).pc = "consume" /\ Using(i).bucket = i
  BY DEF Using, Out, Places

\* A bucket that is drawn on, or touched, is still one.
LEMMA BucketSet ==
  ASSUME NEW b, BucketFits(b), now \in Nat, NEW n \in Nat, n <= Window * Limit[b.tier]
  PROVE  /\ BucketFits([b EXCEPT !.tokens = n, !.refilled = now])
         /\ BucketFits([b EXCEPT !.access = now])
<1>1. /\ b \in BucketKind /\ b.tokens <= Window * Limit[b.tier]
      /\ b.refilled <= now /\ b.access <= now
  BY DEF BucketFits
<1>2. /\ [b EXCEPT !.tokens = n, !.refilled = now] \in BucketKind
      /\ [b EXCEPT !.tokens = n, !.refilled = now].tier = b.tier
      /\ [b EXCEPT !.tokens = n, !.refilled = now].tokens = n
      /\ [b EXCEPT !.tokens = n, !.refilled = now].refilled = now
      /\ [b EXCEPT !.tokens = n, !.refilled = now].access = b.access
  BY <1>1 DEF BucketKind
<1>3. /\ [b EXCEPT !.access = now] \in BucketKind
      /\ [b EXCEPT !.access = now].tier = b.tier
      /\ [b EXCEPT !.access = now].tokens = b.tokens
      /\ [b EXCEPT !.access = now].refilled = b.refilled
      /\ [b EXCEPT !.access = now].access = now
  BY <1>1 DEF BucketKind
<1> QED BY <1>1, <1>2, <1>3 DEF BucketFits

LEMMA BucketsShapeInitially == NoEntries => BucketsShape
  BY LimitsCount DEF NoEntries, BucketsShape, Out, CallerFits, Places

LEMMA ChangedBucket ==
  ASSUME BucketsShape, NEW i \in 1..Len(buckets), NEW b, BucketFits(b),
         buckets' = [buckets EXCEPT ![i] = b]
  PROVE  /\ buckets' \in Seq(BucketKind) /\ Len(buckets') = Len(buckets)
         /\ buckets'[i] = b /\ \A j \in 1..Len(buckets) : j # i => buckets'[j] = buckets[j]
<1>1. b \in BucketKind
  BY DEF BucketFits
<1> QED BY <1>1, ExceptSeq DEF BucketsShape

\* Every step keeps the shape.
LEMMA BucketsShapeStep == BucketsShape /\ [BucketsNext]_bucketVars => BucketsShape'
<1> SUFFICES ASSUME BucketsShape, [BucketsNext]_bucketVars PROVE BucketsShape'
  OBVIOUS
<1> USE DEF BucketsShape
<1>1. ASSUME NEW c \in Callers, NEW t \in Tiers, Lookup(c, t) PROVE BucketsShape'
  <2>1. CallerFits([Out EXCEPT !.pc = "create", !.tier = t])
    BY DEF CallerFits, Places, Out
  <2>2. entry # 0 => CallerFits(Using(entry))
    BY UsingIsPlace DEF CallerFits
  <2>3. CallerFits(caller'[c]) /\ \A d \in Callers : d # c => caller'[d] = caller[d]
    BY <1>1, <2>1, <2>2 DEF Lookup
  <2>4. DOMAIN caller' = Callers /\ \A d \in Callers : CallerFits(caller'[d])
    BY <1>1, <2>3 DEF Lookup
  <2> QED BY <1>1, <2>4 DEF Lookup, CallerFits, BucketFits
<1>2. ASSUME NEW c \in Callers, Create(c) PROVE BucketsShape'
  <2>1. CASE entry # 0
    <3>1. CallerFits(Using(entry))
      BY <2>1, UsingIsPlace DEF CallerFits
    <3>2. DOMAIN caller' = Callers /\ \A d \in Callers : CallerFits(caller'[d])
      BY <1>2, <2>1, <3>1 DEF Create
    <3> QED BY <1>2, <2>1, <3>2 DEF Create, CallerFits, BucketFits
  <2>2. CASE entry = 0
    <3> DEFINE b == [tier |-> caller[c].tier, tokens |-> Window * Limit[caller[c].tier],
                     refilled |-> now, access |-> now]
    <3>1. caller[c].tier \in Tiers
      BY <1>2 DEF Create, CallerFits
    <3>2. b \in BucketKind /\ BucketFits(b)
      BY SMTT(30), <3>1, LimitsCount DEF BucketFits, BucketKind
    <3>3. buckets' = Append(buckets, b) /\ entry' = Len(buckets') /\ caller' = [caller EXCEPT ![c] = Using(entry')]
      BY <1>2, <2>2 DEF Create
    <3> HIDE DEF b
    <3>4. /\ buckets' \in Seq(BucketKind) /\ Len(buckets') = Len(buckets) + 1
          /\ buckets'[Len(buckets) + 1] = b /\ \A i \in 1..Len(buckets) : buckets'[i] = buckets[i]
      BY <3>2, <3>3, AppendProperties
    <3>5. \A i \in 1..Len(buckets') : BucketFits(buckets'[i])
      BY <3>2, <3>4
    <3>6. \A d \in Callers : CallerFits(caller[d])'
      <4>1. Len(buckets) \in Nat
        OBVIOUS
      <4>2. Using(entry') \in Places /\ Using(entry').pc = "consume" /\ Using(entry').bucket = Len(buckets) + 1
        BY <3>3, <3>4, <4>1, UsingIsPlace
      <4>3. caller'[c] = Using(entry') /\ \A d \in Callers : d # c => caller'[d] = caller[d]
        BY <3>3
      <4>4. ASSUME NEW d \in Callers, d # c PROVE CallerFits(caller[d])'
        BY <3>4, <4>1, <4>3, <4>4 DEF CallerFits
      <4> QED BY <3>4, <4>1, <4>2, <4>3, <4>4 DEF CallerFits
    <3> QED BY <1>2, <3>3, <3>4, <3>5, <3>6 DEF Create, BucketFits
  <2> QED BY <2>1, <2>2
<1>3. ASSUME NEW c \in Callers, TryConsume(c) PROVE BucketsShape'
  <2> DEFINE i == caller[c].bucket
             b == buckets[i]
             enough == Refilled(b) >= Window
             n == Refilled(b) - (IF enough THEN Window ELSE 0)
             a == [b EXCEPT !.tokens = n, !.refilled = now]
  <2>1. i \in 1..Len(buckets) /\ BucketFits(b)
    BY <1>3 DEF TryConsume, CallerFits
  <2>2. Refilled(b) \in Nat /\ Refilled(b) <= Window * Limit[b.tier] /\ Window * Limit[b.tier] \in Nat
    BY <2>1, RefilledFits, LimitsCount
  <2>3. BucketFits(a)
    <3>1. n \in Nat /\ n <= Window * Limit[b.tier]
      BY <2>2, LimitsCount
    <3> HIDE DEF n
    <3> QED BY <2>1, <3>1, BucketSet
  <2>4. buckets' = [buckets EXCEPT ![i] = a]
    BY <1>3 DEF TryConsume
  <2> HIDE DEF i, a
  <2>5. /\ buckets' \in Seq(BucketKind) /\ Len(buckets') = Len(buckets)
        /\ \A j \in 1..Len(buckets) : BucketFits(buckets'[j])
    BY <2>1, <2>3, <2>4, ChangedBucket
  <2>6. CallerFits([caller[c] EXCEPT !.pc = "touch"])
    BY <1>3 DEF TryConsume, CallerFits, Places
  <2>7. DOMAIN caller' = Callers /\ \A d \in Callers : CallerFits(caller'[d])
    BY <1>3, <2>6 DEF TryConsume
  <2>8. granted' \in Nat
    BY <1>3 DEF TryConsume
  <2> QED BY <1>3, <2>5, <2>7, <2>8 DEF TryConsume, CallerFits, BucketFits
<1>4. ASSUME NEW c \in Callers, Touch(c) PROVE BucketsShape'
  <2> DEFINE i == caller[c].bucket
             a == [buckets[i] EXCEPT !.access = now]
  <2>1. i \in 1..Len(buckets) /\ BucketFits(buckets[i])
    BY <1>4 DEF Touch, CallerFits
  <2>2. BucketFits(a)
    <3>1. 0 \in Nat /\ 0 <= Window * Limit[buckets[i].tier]
      BY <2>1, RefilledFits, LimitsCount
    <3> QED BY <2>1, <3>1, BucketSet
  <2>3. buckets' = [buckets EXCEPT ![i] = a]
    BY <1>4 DEF Touch
  <2> HIDE DEF i, a
  <2>4. /\ buckets' \in Seq(BucketKind) /\ Len(buckets') = Len(buckets)
        /\ \A j \in 1..Len(buckets) : BucketFits(buckets'[j])
    BY <2>1, <2>2, <2>3, ChangedBucket
  <2>5. CallerFits(Out)
    BY DEF CallerFits, Places, Out
  <2>6. DOMAIN caller' = Callers /\ \A d \in Callers : CallerFits(caller'[d])
    BY <1>4, <2>5 DEF Touch
  <2> QED BY <1>4, <2>4, <2>6 DEF Touch, CallerFits, BucketFits
<1>5. CASE CleanupIdle
  BY <1>5 DEF CleanupIdle, CallerFits, BucketFits
<1>6. CASE BucketTick
  <2>1. now' \in Nat /\ minute' \in 0..now' /\ now' < minute' + Window /\ granted' \in Nat
    BY <1>6, LimitsCount DEF BucketTick
  <2>2. \A i \in 1..Len(buckets) : BucketFits(buckets[i])'
    BY SMTT(30), <1>6 DEF BucketTick, BucketFits, BucketKind
  <2> QED BY <1>6, <2>1, <2>2 DEF BucketTick, CallerFits
<1>7. CASE UNCHANGED bucketVars
  BY <1>7 DEF bucketVars, CallerFits, BucketFits
<1> QED BY <1>1, <1>2, <1>3, <1>4, <1>5, <1>6, <1>7 DEF BucketsNext

\* Who is about to draw on a bucket that has left the map, and who is not
\* through with the one that is in it.
Stale == {c \in Callers : caller[c].pc = "consume" /\ caller[c].bucket # entry}
NotThrough == {c \in Callers : ~(caller[c].pc = "touch" /\ caller[c].bucket = entry)}

\* What was granted in this minute, and what may still be drawn on buckets
\* that have left the map, over two for each request but one.
Overdraft == granted + Cardinality(Stale) - (2 * Cardinality(Callers) - 1)


\* Whoever made the entry in the map does not hold an older bucket.
SomeoneInTime == entry # 0 => Stale # Callers

\* Where nobody has finished with the entry since the minute began, whoever
\* drew on it in this minute is still to touch it: this is what is left when
\* the entry is dropped, as it is idle for a minute at least.
IdleHasSpare ==
  entry # 0 => (buckets[entry].access < minute => Overdraft + Cardinality(NotThrough) <= 0)

GoneHasSpare == entry = 0 => Overdraft <= 0

\* While there is an entry, what was drawn on it in this minute came from its
\* full bucket and from what it gained since.
UsedAndLeft ==
  entry # 0 => Refilled(buckets[entry]) + Window * Overdraft
               <= (Window + (now - minute)) * Limit[buckets[entry].tier]

BurstInv == BucketsShape /\ SomeoneInTime /\ IdleHasSpare /\ GoneHasSpare /\ UsedAndLeft

\* Sets of requests, by their numbers.
LEMMA CallersCount ==
  /\ Cardinality(Callers) \in Nat /\ Cardinality(Callers) >= 1
  /\ \A S \in SUBSET Callers :
       /\ Cardinality(S) \in Nat /\ Cardinality(S) <= Cardinality(Callers)
       /\ S # Callers => Cardinality(S) < Cardinality(Callers)
       /\ \A c \in S : Cardinality(S \ {c}) = Cardinality(S) - 1
       /\ \A T \in SUBSET S : Cardinality(T) <= Cardinality(S)
<1>1. IsFiniteSet(Callers) /\ Callers # {}
  BY BucketParameters
<1>2. Cardinality(Callers) \in Nat /\ Cardinality(Callers) >= 1
  BY <1>1, FS_CardinalityType, FS_EmptySet
<1>3. ASSUME NEW S \in SUBSET Callers
      PROVE  /\ Cardinality(S) \in Nat /\ Cardinality(S) <= Cardinality(Callers)
             /\ S # Callers => Cardinality(S) < Cardinality(Callers)
             /\ \A c \in S : Cardinality(S \ {c}) = Cardinality(S) - 1
             /\ \A T \in SUBSET S : Cardinality(T) <= Cardinality(S)
  <2>1. /\ IsFiniteSet(S) /\ Cardinality(S) <= Cardinality(Callers)
        /\ Cardinality(Callers) = Cardinality(S) => Callers = S
    BY <1>1, FS_Subset
  <2>2. Cardinality(S) \in Nat
    BY <2>1, FS_CardinalityType
  <2>3. \A c \in S : Cardinality(S \ {c}) = Cardinality(S) - 1
    BY <2>1, FS_RemoveElement
  <2>4. \A T \in SUBSET S : Cardinality(T) <= Cardinality(S)
    BY <2>1, FS_Subset
  <2> QED BY <1>2, <2>1, <2>2, <2>3, <2>4
<1> QED BY <1>2, <1>3

LEMMA BurstInitially == NoEntries => BurstInv
<1> SUFFICES ASSUME NoEntries PROVE BurstInv
  OBVIOUS
<1>1. Stale = {}
  BY DEF NoEntries, Stale, Out
<1>2. Cardinality(Stale) = 0
  BY <1>1, FS_EmptySet
<1>3. Overdraft <= 0
  BY <1>2, CallersCount DEF NoEntries, Overdraft
<1> QED BY <1>3, BucketsShapeInitially DEF NoEntries, BurstInv, SomeoneInTime, IdleHasSpare, GoneHasSpare, UsedAndLeft

LEMMA StaleCount ==
  /\ Stale \in SUBSET Callers /\ NotThrough \in SUBSET Callers
  /\ Stale \subseteq NotThrough
  BY DEF Stale, NotThrough

\* A request comes to the entry that is there.
LEMMA JoinStep ==
  ASSUME BurstInv, BucketsShape', NEW c \in Callers, caller[c].pc \in {"out", "create"},
         caller'[c].pc = "create" \/ (entry # 0 /\ caller'[c] = Using(entry)),
         \A d \in Callers : d # c => caller'[d] = caller[d],
         UNCHANGED <<now, buckets, entry, minute, granted>>
  PROVE  BurstInv'
<1>1. caller'[c].pc = "create" \/ (caller'[c].pc = "consume" /\ caller'[c].bucket = entry)
  BY UsingIsPlace DEF BurstInv, BucketsShape
<1>2. Stale' = Stale
  BY <1>1 DEF Stale
<1>3. NotThrough' = NotThrough
  BY <1>1 DEF NotThrough
<1> QED
  BY <1>2, <1>3 DEF BurstInv, SomeoneInTime, IdleHasSpare, GoneHasSpare, UsedAndLeft, Overdraft, Refilled

\* A request makes the entry that is gone anew.
LEMMA MakeStep ==
  ASSUME BurstInv, BucketsShape', NEW c \in Callers, Create(c), entry = 0
  PROVE  BurstInv'
<1> DEFINE t == caller[c].tier
           b == [tier |-> t, tokens |-> Window * Limit[t], refilled |-> now, access |-> now]
           k == Len(buckets) + 1
<1>1. /\ BucketsShape /\ t \in Tiers /\ DOMAIN caller = Callers /\ caller[c].pc = "create"
      /\ now \in Nat /\ minute \in Nat /\ minute <= now
      /\ \A d \in Callers : caller[d].pc = "consume" => caller[d].bucket \in 1..Len(buckets)
  BY DEF BurstInv, BucketsShape, CallerFits, Create
<1>2. b \in BucketKind /\ b.tier = t /\ b.tokens = Window * Limit[t] /\ b.refilled = now /\ b.access = now
  BY <1>1, LimitsCount DEF BucketKind
<1>3. buckets' = Append(buckets, b) /\ entry' = Len(buckets') /\ UNCHANGED <<now, minute, granted>>
      /\ caller' = [caller EXCEPT ![c] = Using(entry')]
  BY DEF Create
<1> HIDE DEF b, k, t
<1>4. Len(buckets) \in Nat /\ entry' = k /\ buckets'[k] = b
  BY <1>1, <1>2, <1>3, AppendProperties DEF BucketsShape, k
<1>5. k \in Nat /\ k > Len(buckets)
  BY <1>4 DEF k
<1>6. Using(k).pc = "consume" /\ Using(k).bucket = k
  BY <1>5, UsingIsPlace
<1>7. caller'[c] = Using(k) /\ \A d \in Callers : d # c => caller'[d] = caller[d]
  BY <1>1, <1>3, <1>4
<1>8. Stale' = Stale
  BY <1>1, <1>4, <1>5, <1>6, <1>7 DEF Stale
<1>9. c \notin Stale
  BY <1>1 DEF Stale
<1>10. Overdraft' = Overdraft /\ Overdraft \in Int /\ Overdraft <= 0
  BY <1>3, <1>8, CallersCount, StaleCount, <1>1 DEF Overdraft, BurstInv, GoneHasSpare, BucketsShape
<1>11. SomeoneInTime'
  BY <1>8, <1>9 DEF SomeoneInTime
<1>12. IdleHasSpare'
  BY <1>1, <1>2, <1>3, <1>4 DEF IdleHasSpare
<1>13. UsedAndLeft'
  <2> DEFINE L == Limit[t]
  <2>1. L \in Nat /\ Window \in Nat
    BY <1>1, LimitsCount
  <2>2. buckets'[entry'].tier = t /\ Refilled(buckets[entry])' <= Window * L /\ Refilled(buckets[entry])' \in Int
    <3>1. Refilled(buckets[entry])' = Least(b.tokens + (now' - b.refilled) * L, Window * L)
      BY <1>2, <1>4 DEF Refilled
    <3>2. (now' - b.refilled) * L = 0 /\ Window * L \in Int
      BY <1>1, <1>2, <1>3, <2>1
    <3> QED BY <1>2, <1>4, <3>1, <3>2 DEF Least
  <2> DEFINE s == now - minute
  <2>3. s \in Nat
    BY <1>1
  <2> HIDE DEF L, s
  <2>4. Window * Overdraft <= 0 /\ Window * Overdraft \in Int
    <3>1. ASSUME NEW o \in Int, o <= 0 PROVE Window * o <= 0 /\ Window * o \in Int
      BY <3>1, <2>1
    <3> QED BY <3>1, <1>10
  <2>5. (Window + s) * L = Window * L + s * L /\ s * L \in Nat /\ Window * L \in Int
    BY <2>1, <2>3
  <2>6. (now - minute)' = s
    BY <1>3 DEF s
  <2>7. Refilled(buckets[entry])' + Window * Overdraft <= (Window + s) * L
    BY <2>2, <2>4, <2>5
  <2> QED BY <1>10, <2>2, <2>6, <2>7 DEF UsedAndLeft, L
<1>14. GoneHasSpare'
  BY <1>4, <1>5 DEF GoneHasSpare
<1> QED BY <1>11, <1>12, <1>13, <1>14 DEF BurstInv

\* The entry is dropped, and whoever still holds it may draw once more.
LEMMA DropStep == ASSUME BurstInv, BucketsShape', CleanupIdle PROVE BurstInv'
<1>1. /\ entry # 0 /\ entry' = 0 /\ UNCHANGED <<now, buckets, caller, minute, granted>>
      /\ now - buckets[entry].access > IdleLimit
  BY DEF CleanupIdle
<1>2. /\ now \in Nat /\ minute \in Nat /\ minute <= now /\ now < minute + Window
      /\ buckets[entry].access \in Nat /\ granted \in Nat
  BY SMTT(30), <1>1 DEF BurstInv, BucketsShape, BucketFits, BucketKind
<1>3. buckets[entry].access < minute
  BY <1>1, <1>2, LimitsCount
<1>4. Overdraft + Cardinality(NotThrough) <= 0
  BY <1>1, <1>3 DEF BurstInv, IdleHasSpare
<1>5. Stale' \in SUBSET NotThrough
  BY <1>1 DEF Stale, NotThrough
<1>6. Cardinality(Stale') <= Cardinality(NotThrough)
  BY <1>5, CallersCount, StaleCount
<1>7. /\ Cardinality(Stale) \in Nat /\ Cardinality(NotThrough) \in Nat
      /\ Cardinality(Stale') \in Nat /\ Cardinality(Callers) \in Nat
  BY <1>5, CallersCount, StaleCount
<1>8. Overdraft' <= 0
  BY <1>1, <1>2, <1>4, <1>6, <1>7 DEF Overdraft
<1> QED BY <1>1, <1>8 DEF BurstInv, SomeoneInTime, IdleHasSpare, GoneHasSpare, UsedAndLeft

\* A request draws on a bucket that has left the map.
LEMMA DrawOnGoneStep ==
  ASSUME BurstInv, BucketsShape', NEW c \in Callers, TryConsume(c), caller[c].bucket # entry
  PROVE  BurstInv'
<1> DEFINE i == caller[c].bucket
           moved == [caller[c] EXCEPT !.pc = "touch"]
<1>1. /\ BucketsShape /\ DOMAIN caller = Callers /\ caller[c] \in Places /\ caller[c].pc = "consume" /\ granted \in Nat
      /\ i \in 1..Len(buckets) /\ buckets \in Seq(BucketKind)
  BY DEF BurstInv, BucketsShape, CallerFits, TryConsume
<1>2. /\ moved.pc = "touch" /\ moved.bucket = i
      /\ caller' = [caller EXCEPT ![c] = moved]
  BY <1>1 DEF Places, TryConsume
<1>3. UNCHANGED <<now, entry, minute>> /\ granted' \in {granted, granted + 1}
  BY DEF TryConsume
<1>4. entry # 0 => buckets'[entry] = buckets[entry]
  <2>1. PICK b : buckets' = [buckets EXCEPT ![i] = b]
    BY DEF TryConsume
  <2>2. DOMAIN buckets = 1..Len(buckets) /\ entry \in {0, Len(buckets)} /\ Len(buckets) \in Nat
    BY <1>1, LenProperties DEF BucketsShape
  <2>3. i # entry
    OBVIOUS
  <2>4. entry # 0 => entry \in 1..Len(buckets)
    BY <2>2
  <2> HIDE DEF i
  <2> QED BY <2>1, <2>2, <2>3, <2>4
<1> HIDE DEF moved
<1>5. caller'[c] = moved /\ \A d \in Callers : d # c => caller'[d] = caller[d]
  BY <1>1, <1>2
<1>6. c \in Stale /\ Stale' = Stale \ {c} /\ NotThrough' = NotThrough
  BY <1>1, <1>2, <1>3, <1>5 DEF Stale, NotThrough
<1>7. /\ Cardinality(Stale') = Cardinality(Stale) - 1 /\ Cardinality(Stale) \in Nat
      /\ Cardinality(NotThrough) \in Nat /\ Cardinality(Callers) \in Nat
  BY <1>6, CallersCount, StaleCount
<1>8. Overdraft' <= Overdraft /\ Overdraft \in Int /\ Overdraft' \in Int
  <2>1. granted' \in Nat /\ granted' <= granted + 1
    BY <1>1, <1>3
  <2>2. \A g, h, x, y \in Nat : h <= g + 1 =>
          /\ h + (x - 1) - (2 * y - 1) <= g + x - (2 * y - 1)
          /\ g + x - (2 * y - 1) \in Int /\ h + (x - 1) - (2 * y - 1) \in Int
    OBVIOUS
  <2>3. granted \in Nat
    BY <1>1
  <2>4. Overdraft' = granted' + (Cardinality(Stale) - 1) - (2 * Cardinality(Callers) - 1)
    BY <1>7 DEF Overdraft
  <2> QED BY <2>1, <2>2, <2>3, <2>4, <1>7 DEF Overdraft
<1>9. SomeoneInTime' /\ GoneHasSpare'
  BY <1>3, <1>6, <1>8 DEF BurstInv, SomeoneInTime, GoneHasSpare
<1>10. IdleHasSpare'
  <2> SUFFICES ASSUME entry # 0, buckets[entry].access < minute PROVE Overdraft' + Cardinality(NotThrough) <= 0
    BY <1>3, <1>4, <1>6 DEF IdleHasSpare
  <2>1. Overdraft + Cardinality(NotThrough) <= 0
    BY DEF BurstInv, IdleHasSpare
  <2> QED BY <1>7, <1>8, <2>1
<1>11. UsedAndLeft'
  <2> SUFFICES ASSUME entry # 0
               PROVE  Refilled(buckets[entry]) + Window * Overdraft'
                        <= (Window + (now - minute)) * Limit[buckets[entry].tier]
    BY <1>3, <1>4 DEF UsedAndLeft, Refilled
  <2>1. Refilled(buckets[entry]) + Window * Overdraft <= (Window + (now - minute)) * Limit[buckets[entry].tier]
    BY DEF BurstInv, UsedAndLeft
  <2>2. Refilled(buckets[entry]) \in Int /\ buckets[entry].tier \in Tiers /\ now \in Int /\ minute \in Int
    BY RefilledFits DEF BurstInv, BucketsShape
  <2>3. Window \in Nat /\ Limit[buckets[entry].tier] \in Nat
    BY <2>2, LimitsCount
  <2>4. (Window + (now - minute)) * Limit[buckets[entry].tier] \in Int
    BY <2>2, <2>3
  <2>5. Window * Overdraft' <= Window * Overdraft /\ Window * Overdraft' \in Int /\ Window * Overdraft \in Int
    <3>1. \A o, p \in Int : o <= p => Window * o <= Window * p /\ Window * o \in Int /\ Window * p \in Int
      BY <2>3, Products
    <3> QED BY <1>8, <3>1
  <2> QED BY <2>1, <2>2, <2>4, <2>5
<1> QED BY <1>9, <1>10, <1>11 DEF BurstInv

\* A request draws on the bucket that is in the map.
LEMMA DrawStep ==
  ASSUME BurstInv, BucketsShape', NEW c \in Callers, TryConsume(c), caller[c].bucket = entry
  PROVE  BurstInv'
<1> DEFINE b == buckets[entry]
           enough == Refilled(b) >= Window
           n == Refilled(b) - (IF enough THEN Window ELSE 0)
           a == [b EXCEPT !.tokens = n, !.refilled = now]
           moved == [caller[c] EXCEPT !.pc = "touch"]
<1>1. /\ BucketsShape /\ DOMAIN caller = Callers /\ caller[c] \in Places /\ caller[c].pc = "consume" /\ granted \in Nat
      /\ entry \in 1..Len(buckets) /\ buckets \in Seq(BucketKind) /\ entry # 0 /\ BucketFits(b)
      /\ now \in Nat /\ minute \in Nat
  BY DEF BurstInv, BucketsShape, CallerFits, TryConsume
<1>2. /\ moved.pc = "touch" /\ moved.bucket = entry
      /\ caller' = [caller EXCEPT ![c] = moved]
  BY <1>1 DEF Places, TryConsume
<1>3. /\ UNCHANGED <<now, entry, minute>>
      /\ granted' = IF enough THEN granted + 1 ELSE granted
      /\ buckets' = [buckets EXCEPT ![entry] = a]
  BY DEF TryConsume
<1>4. b \in BucketKind /\ b.tier \in Tiers
  BY <1>1 DEF BucketFits, BucketKind
<1>5. buckets'[entry] = a /\ a.tier = b.tier /\ a.access = b.access /\ a.tokens = n /\ a.refilled = now
  <2>1. DOMAIN buckets = 1..Len(buckets)
    BY <1>1, LenProperties
  <2>2. buckets'[entry] = a
    BY <1>1, <1>3, <2>1
  <2>3. a.tier = b.tier /\ a.access = b.access /\ a.tokens = n /\ a.refilled = now
    BY <1>4 DEF BucketKind
  <2> QED BY <2>2, <2>3
<1> DEFINE L == Limit[b.tier]
<1>6. /\ Refilled(b) \in Nat /\ Refilled(b) <= Window * L /\ Window * L \in Nat
      /\ L \in Nat /\ Window \in Nat /\ Window >= 1
  BY <1>1, <1>4, RefilledFits, LimitsCount
<1>7. Refilled(b)' = n
  <2>1. Refilled(b)' = Least(n + (now - now) * L, Window * L)
    BY <1>3, <1>5 DEF Refilled
  <2>2. (now - now) * L = 0
    BY <1>1, <1>6
  <2> QED BY <1>6, <2>1, <2>2 DEF Least
<1> HIDE DEF moved, a, L
<1>8. caller'[c] = moved /\ \A d \in Callers : d # c => caller'[d] = caller[d]
  BY <1>1, <1>2
<1>9. Stale' = Stale /\ c \in NotThrough /\ NotThrough' = NotThrough \ {c}
  BY <1>1, <1>2, <1>3, <1>8 DEF Stale, NotThrough
<1>10. /\ Cardinality(NotThrough') = Cardinality(NotThrough) - 1 /\ Cardinality(Stale) \in Nat
       /\ Cardinality(NotThrough) \in Nat /\ Cardinality(Callers) \in Nat
  BY <1>9, CallersCount, StaleCount
<1>11. Overdraft' = (IF enough THEN Overdraft + 1 ELSE Overdraft) /\ Overdraft \in Int
  <2> HIDE DEF enough
  <2>1. granted' = (IF enough THEN granted + 1 ELSE granted) /\ granted \in Nat
    BY <1>1, <1>3
  <2>2. Cardinality(Stale') = Cardinality(Stale)
    BY <1>9
  <2>3. \A g, x, y \in Nat : /\ g + x - (2 * y - 1) \in Int
                            /\ (g + 1) + x - (2 * y - 1) = (g + x - (2 * y - 1)) + 1
    OBVIOUS
  <2> QED BY <2>1, <2>2, <2>3, <1>10 DEF Overdraft
<1>12. SomeoneInTime' /\ GoneHasSpare'
  BY <1>1, <1>3, <1>9 DEF BurstInv, SomeoneInTime, GoneHasSpare
<1>13. IdleHasSpare'
  <2> SUFFICES ASSUME b.access < minute PROVE Overdraft' + Cardinality(NotThrough') <= 0
    BY <1>1, <1>3, <1>5 DEF IdleHasSpare
  <2>1. Overdraft + Cardinality(NotThrough) <= 0
    BY <1>1 DEF BurstInv, IdleHasSpare
  <2> QED BY <1>10, <1>11, <2>1
<1>14. UsedAndLeft'
  <2>1. Refilled(b) + Window * Overdraft <= (Window + (now - minute)) * L
    BY <1>1 DEF BurstInv, UsedAndLeft, L
  <2>2. Window * (Overdraft + 1) = Window * Overdraft + Window /\ Window * Overdraft \in Int
    BY <1>6, <1>11, Products
  <2>3. (Window + (now - minute)) * L \in Int
    BY <1>1, <1>6
  <2>4. n + Window * Overdraft' <= (Window + (now - minute)) * L
    BY <1>6, <1>11, <2>1, <2>2, <2>3
  <2> QED BY <1>3, <1>5, <1>7, <2>4 DEF UsedAndLeft, L
<1> QED BY <1>12, <1>13, <1>14 DEF BurstInv

\* A request marks its bucket as used.
LEMMA TouchStep ==
  ASSUME BurstInv, BucketsShape', NEW c \in Callers, Touch(c)
  PROVE  BurstInv'
<1> DEFINE i == caller[c].bucket
           a == [buckets[i] EXCEPT !.access = now]
<1>1. /\ BucketsShape /\ DOMAIN caller = Callers /\ caller[c].pc = "touch"
      /\ i \in 1..Len(buckets) /\ buckets \in Seq(BucketKind) /\ entry \in {0, Len(buckets)} /\ Len(buckets) \in Nat
      /\ now \in Nat /\ minute \in Nat /\ minute <= now
  BY LenProperties DEF BurstInv, BucketsShape, CallerFits, Touch
<1>2. /\ UNCHANGED <<now, entry, minute, granted>> /\ caller' = [caller EXCEPT ![c] = Out]
      /\ buckets' = [buckets EXCEPT ![i] = a]
  BY DEF Touch
<1>3. /\ a.tier = buckets[i].tier /\ a.tokens = buckets[i].tokens /\ a.refilled = buckets[i].refilled
      /\ a.access = now
  <2>1. buckets[i] \in BucketKind
    BY <1>1, ElementOfSeq
  <2> QED BY <2>1 DEF BucketKind
<1> HIDE DEF a
<1>4. DOMAIN buckets = 1..Len(buckets)
  BY <1>1, LenProperties
<1> HIDE DEF i
<1>5. buckets'[i] = a /\ (entry # 0 /\ entry # i => buckets'[entry] = buckets[entry])
  <2>1. entry # 0 => entry \in 1..Len(buckets)
    BY <1>1
  <2> QED BY <1>1, <1>2, <1>4, <2>1
<1>6. Out.pc = "out"
  BY DEF Out
<1>7. caller'[c] = Out /\ \A d \in Callers : d # c => caller'[d] = caller[d]
  BY <1>1, <1>2
<1>8. Stale' = Stale
  BY <1>1, <1>2, <1>6, <1>7 DEF Stale
<1>9. Overdraft' = Overdraft
  BY <1>2, <1>8 DEF Overdraft
<1>10. SomeoneInTime' /\ GoneHasSpare'
  BY <1>2, <1>8, <1>9 DEF BurstInv, SomeoneInTime, GoneHasSpare
<1>11. IdleHasSpare'
  <2>1. CASE entry = i
    BY <1>1, <1>2, <1>3, <1>5, <2>1 DEF IdleHasSpare
  <2>2. CASE entry # i
    <3>1. NotThrough' = NotThrough
      BY <1>1, <1>2, <1>6, <1>7, <2>2 DEF NotThrough, i
    <3> QED BY <1>2, <1>5, <1>9, <2>2, <3>1 DEF BurstInv, IdleHasSpare
  <2> QED BY <2>1, <2>2
<1>12. UsedAndLeft'
  <2>1. entry # 0 => Refilled(buckets[entry])' = Refilled(buckets[entry]) /\ buckets'[entry].tier = buckets[entry].tier
    BY <1>2, <1>3, <1>5 DEF Refilled
  <2> QED BY <1>2, <1>9, <2>1 DEF BurstInv, UsedAndLeft
<1> QED BY <1>10, <1>11, <1>12 DEF BurstInv

\* A tick, in the minute or as the beginning of the next.
LEMMA TickStep == ASSUME BurstInv, BucketsShape', BucketTick PROVE BurstInv'
<1>1. /\ BucketsShape /\ now' = now + 1 /\ UNCHANGED <<buckets, entry, caller>>
      /\ now \in Nat /\ minute \in Nat /\ minute <= now /\ granted \in Nat
  BY DEF BurstInv, BucketsShape, BucketTick
<1>2. Stale' = Stale /\ NotThrough' = NotThrough /\ SomeoneInTime'
  BY <1>1 DEF Stale, NotThrough, BurstInv, SomeoneInTime
<1>3. /\ Cardinality(Callers) \in Nat /\ Cardinality(Callers) >= 1
      /\ Cardinality(Stale) \in Nat /\ Cardinality(Stale) <= Cardinality(Callers)
      /\ Cardinality(NotThrough) \in Nat /\ Cardinality(NotThrough) <= Cardinality(Callers)
      /\ entry # 0 => Cardinality(Stale) < Cardinality(Callers)
  BY CallersCount, StaleCount DEF BurstInv, SomeoneInTime
<1> DEFINE b == buckets[entry]
           L == Limit[b.tier]
<1>4. Overdraft \in Int
  BY <1>1, <1>3 DEF Overdraft
<1>5. ASSUME entry # 0
      PROVE  /\ b.tier \in Tiers /\ L \in Nat /\ Window \in Nat /\ b.access \in Nat /\ b.access <= now
             /\ Refilled(b) \in Nat /\ Refilled(b)' \in Nat
             /\ Refilled(b)' <= Refilled(b) + L /\ Refilled(b)' <= Window * L /\ Window * L \in Nat
  <2>1. BucketFits(b) /\ BucketFits(b)' /\ now' \in Nat
    BY <1>1, <1>5 DEF BurstInv, BucketsShape
  <2>2. b.tier \in Tiers /\ b.tokens \in Nat /\ b.refilled \in Nat /\ b.access \in Nat /\ b.access <= now
    BY <2>1 DEF BucketFits, BucketKind
  <2>3. L \in Nat /\ Window \in Nat /\ Window * L \in Nat
    BY <2>2, LimitsCount
  <2>4. Refilled(b) \in Nat /\ Refilled(b) <= Window * L
    BY <1>1, <2>1, RefilledFits
  <2> DEFINE gain == now - b.refilled
  <2>5. gain \in Int /\ (gain + 1) * L = gain * L + L /\ gain * L \in Int
    BY <1>1, <2>2, <2>3
  <2>6. now' - b.refilled = gain + 1
    BY <1>1, <2>2
  <2>7. Refilled(b)' = Least(b.tokens + (gain + 1) * L, Window * L)
    BY <1>1, <2>6 DEF Refilled
  <2>8. Refilled(b) = Least(b.tokens + gain * L, Window * L)
    BY DEF Refilled
  <2> HIDE DEF gain, L
  <2>9. Refilled(b)' <= Refilled(b) + L /\ Refilled(b)' <= Window * L /\ Refilled(b)' \in Int
    BY <2>2, <2>3, <2>5, <2>7, <2>8 DEF Least
  <2>10. Refilled(b)' \in Nat
    BY <2>2, <2>3, <2>4, <2>5, <2>7, <2>8 DEF Least
  <2> QED BY <2>2, <2>3, <2>4, <2>9, <2>10
<1> HIDE DEF b, L
<1>6. CASE now' < minute + Window /\ UNCHANGED <<minute, granted>>
  <2>1. Overdraft' = Overdraft
    BY <1>2, <1>6 DEF Overdraft
  <2>2. IdleHasSpare' /\ GoneHasSpare'
    BY <1>1, <1>2, <1>6, <2>1 DEF BurstInv, IdleHasSpare, GoneHasSpare
  <2>3. UsedAndLeft'
    <3> SUFFICES ASSUME entry # 0
                 PROVE  Refilled(b)' + Window * Overdraft <= (Window + ((now + 1) - minute)) * L
      BY <1>1, <1>6, <2>1 DEF UsedAndLeft, b, L
    <3>1. Refilled(b) + Window * Overdraft <= (Window + (now - minute)) * L
      BY DEF BurstInv, UsedAndLeft, b, L
    <3>2. (Window + ((now - minute) + 1)) * L = (Window + (now - minute)) * L + L
          /\ (Window + (now - minute)) * L \in Int
      BY <1>1, <1>5
    <3>3. (now + 1) - minute = (now - minute) + 1
      BY <1>1
    <3>4. Window * Overdraft \in Int
      BY <1>4, <1>5
    <3> QED BY <1>5, <3>1, <3>2, <3>3, <3>4
  <2> QED BY <1>2, <2>2, <2>3 DEF BurstInv
<1>7. CASE minute' = now' /\ granted' = 0
  <2>1. Overdraft' = Cardinality(Stale) - (2 * Cardinality(Callers) - 1)
    BY <1>2, <1>3, <1>7 DEF Overdraft
  <2>2. GoneHasSpare' /\ Overdraft' \in Int /\ Overdraft' <= 0
    BY <1>3, <2>1 DEF GoneHasSpare
  <2>3. IdleHasSpare'
    BY <1>1, <1>2, <1>3, <2>1 DEF IdleHasSpare
  <2>4. UsedAndLeft'
    <3> SUFFICES ASSUME entry # 0
                 PROVE  Refilled(b)' + Window * Overdraft' <= (Window + (now' - now')) * L
      BY <1>1, <1>7 DEF UsedAndLeft, b, L
    <3>1. Window * Overdraft' <= 0 /\ Window * Overdraft' \in Int
      <4>1. \A o \in Int : o <= 0 => Window * o <= 0 /\ Window * o \in Int
        BY <1>5
      <4> QED BY <2>2, <4>1
    <3>2. Window + (now' - now') = Window
      BY <1>1, <1>5
    <3> QED BY <1>5, <3>1, <3>2
  <2> QED BY <1>2, <2>2, <2>3, <2>4 DEF BurstInv
<1> QED BY <1>6, <1>7 DEF BucketTick

LEMMA BurstInductive == BurstInv /\ [BucketsNext]_bucketVars => BurstInv'
<1> SUFFICES ASSUME BurstInv, [BucketsNext]_bucketVars PROVE BurstInv'
  OBVIOUS
<1>0. BucketsShape'
  BY BucketsShapeStep DEF BurstInv
<1>1. ASSUME NEW c \in Callers, NEW t \in Tiers, Lookup(c, t) PROVE BurstInv'
  <2> DEFINE q == IF entry = 0 THEN [Out EXCEPT !.pc = "create", !.tier = t] ELSE Using(entry)
  <2>1. q.pc = "create" \/ (entry # 0 /\ q = Using(entry))
    BY DEF Out
  <2>2. /\ caller[c].pc \in {"out", "create"} /\ caller' = [caller EXCEPT ![c] = q]
        /\ UNCHANGED <<now, buckets, entry, minute, granted>>
    BY <1>1 DEF Lookup
  <2> HIDE DEF q
  <2>3. caller'[c] = q /\ \A d \in Callers : d # c => caller'[d] = caller[d]
    BY <2>2 DEF BurstInv, BucketsShape
  <2> QED BY <1>0, <2>1, <2>2, <2>3, JoinStep
<1>2. ASSUME NEW c \in Callers, Create(c) PROVE BurstInv'
  <2>1. CASE entry = 0
    BY <1>0, <1>2, <2>1, MakeStep
  <2>2. CASE entry # 0
    <3>1. /\ caller[c].pc \in {"out", "create"} /\ caller' = [caller EXCEPT ![c] = Using(entry)]
          /\ UNCHANGED <<now, buckets, entry, minute, granted>>
      BY <1>2, <2>2 DEF Create
    <3>2. caller'[c] = Using(entry) /\ \A d \in Callers : d # c => caller'[d] = caller[d]
      BY <3>1 DEF BurstInv, BucketsShape
    <3> QED BY <1>0, <2>2, <3>1, <3>2, JoinStep
  <2> QED BY <2>1, <2>2
<1>3. ASSUME NEW c \in Callers, TryConsume(c) PROVE BurstInv'
  BY <1>0, <1>3, DrawStep, DrawOnGoneStep
<1>4. ASSUME NEW c \in Callers, Touch(c) PROVE BurstInv'
  BY <1>0, <1>4, TouchStep
<1>5. CASE CleanupIdle
  BY <1>0, <1>5, DropStep
<1>6. CASE BucketTick
  BY <1>0, <1>6, TickStep
<1>7. CASE UNCHANGED bucketVars
  <2>1. UNCHANGED <<now, buckets, entry, caller, minute, granted>>
    BY <1>7 DEF bucketVars
  <2>2. Stale' = Stale /\ NotThrough' = NotThrough /\ Overdraft' = Overdraft
    BY <2>1 DEF Stale, NotThrough, Overdraft
  <2> QED BY <1>0, <2>1, <2>2 DEF BurstInv, SomeoneInTime, IdleHasSpare, GoneHasSpare, UsedAndLeft, Refilled
<1> QED BY <1>1, <1>2, <1>3, <1>4, <1>5, <1>6, <1>7 DEF BucketsNext

LEMMA BurstBound == BurstInv => BurstBounded
<1> SUFFICES ASSUME BurstInv PROVE BurstBounded
  OBVIOUS
<1>1. /\ granted \in Nat /\ now \in Nat /\ minute \in Nat /\ minute <= now /\ now < minute + Window
      /\ Cardinality(Callers) \in Nat /\ Cardinality(Stale) \in Nat
  BY CallersCount, StaleCount DEF BurstInv, BucketsShape
<1>2. CASE entry = 0
  <2>1. PICK t \in Tiers : TRUE
    BY BucketParameters
  <2>2. Limit[t] \in Nat /\ Limit[t] >= 1
    BY LimitsCount
  <2>3. Overdraft <= 0
    BY <1>2 DEF BurstInv, GoneHasSpare
  <2>4. granted <= 2 * Limit[t] + 2 * (Cardinality(Callers) - 1)
    BY <1>1, <2>2, <2>3 DEF Overdraft
  <2> QED BY <2>4 DEF BurstBounded
<1>3. CASE entry # 0
  <2> DEFINE t == buckets[entry].tier
             L == Limit[t]
             s == now - minute
  <2>1. BucketFits(buckets[entry])
    BY <1>3 DEF BurstInv, BucketsShape
  <2>2. Refilled(buckets[entry]) \in Nat /\ t \in Tiers
    BY <1>1, <2>1, RefilledFits
  <2>3. L \in Nat /\ L >= 1 /\ Window \in Nat /\ Window >= 1 /\ s \in Nat /\ s < Window
    BY <1>1, <2>2, LimitsCount
  <2>4. Refilled(buckets[entry]) + Window * Overdraft <= (Window + s) * L
    BY <1>3 DEF BurstInv, UsedAndLeft
  <2>5. Overdraft \in Int
    BY <1>1 DEF Overdraft
  <2> HIDE DEF L, s, t
  <2>6. Window * Overdraft < Window * (2 * L)
    <3>1. (Window + s) * L \in Int /\ (Window + s) * L <= (2 * Window - 1) * L
      BY <2>3
    <3>2. (2 * Window - 1) * L = Window * (2 * L) - L /\ Window * (2 * L) \in Int
      BY <2>3
    <3>3. Window * Overdraft \in Int
      BY <2>3, <2>5
    <3> QED BY <2>2, <2>3, <2>4, <3>1, <3>2, <3>3
  <2>7. Overdraft < 2 * L
    <3>1. \A o, p \in Int : Window * o < Window * p => o < p
      BY <2>3, Products
    <3> QED BY <2>3, <2>5, <2>6, <3>1
  <2>8. granted <= 2 * L + 2 * (Cardinality(Callers) - 1)
    BY <1>1, <2>3, <2>7 DEF Overdraft
  <2> QED BY <2>2, <2>8 DEF BurstBounded, L
<1> QED BY <1>2, <1>3

\* In no minute is more granted than two full buckets of some tier, and two
\* requests for each that is in the limiter but one (rate_limiter.go:128).
THEOREM BurstsAreBounded == BucketsSpec => []BurstBounded
<1>1. BucketsSpec => []BurstInv
  BY BurstInitially, BurstInductive, PTL DEF BucketsSpec
<1> QED BY <1>1, BurstBound, PTL

-----------------------------------------------------------------------------
(* The window that servers share.                                          *)

LEMMA SkewIsLargest == Skew \in Nat /\ \A s \in Servers : Ahead[s] \in Nat /\ Ahead[s] <= Skew
<1>1. PICK s \in Servers : \A r \in Servers : Ahead[r] <= Ahead[s]
  BY FiniteHasMax, WindowParameters
<1> DEFINE S == {Ahead[r] : r \in Servers}
<1>2. Ahead[s] \in S /\ \A a \in S : Ahead[s] >= a
  BY <1>1, WindowParameters
<1>3. Skew \in S /\ \A a \in S : Skew >= a
  BY <1>2 DEF Skew, Max
<1> QED BY <1>1, <1>3, WindowParameters

WindowTypeOK ==
  /\ clock \in Nat /\ expires \in Nat
  /\ members \subseteq Nat /\ IsFiniteSet(members)
  /\ passed \subseteq Nat \X Nat

\* The set is never over the quota.
SetWithinQuota == Cardinality(members) <= Quota

\* A request is a member by a clock that is not behind, and Redis keeps the
\* set for a window after it.
PassedInTime == \A r \in passed : r[2] <= r[1] /\ r[2] <= clock /\ r[2] + Width <= expires

\* Until a window less the skew has passed nobody, however far ahead, prunes
\* what was let through.
Remembered == \A r \in passed : clock < r[2] + Width - Skew => r[1] \in members

\* What the window that begins at t has let through.
Through(t) == {r \in passed : t <= r[2] /\ r[2] < t + Width - Skew}

WindowInv == WindowTypeOK /\ SetWithinQuota /\ PassedInTime /\ Remembered /\ WindowHolds

LEMMA WindowInitially == EmptyWindow => WindowInv
<1> SUFFICES ASSUME EmptyWindow PROVE WindowInv
  OBVIOUS
<1>1. WindowTypeOK /\ SetWithinQuota /\ PassedInTime /\ Remembered
  BY FS_EmptySet, WindowParameters
  DEF EmptyWindow, WindowTypeOK, SetWithinQuota, PassedInTime, Remembered
<1>2. \A t : {x[1] : x \in {y \in passed : t <= y[2] /\ y[2] < t + Width - Skew}} = {}
  BY DEF EmptyWindow
<1>3. Cardinality({}) = 0 /\ 0 <= Quota
  BY FS_EmptySet, WindowParameters
<1>4. WindowHolds
  BY <1>2, <1>3 DEF WindowHolds
<1> QED BY <1>1, <1>4 DEF WindowInv

\* What the script keeps is no more than there was, and holds all that the
\* windows which are still open have let through.
LEMMA KeptRemembers ==
  ASSUME WindowInv, NEW s \in Servers
  PROVE  /\ Kept(clock + Ahead[s]) \subseteq Nat /\ IsFiniteSet(Kept(clock + Ahead[s]))
         /\ Cardinality(Kept(clock + Ahead[s])) \in Nat
         /\ Cardinality(Kept(clock + Ahead[s])) <= Quota
         /\ \A r \in passed : clock < r[2] + Width - Skew => r[1] \in Kept(clock + Ahead[s])
<1> DEFINE at == clock + Ahead[s]
<1> USE DEF WindowInv, WindowTypeOK
<1>1. Kept(at) \in SUBSET members
  BY DEF Kept, There
<1>2. IsFiniteSet(Kept(at)) /\ Cardinality(Kept(at)) <= Cardinality(members)
  BY <1>1, FS_Subset
<1>3. Cardinality(Kept(at)) \in Nat /\ Cardinality(members) \in Nat
  BY <1>2, FS_CardinalityType
<1>4. Cardinality(Kept(at)) <= Quota
  BY <1>2, <1>3, WindowParameters DEF SetWithinQuota
<1>5. ASSUME NEW r \in passed, clock < r[2] + Width - Skew
      PROVE  r[1] \in Kept(at)
  <2>1. r[1] \in members /\ r[1] \in Nat /\ r[2] \in Nat /\ r[2] <= r[1] /\ r[2] + Width <= expires
    BY <1>5 DEF Remembered, PassedInTime
  <2>2. clock < expires /\ r[1] > at - Width
    BY <1>5, <2>1, SkewIsLargest, WindowParameters
  <2> QED BY <2>1, <2>2 DEF Kept, There
<1> QED BY <1>1, <1>2, <1>3, <1>4, <1>5

\* All that an open window has let through is in the set.
LEMMA OpenWindowHolds ==
  WindowTypeOK /\ SetWithinQuota /\ Remembered
  => \A t \in Nat : clock < t + Width - Skew => Cardinality({r[1] : r \in Through(t)}) <= Quota
<1> SUFFICES ASSUME WindowTypeOK, SetWithinQuota, Remembered, NEW t \in Nat, clock < t + Width - Skew
             PROVE  Cardinality({r[1] : r \in Through(t)}) <= Quota
  OBVIOUS
<1> DEFINE M == {r[1] : r \in Through(t)}
<1>1. M \in SUBSET members
  BY SkewIsLargest, WindowParameters DEF Through, Remembered, WindowTypeOK
<1>2. IsFiniteSet(M) /\ Cardinality(M) <= Cardinality(members)
  BY <1>1, FS_Subset DEF WindowTypeOK
<1>3. Cardinality(M) \in Nat /\ Cardinality(members) \in Nat
  BY <1>2, FS_CardinalityType DEF WindowTypeOK
<1> QED BY <1>2, <1>3, WindowParameters DEF SetWithinQuota

LEMMA AllowStep ==
  ASSUME WindowInv, NEW s \in Servers, Allow(s)
  PROVE  WindowInv'
<1> DEFINE at == clock + Ahead[s]
           K == Kept(at)
<1>0. K \subseteq Nat /\ IsFiniteSet(K) /\ Cardinality(K) \in Nat /\ Cardinality(K) <= Quota
  BY KeptRemembers
<1>1. \A r \in passed : clock < r[2] + Width - Skew => r[1] \in K
  BY KeptRemembers
<1>2. at \in Nat /\ at >= clock /\ clock \in Nat /\ clock' = clock
  BY SkewIsLargest DEF WindowInv, WindowTypeOK, Allow
<1>3. CASE Cardinality(K) < Quota
  <2>1. members' = K \cup {at} /\ passed' = passed \cup {<<at, clock>>} /\ expires' = clock + Width
    BY <1>3 DEF Allow
  <2>2. IsFiniteSet(members') /\ Cardinality(members') <= Quota
    <3>1. IsFiniteSet(K \cup {at})
          /\ Cardinality(K \cup {at}) = IF at \in K THEN Cardinality(K) ELSE Cardinality(K) + 1
      BY <1>0, FS_AddElement
    <3> HIDE DEF K, at
    <3> QED BY <1>0, <1>3, <2>1, <3>1, WindowParameters
  <2>3. WindowTypeOK'
    BY <1>0, <1>2, <2>1, <2>2, WindowParameters DEF WindowInv, WindowTypeOK
  <2>4. PassedInTime'
    <3>1. ASSUME NEW r \in passed
          PROVE  r[2] <= r[1] /\ r[2] <= clock' /\ r[2] + Width <= expires'
      BY <1>2, <2>1, WindowParameters DEF WindowInv, WindowTypeOK, PassedInTime
    <3> QED BY <1>2, <2>1, <3>1, WindowParameters DEF PassedInTime
  <2>5. Remembered'
    BY <1>1, <1>2, <2>1 DEF Remembered
  <2>6. SetWithinQuota'
    BY <2>2 DEF SetWithinQuota
  <2>7. (\A t \in Nat : clock < t + Width - Skew => Cardinality({r[1] : r \in Through(t)}) <= Quota)'
    BY <2>3, <2>5, <2>6, OpenWindowHolds, PTL
  <2>8. ASSUME NEW t \in 0..LastTick
        PROVE  Cardinality({r[1] : r \in Through(t)'}) <= Quota
    <3>1. t \in Nat
      BY WindowParameters
    <3>2. CASE clock < t + Width - Skew
      <4>1. clock' < t + Width - Skew
        BY <1>2, <3>2
      <4> QED BY <2>7, <3>1, <4>1
    <3>3. CASE ~(clock < t + Width - Skew)
      <4>1. Through(t)' = Through(t)
        BY <1>2, <2>1, <3>3 DEF Through
      <4> QED BY <4>1 DEF WindowInv, WindowHolds, Through
    <3> QED BY <3>2, <3>3
  <2>9. WindowHolds'
    BY <2>8 DEF WindowHolds, Through
  <2> QED BY <2>3, <2>4, <2>5, <2>6, <2>9 DEF WindowInv
<1>4. CASE ~(Cardinality(K) < Quota)
  <2>1. members' = K /\ UNCHANGED <<passed, expires>>
    BY <1>4 DEF Allow
  <2> QED
    BY <1>0, <1>1, <1>2, <2>1
    DEF WindowInv, WindowTypeOK, SetWithinQuota, PassedInTime, Remembered, WindowHolds
<1> QED BY <1>3, <1>4

LEMMA WindowInductive == WindowInv /\ [WindowNext]_windowVars => WindowInv'
<1> SUFFICES ASSUME WindowInv, [WindowNext]_windowVars PROVE WindowInv'
  OBVIOUS
<1>1. CASE \E s \in Servers : Allow(s)
  BY <1>1, AllowStep
<1>2. CASE WindowTick
  <2>1. clock \in Nat /\ clock' = clock + 1 /\ UNCHANGED <<members, expires, passed>>
    BY <1>2 DEF WindowTick, WindowInv, WindowTypeOK
  <2>2. Remembered'
    BY <2>1, SkewIsLargest, WindowParameters DEF WindowInv, WindowTypeOK, Remembered
  <2>3. WindowTypeOK' /\ SetWithinQuota' /\ PassedInTime'
    BY <2>1 DEF WindowInv, WindowTypeOK, SetWithinQuota, PassedInTime
  <2>4. WindowHolds'
    BY <2>1 DEF WindowInv, WindowHolds
  <2> QED BY <2>2, <2>3, <2>4 DEF WindowInv
<1>3. CASE UNCHANGED windowVars
  BY <1>3 DEF windowVars, WindowInv, WindowTypeOK, SetWithinQuota, PassedInTime, Remembered, WindowHolds
<1> QED BY <1>1, <1>2, <1>3 DEF WindowNext

\* In a window less the skew no more members pass than the quota, for any
\* servers, clocks and quotas: nobody prunes early enough, and Redis drops
\* the set late enough (distributed_rate_limiter.go:35-42).
THEOREM WindowAlwaysHolds == WindowSpec => []WindowHolds
<1>1. WindowInv => WindowHolds
  BY DEF WindowInv
<1> QED BY <1>1, WindowInitially, WindowInductive, PTL DEF WindowSpec

-----------------------------------------------------------------------------
(* The cache of responses.                                                 *)

\* The CHOOSE in Ttl has something to choose: prefixes of a path are no
\* longer than the path.
LEMMA TtlIsNatural == \A p \in Paths : Ttl(p) \in Nat
<1> SUFFICES ASSUME NEW p \in Paths, Routes(p) # {} PROVE Ttl(p) \in Nat
  BY ResponseCacheParameters DEF Ttl
<1> DEFINE Longest(q) == q \in Routes(p) /\ \A o \in Routes(p) : Len(o) <= Len(q)
           Lengths == {Len(q) : q \in Routes(p)}
<1>1. \A q \in Routes(p) : Len(q) \in Nat /\ Len(q) <= Len(p) /\ Len(p) \in Nat
  BY ResponseCacheParameters DEF Routes, IsPrefix
<1>2. \E q : Longest(q)
  <2>1. Len(p) \in Nat /\ Lengths \subseteq 0..Len(p)
    BY <1>1
  <2>2. Lengths # {}
    OBVIOUS
  <2>3. PICK n \in Lengths : \A o \in Lengths : o <= n
    <3> HIDE DEF Lengths
    <3> QED BY <2>1, <2>2, BoundedHasMax
  <2> QED BY <2>3
<1>3. Longest(CHOOSE q \in Routes(p) : \A o \in Routes(p) : Len(o) <= Len(q))
  BY <1>2
<1> QED BY <1>3, ResponseCacheParameters DEF Ttl, Routes

ResponseTypeOK ==
  /\ moment \in Nat
  /\ stored \in [Paths -> [asOf : Nat, until : Nat]]
  /\ request \in [Requests -> [pc : {"done", "handler", "read", "store"}, path : Paths \cup {<<>>}, since : Nat, asOf : Nat]]
  /\ \A r \in Requests : request[r].pc # "done" => request[r].path \in Paths

\* A handler is not late, and read the data since it was asked.
HandlersInTime ==
  \A r \in Requests : request[r].pc \in {"handler", "read"} =>
    /\ request[r].since <= request[r].asOf /\ request[r].asOf <= moment
    /\ moment - request[r].since <= HandlerLimit

\* An answer that waits to be stored was young when its handler returned.
AnswersYoung ==
  \A r \in Requests : request[r].pc = "store" =>
    request[r].since <= moment /\ request[r].since - request[r].asOf <= HandlerLimit

\* What is stored ends in time, whatever its age when it was stored.
EndsInTime == \A p \in Paths : stored[p].until <= stored[p].asOf + HandlerLimit + WriteLimit + Ttl(p)

ResponseInv == ResponseTypeOK /\ HandlersInTime /\ AnswersYoung /\ EndsInTime

LEMMA ResponsesInitially == EmptyResponses => ResponseInv
BY TtlIsNatural, ResponseCacheParameters
DEF EmptyResponses, Nothing, Done, ResponseInv, ResponseTypeOK, HandlersInTime, AnswersYoung, EndsInTime

LEMMA StoreStep ==
  ASSUME ResponseInv, NEW r \in Requests, Store(r)
  PROVE  ResponseInv'
<1> USE DEF ResponseInv
<1>1. request[r].pc = "store" /\ moment' = moment /\ request' = [request EXCEPT ![r] = Done]
  BY DEF Store
<1>2. request[r].path \in Paths /\ request[r].since \in Nat /\ request[r].asOf \in Nat /\ moment \in Nat
      /\ stored \in [Paths -> [asOf : Nat, until : Nat]]
  BY <1>1 DEF ResponseTypeOK
<1>3. CASE moment - request[r].since <= WriteLimit /\ Save(r)
  <2> DEFINE p == request[r].path
             e == [asOf |-> request[r].asOf, until |-> moment + Ttl(p)]
  <2>1. stored' = [stored EXCEPT ![p] = e]
    BY <1>3 DEF Save
  <2>2. Ttl(p) \in Nat
    BY <1>2, TtlIsNatural
  <2>3. e.until <= e.asOf + HandlerLimit + WriteLimit + Ttl(p)
    <3>1. request[r].since <= moment /\ request[r].since - request[r].asOf <= HandlerLimit
          /\ moment - request[r].since <= WriteLimit
      BY <1>1, <1>3 DEF AnswersYoung
    <3>2. \A m, s, a, t, h, w \in Nat :
            s <= m /\ s - a <= h /\ m - s <= w => m + t <= a + h + w + t
      OBVIOUS
    <3>3. HandlerLimit \in Nat /\ WriteLimit \in Nat
      BY ResponseCacheParameters
    <3>4. moment + Ttl(p) <= request[r].asOf + HandlerLimit + WriteLimit + Ttl(p)
      BY <1>2, <2>2, <3>1, <3>2, <3>3
    <3> QED BY <3>4
  <2>4. e \in [asOf : Nat, until : Nat]
    BY <1>2, <2>2
  <2> HIDE DEF e
  <2>5. stored' \in [Paths -> [asOf : Nat, until : Nat]]
    BY <1>2, <2>1, <2>4
  <2>6. EndsInTime'
    BY <1>2, <2>1, <2>3 DEF EndsInTime
  <2> QED BY <1>1, <2>5, <2>6 DEF ResponseTypeOK, HandlersInTime, AnswersYoung, Done
<1>4. CASE UNCHANGED stored
  BY <1>1, <1>4 DEF ResponseTypeOK, HandlersInTime, AnswersYoung, EndsInTime, Done
<1> QED BY <1>3, <1>4 DEF Store

LEMMA ResponsesInductive == ResponseInv /\ [ResponsesNext]_responseVars => ResponseInv'
<1> SUFFICES ASSUME ResponseInv, [ResponsesNext]_responseVars PROVE ResponseInv'
  OBVIOUS
<1> USE DEF ResponseInv
<1>1. ASSUME NEW r \in Requests, NEW p \in Paths, Miss(r, p) PROVE ResponseInv'
  BY SMTT(30), <1>1, ResponseCacheParameters DEF Miss, ResponseTypeOK, HandlersInTime, AnswersYoung, EndsInTime
<1>2. ASSUME NEW r \in Requests, HandlerReads(r) PROVE ResponseInv'
  <2> DEFINE q == [request[r] EXCEPT !.pc = "read", !.asOf = moment]
  <2>1. request' = [request EXCEPT ![r] = q] /\ moment' = moment /\ stored' = stored /\ request[r].pc = "handler"
    BY <1>2 DEF HandlerReads
  <2>2. q.pc = "read" /\ q.asOf = moment /\ q.since = request[r].since /\ q.path = request[r].path
        /\ q \in [pc : {"done", "handler", "read", "store"}, path : Paths \cup {<<>>}, since : Nat, asOf : Nat]
    BY DEF ResponseTypeOK
  <2>3. request[r].since <= moment /\ moment - request[r].since <= HandlerLimit /\ moment \in Nat
        /\ request[r].since \in Nat /\ q.path \in Paths
    BY <2>1, <2>2 DEF ResponseTypeOK, HandlersInTime
  <2> HIDE DEF q
  <2> QED BY <2>1, <2>2, <2>3 DEF ResponseTypeOK, HandlersInTime, AnswersYoung, EndsInTime
<1>3. ASSUME NEW r \in Requests, HandlerReturns(r) PROVE ResponseInv'
  <2>1. moment' = moment /\ stored' = stored /\ request[r].pc = "read"
    BY <1>3 DEF HandlerReturns
  <2>2. CASE request' = [request EXCEPT ![r] = Done]
    BY <2>1, <2>2 DEF ResponseTypeOK, HandlersInTime, AnswersYoung, EndsInTime, Done
  <2>3. CASE request' = [request EXCEPT ![r].pc = "store", ![r].since = moment]
    <3> DEFINE q == [request[r] EXCEPT !.pc = "store", !.since = moment]
    <3>1. request' = [request EXCEPT ![r] = q]
      BY <2>3
    <3>2. q.pc = "store" /\ q.since = moment /\ q.asOf = request[r].asOf /\ q.path = request[r].path
          /\ q \in [pc : {"done", "handler", "read", "store"}, path : Paths \cup {<<>>}, since : Nat, asOf : Nat]
      BY DEF ResponseTypeOK
    <3>3. moment - request[r].asOf <= HandlerLimit /\ moment \in Nat /\ q.path \in Paths
      BY <2>1, <3>2, ResponseCacheParameters DEF ResponseTypeOK, HandlersInTime
    <3> HIDE DEF q
    <3> QED BY <2>1, <3>1, <3>2, <3>3 DEF ResponseTypeOK, HandlersInTime, AnswersYoung, EndsInTime
  <2> QED BY <1>3, <2>2, <2>3 DEF HandlerReturns
<1>4. CASE Second
  BY <1>4, ResponseCacheParameters DEF Second, ResponseTypeOK, HandlersInTime, AnswersYoung, EndsInTime
<1>5. CASE UNCHANGED responseVars
  BY <1>5 DEF responseVars, ResponseTypeOK, HandlersInTime, AnswersYoung, EndsInTime
<1> QED BY <1>1, <1>2, <1>3, <1>4, <1>5, StoreStep DEF ResponsesNext

\* For any paths, routes and lives of answers, and however many requests
\* store theirs in whatever order, no answer that the cache gives is older
\* than its TTL and the time of a handler and a write (cache.go:244-254).
THEOREM CacheStaysFresh == ResponsesSpec => []FreshEnough
<1>1. ResponseInv => FreshEnough
  BY TtlIsNatural, ResponseCacheParameters DEF ResponseInv, ResponseTypeOK, EndsInTime, FreshEnough, Fresh
<1> QED BY <1>1, ResponsesInitially, ResponsesInductive, PTL DEF ResponsesSpec

-----------------------------------------------------------------------------
(* Completions.                                                            *)

\* What AnswersFit says of an answer, wherever it is.
Fits(answer, prompt, model) ==
  /\ answer.prompt = prompt /\ answer.model = model
  /\ IsAnthropicModel(model) => answer.from = Simulated \/ answer.from.at = "anthropic"
  /\ answer.from.at # "anthropic" \/ IsAnthropicModel(model)

NotMadeUp(answer) == answer.from.text /\ answer.from # Simulated

\* The shape of what an actor is at; nothing is said of its answer.
WorkShape ==
  /\ DOMAIN work = Actors /\ DOMAIN given = Actors /\ DOMAIN answerOf = AllKeys
  /\ \A a \in Actors :
       /\ DOMAIN work[a] = {"pc", "prompt", "model", "caches", "answer", "id"}
       /\ work[a].pc # "free" => work[a].prompt \in Prompts /\ work[a].model \in Models

\* What is cached fits its key, whoever stored it,
CacheFits ==
  \A p \in Prompts, m \in Models : answerOf[<<m, p>>] # NoAnswer => Fits(answerOf[<<m, p>>], p, m)

\* and so does an answer on its way; a job's own is not made up.
WorkFits ==
  \A a \in Actors : work[a].pc \in {"save", "give"} =>
    /\ Fits(work[a].answer, work[a].prompt, work[a].model)
    /\ a \in Workers => NotMadeUp(work[a].answer)

CompletionInv == WorkShape /\ CacheFits /\ WorkFits /\ AnswersFit

\* The way of the handlers goes by the name of the model.
LEMMA CompleteGoesByName ==
  ASSUME NEW model, NEW reply, Complete(model, reply).ok
  PROVE  Complete(model, reply).at = "anthropic" <=> IsAnthropicModel(model)
BY DEF Complete, ClientFor, AnthropicComplete, OpenAIComplete, Got, Refused

\* That of jobs goes by the table, and never makes an answer up.
LEMMA CallGoesByTable ==
  ASSUME NEW provider, NEW model, NEW reply, Call(provider, model, reply).ok
  PROVE  /\ Call(provider, model, reply).at = "anthropic" <=> provider = "anthropic"
         /\ Call(provider, model, reply).text
         /\ Call(provider, model, reply) # Simulated
BY DEF Call, callOpenAICompat, callAnthropic, Got, Refused, Simulated

LEMMA CompletionsInitially == NoCompletions => CompletionInv
BY DEF NoCompletions, CompletionInv, WorkShape, CacheFits, WorkFits, AnswersFit, Free, AllKeys, GenerateKey

\* An answer that has just been made fits.
LEMMA AnsweredFits ==
  ASSUME CompletionInv, NEW a \in Actors, work[a].pc = "ask", NEW from, Answered(a, from),
         IsAnthropicModel(work[a].model) => from = Simulated \/ from.at = "anthropic",
         from.at # "anthropic" \/ IsAnthropicModel(work[a].model),
         a \in Workers => from.text /\ from # Simulated,
         UNCHANGED <<answerOf, given>>
  PROVE  CompletionInv'
<1> DEFINE pc == IF work[a].caches THEN "save" ELSE "give"
           w == [work[a] EXCEPT !.pc = pc, !.answer = AnswerFrom(a, from)]
<1>1. work' = [work EXCEPT ![a] = w]
  BY DEF Answered
<1>2. DOMAIN work[a] = {"pc", "prompt", "model", "caches", "answer", "id"}
  BY DEF CompletionInv, WorkShape
<1>3. /\ DOMAIN w = {"pc", "prompt", "model", "caches", "answer", "id"}
      /\ w.pc \in {"save", "give"} /\ w.prompt = work[a].prompt /\ w.model = work[a].model
      /\ w.answer = AnswerFrom(a, from)
  BY <1>2
<1>4. w.prompt \in Prompts /\ w.model \in Models
  BY <1>3 DEF CompletionInv, WorkShape
<1>5. Fits(w.answer, w.prompt, w.model) /\ (a \in Workers => NotMadeUp(w.answer))
  BY <1>3 DEF Fits, NotMadeUp, AnswerFrom
<1> HIDE DEF w
<1>6. WorkShape'
  BY <1>1, <1>3, <1>4 DEF CompletionInv, WorkShape
<1>7. WorkFits'
  BY <1>1, <1>5 DEF CompletionInv, WorkShape, WorkFits
<1> QED BY <1>6, <1>7 DEF CompletionInv, CacheFits, AnswersFit

\* An actor gives an answer that fits.
LEMMA GiveFits ==
  ASSUME CompletionInv, NEW a \in Actors, NEW w, Give(a, w),
         Fits(w.answer, w.prompt, w.model), w.pc # "hit" /\ a \in Workers => NotMadeUp(w.answer),
         UNCHANGED answerOf
  PROVE  CompletionInv'
<1>1. given' = [given EXCEPT ![a] = w] /\ work' = [work EXCEPT ![a] = Free]
  BY DEF Give
<1>2. DOMAIN Free = {"pc", "prompt", "model", "caches", "answer", "id"} /\ Free.pc = "free"
  BY DEF Free
<1>3. WorkShape' /\ WorkFits'
  BY <1>1, <1>2 DEF CompletionInv, WorkShape, WorkFits
<1>4. AnswersFit'
  BY <1>1 DEF CompletionInv, WorkShape, AnswersFit, Fits, NotMadeUp
<1> QED BY <1>3, <1>4 DEF CompletionInv, CacheFits

LEMMA CompletionsInductive ==
  CompletionInv /\ [CompletionsNext /\ UNCHANGED apiKeys]_<<completionVars, apiKeys>> => CompletionInv'
<1> SUFFICES ASSUME CompletionInv, CompletionsNext \/ UNCHANGED completionVars PROVE CompletionInv'
  OBVIOUS
<1>1. ASSUME NEW a \in Actors, NEW p \in Prompts, NEW m \in Models, NEW c \in BOOLEAN, Routed(a, p, m, c)
      PROVE  CompletionInv'
  <2> DEFINE w == [Free EXCEPT !.pc = IF c THEN "lookUp" ELSE "ask", !.prompt = p, !.model = m, !.caches = c,
                               !.id = asked + 1]
  <2>1. work' = [work EXCEPT ![a] = w] /\ UNCHANGED <<answerOf, given>>
    BY <1>1 DEF Routed
  <2>2. /\ DOMAIN w = {"pc", "prompt", "model", "caches", "answer", "id"}
        /\ w.pc \in {"lookUp", "ask"} /\ w.prompt \in Prompts /\ w.model \in Models
    BY DEF Free
  <2> HIDE DEF w
  <2> QED BY <2>1, <2>2 DEF CompletionInv, WorkShape, CacheFits, WorkFits, AnswersFit
<1>2. ASSUME NEW a \in Actors, NotRouted(a)
      PROVE  CompletionInv'
  BY <1>2 DEF NotRouted, CompletionInv, WorkShape, CacheFits, WorkFits, AnswersFit
<1>3. ASSUME NEW a \in Actors, Hit(a)
      PROVE  CompletionInv'
  <2> DEFINE w == [work[a] EXCEPT !.pc = "hit", !.answer = answerOf[Key(a)]]
  <2>1. Give(a, w) /\ UNCHANGED answerOf /\ answerOf[Key(a)] # NoAnswer /\ work[a].pc # "free"
    BY <1>3 DEF Hit, At
  <2>2. w.pc = "hit" /\ w.prompt = work[a].prompt /\ w.model = work[a].model /\ w.answer = answerOf[Key(a)]
    BY DEF CompletionInv, WorkShape
  <2>3. Fits(w.answer, w.prompt, w.model)
    BY <2>1, <2>2 DEF CompletionInv, WorkShape, CacheFits, Key, GenerateKey
  <2> HIDE DEF w
  <2> QED BY <2>1, <2>2, <2>3, GiveFits
<1>4. ASSUME NEW a \in Actors, MissCompletion(a)
      PROVE  CompletionInv'
  BY <1>4 DEF MissCompletion, At, CompletionInv, WorkShape, CacheFits, WorkFits, AnswersFit
<1>5. ASSUME NEW a \in Actors, HandlerAsks(a)
      PROVE  CompletionInv'
  <2>1. work[a].pc = "ask" /\ a \notin Workers /\ UNCHANGED <<answerOf, given>>
    BY <1>5, CompletionParameters DEF HandlerAsks, At
  <2>2. PICK reply \in Replies :
          LET result == Complete(work[a].model, reply) IN Answered(a, IF result.ok THEN result ELSE Simulated)
    BY <1>5 DEF HandlerAsks
  <2> DEFINE from == IF Complete(work[a].model, reply).ok THEN Complete(work[a].model, reply) ELSE Simulated
  <2>3. Simulated.at # "anthropic"
    BY DEF Simulated, Got
  <2>4. /\ IsAnthropicModel(work[a].model) => from = Simulated \/ from.at = "anthropic"
        /\ from.at # "anthropic" \/ IsAnthropicModel(work[a].model)
    BY <2>3, CompleteGoesByName
  <2>5. Answered(a, from)
    BY <2>2
  <2> HIDE DEF from
  <2> QED BY <2>1, <2>4, <2>5, AnsweredFits
<1>6. ASSUME NEW a \in Actors, JobAsks(a)
      PROVE  CompletionInv'
  <2>1. work[a].pc = "ask" /\ UNCHANGED <<answerOf, given>>
    BY <1>6 DEF JobAsks, At
  <2>2. PICK result \in Results(a) : result.ok /\ Answered(a, result)
    BY <1>6 DEF JobAsks
  <2>3. PICK reply \in Replies : result = Call(ProviderOf[work[a].model], work[a].model, reply)
    BY DEF Results
  <2>4. /\ result.at = "anthropic" <=> ProviderOf[work[a].model] = "anthropic"
        /\ result.text /\ result # Simulated
    BY <2>2, <2>3, CallGoesByTable
  <2>5. ProviderOf[work[a].model] = "anthropic" <=> IsAnthropicModel(work[a].model)
    BY <2>1, CompletionParameters DEF CompletionInv, WorkShape
  <2> QED BY <2>1, <2>2, <2>4, <2>5, AnsweredFits
<1>7. ASSUME NEW a \in Actors, JobFails(a)
      PROVE  CompletionInv'
  BY <1>7 DEF JobFails, Free, CompletionInv, WorkShape, CacheFits, WorkFits, AnswersFit
<1>8. ASSUME NEW a \in Actors, SaveAnswer(a)
      PROVE  CompletionInv'
  <2>1. work[a].pc = "save" /\ work' = [work EXCEPT ![a].pc = "give"] /\ given' = given
        /\ (answerOf' = answerOf \/ answerOf' = [answerOf EXCEPT ![Key(a)] = work[a].answer])
    BY <1>8 DEF SaveAnswer, At
  <2>2. WorkShape'
    BY <2>1 DEF CompletionInv, WorkShape
  <2>3. WorkFits'
    BY <2>1 DEF CompletionInv, WorkShape, WorkFits
  <2>4. Fits(work[a].answer, work[a].prompt, work[a].model)
    BY <2>1 DEF CompletionInv, WorkFits
  <2>5. CacheFits'
    BY <2>1, <2>4 DEF CompletionInv, WorkShape, CacheFits, Key, GenerateKey, AllKeys
  <2> QED BY <2>1, <2>2, <2>3, <2>5 DEF CompletionInv, AnswersFit
<1>9. ASSUME NEW a \in Actors, GiveAnswer(a)
      PROVE  CompletionInv'
  <2>1. work[a].pc = "give" /\ Give(a, work[a]) /\ UNCHANGED answerOf
    BY <1>9 DEF GiveAnswer, At
  <2> QED BY <2>1, GiveFits DEF CompletionInv, WorkFits
<1>10. ASSUME NEW k \in AllKeys, DayPasses(k)
       PROVE  CompletionInv'
  BY <1>10 DEF DayPasses, AllKeys, GenerateKey, CompletionInv, WorkShape, CacheFits, WorkFits, AnswersFit
<1>11. CASE Reset
  BY <1>11 DEF Reset, CompletionInv, WorkShape, CacheFits, WorkFits, AnswersFit
<1>12. CASE UNCHANGED completionVars
  BY <1>12 DEF completionVars, CompletionInv, WorkShape, CacheFits, WorkFits, AnswersFit
<1>13. ASSUME NEW type \in ErrorTypes, ErrorRecorded(type)
       PROVE  CompletionInv'
  BY <1>13 DEF ErrorRecorded, CompletionInv, WorkShape, CacheFits, WorkFits, AnswersFit
<1> QED
  BY <1>1, <1>2, <1>3, <1>4, <1>5, <1>6, <1>7, <1>8, <1>9, <1>10, <1>11, <1>12, <1>13 DEF CompletionsNext

\* For any models, prompts and actors, with any keys of providers, an answer
\* fits its question although handlers and jobs reach the providers in two
\* ways and read what the other has cached (completion_handlers.go:176, 225,
\* provider.go:20, client.go:24).
THEOREM AnswersAlwaysFit == CompletionsSpec => []AnswersFit
<1>1. CompletionInv => AnswersFit
  BY DEF CompletionInv
<1> QED BY <1>1, CompletionsInitially, CompletionsInductive, PTL DEF CompletionsSpec

-----------------------------------------------------------------------------
(* The books of the metrics collector.                                     *)

BookColumns == {"requests", "errors", "cost", "times", "latencies", "costs", "log", "count", "failures", "costOf",
                "errorsOf"}
Sample == [id : Nat, cost : Nat]

\* The arrays grow and are trimmed together, so that a position of the three
\* is one request.
InStep(b) ==
  /\ DOMAIN b = BookColumns
  /\ b.requests \in Nat /\ b.times \in Seq(Nat) /\ b.latencies = b.times /\ b.costs \in Seq(Sample)
  /\ Len(b.times) = IF b.requests < MaxDataPoints THEN b.requests ELSE MaxDataPoints
  /\ Len(b.costs) = Len(b.times) /\ \A i \in 1..Len(b.times) : b.costs[i].id = b.times[i]
  /\ \A i, j \in 1..Len(b.times) : b.times[i] = b.times[j] => i = j

\* A model has no more failures than requests.
FailuresAreRequests(b) ==
  /\ b.count \in [Booked -> Nat] /\ b.failures \in [Booked -> Nat]
  /\ \A m \in Booked : b.failures[m] <= b.count[m]

\* What trimming keeps is the end of the sequence.
LEMMA NewestIsEnd ==
  ASSUME NEW S, NEW s \in Seq(S), NEW n \in Nat
  PROVE  /\ Newest(s, n) \in Seq(S) /\ Len(Newest(s, n)) = (IF Len(s) > n THEN n ELSE Len(s))
         /\ \A i \in 1..Len(Newest(s, n)) :
              /\ i + (Len(s) - Len(Newest(s, n))) \in 1..Len(s)
              /\ Newest(s, n)[i] = s[i + (Len(s) - Len(Newest(s, n)))]
<1>1. Len(s) \in Nat
  BY LenProperties
<1>2. CASE ~(Len(s) > n)
  BY <1>1, <1>2 DEF Newest
<1>3. CASE Len(s) > n
  <2>1. Newest(s, n) = SubSeq(s, Len(s) - n + 1, Len(s))
    BY <1>3 DEF Newest
  <2>2. Len(s) - n + 1 \in 1..(Len(s) + 1)
    BY <1>1, <1>3
  <2> DEFINE t == SubSeq(s, Len(s) - n + 1, Len(s))
  <2>3. /\ t \in Seq(S) /\ Len(t) = n
        /\ \A i \in 1..n : t[i] = s[(Len(s) - n + 1) + i - 1]
    BY <1>1, <1>3, <2>2, SubSeqProperties
  <2>4. \A i \in 1..n : (Len(s) - n + 1) + i - 1 = i + (Len(s) - n) /\ i + (Len(s) - n) \in 1..Len(s)
    BY <1>1, <1>3
  <2> HIDE DEF t
  <2> QED BY <1>3, <2>1, <2>3, <2>4 DEF t
<1> QED BY <1>2, <1>3

LEMMA EmptyInStep == InStep(EmptyBooks) /\ FailuresAreRequests(EmptyBooks)
  BY EmptySeq, MetricsParameters DEF InStep, EmptyBooks, BookColumns, FailuresAreRequests

\* A request that was not booked yet is added at the end of the three arrays.
LEMMA RecordKeepsStep ==
  ASSUME NEW b, InStep(b), NEW m \in Booked, NEW id \in Nat, NEW cost \in Nat, NEW success,
         \A i \in 1..Len(b.times) : b.times[i] # id
  PROVE  /\ InStep(RecordRequest(b, m, id, cost, success))
         /\ \A i \in 1..Len(RecordRequest(b, m, id, cost, success).times) :
              \/ RecordRequest(b, m, id, cost, success).times[i] = id
              \/ \E j \in 1..Len(b.times) : RecordRequest(b, m, id, cost, success).times[i] = b.times[j]
<1> DEFINE n == MaxDataPoints
           c == RecordRequest(b, m, id, cost, success)
           t == Append(b.times, id)
           e == [id |-> id, cost |-> cost]
           k == Append(b.costs, e)
<1>1. n \in Nat \ {0}
  BY MetricsParameters
<1>2. /\ DOMAIN c = BookColumns /\ c.requests = b.requests + 1
      /\ c.times = Newest(t, n) /\ c.latencies = Newest(t, n) /\ c.costs = Newest(k, n)
  BY DEF InStep, BookColumns, RecordRequest, Cleanup
<1>3. e \in Sample /\ e.id = id
  BY DEF Sample
<1> HIDE DEF e, n, c
<1>4. /\ t \in Seq(Nat) /\ Len(t) = Len(b.times) + 1 /\ t[Len(b.times) + 1] = id
      /\ \A i \in 1..Len(b.times) : t[i] = b.times[i]
  BY AppendProperties DEF InStep
<1>5. /\ k \in Seq(Sample) /\ Len(k) = Len(b.times) + 1 /\ k[Len(b.times) + 1] = e
      /\ \A i \in 1..Len(b.times) : k[i] = b.costs[i]
  BY <1>3, AppendProperties DEF InStep
<1>6. Len(b.times) \in Nat /\ b.requests \in Nat
  BY LenProperties DEF InStep
<1>7. \A i \in 1..Len(t) : k[i].id = t[i]
  BY <1>3, <1>4, <1>5, <1>6 DEF InStep
<1>8. \A i, j \in 1..Len(t) : t[i] = t[j] => i = j
  <2>1. \A i, j \in 1..Len(b.times) : b.times[i] = b.times[j] => i = j
    BY DEF InStep
  <2> HIDE DEF t
  <2>2. \A i \in 1..Len(t) : i = Len(b.times) + 1 \/ i \in 1..Len(b.times)
    <3>1. \A i \in 1..(Len(b.times) + 1) : i = Len(b.times) + 1 \/ i \in 1..Len(b.times)
      BY <1>6
    <3> QED BY <1>4, <3>1
  <2> QED BY <1>4, <2>1, <2>2
<1> HIDE DEF t, k
<1>9. /\ c.times \in Seq(Nat) /\ c.costs \in Seq(Sample) /\ Len(c.costs) = Len(c.times)
      /\ Len(c.times) = (IF Len(t) > n THEN n ELSE Len(t))
  BY <1>1, <1>2, <1>4, <1>5, NewestIsEnd
<1>10. Len(c.times) = IF c.requests < n THEN c.requests ELSE n
  BY <1>1, <1>2, <1>4, <1>6, <1>9 DEF InStep, n
<1> DEFINE d == Len(t) - Len(c.times)
<1>11. \A i \in 1..Len(c.times) : i + d \in 1..Len(t) /\ c.times[i] = t[i + d] /\ c.costs[i] = k[i + d]
  <2>1. \A i \in 1..Len(c.times) : i + d \in 1..Len(t) /\ c.times[i] = t[i + d]
    <3>1. \A i \in 1..Len(Newest(t, n)) :
            /\ i + (Len(t) - Len(Newest(t, n))) \in 1..Len(t)
            /\ Newest(t, n)[i] = t[i + (Len(t) - Len(Newest(t, n)))]
      BY ZenonT(40), <1>1, <1>4, NewestIsEnd
    <3> QED BY <1>2, <3>1
  <2>2. \A i \in 1..Len(c.times) : c.costs[i] = k[i + d]
    <3>1. \A i \in 1..Len(Newest(k, n)) : Newest(k, n)[i] = k[i + (Len(k) - Len(Newest(k, n)))]
      BY <1>1, <1>5, NewestIsEnd
    <3>2. Len(k) = Len(t) /\ Len(Newest(k, n)) = Len(c.times)
      BY <1>2, <1>4, <1>5, <1>9
    <3> QED BY <1>2, <3>1, <3>2
  <2> QED BY <2>1, <2>2
<1>12. d \in Int /\ Len(c.times) \in Nat
  BY <1>4, <1>6, <1>9, LenProperties
<1> HIDE DEF d
<1>13. \A i \in 1..Len(c.times) : c.costs[i].id = c.times[i]
  BY <1>7, <1>11
<1>14. \A i, j \in 1..Len(c.times) : c.times[i] = c.times[j] => i = j
  BY <1>8, <1>11, <1>12
<1>15. InStep(c)
  <2> HIDE DEF c
  <2>1. DOMAIN c = BookColumns /\ c.requests \in Nat /\ c.latencies = c.times
    BY <1>2, <1>6
  <2>2. Len(c.times) = IF c.requests < MaxDataPoints THEN c.requests ELSE MaxDataPoints
    BY <1>10 DEF n
  <2> QED BY <1>9, <1>13, <1>14, <2>1, <2>2 DEF InStep
<1>16. ASSUME NEW i \in 1..Len(t) PROVE t[i] = id \/ \E j \in 1..Len(b.times) : t[i] = b.times[j]
  <2>1. i \in Nat /\ 1 <= i /\ i <= Len(b.times) + 1
    BY <1>4, <1>6
  <2>2. CASE i = Len(b.times) + 1
    BY <1>4, <2>2
  <2>3. CASE i # Len(b.times) + 1
    <3>1. i \in 1..Len(b.times)
      BY <1>6, <2>1, <2>3
    <3>2. t[i] = b.times[i]
      BY <1>4, <3>1
    <3> QED BY <3>1, <3>2
  <2> QED BY <2>2, <2>3
<1> QED BY <1>11, <1>15, <1>16 DEF c

LEMMA RecordKeepsCounts ==
  ASSUME NEW b, DOMAIN b = BookColumns, FailuresAreRequests(b), NEW m \in Booked,
         NEW id, NEW cost, NEW success \in BOOLEAN
  PROVE  FailuresAreRequests(RecordRequest(b, m, id, cost, success))
<1> DEFINE c == RecordRequest(b, m, id, cost, success)
<1>1. /\ c.count = [b.count EXCEPT ![m] = @ + 1]
      /\ c.failures = [b.failures EXCEPT ![m] = IF success THEN @ ELSE @ + 1]
  BY DEF BookColumns, RecordRequest, Cleanup
<1> HIDE DEF c
<1>2. c.count \in [Booked -> Nat] /\ c.failures \in [Booked -> Nat]
  BY <1>1 DEF FailuresAreRequests
<1>3. ASSUME NEW x \in Booked PROVE c.failures[x] <= c.count[x]
  <2>1. CASE x = m
    BY <1>1, <2>1 DEF FailuresAreRequests
  <2>2. CASE x # m
    BY <1>1, <2>2 DEF FailuresAreRequests
  <2> QED BY <2>1, <2>2
<1> QED BY <1>2, <1>3 DEF FailuresAreRequests, c

\* The log is kept apart.
LEMMA LogKeepsStep ==
  ASSUME NEW b, InStep(b), FailuresAreRequests(b), NEW item
  PROVE  /\ InStep(RecordDetailedRequest(b, item)) /\ FailuresAreRequests(RecordDetailedRequest(b, item))
         /\ RecordDetailedRequest(b, item).times = b.times
<1> DEFINE c == RecordDetailedRequest(b, item)
<1>1. /\ DOMAIN c = BookColumns /\ c.requests = b.requests /\ c.times = b.times /\ c.latencies = b.latencies
      /\ c.costs = b.costs /\ c.count = b.count /\ c.failures = b.failures
  BY DEF InStep, BookColumns, RecordDetailedRequest
<1> HIDE DEF c
<1> QED BY <1>1 DEF InStep, FailuresAreRequests, c

\* An error that is recorded with no request leaves the requests alone.
LEMMA ErrorKeepsStep ==
  ASSUME NEW b, InStep(b), FailuresAreRequests(b), NEW type
  PROVE  /\ InStep(RecordError(b, type)) /\ FailuresAreRequests(RecordError(b, type))
         /\ RecordError(b, type).times = b.times
<1> DEFINE c == RecordError(b, type)
<1>1. /\ DOMAIN c = BookColumns /\ c.requests = b.requests /\ c.times = b.times /\ c.latencies = b.latencies
      /\ c.costs = b.costs /\ c.count = b.count /\ c.failures = b.failures
  BY DEF InStep, BookColumns, RecordError
<1> HIDE DEF c
<1> QED BY <1>1 DEF InStep, FailuresAreRequests, c

\* Whether the request of an actor is still to be booked: a handler books
\* before it caches, a job at the end.
Unbooked(a) == work[a].pc \in {"lookUp", "ask"} \/ (a \in Workers /\ work[a].pc \in {"save", "give"})

WorkNumbered ==
  /\ asked \in Nat /\ DOMAIN work = Actors
  /\ \A a \in Actors :
       /\ DOMAIN work[a] = {"pc", "prompt", "model", "caches", "answer", "id"}
       /\ Unbooked(a) => work[a].id \in 1..asked /\ work[a].model \in Models
  /\ \A a, c \in Actors : Unbooked(a) /\ Unbooked(c) /\ work[a].id = work[c].id => a = c

\* Nothing is booked twice.
BookedOnce ==
  \A i \in 1..Len(books.times) :
    books.times[i] <= asked /\ \A a \in Actors : Unbooked(a) => work[a].id # books.times[i]

BooksInv == WorkNumbered /\ BookedOnce /\ InStep(books) /\ FailuresAreRequests(books)

LEMMA BooksInitially == NoCompletions => BooksInv
<1> SUFFICES ASSUME NoCompletions PROVE BooksInv
  OBVIOUS
<1>1. InStep(books) /\ FailuresAreRequests(books) /\ Len(books.times) = 0
  BY EmptyInStep, EmptySeq DEF NoCompletions, EmptyBooks
<1>2. WorkNumbered
  BY DEF NoCompletions, WorkNumbered, Unbooked, Free
<1> QED BY <1>1, <1>2 DEF BooksInv, BookedOnce

WorkFields == {"pc", "prompt", "model", "caches", "answer", "id"}

\* An actor goes on; its request is not to be booked again.
WorkOnlyMoves(a) ==
  /\ DOMAIN work'[a] = WorkFields
  /\ Unbooked(a)' => Unbooked(a) /\ work'[a].id = work[a].id /\ work'[a].model = work[a].model
  /\ DOMAIN work' = Actors /\ \A c \in Actors : c # a => work'[c] = work[c]
  /\ asked' = asked

LEMMA WorkMoves ==
  ASSUME BooksInv, NEW a \in Actors, WorkOnlyMoves(a)
  PROVE  WorkNumbered' /\ \A c \in Actors : Unbooked(c)' => Unbooked(c) /\ work'[c].id = work[c].id
<1>1. \A c \in Actors : Unbooked(c)' => Unbooked(c) /\ work'[c].id = work[c].id /\ work'[c].model = work[c].model
  BY DEF WorkOnlyMoves, Unbooked
<1>2. \A c \in Actors : DOMAIN work'[c] = WorkFields
  BY DEF WorkOnlyMoves, BooksInv, WorkNumbered, WorkFields
<1> QED BY <1>1, <1>2 DEF WorkOnlyMoves, BooksInv, WorkNumbered, WorkFields

\* An actor goes on and books nothing,
LEMMA MovesOn ==
  ASSUME BooksInv, NEW a \in Actors, WorkOnlyMoves(a), books' = books
  PROVE  BooksInv'
<1>1. WorkNumbered' /\ \A c \in Actors : Unbooked(c)' => Unbooked(c) /\ work'[c].id = work[c].id
  BY WorkMoves
<1> QED BY <1>1 DEF BooksInv, BookedOnce, WorkOnlyMoves

\* or books its request.
LEMMA BooksRequest ==
  ASSUME BooksInv, NEW a \in Actors, Unbooked(a), WorkOnlyMoves(a), ~Unbooked(a)',
         NEW cost \in Nat, NEW success \in BOOLEAN,
         \/ books' = Book(a, cost, success)
         \/ \E item : books' = RecordDetailedRequest(Book(a, cost, success), item)
  PROVE  BooksInv'
<1> DEFINE b == Book(a, cost, success)
<1>1. WorkNumbered' /\ \A c \in Actors : Unbooked(c)' => Unbooked(c) /\ work'[c].id = work[c].id
  BY WorkMoves
<1>2. /\ work[a].id \in Nat /\ work[a].id <= asked /\ work[a].model \in Booked
      /\ InStep(books) /\ FailuresAreRequests(books) /\ DOMAIN books = BookColumns
      /\ \A i \in 1..Len(books.times) : books.times[i] # work[a].id
  <2>1. work[a].id \in Nat /\ work[a].id <= asked /\ work[a].model \in Booked
    BY DEF BooksInv, WorkNumbered, Booked
  <2>2. InStep(books) /\ FailuresAreRequests(books) /\ DOMAIN books = BookColumns
    BY DEF BooksInv, InStep
  <2>3. \A i \in 1..Len(books.times) : books.times[i] # work[a].id
    BY DEF BooksInv, BookedOnce
  <2> QED BY <2>1, <2>2, <2>3
<1>3. /\ InStep(b)
      /\ \A i \in 1..Len(b.times) : \/ b.times[i] = work[a].id
                                    \/ \E j \in 1..Len(books.times) : b.times[i] = books.times[j]
  BY <1>2, RecordKeepsStep DEF Book
<1>4. FailuresAreRequests(b)
  BY <1>2, RecordKeepsCounts DEF Book
<1> HIDE DEF b
<1>5. InStep(books') /\ FailuresAreRequests(books') /\ books'.times = b.times
  BY <1>3, <1>4, LogKeepsStep DEF b
<1>6. BookedOnce'
  <2> SUFFICES ASSUME NEW i \in 1..Len(b.times)
               PROVE  b.times[i] <= asked /\ \A c \in Actors : Unbooked(c)' => work'[c].id # b.times[i]
    BY <1>5 DEF BookedOnce, WorkOnlyMoves
  <2>1. CASE b.times[i] = work[a].id
    BY <1>1, <1>2, <2>1 DEF BooksInv, WorkNumbered
  <2>2. CASE \E j \in 1..Len(books.times) : b.times[i] = books.times[j]
    BY <1>1, <2>2 DEF BooksInv, BookedOnce
  <2> QED BY <1>3, <2>1, <2>2
<1> QED BY <1>1, <1>5, <1>6 DEF BooksInv

LEMMA BooksInductive ==
  BooksInv /\ [CompletionsNext /\ UNCHANGED apiKeys]_<<completionVars, apiKeys>> => BooksInv'
<1> SUFFICES ASSUME BooksInv, CompletionsNext \/ UNCHANGED completionVars PROVE BooksInv'
  OBVIOUS
<1>0. /\ asked \in Nat /\ DOMAIN work = Actors /\ \A a \in Actors : DOMAIN work[a] = WorkFields
      /\ DOMAIN Free = WorkFields /\ Free.pc = "free"
  BY DEF BooksInv, WorkNumbered, WorkFields, Free
<1>1. ASSUME NEW a \in Actors, NEW p \in Prompts, NEW m \in Models, NEW c \in BOOLEAN, Routed(a, p, m, c)
      PROVE  BooksInv'
  <2> DEFINE w == [Free EXCEPT !.pc = IF c THEN "lookUp" ELSE "ask", !.prompt = p, !.model = m, !.caches = c,
                               !.id = asked + 1]
  <2>1. work' = [work EXCEPT ![a] = w] /\ asked' = asked + 1 /\ books' = books
    BY <1>1 DEF Routed
  <2>2. DOMAIN w = WorkFields /\ w.pc \in {"lookUp", "ask"} /\ w.model = m /\ w.id = asked + 1
    BY DEF Free, WorkFields
  <2> HIDE DEF w
  <2>3. work'[a] = w /\ \A d \in Actors : d # a => work'[d] = work[d]
    BY <1>0, <2>1
  <2>4. \A d \in Actors : d # a => (Unbooked(d)' <=> Unbooked(d))
    BY <2>3 DEF Unbooked
  <2>5. \A d \in Actors : Unbooked(d)' => work'[d].id \in 1..asked' /\ work'[d].model \in Models
    BY <1>0, <2>1, <2>2, <2>3, <2>4 DEF BooksInv, WorkNumbered
  <2>6. \A d, e \in Actors : Unbooked(d)' /\ Unbooked(e)' /\ work'[d].id = work'[e].id => d = e
    <3>1. \A d \in Actors : d # a /\ Unbooked(d) => work[d].id # asked + 1
      BY <1>0 DEF BooksInv, WorkNumbered
    <3> QED BY <2>2, <2>3, <2>4, <3>1 DEF BooksInv, WorkNumbered
  <2>7. WorkNumbered'
    BY <1>0, <2>1, <2>2, <2>3, <2>5, <2>6 DEF WorkNumbered, WorkFields
  <2>8. BookedOnce'
    <3> SUFFICES ASSUME NEW i \in 1..Len(books.times)
                 PROVE  /\ books.times[i] <= asked + 1
                        /\ \A d \in Actors : Unbooked(d)' => work'[d].id # books.times[i]
      BY <2>1 DEF BookedOnce
    <3>1. /\ books.times[i] <= asked /\ books.times[i] \in Nat
          /\ \A d \in Actors : Unbooked(d) => work[d].id # books.times[i]
      BY ElementOfSeq DEF BooksInv, BookedOnce, InStep
    <3> QED BY <1>0, <2>2, <2>3, <2>4, <3>1
  <2> QED BY <2>1, <2>7, <2>8 DEF BooksInv
<1>2. ASSUME NEW a \in Actors, NotRouted(a) PROVE BooksInv'
  <2> DEFINE b == RecordRequest(books, Unknown, asked + 1, 0, FALSE)
  <2>1. books' = b /\ asked' = asked + 1 /\ work' = work
    BY <1>2 DEF NotRouted
  <2>2. \A i \in 1..Len(books.times) : books.times[i] <= asked /\ books.times[i] \in Nat
    BY ElementOfSeq DEF BooksInv, BookedOnce, InStep
  <2>3. InStep(books) /\ FailuresAreRequests(books) /\ DOMAIN books = BookColumns /\ Unknown \in Booked
    BY DEF BooksInv, InStep, Booked
  <2>4. \A i \in 1..Len(books.times) : books.times[i] # asked + 1
    BY <1>0, <2>2
  <2>5. /\ InStep(b)
        /\ \A i \in 1..Len(b.times) : \/ b.times[i] = asked + 1
                                      \/ \E j \in 1..Len(books.times) : b.times[i] = books.times[j]
    <3> DEFINE id == asked + 1
    <3>1. id \in Nat /\ 0 \in Nat /\ \A i \in 1..Len(books.times) : books.times[i] # id
      BY <1>0, <2>4
    <3> HIDE DEF id
    <3>2. ASSUME NEW s
          PROVE  LET r == RecordRequest(books, Unknown, id, 0, s)
                 IN  /\ InStep(r)
                     /\ \A i \in 1..Len(r.times) :
                          r.times[i] = id \/ \E j \in 1..Len(books.times) : r.times[i] = books.times[j]
      BY <2>3, <3>1, RecordKeepsStep
    <3> QED BY <3>2 DEF id
  <2>6. FailuresAreRequests(b)
    BY <2>3, RecordKeepsCounts
  <2> HIDE DEF b
  <2>7. \A d \in Actors : (Unbooked(d)' <=> Unbooked(d))
    BY <2>1 DEF Unbooked
  <2>8. WorkNumbered'
    BY <1>0, <2>1, <2>7 DEF BooksInv, WorkNumbered
  <2>9. BookedOnce'
    <3> SUFFICES ASSUME NEW i \in 1..Len(b.times)
                 PROVE  b.times[i] <= asked + 1 /\ \A d \in Actors : Unbooked(d) => work[d].id # b.times[i]
      BY <2>1, <2>7 DEF BookedOnce
    <3>1. CASE b.times[i] = asked + 1
      BY <1>0, <3>1 DEF BooksInv, WorkNumbered
    <3>2. CASE \E j \in 1..Len(books.times) : b.times[i] = books.times[j]
      <4>1. PICK j \in 1..Len(books.times) : b.times[i] = books.times[j]
        BY <3>2
      <4>2. /\ books.times[j] <= asked /\ books.times[j] \in Nat
            /\ \A d \in Actors : Unbooked(d) => work[d].id # books.times[j]
        BY <2>2 DEF BooksInv, BookedOnce
      <4> QED BY <1>0, <4>1, <4>2
    <3> QED BY <2>5, <3>1, <3>2
  <2> QED BY <2>1, <2>5, <2>6, <2>8, <2>9 DEF BooksInv
<1>3. ASSUME NEW a \in Actors, Hit(a) PROVE BooksInv'
  <2>1. Unbooked(a) /\ WorkOnlyMoves(a) /\ ~Unbooked(a)'
    BY <1>0, <1>3 DEF Hit, At, Give, Unbooked, WorkOnlyMoves
  <2>2. \/ books' = Book(a, 0, TRUE)
        \/ \E item : books' = RecordDetailedRequest(Book(a, 0, TRUE), item)
    BY <1>3 DEF Hit
  <2> QED BY <2>1, <2>2, BooksRequest
<1>4. ASSUME NEW a \in Actors, MissCompletion(a) PROVE BooksInv'
  <2>1. WorkOnlyMoves(a) /\ books' = books
    BY <1>0, <1>4 DEF MissCompletion, At, Unbooked, WorkOnlyMoves, WorkFields
  <2> QED BY <2>1, MovesOn
<1>5. ASSUME NEW a \in Actors, HandlerAsks(a) PROVE BooksInv'
  <2>1. /\ work[a].pc = "ask" /\ a \notin Workers /\ asked' = asked
        /\ \E from : Answered(a, from)
        /\ books' = RecordDetailedRequest(Book(a, Price[work[a].model], TRUE), Entry(a, "completed"))
    BY <1>5, CompletionParameters DEF HandlerAsks, At
  <2>2. Unbooked(a) /\ WorkOnlyMoves(a) /\ ~Unbooked(a)'
    BY <1>0, <2>1 DEF Answered, Unbooked, WorkOnlyMoves, WorkFields
  <2>3. Price[work[a].model] \in Nat
    BY <2>2, CompletionParameters DEF BooksInv, WorkNumbered
  <2> QED BY <2>1, <2>2, <2>3, BooksRequest
<1>6. ASSUME NEW a \in Actors, JobAsks(a) PROVE BooksInv'
  <2>1. work[a].pc = "ask" /\ asked' = asked /\ books' = books /\ \E from : Answered(a, from)
    BY <1>6 DEF JobAsks, At
  <2>2. WorkOnlyMoves(a)
    BY <1>0, <2>1 DEF Answered, Unbooked, WorkOnlyMoves, WorkFields
  <2> QED BY <2>1, <2>2, MovesOn
<1>7. ASSUME NEW a \in Actors, JobFails(a) PROVE BooksInv'
  <2>1. Unbooked(a) /\ WorkOnlyMoves(a) /\ ~Unbooked(a)' /\ books' = Book(a, 0, FALSE)
    BY <1>0, <1>7 DEF JobFails, At, Unbooked, WorkOnlyMoves
  <2> QED BY <2>1, BooksRequest
<1>8. ASSUME NEW a \in Actors, SaveAnswer(a) PROVE BooksInv'
  <2>1. WorkOnlyMoves(a) /\ books' = books
    BY <1>0, <1>8 DEF SaveAnswer, At, Unbooked, WorkOnlyMoves, WorkFields
  <2> QED BY <2>1, MovesOn
<1>9. ASSUME NEW a \in Actors, GiveAnswer(a) PROVE BooksInv'
  <2>1. WorkOnlyMoves(a) /\ ~Unbooked(a)' /\ work[a].pc = "give"
    BY <1>0, <1>9 DEF GiveAnswer, At, Give, Unbooked, WorkOnlyMoves
  <2>2. CASE a \notin Workers
    BY <1>9, <2>1, <2>2, MovesOn DEF GiveAnswer
  <2>3. CASE a \in Workers
    <3>1. Unbooked(a) /\ books' = Book(a, Price[work[a].model], TRUE)
      BY <1>9, <2>1, <2>3 DEF GiveAnswer, Unbooked
    <3>2. Price[work[a].model] \in Nat
      BY <3>1, CompletionParameters DEF BooksInv, WorkNumbered
    <3> QED BY <2>1, <3>1, <3>2, BooksRequest
  <2> QED BY <2>2, <2>3
<1>10. ASSUME NEW k \in AllKeys, DayPasses(k) PROVE BooksInv'
  BY <1>10 DEF DayPasses, BooksInv, WorkNumbered, BookedOnce, Unbooked
<1>11. CASE Reset
  <2>1. books' = EmptyBooks /\ UNCHANGED <<work, asked>>
    BY <1>11 DEF Reset
  <2>2. InStep(books') /\ FailuresAreRequests(books') /\ Len(books'.times) = 0
    BY <2>1, EmptyInStep, EmptySeq DEF EmptyBooks
  <2> QED BY <2>1, <2>2 DEF BooksInv, WorkNumbered, BookedOnce, Unbooked
<1>12. CASE UNCHANGED completionVars
  BY <1>12 DEF completionVars, BooksInv, WorkNumbered, BookedOnce, Unbooked
<1>13. ASSUME NEW type \in ErrorTypes, ErrorRecorded(type) PROVE BooksInv'
  <2>1. books' = RecordError(books, type) /\ asked' = asked + 1 /\ work' = work
    BY <1>13 DEF ErrorRecorded
  <2>2. InStep(books') /\ FailuresAreRequests(books') /\ books'.times = books.times
    BY <2>1, ErrorKeepsStep DEF BooksInv
  <2>3. \A a \in Actors : Unbooked(a)' <=> Unbooked(a)
    BY <2>1 DEF Unbooked
  <2>4. \A i \in 1..Len(books.times) : books.times[i] <= asked /\ books.times[i] \in Nat
    BY ElementOfSeq DEF BooksInv, BookedOnce, InStep
  <2>5. WorkNumbered'
    BY <1>0, <2>1, <2>3 DEF BooksInv, WorkNumbered
  <2>6. BookedOnce'
    <3>1. \A i \in 1..Len(books.times) : books.times[i] <= asked + 1
      BY <1>0, <2>4
    <3> QED BY <2>1, <2>2, <2>3, <3>1 DEF BooksInv, BookedOnce
  <2> QED BY <2>2, <2>5, <2>6 DEF BooksInv
<1> QED
  BY <1>1, <1>2, <1>3, <1>4, <1>5, <1>6, <1>7, <1>8, <1>9, <1>10, <1>11, <1>12, <1>13 DEF CompletionsNext

\* Trimming and Reset keep the three arrays of the collector in step, so that
\* GetTimeSeries joins by position what belongs to one request, no request is
\* booked twice, and no model has more failures than requests
\* (collector.go:55, 320, 368).
THEOREM BooksStayInStep == CompletionsSpec => [](InStep(books) /\ FailuresAreRequests(books))
<1>1. BooksInv => InStep(books) /\ FailuresAreRequests(books)
  BY DEF BooksInv
<1> QED BY <1>1, BooksInitially, BooksInductive, PTL DEF CompletionsSpec

LEMMA ProvidersAreFinite == IsFiniteSet(ProviderNames)
<1>1. ProviderNames = (({} \cup {"openai"}) \cup {"anthropic"}) \cup {"meta"}
  BY DEF ProviderNames
<1>2. IsFiniteSet({} \cup {"openai"})
  BY FS_EmptySet, FS_AddElement
<1>3. IsFiniteSet(({} \cup {"openai"}) \cup {"anthropic"})
  BY <1>2, FS_AddElement
<1> QED BY <1>1, <1>3, FS_AddElement

\* A model has one provider or none, so that the costs of the models are those
\* of the providers and of the models that have none.
Nobodys == {m \in Booked : NamedProvider(m) \notin ProviderNames}

LEMMA ProvidersSum ==
  ASSUME IsFiniteSet(Booked), NEW f \in [Booked -> Int]
  PROVE  SumOver([p \in ProviderNames |-> SumOf(f, {m \in Booked : NamedProvider(m) = p})]) + SumOf(f, Nobodys)
         = SumOver(f)
<1> DEFINE of(p) == {m \in Booked : NamedProvider(m) = p}
           ofAll(P) == {m \in Booked : NamedProvider(m) \in P}
           q == [p \in ProviderNames |-> SumOf(f, of(p))]
<1>1. PICK g : Adds(g, f, Booked)
  <2>1. \A x \in Booked : f[x] \in Int
    OBVIOUS
  <2> QED BY <2>1, SumsExist
<1> DEFINE h == [P \in SUBSET ProviderNames |-> g[ofAll(P)]]
<1>2. \A p : of(p) \in SUBSET Booked
  OBVIOUS
<1>3. \A P : ofAll(P) \in SUBSET Booked
  OBVIOUS
<1>4. \A p \in ProviderNames : q[p] = g[of(p)] /\ q[p] \in Int
  <2>1. ASSUME NEW p \in ProviderNames PROVE q[p] = g[of(p)] /\ q[p] \in Int
    <3>1. q[p] = SumOf(f, of(p)) /\ of(p) \in SUBSET Booked
      OBVIOUS
    <3> HIDE DEF q, of
    <3>2. SumOf(f, of(p)) = g[of(p)]
      BY <1>1, <3>1, PartSums
    <3> QED BY <1>1, <3>1, <3>2 DEF Adds
  <2> QED BY <2>1
<1>5. h \in [SUBSET ProviderNames -> Int]
  BY <1>1, <1>3 DEF Adds
<1>6. h[{}] = 0
  <2>1. ofAll({}) = {} /\ h[{}] = g[ofAll({})]
    OBVIOUS
  <2> QED BY <1>1, <2>1 DEF Adds
<1>7. ASSUME NEW P \in SUBSET ProviderNames, NEW p \in P PROVE h[P] = q[p] + h[P \ {p}]
  <2>1. ofAll(P) = of(p) \cup ofAll(P \ {p}) /\ of(p) \cap ofAll(P \ {p}) = {}
    OBVIOUS
  <2>2. h[P] = g[ofAll(P)] /\ h[P \ {p}] = g[ofAll(P \ {p})]
    OBVIOUS
  <2>3. q[p] = g[of(p)]
    BY <1>4
  <2> DEFINE A == of(p)
             B == ofAll(P \ {p})
  <2>4. A \in SUBSET Booked /\ B \in SUBSET Booked /\ A \cap B = {} /\ ofAll(P) = A \cup B
    BY <2>1
  <2>5. h[P] = g[A \cup B] /\ q[p] = g[A] /\ h[P \ {p}] = g[B]
    BY <2>2, <2>3, <2>4
  <2> HIDE DEF A, B, h, q
  <2>6. g[A \cup B] = g[A] + g[B]
    BY <1>1, <2>4, TwoPartsSum
  <2> QED BY <2>5, <2>6
<1>8. /\ DOMAIN q = ProviderNames /\ DOMAIN f = Booked
      /\ h[ProviderNames] + g[Nobodys] = g[Booked] /\ Nobodys \in SUBSET Booked
  <2>1. /\ ofAll(ProviderNames) \cup Nobodys = Booked /\ ofAll(ProviderNames) \cap Nobodys = {}
        /\ ofAll(ProviderNames) \in SUBSET Booked /\ Nobodys \in SUBSET Booked
    BY DEF Nobodys
  <2>2. h[ProviderNames] = g[ofAll(ProviderNames)]
    OBVIOUS
  <2> DEFINE A == ofAll(ProviderNames)
  <2> HIDE DEF A, h
  <2>3. g[A \cup Nobodys] = g[A] + g[Nobodys]
    BY <1>1, <2>1, TwoPartsSum DEF A
  <2> QED BY <2>1, <2>2, <2>3 DEF A
<1>9. SumOver(q) = SumOf(q, ProviderNames) /\ SumOver(f) = SumOf(f, Booked)
  BY <1>8 DEF SumOver
<1> HIDE DEF h, q
<1>10. Adds(h, q, ProviderNames)
  BY <1>4, <1>5, <1>6, <1>7 DEF Adds
<1>11. SumOf(q, ProviderNames) = h[ProviderNames] /\ SumOf(f, Booked) = g[Booked]
  BY <1>1, <1>10, ProvidersAreFinite, SumIs
<1>12. SumOf(f, Nobodys) = g[Nobodys]
  BY <1>1, <1>8, PartSums
<1> QED BY <1>8, <1>9, <1>11, <1>12 DEF q

LogEntries == [id : Nat, model : Models, status : {"completed", "cache_hit"}]

\* Each total is the sum over the models, errors with what was recorded apart.
SumsAgree(b) ==
  /\ b.requests \in Nat /\ b.errors \in Nat /\ b.cost \in Nat /\ b.log \in Seq(LogEntries)
  /\ b.count \in [Booked -> Nat] /\ b.failures \in [Booked -> Nat] /\ b.costOf \in [Booked -> Nat]
  /\ b.errorsOf \in [ErrorTypes -> Nat]
  /\ SumOver(b.failures) \in Nat /\ SumOver(b.errorsOf) \in Nat
  /\ b.requests = SumOver(b.count) /\ b.cost = SumOver(b.costOf)
  /\ b.errors = SumOver(b.failures) + SumOver(b.errorsOf)

LEMMA BookedIsFinite == IsFiniteSet(Booked) /\ Unknown \in Booked /\ Models \subseteq Booked
  BY MetricsParameters, FS_AddElement DEF Booked

LEMMA EmptySumsAgree == SumsAgree(EmptyBooks)
<1>1. SumOver([m \in Booked |-> 0]) = 0 /\ SumOver([t \in ErrorTypes |-> 0]) = 0
  BY BookedIsFinite, MetricsParameters, ZerosSum
<1>2. <<>> \in Seq(LogEntries)
  BY EmptySeq
<1>3. /\ EmptyBooks.requests = 0 /\ EmptyBooks.errors = 0 /\ EmptyBooks.cost = 0 /\ EmptyBooks.log = <<>>
      /\ EmptyBooks.count = [m \in Booked |-> 0] /\ EmptyBooks.failures = [m \in Booked |-> 0]
      /\ EmptyBooks.costOf = [m \in Booked |-> 0] /\ EmptyBooks.errorsOf = [t \in ErrorTypes |-> 0]
  BY DEF EmptyBooks
<1>4. [m \in Booked |-> 0] \in [Booked -> Nat] /\ [t \in ErrorTypes |-> 0] \in [ErrorTypes -> Nat]
  OBVIOUS
<1> QED BY <1>1, <1>2, <1>3, <1>4 DEF SumsAgree

\* A count with one entry raised.
LEMMA RaisedSum ==
  ASSUME NEW S, IsFiniteSet(S), NEW f \in [S -> Nat], NEW m \in S, NEW d \in Nat
  PROVE  /\ [f EXCEPT ![m] = @ + d] \in [S -> Nat]
         /\ SumOver([f EXCEPT ![m] = @ + d]) = SumOver(f) + d
<1> DEFINE e == [f EXCEPT ![m] = @ + d]
<1>1. e \in [S -> Nat] /\ e[m] = f[m] + d /\ \A x \in S \ {m} : e[x] = f[x]
  OBVIOUS
<1>2. f \in [S -> Int] /\ e \in [S -> Int] /\ d \in Int
  BY <1>1
<1> HIDE DEF e
<1>3. SumOver(e) = SumOver(f) + d
  BY <1>1, <1>2, SumChanges
<1> QED BY <1>1, <1>3 DEF e

LEMMA RecordKeepsSums ==
  ASSUME NEW b, DOMAIN b = BookColumns, SumsAgree(b), NEW m \in Booked, NEW id, NEW cost \in Nat,
         NEW success \in BOOLEAN
  PROVE  SumsAgree(RecordRequest(b, m, id, cost, success))
<1> DEFINE c == RecordRequest(b, m, id, cost, success)
           failed == IF success THEN 0 ELSE 1
<1>1. /\ c.requests = b.requests + 1 /\ c.cost = b.cost + cost /\ c.log = b.log
      /\ c.errors = IF success THEN b.errors ELSE b.errors + 1
      /\ c.count = [b.count EXCEPT ![m] = @ + 1]
      /\ c.costOf = [b.costOf EXCEPT ![m] = @ + cost]
      /\ c.failures = [b.failures EXCEPT ![m] = IF success THEN @ ELSE @ + 1]
      /\ c.errorsOf = b.errorsOf
  BY SMTT(40) DEF BookColumns, RecordRequest, Cleanup
<1> HIDE DEF c
<1>2. /\ b.requests \in Nat /\ b.errors \in Nat /\ b.cost \in Nat
      /\ b.count \in [Booked -> Nat] /\ b.failures \in [Booked -> Nat] /\ b.costOf \in [Booked -> Nat]
  BY DEF SumsAgree
<1>3. c.failures = [b.failures EXCEPT ![m] = @ + failed] /\ c.errors = b.errors + failed /\ failed \in Nat
  BY <1>1, <1>2
<1> HIDE DEF failed
<1>4. c.count \in [Booked -> Nat] /\ SumOver(c.count) = SumOver(b.count) + 1
  <2>1. /\ [b.count EXCEPT ![m] = @ + 1] \in [Booked -> Nat]
        /\ SumOver([b.count EXCEPT ![m] = @ + 1]) = SumOver(b.count) + 1
    BY <1>2, BookedIsFinite, RaisedSum
  <2> QED BY <1>1, <2>1, Zenon
<1>5. c.costOf \in [Booked -> Nat] /\ SumOver(c.costOf) = SumOver(b.costOf) + cost
  <2>1. /\ [b.costOf EXCEPT ![m] = @ + cost] \in [Booked -> Nat]
        /\ SumOver([b.costOf EXCEPT ![m] = @ + cost]) = SumOver(b.costOf) + cost
    BY <1>2, BookedIsFinite, RaisedSum
  <2> QED BY <1>1, <2>1, Zenon
<1>6. c.failures \in [Booked -> Nat] /\ SumOver(c.failures) = SumOver(b.failures) + failed
  <2>1. /\ [b.failures EXCEPT ![m] = @ + failed] \in [Booked -> Nat]
        /\ SumOver([b.failures EXCEPT ![m] = @ + failed]) = SumOver(b.failures) + failed
    BY SMTT(40), <1>2, <1>3, BookedIsFinite, RaisedSum
  <2> QED BY <1>3, <2>1, Zenon
<1>7. /\ c.requests \in Nat /\ c.cost \in Nat /\ c.errors \in Nat /\ SumOver(c.failures) \in Nat
      /\ c.requests = SumOver(c.count) /\ c.cost = SumOver(c.costOf)
      /\ c.errors = SumOver(c.failures) + SumOver(c.errorsOf)
  <2>1. /\ b.requests = SumOver(b.count) /\ b.cost = SumOver(b.costOf)
        /\ b.errors = SumOver(b.failures) + SumOver(b.errorsOf)
        /\ SumOver(b.failures) \in Nat /\ SumOver(b.errorsOf) \in Nat
    BY DEF SumsAgree
  <2>2. c.requests = b.requests + 1 /\ c.cost = b.cost + cost /\ c.errorsOf = b.errorsOf
    BY <1>1
  <2> QED BY <1>2, <1>3, <1>4, <1>5, <1>6, <2>1, <2>2
<1>8. /\ c.log \in Seq(LogEntries) /\ c.errorsOf \in [ErrorTypes -> Nat] /\ SumOver(c.errorsOf) \in Nat
  BY <1>1 DEF SumsAgree
<1>9. SumsAgree(c)
  BY <1>4, <1>5, <1>6, <1>7, <1>8 DEF SumsAgree
<1> QED BY <1>9 DEF c

LEMMA ErrorKeepsSums ==
  ASSUME NEW b, DOMAIN b = BookColumns, SumsAgree(b), NEW type \in ErrorTypes
  PROVE  SumsAgree(RecordError(b, type))
<1> DEFINE c == RecordError(b, type)
<1>1. /\ c.requests = b.requests /\ c.cost = b.cost /\ c.errors = b.errors + 1 /\ c.log = b.log
      /\ c.count = b.count /\ c.failures = b.failures /\ c.costOf = b.costOf
      /\ c.errorsOf = [b.errorsOf EXCEPT ![type] = @ + 1]
  BY DEF BookColumns, RecordError
<1> HIDE DEF c
<1>2. b.errorsOf \in [ErrorTypes -> Nat] /\ SumOver(b.failures) \in Nat /\ SumOver(b.errorsOf) \in Nat
  BY DEF SumsAgree
<1>3. c.errorsOf \in [ErrorTypes -> Nat] /\ SumOver(c.errorsOf) = SumOver(b.errorsOf) + 1
  <2>1. /\ [b.errorsOf EXCEPT ![type] = @ + 1] \in [ErrorTypes -> Nat]
        /\ SumOver([b.errorsOf EXCEPT ![type] = @ + 1]) = SumOver(b.errorsOf) + 1
    BY <1>2, MetricsParameters, RaisedSum
  <2> QED BY <1>1, <2>1, Zenon
<1>4. /\ c.errors = SumOver(c.failures) + SumOver(c.errorsOf) /\ c.errors \in Nat
      /\ SumOver(c.failures) \in Nat /\ SumOver(c.errorsOf) \in Nat
  <2>1. b.errors = SumOver(b.failures) + SumOver(b.errorsOf)
    BY DEF SumsAgree
  <2>2. c.errors = b.errors + 1 /\ c.failures = b.failures
    BY <1>1
  <2> QED BY <1>2, <1>3, <2>1, <2>2
<1> QED BY <1>1, <1>3, <1>4 DEF SumsAgree, c

LEMMA LogKeepsSums ==
  ASSUME NEW b, DOMAIN b = BookColumns, SumsAgree(b), NEW item \in LogEntries
  PROVE  SumsAgree(RecordDetailedRequest(b, item))
<1> DEFINE c == RecordDetailedRequest(b, item)
<1>1. /\ c.requests = b.requests /\ c.cost = b.cost /\ c.errors = b.errors
      /\ c.count = b.count /\ c.failures = b.failures /\ c.costOf = b.costOf
      /\ c.log = Newest(Append(b.log, item), MaxLog) /\ c.errorsOf = b.errorsOf
  BY DEF BookColumns, RecordDetailedRequest
<1> HIDE DEF c
<1>2. c.log \in Seq(LogEntries)
  <2>1. Append(b.log, item) \in Seq(LogEntries) /\ MaxLog \in Nat
    BY MetricsParameters DEF SumsAgree
  <2> QED BY <1>1, <2>1, NewestIsEnd
<1> QED BY <1>1, <1>2 DEF SumsAgree, c

\* The books change in one of five ways.
BooksChange ==
  \/ books' = books
  \/ books' = EmptyBooks
  \/ \E type \in ErrorTypes : books' = RecordError(books, type)
  \/ \E m \in Booked, id \in Nat, cost \in Nat, success \in BOOLEAN :
       \/ books' = RecordRequest(books, m, id, cost, success)
       \/ \E item \in LogEntries : books' = RecordDetailedRequest(RecordRequest(books, m, id, cost, success), item)

LEMMA StepsBook ==
  BooksInv /\ [CompletionsNext /\ UNCHANGED apiKeys]_<<completionVars, apiKeys>> => BooksChange
<1> SUFFICES ASSUME BooksInv, CompletionsNext \/ UNCHANGED completionVars PROVE BooksChange
  OBVIOUS
<1>1. \A a \in Actors : Unbooked(a) => /\ work[a].id \in Nat /\ work[a].model \in Booked /\ work[a].model \in Models
                                      /\ Price[work[a].model] \in Nat
  BY CompletionParameters DEF BooksInv, WorkNumbered, Booked
<1>2. ASSUME NEW a \in Actors, Unbooked(a), NEW cost \in Nat, NEW success \in BOOLEAN, books' = Book(a, cost, success)
      PROVE  BooksChange
  BY <1>1, <1>2 DEF BooksChange, Book
<1>3. ASSUME NEW a \in Actors, Unbooked(a), NEW cost \in Nat, NEW status \in {"completed", "cache_hit"},
             books' = RecordDetailedRequest(Book(a, cost, TRUE), Entry(a, status))
      PROVE  BooksChange
  <2>1. Entry(a, status) \in LogEntries
    BY <1>1, <1>3 DEF Entry, LogEntries
  <2>2. work[a].model \in Booked /\ work[a].id \in Nat /\ TRUE \in BOOLEAN
    BY <1>1, <1>3
  <2> QED BY <1>3, <2>1, <2>2 DEF BooksChange, Book
<1>4. ASSUME NEW a \in Actors, NotRouted(a) PROVE BooksChange
  <2>1. books' = RecordRequest(books, Unknown, asked + 1, 0, FALSE)
    BY <1>4 DEF NotRouted
  <2>2. Unknown \in Booked /\ asked + 1 \in Nat /\ 0 \in Nat /\ FALSE \in BOOLEAN
    BY BookedIsFinite DEF BooksInv, WorkNumbered
  <2> QED BY <2>1, <2>2 DEF BooksChange
<1>5. ASSUME NEW a \in Actors, Hit(a) PROVE BooksChange
  <2>1. Unbooked(a)
    BY <1>5 DEF Hit, At, Unbooked
  <2>2. CASE a \in Handlers
    BY <1>3, <1>5, <2>1, <2>2 DEF Hit
  <2>3. CASE a \notin Handlers
    BY <1>2, <1>5, <2>1, <2>3 DEF Hit
  <2> QED BY <2>2, <2>3
<1>6. ASSUME NEW a \in Actors, HandlerAsks(a) PROVE BooksChange
  <2>1. Unbooked(a) /\ books' = RecordDetailedRequest(Book(a, Price[work[a].model], TRUE), Entry(a, "completed"))
    BY <1>6 DEF HandlerAsks, At, Unbooked
  <2> QED BY <1>1, <1>3, <2>1
<1>7. ASSUME NEW a \in Actors, JobFails(a) PROVE BooksChange
  BY <1>2, <1>7 DEF JobFails, At, Unbooked
<1>8. ASSUME NEW a \in Actors, GiveAnswer(a) PROVE BooksChange
  <2>1. CASE a \in Workers
    <3>1. Unbooked(a) /\ books' = Book(a, Price[work[a].model], TRUE)
      BY <1>8, <2>1 DEF GiveAnswer, At, Unbooked
    <3> QED BY <1>1, <1>2, <3>1
  <2>2. CASE a \notin Workers
    BY <1>8, <2>2 DEF GiveAnswer, BooksChange
  <2> QED BY <2>1, <2>2
<1>9. CASE Reset
  BY <1>9 DEF Reset, BooksChange
<1>10. CASE UNCHANGED completionVars
  BY <1>10 DEF completionVars, BooksChange
<1>11. ASSUME NEW a \in Actors,
              \/ \E p \in Prompts, m \in Models, c \in BOOLEAN : Routed(a, p, m, c)
              \/ MissCompletion(a) \/ JobAsks(a) \/ SaveAnswer(a)
       PROVE  BooksChange
  BY <1>11 DEF Routed, MissCompletion, JobAsks, SaveAnswer, BooksChange
<1>12. ASSUME NEW k \in AllKeys, DayPasses(k) PROVE BooksChange
  BY <1>12 DEF DayPasses, BooksChange
<1>13. ASSUME NEW type \in ErrorTypes, ErrorRecorded(type) PROVE BooksChange
  BY <1>13 DEF ErrorRecorded, BooksChange
<1> QED
  BY <1>4, <1>5, <1>6, <1>7, <1>8, <1>9, <1>10, <1>11, <1>12, <1>13 DEF CompletionsNext

LEMMA SumsInductive ==
  BooksInv /\ SumsAgree(books) /\ [CompletionsNext /\ UNCHANGED apiKeys]_<<completionVars, apiKeys>>
  => SumsAgree(books)'
<1> SUFFICES ASSUME BooksInv, SumsAgree(books), BooksChange PROVE SumsAgree(books')
  BY StepsBook
<1>1. CASE books' = books
  BY <1>1
<1>2. CASE books' = EmptyBooks
  BY <1>2, EmptySumsAgree
<1>3. ASSUME NEW m \in Booked, NEW id \in Nat, NEW cost \in Nat, NEW success \in BOOLEAN,
             \/ books' = RecordRequest(books, m, id, cost, success)
             \/ \E item \in LogEntries : books' = RecordDetailedRequest(RecordRequest(books, m, id, cost, success), item)
      PROVE  SumsAgree(books')
  <2> DEFINE b == RecordRequest(books, m, id, cost, success)
  <2>1. DOMAIN books = BookColumns
    BY DEF BooksInv, InStep
  <2>2. SumsAgree(b)
    BY <2>1, RecordKeepsSums
  <2>3. DOMAIN b = BookColumns
    BY <2>1 DEF BookColumns, RecordRequest, Cleanup
  <2> HIDE DEF b
  <2>4. \A item \in LogEntries : SumsAgree(RecordDetailedRequest(b, item))
    BY <2>2, <2>3, LogKeepsSums
  <2> QED BY <1>3, <2>2, <2>4 DEF b
<1>4. ASSUME NEW type \in ErrorTypes, books' = RecordError(books, type)
      PROVE  SumsAgree(books')
  BY <1>4, ErrorKeepsSums DEF BooksInv, InStep
<1> QED BY <1>1, <1>2, <1>3, <1>4 DEF BooksChange

\* Pages of one entry are read from the newest one back.
LEMMA PagesAreEntries ==
  ASSUME NEW b, b.log \in Seq(LogEntries)
  PROVE  PagesMakeLog(b)
<1> DEFINE n == Len(b.log)
           at == {i \in DOMAIN b.log : /\ AnyModel = AnyModel \/ b.log[i].model = AnyModel
                                       /\ AnyStatus = AnyStatus \/ b.log[i].status = AnyStatus}
           found == [k \in 1..Cardinality(at) |-> b.log[CHOOSE i \in at : Cardinality({j \in at : j >= i}) = k]]
<1>1. n \in Nat /\ at = 1..n
  BY LenProperties
<1>2. Cardinality(at) = n
  <2>1. Cardinality(1..n) = n
    BY <1>1, FS_Interval
  <2> QED BY <1>1, <2>1
<1>3. ASSUME NEW i \in 1..n PROVE Cardinality({j \in at : j >= i}) = n - i + 1
  <2>1. {j \in 1..n : j >= i} = i..n
    BY <1>1
  <2>2. Cardinality(i..n) = n - i + 1
    BY <1>1, FS_Interval
  <2> QED BY <1>1, <2>1, <2>2
<1>4. ASSUME NEW k \in 1..n PROVE found[k] = b.log[n - k + 1]
  <2> DEFINE c == CHOOSE i \in at : Cardinality({j \in at : j >= i}) = k
  <2>1. n - k + 1 \in 1..n /\ n - (n - k + 1) + 1 = k
    BY <1>1
  <2>2. Cardinality({j \in at : j >= n - k + 1}) = k
    BY <1>3, <2>1
  <2>3. n - k + 1 \in at
    BY <1>1, <2>1
  <2>4. c \in at /\ Cardinality({j \in at : j >= c}) = k
    <3>1. \E i \in at : Cardinality({j \in at : j >= i}) = k
      BY <2>2, <2>3
    <3> HIDE DEF at
    <3> QED BY <3>1
  <2>5. found[k] = b.log[c]
    BY <1>2
  <2> HIDE DEF c, at, found
  <2>6. c \in 1..n
    BY <1>1, <2>4
  <2>7. k = n - c + 1
    BY <1>3, <2>4, <2>6
  <2>8. c = n - k + 1
    BY <1>1, <2>6, <2>7
  <2> QED BY <2>5, <2>8
<1>5. found \in Seq(LogEntries) /\ Len(found) = n
  <2>1. \A k \in 1..n : b.log[n - k + 1] \in LogEntries
    <3>1. \A k \in 1..n : n - k + 1 \in 1..n
      BY <1>1
    <3> QED BY <3>1, ElementOfSeq
  <2>2. found = [k \in 1..n |-> found[k]]
    BY <1>2
  <2>3. \A k \in 1..n : found[k] \in LogEntries
    BY <1>4, <2>1
  <2> HIDE DEF found
  <2>4. found \in [1..n -> LogEntries]
    BY <2>2, <2>3
  <2> QED BY <1>1, <2>4
<1>6. ASSUME NEW i \in 1..n
      PROVE  LET got == GetRequestLog(b, AnyModel, AnyStatus, 1, n - i)
             IN got.total = n /\ got.page = <<b.log[i]>>
  <2> DEFINE rest == SubSeq(found, n - i + 1, n)
             got == GetRequestLog(b, AnyModel, AnyStatus, 1, n - i)
  <2>1. /\ got.total = Len(found)
        /\ got.page = IF 1 > 0 /\ 1 < Len(SubSeq(found, n - i + 1, Len(found)))
                      THEN SubSeq(SubSeq(found, n - i + 1, Len(found)), 1, 1)
                      ELSE SubSeq(found, n - i + 1, Len(found))
    BY DEF GetRequestLog
  <2>2. n - i + 1 \in 1..n /\ n - (n - i + 1) + 1 = i /\ n \in (n - i + 1)..n
    <3>1. n \in Nat
      BY <1>1
    <3> HIDE DEF n, at, found
    <3> QED BY <3>1
  <2>3. found[n - i + 1] = b.log[i]
    BY <1>4, <2>2
  <2> HIDE DEF found, got
  <2>4. rest \in Seq(LogEntries) /\ Len(rest) = i /\ rest[1] = found[n - i + 1]
    <3> DEFINE a == n - i + 1
    <3>1. a \in 1..(Len(found) + 1) /\ n \in (a - 1)..Len(found) /\ n - a + 1 = i /\ 1 \in 1..(n - a + 1) /\ a + 1 - 1 = a
      BY <1>1, <1>5, <2>2
    <3> HIDE DEF a
    <3>2. /\ SubSeq(found, a, n) \in Seq(LogEntries) /\ Len(SubSeq(found, a, n)) = i
          /\ SubSeq(found, a, n)[1] = found[a]
      BY SMTT(40), <1>5, <3>1, SubSeqProperties
    <3> QED BY <3>2 DEF a
  <2>5. got.page = IF 1 < i THEN SubSeq(rest, 1, 1) ELSE rest
    <3>1. SubSeq(found, n - i + 1, Len(found)) = rest
      BY <1>5
    <3>2. got.page = IF 1 > 0 /\ 1 < Len(rest) THEN SubSeq(rest, 1, 1) ELSE rest
      BY <2>1, <3>1, Zenon
    <3> HIDE DEF rest
    <3> QED BY <2>4, <3>2
  <2> HIDE DEF rest
  <2>6. \A s \in Seq(LogEntries) : Len(s) = 1 /\ s[1] = b.log[i] => s = <<b.log[i]>>
    OBVIOUS
  <2>7. SubSeq(rest, 1, 1) \in Seq(LogEntries) /\ Len(SubSeq(rest, 1, 1)) = 1 /\ SubSeq(rest, 1, 1)[1] = rest[1]
    BY <2>4
  <2>8. got.page = <<b.log[i]>>
    <3>1. CASE 1 < i
      BY <2>3, <2>4, <2>5, <2>6, <2>7, <3>1
    <3>2. CASE ~(1 < i)
      <4>1. i = 1
        BY <3>2
      <4> QED BY <2>3, <2>4, <2>5, <2>6, <4>1
    <3> QED BY <3>1, <3>2
  <2> QED BY <1>5, <2>1, <2>8 DEF got
<1> QED BY <1>6 DEF PagesMakeLog

\* Sorted latencies are latencies, and they rise.
LEMMA SortedRises ==
  ASSUME NEW s \in Seq(Nat)
  PROVE  /\ DOMAIN Sorted(s) = 1..Len(s)
         /\ \A k \in 1..Len(s) : Sorted(s)[k] \in Range(s) /\ Sorted(s)[k] \in Nat
         /\ \A k, l \in 1..Len(s) : k <= l => Sorted(s)[k] <= Sorted(s)[l]
<1> DEFINE n == Len(s)
           upTo(v) == Cardinality({i \in DOMAIN s : s[i] <= v})
           enough(k) == {v \in Range(s) : upTo(v) >= k}
<1>1. n \in Nat /\ DOMAIN s = 1..n /\ Range(s) \subseteq Nat
  BY ElementOfSeq DEF Range
<1>2. DOMAIN Sorted(s) = 1..n /\ \A k \in 1..n : Sorted(s)[k] = Min(enough(k))
  BY <1>1 DEF Sorted
<1>3. \A v : upTo(v) \in Nat
  <2> SUFFICES ASSUME NEW v PROVE upTo(v) \in Nat
    OBVIOUS
  <2>1. IsFiniteSet(1..n) /\ {i \in DOMAIN s : s[i] <= v} \subseteq 1..n
    BY <1>1, FS_Interval
  <2>2. IsFiniteSet({i \in DOMAIN s : s[i] <= v})
    BY <2>1, FS_Subset
  <2> QED BY <2>2, FS_CardinalityType
<1>4. ASSUME NEW k \in 1..n PROVE enough(k) # {}
  <2>1. 1..n # {} /\ IsFiniteSet(1..n) /\ \A i \in 1..n : s[i] \in Int
    <3>1. 1..n # {} /\ \A i \in 1..n : s[i] \in Int
      BY <1>1, ElementOfSeq
    <3>2. IsFiniteSet(1..n)
      <4>1. 1 \in Int /\ n \in Int
        BY <1>1
      <4> QED BY <4>1, FS_Interval
    <3> QED BY <3>1, <3>2
  <2>2. PICK m \in 1..n : \A i \in 1..n : s[i] <= s[m]
    BY <2>1, FiniteHasMax
  <2>3. {i \in DOMAIN s : s[i] <= s[m]} = 1..n
    BY <1>1, <2>2
  <2>4. Cardinality(1..n) = n
    <3>1. 1 \in Int /\ n \in Int /\ (n - 1 + 1) = n /\ 1 <= n
      BY <1>1
    <3> HIDE DEF n
    <3> QED BY <3>1, FS_Interval
  <2>5. upTo(s[m]) >= k
    <3>1. upTo(s[m]) = n
      BY <2>3, <2>4, Zenon
    <3> HIDE DEF upTo
    <3> QED BY <1>1, <3>1
  <2>6. s[m] \in Range(s)
    BY <1>1 DEF Range
  <2> HIDE DEF upTo
  <2> QED BY <2>5, <2>6
<1>5. ASSUME NEW k \in 1..n
      PROVE  Min(enough(k)) \in enough(k) /\ \A v \in enough(k) : Min(enough(k)) <= v
  <2>1. enough(k) # {} /\ enough(k) \subseteq Nat
    BY <1>1, <1>4
  <2> HIDE DEF enough
  <2>2. \E v \in enough(k) : \A w \in enough(k) : v <= w
    BY <2>1, LeastNumber
  <2> QED BY <2>2 DEF Min
<1> HIDE DEF upTo
<1>6. ASSUME NEW k \in 1..n PROVE Sorted(s)[k] \in Range(s) /\ Sorted(s)[k] \in Nat
  BY <1>1, <1>2, <1>5
<1>7. ASSUME NEW k \in 1..n, NEW l \in 1..n, k <= l PROVE Sorted(s)[k] <= Sorted(s)[l]
  <2>1. enough(l) \subseteq enough(k)
    <3>1. ASSUME NEW v \in enough(l) PROVE v \in enough(k)
      <4>1. upTo(v) >= l /\ upTo(v) \in Nat /\ v \in Range(s)
        BY <1>3
      <4>2. upTo(v) >= k
        BY <1>7, <4>1
      <4> QED BY <4>1, <4>2
    <3> QED BY <3>1
  <2>2. Min(enough(l)) \in enough(l) /\ \A v \in enough(k) : Min(enough(k)) <= v
    BY <1>5
  <2>3. Min(enough(k)) <= Min(enough(l))
    BY <2>1, <2>2
  <2> QED BY <1>2, <2>3
<1> QED BY <1>2, <1>6, <1>7

Percents == {0, 50, 90, 95, 99, 100}
At100(p, n) == ((n - 1) * p) \div 100 + 1

LEMMA PercentilesRise ==
  ASSUME NEW n \in Nat, n > 0
  PROVE  /\ \A p \in Percents : At100(p, n) \in 1..n
         /\ \A p, q \in Percents : p < q => At100(p, n) <= At100(q, n)
         /\ At100(0, n) = 1 /\ At100(100, n) = n
<1>1. \A p \in Percents : p \in {0, 50, 90, 95, 99, 100}
  BY DEF Percents
<1>2. At100(0, n) = 1 /\ At100(100, n) = n
  BY DEF At100
<1>3. ASSUME NEW p \in Percents PROVE At100(p, n) \in 1..n
  BY <1>1 DEF At100
<1>4. ASSUME NEW p \in Percents, NEW q \in Percents, p < q PROVE At100(p, n) <= At100(q, n)
  BY <1>1, <1>4 DEF At100
<1> QED BY <1>2, <1>3, <1>4

LEMMA LatenciesAre ==
  ASSUME NEW b, InStep(b), b.latencies # <<>>
  PROVE  LatenciesAgree(b)
<1> DEFINE s == b.latencies
           n == Len(s)
           sorted == Sorted(s)
           got == GetLatencyMetrics(b)
           all == [p \in {0, 50, 90, 95, 99, 100} |->
                     CASE p = 0 -> got.min [] p = 100 -> got.max [] OTHER -> got.percentiles[p]]
<1>1. s \in Seq(Nat) /\ n \in Nat /\ n > 0 /\ n = Len(b.times)
  <2>1. s \in Seq(Nat) /\ n = Len(b.times)
    BY DEF InStep
  <2> QED BY <2>1, EmptySeq
<1>2. /\ DOMAIN sorted = 1..n
      /\ \A k \in 1..n : sorted[k] \in Range(s) /\ sorted[k] \in Nat
      /\ \A k, l \in 1..n : k <= l => sorted[k] <= sorted[l]
  <2> HIDE DEF s
  <2> QED BY <1>1, SortedRises
<1>3. Len(sorted) = n
  <2>1. sorted = [k \in 1..n |-> sorted[k]]
    BY <1>2 DEF Sorted
  <2> HIDE DEF sorted
  <2>2. sorted \in [1..n -> Nat]
    BY <1>2, <2>1
  <2> QED BY <1>1, <2>2
<1>4. /\ got.percentiles = [p \in {50, 90, 95, 99} |-> sorted[At100(p, n)]]
      /\ got.min = sorted[1] /\ got.max = sorted[n] /\ got.count = n
  BY <1>3 DEF GetLatencyMetrics, calculatePercentile, At100
<1> HIDE DEF got, sorted, s, n
<1>5. DOMAIN all = Percents
  BY DEF Percents
<1>6. ASSUME NEW p \in Percents PROVE all[p] = sorted[At100(p, n)]
  <2>1. At100(0, n) = 1 /\ At100(100, n) = n
    BY <1>1, PercentilesRise
  <2>2. CASE p \in {50, 90, 95, 99}
    BY <1>4, <2>2
  <2>3. CASE p = 0
    BY <1>4, <2>1, <2>3
  <2>4. CASE p = 100
    BY <1>4, <2>1, <2>4
  <2> QED BY <2>2, <2>3, <2>4 DEF Percents
<1> HIDE DEF all
<1>7. \A p \in Percents : At100(p, n) \in 1..n
  BY <1>1, PercentilesRise
<1>8. Range(all) \subseteq Range(s)
  <2>1. \A p \in Percents : all[p] \in Range(s)
    BY <1>2, <1>6, <1>7
  <2>2. Range(all) = {all[p] : p \in Percents}
    BY <1>5 DEF Range
  <2> QED BY <2>1, <2>2
<1>9. ASSUME NEW p \in Percents, NEW q \in Percents, p < q PROVE all[p] <= all[q]
  <2>1. At100(p, n) <= At100(q, n)
    BY <1>1, <1>9, PercentilesRise
  <2> QED BY <1>2, <1>6, <1>7, <2>1
<1>10. /\ got.count = Len(b.times) /\ Range(all) \subseteq Range(b.latencies)
       /\ \A p, q \in DOMAIN all : p < q => all[p] <= all[q]
  BY <1>1, <1>4, <1>5, <1>8, <1>9 DEF s
<1> QED BY <1>10, Zenon DEF LatenciesAgree, all, got

\* The samples of one time are those of one request.
LEMMA SamplesJoin ==
  ASSUME NEW b, InStep(b), b.log \in Seq(LogEntries), NEW i \in DOMAIN b.times
  PROVE  LET one == Bucket(b, {b.times[i]})
         IN /\ one.count = 1 /\ one.latencies = {b.times[i]} /\ one.errors = 0
            /\ \A c \in Range(b.costs) : c.id = b.times[i] => one.cost = c.cost
<1> DEFINE in == {k \in DOMAIN b.times : b.times[k] \in {b.times[i]}}
           cost == [k \in in \cap DOMAIN b.costs |-> b.costs[k].cost]
           one == Bucket(b, {b.times[i]})
<1>1. /\ DOMAIN b.times = 1..Len(b.times) /\ DOMAIN b.costs = 1..Len(b.times) /\ b.latencies = b.times
      /\ \A k \in 1..Len(b.times) : b.costs[k].id = b.times[k] /\ b.costs[k] \in Sample
  BY ElementOfSeq DEF InStep
<1>2. in = {i}
  BY <1>1 DEF InStep
<1>3. /\ one.count = Cardinality(in) /\ one.latencies = {b.latencies[k] : k \in in \cap DOMAIN b.latencies}
      /\ one.cost = SumOver(cost)
  BY DEF Bucket
<1>4. in \cap DOMAIN b.costs = {i} /\ in \cap DOMAIN b.latencies = {i}
  BY <1>1, <1>2
<1>5. cost = [k \in {i} |-> b.costs[k].cost]
  BY <1>4
<1>11. one.errors = 0
  <2> DEFINE failed == {k \in DOMAIN b.log : b.log[k].id \in {b.times[i]} /\ b.log[k].status = "error"}
  <2>1. \A k \in DOMAIN b.log : b.log[k] \in LogEntries
    BY ElementOfSeq, LenProperties
  <2>2. failed = {}
    BY <2>1 DEF LogEntries
  <2>3. one.errors = Cardinality(failed)
    BY DEF Bucket
  <2> QED BY <2>2, <2>3, FS_EmptySet
<1> HIDE DEF in, cost, one
<1>6. one.count = 1
  BY <1>2, <1>3, FS_Singleton
<1>7. one.latencies = {b.times[i]}
  BY <1>1, <1>3, <1>4
<1>8. DOMAIN cost = {i} /\ cost[i] = b.costs[i].cost /\ cost[i] \in Int
  BY <1>1, <1>5 DEF Sample
<1>9. one.cost = b.costs[i].cost
  <2>1. SumOf(cost, {i}) = cost[i]
    BY <1>8, SingleSums
  <2> QED BY <1>3, <1>8, <2>1 DEF SumOver
<1>10. ASSUME NEW c \in Range(b.costs), c.id = b.times[i] PROVE one.cost = c.cost
  <2>1. PICK k \in 1..Len(b.times) : c = b.costs[k]
    BY <1>1 DEF Range
  <2>2. b.times[k] = b.times[i]
    BY <1>1, <1>10, <2>1
  <2>3. k = i
    BY <1>1, <2>2 DEF InStep
  <2> QED BY <1>9, <2>1, <2>3
<1> QED BY <1>6, <1>7, <1>10, <1>11 DEF one

LEMMA StepAndSumsAgree ==
  ASSUME NEW b, InStep(b), FailuresAreRequests(b), SumsAgree(b)
  PROVE  Agree(b)
<1>1. PagesMakeLog(b)
  BY PagesAreEntries DEF SumsAgree
<1>2. CostsAgree(b)
  <2> DEFINE f == b.costOf
             q == [p \in ProviderNames |-> SumOf(f, {m \in Booked : NamedProvider(m) = p})]
  <2>1. f \in [Booked -> Int] /\ b.cost = SumOver(f)
    BY DEF SumsAgree
  <2>2. GetCostMetrics(b).total = b.cost /\ GetCostMetrics(b).byModel = f /\ GetCostMetrics(b).byProvider = q
    BY DEF GetCostMetrics
  <2> HIDE DEF f
  <2>3. SumOver(q) + SumOf(f, Nobodys) = SumOver(f)
    BY <2>1, BookedIsFinite, ProvidersSum
  <2> HIDE DEF q
  <2> QED BY <2>1, <2>2, <2>3 DEF CostsAgree, Nobodys
<1>3. b.requests = SumOver(b.count) /\ b.errors = SumOver(b.failures) + SumOver(b.errorsOf) /\ b.log \in Seq(LogEntries)
  BY DEF SumsAgree
<1>4. b.latencies # <<>> => LatenciesAgree(b)
  BY LatenciesAre
<1>5. \A m \in Booked : b.failures[m] <= b.count[m]
  BY DEF FailuresAreRequests
<1>6. Len(b.times) = IF b.requests < MaxDataPoints THEN b.requests ELSE MaxDataPoints
  BY DEF InStep
<1> QED BY <1>1, <1>2, <1>3, <1>4, <1>5, <1>6, SamplesJoin DEF Agree

\* However requests of handlers and jobs interleave, are trimmed and reset,
\* and errors are recorded among them, the books agree with themselves: every
\* total is the sum over the models, the costs also over the providers with
\* the models that have none, errors are failures and what was recorded
\* apart, a sample of the time series is one request, for which it shows no
\* error, pages of the log are the log, and percentiles are samples and rise
\* (collector.go:55, 107, 143, 224, 320, 368, 378).
THEOREM BooksAlwaysAgree == CompletionsSpec => []BooksAgree
<1>1. NoCompletions => BooksInv /\ SumsAgree(books)
  BY BooksInitially, EmptySumsAgree DEF NoCompletions
<1>2. BooksInv /\ SumsAgree(books) => BooksAgree
  BY StepAndSumsAgree DEF BooksInv, BooksAgree
<1> QED BY <1>1, <1>2, BooksInductive, SumsInductive, PTL DEF CompletionsSpec

-----------------------------------------------------------------------------
(* Conversations.                                                          *)

Message == [role : {"user", "assistant"}, call : Nat, at : Nat]

Streaming == {"openai", "anthropic", "simulation"}
Unsaved   == {"loadMessages", "stampUser", "saveUser"}
Asked     == {"countUser", "prompt", "none", "stampAssistant", "saveAssistant", "countAssistant", "title"}
             \cup Streaming
Loaded    == {"stampUser", "saveUser", "countUser", "prompt"} \cup Streaming

MessagesOK ==
  /\ sends \in Nat /\ latest \in Nat
  /\ messages \subseteq Message /\ IsFiniteSet(messages)
  /\ \A m \in messages : m.call \in 1..sends

HistoryOK(h, call) ==
  /\ h \in Seq(Message) /\ IsInjective(h) /\ AnswersFollow(h)
  /\ \A i \in 1..Len(h) : h[i].call # call

QuestionStored(call, at) == \E q \in messages : q.role = "user" /\ q.call = call /\ q.at <= at

AnswerDue(call, at) == \E q \in messages : q.role = "user" /\ q.call = call /\ q.at < at

\* Where a handler's question is, and what it loaded, at each of its steps.
SenderOK(w) ==
  /\ DOMAIN w = {"pc", "call", "first", "at", "history", "prompt", "left", "queued"}
  /\ w.pc \in {"idle"} \cup Unsaved \cup Asked
  /\ w.at \in Nat
  /\ w.pc # "idle" => w.call \in 1..sends
  /\ w.pc \in Unsaved => \A m \in messages : m.call # w.call
  /\ w.pc \in Asked => QuestionStored(w.call, w.at)
  /\ w.pc = "saveAssistant" => AnswerDue(w.call, w.at)
  /\ w.pc \in Loaded => HistoryOK(w.history, w.call)
  /\ w.pc \in Streaming => w.prompt = Append(w.history, [role |-> "user", call |-> w.call, at |-> w.at])

SendersOK == DOMAIN send = Senders /\ \A s \in Senders : SenderOK(send[s])

CallsDiffer ==
  \A s, t \in Senders : s # t /\ send[s].pc # "idle" /\ send[t].pc # "idle" => send[s].call # send[t].call

AnswersStored == \A a \in messages : a.role = "assistant" => AnswerDue(a.call, a.at)

ChatInv == MessagesOK /\ SendersOK /\ CallsDiffer /\ AnswersStored

\* A message that is added at the end of a history: it is the last, and the
\* history is in front of it.
LEMMA FrontOfAppend ==
  ASSUME NEW S, NEW h \in Seq(S), NEW e
  PROVE  /\ Front(Append(h, e)) = h /\ Last(Append(h, e)) = e /\ Append(h, e) # <<>>
         /\ DOMAIN Append(h, e) = 1..(Len(h) + 1) /\ Append(h, e)[Len(h) + 1] = e
         /\ \A i \in 1..Len(h) : Append(h, e)[i] = h[i]
<1> DEFINE p == Append(h, e)
           T == S \cup {e}
<1>1. h \in Seq(T) /\ e \in T
  BY SeqMonotonic
<1>2. p \in Seq(T) /\ Len(p) = Len(h) + 1 /\ p[Len(h) + 1] = e /\ \A i \in 1..Len(h) : p[i] = h[i]
  BY <1>1
<1>3. Front(p) = SubSeq(p, 1, Len(h))
  BY <1>1, <1>2 DEF Front
<1>4. SubSeq(p, 1, Len(h)) = h
  <2>1. SubSeq(p, 1, Len(h)) \in Seq(T) /\ Len(SubSeq(p, 1, Len(h))) = Len(h)
    BY <1>1, <1>2
  <2>2. \A i \in 1..Len(h) : SubSeq(p, 1, Len(h))[i] = h[i]
    BY <1>1, <1>2
  <2> QED BY <1>1, <2>1, <2>2, SeqEqual
<1>5. Last(p) = e
  BY <1>2 DEF Last
<1>6. p # <<>> /\ DOMAIN p = 1..(Len(h) + 1)
  BY <1>1, <1>2
<1> QED BY <1>2, <1>3, <1>4, <1>5, <1>6

\* What is read in the order of its times is a history of whoever has nothing
\* in it: an answer has a later time than its question.
LEMMA OrderedHistory ==
  ASSUME MessagesOK, AnswersStored, NEW h \in InOrder(messages),
         NEW call, \A m \in messages : m.call # call
  PROVE  HistoryOK(h, call)
<1> DEFINE n == Cardinality(messages)
<1>1. n \in Nat
  BY FS_CardinalityType DEF MessagesOK
<1>2. /\ h \in [1..n -> messages] /\ IsInjective(h) /\ Range(h) = messages
      /\ \A i, j \in DOMAIN h : i < j => h[i].at <= h[j].at
  BY DEF InOrder
<1> HIDE DEF n
<1>3. DOMAIN h = 1..n /\ \A i \in 1..n : h[i] \in messages /\ h[i] \in Message
  BY <1>2 DEF MessagesOK
<1>4. h \in Seq(Message) /\ Len(h) = n
  BY <1>1, <1>2, <1>3
<1>5. ASSUME NEW i \in 1..n, h[i].role = "assistant"
      PROVE  \E j \in 1..(i - 1) : h[j].role = "user" /\ h[j].call = h[i].call
  <2>1. PICK q \in messages : q.role = "user" /\ q.call = h[i].call /\ q.at < h[i].at
    BY <1>3, <1>5 DEF AnswersStored, AnswerDue
  <2>2. PICK j \in 1..n : h[j] = q
    BY <1>2, <1>3, <2>1 DEF Range
  <2>3. h[j].at \in Nat /\ h[i].at \in Nat
    BY <1>3, <2>2 DEF Message
  <2>4. ~(i < j) /\ i # j
    BY <1>2, <1>3, <1>5, <2>1, <2>2, <2>3
  <2>5. j \in 1..(i - 1)
    BY <1>1, <2>4
  <2> QED BY <2>1, <2>2, <2>5
<1> QED BY <1>2, <1>3, <1>4, <1>5 DEF HistoryOK, AnswersFollow

LEMMA NoSendOK == SenderOK(NoSend) /\ NoSend.pc = "idle"
BY DEF NoSend, SenderOK, Unsaved, Asked, Loaded, Streaming

LEMMA ChatInitially == NewConversation => ChatInv
<1> SUFFICES ASSUME NewConversation PROVE ChatInv
  OBVIOUS
<1>1. messages = {} /\ latest = 0 /\ sends = 0 /\ send = [s \in Senders |-> NoSend]
  BY DEF NewConversation
<1>2. MessagesOK /\ AnswersStored
  BY <1>1, FS_EmptySet DEF MessagesOK, AnswersStored
<1>3. SendersOK /\ CallsDiffer
  BY <1>1, NoSendOK DEF SendersOK, CallsDiffer
<1> QED BY <1>2, <1>3 DEF ChatInv

\* A step of a handler that leaves the messages alone.
LEMMA QuietStep ==
  ASSUME ChatInv, NEW s \in Senders, NEW w, send' = [send EXCEPT ![s] = w], SenderOK(w),
         w.pc = "idle" \/ (send[s].pc # "idle" /\ w.call = send[s].call),
         latest' \in Nat, UNCHANGED <<messages, sends>>
  PROVE  ChatInv'
<1>1. MessagesOK' /\ AnswersStored'
  BY DEF ChatInv, MessagesOK, AnswersStored, AnswerDue
<1>2. CallsDiffer'
  BY DEF ChatInv, SendersOK, CallsDiffer
<1>3. DOMAIN send' = Senders /\ \A t \in Senders : send'[t] = w \/ send'[t] = send[t]
  BY DEF ChatInv, SendersOK
<1>4. ASSUME NEW t \in Senders PROVE SenderOK(send'[t])
  BY <1>3 DEF ChatInv, SendersOK
<1>5. SendersOK'
  BY SMTT(30), <1>3, <1>4 DEF SendersOK, SenderOK, QuestionStored, AnswerDue
<1> QED BY <1>1, <1>2, <1>5 DEF ChatInv

\* A step that adds a message of the handler's own call.
LEMMA InsertStep ==
  ASSUME ChatInv, NEW s \in Senders, NEW w, NEW m \in Message,
         send[s].pc # "idle", m.call = send[s].call,
         messages' = messages \cup {m},
         m.role = "assistant" => AnswerDue(m.call, m.at),
         send' = [send EXCEPT ![s] = w], w.call = send[s].call, w.at = send[s].at,
         w.pc \in Asked, w.pc # "saveAssistant", w.pc \notin Streaming,
         DOMAIN w = DOMAIN send[s],
         w.pc \in Loaded => HistoryOK(w.history, w.call),
         (m.role = "user" /\ m.at = w.at) \/ QuestionStored(w.call, w.at),
         UNCHANGED <<latest, sends>>
  PROVE  ChatInv'
<1>1. SenderOK(send[s])
  BY DEF ChatInv, SendersOK
<1>2. m.call \in 1..sends /\ m.at \in Nat /\ w.at \in Nat
  BY <1>1 DEF SenderOK, Message
<1>3. MessagesOK'
  <2>1. IsFiniteSet(messages')
    BY FS_AddElement DEF ChatInv, MessagesOK
  <2> QED BY <1>2, <2>1 DEF ChatInv, MessagesOK
<1>4. \A call, at : (AnswerDue(call, at) => AnswerDue(call, at)') /\ (QuestionStored(call, at) => QuestionStored(call, at)')
  BY DEF AnswerDue, QuestionStored
<1>5. AnswersStored'
  BY <1>4 DEF ChatInv, AnswersStored, AnswerDue
<1>6. CallsDiffer'
  BY DEF ChatInv, SendersOK, CallsDiffer
<1>7. ASSUME NEW t \in Senders, t # s PROVE SenderOK(send[t])'
  <2>1. send'[t] = send[t] /\ SenderOK(send[t])
    BY <1>7 DEF ChatInv, SendersOK
  <2>2. send[t].pc \in Unsaved => send[t].call # m.call
    BY <1>7 DEF ChatInv, CallsDiffer, Unsaved
  <2>3. send[t].pc \in Unsaved => \A q \in messages' : q.call # send[t].call
    BY <2>1, <2>2 DEF SenderOK
  <2> QED BY SMTT(30), <1>4, <2>1, <2>3 DEF SenderOK, HistoryOK
<1>8. SenderOK(send[s])'
  <2>1. send'[s] = w
    BY DEF ChatInv, SendersOK
  <2>2. QuestionStored(w.call, w.at)'
    BY <1>2, <1>4 DEF QuestionStored
  <2>3. w.pc \notin Unsaved /\ w.pc # "idle"
    BY DEF Unsaved, Asked, Streaming
  <2> QED BY SMTT(30), <1>1, <1>2, <2>1, <2>2, <2>3 DEF SenderOK, HistoryOK
<1>9. SendersOK'
  BY <1>7, <1>8 DEF ChatInv, SendersOK
<1> QED BY <1>3, <1>5, <1>6, <1>9 DEF ChatInv

\* One lemma for each kind of step: what is left to show is what the handler
\* knows afterwards.
LEMMA LoadStep == ASSUME ChatInv, NEW s \in Senders, LoadRow(s) PROVE ChatInv'
<1> DEFINE w == [NoSend EXCEPT !.pc = "loadMessages", !.call = sends + 1, !.first = row.empty]
<1>1. /\ send' = [send EXCEPT ![s] = w] /\ sends' = sends + 1 /\ UNCHANGED <<messages, latest>>
      /\ sends \in Nat /\ latest \in Nat
  BY DEF LoadRow, ChatInv, MessagesOK
<1>2. /\ DOMAIN w = {"pc", "call", "first", "at", "history", "prompt", "left", "queued"}
      /\ w.pc = "loadMessages" /\ w.call = sends + 1 /\ w.at = 0
  BY DEF NoSend
<1> HIDE DEF w
<1>3. \A m \in messages : m.call \in 1..sends
  BY DEF ChatInv, MessagesOK
<1>4. MessagesOK' /\ AnswersStored'
  BY <1>1 DEF ChatInv, MessagesOK, AnswersStored, AnswerDue
<1>5. \A t \in Senders : send[t].pc # "idle" => send[t].call \in 1..sends
  BY DEF ChatInv, SendersOK, SenderOK
<1>6. CallsDiffer'
  BY <1>1, <1>2, <1>5 DEF ChatInv, SendersOK, CallsDiffer
<1>7. SenderOK(send[s])'
  BY <1>1, <1>2, <1>3 DEF ChatInv, SendersOK, SenderOK, Unsaved, Asked, Loaded, Streaming
<1>8. ASSUME NEW t \in Senders, t # s PROVE SenderOK(send[t])'
  BY <1>1, <1>8 DEF ChatInv, SendersOK, SenderOK, QuestionStored, AnswerDue
<1> QED BY <1>1, <1>4, <1>6, <1>7, <1>8 DEF ChatInv, SendersOK

LEMMA FinishStep ==
  ASSUME ChatInv, NEW s \in Senders, Finish(s), UNCHANGED <<messages, latest, sends>>
  PROVE  ChatInv'
<1>1. send' = [send EXCEPT ![s] = NoSend] /\ latest' \in Nat
  BY DEF Finish, ChatInv, MessagesOK
<1> QED BY <1>1, NoSendOK, QuietStep

\* A step that only moves on, or also counts tokens.
LEMMA MoveStep ==
  ASSUME ChatInv, NEW s \in Senders, NEW w, send' = [send EXCEPT ![s] = w], send[s].pc # "idle",
         DOMAIN w = DOMAIN send[s], w.call = send[s].call, w.at = send[s].at, w.history = send[s].history,
         \/ send[s].pc = "countUser" /\ w.pc = "prompt"
         \/ send[s].pc \in Asked /\ w.pc \in Asked \ (Loaded \cup {"saveAssistant"})
         \/ w.pc = send[s].pc /\ w.prompt = send[s].prompt,
         UNCHANGED <<messages, latest, sends>>
  PROVE  ChatInv'
<1>1. SenderOK(send[s]) /\ latest' \in Nat
  BY DEF ChatInv, SendersOK, MessagesOK
<1>2. SenderOK(w)
  BY <1>1 DEF SenderOK, Unsaved, Asked, Loaded, Streaming
<1> QED BY <1>1, <1>2, QuietStep

LEMMA LoadMessagesStep == ASSUME ChatInv, NEW s \in Senders, LoadMessages(s) PROVE ChatInv'
<1>1. CASE Finish(s)
  BY <1>1, FinishStep DEF LoadMessages
<1>2. ASSUME NEW h \in InOrder(messages), send' = [send EXCEPT ![s].pc = "stampUser", ![s].history = h]
      PROVE  ChatInv'
  <2> DEFINE w == [send[s] EXCEPT !.pc = "stampUser", !.history = h]
  <2>1. send' = [send EXCEPT ![s] = w] /\ UNCHANGED <<messages, latest, sends>> /\ send[s].pc = "loadMessages"
    BY <1>2 DEF LoadMessages, AtSend
  <2>2. SenderOK(send[s]) /\ latest' \in Nat
    BY <2>1 DEF ChatInv, SendersOK, MessagesOK
  <2>3. w.pc = "stampUser" /\ w.history = h /\ w.call = send[s].call /\ w.at = send[s].at /\ DOMAIN w = DOMAIN send[s]
    BY <2>2 DEF SenderOK
  <2> HIDE DEF w
  <2>4. \A m \in messages : m.call # send[s].call
    BY <2>1, <2>2 DEF SenderOK, Unsaved
  <2>5. HistoryOK(h, w.call)
    BY <2>3, <2>4, OrderedHistory DEF ChatInv
  <2>6. SenderOK(w)
    BY <2>1, <2>2, <2>3, <2>5 DEF SenderOK, Unsaved, Asked, Loaded, Streaming
  <2> QED BY <2>1, <2>2, <2>3, <2>6, QuietStep
<1> QED BY <1>1, <1>2 DEF LoadMessages

\* A handler takes a later time than it took before.
LEMMA StampStep ==
  ASSUME ChatInv, NEW s \in Senders, NEW from, NEW to, Stamp(s, from, to),
         \/ from = "stampUser" /\ to = "saveUser"
         \/ from = "stampAssistant" /\ to = "saveAssistant"
  PROVE  ChatInv'
<1>1. PICK taken \in {latest, latest + 1} :
        taken > send[s].at /\ latest' = taken /\ send' = [send EXCEPT ![s].pc = to, ![s].at = taken]
  BY DEF Stamp
<1> DEFINE w == [send[s] EXCEPT !.pc = to, !.at = taken]
<1>2. send' = [send EXCEPT ![s] = w] /\ UNCHANGED <<messages, sends>> /\ send[s].pc = from
  BY <1>1 DEF Stamp, AtSend
<1>3. SenderOK(send[s]) /\ taken \in Nat /\ latest' \in Nat
  BY <1>1 DEF ChatInv, SendersOK, MessagesOK
<1>4. /\ w.pc = to /\ w.at = taken /\ w.call = send[s].call /\ w.history = send[s].history
      /\ DOMAIN w = DOMAIN send[s]
  BY <1>3 DEF SenderOK
<1> HIDE DEF w
<1>5. SenderOK(w)
  <2>1. CASE from = "stampUser" /\ to = "saveUser"
    BY <1>2, <1>3, <1>4, <2>1 DEF SenderOK, Unsaved, Asked, Loaded, Streaming
  <2>2. CASE from = "stampAssistant" /\ to = "saveAssistant"
    <3>1. PICK q \in messages : q.role = "user" /\ q.call = send[s].call /\ q.at <= send[s].at
      BY <1>2, <1>3, <2>2 DEF SenderOK, QuestionStored, Asked
    <3>2. q.at \in Nat /\ send[s].at \in Nat
      BY <1>3 DEF ChatInv, MessagesOK, Message, SenderOK
    <3>3. q.at < taken
      BY <1>1, <1>3, <3>1, <3>2
    <3>4. QuestionStored(w.call, w.at) /\ AnswerDue(w.call, w.at)
      BY <1>3, <1>4, <3>1, <3>2, <3>3 DEF QuestionStored, AnswerDue
    <3> QED BY <1>2, <1>3, <1>4, <2>2, <3>4 DEF SenderOK, Unsaved, Asked, Loaded, Streaming
  <2> QED BY <2>1, <2>2
<1> QED BY <1>2, <1>3, <1>4, <1>5, QuietStep

LEMMA AskStep == ASSUME ChatInv, NEW s \in Senders, Ask(s) PROVE ChatInv'
<1>1. PICK m \in ChatModels :
        LET pc == CASE apiKeys = {} -> "simulation" [] apiKeys # {} -> ClientFor(m)
        IN send' = [send EXCEPT ![s].pc = pc, ![s].prompt = Prompt(s), ![s].left = Tokens]
  BY DEF Ask
<1> DEFINE pc == CASE apiKeys = {} -> "simulation" [] apiKeys # {} -> ClientFor(m)
           w  == [send[s] EXCEPT !.pc = pc, !.prompt = Prompt(s), !.left = Tokens]
<1>2. send' = [send EXCEPT ![s] = w] /\ UNCHANGED <<messages, latest, sends>> /\ send[s].pc = "prompt"
  BY ZenonT(40), <1>1 DEF Ask, AtSend
<1>3. pc \in Streaming \cup {"none"}
  BY DEF ClientFor, Streaming
<1> HIDE DEF pc
<1>4. SenderOK(send[s]) /\ latest' \in Nat
  BY <1>2 DEF ChatInv, SendersOK, MessagesOK
<1>5. /\ w.pc = pc /\ w.history = send[s].history /\ w.call = send[s].call /\ w.at = send[s].at
      /\ DOMAIN w = DOMAIN send[s]
      /\ w.prompt = Append(send[s].history, [role |-> "user", call |-> send[s].call, at |-> send[s].at])
  BY <1>4 DEF SenderOK, Prompt, Question
<1> HIDE DEF w
<1>6. SenderOK(w)
  BY <1>2, <1>3, <1>4, <1>5 DEF SenderOK, Unsaved, Asked, Loaded, Streaming
<1> QED BY <1>2, <1>4, <1>5, <1>6, QuietStep

LEMMA SaveUserStep == ASSUME ChatInv, NEW s \in Senders, SaveUser(s) PROVE ChatInv'
<1>1. CASE Finish(s) /\ UNCHANGED messages
  BY <1>1, FinishStep DEF SaveUser
<1>2. CASE Insert(Question(s)) /\ Next0(s, "countUser")
  <2> DEFINE w == [send[s] EXCEPT !.pc = "countUser"]
             m == Question(s)
  <2>1. send' = [send EXCEPT ![s] = w] /\ messages' = messages \cup {m}
        /\ UNCHANGED <<latest, sends>> /\ send[s].pc = "saveUser"
    BY <1>2 DEF SaveUser, AtSend, Insert, Next0
  <2>2. SenderOK(send[s])
    BY DEF ChatInv, SendersOK
  <2>3. /\ w.pc = "countUser" /\ w.history = send[s].history /\ w.call = send[s].call /\ w.at = send[s].at
        /\ DOMAIN w = DOMAIN send[s]
    BY <2>2 DEF SenderOK
  <2> HIDE DEF w
  <2>4. m \in Message /\ m.role = "user" /\ m.call = send[s].call /\ m.at = w.at
    BY <2>1, <2>2, <2>3 DEF SenderOK, Question, Message, ChatInv, MessagesOK
  <2>5. w.pc \in Asked /\ w.pc # "saveAssistant" /\ w.pc \notin Streaming /\ "user" # "assistant"
    BY <2>3 DEF Asked, Streaming
  <2>6. HistoryOK(w.history, w.call)
    BY <2>1, <2>2, <2>3 DEF SenderOK, Loaded
  <2> HIDE DEF m
  <2> QED BY <2>1, <2>3, <2>4, <2>5, <2>6, InsertStep
<1> QED BY <1>1, <1>2 DEF SaveUser

LEMMA SaveAssistantStep == ASSUME ChatInv, NEW s \in Senders, SaveAssistant(s) PROVE ChatInv'
<1>1. send[s].pc = "saveAssistant" /\ UNCHANGED <<latest, sends>> /\ SenderOK(send[s])
  BY DEF SaveAssistant, AtSend, ChatInv, SendersOK
<1>2. CASE Insert(Answer(s)) /\ Next0(s, "countAssistant")
  <2> DEFINE w == [send[s] EXCEPT !.pc = "countAssistant"]
             m == Answer(s)
  <2>1. send' = [send EXCEPT ![s] = w] /\ messages' = messages \cup {m}
    BY <1>2 DEF Next0, Insert
  <2>2. w.pc = "countAssistant" /\ w.call = send[s].call /\ w.at = send[s].at /\ DOMAIN w = DOMAIN send[s]
    BY <1>1 DEF SenderOK
  <2> HIDE DEF w
  <2>3. m \in Message /\ m.call = send[s].call /\ m.at = send[s].at
    BY <1>1 DEF SenderOK, Answer, Message, ChatInv, MessagesOK
  <2>4. w.pc \in Asked /\ w.pc \notin Streaming /\ w.pc \notin Loaded /\ w.pc # "saveAssistant"
    BY <2>2 DEF Asked, Loaded, Streaming
  <2>5. AnswerDue(m.call, m.at) /\ QuestionStored(w.call, w.at)
    BY <1>1, <2>2, <2>3 DEF SenderOK, Asked
  <2> HIDE DEF m
  <2> QED BY <1>1, <2>1, <2>2, <2>3, <2>4, <2>5, InsertStep
<1>3. CASE UNCHANGED messages /\ Next0(s, "title")
  <2> DEFINE w == [send[s] EXCEPT !.pc = "title"]
  <2>1. send' = [send EXCEPT ![s] = w]
    BY <1>3 DEF Next0
  <2>2. /\ w.pc = "title" /\ w.history = send[s].history /\ w.call = send[s].call /\ w.at = send[s].at
        /\ DOMAIN w = DOMAIN send[s]
    BY <1>1 DEF SenderOK
  <2> HIDE DEF w
  <2>3. send[s].pc \in Asked /\ w.pc \in Asked \ (Loaded \cup {"saveAssistant"})
    BY <1>1, <2>2 DEF Asked, Loaded, Streaming
  <2> QED BY <1>1, <1>3, <2>1, <2>2, <2>3, MoveStep
<1> QED BY <1>2, <1>3 DEF SaveAssistant

LEMMA HandlerStep ==
  ASSUME ChatInv, NEW s \in Senders, SendSteps(s) \/ StreamSteps(s)
  PROVE  ChatInv'
<1> USE DEF AtSend
<1>1. SenderOK(send[s])
  BY DEF ChatInv, SendersOK
<1>3. ASSUME NEW pc, Next0(s, pc),
             \/ send[s].pc = "countUser" /\ pc = "prompt"
             \/ send[s].pc \in Asked /\ pc \in Asked \ (Loaded \cup {"saveAssistant"}),
             UNCHANGED <<messages, latest, sends>>
      PROVE  ChatInv'
  <2> DEFINE w == [send[s] EXCEPT !.pc = pc]
  <2>1. send' = [send EXCEPT ![s] = w]
    BY <1>3 DEF Next0
  <2>2. /\ w.pc = pc /\ w.history = send[s].history /\ w.call = send[s].call /\ w.at = send[s].at
        /\ DOMAIN w = DOMAIN send[s]
    BY <1>1 DEF SenderOK
  <2> HIDE DEF w
  <2>3. send[s].pc # "idle"
    BY <1>3 DEF Asked, Streaming
  <2> QED BY <1>3, <2>1, <2>2, <2>3, MoveStep
<1>4. ASSUME NEW w, send' = [send EXCEPT ![s] = w], send[s].pc \in Streaming, DOMAIN w = DOMAIN send[s],
             w.call = send[s].call, w.at = send[s].at, w.history = send[s].history, w.prompt = send[s].prompt,
             w.pc = send[s].pc, UNCHANGED <<messages, latest, sends>>
      PROVE  ChatInv'
  BY <1>4, MoveStep DEF Streaming
<1>5. ASSUME Completed(s), send[s].pc \in Streaming, UNCHANGED <<messages, latest, sends>>
      PROVE  ChatInv'
  <2> DEFINE w == [send[s] EXCEPT !.pc = "stampAssistant", !.history = <<>>, !.prompt = <<>>, !.left = 0]
  <2>1. send' = [send EXCEPT ![s] = w]
    BY <1>5 DEF Completed
  <2>2. w.pc = "stampAssistant" /\ w.call = send[s].call /\ w.at = send[s].at /\ DOMAIN w = DOMAIN send[s]
    BY <1>1 DEF SenderOK
  <2> HIDE DEF w
  <2>3. SenderOK(w) /\ latest' \in Nat
    BY <1>1, <1>5, <2>2 DEF SenderOK, Unsaved, Asked, Loaded, Streaming, ChatInv, MessagesOK
  <2>4. send[s].pc # "idle"
    BY <1>5 DEF Streaming
  <2> QED BY <1>5, <2>1, <2>2, <2>3, <2>4, QuietStep
<1>6. CASE CountUser(s)
  <2>1. CASE Next0(s, "prompt")
    BY <1>3, <1>6, <2>1 DEF CountUser
  <2>2. CASE Finish(s)
    BY <1>6, <2>2, FinishStep DEF CountUser
  <2> QED BY <1>6, <2>1, <2>2 DEF CountUser
<1>7. CASE CountAssistant(s)
  <2>1. send[s].pc \in Asked /\ "title" \in Asked \ (Loaded \cup {"saveAssistant"})
    BY <1>7 DEF CountAssistant, Asked, Loaded, Streaming
  <2> QED BY <1>3, <1>7, <2>1 DEF CountAssistant
<1>8. CASE AutoTitle(s)
  BY <1>8, FinishStep DEF AutoTitle
<1>9. CASE GiveUp(s)
  BY <1>9, FinishStep DEF GiveUp
<1>10. CASE OpenAIStream(s) \/ AnthropicStream(s)
  <2>1. send[s].pc \in Streaming /\ UNCHANGED <<messages, latest, sends>>
    BY <1>10 DEF OpenAIStream, AnthropicStream, Streaming
  <2>2. CASE Wrote(s)
    <3> DEFINE w == [send[s] EXCEPT !.left = @ - 1]
    <3>1. send' = [send EXCEPT ![s] = w]
      BY <2>2 DEF Wrote
    <3>2. /\ w.pc = send[s].pc /\ w.call = send[s].call /\ w.at = send[s].at /\ w.history = send[s].history
          /\ w.prompt = send[s].prompt /\ DOMAIN w = DOMAIN send[s]
      OBVIOUS
    <3> HIDE DEF w
    <3> QED BY <1>4, <2>1, <3>1, <3>2
  <2> QED BY <1>5, <1>10, <2>1, <2>2 DEF OpenAIStream, AnthropicStream
<1>11. CASE Produce(s)
  <2> DEFINE w == [send[s] EXCEPT !.left = @ - 1, !.queued = @ + 1]
  <2>1. send' = [send EXCEPT ![s] = w] /\ send[s].pc \in Streaming /\ UNCHANGED <<messages, latest, sends>>
    BY <1>11 DEF Produce, Streaming
  <2>2. /\ w.pc = send[s].pc /\ w.call = send[s].call /\ w.at = send[s].at /\ w.history = send[s].history
        /\ w.prompt = send[s].prompt /\ DOMAIN w = DOMAIN send[s]
    OBVIOUS
  <2> HIDE DEF w
  <2> QED BY <1>4, <2>1, <2>2
<1>12. CASE WriteToken(s)
  <2>1. CASE Finish(s)
    BY <1>12, <2>1, FinishStep DEF WriteToken
  <2>2. CASE send' = [send EXCEPT ![s].queued = @ - 1]
    <3> DEFINE w == [send[s] EXCEPT !.queued = @ - 1]
    <3>1. send' = [send EXCEPT ![s] = w] /\ send[s].pc \in Streaming /\ UNCHANGED <<messages, latest, sends>>
      BY <1>12, <2>2 DEF WriteToken, Streaming
    <3>2. /\ w.pc = send[s].pc /\ w.call = send[s].call /\ w.at = send[s].at /\ w.history = send[s].history
          /\ w.prompt = send[s].prompt /\ DOMAIN w = DOMAIN send[s]
      OBVIOUS
    <3> HIDE DEF w
    <3> QED BY <1>4, <3>1, <3>2
  <2> QED BY <1>12, <2>1, <2>2 DEF WriteToken
<1>13. CASE SimulationEnds(s)
  BY <1>5, <1>13 DEF SimulationEnds, Streaming
<1>14. CASE StampUser(s) \/ StampAssistant(s)
  BY <1>14, StampStep DEF StampUser, StampAssistant
<1> QED
  BY <1>6, <1>7, <1>8, <1>9, <1>10, <1>11, <1>12, <1>13, <1>14, LoadStep, LoadMessagesStep, SaveUserStep, AskStep,
     SaveAssistantStep DEF SendSteps, StreamSteps

LEMMA ChatInductive == ChatInv /\ [ChatNext /\ UNCHANGED apiKeys]_<<chatVars, apiKeys>> => ChatInv'
<1> SUFFICES ASSUME ChatInv, ChatNext \/ UNCHANGED chatVars PROVE ChatInv'
  OBVIOUS
<1>1. CASE \E s \in Senders : SendSteps(s) \/ StreamSteps(s)
  BY <1>1, HandlerStep
<1>2. CASE Rename \/ Delete \/ UNCHANGED chatVars
  <2>1. UNCHANGED <<messages, latest, send, sends>>
    BY <1>2 DEF Rename, Delete, chatVars
  <2> QED BY <2>1 DEF ChatInv, MessagesOK, SendersOK, SenderOK, QuestionStored, AnswerDue, CallsDiffer, AnswersStored
<1> QED BY <1>1, <1>2 DEF ChatNext

\* For any senders, models and lengths of answers, and although everybody
\* works on what the conversation was when it was loaded, and messages are
\* stored in another order than that of their times, a model is asked each
\* question once, as the last of a prompt in which every answer follows its
\* question; and so does every answer that is stored, deleted or not
\* (chat_handlers.go:215, 232, chat_repository.go:28).
THEOREM EachAskedOnce == ChatSpec => []AskedOnce
<1>1. ChatInv => AskedOnce
  <2> SUFFICES ASSUME ChatInv PROVE AskedOnce
    OBVIOUS
  <2>1. ASSUME NEW s \in Senders, send[s].pc \in Streaming
        PROVE  LET p == send[s].prompt
               IN /\ p # <<>> /\ Last(p) = Question(s)
                  /\ \A i \in DOMAIN Front(p) : p[i].call # send[s].call
                  /\ IsInjective(p) /\ AnswersFollow(p)
    <3> DEFINE h == send[s].history
               p == send[s].prompt
               q == Question(s)
               n == Len(h)
    <3>1. /\ h \in Seq(Message) /\ p = Append(h, q) /\ n \in Nat
          /\ \A i \in 1..n : h[i].call # send[s].call
          /\ IsInjective(h) /\ AnswersFollow(h)
          /\ q.role = "user" /\ q.call = send[s].call
      BY <2>1 DEF ChatInv, SendersOK, SenderOK, Loaded, HistoryOK, Question
    <3>2. DOMAIN h = 1..n
      BY <3>1
    <3> HIDE DEF h, p, q
    <3>3. /\ Front(p) = h /\ Last(p) = q /\ p # <<>> /\ DOMAIN p = 1..(n + 1) /\ p[n + 1] = q
          /\ \A i \in 1..n : p[i] = h[i]
      BY <3>1, FrontOfAppend
    <3> HIDE DEF n
    <3>4. \A i \in 1..(n + 1) : i \in 1..n \/ i = n + 1
      BY <3>1
    <3>5. \A i \in 1..n : p[i].call # send[s].call /\ p[i] # q
      BY <3>1, <3>3
    <3>6. IsInjective(p)
      <4>1. \A i, j \in 1..n : h[i] = h[j] => i = j
        BY <3>1, <3>2 DEF IsInjective
      <4>2. \A i, j \in 1..(n + 1) : p[i] = p[j] => i = j
        BY <3>3, <3>4, <3>5, <4>1
      <4> QED BY <3>3, <4>2 DEF IsInjective
    <3>7. AnswersFollow(p)
      <4>1. ASSUME NEW i \in 1..(n + 1), p[i].role = "assistant"
            PROVE  \E j \in 1..(i - 1) : p[j].role = "user" /\ p[j].call = p[i].call
        <5>1. i \in 1..n
          BY <3>1, <3>3, <3>4, <4>1
        <5>2. PICK j \in 1..(i - 1) : h[j].role = "user" /\ h[j].call = h[i].call
          BY <3>1, <3>2, <3>3, <4>1, <5>1 DEF AnswersFollow
        <5>3. j \in 1..n
          BY <3>1, <5>1, <5>2
        <5> QED BY <3>3, <5>1, <5>2, <5>3
      <4> QED BY <3>3, <4>1 DEF AnswersFollow
    <3> QED BY <3>2, <3>3, <3>5, <3>6, <3>7 DEF p, q
  <2>2. \A a \in messages : a.role = "assistant" =>
          \E q \in messages : q.role = "user" /\ q.call = a.call /\ q.at < a.at
    BY DEF ChatInv, AnswersStored, AnswerDue
  <2> QED BY <2>1, <2>2 DEF AskedOnce, Streaming
<1> QED BY <1>1, ChatInitially, ChatInductive, PTL DEF ChatSpec

-----------------------------------------------------------------------------
(* Accounts and API keys.                                                  *)

\* Rows that are numbered from 1.
Ids(T) == {r.id : r \in T}
Numbered(T) == /\ \E n \in Nat : Ids(T) = 1..n
               /\ \A r, q \in T : r.id = q.id => r = q

LEMMA NumberedCount ==
  ASSUME NEW T, Numbered(T)
  PROVE  Cardinality(T) \in Nat /\ Ids(T) = 1..Cardinality(T)
<1>1. PICK n \in Nat : Ids(T) = 1..n
  BY DEF Numbered
<1> DEFINE f == [r \in T |-> r.id]
<1>2. f \in [T -> 1..n] /\ \A r, q \in T : f[r] = f[q] => r = q
  BY <1>1 DEF Numbered, Ids
<1>3. \A i \in 1..n : \E r \in T : f[r] = i
  BY <1>1 DEF Ids
<1> HIDE DEF f
<1>4. f \in Injection(T, 1..n) /\ f \in Surjection(T, 1..n)
  BY <1>2, <1>3 DEF Injection, Surjection, IsInjective
<1>5. IsFiniteSet(1..n) /\ Cardinality(1..n) = n
  BY FS_Interval
<1>6. Cardinality(T) = n
  BY <1>4, <1>5, FS_Injection
<1> QED BY <1>1, <1>6

LEMMA NumberedMore ==
  ASSUME NEW T, Numbered(T), NEW row0, row0.id = Cardinality(T) + 1
  PROVE  Numbered(T \cup {row0}) /\ \A r \in T : r.id # row0.id
<1> DEFINE n == Cardinality(T)
<1>1. n \in Nat /\ Ids(T) = 1..n
  BY NumberedCount
<1>2. \A r \in T : r.id \in 1..n
  BY <1>1 DEF Ids
<1>3. \A r \in T : r.id # row0.id
  BY <1>1, <1>2
<1>4. Ids(T \cup {row0}) = Ids(T) \cup {n + 1}
  BY DEF Ids
<1>5. Ids(T \cup {row0}) = 1..(n + 1)
  <2>1. n + 1 \in Nat /\ (1..n) \cup {n + 1} = 1..(n + 1)
    BY <1>1
  <2> HIDE DEF n
  <2> QED BY <1>1, <1>4, <2>1
<1>6. n + 1 \in Nat /\ \A r, q \in T : r.id = q.id => r = q
  BY <1>1 DEF Numbered
<1>7. \A r, q \in T \cup {row0} : r.id = q.id => r = q
  BY <1>3, <1>6
<1> HIDE DEF n
<1> QED BY <1>3, <1>5, <1>6, <1>7 DEF Numbered

\* An update of rows keeps their numbers.
LEMMA NumberedKept ==
  ASSUME NEW T, Numbered(T), NEW U, Ids(U) = Ids(T), \A r, q \in U : r.id = q.id => r = q
  PROVE  Numbered(U)
BY DEF Numbered

LEMMA ToLowerTwice == \A e : ToLower(ToLower(e)) = ToLower(e)
BY DEF ToLower

UserColumns == {"id", "email", "name", "link", "active", "edited"}
KeyColumns == {"id", "owner", "active", "life"}
JobFields == {"pc", "op", "email", "name", "link", "user", "key", "active", "life"}

\* Whoever has an identity whose provider shows an address has this address.
Belongs(link, email) ==
  ShowsAddress(link) => \A p \in Profiles : p.link = link => ToLower(p.email) = email

UsersInv ==
  /\ Numbered(users)
  /\ \A u \in users : DOMAIN u = UserColumns /\ (~u.edited => ToLower(u.email) = u.email /\ Belongs(u.link, u.email))
  /\ Unique(users)

KeysInv == Numbered(keys) /\ \A k \in keys : DOMAIN k = KeyColumns

\* What a handler still knows of its user: the address goes with the
\* identity, and the account that it found has the address, unless its user
\* has edited it since.
JobsInv ==
  /\ DOMAIN job = Sessions
  /\ \A h \in Sessions :
       /\ DOMAIN job[h] = JobFields
       /\ Belongs(job[h].link, ToLower(job[h].email))
       /\ job[h].pc = "link" => \E u \in users : u.id = job[h].user /\ (u.edited \/ u.email = ToLower(job[h].email))

AccountsInv == UsersInv /\ KeysInv /\ JobsInv

LEMMA NoIdentityShowsNothing == \A email : Belongs(NoIdentity, email)
BY AccountParameters DEF Belongs, ShowsAddress

LEMMA RestingIsFine == DOMAIN Resting = JobFields /\ Resting.link = NoIdentity /\ Resting.pc = "rest"
BY DEF Resting, JobFields

LEMMA AccountsInitially == NoAccounts => AccountsInv
<1> SUFFICES ASSUME NoAccounts PROVE AccountsInv
  OBVIOUS
<1>1. users = Existing /\ keys = {} /\ job = [h \in Sessions |-> Resting]
  BY DEF NoAccounts
<1>2. Cardinality(Existing) \in Nat
  BY AccountParameters, FS_CardinalityType
<1>3. Numbered(Existing)
  BY <1>2, AccountParameters DEF Numbered, Ids
<1>4. \A u \in Existing : Belongs(u.link, u.email)
  BY AccountParameters DEF Belongs, ShowsAddress
<1>5. UsersInv
  BY <1>1, <1>3, <1>4, AccountParameters DEF UsersInv, UserColumns, Unique
<1>6. Ids({}) = 1..0
  BY DEF Ids
<1>7. KeysInv
  BY <1>1, <1>6 DEF KeysInv, Numbered
<1>8. JobsInv
  BY <1>1, RestingIsFine, NoIdentityShowsNothing DEF JobsInv
<1> QED BY <1>5, <1>7, <1>8 DEF AccountsInv

-----------------------------------------------------------------------------
\* A step of a handler that finds something out and changes no table.
LEMMA JobStep ==
  ASSUME AccountsInv, NEW h \in Sessions, NEW j, job' = [job EXCEPT ![h] = j], UNCHANGED <<users, keys>>,
         DOMAIN j = JobFields, Belongs(j.link, ToLower(j.email)),
         j.pc = "link" => \E u \in users : u.id = j.user /\ (u.edited \/ u.email = ToLower(j.email))
  PROVE  AccountsInv'
BY DEF AccountsInv, UsersInv, KeysInv, JobsInv, Unique

\* A step that goes on with the same address and identity, or to rest.
LEMMA GoStep ==
  ASSUME AccountsInv, NEW h \in Sessions, NEW pc, pc # "link", GoTo(h, pc) \/ Rest(h), UNCHANGED <<users, keys>>
  PROVE  AccountsInv'
<1>1. CASE Rest(h)
  <2>1. job' = [job EXCEPT ![h] = Resting]
    BY <1>1 DEF Rest
  <2>2. Belongs(Resting.link, ToLower(Resting.email)) /\ Resting.pc # "link"
    BY RestingIsFine, NoIdentityShowsNothing
  <2> QED BY <2>1, <2>2, RestingIsFine, JobStep
<1>2. CASE GoTo(h, pc)
  <2> DEFINE j == [job[h] EXCEPT !.pc = pc]
  <2>1. job' = [job EXCEPT ![h] = j]
    BY <1>2 DEF GoTo
  <2>2. DOMAIN j = JobFields /\ j.pc = pc /\ j.link = job[h].link /\ j.email = job[h].email
    BY DEF AccountsInv, JobsInv, JobFields
  <2>3. Belongs(j.link, ToLower(j.email))
    BY <2>2 DEF AccountsInv, JobsInv
  <2> HIDE DEF j
  <2> QED BY <2>1, <2>2, <2>3, JobStep
<1> QED BY <1>1, <1>2

\* A call that begins.
LEMMA BeginStep ==
  ASSUME AccountsInv, NEW h \in Sessions, NEW j, Begin(h, j), UNCHANGED <<users, keys>>,
         DOMAIN j = JobFields, j.link = NoIdentity, j.pc # "link"
  PROVE  AccountsInv'
<1>1. job' = [job EXCEPT ![h] = j]
  BY DEF Begin
<1>2. Belongs(j.link, ToLower(j.email))
  BY NoIdentityShowsNothing
<1> QED BY <1>1, <1>2, JobStep

\* Each user is still there, with the address unless it has been edited.
UsersStay == \A u \in users : \E v \in users' : v.id = u.id /\ (v.edited \/ (~u.edited /\ v.email = u.email))

\* A handler that ends, and leaves the addresses of all users in place.
LEMMA JobsRest ==
  ASSUME AccountsInv, NEW h \in Sessions, Rest(h) \/ GoTo(h, "rotateCreate"),
         UsersStay
  PROVE  JobsInv'
<1>1. DOMAIN job' = Sessions /\ \A g \in Sessions : g # h => job'[g] = job[g]
  BY DEF Rest, GoTo, AccountsInv, JobsInv
<1>2. job'[h] = Resting \/ job'[h] = [job[h] EXCEPT !.pc = "rotateCreate"]
  BY DEF Rest, GoTo, AccountsInv, JobsInv
<1>3. DOMAIN job'[h] = JobFields /\ Belongs(job'[h].link, ToLower(job'[h].email)) /\ job'[h].pc # "link"
  <2>1. CASE job'[h] = Resting
    BY <2>1, RestingIsFine, NoIdentityShowsNothing
  <2>2. CASE job'[h] = [job[h] EXCEPT !.pc = "rotateCreate"]
    BY <2>2 DEF AccountsInv, JobsInv, JobFields
  <2> QED BY <1>2, <2>1, <2>2
<1>4. ASSUME NEW g \in Sessions, g # h
      PROVE  job'[g].pc = "link" => \E u \in users' : u.id = job'[g].user /\ (u.edited \/ u.email = ToLower(job'[g].email))
  BY <1>1, <1>4 DEF AccountsInv, JobsInv, UsersStay
<1> QED BY <1>1, <1>3, <1>4 DEF AccountsInv, JobsInv

-----------------------------------------------------------------------------
(* What a statement does to a table.                                       *)

LEMMA NumberedUpdate ==
  ASSUME NEW T, Numbered(T), NEW g, \A r \in T : g[r].id = r.id
  PROVE  Numbered({g[r] : r \in T})
<1>1. Ids({g[r] : r \in T}) = Ids(T)
  BY DEF Ids
<1>2. \A r, q \in {g[x0] : x0 \in T} : r.id = q.id => r = q
  BY DEF Numbered
<1> QED BY <1>1, <1>2, NumberedKept

\* No key wakes up.
KeysSleepOn == \A k \in keys : ~k.active => \A l \in keys' : l.id = k.id => ~l.active

LEMMA KeysUpdated ==
  ASSUME KeysInv, NEW g, keys' = {g[k] : k \in keys},
         \A k \in keys : g[k].id = k.id /\ DOMAIN g[k] = KeyColumns /\ (~k.active => ~g[k].active)
  PROVE  KeysInv' /\ KeysSleepOn
<1>1. Numbered(keys')
  BY NumberedUpdate DEF KeysInv
<1>2. KeysSleepOn
  BY DEF KeysInv, KeysSleepOn, Numbered
<1> QED BY <1>1, <1>2 DEF KeysInv

LEMMA KeysDeactivated ==
  ASSUME KeysInv, NEW ks \in SUBSET keys, keys' = Deactivated(ks)
  PROVE  KeysInv' /\ KeysSleepOn
<1> DEFINE g == [k \in keys |-> IF k \in ks THEN [k EXCEPT !.active = FALSE] ELSE k]
<1>1. keys' = {g[k] : k \in keys}
  BY DEF Deactivated, Revoked
<1>2. \A k \in keys : g[k].id = k.id /\ DOMAIN g[k] = KeyColumns /\ (~k.active => ~g[k].active)
  BY DEF KeysInv, KeyColumns
<1> HIDE DEF g
<1> QED BY <1>1, <1>2, KeysUpdated

LEMMA KeysAdded ==
  ASSUME KeysInv, NEW k0, keys' = keys \cup {k0}, k0.id = NextKeyId, DOMAIN k0 = KeyColumns
  PROVE  KeysInv' /\ KeysSleepOn
<1>1. Numbered(keys') /\ \A k \in keys : k.id # k0.id
  BY NumberedMore DEF KeysInv, NextKeyId
<1> QED BY <1>1 DEF KeysInv, KeysSleepOn, Numbered

LEMMA KeysSame == ASSUME KeysInv, keys' = keys PROVE KeysInv' /\ KeysSleepOn
BY DEF KeysInv, KeysSleepOn, Numbered

\* A user whose address and identity have not been edited keeps the address,
\* and the identity goes with it.
LEMMA UsersUpdated ==
  ASSUME UsersInv, NEW g, users' = {g[u] : u \in users},
         \A u \in users : /\ g[u].id = u.id /\ DOMAIN g[u] = UserColumns
                          /\ ~g[u].edited => ~u.edited /\ g[u].email = u.email /\ Belongs(g[u].link, u.email),
         Unique(users')
  PROVE  UsersInv' /\ UsersStay
<1>1. Numbered(users')
  BY NumberedUpdate DEF UsersInv
<1>2. \A u \in users' : DOMAIN u = UserColumns /\ (~u.edited => ToLower(u.email) = u.email /\ Belongs(u.link, u.email))
  BY DEF UsersInv
<1>3. UsersStay
  BY DEF UsersStay
<1> QED BY <1>1, <1>2, <1>3 DEF UsersInv

-----------------------------------------------------------------------------
(* The steps.                                                              *)

KeyOps == {"createKey", "revoke", "rotate", "deleteKey", "deactivate", "profile"}

LEMMA BeginSteps ==
  ASSUME AccountsInv, NEW h \in Sessions,
         \/ \E a \in Addresses, n \in UserNames : BeginRegister(h, a, n)
         \/ \E provider \in {"google", "github"} : OAuthRedirectHandler(h, provider)
         \/ \E k \in keys : ValidateRead(h, k)
         \/ \E op \in KeyOps, u \in users, k \in {0} \cup Ids(keys) : BeginKeyOp(h, op, u, k)
  PROVE  AccountsInv' /\ KeysSleepOn
<1>1. ASSUME NEW a \in Addresses, NEW n \in UserNames, BeginRegister(h, a, n) PROVE AccountsInv' /\ KeysSleepOn
  <2> DEFINE j == [Resting EXCEPT !.pc = "findEmail", !.op = "register", !.email = a, !.name = n]
  <2>1. Begin(h, j) /\ UNCHANGED <<users, keys>>
    BY <1>1 DEF BeginRegister
  <2>2. DOMAIN j = JobFields /\ j.link = NoIdentity /\ j.pc # "link"
    BY RestingIsFine DEF JobFields
  <2> HIDE DEF j
  <2> QED BY <2>1, <2>2, BeginStep, KeysSame DEF AccountsInv
<1>2. ASSUME NEW provider, OAuthRedirectHandler(h, provider) PROVE AccountsInv' /\ KeysSleepOn
  <2> DEFINE j == [Resting EXCEPT !.pc = "away", !.op = provider]
  <2>1. Begin(h, j) /\ UNCHANGED <<users, keys>>
    BY <1>2 DEF OAuthRedirectHandler
  <2>2. DOMAIN j = JobFields /\ j.link = NoIdentity /\ j.pc # "link"
    BY RestingIsFine DEF JobFields
  <2> HIDE DEF j
  <2> QED BY <2>1, <2>2, BeginStep, KeysSame DEF AccountsInv
<1>3. ASSUME NEW k \in keys, ValidateRead(h, k) PROVE AccountsInv' /\ KeysSleepOn
  <2> DEFINE j == [Resting EXCEPT !.pc = "used", !.key = k.id, !.active = k.active]
  <2>1. Begin(h, j) /\ UNCHANGED <<users, keys>>
    BY <1>3 DEF ValidateRead
  <2>2. DOMAIN j = JobFields /\ j.link = NoIdentity /\ j.pc # "link"
    BY RestingIsFine DEF JobFields
  <2> HIDE DEF j
  <2> QED BY <2>1, <2>2, BeginStep, KeysSame DEF AccountsInv
<1>4. ASSUME NEW op \in KeyOps, NEW u \in users, NEW k, BeginKeyOp(h, op, u, k) PROVE AccountsInv' /\ KeysSleepOn
  <2> DEFINE j == [Resting EXCEPT !.pc = op, !.op = op, !.user = u.id, !.key = k]
  <2>1. Begin(h, j) /\ UNCHANGED <<users, keys>>
    BY <1>4 DEF BeginKeyOp
  <2>2. DOMAIN j = JobFields /\ j.link = NoIdentity /\ j.pc # "link"
    BY RestingIsFine DEF JobFields, KeyOps
  <2> HIDE DEF j
  <2> QED BY <2>1, <2>2, BeginStep, KeysSame DEF AccountsInv
<1> QED BY <1>1, <1>2, <1>3, <1>4

LEMMA GetUserInfoStep == ASSUME AccountsInv, NEW h \in Sessions, getUserInfo(h) PROVE AccountsInv'
<1>1. UNCHANGED <<users, keys>>
  BY DEF getUserInfo
<1>2. CASE Rest(h)
  BY <1>1, <1>2, GoStep
<1>3. ASSUME NEW p \in Profiles, NEW info \in IF p.at = "google" THEN parseGoogleUser(p) ELSE parseGitHubUser(p),
             job' = [job EXCEPT ![h] = [@ EXCEPT !.pc = "findLink", !.link = info.link, !.email = info.email, !.name = info.name]]
      PROVE  AccountsInv'
  <2> DEFINE j == [job[h] EXCEPT !.pc = "findLink", !.link = info.link, !.email = info.email, !.name = info.name]
  <2>1. job' = [job EXCEPT ![h] = j]
    BY <1>3
  <2>2. DOMAIN j = JobFields /\ j.pc = "findLink" /\ j.link = info.link /\ j.email = info.email
    BY DEF AccountsInv, JobsInv, JobFields
  <2>3. info.link = p.link /\ (p.email # NoAddress => info.email = p.email)
    BY DEF parseGoogleUser, parseGitHubUser
  <2>4. Belongs(info.link, ToLower(info.email))
    BY <2>3 DEF Belongs, ShowsAddress
  <2> HIDE DEF j
  <2> QED BY <1>1, <2>1, <2>2, <2>4, JobStep
<1> QED BY <1>2, <1>3 DEF getUserInfo

LEMMA FindOwnerStep == ASSUME AccountsInv, NEW h \in Sessions, FindOwner(h) PROVE AccountsInv'
<1>1. UNCHANGED <<users, keys>>
  BY DEF FindOwner
<1>2. CASE GoTo(h, "freeName")
  BY <1>1, <1>2, GoStep
<1>3. ASSUME NEW u \in users, u.email = ToLower(job[h].email), job' = [job EXCEPT ![h].pc = "link", ![h].user = u.id]
      PROVE  AccountsInv'
  <2> DEFINE j == [job[h] EXCEPT !.pc = "link", !.user = u.id]
  <2>1. job' = [job EXCEPT ![h] = j]
    BY <1>3
  <2>2. DOMAIN j = JobFields /\ j.link = job[h].link /\ j.email = job[h].email /\ j.user = u.id
    BY DEF AccountsInv, JobsInv, JobFields
  <2>3. Belongs(j.link, ToLower(j.email))
    BY <2>2 DEF AccountsInv, JobsInv
  <2> HIDE DEF j
  <2> QED BY ZenonT(40), <1>1, <1>3, <2>1, <2>2, <2>3, JobStep
<1> QED BY <1>2, <1>3 DEF FindOwner

LEMMA FreeNameStep == ASSUME AccountsInv, NEW h \in Sessions, FreeName(h) PROVE AccountsInv'
<1>1. UNCHANGED <<users, keys>>
  BY DEF FreeName
<1>2. PICK n : job' = [job EXCEPT ![h].pc = "create", ![h].name = n]
  BY DEF FreeName
<1> DEFINE j == [job[h] EXCEPT !.pc = "create", !.name = n]
<1>3. job' = [job EXCEPT ![h] = j]
  BY <1>2
<1>4. DOMAIN j = JobFields /\ j.pc = "create" /\ j.link = job[h].link /\ j.email = job[h].email
  BY DEF AccountsInv, JobsInv, JobFields
<1>5. Belongs(j.link, ToLower(j.email))
  BY <1>4 DEF AccountsInv, JobsInv
<1> HIDE DEF j
<1> QED BY <1>1, <1>3, <1>4, <1>5, JobStep

LEMMA CreateUserStep == ASSUME AccountsInv, NEW h \in Sessions, CreateUser(h) PROVE AccountsInv'
<1> DEFINE email == ToLower(job[h].email)
           u0 == NewUser(h, email)
<1>1. Rest(h) /\ keys' = keys
      /\ users' = IF Clashes(email, job[h].name) THEN users ELSE users \cup {u0}
  BY DEF CreateUser
<1>2. UsersInv'
  <2>1. CASE Clashes(email, job[h].name)
    BY <1>1, <2>1 DEF AccountsInv, UsersInv, Numbered, Unique
  <2>2. CASE ~Clashes(email, job[h].name)
    <3>1. /\ u0.id = Cardinality(users) + 1 /\ u0.email = email /\ u0.name = job[h].name /\ u0.link = job[h].link
          /\ DOMAIN u0 = UserColumns /\ ~u0.edited
      BY DEF NewUser, UserColumns
    <3>2. ToLower(email) = email /\ Belongs(job[h].link, email)
      BY ToLowerTwice DEF AccountsInv, JobsInv
    <3>3. \A u \in users : u.email # email /\ u.name # job[h].name
      BY <2>2 DEF Clashes
    <3> HIDE DEF u0, email
    <3>4. users' = users \cup {u0}
      BY <1>1, <2>2
    <3>5. Numbered(users')
      BY <3>1, <3>4, NumberedMore DEF AccountsInv, UsersInv
    <3>6. Unique(users')
      BY <3>1, <3>3, <3>4 DEF AccountsInv, UsersInv, Unique
    <3> QED BY <3>1, <3>2, <3>4, <3>5, <3>6 DEF AccountsInv, UsersInv
  <2> QED BY <2>1, <2>2
<1>3. UsersStay
  BY <1>1 DEF UsersStay
<1>4. JobsInv'
  BY <1>1, <1>3, JobsRest
<1> QED BY <1>1, <1>2, <1>4, KeysSame DEF AccountsInv

LEMMA LinkUserStep == ASSUME AccountsInv, NEW h \in Sessions, LinkUser(h) PROVE AccountsInv'
<1>1. Rest(h) /\ keys' = keys /\ job[h].pc = "link"
  BY DEF LinkUser, Is
<1>2. CASE UNCHANGED users
  BY <1>1, <1>2, GoStep
<1>3. CASE users' = {IF u.id = job[h].user THEN [u EXCEPT !.link = job[h].link] ELSE u : u \in users}
  <2> DEFINE g == [u \in users |-> IF u.id = job[h].user THEN [u EXCEPT !.link = job[h].link] ELSE u]
  <2>1. users' = {g[u] : u \in users}
    BY <1>3
  <2>2. \A u \in users : u.id = job[h].user => u.edited \/ u.email = ToLower(job[h].email)
    BY <1>1 DEF AccountsInv, UsersInv, JobsInv, Numbered
  <2>3. Belongs(job[h].link, ToLower(job[h].email))
    BY DEF AccountsInv, JobsInv
  <2>4. ASSUME NEW u \in users
        PROVE  /\ g[u].id = u.id /\ g[u].email = u.email /\ g[u].name = u.name /\ g[u].edited = u.edited
               /\ DOMAIN g[u] = UserColumns /\ (~u.edited => Belongs(g[u].link, u.email))
    <3>1. DOMAIN u = UserColumns /\ (~u.edited => Belongs(u.link, u.email))
      BY DEF AccountsInv, UsersInv
    <3>2. CASE u.id = job[h].user
      <4>1. g[u] = [u EXCEPT !.link = job[h].link]
        BY <3>2
      <4>2. g[u].link = job[h].link /\ DOMAIN g[u] = UserColumns
        BY <3>1, <4>1 DEF UserColumns
      <4> HIDE DEF g
      <4> QED BY <2>2, <2>3, <3>1, <3>2, <4>1, <4>2 DEF UserColumns
    <3>3. CASE u.id # job[h].user
      BY <3>1, <3>3
    <3> QED BY <3>2, <3>3
  <2> HIDE DEF g
  <2>5. Unique(users')
    BY <2>1, <2>4 DEF AccountsInv, UsersInv, Unique
  <2>6. UsersInv' /\ UsersStay
    BY <2>1, <2>4, <2>5, UsersUpdated DEF AccountsInv
  <2>7. JobsInv'
    BY <1>1, <2>6, JobsRest
  <2> QED BY <1>1, <2>6, <2>7, KeysSame DEF AccountsInv
<1> QED BY <1>2, <1>3 DEF LinkUser

LEMMA DeactivateStep == ASSUME AccountsInv, NEW h \in Sessions, Deactivate(h) PROVE AccountsInv'
<1> DEFINE g == [u \in users |-> IF u.id = job[h].user THEN [u EXCEPT !.active = FALSE] ELSE u]
<1>1. Rest(h) /\ keys' = keys /\ users' = {g[u] : u \in users}
  BY DEF Deactivate
<1>2. \A u \in users : /\ g[u].id = u.id /\ g[u].email = u.email /\ g[u].name = u.name
                       /\ DOMAIN g[u] = UserColumns /\ g[u].link = u.link /\ g[u].edited = u.edited
                       /\ (~u.edited => Belongs(u.link, u.email))
  BY DEF AccountsInv, UsersInv, UserColumns
<1> HIDE DEF g
<1>3. Unique(users')
  BY <1>1, <1>2 DEF AccountsInv, UsersInv, Unique
<1>4. UsersInv' /\ UsersStay
  BY <1>1, <1>2, <1>3, UsersUpdated DEF AccountsInv
<1>5. JobsInv'
  BY <1>1, <1>4, JobsRest
<1> QED BY <1>1, <1>4, <1>5, KeysSame DEF AccountsInv

\* A profile keeps its number; if it still counts as not edited, it keeps its
\* address and identity too.
LEMMA UpdateProfileStep == ASSUME AccountsInv, NEW h \in Sessions, NEW w \in Updates, UpdateProfile(h, w) PROVE AccountsInv'
<1>1. Rest(h) /\ keys' = keys
  BY DEF UpdateProfile
<1>2. CASE UNCHANGED users
  BY <1>1, <1>2, GoStep
<1>3. CASE users' = {IF u.id = job[h].user THEN Written(u, w) ELSE u : u \in users} /\ Unique(users')
  <2> DEFINE g == [u \in users |-> IF u.id = job[h].user THEN Written(u, w) ELSE u]
  <2>1. users' = {g[u] : u \in users}
    BY <1>3
  <2>2. DOMAIN w \subseteq {"email", "name", "link", "active"}
    BY AccountParameters DEF Writable
  <2>3. ASSUME NEW u \in users
        PROVE  /\ g[u].id = u.id /\ DOMAIN g[u] = UserColumns
               /\ ~g[u].edited => ~u.edited /\ g[u].email = u.email /\ Belongs(g[u].link, u.email)
    <3>1. DOMAIN u = UserColumns /\ (~u.edited => Belongs(u.link, u.email))
      BY DEF AccountsInv, UsersInv
    <3>2. CASE u.id # job[h].user
      BY <3>1, <3>2
    <3>3. CASE u.id = job[h].user
      <4>1. g[u] = Written(u, w)
        BY <3>3
      <4>2. /\ DOMAIN Written(u, w) = UserColumns /\ Written(u, w).id = u.id
            /\ Written(u, w).edited = (u.edited \/ DOMAIN w \cap {"email", "link"} # {})
        BY <2>2, <3>1 DEF Written, UserColumns
      <4>3. CASE DOMAIN w \cap {"email", "link"} = {}
        <5>1. Written(u, w).email = u.email /\ Written(u, w).link = u.link
          BY <3>1, <4>3 DEF Written, UserColumns
        <5> HIDE DEF g
        <5> QED BY <3>1, <4>1, <4>2, <5>1
      <4>4. CASE DOMAIN w \cap {"email", "link"} # {}
        <5>1. Written(u, w).edited
          BY <4>2, <4>4
        <5> HIDE DEF g
        <5> QED BY <4>1, <4>2, <5>1
      <4> QED BY <4>3, <4>4
    <3> QED BY <3>2, <3>3
  <2> HIDE DEF g
  <2>4. UsersInv' /\ UsersStay
    BY <1>3, <2>1, <2>3, UsersUpdated DEF AccountsInv
  <2>5. JobsInv'
    BY <1>1, <2>4, JobsRest
  <2> QED BY <1>1, <2>4, <2>5, KeysSame DEF AccountsInv
<1> QED BY <1>2, <1>3 DEF UpdateProfile

LEMMA KeyStep ==
  ASSUME AccountsInv, NEW h \in Sessions, KeySteps(h)
  PROVE  AccountsInv' /\ KeysSleepOn
<1> USE DEF AccountsInv
<1>1. ASSUME UNCHANGED users, KeysInv' /\ KeysSleepOn, Rest(h) \/ GoTo(h, "rotateCreate")
      PROVE  AccountsInv' /\ KeysSleepOn
  <2>1. UsersStay
    BY <1>1 DEF UsersStay
  <2>2. JobsInv'
    BY <1>1, <2>1, JobsRest
  <2>3. UsersInv'
    BY <1>1 DEF UsersInv, Numbered, Unique
  <2> QED BY <1>1, <2>2, <2>3
<1>2. ASSUME UNCHANGED users, Rest(h) \/ GoTo(h, "rotateCreate"), NEW ks \in SUBSET keys, keys' = keys \/ keys' = Deactivated(ks)
      PROVE  AccountsInv' /\ KeysSleepOn
  BY <1>1, <1>2, KeysSame, KeysDeactivated
<1>3. ASSUME UNCHANGED users, Rest(h), NEW life, keys' = keys \/ keys' = keys \cup {NewKey(h, life)}
      PROVE  AccountsInv' /\ KeysSleepOn
  <2> DEFINE k0 == NewKey(h, life)
  <2>1. k0.id = NextKeyId /\ DOMAIN k0 = KeyColumns
    BY DEF NewKey, KeyColumns
  <2> HIDE DEF k0
  <2>2. keys' = keys \/ keys' = keys \cup {k0}
    BY <1>3 DEF k0
  <2>3. KeysInv' /\ KeysSleepOn
    BY <2>1, <2>2, KeysSame, KeysAdded
  <2> QED BY <1>1, <1>3, <2>3
<1>4. Own(h) \in SUBSET keys /\ {k \in keys : k.id = job[h].key} \in SUBSET keys
  BY DEF Own
<1>5. ASSUME NEW life, CreateAPIKey(h, life) PROVE AccountsInv' /\ KeysSleepOn
  BY <1>3, <1>5 DEF CreateAPIKey
<1>6. CASE RevokeAPIKey(h)
  BY <1>2, <1>4, <1>6 DEF RevokeAPIKey
<1>7. CASE DeleteAPIKey(h)
  <2> DEFINE g == [k \in keys |-> IF k \in Own(h) THEN [k EXCEPT !.active = FALSE, !.owner = 0] ELSE k]
  <2>1. UNCHANGED users /\ Rest(h)
    BY <1>7 DEF DeleteAPIKey
  <2>2. CASE UNCHANGED keys
    BY <1>1, <2>1, <2>2, KeysSame
  <2>3. CASE keys' = (keys \ Own(h)) \cup {[k EXCEPT !.active = FALSE, !.owner = 0] : k \in Own(h)}
    <3>1. keys' = {g[k] : k \in keys}
      BY <1>4, <2>3
    <3>2. \A k \in keys : g[k].id = k.id /\ DOMAIN g[k] = KeyColumns /\ (~k.active => ~g[k].active)
      BY DEF KeysInv, KeyColumns
    <3> HIDE DEF g
    <3>3. KeysInv' /\ KeysSleepOn
      BY <3>1, <3>2, KeysUpdated
    <3> QED BY <1>1, <2>1, <3>3
  <2> QED BY <1>7, <2>2, <2>3 DEF DeleteAPIKey
<1>8. CASE Deactivate(h)
  <2>1. keys' = keys
    BY <1>8 DEF Deactivate
  <2> QED BY <1>8, <2>1, DeactivateStep, KeysSame
<1>9. CASE RotateRead(h)
  <2>1. UNCHANGED <<users, keys>>
    BY <1>9 DEF RotateRead
  <2>2. CASE Rest(h)
    BY <1>1, <2>1, <2>2, KeysSame
  <2>3. ASSUME NEW k, job' = [job EXCEPT ![h].pc = "rotateRevoke", ![h].life = k.life]
        PROVE  AccountsInv'
    <3> DEFINE j == [job[h] EXCEPT !.pc = "rotateRevoke", !.life = k.life]
    <3>1. job' = [job EXCEPT ![h] = j]
      BY <2>3
    <3>2. DOMAIN j = JobFields /\ j.pc = "rotateRevoke" /\ j.link = job[h].link /\ j.email = job[h].email
      BY DEF JobsInv, JobFields
    <3>3. Belongs(j.link, ToLower(j.email))
      BY <3>2 DEF JobsInv
    <3> HIDE DEF j
    <3> QED BY <2>1, <3>1, <3>2, <3>3, JobStep
  <2> QED BY <1>9, <2>1, <2>2, <2>3, KeysSame DEF RotateRead
<1>10. CASE RotateRevoke(h)
  BY <1>2, <1>4, <1>10 DEF RotateRevoke
<1>11. CASE RotateCreate(h)
  BY <1>3, <1>11 DEF RotateCreate
<1>12. CASE ValidateUpdate(h)
  BY <1>1, <1>12, KeysSame DEF ValidateUpdate
<1>13. ASSUME NEW w \in Updates, UpdateProfile(h, w) PROVE AccountsInv' /\ KeysSleepOn
  <2>1. keys' = keys
    BY <1>13 DEF UpdateProfile
  <2> QED BY <1>13, <2>1, UpdateProfileStep, KeysSame
<1> QED BY <1>5, <1>6, <1>7, <1>8, <1>9, <1>10, <1>11, <1>12, <1>13 DEF KeySteps

LEMMA SignUpStep ==
  ASSUME AccountsInv, NEW h \in Sessions, SignUp(h)
  PROVE  AccountsInv' /\ KeysSleepOn
<1>1. keys' = keys
  BY DEF SignUp, FindEmail, FindName, CreateUser, OAuthCallbackHandler, exchangeCodeForToken, getUserInfo, FindLink,
         FindOwner, LinkUser, FreeName
<1>2. ASSUME FindEmail(h) \/ FindName(h) \/ OAuthCallbackHandler(h) \/ exchangeCodeForToken(h) \/ FindLink(h)
      PROVE  AccountsInv'
  <2>1. UNCHANGED <<users, keys>>
    BY <1>2 DEF FindEmail, FindName, OAuthCallbackHandler, exchangeCodeForToken, FindLink
  <2>2. Rest(h) \/ \E pc \in {"findName", "create", "exchange", "userInfo", "findOwner"} : GoTo(h, pc)
    BY <1>2 DEF FindEmail, FindName, OAuthCallbackHandler, exchangeCodeForToken, FindLink
  <2> QED BY <2>1, <2>2, GoStep
<1> QED
  BY <1>1, <1>2, CreateUserStep, GetUserInfoStep, FindOwnerStep, LinkUserStep, FreeNameStep, KeysSame DEF AccountsInv, SignUp

LEMMA AccountsInductive == AccountsInv /\ [AccountsNext]_accountVars => AccountsInv' /\ KeysSleepOn
<1> SUFFICES ASSUME AccountsInv, [AccountsNext]_accountVars PROVE AccountsInv' /\ KeysSleepOn
  OBVIOUS
<1>1. ASSUME NEW h \in Sessions, NEW u \in users,
             CreateAPIKeyHandler(h, u) \/ UpdateProfileHandler(h, u) \/ BeginKeyOp(h, "deactivate", u, 0)
      PROVE  AccountsInv' /\ KeysSleepOn
  BY <1>1, BeginSteps DEF CreateAPIKeyHandler, UpdateProfileHandler, KeyOps
<1>2. ASSUME NEW h \in Sessions, NEW u \in users, NEW k \in keys,
             RevokeAPIKeyHandler(h, u, k) \/ RotateAPIKeyHandler(h, u, k) \/ DeleteAPIKeyHandler(h, u, k)
      PROVE  AccountsInv' /\ KeysSleepOn
  BY <1>2, BeginSteps DEF RevokeAPIKeyHandler, RotateAPIKeyHandler, DeleteAPIKeyHandler, KeyOps, Ids
<1>3. ASSUME NEW h \in Sessions,
             \/ \E a \in Addresses, n \in UserNames : BeginRegister(h, a, n)
             \/ \E provider \in {"google", "github"} : OAuthRedirectHandler(h, provider)
             \/ \E k \in keys : ValidateRead(h, k)
             \/ SignUp(h) \/ KeySteps(h)
      PROVE  AccountsInv' /\ KeysSleepOn
  BY <1>3, BeginSteps, SignUpStep, KeyStep
<1>4. CASE HalfDay
  <2> DEFINE g == [k \in keys |-> IF k.life > 0 THEN [k EXCEPT !.life = @ - 1] ELSE k]
  <2>1. keys' = {g[k] : k \in keys} /\ UNCHANGED <<users, job>>
    BY <1>4 DEF HalfDay
  <2>2. \A k \in keys : g[k].id = k.id /\ DOMAIN g[k] = KeyColumns /\ (~k.active => ~g[k].active)
    BY DEF AccountsInv, KeysInv, KeyColumns
  <2> HIDE DEF g
  <2>3. KeysInv' /\ KeysSleepOn
    BY <2>1, <2>2, KeysUpdated DEF AccountsInv
  <2> QED BY <2>1, <2>3 DEF AccountsInv, UsersInv, JobsInv, Numbered, Unique
<1>5. CASE UNCHANGED accountVars
  BY <1>5, KeysSame DEF accountVars, AccountsInv, UsersInv, JobsInv, Numbered, Unique
<1> QED BY <1>1, <1>2, <1>3, <1>4, <1>5 DEF AccountsNext

LEMMA AccountsInvariant == AccountsSpec => []AccountsInv
BY AccountsInitially, AccountsInductive, PTL DEF AccountsSpec

\* For any number of registrations, logins and changes of profiles at once,
\* with any profiles, a name has one account, and among the accounts whose
\* users have not written their address or identity themselves (service.go:226)
\* an address and an identity that shows its address have one (service.go:77,
\* 154, user.go:13): no check that came too early decides, only the columns
\* that are unique, and what each handler knows of the address.
THEOREM OneAccount == AccountsSpec => []OneAccountEach
<1>1. AccountsInv => OneAccountEach
  <2> SUFFICES ASSUME AccountsInv, NEW u \in users, NEW v \in users, u.id # v.id
               PROVE  /\ u.name # v.name
                      /\ ~u.edited /\ ~v.edited =>
                           /\ ToLower(u.email) # ToLower(v.email)
                           /\ u.link = v.link => u.link = NoIdentity \/ ~ShowsAddress(u.link)
    BY DEF OneAccountEach
  <2>1. u.email # v.email /\ u.name # v.name
    BY DEF AccountsInv, UsersInv, Unique
  <2>2. ASSUME ~u.edited, ~v.edited
        PROVE  /\ ToLower(u.email) # ToLower(v.email)
               /\ u.link = v.link => u.link = NoIdentity \/ ~ShowsAddress(u.link)
    <3>1. ToLower(u.email) = u.email /\ ToLower(v.email) = v.email
      BY <2>2 DEF AccountsInv, UsersInv
    <3>2. Belongs(u.link, u.email) /\ Belongs(v.link, v.email)
      BY <2>2 DEF AccountsInv, UsersInv
    <3> QED BY <2>1, <3>1, <3>2 DEF Belongs, ShowsAddress
  <2> QED BY <2>1, <2>2
<1> QED BY <1>1, AccountsInvariant, PTL

\* Nothing wakes a key that was revoked, rotated or deleted, for any number of
\* handlers and keys: uses that began before write other columns
\* (apikey.go:133-141), and new keys have new numbers.
THEOREM RevokedForGood == AccountsSpec => RevokedStays
<1>1. AccountsInv /\ [AccountsNext]_accountVars
      => [\A k \in keys : ~k.active => \A l \in keys' : l.id = k.id => ~l.active]_accountVars
  BY AccountsInductive DEF KeysSleepOn
<1> QED BY <1>1, AccountsInvariant, PTL DEF AccountsSpec, RevokedStays
=================================================================================
