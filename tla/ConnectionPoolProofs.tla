--------------------------- MODULE ConnectionPoolProofs ---------------------------
(***************************************************************************)
(* Proofs about ConnectionPool, for any number of clients, any sizes and   *)
(* any arguments of Resize.                                                *)
(***************************************************************************)
EXTENDS ConnectionPool, FiniteSetTheorems, TLAPS

Hands == Conns \cup {NoConn}

LEMMA ResizeRecord ==
  ASSUME NEW b \in BOOLEAN, NEW r \in SUBSET Conns, NEW e \in Int, NEW k \in Hands
  PROVE  [busy |-> b, rest |-> r, excess |-> e, back |-> k]
           \in [busy : BOOLEAN, rest : SUBSET Conns, excess : Int, back : Hands]
  OBVIOUS

\* The lists of connections are finite, so that their numbers are numbers.
LEMMA ConnsCount ==
  ASSUME NEW S \in SUBSET Conns PROVE IsFiniteSet(S) /\ Cardinality(S) \in Nat
<1>1. IsFiniteSet(Conns)
  BY PoolSizes, FS_Interval DEF Conns
<1> QED BY <1>1, FS_Subset, FS_CardinalityType

-----------------------------------------------------------------------------
(* Types.                                                                  *)

LEMMA PoolTypesInitially == Init => PoolTypeOK
<1> SUFFICES ASSUME Init PROVE PoolTypeOK
  OBVIOUS
<1>1. idle \in Seq(Conns) /\ Len(idle) = MinConns
  <2>1. \A i \in 1..MinConns : i \in Conns
    BY PoolSizes DEF Conns
  <2>2. [i \in 1..MinConns |-> i] \in [1..MinConns -> Conns]
    BY <2>1
  <2>3. [i \in 1..MinConns |-> i] \in Seq(Conns)
    BY <2>2, PoolSizes
  <2>4. Len([i \in 1..MinConns |-> i]) = MinConns
    BY PoolSizes
  <2> QED BY <2>3, <2>4 DEF Init
<1>2. 1..MinConns \subseteq Conns
  BY PoolSizes DEF Conns
<1>3. resize \in [busy : BOOLEAN, rest : SUBSET Conns, excess : Int, back : Conns \cup {NoConn}]
  BY DEF Init, NoResize
<1>4. cond \in [Conns -> {"fresh", "unused", "old", "sick"}] /\ closed \in BOOLEAN
  BY DEF Init
<1>5. pc \in [Clients -> PcStates] /\ held \in [Clients -> Conns \cup {NoConn}]
  BY DEF Init, PcStates
<1> QED BY <1>1, <1>2, <1>3, <1>4, <1>5, PoolSizes DEF Init, PoolTypeOK

LEMMA AcquireKeepsTypes ==
  ASSUME PoolTypeOK, NEW u \in Clients, Acquire(u) PROVE PoolTypeOK'
<1> USE DEF PoolTypeOK, poolVars, connVars, PcStates, Goto
<1>1. CASE AcquireStart(u)
  BY <1>1 DEF AcquireStart
<1>2. CASE Receive(u)
  <2>1. Head(idle) \in Conns /\ Tail(idle) \in Seq(Conns) /\ Len(Tail(idle)) = Len(idle) - 1
    BY <1>2 DEF Receive
  <2> QED BY <1>2, <2>1, PoolSizes DEF Receive
<1>3. CASE ReceiveNil(u)
  BY <1>3 DEF ReceiveNil
<1>4. CASE AcquireTry(u)
  BY <1>2, <1>3, <1>4 DEF AcquireTry
<1>5. CASE CanCreate(u)
  BY <1>5 DEF CanCreate
<1>6. CASE CreateConnection(u)
  <2>1. CASE Goto(u, "using") /\ created < MaxCreated
    <3>1. created + 1 \in Conns
      BY <2>1, PoolSizes DEF Conns
    <3> QED BY <1>6, <2>1, <3>1, PoolSizes DEF CreateConnection
  <2>2. CASE Goto(u, "out") /\ UNCHANGED <<held, poolVars, connVars>>
    BY <1>6, <2>2 DEF CreateConnection
  <2> QED BY <1>6, <2>1, <2>2 DEF CreateConnection
<1>7. CASE AcquireWait(u)
  BY <1>2, <1>3, <1>7 DEF AcquireWait
<1>8. CASE AcquireTimeout(u)
  BY <1>8 DEF AcquireTimeout
<1>9. CASE AcquireVerify(u)
  <2>1. CASE IsHealthy(held[u])
    BY <1>9, <2>1 DEF AcquireVerify
  <2>2. CASE ~IsHealthy(held[u])
    BY <1>9, <2>2 DEF AcquireVerify, Discard
  <2> QED BY <2>1, <2>2
<1> QED BY <1>1, <1>4, <1>5, <1>6, <1>7, <1>8, <1>9 DEF Acquire

LEMMA ReleaseKeepsTypes ==
  ASSUME PoolTypeOK, NEW u \in Clients, Release(u) PROVE PoolTypeOK'
<1> USE DEF PoolTypeOK, poolVars, connVars, PcStates, Goto
<1>1. CASE ReleaseStart(u)
  BY <1>1 DEF ReleaseStart
<1>2. CASE ReleaseDiscard(u)
  BY <1>2 DEF ReleaseDiscard, Discard
<1>3. CASE ReleaseSend(u)
  <2>1. held[u] \in Conns
    BY <1>3 DEF ReleaseSend, Returnable, IsHealthy
  <2>2. Append(idle, held[u]) \in Seq(Conns) /\ Len(Append(idle, held[u])) = Len(idle) + 1
    BY <2>1
  <2>3. CASE closed
    BY <1>3, <2>3 DEF ReleaseSend
  <2>4. CASE ~closed
    <3>1. Len(idle) < MaxConns /\ idle' = Append(idle, held[u])
      BY <1>3, <2>4 DEF ReleaseSend
    <3>2. Len(idle) \in Nat /\ MaxConns \in Nat
      BY PoolSizes
    <3>3. Len(idle') <= MaxConns /\ idle' \in Seq(Conns)
      BY <2>2, <3>1, <3>2
    <3> QED BY <1>3, <2>4, <3>3 DEF ReleaseSend
  <2> QED BY <2>3, <2>4
<1>4. CASE ReleaseCount(u)
  BY <1>4 DEF ReleaseCount
<1> QED BY <1>1, <1>2, <1>3, <1>4 DEF Release

\* What the loop of Resize does to its record, on one side of each choice.
LEMMA ResizeRecords ==
  ASSUME PoolTypeOK, NEW c, NEW e \in Int, NEW k \in Hands
  PROVE  /\ [resize EXCEPT !.rest = @ \ {c}] \in [busy : BOOLEAN, rest : SUBSET Conns, excess : Int, back : Hands]
         /\ [resize EXCEPT !.rest = @ \ {c}, !.excess = e] \in [busy : BOOLEAN, rest : SUBSET Conns, excess : Int, back : Hands]
         /\ [resize EXCEPT !.rest = @ \ {c}, !.back = k] \in [busy : BOOLEAN, rest : SUBSET Conns, excess : Int, back : Hands]
         /\ [resize EXCEPT !.back = k] \in [busy : BOOLEAN, rest : SUBSET Conns, excess : Int, back : Hands]
  BY DEF PoolTypeOK, Hands

LEMMA ResizeKeepsTypes ==
  ASSUME PoolTypeOK, Resize PROVE PoolTypeOK'
<1> DEFINE Records == [busy : BOOLEAN, rest : SUBSET Conns, excess : Int, back : Hands]
<1>1. resize \in Records /\ NoResize \in Records
  BY DEF PoolTypeOK, Hands, NoResize
<1>2. SUFFICES /\ resize' \in Records
               /\ idle' \in Seq(Conns) /\ Len(idle') <= MaxConns
               /\ maxConns' \in Nat /\ total' \in Int
               /\ allConns' \in SUBSET Conns /\ open' \in SUBSET Conns
               /\ UNCHANGED <<created, closed, cond, clientVars>>
  BY <1>2 DEF PoolTypeOK, Hands, clientVars
<1>3. CASE \E n \in NewMaxima : ResizeStart(n)
  <2>1. PICK n \in NewMaxima : ResizeStart(n)
    BY <1>3
  <2>2. n \in Nat
    BY PoolSizes
  <2>3. [busy |-> TRUE, rest |-> allConns, excess |-> total - n, back |-> NoConn] \in Records
    BY <2>2, ResizeRecord DEF PoolTypeOK, Hands
  <2>4. resize' \in Records
    BY <1>1, <2>1, <2>3 DEF ResizeStart
  <2> QED BY <2>1, <2>2, <2>4 DEF ResizeStart, PoolTypeOK, connVars
<1>4. CASE ResizeTurn
  <2> DEFINE c == Newest(resize.rest)
  <2> HIDE DEF c
  <2>1. resize.excess - 1 \in Int
    BY DEF PoolTypeOK
  <2>2. CASE idle = <<>>
    <3>1. resize' = [resize EXCEPT !.rest = @ \ {c}]
      BY <1>4, <2>2 DEF ResizeTurn, c
    <3>2. resize' \in Records
      BY <3>1, ResizeRecords, <2>1, <1>1
    <3> QED BY <1>4, <2>2, <3>2 DEF ResizeTurn, PoolTypeOK, clientVars
  <2>3. CASE idle # <<>>
    <3>1. idle' = Tail(idle) /\ UNCHANGED <<maxConns, created, closed, cond, clientVars>>
      BY <1>4, <2>3 DEF ResizeTurn
    <3>2. Head(idle) \in Conns /\ Tail(idle) \in Seq(Conns) /\ Len(Tail(idle)) = Len(idle) - 1
      BY <2>3 DEF PoolTypeOK
    <3>3. idle' \in Seq(Conns) /\ Len(idle') <= MaxConns
      BY <3>1, <3>2, PoolSizes DEF PoolTypeOK
    <3>4. CASE Head(idle) = c
      <4>1. Discard(c) /\ resize' = [resize EXCEPT !.rest = @ \ {c}, !.excess = resize.excess - 1]
        BY <1>4, <2>3, <3>4 DEF ResizeTurn, c
      <4>2. resize' \in Records
        BY <4>1, <2>1, <3>2, ResizeRecords DEF Hands
      <4> QED BY <3>1, <3>3, <4>1, <4>2 DEF Discard, PoolTypeOK
    <3>5. CASE Head(idle) # c
      <4>1. /\ resize' = [resize EXCEPT !.rest = @ \ {c}, !.back = Head(idle)]
            /\ UNCHANGED <<open, allConns, total>>
        BY <1>4, <2>3, <3>5 DEF ResizeTurn, c
      <4>2. resize' \in Records
        BY <4>1, <2>1, <3>2, ResizeRecords DEF Hands
      <4> QED BY <3>1, <3>3, <4>1, <4>2 DEF PoolTypeOK
    <3> QED BY <3>4, <3>5
  <2> QED BY <2>2, <2>3
<1>5. CASE ResizePutBack
  <2>1. resize.back \in Conns
    BY <1>5 DEF ResizePutBack, PoolTypeOK
  <2>2. Append(idle, resize.back) \in Seq(Conns) /\ Len(Append(idle, resize.back)) = Len(idle) + 1
    BY <2>1 DEF PoolTypeOK
  <2>3. Len(idle') <= MaxConns
    BY <1>5, <2>2, PoolSizes DEF ResizePutBack, PoolTypeOK
  <2>4. resize' \in Records
    BY <1>5, ResizeRecords DEF ResizePutBack, Hands, PoolTypeOK
  <2> QED BY <1>5, <2>2, <2>3, <2>4 DEF ResizePutBack, PoolTypeOK, poolVars, connVars, clientVars
<1>6. CASE ResizeEnd
  BY <1>1, <1>6 DEF ResizeEnd, PoolTypeOK, poolVars, connVars, clientVars
<1>7. CASE ResizePanic
  <2>1. resize' = NoResize /\ UNCHANGED <<poolVars, connVars, clientVars>>
        /\ idle' = IF idle = <<>> THEN idle ELSE Tail(idle)
    BY <1>7 DEF ResizePanic
  <2>2. idle' \in Seq(Conns) /\ Len(idle') <= MaxConns
    <3>1. CASE idle = <<>>
      BY <2>1, <3>1 DEF PoolTypeOK
    <3>2. CASE idle # <<>>
      <4>1. idle' = Tail(idle) /\ idle \in Seq(Conns) /\ Len(idle) <= MaxConns
        BY <2>1, <3>2 DEF PoolTypeOK
      <4> QED BY <3>2, <4>1, PoolSizes
    <3> QED BY <3>1, <3>2
  <2> QED BY <1>1, <2>1, <2>2 DEF PoolTypeOK, poolVars, connVars, clientVars
<1> QED BY <1>3, <1>4, <1>5, <1>6, <1>7 DEF Resize

LEMMA PoolStepKeepsTypes == PoolTypeOK /\ [Next]_vars => PoolTypeOK'
<1> SUFFICES ASSUME PoolTypeOK, [Next]_vars PROVE PoolTypeOK'
  OBVIOUS
<1>1. CASE \E u \in Clients : Acquire(u) \/ Release(u)
  BY <1>1, AcquireKeepsTypes, ReleaseKeepsTypes
<1>2. CASE HealthCheck
  <2> DEFINE bad == {c \in allConns : cond[c] # "fresh" \/ c \notin open}
  <2>1. Cardinality(bad) \in Nat
    <3>1. bad \in SUBSET Conns
      BY DEF PoolTypeOK
    <3> QED BY <3>1, ConnsCount
  <2>2. total' = total - Cardinality(bad)
    BY <1>2 DEF HealthCheck
  <2>3. total' \in Int
    BY <2>1, <2>2 DEF PoolTypeOK
  <2> QED BY <1>2, <2>3 DEF HealthCheck, PoolTypeOK, clientVars
<1>3. CASE Close
  BY <1>3 DEF Close, PoolTypeOK, clientVars
<1>4. CASE Resize
  BY <1>4, ResizeKeepsTypes
<1>5. CASE \E c \in Conns, how \in {"unused", "old", "sick"} : Degrade(c, how)
  BY <1>5 DEF Degrade, PoolTypeOK, poolVars, clientVars
<1>6. CASE UNCHANGED vars
  BY <1>6 DEF vars, poolVars, connVars, clientVars, PoolTypeOK
<1> QED BY <1>1, <1>2, <1>3, <1>4, <1>5, <1>6 DEF Next

\* The pool's variables have their types; the channel keeps to its capacity.
THEOREM PoolTypes == Spec => []PoolTypeOK
  BY PoolTypesInitially, PoolStepKeepsTypes, PTL DEF Spec

-----------------------------------------------------------------------------
(* A connection is in one place.  The places are the clients' hands, the   *)
(* slots of the channel and the hand of Resize; a new connection has a     *)
(* number that none of them holds.                                         *)

HandsDiffer == \A u, w \in Clients : held[u] # NoConn /\ held[u] = held[w] => u = w
SlotsDiffer == \A i, j \in 1..Len(idle) : idle[i] = idle[j] => i = j
HeldNotIdle == \A u \in Clients : \A i \in 1..Len(idle) : held[u] # idle[i]
BackIsApart == resize.back # NoConn =>
                 /\ \A u \in Clients : held[u] # resize.back
                 /\ \A i \in 1..Len(idle) : idle[i] # resize.back
OldNumbers  == /\ \A u \in Clients : held[u] <= created
               /\ \A i \in 1..Len(idle) : idle[i] <= created
               /\ resize.back <= created

OnePlace == HandsDiffer /\ SlotsDiffer /\ HeldNotIdle /\ BackIsApart /\ OldNumbers

LEMMA OnePlaceInitially == Init => OnePlace
<1> SUFFICES ASSUME Init PROVE OnePlace
  OBVIOUS
<1>1. Len(idle) = MinConns /\ \A i \in 1..MinConns : idle[i] = i
  BY PoolSizes DEF Init
<1>2. \A u \in Clients : held[u] = NoConn
  BY DEF Init
<1>3. resize.back = NoConn /\ created = MinConns
  BY DEF Init, NoResize
<1> QED
  BY <1>1, <1>2, <1>3, PoolSizes
  DEF OnePlace, HandsDiffer, SlotsDiffer, HeldNotIdle, BackIsApart, OldNumbers, NoConn

LEMMA NumbersAreNumbers ==
  ASSUME PoolTypeOK
  PROVE  /\ created \in Int /\ resize.back \in Conns \cup {NoConn}
         /\ \A u \in Clients : held[u] \in Conns \cup {NoConn}
         /\ \A i \in 1..Len(idle) : idle[i] \in Conns
<1>1. created \in Int /\ resize.back \in Conns \cup {NoConn}
  BY DEF PoolTypeOK
<1>2. \A u \in Clients : held[u] \in Conns \cup {NoConn}
  BY DEF PoolTypeOK
<1>3. \A i \in 1..Len(idle) : idle[i] \in Conns
  BY DEF PoolTypeOK
<1> QED BY <1>1, <1>2, <1>3

\* The ways in which connections move.

LEMMA NothingMoves ==
  ASSUME PoolTypeOK, OnePlace, UNCHANGED <<held, idle, created>>, resize'.back = resize.back
  PROVE  OnePlace'
  BY DEF OnePlace, HandsDiffer, SlotsDiffer, HeldNotIdle, BackIsApart, OldNumbers

LEMMA HandIsEmptied ==
  ASSUME PoolTypeOK, OnePlace, NEW u \in Clients, held' = [held EXCEPT ![u] = NoConn],
         UNCHANGED <<idle, created, resize>>
  PROVE  OnePlace'
<1>1. \A w \in Clients : held'[w] = IF w = u THEN NoConn ELSE held[w]
  BY DEF PoolTypeOK
<1>2. \A i \in 1..Len(idle) : idle[i] # NoConn
  BY DEF PoolTypeOK, Conns, NoConn
<1>3. NoConn <= created
  BY DEF PoolTypeOK, NoConn
<1> QED BY <1>1, <1>2, <1>3
  DEF OnePlace, HandsDiffer, SlotsDiffer, HeldNotIdle, BackIsApart, OldNumbers

LEMMA HandTakesNew ==
  ASSUME PoolTypeOK, OnePlace, NEW u \in Clients, created' = created + 1,
         held' = [held EXCEPT ![u] = created'], UNCHANGED <<idle, resize>>
  PROVE  OnePlace'
<1>1. \A w \in Clients : held'[w] = IF w = u THEN created + 1 ELSE held[w]
  BY DEF PoolTypeOK
<1>2. /\ created \in Int /\ \A w \in Clients : held[w] \in Int
      /\ \A i \in 1..Len(idle) : idle[i] \in Int
      /\ resize.back \in Int
  BY NumbersAreNumbers DEF Conns, NoConn
<1>3. /\ \A w \in Clients : held[w] # created + 1
      /\ \A i \in 1..Len(idle) : idle[i] # created + 1
      /\ resize.back # created + 1
  BY <1>2 DEF OnePlace, OldNumbers
<1>4. OldNumbers'
  BY <1>1, <1>2 DEF OnePlace, OldNumbers
<1> QED BY <1>1, <1>3, <1>4
  DEF OnePlace, HandsDiffer, SlotsDiffer, HeldNotIdle, BackIsApart

LEMMA HandTakesFirst ==
  ASSUME PoolTypeOK, OnePlace, NEW u \in Clients, Receive(u)
  PROVE  OnePlace'
<1>1. idle # <<>> /\ idle' = Tail(idle) /\ UNCHANGED <<created, resize>>
  BY DEF Receive, poolVars
<1>2. \A w \in Clients : held'[w] = IF w = u THEN idle[1] ELSE held[w]
  BY DEF Receive, PoolTypeOK
<1>3. 1 \in 1..Len(idle) /\ Len(idle') = Len(idle) - 1 /\ Len(idle) \in Nat
  BY <1>1 DEF PoolTypeOK
<1>4. \A i \in 1..Len(idle') : i + 1 \in 1..Len(idle) /\ idle'[i] = idle[i + 1] /\ i + 1 # 1
  BY <1>1, <1>3 DEF PoolTypeOK
<1>5. HandsDiffer' /\ BackIsApart' /\ OldNumbers'
  BY <1>1, <1>2, <1>3, <1>4 DEF OnePlace, HandsDiffer, HeldNotIdle, BackIsApart, OldNumbers
<1>6. SlotsDiffer'
  BY <1>3, <1>4 DEF OnePlace, SlotsDiffer
<1>7. HeldNotIdle'
  BY <1>2, <1>3, <1>4 DEF OnePlace, SlotsDiffer, HeldNotIdle
<1> QED BY <1>5, <1>6, <1>7 DEF OnePlace

LEMMA HandIsReturned ==
  ASSUME PoolTypeOK, OnePlace, NEW u \in Clients, held[u] \in Conns,
         idle' = Append(idle, held[u]), held' = [held EXCEPT ![u] = NoConn],
         UNCHANGED <<created, resize>>
  PROVE  OnePlace'
<1>1. \A w \in Clients : held'[w] = IF w = u THEN NoConn ELSE held[w]
  BY DEF PoolTypeOK
<1>2. Len(idle') = Len(idle) + 1 /\ Len(idle) \in Nat
  BY DEF PoolTypeOK
<1>3. \A i \in 1..Len(idle') : \/ i \in 1..Len(idle) /\ idle'[i] = idle[i]
                               \/ i = Len(idle) + 1 /\ idle'[i] = held[u]
  BY <1>2 DEF PoolTypeOK
<1>4. held[u] # NoConn /\ \A i \in 1..Len(idle) : idle[i] # NoConn
  BY NumbersAreNumbers DEF Conns, NoConn
<1>5. NoConn <= created
  BY DEF PoolTypeOK, NoConn
<1>6. HandsDiffer' /\ BackIsApart' /\ OldNumbers'
  BY <1>1, <1>3, <1>5 DEF OnePlace, HandsDiffer, BackIsApart, OldNumbers
<1>7. SlotsDiffer'
  BY <1>3 DEF OnePlace, SlotsDiffer, HeldNotIdle
<1>8. HeldNotIdle'
  BY <1>1, <1>3, <1>4 DEF OnePlace, HandsDiffer, HeldNotIdle
<1> QED BY <1>6, <1>7, <1>8 DEF OnePlace

LEMMA ResizeTakesFirst ==
  ASSUME PoolTypeOK, OnePlace, idle # <<>>, idle' = Tail(idle), resize.back = NoConn,
         UNCHANGED <<created, held>>, resize'.back \in {NoConn, Head(idle)}
  PROVE  OnePlace'
<1>1. 1 \in 1..Len(idle) /\ Len(idle') = Len(idle) - 1 /\ Len(idle) \in Nat /\ Head(idle) = idle[1]
  BY DEF PoolTypeOK
<1>2. \A i \in 1..Len(idle') : i + 1 \in 1..Len(idle) /\ idle'[i] = idle[i + 1] /\ i + 1 # 1
  BY <1>1 DEF PoolTypeOK
<1>3. HandsDiffer' /\ HeldNotIdle' /\ OldNumbers'
  BY <1>1, <1>2 DEF OnePlace, HandsDiffer, HeldNotIdle, OldNumbers
<1>4. SlotsDiffer'
  BY <1>1, <1>2 DEF OnePlace, SlotsDiffer
<1>5. BackIsApart'
  BY <1>1, <1>2 DEF OnePlace, SlotsDiffer, HeldNotIdle, BackIsApart
<1> QED BY <1>3, <1>4, <1>5 DEF OnePlace

LEMMA ResizeReturns ==
  ASSUME PoolTypeOK, OnePlace, resize.back # NoConn, idle' = Append(idle, resize.back),
         UNCHANGED <<created, held>>, resize'.back = NoConn
  PROVE  OnePlace'
<1>1. Len(idle') = Len(idle) + 1 /\ Len(idle) \in Nat /\ resize.back \in Conns
  BY NumbersAreNumbers DEF PoolTypeOK
<1>2. \A i \in 1..Len(idle') : \/ i \in 1..Len(idle) /\ idle'[i] = idle[i]
                               \/ i = Len(idle) + 1 /\ idle'[i] = resize.back
  BY <1>1 DEF PoolTypeOK
<1>3. NoConn <= created
  BY DEF PoolTypeOK, NoConn
<1>4. HandsDiffer' /\ BackIsApart' /\ OldNumbers'
  BY <1>2, <1>3 DEF OnePlace, HandsDiffer, BackIsApart, OldNumbers
<1>5. SlotsDiffer' /\ HeldNotIdle'
  BY <1>2 DEF OnePlace, SlotsDiffer, HeldNotIdle, BackIsApart
<1> QED BY <1>4, <1>5 DEF OnePlace

-----------------------------------------------------------------------------
(* Every step moves connections in one of these ways.                      *)

LEMMA AcquireKeepsPlaces ==
  ASSUME PoolTypeOK, OnePlace, NEW u \in Clients, Acquire(u) PROVE OnePlace'
<1>1. CASE AcquireStart(u) \/ CanCreate(u) \/ AcquireTimeout(u) \/ ReceiveNil(u)
  BY <1>1, NothingMoves DEF AcquireStart, CanCreate, AcquireTimeout, ReceiveNil, poolVars
<1>2. CASE Receive(u)
  BY <1>2, HandTakesFirst
<1>3. CASE AcquireTry(u)
  BY <1>1, <1>2, <1>3, NothingMoves DEF AcquireTry, poolVars
<1>4. CASE AcquireWait(u)
  BY <1>1, <1>2, <1>4 DEF AcquireWait
<1>5. CASE CreateConnection(u)
  <2>1. CASE created' = created + 1 /\ held' = [held EXCEPT ![u] = created']
    BY <1>5, <2>1, HandTakesNew DEF CreateConnection
  <2>2. CASE UNCHANGED <<held, poolVars>>
    BY <1>5, <2>2, NothingMoves DEF CreateConnection, poolVars
  <2> QED BY <1>5, <2>1, <2>2 DEF CreateConnection
<1>6. CASE AcquireVerify(u)
  <2>1. CASE IsHealthy(held[u])
    BY <1>6, <2>1, NothingMoves DEF AcquireVerify
  <2>2. CASE ~IsHealthy(held[u])
    BY <1>6, <2>2, HandIsEmptied DEF AcquireVerify
  <2> QED BY <2>1, <2>2
<1> QED BY <1>1, <1>3, <1>4, <1>5, <1>6 DEF Acquire

LEMMA ReleaseKeepsPlaces ==
  ASSUME PoolTypeOK, OnePlace, NEW u \in Clients, Release(u) PROVE OnePlace'
<1>1. CASE ReleaseStart(u)
  <2>1. CASE closed
    BY <1>1, <2>1, HandIsEmptied DEF ReleaseStart, poolVars
  <2>2. CASE ~closed
    BY <1>1, <2>2, NothingMoves DEF ReleaseStart, poolVars
  <2> QED BY <2>1, <2>2
<1>2. CASE ReleaseDiscard(u)
  BY <1>2, HandIsEmptied DEF ReleaseDiscard
<1>3. CASE ReleaseSend(u)
  <2>1. held[u] \in Conns
    BY <1>3 DEF ReleaseSend, Returnable, IsHealthy, PoolTypeOK
  <2>2. CASE closed
    BY <1>3, <2>2, NothingMoves DEF ReleaseSend, poolVars
  <2>3. CASE ~closed
    BY <1>3, <2>1, <2>3, HandIsReturned DEF ReleaseSend, poolVars
  <2> QED BY <2>2, <2>3
<1>4. CASE ReleaseCount(u)
  BY <1>4, NothingMoves DEF ReleaseCount
<1> QED BY <1>1, <1>2, <1>3, <1>4 DEF Release

LEMMA ResizeKeepsPlaces ==
  ASSUME PoolTypeOK, OnePlace, Resize PROVE OnePlace'
<1>1. CASE \E n \in NewMaxima : ResizeStart(n)
  <2>1. PICK n \in NewMaxima : ResizeStart(n)
    BY <1>1
  <2>2. resize'.back = NoConn
    BY <2>1 DEF ResizeStart, NoResize
  <2>3. UNCHANGED <<held, idle, created>>
    BY <2>1 DEF ResizeStart, clientVars
  <2>4. HandsDiffer' /\ SlotsDiffer' /\ HeldNotIdle' /\ BackIsApart'
    BY <2>2, <2>3 DEF OnePlace, HandsDiffer, SlotsDiffer, HeldNotIdle, BackIsApart
  <2>5. NoConn <= created
    BY DEF PoolTypeOK, NoConn
  <2> QED BY <2>2, <2>3, <2>4, <2>5 DEF OnePlace, OldNumbers
<1>2. CASE ResizeTurn
  <2>1. resize.back = NoConn /\ UNCHANGED <<held, created>>
    BY <1>2 DEF ResizeTurn, AtTurn, clientVars
  <2>2. CASE idle = <<>>
    <3>1. UNCHANGED idle /\ resize' = [resize EXCEPT !.rest = @ \ {Newest(resize.rest)}]
      BY <1>2, <2>2 DEF ResizeTurn
    <3>2. resize'.back = resize.back
      BY <3>1 DEF PoolTypeOK
    <3> QED BY <2>1, <3>1, <3>2, NothingMoves
  <2>3. CASE idle # <<>>
    <3> DEFINE c == Newest(resize.rest)
    <3> HIDE DEF c
    <3>1. idle' = Tail(idle)
      BY <1>2, <2>3 DEF ResizeTurn
    <3>2. \/ resize' = [resize EXCEPT !.rest = @ \ {c}, !.excess = resize.excess - 1]
          \/ resize' = [resize EXCEPT !.rest = @ \ {c}, !.back = Head(idle)]
      BY <1>2, <2>3 DEF ResizeTurn, c
    <3>3. resize'.back \in {NoConn, Head(idle)}
      BY <2>1, <3>2 DEF PoolTypeOK
    <3> QED BY <2>1, <2>3, <3>1, <3>3, ResizeTakesFirst
  <2> QED BY <2>2, <2>3
<1>3. CASE ResizePutBack
  <2>1. resize'.back = NoConn
    BY <1>3 DEF ResizePutBack, PoolTypeOK
  <2> QED BY <1>3, <2>1, ResizeReturns DEF ResizePutBack, poolVars, clientVars
<1>4. CASE ResizeEnd
  <2>1. resize'.back = resize.back
    BY <1>4 DEF ResizeEnd, NoResize
  <2> QED BY <1>4, <2>1, NothingMoves DEF ResizeEnd, poolVars, clientVars
<1>5. CASE ResizePanic
  <2>1. resize.back = NoConn /\ resize'.back = NoConn /\ UNCHANGED <<held, created>>
    BY <1>5 DEF ResizePanic, AtTurn, NoResize, clientVars, poolVars
  <2>2. CASE idle = <<>>
    BY <1>5, <2>1, <2>2, NothingMoves DEF ResizePanic
  <2>3. CASE idle # <<>>
    <3>1. idle' = Tail(idle)
      BY <1>5, <2>3 DEF ResizePanic
    <3> QED BY <2>1, <2>3, <3>1, ResizeTakesFirst
  <2> QED BY <2>2, <2>3
<1> QED BY <1>1, <1>2, <1>3, <1>4, <1>5 DEF Resize

LEMMA PoolStepKeepsPlaces == PoolTypeOK /\ OnePlace /\ [Next]_vars => OnePlace'
<1> SUFFICES ASSUME PoolTypeOK, OnePlace, [Next]_vars PROVE OnePlace'
  OBVIOUS
<1>1. CASE \E u \in Clients : Acquire(u) \/ Release(u)
  BY <1>1, AcquireKeepsPlaces, ReleaseKeepsPlaces
<1>2. CASE HealthCheck
  BY <1>2, NothingMoves DEF HealthCheck, clientVars
<1>3. CASE Close
  BY <1>3, NothingMoves DEF Close, clientVars
<1>4. CASE Resize
  BY <1>4, ResizeKeepsPlaces
<1>5. CASE \E c \in Conns, how \in {"unused", "old", "sick"} : Degrade(c, how)
  BY <1>5, NothingMoves DEF Degrade, poolVars, clientVars
<1>6. CASE UNCHANGED vars
  BY <1>6, NothingMoves DEF vars, poolVars, connVars, clientVars
<1> QED BY <1>1, <1>2, <1>3, <1>4, <1>5, <1>6 DEF Next

LEMMA PlacesAlways == Spec => []OnePlace
  BY OnePlaceInitially, PoolTypes, PoolStepKeepsPlaces, PTL DEF Spec

-----------------------------------------------------------------------------
\* Each place is empty when another is taken, so that the places of a
\* connection add up to at most one.
LEMMA OnePlaceIsExclusive == PoolTypeOK /\ OnePlace => ExclusiveUse
<1> SUFFICES ASSUME PoolTypeOK, OnePlace, NEW c \in Conns
             PROVE  Cardinality(Holders(c)) + Cardinality(Slots(c))
                      + (IF resize.back = c THEN 1 ELSE 0) <= 1
  BY DEF ExclusiveUse
<1>0. c # NoConn
  BY DEF Conns, NoConn
<1>1. Cardinality({}) = 0 /\ \A s : Cardinality({s}) = 1
  BY FS_EmptySet, FS_Singleton
<1>2. CASE \E u \in Clients : held[u] = c
  <2>1. PICK u \in Clients : held[u] = c
    BY <1>2
  <2>2. Holders(c) = {u}
    BY <1>0, <2>1 DEF Holders, OnePlace, HandsDiffer
  <2>3. Slots(c) = {}
    BY <2>1 DEF Slots, OnePlace, HeldNotIdle
  <2>4. resize.back # c
    BY <1>0, <2>1 DEF OnePlace, BackIsApart
  <2>5. Cardinality(Holders(c)) = 1 /\ Cardinality(Slots(c)) = 0
    BY <1>1, <2>2, <2>3
  <2> QED BY <2>4, <2>5
<1>3. CASE ~ \E u \in Clients : held[u] = c
  <2>1. Holders(c) = {}
    BY <1>3 DEF Holders
  <2>2. CASE Slots(c) = {}
    <3>1. Cardinality(Holders(c)) = 0 /\ Cardinality(Slots(c)) = 0
      BY <1>1, <2>1, <2>2
    <3> QED BY <3>1
  <2>3. CASE Slots(c) # {}
    <3>1. PICK i \in 1..Len(idle) : idle[i] = c
      BY <2>3 DEF Slots
    <3>2. Slots(c) = {i}
      BY <3>1 DEF Slots, OnePlace, SlotsDiffer
    <3>3. resize.back # c
      BY <1>0, <3>1 DEF OnePlace, BackIsApart
    <3>4. Cardinality(Holders(c)) = 0 /\ Cardinality(Slots(c)) = 1
      BY <1>1, <2>1, <3>2
    <3> QED BY <3>3, <3>4
  <2> QED BY <2>2, <2>3
<1> QED BY <1>2, <1>3

\* No connection is given to two clients, nor lies in the channel while one
\* uses it, although the health check closes connections wherever they are
\* and Resize takes them out of the channel and puts them back
\* (connection_pool.go:75, 147, 246, 349).
THEOREM UseIsExclusive == Spec => []ExclusiveUse
  BY PoolTypes, PlacesAlways, OnePlaceIsExclusive, PTL

-----------------------------------------------------------------------------
(* The count.  Connections are discarded from the list and from the count  *)
(* at once, but perhaps twice from the count, which then falls behind.     *)

ListedAreOld == \A c \in allConns : c <= created
NotAhead     == ~closed => total <= Cardinality(allConns)

CountInv == ListedAreOld /\ NotAhead

LEMMA CountInitially == Init => CountInv
<1> SUFFICES ASSUME Init PROVE CountInv
  OBVIOUS
<1>1. Cardinality(1..MinConns) = MinConns
  BY PoolSizes, FS_Interval
<1> QED BY <1>1, PoolSizes DEF Init, CountInv, ListedAreOld, NotAhead

LEMMA CountStays ==
  ASSUME CountInv, UNCHANGED <<allConns, total, created, closed>> PROVE CountInv'
  BY DEF CountInv, ListedAreOld, NotAhead

LEMMA DiscardKeepsCount ==
  ASSUME PoolTypeOK, CountInv, NEW c, Discard(c), UNCHANGED <<created, closed>>
  PROVE  CountInv' /\ total' < total
<1>1. allConns \in SUBSET Conns /\ total \in Int
  BY DEF PoolTypeOK
<1>2. IsFiniteSet(allConns) /\ Cardinality(allConns) \in Nat
  BY <1>1, ConnsCount
<1>3. Cardinality(allConns \ {c}) = IF c \in allConns THEN Cardinality(allConns) - 1 ELSE Cardinality(allConns)
  BY <1>2, FS_RemoveElement
<1>4. Cardinality(allConns') >= Cardinality(allConns) - 1
  BY <1>2, <1>3 DEF Discard
<1>5. Cardinality(allConns') \in Int /\ total' = total - 1
  BY <1>2, <1>3 DEF Discard
<1>6. ASSUME ~closed PROVE total' <= Cardinality(allConns')
  <2>1. total <= Cardinality(allConns)
    BY <1>6 DEF CountInv, NotAhead
  <2> QED BY <1>1, <1>2, <1>4, <1>5, <2>1
<1>7. NotAhead'
  BY <1>6 DEF NotAhead
<1>8. ListedAreOld' /\ total' < total
  BY <1>1 DEF CountInv, ListedAreOld, Discard
<1> QED BY <1>7, <1>8 DEF CountInv

LEMMA CreateKeepsCount ==
  ASSUME PoolTypeOK, CountInv, created' = created + 1, allConns' = allConns \cup {created'},
         total' = total + 1, UNCHANGED closed
  PROVE  CountInv'
<1>1. allConns \in SUBSET Conns /\ total \in Int /\ created \in Int
  BY DEF PoolTypeOK
<1>2. IsFiniteSet(allConns) /\ Cardinality(allConns) \in Nat
  BY <1>1, ConnsCount
<1>3. created + 1 \notin allConns
  BY <1>1 DEF CountInv, ListedAreOld, Conns
<1>4. Cardinality(allConns') = Cardinality(allConns) + 1
  BY <1>2, <1>3, FS_AddElement
<1>5. NotAhead'
  BY <1>1, <1>2, <1>4 DEF CountInv, NotAhead
<1>6. ListedAreOld'
  BY <1>1 DEF CountInv, ListedAreOld, Conns
<1> QED BY <1>5, <1>6 DEF CountInv

\* One step: the invariant, and what the count may not do.
LEMMA StepKeepsCount ==
  ASSUME PoolTypeOK, CountInv, [Next]_vars
  PROVE  CountInv' /\ (total' > total => total' <= maxConns)
<1>1. total \in Int /\ maxConns \in Int
  BY DEF PoolTypeOK
<1>2. CASE UNCHANGED <<allConns, total, created, closed>>
  BY <1>1, <1>2, CountStays
<1>3. CASE \E c \in Nat : Discard(c) /\ UNCHANGED <<created, closed>>
  <2>1. PICK c \in Nat : Discard(c) /\ UNCHANGED <<created, closed>>
    BY <1>3
  <2>2. CountInv' /\ total' < total
    BY <2>1, DiscardKeepsCount
  <2>3. total' \in Int
    BY <1>1, <2>1 DEF Discard
  <2>4. ~(total' > total)
    BY <1>1, <2>2, <2>3
  <2> QED BY <2>2, <2>4
<1>4. ASSUME NEW u \in Clients, Acquire(u)
      PROVE  CountInv' /\ (total' > total => total' <= maxConns)
  <2>1. CASE AcquireStart(u) \/ AcquireTry(u) \/ CanCreate(u) \/ AcquireWait(u) \/ AcquireTimeout(u)
    BY <1>2, <2>1 DEF AcquireStart, AcquireTry, CanCreate, AcquireWait, AcquireTimeout, Receive,
                      ReceiveNil, poolVars
  <2>2. CASE CreateConnection(u)
    <3>1. CASE total < maxConns /\ created' = created + 1 /\ allConns' = allConns \cup {created'}
               /\ total' = total + 1 /\ UNCHANGED closed
      <4>1. total' <= maxConns
        BY <1>1, <3>1
      <4> QED BY <3>1, <4>1, CreateKeepsCount
    <3>2. CASE UNCHANGED poolVars
      BY <1>2, <3>2 DEF poolVars
    <3> QED BY <2>2, <3>1, <3>2 DEF CreateConnection
  <2>3. CASE AcquireVerify(u)
    <3>1. CASE IsHealthy(held[u])
      BY <1>2, <2>3, <3>1 DEF AcquireVerify
    <3>2. CASE ~IsHealthy(held[u])
      <4>1. held[u] \in Nat
        BY NumbersAreNumbers DEF Conns, NoConn
      <4> QED BY <1>3, <2>3, <3>2, <4>1 DEF AcquireVerify
    <3> QED BY <3>1, <3>2
  <2> QED BY <1>4, <2>1, <2>2, <2>3 DEF Acquire
<1>5. ASSUME NEW u \in Clients, Release(u)
      PROVE  CountInv' /\ (total' > total => total' <= maxConns)
  <2>1. CASE ReleaseStart(u) \/ ReleaseSend(u) \/ ReleaseCount(u)
    BY <1>2, <2>1 DEF ReleaseStart, ReleaseSend, ReleaseCount, poolVars
  <2>2. CASE ReleaseDiscard(u)
    <3>1. held[u] \in Nat
      BY NumbersAreNumbers DEF Conns, NoConn
    <3> QED BY <1>3, <2>2, <3>1 DEF ReleaseDiscard
  <2> QED BY <1>5, <2>1, <2>2 DEF Release
<1>6. CASE HealthCheck
  <2> DEFINE bad == {c \in allConns : cond[c] # "fresh" \/ c \notin open}
  <2>1. allConns' = allConns \ bad /\ total' = total - Cardinality(bad) /\ UNCHANGED <<created, closed>>
    BY <1>6 DEF HealthCheck
  <2>2. allConns \in SUBSET Conns /\ bad \in SUBSET Conns /\ allConns \cap bad = bad
    BY DEF PoolTypeOK
  <2> HIDE DEF bad
  <2>3. /\ IsFiniteSet(allConns) /\ Cardinality(allConns) \in Nat /\ Cardinality(bad) \in Nat
        /\ Cardinality(allConns') = Cardinality(allConns) - Cardinality(bad)
    BY ZenonT(40), <2>1, <2>2, ConnsCount, FS_Difference
  <2>4. NotAhead' /\ ~(total' > total)
    BY <1>1, <2>1, <2>3 DEF CountInv, NotAhead
  <2>5. ListedAreOld'
    BY <2>1 DEF CountInv, ListedAreOld
  <2> QED BY <2>4, <2>5 DEF CountInv
<1>7. CASE Close
  BY <1>1, <1>7 DEF Close, CountInv, ListedAreOld, NotAhead
<1>8. CASE Resize
  <2>1. CASE (\E n \in NewMaxima : ResizeStart(n)) \/ ResizePutBack \/ ResizePanic \/ ResizeEnd
    BY <1>2, <2>1 DEF ResizeStart, ResizePutBack, ResizePanic, ResizeEnd, poolVars
  <2>2. CASE ResizeTurn
    <3>1. CASE idle = <<>>
      BY <1>2, <2>2, <3>1 DEF ResizeTurn
    <3>2. CASE idle # <<>>
      <4>0. Head(idle) \in Conns
        BY <3>2 DEF PoolTypeOK
      <4>1. Head(idle) \in Nat
        BY <4>0 DEF Conns
      <4>2. CASE Head(idle) = Newest(resize.rest)
        <5>1. Discard(Head(idle)) /\ UNCHANGED <<created, closed>>
          BY <2>2, <3>2, <4>2 DEF ResizeTurn
        <5> QED BY <1>3, <4>1, <5>1
      <4>3. CASE Head(idle) # Newest(resize.rest)
        BY <1>2, <2>2, <3>2, <4>3 DEF ResizeTurn
      <4> QED BY <4>2, <4>3
    <3> QED BY <3>1, <3>2
  <2> QED BY <1>8, <2>1, <2>2 DEF Resize
<1>9. CASE \E c \in Conns, how \in {"unused", "old", "sick"} : Degrade(c, how)
  BY <1>2, <1>9 DEF Degrade, poolVars
<1>10. CASE UNCHANGED vars
  BY <1>2, <1>10 DEF vars, poolVars
<1> QED BY <1>4, <1>5, <1>6, <1>7, <1>8, <1>9, <1>10 DEF Next

\* Until Close the counter is never ahead of the list, and no step raises it
\* above the limit of that moment (connection_pool.go:197, 219).
THEOREM CountAlwaysHolds == Spec => CountHolds
<1> DEFINE Step == /\ ~closed' => total' <= Cardinality(allConns')
                   /\ total' > total => total' <= maxConns
<1>1. PoolTypeOK /\ CountInv /\ [Next]_vars => CountInv' /\ [Step]_vars
  BY StepKeepsCount DEF CountInv, NotAhead
<1> QED BY <1>1, CountInitially, PoolTypes, PTL DEF Spec, CountHolds

-----------------------------------------------------------------------------
(* Nothing leaks.  A hand takes a connection only when it is empty, and so *)
(* does that of Resize.                                                    *)

Placed(c) == \/ \E u \in Clients : held[u] = c
             \/ \E i \in 1..Len(idle) : idle[i] = c
             \/ resize.back = c

OpenIsPlaced  == ~closed => \A c \in open : c \in allConns /\ Placed(c)
OthersAreFree == \A u \in Clients :
                   pc[u] \notin {"got", "using", "returning", "panicked"} => held[u] = NoConn
BackIsFree    == ~resize.busy => resize.back = NoConn

ReachInv == OpenIsPlaced /\ OthersAreFree /\ BackIsFree

LEMMA ReachInitially == Init => ReachInv
<1> SUFFICES ASSUME Init PROVE ReachInv
  OBVIOUS
<1>1. OthersAreFree /\ BackIsFree
  BY DEF Init, NoResize, OthersAreFree, BackIsFree
<1>2. Len(idle) = MinConns /\ \A i \in 1..MinConns : idle[i] = i
  BY PoolSizes DEF Init
<1>3. open = 1..MinConns /\ allConns = 1..MinConns
  BY DEF Init
<1>4. OpenIsPlaced
  BY <1>2, <1>3 DEF OpenIsPlaced, Placed
<1> QED BY <1>1, <1>4 DEF ReachInv

\* A client takes a step; the connections stay where they are, or some that are
\* not placed any more are not open either.
LEMMA HandsStay ==
  ASSUME PoolTypeOK, ReachInv, UNCHANGED <<held, idle, closed>>, resize'.back = resize.back,
         ~closed => /\ open' \subseteq open
                    /\ \A c \in open' : c \in allConns => c \in allConns'
  PROVE  OpenIsPlaced'
  BY DEF ReachInv, OpenIsPlaced, Placed

LEMMA ClientGoes ==
  ASSUME PoolTypeOK, ReachInv, NEW u \in Clients, NEW there, Goto(u, there),
         \/ held' = [held EXCEPT ![u] = NoConn]
         \/ UNCHANGED held /\ there \in {"using", "returning", "panicked"}
         \/ UNCHANGED held /\ held[u] = NoConn
         \/ (\E c : held' = [held EXCEPT ![u] = c]) /\ there \in {"got", "using"}
  PROVE  OthersAreFree'
<1>1. \A w \in Clients : pc'[w] = IF w = u THEN there ELSE pc[w]
  BY DEF Goto, PoolTypeOK
<1>2. /\ \A w \in Clients \ {u} : held'[w] = held[w]
      /\ there \in {"got", "using", "returning", "panicked"} \/ held'[u] = NoConn
  BY DEF PoolTypeOK
<1> QED BY <1>1, <1>2 DEF ReachInv, OthersAreFree

\* A client puts its connection away: into the channel, or closed.
LEMMA HandLetsGo ==
  ASSUME PoolTypeOK, ReachInv, NEW u \in Clients, held' = [held EXCEPT ![u] = NoConn],
         UNCHANGED <<closed, resize>>,
         \/ Discard(held[u]) /\ UNCHANGED idle
         \/ closed
         \/ held[u] \in Conns /\ idle' = Append(idle, held[u]) /\ UNCHANGED <<open, allConns>>
  PROVE  OpenIsPlaced'
<1>1. \A w \in Clients \ {u} : held'[w] = held[w]
  BY DEF PoolTypeOK
<1>2. CASE Discard(held[u]) /\ UNCHANGED idle
  <2>1. ASSUME ~closed, NEW c \in open' PROVE c \in allConns' /\ Placed(c)'
    <3>1. c \in open /\ c # held[u] /\ (c \in allConns => c \in allConns')
      BY <1>2, <2>1 DEF Discard
    <3>2. c \in allConns /\ Placed(c)
      BY <2>1, <3>1 DEF ReachInv, OpenIsPlaced
    <3> QED BY <1>1, <1>2, <3>1, <3>2 DEF Placed
  <2> QED BY <2>1 DEF OpenIsPlaced
<1>3. CASE closed
  BY <1>3 DEF OpenIsPlaced
<1>4. CASE held[u] \in Conns /\ idle' = Append(idle, held[u]) /\ UNCHANGED <<open, allConns>>
  <2>1. Len(idle') = Len(idle) + 1 /\ Len(idle) \in Nat
    BY <1>4 DEF PoolTypeOK
  <2>2. /\ \A i \in 1..Len(idle) : i \in 1..Len(idle') /\ idle'[i] = idle[i]
        /\ Len(idle) + 1 \in 1..Len(idle') /\ idle'[Len(idle) + 1] = held[u]
    BY <1>4, <2>1 DEF PoolTypeOK
  <2>3. ASSUME ~closed, NEW c \in open' PROVE c \in allConns' /\ Placed(c)'
    <3>1. c \in allConns /\ Placed(c)
      BY <1>4, <2>3 DEF ReachInv, OpenIsPlaced
    <3>2. CASE held[u] = c
      BY <1>4, <2>2, <3>1, <3>2 DEF Placed
    <3>3. CASE held[u] # c
      BY <1>1, <1>4, <2>2, <3>1, <3>3 DEF Placed
    <3> QED BY <3>2, <3>3
  <2> QED BY <2>3 DEF OpenIsPlaced
<1> QED BY <1>2, <1>3, <1>4

\* An empty hand takes the first of the channel.
LEMMA HandTakes ==
  ASSUME PoolTypeOK, ReachInv, NEW u \in Clients, held[u] = NoConn, Receive(u)
  PROVE  OpenIsPlaced' /\ OthersAreFree'
<1>1. idle # <<>> /\ idle' = Tail(idle) /\ UNCHANGED <<open, allConns, closed, resize>>
  BY DEF Receive, poolVars, connVars
<1>2. /\ held' = [held EXCEPT ![u] = Head(idle)] /\ Goto(u, "got")
  BY DEF Receive
<1>3. Len(idle') = Len(idle) - 1 /\ Len(idle) \in Nat /\ Head(idle) = idle[1]
  BY <1>1 DEF PoolTypeOK
<1>4. \A i \in 1..Len(idle) : i = 1 \/ (i - 1 \in 1..Len(idle') /\ idle'[i - 1] = idle[i])
  BY <1>1, <1>3 DEF PoolTypeOK
<1>5. held'[u] = idle[1] /\ \A w \in Clients \ {u} : held'[w] = held[w]
  BY <1>2, <1>3 DEF PoolTypeOK
<1>6. ASSUME ~closed, NEW c \in open PROVE c \in allConns /\ Placed(c)'
  <2>1. c \in allConns /\ Placed(c)
    BY <1>6 DEF ReachInv, OpenIsPlaced
  <2>2. c # NoConn
    <3>1. c \in Conns
      BY <1>6 DEF PoolTypeOK
    <3> QED BY <3>1 DEF Conns, NoConn
  <2>3. CASE \E w \in Clients : held[w] = c
    BY <2>1, <1>5, <2>2, <2>3 DEF Placed
  <2>4. CASE \E i \in 1..Len(idle) : idle[i] = c
    BY <2>1, <1>4, <1>5, <2>4 DEF Placed
  <2>5. CASE resize.back = c
    BY <2>1, <1>1, <2>5 DEF Placed
  <2> QED BY <2>1, <2>3, <2>4, <2>5 DEF Placed
<1>7. OpenIsPlaced'
  BY <1>1, <1>6 DEF OpenIsPlaced
<1>8. OthersAreFree'
  BY <1>2, ClientGoes
<1> QED BY <1>7, <1>8

\* An empty hand takes a new connection.
LEMMA HandCreates ==
  ASSUME PoolTypeOK, ReachInv, NEW u \in Clients, held[u] = NoConn, UNCHANGED <<idle, resize, closed>>,
         open' = open \cup {created'}, allConns' = allConns \cup {created'},
         held' = [held EXCEPT ![u] = created']
  PROVE  OpenIsPlaced'
<1>1. held'[u] = created' /\ \A w \in Clients \ {u} : held'[w] = held[w]
  BY DEF PoolTypeOK
<1>2. ASSUME ~closed, NEW c \in open PROVE c \in allConns /\ Placed(c)'
  <2>1. c \in allConns /\ Placed(c)
    BY <1>2 DEF ReachInv, OpenIsPlaced
  <2>2. c # NoConn
    <3>1. c \in Conns
      BY <1>2 DEF PoolTypeOK
    <3> QED BY <3>1 DEF Conns, NoConn
  <2> QED BY <1>1, <2>1, <2>2 DEF Placed
<1>3. ASSUME NEW c, c = created' PROVE c \in allConns' /\ Placed(c)'
  BY <1>1, <1>3 DEF Placed
<1> QED BY <1>2, <1>3 DEF OpenIsPlaced

\* The hand of Resize, empty before, takes the first of the channel or closes it.
LEMMA ResizeTakes ==
  ASSUME PoolTypeOK, ReachInv, idle # <<>>, idle' = Tail(idle), resize.back = NoConn,
         UNCHANGED <<held, closed>>,
         \/ Discard(Head(idle)) /\ resize'.back = NoConn
         \/ UNCHANGED <<open, allConns>> /\ resize'.back = Head(idle)
  PROVE  OpenIsPlaced'
<1>1. Len(idle') = Len(idle) - 1 /\ Len(idle) \in Nat /\ Head(idle) = idle[1]
  BY DEF PoolTypeOK
<1>2. \A i \in 1..Len(idle) : i = 1 \/ (i - 1 \in 1..Len(idle') /\ idle'[i - 1] = idle[i])
  BY <1>1 DEF PoolTypeOK
<1>3. ASSUME ~closed, NEW c \in open' PROVE c \in allConns' /\ Placed(c)'
  <2>1. c \in open /\ (c \in allConns => c \in allConns') /\ (c = Head(idle) => resize'.back = c)
    BY <1>3 DEF Discard
  <2>2. c \in allConns /\ Placed(c)
    BY <1>3, <2>1 DEF ReachInv, OpenIsPlaced
  <2>3. c # NoConn
    <3>1. c \in Conns
      BY <2>1 DEF PoolTypeOK
    <3> QED BY <3>1 DEF Conns, NoConn
  <2> QED BY <1>1, <1>2, <2>1, <2>2, <2>3 DEF Placed
<1> QED BY <1>3 DEF OpenIsPlaced

LEMMA ResizePutsBack ==
  ASSUME PoolTypeOK, ReachInv, resize.back # NoConn, idle' = Append(idle, resize.back),
         UNCHANGED <<held, open, allConns, closed>>
  PROVE  OpenIsPlaced'
<1>1. Len(idle') = Len(idle) + 1 /\ Len(idle) \in Nat /\ resize.back \in Conns
  BY NumbersAreNumbers DEF PoolTypeOK
<1>2. /\ \A i \in 1..Len(idle) : i \in 1..Len(idle') /\ idle'[i] = idle[i]
      /\ Len(idle) + 1 \in 1..Len(idle') /\ idle'[Len(idle) + 1] = resize.back
  BY <1>1 DEF PoolTypeOK
<1>3. ASSUME ~closed, NEW c \in open PROVE c \in allConns /\ Placed(c)'
  <2>1. c \in allConns /\ Placed(c)
    BY <1>3 DEF ReachInv, OpenIsPlaced
  <2> QED BY <1>2, <2>1 DEF Placed
<1> QED BY <1>3 DEF OpenIsPlaced

-----------------------------------------------------------------------------
LEMMA AcquireKeepsReach ==
  ASSUME PoolTypeOK, ReachInv, NEW u \in Clients, Acquire(u) PROVE ReachInv'
<1>1. SUFFICES OpenIsPlaced' /\ OthersAreFree' /\ UNCHANGED resize
  BY <1>1 DEF ReachInv, BackIsFree
<1>2. pc[u] \notin {"got", "using", "returning", "panicked"} => held[u] = NoConn
  BY DEF ReachInv, OthersAreFree
<1>3. CASE AcquireStart(u) \/ CanCreate(u) \/ AcquireTimeout(u)
  <2>1. held[u] = NoConn /\ UNCHANGED <<held, idle, open, allConns, closed, resize>>
    BY <1>2, <1>3 DEF AcquireStart, CanCreate, AcquireTimeout, At, poolVars, connVars
  <2>2. OthersAreFree'
    BY <1>3, <2>1, ClientGoes DEF AcquireStart, CanCreate, AcquireTimeout
  <2> QED BY <2>1, <2>2, HandsStay
<1>4. CASE AcquireTry(u) \/ AcquireWait(u)
  <2>1. held[u] = NoConn
    BY <1>2, <1>4 DEF AcquireTry, AcquireWait, At
  <2>2. CASE Receive(u)
    BY <2>1, <2>2, HandTakes DEF Receive
  <2>3. CASE ReceiveNil(u) \/ (Goto(u, "maycreate") /\ UNCHANGED <<held, poolVars, idle, connVars, resize>>)
    <3>1. UNCHANGED <<held, idle, open, allConns, closed, resize>>
      BY <2>3 DEF ReceiveNil, poolVars, connVars
    <3>2. OthersAreFree'
      BY <2>1, <2>3, <3>1, ClientGoes DEF ReceiveNil
    <3> QED BY <3>1, <3>2, HandsStay
  <2> QED BY <1>4, <2>2, <2>3 DEF AcquireTry, AcquireWait
<1>5. CASE CreateConnection(u)
  <2>1. held[u] = NoConn /\ UNCHANGED <<idle, resize>>
    BY <1>2, <1>5 DEF CreateConnection, At
  <2>2. CASE /\ open' = open \cup {created'} /\ allConns' = allConns \cup {created'}
             /\ held' = [held EXCEPT ![u] = created'] /\ Goto(u, "using") /\ UNCHANGED closed
    <3>1. OpenIsPlaced'
      BY <2>1, <2>2, HandCreates
    <3>2. OthersAreFree'
      BY <2>2, ClientGoes
    <3> QED BY <2>1, <3>1, <3>2
  <2>3. CASE Goto(u, "out") /\ UNCHANGED <<held, poolVars, connVars>>
    <3>1. OthersAreFree'
      BY <2>1, <2>3, ClientGoes
    <3> QED BY <2>1, <2>3, <3>1, HandsStay DEF poolVars, connVars
  <2> QED BY <1>5, <2>2, <2>3 DEF CreateConnection
<1>6. CASE AcquireVerify(u)
  <2>1. UNCHANGED <<idle, closed, resize>>
    BY <1>6 DEF AcquireVerify
  <2>2. CASE IsHealthy(held[u])
    <3>1. Goto(u, "using") /\ UNCHANGED <<held, open, allConns>>
      BY <1>6, <2>2 DEF AcquireVerify
    <3>2. OthersAreFree'
      BY <3>1, ClientGoes
    <3> QED BY <2>1, <3>1, <3>2, HandsStay
  <2>3. CASE ~IsHealthy(held[u])
    <3>1. Goto(u, "again") /\ held' = [held EXCEPT ![u] = NoConn] /\ Discard(held[u])
      BY <1>6, <2>3 DEF AcquireVerify
    <3>2. OthersAreFree'
      BY <3>1, ClientGoes
    <3> QED BY <2>1, <3>1, <3>2, HandLetsGo
  <2> QED BY <2>2, <2>3
<1> QED BY <1>3, <1>4, <1>5, <1>6 DEF Acquire

LEMMA ReleaseKeepsReach ==
  ASSUME PoolTypeOK, ReachInv, NEW u \in Clients, Release(u) PROVE ReachInv'
<1>1. SUFFICES OpenIsPlaced' /\ OthersAreFree' /\ UNCHANGED resize
  BY <1>1 DEF ReachInv, BackIsFree
<1>2. CASE ReleaseStart(u)
  <2>1. UNCHANGED <<idle, closed, allConns, resize>>
    BY <1>2 DEF ReleaseStart, poolVars
  <2>2. CASE closed
    <3>1. Goto(u, "out") /\ held' = [held EXCEPT ![u] = NoConn]
      BY <1>2, <2>2 DEF ReleaseStart
    <3> QED BY <2>1, <2>2, <3>1, ClientGoes, HandLetsGo
  <2>3. CASE ~closed
    <3>1. Goto(u, "returning") /\ UNCHANGED <<open, held>>
      BY <1>2, <2>3 DEF ReleaseStart
    <3> QED BY <2>1, <3>1, ClientGoes, HandsStay
  <2> QED BY <2>2, <2>3
<1>3. CASE ReleaseDiscard(u)
  <2>1. /\ Goto(u, "out") /\ held' = [held EXCEPT ![u] = NoConn] /\ Discard(held[u])
        /\ UNCHANGED <<idle, closed, resize>>
    BY <1>3 DEF ReleaseDiscard
  <2> QED BY <2>1, ClientGoes, HandLetsGo
<1>4. CASE ReleaseSend(u)
  <2>1. UNCHANGED <<closed, allConns, open, resize>>
    BY <1>4 DEF ReleaseSend, poolVars, connVars
  <2>2. CASE closed
    <3>1. Goto(u, "panicked") /\ UNCHANGED <<idle, held>>
      BY <1>4, <2>2 DEF ReleaseSend
    <3> QED BY <2>1, <3>1, ClientGoes, HandsStay
  <2>3. CASE ~closed
    <3>1. /\ Goto(u, "counting") /\ held' = [held EXCEPT ![u] = NoConn]
          /\ idle' = Append(idle, held[u])
      BY <1>4, <2>3 DEF ReleaseSend
    <3>2. held[u] \in Conns
      BY <1>4 DEF ReleaseSend, Returnable, IsHealthy, PoolTypeOK
    <3> QED BY <2>1, <3>1, <3>2, ClientGoes, HandLetsGo
  <2> QED BY <2>2, <2>3
<1>5. CASE ReleaseCount(u)
  <2>1. Goto(u, "out") /\ held[u] = NoConn /\ UNCHANGED <<held, idle, open, allConns, closed, resize>>
    BY <1>5 DEF ReleaseCount, At, connVars, ReachInv, OthersAreFree
  <2> QED BY <2>1, ClientGoes, HandsStay
<1> QED BY <1>2, <1>3, <1>4, <1>5 DEF Release

LEMMA ResizeKeepsReach ==
  ASSUME PoolTypeOK, ReachInv, Resize PROVE ReachInv'
<1>1. UNCHANGED <<pc, held, closed>>
  BY DEF Resize, ResizeStart, ResizeTurn, ResizePutBack, ResizePanic, ResizeEnd, clientVars, poolVars
<1>2. OthersAreFree'
  BY <1>1 DEF ReachInv, OthersAreFree
<1>3. SUFFICES OpenIsPlaced' /\ BackIsFree'
  BY <1>2, <1>3 DEF ReachInv
<1>4. CASE \E n \in NewMaxima : ResizeStart(n)
  <2>1. PICK n \in NewMaxima : ResizeStart(n)
    BY <1>4
  <2>2. resize.back = NoConn /\ resize'.back = NoConn
    BY <2>1 DEF ResizeStart, NoResize, Unlocked, ReachInv, BackIsFree
  <2>3. OpenIsPlaced'
    BY <1>1, <2>1, <2>2, HandsStay DEF ResizeStart, connVars
  <2> QED BY <2>2, <2>3 DEF BackIsFree
<1>5. CASE ResizeTurn
  <2> DEFINE c == Newest(resize.rest)
  <2> HIDE DEF c
  <2>1. resize.back = NoConn /\ resize.busy
    BY <1>5 DEF ResizeTurn, AtTurn
  <2>2. resize'.busy
    BY <1>5, <2>1 DEF ResizeTurn, PoolTypeOK
  <2>3. CASE idle = <<>>
    <3>1. UNCHANGED <<idle, open, allConns>> /\ resize' = [resize EXCEPT !.rest = @ \ {c}]
      BY <1>5, <2>3 DEF ResizeTurn, c
    <3>2. resize'.back = resize.back
      BY <3>1 DEF PoolTypeOK
    <3>3. OpenIsPlaced'
      BY <1>1, <3>1, <3>2, HandsStay
    <3> QED BY <2>2, <3>3 DEF BackIsFree
  <2>4. CASE idle # <<>>
    <3>1. idle' = Tail(idle)
      BY <1>5, <2>4 DEF ResizeTurn
    <3>2. CASE Head(idle) = c
      <4>1. Discard(c) /\ resize' = [resize EXCEPT !.rest = @ \ {c}, !.excess = resize.excess - 1]
        BY <1>5, <2>4, <3>2 DEF ResizeTurn, c
      <4>2. resize'.back = NoConn
        BY <2>1, <4>1 DEF PoolTypeOK
      <4>3. OpenIsPlaced'
        BY <1>1, <2>1, <2>4, <3>1, <3>2, <4>1, <4>2, ResizeTakes
      <4> QED BY <2>2, <4>3 DEF BackIsFree
    <3>3. CASE Head(idle) # c
      <4>1. UNCHANGED <<open, allConns>> /\ resize' = [resize EXCEPT !.rest = @ \ {c}, !.back = Head(idle)]
        BY <1>5, <2>4, <3>3 DEF ResizeTurn, c
      <4>2. resize'.back = Head(idle)
        BY <4>1 DEF PoolTypeOK
      <4>3. OpenIsPlaced'
        BY <1>1, <2>1, <2>4, <3>1, <4>1, <4>2, ResizeTakes
      <4> QED BY <2>2, <4>3 DEF BackIsFree
    <3> QED BY <3>2, <3>3
  <2> QED BY <2>3, <2>4
<1>6. CASE ResizePutBack
  <2>1. resize'.back = NoConn
    BY <1>6 DEF ResizePutBack, PoolTypeOK
  <2>2. OpenIsPlaced'
    BY <1>1, <1>6, ResizePutsBack DEF ResizePutBack, poolVars, connVars
  <2> QED BY <2>1, <2>2 DEF BackIsFree
<1>7. CASE ResizeEnd
  <2>1. resize.back = NoConn /\ resize'.back = NoConn
    BY <1>7 DEF ResizeEnd, NoResize
  <2>2. OpenIsPlaced'
    BY <1>1, <1>7, <2>1, HandsStay DEF ResizeEnd, poolVars, connVars
  <2> QED BY <2>1, <2>2 DEF BackIsFree
<1>8. CASE ResizePanic
  <2>1. closed' /\ resize'.back = NoConn
    BY <1>1, <1>8 DEF ResizePanic, NoResize
  <2> QED BY <2>1 DEF OpenIsPlaced, BackIsFree
<1> QED BY <1>4, <1>5, <1>6, <1>7, <1>8 DEF Resize

LEMMA PoolStepKeepsReach == PoolTypeOK /\ ReachInv /\ [Next]_vars => ReachInv'
<1> SUFFICES ASSUME PoolTypeOK, ReachInv, [Next]_vars PROVE ReachInv'
  OBVIOUS
<1>1. CASE \E u \in Clients : Acquire(u) \/ Release(u)
  BY <1>1, AcquireKeepsReach, ReleaseKeepsReach
<1>2. CASE Resize
  BY <1>2, ResizeKeepsReach
<1>3. CASE /\ UNCHANGED <<pc, held, idle, resize, closed>>
           /\ open' \subseteq open
           /\ \A c \in open' : c \in allConns => c \in allConns'
  <2>1. OpenIsPlaced'
    BY <1>3, HandsStay
  <2> QED BY <1>3, <2>1 DEF ReachInv, OthersAreFree, BackIsFree
<1>4. CASE HealthCheck
  BY <1>3, <1>4 DEF HealthCheck, clientVars
<1>5. CASE Close
  BY <1>5 DEF Close, clientVars, ReachInv, OpenIsPlaced, OthersAreFree, BackIsFree
<1>6. CASE \E c \in Conns, how \in {"unused", "old", "sick"} : Degrade(c, how)
  BY <1>3, <1>6 DEF Degrade, poolVars, clientVars
<1>7. CASE UNCHANGED vars
  BY <1>3, <1>7 DEF vars, poolVars, connVars, clientVars
<1> QED BY <1>1, <1>2, <1>4, <1>5, <1>6, <1>7 DEF Next

LEMMA ReachIsReachable == ReachInv => OpenIsReachable
  BY DEF ReachInv, OpenIsPlaced, Placed, OpenIsReachable, Holders, Slots

\* Until Close every open connection is listed and in somebody's hand or in the
\* channel, although list and channel change at different times
\* (connection_pool.go:75, 147, 246, 349).
THEOREM NothingLeaks == Spec => []OpenIsReachable
  BY ReachInitially, PoolTypes, PoolStepKeepsReach, ReachIsReachable, PTL DEF Spec
=================================================================================
