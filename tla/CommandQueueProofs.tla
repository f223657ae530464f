------------------------- MODULE CommandQueueProofs -------------------------
(***************************************************************************)
(* Proofs about the command queue, for every set of lanes, tasks and       *)
(* waiters and every bound.  The inductive invariant is the conjunction of *)
(* the invariants TLC checks and of two facts about the past that they     *)
(* rest on: a task was never started in a generation its lane has not      *)
(* reached, and a waiter only ever waits for tasks that were started.      *)
(***************************************************************************)
EXTENDS CommandQueue, TLAPS, FiniteSetTheorems, SequenceTheorems

\* No task was started in a generation that lies ahead of its lane.
StartedInPast == \A t \in Tasks : startGen[t] <= generation[lane[t]]

\* The ids a waiter remembers are ids of tasks that were started.
WaitsForStarted ==
  \A w \in Waiters : \A t \in waiter[w].ids : phase[t] \in {"settled", "running"}

-----------------------------------------------------------------------------
(* The pump, one lane at a time. *)

\* A lane of queue q, active set a and cap m admits no more entries than it
\* has, stays within its cap if it admits any, and fills its slots if entries
\* are left (the loop of drainLane).
LEMMA PumpCountFacts ==
  ASSUME NEW q \in Seq(Tasks), NEW a \in SUBSET Tasks, NEW m \in Nat \ {0}
  PROVE  /\ PumpCount(q, a, m) \in 0 .. Len(q)
         /\ PumpCount(q, a, m) # 0 => Cardinality(a) + PumpCount(q, a, m) <= m
         /\ PumpCount(q, a, m) # Len(q) => Cardinality(a) + PumpCount(q, a, m) >= m
         /\ Cardinality(a) \in Nat
         /\ IsFiniteSet(a)
<1>1. IsFiniteSet(a) /\ Cardinality(a) \in Nat
  BY ConstantsAssumption, FS_Subset, FS_CardinalityType
<1>2. Len(q) \in Nat
  BY LenProperties
<1> QED
  BY <1>1, <1>2 DEF PumpCount

\* What is left of a queue after its first n entries went is a queue again,
\* with the same entries n places further to the front.
LEMMA RestOfFacts ==
  ASSUME NEW q \in Seq(Tasks), NEW n \in 0 .. Len(q)
  PROVE  /\ RestOf(q, n) \in Seq(Tasks)
         /\ Len(RestOf(q, n)) = Len(q) - n
         /\ \A i \in 1 .. Len(q) - n : RestOf(q, n)[i] = q[n + i]
         /\ FirstOf(q, n) \subseteq Tasks
<1>1. Len(q) \in Nat /\ \A i \in 1 .. Len(q) : q[i] \in Tasks
  BY LenProperties, ElementOfSeq
<1>2. n + 1 \in Int /\ Len(q) \in Int /\ \A i \in n + 1 .. Len(q) : q[i] \in Tasks
  BY <1>1
<1>3. /\ SubSeq(q, n + 1, Len(q)) \in Seq(Tasks)
      /\ Len(SubSeq(q, n + 1, Len(q))) = IF n + 1 <= Len(q) THEN Len(q) - (n + 1) + 1 ELSE 0
      /\ \A i \in 1 .. Len(q) - (n + 1) + 1 : SubSeq(q, n + 1, Len(q))[i] = q[n + 1 + i - 1]
  BY <1>2, SubSeqProperties
<1>4. \A i \in 1 .. Len(q) - n : i \in 1 .. Len(q) - (n + 1) + 1 /\ n + 1 + i - 1 = n + i
  BY <1>1
<1> QED
  BY <1>1, <1>3, <1>4 DEF RestOf, FirstOf

\* The first n entries of a queue without repetitions are n tasks.
LEMMA FirstOfCount ==
  ASSUME NEW q \in Seq(Tasks), NEW n \in 0 .. Len(q),
         \A i, j \in 1 .. Len(q) : q[i] = q[j] => i = j
  PROVE  IsFiniteSet(FirstOf(q, n)) /\ Cardinality(FirstOf(q, n)) = n
<1> DEFINE f == [i \in 1 .. n |-> q[i]]
<1>1. Len(q) \in Nat
  BY LenProperties
<1>2. f \in Surjection(1 .. n, FirstOf(q, n))
  BY DEF Surjection, FirstOf
<1>3. f \in Injection(1 .. n, FirstOf(q, n))
  BY <1>1 DEF Injection, IsInjective, FirstOf
<1>4. IsFiniteSet(1 .. n) /\ Cardinality(1 .. n) = n
  BY <1>1, FS_Interval
<1> QED
  BY <1>2, <1>3, <1>4, FS_Surjection

-----------------------------------------------------------------------------
(* What drainLane keeps.  The three invariants about lanes are stated for   *)
(* the queues Q, active sets A, caps M, generations G and task phases P the *)
(* drain starts from, which no state of the system need have.               *)

Types(Q, A, M, G, P) ==
  /\ Q \in [Lanes -> Seq(Tasks)]
  /\ A \in [Lanes -> SUBSET Tasks]
  /\ M \in [Lanes -> 1 .. MaxConcurrency]
  /\ G \in [Lanes -> Generations]
  /\ P \in [Tasks -> Phases]

Holds(t, Q, l) == \E i \in 1 .. Len(Q[l]) : Q[l][i] = t

Queued(Q, P) ==
  /\ \A t \in Tasks : P[t] = "queued" <=> \E l \in Lanes : Holds(t, Q, l)
  /\ \A l \in Lanes : \A i \in 1 .. Len(Q[l]) :
       /\ lane[Q[l][i]] = l
       /\ \A j \in 1 .. Len(Q[l]) : Q[l][i] = Q[l][j] => i = j

Slots(A, G, P) ==
  \A t \in Tasks, l \in Lanes :
    t \in A[l] <=> P[t] = "running" /\ lane[t] = l /\ startGen[t] = G[l]

Busy(L, Q, A, M) == \A l \in L : Q[l] # <<>> => Cardinality(A[l]) >= M[l]

Taken(L, Q, A, M, l) == IF l \in L THEN PumpCount(Q[l], A[l], M[l]) ELSE 0

\* What a drain takes off one lane.
LEMMA TakenFacts ==
  ASSUME NEW L \in SUBSET Lanes, NEW Q, NEW A, NEW M, NEW G, NEW P,
         Types(Q, A, M, G, P), NEW l \in Lanes
  PROVE  /\ Q[l] \in Seq(Tasks) /\ A[l] \subseteq Tasks /\ M[l] \in Nat \ {0}
         /\ Taken(L, Q, A, M, l) \in 0 .. Len(Q[l])
         /\ FirstOf(Q[l], Taken(L, Q, A, M, l)) \subseteq Tasks
<1>1. Q[l] \in Seq(Tasks) /\ A[l] \in SUBSET Tasks /\ M[l] \in Nat \ {0}
  BY ConstantsAssumption DEF Types
<1>2. PumpCount(Q[l], A[l], M[l]) \in 0 .. Len(Q[l]) /\ Len(Q[l]) \in Nat
  BY <1>1, PumpCountFacts, LenProperties
<1>3. Taken(L, Q, A, M, l) \in 0 .. Len(Q[l])
  BY <1>2 DEF Taken
<1>4. FirstOf(Q[l], Taken(L, Q, A, M, l)) \subseteq Tasks
  BY <1>1, <1>3, RestOfFacts
<1> QED
  BY <1>1, <1>3, <1>4

\* A drain, one lane at a time.
LEMMA DrainLane ==
  ASSUME NEW L, NEW Q, NEW A, NEW M, NEW G, NEW P, Drain(L, Q, A, M, G, P),
         NEW l \in Lanes
  PROVE  /\ queue'[l] = RestOf(Q[l], Taken(L, Q, A, M, l))
         /\ active'[l] = A[l] \cup FirstOf(Q[l], Taken(L, Q, A, M, l))
  BY DEF Drain, Taken

\* The tasks a drain starts are the ones it takes off the queues.
LEMMA StartedIffTaken ==
  ASSUME NEW L \in SUBSET Lanes, NEW Q, NEW A, NEW M, NEW t
  PROVE  t \in Started(L, Q, A, M)
           <=> \E l \in Lanes : t \in FirstOf(Q[l], Taken(L, Q, A, M, l))
<1>1. \A l \in Lanes : FirstOf(Q[l], 0) = {}
  BY DEF FirstOf
<1> QED
  BY <1>1 DEF Started, Taken

\* A drain leaves values of the right types.
LEMMA DrainTypes ==
  ASSUME NEW L \in SUBSET Lanes, NEW Q, NEW A, NEW M, NEW G, NEW P,
         Types(Q, A, M, G, P), Drain(L, Q, A, M, G, P),
         lane \in [Tasks -> Lanes], startGen \in [Tasks -> Generations]
  PROVE  /\ queue' \in [Lanes -> Seq(Tasks)]
         /\ active' \in [Lanes -> SUBSET Tasks]
         /\ phase' \in [Tasks -> Phases]
         /\ startGen' \in [Tasks -> Generations]
<1>1. ASSUME NEW l \in Lanes
      PROVE  queue'[l] \in Seq(Tasks) /\ active'[l] \in SUBSET Tasks
  <2>1. Q[l] \in Seq(Tasks) /\ Taken(L, Q, A, M, l) \in 0 .. Len(Q[l])
    BY TakenFacts
  <2>2. RestOf(Q[l], Taken(L, Q, A, M, l)) \in Seq(Tasks)
    BY <2>1, RestOfFacts
  <2>3. A[l] \subseteq Tasks /\ FirstOf(Q[l], Taken(L, Q, A, M, l)) \subseteq Tasks
    BY TakenFacts
  <2>4. queue'[l] = RestOf(Q[l], Taken(L, Q, A, M, l))
    BY DrainLane
  <2>5. active'[l] = A[l] \cup FirstOf(Q[l], Taken(L, Q, A, M, l))
    BY DrainLane
  <2> QED
    BY <2>2, <2>3, <2>4, <2>5
<1>2. queue' = [l \in Lanes |-> queue'[l]] /\ active' = [l \in Lanes |-> active'[l]]
  BY DEF Drain
<1>3. "running" \in Phases
  BY DEF Phases
<1>4. phase' \in [Tasks -> Phases]
  BY <1>3 DEF Drain, Types
<1>5. startGen' \in [Tasks -> Generations]
  BY DEF Drain, Types
<1> QED
  BY <1>1, <1>2, <1>4, <1>5

\* A drain keeps each waiting entry in one place of one queue, and takes only
\* waiting entries.
LEMMA DrainKeepsQueued ==
  ASSUME NEW L \in SUBSET Lanes, NEW Q, NEW A, NEW M, NEW G, NEW P,
         Types(Q, A, M, G, P), Drain(L, Q, A, M, G, P), Queued(Q, P), lane' = lane
  PROVE  QueuedOnce'
<1> DEFINE n(l) == Taken(L, Q, A, M, l)
<1>1. ASSUME NEW l \in Lanes
      PROVE  /\ Len(Q[l]) \in Nat /\ n(l) \in 0 .. Len(Q[l])
             /\ Len(queue'[l]) = Len(Q[l]) - n(l)
             /\ \A i \in 1 .. Len(queue'[l]) :
                  queue'[l][i] = Q[l][n(l) + i] /\ n(l) + i \in 1 .. Len(Q[l])
             /\ \A i \in 1 .. Len(Q[l]) : Q[l][i] \in Tasks
  <2>1. /\ Q[l] \in Seq(Tasks) /\ n(l) \in 0 .. Len(Q[l])
    BY TakenFacts
  <2>2. queue'[l] = RestOf(Q[l], n(l))
    BY DrainLane
  <2> HIDE DEF n
  <2>3. Len(Q[l]) \in Nat /\ \A i \in 1 .. Len(Q[l]) : Q[l][i] \in Tasks
    BY <2>1, LenProperties, ElementOfSeq
  <2>4. /\ Len(RestOf(Q[l], n(l))) = Len(Q[l]) - n(l)
        /\ \A i \in 1 .. Len(Q[l]) - n(l) : RestOf(Q[l], n(l))[i] = Q[l][n(l) + i]
    BY <2>1, RestOfFacts
  <2> QED
    BY <2>1, <2>2, <2>3, <2>4
<1>2. ASSUME NEW l \in Lanes, NEW t
      PROVE  t \in FirstOf(Q[l], n(l)) <=> \E i \in 1 .. n(l) : Q[l][i] = t
  BY DEF FirstOf
<1>3. ASSUME NEW t \in Tasks
      PROVE  \/ phase'[t] = "running" /\ \E l \in Lanes : t \in FirstOf(Q[l], n(l))
             \/ phase'[t] = P[t] /\ \A l \in Lanes : t \notin FirstOf(Q[l], n(l))
  <2>1. CASE \E l \in Lanes : t \in FirstOf(Q[l], n(l))
    BY <2>1, StartedIffTaken DEF Drain
  <2>2. CASE \A l \in Lanes : t \notin FirstOf(Q[l], n(l))
    BY <2>2, StartedIffTaken DEF Drain
  <2> QED
    BY <2>1, <2>2
<1> HIDE DEF n
<1>4. ASSUME NEW l \in Lanes, NEW i \in 1 .. Len(queue'[l])
      PROVE  /\ lane'[queue'[l][i]] = l
             /\ \A j \in 1 .. Len(queue'[l]) : queue'[l][i] = queue'[l][j] => i = j
  <2>1. queue'[l][i] = Q[l][n(l) + i] /\ n(l) + i \in 1 .. Len(Q[l])
    BY <1>1
  <2>2. lane[queue'[l][i]] = l
    BY <2>1 DEF Queued
  <2>3. ASSUME NEW j \in 1 .. Len(queue'[l]), queue'[l][i] = queue'[l][j]
        PROVE  i = j
    <3>1. queue'[l][j] = Q[l][n(l) + j] /\ n(l) + j \in 1 .. Len(Q[l])
      BY <1>1
    <3>2. n(l) + i = n(l) + j
      <4>1. \A x, y \in 1 .. Len(Q[l]) : Q[l][x] = Q[l][y] => x = y
        BY DEF Queued
      <4>2. Q[l][n(l) + i] = Q[l][n(l) + j]
        BY <2>1, <2>3, <3>1
      <4> QED
        BY <2>1, <3>1, <4>1, <4>2, Zenon
    <3>3. n(l) \in Int /\ i \in Int /\ j \in Int
      BY <1>1
    <3> QED
      BY <3>2, <3>3
  <2> QED
    BY <2>2, <2>3
<1>5. ASSUME NEW t \in Tasks, phase'[t] = "queued"
      PROVE  \E l \in Lanes : \E i \in 1 .. Len(queue'[l]) : queue'[l][i] = t
  <2>1. P[t] = "queued" /\ \A l \in Lanes : t \notin FirstOf(Q[l], n(l))
    BY <1>3, <1>5
  <2>2. PICK l \in Lanes : \E i \in 1 .. Len(Q[l]) : Q[l][i] = t
    BY <2>1 DEF Queued, Holds
  <2>3. PICK i \in 1 .. Len(Q[l]) : Q[l][i] = t
    BY <2>2
  <2>4. i > n(l)
    <3>1. i \notin 1 .. n(l)
      BY <1>2, <2>1, <2>3
    <3> QED
      BY <1>1, <3>1
  <2>5. i - n(l) \in 1 .. Len(queue'[l]) /\ n(l) + (i - n(l)) = i
    BY <1>1, <2>4
  <2>6. queue'[l][i - n(l)] = t
    BY <1>1, <2>3, <2>5
  <2> QED
    BY <2>5, <2>6
<1>6. ASSUME NEW t \in Tasks, NEW l \in Lanes, NEW i \in 1 .. Len(queue'[l]), queue'[l][i] = t
      PROVE  phase'[t] = "queued"
  <2>1. Q[l][n(l) + i] = t /\ n(l) + i \in 1 .. Len(Q[l])
    BY <1>1, <1>6
  <2>2. P[t] = "queued" /\ lane[t] = l
    BY <2>1 DEF Queued, Holds
  <2>3. ASSUME NEW k \in Lanes, t \in FirstOf(Q[k], n(k))
        PROVE  FALSE
    <3>1. PICK j \in 1 .. n(k) : Q[k][j] = t
      BY <1>2, <2>3
    <3>2. j \in 1 .. Len(Q[k])
      BY <1>1
    <3>3. k = l
      BY <2>2, <3>1, <3>2 DEF Queued
    <3> QED
      BY <1>1, <2>1, <3>1, <3>2, <3>3 DEF Queued
  <2> QED
    BY <1>3, <2>2, <2>3
<1> QED
  BY <1>4, <1>5, <1>6 DEF QueuedOnce

\* A drain gives slots to the tasks it starts and to no other.
LEMMA DrainKeepsSlots ==
  ASSUME NEW L \in SUBSET Lanes, NEW Q, NEW A, NEW M, NEW G, NEW P,
         Types(Q, A, M, G, P), Drain(L, Q, A, M, G, P), Queued(Q, P),
         Slots(A, G, P), lane' = lane, generation' = G
  PROVE  SlotsHeldByCurrentTasks'
<1> DEFINE n(l) == Taken(L, Q, A, M, l)
<1>1. ASSUME NEW l \in Lanes, NEW t \in FirstOf(Q[l], n(l))
      PROVE  t \in Tasks /\ P[t] = "queued" /\ lane[t] = l
  <2>1. Q[l] \in Seq(Tasks) /\ n(l) \in 0 .. Len(Q[l]) /\ t \in Tasks
    BY <1>1, TakenFacts
  <2>2. Len(Q[l]) \in Nat
    BY <2>1, LenProperties
  <2>3. PICK i \in 1 .. n(l) : Q[l][i] = t
    BY <1>1 DEF FirstOf
  <2>4. i \in 1 .. Len(Q[l])
    BY <2>1, <2>2
  <2> QED
    BY <2>1, <2>3, <2>4 DEF Queued, Holds
<1>2. ASSUME NEW t \in Tasks, NEW l \in Lanes
      PROVE  t \in active'[l] <=>
               phase'[t] = "running" /\ lane[t] = l /\ startGen'[t] = G[l]
  <2>1. active'[l] = A[l] \cup FirstOf(Q[l], n(l))
    BY DrainLane
  <2>2. CASE \E k \in Lanes : t \in FirstOf(Q[k], n(k))
    <3>1. PICK k \in Lanes : t \in FirstOf(Q[k], n(k))
      BY <2>2
    <3>2. phase'[t] = "running" /\ startGen'[t] = G[lane[t]]
      BY <3>1, StartedIffTaken DEF Drain
    <3>3. lane[t] = k /\ P[t] = "queued"
      BY <1>1, <3>1
    <3>4. t \notin A[l]
      BY <3>3 DEF Slots
    <3> QED
      BY <1>1, <2>1, <3>1, <3>2, <3>3, <3>4
  <2>3. CASE ~ \E k \in Lanes : t \in FirstOf(Q[k], n(k))
    <3>1. phase'[t] = P[t] /\ startGen'[t] = startGen[t]
      BY <2>3, StartedIffTaken DEF Drain
    <3> QED
      BY <2>1, <2>3, <3>1 DEF Slots
  <2> QED
    BY <2>2, <2>3
<1> QED
  BY <1>2 DEF SlotsHeldByCurrentTasks

\* A drain fills as many slots as it takes entries: an entry that waits holds
\* no slot yet, and no entry waits twice.
LEMMA DrainCounts ==
  ASSUME NEW L \in SUBSET Lanes, NEW Q, NEW A, NEW M, NEW G, NEW P,
         Types(Q, A, M, G, P), Drain(L, Q, A, M, G, P), Queued(Q, P),
         Slots(A, G, P), NEW l \in Lanes
  PROVE  /\ Cardinality(A[l]) \in Nat
         /\ Cardinality(active'[l]) = Cardinality(A[l]) + Taken(L, Q, A, M, l)
<1> DEFINE n == Taken(L, Q, A, M, l)
<1>1. /\ Q[l] \in Seq(Tasks) /\ A[l] \subseteq Tasks /\ M[l] \in Nat \ {0}
      /\ n \in 0 .. Len(Q[l])
  BY TakenFacts
<1>2. active'[l] = A[l] \cup FirstOf(Q[l], n)
  BY DrainLane
<1> HIDE DEF n
<1>3. IsFiniteSet(A[l]) /\ Cardinality(A[l]) \in Nat
  BY <1>1, ConstantsAssumption, FS_Subset, FS_CardinalityType
<1>4. IsFiniteSet(FirstOf(Q[l], n)) /\ Cardinality(FirstOf(Q[l], n)) = n
  <2>1. \A i, j \in 1 .. Len(Q[l]) : Q[l][i] = Q[l][j] => i = j
    BY DEF Queued
  <2> QED
    BY <1>1, <2>1, FirstOfCount
<1>5. A[l] \cap FirstOf(Q[l], n) = {}
  <2>1. SUFFICES ASSUME NEW t \in A[l], t \in FirstOf(Q[l], n)
                 PROVE  FALSE
    OBVIOUS
  <2>2. PICK i \in 1 .. n : Q[l][i] = t
    BY <2>1 DEF FirstOf
  <2>3. Len(Q[l]) \in Nat
    BY <1>1, LenProperties
  <2>4. i \in 1 .. Len(Q[l]) /\ t \in Tasks
    BY <1>1, <2>3
  <2>5. P[t] = "queued"
    BY <2>2, <2>4 DEF Queued, Holds
  <2>6. P[t] = "running"
    BY <2>4 DEF Slots
  <2> QED
    BY <2>5, <2>6
<1>6. Cardinality(A[l] \cup FirstOf(Q[l], n)) = Cardinality(A[l]) + n - Cardinality({})
  <2>1. Cardinality(A[l] \cup FirstOf(Q[l], n))
          = Cardinality(A[l]) + Cardinality(FirstOf(Q[l], n)) - Cardinality(A[l] \cap FirstOf(Q[l], n))
    BY <1>3, <1>4, FS_Union
  <2> QED
    BY <1>4, <1>5, <2>1
<1>7. n \in Nat
  <2>1. Len(Q[l]) \in Nat
    BY <1>1, LenProperties
  <2> QED
    BY <1>1, <2>1
<1>8. Cardinality(active'[l]) = Cardinality(A[l]) + n
  BY <1>2, <1>3, <1>6, <1>7, FS_EmptySet
<1> QED
  BY <1>3, <1>8 DEF n

\* A drain leaves no drained lane with an entry and a free slot.
LEMMA DrainKeepsBusy ==
  ASSUME NEW L \in SUBSET Lanes, NEW Q, NEW A, NEW M, NEW G, NEW P,
         Types(Q, A, M, G, P), Drain(L, Q, A, M, G, P), Queued(Q, P),
         Slots(A, G, P), Busy(Lanes \ L, Q, A, M), maxConcurrent' = M
  PROVE  WorkConserving'
<1>1. SUFFICES ASSUME NEW l \in Lanes, queue'[l] # <<>>
               PROVE  Cardinality(active'[l]) >= M[l]
  BY DEF WorkConserving
<1> DEFINE n == Taken(L, Q, A, M, l)
<1>2. /\ Q[l] \in Seq(Tasks) /\ A[l] \subseteq Tasks /\ M[l] \in Nat \ {0}
      /\ n \in 0 .. Len(Q[l])
  BY TakenFacts
<1>3. queue'[l] = RestOf(Q[l], n)
  BY DrainLane
<1>4. Cardinality(A[l]) \in Nat /\ Cardinality(active'[l]) = Cardinality(A[l]) + n
  BY DrainCounts
<1>5. n = IF l \in L THEN PumpCount(Q[l], A[l], M[l]) ELSE 0
  BY DEF Taken
<1> HIDE DEF n
<1>6. Len(Q[l]) \in Nat /\ Len(RestOf(Q[l], n)) = Len(Q[l]) - n /\ RestOf(Q[l], n) \in Seq(Tasks)
  BY <1>2, LenProperties, RestOfFacts
<1>7. Len(Q[l]) - n # 0
  BY <1>1, <1>3, <1>6, EmptySeq
<1>8. CASE l \in L
  <2>1. n = PumpCount(Q[l], A[l], M[l]) /\ n # Len(Q[l])
    BY <1>2, <1>5, <1>6, <1>7, <1>8
  <2>2. Cardinality(A[l]) + n >= M[l]
    BY <1>2, <2>1, PumpCountFacts
  <2> QED
    BY <1>4, <2>2
<1>9. CASE l \notin L
  <2>1. n = 0 /\ Len(Q[l]) # 0
    BY <1>5, <1>6, <1>7, <1>9
  <2>2. Q[l] # <<>>
    BY <2>1, EmptySeq
  <2>3. Cardinality(A[l]) >= M[l]
    BY <1>9, <2>2 DEF Busy
  <2> QED
    BY <1>2, <1>4, <2>1, <2>3
<1> QED
  BY <1>8, <1>9

-----------------------------------------------------------------------------
(* The inductive invariant.  Every action that changes a lane is a change    *)
(* of queues, active sets, caps, generations or phases followed by a drain. *)

LanesOK ==
  /\ TypeOK
  /\ QueuedOnce
  /\ SlotsHeldByCurrentTasks
  /\ WorkConserving
  /\ StartedInPast

Waiting ==
  /\ WaitsForStarted
  /\ DrainedMeansDone
  /\ NoForgottenWaiter

IInv == LanesOK /\ Waiting

\* The invariants about lanes are the drain's, at the state itself.
LEMMA LanesAreDrainable ==
  ASSUME LanesOK
  PROVE  /\ Types(queue, active, maxConcurrent, generation, phase)
         /\ Queued(queue, phase)
         /\ Slots(active, generation, phase)
         /\ Busy(Lanes, queue, active, maxConcurrent)
         /\ lane \in [Tasks -> Lanes]
         /\ startGen \in [Tasks -> Generations]
  BY DEF LanesOK, TypeOK, QueuedOnce, SlotsHeldByCurrentTasks, WorkConserving,
         Types, Queued, Slots, Busy, Holds

\* A change that keeps the drain's invariants, followed by the drain, keeps
\* the invariants about lanes.
LEMMA DrainKeepsLanes ==
  ASSUME NEW L \in SUBSET Lanes, NEW Q, NEW A, NEW M, NEW G, NEW P,
         Types(Q, A, M, G, P), Drain(L, Q, A, M, G, P), Queued(Q, P),
         Slots(A, G, P), Busy(Lanes \ L, Q, A, M),
         lane \in [Tasks -> Lanes], startGen \in [Tasks -> Generations],
         \A t \in Tasks : startGen[t] <= G[lane[t]],
         gatewayDraining' \in BOOLEAN,
         waiter' \in [Waiters -> [state : WaiterStates, ids : SUBSET Tasks]],
         maxConcurrent' = M, generation' = G, lane' = lane
  PROVE  LanesOK'
<1>1. TypeOK'
  BY DrainTypes DEF TypeOK, Types
<1>2. QueuedOnce'
  BY DrainKeepsQueued
<1>3. SlotsHeldByCurrentTasks'
  BY DrainKeepsSlots
<1>4. WorkConserving'
  BY DrainKeepsBusy
<1>5. ASSUME NEW t \in Tasks
      PROVE  startGen'[t] <= G[lane[t]]
  <2>1. G[lane[t]] \in Nat
    BY ConstantsAssumption DEF Types, Generations
  <2>2. startGen'[t] = G[lane[t]] \/ startGen'[t] = startGen[t]
    BY DEF Drain
  <2> QED
    BY <2>1, <2>2
<1> QED
  BY <1>1, <1>2, <1>3, <1>4, <1>5 DEF LanesOK, StartedInPast

\* What is notified keeps its type.
LEMMA NotifiedType ==
  ASSUME TypeOK, NEW A
  PROVE  Notified(A) \in [Waiters -> [state : WaiterStates, ids : SUBSET Tasks]]
  BY DEF TypeOK, Notified, WaiterStates

-----------------------------------------------------------------------------
(* The lanes, action by action. *)

\* All lanes are empty and all entries new in the beginning.
LEMMA InitLanes == Init => LanesOK
<1> SUFFICES ASSUME Init PROVE LanesOK
  OBVIOUS
<1>1. TypeOK
  <2>1. 1 \in 1 .. MaxConcurrency /\ 0 \in Generations
    BY ConstantsAssumption DEF Generations
  <2>2. <<>> \in Seq(Tasks)
    BY EmptySeq
  <2> QED
    BY <2>1, <2>2 DEF Init, TypeOK, Phases, WaiterStates
<1>2. Len(<<>>) = 0
  OBVIOUS
<1>3. QueuedOnce
  BY <1>2 DEF Init, QueuedOnce
<1>4. SlotsHeldByCurrentTasks /\ WorkConserving /\ StartedInPast
  BY DEF Init, SlotsHeldByCurrentTasks, WorkConserving, StartedInPast, TypeOK
<1> QED
  BY <1>1, <1>3, <1>4 DEF LanesOK

\* The queues and phases that enqueueCommandInLane drains from: the new entry
\* waits at the end of its lane.
WithNew(t)  == [queue EXCEPT ![lane[t]] = Pushed(@, t)]
NewQueued(t) == [phase EXCEPT ![t] = "queued"]

\* They are what a drain may start from, and the entries before the new one
\* keep their places.
LEMMA EnqueueDrainable ==
  ASSUME LanesOK, NEW t \in Tasks, Enqueue(t)
  PROVE  /\ Types(WithNew(t), active, maxConcurrent, generation, NewQueued(t))
         /\ Queued(WithNew(t), NewQueued(t))
         /\ Drain({lane[t]}, WithNew(t), active, maxConcurrent, generation, NewQueued(t))
         /\ \A l \in Lanes :
              /\ Len(queue[l]) \in Nat
              /\ Len(WithNew(t)[l]) = IF l = lane[t] THEN Len(queue[l]) + 1 ELSE Len(queue[l])
              /\ \A i \in 1 .. Len(queue[l]) : WithNew(t)[l][i] = queue[l][i]
              /\ l = lane[t] => WithNew(t)[l][Len(queue[l]) + 1] = t
<1> DEFINE Q == WithNew(t)
           P == NewQueued(t)
<1>1. /\ Types(queue, active, maxConcurrent, generation, phase)
      /\ Queued(queue, phase)
      /\ lane \in [Tasks -> Lanes]
  BY LanesAreDrainable
<1>2. phase[t] = "new" /\ lane[t] \in Lanes /\ queue[lane[t]] \in Seq(Tasks)
  BY <1>1 DEF Enqueue, Types
<1>3. /\ Append(queue[lane[t]], t) \in Seq(Tasks)
      /\ Len(Append(queue[lane[t]], t)) = Len(queue[lane[t]]) + 1
      /\ \A i \in 1 .. Len(queue[lane[t]]) :
           Append(queue[lane[t]], t)[i] = queue[lane[t]][i]
      /\ Append(queue[lane[t]], t)[Len(queue[lane[t]]) + 1] = t
      /\ Len(queue[lane[t]]) \in Nat
  BY <1>2, AppendProperties, LenProperties
<1>4. Types(Q, active, maxConcurrent, generation, P)
  BY <1>1, <1>2, <1>3 DEF Types, Pushed, Phases, WithNew, NewQueued
<1>5. \A l \in Lanes : Q[l] = IF l = lane[t] THEN Append(queue[l], t) ELSE queue[l]
  BY <1>1 DEF Pushed, Types, WithNew
<1>6. \A u \in Tasks : P[u] = IF u = t THEN "queued" ELSE phase[u]
  BY <1>1 DEF Types, NewQueued
<1>7. Drain({lane[t]}, Q, active, maxConcurrent, generation, P)
  BY DEF Enqueue, WithNew, NewQueued
<1> HIDE DEF Q, P
<1>8. \A l \in Lanes : ~Holds(t, queue, l)
  BY <1>1, <1>2 DEF Queued
<1>8a. ASSUME NEW l \in Lanes
       PROVE  /\ Len(queue[l]) \in Nat
              /\ Len(Q[l]) = IF l = lane[t] THEN Len(queue[l]) + 1 ELSE Len(queue[l])
              /\ \A i \in 1 .. Len(queue[l]) : Q[l][i] = queue[l][i]
              /\ l = lane[t] => Q[l][Len(queue[l]) + 1] = t
  <2>1. Len(queue[l]) \in Nat
    BY <1>1, LenProperties DEF Types
  <2> QED
    BY <1>3, <1>5, <2>1
<1>9. ASSUME NEW l \in Lanes, NEW i \in 1 .. Len(Q[l])
      PROVE  /\ \/ i \in 1 .. Len(queue[l]) /\ Q[l][i] = queue[l][i]
                \/ l = lane[t] /\ i = Len(queue[l]) + 1 /\ Q[l][i] = t
             /\ lane[Q[l][i]] = l
  <2>1. \/ i \in 1 .. Len(queue[l])
        \/ l = lane[t] /\ i = Len(queue[l]) + 1
    BY <1>8a
  <2>2. i \in 1 .. Len(queue[l]) => Q[l][i] = queue[l][i] /\ lane[queue[l][i]] = l
    BY <1>1, <1>8a DEF Queued
  <2>3. l = lane[t] /\ i = Len(queue[l]) + 1 => Q[l][i] = t
    BY <1>8a
  <2> QED
    BY <2>1, <2>2, <2>3
<1>10. ASSUME NEW l \in Lanes, NEW i \in 1 .. Len(Q[l]), NEW j \in 1 .. Len(Q[l]), Q[l][i] = Q[l][j]
       PROVE  i = j
  BY <1>1, <1>8, <1>9, <1>10 DEF Queued, Holds
<1>11. ASSUME NEW u \in Tasks
       PROVE  P[u] = "queued" <=> \E l \in Lanes : Holds(u, Q, l)
  <2>1. CASE u = t
    <3>1. Len(queue[lane[t]]) + 1 \in 1 .. Len(Q[lane[t]]) /\ Q[lane[t]][Len(queue[lane[t]]) + 1] = t
      BY <1>2, <1>8a
    <3> QED
      BY <1>2, <1>6, <2>1, <3>1 DEF Holds
  <2>2. CASE u # t
    <3>1. P[u] = phase[u] /\ (phase[u] = "queued" <=> \E l \in Lanes : Holds(u, queue, l))
      BY <1>1, <1>6, <2>2 DEF Queued
    <3>2. ASSUME NEW l \in Lanes, Holds(u, queue, l)
          PROVE  Holds(u, Q, l)
      <4>1. PICK i \in 1 .. Len(queue[l]) : queue[l][i] = u
        BY <3>2 DEF Holds
      <4>2. i \in 1 .. Len(Q[l]) /\ Q[l][i] = u
        BY <1>8a, <4>1
      <4> QED
        BY <4>2 DEF Holds
    <3>3. ASSUME NEW l \in Lanes, Holds(u, Q, l)
          PROVE  Holds(u, queue, l)
      BY <1>9, <2>2, <3>3 DEF Holds
    <3> QED
      BY <3>1, <3>2, <3>3
  <2> QED
    BY <2>1, <2>2
<1>12. Queued(Q, P)
  BY <1>9, <1>10, <1>11 DEF Queued
<1>13. \A l \in Lanes :
         /\ Len(queue[l]) \in Nat
         /\ Len(Q[l]) = IF l = lane[t] THEN Len(queue[l]) + 1 ELSE Len(queue[l])
         /\ \A i \in 1 .. Len(queue[l]) : Q[l][i] = queue[l][i]
         /\ l = lane[t] => Q[l][Len(queue[l]) + 1] = t
  BY <1>8a
<1> QED
  BY <1>4, <1>7, <1>12, <1>13 DEF Q, P

\* Appending a new entry to its lane and draining it.
LEMMA EnqueueLanes ==
  ASSUME LanesOK, NEW t \in Tasks, Enqueue(t)
  PROVE  LanesOK'
<1> DEFINE Q == WithNew(t)
           P == NewQueued(t)
<1>1. /\ Types(queue, active, maxConcurrent, generation, phase)
      /\ Slots(active, generation, phase)
      /\ Busy(Lanes, queue, active, maxConcurrent)
      /\ lane \in [Tasks -> Lanes] /\ startGen \in [Tasks -> Generations]
  BY LanesAreDrainable
<1>2. phase[t] = "new" /\ lane[t] \in Lanes
  BY <1>1 DEF Enqueue, Types
<1>3. /\ Types(Q, active, maxConcurrent, generation, P) /\ Queued(Q, P)
      /\ Drain({lane[t]}, Q, active, maxConcurrent, generation, P)
  BY EnqueueDrainable
<1>4. UNCHANGED <<gatewayDraining, maxConcurrent, generation, lane, waiter>>
  BY DEF Enqueue
<1>5. \A l \in Lanes \ {lane[t]} : Q[l] = queue[l]
  BY <1>1 DEF Types, WithNew
<1>6. \A u \in Tasks : P[u] = IF u = t THEN "queued" ELSE phase[u]
  BY <1>1 DEF Types, NewQueued
<1> HIDE DEF Q, P
<1>7. Slots(active, generation, P)
  BY <1>1, <1>2, <1>6 DEF Slots
<1>8. Busy(Lanes \ {lane[t]}, Q, active, maxConcurrent)
  BY <1>1, <1>5 DEF Busy
<1>9. /\ gatewayDraining' \in BOOLEAN
      /\ waiter' \in [Waiters -> [state : WaiterStates, ids : SUBSET Tasks]]
      /\ \A u \in Tasks : startGen[u] <= generation[lane[u]]
  BY <1>4 DEF LanesOK, TypeOK, StartedInPast
<1> QED
  BY <1>1, <1>2, <1>3, <1>4, <1>7, <1>8, <1>9, DrainKeepsLanes

\* A task that settles in the generation it was started in.
LEMMA FinishCurrentLanes ==
  ASSUME LanesOK, NEW t \in Tasks, FinishCurrent(t)
  PROVE  LanesOK'
<1> DEFINE A == [active EXCEPT ![lane[t]] = @ \ {t}]
           P == [phase EXCEPT ![t] = "settled"]
<1>1. /\ Types(queue, active, maxConcurrent, generation, phase)
      /\ Queued(queue, phase)
      /\ Slots(active, generation, phase)
      /\ Busy(Lanes, queue, active, maxConcurrent)
      /\ lane \in [Tasks -> Lanes] /\ startGen \in [Tasks -> Generations]
  BY LanesAreDrainable
<1>2. "settled" # "queued" /\ "settled" # "running" /\ "settled" \in Phases
  BY DEF Phases
<1>3. /\ phase[t] = "running" /\ lane[t] \in Lanes
      /\ waiter' = Notified(A)
      /\ Drain({lane[t]}, queue, A, maxConcurrent, generation, P)
      /\ UNCHANGED <<gatewayDraining, maxConcurrent, generation, lane>>
  BY <1>1 DEF FinishCurrent
<1>4. \A l \in Lanes : A[l] = IF l = lane[t] THEN active[l] \ {t} ELSE active[l]
  BY <1>1 DEF Types
<1>5. \A u \in Tasks : P[u] = IF u = t THEN "settled" ELSE phase[u]
  BY <1>1 DEF Types
<1>6. Types(queue, A, maxConcurrent, generation, P)
  <2>1. A \in [Lanes -> SUBSET Tasks] /\ P \in [Tasks -> Phases]
    BY <1>1, <1>2 DEF Types
  <2> QED
    BY <1>1, <2>1 DEF Types
<1>7. /\ gatewayDraining' \in BOOLEAN
      /\ waiter' \in [Waiters -> [state : WaiterStates, ids : SUBSET Tasks]]
      /\ \A u \in Tasks : startGen[u] <= generation[lane[u]]
  BY <1>3, NotifiedType DEF LanesOK, TypeOK, StartedInPast
<1> HIDE DEF A, P
<1>8. Queued(queue, P)
  BY <1>1, <1>2, <1>3, <1>5 DEF Queued
<1>9. Slots(A, generation, P)
  <2>1. SUFFICES ASSUME NEW u \in Tasks, NEW l \in Lanes
                 PROVE  u \in A[l] <=> /\ P[u] = "running" /\ lane[u] = l
                                      /\ startGen[u] = generation[l]
    BY DEF Slots
  <2>2. u \in active[l] <=> /\ phase[u] = "running" /\ lane[u] = l
                           /\ startGen[u] = generation[l]
    BY <1>1 DEF Slots
  <2>3. CASE u = t
    BY <1>2, <1>4, <1>5, <2>2, <2>3
  <2>4. CASE u # t
    BY <1>4, <1>5, <2>2, <2>4
  <2> QED
    BY <2>3, <2>4
<1>10. Busy(Lanes \ {lane[t]}, queue, A, maxConcurrent)
  BY <1>1, <1>4 DEF Busy
<1> QED
  BY <1>1, <1>3, <1>6, <1>7, <1>8, <1>9, <1>10, DrainKeepsLanes

\* A task whose lane was reset settles: it holds no slot, and no lane changes.
LEMMA FinishStaleLanes ==
  ASSUME LanesOK, NEW t \in Tasks, FinishStale(t)
  PROVE  LanesOK'
<1>1. "settled" # "queued" /\ "settled" # "running" /\ "settled" \in Phases
  BY DEF Phases
<1>2. phase[t] = "running" /\ startGen[t] # generation[lane[t]]
  BY DEF FinishStale
<1>3. /\ phase' = [phase EXCEPT ![t] = "settled"] /\ phase \in [Tasks -> Phases]
      /\ UNCHANGED <<gatewayDraining, queue, active, maxConcurrent, generation,
                     lane, startGen, waiter>>
  BY DEF FinishStale, LanesOK, TypeOK
<1>4. \A u \in Tasks : phase'[u] = IF u = t THEN "settled" ELSE phase[u]
  BY <1>3
<1>5. TypeOK'
  BY <1>1, <1>3 DEF LanesOK, TypeOK
<1>6. QueuedOnce'
  BY <1>1, <1>2, <1>3, <1>4 DEF LanesOK, QueuedOnce
<1>7. SlotsHeldByCurrentTasks'
  BY <1>1, <1>2, <1>3, <1>4 DEF LanesOK, SlotsHeldByCurrentTasks
<1>8. WorkConserving' /\ StartedInPast'
  BY <1>3 DEF LanesOK, WorkConserving, StartedInPast
<1> QED
  BY <1>5, <1>6, <1>7, <1>8 DEF LanesOK

\* A new cap, and the drain of the lane after it.
LEMMA SetConcurrencyLanes ==
  ASSUME LanesOK, NEW l \in Lanes, NEW m \in 0 .. MaxConcurrency, SetConcurrency(l, m)
  PROVE  LanesOK'
<1> DEFINE M == [maxConcurrent EXCEPT ![l] = Clamped(m)]
<1>1. /\ Types(queue, active, maxConcurrent, generation, phase)
      /\ Queued(queue, phase)
      /\ Slots(active, generation, phase)
      /\ Busy(Lanes, queue, active, maxConcurrent)
      /\ lane \in [Tasks -> Lanes] /\ startGen \in [Tasks -> Generations]
  BY LanesAreDrainable
<1>2. Clamped(m) \in 1 .. MaxConcurrency
  BY ConstantsAssumption DEF Clamped
<1>3. Types(queue, active, M, generation, phase)
  BY <1>1, <1>2 DEF Types
<1>4. /\ maxConcurrent' = M
      /\ Drain({l}, queue, active, M, generation, phase)
      /\ UNCHANGED <<gatewayDraining, generation, lane, waiter>>
  BY DEF SetConcurrency
<1>5. \A k \in Lanes \ {l} : M[k] = maxConcurrent[k]
  BY <1>1 DEF Types
<1>6. /\ gatewayDraining' \in BOOLEAN
      /\ waiter' \in [Waiters -> [state : WaiterStates, ids : SUBSET Tasks]]
      /\ \A u \in Tasks : startGen[u] <= generation[lane[u]]
  BY <1>4 DEF LanesOK, TypeOK, StartedInPast
<1> HIDE DEF M
<1>7. Busy(Lanes \ {l}, queue, active, M)
  BY <1>1, <1>5 DEF Busy
<1> QED
  BY <1>1, <1>3, <1>4, <1>6, <1>7, DrainKeepsLanes

\* Clearing rejects the waiting entries of one lane; nothing is pumped, and
\* nothing needs to be.
LEMMA ClearLaneLanes ==
  ASSUME LanesOK, NEW l \in Lanes, ClearLane(l)
  PROVE  LanesOK'
<1>1. /\ queue \in [Lanes -> Seq(Tasks)] /\ phase \in [Tasks -> Phases]
      /\ queue' = [queue EXCEPT ![l] = <<>>]
      /\ phase' = [t \in Tasks |->
                     IF t \in FirstOf(queue[l], Len(queue[l])) THEN "cleared" ELSE phase[t]]
      /\ UNCHANGED <<gatewayDraining, active, maxConcurrent, generation, lane,
                     startGen, waiter>>
  BY DEF ClearLane, LanesOK, TypeOK
<1>2. \A k \in Lanes : queue'[k] = IF k = l THEN <<>> ELSE queue[k]
  BY <1>1
<1>3. ASSUME NEW t \in Tasks
      PROVE  phase'[t] = IF Holds(t, queue, l) THEN "cleared" ELSE phase[t]
  BY <1>1 DEF FirstOf, Holds
<1>4. <<>> \in Seq(Tasks) /\ Len(<<>>) = 0
  BY EmptySeq
<1>5. TypeOK'
  BY <1>1, <1>4 DEF LanesOK, TypeOK, Phases
<1>6. Queued(queue, phase) /\ Slots(active, generation, phase)
  BY LanesAreDrainable
<1>7. \A t \in Tasks : phase'[t] = "queued" <=> \E k \in Lanes : Holds(t, queue', k)
  <2>1. SUFFICES ASSUME NEW t \in Tasks
                 PROVE  phase'[t] = "queued" <=> \E k \in Lanes : Holds(t, queue', k)
    OBVIOUS
  <2>2. \A k \in Lanes : Holds(t, queue', k) <=> k # l /\ Holds(t, queue, k)
    BY <1>2, <1>4 DEF Holds
  <2>3. phase[t] = "queued" <=> \E k \in Lanes : Holds(t, queue, k)
    BY <1>6 DEF Queued
  <2>4. \A k \in Lanes : Holds(t, queue, k) => lane[t] = k
    BY <1>6 DEF Queued, Holds
  <2> QED
    BY <1>3, <2>2, <2>3, <2>4
<1>8. \A k \in Lanes : \A i \in 1 .. Len(queue'[k]) :
        /\ lane'[queue'[k][i]] = k
        /\ \A j \in 1 .. Len(queue'[k]) : queue'[k][i] = queue'[k][j] => i = j
  BY <1>1, <1>2, <1>4, <1>6 DEF Queued
<1>9. QueuedOnce'
  BY <1>7, <1>8 DEF QueuedOnce, Holds
<1>10. \A t \in Tasks : phase'[t] = "running" <=> phase[t] = "running"
  <2>1. \A t \in Tasks : Holds(t, queue, l) => phase[t] = "queued"
    BY <1>6 DEF Queued
  <2> QED
    BY <1>3, <2>1
<1>11. SlotsHeldByCurrentTasks'
  BY <1>1, <1>6, <1>10 DEF SlotsHeldByCurrentTasks, Slots
<1>12. WorkConserving' /\ StartedInPast'
  BY <1>1, <1>2 DEF LanesOK, WorkConserving, StartedInPast
<1> QED
  BY <1>5, <1>9, <1>11, <1>12 DEF LanesOK

\* The reset of the in-process restart: the slots of every lane are taken back
\* and the waiting entries are pumped in the next generation.
LEMMA ResetAllLanesLanes ==
  ASSUME LanesOK, ResetAllLanes
  PROVE  LanesOK'
<1> DEFINE idle == [l \in Lanes |-> {}]
<1>1. /\ Types(queue, active, maxConcurrent, generation, phase)
      /\ Queued(queue, phase)
      /\ Slots(active, generation, phase)
      /\ lane \in [Tasks -> Lanes] /\ startGen \in [Tasks -> Generations]
  BY LanesAreDrainable
<1>2. /\ \A l \in Lanes : generation[l] < MaxGeneration
      /\ gatewayDraining' = FALSE
      /\ generation' = Bumped
      /\ Drain(LanesToDrain, queue, idle, maxConcurrent, Bumped, phase)
      /\ waiter' = Notified(active')
      /\ UNCHANGED <<maxConcurrent, lane>>
  BY DEF ResetAllLanes
<1>3. \A l \in Lanes : generation[l] \in Nat /\ Bumped[l] = generation[l] + 1
  BY <1>1, ConstantsAssumption DEF Bumped, Types, Generations
<1>4. Bumped \in [Lanes -> Generations]
  BY <1>1, <1>2, ConstantsAssumption DEF Bumped, Types, Generations
<1>5. Types(queue, idle, maxConcurrent, Bumped, phase)
  BY <1>1, <1>4 DEF Types
<1>6. /\ gatewayDraining' \in BOOLEAN
      /\ waiter' \in [Waiters -> [state : WaiterStates, ids : SUBSET Tasks]]
  BY <1>2, NotifiedType DEF LanesOK
<1>7. \A t \in Tasks : startGen[t] < Bumped[lane[t]] /\ startGen[t] <= Bumped[lane[t]]
  <2>1. SUFFICES ASSUME NEW t \in Tasks
                 PROVE  startGen[t] < Bumped[lane[t]] /\ startGen[t] <= Bumped[lane[t]]
    OBVIOUS
  <2>2. startGen[t] \in Int /\ lane[t] \in Lanes /\ startGen[t] <= generation[lane[t]]
    BY <1>1 DEF LanesOK, StartedInPast, Generations
  <2> QED
    BY <1>3, <2>2
<1>8. Slots(idle, Bumped, phase)
  <2>1. \A t \in Tasks : startGen[t] # Bumped[lane[t]]
    <3>1. \A t \in Tasks : startGen[t] \in Int /\ Bumped[lane[t]] \in Int
      BY <1>1, <1>4 DEF Generations
    <3> QED
      BY <1>7, <3>1
  <2> QED
    BY <2>1 DEF Slots
<1>9. Busy(Lanes \ LanesToDrain, queue, idle, maxConcurrent)
  BY DEF Busy, LanesToDrain
<1>10. LanesToDrain \in SUBSET Lanes
  BY DEF LanesToDrain
<1> HIDE DEF idle
<1> QED
  BY <1>1, <1>2, <1>5, <1>6, <1>7, <1>8, <1>9, <1>10, DrainKeepsLanes

\* A step of the waiters leaves the lanes alone.
LEMMA LanesUntouched ==
  ASSUME LanesOK,
         UNCHANGED <<gatewayDraining, queue, active, maxConcurrent, generation,
                     phase, lane, startGen>>,
         waiter' \in [Waiters -> [state : WaiterStates, ids : SUBSET Tasks]]
  PROVE  LanesOK'
<1>1. TypeOK'
  BY DEF LanesOK, TypeOK
<1>2. QueuedOnce' /\ SlotsHeldByCurrentTasks' /\ WorkConserving' /\ StartedInPast'
  BY DEF LanesOK, QueuedOnce, SlotsHeldByCurrentTasks, WorkConserving, StartedInPast
<1> QED
  BY <1>1, <1>2 DEF LanesOK

\* Every step of the queue keeps the invariants about lanes.
LEMMA NextLanes ==
  ASSUME LanesOK, [Next]_vars
  PROVE  LanesOK'
<1>1. ASSUME NEW t \in Tasks, EnqueueRefused(t)
      PROVE  LanesOK'
  <2>1. phase' = [phase EXCEPT ![t] = "refused"] /\ phase[t] = "new"
    BY <1>1 DEF EnqueueRefused
  <2>2. \A u \in Tasks : phase'[u] = IF u = t THEN "refused" ELSE phase[u]
    BY <2>1 DEF LanesOK, TypeOK
  <2> QED
    BY <1>1, <2>1, <2>2 DEF EnqueueRefused, LanesOK, TypeOK, Phases, QueuedOnce,
                   SlotsHeldByCurrentTasks, WorkConserving, StartedInPast
<1>2. ASSUME NEW t \in Tasks, Enqueue(t)
      PROVE  LanesOK'
  BY <1>2, EnqueueLanes
<1>3. ASSUME NEW t \in Tasks, Finish(t)
      PROVE  LanesOK'
  BY <1>3, FinishCurrentLanes, FinishStaleLanes DEF Finish
<1>4. ASSUME NEW l \in Lanes, ClearLane(l)
      PROVE  LanesOK'
  BY <1>4, ClearLaneLanes
<1>5. ASSUME NEW l \in Lanes, NEW m \in 0 .. MaxConcurrency, SetConcurrency(l, m)
      PROVE  LanesOK'
  BY <1>5, SetConcurrencyLanes
<1>6. CASE MarkDraining
  BY <1>6 DEF MarkDraining, LanesOK, TypeOK, QueuedOnce, SlotsHeldByCurrentTasks,
              WorkConserving, StartedInPast
<1>7. CASE ResetAllLanes
  BY <1>7, ResetAllLanesLanes
<1>8. ASSUME NEW w \in Waiters, NEW b \in BOOLEAN, WaitForActiveTasks(w, b)
      PROVE  LanesOK'
  <2>1. ActiveIds(active) \subseteq Tasks
    BY DEF ActiveIds, LanesOK, TypeOK
  <2>2. waiter' \in [Waiters -> [state : WaiterStates, ids : SUBSET Tasks]]
    BY <1>8, <2>1 DEF WaitForActiveTasks, LanesOK, TypeOK, WaiterStates
  <2> QED
    BY <1>8, <2>2, LanesUntouched DEF WaitForActiveTasks
<1>9. ASSUME NEW w \in Waiters, WaitTimeout(w)
      PROVE  LanesOK'
  <2>1. waiter' \in [Waiters -> [state : WaiterStates, ids : SUBSET Tasks]]
    BY <1>9 DEF WaitTimeout, LanesOK, TypeOK, WaiterStates
  <2> QED
    BY <1>9, <2>1, LanesUntouched DEF WaitTimeout
<1>10. CASE UNCHANGED vars
  BY <1>10 DEF vars, LanesOK, TypeOK, QueuedOnce, SlotsHeldByCurrentTasks,
               WorkConserving, StartedInPast
<1> QED
  BY <1>1, <1>2, <1>3, <1>4, <1>5, <1>6, <1>7, <1>8, <1>9, <1>10 DEF Next

-----------------------------------------------------------------------------
(* The waiters. *)

\* A drain starts only entries that wait.
LEMMA DrainedWereQueued ==
  ASSUME NEW L \in SUBSET Lanes, NEW Q, NEW A, NEW M, NEW G, NEW P,
         Types(Q, A, M, G, P), Queued(Q, P), NEW t \in Started(L, Q, A, M)
  PROVE  t \in Tasks /\ P[t] = "queued"
<1>1. PICK l \in Lanes : t \in FirstOf(Q[l], Taken(L, Q, A, M, l))
  BY StartedIffTaken
<1>2. Q[l] \in Seq(Tasks) /\ Taken(L, Q, A, M, l) \in 0 .. Len(Q[l]) /\ t \in Tasks
  BY <1>1, TakenFacts
<1>3. PICK i \in 1 .. Taken(L, Q, A, M, l) : Q[l][i] = t
  BY <1>1 DEF FirstOf
<1>4. Len(Q[l]) \in Nat
  BY <1>2, LenProperties
<1>5. i \in 1 .. Len(Q[l])
  BY <1>2, <1>4
<1> QED
  BY <1>2, <1>3, <1>5 DEF Queued, Holds

\* A started task stays started, a settled one stays settled, and one whose
\* lane was reset stays behind its lane.
LEMMA StartedStays ==
  ASSUME LanesOK, [Next]_vars, NEW t \in Tasks, phase[t] \in {"settled", "running"}
  PROVE  /\ phase'[t] \in {"settled", "running"}
         /\ phase[t] = "settled" => phase'[t] = "settled"
         /\ startGen[t] < generation[lane[t]] => startGen'[t] < generation'[lane'[t]]
<1> DEFINE Goal == /\ phase'[t] \in {"settled", "running"}
                   /\ phase[t] = "settled" => phase'[t] = "settled"
                   /\ startGen[t] < generation[lane[t]] => startGen'[t] < generation'[lane'[t]]
<1>1. /\ Types(queue, active, maxConcurrent, generation, phase)
      /\ Queued(queue, phase)
      /\ lane \in [Tasks -> Lanes] /\ startGen \in [Tasks -> Generations]
  BY LanesAreDrainable
<1>2. "queued" \notin {"settled", "running"} /\ "new" \notin {"settled", "running"}
  OBVIOUS
<1>3. phase \in [Tasks -> Phases]
  BY DEF LanesOK, TypeOK
<1>4. ASSUME NEW L \in SUBSET Lanes, NEW Q, NEW A, NEW M, NEW G, NEW P, NEW u \in Tasks,
             Drain(L, Q, A, M, G, P), u \notin Started(L, Q, A, M)
      PROVE  phase'[u] = P[u] /\ startGen'[u] = startGen[u]
  BY <1>4 DEF Drain
<1>5. ASSUME NEW u \in Tasks, EnqueueRefused(u)
      PROVE  Goal
  BY <1>2, <1>3, <1>5 DEF EnqueueRefused
<1>6. ASSUME NEW u \in Tasks, Enqueue(u)
      PROVE  Goal
  <2>1. t # u /\ UNCHANGED <<generation, lane>>
    BY <1>2, <1>6 DEF Enqueue
  <2>2. phase'[t] = "running" \/ phase'[t] = phase[t]
    BY <1>3, <1>6, <2>1 DEF Enqueue, Drain
  <2>3. t \notin Started({lane[u]}, [queue EXCEPT ![lane[u]] = Pushed(@, u)], active, maxConcurrent)
    <3> DEFINE Q == [queue EXCEPT ![lane[u]] = Pushed(@, u)]
    <3>1. SUFFICES ASSUME t \in FirstOf(Q[lane[u]], PumpCount(Q[lane[u]], active[lane[u]], maxConcurrent[lane[u]]))
                   PROVE  FALSE
      BY DEF Started
    <3>2. lane[u] \in Lanes /\ queue[lane[u]] \in Seq(Tasks) /\ Q[lane[u]] = Append(queue[lane[u]], u)
          /\ active[lane[u]] \in SUBSET Tasks /\ maxConcurrent[lane[u]] \in Nat \ {0}
      BY <1>1, ConstantsAssumption DEF Types, Pushed
    <3>3. /\ Append(queue[lane[u]], u) \in Seq(Tasks)
          /\ Len(Append(queue[lane[u]], u)) = Len(queue[lane[u]]) + 1
          /\ \A i \in 1 .. Len(queue[lane[u]]) : Append(queue[lane[u]], u)[i] = queue[lane[u]][i]
          /\ Append(queue[lane[u]], u)[Len(queue[lane[u]]) + 1] = u
          /\ Len(queue[lane[u]]) \in Nat
      BY <3>2, AppendProperties, LenProperties
    <3>4. PumpCount(Q[lane[u]], active[lane[u]], maxConcurrent[lane[u]]) \in 0 .. Len(queue[lane[u]]) + 1
      BY <3>2, <3>3, PumpCountFacts
    <3>5. PICK i \in 1 .. Len(queue[lane[u]]) + 1 : Append(queue[lane[u]], u)[i] = t
      <4> DEFINE n == PumpCount(Q[lane[u]], active[lane[u]], maxConcurrent[lane[u]])
      <4>1. n \in 0 .. Len(queue[lane[u]]) + 1
        BY <3>4
      <4>2. t \in FirstOf(Append(queue[lane[u]], u), n)
        BY <3>1, <3>2
      <4> HIDE DEF n
      <4>3. PICK i \in 1 .. n : Append(queue[lane[u]], u)[i] = t
        BY <4>2 DEF FirstOf
      <4>4. i \in 1 .. Len(queue[lane[u]]) + 1
        BY <3>3, <4>1
      <4> QED
        BY <4>3, <4>4
    <3>6. i \in 1 .. Len(queue[lane[u]]) /\ queue[lane[u]][i] = t
      BY <2>1, <3>3, <3>5
    <3>7. phase[t] = "queued"
      BY <1>1, <3>2, <3>6 DEF Queued, Holds
    <3> QED
      BY <1>2, <3>7
  <2>4. phase'[t] = phase[t] /\ startGen'[t] = startGen[t]
    BY <1>3, <1>6, <2>1, <2>3 DEF Enqueue, Drain
  <2> QED
    BY <2>1, <2>4
<1>7. ASSUME NEW u \in Tasks, FinishCurrent(u)
      PROVE  Goal
  <2> DEFINE A == [active EXCEPT ![lane[u]] = @ \ {u}]
             P == [phase EXCEPT ![u] = "settled"]
  <2>1. Drain({lane[u]}, queue, A, maxConcurrent, generation, P) /\ UNCHANGED <<generation, lane>>
    BY <1>7 DEF FinishCurrent
  <2>2. "settled" \in Phases /\ lane[u] \in Lanes
    BY <1>1 DEF Phases
  <2>3. Types(queue, A, maxConcurrent, generation, phase)
    BY <1>1 DEF Types
  <2>4. t \notin Started({lane[u]}, queue, A, maxConcurrent)
    BY <1>1, <1>2, <2>2, <2>3, DrainedWereQueued
  <2>5. phase'[t] = P[t] /\ startGen'[t] = startGen[t]
    BY <2>1, <2>4 DEF Drain
  <2>6. P[t] = IF t = u THEN "settled" ELSE phase[t]
    BY <1>3
  <2> HIDE DEF P
  <2> QED
    BY <2>1, <2>5, <2>6
<1>8. ASSUME NEW u \in Tasks, FinishStale(u)
      PROVE  Goal
  BY <1>3, <1>8 DEF FinishStale
<1>9. ASSUME NEW l \in Lanes, ClearLane(l)
      PROVE  Goal
  <2>1. t \notin FirstOf(queue[l], Len(queue[l]))
    BY <1>1, <1>2 DEF FirstOf, Queued, Holds
  <2> QED
    BY <1>9, <2>1 DEF ClearLane
<1>10. ASSUME NEW l \in Lanes, NEW m \in 0 .. MaxConcurrency, SetConcurrency(l, m)
       PROVE  Goal
  <2> DEFINE M == [maxConcurrent EXCEPT ![l] = Clamped(m)]
  <2>1. Drain({l}, queue, active, M, generation, phase) /\ UNCHANGED <<generation, lane>>
    BY <1>10 DEF SetConcurrency
  <2>2. Clamped(m) \in 1 .. MaxConcurrency
    BY ConstantsAssumption DEF Clamped
  <2>3. Types(queue, active, M, generation, phase)
    BY <1>1, <2>2 DEF Types
  <2>4. t \notin Started({l}, queue, active, M)
    BY <1>1, <1>2, <2>3, DrainedWereQueued
  <2> QED
    BY <2>1, <2>4 DEF Drain
<1>11. ASSUME MarkDraining
       PROVE  Goal
  BY <1>11 DEF MarkDraining
<1>12. ASSUME ResetAllLanes
       PROVE  Goal
  <2> DEFINE A == [l \in Lanes |-> {}]
  <2>1. /\ Drain(LanesToDrain, queue, A, maxConcurrent, Bumped, phase)
        /\ generation' = Bumped /\ lane' = lane
    BY <1>12 DEF ResetAllLanes
  <2>2. Types(queue, A, maxConcurrent, generation, phase) /\ LanesToDrain \in SUBSET Lanes
    BY <1>1 DEF Types, LanesToDrain
  <2>3. t \notin Started(LanesToDrain, queue, A, maxConcurrent)
    BY <1>1, <1>2, <2>2, DrainedWereQueued
  <2>4. phase'[t] = phase[t] /\ startGen'[t] = startGen[t]
    BY <2>1, <2>3 DEF Drain
  <2>5. startGen[t] \in Nat /\ generation[lane[t]] \in Nat /\ Bumped[lane[t]] = generation[lane[t]] + 1
    BY <1>1, ConstantsAssumption DEF Types, Generations, Bumped
  <2> QED
    BY <2>1, <2>4, <2>5
<1>13. ASSUME NEW w \in Waiters, NEW b \in BOOLEAN, WaitForActiveTasks(w, b)
       PROVE  Goal
  BY <1>13 DEF WaitForActiveTasks
<1>14. ASSUME NEW w \in Waiters, WaitTimeout(w)
       PROVE  Goal
  BY <1>14 DEF WaitTimeout
<1>15. ASSUME UNCHANGED vars
       PROVE  Goal
  BY <1>15 DEF vars
<1> HIDE DEF Goal
<1>16. ASSUME NEW u \in Tasks, Finish(u)
       PROVE  Goal
  BY <1>7, <1>8, <1>16 DEF Finish
<1>17. Goal
  BY <1>5, <1>6, <1>9, <1>10, <1>11, <1>12, <1>13, <1>14, <1>15, <1>16 DEF Next
<1> QED
  BY <1>17 DEF Goal

\* A notification resolves the waiters none of whose tasks is active, and
\* changes nothing else.
LEMMA NotifiedFacts ==
  ASSUME TypeOK, NEW A, waiter' = Notified(A), NEW w \in Waiters
  PROVE  /\ waiter'[w].ids = waiter[w].ids
         /\ waiter'[w].state = "drained" =>
              waiter[w].state = "drained" \/ waiter[w].ids \cap ActiveIds(A) = {}
         /\ waiter'[w].state = "waiting" => waiter[w].ids \cap ActiveIds(A) # {}
<1>1. waiter[w] \in [state : WaiterStates, ids : SUBSET Tasks]
  BY DEF TypeOK
<1>2. CASE waiter[w].state = "waiting" /\ waiter[w].ids \cap ActiveIds(A) = {}
  <2>1. waiter'[w] = [waiter[w] EXCEPT !.state = "drained"]
    BY <1>2 DEF Notified
  <2> QED
    BY <1>1, <1>2, <2>1
<1>3. CASE ~(waiter[w].state = "waiting" /\ waiter[w].ids \cap ActiveIds(A) = {})
  <2>1. waiter'[w] = waiter[w]
    BY <1>3 DEF Notified
  <2> QED
    BY <1>3, <2>1
<1> QED
  BY <1>2, <1>3

\* The tasks a drain starts are added to the active ones.
LEMMA DrainAddsActive ==
  ASSUME NEW L, NEW Q, NEW A, NEW M, NEW G, NEW P, Drain(L, Q, A, M, G, P)
  PROVE  ActiveIds(A) \subseteq ActiveIds(active')
  BY DrainLane DEF ActiveIds

\* A step that leaves the waiters alone and takes no slot away keeps the
\* invariants about them.
LEMMA WaitersUntouched ==
  ASSUME LanesOK, Waiting, [Next]_vars, waiter' = waiter,
         ActiveIds(active) \subseteq ActiveIds(active')
  PROVE  Waiting'
<1>1. \A w \in Waiters : waiter[w].ids \subseteq Tasks
  BY DEF LanesOK, TypeOK
<1>2. WaitsForStarted'
  BY <1>1, StartedStays DEF Waiting, WaitsForStarted
<1>3. DrainedMeansDone'
  <2>1. SUFFICES ASSUME NEW w \in Waiters, waiter[w].state = "drained", NEW t \in waiter[w].ids
                 PROVE  phase'[t] = "settled" \/ startGen'[t] < generation'[lane'[t]]
    BY DEF DrainedMeansDone
  <2>2. t \in Tasks /\ phase[t] \in {"settled", "running"}
    BY <1>1 DEF Waiting, WaitsForStarted
  <2>3. phase[t] = "settled" \/ startGen[t] < generation[lane[t]]
    BY <2>1 DEF Waiting, DrainedMeansDone
  <2> QED
    BY <2>2, <2>3, StartedStays
<1>4. NoForgottenWaiter'
  BY DEF Waiting, NoForgottenWaiter
<1> QED
  BY <1>2, <1>3, <1>4 DEF Waiting

\* A step that notifies the waiters once the slots outside A are free keeps
\* them too, when whoever holds none of A's slots is settled or interrupted
\* after the step.
LEMMA WaitersNotified ==
  ASSUME LanesOK, Waiting, [Next]_vars, NEW A, waiter' = Notified(A),
         ActiveIds(A) \subseteq ActiveIds(active'),
         \A t \in Tasks \ ActiveIds(A) : phase[t] \in {"settled", "running"} =>
           phase'[t] = "settled" \/ startGen'[t] < generation'[lane'[t]]
  PROVE  Waiting'
<1>1. \A w \in Waiters : waiter[w].ids \subseteq Tasks
  BY DEF LanesOK, TypeOK
<1>2. \A w \in Waiters :
        /\ waiter'[w].ids = waiter[w].ids
        /\ waiter'[w].state = "drained" =>
             waiter[w].state = "drained" \/ waiter[w].ids \cap ActiveIds(A) = {}
        /\ waiter'[w].state = "waiting" => waiter[w].ids \cap ActiveIds(A) # {}
  BY NotifiedFacts DEF LanesOK
<1>3. \A w \in Waiters : \A t \in waiter[w].ids : phase[t] \in {"settled", "running"}
  BY DEF Waiting, WaitsForStarted
<1>4. WaitsForStarted'
  BY <1>1, <1>2, <1>3, StartedStays DEF WaitsForStarted
<1>5. DrainedMeansDone'
  <2>1. SUFFICES ASSUME NEW w \in Waiters, waiter'[w].state = "drained", NEW t \in waiter'[w].ids
                 PROVE  phase'[t] = "settled" \/ startGen'[t] < generation'[lane'[t]]
    BY DEF DrainedMeansDone
  <2>2. t \in waiter[w].ids /\ t \in Tasks /\ phase[t] \in {"settled", "running"}
    BY <1>1, <1>2, <1>3, <2>1
  <2>3. CASE waiter[w].state = "drained"
    <3>1. phase[t] = "settled" \/ startGen[t] < generation[lane[t]]
      BY <2>2, <2>3 DEF Waiting, DrainedMeansDone
    <3> QED
      BY <2>2, <3>1, StartedStays
  <2>4. CASE waiter[w].ids \cap ActiveIds(A) = {}
    BY <2>2, <2>4
  <2> QED
    BY <1>2, <2>1, <2>3, <2>4
<1>6. NoForgottenWaiter'
  BY <1>2 DEF NoForgottenWaiter
<1> QED
  BY <1>4, <1>5, <1>6 DEF Waiting

\* Every step of the queue keeps the invariants about waiters.
LEMMA NextWaiting ==
  ASSUME LanesOK, Waiting, [Next]_vars
  PROVE  Waiting'
<1>1. ASSUME NEW t \in Tasks, EnqueueRefused(t)
      PROVE  Waiting'
  BY <1>1, WaitersUntouched DEF EnqueueRefused
<1>2. ASSUME NEW t \in Tasks, Enqueue(t)
      PROVE  Waiting'
  BY <1>2, WaitersUntouched, DrainAddsActive DEF Enqueue
<1>3. ASSUME NEW t \in Tasks, FinishCurrent(t)
      PROVE  Waiting'
  <2> DEFINE A == [active EXCEPT ![lane[t]] = @ \ {t}]
             P == [phase EXCEPT ![t] = "settled"]
  <2>1. /\ waiter' = Notified(A)
        /\ Drain({lane[t]}, queue, A, maxConcurrent, generation, P)
    BY <1>3 DEF FinishCurrent
  <2>2. ActiveIds(A) \subseteq ActiveIds(active')
    BY <2>1, DrainAddsActive
  <2>3. \A l \in Lanes : A[l] = IF l = lane[t] THEN active[l] \ {t} ELSE active[l]
    BY DEF LanesOK, TypeOK
  <2> HIDE DEF A
  <2>4. ASSUME NEW u \in Tasks \ ActiveIds(A), phase[u] \in {"settled", "running"}
        PROVE  phase'[u] = "settled" \/ startGen'[u] < generation'[lane'[u]]
    <3>1. CASE u = t
      <4>1. t \notin Started({lane[t]}, queue, A, maxConcurrent)
        <5>1. /\ Queued(queue, phase) /\ lane[t] \in Lanes
              /\ Types(queue, active, maxConcurrent, generation, phase)
          BY LanesAreDrainable
        <5>2. Types(queue, A, maxConcurrent, generation, phase)
          BY <5>1 DEF Types, A
        <5>3. phase[t] # "queued"
          BY <1>3 DEF FinishCurrent
        <5> QED
          BY <5>1, <5>2, <5>3, DrainedWereQueued
      <4>2. phase'[t] = P[t] /\ P[t] = "settled"
        BY <2>1, <4>1 DEF Drain, LanesOK, TypeOK
      <4> QED
        BY <3>1, <4>2
    <3>2. CASE u # t
      <4>1. lane[u] \in Lanes /\ u \notin active[lane[u]]
        BY <2>3, <3>2 DEF ActiveIds, LanesOK, TypeOK
      <4>2. phase[u] = "settled" \/ startGen[u] # generation[lane[u]]
        BY <2>4, <4>1 DEF LanesOK, SlotsHeldByCurrentTasks
      <4>3. startGen[u] \in Int /\ generation[lane[u]] \in Int /\ startGen[u] <= generation[lane[u]]
        BY <4>1 DEF LanesOK, TypeOK, StartedInPast, Generations
      <4>4. phase[u] = "settled" \/ startGen[u] < generation[lane[u]]
        BY <4>2, <4>3
      <4> QED
        BY <2>4, <4>4, StartedStays
    <3> QED
      BY <3>1, <3>2
  <2> QED
    BY <2>1, <2>2, <2>4, WaitersNotified
<1>4. ASSUME NEW t \in Tasks, FinishStale(t)
      PROVE  Waiting'
  BY <1>4, WaitersUntouched DEF FinishStale
<1>5. ASSUME NEW l \in Lanes, ClearLane(l)
      PROVE  Waiting'
  BY <1>5, WaitersUntouched DEF ClearLane
<1>6. ASSUME NEW l \in Lanes, NEW m \in 0 .. MaxConcurrency, SetConcurrency(l, m)
      PROVE  Waiting'
  BY <1>6, WaitersUntouched, DrainAddsActive DEF SetConcurrency
<1>7. CASE MarkDraining
  BY <1>7, WaitersUntouched DEF MarkDraining
<1>8. CASE ResetAllLanes
  <2>1. /\ waiter' = Notified(active')
        /\ Drain(LanesToDrain, queue, [l \in Lanes |-> {}], maxConcurrent, Bumped, phase)
        /\ generation' = Bumped /\ lane' = lane
    BY <1>8 DEF ResetAllLanes
  <2>2. ASSUME NEW t \in Tasks
        PROVE  startGen'[t] < generation'[lane'[t]] \/ t \in ActiveIds(active')
    <3>1. lane[t] \in Lanes /\ startGen[t] \in Int /\ generation[lane[t]] \in Int
          /\ startGen[t] <= generation[lane[t]] /\ Bumped[lane[t]] = generation[lane[t]] + 1
      BY DEF LanesOK, TypeOK, StartedInPast, Generations, Bumped
    <3>2. CASE t \in Started(LanesToDrain, queue, [l \in Lanes |-> {}], maxConcurrent)
      <4>1. PICK k \in Lanes : t \in FirstOf(queue[k], Taken(LanesToDrain, queue, [l \in Lanes |-> {}], maxConcurrent, k))
        BY <3>2, StartedIffTaken DEF LanesToDrain
      <4> QED
        BY <2>1, <4>1, DrainLane DEF ActiveIds
    <3>3. CASE t \notin Started(LanesToDrain, queue, [l \in Lanes |-> {}], maxConcurrent)
      <4>1. startGen'[t] = startGen[t]
        BY <2>1, <3>3 DEF Drain
      <4> QED
        BY <2>1, <3>1, <4>1
    <3> QED
      BY <3>2, <3>3
  <2> QED
    BY <2>1, <2>2, WaitersNotified
<1>9. ASSUME NEW w \in Waiters, NEW b \in BOOLEAN, WaitForActiveTasks(w, b)
      PROVE  Waiting'
  <2>1. /\ UNCHANGED <<active, generation, phase, lane, startGen>>
        /\ \A v \in Waiters : \/ waiter'[v] = waiter[v]
                              \/ /\ waiter'[v].ids = ActiveIds(active)
                                 /\ ActiveIds(active) = {} <=> waiter'[v].state = "drained"
    BY <1>9 DEF WaitForActiveTasks, LanesOK, TypeOK
  <2>2. \A t \in ActiveIds(active) : phase[t] = "running"
    BY DEF ActiveIds, LanesOK, TypeOK, SlotsHeldByCurrentTasks
  <2>3. WaitsForStarted'
    BY <2>1, <2>2 DEF Waiting, WaitsForStarted
  <2>4. DrainedMeansDone'
    BY <2>1 DEF Waiting, DrainedMeansDone
  <2>5. NoForgottenWaiter'
    BY <2>1 DEF Waiting, NoForgottenWaiter
  <2> QED
    BY <2>3, <2>4, <2>5 DEF Waiting
<1>10. ASSUME NEW w \in Waiters, WaitTimeout(w)
       PROVE  Waiting'
  <2>1. /\ UNCHANGED <<active, generation, phase, lane, startGen>>
        /\ \A v \in Waiters : \/ waiter'[v] = waiter[v]
                              \/ waiter'[v].ids = waiter[v].ids /\ waiter'[v].state = "timedOut"
    BY <1>10 DEF WaitTimeout, LanesOK, TypeOK
  <2> QED
    BY <2>1 DEF Waiting, WaitsForStarted, DrainedMeansDone, NoForgottenWaiter
<1>11. CASE UNCHANGED vars
  BY <1>11, WaitersUntouched DEF vars
<1>12. ASSUME NEW t \in Tasks, Finish(t)
       PROVE  Waiting'
  BY <1>3, <1>4, <1>12 DEF Finish
<1> QED
  BY <1>1, <1>2, <1>5, <1>6, <1>7, <1>8, <1>9, <1>10, <1>11, <1>12 DEF Next

-----------------------------------------------------------------------------
(* The theorems. *)

\* The strengthened invariant holds initially and every step keeps it.
THEOREM Inductive == Spec => []IInv
<1>1. Init => IInv
  <2>1. Init => Waiting
    BY DEF Init, Waiting, WaitsForStarted, DrainedMeansDone, NoForgottenWaiter
  <2> QED
    BY <2>1, InitLanes DEF IInv
<1>2. IInv /\ [Next]_vars => IInv'
  BY NextLanes, NextWaiting DEF IInv
<1> QED
  BY <1>1, <1>2, PTL DEF Spec

\* Every variable keeps its type (the state of command-queue.ts).
THEOREM TypesKept == Spec => []TypeOK
  BY Inductive, PTL DEF IInv, LanesOK

\* No lane is left with waiting entries and a free slot, however often and at
\* whatever moment caps are changed, lanes cleared or the queue reset.
THEOREM LanesConserveWork == Spec => []WorkConserving
  BY Inductive, PTL DEF IInv, LanesOK

\* The slots of a lane are held by the running tasks of its generation, so a
\* task interrupted by a reset cannot free the slot of a newer one.
THEOREM SlotsAreExact == Spec => []SlotsHeldByCurrentTasks
  BY Inductive, PTL DEF IInv, LanesOK

\* No accepted entry is lost or queued twice.
THEOREM EntriesQueuedOnce == Spec => []QueuedOnce
  BY Inductive, PTL DEF IInv, LanesOK

\* waitForActiveTasks tells the truth: drained means that each of its tasks
\* has settled or was interrupted.
THEOREM WaitersToldTheTruth == Spec => []DrainedMeansDone
  BY Inductive, PTL DEF IInv, Waiting

\* No waiter waits for tasks that are all gone.
THEOREM WaitersNotForgotten == Spec => []NoForgottenWaiter
  BY Inductive, PTL DEF IInv, Waiting

-----------------------------------------------------------------------------
(* The cap. *)

\* A lane a drain puts a task in is within its cap afterwards.
LEMMA DrainWithinCap ==
  ASSUME NEW L \in SUBSET Lanes, NEW Q, NEW A, NEW M, NEW G, NEW P,
         Types(Q, A, M, G, P), Drain(L, Q, A, M, G, P), NEW l \in Lanes,
         ~(active'[l] \subseteq A[l])
  PROVE  Cardinality(active'[l]) <= M[l]
<1> DEFINE n == Taken(L, Q, A, M, l)
<1>1. /\ Q[l] \in Seq(Tasks) /\ A[l] \subseteq Tasks /\ M[l] \in Nat \ {0}
      /\ n \in 0 .. Len(Q[l])
  BY TakenFacts
<1>2. active'[l] = A[l] \cup FirstOf(Q[l], n)
  BY DrainLane
<1>3. n = IF l \in L THEN PumpCount(Q[l], A[l], M[l]) ELSE 0
  BY DEF Taken
<1> HIDE DEF n
<1>4. n # 0
  BY <1>2 DEF FirstOf
<1>5. Cardinality(A[l]) + n <= M[l] /\ Cardinality(A[l]) \in Nat /\ IsFiniteSet(A[l])
  BY <1>1, <1>3, <1>4, PumpCountFacts
<1>6. n \in Nat
  BY <1>1, LenProperties
<1>7. IsFiniteSet(FirstOf(Q[l], n)) /\ Cardinality(FirstOf(Q[l], n)) <= n
  <2> DEFINE f == [i \in 1 .. n |-> Q[l][i]]
  <2>1. f \in Surjection(1 .. n, FirstOf(Q[l], n))
    BY DEF Surjection, FirstOf
  <2>2. IsFiniteSet(1 .. n) /\ Cardinality(1 .. n) = n
    BY <1>4, <1>6, FS_Interval
  <2> QED
    BY <2>1, <2>2, FS_Surjection
<1>8. Cardinality(FirstOf(Q[l], n)) \in Nat /\ Cardinality(A[l] \cap FirstOf(Q[l], n)) \in Nat
  <2>1. IsFiniteSet(A[l] \cap FirstOf(Q[l], n))
    BY <1>5, FS_Subset
  <2> QED
    BY <1>7, <2>1, FS_CardinalityType
<1>9. Cardinality(active'[l])
        = Cardinality(A[l]) + Cardinality(FirstOf(Q[l], n)) - Cardinality(A[l] \cap FirstOf(Q[l], n))
  BY <1>2, <1>5, <1>7, FS_Union
<1> QED
  BY <1>1, <1>5, <1>6, <1>7, <1>8, <1>9

\* A lane starts a task only within its cap, also when setCommandLaneConcurrency
\* lowers the cap under running tasks.
THEOREM CapRespected == Spec => StartsWithinCap
<1> DEFINE Capped == \A l \in Lanes : ~(active'[l] \subseteq active[l])
                                        => Cardinality(active'[l]) <= maxConcurrent'[l]
<1>1. ASSUME LanesOK, [Next]_vars
      PROVE  Capped
  <2>1. SUFFICES ASSUME NEW l \in Lanes, ~(active'[l] \subseteq active[l])
                 PROVE  Cardinality(active'[l]) <= maxConcurrent'[l]
    OBVIOUS
  <2>2. /\ Types(queue, active, maxConcurrent, generation, phase)
        /\ lane \in [Tasks -> Lanes]
    BY <1>1, LanesAreDrainable
  <2>3. ASSUME NEW t \in Tasks, Enqueue(t)
        PROVE  Cardinality(active'[l]) <= maxConcurrent'[l]
    <3> DEFINE Q == [queue EXCEPT ![lane[t]] = Pushed(@, t)]
               P == [phase EXCEPT ![t] = "queued"]
    <3>1. Types(Q, active, maxConcurrent, generation, P)
      <4>1. Append(queue[lane[t]], t) \in Seq(Tasks)
        BY <2>2, AppendProperties DEF Types
      <4> QED
        BY <2>2, <4>1 DEF Types, Pushed, Phases
    <3>2. Drain({lane[t]}, Q, active, maxConcurrent, generation, P) /\ maxConcurrent' = maxConcurrent
      BY <2>3 DEF Enqueue
    <3> HIDE DEF Q, P
    <3> QED
      BY <2>1, <2>2, <3>1, <3>2, DrainWithinCap
  <2>4. ASSUME NEW t \in Tasks, FinishCurrent(t)
        PROVE  Cardinality(active'[l]) <= maxConcurrent'[l]
    <3> DEFINE A == [active EXCEPT ![lane[t]] = @ \ {t}]
               P == [phase EXCEPT ![t] = "settled"]
    <3>1. A \in [Lanes -> SUBSET Tasks] /\ P \in [Tasks -> Phases] /\ A[l] \subseteq active[l]
      BY <2>2 DEF Types, Phases
    <3>2. Types(queue, A, maxConcurrent, generation, P)
      BY <2>2, <3>1 DEF Types
    <3>3. Drain({lane[t]}, queue, A, maxConcurrent, generation, P) /\ maxConcurrent' = maxConcurrent
      BY <2>4 DEF FinishCurrent
    <3> HIDE DEF A, P
    <3>4. ~(active'[l] \subseteq A[l])
      BY <2>1, <3>1
    <3> QED
      BY <2>2, <3>2, <3>3, <3>4, DrainWithinCap
  <2>5. ASSUME NEW k \in Lanes, NEW m \in 0 .. MaxConcurrency, SetConcurrency(k, m)
        PROVE  Cardinality(active'[l]) <= maxConcurrent'[l]
    <3> DEFINE M == [maxConcurrent EXCEPT ![k] = Clamped(m)]
    <3>1. Clamped(m) \in 1 .. MaxConcurrency
      BY ConstantsAssumption DEF Clamped
    <3>2. Types(queue, active, M, generation, phase)
      BY <2>2, <3>1 DEF Types
    <3>3. Drain({k}, queue, active, M, generation, phase) /\ maxConcurrent' = M
      BY <2>5 DEF SetConcurrency
    <3> HIDE DEF M
    <3> QED
      BY <2>1, <3>2, <3>3, DrainWithinCap
  <2>6. ASSUME ResetAllLanes
        PROVE  Cardinality(active'[l]) <= maxConcurrent'[l]
    <3> DEFINE A == [k \in Lanes |-> {}]
    <3>1. /\ Drain(LanesToDrain, queue, A, maxConcurrent, Bumped, phase)
          /\ maxConcurrent' = maxConcurrent /\ \A k \in Lanes : generation[k] < MaxGeneration
      BY <2>6 DEF ResetAllLanes
    <3>2. Bumped \in [Lanes -> Generations]
      BY <2>2, <3>1, ConstantsAssumption DEF Bumped, Types, Generations
    <3>3. Types(queue, A, maxConcurrent, Bumped, phase) /\ LanesToDrain \in SUBSET Lanes
      BY <2>2, <3>2 DEF Types, LanesToDrain
    <3>4. ~(active'[l] \subseteq A[l])
      BY <2>1
    <3> HIDE DEF A
    <3> QED
      BY <3>1, <3>3, <3>4, DrainWithinCap
  <2>7. ASSUME NEW t \in Tasks, Finish(t)
        PROVE  Cardinality(active'[l]) <= maxConcurrent'[l]
    BY <2>1, <2>4, <2>7 DEF Finish, FinishStale
  <2>8. CASE UNCHANGED active
    BY <2>1, <2>8
  <2> QED
    BY <1>1, <2>3, <2>5, <2>6, <2>7, <2>8 DEF Next, EnqueueRefused, ClearLane,
       MarkDraining, WaitForActiveTasks, WaitTimeout, vars
<1>2. IInv /\ [Next]_vars => [Capped]_vars
  BY <1>1 DEF IInv
<1> HIDE DEF Capped
<1>3. Spec => [][Capped]_vars
  BY Inductive, <1>2, PTL DEF Spec
<1> QED
  BY <1>3 DEF StartsWithinCap, Capped

-----------------------------------------------------------------------------
(* The order of a lane. *)

\* What leaves the front of a queue leaves the rest in order.
LEMMA RestKeepsOrder ==
  ASSUME NEW q \in Seq(Tasks), NEW n \in 0 .. Len(q), NEW t, NEW u,
         Ahead(q, t, u), t \notin FirstOf(q, n)
  PROVE  Ahead(RestOf(q, n), t, u)
<1>1. Len(q) \in Nat
  BY LenProperties
<1>2. PICK i, j \in 1 .. Len(q) : i < j /\ q[i] = t /\ q[j] = u
  BY DEF Ahead
<1>3. i > n
  BY <1>1, <1>2 DEF FirstOf
<1>4. /\ Len(RestOf(q, n)) = Len(q) - n
      /\ \A k \in 1 .. Len(q) - n : RestOf(q, n)[k] = q[n + k]
  BY RestOfFacts
<1>5. i - n \in 1 .. Len(q) - n /\ j - n \in 1 .. Len(q) - n /\ i - n < j - n
  BY <1>1, <1>2, <1>3
<1>6. n + (i - n) = i /\ n + (j - n) = j
  BY <1>1, <1>2
<1>7. RestOf(q, n)[i - n] = t /\ RestOf(q, n)[j - n] = u
  BY <1>2, <1>4, <1>5, <1>6
<1> QED
  BY <1>4, <1>5, <1>7 DEF Ahead

\* A drain does not move an entry that waits past those behind it.
LEMMA DrainKeepsOrder ==
  ASSUME NEW L \in SUBSET Lanes, NEW Q, NEW A, NEW M, NEW G, NEW P,
         Types(Q, A, M, G, P), Drain(L, Q, A, M, G, P), NEW l \in Lanes,
         NEW t \in Tasks, NEW u \in Tasks, phase'[t] = "queued", Ahead(Q[l], t, u)
  PROVE  Ahead(queue'[l], t, u)
<1>1. t \notin Started(L, Q, A, M)
  BY DEF Drain
<1>2. PICK n : n = Taken(L, Q, A, M, l)
  OBVIOUS
<1>3. t \notin FirstOf(Q[l], n)
  BY <1>1, <1>2, StartedIffTaken
<1>4. Q[l] \in Seq(Tasks) /\ n \in 0 .. Len(Q[l])
  BY <1>2, TakenFacts
<1>5. queue'[l] = RestOf(Q[l], n)
  BY <1>2, DrainLane
<1> QED
  BY <1>3, <1>4, <1>5, RestKeepsOrder

\* A drain starts nothing that is not waiting.
LEMMA DrainKeepsNew ==
  ASSUME NEW L \in SUBSET Lanes, NEW Q, NEW A, NEW M, NEW G, NEW P,
         Types(Q, A, M, G, P), Drain(L, Q, A, M, G, P), Queued(Q, P),
         NEW u \in Tasks, P[u] # "queued"
  PROVE  phase'[u] = P[u]
<1>1. u \notin Started(L, Q, A, M)
  BY DrainedWereQueued
<1> QED
  BY <1>1 DEF Drain

\* What NoOvertaking says of one pair of entries: once t waits, u does not get
\* before it.
Overtaken(t, u) ==
  (/\ lane[t] = lane[u] /\ t # u
   /\ phase[t] = "queued" /\ phase'[t] = "queued"
   /\ phase[u] = "new" \/ Ahead(queue[lane[t]], t, u))
  => phase'[u] \in {"new", "refused"} \/ Ahead(queue'[lane[t]], t, u)

\* Steps that drain lanes from the queues as they are keep the order.
LEMMA PumpedInOrder ==
  ASSUME LanesOK, NEW L \in SUBSET Lanes, NEW A, NEW M, NEW G, NEW P,
         Types(queue, A, M, G, P), Drain(L, queue, A, M, G, P), Queued(queue, P),
         NEW t \in Tasks, NEW u \in Tasks, phase[u] = "new" => P[u] = "new"
  PROVE  Overtaken(t, u)
<1>1. lane[t] \in Lanes
  BY LanesAreDrainable
<1>2. phase[u] = "new" => phase'[u] = "new"
  BY DrainKeepsNew
<1>3. phase'[t] = "queued" /\ Ahead(queue[lane[t]], t, u) => Ahead(queue'[lane[t]], t, u)
  BY <1>1, DrainKeepsOrder
<1> QED
  BY <1>2, <1>3 DEF Overtaken

\* A new entry waits behind those that wait in its lane already.
LEMMA EnqueuedInOrder ==
  ASSUME LanesOK, NEW v \in Tasks, Enqueue(v), NEW t \in Tasks, NEW u \in Tasks
  PROVE  Overtaken(t, u)
<1> SUFFICES ASSUME lane[t] = lane[u], t # u, phase[t] = "queued", phase'[t] = "queued",
                    phase[u] = "new" \/ Ahead(queue[lane[t]], t, u)
             PROVE  phase'[u] \in {"new", "refused"} \/ Ahead(queue'[lane[t]], t, u)
  BY DEF Overtaken
<1>1. /\ Types(queue, active, maxConcurrent, generation, phase)
      /\ Queued(queue, phase) /\ lane \in [Tasks -> Lanes]
  BY LanesAreDrainable
<1>2. PICK l \in Lanes : l = lane[t]
  BY <1>1
<1>3. PICK Q, P : Q = WithNew(v) /\ P = NewQueued(v)
  OBVIOUS
<1>4. /\ Types(Q, active, maxConcurrent, generation, P)
      /\ Queued(Q, P)
      /\ Drain({lane[v]}, Q, active, maxConcurrent, generation, P)
      /\ Len(queue[l]) \in Nat
      /\ Len(Q[l]) = IF l = lane[v] THEN Len(queue[l]) + 1 ELSE Len(queue[l])
      /\ \A i \in 1 .. Len(queue[l]) : Q[l][i] = queue[l][i]
      /\ l = lane[v] => Q[l][Len(queue[l]) + 1] = v
  BY <1>3, EnqueueDrainable
<1>5. {lane[v]} \in SUBSET Lanes
  BY <1>1
<1>6. Ahead(Q[l], t, u) => Ahead(queue'[l], t, u)
  BY <1>4, <1>5, DrainKeepsOrder
<1>7. CASE Ahead(queue[l], t, u)
  <2>1. PICK i, j \in 1 .. Len(queue[l]) : i < j /\ queue[l][i] = t /\ queue[l][j] = u
    BY <1>7 DEF Ahead
  <2>2. /\ i \in 1 .. Len(Q[l]) /\ j \in 1 .. Len(Q[l])
        /\ Q[l][i] = t /\ Q[l][j] = u
    BY <1>4, <2>1
  <2>3. Ahead(Q[l], t, u)
    BY <2>1, <2>2 DEF Ahead
  <2> QED
    BY <1>2, <1>6, <2>3
<1>8. CASE phase[u] = "new" /\ u = v
  <2>1. PICK k \in Lanes : Holds(t, queue, k)
    BY <1>1 DEF Queued
  <2>2. k = l
    BY <1>1, <1>2, <2>1 DEF Queued, Holds
  <2>3. PICK i \in 1 .. Len(queue[l]) : queue[l][i] = t
    BY <2>1, <2>2 DEF Holds
  <2>4. l = lane[v]
    BY <1>2, <1>8
  <2>5. PICK m \in Nat : m = Len(queue[l])
    BY <1>4
  <2>6. Len(Q[l]) = m + 1 /\ i < m + 1 /\ i \in 1 .. m + 1 /\ m + 1 \in 1 .. m + 1
    BY <1>4, <2>3, <2>4, <2>5
  <2>7. Q[l][i] = t /\ Q[l][m + 1] = u
    BY <1>4, <1>8, <2>3, <2>4, <2>5
  <2>8. Ahead(Q[l], t, u)
    BY <2>6, <2>7 DEF Ahead
  <2> QED
    BY <1>2, <1>6, <2>8
<1>9. CASE phase[u] = "new" /\ u # v
  <2>1. P[u] = "new"
    BY <1>1, <1>3, <1>9 DEF NewQueued, Types
  <2>2. phase'[u] = P[u]
    BY <1>4, <1>5, <2>1, DrainKeepsNew
  <2> QED
    BY <2>1, <2>2
<1> QED
  BY <1>2, <1>7, <1>8, <1>9

\* A lane is first in, first out: no enqueue, completion, change of the cap,
\* clear or reset lets an entry get before one that was there before it.
THEOREM OrderIsKept == Spec => NoOvertaking
<1>1. ASSUME LanesOK, [Next]_vars, NEW t \in Tasks, NEW u \in Tasks
      PROVE  Overtaken(t, u)
  <2>1. /\ Types(queue, active, maxConcurrent, generation, phase)
        /\ Queued(queue, phase) /\ lane \in [Tasks -> Lanes] /\ phase \in [Tasks -> Phases]
    BY <1>1, LanesAreDrainable DEF LanesOK, TypeOK
  <2>2. ASSUME NEW v \in Tasks, EnqueueRefused(v) PROVE Overtaken(t, u)
    BY <2>1, <2>2 DEF EnqueueRefused, Overtaken
  <2>3. ASSUME NEW v \in Tasks, Enqueue(v) PROVE Overtaken(t, u)
    BY <1>1, <2>3, EnqueuedInOrder
  <2>4. ASSUME NEW v \in Tasks, FinishCurrent(v) PROVE Overtaken(t, u)
    <3> DEFINE A == [active EXCEPT ![lane[v]] = @ \ {v}]
               P == [phase EXCEPT ![v] = "settled"]
    <3>1. Drain({lane[v]}, queue, A, maxConcurrent, generation, P) /\ phase[v] = "running"
      BY <2>4 DEF FinishCurrent
    <3>2. Types(queue, A, maxConcurrent, generation, P)
      BY <2>1 DEF Types, Phases
    <3>3. \A w \in Tasks : P[w] = IF w = v THEN "settled" ELSE phase[w]
      BY <2>1
    <3> HIDE DEF A, P
    <3>4. Queued(queue, P)
      BY <2>1, <3>1, <3>3 DEF Queued
    <3>5. phase[u] = "new" => P[u] = "new"
      BY <3>1, <3>3
    <3>6. {lane[v]} \in SUBSET Lanes
      BY <2>1
    <3> QED
      BY <1>1, <3>1, <3>2, <3>4, <3>5, <3>6, PumpedInOrder
  <2>5. ASSUME NEW v \in Tasks, FinishStale(v) PROVE Overtaken(t, u)
    BY <2>1, <2>5 DEF FinishStale, Overtaken
  <2>6. ASSUME NEW l \in Lanes, ClearLane(l) PROVE Overtaken(t, u)
    <3>1. /\ queue' = [queue EXCEPT ![l] = <<>>]
          /\ phase' = [w \in Tasks |->
                         IF w \in FirstOf(queue[l], Len(queue[l])) THEN "cleared" ELSE phase[w]]
      BY <2>6 DEF ClearLane
    <3>2. phase[u] = "new" => phase'[u] = "new"
      BY <2>1, <3>1 DEF FirstOf, Queued, Holds
    <3>3. ASSUME phase'[t] = "queued", Ahead(queue[lane[t]], t, u)
          PROVE  Ahead(queue'[lane[t]], t, u)
      <4>1. t \notin FirstOf(queue[l], Len(queue[l]))
        BY <3>1, <3>3
      <4>2. lane[t] # l
        BY <3>3, <4>1 DEF Ahead, FirstOf
      <4> QED
        BY <2>1, <3>1, <3>3, <4>2 DEF Types
    <3> QED
      BY <3>2, <3>3 DEF Overtaken
  <2>7. ASSUME NEW l \in Lanes, NEW m \in 0 .. MaxConcurrency, SetConcurrency(l, m)
        PROVE  Overtaken(t, u)
    <3> DEFINE M == [maxConcurrent EXCEPT ![l] = Clamped(m)]
    <3>1. Drain({l}, queue, active, M, generation, phase)
      BY <2>7 DEF SetConcurrency
    <3>2. Clamped(m) \in 1 .. MaxConcurrency
      BY ConstantsAssumption DEF Clamped
    <3>3. Types(queue, active, M, generation, phase)
      BY <2>1, <3>2 DEF Types
    <3> HIDE DEF M
    <3>4. {l} \in SUBSET Lanes
      OBVIOUS
    <3> QED
      BY <1>1, <2>1, <3>1, <3>3, <3>4, PumpedInOrder
  <2>8. ASSUME ResetAllLanes PROVE Overtaken(t, u)
    <3> DEFINE A == [l \in Lanes |-> {}]
    <3>1. /\ Drain(LanesToDrain, queue, A, maxConcurrent, Bumped, phase)
          /\ \A l \in Lanes : generation[l] < MaxGeneration
      BY <2>8 DEF ResetAllLanes
    <3>2. Bumped \in [Lanes -> Generations]
      BY <2>1, <3>1, ConstantsAssumption DEF Bumped, Types, Generations
    <3>3. Types(queue, A, maxConcurrent, Bumped, phase) /\ LanesToDrain \in SUBSET Lanes
      BY <2>1, <3>2 DEF Types, LanesToDrain
    <3> HIDE DEF A
    <3> QED
      BY <1>1, <2>1, <3>1, <3>3, PumpedInOrder
  <2>9. ASSUME UNCHANGED <<queue, phase>> PROVE Overtaken(t, u)
    BY <2>9 DEF Overtaken
  <2> QED
    BY <1>1, <2>2, <2>3, <2>4, <2>5, <2>6, <2>7, <2>8, <2>9 DEF Next, Finish, MarkDraining,
       WaitForActiveTasks, WaitTimeout, vars
<1> DEFINE Orderly == \A t, u \in Tasks : Overtaken(t, u)
<1>2. IInv /\ [Next]_vars => [Orderly]_vars
  BY <1>1 DEF IInv
<1> HIDE DEF Orderly
<1>3. Spec => [][Orderly]_vars
  BY Inductive, <1>2, PTL DEF Spec
<1> QED
  BY <1>3 DEF NoOvertaking, Orderly, Overtaken
=============================================================================
