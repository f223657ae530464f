---------------------------- MODULE CommandQueue ----------------------------
(***************************************************************************)
(* The in-process, lane-aware command queue of src/process/command-queue.ts. *)
(*                                                                         *)
(* A lane holds a FIFO of entries, the set of task ids it is executing, a  *)
(* concurrency cap and a generation.  Every exported function runs to      *)
(* completion on the event loop before anything else does, so each one is  *)
(* one action; what interleaves is the settling of the tasks, the timers   *)
(* of waitForActiveTasks and the calls of the rest of the gateway.         *)
(*                                                                         *)
(* An entry is started at most once and gets a fresh task id when it is,   *)
(* so the entry itself stands for its task id.  The lane's `draining' flag *)
(* is TRUE only while drainLane is on the call stack, hence never between  *)
(* two actions.                                                            *)
(***************************************************************************)
EXTENDS Integers, Sequences, FiniteSets

CONSTANTS Lanes,          \* lane names
          Tasks,          \* entries that will ever be enqueued
          Waiters,        \* calls of waitForActiveTasks
          MaxConcurrency, \* largest cap setCommandLaneConcurrency is given
          MaxGeneration   \* bound on the number of resetAllLanes calls

ASSUME ConstantsAssumption ==
  /\ IsFiniteSet(Tasks)
  /\ MaxConcurrency \in Nat \ {0}
  /\ MaxGeneration \in Nat

VARIABLES
  gatewayDraining, \* set by markGatewayDraining, unset by resetAllLanes
  queue,           \* lane -> waiting entries, oldest first
  active,          \* lane -> activeTaskIds
  maxConcurrent,   \* lane -> cap
  generation,      \* lane -> number of resets it went through
  phase,           \* task -> where the entry's promise is
  lane,            \* task -> lane it was enqueued in
  startGen,        \* task -> lane generation captured when it was started
  waiter           \* waiter -> what its promise waits for or returned

vars == <<gatewayDraining, queue, active, maxConcurrent, generation,
          phase, lane, startGen, waiter>>

\* Whether a promise was resolved or rejected by its task makes no difference.
Phases == {"new", "refused", "queued", "running", "settled", "cleared"}
WaiterStates == {"idle", "waiting", "drained", "timedOut"}
Generations  == 0 .. MaxGeneration

TypeOK ==
  /\ gatewayDraining \in BOOLEAN
  /\ queue \in [Lanes -> Seq(Tasks)]
  /\ active \in [Lanes -> SUBSET Tasks]
  /\ maxConcurrent \in [Lanes -> 1 .. MaxConcurrency]
  /\ generation \in [Lanes -> Generations]
  /\ phase \in [Tasks -> Phases]
  /\ lane \in [Tasks -> Lanes]
  /\ startGen \in [Tasks -> Generations]
  /\ waiter \in [Waiters -> [state : WaiterStates, ids : SUBSET Tasks]]

Init ==
  /\ gatewayDraining = FALSE
  /\ queue = [l \in Lanes |-> <<>>]
  /\ active = [l \in Lanes |-> {}]
  /\ maxConcurrent = [l \in Lanes |-> 1]
  /\ generation = [l \in Lanes |-> 0]
  /\ phase = [t \in Tasks |-> "new"]
  /\ lane \in [Tasks -> Lanes]
  /\ startGen = [t \in Tasks |-> 0]
  /\ waiter = [w \in Waiters |-> [state |-> "idle", ids |-> {}]]

-----------------------------------------------------------------------------
(* The pump loop: entries leave the front of the queue while the lane has a *)
(* free slot.                                                              *)

\* Mutant: the loop admits one entry more than the cap.
MutPumpCount(q, a, m) ==
  IF Cardinality(a) > m THEN 0
  ELSE IF Len(q) <= m + 1 - Cardinality(a) THEN Len(q) ELSE m + 1 - Cardinality(a)

PumpCount(q, a, m) ==
  IF Cardinality(a) >= m THEN 0
  ELSE IF Len(q) <= m - Cardinality(a) THEN Len(q) ELSE m - Cardinality(a)

FirstOf(q, n) == {q[i] : i \in 1 .. n}
RestOf(q, n)  == SubSeq(q, n + 1, Len(q))

\* The entries started when the lanes in L are drained from queues Q, active
\* sets A and caps M.
Started(L, Q, A, M) ==
  UNION {FirstOf(Q[l], PumpCount(Q[l], A[l], M[l])) : l \in L}

\* Drain the lanes in L, starting from queues Q, active sets A, caps M,
\* generations G and task phases P.
Drain(L, Q, A, M, G, P) ==
  LET count(l) == IF l \in L THEN PumpCount(Q[l], A[l], M[l]) ELSE 0
      begun    == Started(L, Q, A, M)
  IN /\ queue' = [l \in Lanes |-> RestOf(Q[l], count(l))]
     /\ active' = [l \in Lanes |-> A[l] \cup FirstOf(Q[l], count(l))]
     /\ phase' = [t \in Tasks |-> IF t \in begun THEN "running" ELSE P[t]]
     /\ startGen' = [t \in Tasks |-> IF t \in begun THEN G[lane[t]] ELSE startGen[t]]

ActiveIds(A) == UNION {A[l] : l \in Lanes}

\* Mutant: a waiter is resolved by the first of its tasks to finish.
MutNotifiedEarly(A) ==
  [w \in Waiters |->
     IF waiter[w].state = "waiting" /\ ~(waiter[w].ids \subseteq ActiveIds(A))
     THEN [waiter[w] EXCEPT !.state = "drained"]
     ELSE waiter[w]]

\* Mutant: nobody tells the waiters.
MutNotifiedNever(A) == waiter

\* notifyActiveTaskWaiters with active sets A.
Notified(A) ==
  [w \in Waiters |->
     IF waiter[w].state = "waiting" /\ waiter[w].ids \cap ActiveIds(A) = {}
     THEN [waiter[w] EXCEPT !.state = "drained"]
     ELSE waiter[w]]

-----------------------------------------------------------------------------
(* enqueueCommandInLane *)

\* Mutant: the newest entry goes first.
MutPushed(q, t) == <<t>> \o q

Pushed(q, t) == Append(q, t)

EnqueueRefused(t) ==
  /\ phase[t] = "new"
  /\ gatewayDraining
  /\ phase' = [phase EXCEPT ![t] = "refused"]
  /\ UNCHANGED <<gatewayDraining, queue, active, maxConcurrent, generation,
                 lane, startGen, waiter>>

Enqueue(t) ==
  /\ phase[t] = "new"
  /\ ~gatewayDraining
  /\ Drain({lane[t]}, [queue EXCEPT ![lane[t]] = Pushed(@, t)], active,
           maxConcurrent, generation, [phase EXCEPT ![t] = "queued"])
  /\ UNCHANGED <<gatewayDraining, maxConcurrent, generation, lane, waiter>>

\* Mutant: a finished task frees its slot but does not pump its lane.
MutFinishCurrent(t) ==
  LET freed == [active EXCEPT ![lane[t]] = @ \ {t}]
  IN /\ phase[t] = "running"
     /\ startGen[t] = generation[lane[t]]
     /\ waiter' = Notified(freed)
     /\ active' = freed
     /\ phase' = [phase EXCEPT ![t] = "settled"]
     /\ UNCHANGED <<gatewayDraining, queue, maxConcurrent, generation, lane, startGen>>

(* The two ends of `await entry.task()': completeTask finds the lane in *)
(* the generation the task was started in, or a reset came in between.     *)

FinishCurrent(t) ==
  LET freed == [active EXCEPT ![lane[t]] = @ \ {t}]
  IN /\ phase[t] = "running"
     /\ startGen[t] = generation[lane[t]]
     /\ waiter' = Notified(freed)
     /\ Drain({lane[t]}, queue, freed, maxConcurrent, generation,
              [phase EXCEPT ![t] = "settled"])
     /\ UNCHANGED <<gatewayDraining, maxConcurrent, generation, lane>>

FinishStale(t) ==
  /\ phase[t] = "running"
  /\ startGen[t] # generation[lane[t]]
  /\ phase' = [phase EXCEPT ![t] = "settled"]
  /\ UNCHANGED <<gatewayDraining, queue, active, maxConcurrent, generation,
                 lane, startGen, waiter>>

Finish(t) == FinishCurrent(t) \/ FinishStale(t)

Clamped(m) == IF m < 1 THEN 1 ELSE m

SetConcurrency(l, m) ==
  LET caps == [maxConcurrent EXCEPT ![l] = Clamped(m)]
  IN /\ maxConcurrent' = caps
     /\ Drain({l}, queue, active, caps, generation, phase)
     /\ UNCHANGED <<gatewayDraining, generation, lane, waiter>>

\* Mutant: the entries are rejected but stay in the queue.
MutClearLane(l) ==
  /\ phase' = [t \in Tasks |->
                 IF t \in FirstOf(queue[l], Len(queue[l])) THEN "cleared" ELSE phase[t]]
  /\ UNCHANGED <<gatewayDraining, queue, active, maxConcurrent, generation, lane,
                 startGen, waiter>>

ClearLane(l) ==
  /\ queue' = [queue EXCEPT ![l] = <<>>]
  /\ phase' = [t \in Tasks |->
                 IF t \in FirstOf(queue[l], Len(queue[l])) THEN "cleared" ELSE phase[t]]
  /\ UNCHANGED <<gatewayDraining, active, maxConcurrent, generation, lane,
                 startGen, waiter>>

MarkDraining ==
  /\ gatewayDraining' = TRUE
  /\ UNCHANGED <<queue, active, maxConcurrent, generation, phase, lane,
                 startGen, waiter>>

\* Mutant: the reset forgets the lanes that still have queued entries.
MutLanesToDrain == {}

LanesToDrain == {l \in Lanes : queue[l] # <<>>}

\* Mutant: the reset keeps the generation of the interrupted tasks.
MutBumped == generation

Bumped == [l \in Lanes |-> generation[l] + 1]

ResetAllLanes ==
  LET idle == [l \in Lanes |-> {}]
  IN /\ \A l \in Lanes : generation[l] < MaxGeneration
     /\ gatewayDraining' = FALSE
     /\ generation' = Bumped
     /\ Drain(LanesToDrain, queue, idle, maxConcurrent, Bumped, phase)
     /\ waiter' = Notified(active')
     /\ UNCHANGED <<maxConcurrent, lane>>

(* waitForActiveTasks: nothing active, no time to wait, or a waiter with a *)
(* timer.                                                                  *)

WaitForActiveTasks(w, hasBudget) ==
  LET ids == ActiveIds(active)
  IN /\ waiter[w].state = "idle"
     /\ waiter' = [waiter EXCEPT ![w] =
          [state |-> IF ids = {} THEN "drained"
                     ELSE IF hasBudget THEN "waiting" ELSE "timedOut",
           ids |-> ids]]
     /\ UNCHANGED <<gatewayDraining, queue, active, maxConcurrent, generation,
                    phase, lane, startGen>>

WaitTimeout(w) ==
  /\ waiter[w].state = "waiting"
  /\ waiter' = [waiter EXCEPT ![w].state = "timedOut"]
  /\ UNCHANGED <<gatewayDraining, queue, active, maxConcurrent, generation,
                 phase, lane, startGen>>

Next ==
  \/ \E t \in Tasks : EnqueueRefused(t) \/ Enqueue(t) \/ Finish(t)
  \/ \E l \in Lanes : ClearLane(l) \/ \E m \in 0 .. MaxConcurrency : SetConcurrency(l, m)
  \/ MarkDraining
  \/ ResetAllLanes
  \/ \E w \in Waiters : WaitTimeout(w) \/ \E b \in BOOLEAN : WaitForActiveTasks(w, b)

Spec == Init /\ [][Next]_vars

\* Fairness: the commands run under their own timeouts, so a started task
\* settles; a timer that was set fires.
FairSpec ==
  /\ Spec
  /\ \A t \in Tasks : WF_vars(Finish(t))
  /\ \A w \in Waiters : WF_vars(WaitTimeout(w))
-----------------------------------------------------------------------------
(* Safety *)

\* No lane is left with waiting entries and a free slot: whatever freed a
\* slot or added an entry also pumped the lane, the reset after an
\* in-process restart included.
WorkConserving ==
  \A l \in Lanes : queue[l] # <<>> => Cardinality(active[l]) >= maxConcurrent[l]

\* The slots of a lane are held by exactly the tasks it started in its
\* current generation and that have not settled: no slot leaks, and a task
\* interrupted by a reset holds none.
SlotsHeldByCurrentTasks ==
  \A t \in Tasks, l \in Lanes :
    t \in active[l] <=> /\ phase[t] = "running"
                       /\ lane[t] = l
                       /\ startGen[t] = generation[l]

\* The queues hold exactly the entries whose promise is still waiting for a
\* start, each once and in its own lane: none is lost, none runs twice.
QueuedOnce ==
  /\ \A t \in Tasks : phase[t] = "queued" <=> \E l \in Lanes : \E i \in 1 .. Len(queue[l]) : queue[l][i] = t
  /\ \A l \in Lanes : \A i \in 1 .. Len(queue[l]) :
       /\ lane[queue[l][i]] = l
       /\ \A j \in 1 .. Len(queue[l]) : queue[l][i] = queue[l][j] => i = j

\* waitForActiveTasks says "drained" only when each task that was active at
\* the call has settled or was interrupted by a reset of its lane.
DrainedMeansDone ==
  \A w \in Waiters : waiter[w].state = "drained" =>
    \A t \in waiter[w].ids : phase[t] = "settled" \/ startGen[t] < generation[lane[t]]

\* A waiter that still waits has a task to wait for: no completion, and no
\* reset, is missed by notifyActiveTaskWaiters.
NoForgottenWaiter ==
  \A w \in Waiters : waiter[w].state = "waiting" => waiter[w].ids \cap ActiveIds(active) # {}

(* Action properties *)

\* A lane starts a task only within its cap, also after the cap was lowered
\* under running tasks.
StartsWithinCap ==
  [][\A l \in Lanes : ~(active'[l] \subseteq active[l])
                       => Cardinality(active'[l]) <= maxConcurrent'[l]]_vars

Ahead(q, t, u) == \E i, j \in 1 .. Len(q) : i < j /\ q[i] = t /\ q[j] = u

\* First in, first out: an entry that waits behind t, or is enqueued while t
\* waits, in the same lane, stays behind t until t leaves the queue.
NoOvertaking ==
  [][\A t, u \in Tasks :
       (/\ lane[t] = lane[u] /\ t # u
        /\ phase[t] = "queued" /\ phase'[t] = "queued"
        /\ phase[u] = "new" \/ Ahead(queue[lane[t]], t, u))
       => phase'[u] \in {"new", "refused"} \/ Ahead(queue'[lane[t]], t, u)]_vars

(* Liveness *)

\* Every accepted entry is started or cleared.
QueuedLeavesQueue == \A t \in Tasks : phase[t] = "queued" ~> phase[t] # "queued"
=============================================================================
