------------------------- MODULE HeartbeatWakeProofs -------------------------
(* Proofs about HeartbeatWake, for any targets, runners, callbacks and delays. *)
EXTENDS HeartbeatWake, TLAPS

PriorityMaps == [Targets -> Priorities \cup {NoWake}]

-----------------------------------------------------------------------------
(* The operators of the wake layer *)

\* schedule always leaves a timer, and leaves a retry alone.
LEMMA ScheduledFacts ==
  ASSUME NEW t, TimerOK(t), NEW d \in Delays, NEW k \in {"normal", "retry"}
  PROVE  /\ TimerOK(Scheduled(t, d, k))
         /\ Scheduled(t, d, k) # None
         /\ t # None /\ t.kind = "retry" => Scheduled(t, d, k) = t
<1>1. d \in Nat
  BY ConstantsAssumption DEF Delays
<1>2. [due |-> d, kind |-> k, delay |-> d] \in Timers
  BY <1>1 DEF Timers
<1> QED
  BY <1>1, <1>2, ConstantsAssumption DEF TimerOK, Scheduled, Kept

\* Queueing wakes weakens no pending reason and forgets none of the wakes.
LEMMA QueuedFacts ==
  ASSUME NEW p \in PriorityMaps, NEW w \in PriorityMaps
  PROVE  /\ Queued(p, w) \in PriorityMaps
         /\ \A t \in Targets : /\ Queued(p, w)[t] >= p[t]
                               /\ w[t] # NoWake => Queued(p, w)[t] # NoWake
BY DEF PriorityMaps, Priorities, NoWake, Queued, Stronger

\* A wake for one target is a wake for that target.
LEMMA OnlyFacts ==
  ASSUME NEW t \in Targets, NEW priority \in Priorities \cup {NoWake}
  PROVE  Only(t, priority) \in PriorityMaps /\ Only(t, priority)[t] = priority
BY DEF Only, PriorityMaps

\* A call is turned away exactly if its runner is stopped, heartbeats are
\* disabled or no agent has any.
LEMMA CallFacts ==
  ASSUME NEW c \in Calls, NEW t \in c.left, \A u \in c.left : c.wakes[u] # NoWake
  PROVE  /\ CallOK(Call(c, t))
         /\ Call(c, t).by = c.by
         /\ Call(c, t).wakes = c.wakes
         /\ Call(c, t).off = (life[c.by] # "live" \/ ~enabled \/ ~agents[c.by])
<1> DEFINE off == life[c.by] # "live" \/ ~enabled \/ ~agents[c.by]
           d == [by |-> c.by, wakes |-> c.wakes, left |-> c.left \ {t}, now |-> t,
                 off |-> off, delay |-> c.delay]
<1>1. Call(c, t) = d
  <2>1. Call(c, t) = [c EXCEPT !.now = t, !.left = @ \ {t}, !.off = off]
    BY DEF Call
  <2>2. off \in BOOLEAN
    OBVIOUS
  <2>3. c = [by |-> c.by, wakes |-> c.wakes, left |-> c.left, now |-> c.now,
             off |-> c.off, delay |-> c.delay]
    BY DEF Calls
  <2> HIDE DEF off
  <2> QED
    BY <2>1, <2>2, <2>3 DEF Calls
<1>2. d \in Calls
  <2>1. /\ c.by \in Runners /\ c.wakes \in [Targets -> Priorities \cup {NoWake}]
        /\ c.left \ {t} \in SUBSET Targets /\ t \in Targets /\ c.delay \in Delays
    BY DEF Calls
  <2>2. off \in BOOLEAN
    OBVIOUS
  <2> HIDE DEF off
  <2> QED BY <2>1, <2>2 DEF Calls
<1>3. d.now \notin d.left /\ \A u \in d.left \cup {d.now} : d.wakes[u] # NoWake
  OBVIOUS
<1> HIDE DEF off
<1>4. d.by = c.by /\ d.wakes = c.wakes /\ d.off = off
  OBVIOUS
<1> HIDE DEF d
<1> QED
  BY <1>1, <1>2, <1>3, <1>4 DEF CallOK, off

\* The next call of a batch is one of its wakes, and the batch that has no more
\* leaves a timer if there is a wake it should be for.
LEMMA ContinuedFacts ==
  ASSUME TypeOK, NEW b \in Underway, NEW t, TimerOK(t), pending' \in PriorityMaps,
         Continued(b, t)
  PROVE  /\ batch' \in [Batches -> Calls \cup {None}]
         /\ \A a \in Underway' : CallOK(batch'[a])
         /\ TimerOK(timer')
         /\ running' \in BOOLEAN
         /\ running' => Underway' # {}
         /\ timer' = t \/ timer' # None
         /\ timer' # None \/ running' = running \/ \A u \in Targets : pending'[u] = NoWake
         /\ t # None /\ t.kind = "retry" => timer' = t
<1>1. b \in Batches /\ batch[b] # None /\ CallOK(batch[b]) /\ batch[b] \in Calls
  BY DEF TypeOK, Underway, CallOK
<1>2. CASE batch[b].left # {}
  <2>1. PICK u \in batch[b].left : batch' = [batch EXCEPT ![b] = Call(@, u)]
    BY <1>2 DEF Continued
  <2>2. CallOK(Call(batch[b], u)) /\ Call(batch[b], u) \in Calls /\ Call(batch[b], u) # None
    <3>1. CallOK(Call(batch[b], u))
      BY <1>1, CallFacts DEF CallOK
    <3> QED BY <3>1, ConstantsAssumption DEF CallOK
  <2>3. batch' \in [Batches -> Calls \cup {None}] /\ batch'[b] = Call(batch[b], u)
        /\ \A a \in Batches : a # b => batch'[a] = batch[a]
    BY <1>1, <2>1, <2>2 DEF TypeOK
  <2>4. b \in Underway'
    BY <1>1, <2>2, <2>3 DEF Underway
  <2>5. \A a \in Underway' : CallOK(batch'[a])
    BY <2>2, <2>3 DEF TypeOK, Underway
  <2>6. timer' = t /\ running' = running
    BY <1>2 DEF Continued
  <2> QED BY <2>3, <2>4, <2>5, <2>6 DEF TypeOK
<1>3. CASE batch[b].left = {}
  <2>1. batch' = [batch EXCEPT ![b] = None] /\ timer' = Finally(t, batch[b].delay)
        /\ running' = FALSE
    BY <1>3 DEF Continued
  <2>2. batch' \in [Batches -> Calls \cup {None}]
        /\ \A a \in Underway' : a \in Underway /\ batch'[a] = batch[a]
    BY <1>1, <2>1 DEF TypeOK, Underway
  <2>3. batch[b].delay \in Delays
    BY <1>1 DEF Calls
  <2>4. /\ TimerOK(Scheduled(t, batch[b].delay, "normal"))
        /\ Scheduled(t, batch[b].delay, "normal") # None
        /\ t # None /\ t.kind = "retry" => Scheduled(t, batch[b].delay, "normal") = t
    BY <2>3, ScheduledFacts
  <2>5. \/ timer' = Scheduled(t, batch[b].delay, "normal")
        \/ timer' = t /\ \A u \in Targets : pending'[u] = NoWake
    BY <2>1 DEF Finally
  <2> QED BY <2>1, <2>2, <2>4, <2>5 DEF TypeOK
<1> QED BY <1>2, <1>3

\* What an answer puts back, and the timer it sets for it.
LEMMA RetriedFacts ==
  ASSUME TypeOK
  PROVE  /\ TimerOK(Retried(timer))
         /\ Retried(timer) # None
         /\ timer # None /\ timer.kind = "retry" => Retried(timer) = timer
BY ScheduledFacts DEF TypeOK, Retried, Delays

\* A busy answer puts a wake for the target back.
LEMMA BusyWakeFacts ==
  ASSUME TypeOK, NEW b \in Underway
  PROVE  /\ BusyWake(b) \in PriorityMaps
         /\ batch[b].now \in Targets
         /\ BusyWake(b)[batch[b].now] # NoWake
<1>1. CallOK(batch[b]) /\ batch[b] \in Calls
  BY DEF TypeOK, CallOK
<1>2. /\ batch[b].now \in Targets
      /\ batch[b].wakes[batch[b].now] \in Priorities \cup {NoWake}
      /\ batch[b].wakes[batch[b].now] # NoWake
  BY <1>1 DEF CallOK, Calls
<1> QED BY <1>2, OnlyFacts DEF BusyWake

\* Requests: of anybody, and of an interval timer.
LEMMA RequestedFacts ==
  ASSUME TypeOK, NEW t \in Targets, NEW priority \in Priorities, NEW delay \in Delays,
         Requested(t, priority, delay)
  PROVE  /\ pending' \in PriorityMaps
         /\ \A u \in Targets : pending'[u] >= pending[u]
         /\ pending'[t] # NoWake
         /\ TimerOK(timer')
         /\ timer' # None
         /\ timer # None /\ timer.kind = "retry" => timer' = timer
<1>1. pending \in PriorityMaps /\ TimerOK(timer)
  BY DEF TypeOK, PriorityMaps
<1>2. Only(t, priority) \in PriorityMaps /\ Only(t, priority)[t] # NoWake
  BY OnlyFacts DEF Priorities, NoWake
<1>3. pending' = Queued(pending, Only(t, priority)) /\ timer' = Scheduled(timer, delay, "normal")
  BY DEF Requested
<1>4. /\ pending' \in PriorityMaps
      /\ \A u \in Targets : pending'[u] >= pending[u]
      /\ pending'[t] # NoWake
  BY <1>1, <1>2, <1>3, QueuedFacts
<1>5. TimerOK(timer') /\ timer' # None /\ (timer # None /\ timer.kind = "retry" => timer' = timer)
  BY <1>1, <1>3, ScheduledFacts
<1> QED BY <1>4, <1>5

\* A fire that takes wakes hands the first of them to the handler.
LEMMA FireFacts ==
  ASSUME TypeOK, Fire, \E t \in Targets : pending[t] # NoWake
  PROVE  \E b \in Batches \ Underway :
           /\ batch' \in [Batches -> Calls \cup {None}]
           /\ \A a \in Batches : a # b => batch'[a] = batch[a]
           /\ CallOK(batch'[b]) /\ batch'[b] # None
           /\ batch'[b].wakes = pending
           /\ batch'[b].by = handler
           /\ batch'[b].off = (life[handler] # "live" \/ ~enabled \/ ~agents[handler])
<1> DEFINE wakes == {t \in Targets : pending[t] # NoWake}
<1>1. PICK b \in Batches \ Underway, t \in wakes :
        batch' = [batch EXCEPT ![b] =
          Call([by |-> handler, wakes |-> pending, left |-> wakes,
                now |-> t, off |-> FALSE, delay |-> timer.delay], t)]
  BY DEF Fire
<1> DEFINE c == [by |-> handler, wakes |-> pending, left |-> wakes,
                 now |-> t, off |-> FALSE, delay |-> timer.delay]
<1>2. handler \in Runners /\ timer.delay \in Delays /\ pending \in PriorityMaps
  BY ConstantsAssumption DEF Fire, TypeOK, TimerOK, Timers, PriorityMaps
<1>3. c \in Calls /\ t \in c.left /\ \A u \in c.left : c.wakes[u] # NoWake
  BY <1>2 DEF Calls, PriorityMaps
<1>4. c.by = handler /\ c.wakes = pending
  OBVIOUS
<1>5. batch' = [batch EXCEPT ![b] = Call(c, t)]
  BY <1>1
<1> HIDE DEF c, wakes
<1>6. /\ CallOK(Call(c, t))
      /\ Call(c, t).by = handler
      /\ Call(c, t).wakes = pending
      /\ Call(c, t).off = (life[handler] # "live" \/ ~enabled \/ ~agents[handler])
  BY <1>3, <1>4, CallFacts
<1>7. Call(c, t) \in Calls /\ Call(c, t) # None
  BY <1>6, ConstantsAssumption DEF CallOK
<1> QED BY <1>5, <1>6, <1>7 DEF TypeOK

-----------------------------------------------------------------------------
(* Types *)

\* Answers keep the types.
LEMMA AnswersKeepTypes ==
  ASSUME TypeOK, NEW b \in Batches,
         Answer(b) \/ AnswerOff(b) \/ AnswerBusy(b) \/ Throw(b)
  PROVE  TypeOK'
<1>1. b \in Underway /\ CallOK(batch[b]) /\ batch[b] \in Calls
  BY DEF Answer, AnswerOff, AnswerBusy, Throw, Underway, TypeOK, CallOK
<1>2. batch[b].by \in Runners /\ batch[b].delay \in Delays /\ batch[b].wakes \in PriorityMaps
  BY <1>1 DEF Calls, PriorityMaps
<1>3. pending \in PriorityMaps /\ TimerOK(timer)
  BY DEF TypeOK, PriorityMaps
<1>4. Rearmed(batch[b].by) \in [Runners -> BOOLEAN]
      /\ \A r \in Runners : Rearmed(batch[b].by)[r] => life[r] = "live" /\ agents[r]
  BY <1>2 DEF Rearmed, TypeOK
<1>5. armed' \in [Runners -> BOOLEAN] /\ \A r \in Runners : armed'[r] => life[r] = "live" /\ agents[r]
  BY <1>4 DEF TypeOK, Answer, AnswerOff, AnswerBusy, Throw, TurnedAway
<1>6. pending' \in PriorityMaps
  BY <1>1, <1>2, <1>3, BusyWakeFacts, QueuedFacts DEF Answer, AnswerOff, AnswerBusy, Throw
<1>7. /\ batch' \in [Batches -> Calls \cup {None}]
      /\ \A a \in Underway' : CallOK(batch'[a])
      /\ TimerOK(timer')
      /\ running' \in BOOLEAN
      /\ running' => Underway' # {}
  <2>1. CASE Answer(b) \/ AnswerOff(b)
    BY <1>1, <1>3, <1>6, <2>1, ContinuedFacts DEF Answer, AnswerOff
  <2>2. CASE AnswerBusy(b)
    BY <1>1, <1>6, <2>2, ContinuedFacts, RetriedFacts DEF AnswerBusy
  <2>3. CASE Throw(b)
    <3>1. batch' \in [Batches -> Calls \cup {None}]
          /\ \A a \in Underway' : a \in Underway /\ batch'[a] = batch[a]
      BY <2>3 DEF Throw, TypeOK, Underway
    <3>2. TimerOK(timer')
      BY <1>2, <2>3, RetriedFacts, ScheduledFacts DEF Throw, Finally
    <3> QED BY <2>3, <3>1, <3>2 DEF Throw, TypeOK
  <2> QED BY <2>1, <2>2, <2>3
<1>8. taken' \subseteq Targets /\ cooling' \in 0 .. RetryAfter
  BY ConstantsAssumption DEF TypeOK, Answer, AnswerOff, AnswerBusy, Throw, Cooldown
<1>9. UNCHANGED <<handler, scheduled, life, agents, enabled>>
  BY DEF Answer, AnswerOff, AnswerBusy, Throw
<1> QED BY <1>5, <1>6, <1>7, <1>8, <1>9 DEF TypeOK, PriorityMaps

\* Every step keeps the types.
LEMMA NextKeepsTypes ==
  ASSUME TypeOK, [Next]_vars
  PROVE  TypeOK'
<1>1. ASSUME NEW t \in Targets, NEW p \in Reasons, Request(t, p)
      PROVE  TypeOK'
  <2>1. p \in Priorities /\ Coalesce \in Delays
    BY ConstantsAssumption DEF Priorities, Delays
  <2>2. pending' \in PriorityMaps /\ TimerOK(timer')
    BY <1>1, <2>1, RequestedFacts DEF Request
  <2> QED BY <1>1, <2>2 DEF Request, TypeOK, PriorityMaps, Underway
<1>2. CASE FireIdle
  BY <1>2 DEF FireIdle, TypeOK, TimerOK, Underway
<1>3. CASE FireBusy
  <2>1. timer \in Timers /\ timer.delay \in Nat
    BY <1>3, ConstantsAssumption DEF FireBusy, TypeOK, TimerOK, Timers, Delays
  <2>2. TimerOK(timer')
    BY <1>3, <2>1 DEF FireBusy, TimerOK, Timers
  <2> QED BY <1>3, <2>2 DEF FireBusy, TypeOK, Underway
<1>4. CASE Fire
  <2>1. CASE \A t \in Targets : pending[t] = NoWake
    BY <1>4, <2>1 DEF Fire, TypeOK, TimerOK, Underway
  <2>2. CASE \E t \in Targets : pending[t] # NoWake
    <3>1. PICK b \in Batches \ Underway :
            /\ batch' \in [Batches -> Calls \cup {None}]
            /\ \A a \in Batches : a # b => batch'[a] = batch[a]
            /\ CallOK(batch'[b]) /\ batch'[b] # None
      BY <1>4, <2>2, FireFacts
    <3>2. b \in Underway' /\ \A a \in Underway' : CallOK(batch'[a])
      BY <3>1 DEF Underway, TypeOK
    <3>3. pending' = [t \in Targets |-> NoWake] /\ running' = TRUE /\ taken' \subseteq Targets
          /\ timer' = None
      BY <1>4, <2>2 DEF Fire, TypeOK
    <3> QED BY <1>4, <3>1, <3>2, <3>3 DEF Fire, TypeOK, TimerOK
  <2> QED BY <2>1, <2>2
<1>5. CASE Tick
  <2>1. timer \in Timers /\ timer.due \in Nat /\ timer.delay \in Nat
    BY <1>5, ConstantsAssumption DEF Tick, TypeOK, TimerOK, Timers, Delays
  <2>2. TimerOK(timer')
    BY <1>5, <2>1 DEF Tick, TypeOK, TimerOK, Timers
  <2>3. cooling' \in 0 .. RetryAfter
    BY <1>5, ConstantsAssumption DEF Tick, TypeOK
  <2> QED BY <1>5, <2>2, <2>3 DEF Tick, TypeOK, Underway
<1>6. ASSUME NEW b \in Batches, Answer(b) \/ AnswerOff(b) \/ AnswerBusy(b) \/ Throw(b)
      PROVE  TypeOK'
  BY <1>6, AnswersKeepTypes
<1>7. ASSUME NEW r \in Runners, Start(r)
      PROVE  TypeOK'
  <2>1. TimerOK(FirstTimer)
    BY ScheduledFacts DEF FirstTimer, TimerOK, Delays
  <2>2. /\ armed' \in [Runners -> BOOLEAN] /\ agents' \in [Runners -> BOOLEAN]
        /\ life' \in [Runners -> {"new", "live", "stopped"}]
        /\ handler' = r /\ life'[r] = "live"
        /\ \A q \in Runners : armed'[q] => life'[q] = "live" /\ agents'[q]
    BY <1>7 DEF Start, Configured, TypeOK
  <2>3. cooling' \in 0 .. RetryAfter
    BY <1>7, ConstantsAssumption DEF Start
  <2> QED BY <1>7, <2>1, <2>2, <2>3 DEF Start, TypeOK, Underway
<1>8. ASSUME NEW r \in Runners, Stop(r)
      PROVE  TypeOK'
  <2>1. /\ armed' \in [Runners -> BOOLEAN]
        /\ life' \in [Runners -> {"new", "live", "stopped"}]
        /\ handler' \in Runners \cup {None}
        /\ handler' # None => life'[handler'] = "live"
        /\ \A q \in Runners : armed'[q] => life'[q] = "live" /\ agents[q]
    BY <1>8 DEF Stop, TypeOK
  <2> QED BY <1>8, <2>1 DEF Stop, TypeOK, Underway
<1>9. ASSUME NEW r \in Runners, UpdateConfig(r)
      PROVE  TypeOK'
  <2>1. /\ armed' \in [Runners -> BOOLEAN] /\ agents' \in [Runners -> BOOLEAN]
        /\ \A q \in Runners : armed'[q] => life[q] = "live" /\ agents'[q]
    BY <1>9 DEF UpdateConfig, Configured, TypeOK
  <2> QED BY <1>9, <2>1 DEF UpdateConfig, TypeOK, Underway
<1>10. ASSUME NEW r \in Runners, IntervalEnds(r)
       PROVE  TypeOK'
  <2>1. pending' \in PriorityMaps /\ TimerOK(timer')
    BY <1>10, RequestedFacts DEF IntervalEnds, Targets, Interval, Priorities, Delays
  <2>2. armed' \in [Runners -> BOOLEAN] /\ \A q \in Runners : armed'[q] => armed[q]
    BY <1>10 DEF IntervalEnds, TypeOK
  <2> QED BY <1>10, <2>1, <2>2 DEF IntervalEnds, TypeOK, PriorityMaps, Underway
<1>11. CASE Switch
  BY <1>11 DEF Switch, TypeOK, Underway
<1>12. CASE UNCHANGED vars
  BY <1>12 DEF vars, TypeOK, Underway
<1> QED
  BY <1>1, <1>2, <1>3, <1>4, <1>5, <1>6, <1>7, <1>8, <1>9, <1>10, <1>11, <1>12 DEF Next

\* The state keeps its types, whatever the runners, callbacks and requests do.
THEOREM TypesKept == Spec => []TypeOK
<1>1. Init => TypeOK
  <2>1. 0 \in 0 .. RetryAfter
    BY ConstantsAssumption
  <2> QED
    BY <2>1 DEF Init, TypeOK, TimerOK, Underway
<1> QED BY <1>1, NextKeepsTypes, PTL DEF Spec

-----------------------------------------------------------------------------
(* Wakes and the timer *)

\* Every end of a call puts back what it must, and leaves a timer for what is
\* pending unless the batch goes on; a retry that was scheduled stays.
LEMMA AnswersAndTimer ==
  ASSUME TypeOK, NEW b \in Batches,
         Answer(b) \/ AnswerOff(b) \/ AnswerBusy(b) \/ Throw(b)
  PROVE  /\ \A u \in Targets : pending'[u] >= pending[u]
         /\ AnswerBusy(b) \/ Throw(b) => \E u \in Targets : pending'[u] # NoWake
         /\ timer' = timer \/ timer' # None
         /\ \/ timer' # None
            \/ running' = running
            \/ \A u \in Targets : pending'[u] = NoWake
         /\ \/ timer' # None
            \/ pending' = pending
         /\ timer # None /\ timer.kind = "retry" => timer' = timer
<1>1. b \in Underway /\ CallOK(batch[b]) /\ batch[b] \in Calls
  BY DEF Answer, AnswerOff, AnswerBusy, Throw, Underway, TypeOK, CallOK
<1>2. batch[b].delay \in Delays /\ batch[b].wakes \in PriorityMaps /\ batch[b].now \in Targets
  BY <1>1 DEF Calls, PriorityMaps
<1>3. pending \in PriorityMaps /\ TimerOK(timer)
  BY DEF TypeOK, PriorityMaps
<1>4. CASE Answer(b) \/ AnswerOff(b)
  <2>1. pending' = pending /\ Continued(b, timer)
    BY <1>4 DEF Answer, AnswerOff
  <2>2. \A u \in Targets : pending'[u] >= pending[u]
    BY <1>3, <2>1 DEF PriorityMaps, Priorities, NoWake
  <2>3. ~(AnswerBusy(b) \/ Throw(b)) \/ \E u \in Targets : pending'[u] # NoWake
    <3>1. SUFFICES ASSUME AnswerBusy(b) \/ Throw(b)
                   PROVE  \E u \in Targets : pending'[u] # NoWake
      OBVIOUS
    <3>2. CASE AnswerBusy(b)
      BY <1>1, <1>3, <3>2, BusyWakeFacts, QueuedFacts DEF AnswerBusy
    <3>3. CASE Throw(b)
      BY <1>1, <1>2, <1>3, <3>3, QueuedFacts DEF Throw, CallOK
    <3> QED BY <3>1, <3>2, <3>3
  <2> QED BY <1>1, <1>3, <2>1, <2>2, <2>3, ContinuedFacts
<1>5. CASE AnswerBusy(b)
  <2>1. pending' = Queued(pending, BusyWake(b)) /\ Continued(b, Retried(timer))
    BY <1>5 DEF AnswerBusy
  <2>2. /\ pending' \in PriorityMaps
        /\ \A u \in Targets : pending'[u] >= pending[u]
        /\ \E u \in Targets : pending'[u] # NoWake
    BY <1>1, <1>3, <2>1, BusyWakeFacts, QueuedFacts
  <2>3. /\ timer' # None
        /\ timer # None /\ timer.kind = "retry" => timer' = timer
    BY <1>1, <2>1, <2>2, ContinuedFacts, RetriedFacts
  <2> QED BY <2>2, <2>3
<1>6. CASE Throw(b)
  <2>1. /\ pending' = Queued(pending, batch[b].wakes)
        /\ timer' = Finally(Retried(timer), batch[b].delay)
    BY <1>6 DEF Throw
  <2>2. /\ \A u \in Targets : pending'[u] >= pending[u]
        /\ pending'[batch[b].now] # NoWake
    BY <1>1, <1>2, <1>3, <2>1, QueuedFacts DEF CallOK
  <2>3. /\ timer' # None
        /\ timer # None /\ timer.kind = "retry" => timer' = timer
    BY <1>2, <2>1, RetriedFacts, ScheduledFacts DEF Finally
  <2> QED BY <1>2, <2>2, <2>3
<1> QED BY <1>4, <1>5, <1>6

\* While a handler is registered nothing pending is without a timer or a batch
\* that sets one, for any number of runners that replace each other.
THEOREM WakesNotForgotten == Spec => []NoForgottenWake
<1>1. Init => NoForgottenWake
  BY DEF Init, NoForgottenWake
<1>2. TypeOK /\ NoForgottenWake /\ [Next]_vars => NoForgottenWake'
  <2> SUFFICES ASSUME TypeOK, NoForgottenWake, [Next]_vars
               PROVE  NoForgottenWake'
    OBVIOUS
  <2>1. ASSUME NEW t \in Targets, NEW p \in Reasons, Request(t, p)
        PROVE  NoForgottenWake'
    <3>1. p \in Priorities /\ Coalesce \in Delays
      BY ConstantsAssumption DEF Priorities, Delays
    <3> QED BY <2>1, <3>1, RequestedFacts DEF Request, NoForgottenWake
  <2>2. CASE FireIdle
    BY <2>2 DEF FireIdle, NoForgottenWake
  <2>3. CASE FireBusy
    BY <2>3 DEF FireBusy, NoForgottenWake
  <2>4. CASE Fire
    BY <2>4 DEF Fire, NoForgottenWake
  <2>5. CASE Tick
    <3>1. timer \in Timers
      BY <2>5 DEF Tick, TypeOK, TimerOK
    <3>2. timer' \in Timers
      BY <2>5, <3>1 DEF Tick, Timers
    <3> QED BY <3>2, ConstantsAssumption DEF NoForgottenWake
  <2>6. ASSUME NEW b \in Batches, Answer(b) \/ AnswerOff(b) \/ AnswerBusy(b) \/ Throw(b)
        PROVE  NoForgottenWake'
    <3>1. handler' = handler
      BY <2>6 DEF Answer, AnswerOff, AnswerBusy, Throw
    <3> QED BY <2>6, <3>1, AnswersAndTimer DEF NoForgottenWake
  <2>7. ASSUME NEW r \in Runners, Start(r)
        PROVE  NoForgottenWake'
    BY <2>7, ScheduledFacts DEF Start, FirstTimer, NoForgottenWake, TimerOK, Delays
  <2>8. ASSUME NEW r \in Runners, Stop(r) \/ UpdateConfig(r)
        PROVE  NoForgottenWake'
    BY <2>8 DEF Stop, UpdateConfig, NoForgottenWake
  <2>9. ASSUME NEW r \in Runners, IntervalEnds(r)
        PROVE  NoForgottenWake'
    BY <2>9, RequestedFacts DEF IntervalEnds, NoForgottenWake, Targets, Interval, Priorities, Delays
  <2>10. CASE Switch \/ UNCHANGED vars
    BY <2>10 DEF Switch, vars, NoForgottenWake
  <2> QED
    BY <2>1, <2>2, <2>3, <2>4, <2>5, <2>6, <2>7, <2>8, <2>9, <2>10 DEF Next
<1> QED BY <1>1, <1>2, TypesKept, PTL DEF Spec

\* While a cooldown lasts, the wake timer is the retry it belongs to, or a later
\* one.
Cooled == cooling > 0 => timer # None /\ timer.kind = "retry" /\ timer.due >= cooling

\* An answer begins a cooldown with the retry it sets, and leaves the retry of a
\* cooldown alone.
LEMMA AnswersCool ==
  ASSUME TypeOK, Cooled, NEW b \in Batches,
         Answer(b) \/ AnswerOff(b) \/ AnswerBusy(b) \/ Throw(b)
  PROVE  Cooled'
<1>1. b \in Underway /\ batch[b] \in Calls /\ batch[b].delay \in Delays /\ batch[b].wakes \in PriorityMaps
  BY DEF Answer, AnswerOff, AnswerBusy, Throw, Underway, TypeOK, Calls, PriorityMaps
<1>2. CASE cooling' = cooling
  <2>1. timer # None /\ timer.kind = "retry" => timer' = timer
    BY AnswersAndTimer
  <2> QED
    BY <1>2, <2>1 DEF Cooled
<1>3. CASE timer = None /\ cooling' = RetryAfter /\ (AnswerBusy(b) \/ Throw(b))
  <2>1. PICK t : t = [due |-> RetryAfter, kind |-> "retry", delay |-> RetryAfter]
    OBVIOUS
  <2>2. Retried(timer) = t /\ TimerOK(t) /\ t # None
    BY <1>3, <2>1, RetriedFacts DEF Retried, Scheduled
  <2>3. CASE AnswerBusy(b)
    <3>1. pending' \in PriorityMaps
      BY <1>1, <2>3, BusyWakeFacts, QueuedFacts DEF AnswerBusy, TypeOK, PriorityMaps
    <3>2. timer' = t
      BY <1>1, <2>1, <2>2, <2>3, <3>1, ContinuedFacts DEF AnswerBusy
    <3> QED
      BY <1>3, <2>1, <2>2, <3>2, ConstantsAssumption DEF Cooled
  <2>4. CASE Throw(b)
    <3>1. timer' = t
      BY <1>1, <2>1, <2>2, <2>4, ScheduledFacts DEF Throw, Finally
    <3> QED
      BY <1>3, <2>1, <2>2, <3>1, ConstantsAssumption DEF Cooled
  <2> QED
    BY <1>3, <2>3, <2>4
<1> QED
  BY <1>2, <1>3 DEF Answer, AnswerOff, AnswerBusy, Throw, Cooldown

\* No batch is begun before the cooldown of the retry that set the wake timer
\* is over, unless a new handler did away with it.
THEOREM RetriesKeepTheirTime == Spec => RetriesAreNotHurried
<1>1. Init => Cooled
  BY DEF Init, Cooled
<1>2. ASSUME TypeOK, Cooled, [Next]_vars
      PROVE  Cooled'
  <2>1. cooling \in Nat /\ (timer # None => timer \in Timers /\ timer.due \in Nat)
    BY <1>2, ConstantsAssumption DEF TypeOK, TimerOK, Timers
  <2>2. CASE UNCHANGED <<timer, cooling>>
    BY <1>2, <2>2 DEF Cooled
  <2>3. CASE FireIdle \/ FireBusy \/ Fire
    <3>1. cooling = 0 /\ cooling' = cooling
      BY <1>2, <2>1, <2>3 DEF FireIdle, FireBusy, Fire, Cooled
    <3> QED
      BY <3>1 DEF Cooled
  <2>4. CASE Tick
    <3>1. timer' = [timer EXCEPT !.due = @ - 1] /\ timer \in Timers /\ timer # None
      BY <2>1, <2>4 DEF Tick
    <3>2. timer'.kind = timer.kind /\ timer'.due = timer.due - 1
      BY <3>1 DEF Timers
    <3>3. timer' # None
      <4>1. timer' = [due |-> timer.due - 1, kind |-> timer.kind, delay |-> timer.delay]
        BY <3>1 DEF Timers
      <4>2. timer.due - 1 \in Nat
        BY <2>1, <2>4 DEF Tick
      <4>3. timer' \in Timers
        BY <3>1, <4>1, <4>2 DEF Timers
      <4> QED
        BY <4>3, ConstantsAssumption
    <3>4. cooling' = IF cooling > 0 THEN cooling - 1 ELSE 0
      BY <2>4 DEF Tick
    <3> QED
      BY <1>2, <2>1, <3>1, <3>2, <3>3, <3>4 DEF Cooled
  <2>5. ASSUME NEW t \in Targets, NEW p \in Reasons, Request(t, p)
        PROVE  Cooled'
    <3>1. p \in Priorities /\ Coalesce \in Delays
      BY ConstantsAssumption DEF Priorities, Delays
    <3>2. timer # None /\ timer.kind = "retry" => timer' = timer
      BY <1>2, <2>5, <3>1, RequestedFacts DEF Request
    <3> QED
      BY <1>2, <2>5, <3>2 DEF Request, Cooled
  <2>6. ASSUME NEW b \in Batches, Answer(b) \/ AnswerOff(b) \/ AnswerBusy(b) \/ Throw(b)
        PROVE  Cooled'
    BY <1>2, <2>6, AnswersCool
  <2>7. ASSUME NEW r \in Runners, Start(r)
        PROVE  Cooled'
    BY <2>7 DEF Start, Cooled
  <2>8. ASSUME NEW r \in Runners, IntervalEnds(r)
        PROVE  Cooled'
    <3>1. timer # None /\ timer.kind = "retry" => timer' = timer
      BY <1>2, <2>8, RequestedFacts DEF IntervalEnds, Targets, Interval, Priorities, Delays
    <3> QED
      BY <1>2, <2>8, <3>1 DEF IntervalEnds, Cooled
  <2>9. ASSUME NEW r \in Runners, Stop(r) \/ UpdateConfig(r)
        PROVE  UNCHANGED <<timer, cooling>>
    BY <2>9 DEF Stop, UpdateConfig
  <2>10. Switch \/ UNCHANGED vars => UNCHANGED <<timer, cooling>>
    BY DEF Switch, vars
  <2> QED
    BY <1>2, <2>2, <2>3, <2>4, <2>5, <2>6, <2>7, <2>8, <2>9, <2>10 DEF Next
<1>3. TypeOK /\ Cooled => (Fire => cooling = 0)
  <2> SUFFICES ASSUME TypeOK, Cooled, Fire
               PROVE  cooling = 0
    OBVIOUS
  <2>1. cooling \in Nat
    BY ConstantsAssumption DEF TypeOK
  <2> QED
    BY <2>1 DEF Fire, Cooled
<1>4. TypeOK /\ Cooled /\ [Next]_vars => [Fire => cooling = 0]_vars
  BY <1>3
<1> QED
  BY <1>1, <1>2, <1>4, TypesKept, PTL DEF Spec, RetriesAreNotHurried

\* No request and no wake that is put back weakens a reason that is pending.
THEOREM StrongReasonsStay == Spec => ReasonsAreKept
<1> DEFINE Stay ==
      \A t \in Targets : pending'[t] < pending[t] =>
        \E b \in Batches : batch[b] = None /\ batch'[b] # None
                           /\ batch'[b].wakes[t] = pending[t]
<1>1. TypeOK /\ [Next]_vars => [Stay]_vars
  <2> SUFFICES ASSUME TypeOK, Next, NEW t \in Targets, pending'[t] < pending[t]
               PROVE  \E b \in Batches : batch[b] = None /\ batch'[b] # None
                                         /\ batch'[b].wakes[t] = pending[t]
    BY DEF vars
  <2>1. \A u \in Targets : pending[u] \in Int /\ pending[u] >= NoWake
    BY DEF TypeOK, Priorities, NoWake
  <2>2. pending' # pending
    BY <2>1
  <2>3. TypeOK'
    BY NextKeepsTypes
  <2>4. \A u \in Targets : pending'[u] \in Int
    BY <2>3 DEF TypeOK, Priorities, NoWake
  <2>5. ASSUME NEW u \in Targets, NEW p \in Reasons, Request(u, p)
        PROVE  FALSE
    <3>1. p \in Priorities /\ Coalesce \in Delays
      BY ConstantsAssumption DEF Priorities, Delays
    <3>2. pending'[t] >= pending[t]
      BY <2>5, <3>1, RequestedFacts DEF Request
    <3> QED BY <2>1, <2>4, <3>2
  <2>6. ASSUME NEW b \in Batches, Answer(b) \/ AnswerOff(b) \/ AnswerBusy(b) \/ Throw(b)
        PROVE  FALSE
    <3>1. pending'[t] >= pending[t]
      BY <2>6, AnswersAndTimer
    <3> QED BY <2>1, <2>4, <3>1
  <2>7. ASSUME NEW r \in Runners, Start(r) \/ Stop(r) \/ UpdateConfig(r) \/ IntervalEnds(r)
        PROVE  FALSE
    <3>1. IntervalEnds(r)
      BY <2>2, <2>7 DEF Start, Stop, UpdateConfig
    <3>2. pending'[t] >= pending[t]
      BY <3>1, RequestedFacts DEF IntervalEnds, Targets, Interval, Priorities, Delays
    <3> QED BY <2>1, <2>4, <3>2
  <2>8. ~(FireIdle \/ FireBusy \/ Tick \/ Switch)
    BY <2>2 DEF FireIdle, FireBusy, Tick, Switch
  <2>9. ASSUME Fire
        PROVE  \E b \in Batches : batch[b] = None /\ batch'[b] # None
                                   /\ batch'[b].wakes[t] = pending[t]
    <3>1. \E u \in Targets : pending[u] # NoWake
      BY <2>2, <2>9 DEF Fire
    <3> QED BY <2>9, <3>1, FireFacts DEF Underway
  <2> QED BY <2>5, <2>6, <2>7, <2>8, <2>9 DEF Next
<1> QED BY <1>1, TypesKept, PTL DEF Spec, ReasonsAreKept

-----------------------------------------------------------------------------
(* The interval timers *)

\* The interval timer of r is set, or there is something that will set it.
GoesOn(r) ==
  \/ armed[r]
  \/ \E t \in Targets : pending[t] # NoWake
  \/ \E b \in Underway : batch[b].by = r /\ (batch[b].left # {} \/ ~batch[b].off)

\* A batch that goes on calls the runner again; the batches of others stay.
LEMMA ContinuedCalls ==
  ASSUME TypeOK, NEW b \in Underway, NEW t, Continued(b, t)
  PROVE  /\ \A a \in Underway : a # b => a \in Underway' /\ batch'[a] = batch[a]
         /\ batch[b].left # {} =>
              /\ b \in Underway'
              /\ batch'[b].by = batch[b].by
              /\ batch'[b].off = (life[batch[b].by] # "live" \/ ~enabled \/ ~agents[batch[b].by])
<1>1. b \in Batches /\ CallOK(batch[b]) /\ batch[b] \in Calls
  BY DEF TypeOK, Underway, CallOK
<1>2. \A a \in Underway : a # b => a \in Underway' /\ batch'[a] = batch[a]
  BY <1>1 DEF Continued, TypeOK, Underway
<1>3. ASSUME batch[b].left # {}
      PROVE  /\ b \in Underway'
             /\ batch'[b].by = batch[b].by
             /\ batch'[b].off = (life[batch[b].by] # "live" \/ ~enabled \/ ~agents[batch[b].by])
  <2>1. PICK u \in batch[b].left : batch' = [batch EXCEPT ![b] = Call(@, u)]
    BY <1>3 DEF Continued
  <2>2. batch'[b] = Call(batch[b], u)
    BY <1>1, <2>1 DEF TypeOK
  <2>3. /\ CallOK(Call(batch[b], u))
        /\ Call(batch[b], u).by = batch[b].by
        /\ Call(batch[b], u).off
             = (life[batch[b].by] # "live" \/ ~enabled \/ ~agents[batch[b].by])
    BY <1>1, CallFacts DEF CallOK
  <2>4. Call(batch[b], u) # None
    BY <2>3, ConstantsAssumption DEF CallOK
  <2> QED BY <1>1, <2>2, <2>3, <2>4 DEF Underway
<1> QED BY <1>2, <1>3

\* The end of a call leaves the runner going on.
LEMMA AnswersGoOn ==
  ASSUME TypeOK, NEW r \in Runners, life[r] = "live", enabled, agents[r], GoesOn(r),
         NEW b \in Batches, Answer(b) \/ AnswerOff(b) \/ AnswerBusy(b) \/ Throw(b)
  PROVE  GoesOn(r)'
<1>1. b \in Underway /\ batch[b] \in Calls /\ batch[b].by \in Runners
  BY DEF Answer, AnswerOff, AnswerBusy, Throw, Underway, TypeOK, CallOK, Calls
<1>2. CASE AnswerBusy(b) \/ Throw(b)
  BY <1>2, AnswersAndTimer DEF GoesOn
<1>3. CASE Answer(b)
  <2>1. pending' = pending /\ Continued(b, timer) /\ armed' = Rearmed(batch[b].by)
    BY <1>3 DEF Answer
  <2>2. CASE batch[b].by = r
    BY <1>1, <2>1, <2>2 DEF GoesOn, Rearmed, TypeOK
  <2>3. CASE batch[b].by # r
    <3>1. armed'[r] = armed[r]
      BY <1>1, <2>1, <2>3 DEF Rearmed, TypeOK
    <3>2. ASSUME NEW a \in Underway, batch[a].by = r
          PROVE  a \in Underway' /\ batch'[a] = batch[a]
      BY <1>1, <2>1, <2>3, <3>2, ContinuedCalls
    <3> QED BY <2>1, <3>1, <3>2 DEF GoesOn
  <2> QED BY <2>2, <2>3
<1>4. CASE AnswerOff(b)
  <2>1. pending' = pending /\ armed' = armed /\ Continued(b, timer) /\ batch[b].off
    BY <1>4 DEF AnswerOff, TurnedAway
  <2>2. ASSUME NEW a \in Underway, batch[a].by = r, batch[a].left # {} \/ ~batch[a].off
        PROVE  a \in Underway' /\ batch'[a].by = r /\ (batch'[a].left # {} \/ ~batch'[a].off)
    <3>1. CASE a = b
      <4>1. batch[b].left # {}
        BY <2>1, <2>2, <3>1
      <4> QED BY <1>1, <2>1, <2>2, <3>1, <4>1, ContinuedCalls
    <3>2. CASE a # b
      BY <1>1, <2>1, <2>2, <3>2, ContinuedCalls
    <3> QED BY <3>1, <3>2
  <2> QED BY <2>1, <2>2 DEF GoesOn
<1> QED BY <1>2, <1>3, <1>4

\* As long as nobody switches heartbeats off, the runner that is registered and
\* has agents goes on, however it is reconfigured and whatever its calls answer.
THEOREM HeartbeatsAlwaysGoOn ==
  ASSUME ~Switches
  PROVE  Spec => []HeartbeatsGoOn
<1>1. Init => HeartbeatsGoOn
  BY DEF Init, HeartbeatsGoOn
<1>2. TypeOK /\ HeartbeatsGoOn /\ [Next]_vars => HeartbeatsGoOn'
  <2> SUFFICES ASSUME TypeOK, HeartbeatsGoOn, [Next]_vars,
                      NEW r \in Runners, life'[r] = "live", handler' = r, enabled', agents'[r]
               PROVE  GoesOn(r)'
    BY DEF HeartbeatsGoOn, GoesOn
  <2>1. life[r] = "live" /\ handler = r /\ enabled /\ agents[r] => GoesOn(r)
    BY DEF HeartbeatsGoOn, GoesOn
  <2>2. ASSUME UNCHANGED <<life, handler, enabled, agents>>
        PROVE  GoesOn(r) /\ life[r] = "live" /\ enabled /\ agents[r] /\ handler = r
    BY <2>1, <2>2
  <2>3. ASSUME UNCHANGED <<life, handler, enabled, agents, armed, batch>>,
               \A t \in Targets : pending[t] # NoWake => pending'[t] # NoWake
        PROVE  GoesOn(r)'
    BY <2>2, <2>3 DEF GoesOn, Underway
  <2>4. ASSUME NEW t \in Targets, NEW p \in Reasons, Request(t, p)
        PROVE  GoesOn(r)'
    <3>1. p \in Priorities /\ Coalesce \in Delays
      BY ConstantsAssumption DEF Priorities, Delays
    <3> QED BY <2>4, <3>1, RequestedFacts DEF Request, GoesOn
  <2>5. CASE FireIdle \/ FireBusy \/ Tick \/ UNCHANGED vars
    BY <2>3, <2>5 DEF FireIdle, FireBusy, Tick, vars
  <2>6. CASE Fire
    <3>1. GoesOn(r) /\ life[r] = "live" /\ enabled /\ agents[r] /\ handler = r
      BY <2>2, <2>6 DEF Fire
    <3>2. CASE \A t \in Targets : pending[t] = NoWake
      BY <2>3, <2>6, <3>2 DEF Fire
    <3>3. CASE \E t \in Targets : pending[t] # NoWake
      <4>1. PICK b \in Batches \ Underway :
              /\ batch'[b] # None
              /\ batch'[b].by = handler
              /\ batch'[b].off = (life[handler] # "live" \/ ~enabled \/ ~agents[handler])
        BY <2>6, <3>3, FireFacts
      <4> QED BY <3>1, <4>1 DEF GoesOn, Underway
    <3> QED BY <3>2, <3>3
  <2>7. ASSUME NEW b \in Batches, Answer(b) \/ AnswerOff(b) \/ AnswerBusy(b) \/ Throw(b)
        PROVE  GoesOn(r)'
    <3>1. UNCHANGED <<life, handler, enabled, agents>>
      BY <2>7 DEF Answer, AnswerOff, AnswerBusy, Throw
    <3> QED BY <2>2, <2>7, <3>1, AnswersGoOn
  <2>8. ASSUME NEW q \in Runners, Start(q)
        PROVE  GoesOn(r)'
    <3>1. q = r /\ agents'[q] = armed'[q]
      BY <2>8 DEF Start, Configured, TypeOK
    <3> QED BY <3>1 DEF GoesOn
  <2>9. ASSUME NEW q \in Runners, Stop(q)
        PROVE  GoesOn(r)'
    <3>1. q # r
      BY <2>9 DEF Stop, TypeOK
    <3>2. handler = r /\ life[r] = "live" /\ armed'[r] = armed[r]
      <4>1. handler = r
        BY <2>9, ConstantsAssumption DEF Stop
      <4>2. life[r] = "live"
        BY <2>9, <3>1 DEF Stop, TypeOK
      <4>3. armed'[r] = armed[r]
        BY <2>9, <3>1 DEF Stop, TypeOK
      <4> QED BY <4>1, <4>2, <4>3
    <3>3. enabled /\ agents[r] /\ pending' = pending /\ batch' = batch
      BY <2>9 DEF Stop
    <3>4. GoesOn(r)
      BY <2>1, <3>2, <3>3
    <3> QED BY <3>2, <3>3, <3>4 DEF GoesOn, Underway
  <2>10. ASSUME NEW q \in Runners, UpdateConfig(q)
         PROVE  GoesOn(r)'
    <3>1. CASE q = r
      BY <2>10, <3>1 DEF UpdateConfig, Configured, TypeOK, GoesOn
    <3>2. CASE q # r
      <4>1. agents[r] /\ armed'[r] = armed[r]
        BY <2>10, <3>2 DEF UpdateConfig, Configured, TypeOK
      <4> QED BY <2>1, <2>10, <4>1 DEF UpdateConfig, GoesOn, Underway
    <3> QED BY <3>1, <3>2
  <2>11. ASSUME NEW q \in Runners, IntervalEnds(q)
         PROVE  GoesOn(r)'
    BY <2>11, RequestedFacts
       DEF IntervalEnds, GoesOn, Targets, Interval, Priorities, Delays
  <2>12. ~Switch
    BY DEF Switch
  <2> QED
    BY <2>4, <2>5, <2>6, <2>7, <2>8, <2>9, <2>10, <2>11, <2>12 DEF Next
<1> QED BY <1>1, <1>2, TypesKept, PTL DEF Spec
=============================================================================
