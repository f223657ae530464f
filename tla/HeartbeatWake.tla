---------------------------- MODULE HeartbeatWake ----------------------------
(***************************************************************************)
(* Heartbeats: the wake layer of src/infra/heartbeat-wake.ts, which        *)
(* coalesces requests for a heartbeat and retries those that find the      *)
(* agent busy, and the part of src/infra/heartbeat-runner.ts it works      *)
(* with: the interval timer of a runner, and its wake handler.             *)
(*                                                                         *)
(* A gateway that restarts in process stops its runner and starts another; *)
(* the module-level state of the wake layer stays, and so do the timer     *)
(* callbacks and handler calls under way.  Timers count ticks and fire     *)
(* before the next tick; the interval of a runner may end at any time.     *)
(***************************************************************************)
EXTENDS Integers, FiniteSets

CONSTANTS Everyone,   \* the target of a wake without agent and session
          Sessions,   \* the other targets
          Runners,    \* heartbeat runners, one per life of the gateway
          None,       \* no handler, no timer, no batch
          Batches,    \* batches under way at a time (a bound)
          Coalesce,   \* DEFAULT_COALESCE_MS, in ticks
          RetryAfter, \* DEFAULT_RETRY_MS, in ticks
          Reasons,    \* priorities of requested reasons: 2 DEFAULT, 3 ACTION
          Restarts,   \* runners stop
          Switches,   \* set-heartbeats is called
          Reloads     \* the configuration is reloaded

Targets == Sessions \cup {Everyone}

NoWake == -1
Interval == 1
Priorities == 0 .. 3
Delays == {0, Coalesce, RetryAfter}

\* The wake timer.
Timers == [due : Nat, kind : {"normal", "retry"}, delay : Delays]

\* The local variables of a timer callback, at the await of its loop.
Calls == [by : Runners, wakes : [Targets -> Priorities \cup {NoWake}], left : SUBSET Targets,
          now : Targets, off : BOOLEAN, delay : Delays]

ASSUME ConstantsAssumption ==
  /\ Everyone \notin Sessions
  /\ None \notin Runners \cup Batches /\ None \notin Timers \cup Calls
  /\ Coalesce \in Nat /\ RetryAfter \in Nat /\ Coalesce < RetryAfter
  /\ Reasons \subseteq {2, 3}
  /\ Restarts \in BOOLEAN /\ Switches \in BOOLEAN /\ Reloads \in BOOLEAN

VARIABLES
  handler,   \* the runner whose handler is registered, or None
  pending,   \* pendingWakes: target -> priority of its reason, or NoWake
  scheduled,
  running,
  timer,     \* the wake timer: ticks left, kind and delay, or None
  batch,     \* batches being worked through: the variables of their callback
  life,      \* runner -> "new", "live" or "stopped"
  armed,     \* runner -> its interval timer is set
  agents,    \* runner -> its configuration has agents with heartbeats
  enabled,   \* heartbeatsEnabled
  taken,     \* targets taken into a batch and not answered since (history)
  cooling    \* ticks left of the cooldown of a retry (history)

vars == <<handler, pending, scheduled, running, timer, batch, life, armed, agents, enabled,
          taken, cooling>>

Underway == {b \in Batches : batch[b] # None}

TimerOK(t) == t \in Timers \cup {None} /\ (t # None => t.due <= t.delay)

CallOK(c) ==
  /\ c \in Calls
  /\ c.now \notin c.left
  /\ \A t \in c.left \cup {c.now} : c.wakes[t] # NoWake

TypeOK ==
  /\ handler \in Runners \cup {None}
  /\ handler # None => life[handler] = "live"
  /\ pending \in [Targets -> Priorities \cup {NoWake}]
  /\ scheduled \in BOOLEAN
  /\ running \in BOOLEAN
  /\ running => Underway # {}
  /\ TimerOK(timer)
  /\ batch \in [Batches -> Calls \cup {None}]
  /\ \A b \in Underway : CallOK(batch[b])
  /\ life \in [Runners -> {"new", "live", "stopped"}]
  /\ armed \in [Runners -> BOOLEAN]
  /\ agents \in [Runners -> BOOLEAN]
  /\ \A r \in Runners : armed[r] => life[r] = "live" /\ agents[r]
  /\ enabled \in BOOLEAN
  /\ taken \subseteq Targets
  /\ cooling \in 0 .. RetryAfter

Init ==
  /\ handler = None
  /\ pending = [t \in Targets |-> NoWake]
  /\ scheduled = FALSE
  /\ running = FALSE
  /\ timer = None
  /\ batch = [b \in Batches |-> None]
  /\ life = [r \in Runners |-> "new"]
  /\ armed = [r \in Runners |-> FALSE]
  /\ agents = [r \in Runners |-> FALSE]
  /\ enabled = TRUE
  /\ taken = {}
  /\ cooling = 0

-----------------------------------------------------------------------------
(* The wake layer *)

\* Mutant: the newest reason counts, however weak.
MutStronger(old, new) == new

\* Of two reasons for one target the one with the higher priority counts.
Stronger(old, new) == IF new >= old THEN new ELSE old

\* queuePendingWakeReason for the wakes w, on what is pending.
Queued(p, w) ==
  [t \in Targets |-> IF w[t] = NoWake THEN p[t] ELSE Stronger(p[t], w[t])]

Only(t, priority) == [u \in Targets |-> IF u = t THEN priority ELSE NoWake]

\* Mutant: a sooner request preempts a retry, too.
MutKept(t, delay) == t.due <= delay

\* A timer that is not preempted by one with this delay.
Kept(t, delay) == t.kind = "retry" \/ t.due <= delay

\* schedule(delay, kind), given the timer set so far.
Scheduled(t, delay, kind) ==
  IF t # None /\ Kept(t, delay) THEN t
  ELSE [due |-> delay, kind |-> kind, delay |-> delay]

\* requestHeartbeatNow(priority, delay) for a target.
Requested(t, priority, delay) ==
  /\ pending' = Queued(pending, Only(t, priority))
  /\ timer' = Scheduled(timer, delay, "normal")

Request(t, priority) ==
  /\ Requested(t, priority, Coalesce)
  /\ UNCHANGED <<handler, scheduled, running, batch, life, armed, agents, enabled, taken, cooling>>

\* The runner's handler is called for target t, and turns the wake away at
\* once when it is stopped, heartbeats are disabled or no agent has any.
Call(bt, t) ==
  [bt EXCEPT !.now = t, !.left = @ \ {t}, !.off = life[bt.by] # "live" \/ ~enabled \/ ~agents[bt.by]]

\* The timer fires when there is no handler.
FireIdle ==
  /\ timer # None /\ timer.due = 0
  /\ handler = None
  /\ timer' = None
  /\ scheduled' = FALSE
  /\ UNCHANGED <<handler, pending, running, batch, life, armed, agents, enabled, taken, cooling>>

\* The timer fires while a batch is under way.
FireBusy ==
  /\ timer # None /\ timer.due = 0
  /\ handler # None
  /\ running
  /\ timer' = [timer EXCEPT !.due = timer.delay]
  /\ scheduled' = TRUE
  /\ UNCHANGED <<handler, pending, running, batch, life, armed, agents, enabled, taken, cooling>>

\* The timer fires and the handler gets the wakes, one after the other.
Fire ==
  /\ timer # None /\ timer.due = 0
  /\ handler # None
  /\ ~running
  /\ timer' = None
  /\ scheduled' = FALSE
  /\ LET wakes == {t \in Targets : pending[t] # NoWake} IN
     IF wakes = {}
     THEN UNCHANGED <<pending, running, batch, taken>>
     ELSE /\ taken' = taken \cup wakes
          /\ pending' = [t \in Targets |-> NoWake]
          /\ running' = TRUE
          /\ \E b \in Batches \ Underway, t \in wakes :
               batch' = [batch EXCEPT ![b] =
                 Call([by |-> handler, wakes |-> pending, left |-> wakes,
                       now |-> t, off |-> FALSE, delay |-> timer.delay], t)]
  /\ UNCHANGED <<handler, life, armed, agents, enabled, cooling>>

\* The timer when a batch ends, given the one set so far.
Finally(t, delay) ==
  IF scheduled \/ \E u \in Targets : pending'[u] # NoWake
  THEN Scheduled(t, delay, "normal") ELSE t

\* The batch goes on with another wake, or ends.  t is the timer set so far.
Continued(b, t) ==
  IF batch[b].left # {}
  THEN /\ \E u \in batch[b].left : batch' = [batch EXCEPT ![b] = Call(@, u)]
       /\ timer' = t
       /\ UNCHANGED running
  ELSE /\ batch' = [batch EXCEPT ![b] = None]
       /\ timer' = Finally(t, batch[b].delay)
       /\ running' = FALSE

\* scheduleNext, in the finally of the runner's handler.
Rearmed(r) == [armed EXCEPT ![r] = life[r] = "live" /\ agents[r]]

\* The handler ran a heartbeat, failed to, or found that none was due.
Answer(b) ==
  /\ batch[b] # None
  /\ ~batch[b].off
  /\ armed' = Rearmed(batch[b].by)
  /\ pending' = pending
  /\ taken' = taken \ {batch[b].now}
  /\ Continued(b, timer)
  /\ UNCHANGED <<handler, scheduled, life, agents, enabled, cooling>>

\* The interval timers after a runner turned a wake away: it returns before
\* the try whose finally sets them.
TurnedAway(r) == armed

\* The handler is stopped, disabled or without agents.
AnswerOff(b) ==
  /\ batch[b] # None
  /\ batch[b].off
  /\ pending' = pending
  /\ armed' = TurnedAway(batch[b].by)
  /\ taken' = taken \ {batch[b].now}
  /\ Continued(b, timer)
  /\ UNCHANGED <<handler, scheduled, life, agents, enabled, cooling>>

\* The timer after a retry was scheduled.
Retried(t) == Scheduled(t, RetryAfter, "retry")

\* The cooldown that begins when a wake is put back.  A retry that finds a timer
\* set has none of its own: it takes its turn when that timer fires.
Cooldown == IF timer = None THEN RetryAfter ELSE cooling

\* Mutant: a runner told that requests are in flight forgets about the wake.
MutBusyWake(b) == Only(batch[b].now, NoWake)

\* The wake that is put back.
BusyWake(b) == Only(batch[b].now, batch[b].wakes[batch[b].now])

\* Skipped, with requests in flight.  A wake of everyone leaves the interval
\* timer to the retry, one of a session sets it.
AnswerBusy(b) ==
  /\ batch[b] # None
  /\ ~batch[b].off
  /\ pending' = Queued(pending, BusyWake(b))
  /\ armed' = IF batch[b].now = Everyone THEN armed ELSE Rearmed(batch[b].by)
  /\ Continued(b, Retried(timer))
  /\ cooling' = Cooldown
  /\ UNCHANGED <<handler, scheduled, life, agents, enabled, taken>>

\* The handler throws: the whole batch is put back.
Throw(b) ==
  /\ batch[b] # None
  /\ ~batch[b].off
  /\ pending' = Queued(pending, batch[b].wakes)
  /\ armed' = Rearmed(batch[b].by)
  /\ batch' = [batch EXCEPT ![b] = None]
  /\ timer' = Finally(Retried(timer), batch[b].delay)
  /\ running' = FALSE
  /\ cooling' = Cooldown
  /\ UNCHANGED <<handler, scheduled, life, agents, enabled, taken>>

Tick ==
  /\ timer # None /\ timer.due > 0
  /\ timer' = [timer EXCEPT !.due = @ - 1]
  /\ cooling' = IF cooling > 0 THEN cooling - 1 ELSE 0
  /\ UNCHANGED <<handler, pending, scheduled, running, batch, life, armed, agents, enabled, taken>>

-----------------------------------------------------------------------------
(* Runners *)

\* Mutant: a new handler waits for the next request.
MutFirstTimer == None

\* The timer of a new handler: for the wakes that were left pending.
FirstTimer ==
  IF \E t \in Targets : pending[t] # NoWake
  THEN Scheduled(None, Coalesce, "normal") ELSE None

\* The runner is given a configuration that has agents with heartbeats, or not.
Configured(r, has) ==
  /\ agents' = [agents EXCEPT ![r] = has]
  /\ armed' = [armed EXCEPT ![r] = has]

\* startHeartbeatRunner / setHeartbeatWakeHandler
Start(r) ==
  /\ life[r] = "new"
  /\ life' = [life EXCEPT ![r] = "live"]
  /\ handler' = r
  /\ scheduled' = FALSE
  /\ running' = FALSE
  /\ timer' = FirstTimer
  /\ \E has \in BOOLEAN : (has \/ Reloads) /\ Configured(r, has)
  /\ cooling' = 0
  /\ UNCHANGED <<pending, batch, enabled, taken>>

\* cleanup and the disposer: a handler registered since stays.
Stop(r) ==
  /\ Restarts
  /\ life[r] = "live"
  /\ life' = [life EXCEPT ![r] = "stopped"]
  /\ handler' = IF handler = r THEN None ELSE handler
  /\ armed' = [armed EXCEPT ![r] = FALSE]
  /\ UNCHANGED <<pending, scheduled, running, timer, batch, agents, enabled, taken, cooling>>

\* updateConfig, when the gateway reloads its configuration
UpdateConfig(r) ==
  /\ Reloads
  /\ life[r] = "live"
  /\ \E has \in BOOLEAN : Configured(r, has)
  /\ UNCHANGED <<handler, pending, scheduled, running, timer, batch, life, enabled, taken, cooling>>

\* The interval of a runner ends.
IntervalEnds(r) ==
  /\ armed[r]
  /\ armed' = [armed EXCEPT ![r] = FALSE]
  /\ Requested(Everyone, Interval, 0)
  /\ UNCHANGED <<handler, scheduled, running, batch, life, agents, enabled, taken, cooling>>

\* set-heartbeats
Switch ==
  /\ Switches
  /\ enabled' = ~enabled
  /\ UNCHANGED <<handler, pending, scheduled, running, timer, batch, life, armed, agents, taken,
                 cooling>>

Next ==
  \/ \E t \in Targets, p \in Reasons : Request(t, p)
  \/ FireIdle \/ FireBusy \/ Fire \/ Tick
  \/ \E b \in Batches : Answer(b) \/ AnswerOff(b) \/ AnswerBusy(b) \/ Throw(b)
  \/ \E r \in Runners : Start(r) \/ Stop(r) \/ UpdateConfig(r) \/ IntervalEnds(r)
  \/ Switch

Spec == Init /\ [][Next]_vars

\* Fairness: the gateway starts, time passes, timers fire, calls return, and
\* one whose target is asked for again and again returns other than busy.
FairSpec ==
  /\ Spec
  /\ \A r \in Runners : WF_vars(Start(r))
  /\ WF_vars(Tick) /\ WF_vars(Fire)
  /\ \A b \in Batches :
       /\ WF_vars(AnswerOff(b))
       /\ WF_vars(Answer(b) \/ AnswerBusy(b) \/ Throw(b))
       /\ \A t \in Targets : SF_vars(batch[b] # None /\ batch[b].now = t /\ Answer(b))

-----------------------------------------------------------------------------
(* Safety *)

\* While there is a handler, no wake is left without a timer that will fire or
\* a batch whose end sets one, across restarts and handlers replaced.
NoForgottenWake ==
  handler # None /\ (\E t \in Targets : pending[t] # NoWake) => timer # None \/ running

\* A pending reason gives way to a weaker one only after a batch has taken it,
\* neither to a request nor to a wake that is put back.
ReasonsAreKept ==
  [][\A t \in Targets : pending'[t] < pending[t] =>
       \E b \in Batches : batch[b] = None /\ batch'[b] # None
                          /\ batch'[b].wakes[t] = pending[t]]_vars

\* No batch is begun before the cooldown of a retry is over: neither requests,
\* nor intervals, nor the end of its own or another batch hurry it, and only a
\* new handler does away with it.  This is a promise to the retry that set the
\* wake timer; one that found a timer set, by a request that came in during the
\* call or by another retry, is tried when that fires, however soon.
RetriesAreNotHurried == [][Fire => cooling = 0]_vars

\* While heartbeats are enabled, a runner that is live and has agents has its
\* interval timer set, or a wake on the way whose answer sets it, however its
\* configuration changes while it is called.
HeartbeatsGoOn ==
  \A r \in Runners : life[r] = "live" /\ handler = r /\ enabled /\ agents[r] =>
    \/ armed[r]
    \/ \E t \in Targets : pending[t] # NoWake
    \/ \E b \in Underway : batch[b].by = r /\ (batch[b].left # {} \/ ~batch[b].off)

(* Liveness *)

\* Every wake is handed to the runner, and the runner does not only find
\* requests in flight: those who have to wait are tried until it is their turn,
\* or heartbeats are off.
WakesAreAnswered ==
  \A t \in Targets : /\ pending[t] # NoWake ~> t \in taken
                     /\ t \in taken ~> t \notin taken
=============================================================================
