---------------------------- MODULE ChannelManager ----------------------------
(***************************************************************************)
(* One account of a messaging channel as the gateway keeps it running:     *)
(* src/gateway/server-channels.ts starts its provider, stops it, restarts  *)
(* it with a backoff when it exits, and src/gateway/                       *)
(* channel-health-monitor.ts restarts it when it looks unwell.             *)
(*                                                                         *)
(* A run is one pass of startChannelInternal over the account, from the    *)
(* reservation to the end of the task it hands over.  It goes on at every  *)
(* await, where other calls come in.  The calls are those of operators     *)
(* (requests and reloads of the config) and of the health monitor.         *)
(***************************************************************************)
EXTENDS Naturals

CONSTANTS Runs,        \* identities of runs, used again when nobody knows them
          Operators,   \* callers that stop, start and restart the account
          Monitor,     \* the health monitor
          MaxAttempts, \* MAX_RESTART_ATTEMPTS
          MaxFaults,   \* bound: starts that fail
          Slow,        \* a provider may take longer to end than a stop waits
          None

Callers == Operators \cup {Monitor}

ASSUME ConstantsAssumption ==
  /\ None \notin Runs /\ Monitor \notin Operators
  /\ MaxAttempts \in Nat /\ MaxFaults \in Nat
  /\ Slow \in BOOLEAN

VARIABLES
  task,     \* store.tasks: the run whose task is tracked
  abort,    \* store.aborts: the run whose controller a stop would find
  starting, \* store.starting
  manual,   \* the account is in manuallyStopped
  attempts, \* restartAttempts
  up,       \* runtime.running, as the health monitor sees it
  run,      \* run -> how far it is, whether it was aborted, who began it
  call,     \* caller -> where its stop is, the task it waits for, whether a start follows
  faults    \* starts that failed

store == <<task, abort, starting>>
vars == <<task, abort, starting, manual, attempts, up, run, call, faults>>

Stages == {"configuring", "bootstrapping", "provider", "cleanup", "sleep", "unwinding", "gone"}
RunRecords == [at : Stages, aborted : BOOLEAN, auto : BOOLEAN]
CallRecords == [at : {"idle", "wait", "start"}, task : Runs \cup {None}, again : BOOLEAN]

TypeOK ==
  /\ task \in Runs \cup {None}
  /\ abort \in Runs \cup {None}
  /\ starting \in Runs \cup {None}
  /\ manual \in BOOLEAN /\ up \in BOOLEAN
  /\ attempts \in Nat /\ faults \in Nat
  /\ run \in [Runs -> RunRecords]
  /\ call \in [Callers -> CallRecords]

Gone == [at |-> "gone", aborted |-> FALSE, auto |-> FALSE]
Idle == [at |-> "idle", task |-> None, again |-> FALSE]

Init ==
  /\ task = None /\ abort = None /\ starting = None
  /\ manual = FALSE /\ attempts = 0 /\ up = FALSE
  /\ run = [r \in Runs |-> Gone]
  /\ call = [c \in Callers |-> Idle]
  /\ faults = 0

--------------------------------------------------------------------------------
At(r, stage) == run[r].at = stage
Unless(entry, r) == IF entry = r THEN None ELSE entry

\* A stop whose wait is over goes on before another call comes in: what is
\* left of it are continuations of settled promises.
Settled(c) == call[c].at = "wait" /\ call[c].task \notin {r \in Runs : ~At(r, "gone")}
Calm == \A c \in Callers : ~Settled(c)

\* mutant: a start under way is not noticed (the account is not reserved)
MutBegin(t, a, rs, auto) ==
  /\ task' = t
  /\ \/ /\ t # None
        /\ abort' = a /\ run' = rs /\ UNCHANGED starting
     \/ /\ t = None
        /\ \E r \in Runs :
             /\ rs[r].at = "gone" /\ r # a /\ \A c \in Callers : call[c].task # r
             /\ abort' = r /\ starting' = r
             /\ run' = [rs EXCEPT ![r] = [at |-> "configuring", aborted |-> FALSE, auto |-> auto]]

\* The part of startChannelInternal before its first await: a task or a start
\* under way is left alone, otherwise the account is reserved.  t, a and rs are
\* the tracked task, the controller and the runs by then.
Begin(t, a, rs, auto) ==
  /\ task' = t
  /\ \/ /\ t # None \/ starting # None
        /\ abort' = a /\ run' = rs /\ UNCHANGED starting
     \/ /\ t = None /\ starting = None
        /\ \E r \in Runs :
             /\ rs[r].at = "gone" /\ r # a /\ \A c \in Callers : call[c].task # r
             /\ abort' = r /\ starting' = r
             /\ run' = [rs EXCEPT ![r] = [at |-> "configuring", aborted |-> FALSE, auto |-> auto]]

\* mutant: the gate of a start that fails stays closed
MutGiveUp(r) ==
  /\ run' = [run EXCEPT ![r].at = "unwinding"]
  /\ up' = FALSE
  /\ UNCHANGED store

\* The start gives the account up without a task: the finally of the start.
GiveUp(r) ==
  /\ run' = [run EXCEPT ![r].at = "unwinding"]
  /\ starting' = Unless(starting, r)
  /\ up' = FALSE
  /\ UNCHANGED <<task, abort>>

\* isConfigured is answered.  A start somebody asked for ends the manual stop,
\* an automatic restart respects it; neither goes on when it was aborted.
Configured(r) ==
  /\ At(r, "configuring")
  /\ manual' = (manual /\ run[r].auto)
  /\ \/ /\ run[r].aborted \/ manual'
        /\ GiveUp(r) /\ UNCHANGED attempts
     \/ /\ ~run[r].aborted /\ ~manual'
        /\ attempts' = IF run[r].auto THEN attempts ELSE 0
        /\ run' = [run EXCEPT ![r].at = "bootstrapping"]
        /\ UNCHANGED <<store, up>>
  /\ UNCHANGED <<call, faults>>

\* The approval handler is up: the provider is started and its task tracked,
\* whether or not the run was aborted meanwhile.
Bootstrapped(r) ==
  /\ At(r, "bootstrapping")
  /\ run' = [run EXCEPT ![r].at = "provider"]
  /\ task' = r /\ starting' = Unless(starting, r) /\ up' = TRUE
  /\ UNCHANGED <<abort, manual, attempts, call, faults>>

\* The account is disabled or not configured, or a step of the start throws.
FailToStart(r) ==
  /\ run[r].at \in {"configuring", "bootstrapping"}
  /\ faults < MaxFaults /\ faults' = faults + 1
  /\ GiveUp(r)
  /\ UNCHANGED <<manual, attempts, call>>

\* mutant: the controller is removed whosever it is
MutUnwound(r) ==
  /\ At(r, "unwinding")
  /\ run' = [run EXCEPT ![r] = Gone]
  /\ abort' = None
  /\ UNCHANGED <<task, starting, manual, attempts, up, call, faults>>

\* The finally of a start without a task, after the approval handler was stopped
Unwound(r) ==
  /\ At(r, "unwinding")
  /\ run' = [run EXCEPT ![r] = Gone]
  /\ abort' = Unless(abort, r)
  /\ UNCHANGED <<task, starting, manual, attempts, up, call, faults>>

\* The provider returns or throws, told to or not.
ProviderEnds(r) ==
  /\ At(r, "provider")
  /\ run' = [run EXCEPT ![r].at = "cleanup"]
  /\ UNCHANGED <<store, manual, attempts, up, call, faults>>

\* The last finally of a task: it removes its own entries only.
Leave(r) ==
  /\ run' = [run EXCEPT ![r] = Gone]
  /\ task' = Unless(task, r) /\ abort' = Unless(abort, r)
  /\ UNCHANGED starting

CleanedUp(r) ==
  /\ At(r, "cleanup")
  /\ up' = FALSE
  /\ attempts' = IF manual THEN attempts ELSE attempts + 1
  /\ \/ /\ manual \/ attempts' > MaxAttempts \/ run[r].aborted
        /\ Leave(r)
     \/ /\ ~manual /\ attempts' <= MaxAttempts /\ ~run[r].aborted
        /\ run' = [run EXCEPT ![r].at = "sleep"] /\ UNCHANGED store
  /\ UNCHANGED <<manual, call, faults>>

\* The backoff is over, or cut short by an abort.
WakeUp(r) ==
  /\ At(r, "sleep")
  /\ \/ /\ run[r].aborted \/ manual
        /\ Leave(r)
     \/ /\ ~run[r].aborted /\ ~manual /\ Calm
        /\ Begin(Unless(task, r), Unless(abort, r), [run EXCEPT ![r] = Gone], TRUE)
  /\ UNCHANGED <<manual, attempts, up, call, faults>>
--------------------------------------------------------------------------------
\* mutant: a stop that finds no task aborts nothing
MutStop(c, again) ==
  /\ call[c].at = "idle" /\ Calm
  /\ \/ /\ abort = None /\ task = None
        /\ again /\ call' = [call EXCEPT ![c].at = "start"]
        /\ UNCHANGED <<manual, run>>
     \/ /\ abort # None \/ task # None
        /\ manual' = TRUE
        /\ run' = IF task = None \/ abort = None THEN run ELSE [run EXCEPT ![abort].aborted = TRUE]
        /\ call' = [call EXCEPT ![c] = [at |-> "wait", task |-> task, again |-> again]]
  /\ UNCHANGED <<store, attempts, up, faults>>

\* stopChannel up to its first await, for a plugin without a stopAccount hook:
\* with neither a task nor a controller to be found it does nothing.
Stop(c, again) ==
  /\ call[c].at = "idle" /\ Calm
  /\ \/ /\ abort = None /\ task = None
        /\ again /\ call' = [call EXCEPT ![c].at = "start"]
        /\ UNCHANGED <<manual, run>>
     \/ /\ abort # None \/ task # None
        /\ manual' = TRUE
        /\ run' = IF abort = None THEN run ELSE [run EXCEPT ![abort].aborted = TRUE]
        /\ call' = [call EXCEPT ![c] = [at |-> "wait", task |-> task, again |-> again]]
  /\ UNCHANGED <<store, attempts, up, faults>>

Returned(c) == [call EXCEPT ![c] = [Idle EXCEPT !.at = IF call[c].again THEN "start" ELSE "idle"]]

\* The task has ended: the entries of the account are removed, whosever they
\* are by now.
StopEnds(c) ==
  /\ Settled(c)
  /\ task' = None /\ abort' = None /\ up' = FALSE
  /\ call' = Returned(c)
  /\ UNCHANGED <<starting, manual, attempts, run, faults>>

\* CHANNEL_STOP_ABORT_TIMEOUT_MS: the entries stay, the stop returns all the same.
StopTimesOut(c) ==
  /\ Slow /\ call[c].at = "wait" /\ ~Settled(c)
  /\ up' = TRUE
  /\ call' = Returned(c)
  /\ UNCHANGED <<store, manual, attempts, run, faults>>

\* The start after a stop.  The health monitor resets the attempts first.
StartAgain(c) ==
  /\ call[c].at = "start" /\ Calm
  /\ attempts' = IF c = Monitor THEN 0 ELSE attempts
  /\ Begin(task, abort, run, FALSE)
  /\ call' = [call EXCEPT ![c] = Idle]
  /\ UNCHANGED <<manual, up, faults>>

Start ==
  /\ Calm
  /\ Begin(task, abort, run, FALSE)
  /\ UNCHANGED <<manual, attempts, up, call, faults>>

\* runCheck: an account that is not stopped by hand is started when it did not
\* run; one that ran may have looked stale, stuck or disconnected.  Whether it ran
\* is read from a snapshot taken before the restarts of other accounts were
\* awaited, so it may be otherwise by now.
MonitorStarts ==
  /\ call[Monitor].at = "idle" /\ Calm /\ ~manual
  /\ attempts' = 0
  /\ Begin(task, abort, run, FALSE)
  /\ UNCHANGED <<manual, up, call, faults>>

MonitorRestarts == ~manual /\ Stop(Monitor, TRUE)

\* After a stop and the logout of the account; others may have started it again.
MarkLoggedOut ==
  /\ up /\ Calm /\ up' = FALSE
  /\ UNCHANGED <<store, manual, attempts, run, call, faults>>

GoOn(r) ==
  \/ Configured(r) \/ Bootstrapped(r) \/ Unwound(r) \/ CleanedUp(r) \/ WakeUp(r)

Next ==
  \/ \E r \in Runs : GoOn(r) \/ FailToStart(r) \/ ProviderEnds(r)
  \/ \E o \in Operators, again \in BOOLEAN : Stop(o, again)
  \/ \E c \in Callers : StopEnds(c) \/ StopTimesOut(c) \/ StartAgain(c)
  \/ Start \/ MarkLoggedOut
  \/ MonitorStarts \/ MonitorRestarts

Spec == Init /\ [][Next]_vars

\* Awaits of the manager are answered, backoffs end, a provider that was
\* told to stop ends some day, and the health monitor goes on checking: an account
\* that stays down is down in a later snapshot too.
FairSpec ==
  /\ Spec
  /\ \A r \in Runs : WF_vars(GoOn(r)) /\ WF_vars(run[r].aborted /\ ProviderEnds(r))
  /\ \A c \in Callers : WF_vars(StopEnds(c) \/ StopTimesOut(c) \/ StartAgain(c))
  /\ WF_vars(~up /\ MonitorStarts)
--------------------------------------------------------------------------------
Live(r) == At(r, "provider") /\ ~run[r].aborted

\* However starts, stops, restarts and exits overlap, no two providers work for
\* the account at once: all but one were told to stop (startChannelInternal
\* reserves the account before its first await).
OneLiveProvider == \A r, s \in Runs : Live(r) /\ Live(s) => r = s

\* While the account counts as stopped by hand no provider works for it that
\* was not told to stop: an automatic restart does not get past a stop.
StoppedMeansTold == manual => \A r \in Runs : ~Live(r)

\* A provider at work can be found by a stop, through its task and its controller.
CanBeStopped == \A r \in Runs : Live(r) => task = r /\ abort = r

\* An account is running or stopped by hand again and again: neither an exit, a
\* failed start, the last restart attempt nor a stop under way leaves it down.
BroughtBack == []<>(manual \/ \E r \in Runs : Live(r))
================================================================================
