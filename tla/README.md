# TLA+ models of the NinjaClaw gateway

NinjaClaw (a fork of OpenClaw) is a personal assistant: a long-running Node.js
gateway that receives messages from chat channels, runs an agent for the session
a message belongs to, and sends the replies back. This directory holds TLA+
models of the parts of the gateway that keep concurrent state, the TLC
configurations that check them, and proofs, checked by TLAPS, of their most
important properties. Paths below are relative to the repository.

## The system

Everything in the gateway runs on one event loop. A function runs undisturbed
from one `await` (or the end) to the next; between two awaits anything else may
happen: another message, a timer, the end of another run, a config reload, an
in-process restart. So in all models **what happens between two awaits is one
action**, and the hazards are about what changes across an await. Only the
session write lock and the files of the delivery queue are shared with other
processes, of the command line.

| Part | State it keeps | Operations | Modelled in |
|---|---|---|---|
| Command queue, `src/process/command-queue.ts` | lanes (waiting entries, active task ids, cap, generation), drain waiters | enqueue, settle, set concurrency, clear, mark draining, reset, wait for active tasks | `CommandQueue` |
| Outbound delivery queue, `src/infra/outbound/delivery-queue-{storage,recovery}.ts`, `deliver.ts` | one JSON file per message, `.delivered` markers, `failed/`, the in-memory set of claimed entries | enqueue, ack (rename, unlink), fail (read, write), move to failed, startup recovery, drain on reconnect | `DeliveryQueue` |
| Followup queue, `src/auto-reply/reply/queue/` | per session: queued messages, count and lines of dropped ones, draining flag; a cache of recent message ids | enqueue with drop policy, drain (debounce, single runs, batches, summaries), clear | `FollowupQueue` |
| Reply runs, `src/auto-reply/reply/reply-run-registry.ts` | the active run per session key, session ids, waiters | begin, rebind, abort, complete, wait for idle | `ReplyRuns` |
| Heartbeats, `src/infra/heartbeat-{wake,runner}.ts` | pending wakes, one wake timer, batch under way, the interval timer of a runner | request, fire, answer, busy, throw, start, stop, reload, switch | `HeartbeatWake` |
| Session write lock, `src/agents/session-write-lock.ts` | a lock file beside the session; per process the held locks with their counts, a watchdog timer | acquire (open, write, inspect, reclaim, wait), share, release, watchdog, signal, exit, clean stale files | `SessionWriteLock` |
| Cron service, `src/cron/service/` | jobs in a file and in memory, timer, running flag, the chain of locked sections | tick, catch-up at startup, run by hand, add, enable, disable, remove, list | `CronService` |
| Channel manager, `src/gateway/server-channels.ts`, `channel-health-monitor.ts` | per account: task, abort controller, start under way, manual stop, restart attempts, runtime flags | start, stop, restart with backoff, logout, checks of the health monitor | `ChannelManager` |
| Exec approvals, `src/gateway/exec-approval-manager.ts` | pending approvals with timers, resolved ones for a grace period | register, resolve, expire, consume | planned |

How they work together: an inbound message looks up the reply runs of its
session. If the session is busy the message goes into the followup queue, whose
drain is scheduled when the run ends; otherwise a run begins. A run is a command
enqueued in the lane of its session and, from there, in a global lane (`main`,
`cron`, `subagent`, see `lanes.ts`). The reply is a message of the outbound
queue, written before it is sent. Heartbeats ask the command queue whether
requests are in flight, and try again later if there are. An in-process restart
(SIGUSR1) marks the command queue as draining, waits for the active tasks, stops
the heartbeat runner, resets the lanes and starts everything again while module
state such as pending wakes and followup queues stays. A run changes the
transcript of its session under the session write lock, which runs started on the
command line take as well. The cron service starts runs when its jobs are due; the
channel manager keeps the providers alive through which messages come and go.

`PROJECT.json` lists all other parts of the repository under `components` with
the reason why they are not modelled: calls of services, rendering, parsing, and
parts that wait for their turn in the plan.

## Modules

### CommandQueue

`queue`, `active`, `maxConcurrent` and `generation` are the fields of a
`LaneState`; `phase`, `lane` and `startGen` say where the promise of an entry is
and what the closure around it has captured. Each exported function is an action
and includes the `drainLane` it calls (operator `Drain`, the loop of `pump`). The
two outcomes of `completeTask` (the generation is still that of the task, or a
reset came in between) are `FinishCurrent` and `FinishStale`. Wait warnings and
logging are left out.

One run, `command_queue` (2 lanes, 3 entries, 1 waiter, caps up to 2, 1 reset):

- `WorkConserving`, `QueuedOnce`, `NoOvertaking`, `StartsWithinCap`: no lane with
  a free slot has entries waiting, nothing is started twice, out of order, or
  above the cap, whatever raises, lowers, clears and resets happen in between;
- `SlotsHeldByCurrentTasks`: a task of an earlier generation that settles late
  does not free a slot of the present one;
- `DrainedMeansDone`, `NoForgottenWaiter`: who waits for the active tasks to end
  is told, and not before;
- `QueuedLeavesQueue`: every queued entry is started or rejected.

Three entries fill a lane of cap 2 and leave one to wait, or make an order of
two behind a lane of cap 1; one reset separates two generations. Fairness is
assumed of one thing: a started task settles. The commands of the gateway run
under timeouts (`resolveAgentTimeoutMs` and the like). Nothing is assumed of
enqueues, cap changes or resets.

`MaxGeneration` bounds the resets in TLC's runs, where the code counts without
bound. It is a constant: the theorems hold for any number of resets.

### DeliveryQueue

The delivery attempts of a process are *jobs*: the live delivery of an entry, a
recovery worker (startup recovery or the drain of a channel), and the `failDelivery`
call of an entry deferred because recovery ran out of its budget. `at[j]` is the await
a job stands at. `json`, `marker` and `failed` are the files, `claimed` is
`entriesInProgress`; `sent`, `acked` and `withdrawn` are history. A scan reads the
directory (`Scan`) and then one entry after the other (`ReadEntry`), without a claim;
an entry of an older version, whose file counts retries and has no `lastAttemptAt`
(`legacy`), is written back by the scan that takes it (`Migrate`), so the second
migration, of `loadPendingDelivery` under the claim of a worker, finds nothing to do
(theorem `TakenEntriesAreMigrated`). `Restart` forgets the jobs and the claims and
keeps the files, at any moment if `Faults`, else when all jobs are idle; `IOError`
lets any file operation of a queued entry fail, the enqueue excepted, and follows the
`catch` it lands in.

- `delivery_queue` (one entry sent live, which may be aborted or cancelled, one left by
  an earlier process, startup recovery and a drain, crashes and file errors at any
  moment): `NothingLost`,
  `OneWorkerPerEntry`, `NotResentAfterAck`, and `ImplementsOutbox`,
  the refinement of the abstract `Outbox`. Recovery may run out of its budget, and
  files may be legacy ones. The writes without a claim, of a deferral, of a scan and of
  a live delivery that fails, can put an entry back that a recovery has acknowledged
  (see the remarks); `NotResentAfterAck` is about all others: `acked` keeps an entry
  until such a write.
- `delivery_queue_live`: `EntriesLeaveQueue`, with the recovery budget and without
  faults. Fairness: the file system and the channel's calls answer, and the
  gateway is restarted again and again (a personal gateway is; without restarts a
  deferred entry may stay for ever). The strong fairness of `LoadAndSend` says
  that a backoff elapses sooner or later.

`Outbox` says what the queue promises to those who send: a message leaves the box
only because it reached the channel, was withdrawn, was set aside on record, or is
one of the unreliable (best-effort) ones. Put, Take, Discard and PutBack are what
enqueue, ack, move-to-failed and the write of a failure are to the sender; claims,
markers, workers, retries and restarts are invisible. `Promise` in
`DeliveryQueue` gives the mapping: the box is the set of entries with a file.

`MaxRetries` is 2 where the code has 5: the count is only compared with the
limit, so one failure below it and one at it are the cases there are.

### FollowupQueue

One session key. `registered` is what `FOLLOWUP_QUEUES` has for the key; a drain
keeps the queue object it started with (`pc`, `force`, `job` are its local
state), which matters when the queue is cleared under it. The body of the
loop up to the run it asks for takes two steps: `Wake` ends the debounce, compares the
destinations and, where the helper that runs a message alone has one to run, asks for
that run; `GoOn` takes the helper's answer after the await, puts the batch together
from what is queued by then, or leaves. `FollowupReturns` is what comes after the run.
`active` is the owner of the session's reply run. `fate` and `compared` are history:
what has become of a message, and which messages the comparison has seen.

- `followup_queue` (3 messages, 2 queue objects, two destinations, two
  authorizations, caps 1 and 2, policies old and summarize, in collect mode all of these
  and in followup mode two, clears):
  `BatchesAreUniform`, `DeliveredOnce`. Three messages are a batch of two groups
  and one that arrives during the run, or two that are compared and one that arrives
  before the batch; the caps make drops under a running drain. A batch has one
  authorization, and one destination as far as its messages were compared; the one
  that arrived in between may bring another (see the remarks).
- `followup_queue_live` (caps that are not reached, or policy new; no clears):
  `NoneVanish`, `NoOrphan`, `EveryoneGetsATurn`. These are the settings under which
  the code keeps every message; what happens beyond them is among the remarks.
  Fairness: debounces, helpers and runs end (weak), a drain that fails and is
  scheduled again finds the session free some time, at each of its steps, and its run
  succeeds some time (strong). The code retries without end (`drain.ts:260-269`).

`Queues` bounds the queue objects alive at a time: the registered one and a
cleared one still being drained.

### HeartbeatWake

`pending`, `scheduled`, `running`, `timer` and `handler` are the module state of
`heartbeat-wake.ts`; `batch` holds the local variables of the timer callback,
whose loop awaits the handler; `life` and `armed` are a runner and its interval
timer, and `agents` says whether its configuration has agents with heartbeats.
`cooling` is history: what is left of the cooldown of the retry that set the wake
timer. A wake has a target (agent and session, or `Everyone`) and the priority
of its reason. Time is counted in ticks up to the retry delay; timers fire
before the next tick.

- `heartbeat_wake` (two runners in succession, two batches, one session and the wakes
  for everyone): `NoForgottenWake`, `HeartbeatsGoOn`, `RetriesAreNotHurried`,
  `ReasonsAreKept` while runners are replaced under a batch. `RetriesAreNotHurried` is
  no statement about the timer but about the batches: none begins in a cooldown.
  `Batches` bounds the callbacks under way: that of the old runner and that of the new
  one. They are symmetric. The configuration is not reloaded in this run, which would
  be too many states; the theorems cover reloads and restarts together. The run's VIEW
  leaves out `taken`, the history that only `WakesAreAnswered` needs: no guard and no
  property of this run reads it.
- `heartbeat_live`: `WakesAreAnswered`, with the switch and with reloads of the
  configuration that leave the runner without agents or give it some, and with
  fairness for the timers and calls, and strong fairness for an answer other than
  busy: requests in flight end.

### ReplyRuns

The five maps of `reply-run-registry.ts` are `active`, `idOf`, `keyOf`, `waitKey`
and `waitersOn`. An operation has the closure's `key`, `session`, `phase`,
`result`, `signal` (the abort controller) and `cleared`; `backend` is the backend
its owner runs. The actions in the first half are what the owner does with its
operation, in the order of `runReplyAgent` and `createFollowupRunner`; the second
half is what others do: abort by key or session id, restart aborts, waits.
`awaits` and `held` are history. An owner returns right after `complete`, so the
operation is gone with it.

`reply_runs` (2 keys, 2 session ids for one and 1 for the other, 3 operations, 1
waiter, operations symmetric): `IndexesAgree`, `NoForgottenWaiter`,
`ToldTheTruth`, `OneBackendPerKey`, `EndsOnlyItself`. Two operations can be of
one key, one aborted while its owner goes on and one that has the key now, with a
third elsewhere or aborted as well; two ids are one rotation. `Owner` says that the
session store gives each key session ids of its own; under it the check of
`updateSessionId` against another key's session never fails.

### SessionWriteLock

The lock of one session file. `file`, `full`, `old` and `maker` are the lock file:
which one it is, whether its payload is written, whether it is older than `staleMs`,
and the process that made it. `held` and `count` are the entry of `HELD_LOCKS` in each
process, `closing` the locks whose release has left that map and has yet to remove the
file, `watched` the watchdog timers. `pc[c]` is the await at which a call of
`acquireSessionWriteLock` stands: the exclusive open, the write of the payload, the
read of the file in the way, its `stat`, the `rm` of a stale one, the wait between
attempts; or of a cleaner, which lists the files, reads each by its name and removes
it if it is stale, empty or gone. Remove takes away whatever file is there by then, as
`rm` does; `robbed` is history and says that it was not the stale one that had been
read, or that it belonged to a live process and was too old, or was empty or not there
yet when `cleanStaleLockFiles` read it.

`session_write_lock` (two callers in the gateway, one on the command line that may
also clean stale files, a file left by a process of the past or none; watchdogs,
signals that the process survives, exits and crashes at any moment but of the last
process):

- `Exclusive`: two processes hold the lock only after a robbery. This is what the
  code achieves; that robberies happen is among the remarks. No release, retry,
  failed write, watchdog, signal, exit or crash breaks exclusion by itself;
- `KeptForUsers`: callers that share the lock of their process keep it until the
  last of them releases it, and the handle of a lock that was taken away does not
  release the next one;
- `FreedAgain`: a file left by a dead process, with or without its payload, does
  not shut everybody out for good.

Three callers are two that share or compete in a process and one in another; two
lock files are the one that is there and one somebody still has in mind (the
theorem holds for any number). Fairness: the file system answers, callers release
what they have and ask again, files age. None is assumed of the watchdog, whose
timer may be off (see the remarks). Start times tell a process from a later one
with its pid, as on Linux.

### CronService

`disk` and `mem` are the store, `queue` the chain of sections of `locked.ts`,
each of which is one action; `tick`, `boot` and `manual` say where the timer's
callback, the startup and a run by hand stand between their sections, and `exec`
what each of them executes. `Claim` to `EndTick` are `onTimer`; `ClearMarkers` to
`Arm` are `start` with its catch-up of missed jobs; `CallRun` to `Finish` a run by
hand; `Serve` the requests of clients. `Crash` keeps the file and forgets the
rest. One writer is not part of the service: `maybePersistResolvedTelegramTarget` of
the Telegram extension reads the file (`WriteBackReads`), resolves a target in its
copy and saves that (`WriteBackSaves`), outside the lock; `copy` is what it has read.
`released` and `behind` are history: executions whose marker was taken from them, and
jobs whose record such a write-back changed on disk.

- `cron_service` (a one-shot, a recurring job and one that is added later; an
  outcome of each kind, a clock up to 3, two of: manual run, request, failure,
  crash, write-back): `NoOverlap` (no two executions of a job), `SlotsKept` (a job that
  is due is not moved on by sections about others), `OneShotsStayDone`,
  `OnlyRequestsEnable` (outcomes written over a store read anew do not undo what the
  disk has, be it newer or, after a write-back, older than the memory). What a
  write-back itself does to the jobs is excepted, job by job (`behind`), and is
  among the remarks.
- `cron_service_live` (one such event, no write-backs): `DueJobsRun`. Fairness: the
  timer fires, sections run, executions end; nothing of requests or the clock. With
  write-backs it is false: a job restored on disk behind a memory that has no job to
  arm the timer for waits until the service is asked something or started again.

Two events are an edit, or a run by hand, and a crash or a write-back around it; one
write-back is under way at a time. A clock of 3
gives a slot that is due, missed and due again. The clock and the events
are bounded, so the model stops when they are used up (`CHECK_DEADLOCK FALSE`).

Not modelled: cron expressions (a slot is a time like those of an interval), edits
of a schedule, permanent errors and growing backoffs (one constant), failed saves,
jobs whose persisted schedule is invalid (`skipInvalidPersistedManualRun`,
`ops.ts:401`), the cache of the file's text in `cron/store.ts`, other processes that
write the file (`doctor`, which is a write-back of the same kind), the replacement of
the service by a reload, failure alerts, and what a job does. A write-back's save that
falls into a section is overwritten by it, and is covered by one that never saves.

### ChannelManager

One account. `task`, `abort` and `starting` are the entries of the account in the
store of its channel, `manual` and `attempts` those of `manuallyStopped` and
`restartAttempts`. A *run* is one pass of `startChannelInternal` with the task it
hands over; `run[r].at` is the await it stands at, from `isConfigured` to the
backoff. `call` holds the stops under way of operators and of the health monitor
and whether a start follows. `Begin` is the part of a start before its first await.

`channel_manager` (three runs, one operator, the monitor, two restart attempts, a
failed start, providers slower than the wait of a stop): `OneLiveProvider`,
`StoppedMeansTold`, `CanBeStopped`, and `BroughtBack`, the liveness of the whole:
again and again the account has a live provider or counts as stopped by hand.
Three runs are one that lingers after a stop, one live and one beginning; a second
attempt separates the last restart from the others. Fairness: awaits are answered,
backoffs end, a provider that was told to stop ends some day, the monitor goes on
checking. When the monitor finds an account unwell, its cooldown and its hourly
cap are left open: it may restart at any time, or not. It acts on a snapshot taken
before it awaited the restarts of other accounts, so it may start an account that
runs by now, or stop one that does not; only the mark of a manual stop is read anew.

`Calm` says that what is left of a stop whose task has ended runs before the next
call comes in: these are continuations of promises that have settled. Plugins with a
`stopAccount` hook are not modelled (see the remarks).

## Proofs

Each of the eight components has a module of proofs (`CommandQueueProofs` and so
on) beside it. They hold for every value of the constants that the modules' named
assumptions allow: any number of lanes, entries, waiters, caps and resets; of
messages, drains and retries; of session keys, ids and operations; of targets,
runners and batches; of provider runs, operators and attempts; of processes,
callers and lock files; any messages, destinations, authorizations, queue objects and
settings of followup queues; any jobs, schedules, outcomes and requests of the cron
service, and any clock. Every safety property that a run checks, invariant or action
property, is a theorem as well, and so is the refinement of `Outbox`. Where one
has a hypothesis, the run sets it, and the property is false without it (see the
remarks).

*CommandQueue.* The inductive invariant `IInv` is `LanesOK` (types, work
conservation, exact slots, entries queued once) and `Waiting` (what waiters were
told). Two strengthenings are not properties of interest by themselves but are
needed: `StartedInPast` (no task was started in a generation its lane has not
reached; otherwise a reset could revive a slot) and `WaitsForStarted` (a waiter's
tasks were started, so that one that is not active has settled or was
interrupted). The argument runs through lemmas on `Drain`: what one call of the
pump does to a queue that is duplicate-free keeps it so, leaves a full lane or
an empty queue, and starts only what was queued. The theorems `TypesKept`,
`LanesConserveWork`, `SlotsAreExact`, `EntriesQueuedOnce`, `WaitersToldTheTruth`,
`WaitersNotForgotten`, `CapRespected` and `OrderIsKept` follow from it. For the last,
what a drain starts is the front of a queue, so that an entry that is not started stays
before all that are behind it; and a new entry is behind the whole queue, where by
`QueuedOnce` everything is that waits in the lane.

*DeliveryQueue.* `QueueInv` is the type invariant, `EntryJobsOnlySend` (a live
or deferred job never stands at a step of a worker), `ClaimInv` (a worker at a
holding step has an entry, the claims are the entries of those workers, no two
have the same), `AcksAreEarned` (a job about to acknowledge has sent, or
withdrawn, or is best-effort) and `NothingLost`. `AcksAreEarned` is what makes
`NothingLost` inductive: the ack takes the file away, so the message must have
been sent before. Theorems: `TypesKept`, `NoMessageIsLost`, `WorkersExclude`,
`ClaimsAreExact`, and the two below.

`OutboxImplemented` shows that every step of the queue is a step of `Outbox` or a
stutter. Two more invariants are needed: an entry with a file is a known one, and
the rank of a known entry is not 0 (else a restart could not tell a new entry from
an old one). Enqueue is Put, the acceptance by the channel is Reach, the rename of
an ack is Take (by `AcksAreEarned`), moveToFailed is Discard, and the write of a
failure is PutBack when an ack came in between, else a stutter.

`NothingResent` proves `NotResentAfterAck`, without a hypothesis. `SettledInv`
strengthens it: an entry that a worker acknowledged has no file, and no worker
is between its second reading of the file and the end of its work on such an entry.
The ack, and every write of a file under a claim, are made by the one worker that has
the claim (`OneWorkerPerEntry`); a write without one ends the promise for its entry.
`TakenEntriesAreMigrated` justifies an omission: no snapshot holds a legacy entry and
none is under a claim, so the write in `loadPendingDelivery` (:206-209) never happens.

*FollowupQueue.* What makes this queue hard is that a drain keeps a copy of the
messages it runs while the queue changes at both ends: new messages at the back, drops
at the front, a clear takes everything, and the end of the run removes as many messages
as it delivered, whichever they are by then. `Shifted` says what remains true: the copy
is the front of the queue as it was, `d` messages of which are gone since, and what
stands behind the copy is not in it. `IInv` says so of every queue and its drain
(`Sound`), and that what two queues or their drains hold (`Held`) is disjoint, was
received and has not run. `BatchesStayUniform` rests on `Shaped`, by which a group of
a batch has one authorization, and on a second invariant, `Agreement`: before a batch
is put together and until it is delivered, its drain has not found destinations to
differ, and those it compared are one. The comparison and the batch are two steps of
the drain, between which messages come in, are dropped and cleared.
`NothingRunsTwice` rests on the injective copy: whatever a run delivers is gone from the
queue when it ends, as the removal takes at least those of its messages that are left.
`Together`, the length of the first authorization group, is a CHOOSE; that it exists
is the least-number principle, from the well-foundedness of `<` in the library.

Two theorems have a hypothesis. `NoWorkIsLost` (`NoOrphan`) assumes `~Clears`, and its
invariant `Found` says that only the registered queue has work or a drain. `AcceptedStays`
(`NoneVanish`) assumes `Ample`: the policy is `new`, or the cap is not below the number of
messages; clears are allowed. `Whole` then says that nothing was dropped and that a run
is of exactly the first messages of its queue, unless that was cleared: the number the
code removes is that of the messages it delivered.

*ReplyRuns.* `IInv` is `RegistryOK` (the operations that have not cleared their state
are those the registry has, under their own keys), `BackendsOK`, `IndexesAgree`,
`HeldOK` (every id a run has had leads waiters to it) and `WaitersOK`. The code
clears by key and does not look which operation it removes; `ClearDrops` shows
from `RegistryOK` that it only ever removes the operation that clears. All the
properties of the run are proved: `IndexesAlwaysAgree`, `WaitersNotForgotten`,
`WaitersToldTheTruth`, `BackendsExclude` and `OperationsEndThemselves`.

*HeartbeatWake.* The type invariant is all that is needed besides each property, but for
`RetriesKeepTheirTime`: by `Cooled` the wake timer is a retry's while a cooldown lasts
and fires no sooner than the cooldown ends. The
lemmas say what `schedule` and `queuePendingWakeReason` guarantee (`ScheduledFacts`,
`QueuedFacts`), what a batch does that goes on or ends (`ContinuedFacts`,
`ContinuedCalls`), and what every kind of answer leaves behind (`AnswersAndTimer`,
`AnswersGoOn`). All safety properties of the module follow: `WakesNotForgotten`,
`RetriesKeepTheirTime`, `StrongReasonsStay`, and `HeartbeatsAlwaysGoOn` under the
hypothesis `~Switches`, without which the last is false (see the remarks).

*ChannelManager.* The three exclusion properties follow from one invariant. `Reserved`:
the run that has begun and not handed over its task is the one with the reservation,
and no task is tracked meanwhile. `InReach`: whatever was not told to stop is what the
next stop finds. `Waiting`, `Quiet`: stops that wait do so for the tracked task, which
they have aborted, and when it has ended whatever goes on was told to stop. This is why
a stop may remove the entries of the account without a look at whose they are. `Past`:
no run is beyond the last check while the account is stopped by hand, but those
that were aborted. Theorems: `AlwaysInReach`, `NeverTwoProviders`, `StopsAreKept`.

*SessionWriteLock.* Until the first robbery the state is `Sound`: what a process holds
or is about to close is the file that is there, with its payload (`Holds`, `Closes`),
and at most one caller has created a file that is not written (`Writes`), so that a
creation, a release and a failed write each know the file is theirs. `Reading` carries
the reason for a removal from the read to the `rm`: if the same file is still there,
its process has ended or it is too old. Theorem: `OneHolder`.

A second invariant, `Sharing`, holds robbed or not. `Apart`: no lock belongs to two
processes, and one whose payload is not written is known to its creator only, because
a new file is nobody's. `Counted`: the count of an entry is the number of callers of the
process that work with its lock (`CountsAreRight`). So the release that lets go of the
entry is the last one; and a process that writes a payload had no entry before, as by
`Holds` and `Writes` a file cannot be full and empty. Theorem: `SharedLocksStay`
(`KeptForUsers`).

*CronService.* The invariant has two parts. `Control` is about who goes on: a section
waits in the chain at most once and only for somebody who waits for it (`Awaited`), so
that the section that runs finds its client at the right stage; nothing is loaded before
the markers are cleared; only a batch under way has executions, and only until it
has written their outcomes. `Stored` is about the jobs. `InStep`: but for what a
write-back changed behind its back, the store in memory has the jobs of the disk and runs
ahead of it in markers, errors and missing next times only. `Marking`: while an
execution's marker was not taken away, the job is marked in both stores and nobody else
executes it. `Sanity`: the next
time of a recurring job lies after its last start, and that of a one-shot is its own time
as long as it has not succeeded, so that a slot that is due was not used before.
`Fresh`: nothing is known of a job that is still to be added. A third part, `Copied`,
says of the copy of a write-back what `Stored` says of the disk, so that its save keeps
`Sanity` and `Fresh` too.

`NoOverlap` follows from `Marking` (`JobsDoNotOverlap`). The action properties follow from
`Kept`, which says what no step does to a job, but for the requests about it, the
recomputation of `arm`, write-backs and jobs whose catch-up was put off: enable it,
schedule it again when it is done, move it while it is due (`OnlyRequestsEnableJobs`,
`DoneStaysDone`, `SlotsAreKept`). A job that differs between disk and memory can only be
one in `behind`; of these `Trusted` says that a section which saves the memory enables
what the memory has enabled, and `Kept` that the sections which read anew do not even
that. The assumptions: the set of
jobs is finite, as the code's array is; `FreshIdsAssumption` (`createJob` makes up
the id of a job it adds); `None` is none of the values.

Out of the prover's reach and left to TLC: the liveness properties
(`QueuedLeavesQueue`, `EntriesLeaveQueue`, `EveryoneGetsATurn`, `WakesAreAnswered`,
`DueJobsRun`, `FreedAgain`, `BroughtBack`), whose proofs need ENABLED and the rules of
fairness. `ClaimsAreExact` (DeliveryQueue) and `CountsAreRight` (SessionWriteLock)
are proved and not among the properties of a run. The constants of the proofs include
the bounds of TLC's runs (`MaxTime`, `MaxEvents`, `MaxGeneration` ...): any number, but
some number.

## Remarks on the code

What the models show of the code beyond the properties that hold. Where a change
of a run shows it, it is given: constants to set, and the formula that TLC
then refutes.

*Delivery queue.*

- Three paths write an entry's file without a claim and can put it back after a
  recovery has acknowledged the entry, which is then sent again: the deferral for the
  recovery budget (`delivery-queue-recovery.ts:131`), the scan, which writes an
  entry of an older version back (`delivery-queue-storage.ts:252-258`), and a live
  delivery that fails (`deliver.ts:544`). The comment at
  `delivery-queue-recovery.ts:258-260` relies on the file being gone. `delivery_queue`
  with `acked` left unchanged by `FailWrite`, or by `Migrate`: `NotResentAfterAck`.
- Recovery swallows the error of a best-effort message and acknowledges it unsent
  (`delivery-queue-recovery.ts:93`). `delivery_queue` with `BestEffort = {e1}` and
  `OnError = {e1}`: `NotDroppedUnsent`.

*Followup queue.*

- An overflow during a run drops the message being run from the queue, and the end
  of the run then shifts the next one, which never ran (`queue-helpers.ts:156`).
  `followup_queue_live` with `Settings <- DropOld`: `NoneVanish`.
- In followup mode the overflow summary uses up a queued message (`SummaryAsItem`);
  with nothing queued the drain schedules itself for ever, as the loop condition
  counts drops and the body does not (`LaterJob`, `Ended`).
- A message for another destination that comes in between the comparison of the
  destinations (`drain.ts:159`) and the batch (`drain.ts:185`) joins the batch, although
  the comment at `drain.ts:153-158` has such messages run one by one: the loop awaits its
  helper in between. `followup_queue` without `{m, n} \subseteq compared[q]` in
  `BatchesAreUniform`.
- The drain of a cleared queue deletes, when it ends, the queue made since for the
  same key (`Ended`), so that `NoOrphan` needs `Clears = FALSE`.

*Heartbeats.*

- An interval that ends while heartbeats are switched off is the last one
  (`heartbeat-runner.ts:1396`). `heartbeat_wake` with `Switches = TRUE`:
  `HeartbeatsGoOn`.
- A heartbeat request during a call sets a timer of its own, which the retry that
  follows keeps if it is the sooner one (`heartbeat-wake.ts:130`); the retry then has no
  cooldown, although the comment at `heartbeat-wake.ts:124` speaks of a "hard minimum
  delay". `RetriesAreNotHurried` is about the retries that set the timer.
- The wakes left in the batch of a stopped heartbeat runner are answered as
  disabled and dropped.

*Session write lock.* `CHANGELOG.md:6137` speaks of "single-writer session locks".
Two processes can hold the lock, as `robbed` records:

- two callers read the same stale file; one removes it and creates its own, which the
  other then removes, thinking of the stale one (`session-write-lock.ts:565`);
- a lock older than 30 minutes (`DEFAULT_STALE_MS`) is taken from an owner that is
  alive, although it may be held for as long as a run, whose default timeout is 48
  hours (`agents/timeout.ts:3`; `CHANGELOG.md:4215`: "preventing valid long-running
  turns from being force-unlocked mid-run"). The old owner's release then removes the
  file of the new one;
- `cleanStaleLockFiles` does not look at the time of a file without a payload, and so
  removes one that is being created; a file that has gone since the directory was
  listed is stale to it as well, and it removes one created before its `rm`.

`session_write_lock` without `robbed` in `Exclusive` shows each. Besides:

- The watchdog timer is stopped by the release that empties `HELD_LOCKS`
  (`session-write-lock.ts:170`), and set only at the beginning of an acquire. A caller
  that was waiting then gets a lock nobody watches, until the next call in its
  process. The formula `held[p] # None => p \in watched` is false.
- A signal releases the locks (`handleTerminationSignal`) even if other listeners
  let the process live on, as the gateway's do while it drains its runs.
- Where start times cannot be read, a caller of the same process takes the file of a
  release under way for an orphan (`shouldTreatAsOrphanSelfLock`: the entry has left
  `HELD_LOCKS`, the file is still there), and the release's own `rm` may then
  remove the next lock.

*Cron service.*

- The end of `start` recomputes all jobs and silently moves slots on that became due
  during the catch-up, against the comment at `timer.ts:1110` ("Preserve any new
  past-due nextRunAtMs values ..."). That is why `SlotsKept` leaves `Arm` out; an
  `add` does the same to due slots of other jobs.
- `ops.ts:120` says "One-shot jobs are not retried after interruption". Only the
  catch-up leaves them out: the first tick runs them again.
- A one-shot whose catch-up was put off, and that is run by hand meanwhile and enabled
  again, is scheduled anew (`Settle`): the exception in `OneShotsStayDone`.
- The write-back of a resolved Telegram target (`target-writeback.ts:191-214`) saves a
  copy of the store that may be old: a job that was disabled meanwhile is enabled again,
  a marker or an outcome is lost. The sections that save the memory undo what a
  write-back did, among them the end of the catch-up (`timer.ts:1079-1116`) and a request
  to change a job, while runs by hand and ticks read the file anew for the sake of
  edits from outside (`ops.ts:688-690`). `cron_service` without the line on `behind`
  in `OnlyRequestsEnable`, or without `InTouch` in `SlotsKept`.
- Disabling a job clears the marker of its execution, as does the age of a marker
  (`STUCK_RUN_MS`) under a long batch; a second execution may then overlap (`released`).

*Channel manager.*

- With a `stopAccount` hook (twitch, synology-chat) a stop may return from the hook
  after the task has ended and another run has begun, and then removes the entries of
  that run: it can no longer be found by a stop, and a second provider may start.
- The health monitor restarts through `stopChannel`, which marks the account as
  stopped by hand. If that stop times out, or the start after it fails before it
  clears the mark, the mark stays, and neither the automatic restarts nor the monitor
  bring the account back, although nobody stopped it ("Tracks accounts that were
  manually stopped so we don't auto-restart them", `server-channels.ts:190`).
  `BroughtBack` therefore has `manual` as a way out.
- An operator's stop is undone by a start that was already waiting for
  `isConfigured`, aborted as it is, and by the restart of the health monitor.
- A start asked for while a stop waits, or after it timed out, does nothing.
- The comment at `server-channels.ts:485`, "abort or startup failure — next crash
  will retry": there is no next crash, and only the health monitor retries.
- `markChannelLoggedOut`, and the late end of an aborted run, may leave
  `runtime.running` false while a provider works.

## Not modelled

Parts without concurrent state of their own (parsing, rendering, adapters to
services, the wizards), and those that wait in the plan below. Within the modelled
parts: wording and logging everywhere; `refreshQueuedFollowupSession`; the content of
heartbeats, cron jobs and replies; of the channel manager, plugins with a
`stopAccount` hook; of the session write lock, lock files without a start time and
errors of an open other than that the file exists; of the delivery queue, a live delivery
whose enqueue fails and which is then sent unqueued (`deliver.ts:512`), and the temporary
file that two writers of one entry share (`delivery-queue-storage.ts:82-87`): a write is
one step. What the cron service leaves out is listed in its section.

## Plan

Done: command queue, delivery queue with the outbox refinement, followup queue,
heartbeats, reply runs, cron service, channel manager, session write lock.

1. Exec approvals; keyed async queue with the ACP session actors; config reload;
   the subagent registry. One module each with its MC module; each replaces the run
   that tells least, so that the project stays quick to check.
2. Composition: a run of a session as a command in its session lane that
   enqueues into the global lane, with the restart that resets both
   (CommandQueue instantiated under both uses); reply runs with the followup
   queue, which so far models only that a session has one run.
3. Abstract specifications: a FIFO semaphore implemented by CommandQueue for one
   lane; the one-run-per-session lock implemented by ReplyRuns; a lock with robberies
   implemented by SessionWriteLock.
4. Proofs: all safety properties of the runs are proved. What is left are the
   refinements of item 3, and those of the components of item 1.
