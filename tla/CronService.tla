------------------------------ MODULE CronService ------------------------------
(***************************************************************************)
(* The scheduler of jobs, src/cron/service: one store of jobs in memory    *)
(* and on disk, a timer whose tick claims the jobs that are due, runs them *)
(* and writes their outcomes, the catch-up of missed jobs when the service *)
(* starts, runs asked for by hand, and the requests that change jobs.      *)
(*                                                                         *)
(* The service reads and writes the store in sections of locked.ts only: a *)
(* chain of promises, so sections run one at a time in the order in which  *)
(* they were queued, and each is one action here.  What happens between    *)
(* the sections of a tick, a catch-up or a manual run is not covered by    *)
(* the lock: jobs execute there, the clock advances, the process dies.     *)
(*                                                                         *)
(* Telegram's send is no part of the service: it reads the store's file,   *)
(* resolves a target in its copy and saves that, all outside the lock.     *)
(* What a section saved meanwhile is lost, and the file is no longer what  *)
(* the service has in memory.                                              *)
(*                                                                         *)
(* Time is counted in units; a job is due when its next time has come.     *)
(***************************************************************************)
EXTENDS Naturals, Sequences, FiniteSets

CONSTANTS Jobs,         \* ids, never used twice
          Initial,      \* the jobs on disk at first
          Every,        \* job -> period of a recurring job, 0 for a one-shot
          At,           \* job -> time of a one-shot
          Deletes,      \* one-shots with deleteAfterRun
          Requests,     \* requests clients make, each once: [kind, job]
          Backoff,      \* delay after an error
          MaxAttempts,  \* retries of a one-shot (transient errors)
          StuckAfter,   \* STUCK_RUN_MS
          Stagger,      \* missedJobStaggerMs
          MaxImmediate, \* maxMissedJobsPerRestart
          Concurrency,  \* maxConcurrentRuns
          Ends,         \* the outcomes executions have
          WritesBack,   \* targets are resolved and written back
          MaxTime, MaxEvents, \* bounds
          None

Outcomes == {"ok", "skipped", "error"}
Kinds == {"add", "enable", "disable", "remove", "list"}

ASSUME ConstantsAssumption ==
  /\ IsFiniteSet(Jobs) /\ Initial \subseteq Jobs /\ Deletes \subseteq Jobs
  /\ Every \in [Jobs -> Nat] /\ At \in [Jobs -> Nat]
  /\ Requests \subseteq [kind : Kinds, job : Jobs]
  /\ {Backoff, Stagger} \subseteq Nat \ {0}
  /\ {MaxAttempts, StuckAfter, MaxImmediate, MaxTime, MaxEvents} \subseteq Nat
  /\ Concurrency \in Nat \ {0} /\ Ends \subseteq Outcomes /\ WritesBack \in BOOLEAN
  /\ None \notin Nat /\ None \notin Jobs /\ None \notin Outcomes /\ None \notin Requests

\* createJob makes up the id of every job it adds.
ASSUME FreshIdsAssumption == \A q \in Requests : q.kind = "add" => q.job \notin Initial

VARIABLES
  now,      \* nowMs()
  disk,     \* the store on disk: job -> its record, or None
  mem,      \* state.store
  loaded,   \* state.store is not null
  behind,   \* jobs whose record a write-back changed on disk, and no section saved since
  copy,     \* the store as a write-back under way has read it, or None
  queue,    \* the chain of locked sections
  timer,    \* a timer is set
  tick,     \* where onTimer is
  attached, \* the jobs of the tick are the objects of state.store
  boot,     \* where start is
  skip,     \* interruptedOneShotIds
  deferred, \* deferredJobIds of the catch-up
  exec,     \* actor -> job -> the actor's execution of the job, or None
  manual,   \* the manual run under way
  request,  \* the request under way, or None
  todo,     \* requests still to come
  events,   \* manual runs, requests, failures, write-backs and crashes so far
  released  \* jobs whose marker was taken away from an execution under way

store == <<disk, mem, loaded, behind>>
ticking == <<timer, tick, attached>>
booting == <<boot, skip, deferred>>
asked == <<manual, request, todo>>
vars == <<now, store, copy, queue, ticking, booting, exec, asked, events, released>>

Actors == {"tick", "boot", "manual"}
Sections == {"claim", "apply", "clear", "plan", "settle", "arm",
             "preflight", "reserve", "finish", "request"}
Times == Nat \cup {None}

Records == [on : BOOLEAN, anchor : Nat, next : Times, running : Times, last : Times,
            status : Outcomes \cup {None}, errors : Nat]
Executions == [state : {"waiting", "running"} \cup Outcomes, from : Nat, to : Times]

\* None is none of the records either.
ASSUME NoneAssumption == None \notin Records /\ None \notin Executions

TypeOK ==
  /\ now \in Nat
  /\ disk \in [Jobs -> Records \cup {None}] /\ mem \in [Jobs -> Records \cup {None}]
  /\ copy \in [Jobs -> Records \cup {None}] \cup {None} /\ behind \subseteq Jobs
  /\ loaded \in BOOLEAN /\ timer \in BOOLEAN /\ attached \in BOOLEAN
  /\ queue \in Seq(Sections)
  /\ tick \in {"idle", "claim", "run", "apply", "done"}
  /\ boot \in {"clear", "plan", "run", "settle", "arm", "up"}
  /\ skip \subseteq Jobs /\ deferred \in Seq(Jobs)
  /\ exec \in [Actors -> [Jobs -> Executions \cup {None}]]
  /\ manual \in [at : {"idle", "preflight", "reserve", "run", "finish"},
                 job : Jobs \cup {None}, forced : BOOLEAN, since : Times]
  /\ request \in Requests \cup {None} /\ todo \subseteq Requests
  /\ events \in Nat
  /\ released \subseteq Jobs
--------------------------------------------------------------------------------
OneShot(j) == Every[j] = 0
Later(t, u) == IF t > u THEN t ELSE u

\* A recurring job is due a period after its last start or, when that has
\* passed, a whole number of periods after its creation; a one-shot at its
\* time, as long as it has not succeeded at or after it.
EveryNext(j, r, t) ==
  IF r.last # None /\ r.last + Every[j] > t THEN r.last + Every[j]
  ELSE r.anchor + Every[j] * Later(1, (t - r.anchor + Every[j] - 1) \div Every[j])

\* mutant: a one-shot is due at its time whether or not it has succeeded
MutComputeNext(j, r, t) ==
  IF ~r.on THEN None ELSE IF OneShot(j) THEN At[j] ELSE EveryNext(j, r, t)

ComputeNext(j, r, t) ==
  CASE ~r.on -> None
    [] r.on /\ ~OneShot(j) -> EveryNext(j, r, t)
    [] r.on /\ OneShot(j) ->
         IF r.status = "ok" /\ r.last # None /\ At[j] <= r.last THEN None ELSE At[j]

Past(r) == r.next # None /\ now >= r.next

\* recomputeJobNextRunAtMs: never before the backoff of the last error ends
Recomputed(j, r) ==
  LET next == ComputeNext(j, r, now) IN
  [r EXCEPT !.next = IF ~OneShot(j) /\ r.status = "error" /\ r.last # None /\ next # None
                     THEN Later(next, r.last + Backoff) ELSE next]

\* normalizeJobTickState
Stale(r) == r.running # None /\ now - r.running > StuckAfter

Normalized(r) ==
  IF ~r.on THEN [r EXCEPT !.next = None, !.running = None]
  ELSE IF Stale(r) THEN [r EXCEPT !.running = None] ELSE r

\* recomputeNextRuns and recomputeNextRunsForMaintenance, on one job
FullyRecomputed(j, r0) ==
  LET r == Normalized(r0) IN
  IF r.on /\ (r.next = None \/ Past(r)) THEN Recomputed(j, r) ELSE r

\* mutant: maintenance recomputes what is due (the bug of #13992 and #17852)
MutMaintained(j, r0, expired) == FullyRecomputed(j, r0)

Maintained(j, r0, expired) ==
  LET r == Normalized(r0) IN
  IF \/ r.on /\ r.next = None
     \/ /\ expired /\ r.on /\ Past(r) /\ r.running = None
        /\ r.last # None /\ r.last >= r.next
  THEN Recomputed(j, r) ELSE r

RecomputeAll(s) == [j \in Jobs |-> IF s[j] = None THEN None ELSE FullyRecomputed(j, s[j])]
MaintainAll(s, expired) ==
  [j \in Jobs |-> IF s[j] = None THEN None ELSE Maintained(j, s[j], expired)]

\* the jobs of s that lose their marker to either of the two
Loses(s) == {j \in Jobs : s[j] # None /\ s[j].running # None /\ Normalized(s[j]).running = None}

\* applyJobResult: the record after execution e, None when the job is to be
\* deleted.  A run forced by hand keeps the phase of a recurring job.
Applied(j, r, e, forced) ==
  LET failed == e.state = "error"
      errors == IF failed THEN IF r.errors > MaxAttempts THEN r.errors ELSE r.errors + 1 ELSE 0
      done   == [r EXCEPT !.running = None, !.last = e.from, !.status = e.state, !.errors = errors]
      normal == ComputeNext(j, IF forced THEN [done EXCEPT !.last = r.last] ELSE done, e.to)
      off    == [done EXCEPT !.on = FALSE, !.next = None]
  IN CASE OneShot(j) /\ e.state = "ok" /\ j \in Deletes -> None
       [] OneShot(j) /\ ~failed /\ ~(e.state = "ok" /\ j \in Deletes) -> off
       [] OneShot(j) /\ failed ->
            IF errors <= MaxAttempts THEN [done EXCEPT !.next = e.to + Backoff] ELSE off
       [] ~OneShot(j) /\ ~r.on -> [done EXCEPT !.next = None]
       [] ~OneShot(j) /\ r.on ->
            [done EXCEPT !.next = IF failed THEN Later(normal, e.to + Backoff) ELSE normal]

\* applyOutcomeToStoredJob, for every job actor a has executed
ApplyAll(s, a) ==
  [j \in Jobs |-> IF s[j] = None \/ exec[a][j] = None THEN s[j]
                  ELSE Applied(j, s[j], exec[a][j], FALSE)]
--------------------------------------------------------------------------------
\* locked.ts: a section runs when those queued before it have run.
Runs(section) == queue # <<>> /\ Head(queue) = section
Then(sections) == queue' = Tail(queue) \o sections

\* ensureLoaded without forceReload
Loaded == IF loaded THEN mem ELSE disk

\* mutant: a store that is in memory is not read anew
MutAnew == Loaded

\* ensureLoaded with forceReload
Anew == disk

InMemory(s) == mem' = s /\ loaded' = TRUE
Unsaved == UNCHANGED <<disk, behind>>
Saved(s) == InMemory(s) /\ disk' = s /\ behind' = {}
SavedIf(changed, s) == IF changed THEN Saved(s) ELSE InMemory(s) /\ Unsaved

\* armTimer: for the next time of an enabled job, or to look again in a while
Armed(s) == \E j \in Jobs : s[j] # None /\ s[j].on

Executed(a) == {j \in Jobs : exec[a][j] # None}
Idle(a) == [j \in Jobs |-> None]
Claimed(js) == [j \in Jobs |-> IF j \in js THEN [state |-> "waiting", from |-> now, to |-> None]
                               ELSE None]
Marked(s, js) == [j \in Jobs |-> IF j \in js THEN [s[j] EXCEPT !.running = now] ELSE s[j]]

Happens == events < MaxEvents /\ events' = events + 1

\* Executions whose job loses its marker before they end; they are forgotten
\* when nobody executes the job any more.
Release(js) == released' = released \cup {j \in js : \E a \in Actors : exec[a][j] # None}
Forget(a, js) ==
  released' = {j \in released \cup js : \E b \in Actors \ {a} : exec[b][j] # None}

New(j, t) == [on |-> TRUE, anchor |-> t, next |-> IF OneShot(j) THEN At[j] ELSE t + Every[j],
           running |-> None, last |-> None, status |-> None, errors |-> 0]

Nobody == [at |-> "idle", job |-> None, forced |-> FALSE, since |-> None]

\* The store is that of an earlier process, which created the jobs at time 0
\* and may have died while it ran some of them.
Init ==
  /\ now = 1
  /\ \E running \in SUBSET Initial :
       disk = [j \in Jobs |-> IF j \notin Initial THEN None
                              ELSE [New(j, 0) EXCEPT !.running = IF j \in running THEN 0 ELSE None]]
  /\ mem = [j \in Jobs |-> None] /\ loaded = FALSE /\ behind = {} /\ copy = None
  /\ queue = <<"clear">> /\ boot = "clear" /\ skip = {} /\ deferred = <<>>
  /\ timer = FALSE /\ tick = "idle" /\ attached = FALSE
  /\ exec = [a \in Actors |-> Idle(a)]
  /\ manual = Nobody /\ request = None /\ todo = Requests
  /\ events = 0 /\ released = {}

--------------------------------------------------------------------------------
Due(s, j) == s[j] # None /\ s[j].on /\ s[j].running = None /\ Past(s[j])

\* onTimer: a tick at a time, the timer stays armed meanwhile
TimerFires ==
  /\ timer /\ tick = "idle"
  /\ tick' = "claim" /\ queue' = Append(queue, "claim")
  /\ UNCHANGED <<now, copy, store, timer, attached, booting, exec, asked, events, released>>

\* The first section of a tick: read the store anew, mark what is due.
Claim ==
  /\ Runs("claim")
  /\ LET due == {j \in Jobs : Due(Anew, j)} IN
     \/ /\ due = {}
        /\ Saved(MaintainAll(Anew, TRUE)) /\ Release(Loses(Anew))
        /\ tick' = "done"
        /\ UNCHANGED <<exec, attached>>
     \/ /\ due # {}
        /\ Saved(Marked(Anew, due))
        /\ exec' = [exec EXCEPT !["tick"] = Claimed(due)]
        /\ tick' = "run" /\ attached' = TRUE
        /\ UNCHANGED released
  /\ Then(<<>>)
  /\ UNCHANGED <<now, copy, timer, booting, asked, events>>

\* runDueJob sets the marker in the object it was given, which is that of the
\* store in memory unless the store was read anew since.
StartDueJob(j) ==
  /\ exec["tick"][j] # None /\ exec["tick"][j].state = "waiting"
  /\ Cardinality({k \in Executed("tick") : exec["tick"][k].state = "running"}) < Concurrency
  /\ exec' = [exec EXCEPT !["tick"][j] = [state |-> "running", from |-> now, to |-> None]]
  /\ mem' = IF attached /\ mem[j] # None THEN Marked(mem, {j}) ELSE mem
  /\ UNCHANGED <<now, copy, disk, loaded, behind, queue, ticking, booting, asked, events, released>>

\* The last execution of a batch queues the section that writes the outcomes.
EndsBatch(a, j) == \A k \in Executed(a) \ {j} : exec[a][k].state \in Outcomes

EndJob(a, j, outcome) ==
  /\ exec[a][j] # None /\ exec[a][j].state = "running"
  /\ IF outcome = "ok" THEN UNCHANGED events ELSE Happens
  /\ exec' = [exec EXCEPT ![a][j] =
                [state |-> outcome, from |-> exec[a][j].from, to |-> now]]
  /\ IF ~EndsBatch(a, j) THEN UNCHANGED <<queue, tick, boot, manual>>
     ELSE CASE a = "tick" -> /\ tick' = "apply" /\ queue' = Append(queue, "apply")
                             /\ UNCHANGED <<boot, manual>>
            [] a = "boot" -> /\ boot' = "settle" /\ queue' = Append(queue, "settle")
                             /\ UNCHANGED <<tick, manual>>
            [] a = "manual" -> /\ manual' = [manual EXCEPT !.at = "finish"]
                               /\ queue' = Append(queue, "finish")
                               /\ UNCHANGED <<tick, boot>>
  /\ UNCHANGED <<now, copy, store, timer, attached, skip, deferred, request, todo, released>>

\* The second section of a tick: read the store anew, write the outcomes.
ApplyOutcomes ==
  /\ Runs("apply")
  /\ LET s == ApplyAll(Anew, "tick") IN Saved(MaintainAll(s, FALSE)) /\ Forget("tick", Loses(s))
  /\ exec' = [exec EXCEPT !["tick"] = Idle("tick")]
  /\ tick' = "done" /\ Then(<<>>)
  /\ UNCHANGED <<now, copy, timer, attached, booting, asked, events>>

\* mutant: the timer is not set again (the bug of #12025)
MutEndTick ==
  /\ tick = "done"
  /\ tick' = "idle" /\ timer' = FALSE
  /\ UNCHANGED <<now, copy, store, queue, attached, booting, exec, asked, events, released>>

\* The finally of onTimer, after the sessions were reaped
EndTick ==
  /\ tick = "done"
  /\ tick' = "idle" /\ timer' = Armed(mem)
  /\ UNCHANGED <<now, copy, store, queue, attached, booting, exec, asked, events, released>>
--------------------------------------------------------------------------------
\* start: markers of runs that died with the process are removed; the
\* one-shots among their jobs are not caught up.
ClearMarkers ==
  /\ Runs("clear")
  /\ LET marked == {j \in Jobs : Loaded[j] # None /\ Loaded[j].running # None} IN
     /\ SavedIf(marked # {}, [j \in Jobs |-> IF j \in marked
                                THEN [Loaded[j] EXCEPT !.running = None] ELSE Loaded[j]])
     /\ skip' = {j \in marked : OneShot(j)}
  /\ boot' = "plan" /\ Then(<<"plan">>)
  /\ UNCHANGED <<now, copy, ticking, deferred, exec, asked, events, released>>

\* isRunnableJob with skipAtIfAlreadyRan: of one-shots that have run only the
\* retry of a failed one is caught up.
Missed(s, j) ==
  /\ Due(s, j) /\ j \notin skip
  /\ OneShot(j) /\ s[j].status # None =>
       s[j].status = "error" /\ s[j].last # None /\ s[j].next > s[j].last

\* planStartupCatchup: the earliest are run at once, the others put off.
Plan ==
  /\ Runs("plan")
  /\ LET missed == {j \in Jobs : Missed(Loaded, j)} IN
     \/ /\ missed = {}
        /\ InMemory(Loaded)
        /\ boot' = "arm" /\ Then(<<"arm">>)
        /\ Unsaved /\ UNCHANGED <<deferred, exec>>
     \/ /\ missed # {}
        /\ \E order \in [1..Cardinality(missed) -> missed] :
             /\ \A i, k \in DOMAIN order : i < k =>
                  order[i] # order[k] /\ Loaded[order[i]].next <= Loaded[order[k]].next
             /\ LET first == {order[i] : i \in {k \in DOMAIN order : k <= MaxImmediate}} IN
                /\ Saved(Marked(Loaded, first))
                /\ exec' = [exec EXCEPT !["boot"] = Claimed(first)]
                /\ deferred' = SubSeq(order, MaxImmediate + 1, Cardinality(missed))
                /\ IF first = {} THEN boot' = "settle" /\ Then(<<"settle">>)
                   ELSE boot' = "run" /\ Then(<<>>)
  /\ UNCHANGED <<now, copy, ticking, skip, asked, events, released>>

StartMissedJob(j) ==
  /\ exec["boot"][j] # None /\ exec["boot"][j].state = "waiting"
  /\ \A k \in Executed("boot") : exec["boot"][k].state # "running"
  /\ exec' = [exec EXCEPT !["boot"][j] = [state |-> "running", from |-> now, to |-> None]]
  /\ UNCHANGED <<now, copy, store, queue, ticking, booting, asked, events, released>>

\* applyStartupCatchupOutcomes: those put off that are still there and enabled
\* come one after the other, a Stagger apart.
Present(s) == {i \in DOMAIN deferred : s[deferred[i]] # None /\ s[deferred[i]].on}
Turn(s, i) == Cardinality({k \in Present(s) : k <= i})
Postponed(s) ==
  [j \in Jobs |->
     IF \E i \in Present(s) : deferred[i] = j
     THEN [s[j] EXCEPT !.next =
             now + Stagger * Turn(s, CHOOSE i \in Present(s) : deferred[i] = j)]
     ELSE s[j]]

Settle ==
  /\ Runs("settle")
  /\ LET s == Postponed(ApplyAll(Loaded, "boot")) IN
     Saved(MaintainAll(s, FALSE)) /\ Forget("boot", Loses(s))
  /\ exec' = [exec EXCEPT !["boot"] = Idle("boot")]
  /\ boot' = "arm" /\ deferred' = <<>> /\ Then(<<"arm">>)
  /\ UNCHANGED <<now, copy, ticking, skip, asked, events>>

\* The last section of start
Arm ==
  /\ Runs("arm")
  /\ SavedIf(RecomputeAll(Loaded) # Loaded, RecomputeAll(Loaded))
  /\ Release(Loses(Loaded))
  /\ timer' = Armed(mem')
  /\ boot' = "up" /\ Then(<<>>)
  /\ UNCHANGED <<now, copy, tick, attached, skip, deferred, exec, asked, events>>
--------------------------------------------------------------------------------
\* run: look, reserve, execute, write the outcome
CallRun(j, forced) ==
  /\ manual.at = "idle" /\ Happens
  /\ manual' = [at |-> "preflight", job |-> j, forced |-> forced, since |-> None]
  /\ queue' = Append(queue, "preflight")
  /\ UNCHANGED <<now, copy, store, ticking, booting, exec, request, todo, released>>

\* inspectManualRunPreflight: the repairs it makes stay in memory.
Runnable(s, j, forced) ==
  s[j] # None /\ s[j].running = None /\ (forced \/ Due(s, j))

Preflight ==
  /\ Runs("preflight")
  /\ InMemory(MaintainAll(Loaded, FALSE)) /\ Unsaved /\ Release(Loses(Loaded))
  /\ IF Runnable(mem', manual.job, manual.forced)
     THEN /\ manual' = [manual EXCEPT !.at = "reserve", !.since = now]
          /\ Then(<<"reserve">>)
     ELSE manual' = Nobody /\ Then(<<>>)
  /\ UNCHANGED <<now, copy, ticking, booting, exec, request, todo, events>>

\* mutant: the marker is not persisted before the job executes
MutReserve ==
  LET j == manual.job IN
  /\ Runs("reserve") /\ Then(<<>>)
  /\ IF mem[j] # None /\ mem[j].running = None
     THEN /\ InMemory([mem EXCEPT ![j].running = manual.since])
          /\ exec' = [exec EXCEPT !["manual"][j] =
                        [state |-> "running", from |-> manual.since, to |-> None]]
          /\ manual' = [manual EXCEPT !.at = "run"]
     ELSE manual' = Nobody /\ UNCHANGED <<mem, loaded, exec>>
  /\ Unsaved /\ UNCHANGED <<now, copy, ticking, booting, request, todo, events, released>>

\* The second section of prepareManualRun looks again, but only at the marker.
Reserve ==
  LET j == manual.job IN
  /\ Runs("reserve") /\ Then(<<>>)
  /\ IF mem[j] # None /\ mem[j].running = None
     THEN /\ Saved([mem EXCEPT ![j].running = manual.since])
          /\ exec' = [exec EXCEPT !["manual"][j] =
                        [state |-> "running", from |-> manual.since, to |-> None]]
          /\ manual' = [manual EXCEPT !.at = "run"]
     ELSE manual' = Nobody /\ UNCHANGED <<store, exec>>
  /\ UNCHANGED <<now, copy, ticking, booting, request, todo, events, released>>

\* finishPreparedManualRun: the outcome goes to the store in memory, the store
\* is read anew and the job's state written over what was read.
Merged(r, applied) ==
  IF applied = None \/ r = None THEN None ELSE applied

Finish ==
  LET j == manual.job
      e == exec["manual"][j]
  IN
  /\ Runs("finish") /\ Then(<<>>)
  /\ IF Loaded[j] = None
     THEN InMemory(Loaded) /\ Unsaved /\ Forget("manual", {}) /\ UNCHANGED <<timer, attached>>
     ELSE LET merged == [Anew EXCEPT ![j] =
                          Merged(Anew[j], Applied(j, Loaded[j], e, manual.forced))]
          IN /\ Saved(MaintainAll(merged, TRUE))
             /\ Forget("manual", Loses(merged))
             /\ timer' = Armed(mem') /\ attached' = FALSE
  /\ exec' = [exec EXCEPT !["manual"] = Idle("manual")]
  /\ manual' = Nobody
  /\ UNCHANGED <<now, copy, tick, booting, request, todo, events>>
--------------------------------------------------------------------------------
Ask(q) ==
  /\ request = None /\ q \in todo /\ Happens
  /\ request' = q /\ todo' = todo \ {q}
  /\ queue' = Append(queue, "request")
  /\ UNCHANGED <<now, copy, store, ticking, booting, exec, manual, released>>

\* ensureLoaded without skipRecompute
LoadedAnew == IF loaded THEN mem ELSE RecomputeAll(disk)

Add(j) ==
  LET s == IF LoadedAnew[j] = None THEN [LoadedAnew EXCEPT ![j] = New(j, now)] ELSE LoadedAnew
  IN /\ Saved(RecomputeAll(s)) /\ Release(Loses(s))
     /\ timer' = Armed(mem')

\* update with a patch of enabled
Enabled(j, r, on) ==
  IF on THEN [r EXCEPT !.on = TRUE, !.next = ComputeNext(j, [r EXCEPT !.on = TRUE], now)]
  ELSE [r EXCEPT !.on = FALSE, !.next = None, !.running = None]

Update(j, on) ==
  IF Loaded[j] = None
  THEN InMemory(Loaded) /\ Unsaved /\ UNCHANGED <<timer, released>>
  ELSE /\ Saved([Loaded EXCEPT ![j] = Enabled(j, Loaded[j], on)])
       /\ timer' = Armed(mem')
       /\ IF on THEN UNCHANGED released ELSE Release({j})

Remove(j) ==
  /\ Saved([LoadedAnew EXCEPT ![j] = None])
  /\ timer' = Armed(mem') /\ UNCHANGED released

\* ensureLoadedForRead
List ==
  /\ SavedIf(MaintainAll(Loaded, FALSE) # Loaded, MaintainAll(Loaded, FALSE))
  /\ Release(Loses(Loaded)) /\ UNCHANGED timer

Serve ==
  /\ Runs("request") /\ Then(<<>>)
  /\ \/ request.kind = "add" /\ Add(request.job)
     \/ request.kind = "enable" /\ Update(request.job, TRUE)
     \/ request.kind = "disable" /\ Update(request.job, FALSE)
     \/ request.kind = "remove" /\ Remove(request.job)
     \/ request.kind = "list" /\ List
  /\ request' = None
  /\ UNCHANGED <<now, copy, tick, attached, booting, exec, manual, todo, events>>
--------------------------------------------------------------------------------
\* maybePersistResolvedTelegramTarget: a send that was given a name reads the
\* store, and later saves its copy with the target in it (which is content, and
\* left out).  One that has nothing to save is followed by another read.
WriteBackReads ==
  /\ WritesBack /\ Happens
  /\ copy' = disk
  /\ UNCHANGED <<now, store, queue, ticking, booting, exec, asked, released>>

WriteBackSaves ==
  /\ copy # None
  /\ disk' = copy /\ copy' = None
  /\ behind' = behind \cup {j \in Jobs : copy[j] # disk[j]}
  /\ Release({j \in Jobs : copy[j] # None /\ copy[j].running = None})
  /\ UNCHANGED <<now, mem, loaded, queue, ticking, booting, exec, asked, events>>

\* A unit of time is long next to what a section takes.
AdvanceClock ==
  /\ queue = <<>> /\ now < MaxTime /\ now' = now + 1
  /\ UNCHANGED <<store, copy, queue, ticking, booting, exec, asked, events, released>>

\* The process dies and is started anew: only the disk is left.
Crash ==
  /\ Happens
  /\ mem' = [j \in Jobs |-> None] /\ loaded' = FALSE /\ copy' = None
  /\ queue' = <<"clear">> /\ boot' = "clear" /\ skip' = {} /\ deferred' = <<>>
  /\ timer' = FALSE /\ tick' = "idle" /\ attached' = FALSE
  /\ exec' = [a \in Actors |-> Idle(a)]
  /\ manual' = Nobody /\ request' = None /\ released' = {}
  /\ UNCHANGED <<now, disk, behind, todo>>

Section ==
  \/ Claim \/ ApplyOutcomes
  \/ ClearMarkers \/ Plan \/ Settle \/ Arm
  \/ Preflight \/ Reserve \/ Finish
  \/ Serve

Next ==
  \/ TimerFires \/ EndTick
  \/ Section
  \/ \E j \in Jobs : StartDueJob(j) \/ StartMissedJob(j)
  \/ \E a \in Actors, j \in Jobs, outcome \in Ends : EndJob(a, j, outcome)
  \/ \E j \in Jobs, forced \in BOOLEAN : CallRun(j, forced)
  \/ \E q \in Requests : Ask(q)
  \/ WriteBackReads \/ WriteBackSaves
  \/ AdvanceClock
  \/ Crash

Spec == Init /\ [][Next]_vars

\* The process works on: the timer fires when the tick before is over, queued
\* sections run, and the executions of each actor come to an end (every job has
\* a timeout unless its configuration turns it off).
Work(a) ==
  \E j \in Jobs : \/ a = "tick" /\ StartDueJob(j)
                  \/ a = "boot" /\ StartMissedJob(j)
                  \/ EndJob(a, j, "ok")
Fairness ==
  /\ WF_vars(TimerFires \/ EndTick) /\ WF_vars(Section)
  /\ \A a \in Actors : WF_vars(Work(a))

FairSpec == Spec /\ Fairness
--------------------------------------------------------------------------------
\* The marker runningAtMs keeps two executions of a job apart, whoever starts
\* them, unless it was taken away from an execution under way: because the job
\* was disabled, had the marker for more than STUCK_RUN_MS, or was written back
\* as it was before it got the marker (prepareManualRun, collectRunnableJobs).
NoOverlap ==
  \A j \in Jobs :
    \/ j \in released
    \/ Cardinality({a \in Actors : exec[a][j] # None /\ exec[a][j].state = "running"}) <= 1

\* Write-backs leave the job's record on disk what the sections made it.
InTouch(j) == j \notin behind /\ j \notin behind'

\* The slot of a job that is due is not given away by a section that neither
\* runs the job nor is about it: the tick, a run of another job by hand, the
\* catch-up of other jobs, a list (recomputeNextRunsForMaintenance).  An add
\* and the end of start recompute all jobs and may.
Unclaimed(j) == disk[j] # None /\ disk[j].on /\ Past(disk[j]) /\ \A a \in Actors : exec[a][j] = None
SlotsKept ==
  [][\A j \in Jobs :
       /\ Unclaimed(j) /\ disk'[j] # None /\ InTouch(j)
       /\ \/ queue = <<>> \/ Head(queue) \notin {"arm", "request"}
          \/ Head(queue) = "request" /\ request.kind = "list"
       /\ \A i \in DOMAIN deferred : deferred[i] # j
       => disk'[j].next = disk[j].next]_vars

\* A one-shot that succeeded at its time is not scheduled again, even if it is
\* disabled and enabled, run by hand, or the service restarts
\* (computeJobNextRunAtMs), unless a catch-up had put it off before it was run
\* by hand: the section that writes the outcomes sets its time blindly.
Succeeded(j) ==
  OneShot(j) /\ disk[j] # None /\ disk[j].status = "ok" /\ disk[j].last >= At[j]
OneShotsStayDone ==
  [][\A j \in Jobs :
       /\ Succeeded(j) /\ disk[j].next = None /\ Succeeded(j)' /\ InTouch(j)
       /\ \A i \in DOMAIN deferred : deferred[i] # j
       => disk'[j].next = None]_vars

\* A job that is disabled on disk, or not there, gets enabled there by a request
\* for it, by the write-back of a copy in which it was enabled, or, when such a
\* write-back took from the disk what the memory has, by a section that saves
\* the memory.  The sections of a tick and the end of a run by hand read the
\* store anew and do not even then, but for the job that was run: what they
\* write never undoes an edit that the disk has
\* (onTimer, mergeManualRunSnapshotAfterReload).
On(s, j) == s[j] # None /\ s[j].on
Live(j) == On(disk, j)
OnlyRequestsEnable ==
  [][\A j \in Jobs : ~Live(j) /\ Live(j)' =>
       \/ Runs("request") /\ request.kind \in {"add", "enable"} /\ request.job = j
       \/ copy # None /\ On(copy, j) /\ copy' = None
       \/ /\ j \in behind /\ On(mem, j) /\ queue # <<>>
          /\ \/ Head(queue) \notin {"claim", "apply", "finish"}
             \/ Head(queue) = "finish" /\ manual.job = j]_vars

\* What is due is run, or is due no more: the timer is armed as long as
\* anything may become due, through crashes, busy ticks and manual runs.
DueJobsRun == \A j \in Jobs : (disk[j] # None /\ disk[j].on /\ Past(disk[j]))
                              ~> ~(disk[j] # None /\ disk[j].on /\ Past(disk[j]))
================================================================================
