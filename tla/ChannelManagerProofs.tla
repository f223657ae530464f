------------------------- MODULE ChannelManagerProofs -------------------------
(***************************************************************************)
(* Proofs about the channel manager, for any number of runs, operators and *)
(* restart attempts, of plugins without a stopAccount hook.                *)
(***************************************************************************)
EXTENDS ChannelManager, TLAPS

Begun(r) == run[r].at \in {"configuring", "bootstrapping"}
Tracked(r) == run[r].at \in {"provider", "cleanup", "sleep"}
Waits(c) == call[c].at = "wait"

\* The reservation is that of the one run that has begun and not handed over
\* its task, and a task is not tracked meanwhile.
Reserved ==
  /\ \A r \in Runs : Begun(r) => starting = r
  /\ starting # None => Begun(starting)
  /\ task # None => Tracked(task) /\ starting = None

\* What was not told to stop can be found by the next stop.
InReach ==
  \A r \in Runs : ~run[r].aborted =>
    /\ Begun(r) => abort = r
    /\ Tracked(r) => task = r /\ abort = r

\* A stop waits for the tracked task, which it has aborted, until that ends.
\* Stops that wait at the same time wait for the same.
Waiting ==
  /\ \A c \in Callers : Waits(c) /\ ~Settled(c) =>
       call[c].task = task /\ task # None /\ run[task].aborted
  /\ \A c, d \in Callers : Waits(c) /\ Waits(d) /\ ~Settled(c) => call[d].task = call[c].task

\* When a stop is about to remove the entries, whatever goes on was told to stop.
Quiet ==
  \A c \in Callers : Settled(c) => \A r \in Runs : Begun(r) \/ Tracked(r) => run[r].aborted

\* No run gets past the last check while the account is stopped by hand,
\* except those that the stop has aborted.
Past ==
  manual => \A r \in Runs : run[r].at \in {"bootstrapping", "provider"} => run[r].aborted

IInv == TypeOK /\ Reserved /\ InReach /\ Waiting /\ Quiet /\ Past

-----------------------------------------------------------------------------
(* What the steps of runs do to the records *)

\* A run that moves to another stage changes nothing else.
LEMMA Moves ==
  ASSUME TypeOK, NEW r \in Runs, NEW stage \in Stages, run' = [run EXCEPT ![r].at = stage]
  PROVE  /\ run' \in [Runs -> RunRecords]
         /\ run'[r].at = stage
         /\ run'[r].aborted = run[r].aborted
         /\ \A s \in Runs \ {r} : run'[s] = run[s]
<1>1. run[r] \in RunRecords
  BY DEF TypeOK
<1>2. /\ run[r].aborted \in BOOLEAN
      /\ run[r].auto \in BOOLEAN
      /\ run[r] = [at |-> run[r].at, aborted |-> run[r].aborted, auto |-> run[r].auto]
  BY <1>1 DEF RunRecords
<1>3. run'[r] = [run[r] EXCEPT !.at = stage]
  BY DEF TypeOK
<1>4. run'[r] = [at |-> stage, aborted |-> run[r].aborted, auto |-> run[r].auto]
  BY <1>2, <1>3
<1>5. run'[r] \in RunRecords
  BY <1>2, <1>4 DEF RunRecords
<1>6. \A s \in Runs \ {r} : run'[s] = run[s]
  BY DEF TypeOK
<1>7. run' \in [Runs -> RunRecords]
  BY <1>5, <1>6 DEF TypeOK
<1> QED
  BY <1>4, <1>6, <1>7

\* A run that is over is as good as new.
LEMMA Ends ==
  ASSUME TypeOK, NEW r \in Runs
  PROVE  /\ [run EXCEPT ![r] = Gone] \in [Runs -> RunRecords]
         /\ [run EXCEPT ![r] = Gone][r].at = "gone"
         /\ \A s \in Runs \ {r} : [run EXCEPT ![r] = Gone][s] = run[s]
  BY DEF TypeOK, Gone, RunRecords, Stages

\* A call that returns is idle, or about to start the account.
LEMMA Returns ==
  ASSUME TypeOK, NEW c \in Callers, call' = Returned(c)
  PROVE  /\ call' \in [Callers -> CallRecords]
         /\ call'[c].at \in {"idle", "start"}
         /\ \A d \in Callers \ {c} : call'[d] = call[d]
<1>1. call'[c] = [Idle EXCEPT !.at = IF call[c].again THEN "start" ELSE "idle"]
  BY DEF TypeOK, Returned
<1>2. call'[c] = [at |-> IF call[c].again THEN "start" ELSE "idle", task |-> None, again |-> FALSE]
  BY <1>1 DEF Idle
<1>3. call'[c] \in CallRecords /\ call'[c].at \in {"idle", "start"}
  BY <1>2 DEF CallRecords
<1>4. \A d \in Callers \ {c} : call'[d] = call[d]
  BY DEF TypeOK, Returned
<1>5. call' \in [Callers -> CallRecords]
  BY <1>3, <1>4 DEF TypeOK, Returned
<1> QED
  BY <1>3, <1>4, <1>5
-----------------------------------------------------------------------------
(* The steps of a run *)

\* A start that gives up leaves the invariant as it is.
LEMMA GivesUp ==
  ASSUME IInv, ConstantsAssumption, NEW r \in Runs, Begun(r), GiveUp(r),
         call' = call, manual' => manual
  PROVE  /\ run' \in [Runs -> RunRecords]
         /\ Reserved' /\ InReach' /\ Waiting' /\ Quiet' /\ Past'
<1>1. /\ run' \in [Runs -> RunRecords]
      /\ run'[r].at = "unwinding"
      /\ run'[r].aborted = run[r].aborted
      /\ \A s \in Runs \ {r} : run'[s] = run[s]
  BY Moves DEF IInv, GiveUp, Stages
<1>2. task' = task /\ abort' = abort /\ starting' = None
  BY DEF IInv, GiveUp, Reserved, Unless
<1>3. task = None
  BY DEF IInv, Reserved, TypeOK, ConstantsAssumption
<1>4. Reserved'
  BY <1>1, <1>2, <1>3 DEF IInv, Reserved, Begun, Tracked
<1>5. InReach'
  BY <1>1, <1>2 DEF IInv, InReach, Begun, Tracked
<1>6. \A c \in Callers : Settled(c)' = Settled(c)
  BY <1>1 DEF Settled, At, Begun
<1>7. Waiting'
  BY <1>2, <1>3, <1>6 DEF IInv, Waiting, Waits
<1>8. Quiet'
  BY <1>1, <1>6 DEF IInv, Quiet, Begun, Tracked
<1>9. Past'
  BY <1>1 DEF IInv, Past
<1> QED
  BY <1>1, <1>4, <1>5, <1>7, <1>8, <1>9

\* A start that goes on past the manual stop has ended it.
LEMMA ConfiguredKeeps ==
  ASSUME IInv, ConstantsAssumption, NEW r \in Runs, Configured(r)
  PROVE  IInv'
<1>1. /\ Begun(r) /\ call' = call /\ faults' = faults
      /\ manual' = (manual /\ run[r].auto)
  BY DEF Configured, At, Begun
<1>2. manual' \in BOOLEAN /\ (manual' => manual)
  BY <1>1 DEF IInv, TypeOK
<1>3. CASE GiveUp(r) /\ attempts' = attempts
  <2>1. /\ run' \in [Runs -> RunRecords]
        /\ Reserved' /\ InReach' /\ Waiting' /\ Quiet' /\ Past'
    BY <1>1, <1>2, <1>3, GivesUp
  <2>2. TypeOK'
    BY <1>1, <1>2, <1>3, <2>1 DEF IInv, TypeOK, GiveUp, Unless
  <2> QED
    BY <2>1, <2>2 DEF IInv
<1>4. CASE /\ ~run[r].aborted /\ ~manual'
           /\ attempts' = IF run[r].auto THEN attempts ELSE 0
           /\ run' = [run EXCEPT ![r].at = "bootstrapping"]
           /\ UNCHANGED <<store, up>>
  <2>1. /\ run' \in [Runs -> RunRecords]
        /\ run'[r].at = "bootstrapping"
        /\ run'[r].aborted = run[r].aborted
        /\ \A s \in Runs \ {r} : run'[s] = run[s]
    BY <1>4, Moves DEF IInv, Stages
  <2>2. task' = task /\ abort' = abort /\ starting' = starting /\ up' = up
    BY <1>4 DEF store
  <2>3. attempts' \in Nat
    BY <1>4 DEF IInv, TypeOK
  <2>4. TypeOK'
    BY <1>1, <1>2, <2>1, <2>2, <2>3 DEF IInv, TypeOK
  <2>5. \A s \in Runs : Begun(s)' = Begun(s) /\ Tracked(s)' = Tracked(s)
    BY <1>1, <2>1 DEF Begun, Tracked
  <2>6. Reserved'
    BY <2>2, <2>5 DEF IInv, Reserved, TypeOK, ConstantsAssumption
  <2>7. \A s \in Runs : run'[s].aborted = run[s].aborted
    BY <2>1
  <2>8. InReach'
    BY <2>2, <2>5, <2>7 DEF IInv, InReach
  <2>9. \A c \in Callers : Settled(c)' = Settled(c)
    BY <1>1, <2>1 DEF Settled, At, Begun
  <2>10. Waiting'
    BY <1>1, <2>2, <2>7, <2>9 DEF IInv, Waiting, Waits, TypeOK
  <2>11. Quiet'
    BY <2>5, <2>7, <2>9 DEF IInv, Quiet
  <2>12. Past'
    BY <1>4 DEF Past
  <2> QED
    BY <2>4, <2>6, <2>8, <2>10, <2>11, <2>12 DEF IInv
<1> QED
  BY <1>3, <1>4 DEF Configured

\* A start that throws is one that gives up.
LEMMA FailToStartKeeps ==
  ASSUME IInv, ConstantsAssumption, NEW r \in Runs, FailToStart(r)
  PROVE  IInv'
<1>1. /\ Begun(r) /\ GiveUp(r) /\ call' = call /\ manual' = manual
      /\ attempts' = attempts /\ faults' = faults + 1
  BY DEF FailToStart, Begun
<1>2. /\ run' \in [Runs -> RunRecords]
      /\ Reserved' /\ InReach' /\ Waiting' /\ Quiet' /\ Past'
  BY <1>1, GivesUp
<1>3. faults' \in Nat
  BY <1>1 DEF IInv, TypeOK
<1>4. TypeOK'
  BY <1>1, <1>2, <1>3 DEF IInv, TypeOK, GiveUp, Unless
<1> QED
  BY <1>2, <1>4 DEF IInv

\* The task is tracked by the run that had the reservation.
LEMMA BootstrappedKeeps ==
  ASSUME IInv, ConstantsAssumption, NEW r \in Runs, Bootstrapped(r)
  PROVE  IInv'
<1>1. /\ run' \in [Runs -> RunRecords]
      /\ run'[r].at = "provider"
      /\ run'[r].aborted = run[r].aborted
      /\ \A s \in Runs \ {r} : run'[s] = run[s]
  BY Moves DEF IInv, Bootstrapped, Stages
<1>2. run[r].at = "bootstrapping" /\ Begun(r)
  BY DEF Bootstrapped, At, Begun
<1>3. starting = r /\ task = None
  BY <1>2 DEF IInv, Reserved, TypeOK, ConstantsAssumption
<1>4. /\ task' = r /\ starting' = None /\ abort' = abort /\ up' = TRUE
      /\ manual' = manual /\ attempts' = attempts /\ call' = call /\ faults' = faults
  BY <1>3 DEF Bootstrapped, Unless
<1>5. TypeOK'
  BY <1>1, <1>4 DEF IInv, TypeOK
<1>6. Reserved'
  BY <1>1, <1>3, <1>4 DEF IInv, Reserved, Begun, Tracked
<1>7. \A s \in Runs : run'[s].aborted = run[s].aborted
  BY <1>1
<1>8. InReach'
  <2>1. \A s \in Runs \ {r} : ~Begun(s)' /\ (Tracked(s)' => Tracked(s))
    BY <1>1, <1>3 DEF IInv, Reserved, Begun, Tracked
  <2>2. ~Begun(r)'
    BY <1>1 DEF Begun
  <2>3. \A s \in Runs \ {r} : ~run[s].aborted => ~Tracked(s)
    BY <1>3 DEF IInv, InReach, TypeOK, ConstantsAssumption
  <2>4. ~run[r].aborted => abort = r
    BY <1>2 DEF IInv, InReach
  <2> QED
    BY <1>4, <1>7, <2>1, <2>2, <2>3, <2>4 DEF InReach
<1>9. \A c \in Callers : Settled(c)' = Settled(c)
  BY <1>1, <1>2, <1>4 DEF Settled, At
<1>10. Waiting'
  BY <1>3, <1>4, <1>9 DEF IInv, Waiting, Waits
<1>11. Quiet'
  BY <1>1, <1>2, <1>9 DEF IInv, Quiet, Begun, Tracked
<1>12. Past'
  BY <1>1, <1>2, <1>4 DEF IInv, Past
<1> QED
  BY <1>5, <1>6, <1>8, <1>10, <1>11, <1>12 DEF IInv

\* A start without a task takes its own controller away.
LEMMA UnwoundKeeps ==
  ASSUME IInv, ConstantsAssumption, NEW r \in Runs, Unwound(r)
  PROVE  IInv'
<1>1. /\ run' \in [Runs -> RunRecords]
      /\ run'[r].at = "gone"
      /\ \A s \in Runs \ {r} : run'[s] = run[s]
  BY Ends DEF IInv, Unwound
<1>2. run[r].at = "unwinding"
  BY DEF Unwound, At
<1>3. /\ task' = task /\ starting' = starting /\ abort' = Unless(abort, r)
      /\ manual' = manual /\ attempts' = attempts /\ up' = up /\ call' = call /\ faults' = faults
  BY DEF Unwound
<1>4. TypeOK'
  BY <1>1, <1>3 DEF IInv, TypeOK, Unless
<1>5. \A s \in Runs : Begun(s)' = Begun(s) /\ Tracked(s)' = Tracked(s)
  BY <1>1, <1>2 DEF Begun, Tracked
<1>6. task # r /\ starting # r
  BY <1>2 DEF IInv, Reserved, Begun, Tracked, TypeOK, ConstantsAssumption
<1>7. Reserved'
  BY <1>3, <1>5 DEF IInv, Reserved, TypeOK, ConstantsAssumption
<1>8. InReach'
  BY <1>1, <1>2, <1>3, <1>5 DEF IInv, InReach, Unless, Begun, Tracked
<1>9. \A c \in Callers : Settled(c)' = Settled(c)
  <2>1. \A c \in Callers : Waits(c) => call[c].task # r
    BY <1>2, <1>6 DEF IInv, Waiting, Waits, Settled, At, TypeOK
  <2> QED
    BY <1>1, <1>2, <1>3, <2>1 DEF Settled, At, Waits
<1>10. Waiting'
  <2>1. \A c \in Callers : Waits(c) /\ ~Settled(c) => run'[task] = run[task]
    BY <1>1, <1>6 DEF IInv, Waiting, TypeOK
  <2> QED
    BY <1>3, <1>9, <2>1 DEF IInv, Waiting, Waits
<1>11. Quiet'
  BY <1>1, <1>2, <1>5, <1>9 DEF IInv, Quiet, Begun, Tracked
<1>12. Past'
  BY <1>1, <1>2, <1>3 DEF IInv, Past
<1> QED
  BY <1>4, <1>7, <1>8, <1>10, <1>11, <1>12 DEF IInv

\* The task of a provider that has ended stays tracked.
LEMMA ProviderEndsKeeps ==
  ASSUME IInv, ConstantsAssumption, NEW r \in Runs, ProviderEnds(r)
  PROVE  IInv'
<1>1. /\ run' \in [Runs -> RunRecords]
      /\ run'[r].at = "cleanup"
      /\ run'[r].aborted = run[r].aborted
      /\ \A s \in Runs \ {r} : run'[s] = run[s]
  BY Moves DEF IInv, ProviderEnds, Stages
<1>2. run[r].at = "provider"
  BY DEF ProviderEnds, At
<1>3. /\ task' = task /\ starting' = starting /\ abort' = abort
      /\ manual' = manual /\ attempts' = attempts /\ up' = up /\ call' = call /\ faults' = faults
  BY DEF ProviderEnds, store
<1>4. TypeOK'
  BY <1>1, <1>3 DEF IInv, TypeOK
<1>5. \A s \in Runs : Begun(s)' = Begun(s) /\ Tracked(s)' = Tracked(s)
  BY <1>1, <1>2 DEF Begun, Tracked
<1>6. \A s \in Runs : run'[s].aborted = run[s].aborted
  BY <1>1
<1>7. Reserved'
  BY <1>3, <1>5 DEF IInv, Reserved, TypeOK, ConstantsAssumption
<1>8. InReach'
  BY <1>3, <1>5, <1>6 DEF IInv, InReach
<1>9. \A c \in Callers : Settled(c)' = Settled(c)
  BY <1>1, <1>2, <1>3 DEF Settled, At
<1>10. Waiting'
  BY <1>3, <1>6, <1>9 DEF IInv, Waiting, Waits, TypeOK
<1>11. Quiet'
  BY <1>5, <1>6, <1>9 DEF IInv, Quiet
<1>12. Past'
  BY <1>1, <1>2, <1>3 DEF IInv, Past
<1> QED
  BY <1>4, <1>7, <1>8, <1>10, <1>11, <1>12 DEF IInv

\* A task that leaves takes its own entries away; nothing else goes on then
\* that the stops waiting for it could miss.
LEMMA Leaves ==
  ASSUME IInv, ConstantsAssumption, NEW r \in Runs, Tracked(r), Leave(r),
         call' = call, manual' = manual
  PROVE  /\ run' \in [Runs -> RunRecords]
         /\ task' \in Runs \cup {None} /\ abort' \in Runs \cup {None} /\ starting' = starting
         /\ Reserved' /\ InReach' /\ Waiting' /\ Quiet' /\ Past'
<1>1. /\ run' \in [Runs -> RunRecords]
      /\ run'[r].at = "gone"
      /\ \A s \in Runs \ {r} : run'[s] = run[s]
  BY Ends DEF IInv, Leave
<1>2. task' = Unless(task, r) /\ abort' = Unless(abort, r) /\ starting' = starting
  BY DEF Leave
<1>3. task' \in Runs \cup {None} /\ abort' \in Runs \cup {None}
  BY <1>2 DEF IInv, TypeOK, Unless
<1>4. ~Begun(r) /\ starting # r
  BY DEF IInv, Reserved, Begun, Tracked, ConstantsAssumption
<1>5. ~Begun(r)' /\ ~Tracked(r)'
  BY <1>1 DEF Begun, Tracked
<1>6. \A s \in Runs \ {r} : Begun(s)' = Begun(s) /\ Tracked(s)' = Tracked(s)
  BY <1>1 DEF Begun, Tracked
<1>7. Reserved'
  <2>1. \A s \in Runs : Begun(s)' => starting' = s
    BY <1>2, <1>5, <1>6 DEF IInv, Reserved
  <2>2. starting # None => Begun(starting)'
    BY <1>2, <1>4, <1>6 DEF IInv, Reserved, TypeOK
  <2>3. task' # None => task' = task /\ task # r /\ task # None
    BY <1>2 DEF Unless
  <2>4. task' # None => Tracked(task)' /\ starting = None
    BY <1>6, <2>3 DEF IInv, Reserved, TypeOK
  <2> QED
    BY <1>2, <2>1, <2>2, <2>3, <2>4 DEF Reserved, Begun, Tracked
<1>8. InReach'
  BY <1>1, <1>2, <1>5, <1>6 DEF IInv, InReach, Unless
<1>9. \A c \in Callers : Settled(c)' <=> Settled(c) \/ (Waits(c) /\ call[c].task = r)
  BY <1>1 DEF Settled, At, Waits
<1>10. Waiting'
  <2>1. \A c \in Callers : Waits(c)' = Waits(c) /\ (Waits(c)' /\ ~Settled(c)' => Waits(c) /\ ~Settled(c) /\ call[c].task # r)
    BY <1>9 DEF Waits
  <2>2. ASSUME NEW c \in Callers, Waits(c)', ~Settled(c)'
        PROVE  call'[c].task = task' /\ task' # None /\ run'[task'].aborted
    <3>1. call[c].task = task /\ task # None /\ task # r /\ run[task].aborted
      BY <2>1, <2>2 DEF IInv, Waiting
    <3>2. task' = task /\ run'[task] = run[task]
      BY <1>1, <1>2, <3>1 DEF IInv, TypeOK, Unless
    <3> QED
      BY <3>1, <3>2
  <2>3. \A c, d \in Callers : Waits(c)' /\ Waits(d)' /\ ~Settled(c)' => call'[d].task = call'[c].task
    BY <2>1 DEF IInv, Waiting
  <2> QED
    BY <2>2, <2>3 DEF Waiting, Waits
<1>11. Quiet'
  <2> SUFFICES ASSUME NEW c \in Callers, Settled(c)', NEW s \in Runs, Begun(s)' \/ Tracked(s)'
               PROVE  run'[s].aborted
    BY DEF Quiet
  <2>1. s # r /\ run'[s] = run[s] /\ (Begun(s) \/ Tracked(s))
    BY <1>1, <1>5, <1>6
  <2>2. CASE Settled(c)
    BY <2>1, <2>2 DEF IInv, Quiet
  <2>3. CASE ~Settled(c)
    <3>1. task = r
      BY <1>9, <2>3 DEF IInv, Waiting
    <3>2. ~Begun(s)
      BY <3>1 DEF IInv, Reserved, ConstantsAssumption
    <3> QED
      BY <2>1, <3>1, <3>2 DEF IInv, InReach
  <2> QED
    BY <2>2, <2>3
<1>12. Past'
  BY <1>1 DEF IInv, Past
<1> QED
  BY <1>1, <1>2, <1>3, <1>7, <1>8, <1>10, <1>11, <1>12

\* After its exit an account waits out the backoff, or its task leaves.
LEMMA CleanedUpKeeps ==
  ASSUME IInv, ConstantsAssumption, NEW r \in Runs, CleanedUp(r)
  PROVE  IInv'
<1>1. /\ run[r].at = "cleanup" /\ Tracked(r)
      /\ up' = FALSE /\ manual' = manual /\ call' = call /\ faults' = faults
  BY DEF CleanedUp, At, Tracked
<1>2. attempts' \in Nat
  BY DEF CleanedUp, IInv, TypeOK
<1>3. CASE Leave(r)
  <2>1. /\ run' \in [Runs -> RunRecords]
        /\ task' \in Runs \cup {None} /\ abort' \in Runs \cup {None} /\ starting' = starting
        /\ Reserved' /\ InReach' /\ Waiting' /\ Quiet' /\ Past'
    BY <1>1, <1>3, Leaves
  <2>2. TypeOK'
    BY <1>1, <1>2, <2>1 DEF IInv, TypeOK
  <2> QED
    BY <2>1, <2>2 DEF IInv
<1>4. CASE run' = [run EXCEPT ![r].at = "sleep"] /\ UNCHANGED store
  <2>1. /\ run' \in [Runs -> RunRecords]
        /\ run'[r].at = "sleep"
        /\ run'[r].aborted = run[r].aborted
        /\ \A s \in Runs \ {r} : run'[s] = run[s]
    BY <1>4, Moves DEF IInv, Stages
  <2>2. task' = task /\ starting' = starting /\ abort' = abort
    BY <1>4 DEF store
  <2>3. TypeOK'
    BY <1>1, <1>2, <2>1, <2>2 DEF IInv, TypeOK
  <2>4. \A s \in Runs : Begun(s)' = Begun(s) /\ Tracked(s)' = Tracked(s)
    BY <1>1, <2>1 DEF Begun, Tracked
  <2>5. \A s \in Runs : run'[s].aborted = run[s].aborted
    BY <2>1
  <2>6. Reserved'
    BY <2>2, <2>4 DEF IInv, Reserved, TypeOK, ConstantsAssumption
  <2>7. InReach'
    BY <2>2, <2>4, <2>5 DEF IInv, InReach
  <2>8. \A c \in Callers : Settled(c)' = Settled(c)
    BY <1>1, <2>1 DEF Settled, At
  <2>9. Waiting'
    BY <1>1, <2>2, <2>5, <2>8 DEF IInv, Waiting, Waits, TypeOK
  <2>10. Quiet'
    BY <2>4, <2>5, <2>8 DEF IInv, Quiet
  <2>11. Past'
    BY <1>1, <2>1 DEF IInv, Past
  <2> QED
    BY <2>3, <2>6, <2>7, <2>9, <2>10, <2>11 DEF IInv
<1> QED
  BY <1>3, <1>4 DEF CleanedUp
-----------------------------------------------------------------------------
(* A new run *)

\* A run that begins while nothing else has begun, all that is tracked was told
\* to stop and no call waits keeps the invariant.  rs are the runs until then.
LEMMA Reserves ==
  ASSUME ConstantsAssumption, NEW r \in Runs, NEW auto \in BOOLEAN,
         NEW rs \in [Runs -> RunRecords],
         run' = [rs EXCEPT ![r] = [at |-> "configuring", aborted |-> FALSE, auto |-> auto]],
         task' = None, abort' = r, starting' = r,
         \A s \in Runs : rs[s].at \notin {"configuring", "bootstrapping"},
         \A s \in Runs : rs[s].at \in {"provider", "cleanup", "sleep"} => rs[s].aborted,
         \A c \in Callers : call'[c].at # "wait"
  PROVE  /\ run' \in [Runs -> RunRecords]
         /\ Reserved' /\ InReach' /\ Waiting' /\ Quiet' /\ Past'
<1> DEFINE new == [at |-> "configuring", aborted |-> FALSE, auto |-> auto]
<1>1. new \in RunRecords /\ new.at = "configuring" /\ ~new.aborted
  BY DEF RunRecords, Stages
<1>2. run'[r] = new /\ (\A s \in Runs \ {r} : run'[s] = rs[s])
  OBVIOUS
<1>3. run' \in [Runs -> RunRecords]
  BY <1>1
<1> HIDE DEF new
<1>4. \A s \in Runs : (Begun(s)' <=> s = r) /\ (Tracked(s)' => run'[s].aborted)
  BY <1>1, <1>2 DEF Begun, Tracked
<1>5. Reserved'
  BY <1>4 DEF Reserved, Begun
<1>6. InReach'
  BY <1>4 DEF InReach
<1>7. \A c \in Callers : ~Waits(c)' /\ ~Settled(c)'
  BY DEF Waits, Settled
<1>8. Waiting'
  BY <1>7 DEF Waiting
<1>9. Quiet'
  BY <1>7 DEF Quiet
<1>10. Past'
  BY <1>1, <1>2 DEF Past
<1> QED
  BY <1>3, <1>5, <1>6, <1>8, <1>9, <1>10

\* While nothing is tracked, no stop waits between the calls.
LEMMA NoneWaits ==
  ASSUME IInv, Calm, task = None \/ ~run[task].aborted
  PROVE  \A c \in Callers : call[c].at # "wait"
  BY DEF IInv, Calm, Waiting, Waits

\* Steps of callers that only leave their waits keep all but the types.
LEMMA CallsReturn ==
  ASSUME IInv, UNCHANGED <<store, run, manual>>,
         \A c \in Callers : call'[c].at = "wait" => call'[c] = call[c]
  PROVE  Reserved' /\ InReach' /\ Waiting' /\ Quiet' /\ Past'
<1>1. task' = task /\ abort' = abort /\ starting' = starting /\ run' = run /\ manual' = manual
  BY DEF store
<1>2. Reserved' /\ InReach' /\ Past'
  BY <1>1 DEF IInv, Reserved, InReach, Past, Begun, Tracked
<1>3. ASSUME NEW c \in Callers, Waits(c)'
      PROVE  call'[c] = call[c] /\ Waits(c) /\ Settled(c)' = Settled(c)
  <2>1. call'[c] = call[c] /\ Waits(c)
    BY <1>3 DEF Waits
  <2> QED
    BY <1>1, <2>1 DEF Settled, At
<1>4. Waiting'
  <2>1. \A c \in Callers : Waits(c)' /\ ~Settled(c)' => Waits(c) /\ ~Settled(c) /\ call'[c] = call[c]
    BY <1>3
  <2>2. \A c \in Callers : Waits(c)' => Waits(c) /\ call'[c] = call[c]
    BY <1>3
  <2>3. \A c \in Callers : Waits(c)' /\ ~Settled(c)' =>
           call'[c].task = task' /\ task' # None /\ run'[task'].aborted
    BY <1>1, <2>1 DEF IInv, Waiting
  <2>4. \A c, d \in Callers : Waits(c)' /\ Waits(d)' /\ ~Settled(c)' => call'[d].task = call'[c].task
    BY <2>1, <2>2 DEF IInv, Waiting
  <2> QED
    BY <2>3, <2>4 DEF Waiting
<1>5. Quiet'
  <2>1. \A c \in Callers : Settled(c)' => Settled(c)
    BY <1>3 DEF Settled, Waits
  <2> QED
    BY <1>1, <2>1 DEF IInv, Quiet, Begun, Tracked
<1> QED
  BY <1>2, <1>4, <1>5

\* A start that was asked for, between the calls: of an operator, of the
\* health monitor, or after a stop.
LEMMA Starts ==
  ASSUME IInv, ConstantsAssumption, Calm, Begin(task, abort, run, FALSE), manual' = manual,
         \A c \in Callers : call'[c] = call[c] \/ call'[c].at = "idle"
  PROVE  /\ run' \in [Runs -> RunRecords]
         /\ task' \in Runs \cup {None} /\ abort' \in Runs \cup {None}
         /\ starting' \in Runs \cup {None}
         /\ Reserved' /\ InReach' /\ Waiting' /\ Quiet' /\ Past'
<1>1. \A c \in Callers : call'[c].at = "wait" => call'[c] = call[c]
  BY DEF IInv, Waiting
<1>2. task' = task
  BY DEF Begin
<1>3. CASE abort' = abort /\ run' = run /\ starting' = starting
  <2>1. Reserved' /\ InReach' /\ Waiting' /\ Quiet' /\ Past'
    BY <1>1, <1>2, <1>3, CallsReturn DEF store
  <2> QED
    BY <1>2, <1>3, <2>1 DEF IInv, TypeOK
<1>4. ASSUME task = None, starting = None, NEW r \in Runs, abort' = r, starting' = r,
             run' = [run EXCEPT ![r] = [at |-> "configuring", aborted |-> FALSE, auto |-> FALSE]]
      PROVE  /\ run' \in [Runs -> RunRecords]
             /\ Reserved' /\ InReach' /\ Waiting' /\ Quiet' /\ Past'
  <2>1. \A c \in Callers : call'[c].at # "wait"
    BY <1>4, NoneWaits
  <2>2. \A s \in Runs : run[s].at \notin {"configuring", "bootstrapping"}
    BY <1>4 DEF IInv, Reserved, Begun, ConstantsAssumption
  <2>3. \A s \in Runs : run[s].at \in {"provider", "cleanup", "sleep"} => run[s].aborted
    BY <1>4 DEF IInv, InReach, Tracked, ConstantsAssumption
  <2>4. run \in [Runs -> RunRecords] /\ task' = None
    BY <1>2, <1>4 DEF IInv, TypeOK
  <2> QED
    BY <1>4, <2>1, <2>2, <2>3, <2>4, Reserves
<1>5. CASE task = None /\ starting = None /\ ~(abort' = abort /\ run' = run /\ starting' = starting)
  <2>1. PICK r \in Runs :
          /\ abort' = r /\ starting' = r
          /\ run' = [run EXCEPT ![r] = [at |-> "configuring", aborted |-> FALSE, auto |-> FALSE]]
    BY <1>5 DEF Begin
  <2> QED
    BY <1>2, <1>4, <1>5, <2>1
<1> QED
  BY <1>3, <1>5 DEF Begin

\* After its backoff a run leaves, for good or for a run that follows it.
LEMMA WakeUpKeeps ==
  ASSUME IInv, ConstantsAssumption, NEW r \in Runs, WakeUp(r)
  PROVE  IInv'
<1> DEFINE rs == [run EXCEPT ![r] = Gone]
           Goal == /\ run' \in [Runs -> RunRecords]
                   /\ task' \in Runs \cup {None} /\ abort' \in Runs \cup {None}
                   /\ starting' \in Runs \cup {None}
                   /\ Reserved' /\ InReach' /\ Waiting' /\ Quiet' /\ Past'
<1>1. /\ Tracked(r) /\ manual' = manual /\ attempts' = attempts /\ up' = up
      /\ call' = call /\ faults' = faults
  BY DEF WakeUp, At, Tracked
<1>2. rs \in [Runs -> RunRecords] /\ rs[r].at = "gone" /\ (\A s \in Runs \ {r} : rs[s] = run[s])
  BY Ends DEF IInv
<1>3. ASSUME Leave(r) PROVE Goal
  BY <1>1, <1>3, Leaves DEF IInv, TypeOK
<1>4. ASSUME ~run[r].aborted, Calm, NEW s \in Runs, task' = None, abort' = s, starting' = s,
             run' = [rs EXCEPT ![s] = [at |-> "configuring", aborted |-> FALSE, auto |-> TRUE]]
      PROVE  Goal
  <2> HIDE DEF rs
  <2>1. task = r /\ starting = None
    BY <1>1, <1>4 DEF IInv, InReach, Reserved, ConstantsAssumption
  <2>2. \A c \in Callers : call'[c].at # "wait"
    BY <1>1, <1>4, <2>1, NoneWaits
  <2>3. \A q \in Runs : rs[q].at \notin {"configuring", "bootstrapping"}
    BY <1>2, <2>1 DEF IInv, Reserved, Begun, ConstantsAssumption
  <2>4. \A q \in Runs : rs[q].at \in {"provider", "cleanup", "sleep"} => rs[q].aborted
    BY <1>2, <2>1 DEF IInv, InReach, Tracked
  <2>5. /\ run' \in [Runs -> RunRecords]
        /\ Reserved' /\ InReach' /\ Waiting' /\ Quiet' /\ Past'
    BY <1>2, <1>4, <2>2, <2>3, <2>4, Reserves
  <2> QED
    BY <1>4, <2>5
<1>5. Goal
  <2>1. CASE Leave(r)
    BY <1>3, <2>1
  <2>2. CASE ~run[r].aborted /\ Calm /\ Begin(Unless(task, r), Unless(abort, r), rs, TRUE)
    <3>1. CASE abort' = Unless(abort, r) /\ run' = rs /\ starting' = starting
      <4>1. Leave(r)
        BY <2>2, <3>1 DEF Begin, Leave
      <4> QED
        BY <1>3, <4>1
    <3>2. CASE ~(abort' = Unless(abort, r) /\ run' = rs /\ starting' = starting)
      <4>1. task' = None
        BY <2>2, <3>2 DEF Begin
      <4>2. PICK s \in Runs :
              /\ abort' = s /\ starting' = s
              /\ run' = [rs EXCEPT ![s] = [at |-> "configuring", aborted |-> FALSE, auto |-> TRUE]]
        BY <2>2, <3>2 DEF Begin
      <4> QED
        BY <1>4, <2>2, <4>1, <4>2
    <3> QED
      BY <3>1, <3>2
  <2> QED
    BY <2>1, <2>2 DEF WakeUp
<1>6. TypeOK'
  BY <1>1, <1>5 DEF IInv, TypeOK
<1> QED
  BY <1>5, <1>6 DEF IInv
-----------------------------------------------------------------------------
(* The steps of callers *)

\* A stop leaves nothing behind that was not told to stop.
LEMMA StopKeeps ==
  ASSUME IInv, ConstantsAssumption, NEW c \in Callers, NEW again \in BOOLEAN,
         Stop(c, again)
  PROVE  IInv'
<1>1. /\ call[c].at = "idle" /\ Calm
      /\ task' = task /\ abort' = abort /\ starting' = starting
      /\ attempts' = attempts /\ up' = up /\ faults' = faults
  BY DEF Stop, store
<1>2. CASE call' = [call EXCEPT ![c].at = "start"] /\ manual' = manual /\ run' = run
  <2>1. /\ call[c] \in CallRecords
        /\ call[c] = [at |-> call[c].at, task |-> call[c].task, again |-> call[c].again]
    BY DEF IInv, TypeOK, CallRecords
  <2>2. call'[c] = [call[c] EXCEPT !.at = "start"] /\ (\A d \in Callers \ {c} : call'[d] = call[d])
    BY <1>2 DEF IInv, TypeOK
  <2>3. call'[c] = [at |-> "start", task |-> call[c].task, again |-> call[c].again]
    BY <2>1, <2>2
  <2>4. call'[c] \in CallRecords /\ call'[c].at = "start"
    BY <2>1, <2>3 DEF CallRecords
  <2>5. call' \in [Callers -> CallRecords]
    BY <1>2, <2>2, <2>4 DEF IInv, TypeOK
  <2>6. TypeOK'
    BY <1>1, <1>2, <2>5 DEF IInv, TypeOK
  <2>7. \A d \in Callers : call'[d].at = "wait" => call'[d] = call[d]
    BY <2>2, <2>4 DEF IInv, Waiting
  <2>8. Reserved' /\ InReach' /\ Waiting' /\ Quiet' /\ Past'
    BY <1>1, <1>2, <2>7, CallsReturn DEF store
  <2> QED
    BY <2>6, <2>8 DEF IInv
<1>3. CASE /\ manual' = TRUE
           /\ run' = IF abort = None THEN run ELSE [run EXCEPT ![abort].aborted = TRUE]
           /\ call' = [call EXCEPT ![c] = [at |-> "wait", task |-> task, again |-> again]]
  <2>1. /\ run' \in [Runs -> RunRecords]
        /\ \A s \in Runs : run'[s].at = run[s].at
        /\ \A s \in Runs : run[s].aborted => run'[s].aborted
        /\ abort # None => run'[abort].aborted
    <3>1. CASE abort = None
      BY <1>3, <3>1 DEF IInv, TypeOK
    <3>2. CASE abort # None
      <4>1. abort \in Runs /\ run[abort] \in RunRecords
        BY <3>2 DEF IInv, TypeOK
      <4>2. /\ run[abort].at \in Stages /\ run[abort].auto \in BOOLEAN
            /\ run[abort] = [at |-> run[abort].at, aborted |-> run[abort].aborted, auto |-> run[abort].auto]
        BY <4>1 DEF RunRecords
      <4>3. run' = [run EXCEPT ![abort].aborted = TRUE]
        BY <1>3, <3>2
      <4>4. run'[abort] = [run[abort] EXCEPT !.aborted = TRUE]
        BY <4>1, <4>3 DEF IInv, TypeOK
      <4>5. run'[abort] = [at |-> run[abort].at, aborted |-> TRUE, auto |-> run[abort].auto]
        BY <4>2, <4>4
      <4>6. run'[abort] \in RunRecords /\ run'[abort].at = run[abort].at /\ run'[abort].aborted
        BY <4>2, <4>5 DEF RunRecords
      <4>7. \A s \in Runs \ {abort} : run'[s] = run[s]
        BY <4>3 DEF IInv, TypeOK
      <4>8. run' \in [Runs -> RunRecords]
        BY <4>3, <4>6, <4>7 DEF IInv, TypeOK
      <4> QED
        BY <4>6, <4>7, <4>8
    <3> QED
      BY <3>1, <3>2
  <2>2. \A s \in Runs : Begun(s)' = Begun(s) /\ Tracked(s)' = Tracked(s)
    BY <2>1 DEF Begun, Tracked
  <2>3. \A s \in Runs : Begun(s) \/ Tracked(s) => run'[s].aborted
    BY <2>1 DEF IInv, InReach, TypeOK, ConstantsAssumption
  <2>4. /\ call'[c].at = "wait" /\ call'[c].task = task
        /\ call' \in [Callers -> CallRecords]
        /\ \A d \in Callers \ {c} : call'[d] = call[d]
    BY <1>3 DEF IInv, TypeOK, CallRecords
  <2>5. TypeOK'
    BY <1>1, <1>3, <2>1, <2>4 DEF IInv, TypeOK
  <2>6. Reserved'
    BY <1>1, <2>2 DEF IInv, Reserved, TypeOK, ConstantsAssumption
  <2>7. InReach'
    BY <2>2, <2>3 DEF InReach
  <2>8. Waiting'
    <3>1. \A d \in Callers : Waits(d)' => call'[d].task = task
      BY <1>1, <2>4 DEF IInv, Waiting, Waits, Calm
    <3>2. ASSUME NEW d \in Callers, Waits(d)', ~Settled(d)'
          PROVE  task # None /\ run'[task].aborted
      <4>1. task \in Runs
        BY <3>1, <3>2 DEF Waits, Settled
      <4> QED
        BY <2>3, <4>1 DEF IInv, Reserved, ConstantsAssumption
    <3> QED
      BY <1>1, <3>1, <3>2 DEF Waiting
  <2>9. Quiet'
    BY <2>2, <2>3 DEF Quiet
  <2>10. Past'
    BY <2>1, <2>3 DEF Past, Begun, Tracked
  <2> QED
    BY <2>5, <2>6, <2>7, <2>8, <2>9, <2>10 DEF IInv
<1> QED
  BY <1>2, <1>3 DEF Stop

\* The entries a stop removes are nobody's that could still be stopped.
LEMMA StopEndsKeeps ==
  ASSUME IInv, NEW c \in Callers, StopEnds(c)
  PROVE  IInv'
<1>1. /\ Settled(c) /\ Waits(c)
      /\ task' = None /\ abort' = None /\ up' = FALSE /\ run' = run
      /\ starting' = starting /\ manual' = manual /\ attempts' = attempts /\ faults' = faults
  BY DEF StopEnds, Settled, Waits
<1>2. /\ call' \in [Callers -> CallRecords]
      /\ call'[c].at \in {"idle", "start"}
      /\ \A d \in Callers \ {c} : call'[d] = call[d]
  BY Returns DEF IInv, StopEnds
<1>3. TypeOK'
  BY <1>1, <1>2 DEF IInv, TypeOK
<1>4. Reserved'
  BY <1>1 DEF IInv, Reserved, Begun
<1>5. InReach'
  BY <1>1 DEF IInv, Quiet, InReach, Begun, Tracked
<1>6. ASSUME NEW d \in Callers, Waits(d)' PROVE Settled(d)'
  <2>1. d # c /\ call'[d] = call[d] /\ Waits(d)
    BY <1>2, <1>6 DEF Waits
  <2>2. Settled(d)
    BY <1>1, <2>1 DEF IInv, Waiting, Settled, Waits
  <2> QED
    BY <1>1, <2>1, <2>2 DEF Settled, At
<1>7. Waiting'
  BY <1>6 DEF Waiting
<1>8. Quiet'
  BY <1>1 DEF IInv, Quiet, Begun, Tracked
<1>9. Past'
  BY <1>1 DEF IInv, Past
<1> QED
  BY <1>3, <1>4, <1>5, <1>7, <1>8, <1>9 DEF IInv

\* A stop that gives the wait up leaves the entries.
LEMMA StopTimesOutKeeps ==
  ASSUME IInv, NEW c \in Callers, StopTimesOut(c)
  PROVE  IInv'
<1>1. /\ up' = TRUE /\ UNCHANGED <<store, run, manual>>
      /\ attempts' = attempts /\ faults' = faults
  BY DEF StopTimesOut
<1>2. /\ call' \in [Callers -> CallRecords]
      /\ call'[c].at \in {"idle", "start"}
      /\ \A d \in Callers \ {c} : call'[d] = call[d]
  BY Returns DEF IInv, StopTimesOut
<1>3. TypeOK'
  BY <1>1, <1>2 DEF IInv, TypeOK, store
<1>4. \A d \in Callers : call'[d].at = "wait" => call'[d] = call[d]
  BY <1>2 DEF IInv, Waiting
<1>5. Reserved' /\ InReach' /\ Waiting' /\ Quiet' /\ Past'
  BY <1>1, <1>4, CallsReturn
<1> QED
  BY <1>3, <1>5 DEF IInv

\* Starts, on their own or after a stop.
LEMMA StartsKeep ==
  ASSUME IInv, ConstantsAssumption,
         Start \/ MonitorStarts \/ \E c \in Callers : StartAgain(c)
  PROVE  IInv'
<1>1. /\ Calm /\ Begin(task, abort, run, FALSE)
      /\ manual' = manual /\ up' = up /\ faults' = faults
  BY DEF Start, MonitorStarts, StartAgain
<1>2. attempts' \in Nat
  <2>1. attempts \in Nat
    BY DEF IInv, TypeOK
  <2>2. attempts' = attempts \/ attempts' = 0
    BY DEF Start, MonitorStarts, StartAgain
  <2> QED
    BY <2>1, <2>2
<1>3. /\ call' \in [Callers -> CallRecords]
      /\ \A c \in Callers : call'[c] = call[c] \/ call'[c].at = "idle"
  <2>1. CASE call' = call
    BY <2>1 DEF IInv, TypeOK
  <2>2. ASSUME NEW c \in Callers, call' = [call EXCEPT ![c] = Idle]
        PROVE  /\ call' \in [Callers -> CallRecords]
               /\ \A d \in Callers : call'[d] = call[d] \/ call'[d].at = "idle"
    BY <2>2 DEF IInv, TypeOK, Idle, CallRecords
  <2> QED
    BY <2>1, <2>2 DEF Start, MonitorStarts, StartAgain
<1>4. /\ run' \in [Runs -> RunRecords]
      /\ task' \in Runs \cup {None} /\ abort' \in Runs \cup {None}
      /\ starting' \in Runs \cup {None}
      /\ Reserved' /\ InReach' /\ Waiting' /\ Quiet' /\ Past'
  BY <1>1, <1>3, Starts
<1>5. TypeOK'
  BY <1>1, <1>2, <1>3, <1>4 DEF IInv, TypeOK
<1> QED
  BY <1>4, <1>5 DEF IInv

\* Between the steps, and when only the runtime's running flag changes
LEMMA RestKeeps ==
  ASSUME IInv, UNCHANGED vars \/ MarkLoggedOut
  PROVE  IInv'
<1>1. /\ UNCHANGED <<store, run, manual>> /\ call' = call
      /\ attempts' = attempts /\ faults' = faults
  BY DEF vars, store, MarkLoggedOut
<1>2. up' \in BOOLEAN
  BY DEF vars, MarkLoggedOut, IInv, TypeOK
<1>3. TypeOK'
  BY <1>1, <1>2 DEF IInv, TypeOK, store
<1>4. Reserved' /\ InReach' /\ Waiting' /\ Quiet' /\ Past'
  BY <1>1, CallsReturn
<1> QED
  BY <1>3, <1>4 DEF IInv
-----------------------------------------------------------------------------
(* The theorems *)

\* In the beginning nothing runs and nobody stops anything.
LEMMA InvInit == ConstantsAssumption /\ Init => IInv
<1> SUFFICES ASSUME ConstantsAssumption, Init PROVE IInv
  OBVIOUS
<1>1. TypeOK
  BY DEF Init, TypeOK, Gone, Idle, RunRecords, CallRecords, Stages
<1>2. Reserved /\ InReach /\ Past
  BY DEF Init, Reserved, InReach, Past, Begun, Tracked, Gone
<1>3. Waiting /\ Quiet
  BY DEF Init, Waiting, Quiet, Waits, Settled, Idle
<1> QED
  BY <1>1, <1>2, <1>3 DEF IInv

\* Every step keeps the invariant.
LEMMA InvNext ==
  ASSUME IInv, ConstantsAssumption, [Next]_vars
  PROVE  IInv'
<1>1. ASSUME NEW r \in Runs, GoOn(r) \/ FailToStart(r) \/ ProviderEnds(r) PROVE IInv'
  BY <1>1, ConfiguredKeeps, BootstrappedKeeps, UnwoundKeeps, CleanedUpKeeps, WakeUpKeeps,
     FailToStartKeeps, ProviderEndsKeeps DEF GoOn
<1>2. ASSUME NEW o \in Operators, NEW again \in BOOLEAN, Stop(o, again) PROVE IInv'
  BY <1>2, StopKeeps DEF Callers
<1>3. ASSUME NEW c \in Callers, StopEnds(c) \/ StopTimesOut(c) PROVE IInv'
  BY <1>3, StopEndsKeeps, StopTimesOutKeeps
<1>4. CASE Start \/ MonitorStarts \/ \E c \in Callers : StartAgain(c)
  BY <1>4, StartsKeep
<1>5. CASE MonitorRestarts
  BY <1>5, StopKeeps DEF MonitorRestarts, Callers
<1>6. CASE MarkLoggedOut \/ UNCHANGED vars
  BY <1>6, RestKeeps
<1> QED
  BY <1>1, <1>2, <1>3, <1>4, <1>5, <1>6 DEF Next

\* The inductive invariant holds whatever is started, stopped and restarted.
THEOREM Invariance == Spec => []IInv
<1>1. Init => IInv
  BY InvInit, ConstantsAssumption
<1>2. IInv /\ [Next]_vars => IInv'
  BY InvNext, ConstantsAssumption
<1> QED
  BY <1>1, <1>2, PTL DEF Spec

\* The variables keep their types.
THEOREM TypesKept == Spec => []TypeOK
<1>1. IInv => TypeOK
  BY DEF IInv
<1> QED
  BY <1>1, Invariance, PTL

\* Whatever starts, stops, restarts and exits overlap, a provider that was not
\* told to stop is the one the next stop finds.
THEOREM AlwaysInReach == Spec => []CanBeStopped
<1>1. IInv => CanBeStopped
  BY DEF IInv, InReach, CanBeStopped, Live, At, Tracked
<1> QED
  BY <1>1, Invariance, PTL

\* No two providers work for the account that were not told to stop.
THEOREM NeverTwoProviders == Spec => []OneLiveProvider
<1>1. IInv => OneLiveProvider
  BY DEF IInv, InReach, OneLiveProvider, Live, At, Tracked
<1> QED
  BY <1>1, Invariance, PTL

\* No provider works on for an account that was stopped by hand.
THEOREM StopsAreKept == Spec => []StoppedMeansTold
<1>1. IInv => StoppedMeansTold
  BY DEF IInv, Past, StoppedMeansTold, Live, At
<1> QED
  BY <1>1, Invariance, PTL
================================================================================
