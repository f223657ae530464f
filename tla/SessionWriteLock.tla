--------------------------- MODULE SessionWriteLock ---------------------------
(***************************************************************************)
(* The write lock of one session file, which the gateway and command line  *)
(* runs of the agent take before they change the transcript:               *)
(* src/agents/session-write-lock.ts.  The lock is a file beside the        *)
(* session, created exclusively and then filled with the pid and start     *)
(* time of its process; within a process the lock can be shared.           *)
(*                                                                         *)
(* One action is what a process does between two awaits of the file        *)
(* system.  Where start times can be read (Linux) they tell a process from *)
(* a later one with its pid, so a process is both and does not come back.  *)
(***************************************************************************)
EXTENDS Naturals, FiniteSets

CONSTANTS Procs,     \* processes
          Callers,   \* callers of acquireSessionWriteLock
          Home,      \* caller -> its process
          Locks,     \* identities of lock files, used again when nobody knows them
          Reentrant, \* allowReentrant
          Cleaners,  \* callers that may clean stale files up as well (gateway startup, doctor)
          None

ASSUME ConstantsAssumption ==
  /\ None \notin Locks /\ Locks # {}
  /\ Home \in [Callers -> Procs]
  /\ Cleaners \subseteq Callers
  /\ Reentrant \in BOOLEAN

VARIABLES
  alive,   \* processes that run
  file,    \* the lock file that is there, or None
  full,    \* its payload is written
  old,     \* it is older than staleMs
  maker,   \* the process that made it, as the payload says
  held,    \* process -> its entry in HELD_LOCKS
  count,   \* process -> the count of that entry
  closing, \* process -> the locks it is about to close and remove
  watched, \* processes whose watchdog timer is set
  pc,      \* caller -> the await it stands at, or "working" with the lock
  lock,    \* caller -> the lock it has, or the file it looked at
  robbed   \* somebody removed another file than the stale one it had read (history)

files == <<file, full, old, maker>>
vars == <<alive, file, full, old, maker, held, count, closing, watched, pc, lock, robbed>>

Stages == {"idle", "opening", "waiting", "writing", "failing", "working", "inspecting",
           "asking", "removing", "listing", "cleaning"}

TypeOK ==
  /\ alive \subseteq Procs
  /\ file \in Locks \cup {None} /\ full \in BOOLEAN /\ old \in BOOLEAN
  /\ maker \in Procs \cup {None}
  /\ held \in [Procs -> Locks \cup {None}]
  /\ count \in [Procs -> Nat]
  /\ closing \in [Procs -> SUBSET Locks]
  /\ watched \subseteq Procs
  /\ pc \in [Callers -> Stages]
  /\ lock \in [Callers -> Locks \cup {None}]
  /\ robbed \in BOOLEAN

\* A process that has ended may have left its file, with or without a payload.
Init ==
  /\ alive = {Home[c] : c \in Callers}
  /\ \/ file = None /\ maker = None /\ full = FALSE
     \/ /\ file = CHOOSE l \in Locks : TRUE
        /\ maker \in Procs \ alive /\ full \in BOOLEAN
  /\ old = FALSE
  /\ held = [p \in Procs |-> None]
  /\ count = [p \in Procs |-> 0]
  /\ closing = [p \in Procs |-> {}]
  /\ watched = {}
  /\ pc = [c \in Callers |-> "idle"]
  /\ lock = [c \in Callers |-> None]
  /\ robbed = FALSE

--------------------------------------------------------------------------------
At(c, stage) == Home[c] \in alive /\ pc[c] = stage

\* c goes on to a stage, with a lock or a file in mind.
Goes(c, stage, l) ==
  /\ pc' = [pc EXCEPT ![c] = stage]
  /\ lock' = [lock EXCEPT ![c] = l]

Unknown ==
  {l \in Locks : /\ l # file
                 /\ \A c \in Callers : lock[c] # l
                 /\ \A p \in Procs : held[p] # l /\ l \notin closing[p]}

NewLock == CHOOSE l \in Unknown : TRUE

\* A lock the process has already is shared, by callers that allow it.
Acquire(c) ==
  LET p == Home[c] IN
  /\ At(c, "idle")
  /\ watched' = watched \cup {p}
  /\ \/ /\ Reentrant /\ held[p] # None
        /\ count' = [count EXCEPT ![p] = @ + 1]
        /\ Goes(c, "working", held[p])
     \/ /\ ~Reentrant \/ held[p] = None
        /\ Goes(c, "opening", None)
        /\ UNCHANGED count
  /\ UNCHANGED <<alive, files, held, closing, robbed>>

\* open(lockPath, "wx"), at first or after a wait
Open(c) ==
  /\ At(c, "opening") \/ At(c, "waiting")
  /\ \/ /\ file # None
        /\ Goes(c, "inspecting", None) /\ UNCHANGED files
     \/ /\ file = None /\ Unknown # {}
        /\ file' = NewLock /\ full' = FALSE /\ old' = FALSE /\ maker' = Home[c]
        /\ Goes(c, "writing", NewLock)
  /\ UNCHANGED <<alive, held, count, closing, watched, robbed>>

\* The payload is written, to the file that was opened, whether or not it is
\* still there, and the process has the lock.
Write(c) ==
  /\ At(c, "writing")
  /\ full' = (full \/ file = lock[c])
  /\ held' = [held EXCEPT ![Home[c]] = lock[c]]
  /\ count' = [count EXCEPT ![Home[c]] = 1]
  /\ Goes(c, "working", lock[c])
  /\ UNCHANGED <<alive, file, old, maker, closing, watched, robbed>>

WriteFails(c) ==
  /\ At(c, "writing")
  /\ Goes(c, "failing", lock[c])
  /\ UNCHANGED <<alive, files, held, count, closing, watched, robbed>>

\* Whatever lock file is there is removed.
FileGone == file' = None /\ full' = FALSE /\ old' = FALSE /\ maker' = None

\* After a failed write the file is closed and removed before the error is thrown.
Discard(c) ==
  /\ At(c, "failing")
  /\ FileGone
  /\ Goes(c, "idle", None)
  /\ UNCHANGED <<alive, held, count, closing, watched, robbed>>

\* mutant: what cannot be read is taken for stale at once
MutInspect(c) ==
  /\ At(c, "inspecting")
  /\ IF file = None THEN Goes(c, "waiting", None)
     ELSE IF ~full \/ maker \notin alive \/ old THEN Goes(c, "removing", file)
     ELSE Goes(c, "waiting", None)
  /\ UNCHANGED <<alive, files, held, count, closing, watched, robbed>>

\* The payload of the file in the way is read.  Without one the file's time
\* decides; one of a process that has ended, or too old, is stale.
Inspect(c) ==
  /\ At(c, "inspecting")
  /\ IF file = None \/ ~full THEN Goes(c, "asking", None)
     ELSE IF maker \notin alive \/ old THEN Goes(c, "removing", file)
     ELSE Goes(c, "waiting", None)
  /\ UNCHANGED <<alive, files, held, count, closing, watched, robbed>>

\* mutant: a file without a payload is left alone however old it is
MutAsk(c) ==
  /\ At(c, "asking")
  /\ Goes(c, "waiting", None)
  /\ UNCHANGED <<alive, files, held, count, closing, watched, robbed>>

\* stat(lockPath)
Ask(c) ==
  /\ At(c, "asking")
  /\ IF file # None /\ old THEN Goes(c, "removing", file) ELSE Goes(c, "waiting", None)
  /\ UNCHANGED <<alive, files, held, count, closing, watched, robbed>>

\* The file there is not the one c has read, or it is a live process's that was
\* too old, or empty when a cleaner read it (which may have found none: lock[c] = None).
Wrong(c) ==
  file # None /\ (file # lock[c] \/ (maker \in alive /\ (old \/ At(c, "cleaning"))))

\* rm(lockPath) of the file c takes for stale
Remove(c) ==
  /\ At(c, "removing") \/ At(c, "cleaning")
  /\ FileGone
  /\ robbed' = (robbed \/ Wrong(c))
  /\ Goes(c, IF At(c, "cleaning") THEN "idle" ELSE "waiting", None)
  /\ UNCHANGED <<alive, held, count, closing, watched>>

\* The timeout of the caller is over: it throws.
GiveUp(c) ==
  /\ At(c, "waiting")
  /\ Goes(c, "idle", None)
  /\ UNCHANGED <<alive, files, held, count, closing, watched, robbed>>

\* An entry of HELD_LOCKS goes; its lock is still to be removed.
LetGo(p) ==
  /\ held' = [held EXCEPT ![p] = None]
  /\ count' = [count EXCEPT ![p] = 0]
  /\ closing' = [closing EXCEPT ![p] = @ \cup {held[p]}]

\* mutant: a handle releases whatever lock its process has by now
MutRelease(c) ==
  LET p == Home[c] IN
  /\ At(c, "working")
  /\ Goes(c, "idle", None)
  /\ IF held[p] = None THEN UNCHANGED <<held, count, closing>>
     ELSE IF count[p] > 1 THEN count' = [count EXCEPT ![p] = @ - 1] /\ UNCHANGED <<held, closing>>
     ELSE LetGo(p)
  /\ UNCHANGED <<alive, files, watched, robbed>>

\* releaseHeldLock, by the handle of c: the last one out removes the lock, unless
\* it was taken from them.
Release(c) ==
  LET p == Home[c] IN
  /\ At(c, "working")
  /\ Goes(c, "idle", None)
  /\ IF held[p] # lock[c] THEN UNCHANGED <<held, count, closing>>
     ELSE IF count[p] > 1 THEN count' = [count EXCEPT ![p] = @ - 1] /\ UNCHANGED <<held, closing>>
     ELSE LetGo(p)
  /\ UNCHANGED <<alive, files, watched, robbed>>

\* The timer is stopped once HELD_LOCKS is empty.
Unwatched(p) == watched' = IF held'[p] = None THEN watched \ {p} ELSE watched

\* The rest of a release, after its entry has left HELD_LOCKS
RemoveOwn(p) ==
  /\ \E l \in closing[p] : closing' = [closing EXCEPT ![p] = @ \ {l}]
  /\ FileGone
  /\ UNCHANGED <<alive, held, count, pc, lock, robbed>>
  /\ Unwatched(p)

\* runLockWatchdogCheck: a lock held for longer than maxHoldMs is released by force.
Watchdog(p) ==
  /\ held[p] # None /\ p \in watched
  /\ LetGo(p)
  /\ UNCHANGED <<alive, files, watched, pc, lock, robbed>>

\* releaseAllLocksSync, on a signal that the process may survive
Signal(p) ==
  /\ held[p] # None
  /\ held' = [held EXCEPT ![p] = None] /\ count' = [count EXCEPT ![p] = 0]
  /\ FileGone /\ Unwatched(p)
  /\ UNCHANGED <<alive, closing, pc, lock, robbed>>

\* The process ends; what its callers have not written or removed stays behind.
Ends(p) ==
  /\ p \in alive /\ Cardinality(alive) > 1
  /\ alive' = alive \ {p}
  /\ held' = [held EXCEPT ![p] = None] /\ count' = [count EXCEPT ![p] = 0]
  /\ closing' = [closing EXCEPT ![p] = {}] /\ watched' = watched \ {p}
  /\ pc' = [c \in Callers |-> IF Home[c] = p THEN "idle" ELSE pc[c]]
  /\ lock' = [c \in Callers |-> IF Home[c] = p THEN None ELSE lock[c]]
  /\ UNCHANGED robbed

Crash(p) == Ends(p) /\ UNCHANGED files

Exit(p) == Ends(p) /\ IF held[p] = None THEN UNCHANGED files ELSE FileGone

\* cleanStaleLockFiles lists the lock files.
StartCleaning(c) ==
  /\ c \in Cleaners /\ At(c, "idle") /\ file # None
  /\ Goes(c, "listing", None)
  /\ UNCHANGED <<alive, files, held, count, closing, watched, robbed>>

\* It reads the file by its name, and takes it for stale as well if it is empty or
\* gone.
Examine(c) ==
  /\ At(c, "listing")
  /\ IF file # None /\ full /\ maker \in alive /\ ~old THEN Goes(c, "idle", None)
     ELSE Goes(c, "cleaning", file)
  /\ UNCHANGED <<alive, files, held, count, closing, watched, robbed>>

\* The file gets older than staleMs.
Ages ==
  /\ file # None /\ ~old
  /\ old' = TRUE
  /\ UNCHANGED <<alive, file, full, maker, held, count, closing, watched, pc, lock, robbed>>

GoesOn(c) ==
  \/ Acquire(c) \/ Open(c) \/ Write(c) \/ Discard(c)
  \/ Inspect(c) \/ Ask(c) \/ Examine(c) \/ Remove(c) \/ Release(c)

Next ==
  \/ \E c \in Callers : GoesOn(c) \/ WriteFails(c) \/ GiveUp(c) \/ StartCleaning(c)
  \/ \E p \in Procs : RemoveOwn(p) \/ Watchdog(p) \/ Signal(p) \/ Crash(p) \/ Exit(p)
  \/ Ages

Spec == Init /\ [][Next]_vars

\* The file system answers, callers release what they have and ask again some
\* day, and files age.
FairSpec ==
  /\ Spec
  /\ \A c \in Callers : WF_vars(GoesOn(c))
  /\ \A p \in Procs : WF_vars(RemoveOwn(p))
  /\ WF_vars(Ages)
--------------------------------------------------------------------------------
Lost(p) == \/ Watchdog(p) \/ Signal(p) \/ Crash(p) \/ Exit(p)

\* Two processes have the lock at once only after somebody removed a file that
\* was not the stale one it had read, or was too old or not written yet: no
\* order of releases, retries, watchdogs, signals, crashes and exits breaks it.
Exclusive ==
  robbed \/ \A p, q \in Procs : held[p] # None /\ held[q] # None => p = q

\* While callers of a process share its lock it is not released by any of them,
\* nor by the handle of a lock that the process had before.
KeptForUsers ==
  [][\A p \in Procs : held[p] # None /\ held'[p] # held[p] =>
       robbed \/ Lost(p) \/ \A c \in Callers : pc'[c] = "working" => lock'[c] # held[p]]_vars

\* The file of a process that has ended, with or without its payload, does not
\* keep everybody out for good.
Orphaned == file # None /\ maker \notin alive
FreedAgain == Orphaned ~> ~Orphaned \/ \E p \in Procs : held[p] # None
================================================================================
