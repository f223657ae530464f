---------------------------- MODULE DeliveryQueue ----------------------------
(***************************************************************************)
(* The write-ahead queue of outbound messages: the files of                *)
(* src/infra/outbound/delivery-queue-storage.ts, the live deliveries of    *)
(* deliver.ts that write them, and the two recovery paths of               *)
(* delivery-queue-recovery.ts (startup recovery and drainPendingDeliveries). *)
(*                                                                         *)
(* Everything between two awaits is one action, and each call of the file  *)
(* system or of the channel is a step of its own.  The delivery attempts   *)
(* of one process are jobs: the live delivery of an entry, a recovery      *)
(* worker, and the failDelivery call of an entry deferred by the recovery  *)
(* budget.  A restart of the process, graceful or not, forgets the jobs    *)
(* and the claims and keeps the files.                                     *)
(*                                                                         *)
(* A retry count is only ever compared with MAX_RETRIES, so the model      *)
(* counts up to MaxRetries and stays there.  Whether a backoff has elapsed *)
(* is a choice.  A file an older version left may have a count and no      *)
(* lastAttemptAt; such a legacy entry is written back by the directory     *)
(* scan that loads it, which holds no claim.                               *)
(*                                                                         *)
(* Writing an entry (a temporary file, then a rename) is one step: nobody  *)
(* reads the temporary file.  Two writers of one entry share it, so that   *)
(* the first rename may put the second's text in place, whole or cut short, *)
(* and the second rename then fails; the model leaves that out.            *)
(***************************************************************************)
EXTENDS Integers, FiniteSets

CONSTANTS Entries,    \* queue ids
          Fresh,      \* entries the live deliveries of this run will enqueue
          BestEffort, \* entries delivered with bestEffort
          OnError,    \* entries whose live caller passes onError
          Revocable,  \* entries whose delivery may be aborted, or cancelled by a hook
          Startup,    \* the startup recovery
          Drainers,   \* drain keys of drainPendingDeliveries
          MaxRetries, \* MAX_RETRIES
          HasBudget,  \* recovery may run out of maxRecoveryMs
          Faults,     \* the process may crash and a file operation may fail
          NoEntry     \* current entry of a worker that has none

ASSUME ConstantsAssumption ==
  /\ Fresh \subseteq Entries
  /\ BestEffort \subseteq Entries
  /\ OnError \subseteq Entries
  /\ Revocable \subseteq Entries
  /\ IsFiniteSet(Entries)
  /\ Startup \notin Drainers
  /\ NoEntry \notin Entries
  /\ MaxRetries \in Nat \ {0}
  /\ HasBudget \in BOOLEAN /\ Faults \in BOOLEAN

VARIABLES
  json,      \* entry -> retryCount in {id}.json, or Absent
  legacy,    \* entries whose file has a retry count and no lastAttemptAt
  marker,    \* entries with a {id}.delivered file
  failed,    \* entries with a file in failed/
  position,  \* entry -> rank of its enqueuedAt, 0 before it is enqueued
  at,        \* job -> the await it stands at
  count,     \* job -> retryCount it has read
  current,   \* worker -> entry it works on, or NoEntry
  listing,   \* worker -> files of the directory its scan has still to read
  todo,      \* worker -> rest of its snapshot of the queue
  claimed,   \* entriesInProgress
  sent,      \* entries whose message the channel accepted
  acked,     \* entries a recovery's ack has taken away and no unclaimed write put back
  withdrawn  \* entries whose message was aborted, or cancelled by a hook

vars == <<json, legacy, marker, failed, position, at, count, current, listing, todo,
          claimed, sent, acked, withdrawn>>

Absent == -1
Counts == 0 .. MaxRetries
Workers == {Startup} \cup Drainers

Live(e)   == <<"live", e>>
Defer(e)  == <<"defer", e>>
Worker(w) == <<"worker", w>>
EntryJobs  == {"live", "defer"} \X Entries
WorkerJobs == {"worker"} \X Workers
Jobs       == EntryJobs \cup WorkerJobs

\* The entry a job works on.
Of(j) == IF j \in WorkerJobs THEN current[j[2]] ELSE j[2]

Steps == {"idle", "scan", "listing", "migrating", "next", "claimed", "loaded",
          "pruning", "sending", "accepted", "acking", "unlinking", "failing",
          "writing", "discarding"}

\* Steps of a worker at which it holds a claim.
Holding == Steps \ {"idle", "scan", "listing", "migrating", "next"}

TypeOK ==
  /\ json \in [Entries -> Counts \cup {Absent}]
  /\ legacy \subseteq Entries
  /\ marker \subseteq Entries
  /\ failed \subseteq Entries
  /\ position \in [Entries -> 0 .. Cardinality(Entries)]
  /\ at \in [Jobs -> Steps]
  /\ count \in [Jobs -> Counts]
  /\ current \in [Workers -> Entries \cup {NoEntry}]
  /\ listing \in [Workers -> SUBSET Entries]
  /\ todo \in [Workers -> SUBSET Entries]
  /\ claimed \subseteq Entries
  /\ sent \subseteq Entries
  /\ acked \subseteq Entries
  /\ withdrawn \subseteq Entries

Known == {e \in Entries : position[e] # 0}

\* A gateway that just started, with the queue an earlier process left, perhaps
\* one of an older version.
Init ==
  /\ json \in [Entries -> Counts \cup {Absent}]
  /\ \A e \in Entries : json[e] = Absent <=> e \in Fresh
  /\ legacy \in SUBSET {e \in Entries : json[e] > 0}
  /\ marker = {} /\ failed = {}
  /\ position = [e \in Entries |-> IF e \in Fresh THEN 0 ELSE 1]
  /\ at = [j \in Jobs |-> IF j = Worker(Startup) THEN "scan" ELSE "idle"]
  /\ count = [j \in Jobs |-> 0]
  /\ current = [w \in Workers |-> NoEntry]
  /\ listing = [w \in Workers |-> {}]
  /\ todo = [w \in Workers |-> {}]
  /\ claimed = {} /\ sent = {} /\ acked = {} /\ withdrawn = {}

-----------------------------------------------------------------------------
(* Jobs *)

\* Job j goes on at step `step'.
Goto(j, step) == at' = [at EXCEPT ![j] = step]

\* Job j is done with its entry; a worker releases it and takes the next one.
Done(j) ==
  /\ Goto(j, IF j \in WorkerJobs THEN "next" ELSE "idle")
  /\ current' = [w \in Workers |-> IF j = Worker(w) THEN NoEntry ELSE current[w]]
  /\ claimed' = IF j \in WorkerJobs THEN claimed \ {Of(j)} ELSE claimed

\* A live delivery persists its entry, then starts to send it.
Enqueue(e) ==
  /\ e \in Fresh
  /\ position[e] = 0
  /\ json' = [json EXCEPT ![e] = 0]
  /\ position' = [position EXCEPT ![e] = Cardinality(Known) + 1]
  /\ Goto(Live(e), "sending")
  /\ UNCHANGED <<legacy, marker, failed, count, current, listing, todo, claimed, sent,
                 acked, withdrawn>>

(* The attempt: what deliverOutboundPayloadsCore and the channel do. *)

\* The channel accepts the message.
Accept(j) ==
  /\ at[j] = "sending"
  /\ Goto(j, "accepted")
  /\ sent' = sent \cup {Of(j)}
  /\ UNCHANGED <<json, legacy, marker, failed, position, count, current, listing, todo,
                 claimed, acked, withdrawn>>

\* The call of the channel returns.
Return(j) ==
  /\ at[j] = "accepted"
  /\ Goto(j, "acking")
  /\ UNCHANGED <<json, legacy, marker, failed, position, count, current, listing, todo,
                 claimed, sent, acked, withdrawn>>

\* The delivery is aborted, or a message_sending hook cancels it.
Withdraw(j) ==
  /\ at[j] = "sending"
  /\ Of(j) \in Revocable
  /\ Goto(j, "acking")
  /\ withdrawn' = withdrawn \cup {Of(j)}
  /\ UNCHANGED <<json, legacy, marker, failed, position, count, current, listing, todo,
                 claimed, sent, acked>>

\* Mutant: a failed attempt of a live delivery is acknowledged.
MutAfterError(j) ==
  IF j \in WorkerJobs THEN {"failing", "discarding"} ELSE {"acking"}

\* What an error leads to; only recovery knows permanent errors.
AfterError(j) ==
  IF j \in WorkerJobs THEN {"failing", "discarding"} ELSE {"failing"}

\* The attempt fails, before or after the channel took the message.
Fail(j) ==
  /\ at[j] \in {"sending", "accepted"}
  /\ \E step \in AfterError(j) : Goto(j, step)
  /\ UNCHANGED <<json, legacy, marker, failed, position, count, current, listing, todo,
                 claimed, sent, acked, withdrawn>>

\* With bestEffort an error of the channel is reported to onError and not
\* thrown.  Recovery passes bestEffort on and no onError, so does many a live
\* caller: the attempt returns as if it had succeeded.
Swallow(j) ==
  /\ at[j] = "sending"
  /\ Of(j) \in BestEffort
  /\ j = Live(Of(j)) => Of(j) \notin OnError
  /\ Goto(j, "acking")
  /\ UNCHANGED <<json, legacy, marker, failed, position, count, current, listing, todo,
                 claimed, sent, acked, withdrawn>>

(* ackDelivery *)

AckRename(j) ==
  /\ at[j] = "acking"
  /\ IF json[Of(j)] # Absent
     THEN /\ json' = [json EXCEPT ![Of(j)] = Absent]
          /\ legacy' = legacy \ {Of(j)}
          /\ marker' = marker \cup {Of(j)}
          /\ acked' = IF j \in WorkerJobs THEN acked \cup {Of(j)} ELSE acked
     ELSE UNCHANGED <<json, legacy, marker, acked>>
  /\ Goto(j, "unlinking")
  /\ UNCHANGED <<failed, position, count, current, listing, todo, claimed, sent,
                 withdrawn>>

AckUnlink(j) ==
  /\ at[j] = "unlinking"
  /\ marker' = marker \ {Of(j)}
  /\ Done(j)
  /\ UNCHANGED <<json, legacy, failed, position, count, listing, todo, sent, acked, withdrawn>>

(* failDelivery: a read, then a write. *)

FailRead(j) ==
  /\ at[j] = "failing"
  /\ IF json[Of(j)] = Absent
     THEN Done(j) /\ UNCHANGED count
     ELSE /\ Goto(j, "writing")
          /\ count' = [count EXCEPT ![j] = json[Of(j)]]
          /\ UNCHANGED <<current, claimed>>
  /\ UNCHANGED <<json, legacy, marker, failed, position, listing, todo, sent, acked, withdrawn>>

\* Mutant: the attempt is not counted.
MutCounted(n) == n

Counted(n) == IF n < MaxRetries THEN n + 1 ELSE MaxRetries

\* A live delivery and a deferral write without a claim on the entry.
FailWrite(j) ==
  /\ at[j] = "writing"
  /\ json' = [json EXCEPT ![Of(j)] = Counted(count[j])]
  /\ legacy' = legacy \ {Of(j)}
  /\ acked' = IF j \in WorkerJobs THEN acked ELSE acked \ {Of(j)}
  /\ count' = [count EXCEPT ![j] = 0]
  /\ Done(j)
  /\ UNCHANGED <<marker, failed, position, listing, todo, sent, withdrawn>>

\* Mutant: the entry is deleted, not moved.
MutMoveToFailed(j) ==
  /\ at[j] \in {"pruning", "discarding"}
  /\ json' = [json EXCEPT ![Of(j)] = Absent]
  /\ Done(j)
  /\ UNCHANGED <<legacy, marker, failed, position, count, listing, todo, sent, acked,
                 withdrawn>>

\* moveToFailed; an entry that is gone is left alone.
MoveToFailed(j) ==
  /\ at[j] \in {"pruning", "discarding"}
  /\ IF json[Of(j)] # Absent
     THEN /\ json' = [json EXCEPT ![Of(j)] = Absent]
          /\ legacy' = legacy \ {Of(j)}
          /\ failed' = failed \cup {Of(j)}
     ELSE UNCHANGED <<json, legacy, failed>>
  /\ Done(j)
  /\ UNCHANGED <<marker, position, count, listing, todo, sent, acked, withdrawn>>

-----------------------------------------------------------------------------
(* The workers *)

\* A channel reconnects: its drain starts unless it is in progress.
StartDrain(w) ==
  /\ w \in Drainers
  /\ at[Worker(w)] = "idle"
  /\ Goto(Worker(w), "scan")
  /\ UNCHANGED <<json, legacy, marker, failed, position, count, current, listing, todo,
                 claimed, sent, acked, withdrawn>>

\* loadPendingDeliveries: the directory is listed and leftover markers removed.
Scan(w) ==
  /\ at[Worker(w)] = "scan"
  /\ marker' = {}
  /\ listing' = [listing EXCEPT ![w] = {e \in Entries : json[e] # Absent}]
  /\ Goto(Worker(w), "listing")
  /\ UNCHANGED <<json, legacy, failed, position, count, current, todo, claimed, sent, acked,
                 withdrawn>>

\* Startup recovery takes every entry it could read, a drain those that its
\* selectEntry matches.
Take(w, e) ==
  \/ todo' = [todo EXCEPT ![w] = @ \cup {e}]
  \/ w \in Drainers /\ UNCHANGED todo

\* The next file of the listing is read: it is gone or unreadable and skipped,
\* or a legacy one that has to be written back first, or taken.
ReadEntry(w) ==
  /\ at[Worker(w)] = "listing"
  /\ \E e \in listing[w] :
       /\ listing' = [listing EXCEPT ![w] = @ \ {e}]
       /\ \/ /\ json[e] = Absent \/ Faults
             /\ UNCHANGED <<at, count, current, todo>>
          \/ /\ json[e] # Absent /\ e \in legacy
             /\ Goto(Worker(w), "migrating")
             /\ current' = [current EXCEPT ![w] = e]
             /\ count' = [count EXCEPT ![Worker(w)] = json[e]]
             /\ UNCHANGED todo
          \/ /\ json[e] # Absent /\ e \notin legacy
             /\ Take(w, e)
             /\ UNCHANGED <<at, count, current>>
  /\ UNCHANGED <<json, legacy, marker, failed, position, claimed, sent, acked, withdrawn>>

\* The legacy entry is written back as it was read, without a claim, whatever
\* became of it in between; one that cannot be written is skipped.
Migrate(w) ==
  /\ at[Worker(w)] = "migrating"
  /\ \/ /\ json' = [json EXCEPT ![current[w]] = count[Worker(w)]]
        /\ legacy' = legacy \ {current[w]}
        /\ acked' = acked \ {current[w]}
        /\ Take(w, current[w])
     \/ Faults /\ UNCHANGED <<json, legacy, acked, todo>>
  /\ Goto(Worker(w), "listing")
  /\ current' = [current EXCEPT ![w] = NoEntry]
  /\ count' = [count EXCEPT ![Worker(w)] = 0]
  /\ UNCHANGED <<marker, failed, position, listing, claimed, sent, withdrawn>>

\* The worker goes on with its snapshot, sorted: all is read, or an entry done.
Between(w) ==
  \/ at[Worker(w)] = "next"
  \/ at[Worker(w)] = "listing" /\ listing[w] = {}

EndOfQueue(w) ==
  /\ Between(w)
  /\ todo[w] = {}
  /\ Goto(Worker(w), "idle")
  /\ UNCHANGED <<json, legacy, marker, failed, position, count, current, listing, todo,
                 claimed, sent, acked, withdrawn>>

\* The recovery budget is used up, never before the first entry: the rest of
\* the snapshot is deferred, which counts as a failure of each, whether or not
\* somebody else works on it.
DeadlinePassed ==
  /\ HasBudget
  /\ at[Worker(Startup)] = "next"
  /\ todo[Startup] # {}
  /\ at' = [j \in Jobs |-> IF j = Worker(Startup) THEN "idle"
                           ELSE IF j \in {Defer(e) : e \in todo[Startup]} THEN "failing"
                           ELSE at[j]]
  /\ todo' = [todo EXCEPT ![Startup] = {}]
  /\ UNCHANGED <<json, legacy, marker, failed, position, count, current, listing, claimed, sent,
                 acked, withdrawn>>

\* Mutant: nobody looks whether the entry is claimed.
MutFree(e) == TRUE

Free(e) == e \notin claimed

\* claimRecoveryEntry on the oldest entry of the snapshot.
Claim(w) ==
  /\ Between(w)
  /\ \E e \in todo[w] :
       /\ \A f \in todo[w] : position[e] <= position[f]
       /\ todo' = [todo EXCEPT ![w] = @ \ {e}]
       /\ IF Free(e)
          THEN /\ claimed' = claimed \cup {e}
               /\ current' = [current EXCEPT ![w] = e]
               /\ Goto(Worker(w), "claimed")
          ELSE Goto(Worker(w), "next") /\ UNCHANGED <<claimed, current>>
  /\ UNCHANGED <<json, legacy, marker, failed, position, count, listing, sent, acked, withdrawn>>

\* Mutant: the snapshot decides, the file is not read again.
MutStillPending(e) == TRUE

StillPending(e) == json[e] # Absent

\* loadPendingDelivery after the claim: the entry is gone, or read.  It is never a
\* legacy one: the scan writes back what it takes, and no entry turns legacy again.
LoadRead(w) ==
  /\ at[Worker(w)] = "claimed"
  /\ IF StillPending(current[w])
     THEN /\ count' = [count EXCEPT ![Worker(w)] = json[current[w]]]
          /\ Goto(Worker(w), "loaded")
          /\ UNCHANGED <<current, claimed>>
     ELSE Done(Worker(w)) /\ UNCHANGED count
  /\ UNCHANGED <<json, legacy, marker, failed, position, listing, todo, sent, acked, withdrawn>>

\* The entry as it was read is used up.
LoadUsedUp(w) ==
  /\ at[Worker(w)] = "loaded"
  /\ count[Worker(w)] = MaxRetries
  /\ Goto(Worker(w), "pruning")
  /\ count' = [count EXCEPT ![Worker(w)] = 0]
  /\ UNCHANGED <<json, legacy, marker, failed, position, current, listing, todo, claimed, sent,
                 acked, withdrawn>>

\* Its backoff has not elapsed; an entry nobody has tried has none.
LoadTooEarly(w) ==
  /\ at[Worker(w)] = "loaded"
  /\ count[Worker(w)] \in 1 .. MaxRetries - 1
  /\ Done(Worker(w))
  /\ count' = [count EXCEPT ![Worker(w)] = 0]
  /\ UNCHANGED <<json, legacy, marker, failed, position, listing, todo, sent, acked, withdrawn>>

LoadAndSend(w) ==
  /\ at[Worker(w)] = "loaded"
  /\ count[Worker(w)] # MaxRetries
  /\ Goto(Worker(w), "sending")
  /\ count' = [count EXCEPT ![Worker(w)] = 0]
  /\ UNCHANGED <<json, legacy, marker, failed, position, current, listing, todo, claimed, sent,
                 acked, withdrawn>>

-----------------------------------------------------------------------------
(* Faults and restarts *)

\* A file operation fails for another reason than a missing file.  An ack that
\* fails inside a recovery attempt counts as a failure of the attempt; a load,
\* or a drain that cannot prune, gives up the whole worker; all else is logged.
IOError(j) ==
  /\ Faults
  /\ \/ /\ at[j] = "acking"
        /\ IF j \in WorkerJobs THEN Goto(j, "failing") /\ UNCHANGED <<current,
                                                                      claimed>> ELSE Done(j)
        /\ UNCHANGED <<listing, todo, count>>
     \/ /\ at[j] \in {"failing", "writing", "discarding"} \/ (at[j] = "pruning" /\ j = Worker(Startup))
        /\ Done(j)
        /\ count' = [count EXCEPT ![j] = 0]
        /\ UNCHANGED todo
     \/ /\ at[j] \in {"scan", "claimed"} \/ (at[j] = "pruning" /\ j # Worker(Startup))
        /\ Goto(j, "idle")
        /\ current' = [current EXCEPT ![j[2]] = NoEntry]
        /\ claimed' = claimed \ {Of(j)}
        /\ todo' = [todo EXCEPT ![j[2]] = {}]
        /\ count' = [count EXCEPT ![j] = 0]
  /\ UNCHANGED <<json, legacy, marker, failed, position, listing, sent, acked, withdrawn>>

Quiescent == \A j \in Jobs : at[j] = "idle"

\* The process ends, in a crash or with nothing left to do, and a new one
\* starts its recovery.
Restart ==
  /\ Faults \/ Quiescent
  /\ at' = [j \in Jobs |-> IF j = Worker(Startup) THEN "scan" ELSE "idle"]
  /\ count' = [j \in Jobs |-> 0]
  /\ listing' = [w \in Workers |-> {}]
  /\ todo' = [w \in Workers |-> {}]
  /\ current' = [w \in Workers |-> NoEntry]
  /\ claimed' = {}
  /\ UNCHANGED <<json, legacy, marker, failed, position, sent, acked, withdrawn>>

Attempt(j) == Accept(j) \/ Return(j) \/ Withdraw(j) \/ Fail(j) \/ Swallow(j)

Settle(j) == AckRename(j) \/ AckUnlink(j) \/ FailRead(j) \/ FailWrite(j) \/ MoveToFailed(j)

List(w) == Scan(w) \/ ReadEntry(w) \/ Migrate(w)

Load(w) ==
  LoadRead(w) \/ LoadUsedUp(w) \/ LoadTooEarly(w) \/ LoadAndSend(w)

Next ==
  \/ \E e \in Entries : Enqueue(e)
  \/ \E j \in Jobs : Attempt(j) \/ Settle(j) \/ IOError(j)
  \/ \E w \in Workers : StartDrain(w) \/ List(w) \/ EndOfQueue(w) \/ Claim(w) \/ Load(w)
  \/ DeadlinePassed
  \/ Restart

Spec == Init /\ [][Next]_vars

\* Fairness: the calls of the file system and of the channel return, the loops
\* of the workers go on, a backoff that is waited for elapses, and a gateway
\* that has nothing to do is restarted some day.
FairSpec ==
  /\ Spec
  /\ \A j \in Jobs : WF_vars(Attempt(j) \/ Settle(j))
  /\ \A w \in Workers : WF_vars(List(w) \/ EndOfQueue(w) \/ Claim(w) \/ Load(w))
  /\ \A w \in Workers, e \in Entries : SF_vars(LoadAndSend(w) /\ current[w] = e)
  /\ WF_vars(Restart)
-----------------------------------------------------------------------------
(* Safety *)

\* No message is lost: one that was put into the queue is in the queue, or in
\* failed/, or reached the channel, or was withdrawn, through crashes, failing
\* file operations and recoveries that race each other.  Best-effort messages
\* are excepted, see NotDroppedUnsent.
NothingLost ==
  \A e \in Known \ BestEffort :
    json[e] # Absent \/ e \in failed \/ e \in sent \/ e \in withdrawn

\* The same of the best-effort messages whose live delivery asked, with
\* onError, to have failures noticed.
NotDroppedUnsent ==
  \A e \in Known \cap BestEffort \cap OnError :
    json[e] # Absent \/ e \in failed \/ e \in sent \/ e \in withdrawn

\* Two recovery paths never work on one entry at a time.
OneWorkerPerEntry ==
  \A v, w \in Workers :
    /\ at[Worker(v)] \in Holding /\ at[Worker(w)] \in Holding
    /\ current[v] = current[w]
    => v = w

\* An entry is claimed while a worker works on it and not any longer: no exit
\* of the loops leaves behind a claim that shuts the entry out for good.
ClaimsHeld ==
  claimed = {current[w] : w \in {v \in Workers : at[Worker(v)] \in Holding}}

\* No recovery path sends an entry that another one acknowledged: the file read
\* again under the claim tells the truth, whatever the snapshots say.  It does so
\* until a path without a claim writes back what it read before that ack: the
\* deferral for the recovery budget, the directory scan of a legacy entry, or the
\* failure of the live delivery.
NotResentAfterAck ==
  \A w \in Workers : at[Worker(w)] = "sending" => current[w] \notin acked

(* Refinement *)

Box == {e \in Entries : json[e] # Absent}

Promise == INSTANCE Outbox WITH
  Messages <- Entries, Unreliable <- BestEffort,
  known <- Known, box <- Box, reached <- sent, given <- withdrawn \cup failed

\* The queue implements the outbox: whatever the files, the live deliveries and
\* the recoveries do, an entry leaves the directory only for one of the reasons
\* the outbox allows.
ImplementsOutbox == Promise!Spec

(* Liveness *)

\* Every entry leaves the queue: it is delivered, moved to failed/ or, after
\* MaxRetries failures or deferrals, pruned by one of the next startups.
EntriesLeaveQueue == \A e \in Entries : json[e] # Absent ~> json[e] = Absent
=============================================================================
