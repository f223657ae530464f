------------------------- MODULE DeliveryQueueProofs -------------------------
(***************************************************************************)
(* What holds of the delivery queue for any set of entries, any number of  *)
(* drains, any retry bound, with or without faults: the claims are exact,  *)
(* an entry has at most one recovery worker, and no message is lost.       *)
(***************************************************************************)
EXTENDS DeliveryQueue, TLAPS, FiniteSetTheorems

\* Steps at which a worker has an entry.
Working == Holding \cup {"migrating"}

\* A worker has an entry just while it holds a claim or writes back a legacy one.
WorkersHaveEntries ==
  \A w \in Workers : at[Worker(w)] \in Working <=> current[w] \in Entries

\* Steps of the workers' loops.
Loop == {"scan", "listing", "migrating", "claimed", "loaded", "pruning"}

\* The job of an entry is never inside a worker's loop.
EntryJobsOnlySend ==
  \A j \in Jobs \ WorkerJobs : at[j] \notin Loop

\* An attempt gets to the ack only if the message is out, or was withdrawn, or
\* is one whose errors are swallowed.
AcksAreEarned ==
  \A j \in Jobs :
    /\ at[j] = "accepted" => Of(j) \in sent
    /\ at[j] = "acking" => Of(j) \in sent \cup withdrawn \cup BestEffort

ClaimInv == WorkersHaveEntries /\ ClaimsHeld /\ OneWorkerPerEntry

\* The inductive invariant.
QueueInv ==
  TypeOK /\ EntryJobsOnlySend /\ ClaimInv /\ AcksAreEarned /\ NothingLost

-----------------------------------------------------------------------------
(* Jobs *)

\* Worker jobs are the jobs of the workers, one each.
LEMMA WorkerFacts ==
  /\ \A w \in Workers : Worker(w) \in WorkerJobs /\ Worker(w) \in Jobs /\ Worker(w)[2] = w
  /\ \A v, w \in Workers : Worker(v) = Worker(w) => v = w
  /\ \A j \in WorkerJobs : j[2] \in Workers /\ j = Worker(j[2])
BY DEF Worker, WorkerJobs, Jobs

\* The jobs of entries are no worker's.
LEMMA EntryFacts ==
  /\ \A e \in Entries : /\ Live(e) \in Jobs /\ Live(e) \notin WorkerJobs /\ Live(e)[2] = e
                        /\ Defer(e) \in Jobs /\ Defer(e) \notin WorkerJobs /\ Defer(e)[2] = e
  /\ \A j \in Jobs : j \notin WorkerJobs => j[2] \in Entries
BY DEF Live, Defer, EntryJobs, WorkerJobs, Jobs

\* Startup recovery is one of the workers.
LEMMA StartupIsWorker == Startup \in Workers /\ Worker(Startup) \in Jobs
BY WorkerFacts DEF Workers

-----------------------------------------------------------------------------
(* Types *)

\* A fresh entry's rank is positive and at most the number of entries.
LEMMA RankBounded ==
  ASSUME NEW e \in Entries, position[e] = 0
  PROVE  Cardinality(Known) + 1 \in 1 .. Cardinality(Entries)
<1>1. Known \subseteq Entries \ {e}
  BY DEF Known
<1>2. IsFiniteSet(Entries)
  BY ConstantsAssumption
<1>3. Cardinality(Entries \ {e}) = Cardinality(Entries) - 1 /\ IsFiniteSet(Entries \ {e})
  BY <1>2, FS_RemoveElement
<1>4. Cardinality(Known) <= Cardinality(Entries \ {e}) /\ IsFiniteSet(Known)
  BY <1>1, <1>3, FS_Subset
<1>5. Cardinality(Known) \in Nat /\ Cardinality(Entries) \in Nat
  BY <1>2, <1>4, FS_CardinalityType
<1> QED BY <1>3, <1>4, <1>5

\* TypeOK is kept by the steps of a job.
LEMMA JobTypes ==
  ASSUME TypeOK, WorkersHaveEntries, NEW j \in Jobs, Attempt(j) \/ Settle(j) \/ IOError(j)
  PROVE  TypeOK'
<1>1. Of(j) \in Entries \/ at[j] \notin Holding
  BY WorkerFacts, EntryFacts DEF Of, WorkersHaveEntries, Working
<1>2. MaxRetries \in Nat \ {0}
  BY ConstantsAssumption
<1>3. CASE Accept(j)
  BY <1>1, <1>3 DEF TypeOK, Accept, Goto, Holding, Steps
<1>4. CASE Return(j)
  BY <1>4 DEF TypeOK, Return, Goto, Steps
<1>5. CASE Withdraw(j)
  BY <1>1, <1>5 DEF TypeOK, Withdraw, Goto, Holding, Steps
<1>6. CASE Fail(j)
  BY <1>6 DEF TypeOK, Fail, AfterError, Goto, Steps
<1>7. CASE Swallow(j)
  BY <1>7 DEF TypeOK, Swallow, Goto, Steps
<1>8. CASE AckRename(j)
  BY <1>1, <1>8 DEF TypeOK, AckRename, Goto, Holding, Steps
<1>9. CASE AckUnlink(j)
  BY <1>9 DEF TypeOK, AckUnlink, Done, Goto, Steps
<1>10. CASE FailRead(j)
  <2>1. Of(j) \in Entries
    BY <1>1, <1>10 DEF FailRead, Holding, Steps
  <2>2. json[Of(j)] \in Counts \cup {Absent}
    BY <2>1 DEF TypeOK
  <2> QED BY <1>10, <2>2 DEF TypeOK, FailRead, Done, Goto, Steps
<1>11. CASE FailWrite(j)
  <2>1. Counted(count[j]) \in Counts /\ 0 \in Counts
    BY <1>2 DEF TypeOK, Counted, Counts
  <2> QED BY <1>1, <1>11, <2>1 DEF TypeOK, FailWrite, Done, Goto, Holding, Steps
<1>12. CASE MoveToFailed(j)
  BY <1>1, <1>12 DEF TypeOK, MoveToFailed, Done, Goto, Holding, Steps
<1>13. CASE IOError(j)
  <2>1. 0 \in Counts
    BY <1>2 DEF Counts
  <2> QED BY <1>13, <2>1 DEF TypeOK, IOError, Done, Goto, Steps
<1> QED BY <1>3, <1>4, <1>5, <1>6, <1>7, <1>8, <1>9, <1>10, <1>11, <1>12, <1>13
        DEF Attempt, Settle

\* TypeOK is kept by the steps of a worker's loop.
LEMMA WorkerTypes ==
  ASSUME TypeOK, WorkersHaveEntries, NEW w \in Workers,
         StartDrain(w) \/ List(w) \/ EndOfQueue(w) \/ Claim(w) \/ Load(w)
  PROVE  TypeOK'
<1>1. Worker(w) \in Jobs
  BY WorkerFacts
<1>2. CASE StartDrain(w)
  BY <1>1, <1>2 DEF TypeOK, StartDrain, Goto, Steps
<1>3. CASE List(w)
  <2>1. CASE Scan(w)
    BY <1>1, <2>1 DEF TypeOK, Scan, Goto, Steps
  <2>2. CASE ReadEntry(w)
    <3>1. PICK e \in listing[w] :
            /\ listing' = [listing EXCEPT ![w] = @ \ {e}]
            /\ \/ UNCHANGED <<at, count, current, todo>>
               \/ /\ json[e] # Absent
                  /\ Goto(Worker(w), "migrating")
                  /\ current' = [current EXCEPT ![w] = e]
                  /\ count' = [count EXCEPT ![Worker(w)] = json[e]]
                  /\ UNCHANGED todo
               \/ Take(w, e) /\ UNCHANGED <<at, count, current>>
      BY <2>2 DEF ReadEntry
    <3>2. e \in Entries /\ json[e] \in Counts \cup {Absent}
      BY DEF TypeOK
    <3>3. listing' \in [Workers -> SUBSET Entries]
      BY <3>1 DEF TypeOK
    <3>4. todo' \in [Workers -> SUBSET Entries]
      BY <3>1, <3>2 DEF TypeOK, Take
    <3>5. /\ at' \in [Jobs -> Steps]
          /\ count' \in [Jobs -> Counts]
          /\ current' \in [Workers -> Entries \cup {NoEntry}]
      BY <1>1, <3>1, <3>2 DEF TypeOK, Goto, Steps
    <3> QED BY <2>2, <3>3, <3>4, <3>5 DEF TypeOK, ReadEntry
  <2>3. CASE Migrate(w)
    <3>1. current[w] \in Entries
      BY <2>3 DEF Migrate, WorkersHaveEntries, Working
    <3>2. 0 \in Counts /\ count[Worker(w)] \in Counts
      BY <1>1, ConstantsAssumption DEF Counts, TypeOK
    <3>3. todo' \in [Workers -> SUBSET Entries]
      BY <2>3, <3>1 DEF TypeOK, Migrate, Take
    <3>4. json' \in [Entries -> Counts \cup {Absent}] /\ legacy' \subseteq Entries
          /\ acked' \subseteq Entries
      BY <2>3, <3>1, <3>2 DEF TypeOK, Migrate
    <3>5. /\ at' \in [Jobs -> Steps]
          /\ count' \in [Jobs -> Counts]
          /\ current' \in [Workers -> Entries \cup {NoEntry}]
      BY <1>1, <2>3, <3>2 DEF TypeOK, Migrate, Goto, Steps
    <3> QED BY <2>3, <3>3, <3>4, <3>5 DEF TypeOK, Migrate
  <2> QED BY <1>3, <2>1, <2>2, <2>3 DEF List
<1>4. CASE EndOfQueue(w)
  BY <1>1, <1>4 DEF TypeOK, EndOfQueue, Goto, Steps
<1>5. CASE Claim(w)
  <2>1. PICK e \in todo[w] :
          /\ todo' = [todo EXCEPT ![w] = @ \ {e}]
          /\ IF Free(e)
             THEN /\ claimed' = claimed \cup {e}
                  /\ current' = [current EXCEPT ![w] = e]
                  /\ Goto(Worker(w), "claimed")
             ELSE Goto(Worker(w), "next") /\ UNCHANGED <<claimed, current>>
    BY <1>5 DEF Claim
  <2>2. e \in Entries
    BY DEF TypeOK
  <2>3. todo' \in [Workers -> SUBSET Entries]
    BY <2>1 DEF TypeOK
  <2>4. at' \in [Jobs -> Steps] /\ claimed' \subseteq Entries
        /\ current' \in [Workers -> Entries \cup {NoEntry}]
    BY <1>1, <2>1, <2>2 DEF TypeOK, Goto, Steps
  <2> QED BY <1>5, <2>3, <2>4 DEF TypeOK, Claim
<1>6. CASE LoadRead(w)
  <2>1. current[w] \in Entries
    BY <1>6 DEF LoadRead, WorkersHaveEntries, Working, Holding, Steps
  <2>2. StillPending(current[w]) => json[current[w]] \in Counts
    BY <2>1 DEF TypeOK, StillPending
  <2> QED BY <1>1, <1>6, <2>2 DEF TypeOK, LoadRead, Done, Goto, Steps
<1>8. CASE LoadUsedUp(w) \/ LoadTooEarly(w) \/ LoadAndSend(w)
  <2>1. 0 \in Counts
    BY ConstantsAssumption DEF Counts
  <2> QED BY <1>1, <1>8, <2>1 DEF TypeOK, LoadUsedUp, LoadTooEarly, LoadAndSend, Done, Goto, Steps
<1> QED BY <1>2, <1>3, <1>4, <1>5, <1>6, <1>8 DEF Load

-----------------------------------------------------------------------------
(* What a step of a worker's loop leaves alone *)

\* It stays where it is, with its entry, or goes on within its loop or to a send.
LEMMA WorkersMove ==
  ASSUME NEW w \in Workers,
         StartDrain(w) \/ List(w) \/ EndOfQueue(w) \/ Claim(w) \/ Load(w)
  PROVE  \/ UNCHANGED <<at, current>>
         \/ \E s \in Steps \ {"accepted", "acking"} : Goto(Worker(w), s)
BY DEF StartDrain, List, Scan, ReadEntry, Migrate, EndOfQueue, Claim, Load, LoadRead,
       LoadUsedUp, LoadTooEarly, LoadAndSend, Done, Steps

\* The entries of the other workers stay theirs.
LEMMA OthersKeepTheirEntries ==
  ASSUME TypeOK, NEW w \in Workers,
         StartDrain(w) \/ List(w) \/ EndOfQueue(w) \/ Claim(w) \/ Load(w)
  PROVE  \A v \in Workers : v # w => current'[v] = current[v]
<1>1. CASE Claim(w)
  BY <1>1 DEF Claim, TypeOK
<1>2. CASE Load(w)
  BY <1>2, WorkerFacts DEF Load, LoadRead, LoadUsedUp, LoadTooEarly, LoadAndSend,
     Done
<1>3. CASE List(w)
  BY <1>3 DEF List, Scan, ReadEntry, Migrate, TypeOK
<1> QED BY <1>1, <1>2, <1>3 DEF StartDrain, EndOfQueue

\* It may write its own entry, while it has one, and as a file with a count.
LEMMA FilesRewritten ==
  ASSUME TypeOK, WorkersHaveEntries, NEW w \in Workers,
         StartDrain(w) \/ List(w) \/ EndOfQueue(w) \/ Claim(w) \/ Load(w)
  PROVE  /\ \A e \in Entries : json[e] # Absent => json'[e] # Absent
         /\ \/ json' = json
            \/ current[w] \in Entries /\ at[Worker(w)] = "migrating"
         /\ \A e \in Entries : e # current[w] => json'[e] = json[e]
<1>1. CASE Migrate(w)
  <2>1. current[w] \in Entries /\ at[Worker(w)] = "migrating"
    BY <1>1 DEF Migrate, WorkersHaveEntries, Working, Holding, Steps
  <2>2. count[Worker(w)] # Absent
    BY WorkerFacts, ConstantsAssumption DEF TypeOK, Counts, Absent
  <2>3. json' = json \/ json' = [json EXCEPT ![current[w]] = count[Worker(w)]]
    BY <1>1 DEF Migrate
  <2> QED BY <2>1, <2>2, <2>3 DEF TypeOK
<1>2. CASE ~Migrate(w)
  BY <1>2 DEF StartDrain, List, Scan, ReadEntry, EndOfQueue, Claim, Load, LoadRead, LoadUsedUp,
     LoadTooEarly, LoadAndSend
<1> QED BY <1>1, <1>2

-----------------------------------------------------------------------------
(* Claims *)

\* A step within the stretch in which a worker holds its claim, or without.
LEMMA ClaimsKeptByGoto ==
  ASSUME TypeOK, ClaimInv, NEW j \in Jobs, NEW s \in Steps, Goto(j, s),
         UNCHANGED <<current, claimed>>,
         j \in WorkerJobs => /\ s \in Holding <=> at[j] \in Holding
                             /\ s \in Working <=> at[j] \in Working
  PROVE  ClaimInv'
<1>1. \A w \in Workers : /\ at'[Worker(w)] \in Holding <=> at[Worker(w)] \in Holding
                         /\ at'[Worker(w)] \in Working <=> at[Worker(w)] \in Working
  BY WorkerFacts DEF TypeOK, Goto
<1> QED BY <1>1 DEF ClaimInv, WorkersHaveEntries, ClaimsHeld, OneWorkerPerEntry

\* A worker that held a claim gives it up, and nobody else's.
LEMMA ClaimsKeptByRelease ==
  ASSUME TypeOK, ClaimInv, NEW w \in Workers, at[Worker(w)] # "migrating",
         NEW s \in Steps \ Working, Goto(Worker(w), s),
         current' = [current EXCEPT ![w] = NoEntry],
         claimed' = claimed \ {current[w]}
  PROVE  ClaimInv'
<1>1. \A v \in Workers : v # w => /\ at'[Worker(v)] = at[Worker(v)]
                                  /\ current'[v] = current[v]
  BY WorkerFacts DEF TypeOK, Goto
<1>2. at'[Worker(w)] \notin Working /\ at'[Worker(w)] \notin Holding
  BY WorkerFacts DEF TypeOK, Goto, Working
<1>3. WorkersHaveEntries' /\ OneWorkerPerEntry'
  <2>1. current'[w] = NoEntry /\ NoEntry \notin Entries
    BY ConstantsAssumption DEF TypeOK
  <2> QED BY <1>1, <1>2, <2>1 DEF ClaimInv, WorkersHaveEntries, OneWorkerPerEntry
<1>4. ASSUME NEW e
      PROVE  e \in claimed' <=> \E v \in Workers : at'[Worker(v)] \in Holding /\ current'[v] = e
  <2>1. e \in claimed <=> \E v \in Workers : at[Worker(v)] \in Holding /\ current[v] = e
    BY DEF ClaimInv, ClaimsHeld
  <2>2. CASE at[Worker(w)] \in Holding
    <3>1. \A v \in Workers : at[Worker(v)] \in Holding /\ current[v] = current[w] => v = w
      BY <2>2 DEF ClaimInv, OneWorkerPerEntry
    <3> QED BY <1>1, <1>2, <2>1, <3>1
  <2>3. CASE at[Worker(w)] \notin Holding
    <3>1. \A v \in Workers : at[Worker(v)] \in Holding => current[v] # current[w]
      BY <2>3 DEF ClaimInv, WorkersHaveEntries, Working
    <3> QED BY <1>1, <1>2, <2>1, <3>1
  <2> QED BY <2>2, <2>3
<1>5. ClaimsHeld'
  BY <1>4 DEF ClaimsHeld
<1> QED BY <1>3, <1>5 DEF ClaimInv

\* A job that is done with its entry gives up its claim, if it has one.
LEMMA ClaimsKeptByDone ==
  ASSUME TypeOK, ClaimInv, NEW j \in Jobs, Done(j), at[j] \in Holding
  PROVE  ClaimInv'
<1>1. CASE j \in WorkerJobs
  <2>1. PICK w \in Workers : j = Worker(w)
    BY <1>1, WorkerFacts
  <2>2. Of(j) = current[w]
    BY <1>1, <2>1, WorkerFacts DEF Of
  <2>3. current' = [current EXCEPT ![w] = NoEntry]
    BY <2>1, WorkerFacts DEF Done, TypeOK
  <2> QED BY <1>1, <2>1, <2>2, <2>3, ClaimsKeptByRelease DEF Done, Steps, Working, Holding
<1>2. CASE j \notin WorkerJobs
  <2>1. current' = current /\ claimed' = claimed /\ Goto(j, "idle")
    BY <1>2, WorkerFacts DEF Done, TypeOK
  <2> QED BY <1>2, <2>1, ClaimsKeptByGoto DEF Steps
<1> QED BY <1>1, <1>2

\* A worker that holds no claim, before and after, may read entries.
LEMMA ClaimsKeptOutside ==
  ASSUME TypeOK, ClaimInv, NEW w \in Workers, at[Worker(w)] \notin Holding,
         at'[Worker(w)] \notin Holding, claimed' = claimed,
         \A v \in Workers : v # w => at'[Worker(v)] = at[Worker(v)] /\ current'[v] = current[v],
         at'[Worker(w)] \in Working <=> current'[w] \in Entries
  PROVE  ClaimInv'
<1>1. WorkersHaveEntries'
  BY DEF ClaimInv, WorkersHaveEntries
<1>2. OneWorkerPerEntry'
  BY DEF ClaimInv, OneWorkerPerEntry
<1>3. ASSUME NEW e
      PROVE  e \in claimed' <=> \E v \in Workers : at'[Worker(v)] \in Holding /\ current'[v] = e
  BY DEF ClaimInv, ClaimsHeld
<1>4. ClaimsHeld'
  BY <1>3 DEF ClaimsHeld
<1> QED BY <1>1, <1>2, <1>4 DEF ClaimInv

\* A delivery attempt, its outcome and a file error keep claims and work in step.
LEMMA JobClaims ==
  ASSUME TypeOK, EntryJobsOnlySend, ClaimInv, NEW j \in Jobs,
         Attempt(j) \/ Settle(j) \/ IOError(j)
  PROVE  ClaimInv'
<1>1. CASE Attempt(j)
  <2>1. PICK s \in {"accepted", "acking", "failing", "discarding"} : Goto(j, s)
    BY <1>1 DEF Attempt, Accept, Return, Withdraw, Fail, Swallow, AfterError
  <2>2. at[j] \in Holding /\ s \in Holding /\ s \in Steps /\ UNCHANGED <<current, claimed>>
    BY <1>1, <2>1 DEF Attempt, Accept, Return, Withdraw, Fail, Swallow, Holding, Steps
  <2> QED BY <2>1, <2>2, ClaimsKeptByGoto DEF Working
<1>2. CASE Settle(j)
  <2>1. /\ at[j] \in Holding
        /\ \/ Done(j)
           \/ UNCHANGED <<current, claimed>> /\ \E s \in {"unlinking", "writing"} : Goto(j, s)
    BY <1>2 DEF Settle, AckRename, AckUnlink, FailRead, FailWrite, MoveToFailed, Holding, Steps
  <2> QED BY <2>1, ClaimsKeptByGoto, ClaimsKeptByDone DEF Working, Holding, Steps
<1>3. CASE IOError(j)
  <2>1. \/ at[j] \in Holding /\ Done(j)
        \/ at[j] = "acking" /\ Goto(j, "failing") /\ UNCHANGED <<current, claimed>>
        \/ /\ at[j] \in {"scan", "claimed", "pruning"}
           /\ Goto(j, "idle")
           /\ current' = [current EXCEPT ![j[2]] = NoEntry]
           /\ claimed' = claimed \ {Of(j)}
    BY <1>3 DEF IOError, Holding, Steps
  <2>2. CASE at[j] \in Holding /\ Done(j)
    BY <2>2, ClaimsKeptByDone
  <2>3. CASE at[j] = "acking" /\ Goto(j, "failing") /\ UNCHANGED <<current, claimed>>
    BY <2>3, ClaimsKeptByGoto DEF Working, Holding, Steps
  <2>4. CASE /\ at[j] \in {"scan", "claimed", "pruning"}
             /\ Goto(j, "idle")
             /\ current' = [current EXCEPT ![j[2]] = NoEntry]
             /\ claimed' = claimed \ {Of(j)}
    <3>1. PICK w \in Workers : j = Worker(w) /\ j[2] = w /\ Of(j) = current[w]
      BY <2>4, WorkerFacts DEF EntryJobsOnlySend, Loop, Of
    <3> QED BY <2>4, <3>1, ClaimsKeptByRelease DEF Steps, Working, Holding
  <2> QED BY <2>1, <2>2, <2>3, <2>4
<1> QED BY <1>1, <1>2, <1>3

\* A worker claims its entry before it works on it, and one nobody has claimed.
LEMMA WorkerClaims ==
  ASSUME TypeOK, ClaimInv, NEW w \in Workers,
         StartDrain(w) \/ List(w) \/ EndOfQueue(w) \/ Claim(w) \/ Load(w)
  PROVE  ClaimInv'
<1>1. Worker(w) \in Jobs /\ Worker(w) \in WorkerJobs
  BY WorkerFacts
<1>2. CASE StartDrain(w) \/ Scan(w) \/ EndOfQueue(w)
  <2>1. PICK s \in {"scan", "listing", "idle"} : Goto(Worker(w), s)
    BY <1>2 DEF StartDrain, Scan, EndOfQueue
  <2>2. at[Worker(w)] \notin Working /\ at[Worker(w)] \notin Holding
        /\ UNCHANGED <<current, claimed>>
    BY <1>2 DEF StartDrain, Scan, EndOfQueue, Between, Working, Holding, Steps
  <2> QED BY <1>1, <2>1, <2>2, ClaimsKeptByGoto DEF Holding, Working, Steps
<1>5. CASE ReadEntry(w) \/ Migrate(w)
  <2>1. \/ UNCHANGED <<at, current>>
        \/ at[Worker(w)] = "listing" /\ Goto(Worker(w), "migrating")
           /\ \E e \in Entries : current' = [current EXCEPT ![w] = e]
        \/ at[Worker(w)] = "migrating" /\ Goto(Worker(w), "listing")
           /\ current' = [current EXCEPT ![w] = NoEntry]
    BY <1>5 DEF ReadEntry, Migrate, TypeOK
  <2>2. claimed' = claimed
    BY <1>5 DEF ReadEntry, Migrate
  <2>3. CASE UNCHANGED <<at, current>>
    BY <2>2, <2>3 DEF ClaimInv, WorkersHaveEntries, ClaimsHeld, OneWorkerPerEntry
  <2>4. CASE ~UNCHANGED <<at, current>>
    <3>1. \A v \in Workers : v # w => /\ at'[Worker(v)] = at[Worker(v)]
                                      /\ current'[v] = current[v]
      BY <2>1, <2>4, WorkerFacts DEF TypeOK, Goto
    <3>2. /\ at[Worker(w)] \notin Holding /\ at'[Worker(w)] \notin Holding
          /\ at'[Worker(w)] \in Working <=> current'[w] \in Entries
      BY <1>1, <2>1, <2>4, ConstantsAssumption DEF TypeOK, Goto, Holding, Working, Steps
    <3> QED BY <2>2, <3>1, <3>2, ClaimsKeptOutside
  <2> QED BY <2>3, <2>4
<1>3. CASE Claim(w)
  <2>1. PICK e \in todo[w] :
          IF Free(e)
          THEN /\ claimed' = claimed \cup {e}
               /\ current' = [current EXCEPT ![w] = e]
               /\ Goto(Worker(w), "claimed")
          ELSE Goto(Worker(w), "next") /\ UNCHANGED <<claimed, current>>
    BY <1>3 DEF Claim
  <2>2. at[Worker(w)] \notin Working /\ at[Worker(w)] \notin Holding /\ e \in Entries
    BY <1>3 DEF Claim, Between, Working, Holding, Steps, TypeOK
  <2>3. CASE ~Free(e)
    BY <1>1, <2>1, <2>2, <2>3, ClaimsKeptByGoto DEF Working, Holding, Steps
  <2>4. CASE Free(e)
    <3>1. \A v \in Workers : v # w => /\ at'[Worker(v)] = at[Worker(v)]
                                      /\ current'[v] = current[v]
      BY <2>1, <2>4, WorkerFacts DEF TypeOK, Goto
    <3>2. at'[Worker(w)] \in Holding /\ at'[Worker(w)] \in Working /\ current'[w] = e
      BY <1>1, <2>1, <2>4 DEF TypeOK, Goto, Working, Holding, Steps
    <3>3. WorkersHaveEntries'
      BY <2>2, <3>1, <3>2 DEF ClaimInv, WorkersHaveEntries
    <3>4. \A v \in Workers : at[Worker(v)] \in Holding => current[v] # e
      BY <2>4 DEF Free, ClaimInv, ClaimsHeld
    <3>5. OneWorkerPerEntry'
      BY <3>1, <3>2, <3>4 DEF ClaimInv, OneWorkerPerEntry
    <3>6. ASSUME NEW f
          PROVE  f \in claimed'
                   <=> \E v \in Workers : at'[Worker(v)] \in Holding /\ current'[v] = f
      <4>1. f \in claimed <=> \E v \in Workers : at[Worker(v)] \in Holding /\ current[v] = f
        BY DEF ClaimInv, ClaimsHeld
      <4>2. f \in claimed' <=> f \in claimed \/ f = e
        BY <2>1, <2>4
      <4> QED BY <2>2, <3>1, <3>2, <4>1, <4>2
    <3>7. ClaimsHeld'
      BY <3>6 DEF ClaimsHeld
    <3> QED BY <3>3, <3>5, <3>7 DEF ClaimInv
  <2> QED BY <2>3, <2>4
<1>4. CASE Load(w)
  <2>1. at[Worker(w)] \in Holding
    BY <1>4 DEF Load, LoadRead, LoadUsedUp, LoadTooEarly, LoadAndSend, Holding, Steps
  <2>2. \/ Done(Worker(w))
        \/ /\ UNCHANGED <<current, claimed>>
           /\ \E s \in {"loaded", "pruning", "sending"} : Goto(Worker(w), s)
    BY <1>4 DEF Load, LoadRead, LoadUsedUp, LoadTooEarly, LoadAndSend
  <2> QED BY <1>1, <2>1, <2>2, ClaimsKeptByGoto, ClaimsKeptByDone DEF Working, Holding, Steps
<1> QED BY <1>2, <1>3, <1>4, <1>5 DEF List

-----------------------------------------------------------------------------
(* Messages *)

\* What job j works on changes only when j is a worker that starts or ends.
LEMMA SameWork ==
  ASSUME NEW j \in Jobs, j \in WorkerJobs => current'[j[2]] = current[j[2]]
  PROVE  Of(j)' = Of(j)
BY DEF Of

\* Nothing is lost by a step that only adds to the places a message can be.
LEMMA NothingLostByAdding ==
  ASSUME NothingLost, UNCHANGED position,
         \A e \in Entries : json[e] # Absent => json'[e] # Absent,
         failed \subseteq failed', sent \subseteq sent', withdrawn \subseteq withdrawn'
  PROVE  NothingLost'
BY DEF NothingLost, Known

\* Acks stay earned if only job i moves, to neither of the steps before an ack.
LEMMA AcksEarnedByOthers ==
  ASSUME TypeOK, AcksAreEarned, NEW i \in Jobs, NEW s, Goto(i, s),
         s \notin {"accepted", "acking"},
         sent \subseteq sent', withdrawn \subseteq withdrawn',
         \A w \in Workers : i # Worker(w) => current'[w] = current[w]
  PROVE  AcksAreEarned'
<1>1. SUFFICES ASSUME NEW j \in Jobs
               PROVE  /\ at'[j] = "accepted" => Of(j)' \in sent'
                      /\ at'[j] = "acking" => Of(j)' \in sent' \cup withdrawn' \cup BestEffort
  BY DEF AcksAreEarned
<1>2. CASE j = i
  BY <1>2 DEF TypeOK, Goto
<1>3. CASE j # i
  <2>1. at'[j] = at[j]
    BY <1>3 DEF TypeOK, Goto
  <2>2. Of(j)' = Of(j)
    BY <1>3, WorkerFacts, SameWork
  <2> QED BY <2>1, <2>2 DEF AcksAreEarned
<1> QED BY <1>2, <1>3

\* The steps of a job.
LEMMA JobMessages ==
  ASSUME TypeOK, EntryJobsOnlySend, WorkersHaveEntries, AcksAreEarned, NothingLost,
         NEW j \in Jobs, Attempt(j) \/ Settle(j) \/ IOError(j)
  PROVE  AcksAreEarned' /\ NothingLost'
<1>1. at[j] \in Holding => Of(j) \in Entries
  BY WorkerFacts, EntryFacts DEF Of, WorkersHaveEntries, Working
<1>2. CASE Attempt(j)
  <2>1. /\ UNCHANGED <<json, failed, position, current>>
        /\ sent \subseteq sent' /\ withdrawn \subseteq withdrawn'
    BY <1>2 DEF Attempt, Accept, Return, Withdraw, Fail, Swallow
  <2>2. Of(j)' = Of(j)
    BY <2>1, SameWork
  <2>3. \A i \in Jobs : i # j => at'[i] = at[i] /\ Of(i)' = Of(i)
    BY <1>2, <2>1, SameWork DEF Attempt, Accept, Return, Withdraw, Fail, Swallow, Goto, TypeOK
  <2>4. /\ at'[j] = "accepted" => Of(j) \in sent'
        /\ at'[j] = "acking" => Of(j) \in sent' \cup withdrawn' \cup BestEffort
    BY <1>2 DEF Attempt, Accept, Return, Withdraw, Fail, Swallow, AfterError, Goto, TypeOK,
                AcksAreEarned
  <2>5. AcksAreEarned'
    BY <2>1, <2>2, <2>3, <2>4 DEF AcksAreEarned
  <2>6. NothingLost'
    BY <2>1, NothingLostByAdding
  <2> QED BY <2>5, <2>6
<1>3. CASE Settle(j)
  <2>1. PICK s \in {"unlinking", "writing", "next", "idle"} :
          /\ Goto(j, s)
          /\ UNCHANGED <<position, sent, withdrawn>>
          /\ \A w \in Workers : j # Worker(w) => current'[w] = current[w]
    BY <1>3 DEF Settle, AckRename, AckUnlink, FailRead, FailWrite, MoveToFailed, Done
  <2>2. AcksAreEarned'
    BY <2>1, AcksEarnedByOthers
  <2>3. CASE AckRename(j)
    <3>1. Of(j) \in sent \cup withdrawn \cup BestEffort /\ Of(j) \in Entries
      BY <1>1, <2>3 DEF AckRename, AcksAreEarned, Holding, Steps
    <3>2. \A e \in Entries : e # Of(j) => json'[e] = json[e]
      BY <2>3, <3>1 DEF AckRename, TypeOK
    <3> QED BY <2>1, <2>2, <2>3, <3>1, <3>2 DEF AckRename, NothingLost, Known
  <2>4. CASE MoveToFailed(j)
    <3>1. Of(j) \in Entries
      BY <1>1, <2>4 DEF MoveToFailed, Holding, Steps
    <3>2. /\ \A e \in Entries : e # Of(j) => json'[e] = json[e]
          /\ json[Of(j)] # Absent => Of(j) \in failed'
          /\ json[Of(j)] = Absent => json' = json
          /\ failed \subseteq failed'
      BY <2>4, <3>1 DEF MoveToFailed, TypeOK
    <3> QED BY <2>1, <2>2, <3>1, <3>2 DEF NothingLost, Known
  <2>5. CASE AckUnlink(j) \/ FailRead(j)
    BY <2>1, <2>2, <2>5, NothingLostByAdding DEF AckUnlink, FailRead
  <2>6. CASE FailWrite(j)
    <3>1. Counted(count[j]) # Absent
      BY ConstantsAssumption DEF TypeOK, Counted, Counts, Absent
    <3>2. Of(j) \in Entries
      BY <1>1, <2>6 DEF FailWrite, Holding, Steps
    <3>3. \A e \in Entries : json[e] # Absent => json'[e] # Absent
      BY <2>6, <3>1, <3>2 DEF FailWrite, TypeOK
    <3> QED BY <2>1, <2>2, <2>6, <3>3, NothingLostByAdding DEF FailWrite
  <2> QED BY <1>3, <2>3, <2>4, <2>5, <2>6 DEF Settle
<1>4. CASE IOError(j)
  <2>1. UNCHANGED <<json, failed, position, sent, withdrawn>>
    BY <1>4 DEF IOError
  <2>2. PICK s \in {"failing", "next", "idle"} :
          /\ Goto(j, s)
          /\ \A w \in Workers : j # Worker(w) => current'[w] = current[w]
    <3>1. at[j] \in {"scan", "claimed", "pruning"} => \E v \in Workers : j = Worker(v) /\ j[2] = v
      BY WorkerFacts DEF EntryJobsOnlySend, Loop
    <3> QED BY <1>4, <3>1 DEF IOError, Done, TypeOK
  <2> QED BY <2>1, <2>2, AcksEarnedByOthers, NothingLostByAdding
<1> QED BY <1>2, <1>3, <1>4

\* The steps of a worker's loop.
LEMMA WorkerMessages ==
  ASSUME TypeOK, WorkersHaveEntries, AcksAreEarned, NothingLost, NEW w \in Workers,
         StartDrain(w) \/ List(w) \/ EndOfQueue(w) \/ Claim(w) \/ Load(w)
  PROVE  AcksAreEarned' /\ NothingLost'
<1>1. UNCHANGED <<failed, position, sent, withdrawn>>
  BY DEF StartDrain, List, Scan, ReadEntry, Migrate, EndOfQueue, Claim, Load,
         LoadRead, LoadUsedUp, LoadTooEarly, LoadAndSend
<1>2. \A v \in Workers : v # w => current'[v] = current[v]
  BY OthersKeepTheirEntries
<1>3. UNCHANGED <<at, current>> \/ \E s \in Steps \ {"accepted", "acking"} : Goto(Worker(w), s)
  BY WorkersMove
<1>4. \A e \in Entries : json[e] # Absent => json'[e] # Absent
  BY FilesRewritten
<1>5. CASE UNCHANGED <<at, current>>
  <2>1. \A j \in Jobs : Of(j)' = Of(j)
    BY <1>5, SameWork
  <2> QED BY <1>1, <1>4, <1>5, <2>1, NothingLostByAdding DEF AcksAreEarned
<1>6. CASE \E s \in Steps \ {"accepted", "acking"} : Goto(Worker(w), s)
  BY <1>1, <1>2, <1>4, <1>6, WorkerFacts, AcksEarnedByOthers, NothingLostByAdding
<1> QED BY <1>3, <1>5, <1>6

-----------------------------------------------------------------------------
(* The whole invariant *)

\* The entries an earlier process left have files and no jobs.
LEMMA InitInv == Init => QueueInv
<1> SUFFICES ASSUME Init PROVE QueueInv
  OBVIOUS
<1>1. 0 \in Counts /\ Cardinality(Entries) \in Nat
  BY ConstantsAssumption, FS_CardinalityType DEF Counts
<1>2. \A e \in Entries : Cardinality(Entries) # 0
  BY ConstantsAssumption, FS_EmptySet
<1>3. position \in [Entries -> 0 .. Cardinality(Entries)]
  BY <1>1, <1>2 DEF Init
<1>4. TypeOK
  BY <1>1, <1>3 DEF Init, TypeOK, Steps
<1>5. \A j \in Jobs : at[j] \in {"scan", "idle"} /\ (j \notin WorkerJobs => at[j] = "idle")
  BY StartupIsWorker, WorkerFacts DEF Init
<1>6. EntryJobsOnlySend
  BY <1>5 DEF EntryJobsOnlySend, Loop
<1>7. \A w \in Workers : at[Worker(w)] \notin Holding /\ at[Worker(w)] \notin Working /\ current[w] \notin Entries
  BY <1>5, WorkerFacts, ConstantsAssumption DEF Init, Working, Holding, Steps
<1>8. ClaimInv
  BY <1>7 DEF Init, ClaimInv, WorkersHaveEntries, ClaimsHeld, OneWorkerPerEntry
<1>9. AcksAreEarned
  BY <1>5 DEF AcksAreEarned
<1>10. NothingLost
  BY DEF Init, NothingLost, Known
<1> QED BY <1>4, <1>6, <1>8, <1>9, <1>10 DEF QueueInv

\* A new entry has its file before its delivery begins.
LEMMA EnqueueInv ==
  ASSUME QueueInv, NEW e \in Entries, Enqueue(e)
  PROVE  QueueInv'
<1> USE DEF QueueInv
<1>1. 0 \in Counts /\ Live(e) \in Jobs /\ Live(e) \notin WorkerJobs
  BY ConstantsAssumption, EntryFacts DEF Counts
<1>2. TypeOK'
  BY <1>1, RankBounded DEF TypeOK, Enqueue, Goto, Steps
<1>3. EntryJobsOnlySend'
  BY DEF EntryJobsOnlySend, Loop, TypeOK, Enqueue, Goto
<1>4. ClaimInv'
  BY <1>1, ClaimsKeptByGoto DEF Enqueue, Steps
<1>5. AcksAreEarned'
  BY <1>1, AcksEarnedByOthers DEF Enqueue
<1>6. NothingLost'
  <2>1. json'[e] # Absent /\ \A f \in Entries : f # e => json'[f] = json[f] /\ position'[f] = position[f]
    BY DEF Enqueue, TypeOK, Absent
  <2> QED BY <2>1 DEF Enqueue, NothingLost, Known
<1> QED BY <1>2, <1>3, <1>4, <1>5, <1>6

\* A recovery that runs out of its budget leaves the files alone.
LEMMA DeadlineInv ==
  ASSUME QueueInv, DeadlinePassed
  PROVE  QueueInv'
<1> USE DEF QueueInv
<1>1. \A j \in Jobs : at'[j] = at[j] \/ at'[j] \in {"idle", "failing"}
  BY DEF DeadlinePassed
<1>2. TypeOK'
  <2>1. at' \in [Jobs -> Steps]
    BY DEF DeadlinePassed, TypeOK, Steps
  <2>2. todo' \in [Workers -> SUBSET Entries]
    BY DEF DeadlinePassed, TypeOK
  <2> QED BY <2>1, <2>2 DEF DeadlinePassed, TypeOK
<1>3. EntryJobsOnlySend'
  BY <1>1 DEF EntryJobsOnlySend, Loop
<1>4. ClaimInv'
  <2>1. \A w \in Workers : Worker(w) \notin {Defer(e) : e \in todo[Startup]}
    BY WorkerFacts, EntryFacts, StartupIsWorker DEF TypeOK
  <2>2. \A w \in Workers : /\ at'[Worker(w)] \in Holding <=> at[Worker(w)] \in Holding
                           /\ at'[Worker(w)] \in Working <=> at[Worker(w)] \in Working
    BY <2>1, WorkerFacts DEF DeadlinePassed, Working, Holding
  <2> QED BY <2>2 DEF DeadlinePassed, ClaimInv, WorkersHaveEntries, ClaimsHeld, OneWorkerPerEntry
<1>5. AcksAreEarned'
  <2>1. \A j \in Jobs : Of(j)' = Of(j)
    BY SameWork DEF DeadlinePassed
  <2> QED BY <1>1, <2>1 DEF DeadlinePassed, AcksAreEarned
<1>6. NothingLost'
  BY NothingLostByAdding DEF DeadlinePassed
<1> QED BY <1>2, <1>3, <1>4, <1>5, <1>6

\* A restart forgets jobs and claims, not files.
LEMMA RestartInv ==
  ASSUME QueueInv, Restart
  PROVE  QueueInv'
<1> USE DEF QueueInv
<1>1. \A j \in Jobs : at'[j] \in {"scan", "idle"} /\ (j \notin WorkerJobs => at'[j] = "idle")
  BY StartupIsWorker, WorkerFacts DEF Restart
<1>2. TypeOK'
  BY ConstantsAssumption DEF Restart, TypeOK, Steps, Counts
<1>3. EntryJobsOnlySend'
  BY <1>1 DEF EntryJobsOnlySend, Loop
<1>4. ClaimInv'
  <2>1. \A w \in Workers : /\ at'[Worker(w)] \notin Holding /\ at'[Worker(w)] \notin Working
                           /\ current'[w] \notin Entries
    BY <1>1, WorkerFacts, ConstantsAssumption DEF Restart, Working, Holding, Steps
  <2> QED BY <2>1 DEF Restart, ClaimInv, WorkersHaveEntries, ClaimsHeld, OneWorkerPerEntry
<1>5. AcksAreEarned'
  BY <1>1 DEF AcksAreEarned
<1>6. NothingLost'
  BY NothingLostByAdding DEF Restart
<1> QED BY <1>2, <1>3, <1>4, <1>5, <1>6

\* The steps of an entry's job stay out of the workers' loops.
LEMMA EntryJobsKept ==
  ASSUME TypeOK, EntryJobsOnlySend,
         \/ \E j \in Jobs : Attempt(j) \/ Settle(j) \/ IOError(j)
         \/ \E w \in Workers : StartDrain(w) \/ List(w) \/ EndOfQueue(w) \/ Claim(w) \/ Load(w)
  PROVE  EntryJobsOnlySend'
<1>1. CASE \E j \in Jobs : Attempt(j) \/ Settle(j) \/ IOError(j)
  <2>1. PICK j \in Jobs : Attempt(j) \/ Settle(j) \/ IOError(j)
    BY <1>1
  <2>2. \E s \in Steps \ Loop : Goto(j, s)
    BY <2>1 DEF Attempt, Accept, Return, Withdraw, Fail, Swallow, AfterError, Settle, AckRename,
                AckUnlink, FailRead, FailWrite, MoveToFailed, IOError, Done, Steps, Loop
  <2> QED BY <2>2 DEF EntryJobsOnlySend, Goto, TypeOK
<1>2. CASE \E w \in Workers : StartDrain(w) \/ List(w) \/ EndOfQueue(w) \/ Claim(w) \/ Load(w)
  <2>1. PICK w \in Workers :
          StartDrain(w) \/ List(w) \/ EndOfQueue(w) \/ Claim(w) \/ Load(w)
    BY <1>2
  <2>2. UNCHANGED at \/ \E s : Goto(Worker(w), s)
    BY <2>1, WorkersMove
  <2> QED BY <2>2, WorkerFacts DEF EntryJobsOnlySend, Goto, TypeOK
<1> QED BY <1>1, <1>2

\* Every step keeps the invariant.
LEMMA NextInv == QueueInv /\ [Next]_vars => QueueInv'
<1> SUFFICES ASSUME QueueInv, [Next]_vars PROVE QueueInv'
  OBVIOUS
<1>1. ASSUME NEW e \in Entries, Enqueue(e) PROVE QueueInv'
  BY <1>1, EnqueueInv
<1>2. ASSUME NEW j \in Jobs, Attempt(j) \/ Settle(j) \/ IOError(j) PROVE QueueInv'
  <2>1. TypeOK /\ EntryJobsOnlySend /\ ClaimInv /\ AcksAreEarned /\ NothingLost
        /\ WorkersHaveEntries
    BY DEF QueueInv, ClaimInv
  <2>2. TypeOK'
    BY <1>2, <2>1, JobTypes
  <2>3. EntryJobsOnlySend'
    BY <1>2, <2>1, EntryJobsKept
  <2>4. ClaimInv'
    BY <1>2, <2>1, JobClaims
  <2>5. AcksAreEarned' /\ NothingLost'
    BY <1>2, <2>1, JobMessages
  <2> QED BY <2>2, <2>3, <2>4, <2>5 DEF QueueInv
<1>3. ASSUME NEW w \in Workers,
             StartDrain(w) \/ List(w) \/ EndOfQueue(w) \/ Claim(w) \/ Load(w)
      PROVE  QueueInv'
  <2>1. TypeOK /\ EntryJobsOnlySend /\ ClaimInv /\ AcksAreEarned /\ NothingLost
        /\ WorkersHaveEntries
    BY DEF QueueInv, ClaimInv
  <2>2. TypeOK'
    BY <1>3, <2>1, WorkerTypes
  <2>3. EntryJobsOnlySend'
    BY <1>3, <2>1, EntryJobsKept
  <2>4. ClaimInv'
    BY <1>3, <2>1, WorkerClaims
  <2>5. AcksAreEarned' /\ NothingLost'
    BY <1>3, <2>1, WorkerMessages
  <2> QED BY <2>2, <2>3, <2>4, <2>5 DEF QueueInv
<1>4. CASE UNCHANGED vars
  BY <1>4 DEF vars, QueueInv, TypeOK, EntryJobsOnlySend, ClaimInv, WorkersHaveEntries, ClaimsHeld,
              OneWorkerPerEntry, AcksAreEarned, NothingLost, Known, Of
<1> QED BY <1>1, <1>2, <1>3, <1>4, DeadlineInv, RestartInv DEF Next

\* The invariant holds of every behaviour.
THEOREM Inductive == Spec => []QueueInv
BY InitInv, NextInv, PTL DEF Spec

\* The variables keep their types: retry counts stay within the bound, ranks
\* within the number of entries, and workers work on entries.
THEOREM TypesKept == Spec => []TypeOK
<1>1. QueueInv => TypeOK
  BY DEF QueueInv
<1> QED BY Inductive, <1>1, PTL

\* The write-ahead promise: a message that was put into the queue is still
\* there, or in failed/, or out, or withdrawn, whatever crashes, file errors
\* and concurrent recoveries do (best-effort messages excepted).
THEOREM NoMessageIsLost == Spec => []NothingLost
<1>1. QueueInv => NothingLost
  BY DEF QueueInv
<1> QED BY Inductive, <1>1, PTL

\* claimRecoveryEntry excludes: no entry has two recovery workers.
THEOREM WorkersExclude == Spec => []OneWorkerPerEntry
<1>1. QueueInv => OneWorkerPerEntry
  BY DEF QueueInv, ClaimInv
<1> QED BY Inductive, <1>1, PTL

\* entriesInProgress holds the entries the workers work on, no fewer, no more:
\* every way out of the recovery loops releases the claim it took.
THEOREM ClaimsAreExact == Spec => []ClaimsHeld
<1>1. QueueInv => ClaimsHeld
  BY DEF QueueInv, ClaimInv
<1> QED BY Inductive, <1>1, PTL

-----------------------------------------------------------------------------
(* The outbox *)

\* Whatever is in the directory, listed by a worker or worked on was put into
\* the queue.
KnownInv ==
  /\ Box \subseteq Known
  /\ \A w \in Workers : listing[w] \subseteq Known /\ todo[w] \subseteq Known
  /\ \A j \in Jobs : at[j] \in Working => Of(j) \in Known

\* The steps of a job, as steps of the outbox.
LEMMA JobRefines ==
  ASSUME QueueInv, KnownInv, NEW j \in Jobs, Attempt(j) \/ Settle(j) \/ IOError(j)
  PROVE  KnownInv' /\ [Promise!Next]_Promise!vars
<1> DEFINE e == Of(j)
<1>1. TypeOK /\ EntryJobsOnlySend /\ WorkersHaveEntries /\ AcksAreEarned
  BY DEF QueueInv, ClaimInv
<1>2. at[j] \in Holding => e \in Entries /\ e \in Known
  BY DEF KnownInv, Known, Working
<1>3. Known' = Known
  BY DEF Attempt, Accept, Return, Withdraw, Fail, Swallow, Settle, AckRename, AckUnlink, FailRead,
         FailWrite, MoveToFailed, IOError, Known
<1>4. /\ \A i \in Jobs : at'[i] \in Working => at[i] \in Working
      /\ \A i \in Jobs : at'[i] \in Working => Of(i)' = Of(i)
  <2>1. PICK s \in Steps \ Loop :
          /\ Goto(j, s)
          /\ s \in Working => at[j] \in Working /\ UNCHANGED current
    BY <1>1 DEF Attempt, Accept, Return, Withdraw, Fail, Swallow, AfterError, Settle, AckRename,
                AckUnlink, FailRead, FailWrite, MoveToFailed, IOError, Done, Steps, Working, Holding, Loop
  <2>2. \A w \in Workers : j # Worker(w) => current'[w] = current[w]
    <3>1. at[j] \in {"scan", "claimed", "pruning"} => \E v \in Workers : j = Worker(v) /\ j[2] = v
      BY <1>1, WorkerFacts DEF EntryJobsOnlySend, Loop
    <3> QED BY <1>1, <3>1 DEF Attempt, Accept, Return, Withdraw, Fail, Swallow, Settle, AckRename,
                AckUnlink, FailRead, FailWrite, MoveToFailed, IOError, Done, TypeOK
  <2>3. \A i \in Jobs : i # j => at'[i] = at[i] /\ Of(i)' = Of(i)
    BY <1>1, <2>1, <2>2, WorkerFacts, SameWork DEF Goto, TypeOK
  <2>4. at'[j] = s
    BY <1>1, <2>1 DEF Goto, TypeOK
  <2>5. s \in Working => Of(j)' = Of(j)
    BY <2>1, SameWork
  <2> QED BY <2>1, <2>3, <2>4, <2>5
<1>5. \A w \in Workers : listing'[w] = listing[w] /\ todo'[w] \subseteq todo[w]
  BY <1>1 DEF Attempt, Accept, Return, Withdraw, Fail, Swallow, Settle, AckRename, AckUnlink,
              FailRead, FailWrite, MoveToFailed, IOError, TypeOK
<1>6. ASSUME Box' \subseteq Known, [Promise!Next]_Promise!vars
      PROVE  KnownInv' /\ [Promise!Next]_Promise!vars
  BY <1>3, <1>4, <1>5, <1>6 DEF KnownInv
<1>7. CASE Accept(j)
  <2>1. e \in Known /\ e \in Entries
    BY <1>2, <1>7 DEF Accept, Holding, Steps
  <2>2. UNCHANGED <<json, failed, withdrawn>> /\ sent' = sent \cup {e}
    BY <1>7 DEF Accept
  <2>3. Box' = Box
    BY <2>2 DEF Box
  <2>4. Promise!Reach(e)
    BY <1>3, <2>1, <2>2, <2>3 DEF Promise!Reach
  <2> QED BY <1>6, <2>1, <2>3, <2>4 DEF KnownInv, Promise!Next
<1>8. CASE Withdraw(j)
  <2>1. e \in Known /\ e \in Entries
    BY <1>2, <1>8 DEF Withdraw, Holding, Steps
  <2>2. UNCHANGED <<json, failed, sent>> /\ withdrawn' = withdrawn \cup {e}
    BY <1>8 DEF Withdraw
  <2>3. Box' = Box
    BY <2>2 DEF Box
  <2>4. Promise!Withdraw(e)
    BY <1>3, <2>1, <2>2, <2>3 DEF Promise!Withdraw
  <2> QED BY <1>6, <2>1, <2>3, <2>4 DEF KnownInv, Promise!Next
<1>9. CASE AckRename(j)
  <2>1. e \in Entries /\ e \in sent \cup withdrawn \cup BestEffort
    BY <1>1, <1>2, <1>9 DEF AckRename, AcksAreEarned, Holding, Steps
  <2>2. UNCHANGED <<failed, sent, withdrawn>>
    BY <1>9 DEF AckRename
  <2>3. CASE json[e] = Absent
    <3>1. Box' = Box
      BY <1>9, <2>3 DEF AckRename, Box
    <3> QED BY <1>3, <1>6, <2>2, <3>1 DEF KnownInv, Promise!vars
  <2>4. CASE json[e] # Absent
    <3>1. e \in Box /\ Box' = Box \ {e}
      BY <1>1, <1>9, <2>1, <2>4 DEF AckRename, Box, TypeOK
    <3>2. Promise!Take(e)
      BY <1>3, <2>1, <2>2, <3>1 DEF Promise!Take
    <3> QED BY <1>6, <2>1, <3>1, <3>2 DEF KnownInv, Promise!Next
  <2> QED BY <2>3, <2>4
<1>10. CASE MoveToFailed(j)
  <2>1. e \in Entries
    BY <1>2, <1>10 DEF MoveToFailed, Holding, Steps
  <2>2. UNCHANGED <<sent, withdrawn>>
    BY <1>10 DEF MoveToFailed
  <2>3. CASE json[e] = Absent
    <3>1. Box' = Box /\ failed' = failed
      BY <1>10, <2>3 DEF MoveToFailed, Box
    <3> QED BY <1>3, <1>6, <2>2, <3>1 DEF KnownInv, Promise!vars
  <2>4. CASE json[e] # Absent
    <3>1. e \in Box /\ Box' = Box \ {e} /\ failed' = failed \cup {e}
      BY <1>1, <1>10, <2>1, <2>4 DEF MoveToFailed, Box, TypeOK
    <3>2. Promise!Discard(e)
      BY <1>3, <2>2, <3>1 DEF Promise!Discard
    <3> QED BY <1>6, <2>1, <3>1, <3>2 DEF KnownInv, Promise!Next
  <2> QED BY <2>3, <2>4
<1>11. CASE FailWrite(j)
  <2>1. e \in Entries /\ e \in Known
    BY <1>2, <1>11 DEF FailWrite, Holding, Steps
  <2>2. UNCHANGED <<failed, sent, withdrawn>>
    BY <1>11 DEF FailWrite
  <2>3. Counted(count[j]) # Absent
    BY <1>1, ConstantsAssumption DEF TypeOK, Counted, Counts, Absent
  <2>4. Box' = Box \cup {e}
    BY <1>1, <1>11, <2>1, <2>3 DEF FailWrite, Box, TypeOK
  <2>5. Promise!PutBack(e) \/ UNCHANGED Promise!vars
    BY <1>3, <2>1, <2>2, <2>4 DEF Promise!PutBack, Promise!vars
  <2>6. [Promise!Next]_Promise!vars
    BY <2>1, <2>5 DEF Promise!Next
  <2>7. Box' \subseteq Known
    BY <2>1, <2>4 DEF KnownInv
  <2> QED BY <1>6, <2>6, <2>7
<1>12. CASE Return(j) \/ Fail(j) \/ Swallow(j) \/ AckUnlink(j) \/ FailRead(j) \/ IOError(j)
  <2>1. UNCHANGED <<json, failed, sent, withdrawn>>
    BY <1>12 DEF Return, Fail, Swallow, AckUnlink, FailRead, IOError
  <2>2. Box' = Box
    BY <2>1 DEF Box
  <2> QED BY <1>3, <1>6, <2>1, <2>2 DEF KnownInv, Promise!vars
<1> QED BY <1>7, <1>8, <1>9, <1>10, <1>11, <1>12 DEF Attempt, Settle

\* The steps of a worker's loop leave the outbox alone, or put a message back.
LEMMA WorkerRefines ==
  ASSUME QueueInv, KnownInv, NEW w \in Workers,
         StartDrain(w) \/ List(w) \/ EndOfQueue(w) \/ Claim(w) \/ Load(w)
  PROVE  KnownInv' /\ [Promise!Next]_Promise!vars
<1>1. TypeOK /\ EntryJobsOnlySend /\ WorkersHaveEntries
  BY DEF QueueInv, ClaimInv
<1>2. UNCHANGED <<failed, position, sent, withdrawn>>
  BY DEF StartDrain, List, Scan, ReadEntry, Migrate, EndOfQueue, Claim, Load, LoadRead,
         LoadUsedUp, LoadTooEarly, LoadAndSend
<1>3. Known' = Known
  BY <1>2 DEF Known
<1>4. at[Worker(w)] \in Working => current[w] \in Known
  BY WorkerFacts DEF KnownInv, Of
<1>5. Box' = Box \/ (current[w] \in Entries \cap Known /\ Box' = Box \cup {current[w]})
  <2>1. CASE json' = json
    BY <2>1 DEF Box
  <2>2. CASE json' # json
    <3>1. current[w] \in Entries \cap Known
      BY <1>1, <1>4, <2>2, FilesRewritten DEF Working, Holding, Steps
    <3>2. /\ \A e \in Entries : json[e] # Absent => json'[e] # Absent
          /\ \A e \in Entries : e # current[w] => json'[e] = json[e]
      BY <1>1, FilesRewritten
    <3>3. Box \subseteq Box' /\ Box' \subseteq Box \cup {current[w]}
      BY <3>2 DEF Box
    <3> QED BY <3>1, <3>3
  <2> QED BY <2>1, <2>2
<1>6. [Promise!Next]_Promise!vars
  <2>1. CASE Box' = Box
    BY <1>2, <1>3, <2>1 DEF Promise!vars
  <2>2. CASE Box' # Box
    <3>1. current[w] \in Entries \cap Known /\ Box' = Box \cup {current[w]}
      BY <1>5, <2>2
    <3>2. Promise!PutBack(current[w])
      BY <1>2, <1>3, <2>2, <3>1 DEF Promise!PutBack
    <3> QED BY <3>1, <3>2 DEF Promise!Next
  <2> QED BY <2>1, <2>2
<1>7. \A v \in Workers : /\ listing'[v] \subseteq listing[v] \cup Box
                         /\ todo'[v] \subseteq todo[v] \cup listing[v] \cup Known
  <2>1. CASE Scan(w)
    BY <1>1, <2>1 DEF Scan, TypeOK, Box
  <2>2. CASE Claim(w)
    BY <1>1, <2>2 DEF Claim, TypeOK
  <2>3. CASE ReadEntry(w)
    BY <1>1, <2>3 DEF ReadEntry, Take, TypeOK
  <2>4. CASE Migrate(w)
    <3>1. current[w] \in Known
      BY <1>4, <2>4 DEF Migrate, Working
    <3> QED BY <1>1, <2>4, <3>1 DEF Migrate, Take, TypeOK
  <2> QED BY <2>1, <2>2, <2>3, <2>4
          DEF StartDrain, List, EndOfQueue, Load, LoadRead, LoadUsedUp,
              LoadTooEarly, LoadAndSend
<1>8. \A i \in Jobs : i # Worker(w) => at'[i] = at[i] /\ Of(i)' = Of(i)
  <2>1. UNCHANGED at \/ \E s : Goto(Worker(w), s)
    BY WorkersMove
  <2>2. \A v \in Workers : v # w => current'[v] = current[v]
    BY <1>1, OthersKeepTheirEntries
  <2> QED BY <1>1, <2>1, <2>2, WorkerFacts, SameWork DEF Goto, TypeOK
<1>9. at'[Worker(w)] \in Working => current'[w] \in Known
  <2>1. CASE Claim(w)
    <3>1. PICK e \in todo[w] :
            IF Free(e)
            THEN current' = [current EXCEPT ![w] = e]
            ELSE Goto(Worker(w), "next")
      BY <2>1 DEF Claim
    <3>2. e \in Known
      BY DEF KnownInv
    <3> QED BY <1>1, <3>1, <3>2, WorkerFacts DEF Goto, TypeOK, Working, Holding, Steps
  <2>2. CASE Load(w)
    <3>1. at[Worker(w)] \in Working
      BY <2>2 DEF Load, LoadRead, LoadUsedUp, LoadTooEarly, LoadAndSend, Working,
                  Holding, Steps
    <3>2. UNCHANGED current \/ Done(Worker(w))
      BY <2>2 DEF Load, LoadRead, LoadUsedUp, LoadTooEarly, LoadAndSend
    <3> QED BY <1>1, <1>4, <3>1, <3>2, WorkerFacts
            DEF Done, Goto, TypeOK, Working, Holding, Steps
  <2>3. CASE ReadEntry(w)
    <3>1. PICK e \in listing[w] :
            UNCHANGED <<at, current>> \/ current' = [current EXCEPT ![w] = e]
      BY <2>3 DEF ReadEntry
    <3>2. e \in Known
      BY DEF KnownInv
    <3> QED BY <1>1, <1>4, <3>1, <3>2 DEF TypeOK
  <2>4. CASE StartDrain(w) \/ Scan(w) \/ Migrate(w) \/ EndOfQueue(w)
    BY <1>1, <2>4, WorkerFacts
       DEF StartDrain, Scan, Migrate, EndOfQueue, Goto, TypeOK, Working, Holding, Steps
  <2> QED BY <2>1, <2>2, <2>3, <2>4 DEF List
<1>10. Of(Worker(w))' = current'[w]
  BY WorkerFacts DEF Of
<1>11. Box' \subseteq Known
  BY <1>5 DEF KnownInv
<1>12. \A v \in Workers : listing'[v] \subseteq Known /\ todo'[v] \subseteq Known
  BY <1>7 DEF KnownInv
<1>13. \A i \in Jobs : at'[i] \in Working => Of(i)' \in Known
  BY <1>8, <1>9, <1>10 DEF KnownInv
<1>14. KnownInv'
  BY <1>3, <1>11, <1>12, <1>13 DEF KnownInv
<1> QED BY <1>6, <1>14

\* In the beginning the box has the entries an earlier process left.
LEMMA InitRefines == Init => KnownInv /\ Promise!Init
<1> SUFFICES ASSUME Init PROVE KnownInv /\ Promise!Init
  OBVIOUS
<1>1. Box = Known /\ Box \subseteq Entries
  BY DEF Init, Box, Known
<1>2. \A j \in Jobs : at[j] \notin Working
  BY DEF Init, Working, Holding, Steps
<1>3. \A w \in Workers : listing[w] = {} /\ todo[w] = {}
  BY DEF Init
<1>4. sent = {} /\ withdrawn \cup failed = {}
  BY DEF Init
<1> QED BY <1>1, <1>2, <1>3, <1>4 DEF KnownInv, Promise!Init

\* Every step of the queue is one of the box, or none.
LEMMA NextRefines ==
  QueueInv /\ KnownInv /\ [Next]_vars => KnownInv' /\ [Promise!Next]_Promise!vars
<1> SUFFICES ASSUME QueueInv, KnownInv, [Next]_vars
             PROVE  KnownInv' /\ [Promise!Next]_Promise!vars
  OBVIOUS
<1>1. ASSUME NEW e \in Entries, Enqueue(e)
      PROVE  KnownInv' /\ [Promise!Next]_Promise!vars
  <2>1. TypeOK /\ e \notin Known
    BY <1>1 DEF QueueInv, Enqueue, Known
  <2>2. UNCHANGED <<failed, sent, withdrawn, listing, todo, current>>
    BY <1>1 DEF Enqueue
  <2>3. Box' = Box \cup {e}
    BY <1>1, <2>1 DEF Enqueue, Box, TypeOK, Absent
  <2>4. Cardinality(Known) + 1 # 0
    BY <1>1, RankBounded DEF Enqueue
  <2>5. Known' = Known \cup {e}
    BY <1>1, <2>1, <2>4 DEF Enqueue, Known, TypeOK
  <2>6. \A i \in Jobs : i # Live(e) => at'[i] = at[i]
    BY <1>1, <2>1 DEF Enqueue, Goto, TypeOK
  <2>7. \A i \in Jobs : Of(i)' = Of(i)
    BY <2>2, SameWork
  <2>8. Of(Live(e)) = e
    BY EntryFacts DEF Of
  <2>9. KnownInv'
    BY <2>2, <2>3, <2>5, <2>6, <2>7, <2>8 DEF KnownInv
  <2>10. Promise!Put(e)
    BY <2>1, <2>2, <2>3, <2>5 DEF Promise!Put
  <2> QED BY <2>9, <2>10 DEF Promise!Next
<1>2. ASSUME NEW j \in Jobs, Attempt(j) \/ Settle(j) \/ IOError(j)
      PROVE  KnownInv' /\ [Promise!Next]_Promise!vars
  BY <1>2, JobRefines
<1>3. ASSUME NEW w \in Workers,
             StartDrain(w) \/ List(w) \/ EndOfQueue(w) \/ Claim(w) \/ Load(w)
      PROVE  KnownInv' /\ [Promise!Next]_Promise!vars
  BY <1>3, WorkerRefines
<1>4. CASE DeadlinePassed
  <2>1. TypeOK
    BY DEF QueueInv
  <2>2. UNCHANGED <<json, position, failed, sent, withdrawn, current, listing>>
    BY <1>4 DEF DeadlinePassed
  <2>3. Box' = Box /\ Known' = Known
    BY <2>2 DEF Box, Known
  <2>4. \A w \in Workers : todo'[w] \subseteq todo[w]
    BY <1>4, <2>1 DEF DeadlinePassed, TypeOK
  <2>5. \A i \in Jobs : Of(i)' = Of(i)
    BY <2>2, SameWork
  <2>6. \A i \in Jobs : at'[i] \in Working => at[i] \in Working \/ Of(i) \in Known
    <3>1. \A e \in todo[Startup] : Of(Defer(e)) = e /\ e \in Known
      BY <2>1, EntryFacts, StartupIsWorker DEF Of, KnownInv, TypeOK
    <3>2. "idle" \notin Working
      BY DEF Working, Holding
    <3> QED BY <1>4, <3>1, <3>2 DEF DeadlinePassed
  <2> QED BY <2>2, <2>3, <2>4, <2>5, <2>6 DEF KnownInv, Promise!vars
<1>5. CASE Restart
  <2>1. UNCHANGED <<json, position, failed, sent, withdrawn>>
    BY <1>5 DEF Restart
  <2>2. Box' = Box /\ Known' = Known
    BY <2>1 DEF Box, Known
  <2>3. \A i \in Jobs : at'[i] \notin Working
    BY <1>5 DEF Restart, Working, Holding, Steps
  <2>4. \A w \in Workers : listing'[w] = {} /\ todo'[w] = {}
    BY <1>5 DEF Restart
  <2> QED BY <2>1, <2>2, <2>3, <2>4 DEF KnownInv, Promise!vars
<1>6. CASE UNCHANGED vars
  BY <1>6 DEF vars, KnownInv, Box, Known, Of, Promise!vars
<1> QED BY <1>1, <1>2, <1>3, <1>4, <1>5, <1>6 DEF Next

\* The write-ahead queue implements the outbox, for any messages and drains:
\* each of its steps is a step of the outbox or leaves the outbox as it is.
THEOREM OutboxImplemented == Spec => ImplementsOutbox
<1>1. QueueInv /\ KnownInv /\ [Next]_vars => KnownInv' /\ [Promise!Next]_Promise!vars
  BY NextRefines
<1> QED BY Inductive, InitRefines, <1>1, PTL DEF Spec, ImplementsOutbox, Promise!Spec

-----------------------------------------------------------------------------
(* Nothing is sent again after an ack *)

\* Steps at which a worker may still send the message or write its file.
Unsettled == {"loaded", "pruning", "sending", "accepted", "acking", "failing",
              "writing", "discarding"}

\* An entry that a worker has acknowledged has no file until an unclaimed write,
\* and no worker is in the middle of it.
SettledInv ==
  /\ acked \subseteq Known
  /\ \A e \in acked : json[e] = Absent
  /\ \A w \in Workers : at[Worker(w)] \in Unsettled => current[w] \notin acked

\* The steps of a job; the acknowledging worker is the only one at its entry.
LEMMA JobSettles ==
  ASSUME QueueInv, KnownInv, SettledInv, NEW j \in Jobs, Attempt(j) \/ Settle(j) \/ IOError(j)
  PROVE  SettledInv'
<1> DEFINE e == Of(j)
<1>1. TypeOK /\ EntryJobsOnlySend /\ WorkersHaveEntries /\ OneWorkerPerEntry
  BY DEF QueueInv, ClaimInv
<1>2. at[j] # "idle"
  BY DEF Attempt, Accept, Return, Withdraw, Fail, Swallow, Settle, AckRename, AckUnlink,
         FailRead, FailWrite, MoveToFailed, IOError
<1>3. \A i \in Jobs : i # j => at'[i] = at[i]
  BY <1>1 DEF Attempt, Accept, Return, Withdraw, Fail, Swallow, Settle, AckRename, AckUnlink,
         FailRead, FailWrite, MoveToFailed, IOError, Done, Goto, TypeOK
<1>4. Known' = Known
  BY DEF Attempt, Accept, Return, Withdraw, Fail, Swallow, Settle, AckRename, AckUnlink, FailRead,
         FailWrite, MoveToFailed, IOError, Known
<1>5. acked' \subseteq acked \/ (AckRename(j) /\ j \in WorkerJobs /\ acked' = acked \cup {e}
                                 /\ json[e] # Absent)
  BY DEF Attempt, Accept, Return, Withdraw, Fail, Swallow, Settle, AckRename, AckUnlink, FailRead,
         FailWrite, MoveToFailed, IOError
<1>6. j \in WorkerJobs /\ at[j] \in Unsettled => e \notin acked
  BY WorkerFacts DEF SettledInv, Of
<1>7. at[j] \in Holding => e \in Entries
  BY <1>1, WorkerFacts, EntryFacts DEF Of, WorkersHaveEntries, Working
<1>8. ASSUME NEW f \in acked'
      PROVE  json'[f] = Absent
  <2>1. CASE AckRename(j)
    <3>1. e \in Entries
      BY <1>7, <2>1 DEF AckRename, Holding, Steps
    <3> QED BY <1>1, <1>8, <2>1, <3>1 DEF AckRename, TypeOK, SettledInv
  <2>2. CASE FailWrite(j)
    <3>1. f \in acked /\ (j \notin WorkerJobs => f # e)
      BY <1>8, <2>2 DEF FailWrite
    <3>2. f # e
      BY <1>6, <2>2, <3>1 DEF FailWrite, Unsettled
    <3> QED BY <1>1, <2>2, <3>1, <3>2 DEF FailWrite, TypeOK, SettledInv
  <2>3. CASE MoveToFailed(j)
    <3>1. e \in Entries
      BY <1>7, <2>3 DEF MoveToFailed, Holding, Steps
    <3> QED BY <1>1, <1>8, <2>3, <3>1 DEF MoveToFailed, TypeOK, SettledInv
  <2>4. CASE Attempt(j) \/ AckUnlink(j) \/ FailRead(j) \/ IOError(j)
    <3>1. json' = json /\ acked' = acked
      BY <2>4 DEF Attempt, Accept, Return, Withdraw, Fail, Swallow, AckUnlink, FailRead, IOError
    <3> QED BY <1>8, <3>1 DEF SettledInv
  <2> QED BY <2>1, <2>2, <2>3, <2>4 DEF Settle
<1>9. ASSUME NEW w \in Workers, at'[Worker(w)] \in Unsettled
      PROVE  current'[w] \notin acked'
  <2>1. CASE j = Worker(w)
    <3>1. at[j] \in Unsettled /\ acked' \subseteq acked /\ current'[w] = current[w]
      BY <1>1, <1>9, <2>1 DEF Attempt, Accept, Return, Withdraw, Fail, Swallow, AfterError, Settle,
         AckRename, AckUnlink, FailRead, FailWrite, MoveToFailed, IOError, Done, Goto, TypeOK,
         Unsettled
    <3> QED BY <2>1, <3>1 DEF SettledInv
  <2>2. CASE j # Worker(w)
    <3>1. at[Worker(w)] \in Unsettled
      BY <1>3, <1>9, <2>2, WorkerFacts
    <3>2. current'[w] = current[w]
      <4>1. at[j] \in {"scan", "claimed", "pruning"} => j \in WorkerJobs
        BY <1>1 DEF EntryJobsOnlySend, Loop
      <4>2. j \in WorkerJobs => j[2] # w
        BY <2>2, WorkerFacts
      <4> QED BY <1>1, <2>2, <4>1, <4>2 DEF Attempt, Accept, Return, Withdraw, Fail, Swallow,
              Settle, AckRename, AckUnlink, FailRead, FailWrite, MoveToFailed, IOError, Done, TypeOK
    <3>3. CASE acked' \subseteq acked
      BY <3>1, <3>2, <3>3 DEF SettledInv
    <3>4. CASE ~(acked' \subseteq acked)
      <4>1. AckRename(j) /\ j \in WorkerJobs /\ acked' = acked \cup {e}
        BY <1>5, <3>4
      <4>2. current[w] # e
        <5> SUFFICES ASSUME current[w] = e
                     PROVE  FALSE
          OBVIOUS
        <5>1. j[2] \in Workers /\ j = Worker(j[2]) /\ current[j[2]] = e
          BY <4>1, WorkerFacts DEF Of
        <5>2. at[Worker(j[2])] \in Holding /\ at[Worker(w)] \in Holding
          BY <3>1, <4>1, <5>1 DEF AckRename, Holding, Steps, Unsettled
        <5> QED BY <1>1, <2>2, <5>1, <5>2 DEF OneWorkerPerEntry
      <4> QED BY <3>1, <3>2, <4>1, <4>2 DEF SettledInv
    <3> QED BY <3>3, <3>4
  <2> QED BY <2>1, <2>2
<1>10. acked' \subseteq Known'
  <2>1. AckRename(j) => e \in Entries
    BY <1>7 DEF AckRename, Holding, Steps
  <2>2. AckRename(j) /\ json[e] # Absent => e \in Known
    BY <2>1 DEF KnownInv, Box
  <2> QED BY <1>4, <1>5, <2>2 DEF SettledInv
<1> QED BY <1>8, <1>9, <1>10 DEF SettledInv

\* The steps of a worker's loop; it reads the file again before it sends.
LEMMA WorkerSettles ==
  ASSUME QueueInv, SettledInv, NEW w \in Workers,
         StartDrain(w) \/ List(w) \/ EndOfQueue(w) \/ Claim(w) \/ Load(w)
  PROVE  SettledInv'
<1>1. TypeOK /\ WorkersHaveEntries
  BY DEF QueueInv, ClaimInv
<1>2. acked' \subseteq acked
  BY DEF StartDrain, List, Scan, ReadEntry, Migrate, EndOfQueue, Claim, Load, LoadRead,
         LoadUsedUp, LoadTooEarly, LoadAndSend
<1>3. \A i \in Jobs : i # Worker(w) => at'[i] = at[i]
  <2>1. UNCHANGED at \/ \E s : Goto(Worker(w), s)
    BY WorkersMove
  <2> QED BY <1>1, <2>1 DEF Goto, TypeOK
<1>4. \A v \in Workers : v # w => current'[v] = current[v]
  BY <1>1, OthersKeepTheirEntries
<1>5. ASSUME NEW f \in acked'
      PROVE  json'[f] = Absent
  <2>1. f \in Entries /\ f \in acked /\ json[f] = Absent
    BY <1>1, <1>2 DEF SettledInv, TypeOK
  <2>2. CASE json' = json
    BY <2>1, <2>2
  <2>3. CASE json' # json
    <3>1. CASE at[Worker(w)] = "migrating"
      <4>1. acked' = acked \ {current[w]}
        BY <2>3, <3>1 DEF StartDrain, List, Scan, ReadEntry, Migrate, EndOfQueue, Claim, Load,
           LoadRead, LoadUsedUp, LoadTooEarly, LoadAndSend
      <4> QED BY <1>1, <1>5, <2>1, <4>1, FilesRewritten
    <3> QED BY <1>1, <2>3, <3>1, FilesRewritten
  <2> QED BY <2>2, <2>3
<1>6. ASSUME at'[Worker(w)] \in Unsettled
      PROVE  current'[w] \notin acked
  <2>1. CASE LoadRead(w)
    <3>1. json[current[w]] # Absent /\ current' = current
      BY <1>1, <1>6, <2>1, WorkerFacts
         DEF LoadRead, StillPending, Done, Goto, TypeOK, Unsettled
    <3> QED BY <3>1 DEF SettledInv
  <2>2. CASE LoadUsedUp(w) \/ LoadAndSend(w)
    BY <2>2 DEF LoadUsedUp, LoadAndSend, SettledInv, Unsettled
  <2>3. CASE LoadTooEarly(w)
    BY <1>1, <1>6, <2>3, WorkerFacts DEF LoadTooEarly, Done, Goto, TypeOK, Unsettled
  <2>4. CASE StartDrain(w) \/ List(w) \/ EndOfQueue(w) \/ Claim(w)
    <3>1. at'[Worker(w)] \in {"scan", "listing", "migrating", "idle", "claimed", "next"}
      BY <1>1, <2>4, WorkerFacts DEF StartDrain, List, Scan, ReadEntry, Migrate, EndOfQueue,
         Claim, Goto, TypeOK
    <3> QED BY <1>6, <3>1 DEF Unsettled
  <2> QED BY <2>1, <2>2, <2>3, <2>4 DEF Load
<1>7. \A v \in Workers : v # w => Worker(v) # Worker(w)
  BY WorkerFacts
<1>8. \A v \in Workers : at'[Worker(v)] \in Unsettled => current'[v] \notin acked'
  BY <1>2, <1>3, <1>4, <1>6, <1>7, WorkerFacts DEF SettledInv
<1>9. Known' = Known
  BY DEF StartDrain, List, Scan, ReadEntry, Migrate, EndOfQueue, Claim, Load, LoadRead,
         LoadUsedUp, LoadTooEarly, LoadAndSend, Known
<1> QED BY <1>2, <1>5, <1>8, <1>9 DEF SettledInv

\* No step brings back the file of an acknowledged entry and leaves it in acked.
LEMMA NextSettles ==
  ASSUME QueueInv, KnownInv, SettledInv, [Next]_vars
  PROVE  SettledInv'
<1>1. ASSUME NEW e \in Entries, Enqueue(e) PROVE SettledInv'
  <2>1. TypeOK /\ e \notin Known
    BY <1>1 DEF QueueInv, Enqueue, Known
  <2>2. \A w \in Workers : at'[Worker(w)] = at[Worker(w)]
    BY <1>1, <2>1, WorkerFacts, EntryFacts DEF Enqueue, Goto, TypeOK
  <2>3. acked' = acked /\ current' = current
    BY <1>1 DEF Enqueue
  <2>4. Known \subseteq Known'
    BY <1>1, <2>1 DEF Enqueue, TypeOK, Known
  <2>5. \A f \in acked : json'[f] = Absent
    BY <1>1, <2>1 DEF Enqueue, TypeOK, SettledInv
  <2> QED BY <2>2, <2>3, <2>4, <2>5 DEF SettledInv
<1>2. ASSUME NEW j \in Jobs, Attempt(j) \/ Settle(j) \/ IOError(j) PROVE SettledInv'
  BY <1>2, JobSettles
<1>3. ASSUME NEW w \in Workers,
             StartDrain(w) \/ List(w) \/ EndOfQueue(w) \/ Claim(w) \/ Load(w)
      PROVE  SettledInv'
  BY <1>3, WorkerSettles
<1>4. CASE DeadlinePassed
  <2>1. TypeOK
    BY DEF QueueInv
  <2>2. UNCHANGED <<json, acked, current>> /\ Known' = Known
    BY <1>4 DEF DeadlinePassed, Known
  <2>3. \A w \in Workers : Worker(w) \notin {Defer(f) : f \in todo[Startup]}
    BY <2>1, WorkerFacts, EntryFacts, StartupIsWorker DEF TypeOK
  <2>4. \A w \in Workers : at'[Worker(w)] \in Unsettled => at[Worker(w)] \in Unsettled
    BY <1>4, <2>3, WorkerFacts DEF DeadlinePassed, Unsettled
  <2> QED BY <2>2, <2>4 DEF SettledInv
<1>5. CASE Restart
  <2>1. \A w \in Workers : at'[Worker(w)] \notin Unsettled
    BY <1>5, WorkerFacts DEF Restart, Unsettled
  <2>2. UNCHANGED <<json, acked>> /\ Known' = Known
    BY <1>5 DEF Restart, Known
  <2> QED BY <2>1, <2>2 DEF SettledInv
<1>6. CASE UNCHANGED vars
  BY <1>6 DEF vars, SettledInv, Known
<1> QED BY <1>1, <1>2, <1>3, <1>4, <1>5, <1>6 DEF Next

\* No recovery path sends an entry that another one acknowledged, whatever
\* snapshots the paths work through, until a write without a claim, by a deferral,
\* the scan of a legacy entry or a failing live delivery, has put the file back.
THEOREM NothingResent == Spec => []NotResentAfterAck
<1>1. Init => SettledInv
  BY WorkerFacts DEF Init, SettledInv, Unsettled
<1>2. QueueInv /\ KnownInv /\ SettledInv /\ [Next]_vars => SettledInv'
  BY NextSettles
<1>3. QueueInv /\ KnownInv /\ [Next]_vars => KnownInv'
  BY NextRefines
<1>4. Init => KnownInv
  BY InitRefines
<1>5. SettledInv => NotResentAfterAck
  BY DEF SettledInv, NotResentAfterAck, Unsettled
<1> QED BY <1>1, <1>2, <1>3, <1>4, <1>5, Inductive, PTL DEF Spec

-----------------------------------------------------------------------------
(* Entries of an older version *)

\* A legacy entry is in no snapshot, and no worker has claimed one.
Migrated ==
  \A w \in Workers :
    /\ todo[w] \cap legacy = {}
    /\ at[Worker(w)] = "claimed" => current[w] \notin legacy

\* A job's own steps end in no claim and take nothing.
LEMMA JobMigrates ==
  ASSUME QueueInv, Migrated, NEW j \in Jobs, Attempt(j) \/ Settle(j) \/ IOError(j)
  PROVE  Migrated'
<1>1. TypeOK /\ EntryJobsOnlySend
  BY DEF QueueInv, ClaimInv
<1>2. legacy' \subseteq legacy
  BY DEF Attempt, Accept, Return, Withdraw, Fail, Swallow, Settle, AckRename, AckUnlink,
         FailRead, FailWrite, MoveToFailed, IOError
<1>3. PICK s \in Steps \ {"claimed"} : Goto(j, s)
  BY DEF Attempt, Accept, Return, Withdraw, Fail, Swallow, AfterError, Settle, AckRename,
         AckUnlink, FailRead, FailWrite, MoveToFailed, IOError, Done, Steps
<1>4. \A w \in Workers : todo'[w] \subseteq todo[w]
  BY <1>1 DEF Attempt, Accept, Return, Withdraw, Fail, Swallow, Settle, AckRename, AckUnlink,
              FailRead, FailWrite, MoveToFailed, IOError, TypeOK
<1>5. \A w \in Workers : j # Worker(w) => current'[w] = current[w]
  <2>1. at[j] \in {"scan", "claimed", "pruning"} => \E v \in Workers : j = Worker(v) /\ j[2] = v
    BY <1>1, WorkerFacts DEF EntryJobsOnlySend, Loop
  <2> QED BY <1>1, <2>1 DEF Attempt, Accept, Return, Withdraw, Fail, Swallow, Settle, AckRename,
              AckUnlink, FailRead, FailWrite, MoveToFailed, IOError, Done, TypeOK
<1>6. ASSUME NEW w \in Workers, at'[Worker(w)] = "claimed"
      PROVE  at[Worker(w)] = "claimed" /\ current'[w] = current[w]
  BY <1>1, <1>3, <1>5, <1>6, WorkerFacts DEF Goto, TypeOK
<1> QED BY <1>2, <1>4, <1>6 DEF Migrated

\* A worker takes what it has read or written back, and claims what it took.
LEMMA WorkerMigrates ==
  ASSUME QueueInv, Migrated, NEW w \in Workers,
         StartDrain(w) \/ List(w) \/ EndOfQueue(w) \/ Claim(w) \/ Load(w)
  PROVE  Migrated'
<1>1. TypeOK
  BY DEF QueueInv, ClaimInv
<1>2. legacy' \subseteq legacy
  BY DEF StartDrain, List, Scan, ReadEntry, Migrate, EndOfQueue, Claim, Load, LoadRead,
         LoadUsedUp, LoadTooEarly, LoadAndSend
<1>3. \A v \in Workers : todo'[v] \cap legacy' = {}
  <2>1. CASE ReadEntry(w)
    <3>1. todo' = todo \/ \E e \in Entries \ legacy : Take(w, e)
      BY <1>1, <2>1 DEF ReadEntry, TypeOK
    <3> QED BY <1>1, <1>2, <3>1 DEF Take, Migrated, TypeOK
  <2>2. CASE Migrate(w)
    <3>1. todo' = todo \/ (Take(w, current[w]) /\ current[w] \notin legacy')
      BY <2>2 DEF Migrate
    <3> QED BY <1>1, <1>2, <3>1 DEF Take, Migrated, TypeOK
  <2>3. CASE Claim(w)
    <3>1. \A v \in Workers : todo'[v] \subseteq todo[v]
      BY <1>1, <2>3 DEF Claim, TypeOK
    <3> QED BY <1>2, <3>1 DEF Migrated
  <2>4. CASE StartDrain(w) \/ Scan(w) \/ EndOfQueue(w) \/ Load(w)
    <3>1. todo' = todo
      BY <2>4 DEF StartDrain, Scan, EndOfQueue, Load, LoadRead, LoadUsedUp, LoadTooEarly,
         LoadAndSend
    <3> QED BY <1>2, <3>1 DEF Migrated
  <2> QED BY <2>1, <2>2, <2>3, <2>4 DEF List
<1>4. ASSUME NEW v \in Workers, v # w, at'[Worker(v)] = "claimed"
      PROVE  current'[v] \notin legacy'
  <2>1. UNCHANGED at \/ \E s : Goto(Worker(w), s)
    BY WorkersMove
  <2>2. at[Worker(v)] = "claimed" /\ current'[v] = current[v]
    BY <1>1, <1>4, <2>1, WorkerFacts, OthersKeepTheirEntries DEF QueueInv, ClaimInv, Goto, TypeOK
  <2> QED BY <1>2, <2>2 DEF Migrated
<1>5. ASSUME at'[Worker(w)] = "claimed"
      PROVE  current'[w] \notin legacy'
  <2>1. CASE Claim(w)
    <3>1. PICK e \in todo[w] :
            IF Free(e)
            THEN current' = [current EXCEPT ![w] = e]
            ELSE Goto(Worker(w), "next")
      BY <2>1 DEF Claim
    <3>2. current'[w] = e
      BY <1>1, <1>5, <3>1, WorkerFacts DEF Goto, TypeOK
    <3> QED BY <1>2, <3>1, <3>2 DEF Migrated
  <2>2. CASE ReadEntry(w)
    <3>1. UNCHANGED <<at, current>> \/ Goto(Worker(w), "migrating")
      BY <2>2 DEF ReadEntry
    <3>2. UNCHANGED <<at, current>>
      BY <1>1, <1>5, <3>1, WorkerFacts DEF Goto, TypeOK
    <3> QED BY <1>2, <1>5, <3>2 DEF Migrated
  <2>3. CASE StartDrain(w) \/ Scan(w) \/ Migrate(w) \/ EndOfQueue(w) \/ Load(w)
    <3>1. \E s \in {"scan", "listing", "idle", "loaded", "next", "pruning", "sending"} :
            Goto(Worker(w), s)
      BY <2>3 DEF StartDrain, Scan, Migrate, EndOfQueue, Load, LoadRead, LoadUsedUp,
         LoadTooEarly, LoadAndSend, Done
    <3> QED BY <1>1, <1>5, <3>1, WorkerFacts DEF Goto, TypeOK
  <2> QED BY <2>1, <2>2, <2>3 DEF List
<1> QED BY <1>3, <1>4, <1>5 DEF Migrated

\* No step claims or takes a legacy entry.
LEMMA NextMigrates ==
  ASSUME QueueInv, Migrated, [Next]_vars
  PROVE  Migrated'
<1>1. TypeOK
  BY DEF QueueInv, ClaimInv
<1>2. ASSUME NEW e \in Entries, Enqueue(e)
      PROVE  Migrated'
  <2>1. UNCHANGED <<legacy, current, todo>> /\ \A w \in Workers : at'[Worker(w)] = at[Worker(w)]
    BY <1>1, <1>2, WorkerFacts, EntryFacts DEF Enqueue, TypeOK, Goto
  <2> QED BY <2>1 DEF Migrated
<1>3. CASE DeadlinePassed
  <2>1. UNCHANGED <<legacy, current>> /\ \A w \in Workers : todo'[w] \subseteq todo[w]
    BY <1>1, <1>3 DEF DeadlinePassed, TypeOK
  <2>2. \A w \in Workers : at'[Worker(w)] = "claimed" => at[Worker(w)] = "claimed"
    BY <1>1, <1>3, WorkerFacts DEF DeadlinePassed, TypeOK
  <2> QED BY <2>1, <2>2 DEF Migrated
<1>4. CASE Restart
  <2>1. \A w \in Workers : todo'[w] = {} /\ at'[Worker(w)] # "claimed"
    BY <1>4, WorkerFacts DEF Restart
  <2> QED BY <2>1 DEF Migrated
<1>5. CASE UNCHANGED vars
  BY <1>5 DEF vars, Migrated
<1> QED BY <1>2, <1>3, <1>4, <1>5, JobMigrates, WorkerMigrates DEF Next

\* What a worker loads under its claim is never a legacy entry: the migration of
\* loadPendingDelivery finds nothing to do, the one of the directory scan did it.
THEOREM TakenEntriesAreMigrated == Spec => []Migrated
<1>1. Init => Migrated
  BY WorkerFacts DEF Init, Migrated
<1>2. QueueInv /\ Migrated /\ [Next]_vars => Migrated'
  BY NextMigrates
<1> QED BY <1>1, <1>2, Inductive, PTL DEF Spec
=============================================================================
