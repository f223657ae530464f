---------------------------- MODULE FollowupQueue ----------------------------
(***************************************************************************)
(* The queue of messages that arrive while the agent is busy with their    *)
(* session: src/auto-reply/reply/queue/ (state, enqueue, drain, cleanup),  *)
(* src/utils/queue-helpers.ts, and the calls agent-runner.ts makes.        *)
(*                                                                         *)
(* One session key is modelled.  Its queue is an object registered in      *)
(* FOLLOWUP_QUEUES that comes and goes; a drain keeps working on the       *)
(* object it started with.  Everything between two awaits is one action:   *)
(* a drain waits for the debounce, for the helper that may run a message   *)
(* alone, for the start of the agent run, and for its end.  An await at    *)
(* which a step only hands its result on, with nothing read before it used *)
(* after it, belongs to that step.  A session has one active run at a time *)
(* (reply-run-registry): a drain whose run finds the session busy fails    *)
(* and is scheduled again.                                                 *)
(*                                                                         *)
(* A redelivery after the window of the message-id cache counts as another *)
(* message.  queue.lastRun is left out: it is set before anything is put   *)
(* into the queue and unset only when the queue is emptied for good, so    *)
(* the breaks on a missing lastRun are never taken.  The cached callback   *)
(* only decides which function runs the message.  The lines of the summary *)
(* of dropped messages only matter by their number.                        *)
(***************************************************************************)
EXTENDS Integers, Sequences, FiniteSets, Functions

CONSTANTS Msgs,      \* inbound messages
          Queues,    \* queue objects in memory at a time (a bound)
          None,      \* no queue is registered
          Route,     \* message -> where its reply goes, NoRoute or BadRoute
          NoRoute,   \* a message without routing fields
          BadRoute,  \* a message that cannot be routed
          Auth,      \* message -> its resolveFollowupAuthorizationKey
          Settings,  \* queue settings in force, see SettingsOK
          Clears     \* /stop and session resets clear the queue

Main == "main" \* a run that is not a followup

SettingsOK == [mode : {"collect", "followup"}, cap : Nat \ {0},
               drop : {"old", "new", "summarize"}]

ASSUME ConstantsAssumption ==
  /\ IsFiniteSet(Msgs)
  /\ None \notin Queues /\ Main \notin Queues \cup {None}
  /\ Settings \subseteq SettingsOK
  /\ DOMAIN Route = Msgs /\ DOMAIN Auth = Msgs
  /\ Clears \in BOOLEAN

VARIABLES
  registered, \* FOLLOWUP_QUEUES.get(key), or None
  items,      \* queue -> its messages
  settings,   \* queue -> mode, cap and dropPolicy
  count,      \* queue -> droppedCount
  pc,         \* queue -> the await its drain stands at; draining unless "idle"
  force,      \* queue -> forceIndividualCollect of its drain
  compared,   \* queue -> the messages whose routes were compared for its job (history)
  job,        \* queue -> the run its drain has asked for
  active,     \* owner of the session's active run: None, Main or a queue
  recent,     \* RECENT_QUEUE_MESSAGE_IDS
  fate        \* message -> what has become of it (history)

vars == <<registered, items, settings, count, pc, force, compared,
          job, active, recent, fate>>

Fates == {"new", "pending", "ran", "dropped", "cleared"}

\* A run: the messages it delivers, how many items it takes off the queue,
\* whether it has the summary of drops, and the messages of the groups that
\* come after it.
Job(msgs, takes, summary, rest) ==
  [msgs |-> msgs, takes |-> takes, summary |-> summary, rest |-> rest]

NoJob == Job(<<>>, 0, FALSE, <<>>)

TypeOK ==
  /\ registered \in Queues \cup {None}
  /\ \A q \in Queues :
       /\ items[q] \in Seq(Msgs) /\ IsInjective(items[q])
       /\ settings[q] \in SettingsOK
       /\ count[q] \in 0 .. Cardinality(Msgs)
       /\ pc[q] \in {"idle", "debounce", "checked", "empty", "leaving", "starting", "running"}
       /\ pc[q] \in {"starting", "running"} <=> job[q] # NoJob
       /\ force[q] \in BOOLEAN
       /\ compared[q] \subseteq Msgs
  /\ active \in Queues \cup {None, Main}
  /\ recent \subseteq Msgs
  /\ fate \in [Msgs -> Fates]

Init ==
  /\ registered = None
  /\ items = [q \in Queues |-> <<>>]
  /\ settings \in [Queues -> Settings]
  /\ \A p, q \in Queues : settings[p] = settings[q]
  /\ count = [q \in Queues |-> 0]
  /\ pc = [q \in Queues |-> "idle"]
  /\ force = [q \in Queues |-> FALSE]
  /\ compared = [q \in Queues |-> {}]
  /\ job = [q \in Queues |-> NoJob]
  /\ active = None
  /\ recent = {}
  /\ fate = [m \in Msgs |-> "new"]

-----------------------------------------------------------------------------
(* Drains: their loop between two awaits *)

HasWork(q) == items[q] # <<>> \/ count[q] > 0
HasWorkNext(q) == items'[q] # <<>> \/ count'[q] > 0

\* scheduleFollowupDrain(key), with p the stage of every drain before it: the
\* registered queue starts to drain unless it does, and goes if it is empty.
Scheduled(p) ==
  IF registered = None \/ p[registered] # "idle"
  THEN pc' = p /\ UNCHANGED <<registered, force>>
  ELSE IF HasWorkNext(registered)
  THEN /\ pc' = [p EXCEPT ![registered] = "debounce"]
       /\ force' = [force EXCEPT ![registered] = FALSE]
       /\ UNCHANGED registered
  ELSE pc' = p /\ registered' = None /\ UNCHANGED force

\* Mutant: a drain that fails is not scheduled again.
MutEnded(q) ==
  /\ pc' = [pc EXCEPT ![q] = "idle"]
  /\ registered' = IF HasWorkNext(q) THEN registered ELSE None
  /\ UNCHANGED force

\* The drain of q leaves its loop.  Whatever queue is registered for the key
\* goes if q is empty, and is scheduled if q is not.
Ended(q) ==
  LET p == [pc EXCEPT ![q] = "idle"]
  IN IF HasWorkNext(q) THEN Scheduled(p)
     ELSE pc' = p /\ registered' = None /\ UNCHANGED force

\* Mutant: a drain gives the queue up after a run, with what came in meanwhile.
MutLooped(q) == pc' = [pc EXCEPT ![q] = "idle"] /\ registered' = None /\ UNCHANGED force

\* The drain of q has finished a run and looks for more.
Looped(q) ==
  IF HasWorkNext(q) THEN pc' = [pc EXCEPT ![q] = "debounce"] /\ UNCHANGED <<registered, force>>
  ELSE Ended(q)

\* hasCrossChannelItems
Cross(s) ==
  LET routes == {Route[m] : m \in Range(s)}
  IN BadRoute \in routes \/ Cardinality(routes) > 1

\* splitCollectItemsByAuthorization: the messages of the first group of s are
\* those before the first one whose authorization differs.
Together(s) ==
  CHOOSE n \in 1 .. Len(s) :
    /\ \A i \in 1 .. n : Auth[s[i]] = Auth[s[1]]
    /\ n < Len(s) => Auth[s[n + 1]] # Auth[s[1]]

\* The queue has dropped messages to report (previewQueueSummaryPrompt).
Overflowed(q) == settings[q].drop = "summarize" /\ count[q] > 0

Alone(q) == Job(<<Head(items[q])>>, 1, FALSE, <<>>)

SummaryOnly == Job(<<>>, 0, TRUE, <<>>)

\* Routed like the first item, but with the summary for a prompt.
SummaryAsItem == Job(<<>>, 1, TRUE, <<>>)

\* A collect batch: the first group of s, with the summary if there is one.
Batch(s, summary) ==
  LET n == Together(s) IN
  Job(SubSeq(s, 1, n), n, summary, SubSeq(s, n + 1, Len(s)))

\* Mutant: that the destinations differed before is forgotten.
MutApart(q) == Cross(items[q])

\* The destinations of the queued messages differ, or did since the drain began.
Apart(q) == force[q] \/ Cross(items[q])

\* The run the drain of q asks for at the end of the debounce; NoJob if it
\* leaves the helper without one.
FirstJob(q) ==
  IF items[q] = <<>> THEN NoJob
  ELSE IF settings[q].mode = "collect" THEN IF Apart(q) THEN Alone(q) ELSE NoJob
  ELSE IF Overflowed(q) THEN SummaryAsItem
  ELSE Alone(q)

\* What the helper answers when it runs nothing: the messages may be collected,
\* there is none left to run alone, or (not collecting) there is none at all.
Answer(q) ==
  IF settings[q].mode # "collect" THEN "leaving"
  ELSE IF Apart(q) THEN "empty"
  ELSE "checked"

\* The debounce is over: in collect mode the destinations are compared.
Wake(q) ==
  /\ pc[q] = "debounce"
  /\ compared' = [compared EXCEPT ![q] = Range(items[q])]
  /\ force' = [force EXCEPT ![q] = @ \/ (settings[q].mode = "collect" /\ Cross(items[q]))]
  /\ job' = [job EXCEPT ![q] = FirstJob(q)]
  /\ pc' = [pc EXCEPT ![q] = IF FirstJob(q) # NoJob THEN "starting" ELSE Answer(q)]
  /\ UNCHANGED <<registered, items, settings, count, active, recent, fate>>

\* The run the drain asks for after that answer, from what is in the queue by
\* then; NoJob when it breaks off its loop.
LaterJob(q) ==
  IF pc[q] = "checked" /\ items[q] # <<>> THEN Batch(items[q], Overflowed(q))
  ELSE IF pc[q] # "leaving" /\ Overflowed(q) THEN SummaryOnly
  ELSE NoJob

\* The drain goes on with the answer of the helper.
GoOn(q) ==
  /\ pc[q] \in {"checked", "empty", "leaving"}
  /\ job' = [job EXCEPT ![q] = LaterJob(q)]
  /\ UNCHANGED <<items, settings, count, active, recent, fate>>
  /\ IF LaterJob(q) = NoJob
     THEN compared' = [compared EXCEPT ![q] = {}] /\ Ended(q)
     ELSE /\ pc' = [pc EXCEPT ![q] = "starting"]
          /\ UNCHANGED <<registered, force, compared>>

\* The run takes the session (createReplyOperation).
BeginFollowup(q) ==
  /\ pc[q] = "starting"
  /\ active = None
  /\ active' = q
  /\ pc' = [pc EXCEPT ![q] = "running"]
  /\ UNCHANGED <<registered, items, settings, count, force, compared, job, recent, fate>>

\* The run throws: because the session is busy, or later.
FollowupFails(q) ==
  /\ pc[q] = "running" \/ (pc[q] = "starting" /\ active # None)
  /\ active' = IF active = q THEN None ELSE active
  /\ job' = [job EXCEPT ![q] = NoJob]
  /\ compared' = [compared EXCEPT ![q] = {}]
  /\ UNCHANGED <<items, settings, count, recent, fate>>
  /\ Ended(q)

\* Mutant: a run empties the queue, with what came in meanwhile.
MutTaken(q) == <<>>

\* Mutant: one message too few is removed.
MutTakenShort(q) == SubSeq(items[q], job[q].takes, Len(items[q]))

\* items.shift() or items.splice(0, n), on what is in the queue by now.
Taken(q) == SubSeq(items[q], job[q].takes + 1, Len(items[q]))

\* The run returns, delivered, silent or aborted.
FollowupReturns(q) ==
  LET j == job[q] IN
  /\ pc[q] = "running"
  /\ active' = None
  /\ items' = [items EXCEPT ![q] = Taken(q)]
  /\ count' = [count EXCEPT ![q] = IF j.summary THEN 0 ELSE @]
  /\ fate' = [m \in Msgs |-> IF m \in Range(j.msgs) THEN "ran" ELSE fate[m]]
  /\ UNCHANGED <<settings, recent>>
  /\ IF j.rest = <<>>
     THEN /\ job' = [job EXCEPT ![q] = NoJob]
          /\ compared' = [compared EXCEPT ![q] = {}]
          /\ Looped(q)
     ELSE /\ job' = [job EXCEPT ![q] = Batch(j.rest, FALSE)]
          /\ pc' = [pc EXCEPT ![q] = "starting"]
          /\ UNCHANGED <<registered, force, compared>>

-----------------------------------------------------------------------------
(* Enqueue and clear *)

\* applyQueueDropPolicy makes room for one message, unless the policy is new.
Dropped(s, set) ==
  IF Len(s) < set.cap THEN <<>> ELSE SubSeq(s, 1, Len(s) - set.cap + 1)

\* The message is queued, or was within the window of the cache.
Seen(m, q) == m \in recent \/ m \in Range(items[q])

\* Message m goes into queue q, which is made first if the key has none.
Pushed(m, q, set) ==
  LET gone == Dropped(items[q], set)
      kept == SubSeq(items[q], Len(gone) + 1, Len(items[q]))
  IN IF Seen(m, q) \/ (gone # <<>> /\ set.drop = "new")
     THEN UNCHANGED <<items, count, recent, fate>>
     ELSE /\ items' = [items EXCEPT ![q] = Append(kept, m)]
          /\ count' = [count EXCEPT ![q] = IF set.drop = "summarize" THEN @ + Len(gone) ELSE @]
          /\ recent' = recent \cup {m}
          /\ fate' = [n \in Msgs |->
               IF n = m THEN "pending"
               ELSE IF n \in Range(gone) /\ fate[n] # "ran" THEN "dropped" ELSE fate[n]]

\* A message arrives that found the session busy.  If the session is no longer
\* busy by now, the drain is scheduled at once (agent-runner.ts).
Enqueue(m, set) ==
  \E q \in Queues :
    /\ IF registered = None
       THEN pc[q] = "idle" /\ ~HasWork(q)
       ELSE q = registered
    /\ settings' = [settings EXCEPT ![q] = set]
    /\ Pushed(m, q, set)
    /\ IF active # None
       THEN registered' = q /\ UNCHANGED <<pc, force>>
       ELSE IF pc[q] # "idle" THEN registered' = q /\ UNCHANGED <<pc, force>>
       ELSE IF HasWorkNext(q)
       THEN /\ registered' = q
            /\ pc' = [pc EXCEPT ![q] = "debounce"]
            /\ force' = [force EXCEPT ![q] = FALSE]
       ELSE registered' = None /\ UNCHANGED <<pc, force>>
    /\ UNCHANGED <<compared, job, active>>

\* clearSessionQueues; a drain under way keeps its queue, now empty.
Clear ==
  /\ Clears
  /\ registered # None
  /\ items' = [items EXCEPT ![registered] = <<>>]
  /\ count' = [count EXCEPT ![registered] = 0]
  /\ fate' = [m \in Msgs |->
       IF m \in Range(items[registered]) /\ fate[m] # "ran" THEN "cleared" ELSE fate[m]]
  /\ registered' = None
  /\ UNCHANGED <<settings, pc, force, compared, job, active, recent>>

\* A message that finds the session idle is run at once.
StartRun ==
  /\ active = None
  /\ active' = Main
  /\ UNCHANGED <<registered, items, settings, count, pc, force, compared, job, recent, fate>>

\* Every way out of that run calls finalizeWithFollowup.
EndRun ==
  /\ active = Main
  /\ active' = None
  /\ UNCHANGED <<items, settings, count, compared, job, recent, fate>>
  /\ Scheduled(pc)

Next ==
  \/ \E q \in Queues : \/ Wake(q) \/ GoOn(q)
                        \/ BeginFollowup(q) \/ FollowupFails(q) \/ FollowupReturns(q)
  \/ \E m \in Msgs, set \in Settings : Enqueue(m, set)
  \/ Clear
  \/ StartRun
  \/ EndRun

Spec == Init /\ [][Next]_vars

\* Fairness: debounces and runs end, and a drain that tries again and again
\* finds the session free some time, and its run succeeds some time.
FairSpec ==
  /\ Spec
  /\ WF_vars(EndRun)
  /\ \A q \in Queues : /\ WF_vars(Wake(q) \/ GoOn(q) \/ FollowupFails(q))
                       /\ SF_vars(Wake(q) /\ active = None)
                       /\ SF_vars(GoOn(q) /\ active = None)
                       /\ SF_vars(BeginFollowup(q))
                       /\ SF_vars(FollowupReturns(q))

-----------------------------------------------------------------------------
(* Safety *)

\* A message accepted into the queue stays in it until a run delivers it, the
\* drop policy takes it as the oldest, or the queue is cleared.
NoneVanish ==
  \A m \in Msgs : fate[m] = "pending" => \E q \in Queues : m \in Range(items[q])

\* A queue that holds messages is found under its key or being drained, so that
\* somebody will get to them.
NoOrphan ==
  \A q \in Queues : items[q] # <<>> => q = registered \/ pc[q] # "idle"

\* A collect batch never mixes senders of different authorization, nor, among
\* the messages that were queued when the drain compared destinations, replies
\* that go to different places; a drain that found them to differ runs every
\* message alone from then on.  Only a message that came in between the
\* comparison and the batch may bring another destination.
BatchesAreUniform ==
  \A q \in Queues : \A m, n \in Range(job[q].msgs) :
    m # n => /\ Auth[m] = Auth[n]
             /\ ~force[q]
             /\ {m, n} \subseteq compared[q] => Route[m] = Route[n] /\ Route[m] # BadRoute

\* No message is given to the agent again after it was delivered: neither by a
\* redelivery nor by the retry of a batch of which a part failed.
DeliveredOnce ==
  [][\A q \in Queues : FollowupReturns(q) => \A m \in Range(job[q].msgs) : fate[m] # "ran"]_vars

(* Liveness *)

\* Whoever waits in the queue gets a turn, or is dropped or cleared.
EveryoneGetsATurn == \A m \in Msgs : fate[m] = "pending" ~> fate[m] # "pending"
=============================================================================
