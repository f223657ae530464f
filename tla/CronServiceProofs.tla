---------------------------- MODULE CronServiceProofs ----------------------------
(***************************************************************************)
(* Proofs about the scheduler of jobs, for every set of jobs, schedules    *)
(* and requests.                                                           *)
(***************************************************************************)
EXTENDS CronService, Integers, TLAPS, FiniteSetTheorems, SequenceTheorems

(* Control: who waits for which section, and who executes jobs *)

Waiting == {queue[i] : i \in DOMAIN queue}

\* A section is in the chain for somebody who waits for it, at most once.
Awaited(section) ==
  /\ section = "claim" => tick = "claim"
  /\ section = "apply" => tick = "apply"
  /\ section \in {"clear", "plan", "settle", "arm"} => boot = section
  /\ section \in {"preflight", "reserve", "finish"} => manual.at = section
  /\ section = "request" => request # None
Queued ==
  /\ \A section \in Waiting : Awaited(section)
  /\ \A i, k \in DOMAIN queue : queue[i] = queue[k] => i = k

\* Before the markers are cleared nothing is loaded and nothing goes on.
Started ==
  /\ loaded = (boot # "clear")
  /\ ~loaded => /\ queue # <<>> /\ Head(queue) = "clear"
                /\ ~timer /\ tick = "idle" /\ mem = [j \in Jobs |-> None]
                /\ \A a \in Actors, j \in Jobs : exec[a][j] = None

\* Only a batch under way has executions, and only until its outcomes are written.
Ended(a, j) == exec[a][j].state \in Outcomes
Stages ==
  \A j \in Jobs :
    /\ exec["tick"][j] # None =>
         tick \in {"run", "apply"} /\ (~Ended("tick", j) => tick = "run")
    /\ exec["boot"][j] # None =>
         boot \in {"run", "settle"} /\ (~Ended("boot", j) => boot = "run")
    /\ exec["manual"][j] # None =>
         manual.at \in {"run", "finish"} /\ (~Ended("manual", j) => manual.at = "run")

\* The run by hand knows its job, since when it is reserved, and executes nothing else.
ByHand ==
  /\ manual.at # "idle" => manual.job \in Jobs
  /\ manual.at = "reserve" => manual.since \in Nat /\ manual.since <= now
  /\ manual.at \in {"run", "finish"} => exec["manual"][manual.job] # None
  /\ \A j \in Jobs : exec["manual"][j] # None => j = manual.job

\* Executions do not begin in the future, and end after they began.
Clocked ==
  \A a \in Actors, j \in Jobs : exec[a][j] # None =>
    /\ exec[a][j].from <= now
    /\ Ended(a, j) => exec[a][j].to \in Nat /\ exec[a][j].from <= exec[a][j].to
                      /\ exec[a][j].to <= now

\* TypeOK without the stores
ControlTypes ==
  /\ now \in Nat
  /\ loaded \in BOOLEAN /\ timer \in BOOLEAN /\ attached \in BOOLEAN
  /\ queue \in Seq(Sections)
  /\ tick \in {"idle", "claim", "run", "apply", "done"}
  /\ boot \in {"clear", "plan", "run", "settle", "arm", "up"}
  /\ skip \subseteq Jobs /\ deferred \in Seq(Jobs)
  /\ exec \in [Actors -> [Jobs -> Executions \cup {None}]]
  /\ manual \in [at : {"idle", "preflight", "reserve", "run", "finish"},
                 job : Jobs \cup {None}, forced : BOOLEAN, since : Times]
  /\ request \in Requests \cup {None} /\ todo \subseteq Requests
  /\ events \in Nat
  /\ released \subseteq Jobs

Control ==
  /\ ControlTypes /\ Queued /\ Started /\ Stages /\ ByHand /\ Clocked
  /\ request \notin todo

-----------------------------------------------------------------------------
(* The chain of sections *)

\* A section that comes to an empty or a busy chain waits at its end.
LEMMA Appending ==
  ASSUME queue \in Seq(Sections), NEW section \in Sections, section \notin Waiting,
         \A i, k \in DOMAIN queue : queue[i] = queue[k] => i = k,
         queue' = Append(queue, section)
  PROVE  /\ queue' \in Seq(Sections) /\ queue' # <<>>
         /\ Waiting' = Waiting \cup {section}
         /\ \A i, k \in DOMAIN queue' : queue'[i] = queue'[k] => i = k
         /\ queue # <<>> => Head(queue') = Head(queue)
<1>1. Len(queue) \in Nat /\ DOMAIN queue = 1 .. Len(queue)
  BY LenProperties
<1>2. /\ queue' \in Seq(Sections) /\ queue' # <<>> /\ Len(queue') = Len(queue) + 1
      /\ \A i \in 1 .. Len(queue) : queue'[i] = queue[i]
      /\ queue'[Len(queue) + 1] = section
  BY AppendProperties
<1>3. DOMAIN queue' = 1 .. Len(queue) + 1
  BY <1>1, <1>2, LenProperties
<1>4. Waiting' = Waiting \cup {section}
  <2>1. \A i \in DOMAIN queue' : queue'[i] \in Waiting \cup {section}
    BY <1>1, <1>2, <1>3 DEF Waiting
  <2>2. \A i \in DOMAIN queue : i \in DOMAIN queue' /\ queue'[i] = queue[i]
    BY <1>1, <1>2, <1>3
  <2>3. Len(queue) + 1 \in DOMAIN queue'
    BY <1>1, <1>3
  <2> QED
    BY <1>2, <2>1, <2>2, <2>3 DEF Waiting
<1>5. \A i, k \in DOMAIN queue' : queue'[i] = queue'[k] => i = k
  BY <1>1, <1>2, <1>3 DEF Waiting
<1>6. queue # <<>> => Head(queue') = Head(queue)
  BY HeadTailAppend
<1> QED
  BY <1>2, <1>4, <1>5, <1>6

\* The first section has run, and nobody waits for it any more.
LEMMA Running ==
  ASSUME queue \in Seq(Sections), NEW section, Runs(section),
         \A i, k \in DOMAIN queue : queue[i] = queue[k] => i = k
  PROVE  /\ section \in Waiting
         /\ Tail(queue) \in Seq(Sections)
         /\ {Tail(queue)[i] : i \in DOMAIN Tail(queue)} = Waiting \ {section}
         /\ \A i, k \in DOMAIN Tail(queue) : Tail(queue)[i] = Tail(queue)[k] => i = k
<1>1. Len(queue) \in Nat /\ DOMAIN queue = 1 .. Len(queue) /\ queue # <<>> /\ Len(queue) # 0
  BY LenProperties, EmptySeq DEF Runs
<1>2. /\ Tail(queue) \in Seq(Sections) /\ Len(Tail(queue)) = Len(queue) - 1
      /\ \A i \in 1 .. Len(Tail(queue)) : Tail(queue)[i] = queue[i + 1]
  BY <1>1, HeadTailProperties
<1>3. DOMAIN Tail(queue) = 1 .. Len(queue) - 1
  BY <1>2, LenProperties
<1>4. Head(queue) = queue[1]
  BY <1>1
<1>5. section = queue[1] /\ 1 \in DOMAIN queue
  BY <1>1, <1>4 DEF Runs
<1>6. \A i \in DOMAIN Tail(queue) : i + 1 \in DOMAIN queue /\ Tail(queue)[i] = queue[i + 1] /\ i + 1 # 1
  BY <1>1, <1>2, <1>3
<1>7. \A i \in DOMAIN queue \ {1} : i - 1 \in DOMAIN Tail(queue) /\ Tail(queue)[i - 1] = queue[i]
  BY <1>1, <1>2, <1>3
<1>8. {Tail(queue)[i] : i \in DOMAIN Tail(queue)} = Waiting \ {section}
  <2>1. \A i \in DOMAIN Tail(queue) : Tail(queue)[i] \in Waiting /\ Tail(queue)[i] # section
    BY <1>5, <1>6 DEF Waiting
  <2>2. ASSUME NEW s \in Waiting \ {section}
        PROVE  \E i \in DOMAIN Tail(queue) : Tail(queue)[i] = s
    <3>1. PICK i \in DOMAIN queue : queue[i] = s
      BY DEF Waiting
    <3>2. i # 1
      BY <1>5, <3>1
    <3> QED
      BY <1>7, <3>1, <3>2
  <2> QED
    BY <2>1, <2>2
<1>9. \A i, k \in DOMAIN Tail(queue) : Tail(queue)[i] = Tail(queue)[k] => i = k
  BY <1>1, <1>3, <1>6
<1> QED
  BY <1>2, <1>5, <1>8, <1>9 DEF Waiting

\* A section runs and leaves the rest of the chain.
LEMMA RunAlone ==
  ASSUME queue \in Seq(Sections), NEW section, Runs(section), Then(<<>>),
         \A i, k \in DOMAIN queue : queue[i] = queue[k] => i = k
  PROVE  /\ queue' \in Seq(Sections) /\ Waiting' = Waiting \ {section} /\ section \in Waiting
         /\ \A i, k \in DOMAIN queue' : queue'[i] = queue'[k] => i = k
<1>1. queue' = Tail(queue)
  <2>1. queue # <<>>
    BY DEF Runs
  <2> QED
    BY <2>1, HeadTailProperties, ConcatEmptySeq DEF Then
<1>2. Waiting' = {Tail(queue)[i] : i \in DOMAIN Tail(queue)}
  BY <1>1 DEF Waiting
<1>3. /\ section \in Waiting /\ Tail(queue) \in Seq(Sections)
      /\ {Tail(queue)[i] : i \in DOMAIN Tail(queue)} = Waiting \ {section}
      /\ \A i, k \in DOMAIN Tail(queue) : Tail(queue)[i] = Tail(queue)[k] => i = k
  BY Running
<1> QED
  BY <1>1, <1>2, <1>3

\* A section runs and puts the next one of its caller at the end of the chain.
LEMMA RunThen ==
  ASSUME queue \in Seq(Sections), NEW section, Runs(section),
         NEW next \in Sections, Then(<<next>>), next \notin Waiting,
         \A i, k \in DOMAIN queue : queue[i] = queue[k] => i = k
  PROVE  /\ queue' \in Seq(Sections) /\ Waiting' = (Waiting \ {section}) \cup {next}
         /\ section \in Waiting
         /\ \A i, k \in DOMAIN queue' : queue'[i] = queue'[k] => i = k
<1> DEFINE rest == Tail(queue)
<1>1. /\ section \in Waiting /\ rest \in Seq(Sections)
      /\ {rest[i] : i \in DOMAIN rest} = Waiting \ {section}
      /\ \A i, k \in DOMAIN rest : rest[i] = rest[k] => i = k
  BY Running
<1>2. queue' = Append(rest, next)
  BY <1>1, AppendIsConcat DEF Then
<1> HIDE DEF rest
<1>3. Len(rest) \in Nat /\ DOMAIN rest = 1 .. Len(rest)
  BY <1>1, LenProperties
<1>4. /\ queue' \in Seq(Sections) /\ Len(queue') = Len(rest) + 1
      /\ \A i \in 1 .. Len(rest) : queue'[i] = rest[i]
      /\ queue'[Len(rest) + 1] = next
  BY <1>1, <1>2, AppendProperties
<1>5. DOMAIN queue' = 1 .. Len(rest) + 1
  BY <1>3, <1>4, LenProperties
<1>6. Waiting' = (Waiting \ {section}) \cup {next}
  <2>1. \A i \in DOMAIN queue' : queue'[i] \in (Waiting \ {section}) \cup {next}
    BY <1>1, <1>3, <1>4, <1>5
  <2>2. \A i \in DOMAIN rest : i \in DOMAIN queue' /\ queue'[i] = rest[i]
    BY <1>3, <1>4, <1>5
  <2>3. \A s \in Waiting \ {section} : \E i \in DOMAIN queue' : queue'[i] = s
    BY <1>1, <2>2
  <2>4. Len(rest) + 1 \in DOMAIN queue' /\ queue'[Len(rest) + 1] = next
    BY <1>3, <1>4, <1>5
  <2>5. Waiting' = {queue'[i] : i \in DOMAIN queue'}
    BY DEF Waiting
  <2> QED
    BY <2>1, <2>3, <2>4, <2>5
<1>7. \A i, k \in DOMAIN queue' : queue'[i] = queue'[k] => i = k
  BY <1>1, <1>3, <1>4, <1>5
<1> QED
  BY <1>1, <1>4, <1>6, <1>7

-----------------------------------------------------------------------------
(* Every step keeps the control invariant *)

\* The timer fires.
LEMMA TimerFiresControl ==
  ASSUME Control, TimerFires
  PROVE  Control'
<1>1. /\ timer /\ tick = "idle" /\ tick' = "claim" /\ queue' = Append(queue, "claim")
      /\ UNCHANGED <<now, mem, loaded, timer, attached, boot, skip, deferred, exec, manual,
                     request, todo, events, released>>
  BY DEF TimerFires, store, booting, asked
<1>2. "claim" \notin Waiting /\ "claim" \in Sections
  BY <1>1 DEF Control, Queued, Awaited, Sections
<1>3. /\ queue' \in Seq(Sections) /\ Waiting' = Waiting \cup {"claim"}
      /\ \A i, k \in DOMAIN queue' : queue'[i] = queue'[k] => i = k
      /\ loaded
  BY <1>1, <1>2, Appending DEF Control, ControlTypes, Queued, Started
<1>4. ControlTypes'
  BY <1>1, <1>3 DEF Control, ControlTypes
<1>5. Queued'
  BY <1>1, <1>3 DEF Control, Queued, Awaited
<1>6. Started' /\ Stages' /\ ByHand' /\ Clocked'
  BY <1>1, <1>3 DEF Control, Started, Stages, ByHand, Clocked, Ended
<1> QED
  BY <1>1, <1>4, <1>5, <1>6 DEF Control

\* What a batch has after it claimed its jobs
LEMMA Claiming ==
  ASSUME now \in Nat, exec \in [Actors -> [Jobs -> Executions \cup {None}]],
         NEW a \in Actors, NEW js, js \subseteq Jobs,
         exec' = [exec EXCEPT ![a] = Claimed(js)]
  PROVE  /\ exec' \in [Actors -> [Jobs -> Executions \cup {None}]]
         /\ \A b \in Actors \ {a} : exec'[b] = exec[b]
         /\ \A j \in js : exec'[a][j] # None
         /\ \A j \in js : exec'[a][j] = [state |-> "waiting", from |-> now, to |-> None]
         /\ \A j \in Jobs \ js : exec'[a][j] = None
<1>1. [state |-> "waiting", from |-> now, to |-> None] \in Executions
  BY DEF Executions, Times
<1>2. /\ Claimed(js) \in [Jobs -> Executions \cup {None}]
      /\ \A j \in Jobs : Claimed(js)[j] =
           IF j \in js THEN [state |-> "waiting", from |-> now, to |-> None] ELSE None
  BY <1>1 DEF Claimed
<1>3. /\ exec'[a] = Claimed(js) /\ exec' \in [Actors -> [Jobs -> Executions \cup {None}]]
      /\ \A b \in Actors \ {a} : exec'[b] = exec[b]
  BY <1>2
<1> QED
  BY <1>1, <1>2, <1>3, NoneAssumption

\* What is left when the outcomes of a batch are written
LEMMA Idling ==
  ASSUME exec \in [Actors -> [Jobs -> Executions \cup {None}]],
         NEW a \in Actors, exec' = [exec EXCEPT ![a] = Idle(a)]
  PROVE  /\ exec' \in [Actors -> [Jobs -> Executions \cup {None}]]
         /\ \A b \in Actors \ {a} : exec'[b] = exec[b]
         /\ \A j \in Jobs : exec'[a][j] = None
BY DEF Idle

\* The first section of a tick
LEMMA ClaimControl ==
  ASSUME Control, Claim
  PROVE  Control'
<1>1. /\ Runs("claim") /\ Then(<<>>)
      /\ UNCHANGED <<now, timer, boot, skip, deferred, manual, request, todo, events>>
  BY DEF Claim, booting, asked
<1>2. /\ queue' \in Seq(Sections) /\ Waiting' = Waiting \ {"claim"} /\ "claim" \in Waiting
      /\ \A i, k \in DOMAIN queue' : queue'[i] = queue'[k] => i = k
  BY <1>1, RunAlone DEF Control, ControlTypes, Queued
<1>3. tick = "claim" /\ loaded /\ loaded' = TRUE
  BY <1>1, <1>2 DEF Control, Queued, Awaited, Started, Claim, Runs, Saved, InMemory
<1>4. /\ exec' \in [Actors -> [Jobs -> Executions \cup {None}]]
      /\ \A b \in {"boot", "manual"} : exec'[b] = exec[b]
      /\ \A j \in Jobs : exec'["tick"][j] # None =>
           /\ tick' = "run" /\ exec'["tick"][j].state = "waiting"
           /\ exec'["tick"][j].from = now
      /\ tick' \in {"run", "done"} /\ attached' \in BOOLEAN /\ released' \subseteq Jobs
  <2>1. "tick" \in Actors /\ "boot" \in Actors /\ "manual" \in Actors
    BY DEF Actors
  <2>2. CASE exec' = exec /\ attached' = attached /\ tick' = "done" /\ Release(Loses(disk))
    <3>1. \A j \in Jobs : exec["tick"][j] = None
      BY <1>3 DEF Control, Stages
    <3>2. released' \subseteq Jobs
      BY <2>2 DEF Release, Loses, Control, ControlTypes
    <3> QED
      BY <2>2, <3>1, <3>2 DEF Control, ControlTypes
  <2>3. CASE /\ exec' = [exec EXCEPT !["tick"] = Claimed({j \in Jobs : Due(disk, j)})]
             /\ tick' = "run" /\ attached' = TRUE /\ released' = released
    <3>1. PICK due \in SUBSET Jobs : due = {j \in Jobs : Due(disk, j)}
      OBVIOUS
    <3>2. exec' = [exec EXCEPT !["tick"] = Claimed(due)]
      BY <2>3, <3>1
    <3>3. /\ exec' \in [Actors -> [Jobs -> Executions \cup {None}]]
          /\ \A b \in Actors \ {"tick"} : exec'[b] = exec[b]
          /\ \A j \in due : exec'["tick"][j] = [state |-> "waiting", from |-> now, to |-> None]
          /\ \A j \in Jobs \ due : exec'["tick"][j] = None
      <4>1. now \in Nat /\ exec \in [Actors -> [Jobs -> Executions \cup {None}]]
        BY DEF Control, ControlTypes
      <4> QED
        BY <2>1, <3>1, <3>2, <4>1, Claiming
    <3> QED
      <4>1. tick' \in {"run", "done"} /\ attached' \in BOOLEAN
        BY <2>3
      <4>2. released' \subseteq Jobs
        BY <2>3 DEF Control, ControlTypes
      <4>3. \A b \in {"boot", "manual"} : exec'[b] = exec[b]
        BY <2>1, <3>3
      <4>4. \A j \in Jobs : exec'["tick"][j] # None =>
             /\ tick' = "run" /\ exec'["tick"][j].state = "waiting"
             /\ exec'["tick"][j].from = now
        BY <2>3, <3>3
      <4> QED
        BY <3>3, <4>1, <4>2, <4>3, <4>4
  <2> QED
    BY <2>2, <2>3 DEF Claim, Anew
<1>5. ControlTypes'
  BY <1>1, <1>2, <1>3, <1>4 DEF Control, ControlTypes
<1>6. Queued'
  BY <1>1, <1>2, <1>4 DEF Control, Queued, Awaited
<1>7. Started' /\ ByHand'
  BY <1>1, <1>3, <1>4 DEF Control, Started, ByHand
<1>8. Stages' /\ Clocked'
  BY <1>1, <1>4 DEF Control, ControlTypes, Stages, Clocked, Ended, Outcomes, Actors
<1> QED
  BY <1>1, <1>5, <1>6, <1>7, <1>8 DEF Control

\* A job of a batch starts to execute.
LEMMA StartControl ==
  ASSUME Control, NEW a \in {"tick", "boot"}, NEW j \in Jobs,
         exec[a][j] # None, exec[a][j].state = "waiting",
         exec' = [exec EXCEPT ![a][j] = [state |-> "running", from |-> now, to |-> None]],
         UNCHANGED <<now, loaded, queue, timer, tick, attached, boot, skip, deferred,
                     manual, request, todo, events, released>>
  PROVE  Control'
<1>1. [state |-> "running", from |-> now, to |-> None] \in Executions
  BY DEF Control, ControlTypes, Executions, Times
<1>2. /\ exec' \in [Actors -> [Jobs -> Executions \cup {None}]]
      /\ exec'[a][j] = [state |-> "running", from |-> now, to |-> None]
      /\ \A b \in Actors, k \in Jobs : b # a \/ k # j => exec'[b][k] = exec[b][k]
      /\ a \in Actors
  BY <1>1 DEF Control, ControlTypes, Actors
<1>3. \A b \in Actors, k \in Jobs : exec'[b][k] = None <=> exec[b][k] = None
  BY <1>1, <1>2, NoneAssumption
<1>4. "waiting" \notin Outcomes /\ "running" \notin Outcomes
  BY DEF Outcomes
<1>5. ControlTypes'
  BY <1>2 DEF Control, ControlTypes
<1>6. Queued'
  BY DEF Control, Queued, Awaited, Waiting
<1>7. Started'
  BY <1>2 DEF Control, Started
<1>8. Stages'
  BY <1>2, <1>3, <1>4 DEF Control, Stages, Ended, Actors
<1>9. ByHand'
  BY <1>3 DEF Control, ByHand, Actors
<1>10. Clocked'
  BY <1>2, <1>3, <1>4 DEF Control, ControlTypes, Clocked, Ended
<1> QED
  BY <1>5, <1>6, <1>7, <1>8, <1>9, <1>10 DEF Control

\* A function of two arguments with one value changed
LEMMA Putting ==
  ASSUME exec \in [Actors -> [Jobs -> Executions \cup {None}]],
         NEW a \in Actors, NEW j \in Jobs, NEW new \in Executions,
         exec' = [exec EXCEPT ![a][j] = new]
  PROVE  /\ exec' \in [Actors -> [Jobs -> Executions \cup {None}]]
         /\ exec'[a][j] = new
         /\ \A b \in Actors, k \in Jobs : b # a \/ k # j => exec'[b][k] = exec[b][k]
OBVIOUS

\* An execution ends; with the last of its batch the caller waits for a section.
LEMMA Ending ==
  ASSUME Control, NEW a \in Actors, NEW j \in Jobs, NEW outcome \in Outcomes,
         exec[a][j] # None,
         exec' = [exec EXCEPT ![a][j] = [state |-> outcome, from |-> exec[a][j].from, to |-> now]]
  PROVE  /\ exec' \in [Actors -> [Jobs -> Executions \cup {None}]]
         /\ exec'[a][j] = [state |-> outcome, from |-> exec[a][j].from, to |-> now]
         /\ \A b \in Actors, k \in Jobs : b # a \/ k # j => exec'[b][k] = exec[b][k]
         /\ \A b \in Actors, k \in Jobs : exec'[b][k] = None <=> exec[b][k] = None
<1>1. PICK new \in Executions :
        new = [state |-> outcome, from |-> exec[a][j].from, to |-> now]
  <2>1. exec[a][j] \in Executions /\ now \in Nat
    BY DEF Control, ControlTypes
  <2> QED
    BY <2>1 DEF Executions, Times
<1>2. exec' = [exec EXCEPT ![a][j] = new]
  BY <1>1
<1>3. /\ exec' \in [Actors -> [Jobs -> Executions \cup {None}]] /\ exec'[a][j] = new
      /\ \A b \in Actors, k \in Jobs : b # a \/ k # j => exec'[b][k] = exec[b][k]
  BY <1>2, Putting DEF Control, ControlTypes
<1>4. new # None
  BY NoneAssumption
<1> QED
  BY <1>1, <1>3, <1>4

\* An execution ends; with the last of its batch the caller waits for a section.
LEMMA EndJobControl ==
  ASSUME Control, NEW a \in Actors, NEW j \in Jobs, NEW outcome \in Ends, EndJob(a, j, outcome)
  PROVE  Control'
<1>1. /\ exec[a][j] # None /\ exec[a][j].state = "running" /\ outcome \in Outcomes
      /\ exec' = [exec EXCEPT ![a][j] =
                    [state |-> outcome, from |-> exec[a][j].from, to |-> now]]
      /\ UNCHANGED <<now, mem, loaded, timer, attached, skip, deferred, request, todo, released>>
  BY ConstantsAssumption DEF EndJob, store
<1>2. /\ exec' \in [Actors -> [Jobs -> Executions \cup {None}]]
      /\ exec'[a][j] = [state |-> outcome, from |-> exec[a][j].from, to |-> now]
      /\ \A b \in Actors, k \in Jobs : b # a \/ k # j => exec'[b][k] = exec[b][k]
      /\ \A b \in Actors, k \in Jobs : exec'[b][k] = None <=> exec[b][k] = None
  BY <1>1, Ending
<1>3. ~Ended(a, j) /\ loaded
  BY <1>1 DEF Ended, Outcomes, Control, Started
<1>4. events' \in Nat
  BY <1>1 DEF EndJob, Happens, Control, ControlTypes
<1>5. Clocked'
  BY <1>1, <1>2 DEF Control, ControlTypes, Clocked, Ended, Executions
<1>6. CASE ~EndsBatch(a, j)
  <2>1. UNCHANGED <<queue, tick, boot, manual>>
    BY <1>6 DEF EndJob
  <2>2. ControlTypes'
    BY <1>1, <1>2, <1>4, <2>1 DEF Control, ControlTypes
  <2>3. Queued' /\ Started' /\ ByHand'
    BY <1>1, <1>2, <1>3, <2>1 DEF Control, Queued, Awaited, Waiting, Started, ByHand, Actors
  <2>4. Stages'
    BY <1>1, <1>2, <1>3, <2>1 DEF Control, Stages, Ended, Actors
  <2> QED
    BY <1>1, <1>5, <2>2, <2>3, <2>4 DEF Control
<1>7. CASE EndsBatch(a, j)
  <2>1. \A k \in Jobs : exec'[a][k] # None => Ended(a, k)'
    BY <1>1, <1>2, <1>7 DEF EndsBatch, Executed, Ended
  <2>2. CASE a = "tick"
    <3>1. /\ tick' = "apply" /\ queue' = Append(queue, "apply") /\ UNCHANGED <<boot, manual>>
      BY <1>7, <2>2 DEF EndJob
    <3>2. tick = "run" /\ "apply" \notin Waiting /\ "apply" \in Sections
      BY <1>1, <1>3, <2>2 DEF Control, Stages, Queued, Awaited, Sections
    <3>3. /\ queue' \in Seq(Sections) /\ Waiting' = Waiting \cup {"apply"}
          /\ \A i, k \in DOMAIN queue' : queue'[i] = queue'[k] => i = k
      BY <3>1, <3>2, Appending DEF Control, ControlTypes, Queued
    <3>4. ControlTypes'
      BY <1>1, <1>2, <1>4, <3>1, <3>3 DEF Control, ControlTypes
    <3>5. Queued' /\ Started' /\ ByHand'
      BY <1>1, <1>2, <1>3, <3>1, <3>2, <3>3
      DEF Control, Queued, Awaited, Started, ByHand, Actors
    <3>6. Stages'
      BY <1>2, <2>1, <2>2, <3>1 DEF Control, Stages, Ended, Actors
    <3> QED
      BY <1>1, <1>5, <3>4, <3>5, <3>6 DEF Control
  <2>3. CASE a = "boot"
    <3>1. /\ boot' = "settle" /\ queue' = Append(queue, "settle") /\ UNCHANGED <<tick, manual>>
      BY <1>7, <2>3 DEF EndJob
    <3>2. boot = "run" /\ "settle" \notin Waiting /\ "settle" \in Sections
      BY <1>1, <1>3, <2>3 DEF Control, Stages, Queued, Awaited, Sections
    <3>3. /\ queue' \in Seq(Sections) /\ Waiting' = Waiting \cup {"settle"}
          /\ \A i, k \in DOMAIN queue' : queue'[i] = queue'[k] => i = k
      BY <3>1, <3>2, Appending DEF Control, ControlTypes, Queued
    <3>4. ControlTypes'
      BY <1>1, <1>2, <1>4, <3>1, <3>3 DEF Control, ControlTypes
    <3>5. Queued' /\ Started' /\ ByHand'
      BY <1>1, <1>2, <1>3, <3>1, <3>2, <3>3
      DEF Control, Queued, Awaited, Started, ByHand, Actors
    <3>6. Stages'
      BY <1>2, <2>1, <2>3, <3>1 DEF Control, Stages, Ended, Actors
    <3> QED
      BY <1>1, <1>5, <3>4, <3>5, <3>6 DEF Control
  <2>4. CASE a = "manual"
    <3>1. /\ manual' = [manual EXCEPT !.at = "finish"] /\ queue' = Append(queue, "finish")
          /\ UNCHANGED <<tick, boot>>
      BY <1>7, <2>4 DEF EndJob
    <3>2. manual.at = "run" /\ "finish" \notin Waiting /\ "finish" \in Sections
      BY <1>1, <1>3, <2>4 DEF Control, Stages, Queued, Awaited, Sections
    <3>3. /\ queue' \in Seq(Sections) /\ Waiting' = Waiting \cup {"finish"}
          /\ \A i, k \in DOMAIN queue' : queue'[i] = queue'[k] => i = k
      BY <3>1, <3>2, Appending DEF Control, ControlTypes, Queued
    <3>4. /\ manual'.at = "finish" /\ manual'.job = manual.job
          /\ manual' \in [at : {"idle", "preflight", "reserve", "run", "finish"},
                          job : Jobs \cup {None}, forced : BOOLEAN, since : Times]
      BY <3>1 DEF Control, ControlTypes
    <3>5. ControlTypes'
      BY <1>1, <1>2, <1>4, <3>1, <3>3, <3>4 DEF Control, ControlTypes
    <3>6. Queued'
      BY <1>1, <3>1, <3>2, <3>3, <3>4 DEF Control, Queued, Awaited
    <3>7. Started'
      BY <1>1, <1>2, <1>3, <3>1 DEF Control, Started
    <3>8. ByHand'
      BY <1>1, <1>2, <3>2, <3>4 DEF Control, ByHand, Actors
    <3>9. Stages'
      BY <1>2, <2>1, <2>4, <3>1, <3>4 DEF Control, Stages, Ended, Actors
    <3> QED
      BY <1>1, <1>5, <3>5, <3>6, <3>7, <3>8, <3>9 DEF Control
  <2> QED
    BY <2>2, <2>3, <2>4 DEF Actors
<1> QED
  BY <1>6, <1>7

\* The section that writes the outcomes of a tick
LEMMA ApplyControl ==
  ASSUME Control, ApplyOutcomes
  PROVE  Control'
<1>1. /\ Runs("apply") /\ Then(<<>>) /\ tick' = "done" /\ loaded' = TRUE
      /\ exec' = [exec EXCEPT !["tick"] = Idle("tick")]
      /\ UNCHANGED <<now, timer, attached, boot, skip, deferred, manual, request, todo, events>>
  BY DEF ApplyOutcomes, booting, asked, Saved, InMemory
<1>2. /\ queue' \in Seq(Sections) /\ Waiting' = Waiting \ {"apply"} /\ "apply" \in Waiting
      /\ \A i, k \in DOMAIN queue' : queue'[i] = queue'[k] => i = k
  BY <1>1, RunAlone DEF Control, ControlTypes, Queued
<1>3. tick = "apply" /\ loaded
  BY <1>2 DEF Control, Queued, Awaited, Started
<1>4. /\ exec' \in [Actors -> [Jobs -> Executions \cup {None}]]
      /\ \A b \in Actors \ {"tick"} : exec'[b] = exec[b]
      /\ \A j \in Jobs : exec'["tick"][j] = None
  BY <1>1, Idling DEF Control, ControlTypes, Actors
<1>5. released' \subseteq Jobs
  BY DEF ApplyOutcomes, Forget, Loses, Control, ControlTypes
<1>6. ControlTypes'
  BY <1>1, <1>2, <1>4, <1>5 DEF Control, ControlTypes
<1>7. Queued'
  BY <1>1, <1>2 DEF Control, Queued, Awaited
<1>8. Started' /\ ByHand'
  BY <1>1, <1>3, <1>4 DEF Control, Started, ByHand, Actors
<1>9. Stages' /\ Clocked'
  BY <1>1, <1>4 DEF Control, Stages, Clocked, Ended, Actors
<1> QED
  BY <1>1, <1>6, <1>7, <1>8, <1>9 DEF Control

\* The end of a tick
LEMMA EndTickControl ==
  ASSUME Control, EndTick
  PROVE  Control'
<1>1. /\ tick = "done" /\ tick' = "idle" /\ timer' \in BOOLEAN
      /\ UNCHANGED <<now, mem, loaded, queue, attached, boot, skip, deferred, exec, manual,
                     request, todo, events, released>>
  BY DEF EndTick, Armed, store, booting, asked
<1>2. loaded
  BY <1>1 DEF Control, Started
<1>3. ControlTypes'
  BY <1>1 DEF Control, ControlTypes
<1>4. Queued'
  BY <1>1 DEF Control, Queued, Awaited, Waiting
<1>5. Started' /\ Stages' /\ ByHand' /\ Clocked'
  BY <1>1, <1>2 DEF Control, Started, Stages, ByHand, Clocked, Ended
<1> QED
  BY <1>1, <1>3, <1>4, <1>5 DEF Control

\* The first section of start
LEMMA ClearControl ==
  ASSUME Control, ClearMarkers
  PROVE  Control'
<1>1. /\ Runs("clear") /\ Then(<<"plan">>) /\ boot' = "plan" /\ loaded' = TRUE
      /\ UNCHANGED <<now, timer, tick, attached, deferred, exec, manual, request, todo, events,
                     released>>
      /\ skip' \subseteq Jobs
  BY DEF ClearMarkers, ticking, asked, SavedIf, Saved, InMemory
<1>2. "clear" \in Waiting
  BY <1>1, Running DEF Control, ControlTypes, Queued
<1>3. boot = "clear" /\ "plan" \notin Waiting /\ "plan" \in Sections
  BY <1>2 DEF Control, Queued, Awaited, Sections
<1>4. /\ queue' \in Seq(Sections) /\ Waiting' = (Waiting \ {"clear"}) \cup {"plan"}
      /\ \A i, k \in DOMAIN queue' : queue'[i] = queue'[k] => i = k
  BY <1>1, <1>3, RunThen DEF Control, ControlTypes, Queued
<1>5. ControlTypes'
  BY <1>1, <1>4 DEF Control, ControlTypes
<1>6. Queued'
  BY <1>1, <1>3, <1>4 DEF Control, Queued, Awaited
<1>7. Started' /\ Stages' /\ ByHand' /\ Clocked'
  BY <1>1, <1>3 DEF Control, Started, Stages, ByHand, Clocked, Ended
<1> QED
  BY <1>1, <1>5, <1>6, <1>7 DEF Control

\* The second section of start: nothing is missed, or a batch is claimed.
LEMMA PlanControl ==
  ASSUME Control, Plan
  PROVE  Control'
<1>1. /\ Runs("plan") /\ loaded' = TRUE
      /\ UNCHANGED <<now, timer, tick, attached, skip, manual, request, todo, events, released>>
  BY DEF Plan, ticking, asked, Saved, InMemory
<1>2. "plan" \in Waiting
  BY <1>1, Running DEF Control, ControlTypes, Queued
<1>3. boot = "plan" /\ loaded
  BY <1>2 DEF Control, Queued, Awaited, Started
<1>4. \A j \in Jobs : exec["boot"][j] = None
  BY <1>3 DEF Control, Stages
<1>5. \/ /\ exec' = exec /\ deferred' = deferred /\ boot' = "arm" /\ Then(<<"arm">>)
      \/ \E first \in SUBSET Jobs :
           /\ exec' = [exec EXCEPT !["boot"] = Claimed(first)] /\ deferred' \in Seq(Jobs)
           /\ \/ first = {} /\ boot' = "settle" /\ Then(<<"settle">>)
              \/ boot' = "run" /\ Then(<<>>)
  <2>1. PICK missed \in SUBSET Jobs : missed = {j \in Jobs : Missed(Loaded, j)}
    OBVIOUS
  <2>2. CASE missed = {}
    BY <2>1, <2>2 DEF Plan
  <2>3. CASE missed # {}
    <3>1. PICK order \in [1..Cardinality(missed) -> missed] :
            LET first == {order[i] : i \in {k \in DOMAIN order : k <= MaxImmediate}} IN
            /\ exec' = [exec EXCEPT !["boot"] = Claimed(first)]
            /\ deferred' = SubSeq(order, MaxImmediate + 1, Cardinality(missed))
            /\ IF first = {} THEN boot' = "settle" /\ Then(<<"settle">>)
               ELSE boot' = "run" /\ Then(<<>>)
      BY <2>1, <2>3 DEF Plan
    <3>2. Cardinality(missed) \in Nat
      BY ConstantsAssumption, FS_Subset, FS_CardinalityType
    <3>3. deferred' \in Seq(Jobs)
      <4>0. MaxImmediate \in Nat
        BY ConstantsAssumption
      <4>1. order \in [1..Cardinality(missed) -> Jobs]
        OBVIOUS
      <4>2. order \in Seq(Jobs) /\ Len(order) = Cardinality(missed)
        BY <3>2, <4>1, SeqDef, LenProperties
      <4>3. \A i \in MaxImmediate + 1 .. Cardinality(missed) : order[i] \in Jobs
        BY <3>2, <4>0, <4>1
      <4>4. SubSeq(order, MaxImmediate + 1, Cardinality(missed)) \in Seq(Jobs)
        BY <3>2, <4>0, <4>2, <4>3, SubSeqProperties
      <4> QED
        BY <3>1, <4>4
    <3>4. PICK first \in SUBSET Jobs :
            first = {order[i] : i \in {k \in DOMAIN order : k <= MaxImmediate}}
      OBVIOUS
    <3> QED
      BY <3>1, <3>3, <3>4
  <2> QED
    BY <2>2, <2>3
<1>6. /\ exec' \in [Actors -> [Jobs -> Executions \cup {None}]]
      /\ \A b \in Actors \ {"boot"} : exec'[b] = exec[b]
      /\ \A j \in Jobs : exec'["boot"][j] # None =>
           /\ boot' = "run" /\ exec'["boot"][j].state = "waiting"
           /\ exec'["boot"][j].from = now
      /\ deferred' \in Seq(Jobs)
      /\ \/ boot' = "arm" /\ Then(<<"arm">>)
         \/ boot' = "settle" /\ Then(<<"settle">>)
         \/ boot' = "run" /\ Then(<<>>)
  <2>1. CASE exec' = exec /\ deferred' = deferred /\ boot' = "arm" /\ Then(<<"arm">>)
    BY <1>4, <2>1 DEF Control, ControlTypes
  <2>2. CASE \E first \in SUBSET Jobs :
           /\ exec' = [exec EXCEPT !["boot"] = Claimed(first)] /\ deferred' \in Seq(Jobs)
           /\ \/ first = {} /\ boot' = "settle" /\ Then(<<"settle">>)
              \/ boot' = "run" /\ Then(<<>>)
    <3>1. PICK first \in SUBSET Jobs :
           /\ exec' = [exec EXCEPT !["boot"] = Claimed(first)] /\ deferred' \in Seq(Jobs)
           /\ \/ first = {} /\ boot' = "settle" /\ Then(<<"settle">>)
              \/ boot' = "run" /\ Then(<<>>)
      BY <2>2
    <3>2. /\ exec' \in [Actors -> [Jobs -> Executions \cup {None}]]
          /\ \A b \in Actors \ {"boot"} : exec'[b] = exec[b]
          /\ \A j \in first : exec'["boot"][j] = [state |-> "waiting", from |-> now, to |-> None]
          /\ \A j \in Jobs \ first : exec'["boot"][j] = None
      <4>1. "boot" \in Actors /\ first \subseteq Jobs
        BY DEF Actors
      <4>2. now \in Nat /\ exec \in [Actors -> [Jobs -> Executions \cup {None}]]
        BY DEF Control, ControlTypes
      <4> QED
        BY <3>1, <4>1, <4>2, Claiming
    <3>3. \A j \in Jobs : exec'["boot"][j] # None =>
            /\ boot' = "run" /\ exec'["boot"][j].state = "waiting"
            /\ exec'["boot"][j].from = now
      BY <3>1, <3>2
    <3> QED
      BY <3>1, <3>2, <3>3
  <2> QED
    BY <1>5, <2>1, <2>2
<1>7. /\ queue' \in Seq(Sections)
      /\ \A i, k \in DOMAIN queue' : queue'[i] = queue'[k] => i = k
      /\ \A s \in Waiting' : (s \in Waiting /\ s # "plan") \/ (s = boot' /\ s \in {"arm", "settle"})
      /\ boot' \in {"arm", "settle", "run"}
  <2>1. "arm" \notin Waiting /\ "settle" \notin Waiting /\ {"arm", "settle"} \subseteq Sections
    BY <1>3 DEF Control, Queued, Awaited, Sections
  <2>2. queue \in Seq(Sections) /\ \A i, k \in DOMAIN queue : queue[i] = queue[k] => i = k
    BY DEF Control, ControlTypes, Queued
  <2>3. CASE boot' = "arm" /\ Then(<<"arm">>)
    BY <1>1, <2>1, <2>2, <2>3, RunThen
  <2>4. CASE boot' = "settle" /\ Then(<<"settle">>)
    BY <1>1, <2>1, <2>2, <2>4, RunThen
  <2>5. CASE boot' = "run" /\ Then(<<>>)
    BY <1>1, <2>2, <2>5, RunAlone
  <2> QED
    BY <1>6, <2>3, <2>4, <2>5
<1>8. ControlTypes'
  BY <1>1, <1>6, <1>7 DEF Control, ControlTypes
<1>9. Queued'
  <2>1. \A s \in Waiting' : Awaited(s)'
    BY <1>1, <1>3, <1>7 DEF Control, Queued, Awaited
  <2> QED
    BY <1>7, <2>1 DEF Queued
<1>10. Started' /\ ByHand'
  BY <1>1, <1>3, <1>6, <1>7 DEF Control, Started, ByHand, Actors
<1>11. Stages' /\ Clocked'
  BY <1>1, <1>6 DEF Control, ControlTypes, Stages, Clocked, Ended, Outcomes, Actors
<1> QED
  BY <1>1, <1>8, <1>9, <1>10, <1>11 DEF Control

\* The section that writes the outcomes of the catch-up
LEMMA SettleControl ==
  ASSUME Control, Settle
  PROVE  Control'
<1>1. /\ Runs("settle") /\ Then(<<"arm">>) /\ boot' = "arm" /\ loaded' = TRUE
      /\ exec' = [exec EXCEPT !["boot"] = Idle("boot")] /\ deferred' = <<>>
      /\ UNCHANGED <<now, timer, tick, attached, skip, manual, request, todo, events>>
  BY DEF Settle, ticking, asked, Saved, InMemory
<1>2. "settle" \in Waiting
  BY <1>1, Running DEF Control, ControlTypes, Queued
<1>3. boot = "settle" /\ loaded /\ "arm" \notin Waiting /\ "arm" \in Sections
  BY <1>2 DEF Control, Queued, Awaited, Started, Sections
<1>4. /\ queue' \in Seq(Sections) /\ Waiting' = (Waiting \ {"settle"}) \cup {"arm"}
      /\ \A i, k \in DOMAIN queue' : queue'[i] = queue'[k] => i = k
  BY <1>1, <1>3, RunThen DEF Control, ControlTypes, Queued
<1>5. /\ exec' \in [Actors -> [Jobs -> Executions \cup {None}]]
      /\ \A b \in Actors \ {"boot"} : exec'[b] = exec[b]
      /\ \A j \in Jobs : exec'["boot"][j] = None
  BY <1>1, Idling DEF Control, ControlTypes, Actors
<1>6. released' \subseteq Jobs
  BY DEF Settle, Forget, Loses, Control, ControlTypes
<1>7. ControlTypes'
  BY <1>1, <1>4, <1>5, <1>6 DEF Control, ControlTypes
<1>8. Queued'
  BY <1>1, <1>3, <1>4 DEF Control, Queued, Awaited
<1>9. Started' /\ ByHand'
  BY <1>1, <1>3, <1>5 DEF Control, Started, ByHand, Actors
<1>10. Stages' /\ Clocked'
  BY <1>1, <1>5 DEF Control, Stages, Clocked, Ended, Actors
<1> QED
  BY <1>1, <1>7, <1>8, <1>9, <1>10 DEF Control

\* The last section of start
LEMMA ArmControl ==
  ASSUME Control, Arm
  PROVE  Control'
<1>1. /\ Runs("arm") /\ Then(<<>>) /\ boot' = "up" /\ loaded' = TRUE /\ timer' \in BOOLEAN
      /\ UNCHANGED <<now, tick, attached, skip, deferred, exec, manual, request, todo, events>>
  BY DEF Arm, Armed, asked, SavedIf, Saved, InMemory
<1>2. /\ queue' \in Seq(Sections) /\ Waiting' = Waiting \ {"arm"} /\ "arm" \in Waiting
      /\ \A i, k \in DOMAIN queue' : queue'[i] = queue'[k] => i = k
  BY <1>1, RunAlone DEF Control, ControlTypes, Queued
<1>3. boot = "arm" /\ loaded
  BY <1>2 DEF Control, Queued, Awaited, Started
<1>4. released' \subseteq Jobs
  BY DEF Arm, Release, Loses, Control, ControlTypes
<1>5. ControlTypes'
  BY <1>1, <1>2, <1>4 DEF Control, ControlTypes
<1>6. Queued'
  BY <1>1, <1>2, <1>3 DEF Control, Queued, Awaited
<1>7. Started' /\ Stages' /\ ByHand' /\ Clocked'
  BY <1>1, <1>3 DEF Control, Started, Stages, ByHand, Clocked, Ended
<1> QED
  BY <1>1, <1>5, <1>6, <1>7 DEF Control

\* A run by hand is asked for.
LEMMA CallRunControl ==
  ASSUME Control, NEW j \in Jobs, NEW forced \in BOOLEAN, CallRun(j, forced)
  PROVE  Control'
<1>1. /\ manual.at = "idle" /\ queue' = Append(queue, "preflight") /\ Happens
      /\ manual' = [at |-> "preflight", job |-> j, forced |-> forced, since |-> None]
      /\ UNCHANGED <<now, mem, loaded, timer, tick, attached, boot, skip, deferred, exec,
                     request, todo, released>>
  BY DEF CallRun, store, ticking, booting
<1>2. "preflight" \notin Waiting /\ "preflight" \in Sections
  BY <1>1 DEF Control, Queued, Awaited, Sections
<1>3. /\ queue' \in Seq(Sections) /\ Waiting' = Waiting \cup {"preflight"} /\ queue' # <<>>
      /\ \A i, k \in DOMAIN queue' : queue'[i] = queue'[k] => i = k
      /\ queue # <<>> => Head(queue') = Head(queue)
  BY <1>1, <1>2, Appending DEF Control, ControlTypes, Queued
<1>4. /\ manual'.at = "preflight" /\ manual'.job = j
      /\ manual' \in [at : {"idle", "preflight", "reserve", "run", "finish"},
                      job : Jobs \cup {None}, forced : BOOLEAN, since : Times]
  BY <1>1 DEF Times
<1>5. ControlTypes'
  BY <1>1, <1>3, <1>4 DEF Control, ControlTypes, Happens
<1>6. Queued'
  BY <1>1, <1>3, <1>4 DEF Control, Queued, Awaited
<1>7. Started' /\ Clocked'
  BY <1>1, <1>3 DEF Control, Started, Clocked, Ended
<1>9. ByHand'
  BY <1>1, <1>4 DEF Control, Stages, ByHand
<1>8. Stages'
  BY <1>1, <1>4 DEF Control, Stages, Ended
<1> QED
  BY <1>1, <1>5, <1>6, <1>7, <1>8, <1>9 DEF Control

\* A section other than the clearing of markers runs when the store is loaded.
LEMMA RunsLoaded ==
  ASSUME Control, NEW section, section # "clear", Runs(section)
  PROVE  loaded
BY DEF Control, Started, Runs

\* Nobody is a state of the run by hand.
LEMMA NobodyManual ==
  /\ Nobody.at = "idle"
  /\ Nobody \in [at : {"idle", "preflight", "reserve", "run", "finish"},
                 job : Jobs \cup {None}, forced : BOOLEAN, since : Times]
BY DEF Nobody, Times

\* A run by hand looks at its job.
LEMMA PreflightControl ==
  ASSUME Control, Preflight
  PROVE  Control'
<1>1. /\ Runs("preflight") /\ loaded' = TRUE
      /\ \/ manual' = [manual EXCEPT !.at = "reserve", !.since = now] /\ Then(<<"reserve">>)
         \/ manual' = Nobody /\ Then(<<>>)
      /\ UNCHANGED <<now, timer, tick, attached, boot, skip, deferred, exec, request, todo, events>>
  BY DEF Preflight, ticking, booting, InMemory
<1>2. "preflight" \in Waiting
  BY <1>1, Running DEF Control, ControlTypes, Queued
<1>3. manual.at = "preflight" /\ loaded /\ "reserve" \notin Waiting /\ "reserve" \in Sections
  BY <1>1, <1>2, RunsLoaded DEF Control, Queued, Awaited, Sections
<1>4. /\ queue' \in Seq(Sections)
      /\ \A i, k \in DOMAIN queue' : queue'[i] = queue'[k] => i = k
      /\ \A s \in Waiting' : \/ s \in Waiting /\ s # "preflight"
                             \/ s = "reserve" /\ manual'.at = "reserve"
      /\ manual' \in [at : {"idle", "preflight", "reserve", "run", "finish"},
                      job : Jobs \cup {None}, forced : BOOLEAN, since : Times]
      /\ \/ manual'.at = "idle"
         \/ manual'.at = "reserve" /\ manual'.job \in Jobs /\ manual'.since = now
  <2>1. queue \in Seq(Sections) /\ \A i, k \in DOMAIN queue : queue[i] = queue[k] => i = k
    BY DEF Control, ControlTypes, Queued
  <2>2. CASE manual' = [manual EXCEPT !.at = "reserve", !.since = now] /\ Then(<<"reserve">>)
    <3>1. /\ manual' \in [at : {"idle", "preflight", "reserve", "run", "finish"},
                          job : Jobs \cup {None}, forced : BOOLEAN, since : Times]
          /\ manual'.at = "reserve" /\ manual'.job = manual.job /\ manual'.since = now
          /\ manual.job \in Jobs
      BY <1>3, <2>2 DEF Control, ControlTypes, ByHand, Times
    <3>2. /\ queue' \in Seq(Sections) /\ Waiting' = (Waiting \ {"preflight"}) \cup {"reserve"}
          /\ \A i, k \in DOMAIN queue' : queue'[i] = queue'[k] => i = k
      BY <1>1, <1>3, <2>1, <2>2, RunThen
    <3> QED
      BY <3>1, <3>2
  <2>3. CASE manual' = Nobody /\ Then(<<>>)
    BY <1>1, <2>1, <2>3, RunAlone, NobodyManual
  <2> QED
    BY <1>1, <2>2, <2>3
<1>5. released' \subseteq Jobs
  BY DEF Preflight, Release, Loses, Control, ControlTypes
<1>6. ControlTypes'
  BY <1>1, <1>4, <1>5 DEF Control, ControlTypes
<1>7. Queued'
  <2>1. \A s \in Waiting' : Awaited(s)'
    BY <1>1, <1>3, <1>4 DEF Control, Queued, Awaited
  <2> QED
    BY <1>4, <2>1 DEF Queued
<1>8. Started' /\ ByHand' /\ Clocked'
  <2>1. Started' /\ Clocked'
    BY <1>1, <1>3 DEF Control, Started, Clocked, Ended
  <2>2. ByHand'
    BY <1>1, <1>3, <1>4 DEF Control, ControlTypes, Stages, ByHand
  <2> QED
    BY <2>1, <2>2
<1>9. Stages'
  BY <1>1, <1>3, <1>4 DEF Control, Stages, Ended
<1> QED
  BY <1>1, <1>6, <1>7, <1>8, <1>9 DEF Control

\* A run by hand marks its job and executes it.
LEMMA ReserveControl ==
  ASSUME Control, Reserve
  PROVE  Control'
<1>1. /\ Runs("reserve") /\ Then(<<>>) /\ loaded
      /\ UNCHANGED <<now, timer, tick, attached, boot, skip, deferred, request, todo, events,
                     released>>
  BY RunsLoaded DEF Reserve, ticking, booting
<1>2. /\ queue' \in Seq(Sections) /\ Waiting' = Waiting \ {"reserve"} /\ "reserve" \in Waiting
      /\ \A i, k \in DOMAIN queue' : queue'[i] = queue'[k] => i = k
  BY <1>1, RunAlone DEF Control, ControlTypes, Queued
<1>3. manual.at = "reserve" /\ manual.job \in Jobs /\ manual.since \in Nat /\ manual.since <= now
  BY <1>2 DEF Control, Queued, Awaited, ByHand
<1>4. \A j \in Jobs : exec["manual"][j] = None
  BY <1>3 DEF Control, Stages
<1>5. CASE manual' = Nobody /\ UNCHANGED <<store, exec>>
  <2>1. manual'.at = "idle" /\ UNCHANGED <<exec, mem, loaded>>
    BY <1>5, NobodyManual DEF store
  <2>2. ControlTypes'
    BY <1>1, <1>2, <1>5, <2>1, NobodyManual DEF Control, ControlTypes
  <2>3. Queued'
    BY <1>1, <1>2, <1>3, <2>1 DEF Control, Queued, Awaited
  <2>4. Started' /\ ByHand' /\ Stages' /\ Clocked'
    BY <1>1, <1>4, <2>1 DEF Control, Started, ByHand, Stages, Clocked, Ended
  <2> QED
    BY <1>1, <2>2, <2>3, <2>4 DEF Control
<1>6. CASE /\ loaded' = TRUE /\ manual' = [manual EXCEPT !.at = "run"]
           /\ exec' = [exec EXCEPT !["manual"][manual.job] =
                         [state |-> "running", from |-> manual.since, to |-> None]]
  <2>1. PICK new \in Executions : new = [state |-> "running", from |-> manual.since, to |-> None]
    BY <1>3 DEF Executions, Times
  <2>2. "manual" \in Actors /\ exec' = [exec EXCEPT !["manual"][manual.job] = new]
    BY <1>6, <2>1 DEF Actors
  <2>3. /\ exec' \in [Actors -> [Jobs -> Executions \cup {None}]]
        /\ exec'["manual"][manual.job] = new /\ new # None
        /\ \A b \in Actors, k \in Jobs : b # "manual" \/ k # manual.job => exec'[b][k] = exec[b][k]
    <3>1. PICK j \in Jobs : j = manual.job
      BY <1>3
    <3>2. exec' = [exec EXCEPT !["manual"][j] = new]
      BY <2>2, <3>1
    <3>3. /\ exec' \in [Actors -> [Jobs -> Executions \cup {None}]]
          /\ exec'["manual"][j] = new
          /\ \A b \in Actors, k \in Jobs : b # "manual" \/ k # j => exec'[b][k] = exec[b][k]
      BY <2>1, <2>2, <3>1, <3>2, Putting DEF Control, ControlTypes
    <3> QED
      BY <3>1, <3>3, NoneAssumption
  <2>4. /\ manual' \in [at : {"idle", "preflight", "reserve", "run", "finish"},
                        job : Jobs \cup {None}, forced : BOOLEAN, since : Times]
        /\ manual'.at = "run" /\ manual'.job = manual.job
    BY <1>6 DEF Control, ControlTypes
  <2>5. ControlTypes'
    BY <1>1, <1>2, <1>6, <2>3, <2>4 DEF Control, ControlTypes
  <2>6. Queued'
    BY <1>1, <1>2, <1>3, <2>4 DEF Control, Queued, Awaited
  <2>7. Started' /\ ByHand'
    BY <1>1, <1>3, <1>4, <1>6, <2>2, <2>3, <2>4 DEF Control, Started, ByHand
  <2>8. Stages'
    BY <1>1, <1>4, <2>1, <2>3, <2>4 DEF Control, Stages, Ended, Actors, Outcomes
  <2>9. Clocked'
    BY <1>1, <1>3, <2>1, <2>3 DEF Control, Clocked, Ended, Actors, Outcomes
  <2> QED
    BY <1>1, <2>5, <2>6, <2>7, <2>8, <2>9 DEF Control
<1> QED
  BY <1>5, <1>6 DEF Reserve, Saved, InMemory

\* The outcome of a run by hand is written.
LEMMA FinishControl ==
  ASSUME Control, Finish
  PROVE  Control'
<1>1. /\ Runs("finish") /\ Then(<<>>) /\ loaded' = TRUE /\ manual' = Nobody
      /\ exec' = [exec EXCEPT !["manual"] = Idle("manual")]
      /\ timer' \in BOOLEAN /\ attached' \in BOOLEAN
      /\ UNCHANGED <<now, tick, boot, skip, deferred, request, todo, events>>
  BY DEF Finish, Control, ControlTypes, booting, Saved, InMemory, Armed
<1>2. /\ queue' \in Seq(Sections) /\ Waiting' = Waiting \ {"finish"} /\ "finish" \in Waiting
      /\ \A i, k \in DOMAIN queue' : queue'[i] = queue'[k] => i = k
  BY <1>1, RunAlone DEF Control, ControlTypes, Queued
<1>3. manual.at = "finish" /\ loaded
  BY <1>1, <1>2, RunsLoaded DEF Control, Queued, Awaited
<1>4. /\ exec' \in [Actors -> [Jobs -> Executions \cup {None}]]
      /\ \A b \in Actors \ {"manual"} : exec'[b] = exec[b]
      /\ \A j \in Jobs : exec'["manual"][j] = None
  BY <1>1, Idling DEF Control, ControlTypes, Actors
<1>5. released' \subseteq Jobs
  BY DEF Finish, Forget, Loses, Control, ControlTypes
<1>6. manual'.at = "idle"
  BY <1>1, NobodyManual
<1>7. ControlTypes'
  BY <1>1, <1>2, <1>4, <1>5, NobodyManual DEF Control, ControlTypes
<1>8. Queued'
  BY <1>1, <1>2, <1>3 DEF Control, Queued, Awaited
<1>9. Started' /\ ByHand'
  BY <1>1, <1>3, <1>4, <1>6 DEF Control, Started, ByHand
<1>10. Stages' /\ Clocked'
  BY <1>1, <1>4 DEF Control, Stages, Clocked, Ended, Actors
<1> QED
  BY <1>1, <1>7, <1>8, <1>9, <1>10 DEF Control

\* A request is made.
LEMMA AskControl ==
  ASSUME Control, NEW q \in Requests, Ask(q)
  PROVE  Control'
<1>1. /\ request = None /\ q \in todo /\ request' = q /\ todo' = todo \ {q} /\ Happens
      /\ queue' = Append(queue, "request")
      /\ UNCHANGED <<now, mem, loaded, timer, tick, attached, boot, skip, deferred, exec,
                     manual, released>>
  BY DEF Ask, store, ticking, booting
<1>2. "request" \notin Waiting /\ "request" \in Sections
  BY <1>1 DEF Control, Queued, Awaited, Sections
<1>3. /\ queue' \in Seq(Sections) /\ Waiting' = Waiting \cup {"request"} /\ queue' # <<>>
      /\ \A i, k \in DOMAIN queue' : queue'[i] = queue'[k] => i = k
      /\ queue # <<>> => Head(queue') = Head(queue)
  BY <1>1, <1>2, Appending DEF Control, ControlTypes, Queued
<1>4. request' # None /\ request' \notin todo'
  BY <1>1, ConstantsAssumption
<1>5. ControlTypes'
  BY <1>1, <1>3 DEF Control, ControlTypes, Happens
<1>6. Queued'
  BY <1>1, <1>3, <1>4 DEF Control, Queued, Awaited
<1>7. Started' /\ ByHand' /\ Stages' /\ Clocked'
  BY <1>1, <1>3 DEF Control, Started, ByHand, Stages, Clocked, Ended
<1> QED
  BY <1>1, <1>4, <1>5, <1>6, <1>7 DEF Control

\* A request is served.
LEMMA ServeControl ==
  ASSUME Control, Serve
  PROVE  Control'
<1>1. /\ Runs("request") /\ Then(<<>>) /\ loaded' = TRUE /\ request' = None
      /\ timer' \in BOOLEAN
      /\ UNCHANGED <<now, tick, attached, boot, skip, deferred, exec, manual, todo, events>>
  BY DEF Serve, Add, Update, Remove, List, Control, ControlTypes, booting, Saved, SavedIf, InMemory, Armed
<1>2. /\ queue' \in Seq(Sections) /\ Waiting' = Waiting \ {"request"} /\ "request" \in Waiting
      /\ \A i, k \in DOMAIN queue' : queue'[i] = queue'[k] => i = k
  BY <1>1, RunAlone DEF Control, ControlTypes, Queued
<1>3. loaded
  BY <1>1, RunsLoaded
<1>4. request \in Requests
  BY <1>2 DEF Control, ControlTypes, Queued, Awaited
<1>5. released' \subseteq Jobs
  <2>1. request.job \in Jobs /\ released \subseteq Jobs
    BY <1>4, ConstantsAssumption DEF Control, ControlTypes
  <2>2. ASSUME NEW js, js \subseteq Jobs, Release(js)
        PROVE  released' \subseteq Jobs
    BY <2>1, <2>2 DEF Release
  <2>3. \A s : Loses(s) \subseteq Jobs
    BY DEF Loses
  <2>4. CASE Add(request.job)
    BY <2>2, <2>3, <2>4 DEF Add
  <2>5. CASE Update(request.job, TRUE) \/ Update(request.job, FALSE)
    BY <2>1, <2>2, <2>5 DEF Update
  <2>6. CASE Remove(request.job)
    BY <2>1, <2>6 DEF Remove
  <2>7. CASE List
    BY <2>2, <2>3, <2>7 DEF List
  <2> QED
    BY <2>4, <2>5, <2>6, <2>7 DEF Serve
<1>6. ControlTypes' /\ request' \notin todo'
  BY <1>1, <1>2, <1>5, ConstantsAssumption DEF Control, ControlTypes
<1>7. Queued'
  BY <1>1, <1>2 DEF Control, Queued, Awaited
<1>8. Started' /\ ByHand' /\ Stages' /\ Clocked'
  BY <1>1, <1>3 DEF Control, Started, ByHand, Stages, Clocked, Ended
<1> QED
  BY <1>6, <1>7, <1>8 DEF Control

\* The clock advances.
LEMMA ClockControl ==
  ASSUME Control, AdvanceClock
  PROVE  Control'
<1>1. /\ now' = now + 1 /\ now \in Nat
      /\ UNCHANGED <<mem, loaded, queue, timer, tick, attached, boot, skip, deferred, exec, manual,
                     request, todo, events, released>>
  BY DEF AdvanceClock, store, ticking, booting, asked, Control, ControlTypes
<1>2. ControlTypes' /\ request' \notin todo'
  BY <1>1 DEF Control, ControlTypes
<1>3. Queued' /\ Started' /\ Stages'
  BY <1>1 DEF Control, Queued, Awaited, Waiting, Started, Stages, Ended
<1>4. ByHand'
  BY <1>1 DEF Control, ByHand
<1>5. Clocked'
  BY <1>1 DEF Control, ControlTypes, Clocked, Ended, Executions
<1> QED
  BY <1>2, <1>3, <1>4, <1>5 DEF Control

\* The chain of a process that starts
LEMMA OnlyClear ==
  ASSUME NEW q, q = <<"clear">>
  PROVE  /\ q \in Seq(Sections) /\ q # <<>> /\ Head(q) = "clear"
         /\ {q[i] : i \in DOMAIN q} = {"clear"}
         /\ \A i, k \in DOMAIN q : q[i] = q[k] => i = k
<1>1. "clear" \in Sections
  BY DEF Sections
<1>2. q \in Seq(Sections) /\ DOMAIN q = {1} /\ q[1] = "clear"
  BY <1>1
<1> QED
  BY <1>2

\* The process starts.
LEMMA InitControl ==
  ASSUME Init
  PROVE  Control
<1>1. /\ now = 1 /\ queue = <<"clear">> /\ boot = "clear" /\ skip = {} /\ deferred = <<>>
      /\ mem = [j \in Jobs |-> None] /\ loaded = FALSE
      /\ timer = FALSE /\ tick = "idle" /\ attached = FALSE
      /\ exec = [a \in Actors |-> [j \in Jobs |-> None]]
      /\ manual = Nobody /\ request = None /\ todo = Requests /\ events = 0 /\ released = {}
  BY DEF Init, Idle
<1>2. /\ queue \in Seq(Sections) /\ queue # <<>> /\ Head(queue) = "clear"
      /\ Waiting = {"clear"} /\ \A i, k \in DOMAIN queue : queue[i] = queue[k] => i = k
  BY <1>1, OnlyClear DEF Waiting
<1>3. \A a \in Actors, j \in Jobs : exec[a][j] = None
  BY <1>1
<1>4. ControlTypes /\ request \notin todo
  <2>1. /\ now \in Nat /\ events \in Nat /\ deferred \in Seq(Jobs)
        /\ exec \in [Actors -> [Jobs -> Executions \cup {None}]]
    BY <1>1
  <2> QED
    BY <1>1, <1>2, <2>1, NobodyManual, ConstantsAssumption DEF ControlTypes
<1>5. Queued /\ Started /\ ByHand
  BY <1>1, <1>2, <1>3, NobodyManual DEF Queued, Awaited, Started, ByHand, Actors
<1>6. Stages /\ Clocked
  BY <1>3 DEF Stages, Clocked, Actors
<1> QED
  BY <1>4, <1>5, <1>6 DEF Control

\* The process dies and is started anew.
LEMMA CrashControl ==
  ASSUME Control, Crash
  PROVE  Control'
<1>1. /\ mem' = [j \in Jobs |-> None] /\ loaded' = FALSE
      /\ queue' = <<"clear">> /\ boot' = "clear" /\ skip' = {} /\ deferred' = <<>>
      /\ timer' = FALSE /\ tick' = "idle" /\ attached' = FALSE
      /\ exec' = [a \in Actors |-> [j \in Jobs |-> None]]
      /\ manual' = Nobody /\ request' = None /\ released' = {} /\ Happens
      /\ UNCHANGED <<now, todo>>
  BY DEF Crash, Idle
<1>2. /\ queue' \in Seq(Sections) /\ queue' # <<>> /\ Head(queue') = "clear"
      /\ Waiting' = {"clear"} /\ \A i, k \in DOMAIN queue' : queue'[i] = queue'[k] => i = k
  BY <1>1, OnlyClear DEF Waiting
<1>3. \A a \in Actors, j \in Jobs : exec'[a][j] = None
  BY <1>1
<1>4. ControlTypes' /\ request' \notin todo'
  <2>1. /\ now' \in Nat /\ events' \in Nat /\ deferred' \in Seq(Jobs)
        /\ exec' \in [Actors -> [Jobs -> Executions \cup {None}]]
        /\ todo' \subseteq Requests
    BY <1>1 DEF Control, ControlTypes, Happens
  <2> QED
    BY <1>1, <1>2, <2>1, NobodyManual, ConstantsAssumption DEF ControlTypes
<1>5. Queued' /\ Started' /\ ByHand'
  BY <1>1, <1>2, <1>3, NobodyManual DEF Queued, Awaited, Started, ByHand, Actors
<1>6. Stages' /\ Clocked'
  BY <1>3 DEF Stages, Clocked, Actors
<1> QED
  BY <1>4, <1>5, <1>6 DEF Control

\* A step that changes nothing
LEMMA StutterControl ==
  ASSUME Control, UNCHANGED vars
  PROVE  Control'
BY DEF Control, ControlTypes, Queued, Awaited, Waiting, Started, Stages, ByHand, Clocked, Ended,
       vars, store, ticking, booting, asked

\* A write-back is no business of the service.
LEMMA WriteBackControl ==
  ASSUME Control, WriteBackReads \/ WriteBackSaves
  PROVE  Control'
<1>1. /\ UNCHANGED <<now, mem, loaded, queue, timer, tick, attached, boot, skip, deferred, exec,
                     manual, request, todo>>
      /\ events' \in Nat
  BY DEF WriteBackReads, WriteBackSaves, Happens, store, ticking, booting, asked, Control, ControlTypes
<1>2. released' \subseteq Jobs
  BY DEF WriteBackReads, WriteBackSaves, Release, Control, ControlTypes
<1>3. ControlTypes'
  BY <1>1, <1>2 DEF Control, ControlTypes
<1>4. Queued' /\ Started' /\ Stages' /\ ByHand' /\ Clocked'
  BY <1>1 DEF Control, Queued, Waiting, Awaited, Started, Stages, ByHand, Clocked, Ended
<1> QED
  BY <1>1, <1>3, <1>4 DEF Control

\* Who executes jobs and who waits for which section agree in every state.
LEMMA NextControl ==
  ASSUME Control, [Next]_vars
  PROVE  Control'
<1>1. CASE Section
  BY <1>1, ClaimControl, ApplyControl, ClearControl, PlanControl, SettleControl, ArmControl,
     PreflightControl, ReserveControl, FinishControl, ServeControl DEF Section
<1>2. CASE \E j \in Jobs : StartDueJob(j) \/ StartMissedJob(j)
  <2>1. PICK j \in Jobs : StartDueJob(j) \/ StartMissedJob(j)
    BY <1>2
  <2>2. CASE StartDueJob(j)
    BY <2>2, StartControl DEF StartDueJob, ticking, booting, asked
  <2>3. CASE StartMissedJob(j)
    BY <2>3, StartControl DEF StartMissedJob, store, ticking, booting, asked
  <2> QED
    BY <2>1, <2>2, <2>3
<1>3. CASE \E a \in Actors, j \in Jobs, outcome \in Ends : EndJob(a, j, outcome)
  BY <1>3, EndJobControl
<1>4. CASE \E j \in Jobs, forced \in BOOLEAN : CallRun(j, forced)
  BY <1>4, CallRunControl
<1>5. CASE \E q \in Requests : Ask(q)
  BY <1>5, AskControl
<1>6. CASE TimerFires \/ EndTick \/ AdvanceClock \/ Crash \/ UNCHANGED vars
  BY <1>6, TimerFiresControl, EndTickControl, ClockControl, CrashControl, StutterControl
<1>7. CASE WriteBackReads \/ WriteBackSaves
  BY <1>7, WriteBackControl
<1> QED
  BY <1>1, <1>2, <1>3, <1>4, <1>5, <1>6, <1>7 DEF Next

-----------------------------------------------------------------------------
(* What the operators on records do *)

\* A one-shot that succeeded at its time
Finished(j, r) == OneShot(j) /\ r.status = "ok" /\ r.last # None /\ At[j] <= r.last

\* A whole number of periods covers what has passed since the creation.
LEMMA Covering ==
  ASSUME NEW n \in Int, NEW d \in Nat \ {0}
  PROVE  /\ (n + d - 1) \div d \in Int
         /\ d * ((n + d - 1) \div d) >= n
OBVIOUS

\* The next time of a recurring job is after its last start and not in the past.
LEMMA EveryNextFacts ==
  ASSUME NEW j \in Jobs, ~OneShot(j), NEW r \in Records, NEW t \in Nat
  PROVE  /\ EveryNext(j, r, t) \in Nat
         /\ EveryNext(j, r, t) >= t
         /\ r.last # None /\ r.last <= t => EveryNext(j, r, t) > r.last
<1>1. Every[j] \in Nat \ {0} /\ r.anchor \in Nat /\ r.last \in Times /\ None \notin Nat
  BY ConstantsAssumption DEF OneShot, Records
<1>2. CASE r.last # None /\ r.last + Every[j] > t
  BY <1>1, <1>2 DEF EveryNext, Times
<1>3. CASE ~(r.last # None /\ r.last + Every[j] > t)
  <2>1. PICK k \in Int : k = (t - r.anchor + Every[j] - 1) \div Every[j]
    BY <1>1, Covering
  <2>2. Every[j] * k >= t - r.anchor
    <3>1. PICK n \in Int, d \in Nat \ {0} : n = t - r.anchor /\ d = Every[j]
      BY <1>1
    <3> QED
      BY <2>1, <3>1, Covering
  <2>3. PICK m \in Nat : m = Later(1, k) /\ m >= 1 /\ m >= k
    BY DEF Later
  <2>4. EveryNext(j, r, t) = r.anchor + Every[j] * m
    BY <1>3, <2>1, <2>3 DEF EveryNext
  <2>5. Every[j] * m \in Nat /\ Every[j] * m >= Every[j] * k
    BY <1>1, <2>3
  <2>6. EveryNext(j, r, t) \in Nat /\ EveryNext(j, r, t) >= t
    BY <1>1, <2>2, <2>4, <2>5
  <2> QED
    BY <1>1, <1>3, <2>6 DEF Times
<1> QED
  BY <1>2, <1>3

\* computeJobNextRunAtMs
LEMMA ComputeNextFacts ==
  ASSUME NEW j \in Jobs, NEW r \in Records, NEW t \in Nat
  PROVE  /\ ComputeNext(j, r, t) \in Times
         /\ ~r.on => ComputeNext(j, r, t) = None
         /\ r.on /\ OneShot(j) /\ Finished(j, r) => ComputeNext(j, r, t) = None
         /\ r.on /\ OneShot(j) /\ ~Finished(j, r) => ComputeNext(j, r, t) = At[j]
         /\ r.on /\ ~OneShot(j) => /\ ComputeNext(j, r, t) \in Nat
                                   /\ ComputeNext(j, r, t) # None
                                   /\ ComputeNext(j, r, t) >= t
         /\ r.on /\ ~OneShot(j) /\ r.last # None /\ r.last <= t => ComputeNext(j, r, t) > r.last
<1>1. r.on \in BOOLEAN /\ At[j] \in Nat /\ None \notin Nat
  BY ConstantsAssumption DEF Records
<1>2. CASE ~r.on
  BY <1>1, <1>2 DEF ComputeNext, Times
<1>3. CASE r.on /\ OneShot(j)
  BY <1>1, <1>3 DEF ComputeNext, Times, Finished
<1>4. CASE r.on /\ ~OneShot(j)
  BY <1>1, <1>4, EveryNextFacts DEF ComputeNext, Times
<1> QED
  BY <1>1, <1>2, <1>3, <1>4

\* What a record says about time; the next time of a recurring job is after its
\* last start, that of a one-shot that has run is its time, if it has not succeeded.
Sane(j, r) ==
  /\ r.status # None => r.last # None
  /\ r.last # None => r.last <= now
  /\ ~r.on => r.next = None
  /\ r.next # None /\ r.last # None /\ r.last >= r.next =>
       OneShot(j) /\ r.next = At[j] /\ ~Finished(j, r)

\* A record of which only the next time, and the marker, may have changed
Refreshed(r, q) ==
  /\ q \in Records
  /\ q.on = r.on /\ q.anchor = r.anchor /\ q.last = r.last
  /\ q.status = r.status /\ q.errors = r.errors

\* normalizeJobTickState
LEMMA NormalizedFacts ==
  ASSUME NEW r \in Records
  PROVE  /\ Refreshed(r, Normalized(r))
         /\ r.on => Normalized(r).next = r.next
         /\ ~r.on => Normalized(r).next = None
         /\ r.running = None => Normalized(r).running = None
         /\ Normalized(r).running \in {r.running, None}
<1>1. r.on \in BOOLEAN
  BY DEF Records
<1>2. CASE ~r.on
  <2>1. PICK q \in Records : q = [r EXCEPT !.next = None, !.running = None]
    BY DEF Records, Times
  <2>2. Normalized(r) = q
    BY <1>2, <2>1 DEF Normalized
  <2> QED
    BY <1>2, <2>1, <2>2 DEF Records, Refreshed
<1>3. CASE r.on /\ Stale(r)
  <2>1. PICK q \in Records : q = [r EXCEPT !.running = None]
    BY DEF Records, Times
  <2>2. Normalized(r) = q
    BY <1>3, <2>1 DEF Normalized
  <2> QED
    BY <1>3, <2>1, <2>2 DEF Records, Refreshed
<1>4. CASE r.on /\ ~Stale(r)
  BY <1>4 DEF Normalized, Refreshed
<1> QED
  BY <1>1, <1>2, <1>3, <1>4

\* recomputeJobNextRunAtMs
LEMMA RecomputedFacts ==
  ASSUME now \in Nat, NEW j \in Jobs, NEW r \in Records
  PROVE  /\ Refreshed(r, Recomputed(j, r)) /\ Recomputed(j, r).running = r.running
         /\ ~r.on => Recomputed(j, r).next = None
         /\ r.on /\ Finished(j, r) => Recomputed(j, r).next = None
         /\ r.on /\ OneShot(j) /\ ~Finished(j, r) => Recomputed(j, r).next = At[j]
         /\ r.on /\ ~OneShot(j) => Recomputed(j, r).next \in Nat
         /\ r.on /\ ~OneShot(j) /\ r.last # None /\ r.last <= now => Recomputed(j, r).next > r.last
<1> DEFINE next == ComputeNext(j, r, now)
<1> DEFINE late == ~OneShot(j) /\ r.status = "error" /\ r.last # None /\ next # None
<1>1. /\ next \in Times
      /\ ~r.on => next = None
      /\ r.on /\ OneShot(j) /\ Finished(j, r) => next = None
      /\ r.on /\ OneShot(j) /\ ~Finished(j, r) => next = At[j]
      /\ r.on /\ ~OneShot(j) => next \in Nat
      /\ r.on /\ ~OneShot(j) /\ r.last # None /\ r.last <= now => next > r.last
  BY ComputeNextFacts
<1>2. r.last \in Times /\ Backoff \in Nat \ {0} /\ None \notin Nat
  BY ConstantsAssumption DEF Records
<1>3. Recomputed(j, r) = [r EXCEPT !.next = IF late THEN Later(next, r.last + Backoff) ELSE next]
  BY DEF Recomputed
<1> HIDE DEF next
<1>4. PICK t \in Times : t = IF late THEN Later(next, r.last + Backoff) ELSE next
  BY <1>1, <1>2 DEF Times, Later
<1>5. PICK q \in Records : q = [r EXCEPT !.next = t]
  BY DEF Records
<1>6. /\ Recomputed(j, r) = q /\ q.next = t /\ q.running = r.running /\ Refreshed(r, q)
  BY <1>3, <1>4, <1>5 DEF Records, Refreshed
<1>7. /\ ~r.on => t = None
      /\ r.on /\ Finished(j, r) => t = None
      /\ r.on /\ OneShot(j) /\ ~Finished(j, r) => t = At[j]
  BY <1>1, <1>4 DEF Finished
<1>8. /\ r.on /\ ~OneShot(j) => t \in Nat
      /\ r.on /\ ~OneShot(j) /\ r.last # None /\ r.last <= now => t > r.last
  BY <1>1, <1>2, <1>4 DEF Times, Later
<1> QED
  BY <1>6, <1>7, <1>8

\* A record whose next time recomputeNextRunsForMaintenance, with
\* recomputeExpired, would make sane
Repairable(j, r, expired) ==
  /\ r.status # None => r.last # None
  /\ r.last # None => r.last <= now
  /\ r.on /\ r.next # None /\ r.last # None /\ r.last >= r.next =>
       \/ OneShot(j) /\ r.next = At[j] /\ ~Finished(j, r)
       \/ expired /\ r.running = None

\* A sane job is one that a repair at startup may be given.
LEMMA SaneRepairable ==
  ASSUME NEW j \in Jobs, NEW r \in Records, NEW expired \in BOOLEAN, Sane(j, r)
  PROVE  Repairable(j, r, expired)
BY DEF Sane, Repairable

\* What is recomputed is sane.
LEMMA RecomputedSane ==
  ASSUME now \in Nat, NEW j \in Jobs, NEW r \in Records,
         r.status # None => r.last # None, r.last # None => r.last <= now
  PROVE  Sane(j, Recomputed(j, r))
<1> DEFINE q == Recomputed(j, r)
<1>1. /\ Refreshed(r, q)
      /\ ~r.on => q.next = None
      /\ r.on /\ Finished(j, r) => q.next = None
      /\ r.on /\ OneShot(j) /\ ~Finished(j, r) => q.next = At[j]
      /\ r.on /\ ~OneShot(j) => q.next \in Nat
      /\ r.on /\ ~OneShot(j) /\ r.last # None /\ r.last <= now => q.next > r.last
  BY RecomputedFacts
<1>2. r.last \in Times /\ None \notin Nat /\ now \in Nat
  BY ConstantsAssumption DEF Records
<1> HIDE DEF q
<1>3. Finished(j, q) <=> Finished(j, r)
  BY <1>1 DEF Finished, Refreshed
<1>4. r.last # None /\ q.next # None /\ ~OneShot(j) => ~(r.last >= q.next)
  BY <1>1, <1>2 DEF Times
<1>5. q.on = r.on /\ q.last = r.last /\ q.status = r.status
  BY <1>1 DEF Refreshed
<1>6. q.next # None /\ q.last # None /\ q.last >= q.next =>
        OneShot(j) /\ q.next = At[j] /\ ~Finished(j, q)
  BY <1>1, <1>3, <1>4, <1>5
<1>7. /\ q.status # None => q.last # None
      /\ q.last # None => q.last <= now
      /\ ~q.on => q.next = None
  BY <1>1, <1>5
<1> QED
  BY <1>6, <1>7 DEF Sane, q

\* recomputeNextRunsForMaintenance makes every record sane, leaves the time of a
\* job that is due, and schedules no one-shot that has succeeded.
LEMMA MaintainedFacts ==
  ASSUME now \in Nat, NEW j \in Jobs, NEW r \in Records, NEW expired \in BOOLEAN,
         Repairable(j, r, expired)
  PROVE  /\ Refreshed(r, Maintained(j, r, expired))
         /\ Maintained(j, r, expired).running = Normalized(r).running
         /\ Sane(j, Maintained(j, r, expired))
         /\ r.on /\ r.next # None /\ ~expired => Maintained(j, r, expired).next = r.next
         /\ r.on /\ r.next # None /\ Sane(j, r) => Maintained(j, r, expired).next = r.next
         /\ ~r.on => Maintained(j, r, expired).next = None
         /\ r.next = None /\ Finished(j, r) => Maintained(j, r, expired).next = None
<1> DEFINE n == Normalized(r)
<1> DEFINE q == Maintained(j, r, expired)
<1> DEFINE redo == \/ n.on /\ n.next = None
                   \/ /\ expired /\ n.on /\ Past(n) /\ n.running = None
                      /\ n.last # None /\ n.last >= n.next
<1>1. /\ n \in Records /\ n.on = r.on /\ n.last = r.last /\ n.status = r.status
      /\ n.anchor = r.anchor /\ n.errors = r.errors
      /\ r.on => n.next = r.next
      /\ ~r.on => n.next = None
      /\ r.running = None => n.running = None
  BY NormalizedFacts DEF Refreshed
<1>2. /\ r.last \in Times /\ r.next \in Times /\ None \notin Nat /\ now \in Nat
      /\ r.on \in BOOLEAN
  BY ConstantsAssumption DEF Records
<1>3. /\ redo => q = Recomputed(j, n)
      /\ ~redo => q = n
  BY DEF Maintained
<1> HIDE DEF n, q
<1>4. Finished(j, n) <=> Finished(j, r)
  BY <1>1 DEF Finished
<1>5. /\ r.status # None => r.last # None
      /\ r.last # None => r.last <= now
  BY DEF Repairable
<1>6. CASE redo
  <2>1. /\ Refreshed(n, q) /\ q.running = n.running /\ Sane(j, q)
        /\ n.on /\ Finished(j, n) => q.next = None
        /\ n.on /\ OneShot(j) /\ ~Finished(j, n) => q.next = At[j]
    BY <1>1, <1>3, <1>5, <1>6, RecomputedFacts, RecomputedSane
  <2>2. Refreshed(r, q)
    BY <1>1, <2>1 DEF Refreshed
  <2>3. r.on
    BY <1>1, <1>6
  <2>4. r.next # None => expired /\ r.last # None /\ r.last >= r.next
    BY <1>1, <1>6, <2>3
  <2>5. r.next # None /\ Sane(j, r) => q.next = r.next
    BY <1>1, <1>4, <2>1, <2>3, <2>4 DEF Sane
  <2> QED
    BY <1>1, <1>4, <2>1, <2>2, <2>3, <2>4, <2>5 DEF n, q
<1>7. CASE ~redo
  <2>1. q = n /\ Refreshed(r, q)
    BY <1>1, <1>3, <1>7 DEF Refreshed
  <2>2. r.on => r.next # None
    BY <1>1, <1>7
  <2>3. r.on /\ r.last # None /\ r.last >= r.next => ~(expired /\ r.running = None)
    <3>1. r.on /\ r.last # None /\ r.last >= r.next => Past(n)
      BY <1>1, <1>2, <1>5, <2>2 DEF Past, Times
    <3> QED
      BY <1>1, <1>7, <3>1
  <2>4. Sane(j, q)
    BY <1>1, <1>4, <2>1, <2>3 DEF Sane, Repairable
  <2> QED
    BY <1>1, <2>1, <2>2, <2>4 DEF n, q
<1> QED
  BY <1>6, <1>7

\* recomputeNextRuns keeps records sane and schedules no one-shot that has succeeded.
LEMMA FullyRecomputedFacts ==
  ASSUME now \in Nat, NEW j \in Jobs, NEW r \in Records, Sane(j, r)
  PROVE  /\ Refreshed(r, FullyRecomputed(j, r))
         /\ FullyRecomputed(j, r).running = Normalized(r).running
         /\ Sane(j, FullyRecomputed(j, r))
         /\ r.next = None /\ Finished(j, r) => FullyRecomputed(j, r).next = None
<1> DEFINE n == Normalized(r)
<1> DEFINE q == FullyRecomputed(j, r)
<1> DEFINE redo == n.on /\ (n.next = None \/ Past(n))
<1>1. /\ n \in Records /\ n.on = r.on /\ n.last = r.last /\ n.status = r.status
      /\ n.anchor = r.anchor /\ n.errors = r.errors
      /\ r.on => n.next = r.next
      /\ ~r.on => n.next = None
  BY NormalizedFacts DEF Refreshed
<1>2. r.on \in BOOLEAN
  BY DEF Records
<1>3. /\ redo => q = Recomputed(j, n)
      /\ ~redo => q = n
  BY DEF FullyRecomputed
<1> HIDE DEF n, q
<1>4. Finished(j, n) <=> Finished(j, r)
  BY <1>1 DEF Finished
<1>5. /\ r.status # None => r.last # None
      /\ r.last # None => r.last <= now
  BY DEF Sane
<1>6. CASE redo
  <2>1. /\ Refreshed(n, q) /\ q.running = n.running /\ Sane(j, q)
        /\ n.on /\ Finished(j, n) => q.next = None
    BY <1>1, <1>3, <1>5, <1>6, RecomputedFacts, RecomputedSane
  <2>2. Refreshed(r, q)
    BY <1>1, <2>1 DEF Refreshed
  <2> QED
    BY <1>1, <1>4, <1>6, <2>1, <2>2 DEF n, q
<1>7. CASE ~redo
  <2>1. q = n /\ Refreshed(r, q)
    BY <1>1, <1>3, <1>7 DEF Refreshed
  <2>2. Sane(j, q)
    BY <1>1, <1>4, <2>1 DEF Sane
  <2> QED
    BY <1>1, <1>2, <2>1, <2>2 DEF n, q
<1> QED
  BY <1>6, <1>7

\* q is what execution e may leave of record r.
Written(j, r, e, forced, q) ==
  /\ q \in Records
  /\ q.running = None /\ q.last = e.from /\ q.status = e.state
  /\ q.on => r.on
  /\ Repairable(j, q, TRUE)
  /\ ~forced => Repairable(j, q, FALSE)
  /\ OneShot(j) /\ e.state = "ok" => q.next = None /\ ~q.on

\* applyJobResult writes what the execution tells, takes the marker away, never
\* enables a job, and leaves a record maintenance makes sane; only a run forced
\* by hand needs recomputeExpired for that.
LEMMA AppliedFacts ==
  ASSUME now \in Nat, NEW j \in Jobs, NEW r \in Records, NEW e \in Executions,
         e.state \in Outcomes, e.to \in Nat, e.from <= e.to, e.to <= now,
         NEW forced \in BOOLEAN, NEW q, q = Applied(j, r, e, forced), q # None
  PROVE  Written(j, r, e, forced, q)
<1> DEFINE failed == e.state = "error"
<1> DEFINE errors == IF failed THEN IF r.errors > MaxAttempts THEN r.errors ELSE r.errors + 1 ELSE 0
<1> DEFINE done == [r EXCEPT !.running = None, !.last = e.from, !.status = e.state, !.errors = errors]
<1> DEFINE base == IF forced THEN [done EXCEPT !.last = r.last] ELSE done
<1> DEFINE normal == ComputeNext(j, base, e.to)
<1> DEFINE off == [done EXCEPT !.on = FALSE, !.next = None]
<1>1. /\ r.on \in BOOLEAN /\ r.errors \in Nat /\ r.last \in Times /\ r.next \in Times
      /\ e.from \in Nat /\ e.from # None /\ None \notin Nat /\ None \notin Outcomes
      /\ Backoff \in Nat \ {0} /\ MaxAttempts \in Nat /\ errors \in Nat
  BY ConstantsAssumption DEF Records, Executions
<1>2. PICK d \in Records : d = done
  BY <1>1 DEF Records, Times
<1>3. /\ d.on = r.on /\ d.running = None /\ d.last = e.from /\ d.status = e.state
      /\ d.next = r.next
  BY <1>1, <1>2 DEF Records
<1> HIDE DEF errors
<1>4. \A t \in Times : [done EXCEPT !.next = t] \in Records
  BY <1>2 DEF Records
<1>5. \A t \in Times :
        /\ [done EXCEPT !.next = t].on = r.on /\ [done EXCEPT !.next = t].running = None
        /\ [done EXCEPT !.next = t].last = e.from /\ [done EXCEPT !.next = t].status = e.state
        /\ [done EXCEPT !.next = t].next = t
  BY <1>2, <1>3 DEF Records
<1>6. /\ off \in Records
      /\ off.on = FALSE /\ off.running = None /\ off.last = e.from /\ off.status = e.state
      /\ off.next = None
  <2>1. PICK o \in Records : o = [d EXCEPT !.on = FALSE, !.next = None]
    BY DEF Records, Times
  <2>2. o.on = FALSE /\ o.running = d.running /\ o.last = d.last /\ o.status = d.status /\ o.next = None
    BY <2>1 DEF Records
  <2>3. o = off
    BY <1>2, <2>1
  <2> QED
    BY <1>3, <2>1, <2>2, <2>3
<1>7. /\ base \in Records /\ base.on = r.on
      /\ ~forced => base.last = e.from
  <2>1. PICK b \in Records : b = [d EXCEPT !.last = r.last]
    BY <1>1 DEF Records
  <2>2. b.on = r.on
    BY <1>3, <2>1 DEF Records
  <2> QED
    BY <1>2, <1>3, <2>1, <2>2
<1>8. /\ normal \in Times
      /\ ~OneShot(j) /\ r.on => normal \in Nat
      /\ ~OneShot(j) /\ r.on /\ ~forced => normal > e.from
  <2>1. PICK b \in Records : b = base
    BY <1>7
  <2>2. /\ ComputeNext(j, b, e.to) \in Times
        /\ b.on /\ ~OneShot(j) => ComputeNext(j, b, e.to) \in Nat
        /\ b.on /\ ~OneShot(j) /\ b.last # None /\ b.last <= e.to => ComputeNext(j, b, e.to) > b.last
    <3>1. PICK t \in Nat : t = e.to
      OBVIOUS
    <3> QED
      BY <3>1, ComputeNextFacts
  <2> QED
    BY <1>1, <1>7, <2>1, <2>2
<1> DEFINE retry == e.to + Backoff
<1>9. retry \in Nat /\ retry \in Times /\ retry > e.from /\ e.from <= now
  BY <1>1 DEF Times
<1>10. q = CASE OneShot(j) /\ e.state = "ok" /\ j \in Deletes -> None
             [] OneShot(j) /\ ~failed /\ ~(e.state = "ok" /\ j \in Deletes) -> off
             [] OneShot(j) /\ failed ->
                  IF errors <= MaxAttempts THEN [done EXCEPT !.next = retry] ELSE off
             [] ~OneShot(j) /\ ~r.on -> [done EXCEPT !.next = None]
             [] ~OneShot(j) /\ r.on ->
                  [done EXCEPT !.next = IF failed THEN Later(normal, retry) ELSE normal]
  BY DEF Applied, errors
<1> HIDE DEF done, base, off, normal, retry
<1>11. \/ q = off
       \/ OneShot(j) /\ failed /\ q = [done EXCEPT !.next = retry]
       \/ ~OneShot(j) /\ ~r.on /\ q = [done EXCEPT !.next = None]
       \/ /\ ~OneShot(j) /\ r.on
          /\ q = [done EXCEPT !.next = IF failed THEN Later(normal, retry) ELSE normal]
  <2>1. CASE OneShot(j) /\ ~failed
    BY <1>10, <2>1
  <2>2. CASE OneShot(j) /\ failed
    BY <1>10, <2>2
  <2>3. CASE ~OneShot(j) /\ ~r.on
    BY <1>10, <2>3
  <2>4. CASE ~OneShot(j) /\ r.on
    BY <1>10, <2>4
  <2> QED
    BY <1>1, <2>1, <2>2, <2>3, <2>4
<1>12. CASE q = off
  BY <1>1, <1>6, <1>9, <1>12 DEF Repairable, Written
<1>13. CASE OneShot(j) /\ failed /\ q = [done EXCEPT !.next = retry]
  <2>1. /\ q \in Records /\ q.on = r.on /\ q.running = None /\ q.last = e.from
        /\ q.status = e.state /\ q.next = retry
    BY <1>4, <1>5, <1>9, <1>13
  <2>2. ~(q.last >= q.next)
    BY <1>1, <1>9, <2>1
  <2> QED
    BY <1>1, <1>9, <1>13, <2>1, <2>2 DEF Repairable, Written
<1>14. CASE ~OneShot(j) /\ ~r.on /\ q = [done EXCEPT !.next = None]
  <2>1. /\ q \in Records /\ q.on = r.on /\ q.running = None /\ q.last = e.from
        /\ q.status = e.state /\ q.next = None
    BY <1>4, <1>5, <1>14 DEF Times
  <2> QED
    BY <1>1, <1>9, <1>14, <2>1 DEF Repairable, Written
<1>15. CASE /\ ~OneShot(j) /\ r.on
            /\ q = [done EXCEPT !.next = IF failed THEN Later(normal, retry) ELSE normal]
  <2>1. PICK t \in Nat : t = IF failed THEN Later(normal, retry) ELSE normal
    BY <1>8, <1>9, <1>15 DEF Later
  <2>2. ~forced => t > e.from
    BY <1>1, <1>8, <1>9, <1>15, <2>1 DEF Later
  <2>3. /\ q \in Records /\ q.on = r.on /\ q.running = None /\ q.last = e.from
        /\ q.status = e.state /\ q.next = t
    <3>1. t \in Times /\ q = [done EXCEPT !.next = t]
      BY <1>15, <2>1 DEF Times
    <3> QED
      BY <1>4, <1>5, <3>1
  <2>4. ~forced => ~(q.last >= q.next)
    BY <1>1, <2>1, <2>2, <2>3
  <2> QED
    BY <1>1, <1>9, <1>15, <2>3, <2>4 DEF Repairable, Written
<1> QED
  BY <1>11, <1>12, <1>13, <1>14, <1>15

\* update with a patch of enabled
LEMMA EnabledFacts ==
  ASSUME now \in Nat, NEW j \in Jobs, NEW r \in Records, Sane(j, r), NEW on \in BOOLEAN
  PROVE  /\ Enabled(j, r, on) \in Records /\ Sane(j, Enabled(j, r, on))
         /\ Enabled(j, r, on).on = on /\ Enabled(j, r, on).status = r.status
         /\ Enabled(j, r, on).last = r.last
         /\ Enabled(j, r, on).running = IF on THEN r.running ELSE None
         /\ Finished(j, r) => Enabled(j, r, on).next = None
<1>1. CASE ~on
  <2>1. PICK q \in Records : q = [r EXCEPT !.on = FALSE, !.next = None, !.running = None]
    BY DEF Records, Times
  <2>2. /\ q.on = FALSE /\ q.next = None /\ q.running = None
        /\ q.last = r.last /\ q.status = r.status
    BY <2>1 DEF Records
  <2>3. Enabled(j, r, on) = q
    BY <1>1, <2>1 DEF Enabled
  <2> QED
    BY <1>1, <2>2, <2>3 DEF Sane
<1>2. CASE on
  <2>1. PICK p \in Records : p = [r EXCEPT !.on = TRUE]
    BY DEF Records
  <2>2. p.on = TRUE /\ p.last = r.last /\ p.status = r.status
    BY <2>1 DEF Records
  <2>3. Finished(j, p) <=> Finished(j, r)
    BY <2>2 DEF Finished
  <2> DEFINE next == ComputeNext(j, p, now)
  <2>4. /\ next \in Times
        /\ OneShot(j) /\ Finished(j, p) => next = None
        /\ OneShot(j) /\ ~Finished(j, p) => next = At[j]
        /\ ~OneShot(j) => next \in Nat
        /\ ~OneShot(j) /\ p.last # None /\ p.last <= now => next > p.last
    BY <2>2, ComputeNextFacts
  <2>5. Enabled(j, r, on) = [r EXCEPT !.on = TRUE, !.next = next]
    BY <1>2, <2>1 DEF Enabled
  <2> HIDE DEF next
  <2>6. PICK q \in Records : q = [r EXCEPT !.on = TRUE, !.next = next]
    BY <2>4 DEF Records
  <2>7. /\ q.on = TRUE /\ q.next = next /\ q.running = r.running
        /\ q.last = r.last /\ q.status = r.status
    BY <2>6 DEF Records
  <2>8. Finished(j, q) <=> Finished(j, r)
    BY <2>7 DEF Finished
  <2>9. r.last \in Times /\ None \notin Nat
    BY ConstantsAssumption DEF Records
  <2>10. ~OneShot(j) /\ r.last # None => ~(q.last >= q.next)
    BY <2>2, <2>4, <2>7, <2>9 DEF Sane, Times
  <2>11. Sane(j, q)
    BY <2>3, <2>4, <2>7, <2>8, <2>10 DEF Sane
  <2>12. Finished(j, r) => q.next = None
    BY <2>3, <2>4, <2>7 DEF Finished
  <2> QED
    BY <1>2, <2>5, <2>6, <2>7, <2>11, <2>12
<1> QED
  BY <1>1, <1>2

\* createJob
LEMMA NewFacts ==
  ASSUME NEW j \in Jobs, NEW t \in Nat, now \in Nat
  PROVE  /\ New(j, t) \in Records /\ New(j, t).running = None
         /\ New(j, t).last = None /\ New(j, t).status = None /\ New(j, t).on = TRUE
         /\ Sane(j, New(j, t))
<1>1. At[j] \in Nat /\ Every[j] \in Nat /\ None \notin Outcomes
  BY ConstantsAssumption
<1>2. New(j, t) \in Records
  BY <1>1 DEF New, Records, Times
<1>3. /\ New(j, t).running = None /\ New(j, t).last = None /\ New(j, t).status = None
      /\ New(j, t).on = TRUE
  BY DEF New
<1> QED
  BY <1>2, <1>3 DEF Sane

\* A record that gets the marker
LEMMA MarkerFacts ==
  ASSUME NEW j \in Jobs, NEW r \in Records, NEW t \in Nat, Sane(j, r),
         NEW q, q = [r EXCEPT !.running = t]
  PROVE  /\ Refreshed(r, q) /\ q.next = r.next
         /\ q.running = t /\ t # None
         /\ Sane(j, q)
<1>1. q \in Records
  BY DEF Records, Times
<1>2. /\ q.on = r.on /\ q.next = r.next /\ q.last = r.last /\ q.status = r.status
      /\ q.anchor = r.anchor /\ q.errors = r.errors /\ q.running = t
  BY <1>1 DEF Records
<1>3. Sane(j, q)
  BY <1>2 DEF Sane, Finished
<1> QED
  BY <1>1, <1>2, <1>3, ConstantsAssumption DEF Refreshed

-----------------------------------------------------------------------------
(* What the operators on stores do *)

Stores == [Jobs -> Records \cup {None}]

\* A one-shot that is scheduled no more
Done(j, r) == OneShot(j) /\ r.next = None /\ (Finished(j, r) \/ ~r.on)

\* t has the jobs of s, in every respect that a recomputation leaves alone.
Upkeep(s, t) ==
  /\ t \in Stores
  /\ \A j \in Jobs : t[j] = None <=> s[j] = None
  /\ \A j \in Jobs : s[j] # None =>
       /\ t[j].on = s[j].on /\ t[j].last = s[j].last /\ t[j].status = s[j].status
       /\ Done(j, s[j]) => Done(j, t[j])
       /\ Sane(j, t[j])
       /\ t[j].running = None => s[j].running = None \/ j \in Loses(s)
       /\ t[j].running # None => s[j].running # None

\* The jobs of s that have a next time keep it in t.
SlotKept(s, t, j) == s[j].on /\ s[j].next # None => t[j].next = s[j].next

\* recomputeNextRunsForMaintenance
LEMMA MaintainAllFacts ==
  ASSUME now \in Nat, NEW s \in Stores, NEW expired \in BOOLEAN,
         \A j \in Jobs : s[j] # None => Repairable(j, s[j], expired),
         NEW t, t = MaintainAll(s, expired)
  PROVE  /\ Upkeep(s, t)
         /\ \A j \in Jobs : s[j] # None /\ (~expired \/ Sane(j, s[j])) => SlotKept(s, t, j)
<1>1. \A j \in Jobs : t[j] = IF s[j] = None THEN None ELSE Maintained(j, s[j], expired)
  BY DEF MaintainAll
<1>2. ASSUME NEW j \in Jobs, s[j] # None
      PROVE  /\ t[j] \in Records /\ t[j] # None
             /\ t[j].on = s[j].on /\ t[j].last = s[j].last /\ t[j].status = s[j].status
             /\ Done(j, s[j]) => Done(j, t[j])
             /\ Sane(j, t[j])
             /\ t[j].running = None => s[j].running = None \/ j \in Loses(s)
             /\ t[j].running # None => s[j].running # None
             /\ ~expired \/ Sane(j, s[j]) => SlotKept(s, t, j)
  <2>1. PICK r \in Records : r = s[j]
    BY <1>2 DEF Stores
  <2>2. Repairable(j, r, expired)
    BY <1>2, <2>1
  <2>3. t[j] = Maintained(j, r, expired)
    BY <1>1, <1>2, <2>1
  <2>4. /\ Refreshed(r, t[j])
        /\ t[j].running = Normalized(r).running
        /\ Sane(j, t[j])
        /\ r.on /\ r.next # None /\ ~expired => t[j].next = r.next
        /\ r.on /\ r.next # None /\ Sane(j, r) => t[j].next = r.next
        /\ ~r.on => t[j].next = None
        /\ r.next = None /\ Finished(j, r) => t[j].next = None
    BY <2>2, <2>3, MaintainedFacts
  <2>5. Normalized(r).running \in {r.running, None}
    BY NormalizedFacts
  <2>6. Finished(j, t[j]) <=> Finished(j, r)
    BY <2>4 DEF Refreshed, Finished
  <2>7. Done(j, r) => Done(j, t[j])
    BY <2>4, <2>6 DEF Done, Refreshed
  <2>8. /\ t[j].running = None => r.running = None \/ j \in Loses(s)
        /\ t[j].running # None => r.running # None
    BY <1>2, <2>1, <2>4, <2>5 DEF Loses
  <2>9. t[j] \in Records /\ t[j].on = r.on /\ t[j].last = r.last /\ t[j].status = r.status
    BY <2>4 DEF Refreshed
  <2>10. t[j] # None
    BY <2>9, NoneAssumption
  <2> QED
    BY <2>1, <2>4, <2>7, <2>8, <2>9, <2>10 DEF SlotKept
<1>3. t \in Stores
  BY <1>1, <1>2 DEF MaintainAll, Stores
<1> QED
  BY <1>1, <1>2, <1>3 DEF Upkeep

\* recomputeNextRuns
LEMMA RecomputeAllFacts ==
  ASSUME now \in Nat, NEW s \in Stores, \A j \in Jobs : s[j] # None => Sane(j, s[j]),
         NEW t, t = RecomputeAll(s)
  PROVE  Upkeep(s, t)
<1>1. \A j \in Jobs : t[j] = IF s[j] = None THEN None ELSE FullyRecomputed(j, s[j])
  BY DEF RecomputeAll
<1>2. ASSUME NEW j \in Jobs, s[j] # None
      PROVE  /\ t[j] \in Records /\ t[j] # None
             /\ t[j].on = s[j].on /\ t[j].last = s[j].last /\ t[j].status = s[j].status
             /\ Done(j, s[j]) => Done(j, t[j])
             /\ Sane(j, t[j])
             /\ t[j].running = None => s[j].running = None \/ j \in Loses(s)
             /\ t[j].running # None => s[j].running # None
  <2>1. PICK r \in Records : r = s[j]
    BY <1>2 DEF Stores
  <2>2. Sane(j, r)
    BY <1>2, <2>1
  <2>3. t[j] = FullyRecomputed(j, r)
    BY <1>1, <1>2, <2>1
  <2>4. /\ Refreshed(r, t[j])
        /\ t[j].running = Normalized(r).running
        /\ Sane(j, t[j])
        /\ r.next = None /\ Finished(j, r) => t[j].next = None
    BY <2>2, <2>3, FullyRecomputedFacts
  <2>5. Normalized(r).running \in {r.running, None}
    BY NormalizedFacts
  <2>6. Finished(j, t[j]) <=> Finished(j, r)
    BY <2>4 DEF Refreshed, Finished
  <2>7. Done(j, r) => Done(j, t[j])
    BY <2>4, <2>6 DEF Done, Refreshed, Sane
  <2>8. /\ t[j].running = None => r.running = None \/ j \in Loses(s)
        /\ t[j].running # None => r.running # None
    BY <1>2, <2>1, <2>4, <2>5 DEF Loses
  <2>9. t[j] \in Records /\ t[j].on = r.on /\ t[j].last = r.last /\ t[j].status = r.status
    BY <2>4 DEF Refreshed
  <2>10. t[j] # None
    BY <2>9, NoneAssumption
  <2> QED
    BY <2>1, <2>4, <2>7, <2>8, <2>9, <2>10
<1>3. t \in Stores
  BY <1>1, <1>2 DEF RecomputeAll, Stores
<1> QED
  BY <1>1, <1>2, <1>3 DEF Upkeep

\* t is s after the outcomes of the executions of a.
Outcome(s, a, t) ==
  /\ t \in Stores
  /\ \A j \in Jobs : exec[a][j] = None => t[j] = s[j]
  /\ \A j \in Jobs : exec[a][j] # None /\ t[j] # None => t[j].running = None
  /\ \A j \in Jobs : t[j] # None =>
       /\ s[j] # None
       /\ t[j].on => s[j].on
       /\ Repairable(j, t[j], FALSE)
       /\ Done(j, s[j]) /\ t[j].status = "ok" => Done(j, t[j])

\* The outcomes of a batch that has ended, written to a store
LEMMA ApplyAllFacts ==
  ASSUME Control, NEW s \in Stores, NEW a \in Actors,
         \A j \in Jobs : s[j] # None => Sane(j, s[j]),
         \A j \in Jobs : exec[a][j] # None => Ended(a, j),
         NEW t, t = ApplyAll(s, a)
  PROVE  Outcome(s, a, t)
<1>1. \A j \in Jobs : t[j] = IF s[j] = None \/ exec[a][j] = None THEN s[j]
                             ELSE Applied(j, s[j], exec[a][j], FALSE)
  BY DEF ApplyAll
<1>2. \A j \in Jobs : s[j] = None \/ exec[a][j] = None => t[j] = s[j]
  BY <1>1
<1>3. now \in Nat
  BY DEF Control, ControlTypes
<1>4. ASSUME NEW j \in Jobs, s[j] # None, exec[a][j] # None, t[j] # None
      PROVE  /\ t[j] \in Records
             /\ t[j].running = None
             /\ t[j].on => s[j].on
             /\ Repairable(j, t[j], FALSE)
             /\ t[j].status = "ok" /\ OneShot(j) => Done(j, t[j])
  <2>1. PICK r \in Records : r = s[j]
    BY <1>4 DEF Stores
  <2>2. PICK e \in Executions : e = exec[a][j]
    BY <1>4 DEF Control, ControlTypes
  <2>3. e.state \in Outcomes /\ e.to \in Nat /\ e.from <= e.to /\ e.to <= now
    BY <1>4, <2>2 DEF Control, Clocked, Ended
  <2>4. PICK q : q = t[j]
    OBVIOUS
  <2>5. q = Applied(j, r, e, FALSE) /\ q # None
    BY <1>1, <1>4, <2>1, <2>2, <2>4
  <2>6. /\ q \in Records
        /\ q.running = None /\ q.last = e.from /\ q.status = e.state
        /\ q.on => r.on
        /\ Repairable(j, q, FALSE)
        /\ OneShot(j) /\ e.state = "ok" => q.next = None /\ ~q.on
    <3>1. /\ now \in Nat /\ j \in Jobs /\ r \in Records /\ e \in Executions
          /\ e.state \in Outcomes /\ e.to \in Nat /\ e.from <= e.to /\ e.to <= now
          /\ FALSE \in BOOLEAN /\ q = Applied(j, r, e, FALSE) /\ q # None
      BY <1>3, <2>1, <2>2, <2>3, <2>5
    <3>2. Written(j, r, e, FALSE, q)
      BY <3>1, AppliedFacts
    <3> QED
      BY <3>2 DEF Written
  <2> QED
    BY <2>1, <2>4, <2>6 DEF Done
<1>5. ASSUME NEW j \in Jobs, s[j] # None, exec[a][j] = None
      PROVE  t[j] \in Records /\ Repairable(j, t[j], FALSE) /\ t[j] = s[j]
  BY <1>2, <1>5, SaneRepairable DEF Stores
<1>6. t \in Stores
  BY <1>2, <1>4, <1>5 DEF Stores, ApplyAll
<1> QED
  BY <1>2, <1>4, <1>5, <1>6 DEF Done, Outcome

\* t is s with the marker at the jobs js.
WithMarkers(s, js, t) ==
  /\ t \in Stores
  /\ \A j \in Jobs : t[j] = None <=> s[j] = None
  /\ \A j \in Jobs \ js : t[j] = s[j]
  /\ \A j \in js : t[j].running # None
  /\ \A j \in Jobs : s[j] # None =>
       /\ t[j].on = s[j].on /\ t[j].last = s[j].last /\ t[j].status = s[j].status
       /\ t[j].next = s[j].next
       /\ Sane(j, t[j])

\* A store some of whose jobs get the marker u
MarkedAt(s, js, u) == [j \in Jobs |-> IF j \in js THEN [s[j] EXCEPT !.running = u] ELSE s[j]]

\* Markers change nothing else of a store.
LEMMA MarkedFacts ==
  ASSUME NEW s \in Stores, NEW js, js \subseteq {j \in Jobs : s[j] # None},
         \A j \in Jobs : s[j] # None => Sane(j, s[j]), NEW u \in Nat,
         NEW t, t = MarkedAt(s, js, u)
  PROVE  WithMarkers(s, js, t)
<1>1. /\ \A j \in js : t[j] = [s[j] EXCEPT !.running = u]
      /\ \A j \in Jobs \ js : t[j] = s[j]
      /\ t = [j \in Jobs |-> t[j]]
  BY DEF MarkedAt
<1>2. ASSUME NEW j \in js
      PROVE  /\ t[j] \in Records /\ t[j] # None /\ t[j].running # None
             /\ t[j].on = s[j].on /\ t[j].last = s[j].last /\ t[j].status = s[j].status
             /\ t[j].next = s[j].next /\ Sane(j, t[j])
  <2>1. PICK r \in Records : r = s[j] /\ j \in Jobs /\ Sane(j, r)
    BY <1>2 DEF Stores
  <2>3. t[j] = [r EXCEPT !.running = u]
    BY <1>1, <2>1
  <2>4. /\ Refreshed(r, t[j]) /\ t[j].next = r.next
        /\ t[j].running = u /\ u # None
        /\ Sane(j, t[j])
    <3>1. PICK q : q = t[j]
      OBVIOUS
    <3>2. q = [r EXCEPT !.running = u]
      BY <2>3, <3>1
    <3>3. /\ Refreshed(r, q) /\ q.next = r.next
          /\ q.running = u /\ u # None
          /\ Sane(j, q)
      BY <2>1, <3>2, MarkerFacts
    <3> QED
      BY <3>1, <3>3
  <2> QED
    BY <2>1, <2>4, NoneAssumption DEF Refreshed
<1>3. t \in Stores
  BY <1>1, <1>2 DEF Stores
<1> QED
  BY <1>1, <1>2, <1>3 DEF WithMarkers

-----------------------------------------------------------------------------
(* The stores *)

\* Every record is sane.
Sanity ==
  \A j \in Jobs : /\ disk[j] # None => Sane(j, disk[j])
                  /\ mem[j] # None => Sane(j, mem[j])

\* Nothing is known yet of a job that is going to be added.
Fresh ==
  \A q \in todo \cup {request} : q # None /\ q.kind = "add" =>
    disk[q.job] = None /\ mem[q.job] = None /\ \A a \in Actors : exec[a][q.job] = None

\* But for what a write-back changed on disk, the store in memory has the jobs of
\* the disk; only markers, errors, and a next time where the disk lacks one, are
\* ahead of it.
Same(j, d, m) ==
  /\ m.on = d.on /\ m.last = d.last /\ m.status = d.status
  /\ m.next = d.next \/ (d.next = None /\ d.on /\ ~Finished(j, d))
InStep ==
  loaded => \A j \in Jobs \ behind :
    /\ mem[j] = None <=> disk[j] = None
    /\ disk[j] # None => Same(j, disk[j], mem[j])

\* An execution whose marker was not taken away has its job marked and for itself.
Unmarked(s, j) == s[j] # None /\ s[j].running = None
Marking ==
  \A j \in Jobs, a \in Actors : exec[a][j] # None /\ j \notin released =>
    /\ ~Unmarked(disk, j) /\ ~Unmarked(mem, j)
    /\ \A b \in Actors : exec[b][j] # None => b = a

Stored ==
  /\ disk \in Stores /\ mem \in Stores
  /\ Sanity /\ Fresh /\ InStep /\ Marking

\* What no step does to a job it is not about: enable it, schedule it when it is
\* a one-shot that has succeeded, move its time while it is due.
NotEnabled(j) == Live(j)' => Live(j)
StaysDone(j) ==
  Succeeded(j) /\ disk[j].next = None /\ Succeeded(j)' /\ InTouch(j) => disk'[j].next = None
SlotStays(j) == Unclaimed(j) /\ disk'[j] # None /\ InTouch(j) => disk'[j].next = disk[j].next

\* A section that saves the memory enables what was enabled there.
Trusted(j) == Live(j)' => Live(j) \/ (j \in behind /\ On(mem, j))

\* What such a section does to the jobs that a write-back changed behind it
LEMMA Trusting ==
  ASSUME \A j \in Jobs : On(disk', j) => On(mem, j)
  PROVE  /\ \A j \in Jobs \cap behind : Trusted(j) /\ StaysDone(j) /\ SlotStays(j)
         /\ \A j \in Jobs : NotEnabled(j) => Trusted(j)
BY DEF Trusted, NotEnabled, StaysDone, SlotStays, InTouch, Live, On

\* A one-shot on disk that has succeeded and has no time is done.
LEMMA SucceededDone ==
  ASSUME Stored, NEW j \in Jobs, Succeeded(j), disk[j].next = None
  PROVE  Done(j, disk[j]) /\ Finished(j, disk[j])
<1>1. disk[j] # None /\ Sane(j, disk[j]) /\ disk[j] \in Records
  BY DEF Stored, Sanity, Stores, Succeeded
<1>2. disk[j].last # None /\ disk[j].last \in Nat /\ At[j] \in Nat
  BY <1>1, ConstantsAssumption DEF Sane, Succeeded, Records, Times, Outcomes
<1> QED
  BY <1>1, <1>2 DEF Succeeded, Done, Finished

\* The jobs in memory, compared to those on disk
LEMMA InMemoryFacts ==
  ASSUME Stored, loaded, NEW j \in Jobs \ behind
  PROVE  /\ mem[j] = None <=> disk[j] = None
         /\ disk[j] # None =>
              /\ mem[j].on = disk[j].on /\ mem[j].last = disk[j].last
              /\ mem[j].status = disk[j].status
              /\ Finished(j, mem[j]) <=> Finished(j, disk[j])
              /\ Done(j, disk[j]) => Done(j, mem[j])
              /\ SlotKept(disk, mem, j)
BY DEF Stored, InStep, Same, Finished, Done, SlotKept

\* A store that is saved is in step with itself.
LEMMA SavedFacts ==
  ASSUME NEW t \in Stores, disk' = t, mem' = t, now' = now,
         \A j \in Jobs : t[j] # None => Sane(j, t[j])
  PROVE  disk' \in Stores /\ mem' \in Stores /\ Sanity' /\ InStep'
BY DEF Sanity, Sane, Finished, InStep, Same

\* No step but an add makes a job known.
LEMMA FreshKept ==
  ASSUME Stored, todo' \cup {request'} \subseteq todo \cup {request, None},
         \A j \in Jobs : disk'[j] # None \/ mem'[j] # None => disk[j] # None \/ mem[j] # None,
         \A a \in Actors, j \in Jobs :
           exec'[a][j] # None => exec[a][j] # None \/ disk[j] # None \/ mem[j] # None,
         todo \cup {request} \subseteq Requests \cup {None}
  PROVE  Fresh'
<1>1. \A q \in Requests : q.job \in Jobs
  BY ConstantsAssumption
<1> QED
  BY <1>1 DEF Stored, Fresh

\* The requests are requests.
LEMMA Requesting ==
  ASSUME Control
  PROVE  todo \cup {request} \subseteq Requests \cup {None}
BY DEF Control, ControlTypes

\* A step that changes neither store, and who executes what
LEMMA UntouchedStored ==
  ASSUME Control, Stored, UNCHANGED <<disk, mem, loaded, behind>>, released \subseteq released',
         now' \in Nat, now <= now',
         todo' \cup {request'} \subseteq todo \cup {request, None},
         \A a \in Actors, j \in Jobs : exec'[a][j] = None <=> exec[a][j] = None
  PROVE  Stored' /\ \A j \in Jobs : NotEnabled(j) /\ StaysDone(j) /\ SlotStays(j)
<1>1. Fresh'
  BY FreshKept, Requesting
<1>2. ASSUME NEW j \in Jobs, NEW r \in Records, Sane(j, r)
      PROVE  Sane(j, r)'
  BY <1>2 DEF Sane, Finished, Records, Times, Control, ControlTypes
<1>3. Sanity'
  BY <1>2 DEF Stored, Sanity, Stores
<1>4. InStep' /\ Marking'
  BY DEF Stored, InStep, Same, Finished, Marking, Unmarked
<1>5. \A j \in Jobs : NotEnabled(j) /\ StaysDone(j) /\ SlotStays(j)
  BY DEF NotEnabled, StaysDone, SlotStays, Live, On, Succeeded
<1> QED
  BY <1>1, <1>3, <1>4, <1>5 DEF Stored

\* The markers of a store that is maintained
LEMMA UpkeepMarkers ==
  ASSUME NEW s, NEW t, Upkeep(s, t), NEW j \in Jobs
  PROVE  Unmarked(t, j) => Unmarked(s, j) \/ j \in Loses(s)
BY DEF Upkeep, Unmarked

\* What maintenance leaves of the store, for a job that is on disk as it is in s
LEMMA UpkeepQuiet ==
  ASSUME Stored, NEW s, NEW t, Upkeep(s, t), disk' = t, NEW j \in Jobs,
         s[j] # None => disk[j] # None /\ (s[j].on => disk[j].on),
         s[j] # None /\ Done(j, disk[j]) /\ s[j].status = "ok" => Done(j, s[j])
  PROVE  NotEnabled(j) /\ StaysDone(j)
<1>1. NotEnabled(j)
  BY DEF Upkeep, NotEnabled, Live, On
<1>2. ASSUME Succeeded(j), disk[j].next = None, Succeeded(j)'
      PROVE  disk'[j].next = None
  <2>1. Done(j, disk[j])
    BY <1>2, SucceededDone
  <2>2. t[j] # None /\ t[j].status = "ok"
    BY <1>2 DEF Succeeded
  <2>3. s[j] # None /\ s[j].status = "ok" /\ (Done(j, s[j]) => Done(j, t[j]))
    BY <2>2 DEF Upkeep
  <2> QED
    BY <2>1, <2>3 DEF Done
<1> QED
  BY <1>1, <1>2 DEF StaysDone

-----------------------------------------------------------------------------
(* Every step keeps the stores *)

\* The steps between sections, but for the start of a job of a tick
LEMMA BetweenStored ==
  ASSUME Control, Control', Stored,
         \/ TimerFires \/ EndTick \/ AdvanceClock \/ WriteBackReads
         \/ \E j \in Jobs : StartMissedJob(j)
         \/ \E a \in Actors, j \in Jobs, outcome \in Ends : EndJob(a, j, outcome)
         \/ \E j \in Jobs, forced \in BOOLEAN : CallRun(j, forced)
         \/ \E q \in Requests : Ask(q)
         \/ UNCHANGED vars
  PROVE  Stored' /\ \A j \in Jobs : NotEnabled(j) /\ StaysDone(j) /\ SlotStays(j)
<1>1. now \in Nat /\ now' \in Nat
  BY DEF Control, ControlTypes
<1>2. CASE TimerFires \/ EndTick \/ UNCHANGED vars
  BY <1>1, <1>2, UntouchedStored DEF TimerFires, EndTick, vars, store, asked
<1>3. CASE AdvanceClock \/ WriteBackReads
  BY <1>1, <1>3, UntouchedStored DEF AdvanceClock, WriteBackReads, store, asked
<1>4. CASE \E j \in Jobs, forced \in BOOLEAN : CallRun(j, forced)
  BY <1>1, <1>4, UntouchedStored DEF CallRun, store
<1>5. CASE \E q \in Requests : Ask(q)
  <2>1. PICK q \in Requests : Ask(q)
    BY <1>5
  <2>2. todo' \cup {request'} \subseteq todo \cup {request, None}
    BY <2>1 DEF Ask
  <2> QED
    BY <1>1, <2>1, <2>2, UntouchedStored DEF Ask, store
<1>6. CASE \E j \in Jobs : StartMissedJob(j)
  <2>1. PICK j \in Jobs : StartMissedJob(j)
    BY <1>6
  <2>2. PICK new \in Executions : new = [state |-> "running", from |-> now, to |-> None]
    BY <1>1 DEF Executions, Times
  <2>3. exec[ "boot"][j] # None /\ exec' = [exec EXCEPT !["boot"][j] = new]
    BY <2>1, <2>2 DEF StartMissedJob
  <2>4. \A a \in Actors, k \in Jobs : exec'[a][k] = None <=> exec[a][k] = None
    BY <2>3, NoneAssumption DEF Control, ControlTypes, Actors
  <2> QED
    BY <1>1, <2>1, <2>4, UntouchedStored DEF StartMissedJob, store, asked
<1>7. CASE \E a \in Actors, j \in Jobs, outcome \in Ends : EndJob(a, j, outcome)
  <2>1. PICK a \in Actors, j \in Jobs, outcome \in Ends : EndJob(a, j, outcome)
    BY <1>7
  <2>2. /\ exec[a][j] # None /\ outcome \in Outcomes
        /\ exec' = [exec EXCEPT ![a][j] =
                      [state |-> outcome, from |-> exec[a][j].from, to |-> now]]
    BY <2>1, ConstantsAssumption DEF EndJob
  <2>3. \A b \in Actors, k \in Jobs : exec'[b][k] = None <=> exec[b][k] = None
    BY <2>2, Ending
  <2> QED
    BY <1>1, <2>1, <2>3, UntouchedStored DEF EndJob, store
<1> QED
  BY <1>2, <1>3, <1>4, <1>5, <1>6, <1>7

\* runDueJob sets the marker in memory.
LEMMA StartStored ==
  ASSUME Control, Control', Stored, NEW j \in Jobs, StartDueJob(j)
  PROVE  Stored' /\ \A k \in Jobs : NotEnabled(k) /\ StaysDone(k) /\ SlotStays(k)
<1>1. /\ exec["tick"][j] # None
      /\ UNCHANGED <<now, disk, loaded, behind, request, todo, released>>
      /\ now \in Nat
      /\ mem' = IF attached /\ mem[j] # None THEN Marked(mem, {j}) ELSE mem
  BY DEF StartDueJob, asked, Control, ControlTypes
<1>2. \A a \in Actors, k \in Jobs : exec'[a][k] = None <=> exec[a][k] = None
  <2>1. PICK new \in Executions : new = [state |-> "running", from |-> now, to |-> None]
    BY <1>1 DEF Executions, Times
  <2>2. exec' = [exec EXCEPT !["tick"][j] = new]
    BY <2>1 DEF StartDueJob
  <2> QED
    BY <1>1, <2>2, NoneAssumption DEF Control, ControlTypes, Actors
<1>3. CASE mem' = mem
  BY <1>1, <1>2, <1>3, UntouchedStored
<1>4. CASE mem[j] # None /\ mem' = Marked(mem, {j})
  <2>1. PICK s \in Stores : s = mem
    BY DEF Stored
  <2>2. PICK t : t = Marked(s, {j})
    OBVIOUS
  <2>3. /\ t \in Stores
        /\ \A k \in Jobs : t[k] = None <=> s[k] = None
        /\ \A k \in Jobs \ {j} : t[k] = s[k]
        /\ t[j].running # None
        /\ \A k \in Jobs : s[k] # None =>
             /\ t[k].on = s[k].on /\ t[k].last = s[k].last /\ t[k].status = s[k].status
             /\ t[k].next = s[k].next
             /\ Sane(k, t[k])
    <3>1. {j} \subseteq {k \in Jobs : s[k] # None} /\ \A k \in Jobs : s[k] # None => Sane(k, s[k])
      BY <1>4, <2>1 DEF Stored, Sanity
    <3>2. PICK u \in Nat : u = now
      BY <1>1
    <3>4. PICK js : js = {j}
      OBVIOUS
    <3>3. t = MarkedAt(s, js, u)
      BY <2>2, <3>2, <3>4 DEF Marked, MarkedAt
    <3>5. WithMarkers(s, js, t)
      BY <2>1, <3>1, <3>2, <3>3, <3>4, MarkedFacts
    <3> QED
      BY <3>4, <3>5 DEF WithMarkers
  <2>4. mem' = t
    BY <1>4, <2>1, <2>2
  <2>5. mem' \in Stores /\ Sanity'
    <3>1. now' = now /\ disk' = disk
      BY <1>1
    <3>2. ASSUME NEW k \in Jobs, disk'[k] # None
          PROVE  Sane(k, disk[k])'
      <4>1. Sane(k, disk[k])
        BY <3>1, <3>2 DEF Stored, Sanity
      <4> QED
        BY <3>1, <4>1 DEF Sane, Finished
    <3>3. ASSUME NEW k \in Jobs, mem'[k] # None
          PROVE  Sane(k, mem[k])'
      <4>1. Sane(k, t[k])
        BY <2>3, <2>4, <3>3
      <4> QED
        BY <2>4, <3>1, <4>1 DEF Sane, Finished
    <3> QED
      BY <2>3, <2>4, <3>2, <3>3 DEF Sanity
  <2>6. Fresh'
    <3>1. todo' \cup {request'} \subseteq todo \cup {request, None}
      BY <1>1
    <3> QED
      BY <1>1, <1>2, <2>1, <2>3, <2>4, <3>1, FreshKept, Requesting
  <2>7. InStep'
    BY <1>1, <2>1, <2>3, <2>4 DEF Stored, InStep, Same, Finished
  <2>8. Marking'
    BY <1>1, <1>2, <2>1, <2>3, <2>4 DEF Stored, Marking, Unmarked
  <2>10. \A k \in Jobs : NotEnabled(k) /\ StaysDone(k) /\ SlotStays(k)
    BY <1>1 DEF NotEnabled, StaysDone, SlotStays, Live, On, Succeeded
  <2> QED
    BY <1>1, <2>5, <2>6, <2>7, <2>8, <2>10 DEF Stored
<1> QED
  BY <1>1, <1>3, <1>4

\* The first section of a tick
LEMMA ClaimStored ==
  ASSUME Control, Control', Stored, Claim
  PROVE  Stored' /\ \A j \in Jobs : NotEnabled(j) /\ StaysDone(j) /\ SlotStays(j)
<1>1. /\ Runs("claim") /\ loaded /\ loaded' /\ now' = now /\ now \in Nat
      /\ UNCHANGED <<request, todo>>
  <2>1. Runs("claim")
    BY DEF Claim
  <2> QED
    BY <2>1, RunsLoaded DEF Claim, Saved, InMemory, asked, Control, ControlTypes
<1>2. tick = "claim"
  <2>1. "claim" \in Waiting
    BY <1>1, Running DEF Control, ControlTypes, Queued
  <2> QED
    BY <2>1 DEF Control, Queued, Awaited
<1>3. \A j \in Jobs : exec["tick"][j] = None
  BY <1>2 DEF Control, Stages
<1>4. PICK s \in Stores : s = disk /\ \A j \in Jobs : s[j] # None => Sane(j, s[j])
  BY DEF Stored, Sanity
<1>5. todo' \cup {request'} \subseteq todo \cup {request, None}
  BY <1>1
<1>6. PICK due \in SUBSET Jobs : due = {j \in Jobs : Due(disk, j)}
  OBVIOUS
<1>7. CASE due = {}
  <2>1. PICK t : t = MaintainAll(s, TRUE)
    OBVIOUS
  <2>2. disk' = t /\ mem' = t /\ Release(Loses(s)) /\ exec' = exec
    BY <1>4, <1>6, <1>7, <2>1 DEF Claim, Anew, Saved, InMemory
  <2>3. /\ Upkeep(s, t)
        /\ \A j \in Jobs : s[j] # None /\ Sane(j, s[j]) => SlotKept(s, t, j)
    <3>1. PICK expired \in BOOLEAN : expired = TRUE
      OBVIOUS
    <3>2. \A j \in Jobs : s[j] # None => Repairable(j, s[j], expired)
      BY <1>4, SaneRepairable DEF Stores
    <3> QED
      BY <1>1, <2>1, <3>1, <3>2, MaintainAllFacts
  <2>4. disk' \in Stores /\ mem' \in Stores /\ Sanity' /\ InStep'
    BY <1>1, <2>2, <2>3, SavedFacts DEF Upkeep
  <2>5. Fresh'
    BY <1>4, <1>5, <2>2, <2>3, FreshKept, Requesting DEF Upkeep
  <2>6. Marking'
    BY <1>4, <2>2, <2>3, UpkeepMarkers DEF Stored, Marking, Unmarked, Release
  <2>8. \A j \in Jobs : NotEnabled(j) /\ StaysDone(j)
    BY <1>4, <2>2, <2>3, UpkeepQuiet
  <2>9. \A j \in Jobs : SlotStays(j)
    BY <1>4, <2>2, <2>3 DEF SlotStays, SlotKept, Unclaimed, Past
  <2> QED
    BY <2>4, <2>5, <2>6, <2>8, <2>9 DEF Stored
<1>8. CASE due # {}
  <2>1. PICK t : t = Marked(s, due)
    OBVIOUS
  <2>2. disk' = t /\ mem' = t /\ released' = released
        /\ exec' = [exec EXCEPT !["tick"] = Claimed(due)]
    BY <1>4, <1>6, <1>8, <2>1 DEF Claim, Anew, Saved, InMemory
  <2>3. /\ t \in Stores
        /\ \A j \in Jobs : t[j] = None <=> s[j] = None
        /\ \A j \in Jobs \ due : t[j] = s[j]
        /\ \A j \in due : t[j].running # None
        /\ \A j \in Jobs : s[j] # None =>
             /\ t[j].on = s[j].on /\ t[j].last = s[j].last /\ t[j].status = s[j].status
             /\ t[j].next = s[j].next
             /\ Sane(j, t[j])
    <3>1. due \subseteq {j \in Jobs : s[j] # None}
      BY <1>4, <1>6 DEF Due
    <3>2. PICK u \in Nat : u = now
      BY <1>1
    <3>3. t = MarkedAt(s, due, u)
      BY <2>1, <3>2 DEF Marked, MarkedAt
    <3>4. WithMarkers(s, due, t)
      BY <1>4, <3>1, <3>2, <3>3, MarkedFacts
    <3> QED
      BY <3>4 DEF WithMarkers
  <2>4. /\ \A b \in Actors \ {"tick"} : exec'[b] = exec[b]
        /\ \A j \in due : exec'["tick"][j] # None
        /\ \A j \in Jobs \ due : exec'["tick"][j] = None
    <3>1. "tick" \in Actors /\ exec \in [Actors -> [Jobs -> Executions \cup {None}]]
      BY DEF Actors, Control, ControlTypes
    <3> QED
      BY <1>1, <2>2, <3>1, Claiming
  <2>5. disk' \in Stores /\ mem' \in Stores /\ Sanity' /\ InStep'
    BY <1>1, <2>2, <2>3, SavedFacts
  <2>6. Fresh'
    BY <1>4, <1>5, <1>6, <2>2, <2>3, <2>4, FreshKept, Requesting DEF Due
  <2>7. \A j \in due : Unmarked(disk, j)
    BY <1>6 DEF Due, Unmarked
  <2>8. Marking'
    BY <1>3, <1>4, <2>2, <2>3, <2>4, <2>7 DEF Stored, Marking, Unmarked
  <2>10. \A j \in Jobs : NotEnabled(j) /\ StaysDone(j) /\ SlotStays(j)
    BY <1>4, <2>2, <2>3 DEF NotEnabled, StaysDone, SlotStays, Live, On, Succeeded, Unclaimed
  <2> QED
    BY <2>5, <2>6, <2>8, <2>10 DEF Stored
<1> QED
  BY <1>7, <1>8

\* The outcomes of a tick are written.
LEMMA ApplyStored ==
  ASSUME Control, Control', Stored, ApplyOutcomes
  PROVE  Stored' /\ \A j \in Jobs : NotEnabled(j) /\ StaysDone(j) /\ SlotStays(j)
<1>1. /\ Runs("apply") /\ loaded /\ now' = now /\ now \in Nat
      /\ UNCHANGED <<request, todo>>
      /\ exec' = [exec EXCEPT !["tick"] = Idle("tick")]
  <2>1. Runs("apply")
    BY DEF ApplyOutcomes
  <2> QED
    BY <2>1, RunsLoaded DEF ApplyOutcomes, asked, Control, ControlTypes
<1>2. tick = "apply"
  <2>1. "apply" \in Waiting
    BY <1>1, Running DEF Control, ControlTypes, Queued
  <2> QED
    BY <2>1 DEF Control, Queued, Awaited
<1>3. \A j \in Jobs : exec["tick"][j] # None => Ended("tick", j)
  BY <1>2 DEF Control, Stages
<1>4. PICK d \in Stores : d = disk /\ \A j \in Jobs : d[j] # None => Sane(j, d[j])
  BY DEF Stored, Sanity
<1>5. PICK s : s = ApplyAll(d, "tick")
  OBVIOUS
<1>6. /\ Outcome(d, "tick", s)
      /\ s \in Stores
      /\ \A j \in Jobs : exec["tick"][j] = None => s[j] = d[j]
      /\ \A j \in Jobs : exec["tick"][j] # None /\ s[j] # None => s[j].running = None
      /\ \A j \in Jobs : s[j] # None =>
           /\ d[j] # None
           /\ s[j].on => d[j].on
           /\ Repairable(j, s[j], FALSE)
           /\ Done(j, d[j]) /\ s[j].status = "ok" => Done(j, s[j])
  <2>1. "tick" \in Actors
    BY DEF Actors
  <2>2. Outcome(d, "tick", s)
    BY <1>3, <1>4, <1>5, <2>1, ApplyAllFacts
  <2> QED
    BY <2>2 DEF Outcome
<1>7. PICK t : t = MaintainAll(s, FALSE)
  OBVIOUS
<1>8. disk' = t /\ mem' = t /\ Forget("tick", Loses(s))
  BY <1>4, <1>5, <1>7 DEF ApplyOutcomes, Anew, Saved, InMemory
<1>9. Upkeep(s, t) /\ \A j \in Jobs : s[j] # None => SlotKept(s, t, j)
  <2>1. PICK expired \in BOOLEAN : expired = FALSE
    OBVIOUS
  <2> QED
    BY <1>1, <1>6, <1>7, <2>1, MaintainAllFacts
<1>10. /\ \A b \in Actors \ {"tick"} : exec'[b] = exec[b]
       /\ \A j \in Jobs : exec'["tick"][j] = None
  BY <1>1, Idling DEF Control, ControlTypes, Actors
<1>11. disk' \in Stores /\ mem' \in Stores /\ Sanity' /\ InStep'
  BY <1>1, <1>8, <1>9, SavedFacts DEF Upkeep
<1>12. Fresh'
  <2>1. todo' \cup {request'} \subseteq todo \cup {request, None}
    BY <1>1
  <2>2. \A j \in Jobs : t[j] # None => disk[j] # None
    BY <1>4, <1>6, <1>9 DEF Upkeep
  <2>3. \A a \in Actors, j \in Jobs : exec'[a][j] # None => exec[a][j] # None
    BY <1>10
  <2> QED
    BY <1>8, <2>1, <2>2, <2>3, FreshKept, Requesting
<1>13. Marking'
  <2>1. ASSUME NEW j \in Jobs, NEW a \in Actors, exec'[a][j] # None, j \notin released'
        PROVE  /\ ~Unmarked(t, j)
               /\ \A b \in Actors : exec'[b][j] # None => b = a
    <3>1. a # "tick" /\ exec[a][j] # None
      BY <1>10, <2>1
    <3>2. j \notin released /\ j \notin Loses(s)
      BY <1>8, <2>1, <3>1 DEF Forget
    <3>3. ~Unmarked(d, j) /\ \A b \in Actors : exec[b][j] # None => b = a
      BY <1>4, <3>1, <3>2 DEF Stored, Marking
    <3>4. s[j] = d[j]
      BY <1>6, <3>1, <3>3 DEF Actors
    <3>5. ~Unmarked(t, j)
      BY <1>9, <3>2, <3>3, <3>4, UpkeepMarkers DEF Unmarked
    <3> QED
      BY <1>10, <3>3, <3>5
  <2> QED
    BY <1>8, <2>1 DEF Marking, Unmarked
<1>15. \A j \in Jobs : NotEnabled(j) /\ StaysDone(j)
  BY <1>4, <1>6, <1>8, <1>9, UpkeepQuiet
<1>16. \A j \in Jobs : SlotStays(j)
  <2>1. ASSUME NEW j \in Jobs, Unclaimed(j), disk'[j] # None
        PROVE  disk'[j].next = disk[j].next
    <3>1. s[j] = d[j]
      BY <1>6, <2>1 DEF Unclaimed, Actors
    <3> QED
      BY <1>4, <1>8, <1>9, <2>1, <3>1 DEF Unclaimed, Past, SlotKept
  <2> QED
    BY <2>1 DEF SlotStays
<1> QED
  BY <1>11, <1>12, <1>13, <1>15, <1>16 DEF Stored

\* The markers of the process before are cleared.
LEMMA ClearStored ==
  ASSUME Control, Control', Stored, ClearMarkers
  PROVE  Stored' /\ \A j \in Jobs : NotEnabled(j) /\ StaysDone(j) /\ SlotStays(j)
<1>1. Runs("clear") /\ now' = now /\ now \in Nat /\ UNCHANGED <<request, todo, exec, released>>
  BY DEF ClearMarkers, asked, Control, ControlTypes
<1>2. ~loaded
  <2>1. "clear" \in Waiting
    BY <1>1, Running DEF Control, ControlTypes, Queued
  <2> QED
    BY <2>1 DEF Control, Queued, Awaited, Started
<1>3. \A a \in Actors, j \in Jobs : exec[a][j] = None
  BY <1>2 DEF Control, Started
<1>4. PICK d \in Stores : d = disk /\ \A j \in Jobs : d[j] # None => Sane(j, d[j])
  BY DEF Stored, Sanity
<1>5. PICK marked \in SUBSET Jobs :
        marked = {j \in Jobs : d[j] # None /\ d[j].running # None}
  OBVIOUS
<1>6. PICK t : t = [j \in Jobs |-> IF j \in marked THEN [d[j] EXCEPT !.running = None] ELSE d[j]]
  OBVIOUS
<1>7. SavedIf(marked # {}, t)
  BY <1>2, <1>4, <1>5, <1>6 DEF ClearMarkers, Loaded
<1>8. /\ \A j \in Jobs \ marked : t[j] = d[j]
      /\ \A j \in marked : t[j] = [d[j] EXCEPT !.running = None]
      /\ t = [j \in Jobs |-> t[j]]
  BY <1>6
<1>9. disk' = t /\ mem' = t
  <2>1. marked = {} => t = d
    BY <1>8 DEF Stores
  <2> QED
    BY <1>4, <1>7, <2>1 DEF SavedIf, Saved, InMemory, Unsaved
<1>10. ASSUME NEW j \in Jobs, d[j] # None
       PROVE  /\ t[j] \in Records /\ t[j].running = None /\ Sane(j, t[j])
              /\ t[j].on = d[j].on /\ t[j].status = d[j].status /\ t[j].next = d[j].next
              /\ Finished(j, t[j]) <=> Finished(j, d[j])
  <2>1. CASE j \in marked
    <3>1. PICK r \in Records : r = d[j] /\ Sane(j, r)
      BY <1>4, <1>10 DEF Stores
    <3>2. PICK q \in Records : q = [r EXCEPT !.running = None]
      BY DEF Records, Times
    <3>3. /\ q.on = r.on /\ q.next = r.next /\ q.last = r.last /\ q.status = r.status
          /\ q.running = None
      BY <3>2 DEF Records
    <3>4. Sane(j, q) /\ (Finished(j, q) <=> Finished(j, r))
      BY <3>1, <3>3 DEF Sane, Finished
    <3> QED
      BY <1>8, <2>1, <3>1, <3>2, <3>3, <3>4
  <2>2. CASE j \notin marked
    BY <1>4, <1>5, <1>8, <1>10, <2>2 DEF Stores
  <2> QED
    BY <2>1, <2>2
<1>11. t \in Stores /\ \A j \in Jobs : t[j] = None <=> d[j] = None
  <2>1. \A j \in Jobs : d[j] = None => t[j] = None
    BY <1>5, <1>8
  <2> QED
    BY <1>8, <1>10, <2>1, NoneAssumption DEF Stores
<1>12. disk' \in Stores /\ mem' \in Stores /\ Sanity' /\ InStep'
  <2>1. \A j \in Jobs : t[j] # None => Sane(j, t[j])
    BY <1>10, <1>11
  <2> QED
    BY <1>1, <1>9, <1>11, <2>1, SavedFacts
<1>13. Fresh'
  <2>1. todo' \cup {request'} \subseteq todo \cup {request, None}
    BY <1>1
  <2> QED
    BY <1>1, <1>4, <1>9, <1>11, <2>1, FreshKept, Requesting
<1>14. Marking'
  BY <1>3, <1>1 DEF Marking
<1>15. \A j \in Jobs : NotEnabled(j) /\ StaysDone(j) /\ SlotStays(j)
  BY <1>4, <1>9, <1>10, <1>11 DEF NotEnabled, StaysDone, SlotStays, Live, On, Succeeded, Unclaimed
<1> QED
  BY <1>12, <1>13, <1>14, <1>15 DEF Stored

\* A catch-up claims the jobs that were missed.
LEMMA PlanStored ==
  ASSUME Control, Control', Stored, Plan
  PROVE  Stored' /\ \A j \in Jobs : Trusted(j) /\ StaysDone(j) /\ SlotStays(j)
<1>1. /\ Runs("plan") /\ loaded /\ loaded' /\ now' = now /\ now \in Nat
      /\ UNCHANGED <<request, todo, released>>
  <2>1. Runs("plan")
    BY DEF Plan
  <2> QED
    BY <2>1, RunsLoaded DEF Plan, Saved, InMemory, asked, Control, ControlTypes
<1>2. boot = "plan"
  <2>1. "plan" \in Waiting
    BY <1>1, Running DEF Control, ControlTypes, Queued
  <2> QED
    BY <2>1 DEF Control, Queued, Awaited
<1>3. \A j \in Jobs : exec["boot"][j] = None
  BY <1>2 DEF Control, Stages
<1>4. PICK s \in Stores : s = mem /\ \A j \in Jobs : s[j] # None => Sane(j, s[j])
  BY DEF Stored, Sanity
<1>5. todo' \cup {request'} \subseteq todo \cup {request, None}
  BY <1>1
<1>6. Loaded = s
  BY <1>1, <1>4 DEF Loaded
<1>7. PICK missed \in SUBSET Jobs : missed = {j \in Jobs : Missed(Loaded, j)}
  OBVIOUS
<1>8. CASE missed = {}
  <2>1. mem' = mem /\ disk' = disk /\ behind' = behind /\ exec' = exec
    BY <1>4, <1>6, <1>7, <1>8 DEF Plan, InMemory, Unsaved
  <2> QED
    BY <1>1, <1>5, <2>1, UntouchedStored DEF Trusted, NotEnabled
<1>9. CASE missed # {}
  <2>1. PICK first \in SUBSET missed :
          /\ Saved(Marked(Loaded, first))
          /\ exec' = [exec EXCEPT !["boot"] = Claimed(first)]
    <3>1. PICK order \in [1..Cardinality(missed) -> missed] :
            LET first == {order[i] : i \in {k \in DOMAIN order : k <= MaxImmediate}} IN
            /\ Saved(Marked(Loaded, first))
            /\ exec' = [exec EXCEPT !["boot"] = Claimed(first)]
      BY <1>7, <1>9 DEF Plan
    <3>2. PICK first \in SUBSET missed :
            first = {order[i] : i \in {k \in DOMAIN order : k <= MaxImmediate}}
      OBVIOUS
    <3> QED
      BY <3>1, <3>2
  <2>2. PICK t : t = Marked(s, first)
    OBVIOUS
  <2>3. disk' = t /\ mem' = t
    BY <1>6, <2>1, <2>2 DEF Saved, InMemory
  <2>4. WithMarkers(s, first, t)
    <3>1. first \subseteq {j \in Jobs : s[j] # None}
      BY <1>6, <1>7, <2>1 DEF Missed, Due
    <3>2. PICK u \in Nat : u = now
      BY <1>1
    <3>3. t = MarkedAt(s, first, u)
      BY <2>2, <3>2 DEF Marked, MarkedAt
    <3> QED
      BY <1>4, <3>1, <3>2, <3>3, MarkedFacts
  <2>5. /\ \A b \in Actors \ {"boot"} : exec'[b] = exec[b]
        /\ \A j \in first : exec'["boot"][j] # None
        /\ \A j \in Jobs \ first : exec'["boot"][j] = None
    <3>1. "boot" \in Actors /\ exec \in [Actors -> [Jobs -> Executions \cup {None}]]
      BY DEF Actors, Control, ControlTypes
    <3> QED
      BY <1>1, <2>1, <3>1, Claiming
  <2>6. disk' \in Stores /\ mem' \in Stores /\ Sanity' /\ InStep'
    BY <1>1, <2>3, <2>4, SavedFacts DEF WithMarkers
  <2>7. \A j \in first : Unmarked(mem, j)
    BY <1>4, <1>6, <1>7, <2>1 DEF Missed, Due, Unmarked
  <2>8. Fresh'
    <3>1. \A j \in Jobs : t[j] # None => mem[j] # None
      BY <1>4, <2>4 DEF WithMarkers
    <3>2. \A a \in Actors, j \in Jobs :
            exec'[a][j] # None => exec[a][j] # None \/ disk[j] # None \/ mem[j] # None
      BY <2>5, <2>7 DEF Unmarked
    <3> QED
      BY <1>5, <2>3, <3>1, <3>2, FreshKept, Requesting
  <2>9. Marking'
    BY <1>1, <1>3, <1>4, <2>1, <2>3, <2>4, <2>5, <2>7 DEF Stored, Marking, Unmarked, WithMarkers
  <2>11. \A j \in Jobs \ behind : NotEnabled(j)
    BY <1>1, <1>4, <2>3, <2>4, InMemoryFacts DEF WithMarkers, NotEnabled, Live, On
  <2>12. \A j \in Jobs \ behind : StaysDone(j)
    <3>1. ASSUME NEW j \in Jobs \ behind, Succeeded(j), disk[j].next = None
          PROVE  t[j].next = None
      <4>1. Done(j, disk[j]) /\ disk[j] # None
        BY <3>1, SucceededDone DEF Succeeded
      <4>2. Done(j, s[j]) /\ s[j] # None
        BY <1>1, <1>4, <4>1, InMemoryFacts
      <4> QED
        BY <2>4, <4>2 DEF WithMarkers, Done
    <3> QED
      BY <2>3, <3>1 DEF StaysDone
  <2>13. \A j \in Jobs \ behind : SlotStays(j)
    BY <1>1, <1>4, <2>3, <2>4, InMemoryFacts DEF SlotStays, Unclaimed, Past, SlotKept, WithMarkers
  <2>14. \A j \in Jobs : On(disk', j) => On(mem, j)
    BY <1>4, <2>3, <2>4 DEF On, WithMarkers
  <2>15. \A j \in Jobs : Trusted(j) /\ StaysDone(j) /\ SlotStays(j)
    BY <2>11, <2>12, <2>13, <2>14, Trusting
  <2> QED
    BY <2>6, <2>8, <2>9, <2>15 DEF Stored
<1> QED
  BY <1>8, <1>9

\* t is s with the times of deferred jobs set anew.
PutOff(s, t) ==
  /\ t \in Stores
  /\ \A j \in Jobs : t[j] = None <=> s[j] = None
  /\ \A j \in Jobs : (\A i \in DOMAIN deferred : deferred[i] # j) => t[j] = s[j]
  /\ \A j \in Jobs : s[j] # None =>
       /\ t[j].on = s[j].on /\ t[j].running = s[j].running
       /\ Repairable(j, t[j], FALSE)

\* A job that is put off is put off to a time to come.
LEMMA PostponedFacts ==
  ASSUME Control, NEW s \in Stores,
         \A j \in Jobs : s[j] # None => Repairable(j, s[j], FALSE),
         NEW t, t = Postponed(s)
  PROVE  PutOff(s, t)
<1> DEFINE put == {j \in Jobs : \E i \in Present(s) : deferred[i] = j}
<1>1. now \in Nat /\ deferred \in Seq(Jobs) /\ Stagger \in Nat \ {0} /\ None \notin Nat
  BY ConstantsAssumption DEF Control, ControlTypes
<1>2. \A i \in Present(s) : Turn(s, i) \in Nat /\ Turn(s, i) >= 1
  <2>1. TAKE i \in Present(s)
  <2>2. PICK early : early = {k \in Present(s) : k <= i}
    OBVIOUS
  <2>3. Len(deferred) \in Nat /\ DOMAIN deferred = 1 .. Len(deferred)
    BY <1>1, LenProperties
  <2>4. early \subseteq 1 .. Len(deferred) /\ i \in early
    BY <2>2, <2>3 DEF Present
  <2>5. IsFiniteSet(early)
    <3>1. PICK n \in Nat : n = Len(deferred)
      BY <2>3
    <3>2. IsFiniteSet(1 .. n) /\ early \in SUBSET (1 .. n)
      BY <2>4, <3>1, FS_Interval
    <3> QED
      BY <3>2, FS_Subset
  <2>6. Cardinality(early) \in Nat /\ Cardinality(early) # 0
    BY <2>4, <2>5, FS_CardinalityType, FS_EmptySet
  <2> QED
    BY <2>2, <2>6 DEF Turn
<1>3. ASSUME NEW j \in put
      PROVE  /\ t[j] \in Records /\ s[j] # None
             /\ t[j].on = s[j].on /\ t[j].running = s[j].running
             /\ Repairable(j, t[j], FALSE)
             /\ \E i \in DOMAIN deferred : deferred[i] = j
  <2>1. PICK i \in Present(s) : i = CHOOSE k \in Present(s) : deferred[k] = j
    OBVIOUS
  <2>2. deferred[i] = j
    BY <2>1
  <2>3. PICK r \in Records : r = s[j]
    BY <2>2 DEF Present, Stores
  <2>4. PICK n \in Nat : n = now + Stagger * Turn(s, i) /\ n > now
    BY <1>1, <1>2
  <2>5. t[j] = [r EXCEPT !.next = n]
    BY <2>1, <2>3, <2>4 DEF Postponed
  <2>6. PICK q \in Records : q = [r EXCEPT !.next = n]
    BY DEF Records, Times
  <2>7. /\ q.on = r.on /\ q.running = r.running /\ q.next = n
        /\ q.last = r.last /\ q.status = r.status
    BY <2>6 DEF Records
  <2>8. s[j] # None /\ Repairable(j, r, FALSE)
    BY <2>2, <2>3 DEF Present
  <2>9. q.last # None => q.last \in Nat /\ q.last <= now
    BY <2>3, <2>7, <2>8 DEF Repairable, Records, Times
  <2>10. q.last # None => ~(q.last >= q.next)
    BY <1>1, <2>4, <2>7, <2>9
  <2>11. Repairable(j, q, FALSE)
    BY <2>7, <2>8, <2>10 DEF Repairable
  <2> QED
    BY <2>2, <2>3, <2>5, <2>6, <2>7, <2>8, <2>11 DEF Present
<1>4. \A j \in Jobs \ put : t[j] = s[j]
  BY DEF Postponed
<1>5. t \in Stores
  BY <1>3, <1>4 DEF Stores, Postponed
<1> QED
  BY <1>3, <1>4, <1>5, NoneAssumption DEF PutOff

\* The outcomes of a catch-up are written, and jobs are put off.
LEMMA SettleStored ==
  ASSUME Control, Control', Stored, Settle
  PROVE  /\ Stored'
         /\ \A j \in Jobs : /\ Trusted(j)
                            /\ \/ \E i \in DOMAIN deferred : deferred[i] = j
                               \/ StaysDone(j) /\ SlotStays(j)
<1>1. /\ Runs("settle") /\ loaded /\ now' = now /\ now \in Nat
      /\ UNCHANGED <<request, todo>>
      /\ exec' = [exec EXCEPT !["boot"] = Idle("boot")]
  <2>1. Runs("settle")
    BY DEF Settle
  <2> QED
    BY <2>1, RunsLoaded DEF Settle, asked, Control, ControlTypes
<1>2. boot = "settle"
  <2>1. "settle" \in Waiting
    BY <1>1, Running DEF Control, ControlTypes, Queued
  <2> QED
    BY <2>1 DEF Control, Queued, Awaited
<1>3. \A j \in Jobs : exec["boot"][j] # None => Ended("boot", j)
  BY <1>2 DEF Control, Stages
<1>4. PICK m \in Stores : m = mem /\ \A j \in Jobs : m[j] # None => Sane(j, m[j])
  BY DEF Stored, Sanity
<1>5. PICK s0 : s0 = ApplyAll(m, "boot")
  OBVIOUS
<1>6. Outcome(m, "boot", s0)
  <2>1. "boot" \in Actors
    BY DEF Actors
  <2> QED
    BY <1>3, <1>4, <1>5, <2>1, ApplyAllFacts
<1>7. PICK s : s = Postponed(s0)
  OBVIOUS
<1>8. PutOff(s0, s)
  BY <1>6, <1>7, PostponedFacts DEF Outcome
<1>9. PICK t : t = MaintainAll(s, FALSE)
  OBVIOUS
<1>10. disk' = t /\ mem' = t /\ Forget("boot", Loses(s))
  BY <1>1, <1>4, <1>5, <1>7, <1>9 DEF Settle, Saved, InMemory, Loaded
<1>11. Upkeep(s, t) /\ \A j \in Jobs : s[j] # None => SlotKept(s, t, j)
  <2>1. PICK expired \in BOOLEAN : expired = FALSE
    OBVIOUS
  <2>2. s \in Stores /\ \A j \in Jobs : s[j] # None => Repairable(j, s[j], expired)
    BY <1>8, <2>1 DEF PutOff
  <2> QED
    BY <1>1, <1>9, <2>1, <2>2, MaintainAllFacts
<1>12. /\ \A b \in Actors \ {"boot"} : exec'[b] = exec[b]
       /\ \A j \in Jobs : exec'["boot"][j] = None
  BY <1>1, Idling DEF Control, ControlTypes, Actors
<1>13. disk' \in Stores /\ mem' \in Stores /\ Sanity' /\ InStep'
  BY <1>1, <1>10, <1>11, SavedFacts DEF Upkeep
<1>14. \A j \in Jobs : t[j] # None => s[j] # None /\ s0[j] # None /\ m[j] # None
  BY <1>6, <1>8, <1>11 DEF Upkeep, PutOff, Outcome
<1>15. Fresh'
  <2>1. todo' \cup {request'} \subseteq todo \cup {request, None}
    BY <1>1
  <2>2. \A a \in Actors, j \in Jobs : exec'[a][j] # None => exec[a][j] # None
    BY <1>12
  <2> QED
    BY <1>4, <1>10, <1>14, <2>1, <2>2, FreshKept, Requesting
<1>16. Marking'
  <2>1. ASSUME NEW j \in Jobs, NEW a \in Actors, exec'[a][j] # None, j \notin released'
        PROVE  /\ ~Unmarked(t, j)
               /\ \A b \in Actors : exec'[b][j] # None => b = a
    <3>1. a # "boot" /\ exec[a][j] # None
      BY <1>12, <2>1
    <3>2. j \notin released /\ j \notin Loses(s)
      BY <1>10, <2>1, <3>1 DEF Forget
    <3>3. ~Unmarked(m, j) /\ \A b \in Actors : exec[b][j] # None => b = a
      BY <1>4, <3>1, <3>2 DEF Stored, Marking
    <3>4. s0[j] = m[j]
      BY <1>6, <3>1, <3>3 DEF Actors, Outcome
    <3>5. ~Unmarked(s, j)
      BY <1>8, <3>3, <3>4 DEF Unmarked, PutOff
    <3>6. ~Unmarked(t, j)
      BY <1>11, <3>2, <3>5, UpkeepMarkers
    <3> QED
      BY <1>12, <3>3, <3>6
  <2> QED
    BY <1>10, <2>1 DEF Marking, Unmarked
<1>18. \A j \in Jobs : On(disk', j) => On(mem, j)
  <2>1. ASSUME NEW j \in Jobs, t[j] # None, t[j].on
        PROVE  m[j] # None /\ m[j].on
    <3>1. s[j] # None /\ s[j].on
      BY <1>11, <2>1 DEF Upkeep
    <3>2. s0[j] # None /\ s0[j].on
      BY <1>8, <3>1 DEF PutOff
    <3>3. m[j] # None /\ m[j].on
      BY <1>6, <3>2 DEF Outcome
    <3> QED
      BY <3>3
  <2> QED
    BY <1>4, <1>10, <2>1 DEF On
<1>19. ASSUME NEW j \in Jobs \ behind, \A i \in DOMAIN deferred : deferred[i] # j
       PROVE  StaysDone(j) /\ SlotStays(j)
  <2>1. s[j] = s0[j]
    BY <1>8, <1>19 DEF PutOff
  <2>2. StaysDone(j)
    <3>1. s[j] # None => disk[j] # None /\ (s[j].on => disk[j].on)
      BY <1>1, <1>4, <1>6, <2>1, InMemoryFacts DEF Outcome
    <3>2. ASSUME s[j] # None, Done(j, disk[j]), s[j].status = "ok"
          PROVE  Done(j, s[j])
      BY <1>1, <1>4, <1>6, <2>1, <3>1, <3>2, InMemoryFacts DEF Outcome
    <3> QED
      BY <1>10, <1>11, <3>1, <3>2, UpkeepQuiet
  <2>3. ASSUME Unclaimed(j), disk'[j] # None
        PROVE  disk'[j].next = disk[j].next
    <3>1. s[j] = m[j]
      BY <1>6, <2>1, <2>3 DEF Unclaimed, Actors, Outcome
    <3>2. m[j] # None /\ m[j].on /\ m[j].next = disk[j].next /\ m[j].next # None
      BY <1>1, <1>4, <2>3, InMemoryFacts DEF Unclaimed, Past, SlotKept
    <3> QED
      BY <1>10, <1>11, <3>1, <3>2 DEF SlotKept
  <2> QED
    BY <2>2, <2>3 DEF SlotStays
<1>20. \A j \in Jobs \ behind : NotEnabled(j)
  BY <1>1, <1>18, InMemoryFacts DEF NotEnabled, Live, On
<1>21. \A j \in Jobs : /\ Trusted(j)
                      /\ \/ \E i \in DOMAIN deferred : deferred[i] = j
                         \/ StaysDone(j) /\ SlotStays(j)
  BY <1>18, <1>19, <1>20, Trusting
<1> QED
  BY <1>13, <1>15, <1>16, <1>21 DEF Stored

\* The last section of start recomputes every job.
LEMMA ArmStored ==
  ASSUME Control, Control', Stored, Arm
  PROVE  Stored' /\ \A j \in Jobs : Trusted(j) /\ StaysDone(j)
<1>1. /\ Runs("arm") /\ loaded /\ now' = now /\ now \in Nat
      /\ UNCHANGED <<request, todo, exec>>
      /\ Release(Loses(mem))
      /\ SavedIf(RecomputeAll(mem) # mem, RecomputeAll(mem))
  <2>1. Runs("arm")
    BY DEF Arm
  <2> QED
    BY <2>1, RunsLoaded DEF Arm, asked, Control, ControlTypes, Loaded
<1>2. PICK m \in Stores : m = mem /\ \A j \in Jobs : m[j] # None => Sane(j, m[j])
  BY DEF Stored, Sanity
<1>3. PICK t : t = RecomputeAll(m)
  OBVIOUS
<1>4. Upkeep(m, t)
  BY <1>1, <1>2, <1>3, RecomputeAllFacts
<1>5. todo' \cup {request'} \subseteq todo \cup {request, None}
  BY <1>1
<1>6. released \subseteq released'
  BY <1>1 DEF Release
<1>7. CASE t = m
  <2>1. UNCHANGED <<disk, mem, loaded, behind>>
    BY <1>1, <1>2, <1>3, <1>7 DEF SavedIf, InMemory, Unsaved, Control, ControlTypes
  <2> QED
    BY <1>1, <1>5, <1>6, <2>1, UntouchedStored DEF Trusted, NotEnabled
<1>8. CASE t # m
  <2>1. disk' = t /\ mem' = t
    BY <1>1, <1>2, <1>3, <1>8 DEF SavedIf, Saved, InMemory
  <2>2. disk' \in Stores /\ mem' \in Stores /\ Sanity' /\ InStep'
    BY <1>1, <1>4, <2>1, SavedFacts DEF Upkeep
  <2>3. Fresh'
    BY <1>1, <1>2, <1>4, <1>5, <2>1, FreshKept, Requesting DEF Upkeep
  <2>4. Marking'
    BY <1>1, <1>2, <1>4, <2>1, UpkeepMarkers DEF Stored, Marking, Unmarked, Release
  <2>6. \A j \in Jobs \ behind : NotEnabled(j) /\ StaysDone(j)
    BY <1>1, <1>2, <1>4, <2>1, UpkeepQuiet, InMemoryFacts
  <2>7. \A j \in Jobs : On(disk', j) => On(mem, j)
    BY <1>2, <1>4, <2>1 DEF On, Upkeep
  <2>8. \A j \in Jobs : Trusted(j) /\ StaysDone(j)
    BY <2>6, <2>7, Trusting
  <2> QED
    BY <2>2, <2>3, <2>4, <2>8 DEF Stored
<1> QED
  BY <1>7, <1>8

\* A run by hand looks at its job; repairs stay in memory.
LEMMA PreflightStored ==
  ASSUME Control, Control', Stored, Preflight
  PROVE  Stored' /\ \A j \in Jobs : NotEnabled(j) /\ StaysDone(j) /\ SlotStays(j)
<1>1. /\ Runs("preflight") /\ loaded /\ loaded' = TRUE /\ now' = now /\ now \in Nat
      /\ UNCHANGED <<disk, behind, request, todo, exec>>
      /\ Release(Loses(mem)) /\ mem' = MaintainAll(mem, FALSE)
  <2>1. Runs("preflight")
    BY DEF Preflight
  <2> QED
    BY <2>1, RunsLoaded DEF Preflight, Control, ControlTypes, Loaded, InMemory, Unsaved
<1>2. PICK m \in Stores : m = mem /\ \A j \in Jobs : m[j] # None => Sane(j, m[j])
  BY DEF Stored, Sanity
<1>3. PICK t : t = MaintainAll(m, FALSE)
  OBVIOUS
<1>4. Upkeep(m, t) /\ \A j \in Jobs : m[j] # None => SlotKept(m, t, j)
  <2>1. PICK expired \in BOOLEAN : expired = FALSE
    OBVIOUS
  <2>2. \A j \in Jobs : m[j] # None => Repairable(j, m[j], expired)
    BY <1>2, SaneRepairable DEF Stores
  <2> QED
    BY <1>1, <1>3, <2>1, <2>2, MaintainAllFacts
<1>5. mem' = t
  BY <1>1, <1>2, <1>3
<1>6. mem' \in Stores /\ Sanity'
  <2>1. now' = now /\ disk' = disk
    BY <1>1
  <2>2. ASSUME NEW j \in Jobs, disk'[j] # None
        PROVE  Sane(j, disk[j])'
    <3>1. Sane(j, disk[j])
      BY <2>1, <2>2 DEF Stored, Sanity
    <3> QED
      BY <2>1, <3>1 DEF Sane, Finished
  <2>3. ASSUME NEW j \in Jobs, mem'[j] # None
        PROVE  Sane(j, mem[j])'
    <3>1. Sane(j, t[j])
      BY <1>4, <1>5, <2>3 DEF Upkeep
    <3> QED
      BY <1>5, <2>1, <3>1 DEF Sane, Finished
  <2> QED
    BY <1>4, <1>5, <2>2, <2>3 DEF Sanity, Upkeep
<1>7. Fresh'
  <2>1. todo' \cup {request'} \subseteq todo \cup {request, None}
    BY <1>1
  <2> QED
    BY <1>1, <1>2, <1>4, <1>5, <2>1, FreshKept, Requesting DEF Upkeep
<1>8. InStep'
  <2>1. ASSUME NEW j \in Jobs \ behind
        PROVE  /\ t[j] = None <=> disk[j] = None
               /\ disk[j] # None => Same(j, disk[j], t[j])
    <3>1. /\ t[j] = None <=> disk[j] = None
          /\ disk[j] # None => m[j] # None /\ Same(j, disk[j], m[j])
      BY <1>1, <1>2, <1>4 DEF Upkeep, Stored, InStep
    <3>2. ASSUME disk[j] # None
          PROVE  Same(j, disk[j], t[j])
      <4>1. /\ m[j] # None /\ Same(j, disk[j], m[j])
            /\ t[j].on = m[j].on /\ t[j].last = m[j].last /\ t[j].status = m[j].status
            /\ Done(j, m[j]) => Done(j, t[j])
            /\ Sane(j, t[j]) /\ Sane(j, m[j]) /\ SlotKept(m, t, j)
        BY <1>2, <1>4, <3>1, <3>2 DEF Upkeep
      <4>2. CASE t[j].next = m[j].next
        BY <4>1, <4>2 DEF Same
      <4>3. CASE t[j].next # m[j].next
        <5>1. m[j].on /\ m[j].next = None /\ t[j].next # None
          BY <4>1, <4>3 DEF Sane, SlotKept
        <5>2. ~Finished(j, m[j])
          BY <4>1, <5>1 DEF Done, Finished
        <5>3. disk[j].next = None /\ disk[j].on /\ ~Finished(j, disk[j])
          BY <4>1, <5>1, <5>2 DEF Same, Finished
        <5> QED
          BY <4>1, <5>3 DEF Same
      <4> QED
        BY <4>2, <4>3
    <3> QED
      BY <3>1, <3>2
  <2> QED
    BY <1>1, <1>5, <2>1 DEF InStep, Same, Finished
<1>9. Marking'
  BY <1>1, <1>2, <1>4, <1>5, UpkeepMarkers DEF Stored, Marking, Unmarked, Release
<1>11. \A j \in Jobs : NotEnabled(j) /\ StaysDone(j) /\ SlotStays(j)
  BY <1>1 DEF NotEnabled, StaysDone, SlotStays, Live, On, Succeeded
<1> QED
  BY <1>1, <1>6, <1>7, <1>8, <1>9, <1>11 DEF Stored

\* A run by hand marks its job.
LEMMA ReserveStored ==
  ASSUME Control, Control', Stored, Reserve
  PROVE  Stored' /\ \A j \in Jobs : Trusted(j) /\ StaysDone(j) /\ SlotStays(j)
<1>1. /\ Runs("reserve") /\ loaded /\ now' = now /\ now \in Nat
      /\ UNCHANGED <<request, todo, released>>
  <2>1. Runs("reserve")
    BY DEF Reserve
  <2> QED
    BY <2>1, RunsLoaded DEF Reserve, Control, ControlTypes
<1>2. manual.at = "reserve" /\ manual.job \in Jobs /\ manual.since \in Nat
  <2>1. "reserve" \in Waiting
    BY <1>1, Running DEF Control, ControlTypes, Queued
  <2> QED
    BY <2>1 DEF Control, Queued, Awaited, ByHand
<1>3. \A j \in Jobs : exec["manual"][j] = None
  BY <1>2 DEF Control, Stages
<1>4. PICK s \in Stores : s = mem /\ \A j \in Jobs : s[j] # None => Sane(j, s[j])
  BY DEF Stored, Sanity
<1>5. todo' \cup {request'} \subseteq todo \cup {request, None}
  BY <1>1
<1>6. PICK job \in Jobs, since \in Nat : job = manual.job /\ since = manual.since
  BY <1>2
<1>7. CASE ~(s[job] # None /\ s[job].running = None)
  <2>1. UNCHANGED <<disk, mem, loaded, behind, exec>>
    BY <1>4, <1>6, <1>7 DEF Reserve, store
  <2> QED
    BY <1>1, <1>5, <2>1, UntouchedStored DEF Trusted, NotEnabled
<1>8. CASE s[job] # None /\ s[job].running = None
  <2>1. /\ Saved([s EXCEPT ![job].running = since])
        /\ exec' = [exec EXCEPT !["manual"][job] =
                      [state |-> "running", from |-> since, to |-> None]]
    BY <1>4, <1>6, <1>8 DEF Reserve
  <2>2. PICK t : t = [s EXCEPT ![job].running = since]
    OBVIOUS
  <2>3. disk' = t /\ mem' = t
    BY <2>1, <2>2 DEF Saved, InMemory
  <2>4. PICK js : js = {job}
    OBVIOUS
  <2>5. WithMarkers(s, js, t)
    <3>1. js \subseteq {j \in Jobs : s[j] # None}
      BY <1>6, <1>8, <2>4
    <3>2. t = MarkedAt(s, js, since)
      BY <2>2, <2>4, <1>6 DEF MarkedAt, Stores
    <3> QED
      BY <1>4, <1>6, <3>1, <3>2, MarkedFacts
  <2>6. /\ \A b \in Actors \ {"manual"} : exec'[b] = exec[b]
        /\ exec'["manual"][job] # None
        /\ \A j \in Jobs \ {job} : exec'["manual"][j] = None
    <3>1. PICK new \in Executions : new = [state |-> "running", from |-> since, to |-> None]
      BY <1>6 DEF Executions, Times
    <3>2. exec' = [exec EXCEPT !["manual"][job] = new] /\ new # None
      BY <2>1, <3>1, NoneAssumption
    <3> QED
      BY <1>3, <1>6, <3>2 DEF Control, ControlTypes, Actors
  <2>7. disk' \in Stores /\ mem' \in Stores /\ Sanity' /\ InStep'
    BY <1>1, <2>3, <2>5, SavedFacts DEF WithMarkers
  <2>8. Unmarked(mem, job)
    BY <1>4, <1>8 DEF Unmarked
  <2>9. Fresh'
    <3>1. \A j \in Jobs : t[j] # None => mem[j] # None
      BY <1>4, <2>5 DEF WithMarkers
    <3>2. \A a \in Actors, j \in Jobs :
            exec'[a][j] # None => exec[a][j] # None \/ disk[j] # None \/ mem[j] # None
      BY <2>6, <2>8 DEF Unmarked
    <3> QED
      BY <1>5, <2>3, <3>1, <3>2, FreshKept, Requesting
  <2>10. Marking'
    BY <1>1, <1>3, <1>4, <1>6, <2>3, <2>4, <2>5, <2>6, <2>8
    DEF Stored, Marking, Unmarked, WithMarkers
  <2>12. \A j \in Jobs \ behind : NotEnabled(j)
    BY <1>1, <1>4, <2>3, <2>5, InMemoryFacts DEF WithMarkers, NotEnabled, Live, On
  <2>13. \A j \in Jobs \ behind : StaysDone(j)
    <3>1. ASSUME NEW j \in Jobs \ behind, Succeeded(j), disk[j].next = None
          PROVE  t[j].next = None
      <4>1. Done(j, disk[j]) /\ disk[j] # None
        BY <3>1, SucceededDone DEF Succeeded
      <4>2. Done(j, s[j]) /\ s[j] # None
        BY <1>1, <1>4, <4>1, InMemoryFacts
      <4> QED
        BY <2>5, <4>2 DEF WithMarkers, Done
    <3> QED
      BY <2>3, <3>1 DEF StaysDone
  <2>14. \A j \in Jobs \ behind : SlotStays(j)
    BY <1>1, <1>4, <2>3, <2>5, InMemoryFacts DEF SlotStays, Unclaimed, Past, SlotKept, WithMarkers
  <2>15. \A j \in Jobs : On(disk', j) => On(mem, j)
    BY <1>4, <2>3, <2>5 DEF On, WithMarkers
  <2>16. \A j \in Jobs : Trusted(j) /\ StaysDone(j) /\ SlotStays(j)
    BY <2>12, <2>13, <2>14, <2>15, Trusting
  <2> QED
    BY <2>7, <2>9, <2>10, <2>16 DEF Stored
<1> QED
  BY <1>7, <1>8

\* The process dies: what is on disk stays, what is in memory is lost.
LEMMA CrashStored ==
  ASSUME Control, Control', Stored, Crash
  PROVE  Stored' /\ \A j \in Jobs : NotEnabled(j) /\ StaysDone(j) /\ SlotStays(j)
<1>1. /\ mem' = [j \in Jobs |-> None] /\ loaded' = FALSE /\ request' = None
      /\ exec' = [a \in Actors |-> [j \in Jobs |-> None]]
      /\ now' = now /\ disk' = disk /\ todo' = todo
  BY DEF Crash, Idle
<1>2. /\ \A a \in Actors, j \in Jobs : exec'[a][j] = None
      /\ \A j \in Jobs : mem'[j] = None
  BY <1>1
<1>3. mem' \in Stores
  BY <1>1 DEF Stores
<1>4. Sanity'
  <2>1. ASSUME NEW j \in Jobs, disk'[j] # None
        PROVE  Sane(j, disk[j])'
    <3>1. Sane(j, disk[j])
      BY <1>1, <2>1 DEF Stored, Sanity
    <3> QED
      BY <1>1, <3>1 DEF Sane, Finished
  <2> QED
    BY <1>2, <2>1 DEF Sanity
<1>5. Fresh'
  <2>1. todo' \cup {request'} \subseteq todo \cup {request, None}
    BY <1>1
  <2> QED
    BY <1>1, <1>2, <2>1, FreshKept, Requesting
<1>6. InStep' /\ Marking'
  BY <1>1, <1>2 DEF InStep, Marking
<1>7. \A j \in Jobs : NotEnabled(j) /\ StaysDone(j) /\ SlotStays(j)
  BY <1>1 DEF NotEnabled, StaysDone, SlotStays, Live, On, Succeeded
<1> QED
  BY <1>1, <1>3, <1>4, <1>5, <1>6, <1>7 DEF Stored

\* The store of the process before
LEMMA InitStored ==
  ASSUME Init
  PROVE  Stored
<1>1. /\ now = 1 /\ mem = [j \in Jobs |-> None] /\ loaded = FALSE
      /\ exec = [a \in Actors |-> [j \in Jobs |-> None]]
      /\ request = None /\ todo = Requests
  BY DEF Init, Idle
<1>2. PICK running \in SUBSET Initial :
        disk = [j \in Jobs |-> IF j \notin Initial THEN None
                               ELSE [New(j, 0) EXCEPT !.running = IF j \in running THEN 0 ELSE None]]
  BY DEF Init
<1>3. \A a \in Actors, j \in Jobs : exec[a][j] = None /\ mem[j] = None
  BY <1>1
<1>4. \A j \in Jobs \ Initial : disk[j] = None
  BY <1>2
<1>5. ASSUME NEW j \in Initial
      PROVE  disk[j] \in Records /\ Sane(j, disk[j])
  <2>1. PICK r \in Records : /\ r = New(j, 0) /\ r.last = None /\ r.status = None
                             /\ r.on = TRUE
    <3>1. j \in Jobs /\ now \in Nat /\ 0 \in Nat
      BY <1>1, ConstantsAssumption
    <3>2. New(j, 0) \in Records
      BY <3>1, ConstantsAssumption DEF New, Records, Times
    <3>3. /\ New(j, 0).last = None /\ New(j, 0).status = None
          /\ New(j, 0).on = TRUE
      BY DEF New
    <3> QED
      BY <3>2, <3>3
  <2>2. PICK u \in Times : u = IF j \in running THEN 0 ELSE None
    BY DEF Times
  <2>3. disk[j] = [r EXCEPT !.running = u]
    BY <1>2, <1>5, <2>1, <2>2, ConstantsAssumption
  <2>4. PICK q \in Records : q = [r EXCEPT !.running = u]
    BY DEF Records
  <2>5. q.last = None /\ q.status = None /\ q.on = TRUE
    BY <2>1, <2>4 DEF Records
  <2> QED
    BY <2>3, <2>4, <2>5 DEF Sane
<1>6. disk \in Stores /\ mem \in Stores
  BY <1>1, <1>2, <1>4, <1>5 DEF Stores
<1>7. Sanity
  <2>1. ASSUME NEW j \in Jobs, disk[j] # None
        PROVE  Sane(j, disk[j])
    BY <1>4, <1>5, <2>1
  <2> QED
    BY <1>3, <2>1, ConstantsAssumption DEF Sanity, Actors
<1>8. Fresh
  BY <1>1, <1>3, <1>4, FreshIdsAssumption, ConstantsAssumption DEF Fresh
<1>9. InStep /\ Marking
  BY <1>1, <1>3 DEF InStep, Marking
<1> QED
  BY <1>6, <1>7, <1>8, <1>9 DEF Stored

\* A run by hand writes its outcome over what it reads anew.
LEMMA FinishStored ==
  ASSUME Control, Control', Stored, Finish
  PROVE  /\ Stored'
         /\ \A j \in Jobs : /\ \/ NotEnabled(j)
                               \/ j = manual.job /\ j \in behind /\ On(mem, j)
                            /\ StaysDone(j) /\ SlotStays(j)
<1>1. /\ Runs("finish") /\ loaded /\ now' = now /\ now \in Nat
      /\ UNCHANGED <<request, todo>>
      /\ exec' = [exec EXCEPT !["manual"] = Idle("manual")]
  <2>1. Runs("finish")
    BY DEF Finish
  <2> QED
    BY <2>1, RunsLoaded DEF Finish, Control, ControlTypes
<1>2. manual.at = "finish"
  <2>1. "finish" \in Waiting
    BY <1>1, Running DEF Control, ControlTypes, Queued
  <2> QED
    BY <2>1 DEF Control, Queued, Awaited
<1>3. PICK job \in Jobs : /\ job = manual.job /\ exec["manual"][job] # None
                          /\ Ended("manual", job)
                          /\ \A j \in Jobs \ {job} : exec["manual"][j] = None
  BY <1>2 DEF Control, ByHand, Stages
<1>4. PICK d \in Stores : d = disk /\ \A j \in Jobs : d[j] # None => Sane(j, d[j])
  BY DEF Stored, Sanity
<1>5. /\ \A b \in Actors \ {"manual"} : exec'[b] = exec[b]
      /\ \A j \in Jobs : exec'["manual"][j] = None
  BY <1>1, Idling DEF Control, ControlTypes, Actors
<1>6. todo' \cup {request'} \subseteq todo \cup {request, None}
  BY <1>1
<1>7. \A a \in Actors, j \in Jobs : exec'[a][j] # None => exec[a][j] # None
  BY <1>5
<1>8. CASE mem[job] = None
  <2>1. UNCHANGED <<disk, mem, loaded, behind>> /\ Forget("manual", {})
    BY <1>1, <1>3, <1>8 DEF Finish, Loaded, InMemory, Unsaved, Control, ControlTypes
  <2>3. Sanity'
    <3>1. ASSUME NEW j \in Jobs
          PROVE  /\ disk'[j] # None => Sane(j, disk[j])'
                 /\ mem'[j] # None => Sane(j, mem[j])'
      BY <1>1, <2>1 DEF Stored, Sanity, Sane, Finished
    <3> QED
      BY <3>1 DEF Sanity
  <2>4. Fresh'
    BY <1>6, <1>7, <2>1, FreshKept, Requesting
  <2>5. InStep'
    BY <2>1 DEF Stored, InStep, Same, Finished
  <2>6. Marking'
    BY <1>5, <2>1 DEF Stored, Marking, Unmarked, Forget
  <2>8. \A j \in Jobs : NotEnabled(j) /\ StaysDone(j) /\ SlotStays(j)
    BY <2>1 DEF NotEnabled, StaysDone, SlotStays, Live, On, Succeeded
  <2> QED
    BY <2>1, <2>3, <2>4, <2>5, <2>6, <2>8 DEF Stored
<1>9. CASE mem[job] # None
  <2>1. PICK r \in Records : /\ r = mem[job]
                             /\ job \notin behind => d[job] # None /\ r.on = d[job].on
    BY <1>1, <1>4, <1>9, InMemoryFacts DEF Stored, Stores
  <2>2. PICK e \in Executions : e = exec["manual"][job]
    BY <1>3 DEF Control, ControlTypes, Actors
  <2>3. e.state \in Outcomes /\ e.to \in Nat /\ e.from <= e.to /\ e.to <= now
    BY <1>3, <2>2 DEF Control, Clocked, Ended, Actors
  <2>4. PICK forced \in BOOLEAN : forced = manual.forced
    BY DEF Control, ControlTypes
  <2>5. PICK q, q0 : q0 = Applied(job, r, e, forced) /\ q = Merged(d[job], q0)
    OBVIOUS
  <2>6. q # None => /\ d[job] # None
                    /\ q \in Records /\ q.running = None /\ q.status = e.state
                    /\ q.on => r.on
                    /\ Repairable(job, q, TRUE)
                    /\ OneShot(job) /\ e.state = "ok" => q.next = None /\ ~q.on
    <3>1. q0 # None => Written(job, r, e, forced, q0)
      BY <1>1, <2>3, <2>5, AppliedFacts
    <3>2. q # None => q = q0 /\ d[job] # None
      BY <2>5 DEF Merged
    <3> QED
      BY <3>1, <3>2 DEF Written
  <2>7. PICK s : s = [d EXCEPT ![job] = q]
    OBVIOUS
  <2>8. /\ s \in Stores /\ s[job] = q
        /\ \A j \in Jobs \ {job} : s[j] = d[j]
    BY <2>6, <2>7 DEF Stores
  <2>9. PICK t : t = MaintainAll(s, TRUE)
    OBVIOUS
  <2>10. disk' = t /\ mem' = t /\ Forget("manual", Loses(s))
    BY <1>1, <1>3, <1>4, <1>9, <2>1, <2>2, <2>4, <2>5, <2>7, <2>9
    DEF Finish, Loaded, Anew, Saved, InMemory
  <2>11. Upkeep(s, t) /\ \A j \in Jobs : s[j] # None /\ Sane(j, s[j]) => SlotKept(s, t, j)
    <3>1. PICK expired \in BOOLEAN : expired = TRUE
      OBVIOUS
    <3>2. \A j \in Jobs : s[j] # None => Repairable(j, s[j], expired)
      <4>1. ASSUME NEW j \in Jobs \ {job}, s[j] # None
            PROVE  Repairable(j, s[j], expired)
        BY <1>4, <2>8, <4>1, SaneRepairable DEF Stores
      <4> QED
        BY <2>6, <2>8, <3>1, <4>1
    <3> QED
      BY <1>1, <2>8, <2>9, <3>1, <3>2, MaintainAllFacts
  <2>12. disk' \in Stores /\ mem' \in Stores /\ Sanity' /\ InStep'
    BY <1>1, <2>10, <2>11, SavedFacts DEF Upkeep
  <2>13. Fresh'
    <3>1. \A j \in Jobs : t[j] # None => disk[j] # None
      BY <1>4, <2>6, <2>8, <2>11 DEF Upkeep
    <3> QED
      BY <1>6, <1>7, <2>10, <3>1, FreshKept, Requesting
  <2>14. Marking'
    <3>1. ASSUME NEW j \in Jobs, NEW a \in Actors, exec'[a][j] # None, j \notin released'
          PROVE  /\ ~Unmarked(t, j)
                 /\ \A b \in Actors : exec'[b][j] # None => b = a
      <4>1. a # "manual" /\ exec[a][j] # None
        BY <1>5, <3>1
      <4>2. j \notin released /\ j \notin Loses(s)
        BY <2>10, <3>1, <4>1 DEF Forget
      <4>3. ~Unmarked(d, j) /\ \A b \in Actors : exec[b][j] # None => b = a
        BY <1>4, <4>1, <4>2 DEF Stored, Marking
      <4>4. j # job /\ s[j] = d[j]
        BY <1>3, <2>8, <4>1, <4>3 DEF Actors
      <4>5. ~Unmarked(t, j)
        BY <2>11, <4>2, <4>3, <4>4, UpkeepMarkers DEF Unmarked
      <4> QED
        BY <1>7, <4>3, <4>5
    <3> QED
      BY <2>10, <3>1 DEF Marking, Unmarked
  <2>16. ASSUME NEW j \in Jobs, j # job \/ job \notin behind
         PROVE  NotEnabled(j) /\ StaysDone(j)
    <3>1. s[j] # None => disk[j] # None /\ (s[j].on => disk[j].on)
      BY <1>4, <2>1, <2>6, <2>8, <2>16
    <3>2. s[j] # None /\ Done(j, disk[j]) /\ s[j].status = "ok" => Done(j, s[j])
      BY <1>4, <2>6, <2>8 DEF Done
    <3> QED
      BY <2>10, <2>11, <3>1, <3>2, UpkeepQuiet
  <2>17. \A j \in Jobs : SlotStays(j)
    <3>1. ASSUME NEW j \in Jobs, Unclaimed(j), disk'[j] # None
          PROVE  disk'[j].next = disk[j].next
      <4>1. j # job /\ s[j] = d[j]
        BY <1>3, <2>8, <3>1 DEF Unclaimed, Actors
      <4> QED
        BY <1>4, <2>10, <2>11, <3>1, <4>1 DEF Unclaimed, Past, SlotKept
    <3> QED
      BY <3>1 DEF SlotStays
  <2>18. ASSUME job \in behind
         PROVE  StaysDone(job) /\ (NotEnabled(job) \/ On(mem, job))
    <3>1. On(t, job) => On(mem, job)
      BY <2>1, <2>6, <2>8, <2>11, <1>9 DEF On, Upkeep
    <3> QED
      BY <2>10, <2>18, <3>1 DEF StaysDone, InTouch, NotEnabled, Live
  <2> QED
    BY <1>3, <2>12, <2>13, <2>14, <2>16, <2>17, <2>18 DEF Stored
<1> QED
  BY <1>8, <1>9

\* What serving the request does to job j
Served(j) ==
  /\ Trusted(j) \/ (request.kind \in {"add", "enable"} /\ request.job = j)
  /\ StaysDone(j)
  /\ request.kind = "list" => SlotStays(j)

\* A request that is served: what all kinds have in common
Serving ==
  /\ loaded /\ now' = now /\ now \in Nat /\ request' = None
  /\ UNCHANGED <<todo, exec>>
  /\ request \in Requests /\ request.job \in Jobs /\ request \notin todo

\* Every request is served by a loaded service, at one moment.
LEMMA ServeServing ==
  ASSUME Control, Serve
  PROVE  Serving
<1>1. Runs("request") /\ now' = now /\ request' = None /\ UNCHANGED <<todo, exec>>
  BY DEF Serve
<1>2. loaded
  BY <1>1, RunsLoaded
<1>3. request # None
  <2>1. "request" \in Waiting
    BY <1>1, Running DEF Control, ControlTypes, Queued
  <2> QED
    BY <2>1 DEF Control, Queued, Awaited
<1>4. request \in Requests /\ now \in Nat /\ request \notin todo
  BY <1>3 DEF Control, ControlTypes
<1> QED
  BY <1>1, <1>2, <1>4, ConstantsAssumption DEF Serving

\* A request that changes or removes one job, the others as they are in memory
LEMMA EditStored ==
  ASSUME Control, Stored, Serving, released \subseteq released',
         NEW job \in Jobs, NEW q, q \in Records \cup {None},
         q # None => /\ mem[job] # None /\ Sane(job, q)
                     /\ q.running = None /\ mem[job].running # None =>
                          \A a \in Actors : exec[a][job] # None => job \in released'
                     /\ q.running # None => mem[job].running # None,
         NEW s, s = [mem EXCEPT ![job] = q], disk' = s, mem' = s
  PROVE  /\ Stored'
         /\ \A j \in Jobs \ {job} : Trusted(j) /\ StaysDone(j)
<1>1. PICK m \in Stores : /\ m = mem
                          /\ \A j \in Jobs : m[j] # None => Sane(j, m[j])
  BY DEF Stored, Sanity
<1>2. /\ s \in Stores /\ s[job] = q
      /\ \A j \in Jobs \ {job} : s[j] = m[j]
  BY <1>1 DEF Stores
<1>3. disk' \in Stores /\ mem' \in Stores /\ Sanity' /\ InStep'
  <2>1. \A j \in Jobs : s[j] # None => Sane(j, s[j])
    BY <1>1, <1>2
  <2> QED
    BY <1>2, <2>1, SavedFacts DEF Serving
<1>4. Fresh'
  <2>1. todo' \cup {request'} \subseteq todo \cup {request, None}
    BY DEF Serving
  <2>2. \A j \in Jobs : s[j] # None => mem[j] # None
    BY <1>1, <1>2
  <2> QED
    BY <2>1, <2>2, FreshKept, Requesting DEF Serving
<1>5. Marking'
  <2>1. ASSUME NEW j \in Jobs, NEW a \in Actors, exec[a][j] # None, j \notin released'
        PROVE  ~Unmarked(s, j) /\ \A b \in Actors : exec[b][j] # None => b = a
    <3>1. /\ ~Unmarked(mem, j)
          /\ \A b \in Actors : exec[b][j] # None => b = a
      BY <2>1 DEF Stored, Marking
    <3>2. ~Unmarked(s, j)
      BY <1>1, <1>2, <2>1, <3>1 DEF Unmarked
    <3> QED
      BY <3>1, <3>2
  <2> QED
    BY <2>1 DEF Marking, Unmarked, Serving
<1>7. ASSUME NEW j \in Jobs \ {job}
      PROVE  Trusted(j) /\ StaysDone(j)
  <2>1. s[j] = mem[j]
    BY <1>1, <1>2
  <2>2. Trusted(j)
    BY <2>1, InMemoryFacts DEF Trusted, Live, On, Serving
  <2>3. ASSUME j \notin behind, Succeeded(j), disk[j].next = None
        PROVE  disk'[j].next = None
    <3>1. Done(j, disk[j]) /\ disk[j] # None
      BY <2>3, SucceededDone DEF Succeeded
    <3> QED
      BY <2>1, <2>3, <3>1, InMemoryFacts DEF Done, Serving
  <2> QED
    BY <2>2, <2>3 DEF StaysDone, InTouch
<1> QED
  BY <1>3, <1>4, <1>5, <1>7 DEF Stored

\* update: a job is enabled or disabled
LEMMA UpdateStored ==
  ASSUME Control, Stored, Serving, NEW job \in Jobs, NEW on \in BOOLEAN, Update(job, on)
  PROVE  Stored' /\ \A j \in Jobs : (Trusted(j) \/ (on /\ j = job)) /\ StaysDone(j)
<1>1. CASE mem[job] = None
  <2>1. UNCHANGED <<disk, mem, loaded, behind, released>>
    BY <1>1 DEF Update, Loaded, InMemory, Unsaved, Serving, Control, ControlTypes
  <2>2. todo' \cup {request'} \subseteq todo \cup {request, None}
    BY DEF Serving
  <2> QED
    BY <2>1, <2>2, UntouchedStored DEF Serving, Trusted, NotEnabled
<1>2. CASE mem[job] # None
  <2>1. PICK r \in Records : /\ r = mem[job] /\ Sane(job, r)
                             /\ job \notin behind /\ Finished(job, disk[job]) =>
                                  disk[job] = None \/ Finished(job, r)
    BY <1>2, InMemoryFacts DEF Stored, Stores, Sanity, Serving
  <2>2. PICK q \in Records : /\ q = Enabled(job, r, on)
                             /\ Sane(job, q)
                             /\ q.on = on
                             /\ q.running = IF on THEN r.running ELSE None
                             /\ Finished(job, r) => q.next = None
    BY <2>1, EnabledFacts DEF Serving
  <2>3. PICK s : s = [mem EXCEPT ![job] = q]
    OBVIOUS
  <2>4. /\ disk' = s /\ mem' = s
        /\ IF on THEN released' = released ELSE Release({job})
    BY <1>2, <2>1, <2>2, <2>3 DEF Update, Loaded, Saved, InMemory, Serving
  <2>5. released \subseteq released'
    BY <2>4 DEF Release
  <2>6. q.running = None /\ mem[job].running # None =>
          \A a \in Actors : exec[a][job] # None => job \in released'
    BY <2>1, <2>2, <2>4 DEF Release
  <2>7. q # None /\ s[job] = q
    BY <2>3, NoneAssumption DEF Stored, Stores
  <2>8. q.running # None => mem[job].running # None
    BY <2>1, <2>2
  <2>9. /\ Stored'
        /\ \A j \in Jobs \ {job} : Trusted(j) /\ StaysDone(j)
    BY <1>2, <2>2, <2>3, <2>4, <2>5, <2>6, <2>8, EditStored
  <2>10. Trusted(job) \/ on
    BY <2>2, <2>4, <2>7 DEF Trusted, Live, On
  <2>11. ASSUME job \notin behind, Succeeded(job), disk[job].next = None
         PROVE  disk'[job].next = None
    <3>1. Finished(job, disk[job]) /\ disk[job] # None
      BY <2>11, SucceededDone DEF Succeeded
    <3> QED
      BY <2>1, <2>2, <2>4, <2>7, <2>11, <3>1
  <2>12. StaysDone(job)
    BY <2>11 DEF StaysDone, InTouch
  <2> QED
    BY <2>9, <2>10, <2>12
<1> QED
  BY <1>1, <1>2

\* remove
LEMMA RemoveStored ==
  ASSUME Control, Stored, Serving, NEW job \in Jobs, Remove(job)
  PROVE  Stored' /\ \A j \in Jobs : Trusted(j) /\ StaysDone(j)
<1>1. PICK q : q = None
  OBVIOUS
<1>2. PICK s : s = [mem EXCEPT ![job] = q]
  OBVIOUS
<1>3. disk' = s /\ mem' = s /\ released' = released
  BY <1>1, <1>2 DEF Remove, LoadedAnew, Saved, InMemory, Serving
<1>4. /\ Stored'
      /\ \A j \in Jobs \ {job} : Trusted(j) /\ StaysDone(j)
  BY <1>1, <1>2, <1>3, EditStored
<1>5. disk'[job] = None
  BY <1>1, <1>2, <1>3 DEF Stored, Stores
<1>6. Trusted(job) /\ StaysDone(job)
  BY <1>5 DEF Trusted, Live, On, StaysDone, Succeeded
<1> QED
  BY <1>4, <1>6

\* list: what has to be repaired is
LEMMA ListStored ==
  ASSUME Control, Stored, Serving, List
  PROVE  Stored' /\ \A j \in Jobs : Trusted(j) /\ StaysDone(j) /\ SlotStays(j)
<1>1. /\ loaded /\ now' = now /\ now \in Nat /\ UNCHANGED <<todo, exec>> /\ request' = None
      /\ Release(Loses(mem))
      /\ SavedIf(MaintainAll(mem, FALSE) # mem, MaintainAll(mem, FALSE))
  BY DEF List, Serving, Loaded
<1>2. PICK m \in Stores : m = mem /\ \A j \in Jobs : m[j] # None => Sane(j, m[j])
  BY DEF Stored, Sanity
<1>3. PICK t : t = MaintainAll(m, FALSE)
  OBVIOUS
<1>4. Upkeep(m, t) /\ \A j \in Jobs : m[j] # None => SlotKept(m, t, j)
  <2>1. PICK expired \in BOOLEAN : expired = FALSE
    OBVIOUS
  <2>2. \A j \in Jobs : m[j] # None => Repairable(j, m[j], expired)
    BY <1>2, SaneRepairable DEF Stores
  <2> QED
    BY <1>1, <1>3, <2>1, <2>2, MaintainAllFacts
<1>5. todo' \cup {request'} \subseteq todo \cup {request, None}
  BY <1>1
<1>6. released \subseteq released'
  BY <1>1 DEF Release
<1>7. CASE t = m
  <2>1. UNCHANGED <<disk, mem, loaded, behind>>
    BY <1>1, <1>2, <1>3, <1>7 DEF SavedIf, InMemory, Unsaved, Control, ControlTypes
  <2> QED
    BY <1>1, <1>5, <1>6, <2>1, UntouchedStored DEF Trusted, NotEnabled
<1>8. CASE t # m
  <2>1. disk' = t /\ mem' = t
    BY <1>1, <1>2, <1>3, <1>8 DEF SavedIf, Saved, InMemory
  <2>2. disk' \in Stores /\ mem' \in Stores /\ Sanity' /\ InStep'
    BY <1>1, <1>4, <2>1, SavedFacts DEF Upkeep
  <2>3. Fresh'
    BY <1>1, <1>2, <1>4, <1>5, <2>1, FreshKept, Requesting DEF Upkeep
  <2>4. Marking'
    BY <1>1, <1>2, <1>4, <2>1, UpkeepMarkers DEF Stored, Marking, Unmarked, Release
  <2>6. \A j \in Jobs \ behind : NotEnabled(j) /\ StaysDone(j)
    BY <1>1, <1>2, <1>4, <2>1, UpkeepQuiet, InMemoryFacts
  <2>7. ASSUME NEW j \in Jobs \ behind, Unclaimed(j), disk'[j] # None
        PROVE  disk'[j].next = disk[j].next
    <3>1. disk[j] # None /\ disk[j].on /\ disk[j].next # None
      BY <2>7 DEF Unclaimed, Past
    <3>2. m[j] # None /\ m[j].on = disk[j].on /\ m[j].next = disk[j].next
      BY <1>1, <1>2, <3>1, InMemoryFacts DEF SlotKept
    <3> QED
      BY <1>4, <2>1, <3>1, <3>2 DEF SlotKept
  <2>8. \A j \in Jobs : On(disk', j) => On(mem, j)
    BY <1>2, <1>4, <2>1 DEF On, Upkeep
  <2>9. \A j \in Jobs : Trusted(j) /\ StaysDone(j) /\ SlotStays(j)
    BY <2>6, <2>7, <2>8, Trusting DEF SlotStays
  <2> QED
    BY <2>2, <2>3, <2>4, <2>9 DEF Stored
<1> QED
  BY <1>7, <1>8

\* add: nothing was known of the job
LEMMA AddStored ==
  ASSUME Control, Stored, Serving, request.kind = "add", Add(request.job)
  PROVE  Stored' /\ \A j \in Jobs : (Trusted(j) \/ j = request.job) /\ StaysDone(j)
<1>1. PICK job \in Jobs : job = request.job
  BY DEF Serving
<1>2. disk[job] = None /\ mem[job] = None /\ \A a \in Actors : exec[a][job] = None
  <2>1. request # None
    BY ConstantsAssumption DEF Serving
  <2> QED
    BY <1>1, <2>1 DEF Stored, Fresh
<1>3. PICK m \in Stores : m = mem /\ \A j \in Jobs : m[j] # None => Sane(j, m[j])
  BY DEF Stored, Sanity
<1>4. PICK n \in Records : n = New(job, now) /\ n.running = None /\ Sane(job, n)
  BY NewFacts DEF Serving
<1>5. PICK s : s = [m EXCEPT ![job] = n]
  OBVIOUS
<1>6. /\ s \in Stores /\ s[job] = n
      /\ \A j \in Jobs \ {job} : s[j] = m[j]
  BY <1>5 DEF Stores
<1>7. \A j \in Jobs : s[j] # None => Sane(j, s[j])
  BY <1>3, <1>4, <1>6
<1>8. PICK t : t = RecomputeAll(s)
  OBVIOUS
<1>9. disk' = t /\ mem' = t /\ Release(Loses(s))
  BY <1>1, <1>2, <1>3, <1>4, <1>5, <1>8 DEF Add, LoadedAnew, Saved, InMemory, Serving
<1>10. Upkeep(s, t)
  BY <1>6, <1>7, <1>8, RecomputeAllFacts DEF Serving
<1>11. disk' \in Stores /\ mem' \in Stores /\ Sanity' /\ InStep'
  BY <1>9, <1>10, SavedFacts DEF Upkeep, Serving
<1>12. Fresh'
  <2>1. ASSUME NEW p \in todo', p.kind = "add"
        PROVE  /\ disk'[p.job] = None /\ mem'[p.job] = None
               /\ \A a \in Actors : exec'[a][p.job] = None
    <3>1. p \in todo /\ p \in Requests /\ p # request
      BY <2>1 DEF Serving, Control, ControlTypes
    <3>2. p \in [kind : Kinds, job : Jobs] /\ request \in [kind : Kinds, job : Jobs]
      BY <3>1, ConstantsAssumption DEF Serving
    <3>3. p.job \in Jobs \ {job}
      BY <1>1, <2>1, <3>1, <3>2
    <3>4. p # None
      BY <3>1, ConstantsAssumption
    <3>5. mem[p.job] = None /\ \A a \in Actors : exec[a][p.job] = None
      BY <2>1, <3>1, <3>4 DEF Stored, Fresh
    <3>6. t[p.job] = None
      BY <1>3, <1>6, <1>10, <3>3, <3>5 DEF Upkeep
    <3> QED
      BY <1>9, <3>5, <3>6 DEF Serving
  <2> QED
    BY <2>1 DEF Fresh, Serving
<1>13. Marking'
  <2>1. ASSUME NEW j \in Jobs, NEW a \in Actors, exec[a][j] # None, j \notin released'
        PROVE  ~Unmarked(t, j) /\ \A b \in Actors : exec[b][j] # None => b = a
    <3>1. j # job /\ j \notin released /\ j \notin Loses(s)
      BY <1>2, <1>9, <2>1 DEF Release
    <3>2. ~Unmarked(mem, j) /\ \A b \in Actors : exec[b][j] # None => b = a
      BY <2>1, <3>1 DEF Stored, Marking
    <3>3. ~Unmarked(s, j)
      BY <1>3, <1>6, <3>1, <3>2 DEF Unmarked
    <3> QED
      BY <1>10, <3>1, <3>2, <3>3, UpkeepMarkers
  <2> QED
    BY <1>9, <2>1 DEF Marking, Unmarked, Serving
<1>15. ASSUME NEW j \in Jobs \ (behind \cup {job})
       PROVE  NotEnabled(j) /\ StaysDone(j)
  <2>1. s[j] # None => disk[j] # None /\ (s[j].on => disk[j].on)
    BY <1>3, <1>6, InMemoryFacts DEF Serving
  <2>2. s[j] # None /\ Done(j, disk[j]) /\ s[j].status = "ok" => Done(j, s[j])
    BY <1>3, <1>6, <2>1, InMemoryFacts DEF Serving
  <2> QED
    BY <1>9, <1>10, <2>1, <2>2, UpkeepQuiet
<1>16. StaysDone(job)
  BY <1>2 DEF StaysDone, Succeeded
<1>17. ASSUME NEW j \in Jobs \ {job}
       PROVE  Trusted(j) /\ StaysDone(j)
  <2>1. t[j] # None /\ t[j].on => mem[j] # None /\ mem[j].on
    BY <1>3, <1>6, <1>10 DEF Upkeep
  <2>2. CASE j \in behind
    BY <1>9, <2>1, <2>2 DEF Trusted, Live, On, StaysDone, InTouch
  <2>3. CASE j \notin behind
    BY <1>15, <2>3 DEF Trusted, NotEnabled
  <2> QED
    BY <2>2, <2>3
<1> QED
  BY <1>1, <1>11, <1>12, <1>13, <1>16, <1>17 DEF Stored

\* A request
LEMMA ServeStored ==
  ASSUME Control, Serve, Stored
  PROVE  Stored' /\ \A j \in Jobs : Served(j)
<1>1. Serving
  BY ServeServing
<1>2. request.job \in Jobs
  BY <1>1 DEF Serving
<1>3. CASE request.kind = "add" /\ Add(request.job)
  BY <1>1, <1>3, AddStored DEF Served
<1>4. CASE request.kind = "enable" /\ Update(request.job, TRUE)
  <2>1. PICK on \in BOOLEAN, job \in Jobs : on = TRUE /\ job = request.job
    BY <1>2
  <2> QED
    BY <1>1, <1>4, <2>1, UpdateStored DEF Served
<1>5. CASE request.kind = "disable" /\ Update(request.job, FALSE)
  <2>1. PICK on \in BOOLEAN, job \in Jobs : on = FALSE /\ job = request.job
    BY <1>2
  <2> QED
    BY <1>1, <1>5, <2>1, UpdateStored DEF Served
<1>6. CASE request.kind = "remove" /\ Remove(request.job)
  <2>1. PICK job \in Jobs : job = request.job
    BY <1>2
  <2> QED
    BY <1>1, <1>6, <2>1, RemoveStored DEF Served
<1>7. CASE request.kind = "list" /\ List
  BY <1>1, <1>7, ListStored DEF Served
<1> QED
  BY <1>3, <1>4, <1>5, <1>6, <1>7 DEF Serve

-----------------------------------------------------------------------------
(* Write-backs *)

\* The copy of a write-back is a store that was on disk.
Copied ==
  /\ behind \subseteq Jobs
  /\ copy # None =>
       /\ copy \in Stores
       /\ \A j \in Jobs : copy[j] # None => Sane(j, copy[j])
       /\ \A q \in todo \cup {request} : q # None /\ q.kind = "add" => copy[q.job] = None

\* What steps have in common: they keep the copy or drop it, unless they read it.
LEMMA Copying ==
  ASSUME Control, [Next]_vars
  PROVE  /\ copy' = copy \/ copy' = None \/ (copy' = disk /\ UNCHANGED <<now, todo, request>>)
         /\ behind' = behind \/ behind' = {} \/ behind' = behind \cup {j \in Jobs : copy[j] # disk[j]}
         /\ now <= now' /\ todo' \cup {request'} \subseteq todo \cup {request, None}
<1>0. now \in Nat
  BY DEF Control, ControlTypes
<1>1. CASE Section
  <2>0. SUFFICES /\ copy' = copy /\ now' = now /\ todo' = todo
                 /\ request' = request \/ request' = None
                 /\ behind' = behind \/ behind' = {}
    BY <1>0
  <2>1. CASE Claim
    BY <2>1 DEF Claim, asked, Saved
  <2>2. CASE ApplyOutcomes
    BY <2>2 DEF ApplyOutcomes, asked, Saved
  <2>3. CASE ClearMarkers
    BY <2>3 DEF ClearMarkers, asked, SavedIf, Saved, Unsaved
  <2>4. CASE Plan
    BY <2>4 DEF Plan, asked, Saved, Unsaved
  <2>5. CASE Settle
    BY <2>5 DEF Settle, asked, Saved
  <2>6. CASE Arm
    BY <2>6 DEF Arm, asked, SavedIf, Saved, Unsaved
  <2>7. CASE Preflight
    BY <2>7 DEF Preflight, Unsaved
  <2>8. CASE Reserve
    BY <2>8 DEF Reserve, Saved, store
  <2>9. CASE Finish
    BY <2>9 DEF Finish, Saved, Unsaved
  <2>10. CASE Serve
    <3>1. copy' = copy /\ now' = now /\ todo' = todo /\ request' = None
      BY <2>10 DEF Serve
    <3>2. behind' = behind \/ behind' = {}
      BY <2>10 DEF Serve, Add, Update, Remove, List, Saved, SavedIf, Unsaved
    <3> QED
      BY <3>1, <3>2
  <2> QED
    BY <1>1, <2>1, <2>2, <2>3, <2>4, <2>5, <2>6, <2>7, <2>8, <2>9, <2>10 DEF Section
<1>2. CASE \E j \in Jobs : StartDueJob(j) \/ StartMissedJob(j)
  BY <1>0, <1>2 DEF StartDueJob, StartMissedJob, store, asked
<1>3. CASE \E a \in Actors, j \in Jobs, outcome \in Ends : EndJob(a, j, outcome)
  BY <1>0, <1>3 DEF EndJob, store
<1>4. CASE \E j \in Jobs, forced \in BOOLEAN : CallRun(j, forced)
  BY <1>0, <1>4 DEF CallRun, store
<1>5. CASE \E q \in Requests : Ask(q)
  BY <1>0, <1>5 DEF Ask, store
<1>6. CASE TimerFires \/ EndTick \/ AdvanceClock \/ Crash \/ UNCHANGED vars
  BY <1>0, <1>6 DEF TimerFires, EndTick, AdvanceClock, Crash, vars, store, asked
<1>7. CASE WriteBackReads \/ WriteBackSaves
  BY <1>0, <1>7 DEF WriteBackReads, WriteBackSaves, store, asked
<1> QED
  BY <1>1, <1>2, <1>3, <1>4, <1>5, <1>6, <1>7 DEF Next

\* The copy stays a store the disk has had, in which nothing is known of jobs to come.
LEMMA NextCopied ==
  ASSUME Control, Control', Stored, Copied, [Next]_vars
  PROVE  Copied'
<1>1. /\ copy' = copy \/ copy' = None \/ (copy' = disk /\ UNCHANGED <<now, todo, request>>)
      /\ behind' \subseteq Jobs
      /\ now <= now' /\ todo' \cup {request'} \subseteq todo \cup {request, None}
  BY Copying DEF Copied
<1>2. now \in Nat /\ now' \in Nat
  BY DEF Control, ControlTypes
<1>3. ASSUME NEW j \in Jobs, NEW r \in Records, Sane(j, r)
      PROVE  Sane(j, r)'
  BY <1>1, <1>2, <1>3 DEF Sane, Finished, Records, Times
<1>4. CASE copy' = None
  BY <1>1, <1>4 DEF Copied
<1>5. CASE copy' = copy /\ copy # None
  <2>1. /\ copy' \in Stores
        /\ \A j \in Jobs : copy'[j] # None => Sane(j, copy[j])'
    BY <1>3, <1>5 DEF Copied, Stores
  <2>2. \A q \in todo' \cup {request'} : q # None /\ q.kind = "add" => copy'[q.job] = None
    BY <1>1, <1>5 DEF Copied
  <2> QED
    BY <1>1, <2>1, <2>2 DEF Copied
<1>6. CASE copy' = disk /\ UNCHANGED <<now, todo, request>>
  <2>1. /\ copy' \in Stores
        /\ \A j \in Jobs : copy'[j] # None => Sane(j, copy[j])'
    <3>1. PICK d \in Stores : d = disk /\ \A j \in Jobs : d[j] # None => Sane(j, d[j])
      BY DEF Stored, Sanity
    <3>2. \A j \in Jobs : d[j] # None => Sane(j, copy[j])'
      BY <1>6, <3>1 DEF Sane, Finished
    <3> QED
      BY <1>6, <3>1, <3>2
  <2>2. \A q \in todo' \cup {request'} : q # None /\ q.kind = "add" => copy'[q.job] = None
    BY <1>6 DEF Stored, Fresh
  <2> QED
    BY <1>1, <2>1, <2>2 DEF Copied
<1> QED
  BY <1>1, <1>4, <1>5, <1>6

\* A copy is saved: what was saved since it was read is lost on disk.
LEMMA SavesStored ==
  ASSUME Control, Stored, Copied, WriteBackSaves
  PROVE  /\ Stored' /\ copy # None /\ copy' = None
         /\ \A j \in Jobs : /\ NotEnabled(j) \/ On(copy, j)
                            /\ StaysDone(j) /\ SlotStays(j)
<1>1. PICK c \in Stores : c = copy /\ \A j \in Jobs : c[j] # None => Sane(j, c[j])
  BY DEF WriteBackSaves, Copied
<1>2. /\ copy # None /\ copy' = None /\ disk' = c
      /\ behind' = behind \cup {j \in Jobs : c[j] # disk[j]}
      /\ Release({j \in Jobs : c[j] # None /\ c[j].running = None})
      /\ UNCHANGED <<now, mem, loaded, exec, todo, request>>
  BY <1>1 DEF WriteBackSaves, asked
<1>3. \A j \in Jobs : j \notin behind' => disk'[j] = disk[j] /\ j \notin behind
  BY <1>2
<1>4. disk' \in Stores /\ mem' \in Stores
  BY <1>1, <1>2 DEF Stored
<1>5. Sanity'
  <2>1. ASSUME NEW j \in Jobs, disk'[j] # None
        PROVE  Sane(j, disk[j])'
    BY <1>1, <1>2, <2>1 DEF Sane, Finished
  <2>2. ASSUME NEW j \in Jobs, mem'[j] # None
        PROVE  Sane(j, mem[j])'
    BY <1>2, <2>2 DEF Stored, Sanity, Sane, Finished
  <2> QED
    BY <2>1, <2>2 DEF Sanity
<1>6. Fresh'
  BY <1>1, <1>2 DEF Stored, Fresh, Copied
<1>7. InStep'
  BY <1>2, <1>3 DEF Stored, InStep, Same, Finished
<1>8. Marking'
  BY <1>2 DEF Stored, Marking, Unmarked, Release
<1>9. ASSUME NEW j \in Jobs
      PROVE  (NotEnabled(j) \/ On(copy, j)) /\ StaysDone(j) /\ SlotStays(j)
  <2>1. NotEnabled(j) \/ On(copy, j)
    BY <1>1, <1>2 DEF NotEnabled, Live, On
  <2>2. StaysDone(j) /\ SlotStays(j)
    BY <1>3 DEF StaysDone, SlotStays, InTouch
  <2> QED
    BY <2>1, <2>2
<1> QED
  BY <1>2, <1>4, <1>5, <1>6, <1>7, <1>8, <1>9 DEF Stored

-----------------------------------------------------------------------------
(* The theorems *)

\* What a step may do to job j
PutAside(j) == \E i \in DOMAIN deferred : deferred[i] = j
Kept(j) ==
  /\ \/ NotEnabled(j)
     \/ Runs("request") /\ request.kind \in {"add", "enable"} /\ request.job = j
     \/ copy # None /\ On(copy, j) /\ copy' = None
     \/ /\ j \in behind /\ On(mem, j) /\ queue # <<>>
        /\ \/ Head(queue) \notin {"claim", "apply", "finish"}
           \/ Head(queue) = "finish" /\ manual.job = j
  /\ PutAside(j) \/ StaysDone(j)
  /\ \/ PutAside(j) \/ Runs("arm") \/ SlotStays(j)
     \/ Runs("request") /\ request.kind # "list"

\* Every step keeps the stores, and what they say of each job.
LEMMA NextStored ==
  ASSUME Control, Control', Stored, Copied, [Next]_vars
  PROVE  Stored' /\ \A j \in Jobs : Kept(j)
<1>1. CASE Section
  <2>1. CASE Claim \/ ApplyOutcomes \/ ClearMarkers \/ Preflight
    BY <2>1, ClaimStored, ApplyStored, ClearStored, PreflightStored DEF Kept
  <2>2. CASE Settle
    BY <2>2, SettleStored DEF Kept, PutAside, Settle, Runs, Trusted, NotEnabled
  <2>3. CASE Arm
    BY <2>3, ArmStored DEF Kept, Arm, Runs, Trusted, NotEnabled
  <2>4. CASE Serve
    BY <2>4, ServeStored DEF Kept, Served, Serve, Runs, Trusted, NotEnabled
  <2>5. CASE Plan
    BY <2>5, PlanStored DEF Kept, Plan, Runs, Trusted, NotEnabled
  <2>6. CASE Reserve
    BY <2>6, ReserveStored DEF Kept, Reserve, Runs, Trusted, NotEnabled
  <2>7. CASE Finish
    BY <2>7, FinishStored DEF Kept, Finish, Runs
  <2> QED
    BY <1>1, <2>1, <2>2, <2>3, <2>4, <2>5, <2>6, <2>7 DEF Section
<1>2. CASE \E j \in Jobs : StartDueJob(j)
  BY <1>2, StartStored DEF Kept
<1>3. CASE Crash
  BY <1>3, CrashStored DEF Kept
<1>4. CASE \/ TimerFires \/ EndTick \/ AdvanceClock \/ WriteBackReads
           \/ \E j \in Jobs : StartMissedJob(j)
           \/ \E a \in Actors, j \in Jobs, outcome \in Ends : EndJob(a, j, outcome)
           \/ \E j \in Jobs, forced \in BOOLEAN : CallRun(j, forced)
           \/ \E q \in Requests : Ask(q)
           \/ UNCHANGED vars
  BY <1>4, BetweenStored DEF Kept
<1>5. CASE WriteBackSaves
  BY <1>5, SavesStored DEF Kept
<1> QED
  BY <1>1, <1>2, <1>3, <1>4, <1>5 DEF Next

\* The inductive invariant holds however the sections of ticks, catch-ups, manual
\* runs and requests follow each other, and whenever the process dies.
THEOREM Invariance == Spec => [](Control /\ Stored /\ Copied)
<1>1. Init => Control /\ Stored /\ Copied
  <2>1. Init => Copied
    BY DEF Init, Copied
  <2> QED
    BY <2>1, InitControl, InitStored
<1>2. Control /\ Stored /\ Copied /\ [Next]_vars => (Control /\ Stored /\ Copied)'
  BY NextControl, NextStored, NextCopied
<1> QED
  BY <1>1, <1>2, PTL DEF Spec

\* The variables keep their types.
THEOREM TypesKept == Spec => []TypeOK
<1>1. Control /\ Stored /\ Copied => TypeOK
  BY DEF Control, ControlTypes, Stored, Stores, Copied, TypeOK
<1> QED
  BY <1>1, Invariance, PTL

\* No job executes twice at a time, unless its marker was taken away.
THEOREM JobsDoNotOverlap == Spec => []NoOverlap
<1>1. ASSUME Stored, NEW j \in Jobs, j \notin released
      PROVE  Cardinality({a \in Actors : exec[a][j] # None /\ exec[a][j].state = "running"}) <= 1
  <2>1. PICK running : running = {a \in Actors : exec[a][j] # None /\ exec[a][j].state = "running"}
    OBVIOUS
  <2>2. \A a, b \in running : a = b
    BY <1>1, <2>1 DEF Stored, Marking
  <2>3. Cardinality(running) <= 1
    <3>1. CASE running = {}
      <4>1. Cardinality({}) = 0
        BY FS_EmptySet
      <4> QED
        BY <3>1, <4>1
    <3>2. CASE running # {}
      <4>1. PICK a \in running : running = {a}
        BY <2>2, <3>2
      <4>2. Cardinality({a}) = 1
        BY FS_Singleton
      <4> QED
        BY <4>1, <4>2
    <3> QED
      BY <3>1, <3>2
  <2> QED
    BY <2>1, <2>3
<1>2. Stored => NoOverlap
  BY <1>1 DEF NoOverlap
<1> QED
  BY <1>2, Invariance, PTL

\* What every step of a behaviour does to a job
THEOREM StepsKeepJobs == Spec => [][\A j \in Jobs : Kept(j)]_vars
<1>1. Control /\ Stored /\ Copied /\ [Next]_vars => [\A j \in Jobs : Kept(j)]_vars
  BY NextControl, NextStored
<1> QED
  BY <1>1, Invariance, PTL DEF Spec

\* Only requests enable a job, but for write-backs and what is saved over them.
THEOREM OnlyRequestsEnableJobs == Spec => OnlyRequestsEnable
<1>1. (\A j \in Jobs : Kept(j)) =>
        \A j \in Jobs : ~Live(j) /\ Live(j)' =>
          \/ Runs("request") /\ request.kind \in {"add", "enable"} /\ request.job = j
          \/ copy # None /\ On(copy, j) /\ copy' = None
          \/ /\ j \in behind /\ On(mem, j) /\ queue # <<>>
             /\ \/ Head(queue) \notin {"claim", "apply", "finish"}
                \/ Head(queue) = "finish" /\ manual.job = j
  BY DEF Kept, NotEnabled
<1> QED
  BY <1>1, StepsKeepJobs, PTL DEF OnlyRequestsEnable

\* A one-shot that has succeeded is scheduled no more.
THEOREM DoneStaysDone == Spec => OneShotsStayDone
<1>1. (\A j \in Jobs : Kept(j)) =>
        \A j \in Jobs :
          /\ Succeeded(j) /\ disk[j].next = None /\ Succeeded(j)' /\ InTouch(j)
          /\ \A i \in DOMAIN deferred : deferred[i] # j
          => disk'[j].next = None
  BY DEF Kept, StaysDone, PutAside
<1> QED
  BY <1>1, StepsKeepJobs, PTL DEF OneShotsStayDone

\* The slot of a job that is due is not given away.
THEOREM SlotsAreKept == Spec => SlotsKept
<1>1. (\A j \in Jobs : Kept(j)) =>
        \A j \in Jobs :
          /\ Unclaimed(j) /\ disk'[j] # None /\ InTouch(j)
          /\ \/ queue = <<>> \/ Head(queue) \notin {"arm", "request"}
             \/ Head(queue) = "request" /\ request.kind = "list"
          /\ \A i \in DOMAIN deferred : deferred[i] # j
          => disk'[j].next = disk[j].next
  BY DEF Kept, SlotStays, PutAside, Runs
<1> QED
  BY <1>1, StepsKeepJobs, PTL DEF SlotsKept
=============================================================================
