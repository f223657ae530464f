------------------------ MODULE SessionWriteLockProofs ------------------------
(***************************************************************************)
(* Proofs about the session write lock, for any number of processes,       *)
(* callers and lock files.                                                 *)
(***************************************************************************)
EXTENDS SessionWriteLock, FiniteSetTheorems, TLAPS

\* Only processes that run hold, close or wait for anything.
Living ==
  /\ \A c \in Callers : pc[c] # "idle" => Home[c] \in alive
  /\ \A p \in Procs : held[p] # None \/ closing[p] # {} => p \in alive

\* Whoever works knows its lock, and the file somebody is about to remove is
\* stale if it is still there: its process has ended, or it is too old.
Reading ==
  \A c \in Callers :
    /\ pc[c] \in {"writing", "working", "removing"} => lock[c] # None
    /\ pc[c] = "removing" /\ lock[c] = file => maker \notin alive \/ old

\* What a process holds, or is about to close, is the file that is there, with
\* its payload.
Holds == \A p \in Procs : held[p] # None => file = held[p] /\ full /\ maker = p
Closes ==
  \A p \in Procs : \A l \in closing[p] : file = l /\ full /\ maker = p /\ held[p] = None

\* One caller at most has created a file that is not written yet: the one there.
Unwritten(c) == pc[c] \in {"writing", "failing"}
Writes ==
  /\ \A c \in Callers : Unwritten(c) =>
       file = lock[c] /\ lock[c] # None /\ ~full /\ maker = Home[c]
  /\ \A c, d \in Callers : Unwritten(c) /\ Unwritten(d) => c = d

Sound == Holds /\ Closes /\ Writes

IInv == TypeOK /\ Living /\ Reading /\ (~robbed => Sound)

-----------------------------------------------------------------------------
(* What steps do to the state *)

\* A caller that goes on changes nothing of the others.
LEMMA Going ==
  ASSUME TypeOK, NEW c \in Callers, NEW stage \in Stages, NEW l \in Locks \cup {None},
         Goes(c, stage, l)
  PROVE  /\ pc' \in [Callers -> Stages] /\ lock' \in [Callers -> Locks \cup {None}]
         /\ pc'[c] = stage /\ lock'[c] = l
         /\ \A d \in Callers \ {c} : pc'[d] = pc[d] /\ lock'[d] = lock[d]
  BY DEF TypeOK, Goes

\* A new lock file is one nobody knows.
LEMMA NewIsUnknown ==
  ASSUME Unknown # {}
  PROVE  /\ NewLock \in Locks /\ NewLock # file
         /\ \A c \in Callers : lock[c] # NewLock
         /\ \A p \in Procs : held[p] # NewLock /\ NewLock \notin closing[p]
<1>1. NewLock \in Unknown
  BY DEF NewLock
<1> QED
  BY <1>1 DEF Unknown

\* An entry of HELD_LOCKS that goes is to be closed by its process.
LEMMA LettingGo ==
  ASSUME IInv, ConstantsAssumption, NEW p \in Procs, held[p] # None, LetGo(p),
         UNCHANGED <<alive, files>>, robbed' = robbed,
         pc' \in [Callers -> Stages], lock' \in [Callers -> Locks \cup {None}],
         watched' \subseteq Procs,
         \A c \in Callers : pc'[c] = "idle" \/ (pc'[c] = pc[c] /\ lock'[c] = lock[c])
  PROVE  IInv'
<1>1. /\ alive' = alive /\ file' = file /\ full' = full /\ old' = old /\ maker' = maker
  BY DEF files
<1>2. /\ held' \in [Procs -> Locks \cup {None}] /\ held'[p] = None
      /\ \A q \in Procs \ {p} : held'[q] = held[q]
  BY DEF IInv, TypeOK, LetGo
<1>3. /\ closing' \in [Procs -> SUBSET Locks] /\ closing'[p] = closing[p] \cup {held[p]}
      /\ \A q \in Procs \ {p} : closing'[q] = closing[q]
  BY DEF IInv, TypeOK, LetGo
<1>4. count' \in [Procs -> Nat]
  BY DEF IInv, TypeOK, LetGo
<1>5. TypeOK'
  BY <1>1, <1>2, <1>3, <1>4 DEF IInv, TypeOK
<1>6. Living'
  <2>1. p \in alive
    BY DEF IInv, Living
  <2> QED
    BY <1>1, <1>2, <1>3, <2>1 DEF IInv, Living
<1>7. Reading'
  BY <1>1 DEF IInv, Reading
<1>8. ASSUME ~robbed PROVE Sound'
  <2>1. Holds'
    BY <1>1, <1>2, <1>8 DEF IInv, Sound, Holds
  <2>2. Closes'
    BY <1>1, <1>2, <1>3, <1>8 DEF IInv, Sound, Holds, Closes
  <2>3. Writes'
    BY <1>1, <1>8 DEF IInv, Sound, Writes, Unwritten
  <2> QED
    BY <2>1, <2>2, <2>3 DEF Sound
<1> QED
  BY <1>5, <1>6, <1>7, <1>8 DEF IInv

\* Steps of one caller that leave files, locks and processes alone, other than
\* to start writing.
LEMMA Walking ==
  ASSUME IInv, ConstantsAssumption, NEW c \in Callers, NEW stage \in Stages,
         NEW l \in Locks \cup {None}, Goes(c, stage, l), Home[c] \in alive,
         UNCHANGED <<alive, files, held, closing>>, robbed' = robbed,
         count' \in [Procs -> Nat], watched' \subseteq Procs,
         stage = "writing" => FALSE,
         stage = "failing" => pc[c] = "writing" /\ l = lock[c],
         stage \in {"working", "removing"} => l # None,
         stage = "removing" /\ l = file => maker \notin alive \/ old
  PROVE  IInv'
<1>1. /\ alive' = alive /\ file' = file /\ full' = full /\ old' = old /\ maker' = maker
      /\ held' = held /\ closing' = closing
  BY DEF files
<1>2. /\ pc' \in [Callers -> Stages] /\ lock' \in [Callers -> Locks \cup {None}]
      /\ pc'[c] = stage /\ lock'[c] = l
      /\ \A d \in Callers \ {c} : pc'[d] = pc[d] /\ lock'[d] = lock[d]
  BY Going DEF IInv
<1>3. TypeOK'
  BY <1>1, <1>2 DEF IInv, TypeOK
<1>4. Living'
  BY <1>1, <1>2 DEF IInv, Living
<1>5. Reading'
  BY <1>1, <1>2 DEF IInv, Reading
<1>6. ASSUME ~robbed PROVE Sound'
  <2>1. Holds' /\ Closes'
    BY <1>1, <1>6 DEF IInv, Sound, Holds, Closes
  <2>2. \A d \in Callers : Unwritten(d)' => Unwritten(d) /\ lock'[d] = lock[d]
    BY <1>2 DEF Unwritten
  <2>3. Writes'
    BY <1>1, <1>6, <2>2 DEF IInv, Sound, Writes
  <2> QED
    BY <2>1, <2>3 DEF Sound
<1> QED
  BY <1>3, <1>4, <1>5, <1>6 DEF IInv

-----------------------------------------------------------------------------
(* The steps *)

\* A lock that is shared, or asked for
LEMMA AcquireKeeps ==
  ASSUME IInv, ConstantsAssumption, NEW c \in Callers, Acquire(c)
  PROVE  IInv'
<1>1. /\ Home[c] \in alive /\ UNCHANGED <<alive, files, held, closing>> /\ robbed' = robbed
      /\ watched' = watched \cup {Home[c]} /\ Home[c] \in Procs
  BY DEF Acquire, At, ConstantsAssumption
<1>2. watched' \subseteq Procs
  BY <1>1 DEF IInv, TypeOK
<1>3. CASE /\ count' = [count EXCEPT ![Home[c]] = @ + 1]
           /\ Goes(c, "working", held[Home[c]]) /\ held[Home[c]] # None
  <2>1. count' \in [Procs -> Nat] /\ held[Home[c]] \in Locks \cup {None} /\ "working" \in Stages
    BY <1>1, <1>3 DEF IInv, TypeOK, Stages
  <2> QED
    BY <1>1, <1>2, <1>3, <2>1, Walking
<1>4. CASE Goes(c, "opening", None) /\ count' = count
  <2>1. count' \in [Procs -> Nat] /\ None \in Locks \cup {None} /\ "opening" \in Stages
    BY <1>4 DEF IInv, TypeOK, Stages
  <2> QED
    BY <1>1, <1>2, <1>4, <2>1, Walking
<1> QED
  BY <1>3, <1>4 DEF Acquire

\* Reads, timeouts and failed writes
LEMMA LooksKeep ==
  ASSUME IInv, ConstantsAssumption, NEW c \in Callers,
         \/ WriteFails(c) \/ Inspect(c) \/ Ask(c) \/ GiveUp(c)
         \/ StartCleaning(c) \/ Examine(c)
  PROVE  IInv'
<1>1. /\ Home[c] \in alive /\ UNCHANGED <<alive, files, held, closing>> /\ robbed' = robbed
      /\ count' = count /\ watched' = watched
  BY DEF WriteFails, Inspect, Ask, GiveUp, StartCleaning, Examine, At
<1>2. count' \in [Procs -> Nat] /\ watched' \subseteq Procs
  BY <1>1 DEF IInv, TypeOK
<1>3. /\ "failing" \in Stages /\ "asking" \in Stages /\ "removing" \in Stages
      /\ "waiting" \in Stages /\ "idle" \in Stages /\ "cleaning" \in Stages
      /\ "listing" \in Stages
      /\ None \in Locks \cup {None} /\ file \in Locks \cup {None} /\ lock[c] \in Locks \cup {None}
  BY DEF IInv, TypeOK, Stages
<1>4. CASE pc[c] = "writing" /\ Goes(c, "failing", lock[c])
  BY <1>1, <1>2, <1>3, <1>4, Walking
<1>5. CASE Goes(c, "asking", None)
  BY <1>1, <1>2, <1>3, <1>5, Walking
<1>6. CASE Goes(c, "waiting", None)
  BY <1>1, <1>2, <1>3, <1>6, Walking
<1>7. CASE Goes(c, "idle", None)
  BY <1>1, <1>2, <1>3, <1>7, Walking
<1>8. CASE Goes(c, "cleaning", file)
  BY <1>1, <1>2, <1>3, <1>8, Walking
<1>9. CASE Goes(c, "removing", file) /\ file # None /\ (maker \notin alive \/ old)
  BY <1>1, <1>2, <1>3, <1>9, Walking
<1>10. CASE Goes(c, "listing", None)
  BY <1>1, <1>2, <1>3, <1>10, Walking
<1> QED
  BY <1>4, <1>5, <1>6, <1>7, <1>8, <1>9, <1>10
     DEF WriteFails, Inspect, Ask, GiveUp, StartCleaning, Examine, At

\* A file is created only where there is none, by a caller nobody competes with.
LEMMA OpenKeeps ==
  ASSUME IInv, ConstantsAssumption, NEW c \in Callers, Open(c)
  PROVE  IInv'
<1>1. /\ Home[c] \in alive /\ alive' = alive /\ held' = held /\ count' = count
      /\ closing' = closing /\ watched' = watched /\ robbed' = robbed
  BY DEF Open, At
<1>2. CASE Goes(c, "inspecting", None) /\ UNCHANGED files
  <2>1. "inspecting" \in Stages /\ count' \in [Procs -> Nat] /\ watched' \subseteq Procs
    BY <1>1 DEF IInv, TypeOK, Stages
  <2> QED
    BY <1>1, <1>2, <2>1, Walking
<1>3. CASE /\ file = None /\ Unknown # {}
           /\ file' = NewLock /\ full' = FALSE /\ old' = FALSE /\ maker' = Home[c]
           /\ Goes(c, "writing", NewLock)
  <2>1. /\ NewLock \in Locks /\ NewLock # file
        /\ \A d \in Callers : lock[d] # NewLock
    BY <1>3, NewIsUnknown
  <2>2. /\ pc' \in [Callers -> Stages] /\ lock' \in [Callers -> Locks \cup {None}]
        /\ pc'[c] = "writing" /\ lock'[c] = NewLock
        /\ \A d \in Callers \ {c} : pc'[d] = pc[d] /\ lock'[d] = lock[d]
    <3>1. "writing" \in Stages /\ NewLock \in Locks \cup {None}
      BY <2>1 DEF Stages
    <3> QED
      BY <1>3, <3>1, Going DEF IInv
  <2>3. TypeOK'
    BY <1>1, <1>3, <2>1, <2>2 DEF IInv, TypeOK, ConstantsAssumption
  <2>4. Living'
    BY <1>1, <2>2 DEF IInv, Living
  <2>5. Reading'
    BY <1>3, <2>1, <2>2 DEF IInv, Reading, ConstantsAssumption
  <2>6. ASSUME ~robbed PROVE Sound'
    <3>1. (\A p \in Procs : held[p] = None /\ closing[p] = {}) /\ \A d \in Callers : ~Unwritten(d)
      <4>1. \A p \in Procs : held[p] = None
        BY <1>3, <2>6 DEF IInv, Sound, Holds
      <4>2. \A p \in Procs : closing[p] \subseteq Locks
        BY DEF IInv, TypeOK
      <4>3. \A p \in Procs : closing[p] = {}
        BY <1>3, <2>6, <4>2 DEF IInv, Sound, Closes, ConstantsAssumption
      <4>4. \A d \in Callers : ~Unwritten(d)
        BY <1>3, <2>6 DEF IInv, Sound, Writes
      <4> QED
        BY <4>1, <4>3, <4>4
    <3>2. Holds' /\ Closes'
      BY <1>1, <3>1 DEF Holds, Closes
    <3>3. \A d \in Callers : Unwritten(d)' => d = c
      BY <2>2, <3>1 DEF Unwritten
    <3>4. Writes'
      BY <1>3, <2>1, <2>2, <3>3 DEF Writes, ConstantsAssumption
    <3> QED
      BY <3>2, <3>4 DEF Sound
  <2> QED
    BY <1>1, <2>3, <2>4, <2>5, <2>6 DEF IInv
<1> QED
  BY <1>2, <1>3 DEF Open

\* The one that created the file has it once the payload is there.
LEMMA WriteKeeps ==
  ASSUME IInv, ConstantsAssumption, NEW c \in Callers, Write(c)
  PROVE  IInv'
<1>1. /\ Home[c] \in alive /\ Home[c] \in Procs /\ pc[c] = "writing"
      /\ alive' = alive /\ file' = file /\ old' = old /\ maker' = maker
      /\ closing' = closing /\ watched' = watched /\ robbed' = robbed
      /\ full' = (full \/ file = lock[c])
  BY DEF Write, At, ConstantsAssumption
<1>2. /\ held' \in [Procs -> Locks \cup {None}] /\ held'[Home[c]] = lock[c]
      /\ \A p \in Procs \ {Home[c]} : held'[p] = held[p]
      /\ count' \in [Procs -> Nat]
  BY <1>1 DEF IInv, TypeOK, Write
<1>3. /\ pc' \in [Callers -> Stages] /\ lock' \in [Callers -> Locks \cup {None}]
      /\ pc'[c] = "working" /\ lock'[c] = lock[c]
      /\ \A d \in Callers \ {c} : pc'[d] = pc[d] /\ lock'[d] = lock[d]
  <2>1. "working" \in Stages /\ lock[c] \in Locks \cup {None}
    BY DEF IInv, TypeOK, Stages
  <2> QED
    BY <2>1, Going DEF IInv, Write
<1>4. full' \in BOOLEAN
  BY <1>1 DEF IInv, TypeOK
<1>5. TypeOK'
  BY <1>1, <1>2, <1>3, <1>4 DEF IInv, TypeOK
<1>6. Living'
  BY <1>1, <1>2, <1>3 DEF IInv, Living
<1>7. Reading'
  BY <1>1, <1>3 DEF IInv, Reading
<1>8. ASSUME ~robbed PROVE Sound'
  <2>1. file = lock[c] /\ lock[c] # None /\ ~full /\ maker = Home[c] /\ full'
    BY <1>1, <1>8 DEF IInv, Sound, Writes, Unwritten
  <2>2. \A d \in Callers : ~Unwritten(d)'
    BY <1>1, <1>3, <1>8 DEF IInv, Sound, Writes, Unwritten
  <2>3. \A p \in Procs : held[p] = None /\ closing[p] = {}
    BY <1>8, <2>1 DEF IInv, Sound, Holds, Closes
  <2>4. Holds'
    BY <1>1, <1>2, <2>1, <2>3 DEF Holds
  <2>5. Closes'
    BY <1>1, <2>3 DEF Closes
  <2>6. Writes'
    BY <2>2 DEF Writes
  <2> QED
    BY <2>4, <2>5, <2>6 DEF Sound
<1> QED
  BY <1>1, <1>5, <1>6, <1>7, <1>8 DEF IInv

\* A file that goes takes nothing with it: nobody holds, closes or writes one
\* afterwards but who is told so here.
LEMMA FileGoes ==
  ASSUME IInv, ConstantsAssumption, FileGone,
         alive' \subseteq alive,
         held' \in [Procs -> Locks \cup {None}], closing' \in [Procs -> SUBSET Locks],
         count' \in [Procs -> Nat], watched' \subseteq Procs, robbed' \in BOOLEAN,
         pc' \in [Callers -> Stages], lock' \in [Callers -> Locks \cup {None}],
         \A c \in Callers : pc'[c] \in {"idle", "waiting"} \/ (pc'[c] = pc[c] /\ lock'[c] = lock[c]),
         Living',
         ~robbed' => /\ \A p \in Procs : held'[p] = None /\ closing'[p] = {}
                     /\ \A c \in Callers : ~Unwritten(c)'
  PROVE  IInv'
<1>1. /\ file' = None /\ full' = FALSE /\ old' = FALSE /\ maker' = None
  BY DEF FileGone
<1>2. TypeOK'
  BY <1>1 DEF IInv, TypeOK
<1>3. Reading'
  BY <1>1 DEF IInv, Reading
<1>4. ASSUME ~robbed' PROVE Sound'
  BY <1>4 DEF Sound, Holds, Closes, Writes
<1> QED
  BY <1>2, <1>3, <1>4 DEF IInv

\* A caller that could not write removes its own file.
LEMMA DiscardKeeps ==
  ASSUME IInv, ConstantsAssumption, NEW c \in Callers, Discard(c)
  PROVE  IInv'
<1>1. /\ pc[c] = "failing" /\ FileGone /\ Goes(c, "idle", None)
      /\ alive' = alive /\ held' = held /\ count' = count /\ closing' = closing
      /\ watched' = watched /\ robbed' = robbed
  BY DEF Discard, At
<1>2. /\ pc' \in [Callers -> Stages] /\ lock' \in [Callers -> Locks \cup {None}]
      /\ pc'[c] = "idle"
      /\ \A d \in Callers \ {c} : pc'[d] = pc[d] /\ lock'[d] = lock[d]
  <2>1. "idle" \in Stages /\ None \in Locks \cup {None}
    BY DEF Stages
  <2> QED
    BY <1>1, <2>1, Going DEF IInv
<1>3. Living'
  BY <1>1, <1>2 DEF IInv, Living
<1>4. ASSUME ~robbed'
      PROVE  /\ \A p \in Procs : held'[p] = None /\ closing'[p] = {}
             /\ \A d \in Callers : ~Unwritten(d)'
  <2>1. ~full
    BY <1>1, <1>4 DEF IInv, Sound, Writes, Unwritten
  <2>2. \A p \in Procs : held[p] = None /\ closing[p] = {}
    BY <1>1, <1>4, <2>1 DEF IInv, Sound, Holds, Closes
  <2>3. \A d \in Callers : ~Unwritten(d)'
    BY <1>1, <1>2, <1>4 DEF IInv, Sound, Writes, Unwritten
  <2> QED
    BY <1>1, <2>2, <2>3
<1> QED
  <2>1. TypeOK
    BY DEF IInv
  <2> QED
    BY <1>1, <1>2, <1>3, <1>4, <2>1, FileGoes DEF TypeOK

\* Who removes what it takes for stale is mistaken, or nobody misses it.
LEMMA RemoveKeeps ==
  ASSUME IInv, ConstantsAssumption, NEW c \in Callers, Remove(c)
  PROVE  IInv'
<1>1. /\ pc[c] = "removing" \/ pc[c] = "cleaning"
      /\ Home[c] \in alive /\ FileGone
      /\ robbed' = (robbed \/ Wrong(c))
      /\ alive' = alive /\ held' = held /\ count' = count /\ closing' = closing
      /\ watched' = watched
  BY DEF Remove, At
<1>2. /\ pc' \in [Callers -> Stages] /\ lock' \in [Callers -> Locks \cup {None}]
      /\ pc'[c] \in {"idle", "waiting"}
      /\ \A d \in Callers \ {c} : pc'[d] = pc[d] /\ lock'[d] = lock[d]
  <2>1. "idle" \in Stages /\ "waiting" \in Stages /\ None \in Locks \cup {None}
    BY DEF Stages
  <2>2. Goes(c, "idle", None) \/ Goes(c, "waiting", None)
    BY DEF Remove
  <2>3. CASE Goes(c, "idle", None)
    BY <2>1, <2>3, Going DEF IInv
  <2>4. CASE Goes(c, "waiting", None)
    BY <2>1, <2>4, Going DEF IInv
  <2> QED
    BY <2>2, <2>3, <2>4
<1>3. Living'
  BY <1>1, <1>2 DEF IInv, Living
<1>4. ASSUME ~robbed'
      PROVE  /\ \A p \in Procs : held'[p] = None /\ closing'[p] = {}
             /\ \A d \in Callers : ~Unwritten(d)'
  <2>1. ~robbed /\ ~Wrong(c)
    BY <1>1, <1>4
  <2>2. file = None \/ maker \notin alive
    <3>1. CASE pc[c] = "removing"
      BY <2>1, <3>1 DEF IInv, Reading, Wrong
    <3>2. CASE pc[c] = "cleaning"
      BY <1>1, <2>1, <3>2 DEF Wrong, At
    <3> QED
      BY <1>1, <3>1, <3>2
  <2>3. \A p \in Procs : held[p] = None /\ closing[p] = {}
    <3>1. ASSUME NEW p \in Procs PROVE held[p] = None
      BY <2>1, <2>2 DEF IInv, Living, Sound, Holds
    <3>2. ASSUME NEW p \in Procs, NEW l \in closing[p] PROVE FALSE
      <4>1. file = l /\ maker = p /\ p \in alive /\ l \in Locks
        BY <2>1, <3>2 DEF IInv, TypeOK, Living, Sound, Closes
      <4> QED
        BY <2>2, <4>1 DEF ConstantsAssumption
    <3> QED
      BY <3>1, <3>2
  <2>4. \A d \in Callers : ~Unwritten(d)
    BY <2>1, <2>2 DEF IInv, Living, Sound, Writes, Unwritten
  <2>5. \A d \in Callers : ~Unwritten(d)'
    BY <1>2, <2>4 DEF Unwritten
  <2> QED
    BY <1>1, <2>3, <2>5
<1> QED
  <2>1. TypeOK /\ robbed' \in BOOLEAN
    BY <1>1 DEF IInv, TypeOK, Wrong
  <2>2. \A d \in Callers : pc'[d] \in {"idle", "waiting"} \/ (pc'[d] = pc[d] /\ lock'[d] = lock[d])
    BY <1>2
  <2> QED
    BY <1>1, <1>2, <1>3, <1>4, <2>1, <2>2, FileGoes DEF TypeOK

\* A handle that releases lets go of its own lock only.
LEMMA ReleaseKeeps ==
  ASSUME IInv, ConstantsAssumption, NEW c \in Callers, Release(c)
  PROVE  IInv'
<1>1. /\ Home[c] \in alive /\ Home[c] \in Procs /\ pc[c] = "working"
      /\ Goes(c, "idle", None) /\ UNCHANGED <<alive, files>> /\ robbed' = robbed
      /\ watched' = watched
  BY DEF Release, At, ConstantsAssumption
<1>2. "idle" \in Stages /\ None \in Locks \cup {None} /\ watched' \subseteq Procs
  BY <1>1 DEF IInv, TypeOK, Stages
<1>3. CASE held' = held /\ closing' = closing /\ count' \in [Procs -> Nat]
  BY <1>1, <1>2, <1>3, Walking
<1>4. CASE held[Home[c]] = lock[c] /\ LetGo(Home[c])
  <2>1. /\ pc' \in [Callers -> Stages] /\ lock' \in [Callers -> Locks \cup {None}]
        /\ pc'[c] = "idle"
        /\ \A d \in Callers \ {c} : pc'[d] = pc[d] /\ lock'[d] = lock[d]
    BY <1>1, <1>2, Going DEF IInv
  <2>2. held[Home[c]] # None
    BY <1>1, <1>4 DEF IInv, Reading
  <2> QED
    BY <1>1, <1>2, <1>4, <2>1, <2>2, LettingGo
<1>5. count' = [count EXCEPT ![Home[c]] = @ - 1] /\ count[Home[c]] > 1 => count' \in [Procs -> Nat]
  BY <1>1 DEF IInv, TypeOK
<1>6. count' = count => count' \in [Procs -> Nat]
  BY DEF IInv, TypeOK
<1> QED
  BY <1>3, <1>4, <1>5, <1>6 DEF Release

\* The watchdog lets go of a lock that is held for too long.
LEMMA WatchdogKeeps ==
  ASSUME IInv, ConstantsAssumption, NEW p \in Procs, Watchdog(p)
  PROVE  IInv'
<1>1. /\ held[p] # None /\ LetGo(p) /\ UNCHANGED <<alive, files>> /\ robbed' = robbed
      /\ watched' = watched /\ pc' = pc /\ lock' = lock
  BY DEF Watchdog
<1>2. /\ pc' \in [Callers -> Stages] /\ lock' \in [Callers -> Locks \cup {None}]
      /\ watched' \subseteq Procs
  BY <1>1 DEF IInv, TypeOK
<1> QED
  BY <1>1, <1>2, LettingGo

\* A release removes the file of the lock it has let go of.
LEMMA RemoveOwnKeeps ==
  ASSUME IInv, ConstantsAssumption, NEW p \in Procs, RemoveOwn(p)
  PROVE  IInv'
<1>1. PICK l \in closing[p] : closing' = [closing EXCEPT ![p] = @ \ {l}]
  BY DEF RemoveOwn
<1>2. /\ FileGone /\ alive' = alive /\ held' = held /\ count' = count
      /\ pc' = pc /\ lock' = lock /\ robbed' = robbed /\ Unwatched(p)
  BY DEF RemoveOwn
<1>3. /\ closing' \in [Procs -> SUBSET Locks] /\ closing'[p] = closing[p] \ {l}
      /\ \A q \in Procs \ {p} : closing'[q] = closing[q]
  BY <1>1 DEF IInv, TypeOK
<1>4. watched' \subseteq Procs
  BY <1>2 DEF IInv, TypeOK, Unwatched
<1>5. Living'
  BY <1>2, <1>3 DEF IInv, Living
<1>6. ASSUME ~robbed'
      PROVE  /\ \A q \in Procs : held'[q] = None /\ closing'[q] = {}
             /\ \A d \in Callers : ~Unwritten(d)'
  <2>1. Sound
    BY <1>2, <1>6 DEF IInv
  <2>2. file = l /\ full /\ maker = p /\ held[p] = None
    BY <2>1 DEF Sound, Closes
  <2>3. \A q \in Procs : held'[q] = None
    BY <1>2, <2>1, <2>2 DEF Sound, Holds
  <2>4. \A q \in Procs : \A k \in closing[q] : q = p /\ k = l
    BY <2>1, <2>2 DEF Sound, Closes
  <2>5. \A q \in Procs : closing'[q] = {}
    BY <1>3, <2>4
  <2>6. \A d \in Callers : ~Unwritten(d)'
    BY <1>2, <2>1, <2>2 DEF Sound, Writes, Unwritten
  <2> QED
    BY <2>3, <2>5, <2>6
<1> QED
  BY <1>2, <1>3, <1>4, <1>5, <1>6, FileGoes DEF IInv, TypeOK

\* A signal removes the file of the lock that is held.
LEMMA SignalKeeps ==
  ASSUME IInv, ConstantsAssumption, NEW p \in Procs, Signal(p)
  PROVE  IInv'
<1>1. /\ held[p] # None /\ FileGone /\ alive' = alive /\ closing' = closing
      /\ pc' = pc /\ lock' = lock /\ robbed' = robbed /\ Unwatched(p)
  BY DEF Signal
<1>2. /\ held' \in [Procs -> Locks \cup {None}] /\ held'[p] = None
      /\ \A q \in Procs \ {p} : held'[q] = held[q]
      /\ count' \in [Procs -> Nat]
  BY DEF IInv, TypeOK, Signal
<1>3. watched' \subseteq Procs
  BY <1>1 DEF IInv, TypeOK, Unwatched
<1>4. Living'
  BY <1>1, <1>2 DEF IInv, Living
<1>5. ASSUME ~robbed'
      PROVE  /\ \A q \in Procs : held'[q] = None /\ closing'[q] = {}
             /\ \A d \in Callers : ~Unwritten(d)'
  <2>1. Sound
    BY <1>1, <1>5 DEF IInv
  <2>2. file = held[p] /\ full /\ maker = p
    BY <1>1, <2>1 DEF Sound, Holds
  <2>3. \A q \in Procs : held'[q] = None
    BY <1>2, <2>1, <2>2 DEF Sound, Holds
  <2>4. \A q \in Procs : closing'[q] = {}
    BY <1>1, <2>1, <2>2 DEF Sound, Closes
  <2>5. \A d \in Callers : ~Unwritten(d)'
    BY <1>1, <2>1, <2>2 DEF Sound, Writes, Unwritten
  <2> QED
    BY <2>3, <2>4, <2>5
<1> QED
  BY <1>1, <1>2, <1>3, <1>4, <1>5, FileGoes DEF IInv, TypeOK

\* A process that ends holds nothing any more, whatever it leaves behind.
LEMMA EndsKeeps ==
  ASSUME IInv, ConstantsAssumption, NEW p \in Procs, Crash(p) \/ Exit(p)
  PROVE  IInv'
<1>1. /\ alive' = alive \ {p} /\ watched' = watched \ {p} /\ robbed' = robbed
      /\ Ends(p)
  BY DEF Crash, Exit, Ends
<1>2. /\ held' \in [Procs -> Locks \cup {None}] /\ held'[p] = None
      /\ \A q \in Procs \ {p} : held'[q] = held[q]
      /\ count' \in [Procs -> Nat]
      /\ closing' \in [Procs -> SUBSET Locks] /\ closing'[p] = {}
      /\ \A q \in Procs \ {p} : closing'[q] = closing[q]
  BY <1>1 DEF IInv, TypeOK, Ends
<1>3. /\ pc' \in [Callers -> Stages] /\ lock' \in [Callers -> Locks \cup {None}]
      /\ \A c \in Callers : \/ Home[c] = p /\ pc'[c] = "idle"
                            \/ Home[c] # p /\ pc'[c] = pc[c] /\ lock'[c] = lock[c]
  <2>1. /\ pc' = [c \in Callers |-> IF Home[c] = p THEN "idle" ELSE pc[c]]
        /\ lock' = [c \in Callers |-> IF Home[c] = p THEN None ELSE lock[c]]
    BY <1>1 DEF Ends
  <2>2. pc \in [Callers -> Stages] /\ lock \in [Callers -> Locks \cup {None}]
    BY DEF IInv, TypeOK
  <2>3. pc' \in [Callers -> Stages]
    BY <2>1, <2>2 DEF Stages
  <2>4. lock' \in [Callers -> Locks \cup {None}]
    BY <2>1, <2>2
  <2> QED
    BY <2>1, <2>3, <2>4
<1>4. alive' \subseteq Procs /\ watched' \subseteq Procs
  BY <1>1 DEF IInv, TypeOK
<1>5. Living'
  BY <1>1, <1>2, <1>3 DEF IInv, Living
<1>6. CASE UNCHANGED files
  <2>1. file' = file /\ full' = full /\ old' = old /\ maker' = maker
    BY <1>6 DEF files
  <2>2. TypeOK'
    BY <1>1, <1>2, <1>3, <1>4, <2>1 DEF IInv, TypeOK
  <2>3. Reading'
    BY <1>1, <1>3, <2>1 DEF IInv, Reading
  <2>4. ASSUME ~robbed PROVE Sound'
    <3>1. Holds' /\ Closes'
      BY <1>2, <2>1, <2>4 DEF IInv, Sound, Holds, Closes
    <3>2. Writes'
      BY <1>3, <2>1, <2>4 DEF IInv, Sound, Writes, Unwritten
    <3> QED
      BY <3>1, <3>2 DEF Sound
  <2> QED
    BY <1>1, <1>5, <2>2, <2>3, <2>4 DEF IInv
<1>7. CASE held[p] # None /\ FileGone
  <2>1. ASSUME ~robbed'
        PROVE  /\ \A q \in Procs : held'[q] = None /\ closing'[q] = {}
               /\ \A d \in Callers : ~Unwritten(d)'
    <3>1. Sound
      BY <1>1, <2>1 DEF IInv
    <3>2. file = held[p] /\ full /\ maker = p
      BY <1>7, <3>1 DEF Sound, Holds
    <3>3. \A q \in Procs : held'[q] = None
      BY <1>2, <3>1, <3>2 DEF Sound, Holds
    <3>4. \A q \in Procs : closing'[q] = {}
      BY <1>2, <3>1, <3>2 DEF Sound, Closes
    <3>5. \A d \in Callers : ~Unwritten(d)'
      BY <1>3, <3>1, <3>2 DEF Sound, Writes, Unwritten
    <3> QED
      BY <3>3, <3>4, <3>5
  <2>2. alive' \subseteq alive /\ robbed' \in BOOLEAN
    BY <1>1 DEF IInv, TypeOK
  <2> QED
    BY <1>2, <1>3, <1>4, <1>5, <1>7, <2>1, <2>2, FileGoes
<1> QED
  BY <1>6, <1>7 DEF Crash, Exit

\* Files age, and time passes.
LEMMA AgesKeeps ==
  ASSUME IInv, Ages \/ UNCHANGED vars
  PROVE  IInv'
<1>1. /\ alive' = alive /\ file' = file /\ full' = full /\ maker' = maker
      /\ held' = held /\ count' = count /\ closing' = closing /\ watched' = watched
      /\ pc' = pc /\ lock' = lock /\ robbed' = robbed
      /\ old' = old \/ old' = TRUE
  BY DEF Ages, vars
<1>2. TypeOK' /\ Living' /\ Reading'
  BY <1>1 DEF IInv, TypeOK, Living, Reading
<1>3. ASSUME ~robbed PROVE Sound'
  BY <1>1, <1>3 DEF IInv, Sound, Holds, Closes, Writes, Unwritten
<1> QED
  BY <1>1, <1>2, <1>3 DEF IInv

-----------------------------------------------------------------------------
(* The theorems *)

\* In the beginning nobody holds anything.
LEMMA InvInit == ConstantsAssumption /\ Init => IInv
<1> SUFFICES ASSUME ConstantsAssumption, Init PROVE IInv
  OBVIOUS
<1>1. alive \subseteq Procs
  BY DEF Init, ConstantsAssumption
<1>2. (CHOOSE l \in Locks : TRUE) \in Locks
  BY DEF ConstantsAssumption
<1>3. file \in Locks \cup {None} /\ maker \in Procs \cup {None} /\ full \in BOOLEAN
  BY <1>2 DEF Init
<1>4. TypeOK
  BY <1>1, <1>3 DEF Init, TypeOK, Stages
<1>5. Living /\ Reading /\ Sound
  BY DEF Init, Living, Reading, Sound, Holds, Closes, Writes, Unwritten
<1> QED
  BY <1>4, <1>5 DEF IInv

\* Every step keeps the invariant.
LEMMA InvNext ==
  ASSUME IInv, ConstantsAssumption, [Next]_vars
  PROVE  IInv'
<1>1. ASSUME NEW c \in Callers,
             GoesOn(c) \/ WriteFails(c) \/ GiveUp(c) \/ StartCleaning(c)
      PROVE  IInv'
  BY <1>1, AcquireKeeps, OpenKeeps, WriteKeeps, DiscardKeeps, LooksKeep, RemoveKeeps,
     ReleaseKeeps DEF GoesOn
<1>2. ASSUME NEW p \in Procs,
             RemoveOwn(p) \/ Watchdog(p) \/ Signal(p) \/ Crash(p) \/ Exit(p)
      PROVE  IInv'
  BY <1>2, RemoveOwnKeeps, WatchdogKeeps, SignalKeeps, EndsKeeps
<1>3. CASE Ages \/ UNCHANGED vars
  BY <1>3, AgesKeeps
<1> QED
  BY <1>1, <1>2, <1>3 DEF Next

\* The inductive invariant holds however callers, watchdogs, signals, crashes
\* and cleaners interleave.
THEOREM Invariance == Spec => []IInv
<1>1. Init => IInv
  BY InvInit, ConstantsAssumption
<1>2. IInv /\ [Next]_vars => IInv'
  BY InvNext, ConstantsAssumption
<1> QED
  BY <1>1, <1>2, PTL DEF Spec

\* The variables keep their types.
THEOREM TypesKept == Spec => []TypeOK
<1>1. IInv => TypeOK
  BY DEF IInv
<1> QED
  BY <1>1, Invariance, PTL

\* As long as nobody removes a lock file by mistake, one process has the lock.
THEOREM OneHolder == Spec => []Exclusive
<1>1. IInv => Exclusive
  BY DEF IInv, Sound, Holds, Exclusive
<1> QED
  BY <1>1, Invariance, PTL

-----------------------------------------------------------------------------
(* A lock that callers of one process share *)

\* Callers that have a lock file, with or without its payload, and those among
\* them that share the lock of a process.
Has(c) == pc[c] \in {"writing", "failing", "working"}
Users(p) == {c \in Callers : Home[c] = p /\ pc[c] = "working" /\ lock[c] = held[p]}

\* A lock belongs to one process, and while its payload is not written to one
\* caller, whoever removes files by mistake: nobody creates one that is known.
Apart ==
  /\ \A c \in Callers : Has(c) => lock[c] # None
  /\ \A c, d \in Callers : Has(c) /\ Has(d) /\ lock[c] = lock[d] => Home[c] = Home[d]
  /\ \A c \in Callers, p \in Procs : Has(c) /\ lock[c] = held[p] => Home[c] = p
  /\ \A p, q \in Procs : held[p] # None /\ held[p] = held[q] => p = q
  /\ \A c \in Callers : Unwritten(c) =>
       /\ \A d \in Callers \ {c} : Has(d) => lock[d] # lock[c]
       /\ \A p \in Procs : held[p] # lock[c]

\* The count of an entry is the number of callers that work with its lock.
Counted(p) ==
  held[p] # None => IsFiniteSet(Users(p)) /\ count[p] = Cardinality(Users(p))

Sharing == Apart /\ \A p \in Procs : Counted(p)

KInv == IInv /\ Sharing

\* Locks stay apart when callers only leave and entries only go.
LEMMA ApartStays ==
  ASSUME Apart,
         \A p \in Procs : held'[p] = held[p] \/ held'[p] = None,
         \A c \in Callers : Has(c)' => /\ Has(c) /\ lock'[c] = lock[c]
                                       /\ Unwritten(c)' => Unwritten(c)
  PROVE  Apart'
<1>1. \A c \in Callers : Has(c)' => lock'[c] # None
  BY DEF Apart
<1>2. \A c, d \in Callers : Has(c)' /\ Has(d)' /\ lock'[c] = lock'[d] => Home[c] = Home[d]
  BY DEF Apart
<1>3. \A c \in Callers, p \in Procs : Has(c)' /\ lock'[c] = held'[p] => Home[c] = p
  BY DEF Apart
<1>4. \A p, q \in Procs : held'[p] # None /\ held'[p] = held'[q] => p = q
  BY DEF Apart
<1>5. ASSUME NEW c \in Callers, Unwritten(c)'
      PROVE  /\ \A d \in Callers \ {c} : Has(d)' => lock'[d] # lock'[c]
             /\ \A p \in Procs : held'[p] # lock'[c]
  <2>1. Has(c)'
    BY <1>5 DEF Unwritten, Has
  <2>2. Unwritten(c) /\ lock'[c] = lock[c] /\ lock[c] # None
    BY <1>5, <2>1 DEF Apart
  <2> QED
    BY <2>2 DEF Apart
<1> QED
  BY <1>1, <1>2, <1>3, <1>4, <1>5 DEF Apart

\* A count stays right while its entry and those who share it stay.
LEMMA CountStays ==
  ASSUME NEW p \in Procs, Counted(p),
         \/ held'[p] = None
         \/ /\ held'[p] = held[p] /\ count'[p] = count[p]
            /\ \A c \in Callers : Home[c] = p =>
                 (pc'[c] = "working" /\ lock'[c] = held[p] <=> pc[c] = "working" /\ lock[c] = held[p])
  PROVE  Counted(p)'
<1>1. CASE held'[p] = None
  BY <1>1 DEF Counted
<1>2. CASE /\ held'[p] = held[p] /\ count'[p] = count[p]
           /\ \A c \in Callers : Home[c] = p =>
                (pc'[c] = "working" /\ lock'[c] = held[p] <=> pc[c] = "working" /\ lock[c] = held[p])
  <2>1. Users(p)' = Users(p)
    BY <1>2 DEF Users
  <2> QED
    BY <1>2, <2>1 DEF Counted
<1> QED
  BY <1>1, <1>2

\* Reads, waits, removals, failed writes, aging: nobody gets or loses a lock.
LEMMA OthersKeepCounts ==
  ASSUME KInv, ConstantsAssumption, NEW c \in Callers, NEW stage \in Stages,
         NEW l \in Locks \cup {None}, Goes(c, stage, l),
         held' = held, count' = count, pc[c] # "working",
         stage \notin {"writing", "working"},
         stage = "failing" => pc[c] = "writing" /\ l = lock[c]
  PROVE  Sharing'
<1>1. /\ pc'[c] = stage /\ lock'[c] = l
      /\ \A d \in Callers \ {c} : pc'[d] = pc[d] /\ lock'[d] = lock[d]
  BY Going DEF KInv, Sharing, IInv
<1>2. \A d \in Callers : Has(d)' => /\ Has(d) /\ lock'[d] = lock[d]
                                    /\ Unwritten(d)' => Unwritten(d)
  BY <1>1 DEF Has, Unwritten
<1>3. Apart'
  BY <1>2, ApartStays DEF KInv, Sharing
<1>4. ASSUME NEW p \in Procs PROVE Counted(p)'
  <2>1. \A d \in Callers : pc'[d] = "working" /\ lock'[d] = held[p]
                             <=> pc[d] = "working" /\ lock[d] = held[p]
    BY <1>1
  <2> QED
    BY <2>1, CountStays DEF KInv, Sharing
<1> QED
  BY <1>3, <1>4 DEF Sharing

\* A caller that shares the lock is counted.
LEMMA AcquireCounts ==
  ASSUME KInv, ConstantsAssumption, NEW c \in Callers, Acquire(c)
  PROVE  Sharing'
<1>1. pc[c] = "idle" /\ held' = held /\ Home[c] \in Procs
  BY DEF Acquire, At, ConstantsAssumption
<1>2. CASE Goes(c, "opening", None) /\ count' = count
  <2>1. "opening" \in Stages /\ None \in Locks \cup {None}
    BY DEF Stages
  <2> QED
    BY <1>1, <1>2, <2>1, OthersKeepCounts
<1>3. CASE /\ held[Home[c]] # None
           /\ count' = [count EXCEPT ![Home[c]] = @ + 1]
           /\ Goes(c, "working", held[Home[c]])
  <2> DEFINE p == Home[c]
  <2>1. /\ pc'[c] = "working" /\ lock'[c] = held[p]
        /\ \A d \in Callers \ {c} : pc'[d] = pc[d] /\ lock'[d] = lock[d]
    <3>1. "working" \in Stages /\ held[p] \in Locks \cup {None}
      BY <1>1 DEF KInv, Sharing, IInv, TypeOK, Stages
    <3> QED
      BY <1>3, <3>1, Going DEF KInv, Sharing, IInv
  <2>2. count'[p] = count[p] + 1 /\ \A q \in Procs \ {p} : count'[q] = count[q]
    BY <1>1, <1>3 DEF KInv, Sharing, IInv, TypeOK
  <2>3. Apart'
    <3>1. \A d \in Callers : Has(d)' => d = c \/ (Has(d) /\ lock'[d] = lock[d])
      BY <2>1 DEF Has
    <3>2. \A d \in Callers : Unwritten(d)' => Unwritten(d) /\ lock'[d] = lock[d] /\ d # c
      BY <2>1 DEF Unwritten
    <3>3. \A d \in Callers : Has(d)' => lock'[d] # None
      BY <1>3, <2>1, <3>1 DEF KInv, Sharing, Apart
    <3>4. \A d \in Callers, q \in Procs : Has(d)' /\ lock'[d] = held'[q] => Home[d] = q
      BY <1>1, <1>3, <2>1, <3>1 DEF KInv, Sharing, Apart
    <3>5. \A d, e \in Callers : Has(d)' /\ Has(e)' /\ lock'[d] = lock'[e] => Home[d] = Home[e]
      BY <1>1, <2>1, <3>1 DEF KInv, Sharing, Apart
    <3>6. ASSUME NEW d \in Callers, Unwritten(d)'
          PROVE  /\ \A e \in Callers \ {d} : Has(e)' => lock'[e] # lock'[d]
                 /\ \A q \in Procs : held'[q] # lock'[d]
      BY <1>1, <2>1, <3>1, <3>2, <3>6 DEF KInv, Sharing, Apart
    <3>7. \A q, r \in Procs : held'[q] # None /\ held'[q] = held'[r] => q = r
      BY <1>1 DEF KInv, Sharing, Apart
    <3> QED
      BY <3>3, <3>4, <3>5, <3>6, <3>7 DEF Apart
  <2>4. Counted(p)'
    <3>1. PICK U : U = Users(p)
      OBVIOUS
    <3>2. IsFiniteSet(U) /\ count[p] = Cardinality(U) /\ c \notin U
      BY <1>1, <1>3, <3>1 DEF KInv, Sharing, Counted, Users
    <3>3. IsFiniteSet(U \cup {c}) /\ Cardinality(U \cup {c}) = Cardinality(U) + 1
      BY <3>2, FS_AddElement
    <3>4. Users(p)' = U \cup {c}
      BY <1>1, <2>1, <3>1 DEF Users
    <3> QED
      BY <2>2, <3>2, <3>3, <3>4 DEF Counted
  <2>5. ASSUME NEW q \in Procs \ {p} PROVE Counted(q)'
    <3>1. \A d \in Callers : Home[d] = q =>
            (pc'[d] = "working" /\ lock'[d] = held[q] <=> pc[d] = "working" /\ lock[d] = held[q])
      BY <2>1
    <3> QED
      BY <1>1, <2>2, <3>1, CountStays DEF KInv, Sharing
  <2> QED
    BY <2>3, <2>4, <2>5 DEF Sharing
<1> QED
  BY <1>2, <1>3 DEF Acquire

\* A new file is nobody's yet.
LEMMA OpenCounts ==
  ASSUME KInv, ConstantsAssumption, NEW c \in Callers, Open(c)
  PROVE  Sharing'
<1>1. /\ pc[c] \in {"opening", "waiting"} /\ held' = held /\ count' = count
  BY DEF Open, At
<1>2. CASE Goes(c, "inspecting", None)
  <2>1. "inspecting" \in Stages /\ None \in Locks \cup {None}
    BY DEF Stages
  <2> QED
    BY <1>1, <1>2, <2>1, OthersKeepCounts
<1>3. CASE Unknown # {} /\ Goes(c, "writing", NewLock)
  <2>1. PICK l \in Locks : l = NewLock
    BY <1>3, NewIsUnknown
  <2>2. /\ \A d \in Callers : lock[d] # l
        /\ \A p \in Procs : held[p] # l
    BY <1>3, <2>1, NewIsUnknown
  <2>3. /\ pc'[c] = "writing" /\ lock'[c] = l
        /\ \A d \in Callers \ {c} : pc'[d] = pc[d] /\ lock'[d] = lock[d]
    <3>1. "writing" \in Stages /\ l \in Locks \cup {None}
      BY DEF Stages
    <3> QED
      BY <1>3, <2>1, <3>1, Going DEF KInv, Sharing, IInv
  <2>4. Apart'
    <3>1. \A d \in Callers : Has(d)' => d = c \/ (Has(d) /\ lock'[d] = lock[d])
      BY <2>3 DEF Has
    <3>2. \A d \in Callers : Unwritten(d)' => d = c \/ (Unwritten(d) /\ lock'[d] = lock[d])
      BY <2>3 DEF Unwritten
    <3>3. \A d \in Callers : Has(d)' => lock'[d] # None
      BY <2>3, <3>1 DEF KInv, Sharing, Apart, ConstantsAssumption
    <3>4. \A d \in Callers, q \in Procs : Has(d)' /\ lock'[d] = held'[q] => Home[d] = q
      BY <1>1, <2>2, <2>3, <3>1 DEF KInv, Sharing, Apart
    <3>5. \A d, e \in Callers : Has(d)' /\ Has(e)' /\ lock'[d] = lock'[e] => Home[d] = Home[e]
      BY <2>2, <2>3, <3>1 DEF KInv, Sharing, Apart
    <3>6. ASSUME NEW d \in Callers, Unwritten(d)'
          PROVE  /\ \A e \in Callers \ {d} : Has(e)' => lock'[e] # lock'[d]
                 /\ \A q \in Procs : held'[q] # lock'[d]
      <4>1. CASE d = c
        BY <1>1, <2>2, <2>3, <4>1
      <4>2. CASE d # c
        BY <1>1, <2>2, <2>3, <3>1, <3>2, <3>6, <4>2 DEF KInv, Sharing, Apart
      <4> QED
        BY <4>1, <4>2
    <3>7. \A q, r \in Procs : held'[q] # None /\ held'[q] = held'[r] => q = r
      BY <1>1 DEF KInv, Sharing, Apart
    <3> QED
      BY <3>3, <3>4, <3>5, <3>6, <3>7 DEF Apart
  <2>5. ASSUME NEW p \in Procs PROVE Counted(p)'
    <3>1. \A d \in Callers : pc'[d] = "working" /\ lock'[d] = held[p]
                               <=> pc[d] = "working" /\ lock[d] = held[p]
      BY <1>1, <2>3
    <3> QED
      BY <1>1, <3>1, CountStays DEF KInv, Sharing
  <2> QED
    BY <2>4, <2>5 DEF Sharing
<1> QED
  BY <1>2, <1>3 DEF Open

\* Who has written the payload is the first to work with the lock.
LEMMA WriteCounts ==
  ASSUME KInv, ConstantsAssumption, NEW c \in Callers, Write(c)
  PROVE  Sharing'
<1>1. pc[c] = "writing" /\ Home[c] \in Procs
  BY DEF Write, At, ConstantsAssumption
<1>2. PICK p \in Procs : p = Home[c]
  BY <1>1
<1>3. /\ held'[p] = lock[c] /\ count'[p] = 1
      /\ \A q \in Procs \ {p} : held'[q] = held[q] /\ count'[q] = count[q]
  BY <1>2 DEF KInv, Sharing, IInv, TypeOK, Write
<1>4. /\ pc'[c] = "working" /\ lock'[c] = lock[c]
      /\ \A d \in Callers \ {c} : pc'[d] = pc[d] /\ lock'[d] = lock[d]
  <2>1. "working" \in Stages /\ lock[c] \in Locks \cup {None}
    BY DEF KInv, Sharing, IInv, TypeOK, Stages
  <2> QED
    BY <2>1, Going DEF KInv, Sharing, IInv, Write
<1>5. /\ lock[c] # None
      /\ \A d \in Callers \ {c} : Has(d) => lock[d] # lock[c]
      /\ \A q \in Procs : held[q] # lock[c]
  BY <1>1 DEF KInv, Sharing, Apart, Unwritten, Has
<1>6. \A d \in Callers : Has(d)' => Has(d) /\ lock'[d] = lock[d]
  BY <1>1, <1>4 DEF Has
<1>7. Apart'
  <2>1. \A d \in Callers : Unwritten(d)' => d # c /\ Unwritten(d) /\ lock'[d] = lock[d]
    BY <1>4 DEF Unwritten
  <2>2. \A d \in Callers : Has(d)' => lock'[d] # None
    BY <1>6 DEF KInv, Sharing, Apart
  <2>3. \A d, e \in Callers : Has(d)' /\ Has(e)' /\ lock'[d] = lock'[e] => Home[d] = Home[e]
    BY <1>6 DEF KInv, Sharing, Apart
  <2>4. \A d \in Callers, q \in Procs : Has(d)' /\ lock'[d] = held'[q] => Home[d] = q
    BY <1>2, <1>3, <1>5, <1>6 DEF KInv, Sharing, Apart
  <2>5. \A q, r \in Procs : held'[q] # None /\ held'[q] = held'[r] => q = r
    BY <1>3, <1>5 DEF KInv, Sharing, Apart
  <2>6. ASSUME NEW d \in Callers, Unwritten(d)'
        PROVE  /\ \A e \in Callers \ {d} : Has(e)' => lock'[e] # lock'[d]
               /\ \A q \in Procs : held'[q] # lock'[d]
    <3>1. d # c /\ Unwritten(d) /\ lock'[d] = lock[d]
      BY <2>1, <2>6
    <3>2. \A e \in Callers \ {d} : Has(e)' => lock'[e] # lock'[d]
      BY <1>6, <3>1 DEF KInv, Sharing, Apart
    <3>3. lock[d] # lock[c]
      BY <1>5, <3>1 DEF Unwritten, Has
    <3>4. \A q \in Procs : held'[q] # lock'[d]
      BY <1>3, <3>1, <3>3 DEF KInv, Sharing, Apart
    <3> QED
      BY <3>2, <3>4
  <2> QED
    BY <2>2, <2>3, <2>4, <2>5, <2>6 DEF Apart
<1>8. Counted(p)'
  <2>1. Users(p)' = {c}
    <3>1. \A d \in Callers \ {c} : ~(pc'[d] = "working" /\ lock'[d] = held'[p])
      BY <1>3, <1>4, <1>5 DEF Has
    <3>2. Home[c] = p /\ pc'[c] = "working" /\ lock'[c] = held'[p]
      BY <1>2, <1>3, <1>4
    <3> QED
      BY <3>1, <3>2 DEF Users
  <2>2. IsFiniteSet({c}) /\ Cardinality({c}) = 1
    BY FS_Singleton
  <2> QED
    BY <1>3, <2>1, <2>2 DEF Counted
<1>9. ASSUME NEW q \in Procs \ {p} PROVE Counted(q)'
  <2>1. \A d \in Callers : Home[d] = q =>
          (pc'[d] = "working" /\ lock'[d] = held[q] <=> pc[d] = "working" /\ lock[d] = held[q])
    BY <1>2, <1>4
  <2> QED
    BY <1>3, <2>1, CountStays DEF KInv, Sharing
<1> QED
  BY <1>7, <1>8, <1>9 DEF Sharing

\* A handle that releases the lock is not counted any more.
LEMMA ReleaseCounts ==
  ASSUME KInv, ConstantsAssumption, NEW c \in Callers, Release(c)
  PROVE  Sharing'
<1>1. pc[c] = "working" /\ Home[c] \in Procs
  BY DEF Release, At, ConstantsAssumption
<1>2. PICK p \in Procs : p = Home[c]
  BY <1>1
<1>3. /\ pc'[c] = "idle" /\ lock'[c] = None
      /\ \A d \in Callers \ {c} : pc'[d] = pc[d] /\ lock'[d] = lock[d]
  <2>1. "idle" \in Stages /\ None \in Locks \cup {None}
    BY DEF Stages
  <2> QED
    BY <2>1, Going DEF KInv, Sharing, IInv, Release
<1>4. \A d \in Callers : Has(d)' => /\ Has(d) /\ lock'[d] = lock[d]
                                    /\ Unwritten(d)' => Unwritten(d)
  BY <1>3 DEF Has, Unwritten
<1>5. /\ held'[p] = held[p] \/ held'[p] = None
      /\ \A q \in Procs \ {p} : held'[q] = held[q] /\ count'[q] = count[q]
  BY <1>2 DEF KInv, Sharing, IInv, TypeOK, Release, LetGo
<1>6. Apart'
  BY <1>4, <1>5, ApartStays DEF KInv, Sharing
<1>7. ASSUME NEW q \in Procs \ {p} PROVE Counted(q)'
  <2>1. \A d \in Callers : Home[d] = q =>
          (pc'[d] = "working" /\ lock'[d] = held[q] <=> pc[d] = "working" /\ lock[d] = held[q])
    BY <1>2, <1>3 DEF Sharing
  <2> QED
    BY <1>5, <2>1, CountStays DEF KInv, Sharing
<1>8. Counted(p)'
  <2>1. CASE held[p] # lock[c] /\ held' = held /\ count' = count
    <3>1. \A d \in Callers : Home[d] = p =>
            (pc'[d] = "working" /\ lock'[d] = held[p] <=> pc[d] = "working" /\ lock[d] = held[p])
      BY <1>3, <2>1
    <3> QED
      BY <2>1, <3>1, CountStays DEF KInv, Sharing
  <2>2. CASE held[p] = lock[c] /\ held' = held /\ count' = [count EXCEPT ![p] = @ - 1]
    <3>1. PICK U : U = Users(p)
      OBVIOUS
    <3>2. c \in U /\ lock[c] # None
      BY <1>1, <1>2, <2>2, <3>1 DEF KInv, Sharing, Apart, Has, Users
    <3>3. IsFiniteSet(U) /\ count[p] = Cardinality(U)
      BY <2>2, <3>1, <3>2 DEF KInv, Sharing, Counted
    <3>4. IsFiniteSet(U \ {c}) /\ Cardinality(U \ {c}) = Cardinality(U) - 1
      BY <3>2, <3>3, FS_RemoveElement
    <3>5. Users(p)' = U \ {c}
      BY <1>3, <2>2, <3>1 DEF Users
    <3>6. count'[p] = count[p] - 1
      BY <2>2 DEF KInv, Sharing, IInv, TypeOK
    <3> QED
      BY <3>3, <3>4, <3>5, <3>6 DEF Counted
  <2>3. CASE LetGo(p)
    <3>1. held'[p] = None
      BY <2>3 DEF KInv, Sharing, IInv, TypeOK, LetGo
    <3> QED
      BY <3>1, CountStays DEF KInv, Sharing
  <2> QED
    BY <1>2, <2>1, <2>2, <2>3 DEF Release
<1> QED
  BY <1>6, <1>7, <1>8 DEF Sharing

\* Whoever lets go of a whole entry, or ends, leaves the others' counts alone.
LEMMA LostCounts ==
  ASSUME KInv, ConstantsAssumption, NEW p \in Procs, RemoveOwn(p) \/ Lost(p)
  PROVE  Sharing'
<1>1. /\ \/ held' = held /\ count' = count
         \/ /\ held' = [held EXCEPT ![p] = None]
            /\ count' = [count EXCEPT ![p] = 0]
      /\ \/ pc' = pc /\ lock' = lock
         \/ /\ pc' = [c \in Callers |-> IF Home[c] = p THEN "idle" ELSE pc[c]]
            /\ lock' = [c \in Callers |-> IF Home[c] = p THEN None ELSE lock[c]]
            /\ held' = [held EXCEPT ![p] = None]
  BY DEF RemoveOwn, Lost, Watchdog, Signal, Crash, Exit, Ends, LetGo
<1>2. /\ held'[p] = None \/ (held'[p] = held[p] /\ count'[p] = count[p])
      /\ \A q \in Procs \ {p} : held'[q] = held[q] /\ count'[q] = count[q]
  BY <1>1 DEF KInv, Sharing, IInv, TypeOK
<1>3. /\ \A c \in Callers : \/ pc'[c] = pc[c] /\ lock'[c] = lock[c]
                            \/ Home[c] = p /\ pc'[c] = "idle"
      /\ held'[p] = None \/ (pc' = pc /\ lock' = lock)
  BY <1>1 DEF KInv, Sharing, IInv, TypeOK
<1>4. \A c \in Callers : Has(c)' => /\ Has(c) /\ lock'[c] = lock[c]
                                    /\ Unwritten(c)' => Unwritten(c)
  BY <1>3 DEF Has, Unwritten
<1>5. Apart'
  BY <1>2, <1>4, ApartStays DEF KInv, Sharing
<1>6. ASSUME NEW q \in Procs PROVE Counted(q)'
  <2>1. CASE held'[q] = None
    BY <2>1, CountStays DEF KInv, Sharing
  <2>2. CASE held'[q] # None
    <3>1. held'[q] = held[q] /\ count'[q] = count[q]
      BY <1>2, <2>2
    <3>2. \A c \in Callers : Home[c] = q =>
            (pc'[c] = "working" /\ lock'[c] = held[q] <=> pc[c] = "working" /\ lock[c] = held[q])
      BY <1>3, <2>2
    <3> QED
      BY <3>1, <3>2, CountStays DEF KInv, Sharing
  <2> QED
    BY <2>1, <2>2
<1> QED
  BY <1>5, <1>6 DEF Sharing

\* Files age, and time passes.
LEMMA AgesCounts ==
  ASSUME KInv, Ages \/ UNCHANGED vars
  PROVE  Sharing'
<1>1. held' = held /\ count' = count /\ pc' = pc /\ lock' = lock
  BY DEF Ages, vars
<1>2. Apart'
  BY <1>1 DEF KInv, Sharing, Apart, Has, Unwritten
<1>3. \A p \in Procs : Counted(p)'
  BY <1>1, CountStays DEF KInv, Sharing
<1> QED
  BY <1>2, <1>3 DEF Sharing

\* What callers do on their way to a lock, or away from the file of one.
LEMMA LooksCount ==
  ASSUME KInv, ConstantsAssumption, NEW c \in Callers,
         \/ WriteFails(c) \/ Discard(c) \/ Inspect(c) \/ Ask(c)
         \/ Remove(c) \/ GiveUp(c) \/ StartCleaning(c) \/ Examine(c)
  PROVE  Sharing'
<1>1. held' = held /\ count' = count /\ pc[c] # "working"
  BY DEF WriteFails, Discard, Inspect, Ask, Remove, GiveUp, StartCleaning, Examine, At
<1>2. \/ pc[c] = "writing" /\ Goes(c, "failing", lock[c])
      \/ Goes(c, "asking", None) \/ Goes(c, "waiting", None) \/ Goes(c, "idle", None)
      \/ Goes(c, "removing", file) \/ Goes(c, "cleaning", file)
      \/ Goes(c, "listing", None)
  BY DEF WriteFails, Discard, Inspect, Ask, Remove, GiveUp, StartCleaning, Examine, At
<1>3. /\ "failing" \in Stages /\ "asking" \in Stages /\ "removing" \in Stages
      /\ "waiting" \in Stages /\ "idle" \in Stages /\ "cleaning" \in Stages
      /\ "listing" \in Stages
      /\ None \in Locks \cup {None} /\ file \in Locks \cup {None} /\ lock[c] \in Locks \cup {None}
  BY DEF KInv, Sharing, IInv, TypeOK, Stages
<1>4. CASE pc[c] = "writing" /\ Goes(c, "failing", lock[c])
  BY <1>1, <1>3, <1>4, OthersKeepCounts
<1>5. CASE Goes(c, "asking", None)
  BY <1>1, <1>3, <1>5, OthersKeepCounts
<1>6. CASE Goes(c, "waiting", None)
  BY <1>1, <1>3, <1>6, OthersKeepCounts
<1>7. CASE Goes(c, "idle", None)
  BY <1>1, <1>3, <1>7, OthersKeepCounts
<1>8. CASE Goes(c, "removing", file)
  BY <1>1, <1>3, <1>8, OthersKeepCounts
<1>9. CASE Goes(c, "cleaning", file)
  BY <1>1, <1>3, <1>9, OthersKeepCounts
<1>10. CASE Goes(c, "listing", None)
  BY <1>1, <1>3, <1>10, OthersKeepCounts
<1> QED
  BY <1>2, <1>4, <1>5, <1>6, <1>7, <1>8, <1>9, <1>10

\* Every step keeps locks apart and counts right.
LEMMA CountsNext ==
  ASSUME KInv, ConstantsAssumption, [Next]_vars
  PROVE  KInv'
<1>1. IInv'
  BY InvNext DEF KInv
<1>2. ASSUME NEW c \in Callers,
             GoesOn(c) \/ WriteFails(c) \/ GiveUp(c) \/ StartCleaning(c)
      PROVE  Sharing'
  BY <1>2, AcquireCounts, OpenCounts, WriteCounts, ReleaseCounts, LooksCount DEF GoesOn
<1>3. ASSUME NEW p \in Procs,
             RemoveOwn(p) \/ Watchdog(p) \/ Signal(p) \/ Crash(p) \/ Exit(p)
      PROVE  Sharing'
  BY <1>3, LostCounts DEF Lost
<1>4. ASSUME Ages \/ UNCHANGED vars PROVE Sharing'
  BY <1>4, AgesCounts
<1>5. Sharing'
  BY <1>2, <1>3, <1>4 DEF Next
<1> QED
  BY <1>1, <1>5 DEF KInv

\* The counts of HELD_LOCKS are right in every state, whether or not lock files
\* were removed by mistake.
THEOREM CountsAreRight == Spec => []KInv
<1>1. Init => KInv
  <2> SUFFICES ASSUME Init PROVE KInv
    OBVIOUS
  <2>1. Sharing
    BY DEF Init, Sharing, Apart, Counted, Has, Unwritten
  <2> QED
    BY <2>1, InvInit, ConstantsAssumption DEF KInv, Sharing
<1>2. KInv /\ [Next]_vars => KInv'
  BY CountsNext, ConstantsAssumption
<1> QED
  BY <1>1, <1>2, PTL DEF Spec

\* While nobody was robbed, a process that creates a lock file has no entry yet.
LEMMA WritersHoldNothing ==
  ASSUME KInv, ~robbed, NEW c \in Callers, Write(c), NEW p \in Procs
  PROVE  held[p] = None
<1>1. ~full
  BY DEF Write, At, KInv, IInv, Sound, Writes, Unwritten
<1> QED
  BY <1>1 DEF KInv, Sharing, IInv, Sound, Holds

\* A handle that lets go of an entry was the last to share its lock.
LEMMA LastOneOut ==
  ASSUME KInv, ConstantsAssumption, NEW c \in Callers, Release(c),
         NEW p \in Procs, held[p] # None, held'[p] # held[p],
         NEW d \in Callers, pc'[d] = "working"
  PROVE  lock'[d] # held[p]
<1>1. pc[c] = "working" /\ Home[c] \in Procs
  BY DEF Release, At, ConstantsAssumption
<1>2. /\ p = Home[c] /\ held[p] = lock[c] /\ ~(count[p] > 1)
  BY <1>1 DEF KInv, Sharing, IInv, TypeOK, Release, LetGo
<1>3. d # c /\ pc[d] = "working" /\ lock'[d] = lock[d]
  <2>1. /\ pc'[c] = "idle"
        /\ \A e \in Callers \ {c} : pc'[e] = pc[e] /\ lock'[e] = lock[e]
    <3>1. "idle" \in Stages /\ None \in Locks \cup {None}
      BY DEF Stages
    <3> QED
      BY <3>1, Going DEF KInv, Sharing, IInv, Release
  <2> QED
    BY <2>1
<1>4. ASSUME lock[d] = held[p] PROVE FALSE
  <2>1. PICK U : U = Users(p)
    OBVIOUS
  <2>2. IsFiniteSet(U) /\ count[p] = Cardinality(U)
    BY <2>1 DEF KInv, Sharing, Counted
  <2>3. c \in U /\ d \in U
    BY <1>1, <1>2, <1>3, <1>4, <2>1 DEF KInv, Sharing, Apart, Has, Users
  <2>4. IsFiniteSet(U \ {c}) /\ Cardinality(U \ {c}) = Cardinality(U) - 1
    BY <2>2, <2>3, FS_RemoveElement
  <2>5. Cardinality(U \ {c}) \in Nat /\ (Cardinality(U \ {c}) = 0 <=> U \ {c} = {})
    BY <2>4, FS_CardinalityType, FS_EmptySet
  <2>6. d \in U \ {c}
    BY <1>3, <2>3
  <2>7. Cardinality(U) \in Nat
    BY <2>2, FS_CardinalityType
  <2> QED
    BY <1>2, <2>2, <2>4, <2>5, <2>6, <2>7
<1> QED
  BY <1>3, <1>4

\* The lock of a process stays while one of its callers works with it, unless the
\* watchdog, a signal or the end of the process takes it, or a file was removed
\* by mistake before.
THEOREM SharedLocksStay == Spec => KeptForUsers
<1>1. KInv /\ [Next]_vars =>
        [\A p \in Procs : held[p] # None /\ held'[p] # held[p] =>
           robbed \/ Lost(p) \/ \A c \in Callers : pc'[c] = "working" => lock'[c] # held[p]]_vars
  <2> SUFFICES ASSUME KInv, Next, NEW p \in Procs, held[p] # None, held'[p] # held[p],
                      ~robbed, ~Lost(p), NEW d \in Callers, pc'[d] = "working"
               PROVE  lock'[d] # held[p]
    BY DEF vars
  <2>1. ASSUME NEW c \in Callers,
               GoesOn(c) \/ WriteFails(c) \/ GiveUp(c) \/ StartCleaning(c)
        PROVE  lock'[d] # held[p]
    <3>1. CASE Write(c)
      BY <3>1, WritersHoldNothing
    <3>2. CASE Release(c)
      BY <3>2, LastOneOut, ConstantsAssumption
    <3>3. CASE \/ Acquire(c) \/ Open(c) \/ Discard(c) \/ Inspect(c) \/ Ask(c) \/ Remove(c)
               \/ WriteFails(c) \/ GiveUp(c) \/ StartCleaning(c) \/ Examine(c)
      BY <3>3 DEF Acquire, Open, Discard, Inspect, Ask, Remove, WriteFails, GiveUp,
                  StartCleaning, Examine
    <3> QED
      BY <2>1, <3>1, <3>2, <3>3 DEF GoesOn
  <2>2. ASSUME NEW q \in Procs,
               RemoveOwn(q) \/ Watchdog(q) \/ Signal(q) \/ Crash(q) \/ Exit(q)
        PROVE  lock'[d] # held[p]
    <3>1. p # q => held'[p] = held[p]
      BY <2>2 DEF KInv, Sharing, IInv, TypeOK, RemoveOwn, Watchdog, Signal, Crash, Exit, Ends, LetGo
    <3>2. p = q => held'[p] = held[p]
      BY <2>2 DEF RemoveOwn, Lost
    <3> QED
      BY <3>1, <3>2
  <2>3. ASSUME Ages PROVE lock'[d] # held[p]
    BY <2>3 DEF Ages
  <2> QED
    BY <2>1, <2>2, <2>3 DEF Next
<1> QED
  BY <1>1, CountsAreRight, PTL DEF Spec, KeptForUsers
=============================================================================
