---------------------------- MODULE ReplyRunsProofs ----------------------------
(***************************************************************************)
(* Proofs about the registry of runs, for any number of keys, session ids, *)
(* operations and waiters.                                                 *)
(***************************************************************************)
EXTENDS ReplyRuns, TLAPS

\* The registry and the operations agree: the operations that have not cleared
\* their state are those the registry has, each under its own key.  An owner
\* whose operation has no result is among them.
RegistryOK ==
  /\ \A k \in Keys : active[k] # None => /\ active[k] \in Ops \ cleared
                                         /\ key[active[k]] = k
  /\ \A o \in Ops : o \notin cleared => /\ phase[o] # "gone"
                                        /\ active[key[o]] = o
  /\ \A o \in Ops : phase[o] # "gone" =>
       /\ key[o] \in Keys
       /\ session[o] \in Ids
       /\ Owner[session[o]] = key[o]
       /\ result[o] = "none" => o \notin cleared

\* Only owners run backends, and one at work has an operation without a result.
BackendsOK ==
  \A o \in Ops :
    /\ backend[o] # "none" => phase[o] # "gone"
    /\ backend[o] = "working" => result[o] = "none"

\* The ids an active operation has had belong to its key and lead to it.
HeldOK ==
  \A o \in Ops \ cleared : \A s \in held[o] : Owner[s] = key[o] /\ waitKey[s] = key[o]

\* A waiter is at one key, which has a run: the one it waits for.
WaitersOK ==
  /\ \A k \in Keys : \A w \in waitersOn[k] :
       /\ told[w] = "waiting"
       /\ active[k] # None
       /\ awaits[w] \subseteq {active[k]}
       /\ \A l \in Keys : w \in waitersOn[l] => l = k
  /\ \A w \in Waiters : told[w] = "waiting" => \E k \in Keys : w \in waitersOn[k]
  /\ ToldTheTruth

IInv == TypeOK /\ RegistryOK /\ BackendsOK /\ IndexesAgree /\ HeldOK /\ WaitersOK

-----------------------------------------------------------------------------
(* What the clearing of operations and the choice of those to abort come to *)

\* Clear(S) as seen from the registry.
Dropped(S) ==
  /\ cleared' = cleared \cup S
  /\ active' = [k \in Keys |-> IF active[k] \in S THEN None ELSE active[k]]
  /\ idOf' = [k \in Keys |-> IF active[k] \in S THEN None ELSE idOf[k]]
  /\ keyOf' = [s \in Ids |-> IF keyOf[s] # None /\ active[keyOf[s]] \in S
                             THEN None ELSE keyOf[s]]
  /\ waitKey' = [s \in Ids |-> IF waitKey[s] # None /\ active[waitKey[s]] \in S
                               THEN None ELSE waitKey[s]]
  /\ waitersOn' = [k \in Keys |-> IF active[k] \in S THEN {} ELSE waitersOn[k]]
  /\ told' = [w \in Waiters |-> IF \E k \in Keys : active[k] \in S /\ w \in waitersOn[k]
                                THEN "ended" ELSE told[w]]
  /\ awaits' = [w \in Waiters |-> awaits[w] \ (S \ cleared)]

\* Clearing by key takes away the entries of the operations of S that are in
\* the registry, and nothing else.
LEMMA ClearDrops ==
  ASSUME ConstantsAssumption, TypeOK, RegistryOK, IndexesAgree,
         NEW S, S \subseteq Ops, Clear(S)
  PROVE  Dropped(S)
<1> DEFINE C == ToClear(S)
           ks == {key[o] : o \in C}
<1>1. C = S \ cleared
  BY DEF ToClear
<1>2. \A k \in Keys : k \in ks <=> active[k] \in S
  <2> SUFFICES ASSUME NEW k \in Keys
               PROVE  k \in ks <=> active[k] \in S
    OBVIOUS
  <2>1. ASSUME NEW o \in C, k = key[o]
        PROVE  active[k] \in S
    BY <1>1, <2>1 DEF RegistryOK
  <2>2. ASSUME active[k] \in S
        PROVE  active[k] \in C /\ key[active[k]] = k
    BY <1>1, <2>2 DEF RegistryOK, ConstantsAssumption
  <2> QED
    BY <2>1, <2>2
<1>3. ks \subseteq Keys
  BY <1>1 DEF RegistryOK
<1>4. \A s \in Ids : (\E o \in C : s = session[o] /\ keyOf[s] = key[o])
                     <=> keyOf[s] # None /\ active[keyOf[s]] \in S
  <2> SUFFICES ASSUME NEW s \in Ids
               PROVE  (\E o \in C : s = session[o] /\ keyOf[s] = key[o])
                      <=> keyOf[s] # None /\ active[keyOf[s]] \in S
    OBVIOUS
  <2>1. ASSUME NEW o \in C, s = session[o], keyOf[s] = key[o]
        PROVE  keyOf[s] # None /\ active[keyOf[s]] \in S
    BY <1>1, <2>1 DEF RegistryOK, TypeOK, ConstantsAssumption
  <2>2. ASSUME keyOf[s] # None, active[keyOf[s]] \in S
        PROVE  \E o \in C : s = session[o] /\ keyOf[s] = key[o]
    <3>1. keyOf[s] \in Keys
      BY <2>2 DEF TypeOK
    <3>2. active[keyOf[s]] # None
      BY <2>2 DEF ConstantsAssumption
    <3>3. active[keyOf[s]] \in C /\ key[active[keyOf[s]]] = keyOf[s]
      BY <1>1, <2>2, <3>1, <3>2 DEF RegistryOK
    <3>4. session[active[keyOf[s]]] = s
      BY <2>2, <3>1, <3>2 DEF IndexesAgree
    <3> QED
      BY <3>3, <3>4
  <2> QED
    BY <2>1, <2>2
<1>5. {active[k] : k \in ks} = S \ cleared
  BY <1>1, <1>3 DEF RegistryOK
<1>6. /\ cleared' = cleared \cup C
      /\ active' = [k \in Keys |-> IF k \in ks THEN None ELSE active[k]]
      /\ idOf' = [k \in Keys |-> IF k \in ks THEN None ELSE idOf[k]]
      /\ keyOf' = [s \in Ids |-> IF \E o \in C : s = session[o] /\ keyOf[s] = key[o]
                                 THEN None ELSE keyOf[s]]
      /\ waitKey' = [s \in Ids |-> IF waitKey[s] \in ks THEN None ELSE waitKey[s]]
      /\ waitersOn' = [k \in Keys |-> IF k \in ks THEN {} ELSE waitersOn[k]]
      /\ Notified(ks)
  BY DEF Clear
<1> HIDE DEF C, ks
<1>7. cleared' = cleared \cup S
  BY <1>1, <1>6
<1>8. active' = [k \in Keys |-> IF active[k] \in S THEN None ELSE active[k]]
  BY <1>2, <1>6
<1>9. idOf' = [k \in Keys |-> IF active[k] \in S THEN None ELSE idOf[k]]
  BY <1>2, <1>6
<1>10. keyOf' = [s \in Ids |-> IF keyOf[s] # None /\ active[keyOf[s]] \in S
                               THEN None ELSE keyOf[s]]
  BY <1>4, <1>6
<1>11. waitKey' = [s \in Ids |-> IF waitKey[s] # None /\ active[waitKey[s]] \in S
                                 THEN None ELSE waitKey[s]]
  <2>1. \A s \in Ids : waitKey[s] \in ks <=> waitKey[s] # None /\ active[waitKey[s]] \in S
    BY <1>2, <1>3 DEF TypeOK, ConstantsAssumption
  <2> QED
    BY <2>1, <1>6
<1>12. waitersOn' = [k \in Keys |-> IF active[k] \in S THEN {} ELSE waitersOn[k]]
  BY <1>2, <1>6
<1>13. told' = [w \in Waiters |-> IF \E k \in Keys : active[k] \in S /\ w \in waitersOn[k]
                                  THEN "ended" ELSE told[w]]
  <2>1. \A w \in Waiters : (\E k \in ks : w \in waitersOn[k])
                           <=> \E k \in Keys : active[k] \in S /\ w \in waitersOn[k]
    BY <1>2, <1>3
  <2> QED
    BY <2>1, <1>6 DEF Notified
<1>14. awaits' = [w \in Waiters |-> awaits[w] \ (S \ cleared)]
  BY <1>5, <1>6 DEF Notified
<1> QED
  BY <1>7, <1>8, <1>9, <1>10, <1>11, <1>12, <1>13, <1>14 DEF Dropped

\* Runs are looked for in the registry.
LEMMA RunsAreActive ==
  ASSUME TypeOK, RegistryOK, NEW ks, ks \subseteq Keys
  PROVE  RunsOf(ks) \subseteq Ops \ cleared
BY DEF TypeOK, RegistryOK, RunsOf

\* Every step is one of these: the aborts differ in the operations they take,
\* and all of them are in the registry; a waiter by session id waits at the key
\* of the operations it asked for.
LEMMA NextCases ==
  ASSUME ConstantsAssumption, IInv, Next
  PROVE  \/ \E o \in Ops, k \in Keys, s \in Ids : Begin(o, k, s)
         \/ \E o \in Ops, s \in Ids : UpdateSessionId(o, s)
         \/ \E o \in Ops : \/ SetPhase(o) \/ AttachBackend(o) \/ DetachBackend(o)
                          \/ Fail(o) \/ Complete(o) \/ RaiseSignal(o)
         \/ \E S : S \subseteq Ops \ cleared /\ Abort(S)
         \/ \E w \in Waiters, k \in Keys \cup {None} : \E os :
              os \subseteq RunsOf({k} \ {None}) /\ Wait(w, k, os)
         \/ \E w \in Waiters : Timeout(w)
<1> USE DEF IInv
<1>1. ASSUME NEW k \in Keys, AbortByKey(k)
      PROVE  \E S : S \subseteq Ops \ cleared /\ Abort(S)
  BY <1>1, RunsAreActive DEF AbortByKey
<1>2. ASSUME NEW s \in Ids, AbortBySessionId(s)
      PROVE  \E S : S \subseteq Ops \ cleared /\ Abort(S)
  <2>1. {keyOf[s]} \ {None} \subseteq Keys
    BY DEF TypeOK
  <2> QED
    BY <1>2, <2>1, RunsAreActive DEF AbortBySessionId
<1>3. ASSUME AbortAll
      PROVE  \E S : S \subseteq Ops \ cleared /\ Abort(S)
  BY <1>3, RunsAreActive DEF AbortAll
<1>4. ASSUME AbortCompacting
      PROVE  \E S : S \subseteq Ops \ cleared /\ Abort(S)
  <2>1. RunsOf(Keys) \subseteq Ops \ cleared
    BY RunsAreActive
  <2> QED
    BY <1>4, <2>1 DEF AbortCompacting
<1>5. ASSUME NEW w \in Waiters, NEW k \in Keys, WaitForIdle(w, k)
      PROVE  \E l \in Keys \cup {None} : \E os :
               os \subseteq RunsOf({l} \ {None}) /\ Wait(w, l, os)
  <2>1. RunsOf({k}) \subseteq RunsOf({k} \ {None})
    BY DEF ConstantsAssumption, RunsOf
  <2> QED
    BY <1>5, <2>1 DEF WaitForIdle
<1>6. ASSUME NEW w \in Waiters, NEW s \in Ids, WaitBySessionId(w, s)
      PROVE  \E l \in Keys \cup {None} : \E os :
               os \subseteq RunsOf({l} \ {None}) /\ Wait(w, l, os)
  <2> DEFINE l == WaitKeyFor(s)
             os == {o \in RunsOf(Keys) : s \in held[o]}
  <2>1. l \in Keys \cup {None}
    BY DEF TypeOK, WaitKeyFor
  <2>2. ASSUME NEW o \in os
        PROVE  o \in RunsOf({l} \ {None})
    <3>1. o \in Ops \ cleared /\ s \in held[o]
      BY RunsAreActive
    <3>2. Owner[s] = key[o] /\ waitKey[s] = key[o]
      BY <3>1 DEF HeldOK
    <3>3. key[o] \in Keys /\ active[key[o]] = o
      BY <3>1 DEF RegistryOK
    <3>4. keyOf[s] # None => keyOf[s] = key[o]
      <4> SUFFICES ASSUME keyOf[s] # None
                   PROVE  keyOf[s] = key[o]
        OBVIOUS
      <4>1. keyOf[s] \in Keys /\ idOf[keyOf[s]] = s
        BY DEF TypeOK, IndexesAgree
      <4>2. active[keyOf[s]] # None
        BY <4>1 DEF IndexesAgree, ConstantsAssumption
      <4>3. session[active[keyOf[s]]] = s /\ key[active[keyOf[s]]] = keyOf[s]
        BY <4>1, <4>2 DEF IndexesAgree
      <4>4. Owner[s] = keyOf[s]
        BY <4>1, <4>2, <4>3 DEF RegistryOK
      <4> QED
        BY <4>4, <3>2
    <3>5. l = key[o]
      BY <3>2, <3>4 DEF WaitKeyFor
    <3> QED
      BY <3>1, <3>3, <3>5 DEF RunsOf, ConstantsAssumption
  <2> QED
    BY <1>6, <2>1, <2>2 DEF WaitBySessionId
<1> QED
  BY <1>1, <1>2, <1>3, <1>4, <1>5, <1>6 DEF Next
-----------------------------------------------------------------------------
(* Types *)

\* Clearing the state of operations keeps the types of the maps.
LEMMA DroppedTypes ==
  ASSUME TypeOK, NEW S, S \subseteq Ops, Dropped(S)
  PROVE  /\ active' \in [Keys -> Ops \cup {None}]
         /\ idOf' \in [Keys -> Ids \cup {None}]
         /\ keyOf' \in [Ids -> Keys \cup {None}]
         /\ waitKey' \in [Ids -> Keys \cup {None}]
         /\ waitersOn' \in [Keys -> SUBSET Waiters]
         /\ cleared' \subseteq Ops
         /\ told' \in [Waiters -> {"nothing", "waiting", "ended", "timeout"}]
         /\ awaits' \in [Waiters -> SUBSET Ops]
BY DEF TypeOK, Dropped

\* Every step keeps the types.
LEMMA TypesKeptByNext ==
  ASSUME ConstantsAssumption, IInv, [Next]_vars
  PROVE  TypeOK'
<1> USE DEF IInv
<1>1. ASSUME NEW o \in Ops, NEW k \in Keys, NEW s \in Ids, Begin(o, k, s)
      PROVE  TypeOK'
  BY <1>1 DEF Begin, TypeOK, Phases, Running
<1>2. ASSUME NEW o \in Ops, NEW s \in Ids, UpdateSessionId(o, s)
      PROVE  TypeOK'
  <2>1. key[o] \in Keys /\ session[o] \in Ids
    BY <1>2 DEF UpdateSessionId, RegistryOK
  <2> QED
    BY <1>2, <2>1 DEF UpdateSessionId, Moved, Rebound, TypeOK
<1>3. ASSUME NEW o \in Ops, SetPhase(o)
      PROVE  TypeOK'
  BY <1>3 DEF SetPhase, Before, TypeOK, registry, Phases, Running, Compacting
<1>4. ASSUME NEW o \in Ops, AttachBackend(o)
      PROVE  TypeOK'
  BY <1>4 DEF AttachBackend, Received, TypeOK, registry, Backends, Attached
<1>5. ASSUME NEW o \in Ops, DetachBackend(o)
      PROVE  TypeOK'
  BY <1>5 DEF DetachBackend, TypeOK, registry, Backends
<1>6. ASSUME NEW o \in Ops, Fail(o)
      PROVE  TypeOK'
  <2>1. Dropped({o})
    BY <1>6, ClearDrops DEF Fail
  <2> QED
    BY <1>6, <2>1, DroppedTypes DEF Fail, TypeOK, Phases
<1>7. ASSUME NEW o \in Ops, Complete(o)
      PROVE  TypeOK'
  <2>1. Dropped({o})
    BY <1>7, ClearDrops DEF Complete
  <2> QED
    BY <1>7, <2>1, DroppedTypes DEF Complete, TypeOK, Phases
<1>8. ASSUME NEW o \in Ops, RaiseSignal(o)
      PROVE  TypeOK'
  BY <1>8 DEF RaiseSignal, TypeOK, registry
<1>9. ASSUME NEW S, S \subseteq Ops \ cleared, Abort(S)
      PROVE  TypeOK'
  <2>1. Dropped({o \in S : phase[o] = "queued"})
    BY <1>9, ClearDrops DEF Abort
  <2> QED
    BY <1>9, <2>1, DroppedTypes DEF Abort, Cancelled, TypeOK, Phases, Backends, Attached
<1>10. ASSUME NEW w \in Waiters, NEW k \in Keys \cup {None}, NEW os,
              os \subseteq RunsOf({k} \ {None}), Wait(w, k, os)
       PROVE  TypeOK'
  <2>1. os \subseteq Ops
    BY <1>10, RunsAreActive
  <2> QED
    BY <1>10, <2>1 DEF Wait, TypeOK
<1>11. ASSUME NEW w \in Waiters, Timeout(w)
       PROVE  TypeOK'
  BY <1>11 DEF Timeout, TypeOK
<1>12. CASE UNCHANGED vars
  BY <1>12 DEF vars, TypeOK
<1> QED
  BY <1>1, <1>2, <1>3, <1>4, <1>5, <1>6, <1>7, <1>8, <1>9, <1>10, <1>11, <1>12, NextCases
-----------------------------------------------------------------------------
(* The registry and the operations *)

\* An operation has its key from Begin until it clears its state.
LEMMA RegistryKept ==
  ASSUME ConstantsAssumption, IInv, [Next]_vars
  PROVE  RegistryOK'
<1> USE DEF IInv
<1>1. ASSUME NEW o \in Ops, NEW k \in Keys, NEW s \in Ids, Begin(o, k, s)
      PROVE  RegistryOK'
  BY <1>1 DEF Begin, TypeOK, RegistryOK, ConstantsAssumption, Running
<1>2. ASSUME NEW o \in Ops, NEW s \in Ids, UpdateSessionId(o, s)
      PROVE  RegistryOK'
  BY <1>2 DEF UpdateSessionId, TypeOK, RegistryOK
<1>3. ASSUME NEW o \in Ops, SetPhase(o)
      PROVE  RegistryOK'
  BY <1>3 DEF SetPhase, Before, registry, TypeOK, RegistryOK, Running, Compacting
<1>4. ASSUME NEW o \in Ops, AttachBackend(o)
      PROVE  RegistryOK'
  BY <1>4 DEF AttachBackend, registry, RegistryOK
<1>5. ASSUME NEW o \in Ops, DetachBackend(o)
      PROVE  RegistryOK'
  BY <1>5 DEF DetachBackend, registry, RegistryOK
<1>6. ASSUME NEW o \in Ops, Fail(o)
      PROVE  RegistryOK'
  <2>1. Dropped({o})
    BY <1>6, ClearDrops DEF Fail
  <2> QED
    BY <1>6, <2>1 DEF Fail, Dropped, TypeOK, RegistryOK, ConstantsAssumption
<1>7. ASSUME NEW o \in Ops, Complete(o)
      PROVE  RegistryOK'
  <2>1. Dropped({o})
    BY <1>7, ClearDrops DEF Complete
  <2> QED
    BY <1>7, <2>1 DEF Complete, Dropped, TypeOK, RegistryOK, ConstantsAssumption
<1>8. ASSUME NEW o \in Ops, RaiseSignal(o)
      PROVE  RegistryOK'
  BY <1>8 DEF RaiseSignal, registry, RegistryOK
<1>9. ASSUME NEW S, S \subseteq Ops \ cleared, Abort(S)
      PROVE  RegistryOK'
  <2>1. Dropped({o \in S : phase[o] = "queued"})
    BY <1>9, ClearDrops DEF Abort
  <2> QED
    BY <1>9, <2>1 DEF Abort, Dropped, TypeOK, RegistryOK, ConstantsAssumption
<1>10. ASSUME NEW w \in Waiters, NEW k \in Keys \cup {None}, NEW os,
              os \subseteq RunsOf({k} \ {None}), Wait(w, k, os)
       PROVE  RegistryOK'
  BY <1>10 DEF Wait, RegistryOK
<1>11. ASSUME NEW w \in Waiters, Timeout(w)
       PROVE  RegistryOK'
  BY <1>11 DEF Timeout, RegistryOK
<1>12. CASE UNCHANGED vars
  BY <1>12 DEF vars, RegistryOK
<1> QED
  BY <1>1, <1>2, <1>3, <1>4, <1>5, <1>6, <1>7, <1>8, <1>9, <1>10, <1>11, <1>12, NextCases

\* An owner ends its operation without a backend, and an abort cancels it.
LEMMA BackendsKept ==
  ASSUME ConstantsAssumption, IInv, [Next]_vars
  PROVE  BackendsOK'
<1> USE DEF IInv
<1>1. ASSUME NEW o \in Ops, NEW k \in Keys, NEW s \in Ids, Begin(o, k, s)
      PROVE  BackendsOK'
  BY <1>1 DEF Begin, TypeOK, BackendsOK
<1>2. ASSUME NEW o \in Ops, NEW s \in Ids, UpdateSessionId(o, s)
      PROVE  BackendsOK'
  BY <1>2 DEF UpdateSessionId, BackendsOK
<1>3. ASSUME NEW o \in Ops, SetPhase(o)
      PROVE  BackendsOK'
  BY <1>3 DEF SetPhase, Before, TypeOK, BackendsOK
<1>4. ASSUME NEW o \in Ops, AttachBackend(o)
      PROVE  BackendsOK'
  BY <1>4 DEF AttachBackend, Received, TypeOK, BackendsOK
<1>5. ASSUME NEW o \in Ops, DetachBackend(o)
      PROVE  BackendsOK'
  BY <1>5 DEF DetachBackend, TypeOK, BackendsOK
<1>6. ASSUME NEW o \in Ops, Fail(o)
      PROVE  BackendsOK'
  BY <1>6 DEF Fail, TypeOK, BackendsOK
<1>7. ASSUME NEW o \in Ops, Complete(o)
      PROVE  BackendsOK'
  BY <1>7 DEF Complete, TypeOK, BackendsOK
<1>8. ASSUME NEW o \in Ops, RaiseSignal(o)
      PROVE  BackendsOK'
  BY <1>8 DEF RaiseSignal, BackendsOK
<1>9. ASSUME NEW S, S \subseteq Ops \ cleared, Abort(S)
      PROVE  BackendsOK'
  BY <1>9 DEF Abort, Cancelled, TypeOK, BackendsOK
<1>10. ASSUME NEW w \in Waiters, NEW k \in Keys \cup {None}, NEW os,
              os \subseteq RunsOf({k} \ {None}), Wait(w, k, os)
       PROVE  BackendsOK'
  BY <1>10 DEF Wait, BackendsOK
<1>11. ASSUME NEW w \in Waiters, Timeout(w)
       PROVE  BackendsOK'
  BY <1>11 DEF Timeout, BackendsOK
<1>12. CASE UNCHANGED vars
  BY <1>12 DEF vars, BackendsOK
<1> QED
  BY <1>1, <1>2, <1>3, <1>4, <1>5, <1>6, <1>7, <1>8, <1>9, <1>10, <1>11, <1>12, NextCases
-----------------------------------------------------------------------------
(* The indexes *)

\* A session id is taken by one key only, so that its entry is free for a run
\* that begins or is rebound, and an operation takes its own entries away.
LEMMA IndexesKept ==
  ASSUME ConstantsAssumption, IInv, [Next]_vars
  PROVE  IndexesAgree'
<1> USE DEF IInv
<1>1. ASSUME NEW o \in Ops, NEW k \in Keys, NEW s \in Ids, Begin(o, k, s)
      PROVE  IndexesAgree'
  <2>1. keyOf[s] = None
    <3> SUFFICES ASSUME keyOf[s] # None
                 PROVE  FALSE
      OBVIOUS
    <3>1. keyOf[s] \in Keys /\ idOf[keyOf[s]] = s
      BY DEF TypeOK, IndexesAgree
    <3>2. active[keyOf[s]] # None
      BY <3>1 DEF IndexesAgree, ConstantsAssumption
    <3>3. session[active[keyOf[s]]] = s /\ key[active[keyOf[s]]] = keyOf[s]
      BY <3>1, <3>2 DEF IndexesAgree
    <3>4. Owner[s] = keyOf[s]
      BY <3>1, <3>2, <3>3 DEF RegistryOK
    <3> QED
      BY <1>1, <3>2, <3>4 DEF Begin
  <2>2. \A l \in Keys : active[l] # o
    BY <1>1 DEF Begin, RegistryOK, ConstantsAssumption
  <2> QED
    BY <1>1, <2>1, <2>2 DEF Begin, TypeOK, IndexesAgree, ConstantsAssumption
<1>2. ASSUME NEW o \in Ops, NEW s \in Ids, UpdateSessionId(o, s)
      PROVE  IndexesAgree'
  <2>1. /\ key[o] \in Keys /\ session[o] \in Ids
        /\ active[key[o]] = o
    BY <1>2 DEF UpdateSessionId, RegistryOK
  <2>2. \A l \in Keys : active[l] = o => l = key[o]
    BY DEF RegistryOK, ConstantsAssumption
  <2>3. idOf[key[o]] = session[o] /\ keyOf[session[o]] = key[o]
    BY <2>1 DEF IndexesAgree, ConstantsAssumption
  <2>4. keyOf[s] = None
    BY <1>2, <2>1, <2>3 DEF UpdateSessionId, IndexesAgree, ConstantsAssumption
  <2>5. /\ key' = key /\ active' = active
        /\ idOf' = [idOf EXCEPT ![key[o]] = s]
        /\ session' = [session EXCEPT ![o] = s]
        /\ keyOf' = [keyOf EXCEPT ![session[o]] = None, ![s] = key[o]]
        /\ s # session[o]
    BY <1>2 DEF UpdateSessionId, Moved
  <2>6. \A l \in Keys : active[l] # None =>
          key[active[l]] = l /\ idOf'[l] = session'[active[l]] /\ keyOf'[idOf'[l]] = l
    <3> SUFFICES ASSUME NEW l \in Keys, active[l] # None
                 PROVE  key[active[l]] = l /\ idOf'[l] = session'[active[l]] /\ keyOf'[idOf'[l]] = l
      OBVIOUS
    <3>1. active[l] \in Ops /\ key[active[l]] = l /\ idOf[l] = session[active[l]] /\ keyOf[idOf[l]] = l
      BY DEF TypeOK, IndexesAgree
    <3>2. CASE l = key[o]
      BY <2>1, <2>5, <3>1, <3>2 DEF TypeOK
    <3>3. CASE l # key[o]
      <4>1. active[l] # o /\ idOf[l] \in Ids
        BY <2>2, <3>1, <3>3 DEF TypeOK, ConstantsAssumption, RegistryOK
      <4>2. idOf[l] # session[o] /\ idOf[l] # s
        BY <2>3, <2>4, <3>1, <3>3
      <4>3. idOf'[l] = idOf[l] /\ session'[active[l]] = session[active[l]] /\ keyOf'[idOf[l]] = keyOf[idOf[l]]
        BY <2>1, <2>5, <3>1, <3>3, <4>1, <4>2 DEF TypeOK
      <4> QED
        BY <3>1, <4>3
    <3> QED
      BY <3>2, <3>3
  <2>7. \A l \in Keys : active[l] = None => idOf'[l] = None
    BY <2>1, <2>5 DEF TypeOK, IndexesAgree, ConstantsAssumption
  <2>8. \A t \in Ids : keyOf'[t] # None => idOf'[keyOf'[t]] = t
    BY <2>1, <2>3, <2>5 DEF TypeOK, IndexesAgree, ConstantsAssumption
  <2> QED
    BY <2>5, <2>6, <2>7, <2>8 DEF IndexesAgree
<1>3. ASSUME NEW o \in Ops, SetPhase(o)
      PROVE  IndexesAgree'
  BY <1>3 DEF SetPhase, registry, IndexesAgree
<1>4. ASSUME NEW o \in Ops, AttachBackend(o)
      PROVE  IndexesAgree'
  BY <1>4 DEF AttachBackend, registry, IndexesAgree
<1>5. ASSUME NEW o \in Ops, DetachBackend(o)
      PROVE  IndexesAgree'
  BY <1>5 DEF DetachBackend, registry, IndexesAgree
<1>6. ASSUME NEW o \in Ops, Fail(o)
      PROVE  IndexesAgree'
  <2>1. Dropped({o})
    BY <1>6, ClearDrops DEF Fail
  <2> QED
    BY <1>6, <2>1 DEF Fail, Dropped, TypeOK, RegistryOK, IndexesAgree, ConstantsAssumption
<1>7. ASSUME NEW o \in Ops, Complete(o)
      PROVE  IndexesAgree'
  <2>1. Dropped({o})
    BY <1>7, ClearDrops DEF Complete
  <2> QED
    BY <1>7, <2>1 DEF Complete, Dropped, TypeOK, RegistryOK, IndexesAgree, ConstantsAssumption
<1>8. ASSUME NEW o \in Ops, RaiseSignal(o)
      PROVE  IndexesAgree'
  BY <1>8 DEF RaiseSignal, registry, IndexesAgree
<1>9. ASSUME NEW S, S \subseteq Ops \ cleared, Abort(S)
      PROVE  IndexesAgree'
  <2>1. Dropped({o \in S : phase[o] = "queued"})
    BY <1>9, ClearDrops DEF Abort
  <2> QED
    BY <1>9, <2>1 DEF Abort, Dropped, TypeOK, RegistryOK, IndexesAgree, ConstantsAssumption
<1>10. ASSUME NEW w \in Waiters, NEW k \in Keys \cup {None}, NEW os,
              os \subseteq RunsOf({k} \ {None}), Wait(w, k, os)
       PROVE  IndexesAgree'
  BY <1>10 DEF Wait, IndexesAgree
<1>11. ASSUME NEW w \in Waiters, Timeout(w)
       PROVE  IndexesAgree'
  BY <1>11 DEF Timeout, IndexesAgree
<1>12. CASE UNCHANGED vars
  BY <1>12 DEF vars, IndexesAgree
<1> QED
  BY <1>1, <1>2, <1>3, <1>4, <1>5, <1>6, <1>7, <1>8, <1>9, <1>10, <1>11, <1>12, NextCases

\* The ids a run has had lead waiters to it until it is dropped.
LEMMA HeldKept ==
  ASSUME ConstantsAssumption, IInv, [Next]_vars
  PROVE  HeldOK'
<1> USE DEF IInv
<1>1. ASSUME NEW o \in Ops, NEW k \in Keys, NEW s \in Ids, Begin(o, k, s)
      PROVE  HeldOK'
  <2>1. \A p \in Ops \ cleared : p # o /\ key[p] # k
    BY <1>1 DEF Begin, RegistryOK, ConstantsAssumption
  <2> QED
    BY <1>1, <2>1 DEF Begin, TypeOK, HeldOK
<1>2. ASSUME NEW o \in Ops, NEW s \in Ids, UpdateSessionId(o, s)
      PROVE  HeldOK'
  <2>1. o \notin cleared /\ session[o] \in Ids /\ Owner[session[o]] = key[o]
    BY <1>2 DEF UpdateSessionId, RegistryOK
  <2>2. /\ waitKey' = [waitKey EXCEPT ![session[o]] = key[o], ![s] = key[o]]
        /\ held' = [held EXCEPT ![o] = held[o] \cup {s}]
        /\ Owner[s] = key[o] /\ key' = key /\ cleared' = cleared
    BY <1>2 DEF UpdateSessionId, Rebound
  <2>3. ASSUME NEW p \in Ops \ cleared, NEW t \in held'[p]
        PROVE  Owner[t] = key[p] /\ waitKey'[t] = key[p]
    BY <2>1, <2>2, <2>3 DEF TypeOK, HeldOK
  <2> QED
    BY <2>2, <2>3 DEF HeldOK
<1>3. ASSUME NEW o \in Ops, SetPhase(o)
      PROVE  HeldOK'
  BY <1>3 DEF SetPhase, registry, HeldOK
<1>4. ASSUME NEW o \in Ops, AttachBackend(o)
      PROVE  HeldOK'
  BY <1>4 DEF AttachBackend, registry, HeldOK
<1>5. ASSUME NEW o \in Ops, DetachBackend(o)
      PROVE  HeldOK'
  BY <1>5 DEF DetachBackend, registry, HeldOK
<1>6. ASSUME NEW o \in Ops, Fail(o)
      PROVE  HeldOK'
  <2>1. Dropped({o})
    BY <1>6, ClearDrops DEF Fail
  <2> QED
    BY <1>6, <2>1 DEF Fail, Dropped, TypeOK, RegistryOK, HeldOK, ConstantsAssumption
<1>7. ASSUME NEW o \in Ops, Complete(o)
      PROVE  HeldOK'
  <2>1. Dropped({o})
    BY <1>7, ClearDrops DEF Complete
  <2> QED
    BY <1>7, <2>1 DEF Complete, Dropped, TypeOK, RegistryOK, HeldOK, ConstantsAssumption
<1>8. ASSUME NEW o \in Ops, RaiseSignal(o)
      PROVE  HeldOK'
  BY <1>8 DEF RaiseSignal, registry, HeldOK
<1>9. ASSUME NEW S, S \subseteq Ops \ cleared, Abort(S)
      PROVE  HeldOK'
  <2>1. Dropped({o \in S : phase[o] = "queued"})
    BY <1>9, ClearDrops DEF Abort
  <2> QED
    BY <1>9, <2>1 DEF Abort, Dropped, TypeOK, RegistryOK, HeldOK, ConstantsAssumption
<1>10. ASSUME NEW w \in Waiters, NEW k \in Keys \cup {None}, NEW os,
              os \subseteq RunsOf({k} \ {None}), Wait(w, k, os)
       PROVE  HeldOK'
  BY <1>10 DEF Wait, HeldOK
<1>11. ASSUME NEW w \in Waiters, Timeout(w)
       PROVE  HeldOK'
  BY <1>11 DEF Timeout, HeldOK
<1>12. CASE UNCHANGED vars
  BY <1>12 DEF vars, HeldOK
<1> QED
  BY <1>1, <1>2, <1>3, <1>4, <1>5, <1>6, <1>7, <1>8, <1>9, <1>10, <1>11, <1>12, NextCases

-----------------------------------------------------------------------------
(* Those who wait *)

\* Dropping operations notifies the waiters of their keys and no others.
LEMMA DropKeepsWaiters ==
  ASSUME ConstantsAssumption, IInv, NEW S, S \subseteq Ops, Dropped(S)
  PROVE  WaitersOK'
<1> USE DEF IInv
<1>1. ASSUME NEW k \in Keys, NEW w \in waitersOn'[k]
      PROVE  /\ told'[w] = "waiting"
             /\ active'[k] # None
             /\ awaits'[w] \subseteq {active'[k]}
             /\ \A l \in Keys : w \in waitersOn'[l] => l = k
  <2>1. w \in waitersOn[k] /\ active[k] \notin S /\ w \in Waiters
    BY <1>1 DEF TypeOK, Dropped
  <2>2. \A l \in Keys : w \in waitersOn[l] => l = k
    BY <2>1 DEF WaitersOK
  <2> QED
    BY <2>1, <2>2 DEF TypeOK, Dropped, WaitersOK
<1>2. ASSUME NEW w \in Waiters, told'[w] = "waiting"
      PROVE  \E k \in Keys : w \in waitersOn'[k]
  <2>1. told[w] = "waiting" /\ ~ \E k \in Keys : active[k] \in S /\ w \in waitersOn[k]
    BY <1>2 DEF Dropped
  <2>2. PICK k \in Keys : w \in waitersOn[k]
    BY <2>1 DEF WaitersOK
  <2> QED
    BY <2>1, <2>2 DEF Dropped
<1>3. ASSUME NEW w \in Waiters, told'[w] = "ended"
      PROVE  awaits'[w] = {}
  <2>1. CASE told[w] = "ended"
    BY <2>1 DEF Dropped, WaitersOK, ToldTheTruth
  <2>2. CASE told[w] # "ended"
    <3>1. PICK k \in Keys : active[k] \in S /\ w \in waitersOn[k]
      BY <1>3, <2>2 DEF Dropped
    <3>2. awaits[w] \subseteq {active[k]} /\ active[k] \notin cleared
      BY <3>1 DEF WaitersOK, RegistryOK
    <3> QED
      BY <3>1, <3>2 DEF Dropped
  <2> QED
    BY <2>1, <2>2
<1> QED
  BY <1>1, <1>2, <1>3 DEF WaitersOK, ToldTheTruth

\* A waiter joins a key that has a run and leaves it by a timeout or when the
\* run is dropped.
LEMMA WaitersKept ==
  ASSUME ConstantsAssumption, IInv, [Next]_vars
  PROVE  WaitersOK'
<1> USE DEF IInv
<1>1. ASSUME NEW o \in Ops, NEW k \in Keys, NEW s \in Ids, Begin(o, k, s)
      PROVE  WaitersOK'
  <2>1. waitersOn[k] = {}
    BY <1>1 DEF Begin, TypeOK, WaitersOK
  <2>2. /\ waitersOn' = waitersOn /\ told' = told /\ awaits' = awaits
        /\ active' = [active EXCEPT ![k] = o]
    BY <1>1 DEF Begin
  <2>3. \A l \in Keys : \A w \in waitersOn[l] : active'[l] = active[l]
    BY <2>1, <2>2 DEF TypeOK
  <2> QED
    BY <2>2, <2>3 DEF WaitersOK, ToldTheTruth
<1>2. ASSUME NEW o \in Ops, NEW s \in Ids, UpdateSessionId(o, s)
      PROVE  WaitersOK'
  BY <1>2 DEF UpdateSessionId, WaitersOK, ToldTheTruth
<1>3. ASSUME NEW o \in Ops, SetPhase(o)
      PROVE  WaitersOK'
  BY <1>3 DEF SetPhase, registry, WaitersOK, ToldTheTruth
<1>4. ASSUME NEW o \in Ops, AttachBackend(o)
      PROVE  WaitersOK'
  BY <1>4 DEF AttachBackend, registry, WaitersOK, ToldTheTruth
<1>5. ASSUME NEW o \in Ops, DetachBackend(o)
      PROVE  WaitersOK'
  BY <1>5 DEF DetachBackend, registry, WaitersOK, ToldTheTruth
<1>6. ASSUME NEW o \in Ops, Fail(o)
      PROVE  WaitersOK'
  <2>1. Dropped({o})
    BY <1>6, ClearDrops DEF Fail
  <2> QED
    BY <2>1, DropKeepsWaiters
<1>7. ASSUME NEW o \in Ops, Complete(o)
      PROVE  WaitersOK'
  <2>1. Dropped({o})
    BY <1>7, ClearDrops DEF Complete
  <2> QED
    BY <2>1, DropKeepsWaiters
<1>8. ASSUME NEW o \in Ops, RaiseSignal(o)
      PROVE  WaitersOK'
  BY <1>8 DEF RaiseSignal, registry, WaitersOK, ToldTheTruth
<1>9. ASSUME NEW S, S \subseteq Ops \ cleared, Abort(S)
      PROVE  WaitersOK'
  <2> DEFINE Q == {o \in S : phase[o] = "queued"}
  <2>1. Q \subseteq Ops
    BY <1>9
  <2>2. Dropped(Q)
    BY <1>9, <2>1, ClearDrops DEF Abort
  <2> HIDE DEF Q
  <2> QED
    BY <2>1, <2>2, DropKeepsWaiters
<1>10. ASSUME NEW w \in Waiters, NEW k \in Keys \cup {None}, NEW os,
              os \subseteq RunsOf({k} \ {None}), Wait(w, k, os)
       PROVE  WaitersOK'
  <2>1. \A l \in Keys : w \notin waitersOn[l]
    BY <1>10 DEF Wait, WaitersOK
  <2>2. /\ awaits' = [awaits EXCEPT ![w] = os]
        /\ active' = active
    BY <1>10 DEF Wait
  <2>3. ASSUME RunsOf({k} \ {None}) = {}
        PROVE  WaitersOK'
    <3>1. told' = [told EXCEPT ![w] = "ended"] /\ waitersOn' = waitersOn /\ os = {}
      BY <1>10, <2>3 DEF Wait
    <3> QED
      BY <2>1, <2>2, <3>1 DEF TypeOK, WaitersOK, ToldTheTruth
  <2>4. ASSUME RunsOf({k} \ {None}) # {}
        PROVE  WaitersOK'
    <3>1. /\ told' = [told EXCEPT ![w] = "waiting"]
          /\ waitersOn' = [waitersOn EXCEPT ![k] = waitersOn[k] \cup {w}]
      BY <1>10, <2>4 DEF Wait
    <3>2. k \in Keys /\ active[k] # None /\ os \subseteq {active[k]}
      BY <1>10, <2>4 DEF RunsOf
    <3> QED
      BY <2>1, <2>2, <3>1, <3>2 DEF TypeOK, WaitersOK, ToldTheTruth
  <2> QED
    BY <2>3, <2>4
<1>11. ASSUME NEW w \in Waiters, Timeout(w)
       PROVE  WaitersOK'
  BY <1>11 DEF Timeout, TypeOK, WaitersOK, ToldTheTruth
<1>12. CASE UNCHANGED vars
  BY <1>12 DEF vars, WaitersOK, ToldTheTruth
<1> QED
  BY <1>1, <1>2, <1>3, <1>4, <1>5, <1>6, <1>7, <1>8, <1>9, <1>10, <1>11, <1>12, NextCases

-----------------------------------------------------------------------------
(* Theorems *)

\* The registry is empty in the beginning.
LEMMA Initially ==
  ASSUME ConstantsAssumption, Init
  PROVE  IInv
BY DEF Init, IInv, TypeOK, RegistryOK, BackendsOK, IndexesAgree, HeldOK, WaitersOK,
       ToldTheTruth, ConstantsAssumption, Phases, Backends

\* The registry is consistent, however owners, aborts and waiters interleave.
THEOREM Invariant == Spec => []IInv
<1>1. Init => IInv
  BY Initially, ConstantsAssumption
<1>2. IInv /\ [Next]_vars => IInv'
  <2> SUFFICES ASSUME IInv, [Next]_vars
               PROVE  IInv'
    OBVIOUS
  <2>1. TypeOK' /\ RegistryOK' /\ BackendsOK'
    BY TypesKeptByNext, RegistryKept, BackendsKept, ConstantsAssumption
  <2>2. IndexesAgree' /\ HeldOK' /\ WaitersOK'
    BY IndexesKept, HeldKept, WaitersKept, ConstantsAssumption
  <2> QED
    BY <2>1, <2>2 DEF IInv
<1> QED
  BY <1>1, <1>2, PTL DEF Spec

\* The types of the registry and of the operations.
THEOREM TypesKept == Spec => []TypeOK
BY Invariant, PTL DEF IInv

\* The indexes of the registry agree, however runs end or change their session.
THEOREM IndexesAlwaysAgree == Spec => []IndexesAgree
BY Invariant, PTL DEF IInv

\* Every waiter is known to a key whose run goes on.
THEOREM WaitersNotForgotten == Spec => []NoForgottenWaiter
<1>1. IInv => NoForgottenWaiter
  BY DEF IInv, WaitersOK, NoForgottenWaiter
<1> QED
  BY <1>1, Invariant, PTL

\* Who is told of the end of a run asked for one that has left the registry.
THEOREM WaitersToldTheTruth == Spec => []ToldTheTruth
<1>1. IInv => ToldTheTruth
  BY DEF IInv, WaitersOK
<1> QED
  BY <1>1, Invariant, PTL

\* A backend at work belongs to the run its key has.
THEOREM BackendsExclude == Spec => []OneBackendPerKey
<1>1. IInv => OneBackendPerKey
  BY DEF IInv, BackendsOK, RegistryOK, OneBackendPerKey
<1> QED
  BY <1>1, Invariant, PTL

\* Only the end of an operation itself takes it out of the registry.
THEOREM OperationsEndThemselves == Spec => EndsOnlyItself
<1> DEFINE Own == \A k \in Keys : active[k] \notin {None, active'[k]} =>
                    active[k] \in cleared' \ cleared
<1>1. ASSUME IInv, NEW S, S \subseteq Ops, Clear(S)
      PROVE  Own
  <2>1. Dropped(S)
    BY <1>1, ClearDrops, ConstantsAssumption DEF IInv
  <2> QED
    BY <1>1, <2>1 DEF Dropped, IInv, RegistryOK
<1>2. ASSUME IInv, [Next]_vars
      PROVE  Own
  <2>1. ASSUME NEW o \in Ops, Fail(o) \/ Complete(o)
        PROVE  Own
    <3>1. Clear({o})
      BY <2>1 DEF Fail, Complete
    <3> QED
      BY <1>1, <1>2, <3>1
  <2>2. ASSUME NEW S, S \subseteq Ops \ cleared, Abort(S)
        PROVE  Own
    <3>1. Clear({o \in S : phase[o] = "queued"})
      BY <2>2 DEF Abort
    <3> QED
      BY <1>1, <1>2, <2>2, <3>1
  <2>3. ASSUME NEW o \in Ops, NEW k \in Keys, NEW s \in Ids, Begin(o, k, s)
        PROVE  Own
    BY <1>2, <2>3 DEF Begin, IInv, TypeOK
  <2>4. ASSUME active' = active
        PROVE  Own
    BY <2>4
  <2>5. ASSUME NEW o \in Ops,
               \/ \E s \in Ids : UpdateSessionId(o, s)
               \/ SetPhase(o) \/ AttachBackend(o) \/ DetachBackend(o) \/ RaiseSignal(o)
        PROVE  active' = active
    BY <2>5 DEF UpdateSessionId, SetPhase, AttachBackend, DetachBackend, RaiseSignal, registry
  <2>6. ASSUME NEW w \in Waiters,
               Timeout(w) \/ \E k \in Keys \cup {None} : \E os : Wait(w, k, os)
        PROVE  active' = active
    BY <2>6 DEF Timeout, Wait
  <2>7. CASE UNCHANGED vars
    BY <2>4, <2>7 DEF vars
  <2> HIDE DEF Own
  <2> QED
    BY <1>2, <2>1, <2>2, <2>3, <2>4, <2>5, <2>6, <2>7, NextCases, ConstantsAssumption
<1>3. IInv /\ [Next]_vars => [Own]_vars
  BY <1>2
<1> QED
  BY <1>3, Invariant, PTL DEF Spec, EndsOnlyItself
=============================================================================
